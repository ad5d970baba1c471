-------------------------- MODULE ReleasePublication --------------------------
(***************************************************************************)
(* The publication of a release by .github/scripts/sh27_release.py: the    *)
(* candidates that are built, the owner who approves one of them in the    *)
(* intent, and the runs of the workflow that tag, fill and open the        *)
(* release at GitHub. A run can die at any step; the next starts from a    *)
(* fresh checkout and finds at GitHub what is left of the others. The      *)
(* workflow's concurrency group lets one run go on at a time.              *)
(*                                                                         *)
(* Commits are numbers in the order of master. An asset is told by the     *)
(* commit its bytes are of: for a payload the candidate's, for the record  *)
(* of the release the commit that is released.                             *)
(***************************************************************************)
EXTENDS Integers, Sequences

CONSTANTS
  Contents,      \* what a commit can hold apart from the intent
  Assets,        \* the files of a release: numbers, in the order of the names
  Record,        \* the one that is the record
  MaxCommits,    \* bounds the pushes
  MaxFailures    \* bounds the runs that die and the uploads that are damaged

VARIABLES
  contents,      \* by commit of master
  approvals,     \* by commit, the candidate its intent approves: a commit, or 0
  candidates,    \* commits whose candidate is kept as an artifact
  tag, release,  \* at GitHub: the tagged commit, or 0; "none", "draft", "public"
  remote,        \* the assets uploaded: a commit, 0 (absent) or -1 (damaged)
  commit, phase, \* the run that goes on: its commit, or 0; where it is
  todo,          \* the assets that were not there when it looked
  failures

ownerVars == <<contents, approvals, candidates>>
remoteVars == <<tag, release, remote>>
workflowVars == <<commit, phase, todo>>
publicationVars == <<ownerVars, remoteVars, workflowVars, failures>>

Absent == 0
Damaged == -1

Commits == DOMAIN contents
Master == Len(contents)

\* The intent at c approves a candidate that was built, and since which only intents changed.
IsApproved(c) ==
  approvals[c] \in candidates /\ contents[approvals[c]] = contents[c]

\* The approved payloads, and the record completed with the commit and the owner's time.
Expected(c) == [n \in Assets |-> IF n = Record THEN c ELSE approvals[c]]

PublicationInit ==
  /\ \E content \in Contents : contents = <<content>>
  /\ approvals = <<0>> /\ candidates = {}
  /\ tag = 0 /\ release = "none" /\ remote = [n \in Assets |-> Absent]
  /\ commit = 0 /\ phase = "idle" /\ todo = {} /\ failures = 0

-----------------------------------------------------------------------------
\* Somebody pushes to master; the intent of the commit approves a candidate or none.
Push ==
  /\ Master < MaxCommits
  /\ \E content \in Contents, k \in {0} \union Commits :
       contents' = Append(contents, content) /\ approvals' = Append(approvals, k)
  /\ UNCHANGED <<candidates, remoteVars, workflowVars, failures>>

\* A run in mode verify that gets to its end keeps its candidate.
BuildCandidate ==
  /\ phase = "idle"
  /\ \E c \in Commits : candidates' = candidates \union {c}
  /\ UNCHANGED <<contents, approvals, remoteVars, workflowVars, failures>>

RunEnds == commit' = 0 /\ phase' = "idle" /\ todo' = {}
Goes(next) == phase' = next /\ UNCHANGED <<commit, todo>>

\* A run in mode publish accepts what it has checked out, which is where master was.
Approve ==
  /\ phase = "idle" /\ IsApproved(Master)
  /\ commit' = Master /\ phase' = "tag"
  /\ UNCHANGED <<ownerVars, remoteVars, todo, failures>>

\* Mutant: the tag is pushed by force.
MoveTag ==
  /\ phase = "tag"
  /\ tag' = commit /\ Goes("find")
  /\ UNCHANGED <<ownerVars, release, remote, failures>>
\* A tag that is there already has to point to the commit.
TakeTag ==
  /\ phase = "tag"
  /\ IF tag \in {0, commit}
     THEN tag' = commit /\ Goes("find")
     ELSE UNCHANGED tag /\ RunEnds
  /\ UNCHANGED <<ownerVars, release, remote, failures>>

\* Mutant: without the list of releases, which holds the drafts too.
FoundByTag == release = "public"
\* The tag lookup, which excludes drafts, and then the list.
Found == release # "none"

\* Before a draft is created, and after.
FindRelease ==
  /\ phase \in {"find", "created"}
  /\ CASE Found -> /\ phase' = "compare"
                   /\ todo' = {n \in Assets : remote[n] = Absent}
                   /\ UNCHANGED commit
       [] ~Found /\ phase = "find" -> Goes("create")
       [] OTHER -> RunEnds
  /\ UNCHANGED <<ownerVars, remoteVars, failures>>

CreateDraft ==
  /\ phase = "create"
  /\ release' = "draft" /\ Goes("created")
  /\ UNCHANGED <<ownerVars, tag, remote, failures>>

\* What is there already is downloaded, and has to be what would be uploaded.
Compare ==
  /\ phase = "compare"
  /\ IF \A n \in Assets \ todo : remote[n] = Expected(commit)[n] THEN Goes("upload") ELSE RunEnds
  /\ UNCHANGED <<ownerVars, remoteVars, failures>>

\* The next missing asset; GitHub refuses a name that is there.
Upload ==
  /\ phase = "upload"
  /\ \E n \in todo :
       /\ \A other \in todo : n <= other
       /\ remote[n] = Absent
       /\ \/ /\ remote' = [remote EXCEPT ![n] = Expected(commit)[n]]
             /\ UNCHANGED failures
          \/ /\ failures < MaxFailures
             /\ remote' = [remote EXCEPT ![n] = Damaged]
             /\ failures' = failures + 1
       /\ todo' = todo \ {n}
  /\ UNCHANGED <<ownerVars, tag, release, commit, phase>>

\* Mutant: the names are compared, and not the bytes.
VerifyNames ==
  /\ phase = "upload" /\ todo = {}
  /\ IF \A n \in Assets : remote[n] # Absent THEN Goes("publish") ELSE RunEnds
  /\ UNCHANGED <<ownerVars, remoteVars, failures>>
\* All assets are downloaded again and compared.
Verify ==
  /\ phase = "upload" /\ todo = {}
  /\ IF remote = Expected(commit) THEN Goes("publish") ELSE RunEnds
  /\ UNCHANGED <<ownerVars, remoteVars, failures>>

MakePublic ==
  /\ phase = "publish"
  /\ release' = "public" /\ Goes("confirm")
  /\ UNCHANGED <<ownerVars, tag, remote, failures>>

Confirm ==
  /\ phase = "confirm" /\ RunEnds
  /\ UNCHANGED <<ownerVars, remoteVars, failures>>

\* Cancelled, out of time, without a network, or the immutable 1.0.0 could not be read.
RunFails ==
  /\ phase # "idle" /\ failures < MaxFailures
  /\ RunEnds /\ failures' = failures + 1
  /\ UNCHANGED <<ownerVars, remoteVars>>

RunnerStep ==
  TakeTag \/ FindRelease \/ CreateDraft \/ Compare \/ Upload \/ Verify \/ MakePublic \/ Confirm

PublicationNext == Push \/ BuildCandidate \/ Approve \/ RunnerStep \/ RunFails

\* The runner goes on, and the owner starts a run again while there is something to publish.
PublicationSpec ==
  /\ PublicationInit /\ [][PublicationNext]_publicationVars
  /\ WF_publicationVars(RunnerStep) /\ WF_publicationVars(Approve)

-----------------------------------------------------------------------------
PublicationTypeOK ==
  /\ contents \in Seq(Contents) /\ approvals \in Seq(Nat) /\ Len(approvals) = Master
  /\ \A c \in Commits : approvals[c] \in {0} \union Commits
  /\ candidates \subseteq Commits
  /\ tag \in {0} \union Commits /\ release \in {"none", "draft", "public"}
  /\ remote \in [Assets -> Int]
  /\ commit \in {0} \union Commits
  /\ phase \in {"idle", "tag", "find", "create", "created", "compare", "upload", "publish", "confirm"}
  /\ todo \subseteq Assets /\ failures \in Nat

(* A release is public only with every asset, undamaged, of the tagged     *)
(* commit and of the candidate the intent of that commit approves:         *)
(* whichever runs died before, and whatever was pushed meanwhile.          *)
PublishedIsApproved ==
  release = "public" => tag # 0 /\ IsApproved(tag) /\ remote = Expected(tag)

(* Whatever runs follow, and whatever is pushed between them: a tag stays  *)
(* where it is, an asset stays what it was uploaded as, damaged or not, a  *)
(* draft is created once, and nothing is done to a public release. What a  *)
(* reader has once downloaded is what every later reader gets.             *)
PublicationStays ==
  [][/\ tag # 0 => tag' = tag
     /\ \A n \in Assets : remote[n] # Absent => remote'[n] = remote[n]
     /\ release = "draft" => release' \in {"draft", "public"}
     /\ release = "public" => UNCHANGED remoteVars]_publicationVars

(* A run that is not cut short is refused only if the tag is of another    *)
(* commit or an upload was damaged: what runs that died left behind, a     *)
(* draft with some of the assets, never makes the next one give up.        *)
RefusalHasCause ==
  [][phase \notin {"idle", "confirm"} /\ phase' = "idle" /\ failures' = failures =>
       tag \notin {0, commit} \/ \E n \in Assets : remote[n] = Damaged]_publicationVars

\* Nothing that earlier runs left stands in the way of publishing master.
Publishable ==
  /\ IsApproved(Master) /\ tag \in {0, Master}
  /\ \A n \in Assets : remote[n] \in {Absent, Expected(Master)[n]}

(* Runs that died at any step do not keep the release from being finished  *)
(* by another run, unless master has moved or an upload was damaged.       *)
RetryFinishes == Publishable ~> (release = "public" \/ ~Publishable)
===============================================================================
