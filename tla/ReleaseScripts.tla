---------------------------- MODULE ReleaseScripts ----------------------------
(***************************************************************************)
(* The steps of which the release, verification and benchmark scripts are  *)
(* made, and the scripts that bootstrap, build and verify a release. A     *)
(* script runs commands that make files, looks at what the files say,      *)
(* writes a result file and ends with an exit code. Names of files are     *)
(* strings; a name no step of the script makes is one of its inputs.       *)
(***************************************************************************)
EXTENDS Integers, Sequences

Step(do, uses, makes) ==
  [do |-> do, uses |-> uses, makes |-> makes, honest |-> TRUE, after |-> {}]

\* A command whose failure ends the script.
Runs(uses, makes) == Step("run", uses, makes)

\* The same, of a command that can exit with 0 and write of a failure.
Asks(uses, makes) == [Runs(uses, makes) EXCEPT !.honest = FALSE]

\* A command whose exit code goes into the list of results and decides nothing yet.
Tries(uses, makes) == Step("try", uses, makes)
Inquires(uses, makes) == [Tries(uses, makes) EXCEPT !.honest = FALSE]

\* A command that has to refuse, with exit code 1, and to write why if it makes a file.
\* The same code says that it could not write.
Refuses(uses, makes) == Step("refuse", uses, makes)

\* Files written by the script itself.
Writes(uses, makes) == Step("write", uses, makes)

\* What a former invocation left is deleted, or the files will be in a temporary
\* directory, where there is nothing left.
Empties(files) == Step("empty", {}, files)
Temporary(files) == Empties(files)

\* A check of what files say that ends the script, or that is recorded.
Demands(files) == Step("demand", files, {})
Records(files) == Step("record", files, {})

\* A file that counts as failed when it is not there.
Consults(files) == Step("consult", files, {})

\* The script goes on only if everything recorded so far is good; these steps are taken
\* only if the commands that make the files have passed.
StopsUnlessGood == Step("stop", {}, {})
IfPassed(files, steps) ==
  [i \in DOMAIN steps |-> [steps[i] EXCEPT !.after = files \union @]]

\* The result file, with the status of what is recorded, or PASS because the script came here.
Publishes == Step("publish", {}, {})
Claims == Step("claim", {}, {})

\* The exit code by what is recorded, or 0.
Answers == Step("answer", {}, {})
Finishes == Step("finish", {}, {})

-----------------------------------------------------------------------------
(* The discipline by which a script can be seen to be sound: what a reader *)
(* knows before each step, as long as everything recorded is good.         *)
(*   settled: files that are inputs, made by this invocation, or deleted   *)
(*   sure:    those that are there and tell of no failure, if of a product *)
(*   absent:  files this invocation has not made, or has deleted           *)
(*   unread:  the sets of files of which each may tell of a failure that   *)
(*            nobody has looked for in any of them                         *)
(*   owed:    files of which one is missing if a refusal left no record    *)
(*   firm:    a script that has come here has recorded nothing bad         *)

MadeBy(steps) == UNION {steps[i].makes : i \in DOMAIN steps}

Knowledge ==
  [settled : SUBSET STRING, sure : SUBSET STRING, absent : SUBSET STRING,
   unread : SUBSET (SUBSET STRING), owed : SUBSET STRING, firm : BOOLEAN]

\* A step relies on settled files only and hides no missing one; a refusal leaves its
\* record where there was none; nothing is claimed, and the script does not end,
\* before everything has been looked at.
Allowed(step, known) ==
  /\ step.uses \subseteq known.settled
  /\ step.do # "empty" => step.makes \intersect known.owed = {}
  /\ \A files \in known.unread : files \subseteq step.makes \/ files \intersect step.makes = {}
  /\ step.do = "refuse" => step.makes \subseteq known.settled \intersect known.absent
  /\ step.do \in {"answer", "finish"} => known.unread = {} /\ known.owed = {}
  /\ step.do \in {"claim", "finish"} => known.firm
  /\ step.do = "stop" => step.after = {}

\* Nobody needs to look any more for what told of a failure in one of these files.
Without(unread, files) == {u \in unread : u \intersect files = {}}

\* What is known after a step that was taken.
Learned(step, known) ==
  CASE step.do \in {"run", "try", "write"} /\ step.honest ->
         [known EXCEPT !.settled = @ \union step.makes, !.sure = @ \union step.makes,
                       !.absent = @ \ step.makes, !.unread = Without(@, step.makes),
                       !.owed = @ \ step.uses, !.firm = @ /\ step.do # "try"]
    [] step.do \in {"run", "try", "write"} /\ ~step.honest ->
         [known EXCEPT !.settled = @ \union step.makes, !.sure = @ \ step.makes,
                       !.absent = @ \ step.makes, !.unread = @ \union {step.makes},
                       !.owed = @ \ step.uses, !.firm = @ /\ step.do # "try"]
    [] step.do = "refuse" ->
         [known EXCEPT !.absent = @ \ step.makes, !.owed = @ \union step.makes, !.firm = FALSE]
    [] step.do = "empty" ->
         [known EXCEPT !.settled = @ \union step.makes, !.sure = @ \ step.makes,
                       !.absent = @ \union step.makes, !.unread = Without(@, step.makes)]
    [] step.do \in {"demand", "record", "consult"} ->
         [known EXCEPT !.sure = @ \union step.uses, !.unread = Without(@, step.uses),
                       !.owed = @ \ step.uses, !.firm = @ /\ step.do = "demand"]
    [] step.do = "stop" -> [known EXCEPT !.firm = TRUE]
    [] OTHER -> known

\* Whoever knows `more` knows `less` as well.
Implies(more, less) ==
  /\ less.settled \subseteq more.settled /\ less.sure \subseteq more.sure
  /\ less.absent \subseteq more.absent
  /\ more.unread \subseteq less.unread /\ more.owed \subseteq less.owed
  /\ less.firm => more.firm

CanBeSkipped(step, known) == ~(step.after \subseteq known.sure)

\* plan[i] is what is known before step i.
Disciplined(steps, plan) ==
  /\ Len(steps) \in Nat \ {0} /\ DOMAIN steps = 1 .. Len(steps)
  /\ plan \in [DOMAIN steps -> Knowledge]
  /\ (plan[1].settled \union plan[1].sure) \intersect MadeBy(steps) = {}
  /\ \A i \in DOMAIN steps :
       /\ Allowed(steps[i], plan[i]) /\ steps[i].after \subseteq MadeBy(steps)
       /\ i # Len(steps) =>
            /\ Implies(Learned(steps[i], plan[i]), plan[i + 1])
            /\ CanBeSkipped(steps[i], plan[i]) => Implies(plan[i], plan[i + 1])
       /\ steps[i].do \in {"publish", "claim"} =>
            \A j \in i + 1 .. Len(steps) : steps[j].do \in {"stop", "answer", "finish"}
  /\ steps[Len(steps)].do \in {"answer", "finish"} /\ steps[Len(steps)].after = {}

\* The part of the discipline that is about the result file and the exit code alone.
Orderly(steps, plan) ==
  /\ Len(steps) \in Nat \ {0} /\ DOMAIN steps = 1 .. Len(steps)
  /\ plan \in [DOMAIN steps -> Knowledge]
  /\ \A i \in DOMAIN steps :
       /\ steps[i].do \in {"claim", "finish"} => plan[i].firm
       /\ steps[i].do = "stop" => steps[i].after = {}
       /\ i # Len(steps) /\ plan[i + 1].firm => Learned(steps[i], plan[i]).firm
       /\ steps[i].do \in {"publish", "claim"} =>
            \A j \in i + 1 .. Len(steps) : steps[j].do \in {"stop", "answer", "finish"}
  /\ steps[Len(steps)].do \in {"answer", "finish"} /\ steps[Len(steps)].after = {}

-----------------------------------------------------------------------------
(* The scripts. *)

\* compiler/selfhost/bootstrap.py: a parity script, then what it has written.
Parity(file) == <<Runs({"stage1"}, {file}), Demands({file})>>

BootstrapStage1 ==
  <<Runs({}, {"stage1"}), Asks({"stage1"}, {"self_scan"}), Demands({"self_scan"})>>
  \o Parity("lexer_parity") \o Parity("parser_parity") \o Parity("project_parity")
  \o Parity("declaration_parity") \o Parity("resolution_parity")
  \o Parity("flow_parity") \o Parity("ir_parity")
  \o <<Claims, Finishes>>

\* The observations by which two stages are compared.
Observe(built) == <<Asks({built}, {built \o "_tokens"}), Asks({built}, {built \o "_ir"})>>
Observations == {"stage2_tokens", "stage3_tokens", "stage2_ir", "stage3_ir"}

\* compiler/selfhost/bootstrap_closure.py: the directories of generated sources are not emptied.
BootstrapClosure ==
  <<Runs({}, {"stage1", "generated1"}),
    Runs({"stage1"}, {"stage2", "generated2"}),
    Runs({"stage2"}, {"stage3", "generated3"})>>
  \o Observe("stage2") \o Observe("stage3")
  \o <<Records({"stage1", "stage2", "stage3"}), Records({"generated1", "generated2", "generated3"}),
       Records(Observations),
       Publishes, StopsUnlessGood, Finishes>>

\* compiler/selfhost/bootstrap_windows_closure.py.
WindowsBuild(compiler, built) ==
  <<Asks({compiler}, {built, built \o "_generated", built \o "_record"})>>

BootstrapWindowsClosure ==
  <<Demands({"stage0"}), Runs({"stage0"}, {"stage1"}), Demands({"tcc"})>>
  \o WindowsBuild("stage1", "stage2") \o WindowsBuild("stage2", "stage3")
  \o Observe("stage2") \o Observe("stage3")
  \o <<Records({"stage2", "stage3"}), Records({"stage2_generated", "stage3_generated"}),
       Records(Observations), Records({"stage2_record", "stage3_record"}),
       Publishes, StopsUnlessGood, Finishes>>

-----------------------------------------------------------------------------
\* scripts/native_toolchain.py: a compiler counts as native by the build record next to it.
ValidateNativeCompiler == <<Demands({"compiler", "compiler_record"})>>

\* resolve_native_compiler: the first candidate that validates.
ResolveNativeCompiler == ValidateNativeCompiler

ExtractDistribution == <<Temporary({"distribution"}), Demands({"archive"}), Writes({"archive"}, {"distribution"})>>

\* The former installation is deleted before the new one is copied.
InstallDistribution ==
  ExtractDistribution
  \o ValidateNativeCompiler
  \o <<Empties({"installed", "provenance"}), Writes({"distribution"}, {"installed"}),
       Demands({"installed"}), Writes({"installed"}, {"provenance"})>>
  \o <<Claims, Finishes>>

ToolchainStatus ==
  ResolveNativeCompiler \o ValidateNativeCompiler \o <<Demands({"provenance_of_installation"}), Claims, Finishes>>

\* release/build_standalone_windows.py.
PrepareTree == <<Demands({}), Empties({"tree", "manifest"})>>
CopyTree == <<Writes({"sources", "compiler", "seed"}, {"tree"}), Demands({"tree"})>>
WriteManifest == <<Writes({"tree"}, {"manifest"})>>
WriteArchive == <<Writes({"tree", "manifest"}, {"archive"})>>

BuildStandalone ==
  ResolveNativeCompiler \o ValidateNativeCompiler \o <<Demands({"compiler", "seed"})>>
  \o PrepareTree \o CopyTree \o WriteManifest \o WriteArchive \o <<Finishes>>

\* release/verify_standalone_windows.py.
NativeBuild(compiler, program) == <<Runs({compiler}, {program})>>

VerifierReports == {"cli_report", "workflow_report", "lsp_report", "semantic_lsp_report"}

VerifyExtracted ==
  <<Demands({"archive", "comparison_archive"}), Demands({}),
    Empties({"distribution", "stage2", "stage3", "record2", "record3", "conformance_report"}
              \union VerifierReports),
    Writes({"archive"}, {"distribution"}), Demands({"distribution"}),
    Writes({"distribution"}, {"record2", "record3"}),
    Runs({"distribution"}, {"stage2", "record2"}), Runs({"stage2"}, {"stage3", "record3"}),
    Demands({"stage2", "stage3", "record2", "record3"})>>

\* A maintained program is built, run, and its exit code and output compared.
VerifyPrograms ==
  NativeBuild("stage3", "program")
  \o <<Inquires({"program"}, {"program_output"}), Records({"program_output"}), StopsUnlessGood>>

Reported(file) == <<Runs({"stage3"}, {file}), Demands({file})>>

VerifyServices ==
  Reported("cli_report") \o Reported("workflow_report")
  \o Reported("lsp_report") \o Reported("semantic_lsp_report")
  \o <<Asks({"stage3"}, {"conformance_report"}), Demands({})>>

VerifyVerdict ==
  <<Records({"stage2", "stage3", "record2", "record3"}), Records(VerifierReports),
    Records({"conformance_report"}),
    Publishes, StopsUnlessGood, Finishes>>

VerifyStandalone == VerifyExtracted \o VerifyPrograms \o VerifyServices \o VerifyVerdict

\* release/windows_native_release.py: verified only when both archives could be built.
VerifierSummary == <<Consults({"verifier_result"})>>

WindowsNativeRelease ==
  ResolveNativeCompiler \o ValidateNativeCompiler
  \o <<Tries({"compiler"}, {"archive_a"})>>
  \o IfPassed({"archive_a"}, <<Tries({"compiler"}, {"archive_b"})>>)
  \o IfPassed({"archive_a", "archive_b"}, <<Tries({"archive_a", "archive_b"}, {"verifier_result"})>>)
  \o <<Consults({"archive_a", "archive_b"})>> \o VerifierSummary
  \o <<Publishes, Answers>>

-----------------------------------------------------------------------------
\* release/build_release_artifacts.py: the gates of the record are PASS because its
\* inputs were; none is evaluated again.
PrepareOutput == <<Demands({}), Empties({"artifacts", "archives", "evidence", "checksums", "record"})>>

CheckInputs ==
  <<Demands({"standalone", "sh6_result", "conformance_report"}), Demands({"completeness"}),
    Demands({"sh6_result"}), Demands({"standalone", "sh6_result"}), Demands({"conformance_report"})>>

WriteEntries == <<Writes({"standard", "conformance"}, {"archives"}), Writes({"sources"}, {"source_archive"})>>
Evidence == <<Writes({"sh6_result", "completeness"}, {"evidence"})>>

WriteArtifacts ==
  <<Writes({"standard"}, {"artifacts"})>> \o WriteEntries \o Evidence
  \o <<Writes({"conformance_report", "standalone"}, {"copies"})>>

BuildReleaseArtifacts ==
  CheckInputs \o PrepareOutput \o WriteArtifacts
  \o <<Writes({"artifacts", "archives", "source_archive", "evidence", "copies"}, {"checksums"}),
       Writes({"checksums"}, {"record"}), Claims, Finishes>>

\* release/verify_release_artifacts.py, on the set alone or against an independent one.
SafeArchive == <<Demands({"archives"})>>
InternalManifest == SafeArchive \o <<Demands({"archives", "manifests"})>>
VerifyRelease ==
  <<Demands({"record"}), Demands({"record", "artifacts"}), Demands({"checksums", "record"})>>
  \o InternalManifest \o <<Demands({"conformance_report"}), Demands({"evidence"})>>

VerifyReleaseArtifacts ==
  VerifyRelease \o <<Demands({"record"})>> \o VerifyRelease
  \o <<Demands({"artifacts", "comparison"}), Claims, Finishes>>

\* release/build_source_archive.py and release/verify_source_archive.py.
BuildSourceArchive == <<Writes({"sources"}, {"source_archive"}), Finishes>>
VerifySourceArchive == SafeArchive \o <<Demands({"manifests"}), Finishes>>

-----------------------------------------------------------------------------
\* .github/scripts/sh26_release.py, of the release 1.0.0: the output is deleted first.
Generation(compiler, built) == <<Runs({compiler}, {built})>>
ReleaseFiles == {"stage2", "stage3", "stage4", "workflow_report", "native_release"}
StageReports(compiler) ==
  <<Runs({compiler}, {"workflow_report"}), Demands({"workflow_report"}),
    Runs({compiler}, {"native_release"}), Demands({"native_release"})>>

QualifyRelease ==
  <<Demands({"intent"}), Empties(ReleaseFiles), Demands({"seed"})>>
  \o Generation("seed", "stage2") \o Generation("stage2", "stage3") \o Generation("stage3", "stage4")
  \o <<Demands({"stage2", "stage3", "stage4"})>> \o StageReports("stage4")
  \o <<Claims, Finishes>>

PackageRelease ==
  <<Demands({"intent", "built_release"}), Empties({"set_a", "set_b", "assets"}),
    Writes({"built_release", "sources"}, {"set_a"}), Writes({"built_release", "sources"}, {"set_b"}),
    Demands({"set_a", "set_b"}), Writes({"set_a"}, {"assets"}), Claims, Finishes>>

\* .github/scripts/sh27_release.py, of the release 1.0.1: mkdir refuses a directory that is there.
NewDirectory(files) == <<Demands({}), Empties(files)>>
CollectProofs ==
  <<Demands({"qualification"}), Writes({"proof_artifacts"}, {"proofs"}), Demands({"proofs"}),
    Writes({"proofs"}, {"evidence"})>>
RetainLocal == <<Demands({"local_archive"}), Writes({"local_archive"}, {"evidence"})>>
MeasuredGeneration(compiler, built) ==
  <<Runs({compiler}, {built, built \o "_record"}), Demands({built \o "_record"})>>
AssembleSets ==
  <<Writes({"native_release", "evidence"}, {"set_a"}), Writes({"native_release", "evidence"}, {"set_b"}),
    Demands({"set_a", "set_b"}), Writes({"set_a"}, {"assets"})>>

ReleaseCandidate ==
  <<Demands({"intent", "qualification"})>>
  \o NewDirectory({"evidence", "proofs", "stage1", "stage1_record", "stage2_record", "stage3_record",
                   "boundaries", "manifests", "set_a", "set_b", "assets"} \union ReleaseFiles)
  \o CollectProofs \o RetainLocal \o <<Demands({"seed"})>>
  \o MeasuredGeneration("seed", "stage1") \o MeasuredGeneration("stage1", "stage2")
  \o MeasuredGeneration("stage2", "stage3")
  \o <<Demands({"stage2", "stage3"})>> \o StageReports("stage3")
  \o <<Runs({"stage3"}, {"boundaries"}), Runs({"native_release"}, {"manifests"})>>
  \o AssembleSets \o <<Claims, Finishes>>
===============================================================================
