------------------------------ MODULE MCToolchain ------------------------------
(***************************************************************************)
(* The processes around the compiler side by side: its language server,    *)
(* the supervisor of measured commands, the one behind process.run, the    *)
(* threads that look for the hash function, the conformance cache of the   *)
(* daily workflow, the publication of a release.                           *)
(* A behaviour chooses one of them and leaves the others at rest.          *)
(***************************************************************************)
EXTENDS LanguageServer, ReleasePublication, ProcessSupervise, MeasuredProcess,
        HashResolver, ConformanceCache

CONSTANT Parts

(* A client of the language server that sends any message at any time. *)
Texts == {<<>>, <<"p">>}
Ids == 1 .. 2

MCMessages ==
  [kind : {"initialize"}, id : Ids, root : Roots]
    \union [kind : {"shutdown", "request", "cancel"}, id : Ids]
    \union {[kind |-> "exit"]}
    \union [kind : {"folders"}, added : {<<>>} \union {<<r>> : r \in Roots},
            removed : {<<>>} \union {<<r>> : r \in Roots}]
    \union [kind : {"removedOnly"}, removed : {<<r>> : r \in Roots}]
    \union [kind : {"didOpen"}, doc : Documents, version : 1 .. 2, text : Texts]
    \union [kind : {"didChange"}, doc : Documents, version : 1 .. 2,
            whole : BOOLEAN, first : {0}, last : 0 .. 1, put : Texts]
    \union [kind : {"didClose"}, doc : Documents]

\* A server is started, again when it has ended.
Launch ==
  /\ server = "exited"
  /\ server' = "running"
  /\ FreshState
  /\ UNCHANGED <<toServer, toClient>>

ClientSends ==
  /\ server = "running" /\ toServer = <<>>
  /\ \E m \in MCMessages : toServer' = <<m>>
  /\ toClient' = <<>>
  /\ UNCHANGED <<server, stateVars>>

Written == INSTANCE VerifierScripts

(* What can be known before each step of a script, computed from its start: *)
(* after a step that may be passed over, what holds either way.             *)
AtTheStart(steps) ==
  [settled |-> UNION {steps[i].uses : i \in DOMAIN steps} \ Written!MadeBy(steps), sure |-> {},
   absent |-> Written!MadeBy(steps), unread |-> {}, owed |-> {}, firm |-> TRUE]

EitherWay(k, l) ==
  [settled |-> k.settled \intersect l.settled, sure |-> k.sure \intersect l.sure,
   absent |-> k.absent \intersect l.absent, unread |-> k.unread \union l.unread,
   owed |-> k.owed \union l.owed, firm |-> k.firm /\ l.firm]

PlanOf(steps) ==
  LET Before[i \in DOMAIN steps] ==
        IF i = 1 THEN AtTheStart(steps)
        ELSE LET known == Before[i - 1]
                 learned == Written!Learned(steps[i - 1], known)
             IN  IF Written!CanBeSkipped(steps[i - 1], known) THEN EitherWay(known, learned)
                 ELSE learned
  IN  Before

\* The conditions under which ToolchainProof shows SuccessIsEarned, of all scripts but the
\* two that read old records, and ResultIsTheVerdict, of all.
ASSUME CatalogueIsDisciplined ==
  \A s \in DOMAIN Written!Scripts \ Written!OverOldRecords :
    Written!Disciplined(Written!Scripts[s], PlanOf(Written!Scripts[s]))

ASSUME CatalogueIsOrderly ==
  \A s \in DOMAIN Written!Scripts : Written!Orderly(Written!Scripts[s], PlanOf(Written!Scripts[s]))

VARIABLE part

ServerAtRest == ServerInit
MeasureAtRest ==
  /\ limits = [private |-> NoLimit, working |-> NoLimit, timeout |-> FALSE]
  /\ step = "create_job" /\ job = "none" /\ child = "none" /\ descendant = "none"
  /\ members = {} /\ use = 0 /\ peak = 0 /\ working = 0 /\ peakAtExit = 0
  /\ late = FALSE /\ breach = "none" /\ timedOut = FALSE /\ readLast = FALSE
  /\ outcome = "running"
SuperviseAtRest ==
  /\ turn = "done" /\ verdict = "launch"
  /\ program = "none" /\ helper = "none" /\ inJob = FALSE
  /\ writers = {} /\ pipe = Nobody
  /\ resident = 0 /\ overdue = FALSE /\ readable = FALSE
  /\ signaled = FALSE /\ over = {}
  /\ captured = 0 /\ room = 1 /\ lost = FALSE
ResolverAtRest ==
  /\ resolver = "unset" /\ references = 0
  /\ place = [t \in Threads |-> "start"] /\ holds = [t \in Threads |-> FALSE]
  /\ looked = [t \in Threads |-> "unset"] /\ callee = [t \in Threads |-> "unset"]
CacheAtRest ==
  /\ inputs = "none" /\ conforms = {}
  /\ report = Nothing /\ cache = Nothing /\ measured = Nothing
  /\ stage = "idle" /\ fingerprint = "none"
  /\ hit = FALSE /\ code = 0 /\ passed = FALSE /\ validated = {}
  /\ drifted = FALSE /\ doubtful = FALSE

PublicationAtRest ==
  /\ contents = <<"none">> /\ approvals = <<0>> /\ candidates = {}
  /\ tag = 0 /\ release = "none" /\ remote = [n \in Assets |-> Absent]
  /\ commit = 0 /\ phase = "idle" /\ todo = {} /\ failures = 0

ToolchainInit ==
  /\ part \in Parts
  /\ ServerAtRest
  /\ IF part = "measure" THEN MeasureInit ELSE MeasureAtRest
  /\ IF part = "supervise" THEN SuperviseInit ELSE SuperviseAtRest
  /\ IF part = "hashing" THEN ResolverInit ELSE ResolverAtRest
  /\ IF part = "cache" THEN CacheInit ELSE CacheAtRest
  /\ IF part = "publication" THEN PublicationInit ELSE PublicationAtRest

StepServer ==
  /\ part = "server" /\ (Launch \/ ClientSends \/ Handle)
  /\ UNCHANGED <<part, measureVars, superviseVars, resolverVars, cacheVars, publicationVars>>
StepMeasure ==
  /\ part = "measure" /\ MeasureNext
  /\ UNCHANGED <<part, serverVars, superviseVars, resolverVars, cacheVars, publicationVars>>
StepSupervise ==
  /\ part = "supervise" /\ SuperviseNext
  /\ UNCHANGED <<part, serverVars, measureVars, resolverVars, cacheVars, publicationVars>>
StepHashing ==
  /\ part = "hashing" /\ ResolverNext
  /\ UNCHANGED <<part, serverVars, measureVars, superviseVars, cacheVars, publicationVars>>
StepCache ==
  /\ part = "cache" /\ CacheNext
  /\ UNCHANGED <<part, serverVars, measureVars, superviseVars, resolverVars, publicationVars>>
StepPublication ==
  /\ part = "publication" /\ PublicationNext
  /\ UNCHANGED <<part, serverVars, measureVars, superviseVars, resolverVars, cacheVars>>

ToolchainNext ==
  StepServer \/ StepMeasure \/ StepSupervise \/ StepHashing \/ StepCache \/ StepPublication

toolchainVars ==
  <<part, serverVars, measureVars, superviseVars, resolverVars, cacheVars, publicationVars>>

\* The supervisor is scheduled, and its clock goes on.
StepSupervisor == StepMeasure /\ SupervisorStep
StepClock == StepMeasure /\ late' # late

\* As in SuperviseSpec: the caller of process.run goes on, and time passes.
StepCaller == StepSupervise /\ CallerStep
StepTime == StepSupervise /\ overdue' # overdue

\* As in PublicationSpec: the runner goes on, and the owner starts a run again.
StepRunner == StepPublication /\ RunnerStep
StepApprove == StepPublication /\ Approve

ToolchainSpec ==
  /\ ToolchainInit /\ [][ToolchainNext]_toolchainVars
  /\ WF_toolchainVars(StepSupervisor) /\ WF_toolchainVars(StepClock)
  /\ WF_toolchainVars(StepCaller) /\ WF_toolchainVars(StepTime)
  /\ WF_toolchainVars(StepRunner) /\ WF_toolchainVars(StepApprove)
===============================================================================
