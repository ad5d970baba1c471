---------------------------- MODULE VerifierScripts ----------------------------
(***************************************************************************)
(* The scripts that verify one milestone each (scripts/verify_sh*.py), the *)
(* full workflow that runs them (scripts/windows_native_workflow.py), the  *)
(* scripts that measure the compiler (compiler/selfhost/benchmark_*.py),   *)
(* and those that run the maintained programs and the demos. A measured    *)
(* command is one of MeasuredProcess.                                      *)
(***************************************************************************)
EXTENDS ReleaseScripts

\* A command of which exit code and output are compared, as one case of the report.
CaseOf(uses, makes) == <<Inquires(uses, makes), Records(makes)>>

\* verify_sh9_cli.py: help, version, target, explain.
InformationCases == CaseOf({"compiler"}, {"console"})

\* openc check: a record that is not there counts as an empty one.
CheckValid == <<Tries({"compiler"}, {"valid_record"}), Consults({"valid_record"})>>
CheckRejected(record) == <<Refuses({"compiler"}, {record}), Consults({record})>>
RejectedCases ==
  CheckRejected("lexical_record") \o CheckRejected("flow_record") \o CheckRejected("semantic_record")
RunCases == CaseOf({"compiler"}, {"console"})

\* The directory of the records is made when it is not there, and never emptied.
VerifyCli ==
  ResolveNativeCompiler \o ValidateNativeCompiler
  \o InformationCases \o CheckValid \o RejectedCases \o RunCases
  \o <<Publishes, Answers>>

\* verify_sh10_project_workflow.py: formatting, project contexts, test manifests.
WorkflowFiles == {"check", "write", "project_record", "context", "list", "report", "language", "assertion"}
Reports(record) == <<Inquires({"compiler"}, {record}), Consults({record})>>
FormatCases ==
  <<Writes({}, {"source"}), Refuses({"compiler", "source"}, {"check"}), Consults({"check"})>>
  \o Reports("write") \o <<Demands({"source"}), Tries({"compiler", "source"}, {}), Records({"source"})>>
  \o CaseOf({"compiler", "source"}, {"console"}) \o Reports("project_record")
  \o <<Writes({}, {"invalid"}), Refuses({"compiler", "invalid"}, {}), Records({"invalid"})>>
ContextCases == Reports("context") \o CaseOf({"compiler"}, {"console"})
TestCases ==
  Reports("list") \o Reports("report")
  \o <<Writes({}, {"manifests"})>> \o CheckRejected("language") \o CheckRejected("assertion")
  \o <<Refuses({"compiler"}, {})>>

\* A mistake: the records of an earlier verification are still there.
VerifyOverOldReports ==
  ResolveNativeCompiler \o ValidateNativeCompiler
  \o InformationCases \o FormatCases \o ContextCases \o TestCases
  \o <<Publishes, Answers>>

VerifyProjectWorkflow ==
  ResolveNativeCompiler \o ValidateNativeCompiler \o <<Empties(WorkflowFiles)>>
  \o InformationCases \o FormatCases \o ContextCases \o TestCases
  \o <<Publishes, Answers>>

\* verify_sh11_lsp.py and verify_sh12_semantic_lsp.py: two sessions with a server each,
\* and their transcripts compared. A session that raises ends the script.
Session(transcript) == <<Asks({"compiler"}, {transcript}), Records({transcript})>>
NegativeSessions == Session("uninitialized") \o Session("duplicate")
Transcripts == <<Writes({"transcript_a", "transcript_b"}, {"transcripts"}), Records({"transcripts"})>>

VerifyLsp ==
  ResolveNativeCompiler \o ValidateNativeCompiler \o <<Empties({"transcripts"})>>
  \o InformationCases
  \o Session("transcript_a") \o Session("transcript_b") \o NegativeSessions
  \o Transcripts \o <<Publishes, Answers>>

VerifySemanticLsp ==
  ResolveNativeCompiler \o ValidateNativeCompiler \o <<Empties({"transcripts"})>>
  \o Session("transcript_a") \o Session("transcript_b")
  \o Transcripts \o <<Demands({}), Records({"transcripts", "schema"}), Publishes, Answers>>

\* verify_sh13_throughput_independence.py: reports of other scripts, as they are.
ThroughputReports ==
  <<Demands({"timings", "rebuild", "validation", "conformance", "standalone", "budgets", "compiler_record"}),
    Demands({"archive", "comparison_archive"}),
    Records({"timings"}), Records({"rebuild"}), Records({"validation"}), Records({"conformance"}),
    Records({"standalone"})>>
ArchivesAgree == <<Records({"archive", "comparison_archive"})>>

\* A mistake: the report is written before the archives are compared.
PublishEarly == ThroughputReports \o <<Publishes>> \o ArchivesAgree \o <<StopsUnlessGood, Finishes>>

VerifyThroughput == ThroughputReports \o ArchivesAgree \o <<Publishes, StopsUnlessGood, Finishes>>

\* verify_sh15_windows_x64.py with --enforce.
StaticChecks == <<Records({"report_a"}), Records({"target_record"}), Records({"report_a", "report_b"})>>
MachineProbes == <<Records({"report_a"})>>
BuildOracle == <<Writes({}, {"oracle_source"}), Runs({"oracle_source"}, {"oracle"}), Demands({"oracle"})>>
OracleProbes == BuildOracle \o <<Records({"oracle", "report_a"})>>

SubstrateProbes ==
  <<Demands({"compiler", "tcc", "target_record"}),
    Temporary({"report_a", "report_b", "oracle_source", "oracle"}),
    Asks({"compiler"}, {"report_a"}), Asks({"compiler"}, {"report_b"}), Demands({"report_a"})>>
  \o StaticChecks \o MachineProbes \o OracleProbes

VerifyWindowsX64 == SubstrateProbes \o <<Publishes, Answers>>

\* verify_sh16_pe_runtime.py: images emitted twice, read back, and run.
Emit(image) == <<Tries({"compiler"}, {image})>>
EmittedImages == Emit("console_a") \o Emit("console_b") \o Emit("windows") \o <<Demands({"console_a", "windows"})>>
RefusedImages == <<Writes({}, {"invalid"}), Refuses({"compiler", "invalid"}, {}), Refuses({"compiler"}, {})>>

VerifyPeRuntime ==
  <<Demands({"compiler"}), Temporary({"console_a", "console_b", "windows", "proof"})>>
  \o EmittedImages
  \o <<Inquires({"console_a"}, {"proof"})>>
  \o RefusedImages
  \o <<Records({"console_a", "console_b"}), Records({"windows"}), Consults({"proof"}),
       Publishes, Answers>>

\* verify_sh17_winmd_projection.py with --regenerate.
RunProjection(output) == <<Runs({"compiler", "metadata"}, {output})>>
CheckGeneratedSources ==
  <<Temporary({"declarations"}), Writes({"generated"}, {"declarations"}),
    Tries({"compiler", "declarations"}, {})>>

VerifyProjection ==
  <<Demands({"pin", "contract", "manifest"}), Records({"manifest", "pin"}), Records({"generated"})>>
  \o CheckGeneratedSources
  \o <<Records({"metadata", "pin"}), Temporary({"projection_a", "projection_b"})>>
  \o RunProjection("projection_a") \o RunProjection("projection_b")
  \o <<Records({"projection_a", "projection_b", "generated"}), Publishes, Answers>>

\* verify_sh18_windows_modules.py: marker texts, then one program checked, built and run.
MarkerChecks == <<Demands({"manifest", "sources"}), Records({"manifest"}), Records({"sources"}), Records({"provider"})>>
BehaviourProbe ==
  <<Temporary({"check_record", "executable", "build_record", "generated_c", "console"}),
    Inquires({"compiler"}, {"check_record"}), Consults({"check_record"}),
    Inquires({"compiler"}, {"executable", "build_record", "generated_c"}),
    Consults({"executable", "build_record", "generated_c"}),
    Inquires({"executable"}, {"console"}), Consults({"console"}), Consults({"executable"})>>

VerifyWindowsModules == MarkerChecks \o BehaviourProbe \o <<Publishes, Answers>>

\* verify_sh19_native_scalars.py: the first program, then the probes, accepted and rejected.
ScalarBuild ==
  <<Tries({"compiler"}, {"binary"}), Consults({"binary"})>>
  \o IfPassed({"binary"},
       <<Inquires({"binary"}, {"console"}), Records({"console"}),
         Tries({"compiler"}, {"second"}), Records({"binary", "second"})>>)
ScalarProbes ==
  <<Tries({"compiler"}, {"probe"})>>
  \o IfPassed({"probe"}, <<Inquires({"probe"}, {"console"}), Records({"console"})>>)
  \o <<Refuses({"compiler"}, {})>>

VerifyNativeScalars ==
  <<Temporary({"binary", "second", "probe"})>>
  \o ScalarBuild \o ScalarProbes \o <<Publishes, Answers>>

\* verify_sh19_memory_guards.py.
VerifyMemoryGuards ==
  <<Temporary({"memory_record"}),
    Refuses({"compiler"}, {"memory_record"}), Demands({"memory_record"}), Records({"memory_record"}),
    Inquires({}, {"measurement"}), Records({"measurement"}), Publishes, Answers>>

-----------------------------------------------------------------------------
\* windows_native_workflow.py: a task is a script, and its exit code is all that counts.
Task(uses, makes) == <<Tries(uses, makes)>>

\* The task that runs verify_sh9_cli.py, over the records it left there the last time.
RejectedRecords == {"lexical_record", "flow_record", "semantic_record"}
CliTask ==
  <<Refuses({"compiler"}, RejectedRecords), Tries({"compiler"} \union RejectedRecords, {"cli_report"})>>

InstalledCompiler ==
  ResolveNativeCompiler \o ValidateNativeCompiler \o <<Demands({"provenance", "compiler_sources"})>>

SourceTasks == Task({"sources"}, {}) \o Task({"compiler"}, {"pe_report"}) \o Task({"compiler"}, {"modules_report"})

\* The budgeted validation and rebuild of the full mode; what they measured is read
\* only when they passed.
BudgetedTasks ==
  Task({"compiler"}, {"measurement", "measured_report"})
  \o IfPassed({"measurement"},
       <<Demands({"measurement"}), Writes({"measured_report"}, {"conformance_report"}),
         Writes({"conformance_report"}, {"conformance_cache"})>>)
  \o Task({"compiler"}, {"rebuild"}) \o IfPassed({"rebuild"}, <<Demands({"rebuild"})>>)

VerifierTasks == CliTask \o Task({"compiler"}, {"lsp_report"}) \o Task({"compiler"}, {"demo_report"})

FullWorkflow == InstalledCompiler \o SourceTasks \o BudgetedTasks \o VerifierTasks \o <<Publishes, Answers>>

AuditSeed ==
  InstalledCompiler \o <<Demands({"seed"})>>
  \o Task({"seed", "compiler"}, {"declarations"}) \o Task({"seed", "compiler"}, {"resolution"})
  \o Task({"seed", "compiler"}, {"flow"}) \o Task({"seed", "compiler"}, {"ir"})
  \o <<Publishes, Answers>>

-----------------------------------------------------------------------------
\* compiler/selfhost/benchmark_*.py.
\* A sample whose exit code, limits and output are looked at later.
Samples(uses, makes) == <<Inquires(uses, makes)>>

\* compiler/selfhost/benchmark_windows_rebuild.py: what an earlier rebuild left is deleted.
RebuildFiles == {"output", "generated", "record", "rebuild_timings"}
MeasureRebuild ==
  ResolveNativeCompiler
  \o <<Demands({"compiler", "project"}), Empties(RebuildFiles)>>
  \o Samples({"compiler"}, {"output", "rebuild_timings"})
  \o <<Consults({"output"}), Records({"budgets"}), Publishes, StopsUnlessGood, Finishes>>

\* compiler/selfhost/benchmark_windows_validate.py: the report is not deleted before, but
\* it counts only with the exit code of this validation.
MeasureValidation ==
  ResolveNativeCompiler \o ValidateNativeCompiler
  \o <<Demands({"manifest"})>> \o Samples({"compiler"}, {"conformance_report"})
  \o <<Consults({"conformance_report"}), Records({"budgets"}), Publishes, StopsUnlessGood, Finishes>>

\* compiler/selfhost/benchmark_sh20_stability.py with --enforce: a lane ends at the first
\* sample that failed; each of the chained rebuilds is made by the one before.
SmallLane == <<Temporary({"small"})>> \o Samples({"compiler"}, {"small"})
OneSourceLane ==
  <<Temporary({"warm", "variants"}), Writes({}, {"variants"})>>
  \o Samples({"compiler", "variants"}, {"warm"}) \o Samples({"compiler", "variants"}, {"edited"})
ChainLane ==
  <<Temporary({"chain1", "chain2"})>>
  \o Samples({"compiler"}, {"chain1"}) \o IfPassed({"chain1"}, Samples({"chain1"}, {"chain2"}))
StabilityChecks == <<Consults({"small"}), Consults({"warm", "edited"}), Consults({"chain1", "chain2"})>>

MeasureStability ==
  <<Demands({"compiler", "project"})>> \o SmallLane \o OneSourceLane \o ChainLane \o StabilityChecks
  \o <<Publishes, Answers>>

\* compiler/selfhost/benchmark_sh14_extended.py with --enforce.
ScalingLane == <<Temporary({"scaled"}), Writes({}, {"scaling_project"})>> \o Samples({"compiler", "scaling_project"}, {"scaled"})
Preflight == <<Records({}), StopsUnlessGood>>

MeasureExtended ==
  <<Demands({"compiler", "project", "tcc"})>> \o Preflight
  \o SmallLane \o OneSourceLane \o ScalingLane \o ChainLane
  \o <<Consults({"scaled"})>> \o StabilityChecks
  \o <<Publishes, Answers>>

\* compiler/selfhost/benchmark_native_object_cache.py: every build is checked at once and
\* its output deleted.
CachedBuild(output) == <<Asks({"compiler"}, {output}), Demands({output}), Empties({output})>>
MeasureObjectCache ==
  <<Demands({}), Temporary({"fixture"}), Writes({"sources"}, {"fixture"})>>
  \o CachedBuild("prime") \o CachedBuild("preheat")
  \o CachedBuild("direct") \o CachedBuild("candidate")
  \o <<Demands({"compiler"}), Records({}), Publishes, Answers>>

-----------------------------------------------------------------------------
\* compiler/selfhost/benchmark_sh27_production.py in a run directory of its own.
BootstrapCurrent ==
  <<Temporary({"boot1", "boot2", "boot3"})>>
  \o Samples({"compiler"}, {"boot1"})
  \o IfPassed({"boot1"}, Samples({"boot1"}, {"boot2"}))
  \o IfPassed({"boot2"}, Samples({"boot2"}, {"boot3"}))
  \o <<Consults({"boot1", "boot2", "boot3"}), Writes({}, {"bootstrap_record"}), StopsUnlessGood>>

\* The comparators that can be found; none has to be.
FindComparators == <<Demands({}), Records({"comparators"})>>

\* A program is built by every tool in turn and run, and only the integrity of all
\* samples is kept.
RunSample(compiler, program) ==
  <<Inquires({compiler}, {program}), Consults({program})>>
  \o IfPassed({program}, <<Inquires({program}, {"program_output"}), Consults({"program_output"})>>)

CleanLane == <<Temporary({"clean"})>> \o RunSample("boot3", "clean")
RuntimeLane == <<Temporary({"runtime"})>> \o RunSample("boot3", "runtime")
EditLane ==
  <<Writes({}, {"edit"})>> \o RunSample("boot3", "edited") \o <<Writes({}, {"edit"})>>
ParallelLane == <<Temporary({"parallel"})>> \o RunSample("boot3", "parallel")
SelfBuildLane == <<Temporary({"self_build"})>> \o RunSample("boot3", "self_build")
ProductionVerdict == <<Records({"comparators", "bootstrap_record"}), Publishes, Answers>>

CompareProduction ==
  <<Demands({"corpus"}), Temporary({"edited", "edit"})>> \o BootstrapCurrent \o FindComparators
  \o CleanLane \o RuntimeLane \o EditLane \o ParallelLane \o SelfBuildLane
  \o ProductionVerdict

\* compiler/selfhost/benchmark_sh27_representative.py: a workload ends at the first case
\* that failed, and the report is written on every way out.
\* The version each comparator tells of is for the record only.
PinComparators == <<Demands({"c_compiler", "linker", "d_compiler"})>>
StageProject == <<Temporary({"project", "staged"}), Writes({"workload"}, {"project"})>>
StageComparator == <<Writes({"workload"}, {"staged"})>>
ApplyEdit == <<Writes({"project"}, {"project"})>>
EditComparator == <<Writes({"staged"}, {"staged"})>>
RunBuild(case) == <<Inquires({"project"}, {case})>>
RunComparatorCase(case) == <<Inquires({"staged"}, {case})>>

RunWorkload ==
  StageProject \o RunBuild("cold")
  \o IfPassed({"cold"}, RunBuild("warm"))
  \o IfPassed({"cold", "warm"}, StageComparator \o RunComparatorCase("c_case"))
  \o IfPassed({"cold", "warm", "c_case"}, <<Inquires({"cold"}, {"generation2"})>>)
  \o IfPassed({"generation2"}, <<Inquires({"generation2"}, {"generation3"})>>)
  \o IfPassed({"generation3"}, ApplyEdit \o RunBuild("edit_case") \o EditComparator)
  \o IfPassed({"edit_case"}, RunComparatorCase("c_edit"))

WorkloadCases == {"cold", "warm", "c_case", "generation2", "generation3", "edit_case", "c_edit"}

MeasureRepresentative ==
  <<Demands({"compiler", "suite"})>> \o PinComparators \o <<Demands({}), Temporary(WorkloadCases)>>
  \o RunWorkload \o <<Consults(WorkloadCases), Publishes, Answers>>

-----------------------------------------------------------------------------
\* tests/run_maintained.py and demos/run_all.py: a program runs only when its build
\* passed and it is there.
RunMaintained ==
  ResolveNativeCompiler \o ValidateNativeCompiler
  \o <<Tries({"compiler"}, {"program"})>>
  \o IfPassed({"program"}, <<Inquires({"program"}, {"console"}), Records({"console"})>>)
  \o <<Publishes, Answers>>

RunDemos ==
  ResolveNativeCompiler \o ValidateNativeCompiler \o CaseOf({"compiler"}, {"console"})
  \o <<Publishes, Answers>>

-----------------------------------------------------------------------------
\* All scripts, by the file they are in.
Scripts == [
   bootstrap |-> BootstrapStage1,
   bootstrap_closure |-> BootstrapClosure,
   bootstrap_windows_closure |-> BootstrapWindowsClosure,
   native_toolchain_install |-> InstallDistribution,
   native_toolchain_status |-> ToolchainStatus,
   build_standalone_windows |-> BuildStandalone,
   verify_standalone_windows |-> VerifyStandalone,
   windows_native_release |-> WindowsNativeRelease,
   build_release_artifacts |-> BuildReleaseArtifacts,
   verify_release_artifacts |-> VerifyReleaseArtifacts,
   build_source_archive |-> BuildSourceArchive,
   verify_source_archive |-> VerifySourceArchive,
   sh26_release_build |-> QualifyRelease,
   sh26_release_package |-> PackageRelease,
   sh27_release_candidate |-> ReleaseCandidate,
   verify_sh9_cli |-> VerifyCli,
   verify_sh10_project_workflow |-> VerifyProjectWorkflow,
   verify_sh11_lsp |-> VerifyLsp,
   verify_sh12_semantic_lsp |-> VerifySemanticLsp,
   verify_sh13_throughput_independence |-> VerifyThroughput,
   verify_sh15_windows_x64 |-> VerifyWindowsX64,
   verify_sh16_pe_runtime |-> VerifyPeRuntime,
   verify_sh17_winmd_projection |-> VerifyProjection,
   verify_sh18_windows_modules |-> VerifyWindowsModules,
   verify_sh19_native_scalars |-> VerifyNativeScalars,
   verify_sh19_memory_guards |-> VerifyMemoryGuards,
   windows_native_workflow_full |-> FullWorkflow,
   windows_native_workflow_audit |-> AuditSeed,
   benchmark_windows_rebuild |-> MeasureRebuild,
   benchmark_windows_validate |-> MeasureValidation,
   benchmark_sh20_stability |-> MeasureStability,
   benchmark_sh14_extended |-> MeasureExtended,
   benchmark_native_object_cache |-> MeasureObjectCache,
   benchmark_sh27_production |-> CompareProduction,
   benchmark_sh27_representative |-> MeasureRepresentative,
   run_maintained |-> RunMaintained,
   demos_run_all |-> RunDemos]

\* The scripts that read the records of a rejected check from a directory nobody empties.
OverOldRecords == {"verify_sh9_cli", "windows_native_workflow_full"}
================================================================================
