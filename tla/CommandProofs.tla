----------------------------- MODULE CommandProofs -----------------------------
(***************************************************************************)
(* What holds of every command line, whatever the files, the environment,  *)
(* docker, a person and the database answer, and wherever it is killed: of *)
(* the command itself, of discovery, and of what reaches the database.     *)
(***************************************************************************)
EXTENDS Command, ReadOnlyProofs, FiniteSetTheorems

-----------------------------------------------------------------------------
(* The command line.  The inductive invariant. *)

\* A project file that was there when the command began is there, and a command
\* that writes the template was told to or found none.
EditsSafe ==
    /\ before.state # "absent" => project.state # "absent"
    /\ at = "initializing" => args.force \/ before.state = "absent"

\* The configuration is that of the layers as they are.
FromLayers ==
    stage = "resolved" => config = resolved(Sources) /\ resolve_error(Sources) = None

\* Which command is where.
Belongs ==
    /\ at \in {"looking", "initializing"} => args.command = "init"
    /\ at = "comparing" => args.command = "diff"
    /\ at \in {"connecting", "working"} => args.command \in Connecting
    /\ at = "exporting" => args.command = "inspect"
    /\ at = "serving" => args.command = "mcp"
    /\ at = "writing" => args.command \in {"graph", "llm-txt"}
    /\ at = "printing" => args.command \in Printing \cup {"graph", "llm-txt"}

\* Where nothing has been dialled, and where the database has done its part.
Before == {"parsed", "connecting", "looking", "initializing", "comparing"}
AfterWork == {"printing", "writing", "exporting", "serving"}

PhaseFits ==
    /\ phase \in {"idle", "checking", "rejected"} => dialled = <<>>
    /\ phase \in {"open", "fetching", "returned", "refused", "expired"} => dialled # <<>>
    /\ at \in Before => phase = "idle"
    /\ at \in AfterWork => phase \in {"idle", "open", "returned"}
    /\ phase \in {"rejected", "returned"} => args.command = "execute-statement"
    /\ phase = "expired" => args.command \in {"execute-statement", "mcp"}

\* A resolution that failed is one the command has still to report, or has.
FailureFits ==
    /\ failure # None <=> stage = "failed"
    /\ stage = "failed" => at \in {"connecting", "exited"}
    /\ at \in Before \ {"connecting"} => stage = "idle"

ReportFits ==
    /\ report \in {"clean", "findings"}
    /\ report = "findings" => at \in {"printing", "exited"} /\ args.command \in {"validate", "diff"}
    /\ code # None => at = "exited"

IInv == EditsSafe /\ FromLayers /\ Belongs /\ PhaseFits /\ FailureFits /\ ReportFits /\ ExitCodeIsTrue

\* Resolution and docker are one part of the state, the database another.
ResolutionVars == <<stage, failure, layers, config>>

\* A command that has no exit code yet can claim nothing by one.
LEMMA NotYetExited ==
    ASSUME code' = None
    PROVE  ExitCodeIsTrue'
BY NoneAssumption DEF ExitCodeIsTrue

\* A configuration is out of date only by a step of a resolution.
LEMMA FromLayersKept ==
    ASSUME FromLayers, UNCHANGED ResolutionVars \/ stage' # "resolved"
    PROVE  FromLayers'
BY DEF FromLayers, ResolutionVars, Sources

-----------------------------------------------------------------------------
(* Steps of a resolution, of docker and of the database. *)

\* A failure is noted with a reason.
LEMMA FailNotes ==
    ASSUME NEW error, error # None, Fail(error)
    PROVE  failure' # None /\ stage' = "failed"
BY DEF Fail

\* The steps of a resolution go on, fail with a reason, or resolve the layers.
LEMMA ResolutionGoesOn ==
    ASSUME Respond \/ DockerFails \/ Prompted, failure # None <=> stage = "failed"
    PROVE  /\ failure' # None <=> stage' = "failed"
           /\ stage # "failed"
           /\ stage' = "resolved" => stage = "resolve" /\ UNCHANGED layers
                /\ config' = resolved(Sources) /\ resolve_error(Sources) = None
           /\ UNCHANGED <<args, project>>
<1> USE DEF Undisturbed
<1>1. ASSUME NEW place, NEW read, NEW next \in {"dotenv", "environment", "select", "missing"},
             Take(place, read, next), stage # "failed"
      PROVE  (failure' # None <=> stage' = "failed") /\ stage' # "resolved"
  BY <1>1 DEF Take, Fail
<1>2. CASE ReadProject
  BY <1>1, <1>2 DEF ReadProject
<1>3. CASE ReadDotenv
  BY <1>1, <1>3 DEF ReadDotenv
<1>4. CASE ReadEnvironment
  BY <1>1, <1>4 DEF ReadEnvironment
<1>5. CASE Select
  BY <1>5, FailuresAssumption DEF Failures, ConfigErrors, DiscoveryErrors, Select, Fail
<1>6. CASE ListContainers
  BY <1>6, FailuresAssumption DEF Failures, ConfigErrors, DiscoveryErrors, ListContainers, Fail
<1>7. CASE InspectContainer
  BY <1>1, <1>7 DEF InspectContainer
<1>8. CASE FindMissing
  BY <1>8 DEF FindMissing
<1>9. CASE Resolve
  BY <1>9 DEF Resolve, Fail
<1>10. CASE DockerFails
  BY <1>10, FailuresAssumption DEF Failures, DockerFails, Fail
<1>11. CASE Answer
  BY <1>11, FailuresAssumption DEF Failures, ConfigErrors, DiscoveryErrors, Answer, Fail, AfterQuestion
<1>12. CASE EndOfInput \/ PromptFails
  BY <1>12, FailuresAssumption DEF Failures, ConfigErrors, DiscoveryErrors, EndOfInput, PromptFails, Fail
<1> QED
  BY <1>2, <1>3, <1>4, <1>5, <1>6, <1>7, <1>8, <1>9, <1>10, <1>11, <1>12 DEF Respond, Prompted

\* A step of the resolution keeps the invariant of the commands,
LEMMA ResolvingKeeps == IInv /\ Resolving => IInv'
<1> SUFFICES ASSUME IInv, Resolving PROVE IInv'
  OBVIOUS
<1>1. /\ failure' # None <=> stage' = "failed"
      /\ stage' = "resolved" => UNCHANGED layers
           /\ config' = resolved(Sources) /\ resolve_error(Sources) = None
      /\ at = "connecting" /\ at' = at /\ code = None
      /\ UNCHANGED <<args, project, before, code, report, phase, dialled>>
  BY ResolutionGoesOn DEF Resolving, executionVars, mainVars, IInv, FailureFits, ReportFits
<1>2. FromLayers'
  BY <1>1 DEF FromLayers, Sources
<1>3. ExitCodeIsTrue'
  BY <1>1, NotYetExited
<1> QED
  BY <1>1, <1>2, <1>3 DEF IInv, EditsSafe, Belongs, PhaseFits, FailureFits, ReportFits

\* and what the containers do leaves it alone.
LEMMA DockerMovesKeeps == IInv /\ DockerMoves => IInv'
<1> SUFFICES ASSUME IInv, DockerMoves PROVE IInv'
  OBVIOUS
<1>1. UNCHANGED <<args, project, resolution, executionVars, mainVars>>
  BY DEF DockerMoves, Container
<1>2. UNCHANGED ResolutionVars
  BY <1>1 DEF resolution, ResolutionVars
<1> QED
  BY <1>1, <1>2, FromLayersKept
     DEF resolution, executionVars, mainVars, IInv, EditsSafe, Belongs, PhaseFits, FailureFits,
         ReportFits, ExitCodeIsTrue, Template

\* The phases of a connection and of a statement.
LEMMA DatabaseKeeps == IInv /\ (Database \/ TimesOut) => IInv'
<1> SUFFICES ASSUME IInv, Database \/ TimesOut PROVE IInv'
  OBVIOUS
<1>1. at = "working" /\ UNCHANGED <<discoveryVars, mainVars>>
  BY DEF Database, TimesOut, Timed
<1>2. PhaseFits'
  <2>1. /\ phase' \in {"idle", "checking", "rejected"} => dialled' = <<>>
        /\ phase' \in {"open", "fetching", "returned", "refused", "expired"} => dialled' # <<>>
        /\ phase' \in {"rejected", "returned"} => args.command = "execute-statement"
        /\ phase' = "expired" => args.command \in {"execute-statement", "mcp"}
    <3>1. CASE Dial \/ Attach \/ DialFails
      BY <3>1 DEF Dial, Attach, DialFails, IInv, PhaseFits
    <3>2. CASE Executing /\ CheckStatement
      BY <3>2 DEF CheckStatement, Executing, IInv, PhaseFits
    <3>3. CASE Executing /\ (Query \/ Fetch \/ FetchFails \/ FetchEnds)
      BY <3>3 DEF Query, Fetch, FetchFails, FetchEnds, Executing, IInv, PhaseFits
    <3>4. CASE Timed /\ Expire
      BY <3>4 DEF Expire, Timed
    <3> QED
      BY <3>1, <3>2, <3>3, <3>4 DEF Database, TimesOut
  <2> QED
    BY <1>1, <2>1 DEF PhaseFits, Before, AfterWork, mainVars, discoveryVars
<1>3. UNCHANGED ResolutionVars
  BY <1>1 DEF discoveryVars, resolution, ResolutionVars
<1>4. code' = None
  BY <1>1 DEF mainVars, IInv, ReportFits
<1> QED
  BY <1>1, <1>2, <1>3, <1>4, FromLayersKept, NotYetExited
     DEF mainVars, discoveryVars, resolution, IInv, EditsSafe, Belongs, FailureFits, ReportFits

-----------------------------------------------------------------------------
(* Steps of the command itself. *)

\* A command begins with nothing of the one before it.
LEMMA FreshStart == ASSUME at' = "parsed", code' = None, stage' = "idle", phase' = "idle",
                          dialled' = <<>>, failure' = None, report' = "clean",
                          before' = project'
                   PROVE  IInv'
<1>1. EditsSafe' /\ FromLayers' /\ Belongs' /\ PhaseFits' /\ FailureFits' /\ ReportFits'
  BY DEF EditsSafe, FromLayers, Belongs, PhaseFits, Before, AfterWork, FailureFits, ReportFits
<1> QED
  BY <1>1, NotYetExited DEF IInv

\* The invariant of the commands holds before the first of them.
THEOREM CommandsBegin == Init => IInv
<1> SUFFICES ASSUME Init PROVE IInv
  OBVIOUS
<1>1. EditsSafe /\ FromLayers /\ Belongs /\ PhaseFits /\ FailureFits /\ ReportFits
  BY DEF Init, EditsSafe, FromLayers, Belongs, PhaseFits, Before, AfterWork, FailureFits, ReportFits
<1>2. ExitCodeIsTrue
  BY NoneAssumption DEF Init, ExitCodeIsTrue
<1> QED
  BY <1>1, <1>2 DEF IInv

\* Again keeps the invariant of the commands.
LEMMA AgainKeeps == IInv /\ Again => IInv'
BY FreshStart DEF Again, Fresh

\* From one place to the next, with no resolution and no database involved.
LEMMA MovesOn ==
    ASSUME IInv, UNCHANGED <<discoveryVars, executionVars, code, before>>, at # "exited", at' # "exited",
           at' = "initializing" => args.force \/ before.state = "absent",
           Belongs', PhaseFits',
           stage # "failed", at' \in Before \ {"connecting"} => at \in Before \ {"connecting"},
           report' \in {"clean", "findings"},
           report' = "findings" => at' = "printing" /\ args.command \in {"validate", "diff"}
    PROVE  IInv'
<1>1. EditsSafe' /\ FailureFits' /\ ReportFits'
  BY DEF discoveryVars, resolution, IInv, EditsSafe, FailureFits, ReportFits
<1>2. FromLayers'
  BY FromLayersKept DEF discoveryVars, resolution, ResolutionVars, IInv
<1>3. code' = None
  BY DEF IInv, ReportFits
<1> QED
  BY <1>1, <1>2, <1>3, NotYetExited DEF IInv

\* The end of a command, once its exit code is shown to be true.
LEMMA Exits ==
    ASSUME IInv, at # "exited", at' = "exited",
           UNCHANGED <<args, stage, failure, layers, config, phase, dialled, report, before>>,
           before.state # "absent" => project'.state # "absent", ExitCodeIsTrue'
    PROVE  IInv'
<1>1. FromLayers'
  BY FromLayersKept DEF ResolutionVars, IInv
<1>2. EditsSafe' /\ Belongs' /\ PhaseFits' /\ FailureFits' /\ ReportFits'
  BY DEF IInv, EditsSafe, Belongs, PhaseFits, Before, AfterWork, FailureFits, ReportFits
<1> QED
  BY <1>1, <1>2 DEF IInv

\* Usage keeps the invariant of the commands.
LEMMA UsageKeeps == IInv /\ Usage => IInv'
<1> SUFFICES ASSUME IInv, Usage PROVE IInv'
  OBVIOUS
<1>1. /\ at = "parsed" /\ at' = "exited"
      /\ UNCHANGED <<args, project, stage, failure, layers, config, phase, dialled, report, before, stdout>>
      /\ \/ code' = 64 /\ args.command = "unusable"
         \/ code' = 0 /\ args.command = "help"
         \/ code' = 1
         \/ code' = 8 /\ args.command = "execute-statement" /\ args.statement = None
  BY DEF Usage, Exit, Elsewhere, discoveryVars, resolution, executionVars
<1>2. dialled = <<>> /\ phase = "idle" /\ report = "clean" /\ failure = None
  BY <1>1 DEF IInv, PhaseFits, Before, FailureFits, ReportFits
<1>3. ExitCodeIsTrue'
  BY <1>1, <1>2 DEF ExitCodeIsTrue, Printing
<1> QED
  BY <1>1, <1>3, Exits DEF IInv, EditsSafe

\* Begin keeps the invariant of the commands.
LEMMA BeginKeeps == IInv /\ Begin => IInv'
<1> SUFFICES ASSUME IInv, Begin PROVE IInv'
  OBVIOUS
<1>1. /\ at = "parsed" /\ phase = "idle" /\ dialled = <<>> /\ stage = "idle" /\ code = None
      /\ report = "clean" /\ failure = None
  BY DEF Begin, IInv, PhaseFits, Before, FailureFits, ReportFits
<1>2. CASE Connect /\ Goto("connecting") /\ args.command \in Connecting
  <2>1. /\ at' = "connecting" /\ stage' = "project"
        /\ UNCHANGED <<args, project, failure, phase, dialled, code, before, report>>
    BY <1>2 DEF Begin, Connect, Goto, executionVars
  <2>2. EditsSafe' /\ FromLayers' /\ Belongs' /\ PhaseFits' /\ FailureFits' /\ ReportFits'
    BY <1>1, <1>2, <2>1
       DEF IInv, EditsSafe, FromLayers, Belongs, PhaseFits, Before, AfterWork, FailureFits, ReportFits
  <2> QED
    BY <1>1, <2>1, <2>2, NotYetExited DEF IInv
<1>3. CASE ~(Connect /\ Goto("connecting") /\ args.command \in Connecting)
  <2>1. /\ UNCHANGED <<discoveryVars, executionVars, code, before, report>>
        /\ \/ at' = "looking" /\ args.command = "init"
           \/ at' = "comparing" /\ args.command = "diff"
           \/ at' \in {"writing", "printing"} /\ args.command = "llm-txt"
    BY <1>3 DEF Begin, Goto
  <2>2. Belongs' /\ PhaseFits'
    BY <1>1, <2>1 DEF discoveryVars, executionVars, Belongs, PhaseFits, Before, AfterWork
  <2> QED
    BY <1>1, <2>1, <2>2, MovesOn DEF Before
<1> QED
  BY <1>2, <1>3

\* NotConfigured keeps the invariant of the commands.
LEMMA NotConfiguredKeeps == IInv /\ NotConfigured => IInv'
<1> SUFFICES ASSUME IInv, NotConfigured PROVE IInv'
  OBVIOUS
<1>1. /\ at = "connecting" /\ stage = "failed" /\ at' = "exited"
      /\ UNCHANGED <<args, project, stage, failure, layers, config, phase, dialled, report, before, stdout>>
      /\ code' = IF args.command = "mcp" THEN 1 ELSE 3
  BY DEF NotConfigured, Exit, Elsewhere, discoveryVars, resolution, executionVars
<1>2. dialled = <<>> /\ phase = "idle" /\ failure # None
  BY <1>1 DEF IInv, PhaseFits, Before, FailureFits
<1>3. ExitCodeIsTrue'
  BY <1>1, <1>2 DEF ExitCodeIsTrue
<1> QED
  BY <1>1, <1>3, Exits DEF IInv, EditsSafe

\* Configured keeps the invariant of the commands.
LEMMA ConfiguredKeeps == IInv /\ Configured => IInv'
<1> SUFFICES ASSUME IInv, Configured PROVE IInv'
  OBVIOUS
<1>1. /\ at = "connecting" /\ stage = "resolved" /\ UNCHANGED <<discoveryVars, dialled, report, before>>
      /\ phase = "idle" /\ dialled = <<>> /\ code = None /\ args.command \in Connecting
      /\ report = "clean" /\ failure = None
  BY DEF Configured, Goto, Exit, IInv, PhaseFits, Before, ReportFits, Belongs, FailureFits
<1>2. CASE Goto("working") /\ phase' = IF args.command = "execute-statement" THEN "checking" ELSE "dialling"
  <2>1. FromLayers'
    BY <1>1, FromLayersKept DEF discoveryVars, resolution, ResolutionVars, IInv
  <2>2. EditsSafe' /\ Belongs' /\ PhaseFits' /\ FailureFits' /\ ReportFits'
    BY <1>1, <1>2 DEF Goto, discoveryVars, resolution,
        IInv, EditsSafe, Belongs, PhaseFits, Before, AfterWork, FailureFits, ReportFits
  <2>3. code' = None
    BY <1>1, <1>2 DEF Goto
  <2> QED
    BY <2>1, <2>2, <2>3, NotYetExited DEF IInv
<1>3. CASE args.command # "mcp" /\ Exit(4) /\ UNCHANGED phase
  <2>1. ExitCodeIsTrue'
    BY <1>1, <1>3 DEF Exit, discoveryVars, resolution, ExitCodeIsTrue
  <2> QED
    BY <1>1, <1>3, <2>1, Exits DEF Exit, discoveryVars, resolution, IInv, EditsSafe
<1> QED
  BY <1>2, <1>3 DEF Configured

\* WorkFails keeps the invariant of the commands.
LEMMA WorkFailsKeeps == IInv /\ WorkFails => IInv'
<1> SUFFICES ASSUME IInv, WorkFails PROVE IInv'
  OBVIOUS
<1>1. /\ at = "working" /\ at' = "exited" /\ phase \in {"rejected", "refused", "expired"}
      /\ UNCHANGED <<args, project, stage, failure, layers, config, phase, dialled, report, before, stdout>>
      /\ code' = CodeOf(phase)
  BY DEF WorkFails, Exit, Elsewhere, discoveryVars, resolution, executionVars
<1>2. /\ failure = None /\ report = "clean"
      /\ phase = "rejected" => dialled = <<>> /\ args.command = "execute-statement"
      /\ phase = "expired" => args.command \in {"execute-statement", "mcp"}
      /\ phase # "rejected" => dialled # <<>>
  BY <1>1 DEF IInv, PhaseFits, FailureFits, ReportFits
<1>3. IF args.command = "mcp" THEN code' = 1
      ELSE \/ code' = 8 /\ phase = "rejected"
           \/ code' = 2 /\ phase = "refused"
           \/ code' = 7 /\ phase = "expired"
  BY <1>1 DEF CodeOf
<1>4. ExitCodeIsTrue'
  BY <1>1, <1>2, <1>3 DEF ExitCodeIsTrue
<1> QED
  BY <1>1, <1>4, Exits DEF IInv, EditsSafe

\* Executed keeps the invariant of the commands.
LEMMA ExecutedKeeps == IInv /\ Executed => IInv'
<1> SUFFICES ASSUME IInv, Executed PROVE IInv'
  OBVIOUS
<1>1. /\ at = "working" /\ phase = "returned" /\ at' = "printing" /\ args.command = "execute-statement"
      /\ UNCHANGED <<discoveryVars, executionVars, code, before, report>>
  BY DEF Executed, Executing, Goto, Elsewhere
<1>2. stage # "failed" /\ report = "clean"
  BY <1>1 DEF IInv, FailureFits, ReportFits
<1>3. Belongs' /\ PhaseFits'
  BY <1>1 DEF discoveryVars, executionVars, IInv, Belongs, PhaseFits, Before, AfterWork, Printing
<1> QED
  BY <1>1, <1>2, <1>3, MovesOn DEF Before

\* Inspect keeps the invariant of the commands.
LEMMA InspectKeeps == IInv /\ Inspect => IInv'
<1> SUFFICES ASSUME IInv, Inspect PROVE IInv'
  OBVIOUS
<1>1. /\ at = "working" /\ phase = "open" /\ args.command \in Catalog /\ dialled # <<>>
      /\ failure = None /\ stage # "failed" /\ report = "clean"
      /\ UNCHANGED <<discoveryVars, executionVars, before>>
  BY DEF Inspect, Exit, Elsewhere, IInv, PhaseFits, FailureFits, ReportFits
<1>2. CASE /\ at' = After(args.command) /\ UNCHANGED code /\ report' \in {"clean", "findings"}
           /\ report' = "findings" => args.command = "validate"
  <2>1. \/ at' = "printing" /\ args.command \in {"validate", "stats", "graph"}
        \/ at' = "writing" /\ args.command = "graph"
        \/ at' = "exporting" /\ args.command = "inspect"
        \/ at' = "serving" /\ args.command = "mcp"
    BY <1>1, <1>2 DEF After, Catalog
  <2>2. Belongs' /\ PhaseFits'
    BY <1>1, <2>1 DEF discoveryVars, executionVars, Belongs, PhaseFits, Before, AfterWork, Printing
  <2>3. report' = "findings" => at' = "printing"
    BY <1>2, <2>1
  <2> QED
    BY <1>1, <1>2, <2>1, <2>2, <2>3, MovesOn DEF Before
<1>3. CASE Exit(1) \/ (args.command # "mcp" /\ Exit(2))
  <2>1. ExitCodeIsTrue'
    BY <1>1, <1>3 DEF Exit, discoveryVars, resolution, executionVars, ExitCodeIsTrue
  <2> QED
    BY <1>1, <1>3, <2>1, Exits DEF Exit, discoveryVars, resolution, executionVars, IInv, EditsSafe
<1> QED
  BY <1>2, <1>3 DEF Inspect

\* Compare keeps the invariant of the commands.
LEMMA CompareKeeps == IInv /\ Compare => IInv'
<1> SUFFICES ASSUME IInv, Compare PROVE IInv'
  OBVIOUS
<1>1. /\ at = "comparing" /\ args.command = "diff" /\ phase = "idle" /\ dialled = <<>>
      /\ failure = None /\ stage = "idle" /\ stage # "failed"
      /\ UNCHANGED <<discoveryVars, executionVars, before>>
  BY DEF Compare, Exit, Elsewhere, IInv, Belongs, PhaseFits, Before, FailureFits
<1>2. CASE at' = "printing" /\ UNCHANGED code /\ report' \in {"clean", "findings"}
  <2>1. Belongs' /\ PhaseFits'
    BY <1>1, <1>2 DEF discoveryVars, executionVars, Belongs, PhaseFits, Before, AfterWork, Printing
  <2> QED
    BY <1>1, <1>2, <2>1, MovesOn DEF Before
<1>3. CASE Exit(1)
  <2>1. ExitCodeIsTrue'
    BY <1>1, <1>3 DEF Exit, discoveryVars, resolution, executionVars, ExitCodeIsTrue
  <2> QED
    BY <1>1, <1>3, <2>1, Exits DEF Exit, discoveryVars, resolution, executionVars, IInv, EditsSafe
<1> QED
  BY <1>2, <1>3 DEF Compare

\* Export and Serve keep the invariant of the commands.
LEMMA ExportAndServeKeep == IInv /\ (Export \/ Serve) => IInv'
<1> SUFFICES ASSUME IInv, Export \/ Serve PROVE IInv'
  OBVIOUS
<1>1. /\ at \in {"exporting", "serving"} /\ at' = "exited"
      /\ code' \in {0, IF at = "exporting" THEN 4 ELSE 1}
      /\ UNCHANGED <<args, project, stage, failure, layers, config, phase, dialled, report, before, stdout>>
  BY DEF Export, Serve, Exit, Elsewhere, discoveryVars, resolution, executionVars
<1>2. /\ args.command = IF at = "exporting" THEN "inspect" ELSE "mcp"
      /\ phase \in {"idle", "open"} /\ failure = None /\ report = "clean"
  BY <1>1 DEF IInv, Belongs, PhaseFits, AfterWork, FailureFits, ReportFits
<1>3. ExitCodeIsTrue'
  BY <1>1, <1>2 DEF ExitCodeIsTrue, Printing
<1> QED
  BY <1>1, <1>3, Exits DEF IInv, EditsSafe

\* PrintDocument keeps the invariant of the commands.
LEMMA PrintDocumentKeeps == IInv /\ PrintDocument => IInv'
<1> SUFFICES ASSUME IInv, PrintDocument PROVE IInv'
  OBVIOUS
<1>1. /\ at = "printing" /\ at' = "exited"
      /\ UNCHANGED <<args, project, stage, failure, layers, config, phase, dialled, report, before>>
      /\ (stdout' = "whole" /\ code' = CodeOfReport) \/ code' = IF args.command = "graph" THEN 4 ELSE 101
  BY DEF PrintDocument, Elsewhere, discoveryVars, resolution, executionVars
<1>2. /\ args.command \in Printing \cup {"graph", "llm-txt"} /\ failure = None
      /\ phase \in {"idle", "open", "returned"} /\ report \in {"clean", "findings"}
      /\ phase = "returned" => args.command = "execute-statement"
      /\ report = "findings" => args.command \in {"validate", "diff"}
  BY <1>1 DEF IInv, Belongs, PhaseFits, AfterWork, FailureFits, ReportFits
<1>3. \/ CodeOfReport \in {5, 10} /\ report = "findings"
      \/ CodeOfReport = 0 /\ report = "clean"
  BY <1>2 DEF CodeOfReport
<1>4. ExitCodeIsTrue'
  BY <1>1, <1>2, <1>3 DEF ExitCodeIsTrue, Printing
<1> QED
  BY <1>1, <1>4, Exits DEF IInv, EditsSafe

\* WriteTarget keeps the invariant of the commands.
LEMMA WriteTargetKeeps == IInv /\ WriteTarget => IInv'
<1> SUFFICES ASSUME IInv, WriteTarget PROVE IInv'
  OBVIOUS
<1>1. /\ at = "writing" /\ args.command \in {"graph", "llm-txt"} /\ failure = None /\ stage # "failed"
      /\ phase \in {"idle", "open"} /\ report = "clean"
      /\ UNCHANGED <<discoveryVars, executionVars, before, report>>
  BY DEF WriteTarget, Elsewhere, IInv, Belongs, PhaseFits, AfterWork, FailureFits, ReportFits
<1>2. CASE UNCHANGED <<at, code>>
  <2>1. Belongs' /\ PhaseFits'
    BY <1>1, <1>2 DEF discoveryVars, executionVars, IInv, Belongs, PhaseFits
  <2> QED
    BY <1>1, <1>2, <2>1, MovesOn DEF Before
<1>3. CASE at' = "exited" /\ (code' = 4 \/ (code' = 0 /\ target' = "whole"))
  <2>1. ExitCodeIsTrue'
    BY <1>1, <1>3 DEF discoveryVars, resolution, executionVars, ExitCodeIsTrue, Printing
  <2> QED
    BY <1>1, <1>3, <2>1, Exits DEF discoveryVars, resolution, executionVars, IInv, EditsSafe
<1> QED
  BY <1>2, <1>3 DEF WriteTarget

\* Look keeps the invariant of the commands.
LEMMA LookKeeps == IInv /\ Look => IInv'
<1> SUFFICES ASSUME IInv, Look PROVE IInv'
  OBVIOUS
<1>1. /\ at = "looking" /\ args.command = "init" /\ failure = None /\ stage = "idle"
      /\ phase = "idle" /\ dialled = <<>> /\ report = "clean" /\ stage # "failed"
      /\ UNCHANGED <<discoveryVars, executionVars, before, report>>
  BY DEF Look, Elsewhere, Exit, Goto, IInv, Belongs, PhaseFits, Before, FailureFits, ReportFits
<1>2. CASE Goto("initializing") /\ (project.state = "absent" \/ args.force)
  <2>1. args.force \/ before.state = "absent"
    BY <1>2 DEF IInv, EditsSafe
  <2>2. Belongs' /\ PhaseFits'
    BY <1>1, <1>2 DEF Goto, discoveryVars, executionVars, Belongs, PhaseFits, Before, AfterWork
  <2> QED
    BY <1>1, <1>2, <2>1, <2>2, MovesOn DEF Goto, Before
<1>3. CASE Exit(1)
  <2>1. ExitCodeIsTrue'
    BY <1>1, <1>3 DEF Exit, discoveryVars, resolution, executionVars, ExitCodeIsTrue
  <2> QED
    BY <1>1, <1>3, <2>1, Exits DEF Exit, discoveryVars, resolution, executionVars, IInv, EditsSafe
<1> QED
  BY <1>2, <1>3 DEF Look

\* WriteProject keeps the invariant of the commands.
LEMMA WriteProjectKeeps == IInv /\ WriteProject => IInv'
<1> SUFFICES ASSUME IInv, WriteProject PROVE IInv'
  OBVIOUS
<1>1. /\ at = "initializing" /\ args.command = "init" /\ failure = None /\ stage = "idle"
      /\ phase = "idle" /\ dialled = <<>> /\ report = "clean" /\ code = None
      /\ UNCHANGED <<args, stage, failure, layers, config, phase, dialled, report, before>>
  BY DEF WriteProject, resolution, executionVars,
         IInv, Belongs, PhaseFits, Before, FailureFits, ReportFits
<1>2. before.state # "absent" => project'.state # "absent"
  BY DEF WriteProject, Template, Truncated, IInv, EditsSafe
<1>3. CASE UNCHANGED <<at, code>>
  <2>1. FromLayers'
    BY <1>1, FromLayersKept DEF ResolutionVars, IInv
  <2>2. EditsSafe' /\ Belongs' /\ PhaseFits' /\ FailureFits' /\ ReportFits'
    BY <1>1, <1>2, <1>3
       DEF IInv, EditsSafe, Belongs, PhaseFits, Before, AfterWork, FailureFits, ReportFits
  <2> QED
    BY <1>1, <1>3, <2>1, <2>2, NotYetExited DEF IInv
<1>4. CASE at' = "exited" /\ (code' \in {1, 101} \/ (code' = 0 /\ project' = Template))
  <2>1. ExitCodeIsTrue'
    BY <1>1, <1>4 DEF ExitCodeIsTrue, Printing, Template
  <2> QED
    BY <1>1, <1>2, <1>4, <2>1, Exits
<1> QED
  BY <1>3, <1>4 DEF WriteProject

\* Kill keeps the invariant of the commands.
LEMMA KillKeeps == IInv /\ Kill => IInv'
<1> SUFFICES ASSUME IInv, Kill PROVE IInv'
  OBVIOUS
<1>1. /\ at # "exited" /\ at' = "exited" /\ code' = Signalled
      /\ UNCHANGED <<args, project, stage, failure, layers, config, phase, dialled, report, before>>
  BY DEF Kill, Exit, Elsewhere, discoveryVars, resolution, executionVars
<1>2. ExitCodeIsTrue'
  BY <1>1 DEF ExitCodeIsTrue, Signalled
<1> QED
  BY <1>1, <1>2, Exits DEF IInv, EditsSafe

\* Edit keeps the invariant of the commands.
LEMMA EditKeeps == IInv /\ Edit => IInv'
<1> SUFFICES ASSUME IInv, Edit PROVE IInv'
  OBVIOUS
<1>1. /\ project' = session.project /\ project'.state # "absent"
      /\ UNCHANGED <<args, stage, failure, layers, config, executionVars, mainVars>>
  BY DEF Edit, resolution
<1>2. FromLayers'
  BY <1>1, FromLayersKept DEF ResolutionVars, IInv
<1>3. EditsSafe' /\ Belongs' /\ PhaseFits' /\ FailureFits' /\ ReportFits'
  BY <1>1 DEF mainVars, executionVars, IInv, EditsSafe, Belongs, PhaseFits, FailureFits, ReportFits
<1>4. ExitCodeIsTrue'
  BY <1>1 DEF mainVars, executionVars, IInv, ExitCodeIsTrue
<1> QED
  BY <1>2, <1>3, <1>4 DEF IInv

\* Stutter keeps the invariant of the commands.
LEMMA StutterKeeps == IInv /\ UNCHANGED vars => IInv'
<1> SUFFICES ASSUME IInv, UNCHANGED vars PROVE IInv'
  OBVIOUS
<1>1. UNCHANGED <<discoveryVars, executionVars, mainVars, ResolutionVars>>
  BY DEF vars, discoveryVars, resolution, ResolutionVars
<1>2. FromLayers'
  BY <1>1, FromLayersKept DEF IInv
<1> QED
  BY <1>1, <1>2 DEF discoveryVars, resolution, mainVars, executionVars, IInv, EditsSafe, Belongs,
      PhaseFits, FailureFits, ReportFits, ExitCodeIsTrue, Template

\* Every step keeps the invariant.
THEOREM CommandStep == IInv /\ [Next]_vars => IInv'
BY ResolvingKeeps, DockerMovesKeeps, DatabaseKeeps, AgainKeeps, UsageKeeps, BeginKeeps,
   NotConfiguredKeeps, ConfiguredKeeps, WorkFailsKeeps, ExecutedKeeps, InspectKeeps, CompareKeeps,
   ExportAndServeKeep, PrintDocumentKeeps, WriteTargetKeeps, LookKeeps, WriteProjectKeeps,
   KillKeeps, EditKeeps, StutterKeeps DEF Next, Main

\* Whatever is run and killed in a directory, the invariant of the commands holds.
THEOREM CommandInvariant == Spec => []IInv
BY CommandsBegin, CommandStep, PTL DEF Spec

-----------------------------------------------------------------------------
(* The theorems of the command line. *)

\* Whatever failed where, in which command, the exit code says what happened.
THEOREM ExitCodesAreTrue == Spec => []ExitCodeIsTrue
<1>1. IInv => ExitCodeIsTrue
  BY DEF IInv
<1> QED
  BY <1>1, CommandInvariant, PTL

\* Without --force, dbctx init touches no project file that was there when it
\* began, whoever edits the file and whatever was killed before.
THEOREM InitKeepsEditsAlways == Spec => InitKeepsEdits
<1>1. IInv /\ [Next]_vars =>
        [at = "initializing" /\ project' # project => args.force \/ before.state = "absent"]_vars
  BY DEF IInv, EditsSafe
<1> QED
  BY <1>1, CommandInvariant, PTL DEF Spec, InitKeepsEdits

\* Of the places that supply a field there is a first.
LEMMA EarliestExists ==
    ASSUME NEW S \in SUBSET (1 .. 6), S # {}
    PROVE  \E i \in S : \A j \in S : i <= j
<1>1. \A i \in S : i \in {1, 2, 3, 4, 5, 6}
  OBVIOUS
<1>2. CASE 1 \in S
  BY <1>1, <1>2
<1>3. CASE 1 \notin S /\ 2 \in S
  BY <1>1, <1>3
<1>4. CASE 1 \notin S /\ 2 \notin S /\ 3 \in S
  BY <1>1, <1>4
<1>5. CASE 1 \notin S /\ 2 \notin S /\ 3 \notin S /\ 4 \in S
  BY <1>1, <1>5
<1>6. CASE 1 \notin S /\ 2 \notin S /\ 3 \notin S /\ 4 \notin S /\ 5 \in S
  BY <1>1, <1>6
<1>7. CASE \A i \in 1 .. 5 : i \notin S
  <2>1. \A i \in S : i = 6
    BY <1>1, <1>7
  <2>2. PICK i \in S : TRUE
    OBVIOUS
  <2>3. \A j \in S : i <= j
    BY <2>1, <2>2
  <2> QED
    BY <2>2, <2>3
<1> QED
  BY <1>1, <1>2, <1>3, <1>4, <1>5, <1>6, <1>7

\* Every setting of a connection is the one of the first place that states it.
THEOREM EarliestPlaceAlwaysWins == Spec => []EarliestPlaceWins
<1>1. IInv => EarliestPlaceWins
  <2> SUFFICES ASSUME IInv, stage = "resolved", NEW f \in Fields
               PROVE  \/ \E i \in DOMAIN Ranked :
                            /\ Supplies(layers[Ranked[i]], f)
                            /\ config[f] = layers[Ranked[i]][f]
                            /\ \A j \in 1 .. (i - 1) : ~Supplies(layers[Ranked[j]], f)
                      \/ /\ \A p \in Places : ~Supplies(layers[p], f)
                         /\ f \notin {"driver", "database"}
    BY DEF EarliestPlaceWins
  <2>1. DOMAIN Ranked = 1 .. 6
    BY DEF Ranked
  <2>2. /\ DOMAIN Sources = 1 .. 6
        /\ \A i \in 1 .. 6 : Sources[i] = layers[Ranked[i]]
    BY <2>1 DEF Sources
  <2>3. config = resolved(Sources) /\ resolve_error(Sources) = None
    BY DEF IInv, FromLayers
  <2> DEFINE S == {i \in 1 .. 6 : Supplies(Sources[i], f)}
             Least(i) == /\ Supplies(Sources[i], f)
                         /\ \A j \in DOMAIN Sources : Supplies(Sources[j], f) => i <= j
  <2>4. CASE S # {}
    <3>1. \E i \in DOMAIN Sources : Least(i)
      <4>1. S \in SUBSET (1 .. 6) /\ \A i \in 1 .. 6 : i \in S <=> Supplies(Sources[i], f)
        OBVIOUS
      <4>2. PICK i \in S : \A j \in S : i <= j
        <5> HIDE DEF S
        <5> QED
          BY <2>4, <4>1, EarliestExists
      <4> QED
        BY <2>2, <4>1, <4>2
    <3> DEFINE first == CHOOSE i \in DOMAIN Sources : Least(i)
    <3>2. first \in DOMAIN Sources /\ Least(first)
      <4> HIDE DEF Least
      <4> QED
        BY <3>1
    <3>3. config[f] = Sources[first][f]
      <4>1. Supplied(Sources, f)
        BY <2>2, <2>4 DEF Supplied
      <4> QED
        BY <2>3, <4>1 DEF resolved, Pick
    <3>4. \A j \in 1 .. (first - 1) : ~Supplies(Sources[j], f)
      <4> HIDE DEF first
      <4> QED
        BY <2>2, <3>2
    <3>5. Supplies(Sources[first], f)
      BY <3>2
    <3>6. first \in 1 .. 6 /\ \A j \in 1 .. (first - 1) : j \in 1 .. 6
      <4> HIDE DEF first
      <4> QED
        BY <2>2, <3>2
    <3> HIDE DEF first
    <3> QED
      BY <2>1, <2>2, <3>3, <3>4, <3>5, <3>6
  <2>5. CASE S = {}
    <3>1. ~Supplied(Sources, f)
      BY <2>2, <2>5 DEF Supplied
    <3>2. f \notin {"driver", "database"}
      BY <2>3, <3>1, FailuresAssumption DEF resolve_error, Failures, ConfigErrors
    <3>3. \A p \in Places : ~Supplies(layers[p], f)
      BY <2>1, <2>2, <2>5 DEF Places
    <3> QED
      BY <3>2, <3>3
  <2> QED
    BY <2>4, <2>5
<1> QED
  BY <1>1, CommandInvariant, PTL

-----------------------------------------------------------------------------
(* Discovery, for any files, containers, listings and lines typed.  The    *)
(* inductive invariant.                                                    *)

Early == {"idle", "project", "dotenv", "environment", "select", "ps", "inspect", "missing"}
Questions == {"database", "driver"}
Others == Places \ {"prompt"}

\* Until something is asked, or docker has answered, their layers are empty.
LayersFill ==
    /\ layers = [p \in Places |-> layers[p]]
    /\ layers["prompt"] = [f \in Fields |-> layers["prompt"][f]]
    /\ stage \in Early => layers["prompt"] = NoSource
    /\ stage \in Early \ {"missing"} => layers["docker"] = NoSource

\* What is being asked was stated nowhere.
AsksForGaps ==
    stage = "prompt" =>
        /\ args.interactive
        /\ asking \in Seq(Questions) /\ asking # <<>>
        /\ \A i \in DOMAIN asking : \A p \in Others : ~Supplies(layers[p], asking[i])

\* With someone to answer, nothing is missing but what is still to be asked, or
\* got no answer.
NothingForgotten ==
    args.interactive /\ stage \in {"prompt", "resolve"} =>
        \A g \in Questions :
            \/ \E p \in Places : Supplies(layers[p], g)
            \/ g \in unanswered
            \/ stage = "prompt" /\ \E i \in DOMAIN asking : asking[i] = g

\* The container to be inspected is one the command line named, and of a service
\* one that ran.
ChosenAsNamed ==
    /\ stage = "ps" => args.service # None
    /\ stage = "inspect" =>
        IF args.service # None THEN chosen \in Named /\ ran[chosen] # {}
        ELSE chosen = args.container

\* As DiscoveredPortIsLive, from the moment docker has answered.
PortIsLive ==
    Supplies(layers["docker"], "port") =>
        \E c \in Named : Described[c].publishes /\ layers["docker"]["port"] \in ran[c]

DInv == LayersFill /\ AsksForGaps /\ NothingForgotten /\ ChosenAsNamed /\ PortIsLive
        /\ PromptFillsTheGaps /\ RefusalsAreTrue

\* What the containers are is part of what they have been since connect() began.
Remembered ==
    /\ state = [c \in Containers |-> state[c]] /\ published = [c \in Containers |-> published[c]]
    /\ ran = [c \in Containers |-> ran[c]]
    /\ stage # "idle" =>
        \A c \in Containers : IF state[c] = "running" THEN published[c] \in ran[c] ELSE c \in down

\* What has been is not undone, and what was removed does not come back.
Onwards ==
    /\ args' = args /\ down \subseteq down'
    /\ \A c \in Containers :
        ran[c] \subseteq ran'[c] /\ (state[c] = "removed" => state'[c] = "removed")

Refusals == {"ServiceNotFound", "ServiceNotRunning", "ContainerNotFound", "NoPublishedPort"}
Gaps == {"MissingDatabase", "UnknownEngine"}

-----------------------------------------------------------------------------
(* What a step leaves alone. *)

\* What the command line names are containers docker may know.
LEMMA NamedAreContainers == Named \subseteq Containers
BY ListedAssumption DEF Named

\* Where docker and the command line stay, nothing is undone;
LEMMA StandingStill ==
    ASSUME UNCHANGED <<args, docker, ran, down>>
    PROVE  Onwards
BY DEF Onwards, docker

\* nor by what the containers do.
LEMMA ContainersGoOn ==
    ASSUME Remembered, DockerMoves
    PROVE  Onwards
<1>1. PICK c \in session.moving : Container(c)
  BY DEF DockerMoves
<1>2. \A d \in Containers : ran[d] \subseteq ran'[d]
  BY <1>1 DEF Container, Remembered
<1>3. \A d \in Containers : state[d] = "removed" => state'[d] = "removed"
  BY <1>1 DEF Container, Remembered
<1> QED
  BY <1>1, <1>2, <1>3 DEF Container, Onwards

\* A refusal that was true once stays true,
LEMMA RefusalsKept ==
    ASSUME RefusalsAreTrue, Onwards, failure' = failure \/ failure' \notin Refusals
    PROVE  RefusalsAreTrue'
<1>1. Named' = Named /\ Named \subseteq Containers /\ UNCHANGED args
  BY NamedAreContainers DEF Named, Onwards
<1>2. failure' = "ServiceNotFound" => Replicas(args.service)' = {}
  BY <1>1, ListedAssumption DEF RefusalsAreTrue, Refusals, Replicas, Onwards
<1>3. failure' = "ServiceNotRunning" => Named' \cap down' # {}
  BY <1>1 DEF RefusalsAreTrue, Refusals, Onwards
<1>4. failure' = "ContainerNotFound" =>
        IF args.service # None THEN \E c \in Named : state'[c] = "removed" /\ ran'[c] # {}
        ELSE \A c \in Named : state'[c] = "removed"
  BY <1>1 DEF RefusalsAreTrue, Refusals, Onwards
<1>5. failure' = "NoPublishedPort" =>
        \E c \in Named : /\ c \in down' \/ ~Described[c].publishes
                         /\ args.service # None => ran'[c] # {}
  BY <1>1 DEF RefusalsAreTrue, Refusals, Onwards
<1> QED
  BY <1>1, <1>2, <1>3, <1>4, <1>5 DEF RefusalsAreTrue

\* and so does a port.
LEMMA PortKept ==
    ASSUME PortIsLive, Onwards,
           layers'["docker"] = layers["docker"] \/ layers'["docker"] = NoSource
    PROVE  PortIsLive'
<1>1. Named' = Named /\ Named \subseteq Containers
  BY NamedAreContainers DEF Named, Onwards
<1> QED
  BY <1>1 DEF PortIsLive, Onwards, Supplies, NoSource, Fields

\* PromptFillsTheGaps stands as long as the command line, the layers and what was left open do.
LEMMA GapsKept ==
    ASSUME PromptFillsTheGaps, UNCHANGED <<args, layers, unanswered>>,
           failure' = failure \/ failure' \notin Gaps
    PROVE  PromptFillsTheGaps'
BY DEF PromptFillsTheGaps, Gaps, Supplies, NoSource, Fields, Places, Ranked

\* Discovery is over, and nothing it depends on has changed but docker.
LEMMA NothingAsked ==
    ASSUME DInv, Onwards, UNCHANGED <<args, resolution, unanswered>>
    PROVE  DInv'
<1>1. UNCHANGED <<stage, layers, chosen, asking, failure>>
  BY DEF resolution
<1>2. LayersFill' /\ AsksForGaps'
  <2>1. LayersFill'
    BY <1>1 DEF DInv, LayersFill, NoSource, Fields, Places, Ranked, Early
  <2>2. AsksForGaps'
    BY <1>1 DEF DInv, AsksForGaps, Supplies, NoSource, Fields, Places, Others, Ranked, Questions
  <2> QED
    BY <2>1, <2>2
<1>3. NothingForgotten'
  BY <1>1 DEF DInv, NothingForgotten, Questions, Supplies, NoSource, Fields, Places, Ranked
<1>4. PromptFillsTheGaps'
  BY <1>1, GapsKept DEF DInv
<1>5. ChosenAsNamed'
  <2>1. Named' = Named /\ Named \subseteq Containers
    BY NamedAreContainers DEF Named
  <2> QED
    BY <1>1, <2>1 DEF DInv, ChosenAsNamed, Onwards
<1>6. PortIsLive' /\ RefusalsAreTrue'
  BY <1>1, PortKept, RefusalsKept DEF DInv
<1> QED
  BY <1>2, <1>3, <1>4, <1>5, <1>6 DEF DInv

\* Nothing was read yet.
LEMMA NothingRead ==
    ASSUME stage' \in {"idle", "project"}, failure' = None,
           layers' = [p \in Places |-> layers'[p]],
           layers'["prompt"] = NoSource, layers'["docker"] = NoSource
    PROVE  DInv'
<1>1. NoSource = [f \in Fields |-> NoSource[f]]
  BY DEF NoSource
<1>2. LayersFill'
  BY <1>1 DEF LayersFill, Fields, NoSource, Places, Ranked, Early
<1>3. AsksForGaps' /\ NothingForgotten' /\ ChosenAsNamed'
  BY DEF AsksForGaps, NothingForgotten, ChosenAsNamed
<1>4. PortIsLive'
  BY DEF PortIsLive, Supplies, NoSource
<1>5. PromptFillsTheGaps'
  <2>1. \A f \in Fields : ~Supplies(layers'["prompt"], f)
    BY DEF Supplies
  <2>2. failure' # "MissingDatabase" /\ failure' # "UnknownEngine"
    BY FailuresAssumption DEF Failures, ConfigErrors
  <2> QED
    BY <2>1, <2>2 DEF PromptFillsTheGaps, Fields, Supplies, NoSource, Places, Ranked
<1>6. RefusalsAreTrue'
  BY FailuresAssumption DEF RefusalsAreTrue, Failures, DiscoveryErrors
<1> QED
  BY <1>2, <1>3, <1>4, <1>5, <1>6 DEF DInv

-----------------------------------------------------------------------------
(* What reading a layer may come to. *)

FileErrors == {"UnknownDriver", "InvalidPort", "EnvFile", "ConfigFileUnreadable", "ConfigFile",
               "PasswordInConfigFile"}

\* Reading a file or the environment fails with an error of a file or not at all.
LEMMA FilesAndVariables ==
    ASSUME NEW file, NEW entries, NEW required
    PROVE  /\ load(file).error \in {None} \cup FileErrors
           /\ from_vars(entries).error \in {None} \cup FileErrors
           /\ from_dotenv(file, required).error \in {None} \cup FileErrors
<1>1. \A x : from_vars(x).error \in {None} \cup FileErrors
  BY DEF from_vars, Read, Unread, FileErrors
<1>2. load(file).error \in {None} \cup FileErrors
  BY DEF load, Read, Unread, FileErrors
<1>3. from_dotenv(file, required).error \in {None} \cup FileErrors
  <2>1. from_vars(file.entries).error \in {None} \cup FileErrors
    BY <1>1
  <2> QED
    BY <2>1 DEF from_dotenv, Read, Unread, FileErrors
<1> QED
  BY <1>1, <1>2, <1>3

\* docker inspect of a container: what refuses it is so, and a port is the one
\* the container is published on.
LEMMA DockerSays ==
    ASSUME NEW c
    PROVE  LET read == source_from_inspect(c)
           IN  /\ read.error \in {None, "ContainerNotFound", "UnrecognisedImage",
                                  "NoSqliteDatabaseMounted", "NoPublishedPort"}
               /\ read.error = "ContainerNotFound" => c \notin Containers \/ state[c] = "removed"
               /\ read.error = "NoPublishedPort" =>
                    c \in Containers /\ (state[c] # "running" \/ ~Described[c].publishes)
               /\ read.error = None /\ Supplies(read.source, "port") =>
                    /\ c \in Containers /\ state[c] = "running" /\ Described[c].publishes
                    /\ read.source["port"] = published[c]
<1> USE FailuresAssumption DEF Failures, DiscoveryErrors
<1>1. CASE c \notin Containers \/ state[c] = "removed"
  BY <1>1 DEF source_from_inspect, Unread
<1>2. CASE driver_of(c) = None /\ c \in Containers /\ state[c] # "removed"
  BY <1>2 DEF source_from_inspect, Unread
<1>3. CASE driver_of(c) = "sqlite" /\ driver_of(c) # None /\ c \in Containers /\ state[c] # "removed"
  <2>1. \A files : ~Supplies([NoSource EXCEPT !["driver"] = "sqlite", !["database"] = files], "port")
    BY DEF Supplies, NoSource, Fields
  <2> QED
    BY <1>3, <2>1 DEF source_from_inspect, Unread, Read
<1>4. CASE /\ driver_of(c) \notin {None, "sqlite"} /\ c \in Containers /\ state[c] # "removed"
           /\ state[c] # "running" \/ ~Described[c].publishes
  BY <1>4 DEF source_from_inspect, Unread
<1>5. CASE /\ driver_of(c) \notin {None, "sqlite"} /\ c \in Containers /\ state[c] = "running"
           /\ Described[c].publishes
  <2>1. settings(driver_of(c), published[c], Described[c].env)["port"] = published[c]
    BY DEF settings, Fields
  <2> QED
    BY <1>5, <2>1 DEF source_from_inspect, Read
<1> QED
  BY <1>1, <1>2, <1>3, <1>4, <1>5

-----------------------------------------------------------------------------
(* The steps of a resolution. *)

\* A step that ends in a failure keeps the rest, if what it says is true.
LEMMA FailKeeps ==
    ASSUME DInv, NEW error, Fail(error), Undisturbed, UNCHANGED unanswered,
           RefusalsAreTrue', PromptFillsTheGaps'
    PROVE  DInv'
<1>1. stage' = "failed" /\ UNCHANGED <<layers, args, docker, ran, down>>
  BY DEF Fail, Undisturbed
<1>2. LayersFill'
  BY <1>1 DEF DInv, LayersFill, NoSource, Fields, Places, Ranked, Early
<1>3. AsksForGaps' /\ NothingForgotten' /\ ChosenAsNamed'
  BY <1>1 DEF AsksForGaps, NothingForgotten, ChosenAsNamed
<1> QED
  BY <1>1, <1>2, <1>3, PortKept, StandingStill DEF DInv

\* Most failures claim nothing of docker and of what was asked.
LEMMA PlainFailure ==
    ASSUME DInv, NEW error, error \notin Refusals \cup Gaps, Fail(error), Undisturbed,
           UNCHANGED unanswered
    PROVE  DInv'
<1>1. failure' = error /\ UNCHANGED <<layers, args, docker, ran, down>>
  BY DEF Fail, Undisturbed
<1> QED
  BY <1>1, FailKeeps, RefusalsKept, GapsKept, StandingStill DEF DInv

\* The project file, the .env file and the environment.
LEMMA ReadingKeeps ==
    ASSUME DInv, failure = None, stage \in Early \ {"missing"},
           NEW place \in {"project", "dotenv", "environment"},
           NEW next \in {"dotenv", "environment", "select"},
           NEW read, read.error \in {None} \cup FileErrors,
           Take(place, read, next), Undisturbed, UNCHANGED unanswered
    PROVE  DInv'
<1>1. CASE read.error # None
  BY <1>1, PlainFailure DEF Take, FileErrors, Refusals, Gaps
<1>2. CASE read.error = None
  <2>1. /\ layers' = [layers EXCEPT ![place] = read.source] /\ stage' = next /\ failure' = None
        /\ place \in Places
    BY <1>2 DEF Take, Places, Ranked
  <2>2. /\ layers' = [p \in Places |-> layers'[p]]
        /\ layers'["prompt"] = NoSource /\ layers'["docker"] = NoSource
    BY <2>1 DEF DInv, LayersFill, Early
  <2>3. LayersFill'
    BY <2>1, <2>2 DEF LayersFill, NoSource
  <2>4. AsksForGaps' /\ NothingForgotten' /\ ChosenAsNamed'
    BY <2>1 DEF AsksForGaps, NothingForgotten, ChosenAsNamed
  <2>5. PortIsLive'
    BY <2>2 DEF PortIsLive, Supplies, NoSource
  <2>6. \A f \in Fields : ~Supplies(layers'["prompt"], f)
    BY <2>2 DEF Supplies
  <2>7. failure' \notin Gaps \cup Refusals
    BY <2>1, FailuresAssumption DEF Failures, ConfigErrors, DiscoveryErrors, Gaps, Refusals
  <2>8. PromptFillsTheGaps'
    BY <2>6, <2>7 DEF PromptFillsTheGaps, Gaps, Fields, Supplies, NoSource, Places, Ranked
  <2>9. RefusalsAreTrue'
    BY <2>7 DEF RefusalsAreTrue, Refusals
  <2> QED
    BY <2>3, <2>4, <2>5, <2>8, <2>9 DEF DInv
<1> QED
  BY <1>1, <1>2


\* The steps that read the files and the environment keep the invariant of discovery.
LEMMA ReadingSteps ==
    ASSUME IInv, DInv, ReadProject \/ ReadDotenv \/ ReadEnvironment
    PROVE  DInv'
<1>1. stage # "failed" => failure = None
  BY DEF IInv, FailureFits
<1>2. CASE ReadProject
  <2>1. load(project).error \in {None} \cup FileErrors
    BY FilesAndVariables
  <2> QED
    BY <1>1, <1>2, <2>1, ReadingKeeps DEF ReadProject, Early
<1>3. CASE ReadDotenv
  <2>1. from_dotenv(args.dotenv, args.env).error \in {None} \cup FileErrors
    BY FilesAndVariables
  <2> QED
    BY <1>1, <1>3, <2>1, ReadingKeeps DEF ReadDotenv, Early
<1>4. CASE ReadEnvironment
  <2>1. from_vars(args.vars).error \in {None} \cup FileErrors
    BY FilesAndVariables
  <2> QED
    BY <1>1, <1>4, <2>1, ReadingKeeps DEF ReadEnvironment, Early
<1> QED
  BY <1>2, <1>3, <1>4

\* A step that goes on and reads nothing keeps all that is said of the layers
\* and of failures.
LEMMA GoesOn ==
    ASSUME DInv, stage \in Early, UNCHANGED <<args, docker, ran, down, layers, failure, unanswered>>,
           failure = None
    PROVE  /\ layers' = [p \in Places |-> layers'[p]]
           /\ layers'["prompt"] = NoSource
           /\ stage # "missing" => layers'["docker"] = NoSource
           /\ PortIsLive' /\ PromptFillsTheGaps' /\ RefusalsAreTrue'
<1>1. layers["prompt"] = NoSource
  BY DEF DInv, LayersFill
<1>2. stage # "missing" => layers["docker"] = NoSource
  BY DEF DInv, LayersFill, Early
<1>3. layers = [p \in Places |-> layers[p]]
  BY DEF DInv, LayersFill
<1> QED
  BY <1>1, <1>2, <1>3, PortKept, GapsKept, RefusalsKept, StandingStill
     DEF DInv, NoSource, Fields, Places, Ranked

\* Select keeps the invariant of discovery.
LEMMA SelectKeeps == IInv /\ DInv /\ Select => DInv'
<1> SUFFICES ASSUME IInv, DInv, Select PROVE DInv'
  OBVIOUS
<1>1. stage = "select" /\ failure = None /\ UNCHANGED <<args, docker, ran, down, layers, unanswered>>
  BY DEF Select, Undisturbed, Fail, IInv, FailureFits
<1>2. CASE Fail("ConflictingSelectors")
  BY <1>2, PlainFailure DEF Select, Refusals, Gaps
<1>3. CASE /\ stage' = IF args.service # None THEN "ps"
                        ELSE IF args.container # None THEN "inspect" ELSE "missing"
           /\ chosen' = args.container /\ UNCHANGED failure
  <2>1. /\ layers' = [p \in Places |-> layers'[p]]
        /\ layers'["prompt"] = NoSource /\ layers'["docker"] = NoSource
        /\ PortIsLive' /\ PromptFillsTheGaps' /\ RefusalsAreTrue'
    BY <1>1, <1>3, GoesOn DEF Early
  <2>2. LayersFill'
    BY <2>1 DEF LayersFill, NoSource
  <2>3. AsksForGaps' /\ NothingForgotten'
    BY <1>3 DEF AsksForGaps, NothingForgotten
  <2>4. ChosenAsNamed'
    BY <1>1, <1>3 DEF ChosenAsNamed
  <2> QED
    BY <2>1, <2>2, <2>3, <2>4 DEF DInv
<1> QED
  BY <1>2, <1>3 DEF Select

\* ListContainers keeps the invariant of discovery.
LEMMA ListContainersKeeps == IInv /\ Remembered /\ DInv /\ ListContainers => DInv'
<1> SUFFICES ASSUME IInv, Remembered, DInv, ListContainers PROVE DInv'
  OBVIOUS
<1> DEFINE found == Replicas(args.service)
           at1 == CHOOSE i \in found : \A j \in found : i <= j
           first == Listed[at1]
<1>1. /\ stage = "ps" /\ failure = None /\ UNCHANGED <<args, docker, ran, down, layers, unanswered>>
      /\ args.service # None
  BY DEF ListContainers, Undisturbed, Fail, IInv, FailureFits, DInv, ChosenAsNamed
<1>2. found \in SUBSET Nat /\ \A i \in found : Listed[i] \in Containers /\ Listed[i] \in Named
  BY <1>1, ListedAssumption DEF Replicas, Named
<1>3. found' = found /\ Named' = Named
  BY <1>1 DEF Replicas, docker, Named
<1>4. CASE found = {}
  <2>1. Fail("ServiceNotFound")
    BY <1>4 DEF ListContainers
  <2>2. RefusalsAreTrue'
    BY <1>1, <1>3, <1>4, <2>1 DEF Fail, RefusalsAreTrue
  <2>3. PromptFillsTheGaps'
    BY <1>1, <2>1, GapsKept DEF Fail, DInv, Gaps
  <2> QED
    BY <2>1, <2>2, <2>3, FailKeeps DEF ListContainers
<1>5. CASE found # {} /\ state[first] # "running"
  <2>1. Fail("ServiceNotRunning")
    BY <1>5 DEF ListContainers
  <2>2. at1 \in found
    BY <1>2, <1>5, FirstPosition
  <2>3. first \in Named \cap down
    BY <1>1, <1>2, <1>5, <2>2 DEF Remembered
  <2>4. RefusalsAreTrue'
    <3> HIDE DEF at1, first
    <3> QED
      BY <1>1, <1>3, <2>1, <2>3 DEF Fail, RefusalsAreTrue
  <2>5. PromptFillsTheGaps'
    BY <1>1, <2>1, GapsKept DEF Fail, DInv, Gaps
  <2> QED
    BY <2>1, <2>4, <2>5, FailKeeps DEF ListContainers
<1>6. CASE found # {} /\ state[first] = "running"
  <2>1. chosen' = first /\ stage' = "inspect" /\ UNCHANGED failure
    BY <1>6 DEF ListContainers
  <2>2. at1 \in found
    BY <1>2, <1>6, FirstPosition
  <2>3. /\ layers' = [p \in Places |-> layers'[p]]
        /\ layers'["prompt"] = NoSource /\ layers'["docker"] = NoSource
        /\ PortIsLive' /\ PromptFillsTheGaps' /\ RefusalsAreTrue'
    BY <1>1, <2>1, GoesOn DEF Early
  <2>4. LayersFill'
    BY <2>3 DEF LayersFill, NoSource
  <2>5. AsksForGaps' /\ NothingForgotten'
    BY <2>1 DEF AsksForGaps, NothingForgotten
  <2>6. ChosenAsNamed'
    <3>1. first \in Named /\ published[first] \in ran[first]
      BY <1>1, <1>2, <1>6, <2>2 DEF Remembered
    <3> HIDE DEF at1, first
    <3> QED
      BY <1>1, <1>3, <2>1, <3>1 DEF ChosenAsNamed
  <2> QED
    BY <2>3, <2>4, <2>5, <2>6 DEF DInv
<1> QED
  BY <1>4, <1>5, <1>6

\* InspectContainer keeps the invariant of discovery.
LEMMA InspectContainerKeeps == IInv /\ Remembered /\ DInv /\ InspectContainer => DInv'
<1> SUFFICES ASSUME IInv, Remembered, DInv, InspectContainer PROVE DInv'
  OBVIOUS
<1> DEFINE read == source_from_inspect(chosen)
<1>1. /\ stage = "inspect" /\ failure = None /\ Take("docker", read, "missing") /\ Undisturbed
      /\ UNCHANGED unanswered
  BY DEF InspectContainer, IInv, FailureFits
<1>2. /\ layers = [p \in Places |-> layers[p]] /\ layers["prompt"] = NoSource
      /\ chosen \in Containers => chosen \in Named
      /\ args.service # None => chosen \in Named /\ ran[chosen] # {}
      /\ args.service = None => Named \subseteq {chosen}
  BY <1>1 DEF DInv, LayersFill, ChosenAsNamed, Early, Named
<1>3. /\ read.error \in {None, "ContainerNotFound", "UnrecognisedImage",
                         "NoSqliteDatabaseMounted", "NoPublishedPort"}
      /\ read.error = "ContainerNotFound" => chosen \notin Containers \/ state[chosen] = "removed"
      /\ read.error = "NoPublishedPort" =>
            chosen \in Containers /\ (state[chosen] # "running" \/ ~Described[chosen].publishes)
      /\ read.error = None /\ Supplies(read.source, "port") =>
            /\ chosen \in Containers /\ state[chosen] = "running" /\ Described[chosen].publishes
            /\ read.source["port"] = published[chosen]
  BY DockerSays
<1>6. /\ Named \subseteq Containers
      /\ chosen \in Containers => IF state[chosen] = "running" THEN published[chosen] \in ran[chosen]
                                 ELSE chosen \in down
  BY <1>1, NamedAreContainers DEF Remembered
<1> HIDE DEF read
<1>4. CASE read.error # None
  <2>1. Fail(read.error) /\ failure' = read.error
    BY <1>1, <1>4 DEF Take, Fail
  <2>2. UNCHANGED <<args, docker, ran, down, layers>> /\ stage' = "failed" /\ Named' = Named
    BY <1>1, <2>1 DEF Undisturbed, Fail, Named
  <2>3. RefusalsAreTrue'
    <3>1. failure' # "ServiceNotFound" /\ failure' # "ServiceNotRunning"
      BY <1>3, <1>4, <2>1
    <3>2. failure' = "ContainerNotFound" =>
            IF args.service # None THEN \E c \in Named : state[c] = "removed" /\ ran[c] # {}
            ELSE \A c \in Named : state[c] = "removed"
      BY <1>2, <1>3, <1>6, <2>1
    <3>3. failure' = "NoPublishedPort" =>
            \E c \in Named : /\ c \in down \/ ~Described[c].publishes
                             /\ args.service # None => ran[c] # {}
      BY <1>2, <1>3, <1>6, <2>1
    <3> QED
      BY <2>2, <3>1, <3>2, <3>3 DEF RefusalsAreTrue, docker
  <2>4. PromptFillsTheGaps'
    BY <1>1, <1>3, <1>4, <2>1, <2>2, GapsKept DEF DInv, Gaps
  <2> QED
    BY <1>1, <2>1, <2>3, <2>4, FailKeeps
<1>5. CASE read.error = None
  <2>1. /\ layers' = [layers EXCEPT !["docker"] = read.source] /\ stage' = "missing"
        /\ UNCHANGED <<args, docker, ran, down, failure>> /\ Named' = Named
    BY <1>1, <1>5 DEF Take, Undisturbed, Named
  <2>2. /\ layers' = [p \in Places |-> layers'[p]]
        /\ layers'["prompt"] = NoSource /\ layers'["docker"] = read.source
    <3>1. "docker" \in Places /\ "prompt" \in Places
      BY DEF Places, Ranked
    <3> QED
      BY <1>2, <2>1, <3>1
  <2>3. LayersFill'
    BY <2>1, <2>2 DEF LayersFill, NoSource, Early
  <2>4. AsksForGaps' /\ NothingForgotten' /\ ChosenAsNamed'
    BY <2>1 DEF AsksForGaps, NothingForgotten, ChosenAsNamed
  <2>5. PortIsLive'
    <3>1. Supplies(read.source, "port") =>
            chosen \in Named /\ Described[chosen].publishes /\ read.source["port"] \in ran[chosen]
      BY <1>2, <1>3, <1>5, <1>6
    <3> QED
      BY <2>1, <2>2, <3>1 DEF PortIsLive, Supplies, NoSource, Fields
  <2>6. \A f \in Fields : ~Supplies(layers'["prompt"], f)
    BY <2>2 DEF Supplies
  <2>7. failure' \notin Gaps \cup Refusals
    BY <1>1, <2>1, FailuresAssumption DEF Failures, ConfigErrors, DiscoveryErrors, Gaps, Refusals
  <2>8. PromptFillsTheGaps'
    BY <2>6, <2>7 DEF PromptFillsTheGaps, Gaps, Fields, Supplies, NoSource, Places, Ranked
  <2>9. RefusalsAreTrue'
    BY <2>7 DEF RefusalsAreTrue, Refusals
  <2> QED
    BY <2>3, <2>4, <2>5, <2>8, <2>9 DEF DInv
<1> QED
  BY <1>4, <1>5

\* DockerFails keeps the invariant of discovery.
LEMMA DockerFailsKeeps == DInv /\ DockerFails => DInv'
<1> SUFFICES ASSUME DInv, DockerFails PROVE DInv'
  OBVIOUS
<1>1. PICK fault \in DockerFaults : Fail(fault)
  BY DEF DockerFails
<1>2. fault \notin Refusals \cup Gaps
  BY <1>1, FailuresAssumption DEF ConfigErrors, DiscoveryErrors, Refusals, Gaps
<1> QED
  BY <1>1, <1>2, PlainFailure DEF DockerFails


-----------------------------------------------------------------------------
(* The prompt. *)

\* What the layers of all places together supply.
LEMMA SuppliedSomewhere ==
    ASSUME NEW f
    PROVE  Supplied(Sources, f) <=> \E p \in Places : Supplies(layers[p], f)
<1>1. DOMAIN Sources = DOMAIN Ranked /\ \A i \in DOMAIN Ranked : Sources[i] = layers[Ranked[i]]
  BY DEF Sources
<1> QED
  BY <1>1 DEF Supplied, Places

\* FindMissing keeps the invariant of discovery.
LEMMA FindMissingKeeps == IInv /\ DInv /\ FindMissing => DInv'
<1> SUFFICES ASSUME IInv, DInv, FindMissing PROVE DInv'
  OBVIOUS
<1>1. /\ stage = "missing" /\ failure = None
      /\ UNCHANGED <<args, docker, ran, down, layers, failure, unanswered>>
      /\ asking' = (IF args.interactive THEN missing(Sources) ELSE <<>>)
      /\ stage' = (IF asking' = <<>> THEN "resolve" ELSE "prompt")
  BY DEF FindMissing, Undisturbed, IInv, FailureFits
<1>2. /\ layers' = [p \in Places |-> layers'[p]] /\ layers'["prompt"] = NoSource
      /\ PortIsLive' /\ PromptFillsTheGaps' /\ RefusalsAreTrue'
  BY <1>1, GoesOn DEF Early
<1>3. LayersFill'
  BY <1>1, <1>2 DEF LayersFill, NoSource, Early
<1>4. /\ asking' \in Seq(Questions)
      /\ \A i \in DOMAIN asking' : ~Supplied(Sources, asking'[i])
      /\ args.interactive => \A g \in Questions : Supplied(Sources, g)
                                \/ \E i \in DOMAIN asking' : asking'[i] = g
  <2>1. CASE ~args.interactive
    BY <1>1, <2>1
  <2>2. CASE args.interactive
    <3>1. asking' = missing(Sources)
      BY <1>1, <2>2
    <3>2. CASE Supplied(Sources, "database") /\ Supplied(Sources, "driver")
      BY <3>1, <3>2 DEF missing, Questions
    <3>3. CASE Supplied(Sources, "database") /\ ~Supplied(Sources, "driver")
      <4>1. asking' = <<"driver">>
        BY <3>1, <3>3 DEF missing
      <4> QED
        BY <4>1, <3>3 DEF Questions
    <3>4. CASE ~Supplied(Sources, "database") /\ Supplied(Sources, "driver")
      <4>1. asking' = <<"database">>
        BY <3>1, <3>4 DEF missing
      <4> QED
        BY <4>1, <3>4 DEF Questions
    <3>5. CASE ~Supplied(Sources, "database") /\ ~Supplied(Sources, "driver")
      <4>1. asking' = <<"database">> \o <<"driver">>
        BY <3>1, <3>5 DEF missing
      <4>2. asking' \in Seq(Questions)
        BY <4>1 DEF Questions
      <4>3. DOMAIN asking' = {1, 2} /\ asking'[1] = "database" /\ asking'[2] = "driver"
        BY <4>1
      <4> QED
        BY <4>2, <4>3, <3>5 DEF Questions
    <3> QED
      BY <3>2, <3>3, <3>4, <3>5
  <2> QED
    BY <2>1, <2>2
<1>5. AsksForGaps'
  <2>1. \A i \in DOMAIN asking' : \A p \in Others : ~Supplies(layers[p], asking'[i])
    BY <1>4, SuppliedSomewhere DEF Others
  <2> QED
    BY <1>1, <1>4, <2>1 DEF AsksForGaps, Supplies, Others, Places, Ranked, NoSource, Fields, Questions
<1>6. NothingForgotten'
  <2>1. args.interactive => \A g \in Questions : (\E p \in Places : Supplies(layers[p], g))
                                \/ \E i \in DOMAIN asking' : asking'[i] = g
    BY <1>4, SuppliedSomewhere
  <2>2. stage' = "prompt" \/ asking' = <<>>
    BY <1>1
  <2> QED
    BY <1>1, <2>1, <2>2
       DEF NothingForgotten, Supplies, Places, Ranked, NoSource, Fields, Questions
<1>7. ChosenAsNamed'
  BY <1>1 DEF ChosenAsNamed
<1> QED
  BY <1>2, <1>3, <1>5, <1>6, <1>7 DEF DInv

\* After a question has been dealt with: it was answered, or it is noted.
LEMMA QuestionDealtWith ==
    ASSUME DInv, stage = "prompt", failure = None, Undisturbed, UNCHANGED failure,
           asking' = Tail(asking), stage' = AfterQuestion,
           \/ UNCHANGED layers /\ unanswered' = unanswered \cup {Head(asking)}
           \/ /\ UNCHANGED unanswered
              /\ \E value : /\ value # NoSource[Head(asking)]
                            /\ layers' = [layers EXCEPT !["prompt"][Head(asking)] = value]
    PROVE  DInv'
<1> DEFINE asked == Head(asking)
<1>1. /\ args.interactive /\ asking \in Seq(Questions) /\ asking # <<>> /\ UNCHANGED <<args, docker, ran, down>>
      /\ \A i \in DOMAIN asking : \A p \in Others : ~Supplies(layers[p], asking[i])
      /\ \A g \in Questions : \/ \E p \in Places : Supplies(layers[p], g)
                              \/ g \in unanswered
                              \/ \E i \in DOMAIN asking : asking[i] = g
  BY DEF DInv, AsksForGaps, NothingForgotten, Undisturbed
<1>2. /\ asked = asking[1] /\ asked \in Questions /\ asking' \in Seq(Questions)
      /\ Len(asking') = Len(asking) - 1 /\ Len(asking) \in Nat /\ 1 \in DOMAIN asking
      /\ \A i \in 1 .. Len(asking') : i + 1 \in DOMAIN asking /\ asking'[i] = asking[i + 1]
      /\ \A i \in DOMAIN asking : i # 1 => i - 1 \in DOMAIN asking' /\ asking[i] = asking'[i - 1]
  BY <1>1
<1>3. stage' = (IF asking' = <<>> THEN "resolve" ELSE "prompt")
  BY DEF AfterQuestion
<1>4. /\ \A p \in Others : layers'[p] = layers[p]
      /\ layers' = [p \in Places |-> layers'[p]]
      /\ layers'["prompt"] = [f \in Fields |-> layers'["prompt"][f]]
      /\ \A f \in Fields \ {asked} : layers'["prompt"][f] = layers["prompt"][f]
      /\ Supplies(layers["prompt"], asked) => Supplies(layers'["prompt"], asked)
      /\ Supplies(layers'["prompt"], asked) \/ asked \in unanswered'
  <2>1. /\ layers = [p \in Places |-> layers[p]]
        /\ layers["prompt"] = [f \in Fields |-> layers["prompt"][f]]
    BY DEF DInv, LayersFill
  <2>2. "prompt" \in Places /\ "prompt" \notin Others /\ Others \subseteq Places
    BY DEF Places, Ranked, Others
  <2>3. asked \in Fields
    BY <1>2 DEF Questions, Fields
  <2>4. CASE UNCHANGED layers /\ unanswered' = unanswered \cup {asked}
    BY <2>1, <2>4
  <2>5. ASSUME NEW value, value # NoSource[asked],
               layers' = [layers EXCEPT !["prompt"][asked] = value]
        PROVE  <1>4!:
    BY <2>1, <2>2, <2>3, <2>5 DEF Supplies
  <2> QED
    BY <2>4, <2>5
<1> HIDE DEF asked
<1>5. LayersFill'
  BY <1>3, <1>4 DEF LayersFill, Early
<1>6. AsksForGaps'
  <2>1. \A i \in DOMAIN asking' : \A p \in Others : ~Supplies(layers'[p], asking'[i])
    BY <1>1, <1>2, <1>4 DEF Supplies
  <2> QED
    BY <1>1, <1>2, <1>3, <2>1 DEF AsksForGaps, Supplies, Others, Places, Ranked, NoSource, Fields, Questions
<1>7. NothingForgotten'
  <2>1. ASSUME NEW g \in Questions
        PROVE  \/ \E p \in Places : Supplies(layers'[p], g)
               \/ g \in unanswered'
               \/ \E i \in DOMAIN asking' : asking'[i] = g
    <3>1. "prompt" \in Places /\ g \in Fields /\ \A p \in Places : p \in Others \/ p = "prompt"
      BY DEF Places, Ranked, Others, Questions, Fields
    <3>2. CASE g = asked
      BY <1>4, <3>1, <3>2
    <3>3. CASE g # asked /\ \E p \in Places : Supplies(layers[p], g)
      BY <1>4, <3>1, <3>3 DEF Supplies
    <3>4. CASE g \in unanswered
      BY <3>4
    <3>5. CASE g # asked /\ \E i \in DOMAIN asking : asking[i] = g
      BY <1>2, <3>5
    <3> QED
      BY <1>1, <3>2, <3>3, <3>4, <3>5
  <2>2. asking' # <<>> => stage' = "prompt"
    BY <1>3
  <2>3. DOMAIN asking' # {} => asking' # <<>>
    BY <1>2
  <2> QED
    BY <1>1, <2>1, <2>2, <2>3
       DEF NothingForgotten, Supplies, Places, Ranked, NoSource, Fields, Questions
<1>8. ChosenAsNamed'
  BY <1>3 DEF ChosenAsNamed
<1>9. PromptFillsTheGaps'
  <2>1. failure' \notin Gaps
    BY FailuresAssumption DEF Failures, ConfigErrors, Gaps
  <2>2. ASSUME NEW f \in Fields, Supplies(layers'["prompt"], f), NEW p \in Places \ {"prompt"}
        PROVE  ~Supplies(layers'[p], f)
    <3>1. p \in Others
      BY DEF Others
    <3>2. CASE f = asked
      BY <1>1, <1>2, <1>4, <3>1, <3>2
    <3>3. CASE f # asked
      <4>1. Supplies(layers["prompt"], f)
        BY <1>4, <2>2, <3>3 DEF Supplies
      <4>2. ~Supplies(layers[p], f)
        BY <4>1 DEF DInv, PromptFillsTheGaps
      <4> QED
        BY <1>4, <3>1, <4>2
    <3> QED
      BY <3>2, <3>3
  <2> QED
    BY <2>1, <2>2 DEF PromptFillsTheGaps, Gaps, Supplies, NoSource, Fields, Places, Ranked
<1>10. PortIsLive'
  <2>1. layers'["docker"] = layers["docker"]
    BY <1>4 DEF Others, Places, Ranked
  <2> QED
    BY <1>1, <2>1, PortKept, StandingStill DEF DInv
<1>11. RefusalsAreTrue'
  BY <1>1, RefusalsKept, StandingStill DEF DInv
<1> QED
  BY <1>5, <1>6, <1>7, <1>8, <1>9, <1>10, <1>11 DEF DInv

\* Answer keeps the invariant of discovery.
LEMMA AnswerKeeps == IInv /\ DInv /\ Answer => DInv'
<1> SUFFICES ASSUME IInv, DInv, Answer PROVE DInv'
  OBVIOUS
<1>1. stage = "prompt" /\ failure = None /\ Undisturbed /\ Head(asking) \in Questions
  <2>1. stage = "prompt" /\ failure = None /\ Undisturbed
    BY DEF Answer, IInv, FailureFits
  <2>2. asking \in Seq(Questions) /\ asking # <<>>
    BY <2>1 DEF DInv, AsksForGaps
  <2> QED
    BY <2>1, <2>2
<1>2. CASE Fail("UnknownDriver") /\ UNCHANGED unanswered
  BY <1>1, <1>2, PlainFailure DEF Refusals, Gaps
<1>3. CASE /\ unanswered' = unanswered \cup {Head(asking)}
           /\ asking' = Tail(asking) /\ stage' = AfterQuestion /\ UNCHANGED <<layers, failure>>
  BY <1>1, <1>3, QuestionDealtWith
<1>4. ASSUME NEW line \in Lines, Parses(Head(asking), line),
             layers' = [layers EXCEPT !["prompt"][Head(asking)] = Held(Head(asking), line)],
             asking' = Tail(asking), stage' = AfterQuestion, UNCHANGED <<failure, unanswered>>
      PROVE  DInv'
  <2>1. CASE Head(asking) = "database"
    <3>1. Held(Head(asking), line) # NoSource[Head(asking)]
      BY <2>1 DEF Held, NoSource, Fields
    <3> QED
      BY <1>1, <1>4, <3>1, QuestionDealtWith
  <2>2. CASE Head(asking) = "driver"
    <3>1. line \in Drivers
      <4>1. Parses("driver", line)
        BY <1>4, <2>2, Zenon
      <4> QED
        BY <4>1 DEF Parses
    <3>2. Held(Head(asking), line) # NoSource[Head(asking)]
      BY <2>2, <3>1, NoneAssumption DEF Held, NoSource, Fields
    <3> QED
      BY <1>1, <1>4, <3>2, QuestionDealtWith
  <2> QED
    BY <1>1, <2>1, <2>2 DEF Questions
<1> QED
  BY <1>2, <1>3, <1>4 DEF Answer

\* EndOfInput keeps the invariant of discovery.
LEMMA EndOfInputKeeps == IInv /\ DInv /\ EndOfInput => DInv'
<1> SUFFICES ASSUME IInv, DInv, EndOfInput PROVE DInv'
  OBVIOUS
<1>1. /\ stage = "prompt" /\ failure = None /\ UNCHANGED <<args, docker, ran, down, layers, failure>>
      /\ stage' = "resolve"
      /\ unanswered' = unanswered \cup {asking[i] : i \in DOMAIN asking}
  BY DEF EndOfInput, Undisturbed, IInv, FailureFits
<1>2. LayersFill'
  BY <1>1 DEF DInv, LayersFill, NoSource, Fields, Places, Ranked, Early
<1>3. AsksForGaps' /\ ChosenAsNamed'
  BY <1>1 DEF AsksForGaps, ChosenAsNamed
<1>4. NothingForgotten'
  <2>1. \A g \in Questions : (\E p \in Places : Supplies(layers[p], g)) \/ g \in unanswered'
    BY <1>1 DEF DInv, AsksForGaps, NothingForgotten
  <2> QED
    BY <1>1, <2>1 DEF NothingForgotten, Questions, Supplies, NoSource, Fields, Places, Ranked
<1>5. PromptFillsTheGaps'
  <2>1. failure' \notin Gaps
    BY <1>1, FailuresAssumption DEF Failures, ConfigErrors, Gaps
  <2> QED
    BY <1>1, <2>1 DEF DInv, PromptFillsTheGaps, Gaps, Supplies, NoSource, Fields, Places, Ranked
<1> QED
  BY <1>1, <1>2, <1>3, <1>4, <1>5, PortKept, RefusalsKept, StandingStill DEF DInv

\* PromptFails keeps the invariant of discovery.
LEMMA PromptFailsKeeps == DInv /\ PromptFails => DInv'
BY PlainFailure DEF PromptFails, Refusals, Gaps

\* What resolve() says is missing was asked for without an answer, if anyone
\* was there to ask.
LEMMA ResolveKeeps == IInv /\ DInv /\ Resolve => DInv'
<1> SUFFICES ASSUME IInv, DInv, Resolve PROVE DInv'
  OBVIOUS
<1>1. stage = "resolve" /\ failure = None /\ UNCHANGED <<args, docker, ran, down, layers, unanswered>>
  BY DEF Resolve, Undisturbed, Fail, IInv, FailureFits
<1>2. CASE resolve_error(Sources) # None
  <2>1. Fail(resolve_error(Sources)) /\ failure' = resolve_error(Sources)
    BY <1>2 DEF Resolve, Fail
  <2>2. failure' \in {"MissingDatabase", "UnknownEngine", "MultipleDatabasesRequireSqlite"}
    BY <1>2, <2>1 DEF resolve_error
  <2>3. args.interactive => \A g \in Questions : Supplied(Sources, g) \/ g \in unanswered
    BY <1>1, SuppliedSomewhere DEF DInv, NothingForgotten
  <2>4. /\ failure' = "MissingDatabase" => ~Supplied(Sources, "database")
        /\ failure' = "UnknownEngine" => ~Supplied(Sources, "driver")
    BY <1>2, <2>1 DEF resolve_error
  <2>5. PromptFillsTheGaps'
    BY <1>1, <2>3, <2>4
       DEF DInv, PromptFillsTheGaps, Questions, Supplies, NoSource, Fields, Places, Ranked
  <2>6. RefusalsAreTrue'
    BY <1>1, <2>2, RefusalsKept, StandingStill DEF DInv, Refusals
  <2> QED
    BY <2>1, <2>5, <2>6, FailKeeps DEF Resolve
<1>3. CASE stage' = "resolved" /\ UNCHANGED failure
  <2>1. LayersFill'
    BY <1>1, <1>3 DEF DInv, LayersFill, NoSource, Fields, Places, Ranked, Early
  <2>2. AsksForGaps' /\ NothingForgotten' /\ ChosenAsNamed'
    BY <1>3 DEF AsksForGaps, NothingForgotten, ChosenAsNamed
  <2> QED
    BY <1>1, <1>3, <2>1, <2>2, PortKept, RefusalsKept, GapsKept, StandingStill DEF DInv
<1> QED
  BY <1>2, <1>3 DEF Resolve

-----------------------------------------------------------------------------
(* The command around it. *)

\* Nothing is selected or asked before the first command.
LEMMA DiscoveryBegins == Init => DInv
<1> SUFFICES ASSUME Init PROVE DInv
  OBVIOUS
<1>1. stage = "idle" /\ failure = None /\ layers = [p \in Places |-> NoSource]
  BY DEF Init
<1>2. "prompt" \in Places /\ "docker" \in Places /\ NoSource = [f \in Fields |-> NoSource[f]]
  BY DEF Places, Ranked, NoSource
<1>3. LayersFill
  BY <1>1, <1>2 DEF LayersFill
<1>4. AsksForGaps /\ NothingForgotten /\ ChosenAsNamed
  BY <1>1 DEF AsksForGaps, NothingForgotten, ChosenAsNamed
<1>5. PortIsLive
  BY <1>1, <1>2 DEF PortIsLive, Supplies
<1>6. PromptFillsTheGaps /\ RefusalsAreTrue
  BY <1>1, <1>2, FailuresAssumption
     DEF PromptFillsTheGaps, RefusalsAreTrue, Supplies, Failures, ConfigErrors, DiscoveryErrors
<1> QED
  BY <1>3, <1>4, <1>5, <1>6 DEF DInv

\* A new command has selected and asked nothing.
LEMMA BeginningSteps ==
    ASSUME IInv, DInv, Connect \/ Again
    PROVE  DInv'
<1>1. "prompt" \in Places /\ "docker" \in Places /\ "prompt" # "cli" /\ "docker" # "cli"
  BY DEF Places, Ranked
<1>2. CASE Connect
  <2>1. stage' = "project" /\ failure' = None
        /\ layers' = [p \in Places |-> IF p = "cli" THEN args.cli ELSE NoSource]
    BY <1>2 DEF Connect, IInv, FailureFits
  <2> QED
    BY <1>1, <2>1, NothingRead
<1>3. CASE Again
  <2>1. stage' = "idle" /\ failure' = None /\ layers' = [p \in Places |-> NoSource]
    BY <1>3 DEF Again, Fresh
  <2> QED
    BY <1>1, <2>1, NothingRead
<1> QED
  BY <1>2, <1>3

\* Every step of the resolution keeps the invariant of discovery.
LEMMA ResolvingSteps == IInv /\ Remembered /\ DInv /\ Resolving => DInv'
BY ReadingSteps, SelectKeeps, ListContainersKeeps, InspectContainerKeeps, DockerFailsKeeps,
   FindMissingKeeps, AnswerKeeps, EndOfInputKeeps, PromptFailsKeeps, ResolveKeeps
   DEF Resolving, Respond, Prompted

\* So do the containers, whatever they do.
LEMMA DockerMovesSteps == Remembered /\ DInv /\ DockerMoves => DInv'
BY NothingAsked, ContainersGoOn DEF DockerMoves, Container

\* Everything else a command does leaves its resolution as it is.
LEMMA OtherSteps ==
    ASSUME DInv, [Next]_vars, ~Resolving, ~DockerMoves, ~Again, ~(Begin /\ Connect)
    PROVE  DInv'
<1>1. UNCHANGED <<args, docker, resolution, history>>
  <2>1. CASE Usage \/ NotConfigured \/ WorkFails \/ Executed \/ Compare \/ Export \/ PrintDocument
             \/ WriteTarget \/ Look \/ Inspect \/ Serve \/ Kill
    BY <2>1 DEF Usage, NotConfigured, WorkFails, Executed, Compare, Export, PrintDocument,
                WriteTarget, Look, Inspect, Serve, Kill, Elsewhere, discoveryVars
  <2>2. CASE Begin \/ Configured \/ Database \/ TimesOut
    BY <2>2 DEF Begin, Configured, Database, TimesOut, discoveryVars
  <2>3. CASE WriteProject \/ Edit
    BY <2>3 DEF WriteProject, Edit
  <2>4. CASE UNCHANGED vars
    BY <2>4 DEF vars, discoveryVars
  <2> QED
    BY <2>1, <2>2, <2>3, <2>4 DEF Next, Main
<1> QED
  BY <1>1, NothingAsked, StandingStill DEF history

\* Every step of the commands keeps the invariant of discovery.
THEOREM DiscoveryStep == IInv /\ Remembered /\ DInv /\ [Next]_vars => DInv'
BY ResolvingSteps, DockerMovesSteps, BeginningSteps, OtherSteps

\* Before the first command there is nothing to remember,
LEMMA RememberedBegins == Init => Remembered
BY DEF Init, Remembered

\* and what the containers are is remembered by every step.
LEMMA RememberedStep == Remembered /\ [Next]_vars => Remembered'
<1> SUFFICES ASSUME Remembered, [Next]_vars PROVE Remembered'
  OBVIOUS
<1>1. CASE DockerMoves
  <2>1. PICK c \in session.moving : Container(c)
    BY <1>1 DEF DockerMoves
  <2> QED
    BY <2>1 DEF Container, Remembered, resolution
<1>2. CASE Connect
  BY <1>2 DEF Connect, Remembered, docker
<1>3. CASE Again
  BY <1>3 DEF Again, Fresh, Remembered, docker
<1>4. CASE UNCHANGED <<docker, ran, down>> /\ (stage = "idle" => stage' = "idle")
  BY <1>4 DEF Remembered, docker
<1>5. CASE Resolving
  BY <1>4, <1>5 DEF Resolving, Respond, ReadProject, ReadDotenv, ReadEnvironment, Select, ListContainers,
     InspectContainer, FindMissing, Resolve, DockerFails, Prompted, Answer, EndOfInput, PromptFails, Undisturbed
<1>6. CASE ~Connect /\ ~DockerMoves /\ ~Again /\ ~Resolving
  <2>1. UNCHANGED <<docker, resolution, history>>
    <3>1. CASE Usage \/ NotConfigured \/ WorkFails \/ Executed \/ Compare \/ Export \/ PrintDocument
               \/ WriteTarget \/ Look \/ Inspect \/ Serve \/ Kill
      BY <3>1 DEF Usage, NotConfigured, WorkFails, Executed, Compare, Export, PrintDocument,
                  WriteTarget, Look, Inspect, Serve, Kill, Elsewhere, discoveryVars
    <3>2. CASE Begin \/ Configured \/ Database \/ TimesOut \/ WriteProject \/ Edit \/ UNCHANGED vars
      BY <1>6, <3>2 DEF Begin, Configured, Database, TimesOut, WriteProject, Edit, vars, discoveryVars
    <3> QED
      BY <1>6, <3>1, <3>2 DEF Next, Main
  <2> QED
    BY <1>4, <2>1 DEF resolution, history
<1> QED
  BY <1>1, <1>2, <1>3, <1>5, <1>6

\* Whatever the containers and the person do, the invariant of discovery holds.
THEOREM DiscoveryInvariant == Spec => []DInv
BY CommandsBegin, CommandStep, RememberedBegins, RememberedStep, DiscoveryBegins, DiscoveryStep, PTL
   DEF Spec

-----------------------------------------------------------------------------
(* The theorems of discovery. *)

\* Nothing a place has stated is asked for, and with a terminal a setting is
\* missing in the end only when its question got no answer.
THEOREM GapsAreAlwaysFilled == Spec => []PromptFillsTheGaps
<1>1. DInv => PromptFillsTheGaps
  BY DEF DInv
<1> QED
  BY <1>1, DiscoveryInvariant, PTL

\* What an error says of docker is or was so, whatever the containers do meanwhile.
THEOREM RefusalsAreAlwaysTrue == Spec => []RefusalsAreTrue
<1>1. DInv => RefusalsAreTrue
  BY DEF DInv
<1> QED
  BY <1>1, DiscoveryInvariant, PTL

\* A discovered port is one a container the command line named was published on
\* while the command ran, whatever the containers do between docker's answers.
THEOREM DiscoveredPortsAreLive == Spec => []DiscoveredPortIsLive
<1>1. DInv => DiscoveredPortIsLive
  BY DEF DInv, PortIsLive, DiscoveredPortIsLive
<1> QED
  BY <1>1, DiscoveryInvariant, PTL

-----------------------------------------------------------------------------
(* What reaches the database and what is printed of its answer, whatever   *)
(* the statement and the settings, and whenever a step fails.  The         *)
(* inductive invariant.                                                    *)

\* What a layer may hold: an engine there is, if any, and a list of databases.
IsLayer(source) ==
    source["driver"] \in Drivers \cup {None} /\ IsList(source["database"])

LayersHold ==
    /\ session \in Sessions /\ args \in session.lines
    /\ IsList(project.entries)
    /\ \A p \in Places : IsLayer(layers[p])

\* The first k elements.
Prefix(list, k) == [i \in 1 .. k |-> list[i]]

IsPart(part, list) == \E k \in 0 .. Len(list) : part = Prefix(list, k)

NotDialled == {"idle", "checking", "rejected"}

\* A connection opens the databases in order and ends with all of them; rows
\* arrive in order, and a statement returns with all of them.
ConnectionFits ==
    /\ phase # "idle" => stage = "resolved"
    /\ phase \in NotDialled => attached = <<>> /\ dialled = <<>>
    /\ phase \in NotDialled \cup {"dialling", "open"} => fetched = <<>>
    /\ phase = "dialling" /\ dialled # <<>> =>
        /\ dialled = <<Address(config)>>
        /\ IsPart(attached, config["database"]) /\ attached # config["database"]
    /\ phase \in {"open", "fetching", "returned"} =>
        dialled = <<Address(config)>> /\ attached = config["database"]
    /\ phase = "fetching" => IsList(answer.rows) /\ IsPart(fetched, answer.rows)
    /\ phase = "returned" => fetched = answer.rows

\* Only what returned is printed.
PrintFits ==
    args.command = "execute-statement" /\ (at = "printing" \/ stdout # "empty") => phase = "returned"

EInv == LayersHold /\ ConnectionFits /\ PrintFits

-----------------------------------------------------------------------------
(* Lists. *)

\* A list of one, and the empty one.
LEMMA SingleIsList == ASSUME NEW value PROVE IsList(<<value>>) /\ IsList(<<>>)
BY DEF IsList

\* The positions of a list.
LEMMA ListLength ==
    ASSUME NEW list, IsList(list)
    PROVE  Len(list) \in Nat /\ DOMAIN list = 1 .. Len(list)
BY DEF IsList

\* A function on 1 .. n is a list.
LEMMA FunctionIsList ==
    ASSUME NEW n \in Nat, NEW list, list = [i \in 1 .. n |-> list[i]]
    PROVE  IsList(list)
<1> DEFINE S == {list[i] : i \in 1 .. n}
<1>1. \A i \in 1 .. n : list[i] \in S
  OBVIOUS
<1>2. DOMAIN list = 1 .. n
  OBVIOUS
<1>3. S = {list[i] : i \in DOMAIN list}
  BY <1>2
<1> HIDE DEF S
<1>4. list \in Seq(S)
  BY <1>1
<1> QED
  BY <1>3, <1>4 DEF IsList

\* A list grows by its next element until it is whole.
LEMMA PrefixGrows ==
    ASSUME NEW list, IsList(list), NEW k \in 0 .. Len(list)
    PROVE  /\ Len(list) \in Nat
           /\ Len(Prefix(list, k)) = k
           /\ Prefix(list, Len(list)) = list
           /\ k < Len(list) => /\ Append(Prefix(list, k), list[k + 1]) = Prefix(list, k + 1)
                               /\ Prefix(list, k) # list
           /\ Prefix(list, 0) = <<>>
<1> DEFINE S == {list[i] : i \in DOMAIN list}
<1>1. list \in Seq(S)
  BY DEF IsList
<1> HIDE DEF S
<1>2. Len(list) \in Nat /\ DOMAIN list = 1 .. Len(list) /\ \A i \in 1 .. Len(list) : list[i] \in S
  BY <1>1
<1>3. Prefix(list, k) \in Seq(S) /\ Len(Prefix(list, k)) = k
  BY <1>2 DEF Prefix
<1>4. Prefix(list, Len(list)) = list
  BY <1>1, <1>2 DEF Prefix
<1>5. ASSUME k < Len(list)
      PROVE  /\ Append(Prefix(list, k), list[k + 1]) = Prefix(list, k + 1)
             /\ Prefix(list, k) # list
  BY <1>2, <1>3, <1>5 DEF Prefix
<1>6. Prefix(list, 0) = <<>>
  BY DEF Prefix
<1> QED
  BY <1>2, <1>3, <1>4, <1>5, <1>6

-----------------------------------------------------------------------------
(* Layers. *)

\* A layer that supplies nothing.
LEMMA NoSourceIsLayer == IsLayer(NoSource)
BY SingleIsList DEF IsLayer, NoSource, Fields

\* A set of positions of a list has a last.
LEMMA LastPosition ==
    ASSUME NEW n \in Nat, NEW S \in SUBSET (1 .. n), S # {}
    PROVE  \E i \in S : \A j \in S : j <= i
<1> DEFINE Above == {u \in 0 .. n : \A j \in S : j <= u}
           first == CHOOSE u \in Above : \A v \in Above : u <= v
<1>1. n \in Above
  OBVIOUS
<1>2. Above \in SUBSET Nat /\ Above # {}
  BY <1>1
<1>3. first \in Above /\ \A v \in Above : first <= v
  <2> HIDE DEF Above
  <2> QED
    BY <1>2, FirstPosition
<1> HIDE DEF first
<1>4. first \in 0 .. n /\ \A j \in S : j <= first
  BY <1>3
<1>5. first \in S
  <2> SUFFICES ASSUME first \notin S PROVE FALSE
    OBVIOUS
  <2>1. \A j \in S : j <= first - 1
    BY <1>4
  <2>2. first >= 1
    <3>1. PICK j \in S : j \in 1 .. n
      OBVIOUS
    <3>2. j <= first
      BY <1>4
    <3> QED
      BY <1>4, <3>1, <3>2
  <2>3. first - 1 \in Above
    BY <1>4, <2>1, <2>2
  <2> QED
    BY <1>3, <1>4, <2>3
<1> QED
  BY <1>4, <1>5

\* Entries whose drivers parse make a layer.
LEMMA EntriesMakeLayers ==
    ASSUME NEW entries, IsList(entries), NEW name,
           \A i \in DOMAIN entries :
                entries[i].key \in DOMAIN name /\ name[entries[i].key] = "driver"
                    => entries[i].value \in Drivers
    PROVE  IsLayer(FromEntries(entries, name))
<1> DEFINE At == {i \in DOMAIN entries :
                      entries[i].key \in DOMAIN name /\ name[entries[i].key] = "driver"}
           source == FromEntries(entries, name)
<1>1. source["driver"] \in Drivers \cup {None}
  <2>1. CASE At = {}
    BY <2>1 DEF FromEntries, Fields, NoSource
  <2>2. CASE At # {}
    <3>1. Len(entries) \in Nat /\ DOMAIN entries = 1 .. Len(entries)
      BY DEF IsList
    <3>2. At \in SUBSET (1 .. Len(entries))
      BY <3>1
    <3> DEFINE last == CHOOSE i \in At : \A j \in At : j <= i
    <3>3. last \in At
      <4> HIDE DEF At
      <4> QED
        BY <2>2, <3>1, <3>2, LastPosition
    <3>4. source["driver"] = entries[last].value
      BY <2>2 DEF FromEntries, Fields, Held
    <3> QED
      BY <3>3, <3>4
  <2> QED
    BY <2>1, <2>2
<1>2. IsList(source["database"])
  BY SingleIsList DEF FromEntries, Fields, NoSource, Held
<1> QED
  BY <1>1, <1>2 DEF IsLayer

\* What is read of files and variables is a layer.
LEMMA FilesMakeLayers ==
    ASSUME NEW file, NEW required, NEW entries, IsList(entries), IsList(file.entries)
    PROVE  /\ IsLayer(load(file).source)
           /\ IsLayer(from_vars(entries).source)
           /\ IsLayer(from_dotenv(file, required).source)
<1>1. ASSUME NEW list, IsList(list)
      PROVE  IsLayer(from_vars(list).source)
  <2> DEFINE bad == {i \in DOMAIN list :
                        list[i].key \in DOMAIN FieldOf /\ ~Parses(FieldOf[list[i].key], list[i].value)}
  <2>1. CASE bad = {}
    <3>1. \A i \in DOMAIN list :
             list[i].key \in DOMAIN FieldOf /\ FieldOf[list[i].key] = "driver" => list[i].value \in Drivers
      <4>1. \A value : Parses("driver", value) => value \in Drivers
        BY DEF Parses
      <4> QED
        BY <2>1, <4>1
    <3>2. IsLayer(FromEntries(list, FieldOf))
      BY <1>1, <3>1, EntriesMakeLayers
    <3> QED
      BY <2>1, <3>2 DEF from_vars, Read
  <2>2. CASE bad # {}
    BY <2>2, NoSourceIsLayer DEF from_vars, Unread
  <2> QED
    BY <2>1, <2>2
<1>2. IsLayer(load(file).source)
  <2>1. CASE /\ file.state \notin {"absent", "unreadable"} /\ ~password_line(file) /\ WellFormed(file)
    <3>1. \A i \in DOMAIN file.entries :
             /\ file.entries[i].key \in DOMAIN ConnectionKeys
             /\ ConnectionKeys[file.entries[i].key] = "driver"
             => file.entries[i].value \in Drivers
      <4> SUFFICES ASSUME NEW i \in DOMAIN file.entries,
                          file.entries[i].key \in DOMAIN ConnectionKeys,
                          ConnectionKeys[file.entries[i].key] = "driver"
                   PROVE  file.entries[i].value \in Drivers
        OBVIOUS
      <4>1. file.entries[i].key = "driver"
        BY DEF ConnectionKeys
      <4>2. Parses(file.entries[i].key, file.entries[i].value)
        BY <2>1 DEF WellFormed
      <4> QED
        BY <4>1, <4>2 DEF Parses
    <3>2. IsLayer(FromEntries(file.entries, ConnectionKeys))
      BY <3>1, EntriesMakeLayers
    <3> QED
      BY <2>1, <3>2 DEF load, Read
  <2>2. CASE ~(file.state \notin {"absent", "unreadable"} /\ ~password_line(file) /\ WellFormed(file))
    BY <2>2, NoSourceIsLayer DEF load, Read, Unread
  <2> QED
    BY <2>1, <2>2
<1>3. IsLayer(from_dotenv(file, required).source)
  <2>1. IsLayer(from_vars(file.entries).source)
    BY <1>1
  <2> QED
    BY <2>1, NoSourceIsLayer DEF from_dotenv, Read, Unread
<1> QED
  BY <1>1, <1>2, <1>3

\* What docker tells of a container is a layer.
LEMMA DockerMakesLayers ==
    ASSUME NEW c PROVE IsLayer(source_from_inspect(c).source)
<1>1. CASE c \notin Containers \/ state[c] = "removed" \/ driver_of(c) = None
  BY <1>1, NoSourceIsLayer DEF source_from_inspect, Unread
<1>2. CASE c \in Containers /\ state[c] # "removed" /\ driver_of(c) # None /\ driver_of(c) = "sqlite"
  <2>1. IsList(mounted_databases(c))
    <3> DEFINE files == {i \in DOMAIN Described[c].mounts : Described[c].mounts[i].db}
    <3>1. Cardinality(files) \in Nat
      <4>1. IsFiniteSet(DOMAIN Described[c].mounts)
        <5>1. IsList(Described[c].mounts)
          BY <1>2, MountsAssumption
        <5>2. /\ Len(Described[c].mounts) \in Nat
              /\ DOMAIN Described[c].mounts = 1 .. Len(Described[c].mounts)
          BY <5>1, ListLength
        <5> QED
          BY <5>2, FS_Interval
      <4>2. IsFiniteSet(files)
        BY <4>1, FS_Subset
      <4> QED
        BY <4>2, FS_CardinalityType
    <3>2. mounted_databases(c) = [i \in 1 .. Cardinality(files) |-> mounted_databases(c)[i]]
      BY DEF mounted_databases
    <3> HIDE DEF files
    <3> QED
      BY <3>1, <3>2, FunctionIsList
  <2>2. \A files : IsList(files) =>
           IsLayer([NoSource EXCEPT !["driver"] = "sqlite", !["database"] = files])
    BY DEF IsLayer, NoSource, Fields, Drivers
  <2> QED
    BY <1>2, <2>1, <2>2, NoSourceIsLayer DEF source_from_inspect, Read, Unread
<1>3. CASE c \in Containers /\ state[c] # "removed" /\ driver_of(c) \notin {None, "sqlite"}
  <2>1. driver_from_image(Described[c].image) \in Drivers \cup {None}
    <3> DEFINE found == {i \in DOMAIN ImageWords : Described[c].image \cap ImageWords[i] # {}}
               first == CHOOSE i \in found : \A j \in found : i <= j
    <3>1. found \in SUBSET Nat /\ found \in SUBSET (1 .. 5)
      BY DEF ImageWords
    <3>2. found # {} => first \in 1 .. 5
      <4> HIDE DEF found
      <4> QED
        BY <3>1, FirstPosition
    <3>3. \A i \in 1 .. 5 : ImageDrivers[i] \in Drivers
      BY DEF ImageDrivers, Drivers
    <3>4. driver_from_image(Described[c].image) = IF found = {} THEN None ELSE ImageDrivers[first]
      BY DEF driver_from_image
    <3> HIDE DEF found, first
    <3> QED
      BY <3>2, <3>3, <3>4
  <2>2. driver_of(c) \in Drivers
    BY <1>3, <2>1 DEF driver_of, Drivers
  <2>3. ASSUME NEW driver \in Drivers, NEW port, NEW env
        PROVE  IsLayer(settings(driver, port, env))
    BY SingleIsList DEF IsLayer, settings, Fields, NoSource
  <2> QED
    BY <1>3, <2>2, <2>3, NoSourceIsLayer DEF source_from_inspect, Read, Unread
<1> QED
  BY <1>1, <1>2, <1>3

-----------------------------------------------------------------------------
(* The steps of a resolution. *)

\* A layer that was read takes the place of one that was there.
LEMMA TakeHolds ==
    ASSUME \A p \in Places : IsLayer(layers[p]), layers = [p \in Places |-> layers[p]],
           NEW place \in Places, NEW read, NEW next, IsLayer(read.source), Take(place, read, next)
    PROVE  \A p \in Places : IsLayer(layers'[p])
<1>1. layers' = layers \/ layers' = [layers EXCEPT ![place] = read.source]
  BY DEF Take, Fail
<1> QED
  BY <1>1

\* One field of a layer is set, and the others stay.
LEMMA FieldIsSet ==
    ASSUME NEW source, source = [f \in Fields |-> source[f]], NEW g \in Fields, NEW value
    PROVE  LET set == [source EXCEPT ![g] = value]
           IN  set[g] = value /\ \A f \in Fields \ {g} : set[f] = source[f]
OBVIOUS

\* An answer that parses is a layer.
LEMMA AnswerHolds ==
    ASSUME DInv, \A p \in Places : IsLayer(layers[p]), Answer
    PROVE  \A p \in Places : IsLayer(layers'[p])
<1>1. /\ asking \in Seq(Questions) /\ asking # <<>>
      /\ layers = [p \in Places |-> layers[p]]
      /\ layers["prompt"] = [f \in Fields |-> layers["prompt"][f]]
  BY DEF DInv, AsksForGaps, LayersFill, Answer
<1>2. Head(asking) \in Questions
  BY <1>1
<1>3. PICK line \in Lines :
        \/ layers' = layers
        \/ /\ Parses(Head(asking), line)
           /\ layers' = [layers EXCEPT !["prompt"][Head(asking)] = Held(Head(asking), line)]
  BY DEF Answer, Fail
<1>4. CASE /\ Parses(Head(asking), line)
           /\ layers' = [layers EXCEPT !["prompt"][Head(asking)] = Held(Head(asking), line)]
  <2> DEFINE source == [layers["prompt"] EXCEPT ![Head(asking)] = Held(Head(asking), line)]
  <2>1. layers' = [layers EXCEPT !["prompt"] = source]
    BY <1>4
  <2>2. IsLayer(layers["prompt"]) /\ "prompt" \in Places
    BY DEF Places, Ranked
  <2>3. ASSUME Head(asking) = "driver" PROVE IsLayer(source)
    <3>1. line \in Drivers
      <4>1. Parses("driver", line)
        BY <1>4, <2>3, Zenon
      <4> QED
        BY <4>1 DEF Parses
    <3>2. source["driver"] = line /\ source["database"] = layers["prompt"]["database"]
      <4>1. "driver" \in Fields /\ "database" \in Fields \ {"driver"}
        BY DEF Fields
      <4>2. source = [layers["prompt"] EXCEPT !["driver"] = line]
        BY <2>3 DEF Held
      <4> HIDE DEF source
      <4> QED
        BY <1>1, <4>1, <4>2, FieldIsSet
    <3> QED
      BY <2>2, <3>1, <3>2 DEF IsLayer
  <2>4. ASSUME Head(asking) = "database" PROVE IsLayer(source)
    <3>1. source["driver"] = layers["prompt"]["driver"] /\ source["database"] = <<line>>
      <4>1. "database" \in Fields /\ "driver" \in Fields \ {"database"}
        BY DEF Fields
      <4>2. source = [layers["prompt"] EXCEPT !["database"] = <<line>>]
        BY <2>4 DEF Held
      <4> HIDE DEF source
      <4> QED
        BY <1>1, <4>1, <4>2, FieldIsSet
    <3> QED
      BY <2>2, <3>1, SingleIsList DEF IsLayer
  <2>5. IsLayer(source)
    BY <1>2, <2>3, <2>4 DEF Questions
  <2> HIDE DEF source
  <2> QED
    BY <1>1, <2>1, <2>2, <2>5
<1> QED
  BY <1>3, <1>4

\* Each layer a resolution reads is one.
LEMMA ResolvingHolds == DInv /\ LayersHold /\ Resolving => LayersHold'
<1> SUFFICES ASSUME DInv, LayersHold, Resolving PROVE LayersHold'
  OBVIOUS
<1>1. /\ \A p \in Places : IsLayer(layers[p])
      /\ layers = [p \in Places |-> layers[p]]
      /\ IsList(args.vars) /\ IsList(args.dotenv.entries) /\ IsList(project.entries)
  BY SessionsAssumption DEF DInv, LayersFill, LayersHold
<1>2. \A p \in Places : IsLayer(layers'[p])
  <2>1. {"project", "dotenv", "environment", "docker"} \subseteq Places
    BY DEF Places, Ranked
  <2>2. CASE ReadProject
    BY <1>1, <2>1, <2>2, FilesMakeLayers, TakeHolds DEF ReadProject
  <2>3. CASE ReadDotenv
    BY <1>1, <2>1, <2>3, FilesMakeLayers, TakeHolds DEF ReadDotenv
  <2>4. CASE ReadEnvironment
    BY <1>1, <2>1, <2>4, FilesMakeLayers, TakeHolds DEF ReadEnvironment
  <2>5. CASE InspectContainer
    BY <1>1, <2>1, <2>5, DockerMakesLayers, TakeHolds DEF InspectContainer
  <2>6. CASE Answer
    BY <1>1, <2>6, AnswerHolds
  <2>7. CASE Select \/ ListContainers \/ FindMissing \/ Resolve \/ DockerFails \/ EndOfInput \/ PromptFails
    BY <1>1, <2>7 DEF Select, ListContainers, FindMissing, Resolve, DockerFails, EndOfInput,
                      PromptFails, Fail
  <2> QED
    BY <2>2, <2>3, <2>4, <2>5, <2>6, <2>7 DEF Resolving, Respond, Prompted
<1>3. UNCHANGED <<session, args, project>>
  BY DEF Resolving, mainVars, Respond, Prompted, DockerFails, ReadProject, ReadDotenv,
         ReadEnvironment, InspectContainer, Answer, Select, ListContainers, FindMissing, Resolve,
         EndOfInput, PromptFails, Undisturbed
<1> QED
  BY <1>2, <1>3 DEF LayersHold

\* What layers resolve to: an engine, at least one database, and one only
\* where the engine cannot open more.
LEMMA ResolvedConnects ==
    ASSUME IInv, LayersHold, stage = "resolved"
    PROVE  /\ config["driver"] \in Drivers
           /\ IsList(config["database"]) /\ config["database"] # <<>>
           /\ config["driver"] # "sqlite" => Len(config["database"]) = 1
<1>1. config = resolved(Sources) /\ resolve_error(Sources) = None
  BY DEF IInv, FromLayers
<1>2. /\ Supplied(Sources, "database") /\ Supplied(Sources, "driver")
      /\ Pick(Sources, "driver", None) = "sqlite" \/ ~(Len(Pick(Sources, "database", <<>>)) > 1)
  BY <1>1, FailuresAssumption DEF resolve_error, Failures, ConfigErrors
<1>3. ASSUME NEW f \in {"driver", "database"}, NEW fallback
      PROVE  \E p \in Places : /\ Pick(Sources, f, fallback) = layers[p][f]
                               /\ Supplies(layers[p], f)
  <2>1. /\ DOMAIN Ranked = 1 .. 6 /\ DOMAIN Sources = 1 .. 6
        /\ \A i \in 1 .. 6 : Sources[i] = layers[Ranked[i]] /\ Ranked[i] \in Places
    BY DEF Ranked, Sources, Places
  <2> DEFINE S == {i \in 1 .. 6 : Supplies(Sources[i], f)}
             Least(i) == /\ Supplies(Sources[i], f)
                         /\ \A j \in DOMAIN Sources : Supplies(Sources[j], f) => i <= j
  <2>2. S \in SUBSET (1 .. 6) /\ S # {}
    BY <1>2, <2>1 DEF Supplied
  <2>3. PICK i \in S : \A j \in S : i <= j
    <3> HIDE DEF S
    <3> QED
      BY <2>2, EarliestExists
  <2>4. \E k \in DOMAIN Sources : Least(k)
    BY <2>1, <2>3
  <2> DEFINE first == CHOOSE k \in DOMAIN Sources : Least(k)
  <2>5. first \in DOMAIN Sources /\ Least(first)
    <3> HIDE DEF Least
    <3> QED
      BY <2>4
  <2>6. Pick(Sources, f, fallback) = Sources[first][f]
    BY <1>2 DEF Pick
  <2>7. Supplies(Sources[first], f)
    BY <2>5
  <2> HIDE DEF first
  <2> QED
    BY <2>1, <2>5, <2>6, <2>7
<1>4. /\ config["driver"] = Pick(Sources, "driver", NoSource["driver"])
      /\ config["database"] = Pick(Sources, "database", NoSource["database"])
      /\ NoSource["driver"] = None /\ NoSource["database"] = <<>>
  BY <1>1 DEF resolved, Fields, NoSource
<1>5. config["driver"] \in Drivers
  BY <1>3, <1>4 DEF Supplies, LayersHold, IsLayer
<1>6. IsList(config["database"]) /\ config["database"] # <<>>
  BY <1>3, <1>4 DEF Supplies, LayersHold, IsLayer
<1>7. config["driver"] # "sqlite" => Len(config["database"]) = 1
  <2>1. ASSUME NEW list, IsList(list), list # <<>>, ~(Len(list) > 1)
        PROVE  Len(list) = 1
    <3>1. Len(list) \in Nat /\ Len(list) # 0
      <4>1. Len(list) \in Nat
        BY <2>1, ListLength
      <4>2. 0 \in 0 .. Len(list)
        BY <4>1
      <4>3. Prefix(list, Len(list)) = list /\ Prefix(list, 0) = <<>>
        BY <2>1, <4>2, PrefixGrows
      <4> QED
        BY <2>1, <4>1, <4>3
    <3>2. \A n \in Nat : n # 0 /\ ~(n > 1) => n = 1
      OBVIOUS
    <3> QED
      BY <2>1, <3>1, <3>2
  <2> QED
    BY <1>2, <1>4, <1>6, <2>1
<1> QED
  BY <1>5, <1>6, <1>7

-----------------------------------------------------------------------------
(* The steps of a connection and of a statement. *)

\* The first contact opens the first database, or none on SQL Server.
LEMMA DialFitsLists ==
    ASSUME IInv, EInv, Dial, UNCHANGED <<stage, config>>
    PROVE  ConnectionFits'
<1> DEFINE list == config["database"]
<1>1. /\ stage = "resolved" /\ phase = "dialling" /\ dialled = <<>> /\ fetched = <<>>
      /\ dialled' = <<Address(config)>> /\ attached' = Opened(config)
      /\ phase' = IF Opened(config) = list THEN "open" ELSE "dialling"
      /\ UNCHANGED <<answer, fetched>>
  BY DEF Dial, EInv, ConnectionFits
<1>2. IsList(list) /\ list # <<>> /\ Len(list) \in Nat
  BY <1>1, ResolvedConnects, ListLength DEF EInv
<1>3. Prefix(list, 0) = <<>> /\ Prefix(list, Len(list)) = list
  BY <1>2, PrefixGrows
<1>4. 1 \in 0 .. Len(list) /\ 0 \in 0 .. Len(list)
  BY <1>2, <1>3
<1>5. Opened(config) = Prefix(list, IF config["driver"] = "sqlsrv" THEN 0 ELSE 1)
  BY <1>3 DEF Opened, Prefix
<1>6. IsPart(Opened(config), list)
  BY <1>4, <1>5 DEF IsPart
<1> HIDE DEF list
<1> QED
  BY <1>1, <1>6 DEF ConnectionFits, NotDialled, list

\* Each further one is the next of the list, until none is left.
LEMMA AttachFitsLists ==
    ASSUME IInv, EInv, Attach, UNCHANGED <<stage, config>>
    PROVE  ConnectionFits'
<1> DEFINE list == config["database"]
<1>1. /\ stage = "resolved" /\ phase = "dialling" /\ dialled # <<>> /\ fetched = <<>>
      /\ dialled = <<Address(config)>> /\ IsPart(attached, list) /\ attached # list
      /\ attached' = Append(attached, list[Len(attached) + 1])
      /\ phase' = IF Len(attached') = Len(list) THEN "open" ELSE "dialling"
      /\ UNCHANGED <<dialled, answer, fetched>>
  BY DEF Attach, EInv, ConnectionFits
<1>2. IsList(list) /\ Len(list) \in Nat
  BY <1>1, ResolvedConnects, ListLength DEF EInv
<1>3. PICK k \in 0 .. Len(list) : attached = Prefix(list, k)
  BY <1>1 DEF IsPart
<1> HIDE DEF list
<1>4. k < Len(list) /\ Len(attached) = k /\ attached' = Prefix(list, k + 1)
  <2>1. k # Len(list)
    BY <1>1, <1>2, <1>3, PrefixGrows
  <2> QED
    BY <1>1, <1>2, <1>3, <2>1, PrefixGrows
<1>5. k + 1 \in 0 .. Len(list)
  BY <1>2, <1>4
<1>6. Len(attached') = k + 1 /\ (k + 1 = Len(list) => attached' = list)
      /\ (k + 1 < Len(list) => attached' # list)
  BY <1>2, <1>4, <1>5, PrefixGrows
<1>7. IsPart(attached', list)
  BY <1>4, <1>5 DEF IsPart
<1>8. phase' = "open" <=> k + 1 = Len(list)
  BY <1>1, <1>6
<1>9. IF k + 1 = Len(list) THEN phase' = "open" /\ attached' = list
                           ELSE phase' = "dialling" /\ attached' # list
  BY <1>1, <1>2, <1>5, <1>6, <1>8
<1> QED
  BY <1>1, <1>7, <1>9 DEF ConnectionFits, NotDialled, list

\* An answer begins with none of its rows.
LEMMA QueryFitsLists ==
    ASSUME IInv, EInv, Query, UNCHANGED <<stage, config>>
    PROVE  ConnectionFits'
<1>1. /\ stage = "resolved" /\ phase = "open" /\ phase' = "fetching" /\ fetched = <<>>
      /\ answer' \in Tables[config["driver"]]
      /\ UNCHANGED <<dialled, attached, fetched>>
      /\ dialled = <<Address(config)>> /\ attached = config["database"]
  BY DEF Query, EInv, ConnectionFits
<1>2. IsList(answer'.rows)
  BY <1>1, ResolvedConnects, TablesAssumption DEF EInv
<1>3. 0 \in 0 .. Len(answer'.rows)
  BY <1>2, ListLength
<1>4. IsPart(fetched, answer'.rows)
  BY <1>1, <1>2, <1>3, PrefixGrows DEF IsPart
<1> QED
  BY <1>1, <1>2, <1>4 DEF ConnectionFits, NotDialled

\* Each row that arrives is the next, and the end comes after the last.
LEMMA FetchFitsLists ==
    ASSUME EInv, Fetch \/ FetchEnds, UNCHANGED <<stage, config>>
    PROVE  ConnectionFits'
<1> DEFINE rows == answer.rows
<1>1. /\ stage = "resolved" /\ phase = "fetching" /\ IsList(rows) /\ IsPart(fetched, rows)
      /\ UNCHANGED <<dialled, attached, answer>>
      /\ dialled = <<Address(config)>> /\ attached = config["database"]
  BY DEF Fetch, FetchEnds, EInv, ConnectionFits
<1>2. PICK k \in 0 .. Len(rows) : fetched = Prefix(rows, k)
  BY <1>1 DEF IsPart
<1>3. Len(rows) \in Nat /\ Len(fetched) = k
  BY <1>1, <1>2, ListLength, PrefixGrows
<1>4. CASE Fetch
  <2>1. /\ phase' = "fetching" /\ Len(fetched) < Len(rows)
        /\ fetched' = Append(fetched, rows[Len(fetched) + 1])
    BY <1>1, <1>4 DEF Fetch
  <2> HIDE DEF rows
  <2>2. k + 1 \in 0 .. Len(rows)
    BY <1>3, <2>1
  <2>3. fetched' = Prefix(rows, k + 1)
    BY <1>1, <1>2, <1>3, <2>1, PrefixGrows
  <2>4. IsPart(fetched', rows)
    BY <2>2, <2>3 DEF IsPart
  <2> QED
    BY <1>1, <2>1, <2>4 DEF ConnectionFits, NotDialled, rows
<1>5. CASE FetchEnds
  <2>1. phase' = "returned" /\ Len(fetched) = Len(rows) /\ UNCHANGED fetched
    BY <1>5 DEF FetchEnds
  <2>2. fetched = rows
    BY <1>1, <1>2, <1>3, <2>1, PrefixGrows
  <2> QED
    BY <1>1, <2>1, <2>2 DEF ConnectionFits, NotDialled
<1> QED
  BY <1>4, <1>5

\* The other steps refuse, give up, or let a statement through.
LEMMA DatabaseHolds == IInv /\ EInv /\ (Database \/ TimesOut) => ConnectionFits'
<1> SUFFICES ASSUME IInv, EInv, Database \/ TimesOut PROVE ConnectionFits'
  OBVIOUS
<1>1. UNCHANGED <<stage, config>>
  BY DEF Database, TimesOut, discoveryVars, resolution
<1>2. CASE Dial \/ Attach \/ Query \/ Fetch \/ FetchEnds
  BY <1>1, <1>2, DialFitsLists, AttachFitsLists, QueryFitsLists, FetchFitsLists
<1>3. CASE DialFails \/ FetchFails \/ Expire
  <2>1. phase # "idle" /\ phase' \in {"refused", "expired"}
    BY <1>3 DEF DialFails, FetchFails, Expire, Contacting
  <2> QED
    BY <1>1, <2>1 DEF EInv, ConnectionFits, NotDialled
<1>4. CASE CheckStatement
  <2>1. phase = "checking" /\ phase' \in {"dialling", "rejected"}
        /\ UNCHANGED <<dialled, attached, answer, fetched>>
    BY <1>4 DEF CheckStatement
  <2> QED
    BY <1>1, <2>1 DEF EInv, ConnectionFits, NotDialled
<1> QED
  BY <1>2, <1>3, <1>4 DEF Database, TimesOut

-----------------------------------------------------------------------------
(* The steps of the command itself. *)

\* Where neither the layers nor the connection are touched.
LEMMA Untouched ==
    ASSUME EInv, UNCHANGED <<session, args, layers, stage, config, executionVars>>,
           IsList(project'.entries), PrintFits'
    PROVE  EInv'
<1>1. UNCHANGED <<phase, dialled, attached, answer, fetched>>
  BY DEF executionVars
<1> QED
  BY <1>1 DEF EInv, LayersHold, ConnectionFits

\* At the start nothing is read, dialled or printed.
LEMMA ExecutionBegins == Init => EInv
<1> SUFFICES ASSUME Init PROVE EInv
  OBVIOUS
<1>1. LayersHold
  BY SessionsAssumption, NoSourceIsLayer DEF Init, LayersHold
<1>2. ConnectionFits /\ PrintFits
  BY DEF Init, ConnectionFits, PrintFits, NotDialled
<1> QED
  BY <1>1, <1>2 DEF EInv

\* And so it is when the next command begins.
LEMMA AgainHolds == EInv /\ Again => EInv'
<1> SUFFICES ASSUME EInv, Again PROVE EInv'
  OBVIOUS
<1>1. /\ session' = session /\ project' = project /\ args' \in session.lines
      /\ layers' = [p \in Places |-> NoSource] /\ phase' = "idle" /\ at' = "parsed"
      /\ stdout' = "empty" /\ attached' = <<>> /\ dialled' = <<>> /\ fetched' = <<>>
  BY DEF Again, Fresh
<1>2. LayersHold'
  BY <1>1, NoSourceIsLayer DEF EInv, LayersHold
<1> QED
  BY <1>1, <1>2 DEF EInv, ConnectionFits, PrintFits, NotDialled

\* The layer of the command line is what clap made of it.
LEMMA ConnectHolds == IInv /\ EInv /\ Begin /\ Connect => EInv'
<1> SUFFICES ASSUME IInv, EInv, Begin, Connect PROVE EInv'
  OBVIOUS
<1>1. /\ UNCHANGED <<session, args, project, executionVars, stdout>>
      /\ layers' = [p \in Places |-> IF p = "cli" THEN args.cli ELSE NoSource]
      /\ at = "parsed" /\ stage' = "project"
      /\ at' = "printing" => args.command = "llm-txt"
  BY DEF Begin, Connect, Goto, discoveryVars, resolution
<1>2. IsLayer(args.cli)
  BY SessionsAssumption DEF EInv, LayersHold, IsLayer
<1>3. LayersHold'
  BY <1>1, <1>2, NoSourceIsLayer DEF EInv, LayersHold
<1>4. phase = "idle" /\ UNCHANGED <<phase, dialled, attached, answer, fetched>>
  BY <1>1 DEF IInv, PhaseFits, Before, executionVars
<1> QED
  BY <1>1, <1>3, <1>4 DEF EInv, ConnectionFits, PrintFits, NotDialled

\* While settings are resolved nothing is dialled.
LEMMA ResolutionHolds == IInv /\ DInv /\ EInv /\ Resolving => EInv'
<1> SUFFICES ASSUME IInv, DInv, EInv, Resolving PROVE EInv'
  OBVIOUS
<1>1. at = "connecting" /\ UNCHANGED <<at, stdout, phase, dialled, attached, answer, fetched>>
  BY DEF Resolving, executionVars, mainVars
<1>2. phase = "idle"
  BY <1>1 DEF IInv, PhaseFits, Before
<1>3. args' = args
  BY ResolutionGoesOn DEF Resolving, IInv, FailureFits
<1> QED
  BY <1>1, <1>2, <1>3, ResolvingHolds DEF EInv, ConnectionFits, PrintFits, NotDialled

\* What is resolved stays so while the command works.
LEMMA ConfiguredHolds == IInv /\ EInv /\ Configured => EInv'
<1> SUFFICES ASSUME IInv, EInv, Configured PROVE EInv'
  OBVIOUS
<1>1. /\ UNCHANGED <<session, args, project, layers, stage, config, dialled, attached, answer, fetched>>
      /\ stdout' = stdout /\ at' # "printing" /\ at = "connecting" /\ stage = "resolved"
      /\ phase' = phase \/ phase' \in {"checking", "dialling"}
  BY DEF Configured, Goto, Exit, discoveryVars, resolution
<1>2. phase = "idle"
  BY <1>1 DEF IInv, PhaseFits, Before
<1>3. LayersHold'
  BY <1>1 DEF EInv, LayersHold
<1> QED
  BY <1>1, <1>2, <1>3 DEF EInv, ConnectionFits, PrintFits, NotDialled

\* Of what prints, only a statement that returned is an execute-statement.
LEMMA MovesHold ==
    ASSUME IInv, EInv, [Next]_vars, ~Resolving, ~Again, ~(Begin /\ Connect), ~Configured,
           ~Database, ~TimesOut
    PROVE  EInv'
<1>1. CASE Usage \/ NotConfigured \/ WorkFails \/ Executed \/ Compare \/ Export \/ PrintDocument
           \/ WriteTarget \/ Look \/ Inspect \/ Serve \/ Kill
  <2>1. UNCHANGED <<session, args, project, layers, stage, config, executionVars>>
    BY <1>1 DEF Usage, NotConfigured, WorkFails, Executed, Compare, Export, PrintDocument,
                WriteTarget, Look, Inspect, Serve, Kill, Elsewhere, Exit, Goto, discoveryVars,
                resolution
  <2>2. PrintFits'
    <3>1. phase' = phase /\ args' = args
      BY <2>1 DEF executionVars
    <3>2. CASE Usage \/ NotConfigured \/ WorkFails \/ Export \/ WriteTarget \/ Look \/ Serve \/ Kill
      <4>1. at' # "printing" \/ at' = at
        BY <3>2 DEF Usage, NotConfigured, WorkFails, Export, WriteTarget, Look, Serve, Kill, Exit, Goto
      <4>2. stdout' = stdout
        BY <3>2 DEF Usage, NotConfigured, WorkFails, Export, WriteTarget, Look, Serve, Kill, Exit, Goto
      <4> QED
        BY <3>1, <4>1, <4>2 DEF EInv, PrintFits
    <3>3. CASE Executed
      BY <3>1, <3>3 DEF Executed, Goto, PrintFits
    <3>4. CASE Compare \/ Inspect
      BY <3>1, <3>4 DEF Compare, Inspect, Exit, IInv, Belongs, EInv, PrintFits, Catalog
    <3>5. CASE PrintDocument
      BY <3>1, <3>5 DEF PrintDocument, EInv, PrintFits
    <3> QED
      BY <1>1, <3>2, <3>3, <3>4, <3>5
  <2> QED
    BY <2>1, <2>2, Untouched DEF EInv, LayersHold
<1>2. CASE Begin
  <2>1. /\ UNCHANGED <<session, args, project, layers, stage, config, executionVars, stdout>>
        /\ at' = "printing" => args.command = "llm-txt"
    BY <1>2 DEF Begin, Goto, discoveryVars, resolution
  <2>2. PrintFits'
    BY <2>1 DEF executionVars, EInv, PrintFits
  <2> QED
    BY <2>1, <2>2, Untouched DEF EInv, LayersHold
<1>3. CASE DockerMoves
  <2>1. UNCHANGED <<session, args, project, layers, stage, config, executionVars, stdout, at>>
    BY <1>3 DEF DockerMoves, Container, resolution, mainVars
  <2>2. PrintFits'
    BY <2>1 DEF executionVars, EInv, PrintFits
  <2> QED
    BY <2>1, <2>2, Untouched DEF EInv, LayersHold
<1>4. CASE WriteProject
  <2>1. /\ UNCHANGED <<session, args, layers, stage, config, executionVars>>
        /\ project' = project \/ project'.entries = <<>>
        /\ at = "initializing" /\ (at' = at \/ at' = "exited")
    BY <1>4 DEF WriteProject, resolution, Truncated, Template
  <2>2. PrintFits'
    BY <2>1 DEF IInv, Belongs, PrintFits
  <2>3. IsList(project'.entries)
    BY <2>1, SingleIsList DEF EInv, LayersHold
  <2> QED
    BY <2>1, <2>2, <2>3, Untouched
<1>5. CASE Edit
  <2>1. /\ UNCHANGED <<session, args, layers, stage, config, executionVars, stdout, at>>
        /\ project' = session.project
    BY <1>5 DEF Edit, resolution, mainVars
  <2>2. PrintFits'
    BY <2>1 DEF executionVars, EInv, PrintFits
  <2>3. IsList(project'.entries)
    BY <2>1, SessionsAssumption DEF EInv, LayersHold
  <2> QED
    BY <2>1, <2>2, <2>3, Untouched
<1>6. CASE UNCHANGED vars
  <2>1. UNCHANGED <<session, args, project, layers, stage, config, executionVars, stdout, at>>
    BY <1>6 DEF vars, discoveryVars, resolution, mainVars
  <2>2. PrintFits'
    BY <2>1 DEF executionVars, EInv, PrintFits
  <2> QED
    BY <2>1, <2>2, Untouched DEF EInv, LayersHold
<1> QED
  BY <1>1, <1>2, <1>3, <1>4, <1>5, <1>6 DEF Next, Main

\* The database changes no setting, and prints nothing.
LEMMA DatabaseSteps == IInv /\ EInv /\ (Database \/ TimesOut) => EInv'
<1> SUFFICES ASSUME IInv, EInv, Database \/ TimesOut PROVE EInv'
  OBVIOUS
<1>1. /\ UNCHANGED <<session, args, project, layers, at, stdout>> /\ at = "working"
      /\ phase # "returned"
  BY DEF Database, TimesOut, Timed, discoveryVars, resolution, mainVars, Dial, Attach, DialFails,
         CheckStatement, Query, Fetch, FetchFails, FetchEnds, Expire, Contacting
<1>2. LayersHold'
  BY <1>1 DEF EInv, LayersHold
<1>3. PrintFits'
  BY <1>1 DEF EInv, PrintFits
<1> QED
  BY <1>2, <1>3, DatabaseHolds DEF EInv

\* The three invariants together are inductive.
THEOREM ExecutionStep == IInv /\ DInv /\ EInv /\ [Next]_vars => EInv'
BY ConnectHolds, ResolutionHolds, ConfiguredHolds, DatabaseSteps, AgainHolds, MovesHold

\* And so they hold always.
THEOREM ExecutionInvariant == Spec => []EInv
BY CommandsBegin, CommandStep, DiscoveryInvariant, ExecutionBegins, ExecutionStep, PTL DEF Spec

-----------------------------------------------------------------------------
(* The theorems of a statement. *)

\* Whichever places the settings are from, the connection that is open is to the
\* host, the port and all of the databases they resolve to, in order.
THEOREM ConnectionsAreResolved == Spec => []ConnectionIsResolved
<1>1. IInv /\ EInv => ConnectionIsResolved
  <2> SUFFICES ASSUME IInv, EInv, phase \in {"open", "fetching", "returned"}
               PROVE  /\ attached = config["database"]
                      /\ config["driver"] # "sqlite" =>
                            dialled[1].host = config["host"] /\ dialled[1].port = config["port"]
    BY DEF ConnectionIsResolved
  <2>1. /\ stage = "resolved" /\ dialled = <<Address(config)>> /\ attached = config["database"]
    BY DEF EInv, ConnectionFits
  <2>2. config["driver"] \in Drivers
    BY <2>1, ResolvedConnects DEF EInv
  <2>3. config["driver"] # "sqlite" =>
            Address(config).host = config["host"] /\ Address(config).port = config["port"]
    BY <2>2 DEF Drivers, Address
  <2> QED
    BY <2>1, <2>3
<1> QED
  BY <1>1, CommandInvariant, ExecutionInvariant, PTL

\* What is printed of a statement is all of its rows, in order, under the columns
\* it has, whatever broke or ran out of time on the way.
THEOREM PrintedResultsAreWhole == Spec => []PrintedResultIsWhole
<1>1. EInv => PrintedResultIsWhole
  BY DEF EInv, PrintFits, ConnectionFits, PrintedResultIsWhole, Columns
<1> QED
  BY <1>1, ExecutionInvariant, PTL

-----------------------------------------------------------------------------
(* The verdict on a statement. *)

\* A statement is dialled for once it passed, and rejected when it did not.
VerdictFits ==
    args.command = "execute-statement" =>
        /\ phase \notin {"idle", "checking", "rejected"} => validate_read_only(args.statement) = "ok"
        /\ phase = "rejected" => validate_read_only(args.statement) # "ok"

\* The phase of a command line changes by its configuration and its database.
LEMMA PhaseMoves ==
    ASSUME [Next]_vars, ~Again, ~Configured, ~Database, ~TimesOut
    PROVE  phase' = phase
BY DEF Next, Main, Resolving, DockerMoves, Inspect, Serve, Kill, Edit, Usage, Begin, NotConfigured,
       WorkFails, Executed, Compare, Export, PrintDocument, WriteTarget, Look, WriteProject,
       Elsewhere, executionVars, vars

\* Its arguments are those of the command line all along.
LEMMA ArgumentsStay ==
    ASSUME IInv, [Next]_vars, ~Again
    PROVE  args' = args
<1>1. CASE Resolving
  BY <1>1, ResolutionGoesOn DEF Resolving, IInv, FailureFits
<1>2. CASE DockerMoves
  BY <1>2 DEF DockerMoves, Container
<1>3. CASE Begin
  BY <1>3 DEF Begin, Connect, discoveryVars
<1>4. CASE WriteProject \/ Edit
  BY <1>4 DEF WriteProject, Edit
<1>5. CASE UNCHANGED discoveryVars
  BY <1>5 DEF discoveryVars
<1> QED
  BY <1>1, <1>2, <1>3, <1>4, <1>5
     DEF Next, Main, Usage, NotConfigured, Configured, WorkFails, Executed, Compare, Export,
         PrintDocument, WriteTarget, Look, Database, TimesOut, Inspect, Serve, Kill, Elsewhere, vars

\* No step lets a statement past the check but the check.
THEOREM VerdictStep == IInv /\ VerdictFits /\ [Next]_vars => VerdictFits'
<1> SUFFICES ASSUME IInv, VerdictFits, [Next]_vars PROVE VerdictFits'
  OBVIOUS
<1>1. CASE Again
  BY <1>1 DEF Again, Fresh, VerdictFits
<1>2. CASE Configured /\ ~Again
  <2>1. args' = args
    BY <1>2, ArgumentsStay
  <2>2. phase = "idle"
    BY <1>2 DEF Configured, IInv, PhaseFits, Before
  <2>3. args.command = "execute-statement" => phase' \in {"idle", "checking"}
    BY <1>2, <2>2 DEF Configured
  <2> QED
    BY <2>1, <2>3 DEF VerdictFits
<1>3. CASE (Database \/ TimesOut) /\ ~Again
  <2>1. args' = args
    BY <1>3, ArgumentsStay
  <2>2. CASE CheckStatement
    BY <2>1, <2>2 DEF CheckStatement, VerdictFits
  <2>3. CASE Dial \/ Attach \/ DialFails \/ Query \/ Fetch \/ FetchFails \/ FetchEnds \/ Expire
    <3>1. phase \notin {"idle", "checking", "rejected"} /\ phase' # "rejected"
      BY <2>3 DEF Dial, Attach, DialFails, Query, Fetch, FetchFails, FetchEnds, Expire, Contacting
    <3> QED
      BY <2>1, <3>1 DEF VerdictFits
  <2> QED
    BY <1>3, <2>2, <2>3 DEF Database, TimesOut
<1>4. CASE ~Again /\ ~Configured /\ ~Database /\ ~TimesOut
  BY <1>4, PhaseMoves, ArgumentsStay DEF VerdictFits
<1> QED
  BY <1>1, <1>2, <1>3, <1>4

\* Of the statements whose names are plain, of any length, exactly those that the
\* standard reads as one query reach a database; the others are rejected.
THEOREM VerdictsAreTheStandards == Spec => []VerdictIsTheStandards
<1>1. Init => VerdictFits
  BY DEF Init, VerdictFits
<1>2. IInv /\ EInv /\ VerdictFits => VerdictIsTheStandards
  <2> SUFFICES ASSUME IInv, EInv, VerdictFits, args.command = "execute-statement",
                      args.statement # None, PlainNames(args.statement)
               PROVE  /\ dialled # <<>> => SingleQuery(args.statement)
                      /\ phase = "rejected" => ~SingleQuery(args.statement)
    BY DEF VerdictIsTheStandards
  <2> DEFINE text == args.statement
             S == {text[i] : i \in DOMAIN text}
  <2>1. text \in Seq(S)
    BY SessionsAssumption DEF EInv, LayersHold, IsList
  <2>2. PlainNames(text)
    OBVIOUS
  <2>3. validate_read_only(text) = "ok" <=> SingleQuery(text)
    <3> HIDE DEF text, S
    <3> QED
      BY <2>1, <2>2, ScannerReadsTheStandard
  <2>4. dialled # <<>> => phase \notin {"idle", "checking", "rejected"}
    BY DEF IInv, PhaseFits
  <2> QED
    BY <2>3, <2>4 DEF VerdictFits
<1> QED
  BY <1>1, <1>2, VerdictStep, CommandsBegin, CommandStep, ExecutionInvariant, PTL DEF Spec

-----------------------------------------------------------------------------
(* Cells. *)

\* The digits so far come to ten times those before, and the last.
LEMMA LeadingIs ==
    ASSUME NEW text \in Seq(0 .. 9)
    PROVE  /\ Leading(text) \in [0 .. Len(text) -> Nat]
           /\ Leading(text)[0] = 0
           /\ \A i \in 1 .. Len(text) : Leading(text)[i] = 10 * Leading(text)[i - 1] + text[i]
<1> DEFINE n == Len(text) + 1
           P == 0 .. Len(text)
           F == [1 .. n -> Nat]
           Body(i, f) == IF i = 0 THEN 0 ELSE 10 * f[i - 1] + text[i]
           Ahead(k, h) == IF k = n THEN 0 ELSE 10 * h[k + 1] + text[n - k]
           step == [k \in 1 .. n |-> [h \in F |-> Ahead(k, h)]]
<1>1. Len(text) \in Nat /\ n \in Nat /\ \A i \in 1 .. Len(text) : text[i] \in 0 .. 9
  OBVIOUS
<1>2. \A k \in 1 .. n : k # n => k + 1 \in 1 .. n /\ k < k + 1 /\ text[n - k] \in 0 .. 9
  <2> SUFFICES ASSUME NEW k \in 1 .. n, k # n
               PROVE  k + 1 \in 1 .. n /\ k < k + 1 /\ text[n - k] \in 0 .. 9
    OBVIOUS
  <2>1. k + 1 \in 1 .. n /\ k < k + 1 /\ n - k \in 1 .. Len(text)
    BY <1>1
  <2> QED
    BY <1>1, <2>1
<1>3. \E f : f = [i \in P |-> Body(i, f)]
  <2>1. \A k \in 1 .. n, h \in F : Ahead(k, h) \in Nat /\ step[k][h] = Ahead(k, h)
    <3>1. ASSUME NEW k \in 1 .. n, NEW h \in F PROVE Ahead(k, h) \in Nat
      <4>1. CASE k = n
        BY <4>1
      <4>2. CASE k # n
        <5>1. k + 1 \in 1 .. n /\ text[n - k] \in 0 .. 9
          BY <1>2, <4>2
        <5> HIDE DEF n
        <5>2. h[k + 1] \in Nat
          BY <5>1
        <5> QED
          BY <4>2, <5>1, <5>2
      <4> QED
        BY <4>1, <4>2
    <3> QED
      BY <3>1
  <2>2. LooksAhead(step, n, Nat)
    <3>1. step \in [1 .. n -> [[1 .. n -> Nat] -> Nat]]
      BY <2>1
    <3>2. ASSUME NEW k \in 1 .. n, NEW f \in F, NEW g \in F,
                 \A j \in 1 .. n : k < j => f[j] = g[j]
          PROVE  step[k][f] = step[k][g]
      <4>1. Ahead(k, f) = Ahead(k, g)
        <5> HIDE DEF n
        <5> QED
          BY <1>2, <3>2
      <4> HIDE DEF step, Ahead
      <4> QED
        BY <2>1, <4>1
    <3> HIDE DEF step, n
    <3> QED
      BY <3>1, <3>2 DEF LooksAhead
  <2>3. HasSolution(step, n, Nat)
    <3> HIDE DEF step, n
    <3> QED
      BY <1>1, <2>2, DefinedFromTheEnd
  <2>4. PICK h \in F : \A k \in 1 .. n : h[k] = Ahead(k, h)
    <3>1. PICK h \in F : \A k \in 1 .. n : h[k] = step[k][h]
      BY <2>3 DEF HasSolution
    <3> HIDE DEF step, Ahead
    <3> QED
      BY <2>1, <3>1
  <2> DEFINE f == [i \in P |-> h[n - i]]
  <2>5. ASSUME NEW i \in P PROVE f[i] = Body(i, f)
    <3>1. n - i \in 1 .. n /\ f[i] = h[n - i] /\ h[n - i] = Ahead(n - i, h)
      BY <1>1, <2>4
    <3>2. CASE i = 0
      BY <3>1, <3>2
    <3>3. CASE i # 0
      <4>1. i - 1 \in P /\ n - (i - 1) = (n - i) + 1 /\ n - (n - i) = i /\ n - i # n
        BY <1>1, <3>3
      <4>2. f[i - 1] = h[(n - i) + 1]
        BY <4>1
      <4>3. Ahead(n - i, h) = 10 * h[(n - i) + 1] + text[i]
        BY <4>1
      <4> QED
        BY <3>1, <3>3, <4>2, <4>3
    <3> QED
      BY <3>2, <3>3
  <2>6. f = [i \in P |-> Body(i, f)]
    <3> HIDE DEF Body
    <3> QED
      BY <2>5
  <2> QED
    BY <2>6
<1> DEFINE V == Leading(text)
<1>4. V = [i \in P |-> Body(i, V)]
  <2>1. V = CHOOSE f : f = [i \in P |-> Body(i, f)]
    BY DEF Leading
  <2> HIDE DEF V, Body, P
  <2> QED
    BY <1>3, <2>1
<1> HIDE DEF V
<1>5. /\ DOMAIN V = P /\ V[0] = 0
      /\ \A i \in 1 .. Len(text) : V[i] = 10 * V[i - 1] + text[i]
  <2>1. \A i \in P : V[i] = Body(i, V)
    <3> HIDE DEF Body, P
    <3> QED
      BY <1>4
  <2>2. DOMAIN V = P
    <3> HIDE DEF Body, P
    <3> QED
      BY <1>4
  <2> QED
    BY <1>1, <2>1, <2>2
<1>6. \A i \in P : V[i] \in Nat
  <2> DEFINE Bad == {i \in P : V[i] \notin Nat}
             first == CHOOSE i \in Bad : \A j \in Bad : i <= j
  <2> SUFFICES ASSUME Bad # {} PROVE FALSE
    OBVIOUS
  <2>1. first \in Bad /\ \A j \in Bad : first <= j
    <3>1. Bad \in SUBSET Nat
      OBVIOUS
    <3> HIDE DEF Bad
    <3> QED
      BY <3>1, FirstPosition
  <2> HIDE DEF first
  <2>2. first \in P /\ V[first] \notin Nat
    BY <2>1
  <2>3. first # 0 /\ first \in 1 .. Len(text) /\ first - 1 \in P
    BY <1>1, <1>5, <2>2
  <2>4. V[first - 1] \in Nat
    <3>1. first - 1 \notin Bad
      <4> HIDE DEF Bad
      <4> QED
        BY <1>1, <2>1, <2>3
    <3> QED
      BY <2>3, <3>1
  <2> QED
    BY <1>1, <1>5, <2>2, <2>3, <2>4, SMTT(30)
<1>7. V \in [P -> Nat]
  <2>1. V = [i \in P |-> V[i]]
    <3> HIDE DEF Body, P
    <3> QED
      BY <1>4
  <2> HIDE DEF P
  <2> QED
    BY <1>6, <2>1
<1> QED
  BY <1>5, <1>7 DEF V

\* The last digit of a number, and the number it is added to.
LEMMA LastDigit ==
    ASSUME NEW x \in Nat, NEW y \in Nat, NEW d \in 0 .. 9, NEW e \in 0 .. 9
    PROVE  /\ 10 * x + d = 10 * y + e => x = y /\ d = e
           /\ 10 * x + d = 0 => x = 0 /\ d = 0
OBVIOUS

\* Neither of two numerals begins with a zero: the first digits of the one come
\* to what those of the other come to only when they are the same digits.
LEMMA LeadingApart ==
    ASSUME NEW a \in Seq(0 .. 9), NEW b \in Seq(0 .. 9),
           a # <<>> => a[1] # 0, b # <<>> => b[1] # 0
    PROVE  \A i \in 0 .. Len(a), k \in 0 .. Len(b) :
                Leading(a)[i] = Leading(b)[k] => i = k /\ \A j \in 1 .. i : a[j] = b[j]
<1> DEFINE Same(i) == \A k \in 0 .. Len(b) :
                Leading(a)[i] = Leading(b)[k] => i = k /\ \A j \in 1 .. i : a[j] = b[j]
           Bad == {i \in 0 .. Len(a) : ~Same(i)}
           first == CHOOSE i \in Bad : \A j \in Bad : i <= j
<1>1. ASSUME NEW text \in Seq(0 .. 9), text # <<>> => text[1] # 0
      PROVE  \A i \in 1 .. Len(text) : Leading(text)[i] # 0
  <2> DEFINE V == Leading(text)
  <2>1. /\ Len(text) \in Nat /\ \A i \in 1 .. Len(text) : text[i] \in 0 .. 9
        /\ Len(text) # 0 => text[1] # 0
    BY <1>1
  <2>2. /\ V \in [0 .. Len(text) -> Nat] /\ V[0] = 0
        /\ \A i \in 1 .. Len(text) : V[i] = 10 * V[i - 1] + text[i]
    BY LeadingIs
  <2> DEFINE Zero == {i \in 1 .. Len(text) : V[i] = 0}
             least == CHOOSE i \in Zero : \A j \in Zero : i <= j
  <2> SUFFICES ASSUME Zero # {} PROVE FALSE
    OBVIOUS
  <2>3. least \in Zero /\ \A j \in Zero : least <= j
    <3>1. Zero \in SUBSET Nat
      OBVIOUS
    <3> HIDE DEF Zero
    <3> QED
      BY <3>1, FirstPosition
  <2> HIDE DEF least, V
  <2>4. least \in 1 .. Len(text) /\ V[least] = 0
    BY <2>3
  <2>5. V[least - 1] \in Nat /\ text[least] \in 0 .. 9 /\ V[least] = 10 * V[least - 1] + text[least]
    <3>1. least - 1 \in 0 .. Len(text)
      BY <2>1, <2>4
    <3> QED
      BY <2>1, <2>2, <2>4, <3>1
  <2>6. V[least - 1] = 0 /\ text[least] = 0
    BY <2>4, <2>5, LastDigit
  <2>7. CASE least = 1
    BY <2>1, <2>4, <2>6, <2>7
  <2>8. CASE least # 1
    <3>1. least - 1 \in 1 .. Len(text)
      <4> HIDE DEF Zero
      <4> QED
        BY <2>1, <2>4, <2>8
    <3>2. least - 1 \in Zero
      BY <2>6, <3>1
    <3> HIDE DEF Zero
    <3> QED
      BY <2>1, <2>3, <2>4, <3>2
  <2> QED
    BY <2>7, <2>8
<1>2. /\ Len(a) \in Nat /\ \A i \in 1 .. Len(a) : a[i] \in 0 .. 9
      /\ Leading(a) \in [0 .. Len(a) -> Nat] /\ Leading(a)[0] = 0
      /\ \A i \in 1 .. Len(a) : Leading(a)[i] = 10 * Leading(a)[i - 1] + a[i]
      /\ \A i \in 1 .. Len(a) : Leading(a)[i] # 0
  BY <1>1, LeadingIs
<1>3. /\ Len(b) \in Nat /\ \A i \in 1 .. Len(b) : b[i] \in 0 .. 9
      /\ Leading(b) \in [0 .. Len(b) -> Nat] /\ Leading(b)[0] = 0
      /\ \A i \in 1 .. Len(b) : Leading(b)[i] = 10 * Leading(b)[i - 1] + b[i]
      /\ \A i \in 1 .. Len(b) : Leading(b)[i] # 0
  BY <1>1, LeadingIs
<1>4. SUFFICES ASSUME Bad # {} PROVE FALSE
  OBVIOUS
<1>5. first \in Bad /\ \A j \in Bad : first <= j
  <2>1. Bad \in SUBSET Nat
    OBVIOUS
  <2> HIDE DEF Bad
  <2> QED
    BY <1>4, <2>1, FirstPosition
<1> HIDE DEF first
<1>6. first \in 0 .. Len(a) /\ ~Same(first)
  BY <1>5
<1>7. PICK k \in 0 .. Len(b) : /\ Leading(a)[first] = Leading(b)[k]
                               /\ ~(first = k /\ \A j \in 1 .. first : a[j] = b[j])
  BY <1>6
<1>8. CASE first = 0
  <2>1. k = 0
    BY <1>2, <1>3, <1>7, <1>8
  <2> QED
    BY <1>7, <1>8, <2>1
<1>9. CASE first # 0
  <2>1. first \in 1 .. Len(a) /\ first - 1 \in 0 .. Len(a)
    BY <1>2, <1>6, <1>9
  <2>2. k \in 1 .. Len(b) /\ k - 1 \in 0 .. Len(b)
    BY <1>2, <1>3, <1>7, <2>1
  <2>3. /\ Leading(a)[first - 1] \in Nat /\ Leading(b)[k - 1] \in Nat
        /\ a[first] \in 0 .. 9 /\ b[k] \in 0 .. 9
        /\ 10 * Leading(a)[first - 1] + a[first] = 10 * Leading(b)[k - 1] + b[k]
    <3>1. Leading(a)[first] = Leading(b)[k]
      BY <1>7
    <3> QED
      BY <1>2, <1>3, <2>1, <2>2, <3>1
  <2>4. Leading(a)[first - 1] = Leading(b)[k - 1] /\ a[first] = b[k]
    <3> DEFINE x == Leading(a)[first - 1]
               y == Leading(b)[k - 1]
               d == a[first]
               e == b[k]
    <3>1. x \in Nat /\ y \in Nat /\ d \in 0 .. 9 /\ e \in 0 .. 9 /\ 10 * x + d = 10 * y + e
      BY <2>3
    <3> HIDE DEF x, y, d, e
    <3>2. x = y /\ d = e
      BY <3>1, LastDigit
    <3> QED
      BY <3>2 DEF x, y, d, e
  <2>5. Same(first - 1)
    <3>1. first - 1 \notin Bad
      <4> HIDE DEF Bad
      <4> QED
        BY <1>2, <1>5, <2>1
    <3> QED
      BY <2>1, <3>1
  <2>6. first - 1 = k - 1 /\ \A j \in 1 .. first - 1 : a[j] = b[j]
    BY <2>2, <2>4, <2>5
  <2>7. first = k /\ \A j \in 1 .. first : a[j] = b[j]
    BY <1>2, <1>3, <2>1, <2>2, <2>4, <2>6
  <2> QED
    BY <1>7, <2>7
<1> QED
  BY <1>8, <1>9

\* A numeral that needs no other digits: none but 0 itself begins with a zero.
Needless(text) == Digits(text) /\ text[1] = 0 /\ text # <<0>>

\* Two numerals without needless zeros are equal when their values are.
LEMMA NumeralsApart ==
    ASSUME NEW a, NEW b, a \in Seq(0 .. 12), b \in Seq(0 .. 12), Digits(a), Digits(b),
           ~Needless(a), ~Needless(b)
    PROVE  /\ Numeral(a) \in Nat
           /\ Numeral(a) = 0 <=> a = <<0>>
           /\ Numeral(a) = Numeral(b) => a = b
<1>1. ASSUME NEW c \in Seq(0 .. 12), Digits(c)
      PROVE  /\ c \in Seq(0 .. 9) /\ Len(c) \in Nat /\ Len(c) # 0 /\ c[1] \in 0 .. 9
             /\ c = [i \in 1 .. Len(c) |-> c[i]]
             /\ Leading(c) \in [0 .. Len(c) -> Nat] /\ Numeral(c) = Leading(c)[Len(c)]
             /\ Numeral(c) \in Nat
  <2>1. Len(c) \in Nat /\ DOMAIN c = 1 .. Len(c) /\ c = [i \in 1 .. Len(c) |-> c[i]]
    OBVIOUS
  <2>2. c # <<>> /\ \A i \in 1 .. Len(c) : c[i] \in 0 .. 9
    BY <1>1, <2>1 DEF Digits
  <2>3. c \in [1 .. Len(c) -> 0 .. 9]
    BY <2>1, <2>2
  <2>4. c \in Seq(0 .. 9)
    BY <2>1, <2>3
  <2>5. Len(c) # 0
    BY <2>2
  <2>6. Leading(c) \in [0 .. Len(c) -> Nat] /\ Len(c) \in 0 .. Len(c)
    BY <2>1, <2>4, LeadingIs
  <2> QED
    BY <2>1, <2>2, <2>4, <2>5, <2>6 DEF Numeral
<1>2. ASSUME NEW c \in Seq(0 .. 12), NEW d \in Seq(0 .. 12), Digits(c), Digits(d),
             c[1] # 0, d[1] # 0, Numeral(c) = Numeral(d)
      PROVE  c = d
  <2>1. /\ c \in Seq(0 .. 9) /\ d \in Seq(0 .. 9) /\ Len(c) \in 0 .. Len(c) /\ Len(d) \in 0 .. Len(d)
        /\ Leading(c)[Len(c)] = Leading(d)[Len(d)]
        /\ c = [i \in 1 .. Len(c) |-> c[i]] /\ d = [i \in 1 .. Len(d) |-> d[i]]
    BY <1>1, <1>2
  <2>2. Len(c) = Len(d) /\ \A j \in 1 .. Len(c) : c[j] = d[j]
    BY <1>2, <2>1, LeadingApart, ZenonT(60)
  <2> QED
    BY <2>1, <2>2
<1>3. ASSUME NEW c \in Seq(0 .. 12), Digits(c), c[1] # 0
      PROVE  Numeral(c) # 0
  <2>1. /\ c \in Seq(0 .. 9) /\ Len(c) \in 0 .. Len(c) /\ Len(c) # 0
        /\ Numeral(c) = Leading(c)[Len(c)]
    BY <1>1, <1>3
  <2>2. 0 \in 0 .. Len(c) /\ Leading(c)[0] = 0
    BY <2>1, LeadingIs
  <2>3. Leading(c)[Len(c)] = Leading(c)[0] => Len(c) = 0
    BY <1>3, <2>1, <2>2, LeadingApart
  <2> QED
    BY <2>1, <2>2, <2>3
<1>4. Numeral(<<0>>) = 0
  <2> DEFINE zero == <<0>>
  <2>1. zero \in Seq(0 .. 9) /\ Len(zero) = 1 /\ zero[1] = 0
    OBVIOUS
  <2> HIDE DEF zero
  <2>2. /\ Leading(zero)[0] = 0
        /\ \A i \in 1 .. Len(zero) : Leading(zero)[i] = 10 * Leading(zero)[i - 1] + zero[i]
    BY <2>1, LeadingIs
  <2>3. Numeral(zero) = 0
    BY <2>1, <2>2 DEF Numeral
  <2> QED
    BY <2>3 DEF zero
<1>5. \A c \in {a, b} : c = <<0>> \/ c[1] # 0
  BY DEF Needless
<1>6. \A c \in {a, b} : Numeral(c) = 0 <=> c = <<0>>
  BY <1>3, <1>4, <1>5
<1>7. Numeral(a) = Numeral(b) => a = b
  BY <1>2, <1>5, <1>6
<1> QED
  BY <1>1, <1>6, <1>7

\* What Representable asks of text.
PlainText(text) ==
    LET digits == IF text # <<>> /\ text[1] = Minus THEN Tail(text) ELSE text
    IN  Digits(digits) => digits[1] # 0 \/ text = <<0>>

\* A text becomes an array, a number of its digits, a negative one, or a string.
Becomes(text, json) ==
    \/ json = <<"array", text>>
    \/ json = <<"string", text>>
    \/ json = <<"number", Numeral(text)>> /\ Digits(text) /\ ~Needless(text)
    \/ /\ json = <<"number", 0 - Numeral(Tail(text))>>
       /\ Len(text) > 1 /\ text[1] = Minus
       /\ Digits(Tail(text)) /\ ~Needless(Tail(text)) /\ Tail(text) # <<0>>

\* And each text that is plain becomes one of these.
LEMMA TextBecomes ==
    ASSUME NEW text \in Seq(0 .. 12), PlainText(text)
    PROVE  Becomes(text, mysql_text_to_json(text))
<1>1. ASSUME Digits(text) PROVE ~Needless(text)
  <2>1. text # <<>> /\ text[1] # Minus
    BY <1>1 DEF Digits, Minus
  <2>2. text[1] # 0 \/ text = <<0>>
    BY <1>1, <2>1 DEF PlainText
  <2> QED
    BY <2>2 DEF Needless
<1>2. ASSUME Len(text) > 1, text[1] = Minus, Digits(Tail(text))
      PROVE  ~Needless(Tail(text)) /\ Tail(text) # <<0>>
  <2>1. text # <<>>
    BY <1>2
  <2>2. text # <<0>>
    BY <1>2 DEF Minus
  <2>3. Tail(text)[1] # 0
    BY <1>2, <2>1, <2>2 DEF PlainText
  <2>4. \A c : c = <<0>> => c[1] = 0
    OBVIOUS
  <2>5. Tail(text) # <<0>>
    BY <2>3, <2>4
  <2> QED
    BY <2>3, <2>5 DEF Needless
<1> QED
  BY <1>1, <1>2 DEF mysql_text_to_json, Becomes

\* What is left of a text after its first character tells the rest of it.
LEMMA TailApart ==
    ASSUME NEW T, NEW a \in Seq(T), NEW b \in Seq(T), Len(a) > 1, Len(b) > 1, a[1] = b[1],
           Tail(a) = Tail(b)
    PROVE  a = b
<1>1. ASSUME NEW c \in Seq(T), Len(c) > 1
      PROVE  /\ Len(c) \in Nat /\ c = [i \in 1 .. Len(c) |-> c[i]]
             /\ Len(Tail(c)) = Len(c) - 1
             /\ \A i \in 1 .. Len(c) : i # 1 => c[i] = Tail(c)[i - 1]
  <2>1. Len(c) \in Nat /\ c = [i \in 1 .. Len(c) |-> c[i]] /\ c # <<>>
    BY <1>1
  <2>2. Len(Tail(c)) = Len(c) - 1
    BY <2>1
  <2>3. \A i \in 1 .. Len(c) : i # 1 => i - 1 \in 1 .. Len(c) - 1 /\ (i - 1) + 1 = i
    BY <2>1
  <2>4. \A j \in 1 .. Len(c) - 1 : Tail(c)[j] = c[j + 1]
    BY <2>1
  <2> QED
    BY <2>1, <2>2, <2>3, <2>4
<1>2. Len(a) = Len(b)
  BY <1>1
<1>3. \A i \in 1 .. Len(a) : a[i] = b[i]
  BY <1>1, <1>2
<1> QED
  BY <1>1, <1>2, <1>3

\* Two plain texts that become the same are the same.
LEMMA TextsApart ==
    ASSUME NEW a \in Seq(0 .. 12), NEW b \in Seq(0 .. 12), PlainText(a), PlainText(b),
           mysql_text_to_json(a) = mysql_text_to_json(b)
    PROVE  a = b
<1> DEFINE json == mysql_text_to_json(a)
<1>1. Becomes(a, json) /\ Becomes(b, json)
  <2>1. json = mysql_text_to_json(b)
    OBVIOUS
  <2> QED
    BY <2>1, TextBecomes
<1> HIDE DEF json
<1>2. ASSUME NEW c \in Seq(0 .. 12), Len(c) > 1 PROVE Tail(c) \in Seq(0 .. 12)
  <2>1. c # <<>>
    BY <1>2
  <2> QED
    BY <2>1
<1>3. ASSUME NEW c \in Seq(0 .. 12), Digits(c), ~Needless(c)
      PROVE  Numeral(c) \in Nat /\ (Numeral(c) = 0 <=> c = <<0>>)
  BY <1>3, NumeralsApart
<1>4. ASSUME NEW c \in Seq(0 .. 12), NEW d \in Seq(0 .. 12), Digits(c), ~Needless(c), Digits(d), ~Needless(d),
             Numeral(c) = Numeral(d)
      PROVE  c = d
  BY <1>4, NumeralsApart
<1>5. CASE json = <<"array", a>> \/ json = <<"string", a>>
  BY <1>1, <1>5 DEF Becomes
<1>6. CASE json = <<"number", Numeral(a)>> /\ Digits(a) /\ ~Needless(a)
  <2>1. CASE json = <<"number", Numeral(b)>> /\ Digits(b) /\ ~Needless(b)
    BY <1>4, <1>6, <2>1
  <2>2. CASE /\ json = <<"number", 0 - Numeral(Tail(b))>>
             /\ Len(b) > 1 /\ b[1] = Minus
             /\ Digits(Tail(b)) /\ ~Needless(Tail(b)) /\ Tail(b) # <<0>>
    <3>1. Numeral(Tail(b)) \in Nat /\ Numeral(Tail(b)) # 0 /\ Numeral(a) \in Nat
      BY <1>2, <1>3, <1>6, <2>2
    <3>2. Numeral(a) = 0 - Numeral(Tail(b))
      BY <1>6, <2>2
    <3> QED
      BY <3>1, <3>2
  <2> QED
    BY <1>1, <1>6, <2>1, <2>2 DEF Becomes
<1>7. CASE /\ json = <<"number", 0 - Numeral(Tail(a))>>
           /\ Len(a) > 1 /\ a[1] = Minus
           /\ Digits(Tail(a)) /\ ~Needless(Tail(a)) /\ Tail(a) # <<0>>
  <2>1. Numeral(Tail(a)) \in Nat /\ Numeral(Tail(a)) # 0
    BY <1>2, <1>3, <1>7
  <2>2. CASE json = <<"number", Numeral(b)>> /\ Digits(b) /\ ~Needless(b)
    <3>1. Numeral(b) \in Nat /\ Numeral(b) = 0 - Numeral(Tail(a))
      BY <1>3, <1>7, <2>2
    <3> QED
      BY <2>1, <3>1
  <2>3. CASE /\ json = <<"number", 0 - Numeral(Tail(b))>>
             /\ Len(b) > 1 /\ b[1] = Minus
             /\ Digits(Tail(b)) /\ ~Needless(Tail(b)) /\ Tail(b) # <<0>>
    <3>1. Numeral(Tail(b)) \in Nat
      BY <1>2, <1>3, <2>3
    <3>2. 0 - Numeral(Tail(a)) = 0 - Numeral(Tail(b))
      BY <1>7, <2>3
    <3>3. Numeral(Tail(a)) = Numeral(Tail(b))
      BY <2>1, <3>1, <3>2
    <3>4. Tail(a) = Tail(b)
      BY <1>2, <1>4, <1>7, <2>3, <3>3
    <3> QED
      BY <1>7, <2>3, <3>4, TailApart
  <2> QED
    BY <1>1, <1>7, <2>2, <2>3 DEF Becomes
<1> QED
  BY <1>1, <1>5, <1>6, <1>7 DEF Becomes

\* No value that JSON holds is null.
LEMMA ValuesAreNotNull == \A kind, value : <<kind, value>> # Null
BY DEF Null

\* A cell of MySQL is printed as null when it is NULL, and as no other cell is.
LEMMA MysqlCellsApart ==
    ASSUME NEW driver \in {"mysql", "mariadb"}, NEW one, NEW other,
           IsCell(driver, one), IsCell(driver, other), one.value # None,
           Representable(driver, one), other.value # None => Representable(driver, other),
           to_json(driver, one) = to_json(driver, other)
    PROVE  one = other
<1>1. ASSUME NEW cell, IsCell(driver, cell), cell.value # None, Representable(driver, cell)
      PROVE  /\ cell.value \in Seq(0 .. 12) /\ PlainText(cell.value) /\ cell.type = "text"
             /\ to_json(driver, cell) = mysql_text_to_json(cell.value)
             /\ to_json(driver, cell) # Null
  <2>1. cell.value \in Seq(0 .. 12) /\ cell.type = "text"
    BY <1>1 DEF IsCell, TypesOf
  <2>2. PlainText(cell.value)
    BY <1>1, <2>1 DEF Representable, PlainText
  <2>3. to_json(driver, cell) = mysql_text_to_json(cell.value)
    BY <1>1 DEF to_json
  <2>4. Becomes(cell.value, mysql_text_to_json(cell.value))
    BY <2>1, <2>2, TextBecomes
  <2>5. mysql_text_to_json(cell.value) # Null
    BY <2>4, ValuesAreNotNull DEF Becomes
  <2> QED
    BY <2>1, <2>2, <2>3, <2>5
<1>2. other.value # None
  BY <1>1 DEF to_json
<1>3. one.value = other.value /\ one.type = other.type
  BY <1>1, <1>2, TextsApart
<1> QED
  BY <1>3 DEF IsCell

\* A moment of a day is the only one of its second, when it is a whole second.
LEMMA SecondsApart ==
    ASSUME NEW x \in Nat, NEW y \in Nat, x % 300 = 0, y % 300 = 0, x \div 300 = y \div 300
    PROVE  x = y
OBVIOUS

\* So it is with SQL Server, of one type,
LEMMA SqlServerCellsApart ==
    ASSUME NEW one, NEW other, one.type = other.type,
           IsCell("sqlsrv", one), IsCell("sqlsrv", other), one.value # None,
           Representable("sqlsrv", one), other.value # None => Representable("sqlsrv", other),
           to_json("sqlsrv", one) = to_json("sqlsrv", other)
    PROVE  one = other
<1> DEFINE type == one.type
<1>1. ASSUME NEW cell, IsCell("sqlsrv", cell), cell.value # None, Representable("sqlsrv", cell)
      PROVE  /\ to_json("sqlsrv", cell) = sqlserver_value_to_json(cell)
             /\ cell.type \in {"int", "float", "bit", "text", "bytes", "date", "datetime"}
             /\ cell.type = "float" => cell.value # NotFinite
             /\ cell.type = "datetime" => cell.value % 300 = 0
             /\ cell.type \in {"date", "datetime"} => cell.value \in Nat
  BY <1>1 DEF to_json, IsCell, TypesOf, Representable
<1>2. sqlserver_value_to_json(one) # Null
  BY <1>1, ValuesAreNotNull DEF sqlserver_value_to_json, float_to_json
<1>3. other.value # None
  BY <1>1, <1>2 DEF to_json
<1>4. sqlserver_value_to_json(one) = sqlserver_value_to_json(other)
  BY <1>1, <1>3
<1>5. CASE one.type \in {"int", "bit", "text", "bytes"}
  BY <1>4, <1>5 DEF sqlserver_value_to_json, IsCell
<1>6. CASE one.type = "float"
  BY <1>1, <1>3, <1>4, <1>6 DEF sqlserver_value_to_json, float_to_json, IsCell
<1>7. CASE one.type = "date"
  <2>1. one.value \in Nat /\ other.value \in Nat /\ one.value - 1 = other.value - 1
    BY <1>1, <1>3, <1>4, <1>7 DEF sqlserver_value_to_json
  <2>2. one.value = other.value
    BY <2>1
  <2> QED
    BY <2>2 DEF IsCell
<1>8. CASE one.type = "datetime"
  <2>1. /\ one.value \in Nat /\ other.value \in Nat
        /\ one.value % 300 = 0 /\ other.value % 300 = 0
        /\ one.value \div 300 = other.value \div 300
    BY <1>1, <1>3, <1>4, <1>8, ZenonT(60) DEF sqlserver_value_to_json
  <2>2. one.value = other.value
    BY <2>1, SecondsApart
  <2> QED
    BY <2>2 DEF IsCell
<1> QED
  BY <1>1, <1>5, <1>6, <1>7, <1>8

\* with PostgreSQL, whose numeric is printed as text,
LEMMA PostgresCellsApart ==
    ASSUME NEW one, NEW other, one.type = other.type,
           IsCell("postgres", one), IsCell("postgres", other), one.value # None,
           Representable("postgres", one), other.value # None => Representable("postgres", other),
           to_json("postgres", one) = to_json("postgres", other)
    PROVE  one = other
<1>1. ASSUME NEW cell, IsCell("postgres", cell), cell.value # None, Representable("postgres", cell)
      PROVE  /\ to_json("postgres", cell) = postgres_value_to_json(cell)
             /\ cell.type \in {"int", "float", "bool", "text", "numeric", "bytes", "date", "datetime"}
             /\ cell.type \in {"float", "numeric"} => cell.value # NotFinite
  BY <1>1 DEF to_json, IsCell, TypesOf, Representable
<1>2. postgres_value_to_json(one) # Null
  BY <1>1, ValuesAreNotNull DEF postgres_value_to_json, float_to_json
<1>3. other.value # None
  BY <1>1, <1>2 DEF to_json
<1>4. postgres_value_to_json(one) = postgres_value_to_json(other)
  BY <1>1, <1>3
<1>5. one.value = other.value
  BY <1>1, <1>3, <1>4 DEF postgres_value_to_json, float_to_json
<1> QED
  BY <1>5 DEF IsCell

\* and with SQLite, where the kind of the value tells its type.
LEMMA SqliteCellsApart ==
    ASSUME NEW one, NEW other,
           IsCell("sqlite", one), IsCell("sqlite", other), one.value # None,
           Representable("sqlite", one), other.value # None => Representable("sqlite", other),
           to_json("sqlite", one) = to_json("sqlite", other)
    PROVE  one = other
<1>1. ASSUME NEW cell, IsCell("sqlite", cell), cell.value # None, Representable("sqlite", cell)
      PROVE  /\ to_json("sqlite", cell) = sqlite_value_to_json(cell)
             /\ cell.type \in {"int", "float", "text", "bytes"}
             /\ cell.type = "float" => cell.value # NotFinite
  BY <1>1 DEF to_json, IsCell, TypesOf, Representable
<1>2. ASSUME NEW cell, IsCell("sqlite", cell), cell.value # None, Representable("sqlite", cell)
      PROVE  sqlite_value_to_json(cell) = << [int |-> "number", float |-> "decimal",
                                              bytes |-> "array", text |-> "string"][cell.type],
                                             cell.value >>
  BY <1>1, <1>2 DEF sqlite_value_to_json, float_to_json
<1>3. sqlite_value_to_json(one) # Null
  BY <1>2, ValuesAreNotNull
<1>4. other.value # None
  BY <1>1, <1>3 DEF to_json
<1>5. one.value = other.value /\ one.type = other.type
  BY <1>1, <1>2, <1>4
<1> QED
  BY <1>5 DEF IsCell

\* Of two cells, the first is the second or both are NULL.
LEMMA CellsApart ==
    ASSUME NEW driver \in Drivers, NEW one, NEW other, IsCell(driver, one), IsCell(driver, other),
           driver # "sqlite" => one.type = other.type,
           one.value # None => Representable(driver, one),
           other.value # None => Representable(driver, other),
           to_json(driver, one) = to_json(driver, other)
    PROVE  one = other \/ {one.value, other.value} = {None}
<1>1. CASE one.value # None
  BY <1>1, MysqlCellsApart, SqlServerCellsApart, PostgresCellsApart, SqliteCellsApart DEF Drivers
<1>2. CASE other.value # None
  <2>1. to_json(driver, other) = to_json(driver, one)
    OBVIOUS
  <2>2. other.type = one.type \/ driver = "sqlite"
    OBVIOUS
  <2>3. other = one
    BY <1>2, <2>1, <2>2, MysqlCellsApart, SqlServerCellsApart, PostgresCellsApart, SqliteCellsApart
       DEF Drivers
  <2> QED
    BY <2>3
<1> QED
  BY <1>1, <1>2


\* What arrives is of a table of the engine that was dialled.
AnswerFits ==
    phase \in {"fetching", "returned"} => stage = "resolved" /\ answer \in Tables[config["driver"]]

\* An answer comes with a query, and goes with the command.
THEOREM AnswerStep == IInv /\ EInv /\ AnswerFits /\ [Next]_vars => AnswerFits'
<1> SUFFICES ASSUME IInv, EInv, AnswerFits, [Next]_vars PROVE AnswerFits'
  OBVIOUS
<1>1. CASE Again
  BY <1>1 DEF Again, Fresh, AnswerFits
<1>2. CASE Configured
  <2>1. phase' \in {"checking", "dialling", "idle"}
    BY <1>2 DEF Configured, IInv, PhaseFits, Before
  <2> QED
    BY <2>1 DEF AnswerFits
<1>3. CASE Database \/ TimesOut
  <2>1. UNCHANGED <<stage, config>>
    BY <1>3 DEF Database, TimesOut, discoveryVars, resolution
  <2>2. CASE Query
    <3>1. stage = "resolved"
      BY <2>2 DEF Query, EInv, ConnectionFits
    <3> QED
      BY <2>1, <2>2, <3>1 DEF Query, AnswerFits
  <2>3. CASE Fetch \/ FetchEnds
    BY <2>1, <2>3 DEF Fetch, FetchEnds, AnswerFits
  <2>4. CASE Dial \/ Attach \/ DialFails \/ CheckStatement \/ FetchFails \/ Expire
    <3>1. phase' \notin {"fetching", "returned"}
      BY <2>4 DEF Dial, Attach, DialFails, CheckStatement, FetchFails, Expire
    <3> QED
      BY <3>1 DEF AnswerFits
  <2> QED
    BY <1>3, <2>2, <2>3, <2>4 DEF Database, TimesOut
<1>4. CASE ~Again /\ ~Configured /\ ~Database /\ ~TimesOut
  <2>1. phase' = phase
    BY <1>4, PhaseMoves
  <2>2. answer' = answer
    BY <1>4 DEF Next, Main, Resolving, DockerMoves, Inspect, Serve, Kill, Edit, Usage, Begin,
       NotConfigured, WorkFails, Executed, Compare, Export, PrintDocument, WriteTarget, Look,
       WriteProject, Elsewhere, executionVars, vars
  <2>3. phase \in {"fetching", "returned"} /\ stage = "resolved" => UNCHANGED <<stage, config>>
    <3>1. CASE Resolving
      BY <3>1 DEF Resolving, IInv, PhaseFits, Before
    <3>2. CASE Begin
      BY <3>2 DEF Begin, IInv, PhaseFits, Before
    <3>3. CASE DockerMoves
      BY <3>3 DEF DockerMoves, Container, resolution
    <3>4. CASE WriteProject \/ Edit
      BY <3>4 DEF WriteProject, Edit, resolution
    <3>5. CASE UNCHANGED discoveryVars
      BY <3>5 DEF discoveryVars, resolution
    <3> QED
      BY <1>4, <3>1, <3>2, <3>3, <3>4, <3>5
         DEF Next, Main, Usage, NotConfigured, WorkFails, Executed, Compare, Export, PrintDocument,
             WriteTarget, Look, Inspect, Serve, Kill, Elsewhere, vars
  <2> QED
    BY <2>1, <2>2, <2>3 DEF AnswerFits
<1> QED
  BY <1>1, <1>2, <1>3, <1>4

\* Of the values of one column those that differ are printed differently, on each
\* engine, for numerals of any length and whatever 64 bits hold.
THEOREM CellsAlwaysStayApart == Spec => []CellsStayApart
<1>1. Init => AnswerFits
  BY DEF Init, AnswerFits
<1>2. IInv /\ EInv /\ AnswerFits => CellsStayApart
  <2> SUFFICES ASSUME IInv, EInv, AnswerFits, phase = "returned",
                      NEW i \in DOMAIN fetched, NEW k \in DOMAIN fetched, NEW j \in DOMAIN fetched[i],
                      \A c \in {fetched[i][j], fetched[k][j]} :
                            c.value # None => Representable(config["driver"], c),
                      Rows[i][j] = Rows[k][j]
               PROVE  \/ fetched[i][j] = fetched[k][j]
                      \/ {fetched[i][j].value, fetched[k][j].value} = {None}
    BY DEF CellsStayApart
  <2> DEFINE driver == config["driver"]
             one == fetched[i][j]
             other == fetched[k][j]
  <2>1. stage = "resolved" /\ fetched = answer.rows /\ answer \in Tables[driver]
    BY DEF EInv, ConnectionFits, AnswerFits
  <2>2. driver \in Drivers
    BY <2>1, ResolvedConnects DEF EInv
  <2>3. AreRows(driver, fetched)
    BY <2>1, <2>2, TablesAssumption
  <2>4. /\ j \in DOMAIN fetched[k]
        /\ IsCell(driver, one) /\ IsCell(driver, other)
        /\ driver # "sqlite" => one.type = other.type
    BY <2>3 DEF AreRows
  <2>5. to_json(driver, one) = to_json(driver, other)
    BY <2>4 DEF Rows
  <2> HIDE DEF driver, one, other
  <2>6. one = other \/ {one.value, other.value} = {None}
    <3>1. /\ one.value # None => Representable(driver, one)
          /\ other.value # None => Representable(driver, other)
      BY DEF driver, one, other
    <3> QED
      BY <2>2, <2>4, <2>5, <3>1, CellsApart
  <2> QED
    BY <2>6 DEF one, other
<1> QED
  BY <1>1, <1>2, AnswerStep, CommandsBegin, CommandStep, ExecutionInvariant, PTL DEF Spec

-----------------------------------------------------------------------------
(* Types. *)

\* What a layer is read from supplies the seven fields, or an error there is.
LEMMA WhatIsReadIsTyped ==
    ASSUME NEW file, NEW entries, NEW required, NEW c
    PROVE  \A read \in {load(file), from_vars(entries), from_dotenv(file, required),
                        source_from_inspect(c)} :
                IsSource(read.source) /\ read.error \in Failures \cup {None}
<1>1. IsSource(NoSource)
  BY DEF IsSource, NoSource
<1>2. \A list, name : IsSource(FromEntries(list, name))
  BY DEF IsSource, FromEntries
<1>3. \A list : IsSource(from_vars(list).source)
  BY <1>1, <1>2 DEF from_vars, Read, Unread
<1>4. IsSource(load(file).source)
  BY <1>1, <1>2 DEF load, Read, Unread
<1>5. IsSource(from_dotenv(file, required).source)
  <2>1. IsSource(from_vars(file.entries).source)
    BY <1>3
  <2> QED
    BY <1>1, <2>1 DEF from_dotenv, Read, Unread
<1>6. IsSource(source_from_inspect(c).source)
  <2>1. \A driver, port, env : IsSource(settings(driver, port, env))
    BY DEF IsSource, settings
  <2>2. \A files : IsSource([NoSource EXCEPT !["driver"] = "sqlite", !["database"] = files])
    BY <1>1 DEF IsSource
  <2> QED
    BY <1>1, <2>1, <2>2 DEF source_from_inspect, Read, Unread
<1>7. FileErrors \subseteq Failures
  BY DEF FileErrors, Failures, ConfigErrors
<1>8. source_from_inspect(c).error \in Failures \cup {None}
  <2>1. source_from_inspect(c).error \in {None, "ContainerNotFound", "UnrecognisedImage",
                                          "NoSqliteDatabaseMounted", "NoPublishedPort"}
    BY DockerSays
  <2> QED
    BY <2>1 DEF Failures, DiscoveryErrors
<1> QED
  BY <1>3, <1>4, <1>5, <1>6, <1>7, <1>8, FilesAndVariables

\* A step that fails.
LEMMA FailIsTyped ==
    ASSUME DiscoveryTypeOK, NEW error \in Failures, Fail(error), stage \notin {"resolved", "failed"},
           UNCHANGED <<docker, history>>
    PROVE  DiscoveryTypeOK'
<1>1. stage' = "failed" /\ failure' = error /\ error # None
  BY FailuresAssumption DEF Fail
<1>2. UNCHANGED <<state, published, layers, asking, config, ran, down, unanswered>>
  BY DEF Fail, docker, history
<1> QED
  BY <1>1, <1>2 DEF DiscoveryTypeOK, Stages, IsSource

\* A step that reads a layer.
Reading == {"project", "dotenv", "environment", "inspect"}

\* The step that takes a reading for a layer keeps the types of discovery.
LEMMA TakeIsTyped ==
    ASSUME DiscoveryTypeOK, stage \in Reading, NEW place \in Places, NEW read,
           NEW next \in {"dotenv", "environment", "select", "missing"},
           IsSource(read.source), read.error \in Failures \cup {None},
           Take(place, read, next), UNCHANGED <<docker, history>>
    PROVE  DiscoveryTypeOK'
<1>1. CASE read.error # None
  BY <1>1, FailIsTyped DEF Take, Reading
<1>2. CASE read.error = None
  <2>1. /\ layers' = [layers EXCEPT ![place] = read.source] /\ stage' = next
        /\ UNCHANGED <<state, published, asking, failure, config, ran, down, unanswered>>
    BY <1>2 DEF Take, docker, history
  <2>2. asking = <<>> /\ failure = None /\ config = None
    BY DEF DiscoveryTypeOK, Reading
  <2>3. layers' = [p \in Places |-> layers'[p]] /\ \A p \in Places : IsSource(layers'[p])
    BY <2>1 DEF DiscoveryTypeOK
  <2> QED
    BY <2>1, <2>2, <2>3 DEF DiscoveryTypeOK, Stages
<1> QED
  BY <1>1, <1>2

\* A step that asks or is answered.
LEMMA AskingIsTyped ==
    ASSUME DiscoveryTypeOK, FindMissing \/ Answer \/ EndOfInput
    PROVE  DiscoveryTypeOK'
<1>1. UNCHANGED <<state, published, ran, down>>
  BY DEF FindMissing, Answer, EndOfInput, Undisturbed, docker
<1>2. CASE FindMissing
  <2>1. missing(Sources) \in Seq({"database", "driver"})
    <3> DEFINE Q == {"database", "driver"}
    <3>1. <<>> \in Seq(Q) /\ <<"database">> \in Seq(Q) /\ <<"driver">> \in Seq(Q)
      OBVIOUS
    <3>2. \A one, other \in Seq(Q) : one \o other \in Seq(Q)
      OBVIOUS
    <3> HIDE DEF Q
    <3>3. missing(Sources) \in Seq(Q)
      BY <3>1, <3>2 DEF missing
    <3> QED
      BY <3>3 DEF Q
  <2>2. asking' \in Seq({"database", "driver"}) /\ stage' = IF asking' = <<>> THEN "resolve" ELSE "prompt"
    BY <1>2, <2>1 DEF FindMissing
  <2>3. stage = "missing" /\ UNCHANGED <<layers, failure, config, unanswered>>
    BY <1>2 DEF FindMissing
  <2> QED
    BY <1>1, <2>2, <2>3 DEF DiscoveryTypeOK, Stages
<1>3. CASE EndOfInput
  <2>1. /\ stage = "prompt" /\ stage' = "resolve" /\ asking' = <<>>
        /\ UNCHANGED <<layers, failure, config>>
        /\ unanswered' = unanswered \cup {asking[i] : i \in DOMAIN asking}
    BY <1>3 DEF EndOfInput
  <2>2. unanswered' \subseteq {"database", "driver"}
    BY <2>1 DEF DiscoveryTypeOK
  <2> QED
    BY <1>1, <2>1, <2>2 DEF DiscoveryTypeOK, Stages
<1>4. CASE Answer
  <2>1. stage = "prompt" /\ asking # <<>> /\ asking \in Seq({"database", "driver"})
    BY <1>4 DEF Answer, DiscoveryTypeOK
  <2>2. Head(asking) \in {"database", "driver"} /\ Tail(asking) \in Seq({"database", "driver"})
    BY <2>1
  <2>3. CASE \E error \in {"UnknownDriver"} : Fail(error) /\ UNCHANGED unanswered
    BY <1>1, <2>1, <2>3, FailIsTyped DEF docker, history, Failures, ConfigErrors
  <2>4. CASE /\ asking' = Tail(asking) /\ stage' = AfterQuestion
             /\ UNCHANGED <<failure, config>>
             /\ unanswered' \in {unanswered, unanswered \cup {Head(asking)}}
             /\ \/ layers' = layers
                \/ \E value : layers' = [layers EXCEPT !["prompt"][Head(asking)] = value]
    <3>1. layers' = [p \in Places |-> layers'[p]] /\ \A p \in Places : IsSource(layers'[p])
      <4>1. ASSUME NEW value, layers' = [layers EXCEPT !["prompt"][Head(asking)] = value]
            PROVE  layers' = [p \in Places |-> layers'[p]] /\ \A p \in Places : IsSource(layers'[p])
        <5> DEFINE set == [layers["prompt"] EXCEPT ![Head(asking)] = value]
        <5>1. layers' = [layers EXCEPT !["prompt"] = set]
          BY <4>1
        <5>2. IsSource(set)
          <6>1. IsSource(layers["prompt"])
            <7>1. "prompt" \in Places
              BY DEF Places, Ranked
            <7> QED
              BY <7>1 DEF DiscoveryTypeOK
          <6>2. ASSUME NEW source, IsSource(source), NEW field
                PROVE  IsSource([source EXCEPT ![field] = value])
            BY <6>2 DEF IsSource
          <6> QED
            BY <6>1, <6>2
        <5> HIDE DEF set
        <5> QED
          BY <5>1, <5>2 DEF DiscoveryTypeOK
      <4> QED
        BY <2>4, <4>1 DEF DiscoveryTypeOK
    <3>2. unanswered' \subseteq {"database", "driver"}
      BY <2>2, <2>4 DEF DiscoveryTypeOK
    <3>3. stage' = IF asking' = <<>> THEN "resolve" ELSE "prompt"
      BY <2>4 DEF AfterQuestion
    <3> QED
      BY <1>1, <2>1, <2>2, <2>4, <3>1, <3>2, <3>3 DEF DiscoveryTypeOK, Stages
  <2> QED
    BY <1>4, <2>3, <2>4 DEF Answer
<1> QED
  BY <1>2, <1>3, <1>4

\* Each step of a resolution, and of docker.
LEMMA ResolvingIsTyped ==
    ASSUME DiscoveryTypeOK, Resolving
    PROVE  DiscoveryTypeOK'
<1>1. {"project", "dotenv", "environment", "docker"} \subseteq Places
  BY DEF Places, Ranked
<1>2. CASE ReadProject
  BY <1>1, <1>2, WhatIsReadIsTyped, TakeIsTyped DEF ReadProject, Undisturbed, Reading, history
<1>3. CASE ReadDotenv
  BY <1>1, <1>3, WhatIsReadIsTyped, TakeIsTyped DEF ReadDotenv, Undisturbed, Reading, history
<1>4. CASE ReadEnvironment
  BY <1>1, <1>4, WhatIsReadIsTyped, TakeIsTyped DEF ReadEnvironment, Undisturbed, Reading, history
<1>5. CASE InspectContainer
  BY <1>1, <1>5, WhatIsReadIsTyped, TakeIsTyped DEF InspectContainer, Undisturbed, Reading, history
<1>6. CASE Select \/ ListContainers \/ Resolve \/ DockerFails \/ PromptFails
  <2>1. stage \in {"select", "ps", "resolve", "inspect", "prompt"} /\ UNCHANGED <<docker, history>>
    BY <1>6 DEF Select, ListContainers, Resolve, DockerFails, PromptFails, Undisturbed, history
  <2>2. CASE \E error \in Failures : Fail(error)
    BY <2>1, <2>2, FailIsTyped
  <2>3. CASE ~(\E error \in Failures : Fail(error))
    <3>1. /\ DockerFaults \subseteq Failures
          /\ {"ConflictingSelectors", "ServiceNotFound", "ServiceNotRunning", "Prompt", "MissingDatabase",
              "UnknownEngine", "MultipleDatabasesRequireSqlite"} \subseteq Failures
      BY DEF Failures, ConfigErrors, DiscoveryErrors
    <3>2. CASE Resolve
      <4>1. resolve_error(Sources) \in Failures \cup {None}
        BY <3>1 DEF resolve_error
      <4>2. config' = resolved(Sources) /\ stage' = "resolved" /\ UNCHANGED <<layers, asking, failure>>
            /\ stage = "resolve"
        BY <2>3, <3>2, <4>1 DEF Resolve
      <4>3. IsSource(config')
        BY <4>2 DEF resolved, IsSource
      <4> QED
        BY <2>1, <4>2, <4>3 DEF DiscoveryTypeOK, docker, history, Stages
    <3>3. CASE Select \/ ListContainers
      <4>1. /\ stage \in {"select", "ps"} /\ stage' \in {"ps", "inspect", "missing"}
            /\ UNCHANGED <<layers, asking, failure, config>>
        BY <2>3, <3>1, <3>3 DEF Select, ListContainers
      <4> QED
        BY <2>1, <4>1 DEF DiscoveryTypeOK, docker, history, Stages
    <3> QED
      BY <1>6, <2>3, <3>1, <3>2, <3>3 DEF DockerFails, PromptFails
  <2> QED
    BY <2>2, <2>3
<1> QED
  BY <1>2, <1>3, <1>4, <1>5, <1>6, AskingIsTyped DEF Resolving, Respond, Prompted

\* So does what the containers do.
LEMMA DockerIsTyped ==
    ASSUME DiscoveryTypeOK, DockerMoves, session.moving \subseteq Containers
    PROVE  DiscoveryTypeOK'
<1>1. PICK c \in session.moving : Container(c)
  BY DEF DockerMoves
<1>2. /\ state' \in [Containers -> {"running", "exited", "removed"}]
      /\ published' \in [Containers -> HostPorts]
  BY <1>1 DEF Container, DiscoveryTypeOK
<1>3. /\ ran' \in [Containers -> SUBSET HostPorts] /\ down' \subseteq Containers
      /\ UNCHANGED <<stage, layers, asking, failure, config, unanswered>>
  BY <1>1, <1>2 DEF Container, resolution, DiscoveryTypeOK
<1> QED
  BY <1>2, <1>3 DEF DiscoveryTypeOK, IsSource

\* Every step keeps the types of a resolution.
LEMMA DiscoveryIsTyped ==
    ASSUME IInv, EInv, CommandTypeOK, [Next]_vars
    PROVE  DiscoveryTypeOK'
<1>1. IsSource(NoSource)
  BY DEF IsSource, NoSource
<1>2. CASE Resolving
  BY <1>2, ResolvingIsTyped DEF CommandTypeOK
<1>3. CASE DockerMoves
  BY <1>3, DockerIsTyped, SessionsAssumption DEF CommandTypeOK, EInv, LayersHold
<1>4. CASE Again
  <2>1. /\ stage' = "idle" /\ layers' = [p \in Places |-> NoSource] /\ asking' = <<>>
        /\ failure' = None /\ config' = None /\ unanswered' = {}
        /\ ran' = [c \in Containers |-> {}] /\ down' = {}
        /\ UNCHANGED <<state, published>>
    BY <1>4 DEF Again, Fresh, docker
  <2> QED
    BY <1>1, <2>1 DEF CommandTypeOK, DiscoveryTypeOK, Stages
<1>5. CASE Begin /\ Connect
  <2>1. /\ stage = "idle" /\ stage' = "project" /\ unanswered' = {} /\ down' \subseteq Containers
        /\ ran' = [c \in Containers |-> IF state[c] = "running" THEN {published[c]} ELSE {}]
        /\ layers' = [p \in Places |-> IF p = "cli" THEN args.cli ELSE NoSource]
        /\ UNCHANGED <<state, published, asking, failure, config>>
    BY <1>5 DEF Connect, docker
  <2>2. IsSource(args.cli)
    BY SessionsAssumption DEF EInv, LayersHold
  <2>3. layers' = [p \in Places |-> layers'[p]] /\ \A p \in Places : IsSource(layers'[p])
    BY <1>1, <2>1, <2>2
  <2> QED
    BY <2>1, <2>3 DEF CommandTypeOK, DiscoveryTypeOK, Stages
<1>6. CASE ~Resolving /\ ~DockerMoves /\ ~Again /\ ~(Begin /\ Connect)
  <2>1. UNCHANGED <<docker, resolution, history>>
    <3>1. CASE Begin \/ Configured \/ Database \/ TimesOut
      BY <1>6, <3>1 DEF Begin, Configured, Database, TimesOut, discoveryVars
    <3>2. CASE WriteProject \/ Edit
      BY <3>2 DEF WriteProject, Edit
    <3>3. CASE UNCHANGED vars
      BY <3>3 DEF vars, discoveryVars
    <3> QED
      BY <1>6, <3>1, <3>2, <3>3
         DEF Next, Main, Usage, NotConfigured, WorkFails, Executed, Compare, Export, PrintDocument,
             WriteTarget, Look, Inspect, Serve, Kill, Elsewhere, discoveryVars
  <2>2. UNCHANGED <<state, published, stage, layers, asking, failure, config, ran, down, unanswered>>
    BY <2>1 DEF docker, resolution, history
  <2> QED
    BY <2>2 DEF CommandTypeOK, DiscoveryTypeOK, IsSource
<1> QED
  BY <1>2, <1>3, <1>4, <1>5, <1>6

\* The commands, and where they may stand.
Spots == {"parsed", "connecting", "working", "printing", "writing", "exporting", "serving",
          "looking", "initializing", "comparing", "exited"}

\* Every step keeps the types of what main.rs and the environment have.
LEMMA MainIsTyped ==
    ASSUME IInv, EInv, CommandTypeOK, [Next]_vars
    PROVE  /\ at' \in Spots /\ (code' # None <=> at' = "exited")
           /\ stdout' \in {"empty", "whole", "cut"} /\ target' \in {"absent", "whole", "cut"}
           /\ project' \in {session'.project, Truncated, Template}
           /\ cutting' => (target' = "cut" \/ project' = Truncated \/ session'.kills)
<1>1. /\ at \in Spots /\ (code # None <=> at = "exited")
      /\ stdout \in {"empty", "whole", "cut"} /\ target \in {"absent", "whole", "cut"}
      /\ project \in {session.project, Truncated, Template}
      /\ cutting => (target = "cut" \/ project = Truncated \/ session.kills)
  BY DEF CommandTypeOK, Spots
<1>2. \A n \in Nat : n # None
  BY NoneAssumption
<1>3. CASE UNCHANGED mainVars
  <2>1. CASE UNCHANGED project
    BY <1>1, <1>3, <2>1 DEF mainVars
  <2>2. CASE Edit
    BY <1>1, <1>3, <2>2 DEF mainVars, Edit
  <2>3. UNCHANGED project \/ Edit
    <3>1. CASE Resolving
      BY <3>1, ResolutionGoesOn DEF Resolving, IInv, FailureFits
    <3>2. CASE DockerMoves
      BY <3>2 DEF DockerMoves, Container
    <3>3. CASE Again
      BY <3>3 DEF Again
    <3>4. CASE WriteProject
      BY <1>1, <1>3, <3>4 DEF WriteProject, mainVars
    <3>5. CASE Begin
      BY <3>5 DEF Begin, Connect, discoveryVars
    <3>6. CASE UNCHANGED discoveryVars
      BY <3>6 DEF discoveryVars
    <3> QED
      BY <3>1, <3>2, <3>3, <3>4, <3>5, <3>6
         DEF Next, Main, Usage, NotConfigured, Configured, WorkFails, Executed, Compare, Export,
             PrintDocument, WriteTarget, Look, Inspect, Serve, Kill, Elsewhere, vars, Database, TimesOut
  <2> QED
    BY <2>1, <2>2, <2>3
<1>4. CASE Again
  BY <1>1, <1>4 DEF Again, Fresh, Spots
<1>5. CASE WriteProject
  <2>1. at = "initializing" /\ UNCHANGED <<session, target>>
    BY <1>5 DEF WriteProject
  <2> QED
    BY <1>1, <1>2, <1>5, <2>1 DEF WriteProject, Spots
<1>6. CASE WriteTarget
  <2>1. at = "writing" /\ UNCHANGED <<session, stdout, project>>
    BY <1>6 DEF WriteTarget, Elsewhere, discoveryVars
  <2> QED
    BY <1>1, <1>2, <1>6, <2>1 DEF WriteTarget, Spots
<1>7. CASE PrintDocument
  <2>1. /\ at' = "exited" /\ UNCHANGED <<session, target, cutting, project>>
        /\ stdout' \in {"empty", "whole", "cut"}
        /\ code' \in {4, 101} \/ code' = CodeOfReport
    BY <1>7 DEF PrintDocument, Elsewhere, discoveryVars
  <2>2. CodeOfReport \in Nat
    BY DEF CodeOfReport
  <2>3. code' # None
    BY <1>2, <2>1, <2>2
  <2> QED
    BY <1>1, <2>1, <2>3 DEF Spots
<1>8. CASE Inspect \/ Compare
  <2>1. UNCHANGED <<session, stdout, target, cutting, project>>
    BY <1>8 DEF Inspect, Compare, Exit, Elsewhere, discoveryVars
  <2>2. CASE at' = "exited" /\ code' \in {1, 2}
    BY <1>1, <1>2, <2>1, <2>2 DEF Spots
  <2>3. CASE Compare /\ at' = "printing" /\ code' = code
    BY <1>1, <2>1, <2>3 DEF Spots, Compare
  <2>4. CASE Inspect /\ at' = After(args.command) /\ code' = code
    <3>1. at = "working" /\ args.command \in Catalog
      BY <2>4 DEF Inspect
    <3>2. After(args.command) \in Spots \ {"exited"}
      BY <3>1 DEF After, Catalog, Spots
    <3> QED
      BY <1>1, <2>1, <2>4, <3>1, <3>2
  <2> QED
    BY <1>8, <2>2, <2>3, <2>4 DEF Inspect, Compare, Exit
<1>9. CASE Usage \/ Begin \/ NotConfigured \/ Configured \/ WorkFails \/ Executed \/ Export
           \/ Look \/ Serve \/ Kill
  <2>1. UNCHANGED <<session, stdout, target, cutting, project>>
    BY <1>9 DEF Usage, Begin, Connect, NotConfigured, Configured, WorkFails, Executed, Export, Look,
                Serve, Kill, Exit, Goto, Elsewhere, discoveryVars
  <2>2. CASE \E n \in Nat : Exit(n)
    BY <1>1, <1>2, <2>1, <2>2 DEF Exit, Spots
  <2>3. CASE \E spot \in Spots \ {"exited"} : Goto(spot) /\ at # "exited"
    BY <1>1, <2>1, <2>3 DEF Goto
  <2>4. \/ \E n \in Nat : Exit(n)
        \/ \E spot \in Spots \ {"exited"} : Goto(spot) /\ at # "exited"
    <3>1. CASE Usage
      BY <3>1 DEF Usage
    <3>2. CASE Begin
      BY <3>2 DEF Begin, Spots
    <3>3. CASE NotConfigured \/ Kill
      BY <3>3 DEF NotConfigured, Kill, Signalled
    <3>4. CASE Configured
      BY <3>4 DEF Configured, Spots
    <3>5. CASE WorkFails
      <4>1. CodeOf(phase) \in Nat
        BY <3>5 DEF WorkFails, CodeOf
      <4> QED
        BY <3>5, <4>1 DEF WorkFails
    <3>6. CASE Executed
      BY <3>6 DEF Executed, Executing, Spots
    <3>7. CASE Export \/ Serve
      BY <3>7 DEF Export, Serve
    <3>8. CASE Look
      BY <3>8 DEF Look, Spots
    <3> QED
      BY <1>9, <3>1, <3>2, <3>3, <3>4, <3>5, <3>6, <3>7, <3>8
  <2> QED
    BY <2>2, <2>3, <2>4
<1> QED
  BY <1>3, <1>4, <1>5, <1>6, <1>7, <1>8, <1>9
     DEF Next, Main, Resolving, DockerMoves, Database, TimesOut, Edit, vars, mainVars

Phases == {"idle", "checking", "rejected", "returned", "refused", "expired"} \cup Contacting

\* What was fetched is what the answer begins with, wherever the fetching stops.
LEMMA WorkIsTyped ==
    ASSUME IInv, EInv, EInv', CommandTypeOK, [Next]_vars
    PROVE  /\ phase' \in Phases
           /\ Len(attached') > 0 => dialled' # <<>>
           /\ \A i \in DOMAIN fetched' : fetched'[i] = answer'.rows[i]
<1>1. /\ phase \in Phases
      /\ Len(attached) > 0 => dialled # <<>>
      /\ \A i \in DOMAIN fetched : fetched[i] = answer.rows[i]
  BY DEF CommandTypeOK, Phases
<1>2. CASE UNCHANGED executionVars
  BY <1>1, <1>2 DEF executionVars
<1>3. CASE Again
  BY <1>3 DEF Again, Fresh, Phases
<1>4. CASE Configured
  BY <1>1, <1>4 DEF Configured, Phases, Contacting
<1>5. CASE Dial \/ Attach \/ DialFails \/ CheckStatement \/ FetchFails \/ FetchEnds \/ Expire
  <2>1. phase' \in Phases /\ UNCHANGED <<answer, fetched>>
    BY <1>5 DEF Dial, Attach, DialFails, CheckStatement, FetchFails, FetchEnds, Expire, Phases, Contacting
  <2>2. dialled' # <<>> \/ UNCHANGED <<dialled, attached>>
    BY <1>5 DEF Dial, Attach, DialFails, CheckStatement, FetchFails, FetchEnds, Expire
  <2> QED
    BY <1>1, <2>1, <2>2
<1>6. CASE Query
  <2>1. fetched = <<>>
    BY <1>6 DEF Query, EInv, ConnectionFits
  <2> QED
    BY <1>1, <1>6, <2>1 DEF Query, Phases, Contacting
<1>7. CASE Fetch
  <2>1. phase' = "fetching" /\ UNCHANGED <<phase, dialled, attached>>
    BY <1>7 DEF Fetch
  <2>2. IsPart(fetched', answer'.rows)
    BY <2>1 DEF EInv, ConnectionFits
  <2>3. \A i \in DOMAIN fetched' : fetched'[i] = answer'.rows[i]
    BY <2>2 DEF IsPart, Prefix
  <2> QED
    BY <1>1, <2>1, <2>3
<1> QED
  BY <1>2, <1>3, <1>4, <1>5, <1>6, <1>7
     DEF Next, Main, Resolving, DockerMoves, Database, TimesOut, Inspect, Serve, Kill, Edit, Usage,
         Begin, NotConfigured, WorkFails, Executed, Compare, Export, PrintDocument, WriteTarget, Look,
         WriteProject, Elsewhere, vars

\* A command begins with the types declared.
LEMMA TypesBegin == Init => CommandTypeOK
<1> SUFFICES ASSUME Init PROVE CommandTypeOK
  OBVIOUS
<1>1. IsSource(NoSource)
  BY DEF IsSource, NoSource
<1>2. published \in [Containers -> HostPorts]
  <2>1. (CHOOSE port \in HostPorts : TRUE) \in HostPorts
    BY HostPortsAssumption
  <2> QED
    BY <2>1 DEF Init
<1>3. DiscoveryTypeOK
  BY <1>1, <1>2 DEF Init, DiscoveryTypeOK, Stages
<1> QED
  BY <1>3 DEF Init, CommandTypeOK

\* And every step keeps them.
THEOREM TypesStep == IInv /\ EInv /\ EInv' /\ CommandTypeOK /\ [Next]_vars => CommandTypeOK'
<1> SUFFICES ASSUME IInv, EInv, EInv', CommandTypeOK, [Next]_vars PROVE CommandTypeOK'
  OBVIOUS
<1>1. args' \in session'.lines /\ (phase' # "idle" => stage' = "resolved")
  BY DEF EInv, LayersHold, ConnectionFits
<1> QED
  BY <1>1, DiscoveryIsTyped, MainIsTyped, WorkIsTyped DEF CommandTypeOK, Spots, Phases

\* In every state the program can be in, whatever is run in the directory, its
\* state has the declared types, a command that has an exit code is over, and
\* what was fetched is what the answer begins with.
THEOREM CommandTypes == Spec => []CommandTypeOK
BY CommandsBegin, CommandStep, ExecutionInvariant, CommandInvariant, TypesBegin, TypesStep, PTL DEF Spec

=============================================================================
