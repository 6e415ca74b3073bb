------------------------------- MODULE Command -------------------------------
(***************************************************************************)
(* The command line: fcl <url> or fcl local <source>, the work in the main *)
(* thread (RemoteRefs or LocalClone, the fetch of a pipelined clone in a   *)
(* thread of its own), the events it sends, and the renderer that shows    *)
(* them (ProgressRenderer).  Calls of the library's clone_repo and         *)
(* local_clone do the same work without a display.                         *)
(*                                                                         *)
(* An action of the work puts the events it sends next into the outbox,    *)
(* and its next action waits until they are sent, so that the renderer may *)
(* come between any two of them.                                           *)
(***************************************************************************)
EXTENDS LocalClone, RemoteRefs, ProgressRenderer

CONSTANTS
  Watched,         \* the local run that is the command's
  ShownDisks,      \* of LocalScenarios, and
  ShownServers,    \* servers, with a display; nobody else works on them
  Throttle,        \* entries between two reports of a copy
  MaxReports       \* bound on the reports of a fetch

ASSUME CommandAssumption ==
  /\ Watched \in Runs /\ ShownDisks \subseteq {s.disk : s \in LocalScenarios} /\ ShownServers \subseteq Servers
  /\ Throttle \in Nat /\ MaxReports \in Nat

VARIABLES
  command,       \* "clone", "local"
  shown,         \* there is a display
  nextEntries    \* CopyProgressThrottle

vars == <<localVars, cloneVars, displayVars, command, shown, nextEntries>>

ClonePhases == <<"refs", "fetch", "index", "checkout", "finalize">>

Init ==
  /\ shown \in BOOLEAN /\ nextEntries = 0
  /\ \/ /\ command = "clone" /\ CloneInit /\ LocalOff
        /\ shown => server \in ShownServers
        /\ DisplayInit(5, <<Started, PhaseStarted(1)>>)
     \/ /\ command = "local" /\ LocalInit /\ CloneOff
        /\ shown => disk \in ShownDisks
        /\ DisplayInit(3, <<Started, PhaseStarted(1)>>)
  /\ terminal => shown

\* emit_progress, where there is a callback.
Reports(events) == IF shown THEN Emits(events) ELSE UNCHANGED displayVars

-----------------------------------------------------------------------------
(***************************************************************************)
(* fcl <url>.                                                              *)
(***************************************************************************)
CloneStays == UNCHANGED <<localVars, command, shown, nextEntries>>

OnSuccess(events) == Reports(IF clonePc' = "error" THEN <<>> ELSE events)

\* Mutant: the fetch is reported as over when its thread runs.
ThreadsReportedOver ==
  IF pipelined THEN <<PhaseStarted(3), PhaseStarted(4), PhaseCompleted(2)>> ELSE <<>>

\* The pipelined clone starts three phases at once, the sequential one each at its time.
ThreadsStarted == IF pipelined THEN <<PhaseStarted(3), PhaseStarted(4)>> ELSE <<>>

CloneWork ==
  /\ command = "clone"
  /\ \/ (DiscoveryFails \/ Discover \/ ListRefs) /\ Reports(<<>>)
     \/ ChooseRefs /\ OnSuccess(<<PhaseCompleted(1)>>)
     \/ Stage      /\ OnSuccess(<<PhaseStarted(2)>>)
     \/ StartFetch /\ OnSuccess(ThreadsStarted)
     \/ Join       /\ OnSuccess(IF pipelined THEN <<PhaseCompleted(2)>>
                                 ELSE <<PhaseCompleted(2), PhaseStarted(3)>>)
     \/ ResolverPanics /\ Reports(<<>>)
     \/ Index      /\ OnSuccess(<<PhaseCompleted(3)>>)
     \/ WriteRefs  /\ OnSuccess(IF pipelined THEN <<>> ELSE <<PhaseStarted(4)>>)
     \/ CheckOut   /\ OnSuccess(<<PhaseCompleted(4), PhaseStarted(5)>>)
     \/ Finalize   /\ OnSuccess(<<PhaseCompleted(5), Completed>>)
  /\ CloneStays

FetchWork ==
  /\ command = "clone"
  /\ Fetcher /\ UNCHANGED displayVars
  /\ CloneStays

ReportsSent == {i \in DOMAIN sent : sent[i].kind = "Progress"}

\* emit_pack_progress.
FetchReports ==
  /\ shown /\ fetchPc = "requesting" /\ Cardinality(ReportsSent) < MaxReports
  /\ SendsAside(Progress)
  /\ CloneStays /\ UNCHANGED cloneVars

ServerStep == ~shown /\ ServerMoves /\ UNCHANGED displayVars /\ CloneStays

-----------------------------------------------------------------------------
(***************************************************************************)
(* fcl local.                                                              *)
(***************************************************************************)
Entries(r) == stats[r].files + stats[r].dirs + stats[r].links

\* maybe_emit_copy_progress: after so many entries, or so many bytes, which may be reached
\* with any file.
ReportsCopy(r) ==
  \/ Reports(<<Progress>>) /\ nextEntries' = Entries(r)' + Throttle
  \/ Entries(r)' < nextEntries /\ Reports(<<>>) /\ UNCHANGED nextEntries

OnReaching(to, events) == Reports(IF localPc'[Watched] = to THEN events ELSE <<>>)

WatchedWork ==
  /\ command = "local"
  /\ \/ /\ CopyDirectory(Watched) \/ CopyLeaf(Watched)
        /\ ReportsCopy(Watched)
     \/ /\ \/ ChooseTarget(Watched)
              /\ OnReaching("copying", <<PhaseCompleted(1), PhaseStarted(2)>>)
           \/ LeaveDirectory(Watched)
              /\ OnReaching("copied", <<Progress, PhaseCompleted(2), PhaseStarted(3),
                                        PhaseCompleted(3), Completed>>)
           \/ /\ \/ Inspect(Watched) \/ EntryFails(Watched)
                 \/ LocalSucceeds(Watched) \/ LocalFails(Watched)
              /\ Reports(<<>>)
        /\ UNCHANGED nextEntries
  /\ UNCHANGED <<cloneVars, command, shown>>

\* Other runs at the same time, without a display.
OtherWork(r) ==
  /\ r # Watched /\ Copy(r)
  /\ UNCHANGED <<cloneVars, displayVars, command, shown, nextEntries>>

UserWork ==
  ~shown /\ UserStep /\ UNCHANGED <<cloneVars, displayVars, command, shown, nextEntries>>

-----------------------------------------------------------------------------
(***************************************************************************)
(* The command itself: once the work is over.                              *)
(***************************************************************************)
Result ==
  CASE command = "clone" /\ clonePc = "ok"             -> "ok"
    [] command = "clone" /\ clonePc = "error"          -> "error"
    [] command = "local" /\ localPc[Watched] = "ok"    -> "ok"
    [] command = "local" /\ localPc[Watched] \in {"refused", "failed"} -> "error"
    [] OTHER                                           -> "none"

ThreadsEnded == fetchPc # "requesting"

CommandStep ==
  /\ shown
  /\ \/ Send
     \/ Result # "none" /\ DropEvents(Result)
     \/ Tell
     \/ Result = "none" /\ ThreadsEnded /\ clonePc # "waiting" /\ Panic
     \/ JoinRenderer
  /\ UNCHANGED <<localVars, cloneVars, command, shown, nextEntries>>

RendererStep ==
  /\ shown
  /\ Renderer
  /\ UNCHANGED <<localVars, cloneVars, command, shown, nextEntries>>

Returned == IF shown THEN mainPc \in {"returned", "panicked"} ELSE Result # "none"

\* Nobody runs any more, but for the display of a clone that waits.
Ended ==
  /\ Returned \/ clonePc = "waiting"
  /\ \A r \in Runs \ {Watched} : localPc[r] \notin {"inspecting", "choosing", "copying", "copied"}
  /\ UNCHANGED vars

Next ==
  \/ CloneWork \/ FetchWork \/ FetchReports \/ ServerStep
  \/ WatchedWork \/ (\E r \in Runs : OtherWork(r)) \/ UserWork
  \/ CommandStep \/ RendererStep \/ Ended

\* Threads that run are run, and a timer goes off.  Each step of the work ends: a request
\* of the clone has its timeout, and the threads of a pipelined clone whose resolver does
\* not panic come to an end, which is Pipeline's ReturnsUnlessPanic.
Spec ==
  /\ Init /\ [][Next]_vars
  /\ WF_vars(CloneWork \/ WatchedWork) /\ WF_vars(FetchWork)
  /\ WF_vars(CommandStep) /\ WF_vars(RendererStep)

-----------------------------------------------------------------------------
(***************************************************************************)
(* Properties.                                                             *)
(***************************************************************************)
\* What phase p of the clone needs before it starts.
Needs(p) ==
  CASE p = 1                     -> {}
    [] p = 2                     -> {"refs"}
    [] p \in {3, 4} /\ pipelined -> {"refs"}
    [] OTHER                     -> {ClonePhases[i] : i \in 1 .. p - 1}

\* Phase p of the command is over.
IsDone(p) ==
  IF command = "clone" THEN ClonePhases[p] \in done
  ELSE IF p = 1 THEN localPc[Watched] \notin {"inspecting", "choosing"}
  ELSE localPc[Watched] \in {"copied", "ok"}

\* The display is never ahead of the work, and never confuses its phases: a phase that
\* is shown as done is done, and one of the clone that is shown as running can run.
DisplayIsTrue ==
  \A p \in DOMAIN statuses :
    /\ statuses[p] = "Done" => IsDone(p)
    /\ command = "clone" /\ statuses[p] = "Running" => Needs(p) \subseteq done

\* The command returns, whatever the network, the file system and the scheduler do to
\* it, and even if its main thread panics in the work: it is left hanging by nothing but
\* a panic in the resolver's thread of a pipelined clone, Pipeline's finding.
CommandReturns == <>(Returned \/ clonePc = "waiting")
=============================================================================
