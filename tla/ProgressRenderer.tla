-------------------------- MODULE ProgressRenderer --------------------------
(***************************************************************************)
(* The progress display of fcl: run_progress_renderer, a thread that is    *)
(* fed by two channels, the events of the work and the verdict at its end, *)
(* and TaskProgress, with which the command starts, tells and joins it     *)
(* (crates/cli/src/main.rs).  The verdict may overtake events, the events  *)
(* may end long before the verdict, and the renderer waits for neither     *)
(* longer than 120 ms.                                                     *)
(*                                                                         *)
(* The screen is blank or has the lines that were drawn last; without a    *)
(* terminal nothing is drawn, and each phase is printed as it is received. *)
(***************************************************************************)
EXTENDS Integers, Sequences

VARIABLES
  outbox,      \* events of the work's last step, not sent yet
  sent,        \* the events channel: all that was sent,
  taken,       \* and how many of it the renderer has received
  verdict,     \* the finished channel: "none", "ok", "error", "taken"
  mainPc,
  rendererPc,
  terminal,
  statuses,    \* ProgressState.phases
  screen,      \* "blank", "lines"
  lapsed       \* the verdict came too late

displayVars ==
  <<outbox, sent, taken, verdict, mainPc, rendererPc, terminal, statuses, screen, lapsed>>

Event(kind, phase) == [kind |-> kind, phase |-> phase]
PhaseStarted(phase) == Event("PhaseStarted", phase)
PhaseCompleted(phase) == Event("PhaseCompleted", phase)
Started == Event("Started", 0)
Progress == Event("Progress", 0)
Completed == Event("Completed", 0)

DisplayInit(phases, first) ==
  /\ outbox = first /\ sent = <<>> /\ taken = 0 /\ verdict = "none"
  /\ mainPc = "working" /\ rendererPc = "starting"
  /\ terminal \in BOOLEAN
  /\ statuses = [p \in 1 .. phases |-> "Waiting"]
  /\ screen = "blank" /\ lapsed = FALSE

-----------------------------------------------------------------------------
(***************************************************************************)
(* The command.                                                            *)
(***************************************************************************)
\* What the work does next it does once it has sent the events of its last step.
Emits(events) ==
  /\ mainPc = "working" /\ outbox = <<>>
  /\ outbox' = events
  /\ UNCHANGED <<sent, taken, verdict, mainPc, rendererPc, terminal, statuses, screen, lapsed>>

Send ==
  /\ outbox # <<>>
  /\ sent' = Append(sent, Head(outbox)) /\ outbox' = Tail(outbox)
  /\ UNCHANGED <<taken, verdict, mainPc, rendererPc, terminal, statuses, screen, lapsed>>

\* The callback in another thread of the work.
SendsAside(event) ==
  /\ mainPc = "working"
  /\ sent' = Append(sent, event)
  /\ UNCHANGED <<outbox, taken, verdict, mainPc, rendererPc, terminal, statuses, screen,
                 lapsed>>

MainGoes(from, to) ==
  /\ mainPc = from /\ mainPc' = to
  /\ UNCHANGED <<outbox, sent, taken, rendererPc, terminal, statuses, screen, lapsed>>

\* drop(events).
DropEvents(result) ==
  /\ outbox = <<>>
  /\ MainGoes("working", result)
  /\ UNCHANGED verdict

\* finish: tell the renderer.
Tell ==
  \E result \in {"ok", "error"} : MainGoes(result, "joining") /\ verdict' = result

\* Mutant: only finish tells.
UntoldVerdict == verdict

DropVerdict == "error"

\* The work panics: Drop tells while the events are still open.
Panic ==
  /\ outbox = <<>>
  /\ MainGoes("working", "unwinding") /\ verdict' = DropVerdict

\* Mutant: finish does not join.
RendererOverOrNot == TRUE

RendererOver == rendererPc = "done"

\* join, and the summary or the error goes to the screen.
JoinRenderer ==
  /\ RendererOver
  /\ \/ MainGoes("joining", "returned")
     \/ MainGoes("unwinding", "panicked")
  /\ UNCHANGED verdict

Open == mainPc \in {"working", "unwinding"}

-----------------------------------------------------------------------------
(***************************************************************************)
(* run_progress_renderer.                                                  *)
(***************************************************************************)
RendererGoes(from, to) ==
  /\ rendererPc = from /\ rendererPc' = to
  /\ UNCHANGED <<outbox, sent, mainPc, terminal>>

Draw == IF terminal THEN screen' = "lines" ELSE UNCHANGED screen
Clear == IF terminal THEN screen' = "blank" ELSE UNCHANGED screen

\* ProgressState::apply.
Apply(event) ==
  CASE event.kind = "PhaseStarted"   -> [statuses EXCEPT ![event.phase] = "Running"]
    [] event.kind = "PhaseCompleted" -> [statuses EXCEPT ![event.phase] = "Done"]
    [] event.kind = "Completed"      -> [p \in DOMAIN statuses |-> "Done"]
    [] OTHER                         -> statuses

Receive ==
  /\ taken < Len(sent) /\ taken' = taken + 1
  /\ statuses' = Apply(sent[taken + 1])
  /\ UNCHANGED <<verdict, screen, lapsed>>

RendererStarts ==
  /\ RendererGoes("starting", "draining") /\ Draw
  /\ UNCHANGED <<taken, verdict, statuses, lapsed>>

\* try_recv until there is nothing.
Drain ==
  \/ RendererGoes("draining", "draining") /\ Receive
  \/ /\ taken = Len(sent)
     /\ RendererGoes("draining", "asking")
     /\ UNCHANGED <<taken, verdict, statuses, screen, lapsed>>

\* The verdict, if there is one: events sent since the queue was empty are lost.
Ask ==
  /\ \/ verdict # "none" /\ RendererGoes("asking", "done") /\ verdict' = "taken" /\ Clear
     \/ verdict = "none" /\ RendererGoes("asking", "drawing") /\ UNCHANGED <<verdict, screen>>
  /\ UNCHANGED <<taken, statuses, lapsed>>

Redraw ==
  /\ RendererGoes("drawing", "waiting") /\ Draw
  /\ UNCHANGED <<taken, verdict, statuses, lapsed>>

\* recv_timeout.
Wait ==
  \/ RendererGoes("waiting", "draining") /\ Receive
  \/ /\ taken = Len(sent)
     /\ \/ Open /\ RendererGoes("waiting", "draining")      \* 120 ms
        \/ ~Open /\ RendererGoes("waiting", "closing")
     /\ UNCHANGED <<taken, verdict, statuses, screen, lapsed>>

\* The events have ended: the verdict, or after 120 ms none, and the lines stay.
Close ==
  /\ \/ verdict # "none" /\ RendererGoes("closing", "done") /\ verdict' = "taken" /\ Clear
        /\ UNCHANGED lapsed
     \/ verdict = "none" /\ RendererGoes("closing", "done") /\ lapsed' = TRUE
        /\ UNCHANGED <<verdict, screen>>
  /\ UNCHANGED <<taken, statuses>>

Renderer == RendererStarts \/ Drain \/ Ask \/ Redraw \/ Wait \/ Close

-----------------------------------------------------------------------------
(***************************************************************************)
(* Properties.                                                             *)
(***************************************************************************)
\* What the command prints at its end it prints on a clean screen, and nobody draws
\* after it: unless the 120 ms between the last event and the verdict ran out.
ScreenIsClean ==
  mainPc \in {"returned", "panicked"} => rendererPc = "done" /\ (screen = "blank" \/ lapsed)
=============================================================================
