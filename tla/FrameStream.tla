---------------------------- MODULE FrameStream ----------------------------
(***************************************************************************)
(* What the resolver may rely on about the fetch thread: the frames come   *)
(* in the order of the pack, each once; the end of the pack is announced   *)
(* only after the last of them; or the stream breaks off.                  *)
(***************************************************************************)
EXTENDS Naturals, Sequences

VARIABLES
  total,   \* objects in the pack
  sent,    \* the frames sent so far
  end      \* "open", "finished" or "broken"

vars == <<total, sent, end>>

FirstFrames(n) == [i \in 1 .. n |-> i]

Init == sent = <<>> /\ end = "open" /\ total \in Nat

SendFrames ==
  /\ end = "open"
  /\ \E n \in Len(sent) + 1 .. total : sent' = FirstFrames(n)
  /\ UNCHANGED <<total, end>>

Finish ==
  /\ end = "open" /\ sent = FirstFrames(total)
  /\ end' = "finished"
  /\ UNCHANGED <<total, sent>>

BreakOff ==
  /\ end = "open"
  /\ end' = "broken"
  /\ UNCHANGED <<total, sent>>

Next == SendFrames \/ Finish \/ BreakOff

Spec == Init /\ [][Next]_vars
=============================================================================
