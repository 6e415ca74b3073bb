---------------------------- MODULE ObjectStore ----------------------------
(***************************************************************************)
(* What PipelineObjectStore (crates/core/src/pack/mod.rs) promises the     *)
(* checkout threads that read from it while the pack is still arriving:    *)
(* an object is only ever added, nothing is added once the store is        *)
(* closed, a reader that asks for an object gets it once it is available,  *)
(* and a reader is refused only when the object can no longer arrive.      *)
(* How readers wait, and how they are woken, is left to the Pipeline       *)
(* module, which is checked and proved to implement this one.              *)
(***************************************************************************)
CONSTANTS
  Oid,      \* the object ids that may be published or asked for
  Readers,  \* the threads that read from the store
  NoOid     \* stands for "no object": what an idle reader asks for

VARIABLES
  available,  \* the objects published so far
  closed,     \* TRUE once finish() or fail() ran
  request     \* request[r]: the state of reader r and the object it wants

vars == <<available, closed, request>>

Idle == [state |-> "idle", oid |-> NoOid]

Request == [state : {"asked", "got", "refused"}, oid : Oid] \cup {Idle}

TypeOK ==
  /\ available \subseteq Oid
  /\ closed \in BOOLEAN
  /\ request \in [Readers -> Request]

Init ==
  /\ available = {}
  /\ closed = FALSE
  /\ request = [r \in Readers |-> Idle]

-----------------------------------------------------------------------------
Publish(o) ==
  /\ ~closed
  /\ available' = available \cup {o}
  /\ UNCHANGED <<closed, request>>

Close ==
  /\ closed' = TRUE
  /\ UNCHANGED <<available, request>>

Ask(r, o) ==
  /\ request[r] = Idle
  /\ request' = [request EXCEPT ![r] = [state |-> "asked", oid |-> o]]
  /\ UNCHANGED <<available, closed>>

Serve(r) ==
  /\ request[r].state = "asked"
  /\ request[r].oid \in available
  /\ request' = [request EXCEPT ![r].state = "got"]
  /\ UNCHANGED <<available, closed>>

Refuse(r) ==
  /\ request[r].state = "asked"
  /\ closed
  /\ request[r].oid \notin available
  /\ request' = [request EXCEPT ![r].state = "refused"]
  /\ UNCHANGED <<available, closed>>

Leave(r) ==
  /\ request[r].state \in {"got", "refused"}
  /\ request' = [request EXCEPT ![r] = Idle]
  /\ UNCHANGED <<available, closed>>

Next ==
  \/ \E o \in Oid : Publish(o)
  \/ Close
  \/ \E r \in Readers :
       \/ \E o \in Oid : Ask(r, o)
       \/ Serve(r)
       \/ Refuse(r)
       \/ Leave(r)

Safety == Init /\ [][Next]_vars

\* An answer that can be given is given.
Spec == Safety /\ \A r \in Readers : WF_vars(Serve(r) \/ Refuse(r))
=============================================================================
