--------------------------- MODULE PipelineStates ---------------------------
(***************************************************************************)
(* Where the pipelined clone keeps the data of its objects while the       *)
(* checkout reads them: in memory, or, for blobs over a limit and only if  *)
(* asked to, in a spill file in the staged repository, which the resolver  *)
(* appends to while readers read from it (pipeline_object_state of         *)
(* crates/core/src/pack/mod.rs, spill_object, and the two reads of         *)
(* PipelineObjectStore).  Every step of Pipeline is one here.              *)
(*                                                                         *)
(* A byte of the spill file is known by whose it is.                       *)
(***************************************************************************)
EXTENDS Pipeline

CONSTANTS
  Size,           \* of the data of each object
  BlobOids,
  ResidentLimit,  \* FCL_CHECKOUT_BLOB_CACHE_BYTES
  SpillChoices    \* FCL_PIPELINE_SPILL_BLOBS or FCL_SPILL_BLOBS may be set

ASSUME DataAssumption ==
  /\ Size \in [Oid -> Nat] /\ BlobOids \subseteq Oid
  /\ ResidentLimit \in Nat /\ SpillChoices \subseteq BOOLEAN

VARIABLES
  spilling,    \* spill_blobs_over_budget
  residentBytes,
  dataState,   \* state_by_oid
  arena,       \* fcl-spill/fcl-spill.dat
  spilled      \* the object that is spilled and not published yet

dataVars == <<spilling, residentBytes, dataState, arena, spilled>>
allVars == <<vars, dataVars>>

NoSpill == [frame |-> 0, offset |-> 0]

DataInit ==
  /\ Init
  /\ spilling \in SpillChoices
  /\ residentBytes = 0 /\ dataState = <<>> /\ arena = <<>> /\ spilled = NoSpill

\* Blobs count, whether they are within the limit or kept in spite of it.
MustSpill(o) ==
  /\ spilling /\ o \in BlobOids
  /\ residentBytes + Size[o] > ResidentLimit

\* Mutant: where the object ends.
OffsetAfter(o) == Len(arena) + Size[o]

OffsetInArena(o) == Len(arena)

\* spill_object, before anybody hears of the object.
SpillObject(i) ==
  LET o == pack[i].oid
  IN /\ resolverPc = "running" /\ i \in work
     /\ spilled = NoSpill /\ MustSpill(o)
     /\ spilled' = [frame |-> i, offset |-> OffsetInArena(o)]
     /\ arena' = arena \o [k \in 1 .. Size[o] |-> o]
     /\ UNCHANGED <<vars, spilling, residentBytes, dataState>>

\* publish_object gets the state with the object.
PublishesData(i) ==
  LET o == pack[i].oid
      Becomes(s) == dataState' = [p \in DOMAIN dataState \cup {o} |->
                                    IF p = o THEN s ELSE dataState[p]]
  IN /\ IF MustSpill(o)
        THEN /\ spilled.frame = i
             /\ Becomes([kind |-> "spilled", offset |-> spilled.offset])
             /\ UNCHANGED residentBytes
        ELSE /\ Becomes([kind |-> "resident"])
             /\ residentBytes' = IF o \in BlobOids THEN residentBytes + Size[o] ELSE residentBytes
     /\ spilled' = NoSpill
     /\ UNCHANGED <<spilling, arena>>

PipelineStep ==
  /\ Next
  /\ IF resolved' = resolved THEN UNCHANGED dataVars
     ELSE /\ spilled # NoSpill => spilled.frame \in resolved'
          /\ \E i \in resolved' \ resolved : PublishesData(i)

DataNext == PipelineStep \/ \E i \in Frames : SpillObject(i)

DataSafety == DataInit /\ [][DataNext]_allVars

DataSpec == DataSafety /\ Fairness /\ WF_allVars(\E i \in Frames : SpillObject(i))

-----------------------------------------------------------------------------
\* read_spilled_object and copy_exact_range.
BytesOf(o) == SubSeq(arena, dataState[o].offset + 1, dataState[o].offset + Size[o])

\* Whenever a reader may have been told of an object, its data is where its state says,
\* whole and its own, although the resolver goes on appending to the file and may meet
\* the object a second time; and no more blobs stay in memory than the limit allows.
PublishedIsReadable ==
  /\ \A o \in published :
       /\ o \in DOMAIN dataState
       /\ dataState[o].kind = "spilled" =>
            /\ dataState[o].offset + Size[o] <= Len(arena)
            /\ BytesOf(o) = [k \in 1 .. Size[o] |-> o]
  /\ spilling => residentBytes <= ResidentLimit
=============================================================================
