------------------------- MODULE SequentialResolver -------------------------
(***************************************************************************)
(* resolve_inflated_frames (crates/core/src/pack/mod.rs:2569-2746): how    *)
(* the sequential clone, once the whole pack is there, turns its frames    *)
(* into objects.  Objects that are not deltas come first; then, in rounds, *)
(* every delta whose base is known, the deltas of a round in parallel.     *)
(*                                                                         *)
(* A frame is known by its place in the pack.  Blobs that have served as   *)
(* the base of their last delta give up their data when nobody will ask    *)
(* for it; a counter of unresolved children tells when.                    *)
(***************************************************************************)
EXTENDS Integers, Sequences, FiniteSets

CONSTANTS
  Oid,      \* object ids
  BlobOids, \* those of blobs
  Packs     \* the packs to resolve, sequences of frames

\* As in Pipeline: "oid" is what the object has once it is resolved, and "base"
\* is a place in the pack, which need not be that of a frame, or an object id.
Frame ==
       [kind : {"base"}, oid : Oid]
  \cup [kind : {"offset"}, base : Nat, oid : Oid]
  \cup [kind : {"ref"}, base : Oid, oid : Oid]

ASSUME ResolverAssumption ==
  /\ Packs \subseteq Seq(Frame)
  /\ BlobOids \subseteq Oid

VARIABLES
  pack,
  releases,   \* no blob is wanted later: neither keep_blob_data nor FCL_SPILL_BLOBS
  pc,
  resolved,   \* the frames resolved, whose offsets are in resolved_by_offset
  byOid,      \* resolved_by_oid, or 0
  counter,    \* unresolved_children
  counted,    \* ref_children_counted
  queued,
  ready,
  results,    \* results[f]: the base of a delta of this round not merged yet
  merged,     \* resolved_delta_count
  released    \* frames without data

vars == <<pack, releases, pc, resolved, byOid, counter, counted, queued, ready,
          results, merged, released>>

Frames == DOMAIN pack
Deltas == {f \in Frames : pack[f].kind # "base"}

\* build_delta_adjacency
ChildrenByOffset(f) == {c \in Frames : pack[c].kind = "offset" /\ pack[c].base = f}
ChildrenByOid(o) == {c \in Frames : pack[c].kind = "ref" /\ pack[c].base = o}
Children(f) == ChildrenByOffset(f) \cup ChildrenByOid(pack[f].oid)

Final == {"ok", "missing", "failed", "lost", "mismatch"}

TypeOK ==
  /\ pack \in Packs
  /\ releases \in BOOLEAN
  /\ pc \in {"bases", "loop", "merge"} \cup Final
  /\ resolved \subseteq Frames
  /\ byOid \in [Oid -> Frames \cup {0}]
  /\ counter \in [Frames -> Nat]
  /\ counted \subseteq Frames
  /\ queued \subseteq Deltas /\ ready \subseteq queued
  /\ DOMAIN results \subseteq queued /\ \A f \in DOMAIN results : results[f] \in Frames
  /\ merged \in Nat
  /\ released \subseteq Frames

\* Mutant: the offsets are counted for the deltas, not for their bases.
CountPerDelta == [f \in Frames |-> IF pack[f].kind = "offset" THEN 1 ELSE 0]

CountByOffset == [f \in Frames |-> Cardinality(ChildrenByOffset(f))]

Init ==
  /\ pack \in Packs
  /\ releases \in BOOLEAN
  /\ pc = "bases"
  /\ resolved = {} /\ byOid = [o \in Oid |-> 0]
  /\ counter = CountByOffset
  /\ counted = {}
  /\ queued = {} /\ ready = {} /\ results = <<>> /\ merged = 0
  /\ released = {}

-----------------------------------------------------------------------------
End(verdict) ==
  /\ pc' = verdict
  /\ UNCHANGED <<pack, releases, resolved, byOid, counter, counted, queued, ready,
                 results, merged, released>>

\* A payload cannot be inflated, or a delta not applied; the first error ends it.
PayloadFails ==
  /\ pc = "bases" \/ (pc = "loop" /\ ready # {})
  /\ End("failed")

\* The objects that are no deltas, in the order of the pack: of two with the same
\* id the later one is found by it.
Bases == Frames \ Deltas
BasesOf(o) == {f \in Bases : pack[f].oid = o}

LastBase(o) ==
  IF BasesOf(o) = {} THEN 0
  ELSE CHOOSE f \in BasesOf(o) : \A g \in BasesOf(o) : g <= f

\* Those whose deltas by id are counted now.
CountedBases ==
  {f \in Bases : LastBase(pack[f].oid) = f /\ ChildrenByOid(pack[f].oid) # {}}

ResolveBases ==
  /\ pc = "bases"
  /\ resolved' = Bases
  /\ byOid' = [o \in Oid |-> LastBase(o)]
  /\ counter' = [f \in Frames |->
       counter[f] + (IF f \in CountedBases THEN Cardinality(ChildrenByOid(pack[f].oid)) ELSE 0)]
  /\ counted' = CountedBases
  /\ queued' = UNION {Children(f) : f \in Bases}
  /\ ready' = queued'
  /\ pc' = "loop"
  /\ UNCHANGED <<pack, releases, results, merged, released>>

\* Deltas left, and none of them has a base.
NoBase ==
  /\ pc = "loop" /\ merged < Cardinality(Deltas) /\ ready = {}
  /\ End("missing")

Finish ==
  /\ pc = "loop" /\ merged >= Cardinality(Deltas)
  /\ End(IF resolved = Frames THEN "ok" ELSE "mismatch")

\* delta_base: the frame a delta is applied to, 0 when there is none.
DeltaBase(f) ==
  IF pack[f].kind = "ref" THEN byOid[pack[f].base]
  ELSE IF pack[f].base \in resolved THEN pack[f].base ELSE 0

\* A delta that is applied to a base without data fails by the base's size.
Usable(b) == b # 0 /\ b \notin released

\* A round: the deltas that are ready, in parallel.
ComputeRound ==
  /\ pc = "loop" /\ merged < Cardinality(Deltas) /\ ready # {}
  /\ IF \A f \in ready : Usable(DeltaBase(f))
     THEN /\ results' = [f \in ready |-> DeltaBase(f)]
          /\ ready' = {}
          /\ pc' = "merge"
          /\ UNCHANGED <<pack, releases, resolved, byOid, counter, counted, queued,
                         merged, released>>
     ELSE End("lost")

\* release_delta_base_if_done
Decremented(b) == IF counter[b] > 0 THEN counter[b] - 1 ELSE 0

ReleaseIfDone(b) ==
  IF ~releases THEN UNCHANGED released
  ELSE released' = IF Decremented(b) = 0 /\ pack[b].oid \in BlobOids
                   THEN released \cup {b} ELSE released

\* count_ref_delta_children_once, after the base has lost a child.
CountRefChildrenOnce(f, b) ==
  LET less == IF releases THEN [counter EXCEPT ![b] = Decremented(b)] ELSE counter
  IN /\ counter' = IF f \in counted THEN less
                   ELSE [less EXCEPT ![f] = @ + Cardinality(ChildrenByOid(pack[f].oid))]
     /\ counted' = counted \cup {f}

\* Mutant: the flag is not looked at.
EnqueueAgain(f) ==
  /\ queued' = queued \cup Children(f)
  /\ ready' = ready \cup Children(f)

\* enqueue_delta_children
Enqueue(f) ==
  /\ queued' = queued \cup Children(f)
  /\ ready' = ready \cup (Children(f) \ queued)

\* One turn of the loop over the results of a round, which the code takes in the
\* order in which they were queued.
Merge(f) ==
  /\ pc = "merge" /\ f \in DOMAIN results
  /\ ReleaseIfDone(results[f])
  /\ byOid' = [byOid EXCEPT ![pack[f].oid] = f]
  /\ CountRefChildrenOnce(f, results[f])
  /\ Enqueue(f)
  /\ resolved' = resolved \cup {f}
  /\ merged' = merged + 1
  /\ results' = [g \in DOMAIN results \ {f} |-> results[g]]
  /\ pc' = IF DOMAIN results = {f} THEN "loop" ELSE "merge"
  /\ UNCHANGED <<pack, releases>>

Done == pc \in Final /\ UNCHANGED vars

Next ==
  \/ PayloadFails \/ ResolveBases
  \/ NoBase \/ Finish
  \/ ComputeRound \/ \E f \in Frames : Merge(f)
  \/ Done

Spec == Init /\ [][Next]_vars

-----------------------------------------------------------------------------
\* A delta that is queued finds its base, with its data: whatever the counters say
\* of packs in which an object occurs twice, or an id is resolved again between
\* the queueing of a delta and its round, no base is given up too early.
BasesStayUsable == \A f \in ready : Usable(DeltaBase(f))

\* What can be resolved: the least set of frames that has every frame whose base
\* it has.
HasBaseIn(f, S) ==
  CASE pack[f].kind = "base"   -> TRUE
    [] pack[f].kind = "offset" -> pack[f].base \in S
    [] pack[f].kind = "ref"    -> \E g \in S : pack[g].oid = pack[f].base

Closed(S) == \A f \in Frames : HasBaseIn(f, S) => f \in S
Derivable == {f \in Frames : \A S \in SUBSET Frames : Closed(S) => f \in S}

\* The resolver accepts a pack only if it has resolved every frame, complains of
\* missing bases only if some frame cannot be resolved, and its two internal
\* errors ("lost its resolved base", "resolved n objects but pack declared m")
\* never happen.
VerdictIsRight ==
  /\ resolved \subseteq Derivable
  /\ pc = "ok" => resolved = Frames
  /\ pc = "missing" => Derivable # Frames
  /\ pc \notin {"lost", "mismatch"}

\* In a pack that has every object once, the counters are right: the blobs without
\* data are at any time those whose last child has been resolved.
DistinctOids == \A f, g \in Frames : pack[f].oid = pack[g].oid => f = g

ReleasedExactly ==
  DistinctOids /\ releases =>
    released = {b \in resolved : /\ pack[b].oid \in BlobOids
                                 /\ Children(b) # {} /\ Children(b) \subseteq resolved}
=============================================================================
