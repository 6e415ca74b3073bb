---------------------------- MODULE ObjectStates ----------------------------
(***************************************************************************)
(* The ingest of a pack by the sequential clone, ingest_scanned_pack       *)
(* (crates/core/src/pack/mod.rs:1019-1124): the resolver (SequentialResol- *)
(* ver), the index file, and then what becomes of each object's data:      *)
(* it stays in memory, is spilled to a file, or is left to be rebuilt from *)
(* the pack; and how PackIndex finds it again.                             *)
(*                                                                         *)
(* Data is known by the id of its object; in the spill file each byte is   *)
(* known by whose it is.  What the resolver released has no data.          *)
(***************************************************************************)
EXTENDS SequentialResolver

CONSTANTS
  Size,           \* of the data of each object
  NeededSets,     \* the blobs the default branch may have
  CacheLimit,     \* FCL_OBJECT_CACHE_BYTES
  CheckoutLimit,  \* FCL_CHECKOUT_BLOB_CACHE_BYTES
  SpillLimit,     \* FCL_MAX_SPILL_BYTES
  MaxDepth,       \* deltas that are rebuilt on top of each other (128)
  Foreign,        \* a byte of another process in the spill file
  MaxForeign,     \* bound on those
  CutsIn          \* other processes append to the file at any time

ASSUME StatesAssumption ==
  /\ Size \in [Oid -> Nat] /\ NeededSets \subseteq SUBSET BlobOids
  /\ {CacheLimit, CheckoutLimit, SpillLimit, MaxDepth, MaxForeign} \subseteq Nat
  /\ Foreign \notin Oid /\ CutsIn \in BOOLEAN

VARIABLES
  hint,        \* there is a checkout hint; FCL_SPILL_BLOBS is set
  spillBlobs,
  order,       \* the frames resolved, in the order of the vector
  ingest,      \* the step of the ingest
  needed,      \* checkout_needed_blobs
  state,       \* state_by_oid
  bytes,       \* the counters of build_object_states
  offset,      \* where the object being spilled will be in the file
  arena        \* fcl-spill.dat

stateVars == <<hint, spillBlobs, needed, state, bytes, offset, arena>>
ingestVars == <<vars, order, ingest, stateVars>>

Reconstructable == [kind |-> "reconstructable"]

\* Mutants: blobs are released that the checkout needs, or that are spilled.
ReleasesNeeded == ~spillBlobs
ReleasesSpilled == ~hint

\* keep_blob_data, and the first lines of release_delta_base_if_done.
Releases == ~hint /\ ~spillBlobs

\* A file that FCL_SPILL_DIR names may be there already.
IngestInit ==
  /\ Init
  /\ hint \in BOOLEAN /\ spillBlobs \in BOOLEAN /\ releases = Releases
  /\ order = <<>> /\ ingest = "resolving" /\ needed = {}
  /\ state = <<>> /\ bytes = [retained |-> 0, checkout |-> 0, spilled |-> 0]
  /\ offset = 0
  /\ arena \in {<<>>, <<Foreign>>}

-----------------------------------------------------------------------------
Resolve ==
  /\ ingest = "resolving" /\ Next
  /\ LET new == resolved' \ resolved
     IN \E place \in [1 .. Cardinality(new) -> new] :
          /\ \A i, j \in DOMAIN place : i < j => place[i] < place[j]
          /\ order' = order \o place
  /\ UNCHANGED <<ingest, stateVars>>

Goes(from, to) == ingest = from /\ ingest' = to /\ UNCHANGED <<vars, hint, spillBlobs>>

\* write_idx_v2, which refuses two objects with one id, and then
\* checkout_needed_blobs, which reads the commit and the trees of the hint.
WriteIndex ==
  /\ pc = "ok" /\ DistinctOids
  /\ Goes("resolving", "states")
  /\ needed' \in IF hint THEN NeededSets ELSE {{}}
  /\ UNCHANGED <<order, state, bytes, offset, arena>>

\* One of those fails: an object twice, the disk, a commit or tree that is missing.
WriteIndexFails ==
  /\ pc = "ok"
  /\ Goes("resolving", "failed")
  /\ UNCHANGED <<order, needed, state, bytes, offset, arena>>

-----------------------------------------------------------------------------
(***************************************************************************)
(* build_object_states: the frames one after the other.                    *)
(***************************************************************************)
This == Head(order)
ThisOid == pack[This].oid
DataLen == IF This \in released THEN 0 ELSE Size[ThisOid]

IsBlob == ThisOid \in BlobOids
IsNeeded == IsBlob /\ ThisOid \in needed

\* Needed, but released: checkout_missing_blob_count.
IsMissing == IsNeeded /\ DataLen = 0 /\ Size[ThisOid] # 0

FitsCheckout == bytes.checkout + DataLen <= CheckoutLimit

FitsCache == bytes.retained + DataLen <= CacheLimit

KeepsForCheckout == IsNeeded /\ ~IsMissing /\ FitsCheckout
KeepsInCache == ~IsBlob /\ FitsCache
Spills ==
  \/ IsNeeded /\ ~IsMissing /\ ~FitsCheckout
  \/ IsBlob /\ ~IsNeeded /\ spillBlobs

\* The state of this frame is set, and the loop goes on.
Becomes(new) ==
  /\ state' = [o \in DOMAIN state \cup {ThisOid} |-> IF o = ThisOid THEN new ELSE state[o]]
  /\ order' = Tail(order)

Retain ==
  /\ order # <<>> /\ (KeepsForCheckout \/ KeepsInCache)
  /\ Goes("states", "states")
  /\ Becomes([kind |-> "resident", whole |-> This \notin released])
  /\ bytes' = [bytes EXCEPT !.retained = @ + DataLen,
                            !.checkout = IF IsNeeded THEN @ + DataLen ELSE @]
  /\ UNCHANGED <<needed, offset, arena>>

LeaveInPack ==
  /\ order # <<>> /\ ~(KeepsForCheckout \/ KeepsInCache \/ Spills)
  /\ Goes("states", "states")
  /\ Becomes(Reconstructable)
  /\ UNCHANGED <<needed, bytes, offset, arena>>

\* spill_object looks at the length of the file ...
MeasureArena ==
  /\ order # <<>> /\ Spills
  /\ Goes("states", "spilling")
  /\ offset' = Len(arena)
  /\ UNCHANGED <<order, needed, state, bytes, arena>>

\* Mutant: the limit is compared with what was spilled before.
WithinSpillLimitBefore(n) == bytes.spilled <= SpillLimit

\* enforce_max_spill_bytes
WithinSpillLimit(n) == n <= SpillLimit

\* ... then opens it again and appends; the limit is looked at afterwards.
AppendToArena ==
  /\ LET spilled == bytes.spilled + DataLen
     IN /\ Goes("spilling", IF WithinSpillLimit(spilled) THEN "states" ELSE "failed")
        /\ bytes' = [bytes EXCEPT !.spilled = spilled]
        /\ IF WithinSpillLimit(spilled)
           THEN Becomes([kind |-> "spilled", offset |-> offset, len |-> DataLen])
           ELSE UNCHANGED <<state, order>>
  /\ arena' = arena \o [i \in 1 .. DataLen |-> ThisOid]
  /\ offset' = 0
  /\ UNCHANGED needed

SpillFails ==
  /\ \E from \in {"states", "spilling"} : Goes(from, "failed")
  /\ order # <<>> /\ Spills
  /\ UNCHANGED <<order, needed, state, bytes, offset, arena>>

FinishStates ==
  /\ order = <<>>
  /\ Goes("states", "done")
  /\ UNCHANGED <<order, needed, state, bytes, offset, arena>>

\* Another clone with the same FCL_SPILL_DIR.
OtherSpills ==
  /\ CutsIn \/ ingest # "spilling"
  /\ ingest \in {"states", "spilling"}
  /\ Cardinality({i \in DOMAIN arena : arena[i] = Foreign}) < MaxForeign
  /\ arena' = Append(arena, Foreign)
  /\ UNCHANGED <<vars, order, ingest, hint, spillBlobs, needed, state, bytes, offset>>

IngestDone == ingest \in {"done", "failed"} /\ UNCHANGED ingestVars

IngestNext ==
  \/ Resolve \/ WriteIndex \/ WriteIndexFails
  \/ Retain \/ LeaveInPack \/ MeasureArena \/ AppendToArena \/ SpillFails
  \/ FinishStates \/ OtherSpills \/ IngestDone

IngestSpec == IngestInit /\ [][IngestNext]_ingestVars

-----------------------------------------------------------------------------
(***************************************************************************)
(* Reading: PackIndex::read_object, stream_blob.                           *)
(***************************************************************************)
FrameOf(o) == CHOOSE f \in Frames : pack[f].oid = o

\* DeltaBase, by oid_by_offset for an offset.
BaseOid(f) == IF pack[f].kind = "ref" THEN pack[f].base ELSE pack[pack[f].base].oid

\* read_spilled_object
ReadSpilled(o) ==
  LET s == state[o]
  IN IF s.offset + s.len > Len(arena) THEN "error"
     ELSE IF SubSeq(arena, s.offset + 1, s.offset + s.len) = [i \in 1 .. Size[o] |-> o]
          THEN "right" ELSE "wrong"

\* reconstruct_object and read_cached_or_reconstruct, with the deltas above.
ReadAt ==
  LET read[depth \in 0 .. MaxDepth + 1] ==
        [o \in DOMAIN state |->
           CASE state[o].kind = "resident" -> IF state[o].whole THEN "right" ELSE "wrong"
             [] state[o].kind = "spilled"  -> ReadSpilled(o)
             [] OTHER ->
                  IF depth > MaxDepth THEN "error"
                  ELSE IF pack[FrameOf(o)].kind = "base" THEN "right"
                  ELSE read[depth + 1][BaseOid(FrameOf(o))]]
  IN read

Read(o) == ReadAt[0][o]

-----------------------------------------------------------------------------
\* An object with so many deltas to rebuild that the limit on them is met.
TooDeep(o) ==
  LET chain[n \in 0 .. MaxDepth + 1] ==
        IF n = 0 THEN {o}
        ELSE {BaseOid(FrameOf(p)) : p \in {q \in chain[n - 1] : /\ state[q] = Reconstructable
                                                                /\ pack[FrameOf(q)].kind # "base"}}
  IN \E p \in chain[MaxDepth + 1] : state[p] = Reconstructable

\* Every object of an ingested pack can be read back, and is the object it was,
\* wherever its data and that of its bases went: but for those that are too deep.
ReadsBack ==
  ingest = "done" =>
    \A f \in Frames : Read(pack[f].oid) = IF TooDeep(pack[f].oid) THEN "error" ELSE "right"

\* With a hint, no blob that the checkout needs is left to be rebuilt, although the
\* resolver gives up data of blobs and the memory for them is limited.
NeededIsReady ==
  ingest = "done" => \A o \in needed \cap DOMAIN state : state[o] # Reconstructable

\* What the ingest keeps is within the limits that are set for it: structural
\* objects, blobs for the checkout, and the spill file's share.
SizeOf(S) == Cardinality(UNION {{o} \X (1 .. Size[o]) : o \in S})
Of(kind) == {o \in DOMAIN state : state[o].kind = kind}

KeepsWithinLimits ==
  /\ SizeOf(Of("resident") \ BlobOids) <= CacheLimit
  /\ SizeOf(Of("resident") \cap BlobOids) <= CheckoutLimit
  /\ SizeOf(Of("spilled")) <= SpillLimit
=============================================================================
