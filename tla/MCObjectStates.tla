------------------------ MODULE MCObjectStates ------------------------------
(***************************************************************************)
(* Packs for TLC: small ones with objects that occur twice, and packs of   *)
(* four blobs.                                                             *)
(***************************************************************************)
EXTENDS ObjectStates, Functions

SmallOid == {"b", "c", "t"}
BlobAt == <<"b", "c", "d", "e">>
MCOid == SmallOid \cup Range(BlobAt)
MCBlobOids == Range(BlobAt)

Base(o) == [kind |-> "base", oid |-> o]
OffsetDelta(base, o) == [kind |-> "offset", base |-> base, oid |-> o]
RefDelta(base, o) == [kind |-> "ref", base |-> base, oid |-> o]

\* A delta has the type of its base.
SameType(o, p) == (o \in MCBlobOids) = (p \in MCBlobOids)

\* Offsets go back to any frame before, to the frame itself, or to none.
FrameAt(i) ==
  {Base(o) : o \in SmallOid}
    \cup {OffsetDelta(b, o) : b \in 0 .. i, o \in SmallOid}
    \cup {RefDelta(b, o) : b \in SmallOid, o \in SmallOid}

\* The frames that can hold the i-th of four different blobs.
BlobFrameAt(i) ==
  {Base(BlobAt[i])}
    \cup {OffsetDelta(b, BlobAt[i]) : b \in 0 .. i - 1}
    \cup {RefDelta(b, BlobAt[i]) : b \in MCBlobOids}

Typed(p) ==
  \A i \in DOMAIN p :
    /\ p[i].kind = "ref" => SameType(p[i].base, p[i].oid)
    /\ p[i].kind = "offset" /\ p[i].base # 0 => SameType(p[p[i].base].oid, p[i].oid)

\* Every pack of up to three frames, every pack of four different blobs, and larger
\* ones: a chain of ref deltas in the wrong order; a blob with children by offset and
\* by id in different rounds; an object twice, as a base and as a delta, and twice as
\* a delta in one round, with deltas that name its id.
MCPacks ==
  {<<>>} \cup {p \in {<<f>> : f \in FrameAt(1)} : Typed(p)}
    \cup {p \in FrameAt(1) \X FrameAt(2) : Typed(p)}
    \cup {p \in FrameAt(1) \X FrameAt(2) \X FrameAt(3) : Typed(p)}
    \cup BlobFrameAt(1) \X BlobFrameAt(2) \X BlobFrameAt(3) \X BlobFrameAt(4)
    \cup { <<RefDelta("c", "b"), RefDelta("b", "c"), Base("t"), Base("b")>>,
           <<Base("b"), OffsetDelta(1, "c"), RefDelta("c", "b"), RefDelta("b", "c"), Base("t")>>,
           <<Base("b"), OffsetDelta(1, "c"), OffsetDelta(1, "c"), RefDelta("c", "b"),
             OffsetDelta(3, "b")>>,
           <<RefDelta("t", "t"), Base("b"), Base("b"), RefDelta("b", "c"), OffsetDelta(2, "c"),
             RefDelta("c", "c")>> }

\* Sizes and limits: a cache with room for a tree, and memory and spill file for
\* two or three blobs.
MCSize == [o \in MCOid |-> IF o = "c" THEN 0 ELSE IF o = "d" THEN 2 ELSE 1]
MCNeeded == {{}, {"b"}, {"b", "c", "d"}, {"d", "e"}}

\* Two blobs that are spilled, for the run with another process.
SpillPacks == {<<Base("b"), Base("d")>>}
=============================================================================
