----------------------------- MODULE MCPipeline -----------------------------
(***************************************************************************)
(* Instances of the Pipeline module for TLC.                               *)
(***************************************************************************)
EXTENDS PipelineStates

-----------------------------------------------------------------------------
(* A branch with a subtree and two files: a few larger packs.              *)
WideOid == {"c", "t", "s", "b1", "b2", "x", "y"}
WideSubTrees == [o \in WideOid |-> IF o = "t" THEN {"s"} ELSE {}]
WideBlobs ==
  [o \in WideOid |-> CASE o = "t" -> {"b1"} [] o = "s" -> {"b2"} [] OTHER -> {}]

Base(o) == [kind |-> "base", oid |-> o]
OffsetDelta(base, o) == [kind |-> "offset", base |-> base, oid |-> o]
RefDelta(base, o) == [kind |-> "ref", base |-> base, oid |-> o]

\* In the order in which the checkout wants the objects; in the opposite order
\* with offset deltas; a chain of ref deltas whose base comes last; a pack that
\* lacks one file; and a pack with one delta too many, whose base is not in it.
WidePacks ==
  { <<Base("c"), Base("t"), Base("s"), Base("b1"), Base("b2")>>,
    <<Base("b1"), OffsetDelta(1, "b2"), Base("s"), OffsetDelta(3, "t"), Base("c")>>,
    <<RefDelta("b1", "b2"), Base("c"), RefDelta("s", "t"), RefDelta("b2", "s"), Base("b1")>>,
    <<Base("c"), Base("t"), OffsetDelta(2, "s"), RefDelta("s", "b1")>>,
    <<Base("b1"), RefDelta("x", "y"), Base("b2"), Base("s"), Base("t"), Base("c")>> }

\* With packs that lack most of the branch, or have an object twice.
LivePacks == WidePacks \cup {<<>>, <<Base("c"), Base("t")>>, <<Base("c"), Base("c")>>}

\* Every way to build the other trees and the first file from each other, as bases, offset
\* deltas and ref deltas to an earlier, a later or the same frame; then the commit
\* and the second file.
Three == <<"s", "t", "b1">>
FrameAt(i) ==
       {Base(Three[i])}
  \cup {OffsetDelta(b, Three[i]) : b \in 1 .. i - 1}
  \cup {RefDelta(o, Three[i]) : o \in {"s", "t", "b1"}}

DeltaPacks ==
  {p \o <<Base("c"), Base("b2")>> : p \in FrameAt(1) \X FrameAt(2) \X FrameAt(3)}

\* A file that is stored twice, with the other one spilled in between, or before the
\* trees of a checkout that reads it.
DoubledPacks ==
  { <<Base("b2"), Base("b1"), Base("b2"), Base("c"), Base("t"), Base("s")>>,
    <<Base("c"), Base("t"), Base("s"), Base("b1"), OffsetDelta(4, "b2"), RefDelta("b2", "b1")>> }

AllPacks == LivePacks \cup DeltaPacks \cup DoubledPacks

\* Of the files the first fits into the memory that is allowed, once.
MCSize == [o \in WideOid |-> IF o = "b2" THEN 2 ELSE 1]
=============================================================================
