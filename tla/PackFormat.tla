----------------------------- MODULE PackFormat -----------------------------
(***************************************************************************)
(* The format of a pack, as the parser of a pack in memory reads it:       *)
(* scan_pack and its helpers (crates/core/src/pack/mod.rs:2203-2497),      *)
(* which the tests hold the streaming scanner against.                     *)
(*                                                                         *)
(* A byte has a continuation bit and a group of bits below it.  The code's *)
(* byte has a group of 7 bits and the header of an object a size of 4 of   *)
(* them; here the widths are constants, so that a varint of two bytes fits *)
(* into a small pack.  The header of a pack is three bytes: the magic, the *)
(* version and the number of objects (twelve in the code).                 *)
(***************************************************************************)
EXTENDS Integers, Sequences, FiniteSetsExt, SequencesExt

CONSTANTS
  SizeRadix,   \* sizes in the first byte of an object header (16)
  OidLen,      \* bytes of an object id (20)
  TrailerLen,  \* bytes of the checksum after the last object (20)
  MaxObjects,  \* FCL_MAX_OBJECTS
  Magic        \* the first byte of a pack ("PACK")

HeaderLen == 3

\* The continuation bit and the group below it; a header has a type of three
\* bits between the two (128 in the code).
Radix == 8 * SizeRadix
Continues(byte) == byte >= Radix
Group(byte) == byte % Radix
KindOf(byte) == Group(byte) \div SizeRadix
SizeOf(byte) == byte % SizeRadix

ASSUME FormatAssumption ==
  /\ SizeRadix \in Nat \ {0} /\ OidLen \in Nat \ {0} /\ TrailerLen \in Nat \ {0}
  /\ MaxObjects \in Nat

BaseKinds == {1, 2, 3, 4}   \* commit, tree, blob, tag
OffsetKind == 6
RefKind == 7
Kinds == BaseKinds \cup {OffsetKind, RefKind}

\* The compressed stream of an object, of which the scanner knows only what the
\* decompressor tells it: that it ends by itself, and how much comes out.  A byte
\* inflates to a few bytes, and one that cannot be in a stream breaks it.
Inflates(byte) == Group(byte) % 4
Corrupt(byte) == Group(byte) = Radix - 1
Inflated(bytes) == FoldLeft(LAMBDA n, byte : n + Inflates(byte), 0, bytes)

-----------------------------------------------------------------------------
(***************************************************************************)
(* The pack as a whole.  An offset is the number of bytes before.          *)
(***************************************************************************)

\* The bytes between two offsets, as far as the pack has them.
Between(p, from, to) == SubSeq(p, from + 1, Min({to, Len(p)}))

\* Where the varint that starts at an offset ends; past the pack when it is cut.
VarintEnd(p, from) ==
  Min({j \in from + 1 .. Len(p) : ~Continues(p[j])} \cup {Len(p) + 1})

\* The size in an object header: the low bits first.
HeaderSize(p, start, end) ==
  SizeOf(p[start + 1])
    + SizeRadix * FoldRight(LAMBDA byte, n : Group(byte) + Radix * n,
                            Between(p, start + 1, end), 0)

\* The distance to the base of an offset delta: the high bits first, and each
\* byte but the last adds one, so that no distance has two forms.
Distance(p, start, end) ==
  FoldLeft(LAMBDA n, byte : (n + 1) * Radix + Group(byte), -1, Between(p, start, end))

Encoded(p, start, kind, from, to) ==
  CASE kind = OffsetKind -> [kind |-> kind, offset |-> start - Distance(p, from, to)]
    [] kind = RefKind    -> [kind |-> kind, oid |-> Between(p, from, to)]
    [] OTHER             -> [kind |-> kind]

\* The object that starts at an offset: header, base, compressed stream.
ObjectAt(p, start) ==
  LET header == VarintEnd(p, start)
      kind   == KindOf(p[start + 1])
      base   == CASE kind = OffsetKind -> VarintEnd(p, header)
                  [] kind = RefKind    -> header + OidLen
                  [] OTHER             -> header
      end    == VarintEnd(p, base)
  IN [valid |->
        /\ header <= Len(p) /\ kind \in Kinds /\ base <= Len(p) /\ end <= Len(p)
        /\ kind = OffsetKind => Distance(p, header, base) <= start
        /\ \A j \in base + 1 .. end : ~Corrupt(p[j])
        /\ Inflated(Between(p, base, end)) = HeaderSize(p, start, header),
      end |-> end,
      frame |->
        [offset |-> start, encoded |-> Encoded(p, start, kind, header, base),
         compressedStart |-> base, compressedLen |-> end - base,
         size |-> HeaderSize(p, start, header), crc |-> Between(p, start, end)]]

HeaderValid(p) ==
  Len(p) >= HeaderLen /\ p[1] = Magic /\ p[2] \in {2, 3} /\ p[3] <= MaxObjects

Declared(p) == p[3]

\* The objects of a pack up to the first that cannot be read.  A stream that goes
\* on into the trailer is seen only by the check of the end in Valid.
Scan(p) ==
  LET scan[i \in 0 .. Declared(p)] ==
        IF i = 0 THEN [valid |-> TRUE, end |-> HeaderLen, frames |-> <<>>]
        ELSE LET before == scan[i - 1]
                 broken == [before EXCEPT !.valid = FALSE]
             IN IF ~before.valid \/ before.end >= Len(p) THEN broken
                ELSE LET object == ObjectAt(p, before.end)
                     IN IF object.valid
                        THEN [valid |-> TRUE, end |-> object.end,
                              frames |-> Append(before.frames, object.frame)]
                        ELSE broken
  IN scan[Declared(p)]

\* A pack is read as a whole or not at all.
Valid(p) ==
  /\ HeaderValid(p)
  /\ Scan(p).valid
  /\ Scan(p).end = Len(p) - TrailerLen
=============================================================================
