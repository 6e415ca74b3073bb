--------------------------- MODULE MCPackScanner ---------------------------
(***************************************************************************)
(* Packs for TLC.  A byte is 0 .. 31: a continuation bit, a type of three  *)
(* bits and a size of one.                                                 *)
(***************************************************************************)
EXTENDS PackScanner

PackMagic == 7

Object(kind, size) == 2 * kind + size   \* a header of one byte
Long(kind, size) == Radix + Object(kind, size)

\* Objects as they should be: the stream of each inflates to the size declared.
Empty    == <<Object(3, 0), 0>>
TwoBytes == <<Long(3, 1), 2, 19, 16, 2>>                         \* 1 + 2 * 2 bytes
Large    == <<Long(1, 0), 16, 1>> \o <<19, 19, 19, 19, 19, 19, 19, 19, 19, 19, 2>>
Offset   == <<Object(6, 1), 4, 17, 0>>
FarBase  == <<Object(6, 0), 16, 1, 0>>                           \* 17 bytes back
Ref      == <<Object(7, 1), 18, 3, 1>>
Good     == {Empty, TwoBytes, Large, Offset, FarBase, Ref}

\* Objects that are not: of no type, with a stream that breaks or that inflates
\* to less or to more than declared.
Bad == {<<Object(5, 0), 0>>, <<Object(2, 1), 17, 31, 0>>, <<Object(4, 1), 15>>,
        <<Object(3, 1), 16, 0>>, <<Object(3, 1), 19, 19, 1>>}

Bodies == {<<>>} \cup {<<o>> : o \in Good \cup Bad}
          \cup {<<a, b>> : a \in Good, b \in Good \cup Bad}

PackOf(version, count, objects, trailer) ==
  <<PackMagic, version, count>> \o FlattenSeq(objects) \o trailer

\* Every body with a count that fits and ones that do not; a pack cut anywhere or
\* with a byte too many; headers that are not of a pack.
MCPacks ==
  {PackOf(2, Len(b), b, <<1, 1>>) : b \in Bodies}
    \cup {PackOf(3, n, b, <<1, 1>>) : n \in 0 .. 3, b \in {<<>>, <<Empty>>, <<Ref, Empty>>}}
    \cup UNION {Prefixes(PackOf(2, 2, b, <<1, 1, 1>>)) :
                   b \in {<<TwoBytes, Offset>>, <<Ref, Empty>>}}
    \cup {PackOf(2, 2, b, <<1, 1, 1>>) : b \in {<<Large, FarBase>>, <<Empty, TwoBytes>>}}
    \cup {PackOf(4, 1, <<Empty>>, <<1, 1>>), <<6, 2, 0, 1, 1>>}
=============================================================================
