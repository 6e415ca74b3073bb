---------------------------- MODULE MCPackStream ----------------------------
(***************************************************************************)
(* Packs for TLC: a byte is a number below 5 and the checksum is made of   *)
(* the sum and the number of the bytes.  The first byte of the header is   *)
(* the number of objects; an object is a few bytes of any value.           *)
(***************************************************************************)
EXTENDS PackStream, FiniteSetsExt

MCByte == 0 .. 4

Total(numbers) == FoldLeft(LAMBDA a, b : a + b, 0, numbers)

MCHash(bytes) == <<Total(bytes) % 3, Len(bytes) % 3>>

Never == 99

\* A pack of objects of the given lengths.
Body(lengths) == <<Len(lengths), 1>> \o [i \in 1 .. Total(lengths) |-> i % 3]
Ends(lengths) == [i \in DOMAIN lengths |-> HeaderLen + Total(SubSeq(lengths, 1, i))]

Good(lengths) ==
  [bytes |-> Body(lengths) \o MCHash(Body(lengths)), declared |-> Len(lengths),
   ends |-> Ends(lengths), broken |-> Never]

\* What arrives of it when the connection breaks, and with one byte more.
Cut(p, n) ==
  [p EXCEPT !.bytes = SubSeq(@, 1, n), !.ends = SelectSeq(@, LAMBDA e : e <= n)]

Longer(p) ==
  [p EXCEPT !.bytes = Append(@, 0), !.broken = Len(p.bytes) + 1]

\* A byte changed on the way, which the scanner may or may not see.
Changed(p, i) ==
  [p EXCEPT !.bytes[i] = (@ + 1) % 3]
Malformed(p, i) ==
  [p EXCEPT !.broken = i, !.ends = SelectSeq(@, LAMBDA e : e < i)]

\* A header that counts one object more, and a checksum of nothing.
Short(p) == [p EXCEPT !.declared = @ + 1]
OnlyChecksum == [bytes |-> MCHash(<<>>), declared |-> 0, ends |-> <<>>, broken |-> Never]

Whole == {Good(l) : l \in {<<>>, <<2>>, <<1, 2>>, <<1, 1, 1>>, <<2, 1, 2>>, <<1, 2, 1, 2>>,
                        <<2, 3, 4>>}}

MCPacks ==
  Whole
    \cup {Cut(Good(<<1, 2>>), n) : n \in 0 .. 6} \cup {Cut(Good(<<2, 1, 2>>), n) : n \in {5, 8}}
    \cup {Longer(p) : p \in Whole}
    \cup {Changed(Good(<<1, 2>>), i) : i \in {3, 7}}
    \cup {Malformed(Good(<<1, 1, 1>>), i) : i \in {3, 5}}
    \cup {Short(Good(<<1, 2>>)), OnlyChecksum}
=============================================================================
