-------------------------- MODULE PackStreamProofs --------------------------
(***************************************************************************)
(* Proofs about the PackStream module, for every pack, every way it is cut *)
(* into packets, every checksum function and every limit.                  *)
(***************************************************************************)
EXTENDS PackStream, SequenceTheorems, WellFoundedInduction, TLAPS

-----------------------------------------------------------------------------
(***************************************************************************)
(* Facts about packs and the frames in them.                               *)
(***************************************************************************)

\* The parts of a pack.
LEMMA PackFacts ==
  ASSUME pack \in Packs
  PROVE  /\ pack.bytes \in Seq(Byte) /\ Len(pack.bytes) \in Nat
         /\ pack.ends \in Seq(Nat) /\ Len(pack.ends) \in Nat
         /\ DOMAIN pack.ends = 1 .. Len(pack.ends)
         /\ \A i \in DOMAIN pack.ends : pack.ends[i] \in Nat
         /\ pack.declared \in Nat /\ pack.broken \in Nat
         /\ Len(pack.ends) <= pack.declared
         /\ \A i \in DOMAIN pack.ends : pack.ends[i] > HeaderLen
         /\ \A i, j \in DOMAIN pack.ends : i < j => pack.ends[i] < pack.ends[j]
<1>1. pack \in Pack
  BY StreamAssumption
<1>2. /\ pack.bytes \in Seq(Byte) /\ pack.ends \in Seq(Nat)
      /\ pack.declared \in Nat /\ pack.broken \in Nat
  BY <1>1 DEF Pack
<1> QED
  BY <1>2, StreamAssumption

\* Numbers up to a bound have a greatest.
LEMMA GreatestExists ==
  ASSUME NEW n \in Nat, NEW S \in SUBSET (0 .. n), S # {}
  PROVE  Max(S) \in S /\ \A k \in S : k <= Max(S)
<1> DEFINE Below == {ss \in Nat \X Nat : ss[1] < ss[2]}
           T == {n - k : k \in S}
<1>1. IsWellFoundedOn(Below, Nat)
  BY NatLessThanWellFounded DEF OpToRel
<1>2. T \subseteq Nat /\ T # {}
  <2>1. \A k \in S : n - k \in Nat
    OBVIOUS
  <2> QED
    BY <2>1
<1>3. PICK x \in T : \A y \in T : <<y, x>> \notin Below
  <2> HIDE DEF T, Below
  <2> QED
    BY <1>1, <1>2, WFMin
<1>4. PICK m \in S : x = n - m
  BY <1>3
<1>5. ASSUME NEW k \in S PROVE m >= k
  <2>1. n - k \in T /\ n - k \in Nat /\ x \in Nat
    BY <1>2, <1>3
  <2>2. <<n - k, x>> \notin Below
    BY <2>1, <1>3
  <2>3. ~(n - k < x)
    <3> HIDE DEF T
    <3> QED
      BY <2>1, <2>2
  <2> QED
    BY <2>3, <1>4
<1>6. \E y \in S : \A k \in S : y >= k
  BY <1>5
<1>7. Max(S) \in S /\ \A k \in S : Max(S) >= k
  BY <1>6 DEF Max
<1> QED
  BY <1>7

\* The objects that are whole in the first bytes of a pack are the first of its
\* objects: the scanner finishes them one after the other.
LEMMA LastWholeFacts ==
  ASSUME pack \in Packs, NEW n \in Nat
  PROVE  /\ LastWhole(n) \in 0 .. Len(pack.ends)
         /\ \A i \in DOMAIN pack.ends : pack.ends[i] <= n <=> i <= LastWhole(n)
<1> DEFINE Whole == {0} \cup {i \in DOMAIN pack.ends : pack.ends[i] <= n}
<1>1. Len(pack.ends) \in Nat /\ Whole \in SUBSET (0 .. Len(pack.ends)) /\ Whole # {}
  BY PackFacts
<1>2. Max(Whole) \in Whole /\ \A k \in Whole : k <= Max(Whole)
  BY <1>1, GreatestExists
<1>3. LastWhole(n) = Max(Whole)
  BY DEF LastWhole
<1> HIDE DEF Whole
<1>4. ASSUME NEW i \in DOMAIN pack.ends, pack.ends[i] <= n PROVE i <= LastWhole(n)
  BY <1>2, <1>3, <1>4 DEF Whole
<1>5. ASSUME NEW i \in DOMAIN pack.ends, i <= LastWhole(n) PROVE pack.ends[i] <= n
  <2> DEFINE m == LastWhole(n)
  <2>1. m \in Whole /\ m # 0
    BY <1>2, <1>3, <1>5, PackFacts
  <2>2. m \in DOMAIN pack.ends /\ pack.ends[m] <= n
    BY <2>1 DEF Whole
  <2>3. pack.ends[i] <= pack.ends[m]
    <3>1. i \in Nat /\ m \in Nat /\ i <= m /\ pack.ends[i] \in Nat /\ pack.ends[m] \in Nat
      BY <2>2, <1>5, PackFacts
    <3>2. \A k, l \in DOMAIN pack.ends : k < l => pack.ends[k] < pack.ends[l]
      BY PackFacts
    <3> HIDE DEF m
    <3>3. i < m => pack.ends[i] < pack.ends[m]
      BY <2>2, <3>2
    <3> QED
      BY <3>1, <3>3
  <2> QED
    BY <2>2, <2>3, PackFacts
<1> QED
  BY <1>1, <1>2, <1>3, <1>4, <1>5

\* More bytes hold no fewer objects.
LEMMA LastWholeGrows ==
  ASSUME pack \in Packs, NEW m \in Nat, NEW n \in Nat, m <= n
  PROVE  LastWhole(m) <= LastWhole(n)
<1>1. LastWhole(m) \in 0 .. Len(pack.ends) /\ LastWhole(n) \in 0 .. Len(pack.ends)
  BY LastWholeFacts
<1>2. CASE LastWhole(m) = 0
  BY <1>1, <1>2
<1>3. CASE LastWhole(m) # 0
  <2>1. LastWhole(m) \in DOMAIN pack.ends
    BY <1>1, <1>3, PackFacts
  <2>2. pack.ends[LastWhole(m)] <= m
    BY <2>1, <1>1, LastWholeFacts
  <2>3. pack.ends[LastWhole(m)] <= n
    BY <2>1, <2>2, PackFacts
  <2> QED
    BY <2>1, <2>3, LastWholeFacts
<1> QED
  BY <1>2, <1>3

\* No object is whole in nothing.
LEMMA NoneWhole ==
  ASSUME pack \in Packs
  PROVE  LastWhole(0) = 0
<1>1. 0 \in Nat /\ LastWhole(0) \in 0 .. Len(pack.ends)
  BY LastWholeFacts
<1>2. ASSUME LastWhole(0) # 0 PROVE FALSE
  <2>1. LastWhole(0) \in DOMAIN pack.ends
    BY <1>1, <1>2, PackFacts
  <2>2. pack.ends[LastWhole(0)] <= 0
    BY <1>1, <2>1, LastWholeFacts
  <2>3. pack.ends[LastWhole(0)] > HeaderLen /\ HeaderLen \in Nat /\ pack.ends[LastWhole(0)] \in Nat
    BY <2>1, PackFacts, StreamAssumption
  <2> QED
    BY <2>2, <2>3
<1> QED
  BY <1>2

\* What is completed between two places: frames of the pack that end there.
LEMMA CompletedFacts ==
  ASSUME pack \in Packs, NEW m \in Nat, NEW n \in Nat, m <= n
  PROVE  /\ Completed(m, n) \in Seq(DOMAIN pack.ends)
         /\ Len(Completed(m, n)) = LastWhole(n) - LastWhole(m)
         /\ \A k \in DOMAIN Completed(m, n) : pack.ends[Completed(m, n)[k]] <= n
<1> DEFINE a == LastWhole(m)
           b == LastWhole(n)
<1>1. a \in 0 .. Len(pack.ends) /\ b \in 0 .. Len(pack.ends) /\ a <= b
  BY LastWholeFacts, LastWholeGrows
<1>2. Len(pack.ends) \in Nat /\ DOMAIN pack.ends = 1 .. Len(pack.ends)
  BY PackFacts
<1>3. b - a \in Nat /\ \A k \in 1 .. b - a : a + k \in DOMAIN pack.ends /\ a + k <= b
  BY <1>1, <1>2
<1>4. Completed(m, n) = [k \in 1 .. b - a |-> a + k]
  BY DEF Completed
<1> HIDE DEF a, b
<1>5. Completed(m, n) \in Seq(DOMAIN pack.ends) /\ Len(Completed(m, n)) = b - a
  BY <1>3, <1>4, IsASeq
<1>6. \A k \in 1 .. b - a : pack.ends[a + k] <= n
  BY <1>3, LastWholeFacts DEF b
<1> QED
  BY <1>4, <1>5, <1>6 DEF a, b

-----------------------------------------------------------------------------
(***************************************************************************)
(* Facts about FlattenSeq: the recursion in it defines a function, and one *)
(* more sequence is put behind the others.                                 *)
(***************************************************************************)

\* f[i] is the first i sequences of q, one behind the other.
Flattens(q, f) ==
  f = [i \in 1 .. Len(q) |-> IF i = 1 THEN q[i] ELSE f[i - 1] \o q[i]]

\* Natural numbers have a least.
LEMMA LeastExists ==
  ASSUME NEW S \in SUBSET Nat, S # {}
  PROVE  \E m \in S : \A k \in S : m <= k
<1> DEFINE Below == {ss \in Nat \X Nat : ss[1] < ss[2]}
<1>1. IsWellFoundedOn(Below, Nat)
  BY NatLessThanWellFounded DEF OpToRel
<1>2. PICK m \in S : \A k \in S : <<k, m>> \notin Below
  <2> HIDE DEF Below
  <2> QED
    BY <1>1, WFMin
<1>3. \A k \in S : ~(k < m)
  BY <1>2
<1> QED
  BY <1>3

\* There is one function that flattens.
LEMMA FlattenUnique ==
  ASSUME NEW S, NEW q \in Seq(Seq(S)), NEW f, NEW g, Flattens(q, f), Flattens(q, g)
  PROVE  f = g
<1> DEFINE n == Len(q)
           D == {i \in 1 .. n : f[i] # g[i]}
<1>1. n \in Nat
  OBVIOUS
<1>2. /\ f = [i \in 1 .. n |-> IF i = 1 THEN q[i] ELSE f[i - 1] \o q[i]]
      /\ g = [i \in 1 .. n |-> IF i = 1 THEN q[i] ELSE g[i - 1] \o q[i]]
  BY DEF Flattens
<1> HIDE DEF n
<1>3. ASSUME D # {} PROVE FALSE
  <2>1. PICK m \in D : \A k \in D : m <= k
    <3>1. D \in SUBSET Nat
      BY <1>1
    <3> HIDE DEF D
    <3> QED
      BY <3>1, <1>3, LeastExists
  <2>2. m \in 1 .. n /\ f[m] # g[m]
    OBVIOUS
  <2>3. CASE m = 1
    <3>1. f[m] = q[m] /\ g[m] = q[m]
      BY <1>2, <2>2, <2>3
    <3> QED
      BY <2>2, <3>1
  <2>4. CASE m # 1
    <3>1. m - 1 \in 1 .. n /\ m - 1 < m
      BY <1>1, <2>2, <2>4
    <3>2. f[m - 1] = g[m - 1]
      BY <2>1, <3>1
    <3>3. f[m] = f[m - 1] \o q[m] /\ g[m] = g[m - 1] \o q[m]
      BY <1>2, <2>2, <2>4
    <3> QED
      BY <2>2, <3>2, <3>3
  <2> QED
    BY <2>3, <2>4
<1>4. \A i \in 1 .. n : f[i] = g[i]
  BY <1>3
<1> HIDE DEF D
<1>5. f = [i \in 1 .. n |-> f[i]] /\ g = [i \in 1 .. n |-> g[i]]
  BY <1>2
<1> QED
  BY <1>4, <1>5

\* A function that flattens some sequences is extended by one more.
LEMMA FlattenMore ==
  ASSUME NEW S, NEW q \in Seq(Seq(S)), NEW e \in Seq(S),
         NEW f \in [1 .. Len(q) -> Seq(S)], Flattens(q, f)
  PROVE  \E g \in [1 .. Len(q) + 1 -> Seq(S)] :
           /\ Flattens(Append(q, e), g)
           /\ g[Len(q) + 1] = IF q = <<>> THEN e ELSE f[Len(q)] \o e
<1> DEFINE n   == Len(q)
           all == IF q = <<>> THEN e ELSE f[Len(q)] \o e
           g   == [i \in 1 .. n + 1 |-> IF i <= n THEN f[i] ELSE all]
           more == Append(q, e)
<1>1. /\ n \in Nat /\ Len(more) = n + 1
      /\ \A i \in 1 .. n : more[i] = q[i]
      /\ more[n + 1] = e
      /\ (q = <<>> <=> n = 0)
  OBVIOUS
<1>2. \A i \in 1 .. n : f[i] = IF i = 1 THEN q[i] ELSE f[i - 1] \o q[i]
  BY DEF Flattens
<1>3. all \in Seq(S)
  <2>1. CASE q = <<>>
    BY <2>1
  <2>2. CASE q # <<>>
    <3>1. Len(q) \in 1 .. Len(q)
      BY <1>1, <2>2
    <3>2. f[Len(q)] \in Seq(S)
      BY <3>1
    <3> QED
      BY <2>2, <3>2, ConcatProperties
  <2> QED
    BY <2>1, <2>2
<1> HIDE DEF all, n, more
<1>4. g \in [1 .. n + 1 -> Seq(S)]
  BY <1>1, <1>3 DEF n
<1>5. \A i \in 1 .. n + 1 : g[i] = IF i = 1 THEN more[i] ELSE g[i - 1] \o more[i]
  <2> TAKE i \in 1 .. n + 1
  <2>1. CASE i <= n
    <3>1. i \in 1 .. n /\ g[i] = f[i] /\ more[i] = q[i]
      BY <1>1, <2>1
    <3>2. i # 1 => g[i - 1] = f[i - 1]
      BY <1>1, <2>1
    <3> QED
      BY <1>2, <3>1, <3>2
  <2>2. CASE i = n + 1
    <3>1. g[i] = all /\ more[i] = e
      BY <1>1, <2>2
    <3>2. CASE n = 0
      BY <1>1, <2>2, <3>1, <3>2 DEF all
    <3>3. CASE n # 0
      <4>1. i # 1 /\ g[i - 1] = f[n] /\ all = f[n] \o e
        BY <1>1, <2>2, <3>3 DEF all, n
      <4> QED
        BY <3>1, <4>1
    <3> QED
      BY <3>2, <3>3
  <2> QED
    BY <1>1, <2>1, <2>2
<1> HIDE DEF g
<1>6. Flattens(more, g)
  BY <1>1, <1>4, <1>5 DEF Flattens
<1>7. g[n + 1] = all
  BY <1>1 DEF g
<1>8. \E h \in [1 .. n + 1 -> Seq(S)] : Flattens(more, h) /\ h[n + 1] = all
  BY <1>4, <1>6, <1>7
<1> QED
  BY <1>8 DEF n, more, all

\* There is a function that flattens.
LEMMA FlattenExists ==
  ASSUME NEW S, NEW q \in Seq(Seq(S))
  PROVE  \E f \in [1 .. Len(q) -> Seq(S)] : Flattens(q, f)
<1> DEFINE n       == Len(q)
           First(k) == SubSeq(q, 1, k)
           Bad     == {k \in 0 .. n : ~\E f \in [1 .. Len(First(k)) -> Seq(S)] : Flattens(First(k), f)}
<1>1. n \in Nat
  OBVIOUS
<1>2. \A k \in 0 .. n : First(k) \in Seq(Seq(S)) /\ Len(First(k)) = k
  OBVIOUS
<1>3. ASSUME Bad # {} PROVE FALSE
  <2>1. Bad \in SUBSET Nat
    BY <1>1
  <2>2. PICK m \in Bad : \A k \in Bad : m <= k
    <3> HIDE DEF Bad
    <3> QED
      BY <1>3, <2>1, LeastExists
  <2>3. m \in 0 .. n
    BY <2>2
  <2>4. CASE m = 0
    <3>1. First(0) = <<>> /\ Len(First(0)) = 0
      BY <1>1, <1>2, SubSeqEmpty
    <3> DEFINE none == [i \in 1 .. 0 |-> <<>>]
    <3>2. none \in [1 .. 0 -> Seq(S)] /\ Flattens(First(0), none)
      BY <3>1 DEF Flattens
    <3> QED
      BY <2>2, <2>4, <3>1, <3>2
  <2>5. CASE m # 0
    <3>1. m - 1 \in 0 .. n /\ ~(m <= m - 1)
      BY <1>1, <2>3, <2>5
    <3>2. m - 1 \notin Bad
      BY <2>2, <3>1
    <3>3. PICK f \in [1 .. Len(First(m - 1)) -> Seq(S)] : Flattens(First(m - 1), f)
      BY <3>1, <3>2
    <3>4. q[m] \in Seq(S) /\ First(m) = Append(First(m - 1), q[m])
      BY <1>1, <2>3, <2>5
    <3>5. First(m - 1) \in Seq(Seq(S)) /\ Len(First(m - 1)) = m - 1 /\ Len(First(m)) = m
      BY <1>2, <2>3, <3>1
    <3> HIDE DEF First
    <3>6. \E g \in [1 .. Len(First(m - 1)) + 1 -> Seq(S)] :
            Flattens(Append(First(m - 1), q[m]), g)
      BY <3>3, <3>4, <3>5, FlattenMore
    <3>7. \E g \in [1 .. Len(First(m)) -> Seq(S)] : Flattens(First(m), g)
      BY <3>4, <3>5, <3>6
    <3> QED
      BY <2>2, <3>7
  <2> QED
    BY <2>4, <2>5
<1>4. \E f \in [1 .. Len(First(n)) -> Seq(S)] : Flattens(First(n), f)
  BY <1>1, <1>3
<1>5. First(n) = q
  BY SubSeqFull
<1> QED
  BY <1>4, <1>5

\* FlattenSeq is what the function that flattens ends with.
LEMMA FlattenIs ==
  ASSUME NEW S, NEW q \in Seq(Seq(S)), q # <<>>, NEW f, Flattens(q, f)
  PROVE  FlattenSeq(q) = f[Len(q)]
<1> DEFINE flatten == CHOOSE g : g = [i \in 1 .. Len(q) |-> IF i = 1 THEN q[i]
                                                             ELSE g[i - 1] \o q[i]]
<1>1. FlattenSeq(q) = flatten[Len(q)]
  BY DEF FlattenSeq
<1>2. Flattens(q, flatten)
  <2>1. \E g : g = [i \in 1 .. Len(q) |-> IF i = 1 THEN q[i] ELSE g[i - 1] \o q[i]]
    BY DEF Flattens
  <2> QED
    BY <2>1 DEF Flattens
<1>3. flatten = f
  <2> HIDE DEF flatten
  <2> QED
    BY <1>2, FlattenUnique
<1> QED
  BY <1>1, <1>3

\* Flattening one sequence more puts it behind what there is.
LEMMA FlattenAppend ==
  ASSUME NEW S, NEW q \in Seq(Seq(S)), NEW e \in Seq(S)
  PROVE  /\ FlattenSeq(q) \in Seq(S)
         /\ FlattenSeq(Append(q, e)) = FlattenSeq(q) \o e
<1> DEFINE n == Len(q)
<1>1. PICK f \in [1 .. n -> Seq(S)] : Flattens(q, f)
  BY FlattenExists
<1> DEFINE all == IF q = <<>> THEN e ELSE f[n] \o e
<1>2. PICK g \in [1 .. n + 1 -> Seq(S)] : Flattens(Append(q, e), g) /\ g[n + 1] = all
  BY <1>1, FlattenMore
<1>3. /\ n \in Nat /\ Append(q, e) \in Seq(Seq(S)) /\ Len(Append(q, e)) = n + 1
      /\ (q = <<>> <=> n = 0) /\ Append(q, e) # <<>>
  BY AppendProperties
<1>4. FlattenSeq(Append(q, e)) = g[n + 1]
  BY <1>2, <1>3, FlattenIs
<1>5. g[n + 1] = all
  BY <1>2
<1>6. CASE q = <<>>
  <2>1. FlattenSeq(q) = <<>>
    BY <1>3, <1>6 DEF FlattenSeq
  <2>2. <<>> \o e = e /\ <<>> \in Seq(S)
    BY ConcatEmptySeq
  <2> QED
    BY <1>4, <1>5, <1>6, <2>1, <2>2
<1>7. CASE q # <<>>
  <2>1. FlattenSeq(q) = f[n]
    BY <1>1, <1>7, FlattenIs
  <2>2. f[n] \in Seq(S)
    <3>1. n \in 1 .. n
      BY <1>3, <1>7
    <3> QED
      BY <3>1
  <2> QED
    BY <1>4, <1>5, <1>7, <2>1, <2>2
<1> QED
  BY <1>6, <1>7

-----------------------------------------------------------------------------
(***************************************************************************)
(* The inductive invariant.                                                *)
(***************************************************************************)

Pcs == {"requesting", "creating", "reading", "scanning", "sending", "checking", "flushing",
        "completing", "lastFlush", "ok", "err"}

FrameLists == Seq(DOMAIN pack.ends)
StreamEvents == [type : {"Frames", "Finished"}, frames : FrameLists]

StreamTypeOK ==
  /\ mode \in Modes /\ pack \in Packs /\ healthy \in BOOLEAN /\ receiver \in BOOLEAN
  /\ pc \in Pcs
  /\ received \in 0 .. Len(pack.bytes) /\ flushed \in 0 .. received /\ scanned \in 0 .. received
  /\ batch \in FrameLists /\ events \in Seq(StreamEvents)

\* How far the scanner is: it has seen what is received, without offence, except for
\* the payload it is given next.
ScannerInv ==
  /\ pc # "err" => received <= Limit
  /\ pc \in {"scanning", "sending"} => mode # "stored"
  /\ pc \in {"sending", "completing", "lastFlush"} => mode = "pipelined"
  /\ (mode # "stored" /\ pc \notin {"scanning", "err"}) =>
        /\ scanned = received
        /\ received < pack.broken \/ received = 0

\* What is known of the pack when the response has ended, when it is checked and when
\* it is flushed.
EndInv ==
  /\ pc \in {"checking", "flushing", "completing", "lastFlush", "ok"} =>
        received = Len(pack.bytes)
  /\ pc \in {"flushing", "completing", "lastFlush", "ok"} =>
        /\ Intact
        /\ mode # "stored" => WellFormed
  /\ pc \in {"completing", "lastFlush", "ok"} => flushed = Len(pack.bytes)

\* What the resolver has been told.
ToldInv ==
  /\ pc = "sending" => \A k \in DOMAIN batch : pack.ends[batch[k]] <= Limit
  /\ FramesWithinLimit
  /\ FinishedSent => /\ pc \in {"lastFlush", "ok", "err"}
                     /\ flushed = Len(pack.bytes) /\ received = Len(pack.bytes)
                     /\ Intact /\ WellFormed

\* Without a failure the resolver listens.
HealthInv ==
  /\ (healthy /\ mode = "pipelined") => receiver
  /\ HealthyPackAccepted

StreamInv == StreamTypeOK /\ ScannerInv /\ EndInv /\ ToldInv /\ HealthInv

\* The frames that have been sent, and the ones found but not sent yet.
SentInv ==
  /\ mode # "pipelined" => events = <<>>
  /\ (mode = "pipelined" /\ pc \notin {"sending", "err"}) => Sent = Stream!FirstFrames(LastWhole(scanned))
  /\ pc = "sending" =>
       \E n \in 0 .. LastWhole(scanned) - 1 :
         Sent = Stream!FirstFrames(n) /\ batch = [k \in 1 .. LastWhole(scanned) - n |-> n + k]

-----------------------------------------------------------------------------
\* Nothing here depends on anything but the pack, which never changes.
LEMMA PackStays ==
  ASSUME pack' = pack
  PROVE  /\ Intact' = Intact /\ WellFormed' = WellFormed /\ FrameLists' = FrameLists
         /\ StreamEvents' = StreamEvents
BY DEF Intact, WellFormed, BodyEnd, FrameLists, StreamEvents

\* A pack of at least a header and a trailer that the client finds right is right,
\* and the other way round.
LEMMA CheckFacts ==
  ASSUME StreamTypeOK, received = Len(pack.bytes)
  PROVE  /\ ChecksumValid <=> Intact
         /\ (ScanFinishes /\ received < pack.broken) => WellFormed
         /\ (WellFormed /\ received >= HeaderLen) => ScanFinishes
         /\ Intact => (received > 0 /\ received >= HeaderLen)
<1> DEFINE n == Len(pack.bytes)
           m == LastWhole(n)
           ends == pack.ends
<1>1. /\ n \in Nat /\ HeaderLen \in Nat /\ TrailerLen \in Nat \ {0}
      /\ pack.bytes \in Seq(Byte) /\ ends \in Seq(Nat) /\ Len(ends) \in Nat
      /\ DOMAIN ends = 1 .. Len(ends)
      /\ pack.declared \in Nat /\ pack.broken \in Nat /\ Len(ends) <= pack.declared
      /\ pack \in Packs
  BY PackFacts, StreamAssumption DEF StreamTypeOK
<1>2. Bytes = pack.bytes
  BY <1>1, SubSeqFull DEF Bytes
<1>3. ChecksumValid <=> Intact
  <2> DEFINE body == n - TrailerLen
             Right == SubSeq(pack.bytes, body + 1, n) = Hash(SubSeq(pack.bytes, 1, body))
  <2>1. Intact <=> body >= HeaderLen /\ Right
    BY DEF Intact
  <2>2. received - TrailerLen = body /\ received = n
    OBVIOUS
  <2>3. ChecksumValid <=> received >= TrailerLen /\ received >= HeaderLen + TrailerLen /\ Right
    BY <1>2, <2>2 DEF ChecksumValid
  <2>4. body >= HeaderLen <=> n >= TrailerLen /\ n >= HeaderLen + TrailerLen
    BY <1>1
  <2> QED
    BY <2>1, <2>2, <2>3, <2>4
<1>4. m \in 0 .. Len(ends) /\ \A i \in DOMAIN ends : ends[i] <= n <=> i <= m
  BY <1>1, LastWholeFacts
<1>5. Len(Completed(0, n)) = m
  <2>1. 0 \in Nat /\ 0 <= n
    BY <1>1
  <2>2. Len(Completed(0, n)) = m - LastWhole(0)
    BY <1>1, <2>1, CompletedFacts
  <2> QED
    BY <1>1, <1>4, <2>2, NoneWhole
<1> HIDE DEF m
<1>6. ASSUME ScanFinishes, received < pack.broken PROVE WellFormed
  <2>1. m = pack.declared /\ n = BodyEnd + TrailerLen
    BY <1>5, <1>6 DEF ScanFinishes
  <2>2. Len(ends) = pack.declared
    BY <1>1, <1>4, <2>1
  <2> QED
    BY <1>1, <1>6, <2>1, <2>2 DEF WellFormed
<1>7. ASSUME WellFormed, received >= HeaderLen PROVE ScanFinishes
  <2>1. Len(ends) = pack.declared /\ BodyEnd + TrailerLen = n
    BY <1>7 DEF WellFormed
  <2>2. m = Len(ends)
    <3>1. CASE ends = <<>>
      BY <1>1, <1>4, <3>1
    <3>2. CASE ends # <<>>
      <4>1. Len(ends) \in DOMAIN ends /\ BodyEnd = ends[Len(ends)]
        BY <1>1, <3>2 DEF BodyEnd, Last
      <4>2. ends[Len(ends)] \in Nat /\ ends[Len(ends)] <= n
        BY <1>1, <2>1, <4>1
      <4> QED
        BY <1>1, <1>4, <4>1, <4>2
    <3> QED
      BY <3>1, <3>2
  <2> QED
    BY <1>5, <1>7, <2>1, <2>2 DEF ScanFinishes
<1>8. Intact => (received > 0 /\ received >= HeaderLen)
  BY <1>1 DEF Intact
<1> QED
  BY <1>3, <1>6, <1>7, <1>8

\* Nothing is received at first.
LEMMA StreamInit == Init => StreamInv
<1> SUFFICES ASSUME Init
             PROVE  StreamInv
  OBVIOUS
<1>1. pack \in Packs /\ Len(pack.bytes) \in Nat /\ Limit \in Nat
  BY PackFacts, StreamAssumption DEF Init
<1>2. StreamTypeOK
  BY <1>1 DEF Init, StreamTypeOK, Pcs, FrameLists, StreamEvents
<1>3. ScannerInv /\ EndInv
  BY <1>1 DEF Init, ScannerInv, EndInv
<1>4. ToldInv
  BY <1>1 DEF Init, ToldInv, FramesWithinLimit, FinishedSent
<1>5. HealthInv
  BY <1>1 DEF Init, HealthInv, HealthyPackAccepted
<1> QED
  BY <1>2, <1>3, <1>4, <1>5 DEF StreamInv

\* A step that receives, scans, sends and flushes nothing.
LEMMA QuietStep ==
  ASSUME StreamInv, UNCHANGED <<mode, pack, healthy, streamVars, receiver>>,
         Retry \/ RequestFails \/ Respond \/ CreateFile \/ ReceiveFails \/ EndOfResponse
           \/ CheckPack \/ (\E from \in {"flushing", "lastFlush"} : FlushFails(from))
  PROVE  StreamInv'
<1>1. /\ pack \in Packs /\ Len(pack.bytes) \in Nat /\ Limit \in Nat
      /\ StreamTypeOK /\ ScannerInv /\ EndInv /\ ToldInv /\ HealthInv
  BY PackFacts, StreamAssumption DEF StreamInv, StreamTypeOK
<1>2. /\ UNCHANGED <<mode, pack, healthy, receiver, received, flushed, scanned, batch, events>>
      /\ UNCHANGED <<Intact, WellFormed, FrameLists, StreamEvents, FramesWithinLimit, FinishedSent>>
  BY PackStays DEF streamVars, FramesWithinLimit, FinishedSent
<1>3. StreamTypeOK'
  BY <1>1, <1>2 DEF Retry, RequestFails, Respond, CreateFile, ReceiveFails, EndOfResponse,
                    CheckPack, FlushFails, Goes, StreamTypeOK, Pcs
<1>4. ScannerInv'
  BY <1>1, <1>2 DEF Retry, RequestFails, Respond, CreateFile, ReceiveFails, EndOfResponse,
                    CheckPack, FlushFails, Goes, ScannerInv
<1>5. EndInv'
  <2>1. CASE CheckPack
    <3>1. pc = "checking" /\ received = Len(pack.bytes) /\ pc' \in {"flushing", "err"}
      BY <1>1, <2>1 DEF CheckPack, Goes, EndInv
    <3>2. CASE pc' = "flushing"
      <4>1. ChecksumValid /\ (mode = "stored" \/ ScanFinishes)
        BY <2>1, <3>2 DEF CheckPack, Goes
      <4>2. Intact /\ received > 0
        BY <1>1, <3>1, <4>1, CheckFacts
      <4>3. mode # "stored" => received < pack.broken
        BY <1>1, <3>1, <4>2 DEF ScannerInv
      <4>4. mode # "stored" => WellFormed
        BY <1>1, <3>1, <4>1, <4>3, CheckFacts
      <4> QED
        BY <1>2, <3>1, <3>2, <4>2, <4>4 DEF EndInv
    <3>3. CASE pc' = "err"
      BY <3>3 DEF EndInv
    <3> QED
      BY <3>1, <3>2, <3>3
  <2>2. CASE ~CheckPack
    BY <1>1, <1>2, <2>2 DEF Retry, RequestFails, Respond, CreateFile, ReceiveFails,
                            EndOfResponse, FlushFails, Goes, EndInv
  <2> QED
    BY <2>1, <2>2
<1>6. ToldInv'
  BY <1>1, <1>2 DEF Retry, RequestFails, Respond, CreateFile, ReceiveFails, EndOfResponse,
                    CheckPack, FlushFails, Goes, ToldInv
<1>7. HealthInv'
  <2>1. CASE CheckPack
    <3> SUFFICES ASSUME Intact, WellFormed PROVE pc' # "err"
      BY <1>1, <1>2 DEF HealthInv, HealthyPackAccepted
    <3>1. received = Len(pack.bytes)
      BY <1>1, <2>1 DEF CheckPack, Goes, EndInv
    <3>2. ChecksumValid /\ ScanFinishes
      BY <1>1, <3>1, CheckFacts
    <3> QED
      BY <2>1, <3>2 DEF CheckPack, Goes
  <2>2. CASE ~CheckPack
    BY <1>1, <1>2, <2>2 DEF Retry, RequestFails, Respond, CreateFile, ReceiveFails,
                            EndOfResponse, FlushFails, Goes, HealthInv, HealthyPackAccepted
  <2> QED
    BY <2>1, <2>2
<1> QED
  BY <1>3, <1>4, <1>5, <1>6, <1>7 DEF StreamInv

\* A payload is written, counted and handed to the scanner.
LEMMA PayloadStep == StreamInv /\ ReceivePayload => StreamInv'
<1> SUFFICES ASSUME StreamInv, ReceivePayload
             PROVE  StreamInv'
  OBVIOUS
<1>1. /\ pack \in Packs /\ Len(pack.bytes) \in Nat /\ Limit \in Nat
      /\ StreamTypeOK /\ ScannerInv /\ EndInv /\ ToldInv /\ HealthInv
  BY PackFacts, StreamAssumption DEF StreamInv, StreamTypeOK
<1>2. PICK n \in 1 .. Len(pack.bytes) - received :
        /\ pc = "reading"
        /\ pc' = IF ~WithinLimit(received + n) THEN "err"
                 ELSE IF mode = "stored" THEN "reading" ELSE "scanning"
        /\ received' = received + n
        /\ flushed' \in Buffered(n)
  BY DEF ReceivePayload, Goes, AfterPayload
<1>3. /\ UNCHANGED <<mode, pack, healthy, receiver, scanned, batch, events>>
      /\ UNCHANGED <<Intact, WellFormed, FrameLists, StreamEvents, FramesWithinLimit, FinishedSent>>
  BY PackStays DEF ReceivePayload, Goes, FramesWithinLimit, FinishedSent
<1>4. /\ received \in 0 .. Len(pack.bytes) /\ flushed \in 0 .. received
      /\ scanned \in 0 .. received /\ mode \in Modes
  BY <1>1 DEF StreamTypeOK
<1>5. pc' \in {"err", "reading", "scanning"}
  BY <1>2
<1>6. pc' # "err" => received' <= Limit
  <2>1. ~WithinLimit(received + n) => pc' = "err"
    BY <1>2
  <2> QED
    BY <1>2, <2>1 DEF WithinLimit
<1>7. StreamTypeOK'
  BY <1>1, <1>2, <1>3, <1>4, <1>5 DEF StreamTypeOK, Pcs, Buffered
<1>8. ScannerInv' /\ EndInv'
  BY <1>2, <1>3, <1>5, <1>6 DEF ScannerInv, EndInv
<1>9. ToldInv'
  BY <1>1, <1>2, <1>3, <1>5 DEF ToldInv
<1>10. HealthInv'
  BY <1>1, <1>2, <1>3, <1>4 DEF HealthInv, HealthyPackAccepted, WithinLimit
<1> QED
  BY <1>7, <1>8, <1>9, <1>10 DEF StreamInv

\* The scanner is fed.
LEMMA ScanStep == StreamInv /\ Scan => StreamInv'
<1> SUFFICES ASSUME StreamInv, Scan
             PROVE  StreamInv'
  OBVIOUS
<1>1. /\ pack \in Packs /\ Len(pack.bytes) \in Nat /\ Limit \in Nat /\ pack.broken \in Nat
      /\ StreamTypeOK /\ ScannerInv /\ EndInv /\ ToldInv /\ HealthInv
  BY PackFacts, StreamAssumption DEF StreamInv, StreamTypeOK
<1>2. /\ pc = "scanning"
      /\ pc' = IF received >= pack.broken THEN "err"
               ELSE IF mode = "pipelined" /\ Completed(scanned, received) # <<>> THEN "sending"
               ELSE "reading"
      /\ scanned' = received
      /\ batch' = IF received >= pack.broken THEN <<>> ELSE Completed(scanned, received)
  BY DEF Scan, Goes
<1>3. /\ UNCHANGED <<mode, pack, healthy, receiver, received, flushed, events>>
      /\ UNCHANGED <<Intact, WellFormed, FrameLists, StreamEvents, FramesWithinLimit, FinishedSent>>
  BY PackStays DEF Scan, Goes, FramesWithinLimit, FinishedSent
<1>4. /\ received \in 0 .. Len(pack.bytes) /\ scanned \in 0 .. received
      /\ received <= Limit /\ mode # "stored"
  BY <1>1, <1>2 DEF StreamTypeOK, ScannerInv
<1>5. pc' \in {"err", "reading", "sending"} /\ (pc' = "sending" => mode = "pipelined")
  BY <1>2
<1>6. /\ Completed(scanned, received) \in FrameLists
      /\ \A k \in DOMAIN Completed(scanned, received) :
           pack.ends[Completed(scanned, received)[k]] <= received
  <2>1. scanned \in Nat /\ received \in Nat /\ scanned <= received
    BY <1>1, <1>4
  <2> QED
    BY <1>1, <2>1, CompletedFacts DEF FrameLists
<1>7. batch' \in FrameLists /\ \A k \in DOMAIN batch' : pack.ends[batch'[k]] <= Limit
  <2>1. CASE received >= pack.broken
    <3>1. batch' = <<>> /\ DOMAIN batch' = {}
      BY <1>2, <2>1
    <3>2. batch' \in FrameLists
      BY <3>1 DEF FrameLists
    <3> QED
      BY <3>1, <3>2
  <2>2. CASE ~(received >= pack.broken)
    <3>1. batch' = Completed(scanned, received)
      BY <1>2, <2>2
    <3>2. \A k \in DOMAIN batch' : batch'[k] \in DOMAIN pack.ends
      BY <1>6, <3>1 DEF FrameLists
    <3>3. \A k \in DOMAIN batch' : pack.ends[batch'[k]] \in Nat
      BY <1>1, <3>2, PackFacts
    <3> QED
      BY <1>1, <1>4, <1>6, <3>1, <3>3
  <2> QED
    BY <2>1, <2>2
<1>8. StreamTypeOK'
  BY <1>1, <1>2, <1>3, <1>4, <1>5, <1>7 DEF StreamTypeOK, Pcs
<1>9. ScannerInv' /\ EndInv'
  BY <1>1, <1>2, <1>3, <1>4, <1>5 DEF ScannerInv, EndInv
<1>10. ToldInv'
  BY <1>1, <1>2, <1>3, <1>5, <1>7 DEF ToldInv
<1>11. HealthInv'
  BY <1>1, <1>2, <1>3, <1>4 DEF HealthInv, HealthyPackAccepted, WellFormed
<1> QED
  BY <1>8, <1>9, <1>10, <1>11 DEF StreamInv

\* The frames are sent, or the resolver does not listen any more.
LEMMA SendStep == StreamInv /\ SendFrames => StreamInv'
<1> SUFFICES ASSUME StreamInv, SendFrames
             PROVE  StreamInv'
  OBVIOUS
<1>1. StreamTypeOK /\ ScannerInv /\ EndInv /\ ToldInv /\ HealthInv
  BY DEF StreamInv
<1>2. /\ pc = "sending"
      /\ \/ receiver /\ pc' = "reading" /\ events' = Append(events, FramesEvent(batch))
         \/ ~receiver /\ pc' = "err" /\ events' = events
  BY DEF SendFrames, Send, Goes
<1>3. /\ UNCHANGED <<mode, pack, healthy, receiver, received, flushed, scanned, batch>>
      /\ UNCHANGED <<Intact, WellFormed, FrameLists, StreamEvents>>
  BY PackStays DEF SendFrames, Send, Goes
<1>4. batch \in FrameLists /\ events \in Seq(StreamEvents)
  BY <1>1 DEF StreamTypeOK
<1>5. FramesEvent(batch) \in StreamEvents
  BY <1>4 DEF FramesEvent, StreamEvents
<1>6. /\ events' \in Seq(StreamEvents)
      /\ \A i \in DOMAIN events' : \/ i \in DOMAIN events /\ events'[i] = events[i]
                                   \/ events'[i] = FramesEvent(batch)
  BY <1>2, <1>4, <1>5
<1>7. StreamTypeOK'
  BY <1>1, <1>2, <1>3, <1>6 DEF StreamTypeOK, Pcs
<1>8. ScannerInv' /\ EndInv'
  BY <1>1, <1>2, <1>3 DEF ScannerInv, EndInv
<1>9. FinishedSent' => FinishedSent
  BY <1>6 DEF FinishedSent, FramesEvent
<1>10. FramesWithinLimit'
  <2> SUFFICES ASSUME NEW i \in DOMAIN events', NEW j \in DOMAIN events'[i].frames
               PROVE  pack.ends[events'[i].frames[j]] <= Limit
    BY <1>3 DEF FramesWithinLimit
  <2>1. CASE i \in DOMAIN events /\ events'[i] = events[i]
    BY <1>1, <2>1 DEF ToldInv, FramesWithinLimit
  <2>2. CASE events'[i] = FramesEvent(batch)
    BY <1>1, <1>2, <2>2 DEF ToldInv, FramesEvent
  <2> QED
    BY <1>6, <2>1, <2>2
<1>11. ToldInv'
  <2>1. ~FinishedSent
    BY <1>1, <1>2 DEF ToldInv
  <2>2. pc' # "sending"
    BY <1>2
  <2> QED
    BY <1>9, <1>10, <2>1, <2>2 DEF ToldInv
<1>12. HealthInv'
  BY <1>1, <1>2, <1>3 DEF HealthInv, HealthyPackAccepted, ScannerInv
<1> QED
  BY <1>7, <1>8, <1>11, <1>12 DEF StreamInv

\* The file is flushed.
LEMMA FlushStep ==
  ASSUME StreamInv, NEW from \in {"flushing", "lastFlush"}, Flush(from)
  PROVE  StreamInv'
<1>1. StreamTypeOK /\ ScannerInv /\ EndInv /\ ToldInv /\ HealthInv
  BY DEF StreamInv
<1>2. /\ pc = from /\ flushed' = received
      /\ pc' = IF from = "flushing" /\ mode = "pipelined" THEN "completing" ELSE "ok"
  BY DEF Flush, Goes, AfterFlush
<1>3. /\ UNCHANGED <<mode, pack, healthy, receiver, received, scanned, batch, events>>
      /\ UNCHANGED <<Intact, WellFormed, FrameLists, StreamEvents, FramesWithinLimit, FinishedSent>>
  BY PackStays DEF Flush, Goes, FramesWithinLimit, FinishedSent
<1>4. received = Len(pack.bytes) /\ received \in Nat
  BY <1>1, <1>2, PackFacts DEF EndInv, StreamTypeOK
<1>5. StreamTypeOK'
  BY <1>1, <1>2, <1>3, <1>4 DEF StreamTypeOK, Pcs
<1>6. ScannerInv' /\ EndInv'
  BY <1>1, <1>2, <1>3, <1>4 DEF ScannerInv, EndInv
<1>7. ToldInv'
  BY <1>1, <1>2, <1>3, <1>4 DEF ToldInv
<1>8. HealthInv'
  BY <1>1, <1>2, <1>3 DEF HealthInv, HealthyPackAccepted
<1> QED
  BY <1>5, <1>6, <1>7, <1>8 DEF StreamInv

\* Finished is sent, or the resolver does not listen any more.
LEMMA FinishStep == StreamInv /\ SendFinished => StreamInv'
<1> SUFFICES ASSUME StreamInv, SendFinished
             PROVE  StreamInv'
  OBVIOUS
<1>1. StreamTypeOK /\ ScannerInv /\ EndInv /\ ToldInv /\ HealthInv
  BY DEF StreamInv
<1>2. /\ pc = "completing"
      /\ \/ receiver /\ pc' = "lastFlush" /\ events' = Append(events, FinishedEvent)
         \/ ~receiver /\ pc' = "err" /\ events' = events
  BY DEF SendFinished, Send, Goes
<1>3. /\ UNCHANGED <<mode, pack, healthy, receiver, received, flushed, scanned, batch>>
      /\ UNCHANGED <<Intact, WellFormed, FrameLists, StreamEvents>>
  BY PackStays DEF SendFinished, Send, Goes
<1>4. events \in Seq(StreamEvents)
  BY <1>1 DEF StreamTypeOK
<1>5. FinishedEvent \in StreamEvents /\ FinishedEvent.frames = <<>>
  BY DEF FinishedEvent, StreamEvents, FrameLists
<1>6. /\ events' \in Seq(StreamEvents)
      /\ \A i \in DOMAIN events' : \/ i \in DOMAIN events /\ events'[i] = events[i]
                                   \/ events'[i] = FinishedEvent
  BY <1>2, <1>4, <1>5
<1>7. StreamTypeOK'
  BY <1>1, <1>2, <1>3, <1>6 DEF StreamTypeOK, Pcs
<1>8. ScannerInv' /\ EndInv'
  BY <1>1, <1>2, <1>3 DEF ScannerInv, EndInv
<1>9. FramesWithinLimit'
  <2> SUFFICES ASSUME NEW i \in DOMAIN events', NEW j \in DOMAIN events'[i].frames
               PROVE  pack.ends[events'[i].frames[j]] <= Limit
    BY <1>3 DEF FramesWithinLimit
  <2>1. CASE i \in DOMAIN events /\ events'[i] = events[i]
    BY <1>1, <2>1 DEF ToldInv, FramesWithinLimit
  <2>2. CASE events'[i] = FinishedEvent
    BY <1>5, <2>2
  <2> QED
    BY <1>6, <2>1, <2>2
<1>10. ToldInv'
  <2>1. flushed = Len(pack.bytes) /\ received = Len(pack.bytes) /\ Intact /\ WellFormed
    BY <1>1, <1>2 DEF EndInv, ScannerInv
  <2> QED
    BY <1>2, <1>3, <1>9, <2>1 DEF ToldInv
<1>11. HealthInv'
  BY <1>1, <1>2, <1>3 DEF HealthInv, HealthyPackAccepted, ScannerInv
<1> QED
  BY <1>7, <1>8, <1>10, <1>11 DEF StreamInv

\* The resolver goes away, or nothing happens.
LEMMA OtherStep == StreamInv /\ (ReceiverGone \/ UNCHANGED vars) => StreamInv'
<1> SUFFICES ASSUME StreamInv, ReceiverGone \/ UNCHANGED vars
             PROVE  StreamInv'
  OBVIOUS
<1>1. /\ UNCHANGED <<mode, pack, healthy, pc, received, flushed, scanned, batch, events>>
      /\ (receiver' = receiver) \/ (receiver' = FALSE /\ ~healthy)
  BY DEF ReceiverGone, streamVars, vars
<1>2. UNCHANGED <<Intact, WellFormed, FrameLists, StreamEvents, FramesWithinLimit, FinishedSent>>
  BY <1>1, PackStays DEF FramesWithinLimit, FinishedSent
<1>3. StreamTypeOK'
  BY <1>1, <1>2 DEF StreamInv, StreamTypeOK
<1>4. ScannerInv' /\ EndInv'
  BY <1>1, <1>2 DEF StreamInv, ScannerInv, EndInv
<1>5. ToldInv'
  BY <1>1, <1>2 DEF StreamInv, ToldInv
<1>6. HealthInv'
  BY <1>1, <1>2 DEF StreamInv, HealthInv, HealthyPackAccepted
<1> QED
  BY <1>3, <1>4, <1>5, <1>6 DEF StreamInv

\* Every step of the fetch keeps the invariant.
LEMMA StreamStep == StreamInv /\ [Next]_vars => StreamInv'
<1> SUFFICES ASSUME StreamInv, [Next]_vars
             PROVE  StreamInv'
  OBVIOUS
<1>1. CASE Retry \/ RequestFails \/ Respond \/ CreateFile \/ ReceiveFails \/ EndOfResponse
             \/ CheckPack \/ (\E from \in {"flushing", "lastFlush"} : FlushFails(from))
  <2>1. UNCHANGED <<mode, pack, healthy, streamVars, receiver>>
    BY <1>1 DEF Retry, RequestFails, Respond, CreateFile, ReceiveFails, EndOfResponse,
                CheckPack, FlushFails, Goes
  <2> QED
    BY <1>1, <2>1, QuietStep
<1>2. CASE ReceivePayload
  BY <1>2, PayloadStep
<1>3. CASE Scan
  BY <1>3, ScanStep
<1>4. CASE SendFrames
  BY <1>4, SendStep
<1>5. CASE \E from \in {"flushing", "lastFlush"} : Flush(from)
  BY <1>5, FlushStep
<1>6. CASE SendFinished
  BY <1>6, FinishStep
<1>7. CASE ReceiverGone \/ UNCHANGED vars
  BY <1>7, OtherStep
<1> QED
  BY <1>1, <1>2, <1>3, <1>4, <1>5, <1>6, <1>7 DEF Next, Client, FlushFile, Done

\* It holds of every fetch.
LEMMA StreamInvariant == Spec => []StreamInv
BY StreamInit, StreamStep, PTL DEF Spec

\* A fetch that succeeds has the whole response in the pack file, not only in the
\* buffer, and it is a pack, within the limit.
THEOREM AcceptedCorrect == Spec => []AcceptedPackIsWhole
<1>1. StreamInv => AcceptedPackIsWhole
  BY DEF StreamInv, AcceptedPackIsWhole, ScannerInv, EndInv
<1> QED
  BY <1>1, StreamInvariant, PTL

\* When the resolver is told that the pack is finished, the pack is right and on disk.
THEOREM FinishedCorrect == Spec => []FinishedIsTrue
<1>1. StreamInv => FinishedIsTrue
  BY DEF StreamInv, FinishedIsTrue, ToldInv
<1> QED
  BY <1>1, StreamInvariant, PTL

\* No object that ends behind FCL_MAX_PACK_BYTES reaches the resolver.
THEOREM FramesLimited == Spec => []FramesWithinLimit
<1>1. StreamInv => FramesWithinLimit
  BY DEF StreamInv, ToldInv
<1> QED
  BY <1>1, StreamInvariant, PTL

\* A pack that is whole and not too large is not refused as long as nothing fails.
THEOREM HealthyCorrect == Spec => []HealthyPackAccepted
<1>1. StreamInv => HealthyPackAccepted
  BY DEF StreamInv, HealthInv
<1> QED
  BY <1>1, StreamInvariant, PTL

-----------------------------------------------------------------------------
(***************************************************************************)
(* The frames that are sent.                                               *)
(***************************************************************************)

\* An event more: its frames come behind those that were sent.
LEMMA SentGrows ==
  ASSUME StreamTypeOK, NEW e \in StreamEvents, events' = Append(events, e)
  PROVE  Sent \in FrameLists /\ Sent' = Sent \o e.frames
<1> DEFINE lists == [i \in DOMAIN events |-> events[i].frames]
           more  == [i \in DOMAIN events' |-> events'[i].frames]
<1>1. events \in Seq(StreamEvents) /\ \A i \in DOMAIN events : events[i].frames \in FrameLists
  <2>1. events \in Seq(StreamEvents)
    BY DEF StreamTypeOK
  <2>2. \A i \in DOMAIN events : events[i] \in StreamEvents
    BY <2>1
  <2>3. \A d \in StreamEvents : d.frames \in FrameLists
    BY DEF StreamEvents
  <2> QED
    BY <2>1, <2>2, <2>3
<1>2. e.frames \in FrameLists
  BY DEF StreamEvents
<1>3. Len(events) \in Nat /\ DOMAIN events = 1 .. Len(events)
  BY <1>1
<1>4. lists \in Seq(FrameLists) /\ Len(lists) = Len(events)
  <2>1. \A i \in 1 .. Len(events) : events[i].frames \in FrameLists
    BY <1>1, <1>3
  <2> HIDE DEF FrameLists
  <2> QED
    BY <1>3, <2>1, IsASeq
<1>5. more = Append(lists, e.frames)
  <2>1. /\ DOMAIN events' = 1 .. Len(events) + 1
        /\ \A i \in DOMAIN events : events'[i] = events[i]
        /\ events'[Len(events) + 1] = e
    BY <1>1, <1>3
  <2>2. /\ Append(lists, e.frames) \in Seq(FrameLists)
        /\ Len(Append(lists, e.frames)) = Len(lists) + 1
        /\ \A i \in 1 .. Len(lists) : Append(lists, e.frames)[i] = lists[i]
        /\ Append(lists, e.frames)[Len(lists) + 1] = e.frames
    <3> HIDE DEF lists
    <3> QED
      BY <1>2, <1>4, AppendProperties
  <2>3. DOMAIN Append(lists, e.frames) = 1 .. Len(events) + 1
    BY <1>4, <2>2
  <2>4. \A i \in 1 .. Len(events) + 1 : Append(lists, e.frames)[i] = events'[i].frames
    BY <1>3, <1>4, <2>1, <2>2
  <2> HIDE DEF lists
  <2>5. Append(lists, e.frames) = [i \in 1 .. Len(events) + 1 |-> Append(lists, e.frames)[i]]
    BY <2>2, <2>3
  <2> QED
    BY <2>1, <2>4, <2>5
<1>6. /\ FlattenSeq(lists) \in FrameLists
      /\ FlattenSeq(Append(lists, e.frames)) = FlattenSeq(lists) \o e.frames
  <2> HIDE DEF lists
  <2> QED
    BY <1>2, <1>4, FlattenAppend DEF FrameLists
<1> QED
  BY <1>5, <1>6 DEF Sent

\* Some first frames with the next ones behind them are the first frames.
LEMMA FirstFramesMore ==
  ASSUME NEW m \in Nat, NEW n \in Nat, m <= n
  PROVE  Stream!FirstFrames(m) \o [k \in 1 .. n - m |-> m + k] = Stream!FirstFrames(n)
<1> DEFINE first == [i \in 1 .. m |-> i]
           next  == [k \in 1 .. n - m |-> m + k]
           all   == [i \in 1 .. n |-> i]
<1>1. first \in Seq(Nat) /\ Len(first) = m
  BY IsASeq
<1>2. next \in Seq(Nat) /\ Len(next) = n - m
  BY IsASeq
<1>3. all \in Seq(Nat) /\ Len(all) = n
  BY IsASeq
<1>4. first \o next \in Seq(Nat) /\ Len(first \o next) = n
  BY <1>1, <1>2, ConcatProperties
<1>5. ASSUME NEW i \in 1 .. n PROVE (first \o next)[i] = all[i]
  <2>1. (first \o next)[i] = IF i <= m THEN first[i] ELSE next[i - m]
    BY <1>1, <1>2, <1>4
  <2> QED
    BY <2>1
<1>6. first \o next = all
  BY <1>3, <1>4, <1>5, SeqEqual
<1> QED
  BY <1>6 DEF Stream!FirstFrames

\* Nothing is sent at first.
LEMMA SentInit == Init => SentInv /\ Stream!Init
<1> SUFFICES ASSUME Init
             PROVE  SentInv /\ Stream!Init
  OBVIOUS
<1>1. pack \in Packs /\ pack.declared \in Nat
  BY PackFacts DEF Init
<1>2. events = <<>> /\ pc = "requesting" /\ scanned = 0 /\ ~FinishedSent
  BY DEF Init, FinishedSent
<1>3. Sent = <<>>
  BY <1>2 DEF Sent, FlattenSeq
<1>4. Stream!FirstFrames(0) = <<>>
  BY DEF Stream!FirstFrames
<1> QED
  BY <1>1, <1>2, <1>3, <1>4, NoneWhole DEF SentInv, End, Stream!Init

\* What has been sent is a beginning of the frames of the pack, and every step sends
\* the next of them, or the end, or nothing.
LEMMA SentStep ==
  StreamInv /\ SentInv /\ [Next]_vars => SentInv' /\ [Stream!Next]_(Stream!vars)
<1> SUFFICES ASSUME StreamInv, SentInv, [Next]_vars
             PROVE  SentInv' /\ (Stream!Next \/ UNCHANGED Stream!vars)
  OBVIOUS
<1> DEFINE N == LastWhole(scanned)
<1>1. /\ StreamTypeOK /\ pack \in Packs /\ scanned \in Nat /\ received \in Nat
      /\ scanned <= received
      /\ N \in 0 .. Len(pack.ends) /\ N \in Nat
      /\ pack.declared \in Nat /\ Len(pack.ends) \in Nat /\ Len(pack.ends) <= pack.declared
  <2>1. StreamTypeOK /\ pack \in Packs
    BY DEF StreamInv, StreamTypeOK
  <2>2. Len(pack.bytes) \in Nat /\ Len(pack.ends) \in Nat
    BY <2>1, PackFacts
  <2>3. scanned \in Nat /\ received \in Nat /\ scanned <= received
    BY <2>1, <2>2 DEF StreamTypeOK
  <2>4. N \in 0 .. Len(pack.ends)
    BY <2>1, <2>3, LastWholeFacts
  <2> QED
    BY <2>1, <2>2, <2>3, <2>4, PackFacts
<1> HIDE DEF N
<1>2. /\ FinishedSent => pc \in {"lastFlush", "ok", "err"}
      /\ pc \in {"sending", "completing", "lastFlush"} => mode = "pipelined"
  BY DEF StreamInv, ToldInv, ScannerInv
<1>3. /\ pack' = pack /\ mode' = mode
      /\ pc = "err" => pc' = "err"
  BY DEF Next, Client, Retry, RequestFails, Respond, CreateFile, ReceivePayload, Scan,
         SendFrames, Send, ReceiveFails, EndOfResponse, CheckPack, FlushFile, Flush, FlushFails,
         SendFinished, ReceiverGone, Done, Goes, vars
<1>4. CASE events' = events
  <2>1. Sent' = Sent /\ FinishedSent' = FinishedSent
    BY <1>4 DEF Sent, FinishedSent
  <2>2. Stream!Next \/ UNCHANGED Stream!vars
    BY <1>3, <2>1 DEF End, Stream!Next, Stream!BreakOff, Stream!vars
  <2>3. CASE Scan
    <3>1. /\ pc = "scanning" /\ scanned' = received
          /\ received >= pack.broken => pc' = "err"
          /\ received < pack.broken => batch' = Completed(scanned, received)
          /\ pc' = "sending" => (mode = "pipelined" /\ Completed(scanned, received) # <<>>)
          /\ (pc' = "reading" /\ mode = "pipelined") => Completed(scanned, received) = <<>>
          /\ pc' \in {"err", "sending", "reading"}
          /\ pack.broken \in Nat
      BY <1>1, <2>3, PackFacts DEF Scan, Goes
    <3> DEFINE M == LastWhole(received)
    <3>2. /\ Completed(scanned, received) = [k \in 1 .. M - N |-> N + k]
          /\ Len(Completed(scanned, received)) = M - N
          /\ M \in Nat /\ N <= M /\ LastWhole(scanned)' = M
      <4>1. M \in 0 .. Len(pack.ends) /\ M \in Nat
        BY <1>1, LastWholeFacts, SMTT(30)
      <4>2. N <= M
        BY <1>1, LastWholeGrows DEF N
      <4>3. Len(Completed(scanned, received)) = M - N
        BY <1>1, CompletedFacts DEF N
      <4>4. Completed(scanned, received) = [k \in 1 .. M - N |-> N + k]
        BY DEF Completed, N
      <4>5. LastWhole(scanned)' = M
        BY <1>3, <3>1 DEF LastWhole
      <4> QED
        BY <4>1, <4>2, <4>3, <4>4, <4>5
    <3> HIDE DEF M
    <3>3. mode = "pipelined" => Sent = Stream!FirstFrames(N)
      BY <3>1 DEF SentInv, N
    <3>4. CASE pc' = "sending"
      <4>1. N \in 0 .. M - 1
        BY <1>1, <3>1, <3>2, <3>4
      <4>2. /\ Sent' = Stream!FirstFrames(N) /\ mode' = "pipelined"
            /\ batch' = [k \in 1 .. LastWhole(scanned)' - N |-> N + k]
            /\ N \in 0 .. LastWhole(scanned)' - 1
        BY <1>1, <1>3, <2>1, <3>1, <3>2, <3>3, <3>4, <4>1
      <4>3. SentInv'
        BY <3>4, <4>2 DEF SentInv
      <4> QED
        BY <2>2, <4>3
    <3>5. CASE pc' = "reading"
      <4>1. mode = "pipelined" => M = N
        BY <1>1, <3>1, <3>2, <3>5
      <4> QED
        BY <1>3, <1>4, <2>1, <2>2, <3>1, <3>2, <3>3, <3>5, <4>1 DEF SentInv
    <3>6. CASE pc' = "err"
      BY <1>3, <1>4, <2>2, <3>6 DEF SentInv
    <3> QED
      BY <3>1, <3>4, <3>5, <3>6
  <2>4. CASE ~Scan
    <3>1. scanned' = scanned /\ batch' = batch
      BY <2>4 DEF Next, Client, Retry, RequestFails, Respond, CreateFile, ReceivePayload,
         SendFrames, Send, ReceiveFails, EndOfResponse, CheckPack, FlushFile, Flush, FlushFails,
         SendFinished, ReceiverGone, Done, Goes, vars, streamVars
    <3>2. /\ pc' = "sending" => pc = "sending"
          /\ pc = "sending" => pc' \in {"sending", "err"}
      BY <1>4, <2>4 DEF Next, Client, Retry, RequestFails, Respond, CreateFile, ReceivePayload,
         SendFrames, Send, ReceiveFails, EndOfResponse, CheckPack, FlushFile, Flush, FlushFails,
         SendFinished, ReceiverGone, Done, Goes, vars, AfterPayload, AfterFlush
    <3>3. LastWhole(scanned)' = LastWhole(scanned)
      BY <1>3, <3>1 DEF LastWhole
    <3> QED
      BY <1>3, <1>4, <2>1, <2>2, <3>1, <3>2, <3>3 DEF SentInv
  <2> QED
    BY <2>3, <2>4
<1>5. CASE SendFrames /\ events' # events
  <2>1. /\ pc = "sending" /\ pc' = "reading" /\ scanned' = scanned
        /\ events' = Append(events, FramesEvent(batch))
    BY <1>5 DEF SendFrames, Send, Goes
  <2>2. batch \in FrameLists /\ FramesEvent(batch) \in StreamEvents
        /\ FramesEvent(batch).frames = batch /\ FramesEvent(batch).type = "Frames"
    BY <1>1 DEF StreamTypeOK, FramesEvent, StreamEvents
  <2>3. Sent \in FrameLists /\ Sent' = Sent \o batch
    BY <1>1, <2>1, <2>2, SentGrows
  <2>4. PICK n \in 0 .. N - 1 :
          Sent = Stream!FirstFrames(n) /\ batch = [k \in 1 .. N - n |-> n + k]
    BY <2>1 DEF SentInv, N
  <2>5. n \in Nat /\ n <= N
    BY <1>1, <2>4
  <2>6. Sent' = Stream!FirstFrames(N)
    BY <1>1, <2>3, <2>4, <2>5, FirstFramesMore
  <2>7. LastWhole(scanned)' = N
    BY <1>3, <2>1 DEF LastWhole, N
  <2>8. SentInv'
    BY <1>2, <1>3, <2>1, <2>6, <2>7 DEF SentInv
  <2>9. ~FinishedSent /\ ~FinishedSent'
    <3>1. ~FinishedSent
      BY <1>2, <2>1
    <3>2. \A i \in DOMAIN events' : \/ i \in DOMAIN events /\ events'[i] = events[i]
                                    \/ events'[i] = FramesEvent(batch)
      BY <1>1, <2>1, <2>2 DEF StreamTypeOK
    <3> QED
      BY <2>2, <3>1, <3>2 DEF FinishedSent
  <2>10. End = "open" /\ End' = "open"
    BY <2>1, <2>9 DEF End
  <2>11. Len(Sent) = n
    BY <2>4, <2>5 DEF Stream!FirstFrames
  <2>12. N \in Len(Sent) + 1 .. pack.declared
    BY <1>1, <2>4, <2>11
  <2>13. Stream!SendFrames
    BY <1>3, <2>6, <2>10, <2>12 DEF Stream!SendFrames
  <2> QED
    BY <2>8, <2>13 DEF Stream!Next
<1>6. CASE SendFinished /\ events' # events
  <2>1. /\ pc = "completing" /\ pc' = "lastFlush" /\ scanned' = scanned
        /\ events' = Append(events, FinishedEvent)
    BY <1>6 DEF SendFinished, Send, Goes
  <2>2. FinishedEvent \in StreamEvents /\ FinishedEvent.frames = <<>>
        /\ FinishedEvent.type = "Finished"
    BY DEF FinishedEvent, StreamEvents, FrameLists
  <2>3. Sent \in FrameLists /\ Sent' = Sent \o <<>>
    BY <1>1, <2>1, <2>2, SentGrows
  <2>4. Sent' = Sent
    BY <2>3, ConcatEmptySeq DEF FrameLists
  <2>5. Sent = Stream!FirstFrames(N) /\ LastWhole(scanned)' = N
    BY <1>2, <1>3, <2>1 DEF SentInv, LastWhole, N
  <2>6. SentInv'
    BY <1>2, <1>3, <2>1, <2>4, <2>5 DEF SentInv
  <2>7. ~FinishedSent /\ FinishedSent'
    <3>1. ~FinishedSent
      BY <1>2, <2>1
    <3>2. Len(events) + 1 \in DOMAIN events' /\ events'[Len(events) + 1] = FinishedEvent
      BY <1>1, <2>1 DEF StreamTypeOK
    <3> QED
      BY <2>2, <3>1, <3>2 DEF FinishedSent
  <2>8. End = "open" /\ End' = "finished"
    BY <2>1, <2>7 DEF End
  <2>9. N = pack.declared
    <3>1. EndInv /\ ScannerInv /\ mode = "pipelined"
      BY <1>2, <2>1 DEF StreamInv
    <3>2. WellFormed /\ received = Len(pack.bytes) /\ scanned = received /\ Intact
      BY <2>1, <3>1 DEF EndInv, ScannerInv
    <3>3. ScanFinishes
      BY <1>1, <3>2, CheckFacts
    <3>4. Len(Completed(0, received)) = LastWhole(received) - LastWhole(0)
      <4>1. 0 \in Nat /\ 0 <= received
        BY <1>1
      <4> QED
        BY <1>1, <4>1, CompletedFacts
    <3> QED
      BY <1>1, <3>2, <3>3, <3>4, NoneWhole DEF ScanFinishes, N
  <2>10. Stream!Finish
    BY <1>3, <2>4, <2>5, <2>8, <2>9 DEF Stream!Finish
  <2> QED
    BY <2>6, <2>10 DEF Stream!Next
<1> QED
  <2>1. events' # events => SendFrames \/ SendFinished
    BY DEF Next, Client, Retry, RequestFails, Respond, CreateFile, ReceivePayload, Scan,
         ReceiveFails, EndOfResponse, CheckPack, FlushFile, Flush, FlushFails,
         ReceiverGone, Done, vars, streamVars
  <2> QED
    BY <1>4, <1>5, <1>6, <2>1

\* The fetch implements FrameStream: the resolver gets the frames in the order of the
\* pack, each once, and Finished only after the last.
THEOREM StreamRefinement == Spec => SendsFrameStream
BY SentInit, SentStep, StreamInvariant, PTL DEF Spec, SendsFrameStream, Stream!Spec
=============================================================================
