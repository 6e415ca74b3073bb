------------------------ MODULE TrailerHasherProofs ------------------------
(***************************************************************************)
(* The hasher splits every pack at the right place, for every length of    *)
(* the trailer and every cut of the pack.                                  *)
(***************************************************************************)
EXTENDS TrailerHasher, SequenceTheorems, TLAPS

\* The ring: the remainder of a number below twice its size.
LEMMA RingWraps ==
  \A a \in 0 .. 2 * TrailerLen - 1 :
    a % TrailerLen = IF a < TrailerLen THEN a ELSE a - TrailerLen
<1> TAKE a \in 0 .. 2 * TrailerLen - 1
<1>1. CASE a < TrailerLen BY <1>1, TrailerAssumption
<1>2. CASE a >= TrailerLen BY <1>2, TrailerAssumption
<1> QED BY <1>1, <1>2, TrailerAssumption

\* What the ring gives, oldest byte first.
LEMMA FlushedRing ==
  ASSUME TypeOK
  PROVE  /\ Flushed \in Seq(Byte) /\ Len(Flushed) = TrailerLen
         /\ \A i \in 1 .. TrailerLen : Flushed[i] = trailer[Slot(i - 1)]
<1>1. \A i \in 1 .. TrailerLen :
        /\ (cursor + (i - 1)) % TrailerLen = Slot(i - 1)
        /\ Slot(i - 1) \in Slots
  <2> TAKE i \in 1 .. TrailerLen
  <2>1. PICK a \in 0 .. 2 * TrailerLen - 1 : a = cursor + (i - 1)
    BY TrailerAssumption DEF TypeOK, Slots
  <2>2. a % TrailerLen = IF a < TrailerLen THEN a ELSE a - TrailerLen
    BY RingWraps
  <2>3. (cursor + (i - 1)) % TrailerLen = a % TrailerLen BY <2>1
  <2>4. a % TrailerLen = Slot(i - 1) /\ Slot(i - 1) \in Slots
    BY <2>1, <2>2, TrailerAssumption DEF Slot, Slots, TypeOK
  <2> QED BY <2>3, <2>4, Zenon
<1>2. \A i \in 1 .. TrailerLen : Flushed[i] = trailer[Slot(i - 1)] /\ Flushed[i] \in Byte
  BY <1>1 DEF Flushed, TypeOK
<1>3. Flushed = [i \in 1 .. TrailerLen |-> Flushed[i]] BY DEF Flushed
<1> QED BY <1>2, <1>3, TrailerAssumption

\* The cursor goes round the ring.
LEMMA NextSlotRing ==
  ASSUME TypeOK
  PROVE  /\ NextSlot \in Slots
         /\ NextSlot = IF cursor + 1 < TrailerLen THEN cursor + 1 ELSE 0
<1>1. PICK a \in 0 .. 2 * TrailerLen - 1 : a = cursor + 1
  BY TrailerAssumption DEF TypeOK, Slots
<1>2. a % TrailerLen = IF a < TrailerLen THEN a ELSE a - TrailerLen
  BY RingWraps
<1>3. NextSlot = a % TrailerLen BY <1>1 DEF NextSlot
<1> QED BY <1>1, <1>2, <1>3, TrailerAssumption DEF TypeOK, Slots

\* What a payload of n bytes is.
LEMMA PayloadBytes ==
  ASSUME TypeOK, NEW n \in 1 .. Len(Pack) - given
  PROVE  /\ Payload(n) \in Seq(Byte) /\ Len(Payload(n)) = n
         /\ \A i \in 1 .. n : Payload(n)[i] = Pack[given + i]
BY PackAssumption DEF TypeOK, Payload

\* The trailer with some bytes more behind those it has.
LEMMA FilledTrailer ==
  ASSUME TypeOK, NEW bytes \in Seq(Byte), NEW n \in 0 .. Len(bytes), len + n <= TrailerLen
  PROVE  /\ Filled(bytes, n) \in [Slots -> Byte]
         /\ \A i \in 0 .. len - 1 : Filled(bytes, n)[i] = trailer[i]
         /\ \A i \in len .. len + n - 1 : Filled(bytes, n)[i] = bytes[i - len + 1]
<1>1. \A s \in Slots : s \in len .. len + n - 1 => bytes[s - len + 1] \in Byte
  BY TrailerAssumption DEF TypeOK, Slots
<1>2. Filled(bytes, n) \in [Slots -> Byte] BY <1>1 DEF Filled, TypeOK
<1>3. \A i \in 0 .. len + n - 1 : i \in Slots BY TrailerAssumption DEF TypeOK, Slots
<1> QED BY <1>2, <1>3, TrailerAssumption DEF Filled, TypeOK

-----------------------------------------------------------------------------\* Each step on its own.
\* Nothing is hashed at first.
LEMMA InitSplits == Init => TypeOK /\ SplitsBytes /\ FinishSplitsPack
BY PackAssumption, TrailerAssumption
   DEF Init, TypeOK, SplitsBytes, FinishSplitsPack, Pending, Slots, Byte

\* The rest of a payload fits behind the trailer.
LEMMA KeepSplits ==
  ASSUME TypeOK, SplitsBytes, Keep
  PROVE  TypeOK' /\ SplitsBytes'
<1>1. PICK n \in 1 .. Len(Pack) - given :
        /\ Update(n) /\ len + n <= TrailerLen
        /\ trailer' = Filled(Payload(n), n)
        /\ len' = len + n /\ rest' = rest
  BY DEF Keep
<1>2. /\ Payload(n) \in Seq(Byte) /\ Len(Payload(n)) = n
      /\ \A i \in 1 .. n : Payload(n)[i] = Pack[given + i]
  BY PayloadBytes
<1>3. /\ trailer' \in [Slots -> Byte]
      /\ \A i \in 0 .. len - 1 : trailer'[i] = trailer[i]
      /\ \A i \in len .. len + n - 1 : trailer'[i] = Payload(n)[i - len + 1]
  BY <1>1, <1>2, FilledTrailer
<1>4. cursor = 0 /\ cursor' = 0 BY <1>1, TrailerAssumption DEF TypeOK, Update
<1>5. TypeOK'
  BY <1>1, <1>3, <1>4, TrailerAssumption, PackAssumption
     DEF TypeOK, Update, Pending, Incomplete, Split
<1>6. rest = <<>> /\ rest' = <<>> /\ given' = given + n /\ hashed' = hashed
  BY <1>1 DEF Update
<1>7. Len(hashed) + len = given BY <1>6 DEF SplitsBytes, TypeOK
<1>8. \A i \in 0 .. len' - 1 : trailer'[i] = Pack[Len(hashed) + i + 1]
  <2> TAKE i \in 0 .. len' - 1
  <2>1. CASE i < len
    <3>1. trailer[Slot(i)] = Pack[Len(hashed) + i + 1] BY <2>1 DEF SplitsBytes, TypeOK
    <3>2. Slot(i) = i BY <2>1, <1>4, TrailerAssumption DEF Slot, TypeOK
    <3> QED BY <3>1, <3>2, <1>3, <2>1 DEF TypeOK
  <2>2. CASE i >= len
    <3>1. trailer'[i] = Payload(n)[i - len + 1] BY <1>1, <1>3, <2>2 DEF TypeOK
    <3>2. Payload(n)[i - len + 1] = Pack[given + (i - len + 1)]
      BY <1>1, <1>2, <2>2 DEF TypeOK
    <3>3. given + (i - len + 1) = Len(hashed) + i + 1 BY <1>7 DEF TypeOK
    <3> QED BY <3>1, <3>2, <3>3
  <2> QED BY <2>1, <2>2 DEF TypeOK
<1>9. \A i \in 0 .. len' - 1 : trailer'[IF cursor' + i < TrailerLen THEN cursor' + i
                                         ELSE cursor' + i - TrailerLen]
                                = Pack[Len(hashed) + i + 1]
  BY <1>1, <1>4, <1>8, TrailerAssumption DEF TypeOK
<1>10. Len(hashed') + len' + Len(rest') = given' BY <1>1, <1>6, <1>7 DEF TypeOK
<1>11. SplitsBytes'
  BY <1>6, <1>9, <1>10 DEF SplitsBytes, Slot
<1> QED BY <1>5, <1>11

\* The payload fills the trailer up.
LEMMA FillSplits ==
  ASSUME TypeOK, SplitsBytes, Fill
  PROVE  TypeOK' /\ SplitsBytes'
<1>1. PICK n \in 1 .. Len(Pack) - given :
        /\ Update(n) /\ len + n > TrailerLen
        /\ trailer' = Filled(Payload(n), TrailerLen - len)
        /\ rest' = SubSeq(Payload(n), TrailerLen - len + 1, n)
        /\ len' = TrailerLen
  BY DEF Fill
<1>2. PICK needed \in 0 .. n : needed = TrailerLen - len
  BY <1>1, TrailerAssumption DEF TypeOK
<1>2a. /\ n \in Nat /\ needed \in Nat /\ needed <= n /\ len \in Nat /\ TrailerLen \in Nat
      /\ given \in Nat /\ Len(hashed) \in Nat /\ len + needed = TrailerLen
  BY <1>2, TrailerAssumption, PackAssumption DEF TypeOK
<1>3. /\ Payload(n) \in Seq(Byte) /\ Len(Payload(n)) = n
      /\ \A i \in 1 .. n : Payload(n)[i] = Pack[given + i]
  BY PayloadBytes
<1>4. /\ trailer' \in [Slots -> Byte]
      /\ \A i \in 0 .. len - 1 : trailer'[i] = trailer[i]
      /\ \A i \in len .. TrailerLen - 1 : trailer'[i] = Payload(n)[i - len + 1]
  <2>1. /\ needed \in 0 .. Len(Payload(n)) /\ len + needed = TrailerLen
        /\ trailer' = Filled(Payload(n), needed)
    BY <1>1, <1>2, <1>3, TrailerAssumption DEF TypeOK
  <2>2. len + needed <= TrailerLen BY <2>1, TrailerAssumption
  <2>3. /\ Filled(Payload(n), needed) \in [Slots -> Byte]
        /\ \A i \in 0 .. len - 1 : Filled(Payload(n), needed)[i] = trailer[i]
        /\ \A i \in len .. len + needed - 1 :
             Filled(Payload(n), needed)[i] = Payload(n)[i - len + 1]
    BY <1>3, <2>1, <2>2, FilledTrailer
  <2>4. len + needed - 1 = TrailerLen - 1 BY <1>2a
  <2> QED BY <2>1, <2>3, <2>4
<1>5. /\ rest' \in Seq(Byte) /\ Len(rest') = n - needed
      /\ \A i \in 1 .. n - needed : rest'[i] = Payload(n)[needed + i]
  <2>1. rest' = SubSeq(Payload(n), needed + 1, n) BY <1>1, <1>2
  <2> QED BY <1>2, <1>3, <2>1
<1>6. /\ rest = <<>> /\ given' = given + n /\ given' \in 0 .. Len(Pack)
      /\ hashed' = hashed /\ cursor' = cursor /\ result' = result
  BY <1>1, PackAssumption DEF Update, TypeOK
<1>7. Len(hashed) + len = given BY <1>6 DEF SplitsBytes, TypeOK
<1>8. TypeOK'
  <2>1. len' \in 0 .. TrailerLen /\ len' = TrailerLen BY <1>1, TrailerAssumption
  <2>2. hashed' \in Seq(Byte) /\ cursor' \in Slots BY <1>6 DEF TypeOK
  <2>3. result' \in Pending \cup Incomplete \cup Split BY <1>6 DEF TypeOK
  <2> QED BY <1>4, <1>5, <1>6, <2>1, <2>2, <2>3 DEF TypeOK
<1>9. ASSUME NEW i \in 0 .. TrailerLen - 1
      PROVE  trailer'[IF cursor + i < TrailerLen THEN cursor + i ELSE cursor + i - TrailerLen]
               = Pack[Len(hashed) + i + 1]
  <2>1. CASE i < len
    <3>1. trailer[Slot(i)] = Pack[Len(hashed) + i + 1] BY <2>1 DEF SplitsBytes, TypeOK
    <3>2. Slot(i) \in 0 .. len - 1
      BY <2>1, TrailerAssumption DEF Slot, TypeOK, Slots
    <3> QED BY <3>1, <3>2, <1>4 DEF Slot
  <2>2. CASE i >= len
    <3>1. cursor = 0 BY <2>2, TrailerAssumption DEF TypeOK
    <3>2. trailer'[i] = Payload(n)[i - len + 1] BY <1>4, <2>2 DEF TypeOK
    <3>3. i - len + 1 \in 1 .. n BY <1>2, <2>2, TrailerAssumption DEF TypeOK
    <3>4. Payload(n)[i - len + 1] = Pack[given + (i - len + 1)] BY <1>3, <3>3
    <3>5. given + (i - len + 1) = Len(hashed) + i + 1 BY <1>7 DEF TypeOK
    <3> QED BY <3>1, <3>2, <3>4, <3>5, TrailerAssumption
  <2> QED BY <2>1, <2>2 DEF TypeOK
<1>10. Len(hashed') + len' + Len(rest') = given'
  BY <1>2a, <1>1, <1>5, <1>6, <1>7
<1>11. \A i \in 1 .. Len(rest') : rest'[i] = Pack[Len(hashed') + len' + i]
  <2> TAKE i \in 1 .. Len(rest')
  <2>1. needed + i \in 1 .. n BY <1>2, <1>5
  <2>2. rest'[i] = Pack[given + (needed + i)] BY <1>3, <1>5, <2>1
  <2>3. given + (needed + i) = Len(hashed') + len' + i
    <3>1. i \in Nat BY <1>5
    <3> QED BY <1>2a, <1>1, <1>6, <1>7, <3>1
  <2> QED BY <2>2, <2>3
<1>12. SplitsBytes'
  BY <1>1, <1>6, <1>9, <1>10, <1>11 DEF SplitsBytes, Slot
<1> QED BY <1>8, <1>12

\* The payload replaces the whole ring.
LEMMA ReplaceSplits ==
  ASSUME TypeOK, SplitsBytes, Replace
  PROVE  TypeOK' /\ SplitsBytes'
<1>1. PICK hashLen \in 0 .. Len(rest) : hashLen = Len(rest) - TrailerLen
  BY TrailerAssumption DEF Replace, TypeOK
<1> DEFINE hashedRest == SubSeq(rest, 1, hashLen)
<1>2. /\ hashedRest \in Seq(Byte) /\ Len(hashedRest) = hashLen
      /\ \A i \in 1 .. hashLen : hashedRest[i] = rest[i]
  BY <1>1 DEF TypeOK
<1> HIDE DEF hashedRest
<1>3. /\ hashed' = (hashed \o Flushed) \o hashedRest
      /\ trailer' = [s \in Slots |-> rest[hashLen + s + 1]]
      /\ cursor' = 0 /\ rest' = <<>>
      /\ given' = given /\ len' = len /\ result' = result
  BY <1>1 DEF Replace, hashedRest
<1>4. len = TrailerLen /\ Len(rest) = hashLen + TrailerLen
  BY <1>1, TrailerAssumption DEF Replace, TypeOK
<1>5. /\ Flushed \in Seq(Byte) /\ Len(Flushed) = TrailerLen
      /\ \A i \in 1 .. TrailerLen : Flushed[i] = trailer[Slot(i - 1)]
  BY FlushedRing
<1>6. \A i \in 1 .. TrailerLen : Flushed[i] = Pack[Len(hashed) + i]
  <2> TAKE i \in 1 .. TrailerLen
  <2>1. i - 1 \in 0 .. len - 1 BY <1>4, TrailerAssumption
  <2>2. trailer[Slot(i - 1)] = Pack[Len(hashed) + (i - 1) + 1] BY <2>1 DEF SplitsBytes
  <2>3. Len(hashed) + (i - 1) + 1 = Len(hashed) + i BY DEF TypeOK
  <2> QED BY <1>5, <2>2, <2>3
<1>7. /\ hashed' \in Seq(Byte) /\ Len(hashed') = Len(hashed) + TrailerLen + hashLen
      /\ \A i \in 1 .. Len(hashed') :
           hashed'[i] = IF i <= Len(hashed) THEN hashed[i]
                        ELSE IF i <= Len(hashed) + TrailerLen THEN Flushed[i - Len(hashed)]
                        ELSE hashedRest[i - Len(hashed) - TrailerLen]
  <2>1. /\ hashed \in Seq(Byte) /\ hashLen \in Nat /\ TrailerLen \in Nat
    BY <1>1, TrailerAssumption DEF TypeOK
  <2> DEFINE first == hashed \o Flushed
  <2>2. /\ first \in Seq(Byte) /\ Len(first) = Len(hashed) + TrailerLen
        /\ \A i \in 1 .. Len(hashed) + TrailerLen :
             first[i] = IF i <= Len(hashed) THEN hashed[i] ELSE Flushed[i - Len(hashed)]
    <3>1. hashed \in Seq(Byte) /\ Flushed \in Seq(Byte) BY <1>5, <2>1
    <3>2. /\ hashed \o Flushed \in Seq(Byte)
          /\ Len(hashed \o Flushed) = Len(hashed) + Len(Flushed)
          /\ \A i \in 1 .. Len(hashed) + Len(Flushed) :
               (hashed \o Flushed)[i] = IF i <= Len(hashed) THEN hashed[i]
                                        ELSE Flushed[i - Len(hashed)]
      BY <3>1, ConcatProperties
    <3> QED BY <1>5, <3>2 DEF first
  <2> HIDE DEF first
  <2>3. hashed' = first \o hashedRest BY <1>3 DEF first
  <2>4. /\ hashed' \in Seq(Byte) /\ Len(hashed') = Len(first) + hashLen
        /\ \A i \in 1 .. Len(first) + hashLen :
             hashed'[i] = IF i <= Len(first) THEN first[i] ELSE hashedRest[i - Len(first)]
    <3>1. first \in Seq(Byte) /\ hashedRest \in Seq(Byte) BY <1>2, <2>2
    <3>2. /\ first \o hashedRest \in Seq(Byte)
          /\ Len(first \o hashedRest) = Len(first) + Len(hashedRest)
          /\ \A i \in 1 .. Len(first) + Len(hashedRest) :
               (first \o hashedRest)[i] = IF i <= Len(first) THEN first[i]
                                          ELSE hashedRest[i - Len(first)]
      BY <3>1, ConcatProperties
    <3> QED BY <1>2, <2>3, <3>2
  <2>5. ASSUME NEW i \in 1 .. Len(hashed')
        PROVE  hashed'[i] = IF i <= Len(hashed) THEN hashed[i]
                            ELSE IF i <= Len(hashed) + TrailerLen THEN Flushed[i - Len(hashed)]
                            ELSE hashedRest[i - Len(hashed) - TrailerLen]
    <3>1. i \in Nat /\ Len(hashed) \in Nat BY <2>1, <2>4
    <3>2. CASE i <= Len(first) BY <2>1, <2>2, <2>4, <3>1, <3>2
    <3>3. CASE i > Len(first)
      <4>1. hashed'[i] = hashedRest[i - Len(first)] BY <2>4, <2>1, <2>2, <3>1, <3>3
      <4>2. i - Len(first) = i - Len(hashed) - TrailerLen BY <2>1, <2>2, <3>1
      <4> QED BY <2>1, <2>2, <3>1, <3>3, <4>1, <4>2
    <3> QED BY <2>1, <2>2, <3>1, <3>2, <3>3
  <2> QED BY <2>1, <2>2, <2>4, <2>5
<1>8. \A i \in 1 .. Len(hashed') : hashed'[i] = Pack[i]
  <2> TAKE i \in 1 .. Len(hashed')
  <2>1. CASE i <= Len(hashed)
    <3>1. i \in 1 .. Len(hashed) BY <2>1 DEF TypeOK
    <3>2. hashed'[i] = hashed[i] BY <1>7, <2>1
    <3> QED BY <3>1, <3>2 DEF SplitsBytes
  <2>2. CASE i > Len(hashed) /\ i <= Len(hashed) + TrailerLen
    <3>1. PICK j \in 1 .. TrailerLen : j = i - Len(hashed)
      BY <2>2, TrailerAssumption DEF TypeOK
    <3>2. hashed'[i] = Flushed[j] /\ Len(hashed) + j = i
      BY <1>7, <2>2, <3>1, TrailerAssumption DEF TypeOK
    <3> QED BY <1>6, <3>2
  <2>3. CASE i > Len(hashed) + TrailerLen
    <3>1. PICK j \in 1 .. hashLen : j = i - Len(hashed) - TrailerLen
      <4>1. Len(hashed) \in Nat /\ TrailerLen \in Nat /\ hashLen \in Nat /\ i \in Nat
        BY <1>1, <1>7, TrailerAssumption DEF TypeOK
      <4>2. i <= Len(hashed) + TrailerLen + hashLen BY <1>7, <4>1
      <4>3. i - Len(hashed) - TrailerLen \in 1 .. hashLen BY <2>3, <4>1, <4>2
      <4> QED BY <4>3
    <3>2. hashed'[i] = hashedRest[j] /\ Len(hashed) + len + j = i
      BY <1>4, <1>7, <2>3, <3>1, TrailerAssumption DEF TypeOK
    <3>3. hashedRest[j] = rest[j] /\ j \in 1 .. Len(rest) BY <1>1, <1>2
    <3> QED BY <3>2, <3>3 DEF SplitsBytes
  <2> QED BY <2>1, <2>2, <2>3, TrailerAssumption DEF TypeOK
<1>9. trailer' \in [Slots -> Byte]
  <2>1. \A s \in Slots : hashLen + s + 1 \in 1 .. Len(rest)
    BY <1>4, TrailerAssumption DEF Slots
  <2> QED BY <1>3, <2>1 DEF TypeOK
<1>10. TypeOK'
  BY <1>3, <1>4, <1>7, <1>9, TrailerAssumption DEF TypeOK, Slots, Pending, Incomplete, Split
<1>11. \A i \in 0 .. len' - 1 : trailer'[IF cursor' + i < TrailerLen THEN cursor' + i
                                          ELSE cursor' + i - TrailerLen]
                                 = Pack[Len(hashed') + i + 1]
  <2> TAKE i \in 0 .. len' - 1
  <2>1. i \in Slots /\ hashLen + i + 1 \in 1 .. Len(rest)
    BY <1>3, <1>4, TrailerAssumption DEF Slots
  <2>2. trailer'[i] = rest[hashLen + i + 1] BY <1>3, <2>1
  <2>3. rest[hashLen + i + 1] = Pack[Len(hashed) + len + (hashLen + i + 1)]
    BY <2>1 DEF SplitsBytes
  <2>4. Len(hashed) + len + (hashLen + i + 1) = Len(hashed') + i + 1
    BY <1>4, <1>7, TrailerAssumption DEF TypeOK
  <2> QED BY <1>3, <2>1, <2>2, <2>3, <2>4, TrailerAssumption DEF Slots
<1>12. Len(hashed') + len' + Len(rest') = given'
  <2>1. Len(hashed) + len + Len(rest) = given BY DEF SplitsBytes
  <2>2. Len(rest') = 0 BY <1>3
  <2> QED BY <1>1, <1>3, <1>4, <1>7, <2>1, <2>2, TrailerAssumption DEF TypeOK
<1>13. \A i \in 1 .. Len(rest') : rest'[i] = Pack[Len(hashed') + len' + i]
  BY <1>3
<1>14. SplitsBytes'
  BY <1>8, <1>11, <1>12, <1>13 DEF SplitsBytes, Slot
<1> QED BY <1>10, <1>14

\* One byte takes the place of the oldest.
LEMMA PushByteSplits ==
  ASSUME TypeOK, SplitsBytes, PushByte
  PROVE  TypeOK' /\ SplitsBytes'
<1>1. /\ rest # <<>> /\ hashed' = Append(hashed, trailer[cursor])
      /\ trailer' = [trailer EXCEPT ![cursor] = Head(rest)]
      /\ cursor' = NextSlot /\ rest' = Tail(rest)
      /\ given' = given /\ len' = len /\ result' = result
  BY DEF PushByte
<1>2. len = TrailerLen /\ cursor \in Slots BY <1>1 DEF TypeOK
<1>3. /\ NextSlot \in Slots
      /\ NextSlot = IF cursor + 1 < TrailerLen THEN cursor + 1 ELSE 0
  BY NextSlotRing
<1>4. /\ Head(rest) = rest[1] /\ rest[1] \in Byte
      /\ rest' \in Seq(Byte) /\ Len(rest') = Len(rest) - 1 /\ Len(rest) >= 1
      /\ \A i \in 1 .. Len(rest) - 1 : rest'[i] = rest[i + 1]
  BY <1>1 DEF TypeOK
<1>5. TypeOK'
  BY <1>1, <1>2, <1>3, <1>4, TrailerAssumption DEF TypeOK, Slots, Pending, Incomplete, Split
<1>6. trailer[cursor] = Pack[Len(hashed) + 1]
  <2>1. trailer[Slot(0)] = Pack[Len(hashed) + 0 + 1]
    BY <1>2, TrailerAssumption DEF SplitsBytes
  <2> QED BY <1>2, <2>1, TrailerAssumption DEF Slot, Slots, TypeOK
<1>7. /\ Len(hashed') = Len(hashed) + 1
      /\ \A i \in 1 .. Len(hashed') : hashed'[i] = Pack[i]
  BY <1>1, <1>6 DEF SplitsBytes, TypeOK
<1>8. ASSUME NEW i \in 0 .. TrailerLen - 1
      PROVE  trailer'[IF cursor' + i < TrailerLen THEN cursor' + i
                      ELSE cursor' + i - TrailerLen]
               = Pack[Len(hashed) + 1 + i + 1]
  <2>1. CASE i < TrailerLen - 1
    <3>1. trailer[Slot(i + 1)] = Pack[Len(hashed) + (i + 1) + 1]
      BY <1>2, <2>1, TrailerAssumption DEF SplitsBytes
    <3>2. /\ Slot(i + 1) \in Slots /\ Slot(i + 1) # cursor
          /\ Slot(i + 1) = IF cursor' + i < TrailerLen THEN cursor' + i
                           ELSE cursor' + i - TrailerLen
      BY <1>1, <1>2, <1>3, <2>1, TrailerAssumption DEF Slot, Slots
    <3>3. trailer'[Slot(i + 1)] = trailer[Slot(i + 1)] BY <1>1, <3>2 DEF TypeOK
    <3>4. Len(hashed) + (i + 1) + 1 = Len(hashed) + 1 + i + 1 BY DEF TypeOK
    <3> QED BY <3>1, <3>2, <3>3, <3>4
  <2>2. CASE i = TrailerLen - 1
    <3>1. cursor = IF cursor' + i < TrailerLen THEN cursor' + i
                   ELSE cursor' + i - TrailerLen
      BY <1>1, <1>2, <1>3, <2>2, TrailerAssumption DEF Slots
    <3>2. trailer'[cursor] = rest[1] BY <1>1, <1>2, <1>4 DEF TypeOK
    <3>3. rest[1] = Pack[Len(hashed) + len + 1] BY <1>4 DEF SplitsBytes, TypeOK
    <3>4. Len(hashed) + len + 1 = Len(hashed) + 1 + i + 1
      BY <1>2, <2>2, TrailerAssumption DEF TypeOK
    <3> QED BY <3>1, <3>2, <3>3, <3>4
  <2> QED BY <2>1, <2>2, TrailerAssumption
<1>9. Len(hashed') + len' + Len(rest') = given'
  BY <1>1, <1>2, <1>4, <1>7, TrailerAssumption DEF SplitsBytes, TypeOK
<1>10. \A i \in 1 .. Len(rest') : rest'[i] = Pack[Len(hashed') + len' + i]
  <2> TAKE i \in 1 .. Len(rest')
  <2>1. rest'[i] = rest[i + 1] /\ i + 1 \in 1 .. Len(rest) BY <1>4
  <2>2. rest[i + 1] = Pack[Len(hashed) + len + (i + 1)] BY <2>1 DEF SplitsBytes
  <2>3. Len(hashed) + len + (i + 1) = Len(hashed') + len' + i
    BY <1>1, <1>2, <1>7, TrailerAssumption DEF TypeOK
  <2> QED BY <2>1, <2>2, <2>3
<1>11. SplitsBytes'
  BY <1>1, <1>2, <1>7, <1>8, <1>9, <1>10 DEF SplitsBytes, Slot
<1> QED BY <1>5, <1>11

\* The pack ends.
LEMMA FinishSplits ==
  ASSUME TypeOK, SplitsBytes, Finish
  PROVE  TypeOK' /\ SplitsBytes' /\ FinishSplitsPack'
<1>1. /\ rest = <<>> /\ rest' = rest /\ given' = given /\ hashed' = hashed
      /\ trailer' = trailer /\ len' = len /\ cursor' = cursor
      /\ result' = IF len # TrailerLen THEN [state |-> "none"]
                   ELSE [state |-> "some", trailer |-> Flushed, hashed |-> hashed]
  BY DEF Finish
<1>2. Len(hashed) + len = given BY <1>1 DEF SplitsBytes, TypeOK
<1>3. /\ Flushed \in [1 .. TrailerLen -> Byte]
      /\ \A i \in 1 .. TrailerLen : Flushed[i] = trailer[Slot(i - 1)]
  <2>1. /\ Flushed \in Seq(Byte) /\ Len(Flushed) = TrailerLen
        /\ \A i \in 1 .. TrailerLen : Flushed[i] = trailer[Slot(i - 1)]
    BY FlushedRing
  <2> QED BY <2>1
<1>4. SplitsBytes' BY <1>1 DEF SplitsBytes, Slot
<1>5. CASE len # TrailerLen
  <2>1. result' = [state |-> "none"] BY <1>1, <1>5
  <2>2. TypeOK' BY <1>1, <2>1 DEF TypeOK, Incomplete
  <2>3. given' < TrailerLen BY <1>1, <1>2, <1>5, TrailerAssumption DEF TypeOK
  <2> QED BY <1>4, <2>1, <2>2, <2>3 DEF FinishSplitsPack
<1>6. CASE len = TrailerLen
  <2>1. result' = [state |-> "some", trailer |-> Flushed, hashed |-> hashed]
    BY <1>1, <1>6
  <2>2. TypeOK' BY <1>1, <1>3, <2>1 DEF TypeOK, Split
  <2>3. Len(hashed) = given - TrailerLen /\ given >= TrailerLen
    BY <1>2, <1>6, TrailerAssumption DEF TypeOK
  <2>4. ASSUME NEW i \in 1 .. TrailerLen
        PROVE  Flushed[i] = Pack[given - TrailerLen + i]
    <3>1. i - 1 \in 0 .. len - 1 BY <1>6, TrailerAssumption
    <3>2. trailer[Slot(i - 1)] = Pack[Len(hashed) + (i - 1) + 1]
      BY <3>1 DEF SplitsBytes
    <3>3. Len(hashed) + (i - 1) + 1 = given - TrailerLen + i
      BY <2>3, TrailerAssumption DEF TypeOK
    <3> QED BY <1>3, <3>2, <3>3
  <2>5. \A i \in 1 .. Len(hashed) : hashed[i] = Pack[i] BY DEF SplitsBytes
  <2>6. FinishSplitsPack'
    BY <1>1, <2>1, <2>3, <2>4, <2>5 DEF FinishSplitsPack
  <2> QED BY <1>4, <2>2, <2>6
<1> QED BY <1>5, <1>6

-----------------------------------------------------------------------------
\* The inductive invariant; SplitsBytes does not follow from types alone, nor
\* does what finish returns without it.
HasherInv == TypeOK /\ SplitsBytes /\ FinishSplitsPack

\* Every statement keeps the bytes in order.
LEMMA HasherStep ==
  ASSUME HasherInv, [Next]_vars
  PROVE  HasherInv'
<1>1. ASSUME Keep \/ Fill PROVE FinishSplitsPack'
  <2>1. result'.state = "pending" BY <1>1 DEF Keep, Fill, Update
  <2> QED BY <2>1 DEF FinishSplitsPack
<1>2. ASSUME Replace \/ PushByte PROVE FinishSplitsPack'
  BY <1>2 DEF HasherInv, Replace, PushByte, FinishSplitsPack
<1>3. CASE Keep BY <1>1, <1>3, KeepSplits DEF HasherInv
<1>4. CASE Fill BY <1>1, <1>4, FillSplits DEF HasherInv
<1>5. CASE Replace BY <1>2, <1>5, ReplaceSplits DEF HasherInv
<1>6. CASE PushByte BY <1>2, <1>6, PushByteSplits DEF HasherInv
<1>7. CASE Finish BY <1>7, FinishSplits DEF HasherInv
<1>8. CASE Done \/ UNCHANGED vars
  BY <1>8
     DEF Done, vars, HasherInv, TypeOK, SplitsBytes, FinishSplitsPack, Slot,
         Pending, Incomplete, Split
<1> QED BY <1>3, <1>4, <1>5, <1>6, <1>7, <1>8 DEF Next

\* Types and bytes, for every pack, every cut and every length of the trailer.
THEOREM HasherInvariant == Spec => []HasherInv
<1>1. Init => HasherInv BY InitSplits DEF HasherInv
<1>2. HasherInv /\ [Next]_vars => HasherInv' BY HasherStep
<1> QED BY <1>1, <1>2, PTL DEF Spec

\* Types of the hasher's variables, for every pack and length of the trailer.
THEOREM HasherTypeCorrect == Spec => []TypeOK
<1>1. HasherInv => TypeOK BY DEF HasherInv
<1> QED BY <1>1, HasherInvariant, PTL

\* The bytes hashed and held back are those received, whatever the packets were.
THEOREM HasherSplits == Spec => []SplitsBytes
<1>1. HasherInv => SplitsBytes BY DEF HasherInv
<1> QED BY <1>1, HasherInvariant, PTL

\* The checksum is compared with the one of exactly the bytes before it.
THEOREM HasherFinishes == Spec => []FinishSplitsPack
<1>1. HasherInv => FinishSplitsPack BY DEF HasherInv
<1> QED BY <1>1, HasherInvariant, PTL
=============================================================================
