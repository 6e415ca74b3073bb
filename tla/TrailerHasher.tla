--------------------------- MODULE TrailerHasher ---------------------------
(***************************************************************************)
(* PackTrailerHasher (crates/core/src/protocol/smart_http.rs:761-839): the *)
(* checksum of a pack while it arrives.  The checksum is the last 20 bytes *)
(* and covers all bytes before; which bytes are the last is not known      *)
(* until the pack ends, so the hasher always holds the last ones back, in  *)
(* a ring, whatever the packets are cut into.                              *)
(*                                                                         *)
(* SHA-1 is left out: the bytes it has been given stand for it.            *)
(***************************************************************************)
EXTENDS Integers, Sequences

CONSTANTS
  TrailerLen,  \* bytes of the checksum (20)
  Pack,        \* the bytes that arrive, as far as the connection lasts
  NoByte       \* what a slot of the ring starts with (0)

ASSUME TrailerAssumption == TrailerLen \in Nat \ {0}

Byte == {Pack[i] : i \in DOMAIN Pack} \cup {NoByte}

ASSUME PackAssumption == Pack \in Seq(Byte)

Slots == 0 .. TrailerLen - 1

VARIABLES
  given,    \* how many bytes of the pack the calls of update have been given
  rest,     \* what the call at hand still has to take: "bytes" in the code
  hashed,   \* the bytes given to SHA-1
  trailer, len, cursor,
  result    \* what finish returns: the trailer and what is hashed

vars == <<given, rest, hashed, trailer, len, cursor, result>>

Pending == [state : {"pending"}]
Incomplete == [state : {"none"}]
Split == [state : {"some"}, trailer : [1 .. TrailerLen -> Byte], hashed : Seq(Byte)]

TypeOK ==
  /\ given \in 0 .. Len(Pack)
  /\ rest \in Seq(Byte)
  /\ hashed \in Seq(Byte)
  /\ trailer \in [Slots -> Byte]
  /\ len \in 0 .. TrailerLen
  /\ cursor \in Slots
  /\ cursor # 0 => len = TrailerLen
  /\ rest # <<>> => len = TrailerLen
  /\ result \in Pending \cup Incomplete \cup Split

Init ==
  /\ given = 0 /\ rest = <<>> /\ hashed = <<>>
  /\ trailer = [s \in Slots |-> NoByte] /\ len = 0 /\ cursor = 0
  /\ result = [state |-> "pending"]

-----------------------------------------------------------------------------
\* The bytes of a payload of length n.
Payload(n) == SubSeq(Pack, given + 1, given + n)

\* The trailer with bytes from slot len on.
Filled(bytes, n) ==
  [s \in Slots |-> IF s \in len .. len + n - 1 THEN bytes[s - len + 1] ELSE trailer[s]]

\* A call of update with a payload of n bytes; without bytes it does nothing.
Update(n) ==
  /\ result.state = "pending" /\ rest = <<>>
  /\ n \in 1 .. Len(Pack) - given
  /\ given' = given + n
  /\ UNCHANGED <<hashed, cursor, result>>

\* The payload fits into the trailer, ...
Keep ==
  \E n \in 1 .. Len(Pack) - given :
    /\ Update(n)
    /\ len + n <= TrailerLen
    /\ trailer' = Filled(Payload(n), n)
    /\ len' = len + n
    /\ UNCHANGED rest

\* ... or what is missing of the trailer is filled first.
Fill ==
  \E n \in 1 .. Len(Pack) - given :
    /\ Update(n)
    /\ len + n > TrailerLen
    /\ LET needed == TrailerLen - len
       IN /\ trailer' = Filled(Payload(n), needed)
          /\ rest' = SubSeq(Payload(n), needed + 1, n)
    /\ len' = TrailerLen

\* Mutant: the trailer from slot 0, wherever the cursor is.
FlushedFromZero == [i \in 1 .. TrailerLen |-> trailer[i - 1]]

\* The trailer, oldest byte first: flush_trailer, and the loop of finish.
Flushed == [i \in 1 .. TrailerLen |-> trailer[(cursor + (i - 1)) % TrailerLen]]

\* What is left replaces the whole trailer: the trailer is hashed, and all of
\* the rest but its last bytes.
Replace ==
  /\ Len(rest) >= TrailerLen
  /\ LET hashLen == Len(rest) - TrailerLen
     IN /\ hashed' = hashed \o Flushed \o SubSeq(rest, 1, hashLen)
        /\ trailer' = [s \in Slots |-> rest[hashLen + s + 1]]
  /\ cursor' = 0
  /\ rest' = <<>>
  /\ UNCHANGED <<given, len, result>>

NextSlot == (cursor + 1) % TrailerLen

\* The loop over a shorter rest: a byte pushes the oldest one out.  (Its branch
\* for a trailer that is not full is never taken, see rest in TypeOK.)
PushByte ==
  /\ rest # <<>> /\ Len(rest) < TrailerLen
  /\ hashed' = Append(hashed, trailer[cursor])
  /\ trailer' = [trailer EXCEPT ![cursor] = Head(rest)]
  /\ cursor' = NextSlot
  /\ rest' = Tail(rest)
  /\ UNCHANGED <<given, len, result>>

\* Mutant: a trailer that is not full passes.
FinishAnyLength ==
  /\ result.state = "pending" /\ rest = <<>>
  /\ result' = [state |-> "some", trailer |-> Flushed, hashed |-> hashed]
  /\ UNCHANGED <<given, rest, hashed, trailer, len, cursor>>

\* The pack ends, here or where the connection breaks.
Finish ==
  /\ result.state = "pending" /\ rest = <<>>
  /\ result' = IF len # TrailerLen THEN [state |-> "none"]
               ELSE [state |-> "some", trailer |-> Flushed, hashed |-> hashed]
  /\ UNCHANGED <<given, rest, hashed, trailer, len, cursor>>

Done == result.state # "pending" /\ UNCHANGED vars

Next == Keep \/ Fill \/ Replace \/ PushByte \/ Finish \/ Done

Spec == Init /\ [][Next]_vars

-----------------------------------------------------------------------------
\* Whatever the packets were, the bytes hashed, the bytes held back, oldest
\* first, and the bytes still to take are the bytes of the pack given so far: none
\* is lost, doubled or out of order.
Slot(i) == IF cursor + i < TrailerLen THEN cursor + i ELSE cursor + i - TrailerLen

SplitsBytes ==
  /\ Len(hashed) + len + Len(rest) = given
  /\ \A i \in 1 .. Len(hashed) : hashed[i] = Pack[i]
  /\ \A i \in 0 .. len - 1 : trailer[Slot(i)] = Pack[Len(hashed) + i + 1]
  /\ \A i \in 1 .. Len(rest) : rest[i] = Pack[Len(hashed) + len + i]

\* finish gives the last bytes received as the trailer and all bytes before as
\* hashed, as validate_pack_file_checksum (pack/mod.rs:2348-2396) finds them in
\* the file; it gives nothing only when there are not enough bytes.
FinishSplitsPack ==
  /\ result.state = "none" => given < TrailerLen
  /\ result.state = "some" =>
       /\ given >= TrailerLen
       /\ Len(result.hashed) = given - TrailerLen
       /\ \A i \in 1 .. Len(result.hashed) : result.hashed[i] = Pack[i]
       /\ \A i \in 1 .. TrailerLen : result.trailer[i] = Pack[given - TrailerLen + i]
=============================================================================
