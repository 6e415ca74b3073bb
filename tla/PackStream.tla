----------------------------- MODULE PackStream -----------------------------
(***************************************************************************)
(* The fetch of a pack: fetch_full_pack and fetch_full_pack_pipelined with *)
(* the loops that receive it (crates/core/src/protocol/smart_http.rs).     *)
(* The packets of the response are unpacked, written to the pack file,     *)
(* counted against FCL_MAX_PACK_BYTES, hashed, and scanned; a pipelined    *)
(* fetch sends the frames the scanner finds to the resolver.               *)
(*                                                                         *)
(* The hasher and the scanner are here by what they promise: the checksum  *)
(* is compared with the one of the bytes before it (TrailerHasher), and    *)
(* the frames do not depend on how the pack is cut (PackScanner).          *)
(***************************************************************************)
EXTENDS Integers, Sequences, SequencesExt

CONSTANTS
  Byte,
  HeaderLen,   \* bytes of the pack header (12)
  TrailerLen,  \* bytes of the checksum (20)
  Hash(_),     \* the checksum of a sequence of bytes
  Packs,       \* what may arrive in the packets of band 1
  Limit,       \* FCL_MAX_PACK_BYTES
  Retries      \* FCL_FETCH_RETRIES

\* The bytes that arrive, the number of objects in the pack header, where the ones
\* that are whole end, and the first byte the scanner takes offence at.
Pack == [bytes : Seq(Byte), declared : Nat, ends : Seq(Nat), broken : Nat]

\* The scanner looks for no more objects than the header says, one after the other,
\* behind the header.
ASSUME StreamAssumption ==
  /\ HeaderLen \in Nat /\ TrailerLen \in Nat \ {0} /\ Limit \in Nat /\ Retries \in Nat
  /\ Packs \subseteq Pack
  /\ \A p \in Packs :
       /\ Len(p.ends) <= p.declared
       /\ \A i \in DOMAIN p.ends : p.ends[i] > HeaderLen
       /\ \A i, j \in DOMAIN p.ends : i < j => p.ends[i] < p.ends[j]

\* How the pack is fetched: with its frames sent to the resolver, for the
\* sequential ingest, or for that and scanned on the way (FCL_STREAM_SCAN).
Modes == {"pipelined", "stored", "scanned"}

VARIABLES
  mode, pack,
  healthy,   \* no request, read, write, and no resolver fails in this behaviour
  pc,
  attempt,   \* of the request
  received,  \* pack_bytes: bytes of the pack written
  flushed,   \* how many of them are out of the BufWriter
  scanned,   \* bytes the scanner has been fed
  batch,     \* the frames of the last payload
  events,    \* what the channel has taken
  receiver   \* the resolver thread holds the other end of the channel

vars == <<mode, pack, healthy, pc, attempt, received, flushed, scanned, batch, events, receiver>>

FramesEvent(frames) == [type |-> "Frames", frames |-> frames]
FinishedEvent == [type |-> "Finished", frames |-> <<>>]

Init ==
  /\ mode \in Modes /\ pack \in Packs /\ healthy \in BOOLEAN
  /\ pc = "requesting" /\ attempt = 0
  /\ received = 0 /\ flushed = 0 /\ scanned = 0
  /\ batch = <<>> /\ events = <<>>
  /\ receiver = (mode = "pipelined")

-----------------------------------------------------------------------------
Goes(from, to) ==
  /\ pc = from /\ pc' = to
  /\ UNCHANGED <<mode, pack, healthy>>

streamVars == <<received, flushed, scanned, batch, events>>

\* with_retries: a request that cannot be sent or is not answered is repeated ...
Retry ==
  /\ ~healthy /\ Goes("requesting", "requesting")
  /\ attempt < Retries
  /\ attempt' = attempt + 1
  /\ UNCHANGED <<streamVars, receiver>>

\* ... up to a limit; a status that is no success comes after with_retries.
RequestFails ==
  /\ ~healthy /\ Goes("requesting", "err")
  /\ UNCHANGED <<attempt, streamVars, receiver>>

Respond ==
  /\ Goes("requesting", "creating")
  /\ UNCHANGED <<attempt, streamVars, receiver>>

CreateFile ==
  /\ \E to \in {"reading"} \cup (IF healthy THEN {} ELSE {"err"}) : Goes("creating", to)
  /\ UNCHANGED <<attempt, streamVars, receiver>>

-----------------------------------------------------------------------------
(***************************************************************************)
(* The loop over the packets.  One that is no data of the pack (a section  *)
(* line, an empty packet, progress on band 2) changes nothing.             *)
(***************************************************************************)

\* BufWriter: it keeps the payload, or writes what it had before or everything.
Buffered(n) == {flushed, received, received + n}

\* Mutant: a pack of exactly FCL_MAX_PACK_BYTES is refused.
WithinExclusive(bytes) == bytes < Limit

\* enforce_max_pack_bytes
WithinLimit(bytes) == bytes <= Limit

\* Where the payload goes from the file.
AfterPayload == IF mode = "stored" THEN "reading" ELSE "scanning"

\* Mutant: the payload that breaks the limit is scanned before the limit is looked at.
ReceivePayloadUnchecked ==
  \E n \in 1 .. Len(pack.bytes) - received :
    /\ Goes("reading", IF ~WithinLimit(received) THEN "err" ELSE AfterPayload)
    /\ received' = received + n
    /\ flushed' \in Buffered(n)
    /\ UNCHANGED <<attempt, scanned, batch, events, receiver>>

\* A packet of band 1: the payload is written before it is counted.
ReceivePayload ==
  \E n \in 1 .. Len(pack.bytes) - received :
    /\ Goes("reading", IF ~WithinLimit(received + n) THEN "err" ELSE AfterPayload)
    /\ received' = received + n
    /\ flushed' \in Buffered(n)
    /\ UNCHANGED <<attempt, scanned, batch, events, receiver>>

\* The last object that is whole in the first n bytes.
LastWhole(n) == Max({0} \cup {i \in DOMAIN pack.ends : pack.ends[i] <= n})

\* The objects that end between two places in the pack.
Completed(from, to) ==
  [k \in 1 .. LastWhole(to) - LastWhole(from) |-> LastWhole(from) + k]

\* Mutant: the frames of all packets so far are sent with each.
ScanAgain ==
  /\ Goes("scanning", IF received >= pack.broken THEN "err"
                      ELSE IF mode = "pipelined" /\ Completed(0, received) # <<>> THEN "sending"
                      ELSE "reading")
  /\ scanned' = received
  /\ batch' = Completed(0, received)
  /\ UNCHANGED <<attempt, received, flushed, events, receiver>>

\* feed, feed_collect: the frames of a payload that is malformed are lost with it.
Scan ==
  /\ Goes("scanning", IF received >= pack.broken THEN "err"
                      ELSE IF mode = "pipelined" /\ Completed(scanned, received) # <<>>
                           THEN "sending"
                      ELSE "reading")
  /\ scanned' = received
  /\ batch' = IF received >= pack.broken THEN <<>> ELSE Completed(scanned, received)
  /\ UNCHANGED <<attempt, received, flushed, events, receiver>>

\* SyncSender::send takes the event or fails when the receiver is gone.
Send(event, from, to) ==
  \/ receiver /\ Goes(from, to) /\ events' = Append(events, event)
  \/ ~receiver /\ Goes(from, "err") /\ UNCHANGED events

SendFrames ==
  /\ Send(FramesEvent(batch), "sending", "reading")
  /\ UNCHANGED <<attempt, received, flushed, scanned, batch, receiver>>

\* An error on band 3, an unknown band, a broken packet, the timeout of the
\* request, or a write that fails.
ReceiveFails ==
  /\ ~healthy /\ Goes("reading", "err")
  /\ UNCHANGED <<attempt, streamVars, receiver>>

\* The resolver returns an error or panics: its end of the channel goes away.
ReceiverGone ==
  /\ ~healthy /\ receiver
  /\ receiver' = FALSE
  /\ UNCHANGED <<mode, pack, healthy, pc, attempt, streamVars>>

-----------------------------------------------------------------------------
\* A flush, delimiter or response-end packet, or the connection ends where a
\* packet would begin or in its header.
EndOfResponse ==
  /\ Goes("reading", "checking")
  /\ received = Len(pack.bytes)
  /\ UNCHANGED <<attempt, streamVars, receiver>>

Bytes == SubSeq(pack.bytes, 1, received)

\* Mutant: the hash is compared whatever the length is.
ChecksumOfAnyLength ==
  /\ received >= TrailerLen
  /\ SubSeq(Bytes, received - TrailerLen + 1, received)
       = Hash(SubSeq(Bytes, 1, received - TrailerLen))

\* validate_streaming_pack_checksum
ChecksumValid ==
  /\ received >= TrailerLen
  /\ received >= HeaderLen + TrailerLen
  /\ SubSeq(Bytes, received - TrailerLen + 1, received)
       = Hash(SubSeq(Bytes, 1, received - TrailerLen))

\* Where the trailer begins for the scanner.
BodyEnd == IF pack.ends = <<>> THEN HeaderLen ELSE Last(pack.ends)

\* StreamingPackScanner::finish
ScanFinishes ==
  /\ received >= HeaderLen
  /\ Len(Completed(0, received)) = pack.declared
  /\ received = BodyEnd + TrailerLen

CheckPack ==
  /\ Goes("checking", IF ChecksumValid /\ (mode = "stored" \/ ScanFinishes)
                      THEN "flushing" ELSE "err")
  /\ UNCHANGED <<attempt, streamVars, receiver>>

AfterFlush(from) ==
  IF from = "flushing" /\ mode = "pipelined" THEN "completing" ELSE "ok"

\* Mutant: only the second flush writes the buffer.
FlushLate(from) ==
  /\ Goes(from, AfterFlush(from))
  /\ flushed' = IF from = "lastFlush" THEN received ELSE flushed
  /\ UNCHANGED <<attempt, received, scanned, batch, events, receiver>>

\* The flush of the file: before Finished is sent, and (again) at the end.
Flush(from) ==
  /\ Goes(from, AfterFlush(from))
  /\ flushed' = received
  /\ UNCHANGED <<attempt, received, scanned, batch, events, receiver>>

FlushFails(from) ==
  /\ ~healthy /\ Goes(from, "err")
  /\ UNCHANGED <<attempt, streamVars, receiver>>

FlushFile == \E from \in {"flushing", "lastFlush"} : Flush(from) \/ FlushFails(from)

SendFinished ==
  /\ Send(FinishedEvent, "completing", "lastFlush")
  /\ UNCHANGED <<attempt, received, flushed, scanned, batch, receiver>>

Done == pc \in {"ok", "err"} /\ UNCHANGED vars

Client ==
  \/ Retry \/ RequestFails \/ Respond \/ CreateFile
  \/ ReceivePayload \/ Scan \/ SendFrames \/ ReceiveFails
  \/ EndOfResponse \/ CheckPack \/ FlushFile \/ SendFinished

Next == Client \/ ReceiverGone \/ Done

Spec == Init /\ [][Next]_vars

-----------------------------------------------------------------------------
FinishedSent == \E i \in DOMAIN events : events[i].type = "Finished"

\* A whole pack: its checksum is right and all its objects are there, with nothing
\* between the last one and the checksum.
Intact ==
  LET n == Len(pack.bytes) - TrailerLen
  IN n >= HeaderLen /\ SubSeq(pack.bytes, n + 1, Len(pack.bytes)) = Hash(SubSeq(pack.bytes, 1, n))

WellFormed ==
  /\ Len(pack.ends) = pack.declared
  /\ pack.broken > Len(pack.bytes)
  /\ BodyEnd + TrailerLen = Len(pack.bytes)

\* A fetch that succeeds has the whole response in the pack file, not only in the
\* buffer, and it is a pack; one cut off, even at a packet boundary, which the
\* packet reader takes for the end, never passes.
AcceptedPackIsWhole ==
  pc = "ok" =>
    /\ flushed = Len(pack.bytes) /\ flushed <= Limit
    /\ Intact
    /\ mode # "stored" => WellFormed

\* The resolver writes the index, for all objects of the pack and its checksum,
\* when it is told that the pack is finished: all that is then true and on disk.
FinishedIsTrue ==
  FinishedSent => flushed = Len(pack.bytes) /\ Intact /\ WellFormed

\* No object that ends behind FCL_MAX_PACK_BYTES reaches the resolver, whatever the
\* packets are cut into.
FramesWithinLimit ==
  \A i \in DOMAIN events : \A j \in DOMAIN events[i].frames :
    pack.ends[events[i].frames[j]] <= Limit

\* A pack that is whole and not too large is not refused, in any mode and however
\* it is cut, as long as nothing fails.
HealthyPackAccepted ==
  healthy /\ Intact /\ WellFormed /\ Len(pack.bytes) <= Limit => pc # "err"

\* The frames that have been sent, and what the resolver knows of the end.
Sent == FlattenSeq([i \in DOMAIN events |-> events[i].frames])
End  == IF FinishedSent THEN "finished" ELSE IF pc = "err" THEN "broken" ELSE "open"

Stream == INSTANCE FrameStream WITH total <- pack.declared, sent <- Sent, end <- End

\* The fetch sends what the resolver relies on: the frames in order and once, and
\* Finished after the last one.
SendsFrameStream == Stream!Spec
=============================================================================
