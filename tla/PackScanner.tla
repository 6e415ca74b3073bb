---------------------------- MODULE PackScanner ----------------------------
(***************************************************************************)
(* StreamingPackScanner (crates/core/src/pack/mod.rs:1748-2193): it gets   *)
(* the pack in chunks, cut anywhere, as the sideband packets or the reads  *)
(* of a file happen to be, and finds the objects in it.                    *)
(*                                                                         *)
(* Each call of a handler by the loop of feed_inner is a step.  The        *)
(* decompressor (flate2) takes what it wants of the input and returns what *)
(* fits into the output buffer.                                            *)
(***************************************************************************)
EXTENDS PackFormat

CONSTANTS
  Packs,      \* the byte sequences that may arrive
  OutputLen,  \* size of the output buffer of one decompressor call (8192)
  NoObject    \* no object is being scanned

None == -1

EncodedObjectKind ==
  [kind : BaseKinds] \cup [kind : {OffsetKind}, offset : Nat]
    \cup [kind : {RefKind}, oid : Seq(Nat)]

ObjectFrame == [offset : Nat, encoded : EncodedObjectKind, compressedStart : Nat,
                compressedLen : Nat, size : Nat, crc : Seq(Nat)]

PartialObjectFrame ==
  [start : Nat, kind : Nat, size : Nat, shift : Nat, crc : Seq(Nat),
   encoded : EncodedObjectKind \cup [kind : {0}], compressedStart : Nat, compressedLen : Nat,
   distance : Nat \cup {None}, oid : Seq(Nat), out : Nat, owed : Nat, ended : BOOLEAN]

ASSUME ScannerAssumption ==
  /\ Packs \subseteq Seq(0 .. 2 * Radix - 1)
  /\ OutputLen \in Nat \ {0}
  /\ NoObject \notin PartialObjectFrame

VARIABLES
  pack,        \* all the bytes that arrive until the source ends
  fed,         \* how many of them are in the chunks fed so far
  state,       \* ScannerState
  header,      \* the bytes of the pack header
  offset,      \* pack_offset: bytes consumed
  declared,    \* declared_objects, None until the header is read
  frames,
  current,     \* the PartialObjectFrame
  trailerLen,
  result       \* of finish, or of the first handler that fails

vars == <<pack, fed, state, header, offset, declared, frames, current, trailerLen, result>>

ScannerState ==
  {"PackHeader", "ObjectHeader", "OffsetDeltaBase", "RefDeltaBase", "CompressedPayload", "Trailer"}

TypeOK ==
  /\ pack \in Packs
  /\ fed \in 0 .. Len(pack) /\ offset \in 0 .. fed
  /\ state \in ScannerState
  /\ Len(header) <= HeaderLen
  /\ declared \in Nat \cup {None}
  /\ frames \in Seq(ObjectFrame)
  /\ current \in PartialObjectFrame \cup {NoObject}
  /\ state \in {"OffsetDeltaBase", "RefDeltaBase", "CompressedPayload"} => current # NoObject
  /\ state \in {"PackHeader", "Trailer"} => current = NoObject
  /\ trailerLen \in Nat
  /\ result \in {"running", "ok", "err"}

Init ==
  /\ pack \in Packs
  /\ fed = 0 /\ offset = 0
  /\ state = "PackHeader"
  /\ header = <<>> /\ declared = None
  /\ frames = <<>> /\ current = NoObject
  /\ trailerLen = 0
  /\ result = "running"

-----------------------------------------------------------------------------
\* The input slice, and a handler that takes n bytes of it.
Available == fed - offset
Input(n) == Between(pack, offset, offset + n)

Handle(s, n) ==
  /\ result = "running" /\ state = s /\ Available > 0
  /\ offset' = offset + n
  /\ UNCHANGED <<pack, fed>>

Go(s) == state' = s /\ UNCHANGED result

Fail ==
  /\ result' = "err"
  /\ UNCHANGED <<state, header, declared, frames, current, trailerLen>>

\* The next chunk; the loop of feed_inner has eaten the one before.
Feed ==
  /\ result = "running" /\ Available = 0
  /\ fed' \in fed + 1 .. Len(pack)
  /\ UNCHANGED <<pack, state, header, offset, declared, frames, current, trailerLen, result>>

\* feed_pack_header takes what is missing of the header, and reads it when
\* nothing is missing any more.
HeaderTake == IF HeaderLen - Len(header) <= Available THEN HeaderLen - Len(header) ELSE Available

CollectPackHeader ==
  /\ Handle("PackHeader", HeaderTake) /\ Len(header) + HeaderTake < HeaderLen
  /\ header' = header \o Input(HeaderTake)
  /\ Go("PackHeader")
  /\ UNCHANGED <<declared, frames, current, trailerLen>>

AcceptPackHeader ==
  /\ Handle("PackHeader", HeaderTake) /\ Len(header) + HeaderTake = HeaderLen
  /\ header' = header \o Input(HeaderTake)
  /\ HeaderValid(header')
  /\ declared' = header'[3]
  /\ Go(IF declared' = 0 THEN "Trailer" ELSE "ObjectHeader")
  /\ UNCHANGED <<frames, current, trailerLen>>

RejectPackHeader ==
  /\ Handle("PackHeader", HeaderTake) /\ Len(header) + HeaderTake = HeaderLen
  /\ ~HeaderValid(header \o Input(HeaderTake))
  /\ Fail

\* Mutant: the position taken before the byte is counted.
PayloadFromByte(object, encoded) ==
  /\ current' = [object EXCEPT !.encoded = encoded, !.compressedStart = offset]
  /\ Go("CompressedPayload")

\* begin_compressed_payload
Payload(object, encoded) ==
  /\ current' = [object EXCEPT !.encoded = encoded, !.compressedStart = offset']
  /\ Go("CompressedPayload")

\* The partial frame after the next byte of its header: a new one, or one whose
\* size grows at the high end.
NewObject(byte) ==
  [start |-> offset, kind |-> KindOf(byte), size |-> SizeOf(byte), shift |-> SizeRadix,
   encoded |-> [kind |-> 0], compressedStart |-> 0, compressedLen |-> 0, crc |-> <<byte>>,
   distance |-> None, oid |-> <<>>, out |-> 0, owed |-> 0, ended |-> FALSE]

MoreSize(byte) ==
  [current EXCEPT !.size = @ + Group(byte) * current.shift, !.shift = @ * Radix,
                  !.crc = Append(@, byte)]

ObjectHeader(byte) == IF current = NoObject THEN NewObject(byte) ELSE MoreSize(byte)

\* feed_object_header and finish_object_header
ObjectHeaderGoesOn ==
  /\ Handle("ObjectHeader", 1) /\ Continues(pack[offset + 1])
  /\ current' = ObjectHeader(pack[offset + 1])
  /\ Go("ObjectHeader")
  /\ UNCHANGED <<header, declared, frames, trailerLen>>

ObjectHeaderEnds ==
  /\ Handle("ObjectHeader", 1) /\ ~Continues(pack[offset + 1])
  /\ LET object == ObjectHeader(pack[offset + 1])
     IN \/ object.kind \in BaseKinds /\ Payload(object, [kind |-> object.kind])
        \/ object.kind = OffsetKind /\ current' = object /\ Go("OffsetDeltaBase")
        \/ object.kind = RefKind /\ current' = object /\ Go("RefDeltaBase")
  /\ UNCHANGED <<header, declared, frames, trailerLen>>

UnknownKind ==
  /\ Handle("ObjectHeader", 1) /\ ~Continues(pack[offset + 1])
  /\ ObjectHeader(pack[offset + 1]).kind \notin Kinds
  /\ Fail

\* feed_offset_delta_base
OffsetDelta(byte) ==
  [current EXCEPT !.distance = IF @ = None THEN Group(byte) ELSE (@ + 1) * Radix + Group(byte),
                  !.crc = Append(@, byte)]

OffsetDeltaGoesOn ==
  /\ Handle("OffsetDeltaBase", 1) /\ Continues(pack[offset + 1])
  /\ current' = OffsetDelta(pack[offset + 1])
  /\ Go("OffsetDeltaBase")
  /\ UNCHANGED <<header, declared, frames, trailerLen>>

OffsetDeltaEnds ==
  /\ Handle("OffsetDeltaBase", 1) /\ ~Continues(pack[offset + 1])
  /\ LET object == OffsetDelta(pack[offset + 1])
     IN /\ object.distance <= object.start
        /\ Payload(object, [kind |-> OffsetKind, offset |-> object.start - object.distance])
  /\ UNCHANGED <<header, declared, frames, trailerLen>>

BaseBeforePack ==
  /\ Handle("OffsetDeltaBase", 1) /\ ~Continues(pack[offset + 1])
  /\ OffsetDelta(pack[offset + 1]).distance > current.start
  /\ Fail

\* Mutants: an object id cut in two read from its start again; one that waits
\* until it is complete.
OidTakeAnew == IF OidLen <= Available THEN OidLen ELSE Available
OidTakeWhole == IF OidLen - Len(current.oid) <= Available THEN OidLen - Len(current.oid) ELSE 0

\* feed_ref_delta_base
OidTake == IF OidLen - Len(current.oid) <= Available THEN OidLen - Len(current.oid) ELSE Available

RefDelta(bytes) == [current EXCEPT !.oid = @ \o bytes, !.crc = @ \o bytes]

FeedRefDelta ==
  /\ Handle("RefDeltaBase", OidTake)
  /\ LET object == RefDelta(Input(OidTake))
     IN IF Len(object.oid) = OidLen
        THEN Payload(object, [kind |-> RefKind, oid |-> object.oid])
        ELSE current' = object /\ Go("RefDeltaBase")
  /\ UNCHANGED <<header, declared, frames, trailerLen>>

-----------------------------------------------------------------------------
(***************************************************************************)
(* feed_compressed_payload: one call of the decompressor.                  *)
(***************************************************************************)

\* The first n bytes of the input are of the stream and none breaks it.
InStream(n) ==
  /\ n <= Available
  /\ current.ended => n = 0
  /\ \A j \in 1 .. n : ~Corrupt(Input(n)[j]) /\ (j < n => Continues(Input(n)[j]))

StreamEnds(n) == current.ended \/ (n > 0 /\ ~Continues(Input(n)[n]))

\* What the decompressor has to give after n bytes more.
Owed(n) == current.owed + Inflated(Input(n))

\* It takes n bytes and gives m: it stops only at the end of the stream, when
\* the input is used up or the output buffer full.
Decompress(n, m) ==
  /\ InStream(n)
  /\ m = (IF Owed(n) <= OutputLen THEN Owed(n) ELSE OutputLen)
  /\ n = Available \/ m = OutputLen \/ StreamEnds(n)

Decompressed(n, m) ==
  [current EXCEPT !.crc = @ \o Input(n), !.compressedLen = @ + n, !.out = @ + m,
                  !.owed = Owed(n) - m, !.ended = StreamEnds(n)]

\* The end of the stream is reported when everything is out, or one call later
\* when that has filled the buffer.
EndDue(n, m) == StreamEnds(n) /\ Owed(n) = m

PayloadGoesOn ==
  \E n \in 0 .. Available, m \in 0 .. OutputLen :
    /\ Handle("CompressedPayload", n) /\ Decompress(n, m)
    /\ EndDue(n, m) => m = OutputLen
    /\ IF n + m = 0 THEN Fail   \* "decompressor made no progress"
       ELSE /\ current' = Decompressed(n, m)
            /\ Go("CompressedPayload")
            /\ UNCHANGED <<header, declared, frames, trailerLen>>

\* Mutant: the finished object stays current.
FinishFrameKeeps(object) ==
  /\ frames' = Append(frames,
       [offset |-> object.start, encoded |-> object.encoded,
        compressedStart |-> object.compressedStart, compressedLen |-> object.compressedLen,
        size |-> object.size, crc |-> object.crc])
  /\ current' = object
  /\ Go(IF Len(frames') = declared THEN "Trailer" ELSE "ObjectHeader")

\* finish_frame
FinishFrame(object) ==
  /\ frames' = Append(frames,
       [offset |-> object.start, encoded |-> object.encoded,
        compressedStart |-> object.compressedStart, compressedLen |-> object.compressedLen,
        size |-> object.size, crc |-> object.crc])
  /\ current' = NoObject
  /\ Go(IF Len(frames') = declared THEN "Trailer" ELSE "ObjectHeader")

PayloadEnds ==
  \E n \in 0 .. Available, m \in 0 .. OutputLen :
    /\ Handle("CompressedPayload", n) /\ Decompress(n, m)
    /\ EndDue(n, m)
    /\ current.out + m = current.size
    /\ FinishFrame(Decompressed(n, m))
    /\ UNCHANGED <<header, declared, trailerLen>>

WrongSize ==
  \E n \in 0 .. Available, m \in 0 .. OutputLen :
    /\ Handle("CompressedPayload", n) /\ Decompress(n, m)
    /\ EndDue(n, m)
    /\ current.out + m # current.size
    /\ Fail

\* The decompressor meets a byte that cannot be in the stream.
CorruptPayload ==
  \E n \in 0 .. Available - 1 :
    /\ Handle("CompressedPayload", 0) /\ InStream(n) /\ ~StreamEnds(n)
    /\ Corrupt(pack[offset + n + 1])
    /\ Fail

-----------------------------------------------------------------------------
\* feed_trailer takes all there is.
FeedTrailer ==
  /\ Handle("Trailer", Available)
  /\ trailerLen + Available <= TrailerLen
  /\ trailerLen' = trailerLen + Available
  /\ Go("Trailer")
  /\ UNCHANGED <<header, declared, frames, current>>

TrailerTooLong ==
  /\ Handle("Trailer", Available)
  /\ trailerLen + Available > TrailerLen
  /\ Fail

\* The source has ended: finish.
Finish ==
  /\ result = "running" /\ offset = Len(pack)
  /\ result' = IF Len(frames) = declared /\ trailerLen = TrailerLen THEN "ok" ELSE "err"
  /\ UNCHANGED <<pack, fed, state, header, offset, declared, frames, current, trailerLen>>

Done == result # "running" /\ UNCHANGED vars

Next ==
  \/ Feed
  \/ CollectPackHeader \/ AcceptPackHeader \/ RejectPackHeader
  \/ ObjectHeaderGoesOn \/ ObjectHeaderEnds \/ UnknownKind
  \/ OffsetDeltaGoesOn \/ OffsetDeltaEnds \/ BaseBeforePack
  \/ FeedRefDelta
  \/ PayloadGoesOn \/ PayloadEnds \/ WrongSize \/ CorruptPayload
  \/ FeedTrailer \/ TrailerTooLong
  \/ Finish \/ Done

\* The source delivers the rest of the pack or ends; a call of feed runs through.
Spec == Init /\ [][Next]_vars /\ WF_vars(Next)

-----------------------------------------------------------------------------
\* However the pack is cut into chunks, the frames found so far are the first
\* ones the parser of the whole pack finds, with their offsets, sizes, bases and
\* checksums: no state of the scanner loses or repeats a byte at a cut.
FramesAreThePacks ==
  HeaderValid(pack) => IsPrefix(frames, Scan(pack).frames)

\* The scanner accepts exactly the packs the parser of the whole pack accepts,
\* and with all their frames.
AcceptsValidPacks ==
  /\ result = "ok" => Valid(pack) /\ frames = Scan(pack).frames
  /\ result = "err" => ~Valid(pack)

\* The scanner comes to an end, whatever arrives: the loop of feed_inner goes on
\* as long as there is input, so no handler may for ever take none of it, as one
\* that waits for more would.
ScanEnds == <>(result # "running")
=============================================================================
