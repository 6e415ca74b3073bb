--------------------------- MODULE PipelineProofs ---------------------------
(***************************************************************************)
(* Proofs about the modules Pipeline and PipelineStates, for every pack,   *)
(* branch, number of workers and capacity of the channel: types; the way   *)
(* of a frame through the channel in pack order, into exactly one of the   *)
(* resolver's places; and what the clone does with the objects that are    *)
(* resolved: readers are woken in time and what they have seen stays true, *)
(* the store implements the ObjectStore module, the data of an object is   *)
(* where its state says, a checkout that succeeds has the whole branch,    *)
(* and a clone that succeeds has the whole pack.                           *)
(***************************************************************************)
EXTENDS PipelineStates, SequenceTheorems, TLAPS

-----------------------------------------------------------------------------
(***************************************************************************)
(* Facts about the helpers.                                                *)
(***************************************************************************)

\* The frames of a pack are the numbers up to its length, and each of them has
\* a kind, an object id and, unless it is a base object, a base.
LEMMA PackFacts ==
  ASSUME pack \in Packs
  PROVE  /\ pack \in Seq(Frame)
         /\ Len(pack) \in Nat
         /\ \A i \in Frames : pack[i] \in Frame /\ pack[i].oid \in Oid
<1>1. pack \in Seq(Frame)
  BY PacksAssumption
<1>2. \A i \in Frames : pack[i] \in Frame
  BY <1>1 DEF Frames
<1>3. \A f \in Frame : f.oid \in Oid
  BY DEF Frame
<1> QED
  BY <1>1, <1>2, <1>3

\* A notification keeps every reader a reader, wakes all that sleep and
\* disturbs no other.
LEMMA WokenFacts ==
  ASSUME reader \in [Readers -> ReaderState]
  PROVE  /\ Woken \in [Readers -> ReaderState]
         /\ \A r \in Readers :
              /\ Woken[r].state # "waiting"
              /\ Woken[r].oid = reader[r].oid
              /\ reader[r].state # "waiting" => Woken[r] = reader[r]
              /\ reader[r].state = "waiting" => Woken[r].state = "checking"
<1>1. \A r \in Readers : reader[r].state = "waiting" => reader[r].oid \in Oid
  BY DEF ReaderState, Idle
<1> QED
  BY <1>1 DEF Woken, ReaderState, Idle, Reading

\* Appending to and taking from the channel.
LEMMA QueueFacts ==
  ASSUME NEW S, NEW q \in Seq(S)
  PROVE  /\ Len(q) \in Nat
         /\ q # <<>> => /\ Head(q) \in S
                        /\ Tail(q) \in Seq(S)
                        /\ Len(Tail(q)) = Len(q) - 1
                        /\ \A k \in 1 .. Len(Tail(q)) : Tail(q)[k] = q[k + 1]
                        /\ Head(q) = q[1]
                        /\ Len(q) >= 1
         /\ \A e \in S : /\ Append(q, e) \in Seq(S)
                         /\ Len(Append(q, e)) = Len(q) + 1
                         /\ \A k \in 1 .. Len(q) : Append(q, e)[k] = q[k]
                         /\ Append(q, e)[Len(q) + 1] = e
OBVIOUS
-----------------------------------------------------------------------------
(***************************************************************************)
(* Type correctness.                                                       *)
(***************************************************************************)


\* What an action leaves alone keeps its type.
LEMMA UnchangedTypes ==
  ASSUME TypeOK, UNCHANGED pack
  PROVE  /\ pack' \in Packs
         /\ UNCHANGED <<fetchVars, queue>> => FetchTypeOK'
         /\ UNCHANGED resolverVars => ResolverTypeOK'
         /\ UNCHANGED storeVars => StoreTypeOK'
         /\ UNCHANGED checkoutVars => CheckoutTypeOK'
         /\ UNCHANGED reader => (reader \in [Readers -> ReaderState])'
<1>1. pack' \in Packs
  BY DEF TypeOK
<1>2. UNCHANGED <<fetchVars, queue>> => FetchTypeOK'
  BY DEF TypeOK, FetchTypeOK, fetchVars, Event
<1>3. UNCHANGED resolverVars => ResolverTypeOK'
  BY DEF TypeOK, ResolverTypeOK, resolverVars, Frames
<1>4. UNCHANGED storeVars => StoreTypeOK'
  BY DEF TypeOK, StoreTypeOK, storeVars
<1>5. UNCHANGED checkoutVars => CheckoutTypeOK'
  BY DEF TypeOK, CheckoutTypeOK, checkoutVars
<1>6. UNCHANGED reader => (reader \in [Readers -> ReaderState])'
  BY DEF TypeOK
<1> QED
  BY <1>1, <1>2, <1>3, <1>4, <1>5, <1>6

\* The initial state.
LEMMA TypeInit == Init => TypeOK
<1> SUFFICES ASSUME Init
             PROVE  TypeOK
  OBVIOUS
<1>1. Len(pack) \in Nat
  BY PackFacts DEF Init
<1>2. outbox \in Event
  BY <1>1 DEF Init, Event, FinishedEvent
<1>3. FetchTypeOK
  BY <1>1, <1>2, ThreadsAssumption DEF Init, FetchTypeOK
<1>4. ResolverTypeOK
  BY <1>1 DEF Init, ResolverTypeOK, Frames
<1>5. StoreTypeOK /\ CheckoutTypeOK
  BY DEF Init, StoreTypeOK, CheckoutTypeOK
<1>6. reader \in [Readers -> ReaderState]
  BY DEF Init, ReaderState
<1> QED
  BY <1>3, <1>4, <1>5, <1>6 DEF Init, TypeOK

\* The fetch thread.
LEMMA FetchType == TypeOK /\ Fetch => TypeOK'
<1> SUFFICES ASSUME TypeOK, Fetch
             PROVE  TypeOK'
  OBVIOUS
<1>1. /\ UNCHANGED <<pack, outcome, reader>>
      /\ ResolverTypeOK' /\ StoreTypeOK' /\ CheckoutTypeOK'
  BY UnchangedTypes DEF Fetch, ReceivePack, EndOfPack, Send, SendFails, FetchEnds, FetchFails,
                        FetchGoes
<1>2. FetchTypeOK'
  <2> USE DEF FetchTypeOK, FetchGoes
  <2>1. TypeOK /\ Len(pack) \in Nat /\ FetchTypeOK /\ Event' = Event
    BY <1>1, PackFacts DEF TypeOK, Event
  <2>2. CASE ReceivePack
    BY <2>1, <2>2 DEF ReceivePack, FramesEvent, Event
  <2>3. CASE EndOfPack
    BY <2>1, <2>3 DEF EndOfPack, FinishedEvent, Event
  <2>4. CASE Send
    <3>1. queue' \in Seq(Event) /\ Len(queue') = Len(queue) + 1
      BY <2>1, <2>4, QueueFacts DEF Send
    <3>2. Len(queue') <= QueueCapacity
      BY <2>1, <2>4, <3>1, QueueFacts, ThreadsAssumption DEF Send
    <3> QED
      BY <2>1, <2>4, <3>1, <3>2 DEF Send
  <2>5. CASE SendFails
    BY <2>1, <2>5 DEF SendFails
  <2>6. CASE FetchEnds
    BY <2>1, <2>6 DEF FetchEnds
  <2>7. CASE FetchFails
    BY <2>1, <2>7 DEF FetchFails
  <2> QED
    BY <2>2, <2>3, <2>4, <2>5, <2>6, <2>7 DEF Fetch
<1> QED
  BY <1>1, <1>2 DEF TypeOK

\* The resolver.
LEMMA ResolveType == TypeOK /\ Resolve => TypeOK'
<1> SUFFICES ASSUME TypeOK, Resolve
             PROVE  TypeOK'
  OBVIOUS
<1> DEFINE Quiet == StartResolver \/ ReceiveFails \/ ResolveFails \/ ResolverPanics
                    \/ CheckPending \/ IndexFileFails \/ ResolverEnds
<1>1. /\ UNCHANGED <<pack, outcome, fetchVars, checkoutVars>>
      /\ CheckoutTypeOK'
      /\ Len(pack) \in Nat
  BY UnchangedTypes, PackFacts
     DEF TypeOK, Resolve, StartResolver, ReceiveFrames, ReceiveFinished, ReceiveFails, AcceptFrame,
         PublishObject, NotifyReaders, ResolveFails, ResolverPanics, CheckPending,
         WriteIndexFile, IndexFileFails, CompleteStore, ResolverEnds, FailStore, ResolverGoes
<1> SUFFICES FetchTypeOK' /\ ResolverTypeOK' /\ StoreTypeOK'
             /\ (reader \in [Readers -> ReaderState])'
  BY <1>1 DEF TypeOK
<1>2. CASE ReceiveFrames \/ ReceiveFinished
  <2>1. queue # <<>> /\ queue' = Tail(queue) /\ UNCHANGED <<storeVars, reader>>
    BY <1>2 DEF ReceiveFrames, ReceiveFinished
  <2>2. /\ Tail(queue) \in Seq(Event)
        /\ Head(queue) \in Event
        /\ Len(Tail(queue)) <= QueueCapacity
    BY <2>1, QueueFacts, ThreadsAssumption DEF TypeOK, FetchTypeOK
  <2>3. FetchTypeOK'
    BY <1>1, <2>1, <2>2 DEF TypeOK, FetchTypeOK, fetchVars, Event
  <2>4. batch' \in [first : 1 .. Len(pack) + 1, last : 0 .. Len(pack)]
    <3>1. CASE ReceiveFrames
      BY <2>2, <3>1 DEF ReceiveFrames, Event
    <3>2. CASE ReceiveFinished
      BY <3>2 DEF ReceiveFinished, frameVars, TypeOK, ResolverTypeOK
    <3> QED
      BY <1>2, <3>1, <3>2
  <2>5. UNCHANGED <<pending, work, resolved, indexed>> /\ resolverPc' \in {"running", "finishing"}
    BY <1>2 DEF ReceiveFrames, ReceiveFinished, ResolverGoes, frameVars
  <2>6. ResolverTypeOK'
    BY <1>1, <2>4, <2>5 DEF TypeOK, ResolverTypeOK, Frames
  <2> QED
    BY <1>1, <2>1, <2>3, <2>6, UnchangedTypes DEF TypeOK
<1>3. CASE AcceptFrame
  <2>1. batch.first \in Frames /\ batch.first + 1 \in 1 .. Len(pack) + 1
    BY <1>1, <1>3 DEF AcceptFrame, TypeOK, ResolverTypeOK, Frames
  <2>2. ResolverTypeOK'
    BY <1>1, <1>3, <2>1 DEF AcceptFrame, ResolverGoes, TypeOK, ResolverTypeOK, Frames
  <2> QED
    BY <1>1, <1>3, <2>2, UnchangedTypes DEF AcceptFrame
<1>4. ASSUME NEW i \in Frames, PublishObject(i)
      PROVE  FetchTypeOK' /\ ResolverTypeOK' /\ StoreTypeOK'
             /\ (reader \in [Readers -> ReaderState])'
  <2>1. pack[i].oid \in Oid
    BY PackFacts DEF TypeOK
  <2>2. StoreTypeOK'
    BY <1>4, <2>1 DEF PublishObject, TypeOK, StoreTypeOK
  <2>3. ReleasedBy(i) \subseteq pending
    BY DEF ReleasedBy
  <2>4. ResolverTypeOK'
    BY <1>1, <1>4, <2>3 DEF PublishObject, ResolverGoes, TypeOK, ResolverTypeOK, Frames
  <2> QED
    BY <1>1, <1>4, <2>2, <2>4, UnchangedTypes DEF PublishObject
<1>5. CASE NotifyReaders \/ CompleteStore \/ FailStore
  <2>1. UNCHANGED queue /\ reader' = Woken
    BY <1>5 DEF NotifyReaders, CompleteStore, FailStore
  <2>2. (reader \in [Readers -> ReaderState])'
    BY <2>1, WokenFacts DEF TypeOK
  <2>3. StoreTypeOK'
    BY <1>5 DEF NotifyReaders, CompleteStore, FailStore, TypeOK, StoreTypeOK, storeVars
  <2>4. ResolverTypeOK'
    BY <1>1, <1>5 DEF NotifyReaders, CompleteStore, FailStore, ResolverGoes, frameVars,
                      TypeOK, ResolverTypeOK, Frames
  <2> QED
    BY <1>1, <2>1, <2>2, <2>3, <2>4, UnchangedTypes
<1>6. CASE Quiet \/ WriteIndexFile
  <2>1. UNCHANGED <<queue, frameVars, storeVars, reader>>
    BY <1>6 DEF StartResolver, ReceiveFails, ResolveFails, ResolverPanics, CheckPending,
                IndexFileFails, ResolverEnds, WriteIndexFile
  <2>2. indexed' \in {indexed, resolved}
    BY <1>6 DEF StartResolver, ReceiveFails, ResolveFails, ResolverPanics, CheckPending,
                IndexFileFails, ResolverEnds, WriteIndexFile
  <2>3. resolverPc' \in {"running", "failing", "panicked", "indexing", "completing", "ok"}
    BY <1>6 DEF StartResolver, ReceiveFails, ResolveFails, ResolverPanics, CheckPending,
                IndexFileFails, ResolverEnds, WriteIndexFile, ResolverGoes
  <2>4. ResolverTypeOK'
    BY <1>1, <2>1, <2>2, <2>3 DEF TypeOK, ResolverTypeOK, frameVars, Frames
  <2> QED
    BY <1>1, <2>1, <2>4, UnchangedTypes
<1> QED
  BY <1>2, <1>3, <1>4, <1>5, <1>6 DEF Resolve

\* A reader of the store.
LEMMA ReadType ==
  ASSUME TypeOK, NEW r \in Readers, Read(r) \/ SpuriousWakeup(r)
  PROVE  TypeOK'
<1>1. \E state \in {"checking", "waiting", "got", "refused"} : ReaderSteps(r, state)
  BY DEF Read, ReadHit, ReadRefused, ReadWaits, SpuriousWakeup
<1>2. /\ reader[r].oid \in Oid
      /\ reader[r] \in [state : {"checking", "waiting", "got", "refused"}, oid : Oid]
  BY DEF TypeOK, ReaderState, Idle, Read, ReadHit, ReadRefused, ReadWaits, SpuriousWakeup
<1>3. reader' \in [Readers -> ReaderState]
  BY <1>1, <1>2 DEF TypeOK, ReaderState, ReaderSteps
<1> QED
  BY <1>1, <1>3, UnchangedTypes DEF TypeOK, ReaderSteps

\* The main thread and the workers.
LEMMA CheckoutType ==
  ASSUME TypeOK, Checkout \/ \E w \in Workers : Work(w)
  PROVE  TypeOK'
<1> USE DEF CheckoutTypeOK
<1>1. Main \in Readers /\ Workers \subseteq Readers
  BY DEF Readers
<1>2. Idle \in ReaderState /\ \A o \in Oid : Reading(o) \in ReaderState
  BY DEF ReaderState, Reading
<1>3. \A r \in Readers : reader[r].state \in {"got", "refused"} => reader[r].oid \in Oid
  BY DEF TypeOK, ReaderState, Idle
<1>4. CheckoutTypeOK /\ reader \in [Readers -> ReaderState]
  BY DEF TypeOK
<1>5. CheckoutStep
  BY DEF Checkout, RequestCommit, ParseCommit, RequestTree, ParseTree, StartFiles, MainFails,
         EndFiles, WriteGitIndex, Work, TakeFile, WriteFile, FileFails
<1> SUFFICES CheckoutTypeOK' /\ reader' \in [Readers -> ReaderState]
  BY <1>5, UnchangedTypes DEF CheckoutStep, TypeOK
<1>6. CASE RequestCommit
  BY <1>1, <1>2, <1>4, <1>6, CheckoutAssumption DEF RequestCommit, checkoutVars
<1>7. CASE ParseCommit
  BY <1>1, <1>2, <1>4, <1>7, CheckoutAssumption DEF ParseCommit
<1>8. CASE RequestTree
  BY <1>1, <1>2, <1>4, <1>8 DEF RequestTree
<1>9. CASE ParseTree
  <2>1. /\ reader[Main].oid \in Oid
        /\ SubTrees[reader[Main].oid] \subseteq Oid
        /\ Blobs[reader[Main].oid] \subseteq Oid
    BY <1>1, <1>3, <1>9, CheckoutAssumption DEF ParseTree
  <2> QED
    BY <1>1, <1>2, <1>4, <1>9, <2>1 DEF ParseTree
<1>10. CASE StartFiles
  BY <1>4, <1>10 DEF StartFiles
<1>11. CASE MainFails
  BY <1>1, <1>2, <1>4, <1>11 DEF MainFails
<1>12. CASE EndFiles
  BY <1>4, <1>12 DEF EndFiles
<1>13. CASE WriteGitIndex
  BY <1>4, <1>13 DEF WriteGitIndex
<1>14. ASSUME NEW w \in Workers, TakeFile(w)
       PROVE  CheckoutTypeOK' /\ reader' \in [Readers -> ReaderState]
  BY <1>1, <1>2, <1>4, <1>14 DEF TakeFile
<1>15. ASSUME NEW w \in Workers, WriteFile(w)
       PROVE  CheckoutTypeOK' /\ reader' \in [Readers -> ReaderState]
  BY <1>1, <1>2, <1>3, <1>4, <1>15 DEF WriteFile
<1>16. ASSUME NEW w \in Workers, FileFails(w)
       PROVE  CheckoutTypeOK' /\ reader' \in [Readers -> ReaderState]
  BY <1>1, <1>2, <1>4, <1>16 DEF FileFails
<1> QED
  BY <1>6, <1>7, <1>8, <1>9, <1>10, <1>11, <1>12, <1>13, <1>14, <1>15, <1>16 DEF Checkout, Work

\* Every variable keeps its type: no event, frame or thread ever leaves the sets
\* the code's types allow, and the channel never exceeds its capacity.
THEOREM TypeCorrect == Safety => []TypeOK
<1>1. TypeOK /\ [Next]_vars => TypeOK'
  <2> SUFFICES ASSUME TypeOK, [Next]_vars
               PROVE  TypeOK'
    OBVIOUS
  <2>1. CASE JoinThreads
    <3>1. outcome' \in {"none", "ok", "fetchError", "resolverError", "checkoutError"}
      BY <2>1 DEF JoinThreads, Outcome
    <3> QED
      BY <2>1, <3>1, UnchangedTypes DEF JoinThreads, TypeOK
  <2>2. CASE Done \/ UNCHANGED vars
    BY <2>2, UnchangedTypes DEF Done, vars, TypeOK
  <2> QED
    BY <2>1, <2>2, FetchType, ResolveType, ReadType, CheckoutType DEF Next
<1> QED
  BY <1>1, TypeInit, PTL DEF Safety

-----------------------------------------------------------------------------
(***************************************************************************)
(* The channel.  ChannelInOrder is not inductive: that the next batch is   *)
(* numbered after the last one sent must hold while the resolver is gone   *)
(* too, as long as the fetch thread has not noticed it, and nothing may    *)
(* follow Finished.                                                        *)
(***************************************************************************)
SendNeverFailed == fetchPc # "err" \/ ReceiverAlive

ChannelInv ==
  /\ ChannelInOrder
  /\ SendNeverFailed => scanned = SentBefore(Len(Sent) + 1)
  /\ fetchPc = "reading" => \A k \in 1 .. Len(queue) : queue[k].type = "Frames"
  /\ \A k \in 1 .. Len(Sent) : Sent[k].type = "Finished" => scanned = Len(pack)
  /\ fetchPc \in {"flushing", "ok"} => scanned = Len(pack)

\* What is in flight: the queue, and what is being sent.
LEMMA SentFacts ==
  ASSUME TypeOK
  PROVE  /\ Sent \in Seq(Event)
         /\ Len(Sent) \in Nat
         /\ \A k \in 1 .. Len(Sent) : /\ Sent[k] \in Event
                                      /\ Sent[k].last \in Nat
                                      /\ Sent[k].first \in Nat
         /\ fetchPc # "sending" => Sent = queue
         /\ fetchPc = "sending" => Sent = Append(queue, outbox)
         /\ \A k \in 1 .. Len(queue) : Sent[k] = queue[k]
         /\ Len(queue) \in Nat
         /\ Len(queue) <= Len(Sent)
<1>1. queue \in Seq(Event) /\ outbox \in Event /\ Len(pack) \in Nat
  BY PackFacts DEF TypeOK, FetchTypeOK
<1>2. Sent \in Seq(Event)
  BY <1>1, QueueFacts DEF Sent
<1>3. \A e \in Event : e.last \in Nat /\ e.first \in Nat
  BY <1>1 DEF Event
<1>4. Len(queue) \in Nat /\ Len(queue) <= Len(Sent)
      /\ \A k \in 1 .. Len(queue) : Sent[k] = queue[k]
  BY <1>1, QueueFacts DEF Sent
<1> QED
  BY <1>1, <1>2, <1>3, <1>4 DEF Sent

\* The fetch thread appends events that continue the numbering.
LEMMA FetchKeepsChannel ==
  ASSUME TypeOK, TypeOK', ChannelInv, Fetch
  PROVE  ChannelInv'
<1>1. /\ Len(pack) \in Nat /\ UNCHANGED <<pack, resolverVars>>
      /\ scanned \in Nat /\ Len(queue) \in Nat /\ batch.last \in Nat
  BY PackFacts, SentFacts DEF TypeOK, FetchTypeOK, ResolverTypeOK, Fetch, ReceivePack, EndOfPack,
     Send, SendFails, FetchEnds, FetchFails, FetchGoes
<1>2. ASSUME fetchPc = "reading", fetchPc' = "sending", UNCHANGED queue,
             outbox'.first = scanned + 1, outbox'.last = scanned',
             \/ outbox'.type = "Frames" /\ scanned + 1 <= scanned'
             \/ outbox'.type = "Finished" /\ scanned' = scanned /\ scanned = Len(pack)
      PROVE  ChannelInv'
  <2>1. Sent = queue /\ Sent' = Append(queue, outbox')
    BY <1>2 DEF Sent
  <2>2. /\ Len(Sent') = Len(queue) + 1
        /\ Sent'[Len(queue) + 1] = outbox'
        /\ \A k \in 1 .. Len(queue) : Sent'[k] = queue[k]
    BY <2>1, <1>2, QueueFacts DEF TypeOK, FetchTypeOK
  <2>3. \A k \in 1 .. Len(queue) + 1 : SentBefore(k)' = SentBefore(k)
    BY <1>1, <2>1, <2>2 DEF SentBefore, resolverVars
  <2>4. SentBefore(Len(queue) + 1) = scanned
    BY <1>2, <2>1 DEF ChannelInv, SendNeverFailed
  <2>5. SentBefore(Len(Sent) + 1)' = scanned'
    BY <1>1, <1>2, <2>2 DEF SentBefore
  <2>6. ASSUME NEW k \in 1 .. Len(Sent')
        PROVE  /\ Sent'[k].first = SentBefore(k)' + 1
               /\ Sent'[k].type = "Frames" => Sent'[k].first <= Sent'[k].last
               /\ Sent'[k].type = "Finished" => k = Len(Sent') /\ SentBefore(k)' = Len(pack)
    <3>1. CASE k = Len(queue) + 1
      BY <1>1, <1>2, <2>2, <2>3, <2>4, <3>1
    <3>2. CASE k \in 1 .. Len(queue)
      <4>1. /\ Sent[k].first = SentBefore(k) + 1
            /\ Sent[k].type = "Frames" => Sent[k].first <= Sent[k].last
            /\ Sent[k].type = "Frames"
        BY <1>2, <2>1, <3>2 DEF ChannelInv, ChannelInOrder
      <4> QED
        BY <1>1, <2>1, <2>2, <2>3, <3>2, <4>1
    <3> QED
      BY <1>1, <2>2, <3>1, <3>2
  <2>7. ChannelInOrder'
    BY <1>1, <2>5, <2>6 DEF ChannelInOrder, ReceiverAlive
  <2>8. \A k \in 1 .. Len(Sent') : Sent'[k].type = "Finished" => scanned' = Len(pack')
    BY <1>1, <1>2, <2>1, <2>2 DEF ChannelInv
  <2> QED
    BY <1>2, <2>5, <2>7, <2>8 DEF ChannelInv
<1>3. CASE ReceivePack
  <2>1. /\ outbox'.type = "Frames" /\ outbox'.first = scanned + 1 /\ outbox'.last = scanned'
        /\ scanned + 1 <= scanned'
    BY <1>1, <1>3 DEF ReceivePack, FramesEvent
  <2> QED
    BY <1>2, <1>3, <2>1 DEF ReceivePack, FetchGoes
<1>4. CASE EndOfPack
  <2>1. /\ outbox'.type = "Finished" /\ outbox'.first = scanned + 1 /\ outbox'.last = scanned'
        /\ scanned' = scanned /\ scanned = Len(pack)
    BY <1>1, <1>4 DEF EndOfPack, FinishedEvent
  <2> QED
    BY <1>2, <1>4, <2>1 DEF EndOfPack, FetchGoes
<1>5. CASE Send
  <2>1. fetchPc = "sending" /\ fetchPc' \in {"flushing", "reading"} /\ Sent' = Sent
        /\ UNCHANGED scanned
    BY <1>5 DEF Send, FetchGoes, Sent
  <2>2. /\ \A k : SentBefore(k)' = SentBefore(k)
        /\ SentBefore(Len(Sent) + 1)' = SentBefore(Len(Sent) + 1)
        /\ ReceiverAlive' = ReceiverAlive
    BY <1>1, <2>1 DEF SentBefore, ReceiverAlive, resolverVars
  <2>3. ChannelInOrder'
    BY <1>1, <2>1, <2>2 DEF ChannelInv, ChannelInOrder
  <2>4. SendNeverFailed /\ scanned' = SentBefore(Len(Sent) + 1)'
    BY <2>1, <2>2 DEF ChannelInv, SendNeverFailed
  <2>5. Sent[Len(Sent)] = outbox /\ Len(Sent) = Len(queue) + 1 /\ queue' = Sent
    BY <1>5, <2>1, QueueFacts DEF TypeOK, FetchTypeOK, Sent, Send
  <2>6. ASSUME fetchPc' = "reading"
        PROVE  \A k \in 1 .. Len(queue') : queue'[k].type = "Frames"
    <3>1. outbox.type = "Frames"
      BY <1>5, <2>6 DEF Send, FetchGoes, TypeOK, FetchTypeOK, Event
    <3>2. \A k \in 1 .. Len(Sent) : Sent[k].type \in {"Frames", "Finished"}
      BY SentFacts DEF Event
    <3> QED
      BY <1>1, <2>5, <3>1, <3>2, SentFacts DEF ChannelInv, ChannelInOrder
  <2>7. fetchPc' = "flushing" => scanned' = Len(pack)'
    <3>1. fetchPc' = "flushing" => outbox.type = "Finished"
      BY <1>5 DEF Send, FetchGoes
    <3> QED
      BY <1>1, <2>1, <2>5, <3>1 DEF ChannelInv
  <2>8. \A k \in 1 .. Len(Sent') : Sent'[k].type = "Finished" => scanned' = Len(pack')
    BY <1>1, <2>1 DEF ChannelInv
  <2> QED
    BY <2>1, <2>3, <2>4, <2>6, <2>7, <2>8 DEF ChannelInv
<1>6. CASE SendFails
  <2>1. /\ fetchPc = "sending" /\ fetchPc' = "err" /\ UNCHANGED <<queue, scanned, outbox>>
        /\ ~ReceiverAlive /\ ~ReceiverAlive'
    BY <1>1, <1>6 DEF SendFails, FetchGoes, ReceiverAlive, resolverVars
  <2>2. /\ Sent' = queue /\ Len(Sent) = Len(queue) + 1
        /\ \A k \in 1 .. Len(queue) : Sent[k] = queue[k]
    BY <2>1, QueueFacts DEF Sent, TypeOK, FetchTypeOK
  <2>3. \A k \in 1 .. Len(queue) : SentBefore(k)' = SentBefore(k)
    BY <1>1, <2>2 DEF SentBefore, resolverVars
  <2>4. ChannelInOrder'
    BY <1>1, <2>1, <2>2, <2>3 DEF ChannelInv, ChannelInOrder
  <2>5. \A k \in 1 .. Len(Sent') : Sent'[k].type = "Finished" => scanned' = Len(pack')
    BY <1>1, <2>1, <2>2 DEF ChannelInv
  <2> QED
    BY <1>1, <2>1, <2>4, <2>5 DEF ChannelInv, SendNeverFailed
<1>7. CASE FetchEnds \/ FetchFails
  <2>1. /\ fetchPc \in {"reading", "flushing"} /\ fetchPc' \in {"ok", "err"}
        /\ UNCHANGED <<queue, scanned, outbox>>
        /\ fetchPc = "reading" => fetchPc' = "err"
    BY <1>7 DEF FetchEnds, FetchFails, FetchGoes
  <2>2. Sent' = Sent
    BY <2>1 DEF Sent
  <2>3. \A k \in 1 .. Len(Sent) + 1 : SentBefore(k)' = SentBefore(k)
    BY <1>1, <2>2 DEF SentBefore, resolverVars
  <2>4. SentBefore(Len(Sent) + 1)' = scanned'
    BY <2>1, <2>2, <2>3, SentFacts DEF ChannelInv, SendNeverFailed
  <2>5. ChannelInOrder'
    BY <1>1, <2>1, <2>2, <2>3, <2>4, SentFacts DEF ChannelInv, ChannelInOrder
  <2> QED
    BY <1>1, <2>1, <2>2, <2>4, <2>5 DEF ChannelInv, SendNeverFailed
<1> QED
  BY <1>3, <1>4, <1>5, <1>6, <1>7 DEF Fetch

\* The resolver takes the first event; what is left continues after it.
LEMMA ResolveKeepsChannel ==
  ASSUME TypeOK, TypeOK', ChannelInv, Resolve
  PROVE  ChannelInv'
<1>1. /\ UNCHANGED <<pack, fetchVars>> /\ Len(pack) \in Nat
      /\ Sent \in Seq(Event) /\ Len(Sent) \in Nat
  BY PackFacts, SentFacts
     DEF TypeOK, Resolve, StartResolver, ReceiveFrames, ReceiveFinished, ReceiveFails,
         AcceptFrame, PublishObject, NotifyReaders, ResolveFails, ResolverPanics, CheckPending,
         WriteIndexFile, IndexFileFails, CompleteStore, ResolverEnds, FailStore, ResolverGoes
<1>2. ReceiverAlive' => ReceiverAlive
  BY DEF Resolve, StartResolver, ReceiveFrames, ReceiveFinished, ReceiveFails,
         AcceptFrame, PublishObject, NotifyReaders, ResolveFails, ResolverPanics, CheckPending,
         WriteIndexFile, IndexFileFails, CompleteStore, ResolverEnds, FailStore, ResolverGoes,
         ReceiverAlive
<1>3. SendNeverFailed' => SendNeverFailed
  BY <1>1, <1>2 DEF SendNeverFailed, fetchVars
<1>4. CASE UNCHANGED queue /\ batch'.last = batch.last
  <2>1. Sent' = Sent
    BY <1>1, <1>4 DEF Sent, fetchVars
  <2>2. \A k \in 1 .. Len(Sent) + 1 : SentBefore(k)' = SentBefore(k)
    BY <1>4, <2>1 DEF SentBefore
  <2> QED
    BY <1>1, <1>2, <1>3, <1>4, <2>1, <2>2 DEF ChannelInv, ChannelInOrder, fetchVars
<1>5. ASSUME queue # <<>>, queue' = Tail(queue), batch'.last = Sent[1].last
      PROVE  ChannelInv'
  <2>1. /\ Len(Sent) >= 1 /\ Len(Sent') = Len(Sent) - 1
        /\ \A k \in 1 .. Len(Sent') : Sent'[k] = Sent[k + 1]
        /\ Len(queue') = Len(queue) - 1
        /\ \A k \in 1 .. Len(queue') : queue'[k] = queue[k + 1]
        /\ Len(queue') \in Nat
    BY <1>1, <1>5, QueueFacts DEF TypeOK, FetchTypeOK, Sent, fetchVars
  <2>2. \A k \in 1 .. Len(Sent') + 1 : SentBefore(k)' = SentBefore(k + 1)
    <3>1. SentBefore(1)' = SentBefore(2)
      BY <1>5 DEF SentBefore
    <3>2. ASSUME NEW k \in 2 .. Len(Sent') + 1
          PROVE  SentBefore(k)' = SentBefore(k + 1)
      <4>1. k - 1 \in 1 .. Len(Sent') /\ k # 1 /\ k + 1 # 1
        BY <1>1, <2>1
      <4>2. Sent'[k - 1] = Sent[k]
        BY <2>1, <4>1
      <4> QED
        BY <4>1, <4>2 DEF SentBefore
    <3> QED
      BY <1>1, <2>1, <3>1, <3>2
  <2>3. SentBefore(Len(Sent) + 1)' = SentBefore(Len(Sent) + 1)
    BY <1>1, <1>5, <2>1 DEF SentBefore
  <2>4. ASSUME NEW k \in 1 .. Len(Sent')
        PROVE  /\ Sent'[k].first = SentBefore(k)' + 1
               /\ Sent'[k].type = "Frames" => Sent'[k].first <= Sent'[k].last
               /\ Sent'[k].type = "Finished" => k = Len(Sent') /\ SentBefore(k)' = Len(pack)
    <3>1. k + 1 \in 1 .. Len(Sent) /\ k \in 1 .. Len(Sent') + 1
      BY <1>1, <2>1
    <3> QED
      BY <1>1, <2>1, <2>2, <3>1 DEF ChannelInv, ChannelInOrder
  <2>5. ChannelInOrder'
    BY <1>1, <1>2, <2>1, <2>3, <2>4 DEF ChannelInv, ChannelInOrder, fetchVars
  <2>6. SendNeverFailed' => scanned' = SentBefore(Len(Sent) + 1)'
    BY <1>1, <1>3, <2>3 DEF ChannelInv, fetchVars
  <2>7. fetchPc' = "reading" => \A k \in 1 .. Len(queue') : queue'[k].type = "Frames"
    BY <1>1, <2>1 DEF ChannelInv, fetchVars
  <2>8. \A k \in 1 .. Len(Sent') : Sent'[k].type = "Finished" => scanned' = Len(pack')
    <3>1. \A k \in 1 .. Len(Sent') : k + 1 \in 1 .. Len(Sent) /\ Sent'[k] = Sent[k + 1]
      BY <1>1, <2>1
    <3> QED
      BY <1>1, <3>1 DEF ChannelInv, fetchVars
  <2> QED
    BY <1>1, <2>5, <2>6, <2>7, <2>8 DEF ChannelInv, fetchVars
<1>6. CASE ReceiveFrames
  BY <1>5, <1>6, SentFacts, QueueFacts DEF ReceiveFrames, TypeOK, FetchTypeOK
<1>7. CASE ReceiveFinished
  <2>1. queue # <<>> /\ queue' = Tail(queue) /\ UNCHANGED batch /\ queue[1].type = "Finished"
    BY <1>7, QueueFacts DEF ReceiveFinished, frameVars, TypeOK, FetchTypeOK
  <2>2. 1 \in 1 .. Len(Sent) /\ Sent[1] = queue[1] /\ Sent[1].type = "Finished"
    BY <2>1, SentFacts, QueueFacts DEF TypeOK, FetchTypeOK
  <2>3. 1 = Len(Sent) /\ fetchPc # "reading" /\ Sent = queue
    <3>1. 1 = Len(Sent)
      BY <2>2 DEF ChannelInv, ChannelInOrder
    <3>2. fetchPc # "reading"
      BY <2>1, QueueFacts DEF ChannelInv, TypeOK, FetchTypeOK
    <3> QED
      BY <2>1, <3>1, <3>2, QueueFacts DEF Sent, TypeOK, FetchTypeOK
  <2>4. Sent' = <<>> /\ queue' = <<>>
    BY <1>1, <2>1, <2>3, QueueFacts DEF Sent, fetchVars, TypeOK, FetchTypeOK
  <2>5. batch.last = Len(pack)
    BY <1>1, <2>2, <2>3 DEF ChannelInv, ChannelInOrder, SentBefore
  <2>6. scanned = Len(pack)
    BY <1>1, <2>2 DEF ChannelInv
  <2>7. ChannelInOrder' /\ scanned' = SentBefore(Len(Sent) + 1)'
    BY <1>1, <2>1, <2>4, <2>5, <2>6 DEF ChannelInOrder, SentBefore, fetchVars
  <2> QED
    BY <1>1, <2>4, <2>6, <2>7 DEF ChannelInv, fetchVars
<1>8. CASE AcceptFrame
  BY <1>4, <1>8 DEF AcceptFrame, TypeOK, ResolverTypeOK
<1>9. ASSUME ~ReceiveFrames, ~ReceiveFinished, ~AcceptFrame
      PROVE  UNCHANGED queue /\ UNCHANGED batch
  BY <1>9 DEF Resolve, StartResolver, ReceiveFails, PublishObject, NotifyReaders, ResolveFails,
              ResolverPanics, CheckPending, WriteIndexFile, IndexFileFails, CompleteStore,
              ResolverEnds, FailStore, frameVars
<1> QED
  BY <1>4, <1>6, <1>7, <1>8, <1>9

\* Every other action leaves the channel, its two ends and what the resolver
\* does with a frame alone.
OtherSteps ==
  \/ \E r \in Readers : Read(r) \/ SpuriousWakeup(r)
  \/ Checkout
  \/ \E w \in Workers : Work(w)
  \/ JoinThreads
  \/ Done
  \/ UNCHANGED vars

\* The other threads do not touch the channel or the store.
LEMMA OtherStepsFacts ==
  OtherSteps => UNCHANGED <<pack, fetchVars, queue, resolverVars, storeVars>>
BY DEF OtherSteps, Read, ReadHit, ReadRefused, ReadWaits, SpuriousWakeup, ReaderSteps, Checkout,
       RequestCommit, ParseCommit, RequestTree, ParseTree, StartFiles, MainFails, EndFiles,
       WriteGitIndex, Work, TakeFile, WriteFile, FileFails, CheckoutStep, JoinThreads, Done, vars

\* Nothing is in flight at first.
LEMMA ChannelInit == Init => ChannelInv
<1> SUFFICES ASSUME Init
             PROVE  ChannelInv
  OBVIOUS
<1>1. Sent = <<>> /\ queue = <<>> /\ SentBefore(1) = 0
  BY DEF Init, Sent, SentBefore
<1> QED
  BY <1>1 DEF Init, ChannelInv, ChannelInOrder

\* Every step keeps the channel in order.
LEMMA ChannelStep == TypeOK /\ TypeOK' /\ ChannelInv /\ [Next]_vars => ChannelInv'
<1> SUFFICES ASSUME TypeOK, TypeOK', ChannelInv, [Next]_vars
             PROVE  ChannelInv'
  OBVIOUS
<1>1. CASE OtherSteps
  <2>1. UNCHANGED <<pack, fetchVars, queue, resolverVars>>
    BY <1>1, OtherStepsFacts
  <2>2. Sent' = Sent
    BY <2>1 DEF Sent, fetchVars
  <2>3. \A k : SentBefore(k)' = SentBefore(k)
    BY <2>1, <2>2 DEF SentBefore, resolverVars
  <2>4. ReceiverAlive' = ReceiverAlive /\ SendNeverFailed' = SendNeverFailed
    BY <2>1 DEF ReceiverAlive, SendNeverFailed, fetchVars, resolverVars
  <2>5. SentBefore(Len(Sent) + 1)' = SentBefore(Len(Sent) + 1)
    BY <2>1, <2>2 DEF SentBefore, resolverVars
  <2>6. ChannelInOrder'
    BY <2>1, <2>2, <2>3, <2>4, <2>5 DEF ChannelInv, ChannelInOrder, fetchVars
  <2> QED
    BY <2>1, <2>2, <2>4, <2>5, <2>6 DEF ChannelInv, fetchVars
<1> QED
  BY <1>1, FetchKeepsChannel, ResolveKeepsChannel DEF Next, OtherSteps

\* The channel delivers the frames of the pack in order, without gap or
\* repetition, and Finished only after the last one.
THEOREM ChannelCorrect == Safety => []ChannelInOrder
<1>1. Safety => []TypeOK
  BY TypeCorrect
<1>2. ChannelInv => ChannelInOrder
  BY DEF ChannelInv
<1> QED
  BY <1>1, <1>2, ChannelInit, ChannelStep, PTL DEF Safety

-----------------------------------------------------------------------------
(***************************************************************************)
(* The resolver's places.  The batch at hand is numbered after what it has *)
(* accepted, so that the next batch, which follows in the pack, does too.  *)
(***************************************************************************)
FramesInv ==
  /\ batch.first <= batch.last + 1
  /\ FramesAccountedFor
  /\ PendingLacksBase

\* No frame is there at first.
LEMMA FramesInit == Init => FramesInv
BY DEF Init, FramesInv, FramesAccountedFor, PendingLacksBase

\* A frame that is resolved makes bases of its offset and of its object id, and
\* of nothing else.
LEMMA BaseResolvedFacts ==
  ASSUME pack' = pack, NEW i, resolved' = resolved \cup {i}, NEW j,
         pack[j].kind \in {"base", "offset", "ref"}
  PROVE  BaseResolved(j)' <=> \/ BaseResolved(j)
                              \/ pack[j].kind = "offset" /\ pack[j].base = i
                              \/ pack[j].kind = "ref" /\ pack[j].base = pack[i].oid
<1>1. CASE pack[j].kind = "base"
  BY <1>1 DEF BaseResolved, HasBaseIn
<1>2. CASE pack[j].kind = "offset"
  BY <1>2 DEF BaseResolved, HasBaseIn
<1>3. CASE pack[j].kind = "ref"
  <2>1. BaseResolved(j) <=> \E k \in resolved : pack[k].oid = pack[j].base
    BY <1>3 DEF BaseResolved, HasBaseIn
  <2>2. BaseResolved(j)' <=> \E k \in resolved' : pack[k].oid = pack[j].base
    BY <1>3 DEF BaseResolved, HasBaseIn
  <2> QED
    BY <1>3, <2>1, <2>2
<1> QED
  BY <1>1, <1>2, <1>3

\* Frames change places in three steps only.
LEMMA OtherStepsKeepFrames ==
  ASSUME Next, ~ReceiveFrames, ~AcceptFrame, ~\E i \in Frames : PublishObject(i)
  PROVE  UNCHANGED <<pack, batch, pending, work, resolved>>
<1>1. CASE OtherSteps
  BY <1>1, OtherStepsFacts DEF resolverVars
<1>2. CASE Fetch
  BY <1>2 DEF Fetch, ReceivePack, EndOfPack, Send, SendFails, FetchEnds, FetchFails, FetchGoes,
              resolverVars
<1>3. CASE Resolve
  BY <1>3 DEF Resolve, StartResolver, ReceiveFinished, ReceiveFails, NotifyReaders,
     ResolveFails, ResolverPanics, CheckPending, WriteIndexFile, IndexFileFails,
     CompleteStore, ResolverEnds, FailStore, ResolverGoes, frameVars
<1> QED
  BY <1>1, <1>2, <1>3 DEF Next, OtherSteps

\* Every step keeps each frame in one place.
LEMMA FramesStep ==
  TypeOK /\ ChannelInv /\ FramesInv /\ [Next]_vars => FramesInv'
<1> SUFFICES ASSUME TypeOK, ChannelInv, FramesInv, [Next]_vars
             PROVE  FramesInv'
  OBVIOUS
<1>1. /\ batch.first \in Nat /\ batch.last \in Nat /\ Len(pack) \in Nat
      /\ batch \in [first : 1 .. Len(pack) + 1, last : 0 .. Len(pack)]
  BY PackFacts DEF TypeOK, ResolverTypeOK
<1>2. CASE UNCHANGED <<pack, batch, pending, work, resolved>>
  <2>1. \A i : BaseResolved(i)' = BaseResolved(i)
    BY <1>2 DEF BaseResolved, HasBaseIn
  <2> QED
    BY <1>2, <2>1 DEF FramesInv, FramesAccountedFor, PendingLacksBase
<1>3. CASE ReceiveFrames
  <2>1. batch.first = batch.last + 1
    BY <1>1, <1>3 DEF ReceiveFrames, ResolverIdle, FramesInv
  <2>2. Sent[1] = Head(queue) /\ 1 \in 1 .. Len(Sent)
    BY <1>3, SentFacts, QueueFacts DEF ReceiveFrames, TypeOK, FetchTypeOK
  <2>3. Head(queue).first = batch.last + 1 /\ Head(queue).first <= Head(queue).last
    BY <1>3, <2>2 DEF ChannelInv, ChannelInOrder, SentBefore, ReceiveFrames
  <2>4. /\ batch' = [first |-> Head(queue).first, last |-> Head(queue).last]
        /\ Head(queue).last \in Nat
        /\ UNCHANGED <<pack, pending, work, resolved>>
    BY <1>3, <2>2, SentFacts DEF ReceiveFrames, ResolverGoes
  <2>5. \A i : BaseResolved(i)' = BaseResolved(i)
    BY <2>4 DEF BaseResolved, HasBaseIn
  <2> QED
    BY <1>1, <2>1, <2>3, <2>4, <2>5 DEF FramesInv, FramesAccountedFor, PendingLacksBase
<1>4. CASE AcceptFrame
  <2>1. /\ batch.first <= batch.last /\ work = {} /\ UNCHANGED <<pack, resolved>>
        /\ batch'.first = batch.first + 1 /\ batch'.last = batch.last
    BY <1>1, <1>4 DEF AcceptFrame, ResolverGoes
  <2>2. \A i : BaseResolved(i)' = BaseResolved(i)
    BY <2>1 DEF BaseResolved, HasBaseIn
  <2>3. 1 .. batch'.first - 1 = (1 .. batch.first - 1) \cup {batch.first}
    BY <1>1, <2>1
  <2>4. batch.first \notin 1 .. batch.first - 1
    BY <1>1
  <2>5. CASE BaseResolved(batch.first)
    BY <1>1, <1>4, <2>1, <2>2, <2>3, <2>4, <2>5
       DEF AcceptFrame, FramesInv, FramesAccountedFor, PendingLacksBase
  <2>6. CASE ~BaseResolved(batch.first)
    BY <1>1, <1>4, <2>1, <2>2, <2>3, <2>4, <2>6
       DEF AcceptFrame, FramesInv, FramesAccountedFor, PendingLacksBase
  <2> QED
    BY <2>5, <2>6
<1>5. ASSUME NEW i \in Frames, PublishObject(i)
      PROVE  FramesInv'
  <2>1. /\ i \in work /\ UNCHANGED <<pack, batch>> /\ resolved' = resolved \cup {i}
        /\ work' = (work \ {i}) \cup ReleasedBy(i) /\ pending' = pending \ ReleasedBy(i)
    BY <1>5 DEF PublishObject, ResolverGoes
  <2>2. ReleasedBy(i) \subseteq pending
    BY DEF ReleasedBy
  <2>3. FramesAccountedFor'
    BY <2>1, <2>2 DEF FramesInv, FramesAccountedFor
  <2>4. \A j \in Frames : pack[j].kind \in {"base", "offset", "ref"}
    BY PackFacts DEF TypeOK, Frame
  <2>5. ASSUME NEW j \in pending'
        PROVE  ~BaseResolved(j)'
    <3>1. j \in pending /\ j \notin ReleasedBy(i) /\ j \in Frames
      BY <2>1 DEF TypeOK, ResolverTypeOK
    <3> QED
      BY <2>1, <2>4, <3>1, BaseResolvedFacts DEF ReleasedBy, FramesInv, PendingLacksBase
  <2>6. ASSUME NEW j \in work' \cup resolved'
        PROVE  BaseResolved(j)'
    <3>1. (j \in work \cup resolved \/ j \in ReleasedBy(i)) /\ j \in Frames
      BY <2>1, <2>2 DEF TypeOK, ResolverTypeOK
    <3> QED
      BY <2>1, <2>4, <3>1, BaseResolvedFacts DEF ReleasedBy, FramesInv, PendingLacksBase
  <2> QED
    BY <2>1, <2>3, <2>5, <2>6 DEF FramesInv, PendingLacksBase
<1>6. ASSUME Next, ~ReceiveFrames, ~AcceptFrame, ~\E i \in Frames : PublishObject(i)
      PROVE  UNCHANGED <<pack, batch, pending, work, resolved>>
  BY <1>6, OtherStepsKeepFrames
<1>7. CASE UNCHANGED vars
  BY <1>2, <1>7 DEF vars, resolverVars
<1> QED
  BY <1>2, <1>3, <1>4, <1>5, <1>6, <1>7

\* A frame that has its base in a set has it in every larger one.
LEMMA HasBaseMonotone ==
  ASSUME NEW i, pack[i].kind \in {"base", "offset", "ref"}, NEW S, NEW T, S \subseteq T,
         HasBaseIn(i, S)
  PROVE  HasBaseIn(i, T)
BY DEF HasBaseIn

\* What has its base among what can be resolved can be resolved, and what can be
\* resolved is in every closed set.
LEMMA DerivableFacts ==
  ASSUME NEW n, \A i \in 1 .. n : pack[i].kind \in {"base", "offset", "ref"}
  PROVE  /\ Derivable(n) \subseteq 1 .. n
         /\ \A i \in 1 .. n : HasBaseIn(i, Derivable(n)) => i \in Derivable(n)
         /\ \A S \in SUBSET (1 .. n) : ClosedUpTo(n, S) => Derivable(n) \subseteq S
<1>1. ASSUME NEW i \in 1 .. n, HasBaseIn(i, Derivable(n)) PROVE i \in Derivable(n)
  <2>1. SUFFICES ASSUME NEW S \in SUBSET (1 .. n), ClosedUpTo(n, S) PROVE i \in S
    BY DEF Derivable
  <2>2. Derivable(n) \subseteq S
    BY <2>1 DEF Derivable
  <2>3. HasBaseIn(i, S)
    BY <1>1, <2>2, HasBaseMonotone
  <2> QED
    BY <2>1, <2>3 DEF ClosedUpTo
<1> QED
  BY <1>1 DEF Derivable

\* With one frame more, no less can be resolved.
LEMMA DerivableGrows ==
  ASSUME NEW n \in Nat, \A i \in 1 .. n + 1 : pack[i].kind \in {"base", "offset", "ref"}
  PROVE  Derivable(n) \subseteq Derivable(n + 1)
<1>1. 1 .. n \subseteq 1 .. n + 1
  OBVIOUS
<1>2. SUFFICES ASSUME NEW i \in Derivable(n), NEW S \in SUBSET (1 .. n + 1), ClosedUpTo(n + 1, S)
               PROVE  i \in S
  BY <1>1 DEF Derivable
<1>3. PICK T : T = S \cap (1 .. n)
  OBVIOUS
<1>4. ClosedUpTo(n, T)
  <2> SUFFICES ASSUME NEW j \in 1 .. n, HasBaseIn(j, T) PROVE j \in T
    BY DEF ClosedUpTo
  <2>1. HasBaseIn(j, S)
    BY <1>1, <1>3, HasBaseMonotone
  <2> QED
    BY <1>1, <1>2, <1>3, <2>1 DEF ClosedUpTo
<1> QED
  BY <1>1, <1>2, <1>3, <1>4, DerivableFacts

\* What can be resolved depends on the pack only.
LEMMA DerivableSame ==
  ASSUME UNCHANGED pack, NEW n
  PROVE  Derivable(n)' = Derivable(n)
<1>1. ASSUME NEW S PROVE ClosedUpTo(n, S)' <=> ClosedUpTo(n, S)
  BY DEF ClosedUpTo, HasBaseIn
<1> QED
  BY <1>1 DEF Derivable

\* Nothing is resolved, or about to be, that cannot be from what was accepted: the
\* frames 1 .. n.
DerivedInv ==
  \E n \in Nat : n = batch.first - 1 /\ resolved \cup work \subseteq Derivable(n)

\* Nothing is resolved at first.
LEMMA DerivedInit == Init => DerivedInv
<1> SUFFICES ASSUME Init PROVE DerivedInv
  OBVIOUS
<1>1. 0 \in Nat /\ 0 = batch.first - 1 /\ resolved \cup work \subseteq Derivable(0)
  BY DEF Init
<1> QED
  BY <1>1 DEF DerivedInv

\* A frame that is accepted adds itself at most, if its base is resolved; one that
\* is resolved adds those it is the base of.
LEMMA DerivedStep ==
  TypeOK /\ FramesInv /\ ChannelInv /\ DerivedInv /\ [Next]_vars => DerivedInv'
<1> SUFFICES ASSUME TypeOK, FramesInv, ChannelInv, DerivedInv, [Next]_vars
             PROVE  DerivedInv'
  OBVIOUS
<1>1. /\ batch.first \in Nat /\ batch.last \in Nat /\ Len(pack) \in Nat
      /\ batch \in [first : 1 .. Len(pack) + 1, last : 0 .. Len(pack)]
      /\ \A i \in 1 .. Len(pack) : pack[i].kind \in {"base", "offset", "ref"}
  BY PackFacts DEF TypeOK, ResolverTypeOK, Frame, Frames
<1>2. PICK n \in Nat : n = batch.first - 1 /\ resolved \cup work \subseteq Derivable(n)
  BY DEF DerivedInv
<1>3. /\ n <= Len(pack)
      /\ \A i \in 1 .. n : pack[i].kind \in {"base", "offset", "ref"}
      /\ resolved \cup work \cup pending = 1 .. n
  BY <1>1, <1>2 DEF FramesInv, FramesAccountedFor
<1>4. CASE UNCHANGED <<pack, batch, pending, work, resolved>>
  BY <1>2, <1>4, DerivableSame DEF DerivedInv
<1>5. CASE ReceiveFrames
  <2>1. batch.first = batch.last + 1
    BY <1>1, <1>5 DEF ReceiveFrames, ResolverIdle, FramesInv
  <2>2. Sent[1] = Head(queue) /\ 1 \in 1 .. Len(Sent)
    BY <1>5, SentFacts, QueueFacts DEF ReceiveFrames, TypeOK, FetchTypeOK
  <2>3. Head(queue).first = batch.last + 1
    BY <1>5, <2>2 DEF ChannelInv, ChannelInOrder, SentBefore, ReceiveFrames
  <2>4. batch'.first = batch.first /\ UNCHANGED <<pack, pending, work, resolved>>
    BY <1>5, <2>1, <2>3 DEF ReceiveFrames, ResolverGoes
  <2> QED
    BY <1>2, <2>4, DerivableSame DEF DerivedInv
<1>6. CASE AcceptFrame
  <2>1. /\ batch.first <= batch.last /\ work = {} /\ UNCHANGED <<pack, resolved>>
        /\ batch'.first = batch.first + 1
        /\ work' = {} \/ (work' = {batch.first} /\ HasBaseIn(batch.first, resolved))
    BY <1>1, <1>6 DEF AcceptFrame, ResolverGoes, BaseResolved
  <2>2. PICK m : m = n + 1
    OBVIOUS
  <2>3. m \in Nat /\ m = batch.first /\ m \in 1 .. Len(pack) /\ m \in 1 .. m
    BY <1>1, <1>2, <2>1, <2>2
  <2>4. \A i \in 1 .. m : pack[i].kind \in {"base", "offset", "ref"}
    BY <1>1, <2>3
  <2>5. resolved \subseteq Derivable(m)
    BY <1>2, <2>2, <2>4, DerivableGrows
  <2>6. HasBaseIn(m, resolved) => m \in Derivable(m)
    BY <2>3, <2>4, <2>5, DerivableFacts, HasBaseMonotone
  <2>7. resolved' \cup work' \subseteq Derivable(m)
    BY <2>1, <2>3, <2>5, <2>6
  <2>8. m = batch'.first - 1 /\ Derivable(m)' = Derivable(m)
    BY <2>1, <2>3, DerivableSame
  <2> QED
    BY <2>3, <2>7, <2>8 DEF DerivedInv
<1>7. ASSUME NEW i \in Frames, PublishObject(i)
      PROVE  DerivedInv'
  <2>1. /\ i \in work /\ UNCHANGED <<pack, batch>> /\ resolved' = resolved \cup {i}
        /\ work' = (work \ {i}) \cup ReleasedBy(i)
    BY <1>7 DEF PublishObject, ResolverGoes
  <2>2. ASSUME NEW j \in ReleasedBy(i)
        PROVE  j \in Derivable(n)
    <3>1. j \in 1 .. n /\ i \in Derivable(n)
      BY <1>2, <1>3, <2>1 DEF ReleasedBy
    <3>2. HasBaseIn(j, Derivable(n))
      BY <3>1 DEF ReleasedBy, HasBaseIn
    <3> QED
      BY <1>3, <3>1, <3>2, DerivableFacts
  <2>3. resolved' \cup work' \subseteq Derivable(n)
    BY <1>2, <2>1, <2>2
  <2> QED
    BY <1>2, <2>1, <2>3, DerivableSame DEF DerivedInv
<1>8. CASE UNCHANGED vars
  BY <1>4, <1>8 DEF vars, resolverVars
<1> QED
  BY <1>4, <1>5, <1>6, <1>7, <1>8, OtherStepsKeepFrames

\* What is not resolved when the resolver is idle is pending and lacks its base: what
\* is resolved is closed.
LEMMA IdleHasDerivable == TypeOK /\ FramesInv /\ DerivedInv => ResolvesDerivable
<1> SUFFICES ASSUME TypeOK, FramesInv, DerivedInv, ResolverIdle
             PROVE  resolved = Derivable(batch.last)
  BY DEF ResolvesDerivable
<1>1. /\ batch.first \in Nat /\ batch.last \in 0 .. Len(pack) /\ Len(pack) \in Nat
      /\ \A i \in 1 .. Len(pack) : pack[i].kind \in {"base", "offset", "ref"}
  BY PackFacts DEF TypeOK, ResolverTypeOK, Frame, Frames
<1>2. PICK n \in Nat : n = batch.first - 1 /\ resolved \cup work \subseteq Derivable(n)
  BY DEF DerivedInv
<1>3. n = batch.last /\ work = {}
  BY <1>1, <1>2 DEF ResolverIdle, FramesInv
<1>4. /\ resolved \cup pending = 1 .. n
      /\ \A i \in 1 .. n : pack[i].kind \in {"base", "offset", "ref"}
  BY <1>1, <1>2, <1>3 DEF FramesInv, FramesAccountedFor
<1>5. ClosedUpTo(n, resolved) /\ resolved \in SUBSET (1 .. n)
  BY <1>4 DEF ClosedUpTo, FramesInv, PendingLacksBase, BaseResolved
<1> QED
  BY <1>2, <1>3, <1>4, <1>5, DerivableFacts

\* No frame is lost and none is resolved twice, in whatever order the bases of
\* the deltas arrive; no delta waits for a base that is there; and what the pack
\* lets one resolve is resolved, so that finish refuses it only if some frame
\* cannot be.
THEOREM FramesCorrect == Safety => []FramesInPlace
<1>1. Safety => []TypeOK
  BY TypeCorrect
<1>2. TypeOK /\ FramesInv /\ DerivedInv => FramesInPlace
  BY IdleHasDerivable DEF FramesInv, FramesInPlace
<1>3. Init => TypeOK /\ ChannelInv /\ FramesInv /\ DerivedInv
  BY TypeInit, ChannelInit, FramesInit, DerivedInit
<1> QED
  BY <1>1, <1>2, <1>3, ChannelStep, FramesStep, DerivedStep, PTL DEF Safety

-----------------------------------------------------------------------------
(***************************************************************************)
(* The store is closed by the last steps of the resolver only: what makes  *)
(* the answers final is where the resolver stands once the store is closed,*)
(* and that a reader holds an answer only while it is still true.          *)
(***************************************************************************)
StoreInv ==
  /\ complete => resolverPc \in {"opening", "failing", "ok", "err"}
  /\ resolverPc \in {"opening", "ok"} => complete
  /\ failure => complete /\ resolverPc = "err"

\* The actions that touch neither the store nor the resolver.
Bystanders ==
  \/ Fetch
  \/ \E r \in Readers : Read(r) \/ SpuriousWakeup(r)
  \/ Checkout
  \/ \E w \in Workers : Work(w)
  \/ JoinThreads
  \/ Done
  \/ UNCHANGED vars

\* Whoever is not the resolver leaves the store alone.
LEMMA BystandersFacts == Bystanders => UNCHANGED <<pack, resolverVars, storeVars>>
<1>1. Fetch => UNCHANGED <<pack, resolverVars, storeVars>>
  BY DEF Fetch, ReceivePack, EndOfPack, Send, SendFails, FetchEnds, FetchFails, FetchGoes
<1>2. (\E r \in Readers : Read(r) \/ SpuriousWakeup(r))
         => UNCHANGED <<pack, resolverVars, storeVars>>
  BY DEF Read, ReadHit, ReadRefused, ReadWaits, SpuriousWakeup, ReaderSteps
<1>3. Checkout \/ (\E w \in Workers : Work(w)) => UNCHANGED <<pack, resolverVars, storeVars>>
  BY DEF Checkout, RequestCommit, ParseCommit, RequestTree, ParseTree, StartFiles, MainFails,
         EndFiles, WriteGitIndex, Work, TakeFile, WriteFile, FileFails, CheckoutStep
<1>4. JoinThreads \/ Done \/ UNCHANGED vars => UNCHANGED <<pack, resolverVars, storeVars>>
  BY DEF JoinThreads, Done, vars
<1> QED
  BY <1>1, <1>2, <1>3, <1>4 DEF Bystanders

\* The resolver's steps that neither publish nor close.
Inner ==
  \/ StartResolver \/ ReceiveFrames \/ ReceiveFinished \/ ReceiveFails
  \/ AcceptFrame \/ NotifyReaders \/ ResolveFails \/ ResolverPanics
  \/ CheckPending \/ WriteIndexFile \/ IndexFileFails \/ ResolverEnds

\* Steps of the resolver between two publications leave the store open and as it is.
LEMMA InnerFacts ==
  ASSUME Inner
  PROVE  /\ UNCHANGED <<pack, storeVars>>
         /\ \/ /\ resolverPc \in {"starting", "running", "notifying", "finishing", "indexing"}
               /\ resolverPc' \in {"running", "finishing", "indexing", "completing",
                                   "failing", "panicked"}
            \/ resolverPc = "opening" /\ resolverPc' \in {"ok", "failing"}
         /\ (UNCHANGED reader /\ resolverPc # "notifying") \/ NotifyReaders
<1>1. UNCHANGED <<pack, storeVars>> /\ ((UNCHANGED reader /\ resolverPc # "notifying") \/ NotifyReaders)
  BY DEF Inner, StartResolver, ReceiveFrames, ReceiveFinished, ReceiveFails, AcceptFrame,
         NotifyReaders, ResolveFails, ResolverPanics, CheckPending, WriteIndexFile,
         IndexFileFails, ResolverEnds, ResolverGoes
<1>2. \/ /\ resolverPc \in {"starting", "running", "notifying", "finishing", "indexing"}
         /\ resolverPc' \in {"running", "finishing", "indexing", "completing",
                             "failing", "panicked"}
      \/ resolverPc = "opening" /\ resolverPc' \in {"ok", "failing"}
  BY DEF Inner, StartResolver, ReceiveFrames, ReceiveFinished, ReceiveFails, AcceptFrame,
         NotifyReaders, ResolveFails, ResolverPanics, CheckPending, WriteIndexFile,
         IndexFileFails, ResolverEnds, ResolverGoes
<1> QED
  BY <1>1, <1>2

\* The store is open and empty at first.
LEMMA StoreInit == Init => StoreInv /\ NoLostWakeup
<1>1. Idle.state # "waiting"
  BY DEF Idle
<1> QED
  BY <1>1 DEF Init, StoreInv, NoLostWakeup

\* Every step keeps the resolver's place and the store in agreement.
LEMMA StoreStep == StoreInv /\ [Next]_vars => StoreInv'
<1> SUFFICES ASSUME StoreInv, [Next]_vars
             PROVE  StoreInv'
  OBVIOUS
<1>1. CASE Bystanders
  BY <1>1, BystandersFacts DEF StoreInv, resolverVars, storeVars
<1>2. CASE Inner
  BY <1>2, InnerFacts DEF StoreInv, storeVars
<1>3. ASSUME NEW i \in Frames, PublishObject(i)
      PROVE  StoreInv'
  BY <1>3 DEF PublishObject, ResolverGoes, StoreInv
<1>4. CASE CompleteStore
  BY <1>4 DEF CompleteStore, ResolverGoes, StoreInv
<1>5. CASE FailStore
  BY <1>5 DEF FailStore, ResolverGoes, StoreInv
<1> QED
  BY <1>1, <1>2, <1>3, <1>4, <1>5 DEF Next, Resolve, Inner, Bystanders

\* Objects are only ever added to the store, and none once it is closed.
THEOREM AnswersCorrect == Safety => AnswersAreFinal
<1> DEFINE Grows == /\ published \subseteq published'
                    /\ complete => complete' /\ published' = published
                    /\ failure => failure'
<1>1. StoreInv /\ [Next]_vars => [Grows]_vars
  <2> SUFFICES ASSUME StoreInv, [Next]_vars
               PROVE  Grows
    OBVIOUS
  <2>1. CASE Bystanders \/ Inner
    BY <2>1, BystandersFacts, InnerFacts DEF storeVars
  <2>2. ASSUME NEW i \in Frames, PublishObject(i)
        PROVE  Grows
    BY <2>2 DEF PublishObject, ResolverGoes, StoreInv
  <2>3. CASE CompleteStore \/ FailStore
    BY <2>3 DEF CompleteStore, FailStore
  <2> QED
    BY <2>1, <2>2, <2>3 DEF Next, Resolve, Inner, Bystanders
<1>2. AnswersAreFinal <=> [][Grows]_vars
  BY DEF AnswersAreFinal
<1> QED
  BY <1>1, <1>2, StoreInit, StoreStep, PTL DEF Safety

-----------------------------------------------------------------------------
(***************************************************************************)
(* Wakeups.  Every step that closes the store wakes all readers, and a step *)
(* that publishes an object is followed by one that does; a reader goes to *)
(* sleep only when it has looked at the store in the same critical section.*)
(***************************************************************************)
LEMMA WakeupStep == TypeOK /\ NoLostWakeup /\ [Next]_vars => NoLostWakeup'
<1> SUFFICES ASSUME TypeOK, NoLostWakeup, [Next]_vars
             PROVE  NoLostWakeup'
  OBVIOUS
<1>1. ASSUME UNCHANGED <<published, complete, resolverPc>>,
             NEW r \in Readers, NEW v, reader' = [reader EXCEPT ![r] = v],
             v.state = "waiting" => v.oid \notin published /\ ~complete
      PROVE  NoLostWakeup'
  <2>1. reader'[r] = v /\ \A q \in Readers \ {r} : reader'[q] = reader[q]
    BY <1>1 DEF TypeOK
  <2> QED
    BY <1>1, <2>1 DEF NoLostWakeup
<1>2. ASSUME reader' = Woken
      PROVE  NoLostWakeup'
  BY <1>2, WokenFacts DEF TypeOK, NoLostWakeup
<1>3. Main \in Readers /\ Workers \subseteq Readers
  BY DEF Readers
<1>4. Idle.state # "waiting" /\ \A o : Reading(o).state # "waiting"
  BY DEF Idle, Reading
<1>5. CASE Fetch \/ JoinThreads \/ Done \/ UNCHANGED vars
  <2>1. UNCHANGED reader
    BY <1>5 DEF Fetch, ReceivePack, EndOfPack, Send, SendFails, FetchEnds, FetchFails, FetchGoes,
                JoinThreads, Done, vars
  <2> QED
    BY <1>5, <2>1, BystandersFacts DEF Bystanders, NoLostWakeup, resolverVars, storeVars
<1>6. ASSUME NEW r \in Readers, Read(r) \/ SpuriousWakeup(r)
      PROVE  NoLostWakeup'
  <2>1. PICK state : /\ ReaderSteps(r, state)
                     /\ state = "waiting" => reader[r].oid \notin published /\ ~complete
    BY <1>6 DEF Read, ReadHit, ReadRefused, ReadWaits, SpuriousWakeup
  <2> DEFINE v == [reader[r] EXCEPT !.state = state]
  <2>2. reader[r] \in ReaderState
    BY DEF TypeOK
  <2>3. v.state = state /\ v.oid = reader[r].oid
    BY <2>2 DEF ReaderState, Idle
  <2>4. reader' = [reader EXCEPT ![r] = v]
    BY <2>1 DEF ReaderSteps
  <2>5. UNCHANGED <<published, complete, resolverPc>>
    BY <2>1 DEF ReaderSteps, storeVars, resolverVars
  <2> HIDE DEF v
  <2> QED
    BY <1>1, <2>1, <2>3, <2>4, <2>5
<1>7. CASE Checkout \/ \E w \in Workers : Work(w)
  <2>1. UNCHANGED <<published, complete, resolverPc>>
    BY <1>7, BystandersFacts DEF Bystanders, resolverVars, storeVars
  <2>2. \/ UNCHANGED reader
        \/ \E r \in Readers : reader' = [reader EXCEPT ![r] = Idle]
        \/ \E r \in Readers, o \in Oid \cup {DefaultCommit} : reader' = [reader EXCEPT ![r] = Reading(o)]
    <3>1. CASE Checkout
      BY <1>3, <3>1 DEF Checkout, RequestCommit, ParseCommit, RequestTree, ParseTree, StartFiles,
         MainFails, EndFiles, WriteGitIndex, TypeOK, CheckoutTypeOK
    <3>2. ASSUME NEW w \in Workers, Work(w)
          PROVE  <2>2!2 \/ <2>2!3
      BY <1>3, <3>2 DEF Work, TakeFile, WriteFile, FileFails, TypeOK, CheckoutTypeOK
    <3> QED
      BY <1>7, <3>1, <3>2
  <2>3. CASE UNCHANGED reader
    BY <2>1, <2>3 DEF NoLostWakeup
  <2> QED
    BY <1>1, <1>4, <2>1, <2>2, <2>3
<1>8. CASE Resolve
  <2>1. CASE Inner
    <3>1. CASE NotifyReaders
      BY <1>2, <3>1 DEF NotifyReaders
    <3>2. CASE UNCHANGED <<reader, storeVars>> /\ resolverPc # "notifying"
      BY <3>2 DEF NoLostWakeup, storeVars
    <3> QED
      BY <2>1, <3>1, <3>2, InnerFacts
  <2>2. ASSUME NEW i \in Frames, PublishObject(i)
        PROVE  NoLostWakeup'
    BY <2>2 DEF PublishObject, ResolverGoes, NoLostWakeup
  <2>3. CASE CompleteStore \/ FailStore
    BY <1>2, <2>3 DEF CompleteStore, FailStore
  <2> QED
    BY <1>8, <2>1, <2>2, <2>3 DEF Resolve, Inner
<1> QED
  BY <1>5, <1>6, <1>7, <1>8 DEF Next

\* No reader sleeps through the arrival of its object or the closing of the
\* store, whatever the threads do and however many readers there are.
THEOREM WakeupCorrect == Safety => []NoLostWakeup
<1>1. Safety => []TypeOK
  BY TypeCorrect
<1> QED
  BY <1>1, StoreInit, WakeupStep, PTL DEF Safety

-----------------------------------------------------------------------------
(***************************************************************************)
(* Refinement of the ObjectStore module.  Every action of the pipeline is  *)
(* one of the store's or changes nothing the store's clients can see.      *)
(***************************************************************************)
Requests == [r \in Readers |-> RequestOf(r)]

\* The request a reader stands for in the abstract store.
LEMMA RequestFacts ==
  ASSUME TypeOK
  PROVE  /\ \A r \in Readers : Requests[r] = RequestOf(r)
         /\ \A r \in Readers : reader[r] = Idle <=> RequestOf(r) = Store!Idle
         /\ \A r \in Readers : reader[r].state \in {"checking", "waiting"} =>
              RequestOf(r) = [state |-> "asked", oid |-> reader[r].oid]
         /\ \A r \in Readers : reader[r].state \in {"got", "refused"} =>
              RequestOf(r).state \in {"got", "refused"}
<1>1. \A r \in Readers : reader[r] \in ReaderState
  BY DEF TypeOK
<1> QED
  BY <1>1 DEF Requests, RequestOf, ReaderState, Idle, Store!Idle

\* One reader moves.
LEMMA OneRequest ==
  ASSUME TypeOK, NEW r \in Readers, NEW v, reader' = [reader EXCEPT ![r] = v]
  PROVE  Requests' = [Requests EXCEPT ![r] =
           [state |-> IF v.state \in {"checking", "waiting"} THEN "asked" ELSE v.state,
            oid |-> v.oid]]
BY DEF TypeOK, Requests, RequestOf

\* Waking readers is a stutter of the abstract store.
LEMMA StoreStutters ==
  ASSUME TypeOK, UNCHANGED <<published, complete>>, UNCHANGED reader \/ reader' = Woken
  PROVE  UNCHANGED Store!vars
<1>1. \A r \in Readers : RequestOf(r)' = RequestOf(r)
  BY WokenFacts DEF TypeOK, RequestOf
<1> QED
  BY <1>1 DEF Store!vars

\* The steps of a reader are steps of the abstract store.
LEMMA ReadRefines ==
  ASSUME TypeOK, StoreInv, NEW r \in Readers, Read(r) \/ SpuriousWakeup(r)
  PROVE  Store!Next \/ UNCHANGED Store!vars
<1>1. PICK state \in {"checking", "waiting", "got", "refused"} :
        /\ ReaderSteps(r, state)
        /\ reader[r].state \in {"checking", "waiting"}
        /\ state = "got" => reader[r].oid \in published
        /\ state = "refused" => reader[r].oid \notin published /\ complete
  BY DEF Read, ReadHit, ReadRefused, ReadWaits, SpuriousWakeup, StoreInv
<1> DEFINE v == [reader[r] EXCEPT !.state = state]
<1>2. reader[r] \in ReaderState
  BY DEF TypeOK
<1>3. v.state = state /\ v.oid = reader[r].oid /\ reader' = [reader EXCEPT ![r] = v]
  BY <1>1, <1>2 DEF ReaderState, Idle, ReaderSteps
<1>4. UNCHANGED <<published, complete>>
  BY <1>1 DEF ReaderSteps, storeVars
<1>5. /\ Requests = [q \in Readers |-> Requests[q]]
      /\ Requests[r] = [state |-> "asked", oid |-> reader[r].oid]
      /\ reader[r].oid \in Oid
  BY <1>1, RequestFacts DEF Requests, TypeOK, ReaderState, Idle
<1>6. Requests' = [Requests EXCEPT ![r] =
        [state |-> IF state \in {"checking", "waiting"} THEN "asked" ELSE state,
         oid |-> reader[r].oid]]
  <2> HIDE DEF v
  <2> QED
    BY <1>3, OneRequest
<1> HIDE DEF v
<1>7. CASE state \in {"checking", "waiting"}
  <2>1. Requests' = [Requests EXCEPT ![r] = Requests[r]]
    BY <1>5, <1>6, <1>7
  <2>2. UNCHANGED Requests
    BY <1>5, <2>1
  <2> QED
    BY <1>4, <2>2 DEF Requests, Store!vars
<1>8. CASE state = "got"
  <2>1. Requests' = [Requests EXCEPT ![r] = [Requests[r] EXCEPT !.state = "got"]]
    <3>1. Requests' = [Requests EXCEPT ![r] = [state |-> "got", oid |-> reader[r].oid]]
      BY <1>6, <1>8
    <3>2. [Requests[r] EXCEPT !.state = "got"] = [state |-> "got", oid |-> reader[r].oid]
      BY <1>5
    <3> QED
      BY <3>1, <3>2
  <2>2. Requests[r].state = "asked" /\ Requests[r].oid \in published
    BY <1>1, <1>5, <1>8
  <2>3. Store!Serve(r)
    BY <1>4, <2>1, <2>2 DEF Requests, Store!Serve
  <2> QED
    BY <2>3 DEF Store!Next
<1>9. CASE state = "refused"
  <2>1. Requests' = [Requests EXCEPT ![r] = [Requests[r] EXCEPT !.state = "refused"]]
    <3>1. Requests' = [Requests EXCEPT ![r] = [state |-> "refused", oid |-> reader[r].oid]]
      BY <1>6, <1>9
    <3>2. [Requests[r] EXCEPT !.state = "refused"] = [state |-> "refused", oid |-> reader[r].oid]
      BY <1>5
    <3> QED
      BY <3>1, <3>2
  <2>2. Requests[r].state = "asked" /\ Requests[r].oid \notin published /\ complete
    BY <1>1, <1>5, <1>9
  <2>3. Store!Refuse(r)
    BY <1>4, <2>1, <2>2 DEF Requests, Store!Refuse
  <2> QED
    BY <2>3 DEF Store!Next
<1> QED
  BY <1>7, <1>8, <1>9

\* A thread asks when it was idle and leaves when it has its answer.
LEMMA ClientRefines ==
  ASSUME TypeOK, TypeOK', Checkout \/ \E w \in Workers : Work(w)
  PROVE  Store!Next \/ UNCHANGED Store!vars
<1>1. Main \in Readers /\ Workers \subseteq Readers
  BY DEF Readers
<1>2. UNCHANGED <<published, complete>>
  BY DEF Checkout, RequestCommit, ParseCommit, RequestTree, ParseTree, StartFiles, MainFails,
         EndFiles, WriteGitIndex, Work, TakeFile, WriteFile, FileFails, CheckoutStep, storeVars
<1>3. \/ UNCHANGED reader
      \/ \E r \in Readers, o \in Oid :
           reader[r] = Idle /\ reader' = [reader EXCEPT ![r] = Reading(o)]
      \/ \E r \in Readers :
           reader[r].state \in {"got", "refused"} /\ reader' = [reader EXCEPT ![r] = Idle]
  <2>1. CASE StartFiles \/ EndFiles \/ WriteGitIndex
    BY <2>1 DEF StartFiles, EndFiles, WriteGitIndex
  <2>2. CASE RequestCommit \/ RequestTree
    BY <1>1, <2>2, CheckoutAssumption DEF RequestCommit, RequestTree, TypeOK, CheckoutTypeOK
  <2>3. CASE ParseCommit \/ ParseTree
    BY <1>1, <2>3 DEF ParseCommit, ParseTree
  <2>4. CASE MainFails
    <3>1. CASE reader[Main].state \in {"got", "refused"}
      BY <1>1, <2>4, <3>1 DEF MainFails
    <3>2. CASE reader[Main] = Idle
      BY <1>1, <2>4, <3>2 DEF MainFails, TypeOK
    <3> QED
      BY <2>4, <3>1, <3>2 DEF MainFails, TreesRead
  <2>5. ASSUME NEW w \in Workers, Work(w)
        PROVE  <1>3!1 \/ <1>3!2 \/ <1>3!3
    BY <1>1, <2>5 DEF Work, TakeFile, WriteFile, FileFails, TypeOK, CheckoutTypeOK
  <2> QED
    BY <2>1, <2>2, <2>3, <2>4, <2>5 DEF Checkout
<1>4. CASE UNCHANGED reader
  BY <1>2, <1>4, StoreStutters
<1>5. ASSUME NEW r \in Readers, NEW o \in Oid,
             reader[r] = Idle, reader' = [reader EXCEPT ![r] = Reading(o)]
      PROVE  Store!Next
  <2>1. Requests' = [Requests EXCEPT ![r] = [state |-> "asked", oid |-> o]]
    BY <1>5, OneRequest DEF Reading
  <2> QED
    BY <1>2, <1>5, <2>1, RequestFacts DEF Requests, Store!Next, Store!Ask
<1>6. ASSUME NEW r \in Readers, reader[r].state \in {"got", "refused"},
             reader' = [reader EXCEPT ![r] = Idle]
      PROVE  Store!Next
  <2>1. Requests' = [Requests EXCEPT ![r] = Store!Idle]
    BY <1>6, OneRequest DEF Idle, Store!Idle
  <2> QED
    BY <1>2, <1>6, <2>1, RequestFacts DEF Requests, Store!Next, Store!Leave
<1> QED
  BY <1>3, <1>4, <1>5, <1>6

\* So are those of the resolver.
LEMMA ResolverRefines ==
  ASSUME TypeOK, StoreInv, Resolve
  PROVE  Store!Next \/ UNCHANGED Store!vars
<1>1. CASE Inner
  BY <1>1, InnerFacts, StoreStutters DEF storeVars, NotifyReaders
<1>2. ASSUME NEW i \in Frames, PublishObject(i)
      PROVE  Store!Next
  <2>1. /\ ~complete /\ UNCHANGED <<complete, reader>>
        /\ published' = published \cup {pack[i].oid} /\ pack[i].oid \in Oid
    BY <1>2, PackFacts DEF PublishObject, ResolverGoes, StoreInv, TypeOK
  <2>2. UNCHANGED Requests
    BY <2>1 DEF Requests, RequestOf
  <2> QED
    BY <2>1, <2>2 DEF Requests, Store!Next, Store!Publish
<1>3. CASE CompleteStore \/ FailStore
  <2>1. complete' = TRUE /\ reader' = Woken /\ UNCHANGED published
    BY <1>3 DEF CompleteStore, FailStore
  <2>2. \A r \in Readers : RequestOf(r)' = RequestOf(r)
    BY <2>1, WokenFacts DEF TypeOK, RequestOf
  <2>3. UNCHANGED Requests
    BY <2>2 DEF Requests
  <2> QED
    BY <2>1, <2>3 DEF Requests, Store!Next, Store!Close
<1> QED
  BY <1>1, <1>2, <1>3 DEF Resolve, Inner

\* The threads use the store as the ObjectStore module describes: an object is
\* published only while the store is open, and a reader is refused only when its
\* object can no longer arrive.
THEOREM StoreRefinement == Safety => StoreContract
<1>1. Init => Store!Init
  <2> SUFFICES ASSUME Init
               PROVE  Store!Init
    OBVIOUS
  <2>1. \A r \in Readers : RequestOf(r) = Store!Idle
    BY DEF Init, RequestOf, Idle, Store!Idle
  <2> QED
    BY <2>1 DEF Init, Store!Init
<1>2. TypeOK /\ TypeOK' /\ StoreInv /\ [Next]_vars => [Store!Next]_(Store!vars)
  <2> SUFFICES ASSUME TypeOK, TypeOK', StoreInv, [Next]_vars
               PROVE  Store!Next \/ UNCHANGED Store!vars
    OBVIOUS
  <2>1. CASE Fetch \/ JoinThreads \/ Done \/ UNCHANGED vars
    <3>1. UNCHANGED <<published, complete, reader>>
      BY <2>1 DEF Fetch, ReceivePack, EndOfPack, Send, SendFails, FetchEnds, FetchFails,
         FetchGoes, JoinThreads, Done, vars, storeVars
    <3> QED
      BY <3>1, StoreStutters
  <2> QED
    BY <2>1, ReadRefines, ClientRefines, ResolverRefines DEF Next
<1>3. Safety => []TypeOK
  BY TypeCorrect
<1> QED
  BY <1>1, <1>2, <1>3, StoreInit, StoreStep, PTL DEF Safety, StoreContract, Store!Safety

-----------------------------------------------------------------------------
(***************************************************************************)
(* The checkout.  A tree that was found and is neither waiting to be read  *)
(* nor being read has been read: its subtrees are found and its files are  *)
(* in the manifest.  A file of the manifest that no worker has taken or is *)
(* writing is written, unless a worker has failed.                         *)
(***************************************************************************)
Found == {RootTree} \cup directories

Unread ==
  trees \cup {t \in Oid : checkoutPc = "trees" /\ reader[Main] # Idle /\ t = reader[Main].oid}

InHand == {b \in Oid : \E w \in Workers : reader[w] # Idle /\ b = reader[w].oid}

CommitRead ==
  /\ checkoutPc = "commit" => directories = {}
  /\ checkoutPc = "commit" /\ reader[Main] # Idle => reader[Main].oid = DefaultCommit
  /\ checkoutPc \in {"trees", "files", "index", "ok"} => DefaultCommit \in published

TreesInv ==
  checkoutPc \in {"trees", "files", "index", "ok"} =>
    \A t \in Found \ Unread : t \in published /\ SubTrees[t] \subseteq Found
                              /\ Blobs[t] \subseteq manifest

FilesInv ==
  /\ checkoutPc \in {"files", "index", "ok"} =>
       /\ trees = {} /\ reader[Main] = Idle
       /\ (aborted \/ manifest \subseteq files \cup InHand \cup written)
  /\ checkoutPc \in {"index", "ok"} =>
       ~aborted /\ files = {} /\ \A w \in Workers : reader[w] = Idle

CheckoutInv ==
  /\ CommitRead
  /\ TreesInv
  /\ FilesInv
  /\ written \subseteq published
  /\ \A r \in Readers : reader[r].state = "got" => reader[r].oid \in published

\* Nothing is read at first.
LEMMA CheckoutInit == Init => CheckoutInv
<1>1. Idle.state # "got"
  BY DEF Idle
<1> QED
  BY <1>1 DEF Init, CheckoutInv, CommitRead, TreesInv, FilesInv, Readers

\* The rest of the clone only moves a reader from its question to the answer.
LEMMA AnswersKeepCheckout ==
  ASSUME CheckoutInv, UNCHANGED checkoutVars, published \subseteq published',
         \A r \in Readers : /\ reader'[r].oid = reader[r].oid
                            /\ reader'[r] = Idle <=> reader[r] = Idle
                            /\ reader'[r].state = "got" =>
                                 reader[r].state = "got" \/ reader[r].oid \in published
  PROVE  CheckoutInv'
<1> USE DEF checkoutVars
<1>1. Main \in Readers /\ Workers \subseteq Readers
  BY DEF Readers
<1>2. Found' = Found /\ Unread' = Unread /\ InHand' = InHand
  BY <1>1 DEF Found, Unread, InHand
<1>3. CommitRead'
  BY <1>1 DEF CheckoutInv, CommitRead
<1>4. TreesInv'
  BY <1>2 DEF CheckoutInv, TreesInv
<1>5. FilesInv'
  BY <1>1, <1>2 DEF CheckoutInv, FilesInv
<1> QED
  BY <1>3, <1>4, <1>5 DEF CheckoutInv

\* Other threads only publish more.
LEMMA OthersKeepCheckout ==
  ASSUME TypeOK, CheckoutInv,
         \/ Fetch \/ Resolve \/ JoinThreads \/ Done \/ UNCHANGED vars
         \/ \E r \in Readers : Read(r) \/ SpuriousWakeup(r)
  PROVE  CheckoutInv'
<1>1. CASE Fetch \/ JoinThreads \/ Done \/ UNCHANGED vars
  <2>1. UNCHANGED <<checkoutVars, published, reader>>
    BY <1>1 DEF Fetch, ReceivePack, EndOfPack, Send, SendFails, FetchEnds, FetchFails,
       FetchGoes, JoinThreads, Done, vars, storeVars
  <2> QED
    BY <2>1, AnswersKeepCheckout
<1>2. CASE Resolve
  <2>1. UNCHANGED checkoutVars /\ published \subseteq published'
    BY <1>2 DEF Resolve, StartResolver, ReceiveFrames, ReceiveFinished, ReceiveFails,
         AcceptFrame, PublishObject, NotifyReaders, ResolveFails, ResolverPanics, CheckPending,
         WriteIndexFile, IndexFileFails, CompleteStore, ResolverEnds, FailStore, ResolverGoes,
         storeVars
  <2>2. UNCHANGED reader \/ reader' = Woken
    BY <1>2 DEF Resolve, StartResolver, ReceiveFrames, ReceiveFinished, ReceiveFails,
         AcceptFrame, PublishObject, NotifyReaders, ResolveFails, ResolverPanics, CheckPending,
         WriteIndexFile, IndexFileFails, CompleteStore, ResolverEnds, FailStore, ResolverGoes
  <2>3. \A r \in Readers : /\ Woken[r].oid = reader[r].oid
                           /\ Woken[r] = Idle <=> reader[r] = Idle
                           /\ Woken[r].state = "got" => reader[r].state = "got"
    BY WokenFacts DEF TypeOK, Idle
  <2> QED
    BY <2>1, <2>2, <2>3, AnswersKeepCheckout
<1>3. ASSUME NEW r \in Readers, Read(r) \/ SpuriousWakeup(r)
      PROVE  CheckoutInv'
  <2>1. PICK state \in {"checking", "waiting", "got", "refused"} :
          /\ ReaderSteps(r, state)
          /\ reader[r].state \in {"checking", "waiting"}
          /\ state = "got" => reader[r].oid \in published
    BY <1>3 DEF Read, ReadHit, ReadRefused, ReadWaits, SpuriousWakeup
  <2>2. UNCHANGED <<checkoutVars, published>>
    BY <2>1 DEF ReaderSteps, storeVars
  <2>3. \A q \in Readers \ {r} : reader'[q] = reader[q]
    BY <2>1 DEF ReaderSteps, TypeOK
  <2>4. reader'[r].oid = reader[r].oid /\ reader'[r].state = state
    <3>1. reader[r] \in ReaderState
      BY DEF TypeOK
    <3> QED
      BY <2>1, <3>1 DEF ReaderSteps, TypeOK, ReaderState, Idle
  <2>5. reader'[r] # Idle /\ reader[r] # Idle
    BY <2>1, <2>4 DEF Idle
  <2> QED
    BY <2>1, <2>2, <2>3, <2>4, <2>5, AnswersKeepCheckout
<1> QED
  BY <1>1, <1>2, <1>3

\* What the main thread does with the commit and the trees it reads.
LEMMA MainKeepsCheckout ==
  ASSUME TypeOK, CheckoutInv, Checkout
  PROVE  CheckoutInv'
<1> USE DEF CheckoutInv
<1>1. /\ Main \in Readers /\ Main \notin Workers /\ Workers \subseteq Readers
      /\ reader \in [Readers -> ReaderState]
      /\ \A r \in Readers : reader[r] = Idle \/ reader[r].oid \in Oid
      /\ Idle.state = "idle"
      /\ \A o : Reading(o).state = "checking" /\ Reading(o).oid = o /\ Reading(o) # Idle
  BY ThreadsAssumption DEF Readers, TypeOK, ReaderState, Idle, Reading
<1>2. UNCHANGED <<pack, published>>
  BY DEF Checkout, RequestCommit, ParseCommit, RequestTree, ParseTree, StartFiles, MainFails,
         EndFiles, WriteGitIndex, CheckoutStep, storeVars
<1>3. /\ UNCHANGED written
      /\ \A w \in Workers : reader'[w] = reader[w]
      /\ \A r \in Readers : reader'[r].state = "got" => reader[r].state = "got"
                                                        /\ reader'[r] = reader[r]
  BY <1>1 DEF Checkout, RequestCommit, ParseCommit, RequestTree, ParseTree, StartFiles, MainFails,
              EndFiles, WriteGitIndex, checkoutVars
<1>4. InHand' = InHand
  BY <1>3 DEF InHand
<1>5. CASE RequestCommit
  <2>1. /\ checkoutPc' = "commit" /\ reader'[Main].oid = DefaultCommit
        /\ UNCHANGED checkoutVars
    BY <1>1, <1>5 DEF RequestCommit, checkoutVars
  <2> QED
    BY <1>2, <1>3, <2>1 DEF CommitRead, TreesInv, FilesInv, checkoutVars
<1>6. CASE ParseCommit
  <2>1. /\ checkoutPc' = "trees" /\ reader'[Main] = Idle /\ trees' = {RootTree}
        /\ UNCHANGED <<directories, manifest, files, aborted>>
        /\ DefaultCommit \in published
    BY <1>1, <1>6 DEF ParseCommit, CommitRead
  <2>2. Found' \subseteq Unread'
    BY <1>6, <2>1, CheckoutAssumption DEF ParseCommit, CommitRead, Found, Unread
  <2> QED
    BY <1>2, <1>3, <2>1, <2>2 DEF CommitRead, TreesInv, FilesInv
<1>7. CASE RequestTree
  <2>1. PICK t \in trees : trees' = trees \ {t} /\ reader' = [reader EXCEPT ![Main] = Reading(t)]
    BY <1>7 DEF RequestTree
  <2>2. /\ checkoutPc = "trees" /\ reader[Main] = Idle /\ t \in Oid
        /\ UNCHANGED <<checkoutPc, directories, manifest, files, aborted>>
        /\ reader'[Main] = Reading(t)
    BY <1>1, <1>7, <2>1 DEF RequestTree, TypeOK, CheckoutTypeOK
  <2>3. Unread' = Unread /\ Found' = Found
    BY <1>1, <2>1, <2>2 DEF Unread, Found, TypeOK, CheckoutTypeOK
  <2> QED
    BY <1>2, <1>3, <1>4, <2>2, <2>3 DEF CommitRead, TreesInv, FilesInv
<1>8. CASE ParseTree
  <2> DEFINE t == reader[Main].oid
  <2>1. /\ checkoutPc = "trees" /\ checkoutPc' = "trees" /\ reader[Main].state = "got"
        /\ reader[Main] # Idle
        /\ t \in Oid /\ t \in published /\ reader'[Main] = Idle
        /\ trees' = trees \cup SubTrees[t]
        /\ directories' = directories \cup SubTrees[t]
        /\ manifest' = manifest \cup Blobs[t]
        /\ UNCHANGED <<files, aborted>>
    BY <1>1, <1>8 DEF ParseTree
  <2> HIDE DEF t
  <2>2. Unread = trees \cup {t} /\ Unread' = trees \cup SubTrees[t] /\ Found' = Found \cup SubTrees[t]
    BY <2>1 DEF Unread, Found, t
  <2>3. ASSUME NEW u \in Found' \ Unread'
        PROVE  u \in published' /\ SubTrees[u] \subseteq Found' /\ Blobs[u] \subseteq manifest'
    <3>1. CASE u = t
      BY <1>2, <2>1, <2>2, <3>1
    <3>2. CASE u # t
      BY <1>2, <2>1, <2>2, <2>3, <3>2 DEF TreesInv
    <3> QED
      BY <3>1, <3>2
  <2> QED
    BY <1>2, <1>3, <2>1, <2>3 DEF CommitRead, TreesInv, FilesInv
<1>9. CASE StartFiles
  <2>1. /\ checkoutPc = "trees" /\ checkoutPc' = "files" /\ trees = {} /\ reader[Main] = Idle
        /\ files' = manifest /\ UNCHANGED <<trees, directories, manifest, aborted, reader>>
    BY <1>9 DEF StartFiles, TreesRead
  <2>2. Unread' = Unread /\ Found' = Found
    BY <2>1 DEF Unread, Found
  <2> QED
    BY <1>2, <1>3, <2>1, <2>2 DEF CommitRead, TreesInv, FilesInv
<1>10. CASE MainFails
  <2>1. checkoutPc' = "err"
    BY <1>10 DEF MainFails
  <2> QED
    BY <1>2, <1>3, <2>1 DEF CommitRead, TreesInv, FilesInv
<1>11. CASE EndFiles \/ WriteGitIndex
  <2>1. /\ checkoutPc \in {"files", "index"} /\ checkoutPc' \in {"index", "ok", "err"}
        /\ UNCHANGED <<trees, directories, manifest, files, written, aborted, reader>>
        /\ checkoutPc' = "index" => ~aborted /\ files = {} /\ \A w \in Workers : reader[w] = Idle
        /\ checkoutPc' = "ok" => checkoutPc = "index"
    BY <1>11 DEF EndFiles, WriteGitIndex
  <2>2. Unread' = Unread /\ Found' = Found
    BY <2>1 DEF Unread, Found
  <2> QED
    BY <1>2, <1>3, <1>4, <2>1, <2>2 DEF CommitRead, TreesInv, FilesInv
<1> QED
  BY <1>5, <1>6, <1>7, <1>8, <1>9, <1>10, <1>11 DEF Checkout

\* What the workers do with the files.
LEMMA WorkersKeepCheckout ==
  ASSUME TypeOK, CheckoutInv, NEW w \in Workers, Work(w)
  PROVE  CheckoutInv'
<1> USE DEF CheckoutInv
<1>1. /\ Main \in Readers /\ Main # w /\ w \in Readers /\ Workers \subseteq Readers
      /\ reader \in [Readers -> ReaderState]
      /\ \A r \in Readers : reader[r] = Idle \/ reader[r].oid \in Oid
      /\ Idle.state = "idle"
      /\ \A o : Reading(o).state = "checking" /\ Reading(o).oid = o /\ Reading(o) # Idle
  BY ThreadsAssumption DEF Readers, TypeOK, ReaderState, Idle, Reading
<1>2. /\ UNCHANGED <<published, checkoutPc, trees, directories, manifest>>
      /\ \A r \in Readers \ {w} : reader'[r] = reader[r]
      /\ reader'[w].state # "got"
  BY <1>1 DEF Work, TakeFile, WriteFile, FileFails, CheckoutStep, storeVars
<1>3. Unread' = Unread /\ Found' = Found /\ reader'[Main] = reader[Main]
  BY <1>1, <1>2 DEF Unread, Found
<1>4. CommitRead' /\ TreesInv'
  BY <1>1, <1>2, <1>3 DEF CommitRead, TreesInv
<1>5. CASE TakeFile(w)
  <2>1. PICK b \in files : files' = files \ {b} /\ reader' = [reader EXCEPT ![w] = Reading(b)]
    BY <1>5 DEF TakeFile
  <2>2. /\ checkoutPc = "files" /\ UNCHANGED <<written, aborted>> /\ reader[w] = Idle
        /\ reader'[w] = Reading(b) /\ b \in Oid
    BY <1>1, <1>5, <2>1 DEF TakeFile, TypeOK, CheckoutTypeOK
  <2>3. InHand' = InHand \cup {b}
    BY <1>1, <1>2, <2>2 DEF InHand
  <2> QED
    BY <1>2, <1>3, <1>4, <2>1, <2>2, <2>3 DEF FilesInv
<1>6. CASE WriteFile(w)
  <2>1. /\ reader[w].state = "got" /\ reader[w].oid \in published
        /\ written' = written \cup {reader[w].oid}
        /\ reader'[w] = Idle /\ UNCHANGED <<files, aborted>>
    BY <1>1, <1>6 DEF WriteFile
  <2>2. InHand \subseteq InHand' \cup {reader[w].oid}
    BY <1>1, <1>2 DEF InHand
  <2>3. reader[w] # Idle
    BY <1>1, <2>1
  <2> QED
    BY <1>2, <1>3, <1>4, <2>1, <2>2, <2>3 DEF FilesInv
<1>7. CASE FileFails(w)
  <2>1. reader[w] # Idle /\ aborted' = TRUE /\ UNCHANGED <<files, written>> /\ reader'[w] = Idle
    BY <1>1, <1>7 DEF FileFails
  <2> QED
    BY <1>2, <1>3, <1>4, <2>1 DEF FilesInv
<1> QED
  BY <1>5, <1>6, <1>7 DEF Work

\* Every step keeps the trees and files accounted for.
LEMMA CheckoutStepKeeps == TypeOK /\ CheckoutInv /\ [Next]_vars => CheckoutInv'
BY OthersKeepCheckout, MainKeepsCheckout, WorkersKeepCheckout DEF Next

\* A checkout that succeeds has the commit, every tree and every file of the
\* default branch, in whatever order the objects arrived and the workers ran.
THEOREM CheckoutCorrect == Safety => []CheckoutIsComplete
<1>1. TypeOK /\ CheckoutInv => CheckoutIsComplete
  <2> SUFFICES ASSUME TypeOK, CheckoutInv, checkoutPc = "ok"
               PROVE  /\ DefaultCommit \in published
                      /\ CheckedOutTrees \subseteq published
                      /\ UNION {Blobs[t] : t \in CheckedOutTrees} \subseteq written
                      /\ written \subseteq published
    BY DEF CheckoutIsComplete
  <2>1. Unread = {} /\ InHand = {} /\ manifest \subseteq written
    BY DEF CheckoutInv, FilesInv, Unread, InHand
  <2>2. \A t \in Found : t \in published /\ SubTrees[t] \subseteq Found /\ Blobs[t] \subseteq written
    BY <2>1 DEF CheckoutInv, TreesInv
  <2>3. Found \in SUBSET Oid /\ RootTree \in Found
    BY CheckoutAssumption DEF Found, TypeOK, CheckoutTypeOK
  <2>4. CheckedOutTrees \subseteq Found
    BY <2>2, <2>3 DEF CheckedOutTrees
  <2> QED
    BY <2>2, <2>4 DEF CheckoutInv, CommitRead
<1>2. Safety => []TypeOK
  BY TypeCorrect
<1> QED
  BY <1>1, <1>2, CheckoutInit, CheckoutStepKeeps, PTL DEF Safety

-----------------------------------------------------------------------------
(***************************************************************************)
(* The result.  The resolver's last states say what it has left undone:    *)
(* nothing of the pack once it is finishing, no pending delta once it      *)
(* writes the index, and an index of everything when it completes.         *)
(***************************************************************************)
ResultInv ==
  /\ published = {pack[i].oid : i \in resolved}
  /\ resolverPc \in {"finishing", "indexing", "completing", "opening", "ok"} =>
       batch.first = Len(pack) + 1 /\ work = {}
  /\ resolverPc \in {"indexing", "completing", "opening", "ok"} => pending = {}
  /\ resolverPc \in {"completing", "opening", "ok"} => indexed = resolved /\ UniqueObjects
  /\ outcome = "ok" => fetchPc = "ok" /\ resolverPc = "ok" /\ checkoutPc = "ok"

\* No thread has ended at first.
LEMMA ResultInit == Init => ResultInv
BY DEF Init, ResultInv

\* The end of the pack reaches the resolver only when it has accepted and
\* resolved every frame.
LEMMA FinishedFacts ==
  ASSUME TypeOK, ChannelInv, FramesInv, ReceiveFinished
  PROVE  batch.first = Len(pack) + 1 /\ work = {}
<1>1. 1 \in 1 .. Len(Sent) /\ Sent[1].type = "Finished"
  BY SentFacts, QueueFacts DEF ReceiveFinished, TypeOK, FetchTypeOK
<1>2. batch.last = Len(pack)
  BY <1>1 DEF ChannelInv, ChannelInOrder, SentBefore
<1>3. batch.first \in Nat /\ batch.last \in Nat
  BY PackFacts DEF TypeOK, ResolverTypeOK
<1> QED
  BY <1>2, <1>3 DEF ReceiveFinished, ResolverIdle, FramesInv

\* Every step keeps the results true.
LEMMA ResultStep ==
  TypeOK /\ ChannelInv /\ FramesInv /\ CheckoutInv /\ ResultInv /\ [Next]_vars => ResultInv'
<1> SUFFICES ASSUME TypeOK, ChannelInv, FramesInv, CheckoutInv, ResultInv, [Next]_vars
             PROVE  ResultInv'
  OBVIOUS
<1> USE DEF ResultInv
<1>1. CASE Bystanders /\ ~JoinThreads
  <2>1. UNCHANGED <<pack, resolverVars, storeVars>>
    BY <1>1, BystandersFacts
  <2>2. UNCHANGED outcome
    BY <1>1 DEF Bystanders, Fetch, ReceivePack, EndOfPack, Send, SendFails, FetchEnds, FetchFails,
       FetchGoes, Read, ReadHit, ReadRefused, ReadWaits, SpuriousWakeup, ReaderSteps,
       Checkout, RequestCommit, ParseCommit, RequestTree, ParseTree, StartFiles, MainFails,
       EndFiles, WriteGitIndex, Work, TakeFile, WriteFile, FileFails, CheckoutStep, Done, vars
  <2>3. fetchPc = "ok" => fetchPc' = "ok"
    BY <1>1 DEF Bystanders, Fetch, ReceivePack, EndOfPack, Send, SendFails, FetchEnds, FetchFails,
       FetchGoes, Read, ReadHit, ReadRefused, ReadWaits, SpuriousWakeup, ReaderSteps, fetchVars,
       Checkout, RequestCommit, ParseCommit, RequestTree, ParseTree, StartFiles, MainFails,
       EndFiles, WriteGitIndex, Work, TakeFile, WriteFile, FileFails, CheckoutStep, Done, vars
  <2>4. checkoutPc = "ok" => checkoutPc' = "ok"
    <3>1. CASE Checkout
      <4>1. CASE MainFails
        <5>1. checkoutPc # "ok"
          BY <4>1 DEF MainFails, TreesRead, CheckoutInv, FilesInv, Idle
        <5> QED
          BY <5>1
      <4> QED
        BY <3>1, <4>1 DEF Checkout, RequestCommit, ParseCommit, RequestTree, ParseTree,
           StartFiles, EndFiles, WriteGitIndex, TreesRead, checkoutVars
    <3>2. CASE Bystanders /\ ~Checkout
      BY <1>1, <3>2 DEF Bystanders, Fetch, ReceivePack, EndOfPack, Send, SendFails, FetchEnds,
         FetchFails, FetchGoes, Read, ReadHit, ReadRefused, ReadWaits, SpuriousWakeup,
         ReaderSteps, checkoutVars, Work, TakeFile, WriteFile, FileFails, Done, vars
    <3> QED
      BY <1>1, <3>1, <3>2
  <2>5. UniqueObjects' = UniqueObjects
    BY <2>1 DEF UniqueObjects, resolverVars
  <2> QED
    BY <2>1, <2>2, <2>3, <2>4, <2>5 DEF resolverVars, storeVars
<1>2. CASE JoinThreads
  <2>1. UNCHANGED <<pack, resolverVars, storeVars, fetchPc, checkoutPc>>
    BY <1>2 DEF JoinThreads, fetchVars, checkoutVars
  <2>2. outcome' = "ok" => fetchPc = "ok" /\ resolverPc = "ok" /\ checkoutPc = "ok"
    BY <1>2 DEF JoinThreads, Outcome
  <2>3. UniqueObjects' = UniqueObjects
    BY <2>1 DEF UniqueObjects, resolverVars
  <2> QED
    BY <2>1, <2>2, <2>3 DEF resolverVars, storeVars
<1>3. CASE Resolve
  <2>1. /\ UNCHANGED <<pack, fetchPc, checkoutPc, outcome>>
        /\ resolverPc # "ok"
    BY <1>3 DEF Resolve, StartResolver, ReceiveFrames, ReceiveFinished, ReceiveFails, AcceptFrame,
       PublishObject, NotifyReaders, ResolveFails, ResolverPanics, CheckPending, WriteIndexFile,
       IndexFileFails, CompleteStore, ResolverEnds, FailStore, ResolverGoes, fetchVars,
       checkoutVars
  <2>2. outcome' # "ok"
    BY <2>1
  <2>3. ASSUME NEW i \in Frames, PublishObject(i)
        PROVE  ResultInv'
    BY <2>1, <2>2, <2>3 DEF PublishObject, ResolverGoes
  <2>4. CASE ReceiveFinished
    BY <2>1, <2>2, <2>4, FinishedFacts DEF ReceiveFinished, ResolverGoes, frameVars, storeVars
  <2>5. CASE CheckPending
    BY <2>1, <2>2, <2>5 DEF CheckPending, ResolverGoes, frameVars, storeVars
  <2>6. CASE WriteIndexFile
    BY <2>1, <2>2, <2>6 DEF WriteIndexFile, ResolverGoes, frameVars, storeVars, UniqueObjects
  <2>7. CASE CompleteStore \/ ResolverEnds
    BY <2>1, <2>2, <2>7 DEF CompleteStore, ResolverEnds, ResolverGoes, frameVars, storeVars,
                            UniqueObjects
  <2>8. CASE StartResolver \/ ReceiveFrames \/ ReceiveFails \/ AcceptFrame \/ NotifyReaders
             \/ ResolveFails \/ ResolverPanics \/ IndexFileFails \/ FailStore
    <3>1. /\ resolverPc' \in {"running", "failing", "panicked", "err"}
          /\ UNCHANGED <<published, resolved>>
      BY <2>8 DEF StartResolver, ReceiveFrames, ReceiveFails, AcceptFrame, NotifyReaders,
         ResolveFails, ResolverPanics, IndexFileFails, FailStore, ResolverGoes, frameVars,
         storeVars
    <3> QED
      BY <2>1, <2>2, <3>1
  <2> QED
    BY <1>3, <2>3, <2>4, <2>5, <2>6, <2>7, <2>8 DEF Resolve
<1> QED
  BY <1>1, <1>2, <1>3 DEF Next, Bystanders

\* All that is known of the pipelined clone, together.
LEMMA ResultInvariant ==
  Safety => [](TypeOK /\ ChannelInv /\ FramesInv /\ StoreInv /\ CheckoutInv /\ ResultInv)
<1>1. Safety => []TypeOK
  BY TypeCorrect
<1>2. Init => ChannelInv /\ FramesInv /\ StoreInv /\ CheckoutInv /\ ResultInv
  BY ChannelInit, FramesInit, StoreInit, CheckoutInit, ResultInit
<1> QED
  BY <1>1, <1>2, ChannelStep, FramesStep, StoreStep, CheckoutStepKeeps, ResultStep, PTL DEF Safety

\* A success means that the whole pack was received, that every frame of it is
\* resolved, indexed and published, and that no object is in it twice.
THEOREM SuccessCorrect == Safety => []SuccessIsComplete
<1>1. TypeOK /\ ChannelInv /\ FramesInv /\ StoreInv /\ ResultInv => SuccessIsComplete
  <2> SUFFICES ASSUME TypeOK, ChannelInv, FramesInv, StoreInv, ResultInv, outcome = "ok"
               PROVE  SuccessIsComplete
    BY DEF SuccessIsComplete
  <2>1. fetchPc = "ok" /\ resolverPc = "ok" /\ checkoutPc = "ok"
    BY DEF ResultInv
  <2>2. resolved = Frames
    <3>1. Len(pack) \in Nat
      BY PackFacts DEF TypeOK
    <3>2. batch.first - 1 = Len(pack) /\ work = {} /\ pending = {}
      BY <2>1, <3>1 DEF ResultInv
    <3> QED
      BY <3>2 DEF FramesInv, FramesAccountedFor, Frames
  <2>3. scanned = Len(pack)
    BY <2>1 DEF ChannelInv
  <2>4. complete /\ ~failure
    BY <2>1 DEF StoreInv
  <2> QED
    BY <2>1, <2>2, <2>3, <2>4 DEF ResultInv, SuccessIsComplete, UniqueObjects
<1> QED
  BY <1>1, ResultInvariant, PTL

-----------------------------------------------------------------------------
(***************************************************************************)
(* The data of the objects.  The invariant follows an object that is being *)
(* spilled, too: from the write to the publication its bytes stay where    *)
(* they are, since the file only grows.                                    *)
(***************************************************************************)
DataKinds == [kind : {"resident"}] \cup [kind : {"spilled"}, offset : Nat]

\* The bytes of an object from an offset of the spill file.
HoldsAt(o, offset) ==
  /\ offset + Size[o] <= Len(arena)
  /\ \A k \in 1 .. Size[o] : arena[offset + k] = o

DataTypeOK ==
  /\ spilling \in BOOLEAN /\ residentBytes \in Nat /\ arena \in Seq(Oid)
  /\ dataState \in [published -> DataKinds]
  /\ spilled \in [frame : Nat, offset : Nat]
  /\ spilled # NoSpill => spilled.frame \in Frames

DataInv ==
  /\ DataTypeOK
  /\ \A o \in published : dataState[o].kind = "spilled" => HoldsAt(o, dataState[o].offset)
  /\ spilled # NoSpill => HoldsAt(pack[spilled.frame].oid, spilled.offset)
  /\ spilling => residentBytes <= ResidentLimit

\* Nothing is spilled at first.
LEMMA DataInitial == DataInit => DataInv
<1> SUFFICES ASSUME DataInit
             PROVE  DataInv
  OBVIOUS
<1>1. published = {} /\ dataState = <<>> /\ residentBytes = 0 /\ arena = <<>> /\ spilled = NoSpill
  BY DEF DataInit, Init
<1>2. spilling \in BOOLEAN /\ ResidentLimit \in Nat
  BY DataAssumption DEF DataInit
<1>3. dataState \in [published -> DataKinds]
  BY <1>1
<1>4. DataTypeOK
  BY <1>1, <1>2, <1>3 DEF DataTypeOK, NoSpill
<1> QED
  BY <1>1, <1>2, <1>4 DEF DataInv

\* The resolver appends an object to the spill file, before anybody hears of it.
LEMMA SpillStep ==
  ASSUME TypeOK, DataInv, NEW i \in Frames, SpillObject(i)
  PROVE  DataInv'
<1> DEFINE o    == pack[i].oid
           data == [k \in 1 .. Size[o] |-> o]
<1>1. /\ spilled = NoSpill /\ spilled' = [frame |-> i, offset |-> Len(arena)]
      /\ arena' = arena \o data
      /\ UNCHANGED <<pack, published, spilling, residentBytes, dataState>>
  BY DEF SpillObject, OffsetInArena, vars, storeVars
<1>2. /\ o \in Oid /\ Size[o] \in Nat /\ i \in Nat /\ published \subseteq Oid
      /\ Frames' = Frames
  BY <1>1, PackFacts, DataAssumption DEF TypeOK, StoreTypeOK, Frames
<1>3. data \in Seq(Oid) /\ Len(data) = Size[o] /\ \A k \in 1 .. Size[o] : data[k] = o
  BY <1>2, IsASeq
<1>4. arena \in Seq(Oid) /\ Len(arena) \in Nat
  BY DEF DataInv, DataTypeOK
<1> HIDE DEF data
<1>5. /\ arena' \in Seq(Oid) /\ Len(arena') = Len(arena) + Size[o]
      /\ \A k \in 1 .. Size[o] : arena'[Len(arena) + k] = data[k]
  BY <1>1, <1>2, <1>3, <1>4
<1>6. DataTypeOK'
  <2>1. spilled' \in [frame : Nat, offset : Nat] /\ spilled'.frame = i
    BY <1>1, <1>2, <1>4
  <2> QED
    BY <1>1, <1>2, <1>5, <2>1 DEF DataInv, DataTypeOK
<1>7. \A p \in published' : dataState'[p].kind = "spilled" => HoldsAt(p, dataState[p].offset)'
  <2> SUFFICES ASSUME NEW p \in published, dataState[p].kind = "spilled"
               PROVE  HoldsAt(p, dataState[p].offset)'
    BY <1>1
  <2>1. p \in Oid /\ dataState[p] \in DataKinds /\ HoldsAt(p, dataState[p].offset)
    BY <1>2 DEF DataInv, DataTypeOK
  <2>2. dataState[p].offset \in Nat
    BY <2>1 DEF DataKinds
  <2>3. HoldsAt(p, dataState[p].offset) /\ dataState'[p].offset = dataState[p].offset
    BY <1>1, <2>1
  <2>4. Size[p] \in Nat /\ \A k \in 1 .. Size[p] : dataState[p].offset + k \in 1 .. Len(arena)
    BY <1>4, <2>1, <2>2, DataAssumption DEF HoldsAt
  <2>5. \A j \in 1 .. Len(arena) : arena'[j] = arena[j]
    BY <1>1, <1>3, <1>4
  <2>6. dataState[p].offset + Size[p] <= Len(arena)
        /\ \A k \in 1 .. Size[p] : arena[dataState[p].offset + k] = p
    BY <2>1 DEF HoldsAt
  <2>7. dataState[p].offset + Size[p] <= Len(arena')
    BY <1>2, <1>4, <1>5, <2>2, <2>4, <2>6
  <2>8. \A k \in 1 .. Size[p] : arena'[dataState[p].offset + k] = p
    BY <2>4, <2>5, <2>6
  <2> QED
    BY <2>3, <2>7, <2>8 DEF HoldsAt
<1>8. HoldsAt(pack[spilled.frame].oid, spilled.offset)'
  BY <1>1, <1>2, <1>3, <1>4, <1>5 DEF HoldsAt
<1> QED
  BY <1>1, <1>6, <1>7, <1>8 DEF DataInv

\* The object is published with the state it has got.
LEMMA PublishDataStep ==
  ASSUME TypeOK, DataInv, NEW i \in Frames, PublishesData(i),
         pack' = pack, published' = published \cup {pack[i].oid}
  PROVE  DataInv'
<1> DEFINE o == pack[i].oid
           entry == dataState'[o]
<1>1. /\ o \in Oid /\ Size[o] \in Nat /\ ResidentLimit \in Nat /\ published \subseteq Oid
      /\ UNCHANGED <<spilling, arena, Frames>> /\ spilled' = NoSpill
  BY PackFacts, DataAssumption DEF TypeOK, StoreTypeOK, PublishesData, Frames
<1>2. DataTypeOK /\ DOMAIN dataState = published
  BY DEF DataInv, DataTypeOK
<1>3. /\ DOMAIN dataState' = published'
      /\ \A p \in published : p # o => dataState'[p] = dataState[p]
      /\ \/ MustSpill(o) /\ entry = [kind |-> "spilled", offset |-> spilled.offset]
            /\ spilled.frame = i /\ residentBytes' = residentBytes
         \/ ~MustSpill(o) /\ entry = [kind |-> "resident"]
            /\ residentBytes' = IF o \in BlobOids THEN residentBytes + Size[o] ELSE residentBytes
      /\ dataState' = [p \in published' |-> dataState'[p]]
  BY <1>2 DEF PublishesData
<1>4. residentBytes' \in Nat /\ (spilling => residentBytes' <= ResidentLimit)
  BY <1>1, <1>2, <1>3 DEF DataInv, DataTypeOK, MustSpill
<1>5. entry \in DataKinds /\ (entry.kind = "spilled" => HoldsAt(o, entry.offset))
  <2>1. CASE MustSpill(o)
    <3>1. spilled.frame = i /\ entry = [kind |-> "spilled", offset |-> spilled.offset]
      BY <1>3, <2>1
    <3>2. spilled # NoSpill /\ spilled.offset \in Nat
      BY <1>2, <3>1 DEF DataTypeOK, NoSpill, Frames
    <3>3. HoldsAt(o, spilled.offset)
      BY <3>1, <3>2 DEF DataInv
    <3> QED
      BY <3>1, <3>2, <3>3 DEF DataKinds
  <2>2. CASE ~MustSpill(o)
    <3>1. entry = [kind |-> "resident"]
      BY <1>3, <2>2
    <3> QED
      BY <3>1 DEF DataKinds
  <2> QED
    BY <2>1, <2>2
<1> HIDE DEF entry
<1>6. \A p \in published' : /\ dataState'[p] \in DataKinds
                            /\ dataState'[p].kind = "spilled" => HoldsAt(p, dataState'[p].offset)
  <2> TAKE p \in published'
  <2>1. CASE p = o
    BY <1>5, <2>1 DEF entry
  <2>2. CASE p # o
    <3>1. p \in published /\ dataState'[p] = dataState[p]
      BY <1>3, <2>2
    <3>2. dataState[p] \in DataKinds
      BY <1>2, <3>1 DEF DataTypeOK
    <3> QED
      BY <3>1, <3>2 DEF DataInv
  <2> QED
    BY <2>1, <2>2
<1>7. dataState' \in [published' -> DataKinds]
  BY <1>3, <1>6
<1>8. \A p \in published' : dataState'[p].kind = "spilled" => HoldsAt(p, dataState[p].offset)'
  BY <1>1, <1>6 DEF HoldsAt
<1>9. DataTypeOK'
  BY <1>1, <1>2, <1>4, <1>7 DEF DataTypeOK, NoSpill
<1> QED
  BY <1>1, <1>4, <1>8, <1>9 DEF DataInv

\* Every step leaves the data of what is published where it is said to be.
LEMMA DataStep == TypeOK /\ ResultInv /\ DataInv /\ [DataNext]_allVars => DataInv'
<1> SUFFICES ASSUME TypeOK, ResultInv, DataInv, [DataNext]_allVars
             PROVE  DataInv'
  OBVIOUS
<1>1. ASSUME UNCHANGED <<pack, published, dataVars>>
      PROVE  DataInv'
  <2>1. UNCHANGED <<pack, published, spilling, residentBytes, dataState, arena, spilled>>
    BY <1>1 DEF dataVars
  <2>2. \A o \in published : HoldsAt(o, dataState[o].offset)' <=> HoldsAt(o, dataState[o].offset)
    BY <2>1 DEF HoldsAt
  <2>3. HoldsAt(pack[spilled.frame].oid, spilled.offset)'
          <=> HoldsAt(pack[spilled.frame].oid, spilled.offset)
    BY <2>1 DEF HoldsAt
  <2>4. DataTypeOK'
    BY <2>1 DEF DataInv, DataTypeOK, Frames
  <2> QED
    BY <2>1, <2>2, <2>3, <2>4 DEF DataInv
<1>2. CASE \E i \in Frames : SpillObject(i)
  BY <1>2, SpillStep
<1>3. CASE PipelineStep
  <2>1. \/ \E j \in Frames : PublishObject(j)
        \/ UNCHANGED <<pack, published, resolved>>
    <3>1. CASE Bystanders
      BY <3>1, BystandersFacts DEF resolverVars, storeVars
    <3>2. CASE Resolve
      BY <3>2 DEF Resolve, StartResolver, ReceiveFrames, ReceiveFinished, ReceiveFails,
         AcceptFrame, NotifyReaders, ResolveFails, ResolverPanics, CheckPending, WriteIndexFile,
         IndexFileFails, CompleteStore, ResolverEnds, FailStore, ResolverGoes, frameVars, storeVars
    <3> QED
      BY <1>3, <3>1, <3>2 DEF PipelineStep, Next, Bystanders
  <2>2. CASE resolved' = resolved
    <3>1. UNCHANGED dataVars
      BY <1>3, <2>2 DEF PipelineStep
    <3>2. pack' = pack /\ published' = published
      <4>1. ASSUME NEW j \in Frames, PublishObject(j) PROVE pack' = pack /\ published' = published
        <5>1. /\ pack' = pack /\ published' = published \cup {pack[j].oid}
              /\ resolved' = resolved \cup {j}
          BY <4>1 DEF PublishObject, ResolverGoes
        <5>2. j \in resolved
          BY <2>2, <5>1
        <5>3. pack[j].oid \in published
          BY <5>2 DEF ResultInv
        <5> QED
          BY <5>1, <5>3
      <4> QED
        BY <2>1, <4>1
    <3> QED
      BY <1>1, <3>1, <3>2
  <2>3. CASE resolved' # resolved
    <3>1. PICK i \in resolved' \ resolved : PublishesData(i)
      BY <1>3, <2>3 DEF PipelineStep
    <3>2. PICK j \in Frames : PublishObject(j)
      BY <2>1, <2>3
    <3>3. /\ pack' = pack /\ published' = published \cup {pack[j].oid}
          /\ resolved' = resolved \cup {j}
      BY <3>2 DEF PublishObject, ResolverGoes
    <3>4. i = j
      BY <3>1, <3>3
    <3> QED
      BY <3>1, <3>2, <3>3, <3>4, PublishDataStep
  <2> QED
    BY <2>2, <2>3
<1>4. CASE UNCHANGED allVars
  BY <1>1, <1>4 DEF allVars, vars, storeVars
<1> QED
  BY <1>2, <1>3, <1>4 DEF DataNext

\* Every step of the data is a step of the pipeline, or leaves it alone.
LEMMA DataIsPipeline == DataSafety => Safety
<1>1. DataInit => Init
  BY DEF DataInit
<1>2. [DataNext]_allVars => [Next]_vars
  BY DEF DataNext, PipelineStep, SpillObject, allVars
<1> QED
  BY <1>1, <1>2, PTL DEF DataSafety, Safety

\* Whenever a reader may have been told of an object its data is where its state says,
\* whole and its own, and no more blobs stay in memory than the limit allows.
THEOREM DataCorrect == DataSafety => []PublishedIsReadable
<1>1. TypeOK /\ DataInv => PublishedIsReadable
  <2> SUFFICES ASSUME TypeOK, DataInv
               PROVE  PublishedIsReadable
    OBVIOUS
  <2>1. DataTypeOK /\ DOMAIN dataState = published
    BY DEF DataInv, DataTypeOK
  <2>2. ASSUME NEW o \in published, dataState[o].kind = "spilled"
        PROVE  /\ dataState[o].offset + Size[o] <= Len(arena)
               /\ BytesOf(o) = [k \in 1 .. Size[o] |-> o]
    <3>1. HoldsAt(o, dataState[o].offset)
      BY <2>2 DEF DataInv
    <3>2. /\ o \in Oid /\ Size[o] \in Nat /\ arena \in Seq(Oid) /\ Len(arena) \in Nat
          /\ dataState[o] \in DataKinds
      BY <2>1, DataAssumption DEF TypeOK, StoreTypeOK, DataTypeOK
    <3>3. dataState[o].offset \in Nat
      BY <2>2, <3>2 DEF DataKinds
    <3> DEFINE a == dataState[o].offset
               n == Size[o]
               data == SubSeq(arena, a + 1, a + n)
    <3>4. /\ n \in Nat /\ a \in Nat /\ a + n <= Len(arena)
          /\ \A k \in 1 .. n : arena[a + k] = o
      BY <3>1, <3>2, <3>3 DEF HoldsAt
    <3> HIDE DEF a, n
    <3>5. /\ data \in Seq(Oid) /\ Len(data) = n
          /\ \A k \in 1 .. n : data[k] = arena[a + k]
      BY <3>2, <3>4, SubSeqProperties
    <3> HIDE DEF data
    <3>6. data = [k \in 1 .. n |-> data[k]]
      BY <3>5
    <3>7. data = [k \in 1 .. n |-> o]
      BY <3>4, <3>5, <3>6
    <3> QED
      BY <3>4, <3>7 DEF BytesOf, a, n, data
  <2> QED
    BY <2>1, <2>2 DEF DataInv, PublishedIsReadable
<1> QED
  BY <1>1, DataInitial, DataStep, DataIsPipeline, ResultInvariant, PTL DEF DataSafety
=============================================================================
