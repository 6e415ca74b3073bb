------------------------------ MODULE Pipeline ------------------------------
(***************************************************************************)
(* The default (pipelined) clone: crates/core/src/clone.rs:397-480 and the *)
(* parts of pack/mod.rs, protocol/smart_http.rs and checkout/mod.rs it     *)
(* runs concurrently.                                                      *)
(*                                                                         *)
(*   fetch thread     receives the pack, scans it into object frames and   *)
(*                    sends batches of frames over a bounded channel;      *)
(*   resolver thread  accepts the frames, applies deltas once their base   *)
(*                    is known, and publishes every resolved object in the *)
(*                    PipelineObjectStore;                                 *)
(*   main thread      checks the default branch out of that store, waiting *)
(*                    for objects that are not there yet; files are        *)
(*                    written by a pool of worker threads; then it joins   *)
(*                    both threads and decides what the clone returns.     *)
(*                                                                         *)
(* A frame is known by its place in the pack (its offset in the code), an  *)
(* object by an id.  Bytes, sizes, checksums and metrics are left out; a   *)
(* check on them that can fail is a step that may fail.                    *)
(***************************************************************************)
EXTENDS Integers, Sequences, FiniteSets

CONSTANTS
  Oid,            \* object ids
  Packs,          \* the packs the remote may send, sequences of frames
  DefaultCommit,  \* the commit the default branch points to
  RootTree,       \* the tree of that commit
  SubTrees,       \* SubTrees[t]: the trees among the entries of tree t
  Blobs,          \* Blobs[t]: the files and symlinks among the entries of t
  Main,           \* the main thread, which reads commit and trees
  Workers,        \* the checkout workers, which read blobs
  NoOid,          \* not an object id
  QueueCapacity,  \* FCL_PIPELINE_FRAME_QUEUE: slots of the channel
  ResolverMayPanic \* whether the resolver thread can panic

\* How pack/mod.rs EncodedObjectKind refers to the base of a delta: not at
\* all, by its offset in the pack, or by its object id.  "oid" is the id the
\* object has once it is resolved.
Frame ==
       [kind : {"base"}, oid : Oid]
  \cup [kind : {"offset"}, base : Nat, oid : Oid]
  \cup [kind : {"ref"}, base : Oid, oid : Oid]

ASSUME PacksAssumption == \A p \in Packs : p \in Seq(Frame)

ASSUME CheckoutAssumption ==
  /\ DefaultCommit \in Oid
  /\ RootTree \in Oid
  /\ SubTrees \in [Oid -> SUBSET Oid]
  /\ Blobs \in [Oid -> SUBSET Oid]

ASSUME ThreadsAssumption ==
  /\ Main \notin Workers
  /\ NoOid \notin Oid
  /\ QueueCapacity \in Nat \ {0}
  /\ ResolverMayPanic \in BOOLEAN

Readers == Workers \cup {Main}

VARIABLES
  pack,         \* the pack the remote sends in this clone
  \* fetch thread
  fetchPc,
  scanned,      \* number of frames scanned so far
  outbox,       \* the event the fetch thread is sending
  \* the channel
  queue,
  \* resolver thread
  resolverPc,
  batch,        \* the frames first..last of a batch still to accept
  pending,      \* deltas whose base is not resolved
  work,         \* frames to resolve now, their base is resolved
  resolved,     \* resolved frames: the entries of the index to write
  indexed,      \* the entries of the index file, {} until it is written
  \* the object store
  published, complete, failure,
  \* main thread and workers
  checkoutPc,
  trees,        \* trees still to read
  directories,  \* subtrees found so far
  manifest,     \* blobs found so far
  files,        \* blobs of the manifest no worker has taken yet
  written,      \* blobs whose files are written
  aborted,      \* a worker returned an error
  reader,       \* reader[r]: what thread r does with the store
  outcome       \* what clone_repo_pipelined got from the threads

fetchVars == <<fetchPc, scanned, outbox>>
resolverVars == <<resolverPc, batch, pending, work, resolved, indexed>>
storeVars == <<published, complete, failure>>
checkoutVars == <<checkoutPc, trees, directories, manifest, files, written, aborted>>
vars == <<pack, fetchVars, queue, resolverVars, storeVars, checkoutVars,
          reader, outcome>>

-----------------------------------------------------------------------------
(***************************************************************************)
(* States of the threads.                                                  *)
(***************************************************************************)
Frames == 1 .. Len(pack)

\* PipelineEvent: a batch of consecutive frames, or the end of the pack, which
\* counts as a batch without frames after the last one.
Event ==
  [type : {"Frames", "Finished"}, first : 1 .. Len(pack) + 1, last : 0 .. Len(pack)]

FramesEvent(first, last) == [type |-> "Frames", first |-> first, last |-> last]
FinishedEvent == [type |-> "Finished", first |-> scanned + 1, last |-> scanned]

Idle == [state |-> "idle", oid |-> NoOid]
Reading(o) == [state |-> "checking", oid |-> o]
ReaderState ==
  [state : {"checking", "waiting", "got", "refused"}, oid : Oid] \cup {Idle}

\* Mutant: the main thread keeps a clone of the sender.
SenderKept == TRUE

\* The sender lives in the fetch thread and the receiver in the resolver
\* thread; each end goes away when its thread ends, in whatever way.
SenderAlive == fetchPc \notin {"ok", "err"}
ReceiverAlive == resolverPc \notin {"ok", "err", "panicked"}

\* The batch at hand and everything it released is resolved.
ResolverIdle == batch.first > batch.last /\ work = {}

HasBaseIn(i, S) ==
  CASE pack[i].kind = "base"   -> TRUE
    [] pack[i].kind = "offset" -> pack[i].base \in S
    [] pack[i].kind = "ref"    -> \E j \in S : pack[j].oid = pack[i].base

BaseResolved(i) == HasBaseIn(i, resolved)

\* Mutant: the deltas that name an object id are forgotten.
ReleasedByOffset(i) == {j \in pending : pack[j].kind = "offset" /\ pack[j].base = i}

\* The deltas that resolving frame i releases: those that name its offset and
\* those that name its object id.
ReleasedBy(i) ==
  {j \in pending :
     \/ pack[j].kind = "offset" /\ pack[j].base = i
     \/ pack[j].kind = "ref" /\ pack[j].base = pack[i].oid}

\* Mutant: notify_one.
WokenOne ==
  LET asleep == {r \in Readers : reader[r].state = "waiting"}
  IN  IF asleep = {} THEN reader
      ELSE [reader EXCEPT ![CHOOSE r \in asleep : TRUE].state = "checking"]

\* notify_all on the store's condition variable.
Woken == [r \in Readers |->
            IF reader[r].state = "waiting" THEN Reading(reader[r].oid)
                                           ELSE reader[r]]

FetchTypeOK ==
  /\ fetchPc \in {"reading", "sending", "flushing", "ok", "err"}
  /\ scanned \in 0 .. Len(pack)
  /\ outbox \in Event
  /\ queue \in Seq(Event)
  /\ Len(queue) <= QueueCapacity

ResolverTypeOK ==
  /\ resolverPc \in {"starting", "running", "notifying", "finishing", "indexing",
                     "completing", "opening", "failing", "ok", "err", "panicked"}
  /\ batch \in [first : 1 .. Len(pack) + 1, last : 0 .. Len(pack)]
  /\ pending \subseteq Frames
  /\ work \subseteq Frames
  /\ resolved \subseteq Frames
  /\ indexed \subseteq Frames

StoreTypeOK ==
  /\ published \subseteq Oid
  /\ complete \in BOOLEAN
  /\ failure \in BOOLEAN

CheckoutTypeOK ==
  /\ checkoutPc \in {"commit", "trees", "files", "index", "ok", "err"}
  /\ trees \subseteq Oid
  /\ directories \subseteq Oid
  /\ manifest \subseteq Oid
  /\ files \subseteq Oid
  /\ written \subseteq Oid
  /\ aborted \in BOOLEAN

TypeOK ==
  /\ pack \in Packs
  /\ FetchTypeOK
  /\ ResolverTypeOK
  /\ StoreTypeOK
  /\ CheckoutTypeOK
  /\ reader \in [Readers -> ReaderState]
  /\ outcome \in {"none", "ok", "fetchError", "resolverError", "checkoutError"}

Init ==
  /\ pack \in Packs
  /\ fetchPc = "reading"
  /\ scanned = 0
  /\ outbox = FinishedEvent
  /\ queue = <<>>
  /\ resolverPc = "starting"
  /\ batch = [first |-> 1, last |-> 0]
  /\ pending = {}
  /\ work = {}
  /\ resolved = {}
  /\ indexed = {}
  /\ published = {}
  /\ complete = FALSE
  /\ failure = FALSE
  /\ checkoutPc = "commit"
  /\ trees = {}
  /\ directories = {}
  /\ manifest = {}
  /\ files = {}
  /\ written = {}
  /\ aborted = FALSE
  /\ reader = [r \in Readers |-> Idle]
  /\ outcome = "none"

-----------------------------------------------------------------------------
(***************************************************************************)
(* The fetch thread: fetch_full_pack_pipelined and                         *)
(* write_sideband_pack_pipelined.                                          *)
(***************************************************************************)
FetchGoes(from, to) ==
  /\ fetchPc = from
  /\ fetchPc' = to
  /\ UNCHANGED <<pack, resolverVars, storeVars, checkoutVars, reader, outcome>>

\* Packets of band 1 arrive until at least one more frame is complete; the
\* frames they complete are sent as one batch.
ReceivePack ==
  /\ FetchGoes("reading", "sending")
  /\ \E last \in scanned + 1 .. Len(pack) :
       /\ outbox' = FramesEvent(scanned + 1, last)
       /\ scanned' = last
  /\ UNCHANGED queue

\* Mutant: the frames are not counted against the pack header.
EndOfPackUncounted ==
  /\ FetchGoes("reading", "sending")
  /\ outbox' = FinishedEvent
  /\ UNCHANGED <<scanned, queue>>

\* The stream has ended: the checksum is valid, the scanner has seen every
\* object the pack header announced, and the pack file is flushed.
EndOfPack ==
  /\ FetchGoes("reading", "sending")
  /\ scanned = Len(pack)
  /\ outbox' = FinishedEvent
  /\ UNCHANGED <<scanned, queue>>

\* SyncSender::send: waits for a free slot ...
Send ==
  /\ FetchGoes("sending", IF outbox.type = "Finished" THEN "flushing" ELSE "reading")
  /\ ReceiverAlive
  /\ Len(queue) < QueueCapacity
  /\ queue' = Append(queue, outbox)
  /\ UNCHANGED <<scanned, outbox>>

\* ... and fails as soon as the receiver is gone.
SendFails ==
  /\ FetchGoes("sending", "err")
  /\ ~ReceiverAlive
  /\ UNCHANGED <<scanned, outbox, queue>>

FetchEnds == FetchGoes("flushing", "ok") /\ UNCHANGED <<scanned, outbox, queue>>

\* The request, a packet, the pack file, a limit, the scanner or the checksum
\* fails (or the thread panics); after Finished only the last flush can fail.
FetchFails ==
  /\ \E at \in {"reading", "flushing"} : FetchGoes(at, "err")
  /\ UNCHANGED <<scanned, outbox, queue>>

Fetch == ReceivePack \/ EndOfPack \/ Send \/ SendFails \/ FetchEnds \/ FetchFails

-----------------------------------------------------------------------------
(***************************************************************************)
(* The resolver thread: ingest_pack_pipeline and PipelineResolver.         *)
(***************************************************************************)
ResolverGoes(from, to) ==
  /\ resolverPc = from
  /\ resolverPc' = to
  /\ UNCHANGED <<pack, fetchVars, checkoutVars, outcome>>

frameVars == <<batch, pending, work, resolved>>

\* PipelineResolver::new creates the spill directory and reads its limits.
StartResolver ==
  /\ \E to \in {"running", "failing"} : ResolverGoes("starting", to)
  /\ UNCHANGED <<queue, frameVars, indexed, storeVars, reader>>

ReceiveFrames ==
  /\ ResolverGoes("running", "running")
  /\ ResolverIdle
  /\ queue # <<>> /\ Head(queue).type = "Frames"
  /\ queue' = Tail(queue)
  /\ batch' = [first |-> Head(queue).first, last |-> Head(queue).last]
  /\ UNCHANGED <<pending, work, resolved, indexed, storeVars, reader>>

ReceiveFinished ==
  /\ ResolverGoes("running", "finishing")
  /\ ResolverIdle
  /\ queue # <<>> /\ Head(queue).type = "Finished"
  /\ queue' = Tail(queue)
  /\ UNCHANGED <<frameVars, indexed, storeVars, reader>>

\* recv() fails only once the channel is empty and the sender is gone.
ReceiveFails ==
  /\ ResolverGoes("running", "failing")
  /\ ResolverIdle
  /\ queue = <<>> /\ ~SenderAlive
  /\ UNCHANGED <<queue, frameVars, indexed, storeVars, reader>>

\* accept_frame: the frame is resolved now, or its delta waits for its base.
AcceptFrame ==
  /\ ResolverGoes("running", "running")
  /\ batch.first <= batch.last /\ work = {}
  /\ batch' = [batch EXCEPT !.first = @ + 1]
  /\ IF BaseResolved(batch.first)
     THEN work' = {batch.first} /\ UNCHANGED pending
     ELSE pending' = pending \cup {batch.first} /\ UNCHANGED work
  /\ UNCHANGED <<queue, resolved, indexed, storeVars, reader>>

\* resolve_delta / publish_resolved up to and including publish_object's
\* critical section.  The deltas the frame releases are resolved next; the
\* code recurses into them depth first, the model takes them in any order.
PublishObject(i) ==
  /\ ResolverGoes("running", "notifying")
  /\ i \in work
  /\ published' = published \cup {pack[i].oid}
  /\ resolved' = resolved \cup {i}
  /\ work' = (work \ {i}) \cup ReleasedBy(i)
  /\ pending' = pending \ ReleasedBy(i)
  /\ UNCHANGED <<queue, batch, indexed, complete, failure, reader>>

\* publish_object wakes the readers after it has let go of the lock.
NotifyReaders ==
  /\ ResolverGoes("notifying", "running")
  /\ reader' = Woken
  /\ UNCHANGED <<queue, frameVars, indexed, storeVars>>

\* Inflating a payload, applying a delta or writing a spill file fails ...
ResolveFails ==
  /\ ResolverGoes("running", "failing")
  /\ work # {}
  /\ UNCHANGED <<queue, frameVars, indexed, storeVars, reader>>

\* ... or the thread unwinds out of apply_delta: Vec::with_capacity of the
\* declared size panics when no vector can have that size.
ResolverPanics ==
  /\ ResolverMayPanic
  /\ ResolverGoes("running", "panicked")
  /\ \E i \in work : pack[i].kind # "base"
  /\ UNCHANGED <<queue, frameVars, indexed, storeVars, reader>>

\* PipelineResolver::finish: every delta has found its base ...
CheckPending ==
  /\ ResolverGoes("finishing", IF pending = {} THEN "indexing" ELSE "failing")
  /\ UNCHANGED <<queue, frameVars, indexed, storeVars, reader>>

\* ... no object is in the pack twice, and the index is written ...
UniqueObjects == \A i, j \in resolved : pack[i].oid = pack[j].oid => i = j

WriteIndexFile ==
  /\ ResolverGoes("indexing", "completing")
  /\ UniqueObjects
  /\ indexed' = resolved
  /\ UNCHANGED <<queue, frameVars, storeVars, reader>>

\* ... or it is not: a duplicate, an offset or a write that fails.
IndexFileFails ==
  /\ ResolverGoes("indexing", "failing")
  /\ UNCHANGED <<queue, frameVars, indexed, storeVars, reader>>

\* PipelineObjectStore::finish notifies before it lets go of the lock.
CompleteStore ==
  /\ ResolverGoes("completing", "opening")
  /\ complete' = TRUE
  /\ reader' = Woken
  /\ UNCHANGED <<queue, frameVars, indexed, published, failure>>

\* PackStorage::open_file_backed is the last step, and can still fail.
ResolverEnds ==
  /\ \E to \in {"ok", "failing"} : ResolverGoes("opening", to)
  /\ UNCHANGED <<queue, frameVars, indexed, storeVars, reader>>

\* The thread's closure reports any error to the readers before it returns.
FailStore ==
  /\ ResolverGoes("failing", "err")
  /\ failure' = TRUE
  /\ complete' = TRUE
  /\ reader' = Woken
  /\ UNCHANGED <<queue, frameVars, indexed, published>>

Resolve ==
  \/ StartResolver \/ ReceiveFrames \/ ReceiveFinished \/ ReceiveFails
  \/ AcceptFrame \/ (\E i \in Frames : PublishObject(i)) \/ NotifyReaders
  \/ ResolveFails \/ ResolverPanics
  \/ CheckPending \/ WriteIndexFile \/ IndexFileFails
  \/ CompleteStore \/ ResolverEnds \/ FailStore

-----------------------------------------------------------------------------
(***************************************************************************)
(* Reading from the store: PipelineObjectStore::wait_for.  One round of    *)
(* its loop, from taking the lock to waiting on the condition variable, is *)
(* one step.                                                               *)
(***************************************************************************)
ReaderSteps(r, state) ==
  /\ reader' = [reader EXCEPT ![r].state = state]
  /\ UNCHANGED <<pack, fetchVars, queue, resolverVars, storeVars, checkoutVars, outcome>>

ReadHit(r) ==
  /\ reader[r].state = "checking"
  /\ reader[r].oid \in published
  /\ ReaderSteps(r, "got")

\* Mutant: a missing object is an error although it may still arrive.
ReadRefusedEarly(r) ==
  /\ reader[r].state = "checking"
  /\ reader[r].oid \notin published
  /\ ReaderSteps(r, "refused")

ReadRefused(r) ==
  /\ reader[r].state = "checking"
  /\ reader[r].oid \notin published
  /\ failure \/ complete
  /\ ReaderSteps(r, "refused")

ReadWaits(r) ==
  /\ reader[r].state = "checking"
  /\ reader[r].oid \notin published
  /\ ~failure /\ ~complete
  /\ ReaderSteps(r, "waiting")

\* Condvar::wait may return without a notification.
SpuriousWakeup(r) ==
  /\ reader[r].state = "waiting"
  /\ ReaderSteps(r, "checking")

Read(r) == ReadHit(r) \/ ReadRefused(r) \/ ReadWaits(r)

-----------------------------------------------------------------------------
(***************************************************************************)
(* The main thread: materialize_default_branch.  A read that is refused,   *)
(* an object of the wrong type, one that does not parse, or a file system  *)
(* call that fails ends the checkout with an error.                        *)
(***************************************************************************)
CheckoutStep == UNCHANGED <<pack, fetchVars, queue, resolverVars, storeVars, outcome>>

RequestCommit ==
  /\ checkoutPc = "commit" /\ reader[Main] = Idle
  /\ reader' = [reader EXCEPT ![Main] = Reading(DefaultCommit)]
  /\ UNCHANGED checkoutVars /\ CheckoutStep

ParseCommit ==
  /\ checkoutPc = "commit" /\ reader[Main].state = "got"
  /\ trees' = {RootTree}
  /\ checkoutPc' = "trees"
  /\ reader' = [reader EXCEPT ![Main] = Idle]
  /\ UNCHANGED <<directories, manifest, files, written, aborted>> /\ CheckoutStep

\* collect_tree_manifest: the code descends depth first, the model takes the
\* trees in any order.
RequestTree ==
  /\ checkoutPc = "trees" /\ reader[Main] = Idle
  /\ \E t \in trees :
       /\ trees' = trees \ {t}
       /\ reader' = [reader EXCEPT ![Main] = Reading(t)]
  /\ UNCHANGED <<checkoutPc, directories, manifest, files, written, aborted>>
  /\ CheckoutStep

ParseTree ==
  /\ checkoutPc = "trees" /\ reader[Main].state = "got"
  /\ LET t == reader[Main].oid
     IN  /\ trees' = trees \cup SubTrees[t]
         /\ directories' = directories \cup SubTrees[t]
         /\ manifest' = manifest \cup Blobs[t]
  /\ reader' = [reader EXCEPT ![Main] = Idle]
  /\ UNCHANGED <<checkoutPc, files, written, aborted>> /\ CheckoutStep

\* The manifest is complete: directories are created, the manifest is sorted
\* and handed to the workers.
TreesRead == checkoutPc = "trees" /\ reader[Main] = Idle /\ trees = {}

StartFiles ==
  /\ TreesRead
  /\ checkoutPc' = "files"
  /\ files' = manifest
  /\ UNCHANGED <<trees, directories, manifest, written, aborted, reader>>
  /\ CheckoutStep

MainFails ==
  /\ reader[Main].state \in {"got", "refused"} \/ TreesRead
  /\ checkoutPc' = "err"
  /\ reader' = [reader EXCEPT ![Main] = Idle]
  /\ UNCHANGED <<trees, directories, manifest, files, written, aborted>>
  /\ CheckoutStep

\* materialize_manifest_parallel: a worker takes the next entry (chunks of one
\* entry) until there is none.  Once one of them has failed the others take no
\* more, but one that has not seen the failure yet still may.
TakeFile(w) ==
  /\ checkoutPc = "files" /\ reader[w] = Idle
  /\ \E b \in files :
       /\ files' = files \ {b}
       /\ reader' = [reader EXCEPT ![w] = Reading(b)]
  /\ UNCHANGED <<checkoutPc, trees, directories, manifest, written, aborted>>
  /\ CheckoutStep

WriteFile(w) ==
  /\ reader[w].state = "got"
  /\ written' = written \cup {reader[w].oid}
  /\ reader' = [reader EXCEPT ![w] = Idle]
  /\ UNCHANGED <<checkoutPc, trees, directories, manifest, files, aborted>>
  /\ CheckoutStep

FileFails(w) ==
  /\ reader[w].state \in {"got", "refused"}
  /\ aborted' = TRUE
  /\ reader' = [reader EXCEPT ![w] = Idle]
  /\ UNCHANGED <<checkoutPc, trees, directories, manifest, files, written>>
  /\ CheckoutStep

\* rayon's collect returns when every chunk that was started has ended.
EndFiles ==
  /\ checkoutPc = "files"
  /\ files = {} \/ aborted
  /\ \A w \in Workers : reader[w] = Idle
  /\ checkoutPc' = IF aborted THEN "err" ELSE "index"
  /\ UNCHANGED <<trees, directories, manifest, files, written, aborted, reader>>
  /\ CheckoutStep

WriteGitIndex ==
  /\ checkoutPc = "index"
  /\ checkoutPc' \in {"ok", "err"}
  /\ UNCHANGED <<trees, directories, manifest, files, written, aborted, reader>>
  /\ CheckoutStep

Checkout ==
  \/ RequestCommit \/ ParseCommit \/ RequestTree \/ ParseTree \/ StartFiles
  \/ MainFails \/ EndFiles \/ WriteGitIndex

Work(w) == TakeFile(w) \/ WriteFile(w) \/ FileFails(w)

-----------------------------------------------------------------------------
(***************************************************************************)
(* The main thread joins both threads once its checkout has ended, and     *)
(* only then looks at any of the three results.                            *)
(***************************************************************************)
OutcomeWithoutFetch ==
  CASE resolverPc # "ok" -> "resolverError"
    [] resolverPc = "ok" /\ checkoutPc # "ok" -> "checkoutError"
    [] OTHER -> "ok"

Outcome ==
  CASE resolverPc # "ok" -> "resolverError"
    [] resolverPc = "ok" /\ fetchPc # "ok" -> "fetchError"
    [] resolverPc = "ok" /\ fetchPc = "ok" /\ checkoutPc # "ok" -> "checkoutError"
    [] OTHER -> "ok"

JoinThreads ==
  /\ outcome = "none"
  /\ checkoutPc \in {"ok", "err"}
  /\ fetchPc \in {"ok", "err"}
  /\ resolverPc \in {"ok", "err", "panicked"}
  /\ outcome' = Outcome
  /\ UNCHANGED <<pack, fetchVars, queue, resolverVars, storeVars, checkoutVars, reader>>

\* The threads are joined; nothing moves any more.
Done == outcome # "none" /\ UNCHANGED vars

Next ==
  \/ Fetch
  \/ Resolve
  \/ \E r \in Readers : Read(r) \/ SpuriousWakeup(r)
  \/ Checkout
  \/ \E w \in Workers : Work(w)
  \/ JoinThreads
  \/ Done

Safety == Init /\ [][Next]_vars

(***************************************************************************)
(* Every thread runs as long as it can.  For the fetch thread this rests   *)
(* on the request timeout of the HTTP client (smart_http.rs:80), which     *)
(* turns a silent server into FetchFails.  A spurious wakeup need never    *)
(* happen.                                                                 *)
(***************************************************************************)
Fairness ==
  /\ WF_vars(Fetch)
  /\ WF_vars(Resolve)
  /\ \A r \in Readers : WF_vars(Read(r))
  /\ WF_vars(Checkout)
  /\ \A w \in Workers : WF_vars(Work(w))
  /\ WF_vars(JoinThreads)

Spec == Safety /\ Fairness

-----------------------------------------------------------------------------
(***************************************************************************)
(* Safety.                                                                 *)
(***************************************************************************)

\* The frames the resolver has accepted are exactly those it resolved, those
\* it is about to resolve and those it keeps pending, and no frame is in two
\* of these places: accept_frame, publish_resolved and the two pending maps
\* neither lose a frame nor resolve one twice.
FramesAccountedFor ==
  /\ resolved \cup work \cup pending = 1 .. batch.first - 1
  /\ resolved \cap work = {}
  /\ resolved \cap pending = {}
  /\ work \cap pending = {}

\* A delta is pending only as long as its base is not resolved (a base that
\* arrives late releases all its deltas, by offset and by id), and is worked
\* on only when it is.
PendingLacksBase ==
  /\ \A i \in pending : ~BaseResolved(i)
  /\ \A i \in work \cup resolved : BaseResolved(i)

\* What can be resolved of the first n frames: the least set of them that has every
\* frame whose base it has.
ClosedUpTo(n, S) == \A i \in 1 .. n : HasBaseIn(i, S) => i \in S
Derivable(n) == {i \in 1 .. n : \A S \in SUBSET (1 .. n) : ClosedUpTo(n, S) => i \in S}

\* Whenever the resolver is done with what it has received, it has resolved what can
\* be resolved of it, in whatever order and whichever way the bases were named: at
\* the end finish complains of missing bases exactly if some frame has none.
ResolvesDerivable == ResolverIdle => resolved = Derivable(batch.last)

\* The resolver neither loses a frame nor resolves one twice, each waits for its
\* base exactly as long as that is missing, and none that can be resolved is left:
\* accept_frame, publish_resolved and the two pending maps, for deltas that come
\* before or after their base.
FramesInPlace == FramesAccountedFor /\ PendingLacksBase /\ ResolvesDerivable

\* The channel carries the frames in pack order without gap or repetition from
\* the scanner to the resolver, and Finished only after the last frame of the
\* pack.
Sent == IF fetchPc = "sending" THEN Append(queue, outbox) ELSE queue
SentBefore(k) == IF k = 1 THEN batch.last ELSE Sent[k - 1].last

ChannelInOrder ==
  /\ \A k \in 1 .. Len(Sent) :
       /\ Sent[k].first = SentBefore(k) + 1
       /\ Sent[k].type = "Frames" => Sent[k].first <= Sent[k].last
       /\ Sent[k].type = "Finished" => k = Len(Sent) /\ SentBefore(k) = Len(pack)
  /\ ReceiverAlive => scanned = SentBefore(Len(Sent) + 1)

\* No wakeup is lost: a reader sleeps on the condition variable only while its
\* object is missing and the store is open, or while a notification is due.
NoLostWakeup ==
  \A r \in Readers : reader[r].state = "waiting" =>
    /\ ~complete
    /\ reader[r].oid \in published => resolverPc = "notifying"

\* The trees of the default branch: the least set with the root tree and all
\* subtrees of its members.
CheckedOutTrees ==
  {t \in Oid : \A S \in SUBSET Oid :
     RootTree \in S /\ (\A u \in S : SubTrees[u] \subseteq S) => t \in S}

\* A checkout that succeeds has read every tree of the branch from the store
\* and written every file of them, although it started on an empty store and
\* its workers took the files in any order.
CheckoutIsComplete ==
  checkoutPc = "ok" =>
    /\ DefaultCommit \in published
    /\ CheckedOutTrees \subseteq published
    /\ UNION {Blobs[t] : t \in CheckedOutTrees} \subseteq written
    /\ written \subseteq published

\* The threads report a success only if the pack was received to its end, every
\* one of its frames is resolved and in the index, no object is in it twice,
\* and the checkout succeeded.
SuccessIsComplete ==
  outcome = "ok" =>
    /\ fetchPc = "ok" /\ resolverPc = "ok" /\ checkoutPc = "ok"
    /\ scanned = Len(pack)
    /\ indexed = Frames
    /\ \A i, j \in Frames : pack[i].oid = pack[j].oid => i = j
    /\ published = {pack[i].oid : i \in Frames}
    /\ complete /\ ~failure

\* What a reader has seen stays true: objects are never taken out of the store,
\* and once it is complete or failed nothing is added, so that a reader that
\* was refused was refused for good.
AnswersAreFinal ==
  [][ /\ published \subseteq published'
      /\ complete => complete' /\ published' = published
      /\ failure => failure' ]_vars

\* The store keeps the contract of the ObjectStore module, for which a reader
\* that sleeps and one that looks have both asked.
RequestOf(r) ==
  [state |-> IF reader[r].state \in {"checking", "waiting"} THEN "asked" ELSE reader[r].state,
   oid |-> reader[r].oid]

Store ==
  INSTANCE ObjectStore WITH
    available <- published,
    closed <- complete,
    request <- [r \in Readers |-> RequestOf(r)]

StoreContract == Store!Safety

(***************************************************************************)
(* Liveness.                                                               *)
(***************************************************************************)

\* Whatever fails and whenever: the threads end, none of them waits for
\* another one for ever, and the clone returns.
CloneReturns == <>(outcome # "none")

\* The only thing that keeps a clone from returning is a panic of the resolver: whatever
\* else fails, no thread waits for another one for ever.
ReturnsUnlessPanic == <>(outcome # "none" \/ resolverPc = "panicked")
=============================================================================
