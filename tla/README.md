# A verification development of fcl

`fcl` clones a Git repository over smart HTTP. By default it does so as a
pipeline: the pack is received, scanned, resolved and checked out at the same
time, by three threads and a pool of workers. This directory holds TLA+ models
of that program, translated from its source, the TLC configurations that check
them on small instances, and theorems about them that TLAPS proves for every
instance. `PROJECT.json` is the machine-readable side: which definition models
which lines, what each run checks, and which hazard of the code each property
is for. Paths below are under `src/crates/core/src/` unless they say otherwise.

## 1. Inventory

| part | state | operations | talks to |
|---|---|---|---|
| **Pipelined clone** `clone.rs:346` | three threads, what each returned | start, join, decide, publish | all below |
| **Sequential clone** `clone.rs:121` (`FCL_DISABLE_PIPELINE`) | the staged repository | fetch, ingest, metadata, checkout, commit | all below but the store |
| **Staged repository** `repo/mod.rs` | staging directory, target, `layout`, `committed` | create, write metadata, commit, drop | file system |
| **Pipeline object store** `pack/mod.rs:216-498` | `meta_by_oid`, `state_by_oid`, `complete`, `failure` under one mutex, one condition variable | publish, finish, fail, wait_for | resolver writes, checkout reads |
| **Pipelined resolver** `pack/mod.rs:1126-1456` | pending deltas by offset and by id, resolved objects, index entries | accept a frame, publish and cascade, finish | channel, store, spill file |
| **Fetch** `protocol/smart_http.rs:132-683` | pack file, trailer hash, scanner | read sideband packets, write, scan, send frames | HTTP, channel |
| **Checkout** `checkout/mod.rs` | tree stack, manifest, directories, index | read commit and trees, make directories, write files in parallel, write `.git/index` | an object reader: the store or a `PackIndex` |
| **Pack scanner** `pack/mod.rs:1748-2193` | state machine over bytes, current object | feed a chunk, finish | fetch |
| **Sequential ingest** `pack/mod.rs:890-1124, 2569-2746` | inflated frames, child counters | resolve, release bases, write the index | pack file |
| **Retention and spill** `pack/mod.rs:566-782, 1474-1715` | resident, spilled, reconstructable objects | decide, spill, read, reconstruct | checkout |
| **Refs** `protocol/smart_http.rs:22-130, 348-469, 936-950`, `protocol/pkt_line.rs`, `repo/mod.rs:72-117` | the listing, the refs chosen, the files under `.git` | discover (protocol v2 only), list, choose, ask for, write; retry | HTTP, staged repository |
| **Local clone** `local.rs` | source and target trees, counters | inspect, copy recursively, report | file system |
| **Progress display** `crates/cli/src/main.rs:237-625` | renderer thread, two channels, the lines on the screen | send, drain, draw, tell, join | any clone |
| **Benchmarks** `crates/cli/src/bench.rs` | result files | run fcl and git | subprocesses |

How the parts interact in the default clone:

```
 HTTP --> fetch thread --(bounded channel of batches)--> resolver thread
             |                                               | publish, finish, fail
             v                                               v
          pack file                                  PipelineObjectStore
                                                             ^ wait_for (condition variable)
   main thread: commit, trees --- rayon workers: files ------+
        | join fetch, join resolver, decide, commit (rename) or drop (remove)
        |
        +--(events; then the verdict, on a channel of its own)--> renderer thread --> stderr
```

`fcl local` is a copy in the main thread, with the same renderer.

What is hard here: the wakeups of several readers of different objects over one
condition variable; back-pressure through the bounded channel when one end has
failed; deltas that arrive before their base, by offset and by object id;
failures of the three threads in any combination while the checkout already
writes files of a pack that may turn out to be corrupt; the distance between
the check for the target and the rename to it; who owns the staging directory
at each moment; a process killed anywhere; blobs that are read from a spill file
that still grows; refs that move between the request that lists them and the one
that asks for their objects; a tree that is copied while others work in it; a
display that gets events and verdict on two channels.

What makes each part correct:

* store: an object published stays published; a reader gets it, or an error once
  the store is closed, and is never left asleep;
* resolver: every frame ends up resolved, in work or waiting for its base, in
  exactly one of the three, and none waits for a base that is there;
* channel: the resolver sees the frames in pack order, then `Finished`;
* checkout: a checkout that succeeds has written every file of every tree;
* clone: success means that all three threads succeeded on the whole pack; and
  the clone always returns;
* staged repository: nothing partial is ever at the target, existing data is
  never replaced, a failed clone leaves nothing behind;
* scanner: frames do not depend on how the bytes are cut into chunks;
* sequential ingest: every frame that can be resolved is, once; a base is
  released when its last child is resolved, not before and not never;
* fetch: only a whole pack within the limit passes, whatever the packets are, and
  `Finished` is sent when the pack is on disk;
* checkout on disk: exactly the commit's tree, nothing else touched, and an index
  that agrees with it;
* retention: whatever is kept, spilled or given up, an object is read back as itself,
  and the limits hold;
* refs: what is under `.git` is what the server had at one moment, and each ref
  names an object that was fetched; requests are retried as often as the setting
  says, and a clone fails only when they were, or for a fault no retry is for;
* local clone: a success is exactly the source; nothing of anyone else's is
  changed; it refuses only for a reason;
* display: never ahead of the work, gone when the summary is printed, and never
  a reason not to return.

## 2. Modules

| module | models | status |
|---|---|---|
| `ObjectStore` | what an object store promises its readers (abstract) | done |
| `Pipeline` | fetch, channel, resolver, store, checkout, join | done |
| `PipelineProofs` | theorems about `Pipeline` and `PipelineStates` | done |
| `CloneLifecycle` | both clones on disk, staging and publishing | done |
| `CloneLifecycleProofs` | theorems about `CloneLifecycle` | done |
| `PackFormat` | the parser of a whole pack (`scan_pack`), as a function | done |
| `PackScanner` | the streaming scanner over chunks, compared with `PackFormat` | done |
| `PackScannerProofs` | theorems about `PackScanner`, for which the parser of `PackFormat` is unfolded | done |
| `SequentialResolver` | rounds, lookups and release counters of the sequential resolver | done |
| `FrameStream` | what the fetch promises the resolver (abstract) | done |
| `PackStream` | the fetch of a pack: retries, packets, size limit, scan, checksum, flushes; implements `FrameStream` | done |
| `PackStreamProofs` | theorems about `PackStream`, and that it implements `FrameStream` | done |
| `TrailerHasher` | the ring that holds back the checksum | done |
| `TrailerHasherProofs` | theorems about `TrailerHasher` | done |
| `Checkout` | the tree walk, directories, files, symlinks and the index on disk | done |
| `CheckoutProofs` | theorems about `Checkout` | done |
| `ObjectStates` | the rest of the sequential ingest: index, retention, spill file, reading back | done |
| `IngestProofs` | theorems about `SequentialResolver` and `ObjectStates` | done |
| `PipelineStates` | `Pipeline`, with where the data of its objects is: memory, or the spill file that grows while it is read | done |
| `RemoteRefs` | the refs, from the server's listing to the files under `.git`, in both clones | done |
| `LocalClone` | runs of `fcl local` on a disk others use | done |
| `ProgressRenderer` | the renderer thread, its two channels, and the screen | done |
| `Command` | the two commands: `RemoteRefs` or `LocalClone` as the work, with or without the renderer | done |
| `CommandProofs` | theorems about `Command` and the three it is composed of | done |
| `MCPipeline`, `MCCloneLifecycle`, `MCPackScanner`, `MCObjectStates`, `MCPackStream`, `MCTrailerHasher`, `MCCheckout`, `MCCommand` | instances for TLC | done |

Which composes which: `PipelineStates` extends `Pipeline`, which implements
`ObjectStore`; `ObjectStates` extends `SequentialResolver`; `PackStream` implements
`FrameStream`, on which the resolver of `Pipeline` relies; `PackScanner` is compared
with `PackFormat`; `Command` extends `LocalClone`, `RemoteRefs` and
`ProgressRenderer`, and takes each phase of a clone that another module models as
one step that succeeds or fails.

The abstract specifications are the object store, the stream of frames, the parser that
sees a whole pack at once, and the least set of frames that can be resolved. Both
resolvers are held to that last one (`Derivable`): whatever else fails in one of them,
they resolve the same frames of a pack and find the same ones without a base. Recursion
over bytes, frames and chains of deltas is written as folds and as functions defined on
themselves, of which one can prove that they exist.

### ObjectStore

`available` is the set of published objects, `closed` whether anything more can
come, `request[r]` what reader `r` asked for. The actions are `Publish`, `Close`
(both `finish` and `fail`), `Ask`, `Serve` and `Refuse`; a reader is refused only
from a closed store. A reader that sleeps has asked and is not answered yet, so
sleeping and waking are stutters.

### Pipeline

A frame is known by its place in the pack, `kind` and `base` say how it refers to
its base (not at all, by offset, by id), `oid` is the id it has once resolved.

| TLA+ | code |
|---|---|
| `fetchPc`, `scanned`, `outbox` | the fetch thread: frames scanned, the event in `sender.send` |
| `queue`, `QueueCapacity` | `sync_channel(pipeline_queue_capacity())` |
| `SenderAlive`, `ReceiverAlive` | `sender` and `receiver` live in the closures of the two threads |
| `batch` | the `for frame in frames` loop of `ingest_pack_pipeline` |
| `pending` | `pending_by_offset` and `pending_by_oid` |
| `work` | the frames `publish_resolved` releases and then resolves |
| `resolved`, `indexed` | `entries`; what `write_idx_v2` wrote |
| `published`, `complete`, `failure` | `PipelineObjectStoreState` |
| `reader[r]` | a thread in `wait_for`: checking, waiting, got, refused |
| `trees`, `manifest`, `files`, `written`, `aborted` | `collect_tree_manifest`, `materialize_manifest` |
| `outcome` | the match over `fetch_result` and `resolver_result`, then `checkout_result?` |

`publish_object` is two steps, as in the code: the insertion under the mutex
(`PublishObject`), then, the mutex released, `notify_all` (`NotifyReaders`).
`wait_for` looks and decides to sleep under one lock: `ReadHit`, `ReadRefused`
and `ReadWaits` are its three ways through the loop, and `SpuriousWakeup` is
what a condition variable may do. Everything that can fail has a failing action:
`FetchFails` (network, disk, checksum, limit, malformed pack), `ResolveFails`
(bad delta, size, spill), `IndexFileFails`, `MainFails`, `FileFails`.

Abstracted, and why it is sound for what is checked:

* the bytes of objects, sizes, checksums: a check on them is a step that may
  fail, at the place where it is made;
* the order of a cascade: the code resolves the children of a base depth first;
  the model takes any released frame next, which includes that order;
* the order of trees on the stack and of files in a chunk: any order, likewise;
  a chunk of the parallel iterator is one file here, so that more interleavings
  are covered than the code has;
* two entries of the branch with the same blob are one file: both read the same
  object;
* `FCL_MAX_PACK_BYTES` is checked again after the join (clone.rs:466): with
  what the fetch thread has checked already, so it cannot fail there;
* that an object read from the store is the object published: its bytes are
  immutable behind an `Arc`, or in the spill file, which is `PipelineStates`.

### PipelineStates

A step of `Pipeline` is one step here. `SpillObject` (`spill_object`) comes before
the step that publishes its object, as in `publish_resolved`: the offset is the
length of `arena`, the file in the staged repository that no one else appends to.
`PublishesData` is `pipeline_object_state`: whatever is no blob stays in memory, a
blob does if it is within `FCL_CHECKOUT_BLOB_CACHE_BYTES` or if spilling is not asked
for, and it counts in both cases. `dataState` is `state_by_oid`, replaced when an object
is met a second time; `BytesOf` is what `read_spilled_object` reads.

### CloneLifecycle

`staging[c]` is the set of parts in the staging directory of clone `c` (a name of
its own: process id and time, `staging_path`), `target` what is at the target
path, `Plan[mode]` the sequence of steps of `clone_repo_sequential` and
`clone_repo_pipelined`. Each step has an action and may fail (`Fail`), with the
`Drop` of `FinalizingRepo` in the same step, because it runs before the error
leaves the function. Two failures are different, `LayoutFails` and `CommitFails`:
there nothing owns the directory. `Killed` stops a clone anywhere;
`SomeoneCreates` stands for everyone else who may create the target. Assumed:
`remove_dir_all` succeeds, nobody removes or changes the target afterwards, and
`rename` is atomic and replaces an empty directory but nothing else (POSIX).
The threads of the pipelined clone write their parts in any order and are
joined when all are there; how they get there is `Pipeline`.

### PackFormat and PackScanner

A pack is a sequence of small bytes with the code's structure: a header of
magic, version and count; objects with a size varint of low bits first, an
offset varint of high bits first with its added ones, an object id, a compressed
stream; a trailer. The widths are constants (`SizeRadix`, `OidLen`,
`TrailerLen`), so that varints of two and three bytes fit into packs of twenty.
`PackFormat` is `scan_pack`, which the tests compare the scanner with;
`PackScanner` has an action per call of a handler by the loop of `feed_inner`,
`fed - offset` is what is left of the chunk, and `Feed` is the next chunk, of any
length. A checksum over bytes is the sequence of those bytes.

The decompressor is external: `Decompress(n, m)` lets it take and give what its
interface allows: it stops when the input is used up, when the output buffer is
full or at the end of the stream, and may report that end one call late when the
buffer is exactly full. That the trailer is not empty matters: the loop ends with
the input, and a pack that ended with its last stream could leave output in the
decompressor that nobody asks for. The packet that carries the last byte of a
stream may do that; the trailer brings the scanner back. Not modelled: a size
varint of more than ten bytes, whose shift would leave the 64 bits, and the
checksum of the pack, which `PackStream` has.

### SequentialResolver

`resolved` is the keys of `resolved_by_offset`, `byOid` is `resolved_by_oid`,
`counter`, `counted`, `queued`, `ready` are the vectors of those roles, and
`results[f]` is the base with which delta `f` was computed in this round and not
merged yet. `ResolveBases` is everything before the loop, `ComputeRound` the
parallel part of a round, and each `Merge(f)` one turn of the loop over its
results. The code merges in the order of the queue, the model in any order, which
decides only which of two frames with one id is found by it. A delta applied to a
base without data fails in the code on the size of the base; here such a round
ends in `lost`. Bytes and payloads that cannot be read are `PayloadFails`.

### ObjectStates

It extends `SequentialResolver`: its steps (`Resolve`) come first, then the index
(`WriteIndex`), then the loop of `build_object_states`, one frame after the other.

| TLA+ | code |
|---|---|
| `hint`, `spillBlobs`, `Releases` | whether there is a checkout hint, `FCL_SPILL_BLOBS`; the resolver may give up data of blobs (`keep_blob_data`, `release_delta_base_if_done`) |
| `order` | the vector `resolved`, while it is built and while it is consumed |
| `needed` | `checkout_needed_blobs` of the hint |
| `state` | `state_by_oid` |
| `bytes` | the three counters the limits are compared with |
| `offset`, `arena` | the offset taken by `spill_object`; `fcl-spill.dat`, for each byte whose it is |

`Retain`, `LeaveInPack` and the two steps of a spill are the branches of the loop.
A spill is two steps because it opens the file twice: `MeasureArena` looks at the
length, `AppendToArena` appends and compares the limit afterwards. `FCL_SPILL_DIR`
may name a directory that other clones use: the file may be there before, and
`OtherSpills` appends to it between two objects, or, with `CutsIn`, at any time.
`Read` is `PackIndex::read_object`: from memory, from the spill file, or rebuilt
along the deltas; `MaxDepth` stands for the limit of 128 on the recursion, and
`TooDeep` are the objects it cuts off. The depth of an object is counted over
reconstructable ones only, so what is kept in memory decides it.

### PackStream, FrameStream and TrailerHasher

`PackStream` is the fetch in its three modes: pipelined, stored for the sequential
ingest, and stored and scanned on the way (`FCL_STREAM_SCAN`).

| TLA+ | code |
|---|---|
| `pack` | what arrives on band 1, with where its objects end and where the scanner takes offence |
| `attempt` | the counter of `with_retries` |
| `received`, `flushed` | `pack_bytes`; what has left the `BufWriter` |
| `scanned`, `batch` | what `feed_collect` has been given; the frames it returned |
| `events`, `receiver` | `sender`; whether the resolver thread still holds the other end |
| `Bytes`, `ChecksumValid` | `PackTrailerHasher` and `validate_streaming_pack_checksum` |

A payload is one action that writes, counts and checks the limit, followed by the
scan and the send, each a place where the fetch may fail. A response is cut off by
giving a `pack` that is shorter than its objects: `read_packet` takes an end in a
packet header for the end of the response, so the model does too. Packets that hold
no data of the pack change nothing and are left out. `healthy` marks the behaviours
in which nothing fails, so that `HealthyPackAccepted` can say that a good pack is
not refused. The hasher and the scanner enter by what `TrailerHasher` and
`PackScanner` show of them: that the result does not depend on the cuts.

`TrailerHasher` is `PackTrailerHasher` statement by statement; `rest` is what a
call of `update` has not used up yet, and the bytes given to SHA-1 stand for the
hash. `FrameStream` has only the frames sent and whether the stream is open,
finished or broken off; the resolver of `Pipeline` relies on no more.

### Checkout

| TLA+ | code |
|---|---|
| `stack` | the calls of `collect_tree_manifest`, with the entries each still visits |
| `directories`, `manifest` | the two vectors it fills |
| `left`, `aborted` | entries no thread has taken; a thread has returned an error |
| `disk` | the nodes under the root, `.git` among them |
| `index` | the entries of `.git/index` |

A path is a sequence of components, and so is the name of an entry: git writes names
of one component, but neither `parse_tree_entries` nor `validate_relative_path` keeps
a slash out of a name, and the walk joins it to the path of its tree (`EntryPath`).
A leading slash is an unsafe component like `..` and counts as one; empty components
(an empty name, doubled or trailing slashes) are left out.
`IndexNames` gives what `git_index_path_bytes` makes of a component (a backslash
splits it in two). `Path::components` drops a `.` that is not in front, hence `Safe`
and `Resolved`. What is in the root before (`Existing`) has no symlinks, being a new
repository; one that the checkout itself wrote may stand in the way of a path only with
a slash in a name. Where it leads is not in the model: creating something below it may
succeed or fail, and what is created is kept under the path that was asked for
(`ThroughSymlink`). The file system refuses to create what exists (`create_dir`,
`create_new`, `symlink`) or has no parent. Of directories that follow each other in
the sorted list under one index path `dedup` keeps the first (`Deduplicated`); which one
that is depends on bytes the model does not have, so any of them may be.

The commit's tree is `TreeOf`, the levels below its root. That there are finitely many
is the assumption on `Height`: an id is the hash of what it names, so no tree is below
itself. `OwnIndexPaths` says that no two directories share an index path, which only
backslashes, or bytes that are not UTF-8, can bring about. `NothingBelowSymlinks` says
that no path leads below a symlink unless a directory has its place, which comes first;
names of one component satisfy it, double names included (but for a symlink named `.`,
which no checkout accepts). `WorktreeIsTree`, `StaysInRoot` and
`IndexIsWorktree` are stated under these conditions, since the code does not see to
them: finding 6. Entries of the manifest are written in any
order, which includes the orders of chunks and threads; sorting the manifest only
decides which entries share a chunk, and sorting the index is left out.
Reading an object is a step that may fail: how it waits is in `Pipeline`. Trees are
read when they are entered, one call of `read_object` each.

### RemoteRefs

| TLA+ | code |
|---|---|
| `clonePc`, `fetchPc` | the clone, and its fetch, which is a thread of its own in the pipelined one |
| `attempts` | the counter of each `with_retries` |
| `listing`, `cut` | the lines of the answer to `ls-refs`; it ended early |
| `defaultRef` | the result of `resolve_default_branch` |
| `fetched` | the objects `want` lines asked for |
| `gitDir` | `HEAD`, the loose ref of the default branch, `packed-refs` |
| `done`, `faults` | phases that are over; what went wrong that no retry is for |

The server may change (`ServerMoves`) between any two requests. What it lists
besides `HEAD` is in one order, and the answer may end behind any line:
`parse_packets` finds no fault with that. An `ERR` packet has two words and is taken
for a ref. An answer to the capabilities request that ends early, or an `ERR` packet, is
taken for that of a server without version 2, which is an error at once (`Discover`).
A request without an answer, with an HTTP error or with packets that do
not parse is one failed attempt; the fetch retries `send()` only. Whether a server
still has an object no ref reaches is its choice. Both clones have the same steps in
the same order, but for where the refs are written (`Stage`, `WriteRefs`), where the
threads are joined, and for `ResolverPanics`: the resolver of a pipelined clone may
panic, and then the clone is `"waiting"` for ever, as in finding 1.

### LocalClone

| TLA+ | code |
|---|---|
| `disk` | a function from paths to nodes: kind, data, mode, and who made it |
| `stack[r]` | the calls of `copy_tree_cow`: the directory, the entries `read_dir` owes and has returned, the mode to set |
| `stats[r]` | `CopyStats`, without the bytes |
| `changed`, `changes` | runs whose source changed under them; the user's actions so far |

`Inspect` is `inspect_source_repo`, `ChooseTarget` the look at the target, which follows
symlinks. `CopyDirectory` creates a directory and opens the one it is copied from;
entries that are there then are due, and one that comes later may be returned or not.
`LeaveDirectory` sets the mode and returns. `EntryFails` is an entry that cannot be
copied, `LocalFails` any call that fails although nothing is wrong (also `canonicalize`
and `ensure_same_device`), which leaves what was copied. The reflink of a file is one
step and copies its data; its mode is the library's, and `CopyIsExact` compares the
modes of directories only. `Inspect` looks for the eight markers of an operation in
progress in one step, and takes one that is a dangling symlink for a marker, which
`exists()` does not see. Copies by other runs, and what the user writes, creates and
removes, come in between. `Touches` notes the runs whose source somebody changes, or
whose target somebody else works in; for those a success promises nothing.

### ProgressRenderer

| TLA+ | code |
|---|---|
| `outbox` | the events the work sends next, one by one |
| `sent`, `taken` | the channel of events, of which the renderer has received so many |
| `verdict` | the channel `finish` |
| `mainPc` | working, the events dropped, `stop`, joined; or unwinding |
| `rendererPc` | the places of the loop of `run_progress_renderer` |
| `statuses` | `ProgressState.phases` |
| `screen`, `lapsed` | lines are drawn; the verdict came later than 120 ms after the last event |

`Drain` is the loop of `try_recv`, `Ask` the look at `finish`, `Wait` the
`recv_timeout`, whose timeout may come at any time, and `Close` the last one. `Panic`
is a panic of the work: the `TaskProgress` is dropped before the sender of the events,
so `Drop` tells the renderer while the channel is open. The lines themselves, and
what is printed without a terminal, are left out.

### Command

`CloneWork` and `WatchedWork` take a step of the work and put the events it sends next
into the outbox; the next step waits until they are sent, so the renderer may come
between any two. `FetchReports` sends from the fetch thread. `ReportsCopy` is the
throttle of the local copy: so many entries, or so many bytes, which any file may
reach. With `shown` false the work runs as the library's `clone_repo` and
`local_clone` do, without a callback, and only there others are at work: what
the display shows does not depend on them, and the work does not depend on the display.

## 3. What the runs check

| run | question | bounds |
|---|---|---|
| `pipeline` | the pipeline and where its data is: safety, that it implements `ObjectStore`, and that the clone returns | 130 packs: 120 that store two trees and a file in every way (whole, or as deltas by offset and by id on an earlier, a later or the same frame), and eight of up to 6 frames, among them a missing object, a missing base, a duplicate, a chain whose base comes last and the empty pack, and two in which a file is stored twice; a subtree, 2 workers, 2 slots, a resolver that may panic, at most one blob in memory, the rest spilled; 1,054,983 states |
| `pipeline_panic` | **violated**: the clone returns although the resolver panics | eight of these packs, without spilling |
| `lifecycle` | the target, the staging directory and the limits | 2 clones, both modes, 3 limits or none; 224,013 states |
| `lifecycle_cleanup` | **violated**: a failed clone removes its staging directory | as `lifecycle` |
| `scanner` | frames and verdicts do not depend on the chunks; the loop ends | 117 packs of up to 2 objects, every cut; 25,448 states |
| `ingest` | the verdict is right, data is released exactly, everything is read back, limits hold | every pack of up to 3 frames over 2 blobs and a tree, every pack of 4 different blobs, and four of 4 to 6, each with and without hint and spilling; limits of 1, 2 and 3 bytes for objects of 0, 1 and 2, depth 1; 468,928 states |
| `ingest_shared` | **violated**: objects are read back as themselves, with another clone appending to the spill file at any time | 2 blobs that are spilled |
| `pack_stream` | only whole packs pass, the resolver gets a `FrameStream` | 29 packs of up to 4 objects, whole, cut, lengthened, damaged, every cut into packets, 3 modes, 1 retry; 99,220 states |
| `hasher` | the ring keeps every byte in its place | 18 bytes, a checksum of 4, every cut and end; 306 states |
| `checkout` | the tree, and only the tree, is on disk and in the index | 87 commits, every pair of entries over a used, a free and the special names, trees three deep, names with a slash beside a file, directory or symlink of that name; 10,112 states |
| `command` | copies, refs and display of both commands | 13 disks with files, symlinks, a read-only directory and special files, targets free, taken, dangling, inside the source or inside another target, or with a file for a parent; two runs, one change by the user; 5 servers with 3 refs, one push, 1 retry; both clones; with and without display and terminal; 943,329 states |
| `checkout_status` | **violated**: the index has the entries of the commit, and the worktree its files | a submodule, files `x\y` and `x/y`, and a symlink `config` with an entry named `config/y`; each of the three breaks it alone |

Why the bounds are enough to be interesting: three frames are the least with which a
delta can wait for a base that waits for a base, or three can wait for each other, and
the commit and the second file that follow them make the branch complete, so that packs
that can, and packs that cannot, be resolved and checked out are among them, as are
packs with an object twice; two slots are full before the pack ends; of two files one
stays in memory, or neither: the other is spilled before or after the checkout asks for
it; where a file is stored twice, up to three objects are appended to the spill file, at
offsets other than 0, while a reader has or looks for the first; with two workers and
the main thread there are two readers asleep for different objects, which a single
notification could not serve. Two clones are the least that race for a target. The packs
of `scanner` are every pair of a good object and any object (size varints of one to
three bytes, offset varints of one and two, an object id of two, streams longer than the
output buffer, unknown types, broken and over- or undersized streams), wrong counts,
headers and trailers, and two packs cut at every byte. Three frames let an object occur
twice with a delta between; the larger packs of `ingest` resolve an id again while
deltas that name it wait, or twice in one round. The limit of `pack_stream` is met
exactly by one pack, exceeded by another with its checksum only, and by a third with an
object; its checksum is made so that every damage in the instance changes it. In
`hasher` a checksum of 4 lets one payload leave room, fill, wrap and replace the ring,
and the theorems hold for
20. The commits of `checkout` have every combination of two entries that can
collide, deep enough that the order of directories matters. The limits of
`ingest` are met exactly by some packs and exceeded by others, each by its own
kind of object, and a depth of 1 is exceeded by two deltas on top of each
other. In `command`, one push and one change of the user suffice to be before,
between or after any two steps of the work; a refused, a cut and a lost answer, a
server without version 2, an unborn and a detached `HEAD` are among the servers and
their answers; a path of 4 names is the longest that fits, so that a copy into its own
source ends; and one retry is left or not. The display runs beside the smaller disks
and servers, with every event and every step of the renderer in any order.

Properties, by what they are for:

* `NoLostWakeup`: the condition variable;
* `ChannelInOrder`: scanner, channel and resolver agree on the order of frames;
* `FramesInPlace`: the cascade, and that the resolver has resolved all it can whenever
  it is idle;
* `StoreContract`: what a reader was told stays true;
* `SuccessIsComplete`: what success means;
* `ReturnsUnlessPanic`, `CloneReturns`: no thread waits for ever, whatever fails;
* `PublishedIsReadable`: a reader is never told of data that is not there, or not
  its object's;
* `TargetIsComplete`, `SuccessIsPublished`, `ExistingDataIsKept`,
  `PublishedWithinLimit`: what is on disk;
* `FramesAreThePacks`, `AcceptsValidPacks`, `ScanEnds`: the scanner's states at
  every cut;
* `AcceptedPackIsWhole`, `FinishedIsTrue`, `FramesWithinLimit`,
  `HealthyPackAccepted`, `SendsFrameStream`: what a fetch accepts,
  and what it tells the resolver and when;
* `SplitsBytes`, `FinishSplitsPack`: the ring of the checksum;
* `WorktreeIsTree`, `ExistingUntouched`, `StaysInRoot`, `GoodTreeChecksOut`,
  `IndexIsWorktree`, `StatusIsClean`: the checkout on disk;
* `VerdictIsRight`, `ReleasedExactly`: rounds and counters of the sequential
  resolver;
* `ReadsBack`, `NeededIsReady`, `KeepsWithinLimits`: where the data of objects goes
  and whether it can be had again;
* `CopyIsExact`, `OneWriter`, `RefusesForAReason`: the local copy, on a disk in use;
* `RefsAreRemotes`, `RetriesAbsorb`: one state of the server, and the retries;
* `DisplayIsTrue`, `ScreenIsClean`, `CommandReturns`: the display.

Fairness (`Fairness` in `Pipeline`) is weak fairness of each thread: a thread that
can go on does. For the fetch thread this rests on the timeout of the HTTP
client (`smart_http.rs:80`, 300 s for the whole request), by which a silent server
becomes an error; for the others on the operating system's and rayon's
schedulers. A spurious wakeup is never required. `PackScanner` is one thread that
runs, and whose source delivers or ends. `PackStream`, `Checkout`, `ObjectStates`,
`TrailerHasher` and `CloneLifecycle` state safety only, and need no fairness.
`PipelineStates` adds the spill to the resolver's. In `Command` the work, the fetch,
the command and the renderer are each run when they can: requests end because of the
client's timeouts, a copy because paths have a greatest length, and a
`recv_timeout` because its time is over. That the threads of a pipelined clone come to
an end and are joined is not assumed in general: it is `ReturnsUnlessPanic` of
`Pipeline`, and where the resolver panics the clone is `"waiting"`, from which no step
leads on; `CommandReturns` names that case. Nothing is required of other runs, of the user
or of the server, and a panic or a report never has to happen.

### Findings

1. **A panic of the resolver hangs the clone** (`clone.rs:423`). The code has an
   error for it ("resolver thread panicked"), but the main thread reaches the
   join only when the checkout has ended, and the checkout waits for a store
   that only an `Err` of the resolver closes. (`pipeline_panic`)
2. **A failed clone can leave its staging directory** (`repo/mod.rs:147`, `128`):
   when the final rename fails, because `commit` has taken the layout out of the
   value whose `Drop` would remove the directory; and when the layout is only
   half created, because no such value exists yet. (`lifecycle_cleanup`)
3. **A branch with a submodule is not clean** (`checkout/mod.rs:159`): the entry is
   not written to the index, while docs/current-architecture.md:17-23 expects
   `git status` and `git diff HEAD` to find nothing. (`checkout_status`)
4. **A backslash in a name becomes a slash in the index** (`checkout/mod.rs:463`),
   on every platform; the same documentation is contradicted. In the run the index has
   the path `x/y` twice. (`checkout_status`)
5. **Clones that share `FCL_SPILL_DIR` can read each other's objects**
   (`pack/mod.rs:1698`): the offset of a spilled object is the length of the file
   before it is opened to append. README.md:162 suggests one fixed directory, and
   nothing makes the file a clone's own. (`ingest_shared`)
6. **A name with a slash in it is a path** (`checkout/mod.rs:142`): an entry named
   `x/y` beside a symlink `x` is written in the same phase as the symlink. If it comes
   after it, the file is wherever the symlink leads, and the checkout succeeds with a
   worktree in which git does not find the file. git writes no such tree; the code does
   not ask whether another program did. (`checkout_status`)

Observations without a run. The last size check of the sequential clone and the
walk that measures the directory come after the rename (`clone.rs:260`, `257`,
`502`), so a clone that fails there has been published: `MeasureFails` of
`CloneLifecycle`. `PublishedWithinLimit` is a property of the pipelined clone and says
nothing of it. And an object behind more than 128 deltas that are not kept
(`pack/mod.rs:646`) is resolved but cannot be read back: `TooDeep`. The pipelined
resolver never reads `FCL_MAX_SPILL_BYTES`, one of the safety caps of README.md:150-153:
`arena` of `PipelineStates` has no limit. `FCL_NO_PROGRESS` (README.md:171) is read
nowhere. And a verdict that comes more than 120 ms after the last event leaves the
lines of the display on the screen (`lapsed`). Of two directories whose index paths
are equal, `a\b` and `a/b`, the second may not be created (`checkout/mod.rs:183`); what
is in it then fails, and when it is empty nothing tells: hence `OwnIndexPaths` in
`WorktreeIsTree`. For paths with backslashes `IndexIsWorktree` says nothing:
`StatusIsClean` does.

## 4. What is proved

All theorems are for every value of the constants that the named assumptions
allow: any set of packs, any tree, any number of workers, any capacity, a
resolver that may panic; any number of clones, any sizes, any limits; any disk,
any sources and targets, any servers and refs, any number of local runs, retries and
events.

| theorem | states |
|---|---|
| `PipelineProofs!TypeCorrect` | `Safety => []TypeOK` |
| `PipelineProofs!ChannelCorrect` | `Safety => []ChannelInOrder` |
| `PipelineProofs!FramesCorrect` | `Safety => []FramesInPlace` |
| `PipelineProofs!AnswersCorrect` | `Safety => AnswersAreFinal` |
| `PipelineProofs!WakeupCorrect` | `Safety => []NoLostWakeup` |
| `PipelineProofs!StoreRefinement` | `Safety => StoreContract` |
| `PipelineProofs!CheckoutCorrect` | `Safety => []CheckoutIsComplete` |
| `PipelineProofs!SuccessCorrect` | `Safety => []SuccessIsComplete` |
| `PipelineProofs!DataCorrect` | `DataSafety => []PublishedIsReadable` |
| `CloneLifecycleProofs!TargetCorrect` | `Spec => []TargetIsComplete` |
| `CloneLifecycleProofs!PublishedCorrect` | `Spec => []SuccessIsPublished` |
| `CloneLifecycleProofs!StagingCorrect` | `Spec => []StagingIsRemoved` |
| `CloneLifecycleProofs!LimitCorrect` | `Spec => []PublishedWithinLimit` |
| `CloneLifecycleProofs!ExistingDataCorrect` | `Spec => ExistingDataIsKept` |
| `IngestProofs!ResolverTypeCorrect` | `Spec => []TypeOK` |
| `IngestProofs!BasesUsable` | `Spec => []BasesStayUsable` |
| `IngestProofs!VerdictCorrect` | `Spec => []VerdictIsRight` |
| `IngestProofs!ReleasedCorrect` | `Spec => []ReleasedExactly` |
| `IngestProofs!IngestResolves` | `IngestSpec => Spec` |
| `IngestProofs!NeededCorrect` | `IngestSpec => []NeededIsReady` |
| `IngestProofs!LimitsCorrect` | `IngestSpec => []KeepsWithinLimits` |
| `IngestProofs!ReadCorrect` | `IngestSpec => []ReadsBack`, if `~CutsIn` |
| `PackScannerProofs!TypesCorrect` | `Spec => []TypeOK` |
| `PackScannerProofs!FramesCorrect` | `Spec => []FramesAreThePacks` |
| `PackScannerProofs!AcceptsCorrect` | `Spec => []AcceptsValidPacks` |
| `PackStreamProofs!AcceptedCorrect` | `Spec => []AcceptedPackIsWhole` |
| `PackStreamProofs!FinishedCorrect` | `Spec => []FinishedIsTrue` |
| `PackStreamProofs!FramesLimited` | `Spec => []FramesWithinLimit` |
| `PackStreamProofs!HealthyCorrect` | `Spec => []HealthyPackAccepted` |
| `PackStreamProofs!StreamRefinement` | `Spec => SendsFrameStream` |
| `TrailerHasherProofs!HasherTypeCorrect` | `Spec => []TypeOK` |
| `TrailerHasherProofs!HasherSplits` | `Spec => []SplitsBytes` |
| `TrailerHasherProofs!HasherFinishes` | `Spec => []FinishSplitsPack` |
| `CheckoutProofs!WorktreeCorrect` | `Spec => []WorktreeIsTree` |
| `CheckoutProofs!UntouchedCorrect` | `Spec => []ExistingUntouched` |
| `CheckoutProofs!InRootCorrect` | `Spec => []StaysInRoot` |
| `CheckoutProofs!IndexCorrect` | `Spec => []IndexIsWorktree` |
| `CheckoutProofs!ChecksOutCorrect` | `Spec => []GoodTreeChecksOut` |
| `CommandProofs!LocalTypeCorrect` | `Spec => []LocalTypeOK` |
| `CommandProofs!OneWriterCorrect` | `Spec => []OneWriter` |
| `CommandProofs!OthersCorrect` | `Spec => OthersUntouched` |
| `CommandProofs!CopyExact` | `Spec => []CopyIsExact` |
| `CommandProofs!RefusalsCorrect` | `Spec => RefusesForAReason` |
| `CommandProofs!RefsCorrect` | `Spec => []RefsAreRemotes` |
| `CommandProofs!RetriesCorrect` | `Spec => []RetriesAbsorb` |
| `CommandProofs!ScreenCorrect` | `Spec => []ScreenIsClean` |
| `CommandProofs!DisplayCorrect` | `Spec => []DisplayIsTrue` |

`CheckoutIsComplete`, `AnswersAreFinal`, `BasesStayUsable`, `StagingIsRemoved`,
`OthersUntouched` and the type invariants of these modules are proved only; no run
repeats them. `Safety` is `Pipeline`'s specification without its fairness, and so is
`DataSafety` for `PipelineStates`; every behaviour of the second is one of the first
(`DataIsPipeline`), so that all that is proved of `Safety` holds there. In the same way
`IngestResolves` carries what is proved of the resolver over to the ingest.

`WorktreeCorrect`, `InRootCorrect` and `IndexCorrect` prove properties that have
conditions on the names of the tree in them (`OwnIndexPaths`, `NothingBelowSymlinks`,
`PlainNames`). Without `NothingBelowSymlinks` all three are false, which is finding 6.

`ReadCorrect` is the one theorem under a condition: `~CutsIn`, no other process appends
between the two steps of a spill. Without it `ReadsBack` is false, which is finding 5;
others may still append between two objects. The scanner's proofs assume of its
constants that packs are sequences of bytes, that the output buffer is not empty, and
that `NoObject` is no object.

The arguments:

* *Channel.* `ChannelInOrder` speaks of what is in flight. It becomes inductive
  (`ChannelInv`) with the relation between the fetch thread's place, its outbox
  and the end of the queue: what is scanned is what the last event in flight
  ends with, and `Finished` is in flight only when the fetch thread sends it or
  has ended.
* *Frames.* `FramesInv` says how `batch` bounds what was accepted. The cascade
  keeps it because `ReleasedBy` is exactly the pending deltas whose base the
  newly resolved frame is, by offset or by id. `DerivedInv` bounds what is resolved
  by what can be (`Derivable`), which a frame more does not make smaller
  (`DerivableGrows`). The other way round needs no invariant: of an idle resolver all
  accepted frames are resolved, or pending and lack their base, so what is resolved is
  closed, and `Derivable` is the least closed set.
* *Store.* `StoreInv` ties the resolver's place to `complete` and `failure`: the
  store is closed only in the resolver's last places, where it no longer
  publishes. From it follow the finality of answers, the absence of lost
  wakeups, and each step of the refinement.
* *Checkout.* `CheckoutInv` follows the commit, the trees and the files: the
  trees already read, those still on the stack and those being read make up a
  set closed under subtrees once the stack is empty, and the least such set is
  that of the branch; a file is written, taken or still to be taken.
* *Success.* `ResultInv` combines what each thread's success implies with the
  order of the joins.
* *Data.* `DataInv` adds that each published object that is said to be spilled lies at
  its place in the file (`HoldsAt`), the one just spilled too, although it is not
  published yet. The file only grows, so a place once right stays right; an object met
  again changes its entry, and the old one was right as well.
* *Lifecycle.* `LifeInv` says that a running clone has staged what its steps so
  far write (`Written`), that after the commit its repository is at the target,
  and that a clone that measured its directory and goes on is within its limit.
  Nothing that is at the target is replaced, so two clones cannot both have
  committed.
* *Sequential resolver.* `ResolverInv` shows that the counters do not matter for
  safety: a delta is queued when its base has just been resolved and is applied in
  the very next round, so the bases of the round being merged, the only ones that
  may be released, are never those of the deltas that wait (`BaseInv`). The queue
  holds exactly the deltas whose base is resolved (`QueueInv`), so when nothing
  waits the resolved frames are closed under "its base is there", and the least
  closed set is what can be resolved. In a pack with an object twice the counters
  can be too high, and then a base keeps its data until the end, no worse.
* *Counters.* `CountInv` gives every counter its meaning: the children of a resolved
  frame that are not resolved themselves, or, before it is resolved, its children by
  offset, the only ones counted from the start (`Waiting`). Merging a delta takes it from
  the set of its base and adds its own children by id to its own; a count of zero is
  then an empty set, and the base is released exactly there.
* *Retention.* `KeepInv` compares each of the three counters with the sizes of what it
  counts (`Holds`). An object that occurs twice may be counted twice, so a counter is an
  upper bound of what is kept, and the limit holds of what is kept all the more.
  `ReadyInv` needs `HintInv`: only with a hint does the resolver give up data, and only
  that of blobs.
* *Reading back.* `ReadInv` says that every object that has a state is whole in memory,
  lies in the spill file where its state says, or can be rebuilt, and that each frame has
  a state or is still to get one. `KeepsWithinLimits` does not matter for it, but the
  appending does: `arena` only grows, and the offset taken is its length as long as
  nobody cuts in. That a read then ends well is an argument along the deltas: `Chain` is
  what has to be rebuilt, step by step, and `ReadIs` shows, from the limit downwards,
  that an object with `d` deltas above it is read as itself unless the chain below
  reaches the limit. The functions `Read` and `TooDeep` are defined on themselves; that
  they exist is shown first (`Repeated`).
* *Scanner.* `ScannerInv` says at every byte what the parser of the whole pack will have
  to say of it. The frames are those that the parser has after as many objects
  (`FoundInv`, with `At` for the parser's own steps); the bytes since then are those of
  the object in work (`Placed`), and what is known of it is what the parser computes from
  these bytes (`PartIs`): of a header that goes on its size so far (`InHeader`), of an
  offset its distance so far (`InOffset`), of an id its first bytes (`InOid`), of a stream
  what it inflates to, given or owed (`InPayload`). `AcceptsValidPacks` alone is not
  inductive, and neither is `FramesAreThePacks`: only `PartIs` tells that a number
  read across a cut is the one in the pack. A handler that fails does so for a reason
  the parser has too (`NotValid`), and so does `finish` in the middle of an object
  (`NotWhole`). "The decompressor made no progress" is shown not to happen. The facts
  about the parser come first. Its scan is a function defined on itself, its numbers
  are folds: that there are such functions is shown by induction over numbers (`UpTo`,
  by a least counterexample) and over the size of a set (`Folded`), and from it what a
  byte more at the end does to a size (`HighAppend`), a distance (`FarAppend`) and an
  inflated length (`InflatedConcat`).
* *Fetch.* `StreamInv` goes along the places of the fetch: how far the scanner is and
  that it took no offence (`ScannerInv`), what is known when the response has ended, is
  checked and flushed (`EndInv`), what the resolver was told (`ToldInv`), and what cannot
  fail without a failure (`HealthInv`). For the refinement `SentInv` says that the frames
  sent, and those found and still to be sent, are the first of the pack up to what is
  scanned; one payload's frames are put behind them by the facts about `FlattenSeq`,
  whose recursion defines a function.
* *Checkout.* That nothing is touched needs no invariant: creating a path that is there
  fails. The rest rests on `WalkInv`: there is a set of visited entries such that
  whatever is below the root, or below a directory in the set, is in it or pending. When
  nothing is pending the set is the tree, for it is closed and the tree is the least
  closed set (`TreeLeast`, by the lowest level that would not be in it). `DiskInv` says
  what is on the disk: the directories that are not due any more, each in a directory
  that was made before, because a path is deeper than its parent and the least deep
  comes first; then each file that was taken. A path that could be created has no `.` in
  it: its parent is a directory of the tree that was made, so has none, and its last
  component is none. Hence it is where it says, and not where something else went. That
  is where the symlinks matter: under `NothingBelowSymlinks` a symlink on the disk has
  no directory in its place, because nothing is created where something is, and so no
  path of the tree leads through it (`NotThrough`). A tree that git would write
  satisfies the condition (`GoodApart`). For `GoodTreeChecksOut` one also needs that no
  path is visited twice (`FreshInv`): the calls on the stack are at different depths,
  one tree has a name once, names have one component (`GoodBelow`), and what is visited
  has its directory visited, so nothing below a pending entry can be visited yet.
* *Hasher.* The three invariants are inductive together; that the cursor moves only
  over a full trailer is the part of `TypeOK` without which the ring could not be
  read. A payload that replaces the ring is the hard case: the bytes hashed are
  then those before, the ring from its cursor on, and the first part of the rest.
* *Local runs.* `OneWriter` is not inductive: nothing in it says why a run that
  fills its target cannot find another one's directory there. `RootsOwned` does: a run
  that has made anything has made the root of its target, and nobody removes what a run
  made; `FramesOwned` says that the directories it is in are its own. That no run
  changes what it did not make follows step by step: it creates where nothing is, and
  sets the mode of directories of `FramesOwned`.
* *Copies.* `Mirror` says that the target has what the source has, but for what is due in
  the directories still open, with their modes; `DueInv` that whatever the source has in
  an open directory is due or copied, and nothing that is due is there. When the last
  directory is left nothing is open. The difficulty is who else works: `RootInv` and
  `ChainInv` must survive every step of the user and the other runs (`RunUndisturbed`),
  and `Mirror` those that do not count as a change. A copy into its own source never
  ends well (`GrowInv`): each directory it makes for itself is one more to copy.
  `SumInv` makes the counts those of the copy. `RefusesForAReason` is an action property
  and follows from the same invariants, refusal by refusal.
* *Refs.* `RefsInv` follows the listing through the clone: the lines are the server's
  of the moment (`Answered`) or an `ERR` (`Refused`), the default is among those
  selected, and from where they are written the refs are the `Metadata` of that same
  listing, its objects being what was asked for.
* *Retries.* `RetryInv` bounds the attempts of the request that is under way and says
  with which attempts or faults each place is reached.
* *Screen.* `ScreenInv`: the renderer ends with a blank screen or with `lapsed`, and
  the command ends only after it.
* *Display.* An event is true when it is sent if it says nothing is over that is not
  (`Truths`). What is over stays over (`Onward`), so all that is in the outbox, in the
  channel or received remains true however late it is applied (`TruthInv`); that the
  work sends only true events is checked action by action, with `DoneInv` for what
  each place of the clone has done.

Only model-checked: the properties under fairness (`ReturnsUnlessPanic`, `ScanEnds`,
`CommandReturns`), which are out of the prover's reach here, and the violations. Every
invariant and every action property of the passing runs is the statement of a theorem.

## 5. What is not modelled

* The benchmarks (`crates/cli/src/bench.rs`): they run `fcl` and `git` as
  subprocesses and compare timings; their only state is the result files.
* Argument parsing, the lines of the display, the summaries and statistics, and what
  is printed without a terminal: formatting.
* The formats of config, refs, index and pack index, URLs and HTTP headers, the
  compression libraries, and the bytes of objects: data no property tells apart.
* `replay_pack`, which repeats the sequential ingest for measurements.
* In the local copy, the modes of single files and the inside of a reflink, which
  are the library's.
* In the checkout, where a symlink leads, and names with empty components.
