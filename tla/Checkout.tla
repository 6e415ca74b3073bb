------------------------------ MODULE Checkout ------------------------------
(***************************************************************************)
(* The checkout of the default branch: materialize_default_branch          *)
(* (crates/core/src/checkout/mod.rs) collects the files and directories of *)
(* the commit's tree, creates the directories, lets a pool of threads      *)
(* write the files and symlinks, and writes the git index.                 *)
(*                                                                         *)
(* A path is a sequence of components.  So is the name of an entry, since  *)
(* nothing keeps a slash out of it: git writes names of one component, but *)
(* the code does not ask.  Reading an object is a step that may fail; how  *)
(* it waits for the pack is in Pipeline.  Entries that one thread writes   *)
(* in turn, as a chunk, are here written in any order.                     *)
(***************************************************************************)
EXTENDS Integers, SequencesExt

CONSTANTS
  Oid,
  Heads,         \* the commits that may be checked out
  Existing,      \* what is in the root directory before: paths to nodes
  Dot, DotDot,   \* the components "." and ".."; a leading slash counts as ".."
  IndexNames,    \* what git_index_path_bytes makes of a component
  Height         \* how deep the tree of an id is nested

\* TreeEntryMode; the others are a parse error.
FileModes == {"File", "Executable"}
BlobModes == FileModes \cup {"Symlink"}
Component == DOMAIN IndexNames
Name == Seq(Component) \ {<<>>}
TreeEntry == [mode : BlobModes \cup {"Directory", "Gitlink"}, name : Name, oid : Oid]

Object == [type : {"blob", "tag"}] \cup [type : {"tree"}, entries : Seq(TreeEntry)]
            \cup [type : {"commit"}, tree : Oid]

Dir == [kind |-> "dir"]
Node == {Dir} \cup [kind : {"file"}, mode : FileModes, oid : Oid, whole : BOOLEAN]
          \cup [kind : {"symlink"}, oid : Oid]

\* What is there has a directory to be in.
IsTreeOfDirectories(d) == \A p \in DOMAIN d \ {<<>>} : Front(p) \in DOMAIN d /\ d[Front(p)] = Dir

\* An id is the hash of its object, so no tree is below itself.  The root is a new
\* repository, which has no symlinks.
ASSUME CheckoutAssumption ==
  /\ \A h \in Heads :
       /\ h.commit \in DOMAIN h.objects /\ DOMAIN h.objects \subseteq Oid
       /\ \A o \in DOMAIN h.objects :
            /\ h.objects[o] \in Object
            /\ h.objects[o].type = "tree" =>
                 \A e \in Range(h.objects[o].entries) :
                   e.mode = "Directory" => Height[e.oid] < Height[o]
  /\ Height \in [Oid -> Nat]
  /\ DOMAIN Existing \subseteq Seq(Component) /\ Range(Existing) \subseteq Node
  /\ \A p \in DOMAIN Existing : Existing[p].kind # "symlink"
  /\ <<>> \in DOMAIN Existing /\ Existing[<<>>] = Dir /\ IsTreeOfDirectories(Existing)
  /\ Dot \in Component /\ DotDot \in Component

VARIABLES
  head,         \* the commit, and the objects of the pack
  healthy,      \* neither the disk nor the object reader fails
  pc,
  stack,        \* the calls of collect_tree_manifest: entries still to visit
  directories,
  manifest,
  left,         \* entries of the manifest no thread has taken
  aborted,      \* a thread has met an error
  disk,
  index         \* the entries of .git/index, <<>> before it is written

vars == <<head, healthy, pc, stack, directories, manifest, left, aborted, disk, index>>

Init ==
  /\ head \in Heads /\ healthy \in BOOLEAN
  /\ pc = "commit"
  /\ stack = <<>> /\ directories = {} /\ manifest = <<>> /\ left = {}
  /\ aborted = FALSE
  /\ disk = Existing
  /\ index = <<>>

Goes(from, to) == pc = from /\ pc' = to /\ UNCHANGED <<head, healthy>>

-----------------------------------------------------------------------------
(***************************************************************************)
(* The manifest: read_commit_tree_oid and collect_tree_manifest.           *)
(***************************************************************************)
IsIn(h, oid, type) == oid \in DOMAIN h.objects /\ h.objects[oid].type = type

Is(oid, type) == IsIn(head, oid, type)

Entering(oid, path) == [path |-> path, entries |-> head.objects[oid].entries]

fileVars == <<left, aborted, disk, index>>

ReadCommit ==
  LET tree == head.objects[head.commit].tree
  IN /\ Is(head.commit, "commit") /\ Is(tree, "tree")
     /\ Goes("commit", "trees")
     /\ stack' = <<Entering(tree, <<>>)>>
     /\ UNCHANGED <<directories, manifest, fileVars>>

\* A commit or root tree that is missing, of another type, or cannot be parsed.
RejectCommit ==
  /\ ~(healthy /\ Is(head.commit, "commit") /\ Is(head.objects[head.commit].tree, "tree"))
  /\ Goes("commit", "err")
  /\ UNCHANGED <<stack, directories, manifest, fileVars>>

Top == Last(stack)
Below == Front(stack)
Entry == Head(Top.entries)
EntryPath == Top.path \o Entry.name
Visited == Append(Below, [Top EXCEPT !.entries = Tail(@)])

\* validate_relative_path looks at the components, among which "." is only when it
\* comes first.
Safe(path) == path[1] # Dot /\ \A i \in DOMAIN path : path[i] # DotDot

Visit ==
  /\ Goes("trees", "trees")
  /\ Top.entries # <<>> /\ Safe(EntryPath)
  /\ UNCHANGED fileVars

VisitDirectory ==
  /\ Visit /\ Entry.mode = "Directory" /\ Is(Entry.oid, "tree")
  /\ directories' = directories \cup {EntryPath}
  /\ stack' = Append(Visited, Entering(Entry.oid, EntryPath))
  /\ UNCHANGED manifest

VisitFile ==
  /\ Visit /\ Entry.mode \in BlobModes
  /\ manifest' = Append(manifest, [path |-> EntryPath, mode |-> Entry.mode, oid |-> Entry.oid])
  /\ stack' = Visited
  /\ UNCHANGED directories

\* A submodule is not checked out.
VisitGitlink ==
  /\ Visit /\ Entry.mode = "Gitlink"
  /\ stack' = Visited
  /\ UNCHANGED <<directories, manifest>>

RejectEntry ==
  /\ Goes("trees", "err")
  /\ Top.entries # <<>>
  /\ Safe(EntryPath) => Entry.mode = "Directory" /\ ~(healthy /\ Is(Entry.oid, "tree"))
  /\ UNCHANGED <<stack, directories, manifest, fileVars>>

LeaveTree ==
  /\ Goes("trees", IF Below = <<>> THEN "directories" ELSE "trees")
  /\ Top.entries = <<>>
  /\ stack' = Below
  /\ UNCHANGED <<directories, manifest, fileVars>>

-----------------------------------------------------------------------------
(***************************************************************************)
(* The disk.  A path is created where none is, in a directory.  Where a    *)
(* symlink leads is not known: below one, creating may succeed or fail,    *)
(* and what is created is kept here under the path that was asked for.     *)
(* "." is the directory itself, and as the last component of a path it is  *)
(* there already, or nothing is.                                           *)
(***************************************************************************)
Resolved(path) ==
  FlattenSeq([i \in DOMAIN path |-> IF path[i] = Dot THEN <<>> ELSE <<path[i]>>])

Parent(path) == Front(path)

ThroughSymlink(path) ==
  \E s \in DOMAIN disk : disk[s].kind = "symlink" /\ IsStrictPrefix(s, Resolved(path))

InDirectory(path) ==
  Parent(Resolved(path)) \in DOMAIN disk /\ disk[Parent(Resolved(path))] = Dir

\* Mutant: what is there is no obstacle (create_dir_all, or create in place of
\* create_new).
CanCreateOver(path) == Last(path) # Dot /\ (InDirectory(path) \/ ThroughSymlink(path))

CanCreate(path) ==
  /\ Last(path) # Dot /\ Resolved(path) \notin DOMAIN disk
  /\ InDirectory(path) \/ ThroughSymlink(path)

DiskWith(path, node) ==
  [p \in DOMAIN disk \cup {Resolved(path)} |-> IF p = Resolved(path) THEN node ELSE disk[p]]

\* Mutant: the name without the directories.
GitPathOfName(path) == IndexNames[Last(path)]

\* git_index_path_bytes
GitPath(path) == FlattenSeq([i \in DOMAIN path |-> IndexNames[path[i]]])

\* path_depth
Depth(path) == Cardinality({i \in DOMAIN path : path[i] # Dot})

\* Mutant: directories in any order.
NextDirectoriesUnsorted == directories

\* create_checkout_directories: parents first.
NextDirectories == {d \in directories : \A e \in directories : Depth(d) <= Depth(e)}

\* Of neighbours with one index path the first is kept, also when the next one is the
\* first of a greater depth; which is the first is left open.
Deduplicated(d) ==
  {same \in SUBSET {e \in directories : GitPath(e) = GitPath(d)} :
     /\ d \in same
     /\ \A e \in same, f \in directories :
          Depth(f) < Depth(e) \/ (Depth(f) = Depth(e) /\ GitPath(f) = GitPath(e)) => f \in same}

CreateDirectory ==
  \E d \in NextDirectories : \E same \in Deduplicated(d) :
    /\ Goes("directories", "directories")
    /\ CanCreate(d)
    /\ disk' = DiskWith(d, Dir)
    /\ directories' = directories \ same
    /\ UNCHANGED <<stack, manifest, left, aborted, index>>

CreateDirectoryFails ==
  \E d \in NextDirectories :
    /\ ~(healthy /\ CanCreate(d))
    /\ Goes("directories", "err")
    /\ UNCHANGED <<stack, directories, manifest, fileVars>>

\* Mutant: the files before the directories.
FilesFirst ==
  /\ Goes("directories", "files")
  /\ left' = DOMAIN manifest
  /\ UNCHANGED <<stack, directories, manifest, aborted, disk, index>>

\* Sorting the manifest, for which threads take which entries, is left out.
StartFiles ==
  /\ Goes("directories", "files")
  /\ directories = {}
  /\ left' = DOMAIN manifest
  /\ UNCHANGED <<stack, directories, manifest, aborted, disk, index>>

-----------------------------------------------------------------------------
(***************************************************************************)
(* materialize_manifest                                                    *)
(***************************************************************************)
Materialize(i) ==
  /\ Goes("files", "files")
  /\ left' = left \ {i}
  /\ UNCHANGED <<stack, directories, manifest, index>>

File(e, whole) == [kind |-> "file", mode |-> e.mode, oid |-> e.oid, whole |-> whole]

\* A regular file is created, and then the blob is streamed into it.
WriteFile(i) ==
  LET e == manifest[i]
  IN /\ e.mode \in FileModes /\ CanCreate(e.path)
     /\ Materialize(i)
     /\ \E whole \in {TRUE} \cup (IF healthy /\ Is(e.oid, "blob") THEN {} ELSE {FALSE}) :
          /\ whole => Is(e.oid, "blob")
          /\ disk' = DiskWith(e.path, File(e, whole))
          /\ aborted' = (aborted \/ ~whole)

\* The blob of a symlink is read first.
WriteSymlink(i) ==
  LET e == manifest[i]
  IN /\ e.mode = "Symlink" /\ Is(e.oid, "blob") /\ CanCreate(e.path)
     /\ Materialize(i)
     /\ disk' = DiskWith(e.path, [kind |-> "symlink", oid |-> e.oid])
     /\ UNCHANGED aborted

\* What was created through a symlink may be in the place of any other path.
WriteFails(i) ==
  LET e == manifest[i]
  IN /\ \/ ~(healthy /\ CanCreate(e.path) /\ (e.mode = "Symlink" => Is(e.oid, "blob")))
        \/ \E f \in Range(manifest) : ThroughSymlink(f.path)
     /\ Materialize(i)
     /\ aborted' = TRUE
     /\ UNCHANGED disk

\* Mutant: errors of the threads are dropped.
EndFilesAnyway ==
  /\ left = {}
  /\ Goes("files", "index")
  /\ UNCHANGED <<stack, directories, manifest, fileVars>>

\* An error keeps entries nobody has begun from being written, or not.
EndFiles ==
  /\ left = {} \/ aborted
  /\ Goes("files", IF aborted THEN "err" ELSE "index")
  /\ UNCHANGED <<stack, directories, manifest, fileVars>>

\* The entries of the index, unsorted.
IndexEntries ==
  [i \in DOMAIN manifest |->
     [path |-> GitPath(manifest[i].path), mode |-> manifest[i].mode, oid |-> manifest[i].oid]]

WriteIndex ==
  /\ Goes("index", "ok")
  /\ index' = IndexEntries
  /\ UNCHANGED <<stack, directories, manifest, left, aborted, disk>>

\* The disk is full; a size, path, time or number does not fit into its field.
WriteIndexFails ==
  /\ ~healthy
  /\ Goes("index", "err")
  /\ UNCHANGED <<stack, directories, manifest, fileVars>>

Done == pc \in {"ok", "err"} /\ UNCHANGED vars

Step ==
  \/ ReadCommit \/ RejectCommit
  \/ VisitDirectory \/ VisitFile \/ VisitGitlink \/ RejectEntry \/ LeaveTree
  \/ CreateDirectory \/ CreateDirectoryFails \/ StartFiles
  \/ \E i \in left : WriteFile(i) \/ WriteSymlink(i) \/ WriteFails(i)
  \/ EndFiles \/ WriteIndex \/ WriteIndexFails

Next == Step \/ Done

Spec == Init /\ [][Next]_vars

-----------------------------------------------------------------------------
(***************************************************************************)
(* The commit's tree by its definition: the entries level by level.        *)
(***************************************************************************)
EntriesBelow(h, oid, path) ==
  {[path |-> path \o e.name, mode |-> e.mode, oid |-> e.oid] :
     e \in IF IsIn(h, oid, "tree") THEN Range(h.objects[oid].entries) ELSE {}}

RootTree(h) == h.objects[h.commit].tree

Level(h) ==
  LET level[n \in Nat] ==
        IF n = 0 THEN EntriesBelow(h, RootTree(h), <<>>)
        ELSE UNION {EntriesBelow(h, e.oid, e.path) : e \in {f \in level[n - 1] : f.mode = "Directory"}}
  IN level

TreeOf(h) ==
  IF IsIn(h, h.commit, "commit") THEN UNION {Level(h)[n] : n \in 0 .. Height[RootTree(h)]} ELSE {}

Levels == TreeOf(head)

Files == {e \in Levels : e.mode \in BlobModes}

NodeOf(e) == IF e.mode = "Symlink" THEN [kind |-> "symlink", oid |-> e.oid] ELSE File(e, TRUE)

\* A tree that git would write: names have one component, are used once and none of
\* them is special, entries are of the type they claim, and nothing is there in their
\* place.
GoodTree ==
  /\ Is(head.commit, "commit") /\ Is(RootTree(head), "tree")
  /\ \A e \in Levels :
       /\ {Dot, DotDot} \cap Range(e.path) = {} /\ e.path \notin DOMAIN Existing
       /\ e.mode = "Directory" => Is(e.oid, "tree")
       /\ e.mode \in BlobModes => Is(e.oid, "blob")
  /\ \A oid \in DOMAIN head.objects : Is(oid, "tree") =>
       LET entries == head.objects[oid].entries
       IN /\ \A i \in DOMAIN entries : Len(entries[i].name) = 1
          /\ \A i, j \in DOMAIN entries : entries[i].name = entries[j].name => i = j

\* No component that git_index_path_bytes changes.
PlainNames == \A e \in Levels : \A n \in Range(e.path) : IndexNames[n] = <<n>>

\* No two directories have one index path.
OwnIndexPaths ==
  \A e, f \in Levels :
    e.mode = "Directory" /\ f.mode = "Directory" /\ GitPath(e.path) = GitPath(f.path)
      => e.path = f.path

\* What is below the place of a symlink is below a directory of that place, which is
\* made before any symlink.  It is so when every name has one component and none is ".",
\* double names included.
NothingBelowSymlinks ==
  \A s, e \in Levels :
    s.mode = "Symlink" /\ IsStrictPrefix(Resolved(s.path), Resolved(e.path)) =>
      \E d \in Levels : d.mode = "Directory" /\ Resolved(d.path) = Resolved(s.path)

-----------------------------------------------------------------------------
\* A checkout that succeeds leaves exactly the tree of the commit in the root, with
\* every file whole, next to what was there: no entry is forgotten when a thread
\* fails, written twice or left half written, and no double entry passes.  (Of two
\* directories with one index path the second may be missing; a name with a slash may
\* lead out of the root, which is StatusIsClean's.)
WorktreeIsTree ==
  pc = "ok" /\ OwnIndexPaths /\ NothingBelowSymlinks =>
    LET new == DOMAIN disk \ DOMAIN Existing
    IN /\ {p \in new : disk[p] = Dir}
            = {Resolved(e.path) : e \in {f \in Levels : f.mode = "Directory"}}
       /\ {p \in new : disk[p] # Dir} = {Resolved(e.path) : e \in Files}
       /\ \A e \in Files : disk[Resolved(e.path)] = NodeOf(e)

\* What was in the root before is never changed or removed, .git least of all, whatever
\* names the tree has.
ExistingUntouched == \A p \in DOMAIN Existing : p \in DOMAIN disk /\ disk[p] = Existing[p]

\* Nothing is created through a symlink, though any of the threads may write any entry
\* at any time, and a symlink may have the name of a directory: what has a parent has
\* a directory for it, as long as every directory of the tree is created and no name
\* with a slash leads below a symlink.
StaysInRoot == OwnIndexPaths /\ NothingBelowSymlinks => IsTreeOfDirectories(disk)

\* A tree git would write is checked out, with parents before children and in
\* whatever order the threads come, as long as nothing fails.
GoodTreeChecksOut == healthy /\ GoodTree /\ PlainNames => pc # "err"

\* The index has an entry for each file and symlink on the disk, under its path,
\* with its mode and blob, and none twice.
IndexIsWorktree ==
  pc = "ok" /\ PlainNames /\ NothingBelowSymlinks =>
    /\ \A i, j \in DOMAIN index : index[i].path = index[j].path => i = j
    /\ Range(index) = {[path |-> e.path, mode |-> e.mode, oid |-> e.oid] :
                         e \in {f \in Files : disk[Resolved(f.path)] = NodeOf(f)}}

\* What docs/current-architecture.md:17-23 expects of every repository: git status
\* and git diff against HEAD find nothing.  So the index has the entries of the
\* commit's tree, a submodule's too, under the paths they have there, and what was
\* written is in directories of the root, whatever names the entries have: git finds no
\* file beyond a symlink.
StatusIsClean ==
  pc = "ok" =>
    /\ Range(index) = {[path |-> e.path, mode |-> e.mode, oid |-> e.oid] :
                         e \in {f \in Levels : f.mode # "Directory"}}
    /\ IsTreeOfDirectories(disk)
=============================================================================
