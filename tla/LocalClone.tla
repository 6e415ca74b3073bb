----------------------------- MODULE LocalClone -----------------------------
(***************************************************************************)
(* fcl local, the copy-on-write clone of a repository on the same file     *)
(* system: local_clone_inner, inspect_source_repo and copy_tree_cow of     *)
(* crates/core/src/local.rs.  There is no staging directory: the target    *)
(* grows entry by entry at its place, while other invocations run, the     *)
(* source is in use, and any call may fail.                                *)
(*                                                                         *)
(* The file system is a function from paths, sequences of names, to nodes. *)
(* A clone of a file is its data; the library that clones it gives it the  *)
(* mode of a new file on Linux, and on macOS that of the source, so that   *)
(* nothing is said of the modes of files.                                  *)
(***************************************************************************)
EXTENDS Integers, Sequences, FiniteSets, SequencesExt

CONSTANTS
  Runs,         \* invocations of fcl local
  User,         \* everybody else
  Name,         \* names of directory entries
  Git, Marker,  \* the name .git; names in it of operations and locks in progress
  Data,         \* contents of files, targets of symlinks
  NoData,
  Source,       \* the path of the repository that is copied
  LocalScenarios,  \* a disk to begin with, and the target of each run that takes place
  MaxPath,      \* names in the longest path the file system takes (PATH_MAX)
  UserPaths,    \* the paths the user is at work on
  MaxChanges    \* bound on what the user does

Path == Seq(Name)
Mode == {"writable", "readonly"}
Node ==
       [kind : {"dir", "special"}, data : {NoData}, mode : Mode, by : Runs \cup {User}]
  \cup [kind : {"file", "link"}, data : Data, mode : Mode, by : Runs \cup {User}]

\* What there is has a directory to be in.
Tree(d) == \A p \in DOMAIN d \ {<<>>} : Front(p) \in DOMAIN d /\ d[Front(p)].kind = "dir"

ASSUME LocalAssumption ==
  /\ User \notin Runs
  /\ Git \in Name /\ Marker \subseteq Name
  /\ Source \in Path
  /\ \A s \in LocalScenarios :
       /\ s.target \in [s.runs -> Path] /\ s.runs \subseteq Runs
       /\ DOMAIN s.disk \subseteq Path /\ Tree(s.disk)
       /\ \A p \in DOMAIN s.disk : s.disk[p] \in Node /\ s.disk[p].by = User
  /\ UserPaths \subseteq Path \ {<<>>}
  /\ MaxPath \in Nat /\ MaxChanges \in Nat

VARIABLES
  disk,
  target,     \* target[r]: where run r copies to
  localPc,
  stack,      \* stack[r]: the calls of copy_tree_cow, the innermost last
  stats,      \* stats[r]: CopyStats
  changed,    \* the runs whose source has changed since they looked at it, or in
              \* whose target somebody else has been at work
  changes     \* what the user has done so far

localVars == <<disk, target, localPc, stack, stats, changed, changes>>

LocalInit ==
  \E s \in LocalScenarios :
    /\ disk = s.disk /\ target = s.target
    /\ localPc = [r \in Runs |-> IF r \in s.runs THEN "inspecting" ELSE "off"]
    /\ stack = [r \in Runs |-> <<>>]
    /\ stats = [r \in Runs |-> [files |-> 0, dirs |-> 0, links |-> 0]]
    /\ changed = {} /\ changes = 0

\* No run takes place.
LocalOff ==
  /\ disk = <<>> /\ target = <<>>
  /\ localPc = [r \in Runs |-> "off"] /\ stack = [r \in Runs |-> <<>>]
  /\ stats = [r \in Runs |-> [files |-> 0, dirs |-> 0, links |-> 0]]
  /\ changed = {} /\ changes = MaxChanges

-----------------------------------------------------------------------------
(***************************************************************************)
(* The file system.                                                        *)
(***************************************************************************)
Children(d, p) == {n \in Name : Append(p, n) \in DOMAIN d}

\* create_dir, symlink, and the file a reflink creates: the parent is a directory
\* that can be written to, and there is nothing at the path, not even a symlink.
CanCreate(p) ==
  /\ p \notin DOMAIN disk /\ p # <<>> /\ Len(p) <= MaxPath
  /\ Front(p) \in DOMAIN disk
  /\ disk[Front(p)].kind = "dir" /\ disk[Front(p)].mode = "writable"

With(p, node) == [q \in DOMAIN disk \cup {p} |-> IF q = p THEN node ELSE disk[q]]

\* A source that changes in whatever way is not the one the runs have looked at.
Touches(p, who) ==
  changed' = changed \cup
    {r \in Runs : /\ localPc[r] \notin {"off", "inspecting"}
                  /\ IsPrefix(Source, p) \/ (r # who /\ IsStrictPrefix(target[r], p))}

-----------------------------------------------------------------------------
(***************************************************************************)
(* A run: before the copy.                                                 *)
(***************************************************************************)
LocalGoes(r, from, to) ==
  /\ localPc[r] = from
  /\ localPc' = [localPc EXCEPT ![r] = to]
  /\ UNCHANGED <<target, changes>>

\* inspect_source_repo: a .git directory, and nothing in progress in it.
IsRepository ==
  LET git == Append(Source, Git)
  IN /\ git \in DOMAIN disk /\ disk[git].kind = "dir"
     /\ Marker \cap Children(disk, git) = {}

Inspect(r) ==
  /\ LocalGoes(r, "inspecting", IF IsRepository THEN "choosing" ELSE "refused")
  /\ UNCHANGED <<disk, stack, stats, changed>>

\* target.exists(), which follows a symlink and does not see one that dangles.
ChooseTarget(r) ==
  /\ \/ /\ LocalGoes(r, "choosing", "refused")
        /\ target[r] \in DOMAIN disk
     \/ /\ LocalGoes(r, "choosing", "copying")
        /\ target[r] \in DOMAIN disk => disk[target[r]].kind = "link"
  /\ UNCHANGED <<disk, stack, stats, changed>>

-----------------------------------------------------------------------------
(***************************************************************************)
(* copy_tree_cow.  A directory is opened once its copy is there; an entry  *)
(* that comes to it later may be found or not.                             *)
(***************************************************************************)
Frame == [dir : Path, due : SUBSET Name, seen : SUBSET Name, mode : Mode]

From(q) == Source \o q
To(r, q) == target[r] \o q

\* What read_dir may return next, as a path from the source; the source itself first.
NextEntries(r) ==
  IF stack[r] = <<>> THEN {<<>>}
  ELSE LET f == Last(stack[r])
       IN {Append(f.dir, n) : n \in f.due \cup (Children(disk, From(f.dir)) \ f.seen)}

\* The innermost call goes on behind entry q.
Visited(r, q) ==
  IF stack[r] = <<>> THEN <<>>
  ELSE LET f == Last(stack[r])
       IN Append(Front(stack[r]),
                 [f EXCEPT !.due = @ \ {Last(q)}, !.seen = @ \cup {Last(q)}])

\* Mutant: create_dir_all, which takes a directory that is there already.
CanCreateAll(p) == CanCreate(p) \/ (p \in DOMAIN disk /\ disk[p].kind = "dir")

CanCreateDirectory(p) == CanCreate(p)

\* Mutant: the mode is set when the directory is created.
ModeAtFirst(mode) == mode

\* The mode a directory has while it is filled.
ModeWhileCopying(mode) == "writable"

CopyDirectory(r) ==
  /\ LocalGoes(r, "copying", "copying")
  /\ \E q \in NextEntries(r) :
     LET from == From(q)
         to == To(r, q)
     IN /\ from \in DOMAIN disk /\ disk[from].kind = "dir"
        /\ CanCreateDirectory(to)
        /\ disk' = With(to, [kind |-> "dir", data |-> NoData,
                             mode |-> ModeWhileCopying(disk[from].mode), by |-> r])
        /\ stack' = [stack EXCEPT ![r] = Append(Visited(r, q),
                       [dir |-> q, due |-> Children(disk', from), seen |-> {},
                        mode |-> disk[from].mode])]
        /\ stats' = [stats EXCEPT ![r].dirs = @ + 1]
        /\ Touches(to, r)

\* Mutant: a symlink is followed.
LeafFollowed(node, r) == [node EXCEPT !.kind = "file", !.mode = "writable", !.by = r]

\* copy_symlink and clone_file_cow.
LeafCopied(node, r) == [node EXCEPT !.mode = "writable", !.by = r]

CopyLeaf(r) ==
  /\ LocalGoes(r, "copying", "copying")
  /\ \E q \in NextEntries(r) :
     LET from == From(q)
         to == To(r, q)
     IN /\ from \in DOMAIN disk /\ disk[from].kind \in {"file", "link"}
        /\ CanCreate(to)
        /\ disk' = With(to, LeafCopied(disk[from], r))
        /\ stack' = [stack EXCEPT ![r] = Visited(r, q)]
        /\ stats' = IF disk[from].kind = "file" THEN [stats EXCEPT ![r].files = @ + 1]
                    ELSE [stats EXCEPT ![r].links = @ + 1]
        /\ Touches(to, r)

\* A special file, an entry that has gone, or a path that cannot be created.
EntryFails(r) ==
  /\ LocalGoes(r, "copying", "refused")
  /\ \E q \in NextEntries(r) :
       \/ From(q) \in DOMAIN disk => disk[From(q)].kind = "special"
       \/ ~CanCreateDirectory(To(r, q))
  /\ UNCHANGED <<disk, stack, stats, changed>>

\* The end of a directory: its permissions, and the call returns.
LeaveDirectory(r) ==
  /\ stack[r] # <<>> /\ Last(stack[r]).due = {}
  /\ LocalGoes(r, "copying", IF Len(stack[r]) = 1 THEN "copied" ELSE "copying")
  /\ LET f == Last(stack[r])
     IN /\ disk' = [disk EXCEPT ![To(r, f.dir)].mode = f.mode]
        /\ Touches(To(r, f.dir), r)
  /\ stack' = [stack EXCEPT ![r] = Front(@)]
  /\ UNCHANGED stats

LocalSucceeds(r) ==
  /\ LocalGoes(r, "copied", "ok")
  /\ UNCHANGED <<disk, stack, stats, changed>>

\* Any call to the file system fails; what was copied stays.
LocalFails(r) ==
  /\ \E from \in {"inspecting", "choosing", "copying"} : LocalGoes(r, from, "failed")
  /\ UNCHANGED <<disk, stack, stats, changed>>

Copy(r) ==
  \/ Inspect(r) \/ ChooseTarget(r)
  \/ CopyDirectory(r) \/ CopyLeaf(r) \/ EntryFails(r) \/ LeaveDirectory(r)
  \/ LocalSucceeds(r) \/ LocalFails(r)

-----------------------------------------------------------------------------
(***************************************************************************)
(* The user works in the source, or takes a target.                        *)
(***************************************************************************)
UserActs ==
  /\ changes < MaxChanges /\ changes' = changes + 1
  /\ UNCHANGED <<target, localPc, stack, stats>>

UserWrites ==
  /\ UserActs
  /\ \E p \in UserPaths \cap DOMAIN disk, data \in Data :
       /\ disk[p].kind = "file" /\ disk[p].by = User
       /\ disk' = [disk EXCEPT ![p].data = data]
       /\ Touches(p, User)

UserCreates ==
  /\ UserActs
  /\ \E p \in UserPaths, data \in Data :
       /\ CanCreate(p)
       /\ disk' = With(p, [kind |-> "file", data |-> data, mode |-> "writable", by |-> User])
       /\ Touches(p, User)

UserRemoves ==
  /\ UserActs
  /\ \E p \in UserPaths \cap DOMAIN disk :
       /\ IsPrefix(Source, p) /\ disk[p].kind # "dir" /\ disk[p].by = User
       /\ disk' = [q \in DOMAIN disk \ {p} |-> disk[q]]
       /\ Touches(p, User)

UserStep == UserWrites \/ UserCreates \/ UserRemoves

LocalNext == (\E r \in Runs : Copy(r)) \/ UserStep

LocalPcs ==
  {"off", "inspecting", "choosing", "copying", "copied", "ok", "refused", "failed"}

\* Type correctness; a run that takes place has a target.
LocalTypeOK ==
  /\ DOMAIN disk \subseteq Path /\ \A p \in DOMAIN disk : disk[p] \in Node
  /\ DOMAIN target \subseteq Runs /\ \A r \in DOMAIN target : target[r] \in Path
  /\ localPc \in [Runs -> LocalPcs]
  /\ \A r \in Runs : localPc[r] # "off" => r \in DOMAIN target
  /\ stack \in [Runs -> Seq(Frame)]
  /\ stats \in [Runs -> [files : Nat, dirs : Nat, links : Nat]]
  /\ changed \subseteq Runs /\ changes \in Nat

-----------------------------------------------------------------------------
(***************************************************************************)
(* Properties.                                                             *)
(***************************************************************************)
Within(root) == {p \in DOMAIN disk : IsPrefix(root, p)}
\* The mode of a directory is the one that is copied.
Same(a, b) == a.kind = b.kind /\ a.data = b.data /\ (a.kind = "dir" => a.mode = b.mode)

\* The target is inside the source: the copy grows what it copies.
IntoItself(r) == IsPrefix(Source, target[r])

\* A copy that succeeds while its source is at rest, and nobody else works inside its
\* target, has exactly the source at the target (directories with their modes), all of
\* it its own work, with no operation in progress, and its report counts what is there;
\* and a copy into its own source never succeeds.
CopyIsExact ==
  \A r \in Runs : localPc[r] = "ok" =>
    /\ ~IntoItself(r)
    /\ r \notin changed =>
         /\ {SubSeq(p, Len(target[r]) + 1, Len(p)) : p \in Within(target[r])}
              = {SubSeq(p, Len(Source) + 1, Len(p)) : p \in Within(Source)}
         /\ \A p \in Within(target[r]) :
              /\ Same(disk[p], disk[From(SubSeq(p, Len(target[r]) + 1, Len(p)))])
              /\ disk[p].by = r
         /\ IsRepository
         /\ stats[r].files + stats[r].dirs + stats[r].links
              = Cardinality(Within(target[r]))

\* Of the runs with one target only one writes there: all of them may find it free,
\* and creating its root directory decides.
OneWriter ==
  \A p, q \in DOMAIN disk :
    disk[p].by \in Runs /\ disk[q].by \in Runs /\ target[disk[p].by] = target[disk[q].by]
      => disk[p].by = disk[q].by

OthersKept ==
  \A r \in Runs, p \in DOMAIN disk :
    (localPc'[r] # localPc[r] \/ stack'[r] # stack[r]) /\ disk[p].by # r
      => p \in DOMAIN disk' /\ disk'[p] = disk[p]

\* No run changes or removes what it did not make, whatever happens to be where it
\* wants to write.
OthersUntouched == [][OthersKept]_localVars

Refusable(r) ==
  \/ ~IsRepository
  \/ \E p \in Within(Source) :
       disk[p].kind = "special" \/ Len(p) - Len(Source) + Len(target[r]) > MaxPath
  \/ IntoItself(r)
  \/ target[r] \in DOMAIN disk /\ disk[target[r]].by # r
  \/ Front(target[r]) \notin DOMAIN disk
  \/ disk[Front(target[r])].kind # "dir" \/ disk[Front(target[r])].mode = "readonly"

RefusesNow ==
  \A r \in Runs :
    localPc[r] # "refused" /\ localPc'[r] = "refused" /\ r \notin changed => Refusable(r)

\* A run refuses only for a reason: the source is no repository at rest or has special
\* files, the target is taken or has no place, or the source changed under it.  A
\* directory that must not be written to is no reason, nor is an entry that comes twice.
RefusesForAReason == [][RefusesNow]_localVars
=============================================================================
