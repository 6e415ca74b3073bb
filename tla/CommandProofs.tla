---------------------------- MODULE CommandProofs ----------------------------
(***************************************************************************)
(* Proofs about the Command module and the three it is composed of: for    *)
(* any number of runs on any disk, with any sources and targets, a user    *)
(* and a server that change as they like, any refs, and any number of      *)
(* retries.  First the copies, then the clones, then the display.          *)
(***************************************************************************)
EXTENDS Command, SequenceTheorems, FiniteSetTheorems, WellFoundedInduction, TLAPS

(***************************************************************************)
(* The copies: LocalInv says whose the entries on the disk are, CopyInv    *)
(* how much of its source a run has copied.                                *)
(***************************************************************************)
\* Whatever a run has made, it has made the root of its target: creating that
\* directory is the first thing it does there, and nobody removes it.
RootsOwned ==
  \A p \in DOMAIN disk :
    LET r == disk[p].by
    IN r \in Runs =>
         r \in DOMAIN target /\ target[r] \in DOMAIN disk /\ disk[target[r]].by = r

\* The directories a run is in are its own.
FramesOwned ==
  \A r \in Runs : \A i \in 1 .. Len(stack[r]) :
    To(r, stack[r][i].dir) \in DOMAIN disk /\ disk[To(r, stack[r][i].dir)].by = r

LocalInv == LocalTypeOK /\ RootsOwned /\ FramesOwned

-----------------------------------------------------------------------------
(***************************************************************************)
(* Paths and entries.                                                      *)
(***************************************************************************)
LEMMA PathFacts ==
  ASSUME NEW t \in Path, NEW q \in Path
  PROVE  t \o q \in Path /\ t \o <<>> = t /\ <<>> \in Path
BY ConcatProperties, ConcatEmptySeq, EmptySeq DEF Path

\* An entry that comes next has a path in the target, and going on behind it leaves
\* the directories that are open what they are.
LEMMA EntryFacts ==
  ASSUME LocalTypeOK, NEW r \in Runs, localPc[r] = "copying", NEW q \in NextEntries(r)
  PROVE  /\ q \in Path /\ target[r] \in Path /\ To(r, q) \in Path
         /\ r \in DOMAIN target
         /\ Visited(r, q) \in Seq(Frame) /\ Len(Visited(r, q)) = Len(stack[r])
         /\ \A i \in 1 .. Len(stack[r]) : Visited(r, q)[i].dir = stack[r][i].dir
         /\ stack[r] = <<>> => To(r, q) = target[r]
<1>1. r \in DOMAIN target /\ target[r] \in Path /\ stack[r] \in Seq(Frame)
  BY DEF LocalTypeOK
<1>2. CASE stack[r] = <<>>
  <2>1. q = <<>> /\ Visited(r, q) = <<>>
    BY <1>2 DEF NextEntries, Visited
  <2>2. q \in Path /\ To(r, q) = target[r]
    BY <1>1, <2>1, PathFacts, EmptySeq DEF To, Path
  <2> QED
    BY <1>1, <1>2, <2>1, <2>2, EmptySeq
<1>3. CASE stack[r] # <<>>
  <2> DEFINE s == stack[r]
             n == Len(s)
             f == s[n]
             g == [f EXCEPT !.due = @ \ {Last(q)}, !.seen = @ \cup {Last(q)}]
  <2>1. n \in Nat \ {0} /\ f \in Frame
    BY <1>1, <1>3, EmptySeq, ElementOfSeq
  <2>2. PICK x \in Name : q = Append(f.dir, x)
    BY <1>3, <2>1 DEF NextEntries, Last, Children, Frame
  <2>3. f.dir \in Path
    BY <2>1 DEF Frame
  <2>4. q \in Path /\ q # <<>> /\ Last(q) = x
    BY <2>2, <2>3, AppendProperties, LenProperties DEF Path, Last
  <2>5. g \in Frame /\ g.dir = f.dir
    BY <2>1, <2>4 DEF Frame
  <2> DEFINE h == SubSeq(s, 1, n - 1)
  <2>6. h \in Seq(Frame) /\ Len(h) = n - 1 /\ \A i \in 1 .. n - 1 : h[i] = s[i]
    <3>1. \A i \in 1 .. n - 1 : s[i] \in Frame
      BY <1>1, <2>1, ElementOfSeq
    <3> HIDE DEF n, s
    <3>2. 1 \in Int /\ n - 1 \in Int
      BY <2>1
    <3>3. /\ SubSeq(s, 1, n - 1) \in Seq(Frame)
          /\ Len(SubSeq(s, 1, n - 1)) = IF 1 <= n - 1 THEN (n - 1) - 1 + 1 ELSE 0
          /\ \A i \in 1 .. (n - 1) - 1 + 1 : SubSeq(s, 1, n - 1)[i] = s[1 + i - 1]
      BY <3>1, <3>2, SubSeqProperties
    <3> QED
      BY <2>1, <3>3
  <2>7. Visited(r, q) = Append(h, g)
    BY <1>3 DEF Visited, Front, Last
  <2> HIDE DEF h, g, f
  <2>8. /\ Append(h, g) \in Seq(Frame) /\ Len(Append(h, g)) = n
        /\ \A i \in 1 .. n : Append(h, g)[i].dir = s[i].dir
    <3>1. /\ Append(h, g) \in Seq(Frame) /\ Len(Append(h, g)) = Len(h) + 1
          /\ \A i \in 1 .. Len(h) : Append(h, g)[i] = h[i]
          /\ Append(h, g)[Len(h) + 1] = g
      BY <2>5, <2>6, AppendProperties
    <3> HIDE DEF n, s
    <3>2. \A i \in 1 .. n : i \in 1 .. n - 1 \/ i = n
      BY <2>1
    <3> QED
      BY <2>1, <2>5, <2>6, <3>1, <3>2 DEF f
  <2> QED
    BY <1>1, <1>3, <2>4, <2>7, <2>8, PathFacts DEF To
<1> QED
  BY <1>2, <1>3

\* What a step that makes one entry of its target does to the disk.
LEMMA EntryMade ==
  ASSUME LocalInv, NEW r \in Runs, localPc[r] = "copying", NEW q \in NextEntries(r),
         To(r, q) \notin DOMAIN disk, NEW node \in Node, node.by = r,
         disk' = With(To(r, q), node), target' = target
  PROVE  /\ DOMAIN disk' \subseteq Path /\ \A p \in DOMAIN disk' : disk'[p] \in Node
         /\ RootsOwned'
         /\ \A p \in DOMAIN disk : p \in DOMAIN disk' /\ disk'[p] = disk[p]
         /\ To(r, q) \in DOMAIN disk' /\ disk'[To(r, q)].by = r
<1> DEFINE to == To(r, q)
<1>1. /\ DOMAIN disk' = DOMAIN disk \cup {to} /\ disk'[to] = node
      /\ \A x \in DOMAIN disk : x # to => disk'[x] = disk[x]
  BY Zenon DEF With
<1>2. to \in Path /\ r \in DOMAIN target /\ (stack[r] = <<>> => to = target[r])
  BY EntryFacts DEF LocalInv
<1>3. \A p \in DOMAIN disk : p \in DOMAIN disk' /\ disk'[p] = disk[p]
  BY <1>1
<1>4. target[r] \in DOMAIN disk' /\ disk'[target[r]].by = r
  <2>1. CASE stack[r] = <<>>
    BY <1>1, <1>2, <2>1
  <2>2. CASE stack[r] # <<>>
    <3>1. Len(stack[r]) \in Nat \ {0}
      BY <2>2, EmptySeq DEF LocalInv, LocalTypeOK
    <3>2. PICK p \in DOMAIN disk : disk[p].by = r
      BY <3>1 DEF LocalInv, FramesOwned
    <3>3. target[r] \in DOMAIN disk /\ disk[target[r]].by = r
      BY <3>2 DEF LocalInv, RootsOwned
    <3> QED
      BY <1>3, <3>3
  <2> QED
    BY <2>1, <2>2
<1>5. RootsOwned'
  <2> SUFFICES ASSUME NEW p \in DOMAIN disk', disk'[p].by \in Runs
               PROVE  LET o == disk'[p].by
                      IN /\ o \in DOMAIN target /\ target[o] \in DOMAIN disk'
                         /\ disk'[target[o]].by = o
    BY DEF RootsOwned
  <2>1. CASE p = to
    BY <1>1, <1>2, <1>4, <2>1
  <2>2. CASE p \in DOMAIN disk
    BY <1>3, <2>2 DEF LocalInv, RootsOwned
  <2> QED
    BY <1>1, <2>1, <2>2
<1> HIDE DEF to
<1>6. DOMAIN disk' \subseteq Path /\ \A p \in DOMAIN disk' : disk'[p] \in Node
  BY <1>1, <1>2, <1>3 DEF LocalInv, LocalTypeOK
<1> QED
  BY <1>1, <1>3, <1>5, <1>6 DEF to

-----------------------------------------------------------------------------
(***************************************************************************)
(* The invariant.                                                          *)
(***************************************************************************)
LEMMA LocalInitial == LocalInit => LocalInv
<1> SUFFICES ASSUME LocalInit PROVE LocalInv
  OBVIOUS
<1>1. PICK s \in LocalScenarios :
        /\ disk = s.disk /\ target = s.target
        /\ localPc = [r \in Runs |-> IF r \in s.runs THEN "inspecting" ELSE "off"]
        /\ stack = [r \in Runs |-> <<>>]
        /\ stats = [r \in Runs |-> [files |-> 0, dirs |-> 0, links |-> 0]]
        /\ changed = {} /\ changes = 0
  BY DEF LocalInit
<1>2. /\ target \in [s.runs -> Path] /\ s.runs \subseteq Runs
      /\ DOMAIN disk \subseteq Path
      /\ \A p \in DOMAIN disk : disk[p] \in Node /\ disk[p].by \notin Runs
  BY <1>1, LocalAssumption
<1>3. \A r \in Runs : stack[r] \in Seq(Frame) /\ Len(stack[r]) = 0
  BY <1>1, EmptySeq
<1>4. LocalTypeOK
  BY <1>1, <1>2, <1>3 DEF LocalTypeOK, LocalPcs
<1> QED
  BY <1>2, <1>3, <1>4 DEF LocalInv, RootsOwned, FramesOwned

\* Where nothing is copied, nothing has to be shown.
LEMMA LocalOffInitial == LocalOff => LocalInv
<1> SUFFICES ASSUME LocalOff PROVE LocalInv
  OBVIOUS
<1>1. /\ DOMAIN disk = {} /\ DOMAIN target = {}
      /\ \A r \in Runs : stack[r] \in Seq(Frame) /\ Len(stack[r]) = 0
  BY EmptySeq DEF LocalOff
<1>2. LocalTypeOK
  BY <1>1, LocalAssumption DEF LocalOff, LocalTypeOK, LocalPcs
<1> QED
  BY <1>1, <1>2 DEF LocalInv, RootsOwned, FramesOwned

\* Steps that leave the disk and the open directories alone.
LEMMA QuietStep ==
  ASSUME LocalInv, UNCHANGED <<disk, target, stack>>,
         localPc' \in [Runs -> LocalPcs],
         \A r \in Runs : localPc[r] = "off" => localPc'[r] = "off",
         stats' \in [Runs -> [files : Nat, dirs : Nat, links : Nat]],
         changed' \subseteq Runs, changes' \in Nat
  PROVE  LocalInv'
<1>1. LocalTypeOK'
  BY DEF LocalInv, LocalTypeOK
<1>2. RootsOwned' /\ FramesOwned'
  BY DEF LocalInv, RootsOwned, FramesOwned, To
<1> QED
  BY <1>1, <1>2 DEF LocalInv

\* The user disturbs only runs there are.
LEMMA RunsChanged ==
  ASSUME LocalInv, NEW p, NEW who, Touches(p, who)
  PROVE  changed' \subseteq Runs
BY DEF Touches, LocalInv, LocalTypeOK

\* One entry more leaves the counters numbers.
LEMMA CountedOne ==
  ASSUME LocalInv, NEW r \in Runs,
         \/ stats' = [stats EXCEPT ![r].files = @ + 1]
         \/ stats' = [stats EXCEPT ![r].dirs = @ + 1]
         \/ stats' = [stats EXCEPT ![r].links = @ + 1]
  PROVE  stats' \in [Runs -> [files : Nat, dirs : Nat, links : Nat]]
<1> DEFINE Counts == [files : Nat, dirs : Nat, links : Nat]
           s == stats[r]
<1>1. stats \in [Runs -> Counts] /\ s \in Counts
  BY DEF LocalInv, LocalTypeOK
<1>2. /\ [s EXCEPT !.files = s.files + 1] \in Counts
      /\ [s EXCEPT !.dirs = s.dirs + 1] \in Counts
      /\ [s EXCEPT !.links = s.links + 1] \in Counts
  BY <1>1
<1>3. \E c \in Counts : stats' = [stats EXCEPT ![r] = c]
  BY <1>2
<1> HIDE DEF Counts, s
<1>4. stats' \in [Runs -> Counts]
  BY <1>1, <1>3
<1> QED
  BY <1>4 DEF Counts

\* A step of one run leaves the places of the others, and all targets.
LEMMA RunGoes ==
  ASSUME LocalTypeOK, NEW r \in Runs, NEW from \in LocalPcs \ {"off"},
         NEW to \in LocalPcs \ {"off"}, LocalGoes(r, from, to)
  PROVE  /\ localPc' \in [Runs -> LocalPcs] /\ target' = target /\ changes' \in Nat
         /\ \A o \in Runs : localPc'[o] # localPc[o] => o = r
         /\ \A o \in Runs : localPc'[o] # "off" => o \in DOMAIN target
BY DEF LocalTypeOK, LocalGoes

\* A file is copied or a directory made and entered: the new entry is the run's own,
\* the root is the first of them, and the directories that were open still are.
LEMMA EntryStep ==
  ASSUME LocalInv, NEW r \in Runs, NEW q \in NextEntries(r), NEW node \in Node, node.by = r,
         LocalGoes(r, "copying", "copying"),
         To(r, q) \notin DOMAIN disk, disk' = With(To(r, q), node),
         NEW new \in Seq(Frame), stack' = [stack EXCEPT ![r] = new],
         \A i \in 1 .. Len(new) :
           new[i].dir = q \/ (i \in 1 .. Len(stack[r]) /\ new[i].dir = stack[r][i].dir),
         stats' \in [Runs -> [files : Nat, dirs : Nat, links : Nat]],
         changed' \subseteq Runs
  PROVE  LocalInv'
<1>1. localPc[r] = "copying" /\ target' = target /\ changes' \in Nat
  BY DEF LocalGoes, LocalInv, LocalTypeOK
<1>2. /\ DOMAIN disk' \subseteq Path /\ \A p \in DOMAIN disk' : disk'[p] \in Node
      /\ RootsOwned'
      /\ \A p \in DOMAIN disk : p \in DOMAIN disk' /\ disk'[p] = disk[p]
      /\ To(r, q) \in DOMAIN disk' /\ disk'[To(r, q)].by = r
  BY <1>1, EntryMade
<1>6. /\ stack' \in [Runs -> Seq(Frame)] /\ stack'[r] = new
      /\ \A o \in Runs : o # r => stack'[o] = stack[o]
  BY DEF LocalInv, LocalTypeOK
<1>7. FramesOwned'
  <2> SUFFICES ASSUME NEW o \in Runs, NEW i \in 1 .. Len(stack'[o])
               PROVE  /\ To(o, stack'[o][i].dir) \in DOMAIN disk'
                      /\ disk'[To(o, stack'[o][i].dir)].by = o
    BY <1>1 DEF FramesOwned, To
  <2>1. CASE o = r /\ stack'[o][i].dir = q
    BY <1>2, <2>1
  <2>2. CASE i \in 1 .. Len(stack[o]) /\ stack'[o][i].dir = stack[o][i].dir
    BY <1>2, <2>2 DEF LocalInv, FramesOwned
  <2> QED
    BY <1>6, <2>1, <2>2
<1>8. LocalTypeOK'
  BY <1>1, <1>2, <1>6, RunGoes DEF LocalInv, LocalTypeOK, LocalPcs, LocalGoes
<1> QED
  BY <1>2, <1>7, <1>8 DEF LocalInv

\* What a run does when it copies one entry: the destination has a node of its own more,
\* and the stack that it goes on with has the directories of before, and maybe this one.
EntryAdded(r, q, node, new) ==
  /\ q \in NextEntries(r) /\ node \in Node /\ node.by = r /\ new \in Seq(Frame)
  /\ LocalGoes(r, "copying", "copying")
  /\ To(r, q) \notin DOMAIN disk /\ disk' = With(To(r, q), node)
  /\ stack' = [stack EXCEPT ![r] = new]
  /\ \A i \in 1 .. Len(new) :
       new[i].dir = q \/ (i \in 1 .. Len(stack[r]) /\ new[i].dir = stack[r][i].dir)
  /\ stats' \in [Runs -> [files : Nat, dirs : Nat, links : Nat]]
  /\ changed' \subseteq Runs

\* The step of an entry keeps the invariant.
LEMMA EntryAddedStep ==
  ASSUME LocalInv, NEW r \in Runs, NEW q, NEW node, NEW new, EntryAdded(r, q, node, new)
  PROVE  LocalInv'
BY EntryStep, ZenonT(40) DEF EntryAdded

\* So it is when a directory is copied.
LEMMA DirectoryStep ==
  ASSUME LocalInv, NEW r \in Runs, CopyDirectory(r)
  PROVE  LocalInv'
<1>1. PICK q \in NextEntries(r) :
        /\ From(q) \in DOMAIN disk /\ disk[From(q)].kind = "dir"
        /\ CanCreateDirectory(To(r, q))
        /\ disk' = With(To(r, q), [kind |-> "dir", data |-> NoData,
                                   mode |-> ModeWhileCopying(disk[From(q)].mode), by |-> r])
        /\ stack' = [stack EXCEPT ![r] = Append(Visited(r, q),
                       [dir |-> q, due |-> Children(disk', From(q)), seen |-> {},
                        mode |-> disk[From(q)].mode])]
        /\ stats' = [stats EXCEPT ![r].dirs = @ + 1]
        /\ Touches(To(r, q), r)
  BY DEF CopyDirectory
<1>2. LocalGoes(r, "copying", "copying") /\ localPc[r] = "copying"
  BY DEF CopyDirectory, LocalGoes
<1> DEFINE node == [kind |-> "dir", data |-> NoData,
                    mode |-> ModeWhileCopying(disk[From(q)].mode), by |-> r]
           f == [dir |-> q, due |-> Children(disk', From(q)), seen |-> {},
                 mode |-> disk[From(q)].mode]
           new == Append(Visited(r, q), f)
<1>3. node \in Node /\ node.by = r
  BY DEF Node, Mode, ModeWhileCopying
<1>4. To(r, q) \notin DOMAIN disk
  BY <1>1 DEF CanCreateDirectory, CanCreate
<1>5. /\ q \in Path /\ Visited(r, q) \in Seq(Frame) /\ Len(Visited(r, q)) = Len(stack[r])
      /\ \A i \in 1 .. Len(stack[r]) : Visited(r, q)[i].dir = stack[r][i].dir
  BY <1>2, EntryFacts DEF LocalInv
<1>6. f \in Frame /\ f.dir = q
  BY <1>1, <1>5 DEF Frame, Children, LocalInv, LocalTypeOK, Node
<1> HIDE DEF f, node
<1>7. /\ new \in Seq(Frame)
      /\ \A i \in 1 .. Len(new) :
           new[i].dir = q \/ (i \in 1 .. Len(stack[r]) /\ new[i].dir = stack[r][i].dir)
  <2>1. /\ new \in Seq(Frame) /\ Len(new) = Len(stack[r]) + 1
        /\ \A i \in 1 .. Len(stack[r]) : new[i] = Visited(r, q)[i]
        /\ new[Len(stack[r]) + 1] = f
    BY <1>5, <1>6, AppendProperties
  <2>2. Len(stack[r]) \in Nat
    BY <1>5, LenProperties
  <2> HIDE DEF new
  <2>3. \A i \in 1 .. Len(new) : i \in 1 .. Len(stack[r]) \/ i = Len(stack[r]) + 1
    BY <2>1, <2>2
  <2> QED
    BY <1>5, <1>6, <2>1, <2>3
<1>8. stats' \in [Runs -> [files : Nat, dirs : Nat, links : Nat]] /\ changed' \subseteq Runs
  <2>1. stats' = [stats EXCEPT ![r].dirs = @ + 1] /\ Touches(To(r, q), r)
    BY <1>1
  <2> QED
    BY <2>1, CountedOne, RunsChanged
<1>9. disk' = With(To(r, q), node) /\ stack' = [stack EXCEPT ![r] = new]
  BY <1>1 DEF node, f
<1> HIDE DEF new
<1>10. EntryAdded(r, q, node, new)
  BY <1>1, <1>2, <1>3, <1>4, <1>7, <1>8, <1>9 DEF EntryAdded
<1> QED
  BY <1>10, EntryAddedStep

\* A file or a symlink is the run's own as well.
LEMMA LeafStep ==
  ASSUME LocalInv, NEW r \in Runs, CopyLeaf(r)
  PROVE  LocalInv'
<1>1. PICK q \in NextEntries(r) :
        /\ From(q) \in DOMAIN disk
        /\ CanCreate(To(r, q))
        /\ disk' = With(To(r, q), LeafCopied(disk[From(q)], r))
        /\ stack' = [stack EXCEPT ![r] = Visited(r, q)]
        /\ stats' = IF disk[From(q)].kind = "file" THEN [stats EXCEPT ![r].files = @ + 1]
                    ELSE [stats EXCEPT ![r].links = @ + 1]
        /\ Touches(To(r, q), r)
  BY DEF CopyLeaf
<1>2. LocalGoes(r, "copying", "copying") /\ localPc[r] = "copying"
  BY DEF CopyLeaf, LocalGoes
<1>3. LeafCopied(disk[From(q)], r) \in Node /\ LeafCopied(disk[From(q)], r).by = r
  BY <1>1 DEF LeafCopied, LocalInv, LocalTypeOK, Node, Mode
<1>4. To(r, q) \notin DOMAIN disk
  BY <1>1 DEF CanCreate
<1>5. /\ Visited(r, q) \in Seq(Frame) /\ Len(Visited(r, q)) = Len(stack[r])
      /\ \A i \in 1 .. Len(stack[r]) : Visited(r, q)[i].dir = stack[r][i].dir
  BY <1>2, EntryFacts DEF LocalInv
<1>6. stats' \in [Runs -> [files : Nat, dirs : Nat, links : Nat]] /\ changed' \subseteq Runs
  <2>1. /\ \/ stats' = [stats EXCEPT ![r].files = @ + 1]
           \/ stats' = [stats EXCEPT ![r].links = @ + 1]
        /\ Touches(To(r, q), r)
    BY <1>1
  <2> QED
    BY <2>1, CountedOne, RunsChanged
<1> DEFINE node == LeafCopied(disk[From(q)], r)
           new == Visited(r, q)
<1>7. /\ disk' = With(To(r, q), node) /\ stack' = [stack EXCEPT ![r] = new]
      /\ node \in Node /\ node.by = r /\ new \in Seq(Frame)
      /\ \A i \in 1 .. Len(new) :
           new[i].dir = q \/ (i \in 1 .. Len(stack[r]) /\ new[i].dir = stack[r][i].dir)
  BY <1>1, <1>3, <1>5
<1> HIDE DEF node, new
<1>8. EntryAdded(r, q, node, new)
  BY <1>2, <1>4, <1>6, <1>7 DEF EntryAdded
<1> QED
  BY <1>8, EntryAddedStep

\* The permissions of a directory are those of the run's own.
LEMMA LeaveStep ==
  ASSUME LocalInv, NEW r \in Runs, LeaveDirectory(r)
  PROVE  /\ LocalInv'
         /\ \A p \in DOMAIN disk : disk[p].by # r => p \in DOMAIN disk' /\ disk'[p] = disk[p]
<1> DEFINE n == Len(stack[r])
           f == stack[r][n]
           own == To(r, f.dir)
<1>1. /\ stack[r] # <<>>
      /\ disk' = [disk EXCEPT ![own].mode = f.mode]
      /\ stack' = [stack EXCEPT ![r] = SubSeq(stack[r], 1, n - 1)]
      /\ LocalGoes(r, "copying", IF n = 1 THEN "copied" ELSE "copying")
      /\ Touches(own, r) /\ stats' = stats
  BY DEF LeaveDirectory, Last, Front, LocalInv, LocalTypeOK
<1>2. stack[r] \in Seq(Frame) /\ n \in Nat \ {0} /\ f \in Frame
  BY <1>1, EmptySeq, ElementOfSeq DEF LocalInv, LocalTypeOK
<1>3. own \in DOMAIN disk /\ disk[own].by = r
  BY <1>2 DEF LocalInv, FramesOwned
<1> HIDE DEF own
<1>4. f.mode \in Mode
  BY <1>2 DEF Frame
<1>5. /\ DOMAIN disk' = DOMAIN disk
      /\ \A p \in DOMAIN disk : disk'[p] \in Node /\ disk'[p].by = disk[p].by
      /\ \A p \in DOMAIN disk : p # own => disk'[p] = disk[p]
  BY <1>1, <1>4 DEF LocalInv, LocalTypeOK, Node
<1> DEFINE new == SubSeq(stack[r], 1, n - 1)
<1>6. new \in Seq(Frame) /\ Len(new) = n - 1 /\ \A i \in 1 .. Len(new) : new[i] = stack[r][i]
  <2> HIDE DEF f
  <2>1. \A i \in 1 .. n - 1 : stack[r][i] \in Frame
    BY <1>2, ElementOfSeq
  <2> HIDE DEF n
  <2>2. 1 \in Int /\ n - 1 \in Int
    BY <1>2
  <2>3. /\ new \in Seq(Frame) /\ Len(new) = IF 1 <= n - 1 THEN n - 1 - 1 + 1 ELSE 0
        /\ \A i \in 1 .. n - 1 - 1 + 1 : new[i] = stack[r][1 + i - 1]
    BY <2>1, <2>2, SubSeqProperties
  <2> QED
    BY <1>2, <2>3
<1> HIDE DEF new, f
<1>7. /\ stack' \in [Runs -> Seq(Frame)]
      /\ \A o \in Runs : \A i \in 1 .. Len(stack'[o]) :
           i \in 1 .. Len(stack[o]) /\ stack'[o][i] = stack[o][i]
  BY <1>1, <1>2, <1>6 DEF LocalInv, LocalTypeOK, new
<1> HIDE DEF n
<1>8. /\ localPc' \in [Runs -> LocalPcs] /\ target' = target /\ changes' \in Nat
      /\ \A o \in Runs : localPc'[o] # "off" => o \in DOMAIN target
  BY <1>1 DEF LocalGoes, LocalInv, LocalTypeOK, LocalPcs
<1>9. changed' \subseteq Runs
  BY <1>1, RunsChanged
<1>10. LocalTypeOK'
  <2>1. DOMAIN disk' \subseteq Path /\ \A p \in DOMAIN disk' : disk'[p] \in Node
    BY <1>5 DEF LocalInv, LocalTypeOK
  <2>2. /\ DOMAIN target' \subseteq Runs /\ \A o \in DOMAIN target' : target'[o] \in Path
        /\ stats' \in [Runs -> [files : Nat, dirs : Nat, links : Nat]]
    BY <1>1, <1>8 DEF LocalInv, LocalTypeOK
  <2> QED
    BY <1>7, <1>8, <1>9, <2>1, <2>2 DEF LocalTypeOK
<1>11. RootsOwned'
  BY <1>5, <1>8 DEF LocalInv, RootsOwned
<1>12. FramesOwned'
  <2> SUFFICES ASSUME NEW o \in Runs, NEW i \in 1 .. Len(stack'[o])
               PROVE  /\ To(o, stack'[o][i].dir) \in DOMAIN disk'
                      /\ disk'[To(o, stack'[o][i].dir)].by = o
    BY <1>8 DEF FramesOwned, To
  <2>1. i \in 1 .. Len(stack[o]) /\ stack'[o][i] = stack[o][i]
    BY <1>7
  <2>2. /\ To(o, stack[o][i].dir) \in DOMAIN disk
        /\ disk[To(o, stack[o][i].dir)].by = o
    BY <2>1 DEF LocalInv, FramesOwned
  <2> QED
    BY <1>5, <2>1, <2>2
<1> QED
  BY <1>3, <1>5, <1>10, <1>11, <1>12 DEF LocalInv

\* What the user changes and removes is his own.
LEMMA UserKeeps ==
  ASSUME LocalInv, UserStep
  PROVE  LocalInv'
<1>1. UNCHANGED <<target, localPc, stack, stats>> /\ changes' \in Nat
  BY DEF UserStep, UserWrites, UserCreates, UserRemoves, UserActs, LocalInv, LocalTypeOK
<1>2. changed' \subseteq Runs
  BY RunsChanged DEF UserStep, UserWrites, UserCreates, UserRemoves
<1>3. /\ DOMAIN disk' \subseteq Path /\ \A p \in DOMAIN disk' : disk'[p] \in Node
      /\ \A p \in DOMAIN disk' : disk'[p].by \in Runs => p \in DOMAIN disk
                                                         /\ disk'[p].by = disk[p].by
      /\ \A p \in DOMAIN disk : disk[p].by \in Runs => p \in DOMAIN disk'
                                                       /\ disk'[p].by = disk[p].by
  <2>1. CASE UserWrites
    <3>1. PICK p \in DOMAIN disk, data \in Data :
            /\ disk[p].kind = "file" /\ disk[p].by = User
            /\ disk' = [disk EXCEPT ![p].data = data]
      BY <2>1 DEF UserWrites
    <3>2. DOMAIN disk \subseteq Path /\ \A x \in DOMAIN disk : disk[x] \in Node
      BY DEF LocalInv, LocalTypeOK
    <3>3. [disk[p] EXCEPT !.data = data] \in Node /\ [disk[p] EXCEPT !.data = data].by = User
      BY <3>1, <3>2 DEF Node
    <3>4. /\ DOMAIN disk' = DOMAIN disk
          /\ disk'[p] = [disk[p] EXCEPT !.data = data]
          /\ \A x \in DOMAIN disk : x # p => disk'[x] = disk[x]
      BY <3>1
    <3> QED
      BY <3>1, <3>2, <3>3, <3>4
  <2>2. CASE UserCreates
    BY <2>2, LocalAssumption DEF UserCreates, CanCreate, With, LocalInv, LocalTypeOK, Node, Mode
  <2>3. CASE UserRemoves
    BY <2>3, LocalAssumption DEF UserRemoves, LocalInv, LocalTypeOK
  <2> QED
    BY <2>1, <2>2, <2>3 DEF UserStep
<1>4. LocalTypeOK'
  BY <1>1, <1>2, <1>3 DEF LocalInv, LocalTypeOK
<1>5. RootsOwned' /\ FramesOwned'
  BY <1>1, <1>3 DEF LocalInv, RootsOwned, FramesOwned, To
<1> QED
  BY <1>4, <1>5 DEF LocalInv

\* Every step, of whomever, leaves each run its own entries.
LEMMA LocalNextStep == LocalInv /\ [LocalNext]_localVars => LocalInv'
<1> SUFFICES ASSUME LocalInv, [LocalNext]_localVars PROVE LocalInv'
  OBVIOUS
<1>1. CASE UNCHANGED localVars
  BY <1>1, QuietStep DEF localVars, LocalInv, LocalTypeOK
<1>2. ASSUME NEW r \in Runs, Copy(r) PROVE LocalInv'
  <2>1. CASE CopyDirectory(r)
    BY <2>1, DirectoryStep
  <2>2. CASE CopyLeaf(r)
    BY <2>2, LeafStep
  <2>3. CASE LeaveDirectory(r)
    BY <2>3, LeaveStep
  <2>4. CASE Inspect(r) \/ ChooseTarget(r) \/ EntryFails(r) \/ LocalSucceeds(r) \/ LocalFails(r)
    <3>1. /\ UNCHANGED <<disk, stack, stats, changed, target, changes>>
          /\ \E from, to \in LocalPcs \ {"off"} : LocalGoes(r, from, to)
      BY <2>4 DEF Inspect, ChooseTarget, EntryFails, LocalSucceeds, LocalFails, LocalGoes, LocalPcs
    <3>2. /\ localPc' \in [Runs -> LocalPcs]
          /\ \A o \in Runs : localPc[o] = "off" => localPc'[o] = "off"
      BY <3>1 DEF LocalGoes, LocalInv, LocalTypeOK
    <3> QED
      BY <3>1, <3>2, QuietStep DEF LocalInv, LocalTypeOK
  <2> QED
    BY <1>2, <2>1, <2>2, <2>3, <2>4 DEF Copy
<1>3. CASE UserStep
  BY <1>3, UserKeeps
<1> QED
  BY <1>1, <1>2, <1>3 DEF LocalNext

\* A run writes where there is nothing yet, or what it has made.
LEMMA OthersStep == LocalInv /\ [LocalNext]_localVars => [OthersKept]_localVars
<1> SUFFICES ASSUME LocalInv, LocalNext, NEW r \in Runs, NEW p \in DOMAIN disk,
                    localPc'[r] # localPc[r] \/ stack'[r] # stack[r], disk[p].by # r
             PROVE  p \in DOMAIN disk' /\ disk'[p] = disk[p]
  BY DEF OthersKept
<1>1. PICK o \in Runs : Copy(o)
  BY DEF LocalNext, UserStep, UserWrites, UserCreates, UserRemoves, UserActs
<1>2. CASE LeaveDirectory(o)
  <2>1. o = r
    BY <1>2 DEF LeaveDirectory, LocalGoes, LocalInv, LocalTypeOK
  <2> QED
    BY <1>2, <2>1, LeaveStep
<1>3. CASE CopyDirectory(o)
  <2>1. \E to, node : to \notin DOMAIN disk /\ disk' = With(to, node)
    BY <1>3 DEF CopyDirectory, CanCreateDirectory, CanCreate
  <2> QED
    BY <2>1 DEF With
<1>4. CASE CopyLeaf(o)
  <2>1. \E to, node : to \notin DOMAIN disk /\ disk' = With(to, node)
    BY <1>4 DEF CopyLeaf, CanCreate
  <2> QED
    BY <2>1 DEF With
<1>5. CASE Inspect(o) \/ ChooseTarget(o) \/ EntryFails(o) \/ LocalSucceeds(o) \/ LocalFails(o)
  BY <1>5 DEF Inspect, ChooseTarget, EntryFails, LocalSucceeds, LocalFails
<1> QED
  BY <1>1, <1>2, <1>3, <1>4, <1>5 DEF Copy

-----------------------------------------------------------------------------
(***************************************************************************)
(* A copy is its source.  Paths first: what is below a path is that path   *)
(* and the rest, and of two paths above a third one is above the other.    *)
(***************************************************************************)
LEMMA AppendPath ==
  ASSUME NEW p \in Path, NEW n \in Name
  PROVE  /\ Append(p, n) \in Path /\ Append(p, n) # <<>> /\ Len(Append(p, n)) = Len(p) + 1
         /\ Front(Append(p, n)) = p /\ Last(Append(p, n)) = n
<1>1. /\ Append(p, n) \in Path /\ Append(p, n) # <<>> /\ Len(Append(p, n)) = Len(p) + 1
      /\ \A i \in 1 .. Len(p) : Append(p, n)[i] = p[i]
      /\ Append(p, n)[Len(p) + 1] = n
      /\ Len(p) \in Nat
  BY AppendProperties, LenProperties DEF Path
<1> DEFINE s == Append(p, n)
<1>2. SubSeq(s, 1, Len(p)) = p
  <2>1. \A i \in 1 .. Len(p) : s[i] \in Name
    BY <1>1, ElementOfSeq DEF Path
  <2> HIDE DEF s
  <2>2. 1 \in Int /\ Len(p) \in Int
    BY <1>1
  <2>3. /\ SubSeq(s, 1, Len(p)) \in Seq(Name)
        /\ Len(SubSeq(s, 1, Len(p))) = IF 1 <= Len(p) THEN Len(p) - 1 + 1 ELSE 0
        /\ \A i \in 1 .. Len(p) - 1 + 1 : SubSeq(s, 1, Len(p))[i] = s[1 + i - 1]
    BY <2>1, <2>2, SubSeqProperties
  <2>4. Len(SubSeq(s, 1, Len(p))) = Len(p)
    BY <1>1, <2>3
  <2>5. \A i \in 1 .. Len(SubSeq(s, 1, Len(p))) : SubSeq(s, 1, Len(p))[i] = p[i]
    BY <1>1, <2>3, <2>4 DEF s
  <2> QED
    BY <2>3, <2>4, <2>5, SeqEqual DEF Path
<1> QED
  BY <1>1, <1>2 DEF Front, Last

\* A path that is not empty has a last name.
LEMMA NonEmptyPath ==
  ASSUME NEW p \in Path, p # <<>>
  PROVE  \E q \in Path, n \in Name : p = Append(q, n) /\ Front(p) = q /\ Last(p) = n
<1>1. PICK q \in Path, n \in Name : p = Append(q, n)
  BY SequenceEmptyOrAppend DEF Path
<1> QED
  BY <1>1, AppendPath

\* A name behind a joined path is behind its second part.
LEMMA JoinPath ==
  ASSUME NEW t \in Path, NEW q \in Path, NEW n \in Name
  PROVE  /\ t \o q \in Path /\ Len(t \o q) = Len(t) + Len(q)
         /\ t \o Append(q, n) = Append(t \o q, n)
<1>1. t \o q \in Path /\ Len(t \o q) = Len(t) + Len(q)
  BY ConcatProperties DEF Path
<1>2. <<n>> \in Path /\ Append(q, n) = q \o <<n>> /\ Append(t \o q, n) = (t \o q) \o <<n>>
  BY <1>1, AppendIsConcat DEF Path
<1> QED
  BY <1>1, <1>2, ConcatAssociative DEF Path

\* A joined path has one second part only.
LEMMA CancelPath ==
  ASSUME NEW t \in Path, NEW p \in Path, NEW q \in Path, t \o p = t \o q
  PROVE  p = q
BY ConcatSimplifications DEF Path

\* What a path begins with is joined with the rest of it.
LEMMA PrefixPath ==
  ASSUME NEW t \in Path, NEW p \in Path
  PROVE  IsPrefix(t, p) <=> \E q \in Path : p = t \o q
<1>1. Len(t) \in Nat /\ Len(p) \in Nat /\ SubSeq(t, 1, Len(t)) = t
  BY LenProperties, SubSeqFull DEF Path
<1>2. ASSUME IsPrefix(t, p) PROVE \E q \in Path : p = t \o q
  <2>1. Len(t) <= Len(p) /\ SubSeq(p, 1, Len(t)) = t
    BY <1>1, <1>2 DEF IsPrefix
  <2>2. SubSeq(p, 1, Len(t)) \o SubSeq(p, Len(t) + 1, Len(p)) = SubSeq(p, 1, Len(p))
    <3>1. 1 \in 1 .. Len(p) + 1 /\ Len(t) \in 1 - 1 .. Len(p) /\ Len(p) \in Len(t) .. Len(p)
      BY <1>1, <2>1
    <3> QED
      BY <3>1, ConcatAdjacentSubSeq DEF Path
  <2>3. SubSeq(p, 1, Len(p)) = p
    BY SubSeqFull DEF Path
  <2>4. SubSeq(p, Len(t) + 1, Len(p)) \in Path
    <3>1. \A i \in Len(t) + 1 .. Len(p) : p[i] \in Name
      BY <1>1, ElementOfSeq DEF Path
    <3>2. Len(t) + 1 \in Int /\ Len(p) \in Int
      BY <1>1
    <3> QED
      BY <3>1, <3>2, SubSeqProperties DEF Path
  <2> QED
    BY <2>1, <2>2, <2>3, <2>4
<1>3. ASSUME NEW q \in Path, p = t \o q PROVE IsPrefix(t, p)
  <2>1. /\ Len(t \o q) = Len(t) + Len(q) /\ Len(q) \in Nat
        /\ \A i \in 1 .. Len(t) + Len(q) : (t \o q)[i] = IF i <= Len(t) THEN t[i] ELSE q[i - Len(t)]
    BY ConcatProperties, LenProperties DEF Path
  <2>2. /\ SubSeq(p, 1, Len(t)) \in Seq(Name) /\ Len(SubSeq(p, 1, Len(t))) = Len(t)
        /\ \A i \in 1 .. Len(t) : SubSeq(p, 1, Len(t))[i] = p[i]
    <3>1. \A i \in 1 .. Len(t) : p[i] \in Name
      BY <1>1, <1>3, <2>1, ElementOfSeq DEF Path
    <3>2. 1 \in Int /\ Len(t) \in Int
      BY <1>1
    <3>3. /\ SubSeq(p, 1, Len(t)) \in Seq(Name)
          /\ Len(SubSeq(p, 1, Len(t))) = IF 1 <= Len(t) THEN Len(t) - 1 + 1 ELSE 0
          /\ \A i \in 1 .. Len(t) - 1 + 1 : SubSeq(p, 1, Len(t))[i] = p[1 + i - 1]
      BY <3>1, <3>2, SubSeqProperties
    <3> QED
      BY <1>1, <3>3
  <2>3. \A i \in 1 .. Len(SubSeq(p, 1, Len(t))) : SubSeq(p, 1, Len(t))[i] = t[i]
    BY <1>1, <1>3, <2>1, <2>2
  <2>4. SubSeq(p, 1, Len(t)) = t
    BY <2>2, <2>3, SeqEqual DEF Path
  <2> QED
    BY <1>1, <1>3, <2>1, <2>4 DEF IsPrefix
<1> QED
  BY <1>2, <1>3

\* The rest of a path below another.
LEMMA RestOfPath ==
  ASSUME NEW t \in Path, NEW q \in Path
  PROVE  SubSeq(t \o q, Len(t) + 1, Len(t \o q)) = q
<1>1. /\ Len(t) \in Nat /\ Len(q) \in Nat /\ Len(t \o q) = Len(t) + Len(q) /\ t \o q \in Seq(Name)
      /\ \A i \in 1 .. Len(t) + Len(q) : (t \o q)[i] = IF i <= Len(t) THEN t[i] ELSE q[i - Len(t)]
  BY ConcatProperties, LenProperties DEF Path
<1> DEFINE s == t \o q
           m == Len(t)
           k == Len(q)
<1>2. \A i \in m + 1 .. m + k : s[i] \in Name
  BY <1>1, ElementOfSeq
<1> HIDE DEF s
<1>3. m + 1 \in Int /\ m + k \in Int
  BY <1>1
<1> DEFINE lo == m + 1
           hi == m + k
<1> HIDE DEF m, k, lo, hi
<1>8. /\ SubSeq(s, lo, hi) \in Seq(Name)
      /\ Len(SubSeq(s, lo, hi)) = IF lo <= hi THEN hi - lo + 1 ELSE 0
      /\ \A i \in 1 .. hi - lo + 1 : SubSeq(s, lo, hi)[i] = s[lo + i - 1]
  <2>1. lo \in Int /\ hi \in Int /\ \A i \in lo .. hi : s[i] \in Name
    BY <1>2, <1>3 DEF lo, hi
  <2> QED
    BY <2>1, SubSeqProperties
<1>4. /\ SubSeq(s, m + 1, m + k) \in Seq(Name)
      /\ Len(SubSeq(s, m + 1, m + k)) = k
      /\ \A i \in 1 .. k : SubSeq(s, m + 1, m + k)[i] = s[m + i]
  BY <1>1, <1>8 DEF lo, hi, m, k
<1>5. Len(SubSeq(s, m + 1, m + k)) = k
  BY <1>1, <1>4 DEF m, k
<1>6. \A i \in 1 .. Len(SubSeq(s, m + 1, m + k)) : SubSeq(s, m + 1, m + k)[i] = q[i]
  BY <1>1, <1>4, <1>5 DEF m, k, s
<1>7. SubSeq(s, m + 1, m + k) = q
  BY <1>4, <1>5, <1>6, SeqEqual DEF k, Path
<1> QED
  BY <1>1, <1>7 DEF s, m, k

\* A path with one name more begins with what the path begins with, or with itself.
LEMMA PrefixAppend ==
  ASSUME NEW a \in Path, NEW p \in Path, NEW n \in Name
  PROVE  /\ IsPrefix(a, Append(p, n)) <=> IsPrefix(a, p) \/ a = Append(p, n)
         /\ IsPrefix(a, a)
<1>1. ASSUME IsPrefix(a, Append(p, n)) PROVE IsPrefix(a, p) \/ a = Append(p, n)
  <2>1. PICK q \in Path : Append(p, n) = a \o q
    BY <1>1, AppendPath, PrefixPath
  <2>2. CASE q = <<>>
    BY <2>1, <2>2, PathFacts
  <2>3. CASE q # <<>>
    <3>1. PICK x \in Path, m \in Name : q = Append(x, m)
      BY <2>3, NonEmptyPath
    <3> DEFINE y == a \o x
    <3>2. y \in Path /\ Append(p, n) = Append(y, m)
      BY <2>1, <3>1, JoinPath
    <3> HIDE DEF y
    <3>3. Front(Append(p, n)) = p /\ Front(Append(y, m)) = y
      BY <3>1, <3>2, AppendPath
    <3> QED
      BY <3>1, <3>2, <3>3, PrefixPath DEF y
  <2> QED
    BY <2>2, <2>3
<1>2. IsPrefix(a, a)
  BY PathFacts, PrefixPath
<1>3. ASSUME IsPrefix(a, p) PROVE IsPrefix(a, Append(p, n))
  <2>1. PICK q \in Path : p = a \o q
    BY <1>3, PrefixPath
  <2>2. Append(p, n) = a \o Append(q, n) /\ Append(q, n) \in Path /\ Append(p, n) \in Path
    BY <2>1, JoinPath, AppendPath
  <2> QED
    BY <2>2, PrefixPath
<1> QED
  BY <1>1, <1>2, <1>3

\* The beginnings of one path begin with one another.
LEMMA PrefixOrder ==
  ASSUME NEW a \in Path, NEW b \in Path, NEW p \in Path
  PROVE  /\ IsPrefix(a, b) /\ IsPrefix(b, p) => IsPrefix(a, p)
         /\ IsPrefix(a, p) /\ IsPrefix(b, p) => IsPrefix(a, b) \/ IsPrefix(b, a)
         /\ IsPrefix(a, b) /\ IsPrefix(b, a) => a = b
<1>1. Len(a) \in Nat /\ Len(b) \in Nat /\ Len(p) \in Nat
  BY LenProperties DEF Path
<1>2. ASSUME IsPrefix(a, b), IsPrefix(b, p) PROVE IsPrefix(a, p)
  <2>1. (\E x \in Path : b = a \o x) /\ (\E y \in Path : p = b \o y)
    BY <1>2, PrefixPath
  <2>3. PICK x \in Path, y \in Path : b = a \o x /\ p = b \o y
    BY <2>1
  <2>2. p = a \o (x \o y) /\ x \o y \in Path
    BY <2>3, ConcatAssociative, ConcatProperties DEF Path
  <2> QED
    BY <2>2, PrefixPath
<1>3. ASSUME NEW c \in Path, NEW d \in Path, IsPrefix(c, p), IsPrefix(d, p), Len(c) <= Len(d)
      PROVE  IsPrefix(c, d)
  <2>1. PICK x \in Path, y \in Path : p = c \o x /\ p = d \o y
    <3>1. (\E x \in Path : p = c \o x) /\ (\E y \in Path : p = d \o y)
      BY <1>3, PrefixPath
    <3> QED
      BY <3>1
  <2>2. /\ Len(c) \in Nat /\ Len(d) \in Nat /\ Len(x) \in Nat /\ Len(y) \in Nat
        /\ Len(p) = Len(c) + Len(x) /\ Len(p) = Len(d) + Len(y)
        /\ \A i \in 1 .. Len(c) + Len(x) : p[i] = IF i <= Len(c) THEN c[i] ELSE x[i - Len(c)]
        /\ \A i \in 1 .. Len(d) + Len(y) : p[i] = IF i <= Len(d) THEN d[i] ELSE y[i - Len(d)]
    <3>1. c \in Seq(Name) /\ d \in Seq(Name) /\ x \in Seq(Name) /\ y \in Seq(Name)
      BY DEF Path
    <3>2. Len(c) \in Nat /\ Len(d) \in Nat /\ Len(x) \in Nat /\ Len(y) \in Nat
      BY <3>1, LenProperties
    <3>3. /\ Len(c \o x) = Len(c) + Len(x)
          /\ \A i \in 1 .. Len(c) + Len(x) :
               (c \o x)[i] = IF i <= Len(c) THEN c[i] ELSE x[i - Len(c)]
      BY <3>1, ConcatProperties
    <3>4. /\ Len(d \o y) = Len(d) + Len(y)
          /\ \A i \in 1 .. Len(d) + Len(y) :
               (d \o y)[i] = IF i <= Len(d) THEN d[i] ELSE y[i - Len(d)]
      BY <3>1, ConcatProperties
    <3> QED
      BY <2>1, <3>2, <3>3, <3>4
  <2>3. ASSUME NEW i \in 1 .. Len(c) PROVE c[i] = d[i]
    <3>1. /\ i \in 1 .. Len(c) + Len(x) /\ i <= Len(c)
          /\ i \in 1 .. Len(d) + Len(y) /\ i <= Len(d)
      BY <1>3, <2>2
    <3>2. p[i] = c[i]
      BY <2>2, <3>1
    <3>3. p[i] = d[i]
      BY <2>2, <3>1
    <3> QED
      BY <3>2, <3>3
  <2>4. SubSeq(c, 1, Len(c)) = SubSeq(d, 1, Len(c))
    <3>1. /\ SubSeq(d, 1, Len(c)) \in Seq(Name) /\ Len(SubSeq(d, 1, Len(c))) = Len(c)
          /\ \A i \in 1 .. Len(c) : SubSeq(d, 1, Len(c))[i] = d[i]
      <4>1. \A i \in 1 .. Len(c) : d[i] \in Name
        BY <1>3, <2>2, ElementOfSeq DEF Path
      <4>2. 1 \in Int /\ Len(c) \in Int
        BY <2>2
      <4>3. /\ SubSeq(d, 1, Len(c)) \in Seq(Name)
            /\ Len(SubSeq(d, 1, Len(c))) = IF 1 <= Len(c) THEN Len(c) - 1 + 1 ELSE 0
            /\ \A i \in 1 .. Len(c) - 1 + 1 : SubSeq(d, 1, Len(c))[i] = d[1 + i - 1]
        BY <4>1, <4>2, SubSeqProperties
      <4> QED
        BY <2>2, <4>3
    <3>2. c = SubSeq(d, 1, Len(c))
      BY <2>2, <2>3, <3>1, SeqEqual DEF Path
    <3> QED
      BY <3>2, SubSeqFull DEF Path
  <2> QED
    BY <1>3, <2>4 DEF IsPrefix
<1>4. ASSUME IsPrefix(a, b), IsPrefix(b, a) PROVE a = b
  <2>1. SubSeq(a, 1, Len(a)) = a /\ SubSeq(b, 1, Len(b)) = b
    BY SubSeqFull DEF Path
  <2> QED
    BY <1>1, <1>4, <2>1 DEF IsPrefix
<1> QED
  BY <1>1, <1>2, <1>3, <1>4

-----------------------------------------------------------------------------
(***************************************************************************)
(* Sets of paths, and trees.                                               *)
(***************************************************************************)
LEMMA LeastOf ==
  ASSUME NEW S \in SUBSET Nat, S # {}
  PROVE  \E m \in S : \A k \in S : m <= k
<1> DEFINE Below == {ss \in Nat \X Nat : ss[1] < ss[2]}
<1>1. IsWellFoundedOn(Below, Nat)
  BY NatLessThanWellFounded DEF OpToRel
<1>2. PICK m \in S : \A k \in S : <<k, m>> \notin Below
  <2> HIDE DEF Below
  <2> QED
    BY <1>1, WFMin
<1>3. \A k \in S : ~(k < m)
  BY <1>2
<1> QED
  BY <1>3

\* A set of paths has one that is not longer than the others.
LEMMA ShortestPath ==
  ASSUME NEW S \in SUBSET Path, S # {}
  PROVE  \E p \in S : \A q \in S : Len(p) <= Len(q)
<1> DEFINE L == {Len(p) : p \in S}
<1>1. L \in SUBSET Nat /\ L # {}
  BY LenProperties DEF Path
<1> HIDE DEF L
<1>2. PICK m \in L : \A k \in L : m <= k
  BY <1>1, LeastOf
<1> QED
  BY <1>2 DEF L

\* In a tree, what is above something is there and is a directory.
LEMMA Above ==
  ASSUME NEW d, Tree(d), DOMAIN d \subseteq Path, NEW a \in Path, NEW p \in DOMAIN d, IsPrefix(a, p)
  PROVE  a \in DOMAIN d /\ (a # p => d[a].kind = "dir")
<1> DEFINE S == {x \in DOMAIN d : IsPrefix(a, x) /\ ~(a \in DOMAIN d /\ (a # x => d[a].kind = "dir"))}
<1> SUFFICES ASSUME S # {} PROVE FALSE
  BY Zenon
<1>1. PICK x \in S : \A y \in S : Len(x) <= Len(y)
  <2>1. S \in SUBSET Path
    OBVIOUS
  <2> HIDE DEF S
  <2> QED
    BY <2>1, ShortestPath
<1>2. x # a /\ x # <<>> /\ x \in Path /\ x \in DOMAIN d /\ IsPrefix(a, x)
  <2>1. x # a
    BY <1>1
  <2>2. ASSUME x = <<>> PROVE FALSE
    <3>1. PICK q \in Path : <<>> = a \o q
      BY <1>1, <2>2, PathFacts, PrefixPath
    <3>2. a = <<>>
      BY <3>1, ConcatSimplifications DEF Path
    <3> QED
      BY <2>1, <2>2, <3>2
  <2> QED
    BY <1>1, <2>1, <2>2
<1>3. PICK y \in Path, n \in Name : x = Append(y, n) /\ Front(x) = y
  BY <1>2, NonEmptyPath
<1>4. y \in DOMAIN d /\ d[y].kind = "dir"
  BY <1>2, <1>3 DEF Tree
<1>5. IsPrefix(a, y)
  BY <1>2, <1>3, PrefixAppend
<1>6. y \notin S
  <2>1. Len(x) = Len(y) + 1 /\ Len(y) \in Nat
    BY <1>3, AppendPath, LenProperties DEF Path
  <2> QED
    BY <1>1, <2>1
<1> QED
  BY <1>1, <1>4, <1>5, <1>6

-----------------------------------------------------------------------------
(***************************************************************************)
(* What is known of a run.                                                 *)
(***************************************************************************)
Inspected == {"choosing", "copying", "copied", "ok"}
Fresh(r) ==
  localPc[r] \in {"off", "inspecting", "choosing"} \/ (localPc[r] = "copying" /\ stack[r] = <<>>)
Begun(r) == localPc[r] \in {"copied", "ok"} \/ (localPc[r] = "copying" /\ stack[r] # <<>>)
OpenDir(r, q) == \E i \in 1 .. Len(stack[r]) : stack[r][i].dir = q

\* Before it has made anything, and from then on.
RootInv(r) ==
  /\ Fresh(r) => /\ stack[r] = <<>> /\ stats[r] = [files |-> 0, dirs |-> 0, links |-> 0]
                 /\ \A p \in DOMAIN disk : disk[p].by # r
  /\ localPc[r] \in {"copied", "ok"} => stack[r] = <<>>
  /\ localPc[r] \in Inspected => Source \in DOMAIN disk /\ disk[Source].kind = "dir"
  /\ Begun(r) => /\ target[r] \in DOMAIN disk /\ disk[target[r]].by = r
                 /\ ~IsPrefix(target[r], Source)

\* The calls of copy_tree_cow are each for a directory in the one before.
ChainInv(r) ==
  \A i \in 1 .. Len(stack[r]) :
    LET q == stack[r][i].dir
    IN /\ Len(q) = i - 1
       /\ i > 1 => \E n \in Name : q = Append(stack[r][i - 1].dir, n)
       /\ From(q) \in DOMAIN disk /\ disk[From(q)].kind = "dir"
       /\ disk[To(r, q)].kind = "dir"

\* A copy into its own source always has something left to visit: a directory on the
\* way to its target, or the one it has made for a directory it is in.
GrowInv(r) ==
  localPc[r] # "off" /\ IntoItself(r) =>
    /\ localPc[r] \notin {"copied", "ok"}
    /\ localPc[r] = "copying" /\ stack[r] # <<>> =>
         \E i \in 1 .. Len(stack[r]) : \E n \in stack[r][i].due :
           LET p == From(Append(stack[r][i].dir, n))
           IN IsPrefix(p, target[r]) \/ \E j \in 1 .. i : p = To(r, stack[r][j].dir)

\* The target is a copy of the source, but for what the open directories have due.
Mirror(r) ==
  /\ \A p \in Within(target[r]) : disk[p].by = r
  /\ \A q \in Path : To(r, q) \in DOMAIN disk =>
       /\ From(q) \in DOMAIN disk
       /\ disk[To(r, q)].kind = disk[From(q)].kind /\ disk[To(r, q)].data = disk[From(q)].data
       /\ \/ disk[To(r, q)].kind # "dir" \/ OpenDir(r, q)
          \/ disk[To(r, q)].mode = disk[From(q)].mode
  /\ \A q \in Path, n \in Name :
       To(r, q) \in DOMAIN disk /\ ~OpenDir(r, q) /\ From(Append(q, n)) \in DOMAIN disk
         => To(r, Append(q, n)) \in DOMAIN disk

DueInv(r) ==
  \A i \in 1 .. Len(stack[r]) :
    LET f == stack[r][i]
    IN /\ f.mode = disk[From(f.dir)].mode /\ disk[To(r, f.dir)].mode = "writable"
       /\ \A n \in Name :
            /\ From(Append(f.dir, n)) \in DOMAIN disk => n \in f.due \cup f.seen
            /\ n \in f.due => /\ From(Append(f.dir, n)) \in DOMAIN disk
                              /\ To(r, Append(f.dir, n)) \notin DOMAIN disk
            /\ n \in f.seen => To(r, Append(f.dir, n)) \in DOMAIN disk

SumInv(r) ==
  /\ IsFiniteSet(Within(target[r]))
  /\ stats[r].files + stats[r].dirs + stats[r].links = Cardinality(Within(target[r]))

Calm(r) == Begun(r) /\ r \notin changed /\ ~IntoItself(r)

RunInv(r) ==
  /\ RootInv(r) /\ ChainInv(r) /\ GrowInv(r)
  /\ localPc[r] \in Inspected /\ r \notin changed => IsRepository
  /\ Calm(r) => Mirror(r) /\ DueInv(r) /\ SumInv(r)

CopyInv == Tree(disk) /\ \A r \in Runs : RunInv(r)

-----------------------------------------------------------------------------
(***************************************************************************)
(* A run while others work.                                                *)
(***************************************************************************)
KeptAt(p) == (p \in DOMAIN disk' <=> p \in DOMAIN disk) /\ (p \in DOMAIN disk => disk'[p] = disk[p])

Undisturbed(r) ==
  /\ target' = target /\ localPc'[r] = localPc[r] /\ stack'[r] = stack[r] /\ stats'[r] = stats[r]
  /\ changed \subseteq changed'
  /\ \A p \in DOMAIN disk : disk[p].kind = "dir" => p \in DOMAIN disk' /\ disk'[p].kind = "dir"
  /\ \A p \in DOMAIN disk : disk[p].by = r => p \in DOMAIN disk' /\ disk'[p] = disk[p]
  /\ \A p \in DOMAIN disk' : disk'[p].by = r => p \in DOMAIN disk /\ disk[p].by = r
  /\ r \notin changed' /\ localPc[r] \notin {"off", "inspecting"} =>
       \A p \in Path : IsPrefix(Source, p) \/ IsStrictPrefix(target[r], p) => KeptAt(p)

\* The paths of a run below its source and below its target correspond.
LEMMA PathsOfRun ==
  ASSUME LocalInv, NEW r \in Runs, localPc[r] # "off"
  PROVE  /\ target[r] \in Path /\ Source \in Path
         /\ \A q \in Path : /\ From(q) \in Path /\ To(r, q) \in Path
                            /\ IsPrefix(Source, From(q)) /\ IsPrefix(target[r], To(r, q))
                            /\ \A n \in Name : /\ Append(q, n) \in Path
                                               /\ From(Append(q, n)) = Append(From(q), n)
                                               /\ To(r, Append(q, n)) = Append(To(r, q), n)
         /\ \A p \in Path : IsPrefix(target[r], p) => \E q \in Path : p = To(r, q)
         /\ \A p \in Path : IsPrefix(Source, p) => \E q \in Path : p = From(q)
         /\ \A p, q \in Path : (To(r, p) = To(r, q) => p = q) /\ (From(p) = From(q) => p = q)
         /\ To(r, <<>>) = target[r] /\ From(<<>>) = Source
<1>1. target[r] \in Path /\ Source \in Path
  BY LocalAssumption DEF LocalInv, LocalTypeOK
<1>2. ASSUME NEW q \in Path
      PROVE  /\ From(q) \in Path /\ To(r, q) \in Path
             /\ IsPrefix(Source, From(q)) /\ IsPrefix(target[r], To(r, q))
             /\ \A n \in Name : /\ Append(q, n) \in Path
                                /\ From(Append(q, n)) = Append(From(q), n)
                                /\ To(r, Append(q, n)) = Append(To(r, q), n)
  <2>1. From(q) \in Path /\ To(r, q) \in Path
    BY <1>1, JoinPath, PathFacts DEF From, To
  <2>2. IsPrefix(Source, From(q)) /\ IsPrefix(target[r], To(r, q))
    BY <1>1, <2>1, PrefixPath DEF From, To
  <2> QED
    BY <1>1, <2>1, <2>2, JoinPath, AppendPath DEF From, To
<1>3. \A p \in Path : IsPrefix(target[r], p) => \E q \in Path : p = To(r, q)
  BY <1>1, PrefixPath DEF To
<1>4. \A p \in Path : IsPrefix(Source, p) => \E q \in Path : p = From(q)
  BY <1>1, PrefixPath DEF From
<1>5. \A p, q \in Path : (To(r, p) = To(r, q) => p = q) /\ (From(p) = From(q) => p = q)
  BY <1>1, CancelPath DEF To, From
<1> QED
  BY <1>1, <1>2, <1>3, <1>4, <1>5, PathFacts DEF To, From

\* A source that is left alone stays a repository at rest.
LEMMA RepositoryKept ==
  ASSUME LocalInv, IsRepository, \A p \in Path : IsPrefix(Source, p) => KeptAt(p)
  PROVE  IsRepository'
<1> DEFINE git == Append(Source, Git)
<1>1. git \in Path /\ IsPrefix(Source, git) /\ Source \in Path
  BY LocalAssumption, AppendPath, PrefixAppend
<1>2. \A n \in Name : Append(git, n) \in Path /\ IsPrefix(Source, Append(git, n))
  BY <1>1, LocalAssumption, AppendPath, PrefixAppend
<1> HIDE DEF git
<1>3. Children(disk', git) = Children(disk, git)
  BY <1>2 DEF Children, KeptAt
<1>4. git \in DOMAIN disk /\ disk[git].kind = "dir" /\ Marker \cap Children(disk, git) = {}
  BY DEF IsRepository, git
<1>5. git \in DOMAIN disk' /\ disk'[git].kind = "dir" /\ Marker \cap Children(disk', git) = {}
  BY <1>1, <1>3, <1>4 DEF KeptAt
<1> QED
  BY <1>5 DEF IsRepository, git, Children

\* What others do leaves a run its root,
LEMMA RootUndisturbed ==
  ASSUME LocalInv, NEW r \in Runs, RootInv(r), Undisturbed(r)
  PROVE  RootInv(r)'
<1>1. Fresh(r)' = Fresh(r) /\ Begun(r)' = Begun(r)
  BY DEF Fresh, Begun, Undisturbed
<1>2. Fresh(r)' => /\ stack'[r] = <<>> /\ stats'[r] = [files |-> 0, dirs |-> 0, links |-> 0]
                   /\ \A p \in DOMAIN disk' : disk'[p].by # r
  BY <1>1 DEF RootInv, Undisturbed
<1>3. Begun(r)' => /\ target'[r] \in DOMAIN disk' /\ disk'[target'[r]].by = r
                   /\ ~IsPrefix(target'[r], Source)
  BY <1>1 DEF RootInv, Undisturbed
<1>4. localPc'[r] \in Inspected => Source \in DOMAIN disk' /\ disk'[Source].kind = "dir"
  BY DEF RootInv, Undisturbed
<1> QED
  BY <1>2, <1>3, <1>4 DEF RootInv, Undisturbed

\* the directories it is in,
LEMMA ChainUndisturbed ==
  ASSUME LocalInv, NEW r \in Runs, ChainInv(r), Undisturbed(r)
  PROVE  ChainInv(r)'
<1> SUFFICES ASSUME NEW i \in 1 .. Len(stack'[r])
             PROVE  LET q == stack'[r][i].dir
                    IN /\ Len(q) = i - 1
                       /\ i > 1 => \E n \in Name : q = Append(stack'[r][i - 1].dir, n)
                       /\ From(q) \in DOMAIN disk' /\ disk'[From(q)].kind = "dir"
                       /\ disk'[To(r, q)].kind = "dir"
  BY DEF ChainInv, Undisturbed, To
<1> DEFINE q == stack[r][i].dir
<1>1. i \in 1 .. Len(stack[r]) /\ stack'[r] = stack[r]
  BY DEF Undisturbed
<1>2. /\ Len(q) = i - 1
      /\ i > 1 => \E n \in Name : q = Append(stack[r][i - 1].dir, n)
      /\ From(q) \in DOMAIN disk /\ disk[From(q)].kind = "dir"
      /\ disk[To(r, q)].kind = "dir" /\ To(r, q) \in DOMAIN disk /\ disk[To(r, q)].by = r
  BY <1>1 DEF ChainInv, LocalInv, FramesOwned
<1> QED
  BY <1>1, <1>2 DEF Undisturbed

\* what a copy into its own source has before it,
LEMMA GrowUndisturbed ==
  ASSUME LocalInv, NEW r \in Runs, GrowInv(r), Undisturbed(r)
  PROVE  GrowInv(r)'
<1>1. /\ localPc'[r] = localPc[r] /\ stack'[r] = stack[r] /\ target'[r] = target[r]
      /\ \A q : To(r, q)' = To(r, q)
  BY DEF Undisturbed, To
<1> QED
  BY <1>1 DEF GrowInv, IntoItself

\* What a run sees of its source and of its target.
LEMMA Views ==
  ASSUME LocalInv, LocalInv', NEW r \in Runs, RootInv(r), Undisturbed(r), Begun(r),
         r \notin changed'
  PROVE  /\ \A q \in Path : KeptAt(From(q)) /\ KeptAt(To(r, q))
         /\ Within(target[r])' = Within(target[r])
<1>1. localPc[r] \notin {"off", "inspecting"} /\ target'[r] = target[r]
  BY DEF Begun, Undisturbed
<1>2. KeptAt(target[r])
  BY DEF Undisturbed, RootInv, KeptAt
<1>3. \A p \in Path : IsPrefix(Source, p) \/ IsPrefix(target[r], p) => KeptAt(p)
  BY <1>1, <1>2 DEF Undisturbed, IsStrictPrefix
<1>4. \A q \in Path : KeptAt(From(q)) /\ KeptAt(To(r, q))
  BY <1>1, <1>3, PathsOfRun
<1>5. DOMAIN disk \subseteq Path /\ DOMAIN disk' \subseteq Path
  BY DEF LocalInv, LocalTypeOK
<1>6. {p \in DOMAIN disk' : IsPrefix(target[r], p)} = {p \in DOMAIN disk : IsPrefix(target[r], p)}
  BY <1>3, <1>5 DEF KeptAt
<1> QED
  BY <1>1, <1>4, <1>6 DEF Within

\* and, while its source is left alone, the copy it has made.
LEMMA MirrorUndisturbed ==
  ASSUME LocalInv, LocalInv', NEW r \in Runs, RootInv(r), ChainInv(r), Undisturbed(r), Begun(r),
         r \notin changed', Mirror(r), DueInv(r), SumInv(r)
  PROVE  Mirror(r)' /\ DueInv(r)' /\ SumInv(r)'
<1>1. /\ target' = target /\ stack'[r] = stack[r] /\ stats'[r] = stats[r]
      /\ \A q : To(r, q)' = To(r, q)
      /\ \A q : OpenDir(r, q)' = OpenDir(r, q)
  BY DEF Undisturbed, To, OpenDir
<1>2. /\ \A q \in Path : KeptAt(From(q)) /\ KeptAt(To(r, q))
      /\ Within(target[r])' = Within(target[r])
  BY Views
<1>3. localPc[r] # "off" /\ \A q \in Path, n \in Name : Append(q, n) \in Path
  BY AppendPath DEF Begun
<1>4. Mirror(r)'
  <2>1. \A p \in Within(target[r]) : disk'[p].by = r
    BY DEF Mirror, Undisturbed, Within
  <2>2. ASSUME NEW q \in Path, To(r, q) \in DOMAIN disk'
        PROVE  /\ From(q) \in DOMAIN disk'
               /\ disk'[To(r, q)].kind = disk'[From(q)].kind
               /\ disk'[To(r, q)].data = disk'[From(q)].data
               /\ \/ disk'[To(r, q)].kind # "dir" \/ OpenDir(r, q)
                  \/ disk'[To(r, q)].mode = disk'[From(q)].mode
    <3>1. KeptAt(From(q)) /\ KeptAt(To(r, q))
      BY <1>2
    <3> QED
      BY <2>2, <3>1 DEF KeptAt, Mirror
  <2>3. ASSUME NEW q \in Path, NEW n \in Name, To(r, q) \in DOMAIN disk', ~OpenDir(r, q),
               From(Append(q, n)) \in DOMAIN disk'
        PROVE  To(r, Append(q, n)) \in DOMAIN disk'
    BY <1>2, <1>3, <2>3 DEF KeptAt, Mirror
  <2> QED
    BY <1>1, <1>2, <2>1, <2>2, <2>3 DEF Mirror
<1>5. DueInv(r)'
  <2> SUFFICES ASSUME NEW i \in 1 .. Len(stack[r])
               PROVE  LET f == stack[r][i]
                      IN /\ f.mode = disk'[From(f.dir)].mode /\ disk'[To(r, f.dir)].mode = "writable"
                         /\ \A n \in Name :
                              /\ From(Append(f.dir, n)) \in DOMAIN disk' => n \in f.due \cup f.seen
                              /\ n \in f.due => /\ From(Append(f.dir, n)) \in DOMAIN disk'
                                                /\ To(r, Append(f.dir, n)) \notin DOMAIN disk'
                              /\ n \in f.seen => To(r, Append(f.dir, n)) \in DOMAIN disk'
    BY <1>1 DEF DueInv
  <2> DEFINE f == stack[r][i]
  <2>1. f.dir \in Path
    <3>1. f \in Frame
      BY ElementOfSeq DEF LocalInv, LocalTypeOK
    <3> QED
      BY <3>1 DEF Frame
  <2>2. /\ f.mode = disk[From(f.dir)].mode /\ disk[To(r, f.dir)].mode = "writable"
        /\ From(f.dir) \in DOMAIN disk /\ To(r, f.dir) \in DOMAIN disk
        /\ \A n \in Name :
             /\ From(Append(f.dir, n)) \in DOMAIN disk => n \in f.due \cup f.seen
             /\ n \in f.due => /\ From(Append(f.dir, n)) \in DOMAIN disk
                               /\ To(r, Append(f.dir, n)) \notin DOMAIN disk
             /\ n \in f.seen => To(r, Append(f.dir, n)) \in DOMAIN disk
    BY DEF DueInv, ChainInv, LocalInv, FramesOwned
  <2>3. /\ KeptAt(From(f.dir)) /\ KeptAt(To(r, f.dir))
        /\ \A n \in Name : KeptAt(From(Append(f.dir, n))) /\ KeptAt(To(r, Append(f.dir, n)))
    BY <1>2, <1>3, <2>1
  <2> HIDE DEF f
  <2>4. /\ f.mode = disk'[From(f.dir)].mode /\ disk'[To(r, f.dir)].mode = "writable"
        /\ \A n \in Name :
             /\ From(Append(f.dir, n)) \in DOMAIN disk' => n \in f.due \cup f.seen
             /\ n \in f.due => /\ From(Append(f.dir, n)) \in DOMAIN disk'
                               /\ To(r, Append(f.dir, n)) \notin DOMAIN disk'
             /\ n \in f.seen => To(r, Append(f.dir, n)) \in DOMAIN disk'
    BY <2>2, <2>3 DEF KeptAt
  <2> QED
    BY <2>4 DEF f
<1>6. SumInv(r)'
  BY <1>1, <1>2 DEF SumInv
<1> QED
  BY <1>4, <1>5, <1>6

\* So everything of a run survives the steps of the others.
LEMMA RunUndisturbed ==
  ASSUME LocalInv, LocalInv', NEW r \in Runs, RunInv(r), Undisturbed(r)
  PROVE  RunInv(r)'
<1>1. RootInv(r)' /\ ChainInv(r)' /\ GrowInv(r)'
  BY RootUndisturbed, ChainUndisturbed, GrowUndisturbed DEF RunInv
<1>2. ASSUME localPc'[r] \in Inspected, r \notin changed' PROVE IsRepository'
  <2>1. /\ localPc[r] \in Inspected /\ r \notin changed
        /\ \A p \in Path : IsPrefix(Source, p) => KeptAt(p)
    BY <1>2 DEF Undisturbed, Inspected
  <2>2. IsRepository
    BY <2>1 DEF RunInv
  <2> QED
    BY <2>1, <2>2, RepositoryKept
<1>3. ASSUME Calm(r)' PROVE Mirror(r)' /\ DueInv(r)' /\ SumInv(r)'
  <2>1. Begun(r) /\ r \notin changed' /\ Calm(r)
    BY <1>3 DEF Calm, Undisturbed, Begun, IntoItself
  <2> QED
    BY <2>1, MirrorUndisturbed DEF RunInv
<1> QED
  BY <1>1, <1>2, <1>3 DEF RunInv

-----------------------------------------------------------------------------
(***************************************************************************)
(* An entry is made.                                                       *)
(***************************************************************************)
Makes(r, q, node) ==
  /\ LocalGoes(r, "copying", "copying")
  /\ q \in NextEntries(r) /\ From(q) \in DOMAIN disk
  /\ CanCreate(To(r, q)) /\ disk' = With(To(r, q), node)
  /\ node \in Node /\ node.by = r
  /\ node.kind = disk[From(q)].kind /\ node.data = disk[From(q)].data
  /\ Touches(To(r, q), r)

\* The entry that is visited next, and the call that visits it.
LEMMA VisitFacts ==
  ASSUME LocalInv, NEW r \in Runs, localPc[r] = "copying", NEW q \in NextEntries(r),
         stack[r] # <<>>
  PROVE  LET k == Len(stack[r])
             f == stack[r][k]
             g == Visited(r, q)[k]
             n == Last(q)
         IN /\ k \in Nat \ {0} /\ f \in Frame /\ f.dir \in Path
            /\ n \in Name /\ q = Append(f.dir, n)
            /\ n \in f.due \cup (Children(disk, From(f.dir)) \ f.seen)
            /\ Visited(r, q) \in Seq(Frame) /\ Len(Visited(r, q)) = k
            /\ \A i \in 1 .. k - 1 : Visited(r, q)[i] = stack[r][i]
            /\ g.dir = f.dir /\ g.mode = f.mode
            /\ g.due = f.due \ {n} /\ g.seen = f.seen \cup {n}
<1> DEFINE s == stack[r]
           k == Len(s)
           f == s[k]
<1>1. s \in Seq(Frame) /\ k \in Nat \ {0} /\ f \in Frame
  BY EmptySeq, ElementOfSeq DEF LocalInv, LocalTypeOK
<1>2. PICK x \in f.due \cup (Children(disk, From(f.dir)) \ f.seen) : q = Append(f.dir, x)
  BY DEF NextEntries, Last
<1>3. x \in Name /\ f.dir \in Path
  BY <1>1, <1>2 DEF Frame, Children
<1>4. Last(q) = x
  BY <1>2, <1>3, AppendPath
<1> DEFINE g == [f EXCEPT !.due = @ \ {x}, !.seen = @ \cup {x}]
           h == SubSeq(s, 1, k - 1)
<1>5. /\ g \in Frame /\ g.dir = f.dir /\ g.mode = f.mode
      /\ g.due = f.due \ {x} /\ g.seen = f.seen \cup {x}
  BY <1>1, <1>3 DEF Frame
<1>6. h \in Seq(Frame) /\ Len(h) = k - 1 /\ \A i \in 1 .. k - 1 : h[i] = s[i]
  <2>1. \A i \in 1 .. k - 1 : s[i] \in Frame
    BY <1>1, ElementOfSeq
  <2> HIDE DEF k, s
  <2>2. 1 \in Int /\ k - 1 \in Int
    BY <1>1
  <2>3. /\ SubSeq(s, 1, k - 1) \in Seq(Frame)
        /\ Len(SubSeq(s, 1, k - 1)) = IF 1 <= k - 1 THEN (k - 1) - 1 + 1 ELSE 0
        /\ \A i \in 1 .. (k - 1) - 1 + 1 : SubSeq(s, 1, k - 1)[i] = s[1 + i - 1]
    BY <2>1, <2>2, SubSeqProperties
  <2> QED
    BY <1>1, <2>3
<1>7. Visited(r, q) = Append(h, g)
  BY <1>4 DEF Visited, Front, Last
<1> HIDE DEF h, g, f
<1>8. /\ Append(h, g) \in Seq(Frame) /\ Len(Append(h, g)) = Len(h) + 1
      /\ \A i \in 1 .. Len(h) : Append(h, g)[i] = h[i]
      /\ Append(h, g)[Len(h) + 1] = g
  BY <1>5, <1>6, AppendProperties
<1> HIDE DEF s, k
<1>9. /\ Visited(r, q) \in Seq(Frame) /\ Len(Visited(r, q)) = k
      /\ \A i \in 1 .. k - 1 : Visited(r, q)[i] = s[i]
      /\ Visited(r, q)[k] = g
  BY <1>1, <1>6, <1>7, <1>8
<1> QED
  BY <1>1, <1>2, <1>3, <1>4, <1>5, <1>9 DEF s, k, f

\* The disk with one thing more is a tree, and nobody else notices.
LEMMA MadeOnDisk ==
  ASSUME NEW to, NEW node, CanCreate(to), disk' = With(to, node)
  PROVE  /\ DOMAIN disk' = DOMAIN disk \cup {to} /\ disk'[to] = node /\ to \notin DOMAIN disk
         /\ \A p \in DOMAIN disk : disk'[p] = disk[p]
         /\ Tree(disk) => Tree(disk')
         /\ \A p : p # to => KeptAt(p)
<1>1. /\ DOMAIN disk' = DOMAIN disk \cup {to} /\ disk'[to] = node /\ to \notin DOMAIN disk
      /\ \A p \in DOMAIN disk : disk'[p] = disk[p]
      /\ Front(to) \in DOMAIN disk /\ disk[Front(to)].kind = "dir"
  BY DEF CanCreate, With
<1>2. ASSUME Tree(disk), NEW p \in DOMAIN disk' \ {<<>>}
      PROVE  Front(p) \in DOMAIN disk' /\ disk'[Front(p)].kind = "dir"
  <2>1. Front(p) \in DOMAIN disk /\ disk[Front(p)].kind = "dir"
    BY <1>1, <1>2 DEF Tree
  <2> QED
    BY <1>1, <2>1
<1>3. \A p : p # to => KeptAt(p)
  BY <1>1 DEF KeptAt
<1> QED
  BY <1>1, <1>2, <1>3 DEF Tree

\* An entry of one run's target disturbs no other run, or counts as a change for it.
LEMMA MadeByOthers ==
  ASSUME LocalInv, NEW r \in Runs, NEW q, NEW node, Makes(r, q, node),
         NEW o \in Runs \ {r}, stack'[o] = stack[o], stats'[o] = stats[o]
  PROVE  Undisturbed(o)
<1> DEFINE to == To(r, q)
<1>1. /\ DOMAIN disk' = DOMAIN disk \cup {to} /\ disk'[to] = node /\ to \notin DOMAIN disk
      /\ \A p \in DOMAIN disk : disk'[p] = disk[p]
      /\ \A p : p # to => KeptAt(p)
  BY MadeOnDisk DEF Makes
<1>2. target' = target /\ localPc'[o] = localPc[o] /\ node.by = r
  BY DEF Makes, LocalGoes, LocalInv, LocalTypeOK
<1>3. /\ changed \subseteq changed'
      /\ o \notin changed' /\ localPc[o] \notin {"off", "inspecting"} =>
           ~IsPrefix(Source, to) /\ ~IsStrictPrefix(target[o], to)
  BY DEF Makes, Touches
<1> HIDE DEF to
<1>4. o \notin changed' /\ localPc[o] \notin {"off", "inspecting"} =>
        \A p \in Path : IsPrefix(Source, p) \/ IsStrictPrefix(target[o], p) => KeptAt(p)
  BY <1>1, <1>3
<1> QED
  BY <1>1, <1>2, <1>3, <1>4 DEF Undisturbed

\* The run that makes it: its source is not touched unless it changes for all.
LEMMA MadeByRun ==
  ASSUME LocalInv, CopyInv, NEW r \in Runs, NEW q, Makes(r, q, disk'[To(r, q)])
  PROVE  /\ q \in Path /\ localPc[r] = "copying" /\ localPc'[r] = "copying" /\ target' = target
         /\ DOMAIN disk' = DOMAIN disk \cup {To(r, q)} /\ To(r, q) \notin DOMAIN disk
         /\ \A p \in DOMAIN disk : disk'[p] = disk[p]
         /\ ~IsPrefix(target[r], Source)
         /\ \A x \in Path : /\ To(r, x)' = To(r, x)
                            /\ To(r, x) \in DOMAIN disk' <=> To(r, x) \in DOMAIN disk \/ x = q
         /\ r \notin changed' => /\ r \notin changed /\ ~IsPrefix(Source, To(r, q))
                                 /\ \A p \in Path : IsPrefix(Source, p) => KeptAt(p)
                                 /\ \A x \in Path : KeptAt(From(x))
<1>1. /\ localPc[r] = "copying" /\ localPc'[r] = "copying" /\ target' = target
      /\ q \in NextEntries(r)
  BY DEF Makes, LocalGoes, LocalInv, LocalTypeOK
<1>2. q \in Path
  BY <1>1, EntryFacts DEF LocalInv
<1>3. /\ DOMAIN disk' = DOMAIN disk \cup {To(r, q)} /\ To(r, q) \notin DOMAIN disk
      /\ \A p \in DOMAIN disk : disk'[p] = disk[p]
      /\ \A p : p # To(r, q) => KeptAt(p)
  BY MadeOnDisk DEF Makes
<1>4. ~IsPrefix(target[r], Source)
  <2>1. CASE stack[r] = <<>>
    <3>1. To(r, q) = target[r]
      BY <1>1, <2>1, EntryFacts DEF LocalInv
    <3>2. target[r] \notin DOMAIN disk /\ Source \in DOMAIN disk
      BY <1>1, <1>3, <3>1 DEF CopyInv, RunInv, RootInv, Inspected
    <3> QED
      BY <1>1, <3>2, Above, PathsOfRun DEF CopyInv, LocalInv, LocalTypeOK
  <2>2. CASE stack[r] # <<>>
    BY <1>1, <2>2 DEF CopyInv, RunInv, RootInv, Begun
  <2> QED
    BY <2>1, <2>2
<1>5. ASSUME r \notin changed'
      PROVE  /\ r \notin changed /\ ~IsPrefix(Source, To(r, q))
             /\ \A p \in Path : IsPrefix(Source, p) => KeptAt(p)
             /\ \A x \in Path : KeptAt(From(x))
  <2>1. r \notin changed /\ ~IsPrefix(Source, To(r, q))
    BY <1>1, <1>5 DEF Makes, Touches
  <2>2. \A p \in Path : IsPrefix(Source, p) => KeptAt(p)
    BY <1>3, <2>1
  <2> QED
    BY <1>1, <2>1, <2>2, PathsOfRun
<1>6. \A x \in Path : /\ To(r, x)' = To(r, x)
                      /\ To(r, x) \in DOMAIN disk' <=> To(r, x) \in DOMAIN disk \/ x = q
  <2> TAKE x \in Path
  <2>1. To(r, x)' = To(r, x)
    BY <1>1 DEF To
  <2>2. To(r, x) = To(r, q) <=> x = q
    BY <1>1, <1>2, PathsOfRun
  <2> QED
    BY <1>3, <2>1, <2>2
<1> QED
  BY <1>1, <1>2, <1>3, <1>4, <1>5, <1>6

-----------------------------------------------------------------------------
(***************************************************************************)
(* What an entry that is made does to the mirror.                          *)
(***************************************************************************)
\* What is known of one open directory, f.
DueOf(f, r) ==
  /\ f.mode = disk[From(f.dir)].mode /\ disk[To(r, f.dir)].mode = "writable"
  /\ \A n \in Name :
       /\ From(Append(f.dir, n)) \in DOMAIN disk => n \in f.due \cup f.seen
       /\ n \in f.due => /\ From(Append(f.dir, n)) \in DOMAIN disk
                         /\ To(r, Append(f.dir, n)) \notin DOMAIN disk
       /\ n \in f.seen => To(r, Append(f.dir, n)) \in DOMAIN disk

\* A run that is about to make its first entry has an empty target.
LEMMA MirrorBefore ==
  ASSUME LocalInv, CopyInv, NEW r \in Runs, localPc[r] = "copying", r \notin changed,
         ~IntoItself(r), stack[r] = <<>> => target[r] \notin DOMAIN disk
  PROVE  Mirror(r) /\ DueInv(r) /\ SumInv(r)
<1>1. CASE stack[r] # <<>>
  BY <1>1 DEF CopyInv, RunInv, Calm, Begun
<1>2. CASE stack[r] = <<>>
  <2>1. Within(target[r]) = {}
    BY <1>2, Above, PathsOfRun DEF Within, CopyInv, LocalInv, LocalTypeOK
  <2>2. \A q \in Path : To(r, q) \notin DOMAIN disk
    BY <2>1, PathsOfRun DEF Within
  <2>3. Mirror(r)
    BY <2>1, <2>2 DEF Mirror
  <2>4. Len(stack[r]) = 0
    BY <1>2, EmptySeq
  <2>5. stats[r] = [files |-> 0, dirs |-> 0, links |-> 0]
    BY <1>2 DEF CopyInv, RunInv, RootInv, Fresh
  <2>6. SumInv(r)
    BY <2>1, <2>5, FS_EmptySet DEF SumInv
  <2> QED
    BY <2>3, <2>4, <2>6 DEF DueInv
<1> QED
  BY <1>1, <1>2

\* One entry more is the copy of its entry in the source.
LEMMA MirrorMade ==
  ASSUME LocalInv, CopyInv, NEW r \in Runs, NEW q, Makes(r, q, disk'[To(r, q)]),
         r \notin changed', Mirror(r),
         \A x \in Path : OpenDir(r, x) => OpenDir(r, x)',
         disk'[To(r, q)].kind # "dir" \/ OpenDir(r, q)'
  PROVE  Mirror(r)' /\ Within(target[r])' = Within(target[r]) \cup {To(r, q)}
<1> DEFINE to == To(r, q)
           node == disk'[to]
<1>1. /\ q \in Path /\ localPc[r] = "copying" /\ target' = target
      /\ DOMAIN disk' = DOMAIN disk \cup {to} /\ to \notin DOMAIN disk
      /\ \A p \in DOMAIN disk : disk'[p] = disk[p]
      /\ \A x \in Path : /\ To(r, x)' = To(r, x)
                         /\ To(r, x) \in DOMAIN disk' <=> To(r, x) \in DOMAIN disk \/ x = q
      /\ \A x \in Path : KeptAt(From(x))
  BY MadeByRun
<1>2. /\ node.by = r /\ From(q) \in DOMAIN disk
      /\ node.kind = disk[From(q)].kind /\ node.data = disk[From(q)].data
  BY DEF Makes
<1>3. IsPrefix(target[r], to)
  BY <1>1, PathsOfRun
<1>4. Within(target[r])' = Within(target[r]) \cup {to}
  BY <1>1, <1>3 DEF Within
<1>5. \A p \in Within(target[r])' : disk'[p].by = r
  BY <1>1, <1>2, <1>4 DEF Mirror, Within
<1> HIDE DEF to, node
<1>6. ASSUME NEW x \in Path, To(r, x) \in DOMAIN disk'
      PROVE  /\ From(x) \in DOMAIN disk'
             /\ disk'[To(r, x)].kind = disk'[From(x)].kind
             /\ disk'[To(r, x)].data = disk'[From(x)].data
             /\ \/ disk'[To(r, x)].kind # "dir" \/ OpenDir(r, x)'
                \/ disk'[To(r, x)].mode = disk'[From(x)].mode
  <2>1. KeptAt(From(x))
    BY <1>1
  <2>2. CASE x = q
    BY <1>1, <1>2, <2>1, <2>2 DEF KeptAt, to, node
  <2>3. CASE x # q
    <3>1. To(r, x) \in DOMAIN disk /\ disk'[To(r, x)] = disk[To(r, x)]
      BY <1>1, <1>6, <2>3
    <3>2. /\ From(x) \in DOMAIN disk
          /\ disk[To(r, x)].kind = disk[From(x)].kind /\ disk[To(r, x)].data = disk[From(x)].data
          /\ \/ disk[To(r, x)].kind # "dir" \/ OpenDir(r, x)
             \/ disk[To(r, x)].mode = disk[From(x)].mode
      BY <3>1 DEF Mirror
    <3> QED
      BY <2>1, <3>1, <3>2 DEF KeptAt
  <2> QED
    BY <2>2, <2>3
<1>7. ASSUME NEW x \in Path, NEW n \in Name, To(r, x) \in DOMAIN disk', ~OpenDir(r, x)',
             From(Append(x, n)) \in DOMAIN disk'
      PROVE  To(r, Append(x, n)) \in DOMAIN disk'
  <2>1. Append(x, n) \in Path /\ From(Append(x, n)) = Append(From(x), n) /\ From(x) \in Path
    BY <1>1, PathsOfRun
  <2>2. From(Append(x, n)) \in DOMAIN disk
    BY <1>1, <1>7, <2>1 DEF KeptAt
  <2>3. ASSUME x = q PROVE FALSE
    <3>1. node.kind # "dir"
      BY <1>7, <2>3 DEF node, to
    <3>2. Front(From(Append(x, n))) = From(x) /\ From(Append(x, n)) # <<>>
      BY <2>1, AppendPath
    <3>3. disk[From(x)].kind = "dir"
      BY <2>2, <3>2 DEF CopyInv, Tree
    <3> QED
      BY <1>2, <2>3, <3>1, <3>3
  <2>4. To(r, x) \in DOMAIN disk /\ ~OpenDir(r, x)
    BY <1>1, <1>7, <2>3
  <2>5. To(r, Append(x, n)) \in DOMAIN disk
    BY <2>2, <2>4 DEF Mirror
  <2> QED
    BY <1>1, <2>5
<1>8. Mirror(r)'
  <2>1. \A x : To(r, x)' = To(r, x)
    BY <1>1 DEF To
  <2> QED
    BY <1>5, <1>6, <1>7, <2>1 DEF Mirror
<1> QED
  BY <1>4, <1>8 DEF to

\* One entry more is one more that is counted.
LEMMA SumMade ==
  ASSUME LocalInv, NEW r \in Runs, NEW q, SumInv(r), To(r, q) \notin DOMAIN disk,
         Within(target[r])' = Within(target[r]) \cup {To(r, q)},
         \/ stats' = [stats EXCEPT ![r].files = @ + 1]
         \/ stats' = [stats EXCEPT ![r].dirs = @ + 1]
         \/ stats' = [stats EXCEPT ![r].links = @ + 1]
  PROVE  SumInv(r)'
<1> DEFINE W == Within(target[r])
<1>1. IsFiniteSet(W) /\ To(r, q) \notin W
  BY DEF SumInv, Within
<1>2. IsFiniteSet(W \cup {To(r, q)}) /\ Cardinality(W \cup {To(r, q)}) = Cardinality(W) + 1
  <2> HIDE DEF W
  <2> QED
    BY <1>1, FS_AddElement
<1>3. stats[r] \in [files : Nat, dirs : Nat, links : Nat] /\ r \in DOMAIN stats
  BY DEF LocalInv, LocalTypeOK
<1>4. stats'[r].files + stats'[r].dirs + stats'[r].links
        = stats[r].files + stats[r].dirs + stats[r].links + 1
  BY <1>3
<1> QED
  BY <1>2, <1>4 DEF SumInv

\* The directories that were open before.
LEMMA DueVisited ==
  ASSUME LocalInv, CopyInv, NEW r \in Runs, NEW q, Makes(r, q, disk'[To(r, q)]),
         r \notin changed', DueInv(r), NEW i \in 1 .. Len(stack[r]), NEW g,
         g = Visited(r, q)[i]
  PROVE  DueOf(g, r)'
<1> DEFINE k == Len(stack[r])
           f == stack[r][i]
           last == stack[r][k]
<1>1. /\ q \in Path /\ q \in NextEntries(r) /\ localPc[r] = "copying" /\ target' = target
      /\ DOMAIN disk' = DOMAIN disk \cup {To(r, q)} /\ To(r, q) \notin DOMAIN disk
      /\ \A p \in DOMAIN disk : disk'[p] = disk[p]
      /\ \A x \in Path : /\ To(r, x)' = To(r, x)
                         /\ To(r, x) \in DOMAIN disk' <=> To(r, x) \in DOMAIN disk \/ x = q
      /\ \A x \in Path : KeptAt(From(x))
  BY MadeByRun DEF Makes
<1>2. stack[r] # <<>> /\ i \in Nat /\ i # 0 /\ i <= k
  BY EmptySeq DEF LocalInv, LocalTypeOK
<1>3. /\ k \in Nat \ {0} /\ last \in Frame /\ last.dir \in Path
      /\ Last(q) \in Name /\ q = Append(last.dir, Last(q))
      /\ \A j \in 1 .. k - 1 : Visited(r, q)[j] = stack[r][j]
      /\ Visited(r, q)[k].dir = last.dir /\ Visited(r, q)[k].mode = last.mode
      /\ Visited(r, q)[k].due = last.due \ {Last(q)}
      /\ Visited(r, q)[k].seen = last.seen \cup {Last(q)}
  BY <1>1, <1>2, VisitFacts
<1>4. f \in Frame /\ f.dir \in Path
  <2>1. f \in Frame
    BY ElementOfSeq DEF LocalInv, LocalTypeOK
  <2> QED
    BY <2>1 DEF Frame
<1>5. /\ f.mode = disk[From(f.dir)].mode /\ disk[To(r, f.dir)].mode = "writable"
      /\ \A n \in Name :
           /\ From(Append(f.dir, n)) \in DOMAIN disk => n \in f.due \cup f.seen
           /\ n \in f.due => /\ From(Append(f.dir, n)) \in DOMAIN disk
                             /\ To(r, Append(f.dir, n)) \notin DOMAIN disk
           /\ n \in f.seen => To(r, Append(f.dir, n)) \in DOMAIN disk
  BY DEF DueInv
<1>6. /\ From(f.dir) \in DOMAIN disk /\ To(r, f.dir) \in DOMAIN disk
      /\ Len(f.dir) = i - 1 /\ Len(last.dir) = k - 1
  <2>1. ChainInv(r)
    BY DEF CopyInv, RunInv
  <2>2. \A j \in 1 .. k : /\ Len(stack[r][j].dir) = j - 1
                          /\ From(stack[r][j].dir) \in DOMAIN disk
                          /\ To(r, stack[r][j].dir) \in DOMAIN disk
    BY <2>1 DEF ChainInv, LocalInv, FramesOwned
  <2>3. i \in 1 .. k /\ k \in 1 .. k
    BY <1>2, <1>3
  <2> HIDE DEF k
  <2> QED
    BY <2>2, <2>3
<1>7. \A n \in Name : Append(f.dir, n) \in Path /\ (Append(f.dir, n) = q <=> i = k /\ n = Last(q))
  <2> TAKE n \in Name
  <2>1. Append(f.dir, n) \in Path /\ Front(Append(f.dir, n)) = f.dir /\ Last(Append(f.dir, n)) = n
    BY <1>4, AppendPath
  <2>2. Front(q) = last.dir
    BY <1>3, AppendPath
  <2>3. i = k => f.dir = last.dir
    OBVIOUS
  <2>4. f.dir = last.dir => i = k
    BY <1>2, <1>3, <1>6
  <2> QED
    BY <1>3, <2>1, <2>2, <2>3, <2>4
<1>8. /\ g.dir = f.dir /\ g.mode = f.mode
      /\ \A n \in Name : /\ n \in g.due <=> n \in f.due /\ Append(f.dir, n) # q
                         /\ n \in g.seen <=> n \in f.seen \/ Append(f.dir, n) = q
  <2>1. CASE i = k
    BY <1>3, <1>7, <2>1
  <2>2. CASE i # k
    <3>1. i \in 1 .. k - 1
      BY <1>2, <1>3, <2>2
    <3>2. g = f
      BY <1>3, <3>1
    <3> QED
      BY <1>7, <2>2, <3>2
  <2> QED
    BY <2>1, <2>2
<1> HIDE DEF f, last, k
<1>9. /\ f.mode = disk'[From(f.dir)].mode /\ disk'[To(r, f.dir)].mode = "writable"
  BY <1>1, <1>4, <1>5, <1>6 DEF KeptAt
<1>10. \A n \in Name :
         /\ From(Append(f.dir, n)) \in DOMAIN disk' => n \in g.due \cup g.seen
         /\ n \in g.due => /\ From(Append(f.dir, n)) \in DOMAIN disk'
                           /\ To(r, Append(f.dir, n)) \notin DOMAIN disk'
         /\ n \in g.seen => To(r, Append(f.dir, n)) \in DOMAIN disk'
  <2> TAKE n \in Name
  <2> DEFINE x == Append(f.dir, n)
  <2>1. x \in Path /\ KeptAt(From(x))
    BY <1>1, <1>7
  <2>2. To(r, x) \in DOMAIN disk' <=> To(r, x) \in DOMAIN disk \/ x = q
    BY <1>1, <2>1
  <2> QED
    BY <1>5, <1>8, <2>1, <2>2 DEF KeptAt
<1>11. \A x : To(r, x)' = To(r, x)
  BY <1>1 DEF To
<1> QED
  BY <1>8, <1>9, <1>10, <1>11 DEF DueOf

-----------------------------------------------------------------------------
(***************************************************************************)
(* The run that makes an entry: a directory, then a file or a symlink.     *)
(***************************************************************************)
LEMMA DirectoryMade ==
  ASSUME LocalInv, NEW r \in Runs, CopyDirectory(r)
  PROVE  \E q, f :
           /\ Makes(r, q, disk'[To(r, q)]) /\ disk[From(q)].kind = "dir"
           /\ disk'[To(r, q)].kind = "dir" /\ disk'[To(r, q)].mode = "writable"
           /\ f \in Frame /\ f.dir = q /\ f.due = Children(disk', From(q)) /\ f.seen = {}
           /\ f.mode = disk[From(q)].mode
           /\ Len(stack'[r]) = Len(stack[r]) + 1 /\ stack'[r][Len(stack[r]) + 1] = f
           /\ \A i \in 1 .. Len(stack[r]) : /\ stack'[r][i] = Visited(r, q)[i]
                                            /\ stack'[r][i].dir = stack[r][i].dir
           /\ stats' = [stats EXCEPT ![r].dirs = @ + 1]
           /\ \A o \in Runs \ {r} : stack'[o] = stack[o] /\ stats'[o] = stats[o]
<1>1. PICK q \in NextEntries(r) :
        /\ From(q) \in DOMAIN disk /\ disk[From(q)].kind = "dir"
        /\ CanCreate(To(r, q))
        /\ disk' = With(To(r, q), [kind |-> "dir", data |-> NoData, mode |-> "writable", by |-> r])
        /\ stack' = [stack EXCEPT ![r] = Append(Visited(r, q),
                       [dir |-> q, due |-> Children(disk', From(q)), seen |-> {},
                        mode |-> disk[From(q)].mode])]
        /\ stats' = [stats EXCEPT ![r].dirs = @ + 1]
        /\ Touches(To(r, q), r)
  BY DEF CopyDirectory, CanCreateDirectory, ModeWhileCopying
<1>2. LocalGoes(r, "copying", "copying") /\ localPc[r] = "copying"
  BY DEF CopyDirectory, LocalGoes
<1> DEFINE node == [kind |-> "dir", data |-> NoData, mode |-> "writable", by |-> r]
           g == [dir |-> q, due |-> Children(disk', From(q)), seen |-> {},
                 mode |-> disk[From(q)].mode]
           k == Len(stack[r])
<1>3. /\ q \in Path /\ Visited(r, q) \in Seq(Frame) /\ Len(Visited(r, q)) = k
      /\ \A i \in 1 .. k : Visited(r, q)[i].dir = stack[r][i].dir
  BY <1>2, EntryFacts DEF LocalInv
<1>4. disk'[To(r, q)] = node /\ node \in Node
  BY <1>1, MadeOnDisk DEF Node, Mode
<1>5. disk[From(q)] \in Node
  BY <1>1 DEF LocalInv, LocalTypeOK
<1>6. node.data = disk[From(q)].data /\ disk[From(q)].mode \in Mode
  BY <1>1, <1>5 DEF Node
<1>7. Makes(r, q, disk'[To(r, q)])
  BY <1>1, <1>2, <1>4, <1>6 DEF Makes
<1>8. g \in Frame /\ g.dir = q /\ g.due = Children(disk', From(q)) /\ g.seen = {}
      /\ g.mode = disk[From(q)].mode
  BY <1>3, <1>6 DEF Frame, Children
<1>9. /\ stack'[r] = Append(Visited(r, q), g)
      /\ \A o \in Runs \ {r} : stack'[o] = stack[o] /\ stats'[o] = stats[o]
  BY <1>1 DEF LocalInv, LocalTypeOK
<1> HIDE DEF g, node, k
<1>10. /\ Len(stack'[r]) = k + 1 /\ stack'[r][k + 1] = g
       /\ \A i \in 1 .. k : stack'[r][i] = Visited(r, q)[i]
  BY <1>3, <1>8, <1>9, AppendProperties
<1>11. /\ disk[From(q)].kind = "dir"
       /\ disk'[To(r, q)].kind = "dir" /\ disk'[To(r, q)].mode = "writable"
       /\ Len(stack'[r]) = Len(stack[r]) + 1 /\ stack'[r][Len(stack[r]) + 1] = g
       /\ \A i \in 1 .. Len(stack[r]) : /\ stack'[r][i] = Visited(r, q)[i]
                                        /\ stack'[r][i].dir = stack[r][i].dir
  BY <1>1, <1>3, <1>4, <1>10 DEF k, node
<1> WITNESS q, g
<1> QED
  BY <1>1, <1>7, <1>8, <1>9, <1>11

\* A directory is copied: it is open now, and its own entries are due.
LEMMA DirectoryRun ==
  ASSUME LocalInv, LocalInv', CopyInv, NEW r \in Runs, CopyDirectory(r)
  PROVE  RunInv(r)'
<1> DEFINE k == Len(stack[r])
<1>1. PICK q, f :
           /\ Makes(r, q, disk'[To(r, q)]) /\ disk[From(q)].kind = "dir"
           /\ disk'[To(r, q)].kind = "dir" /\ disk'[To(r, q)].mode = "writable"
           /\ f \in Frame /\ f.dir = q /\ f.due = Children(disk', From(q)) /\ f.seen = {}
           /\ f.mode = disk[From(q)].mode
           /\ Len(stack'[r]) = k + 1 /\ stack'[r][k + 1] = f
           /\ \A i \in 1 .. k : /\ stack'[r][i] = Visited(r, q)[i]
                                /\ stack'[r][i].dir = stack[r][i].dir
           /\ stats' = [stats EXCEPT ![r].dirs = @ + 1]
  BY DirectoryMade
<1>2. /\ q \in Path /\ localPc[r] = "copying" /\ localPc'[r] = "copying" /\ target' = target
      /\ DOMAIN disk' = DOMAIN disk \cup {To(r, q)} /\ To(r, q) \notin DOMAIN disk
      /\ \A p \in DOMAIN disk : disk'[p] = disk[p]
      /\ ~IsPrefix(target[r], Source)
      /\ \A x \in Path : /\ To(r, x)' = To(r, x)
                         /\ To(r, x) \in DOMAIN disk' <=> To(r, x) \in DOMAIN disk \/ x = q
      /\ r \notin changed' => /\ r \notin changed /\ ~IsPrefix(Source, To(r, q))
                              /\ \A p \in Path : IsPrefix(Source, p) => KeptAt(p)
                              /\ \A x \in Path : KeptAt(From(x))
  <2>1. Makes(r, q, disk'[To(r, q)])
    BY <1>1
  <2> QED
    BY <2>1, MadeByRun, Zenon
<1>3. /\ q \in NextEntries(r) /\ From(q) \in DOMAIN disk /\ disk'[To(r, q)].by = r
      /\ RunInv(r) /\ Tree(disk) /\ Tree(disk')
      /\ DOMAIN disk \subseteq Path /\ DOMAIN disk' \subseteq Path
  BY <1>1, MadeOnDisk DEF Makes, CopyInv, LocalInv, LocalTypeOK
<1>4. /\ k \in Nat /\ stack'[r] # <<>> /\ \A x : To(r, x)' = To(r, x)
      /\ \A i \in 1 .. Len(stack'[r]) : i \in 1 .. k \/ (i = k + 1 /\ stack'[r][i] = f)
  BY <1>1, <1>2, LenProperties, EmptySeq DEF LocalInv, LocalTypeOK, To
<1>5. stack[r] = <<>> => k = 0 /\ q = <<>> /\ To(r, q) = target[r]
  BY <1>2, <1>3, EntryFacts, EmptySeq DEF LocalInv, NextEntries
<1>6. stack[r] # <<>> =>
        /\ k # 0 /\ Last(q) \in Name /\ q = Append(stack[r][k].dir, Last(q))
        /\ stack[r][k].dir \in Path
        /\ \A i \in 1 .. k - 1 : stack'[r][i] = stack[r][i]
        /\ stack'[r][k].due = stack[r][k].due \ {Last(q)}
  BY <1>1, <1>2, <1>3, <1>4, VisitFacts
<1>7. RootInv(r)'
  <2>1. target[r] \in DOMAIN disk' /\ disk'[target[r]].by = r
    <3>1. stack[r] # <<>> => target[r] \in DOMAIN disk /\ disk[target[r]].by = r
      BY <1>2, <1>3 DEF RunInv, RootInv, Begun
    <3> QED
      BY <1>2, <1>3, <1>5, <3>1
  <2>2. Source \in DOMAIN disk' /\ disk'[Source].kind = "dir"
    BY <1>2, <1>3 DEF RunInv, RootInv, Inspected
  <2> QED
    BY <1>2, <1>4, <2>1, <2>2 DEF RootInv, Fresh, Begun
<1>8. ChainInv(r)'
  <2> SUFFICES ASSUME NEW i \in 1 .. Len(stack'[r])
               PROVE  LET x == stack'[r][i].dir
                      IN /\ Len(x) = i - 1
                         /\ i > 1 => \E n \in Name : x = Append(stack'[r][i - 1].dir, n)
                         /\ From(x) \in DOMAIN disk' /\ disk'[From(x)].kind = "dir"
                         /\ disk'[To(r, x)].kind = "dir"
    BY <1>4 DEF ChainInv
  <2>1. CASE i \in 1 .. k
    <3>1. /\ Len(stack[r][i].dir) = i - 1
          /\ i > 1 => \E n \in Name : stack[r][i].dir = Append(stack[r][i - 1].dir, n)
          /\ From(stack[r][i].dir) \in DOMAIN disk /\ disk[From(stack[r][i].dir)].kind = "dir"
          /\ disk[To(r, stack[r][i].dir)].kind = "dir" /\ To(r, stack[r][i].dir) \in DOMAIN disk
      BY <1>3, <2>1 DEF RunInv, ChainInv, LocalInv, FramesOwned
    <3>2. i > 1 => i - 1 \in 1 .. k
      BY <1>4, <2>1
    <3> QED
      BY <1>1, <1>2, <2>1, <3>1, <3>2, ZenonT(40)
  <2>2. CASE i = k + 1
    <3>1. Len(q) = k
      <4>1. CASE stack[r] = <<>>
        BY <1>5, <4>1, EmptySeq
      <4>2. CASE stack[r] # <<>>
        <5>1. k \in 1 .. k
          BY <1>4, <1>6, <4>2
        <5>2. Len(stack[r][k].dir) = k - 1
          BY <1>3, <5>1 DEF RunInv, ChainInv
        <5> QED
          BY <1>4, <1>6, <4>2, <5>2, AppendPath
      <4> QED
        BY <4>1, <4>2
    <3>2. i > 1 => \E n \in Name : q = Append(stack'[r][i - 1].dir, n)
      <4>1. i > 1 => stack[r] # <<>> /\ i - 1 = k /\ k \in 1 .. k
        BY <1>4, <1>5, <2>2
      <4>2. i > 1 => Last(q) \in Name /\ q = Append(stack'[r][k].dir, Last(q))
        BY <1>1, <1>6, <4>1
      <4> QED
        BY <4>1, <4>2
    <3> QED
      BY <1>1, <1>2, <1>3, <1>4, <2>2, <3>1, <3>2
  <2> QED
    BY <1>4, <2>1, <2>2
<1>9. GrowInv(r)'
  <2> SUFFICES ASSUME IntoItself(r)
               PROVE  \E i \in 1 .. Len(stack'[r]) : \E n \in stack'[r][i].due :
                        LET p == From(Append(stack'[r][i].dir, n))
                        IN IsPrefix(p, target[r]) \/ \E j \in 1 .. i : p = To(r, stack'[r][j].dir)
    BY <1>2, <1>4 DEF GrowInv, IntoItself
  <2>1. /\ target[r] \in Path /\ target[r] \in DOMAIN disk' /\ Source \in Path
        /\ \A j \in 1 .. k : To(r, stack[r][j].dir) \in DOMAIN disk
    BY <1>2, <1>4, <1>7, PathsOfRun DEF RootInv, Begun, LocalInv, FramesOwned
  \* A strict prefix of the target, below the source, has the next one in it.
  <2>2. ASSUME NEW x \in Path, IsPrefix(From(x), target[r]), From(x) # target[r]
        PROVE  \E n \in Children(disk', From(x)) : IsPrefix(From(Append(x, n)), target[r])
    <3>1. From(x) \in Path
      BY <1>2, PathsOfRun
    <3>2. PICK y \in Path : target[r] = From(x) \o y
      BY <2>1, <2>2, <3>1, PrefixPath
    <3>3. y # <<>>
      BY <2>2, <3>1, <3>2, PathFacts
    <3>4. Head(y) \in Name /\ Tail(y) \in Path /\ y = <<Head(y)>> \o Tail(y)
      BY <3>3, HeadTailProperties DEF Path
    <3>5. Append(From(x), Head(y)) = From(x) \o <<Head(y)>> /\ <<Head(y)>> \in Path
      BY <3>1, <3>4, AppendIsConcat DEF Path
    <3>6. target[r] = Append(From(x), Head(y)) \o Tail(y) /\ Append(From(x), Head(y)) \in Path
      <4>1. From(x) \o (<<Head(y)>> \o Tail(y)) = (From(x) \o <<Head(y)>>) \o Tail(y)
        <5> DEFINE h == <<Head(y)>>
        <5>1. h \in Seq(Name) /\ From(x) \in Seq(Name) /\ Tail(y) \in Seq(Name)
          BY <3>1, <3>4, <3>5 DEF Path
        <5> HIDE DEF h
        <5>2. From(x) \o (h \o Tail(y)) = (From(x) \o h) \o Tail(y)
          BY <5>1, ConcatAssociative
        <5> QED
          BY <5>2 DEF h
      <4> QED
        BY <3>1, <3>2, <3>4, <3>5, <4>1, AppendPath
    <3>7. IsPrefix(Append(From(x), Head(y)), target[r])
      BY <2>1, <3>4, <3>6, PrefixPath
    <3>8. Append(From(x), Head(y)) \in DOMAIN disk'
      BY <1>3, <2>1, <3>6, <3>7, Above
    <3>9. From(Append(x, Head(y))) = Append(From(x), Head(y))
      BY <1>2, <3>4, PathsOfRun
    <3> QED
      BY <3>4, <3>7, <3>8, <3>9 DEF Children
  <2>3. CASE stack[r] = <<>>
    <3>1. IsPrefix(From(q), target[r]) /\ From(q) # target[r]
      BY <1>2, <1>5, <2>1, <2>3, PathsOfRun, PrefixOrder, PrefixAppend DEF IntoItself
    <3>2. PICK n \in Children(disk', From(q)) : IsPrefix(From(Append(q, n)), target[r])
      BY <1>2, <2>2, <3>1
    <3> QED
      BY <1>1, <1>4, <3>2
  <2>4. CASE stack[r] # <<>>
    <3>0. PICK i \in 1 .. k : \E n \in stack[r][i].due :
            LET p == From(Append(stack[r][i].dir, n))
            IN IsPrefix(p, target[r]) \/ \E j \in 1 .. i : p = To(r, stack[r][j].dir)
      BY <1>2, <1>3, <2>4 DEF RunInv, GrowInv
    <3>1. PICK n \in stack[r][i].due :
            LET p == From(Append(stack[r][i].dir, n))
            IN IsPrefix(p, target[r]) \/ \E j \in 1 .. i : p = To(r, stack[r][j].dir)
      BY <3>0
    <3> DEFINE p == From(Append(stack[r][i].dir, n))
    <3>2. i \in Nat /\ \A j \in 1 .. i : j \in 1 .. k
      BY <1>4
    <3>3. CASE n \in stack'[r][i].due
      <4>1. stack'[r][i].dir = stack[r][i].dir /\ i \in 1 .. Len(stack'[r])
        BY <1>1, <1>4
      <4>2. IsPrefix(p, target[r]) \/ \E j \in 1 .. i : p = To(r, stack'[r][j].dir)
        BY <1>1, <3>1, <3>2
      <4> QED
        BY <3>3, <4>1, <4>2
    <3>4. CASE n \notin stack'[r][i].due
      <4>1. i = k /\ n = Last(q) /\ q = Append(stack[r][k].dir, n) /\ p = From(q)
        <5>1. i \in 1 .. k - 1 \/ i = k
          BY <1>4
        <5> QED
          BY <1>6, <2>4, <3>4, <5>1
      <4> HIDE DEF p
      <4>2. CASE IsPrefix(p, target[r]) /\ p # target[r]
        <5>1. PICK m \in Children(disk', From(q)) : IsPrefix(From(Append(q, m)), target[r])
          BY <1>2, <2>2, <4>1, <4>2
        <5> QED
          BY <1>1, <1>4, <5>1
      <4>3. CASE \E j \in 1 .. i : p = To(r, stack[r][j].dir)
        <5>1. PICK j \in 1 .. k : p = To(r, stack[r][j].dir)
          BY <4>1, <4>3
        <5>2. /\ j + 1 \in 1 .. Len(stack'[r]) /\ j + 1 > 1 /\ (j + 1) - 1 = j
              /\ stack'[r][j].dir = stack[r][j].dir
          BY <1>1, <1>4
        <5>3. PICK m \in Name : stack'[r][j + 1].dir = Append(stack'[r][j].dir, m)
          <6>1. \A x \in 1 .. Len(stack'[r]) :
                  x > 1 => \E m \in Name : stack'[r][x].dir = Append(stack'[r][x - 1].dir, m)
            BY <1>8 DEF ChainInv
          <6> QED
            BY <5>2, <6>1
        <5>4. To(r, stack'[r][j + 1].dir) \in DOMAIN disk'
          BY <1>4, <5>2 DEF LocalInv, FramesOwned
        <5>5. stack[r][j].dir \in Path
          <6>1. stack[r][j] \in Frame
            BY ElementOfSeq DEF LocalInv, LocalTypeOK
          <6> QED
            BY <6>1 DEF Frame
        <5>6. To(r, stack'[r][j + 1].dir) = Append(From(q), m) /\ Append(From(q), m) = From(Append(q, m))
          <6>1. stack'[r][j + 1].dir = Append(stack[r][j].dir, m) /\ p = From(q)
            BY <4>1, <5>2, <5>3
          <6>2. To(r, Append(stack[r][j].dir, m)) = Append(To(r, stack[r][j].dir), m)
            <7>1. localPc[r] # "off" /\ m \in Name /\ stack[r][j].dir \in Path
              BY <1>2, <5>3, <5>5
            <7> QED
              BY <7>1, PathsOfRun
          <6>3. Append(From(q), m) = From(Append(q, m))
            BY <1>2, <5>3, PathsOfRun
          <6> QED
            BY <5>1, <6>1, <6>2, <6>3
        <5>7. m \in Children(disk', From(q))
          BY <5>3, <5>4, <5>6 DEF Children
        <5>8. m \in stack'[r][k + 1].due /\ stack'[r][k + 1].dir = q /\ k + 1 \in 1 .. Len(stack'[r])
              /\ j + 1 \in 1 .. k + 1
          BY <1>1, <1>4, <5>7
        <5> QED
          BY <5>6, <5>8
      <4>4. CASE p = target[r]
        <5>1. 1 \in 1 .. i /\ stack[r][1].dir = <<>>
          <6>1. 1 \in 1 .. k
            BY <1>4, <1>6, <2>4
          <6>2. Len(stack[r][1].dir) = 0 /\ stack[r][1] \in Frame
            BY <1>3, <6>1, ElementOfSeq DEF RunInv, ChainInv, LocalInv, LocalTypeOK
          <6> QED
            BY <4>1, <6>1, <6>2, EmptySeq DEF Frame, Path
        <5>2. p = To(r, stack[r][1].dir)
          BY <1>2, <4>4, <5>1, PathsOfRun
        <5> QED
          BY <4>3, <5>1, <5>2
      <4> QED
        BY <3>1, <4>2, <4>3, <4>4 DEF p
    <3> QED
      BY <3>3, <3>4
  <2> QED
    BY <2>3, <2>4
<1>10. r \notin changed' => IsRepository'
  BY <1>2, <1>3, RepositoryKept DEF RunInv, Inspected
<1>11. ASSUME Calm(r)' PROVE Mirror(r)' /\ DueInv(r)' /\ SumInv(r)'
  <2>1. r \notin changed' /\ r \notin changed /\ ~IntoItself(r)
    BY <1>2, <1>11 DEF Calm, IntoItself
  <2>2. Mirror(r) /\ DueInv(r) /\ SumInv(r)
    BY <1>2, <1>5, <2>1, MirrorBefore
  <2>3. /\ \A x \in Path : OpenDir(r, x) => OpenDir(r, x)'
        /\ OpenDir(r, q)'
    <3>1. \A x \in Path : OpenDir(r, x) => \E i \in 1 .. Len(stack'[r]) : stack'[r][i].dir = x
      BY <1>1, <1>4 DEF OpenDir
    <3>2. k + 1 \in 1 .. Len(stack'[r]) /\ stack'[r][k + 1].dir = q
      BY <1>1, <1>4
    <3> QED
      BY <3>1, <3>2 DEF OpenDir
  <2>4. Mirror(r)' /\ Within(target[r])' = Within(target[r]) \cup {To(r, q)}
    BY <1>1, <2>1, <2>2, <2>3, MirrorMade
  <2>5. SumInv(r)'
    BY <1>1, <1>2, <2>2, <2>4, SumMade
  <2>6. DueInv(r)'
    <3>1. ASSUME NEW i \in 1 .. Len(stack'[r]), NEW g, g = stack'[r][i] PROVE DueOf(g, r)'
      <4>1. CASE i \in 1 .. k
        BY <1>1, <2>1, <2>2, <3>1, <4>1, DueVisited
      <4>2. CASE i = k + 1
        <5>1. g = f
          BY <1>1, <3>1, <4>2
        <5>2. /\ g.dir = q /\ g.seen = {} /\ g.due = Children(disk', From(q))
              /\ g.mode = disk'[From(q)].mode /\ disk'[To(r, q)].mode = "writable"
          BY <1>1, <1>2, <1>3, <5>1
        <5>3. \A n \in Name : /\ From(Append(q, n)) = Append(From(q), n)
                              /\ To(r, Append(q, n)) \notin DOMAIN disk'
          <6> TAKE n \in Name
          <6>1. /\ Append(q, n) \in Path /\ From(Append(q, n)) = Append(From(q), n)
                /\ To(r, Append(q, n)) = Append(To(r, q), n) /\ To(r, q) \in Path
            <7>1. q \in Path /\ n \in Name /\ localPc[r] # "off"
              BY <1>2
            <7> QED
              BY <7>1, PathsOfRun
          <6>2. Append(q, n) # q
            BY <1>2, AppendPath, LenProperties DEF Path
          <6>3. To(r, Append(q, n)) \notin DOMAIN disk
            <7>1. /\ Append(To(r, q), n) # <<>> /\ Front(Append(To(r, q), n)) = To(r, q)
              BY <6>1, AppendPath
            <7>2. \A p \in DOMAIN disk : p # <<>> => Front(p) \in DOMAIN disk
              BY <1>3 DEF Tree
            <7> QED
              BY <1>2, <6>1, <7>1, <7>2
          <6> QED
            BY <1>2, <6>1, <6>2, <6>3
        <5>4. \A n \in Name : n \in g.due <=> From(Append(q, n)) \in DOMAIN disk'
          BY <5>2, <5>3 DEF Children
        <5> QED
          BY <1>4, <5>2, <5>3, <5>4 DEF DueOf
      <4> QED
        BY <1>4, <4>1, <4>2
    <3> QED
      BY <1>4, <3>1 DEF DueInv, DueOf
  <2> QED
    BY <2>4, <2>5, <2>6
<1> QED
  BY <1>2, <1>7, <1>8, <1>9, <1>10, <1>11 DEF RunInv

\* What is known of an entry that is no directory, whichever kind it is.
LEMMA LeafMade ==
  ASSUME LocalInv, NEW r \in Runs, CopyLeaf(r)
  PROVE  \E q :
           /\ Makes(r, q, disk'[To(r, q)]) /\ disk[From(q)].kind # "dir"
           /\ disk'[To(r, q)].kind # "dir"
           /\ stack'[r] = Visited(r, q)
           /\ \/ stats' = [stats EXCEPT ![r].files = @ + 1]
              \/ stats' = [stats EXCEPT ![r].links = @ + 1]
           /\ \A o \in Runs \ {r} : stack'[o] = stack[o] /\ stats'[o] = stats[o]
<1>1. PICK q \in NextEntries(r) :
        /\ From(q) \in DOMAIN disk /\ disk[From(q)].kind \in {"file", "link"}
        /\ CanCreate(To(r, q))
        /\ disk' = With(To(r, q), [disk[From(q)] EXCEPT !.mode = "writable", !.by = r])
        /\ stack' = [stack EXCEPT ![r] = Visited(r, q)]
        /\ stats' = IF disk[From(q)].kind = "file" THEN [stats EXCEPT ![r].files = @ + 1]
                    ELSE [stats EXCEPT ![r].links = @ + 1]
        /\ Touches(To(r, q), r)
  BY DEF CopyLeaf, LeafCopied
<1>2. LocalGoes(r, "copying", "copying")
  BY DEF CopyLeaf, LocalGoes
<1> DEFINE node == [disk[From(q)] EXCEPT !.mode = "writable", !.by = r]
<1>3. disk[From(q)] \in Node
  BY <1>1 DEF LocalInv, LocalTypeOK
<1>4. /\ node \in Node /\ node.by = r /\ node.kind = disk[From(q)].kind
      /\ node.data = disk[From(q)].data
  BY <1>1, <1>3 DEF Node, Mode
<1>5. disk'[To(r, q)] = node
  <2> HIDE DEF node
  <2>1. disk' = With(To(r, q), node)
    BY <1>1 DEF node
  <2> QED
    BY <1>1, <2>1, MadeOnDisk
<1>6. Makes(r, q, disk'[To(r, q)])
  BY <1>1, <1>2, <1>4, <1>5 DEF Makes
<1>7. /\ stack'[r] = Visited(r, q)
      /\ \A o \in Runs \ {r} : stack'[o] = stack[o] /\ stats'[o] = stats[o]
  BY <1>1 DEF LocalInv, LocalTypeOK
<1>8. /\ \/ stats' = [stats EXCEPT ![r].files = @ + 1]
         \/ stats' = [stats EXCEPT ![r].links = @ + 1]
      /\ disk[From(q)].kind # "dir"
      /\ disk'[To(r, q)].kind # "dir"
  BY <1>1, <1>4, <1>5
<1> HIDE DEF node
<1> WITNESS q
<1> QED
  BY <1>6, <1>7, <1>8

\* An entry that is no directory is copied, and no longer due.
LEMMA LeafRun ==
  ASSUME LocalInv, LocalInv', CopyInv, NEW r \in Runs, CopyLeaf(r)
  PROVE  RunInv(r)'
<1> DEFINE k == Len(stack[r])
<1>1. PICK q :
           /\ Makes(r, q, disk'[To(r, q)]) /\ disk[From(q)].kind # "dir"
           /\ disk'[To(r, q)].kind # "dir"
           /\ stack'[r] = Visited(r, q)
           /\ \/ stats' = [stats EXCEPT ![r].files = @ + 1]
              \/ stats' = [stats EXCEPT ![r].links = @ + 1]
  BY LeafMade
<1>2. /\ q \in Path /\ localPc[r] = "copying" /\ localPc'[r] = "copying" /\ target' = target
      /\ DOMAIN disk' = DOMAIN disk \cup {To(r, q)} /\ To(r, q) \notin DOMAIN disk
      /\ \A p \in DOMAIN disk : disk'[p] = disk[p]
      /\ ~IsPrefix(target[r], Source)
      /\ r \notin changed' => /\ r \notin changed /\ ~IsPrefix(Source, To(r, q))
                              /\ \A p \in Path : IsPrefix(Source, p) => KeptAt(p)
  <2>1. Makes(r, q, disk'[To(r, q)])
    BY <1>1
  <2> QED
    BY <2>1, MadeByRun
<1>3. /\ q \in NextEntries(r) /\ From(q) \in DOMAIN disk /\ disk'[To(r, q)].by = r
      /\ RunInv(r) /\ Tree(disk)
      /\ DOMAIN disk \subseteq Path
  BY <1>1, MadeOnDisk DEF Makes, CopyInv, LocalInv, LocalTypeOK
<1>4. stack[r] # <<>>
  <2> SUFFICES ASSUME stack[r] = <<>> PROVE FALSE
    OBVIOUS
  <2>1. q = <<>>
    BY <1>3 DEF NextEntries
  <2>2. From(q) = Source
    BY <1>2, <2>1, PathsOfRun
  <2> QED
    BY <1>1, <1>2, <1>3, <2>2 DEF RunInv, RootInv, Inspected
<1>5. /\ k \in Nat \ {0} /\ Len(stack'[r]) = k /\ stack'[r] # <<>> /\ Last(q) \in Name
      /\ q = Append(stack[r][k].dir, Last(q))
      /\ \A i \in 1 .. k - 1 : stack'[r][i] = stack[r][i]
      /\ stack'[r][k].due = stack[r][k].due \ {Last(q)}
      /\ stack'[r][k].dir = stack[r][k].dir
  BY <1>1, <1>2, <1>3, <1>4, VisitFacts, EmptySeq
<1>6. /\ \A x : To(r, x)' = To(r, x)
      /\ \A i \in 1 .. k : (i \in 1 .. k - 1 \/ i = k) /\ stack'[r][i].dir = stack[r][i].dir
  BY <1>2, <1>5 DEF To
<1>7. RootInv(r)'
  BY <1>2, <1>3, <1>4, <1>5 DEF RunInv, RootInv, Fresh, Begun, Inspected
<1>8. ChainInv(r)'
  <2> SUFFICES ASSUME NEW i \in 1 .. k
               PROVE  LET x == stack'[r][i].dir
                      IN /\ Len(x) = i - 1
                         /\ i > 1 => \E n \in Name : x = Append(stack'[r][i - 1].dir, n)
                         /\ From(x) \in DOMAIN disk' /\ disk'[From(x)].kind = "dir"
                         /\ disk'[To(r, x)].kind = "dir"
    BY <1>5, <1>6 DEF ChainInv
  <2>1. /\ Len(stack[r][i].dir) = i - 1
        /\ i > 1 => \E n \in Name : stack[r][i].dir = Append(stack[r][i - 1].dir, n)
        /\ From(stack[r][i].dir) \in DOMAIN disk /\ disk[From(stack[r][i].dir)].kind = "dir"
        /\ disk[To(r, stack[r][i].dir)].kind = "dir" /\ To(r, stack[r][i].dir) \in DOMAIN disk
    BY <1>3 DEF RunInv, ChainInv, LocalInv, FramesOwned
  <2>2. i > 1 => i - 1 \in 1 .. k
    BY <1>5
  <2> QED
    BY <1>2, <1>6, <2>1, <2>2
<1>9. GrowInv(r)'
  <2> SUFFICES ASSUME IntoItself(r)
               PROVE  \E i \in 1 .. k : \E n \in stack'[r][i].due :
                        LET p == From(Append(stack'[r][i].dir, n))
                        IN IsPrefix(p, target[r]) \/ \E j \in 1 .. i : p = To(r, stack'[r][j].dir)
    BY <1>2, <1>5, <1>6 DEF GrowInv, IntoItself
  <2>1. PICK i \in 1 .. k : \E n \in stack[r][i].due :
          LET p == From(Append(stack[r][i].dir, n))
          IN IsPrefix(p, target[r]) \/ \E j \in 1 .. i : p = To(r, stack[r][j].dir)
    BY <1>2, <1>3, <1>4 DEF RunInv, GrowInv
  <2>2. PICK n \in stack[r][i].due :
          LET p == From(Append(stack[r][i].dir, n))
          IN IsPrefix(p, target[r]) \/ \E j \in 1 .. i : p = To(r, stack[r][j].dir)
    BY <2>1
  <2>3. i \in Nat /\ \A j \in 1 .. i : j \in 1 .. k
    BY <1>5
  <2>4. CASE n \in stack'[r][i].due
    BY <1>6, <2>2, <2>3, <2>4
  <2>5. CASE n \notin stack'[r][i].due
    <3>1. From(Append(stack[r][i].dir, n)) = From(q)
      BY <1>5, <1>6, <2>2, <2>5
    <3>2. \A j \in 1 .. k : /\ To(r, stack[r][j].dir) \in DOMAIN disk
                            /\ disk[To(r, stack[r][j].dir)].kind = "dir"
      BY <1>3 DEF RunInv, ChainInv, LocalInv, FramesOwned
    <3>3. IsPrefix(From(q), target[r])
      BY <1>1, <2>2, <2>3, <3>1, <3>2
    <3>4. From(q) \in Path /\ target[r] \in DOMAIN disk
      BY <1>2, <1>3, <1>4, PathsOfRun DEF RunInv, RootInv, Begun
    <3>5. From(q) = target[r]
      BY <1>1, <1>3, <3>3, <3>4, Above
    <3>6. 1 \in 1 .. k /\ Len(stack[r][1].dir) = 0 /\ stack[r][1] \in Frame
      <4>1. 1 \in 1 .. k /\ stack[r] \in Seq(Frame)
        BY <1>5 DEF LocalInv, LocalTypeOK
      <4>2. Len(stack[r][1].dir) = 1 - 1
        BY <1>3, <4>1 DEF RunInv, ChainInv
      <4> QED
        BY <4>1, <4>2, ElementOfSeq
    <3>7. stack[r][1].dir = <<>>
      BY <3>6, EmptySeq DEF Frame, Path
    <3>8. To(r, stack[r][1].dir) = target[r]
      BY <1>2, <3>7, PathsOfRun
    <3> QED
      BY <1>1, <3>2, <3>5, <3>6, <3>8
  <2> QED
    BY <2>4, <2>5
<1>10. r \notin changed' => IsRepository'
  BY <1>2, <1>3, RepositoryKept DEF RunInv, Inspected
<1>11. ASSUME Calm(r)' PROVE Mirror(r)' /\ DueInv(r)' /\ SumInv(r)'
  <2>1. r \notin changed' /\ r \notin changed /\ ~IntoItself(r)
    BY <1>2, <1>11 DEF Calm, IntoItself
  <2>2. Mirror(r) /\ DueInv(r) /\ SumInv(r)
    BY <1>2, <1>4, <2>1, MirrorBefore
  <2>3. \A x \in Path : OpenDir(r, x) => OpenDir(r, x)'
    BY <1>5, <1>6 DEF OpenDir
  <2>4. Mirror(r)' /\ Within(target[r])' = Within(target[r]) \cup {To(r, q)}
    BY <1>1, <2>1, <2>2, <2>3, MirrorMade
  <2>5. SumInv(r)'
    BY <1>1, <1>2, <2>2, <2>4, SumMade
  <2>6. DueInv(r)'
    <3>1. ASSUME NEW i \in 1 .. k, NEW g, g = stack'[r][i] PROVE DueOf(g, r)'
      BY <1>1, <2>1, <2>2, <3>1, DueVisited
    <3> QED
      BY <1>5, <3>1 DEF DueInv, DueOf
  <2> QED
    BY <2>4, <2>5, <2>6
<1> QED
  BY <1>2, <1>7, <1>8, <1>9, <1>10, <1>11 DEF RunInv

-----------------------------------------------------------------------------
(***************************************************************************)
(* A directory is left.                                                    *)
(***************************************************************************)
LEMMA LeaveFacts ==
  ASSUME LocalInv, NEW r \in Runs, LeaveDirectory(r)
  PROVE  \E f, to :
           LET k == Len(stack[r])
           IN /\ k \in Nat \ {0} /\ f = stack[r][k] /\ f \in Frame /\ f.due = {}
              /\ localPc[r] = "copying" /\ target' = target /\ stats' = stats
              /\ to = To(r, f.dir) /\ to \in DOMAIN disk /\ disk[to].by = r
              /\ disk' = [disk EXCEPT ![to].mode = f.mode] /\ disk[to] \in Node
              /\ Len(stack'[r]) = k - 1
              /\ \A i \in 1 .. k - 1 : stack'[r][i] = stack[r][i]
              /\ localPc'[r] = IF k = 1 THEN "copied" ELSE "copying"
              /\ Touches(to, r) /\ changed \subseteq changed'
              /\ r \notin changed' => ~IsPrefix(Source, to)
<1> DEFINE k == Len(stack[r])
           f == stack[r][k]
           to == To(r, f.dir)
<1>1. stack[r] \in Seq(Frame) /\ stack[r] # <<>> /\ localPc[r] = "copying"
  BY DEF LeaveDirectory, LocalGoes, LocalInv, LocalTypeOK
<1>2. k \in Nat \ {0} /\ Last(stack[r]) = f /\ f \in Frame /\ k \in 1 .. k
  BY <1>1, LenProperties, EmptySeq, ElementOfSeq DEF Last
<1>3. Len(Front(stack[r])) = k - 1 /\ \A i \in 1 .. k - 1 : Front(stack[r])[i] = stack[r][i]
  <2>1. Front(stack[r]) = [i \in 1 .. k - 1 |-> stack[r][i]]
    BY <1>1, <1>2 DEF Front
  <2> QED
    BY <1>2, <2>1
<1>4. to \in DOMAIN disk /\ disk[to].by = r /\ disk[to] \in Node
  BY <1>2 DEF LocalInv, FramesOwned, LocalTypeOK
<1>5. /\ f.due = {} /\ target' = target /\ stats' = stats
      /\ disk' = [disk EXCEPT ![to].mode = f.mode]
      /\ stack' = [stack EXCEPT ![r] = Front(@)]
      /\ localPc' = [localPc EXCEPT ![r] = IF k = 1 THEN "copied" ELSE "copying"]
      /\ Touches(to, r)
  <2> HIDE DEF f
  <2> QED
    BY <1>2 DEF LeaveDirectory, LocalGoes
<1>6. /\ stack'[r] = Front(stack[r]) /\ localPc'[r] = IF k = 1 THEN "copied" ELSE "copying"
  BY <1>5 DEF LocalInv, LocalTypeOK
<1>7. /\ changed \subseteq changed'
      /\ r \notin changed' => ~IsPrefix(Source, to)
  <2> HIDE DEF to
  <2> QED
    BY <1>1, <1>5 DEF Touches
<1>8. /\ Len(stack'[r]) = k - 1
      /\ \A i \in 1 .. k - 1 : stack'[r][i] = stack[r][i]
  BY <1>3, <1>6
<1> WITNESS f, to
<1> HIDE DEF to
<1> QED
  BY <1>1, <1>2, <1>4, <1>5, <1>6, <1>7, <1>8 DEF to

\* Setting the mode of a directory disturbs no other run.
LEMMA LeaveOthers ==
  ASSUME LocalInv, NEW r \in Runs, LeaveDirectory(r), NEW o \in Runs \ {r}
  PROVE  Undisturbed(o)
<1>1. PICK f, to :
        /\ target' = target /\ stats' = stats
        /\ to \in DOMAIN disk /\ disk[to].by = r
        /\ disk' = [disk EXCEPT ![to].mode = f.mode] /\ disk[to] \in Node
        /\ Touches(to, r)
  BY LeaveFacts, ZenonT(40)
<1>0. /\ stack'[o] = stack[o] /\ localPc'[o] = localPc[o] /\ changed \subseteq changed'
      /\ o \notin changed' /\ localPc[o] \notin {"off", "inspecting"} =>
           ~IsPrefix(Source, to) /\ ~IsStrictPrefix(target[o], to)
  BY <1>1 DEF LeaveDirectory, LocalGoes, Touches, LocalInv, LocalTypeOK
<1>2. /\ DOMAIN disk' = DOMAIN disk
      /\ \A p \in DOMAIN disk : p # to => disk'[p] = disk[p]
      /\ disk'[to].kind = disk[to].kind /\ disk'[to].by = r
  BY <1>1 DEF Node
<1>3. r # o
  OBVIOUS
<1> QED
  BY <1>0, <1>1, <1>2, <1>3 DEF Undisturbed, KeptAt

\* A directory is left with nothing due and gets the mode of its source.
LEMMA LeaveRun ==
  ASSUME LocalInv, LocalInv', CopyInv, NEW r \in Runs, LeaveDirectory(r)
  PROVE  RunInv(r)' /\ Tree(disk')
<1> DEFINE k == Len(stack[r])
<1>1. PICK f, to :
        /\ k \in Nat \ {0} /\ f = stack[r][k] /\ f \in Frame /\ f.due = {}
        /\ localPc[r] = "copying" /\ target' = target /\ stats' = stats
        /\ to = To(r, f.dir) /\ to \in DOMAIN disk /\ disk[to].by = r
        /\ disk' = [disk EXCEPT ![to].mode = f.mode] /\ disk[to] \in Node
        /\ Len(stack'[r]) = k - 1
        /\ \A i \in 1 .. k - 1 : stack'[r][i] = stack[r][i]
        /\ localPc'[r] = IF k = 1 THEN "copied" ELSE "copying"
        /\ changed \subseteq changed'
        /\ r \notin changed' => ~IsPrefix(Source, to)
  BY LeaveFacts, ZenonT(40)
<1>2. /\ DOMAIN disk' = DOMAIN disk
      /\ \A p \in DOMAIN disk : p # to => disk'[p] = disk[p]
      /\ \A p \in DOMAIN disk : /\ disk'[p].kind = disk[p].kind /\ disk'[p].by = disk[p].by
                                /\ disk'[p].data = disk[p].data
      /\ disk'[to].mode = f.mode
  BY <1>1 DEF Node
<1>3. /\ \A x : To(r, x)' = To(r, x)
      /\ RunInv(r) /\ Tree(disk) /\ DOMAIN disk \subseteq Path /\ f.dir \in Path
      /\ k \in 1 .. k /\ \A i \in 1 .. k - 1 : i \in 1 .. k /\ i # k
      /\ stack[r] # <<>> /\ (stack'[r] = <<>> <=> k = 1)
  BY <1>1, EmptySeq DEF CopyInv, LocalInv, LocalTypeOK, To, Frame
<1>4. Tree(disk')
  BY <1>2, <1>3 DEF Tree
<1>5. RootInv(r)'
  BY <1>1, <1>2, <1>3 DEF RunInv, RootInv, Fresh, Begun, Inspected
<1>6. ChainInv(r)'
  <2> SUFFICES ASSUME NEW i \in 1 .. k - 1
               PROVE  LET x == stack'[r][i].dir
                      IN /\ Len(x) = i - 1
                         /\ i > 1 => \E n \in Name : x = Append(stack'[r][i - 1].dir, n)
                         /\ From(x) \in DOMAIN disk' /\ disk'[From(x)].kind = "dir"
                         /\ disk'[To(r, x)].kind = "dir"
    BY <1>1, <1>3 DEF ChainInv
  <2>1. /\ Len(stack[r][i].dir) = i - 1
        /\ i > 1 => \E n \in Name : stack[r][i].dir = Append(stack[r][i - 1].dir, n)
        /\ From(stack[r][i].dir) \in DOMAIN disk /\ disk[From(stack[r][i].dir)].kind = "dir"
        /\ disk[To(r, stack[r][i].dir)].kind = "dir" /\ To(r, stack[r][i].dir) \in DOMAIN disk
    BY <1>3 DEF RunInv, ChainInv, LocalInv, FramesOwned
  <2>2. i > 1 => i - 1 \in 1 .. k - 1
    BY <1>1
  <2> QED
    BY <1>1, <1>2, <2>1, <2>2, ZenonT(40)
<1>7. GrowInv(r)'
  <2> SUFFICES ASSUME IntoItself(r)
               PROVE  /\ k # 1
                      /\ \E i \in 1 .. k - 1 : \E n \in stack'[r][i].due :
                           LET p == From(Append(stack'[r][i].dir, n))
                           IN IsPrefix(p, target[r]) \/ \E j \in 1 .. i : p = To(r, stack'[r][j].dir)
    BY <1>1, <1>3 DEF GrowInv, IntoItself
  <2>1. PICK i \in 1 .. k : \E n \in stack[r][i].due :
          LET p == From(Append(stack[r][i].dir, n))
          IN IsPrefix(p, target[r]) \/ \E j \in 1 .. i : p = To(r, stack[r][j].dir)
    BY <1>1, <1>3 DEF RunInv, GrowInv
  <2>2. i # k
    BY <1>1, <2>1
  <2>3. i \in 1 .. k - 1 /\ k # 1 /\ \A j \in 1 .. i : j \in 1 .. k - 1
    BY <1>1, <2>2
  <2> QED
    BY <1>1, <2>1, <2>3
<1>8. r \notin changed' => IsRepository'
  <2>1. r \notin changed' => \A p \in Path : IsPrefix(Source, p) => KeptAt(p)
    BY <1>1, <1>2 DEF KeptAt
  <2> QED
    BY <1>1, <1>3, <2>1, RepositoryKept DEF RunInv, Inspected
<1>9. ASSUME Calm(r)' PROVE Mirror(r)' /\ DueInv(r)' /\ SumInv(r)'
  <2>1. r \notin changed' /\ r \notin changed /\ ~IntoItself(r) /\ ~IsPrefix(Source, to)
    BY <1>1, <1>9 DEF Calm, IntoItself
  <2>2. Mirror(r) /\ DueInv(r) /\ SumInv(r)
    BY <1>1, <1>3, <2>1 DEF RunInv, Calm, Begun
  <2>3. /\ \A x \in Path : From(x) # to
        /\ \A x, y \in Path : To(r, x) = To(r, y) => x = y
        /\ \A x \in Path, n \in Name : Append(x, n) \in Path
    BY <1>1, <2>1, PathsOfRun, AppendPath
  <2>4. Within(target[r])' = Within(target[r])
    BY <1>1, <1>2 DEF Within
  <2>5. Mirror(r)'
    <3>1. \A x \in Path : OpenDir(r, x) => OpenDir(r, x)' \/ x = f.dir
      <4>1. \A i \in 1 .. k : i \in 1 .. k - 1 \/ i = k
        BY <1>1
      <4> QED
        BY <1>1, <4>1 DEF OpenDir
    <3>2. \A p \in Within(target[r])' : disk'[p].by = r
      BY <1>2, <2>2, <2>4 DEF Mirror, Within
    <3>3. ASSUME NEW q \in Path, To(r, q) \in DOMAIN disk'
          PROVE  /\ From(q) \in DOMAIN disk'
                 /\ disk'[To(r, q)].kind = disk'[From(q)].kind
                 /\ disk'[To(r, q)].data = disk'[From(q)].data
                 /\ \/ disk'[To(r, q)].kind # "dir" \/ OpenDir(r, q)'
                    \/ disk'[To(r, q)].mode = disk'[From(q)].mode
      <4>1. /\ From(q) \in DOMAIN disk
            /\ disk[To(r, q)].kind = disk[From(q)].kind /\ disk[To(r, q)].data = disk[From(q)].data
            /\ \/ disk[To(r, q)].kind # "dir" \/ OpenDir(r, q)
               \/ disk[To(r, q)].mode = disk[From(q)].mode
        BY <1>2, <2>2, <3>3 DEF Mirror
      <4>2. disk'[From(q)] = disk[From(q)]
        BY <1>2, <2>3, <4>1
      <4>3. f.mode = disk[From(f.dir)].mode
        BY <1>1, <1>3, <2>2 DEF DueInv
      <4>4. CASE q = f.dir
        BY <1>1, <1>2, <3>3, <4>1, <4>2, <4>3, <4>4
      <4>5. CASE q # f.dir
        BY <1>1, <1>2, <1>3, <2>3, <3>1, <3>3, <4>1, <4>2, <4>5
      <4> QED
        BY <4>4, <4>5
    <3>4. ASSUME NEW q \in Path, NEW n \in Name, To(r, q) \in DOMAIN disk', ~OpenDir(r, q)',
                 From(Append(q, n)) \in DOMAIN disk'
          PROVE  To(r, Append(q, n)) \in DOMAIN disk'
      <4>1. CASE q = f.dir
        BY <1>1, <1>2, <1>3, <2>2, <3>4, <4>1 DEF DueInv
      <4>2. CASE q # f.dir
        BY <1>2, <2>2, <3>1, <3>4, <4>2 DEF Mirror
      <4> QED
        BY <4>1, <4>2
    <3> QED
      BY <1>1, <1>3, <2>4, <3>2, <3>3, <3>4 DEF Mirror
  <2>6. DueInv(r)'
    <3> SUFFICES ASSUME NEW i \in 1 .. k - 1, NEW g, g = stack'[r][i] PROVE DueOf(g, r)'
      BY <1>1, <1>3 DEF DueInv, DueOf
    <3>1. g = stack[r][i] /\ i \in 1 .. k /\ i # k
      BY <1>1, <1>3
    <3>2. DueOf(g, r) /\ g.dir \in Path
      <4>1. g \in Frame
        BY <3>1, ElementOfSeq DEF LocalInv, LocalTypeOK
      <4> QED
        BY <2>2, <3>1, <4>1 DEF DueInv, DueOf, Frame
    <3>3. Len(g.dir) = i - 1 /\ Len(f.dir) = k - 1 /\ From(g.dir) \in DOMAIN disk
          /\ To(r, g.dir) \in DOMAIN disk
      BY <1>1, <1>3, <3>1 DEF RunInv, ChainInv, LocalInv, FramesOwned
    <3>4. g.dir # f.dir
      BY <1>1, <3>1, <3>3
    <3>5. disk'[From(g.dir)] = disk[From(g.dir)] /\ disk'[To(r, g.dir)] = disk[To(r, g.dir)]
      BY <1>1, <1>2, <1>3, <2>3, <3>2, <3>3, <3>4
    <3> QED
      BY <1>2, <1>3, <3>2, <3>5 DEF DueOf
  <2>7. SumInv(r)'
    BY <1>1, <2>2, <2>4 DEF SumInv
  <2> QED
    BY <2>5, <2>6, <2>7
<1> QED
  BY <1>1, <1>4, <1>5, <1>6, <1>7, <1>8, <1>9 DEF RunInv

-----------------------------------------------------------------------------
(***************************************************************************)
(* The other steps, and the invariant.                                     *)
(***************************************************************************)
\* The steps of a run that leave the disk and the open directories alone.
LEMMA QuietRun ==
  ASSUME LocalInv, CopyInv, NEW r \in Runs,
         Inspect(r) \/ ChooseTarget(r) \/ EntryFails(r) \/ LocalSucceeds(r) \/ LocalFails(r)
  PROVE  CopyInv'
<1>1. UNCHANGED <<disk, stack, stats, changed, target>>
  BY DEF Inspect, ChooseTarget, EntryFails, LocalSucceeds, LocalFails, LocalGoes
<1>2. /\ Tree(disk') /\ IsRepository' = IsRepository
      /\ \A x, o : To(o, x)' = To(o, x)
      /\ \A o \in Runs : IntoItself(o)' = IntoItself(o)
      /\ \A o \in Runs \ {r} : localPc'[o] = localPc[o]
  BY <1>1 DEF CopyInv, Tree, IsRepository, To, IntoItself,
     Inspect, ChooseTarget, EntryFails, LocalSucceeds, LocalFails, LocalGoes, LocalInv, LocalTypeOK
<1>3. RunInv(r)
  BY DEF CopyInv
<1>4. /\ ChainInv(r) /\ ChainInv(r)'
      /\ Mirror(r)' = Mirror(r) /\ DueInv(r)' = DueInv(r) /\ SumInv(r)' = SumInv(r)
  <2>1. ChainInv(r)' = ChainInv(r)
    BY <1>1 DEF ChainInv, To
  <2>2. Mirror(r)' = Mirror(r)
    BY <1>1 DEF Mirror, Within, OpenDir, To
  <2>3. DueInv(r)' = DueInv(r)
    BY <1>1 DEF DueInv, To
  <2>4. SumInv(r)' = SumInv(r)
    BY <1>1 DEF SumInv, Within
  <2> QED
    BY <1>3, <2>1, <2>2, <2>3, <2>4 DEF RunInv
<1>5. ASSUME localPc'[r] \in {"refused", "failed"} PROVE RunInv(r)'
  BY <1>2, <1>4, <1>5 DEF RunInv, RootInv, GrowInv, Calm, Fresh, Begun, Inspected
<1>6. ASSUME Inspect(r) PROVE RunInv(r)'
  <2>1. localPc[r] = "inspecting" /\ localPc'[r] = IF IsRepository THEN "choosing" ELSE "refused"
    BY <1>6 DEF Inspect, LocalGoes, LocalInv, LocalTypeOK
  <2>2. CASE IsRepository
    <3>1. Source \in DOMAIN disk /\ disk[Source].kind = "dir"
      <4>1. Source \in Path /\ Git \in Name
        BY LocalAssumption
      <4>2. Append(Source, Git) # <<>> /\ Front(Append(Source, Git)) = Source
        BY <4>1, AppendPath
      <4> QED
        BY <2>2, <4>2 DEF IsRepository, CopyInv, Tree
    <3>2. localPc'[r] = "choosing"
      BY <2>1, <2>2
    <3>3. RootInv(r)' /\ GrowInv(r)' /\ ~Calm(r)'
      BY <1>1, <1>3, <2>1, <3>1, <3>2 DEF RunInv, RootInv, GrowInv, Calm, Fresh, Begun, Inspected
    <3> QED
      BY <1>2, <1>4, <2>2, <3>3 DEF RunInv
  <2> QED
    BY <1>5, <2>1, <2>2
<1>7. ASSUME ChooseTarget(r) PROVE RunInv(r)'
  <2>1. localPc[r] = "choosing" /\ localPc'[r] \in {"copying", "refused"}
    BY <1>7 DEF ChooseTarget, LocalGoes, LocalInv, LocalTypeOK
  <2>2. CASE localPc'[r] = "copying"
    <3>1. RootInv(r)' /\ GrowInv(r)' /\ ~Calm(r)'
      BY <1>1, <1>3, <2>1, <2>2 DEF RunInv, RootInv, GrowInv, Calm, Fresh, Begun, Inspected
    <3> QED
      BY <1>1, <1>2, <1>3, <1>4, <2>1, <3>1 DEF RunInv, Inspected
  <2> QED
    BY <1>5, <2>1, <2>2
<1>8. ASSUME LocalSucceeds(r) PROVE RunInv(r)'
  <2>1. localPc[r] = "copied" /\ localPc'[r] = "ok"
    BY <1>8 DEF LocalSucceeds, LocalGoes, LocalInv, LocalTypeOK
  <2>2. RootInv(r)' /\ GrowInv(r)' /\ (Calm(r)' => Calm(r))
    BY <1>1, <1>2, <1>3, <2>1 DEF RunInv, RootInv, GrowInv, Calm, Fresh, Begun, Inspected
  <2> QED
    BY <1>1, <1>2, <1>3, <1>4, <2>1, <2>2 DEF RunInv, Inspected
<1>9. ASSUME EntryFails(r) \/ LocalFails(r) PROVE RunInv(r)'
  <2>1. localPc'[r] \in {"refused", "failed"}
    BY <1>9 DEF EntryFails, LocalFails, LocalGoes, LocalInv, LocalTypeOK
  <2> QED
    BY <1>5, <2>1
<1>10. RunInv(r)'
  BY <1>6, <1>7, <1>8, <1>9
<1>11. ASSUME NEW o \in Runs \ {r} PROVE RunInv(o)'
  <2>1. Undisturbed(o)
    BY <1>1, <1>2 DEF Undisturbed, KeptAt
  <2>2. LocalInv'
    BY LocalNextStep DEF LocalNext, Copy
  <2> QED
    BY <2>1, <2>2, RunUndisturbed DEF CopyInv
<1> QED
  BY <1>2, <1>10, <1>11 DEF CopyInv

\* The user works where a run would see it only if it counts as changed.
LEMMA UserRuns ==
  ASSUME LocalInv, CopyInv, UserStep
  PROVE  Tree(disk') /\ \A r \in Runs : Undisturbed(r)
<1>1. UNCHANGED <<target, localPc, stack, stats>>
  BY DEF UserStep, UserWrites, UserCreates, UserRemoves, UserActs
<1>2. User \notin Runs /\ Tree(disk)
  BY LocalAssumption DEF CopyInv
<1>3. PICK p :
        /\ Touches(p, User)
        /\ \A x : x # p => KeptAt(x)
        /\ p \in DOMAIN disk => disk[p].by = User /\ disk[p].kind # "dir"
        /\ p \in DOMAIN disk' => disk'[p].by = User /\ disk'[p].kind # "dir"
        /\ Tree(disk')
  <2>1. CASE UserWrites
    <3>1. PICK p \in DOMAIN disk, data \in Data :
            /\ disk[p].kind = "file" /\ disk[p].by = User
            /\ disk' = [disk EXCEPT ![p].data = data]
            /\ Touches(p, User)
      BY <2>1 DEF UserWrites
    <3>2. disk[p] \in Node
      BY DEF LocalInv, LocalTypeOK
    <3>3. /\ DOMAIN disk' = DOMAIN disk /\ disk'[p].kind = "file" /\ disk'[p].by = User
          /\ \A x \in DOMAIN disk : x # p => disk'[x] = disk[x]
      BY <3>1, <3>2 DEF Node
    <3>4. Tree(disk')
      BY <1>2, <3>1, <3>3 DEF Tree
    <3> QED
      BY <3>1, <3>3, <3>4 DEF KeptAt
  <2>2. CASE UserCreates
    <3>1. PICK p \in UserPaths, data \in Data :
            /\ CanCreate(p)
            /\ disk' = With(p, [kind |-> "file", data |-> data, mode |-> "writable", by |-> User])
            /\ Touches(p, User)
      BY <2>2 DEF UserCreates
    <3> DEFINE node == [kind |-> "file", data |-> data, mode |-> "writable", by |-> User]
    <3>2. node.by = User /\ node.kind = "file"
      OBVIOUS
    <3>3. disk' = With(p, node)
      BY <3>1
    <3> HIDE DEF node
    <3>4. /\ disk'[p] = node /\ p \notin DOMAIN disk
          /\ Tree(disk) => Tree(disk')
          /\ \A x : x # p => KeptAt(x)
      BY <3>1, <3>3, MadeOnDisk
    <3> QED
      BY <1>2, <3>1, <3>2, <3>4
  <2>3. CASE UserRemoves
    <3>1. PICK p \in DOMAIN disk :
            /\ disk[p].kind # "dir" /\ disk[p].by = User
            /\ disk' = [q \in DOMAIN disk \ {p} |-> disk[q]]
            /\ Touches(p, User)
      BY <2>3 DEF UserRemoves
    <3>2. Tree(disk')
      BY <1>2, <3>1 DEF Tree
    <3> QED
      BY <3>1, <3>2 DEF KeptAt
  <2> QED
    BY <2>1, <2>2, <2>3 DEF UserStep
<1>4. ASSUME NEW r \in Runs PROVE Undisturbed(r)
  <2>1. /\ changed \subseteq changed'
        /\ r \notin changed' /\ localPc[r] \notin {"off", "inspecting"} =>
             ~IsPrefix(Source, p) /\ ~IsStrictPrefix(target[r], p)
    BY <1>2, <1>3 DEF Touches
  <2>2. /\ \A x \in DOMAIN disk : disk[x].kind = "dir" => KeptAt(x)
        /\ \A x \in DOMAIN disk : disk[x].by = r => KeptAt(x)
        /\ \A x \in DOMAIN disk' : disk'[x].by = r => x # p
    BY <1>2, <1>3
  <2> QED
    BY <1>1, <1>3, <2>1, <2>2 DEF Undisturbed, KeptAt
<1> QED
  BY <1>3, <1>4

\* Every step keeps each copy what it is.
LEMMA CopyStep == LocalInv /\ CopyInv /\ [LocalNext]_localVars => CopyInv'
<1> SUFFICES ASSUME LocalInv, CopyInv, [LocalNext]_localVars PROVE CopyInv'
  OBVIOUS
<1>1. LocalInv'
  BY LocalNextStep
<1>2. ASSUME Tree(disk'), NEW r \in Runs, RunInv(r)', \A o \in Runs \ {r} : Undisturbed(o)
      PROVE  CopyInv'
  BY <1>1, <1>2, RunUndisturbed DEF CopyInv
<1>3. ASSUME Tree(disk'), \A r \in Runs : Undisturbed(r) PROVE CopyInv'
  BY <1>1, <1>3, RunUndisturbed DEF CopyInv
<1>4. CASE UNCHANGED localVars
  <2>1. \A r \in Runs : Undisturbed(r)
    BY <1>4 DEF localVars, Undisturbed, KeptAt
  <2> QED
    BY <1>3, <1>4, <2>1 DEF localVars, CopyInv
<1>5. CASE UserStep
  BY <1>3, <1>5, UserRuns
<1>6. ASSUME NEW r \in Runs, Copy(r) PROVE CopyInv'
  <2>1. CASE CopyDirectory(r)
    <3>1. RunInv(r)'
      BY <1>1, <2>1, DirectoryRun
    <3>2. PICK q : /\ Makes(r, q, disk'[To(r, q)])
                   /\ \A o \in Runs \ {r} : stack'[o] = stack[o] /\ stats'[o] = stats[o]
      BY <2>1, DirectoryMade
    <3>3. Tree(disk') /\ \A o \in Runs \ {r} : Undisturbed(o)
      BY <3>2, MadeOnDisk, MadeByOthers DEF Makes, CopyInv
    <3> QED
      BY <1>2, <3>1, <3>3
  <2>2. CASE CopyLeaf(r)
    <3>1. RunInv(r)'
      BY <1>1, <2>2, LeafRun
    <3>2. PICK q : /\ Makes(r, q, disk'[To(r, q)])
                   /\ \A o \in Runs \ {r} : stack'[o] = stack[o] /\ stats'[o] = stats[o]
      BY <2>2, LeafMade
    <3>3. Tree(disk') /\ \A o \in Runs \ {r} : Undisturbed(o)
      BY <3>2, MadeOnDisk, MadeByOthers DEF Makes, CopyInv
    <3> QED
      BY <1>2, <3>1, <3>3
  <2>3. CASE LeaveDirectory(r)
    BY <1>1, <1>2, <2>3, LeaveRun, LeaveOthers
  <2>4. CASE Inspect(r) \/ ChooseTarget(r) \/ EntryFails(r) \/ LocalSucceeds(r) \/ LocalFails(r)
    BY <2>4, QuietRun
  <2> QED
    BY <1>6, <2>1, <2>2, <2>3, <2>4 DEF Copy
<1> QED
  BY <1>4, <1>5, <1>6 DEF LocalNext

\* Nothing is copied at first.
LEMMA CopyInitial == LocalInit \/ LocalOff => CopyInv
<1> SUFFICES ASSUME LocalInit \/ LocalOff PROVE CopyInv
  OBVIOUS
<1>1. /\ stack = [r \in Runs |-> <<>>]
      /\ stats = [r \in Runs |-> [files |-> 0, dirs |-> 0, links |-> 0]]
      /\ \A r \in Runs : localPc[r] \in {"off", "inspecting"}
      /\ Tree(disk) /\ \A r \in Runs : \A p \in DOMAIN disk : disk[p].by # r
  <2>1. CASE LocalOff
    BY <2>1 DEF LocalOff, Tree
  <2>2. CASE LocalInit
    BY <2>2, LocalAssumption DEF LocalInit
  <2> QED
    BY <2>1, <2>2
<1>2. ASSUME NEW r \in Runs PROVE RunInv(r)
  <2>1. stack[r] = <<>> /\ Len(stack[r]) = 0
    BY <1>1, EmptySeq
  <2>2. ChainInv(r)
    BY <2>1 DEF ChainInv
  <2> QED
    BY <1>1, <2>1, <2>2 DEF RunInv, RootInv, GrowInv, Calm, Fresh, Begun, Inspected
<1> QED
  BY <1>1, <1>2 DEF CopyInv

-----------------------------------------------------------------------------
(***************************************************************************)
(* A copy that succeeds, and one that refuses.                             *)
(***************************************************************************)
\* With no directory open, a mirror is complete.
LEMMA MirrorComplete ==
  ASSUME LocalInv, CopyInv, NEW r \in Runs, localPc[r] = "ok", r \notin changed, ~IntoItself(r)
  PROVE  \A q \in Path :
           /\ From(q) \in DOMAIN disk <=> To(r, q) \in DOMAIN disk
           /\ To(r, q) \in DOMAIN disk => Same(disk[To(r, q)], disk[From(q)])
<1>1. /\ RunInv(r) /\ Tree(disk) /\ stack[r] = <<>> /\ Len(stack[r]) = 0
      /\ Mirror(r) /\ target[r] \in DOMAIN disk
  BY EmptySeq DEF CopyInv, RunInv, RootInv, Calm, Begun
<1>2. \A q : ~OpenDir(r, q)
  BY <1>1 DEF OpenDir
<1> DEFINE S == {q \in Path : From(q) \in DOMAIN disk /\ To(r, q) \notin DOMAIN disk}
<1>3. S = {}
  <2> SUFFICES ASSUME S # {} PROVE FALSE
    OBVIOUS
  <2>1. PICK q \in S : \A x \in S : Len(q) <= Len(x)
    <3>1. S \in SUBSET Path
      OBVIOUS
    <3> HIDE DEF S
    <3> QED
      BY <3>1, ShortestPath
  <2>2. q # <<>>
    BY <1>1, <2>1, PathsOfRun
  <2>3. PICK x \in Path, n \in Name : q = Append(x, n)
    BY <2>1, <2>2, NonEmptyPath
  <2>4. /\ From(q) = Append(From(x), n) /\ From(x) \in Path
    BY <2>3, PathsOfRun
  <2>5. From(x) \in DOMAIN disk
    <3>1. From(q) # <<>> /\ Front(From(q)) = From(x)
      BY <2>3, <2>4, AppendPath
    <3> QED
      BY <1>1, <2>1, <3>1 DEF Tree
  <2>6. Len(q) = Len(x) + 1 /\ Len(x) \in Nat
    BY <2>3, AppendPath, LenProperties DEF Path
  <2>7. To(r, x) \in DOMAIN disk
    BY <2>1, <2>5, <2>6
  <2> QED
    BY <1>1, <1>2, <2>1, <2>3, <2>7 DEF Mirror
<1> QED
  BY <1>1, <1>2, <1>3 DEF Mirror, Same

\* When nothing is open any more the copy is the source.
LEMMA CopyFinal == LocalInv /\ CopyInv => CopyIsExact
<1> SUFFICES ASSUME LocalInv, CopyInv, NEW r \in Runs, localPc[r] = "ok"
             PROVE  /\ ~IntoItself(r)
                    /\ r \notin changed =>
                         /\ {SubSeq(p, Len(target[r]) + 1, Len(p)) : p \in Within(target[r])}
                              = {SubSeq(p, Len(Source) + 1, Len(p)) : p \in Within(Source)}
                         /\ \A p \in Within(target[r]) :
                              /\ Same(disk[p], disk[From(SubSeq(p, Len(target[r]) + 1, Len(p)))])
                              /\ disk[p].by = r
                         /\ IsRepository
                         /\ stats[r].files + stats[r].dirs + stats[r].links
                              = Cardinality(Within(target[r]))
  BY DEF CopyIsExact
<1>1. RunInv(r) /\ DOMAIN disk \subseteq Path
  BY DEF CopyInv, LocalInv, LocalTypeOK
<1>2. ~IntoItself(r)
  BY <1>1 DEF RunInv, GrowInv
<1> SUFFICES ASSUME r \notin changed
             PROVE  /\ {SubSeq(p, Len(target[r]) + 1, Len(p)) : p \in Within(target[r])}
                         = {SubSeq(p, Len(Source) + 1, Len(p)) : p \in Within(Source)}
                    /\ \A p \in Within(target[r]) :
                         /\ Same(disk[p], disk[From(SubSeq(p, Len(target[r]) + 1, Len(p)))])
                         /\ disk[p].by = r
                    /\ IsRepository
                    /\ stats[r].files + stats[r].dirs + stats[r].links
                         = Cardinality(Within(target[r]))
  BY <1>2
<1>3. \A q \in Path : /\ From(q) \in DOMAIN disk <=> To(r, q) \in DOMAIN disk
                      /\ To(r, q) \in DOMAIN disk => Same(disk[To(r, q)], disk[From(q)])
  BY <1>2, MirrorComplete
<1>4. /\ target[r] \in Path /\ Source \in Path
      /\ \A q \in Path : /\ SubSeq(To(r, q), Len(target[r]) + 1, Len(To(r, q))) = q
                         /\ SubSeq(From(q), Len(Source) + 1, Len(From(q))) = q
  BY PathsOfRun, RestOfPath DEF To, From
<1>5. /\ \A p : p \in Within(target[r]) <=> \E q \in Path : p = To(r, q) /\ p \in DOMAIN disk
      /\ \A p : p \in Within(Source) <=> \E q \in Path : p = From(q) /\ p \in DOMAIN disk
  BY <1>1, PathsOfRun DEF Within
<1>6. ASSUME NEW x
      PROVE  /\ (\E p \in Within(target[r]) : x = SubSeq(p, Len(target[r]) + 1, Len(p)))
                  <=> x \in Path /\ To(r, x) \in DOMAIN disk
             /\ (\E p \in Within(Source) : x = SubSeq(p, Len(Source) + 1, Len(p)))
                  <=> x \in Path /\ From(x) \in DOMAIN disk
  <2>1. ASSUME NEW p \in Within(target[r]), x = SubSeq(p, Len(target[r]) + 1, Len(p))
        PROVE  x \in Path /\ To(r, x) \in DOMAIN disk
    <3>1. PICK q \in Path : p = To(r, q) /\ p \in DOMAIN disk
      BY <1>5
    <3> QED
      BY <1>4, <2>1, <3>1
  <2>2. ASSUME NEW p \in Within(Source), x = SubSeq(p, Len(Source) + 1, Len(p))
        PROVE  x \in Path /\ From(x) \in DOMAIN disk
    <3>1. PICK q \in Path : p = From(q) /\ p \in DOMAIN disk
      BY <1>5
    <3> QED
      BY <1>4, <2>2, <3>1
  <2>3. ASSUME x \in Path, To(r, x) \in DOMAIN disk
        PROVE  \E p \in Within(target[r]) : x = SubSeq(p, Len(target[r]) + 1, Len(p))
    <3>1. To(r, x) \in Within(target[r])
      BY <1>5, <2>3
    <3> QED
      BY <1>4, <2>3, <3>1
  <2>4. ASSUME x \in Path, From(x) \in DOMAIN disk
        PROVE  \E p \in Within(Source) : x = SubSeq(p, Len(Source) + 1, Len(p))
    <3>1. From(x) \in Within(Source)
      BY <1>5, <2>4
    <3> QED
      BY <1>4, <2>4, <3>1
  <2> QED
    BY <2>1, <2>2, <2>3, <2>4
<1>7. {SubSeq(p, Len(target[r]) + 1, Len(p)) : p \in Within(target[r])}
        = {SubSeq(p, Len(Source) + 1, Len(p)) : p \in Within(Source)}
  BY <1>3, <1>6
<1>8. Mirror(r) /\ SumInv(r) /\ IsRepository
  BY <1>1, <1>2 DEF RunInv, Calm, Begun, Inspected
<1>9. ASSUME NEW p \in Within(target[r])
      PROVE  /\ Same(disk[p], disk[From(SubSeq(p, Len(target[r]) + 1, Len(p)))])
             /\ disk[p].by = r
  <2>1. PICK q \in Path : p = To(r, q) /\ p \in DOMAIN disk
    BY <1>5
  <2> QED
    BY <1>3, <1>4, <1>8, <2>1 DEF Mirror
<1> QED
  BY <1>7, <1>8, <1>9 DEF SumInv

\* What stops a copy that has begun, with its source at rest.
LEMMA EntryRefused ==
  ASSUME LocalInv, CopyInv, NEW r \in Runs, localPc[r] = "copying", r \notin changed,
         ~IntoItself(r), stack[r] # <<>>, NEW q \in NextEntries(r),
         (From(q) \in DOMAIN disk => disk[From(q)].kind = "special") \/ ~CanCreate(To(r, q))
  PROVE  Refusable(r)
<1> DEFINE k == Len(stack[r])
           f == stack[r][k]
           n == Last(q)
<1>1. /\ k \in Nat \ {0} /\ f \in Frame /\ f.dir \in Path /\ n \in Name /\ q = Append(f.dir, n)
      /\ n \in f.due \cup (Children(disk, From(f.dir)) \ f.seen)
  BY VisitFacts
<1>2. /\ q \in Path /\ From(q) = Append(From(f.dir), n) /\ To(r, q) = Append(To(r, f.dir), n)
      /\ From(q) \in Path /\ To(r, q) \in Path /\ To(r, f.dir) \in Path
      /\ IsPrefix(Source, From(q)) /\ target[r] \in Path /\ Source \in Path
  <2>1. localPc[r] # "off"
    OBVIOUS
  <2> HIDE DEF f, n
  <2> QED
    BY <1>1, <2>1, PathsOfRun
<1>3. RunInv(r) /\ DueInv(r) /\ k \in 1 .. k
  BY <1>1 DEF CopyInv, RunInv, Calm, Begun
<1>4. /\ disk[To(r, f.dir)].mode = "writable"
      /\ From(q) \in DOMAIN disk => n \in f.due \cup f.seen
      /\ n \in f.due => From(q) \in DOMAIN disk /\ To(r, q) \notin DOMAIN disk
  BY <1>1, <1>3 DEF DueInv
<1>5. From(q) \in DOMAIN disk /\ To(r, q) \notin DOMAIN disk
  BY <1>1, <1>2, <1>4 DEF Children
<1>6. From(q) \in Within(Source)
  BY <1>2, <1>5 DEF Within
<1>7. To(r, f.dir) \in DOMAIN disk /\ disk[To(r, f.dir)].kind = "dir"
  BY <1>3 DEF RunInv, ChainInv, LocalInv, FramesOwned
<1>8. CASE ~CanCreate(To(r, q))
  <2>1. To(r, q) # <<>> /\ Front(To(r, q)) = To(r, f.dir)
    <3> HIDE DEF f, n
    <3> QED
      BY <1>1, <1>2, AppendPath
  <2>2. ~(Len(To(r, q)) <= MaxPath)
    BY <1>4, <1>5, <1>7, <1>8, <2>1 DEF CanCreate
  <2>3. /\ Len(To(r, q)) = Len(target[r]) + Len(q) /\ Len(From(q)) = Len(Source) + Len(q)
        /\ Len(target[r]) \in Nat /\ Len(q) \in Nat /\ Len(Source) \in Nat /\ MaxPath \in Nat
    <3>1. n \in Name
      BY <1>1
    <3> HIDE DEF n
    <3>2. Len(target[r] \o q) = Len(target[r]) + Len(q) /\ Len(Source \o q) = Len(Source) + Len(q)
      BY <1>2, <3>1, JoinPath
    <3>3. Len(target[r]) \in Nat /\ Len(q) \in Nat /\ Len(Source) \in Nat
      BY <1>2, LenProperties DEF Path
    <3> QED
      BY <3>2, <3>3, LocalAssumption DEF To, From
  <2>4. Len(From(q)) - Len(Source) + Len(target[r]) > MaxPath
    BY <2>2, <2>3
  <2> QED
    BY <1>6, <2>4 DEF Refusable
<1>9. CASE CanCreate(To(r, q))
  BY <1>5, <1>6, <1>9 DEF Refusable
<1> QED
  BY <1>8, <1>9

\* What stops a copy before it has made anything.
LEMMA RootRefused ==
  ASSUME LocalInv, CopyInv, NEW r \in Runs, localPc[r] = "copying", stack[r] = <<>>,
         NEW q \in NextEntries(r),
         (From(q) \in DOMAIN disk => disk[From(q)].kind = "special") \/ ~CanCreate(To(r, q))
  PROVE  Refusable(r)
<1>1. q = <<>> /\ From(q) = Source /\ To(r, q) = target[r] /\ target[r] \in Path /\ Source \in Path
  BY PathsOfRun DEF NextEntries
<1>2. /\ Source \in DOMAIN disk /\ disk[Source].kind = "dir"
      /\ \A p \in DOMAIN disk : disk[p].by # r
      /\ Tree(disk) /\ DOMAIN disk \subseteq Path /\ \A p \in DOMAIN disk : disk[p] \in Node
  BY DEF CopyInv, RunInv, RootInv, Fresh, Inspected, LocalInv, LocalTypeOK
<1>3. ~CanCreate(target[r])
  BY <1>1, <1>2
<1>4. CASE target[r] \in DOMAIN disk
  BY <1>2, <1>4 DEF Refusable
<1>5. CASE target[r] = <<>>
  <2>1. <<>> \in Path /\ Source = <<>> \o Source
    BY <1>1, EmptySeq, ConcatEmptySeq DEF Path
  <2>2. IsPrefix(<<>>, Source)
    BY <1>1, <2>1, PrefixPath
  <2>3. <<>> \in DOMAIN disk
    BY <1>2, <2>1, <2>2, Above
  <2> QED
    BY <1>4, <1>5, <2>3
<1>6. CASE ~(Len(target[r]) <= MaxPath)
  <2>1. Source \in Within(Source)
    BY <1>1, <1>2, PrefixAppend, LocalAssumption DEF Within
  <2>2. Len(Source) - Len(Source) + Len(target[r]) > MaxPath
    BY <1>1, <1>6, LenProperties, LocalAssumption DEF Path
  <2> QED
    BY <2>1, <2>2 DEF Refusable
<1>7. CASE /\ target[r] \notin DOMAIN disk /\ target[r] # <<>> /\ Len(target[r]) <= MaxPath
  <2>1. Front(target[r]) \in DOMAIN disk =>
          disk[Front(target[r])].kind # "dir" \/ disk[Front(target[r])].mode = "readonly"
    BY <1>2, <1>3, <1>7 DEF CanCreate, Node, Mode
  <2> QED
    BY <2>1 DEF Refusable
<1> QED
  BY <1>4, <1>5, <1>6, <1>7

\* A step that refuses has its reason.
LEMMA RefusalStep == LocalInv /\ CopyInv /\ [LocalNext]_localVars => [RefusesNow]_localVars
<1> SUFFICES ASSUME LocalInv, CopyInv, LocalNext, NEW r \in Runs,
                    localPc[r] # "refused", localPc'[r] = "refused", r \notin changed
             PROVE  Refusable(r)
  BY DEF RefusesNow
<1>1. PICK o \in Runs : Copy(o)
  BY DEF LocalNext, UserStep, UserWrites, UserCreates, UserRemoves, UserActs
<1>2. o = r /\ (Inspect(r) \/ ChooseTarget(r) \/ EntryFails(r))
  BY <1>1 DEF Copy, Inspect, ChooseTarget, CopyDirectory, CopyLeaf, EntryFails, LeaveDirectory,
     LocalSucceeds, LocalFails, LocalGoes, LocalInv, LocalTypeOK
<1>3. CASE Inspect(r)
  BY <1>3 DEF Inspect, LocalGoes, LocalInv, LocalTypeOK, Refusable
<1>4. CASE ChooseTarget(r)
  <2>1. localPc[r] = "choosing" /\ target[r] \in DOMAIN disk
    BY <1>4 DEF ChooseTarget, LocalGoes, LocalInv, LocalTypeOK
  <2>2. disk[target[r]].by # r
    BY <2>1 DEF CopyInv, RunInv, RootInv, Fresh
  <2> QED
    BY <2>1, <2>2 DEF Refusable
<1>5. CASE EntryFails(r)
  <2>1. localPc[r] = "copying"
    BY <1>5 DEF EntryFails, LocalGoes
  <2>2. PICK q \in NextEntries(r) :
          (From(q) \in DOMAIN disk => disk[From(q)].kind = "special") \/ ~CanCreate(To(r, q))
    BY <1>5 DEF EntryFails, CanCreateDirectory
  <2>3. CASE stack[r] = <<>>
    BY <2>1, <2>2, <2>3, RootRefused
  <2>4. CASE stack[r] # <<>> /\ ~IntoItself(r)
    BY <2>1, <2>2, <2>4, EntryRefused
  <2>5. CASE IntoItself(r)
    BY <2>5 DEF Refusable
  <2> QED
    BY <2>3, <2>4, <2>5
<1> QED
  BY <1>2, <1>3, <1>4, <1>5

-----------------------------------------------------------------------------
(***************************************************************************)
(* The refs: what is known of a clone at each of its places.               *)
(***************************************************************************)
AfterRefs == {"checking out", "checked out", "ok"}
AfterFetch == {"fetched", "indexed"} \cup AfterRefs
AfterStage == {"starting", "working"} \cup AfterFetch
AfterChoice == {"staging"} \cup AfterStage
AfterListing == {"choosing"} \cup AfterChoice
BeforeFetch == {"off", "capabilities", "listing", "choosing", "staging", "starting"}

Refused == listing = {Line(ErrWord, NoOid, NoRef)} /\ "refused" \in faults
Answered == listing \subseteq Lines(snapshot) /\ (cut \/ listing = Lines(snapshot))

\* The listing is the server's at the time of the snapshot, and what is chosen, fetched
\* and written comes from nothing else.
RefsInv ==
  /\ server \in Server /\ snapshot \in Server
  /\ clonePc \in AfterListing => Refused \/ Answered
  /\ clonePc \in AfterChoice => defaultRef = Symref /\ \E l \in Select : l.name = defaultRef
  /\ clonePc \in AfterRefs \/ (pipelined /\ clonePc \in AfterStage) => gitDir = Metadata
  /\ clonePc \in BeforeFetch => fetchPc = "idle"
  /\ clonePc \in AfterFetch => fetchPc = "done"
  /\ fetchPc = "done" => fetched = Wants

SameListing == UNCHANGED <<listing, defaultRef, snapshot, cut, pipelined>> /\ faults \subseteq faults'

\* What is chosen from a listing is the same as long as the listing is.
LEMMA ListingKept ==
  ASSUME SameListing
  PROVE  /\ Select' = Select /\ Symref' = Symref /\ Wants' = Wants /\ Metadata' = Metadata
         /\ (Refused => Refused') /\ (Answered => Answered')
<1>1. Select' = Select
  BY DEF SameListing, Select
<1>2. Symref' = Symref
  BY Zenon DEF SameListing, Symref
<1>3. Wants' = Wants
  BY <1>1 DEF Wants
<1>4. Metadata' = Metadata
  <2>1. \A n : OidOf(n)' = OidOf(n)
    BY <1>1, Zenon DEF OidOf
  <2> DEFINE R == {l.name : l \in Select}
  <2>2. defaultRef' = defaultRef /\ R' = R
    BY <1>1 DEF SameListing
  <2> HIDE DEF R
  <2>3. Metadata = [head |-> defaultRef, loose |-> [n \in {defaultRef} \cap Heads |-> OidOf(n)],
                    packed |-> [n \in R |-> OidOf(n)]]
    BY DEF Metadata, R
  <2>4. Metadata' = [head |-> defaultRef',
                     loose |-> [n \in {defaultRef'} \cap Heads |-> OidOf(n)'],
                     packed |-> [n \in R' |-> OidOf(n)']]
    BY DEF Metadata, R
  <2>5. /\ [n \in {defaultRef'} \cap Heads |-> OidOf(n)'] = [n \in {defaultRef} \cap Heads |-> OidOf(n)]
        /\ [n \in R' |-> OidOf(n)'] = [n \in R |-> OidOf(n)]
    BY <2>1, <2>2, Zenon
  <2> QED
    BY <2>2, <2>3, <2>4, <2>5
<1>5. (Refused => Refused') /\ (Answered => Answered')
  BY DEF SameListing, Refused, Answered
<1> QED
  BY <1>1, <1>2, <1>3, <1>4, <1>5

\* What a step may do that leaves the listing alone.
LEMMA RefsKept ==
  ASSUME RefsInv, SameListing, server' \in Server,
         clonePc' \in AfterListing => clonePc \in AfterListing,
         clonePc' \in AfterChoice => clonePc \in AfterChoice,
         clonePc' \in AfterRefs \/ (pipelined /\ clonePc' \in AfterStage) => gitDir' = Metadata,
         clonePc' \in BeforeFetch => fetchPc' = "idle",
         clonePc' \in AfterFetch => fetchPc' = "done",
         fetchPc' = "done" => fetched' = Wants
  PROVE  RefsInv'
<1>1. /\ Select' = Select /\ Symref' = Symref /\ Wants' = Wants /\ Metadata' = Metadata
      /\ (Refused => Refused') /\ (Answered => Answered')
  BY ListingKept
<1>2. UNCHANGED <<defaultRef, snapshot, pipelined>>
  BY DEF SameListing
<1> QED
  BY <1>1, <1>2 DEF RefsInv

\* Nothing is listed at first.
LEMMA RefsInitial == CloneInit \/ CloneOff => RefsInv
<1>1. CASE CloneInit
  <2>1. server \in Server
    BY <1>1, RefsAssumption DEF CloneInit
  <2> QED
    BY <1>1, <2>1 DEF CloneInit, RefsInv, AfterRefs, AfterFetch, AfterStage, AfterChoice,
       AfterListing, BeforeFetch
<1>2. CASE CloneOff
  <2>1. server \in Server
    BY <1>2, RefsAssumption DEF CloneOff
  <2> QED
    BY <1>2, <2>1 DEF CloneOff, RefsInv, AfterRefs, AfterFetch, AfterStage, AfterChoice,
       AfterListing, BeforeFetch
<1> QED
  BY <1>1, <1>2

CloneNext == CloneMain \/ Fetcher \/ ServerMoves

\* Every step of the clone keeps the refs those of the listing.
LEMMA RefsNextStep == RefsInv /\ [CloneNext]_cloneVars => RefsInv'
<1> SUFFICES ASSUME RefsInv, [CloneNext]_cloneVars PROVE RefsInv'
  OBVIOUS
<1> USE DEF AfterRefs, AfterFetch, AfterStage, AfterChoice, AfterListing, BeforeFetch
<1>1. CASE UNCHANGED cloneVars
  <2>1. SameListing /\ UNCHANGED <<server, clonePc, fetchPc, fetched, gitDir>>
    BY <1>1 DEF cloneVars, SameListing
  <2> QED
    BY <2>1, RefsKept DEF RefsInv
<1>2. CASE DiscoveryFails
  <2>1. SameListing /\ UNCHANGED <<server, fetchPc, fetched, gitDir>>
        /\ clonePc' \in {clonePc, "error"}
    BY <1>2 DEF DiscoveryFails, Failed, SameListing
  <2> QED
    BY <2>1, RefsKept DEF RefsInv
<1>3. CASE Discover
  <2>1. SameListing /\ UNCHANGED <<server, fetchPc, fetched, gitDir>>
        /\ clonePc = "capabilities" /\ clonePc' \in {"listing", "error"}
    BY <1>3 DEF Discover, CloneGoes, GivesUp, SameListing
  <2> QED
    BY <2>1, RefsKept DEF RefsInv
<1>4. CASE ListRefs
  <2>1. /\ clonePc = "listing" /\ clonePc' = "choosing"
        /\ UNCHANGED <<server, fetchPc, fetched>> /\ snapshot' = server
        /\ Refused' \/ Answered'
    <3>1. ASSUME listing' \in Beginnings(server) PROVE listing' \subseteq Lines(server)
      <4>1. DOMAIN server.refs \subseteq RefName
        BY DEF RefsInv, Server
      <4> QED
        BY <3>1, <4>1 DEF Beginnings, Lines, RefLines
    <3> QED
      BY <1>4, <3>1 DEF ListRefs, CloneGoes, Refused, Answered
  <2> QED
    BY <2>1 DEF RefsInv
<1>5. CASE ChooseRefs
  <2>1. /\ clonePc = "choosing"
        /\ UNCHANGED <<server, fetchPc, fetched, gitDir, listing, snapshot, cut, pipelined>>
        /\ faults \subseteq faults'
        /\ \/ clonePc' = "error"
           \/ clonePc' = "staging" /\ defaultRef' = Symref /\ \E l \in Select : l.name = Symref
    BY <1>5 DEF ChooseRefs, CloneGoes, GivesUp
  <2>2. Select' = Select /\ Symref' = Symref /\ (Refused => Refused') /\ (Answered => Answered')
    BY <2>1 DEF Select, Symref, Refused, Answered
  <2> QED
    BY <2>1, <2>2 DEF RefsInv
<1>6. CASE Stage
  <2>1. /\ SameListing /\ UNCHANGED <<server, fetchPc, fetched>>
        /\ clonePc = "staging"
        /\ clonePc' = "error" \/ (clonePc' = "starting" /\ (pipelined => gitDir' = Metadata))
    BY <1>6 DEF Stage, CloneGoes, GivesUp, SameListing
  <2> QED
    BY <2>1, RefsKept DEF RefsInv
<1>7. CASE StartFetch
  <2>1. /\ SameListing /\ UNCHANGED <<server, fetched, gitDir>>
        /\ clonePc = "starting" /\ clonePc' = "working" /\ fetchPc' = "requesting"
    BY <1>7 DEF StartFetch, CloneGoes, SameListing
  <2> QED
    BY <2>1, RefsKept DEF RefsInv
<1>8. CASE RequestFails
  <2>1. /\ SameListing /\ UNCHANGED <<server, fetched, gitDir, clonePc>>
        /\ fetchPc = "requesting" /\ fetchPc' \in {"requesting", "failed"}
    BY <1>8 DEF RequestFails, Failed, SameListing
  <2> QED
    BY <2>1, RefsKept DEF RefsInv
<1>9. CASE FetchEnds
  <2>1. /\ SameListing /\ UNCHANGED <<server, gitDir, clonePc>>
        /\ fetchPc = "requesting"
        /\ fetchPc' = "failed" \/ (fetchPc' = "done" /\ fetched' = Wants)
    BY <1>9 DEF FetchEnds, SameListing
  <2> QED
    BY <2>1, RefsKept DEF RefsInv
<1>10. CASE Join
  <2>1. /\ SameListing /\ UNCHANGED <<server, gitDir, fetchPc, fetched>>
        /\ clonePc = "working"
        /\ clonePc' = "error" \/ (clonePc' = "fetched" /\ fetchPc = "done")
    BY <1>10 DEF Join, CloneGoes, GivesUp, SameListing
  <2> QED
    BY <2>1, RefsKept DEF RefsInv
<1>11. CASE Index \/ CheckOut \/ Finalize
  <2>1. /\ SameListing /\ UNCHANGED <<server, gitDir, fetchPc, fetched>>
        /\ \/ clonePc \in {"fetched", "checking out", "checked out"} /\ clonePc' = "error"
           \/ clonePc = "fetched" /\ clonePc' = "indexed"
           \/ clonePc = "checking out" /\ clonePc' = "checked out"
           \/ clonePc = "checked out" /\ clonePc' = "ok"
    BY <1>11 DEF Index, CheckOut, Finalize, Advances, CloneGoes, GivesUp, SameListing
  <2> QED
    BY <2>1, RefsKept DEF RefsInv
<1>12. CASE WriteRefs
  <2>1. /\ SameListing /\ UNCHANGED <<server, fetchPc, fetched>>
        /\ clonePc = "indexed"
        /\ \/ clonePc' = "error" /\ gitDir' = gitDir /\ ~pipelined
           \/ clonePc' = "checking out" /\ gitDir' = IF pipelined THEN gitDir ELSE Metadata
    BY <1>12 DEF WriteRefs, CloneGoes, GivesUp, SameListing
  <2> QED
    BY <2>1, RefsKept DEF RefsInv
<1>13. CASE ServerMoves
  <2>1. SameListing /\ UNCHANGED <<clonePc, fetchPc, fetched, gitDir>> /\ server' \in Server
    BY <1>13, RefsAssumption DEF ServerMoves, SameListing
  <2> QED
    BY <2>1, RefsKept DEF RefsInv
<1>14. CASE ResolverPanics
  <2>1. /\ SameListing /\ UNCHANGED <<server, gitDir, fetchPc, fetched>>
        /\ clonePc = "working" /\ clonePc' = "waiting"
    BY <1>14 DEF ResolverPanics, CloneGoes, SameListing
  <2> QED
    BY <2>1, RefsKept DEF RefsInv
<1> QED
  BY <1>1, <1>2, <1>3, <1>4, <1>5, <1>6, <1>7, <1>8, <1>9, <1>10, <1>11, <1>12, <1>13,
     <1>14
  DEF CloneNext, CloneMain, Fetcher

\* What the lines of an answer say.
LEMMA AnsweredFacts ==
  ASSUME snapshot \in Server, Answered
  PROVE  /\ \A l \in Select : /\ l.name \in (Heads \cup Tags) \cap DOMAIN snapshot.refs
                              /\ l = Line(l.name, snapshot.refs[l.name], NoRef)
         /\ \A l \in listing : l.name = "HEAD" => l.symref = snapshot.head
         /\ ~cut => {l.name : l \in Select} = (Heads \cup Tags) \cap DOMAIN snapshot.refs
         /\ ~cut /\ snapshot.head \in DOMAIN snapshot.refs => \E l \in listing : l.name = "HEAD"
<1> DEFINE refs == snapshot.refs
<1>1. /\ "HEAD" \notin RefName /\ Heads \cup Tags \subseteq RefName
      /\ DOMAIN refs \subseteq RefName
  BY RefsAssumption DEF RefName, Server
<1>2. ASSUME NEW l \in listing
      PROVE  \/ l \in HeadLine(snapshot) /\ l.name = "HEAD" /\ l.symref = snapshot.head
             \/ /\ l.name \in DOMAIN refs /\ l.name # "HEAD"
                /\ l = Line(l.name, refs[l.name], NoRef)
  BY <1>1 DEF Answered, Lines, HeadLine, RefLines, Line
<1>3. \A n \in DOMAIN refs : Line(n, refs[n], NoRef) \in Lines(snapshot)
                               /\ Line(n, refs[n], NoRef).name = n
  BY <1>1 DEF Lines, RefLines, Line
<1>4. ASSUME NEW l \in Select
      PROVE  /\ l.name \in (Heads \cup Tags) \cap DOMAIN refs
             /\ l = Line(l.name, refs[l.name], NoRef)
  BY <1>1, <1>2 DEF Select
<1>5. ASSUME ~cut PROVE {l.name : l \in Select} = (Heads \cup Tags) \cap DOMAIN refs
  <2>1. \A n \in (Heads \cup Tags) \cap DOMAIN refs : \E l \in Select : l.name = n
    BY <1>3, <1>5 DEF Answered, Select
  <2> QED
    BY <1>4, <2>1
<1>6. ASSUME ~cut, snapshot.head \in DOMAIN refs PROVE \E l \in listing : l.name = "HEAD"
  <2> DEFINE h == Line("HEAD", refs[snapshot.head], snapshot.head)
  <2>1. listing = Lines(snapshot)
    BY <1>6 DEF Answered
  <2>2. HeadLine(snapshot) = {h}
    BY <1>6 DEF HeadLine
  <2>3. h \in listing /\ h.name = "HEAD"
    BY <2>1, <2>2 DEF Lines, Line
  <2> QED
    BY <2>3
<1> QED
  BY <1>2, <1>4, <1>5, <1>6

\* When the clone has ended, the refs are those of the server.
LEMMA RefsFinal == RefsInv => RefsAreRemotes
<1> SUFFICES ASSUME RefsInv, clonePc = "ok" PROVE RefsAreRemotes
  BY DEF RefsAreRemotes
<1>1. /\ snapshot \in Server /\ (Refused \/ Answered)
      /\ defaultRef = Symref /\ gitDir = Metadata /\ fetched = Wants
  BY DEF RefsInv, AfterRefs, AfterFetch, AfterStage, AfterChoice, AfterListing
<1>2. PICK d \in Select : d.name = defaultRef
  BY DEF RefsInv, AfterRefs, AfterFetch, AfterStage, AfterChoice
<1>3. /\ ErrWord \notin Heads \cup Tags /\ NoRef \notin Heads \cup Tags
  BY RefsAssumption DEF RefName
<1>4. Answered
  BY <1>1, <1>2, <1>3 DEF Refused, Select, Line
<1>5. /\ \A l \in Select : /\ l.name \in (Heads \cup Tags) \cap DOMAIN snapshot.refs
                           /\ l = Line(l.name, snapshot.refs[l.name], NoRef)
      /\ \A l \in listing : l.name = "HEAD" => l.symref = snapshot.head
      /\ ~cut => {l.name : l \in Select} = (Heads \cup Tags) \cap DOMAIN snapshot.refs
  <2>1. snapshot \in Server
    BY <1>1
  <2> QED
    BY <1>4, <2>1, AnsweredFacts, Zenon
<1>6. snapshot.head = defaultRef
  <2>1. d.name # NoRef
    BY <1>3 DEF Select
  <2>2. PICK l \in listing : l.name = "HEAD" /\ Symref = l.symref
    BY <1>1, <1>2, <2>1 DEF Symref
  <2> QED
    BY <1>1, <1>5, <2>2
<1> DEFINE names == {l.name : l \in Select}
<1>7. ASSUME NEW n \in names
      PROVE  /\ n \in DOMAIN snapshot.refs /\ OidOf(n) = snapshot.refs[n] /\ OidOf(n) \in Wants
  <2>1. PICK l \in Select : l.name = n /\ OidOf(n) = l.oid
    BY <1>7 DEF OidOf
  <2>2. l.name \in DOMAIN snapshot.refs /\ l = Line(l.name, snapshot.refs[l.name], NoRef)
    BY <1>5
  <2> QED
    BY <2>1, <2>2 DEF Line, Wants
<1>8. defaultRef \in names
  BY <1>2
<1>9. ~cut => names = (Heads \cup Tags) \cap DOMAIN snapshot.refs
  BY <1>5
<1>10. /\ gitDir.head = defaultRef
      /\ gitDir.loose = [n \in {defaultRef} \cap Heads |-> OidOf(n)]
      /\ gitDir.packed = [n \in names |-> OidOf(n)]
  BY <1>1 DEF Metadata
<1> HIDE DEF names
<1> QED
  BY <1>1, <1>6, <1>7, <1>8, <1>9, <1>10 DEF RefsAreRemotes

-----------------------------------------------------------------------------
(***************************************************************************)
(* The retries.                                                            *)
(***************************************************************************)
RetryInv ==
  /\ attempts \in [Stages -> Nat] /\ \A s \in Stages : attempts[s] <= Retries + 1
  /\ clonePc = "capabilities" => attempts["capabilities"] <= Retries
  /\ clonePc \in {"capabilities", "listing"} => attempts["listing"] <= Retries /\ faults = {}
  /\ fetchPc \in {"idle", "requesting"} => attempts["requesting"] <= Retries
  /\ fetchPc = "failed" => faults # {} \/ attempts["requesting"] = Retries + 1
  /\ clonePc = "error" => faults # {} \/ \E s \in Stages : attempts[s] = Retries + 1
  /\ "no default" \in faults =>
       cut \/ "refused" \in faults
           \/ snapshot.head \notin (Heads \cup Tags) \cap DOMAIN snapshot.refs

\* Nothing is tried at first.
LEMMA RetryInitial == CloneInit \/ CloneOff => RetryInv
<1> SUFFICES ASSUME CloneInit \/ CloneOff PROVE RetryInv
  OBVIOUS
<1>1. /\ attempts = [s \in Stages |-> 0] /\ faults = {} /\ fetchPc = "idle"
      /\ clonePc \in {"off", "capabilities"}
  BY DEF CloneInit, CloneOff
<1>2. Retries \in Nat
  BY RefsAssumption
<1> QED
  BY <1>1, <1>2 DEF RetryInv, Stages

\* One attempt more: there was one left, or it was the last.
LEMMA FailedAttempt ==
  ASSUME attempts \in [Stages -> Nat], NEW s \in Stages, attempts[s] <= Retries,
         attempts' = [attempts EXCEPT ![s] = @ + 1]
  PROVE  /\ attempts' \in [Stages -> Nat] /\ \A t \in Stages : t # s => attempts'[t] = attempts[t]
         /\ attempts'[s] <= Retries + 1
         /\ RetryLeft(s) => attempts'[s] <= Retries
         /\ ~RetryLeft(s) => attempts'[s] = Retries + 1
<1> DEFINE a == attempts[s]
<1>1. a \in Nat /\ Retries \in Nat
  BY RefsAssumption
<1>2. /\ attempts'[s] = a + 1 /\ \A t \in Stages : t # s => attempts'[t] = attempts[t]
  OBVIOUS
<1>3. attempts' \in [Stages -> Nat]
  BY <1>1
<1> QED
  BY <1>1, <1>2, <1>3 DEF RetryLeft

\* Everything else keeps the attempts, and never takes back a fault.
LEMMA AttemptsKept ==
  ASSUME RetryInv, UNCHANGED attempts, faults \subseteq faults',
         clonePc' \in {"capabilities", "listing"} =>
           /\ clonePc = clonePc' \/ (clonePc = "capabilities" /\ clonePc' = "listing")
           /\ faults' = faults,
         fetchPc' \in {"idle", "requesting"} => fetchPc \in {"idle", "requesting"},
         fetchPc' = "failed" => fetchPc = "failed" \/ faults' # {},
         clonePc' = "error" => clonePc = "error" \/ fetchPc = "failed" \/ faults' # {},
         \/ UNCHANGED <<cut, snapshot>> /\ ("no default" \in faults' => "no default" \in faults)
         \/ /\ "no default" \in faults'
            => \/ cut' \/ "refused" \in faults'
               \/ snapshot'.head \notin (Heads \cup Tags) \cap DOMAIN snapshot'.refs
  PROVE  RetryInv'
BY DEF RetryInv, Stages

\* Every step keeps the attempts within the retries.
LEMMA RetryNextStep == RefsInv /\ RetryInv /\ [CloneNext]_cloneVars => RetryInv'
<1> SUFFICES ASSUME RefsInv, RetryInv, [CloneNext]_cloneVars PROVE RetryInv'
  OBVIOUS
<1>1. CASE UNCHANGED cloneVars
  BY <1>1, AttemptsKept DEF cloneVars
<1>2. CASE DiscoveryFails
  <2>1. PICK s \in {"capabilities", "listing"} :
          /\ clonePc = s /\ attempts' = [attempts EXCEPT ![s] = @ + 1]
          /\ clonePc' = IF RetryLeft(s) THEN s ELSE "error"
          /\ UNCHANGED <<fetchPc, snapshot, cut, faults>>
    BY <1>2 DEF DiscoveryFails, Failed
  <2>2. s \in Stages /\ attempts[s] <= Retries /\ attempts \in [Stages -> Nat]
    BY <2>1 DEF RetryInv, Stages
  <2>3. /\ attempts' \in [Stages -> Nat] /\ \A t \in Stages : t # s => attempts'[t] = attempts[t]
        /\ attempts'[s] <= Retries + 1
        /\ (RetryLeft(s) => attempts'[s] <= Retries)
        /\ (~RetryLeft(s) => attempts'[s] = Retries + 1)
    BY <2>1, <2>2, FailedAttempt
  <2> QED
    BY <2>1, <2>2, <2>3 DEF RetryInv, Stages
<1>3. CASE RequestFails
  <2> DEFINE s == "requesting"
  <2>1. /\ fetchPc = s /\ attempts' = [attempts EXCEPT ![s] = @ + 1]
        /\ fetchPc' = IF RetryLeft(s) THEN s ELSE "failed"
        /\ UNCHANGED <<clonePc, snapshot, cut, faults>>
    BY <1>3 DEF RequestFails, Failed
  <2>2. s \in Stages /\ attempts[s] <= Retries /\ attempts \in [Stages -> Nat]
    BY <2>1 DEF RetryInv, Stages
  <2>3. /\ attempts' \in [Stages -> Nat] /\ \A t \in Stages : t # s => attempts'[t] = attempts[t]
        /\ attempts'[s] <= Retries + 1
        /\ (RetryLeft(s) => attempts'[s] <= Retries)
        /\ (~RetryLeft(s) => attempts'[s] = Retries + 1)
    BY <2>1, <2>2, FailedAttempt
  <2>4. clonePc \notin {"capabilities", "listing"}
    BY <2>1 DEF RefsInv, BeforeFetch
  <2>5. ASSUME NEW t \in Stages, attempts[t] = Retries + 1 PROVE attempts'[t] = Retries + 1
    BY <2>2, <2>3, <2>5, RefsAssumption
  <2> QED
    BY <2>1, <2>2, <2>3, <2>4, <2>5 DEF RetryInv, Stages
<1>4. CASE Discover
  BY <1>4, AttemptsKept DEF Discover, CloneGoes, GivesUp
<1>5. CASE ListRefs
  <2>1. faults = {}
    BY <1>5 DEF ListRefs, CloneGoes, RetryInv
  <2> QED
    BY <1>5, <2>1, AttemptsKept DEF ListRefs, CloneGoes
<1>6. CASE ChooseRefs
  <2>1. /\ UNCHANGED <<attempts, fetchPc, cut, snapshot, listing>>
        /\ clonePc = "choosing" /\ clonePc' \in {"staging", "error"} /\ faults \subseteq faults'
        /\ \/ clonePc' = "staging" /\ faults' = faults
           \/ clonePc' = "error" /\ faults' = faults \cup {"bad id"}
           \/ clonePc' = "error" /\ faults' = faults \cup {"no default"}
              /\ ~\E l \in Select : l.name = Symref
    BY <1>6 DEF ChooseRefs, CloneGoes, GivesUp
  <2>2. ASSUME ~\E l \in Select : l.name = Symref
        PROVE  \/ cut \/ "refused" \in faults
               \/ snapshot.head \notin (Heads \cup Tags) \cap DOMAIN snapshot.refs
    <3> SUFFICES ASSUME ~cut, Answered,
                        snapshot.head \in (Heads \cup Tags) \cap DOMAIN snapshot.refs
                 PROVE  FALSE
      BY <2>1 DEF RefsInv, AfterListing, Refused
    <3>1. snapshot \in Server
      BY DEF RefsInv
    <3>2. Symref = snapshot.head
      BY <3>1, AnsweredFacts DEF Symref
    <3> QED
      BY <2>2, <3>1, <3>2, AnsweredFacts
  <2> QED
    BY <2>1, <2>2, AttemptsKept
<1>7. CASE Stage \/ StartFetch \/ Index \/ WriteRefs \/ CheckOut \/ Finalize
  BY <1>7, AttemptsKept DEF Stage, StartFetch, Index, WriteRefs, CheckOut, Finalize, Advances,
     CloneGoes, GivesUp, RefsInv, BeforeFetch
<1>8. CASE FetchEnds
  BY <1>8, AttemptsKept DEF FetchEnds, RefsInv, BeforeFetch
<1>9. CASE Join \/ ResolverPanics
  BY <1>9, AttemptsKept DEF Join, ResolverPanics, CloneGoes, GivesUp
<1>10. CASE ServerMoves
  BY <1>10, AttemptsKept DEF ServerMoves
<1> QED
  BY <1>1, <1>2, <1>3, <1>4, <1>5, <1>6, <1>7, <1>8, <1>9, <1>10
  DEF CloneNext, CloneMain, Fetcher

\* So no failure comes before its time.
LEMMA RetryFinal == RetryInv => RetriesAbsorb
BY DEF RetryInv, RetriesAbsorb

-----------------------------------------------------------------------------
(***************************************************************************)
(* The parts in the command.                                               *)
(***************************************************************************)
\* A step of the command is, for the copies, one of theirs or none.
LEMMA LocalSteps == [Next]_vars => [LocalNext]_localVars
<1> SUFFICES ASSUME [Next]_vars PROVE LocalNext \/ UNCHANGED localVars
  OBVIOUS
<1>1. CASE WatchedWork
  <2>1. Copy(Watched)
    BY <1>1 DEF WatchedWork, Copy
  <2> QED
    BY <2>1, CommandAssumption DEF LocalNext
<1>2. CASE \E r \in Runs : OtherWork(r)
  BY <1>2 DEF OtherWork, LocalNext
<1>3. CASE UserWork
  BY <1>3 DEF UserWork, LocalNext
<1>4. CASE CloneWork \/ FetchWork \/ FetchReports \/ ServerStep
  BY <1>4 DEF CloneWork, FetchWork, FetchReports, ServerStep, CloneStays
<1>5. CASE CommandStep \/ RendererStep \/ Ended \/ UNCHANGED vars
  BY <1>5 DEF CommandStep, RendererStep, Ended, vars
<1> QED
  BY <1>1, <1>2, <1>3, <1>4, <1>5 DEF Next

\* And for the clone.
LEMMA CloneSteps == [Next]_vars => [CloneNext]_cloneVars
<1> SUFFICES ASSUME [Next]_vars PROVE CloneNext \/ UNCHANGED cloneVars
  OBVIOUS
<1>1. CASE CloneWork
  BY <1>1 DEF CloneWork, CloneNext, CloneMain
<1>2. CASE FetchWork
  BY <1>2 DEF FetchWork, CloneNext
<1>3. CASE ServerStep
  BY <1>3 DEF ServerStep, CloneNext
<1>4. CASE WatchedWork \/ (\E r \in Runs : OtherWork(r)) \/ UserWork
  BY <1>4 DEF WatchedWork, OtherWork, UserWork
<1>5. CASE CommandStep \/ RendererStep \/ FetchReports \/ Ended \/ UNCHANGED vars
  BY <1>5 DEF CommandStep, RendererStep, FetchReports, Ended, vars
<1> QED
  BY <1>1, <1>2, <1>3, <1>4, <1>5 DEF Next

\* The invariants of the copies hold under the command too.
LEMMA LocalInvariant == Spec => []LocalInv
<1>1. Init => LocalInv
  BY LocalInitial, LocalOffInitial DEF Init
<1>2. LocalInv /\ [Next]_vars => LocalInv'
  BY LocalSteps, LocalNextStep
<1> QED
  BY <1>1, <1>2, PTL DEF Spec

\* So do those of what is copied.
LEMMA CopyInvariant == Spec => []CopyInv
<1>1. Init => CopyInv
  BY CopyInitial DEF Init
<1>2. LocalInv /\ CopyInv /\ [Next]_vars => CopyInv'
  BY LocalSteps, CopyStep
<1> QED
  BY <1>1, <1>2, LocalInvariant, PTL DEF Spec

\* And those of the refs.
LEMMA RefsInvariant == Spec => []RefsInv
<1>1. Init => RefsInv
  BY RefsInitial DEF Init
<1>2. RefsInv /\ [Next]_vars => RefsInv'
  BY CloneSteps, RefsNextStep
<1> QED
  BY <1>1, <1>2, PTL DEF Spec

\* The variables of the copies keep their types, on any disk, and a run that takes place
\* has a target: LocalTypeOK of LocalClone.
THEOREM LocalTypeCorrect == Spec => []LocalTypeOK
<1>1. LocalInv => LocalTypeOK
  BY DEF LocalInv
<1> QED
  BY <1>1, LocalInvariant, PTL

\* Of any number of copies to one target only the one that created its root writes there,
\* though all of them may have found it free (local_clone_inner, copy_tree_cow).
THEOREM OneWriterCorrect == Spec => []OneWriter
<1>1. LocalInv => OneWriter
  BY DEF LocalInv, RootsOwned, OneWriter
<1> QED
  BY <1>1, LocalInvariant, PTL

\* No copy changes or removes an entry it has not made, neither the source's nor the user's
\* nor another copy's, whatever happens to be where it writes (copy_tree_cow).
THEOREM OthersCorrect == Spec => OthersUntouched
<1>1. LocalInv /\ [Next]_vars => [OthersKept]_localVars
  BY LocalSteps, OthersStep
<1> QED
  BY <1>1, LocalInvariant, PTL DEF Spec, OthersUntouched

\* A copy that reports success while its source was at rest, and nobody else worked inside
\* its target, is the source, entry by entry and mode by mode, is all its own, has no
\* operation in progress in it and is counted right; a copy into its own source never
\* reports success (local_clone_inner, copy_tree_cow).
THEOREM CopyExact == Spec => []CopyIsExact
  BY LocalInvariant, CopyInvariant, CopyFinal, PTL

\* A copy refuses only where there is a reason to, as long as its source is at rest: a
\* directory that must not be written to is none, nor is an entry that comes twice
\* (inspect_source_repo, local_clone_inner, copy_tree_cow).
THEOREM RefusalsCorrect == Spec => RefusesForAReason
<1>1. LocalInv /\ CopyInv /\ [Next]_vars => [RefusesNow]_localVars
  BY LocalSteps, RefusalStep
<1> QED
  BY <1>1, LocalInvariant, CopyInvariant, PTL DEF Spec, RefusesForAReason

\* The refs of a clone that succeeds are the server's at the moment of the listing, and
\* their objects are those the pack was asked for, however the server moves meanwhile
\* (discover_remote, select_full_clone_universe, fetch_body, write_initial_metadata).
THEOREM RefsCorrect == Spec => []RefsAreRemotes
  BY RefsInvariant, RefsFinal, PTL

\* No request is made more often than the retries allow, a clone fails for lack of an
\* answer only after all of them, and finds no default branch only where the answer has
\* none (with_retries, resolve_default_branch).
THEOREM RetriesCorrect == Spec => []RetriesAbsorb
<1>1. Init => RetryInv
  BY RetryInitial DEF Init
<1>2. RefsInv /\ RetryInv /\ [Next]_vars => RetryInv'
  BY CloneSteps, RetryNextStep
<1> QED
  BY <1>1, <1>2, RefsInvariant, RetryFinal, PTL DEF Spec

-----------------------------------------------------------------------------
(***************************************************************************)
(* The screen.                                                             *)
(***************************************************************************)
ScreenInv ==
  /\ rendererPc = "done" => screen = "blank" \/ lapsed
  /\ ~terminal => screen = "blank"
  /\ mainPc \in {"returned", "panicked"} => rendererPc = "done"

\* What the work does with the display: it puts events into the outbox or the channel.
LEMMA WorkReports ==
  ASSUME CloneWork \/ FetchWork \/ FetchReports \/ ServerStep \/ WatchedWork
           \/ (\E r \in Runs : OtherWork(r)) \/ UserWork \/ Ended \/ UNCHANGED vars
  PROVE  UNCHANGED <<taken, verdict, mainPc, rendererPc, terminal, statuses, screen, lapsed>>
<1>1. \A events : Reports(events) =>
        UNCHANGED <<taken, verdict, mainPc, rendererPc, terminal, statuses, screen, lapsed>>
  BY DEF Reports, Emits, displayVars
<1>2. CASE CloneWork
  BY <1>1, <1>2 DEF CloneWork, OnSuccess
<1>3. CASE WatchedWork
  BY <1>1, <1>3 DEF WatchedWork, ReportsCopy, OnReaching
<1>4. CASE FetchReports
  BY <1>4 DEF FetchReports, SendsAside
<1>5. CASE FetchWork \/ ServerStep \/ (\E r \in Runs : OtherWork(r)) \/ UserWork
  BY <1>5 DEF FetchWork, ServerStep, OtherWork, UserWork, displayVars
<1>6. CASE Ended \/ UNCHANGED vars
  BY <1>6 DEF Ended, vars, displayVars
<1> QED
  BY <1>2, <1>3, <1>4, <1>5, <1>6

\* Every step leaves a screen the next one may print on.
LEMMA ScreenStep == ScreenInv /\ [Next]_vars => ScreenInv'
<1> SUFFICES ASSUME ScreenInv, [Next]_vars PROVE ScreenInv'
  OBVIOUS
<1>1. CASE CommandStep
  <2>1. UNCHANGED <<rendererPc, terminal, screen, lapsed>>
    BY <1>1 DEF CommandStep, Send, DropEvents, Tell, Panic, JoinRenderer, MainGoes
  <2>2. mainPc' \in {"returned", "panicked"} =>
          mainPc \in {"returned", "panicked"} \/ rendererPc = "done"
    BY <1>1 DEF CommandStep, Send, DropEvents, Tell, Panic, JoinRenderer, MainGoes, RendererOver,
       Result
  <2> QED
    BY <2>1, <2>2 DEF ScreenInv
<1>2. CASE RendererStep
  <2>1. /\ rendererPc # "done" /\ UNCHANGED <<mainPc, terminal>>
        /\ ~terminal => screen' = screen
        /\ rendererPc' = "done" => lapsed' \/ (IF terminal THEN screen' = "blank" ELSE TRUE)
    BY <1>2 DEF RendererStep, Renderer, RendererStarts, Drain, Ask, Redraw, Wait, Close, Receive,
       RendererGoes, Draw, Clear
  <2> QED
    BY <2>1 DEF ScreenInv
<1>3. CASE ~CommandStep /\ ~RendererStep
  <2>1. UNCHANGED <<mainPc, rendererPc, terminal, screen, lapsed>>
    BY <1>3, WorkReports DEF Next
  <2> QED
    BY <2>1 DEF ScreenInv
<1> QED
  BY <1>1, <1>2, <1>3

\* The command prints its summary or its error only after the renderer has ended, on a
\* screen that is blank unless the verdict was late (join, run_progress_renderer).
THEOREM ScreenCorrect == Spec => []ScreenIsClean
<1>1. Init => ScreenInv
  BY DEF Init, DisplayInit, ScreenInv
<1>2. ScreenInv => ScreenIsClean
  BY DEF ScreenInv, ScreenIsClean
<1> QED
  BY <1>1, <1>2, ScreenStep, PTL DEF Spec

-----------------------------------------------------------------------------
(***************************************************************************)
(* What the display says.                                                  *)
(***************************************************************************)
\* The phases of the clone that are over at each of its places.
DoneInv ==
  /\ clonePc \in AfterChoice => "refs" \in done
  /\ fetchPc = "done" => "fetch" \in done
  /\ clonePc \in {"indexed"} \cup AfterRefs => "index" \in done
  /\ clonePc \in {"checked out", "ok"} => "checkout" \in done
  /\ clonePc = "ok" => "finalize" \in done

\* What is over stays over.
LEMMA DoneStep == RefsInv /\ DoneInv /\ [CloneNext]_cloneVars => DoneInv' /\ done \subseteq done'
<1> SUFFICES ASSUME RefsInv, DoneInv, [CloneNext]_cloneVars PROVE DoneInv' /\ done \subseteq done'
  OBVIOUS
<1> USE DEF AfterRefs, AfterFetch, AfterStage, AfterChoice, AfterListing, BeforeFetch
<1>1. CASE UNCHANGED cloneVars
  BY <1>1 DEF cloneVars, DoneInv
<1>2. CASE DiscoveryFails \/ Discover \/ ListRefs
  BY <1>2 DEF DiscoveryFails, Discover, ListRefs, Failed, CloneGoes, GivesUp, DoneInv
<1>3. CASE ChooseRefs
  <2>1. /\ UNCHANGED fetchPc /\ done \subseteq done'
        /\ clonePc' = "error" \/ (clonePc' = "staging" /\ "refs" \in done')
    BY <1>3 DEF ChooseRefs, CloneGoes, GivesUp
  <2> QED
    BY <2>1 DEF DoneInv
<1>4. CASE Stage \/ StartFetch \/ Join \/ ResolverPanics \/ WriteRefs
  BY <1>4 DEF Stage, StartFetch, Join, ResolverPanics, WriteRefs, CloneGoes, GivesUp, DoneInv
<1>5. CASE Fetcher
  BY <1>5 DEF Fetcher, RequestFails, FetchEnds, Failed, DoneInv
<1>6. CASE Index \/ CheckOut \/ Finalize
  BY <1>6 DEF Index, CheckOut, Finalize, Advances, CloneGoes, GivesUp, DoneInv
<1>7. CASE ServerMoves
  BY <1>7 DEF ServerMoves, DoneInv
<1> QED
  BY <1>1, <1>2, <1>3, <1>4, <1>5, <1>6, <1>7 DEF CloneNext, CloneMain

Kinds == {"Started", "Progress", "Completed", "PhaseStarted", "PhaseCompleted"}
Events == [kind : Kinds, phase : 0 .. 5]

PhasesShown == IF command = "clone" THEN 1 .. 5 ELSE 1 .. 3

\* The events that say what is so.
Truths ==
  {event \in Events :
     /\ event.kind = "PhaseCompleted" => IsDone(event.phase)
     /\ event.kind = "PhaseStarted" /\ command = "clone" => Needs(event.phase) \subseteq done
     /\ event.kind = "Completed" => \A p \in PhasesShown : IsDone(p)}

\* The events sent and to be sent.
EventsSent ==
  {outbox[i] : i \in 1 .. Len(outbox)} \cup {sent[i] : i \in 1 .. Len(sent)}

\* Every event is true when it is sent, and stays so.
TruthInv ==
  /\ outbox \in Seq(Events) /\ sent \in Seq(Events) /\ taken \in Nat
  /\ DOMAIN statuses = PhasesShown
  /\ EventsSent \subseteq Truths
  /\ DisplayIsTrue

\* What is over stays over.
Onward ==
  /\ UNCHANGED <<command, pipelined>> /\ done \subseteq done'
  /\ localPc[Watched] \notin {"inspecting", "choosing"} =>
       localPc'[Watched] \notin {"inspecting", "choosing"}
  /\ localPc[Watched] \in {"copied", "ok"} => localPc'[Watched] \in {"copied", "ok"}

\* No step takes back what is over, whatever the command does.
LEMMA GoesOnward == LocalInv /\ RefsInv /\ DoneInv /\ [Next]_vars => Onward
<1> SUFFICES ASSUME LocalInv, RefsInv, DoneInv, [Next]_vars PROVE Onward
  OBVIOUS
<1>1. [CloneNext]_cloneVars /\ [LocalNext]_localVars
  BY CloneSteps, LocalSteps
<1>2. done \subseteq done'
  BY <1>1, DoneStep
<1>3. pipelined' = pipelined
  BY <1>1 DEF CloneNext, CloneMain, Fetcher, ServerMoves, DiscoveryFails, Discover, ListRefs,
     ChooseRefs, Stage, StartFetch, Join, ResolverPanics, Index, WriteRefs, CheckOut, Finalize,
     Advances,
     RequestFails, FetchEnds, cloneVars
<1>4. command' = command
  BY DEF Next, vars, CloneWork, FetchWork, FetchReports, ServerStep, CloneStays, WatchedWork,
     OtherWork, UserWork, CommandStep, RendererStep, Ended
<1>5. /\ localPc[Watched] \notin {"inspecting", "choosing"} =>
           localPc'[Watched] \notin {"inspecting", "choosing"}
      /\ localPc[Watched] \in {"copied", "ok"} => localPc'[Watched] \in {"copied", "ok"}
  <2>1. CASE \E r \in Runs : Copy(r)
    <3>1. PICK r \in Runs : Copy(r)
      BY <2>1
    <3>2. PICK from, to \in LocalPcs :
            /\ LocalGoes(r, from, to)
            /\ from \notin {"inspecting", "choosing"} => to \notin {"inspecting", "choosing"}
            /\ from \in {"copied", "ok"} => to \in {"copied", "ok"}
      BY <3>1 DEF Copy, Inspect, ChooseTarget, CopyDirectory, CopyLeaf, EntryFails, LeaveDirectory,
         LocalSucceeds, LocalFails, LocalPcs
    <3> QED
      BY <3>2 DEF LocalGoes, LocalInv, LocalTypeOK
  <2>2. CASE UserStep
    BY <2>2 DEF UserStep, UserWrites, UserCreates, UserRemoves, UserActs
  <2>3. CASE UNCHANGED localVars
    BY <2>3 DEF localVars
  <2> QED
    BY <1>1, <2>1, <2>2, <2>3 DEF LocalNext
<1> QED
  BY <1>2, <1>3, <1>4, <1>5 DEF Onward

\* What was true of the phases remains true.
LEMMA TruthStays ==
  ASSUME Onward
  PROVE  /\ \A p : IsDone(p) => IsDone(p)'
         /\ \A p : Needs(p)' = Needs(p)
         /\ Truths \subseteq Truths'
         /\ PhasesShown' = PhasesShown
<1>1. PhasesShown' = PhasesShown /\ command' = command
  BY DEF Onward, PhasesShown
<1>2. \A p : IsDone(p) => IsDone(p)'
  BY DEF Onward, IsDone
<1>3. \A p : Needs(p)' = Needs(p)
  BY DEF Onward, Needs
<1>4. done \subseteq done'
  BY DEF Onward
<1> QED
  BY <1>1, <1>2, <1>3, <1>4 DEF Truths

\* The work reports what has become true with its step.
LEMMA TruthKept ==
  ASSUME TruthInv, Onward, UNCHANGED <<statuses, taken>>,
         outbox' \in Seq(Events), sent' \in Seq(Events),
         EventsSent' \subseteq EventsSent \cup Truths'
  PROVE  TruthInv'
<1>1. DisplayIsTrue'
  <2>1. command' = command /\ done \subseteq done' /\ statuses' = statuses
    BY DEF Onward
  <2> QED
    BY <2>1, TruthStays DEF TruthInv, DisplayIsTrue
<1>2. DOMAIN statuses' = PhasesShown' /\ taken' \in Nat
  BY TruthStays DEF TruthInv
<1>3. EventsSent' \subseteq Truths'
  BY TruthStays DEF TruthInv
<1> QED
  BY <1>1, <1>2, <1>3 DEF TruthInv

\* Events that are true when they are put out keep the display true.
LEMMA EmitKept ==
  ASSUME TruthInv, Onward, NEW events \in Seq(Truths'), Reports(events)
  PROVE  TruthInv'
<1>1. CASE shown
  <2>1. outbox' = events /\ UNCHANGED <<sent, statuses, taken>>
    BY <1>1 DEF Reports, Emits
  <2>2. \A i \in 1 .. Len(events) : events[i] \in Truths'
    BY ElementOfSeq
  <2>3. EventsSent' \subseteq EventsSent \cup Truths'
    BY <2>1, <2>2 DEF EventsSent
  <2>4. events \in Seq(Events)
    BY DEF Truths
  <2> QED
    BY <2>1, <2>3, <2>4, TruthKept DEF TruthInv
<1>2. CASE ~shown
  <2>1. UNCHANGED <<outbox, sent, statuses, taken>>
    BY <1>2 DEF Reports, displayVars
  <2>2. EventsSent' = EventsSent
    BY <2>1 DEF EventsSent
  <2> QED
    BY <2>1, <2>2, TruthKept DEF TruthInv
<1> QED
  BY <1>1, <1>2

\* An action of the clone reports the end of a phase after it, and the start of the next
\* one when it may start.
LEMMA CloneReportsTruth ==
  ASSUME TruthInv, Onward, RefsInv', DoneInv', CloneWork
  PROVE  TruthInv'
<1>1. ASSUME NEW events, OnSuccess(events), clonePc' # "error" => events \in Seq(Truths')
      PROVE  TruthInv'
  <2>1. CASE clonePc' = "error"
    <3>1. Reports(<<>>)
      BY <1>1, <2>1 DEF OnSuccess, Reports, Emits
    <3> QED
      BY <3>1, EmitKept, EmptySeq
  <2>2. CASE clonePc' # "error"
    <3>1. Reports(events)
      BY <1>1, <2>2 DEF OnSuccess, Reports, Emits
    <3> QED
      BY <1>1, <2>2, <3>1, EmitKept
  <2> QED
    BY <2>1, <2>2
<1>2. command = "clone" /\ command' = "clone" /\ pipelined' = pipelined
  BY DEF CloneWork, Onward
<1>3. /\ clonePc' \in AfterChoice => "refs" \in done'
      /\ clonePc' \in AfterFetch => "fetch" \in done'
      /\ clonePc' \in {"indexed"} \cup AfterRefs => "index" \in done'
      /\ clonePc' \in {"checked out", "ok"} => "checkout" \in done'
      /\ clonePc' = "ok" => "finalize" \in done'
  BY DEF RefsInv, DoneInv
<1>4. /\ "refs" \in done' => PhaseCompleted(1) \in Truths'
      /\ "fetch" \in done' => PhaseCompleted(2) \in Truths'
      /\ "index" \in done' => PhaseCompleted(3) \in Truths'
      /\ "checkout" \in done' => PhaseCompleted(4) \in Truths'
      /\ "finalize" \in done' => PhaseCompleted(5) \in Truths'
  BY <1>2 DEF Events, Kinds, Truths, PhaseCompleted, Event, IsDone, ClonePhases
<1>5. /\ {"refs"} \subseteq done' => PhaseStarted(2) \in Truths'
      /\ pipelined /\ {"refs"} \subseteq done' =>
           PhaseStarted(3) \in Truths' /\ PhaseStarted(4) \in Truths'
      /\ {"refs", "fetch"} \subseteq done' => PhaseStarted(3) \in Truths'
      /\ {"refs", "fetch", "index"} \subseteq done' => PhaseStarted(4) \in Truths'
      /\ {"refs", "fetch", "index", "checkout"} \subseteq done' => PhaseStarted(5) \in Truths'
  <2>1. /\ \A p \in 1 .. 5 : PhaseStarted(p) \in Events
        /\ \A p \in 1 .. 5 : PhaseStarted(p).kind = "PhaseStarted" /\ PhaseStarted(p).phase = p
    BY DEF Events, Kinds, PhaseStarted, Event
  <2> QED
    BY <1>2, <2>1 DEF Truths, Needs, ClonePhases
<1>6. ASSUME NEW S
      PROVE  /\ <<>> \in Seq(S)
             /\ \A e \in S : <<e>> \in Seq(S)
             /\ \A e, f \in S : <<e, f>> \in Seq(S)
  BY EmptySeq
<1>10. CASE (DiscoveryFails \/ Discover \/ ListRefs \/ ResolverPanics) /\ Reports(<<>>)
  BY <1>6, <1>10, EmitKept
<1>11. CASE ChooseRefs /\ OnSuccess(<<PhaseCompleted(1)>>)
  <2>1. clonePc' # "error" => PhaseCompleted(1) \in Truths'
    BY <1>3, <1>4, <1>11 DEF ChooseRefs, CloneGoes, GivesUp, AfterChoice
  <2> QED
    BY <1>1, <1>6, <1>11, <2>1
<1>12. CASE Stage /\ OnSuccess(<<PhaseStarted(2)>>)
  <2>1. clonePc' # "error" => PhaseStarted(2) \in Truths'
    BY <1>3, <1>5, <1>12 DEF Stage, CloneGoes, GivesUp, AfterChoice, AfterStage
  <2> QED
    BY <1>1, <1>6, <1>12, <2>1
<1>13. CASE StartFetch /\ OnSuccess(ThreadsStarted)
  <2>1. CASE pipelined
    <3>1. PhaseStarted(3) \in Truths' /\ PhaseStarted(4) \in Truths'
      BY <1>3, <1>5, <1>13, <2>1 DEF StartFetch, CloneGoes, AfterChoice, AfterStage
    <3> QED
      BY <1>1, <1>6, <1>13, <2>1, <3>1 DEF ThreadsStarted
  <2>2. CASE ~pipelined
    BY <1>1, <1>6, <1>13, <2>2 DEF ThreadsStarted
  <2> QED
    BY <2>1, <2>2
<1>14. CASE Join /\ OnSuccess(IF pipelined THEN <<PhaseCompleted(2)>>
                              ELSE <<PhaseCompleted(2), PhaseStarted(3)>>)
  <2>1. clonePc' # "error" => PhaseCompleted(2) \in Truths' /\ PhaseStarted(3) \in Truths'
    BY <1>3, <1>4, <1>5, <1>14 DEF Join, CloneGoes, GivesUp, AfterChoice,
       AfterStage, AfterFetch
  <2>2. CASE pipelined
    BY <1>1, <1>6, <1>14, <2>1, <2>2
  <2>3. CASE ~pipelined
    BY <1>1, <1>6, <1>14, <2>1, <2>3
  <2> QED
    BY <2>2, <2>3
<1>15. CASE Index /\ OnSuccess(<<PhaseCompleted(3)>>)
  <2>1. clonePc' # "error" => PhaseCompleted(3) \in Truths'
    BY <1>3, <1>4, <1>15 DEF Index, Advances, CloneGoes, GivesUp
  <2> QED
    BY <1>1, <1>6, <1>15, <2>1
<1>16. CASE WriteRefs /\ OnSuccess(IF pipelined THEN <<>> ELSE <<PhaseStarted(4)>>)
  <2>1. clonePc' # "error" => PhaseStarted(4) \in Truths'
    BY <1>3, <1>5, <1>16 DEF WriteRefs, CloneGoes, GivesUp, AfterChoice, AfterStage,
       AfterFetch, AfterRefs
  <2>2. CASE pipelined
    BY <1>1, <1>6, <1>16, <2>2
  <2>3. CASE ~pipelined
    BY <1>1, <1>6, <1>16, <2>1, <2>3
  <2> QED
    BY <2>2, <2>3
<1>17. CASE CheckOut /\ OnSuccess(<<PhaseCompleted(4), PhaseStarted(5)>>)
  <2>1. clonePc' # "error" => PhaseCompleted(4) \in Truths' /\ PhaseStarted(5) \in Truths'
    BY <1>3, <1>4, <1>5, <1>17 DEF CheckOut, Advances, CloneGoes, GivesUp, ClonePhases,
       AfterChoice, AfterStage, AfterFetch, AfterRefs
  <2> QED
    BY <1>1, <1>6, <1>17, <2>1
<1>18. CASE Finalize /\ OnSuccess(<<PhaseCompleted(5), Completed>>)
  <2>1. clonePc' # "error" => clonePc' = "ok"
    BY <1>18 DEF Finalize, Advances, CloneGoes, GivesUp
  <2>2. clonePc' # "error" =>
          {"refs", "fetch", "index", "checkout", "finalize"} \subseteq done'
    BY <1>3, <2>1 DEF AfterChoice, AfterStage, AfterFetch, AfterRefs
  <2>3. clonePc' # "error" => PhaseCompleted(5) \in Truths' /\ Completed \in Truths'
    <3>1. clonePc' # "error" => Completed \in Truths'
      BY <1>2, <2>2 DEF Truths, Events, Kinds, Completed, Event, PhasesShown, IsDone, ClonePhases
    <3> QED
      BY <1>4, <2>2, <3>1
  <2> QED
    BY <1>1, <1>6, <1>18, <2>3
<1> QED
  BY <1>10, <1>11, <1>12, <1>13, <1>14, <1>15, <1>16, <1>17, <1>18 DEF CloneWork

\* An action of the watched copy likewise.
LEMMA CopyReportsTruth ==
  ASSUME TruthInv, Onward, WatchedWork
  PROVE  TruthInv'
<1>1. command = "local" /\ command' = "local"
  BY DEF WatchedWork, Onward
<1>2. /\ \A p \in 1 .. 3 : PhaseStarted(p) \in Truths'
      /\ localPc'[Watched] \notin {"inspecting", "choosing"} => PhaseCompleted(1) \in Truths'
      /\ localPc'[Watched] \in {"copied", "ok"} =>
           /\ PhaseCompleted(2) \in Truths' /\ PhaseCompleted(3) \in Truths'
           /\ Completed \in Truths'
  BY <1>1 DEF Events, Kinds, Truths, PhaseCompleted, PhaseStarted, Completed, Event, IsDone,
     PhasesShown
<1>3. Progress \in Truths'
  BY DEF Events, Kinds, Truths, Progress, Event
<1>4. ASSUME NEW events \in Seq(Truths'), Reports(events) PROVE TruthInv'
  BY <1>4, EmitKept
<1>5. ASSUME Reports(<<>>) PROVE TruthInv'
  BY <1>4, <1>5, EmptySeq
<1>6. CASE ReportsCopy(Watched)
  <2>1. CASE Reports(<<Progress>>)
    <3>1. <<Progress>> \in Seq(Truths')
      BY <1>3
    <3> QED
      BY <1>4, <2>1, <3>1
  <2> QED
    BY <1>5, <1>6, <2>1 DEF ReportsCopy
<1>7. CASE OnReaching("copying", <<PhaseCompleted(1), PhaseStarted(2)>>)
  <2>1. CASE localPc'[Watched] = "copying"
    <3>1. PhaseCompleted(1) \in Truths' /\ PhaseStarted(2) \in Truths'
      BY <1>2, <2>1
    <3>2. Reports(<<PhaseCompleted(1), PhaseStarted(2)>>)
      BY <1>7, <2>1 DEF OnReaching
    <3>3. <<PhaseCompleted(1), PhaseStarted(2)>> \in Seq(Truths')
      BY <3>1
    <3> QED
      BY <1>4, <3>2, <3>3
  <2>2. CASE localPc'[Watched] # "copying"
    BY <1>5, <1>7, <2>2 DEF OnReaching
  <2> QED
    BY <2>1, <2>2
<1>8. CASE OnReaching("copied", <<Progress, PhaseCompleted(2), PhaseStarted(3),
                                  PhaseCompleted(3), Completed>>)
  <2> DEFINE last == <<Progress, PhaseCompleted(2), PhaseStarted(3), PhaseCompleted(3), Completed>>
  <2>1. CASE localPc'[Watched] = "copied"
    <3>1. last \in Seq(Truths')
      BY <1>2, <1>3, <2>1
    <3>2. Reports(last)
      BY <1>8, <2>1 DEF OnReaching
    <3> QED
      BY <1>4, <3>1, <3>2
  <2>2. CASE localPc'[Watched] # "copied"
    BY <1>5, <1>8, <2>2 DEF OnReaching
  <2> QED
    BY <2>1, <2>2
<1> QED
  BY <1>5, <1>6, <1>7, <1>8 DEF WatchedWork

\* Sending an event does not change what it says; the reports of a fetch say nothing.
LEMMA SendingTruth ==
  ASSUME TruthInv, Onward, FetchReports \/ CommandStep
  PROVE  TruthInv'
<1>1. CASE FetchReports
  <2>1. sent' = Append(sent, Progress) /\ UNCHANGED <<outbox, statuses, taken>>
    BY <1>1 DEF FetchReports, SendsAside
  <2>2. Progress \in Events /\ Progress \in Truths'
    BY DEF Events, Kinds, Truths, Progress, Event
  <2>3. /\ sent' \in Seq(Events) /\ Len(sent') = Len(sent) + 1
        /\ \A i \in 1 .. Len(sent) : sent'[i] = sent[i]
        /\ sent'[Len(sent) + 1] = Progress
    BY <2>1, <2>2, AppendProperties DEF TruthInv
  <2>4. \A i \in 1 .. Len(sent') : i \in 1 .. Len(sent) \/ i = Len(sent) + 1
    BY <2>3, LenProperties DEF TruthInv
  <2>5. EventsSent' \subseteq EventsSent \cup Truths'
    BY <2>1, <2>2, <2>3, <2>4 DEF EventsSent
  <2> QED
    BY <2>1, <2>3, <2>5, TruthKept DEF TruthInv
<1>2. CASE Send
  <2>1. /\ outbox # <<>> /\ sent' = Append(sent, Head(outbox)) /\ outbox' = Tail(outbox)
        /\ UNCHANGED <<statuses, taken>>
    BY <1>2 DEF Send
  <2>2. /\ Head(outbox) = outbox[1] /\ Len(outbox) \in Nat \ {0}
        /\ outbox' \in Seq(Events) /\ Len(outbox') = Len(outbox) - 1
        /\ \A i \in 1 .. Len(outbox') : outbox'[i] = outbox[i + 1]
    BY <2>1, HeadTailProperties, EmptySeq, LenProperties DEF TruthInv
  <2>3. Head(outbox) \in Events
    BY <2>1, <2>2, ElementOfSeq DEF TruthInv
  <2>4. /\ sent' \in Seq(Events) /\ Len(sent') = Len(sent) + 1
        /\ \A i \in 1 .. Len(sent) : sent'[i] = sent[i]
        /\ sent'[Len(sent) + 1] = outbox[1]
    BY <2>1, <2>2, <2>3, AppendProperties DEF TruthInv
  <2>5. /\ \A i \in 1 .. Len(sent') : i \in 1 .. Len(sent) \/ i = Len(sent) + 1
        /\ \A i \in 1 .. Len(outbox') : i + 1 \in 1 .. Len(outbox)
        /\ 1 \in 1 .. Len(outbox)
    BY <2>2, <2>4, LenProperties DEF TruthInv
  <2>6. EventsSent' \subseteq EventsSent \cup Truths'
    BY <2>2, <2>4, <2>5 DEF EventsSent
  <2> QED
    BY <2>1, <2>2, <2>4, <2>6, TruthKept
<1>3. CASE CommandStep /\ ~Send
  <2>1. UNCHANGED <<outbox, sent, statuses, taken>>
    BY <1>3 DEF CommandStep, DropEvents, Tell, Panic, JoinRenderer, MainGoes
  <2>2. EventsSent' = EventsSent
    BY <2>1 DEF EventsSent
  <2> QED
    BY <2>1, <2>2, TruthKept DEF TruthInv
<1> QED
  BY <1>1, <1>2, <1>3

\* What the renderer is told is so, and it shows nothing else.
LEMMA RenderingTruth ==
  ASSUME TruthInv, Onward, RendererStep
  PROVE  TruthInv'
<1>1. UNCHANGED <<outbox, sent>>
  BY DEF RendererStep, Renderer, RendererStarts, Drain, Ask, Redraw, Wait, Close, RendererGoes
<1>2. EventsSent' = EventsSent
  BY <1>1 DEF EventsSent
<1>3. CASE UNCHANGED <<statuses, taken>>
  BY <1>1, <1>2, <1>3, TruthKept DEF TruthInv
<1>4. CASE Receive
  <2> DEFINE e == sent[taken + 1]
  <2>1. taken + 1 \in 1 .. Len(sent) /\ taken' = taken + 1 /\ statuses' = Apply(e)
    BY <1>4, LenProperties DEF Receive, TruthInv
  <2>2. e \in Truths
    BY <2>1 DEF TruthInv, EventsSent
  <2> HIDE DEF e
  <2>3. UNCHANGED <<command, done, pipelined, localPc>>
    BY DEF RendererStep, localVars, cloneVars
  <2>4. /\ DOMAIN statuses' = PhasesShown
        /\ \A p \in PhasesShown :
             \/ statuses'[p] = statuses[p]
             \/ /\ statuses'[p] = "Done"
                /\ IsDone(p)
             \/ /\ statuses'[p] = "Running"
                /\ command = "clone" => Needs(p) \subseteq done
    <3>1. DOMAIN statuses = PhasesShown
      BY DEF TruthInv
    <3>2. CASE e.kind = "PhaseStarted"
      <4>1. statuses' = [statuses EXCEPT ![e.phase] = "Running"]
        BY <2>1, <3>2 DEF Apply
      <4>2. command = "clone" => Needs(e.phase) \subseteq done
        BY <2>2, <3>2 DEF Truths
      <4> QED
        BY <3>1, <4>1, <4>2
    <3>3. CASE e.kind = "PhaseCompleted"
      <4>1. statuses' = [statuses EXCEPT ![e.phase] = "Done"]
        BY <2>1, <3>3 DEF Apply
      <4>2. IsDone(e.phase)
        BY <2>2, <3>3 DEF Truths
      <4> QED
        BY <3>1, <4>1, <4>2
    <3>4. CASE e.kind = "Completed"
      <4>1. statuses' = [p \in DOMAIN statuses |-> "Done"]
        BY <2>1, <3>4 DEF Apply
      <4> QED
        BY <2>2, <3>1, <3>4, <4>1 DEF Truths
    <3>5. CASE e.kind \notin {"PhaseStarted", "PhaseCompleted", "Completed"}
      BY <2>1, <3>1, <3>5 DEF Apply
    <3> QED
      BY <3>2, <3>3, <3>4, <3>5
  <2>5. DisplayIsTrue'
    <3>1. DOMAIN statuses = PhasesShown /\ DisplayIsTrue
      BY DEF TruthInv
    <3>2. \A p \in PhasesShown :
            /\ statuses'[p] = "Done" => IsDone(p)
            /\ command = "clone" /\ statuses'[p] = "Running" => Needs(p) \subseteq done
      BY <2>4, <3>1 DEF DisplayIsTrue
    <3> QED
      BY <2>3, <2>4, <3>2, TruthStays DEF DisplayIsTrue
  <2>6. PhasesShown' = PhasesShown /\ EventsSent' \subseteq Truths'
    BY <1>2, TruthStays DEF TruthInv
  <2> QED
    BY <1>1, <2>1, <2>4, <2>5, <2>6 DEF TruthInv
<1> QED
  BY <1>3, <1>4 DEF RendererStep, Renderer, RendererStarts, Drain, Ask, Redraw, Wait, Close

\* The display shows as done only what is done, and as running only what can run, in every
\* interleaving of the work, its events and the renderer (emit_progress, ProgressState).
THEOREM DisplayCorrect == Spec => []DisplayIsTrue
<1>1. Init => DoneInv /\ TruthInv
  <2> SUFFICES ASSUME Init PROVE DoneInv /\ TruthInv
    OBVIOUS
  <2>1. DoneInv
    BY DEF Init, CloneInit, CloneOff, DoneInv, AfterRefs, AfterFetch, AfterStage, AfterChoice
  <2>2. /\ outbox = <<Started, PhaseStarted(1)>> /\ sent = <<>> /\ taken = 0
        /\ statuses = [p \in PhasesShown |-> "Waiting"]
    BY DEF Init, DisplayInit, PhasesShown
  <2>3. Started \in Truths /\ PhaseStarted(1) \in Truths
    BY DEF Truths, Events, Kinds, Started, PhaseStarted, Event, Needs
  <2>4. /\ outbox \in Seq(Events) /\ sent \in Seq(Events)
        /\ EventsSent = {Started, PhaseStarted(1)}
    <3>1. Started \in Events /\ PhaseStarted(1) \in Events
      BY <2>3 DEF Truths
    <3>2. {outbox[i] : i \in 1 .. Len(outbox)} = {Started, PhaseStarted(1)}
      BY <2>2
    <3>3. {sent[i] : i \in 1 .. Len(sent)} = {}
      BY <2>2, EmptySeq
    <3> QED
      BY <2>2, <3>1, <3>2, <3>3, EmptySeq DEF EventsSent
  <2>5. DisplayIsTrue
    BY <2>2 DEF DisplayIsTrue
  <2> QED
    BY <2>1, <2>2, <2>3, <2>4, <2>5 DEF TruthInv
<1>2. DoneInv /\ RefsInv /\ [Next]_vars => DoneInv'
  BY CloneSteps, DoneStep
<1>3. TruthInv /\ LocalInv /\ RefsInv /\ RefsInv' /\ DoneInv /\ DoneInv' /\ [Next]_vars => TruthInv'
  <2> SUFFICES ASSUME TruthInv, LocalInv, RefsInv, RefsInv', DoneInv, DoneInv', [Next]_vars
               PROVE  TruthInv'
    OBVIOUS
  <2>1. Onward
    BY GoesOnward
  <2>2. CASE CloneWork
    BY <2>1, <2>2, CloneReportsTruth
  <2>3. CASE WatchedWork
    BY <2>1, <2>3, CopyReportsTruth
  <2>4. CASE FetchReports \/ CommandStep
    BY <2>1, <2>4, SendingTruth
  <2>5. CASE RendererStep
    BY <2>1, <2>5, RenderingTruth
  <2>6. CASE FetchWork \/ ServerStep \/ (\E r \in Runs : OtherWork(r)) \/ UserWork \/ Ended
               \/ UNCHANGED vars
    <3>1. UNCHANGED <<outbox, sent, statuses, taken>>
      BY <2>6 DEF FetchWork, ServerStep, OtherWork, UserWork, Ended, vars, displayVars
    <3>2. EventsSent' = EventsSent
      BY <3>1 DEF EventsSent
    <3> QED
      BY <2>1, <3>1, <3>2, TruthKept DEF TruthInv
  <2> QED
    BY <2>2, <2>3, <2>4, <2>5, <2>6 DEF Next
<1>4. TruthInv => DisplayIsTrue
  BY DEF TruthInv
<1> QED
  BY <1>1, <1>2, <1>3, <1>4, LocalInvariant, RefsInvariant, PTL DEF Spec
=============================================================================
