--------------------------- MODULE CheckoutProofs ---------------------------
(***************************************************************************)
(* What Checkout promises, proved for every commit, every content of the   *)
(* root directory and every effect of git_index_path_bytes: what was in    *)
(* the root is untouched, nothing is created through a symlink, a checkout *)
(* that succeeds leaves the commit's tree and an index of it, and a tree   *)
(* that git would write is checked out.                                    *)
(***************************************************************************)
EXTENDS Checkout, SequenceTheorems, FiniteSetTheorems, WellFoundedInduction, TLAPS

\* Natural numbers have a least.
LEMMA LeastExists ==
  ASSUME NEW S \in SUBSET Nat, S # {}
  PROVE  \E m \in S : \A k \in S : m <= k
<1> DEFINE Less == {ss \in Nat \X Nat : ss[1] < ss[2]}
<1>1. IsWellFoundedOn(Less, Nat)
  BY NatLessThanWellFounded DEF OpToRel
<1>2. PICK m \in S : \A k \in S : <<k, m>> \notin Less
  <2> HIDE DEF Less
  <2> QED
    BY <1>1, WFMin
<1>3. \A k \in S : ~(k < m)
  BY <1>2
<1> QED
  BY <1>3

-----------------------------------------------------------------------------
(***************************************************************************)
(* Paths.  A path without "." is the path it is resolved to, and one whose *)
(* names git_index_path_bytes leaves alone is its own index path.          *)
(***************************************************************************)
Paths == Seq(Component)

\* Putting single names one behind the other gives the path of these names.
LEMMA FlattenNames ==
  ASSUME NEW p \in Paths, NEW q, q = [i \in DOMAIN p |-> <<p[i]>>]
  PROVE  FlattenSeq(q) = p
<1> DEFINE n == Len(p)
           Solves(f) == f = [i \in 1 .. n |-> IF i = 1 THEN q[i] ELSE f[i - 1] \o q[i]]
           first == [i \in 1 .. n |-> SubSeq(p, 1, i)]
           flatten == CHOOSE f : Solves(f)
<1>1. /\ n \in Nat /\ DOMAIN p = 1 .. n /\ Len(q) = n
      /\ \A i \in 1 .. n : p[i] \in Component /\ q[i] = <<p[i]>>
  BY DEF Paths
<1>2. CASE n = 0
  <2>1. q = <<>> /\ p = <<>>
    BY <1>1, <1>2 DEF Paths
  <2> QED
    BY <1>1, <1>2, <2>1 DEF FlattenSeq
<1>3. CASE n # 0
  <2>1. FlattenSeq(q) = flatten[n]
    BY <1>1, <1>3 DEF FlattenSeq
  <2>2. Solves(first)
    <3>1. ASSUME NEW i \in 1 .. n
          PROVE  first[i] = IF i = 1 THEN q[i] ELSE first[i - 1] \o q[i]
      <4>1. CASE i = 1
        <5>1. SubSeq(p, 1, 1) = <<p[1]>>
          <6>1. 1 \in 1 .. Len(p) /\ p \in Seq(Component)
            BY <1>1, <4>1 DEF Paths
          <6>2. SubSeq(p, 1, 1) = [k \in 1 .. 1 |-> p[k]]
            BY <6>1
          <6>3. <<p[1]>> = [k \in 1 .. 1 |-> p[1]]
            OBVIOUS
          <6>4. \A k \in 1 .. 1 : p[k] = p[1]
            OBVIOUS
          <6> QED
            BY <6>2, <6>3, <6>4
        <5> QED
          BY <1>1, <4>1, <5>1
      <4>2. CASE i # 1
        <5>1. i - 1 \in 1 .. n /\ i - 1 \in 0 .. n
          BY <1>1, <4>2
        <5>2. SubSeq(p, 1, i) = SubSeq(p, 1, i - 1) \o <<p[i]>>
          BY <1>1, <5>1 DEF Paths
        <5> QED
          BY <1>1, <4>2, <5>1, <5>2
      <4> QED
        BY <4>1, <4>2
    <3> HIDE DEF first
    <3>2. first = [i \in 1 .. n |-> first[i]]
      BY DEF first
    <3> QED
      BY <3>1, <3>2
  <2>3. Solves(flatten)
    <3> HIDE DEF first, Solves
    <3> QED
      BY <2>2
  <2>4. ASSUME NEW f, NEW g, Solves(f), Solves(g), f[n] # g[n] PROVE FALSE
    <3> DEFINE D == {i \in 1 .. n : f[i] # g[i]}
    <3>1. D \in SUBSET Nat /\ n \in D
      BY <1>1, <1>3, <2>4
    <3>2. PICK m \in D : \A k \in D : m <= k
      <4> HIDE DEF D
      <4> QED
        BY <3>1, LeastExists
    <3>3. m \in 1 .. n /\ f[m] # g[m]
      BY <3>2
    <3>4. m # 1
      BY <2>4, <3>3
    <3>5. m - 1 \in 1 .. n /\ ~(m <= m - 1)
      BY <1>1, <3>3, <3>4
    <3>6. f[m - 1] = g[m - 1]
      BY <3>2, <3>5
    <3>7. f[m] = f[m - 1] \o q[m] /\ g[m] = g[m - 1] \o q[m]
      BY <2>4, <3>3, <3>4
    <3> QED
      BY <3>3, <3>6, <3>7
  <2>5. flatten[n] = first[n]
    <3> HIDE DEF flatten, first, Solves, n
    <3> QED
      BY <2>2, <2>3, <2>4
  <2>6. first[n] = p
    BY <1>1, <1>3, SubSeqFull DEF Paths
  <2> QED
    BY <2>1, <2>5, <2>6
<1> QED
  BY <1>2, <1>3

\* Without the name "." a path is what it is resolved to.
LEMMA ResolvedPlain ==
  ASSUME NEW p \in Paths, Dot \notin Range(p)
  PROVE  Resolved(p) = p
<1>1. \A i \in DOMAIN p : p[i] # Dot
  BY DEF Range
<1>2. [i \in DOMAIN p |-> IF p[i] = Dot THEN <<>> ELSE <<p[i]>>] = [i \in DOMAIN p |-> <<p[i]>>]
  BY <1>1
<1> QED
  BY <1>2, FlattenNames DEF Resolved

\* With names git_index_path_bytes leaves alone a path is its own index path.
LEMMA GitPathPlain ==
  ASSUME NEW p \in Paths, \A n \in Range(p) : IndexNames[n] = <<n>>
  PROVE  GitPath(p) = p
<1>1. \A i \in DOMAIN p : IndexNames[p[i]] = <<p[i]>>
  BY DEF Range
<1>2. [i \in DOMAIN p |-> IndexNames[p[i]]] = [i \in DOMAIN p |-> <<p[i]>>]
  BY <1>1
<1> QED
  BY <1>2, FlattenNames DEF GitPath

\* A path is deeper than the directory it is in.
LEMMA DeeperThanParent ==
  ASSUME NEW p \in Paths, NEW n \in Component, n # Dot
  PROVE  Depth(p) \in Nat /\ Depth(Append(p, n)) = Depth(p) + 1
<1> DEFINE S == {i \in DOMAIN p : p[i] # Dot}
           k == Len(p) + 1
<1>1. Len(p) \in Nat /\ DOMAIN p = 1 .. Len(p) /\ k \notin DOMAIN p
  BY DEF Paths
<1>2. IsFiniteSet(S)
  <2>1. IsFiniteSet(1 .. Len(p))
    BY <1>1, FS_Interval
  <2> QED
    BY <1>1, <2>1, FS_Subset
<1>3. {i \in DOMAIN Append(p, n) : Append(p, n)[i] # Dot} = S \cup {k}
  <2>1. DOMAIN Append(p, n) = DOMAIN p \cup {k}
    BY <1>1 DEF Paths
  <2>2. Append(p, n)[k] = n /\ \A i \in DOMAIN p : Append(p, n)[i] = p[i]
    BY <1>1 DEF Paths
  <2> QED
    BY <2>1, <2>2
<1>4. Cardinality(S \cup {k}) = Cardinality(S) + 1 /\ Cardinality(S) \in Nat
  <2>1. k \notin S
    BY <1>1
  <2> HIDE DEF S, k
  <2> QED
    BY <1>2, <2>1, FS_AddElement, FS_CardinalityType
<1> QED
  BY <1>3, <1>4 DEF Depth

\* A path is its parent and its last component.
LEMMA PathFacts ==
  ASSUME NEW p \in Paths, NEW n \in Component
  PROVE  /\ Append(p, n) \in Paths /\ Append(p, n) # <<>>
         /\ Len(p) \in Nat /\ Len(Append(p, n)) = Len(p) + 1
         /\ Front(Append(p, n)) = p /\ Last(Append(p, n)) = n
         /\ Range(Append(p, n)) = Range(p) \cup {n}
         /\ \A q \in Paths, m \in Component : Append(p, n) = Append(q, m) => p = q /\ n = m
<1>1. Append(p, n) \in Paths /\ Len(p) \in Nat /\ Len(Append(p, n)) = Len(p) + 1
  BY DEF Paths
<1>2. Last(Append(p, n)) = n
  BY <1>1 DEF Last, Paths
<1>3. Front(Append(p, n)) = p
  BY <1>1 DEF Front, Paths
<1>4. Range(Append(p, n)) = Range(p) \cup {n}
  <2>1. DOMAIN Append(p, n) = DOMAIN p \cup {Len(p) + 1}
    BY DEF Paths
  <2>2. Append(p, n)[Len(p) + 1] = n /\ \A i \in DOMAIN p : Append(p, n)[i] = p[i]
    BY DEF Paths
  <2> QED
    BY <2>1, <2>2 DEF Range
<1>5. ASSUME NEW q \in Paths, NEW m \in Component, Append(p, n) = Append(q, m)
      PROVE  p = q /\ n = m
  <2>1. Front(Append(q, m)) = q /\ Last(Append(q, m)) = m
    BY DEF Front, Last, Paths
  <2> QED
    BY <1>2, <1>3, <1>5, <2>1
<1>6. Append(p, n) # <<>>
  BY <1>1
<1> QED
  BY <1>1, <1>2, <1>3, <1>4, <1>5, <1>6

-----------------------------------------------------------------------------
(***************************************************************************)
(* The tree of a commit.  The recursion that gives its levels defines a    *)
(* function; below the height of the tree there is no level, so the levels *)
(* have everything that is below any of their directories.                 *)
(***************************************************************************)
NextLevel(h, S) ==
  UNION {EntriesBelow(h, e.oid, e.path) : e \in {f \in S : f.mode = "Directory"}}

\* The first n levels.
LevelsTo(h, n, f) ==
  f = [m \in 0 .. n |-> IF m = 0 THEN EntriesBelow(h, RootTree(h), <<>>) ELSE NextLevel(h, f[m - 1])]

\* What the recursion says of a level, it says only once.
LEMMA LevelsUnique ==
  ASSUME NEW h, NEW n \in Nat, NEW k \in Nat, NEW f, NEW g, LevelsTo(h, n, f), LevelsTo(h, k, g),
         NEW m \in Nat, m <= n, m <= k
  PROVE  f[m] = g[m]
<1> DEFINE D == {i \in Nat : i <= n /\ i <= k /\ f[i] # g[i]}
<1>1. ASSUME D # {} PROVE FALSE
  <2>1. PICK i \in D : \A j \in D : i <= j
    <3>1. D \in SUBSET Nat
      OBVIOUS
    <3> HIDE DEF D
    <3> QED
      BY <1>1, <3>1, LeastExists
  <2>2. i \in Nat /\ i <= n /\ i <= k /\ f[i] # g[i]
    BY <2>1
  <2>3. i # 0
    BY <2>2 DEF LevelsTo
  <2>4. i - 1 \in Nat /\ ~(i <= i - 1) /\ i - 1 <= n /\ i - 1 <= k
    BY <2>2, <2>3
  <2>5. f[i - 1] = g[i - 1]
    BY <2>1, <2>4
  <2>6. f[i] = NextLevel(h, f[i - 1]) /\ g[i] = NextLevel(h, g[i - 1])
    BY <2>2, <2>3 DEF LevelsTo
  <2> QED
    BY <2>2, <2>5, <2>6
<1> QED
  BY <1>1

\* The first levels exist, however many.
LEMMA LevelsExist ==
  ASSUME NEW h, NEW n \in Nat
  PROVE  \E f : LevelsTo(h, n, f)
<1> DEFINE Bad == {k \in Nat : ~\E f : LevelsTo(h, k, f)}
<1>1. ASSUME Bad # {} PROVE FALSE
  <2>1. PICK k \in Bad : \A j \in Bad : k <= j
    <3>1. Bad \in SUBSET Nat
      OBVIOUS
    <3> HIDE DEF Bad
    <3> QED
      BY <1>1, <3>1, LeastExists
  <2>2. k \in Nat /\ ~\E f : LevelsTo(h, k, f)
    BY <2>1
  <2>3. CASE k = 0
    <3> DEFINE f == [m \in 0 .. 0 |-> EntriesBelow(h, RootTree(h), <<>>)]
    <3>1. LevelsTo(h, 0, f)
      BY DEF LevelsTo
    <3> QED
      BY <2>2, <2>3, <3>1
  <2>4. CASE k # 0
    <3>1. k - 1 \in Nat /\ ~(k <= k - 1)
      BY <2>2, <2>4
    <3>2. PICK g : LevelsTo(h, k - 1, g)
      BY <2>1, <3>1
    <3> DEFINE f == [m \in 0 .. k |-> IF m < k THEN g[m] ELSE NextLevel(h, g[k - 1])]
    <3>3. ASSUME NEW m \in 0 .. k
          PROVE  f[m] = IF m = 0 THEN EntriesBelow(h, RootTree(h), <<>>) ELSE NextLevel(h, f[m - 1])
      <4>1. CASE m < k
        <5>1. m \in 0 .. k - 1 /\ f[m] = g[m]
          BY <2>2, <4>1
        <5>2. m # 0 => f[m - 1] = g[m - 1]
          BY <2>2, <4>1
        <5>3. g[m] = IF m = 0 THEN EntriesBelow(h, RootTree(h), <<>>) ELSE NextLevel(h, g[m - 1])
          BY <3>2, <5>1 DEF LevelsTo
        <5> QED
          BY <5>1, <5>2, <5>3
      <4>2. CASE m = k
        <5>1. f[m] = NextLevel(h, g[k - 1]) /\ f[m - 1] = g[k - 1] /\ m # 0
          BY <2>2, <2>4, <4>2
        <5> QED
          BY <5>1
      <4> QED
        BY <2>2, <4>1, <4>2
    <3>4. f = [m \in 0 .. k |-> f[m]]
      OBVIOUS
    <3> HIDE DEF f
    <3>5. LevelsTo(h, k, f)
      BY <3>3, <3>4 DEF LevelsTo
    <3> QED
      BY <2>2, <3>5
  <2> QED
    BY <2>3, <2>4
<1> QED
  BY <1>1

\* So the levels are what the recursion says.
LEMMA LevelSteps ==
  ASSUME NEW h
  PROVE  /\ Level(h)[0] = EntriesBelow(h, RootTree(h), <<>>)
         /\ \A n \in Nat : Level(h)[n + 1] = NextLevel(h, Level(h)[n])
<1> DEFINE Solves(f) ==
             f = [n \in Nat |->
                    IF n = 0 THEN EntriesBelow(h, RootTree(h), <<>>)
                    ELSE UNION {EntriesBelow(h, e.oid, e.path) : e \in {d \in f[n - 1] : d.mode = "Directory"}}]
           first(n) == CHOOSE f : LevelsTo(h, n, f)
           all == [n \in Nat |-> first(n)[n]]
<1>1. \A n \in Nat : LevelsTo(h, n, first(n))
  BY LevelsExist
<1>2. ASSUME NEW n \in Nat
      PROVE  all[n] = IF n = 0 THEN EntriesBelow(h, RootTree(h), <<>>) ELSE NextLevel(h, all[n - 1])
  <2>1. LevelsTo(h, n, first(n))
    BY <1>1
  <2>2. n \in 0 .. n
    OBVIOUS
  <2> HIDE DEF first
  <2>3. all[n] = first(n)[n]
    OBVIOUS
  <2>4. CASE n = 0
    BY <2>1, <2>2, <2>3, <2>4 DEF LevelsTo
  <2>5. CASE n # 0
    <3>1. n - 1 \in Nat /\ n - 1 <= n /\ n - 1 <= n - 1
      BY <2>5
    <3>2. LevelsTo(h, n - 1, first(n - 1)) /\ all[n - 1] = first(n - 1)[n - 1]
      BY <1>1, <3>1
    <3>3. first(n)[n - 1] = first(n - 1)[n - 1]
      BY <2>1, <3>1, <3>2, LevelsUnique
    <3>4. first(n)[n] = NextLevel(h, first(n)[n - 1])
      BY <2>1, <2>2, <2>5 DEF LevelsTo
    <3> QED
      BY <2>3, <2>5, <3>2, <3>3, <3>4
  <2> QED
    BY <2>4, <2>5
<1> HIDE DEF first
<1>3. Solves(all)
  <2>1. all = [n \in Nat |-> all[n]]
    OBVIOUS
  <2> HIDE DEF all
  <2> QED
    BY <1>2, <2>1 DEF NextLevel
<1>4. Solves(Level(h))
  <2> HIDE DEF all
  <2> QED
    BY <1>3 DEF Level
<1> HIDE DEF all
<1>5. Level(h)[0] = EntriesBelow(h, RootTree(h), <<>>)
  BY <1>4
<1>6. ASSUME NEW n \in Nat PROVE Level(h)[n + 1] = NextLevel(h, Level(h)[n])
  <2>1. n + 1 \in Nat /\ n + 1 # 0 /\ (n + 1) - 1 = n
    OBVIOUS
  <2> QED
    BY <1>4, <2>1 DEF NextLevel
<1> QED
  BY <1>5, <1>6

Modes == BlobModes \cup {"Directory", "Gitlink"}
Placed == [path : Paths \ {<<>>}, mode : Modes, oid : Oid]

\* Where an entry of a tree is, when the tree is at a path.
Place(path, e) == [path |-> path \o e.name, mode |-> e.mode, oid |-> e.oid]

\* What the assumptions say of the objects of a commit.
LEMMA HeadFacts ==
  ASSUME NEW h \in Heads
  PROVE  /\ IsIn(h, h.commit, "commit") => RootTree(h) \in Oid
         /\ \A o : IsIn(h, o, "tree") =>
              /\ o \in Oid /\ h.objects[o].entries \in Seq(TreeEntry)
              /\ \A e \in Range(h.objects[o].entries) :
                   /\ e \in TreeEntry
                   /\ e.mode = "Directory" => Height[e.oid] < Height[o]
<1>1. \A o \in DOMAIN h.objects : h.objects[o] \in Object /\ o \in Oid
  BY CheckoutAssumption
<1>2. \A x \in Object : x.type = "commit" => x.tree \in Oid
  BY DEF Object
<1>3. \A x \in Object : x.type = "tree" => x.entries \in Seq(TreeEntry)
  BY DEF Object
<1>4. IsIn(h, h.commit, "commit") => RootTree(h) \in Oid
  BY <1>1, <1>2 DEF IsIn, RootTree
<1>5. ASSUME NEW o, IsIn(h, o, "tree")
      PROVE  /\ o \in Oid /\ h.objects[o].entries \in Seq(TreeEntry)
             /\ \A e \in Range(h.objects[o].entries) :
                  /\ e \in TreeEntry
                  /\ e.mode = "Directory" => Height[e.oid] < Height[o]
  <2>1. o \in DOMAIN h.objects /\ h.objects[o].type = "tree"
    BY <1>5 DEF IsIn
  <2>2. o \in Oid /\ h.objects[o].entries \in Seq(TreeEntry)
    BY <1>1, <1>3, <2>1
  <2>3. \A e \in Range(h.objects[o].entries) : e.mode = "Directory" => Height[e.oid] < Height[o]
    BY <2>1, CheckoutAssumption
  <2>4. \A e \in Range(h.objects[o].entries) : e \in TreeEntry
    BY <2>2 DEF Range
  <2> QED
    BY <2>2, <2>3, <2>4
<1> QED
  BY <1>4, <1>5

\* An entry of a tree has the path of the tree, and a name.
LEMMA PlaceFacts ==
  ASSUME NEW e \in TreeEntry, NEW p \in Paths
  PROVE  /\ Place(p, e) \in Placed /\ Place(p, e).path = p \o e.name
         /\ Place(p, e).mode = e.mode /\ Place(p, e).oid = e.oid
         /\ e.name \in Name /\ e.mode \in Modes /\ e.oid \in Oid
<1>1. e.name \in Name /\ e.mode \in Modes /\ e.oid \in Oid
  BY DEF TreeEntry, Modes
<1>2. p \o e.name \in Paths \ {<<>>}
  <2>1. /\ p \in Seq(Component) /\ e.name \in Seq(Component) /\ e.name # <<>>
    BY <1>1 DEF Paths, Name
  <2>2. /\ p \o e.name \in Seq(Component) /\ Len(p \o e.name) = Len(p) + Len(e.name)
        /\ Len(p) \in Nat /\ Len(e.name) \in Nat /\ Len(e.name) # 0
    BY <2>1
  <2> QED
    BY <2>2 DEF Paths
<1> QED
  BY <1>1, <1>2 DEF Place, Placed

\* What is directly below a tree at a path.
LEMMA BelowFacts ==
  ASSUME NEW h \in Heads, NEW o, NEW p \in Paths
  PROVE  /\ ~IsIn(h, o, "tree") => EntriesBelow(h, o, p) = {}
         /\ IsIn(h, o, "tree") =>
              EntriesBelow(h, o, p) = {Place(p, e) : e \in Range(h.objects[o].entries)}
         /\ EntriesBelow(h, o, p) \subseteq Placed
         /\ \A e \in EntriesBelow(h, o, p) :
              /\ IsIn(h, o, "tree")
              /\ e.mode = "Directory" => Height[e.oid] < Height[o]
<1>1. ~IsIn(h, o, "tree") => EntriesBelow(h, o, p) = {}
  BY DEF EntriesBelow
<1>2. IsIn(h, o, "tree") =>
        EntriesBelow(h, o, p) = {Place(p, e) : e \in Range(h.objects[o].entries)}
  BY DEF EntriesBelow, Place
<1>3. ASSUME NEW e \in EntriesBelow(h, o, p)
      PROVE  /\ e \in Placed
             /\ IsIn(h, o, "tree")
             /\ e.mode = "Directory" => Height[e.oid] < Height[o]
  <2>1. IsIn(h, o, "tree")
    BY <1>1
  <2>2. PICK t \in Range(h.objects[o].entries) : e = Place(p, t)
    BY <1>2, <2>1
  <2>3. t \in TreeEntry /\ (t.mode = "Directory" => Height[t.oid] < Height[o])
    BY <2>1, <2>2, HeadFacts
  <2>4. e \in Placed /\ e.mode = t.mode /\ e.oid = t.oid
    BY <2>2, <2>3, PlaceFacts
  <2> QED
    BY <2>1, <2>3, <2>4
<1> QED
  BY <1>1, <1>2, <1>3

LevelRight(h, n) ==
  \A e \in Level(h)[n] :
    /\ e \in Placed
    /\ e.mode = "Directory" => Height[e.oid] + n + 1 <= Height[RootTree(h)]

\* The trees are the lower the deeper they are.
LEMMA LevelFacts ==
  ASSUME NEW h \in Heads, IsIn(h, h.commit, "commit"), NEW n \in Nat
  PROVE  LevelRight(h, n)
<1> DEFINE Bad == {k \in Nat : ~LevelRight(h, k)}
<1>1. RootTree(h) \in Oid /\ Height[RootTree(h)] \in Nat
  BY HeadFacts, CheckoutAssumption
<1>2. <<>> \in Paths
  BY DEF Paths
<1>3. ASSUME Bad # {} PROVE FALSE
  <2>1. PICK k \in Bad : \A j \in Bad : k <= j
    <3>1. Bad \in SUBSET Nat
      OBVIOUS
    <3> HIDE DEF Bad
    <3> QED
      BY <1>3, <3>1, LeastExists
  <2>2. k \in Nat /\ ~LevelRight(h, k)
    BY <2>1
  <2>3. CASE k = 0
    <3>1. ASSUME NEW e \in Level(h)[0]
          PROVE  /\ e \in Placed
                 /\ e.mode = "Directory" => Height[e.oid] + 0 + 1 <= Height[RootTree(h)]
      <4>1. e \in EntriesBelow(h, RootTree(h), <<>>)
        BY LevelSteps
      <4>2. /\ e \in Placed
            /\ e.mode = "Directory" => Height[e.oid] < Height[RootTree(h)]
        <5>1. \A f \in EntriesBelow(h, RootTree(h), <<>>) :
                /\ f \in Placed
                /\ f.mode = "Directory" => Height[f.oid] < Height[RootTree(h)]
          BY <1>2, BelowFacts
        <5> QED
          BY <1>2, <4>1, <5>1
      <4>3. e.oid \in Oid /\ Height[e.oid] \in Nat
        BY <4>2, CheckoutAssumption DEF Placed
      <4> QED
        BY <1>1, <4>2, <4>3
    <3> QED
      BY <2>2, <2>3, <3>1 DEF LevelRight
  <2>4. CASE k # 0
    <3>1. k - 1 \in Nat /\ ~(k <= k - 1) /\ (k - 1) + 1 = k
      BY <2>2, <2>4
    <3>2. LevelRight(h, k - 1)
      BY <2>1, <3>1
    <3>3. Level(h)[k] = NextLevel(h, Level(h)[k - 1])
      BY <3>1, LevelSteps
    <3>4. ASSUME NEW e \in Level(h)[k]
          PROVE  /\ e \in Placed
                 /\ e.mode = "Directory" => Height[e.oid] + k + 1 <= Height[RootTree(h)]
      <4>1. PICK d \in Level(h)[k - 1] : d.mode = "Directory" /\ e \in EntriesBelow(h, d.oid, d.path)
        BY <3>3 DEF NextLevel
      <4>2. /\ d \in Placed
            /\ Height[d.oid] + k <= Height[RootTree(h)]
        <5>1. /\ d \in Placed
              /\ Height[d.oid] + (k - 1) + 1 <= Height[RootTree(h)]
          BY <3>2, <4>1 DEF LevelRight
        <5>2. Height[d.oid] \in Nat
          BY <5>1, CheckoutAssumption DEF Placed
        <5> QED
          BY <2>2, <5>1, <5>2
      <4>3. d.path \in Paths /\ d.oid \in Oid
        BY <4>2 DEF Placed
      <4>4. /\ e \in Placed
            /\ e.mode = "Directory" => Height[e.oid] < Height[d.oid]
        BY <4>1, <4>2, <4>3, BelowFacts
      <4>5. e.oid \in Oid /\ Height[e.oid] \in Nat /\ Height[d.oid] \in Nat
        BY <4>3, <4>4, CheckoutAssumption DEF Placed
      <4> QED
        BY <1>1, <2>2, <4>2, <4>4, <4>5
    <3> QED
      BY <2>2, <3>4 DEF LevelRight
  <2> QED
    BY <2>3, <2>4
<1> QED
  BY <1>3

\* The tree of a commit: what is below its root, and below each directory that is.
LEMMA TreeFacts ==
  ASSUME NEW h \in Heads, IsIn(h, h.commit, "commit")
  PROVE  /\ TreeOf(h) \subseteq Placed
         /\ EntriesBelow(h, RootTree(h), <<>>) \subseteq TreeOf(h)
         /\ \A d \in TreeOf(h) : d.mode = "Directory" => EntriesBelow(h, d.oid, d.path) \subseteq TreeOf(h)
         /\ \A e \in TreeOf(h) :
              \/ e \in EntriesBelow(h, RootTree(h), <<>>)
              \/ \E d \in TreeOf(h) : d.mode = "Directory" /\ e \in EntriesBelow(h, d.oid, d.path)
<1> DEFINE top == Height[RootTree(h)]
<1>1. RootTree(h) \in Oid /\ top \in Nat
  BY HeadFacts, CheckoutAssumption
<1>2. TreeOf(h) = UNION {Level(h)[n] : n \in 0 .. top}
  BY DEF TreeOf
<1>3. \A n \in Nat : LevelRight(h, n)
  BY LevelFacts
<1> HIDE DEF top
<1>4. TreeOf(h) \subseteq Placed
  BY <1>1, <1>2, <1>3 DEF LevelRight
<1>5. EntriesBelow(h, RootTree(h), <<>>) \subseteq TreeOf(h)
  <2>1. 0 \in 0 .. top
    BY <1>1
  <2> QED
    BY <1>2, <2>1, LevelSteps
<1>6. ASSUME NEW d \in TreeOf(h), d.mode = "Directory"
      PROVE  EntriesBelow(h, d.oid, d.path) \subseteq TreeOf(h)
  <2>1. PICK n \in 0 .. top : d \in Level(h)[n]
    BY <1>2
  <2>2. n \in Nat /\ d \in Placed /\ Height[d.oid] + n + 1 <= top
    BY <1>1, <1>3, <1>6, <2>1 DEF LevelRight, top
  <2>3. Height[d.oid] \in Nat
    BY <2>2, CheckoutAssumption DEF Placed
  <2>4. n + 1 \in 0 .. top
    BY <1>1, <2>2, <2>3
  <2>5. Level(h)[n + 1] = NextLevel(h, Level(h)[n])
    BY <2>2, LevelSteps
  <2>6. EntriesBelow(h, d.oid, d.path) \subseteq Level(h)[n + 1]
    BY <1>6, <2>1, <2>5 DEF NextLevel
  <2> QED
    BY <1>2, <2>4, <2>6
<1>7. ASSUME NEW e \in TreeOf(h)
      PROVE  \/ e \in EntriesBelow(h, RootTree(h), <<>>)
             \/ \E d \in TreeOf(h) : d.mode = "Directory" /\ e \in EntriesBelow(h, d.oid, d.path)
  <2>1. PICK n \in 0 .. top : e \in Level(h)[n]
    BY <1>2
  <2>2. CASE n = 0
    BY <2>1, <2>2, LevelSteps
  <2>3. CASE n # 0
    <3>1. n - 1 \in Nat /\ n - 1 \in 0 .. top /\ (n - 1) + 1 = n
      BY <1>1, <2>3
    <3>2. Level(h)[n] = NextLevel(h, Level(h)[n - 1])
      BY <3>1, LevelSteps
    <3>3. PICK d \in Level(h)[n - 1] : d.mode = "Directory" /\ e \in EntriesBelow(h, d.oid, d.path)
      BY <2>1, <3>2 DEF NextLevel
    <3>4. d \in TreeOf(h)
      BY <1>2, <3>1, <3>3
    <3> QED
      BY <3>3, <3>4
  <2> QED
    BY <2>2, <2>3
<1> QED
  BY <1>4, <1>5, <1>6, <1>7

\* The tree is in every set that has what is below its root and below each of its
\* directories.
LEMMA TreeLeast ==
  ASSUME NEW h \in Heads, IsIn(h, h.commit, "commit"), NEW S,
         EntriesBelow(h, RootTree(h), <<>>) \subseteq S,
         \A d \in S : d.mode = "Directory" => EntriesBelow(h, d.oid, d.path) \subseteq S
  PROVE  TreeOf(h) \subseteq S
<1> DEFINE Bad == {n \in Nat : ~(Level(h)[n] \subseteq S)}
<1>1. ASSUME Bad # {} PROVE FALSE
  <2>1. PICK n \in Bad : \A j \in Bad : n <= j
    <3>1. Bad \in SUBSET Nat
      OBVIOUS
    <3> HIDE DEF Bad
    <3> QED
      BY <1>1, <3>1, LeastExists
  <2>2. n \in Nat /\ ~(Level(h)[n] \subseteq S)
    BY <2>1
  <2>3. n # 0
    BY <2>2, LevelSteps
  <2>4. n - 1 \in Nat /\ ~(n <= n - 1) /\ (n - 1) + 1 = n
    BY <2>2, <2>3
  <2>5. Level(h)[n - 1] \subseteq S
    BY <2>1, <2>4
  <2>6. Level(h)[n] = NextLevel(h, Level(h)[n - 1])
    BY <2>4, LevelSteps
  <2>7. Level(h)[n] \subseteq S
    BY <2>5, <2>6 DEF NextLevel
  <2> QED
    BY <2>2, <2>7
<1>2. \A n \in Nat : Level(h)[n] \subseteq S
  BY <1>1
<1>3. RootTree(h) \in Oid /\ Height[RootTree(h)] \in Nat
  BY HeadFacts, CheckoutAssumption
<1>4. TreeOf(h) = UNION {Level(h)[n] : n \in 0 .. Height[RootTree(h)]}
  BY DEF TreeOf
<1> QED
  BY <1>2, <1>3, <1>4

-----------------------------------------------------------------------------
(***************************************************************************)
(* The walk over the trees.  What is pending is what the calls have still  *)
(* to visit; everything that is below a directory visited is pending or    *)
(* visited itself, so when nothing is pending the whole tree is visited.   *)
(***************************************************************************)
Call == [path : Paths, entries : Seq(TreeEntry)]

Pending == UNION {{Place(stack[k].path, e) : e \in Range(stack[k].entries)} : k \in DOMAIN stack}

PendingOf(calls) == UNION {{Place(calls[k].path, e) : e \in Range(calls[k].entries)} : k \in DOMAIN calls}

DirectoriesIn(S) == {e.path : e \in {d \in S : d.mode = "Directory"}}
FilesIn(S) == {e \in S : e.mode \in BlobModes}

Handled(h, S) ==
  /\ S \subseteq TreeOf(h)
  /\ EntriesBelow(h, RootTree(h), <<>>) \subseteq S \cup Pending
  /\ \A d \in S : d.mode = "Directory" => EntriesBelow(h, d.oid, d.path) \subseteq S \cup Pending
  /\ \A e \in S : Safe(e.path)
  /\ directories = DirectoriesIn(S)
  /\ Range(manifest) = FilesIn(S)

Collected(h) ==
  /\ IsIn(h, h.commit, "commit")
  /\ Range(manifest) = FilesIn(TreeOf(h))
  /\ \A e \in TreeOf(h) : Safe(e.path)

WalkInv(h) ==
  /\ stack \in Seq(Call) /\ manifest \in Seq(Placed) /\ directories \subseteq Paths
  /\ pc = "commit" => manifest = <<>> /\ directories = {} /\ stack = <<>>
  /\ pc = "trees" =>
       /\ stack # <<>> /\ IsIn(h, h.commit, "commit")
       /\ Pending \subseteq TreeOf(h)
       /\ \E S \in SUBSET Placed : Handled(h, S)
  /\ pc \in {"directories", "files", "index", "ok"} => Collected(h)

\* One call more has its entries pending.
LEMMA PendingMore ==
  ASSUME NEW calls \in Seq(Call), NEW c \in Call
  PROVE  /\ Append(calls, c) \in Seq(Call)
         /\ PendingOf(Append(calls, c)) = PendingOf(calls) \cup {Place(c.path, e) : e \in Range(c.entries)}
<1> DEFINE more == Append(calls, c)
           n == Len(calls)
<1>1. /\ n \in Nat /\ DOMAIN calls = 1 .. n /\ DOMAIN more = (1 .. n) \cup {n + 1}
      /\ \A k \in 1 .. n : more[k] = calls[k]
      /\ more[n + 1] = c
  OBVIOUS
<1>2. more \in Seq(Call)
  OBVIOUS
<1> HIDE DEF more, n
<1> DEFINE P(x) == {Place(x.path, e) : e \in Range(x.entries)}
<1>3. PendingOf(more) = UNION {P(more[k]) : k \in DOMAIN more}
  BY DEF PendingOf
<1>4. PendingOf(calls) = UNION {P(calls[k]) : k \in DOMAIN calls}
  BY DEF PendingOf
<1>5. PendingOf(more) = PendingOf(calls) \cup P(c)
  <2> HIDE DEF P
  <2>1. ASSUME NEW x PROVE x \in PendingOf(more) <=> x \in PendingOf(calls) \cup P(c)
    <3>1. x \in PendingOf(more) <=> \E k \in (1 .. n) \cup {n + 1} : x \in P(more[k])
      BY <1>1, <1>3
    <3>2. x \in PendingOf(calls) <=> \E k \in 1 .. n : x \in P(calls[k])
      BY <1>1, <1>4
    <3>3. (\E k \in 1 .. n : x \in P(more[k])) <=> \E k \in 1 .. n : x \in P(calls[k])
      BY <1>1
    <3>4. x \in P(more[n + 1]) <=> x \in P(c)
      BY <1>1
    <3> QED
      BY <3>1, <3>2, <3>3, <3>4
  <2> QED
    BY <2>1
<1> QED
  BY <1>2, <1>5 DEF more

\* The calls are the ones below the last one, and that one.
LEMMA CallsFacts ==
  ASSUME NEW calls \in Seq(Call), calls # <<>>
  PROVE  /\ Front(calls) \in Seq(Call) /\ Last(calls) \in Call
         /\ calls = Append(Front(calls), Last(calls))
         /\ Len(Front(calls)) + 1 = Len(calls)
         /\ \A k \in DOMAIN Front(calls) : k \in DOMAIN calls /\ Front(calls)[k] = calls[k]
         /\ Len(calls) \in DOMAIN calls /\ Last(calls) = calls[Len(calls)]
         /\ PendingOf(calls) = PendingOf(Front(calls))
                                 \cup {Place(Last(calls).path, e) : e \in Range(Last(calls).entries)}
<1> DEFINE n == Len(calls)
<1>1. n \in Nat /\ n # 0 /\ n \in DOMAIN calls /\ calls[n] \in Call /\ Last(calls) = calls[n]
  BY DEF Last
<1>2. /\ Front(calls) \in Seq(Call) /\ Len(Front(calls)) = n - 1
      /\ \A k \in 1 .. n - 1 : Front(calls)[k] = calls[k]
  <2>1. n - 1 \in Nat /\ n - 1 <= n
    BY <1>1
  <2>2. Front(calls) = SubSeq(calls, 1, n - 1)
    BY DEF Front
  <2>3. \A i \in 1 .. n - 1 : calls[i] \in Call
    BY <1>1
  <2> HIDE DEF n
  <2>4. /\ SubSeq(calls, 1, n - 1) \in Seq(Call)
        /\ Len(SubSeq(calls, 1, n - 1)) = IF 1 <= n - 1 THEN (n - 1) - 1 + 1 ELSE 0
        /\ \A i \in 1 .. (n - 1) - 1 + 1 : SubSeq(calls, 1, n - 1)[i] = calls[1 + i - 1]
    <3>1. 1 \in Int /\ n - 1 \in Int
      BY <2>1
    <3> QED
      BY <2>3, <3>1, SubSeqProperties
  <2> QED
    BY <1>1, <2>1, <2>2, <2>4
<1>3. calls = Append(Front(calls), Last(calls))
  <2>1. calls = Append(SubSeq(calls, 1, n - 1), calls[n])
    BY <1>1
  <2> QED
    BY <1>1, <2>1 DEF Front
<1>4. DOMAIN Front(calls) = 1 .. n - 1 /\ DOMAIN calls = 1 .. n
  BY <1>2
<1>5. PendingOf(Append(Front(calls), Last(calls)))
        = PendingOf(Front(calls)) \cup {Place(Last(calls).path, e) : e \in Range(Last(calls).entries)}
  <2>1. Front(calls) \in Seq(Call) /\ Last(calls) \in Call
    BY <1>1, <1>2
  <2> QED
    BY <2>1, PendingMore
<1>6. PendingOf(calls)
        = PendingOf(Front(calls)) \cup {Place(Last(calls).path, e) : e \in Range(Last(calls).entries)}
  BY <1>3, <1>5
<1>7. Len(Front(calls)) + 1 = Len(calls)
  BY <1>1, <1>2
<1> QED
  BY <1>1, <1>2, <1>3, <1>4, <1>6, <1>7

\* The next entry of a call.
LEMMA EntriesFacts ==
  ASSUME NEW entries \in Seq(TreeEntry), entries # <<>>
  PROVE  /\ Head(entries) \in TreeEntry /\ Tail(entries) \in Seq(TreeEntry)
         /\ Range(entries) = {Head(entries)} \cup Range(Tail(entries))
         /\ Len(entries) \in Nat /\ Len(Tail(entries)) = Len(entries) - 1
         /\ Head(entries) = entries[1] /\ 1 \in DOMAIN entries
         /\ \A k \in DOMAIN Tail(entries) : k + 1 \in DOMAIN entries /\ Tail(entries)[k] = entries[k + 1]
<1> DEFINE n == Len(entries)
<1>1. /\ n \in Nat /\ n # 0 /\ Head(entries) = entries[1] /\ entries[1] \in TreeEntry
      /\ Tail(entries) \in Seq(TreeEntry) /\ Len(Tail(entries)) = n - 1
      /\ \A k \in 1 .. n - 1 : Tail(entries)[k] = entries[k + 1]
      /\ DOMAIN entries = 1 .. n /\ DOMAIN Tail(entries) = 1 .. n - 1
  OBVIOUS
<1>2. \A x : (\E k \in 1 .. n : entries[k] = x)
              <=> x = entries[1] \/ \E k \in 1 .. n - 1 : entries[k + 1] = x
  <2>1. \A k \in 1 .. n : k = 1 \/ (k - 1 \in 1 .. n - 1 /\ (k - 1) + 1 = k)
    BY <1>1
  <2>2. 1 \in 1 .. n /\ \A k \in 1 .. n - 1 : k + 1 \in 1 .. n
    BY <1>1
  <2> QED
    BY <2>1, <2>2
<1> HIDE DEF n
<1>3. Range(entries) = {Head(entries)} \cup Range(Tail(entries))
  <2>1. ASSUME NEW x PROVE x \in Range(entries) <=> x = Head(entries) \/ x \in Range(Tail(entries))
    <3>1. x \in Range(entries) <=> \E k \in 1 .. n : entries[k] = x
      BY <1>1 DEF Range
    <3>2. x \in Range(Tail(entries)) <=> \E k \in 1 .. n - 1 : Tail(entries)[k] = x
      BY <1>1 DEF Range
    <3>3. (\E k \in 1 .. n - 1 : Tail(entries)[k] = x) <=> \E k \in 1 .. n - 1 : entries[k + 1] = x
      BY <1>1
    <3> QED
      BY <1>1, <1>2, <3>1, <3>2, <3>3
  <2> QED
    BY <2>1
<1>4. \A k \in DOMAIN Tail(entries) : k + 1 \in DOMAIN entries
  BY <1>1
<1>5. 1 \in DOMAIN entries
  BY <1>1
<1> QED
  BY <1>1, <1>3, <1>4, <1>5 DEF n

\* The entry a step of the walk visits, and what is pending without it.
LEMMA VisitFacts ==
  ASSUME stack \in Seq(Call), stack # <<>>, Top.entries # <<>>
  PROVE  /\ Top \in Call /\ Below \in Seq(Call) /\ Visited \in Seq(Call)
         /\ Entry \in TreeEntry /\ EntryPath = Top.path \o Entry.name
         /\ EntryPath \in Paths /\ EntryPath # <<>>
         /\ Place(Top.path, Entry) \in Pending
         /\ Pending = PendingOf(Visited) \cup {Place(Top.path, Entry)}
         /\ Visited # <<>>
<1> DEFINE rest == [Top EXCEPT !.entries = Tail(@)]
<1>1. /\ Below \in Seq(Call) /\ Top \in Call
      /\ PendingOf(stack) = PendingOf(Below) \cup {Place(Top.path, e) : e \in Range(Top.entries)}
  BY CallsFacts DEF Below, Top
<1>2. Top.path \in Paths /\ Top.entries \in Seq(TreeEntry)
  BY <1>1 DEF Call
<1>3. /\ Entry \in TreeEntry /\ Tail(Top.entries) \in Seq(TreeEntry)
      /\ Range(Top.entries) = {Entry} \cup Range(Tail(Top.entries))
  BY <1>2, EntriesFacts DEF Entry
<1>4. rest \in Call /\ rest.path = Top.path /\ rest.entries = Tail(Top.entries)
  BY <1>1, <1>2, <1>3 DEF Call
<1>5. Visited = Append(Below, rest)
  BY DEF Visited
<1> HIDE DEF rest
<1>6. /\ Visited \in Seq(Call)
      /\ PendingOf(Visited) = PendingOf(Below) \cup {Place(Top.path, e) : e \in Range(Tail(Top.entries))}
  <2>1. /\ Append(Below, rest) \in Seq(Call)
        /\ PendingOf(Append(Below, rest))
             = PendingOf(Below) \cup {Place(rest.path, e) : e \in Range(rest.entries)}
    BY <1>1, <1>4, PendingMore
  <2> QED
    BY <1>4, <1>5, <2>1
<1>7. EntryPath = Top.path \o Entry.name
  BY DEF EntryPath
<1>8. EntryPath \in Paths /\ EntryPath # <<>>
  <2>1. Place(Top.path, Entry) \in Placed /\ Place(Top.path, Entry).path = EntryPath
    BY <1>2, <1>3, <1>7, PlaceFacts
  <2> QED
    BY <2>1 DEF Placed
<1>9. Pending = PendingOf(stack)
  BY DEF Pending, PendingOf
<1>10. Visited # <<>>
  <2>1. Len(Append(Below, rest)) = Len(Below) + 1 /\ Len(Below) \in Nat
    BY <1>1, <1>4
  <2> QED
    BY <1>5, <2>1
<1> QED
  BY <1>1, <1>3, <1>6, <1>7, <1>8, <1>9, <1>10

\* Nothing is collected before the commit is read.
LEMMA WalkInitial ==
  ASSUME NEW h, head = h, Init
  PROVE  WalkInv(h)
BY DEF WalkInv, Init

\* The commit's tree is entered: what is directly below the root is pending.
LEMMA ReadCommitWalks ==
  ASSUME NEW h \in Heads, head = h, WalkInv(h), ReadCommit
  PROVE  WalkInv(h)'
<1> DEFINE root == RootTree(h)
           call == [path |-> <<>>, entries |-> h.objects[root].entries]
<1>1. /\ IsIn(h, h.commit, "commit") /\ IsIn(h, root, "tree")
      /\ pc = "commit" /\ pc' = "trees" /\ stack' = <<call>>
      /\ directories' = {} /\ manifest' = <<>>
  BY DEF ReadCommit, Is, Goes, Entering, RootTree, WalkInv
<1>2. call \in Call /\ call.path = <<>> /\ call.entries = h.objects[root].entries
  <2>1. h.objects[root].entries \in Seq(TreeEntry)
    BY <1>1, HeadFacts
  <2>2. <<>> \in Paths
    BY DEF Paths
  <2> QED
    BY <2>1, <2>2 DEF Call
<1> HIDE DEF call
<1>3. Pending' = {Place(<<>>, e) : e \in Range(h.objects[root].entries)}
  <2>1. <<call>> = Append(<<>>, call) /\ <<>> \in Seq(Call)
    OBVIOUS
  <2>2. PendingOf(<<call>>) = PendingOf(<<>>) \cup {Place(call.path, e) : e \in Range(call.entries)}
    BY <1>2, <2>1, PendingMore
  <2>3. PendingOf(<<>>) = {}
    BY DEF PendingOf
  <2>4. Pending' = PendingOf(<<call>>)
    BY <1>1 DEF Pending, PendingOf
  <2> QED
    BY <1>2, <2>2, <2>3, <2>4
<1>4. Pending' = EntriesBelow(h, root, <<>>)
  <2>1. <<>> \in Paths
    BY DEF Paths
  <2>2. EntriesBelow(h, root, <<>>) = {Place(<<>>, e) : e \in Range(h.objects[root].entries)}
    BY <1>1, <2>1, BelowFacts
  <2> QED
    BY <1>3, <2>2
<1>5. Pending' \subseteq TreeOf(h)
  BY <1>1, <1>4, TreeFacts
<1>6. Handled(h, {})'
  <2>1. DirectoriesIn({}) = {} /\ FilesIn({}) = {}
    BY DEF DirectoriesIn, FilesIn
  <2>2. Range(<<>>) = {}
    BY DEF Range
  <2> QED
    BY <1>1, <1>4, <2>1, <2>2 DEF Handled
<1>7. stack' \in Seq(Call) /\ stack' # <<>>
  BY <1>1, <1>2
<1>8. manifest' \in Seq(Placed)
  BY <1>1
<1>9. {} \in SUBSET Placed
  OBVIOUS
<1>10. \E S \in SUBSET Placed : Handled(h, S)'
  BY <1>6, <1>9
<1> QED
  BY <1>1, <1>5, <1>7, <1>8, <1>10 DEF WalkInv

\* Visiting an entry: it is handled, and what is below it is pending.
LEMMA VisitWalks ==
  ASSUME NEW h \in Heads, head = h, WalkInv(h), VisitDirectory \/ VisitFile \/ VisitGitlink
  PROVE  WalkInv(h)'
<1> DEFINE r == Place(Top.path, Entry)
<1>1. /\ pc = "trees" /\ pc' = "trees" /\ stack # <<>> /\ stack \in Seq(Call)
      /\ IsIn(h, h.commit, "commit") /\ Pending \subseteq TreeOf(h)
      /\ manifest \in Seq(Placed) /\ directories \subseteq Paths
      /\ Top.entries # <<>> /\ Safe(EntryPath)
  BY DEF VisitDirectory, VisitFile, VisitGitlink, Visit, Goes, WalkInv
<1>2. PICK S \in SUBSET Placed : Handled(h, S)
  BY <1>1 DEF WalkInv
<1>3. /\ Visited \in Seq(Call) /\ Entry \in TreeEntry /\ Top \in Call
      /\ EntryPath = Top.path \o Entry.name /\ EntryPath \in Paths
      /\ r \in Pending /\ Pending = PendingOf(Visited) \cup {r}
  BY <1>1, VisitFacts
<1>4. r \in Placed /\ r.path = EntryPath /\ r.mode = Entry.mode /\ r.oid = Entry.oid
  <2>1. Top.path \in Paths
    BY <1>3 DEF Call
  <2> QED
    BY <1>3, <2>1, PlaceFacts
<1>5. r \in TreeOf(h)
  BY <1>1, <1>3
<1>6. r = [path |-> EntryPath, mode |-> Entry.mode, oid |-> Entry.oid]
  BY <1>3 DEF Place
<1> HIDE DEF r
<1>a. PICK T : T = S \cup {r}
  OBVIOUS
<1>7. /\ Pending' \subseteq TreeOf(h) /\ Pending \subseteq Pending' \cup {r}
      /\ r.mode = "Directory" => EntriesBelow(h, r.oid, r.path) \subseteq Pending'
      /\ stack' \in Seq(Call) /\ stack' # <<>>
  <2>1. CASE VisitDirectory
    <3> DEFINE call == [path |-> EntryPath, entries |-> h.objects[Entry.oid].entries]
    <3>1. IsIn(h, Entry.oid, "tree") /\ stack' = Append(Visited, call) /\ Entry.mode = "Directory"
      BY <2>1 DEF VisitDirectory, Is, Entering
    <3>2. call \in Call /\ call.path = EntryPath /\ call.entries = h.objects[Entry.oid].entries
      <4>1. h.objects[Entry.oid].entries \in Seq(TreeEntry)
        BY <3>1, HeadFacts
      <4> QED
        BY <1>3, <4>1 DEF Call
    <3> HIDE DEF call
    <3>3. /\ Append(Visited, call) \in Seq(Call)
          /\ PendingOf(Append(Visited, call))
               = PendingOf(Visited) \cup {Place(call.path, e) : e \in Range(call.entries)}
      BY <1>3, <3>2, PendingMore
    <3>4. Pending' = PendingOf(Append(Visited, call))
      BY <3>1 DEF Pending, PendingOf
    <3>5. EntriesBelow(h, r.oid, r.path) = {Place(EntryPath, e) : e \in Range(h.objects[Entry.oid].entries)}
      BY <1>3, <1>4, <3>1, BelowFacts
    <3>6. Pending' = PendingOf(Visited) \cup EntriesBelow(h, r.oid, r.path)
      BY <3>2, <3>3, <3>4, <3>5
    <3>7. EntriesBelow(h, r.oid, r.path) \subseteq TreeOf(h)
      BY <1>1, <1>4, <1>5, <3>1, TreeFacts
    <3>8. stack' \in Seq(Call) /\ stack' # <<>>
      BY <1>3, <3>1, <3>2
    <3> QED
      BY <1>1, <1>3, <3>6, <3>7, <3>8
  <2>2. CASE VisitFile \/ VisitGitlink
    <3>1. stack' = Visited /\ Entry.mode # "Directory"
      BY <2>2 DEF VisitFile, VisitGitlink, BlobModes, FileModes
    <3>2. Pending' = PendingOf(Visited)
      BY <3>1 DEF Pending, PendingOf
    <3>3. Visited # <<>>
      BY <1>1, VisitFacts
    <3> QED
      BY <1>1, <1>3, <1>4, <3>1, <3>2, <3>3
  <2> QED
    BY <2>1, <2>2
<1>8. /\ directories' = DirectoriesIn(T) /\ Range(manifest') = FilesIn(T)
      /\ manifest' \in Seq(Placed) /\ directories' \subseteq Paths
  <2>1. directories = DirectoriesIn(S) /\ Range(manifest) = FilesIn(S)
    BY <1>2 DEF Handled
  <2>2. CASE VisitDirectory
    <3>1. directories' = directories \cup {EntryPath} /\ manifest' = manifest /\ r.mode = "Directory"
      BY <1>4, <2>2 DEF VisitDirectory
    <3>2. DirectoriesIn(T) = DirectoriesIn(S) \cup {EntryPath}
      BY <1>4, <1>a, <3>1 DEF DirectoriesIn
    <3>3. FilesIn(T) = FilesIn(S)
      BY <1>a, <3>1 DEF FilesIn, BlobModes, FileModes
    <3> QED
      BY <1>1, <1>3, <2>1, <3>1, <3>2, <3>3
  <2>3. CASE VisitFile
    <3>1. /\ directories' = directories /\ manifest' = Append(manifest, r)
          /\ r.mode \in BlobModes /\ r.mode # "Directory"
      BY <1>4, <1>6, <2>3 DEF VisitFile, BlobModes, FileModes
    <3>2. DirectoriesIn(T) = DirectoriesIn(S)
      BY <1>a, <3>1 DEF DirectoriesIn
    <3>3. FilesIn(T) = FilesIn(S) \cup {r}
      BY <1>a, <3>1 DEF FilesIn
    <3>4. Range(manifest') = Range(manifest) \cup {r} /\ manifest' \in Seq(Placed)
      <4>1. /\ DOMAIN Append(manifest, r) = DOMAIN manifest \cup {Len(manifest) + 1}
            /\ Append(manifest, r)[Len(manifest) + 1] = r
            /\ \A i \in DOMAIN manifest : Append(manifest, r)[i] = manifest[i]
            /\ Append(manifest, r) \in Seq(Placed)
        BY <1>1, <1>4
      <4> QED
        BY <3>1, <4>1 DEF Range
    <3> QED
      BY <1>1, <2>1, <3>1, <3>2, <3>3, <3>4
  <2>4. CASE VisitGitlink
    <3>1. directories' = directories /\ manifest' = manifest /\ r.mode = "Gitlink"
      BY <1>4, <2>4 DEF VisitGitlink
    <3>2. DirectoriesIn(T) = DirectoriesIn(S) /\ FilesIn(T) = FilesIn(S)
      BY <1>a, <3>1 DEF DirectoriesIn, FilesIn, BlobModes, FileModes
    <3> QED
      BY <1>1, <2>1, <3>1, <3>2
  <2> QED
    BY <2>2, <2>3, <2>4
<1>9. T \in SUBSET Placed
  BY <1>4, <1>a
<1>10. Handled(h, T)'
  <2>1. /\ S \subseteq TreeOf(h)
        /\ EntriesBelow(h, RootTree(h), <<>>) \subseteq S \cup Pending
        /\ \A d \in S : d.mode = "Directory" => EntriesBelow(h, d.oid, d.path) \subseteq S \cup Pending
        /\ \A e \in S : Safe(e.path)
    BY <1>2 DEF Handled
  <2>2. T \subseteq TreeOf(h) /\ EntriesBelow(h, RootTree(h), <<>>) \subseteq T \cup Pending'
    BY <1>5, <1>7, <1>a, <2>1
  <2>3. \A d \in T : d.mode = "Directory" => EntriesBelow(h, d.oid, d.path) \subseteq T \cup Pending'
    BY <1>7, <1>a, <2>1
  <2>4. \A e \in T : Safe(e.path)
    BY <1>1, <1>4, <1>a, <2>1
  <2> QED
    BY <1>8, <2>2, <2>3, <2>4 DEF Handled
<1>11. \E X \in SUBSET Placed : Handled(h, X)'
  BY <1>9, <1>10
<1> QED
  BY <1>1, <1>7, <1>8, <1>11 DEF WalkInv

\* A tree whose entries are all visited is left; when it was the last one, the whole
\* tree of the commit is collected.
LEMMA LeaveTreeWalks ==
  ASSUME NEW h \in Heads, head = h, WalkInv(h), LeaveTree
  PROVE  /\ WalkInv(h)'
         /\ pc' = "directories" => directories' = DirectoriesIn(TreeOf(h))
<1>1. /\ pc = "trees" /\ stack # <<>> /\ stack \in Seq(Call)
      /\ IsIn(h, h.commit, "commit") /\ Pending \subseteq TreeOf(h)
      /\ manifest \in Seq(Placed) /\ directories \subseteq Paths
      /\ pc' = (IF Below = <<>> THEN "directories" ELSE "trees")
      /\ Top.entries = <<>> /\ stack' = Below
      /\ directories' = directories /\ manifest' = manifest
  BY DEF LeaveTree, Goes, WalkInv
<1>2. PICK S \in SUBSET Placed : Handled(h, S)
  BY <1>1 DEF WalkInv
<1>3. Below \in Seq(Call) /\ PendingOf(stack) = PendingOf(Below)
  <2>1. /\ Below \in Seq(Call)
        /\ PendingOf(stack) = PendingOf(Below) \cup {Place(Top.path, e) : e \in Range(Top.entries)}
    BY <1>1, CallsFacts DEF Below, Top
  <2>2. Range(Top.entries) = {}
    BY <1>1 DEF Range
  <2> QED
    BY <2>1, <2>2
<1>4. Pending = PendingOf(stack) /\ Pending' = PendingOf(Below)
  BY <1>1 DEF Pending, PendingOf
<1>5. Handled(h, S)'
  BY <1>1, <1>2, <1>3, <1>4 DEF Handled
<1>6. CASE Below = <<>>
  <2>1. Pending = {}
    <3>1. PendingOf(<<>>) = {}
      BY DEF PendingOf
    <3> QED
      BY <1>3, <1>4, <1>6, <3>1
  <2>2. TreeOf(h) \subseteq S
    BY <1>1, <1>2, <2>1, TreeLeast DEF Handled
  <2>3. TreeOf(h) = S
    BY <1>2, <2>2 DEF Handled
  <2>4. directories = DirectoriesIn(TreeOf(h)) /\ Collected(h)
    BY <1>1, <1>2, <2>3 DEF Handled, Collected
  <2>5. Collected(h)'
    BY <1>1, <2>4 DEF Collected
  <2> QED
    BY <1>1, <1>3, <1>6, <2>4, <2>5 DEF WalkInv
<1>7. CASE Below # <<>>
  <2>1. \E X \in SUBSET Placed : Handled(h, X)'
    BY <1>5
  <2> QED
    BY <1>1, <1>3, <1>4, <1>7, <2>1 DEF WalkInv
<1> QED
  BY <1>6, <1>7

\* After the walk, the manifest does not change.
LEMMA WalkStep ==
  ASSUME NEW h \in Heads, head = h, WalkInv(h), [Next]_vars
  PROVE  WalkInv(h)' /\ head' = h
<1>1. CASE ReadCommit
  BY <1>1, ReadCommitWalks DEF ReadCommit, Goes
<1>2. CASE VisitDirectory \/ VisitFile \/ VisitGitlink
  BY <1>2, VisitWalks DEF VisitDirectory, VisitFile, VisitGitlink, Visit, Goes
<1>3. CASE LeaveTree
  BY <1>3, LeaveTreeWalks DEF LeaveTree, Goes
<1>4. CASE RejectCommit \/ RejectEntry \/ CreateDirectoryFails \/ WriteIndexFails
  BY <1>4 DEF RejectCommit, RejectEntry, CreateDirectoryFails, WriteIndexFails, Goes, WalkInv
<1>5. CASE CreateDirectory \/ StartFiles
  BY <1>5 DEF CreateDirectory, StartFiles, Goes, WalkInv, Collected
<1>6. CASE \E i \in left : WriteFile(i) \/ WriteSymlink(i) \/ WriteFails(i)
  BY <1>6 DEF WriteFile, WriteSymlink, WriteFails, Materialize, Goes, WalkInv, Collected
<1>7. CASE EndFiles \/ WriteIndex
  BY <1>7 DEF EndFiles, WriteIndex, Goes, WalkInv, Collected
<1>8. CASE Done \/ UNCHANGED vars
  <2>1. UNCHANGED vars
    BY <1>8 DEF Done
  <2>2. Pending' = Pending
    BY <2>1 DEF vars, Pending
  <2>3. \A S : Handled(h, S)' <=> Handled(h, S)
    BY <2>1, <2>2 DEF vars, Handled
  <2>4. Collected(h)' <=> Collected(h)
    BY <2>1 DEF vars, Collected
  <2> QED
    BY <2>1, <2>2, <2>3, <2>4 DEF vars, WalkInv
<1> QED
  BY <1>1, <1>2, <1>3, <1>4, <1>5, <1>6, <1>7, <1>8 DEF Next, Step

\* A path that is not the root is a component in its parent.
LEMMA PathParts ==
  ASSUME NEW p \in Paths, p # <<>>
  PROVE  Front(p) \in Paths /\ Last(p) \in Component /\ p = Append(Front(p), Last(p))
<1> DEFINE n == Len(p)
<1>1. n \in Nat /\ n # 0 /\ n \in DOMAIN p /\ p[n] \in Component /\ Last(p) = p[n]
  BY DEF Last, Paths
<1>2. Front(p) \in Paths
  <2>1. 1 \in Int /\ n - 1 \in Int
    BY <1>1
  <2>2. \A i \in 1 .. n - 1 : p[i] \in Component
    BY <1>1 DEF Paths
  <2> HIDE DEF n
  <2>3. SubSeq(p, 1, n - 1) \in Seq(Component)
    BY <2>1, <2>2, SubSeqProperties
  <2> QED
    BY <2>3 DEF Front, Paths, n
<1>3. p = Append(SubSeq(p, 1, n - 1), p[n])
  BY <1>1 DEF Paths
<1> QED
  BY <1>1, <1>2, <1>3 DEF Front

-----------------------------------------------------------------------------
(***************************************************************************)
(* The disk only ever gets more: what is created was not there.            *)
(***************************************************************************)
Grows ==
  \A p \in DOMAIN disk : p \in DOMAIN disk' /\ disk'[p] = disk[p]

\* What is created is new, and the rest stays.
LEMMA DiskGrows ==
  ASSUME NEW path, NEW node, CanCreate(path), disk' = DiskWith(path, node)
  PROVE  /\ Grows /\ DOMAIN disk' = DOMAIN disk \cup {Resolved(path)}
         /\ Resolved(path) \notin DOMAIN disk /\ disk'[Resolved(path)] = node
BY DEF CanCreate, DiskWith, Grows

\* No step takes from the disk or changes what is there.
LEMMA StepGrows ==
  ASSUME [Next]_vars
  PROVE  Grows
<1>1. CASE CreateDirectory
  BY <1>1, DiskGrows DEF CreateDirectory
<1>2. ASSUME NEW i \in left, WriteFile(i) PROVE Grows
  BY <1>2, DiskGrows DEF WriteFile
<1>3. ASSUME NEW i \in left, WriteSymlink(i) PROVE Grows
  BY <1>3, DiskGrows DEF WriteSymlink
<1>4. ASSUME disk' = disk PROVE Grows
  BY <1>4 DEF Grows
<1> QED
  BY <1>1, <1>2, <1>3, <1>4
  DEF Next, Step, ReadCommit, RejectCommit, VisitDirectory, VisitFile, VisitGitlink, Visit,
      RejectEntry, LeaveTree, CreateDirectoryFails, StartFiles, WriteFails, EndFiles, WriteIndex,
      WriteIndexFails, Done, fileVars, vars

\* What was in the root before is never touched.
THEOREM UntouchedCorrect == Spec => []ExistingUntouched
<1>1. Init => ExistingUntouched
  BY DEF Init, ExistingUntouched
<1>2. ExistingUntouched /\ [Next]_vars => ExistingUntouched'
  <2> SUFFICES ASSUME ExistingUntouched, [Next]_vars PROVE ExistingUntouched'
    OBVIOUS
  <2>1. Grows
    BY StepGrows
  <2> QED
    BY <2>1 DEF Grows, ExistingUntouched
<1> QED
  BY <1>1, <1>2, PTL DEF Spec

-----------------------------------------------------------------------------
(***************************************************************************)
(* Directories and files on the disk.                                      *)
(***************************************************************************)
Own(h) ==
  \A e, f \in TreeOf(h) :
    e.mode = "Directory" /\ f.mode = "Directory" /\ GitPath(e.path) = GitPath(f.path)
      => e.path = f.path

Apart(h) ==
  \A s, e \in TreeOf(h) :
    s.mode = "Symlink" /\ IsStrictPrefix(Resolved(s.path), Resolved(e.path)) =>
      \E d \in TreeOf(h) : d.mode = "Directory" /\ Resolved(d.path) = Resolved(s.path)

Dirs(h) == DirectoriesIn(TreeOf(h))

\* The directories that are no longer to be created are there, and they are new.
DirsMade(h) ==
  /\ directories \subseteq Dirs(h)
  /\ \A p \in Dirs(h) \ directories :
       /\ Resolved(p) \in DOMAIN disk /\ disk[Resolved(p)] = Dir
       /\ Resolved(p) \notin DOMAIN Existing

Written == DOMAIN manifest \ left

\* The symlinks that are there are of the tree.
SymlinksOf(h) ==
  \A s \in DOMAIN disk : disk[s].kind = "symlink" =>
    \E e \in TreeOf(h) : e.mode = "Symlink" /\ Resolved(e.path) = s

\* So are the files that were taken, whole and each in a place of its own, unless a
\* thread has met an error; and nothing else is.
FilesMade(h) ==
  /\ left \subseteq DOMAIN manifest
  /\ directories = {}
  /\ \A p \in DOMAIN disk \ DOMAIN Existing :
       \/ \E d \in Dirs(h) : p = Resolved(d)
       \/ \E i \in Written : p = Resolved(manifest[i].path)
  /\ ~aborted =>
       /\ \A i \in Written :
            LET p == Resolved(manifest[i].path)
            IN p \in DOMAIN disk /\ disk[p] = NodeOf(manifest[i]) /\ p \notin DOMAIN Existing
       /\ \A i, j \in Written : Resolved(manifest[i].path) = Resolved(manifest[j].path) => i = j

DiskInv(h) ==
  /\ IsTreeOfDirectories(disk)
  /\ SymlinksOf(h)
  /\ aborted \in BOOLEAN
  /\ pc \in {"commit", "trees"} => disk = Existing
  /\ pc \in {"directories", "files", "index", "ok"} => DirsMade(h)
  /\ pc = "directories" =>
       /\ \A p \in DOMAIN disk : disk[p].kind # "symlink"
       /\ \A p \in DOMAIN disk \ DOMAIN Existing : \E d \in Dirs(h) \ directories : p = Resolved(d)
  /\ pc \in {"files", "index", "ok"} => FilesMade(h)
  /\ pc \in {"commit", "trees", "directories", "index", "ok"} => aborted = FALSE
  /\ pc \in {"index", "ok"} => left = {}
  /\ pc = "ok" => index = IndexEntries

\* No entry is below a symlink that is there: a directory of the tree is in the place.
LEMMA NotThrough ==
  ASSUME NEW h, Apart(h), NEW e \in TreeOf(h), DirsMade(h), SymlinksOf(h),
         directories = {} \/ \A p \in DOMAIN disk : disk[p].kind # "symlink"
  PROVE  ~ThroughSymlink(e.path)
<1> SUFFICES ASSUME NEW s \in DOMAIN disk, disk[s].kind = "symlink",
                    IsStrictPrefix(s, Resolved(e.path))
             PROVE  FALSE
  BY DEF ThroughSymlink
<1>1. PICK t \in TreeOf(h) : t.mode = "Symlink" /\ Resolved(t.path) = s
  BY DEF SymlinksOf
<1>2. PICK d \in TreeOf(h) : d.mode = "Directory" /\ Resolved(d.path) = s
  BY <1>1 DEF Apart
<1>3. d.path \in Dirs(h) \ directories
  BY <1>2 DEF Dirs, DirectoriesIn
<1>4. disk[s] = Dir
  BY <1>2, <1>3 DEF DirsMade
<1> QED
  BY <1>4 DEF Dir

\* What is not created through a symlink is created in a directory.
LEMMA CreateFacts ==
  ASSUME NEW path, CanCreate(path), ~ThroughSymlink(path), ExistingUntouched,
         IsTreeOfDirectories(disk), NEW node, disk' = DiskWith(path, node)
  PROVE  /\ Grows /\ DOMAIN disk' = DOMAIN disk \cup {Resolved(path)}
         /\ Resolved(path) \notin DOMAIN disk /\ disk'[Resolved(path)] = node
         /\ IsTreeOfDirectories(disk)' /\ Resolved(path) \notin DOMAIN Existing
<1>1. PICK p : p = Resolved(path)
  OBVIOUS
<1>2. Front(p) \in DOMAIN disk /\ disk[Front(p)] = Dir
  BY <1>1 DEF CanCreate, InDirectory, Parent
<1>3. Grows /\ DOMAIN disk' = DOMAIN disk \cup {p} /\ p \notin DOMAIN disk /\ disk'[p] = node
  BY <1>1, DiskGrows
<1>4. p \notin DOMAIN Existing
  BY <1>3 DEF ExistingUntouched
<1>5. IsTreeOfDirectories(disk)'
  BY <1>2, <1>3 DEF IsTreeOfDirectories, Grows
<1> QED
  BY <1>1, <1>3, <1>4, <1>5

\* Of directories that each have an index path of their own, none is passed over.
LEMMA OneCreated ==
  ASSUME NEW h, Own(h), directories \subseteq Dirs(h), NEW d \in directories, NEW same \in Deduplicated(d)
  PROVE  same = {d}
<1>1. d \in same /\ \A e \in same : e \in directories /\ GitPath(e) = GitPath(d)
  BY DEF Deduplicated
<1>2. \A e \in directories : GitPath(e) = GitPath(d) => e = d
  BY DEF Own, Dirs, DirectoriesIn
<1> QED
  BY <1>1, <1>2

\* A directory is created, before any symlink.
LEMMA CreateDirectoryMakes ==
  ASSUME NEW h \in Heads, head = h, DiskInv(h), Own(h), Apart(h), ExistingUntouched, CreateDirectory
  PROVE  DiskInv(h)'
<1>1. PICK d \in NextDirectories : \E same \in Deduplicated(d) :
        /\ Goes("directories", "directories") /\ CanCreate(d) /\ disk' = DiskWith(d, Dir)
        /\ directories' = directories \ same
        /\ UNCHANGED <<stack, manifest, left, aborted, index>>
  BY DEF CreateDirectory
<1>2. /\ d \in directories /\ DirsMade(h) /\ IsTreeOfDirectories(disk) /\ SymlinksOf(h)
      /\ pc = "directories" /\ pc' = "directories" /\ aborted' = FALSE /\ CanCreate(d)
      /\ disk' = DiskWith(d, Dir)
      /\ \A p \in DOMAIN disk : disk[p].kind # "symlink"
      /\ \A p \in DOMAIN disk \ DOMAIN Existing : \E c \in Dirs(h) \ directories : p = Resolved(c)
  BY <1>1 DEF NextDirectories, DiskInv, Goes
<1>3. directories' = directories \ {d}
  BY <1>1, <1>2, OneCreated DEF DirsMade
<1>4. PICK e \in TreeOf(h) : e.mode = "Directory" /\ e.path = d
  BY <1>2 DEF DirsMade, Dirs, DirectoriesIn
<1>5. ~ThroughSymlink(d)
  BY <1>2, <1>4, NotThrough
<1>6. /\ Grows /\ DOMAIN disk' = DOMAIN disk \cup {Resolved(d)} /\ disk'[Resolved(d)] = Dir
      /\ IsTreeOfDirectories(disk)' /\ Resolved(d) \notin DOMAIN Existing
  BY <1>2, <1>5, CreateFacts
<1>7. DirsMade(h)'
  BY <1>2, <1>3, <1>6 DEF DirsMade, Grows
<1>8. \A p \in DOMAIN disk' : disk'[p].kind # "symlink"
  BY <1>2, <1>6 DEF Grows, Dir
<1>9. \A p \in DOMAIN disk' \ DOMAIN Existing : \E c \in Dirs(h) \ directories' : p = Resolved(c)
  BY <1>2, <1>3, <1>6 DEF DirsMade
<1>10. SymlinksOf(h)'
  BY <1>8 DEF SymlinksOf
<1> QED
  BY <1>2, <1>6, <1>7, <1>8, <1>9, <1>10 DEF DiskInv

\* A file or symlink is no directory.
LEMMA ModesDiffer ==
  ASSUME NEW e, e.mode \in BlobModes
  PROVE  NodeOf(e) # Dir /\ e.mode # "Directory"
<1>1. CASE e.mode \in FileModes
  BY <1>1 DEF NodeOf, File, Dir, FileModes
<1>2. CASE e.mode = "Symlink"
  <2>1. NodeOf(e).kind = "symlink" /\ Dir.kind = "dir"
    BY <1>2 DEF NodeOf, Dir
  <2> QED
    BY <1>2, <2>1
<1> QED
  BY <1>1, <1>2 DEF BlobModes

\* A file or symlink is written next to what was written, in a directory of the tree.
LEMMA WriteMakes ==
  ASSUME NEW h \in Heads, head = h, WalkInv(h), DiskInv(h), Apart(h), ExistingUntouched,
         NEW i \in left, WriteFile(i) \/ WriteSymlink(i)
  PROVE  DiskInv(h)'
<1>1. PICK e : e = manifest[i]
  OBVIOUS
<1>2. PICK node :
        /\ disk' = DiskWith(e.path, node) /\ CanCreate(e.path) /\ Materialize(i)
        /\ aborted' \in BOOLEAN
        /\ ~aborted' => ~aborted /\ node = NodeOf(e)
        /\ node.kind = "symlink" => e.mode = "Symlink"
  <2>1. CASE WriteFile(i)
    <3>1. /\ e.mode \in FileModes /\ CanCreate(e.path) /\ Materialize(i)
      BY <1>1, <2>1 DEF WriteFile
    <3>2. PICK whole \in BOOLEAN : disk' = DiskWith(e.path, File(e, whole)) /\ aborted' = (aborted \/ ~whole)
      BY <1>1, <2>1 DEF WriteFile
    <3>3. e.mode # "Symlink"
      BY <3>1 DEF FileModes
    <3>4. NodeOf(e) = File(e, TRUE)
      BY <3>3 DEF NodeOf
    <3>5. PICK n : n = File(e, whole)
      OBVIOUS
    <3>6. n.kind # "symlink"
      BY <3>5 DEF File
    <3>7. aborted' \in BOOLEAN /\ (~aborted' => ~aborted /\ n = NodeOf(e))
      BY <3>2, <3>4, <3>5
    <3> QED
      BY <3>1, <3>2, <3>5, <3>6, <3>7
  <2>2. CASE WriteSymlink(i)
    <3>1. /\ e.mode = "Symlink" /\ CanCreate(e.path) /\ Materialize(i) /\ aborted' = aborted
          /\ disk' = DiskWith(e.path, [kind |-> "symlink", oid |-> e.oid])
      BY <1>1, <2>2 DEF WriteSymlink
    <3>2. NodeOf(e) = [kind |-> "symlink", oid |-> e.oid]
      BY <3>1 DEF NodeOf
    <3>3. aborted \in BOOLEAN
      BY DEF DiskInv
    <3> QED
      BY <3>1, <3>2, <3>3
  <2> QED
    BY <2>1, <2>2
<1>3. /\ pc = "files" /\ pc' = "files" /\ left' = left \ {i} /\ manifest' = manifest
      /\ directories' = directories
      /\ DirsMade(h) /\ FilesMade(h) /\ IsTreeOfDirectories(disk) /\ SymlinksOf(h) /\ Collected(h)
  BY <1>2 DEF Materialize, Goes, DiskInv, WalkInv
<1>4. /\ i \in DOMAIN manifest /\ directories = {} /\ e \in Range(manifest)
      /\ e \in TreeOf(h) /\ e.mode \in BlobModes
  BY <1>1, <1>3 DEF FilesMade, Collected, FilesIn, Range
<1>5. PICK p : p = Resolved(e.path)
  OBVIOUS
<1>6. /\ Grows /\ DOMAIN disk' = DOMAIN disk \cup {p} /\ p \notin DOMAIN disk /\ disk'[p] = node
      /\ IsTreeOfDirectories(disk)' /\ p \notin DOMAIN Existing
  <2>1. ~ThroughSymlink(e.path)
    BY <1>3, <1>4, NotThrough
  <2> QED
    BY <1>2, <1>3, <1>5, <2>1, CreateFacts
<1>7. Written' = Written \cup {i} /\ i \notin Written /\ left' \subseteq DOMAIN manifest
  BY <1>3, <1>4 DEF Written, FilesMade
<1>8. DirsMade(h)'
  BY <1>3, <1>4, <1>6 DEF DirsMade, Grows
<1>9. SymlinksOf(h)'
  BY <1>2, <1>3, <1>4, <1>5, <1>6 DEF SymlinksOf, Grows
<1>10. FilesMade(h)'
  <2>1. \A q \in DOMAIN disk' \ DOMAIN Existing :
          \/ \E d \in Dirs(h) : q = Resolved(d)
          \/ \E k \in Written' : q = Resolved(manifest'[k].path)
    BY <1>1, <1>3, <1>5, <1>6, <1>7 DEF FilesMade
  <2>2. ASSUME ~aborted'
        PROVE  /\ \A k \in Written' :
                    LET q == Resolved(manifest'[k].path)
                    IN q \in DOMAIN disk' /\ disk'[q] = NodeOf(manifest'[k]) /\ q \notin DOMAIN Existing
               /\ \A k, l \in Written' :
                    Resolved(manifest'[k].path) = Resolved(manifest'[l].path) => k = l
    <3>1. ~aborted /\ node = NodeOf(e)
      BY <1>2, <2>2
    <3>2. PICK f : f = [k \in DOMAIN manifest |-> Resolved(manifest[k].path)]
      OBVIOUS
    <3>3. /\ \A k \in DOMAIN manifest : f[k] = Resolved(manifest[k].path)
          /\ Written \subseteq DOMAIN manifest /\ f[i] = p
      BY <1>1, <1>4, <1>5, <3>2 DEF Written
    <3>4. /\ \A k \in Written :
               f[k] \in DOMAIN disk /\ disk[f[k]] = NodeOf(manifest[k]) /\ f[k] \notin DOMAIN Existing
          /\ \A k, l \in Written : f[k] = f[l] => k = l
      BY <1>3, <3>1, <3>3 DEF FilesMade
    <3>5. \A k \in Written : f[k] # p
      BY <1>6, <3>4
    <3>6. \A k \in Written' :
            f[k] \in DOMAIN disk' /\ disk'[f[k]] = NodeOf(manifest[k]) /\ f[k] \notin DOMAIN Existing
      BY <1>1, <1>6, <1>7, <3>1, <3>3, <3>4 DEF Grows
    <3>7. \A k, l \in Written' : f[k] = f[l] => k = l
      BY <1>7, <3>3, <3>4, <3>5
    <3>8. Written' \subseteq DOMAIN manifest
      BY <1>4, <1>7, <3>3
    <3> QED
      BY <1>3, <3>3, <3>6, <3>7, <3>8
  <2>3. directories' = {} /\ left' \subseteq DOMAIN manifest'
    BY <1>3, <1>4, <1>7
  <2> QED
    BY <2>1, <2>2, <2>3 DEF FilesMade
<1> QED
  BY <1>2, <1>3, <1>6, <1>8, <1>9, <1>10 DEF DiskInv

\* Nothing is created before the walk.
LEMMA DiskInitial ==
  ASSUME NEW h, head = h, Init
  PROVE  DiskInv(h)
<1>1. IsTreeOfDirectories(Existing) /\ \A p \in DOMAIN Existing : Existing[p].kind # "symlink"
  BY CheckoutAssumption
<1> QED
  BY <1>1 DEF DiskInv, SymlinksOf, Init

\* Every step keeps the disk the part of the tree that is created so far.
LEMMA DiskStep ==
  ASSUME NEW h \in Heads, head = h, WalkInv(h), DiskInv(h), Own(h), Apart(h), ExistingUntouched,
         [Next]_vars
  PROVE  DiskInv(h)'
<1>1. CASE ReadCommit \/ VisitDirectory \/ VisitFile \/ VisitGitlink
  BY <1>1 DEF ReadCommit, VisitDirectory, VisitFile, VisitGitlink, Visit, Goes, fileVars, DiskInv, SymlinksOf
<1>2. CASE RejectCommit \/ RejectEntry \/ CreateDirectoryFails \/ WriteIndexFails
  BY <1>2 DEF RejectCommit, RejectEntry, CreateDirectoryFails, WriteIndexFails, Goes, fileVars, DiskInv, SymlinksOf
<1>3. CASE LeaveTree
  <2>1. /\ pc = "trees" /\ pc' \in {"directories", "trees"} /\ disk' = disk /\ disk = Existing
        /\ aborted' = aborted
    BY <1>3 DEF LeaveTree, Goes, fileVars, DiskInv, SymlinksOf
  <2>2. pc' = "directories" => directories' = Dirs(h)
    BY <1>3, LeaveTreeWalks DEF Dirs
  <2>3. pc' = "directories" => DirsMade(h)'
    BY <2>2 DEF DirsMade
  <2>4. \A p \in DOMAIN Existing : Existing[p].kind # "symlink"
    BY CheckoutAssumption
  <2>5. SymlinksOf(h)'
    BY <2>1, <2>4 DEF SymlinksOf
  <2>6. IsTreeOfDirectories(disk)'
    BY <2>1 DEF DiskInv
  <2> QED
    BY <2>1, <2>3, <2>4, <2>5, <2>6 DEF DiskInv
<1>4. CASE CreateDirectory
  BY <1>4, CreateDirectoryMakes
<1>5. CASE StartFiles
  <2>1. /\ pc = "directories" /\ pc' = "files" /\ disk' = disk /\ directories = {}
        /\ directories' = {} /\ left' = DOMAIN manifest /\ manifest' = manifest /\ aborted' = aborted
    BY <1>5 DEF StartFiles, Goes
  <2>2. Written' = {}
    BY <2>1 DEF Written
  <2>3. /\ \A p \in DOMAIN disk \ DOMAIN Existing : \E d \in Dirs(h) : p = Resolved(d)
        /\ DirsMade(h)
    BY <2>1 DEF DiskInv
  <2>4. FilesMade(h)'
    BY <2>1, <2>2, <2>3 DEF FilesMade
  <2>5. DirsMade(h)'
    BY <2>1, <2>3 DEF DirsMade
  <2> QED
    BY <2>1, <2>4, <2>5 DEF DiskInv, SymlinksOf
<1>6. CASE \E i \in left : WriteFile(i) \/ WriteSymlink(i)
  BY <1>6, WriteMakes
<1>7. CASE \E i \in left : WriteFails(i)
  <2>1. PICK i \in left : WriteFails(i)
    BY <1>7
  <2>2. /\ pc = "files" /\ pc' = "files" /\ disk' = disk /\ directories' = directories
        /\ left' = left \ {i} /\ manifest' = manifest /\ aborted' = TRUE
        /\ FilesMade(h) /\ DirsMade(h)
    BY <2>1 DEF WriteFails, Materialize, Goes, DiskInv
  <2>3. Written \subseteq Written'
    BY <2>2 DEF Written
  <2>4. FilesMade(h)'
    BY <2>2, <2>3 DEF FilesMade
  <2>5. DirsMade(h)'
    BY <2>2 DEF DirsMade
  <2> QED
    BY <2>2, <2>4, <2>5 DEF DiskInv, SymlinksOf
<1>8. CASE EndFiles \/ WriteIndex
  <2>1. /\ disk' = disk /\ directories' = directories /\ left' = left /\ manifest' = manifest
        /\ aborted' = aborted /\ pc \in {"files", "index"}
        /\ pc' \in {"index", "ok", "err"} /\ (pc' # "err" => ~aborted /\ left = {})
        /\ (pc' = "ok" => index' = IndexEntries)
    BY <1>8 DEF EndFiles, WriteIndex, Goes, fileVars, DiskInv, SymlinksOf
  <2>2. Written' = Written /\ FilesMade(h) /\ DirsMade(h)
    BY <2>1 DEF Written, DiskInv
  <2>3. FilesMade(h)' /\ DirsMade(h)'
    BY <2>1, <2>2 DEF FilesMade, DirsMade
  <2>4. IndexEntries' = IndexEntries
    BY <2>1 DEF IndexEntries
  <2> QED
    BY <2>1, <2>3, <2>4 DEF DiskInv, SymlinksOf
<1>9. CASE Done \/ UNCHANGED vars
  <2>1. UNCHANGED vars
    BY <1>9 DEF Done
  <2>2. Written' = Written /\ IndexEntries' = IndexEntries
    BY <2>1 DEF Written, IndexEntries, vars
  <2>3. (FilesMade(h)' <=> FilesMade(h)) /\ (DirsMade(h)' <=> DirsMade(h))
    BY <2>1, <2>2 DEF vars, FilesMade, DirsMade
  <2> QED
    BY <2>1, <2>2, <2>3 DEF vars, DiskInv, SymlinksOf
<1> QED
  BY <1>1, <1>2, <1>3, <1>4, <1>5, <1>6, <1>7, <1>8, <1>9 DEF Next, Step

\* The walk, and the disk when every directory has an index path of its own and no
\* name leads below a symlink.
CheckoutInv ==
  /\ ExistingUntouched
  /\ \E h \in Heads : head = h /\ WalkInv(h) /\ (Own(h) /\ Apart(h) => DiskInv(h))

\* Both hold of every checkout.
LEMMA CheckoutInvariant == Spec => []CheckoutInv
<1>1. Init => CheckoutInv
  <2> SUFFICES ASSUME Init PROVE CheckoutInv
    OBVIOUS
  <2>1. PICK h \in Heads : head = h
    BY DEF Init
  <2>2. ExistingUntouched
    BY DEF Init, ExistingUntouched
  <2> QED
    BY <2>1, <2>2, WalkInitial, DiskInitial DEF CheckoutInv
<1>2. CheckoutInv /\ [Next]_vars => CheckoutInv'
  <2> SUFFICES ASSUME CheckoutInv, [Next]_vars PROVE CheckoutInv'
    OBVIOUS
  <2>1. PICK h \in Heads : head = h /\ WalkInv(h) /\ (Own(h) /\ Apart(h) => DiskInv(h))
    BY DEF CheckoutInv
  <2>2. ExistingUntouched /\ Grows
    BY StepGrows DEF CheckoutInv
  <2>3. ExistingUntouched'
    BY <2>2 DEF Grows, ExistingUntouched
  <2>4. WalkInv(h)' /\ head' = h
    BY <2>1, WalkStep
  <2>5. Own(h) /\ Apart(h) => DiskInv(h)'
    BY <2>1, <2>2, DiskStep
  <2>6. WalkInv(h)' /\ (Own(h) /\ Apart(h) => DiskInv(h)')
    BY <2>4, <2>5
  <2>7. (Own(h)' <=> Own(h)) /\ (Apart(h)' <=> Apart(h))
    BY DEF Own, Apart
  <2> QED
    BY <2>1, <2>3, <2>4, <2>5, <2>7 DEF CheckoutInv
<1> QED
  BY <1>1, <1>2, PTL DEF Spec

\* Nothing is created through a symlink that has the name of a directory, in whatever
\* order the threads come; and nothing at all through any, when no name has a slash.
THEOREM InRootCorrect == Spec => []StaysInRoot
<1>1. CheckoutInv => StaysInRoot
  <2> SUFFICES ASSUME CheckoutInv PROVE StaysInRoot
    OBVIOUS
  <2>1. (OwnIndexPaths <=> Own(head)) /\ (NothingBelowSymlinks <=> Apart(head))
    BY DEF OwnIndexPaths, Own, NothingBelowSymlinks, Apart, Levels
  <2> QED
    BY <2>1 DEF CheckoutInv, DiskInv, StaysInRoot
<1> QED
  BY <1>1, CheckoutInvariant, PTL

\* A checkout that succeeds leaves exactly the tree of the commit.
LEMMA CheckedOut ==
  ASSUME NEW h \in Heads, head = h, WalkInv(h), DiskInv(h), pc = "ok", ExistingUntouched
  PROVE  /\ FilesIn(TreeOf(h)) = Range(manifest)
         /\ \A p \in Dirs(h) :
              /\ Resolved(p) \in DOMAIN disk /\ disk[Resolved(p)] = Dir
              /\ Resolved(p) \notin DOMAIN Existing
         /\ \A e \in FilesIn(TreeOf(h)) :
              /\ Resolved(e.path) \in DOMAIN disk /\ disk[Resolved(e.path)] = NodeOf(e)
              /\ NodeOf(e) # Dir /\ Resolved(e.path) \notin DOMAIN Existing
         /\ \A p \in DOMAIN disk \ DOMAIN Existing :
              \/ \E d \in Dirs(h) : p = Resolved(d)
              \/ \E e \in FilesIn(TreeOf(h)) : p = Resolved(e.path)
         /\ \A i, j \in DOMAIN manifest : manifest[i].path = manifest[j].path => i = j
<1>1. /\ DirsMade(h) /\ FilesMade(h) /\ ~aborted /\ left = {} /\ Collected(h)
  BY DEF DiskInv, WalkInv
<1>2. Written = DOMAIN manifest /\ directories = {}
  BY <1>1 DEF Written, FilesMade
<1>3. Range(manifest) = FilesIn(TreeOf(h))
  BY <1>1 DEF Collected
<1>4. ASSUME NEW e \in FilesIn(TreeOf(h))
      PROVE  /\ Resolved(e.path) \in DOMAIN disk /\ disk[Resolved(e.path)] = NodeOf(e)
             /\ NodeOf(e) # Dir /\ Resolved(e.path) \notin DOMAIN Existing
  <2>1. PICK i \in DOMAIN manifest : e = manifest[i]
    BY <1>3 DEF Range
  <2>2. e.mode \in BlobModes
    BY DEF FilesIn
  <2> QED
    BY <1>1, <1>2, <2>1, <2>2, ModesDiffer DEF FilesMade
<1>5. ASSUME NEW p \in DOMAIN disk \ DOMAIN Existing
      PROVE  \/ \E d \in Dirs(h) : p = Resolved(d)
             \/ \E e \in FilesIn(TreeOf(h)) : p = Resolved(e.path)
  <2>1. (\E d \in Dirs(h) : p = Resolved(d)) \/ \E i \in DOMAIN manifest : p = Resolved(manifest[i].path)
    BY <1>1, <1>2 DEF FilesMade
  <2>2. \A i \in DOMAIN manifest : manifest[i] \in Range(manifest)
    BY DEF Range
  <2> QED
    BY <1>3, <2>1, <2>2
<1>6. \A p \in Dirs(h) :
        /\ Resolved(p) \in DOMAIN disk /\ disk[Resolved(p)] = Dir
        /\ Resolved(p) \notin DOMAIN Existing
  BY <1>1, <1>2 DEF DirsMade
<1>7. \A i, j \in DOMAIN manifest : manifest[i].path = manifest[j].path => i = j
  BY <1>1, <1>2 DEF FilesMade
<1> QED
  BY <1>3, <1>4, <1>5, <1>6, <1>7

\* A checkout that succeeds leaves exactly the tree of the commit in the root, next to
\* what was there, when no name leads below a symlink.
THEOREM WorktreeCorrect == Spec => []WorktreeIsTree
<1>1. CheckoutInv => WorktreeIsTree
  <2> SUFFICES ASSUME CheckoutInv, pc = "ok", OwnIndexPaths, NothingBelowSymlinks
               PROVE  LET new == DOMAIN disk \ DOMAIN Existing
                      IN /\ {p \in new : disk[p] = Dir}
                              = {Resolved(e.path) : e \in {f \in Levels : f.mode = "Directory"}}
                         /\ {p \in new : disk[p] # Dir} = {Resolved(e.path) : e \in Files}
                         /\ \A e \in Files : disk[Resolved(e.path)] = NodeOf(e)
    BY DEF WorktreeIsTree
  <2>1. PICK h \in Heads : head = h /\ WalkInv(h) /\ DiskInv(h)
    BY DEF CheckoutInv, OwnIndexPaths, Own, NothingBelowSymlinks, Apart, Levels
  <2>2. /\ \A p \in Dirs(h) :
             /\ Resolved(p) \in DOMAIN disk /\ disk[Resolved(p)] = Dir
             /\ Resolved(p) \notin DOMAIN Existing
        /\ \A e \in FilesIn(TreeOf(h)) :
             /\ Resolved(e.path) \in DOMAIN disk /\ disk[Resolved(e.path)] = NodeOf(e)
             /\ NodeOf(e) # Dir /\ Resolved(e.path) \notin DOMAIN Existing
        /\ \A p \in DOMAIN disk \ DOMAIN Existing :
             \/ \E d \in Dirs(h) : p = Resolved(d)
             \/ \E e \in FilesIn(TreeOf(h)) : p = Resolved(e.path)
    BY <2>1, CheckedOut DEF CheckoutInv
  <2>3. /\ Files = FilesIn(TreeOf(h))
        /\ {Resolved(e.path) : e \in {f \in Levels : f.mode = "Directory"}} = {Resolved(d) : d \in Dirs(h)}
    BY <2>1 DEF Files, FilesIn, Levels, Dirs, DirectoriesIn
  <2> DEFINE new == DOMAIN disk \ DOMAIN Existing
  <2>4. {p \in new : disk[p] = Dir} = {Resolved(d) : d \in Dirs(h)}
    BY <2>2
  <2>5. {p \in new : disk[p] # Dir} = {Resolved(e.path) : e \in FilesIn(TreeOf(h))}
    BY <2>2
  <2> QED
    BY <2>2, <2>3, <2>4, <2>5
<1> QED
  BY <1>1, CheckoutInvariant, PTL

\* The index has an entry for each file and symlink on the disk.
THEOREM IndexCorrect == Spec => []IndexIsWorktree
<1>1. CheckoutInv => IndexIsWorktree
  <2> SUFFICES ASSUME CheckoutInv, pc = "ok", PlainNames, NothingBelowSymlinks
               PROVE  /\ \A i, j \in DOMAIN index : index[i].path = index[j].path => i = j
                      /\ Range(index) = {[path |-> e.path, mode |-> e.mode, oid |-> e.oid] :
                                           e \in {f \in Files : disk[Resolved(f.path)] = NodeOf(f)}}
    BY DEF IndexIsWorktree
  <2>1. PICK h \in Heads : head = h /\ WalkInv(h) /\ (Own(h) /\ Apart(h) => DiskInv(h))
    BY DEF CheckoutInv
  <2>2. IsIn(h, h.commit, "commit") /\ TreeOf(h) \subseteq Placed
    <3>1. IsIn(h, h.commit, "commit")
      BY <2>1 DEF WalkInv, Collected
    <3> QED
      BY <3>1, TreeFacts
  <2>3. \A e \in TreeOf(h) : GitPath(e.path) = e.path
    BY <2>1, <2>2, GitPathPlain DEF PlainNames, Levels, Placed
  <2>4. Own(h) /\ Apart(h)
    BY <2>1, <2>3 DEF Own, NothingBelowSymlinks, Apart, Levels
  <2>5. DiskInv(h)
    BY <2>1, <2>4
  <2>6. /\ FilesIn(TreeOf(h)) = Range(manifest)
        /\ \A e \in FilesIn(TreeOf(h)) : disk[Resolved(e.path)] = NodeOf(e)
        /\ \A i, j \in DOMAIN manifest : manifest[i].path = manifest[j].path => i = j
    BY <2>1, <2>5, CheckedOut DEF CheckoutInv
  <2>7. Files = FilesIn(TreeOf(h))
    BY <2>1 DEF Files, FilesIn, Levels
  <2>8. \A i \in DOMAIN manifest :
          /\ manifest[i] \in FilesIn(TreeOf(h)) /\ GitPath(manifest[i].path) = manifest[i].path
    BY <2>3, <2>6 DEF Range, FilesIn
  <2>9. /\ DOMAIN index = DOMAIN manifest
        /\ \A i \in DOMAIN manifest :
             index[i] = [path |-> manifest[i].path, mode |-> manifest[i].mode, oid |-> manifest[i].oid]
    BY <2>5, <2>8 DEF DiskInv, IndexEntries
  <2>10. {f \in Files : disk[Resolved(f.path)] = NodeOf(f)} = Range(manifest)
    BY <2>6, <2>7
  <2>11. Range(index) = {[path |-> e.path, mode |-> e.mode, oid |-> e.oid] : e \in Range(manifest)}
    BY <2>9 DEF Range
  <2>12. \A i, j \in DOMAIN index : index[i].path = index[j].path => i = j
    BY <2>6, <2>9
  <2> QED
    BY <2>10, <2>11, <2>12
<1> QED
  BY <1>1, CheckoutInvariant, PTL

-----------------------------------------------------------------------------
(***************************************************************************)
(* A tree that git would write.  A name is one component, so the calls are *)
(* at different depths and every entry is in a directory of the tree; no   *)
(* path is visited twice, since a tree names an entry once and what is     *)
(* visited has its directory visited before.                               *)
(***************************************************************************)
OneName(entries) ==
  /\ \A i \in DOMAIN entries : Len(entries[i].name) = 1
  /\ \A i, j \in DOMAIN entries : entries[i].name = entries[j].name => i = j

Good(h) ==
  /\ IsIn(h, h.commit, "commit") /\ IsIn(h, RootTree(h), "tree")
  /\ \A e \in TreeOf(h) :
       /\ {Dot, DotDot} \cap Range(e.path) = {} /\ e.path \notin DOMAIN Existing
       /\ e.mode = "Directory" => IsIn(h, e.oid, "tree")
       /\ e.mode \in BlobModes => IsIn(h, e.oid, "blob")
  /\ \A o \in DOMAIN h.objects : IsIn(h, o, "tree") => OneName(h.objects[o].entries)

\* Where an entry is whose name has one component.
LEMMA OneComponent ==
  ASSUME NEW t \in TreeEntry, Len(t.name) = 1, NEW p \in Paths
  PROVE  \E c \in Component : t.name = <<c>> /\ Place(p, t).path = Append(p, c)
<1>1. t.name \in Seq(Component) /\ p \in Seq(Component)
  BY DEF TreeEntry, Name, Paths
<1>2. PICK n : n = t.name
  OBVIOUS
<1>3. n[1] \in Component /\ n = <<n[1]>>
  BY <1>1, <1>2
<1>4. \A c \in Component : p \o <<c>> = Append(p, c)
  BY <1>1
<1> QED
  BY <1>2, <1>3, <1>4 DEF Place

\* What is below a tree at a path is a component longer.
LEMMA GoodBelow ==
  ASSUME NEW h \in Heads, Good(h), NEW o, NEW p \in Paths, NEW e \in EntriesBelow(h, o, p)
  PROVE  /\ Front(e.path) = p /\ Last(e.path) \in Component /\ e.path = Append(p, Last(e.path))
         /\ Len(p) \in Nat /\ Len(e.path) = Len(p) + 1
<1>1. IsIn(h, o, "tree")
  BY BelowFacts
<1>2. h.objects[o].entries \in Seq(TreeEntry) /\ OneName(h.objects[o].entries)
  BY <1>1, HeadFacts DEF Good, IsIn
<1>3. PICK t \in Range(h.objects[o].entries) : e = Place(p, t)
  BY <1>1, BelowFacts
<1>4. t \in TreeEntry /\ Len(t.name) = 1
  BY <1>2, <1>3 DEF Range, OneName
<1>5. PICK c \in Component : e.path = Append(p, c)
  BY <1>3, <1>4, OneComponent
<1> QED
  BY <1>5, PathFacts

\* An entry of the tree is directly below the root or below a directory of the tree.
LEMMA ParentFacts ==
  ASSUME NEW h \in Heads, Good(h), NEW e \in TreeOf(h)
  PROVE  /\ e.path \in Paths /\ e.path # <<>>
         /\ Front(e.path) \in Paths /\ Last(e.path) \in Component
         /\ e.path = Append(Front(e.path), Last(e.path))
         /\ Front(e.path) # <<>> => Front(e.path) \in Dirs(h)
<1>1. IsIn(h, h.commit, "commit")
  BY DEF Good
<1>2. e.path \in Paths /\ e.path # <<>>
  BY <1>1, TreeFacts DEF Placed
<1>3. <<>> \in Paths
  BY DEF Paths
<1>4. CASE e \in EntriesBelow(h, RootTree(h), <<>>)
  <2>1. Front(e.path) = <<>>
    BY <1>3, <1>4, GoodBelow
  <2> QED
    BY <1>2, <2>1, PathParts
<1>5. CASE \E d \in TreeOf(h) : d.mode = "Directory" /\ e \in EntriesBelow(h, d.oid, d.path)
  <2>1. PICK d \in TreeOf(h) : d.mode = "Directory" /\ e \in EntriesBelow(h, d.oid, d.path)
    BY <1>5
  <2>2. d.path \in Paths
    BY <1>1, <2>1, TreeFacts DEF Placed
  <2>3. Front(e.path) = d.path
    BY <2>1, <2>2, GoodBelow
  <2>4. d.path \in Dirs(h)
    BY <2>1 DEF Dirs, DirectoriesIn
  <2> QED
    BY <1>2, <2>3, <2>4, PathParts
<1> QED
  BY <1>1, <1>4, <1>5, TreeFacts

\* What a path is below is its parent, or what the parent is below.
LEMMA PrefixFacts ==
  ASSUME NEW s \in Paths, NEW q \in Paths, NEW c \in Component, IsStrictPrefix(s, Append(q, c)), s # q
  PROVE  IsStrictPrefix(s, q)
<1> DEFINE m == Len(s)
           n == Len(q)
<1>1. m \in Nat /\ n \in Nat /\ s \in Seq(Component) /\ q \in Seq(Component)
  BY DEF Paths
<1>2. Len(Append(q, c)) = n + 1
  BY <1>1
<1>3. m <= n + 1 /\ SubSeq(s, 1, m) = SubSeq(Append(q, c), 1, m) /\ s # Append(q, c)
  BY <1>2 DEF IsStrictPrefix, IsPrefix
<1>4. SubSeq(s, 1, m) = s
  BY <1>1
<1>5. m # n + 1
  <2> SUFFICES ASSUME m = n + 1 PROVE FALSE
    OBVIOUS
  <2>1. SubSeq(Append(q, c), 1, n + 1) = Append(q, c)
    BY <1>1, <1>2
  <2> QED
    BY <1>3, <1>4, <2>1
<1>6. m <= n
  BY <1>1, <1>3, <1>5
<1>7. SubSeq(Append(q, c), 1, m) = SubSeq(q, 1, m)
  BY <1>1, <1>6
<1> QED
  BY <1>3, <1>6, <1>7 DEF IsStrictPrefix, IsPrefix

\* What an entry is below is a directory of the tree.
LEMMA PrefixIsDirectory ==
  ASSUME NEW h \in Heads, Good(h), NEW s \in Paths, s # <<>>,
         NEW e \in TreeOf(h), IsStrictPrefix(s, e.path)
  PROVE  s \in Dirs(h)
<1> DEFINE Bad == {n \in Nat : \E f \in TreeOf(h) : Len(f.path) = n /\ IsStrictPrefix(s, f.path)}
<1>1. ASSUME s \notin Dirs(h) PROVE FALSE
  <2>1. Bad # {}
    <3>1. e.path \in Paths
      BY ParentFacts
    <3>2. Len(e.path) \in Nat
      BY <3>1 DEF Paths
    <3> QED
      BY <3>2
  <2>2. PICK n \in Bad : \A k \in Bad : n <= k
    <3>1. Bad \in SUBSET Nat
      OBVIOUS
    <3> HIDE DEF Bad
    <3> QED
      BY <2>1, <3>1, LeastExists
  <2>3. PICK f \in TreeOf(h) : Len(f.path) = n /\ IsStrictPrefix(s, f.path)
    BY <2>2
  <2>4. PICK q, c : q = Front(f.path) /\ c = Last(f.path)
    OBVIOUS
  <2>5. /\ q \in Paths /\ c \in Component /\ f.path = Append(q, c)
        /\ q # <<>> => q \in Dirs(h)
    BY <2>4, ParentFacts
  <2>6. s # q
    BY <1>1, <2>5
  <2>7. IsStrictPrefix(s, q)
    BY <2>3, <2>5, <2>6, PrefixFacts
  <2>8. q # <<>>
    <3>1. Len(s) \in Nat /\ Len(s) <= Len(q)
      BY <2>7 DEF IsStrictPrefix, IsPrefix, Paths
    <3> SUFFICES ASSUME q = <<>> PROVE FALSE
      OBVIOUS
    <3>2. Len(s) = 0
      BY <3>1
    <3> QED
      BY <3>2 DEF Paths
  <2>9. PICK d \in TreeOf(h) : d.path = q
    BY <2>5, <2>8 DEF Dirs, DirectoriesIn
  <2>10. Len(q) \in Nat /\ n = Len(q) + 1
    BY <2>3, <2>5, PathFacts
  <2>11. Len(q) \in Bad
    BY <2>7, <2>9, <2>10
  <2> QED
    BY <2>2, <2>10, <2>11
<1> QED
  BY <1>1

\* No entry of a good tree has "." in its path.
LEMMA GoodResolved ==
  ASSUME NEW h \in Heads, Good(h), NEW e \in TreeOf(h)
  PROVE  Resolved(e.path) = e.path
<1>1. e.path \in Paths
  BY ParentFacts
<1>2. Dot \notin Range(e.path)
  BY DEF Good
<1> QED
  BY <1>1, <1>2, ResolvedPlain

\* So what is in the place of a symlink of a good tree, with something below it, is a
\* directory of the tree too (in fact there is none).
LEMMA GoodApart ==
  ASSUME NEW h \in Heads, Good(h)
  PROVE  Apart(h)
<1> SUFFICES ASSUME NEW s \in TreeOf(h), NEW e \in TreeOf(h),
                    IsStrictPrefix(Resolved(s.path), Resolved(e.path))
             PROVE  \E d \in TreeOf(h) : d.mode = "Directory" /\ Resolved(d.path) = Resolved(s.path)
  BY DEF Apart
<1>1. IsStrictPrefix(s.path, e.path)
  BY GoodResolved
<1>2. s.path \in Paths /\ s.path # <<>>
  BY ParentFacts
<1>3. s.path \in Dirs(h)
  BY <1>1, <1>2, PrefixIsDirectory
<1> QED
  BY <1>3 DEF Dirs, DirectoriesIn

OwnDepths(calls) == \A k \in DOMAIN calls : Len(calls[k].path) = k - 1 /\ OneName(calls[k].entries)

Taken == directories \cup {manifest[i].path : i \in DOMAIN manifest}

FreshInv(h) ==
  /\ \A i, j \in DOMAIN manifest : manifest[i].path = manifest[j].path => i = j
  /\ pc = "trees" =>
       /\ OwnDepths(stack)
       /\ \A p \in Taken : Front(p) \in directories \cup {<<>>}
       /\ \A e \in Pending : e.path \notin Taken /\ Front(e.path) \in directories \cup {<<>>}
       /\ \A i \in DOMAIN manifest : manifest[i].path \notin directories
  /\ pc \in {"directories", "files", "index", "ok"} =>
       \A i \in DOMAIN manifest : manifest[i].path \notin Dirs(h)

\* What is still pending after a visit has other paths.
LEMMA VisitedFacts ==
  ASSUME stack \in Seq(Call), stack # <<>>, Top.entries # <<>>, OwnDepths(stack)
  PROVE  /\ OwnDepths(Visited) /\ Visited \in Seq(Call)
         /\ Len(Visited) \in Nat /\ Len(EntryPath) = Len(Visited)
         /\ \A e \in PendingOf(Visited) : e.path # EntryPath
<1> DEFINE rest == [Top EXCEPT !.entries = Tail(@)]
           n == Len(stack)
<1>1. /\ Below \in Seq(Call) /\ Top \in Call /\ n \in Nat /\ Len(Below) = n - 1
      /\ \A k \in DOMAIN Below : k \in DOMAIN stack /\ Below[k] = stack[k]
      /\ n \in DOMAIN stack /\ Top = stack[n]
  BY CallsFacts DEF Below, Top
<1>2. Top.path \in Paths /\ Top.entries \in Seq(TreeEntry) /\ Len(Top.path) = n - 1 /\ OneName(Top.entries)
  BY <1>1 DEF Call, OwnDepths
<1>3. /\ Entry \in TreeEntry /\ Entry = Top.entries[1] /\ 1 \in DOMAIN Top.entries
      /\ Tail(Top.entries) \in Seq(TreeEntry)
      /\ \A k \in DOMAIN Tail(Top.entries) :
           k + 1 \in DOMAIN Top.entries /\ Tail(Top.entries)[k] = Top.entries[k + 1]
  BY <1>2, EntriesFacts DEF Entry
<1>4. rest \in Call /\ rest.path = Top.path /\ rest.entries = Tail(Top.entries)
  BY <1>1, <1>2, <1>3 DEF Call
<1>5. Visited = Append(Below, rest)
  BY DEF Visited
<1>6. DOMAIN Tail(Top.entries) \subseteq Nat \ {0}
  BY <1>3
<1> HIDE DEF rest, n
<1>7. /\ Visited \in Seq(Call) /\ Len(Visited) = n
      /\ DOMAIN Visited = DOMAIN Below \cup {n}
      /\ \A k \in DOMAIN Below : Visited[k] = stack[k] /\ k # n /\ k \in Nat
      /\ Visited[n] = rest
  <2>1. DOMAIN Below = 1 .. n - 1
    BY <1>1
  <2>2. /\ Append(Below, rest) \in Seq(Call) /\ Len(Append(Below, rest)) = n
        /\ \A k \in 1 .. n - 1 : Append(Below, rest)[k] = Below[k]
        /\ Append(Below, rest)[n] = rest
    BY <1>1, <1>4, <2>1
  <2>3. DOMAIN Append(Below, rest) = 1 .. n
    BY <2>2
  <2>4. n # 0 /\ 1 .. n = (1 .. n - 1) \cup {n}
    BY <1>1
  <2> QED
    BY <1>1, <1>5, <2>1, <2>2, <2>3, <2>4
<1>8. OneName(Tail(Top.entries))
  <2>1. ASSUME NEW i \in DOMAIN Tail(Top.entries), NEW j \in DOMAIN Tail(Top.entries),
               Tail(Top.entries)[i].name = Tail(Top.entries)[j].name
        PROVE  i = j
    <3>1. i + 1 = j + 1
      BY <1>2, <1>3, <2>1 DEF OneName
    <3> QED
      BY <1>6, <3>1
  <2>2. \A i \in DOMAIN Tail(Top.entries) : Len(Tail(Top.entries)[i].name) = 1
    BY <1>2, <1>3 DEF OneName
  <2> QED
    BY <2>1, <2>2 DEF OneName
<1>9. OwnDepths(Visited)
  <2> SUFFICES ASSUME NEW k \in DOMAIN Visited
               PROVE  Len(Visited[k].path) = k - 1 /\ OneName(Visited[k].entries)
    BY DEF OwnDepths
  <2>1. CASE k \in DOMAIN Below
    BY <1>1, <1>7, <2>1 DEF OwnDepths
  <2>2. CASE k = n
    BY <1>2, <1>4, <1>7, <1>8, <2>2
  <2> QED
    BY <1>7, <2>1, <2>2
<1>10. PICK m \in Component : Entry.name = <<m>> /\ EntryPath = Append(Top.path, m)
  <2>1. Len(Entry.name) = 1
    BY <1>2, <1>3 DEF OneName
  <2> QED
    BY <1>2, <1>3, <2>1, OneComponent DEF EntryPath, Place
<1>a. Len(EntryPath) = n
  <2>1. Len(EntryPath) = (n - 1) + 1
    BY <1>2, <1>10, PathFacts
  <2> QED
    BY <1>1, <2>1
<1>11. ASSUME NEW e \in PendingOf(Visited) PROVE e.path # EntryPath
  <2>1. PICK k \in DOMAIN Visited : e \in {Place(Visited[k].path, t) : t \in Range(Visited[k].entries)}
    BY DEF PendingOf
  <2>2. PICK t \in Range(Visited[k].entries) : e = Place(Visited[k].path, t)
    BY <2>1
  <2>3. Visited[k] \in Call
    BY <1>7
  <2>4. t \in TreeEntry /\ Visited[k].path \in Paths
    BY <2>2, <2>3 DEF Call, Range
  <2>5. PICK c \in Component : t.name = <<c>> /\ e.path = Append(Visited[k].path, c)
    <3>1. Len(t.name) = 1
      BY <1>9, <2>2 DEF OwnDepths, OneName, Range
    <3> QED
      BY <2>2, <2>4, <3>1, OneComponent
  <2>6. CASE k \in DOMAIN Below
    <3>1. Len(e.path) = (k - 1) + 1
      BY <1>9, <2>4, <2>5, PathFacts DEF OwnDepths
    <3> QED
      BY <1>7, <1>a, <2>6, <3>1
  <2>7. CASE k = n
    <3>1. Visited[k].path = Top.path /\ t \in Range(Tail(Top.entries))
      BY <1>4, <1>7, <2>2, <2>7
    <3>2. PICK j \in DOMAIN Tail(Top.entries) : t = Tail(Top.entries)[j]
      BY <3>1 DEF Range
    <3>3. t.name # Entry.name
      <4>1. j + 1 # 1
        BY <1>6, <3>2
      <4> QED
        BY <1>2, <1>3, <3>2, <4>1 DEF OneName
    <3>4. c # m
      BY <1>10, <2>5, <3>3
    <3> QED
      BY <1>2, <1>10, <2>5, <3>1, <3>4, PathFacts
  <2> QED
    BY <1>7, <2>6, <2>7
<1> QED
  BY <1>1, <1>7, <1>9, <1>a, <1>11

\* At the root nothing is visited yet.
LEMMA ReadCommitFresh ==
  ASSUME NEW h \in Heads, head = h, WalkInv(h), Good(h), ReadCommit
  PROVE  FreshInv(h)'
<1> DEFINE root == RootTree(h)
           call == [path |-> <<>>, entries |-> h.objects[root].entries]
<1>1. /\ IsIn(h, root, "tree") /\ pc' = "trees" /\ stack' = <<call>>
      /\ directories' = {} /\ manifest' = <<>>
  BY DEF ReadCommit, Is, Goes, Entering, RootTree, WalkInv
<1>2. OneName(h.objects[root].entries)
  BY <1>1 DEF Good, IsIn
<1>3. OwnDepths(<<call>>)
  BY <1>2 DEF OwnDepths
<1>4. Taken' = {}
  BY <1>1 DEF Taken
<1>5. \A e \in Pending' : Front(e.path) = <<>>
  <2>1. Pending' = {Place(<<>>, t) : t \in Range(h.objects[root].entries)}
    BY <1>1 DEF Pending
  <2>2. <<>> \in Paths
    BY DEF Paths
  <2>3. Pending' = EntriesBelow(h, root, <<>>)
    BY <1>1, <2>1, <2>2, BelowFacts
  <2> QED
    BY <2>2, <2>3, GoodBelow
<1> QED
  BY <1>1, <1>3, <1>4, <1>5 DEF FreshInv

\* A visited path was not visited before, and nothing pending is below a file.
LEMMA VisitFresh ==
  ASSUME NEW h \in Heads, head = h, WalkInv(h), FreshInv(h), Good(h),
         VisitDirectory \/ VisitFile \/ VisitGitlink
  PROVE  FreshInv(h)'
<1>1. /\ pc = "trees" /\ pc' = "trees" /\ stack # <<>> /\ stack \in Seq(Call)
      /\ manifest \in Seq(Placed) /\ directories \subseteq Paths /\ Top.entries # <<>>
  BY DEF VisitDirectory, VisitFile, VisitGitlink, Visit, Goes, WalkInv
<1>2. /\ OwnDepths(stack)
      /\ \A p \in Taken : Front(p) \in directories \cup {<<>>}
      /\ \A e \in Pending : e.path \notin Taken /\ Front(e.path) \in directories \cup {<<>>}
      /\ \A i \in DOMAIN manifest : manifest[i].path \notin directories
      /\ \A i, j \in DOMAIN manifest : manifest[i].path = manifest[j].path => i = j
  BY <1>1 DEF FreshInv
<1>3. PICK r : r = Place(Top.path, Entry)
  OBVIOUS
<1>4. /\ Visited \in Seq(Call) /\ Entry \in TreeEntry /\ Top \in Call
      /\ EntryPath \in Paths /\ EntryPath # <<>>
      /\ r \in Pending /\ Pending = PendingOf(Visited) \cup {r}
  BY <1>1, <1>3, VisitFacts
<1>5. r.path = EntryPath
  BY <1>3 DEF Place, EntryPath
<1>6. /\ OwnDepths(Visited) /\ Len(Visited) \in Nat /\ Len(EntryPath) = Len(Visited)
      /\ \A e \in PendingOf(Visited) : e.path # EntryPath
  BY <1>1, <1>2, VisitedFacts
<1>7. EntryPath \notin Taken /\ Front(EntryPath) \in directories \cup {<<>>}
  BY <1>2, <1>4, <1>5
<1>8. CASE VisitDirectory
  <2> DEFINE call == [path |-> EntryPath, entries |-> h.objects[Entry.oid].entries]
  <2>1. /\ IsIn(h, Entry.oid, "tree") /\ stack' = Append(Visited, call)
        /\ directories' = directories \cup {EntryPath} /\ manifest' = manifest
    BY <1>8 DEF VisitDirectory, Is, Entering
  <2>2. h.objects[Entry.oid].entries \in Seq(TreeEntry) /\ OneName(h.objects[Entry.oid].entries)
    BY <2>1, HeadFacts DEF Good, IsIn
  <2>3. call \in Call /\ call.path = EntryPath /\ call.entries = h.objects[Entry.oid].entries
    BY <1>4, <2>2 DEF Call
  <2> HIDE DEF call
  <2>4. /\ PendingOf(Append(Visited, call))
             = PendingOf(Visited) \cup {Place(call.path, e) : e \in Range(call.entries)}
    BY <1>4, <2>3, PendingMore
  <2>5. Pending' = PendingOf(Append(Visited, call))
    BY <2>1 DEF Pending, PendingOf
  <2>6. EntriesBelow(h, Entry.oid, EntryPath) = {Place(EntryPath, e) : e \in Range(h.objects[Entry.oid].entries)}
    BY <1>4, <2>1, BelowFacts
  <2>7. Pending' = PendingOf(Visited) \cup EntriesBelow(h, Entry.oid, EntryPath)
    BY <2>3, <2>4, <2>5, <2>6
  <2>8. Taken' = Taken \cup {EntryPath}
    BY <2>1 DEF Taken
  <2>9. OwnDepths(stack')
    <3>1. /\ DOMAIN Append(Visited, call) = DOMAIN Visited \cup {Len(Visited) + 1}
          /\ \A k \in DOMAIN Visited : Append(Visited, call)[k] = Visited[k]
          /\ Append(Visited, call)[Len(Visited) + 1] = call
      BY <1>4, <2>3
    <3>2. Len(call.path) = (Len(Visited) + 1) - 1
      BY <1>6, <2>3
    <3> QED
      BY <1>6, <2>1, <2>2, <2>3, <3>1, <3>2 DEF OwnDepths
  <2>10. \A p \in Taken' : Front(p) \in directories' \cup {<<>>}
    BY <1>2, <1>7, <2>1, <2>8
  <2>11. ASSUME NEW e \in Pending' PROVE e.path \notin Taken' /\ Front(e.path) \in directories' \cup {<<>>}
    <3>1. CASE e \in PendingOf(Visited)
      BY <1>2, <1>4, <1>6, <2>1, <2>8, <3>1
    <3>2. CASE e \in EntriesBelow(h, Entry.oid, EntryPath)
      <4>1. Front(e.path) = EntryPath /\ Len(e.path) = Len(EntryPath) + 1
        BY <1>4, <3>2, GoodBelow
      <4>2. e.path # EntryPath
        BY <1>6, <4>1
      <4>3. e.path \notin Taken
        <5>1. EntryPath \notin directories \cup {<<>>}
          BY <1>4, <1>7 DEF Taken
        <5> QED
          BY <1>2, <4>1, <5>1
      <4> QED
        BY <2>1, <2>8, <4>1, <4>2, <4>3
    <3> QED
      BY <2>7, <3>1, <3>2
  <2>12. \A i \in DOMAIN manifest' : manifest'[i].path \notin directories'
    BY <1>2, <1>7, <2>1 DEF Taken
  <2> QED
    BY <1>1, <1>2, <2>1, <2>9, <2>10, <2>11, <2>12 DEF FreshInv
<1>9. CASE VisitFile
  <2>1. /\ directories' = directories /\ manifest' = Append(manifest, r) /\ stack' = Visited
    BY <1>3, <1>9 DEF VisitFile, Place, EntryPath
  <2>2. Pending' = PendingOf(Visited)
    BY <2>1 DEF Pending, PendingOf
  <2>3. /\ DOMAIN manifest' = DOMAIN manifest \cup {Len(manifest) + 1}
        /\ Len(manifest) + 1 \notin DOMAIN manifest
        /\ \A i \in DOMAIN manifest : manifest'[i] = manifest[i]
        /\ manifest'[Len(manifest) + 1] = r
    BY <1>1, <2>1
  <2>4. Taken' = Taken \cup {EntryPath}
    BY <1>5, <2>1, <2>3 DEF Taken
  <2>5. \A i, j \in DOMAIN manifest' : manifest'[i].path = manifest'[j].path => i = j
    <3>1. \A i \in DOMAIN manifest : manifest[i].path # EntryPath
      BY <1>7 DEF Taken
    <3> QED
      BY <1>2, <1>5, <2>3, <3>1
  <2>6. \A i \in DOMAIN manifest' : manifest'[i].path \notin directories'
    BY <1>2, <1>5, <1>7, <2>1, <2>3 DEF Taken
  <2>7. \A e \in Pending' : e.path \notin Taken' /\ Front(e.path) \in directories' \cup {<<>>}
    BY <1>2, <1>4, <1>6, <2>1, <2>2, <2>4
  <2>8. \A p \in Taken' : Front(p) \in directories' \cup {<<>>}
    BY <1>2, <1>7, <2>1, <2>4
  <2> QED
    BY <1>1, <1>6, <2>1, <2>5, <2>6, <2>7, <2>8 DEF FreshInv
<1>10. CASE VisitGitlink
  <2>1. directories' = directories /\ manifest' = manifest /\ stack' = Visited
    BY <1>10 DEF VisitGitlink
  <2>2. Pending' = PendingOf(Visited) /\ Taken' = Taken
    BY <2>1 DEF Pending, PendingOf, Taken
  <2> QED
    BY <1>1, <1>2, <1>4, <1>6, <2>1, <2>2 DEF FreshInv
<1> QED
  BY <1>8, <1>9, <1>10

\* After the walk the manifest has no path twice, and none of a directory.
LEMMA FreshStep ==
  ASSUME NEW h \in Heads, head = h, WalkInv(h), FreshInv(h), Good(h), [Next]_vars
  PROVE  FreshInv(h)'
<1>1. CASE ReadCommit
  BY <1>1, ReadCommitFresh
<1>2. CASE VisitDirectory \/ VisitFile \/ VisitGitlink
  BY <1>2, VisitFresh
<1>3. CASE LeaveTree
  <2>1. /\ pc = "trees" /\ pc' \in {"directories", "trees"} /\ Top.entries = <<>>
        /\ stack' = Below /\ directories' = directories /\ manifest' = manifest
        /\ stack \in Seq(Call) /\ stack # <<>>
    BY <1>3 DEF LeaveTree, Goes, WalkInv
  <2>2. /\ PendingOf(stack) = PendingOf(Below) \cup {Place(Top.path, e) : e \in Range(Top.entries)}
        /\ \A k \in DOMAIN Below : k \in DOMAIN stack /\ Below[k] = stack[k]
    BY <2>1, CallsFacts DEF Below, Top
  <2>3. Pending' \subseteq Pending /\ Taken' = Taken
    <3>1. Pending = PendingOf(stack) /\ Pending' = PendingOf(Below)
      BY <2>1 DEF Pending, PendingOf
    <3>2. Taken' = Taken
      BY <2>1 DEF Taken
    <3> QED
      BY <2>2, <3>1, <3>2
  <2>4. OwnDepths(stack) => OwnDepths(stack')
    BY <2>1, <2>2 DEF OwnDepths
  <2>5. pc' = "directories" => directories' = Dirs(h)
    BY <1>3, LeaveTreeWalks DEF Dirs
  <2> QED
    BY <2>1, <2>3, <2>4, <2>5 DEF FreshInv
<1>4. CASE RejectCommit \/ RejectEntry \/ CreateDirectoryFails \/ WriteIndexFails
  BY <1>4 DEF RejectCommit, RejectEntry, CreateDirectoryFails, WriteIndexFails, Goes, FreshInv
<1>5. CASE CreateDirectory \/ StartFiles
  BY <1>5 DEF CreateDirectory, StartFiles, Goes, FreshInv
<1>6. CASE \E i \in left : WriteFile(i) \/ WriteSymlink(i) \/ WriteFails(i)
  BY <1>6 DEF WriteFile, WriteSymlink, WriteFails, Materialize, Goes, FreshInv
<1>7. CASE EndFiles \/ WriteIndex
  BY <1>7 DEF EndFiles, WriteIndex, Goes, FreshInv
<1>8. CASE Done \/ UNCHANGED vars
  <2>1. UNCHANGED vars
    BY <1>8 DEF Done
  <2>2. Pending' = Pending /\ Taken' = Taken
    BY <2>1 DEF vars, Pending, Taken
  <2> QED
    BY <2>1, <2>2 DEF vars, FreshInv
<1> QED
  BY <1>1, <1>2, <1>3, <1>4, <1>5, <1>6, <1>7, <1>8 DEF Next, Step

\* An entry of a good tree can be created where nothing is, when its directory is there.
LEMMA GoodCreate ==
  ASSUME NEW h \in Heads, Good(h), NEW e \in TreeOf(h), DirsMade(h), ExistingUntouched,
         Front(e.path) \notin directories, e.path \notin DOMAIN disk
  PROVE  CanCreate(e.path)
<1>1. PICK p, q : p = e.path /\ q = Front(e.path)
  OBVIOUS
<1>2. /\ p \in Paths /\ q \in Paths /\ Last(p) \in Component /\ p = Append(q, Last(p))
      /\ q # <<>> => q \in Dirs(h)
  BY <1>1, ParentFacts
<1>3. Dot \notin Range(p)
  BY <1>1 DEF Good
<1>4. Last(p) # Dot
  <2>1. \A n \in Component : Range(Append(q, n)) = Range(q) \cup {n}
    BY <1>2, PathFacts
  <2> QED
    BY <1>2, <1>3, <2>1
<1>5. Resolved(p) = p
  BY <1>1, GoodResolved
<1>6. q \in DOMAIN disk /\ disk[q] = Dir
  <2>1. CASE q = <<>>
    <3>1. q \in DOMAIN Existing /\ Existing[q] = Dir
      BY <2>1, CheckoutAssumption
    <3> QED
      BY <3>1 DEF ExistingUntouched
  <2>2. CASE q # <<>>
    <3>1. q \in Dirs(h) \ directories
      BY <1>1, <1>2, <2>2
    <3>2. PICK d \in TreeOf(h) : d.path = q
      BY <3>1 DEF Dirs, DirectoriesIn
    <3>3. Resolved(q) = q
      BY <3>2, GoodResolved
    <3> QED
      BY <3>1, <3>3 DEF DirsMade
  <2> QED
    BY <2>1, <2>2
<1>7. Parent(Resolved(p)) = q
  BY <1>1, <1>5 DEF Parent
<1> QED
  BY <1>1, <1>4, <1>5, <1>6, <1>7 DEF CanCreate, InDirectory

\* No step fails on a good tree.
LEMMA GoodStep ==
  ASSUME NEW h \in Heads, head = h, Good(h), WalkInv(h), DiskInv(h), FreshInv(h), ExistingUntouched,
         healthy, pc # "err", aborted = FALSE, [Next]_vars
  PROVE  pc' # "err" /\ aborted' = FALSE
<1>1. ~RejectCommit
  BY DEF RejectCommit, Is, Good, RootTree
<1>2. ~RejectEntry
  <2> SUFFICES ASSUME RejectEntry PROVE FALSE
    OBVIOUS
  <2>1. /\ stack # <<>> /\ stack \in Seq(Call) /\ Top.entries # <<>>
        /\ Pending \subseteq TreeOf(h)
        /\ Safe(EntryPath) => Entry.mode = "Directory" /\ ~IsIn(h, Entry.oid, "tree")
    BY DEF RejectEntry, Goes, WalkInv, Is
  <2>2. PICK r : r = Place(Top.path, Entry)
    OBVIOUS
  <2>3. r \in Pending /\ EntryPath \in Paths /\ EntryPath # <<>>
    BY <2>1, <2>2, VisitFacts
  <2>4. r.path = EntryPath /\ r.mode = Entry.mode /\ r.oid = Entry.oid
    BY <2>2 DEF Place, EntryPath
  <2>5. /\ {Dot, DotDot} \cap Range(EntryPath) = {}
        /\ Entry.mode = "Directory" => IsIn(h, Entry.oid, "tree")
    BY <2>1, <2>3, <2>4 DEF Good
  <2>6. Safe(EntryPath)
    <3>1. 1 \in DOMAIN EntryPath
      BY <2>3 DEF Paths
    <3> QED
      BY <2>5, <3>1 DEF Safe, Range
  <2> QED
    BY <2>1, <2>5, <2>6
<1>3. ~CreateDirectoryFails
  <2> SUFFICES ASSUME NEW d \in NextDirectories, ~CanCreate(d), pc = "directories" PROVE FALSE
    BY DEF CreateDirectoryFails, Goes
  <2>1. /\ d \in directories /\ \A e \in directories : Depth(d) <= Depth(e)
        /\ DirsMade(h)
        /\ \A p \in DOMAIN disk \ DOMAIN Existing : \E c \in Dirs(h) \ directories : p = Resolved(c)
    BY DEF NextDirectories, DiskInv
  <2>2. PICK e \in TreeOf(h) : e.mode = "Directory" /\ e.path = d
    BY <2>1 DEF DirsMade, Dirs, DirectoriesIn
  <2>3. d \notin DOMAIN Existing /\ Dot \notin Range(d)
    BY <2>2 DEF Good
  <2>4. d \notin DOMAIN disk
    <3>1. \A c \in Dirs(h) : Resolved(c) = c
      BY GoodResolved DEF Dirs, DirectoriesIn
    <3> QED
      BY <2>1, <2>3, <3>1
  <2>5. Front(d) \notin directories
    <3>1. /\ Front(d) \in Paths /\ Last(d) \in Component /\ d = Append(Front(d), Last(d))
      BY <2>2, ParentFacts
    <3>2. Last(d) # Dot
      <4>1. \A n \in Component : Range(Append(Front(d), n)) = Range(Front(d)) \cup {n}
        BY <3>1, PathFacts
      <4> QED
        BY <2>3, <3>1, <4>1
    <3>3. Depth(Front(d)) \in Nat /\ Depth(d) = Depth(Front(d)) + 1
      BY <3>1, <3>2, DeeperThanParent
    <3> QED
      BY <2>1, <3>3
  <2> QED
    BY <2>1, <2>2, <2>4, <2>5, GoodCreate
<1>4. ASSUME NEW i \in left, WriteFails(i) PROVE FALSE
  <2>1. PICK e : e = manifest[i]
    OBVIOUS
  <2>2. /\ pc = "files" /\ DirsMade(h) /\ FilesMade(h) /\ Collected(h)
        /\ SymlinksOf(h)
        /\ \/ ~(CanCreate(e.path) /\ (e.mode = "Symlink" => IsIn(h, e.oid, "blob")))
           \/ \E f \in Range(manifest) : ThroughSymlink(f.path)
    BY <1>4, <2>1 DEF WriteFails, Materialize, Goes, DiskInv, WalkInv, Is
  <2>3. /\ i \in DOMAIN manifest /\ i \notin Written /\ Written \subseteq DOMAIN manifest
        /\ directories = {} /\ e \in TreeOf(h) /\ e.mode \in BlobModes
    BY <2>1, <2>2 DEF FilesMade, Collected, FilesIn, Range, Written
  <2>4. IsIn(h, e.oid, "blob") /\ e.path \notin DOMAIN Existing
    BY <2>3 DEF Good
  <2>5. e.path \notin Dirs(h) /\ \A j \in Written : manifest[j].path # e.path
    BY <2>1, <2>2, <2>3 DEF FreshInv
  <2>6. e.path \notin DOMAIN disk
    <3>1. \A d \in Dirs(h) : Resolved(d) = d
      BY GoodResolved DEF Dirs, DirectoriesIn
    <3>2. \A j \in Written : Resolved(manifest[j].path) = manifest[j].path
      BY <2>2, <2>3, GoodResolved DEF Collected, FilesIn, Range
    <3> QED
      BY <2>2, <2>4, <2>5, <3>1, <3>2 DEF FilesMade
  <2>7. CanCreate(e.path)
    BY <2>2, <2>3, <2>6, GoodCreate
  <2>8. \A f \in Range(manifest) : ~ThroughSymlink(f.path)
    BY <2>2, <2>3, GoodApart, NotThrough DEF Collected, FilesIn
  <2> QED
    BY <2>2, <2>4, <2>7, <2>8
<1>5. ASSUME NEW i \in left, WriteFile(i) PROVE pc' # "err" /\ aborted' = FALSE
  <2>1. PICK e : e = manifest[i]
    OBVIOUS
  <2>2. pc = "files" /\ pc' = "files" /\ FilesMade(h) /\ Collected(h) /\ e.mode \in FileModes
    BY <1>5, <2>1 DEF WriteFile, Materialize, Goes, DiskInv, WalkInv
  <2>3. e \in TreeOf(h) /\ e.mode \in BlobModes
    BY <2>1, <2>2 DEF FilesMade, Collected, FilesIn, Range
  <2>4. Is(e.oid, "blob")
    BY <2>3 DEF Good, Is
  <2>5. aborted' = aborted
    BY <1>5, <2>1, <2>4 DEF WriteFile
  <2> QED
    BY <2>2, <2>5
<1>6. ASSUME NEW i \in left, WriteSymlink(i) PROVE pc' # "err" /\ aborted' = FALSE
  BY <1>6 DEF WriteSymlink, Materialize, Goes
<1>7. CASE EndFiles \/ WriteIndex
  BY <1>7 DEF EndFiles, WriteIndex, Goes, fileVars
<1>8. ~WriteIndexFails
  BY DEF WriteIndexFails
<1>9. CASE Done \/ UNCHANGED vars
  BY <1>9 DEF Done, vars
<1>10. CASE CreateDirectory \/ StartFiles
  BY <1>10 DEF CreateDirectory, StartFiles, Goes
<1>11. CASE ReadCommit \/ VisitDirectory \/ VisitFile \/ VisitGitlink \/ LeaveTree
  BY <1>11 DEF ReadCommit, VisitDirectory, VisitFile, VisitGitlink, Visit, LeaveTree, Goes, fileVars
<1> QED
  BY <1>1, <1>2, <1>3, <1>4, <1>5, <1>6, <1>7, <1>8, <1>9, <1>10, <1>11 DEF Next, Step

GoodInv ==
  \E h \in Heads :
    /\ head = h
    /\ healthy /\ Good(h) /\ Own(h) => FreshInv(h) /\ pc # "err" /\ aborted = FALSE

\* A tree git would write, under names the index keeps, is checked out.
THEOREM ChecksOutCorrect == Spec => []GoodTreeChecksOut
<1>1. Init => GoodInv
  <2> SUFFICES ASSUME Init PROVE GoodInv
    OBVIOUS
  <2>1. PICK h \in Heads : head = h
    BY DEF Init
  <2>2. FreshInv(h) /\ pc # "err" /\ aborted = FALSE
    BY DEF Init, FreshInv
  <2> QED
    BY <2>1, <2>2 DEF GoodInv
<1>2. CheckoutInv /\ GoodInv /\ [Next]_vars => GoodInv'
  <2> SUFFICES ASSUME CheckoutInv, GoodInv, [Next]_vars PROVE GoodInv'
    OBVIOUS
  <2>1. PICK h \in Heads :
          /\ head = h
          /\ healthy /\ Good(h) /\ Own(h) => FreshInv(h) /\ pc # "err" /\ aborted = FALSE
    BY DEF GoodInv
  <2>2. WalkInv(h) /\ (Good(h) /\ Own(h) => DiskInv(h)) /\ ExistingUntouched
    BY <2>1, GoodApart DEF CheckoutInv
  <2>3. head' = h
    BY <2>1, <2>2, WalkStep
  <2>4. healthy' = healthy
    BY DEF Next, Step, ReadCommit, RejectCommit, VisitDirectory, VisitFile, VisitGitlink, Visit,
           RejectEntry, LeaveTree, CreateDirectory, CreateDirectoryFails, StartFiles, WriteFile,
           WriteSymlink, WriteFails, Materialize, EndFiles, WriteIndex, WriteIndexFails, Done, Goes, vars
  <2>5. healthy /\ Good(h) /\ Own(h) => FreshInv(h)' /\ pc' # "err" /\ aborted' = FALSE
    BY <2>1, <2>2, FreshStep, GoodStep
  <2>6. (Good(h)' <=> Good(h)) /\ (Own(h)' <=> Own(h))
    BY DEF Good, Own
  <2> QED
    BY <2>3, <2>4, <2>5, <2>6 DEF GoodInv
<1>3. CheckoutInv /\ GoodInv => GoodTreeChecksOut
  <2> SUFFICES ASSUME CheckoutInv, GoodInv, healthy, GoodTree, PlainNames PROVE pc # "err"
    BY DEF GoodTreeChecksOut
  <2>1. PICK h \in Heads :
          /\ head = h
          /\ healthy /\ Good(h) /\ Own(h) => FreshInv(h) /\ pc # "err" /\ aborted = FALSE
    BY DEF GoodInv
  <2>2. Good(h)
    BY <2>1 DEF GoodTree, Good, Is, Levels, OneName
  <2>3. \A e \in TreeOf(h) : GitPath(e.path) = e.path
    <3>1. TreeOf(h) \subseteq Placed
      BY <2>2, TreeFacts DEF Good
    <3> QED
      BY <2>1, <3>1, GitPathPlain DEF PlainNames, Levels, Placed
  <2>4. Own(h)
    BY <2>3 DEF Own
  <2> QED
    BY <2>1, <2>2, <2>4
<1> QED
  BY <1>1, <1>2, <1>3, CheckoutInvariant, PTL DEF Spec
=============================================================================
