------------------------ MODULE CloneLifecycleProofs ------------------------
(***************************************************************************)
(* Proofs about the CloneLifecycle module, for any number of clones in     *)
(* either mode, any sizes and any limits.                                  *)
(***************************************************************************)
EXTENDS CloneLifecycle, TLAPS

-----------------------------------------------------------------------------
\* The steps of the two plans, one by one.
LEMMA SequentialPlan ==
  /\ Len(Plan["sequential"]) = 12
  /\ Plan["sequential"][1] = "discover" /\ Plan["sequential"][2] = "stage"
  /\ Plan["sequential"][3] = "layout" /\ Plan["sequential"][4] = "limits"
  /\ Plan["sequential"][5] = "fetch" /\ Plan["sequential"][6] = "size"
  /\ Plan["sequential"][7] = "ingest" /\ Plan["sequential"][8] = "metadata"
  /\ Plan["sequential"][9] = "size" /\ Plan["sequential"][10] = "checkout"
  /\ Plan["sequential"][11] = "commit" /\ Plan["sequential"][12] = "measure"
BY DEF Plan

\* The steps of the pipelined clone.
LEMMA PipelinedPlan ==
  /\ Len(Plan["pipelined"]) = 9
  /\ Plan["pipelined"][1] = "discover" /\ Plan["pipelined"][2] = "stage"
  /\ Plan["pipelined"][3] = "layout" /\ Plan["pipelined"][4] = "limits"
  /\ Plan["pipelined"][5] = "metadata" /\ Plan["pipelined"][6] = "threads"
  /\ Plan["pipelined"][7] = "size" /\ Plan["pipelined"][8] = "commit"
  /\ Plan["pipelined"][9] = "measure"
BY DEF Plan

Modes == {"sequential", "pipelined"}

\* Where a plan commits; what comes after it is the check of the target.
CommitAt(m) == Len(Plan[m]) - 1

\* What the steps before step k write: the parts that are staged by then.
Written(m, k) == UNION {Writes(Plan[m][j]) : j \in 1 .. k - 1}

\* The steps between the one that makes the staging directory and the commit.
Building == {"layout", "limits", "fetch", "size", "ingest", "metadata", "checkout", "threads"}

\* The rename is the last step but one.
LEMMA CommitFacts ==
  ASSUME NEW m \in Modes
  PROVE  CommitAt(m) \in 8 .. 11 /\ Len(Plan[m]) = CommitAt(m) + 1
<1>1. CASE m = "sequential"
  BY <1>1, SequentialPlan DEF CommitAt
<1>2. CASE m = "pipelined"
  BY <1>2, PipelinedPlan DEF CommitAt
<1> QED
  BY <1>1, <1>2 DEF Modes

\* Before it come the steps that build the repository, in both modes.
LEMMA PlanOrder ==
  ASSUME NEW m \in Modes, NEW k \in 1 .. Len(Plan[m])
  PROVE  /\ CommitAt(m) \in 8 .. 11 /\ Len(Plan[m]) = CommitAt(m) + 1
         /\ k = 1 \/ k = 2 \/ k \in 3 .. CommitAt(m) - 1 \/ k = CommitAt(m)
              \/ k = CommitAt(m) + 1
         /\ Plan[m][k] = "discover" <=> k = 1
         /\ Plan[m][k] = "stage" <=> k = 2
         /\ Plan[m][k] \in Building <=> k \in 3 .. CommitAt(m) - 1
         /\ Plan[m][k] = "commit" <=> k = CommitAt(m)
         /\ Plan[m][k] = "measure" <=> k = CommitAt(m) + 1
<1>1. CASE m = "sequential"
  <2>1. k \in {1, 2, 3, 4, 5, 6, 7, 8, 9, 10, 11, 12}
    BY <1>1, SequentialPlan
  <2> QED
    BY <1>1, <2>1, SequentialPlan DEF CommitAt, Building
<1>2. CASE m = "pipelined"
  <2>1. k \in {1, 2, 3, 4, 5, 6, 7, 8, 9}
    BY <1>2, PipelinedPlan
  <2> QED
    BY <1>2, <2>1, PipelinedPlan DEF CommitAt, Building
<1> QED
  BY <1>1, <1>2 DEF Modes

\* A step adds what it writes, and when a clone commits every part is written.
LEMMA WrittenFacts ==
  ASSUME NEW m \in Modes
  PROVE  /\ Written(m, 3) = {"root"}
         /\ \A k \in 1 .. Len(Plan[m]) :
              Written(m, k + 1) = Written(m, k) \cup Writes(Plan[m][k])
         /\ Written(m, CommitAt(m)) = Parts
         /\ m = "pipelined" => Plan[m][CommitAt(m) - 1] = "size"
<1>1. \A k \in 1 .. Len(Plan[m]) :
        Written(m, k + 1) = Written(m, k) \cup Writes(Plan[m][k])
  <2> SUFFICES ASSUME NEW k \in 1 .. Len(Plan[m])
               PROVE  Written(m, k + 1) = Written(m, k) \cup Writes(Plan[m][k])
    OBVIOUS
  <2>1. 1 .. (k + 1) - 1 = (1 .. k - 1) \cup {k}
    OBVIOUS
  <2> QED
    BY <2>1 DEF Written
<1>2. Written(m, 1) = {}
  BY DEF Written
<1>3. CASE m = "sequential"
  <2>1. /\ Written(m, 3) = {"root"}
        /\ Written(m, 5) = {"root", "layout"}
    BY <1>1, <1>2, <1>3, SequentialPlan DEF Writes
  <2>2. Written(m, 8) = {"root", "layout", "pack", "idx"}
    BY <1>1, <2>1, <1>3, SequentialPlan DEF Writes
  <2>3. Written(m, 11) = Parts
    BY <1>1, <2>2, <1>3, SequentialPlan DEF Writes, Parts
  <2> QED
    BY <1>1, <1>3, <2>1, <2>3, SequentialPlan DEF CommitAt
<1>4. CASE m = "pipelined"
  <2>1. /\ Written(m, 3) = {"root"}
        /\ Written(m, 5) = {"root", "layout"}
    BY <1>1, <1>2, <1>4, PipelinedPlan DEF Writes
  <2>2. Written(m, 8) = Parts
    BY <1>1, <2>1, <1>4, PipelinedPlan DEF Writes, Parts
  <2> QED
    BY <1>1, <1>4, <2>1, <2>2, PipelinedPlan DEF CommitAt
<1> QED
  BY <1>3, <1>4 DEF Modes

-----------------------------------------------------------------------------
(***************************************************************************)
(* The inductive invariant.  A running clone has staged what its steps     *)
(* wrote so far, and nothing before it made the directory; from the commit *)
(* on, its repository is at the target.  What is at the target is whole    *)
(* and, published by a pipelined clone, within the limit.                  *)
(***************************************************************************)
StagedSoFar(c) ==
  result[c] = "running" =>
    /\ pc[c] <= 2 => staging[c] = Absent
    /\ pc[c] \in 3 .. CommitAt(mode[c]) =>
         staging[c] \in SUBSET Parts /\ Written(mode[c], pc[c]) \subseteq staging[c]
    /\ pc[c] > CommitAt(mode[c]) => staging[c] = Absent

Measured(c) ==
  result[c] = "running" /\ mode[c] = "pipelined" /\ pc[c] = CommitAt(mode[c]) =>
    ~TooLarge(c, staging[c])

IsPublished(c) ==
  result[c] = "ok" \/ (result[c] = "running" /\ pc[c] > CommitAt(mode[c])) =>
    target \in Repo /\ target.by = c

LifeInv ==
  /\ TypeOK
  /\ \A c \in Clones : StagedSoFar(c) /\ Measured(c) /\ IsPublished(c)
  /\ StagingIsRemoved
  /\ TargetIsComplete
  /\ PublishedWithinLimit

\* The repositories are none of the other things at a path.
LEMMA RepoFacts ==
  /\ Absent \notin Repo /\ Empty \notin Repo /\ Foreign \notin Repo
  /\ Clones # {} => Absent \notin SUBSET Parts
<1>1. ASSUME NEW x \in Repo PROVE x \notin {Absent, Empty, Foreign}
  <2>1. x.by \in Clones /\ x.parts \in SUBSET Parts /\ x = [by |-> x.by, parts |-> x.parts]
    BY DEF Repo
  <2>2. [by |-> x.by, parts |-> x.parts] \notin {Absent, Empty, Foreign}
    BY <2>1, PathsAssumption
  <2> QED
    BY <2>1, <2>2
<1>2. ASSUME NEW c \in Clones PROVE Absent \notin SUBSET Parts
  BY PathsAssumption
<1> QED
  BY <1>1, <1>2

\* No clone has begun.
LEMMA LifeInit == Init => LifeInv
<1> SUFFICES ASSUME Init PROVE LifeInv
  OBVIOUS
<1>1. mode \in [Clones -> Modes]
  BY DEF Init, Modes
<1>2. \A m \in Modes : 1 \in 1 .. Len(Plan[m]) /\ 1 < CommitAt(m)
  BY CommitFacts
<1>3. target \notin Repo
  BY RepoFacts DEF Init
<1>4. TypeOK
  <2>1. \A c \in Clones : pc[c] \in 1 .. Len(Plan[mode[c]])
    BY <1>1, <1>2 DEF Init
  <2> QED
    BY <2>1 DEF Init, TypeOK, Results
<1>5. \A c \in Clones : /\ mode[c] \in Modes /\ pc[c] = 1 /\ 1 < CommitAt(mode[c])
                        /\ CommitAt(mode[c]) \in Nat
                        /\ result[c] = "running" /\ staging[c] = Absent
  BY <1>1, CommitFacts DEF Init
<1> QED
  BY <1>3, <1>4, <1>5
  DEF LifeInv, StagedSoFar, Measured, IsPublished, StagingIsRemoved,
      TargetIsComplete, PublishedWithinLimit

\* A step of clone c that leaves the target alone and goes from one building
\* step, or the one before them, to the next.
LEMMA BuildingStep ==
  ASSUME LifeInv, NEW c \in Clones, result[c] = "running",
         pc[c] \in 2 .. CommitAt(mode[c]) - 1,
         pc' = [pc EXCEPT ![c] = @ + 1],
         staging' \in [Clones -> {Absent} \cup SUBSET Parts],
         staging'[c] \in SUBSET Parts,
         Written(mode[c], pc[c] + 1) \subseteq staging'[c],
         \A d \in Clones \ {c} : staging'[d] = staging[d],
         Step(c) = "size" /\ mode[c] = "pipelined" => ~TooLarge(c, staging'[c]),
         UNCHANGED <<mode, limit, result, target>>
  PROVE  LifeInv'
<1> USE DEF LifeInv
<1>1. /\ mode[c] \in Modes /\ mode \in [Clones -> Modes] /\ pc \in [Clones -> Nat]
      /\ pc[c] \in 1 .. Len(Plan[mode[c]]) /\ pc[c] \in Nat
  BY DEF TypeOK, Modes
<1>2. /\ Len(Plan[mode[c]]) = CommitAt(mode[c]) + 1 /\ CommitAt(mode[c]) \in 8 .. 11
  BY <1>1, PlanOrder
<1>3. /\ pc'[c] = pc[c] + 1 /\ \A d \in Clones \ {c} : pc'[d] = pc[d]
      /\ pc' \in [Clones -> Nat]
  BY <1>1
<1>4. TypeOK'
  BY <1>1, <1>2, <1>3 DEF TypeOK
<1>5. \A d \in Clones : StagedSoFar(d)'
  <2>1. StagedSoFar(c)'
    BY <1>1, <1>2, <1>3 DEF StagedSoFar
  <2>2. \A d \in Clones \ {c} : StagedSoFar(d)'
    BY <1>3 DEF StagedSoFar
  <2> QED
    BY <2>1, <2>2
<1>6. \A d \in Clones : Measured(d)'
  <2>1. Measured(c)'
    <3> SUFFICES ASSUME mode[c] = "pipelined", pc'[c] = CommitAt(mode[c])
                 PROVE  ~TooLarge(c, staging'[c])
      BY DEF Measured, TooLarge
    <3>1. pc[c] = CommitAt(mode[c]) - 1
      BY <1>1, <1>2, <1>3
    <3> QED
      BY <1>1, <3>1, WrittenFacts DEF Step
  <2>2. \A d \in Clones \ {c} : Measured(d)'
    BY <1>3 DEF Measured, TooLarge
  <2> QED
    BY <2>1, <2>2
<1>7. \A d \in Clones : IsPublished(d)'
  <2>1. IsPublished(c)'
    BY <1>1, <1>2, <1>3 DEF IsPublished
  <2>2. \A d \in Clones \ {c} : IsPublished(d)'
    BY <1>3 DEF IsPublished
  <2> QED
    BY <2>1, <2>2
<1>8. StagingIsRemoved' /\ TargetIsComplete' /\ PublishedWithinLimit'
  BY DEF StagingIsRemoved, TargetIsComplete, PublishedWithinLimit, TooLarge
<1> QED
  BY <1>4, <1>5, <1>6, <1>7, <1>8

\* A step that ends clone c and leaves the target alone.
LEMMA EndingStep ==
  ASSUME LifeInv, NEW c \in Clones, NEW how \in Results \ {"running"}, End(c, how),
         staging' \in [Clones -> {Absent} \cup SUBSET Parts],
         \A d \in Clones \ {c} : staging'[d] = staging[d],
         how \in {"ok", "failed"} => staging'[c] = Absent,
         how = "ok" => target \in Repo /\ target.by = c,
         target' = target
  PROVE  LifeInv'
<1> USE DEF LifeInv
<1>1. /\ result'[c] = how /\ \A d \in Clones \ {c} : result'[d] = result[d]
      /\ result' \in [Clones -> Results] /\ UNCHANGED <<mode, limit, pc>>
  BY DEF End, TypeOK
<1>2. TypeOK'
  BY <1>1 DEF TypeOK
<1>3. StagedSoFar(c)' /\ Measured(c)' /\ IsPublished(c)'
  BY <1>1 DEF StagedSoFar, Measured, IsPublished
<1>4. \A d \in Clones \ {c} : StagedSoFar(d)' /\ Measured(d)' /\ IsPublished(d)'
  BY <1>1 DEF StagedSoFar, Measured, IsPublished, TooLarge
<1>5. StagingIsRemoved' /\ TargetIsComplete' /\ PublishedWithinLimit'
  BY <1>1 DEF StagingIsRemoved, TargetIsComplete, PublishedWithinLimit, TooLarge
<1> QED
  BY <1>2, <1>3, <1>4, <1>5

\* What the steps of a clone have in common: where it is in its plan.
LEMMA AtStep ==
  ASSUME LifeInv, NEW c \in Clones, result[c] = "running"
  PROVE  /\ mode[c] \in Modes /\ pc[c] \in 1 .. Len(Plan[mode[c]])
         /\ CommitAt(mode[c]) \in 8 .. 11
         /\ Step(c) = "discover" => pc[c] = 1 /\ staging[c] = Absent
         /\ Step(c) = "stage" => pc[c] = 2
         /\ Step(c) \in Building =>
              /\ pc[c] \in 3 .. CommitAt(mode[c]) - 1
              /\ staging[c] \in SUBSET Parts
              /\ Written(mode[c], pc[c]) \subseteq staging[c]
              /\ Written(mode[c], pc[c] + 1) = Written(mode[c], pc[c]) \cup Writes(Step(c))
         /\ Step(c) = "commit" => pc[c] = CommitAt(mode[c]) /\ staging[c] = Parts
         /\ Step(c) = "measure" =>
              /\ pc[c] = CommitAt(mode[c]) + 1 /\ staging[c] = Absent
              /\ target \in Repo /\ target.by = c
<1>1. mode[c] \in Modes /\ pc[c] \in 1 .. Len(Plan[mode[c]]) /\ pc[c] \in Nat
  BY DEF LifeInv, TypeOK, Modes
<1>2. StagedSoFar(c) /\ IsPublished(c)
  BY DEF LifeInv
<1>3. /\ Step(c) = "discover" <=> pc[c] = 1
      /\ Step(c) = "stage" <=> pc[c] = 2
      /\ Step(c) \in Building <=> pc[c] \in 3 .. CommitAt(mode[c]) - 1
      /\ Step(c) = "commit" <=> pc[c] = CommitAt(mode[c])
      /\ Step(c) = "measure" <=> pc[c] = CommitAt(mode[c]) + 1
      /\ CommitAt(mode[c]) \in 8 .. 11
  BY <1>1, PlanOrder DEF Step
<1>4. /\ Written(mode[c], pc[c] + 1) = Written(mode[c], pc[c]) \cup Writes(Step(c))
      /\ Written(mode[c], CommitAt(mode[c])) = Parts
  BY <1>1, WrittenFacts DEF Step
<1>5. Step(c) = "discover" => pc[c] = 1 /\ staging[c] = Absent
  BY <1>2, <1>3 DEF StagedSoFar
<1>6. Step(c) \in Building =>
        /\ pc[c] \in 3 .. CommitAt(mode[c]) - 1
        /\ staging[c] \in SUBSET Parts
        /\ Written(mode[c], pc[c]) \subseteq staging[c]
  BY <1>2, <1>3 DEF StagedSoFar
<1>7. Step(c) = "commit" => pc[c] = CommitAt(mode[c]) /\ staging[c] = Parts
  <2> SUFFICES ASSUME Step(c) = "commit" PROVE staging[c] = Parts
    BY <1>3
  <2>1. staging[c] \in SUBSET Parts /\ Parts \subseteq staging[c]
    BY <1>2, <1>3, <1>4 DEF StagedSoFar
  <2> QED
    BY <2>1
<1>8. Step(c) = "measure" =>
        /\ pc[c] = CommitAt(mode[c]) + 1 /\ staging[c] = Absent
        /\ target \in Repo /\ target.by = c
  BY <1>2, <1>3 DEF StagedSoFar, IsPublished
<1> QED
  BY <1>1, <1>3, <1>4, <1>5, <1>6, <1>7, <1>8

\* Every step, of whomever, keeps the invariant.
LEMMA LifeNext == LifeInv /\ [Next]_vars => LifeInv'
<1> SUFFICES ASSUME LifeInv, [Next]_vars PROVE LifeInv'
  OBVIOUS
<1>1. TypeOK
  BY DEF LifeInv
<1>2. CASE UNCHANGED vars
  BY <1>2 DEF LifeInv, vars, TypeOK, StagedSoFar, Measured, IsPublished, StagingIsRemoved,
              TargetIsComplete, PublishedWithinLimit, TooLarge
<1>3. CASE SomeoneCreates
  <2>1. target = Absent /\ target' \in {Empty, Foreign}
        /\ target \notin Repo /\ target' \notin Repo
    BY <1>3, RepoFacts DEF SomeoneCreates
  <2> QED
    BY <1>3, <2>1
    DEF SomeoneCreates, LifeInv, TypeOK, StagedSoFar, Measured, IsPublished,
        StagingIsRemoved, TargetIsComplete, PublishedWithinLimit, TooLarge
<1>4. ASSUME NEW c \in Clones, Act(c) PROVE LifeInv'
  <2> USE <1>1
  <2>0. result[c] = "running"
    BY <1>4 DEF Act, Discover, Stage, CreateLayout, LayoutFails, ReadLimits, WritePart,
                ThreadWrites, JoinThreads, CheckSize, Commit, CommitFails, Succeed,
                MeasureFails, Fail, Killed, Continue, End
  <2>a. /\ mode[c] \in Modes /\ pc[c] \in 1 .. Len(Plan[mode[c]])
        /\ CommitAt(mode[c]) \in 8 .. 11 /\ pc[c] \in Nat
    BY <2>0, AtStep
  <2>b. staging \in [Clones -> {Absent} \cup SUBSET Parts]
    BY DEF TypeOK
  <2>1. CASE Discover(c)
    <3>1. pc[c] = 1 /\ staging[c] = Absent
      BY <2>0, <2>1, AtStep DEF Discover, Continue
    <3>2. /\ pc' = [pc EXCEPT ![c] = 2] /\ UNCHANGED <<mode, limit, result, staging, target>>
      BY <2>1, <3>1 DEF Discover, Continue
    <3>3. /\ pc'[c] = 2 /\ \A d \in Clones \ {c} : pc'[d] = pc[d]
          /\ pc' \in [Clones -> Nat]
      BY <3>2 DEF TypeOK
    <3>4. TypeOK'
      <4>1. 2 \in 1 .. Len(Plan[mode[c]])
        BY <2>a, CommitFacts
      <4> QED
        BY <3>2, <3>3, <4>1 DEF TypeOK
    <3>5. StagedSoFar(c)' /\ Measured(c)' /\ IsPublished(c)'
      BY <2>0, <2>a, <3>1, <3>2, <3>3 DEF StagedSoFar, Measured, IsPublished
    <3>6. \A d \in Clones \ {c} : StagedSoFar(d)' /\ Measured(d)' /\ IsPublished(d)'
      BY <3>2, <3>3 DEF LifeInv, StagedSoFar, Measured, IsPublished, TooLarge
    <3>7. StagingIsRemoved' /\ TargetIsComplete' /\ PublishedWithinLimit'
      BY <3>2 DEF LifeInv, StagingIsRemoved, TargetIsComplete, PublishedWithinLimit, TooLarge
    <3> QED
      BY <3>4, <3>5, <3>6, <3>7 DEF LifeInv
  <2>2. CASE Stage(c)
    <3>1. pc[c] = 2 /\ Written(mode[c], 3) = {"root"} /\ Step(c) = "stage"
      BY <2>0, <2>2, <2>a, AtStep, WrittenFacts DEF Stage, Continue
    <3>2. /\ staging'[c] = {"root"} /\ {"root"} \in SUBSET Parts
          /\ staging' \in [Clones -> {Absent} \cup SUBSET Parts]
          /\ \A d \in Clones \ {c} : staging'[d] = staging[d]
      BY <2>2, <2>b DEF Stage, Parts
    <3>3. /\ pc' = [pc EXCEPT ![c] = @ + 1] /\ UNCHANGED <<mode, limit, result, target>>
      BY <2>2 DEF Stage, Continue
    <3>4. /\ pc[c] \in 2 .. CommitAt(mode[c]) - 1 /\ staging'[c] \in SUBSET Parts
          /\ Written(mode[c], pc[c] + 1) \subseteq staging'[c]
          /\ Step(c) = "size" /\ mode[c] = "pipelined" => ~TooLarge(c, staging'[c])
      BY <2>a, <3>1, <3>2
    <3> QED
      BY <2>0, <3>2, <3>3, <3>4, BuildingStep
  <2>3. ASSUME NEW step \in Building, Continue(c, step),
               NEW P \in SUBSET Parts, staging' = [staging EXCEPT ![c] = @ \cup P],
               Writes(step) \subseteq staging[c] \cup P,
               step = "size" => ~TooLarge(c, staging'[c]),
               UNCHANGED target
        PROVE  LifeInv'
    <3>1. /\ Step(c) = step /\ pc[c] \in 3 .. CommitAt(mode[c]) - 1
          /\ staging[c] \in SUBSET Parts
          /\ Written(mode[c], pc[c] + 1) \subseteq staging[c] \cup P
      BY <2>0, <2>3, AtStep DEF Continue
    <3>2. /\ staging'[c] = staging[c] \cup P
          /\ staging' \in [Clones -> {Absent} \cup SUBSET Parts]
          /\ \A d \in Clones \ {c} : staging'[d] = staging[d]
      BY <2>3, <2>b, <3>1
    <3>3. /\ pc' = [pc EXCEPT ![c] = @ + 1] /\ UNCHANGED <<mode, limit, result, target>>
      BY <2>3 DEF Continue
    <3>4. /\ pc[c] \in 2 .. CommitAt(mode[c]) - 1 /\ staging'[c] \in SUBSET Parts
          /\ Written(mode[c], pc[c] + 1) \subseteq staging'[c]
          /\ Step(c) = "size" /\ mode[c] = "pipelined" => ~TooLarge(c, staging'[c])
      BY <2>3, <2>a, <3>1, <3>2
    <3> QED
      BY <2>0, <3>2, <3>3, <3>4, BuildingStep
  <2>4. CASE CreateLayout(c)
    <3>1. {"layout"} \in SUBSET Parts /\ Writes("layout") = {"layout"} /\ "layout" \in Building
      BY DEF Parts, Writes, Building
    <3> QED
      BY <2>3, <2>4, <3>1 DEF CreateLayout
  <2>5. ASSUME NEW step \in {"limits", "threads", "size"}, Continue(c, step),
               Writes(step) \subseteq staging[c],
               step = "size" => ~TooLarge(c, staging[c]),
               UNCHANGED <<staging, target>>
        PROVE  LifeInv'
    <3>1. step \in Building /\ {} \in SUBSET Parts
      BY DEF Building
    <3>2. staging[c] \in SUBSET Parts
      BY <2>0, <2>5, <3>1, AtStep DEF Continue
    <3>3. staging' = [staging EXCEPT ![c] = @ \cup {}] /\ staging'[c] = staging[c]
      BY <2>5, <2>b, <3>2
    <3> QED
      BY <2>3, <2>5, <3>1, <3>3
  <2>6. CASE ReadLimits(c)
    BY <2>5, <2>6 DEF ReadLimits, Writes
  <2>7. CASE JoinThreads(c)
    BY <2>5, <2>7 DEF JoinThreads
  <2>8. CASE CheckSize(c)
    BY <2>5, <2>8 DEF CheckSize, Writes
  <2>9. CASE WritePart(c)
    <3>1. PICK step \in {"fetch", "ingest", "metadata", "checkout"} :
            /\ Continue(c, step)
            /\ staging' = [staging EXCEPT ![c] = @ \cup Writes(step)]
            /\ UNCHANGED target
      BY <2>9 DEF WritePart
    <3>2. Writes(step) \in SUBSET Parts
      BY DEF Parts, Writes
    <3>3. step \in Building /\ step # "size"
      BY DEF Building
    <3> QED
      BY <2>3, <3>1, <3>2, <3>3
  <2>10. CASE ThreadWrites(c)
    <3>1. PICK part \in Writes("threads") : staging' = [staging EXCEPT ![c] = @ \cup {part}]
      BY <2>10 DEF ThreadWrites
    <3>2. part \in Parts
      BY DEF Writes, Parts
    <3>3. /\ pc[c] \in 3 .. CommitAt(mode[c]) - 1 /\ staging[c] \in SUBSET Parts
          /\ Written(mode[c], pc[c]) \subseteq staging[c]
      BY <2>0, <2>10, AtStep DEF ThreadWrites, Building
    <3>4. /\ staging'[c] = staging[c] \cup {part} /\ staging'[c] \in SUBSET Parts
          /\ \A d \in Clones \ {c} : staging'[d] = staging[d]
          /\ staging' \in [Clones -> {Absent} \cup SUBSET Parts]
      BY <2>b, <3>1, <3>2, <3>3
    <3>5. UNCHANGED <<mode, limit, pc, result, target>>
      BY <2>10 DEF ThreadWrites
    <3>6. StagedSoFar(c)' /\ Measured(c)' /\ IsPublished(c)'
      BY <2>0, <2>a, <3>3, <3>4, <3>5 DEF StagedSoFar, Measured, IsPublished
    <3>7. \A d \in Clones \ {c} : StagedSoFar(d)' /\ Measured(d)' /\ IsPublished(d)'
      BY <3>4, <3>5 DEF LifeInv, StagedSoFar, Measured, IsPublished, TooLarge
    <3>8. TypeOK'
      BY <3>4, <3>5 DEF TypeOK
    <3>9. StagingIsRemoved' /\ TargetIsComplete' /\ PublishedWithinLimit'
      BY <2>0, <3>4, <3>5
      DEF LifeInv, StagingIsRemoved, TargetIsComplete, PublishedWithinLimit, TooLarge
    <3> QED
      BY <3>6, <3>7, <3>8, <3>9 DEF LifeInv
  <2>11. CASE Commit(c)
    <3>1. /\ pc[c] = CommitAt(mode[c]) /\ staging[c] = Parts
      BY <2>0, <2>11, AtStep DEF Commit, Continue
    <3>2. /\ target \notin Repo /\ target' = [by |-> c, parts |-> Parts]
          /\ target' \in Repo /\ target'.by = c /\ target'.parts = Parts
      BY <2>11, <3>1, RepoFacts DEF Commit, Repo
    <3>3. /\ pc' \in [Clones -> Nat] /\ pc'[c] = pc[c] + 1
          /\ \A d \in Clones \ {c} : pc'[d] = pc[d] /\ staging'[d] = staging[d]
          /\ staging'[c] = Absent /\ staging' \in [Clones -> {Absent} \cup SUBSET Parts]
          /\ UNCHANGED <<mode, limit, result>>
      BY <2>11, <2>b DEF Commit, Continue, DropStaging, TypeOK
    <3>4. TypeOK'
      <4>1. pc'[c] \in 1 .. Len(Plan[mode[c]])
        BY <2>a, <3>1, <3>3, CommitFacts
      <4> QED
        BY <3>2, <3>3, <4>1 DEF TypeOK
    <3>5. StagedSoFar(c)' /\ Measured(c)' /\ IsPublished(c)'
      BY <2>0, <2>a, <3>1, <3>2, <3>3 DEF StagedSoFar, Measured, IsPublished
    <3>6. ASSUME NEW d \in Clones \ {c}
          PROVE  StagedSoFar(d)' /\ Measured(d)' /\ IsPublished(d)'
      <4>1. StagedSoFar(d) /\ Measured(d) /\ IsPublished(d)
        BY DEF LifeInv
      <4> QED
        BY <3>2, <3>3, <4>1 DEF StagedSoFar, Measured, IsPublished, TooLarge
    <3>7. StagingIsRemoved'
      BY <2>0, <3>3 DEF LifeInv, StagingIsRemoved
    <3>8. TargetIsComplete'
      BY <3>2 DEF TargetIsComplete
    <3>9. PublishedWithinLimit'
      <4>1. mode[c] = "pipelined" => ~TooLarge(c, Parts)
        BY <2>0, <3>1 DEF LifeInv, Measured
      <4> QED
        BY <3>2, <3>3, <4>1 DEF PublishedWithinLimit, TooLarge
    <3> QED
      BY <3>4, <3>5, <3>6, <3>7, <3>8, <3>9 DEF LifeInv
  <2>12. ASSUME NEW how \in {"failedLayout", "failedPublish", "killed"}, End(c, how),
                UNCHANGED <<staging, target>>
         PROVE  LifeInv'
    BY <2>12, <2>b, EndingStep DEF Results
  <2>13. CASE LayoutFails(c) \/ CommitFails(c) \/ Killed(c)
    BY <2>12, <2>13 DEF LayoutFails, CommitFails, Killed
  <2>14. CASE Succeed(c) \/ MeasureFails(c)
    <3>1. PICK how \in {"ok", "failed"} : End(c, how) /\ UNCHANGED <<staging, target>>
      BY <2>14 DEF Succeed, MeasureFails
    <3>2. staging[c] = Absent /\ target \in Repo /\ target.by = c
      BY <2>0, <2>14, AtStep DEF Succeed, MeasureFails
    <3> QED
      BY <2>b, <3>1, <3>2, EndingStep DEF Results
  <2>15. CASE Fail(c)
    <3>1. /\ End(c, "failed") /\ target' = target /\ "failed" \in Results \ {"running"}
          /\ staging' = [staging EXCEPT ![c] = Absent]
      BY <2>15 DEF Fail, DropStaging, Results
    <3>2. /\ staging' \in [Clones -> {Absent} \cup SUBSET Parts] /\ staging'[c] = Absent
          /\ \A d \in Clones \ {c} : staging'[d] = staging[d]
      BY <2>b, <3>1
    <3> QED
      BY <3>1, <3>2, EndingStep
  <2> QED
    BY <1>4, <2>1, <2>2, <2>4, <2>6, <2>7, <2>8, <2>9, <2>10, <2>11, <2>13, <2>14, <2>15 DEF Act
<1> QED
  BY <1>2, <1>3, <1>4 DEF Next, Ended

-----------------------------------------------------------------------------
\* It holds of every set of clones.
LEMMA LifeInvariant == Spec => []LifeInv
  BY LifeInit, LifeNext, PTL DEF Spec

\* A repository at the target is whole, for any number of clones of it that are
\* killed or fail anywhere (FinalizingRepo::commit renames what is complete).
THEOREM TargetCorrect == Spec => []TargetIsComplete
<1>1. LifeInv => TargetIsComplete
  BY DEF LifeInv
<1> QED
  BY <1>1, LifeInvariant, PTL

\* A clone that reports success has published its own repository, and it is still
\* there: no other clone's rename can have replaced it (FinalizingRepo::commit).
THEOREM PublishedCorrect == Spec => []SuccessIsPublished
<1>1. LifeInv => SuccessIsPublished
  BY DEF LifeInv, IsPublished, SuccessIsPublished
<1> QED
  BY <1>1, LifeInvariant, PTL

\* A clone that has failed elsewhere than in RepoLayout::create and in commit has
\* removed its staging directory (Drop of FinalizingRepo).
THEOREM StagingCorrect == Spec => []StagingIsRemoved
<1>1. LifeInv => StagingIsRemoved
  BY DEF LifeInv
<1> QED
  BY <1>1, LifeInvariant, PTL

\* What a pipelined clone publishes is within FCL_MAX_TEMP_BYTES, as it was when
\* the threads had ended (clone_repo_pipelined).
THEOREM LimitCorrect == Spec => []PublishedWithinLimit
<1>1. LifeInv => PublishedWithinLimit
  BY DEF LifeInv
<1> QED
  BY <1>1, LifeInvariant, PTL

\* The rename of FinalizingRepo::commit replaces nothing but an empty directory,
\* however long ago FinalizingRepo::create looked at the target.
THEOREM ExistingDataCorrect == Spec => ExistingDataIsKept
<1>1. [Next]_vars => [target \notin {Absent, Empty} => target' = target]_vars
  BY DEF Next, Act, Discover, Stage, CreateLayout, LayoutFails, ReadLimits, WritePart,
         ThreadWrites, JoinThreads, CheckSize, Commit, CommitFails, Succeed, MeasureFails,
         Fail, Killed, SomeoneCreates, Ended, vars
<1> QED
  BY <1>1, PTL DEF Spec, ExistingDataIsKept
=============================================================================
