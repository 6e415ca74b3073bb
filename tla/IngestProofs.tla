----------------------------- MODULE IngestProofs -----------------------------
(***************************************************************************)
(* Proofs about the ingest of the sequential clone: the resolver           *)
(* (SequentialResolver), and what becomes of the data of what it has       *)
(* resolved (ObjectStates).  They hold of any pack, with any sizes, limits *)
(* and blobs that the checkout needs.                                      *)
(***************************************************************************)
EXTENDS ObjectStates, SequenceTheorems, FiniteSetTheorems, WellFoundedInduction, TLAPS

-----------------------------------------------------------------------------
(***************************************************************************)
(* Facts about packs.                                                      *)
(***************************************************************************)

\* The frames of a pack are the numbers up to its length; each has an id, and a
\* base when it is a delta.
LEMMA PackFacts ==
  ASSUME pack \in Packs
  PROVE  /\ Len(pack) \in Nat /\ Frames = 1 .. Len(pack)
         /\ IsFiniteSet(Frames) /\ 0 \notin Frames
         /\ \A f \in Frames : /\ pack[f].oid \in Oid
                              /\ pack[f].kind \in {"base", "offset", "ref"}
                              /\ pack[f].kind = "ref" => pack[f].base \in Oid
<1>1. pack \in Seq(Frame)
  BY ResolverAssumption
<1>2. Len(pack) \in Nat /\ Frames = 1 .. Len(pack) /\ 0 \notin Frames
  BY <1>1 DEF Frames
<1>3. IsFiniteSet(Frames)
  BY <1>2, FS_Interval
<1>4. \A f \in Frames : pack[f] \in Frame
  BY <1>1 DEF Frames
<1>5. \A g \in Frame : /\ g.oid \in Oid
                       /\ g.kind \in {"base", "offset", "ref"}
                       /\ g.kind = "ref" => g.base \in Oid
  BY DEF Frame
<1> QED
  BY <1>2, <1>3, <1>4, <1>5

\* Numbers up to a bound have a greatest.
LEMMA GreatestExists ==
  ASSUME NEW n \in Nat, NEW S \in SUBSET (1 .. n), S # {}
  PROVE  \E m \in S : \A k \in S : k <= m
<1> DEFINE Below == {ss \in Nat \X Nat : ss[1] < ss[2]}
           T == {n - k : k \in S}
<1>1. IsWellFoundedOn(Below, Nat)
  BY NatLessThanWellFounded DEF OpToRel
<1>2. T \subseteq Nat /\ T # {}
  <2>1. \A k \in S : n - k \in Nat
    OBVIOUS
  <2> QED
    BY <2>1
<1>3. PICK x \in T : \A y \in T : <<y, x>> \notin Below
  <2> HIDE DEF T, Below
  <2> QED
    BY <1>1, <1>2, WFMin
<1>4. PICK m \in S : x = n - m
  BY <1>3
<1>5. ASSUME NEW k \in S PROVE k <= m
  <2>1. n - k \in T /\ n - k \in Nat /\ x \in Nat
    BY <1>2, <1>3
  <2>2. <<n - k, x>> \notin Below
    BY <2>1, <1>3
  <2>3. ~(n - k < x)
    <3> HIDE DEF T
    <3> QED
      BY <2>1, <2>2
  <2> QED
    BY <2>3, <1>4
<1> QED
  BY <1>5

\* The base object found by an id is one with that id, if there is one.
LEMMA LastBaseFacts ==
  ASSUME pack \in Packs, NEW o \in Oid
  PROVE  IF BasesOf(o) = {} THEN LastBase(o) = 0 ELSE LastBase(o) \in BasesOf(o)
<1>1. BasesOf(o) \in SUBSET (1 .. Len(pack)) /\ Len(pack) \in Nat
  BY PackFacts DEF BasesOf, Bases
<1>2. BasesOf(o) # {} => \E m \in BasesOf(o) : \A k \in BasesOf(o) : k <= m
  BY <1>1, GreatestExists
<1> QED
  BY <1>2 DEF LastBase

\* Children are deltas, and there are finitely many.
LEMMA ChildrenFacts ==
  ASSUME pack \in Packs
  PROVE  /\ \A f : Children(f) \subseteq Deltas
         /\ \A f : Cardinality(ChildrenByOffset(f)) \in Nat
         /\ \A o : Cardinality(ChildrenByOid(o)) \in Nat
<1>1. IsFiniteSet(Frames)
  BY PackFacts
<1>2. \A f : Children(f) \subseteq Deltas
  BY DEF Children, ChildrenByOffset, ChildrenByOid, Deltas
<1>3. \A f : Cardinality(ChildrenByOffset(f)) \in Nat
  <2> TAKE f
  <2>1. ChildrenByOffset(f) \in SUBSET Frames
    BY DEF ChildrenByOffset
  <2> QED
    BY <1>1, <2>1, FS_Subset, FS_CardinalityType
<1>4. \A o : Cardinality(ChildrenByOid(o)) \in Nat
  <2> TAKE o
  <2>1. ChildrenByOid(o) \in SUBSET Frames
    BY DEF ChildrenByOid
  <2> QED
    BY <1>1, <2>1, FS_Subset, FS_CardinalityType
<1> QED
  BY <1>2, <1>3, <1>4

-----------------------------------------------------------------------------
(***************************************************************************)
(* Type correctness.                                                       *)
(***************************************************************************)

\* The counters stay natural numbers when a base loses a child.
LEMMA CounterType ==
  ASSUME pack \in Packs, counter \in [Frames -> Nat], UNCHANGED pack,
         NEW f \in Frames, NEW b \in Frames, CountRefChildrenOnce(f, b)
  PROVE  counter' \in [Frames -> Nat]
<1> DEFINE less == IF releases THEN [counter EXCEPT ![b] = Decremented(b)] ELSE counter
<1>1. Decremented(b) \in Nat
  BY DEF Decremented
<1>2. less \in [Frames -> Nat]
  BY <1>1
<1>3. Cardinality(ChildrenByOid(pack[f].oid)) \in Nat
  BY ChildrenFacts
<1>4. counter' = IF f \in counted THEN less
                 ELSE [less EXCEPT ![f] = @ + Cardinality(ChildrenByOid(pack[f].oid))]
  BY DEF CountRefChildrenOnce
<1> HIDE DEF less
<1> QED
  BY <1>2, <1>3, <1>4

\* TypeOK but for what relates the queue to its flags, which is of the queue.
Types ==
  /\ pack \in Packs
  /\ releases \in BOOLEAN
  /\ pc \in {"bases", "loop", "merge"} \cup Final
  /\ resolved \subseteq Frames
  /\ byOid \in [Oid -> Frames \cup {0}]
  /\ counter \in [Frames -> Nat]
  /\ counted \subseteq Frames
  /\ queued \subseteq Deltas /\ ready \subseteq Deltas
  /\ DOMAIN results \subseteq Deltas /\ \A f \in DOMAIN results : results[f] \in Frames
  /\ merged \in Nat
  /\ released \subseteq Frames

\* The initial states have the types, and every step keeps them.
LEMMA TypeInit == Init => Types
<1> SUFFICES ASSUME Init PROVE Types
  OBVIOUS
<1>1. pack \in Packs
  BY DEF Init
<1>2. CountByOffset \in [Frames -> Nat]
  BY <1>1, ChildrenFacts DEF CountByOffset
<1> QED
  BY <1>1, <1>2 DEF Init, Types

\* Every step keeps the types.
LEMMA TypeStep == Types /\ [Next]_vars => Types'
<1> SUFFICES ASSUME Types, [Next]_vars PROVE Types'
  OBVIOUS
<1> USE DEF Frames, Deltas
<1>0. ASSUME NEW verdict \in Final, End(verdict) PROVE Types'
  BY <1>0 DEF End, Types
<1>1. CASE PayloadFails
  BY <1>1, <1>0 DEF PayloadFails, Final
<1>2. CASE ResolveBases
  <2> USE <1>2 DEF ResolveBases
  <2>1. pack \in Packs /\ pack' = pack
    BY DEF Types
  <2>2. byOid' \in [Oid -> Frames \cup {0}]
    BY <2>1, LastBaseFacts DEF BasesOf, Bases
  <2>3. counter' \in [Frames -> Nat]
    BY <2>1, ChildrenFacts DEF Types
  <2>4. queued' \subseteq Deltas
    BY <2>1, ChildrenFacts
  <2>5. counted' \subseteq Frames /\ resolved' \subseteq Frames
    BY DEF CountedBases, Bases
  <2> QED
    BY <2>1, <2>2, <2>3, <2>4, <2>5 DEF Types
<1>3. CASE NoBase
  BY <1>3, <1>0 DEF NoBase, Final
<1>4. CASE Finish
  BY <1>4, <1>0 DEF Finish, Final
<1>5. CASE ComputeRound
  <2>1. CASE End("lost")
    BY <2>1, <1>0 DEF Final
  <2>2. CASE /\ results' = [f \in ready |-> DeltaBase(f)]
             /\ ready' = {}
             /\ pc' = "merge"
             /\ UNCHANGED <<pack, releases, resolved, byOid, counter, counted, queued,
                            merged, released>>
             /\ \A f \in ready : Usable(DeltaBase(f))
    <3>1. \A f \in ready : DeltaBase(f) \in Frames
      BY <2>2, PackFacts DEF Types, DeltaBase, Usable
    <3> QED
      BY <2>2, <3>1 DEF Types
  <2> QED
    BY <1>5, <2>1, <2>2 DEF ComputeRound
<1>6. ASSUME NEW f \in Frames, Merge(f) PROVE Types'
  <2> USE <1>6 DEF Merge
  <2>1. pack \in Packs /\ pack' = pack /\ results[f] \in Frames /\ pack[f].oid \in Oid
    BY PackFacts DEF Types
  <2>2. counter' \in [Frames -> Nat]
    BY <2>1, CounterType DEF Types
  <2>3. counted' \subseteq Frames
    BY DEF Types, CountRefChildrenOnce
  <2>4. released' \subseteq Frames
    BY <2>1 DEF Types, ReleaseIfDone
  <2>5. queued' \subseteq Deltas /\ ready' \subseteq Deltas
    BY <2>1, ChildrenFacts DEF Types, Enqueue
  <2>6. byOid' \in [Oid -> Frames \cup {0}]
    BY <2>1 DEF Types
  <2>7. DOMAIN results' \subseteq Deltas /\ \A g \in DOMAIN results' : results'[g] \in Frames
    BY DEF Types
  <2> QED
    BY <2>1, <2>2, <2>3, <2>4, <2>5, <2>6, <2>7 DEF Types
<1>7. CASE Done \/ UNCHANGED vars
  BY <1>7 DEF Done, vars, Types
<1> QED
  BY <1>1, <1>2, <1>3, <1>4, <1>5, <1>6, <1>7 DEF Next

-----------------------------------------------------------------------------
(***************************************************************************)
(* The inductive invariant.  What makes it safe to give up a base is not   *)
(* the counter but the rounds: a delta is queued when its base has just    *)
(* been resolved and applied in the next round, so that the bases of the   *)
(* round being merged (results) are not those of the round to come (ready).*)
(***************************************************************************)

\* Exactly the deltas whose base is resolved are queued; each waits, is in the
\* round, or is resolved.
QueueInv ==
  /\ ready \cap resolved = {}
  /\ DOMAIN results \cap resolved = {}
  /\ ready \cap DOMAIN results = {}
  /\ queued = ready \cup DOMAIN results \cup (resolved \cap Deltas)
  /\ queued = {f \in Deltas : HasBaseIn(f, resolved)}

\* An id finds a resolved frame with that id, when there is one.
LookupInv ==
  /\ \A o \in Oid : byOid[o] # 0 => byOid[o] \in resolved /\ pack[byOid[o]].oid = o
  /\ \A f \in resolved : byOid[pack[f].oid] # 0

\* The bases of the deltas that wait are resolved, have their data, and are not the
\* bases of the round.
BaseInv ==
  /\ \A f \in DOMAIN results : results[f] \in resolved
  /\ released \subseteq resolved
  /\ \A f \in ready : /\ DeltaBase(f) \in resolved \ released
                      /\ \A g \in DOMAIN results : results[g] # DeltaBase(f)

PhaseInv ==
  /\ pc = "bases" => resolved = {}
  /\ pc = "loop" => DOMAIN results = {}
  /\ pc \in {"loop", "merge"} => Bases \subseteq resolved
  /\ merged = Cardinality(resolved \cap Deltas)

ResolverInv == Types /\ QueueInv /\ LookupInv /\ BaseInv /\ PhaseInv /\ VerdictIsRight

-----------------------------------------------------------------------------
(***************************************************************************)
(* Facts about bases.                                                      *)
(***************************************************************************)

\* A frame that has its base in a set has it in every larger one.
LEMMA HasBaseMonotone ==
  ASSUME NEW f, NEW S, NEW T, S \subseteq T, HasBaseIn(f, S),
         pack[f].kind \in {"base", "offset", "ref"}
  PROVE  HasBaseIn(f, T)
BY DEF HasBaseIn

\* One more frame gives a base to its children, and to no other delta.
LEMMA HasBaseMore ==
  ASSUME pack \in Packs, NEW f \in Frames, NEW S, NEW g \in Deltas
  PROVE  HasBaseIn(g, S \cup {f}) <=> HasBaseIn(g, S) \/ g \in Children(f)
<1>1. g \in Frames /\ pack[g].kind \in {"offset", "ref"}
  BY PackFacts DEF Deltas
<1> QED
  BY <1>1 DEF HasBaseIn, Children, ChildrenByOffset, ChildrenByOid

\* What has its base among what can be resolved can be resolved, and what can be
\* resolved is in every closed set.
LEMMA DerivableFacts ==
  ASSUME pack \in Packs
  PROVE  /\ \A f \in Frames : HasBaseIn(f, Derivable) => f \in Derivable
         /\ \A S \in SUBSET Frames : Closed(S) => Derivable \subseteq S
<1>1. ASSUME NEW f \in Frames, HasBaseIn(f, Derivable) PROVE f \in Derivable
  <2>1. SUFFICES ASSUME NEW S \in SUBSET Frames, Closed(S) PROVE f \in S
    BY DEF Derivable
  <2>2. Derivable \subseteq S
    BY <2>1 DEF Derivable
  <2>3. HasBaseIn(f, S)
    BY <1>1, <2>2, HasBaseMonotone, PackFacts
  <2> QED
    BY <2>1, <2>3 DEF Closed
<1> QED
  BY <1>1 DEF Derivable

\* What can be resolved depends on the pack only.
LEMMA DerivableSame ==
  ASSUME UNCHANGED pack
  PROVE  Derivable' = Derivable /\ Frames' = Frames /\ Deltas' = Deltas
<1>1. Frames' = Frames
  BY DEF Frames
<1>2. ASSUME NEW S \in SUBSET Frames PROVE Closed(S)' <=> Closed(S)
  BY <1>1 DEF Closed, HasBaseIn
<1>3. Derivable' = {f \in Frames : \A S \in SUBSET Frames : Closed(S)' => f \in S}
  BY <1>1 DEF Derivable
<1> QED
  BY <1>1, <1>2, <1>3 DEF Derivable, Deltas

\* The objects that are no deltas can be resolved.
LEMMA BasesDerivable == pack \in Packs => Bases \subseteq Derivable
BY DerivableFacts DEF Bases, Deltas, HasBaseIn

-----------------------------------------------------------------------------
\* The invariant holds in the initial states.
LEMMA InvInit == Init => ResolverInv
<1> SUFFICES ASSUME Init PROVE ResolverInv
  OBVIOUS
<1>1. Types
  BY TypeInit
<1>2. \A f \in Deltas : ~HasBaseIn(f, {})
  BY <1>1, PackFacts DEF Types, Deltas, HasBaseIn
<1>3. QueueInv /\ LookupInv /\ BaseInv
  BY <1>2 DEF Init, QueueInv, LookupInv, BaseInv
<1>4. PhaseInv
  BY FS_EmptySet DEF Init, PhaseInv
<1>5. VerdictIsRight
  BY DEF Init, VerdictIsRight
<1> QED
  BY <1>1, <1>3, <1>4, <1>5 DEF ResolverInv

\* A step that ends the resolver keeps what does not speak of the end.
LEMMA EndStep ==
  ASSUME ResolverInv, NEW verdict \in Final, End(verdict), Types',
         verdict = "missing" => Derivable # Frames,
         verdict = "ok" => resolved = Frames,
         verdict \notin {"lost", "mismatch"}
  PROVE  ResolverInv'
<1> USE DEF End
<1>1. QueueInv'
  BY DEF ResolverInv, QueueInv, Deltas, Frames, HasBaseIn
<1>2. LookupInv' /\ BaseInv'
  BY DEF ResolverInv, LookupInv, BaseInv, DeltaBase
<1>3. PhaseInv'
  BY DEF ResolverInv, PhaseInv, Final, Deltas, Frames
<1>4. VerdictIsRight'
  BY DerivableSame DEF ResolverInv, VerdictIsRight
<1> QED
  BY <1>1, <1>2, <1>3, <1>4 DEF ResolverInv

\* ResolveBases: the first round is that of the children of the bases.
LEMMA BasesStep ==
  ASSUME ResolverInv, ResolveBases, Types'
  PROVE  ResolverInv'
<1> USE DEF ResolveBases
<1>1. /\ pack \in Packs /\ pack' = pack
      /\ resolved = {} /\ DOMAIN results = {} /\ released = {}
  <2>1. resolved = {} /\ pack \in Packs /\ released = {}
    BY DEF ResolverInv, PhaseInv, Types, BaseInv
  <2>2. \A f \in Deltas : ~HasBaseIn(f, {})
    BY <2>1, PackFacts DEF Deltas, HasBaseIn
  <2> QED
    BY <2>1, <2>2 DEF ResolverInv, QueueInv
<1>2. \A f \in Deltas : f \in queued' <=> HasBaseIn(f, Bases)
  <2> TAKE f \in Deltas
  <2>1. f \in Frames /\ pack[f].kind \in {"offset", "ref"}
    BY <1>1, PackFacts DEF Deltas
  <2>2. f \in queued' <=> \E g \in Bases : f \in Children(g)
    OBVIOUS
  <2>3. \A g \in Bases : f \in Children(g) <=> \/ pack[f].kind = "offset" /\ pack[f].base = g
                                               \/ pack[f].kind = "ref" /\ pack[f].base = pack[g].oid
    BY <2>1 DEF Children, ChildrenByOffset, ChildrenByOid
  <2> QED
    BY <2>1, <2>2, <2>3 DEF HasBaseIn
<1>3. Bases \cap Deltas = {}
  BY DEF Bases
<1>4. QueueInv'
  <2>1. queued' = {f \in Deltas : HasBaseIn(f, Bases)}
    BY <1>2, <1>1, ChildrenFacts
  <2>2. queued' \subseteq Deltas /\ ready' = queued' /\ resolved' = Bases /\ DOMAIN results' = {}
    BY <2>1, <1>1
  <2>3. Deltas' = Deltas /\ \A f \in Deltas : HasBaseIn(f, Bases) <=> HasBaseIn(f, resolved)'
    BY <1>1 DEF Deltas, Frames, HasBaseIn
  <2> QED
    BY <2>1, <2>2, <2>3, <1>3 DEF QueueInv
<1>5. LookupInv'
  BY <1>1, LastBaseFacts, PackFacts DEF LookupInv, BasesOf, Bases
<1>6. BaseInv'
  <2>1. ASSUME NEW f \in ready' PROVE DeltaBase(f)' \in Bases
    <3>1. f \in Frames /\ pack[f].kind \in {"offset", "ref"} /\ HasBaseIn(f, Bases)
          /\ (pack[f].kind = "ref" => pack[f].base \in Oid)
      BY <2>1, <1>1, <1>2, ChildrenFacts, PackFacts DEF Deltas
    <3>2. CASE pack[f].kind = "offset"
      BY <3>1, <3>2, <1>1 DEF HasBaseIn, DeltaBase
    <3>3. CASE pack[f].kind = "ref"
      <4>1. BasesOf(pack[f].base) # {}
        BY <3>1, <3>3 DEF HasBaseIn, BasesOf
      <4> QED
        BY <3>1, <3>3, <4>1, <1>1, LastBaseFacts DEF DeltaBase, BasesOf
    <3> QED
      BY <3>1, <3>2, <3>3
  <2> QED
    BY <2>1, <1>1 DEF BaseInv
<1>7. PhaseInv'
  <2>1. resolved' \cap Deltas' = {} /\ resolved \cap Deltas = {}
    BY <1>1, <1>3 DEF Deltas, Frames
  <2>2. merged' = Cardinality(resolved' \cap Deltas')
    BY <2>1 DEF ResolverInv, PhaseInv
  <2> QED
    BY <2>2, <1>1 DEF PhaseInv, Bases, Deltas, Frames
<1>8. VerdictIsRight'
  BY <1>1, BasesDerivable, DerivableSame DEF VerdictIsRight
<1> QED
  BY <1>4, <1>5, <1>6, <1>7, <1>8 DEF ResolverInv

\* What waits can be computed.
LEMMA ReadyUsable == ResolverInv => BasesStayUsable
BY PackFacts DEF ResolverInv, BaseInv, Types, BasesStayUsable, Usable

\* ComputeRound: what was ready is the round, and nothing waits.
LEMMA RoundStep ==
  ASSUME ResolverInv, ComputeRound, Types'
  PROVE  ResolverInv'
<1>1. /\ results' = [f \in ready |-> DeltaBase(f)]
      /\ ready' = {}
      /\ pc = "loop" /\ pc' = "merge"
      /\ UNCHANGED <<pack, releases, resolved, byOid, counter, counted, queued,
                     merged, released>>
  BY ReadyUsable DEF ComputeRound, BasesStayUsable
<1>2. DOMAIN results = {} /\ DOMAIN results' = ready
  BY <1>1 DEF ResolverInv, PhaseInv
<1>3. QueueInv'
  BY <1>1, <1>2, DerivableSame DEF ResolverInv, QueueInv, HasBaseIn
<1>4. LookupInv'
  BY <1>1 DEF ResolverInv, LookupInv
<1>5. BaseInv'
  BY <1>1, <1>2 DEF ResolverInv, BaseInv
<1>6. PhaseInv'
  BY <1>1, DerivableSame DEF ResolverInv, PhaseInv, Bases
<1>7. VerdictIsRight'
  BY <1>1, DerivableSame DEF ResolverInv, VerdictIsRight
<1> QED
  BY <1>3, <1>4, <1>5, <1>6, <1>7 DEF ResolverInv

\* Merge: the children of the new object wait, with that object as their base.
LEMMA MergeStep ==
  ASSUME ResolverInv, NEW f \in Frames, Merge(f), Types'
  PROVE  ResolverInv'
<1> USE DEF Merge
<1>1. /\ pack \in Packs /\ pack' = pack /\ Deltas' = Deltas /\ Frames' = Frames
      /\ f \in DOMAIN results /\ f \in Deltas /\ f \notin resolved /\ f \notin ready
      /\ resolved \subseteq Frames
  BY DerivableSame DEF ResolverInv, Types, QueueInv
<1>2. /\ resolved' = resolved \cup {f}
      /\ DOMAIN results' = DOMAIN results \ {f}
      /\ \A g \in DOMAIN results' : results'[g] = results[g]
      /\ queued' = queued \cup Children(f)
      /\ ready' = ready \cup (Children(f) \ queued)
  BY DEF Enqueue
<1>3. pack[f].oid \in Oid /\ byOid \in [Oid -> Frames \cup {0}] /\ f # 0
  BY <1>1, PackFacts DEF ResolverInv, Types
<1>4. byOid'[pack[f].oid] = f /\ \A o \in Oid : o # pack[f].oid => byOid'[o] = byOid[o]
  BY <1>3
<1>5. released' \subseteq released \cup {results[f]}
  BY DEF ReleaseIfDone
<1>6. \A g \in Deltas : HasBaseIn(g, resolved') <=> HasBaseIn(g, resolved) \/ g \in Children(f)
  BY <1>1, <1>2, HasBaseMore
<1>7. QueueInv'
  <2>0. queued = {g \in Deltas : HasBaseIn(g, resolved)} /\ Children(f) \subseteq Deltas
    BY <1>1, ChildrenFacts DEF ResolverInv, QueueInv
  <2>1. queued' = {g \in Deltas : HasBaseIn(g, resolved')}
    BY <1>2, <1>6, <2>0
  <2>2. {g \in Deltas : HasBaseIn(g, resolved')} = {g \in Deltas : HasBaseIn(g, resolved)}'
    BY <1>1 DEF HasBaseIn
  <2>3. /\ ready' \cap resolved' = {}
        /\ DOMAIN results' \cap resolved' = {}
        /\ ready' \cap DOMAIN results' = {}
        /\ queued' = ready' \cup DOMAIN results' \cup (resolved' \cap Deltas)
    <3> HIDE DEF Merge
    <3>1. /\ ready \cap resolved = {} /\ DOMAIN results \cap resolved = {}
          /\ ready \cap DOMAIN results = {}
          /\ queued = ready \cup DOMAIN results \cup (resolved \cap Deltas)
      BY DEF ResolverInv, QueueInv
    <3> QED
      BY <1>1, <1>2, <2>0, <3>1
  <2> QED
    BY <1>1, <2>1, <2>2, <2>3 DEF QueueInv
<1>8. LookupInv'
  <2>1. \A o \in Oid : byOid'[o] # 0 => byOid'[o] \in resolved' /\ pack[byOid'[o]].oid = o
    BY <1>1, <1>2, <1>3, <1>4 DEF ResolverInv, LookupInv
  <2>2. \A g \in resolved' : byOid'[pack[g].oid] # 0
    BY <1>1, <1>2, <1>3, <1>4, PackFacts DEF ResolverInv, LookupInv
  <2> QED
    BY <1>1, <2>1, <2>2 DEF LookupInv
<1>9. BaseInv'
  <2>1. results[f] \in resolved /\ released \subseteq resolved
    BY <1>1 DEF ResolverInv, BaseInv
  <2>2. ASSUME NEW g \in ready'
        PROVE  \/ DeltaBase(g)' = f
               \/ g \in ready /\ DeltaBase(g)' = DeltaBase(g)
    <3>1. /\ g \in Deltas /\ pack[g].kind \in {"offset", "ref"} /\ g \in Frames
          /\ pack[g].kind = "ref" => pack[g].base \in Oid
      BY <1>1, <1>2, <2>2, ChildrenFacts, PackFacts DEF ResolverInv, Types, Deltas
    <3>2. CASE g \in Children(f)
      BY <3>1, <3>2, <1>1, <1>2, <1>4 DEF Children, ChildrenByOffset, ChildrenByOid, DeltaBase
    <3>3. CASE g \in ready /\ pack[g].kind = "ref"
      BY <3>1, <3>3, <1>1, <1>4 DEF DeltaBase
    <3>4. CASE g \in ready /\ pack[g].kind = "offset"
      <4>1. DeltaBase(g) \in resolved /\ resolved \subseteq Frames
        BY <3>4, <1>1 DEF ResolverInv, BaseInv
      <4>2. DeltaBase(g) # 0
        BY <4>1, <1>1, PackFacts
      <4> QED
        BY <3>4, <4>2, <1>1, <1>2 DEF DeltaBase
    <3> QED
      BY <1>2, <2>2, <3>1, <3>2, <3>3, <3>4
  <2>3. ASSUME NEW g \in ready'
        PROVE  /\ DeltaBase(g)' \in resolved' \ released'
               /\ \A h \in DOMAIN results' : results'[h] # DeltaBase(g)'
    <3>1. CASE DeltaBase(g)' = f
      BY <3>1, <1>1, <1>2, <1>5, <2>1 DEF ResolverInv, BaseInv
    <3>2. CASE g \in ready /\ DeltaBase(g)' = DeltaBase(g)
      BY <3>2, <1>1, <1>2, <1>5 DEF ResolverInv, BaseInv
    <3> QED
      BY <2>2, <3>1, <3>2
  <2>4. \A h \in DOMAIN results' : results'[h] \in resolved'
    BY <1>2 DEF ResolverInv, BaseInv
  <2>5. released' \subseteq resolved'
    BY <1>2, <1>5, <2>1
  <2> QED
    BY <2>3, <2>4, <2>5 DEF BaseInv
<1>10. PhaseInv'
  <2>1. IsFiniteSet(resolved \cap Deltas)
    BY <1>1, PackFacts, FS_Subset
  <2>2. resolved' \cap Deltas = (resolved \cap Deltas) \cup {f} /\ f \notin resolved \cap Deltas
    BY <1>1, <1>2
  <2>3. Cardinality(resolved' \cap Deltas) = Cardinality(resolved \cap Deltas) + 1
    BY <2>1, <2>2, FS_AddElement
  <2>4. merged' = Cardinality(resolved' \cap Deltas')
    BY <2>3, <1>1 DEF ResolverInv, PhaseInv
  <2>5. Bases \subseteq resolved' /\ Bases' = Bases
    BY <1>1, <1>2 DEF ResolverInv, PhaseInv, Bases
  <2> QED
    BY <1>2, <2>4, <2>5 DEF PhaseInv
<1>11. VerdictIsRight'
  <2>1. HasBaseIn(f, resolved) /\ resolved \subseteq Derivable
    BY <1>1 DEF ResolverInv, QueueInv, VerdictIsRight
  <2>2. HasBaseIn(f, Derivable)
    BY <2>1, <1>1, PackFacts, HasBaseMonotone
  <2>3. resolved' \subseteq Derivable'
    BY <2>1, <2>2, <1>1, <1>2, DerivableFacts, DerivableSame
  <2>4. pc' \in {"loop", "merge"}
    OBVIOUS
  <2> QED
    BY <2>3, <2>4 DEF VerdictIsRight
<1> QED
  BY <1>7, <1>8, <1>9, <1>10, <1>11 DEF ResolverInv

\* NoBase and Finish: nothing waits and nothing is in a round, so the resolved
\* frames are closed, and all of them when all deltas are merged.
LEMMA LoopEnds ==
  ASSUME ResolverInv, pc = "loop"
  PROVE  /\ ready = {} => Derivable \subseteq resolved
         /\ merged < Cardinality(Deltas) => resolved # Frames
         /\ merged >= Cardinality(Deltas) => resolved = Frames
<1>1. /\ pack \in Packs /\ resolved \subseteq Frames /\ Bases \subseteq resolved
      /\ DOMAIN results = {} /\ merged = Cardinality(resolved \cap Deltas)
  BY DEF ResolverInv, Types, PhaseInv
<1>2. ready = {} => Derivable \subseteq resolved
  <2> SUFFICES ASSUME ready = {} PROVE Derivable \subseteq resolved
    OBVIOUS
  <2>1. {g \in Deltas : HasBaseIn(g, resolved)} \subseteq resolved
    BY <1>1 DEF ResolverInv, QueueInv
  <2>2. Closed(resolved)
    BY <1>1, <2>1 DEF Closed, Bases
  <2> QED
    BY <1>1, <2>2, DerivableFacts
<1>3. /\ IsFiniteSet(Deltas) /\ Deltas \subseteq Frames
      /\ Cardinality(Deltas) \in Nat /\ Cardinality(resolved \cap Deltas) \in Nat
  <2>1. Deltas \in SUBSET Frames /\ resolved \cap Deltas \in SUBSET Frames
    BY DEF Deltas
  <2> QED
    BY <1>1, <2>1, PackFacts, FS_Subset, FS_CardinalityType
<1>4. merged < Cardinality(Deltas) => resolved # Frames
  <2>1. ASSUME resolved = Frames PROVE Cardinality(resolved \cap Deltas) = Cardinality(Deltas)
    <3>1. resolved \cap Deltas = Deltas
      BY <1>3, <2>1
    <3> QED
      BY <3>1
  <2> QED
    BY <1>1, <1>3, <2>1
<1>5. merged >= Cardinality(Deltas) => resolved = Frames
  <2>1. resolved \cap Deltas \in SUBSET Deltas
    OBVIOUS
  <2>2. merged >= Cardinality(Deltas) => resolved \cap Deltas = Deltas
    BY <1>1, <1>3, <2>1, FS_Subset
  <2> QED
    BY <1>1, <1>3, <2>2 DEF Bases
<1> QED
  BY <1>2, <1>4, <1>5

\* Every step of the resolver keeps its invariant.
LEMMA InvStep == ResolverInv /\ [Next]_vars => ResolverInv'
<1> SUFFICES ASSUME ResolverInv, [Next]_vars PROVE ResolverInv'
  OBVIOUS
<1>0. Types'
  BY TypeStep DEF ResolverInv
<1>1. CASE PayloadFails
  BY <1>0, <1>1, EndStep DEF PayloadFails, Final
<1>2. CASE ResolveBases
  BY <1>0, <1>2, BasesStep
<1>3. CASE NoBase
  <2>1. Derivable # Frames
    <3>1. Derivable \subseteq resolved /\ resolved # Frames /\ resolved \subseteq Frames
      BY <1>3, LoopEnds DEF NoBase, ResolverInv, Types
    <3> QED
      BY <3>1
  <2> QED
    BY <1>0, <1>3, <2>1, EndStep DEF NoBase, Final
<1>4. CASE Finish
  <2>1. resolved = Frames /\ End("ok")
    BY <1>4, LoopEnds DEF Finish
  <2> QED
    BY <1>0, <2>1, EndStep DEF Final
<1>5. CASE ComputeRound
  BY <1>0, <1>5, RoundStep
<1>6. ASSUME NEW f \in Frames, Merge(f) PROVE ResolverInv'
  BY <1>0, <1>6, MergeStep
<1>7. CASE UNCHANGED vars
  <2> USE <1>7 DEF vars
  <2>1. QueueInv'
    <3>1. {g \in Deltas : HasBaseIn(g, resolved)}' = {g \in Deltas : HasBaseIn(g, resolved)}
      BY DerivableSame DEF HasBaseIn
    <3> QED
      BY <3>1, DerivableSame DEF ResolverInv, QueueInv
  <2>2. LookupInv' /\ BaseInv'
    BY DEF ResolverInv, LookupInv, BaseInv, DeltaBase
  <2>3. PhaseInv' /\ VerdictIsRight'
    BY DerivableSame DEF ResolverInv, PhaseInv, Bases, VerdictIsRight
  <2> QED
    BY <1>0, <2>1, <2>2, <2>3 DEF ResolverInv
<1> QED
  BY <1>1, <1>2, <1>3, <1>4, <1>5, <1>6, <1>7 DEF Next, Done

\* The invariant holds of every run of the resolver.
LEMMA InvCorrect == Spec => []ResolverInv
  BY InvInit, InvStep, PTL DEF Spec

\* The variables of the resolver keep their types, the queue agrees with its flags.
THEOREM ResolverTypeCorrect == Spec => []TypeOK
<1>1. ResolverInv => TypeOK
  BY DEF ResolverInv, Types, QueueInv, TypeOK
<1> QED
  BY <1>1, InvCorrect, PTL

\* No delta finds that its base is gone or has given up its data, whatever pack
\* arrives: the counters of unresolved children may be wrong, the rounds are not.
THEOREM BasesUsable == Spec => []BasesStayUsable
  BY ReadyUsable, InvCorrect, PTL

\* The resolver resolves only what can be resolved, accepts a pack only when that is
\* all of it, rejects it for missing bases only when it is not, and never fails for
\* one of its two internal reasons.
THEOREM VerdictCorrect == Spec => []VerdictIsRight
<1>1. ResolverInv => VerdictIsRight
  BY DEF ResolverInv
<1> QED
  BY <1>1, InvCorrect, PTL

-----------------------------------------------------------------------------
(***************************************************************************)
(* The counters.  In a pack that has every object once, a delta has one    *)
(* base, and the counter of a frame is the number of its children that are *)
(* not resolved, but for those by id as long as the frame itself is not    *)
(* resolved.                                                               *)
(***************************************************************************)
Waiting(f) == IF f \in resolved THEN Children(f) \ resolved ELSE ChildrenByOffset(f)

CountInv ==
  /\ counted \subseteq resolved
  /\ \A f \in DOMAIN results : f \in Children(results[f])
  /\ (DistinctOids /\ releases) => \A f \in Frames : counter[f] = Cardinality(Waiting(f))
  /\ ReleasedExactly

\* Children are of one of the two kinds.
LEMMA CountChildren ==
  ASSUME pack \in Packs, NEW f
  PROVE  /\ IsFiniteSet(Children(f)) /\ IsFiniteSet(ChildrenByOffset(f))
         /\ Cardinality(Children(f))
              = Cardinality(ChildrenByOffset(f)) + Cardinality(ChildrenByOid(pack[f].oid))
<1> DEFINE A == ChildrenByOffset(f)
           B == ChildrenByOid(pack[f].oid)
<1>1. IsFiniteSet(Frames) /\ A \in SUBSET Frames /\ B \in SUBSET Frames
  BY PackFacts DEF ChildrenByOffset, ChildrenByOid
<1>2. IsFiniteSet(A) /\ IsFiniteSet(B)
  BY <1>1, FS_Subset
<1>3. A \cap B = {}
  BY DEF ChildrenByOffset, ChildrenByOid
<1>4. Children(f) = A \cup B
  BY DEF Children
<1> HIDE DEF A, B
<1>5. IsFiniteSet(A \cup B)
      /\ Cardinality(A \cup B) = Cardinality(A) + Cardinality(B) - Cardinality(A \cap B)
  BY <1>2, FS_Union
<1>6. Cardinality(A \cap B) = 0 /\ Cardinality(A) \in Nat /\ Cardinality(B) \in Nat
  BY <1>2, <1>3, FS_EmptySet, FS_CardinalityType
<1>7. Cardinality(A \cup B) = Cardinality(A) + Cardinality(B)
  BY <1>5, <1>6
<1> QED
  BY <1>2, <1>4, <1>5, <1>7 DEF A, B

\* A delta has one base when every object is in the pack once, and it is queued, in a
\* round or resolved only when that base is resolved.
LEMMA OneBase ==
  ASSUME pack \in Packs, DistinctOids, NEW f \in Frames, NEW g \in Frames, NEW c,
         c \in Children(f), c \in Children(g)
  PROVE  f = g
<1>1. c \in Frames
  BY DEF Children, ChildrenByOffset, ChildrenByOid
<1> QED
  BY <1>1 DEF Children, ChildrenByOffset, ChildrenByOid, DistinctOids

\* A resolved delta is the child of a resolved frame.
LEMMA ResolvedHasBase ==
  ASSUME ResolverInv, NEW c \in resolved \cap Deltas
  PROVE  \E g \in resolved : c \in Children(g)
<1>1. HasBaseIn(c, resolved) /\ c \in Frames /\ pack[c].kind \in {"offset", "ref"}
  BY PackFacts DEF ResolverInv, QueueInv, Types, Deltas
<1> QED
  BY <1>1 DEF HasBaseIn, Children, ChildrenByOffset, ChildrenByOid

\* At first nothing is counted.
LEMMA CountInit == Init => CountInv
<1> SUFFICES ASSUME Init PROVE CountInv
  OBVIOUS
<1>1. \A f : Waiting(f) = ChildrenByOffset(f)
  BY DEF Init, Waiting
<1> QED
  BY <1>1 DEF Init, CountInv, CountByOffset, ReleasedExactly

\* A step that leaves the pack, the counters and what is resolved alone.
LEMMA CountKept ==
  ASSUME CountInv, UNCHANGED <<pack, releases, resolved, counter, counted, released>>,
         \A f \in DOMAIN results' : f \in Children(results'[f])
  PROVE  CountInv'
<1>1. /\ Frames' = Frames /\ DistinctOids' = DistinctOids
      /\ \A f : Children(f)' = Children(f)
      /\ \A f : ChildrenByOffset(f)' = ChildrenByOffset(f)
  BY DEF Frames, DistinctOids, Children, ChildrenByOffset, ChildrenByOid
<1>2. \A f : Waiting(f)' = Waiting(f)
  BY <1>1 DEF Waiting
<1>3. \A f \in DOMAIN results' : Children(results[f])' = Children(results'[f])
  BY DEF Children, ChildrenByOffset, ChildrenByOid, Frames
<1>4. ReleasedExactly'
  BY <1>1 DEF CountInv, ReleasedExactly
<1> QED
  BY <1>1, <1>2, <1>3, <1>4 DEF CountInv

\* ResolveBases counts the deltas that name a base by its id.
LEMMA CountBases ==
  ASSUME ResolverInv, CountInv, ResolveBases
  PROVE  CountInv'
<1>1. /\ pack \in Packs /\ pack' = pack /\ releases' = releases
      /\ resolved = {} /\ DOMAIN results = {} /\ released = {}
  <2>1. resolved = {} /\ pack \in Packs /\ released = {}
    BY DEF ResolverInv, PhaseInv, Types, BaseInv, ResolveBases
  <2>2. \A f \in Deltas : ~HasBaseIn(f, {})
    BY <2>1, PackFacts DEF Deltas, HasBaseIn
  <2> QED
    BY <2>1, <2>2 DEF ResolverInv, QueueInv, ResolveBases
<1>2. /\ resolved' = Bases /\ counted' = CountedBases /\ results' = results
      /\ released' = {}
      /\ counter' = [f \in Frames |-> counter[f] +
           (IF f \in CountedBases THEN Cardinality(ChildrenByOid(pack[f].oid)) ELSE 0)]
  BY <1>1 DEF ResolveBases
<1>3. /\ Frames' = Frames /\ DistinctOids' = DistinctOids
      /\ \A f : Children(f)' = Children(f)
      /\ \A f : ChildrenByOffset(f)' = ChildrenByOffset(f)
  BY <1>1 DEF Frames, DistinctOids, Children, ChildrenByOffset, ChildrenByOid
<1>4. \A f : Children(f) \cap Bases = {}
  BY <1>1, ChildrenFacts DEF Bases
<1>5. \A f : Waiting(f) = ChildrenByOffset(f)
  BY <1>1 DEF Waiting
<1>6. \A f : Waiting(f)' = IF f \in Bases THEN Children(f) ELSE ChildrenByOffset(f)
  BY <1>2, <1>3, <1>4 DEF Waiting
<1>7. ASSUME DistinctOids, releases, NEW f \in Frames
      PROVE  counter'[f] = Cardinality(Waiting(f)')
  <2>1. counter[f] = Cardinality(ChildrenByOffset(f))
    BY <1>5, <1>7 DEF CountInv
  <2>2. Cardinality(ChildrenByOffset(f)) \in Nat
    BY <1>1, ChildrenFacts
  <2>3. CASE f \in CountedBases
    <3>1. f \in Bases
      BY <2>3 DEF CountedBases
    <3>2. counter'[f] = Cardinality(ChildrenByOffset(f)) + Cardinality(ChildrenByOid(pack[f].oid))
      BY <1>2, <2>1, <2>3
    <3>3. counter'[f] = Cardinality(Children(f))
      BY <1>1, <3>2, CountChildren
    <3> QED
      BY <1>6, <3>1, <3>3
  <2>4. CASE f \in Bases /\ f \notin CountedBases
    <3>1. pack[f].oid \in Oid
      BY <1>1, PackFacts
    <3>2. LastBase(pack[f].oid) \in BasesOf(pack[f].oid)
      BY <1>1, <2>4, <3>1, LastBaseFacts DEF BasesOf
    <3>3. LastBase(pack[f].oid) = f
      BY <1>7, <3>2 DEF BasesOf, Bases, DistinctOids
    <3>4. ChildrenByOid(pack[f].oid) = {}
      BY <2>4, <3>3 DEF CountedBases
    <3>5. Children(f) = ChildrenByOffset(f)
      BY <3>4 DEF Children
    <3>6. counter'[f] = Cardinality(ChildrenByOffset(f))
      BY <1>2, <2>1, <2>2, <2>4
    <3> QED
      BY <1>6, <2>4, <3>5, <3>6
  <2>5. CASE f \notin Bases
    <3>1. f \notin CountedBases
      BY <2>5 DEF CountedBases
    <3>2. counter'[f] = Cardinality(ChildrenByOffset(f))
      BY <1>2, <2>1, <2>2, <3>1
    <3> QED
      BY <1>6, <2>5, <3>2
  <2> QED
    BY <2>3, <2>4, <2>5
<1>8. ReleasedExactly'
  BY <1>2, <1>3, <1>4 DEF ReleasedExactly
<1>9. counted' \subseteq resolved'
  BY <1>2 DEF CountedBases
<1> QED
  BY <1>1, <1>2, <1>3, <1>7, <1>8, <1>9 DEF CountInv

\* Merge: the base has a child less to wait for, and the new object all of its own.
LEMMA CountMerge ==
  ASSUME ResolverInv, CountInv, NEW f \in Frames, Merge(f)
  PROVE  CountInv'
<1>0. PICK b \in resolved : b = results[f]
  BY DEF Merge, ResolverInv, BaseInv
<1>1. /\ pack \in Packs /\ pack' = pack /\ releases' = releases
      /\ f \in DOMAIN results /\ f \in Deltas /\ f \notin resolved
      /\ resolved \subseteq Frames /\ resolved' = resolved \cup {f}
      /\ b \in resolved /\ f \in Children(b) /\ f \notin counted
      /\ counter \in [Frames -> Nat]
      /\ DOMAIN results' = DOMAIN results \ {f}
      /\ \A g \in DOMAIN results' : results'[g] = results[g]
  BY <1>0 DEF Merge, ResolverInv, Types, QueueInv, BaseInv, CountInv
<1>2. /\ Frames' = Frames /\ DistinctOids' = DistinctOids
      /\ \A g : Children(g)' = Children(g)
      /\ \A g : ChildrenByOffset(g)' = ChildrenByOffset(g)
  BY <1>1 DEF Frames, DistinctOids, Children, ChildrenByOffset, ChildrenByOid
<1>3. counted' \subseteq resolved'
  BY <1>1 DEF Merge, CountRefChildrenOnce, CountInv
<1>4. \A g \in DOMAIN results' : g \in Children(results[g])'
  <2>1. \A g \in DOMAIN results' : g \in Children(results[g])
    BY <1>1 DEF CountInv
  <2>2. \A g \in DOMAIN results' : results'[g] = results[g]
    BY <1>1
  <2>3. \A g \in DOMAIN results' : Children(results[g])' = Children(results'[g])
    BY <1>1 DEF Children, ChildrenByOffset, ChildrenByOid, Frames
  <2> QED
    BY <2>1, <2>2, <2>3
<1>5. ASSUME DistinctOids, releases
      PROVE  /\ \A g \in Frames : counter'[g] = Cardinality(Waiting(g)')
             /\ ReleasedExactly'
  <2>1. \A g \in Frames : f \in Children(g) => g = b
    BY <1>1, <1>5, OneBase
  <2>2. Children(f) \cap resolved' = {}
    <3> SUFFICES ASSUME NEW c \in Children(f), c \in resolved' PROVE FALSE
      OBVIOUS
    <3>1. c # f
      BY <1>1, <2>1
    <3>2. c \in resolved \cap Deltas
      BY <1>1, <3>1, ChildrenFacts
    <3>3. PICK g \in resolved : c \in Children(g)
      BY <3>2, ResolvedHasBase
    <3>4. g = f
      BY <1>1, <1>5, <3>3, OneBase
    <3> QED
      BY <1>1, <3>3, <3>4
  <2>3. \A g \in Frames : counter[g] = Cardinality(Waiting(g))
    BY <1>5 DEF CountInv
  <2>4. /\ IsFiniteSet(Children(b)) /\ Waiting(b) = Children(b) \ resolved
        /\ f \in Waiting(b) /\ IsFiniteSet(Waiting(b)) /\ Cardinality(Waiting(b)) \in Nat
    BY <1>1, CountChildren, FS_Difference, FS_CardinalityType DEF Waiting
  <2>5. \A g : Waiting(g)' = IF g \in resolved' THEN Children(g) \ resolved'
                                              ELSE ChildrenByOffset(g)
    BY <1>2 DEF Waiting
  <2>6. /\ Waiting(b)' = Waiting(b) \ {f}
        /\ Cardinality(Waiting(b) \ {f}) = Cardinality(Waiting(b)) - 1
        /\ Cardinality(Waiting(b) \ {f}) \in Nat
    <3>1. b \in resolved' /\ Children(b) \ resolved' = Waiting(b) \ {f}
      BY <1>1, <2>4
    <3>2. Waiting(b)' = Waiting(b) \ {f}
      <4>1. Waiting(b)' = Children(b) \ resolved'
        BY <1>2, <3>1 DEF Waiting
      <4> QED
        BY <3>1, <4>1
    <3>3. /\ IsFiniteSet(Waiting(b) \ {f})
          /\ Cardinality(Waiting(b) \ {f}) = Cardinality(Waiting(b)) - 1
      BY <2>4, FS_RemoveElement
    <3> QED
      BY <3>2, <3>3, FS_CardinalityType
  <2>7. Decremented(b) = Cardinality(Waiting(b) \ {f}) /\ b \in Frames /\ f # b
    <3>1. counter[b] = Cardinality(Waiting(b)) /\ b \in Frames /\ f # b
      BY <1>1, <2>3
    <3>2. counter[b] \in Nat /\ counter[b] - 1 \in Nat
      BY <2>4, <2>6, <3>1
    <3> QED
      BY <2>6, <3>1, <3>2 DEF Decremented
  <2>8. ASSUME NEW g \in Frames PROVE counter'[g] = Cardinality(Waiting(g)')
    <3>1. counter' = [[counter EXCEPT ![b] = Decremented(b)]
                        EXCEPT ![f] = @ + Cardinality(ChildrenByOid(pack[f].oid))]
      BY <1>0, <1>1, <1>5 DEF Merge, CountRefChildrenOnce
    <3>2. CASE g = b
      BY <1>1, <2>6, <2>7, <3>1, <3>2
    <3>3. CASE g = f
      <4>1. Waiting(f) = ChildrenByOffset(f)
        BY <1>1 DEF Waiting
      <4>2. counter'[f] = Cardinality(ChildrenByOffset(f)) + Cardinality(ChildrenByOid(pack[f].oid))
        BY <1>1, <2>3, <2>7, <3>1, <4>1
      <4>3. counter'[f] = Cardinality(Children(f))
        BY <1>1, <4>2, CountChildren
      <4>4. Children(f) \ resolved' = Children(f) /\ f \in resolved'
        BY <1>1, <2>2
      <4> QED
        BY <2>5, <3>3, <4>3, <4>4
    <3>4. CASE g # b /\ g # f
      <4>1. counter'[g] = counter[g]
        BY <1>1, <3>1, <3>4
      <4>2. f \notin Children(g)
        BY <2>1, <3>4
      <4>3. (IF g \in resolved' THEN Children(g) \ resolved' ELSE ChildrenByOffset(g)) = Waiting(g)
        BY <1>1, <3>4, <4>2 DEF Waiting
      <4> QED
        BY <2>3, <2>5, <4>1, <4>3
    <3> QED
      BY <3>2, <3>3, <3>4
  <2>9. Decremented(b) = 0 <=> Children(b) \subseteq resolved'
    <3>1. Waiting(b) \ {f} = Children(b) \ resolved' /\ IsFiniteSet(Waiting(b) \ {f})
      BY <1>1, <2>4, FS_RemoveElement
    <3>2. Cardinality(Waiting(b) \ {f}) = 0 <=> Waiting(b) \ {f} = {}
      BY <3>1, FS_EmptySet
    <3> QED
      BY <2>7, <3>1, <3>2
  <2>10. released' = {g \in resolved' : /\ pack[g].oid \in BlobOids
                                        /\ Children(g) # {} /\ Children(g) \subseteq resolved'}
    <3>1. released' = IF Decremented(b) = 0 /\ pack[b].oid \in BlobOids
                      THEN released \cup {b} ELSE released
      BY <1>0, <1>5 DEF Merge, ReleaseIfDone
    <3>2. released = {g \in resolved : /\ pack[g].oid \in BlobOids
                                       /\ Children(g) # {} /\ Children(g) \subseteq resolved}
      BY <1>5 DEF CountInv, ReleasedExactly
    <3>3. b \notin released
      BY <1>1, <3>2
    <3>4. \A g \in resolved \ {b} : Children(g) \subseteq resolved' <=> Children(g) \subseteq resolved
      BY <1>1, <2>1
    <3>5. Children(f) # {} => ~(Children(f) \subseteq resolved')
      BY <2>2
    <3> QED
      BY <1>1, <2>9, <3>1, <3>2, <3>3, <3>4, <3>5
  <2>11. ReleasedExactly'
    BY <1>1, <1>2, <2>10 DEF ReleasedExactly
  <2> QED
    BY <2>8, <2>11
<1>6. ~(DistinctOids /\ releases) => ReleasedExactly'
  BY <1>1, <1>2 DEF ReleasedExactly
<1> QED
  BY <1>1, <1>2, <1>3, <1>4, <1>5, <1>6 DEF CountInv

\* Every step leaves the counters right.
LEMMA CountStep == ResolverInv /\ CountInv /\ [Next]_vars => CountInv'
<1> SUFFICES ASSUME ResolverInv, CountInv, [Next]_vars PROVE CountInv'
  OBVIOUS
<1>1. ASSUME NEW verdict, End(verdict) PROVE CountInv'
  <2>1. \A f \in DOMAIN results' : f \in Children(results'[f])
    BY <1>1 DEF End, CountInv
  <2> QED
    BY <1>1, <2>1, CountKept DEF End
<1>2. CASE PayloadFails
  BY <1>1, <1>2 DEF PayloadFails
<1>3. CASE ResolveBases
  BY <1>3, CountBases
<1>4. CASE NoBase
  BY <1>1, <1>4 DEF NoBase
<1>5. CASE Finish
  <2>1. PICK verdict : End(verdict)
    BY <1>5 DEF Finish
  <2> QED
    BY <1>1, <2>1
<1>6. CASE ComputeRound
  <2>1. CASE \A f \in ready : Usable(DeltaBase(f))
    <3>1. /\ results' = [f \in ready |-> DeltaBase(f)]
          /\ UNCHANGED <<pack, releases, resolved, counter, counted, released>>
      BY <1>6, <2>1 DEF ComputeRound
    <3>2. ASSUME NEW f \in ready PROVE f \in Children(DeltaBase(f))
      <4>1. /\ f \in Frames /\ f \in Deltas /\ DeltaBase(f) # 0
            /\ pack \in Packs /\ pack[f].kind \in {"offset", "ref"}
        BY <2>1, PackFacts DEF ResolverInv, Types, QueueInv, Deltas, Usable
      <4>2. CASE pack[f].kind = "offset"
        BY <4>1, <4>2 DEF DeltaBase, Children, ChildrenByOffset
      <4>3. CASE pack[f].kind = "ref"
        <5>1. DeltaBase(f) = byOid[pack[f].base] /\ pack[f].base \in Oid
          BY <4>1, <4>3, PackFacts DEF DeltaBase
        <5>2. pack[byOid[pack[f].base]].oid = pack[f].base
          BY <4>1, <5>1 DEF ResolverInv, LookupInv
        <5> QED
          BY <4>1, <4>3, <5>1, <5>2 DEF Children, ChildrenByOid
      <4> QED
        BY <4>1, <4>2, <4>3
    <3>3. \A f \in DOMAIN results' : f \in Children(results'[f])
      BY <3>1, <3>2
    <3> QED
      BY <3>1, <3>3, CountKept
  <2>2. CASE ~ \A f \in ready : Usable(DeltaBase(f))
    BY <1>1, <1>6, <2>2 DEF ComputeRound
  <2> QED
    BY <2>1, <2>2
<1>7. CASE \E f \in Frames : Merge(f)
  BY <1>7, CountMerge
<1>8. CASE UNCHANGED vars
  <2>1. \A f \in DOMAIN results' : f \in Children(results'[f])
    BY <1>8 DEF vars, CountInv
  <2> QED
    BY <1>8, <2>1, CountKept DEF vars
<1> QED
  BY <1>2, <1>3, <1>4, <1>5, <1>6, <1>7, <1>8 DEF Next, Done

\* In a pack that has every object once, the blobs without data are at any time those
\* whose last child has been resolved: the counters give up no blob too early or late.
THEOREM ReleasedCorrect == Spec => []ReleasedExactly
<1>1. CountInv => ReleasedExactly
  BY DEF CountInv
<1> QED
  BY <1>1, CountInit, CountStep, InvCorrect, PTL DEF Spec

-----------------------------------------------------------------------------
(***************************************************************************)
(* ObjectStates: the resolver in the ingest.                               *)
(***************************************************************************)
LEMMA IngestSteps == [IngestNext]_ingestVars => [Next]_vars
<1> SUFFICES ASSUME [IngestNext]_ingestVars PROVE Next \/ UNCHANGED vars
  OBVIOUS
<1>1. CASE Resolve
  BY <1>1 DEF Resolve
<1>2. CASE \E from, to : Goes(from, to)
  BY <1>2 DEF Goes
<1>3. CASE AppendToArena
  BY <1>3 DEF AppendToArena, Goes
<1>4. CASE OtherSpills \/ IngestDone \/ UNCHANGED ingestVars
  BY <1>4 DEF OtherSpills, IngestDone, ingestVars
<1> QED
  BY <1>1, <1>2, <1>3, <1>4 DEF IngestNext, WriteIndex, WriteIndexFails, Retain, LeaveInPack,
     MeasureArena, SpillFails, FinishStates

\* The resolver inside the ingest behaves as SequentialResolver says: what is proved of
\* it holds in every ingest, with and without a hint (ingest_scanned_pack).
THEOREM IngestResolves == IngestSpec => Spec
<1>1. IngestInit => Init
  BY DEF IngestInit
<1> QED
  BY <1>1, IngestSteps, PTL DEF IngestSpec, Spec

-----------------------------------------------------------------------------
(***************************************************************************)
(* What becomes of the data.                                               *)
(***************************************************************************)
\* Blobs are released only when there is no hint and nothing is spilled.
HintInv ==
  /\ hint \in BOOLEAN /\ releases = Releases
  /\ ~releases => released = {}
  /\ \A f \in released : pack[f].oid \in BlobOids
  /\ needed \subseteq BlobOids /\ (~hint => needed = {})

\* What is still to be done are frames, and the counters are at least what was kept.
KeptStructural == Of("resident") \ BlobOids
KeptForCheckout == Of("resident") \cap BlobOids
Spilled == Of("spilled")

BytesOf(S) == UNION {{o} \X (1 .. Size[o]) : o \in S}

Holds(S, n) == IsFiniteSet(BytesOf(S)) /\ SizeOf(S) <= n

Limits(structural, checkout, spilled, n) ==
  /\ n \in [retained : Nat, checkout : Nat, spilled : Nat]
  /\ Holds(structural, n.retained) /\ Holds(structural, CacheLimit)
  /\ Holds(checkout, n.checkout) /\ Holds(checkout, CheckoutLimit)
  /\ Holds(spilled, n.spilled) /\ Holds(spilled, SpillLimit)

KeepInv ==
  /\ order \in Seq(Frames)
  /\ ingest \in {"resolving", "states", "spilling", "done", "failed"}
  /\ ingest = "resolving" => state = <<>>
  /\ ingest = "spilling" => order # <<>> /\ Spills
  /\ Limits(KeptStructural, KeptForCheckout, Spilled, bytes)

ReadyInv == \A o \in needed \cap DOMAIN state : state[o] # Reconstructable

\* One object more adds at most its size.
LEMMA Bytes ==
  ASSUME NEW o \in Oid, NEW S, NEW T, NEW n \in Nat, Holds(S, n)
  PROVE  /\ T \subseteq S => Holds(T, n)
         /\ T \subseteq S \cup {o} => Holds(T, n + Size[o])
         /\ \A m \in Nat : n <= m => Holds(S, m)
<1>1. Size[o] \in Nat
  BY StatesAssumption
<1> DEFINE one == {o} \X (1 .. Size[o])
<1>2. IsFiniteSet(one) /\ Cardinality(one) = Size[o]
  <2>1. IsFiniteSet({o}) /\ Cardinality({o}) = 1
    BY FS_Singleton
  <2>2. IsFiniteSet(1 .. Size[o]) /\ Cardinality(1 .. Size[o]) = Size[o]
    <3> DEFINE k == Size[o]
    <3>1. k \in Int /\ 1 \in Int /\ k \in Nat
      BY <1>1
    <3> HIDE DEF k
    <3>2. IsFiniteSet(1 .. k) /\ Cardinality(1 .. k) = IF 1 > k THEN 0 ELSE k - 1 + 1
      BY <3>1, FS_Interval
    <3>3. Cardinality(1 .. k) = k
      BY <3>1, <3>2
    <3> QED
      BY <3>2, <3>3 DEF k
  <2>3. IsFiniteSet(one) /\ Cardinality(one) = 1 * Size[o]
    BY <2>1, <2>2, FS_Product
  <2> QED
    BY <1>1, <2>3
<1> HIDE DEF one
<1>3. /\ IsFiniteSet(BytesOf(S)) /\ SizeOf(S) = Cardinality(BytesOf(S)) /\ SizeOf(S) <= n
      /\ SizeOf(T) = Cardinality(BytesOf(T)) /\ SizeOf(S) \in Nat
  <2>1. SizeOf(S) = Cardinality(BytesOf(S)) /\ SizeOf(T) = Cardinality(BytesOf(T))
    BY DEF SizeOf, BytesOf
  <2> QED
    BY <2>1, FS_CardinalityType DEF Holds
<1>4. ASSUME T \subseteq S PROVE Holds(T, n)
  <2>1. BytesOf(T) \subseteq BytesOf(S)
    BY <1>4 DEF BytesOf
  <2>2. IsFiniteSet(BytesOf(T)) /\ Cardinality(BytesOf(T)) <= Cardinality(BytesOf(S))
    BY <1>3, <2>1, FS_Subset
  <2>3. Cardinality(BytesOf(T)) \in Nat
    BY <2>2, FS_CardinalityType
  <2> QED
    BY <1>3, <2>2, <2>3 DEF Holds
<1>5. ASSUME T \subseteq S \cup {o} PROVE Holds(T, n + Size[o])
  <2> DEFINE both == BytesOf(S) \cup one
             shared == BytesOf(S) \cap one
  <2>1. BytesOf(T) \subseteq both
    BY <1>5 DEF BytesOf, one
  <2>2. /\ IsFiniteSet(both)
        /\ Cardinality(both) = Cardinality(BytesOf(S)) + Cardinality(one) - Cardinality(shared)
    BY <1>2, <1>3, FS_Union
  <2>3. Cardinality(shared) \in Nat
    <3>1. shared \subseteq one
      OBVIOUS
    <3> HIDE DEF shared
    <3> QED
      BY <1>2, <3>1, FS_Subset, FS_CardinalityType
  <2> HIDE DEF both, shared
  <2>4. IsFiniteSet(BytesOf(T)) /\ Cardinality(BytesOf(T)) <= Cardinality(both)
    BY <2>1, <2>2, FS_Subset
  <2>5. Cardinality(BytesOf(T)) \in Nat
    BY <2>4, FS_CardinalityType
  <2> QED
    BY <1>1, <1>2, <1>3, <2>2, <2>3, <2>4, <2>5 DEF Holds
<1>6. \A m \in Nat : n <= m => Holds(S, m)
  BY <1>3 DEF Holds
<1> QED
  BY <1>4, <1>5, <1>6

\* Where nothing is kept, no limit is met.
LEMMA NothingKept ==
  ASSUME state = <<>>, NEW n \in Nat
  PROVE  Holds(KeptStructural, n) /\ Holds(KeptForCheckout, n) /\ Holds(Spilled, n)
<1>1. KeptStructural = {} /\ KeptForCheckout = {} /\ Spilled = {}
  BY DEF KeptStructural, KeptForCheckout, Spilled, Of
<1>2. IsFiniteSet({}) /\ Cardinality({}) = 0
  BY FS_EmptySet
<1>3. BytesOf({}) = {} /\ SizeOf({}) = Cardinality({})
  BY DEF BytesOf, SizeOf
<1>4. IsFiniteSet(BytesOf({})) /\ SizeOf({}) = 0
  BY <1>2, <1>3
<1>5. Holds({}, n)
  <2>1. 0 <= n
    OBVIOUS
  <2> QED
    BY <1>4, <2>1 DEF Holds
<1> QED
  BY <1>1, <1>5

\* The frame whose data is placed.
LEMMA FrameFacts ==
  ASSUME ResolverInv, HintInv, order \in Seq(Frames), order # <<>>
  PROVE  /\ ThisOid \in Oid /\ DataLen \in Nat /\ Tail(order) \in Seq(Frames)
         /\ KeepsForCheckout \/ KeepsInCache \/ Spills => DataLen = Size[ThisOid]
         /\ ThisOid \in needed => hint /\ (KeepsForCheckout \/ Spills)
<1>1. This \in Frames /\ Tail(order) \in Seq(Frames)
  BY HeadTailProperties DEF This
<1>2. pack \in Seq(Frame) /\ pack[This] \in Frame
  BY <1>1, ResolverAssumption, ElementOfSeq, LenProperties DEF ResolverInv, Types, Frames
<1>3. ThisOid \in Oid
  BY <1>2 DEF ThisOid, Frame
<1>4. Size[ThisOid] \in Nat
  BY <1>3, StatesAssumption
<1>5. /\ This \notin released => DataLen = Size[ThisOid]
      /\ This \in released => DataLen = 0 /\ IsBlob /\ ~hint /\ ~spillBlobs
  BY <1>1 DEF DataLen, HintInv, IsBlob, ThisOid, Releases
<1>6. ThisOid \in needed => IsNeeded /\ hint
  BY DEF IsNeeded, IsBlob, HintInv
<1>7. IsNeeded => hint
  BY DEF IsNeeded, HintInv
<1> QED
  BY <1>1, <1>3, <1>4, <1>5, <1>6, <1>7 DEF KeepsForCheckout, KeepsInCache, Spills, IsMissing

\* Only blobs are given up, and only with a hint.
LEMMA ReleasedAre ==
  ASSUME ResolverInv, [Next]_vars
  PROVE  /\ pack' = pack /\ releases' = releases
         /\ ~releases => released' = released
         /\ \A f \in released' : f \in released \/ pack[f].oid \in BlobOids
<1>1. CASE \E f \in Frames : Merge(f)
  BY <1>1 DEF Merge, ReleaseIfDone
<1>2. CASE ~\E f \in Frames : Merge(f)
  BY <1>2 DEF Next, vars, PayloadFails, ResolveBases, NoBase, Finish, ComputeRound, Done, End
<1> QED
  BY <1>1, <1>2

\* So the ingest knows what may have been given up.
LEMMA HintStep == ResolverInv /\ HintInv /\ [IngestNext]_ingestVars => HintInv'
<1> SUFFICES ASSUME ResolverInv, HintInv, [IngestNext]_ingestVars PROVE HintInv'
  OBVIOUS
<1>1. /\ pack' = pack /\ releases' = releases
      /\ ~releases => released' = released
      /\ \A f \in released' : f \in released \/ pack[f].oid \in BlobOids
  BY IngestSteps, ReleasedAre
<1>2. UNCHANGED <<hint, spillBlobs>>
  BY DEF IngestNext, ingestVars, stateVars, Resolve, WriteIndex, WriteIndexFails, Retain, LeaveInPack,
     MeasureArena, AppendToArena, SpillFails, FinishStates, OtherSpills, IngestDone, Goes
<1>3. needed' \subseteq BlobOids /\ (~hint => needed' = {})
  <2>1. CASE WriteIndex
    BY <2>1, StatesAssumption DEF WriteIndex
  <2>2. CASE ~WriteIndex
    <3>1. needed' = needed
      BY <2>2 DEF IngestNext, ingestVars, stateVars, Resolve, WriteIndexFails, Retain,
         LeaveInPack, MeasureArena, AppendToArena, SpillFails, FinishStates, OtherSpills, IngestDone
    <3> QED
      BY <3>1 DEF HintInv
  <2> QED
    BY <2>1, <2>2
<1> QED
  BY <1>1, <1>2, <1>3 DEF HintInv, Releases

\* The resolver goes on: what it has resolved comes in at the end.
LEMMA ResolveKeeps ==
  ASSUME ResolverInv, ResolverInv', KeepInv, Resolve
  PROVE  KeepInv'
<1> DEFINE new == resolved' \ resolved
<1>1. PICK place \in [1 .. Cardinality(new) -> new] : order' = order \o place
  BY DEF Resolve
<1>2. /\ pack' = pack /\ UNCHANGED <<ingest, stateVars>> /\ ingest = "resolving"
      /\ resolved' \subseteq Frames' /\ pack \in Packs
  BY ReleasedAre DEF Resolve, ResolverInv, Types
<1>3. Frames' = Frames /\ IsFiniteSet(Frames)
  BY <1>2, PackFacts DEF Frames
<1>4. new \subseteq Frames /\ Cardinality(new) \in Nat
  <2>1. new \subseteq Frames
    BY <1>2, <1>3
  <2> HIDE DEF new
  <2> QED
    BY <1>3, <2>1, FS_Subset, FS_CardinalityType
<1>5. place \in Seq(Frames)
  <2> HIDE DEF new
  <2> DEFINE k == Cardinality(new)
  <2>1. k \in Nat /\ place \in [1 .. k -> Frames]
    BY <1>1, <1>4
  <2> HIDE DEF k
  <2> QED
    BY <2>1, IsASeq
<1>6. order' \in Seq(Frames)'
  BY <1>1, <1>3, <1>5, ConcatProperties DEF KeepInv
<1>7. /\ KeptStructural' = KeptStructural /\ KeptForCheckout' = KeptForCheckout
      /\ Spilled' = Spilled /\ bytes' = bytes /\ state' = state
  BY <1>2 DEF KeptStructural, KeptForCheckout, Spilled, Of, stateVars
<1> QED
  BY <1>2, <1>6, <1>7 DEF KeepInv, Limits, Holds, SizeOf, BytesOf

\* A state that is set adds an object to one of the three at most.
LEMMA BecomesFacts ==
  ASSUME NEW new, Becomes(new), NEW o, o = ThisOid
  PROVE  /\ KeptStructural' \subseteq KeptStructural \cup {o}
         /\ KeptForCheckout' \subseteq KeptForCheckout \cup {o}
         /\ Spilled' \subseteq Spilled \cup {o}
         /\ new.kind # "resident" \/ o \in BlobOids => KeptStructural' \subseteq KeptStructural
         /\ new.kind # "resident" \/ o \notin BlobOids => KeptForCheckout' \subseteq KeptForCheckout
         /\ new.kind # "spilled" => Spilled' \subseteq Spilled
         /\ \A x \in DOMAIN state' : IF x = o THEN state'[x] = new
                                    ELSE x \in DOMAIN state /\ state'[x] = state[x]
         /\ order' = Tail(order)
<1>1. /\ DOMAIN state' = DOMAIN state \cup {o} /\ state'[o] = new
      /\ \A x \in DOMAIN state : x # o => state'[x] = state[x]
      /\ order' = Tail(order)
  BY DEF Becomes
<1>2. ASSUME NEW kind
      PROVE  /\ Of(kind)' \subseteq Of(kind) \cup {o}
             /\ new.kind # kind => Of(kind)' \subseteq Of(kind)
  <2>1. Of(kind)' = {x \in DOMAIN state' : state'[x].kind = kind}
    BY DEF Of
  <2> QED
    BY <1>1, <2>1 DEF Of
<1>3. /\ KeptStructural' = Of("resident")' \ BlobOids
      /\ KeptForCheckout' = Of("resident")' \cap BlobOids
      /\ Spilled' = Of("spilled")'
  BY DEF KeptStructural, KeptForCheckout, Spilled
<1> QED
  BY <1>1, <1>2, <1>3 DEF KeptStructural, KeptForCheckout, Spilled

\* Limits that hold of what is kept next hold in the next state.
LEMMA LimitsNext ==
  ASSUME NEW A, A = KeptStructural', NEW B, B = KeptForCheckout', NEW C, C = Spilled',
         NEW n, n = bytes', Limits(A, B, C, n)
  PROVE  Limits(KeptStructural, KeptForCheckout, Spilled, bytes)'
BY DEF Limits, Holds, SizeOf, BytesOf

\* An object is kept in memory, within the limit of its kind.
LEMMA RetainKeeps ==
  ASSUME ResolverInv, HintInv, KeepInv, Retain
  PROVE  KeepInv'
<1>1. /\ order # <<>> /\ (KeepsForCheckout \/ KeepsInCache)
      /\ ingest = "states" /\ ingest' = "states" /\ UNCHANGED vars
      /\ bytes' = [bytes EXCEPT !.retained = @ + DataLen,
                                !.checkout = IF IsNeeded THEN @ + DataLen ELSE @]
  BY DEF Retain, Goes
<1>2. PICK new : Becomes(new) /\ new.kind = "resident"
  BY DEF Retain
<1>3. /\ ThisOid \in Oid /\ DataLen = Size[ThisOid] /\ DataLen \in Nat /\ Tail(order) \in Seq(Frames)
  BY <1>1, FrameFacts DEF KeepInv
<1>4. PICK o \in Oid : o = ThisOid
  BY <1>3
<1>5. PICK A, B, C, n : A = KeptStructural' /\ B = KeptForCheckout' /\ C = Spilled' /\ n = bytes'
  OBVIOUS
<1>6. /\ A \subseteq KeptStructural \cup {o} /\ B \subseteq KeptForCheckout \cup {o}
      /\ o \in BlobOids => A \subseteq KeptStructural
      /\ o \notin BlobOids => B \subseteq KeptForCheckout
      /\ C \subseteq Spilled /\ order' = Tail(order)
  BY <1>2, <1>4, <1>5, BecomesFacts
<1>7. /\ bytes \in [retained : Nat, checkout : Nat, spilled : Nat] /\ Size[o] \in Nat
      /\ CacheLimit \in Nat /\ CheckoutLimit \in Nat /\ SpillLimit \in Nat
      /\ Limits(KeptStructural, KeptForCheckout, Spilled, bytes)
  BY <1>4, StatesAssumption DEF KeepInv, Limits
<1>8. /\ n \in [retained : Nat, checkout : Nat, spilled : Nat]
      /\ n.retained = bytes.retained + Size[o] /\ n.spilled = bytes.spilled
      /\ n.checkout = IF IsNeeded THEN bytes.checkout + Size[o] ELSE bytes.checkout
  <2>1. CASE IsNeeded
    <3>1. n = [bytes EXCEPT !.retained = @ + Size[o], !.checkout = @ + Size[o]]
      BY <1>1, <1>3, <1>4, <1>5, <2>1
    <3>2. /\ bytes.retained \in Nat /\ bytes.checkout \in Nat
          /\ bytes = [retained |-> bytes.retained, checkout |-> bytes.checkout,
                      spilled |-> bytes.spilled]
      BY <1>7
    <3>3. n = [retained |-> bytes.retained + Size[o], checkout |-> bytes.checkout + Size[o],
               spilled |-> bytes.spilled]
      BY <3>1, <3>2
    <3>4. /\ n \in [retained : Nat, checkout : Nat, spilled : Nat]
          /\ n.retained = bytes.retained + Size[o] /\ n.spilled = bytes.spilled
          /\ n.checkout = bytes.checkout + Size[o]
      BY <1>7, <3>2, <3>3
    <3> QED
      BY <2>1, <3>4
  <2>2. CASE ~IsNeeded
    <3>1. n = [bytes EXCEPT !.retained = @ + Size[o]]
      BY <1>1, <1>3, <1>4, <1>5, <1>7, <2>2
    <3> QED
      BY <1>7, <2>2, <3>1
  <2> QED
    BY <2>1, <2>2
<1>9. o \in BlobOids <=> IsBlob
  BY <1>4 DEF IsBlob
<1>10. CASE IsBlob
  <2>1. IsNeeded /\ bytes.checkout + Size[o] <= CheckoutLimit
    BY <1>1, <1>3, <1>4, <1>10 DEF KeepsForCheckout, KeepsInCache, FitsCheckout
  <2>0. bytes.retained \in Nat /\ bytes.checkout \in Nat /\ bytes.spilled \in Nat
    BY <1>7
  <2>2. /\ Holds(A, bytes.retained) /\ Holds(A, CacheLimit) /\ Holds(B, n.checkout)
        /\ Holds(C, n.spilled) /\ Holds(C, SpillLimit)
    <3>1. Holds(A, bytes.retained) /\ Holds(A, CacheLimit)
      BY <1>6, <1>7, <1>9, <1>10, <2>0, Bytes DEF Limits
    <3>2. Holds(B, bytes.checkout + Size[o])
      BY <1>6, <1>7, <2>0, Bytes DEF Limits
    <3>3. Holds(C, bytes.spilled) /\ Holds(C, SpillLimit)
      BY <1>4, <1>6, <1>7, <2>0, Bytes DEF Limits
    <3> QED
      BY <1>8, <2>1, <3>1, <3>2, <3>3
  <2>3. Holds(A, n.retained) /\ Holds(B, CheckoutLimit)
    BY <1>4, <1>7, <1>8, <2>1, <2>2, Bytes
  <2>4. Limits(A, B, C, n)
    BY <1>8, <2>2, <2>3 DEF Limits
  <2> QED
    BY <1>1, <1>3, <1>5, <1>6, <2>4, LimitsNext DEF KeepInv, vars, Frames
<1>11. CASE ~IsBlob
  <2>1. ~IsNeeded /\ bytes.retained + Size[o] <= CacheLimit
    BY <1>1, <1>3, <1>4, <1>11 DEF KeepsForCheckout, KeepsInCache, FitsCache, IsNeeded
  <2>0. bytes.retained \in Nat /\ bytes.checkout \in Nat /\ bytes.spilled \in Nat
    BY <1>7
  <2>2. /\ Holds(B, n.checkout) /\ Holds(B, CheckoutLimit) /\ Holds(A, n.retained)
        /\ Holds(C, n.spilled) /\ Holds(C, SpillLimit)
    <3>1. Holds(B, bytes.checkout) /\ Holds(B, CheckoutLimit)
      BY <1>6, <1>7, <1>9, <1>11, <2>0, Bytes DEF Limits
    <3>2. Holds(A, bytes.retained + Size[o])
      BY <1>6, <1>7, <2>0, Bytes DEF Limits
    <3>3. Holds(C, bytes.spilled) /\ Holds(C, SpillLimit)
      BY <1>4, <1>6, <1>7, <2>0, Bytes DEF Limits
    <3> QED
      BY <1>8, <2>1, <3>1, <3>2, <3>3
  <2>3. Holds(A, CacheLimit)
    BY <1>4, <1>7, <1>8, <2>1, <2>2, Bytes
  <2>4. Limits(A, B, C, n)
    BY <1>8, <2>2, <2>3 DEF Limits
  <2> QED
    BY <1>1, <1>3, <1>5, <1>6, <2>4, LimitsNext DEF KeepInv, vars, Frames
<1> QED
  BY <1>10, <1>11

\* An object that is left in the pack counts nowhere.
LEMMA LeaveKeeps ==
  ASSUME ResolverInv, HintInv, KeepInv, LeaveInPack
  PROVE  KeepInv'
<1>1. /\ order # <<>> /\ ingest = "states" /\ ingest' = "states" /\ UNCHANGED <<vars, bytes>>
      /\ Becomes(Reconstructable)
  BY DEF LeaveInPack, Goes
<1>2. ThisOid \in Oid /\ Tail(order) \in Seq(Frames)
  BY <1>1, FrameFacts DEF KeepInv
<1>3. PICK o \in Oid : o = ThisOid
  BY <1>2
<1>4. PICK A, B, C, n : A = KeptStructural' /\ B = KeptForCheckout' /\ C = Spilled' /\ n = bytes'
  OBVIOUS
<1>5. /\ A \subseteq KeptStructural /\ B \subseteq KeptForCheckout /\ C \subseteq Spilled
      /\ order' = Tail(order)
  BY <1>1, <1>3, <1>4, BecomesFacts DEF Reconstructable
<1>6. Limits(KeptStructural, KeptForCheckout, Spilled, bytes) /\ n = bytes
      /\ CacheLimit \in Nat /\ CheckoutLimit \in Nat /\ SpillLimit \in Nat
  BY <1>1, <1>4, StatesAssumption DEF KeepInv
<1>7. Limits(A, B, C, n)
  BY <1>3, <1>5, <1>6, Bytes DEF Limits
<1> QED
  BY <1>1, <1>2, <1>4, <1>5, <1>7, LimitsNext DEF KeepInv, vars, Frames

\* An object is spilled: the limit is compared with what lies in the file by then.
LEMMA AppendKeeps ==
  ASSUME ResolverInv, HintInv, KeepInv, AppendToArena
  PROVE  KeepInv'
<1> DEFINE total == bytes.spilled + DataLen
<1>1. /\ ingest = "spilling" /\ order # <<>> /\ Spills /\ UNCHANGED vars
      /\ bytes' = [bytes EXCEPT !.spilled = total]
      /\ ingest' = IF total <= SpillLimit THEN "states" ELSE "failed"
  BY DEF AppendToArena, WithinSpillLimit, Goes, KeepInv
<1>2. /\ ThisOid \in Oid /\ DataLen = Size[ThisOid] /\ DataLen \in Nat /\ Tail(order) \in Seq(Frames)
  BY <1>1, FrameFacts DEF KeepInv
<1>3. PICK o \in Oid : o = ThisOid
  BY <1>2
<1>4. PICK A, B, C, n : A = KeptStructural' /\ B = KeptForCheckout' /\ C = Spilled' /\ n = bytes'
  OBVIOUS
<1>5. /\ bytes \in [retained : Nat, checkout : Nat, spilled : Nat] /\ Size[o] \in Nat
      /\ CacheLimit \in Nat /\ CheckoutLimit \in Nat /\ SpillLimit \in Nat
      /\ Limits(KeptStructural, KeptForCheckout, Spilled, bytes)
  BY <1>3, StatesAssumption DEF KeepInv, Limits
<1>6. /\ n \in [retained : Nat, checkout : Nat, spilled : Nat]
      /\ n.retained = bytes.retained /\ n.checkout = bytes.checkout
      /\ n.spilled = bytes.spilled + Size[o] /\ total = n.spilled
  BY <1>1, <1>2, <1>3, <1>4, <1>5
<1>7. CASE total <= SpillLimit
  <2>1. PICK new : Becomes(new) /\ new.kind = "spilled"
    BY <1>7 DEF AppendToArena, WithinSpillLimit
  <2>2. /\ A \subseteq KeptStructural /\ B \subseteq KeptForCheckout
        /\ C \subseteq Spilled \cup {o} /\ order' = Tail(order)
    BY <1>3, <1>4, <2>1, BecomesFacts
  <2>0. bytes.retained \in Nat /\ bytes.checkout \in Nat /\ bytes.spilled \in Nat
    BY <1>5
  <2>3. /\ Holds(A, n.retained) /\ Holds(A, CacheLimit) /\ Holds(B, n.checkout)
        /\ Holds(B, CheckoutLimit) /\ Holds(C, n.spilled)
    <3>1. Holds(A, bytes.retained) /\ Holds(A, CacheLimit)
      BY <1>3, <1>5, <2>0, <2>2, Bytes DEF Limits
    <3>2. Holds(B, bytes.checkout) /\ Holds(B, CheckoutLimit)
      BY <1>3, <1>5, <2>0, <2>2, Bytes DEF Limits
    <3>3. Holds(C, bytes.spilled + Size[o])
      BY <1>3, <1>5, <2>0, <2>2, Bytes DEF Limits
    <3> QED
      BY <1>6, <3>1, <3>2, <3>3
  <2>4. Holds(C, SpillLimit)
    BY <1>3, <1>5, <1>6, <1>7, <2>3, Bytes
  <2>5. Limits(A, B, C, n)
    BY <1>6, <2>3, <2>4 DEF Limits
  <2> QED
    BY <1>1, <1>2, <1>4, <1>7, <2>2, <2>5, LimitsNext DEF KeepInv, vars, Frames
<1>8. CASE ~(total <= SpillLimit)
  <2>1. state' = state /\ order' = order
    BY <1>8 DEF AppendToArena, WithinSpillLimit
  <2>2. A = KeptStructural /\ B = KeptForCheckout /\ C = Spilled
    BY <1>4, <2>1 DEF KeptStructural, KeptForCheckout, Spilled, Of
  <2>3. bytes.spilled <= n.spilled /\ n.spilled \in Nat /\ bytes.spilled \in Nat
    BY <1>5, <1>6
  <2>4. Holds(C, n.spilled)
    BY <1>3, <1>5, <2>2, <2>3, Bytes DEF Limits
  <2>5. Limits(A, B, C, n)
    BY <1>5, <1>6, <2>2, <2>4 DEF Limits
  <2> QED
    BY <1>1, <1>4, <1>8, <2>1, <2>5, LimitsNext DEF KeepInv, vars, Frames
<1> QED
  BY <1>7, <1>8

\* Nothing is kept before the pack is resolved.
LEMMA IngestInitial == IngestInit => HintInv /\ KeepInv /\ ReadyInv
<1> SUFFICES ASSUME IngestInit PROVE HintInv /\ KeepInv /\ ReadyInv
  OBVIOUS
<1>1. HintInv
  BY DEF IngestInit, Init, HintInv
<1>2. /\ state = <<>> /\ order = <<>> /\ ingest = "resolving"
      /\ bytes \in [retained : Nat, checkout : Nat, spilled : Nat]
  BY DEF IngestInit
<1>3. /\ CacheLimit \in Nat /\ CheckoutLimit \in Nat /\ SpillLimit \in Nat
      /\ bytes.retained \in Nat /\ bytes.checkout \in Nat /\ bytes.spilled \in Nat
  BY <1>2, StatesAssumption
<1>4. Limits(KeptStructural, KeptForCheckout, Spilled, bytes)
  BY <1>2, <1>3, NothingKept DEF Limits
<1>5. order \in Seq(Frames)
  BY <1>2, EmptySeq
<1> QED
  BY <1>1, <1>2, <1>4, <1>5 DEF KeepInv, ReadyInv

\* Every step of the ingest keeps the limits and has the needed blobs ready.
LEMMA IngestStep == ResolverInv /\ ResolverInv' /\ HintInv /\ KeepInv /\ ReadyInv
                      /\ [IngestNext]_ingestVars => HintInv' /\ KeepInv' /\ ReadyInv'
<1> SUFFICES ASSUME ResolverInv, ResolverInv', HintInv, KeepInv, ReadyInv, [IngestNext]_ingestVars
             PROVE  HintInv' /\ KeepInv' /\ ReadyInv'
  OBVIOUS
<1>1. HintInv'
  BY HintStep DEF KeepInv
<1>2. ASSUME UNCHANGED <<order, state, bytes, vars>>,
             ingest' \in {"resolving", "states", "spilling", "done", "failed"},
             ingest' = "resolving" => ingest = "resolving",
             ingest' = "spilling" => order # <<>> /\ Spills'
      PROVE  KeepInv'
  <2>1. /\ KeptStructural' = KeptStructural /\ KeptForCheckout' = KeptForCheckout
        /\ Spilled' = Spilled
    BY <1>2 DEF KeptStructural, KeptForCheckout, Spilled, Of
  <2>2. Limits(KeptStructural, KeptForCheckout, Spilled, bytes)'
    BY <1>2, <2>1 DEF KeepInv, Limits, Holds, SizeOf, BytesOf
  <2> QED
    BY <1>2, <2>2 DEF KeepInv, vars, Frames
<1>3. ASSUME UNCHANGED <<needed, state>> PROVE ReadyInv'
  BY <1>3 DEF ReadyInv
<1>4. CASE Resolve
  BY <1>1, <1>3, <1>4, ResolveKeeps DEF Resolve, stateVars
<1>5. CASE WriteIndex
  <2>1. KeepInv'
    BY <1>2, <1>5 DEF WriteIndex, Goes
  <2>2. ReadyInv'
    BY <1>5 DEF WriteIndex, Goes, KeepInv, ReadyInv
  <2> QED
    BY <1>1, <2>1, <2>2
<1>6. CASE WriteIndexFails \/ FinishStates \/ SpillFails
  BY <1>1, <1>2, <1>3, <1>6 DEF WriteIndexFails, FinishStates, SpillFails, Goes
<1>7. CASE MeasureArena
  <2>1. UNCHANGED <<order, state, bytes, vars, needed, spillBlobs>> /\ ingest' = "spilling"
        /\ order # <<>> /\ Spills
    BY <1>7 DEF MeasureArena, Goes
  <2>2. Spills'
    BY <2>1 DEF Spills, IsNeeded, IsMissing, FitsCheckout, IsBlob, DataLen, ThisOid, This, vars
  <2> QED
    BY <1>1, <1>2, <1>3, <2>1, <2>2
<1>8. CASE OtherSpills \/ IngestDone \/ UNCHANGED ingestVars
  <2>1. UNCHANGED <<order, state, bytes, vars, needed, spillBlobs, ingest>>
    BY <1>8 DEF OtherSpills, IngestDone, ingestVars, stateVars
  <2>2. Spills' = Spills
    BY <2>1 DEF Spills, IsNeeded, IsMissing, FitsCheckout, IsBlob, DataLen, ThisOid, This, vars
  <2> QED
    BY <1>1, <1>2, <1>3, <2>1, <2>2 DEF KeepInv
<1>9. ASSUME NEW new, Becomes(new), needed' = needed,
             ThisOid \in needed => new # Reconstructable
      PROVE  ReadyInv'
  BY <1>9, BecomesFacts DEF ReadyInv
<1>10. CASE Retain
  <2>1. KeepInv'
    BY <1>10, RetainKeeps
  <2>2. [kind |-> "resident", whole |-> This \notin released] # Reconstructable
    BY DEF Reconstructable
  <2>3. ReadyInv'
    BY <1>9, <1>10, <2>2 DEF Retain
  <2> QED
    BY <1>1, <2>1, <2>3
<1>11. CASE LeaveInPack
  <2>1. KeepInv'
    BY <1>11, LeaveKeeps
  <2>2. ThisOid \notin needed
    BY <1>11, FrameFacts DEF LeaveInPack, KeepInv
  <2>3. ReadyInv'
    BY <1>9, <1>11, <2>2 DEF LeaveInPack
  <2> QED
    BY <1>1, <2>1, <2>3
<1>12. CASE AppendToArena
  <2>1. KeepInv'
    BY <1>12, AppendKeeps
  <2>2. [kind |-> "spilled", offset |-> offset, len |-> DataLen] # Reconstructable
    BY DEF Reconstructable
  <2>3. ReadyInv'
    BY <1>3, <1>9, <1>12, <2>2 DEF AppendToArena
  <2> QED
    BY <1>1, <2>1, <2>3
<1> QED
  BY <1>4, <1>5, <1>6, <1>7, <1>8, <1>10, <1>11, <1>12 DEF IngestNext

\* The invariants hold of every ingest.
LEMMA IngestInvariant == IngestSpec => [](ResolverInv /\ HintInv /\ KeepInv /\ ReadyInv)
<1>1. IngestInit => ResolverInv
  BY InvInit DEF IngestInit
<1>2. ResolverInv /\ [IngestNext]_ingestVars => ResolverInv'
  BY IngestSteps, InvStep
<1> QED
  BY <1>1, <1>2, IngestInitial, IngestStep, PTL DEF IngestSpec

\* With a checkout hint every blob that the checkout needs stays in memory or goes to the
\* spill file, whatever the limits and the order of the frames: none is left to be rebuilt
\* (build_object_states, keep_blob_data).
THEOREM NeededCorrect == IngestSpec => []NeededIsReady
<1>1. ReadyInv => NeededIsReady
  BY DEF ReadyInv, NeededIsReady
<1> QED
  BY <1>1, IngestInvariant, PTL

\* What is kept in memory of structural objects and of blobs for the checkout, and what is
\* spilled, is within the limit of each, though the two share a counter
\* (build_object_states, enforce_max_spill_bytes).
THEOREM LimitsCorrect == IngestSpec => []KeepsWithinLimits
<1>1. ResolverInv /\ HintInv /\ KeepInv => KeepsWithinLimits
  BY DEF KeepInv, Limits, Holds, KeptStructural, KeptForCheckout, Spilled, KeepsWithinLimits
<1> QED
  BY <1>1, IngestInvariant, PTL

-----------------------------------------------------------------------------
(***************************************************************************)
(* Reading back.  An object is in memory as a whole, or its bytes are in   *)
(* the spill file where its state says, as long as no other process cuts   *)
(* in between the two steps of a spill, or it is rebuilt from the pack.    *)
(***************************************************************************)
Ordered == Range(order)
Oids(S) == {pack[f].oid : f \in S}

SpilledAt(o, s) ==
  /\ s.kind = "spilled" /\ s.offset \in Nat /\ s.len = Size[o]
  /\ s.offset + s.len <= Len(arena)
  /\ \A i \in 1 .. s.len : arena[s.offset + i] = o

Readable(o) ==
  \/ state[o] = [kind |-> "resident", whole |-> TRUE]
  \/ state[o] = Reconstructable
  \/ SpilledAt(o, state[o])

ReadInv ==
  /\ ingest = "resolving" => Ordered = resolved
  /\ ingest \in {"states", "spilling", "done"} =>
       /\ DistinctOids /\ resolved = Frames
       /\ DOMAIN state \cup Oids(Ordered) = Oids(Frames)
  /\ ingest = "done" => order = <<>>
  /\ \A o \in DOMAIN state : Readable(o)
  /\ arena \in Seq(Oid \cup {Foreign})
  /\ ingest = "spilling" => offset = Len(arena)

\* A vector that has so many different elements of a set as there are has them all.
LEMMA PlaceHasAll ==
  ASSUME NEW S, IsFiniteSet(S), NEW place \in [1 .. Cardinality(S) -> S],
         \A i, j \in DOMAIN place : i < j => place[i] < place[j], S \subseteq Nat
  PROVE  {place[i] : i \in DOMAIN place} = S
<1> DEFINE n == Cardinality(S)
<1>1. n \in Nat
  BY FS_CardinalityType
<1>2. place \in Injection(1 .. n, S)
  <2>1. ASSUME NEW i \in 1 .. n, NEW j \in 1 .. n, place[i] = place[j] PROVE i = j
    <3>1. place[i] \in Nat /\ place[j] \in Nat /\ DOMAIN place = 1 .. n
      OBVIOUS
    <3>2. (i < j => place[i] < place[j]) /\ (j < i => place[j] < place[i])
      BY <3>1
    <3> QED
      BY <1>1, <2>1, <3>1, <3>2
  <2> QED
    BY <2>1 DEF Injection, IsInjective
<1>3. IsFiniteSet(1 .. n) /\ Cardinality(1 .. n) = n
  <2> HIDE DEF n
  <2>1. IsFiniteSet(1 .. n) /\ Cardinality(1 .. n) = IF 1 > n THEN 0 ELSE n - 1 + 1
    BY <1>1, FS_Interval
  <2> QED
    BY <1>1, <2>1
<1>4. place \in Surjection(1 .. n, S)
  BY <1>2, <1>3, FS_Injection
<1> QED
  BY <1>4 DEF Surjection

\* The elements of a vector are its first and those of the rest.
LEMMA RangeOfTail ==
  ASSUME NEW S, NEW s \in Seq(S), s # <<>>
  PROVE  Range(s) = {Head(s)} \cup Range(Tail(s))
<1> DEFINE t == Tail(s)
<1>1. /\ Head(s) = s[1] /\ t \in Seq(S) /\ Len(t) = Len(s) - 1
      /\ \A i \in 1 .. Len(t) : t[i] = s[i + 1]
  BY HeadTailProperties
<1> HIDE DEF t
<1>2. DOMAIN s = 1 .. Len(s) /\ DOMAIN t = 1 .. Len(t) /\ Len(s) \in Nat /\ Len(s) # 0
  BY <1>1, LenProperties, EmptySeq
<1>3. ASSUME NEW i \in DOMAIN s PROVE s[i] \in {Head(s)} \cup {t[j] : j \in DOMAIN t}
  <2>1. CASE i = 1
    BY <1>1, <2>1
  <2>2. CASE i # 1
    <3>1. i - 1 \in DOMAIN t /\ (i - 1) + 1 = i
      BY <1>1, <1>2, <2>2
    <3>2. t[i - 1] = s[i]
      BY <1>1, <1>2, <3>1
    <3> QED
      BY <3>1, <3>2
  <2> QED
    BY <2>1, <2>2
<1>4. ASSUME NEW i \in DOMAIN t PROVE t[i] \in {s[j] : j \in DOMAIN s}
  <2>1. i + 1 \in DOMAIN s /\ t[i] = s[i + 1]
    BY <1>1, <1>2
  <2> QED
    BY <2>1
<1>5. 1 \in DOMAIN s
  BY <1>2
<1> QED
  BY <1>1, <1>3, <1>4, <1>5 DEF t, Range

\* What the resolver resolves next comes into the order, and nothing else.
LEMMA ResolveReads ==
  ASSUME ResolverInv, ResolverInv', KeepInv, ReadInv, Resolve
  PROVE  ReadInv'
<1> DEFINE new == resolved' \ resolved
<1>1. PICK place \in [1 .. Cardinality(new) -> new] :
        /\ \A i, j \in DOMAIN place : i < j => place[i] < place[j]
        /\ order' = order \o place
  BY DEF Resolve
<1>2. /\ pack' = pack /\ UNCHANGED <<ingest, stateVars>> /\ ingest = "resolving"
      /\ resolved' \subseteq Frames' /\ pack \in Packs /\ [Next]_vars
  BY ReleasedAre DEF Resolve, ResolverInv, Types
<1>3. Frames' = Frames /\ IsFiniteSet(Frames) /\ Frames \subseteq Nat
  BY <1>2, PackFacts DEF Frames
<1>4. IsFiniteSet(new) /\ new \subseteq Frames /\ Cardinality(new) \in Nat
  <2>1. new \subseteq Frames
    BY <1>2, <1>3
  <2> HIDE DEF new
  <2> QED
    BY <1>3, <2>1, FS_Subset, FS_CardinalityType
<1>5. {place[i] : i \in DOMAIN place} = new
  <2>1. new \subseteq Nat
    BY <1>3, <1>4
  <2> HIDE DEF new
  <2> QED
    BY <1>1, <1>4, <2>1, PlaceHasAll
<1>6. place \in Seq(Frames) /\ order \in Seq(Frames)
  <2> HIDE DEF new
  <2> DEFINE k == Cardinality(new)
  <2>1. k \in Nat /\ place \in [1 .. k -> Frames]
    BY <1>1, <1>4
  <2> HIDE DEF k
  <2> QED
    BY <2>1, IsASeq DEF KeepInv
<1>7. Ordered' = Ordered \cup new
  <2>1. Ordered' = Range(order \o place)
    BY <1>1 DEF Ordered
  <2>2. Range(order \o place) = Range(order) \cup Range(place)
    BY <1>6, RangeConcatenation
  <2> QED
    BY <1>5, <2>1, <2>2 DEF Ordered, Range
<1>8. resolved \subseteq resolved'
  <2>1. CASE \E f \in Frames : Merge(f)
    BY <2>1 DEF Merge
  <2>2. CASE ~\E f \in Frames : Merge(f)
    <3>1. ResolveBases => resolved = {}
      BY DEF ResolveBases, ResolverInv, PhaseInv
    <3> QED
      BY <1>2, <2>2, <3>1 DEF Next, vars, PayloadFails, ResolveBases, NoBase, Finish,
         ComputeRound, Done, End
  <2> QED
    BY <2>1, <2>2
<1>9. Ordered' = resolved'
  BY <1>2, <1>7, <1>8 DEF ReadInv
<1>10. /\ arena' = arena /\ state' = state /\ ingest' = "resolving"
  BY <1>2 DEF stateVars
<1>11. \A o \in DOMAIN state' : Readable(o)'
  BY <1>10 DEF ReadInv, Readable, SpilledAt
<1> QED
  BY <1>9, <1>10, <1>11 DEF ReadInv

\* What can be read can be read when the spill file grows.
LEMMA ReadableStays ==
  ASSUME ResolverInv, ReadInv, ingest \in {"states", "spilling"},
         NEW o \in DOMAIN state, state'[o] = state[o],
         arena' \in Seq(Oid \cup {Foreign}), Len(arena) <= Len(arena'),
         \A i \in 1 .. Len(arena) : arena'[i] = arena[i]
  PROVE  Readable(o)'
<1>1. Readable(o)
  BY DEF ReadInv
<1>2. PICK s : s = state[o]
  OBVIOUS
<1>3. CASE SpilledAt(o, s)
  <2> DEFINE at == s.offset
             n == s.len
  <2>1. /\ at \in Nat /\ at + n <= Len(arena) /\ n = Size[o]
        /\ \A i \in 1 .. n : arena[at + i] = o
    BY <1>3 DEF SpilledAt
  <2>2. n \in Nat
    <3>1. o \in Oids(Frames) /\ pack \in Packs
      BY DEF ReadInv, ResolverInv, Types
    <3>2. o \in Oid
      BY <3>1, PackFacts DEF Oids
    <3> QED
      BY <2>1, <3>2, StatesAssumption
  <2>3. Len(arena) \in Nat /\ Len(arena') \in Nat
    BY LenProperties DEF ReadInv
  <2>4. at + n <= Len(arena') /\ \A i \in 1 .. n : arena'[at + i] = o
    <3> HIDE DEF at, n
    <3>1. ASSUME NEW i \in 1 .. n PROVE at + i \in 1 .. Len(arena)
      BY <2>1, <2>2, <2>3
    <3> QED
      BY <2>1, <2>2, <2>3, <3>1
  <2>5. state'[o] = s /\ SpilledAt(o, s)
    BY <1>2, <1>3
  <2>6. SpilledAt(o, state[o])'
    BY <2>4, <2>5 DEF SpilledAt
  <2> QED
    BY <2>6 DEF Readable
<1>4. CASE ~SpilledAt(o, s)
  BY <1>1, <1>2, <1>4 DEF Readable
<1> QED
  BY <1>3, <1>4

\* The frame that is taken next from the order is of the pack; its object is read as the
\* new state says, and the others as before.
LEMMA BecomesReads ==
  ASSUME ResolverInv, KeepInv, ReadInv, order # <<>>, UNCHANGED vars,
         ingest \in {"states", "spilling"}, ingest' \in {"states", "spilling"},
         NEW new, Becomes(new),
         arena' \in Seq(Oid \cup {Foreign}), Len(arena) <= Len(arena'),
         \A i \in 1 .. Len(arena) : arena'[i] = arena[i],
         \/ new = [kind |-> "resident", whole |-> TRUE]
         \/ new = Reconstructable
         \/ /\ new.kind = "spilled" /\ new.offset \in Nat /\ new.len = Size[ThisOid]
            /\ new.offset + new.len <= Len(arena')
            /\ \A i \in 1 .. new.len : arena'[new.offset + i] = ThisOid,
         ingest' = "spilling" => offset' = Len(arena')
  PROVE  ReadInv'
<1>1. PICK o : o = ThisOid
  OBVIOUS
<1>2. /\ DOMAIN state' = DOMAIN state \cup {o}
      /\ \A x \in DOMAIN state' : IF x = o THEN state'[x] = new
                                  ELSE x \in DOMAIN state /\ state'[x] = state[x]
      /\ order' = Tail(order)
  BY <1>1 DEF Becomes
<1>3. DOMAIN state' \cup Oids(Ordered)' = Oids(Frames)'
  <2>1. Ordered = {This} \cup Ordered'
    <3>1. order \in Seq(Frames) /\ order # <<>>
      BY DEF KeepInv
    <3>2. Range(order) = {Head(order)} \cup Range(Tail(order))
      BY <3>1, RangeOfTail
    <3> QED
      BY <1>2, <3>2 DEF Ordered, This
  <2>2. Oids(Ordered) = {o} \cup Oids(Ordered)'
    <3>1. Oids(Ordered)' = {pack[f].oid : f \in Ordered'}
      BY DEF vars, Oids
    <3> QED
      BY <1>1, <2>1, <3>1 DEF Oids, ThisOid
  <2>3. Oids(Frames)' = Oids(Frames)
    BY DEF vars, Oids, Frames
  <2>4. DOMAIN state \cup Oids(Ordered) = Oids(Frames)
    BY DEF ReadInv
  <2> QED
    BY <1>2, <2>2, <2>3, <2>4
<1>4. DistinctOids' /\ (resolved = Frames)'
  BY DEF ReadInv, vars, DistinctOids, Frames
<1>5. arena \in Seq(Oid \cup {Foreign}) /\ Len(arena) \in Nat /\ Len(arena') \in Nat
  BY LenProperties DEF ReadInv
<1>6. ASSUME NEW x \in DOMAIN state' PROVE Readable(x)'
  <2>1. CASE x = o
    BY <1>1, <1>2, <2>1 DEF Readable, SpilledAt
  <2>2. CASE x # o
    <3>1. x \in DOMAIN state /\ state'[x] = state[x]
      BY <1>2, <2>2
    <3> QED
      BY <3>1, ReadableStays
  <2> QED
    BY <2>1, <2>2
<1> QED
  BY <1>3, <1>4, <1>6 DEF ReadInv

\* Data that is kept or spilled is there: no frame whose data is wanted was released.
LEMMA WholeFacts ==
  ASSUME ResolverInv, HintInv, KeepInv, order # <<>>
  PROVE  /\ ThisOid \in Oid /\ Size[ThisOid] \in Nat
         /\ KeepsForCheckout \/ KeepsInCache \/ Spills =>
              This \notin released /\ DataLen = Size[ThisOid]
<1>1. This \in released => IsBlob /\ ~hint /\ ~spillBlobs
  BY DEF HintInv, IsBlob, ThisOid, Releases
<1>2. IsNeeded => hint
  BY DEF IsNeeded, HintInv
<1>3. ThisOid \in Oid /\ Size[ThisOid] \in Nat
  BY FrameFacts, StatesAssumption DEF KeepInv
<1> QED
  BY <1>1, <1>2, <1>3 DEF KeepsForCheckout, KeepsInCache, Spills, DataLen

\* Every step keeps what was placed where it can be read, when nobody appends to the
\* spill file between the look at its length and the append.
LEMMA ReadStep ==
  ASSUME ~CutsIn, ResolverInv, ResolverInv', HintInv, KeepInv, ReadInv, [IngestNext]_ingestVars
  PROVE  ReadInv'
<1>0. arena \in Seq(Oid \cup {Foreign}) /\ Len(arena) \in Nat
  BY LenProperties DEF ReadInv
<1>1. ASSUME UNCHANGED <<order, state, vars, arena>>,
             ingest' \in {ingest, "failed", "done", "spilling"},
             ingest' # ingest => ingest = "states" \/ ingest' = "failed",
             ingest' = "done" => order = <<>>,
             ingest' = "spilling" => offset' = Len(arena)
      PROVE  ReadInv'
  <2>1. /\ Ordered' = Ordered /\ resolved' = resolved /\ Frames' = Frames
        /\ DistinctOids' = DistinctOids /\ Oids(Ordered)' = Oids(Ordered)
        /\ Oids(Frames)' = Oids(Frames)
    BY <1>1 DEF Ordered, vars, Frames, DistinctOids, Oids
  <2>2. \A o \in DOMAIN state' : Readable(o)'
    BY <1>1 DEF ReadInv, Readable, SpilledAt
  <2>3. ingest' = "resolving" => ingest = "resolving"
    BY <1>1
  <2>4. ingest' \in {"states", "spilling", "done"} => ingest \in {"states", "spilling", "done"}
    BY <1>1
  <2>5. DOMAIN state' \cup Oids(Ordered)' = DOMAIN state \cup Oids(Ordered)
    BY <1>1, <2>1
  <2> QED
    BY <1>1, <2>1, <2>2, <2>3, <2>4, <2>5 DEF ReadInv
<1>2. CASE Resolve
  BY <1>2, ResolveReads
<1>3. CASE WriteIndex
  <2>1. /\ pc = "ok" /\ DistinctOids /\ ingest = "resolving" /\ ingest' = "states"
        /\ UNCHANGED <<vars, order, state, arena>>
    BY <1>3 DEF WriteIndex, Goes
  <2>2. resolved = Frames /\ Ordered = resolved /\ state = <<>>
    BY <2>1 DEF ResolverInv, VerdictIsRight, ReadInv, KeepInv
  <2>3. /\ DistinctOids' /\ (resolved = Frames)' /\ Ordered' = Ordered
        /\ Oids(Ordered)' = Oids(Ordered) /\ Oids(Frames)' = Oids(Frames)
    BY <2>1, <2>2 DEF DistinctOids, vars, Frames, Ordered, Oids
  <2>4. DOMAIN state' = {}
    BY <2>1, <2>2
  <2> QED
    BY <2>1, <2>2, <2>3, <2>4 DEF ReadInv
<1>4. CASE WriteIndexFails \/ FinishStates \/ SpillFails \/ IngestDone \/ UNCHANGED ingestVars
  <2>1. UNCHANGED <<order, state, vars, arena, offset>>
    BY <1>4 DEF WriteIndexFails, FinishStates, SpillFails, IngestDone, Goes, ingestVars, stateVars
  <2>2. \/ ingest' = "failed" \/ ingest' = ingest
        \/ ingest = "states" /\ ingest' = "done" /\ order = <<>>
    BY <1>4 DEF WriteIndexFails, FinishStates, SpillFails, IngestDone, Goes, ingestVars
  <2>3. /\ ingest' = "done" => order = <<>>
        /\ ingest' = "spilling" => offset' = Len(arena)
    BY <2>1, <2>2 DEF ReadInv
  <2> QED
    BY <1>1, <2>1, <2>2, <2>3
<1>5. CASE MeasureArena
  BY <1>1, <1>5 DEF MeasureArena, Goes
<1>6. CASE Retain
  <2>1. /\ order # <<>> /\ (KeepsForCheckout \/ KeepsInCache)
        /\ ingest = "states" /\ ingest' = "states" /\ UNCHANGED <<vars, arena>>
        /\ Becomes([kind |-> "resident", whole |-> This \notin released])
    BY <1>6 DEF Retain, Goes
  <2>2. (This \notin released) = TRUE
    BY <2>1, WholeFacts
  <2>3. Becomes([kind |-> "resident", whole |-> TRUE])
    BY <2>1, <2>2
  <2> QED
    BY <1>0, <2>1, <2>3, BecomesReads
<1>7. CASE LeaveInPack
  <2>1. /\ order # <<>> /\ ingest = "states" /\ ingest' = "states" /\ UNCHANGED <<vars, arena>>
        /\ Becomes(Reconstructable)
    BY <1>7 DEF LeaveInPack, Goes
  <2> QED
    BY <1>0, <2>1, BecomesReads
<1>8. CASE AppendToArena
  <2> DEFINE n == DataLen
             mine == [i \in 1 .. n |-> ThisOid]
  <2>1. /\ ingest = "spilling" /\ order # <<>> /\ Spills /\ UNCHANGED vars
        /\ ingest' \in {"states", "failed"} /\ arena' = arena \o mine
        /\ ingest' = "states" =>
             Becomes([kind |-> "spilled", offset |-> offset, len |-> n])
        /\ ingest' = "failed" => UNCHANGED <<state, order>>
    BY <1>8 DEF AppendToArena, WithinSpillLimit, Goes, KeepInv
  <2>2. ThisOid \in Oid /\ n = Size[ThisOid] /\ n \in Nat /\ offset = Len(arena)
    BY <2>1, WholeFacts DEF ReadInv
  <2> HIDE DEF n
  <2>3. /\ mine \in Seq(Oid \cup {Foreign}) /\ Len(mine) = n
        /\ \A i \in 1 .. n : mine[i] = ThisOid
    <3>1. mine \in [1 .. n -> Oid \cup {Foreign}]
      BY <2>2
    <3> HIDE DEF mine
    <3>2. mine \in Seq(Oid \cup {Foreign}) /\ Len(mine) = n
      BY <2>2, <3>1, IsASeq
    <3> QED
      BY <3>2 DEF mine
  <2> HIDE DEF mine
  <2>4. /\ arena' \in Seq(Oid \cup {Foreign}) /\ Len(arena') = Len(arena) + n
        /\ \A i \in 1 .. Len(arena) + n :
             arena'[i] = IF i <= Len(arena) THEN arena[i] ELSE mine[i - Len(arena)]
    BY <1>0, <2>1, <2>3, ConcatProperties
  <2>5. /\ Len(arena) <= Len(arena') /\ \A i \in 1 .. Len(arena) : arena'[i] = arena[i]
        /\ Len(arena) + n <= Len(arena')
    BY <1>0, <2>2, <2>4
  <2>6. ASSUME NEW i \in 1 .. n PROVE arena'[Len(arena) + i] = ThisOid
    <3>1. /\ Len(arena) + i \in 1 .. Len(arena) + n /\ ~(Len(arena) + i <= Len(arena))
          /\ (Len(arena) + i) - Len(arena) = i
      BY <1>0, <2>2
    <3> QED
      BY <2>3, <2>4, <3>1
  <2>7. CASE ingest' = "states"
    <3> DEFINE new == [kind |-> "spilled", offset |-> offset, len |-> n]
    <3>1. new.kind = "spilled" /\ new.offset = Len(arena) /\ new.len = n /\ Becomes(new)
      BY <2>1, <2>2, <2>7
    <3> HIDE DEF new
    <3>2. /\ new.kind = "spilled" /\ new.offset \in Nat /\ new.len = Size[ThisOid]
          /\ new.offset + new.len <= Len(arena')
          /\ \A i \in 1 .. new.len : arena'[new.offset + i] = ThisOid
      BY <1>0, <2>2, <2>5, <2>6, <3>1
    <3> QED
      BY <2>1, <2>4, <2>5, <2>7, <3>1, <3>2, BecomesReads
  <2>8. CASE ingest' = "failed"
    <3>1. ASSUME NEW o \in DOMAIN state' PROVE Readable(o)'
      <4>1. o \in DOMAIN state /\ state'[o] = state[o]
        BY <2>1, <2>8
      <4> QED
        BY <2>1, <2>4, <2>5, <4>1, ReadableStays
    <3> QED
      BY <2>4, <2>8, <3>1 DEF ReadInv
  <2> QED
    BY <2>1, <2>7, <2>8
<1>9. CASE OtherSpills
  <2>1. /\ ingest # "spilling" /\ UNCHANGED <<vars, order, state, ingest>>
        /\ arena' = Append(arena, Foreign) /\ Foreign \in Oid \cup {Foreign}
    BY <1>9 DEF OtherSpills
  <2>2. /\ arena' \in Seq(Oid \cup {Foreign}) /\ Len(arena') = Len(arena) + 1
        /\ \A i \in 1 .. Len(arena) : arena'[i] = arena[i]
    BY <1>0, <2>1, AppendProperties
  <2>3. /\ Ordered' = Ordered /\ resolved' = resolved /\ Frames' = Frames
        /\ DistinctOids' = DistinctOids /\ Oids(Ordered)' = Oids(Ordered)
        /\ Oids(Frames)' = Oids(Frames)
    BY <2>1 DEF Ordered, vars, Frames, DistinctOids, Oids
  <2>4. ASSUME NEW o \in DOMAIN state' PROVE Readable(o)'
    <3>1. o \in DOMAIN state /\ state'[o] = state[o] /\ Len(arena) <= Len(arena')
          /\ ingest \in {"states", "spilling"}
      BY <1>0, <1>9, <2>1, <2>2 DEF OtherSpills
    <3> QED
      BY <2>2, <3>1, ReadableStays
  <2>5. DOMAIN state' \cup Oids(Ordered)' = DOMAIN state \cup Oids(Ordered)
    BY <2>1, <2>3
  <2> QED
    BY <2>1, <2>2, <2>3, <2>4, <2>5 DEF ReadInv
<1> QED
  BY <1>2, <1>3, <1>4, <1>5, <1>6, <1>7, <1>8, <1>9 DEF IngestNext

\* So it is from the start on.
LEMMA ReadInitial == IngestInit => ReadInv
<1> SUFFICES ASSUME IngestInit PROVE ReadInv
  OBVIOUS
<1>1. /\ ingest = "resolving" /\ order = <<>> /\ resolved = {} /\ state = <<>>
      /\ arena \in {<<>>, <<Foreign>>}
  BY DEF IngestInit, Init
<1>2. Ordered = {} /\ DOMAIN state = {}
  BY <1>1 DEF Ordered, Range
<1>3. arena \in Seq(Oid \cup {Foreign})
  <2> DEFINE S == Oid \cup {Foreign}
  <2>1. Foreign \in S
    OBVIOUS
  <2> HIDE DEF S
  <2>2. <<Foreign>> \in Seq(S) /\ <<>> \in Seq(S)
    BY <2>1
  <2> QED
    BY <1>1, <2>2 DEF S
<1> QED
  BY <1>1, <1>2, <1>3 DEF ReadInv

-----------------------------------------------------------------------------
\* What holds of 0, and of the next number with each below a bound, holds up to the bound.
LEMMA UpTo ==
  ASSUME NEW n \in Nat, NEW T, 0 \in T, \A k \in 0 .. n : k \in T /\ k < n => k + 1 \in T
  PROVE  \A k \in 0 .. n : k \in T
<1> SUFFICES ASSUME NEW bad \in 0 .. n, bad \notin T PROVE FALSE
  OBVIOUS
<1> DEFINE Less == {ss \in Nat \X Nat : ss[1] < ss[2]}
           Out == {k \in 0 .. n : k \notin T}
<1>1. IsWellFoundedOn(Less, Nat)
  BY NatLessThanWellFounded DEF OpToRel
<1>2. Out \subseteq Nat /\ Out # {}
  OBVIOUS
<1>3. PICK x \in Out : \A y \in Out : <<y, x>> \notin Less
  <2> HIDE DEF Out, Less
  <2> QED
    BY <1>1, <1>2, WFMin
<1>4. x \in 0 .. n /\ x \notin T /\ x # 0
  BY <1>3
<1>5. x - 1 \in 0 .. n /\ (x - 1) + 1 = x /\ x - 1 < n /\ x - 1 < x
  BY <1>4
<1>6. x - 1 \notin T
  BY <1>4, <1>5
<1>7. x - 1 \in Out /\ <<x - 1, x>> \in Less
  BY <1>4, <1>5, <1>6
<1> QED
  BY <1>3, <1>7

\* From a start, a function can be applied as often as one likes.
Repeats(n, S, start, f, g) ==
  g \in [0 .. n -> S] /\ g[0] = start /\ \A k \in 1 .. n : g[k] = f[g[k - 1]]

Repeatable(n, S, start, f) == \E g : Repeats(n, S, start, f, g)

\* Repeating it n times is a function.
LEMMA Repeated ==
  ASSUME NEW n \in Nat, NEW S, NEW start \in S, NEW f \in [S -> S]
  PROVE  Repeatable(n, S, start, f)
<1> DEFINE Up(m, g) == g[0] = start /\ \A k \in 1 .. m : g[k] = f[g[k - 1]]
           T == {m \in 0 .. n : \E g \in [0 .. m -> S] : Up(m, g)}
<1>1. 0 \in T
  <2> DEFINE g == [k \in 0 .. 0 |-> start]
  <2>1. g \in [0 .. 0 -> S] /\ Up(0, g) /\ 0 \in 0 .. n
    OBVIOUS
  <2> HIDE DEF g, Up
  <2> QED
    BY <2>1
<1>2. ASSUME NEW m \in 0 .. n, m \in T, m < n PROVE m + 1 \in T
  <2>1. PICK g \in [0 .. m -> S] : Up(m, g)
    BY <1>2
  <2> DEFINE h == [k \in 0 .. m + 1 |-> IF k = m + 1 THEN f[g[m]] ELSE g[k]]
  <2>2. h \in [0 .. m + 1 -> S]
    <3>1. m \in 0 .. m /\ \A k \in 0 .. m + 1 : k # m + 1 => k \in 0 .. m
      OBVIOUS
    <3> QED
      BY <3>1
  <2>3. h[0] = start
    BY <2>1
  <2>4. ASSUME NEW k \in 1 .. m + 1 PROVE h[k] = f[h[k - 1]]
    <3>1. k \in 0 .. m + 1 /\ k - 1 \in 0 .. m + 1 /\ k - 1 # m + 1
      OBVIOUS
    <3>2. h[k - 1] = g[k - 1]
      BY <3>1
    <3>3. CASE k = m + 1
      BY <3>2, <3>3
    <3>4. CASE k # m + 1
      BY <2>1, <3>2, <3>4
    <3> QED
      BY <3>3, <3>4
  <2>5. m + 1 \in 0 .. n
    BY <1>2
  <2> HIDE DEF h
  <2>6. Up(m + 1, h)
    BY <2>3, <2>4
  <2> QED
    BY <2>2, <2>5, <2>6
<1>3. n \in T
  <2> HIDE DEF T
  <2>1. \A k \in 0 .. n : k \in T
    BY <1>1, <1>2, UpTo
  <2> QED
    BY <2>1
<1> QED
  BY <1>3 DEF Repeatable, Repeats

\* The objects that are rebuilt on top of others, those on whose delta bases they are
\* rebuilt, and so on: the function of TooDeep.
Rebuilt(q) == state[q] = Reconstructable /\ pack[FrameOf(q)].kind # "base"
BasesBelow(S) == {BaseOid(FrameOf(p)) : p \in {q \in S : Rebuilt(q)}}

Chain(o) ==
  CHOOSE chain :
    chain = [n \in 0 .. MaxDepth + 1 |-> IF n = 0 THEN {o} ELSE BasesBelow(chain[n - 1])]

Deep(o, n) == \E p \in Chain(o)[n] : state[p] = Reconstructable

\* TooDeep is that chain's reaching the limit on depth with an object left to rebuild.
LEMMA DeepIs == ASSUME NEW o PROVE TooDeep(o) = Deep(o, MaxDepth + 1)
BY DEF TooDeep, Deep, Chain, BasesBelow, Rebuilt

\* When the ingest is done, every object of the pack has a state, and with one that is
\* rebuilt as a delta the base has one too.
LEMMA StatesAre ==
  ASSUME ResolverInv, ReadInv, ingest = "done", NEW o \in DOMAIN state
  PROVE  /\ \A f \in Frames : pack[f].oid \in DOMAIN state
         /\ FrameOf(o) \in Frames /\ pack[FrameOf(o)].oid = o
         /\ pack[FrameOf(o)].kind # "base" => BaseOid(FrameOf(o)) \in DOMAIN state
<1>1. /\ resolved = Frames /\ DOMAIN state \cup Oids(Ordered) = Oids(Frames) /\ order = <<>>
      /\ pack \in Packs
  BY DEF ReadInv, ResolverInv, Types
<1>2. DOMAIN state = Oids(Frames)
  <2>1. Ordered = {}
    BY <1>1 DEF Ordered, Range
  <2> QED
    BY <1>1, <2>1 DEF Oids
<1>3. FrameOf(o) \in Frames /\ pack[FrameOf(o)].oid = o
  <2>1. \E f \in Frames : pack[f].oid = o
    BY <1>2 DEF Oids
  <2> QED
    BY <2>1 DEF FrameOf
<1>4. \A f \in Frames : pack[f].oid \in DOMAIN state
  BY <1>2 DEF Oids
<1>5. ASSUME pack[FrameOf(o)].kind # "base" PROVE BaseOid(FrameOf(o)) \in DOMAIN state
  <2> DEFINE f == FrameOf(o)
  <2>1. HasBaseIn(f, Frames)
    BY <1>1, <1>3, <1>5 DEF ResolverInv, QueueInv, Deltas
  <2>2. pack[f].kind \in {"offset", "ref"}
    BY <1>1, <1>3, <1>5, PackFacts
  <2> QED
    BY <1>4, <2>1, <2>2 DEF HasBaseIn, BaseOid
<1> QED
  BY <1>3, <1>4, <1>5

\* The chain is what its definition says: an object that is not rebuilt on top of another
\* has nothing below, and below one that is there is the chain of its base.
LEMMA ChainFacts ==
  ASSUME ResolverInv, ReadInv, ingest = "done", NEW o \in DOMAIN state
  PROVE  /\ Chain(o)[0] = {o}
         /\ \A n \in 1 .. MaxDepth + 1 : Chain(o)[n] = BasesBelow(Chain(o)[n - 1])
<1> DEFINE D == DOMAIN state
           S == SUBSET D
           f == [X \in S |-> BasesBelow(X)]
           c == MaxDepth + 1
           Unfolds(g) == g = [n \in 0 .. c |-> IF n = 0 THEN {o} ELSE BasesBelow(g[n - 1])]
<1>1. c \in Nat /\ {o} \in S
  BY StatesAssumption
<1>2. f \in [S -> S]
  <2>1. ASSUME NEW X \in S PROVE BasesBelow(X) \in S
    BY StatesAre DEF BasesBelow, Rebuilt
  <2> QED
    BY <2>1
<1>3. \E g : Unfolds(g)
  <2>1. \E g \in [0 .. c -> S] : g[0] = {o} /\ \A k \in 1 .. c : g[k] = f[g[k - 1]]
    <3>1. Repeatable(c, S, {o}, f)
      <4> HIDE DEF c, S, f
      <4> QED
        BY <1>1, <1>2, Repeated
    <3>2. \E g : Repeats(c, S, {o}, f, g)
      BY <3>1 DEF Repeatable
    <3> HIDE DEF c, S, f
    <3> QED
      BY <3>2 DEF Repeats
  <2>2. PICK g \in [0 .. c -> S] : g[0] = {o} /\ \A k \in 1 .. c : g[k] = f[g[k - 1]]
    BY <2>1
  <2>3. ASSUME NEW k \in 1 .. c PROVE g[k] = BasesBelow(g[k - 1])
    <3>1. k - 1 \in 0 .. c
      BY <1>1
    <3>2. g[k - 1] \in S
      BY <3>1
    <3> QED
      BY <2>2, <3>2
  <2>4. g = [n \in 0 .. c |-> IF n = 0 THEN {o} ELSE BasesBelow(g[n - 1])]
    <3> DEFINE h == [n \in 0 .. c |-> IF n = 0 THEN {o} ELSE BasesBelow(g[n - 1])]
    <3>1. ASSUME NEW n \in 0 .. c PROVE g[n] = h[n]
      <4>1. n = 0 \/ n \in 1 .. c
        BY <1>1
      <4> QED
        BY <2>2, <2>3, <4>1
    <3> QED
      BY <3>1
  <2> QED
    BY <2>4
<1>4. Unfolds(Chain(o))
  <2>1. Chain(o) = CHOOSE g : Unfolds(g)
    BY DEF Chain
  <2> HIDE DEF Unfolds
  <2> QED
    BY <1>3, <2>1
<1>5. ASSUME NEW n \in 0 .. c
      PROVE  Chain(o)[n] = IF n = 0 THEN {o} ELSE BasesBelow(Chain(o)[n - 1])
  BY <1>4
<1>6. \A n \in 1 .. c : n \in 0 .. c /\ n # 0
  BY <1>1
<1> QED
  BY <1>1, <1>5, <1>6

\* The chain of an object is empty above it, or that of its base, one further up.
LEMMA ChainBelow ==
  ASSUME ResolverInv, ReadInv, ingest = "done", NEW o \in DOMAIN state
  PROVE  /\ ~Rebuilt(o) => \A n \in 1 .. MaxDepth + 1 : Chain(o)[n] = {}
         /\ Rebuilt(o) => \A n \in 0 .. MaxDepth :
                            Chain(o)[n + 1] = Chain(BaseOid(FrameOf(o)))[n]
<1> DEFINE c == MaxDepth
<1>0. c \in Nat /\ c + 1 \in Nat
  BY StatesAssumption
<1>1. /\ Chain(o)[0] = {o}
      /\ \A n \in 1 .. c + 1 : Chain(o)[n] = BasesBelow(Chain(o)[n - 1])
  BY ChainFacts
<1>2. ASSUME ~Rebuilt(o) PROVE \A n \in 1 .. c + 1 : Chain(o)[n] = {}
  <2> DEFINE T == {k \in 0 .. c : Chain(o)[k + 1] = {}}
  <2>1. BasesBelow({o}) = {} /\ BasesBelow({}) = {}
    BY <1>2 DEF BasesBelow
  <2>2. 0 \in T
    <3>1. 1 \in 1 .. c + 1 /\ 1 - 1 = 0 /\ 0 + 1 = 1
      BY <1>0
    <3>2. Chain(o)[1] = {}
      BY <1>1, <2>1, <3>1
    <3> QED
      BY <1>0, <3>1, <3>2
  <2>3. ASSUME NEW k \in 0 .. c, k \in T, k < c PROVE k + 1 \in T
    <3>1. (k + 1) + 1 \in 1 .. c + 1 /\ ((k + 1) + 1) - 1 = k + 1 /\ k + 1 \in 0 .. c
      BY <1>0, <2>3
    <3>2. Chain(o)[(k + 1) + 1] = BasesBelow(Chain(o)[k + 1])
      BY <1>1, <3>1
    <3> QED
      BY <2>1, <2>3, <3>1, <3>2
  <2>4. \A k \in 0 .. c : k \in T
    <3> HIDE DEF T, c
    <3> QED
      BY <1>0, <2>2, <2>3, UpTo
  <2>5. ASSUME NEW n \in 1 .. c + 1 PROVE Chain(o)[n] = {}
    <3>1. n - 1 \in 0 .. c /\ (n - 1) + 1 = n
      BY <1>0
    <3> QED
      BY <2>4, <3>1
  <2> QED
    BY <2>5
<1>3. ASSUME Rebuilt(o)
      PROVE  \A n \in 0 .. c : Chain(o)[n + 1] = Chain(BaseOid(FrameOf(o)))[n]
  <2> DEFINE b == BaseOid(FrameOf(o))
             T == {k \in 0 .. c : Chain(o)[k + 1] = Chain(b)[k]}
  <2>1. b \in DOMAIN state
    BY <1>3, StatesAre DEF Rebuilt
  <2>2. BasesBelow({o}) = {b}
    BY <1>3 DEF BasesBelow
  <2> HIDE DEF b
  <2>3. Chain(b)[0] = {b} /\ \A n \in 1 .. c + 1 : Chain(b)[n] = BasesBelow(Chain(b)[n - 1])
    BY <2>1, ChainFacts
  <2>4. 0 \in T
    <3>1. 1 \in 1 .. c + 1 /\ 1 - 1 = 0 /\ 0 + 1 = 1
      BY <1>0
    <3>2. Chain(o)[1] = {b}
      BY <1>1, <2>2, <3>1
    <3> QED
      BY <1>0, <2>3, <3>1, <3>2
  <2>5. ASSUME NEW k \in 0 .. c, k \in T, k < c PROVE k + 1 \in T
    <3>1. /\ (k + 1) + 1 \in 1 .. c + 1 /\ ((k + 1) + 1) - 1 = k + 1 /\ k + 1 \in 0 .. c
          /\ k + 1 \in 1 .. c + 1 /\ (k + 1) - 1 = k
      BY <1>0, <2>5
    <3>2. Chain(o)[(k + 1) + 1] = BasesBelow(Chain(o)[k + 1])
      BY <1>1, <3>1
    <3>3. Chain(b)[k + 1] = BasesBelow(Chain(b)[k])
      BY <2>3, <3>1
    <3> QED
      BY <2>5, <3>1, <3>2, <3>3
  <2>6. \A k \in 0 .. c : k \in T
    <3> HIDE DEF T, c
    <3> QED
      BY <1>0, <2>4, <2>5, UpTo
  <2> QED
    BY <2>6 DEF b
<1> QED
  BY <1>2, <1>3
\* The deltas above an object and those below it down to the limit: what it is read as with
\* d of them above it.
Wanted(deep) == IF deep THEN "error" ELSE "right"

Expected(o, d) == Wanted(Deep(o, (MaxDepth + 1) - d))

\* The two readings.
LEMMA WantedIs == Wanted(TRUE) = "error" /\ Wanted(FALSE) = "right"
BY DEF Wanted

\* One step of the reading, of what the bases are read as one deeper.
Value(o, d, next) ==
  CASE state[o].kind = "resident" -> IF state[o].whole THEN "right" ELSE "wrong"
    [] state[o].kind = "spilled"  -> ReadSpilled(o)
    [] OTHER ->
         IF d > MaxDepth THEN "error"
         ELSE IF pack[FrameOf(o)].kind = "base" THEN "right"
         ELSE next[BaseOid(FrameOf(o))]

\* A spilled object's bytes are found where its state says.
LEMMA SpilledReads ==
  ASSUME ReadInv, NEW o \in DOMAIN state, SpilledAt(o, state[o]), Size[o] \in Nat
  PROVE  ReadSpilled(o) = "right"
<1> DEFINE s == state[o]
           found == SubSeq(arena, s.offset + 1, s.offset + s.len)
<1>1. /\ arena \in Seq(Oid \cup {Foreign}) /\ s.offset \in Nat /\ s.len = Size[o]
      /\ s.offset + s.len <= Len(arena) /\ s.len \in Nat
      /\ \A i \in 1 .. s.len : arena[s.offset + i] = o
  BY DEF ReadInv, SpilledAt
<1> HIDE DEF s
<1>2. /\ s.offset + 1 \in 1 .. Len(arena) + 1 /\ s.offset + s.len \in s.offset .. Len(arena)
      /\ ((s.offset + s.len) - (s.offset + 1)) + 1 = s.len
      /\ Len(arena) \in Nat
  BY <1>1, LenProperties
<1>3. found = [i \in 1 .. s.len |-> arena[s.offset + i]]
  <2>1. /\ s.offset + 1 \in Int /\ s.offset + s.len \in Int /\ found \in Seq(Oid \cup {Foreign})
        /\ Len(found) = s.len /\ \A i \in 1 .. s.len : found[i] = arena[((s.offset + 1) + i) - 1]
    <3>1. PICK m, n, S : m = s.offset + 1 /\ n = s.offset + s.len /\ S = Oid \cup {Foreign}
      OBVIOUS
    <3>2. m \in Int /\ n \in Int /\ (n - m) + 1 = s.len /\ (m <= n \/ s.len = 0)
          /\ s.len \in Nat /\ m >= 1 /\ n <= Len(arena)
      <4>1. PICK a, b : a = s.offset /\ b = s.len
        OBVIOUS
      <4>2. a \in Nat /\ b \in Nat /\ m = a + 1 /\ n = a + b
        BY <1>1, <3>1, <4>1
      <4>3. m \in Int /\ n \in Int /\ (n - m) + 1 = b /\ (m <= n \/ b = 0) /\ m >= 1
        BY <4>2
      <4>4. n <= Len(arena)
        BY <1>1, <3>1
      <4> QED
        BY <4>1, <4>2, <4>3, <4>4
    <3>3. \A i \in m .. n : arena[i] \in S
      BY <1>1, <1>2, <3>1, <3>2
    <3>4. /\ SubSeq(arena, m, n) \in Seq(S)
          /\ Len(SubSeq(arena, m, n)) = IF m <= n THEN (n - m) + 1 ELSE 0
          /\ \A i \in 1 .. (n - m) + 1 : SubSeq(arena, m, n)[i] = arena[(m + i) - 1]
      BY <3>2, <3>3, SubSeqProperties
    <3> QED
      BY <3>1, <3>2, <3>4
  <2>2. \A i \in 1 .. s.len : ((s.offset + 1) + i) - 1 = s.offset + i
    BY <1>1
  <2>3. s.len \in Nat
    BY <1>1
  <2> HIDE DEF found
  <2>4. found = [i \in 1 .. s.len |-> found[i]]
    BY <2>1, <2>3
  <2> QED
    BY <2>1, <2>2, <2>4
<1>4. found = [i \in 1 .. Size[o] |-> o]
  <2> HIDE DEF found
  <2> QED
    BY <1>1, <1>3
<1>5. ~(s.offset + s.len > Len(arena))
  BY <1>1, <1>2
<1> QED
  BY <1>4, <1>5 DEF ReadSpilled, s

\* The step of the reading gives what is expected, if it does so one deeper.
LEMMA ReadValue ==
  ASSUME ResolverInv, ReadInv, ingest = "done", NEW o \in DOMAIN state,
         NEW d \in 0 .. MaxDepth + 1, NEW next,
         d <= MaxDepth => \A p \in DOMAIN state : next[p] = Expected(p, d + 1)
  PROVE  Value(o, d, next) = Expected(o, d)
<1> DEFINE c == MaxDepth + 1
<1>0. MaxDepth \in Nat /\ c - d \in 0 .. c /\ Size \in [Oid -> Nat]
  BY StatesAssumption
<1>1. /\ FrameOf(o) \in Frames /\ pack[FrameOf(o)].oid = o
      /\ pack[FrameOf(o)].kind # "base" => BaseOid(FrameOf(o)) \in DOMAIN state
  BY StatesAre
<1>2. Size[o] \in Nat
  <2>1. pack \in Packs
    BY DEF ResolverInv, Types
  <2>2. o \in Oid
    BY <1>1, <2>1, PackFacts
  <2> QED
    BY <1>0, <2>2
<1>3. Chain(o)[0] = {o}
  BY ChainFacts
<1>4. ASSUME state[o] # Reconstructable PROVE Deep(o, c - d) = FALSE
  <2>1. ~Rebuilt(o)
    BY <1>4 DEF Rebuilt
  <2>2. \A n \in 1 .. c : Chain(o)[n] = {}
    BY <2>1, ChainBelow
  <2>3. c - d = 0 \/ c - d \in 1 .. c
    BY <1>0
  <2> QED
    BY <1>3, <1>4, <2>2, <2>3 DEF Deep
<1>5. CASE state[o] = [kind |-> "resident", whole |-> TRUE]
  <2>1. state[o].kind = "resident" /\ state[o].whole = TRUE /\ state[o] # Reconstructable
    BY <1>5 DEF Reconstructable
  <2>2. Value(o, d, next) = "right"
    BY <2>1 DEF Value
  <2>3. Deep(o, c - d) = FALSE
    BY <1>4, <2>1
  <2>4. Expected(o, d) = Wanted(Deep(o, c - d))
    BY DEF Expected
  <2>5. Expected(o, d) = Wanted(FALSE)
    BY <2>3, <2>4
  <2> QED
    BY <2>5, <2>2, WantedIs
<1>6. CASE SpilledAt(o, state[o])
  <2>1. state[o].kind = "spilled" /\ state[o] # Reconstructable
    BY <1>6 DEF Reconstructable, SpilledAt
  <2>2. ReadSpilled(o) = "right"
    BY <1>2, <1>6, SpilledReads
  <2>3. Value(o, d, next) = "right"
    BY <2>1, <2>2 DEF Value
  <2> QED
    BY <1>4, <2>1, <2>3, WantedIs DEF Expected
<1>7. CASE state[o] = Reconstructable
  <2>1. state[o].kind # "resident" /\ state[o].kind # "spilled"
    BY <1>7 DEF Reconstructable
  <2>2. CASE d > MaxDepth
    <3>1. c - d = 0
      BY <1>0, <2>2
    <3>2. Deep(o, c - d) = TRUE
      BY <1>3, <1>7, <3>1 DEF Deep
    <3>3. Value(o, d, next) = "error"
      BY <2>1, <2>2 DEF Value
    <3> QED
      BY <3>2, <3>3, WantedIs DEF Expected
  <2>3. CASE ~(d > MaxDepth) /\ pack[FrameOf(o)].kind = "base"
    <3>1. Chain(o)[c - d] = {}
      <4>1. ~Rebuilt(o) /\ c - d \in 1 .. c
        BY <1>0, <2>3 DEF Rebuilt
      <4> QED
        BY <4>1, ChainBelow
    <3>2. Deep(o, c - d) = FALSE
      BY <3>1 DEF Deep
    <3>3. Value(o, d, next) = "right"
      BY <2>1, <2>3 DEF Value
    <3> QED
      BY <3>2, <3>3, WantedIs DEF Expected
  <2>4. CASE ~(d > MaxDepth) /\ pack[FrameOf(o)].kind # "base"
    <3> DEFINE b == BaseOid(FrameOf(o))
               m == MaxDepth - d
    <3>1. d <= MaxDepth /\ m \in 0 .. MaxDepth /\ m + 1 = c - d /\ m = c - (d + 1)
      BY <1>0, <2>4
    <3>2. Rebuilt(o) /\ b \in DOMAIN state
      BY <1>1, <1>7, <2>4 DEF Rebuilt
    <3>3. Chain(o)[m + 1] = Chain(b)[m]
      <4> HIDE DEF m
      <4> QED
        BY <3>1, <3>2, ChainBelow
    <3>4. Chain(o)[c - d] = Chain(b)[c - (d + 1)]
      <4> HIDE DEF m, b
      <4> QED
        BY <3>1, <3>3
    <3>5. Value(o, d, next) = next[b]
      BY <2>1, <2>4 DEF Value
    <3>6. next[b] = Expected(b, d + 1)
      BY <3>1, <3>2
    <3>7. Deep(o, c - d) = Deep(b, c - (d + 1))
      <4> HIDE DEF c, b
      <4> QED
        BY <3>4 DEF Deep
    <3> QED
      BY <3>5, <3>6, <3>7 DEF Expected
  <2> QED
    BY <2>2, <2>3, <2>4
<1> QED
  BY <1>5, <1>6, <1>7 DEF ReadInv, Readable

\* So an object is read as it should be: as what it is, or refused when it is too deep.
LEMMA ReadIs ==
  ASSUME ResolverInv, ReadInv, ingest = "done", NEW o \in DOMAIN state
  PROVE  Read(o) = IF TooDeep(o) THEN "error" ELSE "right"
<1> DEFINE c == MaxDepth + 1
           Unfolds(r) == r = [d \in 0 .. c |-> [p \in DOMAIN state |-> Value(p, d, r[d + 1])]]
<1>0. MaxDepth \in Nat /\ c \in Nat
  BY StatesAssumption
<1>1. ReadAt = CHOOSE r : Unfolds(r)
  BY DEF ReadAt, Value
<1>2. \E r : Unfolds(r)
  <2> DEFINE r == [d \in 0 .. c |-> [p \in DOMAIN state |-> Expected(p, d)]]
  <2>1. ASSUME NEW d \in 0 .. c, NEW p \in DOMAIN state
        PROVE  Value(p, d, r[d + 1]) = Expected(p, d)
    <3> DEFINE next == r[d + 1]
    <3>1. ASSUME d <= MaxDepth, NEW q \in DOMAIN state PROVE next[q] = Expected(q, d + 1)
      <4>1. d + 1 \in 0 .. c
        BY <1>0, <3>1
      <4> QED
        BY <3>1, <4>1
    <3> HIDE DEF next, r
    <3>2. Value(p, d, next) = Expected(p, d)
      BY <3>1, ReadValue
    <3> QED
      BY <3>2 DEF next
  <2>2. r = [d \in 0 .. c |-> [p \in DOMAIN state |-> Value(p, d, r[d + 1])]]
    <3> DEFINE v == [d \in 0 .. c |-> [p \in DOMAIN state |-> Value(p, d, r[d + 1])]]
    <3>1. ASSUME NEW d \in 0 .. c PROVE r[d] = v[d]
      <4>1. /\ r[d] = [p \in DOMAIN state |-> Expected(p, d)]
            /\ v[d] = [p \in DOMAIN state |-> Value(p, d, r[d + 1])]
        OBVIOUS
      <4> HIDE DEF r, v
      <4> QED
        BY <2>1, <4>1
    <3>2. DOMAIN r = 0 .. c /\ DOMAIN v = 0 .. c /\ r = [d \in DOMAIN r |-> r[d]]
          /\ v = [d \in DOMAIN v |-> v[d]]
      OBVIOUS
    <3>3. r = v
      <4> HIDE DEF r, v
      <4> QED
        BY <3>1, <3>2
    <3> QED
      BY <3>3
  <2> HIDE DEF r
  <2> QED
    BY <2>2
<1>3. Unfolds(ReadAt)
  <2> HIDE DEF Unfolds
  <2> QED
    BY <1>1, <1>2
<1>4. ASSUME NEW d \in 0 .. c, NEW p \in DOMAIN state
      PROVE  ReadAt[d][p] = Value(p, d, ReadAt[d + 1])
  <2>1. ReadAt[d] = [q \in DOMAIN state |-> Value(q, d, ReadAt[d + 1])]
    BY <1>3
  <2> QED
    BY <2>1
<1> DEFINE T == {k \in 0 .. c : \A p \in DOMAIN state : ReadAt[c - k][p] = Expected(p, c - k)}
<1>5. 0 \in T
  <2>1. ASSUME NEW p \in DOMAIN state PROVE ReadAt[c - 0][p] = Expected(p, c - 0)
    <3>1. c \in 0 .. c /\ ~(c <= MaxDepth) /\ c - 0 = c
      BY <1>0
    <3>2. Value(p, c, ReadAt[c + 1]) = Expected(p, c)
      BY <3>1, ReadValue
    <3>3. ReadAt[c][p] = Value(p, c, ReadAt[c + 1])
      BY <1>4, <3>1
    <3> QED
      BY <3>1, <3>2, <3>3
  <2> QED
    BY <1>0, <2>1
<1>6. ASSUME NEW k \in 0 .. c, k \in T, k < c PROVE k + 1 \in T
  <2> DEFINE d == c - (k + 1)
  <2>1. d \in 0 .. c /\ d + 1 = c - k /\ k + 1 \in 0 .. c
    BY <1>0, <1>6
  <2>2. \A p \in DOMAIN state : ReadAt[d + 1][p] = Expected(p, d + 1)
    <3> HIDE DEF d
    <3> QED
      BY <1>6, <2>1
  <2>3. ASSUME NEW p \in DOMAIN state PROVE ReadAt[d][p] = Expected(p, d)
    <3> HIDE DEF d
    <3>1. Value(p, d, ReadAt[d + 1]) = Expected(p, d)
      BY <2>1, <2>2, ReadValue
    <3> QED
      BY <1>4, <2>1, <3>1
  <2> QED
    BY <2>1, <2>3
<1>7. \A k \in 0 .. c : k \in T
  <2> HIDE DEF T, c
  <2> QED
    BY <1>0, <1>5, <1>6, UpTo
<1>8. ReadAt[0][o] = Expected(o, 0)
  <2>1. c \in 0 .. c /\ c - c = 0
    BY <1>0
  <2> QED
    BY <1>7, <2>1
<1>9. Expected(o, 0) = IF TooDeep(o) THEN "error" ELSE "right"
  <2>1. c - 0 = MaxDepth + 1
    BY <1>0
  <2> QED
    BY <2>1, DeepIs DEF Expected, Wanted
<1> QED
  BY <1>8, <1>9 DEF Read

\* As long as no other process appends between the two steps of a spill, every object of an
\* ingested pack is read as the object it is, from memory, from the spill file or from the
\* pack on top of the objects below it, but for those that are deeper than the limit, and
\* these are refused (PackIndex::read_object, stream_blob, read_spilled_object).
THEOREM ReadCorrect == ASSUME ~CutsIn PROVE IngestSpec => []ReadsBack
<1>1. ResolverInv /\ ReadInv => ReadsBack
  <2> SUFFICES ASSUME ResolverInv, ReadInv, ingest = "done", NEW f \in Frames
               PROVE  Read(pack[f].oid) = IF TooDeep(pack[f].oid) THEN "error" ELSE "right"
    BY DEF ReadsBack
  <2>1. /\ DOMAIN state \cup Oids(Ordered) = Oids(Frames) /\ order = <<>>
    BY DEF ReadInv
  <2>2. Oids(Ordered) = {}
    BY <2>1 DEF Ordered, Range, Oids
  <2>3. pack[f].oid \in DOMAIN state
    BY <2>1, <2>2 DEF Oids
  <2> QED
    BY <2>3, ReadIs
<1>2. ResolverInv /\ ResolverInv' /\ HintInv /\ KeepInv /\ ReadInv /\ [IngestNext]_ingestVars
        => ReadInv'
  BY ReadStep
<1> QED
  BY <1>1, <1>2, ReadInitial, IngestInvariant, PTL DEF IngestSpec
===============================================================================
