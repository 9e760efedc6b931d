--------------------------- MODULE TopoSortProofs ---------------------------
(***************************************************************************)
(* Kahn's algorithm is right for every finite set of tasks and every       *)
(* depends_on column: the layers respect the dependencies, and CycleError  *)
(* is raised exactly on the graphs with a cycle.                           *)
(***************************************************************************)
EXTENDS TopoSort, FiniteSetTheorems, TLAPS

-----------------------------------------------------------------------------
(* The positions of a list that hold keys of S are finitely many. *)
LEMMA OccurrencesFinite ==
  ASSUME depends_on \in [Task -> Seq(Key)], NEW t \in Task, NEW S
  PROVE  /\ IsFiniteSet(Occurrences(t, S))
         /\ Cardinality(Occurrences(t, S)) \in Nat
         /\ Cardinality(Occurrences(t, S)) = 0 <=> Occurrences(t, S) = {}
<1>1. depends_on[t] \in Seq(Key)
  OBVIOUS
<1>2. Len(depends_on[t]) \in Nat /\ DOMAIN depends_on[t] = 1 .. Len(depends_on[t])
  BY <1>1
<1>3. IsFiniteSet(1 .. Len(depends_on[t]))
  BY <1>2, FS_Interval
<1>4. Occurrences(t, S) \in SUBSET (1 .. Len(depends_on[t]))
  BY <1>2 DEF Occurrences
<1>5. IsFiniteSet(Occurrences(t, S))
  BY <1>3, <1>4, FS_Subset
<1> QED
  BY <1>5, FS_CardinalityType, FS_EmptySet

(* Counting the occurrences of two disjoint sets of keys is adding. *)
LEMMA OccurrencesSplit ==
  ASSUME depends_on \in [Task -> Seq(Key)], NEW t \in Task, NEW S, NEW F,
         F \subseteq S
  PROVE  Cardinality(Occurrences(t, S)) =
           Cardinality(Occurrences(t, F)) + Cardinality(Occurrences(t, S \ F))
<1>1. Occurrences(t, S) = Occurrences(t, F) \cup Occurrences(t, S \ F)
  BY DEF Occurrences
<1>2. Occurrences(t, F) \cap Occurrences(t, S \ F) = {}
  BY DEF Occurrences
<1>3. /\ IsFiniteSet(Occurrences(t, F)) /\ IsFiniteSet(Occurrences(t, S \ F))
      /\ Cardinality(Occurrences(t, F)) \in Nat
      /\ Cardinality(Occurrences(t, S \ F)) \in Nat
  BY OccurrencesFinite
<1>4. Cardinality({}) = 0
  BY FS_EmptySet
<1>5. Cardinality(Occurrences(t, F) \cup Occurrences(t, S \ F)) =
        Cardinality(Occurrences(t, F)) + Cardinality(Occurrences(t, S \ F))
          - Cardinality(Occurrences(t, F) \cap Occurrences(t, S \ F))
  BY <1>3, FS_Union, Zenon
<1>6. Cardinality(Occurrences(t, F) \cap Occurrences(t, S \ F)) = 0
  BY <1>2, <1>4, Zenon
<1>7. Cardinality(Occurrences(t, S)) =
        Cardinality(Occurrences(t, F) \cup Occurrences(t, S \ F))
  BY <1>1, Zenon
<1> QED
  BY <1>3, <1>5, <1>6, <1>7

(* No occurrence of a key of S: the task waits for nothing in S. *)
LEMMA OccurrencesEmpty ==
  ASSUME NEW t \in Task, NEW S
  PROVE  Occurrences(t, S) = {} <=> Upstream(t) \cap S = {}
BY DEF Occurrences, Upstream

(* Taking a layer places its tasks and moves no other. *)
LEMMA PlacedAppend ==
  ASSUME layers \in Seq(SUBSET Task), NEW F \in SUBSET Task,
         layers' = Append(layers, F)
  PROVE  /\ Placed' = Placed \cup F
         /\ Len(layers') = Len(layers) + 1
         /\ \A i \in 1 .. Len(layers) : layers'[i] = layers[i]
         /\ layers'[Len(layers) + 1] = F
         /\ DOMAIN layers = 1 .. Len(layers)
         /\ DOMAIN layers' = 1 .. (Len(layers) + 1)
<1>1. /\ Len(layers) \in Nat
      /\ Len(layers') = Len(layers) + 1
      /\ DOMAIN layers = 1 .. Len(layers)
      /\ DOMAIN layers' = 1 .. (Len(layers) + 1)
      /\ \A i \in 1 .. Len(layers) : layers'[i] = layers[i]
      /\ layers'[Len(layers) + 1] = F
  OBVIOUS
<1>2. DOMAIN layers' = DOMAIN layers \cup {Len(layers) + 1}
  BY <1>1
<1>3. Placed' = Placed \cup F
  BY <1>1, <1>2 DEF Placed
<1> QED
  BY <1>1, <1>3

LEMMA PlacedInTask ==
  ASSUME layers \in Seq(SUBSET Task)
  PROVE  /\ Placed \subseteq Task
         /\ \A F \in SUBSET Task : IsFiniteSet(F) /\ Cardinality(F) \in Nat
         /\ IsFiniteSet(Placed) /\ Cardinality(Placed) \in Nat
<1>1. Placed \subseteq Task
  BY DEF Placed
<1>2. \A F \in SUBSET Task : IsFiniteSet(F) /\ Cardinality(F) \in Nat
  BY TaskAssumption, FS_Subset, FS_CardinalityType
<1> QED
  BY <1>1, <1>2
(* What only reads the column and the layers keeps its value with them. *)
LEMMA GraphFrame ==
  ASSUME depends_on' = depends_on, layers' = layers
  PROVE  /\ Placed' = Placed
         /\ HasUnknownKey' <=> HasUnknownKey
         /\ Cyclic' <=> Cyclic
         /\ LayersOrdered' <=> LayersOrdered
         /\ LayersDisjoint' <=> LayersDisjoint
         /\ LayersEarliest' <=> LayersEarliest
         /\ StrandedOutside' <=> StrandedOutside
         /\ \A t, S : Occurrences(t, S)' = Occurrences(t', S')
         /\ \A t : Upstream(t)' = Upstream(t')
<1>1. Placed' = Placed
  BY DEF Placed
<1>2. HasUnknownKey' <=> HasUnknownKey
  BY DEF HasUnknownKey, Upstream
<1>3. Cyclic' <=> Cyclic
  BY DEF Cyclic, Deadlocked, Upstream
<1>4. LayersOrdered' <=> LayersOrdered
  BY DEF LayersOrdered, Upstream
<1>5. LayersDisjoint' <=> LayersDisjoint
  BY DEF LayersDisjoint
<1>5a. LayersEarliest' <=> LayersEarliest
  BY DEF LayersEarliest, Upstream
<1>6. StrandedOutside' <=> StrandedOutside
  BY <1>1 DEF StrandedOutside, Deadlocked, Upstream
<1>7. \A t, S : Occurrences(t, S)' = Occurrences(t', S')
  BY DEF Occurrences
<1>8. \A t : Upstream(t)' = Upstream(t')
  BY DEF Upstream
<1> QED
  BY <1>1, <1>2, <1>3, <1>4, <1>5, <1>5a, <1>6, <1>7, <1>8
-----------------------------------------------------------------------------
LEMMA TopoInitInv == TopoInit => TopoInv
<1> SUFFICES ASSUME TopoInit PROVE TopoInv
  OBVIOUS
<1>1. TopoTypeOK
  BY GraphsAssumption DEF TopoInit, TopoTypeOK
<1>2. Placed = {}
  BY DEF TopoInit, Placed
<1>3. SeenCounts
  BY <1>2, FS_EmptySet DEF TopoInit, SeenCounts
<1> QED
  BY <1>1, <1>2, <1>3
  DEF TopoInit, TopoInv, StartIsEmpty, KeysKnown, CountersAgree, LayersOrdered,
      LayersDisjoint, FrontierFresh, LayersEarliest, StrandedOutside, VerdictRight

LEMMA TopoTakeLayerInv == TopoInv /\ TakeLayer => TopoInv'
<1> SUFFICES ASSUME TopoInv, TakeLayer PROVE TopoInv'
  OBVIOUS
<1> DEFINE Rest == Task \ Placed
<1>1. TopoTypeOK /\ phase = "layering" /\ frontier # {} /\ phase' = "layering"
      /\ depends_on' = depends_on
  BY DEF TopoInv, TakeLayer, CountedDown, NextFrontier, topoVars
<1>2. /\ layers \in Seq(SUBSET Task) /\ frontier \in SUBSET Task
      /\ layers' = Append(layers, frontier)
      /\ depends_on \in [Task -> Seq(Key)]
  BY <1>1 DEF TopoTypeOK, TakeLayer, CountedDown, NextFrontier
<1>3. /\ Placed' = Placed \cup frontier
      /\ Len(layers') = Len(layers) + 1
      /\ \A i \in 1 .. Len(layers) : layers'[i] = layers[i]
      /\ layers'[Len(layers) + 1] = frontier
      /\ DOMAIN layers = 1 .. Len(layers)
      /\ DOMAIN layers' = 1 .. (Len(layers) + 1)
      /\ Len(layers) \in Nat
  BY <1>2, PlacedAppend
<1>4. /\ \A t \in Task : remaining_indegree[t] = Cardinality(Occurrences(t, Rest))
      /\ frontier = {t \in Rest : Upstream(t) \subseteq Placed}
  BY <1>1 DEF TopoInv, CountersAgree
<1>5. frontier \subseteq Rest /\ Rest \ frontier = Task \ Placed'
  BY <1>3, <1>4
<1>6. \A t \in Task : Upstream(t) \subseteq Task /\ Upstream(t)' = Upstream(t)
  BY <1>1 DEF TopoInv, KeysKnown, HasUnknownKey, Upstream
<1>6a. \A t : Upstream(t)' = Upstream(t')
  BY <1>1 DEF Upstream
<1>7. ASSUME NEW t \in Task
      PROVE  /\ remaining_indegree'[t] = Cardinality(Occurrences(t, Task \ Placed'))
             /\ remaining_indegree'[t] \in Nat
             /\ t \in frontier' <=> /\ Occurrences(t, Rest) # {}
                                   /\ Occurrences(t, Task \ Placed') = {}
  <2>1. Cardinality(Occurrences(t, Rest)) =
          Cardinality(Occurrences(t, frontier))
            + Cardinality(Occurrences(t, Task \ Placed'))
    <3>1. Cardinality(Occurrences(t, Rest)) =
            Cardinality(Occurrences(t, frontier))
              + Cardinality(Occurrences(t, Rest \ frontier))
      <4>1. frontier \subseteq Rest /\ depends_on \in [Task -> Seq(Key)]
        BY <1>2, <1>5
      <4> HIDE DEF Rest
      <4> QED
        BY <4>1, OccurrencesSplit
    <3> QED
      BY <3>1, <1>5, Zenon
  <2>2. /\ Cardinality(Occurrences(t, frontier)) \in Nat
        /\ Cardinality(Occurrences(t, Task \ Placed')) \in Nat
        /\ Cardinality(Occurrences(t, Rest)) \in Nat
    BY <1>2, OccurrencesFinite
  <2>3. /\ Cardinality(Occurrences(t, Rest)) = 0 <=> Occurrences(t, Rest) = {}
        /\ Cardinality(Occurrences(t, Task \ Placed')) = 0
             <=> Occurrences(t, Task \ Placed') = {}
    BY <1>2, OccurrencesFinite
  <2>4. remaining_indegree'[t] =
          remaining_indegree[t] - Cardinality(Occurrences(t, frontier))
    BY DEF TakeLayer, CountedDown, NextFrontier
  <2>5. remaining_indegree'[t] = Cardinality(Occurrences(t, Task \ Placed'))
    <3>1. remaining_indegree[t] = Cardinality(Occurrences(t, Rest))
      BY <1>4
    <3> HIDE DEF Rest
    <3> QED
      BY <2>1, <2>2, <2>4, <3>1
  <2>6. t \in frontier' <=>
          remaining_indegree[t] \in 1 .. Cardinality(Occurrences(t, frontier))
    BY DEF TakeLayer, CountedDown, NextFrontier
  <2>7. remaining_indegree[t] = Cardinality(Occurrences(t, Rest))
    BY <1>4
  <2> HIDE DEF Rest
  <2>8. t \in frontier' <=> /\ Cardinality(Occurrences(t, Rest)) # 0
                           /\ Cardinality(Occurrences(t, Task \ Placed')) = 0
    BY <2>1, <2>2, <2>6, <2>7
  <2> QED
    BY <2>2, <2>3, <2>5, <2>8
<1>8. TopoTypeOK'
  <2>1. remaining_indegree' \in [Task -> Nat]
    BY <1>7 DEF TakeLayer, CountedDown, NextFrontier
  <2>2. frontier' \in SUBSET Task
    BY DEF TakeLayer, CountedDown, NextFrontier
  <2>3. Cardinality(frontier) \in Nat
    BY <1>2, PlacedInTask
  <2>4. seen' \in Nat
    BY <1>1, <2>3 DEF TakeLayer, CountedDown, NextFrontier, TopoTypeOK
  <2> QED
    BY <1>1, <1>2, <2>1, <2>2, <2>4 DEF TopoTypeOK
<1>9. CountersAgree'
  <2>1. ASSUME NEW t \in Task
        PROVE  t \in frontier' <=> t \in Task \ Placed' /\ Upstream(t) \subseteq Placed'
    <3>1. Occurrences(t, Rest) = {} <=> Upstream(t) \subseteq Placed
      BY <1>6, OccurrencesEmpty
    <3>2. Occurrences(t, Task \ Placed') = {} <=> Upstream(t) \subseteq Placed'
      BY <1>6, OccurrencesEmpty
    <3>3. t \in Placed => Upstream(t) \subseteq Placed
      BY <1>3 DEF TopoInv, LayersOrdered, Placed
    <3> QED
      BY <1>3, <1>4, <1>7, <3>1, <3>2, <3>3
  <2>2. frontier' = {t \in Task \ Placed' : Upstream(t) \subseteq Placed'}
    BY <2>1, <1>8 DEF TopoTypeOK
  <2> QED
    BY <2>2, <1>7, <1>6, <1>1 DEF CountersAgree, Occurrences
<1>10. LayersOrdered'
  <2> SUFFICES ASSUME NEW i \in 1 .. (Len(layers) + 1), NEW t \in layers'[i]
               PROVE  Upstream(t) \subseteq UNION {layers'[j] : j \in 1 .. (i - 1)}
    BY <1>3, <1>6a DEF LayersOrdered
  <2>1. CASE i \in 1 .. Len(layers)
    <3>1. Upstream(t) \subseteq UNION {layers[j] : j \in 1 .. (i - 1)}
      BY <2>1, <1>3 DEF TopoInv, LayersOrdered
    <3>2. \A j \in 1 .. (i - 1) : layers'[j] = layers[j]
      BY <2>1, <1>3
    <3> QED
      BY <3>1, <3>2
  <2>2. CASE i = Len(layers) + 1
    <3>1. Upstream(t) \subseteq Placed
      BY <2>2, <1>3, <1>4
    <3>2. i - 1 = Len(layers)
      BY <2>2, <1>3
    <3> QED
      BY <3>1, <3>2, <1>3 DEF Placed
  <2> QED
    BY <2>1, <2>2, <1>3
<1>11. LayersDisjoint'
  <2>1. \A i \in 1 .. Len(layers) : layers[i] \cap frontier = {}
    BY <1>3, <1>5 DEF Placed
  <2> SUFFICES ASSUME NEW i \in 1 .. (Len(layers) + 1),
                      NEW j \in 1 .. (Len(layers) + 1), i # j
               PROVE  layers'[i] \cap layers'[j] = {}
    BY <1>3 DEF LayersDisjoint
  <2>2. CASE i \in 1 .. Len(layers) /\ j \in 1 .. Len(layers)
    BY <2>2, <1>3 DEF TopoInv, LayersDisjoint
  <2>3. CASE i = Len(layers) + 1 \/ j = Len(layers) + 1
    BY <2>1, <2>3, <1>3
  <2> QED
    BY <2>2, <2>3, <1>3
<1>11a. FrontierFresh'
  <2> SUFFICES ASSUME NEW t \in frontier' PROVE Upstream(t) \cap frontier # {}
    BY <1>3, <1>6a DEF FrontierFresh
  <2>1. t \in Task
    BY <1>8 DEF TopoTypeOK
  <2>2. Upstream(t) \cap Rest # {} /\ Upstream(t) \cap (Task \ Placed') = {}
    BY <1>7, <2>1, OccurrencesEmpty
  <2> QED
    BY <2>2, <1>5
<1>11b. LayersEarliest'
  <2> SUFFICES ASSUME NEW i \in 1 .. (Len(layers) + 1), i > 1, NEW t \in layers'[i]
               PROVE  Upstream(t) \cap layers'[i - 1] # {}
    BY <1>3, <1>6a DEF LayersEarliest
  <2>1. CASE i \in 1 .. Len(layers)
    <3>1. layers'[i] = layers[i] /\ layers'[i - 1] = layers[i - 1]
      BY <2>1, <1>3
    <3> QED
      BY <3>1, <2>1, <1>3 DEF TopoInv, LayersEarliest
  <2>2. CASE i = Len(layers) + 1
    <3>1. layers # <<>> /\ layers'[i - 1] = layers[Len(layers)] /\ t \in frontier
      BY <2>2, <1>3
    <3> QED
      BY <3>1 DEF TopoInv, FrontierFresh
  <2> QED
    BY <2>1, <2>2, <1>3
<1>12. SeenCounts'
  <2>1. /\ IsFiniteSet(Placed) /\ IsFiniteSet(frontier)
        /\ Cardinality(Placed) \in Nat /\ Cardinality(frontier) \in Nat
    BY <1>2, PlacedInTask
  <2>2. Placed \cap frontier = {} /\ Cardinality({}) = 0
    BY <1>5, FS_EmptySet
  <2>3. Cardinality(Placed \cup frontier) =
          Cardinality(Placed) + Cardinality(frontier) - Cardinality(Placed \cap frontier)
    BY <2>1, FS_Union, Zenon
  <2>4. Cardinality(Placed \cup frontier) = seen'
    <3>1. Cardinality(Placed \cap frontier) = 0
      BY <2>2, Zenon
    <3> QED
      BY <2>1, <2>3, <3>1 DEF SeenCounts, TopoInv, TakeLayer, CountedDown, NextFrontier
  <2> QED
    BY <2>4, <1>3, Zenon DEF SeenCounts
<1>13. StrandedOutside'
  <2> SUFFICES ASSUME NEW S \in SUBSET Task, Deadlocked(S)
               PROVE  S \cap (Placed \cup frontier) = {}
    BY <1>3, <1>6a DEF StrandedOutside, Deadlocked
  <2>1. S \cap Placed = {}
    BY DEF TopoInv, StrandedOutside
  <2> QED
    BY <2>1, <1>4 DEF Deadlocked
<1>14. StartIsEmpty' /\ KeysKnown' /\ VerdictRight'
  BY <1>1 DEF StartIsEmpty, KeysKnown, VerdictRight, TopoInv, HasUnknownKey, Upstream
<1> QED
  BY <1>8, <1>9, <1>10, <1>11, <1>11a, <1>11b, <1>12, <1>13, <1>14 DEF TopoInv

LEMMA TopoStepInv == TopoInv /\ [TopoNext]_topoVars => TopoInv'
<1> SUFFICES ASSUME TopoInv, [TopoNext]_topoVars PROVE TopoInv'
  OBVIOUS
<1>1. CASE RejectUnknownKey
  <2>1. /\ UNCHANGED <<depends_on, remaining_indegree, frontier, layers, seen>>
        /\ phase' = "ValueError" /\ HasUnknownKey
    BY <1>1 DEF RejectUnknownKey
  <2> QED
    BY <2>1, GraphFrame
    DEF TopoInv, TopoTypeOK, TopoOutcome, StartIsEmpty, KeysKnown, CountersAgree,
        SeenCounts, FrontierFresh, VerdictRight
<1>2. CASE BuildIndegrees
  <2>1. /\ depends_on' = depends_on /\ layers' = layers /\ seen' = seen
        /\ phase = "start" /\ phase' = "layering" /\ ~HasUnknownKey
        /\ layers = <<>> /\ Placed = {} /\ Placed' = {}
        /\ depends_on \in [Task -> Seq(Key)]
    BY <1>2 DEF BuildIndegrees, Indegrees, TopoInv, StartIsEmpty, Placed, TopoTypeOK
  <2>2. ASSUME NEW t \in Task
        PROVE  /\ Len(depends_on[t]) \in Nat
               /\ Len(depends_on[t]) = Cardinality(Occurrences(t, Task))
               /\ Len(depends_on[t]) = 0 <=> Upstream(t) \subseteq {}
    <3>1. depends_on[t] \in Seq(Key)
      BY <2>1
    <3>2. /\ Len(depends_on[t]) \in Nat
          /\ DOMAIN depends_on[t] = 1 .. Len(depends_on[t])
      BY <3>1
    <3>3. Occurrences(t, Task) = 1 .. Len(depends_on[t])
      BY <2>1, <3>2 DEF Occurrences, HasUnknownKey, Upstream
    <3>4. Cardinality(1 .. Len(depends_on[t])) = Len(depends_on[t])
      BY <3>2, FS_Interval
    <3>5. Len(depends_on[t]) = 0 <=> Upstream(t) \subseteq {}
      <4>1. 1 .. Len(depends_on[t]) = {} <=> Len(depends_on[t]) = 0
        BY <3>2
      <4>2. Upstream(t) = {} <=> 1 .. Len(depends_on[t]) = {}
        BY <3>2 DEF Upstream
      <4> QED
        BY <4>1, <4>2
    <3> QED
      BY <3>2, <3>3, <3>4, <3>5
  <2>3. /\ remaining_indegree' = [t \in Task |-> Len(depends_on[t])]
        /\ frontier' = {t \in Task : Len(depends_on[t]) = 0}
    BY <1>2 DEF BuildIndegrees, Indegrees
  <2>4. TopoTypeOK'
    BY <2>1, <2>2, <2>3 DEF TopoTypeOK, TopoInv, TopoOutcome
  <2>5. CountersAgree'
    <3>1. Task \ {} = Task
      OBVIOUS
    <3>2. \A t \in Task : Occurrences(t, Task)' = Occurrences(t, Task)
      BY <2>1 DEF Occurrences
    <3>3. \A t \in Task : remaining_indegree'[t] = Cardinality(Occurrences(t, Task)')
      BY <2>2, <2>3, <3>2
    <3>4. frontier' = {t \in Task : Upstream(t)' \subseteq {}}
      <4>1. \A t \in Task : Upstream(t)' = Upstream(t)
        BY <2>1, GraphFrame
      <4> QED
        BY <4>1, <2>2, <2>3
    <3> QED
      BY <2>1, <3>1, <3>3, <3>4 DEF CountersAgree
  <2> QED
    BY <2>1, <2>4, <2>5
    DEF TopoInv, StartIsEmpty, KeysKnown, LayersOrdered, LayersDisjoint, FrontierFresh,
        LayersEarliest, SeenCounts,
        StrandedOutside, VerdictRight, Placed, Deadlocked, Upstream, HasUnknownKey
<1>3. CASE TakeLayer
  BY <1>3, TopoTakeLayerInv
<1>4. CASE LeaveLoop
  <2>1. /\ UNCHANGED <<depends_on, remaining_indegree, frontier, layers, seen>>
        /\ phase = "layering" /\ frontier = {} /\ ~HasUnknownKey
        /\ phase' = IF seen # Cardinality(Task) THEN "CycleError" ELSE "layered"
    BY <1>4 DEF LeaveLoop, TopoInv, KeysKnown
  <2>2. Placed \subseteq Task /\ seen = Cardinality(Placed)
    BY PlacedInTask DEF TopoInv, TopoTypeOK, SeenCounts
  <2>3. CASE Placed = Task
    <3>1. phase' = "layered"
      BY <2>1, <2>2, <2>3
    <3>2. ~Cyclic
      BY <2>3 DEF TopoInv, StrandedOutside, Cyclic, Deadlocked
    <3> QED
      BY <2>1, <2>3, <3>1, <3>2, GraphFrame
      DEF TopoInv, TopoTypeOK, TopoOutcome, StartIsEmpty, KeysKnown, CountersAgree,
          SeenCounts, FrontierFresh, VerdictRight
  <2>4. CASE Placed # Task
    <3>1. seen # Cardinality(Task)
      BY <2>2, <2>4, TaskAssumption, FS_Subset
    <3>2. Deadlocked(Task \ Placed)
      <4>1. \A t \in Task \ Placed : ~(Upstream(t) \subseteq Placed)
        BY <2>1 DEF TopoInv, CountersAgree
      <4>2. \A t \in Task : Upstream(t) \subseteq Task
        BY <2>1 DEF HasUnknownKey
      <4> QED
        BY <2>2, <2>4, <4>1, <4>2 DEF Deadlocked
    <3>3. Cyclic
      BY <3>2 DEF Cyclic
    <3> QED
      BY <2>1, <3>1, <3>3, GraphFrame
      DEF TopoInv, TopoTypeOK, TopoOutcome, StartIsEmpty, KeysKnown, CountersAgree,
          SeenCounts, FrontierFresh, VerdictRight
  <2> QED
    BY <2>3, <2>4
<1>5. CASE UNCHANGED topoVars
  <2>1. UNCHANGED <<depends_on, phase, remaining_indegree, frontier, layers, seen>>
    BY <1>5 DEF topoVars
  <2>2. CountersAgree' <=> CountersAgree
    BY <2>1 DEF CountersAgree, Placed, Upstream, Occurrences
  <2> QED
    BY <2>1, <2>2, GraphFrame
    DEF TopoInv, TopoTypeOK, StartIsEmpty, KeysKnown, FrontierFresh, SeenCounts, VerdictRight
<1> QED
  BY <1>1, <1>2, <1>3, <1>4, <1>5 DEF TopoNext
-----------------------------------------------------------------------------
(* Every reachable state of topological_layers satisfies the invariant. *)
THEOREM TopoSafety == TopoSpec => []TopoInv
<1>1. TopoInv /\ [TopoNext \/ TopoDone]_topoVars => TopoInv'
  BY TopoStepInv DEF TopoDone
<1> QED
  BY TopoInitInv, <1>1, PTL DEF TopoSpec

(* Type correctness for any tasks, keys and columns. *)
THEOREM TopoTypeCorrect == TopoSpec => []TopoTypeOK
<1>1. TopoInv => TopoTypeOK
  BY DEF TopoInv
<1> QED
  BY TopoSafety, <1>1, PTL

(* Layers respect the dependencies (executor.py lines 111-112 rely on it). *)
THEOREM LayersAreOrdered == TopoSpec => []LayersOrdered
<1>1. TopoInv => LayersOrdered
  BY DEF TopoInv
<1> QED
  BY TopoSafety, <1>1, PTL

(* No task is put off: past the first layer, each waits for a task of the layer
   before its own (executor.py lines 50-61). *)
THEOREM LayersAreEarliest == TopoSpec => []LayersEarliest
<1>1. TopoInv => LayersEarliest
  BY DEF TopoInv
<1> QED
  BY TopoSafety, <1>1, PTL

(* CycleError is raised exactly on cyclic graphs (executor.py lines 63-65). *)
THEOREM CycleErrorExact == TopoSpec => []VerdictRight
<1>1. TopoInv => VerdictRight
  BY DEF TopoInv
<1> QED
  BY TopoSafety, <1>1, PTL
-----------------------------------------------------------------------------
(* Each iteration is one step of the promise, and the others none. *)
LEMMA TopoOrderingStep ==
  TopoInv /\ TopoInv' /\ [TopoNext]_topoVars => [TopoOrdering!Next]_(TopoOrdering!vars)
<1> SUFFICES ASSUME TopoInv, TopoInv', [TopoNext]_topoVars
             PROVE  [TopoOrdering!Next]_(TopoOrdering!vars)
  OBVIOUS
<1> DEFINE Waits == [t \in Task |-> Upstream(t)]
<1>1. TopoOrdering!Placed = Placed
  BY DEF TopoOrdering!Placed, Placed
<1>2. depends_on' = depends_on => Waits' = Waits
  BY DEF Upstream
<1>3. CASE RejectUnknownKey
  <2>1. \E t \in Task : Waits[t] \ Task # {}
    BY <1>3 DEF RejectUnknownKey, HasUnknownKey
  <2>2. TopoOrdering!RefuseUnknown
    BY <1>2, <1>3, <2>1 DEF RejectUnknownKey, TopoOrdering!RefuseUnknown
  <2> QED
    BY <2>2 DEF TopoOrdering!Next
<1>4. CASE BuildIndegrees
  BY <1>2, <1>4 DEF BuildIndegrees, TopoOrdering!vars
<1>5. CASE TakeLayer
  <2>1. /\ phase = "layering" /\ phase' = "layering" /\ depends_on' = depends_on
        /\ frontier # {} /\ layers' = Append(layers, frontier)
        /\ frontier \in SUBSET Task
    BY <1>5 DEF TakeLayer, TopoInv, TopoTypeOK
  <2>2. frontier = {t \in Task \ Placed : Upstream(t) \subseteq Placed}
    BY <2>1 DEF TopoInv, CountersAgree
  <2>3. frontier \cap Placed = {} /\ \A t \in frontier : Waits[t] \subseteq Placed
    BY <2>1, <2>2
  <2>4. TopoOrdering!Place(frontier)
    BY <1>1, <1>2, <2>1, <2>3 DEF TopoOrdering!Place
  <2> QED
    BY <2>1, <2>4 DEF TopoOrdering!Next
<1>6. CASE LeaveLoop
  <2>1. /\ phase = "layering" /\ phase' \in {"CycleError", "layered"}
        /\ depends_on' = depends_on /\ layers' = layers
    BY <1>6 DEF LeaveLoop
  <2>2. CASE phase' = "layered"
    <3>1. Placed' = Task /\ Placed' = Placed
      BY <2>1, <2>2, GraphFrame DEF TopoInv, VerdictRight
    <3>2. TopoOrdering!Finish
      BY <1>1, <1>2, <2>1, <2>2, <3>1 DEF TopoOrdering!Finish
    <3> QED
      BY <3>2 DEF TopoOrdering!Next
  <2>3. CASE phase' = "CycleError"
    <3>1. Cyclic
      BY <2>1, <2>3, GraphFrame DEF TopoInv, VerdictRight
    <3>2. \E S \in SUBSET Task : TopoOrdering!Circular(S, Waits)
      BY <3>1 DEF Cyclic, Deadlocked, TopoOrdering!Circular
    <3>3. TopoOrdering!RefuseCircle
      BY <1>2, <2>1, <2>3, <3>2 DEF TopoOrdering!RefuseCircle
    <3> QED
      BY <3>3 DEF TopoOrdering!Next
  <2> QED
    BY <2>1, <2>2, <2>3
<1>7. CASE UNCHANGED topoVars
  BY <1>2, <1>7 DEF topoVars, TopoOrdering!vars
<1> QED
  BY <1>3, <1>4, <1>5, <1>6, <1>7 DEF TopoNext

(* Layer planning keeps the promise of DependencyOrder, for any tasks and columns:
   what a layer waits for is placed before, and a refusal has its reason. *)
THEOREM LayersImplementOrdering == TopoSpec => ImplementsOrdering
<1>1. TopoInit => TopoOrdering!Init
  <2> SUFFICES ASSUME TopoInit PROVE TopoOrdering!Init
    OBVIOUS
  <2>1. depends_on \in [Task -> Seq(Key)]
    BY GraphsAssumption DEF TopoInit
  <2>2. \A t \in Task : Upstream(t) \in SUBSET Key
    BY <2>1 DEF Upstream
  <2> QED
    BY <2>2 DEF TopoInit, TopoOrdering!Init
<1>2. TopoInv /\ TopoInv' /\ [TopoNext \/ TopoDone]_topoVars =>
        [TopoOrdering!Next]_(TopoOrdering!vars)
  BY TopoOrderingStep DEF TopoDone
<1> QED
  BY <1>1, <1>2, TopoSafety, PTL DEF TopoSpec, ImplementsOrdering, TopoOrdering!Spec
=============================================================================
