--------------------------- MODULE ExecutorProofs ---------------------------
(***************************************************************************)
(* The invariant of ExecutorInv holds in every behaviour of Executor, for  *)
(* every finite workflow, any retries, conditions and faults; Executor     *)
(* implements WorkflowRun.                                                 *)
(***************************************************************************)
EXTENDS ExecutorInv, TopoSortProofs

LEMMA MaxAttemptsPositive == \A t \in Task : MaxAttempts(t) \in Nat \ {0}
BY RetriesAssumption DEF MaxAttempts

(* What reads the plan only keeps its value while the plan stands. *)
LEMMA PlanFrame ==
  ASSUME UNCHANGED topoVars
  PROVE  /\ \A t : Upstream(t)' = Upstream(t)
         /\ Cyclic' <=> Cyclic
         /\ layer_no' = layer_no => Before' = Before
<1>1. depends_on' = depends_on /\ layers' = layers
  BY DEF topoVars
<1>2. layer_no' = layer_no => Before' = Before
  BY <1>1 DEF Before
<1> QED
  BY <1>1, <1>2, GraphFrame

LEMMA TopoFrame == TopoInv /\ UNCHANGED topoVars => TopoInv'
BY TopoStepInv

(* Past the check for unknown keys, tasks wait for tasks. *)
LEMMA UpstreamInTask ==
  ASSUME TopoInv, phase = "layered", NEW t \in Task
  PROVE  Upstream(t) \subseteq Task
BY DEF TopoInv, KeysKnown, HasUnknownKey

(* The tasks of the layer at hand are new, and wait for earlier layers only. *)
LEMMA CurrentLayer ==
  ASSUME TopoInv, layer_no \in Nat \ {0}, layer_no <= Len(layers)
  PROVE  /\ layers[layer_no] \subseteq Task
         /\ layers[layer_no] \cap Before = {}
         /\ \A t \in layers[layer_no] : Upstream(t) \subseteq Before
         /\ Before \subseteq Task
<1>1. layers \in Seq(SUBSET Task)
  BY DEF TopoInv, TopoTypeOK
<1>2. DOMAIN layers = 1 .. Len(layers) /\ Len(layers) \in Nat
  BY <1>1
<1>3. layer_no \in 1 .. Len(layers) /\ 1 .. (layer_no - 1) \subseteq 1 .. Len(layers)
  BY <1>2
<1>4. \A i \in 1 .. Len(layers) : layers[i] \subseteq Task
  BY <1>1
<1>5. \A i \in 1 .. (layer_no - 1) : layers[i] \cap layers[layer_no] = {}
  BY <1>2, <1>3 DEF TopoInv, LayersDisjoint
<1>6. \A t \in layers[layer_no] : Upstream(t) \subseteq Before
  BY <1>2, <1>3 DEF TopoInv, LayersOrdered, Before
<1> QED
  BY <1>3, <1>4, <1>5, <1>6 DEF Before

(* Moving on adds the layer at hand to those left behind. *)
LEMMA BeforeNext ==
  ASSUME UNCHANGED topoVars, layer_no \in Nat \ {0}, layer_no' = layer_no + 1
  PROVE  Before' = Before \cup layers[layer_no]
<1>1. layers' = layers
  BY DEF topoVars
<1>2. 1 .. (layer_no' - 1) = (1 .. (layer_no - 1)) \cup {layer_no}
  OBVIOUS
<1> QED
  BY <1>1, <1>2 DEF Before
-----------------------------------------------------------------------------
LEMMA BlockLayerInv == IInv /\ BlockLayer => IInv'
<1> SUFFICES ASSUME IInv, BlockLayer PROVE IInv'
  OBVIOUS
<1> DEFINE layer == layers[layer_no]
           clear == {t \in layer : Upstream(t) \cap blocking_keys = {}}
           doomed == {t \in layer : Upstream(t) \cap failed_keys # {}}
<1>1. TypeOK /\ TopoInv /\ main = "layer" /\ layer_no \in Nat \ {0} /\ layer_no <= Len(layers)
  BY DEF IInv, BlockLayer, Clear, Doomed, TypeOK
<1>2. /\ runnable' = clear
      /\ task_status' = [t \in Task |->
           IF t \in layer \ clear
             THEN IF t \in doomed THEN "upstream_failed" ELSE "skipped"
             ELSE task_status[t]]
      /\ failed_keys' = failed_keys \cup (doomed \ clear)
      /\ blocking_keys' = blocking_keys \cup (layer \ clear)
      /\ clear = {} => main' = "layer" /\ layer_no' = layer_no + 1
      /\ clear # {} => main' = "resolve" /\ layer_no' = layer_no
      /\ UNCHANGED <<topoVars, run_status, task_attempt, usage, worldVars, workerVars>>
  BY DEF BlockLayer, Clear, Doomed
<1>3. /\ layer \subseteq Task /\ layer \cap Before = {} /\ Before \subseteq Task
      /\ \A t \in layer : Upstream(t) \subseteq Before
  BY <1>1, CurrentLayer
<1>4. \A t \in Task : task_status[t] \in (IF t \in Before THEN Settled ELSE {"pending"})
  BY <1>1 DEF IInv, LoopInv, Looping, Decided
<1>5. /\ \A t : Upstream(t)' = Upstream(t)
      /\ Cyclic' <=> Cyclic
      /\ layers' = layers
      /\ Before' = IF clear = {} THEN Before \cup layer ELSE Before
  BY <1>1, <1>2, PlanFrame, BeforeNext DEF topoVars
<1>6. /\ failed_keys = {t \in Task : task_status[t] \in Bad}
      /\ blocking_keys = {t \in Task : task_status[t] \in Bad \cup {"skipped"}}
  BY <1>1 DEF IInv, MemoryMatchesRows
<1>7. phase = "layered" /\ phase' = "layered"
  BY <1>1, <1>2 DEF IInv, LoopInv, Looping, topoVars
<1> HIDE DEF layer, clear, doomed
<1>8. clear \subseteq layer /\ doomed \subseteq layer /\ doomed \cap clear = {}
  BY <1>6 DEF clear, doomed
<1>9. \A t \in clear : \A d \in Upstream(t) : task_status[d] = "success"
  BY <1>3, <1>4, <1>6 DEF clear, Settled, Bad
<1>10. TypeOK'
  <2>1. TopoTypeOK'
    BY <1>1, <1>2, TopoFrame DEF TopoInv
  <2>2. task_status' \in [Task -> TaskStatus]
    BY <1>1, <1>2 DEF TypeOK, TaskStatus
  <2> QED
    BY <2>1, <2>2, <1>1, <1>2, <1>3, <1>8 DEF TypeOK, worldVars, workerVars
<1>11. LoopInv'
  <2>1. main' \in {"layer", "resolve"}
    BY <1>2
  <2>2. ASSUME NEW t \in Task
        PROVE  task_status'[t] \in (IF t \in Decided' THEN Settled ELSE {"pending"})
    <3>1. CASE clear = {}
      <4>1. Decided' = Before \cup layer
        BY <3>1, <1>2, <1>5 DEF Decided
      <4> QED
        BY <4>1, <3>1, <1>2, <1>3, <1>4 DEF Settled
    <3>2. CASE clear # {}
      <4>1. worker[t] = "collected" => t \in Before
        BY <1>1 DEF IInv, WorkerInv
      <4>2. t \in Decided' <=> t \in Before \/ t \in layer \ clear
        BY <3>2, <4>1, <1>2, <1>5, <1>3 DEF Decided, workerVars, layer
      <4> QED
        BY <4>2, <3>2, <1>2, <1>3, <1>4 DEF Settled
    <3> QED
      BY <3>1, <3>2
  <2>3. main' = "resolve" => layer_no' <= Len(layers') /\ runnable' \subseteq layers'[layer_no']
    BY <1>1, <1>2, <1>5, <1>8 DEF layer
  <2> QED
    BY <2>1, <2>2, <2>3, <1>7 DEF LoopInv
<1>12. WorkerInv'
  BY <1>1, <1>2, <1>3, <1>5 DEF IInv, WorkerInv, workerVars, Concluding, Ended
<1>13. AttemptInv'
  BY <1>1, <1>2, <1>3, <1>4 DEF IInv, AttemptInv, workerVars, Settled
<1>14. CauseInv'
  <2>1. failed_keys' # {} => failed_keys # {}
    BY <1>2 DEF doomed
  <2>2. ASSUME NEW t \in Task, task_status[t] = "failed"
        PROVE  task_status'[t] = "failed"
    BY <2>2, <1>2, <1>3, <1>4
  <2> QED
    BY <2>1, <2>2, <1>1, <1>2
    DEF IInv, CauseInv, Planning, Looping, Concluding, Concluded
<1>15. StartedAfterSuccess'
  <2> SUFFICES ASSUME NEW t \in Task, t \in clear \/ attempt[t] > 0, NEW d \in Upstream(t)
               PROVE  task_status'[d] = "success"
    BY <1>2, <1>5 DEF StartedAfterSuccess, workerVars
  <2>1. d \in Task
    BY <1>1, <1>7, UpstreamInTask
  <2>2. task_status[d] = "success"
    BY <1>9 DEF IInv, StartedAfterSuccess
  <2> QED
    BY <2>1, <2>2, <1>2, <1>3, <1>4
<1>16. MemoryMatchesRows'
  BY <1>1, <1>2, <1>3, <1>4, <1>6, <1>8 DEF MemoryMatchesRows, Bad
<1>17. PlanningInv' /\ AfterwardsInv' /\ NotificationTrue' /\ VerdictMatchesTasks'
  BY <1>1, <1>2
  DEF IInv, PlanningInv, AfterwardsInv, NotificationTrue, VerdictMatchesTasks,
      CauseInv, Planning, Looping, Concluding, Concluded, worldVars
<1>18. AttemptsAccounted'
  BY <1>1, <1>2, <1>3, <1>4 DEF IInv, AttemptsAccounted, MaxAttempts
<1> QED
  BY <1>1, <1>2, <1>10, <1>11, <1>12, <1>13, <1>14, <1>15, <1>16, <1>17, <1>18, TopoFrame
  DEF IInv

LEMMA ResolveLayerInv ==
  ASSUME IInv, NEW skipped, NEW unresolved, ResolveLayer(skipped, unresolved)
  PROVE  IInv'
<1> DEFINE resolved == runnable \ (skipped \cup unresolved)
           layer == layers[layer_no]
<1>1. TypeOK /\ TopoInv /\ main = "resolve" /\ layer_no \in Nat \ {0}
      /\ layer_no <= Len(layers) /\ runnable \subseteq layer
      /\ skipped \subseteq runnable /\ unresolved \subseteq runnable \ skipped
  BY DEF IInv, ResolveLayer, TypeOK, LoopInv, Looping
<1>2. /\ task_status' = [t \in Task |->
           CASE t \in skipped -> "skipped"
             [] t \in unresolved -> "failed"
             [] OTHER -> task_status[t]]
      /\ failed_keys' = failed_keys \cup unresolved
      /\ blocking_keys' = blocking_keys \cup skipped \cup unresolved
      /\ runnable' = resolved
      /\ worker' = [t \in Task |-> IF t \in resolved THEN "running" ELSE worker[t]]
      /\ attempt' = [t \in Task |-> IF t \in resolved THEN 1 ELSE attempt[t]]
      /\ main' = "pool" /\ layer_no' = layer_no
      /\ UNCHANGED <<topoVars, run_status, task_attempt, usage, worldVars>>
  BY DEF ResolveLayer
<1>3. /\ layer \subseteq Task /\ layer \cap Before = {} /\ runnable \subseteq Task
  BY <1>1, CurrentLayer
<1>4. \A t \in Task : task_status[t] \in
        (IF t \in Before \/ (t \in layer /\ t \notin runnable) THEN Settled ELSE {"pending"})
  <2>1. \A t \in Task : t \in Decided <=> t \in Before \/ (t \in layer /\ t \notin runnable)
    BY <1>1, <1>3 DEF IInv, WorkerInv, Decided
  <2> QED
    BY <2>1, <1>1 DEF IInv, LoopInv, Looping
<1>5. /\ \A t : Upstream(t)' = Upstream(t)
      /\ Cyclic' <=> Cyclic
      /\ layers' = layers
      /\ Before' = Before
      /\ layer' = layer
  BY <1>1, <1>2, PlanFrame DEF topoVars
<1>6. /\ failed_keys = {t \in Task : task_status[t] \in Bad}
      /\ blocking_keys = {t \in Task : task_status[t] \in Bad \cup {"skipped"}}
  BY <1>1 DEF IInv, MemoryMatchesRows
<1>7. phase = "layered" /\ phase' = "layered"
  BY <1>1, <1>2 DEF IInv, LoopInv, Looping, topoVars
<1>8. \A t \in Task : worker[t] = "idle" \/ (worker[t] = "collected" /\ t \in Before)
  BY <1>1 DEF IInv, WorkerInv
<1> HIDE DEF layer
<1>9. /\ skipped \subseteq Task /\ unresolved \subseteq Task /\ resolved \subseteq runnable
      /\ \A t \in runnable : task_status[t] = "pending"
      /\ \A t \in runnable : t \in skipped \/ t \in unresolved \/ t \in resolved
      /\ skipped \cap unresolved = {}
  BY <1>1, <1>3, <1>4
<1>10. TypeOK'
  <2>1. TopoTypeOK'
    BY <1>1, <1>2, TopoFrame DEF TopoInv
  <2>2. task_status' \in [Task -> TaskStatus]
    BY <1>1, <1>2 DEF TypeOK, TaskStatus
  <2> QED
    BY <2>1, <2>2, <1>1, <1>2, <1>3, <1>9 DEF TypeOK, worldVars
<1>11. LoopInv'
  <2>1. ASSUME NEW t \in Task
        PROVE  task_status'[t] \in (IF t \in Decided' THEN Settled ELSE {"pending"})
    <3>1. t \in Decided' <=> t \in Before \/ (t \in layer /\ t \notin resolved)
      BY <1>2, <1>3, <1>5, <1>8, <1>9, <1>1 DEF Decided, layer
    <3> QED
      BY <3>1, <1>1, <1>2, <1>3, <1>4, <1>9 DEF Settled
  <2>2. layer_no' <= Len(layers') /\ runnable' \subseteq layers'[layer_no']
    BY <1>1, <1>2, <1>5, <1>9 DEF layer
  <2> QED
    BY <2>1, <2>2, <1>2, <1>7 DEF LoopInv, Looping
<1>12. WorkerInv'
  BY <1>2, <1>3, <1>5, <1>8, <1>9, <1>1 DEF WorkerInv, Concluding, Ended
<1>13. AttemptInv'
  <2> SUFFICES ASSUME NEW t \in Task
               PROVE  /\ task_status'[t] \notin {"success", "failed"} => task_attempt'[t] = 0
                      /\ worker'[t] \in {"running", "sleeping", "succeeded", "gave_up",
                                         "raised", "collected"} =>
                           attempt'[t] \in 1 .. MaxAttempts(t)
                      /\ worker'[t] = "gave_up" => attempt'[t] = MaxAttempts(t)
                      /\ worker'[t] = "sleeping" => attempt'[t] < MaxAttempts(t)
    BY DEF AttemptInv
  <2>1. MaxAttempts(t) \in Nat \ {0}
    BY MaxAttemptsPositive
  <2>2. 1 \in 1 .. MaxAttempts(t)
    BY <2>1
  <2>3. task_status'[t] \notin {"success", "failed"} => task_attempt'[t] = 0
    <3>1. t \in runnable => task_attempt[t] = 0
      BY <1>9 DEF IInv, AttemptInv
    <3>2. t \notin runnable => task_status'[t] = task_status[t]
      BY <1>1, <1>2
    <3> QED
      BY <3>1, <3>2, <1>2 DEF IInv, AttemptInv
  <2>4. CASE t \in resolved
    BY <2>2, <2>3, <2>4, <1>2
  <2>5. CASE t \notin resolved
    BY <2>3, <2>5, <1>2, <1>8 DEF IInv, AttemptInv
  <2> QED
    BY <2>4, <2>5
<1>14. CauseInv'
  <2>1. ASSUME NEW t \in Task, task_status[t] = "failed"
        PROVE  task_status'[t] = "failed"
    BY <2>1, <1>1, <1>2, <1>9
  <2>2. \A t \in unresolved : t \in Task /\ task_status'[t] = "failed"
    BY <1>2, <1>9
  <2> QED
    BY <2>1, <2>2, <1>1, <1>2
    DEF IInv, CauseInv, Planning, Looping, Concluding, Concluded
<1>15. StartedAfterSuccess'
  <2> SUFFICES ASSUME NEW t \in Task, t \in runnable \/ attempt[t] > 0, NEW d \in Upstream(t)
               PROVE  task_status'[d] = "success"
    BY <1>2, <1>5, <1>9 DEF StartedAfterSuccess
  <2>1. d \in Task
    BY <1>1, <1>7, UpstreamInTask
  <2>2. task_status[d] = "success"
    BY DEF IInv, StartedAfterSuccess
  <2> QED
    BY <2>1, <2>2, <1>1, <1>2, <1>9
<1>16. MemoryMatchesRows'
  BY <1>1, <1>2, <1>6, <1>9 DEF MemoryMatchesRows, Bad
<1>17. PlanningInv' /\ AfterwardsInv' /\ NotificationTrue' /\ VerdictMatchesTasks'
  BY <1>1, <1>2
  DEF IInv, PlanningInv, AfterwardsInv, NotificationTrue, VerdictMatchesTasks,
      CauseInv, Planning, Looping, Concluding, Concluded, worldVars
<1>18. AttemptsAccounted'
  BY <1>1, <1>2, <1>9 DEF IInv, AttemptsAccounted, AttemptInv, MaxAttempts
<1> QED
  BY <1>1, <1>2, <1>10, <1>11, <1>12, <1>13, <1>14, <1>15, <1>16, <1>17, <1>18, TopoFrame
  DEF IInv

LEMMA CollectInv ==
  ASSUME IInv, NEW u \in Task, Collect(u)
  PROVE  IInv'
<1> DEFINE success == worker[u] = "succeeded"
           layer == layers[layer_no]
<1>1. TypeOK /\ TopoInv /\ main = "pool" /\ layer_no \in Nat \ {0}
      /\ layer_no <= Len(layers) /\ runnable \subseteq layer
      /\ worker[u] \in {"succeeded", "gave_up"} /\ u \in runnable
  BY DEF IInv, Collect, TypeOK, LoopInv, Looping, WorkerInv
<1>2. /\ task_status' = [task_status EXCEPT ![u] = IF success THEN "success" ELSE "failed"]
      /\ failed_keys' = IF success THEN failed_keys ELSE failed_keys \cup {u}
      /\ blocking_keys' = IF success THEN blocking_keys ELSE blocking_keys \cup {u}
      /\ task_attempt' = [task_attempt EXCEPT ![u] = attempt[u]]
      /\ worker' = [worker EXCEPT ![u] = "collected"]
      /\ UNCHANGED <<topoVars, run_status, usage, worldVars, main, layer_no, runnable, attempt>>
  BY DEF Collect
<1>3. /\ layer \subseteq Task /\ layer \cap Before = {}
  BY <1>1, CurrentLayer
<1>4. \A t \in Task : task_status[t] \in (IF t \in Decided THEN Settled ELSE {"pending"})
  BY <1>1 DEF IInv, LoopInv, Looping
<1>5. /\ \A t : Upstream(t)' = Upstream(t)
      /\ Cyclic' <=> Cyclic
      /\ layers' = layers
      /\ Before' = Before
  BY <1>1, <1>2, PlanFrame DEF topoVars
<1>6. Decided' = Decided \cup {u}
  BY <1>1, <1>2, <1>3, <1>5 DEF Decided, TypeOK
<1>7. phase = "layered" /\ phase' = "layered"
  BY <1>1, <1>2 DEF IInv, LoopInv, Looping, topoVars
<1>8. task_status[u] = "pending"
  BY <1>1, <1>3, <1>4 DEF Decided
<1>9. \A t \in Task : t # u => task_status'[t] = task_status[t]
  BY <1>1, <1>2 DEF TypeOK
<1>10. task_status'[u] = (IF success THEN "success" ELSE "failed")
  BY <1>1, <1>2 DEF TypeOK
<1> HIDE DEF success
<1>11. TypeOK'
  <2>1. TopoTypeOK'
    BY <1>1, <1>2, TopoFrame DEF TopoInv
  <2>2. task_status' \in [Task -> TaskStatus]
    BY <1>1, <1>2 DEF TypeOK, TaskStatus
  <2> QED
    BY <2>1, <2>2, <1>1, <1>2 DEF TypeOK, worldVars
<1>12. LoopInv'
  <2>1. \A t \in Task : task_status'[t] \in (IF t \in Decided' THEN Settled ELSE {"pending"})
    BY <1>4, <1>6, <1>9, <1>10 DEF Settled
  <2> QED
    BY <2>1, <1>1, <1>2, <1>5, <1>7 DEF LoopInv, Looping
<1>13. WorkerInv'
  BY <1>1, <1>2, <1>5 DEF IInv, WorkerInv, TypeOK, Concluding, Ended
<1>14. AttemptInv'
  BY <1>1, <1>2, <1>9, <1>10 DEF IInv, AttemptInv, TypeOK, MaxAttempts
<1>15. CauseInv'
  <2>1. failed_keys' # {} => \E t \in Task : task_status'[t] = "failed"
    <3>1. CASE success
      <4>1. failed_keys' # {} => \E t \in Task : task_status[t] = "failed"
        BY <3>1, <1>1, <1>2 DEF IInv, CauseInv, Looping
      <4> QED
        BY <4>1, <1>8, <1>9
    <3>2. CASE ~success
      BY <3>2, <1>10
    <3> QED
      BY <3>1, <3>2
  <2> QED
    BY <2>1, <1>1, <1>2 DEF IInv, CauseInv, Planning, Looping, Concluding, Concluded
<1>16. StartedAfterSuccess'
  <2> SUFFICES ASSUME NEW t \in Task, t \in runnable \/ attempt[t] > 0, NEW d \in Upstream(t)
               PROVE  task_status'[d] = "success"
    BY <1>2, <1>5 DEF StartedAfterSuccess
  <2>1. d \in Task
    BY <1>1, <1>7, UpstreamInTask
  <2>2. task_status[d] = "success"
    BY DEF IInv, StartedAfterSuccess
  <2> QED
    BY <2>1, <2>2, <1>8, <1>9
<1>17. MemoryMatchesRows'
  <2>1. /\ failed_keys = {t \in Task : task_status[t] \in Bad}
        /\ blocking_keys = {t \in Task : task_status[t] \in Bad \cup {"skipped"}}
    BY <1>1 DEF IInv, MemoryMatchesRows
  <2> QED
    BY <2>1, <1>2, <1>8, <1>9, <1>10 DEF MemoryMatchesRows, Bad
<1>18. PlanningInv' /\ AfterwardsInv' /\ NotificationTrue' /\ VerdictMatchesTasks'
  BY <1>1, <1>2
  DEF IInv, PlanningInv, AfterwardsInv, NotificationTrue, VerdictMatchesTasks,
      CauseInv, Planning, Looping, Concluding, Concluded, worldVars
<1>19. AttemptsAccounted'
  BY <1>1, <1>2, <1>9, <1>10 DEF IInv, AttemptsAccounted, AttemptInv, TypeOK, MaxAttempts,
                        success
<1> QED
  BY <1>1, <1>2, <1>11, <1>12, <1>13, <1>14, <1>15, <1>16, <1>17, <1>18, <1>19, TopoFrame
  DEF IInv

LEMMA LayerDoneInv == IInv /\ LayerDone => IInv'
<1> SUFFICES ASSUME IInv, LayerDone PROVE IInv'
  OBVIOUS
<1> DEFINE layer == layers[layer_no]
<1>1. TypeOK /\ TopoInv /\ main = "pool" /\ layer_no \in Nat \ {0}
      /\ layer_no <= Len(layers) /\ runnable \subseteq layer
      /\ \A t \in runnable : worker[t] = "collected"
  BY DEF IInv, LayerDone, AllCollected, TypeOK, LoopInv, Looping
<1>2. /\ main' = "layer" /\ layer_no' = layer_no + 1
      /\ UNCHANGED <<topoVars, dbVars, worldVars, runnable, failed_keys, blocking_keys,
                     workerVars>>
  BY DEF LayerDone, AllCollected
<1>3. /\ layer \subseteq Task /\ layer \cap Before = {}
  BY <1>1, CurrentLayer
<1>4. \A t \in Task : task_status[t] \in (IF t \in Decided THEN Settled ELSE {"pending"})
  BY <1>1 DEF IInv, LoopInv, Looping
<1>5. /\ \A t : Upstream(t)' = Upstream(t)
      /\ Cyclic' <=> Cyclic
      /\ layers' = layers
      /\ Before' = Before \cup layer
  BY <1>1, <1>2, PlanFrame, BeforeNext DEF topoVars
<1>6. Decided' = Decided
  <2>1. Decided' = Before \cup layer
    BY <1>2, <1>5 DEF Decided
  <2>2. Decided = Before \cup layer
    BY <1>1 DEF Decided
  <2> QED
    BY <2>1, <2>2
<1>7. phase = "layered" /\ phase' = "layered"
  BY <1>1, <1>2 DEF IInv, LoopInv, Looping, topoVars
<1>8. TypeOK'
  <2>1. TopoTypeOK'
    BY <1>1, <1>2, TopoFrame DEF TopoInv
  <2> QED
    BY <2>1, <1>1, <1>2 DEF TypeOK, dbVars, worldVars, workerVars
<1>9. LoopInv'
  BY <1>2, <1>4, <1>6, <1>7 DEF LoopInv, Looping, dbVars
<1>10. WorkerInv'
  BY <1>1, <1>2, <1>5 DEF IInv, WorkerInv, workerVars, Concluding, Ended
<1>11. AttemptInv' /\ AttemptsAccounted'
  BY <1>2 DEF IInv, AttemptInv, AttemptsAccounted, dbVars, workerVars, MaxAttempts
<1>12. StartedAfterSuccess'
  BY <1>2, <1>5 DEF IInv, StartedAfterSuccess, dbVars, workerVars
<1>13. MemoryMatchesRows' /\ CauseInv'
  BY <1>1, <1>2
  DEF IInv, MemoryMatchesRows, CauseInv, dbVars, Planning, Looping, Concluding, Concluded
<1>14. PlanningInv' /\ AfterwardsInv' /\ NotificationTrue' /\ VerdictMatchesTasks'
  BY <1>1, <1>2
  DEF IInv, PlanningInv, AfterwardsInv, NotificationTrue, VerdictMatchesTasks,
      CauseInv, Planning, Looping, Concluding, Concluded, dbVars, worldVars
<1> QED
  BY <1>1, <1>2, <1>8, <1>9, <1>10, <1>11, <1>12, <1>13, <1>14, TopoFrame DEF IInv

LEMMA FinishRunInv == IInv /\ FinishRun => IInv'
<1> SUFFICES ASSUME IInv, FinishRun PROVE IInv'
  OBVIOUS
<1>1. TypeOK /\ TopoInv /\ main = "layer" /\ layer_no \in Nat \ {0} /\ layer_no > Len(layers)
  BY DEF IInv, FinishRun, Verdict, TypeOK
<1>2. /\ run_status' = IF failed_keys # {} THEN "failed" ELSE "success"
      /\ main' = IF failed_keys # {} /\ Webhook THEN "notify" ELSE "usage"
      /\ UNCHANGED <<topoVars, task_status, task_attempt, usage, worldVars, layer_no,
                     runnable, failed_keys, blocking_keys, workerVars>>
  BY DEF FinishRun, Verdict
<1>3. phase = "layered" /\ phase' = "layered"
  BY <1>1, <1>2 DEF IInv, LoopInv, Looping, topoVars
<1>4. \A t \in Task : t \in Before
  <2>1. layers \in Seq(SUBSET Task)
    BY <1>1 DEF TopoInv, TopoTypeOK
  <2>2. DOMAIN layers = 1 .. Len(layers) /\ Len(layers) \in Nat
    BY <2>1
  <2>3. DOMAIN layers \subseteq 1 .. (layer_no - 1)
    BY <2>2, <1>1
  <2>4. Placed = Task
    BY <1>1, <1>3 DEF TopoInv, VerdictRight
  <2> QED
    BY <2>3, <2>4 DEF Placed, Before
<1>5. \A t \in Task : task_status[t] \in Settled
  BY <1>1, <1>4 DEF IInv, LoopInv, Looping, Decided
<1>6. /\ failed_keys = {t \in Task : task_status[t] \in Bad}
      /\ blocking_keys = {t \in Task : task_status[t] \in Bad \cup {"skipped"}}
  BY <1>1 DEF IInv, MemoryMatchesRows
<1>7. failed_keys # {} => \E t \in Task : task_status[t] = "failed"
  BY <1>1 DEF IInv, CauseInv, Looping
<1>8. \A t : Upstream(t)' = Upstream(t)
  BY <1>2, PlanFrame
<1>9. TypeOK'
  <2>1. TopoTypeOK'
    BY <1>1, <1>2, TopoFrame DEF TopoInv
  <2> QED
    BY <2>1, <1>1, <1>2 DEF TypeOK, worldVars, workerVars, RunStatus
<1>10. VerdictMatchesTasks'
  BY <1>2, <1>5, <1>6, <1>7 DEF VerdictMatchesTasks, Settled, Bad
<1>11. LoopInv' /\ PlanningInv'
  BY <1>2, <1>3 DEF LoopInv, PlanningInv, Looping, Planning
<1>12. WorkerInv'
  BY <1>1, <1>2 DEF IInv, WorkerInv, workerVars, Concluding, Ended, Busy
<1>13. AttemptInv' /\ AttemptsAccounted'
  BY <1>2 DEF IInv, AttemptInv, AttemptsAccounted, workerVars, MaxAttempts
<1>14. StartedAfterSuccess'
  BY <1>2, <1>8 DEF IInv, StartedAfterSuccess, workerVars
<1>15. MemoryMatchesRows' /\ CauseInv'
  BY <1>1, <1>2, <1>6
  DEF MemoryMatchesRows, CauseInv, Planning, Looping, Concluding, Concluded
<1>16. AfterwardsInv' /\ NotificationTrue'
  BY <1>1, <1>2
  DEF IInv, AfterwardsInv, NotificationTrue, CauseInv, Planning, Looping,
      Concluding, Concluded, worldVars
<1> QED
  BY <1>1, <1>2, <1>9, <1>10, <1>11, <1>12, <1>13, <1>14, <1>15, <1>16, TopoFrame DEF IInv
-----------------------------------------------------------------------------
LEMMA InitInv == Init => IInv
<1> SUFFICES ASSUME Init PROVE IInv
  OBVIOUS
<1>1. TopoInv
  BY TopoInitInv DEF Init
<1>2. TypeOK
  <2>1. stripe \in BOOLEAN
    BY DEF Init
  <2>2. /\ TopoTypeOK /\ run_status \in RunStatus /\ task_status \in [Task -> TaskStatus]
        /\ task_attempt \in [Task -> Nat] /\ usage = "none" /\ notified = {} /\ main = "begin"
        /\ layer_no \in Nat \ {0} /\ runnable = {} /\ failed_keys = {} /\ blocking_keys = {}
        /\ worker = [t \in Task |-> "idle"] /\ attempt = [t \in Task |-> 0]
    BY <1>1 DEF Init, TopoInv, RunStatus, TaskStatus
  <2> QED
    BY <2>1, <2>2 DEF TypeOK
<1>3. PlanningInv /\ LoopInv /\ WorkerInv /\ AttemptInv /\ CauseInv /\ AfterwardsInv
  BY DEF Init, PlanningInv, LoopInv, WorkerInv, AttemptInv, CauseInv, AfterwardsInv,
         Planning, Looping, Concluding, Concluded, Ended
<1>4. /\ StartedAfterSuccess /\ MemoryMatchesRows /\ VerdictMatchesTasks
      /\ AttemptsAccounted /\ NotificationTrue
  BY DEF Init, StartedAfterSuccess, MemoryMatchesRows, VerdictMatchesTasks,
         AttemptsAccounted, NotificationTrue
<1> QED
  BY <1>1, <1>2, <1>3, <1>4 DEF IInv

LEMMA PlanningStepInv ==
  ASSUME IInv, Begin \/ CreateTaskRuns \/ Plan \/ PlanLayered \/ PlanCyclic \/ PlanUnknown
  PROVE  IInv'
<1>1. /\ main \in Planning
      /\ UNCHANGED <<task_attempt, usage, worldVars, layer_no, runnable, failed_keys,
                     blocking_keys, workerVars>>
      /\ main = "plan" \/ UNCHANGED topoVars
  BY DEF Begin, CreateTaskRuns, Plan, PlanLayered, PlanCyclic, PlanUnknown, Planning,
         dbVars, mainVars
<1>2. /\ layer_no = 1 /\ runnable = {} /\ failed_keys = {} /\ blocking_keys = {}
      /\ \A t \in Task : worker[t] = "idle" /\ attempt[t] = 0
      /\ \A t \in Task : task_status[t] = (IF main = "plan" THEN "pending" ELSE "absent")
      /\ usage = "none" /\ ~stripe /\ notified = {} /\ ~Concluded
  BY <1>1 DEF IInv, PlanningInv, AfterwardsInv, CauseInv
<1>3. /\ \/ run_status' = run_status /\ main' # "returned"
         \/ run_status' = "running"
         \/ /\ run_status' = "failed" /\ main' = "returned" /\ Cyclic'
            /\ \A t \in Task : task_status'[t] = "pending"
      /\ main' \in Planning \cup {"layer", "returned", "escaped"}
      /\ main' = "returned" => run_status' = "failed"
      /\ \A t \in Task : task_status'[t] = IF main' \in {"begin", "create"}
                                           THEN "absent" ELSE "pending"
      /\ main' = "layer" => phase' = "layered"
  <2>1. CASE Begin \/ CreateTaskRuns
    BY <2>1, <1>2 DEF Begin, CreateTaskRuns, Planning
  <2>2. CASE Plan \/ PlanLayered \/ PlanUnknown
    BY <2>2, <1>2 DEF Plan, PlanLayered, PlanUnknown, Planning, dbVars, mainVars, topoVars
  <2>3. CASE PlanCyclic
    <3>1. Cyclic
      BY <2>3 DEF PlanCyclic, IInv, TopoInv, VerdictRight
    <3>2. Cyclic'
      BY <2>3, <3>1, PlanFrame DEF PlanCyclic
    <3> QED
      BY <2>3, <3>2, <1>2 DEF PlanCyclic, Planning
  <2> QED
    BY <2>1, <2>2, <2>3
<1>4. TopoInv'
  BY TopoStepInv, TopoFrame DEF IInv, Begin, CreateTaskRuns, Plan, PlanLayered, PlanCyclic,
     PlanUnknown
<1>5. TypeOK'
  <2>1. task_status' \in [Task -> TaskStatus] /\ run_status' \in RunStatus
    BY <1>1 DEF IInv, TypeOK, TaskStatus, RunStatus, Begin, CreateTaskRuns, Plan, PlanLayered,
       PlanCyclic, PlanUnknown, dbVars
  <2> QED
    BY <1>1, <1>3, <1>4, <2>1 DEF IInv, TypeOK, TopoInv, worldVars, workerVars, Planning, Ended
<1>6. PlanningInv' /\ WorkerInv' /\ AttemptInv' /\ CauseInv' /\ AfterwardsInv'
  BY <1>1, <1>2, <1>3
  DEF IInv, PlanningInv, WorkerInv, AttemptInv, CauseInv, AfterwardsInv, Planning, Looping,
      Concluding, Concluded, Ended, Busy, worldVars, workerVars, TypeOK
<1>7. LoopInv'
  <2>1. main' = "layer" => Before' = {}
    BY <1>1, <1>2 DEF Before
  <2> QED
    BY <1>3, <2>1 DEF LoopInv, Looping, Concluding, Planning, Decided
<1>8. StartedAfterSuccess' /\ MemoryMatchesRows' /\ AttemptsAccounted' /\ NotificationTrue'
      /\ VerdictMatchesTasks'
  BY <1>1, <1>2, <1>3
  DEF StartedAfterSuccess, MemoryMatchesRows, AttemptsAccounted, NotificationTrue,
      VerdictMatchesTasks, Bad, Concluded, worldVars, workerVars
<1> QED
  BY <1>4, <1>5, <1>6, <1>7, <1>8 DEF IInv

LEMMA WorkInv == ASSUME IInv, NEW u \in Task, Work(u) PROVE IInv'
<1>1. /\ worker[u] \in {"running", "sleeping"}
      /\ \E to \in {"succeeded", "sleeping", "gave_up", "running", "raised"} :
           /\ worker' = [worker EXCEPT ![u] = to]
           /\ to = "gave_up" => ~(attempt[u] < MaxAttempts(u)) /\ worker[u] = "running"
           /\ to = "sleeping" => attempt[u] < MaxAttempts(u)
           /\ worker[u] = "sleeping" => to = "running"
      /\ UNCHANGED <<topoVars, dbVars, worldVars, mainVars>>
      /\ \/ attempt' = attempt
         \/ worker[u] = "sleeping" /\ attempt' = [attempt EXCEPT ![u] = @ + 1]
  BY DEF Work, RunnerSucceeds, RunnerFails, AfterFailure, Retry, RunnerRaises, WorkerStep
<1>2. PICK to \in {"succeeded", "sleeping", "gave_up", "running", "raised"} :
           /\ worker' = [worker EXCEPT ![u] = to]
           /\ to = "gave_up" => ~(attempt[u] < MaxAttempts(u)) /\ worker[u] = "running"
           /\ to = "sleeping" => attempt[u] < MaxAttempts(u)
           /\ worker[u] = "sleeping" => to = "running"
  BY <1>1
<1>3. TypeOK /\ TopoInv
  BY DEF IInv
<1>4. main \in {"pool", "drain"} /\ u \in runnable
  BY <1>1, <1>3 DEF IInv, WorkerInv, PlanningInv, TypeOK, Planning, Concluding, Ended, Busy
<1>5. /\ \A t : Upstream(t)' = Upstream(t)
      /\ Cyclic' <=> Cyclic
      /\ Before' = Before /\ layers' = layers /\ phase' = phase
  BY <1>1, PlanFrame DEF mainVars, topoVars
<1>6. Decided' = Decided
  <2>1. \A t \in layers[layer_no] : worker'[t] = "collected" <=> worker[t] = "collected"
    BY <1>1, <1>2, <1>3, <1>4, CurrentLayer DEF IInv, LoopInv, TypeOK
  <2> QED
    BY <2>1, <1>1, <1>5 DEF Decided, mainVars
<1>7. TypeOK'
  <2>1. TopoTypeOK'
    BY <1>1, <1>3, TopoFrame DEF TopoInv
  <2>2. attempt' \in [Task -> Nat]
    BY <1>1, <1>3 DEF TypeOK
  <2> QED
    BY <2>1, <2>2, <1>1, <1>2, <1>3 DEF TypeOK, dbVars, worldVars, mainVars
<1>8. LoopInv'
  BY <1>1, <1>5, <1>6 DEF IInv, LoopInv, dbVars, mainVars
<1>9. WorkerInv'
  BY <1>1, <1>2, <1>3, <1>4, <1>5 DEF IInv, WorkerInv, TypeOK, mainVars, Concluding, Ended
<1>10. AttemptInv'
  <2> SUFFICES ASSUME NEW t \in Task
               PROVE  /\ task_status'[t] \notin {"success", "failed"} => task_attempt'[t] = 0
                      /\ worker'[t] \in {"running", "sleeping", "succeeded", "gave_up",
                                         "raised", "collected"} =>
                           attempt'[t] \in 1 .. MaxAttempts(t)
                      /\ worker'[t] = "gave_up" => attempt'[t] = MaxAttempts(t)
                      /\ worker'[t] = "sleeping" => attempt'[t] < MaxAttempts(t)
    BY DEF AttemptInv
  <2>1. MaxAttempts(t) \in Nat \ {0} /\ attempt[t] \in Nat
    BY <1>3, MaxAttemptsPositive DEF TypeOK
  <2>2. CASE t = u
    BY <2>1, <2>2, <1>1, <1>2, <1>3 DEF IInv, AttemptInv, TypeOK, dbVars
  <2>3. CASE t # u
    BY <2>1, <2>3, <1>1, <1>2, <1>3 DEF IInv, AttemptInv, TypeOK, dbVars
  <2> QED
    BY <2>2, <2>3
<1>11. StartedAfterSuccess'
  <2>1. attempt[u] > 0
    BY <1>1, <1>3, MaxAttemptsPositive DEF IInv, AttemptInv, TypeOK
  <2> QED
    BY <2>1, <1>1, <1>3, <1>5 DEF IInv, StartedAfterSuccess, TypeOK, dbVars, mainVars
<1>12. /\ PlanningInv' /\ CauseInv' /\ AfterwardsInv' /\ MemoryMatchesRows'
       /\ VerdictMatchesTasks' /\ AttemptsAccounted' /\ NotificationTrue'
  BY <1>1, <1>4, <1>5
  DEF IInv, PlanningInv, CauseInv, AfterwardsInv, MemoryMatchesRows, VerdictMatchesTasks,
      AttemptsAccounted, NotificationTrue, dbVars, worldVars, mainVars, Planning,
      Looping, Concluding, Concluded, MaxAttempts
<1> QED
  BY <1>1, <1>3, <1>7, <1>8, <1>9, <1>10, <1>11, <1>12, TopoFrame DEF IInv

(* Steps of the main thread that touch no worker and no TaskRun row once the
   loop is left, or leave it by an exception. *)
LEMMA LeavingInv ==
  ASSUME IInv, NEW u,
         CollectRaised(u) \/ Drained \/ NotifyFailure \/ RecordUsage \/ ReportUsage
           \/ MarkReported \/ MainRaises \/ Crash
  PROVE  IInv'
<1>1. /\ TypeOK /\ TopoInv
      /\ UNCHANGED <<topoVars, run_status, task_status, task_attempt, layer_no, runnable,
                     failed_keys, blocking_keys, attempt>>
      /\ main' \in {"drain", "usage", "report", "mark", "returned", "escaped", "crashed"}
      /\ worker' = worker \/ (main' = "crashed" /\ worker' = [t \in Task |-> "killed"])
  BY DEF IInv, CollectRaised, Drained, PoolIdle, NotifyFailure, FailedTasks, RecordUsage,
         ReportUsage, MarkReported,
         MainRaises, Crash, dbVars, worldVars, workerVars, Ended, TypeOK
<1>2. /\ \A t : Upstream(t)' = Upstream(t)
      /\ Cyclic' <=> Cyclic
      /\ Before' = Before /\ layers' = layers /\ phase' = phase
  BY <1>1, PlanFrame DEF topoVars
<1>3. main' = "drain" => main = "pool" /\ UNCHANGED <<usage, worldVars, worker>>
  BY DEF CollectRaised, Drained, PoolIdle, NotifyFailure, FailedTasks, RecordUsage,
         ReportUsage, MarkReported,
         MainRaises, Crash, dbVars, worldVars, workerVars
<1>4. main' \in {"usage", "report", "mark"} => main \in Concluding
  BY DEF CollectRaised, Drained, PoolIdle, NotifyFailure, FailedTasks, RecordUsage,
         ReportUsage, MarkReported,
         MainRaises, Crash, Concluding
<1>5. main' \in Ended => \A t \in Task : ~Busy(t)'
  BY <1>1 DEF IInv, PlanningInv, WorkerInv, CollectRaised, Drained, PoolIdle, NotifyFailure,
              FailedTasks, RecordUsage,
     ReportUsage, MarkReported, MainRaises, Crash, workerVars, Planning, Looping, Concluding,
     Ended, Busy, TypeOK
<1>6. TypeOK'
  <2>1. TopoTypeOK'
    BY <1>1, TopoFrame DEF TopoInv
  <2>2. usage' \in {"none", "recorded", "reported"} /\ stripe' \in BOOLEAN
        /\ notified' \in SUBSET SUBSET Task
    BY <1>1 DEF TypeOK, CollectRaised, Drained, PoolIdle, NotifyFailure, FailedTasks,
                RecordUsage, ReportUsage,
       MarkReported, MainRaises, Crash, dbVars, worldVars
  <2>3. worker' \in [Task -> {"idle", "running", "sleeping", "succeeded", "gave_up", "raised",
                              "collected", "killed"}]
    BY <1>1 DEF TypeOK
  <2> QED
    BY <2>1, <2>2, <2>3, <1>1 DEF TypeOK, Ended
<1>7. LoopInv'
  <2>1. main' = "drain" => Decided' = Decided
    BY <1>1, <1>2, <1>3 DEF Decided
  <2>2. main' \in Concluding => phase' = "layered"
    BY <1>1, <1>2, <1>4 DEF IInv, LoopInv, Concluding
  <2> QED
    BY <2>1, <2>2, <1>1, <1>2, <1>3 DEF IInv, LoopInv, Looping, Concluding
<1>8. WorkerInv'
  <2>1. main' \in Concluding => \A t \in Task : ~Busy(t)'
    BY <1>1, <1>4 DEF IInv, WorkerInv, Concluding, Busy
  <2> QED
    BY <2>1, <1>1, <1>2, <1>3, <1>5 DEF IInv, WorkerInv, Concluding, Ended
<1>9. AttemptInv' /\ AttemptsAccounted'
  BY <1>1 DEF IInv, AttemptInv, AttemptsAccounted, MaxAttempts
<1>10. StartedAfterSuccess' /\ VerdictMatchesTasks' /\ PlanningInv'
  BY <1>1, <1>2 DEF IInv, StartedAfterSuccess, VerdictMatchesTasks, PlanningInv, Planning
<1>11. MemoryMatchesRows' /\ CauseInv'
  <2>1. main' = "usage" => main = "notify"
    BY DEF CollectRaised, Drained, PoolIdle, NotifyFailure, FailedTasks, RecordUsage,
           ReportUsage, MarkReported,
           MainRaises, Crash
  <2> QED
    BY <2>1, <1>1, <1>3, <1>4
    DEF IInv, MemoryMatchesRows, CauseInv, Planning, Looping, Concluding, Concluded
<1>12. AfterwardsInv'
  BY <1>1
  DEF IInv, AfterwardsInv, CauseInv, CollectRaised, Drained, PoolIdle,
      NotifyFailure, FailedTasks,
      RecordUsage, ReportUsage, MarkReported, MainRaises, Crash, Planning, Looping, Concluding,
      Concluded, Ended, dbVars, worldVars
<1>13. NotificationTrue'
  BY <1>1
  DEF IInv, NotificationTrue, MemoryMatchesRows, CauseInv, CollectRaised, Drained, PoolIdle,
      NotifyFailure, FailedTasks, RecordUsage, ReportUsage, MarkReported, MainRaises, Crash,
      worldVars
<1> QED
  BY <1>1, <1>6, <1>7, <1>8, <1>9, <1>10, <1>11, <1>12, <1>13, TopoFrame DEF IInv

(* A step that changes nothing. *)
LEMMA StutterInv == IInv /\ UNCHANGED vars => IInv'
<1> SUFFICES ASSUME IInv, UNCHANGED vars PROVE IInv'
  OBVIOUS
<1>1. UNCHANGED <<topoVars, dbVars, worldVars, mainVars, workerVars>>
  BY DEF vars
<1>2. /\ TopoInv' /\ TopoTypeOK'
      /\ \A t : Upstream(t)' = Upstream(t)
      /\ Cyclic' <=> Cyclic
      /\ Before' = Before /\ phase' = phase /\ layers' = layers
  BY <1>1, TopoFrame, PlanFrame DEF IInv, TopoInv, mainVars, topoVars
<1>3. Decided' = Decided
  BY <1>1, <1>2 DEF Decided, mainVars, workerVars
<1>4. TypeOK' /\ PlanningInv' /\ LoopInv' /\ WorkerInv' /\ AttemptInv'
  BY <1>1, <1>2, <1>3
  DEF IInv, TypeOK, PlanningInv, LoopInv, WorkerInv, AttemptInv, Busy, MaxAttempts, dbVars,
      worldVars, mainVars, workerVars
<1>5. CauseInv' /\ AfterwardsInv' /\ StartedAfterSuccess' /\ MemoryMatchesRows'
  BY <1>1, <1>2
  DEF IInv, CauseInv, AfterwardsInv, StartedAfterSuccess, MemoryMatchesRows, Concluded, dbVars,
      worldVars, mainVars, workerVars
<1>6. VerdictMatchesTasks' /\ AttemptsAccounted' /\ NotificationTrue'
  BY <1>1, <1>2
  DEF IInv, VerdictMatchesTasks, AttemptsAccounted, NotificationTrue, Concluded,
      MaxAttempts, dbVars, worldVars
<1> QED
  BY <1>2, <1>4, <1>5, <1>6 DEF IInv

LEMMA StepInv == IInv /\ [Next]_vars => IInv'
<1> SUFFICES ASSUME IInv, [Next]_vars PROVE IInv'
  OBVIOUS
<1>1. CASE MainStep
  <2>1. CASE Begin \/ CreateTaskRuns \/ Plan \/ PlanLayered \/ PlanCyclic \/ PlanUnknown
    BY <2>1, PlanningStepInv
  <2>2. CASE BlockLayer
    BY <2>2, BlockLayerInv
  <2>3. CASE \E skipped, unresolved \in SUBSET Task : ResolveLayer(skipped, unresolved)
    BY <2>3, ResolveLayerInv
  <2>4. CASE \E t \in Task : Collect(t)
    BY <2>4, CollectInv
  <2>5. CASE LayerDone
    BY <2>5, LayerDoneInv
  <2>6. CASE FinishRun
    BY <2>6, FinishRunInv
  <2>7. CASE \E t \in Task : CollectRaised(t)
    BY <2>7, LeavingInv
  <2>8. CASE Drained \/ NotifyFailure \/ RecordUsage \/ ReportUsage \/ MarkReported
    BY <2>8, LeavingInv
  <2> QED
    BY <1>1, <2>1, <2>2, <2>3, <2>4, <2>5, <2>6, <2>7, <2>8 DEF MainStep
<1>2. CASE \E t \in Task : Work(t)
  BY <1>2, WorkInv
<1>3. CASE Fault
  BY <1>3, LeavingInv DEF Fault
<1>4. CASE Terminated \/ UNCHANGED vars
  BY <1>4, StutterInv DEF Terminated
<1> QED
  BY <1>1, <1>2, <1>3, <1>4 DEF Next

(* Every state of every run satisfies the inductive invariant (lines 83-187 and
   248-263 of executor.py, whatever threads, faults and exceptions do). *)
THEOREM ExecutorSafety == Spec => []IInv
<1>1. Init => IInv
  BY InitInv
<1>2. IInv /\ [Next]_vars => IInv'
  BY StepInv
<1> QED
  BY <1>1, <1>2, PTL DEF Spec

(* The rows, the local sets and the threads' states keep their types. *)
THEOREM TypeCorrect == Spec => []TypeOK
<1>1. IInv => TypeOK
  BY DEF IInv
<1> QED
  BY <1>1, ExecutorSafety, PTL

(* No task is started before everything it waits for has a committed success. *)
THEOREM RunsOnlyAfterSuccess == Spec => []StartedAfterSuccess
<1>1. IInv => StartedAfterSuccess
  BY DEF IInv
<1> QED
  BY <1>1, ExecutorSafety, PTL

(* failed_keys and blocking_keys are the committed rows, in any order of
   completion. *)
THEOREM MemoryIsRows == Spec => []MemoryMatchesRows
<1>1. IInv => MemoryMatchesRows
  BY DEF IInv
<1> QED
  BY <1>1, ExecutorSafety, PTL

(* A committed verdict says what the tasks did. *)
THEOREM VerdictSound == Spec => []VerdictMatchesTasks
<1>1. IInv => VerdictMatchesTasks
  BY DEF IInv
<1> QED
  BY <1>1, ExecutorSafety, PTL

(* A recorded failure had all of its attempts or none. *)
THEOREM AttemptsAreAccounted == Spec => []AttemptsAccounted
<1>1. IInv => AttemptsAccounted
  BY DEF IInv
<1> QED
  BY <1>1, ExecutorSafety, PTL

(* No worker outlives the thread of its run. *)
THEOREM WorkersEndFirst == Spec => []NoOrphanWorker
<1>1. IInv => NoOrphanWorker
  BY DEF IInv, WorkerInv, NoOrphanWorker
<1> QED
  BY <1>1, ExecutorSafety, PTL

(* What the webhook was told is what the rows say. *)
THEOREM NotificationIsTrue == Spec => []NotificationTrue
<1>1. IInv => NotificationTrue
  BY DEF IInv
<1> QED
  BY <1>1, ExecutorSafety, PTL
-----------------------------------------------------------------------------
(* Executor implements WorkflowRun: every step of its threads maps to one step  *)
(* of the promise or to none.  The refinement mapping is the identity on the    *)
(* rows; the threads, the plan and the local sets are hidden.                   *)

(* Where the main thread is tells what the run's row says. *)
RowInv ==
  /\ main = "begin" => run_status = "pending"
  /\ main \in (Planning \cup Looping) \ {"begin"} => run_status = "running"

LEMMA RowStep == RowInv /\ [Next]_vars => RowInv'
<1> SUFFICES ASSUME RowInv, [Next]_vars PROVE RowInv'
  OBVIOUS
<1>1. CASE Begin \/ CreateTaskRuns \/ Plan \/ PlanLayered \/ PlanCyclic \/ PlanUnknown
  BY <1>1 DEF RowInv, Begin, CreateTaskRuns, Plan, PlanLayered, PlanCyclic, PlanUnknown,
              Planning, Looping, dbVars, mainVars
<1>2. CASE BlockLayer \/ LayerDone \/ Drained \/ FinishRun
  BY <1>2 DEF RowInv, BlockLayer, Clear, Doomed, LayerDone, AllCollected, Drained, PoolIdle,
              FinishRun, Verdict, Planning, Looping, dbVars
<1>3. CASE NotifyFailure \/ RecordUsage \/ ReportUsage \/ MarkReported
  BY <1>3 DEF RowInv, NotifyFailure, FailedTasks, RecordUsage, ReportUsage, MarkReported,
              Planning, Looping
<1>4. ASSUME NEW t, NEW skipped, NEW unresolved,
             Collect(t) \/ CollectRaised(t) \/ ResolveLayer(skipped, unresolved)
      PROVE  RowInv'
  BY <1>4 DEF RowInv, Collect, CollectRaised, ResolveLayer, Planning, Looping, dbVars
<1>5. ASSUME NEW t, Work(t) PROVE RowInv'
  BY <1>5 DEF RowInv, Work, RunnerSucceeds, RunnerFails, AfterFailure, Retry, RunnerRaises,
              WorkerStep,
              dbVars, mainVars
<1>6. CASE MainRaises \/ Crash
  BY <1>6 DEF RowInv, MainRaises, Crash, Planning, Looping, Ended, dbVars
<1>7. CASE UNCHANGED vars
  BY <1>7 DEF RowInv, vars, dbVars, mainVars
<1> QED
  BY <1>1, <1>2, <1>3, <1>4, <1>5, <1>6, <1>7 DEF Next, MainStep, Fault, Terminated
-----------------------------------------------------------------------------
(* Past the check for unknown keys, both modules mean the same dependencies. *)
LEMMA SameWaits ==
  ASSUME IInv, phase = "layered", NEW t \in Task
  PROVE  Promise!Waits(t) = Upstream(t)
BY UpstreamInTask DEF IInv, Upstream, Promise!Waits

LEMMA SettleStep ==
  ASSUME IInv, RowInv, UNCHANGED <<topoVars, run_status>>,
         main \in {"layer", "resolve", "pool"},
         task_status' \in [Task -> {"pending"} \cup Settled],
         \A t \in Task : task_status'[t] # task_status[t] =>
           task_status[t] = "pending" /\ Promise!Allowed(t, task_status'[t])
  PROVE  Promise!Settle
BY DEF RowInv, Promise!Settle, topoVars, Planning, Looping, Settled, Promise!Settled,
       Promise!Ran

(* A commit of the for loop that blocks tasks settles them as promised. *)
LEMMA BlockSettles == ASSUME IInv, RowInv, BlockLayer PROVE Promise!Settle
<1> DEFINE layer == layers[layer_no]
           clear == {t \in layer : Upstream(t) \cap blocking_keys = {}}
           doomed == {t \in layer : Upstream(t) \cap failed_keys # {}}
<1>1. TypeOK /\ TopoInv /\ main = "layer" /\ layer_no \in Nat \ {0} /\ layer_no <= Len(layers)
      /\ phase = "layered"
  BY DEF IInv, BlockLayer, Clear, Doomed, TypeOK, LoopInv, Looping
<1>2. /\ UNCHANGED <<topoVars, run_status>>
      /\ task_status' = [t \in Task |->
           IF t \in layer \ clear
             THEN IF t \in doomed THEN "upstream_failed" ELSE "skipped"
             ELSE task_status[t]]
  BY DEF BlockLayer, Clear, Doomed
<1>3. /\ layer \subseteq Task /\ layer \cap Before = {} /\ Before \subseteq Task
      /\ \A t \in layer : Upstream(t) \subseteq Before
  BY <1>1, CurrentLayer
<1>4. \A t \in Task : task_status[t] \in (IF t \in Before THEN Settled ELSE {"pending"})
  BY <1>1 DEF IInv, LoopInv, Looping, Decided
<1>5. failed_keys = {t \in Task : task_status[t] \in Bad}
  BY <1>1 DEF IInv, MemoryMatchesRows
<1>6. ASSUME NEW t \in Task, task_status'[t] # task_status[t]
      PROVE  task_status[t] = "pending" /\ Promise!Allowed(t, task_status'[t])
  <2>1. t \in layer /\ t \notin clear
    BY <1>2, <1>6
  <2>2. Promise!Waits(t) = Upstream(t)
    BY <1>1, SameWaits
  <2>3. /\ \A d \in Upstream(t) : task_status[d] \in Settled
        /\ t \in doomed <=> \E d \in Upstream(t) : task_status[d] \in Bad
    BY <2>1, <1>3, <1>4, <1>5
  <2>4. task_status'[t] = IF t \in doomed THEN "upstream_failed" ELSE "skipped"
    BY <2>1, <1>2
  <2> HIDE DEF doomed
  <2> QED
    BY <2>1, <2>2, <2>3, <2>4, <1>3, <1>4
    DEF Promise!Allowed, Promise!Settled, Promise!Ran, Promise!Bad, Settled, Bad
<1>7. task_status' \in [Task -> {"pending"} \cup Settled]
  BY <1>1, <1>2, <1>4 DEF TypeOK, Settled
<1> QED
  BY <1>1, <1>2, <1>6, <1>7, SettleStep

(* A task that may run or has run got its status after successes only. *)
LEMMA AllowedAfterSuccess ==
  ASSUME IInv, phase = "layered", NEW t \in Task, t \in runnable,
         NEW verdict \in {"success", "failed", "skipped"}
  PROVE  Promise!Allowed(t, verdict)
<1>1. \A d \in Upstream(t) : task_status[d] = "success"
  BY DEF IInv, StartedAfterSuccess
<1> QED
  BY <1>1, SameWaits
  DEF Promise!Allowed, Promise!Settled, Promise!Ran, Promise!Bad

LEMMA ResolveSettles ==
  ASSUME IInv, RowInv, NEW skipped, NEW unresolved, ResolveLayer(skipped, unresolved)
  PROVE  Promise!Settle
<1>1. /\ main = "resolve" /\ phase = "layered" /\ UNCHANGED <<topoVars, run_status>>
      /\ runnable \subseteq Task
  BY DEF IInv, ResolveLayer, LoopInv, Looping, TypeOK
<1>2. \A t \in Task : task_status[t] \in (IF t \in Decided THEN Settled ELSE {"pending"})
  BY <1>1 DEF IInv, LoopInv, Looping
<1>3. /\ skipped \cup unresolved \subseteq runnable
      /\ task_status' = [t \in Task |->
              CASE t \in skipped -> "skipped"
                [] t \in unresolved -> "failed"
                [] OTHER -> task_status[t]]
  BY DEF ResolveLayer
<1>4. \A t \in runnable : t \notin Decided
  <2>1. layer_no \in Nat \ {0} /\ layer_no <= Len(layers) /\ runnable \subseteq layers[layer_no]
    BY <1>1 DEF IInv, TypeOK, LoopInv
  <2>2. layers[layer_no] \cap Before = {}
    BY <2>1, CurrentLayer DEF IInv
  <2>3. \A t \in runnable : worker[t] # "collected"
    BY <1>1, <2>1, <2>2 DEF IInv, WorkerInv
  <2> QED
    BY <1>1, <2>1, <2>2, <2>3 DEF Decided
<1>5. ASSUME NEW t \in Task, task_status'[t] # task_status[t]
      PROVE  task_status[t] = "pending" /\ Promise!Allowed(t, task_status'[t])
  <2>1. t \in runnable /\ task_status'[t] \in {"skipped", "failed"}
    BY <1>3, <1>5
  <2> QED
    BY <2>1, <1>1, <1>2, <1>4, AllowedAfterSuccess
<1>6. task_status' \in [Task -> {"pending"} \cup Settled]
  BY <1>2, <1>3 DEF Settled
<1> QED
  BY <1>1, <1>5, <1>6, SettleStep

LEMMA CollectSettles ==
  ASSUME IInv, RowInv, NEW u \in Task, Collect(u)
  PROVE  Promise!Settle
<1>1. /\ main = "pool" /\ phase = "layered" /\ UNCHANGED <<topoVars, run_status>>
      /\ worker[u] \in {"succeeded", "gave_up"}
      /\ task_status \in [Task -> TaskStatus]
      /\ \E verdict \in {"success", "failed"} :
           task_status' = [task_status EXCEPT ![u] = verdict]
  BY DEF IInv, Collect, LoopInv, Looping, TypeOK
<1>2. \A t \in Task : task_status[t] \in (IF t \in Decided THEN Settled ELSE {"pending"})
  BY <1>1 DEF IInv, LoopInv, Looping
<1>3. u \in runnable
  BY <1>1 DEF IInv, WorkerInv
<1>4. u \notin Decided
  <2>1. layer_no \in Nat \ {0} /\ layer_no <= Len(layers) /\ runnable \subseteq layers[layer_no]
    BY <1>1 DEF IInv, TypeOK, LoopInv
  <2>2. layers[layer_no] \cap Before = {}
    BY <2>1, CurrentLayer DEF IInv
  <2> QED
    BY <1>1, <1>3, <2>1, <2>2 DEF Decided
<1>5. ASSUME NEW t \in Task, task_status'[t] # task_status[t]
      PROVE  task_status[t] = "pending" /\ Promise!Allowed(t, task_status'[t])
  <2>1. t = u /\ task_status'[t] \in {"success", "failed"}
    BY <1>1, <1>5
  <2> QED
    BY <2>1, <1>1, <1>2, <1>3, <1>4, AllowedAfterSuccess
<1>6. task_status' \in [Task -> {"pending"} \cup Settled]
  BY <1>1, <1>2 DEF Settled
<1> QED
  BY <1>1, <1>5, <1>6, SettleStep

(* The verdict after the last layer is that of the rows. *)
LEMMA FinishConcludes == ASSUME IInv, RowInv, FinishRun PROVE Promise!Conclude
<1>1. /\ main = "layer" /\ phase = "layered" /\ run_status = "running"
      /\ UNCHANGED <<depends_on, task_status>>
      /\ run_status' = IF failed_keys # {} THEN "failed" ELSE "success"
  BY DEF IInv, RowInv, FinishRun, Verdict, LoopInv, Looping, Planning, topoVars
<1>2. failed_keys = {t \in Task : task_status[t] \in Bad}
  BY <1>1 DEF IInv, MemoryMatchesRows
<1>3. \A t \in Task : task_status[t] \in Settled
  <2>1. IInv'
    BY FinishRunInv
  <2>2. run_status' \in {"success", "failed"} /\ phase' = "layered"
    BY <1>1 DEF FinishRun, Verdict, topoVars
  <2>3. ~Cyclic'
    BY <2>1, <2>2 DEF IInv, TopoInv, VerdictRight
  <2> QED
    BY <2>1, <2>2, <2>3, <1>1 DEF IInv, VerdictMatchesTasks, Settled
<1> QED
  BY <1>1, <1>2, <1>3
  DEF Promise!Conclude, Promise!Settled, Promise!Ran, Promise!Bad, Settled, Bad

(* A run fails unplanned only when its tasks wait for one another. *)
LEMMA CyclicRefuses == ASSUME IInv, RowInv, PlanCyclic PROVE Promise!Refuse
<1>1. /\ main = "plan" /\ phase = "CycleError" /\ run_status = "running"
      /\ run_status' = "failed" /\ UNCHANGED <<depends_on, task_status>>
  BY DEF RowInv, PlanCyclic, topoVars, Planning
<1>2. \A t \in Task : task_status[t] = "pending"
  BY <1>1 DEF IInv, PlanningInv, Planning
<1>3. PICK S \in SUBSET Task : S # {} /\ \A t \in S : Upstream(t) \cap S # {}
  BY <1>1 DEF IInv, TopoInv, VerdictRight, Cyclic, Deadlocked
<1>4. \A t \in S : Promise!Waits(t) \cap S # {}
  BY <1>3 DEF Upstream, Promise!Waits
<1> QED
  BY <1>1, <1>2, <1>3, <1>4 DEF Promise!Refuse
-----------------------------------------------------------------------------
LEMMA RefinementStep ==
  IInv /\ RowInv /\ [Next]_vars => [Promise!Next]_(Promise!runVars)
<1> SUFFICES ASSUME IInv, RowInv, [Next]_vars
             PROVE  Promise!Next \/ UNCHANGED <<depends_on, run_status, task_status>>
  BY DEF Promise!runVars
<1>1. CASE Begin
  BY <1>1 DEF Begin, RowInv, Promise!Next, Promise!Begin, topoVars
<1>2. CASE CreateTaskRuns
  <2>1. task_status \in [Task -> TaskStatus] /\ \A t \in Task : task_status[t] = "absent"
    BY <1>2 DEF CreateTaskRuns, IInv, PlanningInv, Planning, TypeOK
  <2>2. task_status = [t \in Task |-> "absent"]
    BY <2>1
  <2> QED
    BY <1>2, <2>2 DEF CreateTaskRuns, RowInv, Planning, Promise!Next, Promise!CreateRows,
                      topoVars
<1>3. CASE Plan
  BY <1>3 DEF Plan, TopoNext, RejectUnknownKey, BuildIndegrees, TakeLayer, LeaveLoop, dbVars
<1>4. CASE PlanCyclic
  BY <1>4, CyclicRefuses DEF Promise!Next
<1>5. CASE BlockLayer
  BY <1>5, BlockSettles DEF Promise!Next
<1>6. CASE \E skipped, unresolved \in SUBSET Task : ResolveLayer(skipped, unresolved)
  BY <1>6, ResolveSettles DEF Promise!Next
<1>7. CASE \E t \in Task : Collect(t)
  BY <1>7, CollectSettles DEF Promise!Next
<1>8. CASE FinishRun
  BY <1>8, FinishConcludes DEF Promise!Next
<1>9. CASE PlanLayered \/ PlanUnknown \/ LayerDone \/ Drained
  BY <1>9 DEF PlanLayered, PlanUnknown, LayerDone, AllCollected, Drained, PoolIdle, topoVars,
              dbVars
<1>10. CASE NotifyFailure \/ RecordUsage \/ ReportUsage \/ MarkReported
  BY <1>10 DEF NotifyFailure, FailedTasks, RecordUsage, ReportUsage, MarkReported, topoVars,
               dbVars
<1>11. CASE \E t \in Task : CollectRaised(t) \/ Work(t)
  BY <1>11 DEF CollectRaised, Work, RunnerSucceeds, RunnerFails, AfterFailure, Retry,
               RunnerRaises,
               WorkerStep, topoVars, dbVars
<1>12. CASE MainRaises \/ Crash \/ UNCHANGED vars
  BY <1>12 DEF MainRaises, Crash, vars, topoVars, dbVars
<1> QED
  BY <1>1, <1>2, <1>3, <1>4, <1>5, <1>6, <1>7, <1>8, <1>9, <1>10, <1>11, <1>12
  DEF Next, MainStep, Fault, Terminated

(* The rows a poller sees change as WorkflowRun promises, under any retries,
   order of completion, exception and crash. *)
THEOREM ExecutorImplementsPromise == Spec => ImplementsPromise
<1>1. Init => Promise!Init
  BY DEF Init, TopoInit, Promise!Init
<1>2. Init => RowInv
  BY DEF Init, RowInv, Planning, Looping
<1>3. RowInv /\ [Next]_vars => RowInv'
  BY RowStep
<1>4. IInv /\ RowInv /\ [Next]_vars => [Promise!Next]_(Promise!runVars)
  BY RefinementStep
<1> QED
  BY <1>1, <1>2, <1>3, <1>4, ExecutorSafety, PTL DEF Spec, ImplementsPromise, Promise!Spec

(* What a poller has seen settled stays, of a task as of the run. *)
THEOREM VerdictsAreFinal == Spec => VerdictsStay
<1>1. IInv /\ RowInv /\ [Next]_vars =>
        [/\ \A t \in Task : task_status[t] \in Settled => task_status'[t] = task_status[t]
         /\ Concluded => run_status' = run_status]_vars
  <2> SUFFICES ASSUME IInv, RowInv, [Next]_vars
               PROVE  /\ \A t \in Task : task_status[t] \in Settled =>
                           task_status'[t] = task_status[t]
                      /\ Concluded => run_status' = run_status
    OBVIOUS
  <2>1. [Promise!Next]_(Promise!runVars)
    BY RefinementStep
  <2>2. CASE UNCHANGED <<depends_on, run_status, task_status>>
    BY <2>2
  <2>3. CASE Promise!Next
    BY <2>3 DEF Promise!Next, Promise!Begin, Promise!CreateRows, Promise!Settle,
                Promise!Conclude, Promise!Refuse, Settled, Concluded
  <2> QED
    BY <2>1, <2>2, <2>3 DEF Promise!runVars
<1>2. Init => RowInv
  BY DEF Init, RowInv, Planning, Looping
<1>3. RowInv /\ [Next]_vars => RowInv'
  BY RowStep
<1> QED
  BY <1>1, <1>2, <1>3, ExecutorSafety, PTL DEF Spec, VerdictsStay
-----------------------------------------------------------------------------
(* A task is skipped by its own run_if or by a skip right above it. *)
LEMMA SkipHasReason ==
  ASSUME IInv, BlockLayer \/ (\E skipped, unresolved : ResolveLayer(skipped, unresolved))
                 \/ (\E u \in Task : Collect(u)),
         NEW t \in Task, task_status[t] # "skipped", task_status'[t] = "skipped"
  PROVE  t \in Conditional \/ \E d \in Upstream(t) : task_status[d] = "skipped"
<1>1. CASE BlockLayer
  <2>1. /\ failed_keys = {u \in Task : task_status[u] \in Bad}
        /\ blocking_keys = {u \in Task : task_status[u] \in Bad \cup {"skipped"}}
    BY <1>1 DEF BlockLayer, IInv, MemoryMatchesRows
  <2>2. t \in layers[layer_no] /\ t \notin Clear(layers[layer_no])
        /\ t \notin Doomed(layers[layer_no])
    BY <1>1 DEF BlockLayer
  <2> QED
    BY <2>1, <2>2 DEF Clear, Doomed
<1>2. CASE \E skipped, unresolved : ResolveLayer(skipped, unresolved)
  BY <1>2 DEF ResolveLayer
<1>3. CASE \E u \in Task : Collect(u)
  BY <1>3 DEF Collect, IInv, TypeOK
<1> QED
  BY <1>1, <1>2, <1>3

(* A step that settles tasks does it as promised; the others leave the statuses,
   or create the rows. *)
LEMMA SettlesOrKeeps ==
  ASSUME IInv, RowInv, [Next]_vars
  PROVE  \/ task_status' = task_status
         \/ \A t \in Task : task_status'[t] = "pending"
         \/ /\ phase = "layered"
            /\ Promise!Settle
            /\ \A t \in Task :
                 task_status[t] # "skipped" /\ task_status'[t] = "skipped" =>
                   t \in Conditional \/ \E d \in Upstream(t) : task_status[d] = "skipped"
<1>1. CASE CreateTaskRuns
  BY <1>1 DEF CreateTaskRuns
<1>2. CASE BlockLayer
  BY <1>2, BlockSettles, SkipHasReason DEF BlockLayer, IInv, LoopInv, Looping
<1>3. CASE \E skipped, unresolved \in SUBSET Task : ResolveLayer(skipped, unresolved)
  <2>1. Promise!Settle
    BY <1>3, ResolveSettles
  <2>2. phase = "layered"
    BY <1>3 DEF ResolveLayer, IInv, LoopInv, Looping
  <2>3. \E skipped, unresolved : ResolveLayer(skipped, unresolved)
    BY <1>3
  <2> QED
    BY <2>1, <2>2, <2>3, SkipHasReason
<1>4. CASE \E t \in Task : Collect(t)
  BY <1>4, CollectSettles, SkipHasReason DEF Collect, IInv, LoopInv, Looping
<1>5. CASE Begin \/ Plan \/ PlanLayered \/ PlanCyclic \/ PlanUnknown \/ LayerDone \/ Drained
           \/ FinishRun \/ NotifyFailure \/ RecordUsage \/ ReportUsage \/ MarkReported
  BY <1>5 DEF Begin, Plan, PlanLayered, PlanCyclic, PlanUnknown, LayerDone, Drained, FinishRun,
              NotifyFailure, RecordUsage, ReportUsage, MarkReported, dbVars
<1>6. CASE \E t \in Task : CollectRaised(t) \/ Work(t)
  BY <1>6 DEF CollectRaised, Work, RunnerSucceeds, RunnerFails, Retry, RunnerRaises,
              WorkerStep, dbVars
<1>7. CASE MainRaises \/ Crash \/ UNCHANGED vars
  BY <1>7 DEF MainRaises, Crash, vars, dbVars
<1> QED
  BY <1>1, <1>2, <1>3, <1>4, <1>5, <1>6, <1>7 DEF Next, MainStep, Fault, Terminated

LEMMA RuleStep == IInv /\ RowInv /\ RuleInv /\ [Next]_vars => RuleInv'
<1> SUFFICES ASSUME IInv, RowInv, RuleInv, [Next]_vars PROVE RuleInv'
  OBVIOUS
<1>1. depends_on' = depends_on
  BY RefinementStep
  DEF Promise!runVars, Promise!Next, Promise!Begin, Promise!CreateRows, Promise!Settle,
      Promise!Conclude, Promise!Refuse
<1>2. \A t : Upstream(t)' = Upstream(t')
  BY <1>1 DEF Upstream
<1>3. CASE task_status' = task_status
  BY <1>2, <1>3 DEF RuleInv
<1>4. CASE \A t \in Task : task_status'[t] = "pending"
  BY <1>4 DEF RuleInv, Settled
<1>5. CASE /\ phase = "layered"
           /\ Promise!Settle
           /\ \A t \in Task :
                task_status[t] # "skipped" /\ task_status'[t] = "skipped" =>
                  t \in Conditional \/ \E d \in Upstream(t) : task_status[d] = "skipped"
  <2> SUFFICES ASSUME NEW t \in Task, task_status'[t] \in Settled
               PROVE
         /\ \A d \in Upstream(t) : task_status'[d] \in Settled
         /\ task_status'[t] = "upstream_failed" <=>
              \E d \in Upstream(t) : task_status'[d] \in Bad
         /\ task_status'[t] \in {"success", "failed"} =>
              \A d \in Upstream(t) : task_status'[d] = "success"
         /\ task_status'[t] = "skipped" =>
              t \in Conditional \/ \E d \in Upstream(t) : task_status'[d] = "skipped"
    BY <1>2 DEF RuleInv
  <2>1. \A u \in Task : task_status[u] \in Settled => task_status'[u] = task_status[u]
    BY <1>5 DEF Promise!Settle, Settled
  <2>2. Upstream(t) \subseteq Task /\ Promise!Waits(t) = Upstream(t)
    BY <1>5, SameWaits, UpstreamInTask DEF IInv
  <2>3. CASE task_status[t] \in Settled
    BY <2>1, <2>2, <2>3 DEF RuleInv
  <2>4. CASE task_status[t] \notin Settled
    <3>1. Promise!Allowed(t, task_status'[t])
      BY <1>5, <2>4 DEF Promise!Settle
    <3>2. \A d \in Upstream(t) :
            task_status[d] \in Settled /\ task_status'[d] = task_status[d]
      BY <2>1, <2>2, <3>1 DEF Promise!Allowed, Promise!Settled, Promise!Ran, Settled
    <3>3. task_status'[t] = "upstream_failed" <=>
              \E d \in Upstream(t) : task_status[d] \in Bad
      BY <2>2, <3>1 DEF Promise!Allowed, Promise!Bad, Bad
    <3>4. task_status'[t] \in {"success", "failed"} =>
            \A d \in Upstream(t) : task_status[d] = "success"
      BY <2>2, <3>1 DEF Promise!Allowed, Promise!Ran
    <3>5. task_status[t] # "skipped"
      BY <2>4 DEF Settled
    <3> QED
      BY <1>5, <3>2, <3>3, <3>4, <3>5
  <2> QED
    BY <2>3, <2>4
<1> QED
  BY <1>3, <1>4, <1>5, SettlesOrKeeps
-----------------------------------------------------------------------------
(* A set that holds what t waits for, and what its members wait for, holds all
   of t's ancestors; and they are such a set themselves. *)
LEMMA AncestorsWithin ==
  ASSUME NEW t \in Task, NEW S \in SUBSET Task, Upstream(t) \subseteq S,
         \A s \in S : Upstream(s) \subseteq S
  PROVE  Ancestors(t) \subseteq S
BY DEF Ancestors

LEMMA AncestorsClosed ==
  ASSUME NEW t \in Task, \A u \in Task : Upstream(u) \subseteq Task
  PROVE  /\ Ancestors(t) \subseteq Task
         /\ Upstream(t) \subseteq Ancestors(t)
         /\ \A a \in Ancestors(t) : Upstream(a) \subseteq Ancestors(t)
BY DEF Ancestors

(* Once every task is settled, the rule of each task over the tasks right above
   it is the rule over all its ancestors: the tasks of a set are closed under
   waiting, and a chain of upstream_failed that never met a failure would be a
   set of tasks that wait for one another. *)
LEMMA RuleReachesAncestors ==
  ASSUME IInv, RuleInv, phase = "layered", \A u \in Task : task_status[u] \in Settled,
         NEW t \in Task
  PROVE  /\ task_status[t] = "upstream_failed" <=>
              \E a \in Ancestors(t) : task_status[a] = "failed"
         /\ task_status[t] = "skipped" =>
              /\ \A a \in Ancestors(t) : task_status[a] \notin Bad
              /\ t \in Conditional \/ \E a \in Ancestors(t) : task_status[a] = "skipped"
<1>1. \A u \in Task : Upstream(u) \subseteq Task
  BY UpstreamInTask DEF IInv
<1>2. /\ Ancestors(t) \subseteq Task
      /\ Upstream(t) \subseteq Ancestors(t)
      /\ \A a \in Ancestors(t) : Upstream(a) \subseteq Ancestors(t)
  BY <1>1, AncestorsClosed
<1>3. ASSUME task_status[t] \notin Bad
      PROVE  \A a \in Ancestors(t) : task_status[a] \notin Bad
  <2> DEFINE S == {u \in Task : task_status[u] \notin Bad}
  <2>1. \A u \in S : Upstream(u) \subseteq S
    BY <1>1 DEF RuleInv, Bad
  <2> QED
    BY <2>1, <1>3, AncestorsWithin
<1>4. ASSUME task_status[t] = "failed"
      PROVE  \A a \in Ancestors(t) : task_status[a] = "success"
  <2> DEFINE S == {u \in Task : task_status[u] = "success"}
  <2>1. \A u \in S : Upstream(u) \subseteq S
    BY <1>1 DEF RuleInv
  <2>2. Upstream(t) \subseteq S
    BY <1>1, <1>4 DEF RuleInv
  <2> QED
    BY <2>1, <2>2, AncestorsWithin
<1>5. ASSUME task_status[t] = "upstream_failed",
             \A a \in Ancestors(t) : task_status[a] # "failed"
      PROVE  FALSE
  <2> DEFINE S == {a \in Ancestors(t) : task_status[a] = "upstream_failed"}
  <2>1. PICK d \in Upstream(t) : task_status[d] \in Bad
    BY <1>5 DEF RuleInv
  <2>2. d \in S
    BY <2>1, <1>2, <1>5 DEF Bad
  <2>3. ASSUME NEW a \in S PROVE Upstream(a) \cap S # {}
    BY <1>2, <1>5 DEF RuleInv, Bad
  <2>4. Deadlocked(S)
    BY <2>2, <2>3 DEF Deadlocked
  <2>5. S \in SUBSET Task
    BY <1>2
  <2> QED
    BY <2>4, <2>5 DEF IInv, TopoInv, VerdictRight, Cyclic
<1>6. task_status[t] = "skipped" =>
        t \in Conditional \/ \E a \in Ancestors(t) : task_status[a] = "skipped"
  BY <1>2 DEF RuleInv
<1> QED
  BY <1>3, <1>4, <1>5, <1>6 DEF Settled, Bad

(* Exactly the tasks below a failure, however far, are upstream_failed, and a
   skip without a run_if comes from a skip above and from no failure
   (executor.py lines 7-11 and 113-126), for every workflow. *)
THEOREM FailuresPropagateExactly == Spec => []PropagationExact
<1>1. Init => RowInv /\ RuleInv
  BY DEF Init, RowInv, RuleInv, Planning, Looping, Settled
<1>2. RowInv /\ [Next]_vars => RowInv'
  BY RowStep
<1>3. IInv /\ RowInv /\ RuleInv /\ [Next]_vars => RuleInv'
  BY RuleStep
<1>4. IInv /\ RuleInv => PropagationExact
  <2> SUFFICES ASSUME IInv, RuleInv, Concluded, phase = "layered", NEW t \in Task
               PROVE
         LET above == {task_status[a] : a \in Ancestors(t)}
         IN  /\ task_status[t] = "upstream_failed" <=> "failed" \in above
             /\ task_status[t] = "skipped" =>
                  above \cap Bad = {} /\ (t \in Conditional \/ "skipped" \in above)
    BY DEF PropagationExact
  <2>1. \A u \in Task : task_status[u] \in Settled
    <3>1. ~Cyclic
      BY DEF IInv, TopoInv, VerdictRight
    <3> QED
      BY <3>1 DEF IInv, VerdictMatchesTasks, Concluded, Settled
  <2> QED
    BY <2>1, RuleReachesAncestors
<1> QED
  BY <1>1, <1>2, <1>3, <1>4, ExecutorSafety, PTL DEF Spec
=============================================================================
