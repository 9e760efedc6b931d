-------------------------- MODULE SchedulerProofs --------------------------
(***************************************************************************)
(* sync_jobs leaves no schedule out, for any number of items and request   *)
(* threads of one process, crashes and restarts included.                  *)
(***************************************************************************)
EXTENDS Scheduler, TLAPS

(* The places a thread can be at. *)
LEMMA ThreadShapes ==
  /\ Idle \in ThreadType
  /\ \A p \in Process, boot \in BOOLEAN : Syncing(p, boot) \in ThreadType
  /\ \A p \in Process, boot \in BOOLEAN, k \in 1 .. 3 : Querying(p, boot, k) \in ThreadType
  /\ \A p \in Process, boot \in BOOLEAN, k \in 1 .. 3, S \in SUBSET Item :
       Adding(p, boot, k, S) \in ThreadType
BY DEF ThreadType, Idle, Syncing, Querying, Adding

(* A thread in sync_jobs knows its process, the reason it is there, and where. *)
LEMMA ThreadFields ==
  ASSUME TypeOK, NEW r \in Thread
  PROVE  /\ thread[r].at \in {"idle", "loaded", "sync", "query", "add"}
         /\ thread[r].at = "idle" => thread[r] = Idle
         /\ thread[r].at # "idle" => thread[r] # Idle /\ thread[r].home \in Process
         /\ thread[r].at = "loaded" =>
              thread[r].item \in Item /\ thread[r].saw \in {"active", "paused"}
         /\ thread[r].at \in {"sync", "query", "add"} => thread[r].boot \in BOOLEAN
         /\ thread[r].at \in {"query", "add"} => thread[r].kind \in 1 .. 3
         /\ thread[r].at = "add" => thread[r].todo \in SUBSET Item
<1>1. thread[r] \in ThreadType
  BY DEF TypeOK
<1> QED
  BY <1>1 DEF ThreadType, Idle

LEMMA InitType == Init => TypeOK
BY MaxTickAssumption DEF Init, TypeOK, ThreadType, Idle

LEMMA HandlerType ==
  ASSUME TypeOK, NEW r \in Thread, NEW p \in Process, Boot(r, p) \/ Handle(r, p)
  PROVE  TypeOK'
<1>1. CASE Boot(r, p)
  BY <1>1, ThreadShapes DEF Boot, TypeOK, rowVars, fireVars
<1>2. ASSUME NEW i \in Item, Create(r, p, i) \/ Clone(r, p, i) PROVE TypeOK'
  <2>1. row' \in [Item -> {"absent", "active", "paused", "deleted"}]
    BY <1>2 DEF Create, Clone, TypeOK
  <2>2. thread' \in [Thread -> ThreadType]
    <3>1. \/ thread' = thread
          \/ thread' = [thread EXCEPT ![r] = IF i \in Cyclic THEN Idle ELSE Syncing(p, FALSE)]
      BY <1>2 DEF Create, Clone
    <3>2. (IF i \in Cyclic THEN Idle ELSE Syncing(p, FALSE)) \in ThreadType
      BY ThreadShapes
    <3> QED
      BY <3>1, <3>2 DEF TypeOK
  <2> QED
    BY <1>2, <2>1, <2>2 DEF Create, Clone, TypeOK, jobVars, fireVars
<1>3. CASE \E i \in Item, action \in {"toggle", "delete"} : Load(r, p, action, i)
  <2> PICK i \in Item, action \in {"toggle", "delete"} : Load(r, p, action, i)
    BY <1>3
  <2>1. Exists(i) => Loaded(p, action, i) \in ThreadType
    BY DEF Exists, Loaded, ThreadType
  <2>2. thread' \in [Thread -> ThreadType]
    BY <2>1, ThreadShapes DEF Load, TypeOK
  <2> QED
    BY <2>2 DEF Load, TypeOK, rowVars, jobVars, fireVars
<1> QED
  BY <1>1, <1>2, <1>3 DEF Handle

LEMMA StepType ==
  ASSUME TypeOK, NEW r \in Thread, ThreadStep(r) \/ SyncRaises(r)
  PROVE  TypeOK'
<1> USE ThreadFields
<1>1. CASE CommitToggle(r) \/ CommitDelete(r)
  <2>1. thread[r].home \in Process /\ thread[r].item \in Item
    BY <1>1 DEF CommitToggle, CommitDelete
  <2>2. row' \in [Item -> {"absent", "active", "paused", "deleted"}]
    BY <1>1, <2>1 DEF CommitToggle, CommitDelete, TypeOK
  <2>3. \/ thread' = [thread EXCEPT ![r] = Idle]
        \/ thread' = [thread EXCEPT ![r] = Syncing(thread[r].home, FALSE)]
    BY <1>1 DEF CommitToggle, CommitDelete
  <2>4. thread' \in [Thread -> ThreadType]
    BY <2>1, <2>3, ThreadShapes DEF TypeOK
  <2> QED
    BY <1>1, <2>2, <2>4 DEF CommitToggle, CommitDelete, TypeOK, jobVars, fireVars
<1>2. CASE RemoveAllJobs(r)
  BY <1>2, ThreadShapes DEF RemoveAllJobs, TypeOK, rowVars, fireVars
<1>3. CASE Query(r)
  BY <1>3, ThreadShapes DEF Query, TypeOK, rowVars, jobVars, fireVars
<1>4. CASE \E i \in Item : AddJob(r, i)
  <2>1. PICK i \in Item : AddJob(r, i)
    BY <1>4
  <2>2. /\ thread[r].home \in Process /\ thread[r].boot \in BOOLEAN
        /\ thread[r].kind \in 1 .. 3 /\ thread[r].todo \ {i} \in SUBSET Item
    BY <2>1 DEF AddJob
  <2>3. Adding(thread[r].home, thread[r].boot, thread[r].kind, thread[r].todo \ {i})
          \in ThreadType
    BY <2>2, ThreadShapes
  <2>4. thread' \in [Thread -> ThreadType]
    BY <2>1, <2>3 DEF AddJob, TypeOK
  <2>5. jobs' \in [Process -> SUBSET Item]
    BY <2>1, <2>2 DEF AddJob, TypeOK
  <2> QED
    BY <2>1, <2>4, <2>5 DEF AddJob, TypeOK, rowVars, fireVars
<1>5. CASE QueryDone(r)
  <2>1. thread[r].home \in Process /\ thread[r].boot \in BOOLEAN /\ thread[r].kind \in 1 .. 3
    BY <1>5 DEF QueryDone
  <2>2. /\ up' \in [Process -> {"down", "starting", "up"}]
        /\ UNCHANGED <<rowVars, jobs, torn, fireVars>>
    BY <1>5 DEF QueryDone, TypeOK
  <2>3. \/ thread' = [thread EXCEPT ![r] = Idle]
        \/ /\ thread[r].kind < 3
           /\ thread' = [thread EXCEPT ![r] =
                Querying(thread[r].home, thread[r].boot, thread[r].kind + 1)]
    BY <1>5 DEF QueryDone
  <2>4. thread' \in [Thread -> ThreadType]
    BY <2>1, <2>3, ThreadShapes DEF TypeOK
  <2> QED
    BY <2>2, <2>4 DEF TypeOK, rowVars, fireVars
<1>6. CASE SyncRaises(r)
  BY <1>6, ThreadShapes DEF SyncRaises, TypeOK, rowVars, fireVars
<1> QED
  BY <1>1, <1>2, <1>3, <1>4, <1>5, <1>6 DEF ThreadStep

LEMMA ClockType ==
  ASSUME TypeOK,
         \/ \E i \in Item : Tick(i)
         \/ \E p \in Process, i \in Item : Fire(p, i)
         \/ \E p \in Process : Crash(p)
         \/ UNCHANGED vars
  PROVE  TypeOK'
<1>1. CASE \E i \in Item : Tick(i)
  BY <1>1, MaxTickAssumption DEF Tick, TypeOK, rowVars, jobVars
<1>2. ASSUME NEW p \in Process, NEW i \in Item, Recheck(p, i) PROVE TypeOK'
  BY <1>2 DEF Recheck, TypeOK, rowVars, jobVars
<1>3. ASSUME NEW p \in Process, NEW i \in Item, StartRun(p, i) PROVE TypeOK'
  <2>1. <<i, clock[i], p>> \in Item \X (Nat) \X Process
    BY DEF TypeOK
  <2>2. started' \in SUBSET (Item \X (Nat) \X Process)
    BY <1>3, <2>1 DEF StartRun, TypeOK
  <2>3. PICK does \in {"idle", "running"} : fire' = [fire EXCEPT ![p][i] = does]
    BY <1>3 DEF StartRun
  <2>4. fire' \in [Process -> [Item -> {"idle", "submitted", "checked", "running"}]]
    BY <2>3 DEF TypeOK
  <2> QED
    BY <1>3, <2>2, <2>4 DEF StartRun, TypeOK, rowVars, jobVars
<1>4. ASSUME NEW p \in Process, NEW i \in Item, EndRun(p, i) PROVE TypeOK'
  BY <1>4 DEF EndRun, TypeOK, jobVars
<1>5. ASSUME NEW p \in Process, Crash(p) PROVE TypeOK'
  <2>1. thread' \in [Thread -> ThreadType]
    BY <1>5, ThreadShapes DEF Crash, TypeOK
  <2>2. /\ up' \in [Process -> {"down", "starting", "up"}]
        /\ jobs' \in [Process -> SUBSET Item]
        /\ fire' \in [Process -> [Item -> {"idle", "submitted", "checked", "running"}]]
    BY <1>5 DEF Crash, TypeOK
  <2> QED
    BY <1>5, <2>1, <2>2 DEF Crash, TypeOK, rowVars
<1>6. CASE UNCHANGED vars
  BY <1>6 DEF vars, rowVars, jobVars, fireVars, TypeOK
<1> QED
  BY <1>1, <1>2, <1>3, <1>4, <1>5, <1>6 DEF Fire

(* Rows, jobs, clocks and the threads' locals keep their types. *)
THEOREM SchedulerTypeCorrect == Spec => []TypeOK
<1>1. TypeOK /\ [Next]_vars => TypeOK'
  BY HandlerType, StepType, ClockType DEF Next
<1> QED
  BY <1>1, InitType, PTL DEF Spec
-----------------------------------------------------------------------------
(* The invariant behind ScheduleComplete: a process that is starting owes the
   jobs as well. *)
Owed(p) ==
  \A i \in Item :
    up[p] # "down" /\ ~torn[p] /\ Schedulable(i) /\ i \notin Cyclic =>
      \/ i \in jobs[p]
      \/ \E r \in Thread : thread[r] # Idle /\ thread[r].home = p /\ WillRegister(r, i)

(* Threads live in processes that do. *)
HomesUp == \A r \in Thread : thread[r] # Idle => up[thread[r].home] # "down"

(* The thread that starts a process is alone in it: when its sync_jobs fails and
   the process is down again, nobody is left there. *)
Boots(r) == thread[r].at \in {"sync", "query", "add"} /\ thread[r].boot
BootAlone ==
  \A r \in Thread : Boots(r) =>
    /\ up[thread[r].home] = "starting"
    /\ \A q \in Thread : thread[q] # Idle => q = r

(* A thread that is on its way to sync_jobs will register every item. *)
LEMMA SyncingRegisters ==
  ASSUME NEW p, NEW boot, NEW r \in Thread, thread'[r] = Syncing(p, boot)
  PROVE  thread'[r] # Idle /\ thread'[r].home = p /\ \A i : WillRegister(r, i)'
BY DEF Syncing, Idle, WillRegister

(* A step of one thread that adds no schedule, takes no job away and hands on what
   the thread was to register. *)
LEMMA OwedFrame ==
  ASSUME TypeOK, NEW p, Owed(p), NEW r \in Thread, NEW value,
         thread' = [thread EXCEPT ![r] = value],
         \A i \in Item : Schedulable(i)' /\ i \notin Cyclic => Schedulable(i),
         up'[p] # "down" /\ ~torn'[p] => up[p] # "down" /\ ~torn[p],
         jobs[p] \subseteq jobs'[p],
         \A i \in Item : Schedulable(i) /\ WillRegister(r, i) /\ thread[r].home = p =>
           i \in jobs'[p] \/ (value # Idle /\ value.home = p /\ WillRegister(r, i)')
  PROVE  Owed(p)'
<1> SUFFICES ASSUME NEW i \in Item, up'[p] # "down", ~torn'[p], Schedulable(i)',
                    i \notin Cyclic, i \notin jobs'[p]
             PROVE  \E q \in Thread :
                      thread'[q] # Idle /\ thread'[q].home = p /\ WillRegister(q, i)'
  BY DEF Owed
<1>1. PICK q \in Thread : thread[q] # Idle /\ thread[q].home = p /\ WillRegister(q, i)
  BY DEF Owed
<1>2. CASE q = r
  BY <1>1, <1>2 DEF TypeOK
<1>3. CASE q # r
  <2>1. thread'[q] = thread[q]
    BY <1>3 DEF TypeOK
  <2> QED
    BY <1>1, <2>1 DEF WillRegister
<1> QED
  BY <1>2, <1>3

LEMMA HandlerOwed ==
  ASSUME TypeOK, NEW p, Process = {p}, Owed(p), NEW r \in Thread,
         \/ Boot(r, p) \/ Handle(r, p) \/ CommitToggle(r) \/ CommitDelete(r)
  PROVE  Owed(p)'
<1>1. CASE thread'[r] \in {Syncing(p, TRUE), Syncing(p, FALSE)}
  BY <1>1, SyncingRegisters DEF Owed
<1>2. CASE thread'[r] \notin {Syncing(p, TRUE), Syncing(p, FALSE)}
  <2>1. \A i : ~WillRegister(r, i)
    <3>1. thread[r] = Idle \/ thread[r].at = "loaded"
      BY DEF Boot, Handle, Serves, Create, Clone, Load, CommitToggle, CommitDelete
    <3> QED
      BY <3>1 DEF WillRegister, Idle
  <2>2. ~Boot(r, p)
    BY <1>2 DEF Boot, TypeOK
  <2>3. UNCHANGED <<up, jobs, torn>>
    BY <2>2 DEF Handle, Create, Clone, Load, CommitToggle, CommitDelete, jobVars
  <2>4. /\ \E value : thread' = [thread EXCEPT ![r] = value]
        /\ \A i \in Item : Schedulable(i)' /\ i \notin Cyclic => Schedulable(i)
    <3>1. ASSUME NEW i \in Item, Create(r, p, i) PROVE <2>4
      BY <1>2, <3>1 DEF Create, Schedulable, TypeOK
    <3>2. ASSUME NEW i \in Item, Clone(r, p, i) PROVE <2>4
      <4>1. thread' = [thread EXCEPT ![r] = thread[r]]
        BY <3>2 DEF Clone, TypeOK
      <4> QED
        BY <3>2, <4>1 DEF Clone, Schedulable, TypeOK
    <3>3. ASSUME NEW i \in Item, NEW action \in {"toggle", "delete"}, Load(r, p, action, i)
          PROVE  <2>4
      BY <3>3 DEF Load, Schedulable, rowVars
    <3>4. CASE CommitToggle(r)
      <4>1. thread[r].home = p /\ thread[r].item \in Item
        BY <3>4, ThreadFields DEF CommitToggle
      <4>2. \/ thread' = [thread EXCEPT ![r] = Idle] /\ UNCHANGED row
            \/ thread' = [thread EXCEPT ![r] = Syncing(p, FALSE)]
        BY <3>4, <4>1 DEF CommitToggle
      <4>3. thread' # [thread EXCEPT ![r] = Syncing(p, FALSE)]
        BY <1>2 DEF TypeOK
      <4> QED
        BY <4>2, <4>3 DEF Schedulable
    <3>5. CASE CommitDelete(r)
      <4>1. thread[r].home = p /\ thread[r].item \in Item
        BY <3>5, ThreadFields DEF CommitDelete
      <4>2. \/ thread' = [thread EXCEPT ![r] = Idle] /\ UNCHANGED row
            \/ thread' = [thread EXCEPT ![r] = Syncing(p, FALSE)]
        BY <3>5, <4>1 DEF CommitDelete
      <4>3. thread' # [thread EXCEPT ![r] = Syncing(p, FALSE)]
        BY <1>2 DEF TypeOK
      <4> QED
        BY <4>2, <4>3 DEF Schedulable
    <3> QED
      BY <2>2, <3>1, <3>2, <3>3, <3>4, <3>5 DEF Handle
  <2> QED
    BY <2>1, <2>3, <2>4, OwedFrame
<1> QED
  BY <1>1, <1>2

LEMMA SyncOwed ==
  ASSUME TypeOK, NEW p, Process = {p}, Owed(p), HomesUp, NEW r \in Thread,
         RemoveAllJobs(r) \/ Query(r) \/ (\E i \in Item : AddJob(r, i)) \/ QueryDone(r)
  PROVE  Owed(p)'
<1>1. /\ thread[r].at \in {"sync", "query", "add"} /\ thread[r].home = p
      /\ UNCHANGED row
      /\ up[p] # "down"
  BY ThreadFields DEF RemoveAllJobs, Query, AddJob, QueryDone, rowVars, HomesUp
<1>2. \A i \in Item : Schedulable(i)' <=> Schedulable(i)
  BY <1>1 DEF Schedulable
<1>3. CASE RemoveAllJobs(r)
  <2>1. thread'[r] = Querying(p, thread[r].boot, 1)
    BY <1>1, <1>3 DEF RemoveAllJobs, TypeOK
  <2>2. \A i \in Item : WillRegister(r, i)'
    BY <2>1, KindAssumption DEF Querying, WillRegister
  <2> QED
    BY <2>1, <2>2 DEF Owed, Querying, Idle
<1>4. CASE Query(r)
  <2> DEFINE todo == {i \in Item : Kind[i] = thread[r].kind /\ Schedulable(i)}
             value == Adding(p, thread[r].boot, thread[r].kind, todo)
  <2>1. thread' = [thread EXCEPT ![r] = value] /\ UNCHANGED <<up, jobs, torn>>
    BY <1>1, <1>4 DEF Query, jobVars
  <2>2. thread'[r] = value
    BY <2>1 DEF TypeOK
  <2>3. value # Idle /\ value.home = p
    BY DEF Adding, Idle
  <2>4. ASSUME NEW i \in Item, Schedulable(i), WillRegister(r, i) PROVE WillRegister(r, i)'
    <3>1. thread[r].at = "query" /\ thread[r].kind <= Kind[i]
      BY <1>4, <2>4 DEF Query, WillRegister
    <3>2. thread[r].kind \in 1 .. 3 /\ Kind[i] \in 1 .. 3
      BY <3>1, ThreadFields, KindAssumption
    <3>3. thread[r].kind < Kind[i] \/ i \in todo
      BY <3>1, <3>2, <2>4
    <3> QED
      BY <2>2, <3>3 DEF Adding, WillRegister
  <2> HIDE DEF value
  <2> QED
    BY <1>2, <2>1, <2>3, <2>4, OwedFrame
<1>5. ASSUME NEW j \in Item, AddJob(r, j) PROVE Owed(p)'
  <2> DEFINE value == Adding(p, thread[r].boot, thread[r].kind, thread[r].todo \ {j})
  <2>1. /\ thread' = [thread EXCEPT ![r] = value] /\ UNCHANGED <<up, torn>>
        /\ jobs'[p] = jobs[p] \cup {j}
    BY <1>1, <1>5 DEF AddJob, TypeOK
  <2>2. thread'[r] = value
    BY <2>1 DEF TypeOK
  <2>3. value # Idle /\ value.home = p
    BY DEF Adding, Idle
  <2>4. ASSUME NEW i \in Item, WillRegister(r, i), i # j PROVE WillRegister(r, i)'
    <3>1. thread[r].at = "add" /\ (thread[r].kind < Kind[i] \/ i \in thread[r].todo)
      BY <1>5, <2>4 DEF AddJob, WillRegister
    <3> QED
      BY <2>2, <2>4, <3>1 DEF Adding, WillRegister
  <2> HIDE DEF value
  <2> QED
    BY <1>2, <2>1, <2>3, <2>4, OwedFrame
<1>6. CASE QueryDone(r)
  <2>1. /\ thread[r].at = "add" /\ thread[r].todo = {} /\ thread[r].kind \in 1 .. 3
        /\ UNCHANGED <<jobs, torn>>
    BY <1>6, ThreadFields DEF QueryDone
  <2>2. \A i \in Item : WillRegister(r, i) => thread[r].kind < Kind[i]
    BY <2>1 DEF WillRegister
  <2>3. CASE thread[r].kind < 3
    <3> DEFINE value == Querying(p, thread[r].boot, thread[r].kind + 1)
    <3>1. thread' = [thread EXCEPT ![r] = value] /\ UNCHANGED <<up, torn>>
      BY <1>1, <1>6, <2>3 DEF QueryDone
    <3>2. thread'[r] = value
      BY <3>1 DEF TypeOK
    <3>3. value # Idle /\ value.home = p
      BY DEF Querying, Idle
    <3>4. \A i \in Item : WillRegister(r, i) => WillRegister(r, i)'
      <4>1. \A i \in Item : thread[r].kind < Kind[i] => thread[r].kind + 1 <= Kind[i]
        BY <2>1, KindAssumption
      <4> QED
        BY <2>2, <3>2, <4>1 DEF Querying, WillRegister
    <3> HIDE DEF value
    <3> QED
      BY <1>2, <2>1, <3>1, <3>3, <3>4, OwedFrame
  <2>4. CASE ~(thread[r].kind < 3)
    <3>1. thread' = [thread EXCEPT ![r] = Idle]
      BY <1>6, <2>4 DEF QueryDone
    <3>2. \A i \in Item : ~WillRegister(r, i)
      BY <2>1, <2>2, <2>4, KindAssumption
    <3> QED
      BY <1>1, <1>2, <2>1, <3>1, <3>2, OwedFrame
  <2> QED
    BY <2>3, <2>4
<1> QED
  BY <1>3, <1>4, <1>5, <1>6

LEMMA HomesUpStep ==
  ASSUME TypeOK, HomesUp, BootAlone, NEW p, Process = {p}, [Next]_vars
  PROVE  HomesUp'
<1>1. ASSUME NEW r \in Thread, Boot(r, p) \/ Handle(r, p) PROVE HomesUp'
  <2>1. \A q \in Thread : thread[q] # Idle => thread[q].home = p
    BY ThreadFields
  <2>2. up'[p] # "down"
    BY <1>1 DEF Boot, Handle, Serves, Create, Clone, Load, jobVars, TypeOK
  <2>3. \/ UNCHANGED thread
        \/ \E value : thread' = [thread EXCEPT ![r] = value] /\ (value = Idle \/ value.home = p)
    <3>1. \A boot : Syncing(p, boot).home = p
      BY DEF Syncing
    <3>2. \A i, action : Loaded(p, action, i).home = p
      BY DEF Loaded
    <3>3. CASE Boot(r, p)
      BY <3>1, <3>3 DEF Boot
    <3>4. ASSUME NEW i \in Item, Create(r, p, i) PROVE <2>3
      BY <3>1, <3>4 DEF Create
    <3>5. ASSUME NEW i \in Item, Clone(r, p, i) PROVE <2>3
      BY <3>5 DEF Clone
    <3>6. ASSUME NEW i \in Item, NEW action \in {"toggle", "delete"}, Load(r, p, action, i)
          PROVE  <2>3
      BY <3>1, <3>2, <3>6 DEF Load
    <3> QED
      BY <1>1, <3>3, <3>4, <3>5, <3>6 DEF Handle
  <2>4. \A q \in Thread : thread'[q] # Idle => thread'[q].home = p
    BY <2>1, <2>3 DEF TypeOK
  <2> QED
    BY <2>2, <2>4 DEF HomesUp
<1>2. ASSUME NEW r \in Thread, CommitToggle(r) \/ CommitDelete(r) PROVE HomesUp'
  <2>1. thread[r].home = p /\ up[p] # "down"
    BY <1>2, ThreadFields DEF CommitToggle, CommitDelete, HomesUp
  <2>2. \/ thread' = [thread EXCEPT ![r] = Idle]
        \/ thread' = [thread EXCEPT ![r] = Syncing(p, FALSE)]
    BY <1>2, <2>1 DEF CommitToggle, CommitDelete
  <2>3. UNCHANGED up
    BY <1>2 DEF CommitToggle, CommitDelete, jobVars
  <2> QED
    BY <2>1, <2>2, <2>3 DEF HomesUp, TypeOK, Syncing
<1>3. ASSUME NEW r \in Thread,
             RemoveAllJobs(r) \/ Query(r) \/ (\E i \in Item : AddJob(r, i)) \/ QueryDone(r)
      PROVE  HomesUp'
  <2>1. thread[r].home = p /\ up[p] # "down"
    BY <1>3, ThreadFields DEF RemoveAllJobs, Query, AddJob, QueryDone, HomesUp
  <2>2. up'[p] # "down"
    BY <1>3, <2>1 DEF RemoveAllJobs, Query, AddJob, QueryDone, jobVars, TypeOK
  <2>3. \A q \in Thread : thread'[q] # Idle => thread'[q].home = p
    BY <1>3, <2>1, ThreadFields
    DEF RemoveAllJobs, Query, AddJob, QueryDone, Querying, Adding, TypeOK
  <2> QED
    BY <2>2, <2>3 DEF HomesUp
<1>4. CASE Crash(p)
  BY <1>4, ThreadFields DEF Crash, HomesUp, TypeOK
<1>5. CASE \/ \E i \in Item : Tick(i) \/ Fire(p, i)
           \/ UNCHANGED vars
  BY <1>5 DEF HomesUp, Tick, Fire, Recheck, StartRun, EndRun, jobVars, vars
<1>6. ASSUME NEW r \in Thread, SyncRaises(r) PROVE HomesUp'
  <2>1. thread[r].home = p /\ up[p] # "down" /\ thread' = [thread EXCEPT ![r] = Idle]
    BY <1>6, ThreadFields DEF SyncRaises, HomesUp
  <2>2. CASE thread[r].boot
    BY <1>6, <2>1, <2>2 DEF SyncRaises, BootAlone, Boots, HomesUp, TypeOK
  <2>3. CASE ~thread[r].boot
    BY <1>6, <2>1, <2>3 DEF SyncRaises, HomesUp, TypeOK
  <2> QED
    BY <2>2, <2>3
<1> QED
  BY <1>1, <1>2, <1>3, <1>4, <1>5, <1>6 DEF Next, ThreadStep

LEMMA BootAloneStep ==
  ASSUME TypeOK, HomesUp, BootAlone, NEW p, Process = {p}, [Next]_vars
  PROVE  BootAlone'
<1>1. ASSUME NEW r \in Thread, Boot(r, p) PROVE BootAlone'
  <2>1. \A q \in Thread : thread[q] = Idle
    BY <1>1, ThreadFields DEF Boot, HomesUp
  <2>2. thread' = [thread EXCEPT ![r] = Syncing(p, TRUE)] /\ up'[p] = "starting"
    BY <1>1 DEF Boot, TypeOK
  <2> QED
    BY <2>1, <2>2 DEF BootAlone, Boots, Syncing, Idle, TypeOK
<1>2. ASSUME NEW r \in Thread, Handle(r, p) PROVE BootAlone'
  <2>1. up[p] = "up" /\ thread[r] = Idle /\ UNCHANGED up
    BY <1>2 DEF Handle, Serves, Create, Clone, Load, jobVars
  <2>2. \A q \in Thread : ~Boots(q)
    BY <2>1, ThreadFields DEF BootAlone, Boots
  <2>3. \/ UNCHANGED thread
        \/ thread' = [thread EXCEPT ![r] = Idle]
        \/ thread' = [thread EXCEPT ![r] = Syncing(p, FALSE)]
        \/ \E i, action : thread' = [thread EXCEPT ![r] = Loaded(p, action, i)]
    BY <1>2 DEF Handle, Create, Clone, Load
  <2>4. \A q \in Thread : ~Boots(q)'
    BY <2>2, <2>3 DEF Boots, Syncing, Loaded, Idle, TypeOK
  <2> QED
    BY <2>4 DEF BootAlone
<1>3. ASSUME NEW r \in Thread, CommitToggle(r) \/ CommitDelete(r) PROVE BootAlone'
  <2>1. thread[r].at = "loaded" /\ thread[r].home = p /\ thread[r] # Idle /\ ~Boots(r)
    BY <1>3, ThreadFields DEF CommitToggle, CommitDelete, Boots
  <2>2. \/ thread' = [thread EXCEPT ![r] = Idle]
        \/ thread' = [thread EXCEPT ![r] = Syncing(p, FALSE)]
    BY <1>3, <2>1 DEF CommitToggle, CommitDelete
  <2>3. \A q \in Thread : ~Boots(q)
    BY <2>1 DEF BootAlone
  <2>4. \A q \in Thread : ~Boots(q)'
    BY <2>2, <2>3 DEF Boots, Syncing, Idle, TypeOK
  <2> QED
    BY <2>4 DEF BootAlone
<1>4. ASSUME NEW r \in Thread,
             RemoveAllJobs(r) \/ Query(r) \/ (\E i \in Item : AddJob(r, i)) \/ QueryDone(r)
                \/ SyncRaises(r)
      PROVE  BootAlone'
  <2>1. /\ thread[r].at \in {"sync", "query", "add"} /\ thread[r].home = p
        /\ thread[r].boot \in BOOLEAN /\ thread[r] # Idle
    BY <1>4, ThreadFields DEF RemoveAllJobs, Query, AddJob, QueryDone, SyncRaises
  <2>2. PICK value : /\ thread' = [thread EXCEPT ![r] = value]
                     /\ \/ value = Idle
                        \/ /\ value.at \in {"query", "add"} /\ value.boot = thread[r].boot
                           /\ value.home = p
    BY <1>4, <2>1 DEF RemoveAllJobs, Query, AddJob, QueryDone, SyncRaises, Querying, Adding
  <2>3. thread'[r] = value /\ \A q \in Thread \ {r} : thread'[q] = thread[q]
    BY <2>2 DEF TypeOK
  <2>4. CASE thread[r].boot
    <3>1. up[p] = "starting" /\ \A q \in Thread : thread[q] # Idle => q = r
      BY <2>1, <2>4 DEF BootAlone, Boots
    <3>2. value # Idle => UNCHANGED up
      BY <1>4, <2>3, <2>4 DEF RemoveAllJobs, Query, AddJob, QueryDone, SyncRaises, jobVars, TypeOK
    <3> QED
      BY <2>2, <2>3, <3>1, <3>2 DEF BootAlone, Boots, Idle
  <2>5. CASE ~thread[r].boot
    <3>1. \A q \in Thread : ~Boots(q)
      BY <2>1, <2>5 DEF BootAlone, Boots
    <3>2. \A q \in Thread : ~Boots(q)'
      BY <2>2, <2>3, <2>5, <3>1 DEF Boots, Idle
    <3> QED
      BY <3>2 DEF BootAlone
  <2> QED
    BY <2>1, <2>4, <2>5
<1>5. CASE Crash(p)
  BY <1>5, ThreadFields DEF Crash, BootAlone, Boots, Idle, TypeOK
<1>6. CASE \/ \E i \in Item : Tick(i) \/ Fire(p, i)
           \/ UNCHANGED vars
  BY <1>6 DEF BootAlone, Boots, Tick, Fire, Recheck, StartRun, EndRun, jobVars, vars
<1> QED
  BY <1>1, <1>2, <1>3, <1>4, <1>5, <1>6 DEF Next, ThreadStep

LEMMA OwedStep ==
  ASSUME TypeOK, HomesUp, NEW p, Process = {p}, Owed(p), [Next]_vars
  PROVE  Owed(p)'
<1>1. ASSUME NEW r \in Thread, Boot(r, p) \/ Handle(r, p) PROVE Owed(p)'
  BY <1>1, HandlerOwed
<1>2. ASSUME NEW r \in Thread, ThreadStep(r) PROVE Owed(p)'
  BY <1>2, HandlerOwed, SyncOwed DEF ThreadStep
<1>3. CASE Crash(p)
  BY <1>3 DEF Crash, Owed, TypeOK
<1>4. CASE \/ \E i \in Item : Tick(i) \/ Fire(p, i)
           \/ UNCHANGED vars
  BY <1>4
  DEF Owed, Schedulable, WillRegister, Tick, Fire, Recheck, StartRun, EndRun, rowVars, jobVars,
      vars
<1>5. ASSUME NEW r \in Thread, SyncRaises(r) PROVE Owed(p)'
  BY <1>5, ThreadFields DEF SyncRaises, Owed, TypeOK
<1> QED
  BY <1>1, <1>2, <1>3, <1>4, <1>5 DEF Next

(* One process: no interleaving of the handlers' commits with one another's
   sync_jobs loses the schedule of an active item, for any number of items and
   threads; only a sync_jobs that fails does, until the next one runs. *)
THEOREM SchedulesAreComplete ==
  ASSUME NEW p, Process = {p}
  PROVE  Spec => []ScheduleComplete
<1>1. Init => HomesUp /\ BootAlone /\ Owed(p)
  BY DEF Init, HomesUp, BootAlone, Boots, Idle, Owed
<1>2. TypeOK /\ HomesUp /\ BootAlone /\ Owed(p) /\ [Next]_vars
        => HomesUp' /\ BootAlone' /\ Owed(p)'
  BY HomesUpStep, BootAloneStep, OwedStep
<1>3. Owed(p) => ScheduleComplete
  BY DEF Owed, ScheduleComplete
<1> QED
  BY <1>1, <1>2, <1>3, SchedulerTypeCorrect, PTL DEF Spec
-----------------------------------------------------------------------------
(* A job that is submitted, or not even that, is not begun as long as its row is
   not active. *)
Unbegun(p, i) == fire[p][i] \in {"idle", "submitted"}

LEMMA UnbegunStays ==
  ASSUME TypeOK, [Next]_vars, NEW p \in Process, NEW i \in Item,
         Unbegun(p, i), row[i] # "active"
  PROVE  Unbegun(p, i)'
<1>f. fire \in [Process -> [Item -> {"idle", "submitted", "checked", "running"}]]
  BY DEF TypeOK
<1>1. CASE fire' = fire
  BY <1>1 DEF Unbegun
<1>2. ASSUME NEW j \in Item, Tick(j) PROVE Unbegun(p, i)'
  BY <1>f, <1>2 DEF Tick, Unbegun
<1>3. ASSUME NEW q \in Process, NEW j \in Item, Fire(q, j) PROVE Unbegun(p, i)'
  <2>1. CASE q = p /\ j = i
    BY <1>f, <1>3, <2>1 DEF Fire, Recheck, StartRun, EndRun, Unbegun
  <2>2. CASE ~(q = p /\ j = i)
    <3>1. PICK does : fire' = [fire EXCEPT ![q][j] = does]
      BY <1>3 DEF Fire, Recheck, StartRun, EndRun
    <3> QED
      BY <1>f, <2>2, <3>1 DEF Unbegun
  <2> QED
    BY <2>1, <2>2
<1>4. ASSUME NEW q \in Process, Crash(q) PROVE Unbegun(p, i)'
  BY <1>f, <1>4 DEF Crash, Unbegun
<1>5. ASSUME NEW r \in Thread, NEW q \in Process, Boot(r, q) \/ Handle(r, q) PROVE fire' = fire
  BY <1>5 DEF Boot, Handle, Create, Clone, Load, fireVars
<1>6. ASSUME NEW r \in Thread, ThreadStep(r) \/ SyncRaises(r) PROVE fire' = fire
  BY <1>6 DEF ThreadStep, SyncRaises, CommitToggle, CommitDelete, RemoveAllJobs, Query,
              AddJob, QueryDone, fireVars
<1>7. UNCHANGED vars => fire' = fire
  BY DEF vars, fireVars
<1> QED
  BY <1>1, <1>2, <1>3, <1>4, <1>5, <1>6, <1>7 DEF Next

(* For any number of items, processes and threads, and any races of sync_jobs: a
   job that is submitted and finds its row never active again starts no run
   (scheduler.py 14-16, 29-31, 41-43). *)
THEOREM StaleJobsStartNothing == Spec => StaleJobsInert
<1> SUFFICES ASSUME NEW p \in Process, NEW i \in Item
             PROVE  Spec =>
                      [](fire[p][i] = "submitted" /\ [](row[i] # "active") =>
                           [](fire[p][i] # "running"))
  BY DEF StaleJobsInert
<1>1. fire[p][i] = "submitted" => Unbegun(p, i)
  BY DEF Unbegun
<1>2. Unbegun(p, i) => fire[p][i] # "running"
  BY DEF Unbegun
<1>3. TypeOK /\ [Next]_vars /\ Unbegun(p, i) /\ row[i] # "active" => Unbegun(p, i)'
  BY UnbegunStays
<1> QED
  BY <1>1, <1>2, <1>3, SchedulerTypeCorrect, PTL DEF Spec
=============================================================================
