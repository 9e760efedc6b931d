---------------------------- MODULE CatalogProofs ----------------------------
(***************************************************************************)
(* For any names, any declarations and any order of them, and any number of *)
(* uploads, registrations, syncs, deletes and pipeline runs at once: what   *)
(* the catalog says of the data behind a name, and what an ok run has built. *)
(***************************************************************************)
EXTENDS Catalog, TLAPS

LEMMA CatalogStarts == Init => CatalogInv
<1> SUFFICES ASSUME Init PROVE CatalogInv
  OBVIOUS
<1>1. TypeOK
  BY DEF Init, TypeOK, WriterState, Idle, Version
<1>2. \A w \in Writer : WriterInv(w)
  BY DEF Init, WriterInv, InOrder, StoresOnce, StillThere, Undisturbed, Runs, Active, Idle
<1>3. WrittenAtHome /\ RowsDescribeData
  BY DEF Init, WrittenAtHome, RowsDescribeData, Written
<1>4. OkRunEnded /\ OkRunIsComplete /\ OkRunIsConsistent
  BY DEF Init, OkRunEnded, OkRunIsComplete, OkRunIsConsistent
<1> QED
  BY <1>1, <1>2, <1>3, <1>4 DEF CatalogInv

-----------------------------------------------------------------------------
(* The order, and the run that follows it. *)

LEMMA DeclaredNames == Declared \subseteq Name
BY NamesAssumption

(* What a run may take for its order: nothing is built before what it reads. *)
LEMMA OrderIsOne ==
  ASSUME NEW order \in Orders
  PROVE  /\ order \in Seq(Declared)
         /\ \A n \in Declared : \E i \in DOMAIN order : order[i] = n
         /\ \A i, j \in DOMAIN order :
              /\ order[i] = order[j] => i = j
              /\ i <= j => order[j] \notin reads[order[i]]
<1>1. BuildOrder(Declared, reads, order)
  BY DEF Orders
<1>2. order \in Seq(Declared) /\ Len(order) \in Nat /\ DOMAIN order = 1 .. Len(order)
  BY <1>1 DEF BuildOrder
<1>3. ASSUME NEW i \in DOMAIN order, NEW j \in DOMAIN order, i <= j
      PROVE  order[j] \notin reads[order[i]]
  <2> SUFFICES ASSUME order[j] \in reads[order[i]] PROVE FALSE
    OBVIOUS
  <2>1. PICK k \in 1 .. i - 1 : order[k] = order[j]
    BY <1>1 DEF BuildOrder
  <2>2. k \in DOMAIN order /\ k # j
    BY <1>2, <1>3
  <2> QED
    BY <1>1, <2>1, <2>2 DEF BuildOrder
<1> QED
  BY <1>1, <1>2, <1>3 DEF BuildOrder

(* Where a writer is that has a table to write. *)
LEMMA TodoGoesOn ==
  ASSUME CatalogInv, NEW w \in Writer,
         writer[w].at \in {"write", "look", "store", "failed"}
  PROVE  /\ writer[w] \in WriterState /\ writer[w].todo \in Seq(Name)
         /\ Len(writer[w].todo) \in Nat \ {0}
         /\ DOMAIN writer[w].todo = 1 .. Len(writer[w].todo)
         /\ Target(w) = writer[w].todo[1]
         /\ Tail(writer[w].todo) \in Seq(Name)
         /\ Len(Tail(writer[w].todo)) = Len(writer[w].todo) - 1
         /\ \A i \in 1 .. Len(writer[w].todo) - 1 :
              /\ Tail(writer[w].todo)[i] = writer[w].todo[i + 1]
              /\ i + 1 \in DOMAIN writer[w].todo
<1> DEFINE todo == writer[w].todo
<1>1. /\ writer[w] \in WriterState /\ todo \in Seq(Name) /\ Len(todo) > 0
  BY DEF CatalogInv, TypeOK, WriterState, Idle, Ended
<1> HIDE DEF todo
<1>2. /\ Len(todo) \in Nat \ {0} /\ DOMAIN todo = 1 .. Len(todo) /\ Head(todo) = todo[1]
      /\ Tail(todo) \in Seq(Name) /\ Len(Tail(todo)) = Len(todo) - 1
      /\ \A i \in 1 .. Len(todo) - 1 : Tail(todo)[i] = todo[i + 1] /\ i + 1 \in DOMAIN todo
  BY <1>1
<1> QED
  BY <1>1, <1>2 DEF todo, Target

LEMMA TargetIsLeft ==
  ASSUME CatalogInv, NEW w \in Writer,
         writer[w].at \in {"write", "look", "store", "failed"}
  PROVE  /\ Target(w) \in Name /\ Target(w) \in Left(w) /\ Active(w)
         /\ <<w, Target(w)>> \notin stored
         /\ Runs(w) => Target(w) \in Declared
<1>1. /\ Target(w) = writer[w].todo[1] /\ 1 \in DOMAIN writer[w].todo
      /\ writer[w].todo[1] \in Name
  BY TodoGoesOn
<1>2. Target(w) \in Left(w) /\ Active(w)
  BY <1>1 DEF Left, Active
<1> QED
  BY <1>1, <1>2 DEF CatalogInv, WriterInv, StoresOnce, InOrder

-----------------------------------------------------------------------------
(* What others do, and what an end does, to a writer. *)

LEMMA EndKeeps == ASSUME NEW v \in Writer, writer'[v] = Ended PROVE WriterInv(v)'
BY DEF WriterInv, InOrder, StoresOnce, StillThere, Undisturbed, Runs, Active, Ended, Idle

LEMMA OthersKeep ==
  ASSUME CatalogInv, NEW v \in Writer, writer'[v] = writer[v], reads' = reads,
         stored \subseteq stored', crossed \subseteq crossed', disturbed \subseteq disturbed',
         \A n \in Name : <<v, n>> \in stored' => <<v, n>> \in stored,
         v \in strayed' => v \in strayed,
         \A n \in Name :
           \/ disk'[n] = disk[n]
           \/ /\ disk'[n] # None
              /\ Between(v, n) => n \in crossed'
              /\ Runs(v) /\ n \in Declared => v \in disturbed',
         \A n \in Declared : Written(n)' /\ ~Written(n) /\ Runs(v) => v \in disturbed'
  PROVE  WriterInv(v)'
<1>1. /\ Active(v)' <=> Active(v)
      /\ Runs(v)' <=> Runs(v)
      /\ Target(v)' = Target(v) /\ Left(v)' = Left(v)
  BY DEF Active, Runs, Target, Left
<1>2. InOrder(v) /\ StoresOnce(v) /\ StillThere(v) /\ Undisturbed(v)
  BY DEF CatalogInv, WriterInv
<1>3. InOrder(v)'
  BY <1>1, <1>2 DEF InOrder
<1>4. Active(v) => Left(v) \subseteq Name
  BY DEF CatalogInv, TypeOK, WriterState, Idle, Ended, Left, Active
<1>5. StoresOnce(v)'
  BY <1>1, <1>2, <1>4 DEF StoresOnce
<1>6. StillThere(v)'
  <2> SUFFICES ASSUME writer[v].at \in {"look", "store"} PROVE StillThere(v)'
    BY DEF StillThere
  <2>1. Target(v) \in Name /\ Between(v, Target(v))
    BY TargetIsLeft DEF Between
  <2>2. Runs(v) => Target(v) \in Declared
    BY TargetIsLeft
  <2> QED
    BY <1>1, <1>2, <2>1, <2>2 DEF StillThere
<1>7. Undisturbed(v)'
  BY <1>1, <1>2, DeclaredNames DEF Undisturbed
<1> QED
  BY <1>3, <1>5, <1>6, <1>7 DEF WriterInv

LEMMA LastRunKeeps ==
  ASSUME CatalogInv, last_run' = last_run, stored \subseteq stored',
         disturbed \subseteq disturbed',
         \A v \in Writer : writer[v] = Ended => writer'[v] = Ended,
         \A v \in Writer : v \in strayed' => v \in strayed \/ Active(v)
  PROVE  OkRunEnded' /\ OkRunIsComplete' /\ OkRunIsConsistent'
BY DEF CatalogInv, OkRunEnded, OkRunIsComplete, OkRunIsConsistent, Active, Ended

(* Rows and data that stay describe each other as before. *)
LEMMA RowsKeep ==
  ASSUME CatalogInv, UNCHANGED <<catalog, disk, crossed, stored>>
  PROVE  WrittenAtHome' /\ RowsDescribeData'
BY DEF CatalogInv, WrittenAtHome, RowsDescribeData, Written

-----------------------------------------------------------------------------
(* One lemma per action or two.                                             *)

LEMMA PipelineSteps ==
  CatalogInv /\ (CreatePipeline \/ DeletePipeline \/ DeleteLakebase \/ UNCHANGED vars) => CatalogInv'
<1> SUFFICES ASSUME CatalogInv,
                    CreatePipeline \/ DeletePipeline \/ DeleteLakebase \/ UNCHANGED vars
             PROVE  CatalogInv'
  OBVIOUS
<1>1. /\ UNCHANGED <<catalog, disk, reads, last_run, writer, stored, crossed, strayed, disturbed>>
      /\ pipeline' \in {"absent", "present", "deleted"} /\ lakebase' \in BOOLEAN
  BY DEF CreatePipeline, DeletePipeline, DeleteLakebase, vars, rows, setup, history,
         CatalogInv, TypeOK
<1>2. TypeOK'
  BY <1>1 DEF CatalogInv, TypeOK
<1>3. \A v \in Writer : WriterInv(v)'
  BY <1>1, OthersKeep DEF Written
<1>4. WrittenAtHome' /\ RowsDescribeData'
  BY <1>1, RowsKeep
<1>5. OkRunEnded' /\ OkRunIsComplete' /\ OkRunIsConsistent'
  BY <1>1, LastRunKeeps
<1> QED
  BY <1>2, <1>3, <1>4, <1>5 DEF CatalogInv

(* A request begins with nothing stored. *)
LEMMA StartKeeps ==
  ASSUME CatalogInv, NEW w \in Writer, writer[w] = Idle,
         NEW op \in {"upload", "sync", "run"}, NEW at \in {"write", "finish"},
         NEW todo \in Seq(Name),
         writer' = [writer EXCEPT ![w] = Busy(at, op, todo, TRUE, None)],
         at = "write" => Len(todo) > 0,
         at = "finish" => op = "run",
         op = "run" => todo \in Orders /\ (at = "finish" => todo = <<>>),
         UNCHANGED <<rows, setup, last_run, history>>
  PROVE  CatalogInv'
<1> DEFINE work == Busy(at, op, todo, TRUE, None)
<1>1. UNCHANGED <<catalog, disk, pipeline, reads, lakebase, last_run, stored, crossed, strayed, disturbed>>
  BY DEF rows, setup, history
<1>2. work \in WriterState
  BY DEF Busy, WriterState
<1>3. /\ work.at = at /\ work.op = op /\ work.todo = todo /\ work.ok = TRUE
      /\ work # Idle /\ work # Ended
  BY DEF Busy, Idle, Ended
<1>4. /\ writer' \in [Writer -> WriterState] /\ writer'[w] = work
      /\ \A v \in Writer \ {w} : writer'[v] = writer[v]
  BY <1>2 DEF CatalogInv, TypeOK
<1> HIDE DEF work
<1>5. TypeOK'
  BY <1>1, <1>3, <1>4 DEF CatalogInv, TypeOK
<1>6. \A v \in Writer \ {w} : WriterInv(v)'
  BY <1>1, <1>4, OthersKeep DEF Written
<1>7. WriterInv(w)'
  <2>1. w \notin strayed /\ \A n \in Name : <<w, n>> \notin stored
    BY DEF CatalogInv, WriterInv, StoresOnce
  <2>2. Left(w)' \subseteq Name
    <3>1. \A i \in DOMAIN todo : todo[i] \in Name
      OBVIOUS
    <3>2. writer'[w].todo = todo
      BY <1>3, <1>4
    <3> QED
      BY <3>1, <3>2 DEF Left
  <2>3. StoresOnce(w)' /\ StillThere(w)'
    BY <1>1, <1>3, <1>4, <2>1, <2>2 DEF StoresOnce, StillThere
  <2>4. Undisturbed(w)'
    BY <1>1, <2>1, DeclaredNames DEF Undisturbed
  <2>5. InOrder(w)'
    <3>r. Active(w)' /\ (Runs(w)' <=> op = "run")
      BY <1>3, <1>4 DEF Runs, Active
    <3> SUFFICES ASSUME op = "run" PROVE InOrder(w)'
      BY <1>3, <1>4, <3>r DEF InOrder
    <3>1. /\ todo \in Seq(Declared)
          /\ \A n \in Declared : \E i \in DOMAIN todo : todo[i] = n
          /\ \A i, j \in DOMAIN todo :
               /\ todo[i] = todo[j] => i = j
               /\ i <= j => todo[j] \notin reads[todo[i]]
      BY OrderIsOne
    <3>2. writer'[w].todo = todo /\ writer'[w].at = at
      BY <1>3, <1>4
    <3>3. Left(w)' = Declared
      <4>1. Left(w)' = {todo[i] : i \in DOMAIN todo}
        BY <3>2 DEF Left
      <4>2. \A i \in DOMAIN todo : todo[i] \in Declared
        BY <3>1
      <4> QED
        BY <3>1, <4>1, <4>2
    <3>4. ASSUME NEW i \in DOMAIN writer'[w].todo, NEW j \in DOMAIN writer'[w].todo
          PROVE  /\ writer'[w].todo[i] = writer'[w].todo[j] => i = j
                 /\ i <= j => writer'[w].todo[j] \notin reads'[writer'[w].todo[i]]
      <4>1. /\ i \in DOMAIN todo /\ j \in DOMAIN todo /\ reads' = reads
            /\ writer'[w].todo[i] = todo[i] /\ writer'[w].todo[j] = todo[j]
        BY <1>1, <3>2
      <4>2. /\ todo[i] = todo[j] => i = j
            /\ i <= j => todo[j] \notin reads[todo[i]]
        BY <3>1, <4>1
      <4> QED
        BY <4>1, <4>2
    <3>5. writer'[w].at = "finish" => writer'[w].todo = <<>>
      BY <3>2
    <3> QED
      BY <3>r, <3>3, <3>4, <3>5 DEF InOrder
  <2> QED
    BY <2>3, <2>4, <2>5 DEF WriterInv
<1>8. WrittenAtHome' /\ RowsDescribeData'
  BY <1>1, RowsKeep
<1>9. OkRunEnded' /\ OkRunIsComplete' /\ OkRunIsConsistent'
  <2>1. Idle # Ended
    BY DEF Idle, Ended
  <2>2. \A v \in Writer : writer[v] = Ended => writer'[v] = Ended
    BY <1>4, <2>1
  <2> QED
    BY <1>1, <2>2, LastRunKeeps
<1> QED
  BY <1>5, <1>6, <1>7, <1>8, <1>9 DEF CatalogInv

LEMMA StartSteps ==
  ASSUME CatalogInv, NEW w \in Writer,
         \/ \E n \in Name : StartUpload(w, n)
         \/ StartSync(w)
         \/ StartRun(w)
  PROVE  CatalogInv'
<1>1. CASE \E n \in Name : StartUpload(w, n)
  <2>1. PICK n \in Name : StartUpload(w, n)
    BY <1>1
  <2>2. PICK todo \in Seq(Name) : todo = <<n>> /\ Len(todo) > 0
    <3>1. <<n>> \in Seq(Name)
      OBVIOUS
    <3>2. Len(<<n>>) > 0
      OBVIOUS
    <3> QED
      BY <3>1, <3>2
  <2>3. /\ writer[w] = Idle /\ UNCHANGED <<rows, setup, last_run, history>>
        /\ writer' = [writer EXCEPT ![w] = Busy("write", "upload", todo, TRUE, None)]
    BY <2>1, <2>2 DEF StartUpload
  <2> QED
    BY <2>2, <2>3, StartKeeps
<1>2. CASE StartSync(w)
  <2>1. PICK todo \in Seq(Name) : todo = <<Synced>> /\ Len(todo) > 0
    <3>1. <<Synced>> \in Seq(Name)
      BY NamesAssumption
    <3>2. Len(<<Synced>>) > 0
      OBVIOUS
    <3> QED
      BY <3>1, <3>2
  <2>2. /\ writer[w] = Idle /\ UNCHANGED <<rows, setup, last_run, history>>
        /\ writer' = [writer EXCEPT ![w] = Busy("write", "sync", todo, TRUE, None)]
    BY <1>2, <2>1 DEF StartSync
  <2> QED
    BY <2>1, <2>2, StartKeeps
<1>3. CASE StartRun(w)
  <2>1. PICK order \in Orders :
          writer' = [writer EXCEPT ![w] =
            Busy(IF order = <<>> THEN "finish" ELSE "write", "run", order, TRUE, None)]
    BY <1>3 DEF StartRun
  <2>2. order \in Seq(Name) /\ (order # <<>> => Len(order) > 0)
    BY OrderIsOne, DeclaredNames
  <2>3. PICK at \in {"write", "finish"} :
          /\ writer' = [writer EXCEPT ![w] = Busy(at, "run", order, TRUE, None)]
          /\ at = IF order = <<>> THEN "finish" ELSE "write"
    BY <2>1
  <2>4. writer[w] = Idle /\ UNCHANGED <<rows, setup, last_run, history>>
    BY <1>3 DEF StartRun
  <2> QED
    BY <2>2, <2>3, <2>4, StartKeeps
<1> QED
  BY <1>1, <1>2, <1>3

(* Who ends leaves his data and everything else behind. *)
LEMMA EndSteps ==
  ASSUME CatalogInv, NEW w \in Writer,
         \/ RunCircular(w)
         \/ StoreRaises(w)
         \/ Failed(w) /\ ~Runs(w)
         \/ Failed(w) /\ pipeline = "deleted"
         \/ Finish(w)
  PROVE  CatalogInv'
<1>1. /\ writer' = [writer EXCEPT ![w] = Ended]
      /\ UNCHANGED <<catalog, disk, pipeline, reads, lakebase, stored, crossed, strayed, disturbed>>
  BY DEF RunCircular, StoreRaises, Failed, Finish, Advanced, rows, setup, history, Runs, Active
<1>2. Ended \in WriterState /\ Ended.at = "ended"
  BY DEF WriterState, Ended
<1>3. /\ writer' \in [Writer -> WriterState] /\ writer'[w] = Ended
      /\ \A v \in Writer \ {w} : writer'[v] = writer[v]
  BY <1>1, <1>2 DEF CatalogInv, TypeOK
<1>4. \A v \in Writer : WriterInv(v)'
  <2>1. \A v \in Writer \ {w} : WriterInv(v)'
    BY <1>1, <1>3, OthersKeep DEF Written
  <2> QED
    BY <1>3, <2>1, EndKeeps
<1>5. WrittenAtHome' /\ RowsDescribeData'
  BY <1>1, RowsKeep
<1>6. CASE last_run' = last_run
  <2>1. TypeOK'
    BY <1>1, <1>2, <1>3, <1>6 DEF CatalogInv, TypeOK
  <2>2. OkRunEnded' /\ OkRunIsComplete' /\ OkRunIsConsistent'
    BY <1>1, <1>3, <1>6, LastRunKeeps
  <2> QED
    BY <1>4, <1>5, <2>1, <2>2 DEF CatalogInv
<1>7. CASE last_run' = [status |-> "error", by |-> w]
  <2>1. last_run' \in [status : {"none", "ok", "error"}, by : Version]
    BY <1>7 DEF Version
  <2>2. TypeOK'
    BY <1>1, <1>2, <1>3, <2>1 DEF CatalogInv, TypeOK
  <2>3. OkRunEnded' /\ OkRunIsComplete' /\ OkRunIsConsistent'
    BY <1>7 DEF OkRunEnded, OkRunIsComplete, OkRunIsConsistent
  <2> QED
    BY <1>4, <1>5, <2>2, <2>3 DEF CatalogInv
<1>8. CASE Finish(w) /\ writer[w].ok /\ last_run' = [status |-> "ok", by |-> w]
  <2>1. last_run' \in [status : {"none", "ok", "error"}, by : Version]
    BY <1>8 DEF Version
  <2>2. TypeOK'
    BY <1>1, <1>2, <1>3, <2>1 DEF CatalogInv, TypeOK
  <2>3. writer[w] \in WriterState /\ writer[w].at = "finish" /\ Active(w)
    BY <1>8 DEF CatalogInv, TypeOK, Finish, Active
  <2>4. Runs(w)
    BY <2>3 DEF CatalogInv, WriterInv, InOrder
  <2>5. Left(w) = {} /\ \A n \in Declared \ Left(w) : <<w, n>> \in stored
    BY <1>8, <2>3, <2>4 DEF CatalogInv, WriterInv, InOrder, Left
  <2>6. \A n \in Declared : <<w, n>> \in stored
    BY <2>5
  <2>7. w \notin disturbed => w \notin strayed
    BY <1>8, <2>4 DEF CatalogInv, WriterInv, Undisturbed
  <2>8. OkRunEnded' /\ OkRunIsComplete' /\ OkRunIsConsistent'
    BY <1>1, <1>3, <1>8, <2>6, <2>7 DEF OkRunEnded, OkRunIsComplete, OkRunIsConsistent
  <2> QED
    BY <1>4, <1>5, <2>2, <2>8 DEF CatalogInv
<1> QED
  BY <1>6, <1>7, <1>8 DEF RunCircular, StoreRaises, Failed, Finish

(* A row of another's making, or none, is not a written one. *)
LEMMA RowSteps ==
  ASSUME CatalogInv, NEW w \in Writer, NEW n \in Name,
         DeleteTable(w, n) \/ \E path \in Name \cup {Elsewhere} : Register(w, n, path)
  PROVE  CatalogInv'
<1>1. /\ writer' = [writer EXCEPT ![w] = Ended] /\ writer[w] = Idle
      /\ disturbed' = disturbed \cup Disturbs(w, n)
      /\ UNCHANGED <<disk, pipeline, reads, lakebase, last_run, stored, crossed, strayed>>
  BY DEF DeleteTable, Register, setup
<1>2. PICK row \in Row \cup {None} :
        /\ catalog' = [catalog EXCEPT ![n] = row]
        /\ row = None \/ row.origin = "registered"
  <2>1. CASE DeleteTable(w, n)
    BY <2>1 DEF DeleteTable
  <2>2. CASE \E path \in Name \cup {Elsewhere} : Register(w, n, path)
    <3>1. PICK path \in Name \cup {Elsewhere} : Register(w, n, path)
      BY <2>2
    <3> DEFINE new == [id |-> w, path |-> path, origin |-> "registered", of |-> None]
    <3>2. new \in Row /\ new.origin = "registered"
      BY DEF Row
    <3>3. catalog' = [catalog EXCEPT ![n] = new]
      BY <3>1 DEF Register
    <3> HIDE DEF new
    <3> QED
      BY <3>2, <3>3
  <2> QED
    BY <2>1, <2>2
<1>3. /\ catalog' \in [Name -> Row \cup {None}] /\ catalog'[n] = row
      /\ \A m \in Name \ {n} : catalog'[m] = catalog[m]
  BY <1>2 DEF CatalogInv, TypeOK
<1>4. Ended \in WriterState /\ Ended.at = "ended" /\ Idle # Ended
  BY DEF WriterState, Ended, Idle
<1>5. /\ writer' \in [Writer -> WriterState] /\ writer'[w] = Ended
      /\ \A v \in Writer \ {w} : writer'[v] = writer[v]
  BY <1>1, <1>4 DEF CatalogInv, TypeOK
<1>6. disturbed' \subseteq Writer
  BY <1>1 DEF CatalogInv, TypeOK, Disturbs
<1>7. TypeOK'
  BY <1>1, <1>3, <1>4, <1>5, <1>6 DEF CatalogInv, TypeOK
<1>8. \A m \in Name : Written(m)' => Written(m) /\ catalog'[m] = catalog[m]
  BY <1>2, <1>3 DEF Written
<1>9. \A v \in Writer : WriterInv(v)'
  <2>1. \A v \in Writer \ {w} : WriterInv(v)'
    BY <1>1, <1>5, <1>8, DeclaredNames, OthersKeep
  <2> QED
    BY <1>5, <2>1, EndKeeps
<1>10. WrittenAtHome' /\ RowsDescribeData'
  BY <1>1, <1>8 DEF CatalogInv, WrittenAtHome, RowsDescribeData
<1>11. OkRunEnded' /\ OkRunIsComplete' /\ OkRunIsConsistent'
  BY <1>1, <1>4, <1>5, LastRunKeeps
<1> QED
  BY <1>7, <1>9, <1>10, <1>11 DEF CatalogInv

(* What a run reads that is not registered by hand, it has stored itself. *)
LEMMA ReadsItsOwn ==
  ASSUME CatalogInv, NEW w \in Writer, writer[w].at = "write", Runs(w), writer[w].ok,
         w \notin disturbed, NEW d \in reads[Target(w)], Written(d)
  PROVE  Data(d) = w
<1>1. /\ Target(w) = writer[w].todo[1] /\ 1 \in DOMAIN writer[w].todo
      /\ DOMAIN writer[w].todo = 1 .. Len(writer[w].todo)
      /\ TypeOK /\ InOrder(w) /\ Target(w) \in Name
  BY TodoGoesOn, TargetIsLeft DEF CatalogInv, WriterInv
<1>2. d \in Declared
  BY <1>1, NamesAssumption DEF TypeOK
<1>3. \A j \in DOMAIN writer[w].todo : 1 <= j /\ writer[w].todo[j] # d
  BY <1>1 DEF InOrder
<1>4. d \notin Left(w)
  BY <1>3 DEF Left
<1>6. d \in Declared /\ <<w, d>> \in stored
  BY <1>1, <1>2, <1>4 DEF InOrder
<1>7. disk[d] = w
  BY <1>6 DEF CatalogInv, WriterInv, Undisturbed
<1>8. d \in Name /\ catalog[d].path = d /\ catalog[d] # None
  BY <1>6, DeclaredNames DEF CatalogInv, WrittenAtHome, Written
<1> QED
  BY <1>7, <1>8, NamesAssumption DEF Data

(* A step of a writer that goes on with the same table. *)
LEMMA GoesOn ==
  ASSUME CatalogInv, NEW w \in Writer,
         writer[w].at \in {"write", "look", "store", "failed"},
         NEW at \in {"look", "store", "failed"}, NEW saw \in Writer \cup {None},
         writer' = [writer EXCEPT ![w] = [writer[w] EXCEPT !.at = at, !.saw = saw]],
         reads' = reads, stored' = stored
  PROVE  /\ writer' \in [Writer -> WriterState]
         /\ \A v \in Writer \ {w} : writer'[v] = writer[v]
         /\ writer'[w].at = at /\ Target(w)' = Target(w) /\ Len(writer'[w].todo) > 0
         /\ writer'[w].ok = writer[w].ok /\ (Runs(w)' <=> Runs(w))
         /\ InOrder(w)' /\ StoresOnce(w)'
<1> DEFINE work == [writer[w] EXCEPT !.at = at, !.saw = saw]
<1>1. writer[w] \in WriterState /\ writer[w] # Idle /\ writer[w] # Ended /\ Len(writer[w].todo) > 0
  BY DEF CatalogInv, TypeOK, Idle, Ended
<1>2. work \in WriterState \ {Idle, Ended}
  BY <1>1 DEF WriterState, Idle, Ended
<1>3. /\ work.at = at /\ work.todo = writer[w].todo /\ work.ok = writer[w].ok
      /\ work.op = writer[w].op
  BY <1>1 DEF WriterState
<1> HIDE DEF work
<1>4. /\ writer' \in [Writer -> WriterState] /\ writer'[w] = work
      /\ \A v \in Writer \ {w} : writer'[v] = writer[v]
  BY <1>2 DEF CatalogInv, TypeOK, work
<1>5. /\ Active(w) /\ Active(w)' /\ (Runs(w)' <=> Runs(w))
      /\ Target(w)' = Target(w) /\ Left(w)' = Left(w)
  BY <1>3, <1>4 DEF Active, Runs, Target, Left
<1>7. InOrder(w)'
  <2>1. InOrder(w)
    BY DEF CatalogInv, WriterInv
  <2> QED
    BY <1>3, <1>4, <1>5, <2>1 DEF InOrder
<1>8. StoresOnce(w)'
  BY <1>2, <1>4, <1>5 DEF CatalogInv, WriterInv, StoresOnce
<1> QED
  BY <1>1, <1>3, <1>4, <1>5, <1>7, <1>8

LEMMA TryKeeps ==
  ASSUME CatalogInv, NEW w \in Writer, Look(w) \/ WriteFails(w) PROVE CatalogInv'
<1>1. PICK at \in {"store", "failed"}, saw \in Writer \cup {None} :
        /\ writer' = [writer EXCEPT ![w] = [writer[w] EXCEPT !.at = at, !.saw = saw]]
        /\ at = "store" => writer[w].at = "look"
        /\ writer[w].at \in {"write", "look"}
  <2>1. writer[w].at \in {"write", "look"}
    BY DEF Look, WriteFails
  <2>2. writer[w] \in WriterState \ {Idle, Ended} /\ Target(w) \in Name
    <3>1. Target(w) \in Name
      BY <2>1, TargetIsLeft
    <3>2. writer[w] \in WriterState /\ writer[w] # Idle /\ writer[w] # Ended
      BY <2>1 DEF CatalogInv, TypeOK, Idle, Ended
    <3> QED
      BY <3>1, <3>2
  <2>3. CASE Look(w)
    <3>1. RowId(Target(w)) \in Writer \cup {None}
      BY <2>2 DEF RowId, CatalogInv, TypeOK, Row
    <3>2. writer' = [writer EXCEPT ![w] = [writer[w] EXCEPT !.at = "store", !.saw = RowId(Target(w))]]
      BY <2>3 DEF Look, CatalogInv, TypeOK
    <3> QED
      BY <2>3, <3>1, <3>2 DEF Look
  <2>4. CASE WriteFails(w)
    <3>1. writer[w].saw \in Writer \cup {None}
      BY <2>2 DEF WriterState
    <3>2. [writer[w] EXCEPT !.at = "failed", !.saw = writer[w].saw] = [writer[w] EXCEPT !.at = "failed"]
      BY <2>2 DEF WriterState
    <3> QED
      BY <2>4, <3>1, <3>2 DEF WriteFails
  <2> QED
    BY <2>3, <2>4
<1>2. UNCHANGED <<catalog, disk, pipeline, reads, lakebase, last_run, stored, crossed, strayed, disturbed>>
  BY DEF Look, WriteFails, rows, setup, history
<1>3. /\ writer' \in [Writer -> WriterState]
      /\ \A v \in Writer \ {w} : writer'[v] = writer[v]
      /\ writer'[w].at = at /\ Target(w)' = Target(w) /\ Len(writer'[w].todo) > 0
      /\ writer'[w].ok = writer[w].ok /\ (Runs(w)' <=> Runs(w))
      /\ InOrder(w)' /\ StoresOnce(w)'
  BY <1>1, <1>2, GoesOn
<1>4. TypeOK'
  BY <1>2, <1>3 DEF CatalogInv, TypeOK
<1>5. WriterInv(w)'
  <2>1. StillThere(w) /\ Undisturbed(w)
    BY DEF CatalogInv, WriterInv
  <2>2. StillThere(w)' /\ Undisturbed(w)'
    BY <1>1, <1>2, <1>3, <2>1 DEF StillThere, Undisturbed, Written
  <2> QED
    BY <1>3, <2>2 DEF WriterInv
<1>6. \A v \in Writer \ {w} : WriterInv(v)'
  BY <1>2, <1>3, OthersKeep DEF Written
<1>7. WrittenAtHome' /\ RowsDescribeData'
  BY <1>2, RowsKeep
<1>8. OkRunEnded' /\ OkRunIsComplete' /\ OkRunIsConsistent'
  <2>1. \A v \in Writer : writer[v] = Ended => writer'[v] = Ended
    BY <1>1, <1>3 DEF Ended
  <2> QED
    BY <1>2, <2>1, LastRunKeeps
<1> QED
  BY <1>4, <1>5, <1>6, <1>7, <1>8 DEF CatalogInv

(* The write: it crosses who is about to store the table, and disturbs the runs. *)
LEMMA WriteKeeps == ASSUME CatalogInv, NEW w \in Writer, Write(w) PROVE CatalogInv'
<1> DEFINE n == Target(w)
<1>1. writer[w].at = "write" /\ n \in Name /\ n \in Left(w) /\ <<w, n>> \notin stored /\ Active(w)
  BY TargetIsLeft DEF Write
<1>2. PICK at \in {"look", "store", "failed"} :
        writer' = [writer EXCEPT ![w] = [writer[w] EXCEPT !.at = at]]
  BY DEF Write, CatalogInv, TypeOK
<1>3. /\ disk' = [disk EXCEPT ![n] = w]
      /\ crossed' = IF \E v \in Writer \ {w} : Between(v, n) THEN crossed \cup {n} ELSE crossed
      /\ strayed' = IF writer[w].op = "run" /\ \E d \in reads[n] : Written(d) /\ Data(d) # w
                      THEN strayed \cup {w} ELSE strayed
      /\ disturbed' = disturbed \cup Disturbs(w, n)
      /\ UNCHANGED <<catalog, pipeline, reads, lakebase, last_run, stored>>
  BY DEF Write, setup
<1> HIDE DEF n
<1>4. /\ disk' \in [Name -> Version] /\ disk'[n] = w
      /\ \A m \in Name \ {n} : disk'[m] = disk[m]
  BY <1>1, <1>3 DEF CatalogInv, TypeOK, Version
<1>5. crossed \subseteq crossed' /\ disturbed \subseteq disturbed'
  BY <1>3
<1>6. crossed' \subseteq Name /\ strayed' \subseteq Writer /\ disturbed' \subseteq Writer
  BY <1>1, <1>3 DEF CatalogInv, TypeOK, Disturbs
<1>7. /\ writer' \in [Writer -> WriterState]
      /\ \A v \in Writer \ {w} : writer'[v] = writer[v]
      /\ writer'[w].at = at /\ Target(w)' = Target(w) /\ Len(writer'[w].todo) > 0
      /\ writer'[w].ok = writer[w].ok /\ (Runs(w)' <=> Runs(w))
      /\ InOrder(w)' /\ StoresOnce(w)'
  <2>1. writer[w] \in WriterState /\ writer[w] # Idle /\ writer[w] # Ended
    BY <1>1 DEF CatalogInv, TypeOK, Idle, Ended
  <2>2. writer[w].saw \in Writer \cup {None}
    BY <2>1 DEF WriterState
  <2>3. [writer[w] EXCEPT !.at = at, !.saw = writer[w].saw] = [writer[w] EXCEPT !.at = at]
    BY <2>1 DEF WriterState
  <2>4. writer' = [writer EXCEPT ![w] =
                     [writer[w] EXCEPT !.at = at, !.saw = writer[w].saw]]
    BY <1>2, <2>3
  <2>5. reads' = reads /\ stored' = stored
    BY <1>3
  <2> QED
    BY <1>1, <2>2, <2>4, <2>5, GoesOn
<1>8. TypeOK'
  BY <1>3, <1>4, <1>6, <1>7 DEF CatalogInv, TypeOK
<1>9. WriterInv(w)'
  <2>1. StillThere(w)'
    BY <1>4, <1>7, NamesAssumption DEF StillThere, n
  <2>2. Undisturbed(w)'
    <3> SUFFICES ASSUME Runs(w), w \notin disturbed' PROVE Undisturbed(w)'
      BY <1>7 DEF Undisturbed
    <3>1. w \notin disturbed /\ Undisturbed(w)
      BY <1>5 DEF CatalogInv, WriterInv
    <3>2. ASSUME NEW m \in Declared, <<w, m>> \in stored', Written(m)' PROVE disk'[m] = w
      <4>1. m \in Name /\ <<w, m>> \in stored /\ Written(m)
        BY <1>3, <3>2, DeclaredNames DEF Written
      <4> QED
        BY <1>4, <3>1, <4>1 DEF Undisturbed
    <3>3. writer'[w].ok => w \notin strayed'
      <4> SUFFICES ASSUME writer[w].ok PROVE w \notin strayed'
        BY <1>7
      <4>1. \A d \in reads[n] : Written(d) => Data(d) = w
        BY <1>1, <3>1, ReadsItsOwn DEF n
      <4>2. w \notin strayed
        BY <3>1 DEF Undisturbed
      <4> QED
        BY <1>3, <4>1, <4>2
    <3> QED
      BY <3>2, <3>3 DEF Undisturbed
  <2> QED
    BY <1>7, <2>1, <2>2 DEF WriterInv
<1>10. ASSUME NEW v \in Writer \ {w} PROVE WriterInv(v)'
  <2>1. Between(v, n) => n \in crossed'
    BY <1>3
  <2>2. Runs(v) /\ n \in Declared => v \in disturbed'
    BY <1>3 DEF Disturbs, Runs
  <2>3. v \in strayed' => v \in strayed
    BY <1>3
  <2>4. \A m \in Name :
          \/ disk'[m] = disk[m]
          \/ /\ disk'[m] # None
             /\ Between(v, m) => m \in crossed'
             /\ Runs(v) /\ m \in Declared => v \in disturbed'
    BY <1>4, <2>1, <2>2, NamesAssumption
  <2>5. \A m : Written(m)' <=> Written(m)
    BY <1>3 DEF Written
  <2> QED
    BY <1>3, <1>5, <1>7, <2>3, <2>4, <2>5, OthersKeep
<1>11. WrittenAtHome' /\ RowsDescribeData'
  <2>1. \A m : (Written(m)' <=> Written(m)) /\ catalog'[m] = catalog[m]
    BY <1>3 DEF Written
  <2>2. WrittenAtHome'
    BY <1>4, <2>1, NamesAssumption DEF CatalogInv, WrittenAtHome
  <2>3. RowsDescribeData'
    BY <1>1, <1>3, <1>4, <1>5, <2>1 DEF CatalogInv, RowsDescribeData
  <2> QED
    BY <2>2, <2>3
<1>12. OkRunEnded' /\ OkRunIsComplete' /\ OkRunIsConsistent'
  <2>1. \A v \in Writer : writer[v] = Ended => writer'[v] = Ended
    BY <1>1, <1>7 DEF Ended
  <2>2. \A v \in Writer : v \in strayed' => v \in strayed \/ Active(v)
    BY <1>1, <1>3
  <2> QED
    BY <1>3, <1>5, <2>1, <2>2, LastRunKeeps
<1> QED
  BY <1>8, <1>9, <1>10, <1>11, <1>12 DEF CatalogInv

(* On to the next table, or to the end of the run. *)
LEMMA RunAdvances ==
  ASSUME CatalogInv, NEW w \in Writer, Runs(w), writer[w].at \in {"store", "failed"},
         NEW stores \in BOOLEAN,
         writer' = [writer EXCEPT ![w] = Advanced(w, stores)],
         reads' = reads, stored \subseteq stored', stored' \subseteq stored \cup {<<w, Target(w)>>},
         stores => <<w, Target(w)>> \in stored'
  PROVE  /\ writer' \in [Writer -> WriterState]
         /\ \A v \in Writer \ {w} : writer'[v] = writer[v]
         /\ writer'[w].at \in {"write", "finish"}
         /\ writer'[w].at = "write" => Len(writer'[w].todo) > 0
         /\ Runs(w)' /\ (writer'[w].ok => writer[w].ok /\ stores)
         /\ InOrder(w)' /\ StoresOnce(w)'
<1> DEFINE todo == writer[w].todo
           rest == Tail(todo)
<1>1. /\ writer[w] \in WriterState /\ Target(w) = todo[1]
      /\ Len(todo) \in Nat \ {0} /\ DOMAIN todo = 1 .. Len(todo)
      /\ rest \in Seq(Name) /\ Len(rest) = Len(todo) - 1 /\ DOMAIN rest = 1 .. Len(todo) - 1
      /\ \A i \in DOMAIN rest : rest[i] = todo[i + 1] /\ i + 1 \in DOMAIN todo
  BY TodoGoesOn
<1>2. InOrder(w) /\ StoresOnce(w)
  BY DEF CatalogInv, WriterInv
<1>3. writer[w].ok \in BOOLEAN
  BY <1>1 DEF WriterState, Runs, Active, Idle, Ended
<1>4. PICK at \in {"write", "finish"}, ok \in BOOLEAN :
        /\ Advanced(w, stores) = Busy(at, "run", rest, ok, None)
        /\ at = "finish" <=> Len(todo) = 1
        /\ ok <=> writer[w].ok /\ stores
  <2>1. Advanced(w, stores) = Busy(IF Len(todo) = 1 THEN "finish" ELSE "write",
                                   "run", rest, writer[w].ok /\ stores, None)
    BY DEF Advanced, Runs
  <2>2. (writer[w].ok /\ stores) \in BOOLEAN
    OBVIOUS
  <2>3. (IF Len(todo) = 1 THEN "finish" ELSE "write") = "finish" <=> Len(todo) = 1
    OBVIOUS
  <2> QED
    BY <2>1, <2>2, <2>3
<1> DEFINE work == Busy(at, "run", rest, ok, None)
<1>5. /\ work.at = at /\ work.op = "run" /\ work.todo = rest /\ work.ok = ok
      /\ work \in WriterState
  BY <1>1 DEF Busy, WriterState
<1>6. work # Idle
  BY <1>5 DEF Idle
<1>7. writer' = [writer EXCEPT ![w] = work]
  BY <1>4
<1> HIDE DEF work
<1>8. /\ writer' \in [Writer -> WriterState] /\ writer'[w] = work
      /\ \A v \in Writer \ {w} : writer'[v] = writer[v]
  BY <1>5, <1>7 DEF CatalogInv, TypeOK
<1>9. Runs(w)' /\ Active(w)'
  BY <1>5, <1>8 DEF Runs, Active
<1>10. Left(w)' = {rest[i] : i \in DOMAIN rest}
  <2> HIDE DEF rest
  <2>1. writer'[w].todo = rest
    BY <1>5, <1>8
  <2> QED
    BY <2>1 DEF Left
<1>11. Left(w) = Left(w)' \cup {Target(w)} /\ Target(w) \notin Left(w)'
  <2> HIDE DEF rest, todo
  <2>1. Left(w) = {todo[i] : i \in DOMAIN todo}
    BY DEF Left, todo
  <2>2. \A i \in DOMAIN todo : i = 1 \/ (i - 1 \in DOMAIN rest /\ todo[i] = rest[i - 1])
    <3>1. ASSUME NEW i \in DOMAIN todo, i # 1 PROVE i - 1 \in DOMAIN rest /\ todo[i] = rest[i - 1]
      <4>1. i - 1 \in DOMAIN rest /\ (i - 1) + 1 = i
        BY <1>1, <3>1
      <4> QED
        BY <1>1, <4>1
    <3> QED
      BY <3>1
  <2>3. \A i \in DOMAIN rest : i + 1 # 1
    BY <1>1
  <2>4. \A i, j \in DOMAIN todo : todo[i] = todo[j] => i = j
    BY <1>2 DEF InOrder, todo
  <2>5. 1 \in DOMAIN todo
    BY <1>1
  <2>6. \A n \in Left(w) : n = Target(w) \/ n \in Left(w)'
    BY <1>1, <1>10, <2>1, <2>2
  <2>7. Left(w)' \subseteq Left(w) /\ Target(w) \in Left(w)
    BY <1>1, <1>10, <2>1, <2>5
  <2>8. Target(w) \notin Left(w)'
    <3> SUFFICES ASSUME NEW i \in DOMAIN rest, rest[i] = Target(w) PROVE FALSE
      BY <1>10
    <3> QED
      BY <1>1, <2>3, <2>4, <2>5
  <2> QED
    BY <2>6, <2>7, <2>8
<1>12. InOrder(w)'
  <2>1. Left(w)' \subseteq Declared
    BY <1>2, <1>11 DEF InOrder
  <2>2. ASSUME NEW i \in DOMAIN rest, NEW j \in DOMAIN rest
        PROVE  /\ rest[i] = rest[j] => i = j
               /\ i <= j => rest[j] \notin reads[rest[i]]
    <3> HIDE DEF rest, todo
    <3>1. /\ i + 1 \in DOMAIN todo /\ j + 1 \in DOMAIN todo
          /\ rest[i] = todo[i + 1] /\ rest[j] = todo[j + 1]
          /\ i + 1 = j + 1 => i = j
          /\ i <= j => i + 1 <= j + 1
      BY <1>1
    <3>2. /\ todo[i + 1] = todo[j + 1] => i + 1 = j + 1
          /\ i + 1 <= j + 1 => todo[j + 1] \notin reads[todo[i + 1]]
      BY <1>2, <3>1 DEF InOrder, todo
    <3> QED
      BY <3>1, <3>2
  <2>3. ok => \A n \in Declared \ Left(w)' : <<w, n>> \in stored'
    BY <1>2, <1>4, <1>11 DEF InOrder
  <2>4. at = "finish" => rest = <<>>
    BY <1>1, <1>4
  <2> HIDE DEF rest
  <2> QED
    BY <1>5, <1>8, <1>9, <2>1, <2>2, <2>3, <2>4 DEF InOrder
<1>13. StoresOnce(w)'
  BY <1>2, <1>6, <1>8, <1>11 DEF StoresOnce, Runs
<1>14. at = "write" => Len(rest) > 0
  <2>1. at = "write" => Len(todo) # 1
    BY <1>4
  <2> HIDE DEF rest, todo
  <2> QED
    BY <1>1, <2>1
<1> QED
  BY <1>4, <1>5, <1>8, <1>9, <1>12, <1>13, <1>14

LEMMA FailedKeeps ==
  ASSUME CatalogInv, NEW w \in Writer, Failed(w), Runs(w), pipeline # "deleted"
  PROVE  CatalogInv'
<1>1. /\ writer[w].at = "failed" /\ writer' = [writer EXCEPT ![w] = Advanced(w, FALSE)]
      /\ UNCHANGED <<catalog, disk, pipeline, reads, lakebase, last_run, stored, crossed, strayed, disturbed>>
  BY DEF Failed, rows, setup, history
<1>2. /\ writer' \in [Writer -> WriterState]
      /\ \A v \in Writer \ {w} : writer'[v] = writer[v]
      /\ writer'[w].at \in {"write", "finish"}
      /\ writer'[w].at = "write" => Len(writer'[w].todo) > 0
      /\ Runs(w)' /\ ~writer'[w].ok
      /\ InOrder(w)' /\ StoresOnce(w)'
  BY <1>1, RunAdvances
<1>3. TypeOK'
  BY <1>1, <1>2 DEF CatalogInv, TypeOK
<1>4. WriterInv(w)'
  <2>1. StillThere(w)'
    BY <1>2 DEF StillThere
  <2>2. Undisturbed(w)'
    BY <1>1, <1>2 DEF CatalogInv, WriterInv, Undisturbed, Written
  <2> QED
    BY <1>2, <2>1, <2>2 DEF WriterInv
<1>5. \A v \in Writer \ {w} : WriterInv(v)'
  BY <1>1, <1>2, OthersKeep DEF Written
<1>6. WrittenAtHome' /\ RowsDescribeData'
  BY <1>1, RowsKeep
<1>7. OkRunEnded' /\ OkRunIsComplete' /\ OkRunIsConsistent'
  <2>1. writer[w] # Ended
    BY <1>1 DEF Ended
  <2>2. \A v \in Writer : writer[v] = Ended => writer'[v] = Ended
    BY <1>2, <2>1
  <2> QED
    BY <1>1, <2>2, LastRunKeeps
<1> QED
  BY <1>3, <1>4, <1>5, <1>6, <1>7 DEF CatalogInv

(* The commit: the row describes what its writer has written. *)
LEMMA StoreKeeps == ASSUME CatalogInv, NEW w \in Writer, Store(w) PROVE CatalogInv'
<1> DEFINE n == Target(w)
<1>1. /\ writer[w].at = "store" /\ n \in Name /\ Active(w)
      /\ disk[n] # None /\ (n \notin crossed => disk[n] = w)
      /\ (Runs(w) /\ w \notin disturbed => disk[n] = w)
  BY TargetIsLeft DEF Store, CatalogInv, WriterInv, StillThere
<1>2. /\ writer' = [writer EXCEPT ![w] = Advanced(w, TRUE)]
      /\ stored' = stored \cup {<<w, n>>}
      /\ disturbed' = disturbed \cup Disturbs(w, n)
      /\ UNCHANGED <<disk, pipeline, reads, lakebase, last_run, crossed, strayed>>
  BY DEF Store, setup
<1>3. PICK row \in Row :
        /\ catalog' = [catalog EXCEPT ![n] = row] /\ row.of = w
        /\ \/ row.path = n
           \/ catalog[n] # None /\ row.path = catalog[n].path /\ row.origin = catalog[n].origin
  <2>1. CASE writer[w].saw = None
    <3>1. NewRow(w) \in Row /\ NewRow(w).of = w /\ NewRow(w).path = n
      BY <1>1 DEF NewRow, Row
    <3>2. catalog' = [catalog EXCEPT ![n] = NewRow(w)]
      BY <2>1 DEF Store
    <3> QED
      BY <3>1, <3>2
  <2>2. CASE writer[w].saw # None
    <3>1. catalog[n] \in Row /\ catalog[n] # None
      BY <1>1, <2>2 DEF Store, RowId, CatalogInv, TypeOK
    <3> DEFINE row == [catalog[n] EXCEPT !.of = w]
    <3>2. /\ row \in Row /\ row.of = w
          /\ row.path = catalog[n].path /\ row.origin = catalog[n].origin
      BY <3>1 DEF Row
    <3>3. catalog' = [catalog EXCEPT ![n] = row]
      BY <2>2 DEF Store, Refreshed
    <3> HIDE DEF row
    <3> QED
      BY <3>1, <3>2, <3>3
  <2> QED
    BY <2>1, <2>2
<1> HIDE DEF n
<1>4. /\ catalog' \in [Name -> Row \cup {None}] /\ catalog'[n] = row
      /\ \A m \in Name \ {n} : catalog'[m] = catalog[m]
  BY <1>1, <1>3 DEF CatalogInv, TypeOK
<1>5. /\ stored' \subseteq Writer \X Name /\ disturbed' \subseteq Writer
      /\ stored \subseteq stored' /\ disturbed \subseteq disturbed'
  BY <1>1, <1>2 DEF CatalogInv, TypeOK, Disturbs
<1>6. /\ writer' \in [Writer -> WriterState]
      /\ \A v \in Writer \ {w} : writer'[v] = writer[v]
      /\ writer'[w].at \in {"write", "look", "store", "failed"} => Len(writer'[w].todo) > 0
      /\ WriterInv(w)'
  <2>1. CASE Runs(w)
    <3>1. /\ writer' \in [Writer -> WriterState]
          /\ \A v \in Writer \ {w} : writer'[v] = writer[v]
          /\ writer'[w].at \in {"write", "finish"}
          /\ writer'[w].at = "write" => Len(writer'[w].todo) > 0
          /\ Runs(w)' /\ (writer'[w].ok => writer[w].ok)
          /\ InOrder(w)' /\ StoresOnce(w)'
      BY <1>1, <1>2, <2>1, RunAdvances DEF n
    <3>2. StillThere(w)'
      BY <3>1 DEF StillThere
    <3>3. Undisturbed(w)'
      <4> SUFFICES ASSUME w \notin disturbed' PROVE Undisturbed(w)'
        BY DEF Undisturbed
      <4>1. w \notin disturbed /\ Undisturbed(w)
        BY <1>5 DEF CatalogInv, WriterInv
      <4>2. ASSUME NEW m \in Declared, <<w, m>> \in stored', Written(m)' PROVE disk'[m] = w
        <5>1. CASE m = n
          BY <1>1, <1>2, <2>1, <4>1, <5>1
        <5>2. CASE m # n
          <6>1. <<w, m>> \in stored /\ m \in Name
            BY <1>2, <4>2, <5>2, DeclaredNames
          <6>2. Written(m)
            BY <1>4, <4>2, <5>2, <6>1 DEF Written
          <6> QED
            BY <1>2, <2>1, <4>1, <6>1, <6>2 DEF Undisturbed
        <5> QED
          BY <5>1, <5>2
      <4>3. writer'[w].ok => w \notin strayed'
        BY <1>2, <2>1, <3>1, <4>1 DEF Undisturbed
      <4> QED
        BY <4>2, <4>3 DEF Undisturbed
    <3> QED
      BY <3>1, <3>2, <3>3 DEF WriterInv
  <2>2. CASE ~Runs(w)
    <3>1. Advanced(w, TRUE) = Ended
      BY <1>1, <2>2 DEF Advanced, Runs
    <3>2. Ended \in WriterState /\ Ended.at = "ended"
      BY DEF WriterState, Ended
    <3>3. /\ writer' \in [Writer -> WriterState] /\ writer'[w] = Ended
          /\ \A v \in Writer \ {w} : writer'[v] = writer[v]
      BY <1>2, <3>1, <3>2 DEF CatalogInv, TypeOK
    <3> QED
      BY <3>2, <3>3, EndKeeps
  <2> QED
    BY <2>1, <2>2
<1>7. TypeOK'
  BY <1>2, <1>4, <1>5, <1>6 DEF CatalogInv, TypeOK
<1>8. ASSUME NEW v \in Writer \ {w} PROVE WriterInv(v)'
  <2>1. Runs(v) /\ n \in Declared => v \in disturbed'
    BY <1>2 DEF Disturbs, Runs
  <2>2. \A m \in Declared : Written(m)' /\ ~Written(m) /\ Runs(v) => v \in disturbed'
    BY <1>4, <2>1, DeclaredNames DEF Written
  <2>3. \A m \in Name : <<v, m>> \in stored' => <<v, m>> \in stored
    BY <1>2
  <2> QED
    BY <1>2, <1>5, <1>6, <2>2, <2>3, OthersKeep
<1>9. WrittenAtHome'
  <2>1. ASSUME NEW m \in Name, Written(m)' PROVE catalog'[m].path = m /\ disk'[m] # None
    <3>1. CASE m = n
      <4>1. row.path = n
        BY <1>1, <1>3, <1>4, <2>1, <3>1 DEF CatalogInv, WrittenAtHome, Written
      <4> QED
        BY <1>1, <1>2, <1>4, <3>1, <4>1
    <3>2. CASE m # n
      BY <1>2, <1>4, <2>1, <3>2 DEF CatalogInv, WrittenAtHome, Written
    <3> QED
      BY <3>1, <3>2
  <2> QED
    BY <2>1 DEF WrittenAtHome
<1>10. RowsDescribeData'
  <2>1. ASSUME NEW m \in Name, Written(m)'
        PROVE  catalog'[m].of = disk'[m] \/ m \in crossed' \/ <<disk'[m], m>> \notin stored'
    <3>1. CASE m = n
      BY <1>1, <1>2, <1>3, <1>4, <3>1
    <3>2. CASE m # n
      BY <1>2, <1>4, <2>1, <3>2 DEF CatalogInv, RowsDescribeData, Written
    <3> QED
      BY <3>1, <3>2
  <2> QED
    BY <2>1 DEF RowsDescribeData
<1>11. OkRunEnded' /\ OkRunIsComplete' /\ OkRunIsConsistent'
  <2>1. \A v \in Writer : writer[v] = Ended => writer'[v] = Ended
    BY <1>1, <1>6 DEF Ended
  <2> QED
    BY <1>2, <1>5, <2>1, LastRunKeeps
<1> QED
  BY <1>6, <1>7, <1>8, <1>9, <1>10, <1>11 DEF CatalogInv

LEMMA CrashKeeps == ASSUME CatalogInv, Crash PROVE CatalogInv'
<1>1. /\ UNCHANGED <<catalog, disk, pipeline, reads, lakebase, last_run, stored, crossed, strayed, disturbed>>
      /\ writer' = [w \in Writer |-> IF Active(w) THEN Ended ELSE writer[w]]
  BY DEF Crash, rows, setup, history
<1>2. Ended \in WriterState /\ Ended.at = "ended"
  BY DEF WriterState, Ended
<1>3. /\ writer' \in [Writer -> WriterState]
      /\ \A v \in Writer : writer'[v] = writer[v] \/ writer'[v] = Ended
  BY <1>1, <1>2 DEF CatalogInv, TypeOK
<1>4. TypeOK'
  BY <1>1, <1>2, <1>3 DEF CatalogInv, TypeOK
<1>5. \A v \in Writer : WriterInv(v)'
  <2>1. ASSUME NEW v \in Writer, writer'[v] = writer[v] PROVE WriterInv(v)'
    BY <1>1, <2>1, OthersKeep DEF Written
  <2> QED
    BY <1>3, <2>1, EndKeeps
<1>6. WrittenAtHome' /\ RowsDescribeData'
  BY <1>1, RowsKeep
<1>7. OkRunEnded' /\ OkRunIsComplete' /\ OkRunIsConsistent'
  BY <1>1, <1>3, LastRunKeeps
<1> QED
  BY <1>4, <1>5, <1>6, <1>7 DEF CatalogInv

-----------------------------------------------------------------------------
LEMMA CatalogStep == CatalogInv /\ [Next]_vars => CatalogInv'
<1> SUFFICES ASSUME CatalogInv, [Next]_vars PROVE CatalogInv'
  OBVIOUS
<1>1. ASSUME NEW w \in Writer, Request(w) PROVE CatalogInv'
  BY <1>1, StartSteps, EndSteps, RowSteps DEF Request
<1>2. ASSUME NEW w \in Writer, Proceed(w) PROVE CatalogInv'
  <2>1. CASE Failed(w)
    BY <2>1, FailedKeeps, EndSteps
  <2> QED
    BY <1>2, <2>1, WriteKeeps, TryKeeps, StoreKeeps, EndSteps DEF Proceed
<1> QED
  BY <1>1, <1>2, PipelineSteps, CrashKeeps DEF Next

LEMMA CatalogHolds == Spec => []CatalogInv
BY CatalogStarts, CatalogStep, PTL DEF Spec

(* The variables have their types, whoever writes what at once. *)
THEOREM CatalogTypeCorrect == Spec => []TypeOK
BY CatalogHolds, PTL DEF CatalogInv

(* A row that was not registered by hand has data in its own directory, for any
   number of writers and any deletes and crashes between them: a row comes after
   the job that wrote its data, and no directory is ever emptied (main.py 573-583,
   1321-1330, 1445-1462, 1813-1839). *)
THEOREM RowsHaveData == Spec => []RowsBacked
<1>1. CatalogInv => RowsBacked
  BY DEF CatalogInv, WrittenAtHome, RowsBacked
<1> QED
  BY <1>1, CatalogHolds, PTL

(* For any number of writers: a written row describes its data unless two writers
   of the name crossed, or the last of them has not stored what it wrote. *)
THEOREM RowsTellOfTheirData == Spec => []RowsDescribeData
BY CatalogHolds, PTL DEF CatalogInv

(* For any declarations and any order of them: a run that ends ok has stored every
   table of its pipeline, whatever failed or was deleted meanwhile. *)
THEOREM OkRunsAreComplete == Spec => []OkRunIsComplete
BY CatalogHolds, PTL DEF CatalogInv

(* And, if nobody else touched them meanwhile, has built each from what it had
   itself just built. *)
THEOREM OkRunsAreConsistent == Spec => []OkRunIsConsistent
BY CatalogHolds, PTL DEF CatalogInv
=============================================================================
