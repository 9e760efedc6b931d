-------------------------- MODULE PipelinesProofs --------------------------
(***************************************************************************)
(* The depth-first search is right for any tables, whatever each mentions  *)
(* and in whatever order the query returns them: it orders them or names a *)
(* circle, and implements DependencyOrder.                                 *)
(***************************************************************************)
EXTENDS Pipelines, TLAPS

(* What the helpers on the stack of calls return. *)
LEMMA AdvancedPlaces ==
  ASSUME NEW c \in Seq(Nat \ {0}), NEW L, L = Len(c), L # 0
  PROVE  /\ Advanced(c) \in Seq(Nat \ {0}) /\ Len(Advanced(c)) = L
         /\ Advanced(c)[L] = c[L] + 1
         /\ \A k \in 1 .. L : k # L => Advanced(c)[k] = c[k]
         /\ \A k \in 1 .. L : c[k] \in Nat
<1>1. L \in Nat /\ L \in 1 .. L /\ DOMAIN c = 1 .. L /\ c \in [1 .. L -> Nat \ {0}]
  OBVIOUS
<1>2. Advanced(c) = [c EXCEPT ![L] = c[L] + 1] /\ c[L] + 1 \in Nat \ {0}
  BY <1>1 DEF Advanced
<1>3. /\ Advanced(c) \in [1 .. L -> Nat \ {0}] /\ Advanced(c)[L] = c[L] + 1
      /\ \A k \in 1 .. L : k # L => Advanced(c)[k] = c[k]
  BY <1>1, <1>2
<1>4. Advanced(c) \in Seq(Nat \ {0}) /\ Len(Advanced(c)) = L
  BY <1>1, <1>3
<1> QED
  BY <1>1, <1>3, <1>4

LEMMA PoppedFront ==
  ASSUME NEW S, NEW s \in Seq(S), s # <<>>
  PROVE  /\ Popped(s) \in Seq(S) /\ Len(Popped(s)) = Len(s) - 1
         /\ \A k \in 1 .. Len(s) - 1 : Popped(s)[k] = s[k]
<1>1. Len(s) \in Nat \ {0} /\ DOMAIN s = 1 .. Len(s)
  OBVIOUS
<1>2. Popped(s) = [k \in 1 .. Len(s) - 1 |-> s[k]]
  <2>1. Popped(s) = [k \in 1 .. (Len(s) - 1) - 1 + 1 |-> s[k + 1 - 1]]
    BY <1>1 DEF Popped
  <2>2. (Len(s) - 1) - 1 + 1 = Len(s) - 1 /\ \A k \in 1 .. Len(s) - 1 : k + 1 - 1 = k
    BY <1>1
  <2> QED
    BY <2>1, <2>2
<1>3. Len(s) - 1 \in Nat /\ \A k \in 1 .. Len(s) - 1 : s[k] \in S
  BY <1>1
<1> QED
  BY <1>2, <1>3

LEMMA SearchStarts == Init => SearchInv
<1> SUFFICES ASSUME Init PROVE SearchInv
  OBVIOUS
<1>1. TypeOK
  BY DEF Init, TypeOK
<1>2. OnPath /\ GonePast /\ OrderSoFar /\ SearchRight
  BY DEF Init, OnPath, GonePast, OrderSoFar, SearchRight
<1> QED
  BY <1>1, <1>2 DEF SearchInv

(* The graph and what it is read by. *)
LEMMA GraphTypes ==
  ASSUME TypeOK
  PROVE  /\ names \in Seq(Table) /\ \A t \in Table : \E i \in DOMAIN names : names[i] = t
         /\ \A t \in Table : Reads(t) \subseteq Table
BY QueriesAssumption, MentionsAssumption DEF TypeOK, Reads

LEMMA GraphStays ==
  ASSUME UNCHANGED graphVars
  PROVE  names' = names /\ mentions' = mentions /\ (\A t : Reads(t)' = Reads(t)) /\ Waits' = Waits
BY DEF graphVars, Reads, Waits

(* The innermost loop, as long as it goes on. *)
LEMMA AtCalled ==
  ASSUME TypeOK, More
  PROVE  /\ Len(cursor) \in Nat /\ Len(cursor) = Len(path) + 1 /\ Len(path) \in Nat
         /\ cursor[Len(cursor)] \in DOMAIN names /\ Called \in Table
         /\ outcome = "searching"
<1>1. names \in Seq(Table)
  BY GraphTypes
<1>2. Len(cursor) \in Nat /\ Len(cursor) = Len(path) + 1 /\ Len(path) \in Nat
  BY DEF TypeOK
<1>3. cursor[Len(cursor)] \in Nat \ {0}
  BY <1>2 DEF TypeOK
<1> QED
  BY <1>1, <1>2, <1>3 DEF More, Called

LEMMA PassOverKeeps == SearchInv /\ PassOver => SearchInv'
<1> SUFFICES ASSUME SearchInv, PassOver PROVE SearchInv'
  OBVIOUS
<1>1. /\ Wanted => Called \in visited
      /\ cursor' = Advanced(cursor)
      /\ UNCHANGED <<graphVars, outcome, path, temp_mark, visited, order>>
      /\ TypeOK /\ More
  BY DEF PassOver, SearchInv
<1> DEFINE L == Len(cursor)
<1>2. /\ L \in Nat /\ L = Len(path) + 1 /\ Len(path) \in Nat
      /\ cursor[L] \in DOMAIN names /\ Called = names[cursor[L]]
  BY <1>1, AtCalled DEF Called
<1>3. /\ cursor' \in Seq(Nat \ {0}) /\ Len(cursor') = L
      /\ cursor'[L] = cursor[L] + 1
      /\ \A k \in 1 .. L : k # L => cursor'[k] = cursor[k]
      /\ \A k \in 1 .. L : cursor[k] \in Nat
  <2>1. cursor \in Seq(Nat \ {0}) /\ L # 0
    BY <1>1, <1>2 DEF TypeOK
  <2> QED
    BY <1>1, <2>1, AdvancedPlaces
<1>4. names' = names /\ (\A t : Reads(t)' = Reads(t)) /\ Waits' = Waits /\ mentions' = mentions
  BY <1>1, GraphStays
<1>5. TypeOK'
  BY <1>1, <1>2, <1>3, <1>4 DEF TypeOK
<1>6. OnPath'
  <2>1. \A k \in DOMAIN path : k \in 1 .. L /\ k # L
    BY <1>1, <1>2 DEF TypeOK
  <2> QED
    BY <1>1, <1>3, <1>4, <2>1 DEF SearchInv, OnPath
<1>7. GonePast'
  <2>1. ASSUME NEW i \in 1 .. cursor'[1] - 1, i \in DOMAIN names PROVE names[i] \in visited
    <3>1. CASE i \in 1 .. cursor[1] - 1
      BY <2>1, <3>1 DEF SearchInv, GonePast
    <3>2. CASE i \notin 1 .. cursor[1] - 1
      <4>1. 1 \in 1 .. L /\ L = 1 /\ i = cursor[1]
        BY <1>2, <1>3, <2>1, <3>2
      <4>2. Wanted
        BY <1>1, <1>2, <4>1 DEF Wanted, TypeOK
      <4> QED
        BY <1>1, <1>2, <4>1, <4>2
    <3> QED
      BY <3>1, <3>2
  <2>2. ASSUME NEW k \in DOMAIN path, NEW i \in 1 .. cursor'[k + 1] - 1,
               i \in DOMAIN names, names[i] \in Reads(path[k])
        PROVE  names[i] \in visited
    <3>0. k \in 1 .. Len(path) /\ k + 1 \in 1 .. L
      BY <1>1, <1>2 DEF TypeOK
    <3>1. CASE i \in 1 .. cursor[k + 1] - 1
      BY <2>2, <3>1 DEF SearchInv, GonePast
    <3>2. CASE i \notin 1 .. cursor[k + 1] - 1
      <4>1. k + 1 = L /\ i = cursor[L] /\ k = Len(path)
        <5>1. k + 1 = L
          BY <1>3, <2>2, <3>0, <3>2
        <5>2. i \in 1 .. cursor[L] + 1 - 1 /\ i \notin 1 .. cursor[L] - 1 /\ cursor[L] \in Nat
          BY <1>3, <2>2, <3>0, <3>2, <5>1
        <5> QED
          BY <1>2, <3>0, <5>1, <5>2
      <4>2. Wanted
        BY <1>2, <2>2, <4>1 DEF Wanted, Innermost
      <4> QED
        BY <1>1, <1>2, <4>1, <4>2
    <3> QED
      BY <3>1, <3>2
  <2> QED
    BY <1>1, <1>4, <2>1, <2>2 DEF GonePast
<1>8. OrderSoFar' /\ SearchRight'
  BY <1>1, <1>4 DEF SearchInv, OrderSoFar, SearchRight
<1> QED
  BY <1>5, <1>6, <1>7, <1>8 DEF SearchInv

(* From the marked table on, each table of the path is read by the one before it,
   and the last one reads the first. *)
LEMMA RaiseKeeps == SearchInv /\ Raise => SearchInv' /\ \E S \in SUBSET Table : Circular(S, Waits)
<1> SUFFICES ASSUME SearchInv, Raise
             PROVE  SearchInv' /\ \E S \in SUBSET Table : Circular(S, Waits)
  OBVIOUS
<1>1. /\ Wanted /\ Called \in temp_mark \ visited /\ outcome' = "ValueError"
      /\ UNCHANGED <<graphVars, path, cursor, temp_mark, visited, order>>
      /\ TypeOK /\ More /\ OnPath
  BY DEF Raise, SearchInv
<1>2. /\ path \in Seq(Table) /\ Len(path) \in Nat /\ DOMAIN path = 1 .. Len(path)
  BY <1>1 DEF TypeOK
<1>3. PICK j \in 1 .. Len(path) : path[j] = Called
  BY <1>1, <1>2 DEF OnPath
<1>4. Called \in Reads(path[Len(path)])
  BY <1>1, <1>2, <1>3 DEF Wanted, Innermost
<1> DEFINE S == {path[k] : k \in j .. Len(path)}
<1>5. S \in SUBSET Table /\ Called \in S
  BY <1>2, <1>3
<1>6. ASSUME NEW t \in S PROVE Waits[t] \cap S # {}
  <2>1. PICK k \in j .. Len(path) : t = path[k]
    OBVIOUS
  <2>2. t \in Table /\ Waits[t] = Reads(t)
    BY <1>5 DEF Waits
  <2>3. CASE k = Len(path)
    BY <1>4, <1>5, <2>1, <2>2, <2>3
  <2>4. CASE k # Len(path)
    <3>1. k + 1 \in j .. Len(path) /\ k + 1 > 1 /\ k + 1 \in 1 .. Len(path) /\ (k + 1) - 1 = k
      BY <1>2, <2>1, <2>4
    <3>2. path[k + 1] \in Reads(path[k])
      <4>1. path[k + 1] \in Reads(path[(k + 1) - 1])
        BY <1>1, <1>2, <3>1 DEF OnPath
      <4> QED
        BY <3>1, <4>1
    <3> QED
      BY <2>1, <2>2, <3>1, <3>2
  <2> QED
    BY <2>3, <2>4
<1>7. Circular(S, Waits)
  BY <1>5, <1>6 DEF Circular
<1>8. names' = names /\ mentions' = mentions /\ (\A t : Reads(t)' = Reads(t)) /\ Waits' = Waits
  BY <1>1, GraphStays
<1>9. \E R \in SUBSET Table : Circular(R, Waits)
  BY <1>5, <1>7
<1> HIDE DEF S
<1>10. TypeOK' /\ OnPath' /\ GonePast' /\ OrderSoFar'
  <2>1. TypeOK'
    BY <1>1, <1>8 DEF TypeOK
  <2>2. OnPath'
    BY <1>1, <1>8 DEF OnPath
  <2>3. GonePast'
    BY <1>1, <1>8 DEF SearchInv, GonePast
  <2>4. OrderSoFar'
    BY <1>1, <1>8 DEF SearchInv, OrderSoFar
  <2> QED
    BY <2>1, <2>2, <2>3, <2>4
<1>11. SearchRight'
  BY <1>1, <1>8, <1>9 DEF SearchRight
<1> QED
  BY <1>9, <1>10, <1>11 DEF SearchInv

LEMMA EnterKeeps == SearchInv /\ Enter => SearchInv'
<1> SUFFICES ASSUME SearchInv, Enter PROVE SearchInv'
  OBVIOUS
<1>1. /\ Wanted /\ Called \notin temp_mark \cup visited
      /\ temp_mark' = temp_mark \cup {Called}
      /\ path' = Append(path, Called)
      /\ cursor' = Append(cursor, 1)
      /\ UNCHANGED <<graphVars, outcome, visited, order>>
      /\ TypeOK /\ More /\ OnPath
  BY DEF Enter, SearchInv
<1> DEFINE P == Len(path)
<1>2. /\ P \in Nat /\ Len(cursor) = P + 1 /\ Called \in Table
      /\ cursor[P + 1] \in DOMAIN names /\ Called = names[cursor[P + 1]]
      /\ outcome = "searching"
  BY <1>1, AtCalled DEF Called
<1>3. /\ path' \in Seq(Table) /\ Len(path') = P + 1 /\ path'[P + 1] = Called
      /\ \A k \in 1 .. P : path'[k] = path[k]
      /\ DOMAIN path = 1 .. P /\ DOMAIN path' = 1 .. P + 1
  BY <1>1, <1>2 DEF TypeOK
<1>4. /\ cursor' \in Seq(Nat \ {0}) /\ Len(cursor') = P + 2 /\ cursor'[P + 2] = 1
      /\ \A k \in 1 .. P + 1 : cursor'[k] = cursor[k]
  BY <1>1, <1>2 DEF TypeOK
<1>5. names' = names /\ mentions' = mentions /\ (\A t : Reads(t)' = Reads(t)) /\ Waits' = Waits
  BY <1>1, GraphStays
<1>6. TypeOK'
  <2>1. Len(cursor') = Len(path') + 1
    BY <1>2, <1>3, <1>4
  <2>2. temp_mark' \in SUBSET Table
    BY <1>1, <1>2 DEF TypeOK
  <2> QED
    BY <1>1, <1>3, <1>4, <1>5, <2>1, <2>2 DEF TypeOK
<1>7. OnPath'
  <2>1. temp_mark' = {path'[k] : k \in DOMAIN path'}
    BY <1>1, <1>2, <1>3 DEF OnPath
  <2>2. \A k \in 1 .. P : path[k] # Called
    BY <1>1, <1>3 DEF OnPath
  <2>3. \A j, k \in DOMAIN path' : path'[j] = path'[k] => j = k
    BY <1>1, <1>2, <1>3, <2>2 DEF OnPath
  <2>4. ASSUME NEW k \in DOMAIN path'
        PROVE  /\ path'[k] \notin visited
               /\ cursor'[k] \in DOMAIN names /\ names[cursor'[k]] = path'[k]
               /\ k > 1 => path'[k] \in Reads(path'[k - 1])
    <3>1. CASE k \in 1 .. P
      <4>1. k > 1 => k - 1 \in 1 .. P
        BY <3>1
      <4> QED
        BY <1>1, <1>2, <1>3, <1>4, <3>1, <4>1 DEF OnPath
    <3>2. CASE k = P + 1
      <4>1. k > 1 => P \in 1 .. P /\ path # <<>> /\ k - 1 = P
        BY <1>2, <3>2
      <4>2. k > 1 => Called \in Reads(path[P])
        BY <1>1, <4>1 DEF Wanted, Innermost
      <4> QED
        BY <1>1, <1>2, <1>3, <1>4, <3>2, <4>1, <4>2
    <3> QED
      BY <1>2, <1>3, <3>1, <3>2
  <2> QED
    BY <1>1, <1>5, <2>1, <2>3, <2>4 DEF OnPath
<1>8. GonePast'
  <2>1. cursor'[1] = cursor[1]
    BY <1>2, <1>4
  <2>2. ASSUME NEW k \in DOMAIN path', NEW i \in 1 .. cursor'[k + 1] - 1,
               i \in DOMAIN names, names[i] \in Reads(path'[k])
        PROVE  names[i] \in visited
    <3>1. CASE k \in 1 .. P
      <4>1. k + 1 \in 1 .. P + 1 /\ path'[k] = path[k] /\ cursor'[k + 1] = cursor[k + 1]
        BY <1>2, <1>3, <1>4, <3>1
      <4> QED
        BY <1>3, <2>2, <3>1, <4>1 DEF SearchInv, GonePast
    <3>2. CASE k = P + 1
      <4>1. (P + 1) + 1 = P + 2
        BY <1>2
      <4>2. cursor'[k + 1] = 1
        BY <1>4, <3>2, <4>1
      <4> QED
        BY <2>2, <4>2
    <3> QED
      BY <1>2, <1>3, <3>1, <3>2
  <2> QED
    BY <1>1, <1>5, <2>1, <2>2 DEF SearchInv, GonePast
<1>9. OrderSoFar' /\ SearchRight'
  BY <1>1, <1>2, <1>5 DEF SearchInv, OrderSoFar, SearchRight
<1> QED
  BY <1>6, <1>7, <1>8, <1>9 DEF SearchInv

(* A visit ends when all its table reads is visited, so the order may go on with it. *)
LEMMA AllRead ==
  ASSUME SearchInv, outcome = "searching", ~More, path # <<>>
  PROVE  /\ Len(path) \in Nat \ {0} /\ Innermost \in Table /\ Innermost \notin visited
         /\ Reads(Innermost) \subseteq visited
<1>1. TypeOK /\ OnPath /\ GonePast
  BY DEF SearchInv
<1> DEFINE P == Len(path)
<1>2. P \in Nat \ {0} /\ DOMAIN path = 1 .. P /\ P \in DOMAIN path /\ Len(cursor) = P + 1
  BY <1>1 DEF TypeOK
<1>3. Innermost \in Table /\ Innermost = path[P]
  BY <1>1, <1>2 DEF TypeOK, Innermost
<1>4. /\ names \in Seq(Table) /\ Reads(Innermost) \subseteq Table
      /\ \A t \in Table : \E i \in DOMAIN names : names[i] = t
  BY <1>1, <1>3, GraphTypes
<1>5. cursor[P + 1] \in Nat \ {0} /\ cursor[P + 1] > Len(names)
  BY <1>1, <1>2, <1>4 DEF TypeOK, More
<1>6. ASSUME NEW t \in Reads(Innermost) PROVE t \in visited
  <2>1. PICK i \in DOMAIN names : names[i] = t
    BY <1>4
  <2>2. i \in 1 .. cursor[P + 1] - 1
    BY <1>4, <1>5
  <2> QED
    BY <1>1, <1>2, <1>3, <2>1, <2>2 DEF GonePast
<1> QED
  BY <1>1, <1>2, <1>3, <1>6 DEF OnPath

LEMMA LeaveKeeps == SearchInv /\ Leave => SearchInv'
<1> SUFFICES ASSUME SearchInv, Leave PROVE SearchInv'
  OBVIOUS
<1>1. /\ outcome = "searching" /\ ~More /\ path # <<>>
      /\ temp_mark' = temp_mark \ {Innermost}
      /\ visited' = visited \cup {Innermost}
      /\ order' = Append(order, Innermost)
      /\ path' = Popped(path)
      /\ cursor' = Advanced(Popped(cursor))
      /\ UNCHANGED <<graphVars, outcome>>
      /\ TypeOK /\ OnPath /\ GonePast /\ OrderSoFar
  BY DEF Leave, SearchInv
<1> DEFINE P == Len(path)
<1>2. /\ P \in Nat \ {0} /\ Innermost \in Table /\ Innermost \notin visited
      /\ Reads(Innermost) \subseteq visited /\ Innermost = path[P]
  BY <1>1, AllRead DEF Innermost
<1>3. /\ path' \in Seq(Table) /\ Len(path') = P - 1
      /\ \A k \in 1 .. P - 1 : path'[k] = path[k]
      /\ DOMAIN path = 1 .. P /\ DOMAIN path' = 1 .. P - 1
  <2>1. path \in Seq(Table) /\ path # <<>> /\ P - 1 \in Nat
    BY <1>1, <1>2 DEF TypeOK
  <2>2. /\ path' \in Seq(Table) /\ Len(path') = P - 1
        /\ \A k \in 1 .. P - 1 : path'[k] = path[k]
    BY <1>1, <2>1, PoppedFront
  <2> QED
    BY <2>1, <2>2
<1>4. /\ cursor' \in Seq(Nat \ {0}) /\ Len(cursor') = P
      /\ \A k \in 1 .. P - 1 : cursor'[k] = cursor[k]
      /\ cursor'[P] = cursor[P] + 1 /\ cursor[P] \in Nat
  <2> DEFINE c == Popped(cursor)
  <2>1. cursor \in Seq(Nat \ {0}) /\ Len(cursor) = P + 1
    BY <1>1 DEF TypeOK
  <2>2. /\ c \in Seq(Nat \ {0}) /\ Len(c) = P
        /\ \A k \in 1 .. P : c[k] = cursor[k] /\ cursor[k] \in Nat
    <3>1. cursor # <<>> /\ (P + 1) - 1 = P
      BY <1>2, <2>1
    <3>2. c \in Seq(Nat \ {0}) /\ Len(c) = P /\ \A k \in 1 .. P : c[k] = cursor[k]
      BY <2>1, <3>1, PoppedFront
    <3>3. \A k \in 1 .. P : cursor[k] \in Nat
      BY <1>2, <2>1
    <3> QED
      BY <3>2, <3>3
  <2>3. cursor' = Advanced(c)
    BY <1>1
  <2> HIDE DEF c
  <2>4. /\ cursor' \in Seq(Nat \ {0}) /\ Len(cursor') = P /\ cursor'[P] = c[P] + 1
        /\ \A k \in 1 .. P : k # P => cursor'[k] = c[k]
    BY <1>2, <2>2, <2>3, AdvancedPlaces
  <2>5. P \in 1 .. P /\ \A k \in 1 .. P - 1 : k \in 1 .. P /\ k # P
    BY <1>2
  <2> QED
    BY <2>2, <2>4, <2>5
<1>5. names' = names /\ mentions' = mentions /\ (\A t : Reads(t)' = Reads(t)) /\ Waits' = Waits
  BY <1>1, GraphStays
<1>6. TypeOK'
  <2>1. Len(cursor') = Len(path') + 1
    BY <1>2, <1>3, <1>4
  <2>2. temp_mark' \in SUBSET Table /\ visited' \in SUBSET Table /\ order' \in Seq(Table)
    BY <1>1, <1>2 DEF TypeOK
  <2> QED
    BY <1>1, <1>3, <1>4, <1>5, <2>1, <2>2 DEF TypeOK
<1>7. OnPath'
  <2>1. \A k \in 1 .. P - 1 : path[k] # path[P]
    BY <1>1, <1>2, <1>3 DEF OnPath
  <2>2. temp_mark' = {path'[k] : k \in DOMAIN path'}
    <3>1. temp_mark = {path[k] : k \in 1 .. P}
      BY <1>1, <1>3 DEF OnPath
    <3>2. 1 .. P = (1 .. P - 1) \cup {P}
      BY <1>2
    <3>3. temp_mark = {path[k] : k \in 1 .. P - 1} \cup {path[P]}
      BY <3>1, <3>2
    <3>4. temp_mark' = {path[k] : k \in 1 .. P - 1}
      BY <1>1, <1>2, <2>1, <3>3
    <3> QED
      BY <1>3, <3>4
  <2>3. ASSUME NEW k \in DOMAIN path'
        PROVE  /\ path'[k] \notin visited'
               /\ cursor'[k] \in DOMAIN names /\ names[cursor'[k]] = path'[k]
               /\ k > 1 => path'[k] \in Reads(path'[k - 1])
    <3>0. k \in 1 .. P - 1 /\ path'[k] = path[k] /\ cursor'[k] = cursor[k]
      BY <1>3, <1>4
    <3>1. k \in 1 .. P /\ k \in 1 .. P - 1 /\ path'[k] = path[k] /\ cursor'[k] = cursor[k]
      BY <1>2, <3>0
    <3>2. k > 1 => k - 1 \in 1 .. P - 1 /\ path'[k - 1] = path[k - 1]
      BY <1>2, <1>3, <3>1
    <3> QED
      BY <1>1, <1>2, <1>3, <2>1, <3>1, <3>2 DEF OnPath
  <2>4. \A j, k \in DOMAIN path' : path'[j] = path'[k] => j = k
    BY <1>1, <1>2, <1>3 DEF OnPath
  <2> QED
    BY <1>5, <2>2, <2>3, <2>4 DEF OnPath
<1>8. GonePast'
  <2>1. ASSUME NEW i \in 1 .. cursor'[1] - 1, i \in DOMAIN names PROVE names[i] \in visited'
    <3>1. CASE i \in 1 .. cursor[1] - 1
      BY <1>1, <2>1, <3>1 DEF GonePast
    <3>2. CASE i \notin 1 .. cursor[1] - 1
      <4>1. P = 1 /\ i = cursor[P]
        <5>1. P # 1 => 1 \in 1 .. P - 1
          BY <1>2
        <5>2. P = 1
          BY <1>4, <2>1, <3>2, <5>1
        <5>3. i \in 1 .. cursor[P] + 1 - 1 /\ i \notin 1 .. cursor[P] - 1
          BY <1>4, <2>1, <3>2, <5>2
        <5> QED
          BY <1>4, <5>2, <5>3
      <4>2. names[cursor[P]] = path[P]
        BY <1>1, <1>2, <1>3 DEF OnPath
      <4> QED
        BY <1>1, <1>2, <4>1, <4>2
    <3> QED
      BY <3>1, <3>2
  <2>2. ASSUME NEW k \in DOMAIN path', NEW i \in 1 .. cursor'[k + 1] - 1,
               i \in DOMAIN names, names[i] \in Reads(path'[k])
        PROVE  names[i] \in visited'
    <3>0. k \in 1 .. P - 1 /\ k \in DOMAIN path /\ path'[k] = path[k] /\ k + 1 \in 1 .. P
      BY <1>2, <1>3
    <3>1. CASE i \in 1 .. cursor[k + 1] - 1
      BY <1>1, <2>2, <3>0, <3>1 DEF GonePast
    <3>2. CASE i \notin 1 .. cursor[k + 1] - 1
      <4>1. k + 1 = P /\ i = cursor[P]
        <5>1. k + 1 # P => k + 1 \in 1 .. P - 1
          BY <1>2, <3>0
        <5>2. k + 1 = P
          BY <1>4, <2>2, <3>2, <5>1
        <5>3. i \in 1 .. cursor[P] + 1 - 1 /\ i \notin 1 .. cursor[P] - 1
          BY <1>4, <2>2, <3>2, <5>2
        <5> QED
          BY <1>4, <5>2, <5>3
      <4>2. names[cursor[P]] = path[P]
        BY <1>1, <1>2, <1>3 DEF OnPath
      <4> QED
        BY <1>1, <1>2, <4>1, <4>2
    <3> QED
      BY <3>1, <3>2
  <2> QED
    BY <1>5, <2>1, <2>2 DEF GonePast
<1>9. OrderSoFar'
  <2> DEFINE N == Len(order)
  <2>1. order \in Seq(Table) /\ N \in Nat /\ DOMAIN order = 1 .. N
    BY <1>1 DEF TypeOK
  <2>2. /\ DOMAIN order' = 1 .. N + 1 /\ order'[N + 1] = Innermost
        /\ \A i \in 1 .. N : order'[i] = order[i]
    BY <1>1, <1>2, <2>1
  <2>3. visited' = {order'[i] : i \in DOMAIN order'}
    BY <1>1, <2>1, <2>2 DEF OrderSoFar
  <2>4. \A i \in 1 .. N : order[i] # Innermost
    BY <1>1, <1>2, <2>1 DEF OrderSoFar
  <2>5. \A i, j \in DOMAIN order' : order'[i] = order'[j] => i = j
    BY <1>1, <2>1, <2>2, <2>4 DEF OrderSoFar
  <2>6. ASSUME NEW i \in DOMAIN order', NEW t \in Reads(order'[i])
        PROVE  \E j \in 1 .. i - 1 : order'[j] = t
    <3>1. CASE i \in 1 .. N
      <4>1. PICK j \in 1 .. i - 1 : order[j] = t
        BY <1>1, <2>1, <2>2, <2>6, <3>1 DEF OrderSoFar
      <4>2. j \in 1 .. N
        BY <2>1, <3>1
      <4> QED
        BY <2>2, <4>1, <4>2
    <3>2. CASE i = N + 1
      <4>1. t \in visited
        BY <1>2, <2>2, <2>6, <3>2
      <4>2. PICK j \in 1 .. N : order[j] = t
        BY <1>1, <2>1, <4>1 DEF OrderSoFar
      <4>3. i - 1 = N
        BY <2>1, <3>2
      <4> QED
        BY <2>2, <4>2, <4>3
    <3> QED
      BY <2>1, <2>2, <3>1, <3>2
  <2> QED
    BY <1>5, <2>3, <2>5, <2>6 DEF OrderSoFar
<1>10. SearchRight'
  BY <1>1 DEF SearchRight
<1> QED
  BY <1>6, <1>7, <1>8, <1>9, <1>10 DEF SearchInv

(* The outer loop is through: every table has been visited. *)
LEMMA ReturnKeeps == SearchInv /\ Return => SearchInv' /\ visited = Table
<1> SUFFICES ASSUME SearchInv, Return PROVE SearchInv' /\ visited = Table
  OBVIOUS
<1>1. /\ outcome = "searching" /\ ~More /\ path = <<>> /\ outcome' = "ordered"
      /\ UNCHANGED <<graphVars, path, cursor, temp_mark, visited, order>>
      /\ TypeOK /\ OnPath /\ GonePast /\ OrderSoFar
  BY DEF Return, SearchInv
<1>2. /\ names \in Seq(Table) /\ \A t \in Table : \E i \in DOMAIN names : names[i] = t
  BY <1>1, GraphTypes
<1>3. Len(cursor) = 1 /\ cursor[1] \in Nat \ {0} /\ cursor[1] > Len(names)
  <2>1. Len(path) = 0 /\ Len(names) \in Nat
    BY <1>1, <1>2
  <2>2. Len(cursor) = 1 /\ cursor \in Seq(Nat \ {0})
    BY <1>1, <2>1 DEF TypeOK
  <2>3. cursor[1] \in Nat \ {0}
    BY <2>2
  <2> QED
    BY <1>1, <2>1, <2>2, <2>3 DEF More
<1>4. ASSUME NEW t \in Table PROVE t \in visited
  <2>1. PICK i \in DOMAIN names : names[i] = t
    BY <1>2
  <2>2. i \in 1 .. cursor[1] - 1
    BY <1>2, <1>3
  <2> QED
    BY <1>1, <2>1, <2>2 DEF GonePast
<1>5. visited = Table
  BY <1>1, <1>4 DEF TypeOK
<1>6. names' = names /\ mentions' = mentions /\ (\A t : Reads(t)' = Reads(t)) /\ Waits' = Waits
  BY <1>1, GraphStays
<1>7. TypeOK' /\ OnPath' /\ GonePast' /\ OrderSoFar'
  BY <1>1, <1>6 DEF TypeOK, OnPath, GonePast, OrderSoFar
<1>8. BuildOrder(Table, Waits, order)
  <2>1. \A i \in DOMAIN order : order[i] \in Table /\ Waits[order[i]] = Reads(order[i])
    BY <1>1 DEF TypeOK, Waits
  <2> QED
    BY <1>1, <1>5, <2>1 DEF TypeOK, OrderSoFar, BuildOrder
<1>9. SearchRight'
  BY <1>1, <1>6, <1>8 DEF SearchRight
<1> QED
  BY <1>5, <1>7, <1>9 DEF SearchInv

LEMMA SearchStep == SearchInv /\ [Next \/ Ended]_vars => SearchInv'
<1> SUFFICES ASSUME SearchInv, [Next \/ Ended]_vars PROVE SearchInv'
  OBVIOUS
<1>1. CASE UNCHANGED vars
  <2>1. /\ UNCHANGED <<graphVars, outcome, path, cursor, temp_mark, visited, order>>
        /\ names' = names /\ mentions' = mentions /\ (\A t : Reads(t)' = Reads(t)) /\ Waits' = Waits
    BY <1>1, GraphStays DEF vars, searchVars
  <2> QED
    BY <2>1 DEF SearchInv, TypeOK, OnPath, GonePast, OrderSoFar, SearchRight
<1> QED
  BY <1>1, PassOverKeeps, RaiseKeeps, EnterKeeps, LeaveKeeps, ReturnKeeps DEF Next, Ended
-----------------------------------------------------------------------------
LEMMA SearchHolds == Spec => []SearchInv
BY SearchStarts, SearchStep, PTL DEF Spec

(* The search's variables have their types, at any depth of the calls. *)
THEOREM SearchTypeCorrect == Spec => []TypeOK
BY SearchHolds, PTL DEF SearchInv

(* The marks are the visits under way, each entered from the one that reads it:
   what makes a mark that is met again a circle (pipelines.py 29-32). *)
THEOREM MarksAreThePath == Spec => []OnPath
BY SearchHolds, PTL DEF SearchInv

(* For any tables and mentions: what is returned is an order of them, each after
   all it reads, and a ValueError has its circle. *)
THEOREM SearchIsRight == Spec => []SearchRight
BY SearchHolds, PTL DEF SearchInv

(* A visit that ends places its table as DependencyOrder allows, and every other
   step but the last changes nothing that DependencyOrder sees. *)
LEMMA OrderingStep ==
  SearchInv /\ [Next \/ Ended]_vars => [Ordering!Next]_(Ordering!vars)
<1> SUFFICES ASSUME SearchInv, [Next \/ Ended]_vars PROVE [Ordering!Next]_(Ordering!vars)
  OBVIOUS
<1> DEFINE Batches == [i \in DOMAIN order |-> {order[i]}]
<1>1. Ordering!Placed = visited
  <2>1. Ordering!Placed = UNION {{order[i]} : i \in DOMAIN order}
    BY DEF Ordering!Placed
  <2> QED
    BY <2>1 DEF SearchInv, OrderSoFar
<1>2. CASE UNCHANGED graphVars /\ outcome' = outcome /\ order' = order
  BY <1>2, GraphStays DEF Ordering!vars
<1>3. CASE Leave
  <2>1. /\ outcome = "searching" /\ ~More /\ path # <<>>
        /\ order' = Append(order, Innermost)
        /\ outcome' = outcome /\ UNCHANGED graphVars
    BY <1>3 DEF Leave
  <2>2. /\ Innermost \in Table /\ Innermost \notin visited /\ Reads(Innermost) \subseteq visited
    BY <2>1, AllRead
  <2>3. Batches' = Append(Batches, {Innermost})
    <3>1. order \in Seq(Table) /\ Len(order) \in Nat /\ DOMAIN order = 1 .. Len(order)
      BY DEF SearchInv, TypeOK
    <3>2. /\ DOMAIN order' = 1 .. Len(order) + 1 /\ order'[Len(order) + 1] = Innermost
          /\ \A i \in 1 .. Len(order) : order'[i] = order[i]
      BY <2>1, <2>2, <3>1
    <3> DEFINE n == Len(order)
               f == [i \in 1 .. n |-> {order[i]}]
               g == [i \in 1 .. n + 1 |-> {order'[i]}]
    <3>3. Batches = f /\ Batches' = g
      BY <3>1, <3>2
    <3>4. f \in Seq(SUBSET Table) /\ Len(f) = n
      BY <3>1
    <3>5. /\ DOMAIN Append(f, {Innermost}) = 1 .. n + 1
          /\ \A i \in 1 .. n : Append(f, {Innermost})[i] = f[i]
          /\ Append(f, {Innermost})[n + 1] = {Innermost}
          /\ Append(f, {Innermost}) \in Seq(SUBSET Table)
      <4> HIDE DEF f
      <4> QED
        BY <2>2, <3>1, <3>4
    <3>6. \A i \in 1 .. n + 1 : g[i] = Append(f, {Innermost})[i]
      BY <3>1, <3>2, <3>5
    <3>7. g \in Seq(SUBSET Table) /\ Len(g) = n + 1
      <4>1. \A i \in 1 .. n + 1 : {order'[i]} \in SUBSET Table
        BY <2>2, <3>1, <3>2
      <4>2. n + 1 \in Nat
        BY <3>1
      <4> QED
        BY <4>1, <4>2
    <3>8. Len(Append(f, {Innermost})) = n + 1
      <4> HIDE DEF f
      <4> QED
        BY <2>2, <3>1, <3>4
    <3> HIDE DEF f, g
    <3>9. g = Append(f, {Innermost})
      BY <3>5, <3>6, <3>7, <3>8
    <3> QED
      BY <3>3, <3>9
  <2>4. Waits[Innermost] = Reads(Innermost) /\ Waits' = Waits
    BY <2>1, <2>2, GraphStays DEF Waits
  <2>5. PICK S \in SUBSET Table : S = {Innermost}
    BY <2>2
  <2>6. Ordering!Place(S)
    BY <1>1, <2>1, <2>2, <2>3, <2>4, <2>5 DEF Ordering!Place
  <2> QED
    BY <2>6 DEF Ordering!Next
<1>4. CASE Raise
  <2>1. /\ outcome = "searching" /\ outcome' = "ValueError"
        /\ UNCHANGED <<graphVars, order>>
    BY <1>4 DEF Raise, More
  <2>2. \E S \in SUBSET Table : Circular(S, Waits)
    BY <1>4, RaiseKeeps
  <2>3. \E S \in SUBSET Table : Ordering!Circular(S, Waits)
    BY <2>2 DEF Circular, Ordering!Circular
  <2>4. Ordering!RefuseCircle
    BY <2>1, <2>3, GraphStays DEF Ordering!RefuseCircle
  <2> QED
    BY <2>4 DEF Ordering!Next
<1>5. CASE Return
  <2>1. /\ outcome = "searching" /\ outcome' = "ordered"
        /\ UNCHANGED <<graphVars, order>>
    BY <1>5 DEF Return
  <2>2. visited = Table /\ Waits' = Waits
    BY <1>5, <2>1, ReturnKeeps, GraphStays
  <2>3. Ordering!Finish
    BY <1>1, <2>1, <2>2 DEF Ordering!Finish
  <2> QED
    BY <2>3 DEF Ordering!Next
<1>6. CASE PassOver \/ Enter \/ UNCHANGED vars
  <2>1. UNCHANGED graphVars /\ outcome' = outcome /\ order' = order
    BY <1>6 DEF PassOver, Enter, vars, searchVars
  <2> QED
    BY <1>2, <2>1
<1> QED
  BY <1>3, <1>4, <1>5, <1>6 DEF Next, Ended

(* The pipelines' search keeps the promise of DependencyOrder that the layers of
   the workflows keep, for any tables, mentions and order of the query. *)
THEOREM SearchImplementsOrdering == Spec => ImplementsOrdering
<1>1. Init => Ordering!Init
  <2> SUFFICES ASSUME Init PROVE Ordering!Init
    OBVIOUS
  <2>1. Waits \in [Table -> SUBSET Table]
    BY MentionsAssumption DEF Init, Waits, Reads
  <2>2. [i \in DOMAIN order |-> {order[i]}] = <<>>
    BY DEF Init
  <2> QED
    BY <2>1, <2>2 DEF Init, Ordering!Init
<1> QED
  BY <1>1, OrderingStep, SearchHolds, PTL DEF Spec, ImplementsOrdering, Ordering!Spec
=============================================================================
