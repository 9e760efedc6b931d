---------------------------- MODULE AccessProofs ----------------------------
(***************************************************************************)
(* Who may read and call, for any number of requests, users, roles, tables *)
(* and tokens: the invariants at the end of Sharing, Governance and        *)
(* Accounts hold in every behaviour.                                       *)
(***************************************************************************)
EXTENDS MCAccess, TLAPS

-----------------------------------------------------------------------------
LEMMA SharingStarts == sharing!Init => sharing!SharingInv
BY NoneAssumption, TTLAssumption
DEF sharing!Init, sharing!SharingInv, sharing!TypeInv, sharing!Pc, sharing!Shares,
    sharing!Requests, sharing!Pasts, sharing!TokenOfShare, sharing!LetIn,
    sharing!UrlsDated, sharing!ProfileComing, sharing!At, sharing!NoTables

(* A change of the share dates what it closes and is seen by who was let in; a new
   token of the recipient there was is one that a request is about to return. *)
LEMMA ChangeKeeps ==
  ASSUME sharing!SharingInv, NEW s \in sharing!Shares,
         s.recipient # None => s.there,
         s.token # None => s.recipient # None,
         sharing!Change(s), thing' = thing,
         request' \in [Request -> sharing!Requests],
         \A q \in Request :
           \/ request'[q] = request[q]
           \/ request'[q].at = "ended" /\ request[q].at # "return"
           \/ /\ request[q].at = "idle" /\ request'[q].at = "answer"
              /\ request'[q].recipient # None
           \/ /\ request'[q].at = "return"
              /\ request'[q].recipient = s.recipient
              /\ s.recipient # None,
         s.recipient = row.recipient =>
           s.token = row.token \/ \E q \in Request : request'[q].at = "return"
                                                   /\ request'[q].recipient = s.recipient
  PROVE  sharing!SharingInv'
<1>1. past' \in sharing!Pasts
  BY DEF sharing!Change, sharing!SharingInv, sharing!TypeInv, sharing!Pasts,
         sharing!Shares
<1>2. /\ row' = s
      /\ past'.now = past.now
      /\ past'.late = past.late \cup {q \in Request : request[q].at \in {"lookup", "sign"}}
      /\ past'.profile = IF s.recipient = row.recipient THEN past.profile ELSE None
      /\ past'.overtaken = past.overtaken
      /\ \A a \in Request \X Table :
           past'.lost[a] = IF a \in sharing!Open(row) \ sharing!Open(s) THEN past.now ELSE past.lost[a]
  BY DEF sharing!Change, sharing!SharingInv, sharing!TypeInv, sharing!Pasts
<1>3. sharing!TypeInv'
  BY <1>1, <1>2 DEF sharing!SharingInv, sharing!TypeInv
<1>4. sharing!TokenOfShare'
  BY <1>2 DEF sharing!SharingInv, sharing!TokenOfShare
<1>5. sharing!LetIn'
  BY <1>2 DEF sharing!SharingInv, sharing!TypeInv, sharing!LetIn
<1>6. ASSUME NEW l \in thing
      PROVE  /\ l.until <= past'.now + TTL
             /\ \/ <<l.token, l.table>> \in sharing!Open(s)
                \/ l.by \in past'.late
                \/ l.until <= past'.lost[<<l.token, l.table>>] + TTL
  <2> DEFINE a == <<l.token, l.table>>
  <2>1. a \in Request \X Table /\ l.until \in Nat
    BY DEF sharing!SharingInv, sharing!TypeInv
  <2>2. /\ l.until <= past.now + TTL
        /\ a \in sharing!Open(row) \/ l.by \in past.late \/ l.until <= past.lost[a] + TTL
    BY DEF sharing!SharingInv, sharing!UrlsDated
  <2>3. past'.lost[a] = IF a \in sharing!Open(row) \ sharing!Open(s) THEN past.now ELSE past.lost[a]
    BY <1>2, <2>1
  <2> HIDE DEF a
  <2>4. a \in sharing!Open(s) \/ l.by \in past'.late \/ l.until <= past'.lost[a] + TTL
    BY <1>2, <2>2, <2>3
  <2> QED
    BY <1>2, <2>2, <2>4 DEF a
<1>7. sharing!UrlsDated'
  BY <1>2, <1>6 DEF sharing!UrlsDated
<1>8. sharing!ProfileComing'
  <2>1. CASE s.recipient # row.recipient
    BY <1>2, <2>1 DEF sharing!ProfileComing
  <2>2. CASE s.recipient = row.recipient
    <3>1. \A q \in Request : request[q].at = "return" /\ request[q].recipient = row.recipient =>
            request'[q].at = "return" /\ request'[q].recipient = s.recipient
      BY <2>2
    <3> QED
      BY <1>2, <2>2, <3>1 DEF sharing!SharingInv, sharing!ProfileComing
  <2> QED
    BY <2>1, <2>2
<1> QED
  BY <1>3, <1>4, <1>5, <1>7, <1>8 DEF sharing!SharingInv

(* A step that leaves the share, the urls and what the urls rest on. *)
LEMMA RequestKeeps ==
  ASSUME sharing!SharingInv, row' = row, thing' = thing,
         past'.now = past.now, past'.lost = past.lost, past'.late = past.late,
         past' \in sharing!Pasts, request' \in [Request -> sharing!Requests],
         sharing!TokenOfShare', sharing!LetIn', sharing!ProfileComing'
  PROVE  sharing!SharingInv'
BY DEF sharing!SharingInv, sharing!TypeInv, sharing!UrlsDated, sharing!Open, sharing!Shared

(* One request moves, not to or from "return". *)
LEMMA ProfileAsBefore ==
  ASSUME sharing!SharingInv, row' = row, past'.profile = past.profile,
         past'.overtaken = past.overtaken,
         \A q \in Request : request[q].at = "return" => request'[q] = request[q]
  PROVE  sharing!ProfileComing'
BY DEF sharing!SharingInv, sharing!ProfileComing

LEMMA SharingStep == sharing!SharingInv /\ [sharing!Next]_(sharing!vars) => sharing!SharingInv'
<1> SUFFICES ASSUME sharing!SharingInv, [sharing!Next]_(sharing!vars)
             PROVE  sharing!SharingInv'
  OBVIOUS
<1> USE NoneAssumption, TTLAssumption DEF sharing!At, sharing!Goto, sharing!Requests
<1>1. ASSUME NEW r \in Request, sharing!CreateRecipient(r) PROVE sharing!SharingInv'
  <2> DEFINE s == [row EXCEPT !.recipient = r, !.token = r]
  <2>1. /\ sharing!Change(s) /\ thing' = thing /\ row.there /\ row.recipient = None
        /\ request[r].at = "idle"
        /\ request' = [request EXCEPT ![r] = sharing!At("answer", r, None, None)]
    BY <1>1 DEF sharing!CreateRecipient
  <2>2. s \in sharing!Shares /\ s.there = row.there /\ s.recipient = r
    BY DEF sharing!SharingInv, sharing!TypeInv, sharing!Shares
  <2>3. (s.recipient # None => s.there) /\ (s.token # None => s.recipient # None)
    BY <2>1, <2>2
  <2>4. /\ request' \in [Request -> sharing!Requests]
        /\ \A q \in Request :
             \/ request'[q] = request[q]
             \/ /\ request[q].at = "idle" /\ request'[q].at = "answer"
                /\ request'[q].recipient # None
    BY <2>1 DEF sharing!SharingInv, sharing!TypeInv, sharing!Pc
  <2> HIDE DEF s
  <2> QED
    BY <2>1, <2>2, <2>3, <2>4, ChangeKeeps
<1>1a. ASSUME NEW r \in Request, sharing!Answer(r) PROVE sharing!SharingInv'
  <2>1. /\ past' \in sharing!Pasts
        /\ past'.now = past.now /\ past'.lost = past.lost /\ past'.late = past.late
    BY <1>1a
    DEF sharing!Answer, sharing!SharingInv, sharing!TypeInv, sharing!Pasts,
        sharing!Shares
  <2>2. sharing!ProfileComing'
    <3>1. CASE row.recipient = r
      BY <1>1a, <3>1
      DEF sharing!Answer, sharing!SharingInv, sharing!TypeInv, sharing!Pasts,
          sharing!ProfileComing
    <3>2. CASE row.recipient # r
      BY <1>1a, <3>2, ProfileAsBefore
      DEF sharing!Answer, sharing!SharingInv, sharing!TypeInv
    <3> QED
      BY <3>1, <3>2
  <2> QED
    BY <1>1a, <2>1, <2>2, RequestKeeps
    DEF sharing!Answer, sharing!SharingInv, sharing!TypeInv, sharing!TokenOfShare,
        sharing!LetIn, sharing!Open, sharing!Shared, sharing!Pc
<1>2. ASSUME NEW r \in Request, sharing!Load(r) PROVE sharing!SharingInv'
  <2>1. sharing!ProfileComing'
    BY <1>2, ProfileAsBefore DEF sharing!Load, sharing!SharingInv, sharing!TypeInv
  <2> QED
    BY <1>2, <2>1, RequestKeeps
    DEF sharing!Load, sharing!SharingInv, sharing!TypeInv, sharing!Shares,
        sharing!TokenOfShare, sharing!LetIn, sharing!Open, sharing!Shared, sharing!Pc
<1>3. ASSUME NEW r \in Request, sharing!Rotate(r) PROVE sharing!SharingInv'
  <2> DEFINE s == [row EXCEPT !.token = r]
  <2>1. /\ sharing!Change(s) /\ thing' = thing /\ row.recipient = request[r].recipient
        /\ request[r].at = "rotate" /\ request' = [request EXCEPT ![r].at = "return"]
    BY <1>3 DEF sharing!Rotate
  <2>2. /\ s \in sharing!Shares /\ s.there = row.there /\ s.recipient = row.recipient
        /\ row.recipient # None /\ row.there
    BY <2>1
    DEF sharing!SharingInv, sharing!TypeInv, sharing!TokenOfShare, sharing!Shares
  <2>3. /\ request' \in [Request -> sharing!Requests]
        /\ \A q \in Request : request'[q] = request[q] \/ q = r
        /\ request'[r].at = "return" /\ request'[r].recipient = s.recipient
    BY <2>1, <2>2 DEF sharing!SharingInv, sharing!TypeInv, sharing!Pc
  <2> HIDE DEF s
  <2> QED
    BY <2>1, <2>2, <2>3, ChangeKeeps
<1>3a. ASSUME NEW r \in Request, sharing!RotateFails(r) PROVE sharing!SharingInv'
  <2>1. sharing!ProfileComing'
    BY <1>3a, ProfileAsBefore
    DEF sharing!RotateFails, sharing!SharingInv, sharing!TypeInv
  <2> QED
    BY <1>3a, <2>1, RequestKeeps
    DEF sharing!RotateFails, sharing!SharingInv, sharing!TypeInv, sharing!TokenOfShare,
        sharing!LetIn, sharing!Open, sharing!Shared, sharing!Pc
<1>4. ASSUME NEW r \in Request, sharing!Return(r) PROVE sharing!SharingInv'
  <2>1. /\ past' \in sharing!Pasts
        /\ past'.now = past.now /\ past'.lost = past.lost /\ past'.late = past.late
        /\ past'.profile = IF row.recipient = request[r].recipient
                             THEN row.token ELSE past.profile
        /\ past'.overtaken = IF row.recipient = request[r].recipient
                               THEN FALSE ELSE past.overtaken
    BY <1>4
    DEF sharing!Return, sharing!Returned, sharing!SharingInv, sharing!TypeInv,
        sharing!Pasts, sharing!Shares
  <2>2. sharing!ProfileComing'
    BY <1>4, <2>1
    DEF sharing!Return, sharing!SharingInv, sharing!TypeInv, sharing!ProfileComing
  <2> QED
    BY <1>4, <2>1, <2>2, RequestKeeps
    DEF sharing!Return, sharing!SharingInv, sharing!TypeInv, sharing!TokenOfShare,
        sharing!LetIn, sharing!Open, sharing!Shared, sharing!Pc
<1>5. ASSUME NEW r \in Request, sharing!Authenticate(r) PROVE sharing!SharingInv'
  <2>1. sharing!ProfileComing'
    BY <1>5, ProfileAsBefore DEF sharing!Authenticate, sharing!SharingInv, sharing!TypeInv
  <2> QED
    BY <1>5, <2>1, RequestKeeps
    DEF sharing!Authenticate, sharing!SharingInv, sharing!TypeInv, sharing!Shares,
        sharing!TokenOfShare, sharing!LetIn, sharing!Open, sharing!Shared, sharing!Pc
<1>6. ASSUME NEW r \in Request, sharing!Lookup(r) PROVE sharing!SharingInv'
  <2>1. sharing!ProfileComing'
    BY <1>6, ProfileAsBefore DEF sharing!Lookup, sharing!SharingInv, sharing!TypeInv
  <2> QED
    BY <1>6, <2>1, RequestKeeps
    DEF sharing!Lookup, sharing!Open, sharing!Shared, sharing!SharingInv, sharing!TypeInv, sharing!Shares,
        sharing!TokenOfShare, sharing!LetIn, sharing!Pc
<1>7. ASSUME NEW r \in Request, sharing!Sign(r) PROVE sharing!SharingInv'
  <2>1. /\ request[r].token \in Request /\ request[r].table \in Table
        /\ r \in past.late \/ <<request[r].token, request[r].table>> \in sharing!Open(row)
    BY <1>7 DEF sharing!Sign, sharing!SharingInv, sharing!LetIn
  <2>2. sharing!TypeInv'
    BY <1>7, <2>1
    DEF sharing!Sign, sharing!Expiry, sharing!SharingInv, sharing!TypeInv, sharing!Pasts,
        sharing!Pc
  <2>3. sharing!TokenOfShare' /\ sharing!LetIn'
    BY <1>7
    DEF sharing!Sign, sharing!SharingInv, sharing!TypeInv, sharing!TokenOfShare,
        sharing!LetIn, sharing!Open, sharing!Shared
  <2>4. sharing!UrlsDated'
    <3> DEFINE new == [token |-> request[r].token, table |-> request[r].table,
                       until |-> past.now + TTL, by |-> r]
    <3>1. thing' = thing \cup {new} /\ past' = past /\ sharing!Open(row)' = sharing!Open(row)
      BY <1>7 DEF sharing!Sign, sharing!Expiry, sharing!Open, sharing!Shared
    <3>2. /\ new.until <= past.now + TTL
          /\ <<new.token, new.table>> \in sharing!Open(row) \/ new.by \in past.late
      BY <2>1 DEF sharing!SharingInv, sharing!TypeInv, sharing!Pasts
    <3> HIDE DEF new
    <3> QED
      BY <3>1, <3>2 DEF sharing!SharingInv, sharing!UrlsDated
  <2>5. sharing!ProfileComing'
    BY <1>7, ProfileAsBefore DEF sharing!Sign, sharing!SharingInv, sharing!TypeInv
  <2> QED
    BY <2>2, <2>3, <2>4, <2>5 DEF sharing!SharingInv
<1>8. ASSUME NEW t \in Table, sharing!AddTable(t) PROVE sharing!SharingInv'
  <2>1. sharing!TypeInv'
    BY <1>8 DEF sharing!AddTable, sharing!SharingInv, sharing!TypeInv, sharing!Shares
  <2>2. /\ sharing!Open(row) \subseteq sharing!Open(row)' /\ row'.token = row.token
        /\ row'.recipient = row.recipient
    BY <1>8
    DEF sharing!AddTable, sharing!Open, sharing!Shared, sharing!SharingInv, sharing!TypeInv,
        sharing!Shares
  <2>3. sharing!TokenOfShare' /\ sharing!LetIn'
    BY <1>8, <2>2
    DEF sharing!AddTable, sharing!SharingInv, sharing!TypeInv, sharing!Shares,
        sharing!TokenOfShare, sharing!LetIn
  <2>4. sharing!UrlsDated'
    BY <1>8, <2>2 DEF sharing!AddTable, sharing!SharingInv, sharing!UrlsDated
  <2>5. sharing!ProfileComing'
    BY <1>8, <2>2 DEF sharing!AddTable, sharing!SharingInv, sharing!ProfileComing
  <2> QED
    BY <2>1, <2>3, <2>4, <2>5 DEF sharing!SharingInv
<1>9. ASSUME NEW t \in Table, sharing!RemoveTable(t) PROVE sharing!SharingInv'
  <2> DEFINE s == [row EXCEPT !.tables[t] = @ - 1]
  <2>1. sharing!Change(s) /\ thing' = thing /\ request' = request /\ row.tables[t] > 0
    BY <1>9 DEF sharing!RemoveTable, sharing!Shared
  <2>2. /\ s \in sharing!Shares /\ s.there = row.there /\ s.recipient = row.recipient
        /\ s.token = row.token
    BY <2>1 DEF sharing!SharingInv, sharing!TypeInv, sharing!Shares
  <2>3. request' \in [Request -> sharing!Requests]
    BY <2>1 DEF sharing!SharingInv, sharing!TypeInv
  <2>4. (s.recipient # None => s.there) /\ (s.token # None => s.recipient # None)
    BY <2>2 DEF sharing!SharingInv, sharing!TokenOfShare
  <2> HIDE DEF s
  <2> QED
    BY <2>1, <2>2, <2>3, <2>4, ChangeKeeps
<1>10. ASSUME sharing!DeleteRecipient PROVE sharing!SharingInv'
  BY <1>10, ChangeKeeps
  DEF sharing!DeleteRecipient, sharing!SharingInv, sharing!TypeInv, sharing!TokenOfShare,
      sharing!Shares
<1>11. ASSUME sharing!DeleteShare PROVE sharing!SharingInv'
  <2> DEFINE s == [there |-> FALSE, tables |-> sharing!NoTables, recipient |-> None, token |-> None]
  <2>1. sharing!Change(s) /\ thing' = thing /\ request' = request
    BY <1>11 DEF sharing!DeleteShare
  <2>2. s \in sharing!Shares /\ s.recipient = None /\ s.token = None
    BY DEF sharing!Shares, sharing!NoTables
  <2>3. row.recipient = None => row.token = None
    BY DEF sharing!SharingInv, sharing!TokenOfShare
  <2>4. request' \in [Request -> sharing!Requests]
    BY <2>1 DEF sharing!SharingInv, sharing!TypeInv
  <2> HIDE DEF s
  <2> QED
    BY <2>1, <2>2, <2>3, <2>4, ChangeKeeps
<1>12. ASSUME sharing!Tick PROVE sharing!SharingInv'
  <2>1. sharing!ProfileComing'
    BY <1>12
    DEF sharing!Tick, sharing!SharingInv, sharing!TypeInv, sharing!Pasts,
        sharing!ProfileComing
  <2>2. /\ past'.now = past.now + 1 /\ past'.lost = past.lost /\ past'.late = past.late
        /\ past' \in sharing!Pasts /\ past.now \in Nat
    BY <1>12 DEF sharing!Tick, sharing!SharingInv, sharing!TypeInv, sharing!Pasts
  <2>3. sharing!UrlsDated'
    <3>1. /\ thing' = thing /\ sharing!Open(row)' = sharing!Open(row)
          /\ \A l \in thing : l.until \in Nat
      BY <1>12 DEF sharing!Tick, sharing!Open, sharing!Shared, sharing!SharingInv, sharing!TypeInv
    <3>2. \A l \in thing : l.until <= past.now + TTL => l.until <= past'.now + TTL
      BY <2>2, <3>1
    <3> QED
      BY <2>2, <3>1, <3>2 DEF sharing!SharingInv, sharing!UrlsDated
  <2> QED
    BY <1>12, <2>1, <2>2, <2>3
    DEF sharing!Tick, sharing!SharingInv, sharing!TypeInv, sharing!TokenOfShare,
        sharing!LetIn, sharing!Open, sharing!Shared
<1>13. ASSUME sharing!Crash PROVE sharing!SharingInv'
  <2>1. /\ past' \in sharing!Pasts
        /\ past'.now = past.now /\ past'.lost = past.lost /\ past'.late = past.late
        /\ past'.profile = IF \E r \in Request : request[r].at = "return"
                             THEN None ELSE past.profile
        /\ past'.overtaken = past.overtaken
    BY <1>13 DEF sharing!Crash, sharing!SharingInv, sharing!TypeInv, sharing!Pasts
  <2>2. sharing!ProfileComing'
    BY <1>13, <2>1 DEF sharing!Crash, sharing!SharingInv, sharing!ProfileComing
  <2> QED
    BY <1>13, <2>1, <2>2, RequestKeeps
    DEF sharing!Crash, sharing!Busy, sharing!SharingInv, sharing!TypeInv,
        sharing!TokenOfShare, sharing!LetIn, sharing!Open, sharing!Shared, sharing!Pc
<1>14. CASE UNCHANGED sharing!vars
  <2>1. UNCHANGED <<row, thing, request, past>> /\ sharing!Open(row)' = sharing!Open(row)
    BY <1>14 DEF sharing!vars, sharing!Open, sharing!Shared
  <2>2. sharing!TypeInv' /\ sharing!TokenOfShare' /\ sharing!LetIn'
    BY <2>1 DEF sharing!SharingInv, sharing!TypeInv, sharing!TokenOfShare, sharing!LetIn
  <2>3. sharing!UrlsDated' /\ sharing!ProfileComing'
    BY <2>1 DEF sharing!SharingInv, sharing!UrlsDated, sharing!ProfileComing
  <2> QED
    BY <2>2, <2>3 DEF sharing!SharingInv
<1> QED
  BY <1>1, <1>1a, <1>2, <1>3, <1>3a, <1>4, <1>5, <1>6, <1>7, <1>8, <1>9, <1>10, <1>11,
     <1>12, <1>13, <1>14
  DEF sharing!Next
-----------------------------------------------------------------------------
LEMMA GovernanceStarts == governance!Init => governance!GovernanceInv
BY NoneAssumption
DEF governance!Init, governance!GovernanceInv, governance!TypeInv, governance!Requests,
    governance!SetIsThere, governance!EditsApart, governance!DueIsSet,
    governance!QueriesUnderRules, governance!Idle

(* A step that leaves the table, what is set and the edits under way, and lets no
   query owe more. *)
LEMMA QueryKeeps ==
  ASSUME governance!GovernanceInv, row'.filters = row.filters, row'.masks = row.masks,
         past'.set = past.set, past.crossed \subseteq past'.crossed, governance!TypeInv',
         \A r \in Request : request'[r].at = "store" => request'[r] = request[r],
         \A r \in Request : request'[r].at = "resolve" => request'[r].due \subseteq past.set,
         \A r \in Request :
           request'[r].at = "running" => request'[r].due \subseteq request'[r].rules
  PROVE  governance!GovernanceInv'
<1>1. \A field \in governance!Field : row'[field] = row[field]
  BY DEF governance!Field
<1>2. governance!SetIsThere'
  BY <1>1 DEF governance!GovernanceInv, governance!SetIsThere
<1>3. governance!EditsApart'
  BY <1>1
  DEF governance!GovernanceInv, governance!TypeInv, governance!Requests,
      governance!EditsApart, governance!Edits
<1> QED
  BY <1>2, <1>3
  DEF governance!GovernanceInv, governance!DueIsSet, governance!QueriesUnderRules

LEMMA EntryIsRule ==
  ASSUME NEW field \in governance!Field, NEW e \in governance!Entry(field)
  PROVE  /\ <<field, e>> \in governance!Rules
         /\ e \in Role \cup Column
BY DEF governance!Field, governance!Entry, governance!Rules, governance!Entries

LEMMA GovernanceStep == governance!GovernanceInv /\ [governance!Next]_(governance!vars) => governance!GovernanceInv'
<1> SUFFICES ASSUME governance!GovernanceInv, [governance!Next]_(governance!vars)
             PROVE  governance!GovernanceInv'
  OBVIOUS
<1> USE NoneAssumption DEF governance!Goto
<1>1. ASSUME NEW r \in Request, governance!Load(r) PROVE governance!GovernanceInv'
  <2>0. PICK field \in governance!Field, sets \in BOOLEAN : \E e \in governance!Entry(field) :
          LET others == {q \in Request : governance!Edits(q, field)} IN
          /\ request' = [q \in Request |->
               IF q = r THEN [governance!Idle EXCEPT !.at = "store", !.field = field,
                                !.loaded = row[field], !.entry = e, !.sets = sets]
               ELSE [request[q] EXCEPT !.due = @ \ {<<field, e>>}]]
          /\ past' = [set |-> past.set \ {<<field, e>>},
                      crossed |-> IF others = {} THEN past.crossed
                                  ELSE past.crossed \cup others \cup {r}]
    BY <1>1 DEF governance!Load
  <2>1. PICK e \in governance!Entry(field) :
          LET others == {q \in Request : governance!Edits(q, field)} IN
          /\ request' = [q \in Request |->
               IF q = r THEN [governance!Idle EXCEPT !.at = "store", !.field = field,
                                !.loaded = row[field], !.entry = e, !.sets = sets]
               ELSE [request[q] EXCEPT !.due = @ \ {<<field, e>>}]]
          /\ past' = [set |-> past.set \ {<<field, e>>},
                      crossed |-> IF others = {} THEN past.crossed
                                  ELSE past.crossed \cup others \cup {r}]
    BY <2>0
  <2>2. /\ row' = row /\ request[r].at = "idle"
        /\ row[field] \subseteq governance!Entry(field)
        /\ <<field, e>> \in governance!Rules
    BY <1>1, EntryIsRule
    DEF governance!Load, governance!GovernanceInv, governance!TypeInv,
        governance!Requests, governance!Field, governance!Entry
  <2>3. \A q \in Request : q # r =>
          /\ request'[q].at = request[q].at
          /\ request'[q].field = request[q].field
          /\ request'[q].loaded = request[q].loaded
          /\ request'[q].entry = request[q].entry
          /\ request'[q].rules = request[q].rules
          /\ request'[q].due = request[q].due \ {<<field, e>>}
    BY <2>1 DEF governance!GovernanceInv, governance!TypeInv, governance!Requests
  <2>4. /\ request'[r].at = "store" /\ request'[r].field = field
        /\ request'[r].loaded = row[field] /\ request'[r].entry = e
    BY <2>1 DEF governance!Idle
  <2>5. governance!TypeInv'
    <3>1. past' \in [set : SUBSET governance!Rules, crossed : SUBSET Request]
      BY <2>1 DEF governance!GovernanceInv, governance!TypeInv, governance!Requests
    <3>2. row[field] \subseteq Role \cup Column /\ e \in Role \cup Column
      BY <2>2, EntryIsRule DEF governance!Field, governance!Entry
    <3>3. request' \in [Request -> governance!Requests]
      <4>1. \A q \in Request : [request[q] EXCEPT !.due = @ \ {<<field, e>>}] \in governance!Requests
        BY DEF governance!GovernanceInv, governance!TypeInv, governance!Requests
      <4>2. [governance!Idle EXCEPT !.at = "store", !.field = field, !.loaded = row[field],
                         !.entry = e, !.sets = sets] \in governance!Requests
        BY <3>2 DEF governance!Idle, governance!Requests
      <4> QED
        BY <2>1, <4>1, <4>2
    <3>4. ASSUME NEW q \in Request, request'[q].at = "store"
          PROVE  /\ request'[q].field \in governance!Field
                 /\ request'[q].entry \in governance!Entry(request'[q].field)
                 /\ request'[q].loaded \subseteq governance!Entry(request'[q].field)
      BY <2>2, <2>3, <2>4, <3>4
      DEF governance!GovernanceInv, governance!TypeInv, governance!Requests
    <3> QED
      BY <2>2, <3>1, <3>3, <3>4
      DEF governance!GovernanceInv, governance!TypeInv, governance!Requests
  <2>6. governance!SetIsThere'
    BY <2>1, <2>2 DEF governance!GovernanceInv, governance!SetIsThere
  <2>7. governance!EditsApart'
    <3> SUFFICES ASSUME NEW q \in Request, request'[q].at = "store", q \notin past'.crossed
                 PROVE  /\ request'[q].loaded = row[request'[q].field]
                        /\ <<request'[q].field, request'[q].entry>> \notin past'.set
                        /\ \A p \in Request :
                            request'[p].at = "store" /\ request'[p].field = request'[q].field
                              => p = q
      BY <2>2 DEF governance!EditsApart, governance!Edits
    <3>1. CASE q = r
      BY <2>1, <2>3, <2>4, <3>1 DEF governance!Edits
    <3>2. CASE q # r
      <4>1. request[q].at = "store" /\ q \notin past.crossed
        BY <2>1, <2>3, <3>2
      <4>2. request[q].field # field
        BY <2>1, <3>2, <4>1 DEF governance!Edits
      <4>3. /\ request[q].loaded = row[request[q].field]
            /\ <<request[q].field, request[q].entry>> \notin past.set
            /\ \A p \in Request :
                 request[p].at = "store" /\ request[p].field = request[q].field => p = q
        BY <4>1 DEF governance!GovernanceInv, governance!EditsApart, governance!Edits
      <4>4. past'.set \subseteq past.set
        BY <2>1
      <4> QED
        BY <2>3, <2>4, <3>2, <4>2, <4>3, <4>4
    <3> QED
      BY <3>1, <3>2
  <2>8. governance!DueIsSet' /\ governance!QueriesUnderRules'
    BY <2>1, <2>3, <2>4
    DEF governance!GovernanceInv, governance!DueIsSet, governance!QueriesUnderRules
  <2> QED
    BY <2>5, <2>6, <2>7, <2>8 DEF governance!GovernanceInv
<1>2. ASSUME NEW r \in Request, governance!Store(r) PROVE governance!GovernanceInv'
  <2> DEFINE field == request[r].field
             all == {<<field, e>> : e \in governance!Entry(field)}
             edited == governance!Edited(r)
  <2>1. /\ request[r].at = "store" /\ field \in governance!Field
        /\ request[r].entry \in governance!Entry(field) /\ request[r].loaded \subseteq governance!Entry(field)
        /\ edited \subseteq governance!Entry(field)
    BY <1>2
    DEF governance!Store, governance!GovernanceInv, governance!TypeInv,
        governance!Requests, governance!Edited
  <2>2. \/ row' = [row EXCEPT ![field] = edited]
        \/ row' = row /\ edited = request[r].loaded
    BY <1>2 DEF governance!Store
  <2>3. /\ row' \in [restricted : BOOLEAN, filters : SUBSET Role, masks : SUBSET Column]
        /\ \A f \in governance!Field : f # field => row'[f] = row[f]
        /\ row'[field] = edited \/ (row'[field] = row[field] /\ edited = request[r].loaded)
    BY <2>1, <2>2
    DEF governance!GovernanceInv, governance!TypeInv, governance!Requests,
        governance!Field, governance!Entry
  <2>4. /\ \A q \in Request : q # r =>
             /\ request'[q].at = request[q].at
             /\ request'[q].field = request[q].field
             /\ request'[q].loaded = request[q].loaded
             /\ request'[q].entry = request[q].entry
             /\ request'[q].rules = request[q].rules
        /\ request'[r].at = "ended"
        /\ past'.crossed = past.crossed
    BY <1>2
    DEF governance!Store, governance!GovernanceInv, governance!TypeInv,
        governance!Requests
  <2> HIDE DEF edited
  <2>5. CASE r \in past.crossed
    <3>1. /\ past' = [past EXCEPT !.set = @ \ all]
          /\ \A q \in Request : q # r => request'[q].due = request[q].due \ all
          /\ request' = [q \in Request |->
                       IF q = r THEN [request[r] EXCEPT !.at = "ended"]
                       ELSE [request[q] EXCEPT !.due = @ \ all]]
      BY <1>2, <2>5
      DEF governance!Store, governance!GovernanceInv, governance!TypeInv,
          governance!Requests
    <3>2. past'.set = past.set \ all
      BY <3>1 DEF governance!GovernanceInv, governance!TypeInv, governance!Requests
    <3>3. governance!TypeInv'
      <4>1. request' \in [Request -> governance!Requests]
        <5>1. \A q \in Request : [request[q] EXCEPT !.due = @ \ all] \in governance!Requests
          BY DEF governance!GovernanceInv, governance!TypeInv, governance!Requests
        <5>2. [request[r] EXCEPT !.at = "ended"] \in governance!Requests
          BY DEF governance!GovernanceInv, governance!TypeInv, governance!Requests
        <5> HIDE DEF all
        <5> QED
          BY <3>1, <5>1, <5>2
      <4>2. past' \in [set : SUBSET governance!Rules, crossed : SUBSET Request]
        BY <3>1 DEF governance!GovernanceInv, governance!TypeInv, governance!Requests
      <4> QED
        BY <2>3, <2>4, <4>1, <4>2
        DEF governance!GovernanceInv, governance!TypeInv, governance!Requests
    <3>4. governance!SetIsThere'
      BY <2>1, <2>3, <3>2 DEF governance!GovernanceInv, governance!SetIsThere
    <3>5. governance!EditsApart'
      <4> SUFFICES ASSUME NEW q \in Request, request'[q].at = "store", q \notin past.crossed
                   PROVE  /\ request'[q].loaded = row'[request'[q].field]
                          /\ <<request'[q].field, request'[q].entry>> \notin past'.set
                          /\ \A p \in Request :
                            request'[p].at = "store" /\ request'[p].field = request'[q].field
                              => p = q
        BY <2>4 DEF governance!EditsApart, governance!Edits
      <4>1. q # r /\ request[q].at = "store"
        BY <2>4
      <4>2. /\ request[q].loaded = row[request[q].field]
            /\ <<request[q].field, request[q].entry>> \notin past.set
            /\ \A p \in Request : governance!Edits(p, request[q].field) => p = q
            /\ request[q].field \in governance!Field
        BY <4>1
        DEF governance!GovernanceInv, governance!TypeInv, governance!Requests,
            governance!EditsApart
      <4>3. request[q].field # field
        BY <2>1, <4>1, <4>2 DEF governance!Edits
      <4> QED
        BY <2>3, <2>4, <3>2, <4>1, <4>2, <4>3 DEF governance!Edits
    <3>6. governance!DueIsSet' /\ governance!QueriesUnderRules'
      BY <2>4, <3>1, <3>2
      DEF governance!GovernanceInv, governance!DueIsSet, governance!QueriesUnderRules
    <3> QED
      BY <3>3, <3>4, <3>5, <3>6 DEF governance!GovernanceInv
  <2>6. CASE r \notin past.crossed
    <3>1. /\ request' = [request EXCEPT ![r].at = "ended"]
          /\ past' = [past EXCEPT
                !.set = IF request[r].sets THEN @ \cup {<<field, request[r].entry>>} ELSE @]
      BY <1>2, <2>6 DEF governance!Store
    <3>2. /\ request[r].loaded = row[field]
          /\ <<field, request[r].entry>> \notin past.set
          /\ \A q \in Request : governance!Edits(q, field) => q = r
      BY <2>1, <2>6 DEF governance!GovernanceInv, governance!EditsApart
    <3>3. /\ row'[field] = edited
          /\ past'.set = IF request[r].sets THEN past.set \cup {<<field, request[r].entry>>}
                                            ELSE past.set
          /\ edited = IF request[r].sets THEN row[field] \cup {request[r].entry}
                                         ELSE row[field] \ {request[r].entry}
      BY <2>3, <3>1, <3>2
      DEF governance!GovernanceInv, governance!TypeInv, governance!Requests,
          governance!Edited, edited
    <3>4. governance!TypeInv'
      <4>1. <<field, request[r].entry>> \in governance!Rules
        BY <2>1, EntryIsRule
      <4>2. past' \in [set : SUBSET governance!Rules, crossed : SUBSET Request]
        BY <3>1, <4>1
        DEF governance!GovernanceInv, governance!TypeInv, governance!Requests
      <4>3. request' \in [Request -> governance!Requests]
        BY <3>1 DEF governance!GovernanceInv, governance!TypeInv, governance!Requests
      <4> QED
        BY <2>3, <2>4, <4>2, <4>3
        DEF governance!GovernanceInv, governance!TypeInv, governance!Requests
    <3>5. governance!SetIsThere'
      <4> SUFFICES ASSUME NEW f \in governance!Field, NEW e \in governance!Entry(f), <<f, e>> \in past'.set
                   PROVE  e \in row'[f]
        BY DEF governance!SetIsThere
      <4>1. CASE f = field
        BY <3>2, <3>3, <4>1 DEF governance!GovernanceInv, governance!SetIsThere
      <4>2. CASE f # field
        BY <2>3, <3>3, <4>2 DEF governance!GovernanceInv, governance!SetIsThere
      <4> QED
        BY <4>1, <4>2
    <3>6. governance!EditsApart'
      <4> SUFFICES ASSUME NEW q \in Request, request'[q].at = "store", q \notin past.crossed
                   PROVE  /\ request'[q].loaded = row'[request'[q].field]
                          /\ <<request'[q].field, request'[q].entry>> \notin past'.set
                          /\ \A p \in Request :
                            request'[p].at = "store" /\ request'[p].field = request'[q].field
                              => p = q
        BY <2>4 DEF governance!EditsApart, governance!Edits
      <4>1. q # r /\ request[q].at = "store"
        BY <2>4
      <4>2. /\ request[q].loaded = row[request[q].field]
            /\ <<request[q].field, request[q].entry>> \notin past.set
            /\ \A p \in Request : governance!Edits(p, request[q].field) => p = q
            /\ request[q].field \in governance!Field
        BY <4>1
        DEF governance!GovernanceInv, governance!TypeInv, governance!Requests,
            governance!EditsApart
      <4>3. request[q].field # field
        BY <2>1, <4>1, <4>2 DEF governance!Edits
      <4> QED
        BY <2>3, <2>4, <3>3, <4>1, <4>2, <4>3 DEF governance!Edits
    <3>7. governance!DueIsSet' /\ governance!QueriesUnderRules'
      BY <2>4, <3>1, <3>3
      DEF governance!GovernanceInv, governance!TypeInv, governance!Requests,
          governance!DueIsSet, governance!QueriesUnderRules
    <3> QED
      BY <3>4, <3>5, <3>6, <3>7 DEF governance!GovernanceInv
  <2> QED
    BY <2>5, <2>6
<1>3. ASSUME NEW r \in Request, governance!Check(r) \/ governance!Grant(r) PROVE governance!GovernanceInv'
  <2>1. /\ row' = row
        /\ \E pc \in {"grant", "ended"} : request' = [request EXCEPT ![r].at = pc]
        /\ \E c \in SUBSET Request : past' = [past EXCEPT !.crossed = @ \cup c]
    <3>1. CASE governance!Check(r)
      <4> DEFINE others == {q \in Request : request[q].at = "grant"}
      <4>1. past' = [past EXCEPT !.crossed = @ \cup (IF others = {} THEN {} ELSE others \cup {r})]
        BY <3>1 DEF governance!Check, governance!CrossGrants
      <4> QED
        BY <3>1, <4>1 DEF governance!Check
    <3>2. CASE governance!Grant(r)
      <4>1. past' = [past EXCEPT !.crossed = @ \cup {}]
        BY <3>2 DEF governance!Grant, governance!GovernanceInv, governance!TypeInv
      <4> QED
        BY <3>2, <4>1 DEF governance!Grant
    <3> QED
      BY <1>3, <3>1, <3>2
  <2>2. governance!TypeInv'
    BY <2>1 DEF governance!GovernanceInv, governance!TypeInv, governance!Requests
  <2> QED
    BY <2>1, <2>2, QueryKeeps
    DEF governance!GovernanceInv, governance!TypeInv, governance!Requests,
        governance!DueIsSet, governance!QueriesUnderRules
<1>4. ASSUME NEW r \in Request, governance!Query(r) PROVE governance!GovernanceInv'
  <2>1. /\ row' = row /\ past' = past
        /\ request' = [request EXCEPT ![r] =
             IF governance!CanRead THEN [governance!Idle EXCEPT !.at = "resolve", !.due = past.set]
                        ELSE [governance!Idle EXCEPT !.at = "refused"]]
    BY <1>4 DEF governance!Query
  <2>2. governance!TypeInv'
    BY <2>1
    DEF governance!GovernanceInv, governance!TypeInv, governance!Requests, governance!Idle
  <2> QED
    BY <2>1, <2>2, QueryKeeps
    DEF governance!GovernanceInv, governance!TypeInv, governance!Requests,
        governance!DueIsSet, governance!QueriesUnderRules, governance!Idle
<1>5. ASSUME NEW r \in Request, governance!Resolve(r) PROVE governance!GovernanceInv'
  <2> DEFINE read == UNION {{<<field, e>> : e \in row[field]} : field \in governance!Field}
  <2>1. /\ row' = row /\ past' = past /\ request[r].at = "resolve"
        /\ request' = [request EXCEPT ![r].at = "running", ![r].rules = read]
    BY <1>5 DEF governance!Resolve
  <2>2. past.set \subseteq read
    <3> SUFFICES ASSUME NEW a \in past.set PROVE a \in read
      OBVIOUS
    <3>1. PICK field \in governance!Field : \E e \in governance!Entry(field) : a = <<field, e>>
      BY DEF governance!GovernanceInv, governance!TypeInv, governance!Requests,
             governance!Rules, governance!Entries, governance!Field
    <3>2. \E e \in row[field] : a = <<field, e>>
      BY <3>1 DEF governance!GovernanceInv, governance!SetIsThere
    <3> QED
      BY <3>2
  <2>3. read \subseteq governance!Rules
    BY DEF governance!GovernanceInv, governance!TypeInv, governance!Requests,
           governance!Rules, governance!Entries, governance!Entry, governance!Field
  <2> HIDE DEF read
  <2>4. governance!TypeInv'
    <3>1. [request[r] EXCEPT !.at = "running", !.rules = read] \in governance!Requests
      <4>1. request[r] \in governance!Requests
        BY DEF governance!GovernanceInv, governance!TypeInv
      <4>2. \A x \in governance!Requests : \A s \in SUBSET governance!Rules :
              [x EXCEPT !.at = "running", !.rules = s] \in governance!Requests
        BY DEF governance!Requests
      <4> QED
        BY <2>3, <4>1, <4>2
    <3>2. request' \in [Request -> governance!Requests]
      BY <2>1, <3>1 DEF governance!GovernanceInv, governance!TypeInv
    <3> QED
      BY <2>1, <3>2 DEF governance!GovernanceInv, governance!TypeInv, governance!Requests
  <2>5. \A q \in Request : q # r => request'[q] = request[q]
    BY <2>1 DEF governance!GovernanceInv, governance!TypeInv
  <2>6. request'[r].at = "running" /\ request'[r].due = request[r].due
        /\ request'[r].rules = read
    BY <2>1 DEF governance!GovernanceInv, governance!TypeInv, governance!Requests
  <2>7. \A q \in Request : request'[q].at = "resolve" => request'[q].due \subseteq past.set
    BY <2>5, <2>6 DEF governance!GovernanceInv, governance!DueIsSet
  <2>8. \A q \in Request :
          request'[q].at = "running" => request'[q].due \subseteq request'[q].rules
    <3>1. request'[r].due \subseteq request'[r].rules
      BY <2>1, <2>2, <2>6 DEF governance!GovernanceInv, governance!DueIsSet
    <3> QED
      BY <3>1, <2>5 DEF governance!GovernanceInv, governance!QueriesUnderRules
  <2>9. \A q \in Request : request'[q].at = "store" => request'[q] = request[q]
    BY <2>5, <2>6
  <2> QED
    BY <2>1, <2>4, <2>7, <2>8, <2>9, QueryKeeps
<1>6. ASSUME NEW r \in Request, governance!QueryEnds(r) PROVE governance!GovernanceInv'
  <2>1. /\ row' = row /\ past' = past
        /\ request' = [request EXCEPT ![r] = [governance!Idle EXCEPT !.at = "ended"]]
    BY <1>6 DEF governance!QueryEnds
  <2>2. governance!TypeInv'
    BY <2>1
    DEF governance!GovernanceInv, governance!TypeInv, governance!Requests, governance!Idle
  <2> QED
    BY <2>1, <2>2, QueryKeeps
    DEF governance!GovernanceInv, governance!TypeInv, governance!Requests,
        governance!DueIsSet, governance!QueriesUnderRules, governance!Idle
<1>7. CASE governance!SetVisibility \/ governance!Revoke \/ UNCHANGED governance!vars
  <2>1. /\ row'.filters = row.filters /\ row'.masks = row.masks
        /\ row' \in [restricted : BOOLEAN, filters : SUBSET Role, masks : SUBSET Column]
        /\ past' = past /\ request' = request
    <3>1. /\ past' = past /\ request' = request
          /\ row' = row \/ row' = [row EXCEPT !.restricted = ~row.restricted]
      BY <1>7 DEF governance!SetVisibility, governance!Revoke, governance!vars
    <3>2. row \in [restricted : BOOLEAN, filters : SUBSET Role, masks : SUBSET Column]
      BY DEF governance!GovernanceInv, governance!TypeInv
    <3> QED
      BY <3>1, <3>2
  <2>2. governance!TypeInv'
    BY <2>1 DEF governance!GovernanceInv, governance!TypeInv, governance!Requests
  <2> QED
    BY <2>1, <2>2, QueryKeeps
    DEF governance!GovernanceInv, governance!DueIsSet, governance!QueriesUnderRules
<1>8. CASE governance!Crash
  <2>1. /\ row' = row /\ past' = past
        /\ request' = [r \in Request |-> IF governance!Busy(r) THEN [governance!Idle EXCEPT !.at = "ended"]
                                         ELSE request[r]]
    BY <1>8 DEF governance!Crash
  <2>2. governance!TypeInv'
    BY <2>1
    DEF governance!GovernanceInv, governance!TypeInv, governance!Requests, governance!Idle
  <2> QED
    BY <2>1, <2>2, QueryKeeps
    DEF governance!GovernanceInv, governance!TypeInv, governance!Requests,
        governance!DueIsSet, governance!QueriesUnderRules, governance!Idle,
        governance!Busy
<1> QED
  BY <1>1, <1>2, <1>3, <1>4, <1>5, <1>6, <1>7, <1>8 DEF governance!Next

(* Nobody begins to grant, and no grant is made. *)
LEMMA GrantsKeep ==
  ASSUME governance!GrantsApart, thing' \subseteq thing,
         past.crossed \subseteq past'.crossed,
         \A r \in Request : request'[r].at = "grant" => request[r].at = "grant"
  PROVE  governance!GrantsApart'
BY DEF governance!GrantsApart

LEMMA GrantsStep ==
  governance!TypeInv /\ governance!GrantsApart /\ [governance!Next]_(governance!vars)
    => governance!GrantsApart'
<1> SUFFICES ASSUME governance!TypeInv, governance!GrantsApart,
                    [governance!Next]_(governance!vars)
             PROVE  governance!GrantsApart'
  OBVIOUS
<1> USE DEF governance!Goto
<1>t. request \in [Request -> governance!Requests]
      /\ past \in [set : SUBSET governance!Rules, crossed : SUBSET Request]
  BY DEF governance!TypeInv
<1>1. ASSUME NEW r \in Request, governance!Load(r) PROVE governance!GrantsApart'
  <2>1. /\ thing' = thing
        /\ past.crossed \subseteq past'.crossed
        /\ \A q \in Request : request'[q].at = "grant" => request[q].at = "grant"
    BY <1>t, <1>1 DEF governance!Load, governance!Idle, governance!Requests
  <2> QED
    BY <2>1, GrantsKeep
<1>2. ASSUME NEW r \in Request, governance!Store(r) PROVE governance!GrantsApart'
  <2>1. /\ thing' = thing
        /\ past'.crossed = past.crossed
        /\ \A q \in Request : request'[q].at = "grant" => request[q].at = "grant"
    BY <1>t, <1>2 DEF governance!Store, governance!Requests
  <2> QED
    BY <2>1, GrantsKeep
<1>3. ASSUME NEW r \in Request, governance!Check(r) PROVE governance!GrantsApart'
  <2> DEFINE others == {q \in Request : request[q].at = "grant"}
  <2>1. /\ thing' = {} /\ request[r].at = "idle"
        /\ request'[r].at = "grant"
        /\ \A q \in Request : q # r => request'[q].at = request[q].at
        /\ past'.crossed = IF others = {} THEN past.crossed ELSE past.crossed \cup others \cup {r}
    BY <1>t, <1>3 DEF governance!Check, governance!CrossGrants, governance!Requests
  <2> QED
    BY <2>1 DEF governance!GrantsApart
<1>4. ASSUME NEW r \in Request, governance!Grant(r) PROVE governance!GrantsApart'
  <2>1. /\ thing' = thing \cup {r} /\ past' = past
        /\ request[r].at = "grant" /\ request'[r].at = "ended"
        /\ \A q \in Request : q # r => request'[q].at = request[q].at
    BY <1>t, <1>4 DEF governance!Grant, governance!Requests
  <2> QED
    BY <2>1 DEF governance!GrantsApart
<1>5. ASSUME NEW r \in Request,
             governance!Query(r) \/ governance!Resolve(r) \/ governance!QueryEnds(r)
      PROVE  governance!GrantsApart'
  <2>1. /\ thing' = thing /\ past' = past
        /\ \A q \in Request : request'[q].at = "grant" => request[q].at = "grant"
    <3>1. CASE governance!Query(r) \/ governance!QueryEnds(r)
      <4>1. /\ thing' = thing /\ past' = past
            /\ \E x : x.at # "grant" /\ request' = [request EXCEPT ![r] = x]
        <5>1. /\ [governance!Idle EXCEPT !.at = "resolve", !.due = past.set].at # "grant"
              /\ [governance!Idle EXCEPT !.at = "refused"].at # "grant"
              /\ [governance!Idle EXCEPT !.at = "ended"].at # "grant"
          BY DEF governance!Idle
        <5> QED
          BY <3>1, <5>1 DEF governance!Query, governance!QueryEnds
      <4> QED
        BY <1>t, <4>1
    <3>2. CASE governance!Resolve(r)
      <4> DEFINE read == UNION {{<<field, e>> : e \in row[field]} : field \in governance!Field}
      <4>1. /\ thing' = thing /\ past' = past
            /\ request' = [request EXCEPT ![r].at = "running", ![r].rules = read]
        BY <3>2 DEF governance!Resolve
      <4> HIDE DEF read
      <4>2. request'[r].at = "running" /\ \A q \in Request : q # r => request'[q] = request[q]
        BY <1>t, <4>1 DEF governance!Requests
      <4> QED
        BY <4>1, <4>2
    <3> QED
      BY <1>5, <3>1, <3>2
  <2> QED
    BY <2>1, GrantsKeep
<1>6. CASE governance!SetVisibility \/ governance!Revoke \/ UNCHANGED governance!vars
  <2>1. thing' \subseteq thing /\ past' = past /\ request' = request
    BY <1>6 DEF governance!SetVisibility, governance!Revoke, governance!vars
  <2> QED
    BY <2>1, GrantsKeep
<1>7. CASE governance!Crash
  <2>1. /\ thing' = thing /\ past' = past
        /\ \A q \in Request : request'[q].at = "grant" => request[q].at = "grant"
    BY <1>7 DEF governance!Crash, governance!Busy, governance!Idle
  <2> QED
    BY <2>1, GrantsKeep
<1> QED
  BY <1>1, <1>2, <1>3, <1>4, <1>5, <1>6, <1>7 DEF governance!Next

(* Only a revoke takes a grant away, and takes one. *)
LEMMA OneRevoked ==
  ASSUME governance!GrantsApart, [governance!Next]_(governance!vars)
  PROVE  governance!RevokeEnds
<1> SUFFICES ASSUME NEW g \in thing \ thing', g \notin past.crossed, row'.restricted
             PROVE  ~governance!CanRead'
  BY DEF governance!RevokeEnds
<1>1. governance!Revoke
  BY DEF governance!Next, governance!vars, governance!Load, governance!Store,
         governance!Check, governance!Grant, governance!Query, governance!Resolve,
         governance!QueryEnds, governance!SetVisibility, governance!Crash
<1>2. PICK h \in thing : thing' = thing \ {h}
  BY <1>1 DEF governance!Revoke
<1>3. thing' = {}
  BY <1>2 DEF governance!GrantsApart
<1> QED
  BY <1>3 DEF governance!CanRead
-----------------------------------------------------------------------------
LEMMA AccountsStart == accounts!Init => accounts!AccountsInv
<1> SUFFICES ASSUME accounts!Init
             PROVE  accounts!AccountsInv
  OBVIOUS
<1>1. accounts!TypeInv
  BY NoneAssumption, AdminAssumption
  DEF accounts!Init, accounts!TypeInv, accounts!Requests, accounts!Rows, accounts!User,
      accounts!Row, accounts!Idle, accounts!At
<1>2. accounts!RowsThere /\ accounts!CrossedKnown /\ accounts!OffIsInactive
  BY DEF accounts!Init, accounts!RowsThere, accounts!CrossedKnown, accounts!OffIsInactive,
         accounts!Writes, accounts!Idle, accounts!At
<1> QED
  BY <1>1, <1>2 DEF accounts!AccountsInv

(* A step of the calls and the lookups: no row changes, and who writes goes on. *)
LEMMA CallKeeps ==
  ASSUME accounts!AccountsInv, row' = row, past'.off = past.off,
         accounts!TypeInv', accounts!RowsThere',
         \A r \in Client : request'[r].at = "write" =>
           request'[r] = request[r] /\ (r \in past.crossed => r \in past'.crossed)
  PROVE  accounts!AccountsInv'
<1>1. \A r \in Client, u \in accounts!User, v \in BOOLEAN : accounts!Writes(r, u, v)' => accounts!Writes(r, u, v)
  BY DEF accounts!Writes
<1>2. accounts!CrossedKnown'
  BY <1>1 DEF accounts!AccountsInv, accounts!CrossedKnown, accounts!Writes
<1>3. accounts!OffIsInactive'
  BY <1>1
  DEF accounts!AccountsInv, accounts!TypeInv, accounts!OffIsInactive, accounts!There
<1> QED
  BY <1>2, <1>3 DEF accounts!AccountsInv

(* A request that starts or goes on, and who holds what. *)
LEMMA StepTypes ==
  ASSUME accounts!TypeInv, NEW r \in Client,
         NEW pc \in {"idle", "insert", "provision", "write", "token", "user", "call"},
         NEW u \in accounts!User \cup {None}, NEW w \in BOOLEAN \cup {None},
         NEW n \in Name \cup {None}, NEW v \in BOOLEAN \cup {None}
  PROVE  [request EXCEPT ![r] = accounts!At(pc, u, w, n, v)] \in [Client -> accounts!Requests]
<1>1. accounts!At(pc, u, w, n, v) \in accounts!Requests
  BY DEF accounts!At, accounts!Requests
<1> QED
  BY <1>1 DEF accounts!TypeInv

LEMMA AccountsStep == accounts!AccountsInv /\ [accounts!Next]_(accounts!vars) => accounts!AccountsInv'
<1> SUFFICES ASSUME accounts!AccountsInv, [accounts!Next]_(accounts!vars)
             PROVE  accounts!AccountsInv'
  OBVIOUS
<1>t. accounts!TypeInv /\ accounts!RowsThere /\ accounts!CrossedKnown /\ accounts!OffIsInactive
  BY DEF accounts!AccountsInv
<1>1. ASSUME NEW r \in Client, accounts!Check(r) PROVE accounts!AccountsInv'
  <2>1. PICK n \in Name, v \in BOOLEAN :
          request' = [request EXCEPT ![r] = accounts!At("insert", None, None, n, v)]
    BY <1>1 DEF accounts!Check
  <2>2. UNCHANGED <<row, thing, past>>
    BY <1>1 DEF accounts!Check
  <2>3. accounts!TypeInv'
    BY <1>t, <2>1, <2>2, StepTypes DEF accounts!TypeInv
  <2>4. accounts!RowsThere'
    BY <1>t, <2>1, <2>2
    DEF accounts!TypeInv, accounts!Requests, accounts!RowsThere, accounts!There,
        accounts!At
  <2> QED
    BY <1>t, <2>1, <2>2, <2>3, <2>4, CallKeeps DEF accounts!TypeInv, accounts!At
<1>2. ASSUME NEW r \in Client, accounts!FirstSignIn(r) PROVE accounts!AccountsInv'
  <2>1. PICK n \in Name :
          request' = [request EXCEPT ![r] = accounts!At("provision", None, None, n, TRUE)]
    BY <1>2 DEF accounts!FirstSignIn
  <2>2. UNCHANGED <<row, thing, past>>
    BY <1>2 DEF accounts!FirstSignIn
  <2>3. accounts!TypeInv'
    BY <1>t, <2>1, <2>2, StepTypes DEF accounts!TypeInv
  <2>4. accounts!RowsThere'
    BY <1>t, <2>1, <2>2
    DEF accounts!TypeInv, accounts!Requests, accounts!RowsThere, accounts!There,
        accounts!At
  <2> QED
    BY <1>t, <2>1, <2>2, <2>3, <2>4, CallKeeps DEF accounts!TypeInv, accounts!At
<1>3. ASSUME NEW r \in Client, accounts!Insert(r) PROVE accounts!AccountsInv'
  <2>1. request' = [request EXCEPT ![r] = accounts!At("idle", None, None, None, None)]
    BY <1>3 DEF accounts!Insert, accounts!Ends, accounts!Idle
  <2>2. request[r].name \in Name /\ request[r].active \in BOOLEAN
    BY <1>3, <1>t DEF accounts!Insert, accounts!RowsThere
  <2>3. \A q \in Client, u \in accounts!User, v \in BOOLEAN : accounts!Writes(q, u, v)' => accounts!Writes(q, u, v)
    BY <1>t, <2>1 DEF accounts!TypeInv, accounts!Writes, accounts!At
  <2>4. CASE accounts!Named(request[r].name) # {}
    <3>1. UNCHANGED <<row, thing, past>>
      BY <1>3, <2>4 DEF accounts!Insert
    <3>2. accounts!TypeInv'
      BY <1>t, <2>1, <3>1, StepTypes DEF accounts!TypeInv
    <3>3. accounts!RowsThere'
      BY <1>t, <2>1, <3>1
      DEF accounts!TypeInv, accounts!RowsThere, accounts!There, accounts!At
    <3> QED
      BY <1>t, <2>1, <3>1, <3>2, <3>3, CallKeeps DEF accounts!TypeInv, accounts!At
  <2>5. CASE accounts!Named(request[r].name) = {}
    <3>1. PICK u \in New :
            /\ ~accounts!There(u)
            /\ row' = [row EXCEPT ![u] = accounts!Row(request[r].name, request[r].active)]
            /\ past' = IF request[r].active THEN past ELSE [past EXCEPT !.off = @ \cup {u}]
            /\ thing' = IF request[r].at = "provision"
                          THEN [thing EXCEPT !.session = @ \cup {u}] ELSE thing
      BY <1>3, <2>5 DEF accounts!Insert
    <3>2. u \in accounts!User /\ accounts!Row(request[r].name, request[r].active) \in accounts!Rows
      BY <2>2 DEF accounts!User, accounts!Rows, accounts!Row
    <3>3. past' \in [crossed : SUBSET Client, off : SUBSET accounts!User]
      BY <1>t, <3>1, <3>2 DEF accounts!TypeInv
    <3>4. thing' \in [session : SUBSET accounts!User, token : SUBSET accounts!User]
      BY <1>t, <3>1, <3>2 DEF accounts!TypeInv
    <3>5. row' \in [accounts!User -> accounts!Rows \cup {None}]
      BY <1>t, <3>1, <3>2 DEF accounts!TypeInv
    <3>6. accounts!TypeInv'
      BY <1>t, <2>1, <3>3, <3>4, <3>5, StepTypes DEF accounts!TypeInv
    <3>7. \A w \in accounts!User : accounts!There(w) => accounts!There(w)' /\ row'[w] = row[w]
      BY <1>t, <3>1, <3>2 DEF accounts!TypeInv, accounts!There
    <3>8. accounts!There(u)'
      BY <1>t, <2>2, <3>1, <3>2, NoneAssumption
      DEF accounts!TypeInv, accounts!There, accounts!Rows
    <3>9. thing'.session \cup thing'.token \subseteq thing.session \cup thing.token \cup {u}
      BY <1>t, <3>1 DEF accounts!TypeInv
    <3>10. \A q \in Client : request'[q].at # "idle" => request'[q] = request[q]
      BY <1>t, <2>1 DEF accounts!TypeInv, accounts!At
    <3>11. accounts!RowsThere'
      BY <1>t, <3>2, <3>7, <3>8, <3>9, <3>10 DEF accounts!TypeInv, accounts!RowsThere
    <3>12. \A q \in Client, v \in BOOLEAN : ~accounts!Writes(q, u, v)
      BY <1>t, <3>1 DEF accounts!RowsThere, accounts!Writes
    <3>13. accounts!CrossedKnown'
      <4> SUFFICES ASSUME NEW q \in Client, NEW w \in accounts!User,
                          accounts!Writes(q, w, FALSE)', q \notin past'.crossed
                   PROVE  /\ \A s \in Client : ~accounts!Writes(s, w, TRUE)'
                          /\ request'[q].was = FALSE => row'[w].active = FALSE
        BY DEF accounts!CrossedKnown
      <4>1. accounts!Writes(q, w, FALSE) /\ w # u /\ past'.crossed = past.crossed
        BY <1>t, <2>3, <3>1, <3>12 DEF accounts!TypeInv
      <4>2. request'[q] = request[q] /\ row'[w] = row[w]
        BY <1>t, <3>1, <3>10, <4>1 DEF accounts!TypeInv, accounts!Writes
      <4> QED
        BY <1>t, <2>3, <4>1, <4>2 DEF accounts!CrossedKnown
    <3>14. accounts!OffIsInactive'
      <4> SUFFICES ASSUME NEW w \in past'.off
                   PROVE  /\ accounts!There(w)' /\ row'[w].active = FALSE
                          /\ \A s \in Client : ~accounts!Writes(s, w, TRUE)'
        BY DEF accounts!OffIsInactive
      <4>1. CASE w \in past.off
        <5>1. /\ w \in accounts!User /\ accounts!There(w) /\ row[w].active = FALSE
              /\ \A s \in Client : ~accounts!Writes(s, w, TRUE)
          BY <1>t, <4>1 DEF accounts!TypeInv, accounts!OffIsInactive
        <5> QED
          BY <2>3, <3>7, <5>1
      <4>2. CASE w \notin past.off
        <5>1. w = u /\ request[r].active = FALSE
          BY <1>t, <2>2, <3>1, <4>2 DEF accounts!TypeInv
        <5>2. row'[u] = accounts!Row(request[r].name, request[r].active)
          BY <1>t, <3>1, <3>2 DEF accounts!TypeInv
        <5>3. row'[u].active = FALSE
          BY <5>1, <5>2 DEF accounts!Row
        <5>4. \A s \in Client : ~accounts!Writes(s, u, TRUE)'
          BY <2>3, <3>2, <3>12
        <5> QED
          BY <3>8, <5>1, <5>3, <5>4
      <4> QED
        BY <4>1, <4>2
    <3> QED
      BY <3>6, <3>11, <3>13, <3>14 DEF accounts!AccountsInv
  <2> QED
    BY <2>4, <2>5
<1>4. ASSUME NEW r \in Client, accounts!Load(r) PROVE accounts!AccountsInv'
  <2>0. PICK u \in accounts!User, sent \in [name : Name \cup {None}, active : BOOLEAN \cup {None}] :
          \E read \in accounts!Read(sent) :
            LET v == read.active
            IN /\ accounts!There(u)
               /\ request' = [request EXCEPT ![r] =
                    [accounts!At("write", u, row[u].active, read.name, v) EXCEPT
                       !.meant = sent.active = FALSE]]
               /\ past' = [crossed |-> past.crossed \cup
                      (IF v = TRUE THEN {q \in Client : accounts!Writes(q, u, FALSE)} ELSE {}) \cup
                      (IF v = FALSE /\ (\E q \in Client : accounts!Writes(q, u, TRUE)) THEN {r} ELSE {}),
                    off |-> IF v = TRUE THEN past.off \ {u} ELSE past.off]
    BY <1>4 DEF accounts!Load
  <2> DEFINE meant == sent.active = FALSE
  <2>1. PICK n \in Name \cup {None}, v \in {TRUE, FALSE, None} :
          /\ accounts!There(u)
          /\ request' = [request EXCEPT ![r] =
               [accounts!At("write", u, row[u].active, n, v) EXCEPT !.meant = meant]]
          /\ past' = [crossed |-> past.crossed \cup
                        (IF v = TRUE THEN {q \in Client : accounts!Writes(q, u, FALSE)} ELSE {}) \cup
                        (IF v = FALSE /\ (\E q \in Client : accounts!Writes(q, u, TRUE)) THEN {r} ELSE {}),
                      off |-> IF v = TRUE THEN past.off \ {u} ELSE past.off]
    <3>1. \A read \in accounts!Read(sent) :
            read.name \in Name \cup {None} /\ read.active \in {TRUE, FALSE, None}
      <4> TAKE read \in accounts!Read(sent)
      <4>1. read \in {sent, [name |-> None, active |-> None], [sent EXCEPT !.active = TRUE]}
        BY DEF accounts!Read
      <4>2. /\ sent.name \in Name \cup {None}
            /\ sent.active \in {TRUE, FALSE, None}
        OBVIOUS
      <4>3. CASE read = sent
        BY <4>2, <4>3
      <4>4. CASE read = [name |-> None, active |-> None]
        BY <4>4
      <4>5. CASE read = [sent EXCEPT !.active = TRUE]
        BY <4>2, <4>5
      <4> QED
        BY <4>1, <4>3, <4>4, <4>5
    <3>2. PICK read \in accounts!Read(sent) :
            /\ accounts!There(u)
            /\ request' = [request EXCEPT ![r] =
                 [accounts!At("write", u, row[u].active, read.name, read.active) EXCEPT
                    !.meant = meant]]
            /\ past' = [crossed |-> past.crossed \cup
                   (IF read.active = TRUE THEN {q \in Client : accounts!Writes(q, u, FALSE)} ELSE {}) \cup
                   (IF read.active = FALSE /\ (\E q \in Client : accounts!Writes(q, u, TRUE)) THEN {r} ELSE {}),
                 off |-> IF read.active = TRUE THEN past.off \ {u} ELSE past.off]
      BY <2>0, Zenon
    <3>3. read.name \in Name \cup {None} /\ read.active \in {TRUE, FALSE, None}
      BY <3>1
    <3> QED
      BY <3>2, <3>3, Zenon
  <2>1a. meant \in BOOLEAN
    OBVIOUS
  <2> HIDE DEF meant
  <2>2. UNCHANGED <<row, thing>> /\ request[r].at = "idle"
    BY <1>4 DEF accounts!Load
  <2>3. row[u] \in accounts!Rows /\ row[u].active \in BOOLEAN
    BY <1>t, <2>1 DEF accounts!TypeInv, accounts!There, accounts!Rows
  <2>4. past' \in [crossed : SUBSET Client, off : SUBSET accounts!User]
    BY <1>t, <2>1 DEF accounts!TypeInv
  <2>5. accounts!TypeInv'
    <3>1. [accounts!At("write", u, row[u].active, n, v) EXCEPT !.meant = meant] \in accounts!Requests
      BY <2>1a, <2>3 DEF accounts!At, accounts!Requests
    <3> QED
      BY <1>t, <2>1, <2>2, <2>4, <3>1 DEF accounts!TypeInv
  <2>6. /\ request'[r].at = "write" /\ request'[r].user = u
        /\ request'[r].was = row[u].active /\ request'[r].active = v
        /\ \A q \in Client \ {r} : request'[q] = request[q]
    BY <1>t, <2>1 DEF accounts!TypeInv, accounts!At
  <2>7. accounts!RowsThere'
    BY <1>t, <2>1, <2>2, <2>6 DEF accounts!RowsThere, accounts!There, accounts!At
  <2>8. /\ past.crossed \subseteq past'.crossed
        /\ v = TRUE => {q \in Client : accounts!Writes(q, u, FALSE)} \subseteq past'.crossed
        /\ v = FALSE /\ (\E q \in Client : accounts!Writes(q, u, TRUE)) => r \in past'.crossed
        /\ past'.off \subseteq past.off
        /\ v = TRUE => u \notin past'.off
    BY <2>1
  <2>9. \A q \in Client, w \in accounts!User, x \in BOOLEAN :
          accounts!Writes(q, w, x)' => accounts!Writes(q, w, x) \/ (q = r /\ w = u /\ v = x)
    BY <2>6 DEF accounts!Writes, accounts!At
  <2>10. accounts!CrossedKnown'
    <3> SUFFICES ASSUME NEW q \in Client, NEW w \in accounts!User,
                        accounts!Writes(q, w, FALSE)', q \notin past'.crossed
                 PROVE  /\ \A s \in Client : ~accounts!Writes(s, w, TRUE)'
                        /\ request'[q].was = FALSE => row'[w].active = FALSE
      BY DEF accounts!CrossedKnown
    <3>1. CASE q = r
      <4>1. w = u /\ v = FALSE /\ request'[q].was = row[u].active
        BY <2>2, <2>6, <2>9, <3>1 DEF accounts!Writes, accounts!At
      <4> QED
        BY <2>2, <2>8, <2>9, <3>1, <4>1
    <3>2. CASE q # r
      <4>1. accounts!Writes(q, w, FALSE) /\ q \notin past.crossed /\ request'[q] = request[q]
        BY <2>6, <2>8, <2>9, <3>2
      <4>2. ~(w = u /\ v = TRUE)
        BY <2>8, <4>1
      <4> QED
        BY <1>t, <2>2, <2>9, <4>1, <4>2 DEF accounts!CrossedKnown
    <3> QED
      BY <3>1, <3>2
  <2>11. accounts!OffIsInactive'
    <3> SUFFICES ASSUME NEW w \in past'.off
                 PROVE  /\ accounts!There(w)' /\ row'[w].active = FALSE
                        /\ \A s \in Client : ~accounts!Writes(s, w, TRUE)'
      BY DEF accounts!OffIsInactive
    <3>1. /\ w \in accounts!User /\ accounts!There(w) /\ row[w].active = FALSE
          /\ \A s \in Client : ~accounts!Writes(s, w, TRUE)
      BY <1>t, <2>8 DEF accounts!TypeInv, accounts!OffIsInactive
    <3> QED
      BY <2>2, <2>8, <2>9, <3>1 DEF accounts!There
  <2> QED
    BY <2>5, <2>7, <2>10, <2>11 DEF accounts!AccountsInv
<1>5. ASSUME NEW r \in Client, accounts!Write(r) PROVE accounts!AccountsInv'
  <2> DEFINE n == request[r].name
  <2>1. /\ request' = [request EXCEPT ![r] = accounts!At("idle", None, None, None, None)]
        /\ request[r].at = "write" /\ thing' = thing
    BY <1>5 DEF accounts!Write, accounts!Ends, accounts!Idle
  <2>2. PICK u \in accounts!User : u = request[r].user /\ accounts!There(u) /\ row[u] \in accounts!Rows
    BY <1>t, <2>1 DEF accounts!TypeInv, accounts!RowsThere, accounts!There
  <2>3. /\ \A q \in Client \ {r} : request'[q] = request[q]
        /\ request'[r].at = "idle"
    BY <1>t, <2>1 DEF accounts!TypeInv, accounts!At
  <2>4. \A q \in Client, w \in accounts!User, x \in BOOLEAN :
          accounts!Writes(q, w, x)' => accounts!Writes(q, w, x) /\ q # r
    BY <2>3 DEF accounts!Writes
  <2>5. /\ row' = [row EXCEPT ![u] = accounts!Row(IF n = None THEN @.name ELSE n, accounts!Written(r))]
        /\ past' = [crossed |-> past.crossed \ {r},
                    off |-> IF request[r].active = FALSE /\ r \notin past.crossed
                              THEN past.off \cup {u} ELSE past.off]
    BY <1>5, <2>2 DEF accounts!Write
  <2>6. accounts!Written(r) \in BOOLEAN
    BY <1>t, <2>2
    DEF accounts!TypeInv, accounts!Requests, accounts!Written, accounts!Rows
  <2>7. (IF n = None THEN row[u].name ELSE n) \in Name
    BY <1>t, <2>2 DEF accounts!TypeInv, accounts!Requests, accounts!Rows
  <2>8. row'[u] = accounts!Row(IF n = None THEN row[u].name ELSE n, accounts!Written(r))
    BY <1>t, <2>2, <2>5 DEF accounts!TypeInv
  <2>9. \A w \in accounts!User \ {u} : row'[w] = row[w]
    BY <1>t, <2>2, <2>5 DEF accounts!TypeInv
  <2>10. row'[u] \in accounts!Rows /\ accounts!There(u)' /\ row'[u].active = accounts!Written(r)
    <3>1. row'[u] = [name |-> IF n = None THEN row[u].name ELSE n, active |-> accounts!Written(r)]
      BY <2>8 DEF accounts!Row
    <3>2. row'[u] \in accounts!Rows
      BY <2>6, <2>7, <3>1 DEF accounts!Rows
    <3>3. accounts!There(u)'
      BY <3>2, NoneAssumption DEF accounts!Rows, accounts!There
    <3>4. row'[u].active = accounts!Written(r)
      BY <3>1
    <3> QED
      BY <3>2, <3>3, <3>4
  <2>11. past' \in [crossed : SUBSET Client, off : SUBSET accounts!User]
    BY <1>t, <2>2, <2>5 DEF accounts!TypeInv
  <2>12. row' \in [accounts!User -> accounts!Rows \cup {None}]
    BY <1>t, <2>2, <2>5, <2>8, <2>10 DEF accounts!TypeInv
  <2>13. accounts!TypeInv'
    BY <1>t, <2>1, <2>11, <2>12, StepTypes DEF accounts!TypeInv
  <2>14. \A w \in accounts!User : accounts!There(w) => accounts!There(w)'
    <3>1. \A w \in accounts!User \ {u} : accounts!There(w) => accounts!There(w)'
      BY <2>9 DEF accounts!There
    <3> QED
      BY <2>10, <3>1
  <2>15. accounts!RowsThere'
    BY <1>t, <2>1, <2>3, <2>14 DEF accounts!TypeInv, accounts!RowsThere
  <2>16. past'.crossed = past.crossed \ {r} /\ past.off \subseteq past'.off
    BY <2>5
  <2>17. \A w \in past'.off : w \in past.off
                \/ (w = u /\ request[r].active = FALSE /\ r \notin past.crossed)
    BY <2>5
  <2> HIDE DEF n
  <2>18. (\A q \in Client : ~accounts!Writes(q, u, TRUE)) /\ row[u].active = FALSE
           => row'[u].active = FALSE
    <3>1. request[r].active # TRUE \/ ~(\A q \in Client : ~accounts!Writes(q, u, TRUE))
      BY <2>1, <2>2 DEF accounts!Writes
    <3>2. request[r].active \in {TRUE, FALSE, None}
      BY <1>t DEF accounts!TypeInv, accounts!Requests
    <3> QED
      BY <2>2, <2>10, <3>1, <3>2 DEF accounts!Written
  <2>19. request[r].active = FALSE /\ r \notin past.crossed
           => /\ row'[u].active = FALSE
              /\ \A q \in Client : ~accounts!Writes(q, u, TRUE)
    <3> SUFFICES ASSUME request[r].active = FALSE, r \notin past.crossed
                 PROVE  /\ row'[u].active = FALSE
                        /\ \A q \in Client : ~accounts!Writes(q, u, TRUE)
      OBVIOUS
    <3>1. accounts!Writes(r, u, FALSE) /\ u \in accounts!User
      BY <2>1, <2>2 DEF accounts!Writes
    <3>2. /\ \A q \in Client : ~accounts!Writes(q, u, TRUE)
          /\ request[r].was = FALSE => row[u].active = FALSE
      BY <1>t, <3>1 DEF accounts!CrossedKnown
    <3>3. accounts!Written(r) = FALSE
      BY <2>2, <3>2, NoneAssumption DEF accounts!Written
    <3> QED
      BY <2>10, <3>2, <3>3
  <2>20. accounts!CrossedKnown'
    <3> SUFFICES ASSUME NEW q \in Client, NEW w \in accounts!User,
                        accounts!Writes(q, w, FALSE)', q \notin past'.crossed
                 PROVE  /\ \A s \in Client : ~accounts!Writes(s, w, TRUE)'
                        /\ request'[q].was = FALSE => row'[w].active = FALSE
      BY DEF accounts!CrossedKnown
    <3>1. accounts!Writes(q, w, FALSE) /\ q \notin past.crossed /\ request'[q] = request[q]
      BY <2>3, <2>4, <2>16
    <3>2. /\ \A s \in Client : ~accounts!Writes(s, w, TRUE)
          /\ request[q].was = FALSE => row[w].active = FALSE
      BY <1>t, <3>1 DEF accounts!CrossedKnown
    <3> QED
      BY <2>4, <2>9, <2>18, <3>1, <3>2
  <2>21. accounts!OffIsInactive'
    <3> SUFFICES ASSUME NEW w \in past'.off
                 PROVE  /\ accounts!There(w)' /\ row'[w].active = FALSE
                        /\ \A s \in Client : ~accounts!Writes(s, w, TRUE)'
      BY DEF accounts!OffIsInactive
    <3>1. CASE w \in past.off
      <4>1. /\ w \in accounts!User /\ accounts!There(w) /\ row[w].active = FALSE
            /\ \A s \in Client : ~accounts!Writes(s, w, TRUE)
        BY <1>t, <3>1 DEF accounts!TypeInv, accounts!OffIsInactive
      <4> QED
        BY <2>4, <2>9, <2>14, <2>18, <4>1
    <3>2. CASE w = u /\ request[r].active = FALSE /\ r \notin past.crossed
      BY <2>2, <2>4, <2>10, <2>19, <3>2
    <3> QED
      BY <2>17, <3>1, <3>2
  <2> QED
    BY <2>13, <2>15, <2>20, <2>21 DEF accounts!AccountsInv
<1>5a. ASSUME NEW r \in Client, accounts!WriteFails(r) PROVE accounts!AccountsInv'
  <2>1. /\ request' = [request EXCEPT ![r] = accounts!At("idle", None, None, None, None)]
        /\ past' = [past EXCEPT !.crossed = @ \ {r}]
        /\ UNCHANGED <<row, thing>>
    BY <1>5a DEF accounts!WriteFails, accounts!Ends, accounts!Idle
  <2>2. /\ \A q \in Client \ {r} : request'[q] = request[q]
        /\ request'[r].at = "idle"
    BY <1>t, <2>1 DEF accounts!TypeInv, accounts!At
  <2>3. accounts!TypeInv'
    BY <1>t, <2>1, StepTypes DEF accounts!TypeInv
  <2>4. accounts!RowsThere'
    BY <1>t, <2>1, <2>2 DEF accounts!RowsThere, accounts!There
  <2>5. past'.off = past.off /\ past'.crossed = past.crossed \ {r}
    BY <1>t, <2>1 DEF accounts!TypeInv
  <2> QED
    BY <2>1, <2>2, <2>3, <2>4, <2>5, CallKeeps
<1>6. ASSUME NEW r \in Client, accounts!CallInSession(r) PROVE accounts!AccountsInv'
  <2>1. PICK u \in thing.session :
          request' = [request EXCEPT ![r] = accounts!At("user", u, None, None, None)]
    BY <1>6 DEF accounts!CallInSession
  <2>2. UNCHANGED <<row, thing, past>> /\ u \in accounts!User /\ accounts!There(u)
    BY <1>6, <1>t DEF accounts!CallInSession, accounts!TypeInv, accounts!RowsThere
  <2>3. accounts!TypeInv'
    BY <1>t, <2>1, <2>2, StepTypes DEF accounts!TypeInv
  <2>4. accounts!RowsThere'
    BY <1>t, <2>1, <2>2
    DEF accounts!TypeInv, accounts!Requests, accounts!RowsThere, accounts!There,
        accounts!At
  <2> QED
    BY <1>t, <2>1, <2>2, <2>3, <2>4, CallKeeps DEF accounts!TypeInv, accounts!At
<1>7. ASSUME NEW r \in Client, accounts!CallWithToken(r) PROVE accounts!AccountsInv'
  <2>1. PICK u \in thing.token :
          request' = [request EXCEPT ![r] = accounts!At("token", u, None, None, None)]
    BY <1>7 DEF accounts!CallWithToken
  <2>2. UNCHANGED <<row, thing, past>> /\ u \in accounts!User /\ accounts!There(u)
    BY <1>7, <1>t DEF accounts!CallWithToken, accounts!TypeInv, accounts!RowsThere
  <2>3. accounts!TypeInv'
    BY <1>t, <2>1, <2>2, StepTypes DEF accounts!TypeInv
  <2>4. accounts!RowsThere'
    BY <1>t, <2>1, <2>2
    DEF accounts!TypeInv, accounts!Requests, accounts!RowsThere, accounts!There,
        accounts!At
  <2> QED
    BY <1>t, <2>1, <2>2, <2>3, <2>4, CallKeeps DEF accounts!TypeInv, accounts!At
<1>8. ASSUME NEW r \in Client, accounts!FindToken(r) \/ accounts!Admit(r) PROVE accounts!AccountsInv'
  <2>1. UNCHANGED <<row, thing, past>> /\ request[r].at \in {"token", "user"}
    BY <1>8 DEF accounts!FindToken, accounts!Admit
  <2>2. PICK pc \in {"user", "call", "idle"} :
          \/ request' = [request EXCEPT ![r].at = pc]
          \/ request' = [request EXCEPT ![r] = accounts!At("idle", None, None, None, None)]
    BY <1>8
    DEF accounts!FindToken, accounts!Admit, accounts!Goto, accounts!Ends, accounts!Idle
  <2>3. accounts!TypeInv'
    <3>1. \A x \in accounts!Requests : [x EXCEPT !.at = pc] \in accounts!Requests
      BY DEF accounts!Requests
    <3>2. [request EXCEPT ![r].at = pc] \in [Client -> accounts!Requests]
      BY <1>t, <3>1 DEF accounts!TypeInv
    <3>3. [request EXCEPT ![r] = accounts!At("idle", None, None, None, None)] \in [Client -> accounts!Requests]
      BY <1>t, StepTypes
    <3> QED
      BY <1>t, <2>1, <2>2, <3>2, <3>3 DEF accounts!TypeInv
  <2>4. accounts!RowsThere'
    BY <1>t, <2>1, <2>2
    DEF accounts!TypeInv, accounts!Requests, accounts!RowsThere, accounts!There,
        accounts!At
  <2>5. \A q \in Client : request'[q].at = "write" => request'[q] = request[q]
    BY <1>t, <2>2 DEF accounts!TypeInv, accounts!Requests, accounts!At
  <2> QED
    BY <2>1, <2>3, <2>4, <2>5, CallKeeps
<1>9. ASSUME NEW r \in Client, accounts!CreateToken(r) \/ accounts!RevokeToken(r) PROVE accounts!AccountsInv'
  <2>1. /\ UNCHANGED <<row, past>> /\ request[r].at = "call"
        /\ request' = [request EXCEPT ![r] = accounts!At("idle", None, None, None, None)]
        /\ \/ thing' = [thing EXCEPT !.token = @ \cup {request[r].user}]
           \/ thing' = [thing EXCEPT !.token = @ \ {request[r].user}]
    BY <1>9 DEF accounts!CreateToken, accounts!RevokeToken, accounts!Ends, accounts!Idle
  <2>2. request[r].user \in accounts!User /\ accounts!There(request[r].user)
    BY <1>t, <2>1 DEF accounts!RowsThere
  <2>3. thing' \in [session : SUBSET accounts!User, token : SUBSET accounts!User]
    BY <1>t, <2>1, <2>2 DEF accounts!TypeInv
  <2>4. accounts!TypeInv'
    BY <1>t, <2>1, <2>3, StepTypes DEF accounts!TypeInv
  <2>5. thing'.session \cup thing'.token \subseteq
          thing.session \cup thing.token \cup {request[r].user}
    BY <1>t, <2>1 DEF accounts!TypeInv
  <2>6. accounts!RowsThere'
    BY <1>t, <2>1, <2>2, <2>5
    DEF accounts!TypeInv, accounts!RowsThere, accounts!There, accounts!At
  <2> QED
    BY <1>t, <2>1, <2>4, <2>6, CallKeeps DEF accounts!TypeInv, accounts!At
<1>10. ASSUME accounts!SignIn PROVE accounts!AccountsInv'
  <2>1. PICK u \in accounts!User : accounts!There(u) /\ thing' = [thing EXCEPT !.session = @ \cup {u}]
    BY <1>10 DEF accounts!SignIn, accounts!Named
  <2>2. UNCHANGED <<row, request, past>>
    BY <1>10 DEF accounts!SignIn
  <2>3. accounts!TypeInv'
    BY <1>t, <2>1, <2>2 DEF accounts!TypeInv
  <2>4. thing'.session \cup thing'.token \subseteq thing.session \cup thing.token \cup {u}
    BY <1>t, <2>1 DEF accounts!TypeInv
  <2>5. accounts!RowsThere'
    BY <1>t, <2>1, <2>2, <2>4 DEF accounts!RowsThere, accounts!There
  <2> QED
    BY <2>2, <2>3, <2>5, CallKeeps
<1>11. ASSUME accounts!Expire PROVE accounts!AccountsInv'
  <2>1. PICK u \in accounts!User :
          thing' \in {[thing EXCEPT !.session = @ \ {u}], [thing EXCEPT !.token = @ \ {u}]}
    BY <1>11 DEF accounts!Expire
  <2>2. UNCHANGED <<row, request, past>>
    BY <1>11 DEF accounts!Expire
  <2>3. accounts!TypeInv'
    BY <1>t, <2>1, <2>2 DEF accounts!TypeInv
  <2>4. thing'.session \cup thing'.token \subseteq thing.session \cup thing.token
    BY <1>t, <2>1 DEF accounts!TypeInv
  <2>5. accounts!RowsThere'
    BY <1>t, <2>2, <2>4 DEF accounts!RowsThere, accounts!There
  <2> QED
    BY <2>2, <2>3, <2>5, CallKeeps
<1>12. ASSUME accounts!Crash PROVE accounts!AccountsInv'
  <2>1. /\ request' = [r \in Client |-> accounts!At("idle", None, None, None, None)]
        /\ past' = [past EXCEPT !.crossed = {}]
        /\ UNCHANGED <<row, thing>>
    BY <1>12 DEF accounts!Crash, accounts!Idle
  <2>2. accounts!TypeInv'
    BY <1>t, <2>1 DEF accounts!TypeInv, accounts!Requests, accounts!At
  <2>3. accounts!RowsThere'
    BY <1>t, <2>1 DEF accounts!RowsThere, accounts!There, accounts!At
  <2> QED
    BY <1>t, <2>1, <2>2, <2>3, CallKeeps DEF accounts!TypeInv, accounts!At
<1>13. CASE UNCHANGED accounts!vars
  <2>1. UNCHANGED <<row, thing, request, past>>
    BY <1>13 DEF accounts!vars
  <2>2. accounts!TypeInv' /\ accounts!RowsThere'
    BY <1>t, <2>1 DEF accounts!TypeInv, accounts!RowsThere, accounts!There
  <2> QED
    BY <2>1, <2>2, CallKeeps
<1> QED
  BY <1>1, <1>2, <1>3, <1>4, <1>5, <1>5a, <1>6, <1>7, <1>8, <1>9, <1>10, <1>11, <1>12,
     <1>13
  DEF accounts!Next

(* No step lets a call of a user in whose deactivation is the last word. *)
LEMMA NoneOffCalls ==
  ASSUME accounts!AccountsInv, [accounts!Next]_(accounts!vars), NEW r \in Client,
         request[r].at = "user", request'[r].at = "call"
  PROVE  request[r].user \notin past.off
<1>t. accounts!TypeInv /\ accounts!OffIsInactive
  BY DEF accounts!AccountsInv
<1>1. accounts!Next
  BY DEF accounts!vars
<1>2. accounts!Admit(r)
  <2>1. \A q \in Client : accounts!FindToken(q) \/ accounts!Admit(q) => q = r
    BY <1>t
    DEF accounts!TypeInv, accounts!FindToken, accounts!Admit, accounts!Goto, accounts!Ends
  <2>2. \A q \in Client : ~accounts!FindToken(r)
    BY <1>t DEF accounts!FindToken
  <2>3. ~accounts!Crash /\ ~accounts!SignIn /\ ~accounts!Expire
    BY <1>t
    DEF accounts!Crash, accounts!SignIn, accounts!Expire, accounts!TypeInv, accounts!Idle,
        accounts!At
  <2>4. \A q \in Client : ~accounts!Check(q) /\ ~accounts!FirstSignIn(q)
    BY <1>t DEF accounts!TypeInv, accounts!Check, accounts!FirstSignIn, accounts!At
  <2>5. \A q \in Client :
          /\ ~accounts!Insert(q) /\ ~accounts!Load(q)
          /\ ~accounts!Write(q) /\ ~accounts!WriteFails(q)
    <3> TAKE q \in Client
    <3>1. ~accounts!Insert(q) /\ ~accounts!Write(q) /\ ~accounts!WriteFails(q)
      <4>1. ~accounts!Ends(q)
        BY <1>t DEF accounts!TypeInv, accounts!Ends, accounts!Idle, accounts!At
      <4> QED
        BY <4>1, Zenon DEF accounts!Insert, accounts!Write, accounts!WriteFails
    <3>2. ~accounts!Load(q)
      BY <1>t DEF accounts!TypeInv, accounts!Load, accounts!At
    <3> QED
      BY <3>1, <3>2
  <2>6. \A q \in Client : ~accounts!CallInSession(q) /\ ~accounts!CallWithToken(q)
    BY <1>t
    DEF accounts!TypeInv, accounts!CallInSession, accounts!CallWithToken, accounts!At
  <2>7. \A q \in Client : ~accounts!CreateToken(q) /\ ~accounts!RevokeToken(q)
    BY <1>t
    DEF accounts!TypeInv, accounts!CreateToken, accounts!RevokeToken, accounts!Ends,
        accounts!Idle, accounts!At
  <2> QED
    BY <1>1, <2>1, <2>2, <2>3, <2>4, <2>5, <2>6, <2>7 DEF accounts!Next
<1>3. row[request[r].user].active
  BY <1>2, <1>t
  DEF accounts!Admit, accounts!TypeInv, accounts!Ends, accounts!Idle, accounts!At
<1> QED
  BY <1>3, <1>t DEF accounts!OffIsInactive

-----------------------------------------------------------------------------
AccessInv ==
  /\ focus = "accounts" => accounts!AccountsInv
  /\ focus = "governance" => governance!GovernanceInv /\ governance!GrantsApart
  /\ focus = "sharing" => sharing!SharingInv

LEMMA AccessStarts == MCInit => AccessInv
BY SharingStarts, GovernanceStarts, AccountsStart
DEF MCInit, AccessInv, governance!Init, governance!GrantsApart, governance!Idle

LEMMA AccessStep == AccessInv /\ [MCNext]_vars => AccessInv'
<1> SUFFICES ASSUME AccessInv, [MCNext]_vars PROVE AccessInv'
  OBVIOUS
<1>1. focus' = focus
  BY DEF MCNext, vars
<1>2. ASSUME focus = "accounts" PROVE accounts!AccountsInv'
  BY <1>2, AccountsStep DEF MCNext, vars, AccessInv, accounts!vars
<1>3. ASSUME focus = "governance"
      PROVE  governance!GovernanceInv' /\ governance!GrantsApart'
  <2>1. governance!GovernanceInv /\ governance!GrantsApart /\ [governance!Next]_(governance!vars)
    BY <1>3 DEF MCNext, vars, AccessInv, governance!vars
  <2> QED
    BY <2>1, GovernanceStep, GrantsStep DEF governance!GovernanceInv
<1>4. ASSUME focus = "sharing" PROVE sharing!SharingInv'
  BY <1>4, SharingStep DEF MCNext, vars, AccessInv, sharing!vars
<1> QED
  BY <1>1, <1>2, <1>3, <1>4 DEF AccessInv

LEMMA AccessHolds == MCSpec => []AccessInv
BY AccessStarts, AccessStep, PTL DEF MCSpec

(* For any requests, tables and lifetime of a url: what a removed table, recipient
   or share, or a new token, takes away is unreadable TTL seconds later, but for
   the urls of queries that had been let in (sharing.py 36-48). *)
THEOREM RevocationTakesEffect == MCSpec => []RevokedInTime
<1>1. ASSUME sharing!SharingInv PROVE sharing!RevokedInTime
  <2> SUFFICES ASSUME NEW l \in sharing!Honoured
               PROVE  \/ <<l.token, l.table>> \in sharing!Open(row)
                      \/ l.by \in past.late
                      \/ past.now <= past.lost[<<l.token, l.table>>] + TTL
    BY DEF sharing!RevokedInTime
  <2>1. l \in thing /\ past.now <= l.until
    BY DEF sharing!Honoured
  <2>2. /\ l.until \in Nat /\ past.now \in Nat
        /\ past.lost[<<l.token, l.table>>] \in Nat
    BY <1>1, <2>1 DEF sharing!SharingInv, sharing!TypeInv, sharing!Pasts
  <2> QED
    BY <1>1, <2>1, <2>2, TTLAssumption DEF sharing!SharingInv, sharing!UrlsDated
<1> QED
  BY <1>1, AccessHolds, PTL DEF AccessInv, RevokedInTime

(* However many requests rotate a recipient's token at once, delete the recipient
   or make another: the profile handed out last works as soon as no other is
   being made (main.py 1565-1572). *)
THEOREM HandedProfileWorks == MCSpec => []ProfileWorks
<1>1. ASSUME sharing!SharingInv PROVE sharing!ProfileWorks
  BY <1>1 DEF sharing!SharingInv, sharing!ProfileComing, sharing!ProfileWorks
<1> QED
  BY <1>1, AccessHolds, PTL DEF AccessInv, ProfileWorks

(* For any roles, columns and queries: a query runs under every row filter and
   mask that was set before it resolved them, and edits beside it take none of
   them away (main.py 520-586). *)
THEOREM QueriesMeetTheirRules == MCSpec => []QueriesUnderRules
<1>1. ASSUME governance!GovernanceInv PROVE governance!QueriesUnderRules
  BY <1>1 DEF governance!GovernanceInv
<1> QED
  BY <1>1, AccessHolds, PTL DEF AccessInv, QueriesUnderRules

(* For any requests: the revoke of a grant leaves a restricted table unreadable for
   its reader, unless the request that made it overlapped another grant to him
   (main.py 719-742). *)
THEOREM RevokedReadersStayOut == MCSpec => RevokeEnds
<1> DEFINE Ends == focus = "governance" => governance!RevokeEnds
<1>1. ASSUME AccessInv, [MCNext]_vars PROVE [Ends]_vars
  <2> SUFFICES ASSUME focus = "governance" PROVE governance!RevokeEnds
    OBVIOUS
  <2>1. governance!GrantsApart /\ [governance!Next]_(governance!vars)
    BY <1>1 DEF AccessInv, MCNext, vars, governance!vars
  <2> QED
    BY <2>1, OneRevoked
<1>2. MCSpec => [][Ends]_vars
  <2> HIDE DEF Ends
  <2> QED
    BY <1>1, AccessHolds, PTL DEF MCSpec
<1> QED
  BY <1>2 DEF RevokeEnds

(* For any users, names and calls under way: no call is let in of a user whose
   deactivation is the last word, whatever was loaded, renamed or looked up before
   it came (scim.py 79-144, main.py 46-66). *)
THEOREM DisabledUsersStayOut == MCSpec => DisabledStaysOut
<1> DEFINE Out == focus = "accounts" =>
                    \A r \in Client :
                      request[r].at = "user" /\ request'[r].at = "call"
                        => request[r].user \notin past.off
<1>1. ASSUME AccessInv, [MCNext]_vars PROVE [Out]_vars
  <2> SUFFICES ASSUME focus = "accounts", NEW r \in Client,
                      request[r].at = "user", request'[r].at = "call"
               PROVE  request[r].user \notin past.off
    OBVIOUS
  <2>1. accounts!AccountsInv /\ [accounts!Next]_(accounts!vars)
    BY <1>1 DEF AccessInv, MCNext, vars, accounts!vars
  <2> QED
    BY <2>1, NoneOffCalls
<1>2. MCSpec => [][Out]_vars
  <2> HIDE DEF Out
  <2> QED
    BY <1>1, AccessHolds, PTL DEF MCSpec
<1> QED
  BY <1>2 DEF DisabledStaysOut
=============================================================================
