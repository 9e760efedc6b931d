-------------------------- MODULE ComponentsProofs --------------------------
(***************************************************************************)
(* Rows and what they describe, for any number of requests: Lakebase tables *)
(* and rows, volumes and their objects, edits and the remotes they go to,   *)
(* payments and the users who made them.                                    *)
(***************************************************************************)
EXTENDS MCComponents, TLAPS

-----------------------------------------------------------------------------
LEMMA LakebaseStarts == lakebase!Init => lakebase!LakebaseInv
BY NoneAssumption
DEF lakebase!Init, lakebase!LakebaseInv, lakebase!TypeInv, lakebase!OwnTable,
    lakebase!RowHasTable, lakebase!TouchesOwn, lakebase!AboutToInsert,
    lakebase!AboutToTouch, lakebase!At

(* A step that leaves the table and the history alone, and moves one request. *)
LEMMA LakebaseMoves ==
  ASSUME lakebase!LakebaseInv, thing' = thing, past' = past,
         row' \in Request \cup {None},
         row' # None => row' = row \/ (lakebase!Untouched(row') => thing = row'),
         NEW r \in Request,
         NEW pc \in {"create", "drop", "touch", "delete", "ended"},
         NEW loaded \in Request \cup {None},
         pc = "touch" => row # None /\ loaded = row,
         lakebase!Goto(r, pc, loaded)
  PROVE  lakebase!LakebaseInv'
<1>1. lakebase!TypeInv'
  BY DEF lakebase!LakebaseInv, lakebase!TypeInv, lakebase!Goto, lakebase!At
<1>2. lakebase!OwnTable'
  BY DEF lakebase!LakebaseInv, lakebase!OwnTable, lakebase!RowHasTable,
         lakebase!TouchesOwn, lakebase!Untouched
<1>3. lakebase!AboutToInsert'
  BY DEF lakebase!LakebaseInv, lakebase!TypeInv, lakebase!AboutToInsert,
         lakebase!Untouched, lakebase!Goto, lakebase!At
<1>4. lakebase!AboutToTouch'
  BY DEF lakebase!LakebaseInv, lakebase!TypeInv, lakebase!OwnTable, lakebase!RowHasTable,
         lakebase!AboutToTouch, lakebase!Untouched, lakebase!Goto, lakebase!At
<1> QED
  BY <1>1, <1>2, <1>3, <1>4 DEF lakebase!LakebaseInv

LEMMA LakebaseStep == lakebase!LakebaseInv /\ [lakebase!Next]_(lakebase!vars) => lakebase!LakebaseInv'
<1> SUFFICES ASSUME lakebase!LakebaseInv, [lakebase!Next]_(lakebase!vars)
             PROVE  lakebase!LakebaseInv'
  OBVIOUS
<1> USE NoneAssumption
<1>1. ASSUME NEW r \in Request, lakebase!Check(r) PROVE lakebase!LakebaseInv'
  BY <1>1, LakebaseMoves DEF lakebase!Check, lakebase!LakebaseInv, lakebase!TypeInv
<1>2. ASSUME NEW r \in Request, lakebase!CreateTable(r) PROVE lakebase!LakebaseInv'
  BY <1>2
  DEF lakebase!CreateTable, lakebase!Goto, lakebase!At, lakebase!LakebaseInv,
      lakebase!TypeInv, lakebase!OwnTable, lakebase!RowHasTable, lakebase!TouchesOwn,
      lakebase!AboutToInsert, lakebase!AboutToTouch, lakebase!Untouched
<1>3. ASSUME NEW r \in Request, lakebase!CreateRaises(r) PROVE lakebase!LakebaseInv'
  BY <1>3, LakebaseMoves DEF lakebase!CreateRaises, lakebase!LakebaseInv, lakebase!TypeInv
<1>4. ASSUME NEW r \in Request, lakebase!InsertRow(r) PROVE lakebase!LakebaseInv'
  BY <1>4, LakebaseMoves
  DEF lakebase!InsertRow, lakebase!LakebaseInv, lakebase!TypeInv, lakebase!AboutToInsert
<1>5. ASSUME NEW r \in Request, lakebase!Load(r) PROVE lakebase!LakebaseInv'
  BY <1>5, LakebaseMoves DEF lakebase!Load, lakebase!LakebaseInv, lakebase!TypeInv
<1>6. ASSUME NEW r \in Request, lakebase!DropTable(r) PROVE lakebase!LakebaseInv'
  <2>1. lakebase!TypeInv'
    <3>1. /\ past' = [past EXCEPT !.dropped = past'.dropped, !.stolen = past'.stolen]
          /\ past'.dropped = past.dropped \cup {request[r].loaded}
          /\ past'.stolen \subseteq past.stolen \cup ({thing} \ {None})
      BY <1>6 DEF lakebase!DropTable, lakebase!LakebaseInv, lakebase!TypeInv
    <3>2. request[r].loaded \in Request \cup {None}
      BY DEF lakebase!LakebaseInv, lakebase!TypeInv
    <3>3. past'.stolen \subseteq Request
      BY <3>1 DEF lakebase!LakebaseInv, lakebase!TypeInv
    <3>4. past' \in [dropped : SUBSET (Request \cup {None}), stolen : SUBSET Request,
                     landed : SUBSET ((Request \cup {None}) \X Request)]
      BY <3>1, <3>2, <3>3 DEF lakebase!LakebaseInv, lakebase!TypeInv
    <3> QED
      BY <1>6, <3>4
      DEF lakebase!DropTable, lakebase!Goto, lakebase!At, lakebase!LakebaseInv,
          lakebase!TypeInv
  <2>2. ASSUME NEW x, x = thing \/ ~lakebase!Untouched(x) PROVE x = None \/ ~lakebase!Untouched(x)'
    BY <1>6, <2>2
    DEF lakebase!DropTable, lakebase!Untouched, lakebase!LakebaseInv, lakebase!TypeInv
  <2>3. lakebase!OwnTable'
    BY <1>6, <2>2
    DEF lakebase!DropTable, lakebase!LakebaseInv, lakebase!TypeInv, lakebase!OwnTable,
        lakebase!RowHasTable, lakebase!TouchesOwn, lakebase!Untouched
  <2>4. lakebase!AboutToInsert'
    BY <1>6, <2>2
    DEF lakebase!DropTable, lakebase!Goto, lakebase!At, lakebase!LakebaseInv,
        lakebase!TypeInv, lakebase!AboutToInsert
  <2>5. lakebase!AboutToTouch'
    BY <1>6, <2>2
    DEF lakebase!DropTable, lakebase!Goto, lakebase!At, lakebase!LakebaseInv,
        lakebase!TypeInv, lakebase!AboutToTouch
  <2> QED
    BY <2>1, <2>3, <2>4, <2>5 DEF lakebase!LakebaseInv
<1>7. ASSUME NEW r \in Request, lakebase!DeleteRow(r) PROVE lakebase!LakebaseInv'
  BY <1>7, LakebaseMoves DEF lakebase!DeleteRow, lakebase!LakebaseInv, lakebase!TypeInv
<1>8. ASSUME NEW r \in Request, lakebase!Touch(r) PROVE lakebase!LakebaseInv'
  BY <1>8
  DEF lakebase!Touch, lakebase!Goto, lakebase!At, lakebase!LakebaseInv, lakebase!TypeInv,
      lakebase!OwnTable, lakebase!RowHasTable, lakebase!TouchesOwn,
      lakebase!AboutToInsert, lakebase!AboutToTouch, lakebase!Untouched
<1>9. ASSUME lakebase!Crash PROVE lakebase!LakebaseInv'
  BY <1>9
  DEF lakebase!Crash, lakebase!At, lakebase!LakebaseInv, lakebase!TypeInv,
      lakebase!OwnTable, lakebase!RowHasTable, lakebase!TouchesOwn,
      lakebase!AboutToInsert, lakebase!AboutToTouch, lakebase!Untouched
<1>10. CASE UNCHANGED lakebase!vars
  BY <1>10
  DEF lakebase!vars, lakebase!LakebaseInv, lakebase!TypeInv, lakebase!OwnTable,
      lakebase!RowHasTable, lakebase!TouchesOwn, lakebase!AboutToInsert,
      lakebase!AboutToTouch, lakebase!Untouched
<1> QED
  BY <1>1, <1>2, <1>3, <1>4, <1>5, <1>6, <1>7, <1>8, <1>9, <1>10 DEF lakebase!Next
-----------------------------------------------------------------------------
LEMMA VolumesStart == volumes!Init => volumes!VolumesInv
BY NoneAssumption
DEF volumes!Init, volumes!VolumesInv, volumes!TypeInv, volumes!Pc, volumes!Requests,
    volumes!LoadedIsRow, volumes!HasLoaded, volumes!ObjectsAreRows, volumes!Emptied,
    volumes!At, volumes!Pasts

(* No new object, and no row goes: but for one that is being deleted, of which
   only strays and refused objects are left; who has come to an object on his list
   has it deleted or refused. *)
LEMMA VolumesKeep ==
  ASSUME volumes!VolumesInv, volumes!TypeInv', volumes!LoadedIsRow', past'.of = past.of,
         past'.strays = past.strays, past.kept \subseteq past'.kept, thing' \subseteq thing,
         \/ row' = row
         \/ row = None
         \/ \E r \in Request : request[r].at = "delete" /\ request[r].loaded = row,
         \A r \in Request :
           \/ request'[r].at = "pages" /\ thing \subseteq request'[r].keys
           \/ /\ request'[r].at = "pages" /\ request[r].at = "pages"
              /\ request'[r].loaded = request[r].loaded
              /\ \A o \in thing' \ past'.kept :
                   o \in request[r].keys => o \in request'[r].keys
           \/ request'[r].at \notin {"pages", "delete"}
           \/ request'[r] = request[r]
           \/ /\ request'[r].at = "delete" /\ request[r].at = "pages"
              /\ request'[r].loaded = request[r].loaded
              /\ request[r].keys \cap thing = {}
  PROVE  volumes!VolumesInv'
<1>1. volumes!ObjectsAreRows'
  BY DEF volumes!VolumesInv, volumes!ObjectsAreRows, volumes!Emptied
<1>2. volumes!Emptied'
  BY DEF volumes!VolumesInv, volumes!Emptied
<1> QED
  BY <1>1, <1>2 DEF volumes!VolumesInv

LEMMA VolumesStep == volumes!VolumesInv /\ [volumes!Next]_(volumes!vars) => volumes!VolumesInv'
<1> SUFFICES ASSUME volumes!VolumesInv, [volumes!Next]_(volumes!vars)
             PROVE  volumes!VolumesInv'
  OBVIOUS
<1> USE NoneAssumption DEF volumes!Requests, volumes!Pc, volumes!HasLoaded
<1>1. ASSUME NEW r \in Request, volumes!Check(r) PROVE volumes!VolumesInv'
  BY <1>1, VolumesKeep
  DEF volumes!Check, volumes!Goto, volumes!VolumesInv, volumes!TypeInv,
      volumes!LoadedIsRow
<1>2. ASSUME NEW r \in Request, volumes!Insert(r) PROVE volumes!VolumesInv'
  BY <1>2, VolumesKeep
  DEF volumes!Insert, volumes!Goto, volumes!VolumesInv, volumes!TypeInv,
      volumes!LoadedIsRow
<1>3. ASSUME NEW r \in Request, volumes!Load(r) PROVE volumes!VolumesInv'
  BY <1>3, VolumesKeep
  DEF volumes!Load, volumes!At, volumes!VolumesInv, volumes!TypeInv, volumes!LoadedIsRow
<1>4. ASSUME NEW r \in Request, volumes!Put(r) PROVE volumes!VolumesInv'
  <2>1. /\ request[r].loaded \in Request
        /\ request[r].loaded \in past.purged \/ row = request[r].loaded
    BY <1>4 DEF volumes!Put, volumes!VolumesInv, volumes!LoadedIsRow
  <2>2. /\ past'.of = [past.of EXCEPT ![r] = request[r].loaded]
        /\ past'.purged = past.purged
        /\ past'.strays = IF request[r].loaded \in past.purged
                            THEN past.strays \cup {r} ELSE past.strays
        /\ past'.kept = past.kept
        /\ thing' = thing \cup {r} /\ row' = row
    BY <1>4 DEF volumes!Put, volumes!VolumesInv, volumes!TypeInv, volumes!Pasts
  <2>3. volumes!TypeInv'
    <3>1. past' \in volumes!Pasts
      BY <1>4, <2>1 DEF volumes!Put, volumes!VolumesInv, volumes!TypeInv, volumes!Pasts
    <3>2. request' \in [Request -> volumes!Requests]
      BY <1>4 DEF volumes!Put, volumes!Goto, volumes!VolumesInv, volumes!TypeInv
    <3> QED
      BY <2>2, <3>1, <3>2 DEF volumes!VolumesInv, volumes!TypeInv
  <2>4. volumes!LoadedIsRow'
    BY <1>4, <2>2
    DEF volumes!Put, volumes!Goto, volumes!VolumesInv, volumes!TypeInv,
        volumes!LoadedIsRow
  <2>5. volumes!ObjectsAreRows'
    BY <2>1, <2>2
    DEF volumes!VolumesInv, volumes!TypeInv, volumes!Pasts, volumes!ObjectsAreRows
  <2>6. volumes!Emptied'
    <3> SUFFICES ASSUME NEW q \in Request, NEW o \in thing' \ (past'.strays \cup past'.kept),
                        past'.of[o] = request'[q].loaded,
                        request'[q].at \in {"pages", "delete"}
                 PROVE  /\ request'[q].at # "delete"
                        /\ request'[q].at = "pages" => o \in request'[q].keys
      BY DEF volumes!Emptied
    <3>1. q # r /\ request'[q] = request[q]
      BY <1>4 DEF volumes!Put, volumes!Goto, volumes!VolumesInv, volumes!TypeInv
    <3>2. o # r
      BY <2>1, <2>2, <3>1
      DEF volumes!VolumesInv, volumes!TypeInv, volumes!Pasts, volumes!LoadedIsRow
    <3>3. o \in thing \ (past.strays \cup past.kept) /\ past.of[o] = request[q].loaded
      BY <2>2, <3>1, <3>2 DEF volumes!VolumesInv, volumes!TypeInv, volumes!Pasts
    <3> QED
      BY <3>1, <3>3 DEF volumes!VolumesInv, volumes!Emptied
  <2> QED
    BY <2>3, <2>4, <2>5, <2>6 DEF volumes!VolumesInv
<1>5. ASSUME NEW r \in Request, volumes!Remove(r) PROVE volumes!VolumesInv'
  BY <1>5, VolumesKeep
  DEF volumes!Remove, volumes!Goto, volumes!VolumesInv, volumes!TypeInv,
      volumes!LoadedIsRow
<1>6. ASSUME NEW r \in Request, volumes!ListPrefix(r) PROVE volumes!VolumesInv'
  <2>1. /\ past' \in volumes!Pasts
        /\ past'.of = past.of /\ past'.strays = past.strays /\ past'.kept = past.kept
        /\ past'.purged = past.purged \cup {request[r].loaded}
    BY <1>6
    DEF volumes!ListPrefix, volumes!VolumesInv, volumes!TypeInv, volumes!LoadedIsRow,
        volumes!Pasts
  <2>2. PICK more \in SUBSET Request :
          request' = [request EXCEPT ![r] = [@ EXCEPT !.at = "pages", !.keys = thing \cup more]]
    <3>1. PICK more \in SUBSET {q \in Request : request[q].at \in {"idle", "put"}} :
            request' = [request EXCEPT ![r].at = "pages", ![r].keys = thing \cup more]
      BY <1>6, Zenon DEF volumes!ListPrefix
    <3>2. more \in SUBSET Request
      OBVIOUS
    <3> QED
      BY <3>1, <3>2
  <2>3. /\ request' \in [Request -> volumes!Requests] /\ UNCHANGED <<row, thing>>
        /\ request'[r].at = "pages" /\ request'[r].keys = thing \cup more
        /\ request'[r].loaded = request[r].loaded /\ request[r].at = "purge"
        /\ \A q \in Request \ {r} : request'[q] = request[q]
    <3>1. UNCHANGED <<row, thing>> /\ request[r].at = "purge"
      BY <1>6 DEF volumes!ListPrefix
    <3>2. request \in [Request -> volumes!Requests] /\ request[r] \in volumes!Requests
      BY DEF volumes!VolumesInv, volumes!TypeInv
    <3>3. [request[r] EXCEPT !.at = "pages", !.keys = thing \cup more] \in volumes!Requests
      BY <3>2 DEF volumes!VolumesInv, volumes!TypeInv, volumes!Requests, volumes!Pc
    <3>4. request' \in [Request -> volumes!Requests]
      BY <2>2, <3>2, <3>3
    <3>5. /\ request'[r] = [request[r] EXCEPT !.at = "pages", !.keys = thing \cup more]
          /\ \A q \in Request \ {r} : request'[q] = request[q]
      BY <2>2, <3>2
    <3>6. /\ request'[r].at = "pages" /\ request'[r].keys = thing \cup more
          /\ request'[r].loaded = request[r].loaded
      BY <3>2, <3>5 DEF volumes!Requests
    <3> QED
      BY <3>1, <3>4, <3>5, <3>6
  <2>4. volumes!TypeInv' /\ volumes!LoadedIsRow'
    BY <2>1, <2>3 DEF volumes!VolumesInv, volumes!TypeInv, volumes!LoadedIsRow
  <2>5. thing \subseteq request'[r].keys
    BY <2>3
  <2> QED
    BY <2>1, <2>3, <2>4, <2>5, VolumesKeep
<1>7. ASSUME NEW r \in Request, volumes!DeletePage(r) PROVE volumes!VolumesInv'
  <2>1. PICK page \in volumes!Pages : \E gone \in volumes!Deleted(page) :
          /\ page \subseteq request[r].keys
          /\ thing' = thing \ gone
          /\ request' = [request EXCEPT ![r].keys = @ \ page]
          /\ past' = [past EXCEPT !.kept = @ \cup (page \ gone)]
    BY <1>7 DEF volumes!DeletePage
  <2>2. PICK gone \in SUBSET page :
          /\ thing' = thing \ gone
          /\ request' = [request EXCEPT ![r].keys = @ \ page]
          /\ past' = [past EXCEPT !.kept = @ \cup (page \ gone)]
    BY <2>1 DEF volumes!Deleted
  <2>3. page \in SUBSET Request /\ row' = row /\ request[r].at = "pages"
    BY <1>7 DEF volumes!DeletePage, volumes!Pages, volumes!VolumesInv, volumes!TypeInv
  <2>4. /\ past' \in volumes!Pasts
        /\ past'.of = past.of /\ past'.strays = past.strays /\ past'.purged = past.purged
        /\ past'.kept = past.kept \cup (page \ gone)
    BY <2>2, <2>3 DEF volumes!VolumesInv, volumes!TypeInv, volumes!Pasts
  <2>5. /\ request' \in [Request -> volumes!Requests]
        /\ request'[r].at = "pages" /\ request'[r].loaded = request[r].loaded
        /\ request'[r].keys = request[r].keys \ page
        /\ \A q \in Request \ {r} : request'[q] = request[q]
    BY <2>2, <2>3 DEF volumes!VolumesInv, volumes!TypeInv
  <2>6. volumes!TypeInv' /\ volumes!LoadedIsRow'
    BY <2>2, <2>3, <2>4, <2>5 DEF volumes!VolumesInv, volumes!TypeInv, volumes!LoadedIsRow
  <2>7. \A o \in thing' \ past'.kept : o \in request[r].keys => o \in request'[r].keys
    BY <2>2, <2>4, <2>5
  <2> QED
    BY <2>2, <2>3, <2>4, <2>5, <2>6, <2>7, VolumesKeep
<1>8. ASSUME NEW r \in Request, volumes!PagesEnd(r) PROVE volumes!VolumesInv'
  BY <1>8, VolumesKeep
  DEF volumes!PagesEnd, volumes!Goto, volumes!VolumesInv, volumes!TypeInv,
      volumes!LoadedIsRow
<1>8a. ASSUME NEW r \in Request, volumes!StoreFails(r) PROVE volumes!VolumesInv'
  BY <1>8a, VolumesKeep
  DEF volumes!StoreFails, volumes!Goto, volumes!VolumesInv, volumes!TypeInv,
      volumes!LoadedIsRow
<1>9. ASSUME NEW r \in Request, volumes!Delete(r) PROVE volumes!VolumesInv'
  <2>1. /\ request' \in [Request -> volumes!Requests] /\ UNCHANGED <<thing, past>>
        /\ request'[r].at = "ended" /\ request[r].at = "delete"
        /\ \A q \in Request \ {r} : request'[q] = request[q]
        /\ row' = row \/ (row' = None /\ row = request[r].loaded)
    BY <1>9 DEF volumes!Delete, volumes!Goto, volumes!VolumesInv, volumes!TypeInv
  <2>2. volumes!TypeInv' /\ volumes!LoadedIsRow'
    BY <2>1 DEF volumes!VolumesInv, volumes!TypeInv, volumes!LoadedIsRow
  <2> QED
    BY <2>1, <2>2, VolumesKeep
<1>10. ASSUME volumes!Crash PROVE volumes!VolumesInv'
  BY <1>10, VolumesKeep
  DEF volumes!Crash, volumes!At, volumes!VolumesInv, volumes!TypeInv, volumes!LoadedIsRow
<1>11. CASE UNCHANGED volumes!vars
  BY <1>11, VolumesKeep
  DEF volumes!vars, volumes!VolumesInv, volumes!TypeInv, volumes!LoadedIsRow
<1> QED
  BY <1>1, <1>2, <1>3, <1>4, <1>5, <1>6, <1>7, <1>8, <1>8a, <1>9, <1>10, <1>11
  DEF volumes!Next
-----------------------------------------------------------------------------
LEMMA ReposStart == repos!Init => repos!ReposInv
BY NoneAssumption
DEF repos!Init, repos!ReposInv, repos!TypeInv, repos!Pc, repos!Requests, repos!Rows,
    repos!Trees, repos!CloneIsFresh, repos!TookIsCommitted, repos!EditGoesOn, repos!At

(* One request moves to where it owes nothing, and the tree is pulled at most. *)
LEMMA ReposKeep ==
  ASSUME repos!ReposInv, past' = past, row' \in repos!Rows \cup {None},
         \/ thing' = thing
         \/ /\ thing \in repos!Trees /\ thing' \in repos!Trees
            /\ thing'.edits = thing.edits /\ thing'.staged = thing.staged
            /\ thing.commits \subseteq thing'.commits
            /\ thing'.cloned => \A q \in Client : request[q].at # "clone",
         request' \in [Client -> repos!Requests],
         NEW r \in Client,
         \A q \in Client \ {r} : request'[q] = request[q],
         request'[r].took = request[r].took,
         request'[r].at \in {"fetch", "ok", "error", "commit", "added", "ended", "failed"},
         request'[r].at = "commit" => request[r].at = "edited",
         request'[r].at = "added" => request[r].at = "commit" /\ ~request'[r].added,
         request'[r].at # "failed" => request[r].took = {},
         request'[r].at \notin {"ended", "failed"} => request'[r].url \in Url
  PROVE  repos!ReposInv'
<1>t. repos!TypeInv /\ repos!CloneIsFresh /\ repos!TookIsCommitted /\ repos!EditGoesOn
  BY DEF repos!ReposInv
<1>1. \A q \in Client : request'[q].took = request[q].took
  OBVIOUS
<1>2. repos!TypeInv'
  BY <1>t DEF repos!TypeInv
<1>3. repos!CloneIsFresh'
  BY <1>t, <1>1, NoneAssumption DEF repos!CloneIsFresh, repos!Trees
<1>4. repos!TookIsCommitted'
  BY <1>t, <1>1, NoneAssumption DEF repos!TookIsCommitted, repos!Trees
<1>5. \A e \in Client : repos!Taken(e) => repos!Taken(e)'
  BY <1>1 DEF repos!Taken
<1>6. repos!EditGoesOn'
  BY <1>t, <1>1, <1>5, NoneAssumption
  DEF repos!EditGoesOn, repos!Trees, repos!CommittedOthers
<1> QED
  BY <1>2, <1>3, <1>4, <1>6 DEF repos!ReposInv

(* One request commits all that is staged, and goes on to push or fails. *)
LEMMA CommitKeeps ==
  ASSUME repos!ReposInv, row' = row, past' = past, NEW r \in Client,
         request[r].at = "added", thing # None,
         thing' = [thing EXCEPT !.commits = @ \cup thing.staged, !.staged = {}],
         NEW pc \in {"push", "failed"}, pc = "push" => thing.staged # {},
         request' = [request EXCEPT ![r].at = pc, ![r].took = thing.staged]
  PROVE  repos!ReposInv'
<1>t. repos!TypeInv /\ repos!CloneIsFresh /\ repos!TookIsCommitted /\ repos!EditGoesOn
  BY DEF repos!ReposInv
<1> USE NoneAssumption
<1>1. /\ thing \in repos!Trees /\ request[r].url \in Url /\ request[r].took = {}
      /\ r \in thing.edits \cup thing.staged \/ repos!Taken(r)
      /\ request[r].added => r \in thing.staged \/ repos!Taken(r)
  BY <1>t DEF repos!TypeInv, repos!TookIsCommitted, repos!EditGoesOn
<1>2. /\ thing' \in repos!Trees /\ thing'.edits = thing.edits /\ thing'.staged = {}
      /\ thing'.commits = thing.commits \cup thing.staged /\ thing'.cloned = thing.cloned
  BY <1>1 DEF repos!Trees
<1>3. /\ request' \in [Client -> repos!Requests]
      /\ \A q \in Client \ {r} : request'[q] = request[q]
      /\ request'[r].took = thing.staged /\ request'[r].url = request[r].url
      /\ request'[r].added = request[r].added /\ request'[r].at = pc
  <2>1. pc \in repos!Pc /\ thing.staged \in SUBSET Client
    BY <1>1 DEF repos!Pc, repos!Trees
  <2>2. request[r] \in repos!Requests
    BY <1>t DEF repos!TypeInv
  <2>3. [request[r] EXCEPT !.at = pc, !.took = thing.staged] \in repos!Requests
    BY <2>1, <2>2 DEF repos!Requests
  <2>4. request'[r] = [request[r] EXCEPT !.at = pc, !.took = thing.staged]
    BY <1>t DEF repos!TypeInv
  <2>5. request' \in [Client -> repos!Requests]
    BY <1>t, <2>3 DEF repos!TypeInv
  <2>6. /\ request'[r].took = thing.staged /\ request'[r].url = request[r].url
        /\ request'[r].added = request[r].added /\ request'[r].at = pc
    <3>1. /\ request'[r].took = thing.staged /\ request'[r].at = pc
      BY <2>2, <2>4 DEF repos!Requests
    <3>2. /\ request'[r].url = request[r].url /\ request'[r].added = request[r].added
      <4> DEFINE q == request[r]
      <4>1. q \in [at : repos!Pc, id : Client \cup {None}, url : Url \cup {None},
                   added : BOOLEAN, took : SUBSET Client]
        BY <2>2 DEF repos!Requests
      <4> HIDE DEF q
      <4>2. \A x : x = [q EXCEPT !.at = pc, !.took = thing.staged]
                   => x.url = q.url /\ x.added = q.added
        BY <4>1
      <4> QED
        BY <2>4, <4>2 DEF q
    <3> QED
      BY <3>1, <3>2
  <2>7. \A q \in Client \ {r} : request'[q] = request[q]
    BY <1>t DEF repos!TypeInv
  <2> QED
    BY <2>5, <2>6, <2>7
<1>4. repos!TypeInv'
  BY <1>t, <1>1, <1>2, <1>3 DEF repos!TypeInv
<1>5. \A q \in Client : request[q].at # "clone"
  BY <1>t, <1>1 DEF repos!CloneIsFresh, repos!Taken
<1>6. repos!CloneIsFresh'
  BY <1>3, <1>5 DEF repos!CloneIsFresh
<1>7. repos!TookIsCommitted'
  <2>1. thing' # None /\ thing.commits \cup thing.staged \subseteq thing'.commits
    BY <1>2 DEF repos!Trees
  <2>2. /\ request'[r].took \subseteq thing'.commits
        /\ request'[r].at \in {"push", "failed"}
        /\ request'[r].at = "push" => request'[r].took # {}
    BY <1>3, <2>1
  <2> QED
    BY <1>t, <1>3, <2>1, <2>2 DEF repos!TookIsCommitted
<1>8. repos!EditGoesOn'
  <2>1. \A e \in Client : repos!Taken(e) => repos!Taken(e)'
    BY <1>1, <1>3 DEF repos!Taken
  <2>2. \A e \in Client \ {r} : e \in thing.staged => repos!Taken(e)'
    BY <1>3 DEF repos!Taken
  <2>3. request[r].added => r \in thing'.commits
    BY <1>t, <1>1, <1>2 DEF repos!TookIsCommitted, repos!Taken, repos!Trees
  <2>4. ASSUME NEW q \in Client \ {r}
        PROVE  /\ request'[q].at \in {"edited", "commit", "added"} =>
                    thing' # None /\ (q \in thing'.edits \cup thing'.staged \/ repos!Taken(q)')
               /\ request'[q].at = "added" /\ request'[q].added =>
                    q \in thing'.staged \/ repos!Taken(q)'
               /\ request'[q].at = "push" =>
                    thing' # None /\ (q \in thing'.commits \/ ~request'[q].added)
               /\ request'[q].at = "told" =>
                    q \in past'[request'[q].url] \/ repos!Taken(q)' \/ repos!CommittedOthers(q)'
    <3>1. /\ request'[q] = request[q] /\ thing' # None
          /\ repos!CommittedOthers(q) => repos!CommittedOthers(q)'
      BY <1>2, <1>3 DEF repos!Trees, repos!CommittedOthers
    <3> QED
      BY <1>t, <1>1, <1>2, <2>1, <2>2, <3>1 DEF repos!EditGoesOn, repos!Trees
  <2>5. /\ request'[r].at \notin {"edited", "commit", "added", "told"}
        /\ request'[r].at = "push" => thing' # None /\ (r \in thing'.commits \/ ~request'[r].added)
    BY <1>2, <1>3, <2>3 DEF repos!Trees
  <2> QED
    BY <2>4, <2>5 DEF repos!EditGoesOn
<1> QED
  BY <1>4, <1>6, <1>7, <1>8 DEF repos!ReposInv

(* A request that has tried to stage its edit. *)
LEMMA AddedRequest ==
  ASSUME repos!TypeInv, NEW r \in Client, NEW b \in BOOLEAN,
         request' = [request EXCEPT ![r] = [@ EXCEPT !.at = "added", !.added = b]]
  PROVE  /\ request' \in [Client -> repos!Requests]
         /\ \A q \in Client \ {r} : request'[q] = request[q]
         /\ request'[r].took = request[r].took /\ request'[r].url = request[r].url
         /\ request'[r].at = "added" /\ request'[r].added = b
<1>1. request[r] \in repos!Requests
  BY DEF repos!TypeInv
<1>2. [request[r] EXCEPT !.at = "added", !.added = b] \in repos!Requests
  BY <1>1 DEF repos!Requests, repos!Pc
<1>3. request'[r] = [request[r] EXCEPT !.at = "added", !.added = b]
  BY DEF repos!TypeInv
<1>4. request' \in [Client -> repos!Requests] /\ \A q \in Client \ {r} : request'[q] = request[q]
  BY <1>2 DEF repos!TypeInv
<1>5. /\ request'[r].took = request[r].took /\ request'[r].url = request[r].url
      /\ request'[r].at = "added"
  <2> DEFINE q == request[r]
  <2>1. q \in [at : repos!Pc, id : Client \cup {None}, url : Url \cup {None},
               added : BOOLEAN, took : SUBSET Client]
    BY <1>1 DEF repos!Requests
  <2> HIDE DEF q
  <2>2. \A x : x = [q EXCEPT !.at = "added", !.added = b]
               => x.took = q.took /\ x.url = q.url /\ x.at = "added"
    BY <2>1
  <2> QED
    BY <1>3, <2>2 DEF q
<1>6. request'[r].added = b
  BY <1>1, <1>3 DEF repos!Requests
<1> QED
  BY <1>4, <1>5, <1>6

LEMMA ReposStep == repos!ReposInv /\ [repos!Next]_(repos!vars) => repos!ReposInv'
<1> SUFFICES ASSUME repos!ReposInv, [repos!Next]_(repos!vars)
             PROVE  repos!ReposInv'
  OBVIOUS
<1>t. repos!TypeInv /\ repos!CloneIsFresh /\ repos!TookIsCommitted /\ repos!EditGoesOn
  BY DEF repos!ReposInv
<1> USE NoneAssumption
<1>1. ASSUME NEW r \in Client, NEW url \in Url, repos!Check(r, url) PROVE repos!ReposInv'
  <2>1. request' \in [Client -> repos!Requests]
    BY <1>1, <1>t DEF repos!Check, repos!TypeInv, repos!At, repos!Requests, repos!Pc
  <2>2. /\ UNCHANGED <<row, thing, past>> /\ request[r].at = "idle"
        /\ \A q \in Client \ {r} : request'[q] = request[q]
        /\ request'[r].took = {} /\ request'[r].at = "fetch" /\ request'[r].url = url
    BY <1>1, <1>t DEF repos!Check, repos!TypeInv, repos!At
  <2>3. request[r].took = {}
    BY <2>2, <1>t DEF repos!TookIsCommitted
  <2> QED
    BY <1>t, <2>1, <2>2, <2>3, ReposKeep DEF repos!TypeInv
<1>2. ASSUME NEW r \in Client, NEW pc \in {"fetch", "commit"}, repos!Load(r, pc) PROVE repos!ReposInv'
  <2>1. row \in repos!Rows
    BY <1>2, <1>t DEF repos!Load, repos!TypeInv
  <2>2. request' \in [Client -> repos!Requests]
    BY <1>2, <1>t, <2>1
    DEF repos!Load, repos!TypeInv, repos!At, repos!Requests, repos!Pc, repos!Rows
  <2>3. /\ UNCHANGED <<row, thing, past>>
        /\ \/ request[r].at = "idle" /\ pc = "fetch"
           \/ request[r].at = "edited" /\ pc = "commit"
        /\ \A q \in Client \ {r} : request'[q] = request[q]
        /\ request'[r].took = {} /\ request'[r].at = pc /\ request'[r].url = row.url
        /\ row.url \in Url
    BY <1>2, <1>t, <2>1 DEF repos!Load, repos!TypeInv, repos!At, repos!Rows
  <2>4. request[r].took = {}
    BY <2>3, <1>t DEF repos!TookIsCommitted
  <2> QED
    BY <1>t, <2>2, <2>3, <2>4, ReposKeep DEF repos!TypeInv
<1>3. ASSUME NEW r \in Client, repos!BeginClone(r) PROVE repos!ReposInv'
  <2>1. /\ thing = None /\ UNCHANGED <<row, past>> /\ request[r].at = "fetch"
        /\ request[r].url \in Url
        /\ \A q \in Client \ {r} : request'[q] = request[q]
        /\ request'[r].at = "clone" /\ request'[r].url = request[r].url
        /\ request'[r].took = request[r].took
        /\ request' \in [Client -> repos!Requests]
    BY <1>3, <1>t
    DEF repos!BeginClone, repos!Goto, repos!TypeInv, repos!Requests, repos!Pc
  <2>2. thing' \in repos!Trees /\ thing' # None /\ ~thing'.cloned
        /\ thing'.edits = {} /\ thing'.staged = {}
    <3>1. thing' = [origin |-> request[r].url, cloned |-> FALSE, edits |-> {},
                  staged |-> {}, commits |-> {}]
      BY <1>3 DEF repos!BeginClone
    <3>2. thing' \in repos!Trees
      BY <2>1, <3>1 DEF repos!Trees
    <3>3. ~thing'.cloned /\ thing'.edits = {} /\ thing'.staged = {}
      BY <3>1
    <3> QED
      BY <3>2, <3>3 DEF repos!Trees
  <2>3. \A q \in Client : request[q].took = {} /\ request'[q].took = {}
    BY <1>t, <2>1 DEF repos!TookIsCommitted
  <2>4. \A q \in Client : request[q].at # "clone"
    BY <1>t, <2>1 DEF repos!CloneIsFresh
  <2>5. repos!TypeInv'
    BY <1>t, <2>1, <2>2 DEF repos!TypeInv
  <2>6. repos!CloneIsFresh'
    BY <2>1, <2>2, <2>3, <2>4 DEF repos!CloneIsFresh
  <2>7. repos!TookIsCommitted'
    BY <2>3, <1>t, <2>1 DEF repos!TookIsCommitted
  <2>8. repos!EditGoesOn'
    BY <1>t, <2>1, <2>2, <2>3 DEF repos!EditGoesOn, repos!Taken, repos!CommittedOthers
  <2> QED
    BY <2>5, <2>6, <2>7, <2>8 DEF repos!ReposInv
<1>4. ASSUME NEW r \in Client, repos!Cloned(r) PROVE repos!ReposInv'
  <2>1. /\ thing \in repos!Trees /\ ~thing.cloned /\ thing.edits = {} /\ thing.staged = {}
        /\ \A q \in Client : request[q].took = {} /\ (request[q].at = "clone" => q = r)
        /\ request[r].at = "clone" /\ UNCHANGED <<row, past>> /\ request[r].url \in Url
    BY <1>4, <1>t DEF repos!Cloned, repos!CloneIsFresh, repos!TypeInv
  <2>2. /\ request' \in [Client -> repos!Requests]
        /\ \A q \in Client \ {r} : request'[q] = request[q]
        /\ request'[r].at \in {"ok", "error"} /\ request'[r].took = {}
        /\ request'[r].url = request[r].url
    BY <1>4, <1>t, <2>1
    DEF repos!Cloned, repos!Goto, repos!TypeInv, repos!Requests, repos!Pc
  <2>3. thing' \in repos!Trees \cup {None}
    <3>1. [thing EXCEPT !.cloned = TRUE, !.commits = @ \cup past[thing.origin]] \in repos!Trees
      BY <1>t, <2>1 DEF repos!Trees, repos!TypeInv
    <3> QED
      BY <1>4, <2>1, <3>1 DEF repos!Cloned
  <2>4. repos!TypeInv'
    BY <1>t, <2>1, <2>2, <2>3 DEF repos!TypeInv
  <2>5. repos!CloneIsFresh'
    BY <2>1, <2>2 DEF repos!CloneIsFresh
  <2>6. repos!TookIsCommitted'
    BY <1>t, <2>1, <2>2 DEF repos!TookIsCommitted
  <2>7. \A q \in Client : request[q].at \notin {"edited", "commit", "added"}
    BY <1>t, <2>1 DEF repos!EditGoesOn, repos!Taken
  <2>8. \A q \in Client : request[q].at # "push"
    BY <1>t, <2>1 DEF repos!TookIsCommitted
  <2>9. repos!EditGoesOn'
    BY <1>t, <2>1, <2>2, <2>7, <2>8
    DEF repos!EditGoesOn, repos!Taken, repos!CommittedOthers
  <2> QED
    BY <2>4, <2>5, <2>6, <2>9 DEF repos!ReposInv

<1>5. ASSUME NEW r \in Client, repos!Pull(r) PROVE repos!ReposInv'
  <2>1. /\ request[r].at = "fetch" /\ thing \in repos!Trees /\ UNCHANGED <<row, past>>
        /\ request[r].url \in Url /\ request[r].took = {}
    BY <1>5, <1>t DEF repos!Pull, repos!TypeInv, repos!TookIsCommitted
  <2>2. /\ request' \in [Client -> repos!Requests]
        /\ \A q \in Client \ {r} : request'[q] = request[q]
        /\ request'[r].at \in {"ok", "error"} /\ request'[r].took = request[r].took
        /\ request'[r].url = request[r].url
    BY <1>5, <1>t DEF repos!Pull, repos!Goto, repos!TypeInv, repos!Requests, repos!Pc
  <2>3. \/ thing' = thing
        \/ /\ thing' \in repos!Trees /\ thing'.edits = thing.edits
           /\ thing'.staged = thing.staged /\ thing.commits \subseteq thing'.commits
           /\ thing'.cloned => \A q \in Client : request[q].at # "clone"
    <3>1. CASE thing' = [thing EXCEPT !.cloned = \A q \in Client : request[q].at # "clone",
                                    !.commits = @ \cup past[thing.origin]]
      BY <1>t, <2>1, <3>1 DEF repos!TypeInv, repos!Trees
    <3> QED
      BY <1>5, <3>1 DEF repos!Pull
  <2> QED
    BY <1>t, <2>1, <2>2, <2>3, ReposKeep DEF repos!TypeInv
<1>6. ASSUME NEW r \in Client, repos!Record(r) PROVE repos!ReposInv'
  <2>1. /\ request[r].at \in {"ok", "error"} /\ UNCHANGED <<thing, past>>
        /\ request[r].url \in Url /\ request[r].took = {}
    BY <1>6, <1>t DEF repos!Record, repos!TypeInv, repos!TookIsCommitted
  <2>2. /\ request' \in [Client -> repos!Requests]
        /\ \A q \in Client \ {r} : request'[q] = request[q]
        /\ request'[r].at = "ended" /\ request'[r].took = request[r].took
    BY <1>6, <1>t DEF repos!Record, repos!Goto, repos!TypeInv, repos!Requests, repos!Pc
  <2>3. row' \in repos!Rows \cup {None}
    <3>1. \/ row' = [id |-> r, url |-> request[r].url, status |-> request[r].at]
          \/ row # None /\ row' = [row EXCEPT !.status = request[r].at]
          \/ row' = row
      BY <1>6 DEF repos!Record
    <3> QED
      BY <1>t, <2>1, <3>1 DEF repos!TypeInv, repos!Rows
  <2> QED
    BY <2>1, <2>2, <2>3, ReposKeep
<1>7. ASSUME NEW r \in Client, repos!Edit(r) PROVE repos!ReposInv'
  <2>1. /\ request[r].at = "idle" /\ thing \in repos!Trees /\ thing.cloned
        /\ UNCHANGED <<row, past>>
    BY <1>7, <1>t DEF repos!Edit, repos!TypeInv
  <2>2. /\ thing' \in repos!Trees /\ thing'.edits = thing.edits \cup {r}
        /\ thing'.commits = thing.commits /\ thing'.cloned = thing.cloned
        /\ thing'.staged = thing.staged
    BY <1>7, <2>1 DEF repos!Edit, repos!Trees
  <2>3. /\ request' \in [Client -> repos!Requests]
        /\ \A q \in Client \ {r} : request'[q] = request[q]
        /\ request'[r].at = "edited" /\ request'[r].took = request[r].took
        /\ request[r].took = {}
    BY <1>7, <1>t, <2>1
    DEF repos!Edit, repos!Goto, repos!TypeInv, repos!Requests, repos!Pc,
        repos!TookIsCommitted
  <2>4. repos!TypeInv'
    BY <1>t, <2>1, <2>2, <2>3 DEF repos!TypeInv
  <2>5. repos!CloneIsFresh'
    BY <1>t, <2>1, <2>3 DEF repos!CloneIsFresh
  <2>6. repos!TookIsCommitted'
    BY <1>t, <2>1, <2>2, <2>3 DEF repos!TookIsCommitted, repos!Trees
  <2>7. repos!EditGoesOn'
    <3>1. \A e \in Client : repos!Taken(e) => repos!Taken(e)'
      BY <2>3 DEF repos!Taken
    <3> QED
      BY <1>t, <2>1, <2>2, <2>3, <3>1 DEF repos!EditGoesOn, repos!Trees, repos!CommittedOthers
  <2> QED
    BY <2>4, <2>5, <2>6, <2>7 DEF repos!ReposInv
<1>8. ASSUME NEW r \in Client, repos!Add(r) PROVE repos!ReposInv'
  <2>1. /\ request[r].at = "commit" /\ thing \in repos!Trees /\ UNCHANGED <<row, past>>
        /\ request[r].url \in Url /\ request[r].took = {}
        /\ r \in thing.edits \cup thing.staged \/ repos!Taken(r)
    BY <1>8, <1>t DEF repos!Add, repos!TypeInv, repos!TookIsCommitted, repos!EditGoesOn
  <2>2. /\ thing' \in repos!Trees /\ thing'.edits = {}
        /\ thing'.staged = thing.staged \cup thing.edits
        /\ thing'.commits = thing.commits /\ thing'.cloned = thing.cloned
    BY <1>8, <2>1 DEF repos!Add, repos!Trees
  <2>3. /\ request' \in [Client -> repos!Requests]
        /\ \A q \in Client \ {r} : request'[q] = request[q]
        /\ request'[r].took = {} /\ request'[r].url = request[r].url
        /\ request'[r].at = "added"
    <3>1. request' = [request EXCEPT ![r] = [@ EXCEPT !.at = "added", !.added = TRUE]]
      BY <1>8 DEF repos!Add
    <3> QED
      BY <1>t, <2>1, <3>1, AddedRequest
  <2>4. repos!TypeInv'
    BY <1>t, <2>1, <2>2, <2>3 DEF repos!TypeInv
  <2>5. \A q \in Client : request[q].at # "clone"
    BY <1>t, <2>1 DEF repos!CloneIsFresh, repos!Taken
  <2>6. repos!CloneIsFresh'
    BY <2>3, <2>5 DEF repos!CloneIsFresh
  <2>7. repos!TookIsCommitted'
    BY <1>t, <2>1, <2>2, <2>3 DEF repos!TookIsCommitted, repos!Trees
  <2>8. repos!EditGoesOn'
    <3>1. \A e \in Client : repos!Taken(e) => repos!Taken(e)'
      BY <2>1, <2>3 DEF repos!Taken
    <3>2. \A q \in Client \ {r} : repos!CommittedOthers(q) => repos!CommittedOthers(q)'
      BY <2>3 DEF repos!CommittedOthers
    <3> QED
      BY <1>t, <2>1, <2>2, <2>3, <3>1, <3>2 DEF repos!EditGoesOn, repos!Trees
  <2> QED
    BY <2>4, <2>6, <2>7, <2>8 DEF repos!ReposInv
<1>8a. ASSUME NEW r \in Client, repos!AddFails(r) PROVE repos!ReposInv'
  <2>1. /\ UNCHANGED <<row, thing, past>> /\ request[r].at = "commit"
        /\ request[r].took = {} /\ request[r].url \in Url
    BY <1>8a, <1>t DEF repos!AddFails, repos!TypeInv, repos!TookIsCommitted
  <2>2. /\ request' \in [Client -> repos!Requests]
        /\ \A q \in Client \ {r} : request'[q] = request[q]
        /\ request'[r].took = request[r].took /\ request'[r].url = request[r].url
        /\ request'[r].at = "added" /\ ~request'[r].added
    <3>1. request' = [request EXCEPT ![r] = [@ EXCEPT !.at = "added", !.added = FALSE]]
      BY <1>8a DEF repos!AddFails
    <3> QED
      BY <1>t, <2>1, <3>1, AddedRequest
  <2> QED
    BY <1>t, <2>1, <2>2, ReposKeep DEF repos!TypeInv
<1>8b. ASSUME NEW r \in Client, repos!Commit(r) PROVE repos!ReposInv'
  BY <1>8b, CommitKeeps DEF repos!Commit
<1>8c. ASSUME NEW r \in Client, repos!NothingStaged(r) PROVE repos!ReposInv'
  <2>1. /\ UNCHANGED <<row, thing, past>> /\ request[r].at = "added" /\ thing.staged = {}
        /\ request[r].took = {} /\ request[r].url \in Url
        /\ r \in thing.edits \/ repos!Taken(r)
    BY <1>8c, <1>t
    DEF repos!NothingStaged, repos!TypeInv, repos!TookIsCommitted, repos!EditGoesOn
  <2>2. /\ request' \in [Client -> repos!Requests]
        /\ \A q \in Client \ {r} : request'[q] = request[q]
        /\ request'[r].took = request[r].took /\ request'[r].url = request[r].url
        /\ \/ request'[r].at = "failed"
           \/ request'[r].at = "told" /\ thing.edits = {}
    BY <1>8c, <1>t
    DEF repos!NothingStaged, repos!Goto, repos!TypeInv, repos!Requests, repos!Pc
  <2>3. CASE request'[r].at = "failed"
    BY <1>t, <2>1, <2>2, <2>3, ReposKeep DEF repos!TypeInv
  <2>4. CASE request'[r].at = "told" /\ thing.edits = {}
    <3>1. \A e \in Client : repos!Taken(e) => repos!Taken(e)'
      BY <2>1, <2>2 DEF repos!Taken
    <3>2. \A q \in Client \ {r} : repos!CommittedOthers(q) => repos!CommittedOthers(q)'
      BY <2>2 DEF repos!CommittedOthers
    <3>3. repos!Taken(r)'
      BY <2>1, <2>4, <3>1
    <3>4. repos!TypeInv'
      BY <1>t, <2>1, <2>2, <2>4 DEF repos!TypeInv
    <3>5. repos!CloneIsFresh'
      BY <1>t, <2>1, <2>2, <2>4 DEF repos!CloneIsFresh
    <3>6. repos!TookIsCommitted'
      BY <1>t, <2>1, <2>2, <2>4 DEF repos!TookIsCommitted
    <3>7. repos!EditGoesOn'
      BY <1>t, <2>1, <2>2, <2>4, <3>1, <3>2, <3>3 DEF repos!EditGoesOn
    <3> QED
      BY <3>4, <3>5, <3>6, <3>7 DEF repos!ReposInv
  <2> QED
    BY <2>2, <2>3, <2>4
<1>9. ASSUME NEW r \in Client, repos!CommitFails(r) \/ repos!PushFails(r) PROVE repos!ReposInv'
  <2>1. CASE repos!Goto(r, "failed") /\ UNCHANGED <<row, thing, past>>
    <3>1. /\ request' \in [Client -> repos!Requests]
          /\ \A q \in Client \ {r} : request'[q] = request[q]
          /\ request'[r].at = "failed" /\ request'[r].took = request[r].took
      BY <1>t, <2>1 DEF repos!Goto, repos!TypeInv, repos!Requests, repos!Pc
    <3> QED
      BY <1>t, <2>1, <3>1, ReposKeep DEF repos!TypeInv
  <2>2. CASE /\ request[r].at = "added" /\ thing # None
             /\ request' = [request EXCEPT ![r].at = "failed", ![r].took = thing.staged]
             /\ thing' = [thing EXCEPT !.commits = @ \cup thing.staged, !.staged = {}]
             /\ UNCHANGED <<row, past>>
    BY <2>2, CommitKeeps
  <2> QED
    BY <1>9, <2>1, <2>2 DEF repos!CommitFails, repos!PushFails
<1>10. ASSUME NEW r \in Client, repos!Push(r) PROVE repos!ReposInv'
  <2>1. /\ request[r].at = "push" /\ thing \in repos!Trees /\ UNCHANGED <<row, thing>>
        /\ request[r].url \in Url /\ (r \in thing.commits \/ ~request[r].added)
        /\ request[r].took # {} /\ request[r].took \subseteq thing.commits
    BY <1>10, <1>t DEF repos!Push, repos!TypeInv, repos!TookIsCommitted, repos!EditGoesOn
  <2>2. /\ request' \in [Client -> repos!Requests]
        /\ \A q \in Client \ {r} : request'[q] = request[q]
        /\ request'[r].took = request[r].took /\ request'[r].url = request[r].url
        /\ request'[r].at = "told" /\ request'[r].added = request[r].added
    BY <1>10, <1>t DEF repos!Push, repos!Goto, repos!TypeInv, repos!Requests, repos!Pc
  <2>3. /\ past' \in [Url -> SUBSET Client]
        /\ thing.commits \subseteq past'[request[r].url]
        /\ \A u \in Url : past[u] \subseteq past'[u]
    BY <1>10, <1>t, <2>1 DEF repos!Push, repos!TypeInv, repos!Trees
  <2>4. repos!TypeInv'
    BY <1>t, <2>1, <2>2, <2>3 DEF repos!TypeInv
  <2>5. repos!CloneIsFresh'
    BY <1>t, <2>1, <2>2 DEF repos!CloneIsFresh
  <2>6. repos!TookIsCommitted'
    BY <1>t, <2>1, <2>2, <2>3 DEF repos!TypeInv, repos!TookIsCommitted
  <2>7. repos!EditGoesOn'
    <3>1. \A e \in Client : repos!Taken(e) => repos!Taken(e)'
      BY <2>2 DEF repos!Taken
    <3>2. /\ \A q \in Client \ {r} : repos!CommittedOthers(q) => repos!CommittedOthers(q)'
          /\ r \in thing.commits \/ repos!CommittedOthers(r)'
      BY <2>1, <2>2 DEF repos!CommittedOthers
    <3> QED
      BY <1>t, <2>1, <2>2, <2>3, <3>1, <3>2 DEF repos!TypeInv, repos!EditGoesOn
  <2> QED
    BY <2>4, <2>5, <2>6, <2>7 DEF repos!ReposInv
<1>11. ASSUME repos!Delete PROVE repos!ReposInv'
  <2>1. row' = None /\ UNCHANGED <<thing, past, request>>
    BY <1>11 DEF repos!Delete
  <2> QED
    BY <1>t, <2>1
    DEF repos!ReposInv, repos!TypeInv, repos!CloneIsFresh, repos!TookIsCommitted,
        repos!EditGoesOn, repos!Taken, repos!CommittedOthers
<1>12. ASSUME repos!Crash PROVE repos!ReposInv'
  <2>1. /\ UNCHANGED <<row, thing, past>>
        /\ request' = [r \in Client |->
             IF repos!Busy(r) THEN [request[r] EXCEPT !.at = "failed"] ELSE request[r]]
    BY <1>12 DEF repos!Crash
  <2>2. request' \in [Client -> repos!Requests]
    BY <1>t, <2>1 DEF repos!TypeInv, repos!Requests, repos!Pc
  <2>3. \A q \in Client :
          /\ request'[q].took = request[q].took
          /\ request'[q].url = request[q].url
          /\ request'[q].added = request[q].added
          /\ \/ request'[q] = request[q] /\ ~repos!Busy(q)
             \/ request'[q].at = "failed"
    BY <1>t, <2>1 DEF repos!TypeInv, repos!Requests
  <2>4. repos!TypeInv'
    BY <1>t, <2>1, <2>2, <2>3 DEF repos!TypeInv
  <2>5. repos!CloneIsFresh'
    BY <2>3 DEF repos!Busy, repos!CloneIsFresh
  <2>6. repos!TookIsCommitted'
    BY <1>t, <2>1, <2>3 DEF repos!TookIsCommitted, repos!Busy
  <2>7. repos!EditGoesOn'
    <3>1. \A e \in Client : repos!Taken(e) => repos!Taken(e)'
      BY <2>3 DEF repos!Taken
    <3> QED
      BY <1>t, <2>1, <2>3, <3>1 DEF repos!EditGoesOn, repos!Busy, repos!CommittedOthers
  <2> QED
    BY <2>4, <2>5, <2>6, <2>7 DEF repos!ReposInv
<1>13. CASE UNCHANGED repos!vars
  <2>1. UNCHANGED <<row, thing, past, request>>
    BY <1>13 DEF repos!vars
  <2> QED
    BY <1>t, <2>1
    DEF repos!ReposInv, repos!TypeInv, repos!CloneIsFresh, repos!TookIsCommitted,
        repos!EditGoesOn, repos!Taken, repos!CommittedOthers
<1> QED
  BY <1>1, <1>2, <1>3, <1>4, <1>5, <1>6, <1>7, <1>8, <1>8a, <1>8b, <1>8c, <1>9, <1>10,
     <1>11, <1>12, <1>13
  DEF repos!Next

(* Who was told, and is at no remote, is held by a request that has not pushed, or
   has committed another's edit. *)
LEMMA ReposTold == repos!ReposInv => repos!ToldPushed
<1> SUFFICES ASSUME repos!ReposInv, NEW r \in Client, request[r].at = "told",
                    r \notin past[request[r].url], ~repos!CommittedOthers(r)
             PROVE  repos!HeldByAnother(r, request[r].url)
  BY DEF repos!ToldPushed
<1>1. PICK q \in Client \ {r} : r \in request[q].took
  BY DEF repos!ReposInv, repos!EditGoesOn, repos!Taken
<1>2. request[q].at # "told" \/ request[q].url # request[r].url
  BY <1>1 DEF repos!ReposInv, repos!TookIsCommitted
<1> QED
  BY <1>1, <1>2 DEF repos!HeldByAnother
-----------------------------------------------------------------------------
LEMMA BillingStarts == billing!Init => billing!BillingInv
BY NoneAssumption
DEF billing!Init, billing!BillingInv, billing!TypeInv, billing!RunsAlone,
    billing!CustomerSettled, billing!PaidIsGiven, billing!PaidIsLinked, billing!At,
    billing!Busy, billing!Alone

LEMMA BillingStep == billing!BillingInv /\ [billing!Next]_(billing!vars) => billing!BillingInv'
<1> SUFFICES ASSUME billing!BillingInv, [billing!Next]_(billing!vars)
             PROVE  billing!BillingInv'
  OBVIOUS
<1> USE NoneAssumption DEF billing!Busy, billing!Alone, billing!At
<1>1. ASSUME NEW r \in Request, billing!Load(r) PROVE billing!BillingInv'
  <2>1. past'.beside = IF \E q \in Request : billing!Busy(q)
                         THEN past.beside \cup {r} \cup {q \in Request : billing!Busy(q)}
                         ELSE past.beside
    BY <1>1 DEF billing!Load, billing!BillingInv, billing!TypeInv
  <2>2. past' = [past EXCEPT !.beside = past'.beside]
    BY <1>1 DEF billing!Load, billing!BillingInv, billing!TypeInv
  <2>3. billing!TypeInv'
    BY <1>1, <2>1, <2>2 DEF billing!Load, billing!BillingInv, billing!TypeInv
  <2>4. billing!RunsAlone'
    BY <1>1, <2>1 DEF billing!Load, billing!BillingInv, billing!TypeInv, billing!RunsAlone
  <2>5. billing!CustomerSettled'
    BY <1>1, <2>1
    DEF billing!Load, billing!BillingInv, billing!TypeInv, billing!CustomerSettled
  <2>6. billing!PaidIsGiven' /\ billing!PaidIsLinked'
    BY <1>1, <2>1, <2>2
    DEF billing!Load, billing!BillingInv, billing!TypeInv, billing!PaidIsGiven,
        billing!PaidIsLinked
  <2> QED
    BY <2>3, <2>4, <2>5, <2>6 DEF billing!BillingInv
<1>2. ASSUME NEW r \in Request, billing!Customer(r) PROVE billing!BillingInv'
  BY <1>2
  DEF billing!Customer, billing!BillingInv, billing!TypeInv, billing!RunsAlone,
      billing!CustomerSettled, billing!PaidIsGiven, billing!PaidIsLinked
<1>3. ASSUME NEW r \in Request, billing!Session(r) PROVE billing!BillingInv'
  BY <1>3
  DEF billing!Session, billing!BillingInv, billing!TypeInv, billing!RunsAlone,
      billing!CustomerSettled, billing!PaidIsGiven, billing!PaidIsLinked
<1>4. ASSUME NEW r \in Request, billing!StripeFails(r) PROVE billing!BillingInv'
  BY <1>4
  DEF billing!StripeFails, billing!BillingInv, billing!TypeInv, billing!RunsAlone,
      billing!CustomerSettled, billing!PaidIsGiven, billing!PaidIsLinked
<1>5. ASSUME NEW r \in Request, billing!Commit(r) PROVE billing!BillingInv'
  BY <1>5
  DEF billing!Commit, billing!BillingInv, billing!TypeInv, billing!RunsAlone,
      billing!CustomerSettled, billing!PaidIsGiven, billing!PaidIsLinked
<1>6. ASSUME NEW r \in Request, billing!Pay(r) PROVE billing!BillingInv'
  BY <1>6
  DEF billing!Pay, billing!BillingInv, billing!TypeInv, billing!RunsAlone,
      billing!CustomerSettled, billing!PaidIsGiven, billing!PaidIsLinked
<1>7. ASSUME NEW r \in Request, billing!Webhook(r) PROVE billing!BillingInv'
  BY <1>7
  DEF billing!Webhook, billing!Links, billing!BillingInv, billing!TypeInv,
      billing!RunsAlone, billing!CustomerSettled, billing!PaidIsGiven,
      billing!PaidIsLinked
<1>8. ASSUME billing!Crash PROVE billing!BillingInv'
  BY <1>8
  DEF billing!Crash, billing!BillingInv, billing!TypeInv, billing!RunsAlone,
      billing!CustomerSettled, billing!PaidIsGiven, billing!PaidIsLinked
<1>9. CASE UNCHANGED billing!vars
  BY <1>9
  DEF billing!vars, billing!BillingInv, billing!TypeInv, billing!RunsAlone,
      billing!CustomerSettled, billing!PaidIsGiven, billing!PaidIsLinked
<1> QED
  BY <1>1, <1>2, <1>3, <1>4, <1>5, <1>6, <1>7, <1>8, <1>9 DEF billing!Next
-----------------------------------------------------------------------------
ComponentsInv ==
  /\ focus = "lakebase" => lakebase!LakebaseInv
  /\ focus = "volumes" => volumes!VolumesInv
  /\ focus = "repos" => repos!ReposInv
  /\ focus = "billing" => billing!BillingInv

LEMMA ComponentsStart == MCInit => ComponentsInv
BY LakebaseStarts, VolumesStart, ReposStart, BillingStarts DEF MCInit, ComponentsInv

LEMMA ComponentsStep == ComponentsInv /\ [MCNext]_vars => ComponentsInv'
<1> SUFFICES ASSUME ComponentsInv, [MCNext]_vars PROVE ComponentsInv'
  OBVIOUS
<1>1. focus' = focus
  BY DEF MCNext, vars
<1>2. ASSUME focus = "lakebase" PROVE lakebase!LakebaseInv'
  BY <1>2, LakebaseStep DEF MCNext, vars, ComponentsInv, lakebase!vars
<1>3. ASSUME focus = "volumes" PROVE volumes!VolumesInv'
  BY <1>3, VolumesStep DEF MCNext, vars, ComponentsInv, volumes!vars
<1>4. ASSUME focus = "repos" PROVE repos!ReposInv'
  BY <1>4, ReposStep DEF MCNext, vars, ComponentsInv, repos!vars
<1>5. ASSUME focus = "billing" PROVE billing!BillingInv'
  BY <1>5, BillingStep DEF MCNext, vars, ComponentsInv, billing!vars
<1> QED
  BY <1>1, <1>2, <1>3, <1>4, <1>5 DEF ComponentsInv

LEMMA ComponentsHold == MCSpec => []ComponentsInv
BY ComponentsStart, ComponentsStep, PTL DEF MCSpec

(* For any number of requests and any crashes: a row has its own table until a
   delete drops it or an earlier row's delete takes it, and who works on a row
   works on its table (main.py 1355-1421). *)
THEOREM RowsHaveTheirTables == MCSpec => []OwnTable
<1>1. ASSUME lakebase!LakebaseInv PROVE lakebase!OwnTable
  BY <1>1 DEF lakebase!LakebaseInv
<1> QED
  BY <1>1, ComponentsHold, PTL DEF ComponentsInv, OwnTable

(* For any number of uploads, purges and deletes at once, and any size of a page:
   a volume shows only what was put into it, but for what was put while its volume
   was being deleted and what the object store refused to delete then (storage.py
   94-101, main.py 790-793). *)
THEOREM VolumesShowTheirOwn == MCSpec => []ShowsOwn
<1>1. ASSUME volumes!VolumesInv PROVE volumes!ShowsOwn
  BY <1>1 DEF volumes!VolumesInv, volumes!ObjectsAreRows, volumes!ShowsOwn
<1> QED
  BY <1>1, ComponentsHold, PTL DEF ComponentsInv, ShowsOwn

(* For any number of requests on one working tree and any remotes: who is told
   that his commit is done has his edit at the remote, or another request has
   taken it along and not pushed it there, or his add failed unseen and his commit
   was of what others had staged (git_repos.py 55-63). *)
THEOREM CommitsReachTheRemote == MCSpec => []ToldPushed
BY ReposTold, ComponentsHold, PTL DEF ComponentsInv, ToldPushed

(* For any number of checkouts of a user, any crashes and any repetition, delay
   or reordering of webhooks: what was paid at a checkout that overlapped no other,
   and was answered, has been linked to the user (billing.py 42-74). *)
THEOREM PaymentsAreLinked == MCSpec => []PaidIsLinked
<1>1. ASSUME billing!BillingInv PROVE billing!PaidIsLinked
  BY <1>1 DEF billing!BillingInv
<1> QED
  BY <1>1, ComponentsHold, PTL DEF ComponentsInv, PaidIsLinked
=============================================================================
