------------------------------ MODULE Volumes ------------------------------
(***************************************************************************)
(* One volume name (backend/app/main.py 754-796 and 856-892, storage.py):   *)
(* the row and the objects whose keys begin with the name.  The object      *)
(* store knows nothing of rows: whoever is given the name next sees every   *)
(* object left under it.                                                    *)
(***************************************************************************)
EXTENDS Naturals, FiniteSets

CONSTANTS
  Request,  \* requests, each of which does one thing
  Page,     \* keys in a page of a listing (1000)
  None,     \* no row
  Faults    \* "crash": the process dies; "refuses": the object store deletes some
            \* keys of a page and answers 200, naming the others in Errors

VARIABLES
  row,      \* models.Volume: who created it
  objects,  \* the objects under the prefix, each the request that put it
  request,  \* where each request is, the row it has loaded, and keys that its
            \* listing has still to come to
  past      \* whose volume each object was put in, the rows whose objects some
            \* request has begun to delete, the objects put in them after that, and
            \* the objects that a volume's deletion was refused

vars == <<row, objects, request, past>>

At(pc, loaded, keys) == [at |-> pc, loaded |-> loaded, keys |-> keys]
Goto(r, pc) == request' = [request EXCEPT ![r].at = pc]

Init ==
  /\ row = None
  /\ objects = {}
  /\ request = [r \in Request |-> At("idle", None, {})]
  /\ past = [of |-> [r \in Request |-> None], purged |-> {}, strays |-> {},
             kept |-> {}]

(* create_volume: the name is free; at the insert it must still be. *)
Check(r) ==
  /\ request[r].at = "idle"
  /\ row = None
  /\ Goto(r, "insert")
  /\ UNCHANGED <<row, objects, past>>

Insert(r) ==
  /\ request[r].at = "insert"
  /\ row' = IF row = None THEN r ELSE row
  /\ Goto(r, "ended")
  /\ UNCHANGED <<objects, past>>

(* The other handlers load the row.  A directory marker is an object like any
   other, so mkdir is an upload. *)
Load(r) ==
  /\ request[r].at = "idle"
  /\ row # None
  /\ \E pc \in {"put", "remove", "purge"} :
       request' = [request EXCEPT ![r] = At(pc, row, {})]
  /\ UNCHANGED <<row, objects, past>>

(* volume_upload and volume_mkdir: by name, whatever became of the row. *)
Put(r) ==
  /\ request[r].at = "put"
  /\ objects' = objects \cup {r}
  /\ past' = [past EXCEPT
       !.of[r]  = request[r].loaded,
       !.strays = IF request[r].loaded \in past.purged THEN @ \cup {r} ELSE @]
  /\ Goto(r, "ended")
  /\ UNCHANGED row

Pages == {page \in SUBSET objects : Cardinality(page) \in 1 .. Page}

(* What becomes of a page: delete_objects answers, and nobody reads the answer. *)
Deleted(page) == IF "refuses" \in Faults THEN SUBSET page ELSE {page}

(* volume_delete_object: one object, or the first page under a directory. *)
Remove(r) ==
  /\ request[r].at = "remove"
  /\ \E page \in Pages : \E gone \in Deleted(page) : objects' = objects \ gone
  /\ Goto(r, "ended")
  /\ UNCHANGED <<row, past>>

(* delete_volume_prefix: page after page is listed and deleted.  The listing comes to
   what is there; what is put meanwhile it may come to or miss. *)
ListPrefix(r) ==
  /\ request[r].at = "purge"
  /\ \E more \in SUBSET {q \in Request : request[q].at \in {"idle", "put"}} :
       request' = [request EXCEPT ![r].at = "pages", ![r].keys = objects \cup more]
  /\ past' = [past EXCEPT !.purged = @ \cup {request[r].loaded}]
  /\ UNCHANGED <<row, objects>>

DeletePage(r) ==
  /\ request[r].at = "pages"
  /\ \E page \in Pages : \E gone \in Deleted(page) :
       /\ page \subseteq request[r].keys
       /\ objects' = objects \ gone
       /\ request' = [request EXCEPT ![r].keys = @ \ page]
       /\ past' = [past EXCEPT !.kept = @ \cup (page \ gone)]
  /\ UNCHANGED row

(* Mutant: not every page is listed, as in volume_delete_object. *)
PagesEndEarly(r) ==
  /\ request[r].at = "pages"
  /\ Goto(r, "delete")
  /\ UNCHANGED <<row, objects, past>>

(* The listing ends when it has come to all there is. *)
PagesEnd(r) ==
  /\ request[r].at = "pages"
  /\ request[r].keys \cap objects = {}
  /\ Goto(r, "delete")
  /\ UNCHANGED <<row, objects, past>>

(* A call of the object store raises: the handler goes no further. *)
StoreFails(r) ==
  /\ request[r].at \in {"put", "remove", "purge", "pages"}
  /\ Goto(r, "ended")
  /\ UNCHANGED <<row, objects, past>>

(* The grants and the row in one transaction, if the row is still there.  A
   grant made in between makes the foreign key refuse it: the row stays. *)
Delete(r) ==
  /\ request[r].at = "delete"
  /\ row' \in {IF row = request[r].loaded THEN None ELSE row, row}
  /\ Goto(r, "ended")
  /\ UNCHANGED <<objects, past>>

Crash ==
  /\ "crash" \in Faults
  /\ \E r \in Request : request[r].at \notin {"idle", "ended"}
  /\ request' = [r \in Request |->
       IF request[r].at = "idle" THEN request[r] ELSE At("ended", None, {})]
  /\ UNCHANGED <<row, objects, past>>

Next ==
  \/ \E r \in Request :
       \/ Check(r) \/ Insert(r) \/ Load(r) \/ Put(r) \/ Remove(r)
       \/ ListPrefix(r) \/ DeletePage(r) \/ PagesEnd(r) \/ StoreFails(r)
       \/ Delete(r)
  \/ Crash

Spec == Init /\ [][Next]_vars
-----------------------------------------------------------------------------
(* What can be browsed in a volume was put into that volume: the prefix is emptied
   before the row goes (storage.py 94-101, main.py 790-793), and the name is free
   only then.  Two things can be left to the next volume of the name: what was put
   while the one it was meant for was being deleted, or after, and what the object
   store refused to delete, for the answer that says so is not looked at
   (storage.py 101). *)
ShowsOwn ==
  row # None => \A o \in objects : past.of[o] = row \/ o \in past.strays \cup past.kept
-----------------------------------------------------------------------------
(* The inductive invariant. *)
Pc == {"idle", "insert", "put", "remove", "purge", "pages", "delete", "ended"}
Requests == [at : Pc, loaded : Request \cup {None}, keys : SUBSET Request]

Pasts == [of : [Request -> Request \cup {None}], purged : SUBSET Request,
          strays : SUBSET Request, kept : SUBSET Request]

TypeInv ==
  /\ row \in Request \cup {None}
  /\ objects \in SUBSET Request
  /\ request \in [Request -> Requests]
  /\ past \in Pasts

HasLoaded(r) == request[r].at \in {"put", "remove", "purge", "pages", "delete"}

(* A row that no request has begun to empty is still there, and whoever deletes
   one has. *)
LoadedIsRow ==
  \A r \in Request : HasLoaded(r) =>
    /\ request[r].loaded \in Request
    /\ request[r].loaded \in past.purged \/ row = request[r].loaded
    /\ request[r].at \in {"pages", "delete"} => request[r].loaded \in past.purged

(* With no row there are strays and refused objects only. *)
ObjectsAreRows ==
  \A o \in objects \ (past.strays \cup past.kept) : row # None /\ past.of[o] = row

(* What is left of a volume that is being emptied is still to be come to, is a stray
   or was refused. *)
Emptied ==
  \A r \in Request : \A o \in objects \ (past.strays \cup past.kept) :
    past.of[o] = request[r].loaded =>
      /\ request[r].at # "delete"
      /\ request[r].at = "pages" => o \in request[r].keys

VolumesInv == TypeInv /\ LoadedIsRow /\ ObjectsAreRows /\ Emptied
=============================================================================
