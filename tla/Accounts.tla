------------------------------ MODULE Accounts ------------------------------
(***************************************************************************)
(* Users (backend/app/main.py 79-99, 188-310; scim.py 79-144) and the calls *)
(* made in their name, with a session or a personal access token            *)
(* (security.py 76-110, main.py 46-66, 2069-2098).  The identity provider   *)
(* changes rows that requests are reading; no request locks one.            *)
(***************************************************************************)
CONSTANTS
  Request,  \* requests, as many as run at once
  New,      \* ids of users that may be inserted
  Name,     \* usernames; "admin" is one
  None,
  Faults    \* "crash": the process dies

User == New \cup {"admin"}

VARIABLES
  users,    \* models.User: username and is_active; None where there is no row
  holds,    \* users with a session and users with a token
  request,  \* where each request is, whose row it works on, is_active as it was
            \* loaded, the username and is_active it is to write, and whether it was
            \* sent to deactivate
  past      \* deactivations beside a write that activates; users for whom a
            \* deactivation is the last word

vars == <<users, holds, request, past>>

At(pc, u, was, name, active) ==
  [at |-> pc, user |-> u, was |-> was, name |-> name, active |-> active,
   meant |-> active = FALSE]
Idle == At("idle", None, None, None, None)
Goto(r, pc) == request' = [request EXCEPT ![r].at = pc]
Ends(r) == request' = [request EXCEPT ![r] = Idle]
Row(name, active) == [name |-> name, active |-> active]

(* _seed_default_admin; users are never deleted, so it does so once. *)
Init ==
  /\ users = [u \in User |-> IF u = "admin" THEN Row("admin", TRUE) ELSE None]
  /\ holds = [session |-> {}, token |-> {}]
  /\ request = [r \in Request |-> Idle]
  /\ past = [crossed |-> {}, off |-> {}]

There(u) == users[u] # None
Named(n) == {u \in User : There(u) /\ users[u].name = n}

(* create_user and SCIM's create: a name that is free, by a check of its own. *)
Check(r) ==
  /\ request[r].at = "idle"
  /\ \E n \in Name, v \in BOOLEAN :
       /\ Named(n) = {}
       /\ request' = [request EXCEPT ![r] = At("insert", None, None, n, v)]
  /\ UNCHANGED <<users, holds, past>>

(* Login, and the callback of a single sign-on for a name there is. *)
SignIn ==
  /\ \E n \in Name : \E u \in Named(n) :
       /\ users[u].active
       /\ holds' = [holds EXCEPT !.session = @ \cup {u}]
  /\ UNCHANGED <<users, request, past>>

(* A single sign-on for a name there is not: a viewer is made for it. *)
FirstSignIn(r) ==
  /\ request[r].at = "idle"
  /\ \E n \in Name :
       /\ Named(n) = {}
       /\ request' = [request EXCEPT ![r] = At("provision", None, None, n, TRUE)]
  /\ UNCHANGED <<users, holds, past>>

(* The name is unique: of two that have found it free one fails, and signs in
   the next time. *)
Insert(r) ==
  /\ request[r].at \in {"insert", "provision"}
  /\ IF Named(request[r].name) = {}
       THEN \E u \in New :
              /\ ~There(u)
              /\ users' = [users EXCEPT ![u] = Row(request[r].name, request[r].active)]
              /\ past' = IF request[r].active THEN past
                         ELSE [past EXCEPT !.off = @ \cup {u}]
              /\ holds' = IF request[r].at = "provision"
                            THEN [holds EXCEPT !.session = @ \cup {u}] ELSE holds
       ELSE UNCHANGED <<users, holds, past>>
  /\ Ends(r)

Writes(q, u, v) == request[q].at = "write" /\ request[q].user = u /\ request[q].active = v

(* What the handlers make of what they are sent: replace_user, a patch of paths and
   values, and delete_user take it as it is; patch_user makes TRUE of any text,
   "False" too, and passes over an operation without a path. *)
Read(sent) ==
  {sent, [name |-> None, active |-> None]} \cup
  (IF sent.active = FALSE THEN {[sent EXCEPT !.active = TRUE]} ELSE {})

(* replace_user, patch_user and delete_user: the row is loaded, and the first two
   await their body only then.  They may be sent a username, is_active, or both. *)
Load(r) ==
  /\ request[r].at = "idle"
  /\ \E u \in User, sent \in [name : Name \cup {None}, active : BOOLEAN \cup {None}] :
       \E read \in Read(sent) :
         LET v == read.active
         IN /\ There(u)
            /\ request' = [request EXCEPT ![r] =
                 [At("write", u, users[u].active, read.name, v) EXCEPT
                    !.meant = sent.active = FALSE]]
            /\ past' = [crossed |-> past.crossed \cup
                          (IF v = TRUE THEN {q \in Request : Writes(q, u, FALSE)} ELSE {}) \cup
                          (IF v = FALSE /\ \E q \in Request : Writes(q, u, TRUE) THEN {r} ELSE {}),
                        off |-> IF v = TRUE THEN past.off \ {u} ELSE past.off]
  /\ UNCHANGED <<users, holds>>

(* Mutant: every column is written back as it was loaded or changed. *)
WrittenBack(r) ==
  IF request[r].active = None THEN request[r].was ELSE request[r].active

(* is_active after the write: the mapper leaves a column out of the UPDATE that
   was not assigned, or was assigned what had been loaded. *)
Written(r) ==
  IF request[r].active \in {None, request[r].was}
    THEN users[request[r].user].active ELSE request[r].active

(* The commit, *)
Write(r) ==
  /\ request[r].at = "write"
  /\ LET u == request[r].user
         n == request[r].name
     IN /\ n # None => Named(n) \subseteq {u}
        /\ users' = [users EXCEPT ![u] = Row(IF n = None THEN @.name ELSE n, Written(r))]
        /\ past' = [crossed |-> past.crossed \ {r},
                    off |-> IF request[r].active = FALSE /\ r \notin past.crossed
                              THEN past.off \cup {u} ELSE past.off]
  /\ Ends(r)
  /\ UNCHANGED holds

(* which fails when the new name is another user's, a replaced is_active is no
   boolean, or the database is away. *)
WriteFails(r) ==
  /\ request[r].at = "write"
  /\ past' = [past EXCEPT !.crossed = @ \ {r}]
  /\ Ends(r)
  /\ UNCHANGED <<users, holds>>

(* A call with a session, which names the user's id. *)
CallInSession(r) ==
  /\ request[r].at = "idle"
  /\ \E u \in holds.session :
       request' = [request EXCEPT ![r] = At("user", u, None, None, None)]
  /\ UNCHANGED <<users, holds, past>>

(* enforce_pat_scopes finds the token and allows the path by its scopes. *)
CallWithToken(r) ==
  /\ request[r].at = "idle"
  /\ \E u \in holds.token :
       request' = [request EXCEPT ![r] = At("token", u, None, None, None)]
  /\ UNCHANGED <<users, holds, past>>

(* get_current_user looks the token up again, and notes its use; *)
FindToken(r) ==
  /\ request[r].at = "token"
  /\ IF request[r].user \in holds.token THEN Goto(r, "user") ELSE Ends(r)
  /\ UNCHANGED <<users, holds, past>>

(* and then its user. *)
Admit(r) ==
  /\ request[r].at = "user"
  /\ IF users[request[r].user].active THEN Goto(r, "call") ELSE Ends(r)
  /\ UNCHANGED <<users, holds, past>>

(* The call does one of the things above or another, or makes a token, or
   revokes one of its user's; then it is over. *)
CreateToken(r) ==
  /\ request[r].at = "call"
  /\ holds' = [holds EXCEPT !.token = @ \cup {request[r].user}]
  /\ Ends(r)
  /\ UNCHANGED <<users, past>>

RevokeToken(r) ==
  /\ request[r].at = "call"
  /\ holds' = [holds EXCEPT !.token = @ \ {request[r].user}]
  /\ Ends(r)
  /\ UNCHANGED <<users, past>>

(* A session ends after JWT_EXPIRE_MINUTES, a token when expires_at says. *)
Expire ==
  /\ \E u \in User :
       holds' \in {[holds EXCEPT !.session = @ \ {u}], [holds EXCEPT !.token = @ \ {u}]}
  /\ holds' # holds
  /\ UNCHANGED <<users, request, past>>

Crash ==
  /\ "crash" \in Faults
  /\ \E r \in Request : request[r].at # "idle"
  /\ request' = [r \in Request |-> Idle]
  /\ past' = [past EXCEPT !.crossed = {}]
  /\ UNCHANGED <<users, holds>>

Next ==
  \/ \E r \in Request :
       \/ Check(r) \/ FirstSignIn(r) \/ Insert(r)
       \/ Load(r) \/ Write(r) \/ WriteFails(r)
       \/ CallInSession(r) \/ CallWithToken(r) \/ FindToken(r) \/ Admit(r)
       \/ CreateToken(r) \/ RevokeToken(r)
  \/ SignIn
  \/ Expire
  \/ Crash

Spec == Init /\ [][Next]_vars
-----------------------------------------------------------------------------
(* Once a deactivation that the handler has read as one is answered, no call of
   that user is let in until somebody writes, or is about to write, TRUE for him
   again, a patch with a text among them (scim.py:127): not a write that was under
   way when it came, a rename for one, nor a session or a token he still holds. *)
DisabledStaysOut ==
  [][\A r \in Request :
       request[r].at = "user" /\ request'[r].at = "call"
         => request[r].user \notin past.off]_vars

(* scim.py 119-120: patch_user "Handles the PATCH shape IdPs actually send for
   deactivation", and SECURITY.md 82-83: SCIM supports "patch (activate/deactivate)".
   A user for whom a deactivation is committed is inactive then. *)
DeactivationTakes ==
  [][\A r \in Request :
       Write(r) /\ request[r].meant => users'[request[r].user].active = FALSE]_vars
-----------------------------------------------------------------------------
(* The inductive invariant. *)
Rows == [name : Name, active : BOOLEAN]

Requests ==
  [at : {"idle", "insert", "provision", "write", "token", "user", "call"},
   user : User \cup {None}, was : BOOLEAN \cup {None},
   name : Name \cup {None}, active : BOOLEAN \cup {None}, meant : BOOLEAN]

TypeInv ==
  /\ users \in [User -> Rows \cup {None}]
  /\ holds \in [session : SUBSET User, token : SUBSET User]
  /\ request \in [Request -> Requests]
  /\ past \in [crossed : SUBSET Request, off : SUBSET User]

(* Who inserts a row has all of it; who writes one, calls or is asked for has one. *)
RowsThere ==
  /\ \A r \in Request : request[r].at \in {"insert", "provision"} =>
       request[r].name \in Name /\ request[r].active \in BOOLEAN
  /\ \A r \in Request : request[r].at \in {"write", "token", "user", "call"} =>
       request[r].user \in User /\ There(request[r].user)
  /\ \A u \in holds.session \cup holds.token : There(u)

(* A deactivation that crossed no activation of the user finds none to come, and
   writes FALSE even where FALSE is what it has loaded. *)
CrossedKnown ==
  \A q \in Request : \A u \in User : Writes(q, u, FALSE) /\ q \notin past.crossed =>
    /\ \A r \in Request : ~Writes(r, u, TRUE)
    /\ request[q].was = FALSE => users[u].active = FALSE

(* Whose deactivation is the last word is inactive, and nobody is about to
   activate him. *)
OffIsInactive ==
  \A u \in past.off :
    /\ There(u)
    /\ users[u].active = FALSE
    /\ \A r \in Request : ~Writes(r, u, TRUE)

AccountsInv == TypeInv /\ RowsThere /\ CrossedKnown /\ OffIsInactive
=============================================================================
