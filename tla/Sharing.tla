------------------------------ MODULE Sharing ------------------------------
(***************************************************************************)
(* One Delta share and its recipient (backend/app/main.py 1482-1581), and   *)
(* the protocol a recipient reads with (1586-1677, sharing.py 19-53): a     *)
(* query names the files of a table by urls whose token is signed and dated *)
(* and which nobody looks up again.                                         *)
(***************************************************************************)
EXTENDS Naturals, FiniteSets

CONSTANTS
  Request,  \* requests of editors and of the recipient; bearer tokens and
            \* recipients are named for the request that made them
  Table,
  None,
  TTL,      \* FILE_TOKEN_TTL_SECONDS
  MaxTime,  \* bound: the clock
  MaxRows,  \* bound: rows of a table in the share
  Faults    \* "crash": the process dies

VARIABLES
  share,    \* models.Share is there, how many ShareTables each table has in it, its
            \* recipient and the recipient's bearer token
  links,    \* the file urls given out
  request,  \* where each request is, the recipient, token and table it has read
  past      \* the time, when each token last lost each table, the requests that
            \* had been let in by then, the profile last handed out, and whether it
            \* was a first one that a rotation had overtaken

vars == <<share, links, request, past>>

At(pc, recipient, token, t) ==
  [at |-> pc, recipient |-> recipient, token |-> token, table |-> t]
Goto(r, pc) == request' = [request EXCEPT ![r].at = pc]

NoTables == [t \in Table |-> 0]
Shared(s) == {t \in Table : s.tables[t] > 0}

Init ==
  /\ share = [there |-> TRUE, tables |-> NoTables, recipient |-> None, token |-> None]
  /\ links = {}
  /\ request = [r \in Request |-> At("idle", None, None, None)]
  /\ past = [now |-> 0, lost |-> [a \in Request \X Table |-> 0], late |-> {},
             profile |-> None, overtaken |-> FALSE]

(* What can be read with which token. *)
Open(s) == {a \in Request \X Table : s.there /\ s.token = a[1] /\ a[2] \in Shared(s)}

(* A change of the share, and what it takes away. *)
Change(s) ==
  /\ share' = s
  /\ past' = [past EXCEPT
       !.lost = [a \in Request \X Table |->
                   IF a \in Open(share) \ Open(s) THEN past.now ELSE @[a]],
       !.late = @ \cup {q \in Request : request[q].at \in {"lookup", "sign"}},
       !.profile = IF s.recipient = share.recipient THEN @ ELSE None]

(* add_share_table: a row more, also of a table that has one; the foreign key
   needs the share. *)
AddTable(t) ==
  /\ share.there
  /\ share.tables[t] < MaxRows
  /\ share' = [share EXCEPT !.tables[t] = @ + 1]
  /\ UNCHANGED <<links, request, past>>

(* remove_share_table: one row. *)
RemoveTable(t) ==
  /\ t \in Shared(share)
  /\ Change([share EXCEPT !.tables[t] = @ - 1])
  /\ UNCHANGED <<links, request>>

(* create_recipient commits the recipient with a token, *)
CreateRecipient(r) ==
  /\ request[r].at = "idle"
  /\ share.there
  /\ share.recipient = None
  /\ Change([share EXCEPT !.recipient = r, !.token = r])
  /\ request' = [request EXCEPT ![r] = At("answer", r, None, None)]
  /\ UNCHANGED links

(* and after the audit's commit hands out that token, the first profile, from its
   own variable; the recipient's other columns are read again, which fails when
   he is gone. *)
Answer(r) ==
  /\ request[r].at = "answer"
  /\ past' = IF share.recipient = r
               THEN [past EXCEPT !.profile = r, !.overtaken = share.token # r] ELSE past
  /\ Goto(r, "ended")
  /\ UNCHANGED <<share, links>>

DeleteRecipient ==
  /\ share.recipient # None
  /\ Change([share EXCEPT !.recipient = None, !.token = None])
  /\ UNCHANGED <<links, request>>

(* Tables, recipients and the share in one transaction. *)
DeleteShare ==
  /\ share.there
  /\ Change([there |-> FALSE, tables |-> NoTables, recipient |-> None, token |-> None])
  /\ UNCHANGED <<links, request>>

(* get_recipient_profile loads the recipient, *)
Load(r) ==
  /\ request[r].at = "idle"
  /\ share.recipient # None
  /\ request' = [request EXCEPT ![r] = At("rotate", share.recipient, None, None)]
  /\ UNCHANGED <<share, links, past>>

(* commits a fresh token, *)
Rotate(r) ==
  /\ request[r].at = "rotate"
  /\ share.recipient = request[r].recipient
  /\ Change([share EXCEPT !.token = r])
  /\ Goto(r, "return")
  /\ UNCHANGED links

(* which fails when the recipient is gone, *)
RotateFails(r) ==
  /\ request[r].at = "rotate"
  /\ share.recipient # request[r].recipient
  /\ Goto(r, "ended")
  /\ UNCHANGED <<share, links, past>>

(* Mutant: the profile is written with the token this request has made. *)
ReturnedMade(r) == r

(* The commit has expired the row: it is read again. *)
Returned(r) == share.token

(* and returns the profile. *)
Return(r) ==
  /\ request[r].at = "return"
  /\ past' = IF share.recipient = request[r].recipient
               THEN [past EXCEPT !.profile = Returned(r), !.overtaken = FALSE] ELSE past
  /\ Goto(r, "ended")
  /\ UNCHANGED <<share, links>>

(* _require_share_recipient: whoever has a token in force. *)
Authenticate(r) ==
  /\ request[r].at = "idle"
  /\ share.token # None
  /\ request' = [request EXCEPT ![r] = At("lookup", share.recipient, share.token, None)]
  /\ UNCHANGED <<share, links, past>>

(* _get_shared_table_or_404. *)
Lookup(r) ==
  /\ request[r].at = "lookup"
  /\ \/ /\ share.there
        /\ \E t \in Shared(share) :
             request' = [request EXCEPT ![r].at = "sign", ![r].table = t]
     \/ Goto(r, "ended")
  /\ UNCHANGED <<share, links, past>>

(* Mutant: the token of a file is not dated. *)
Undated == MaxTime

Expiry == past.now + TTL

(* The snapshot of the table is read, and a url is made for each of its files. *)
Sign(r) ==
  /\ request[r].at = "sign"
  /\ links' = links \cup {[token |-> request[r].token, table |-> request[r].table,
                           until |-> Expiry, by |-> r]}
  /\ Goto(r, "ended")
  /\ UNCHANGED <<share, past>>

(* verify_file_token: ds_serve_file asks for nothing else. *)
Honoured == {l \in links : past.now <= l.until}

Tick ==
  /\ past.now < MaxTime
  /\ past' = [past EXCEPT !.now = @ + 1]
  /\ UNCHANGED <<share, links, request>>

Busy(r) == request[r].at \notin {"idle", "ended"}

(* A profile that is lost on its way is nobody's. *)
Crash ==
  /\ "crash" \in Faults
  /\ \E r \in Request : Busy(r)
  /\ request' = [r \in Request |-> IF Busy(r) THEN [request[r] EXCEPT !.at = "ended"]
                                   ELSE request[r]]
  /\ past' = IF \E r \in Request : request[r].at = "return"
               THEN [past EXCEPT !.profile = None] ELSE past
  /\ UNCHANGED <<share, links>>

Next ==
  \/ \E r \in Request :
       \/ CreateRecipient(r) \/ Answer(r)
       \/ Load(r) \/ Rotate(r) \/ RotateFails(r) \/ Return(r)
       \/ Authenticate(r) \/ Lookup(r) \/ Sign(r)
  \/ \E t \in Table : AddTable(t) \/ RemoveTable(t)
  \/ DeleteRecipient \/ DeleteShare \/ Tick \/ Crash

Spec == Init /\ [][Next]_vars
-----------------------------------------------------------------------------
(* What is taken away, by removing a table, a recipient or the share, or by a
   new token, can be read for TTL seconds more and no longer: the urls given
   out before outlive it (sharing.py 36-48), those of a query that was already
   let in aside.  A table is taken away with the last of its rows: one that was
   added twice stays readable when one row is removed (main.py 1520, 1532). *)
RevokedInTime ==
  \A l \in Honoured :
    \/ <<l.token, l.table>> \in Open(share)
    \/ l.by \in past.late
    \/ past.now <= past.lost[<<l.token, l.table>>] + TTL

(* The profile that was handed out last works, once no other is being made:
   requests that rotate the token at once return, each, the token committed
   last and not the one they made (main.py 1565-1572).  The first profile is the
   exception: a rotation may have come between the commit of its token and the
   answer of create_recipient that hands it out (main.py 1550-1552). *)
ProfileWorks ==
  (\A r \in Request : request[r].at # "return") =>
    past.profile \in {share.token, None} \/ past.overtaken
-----------------------------------------------------------------------------
(* The inductive invariant of both. *)
Pc == {"idle", "ended", "answer", "rotate", "return", "lookup", "sign"}
Shares == [there : BOOLEAN, tables : [Table -> Nat], recipient : Request \cup {None},
           token : Request \cup {None}]
Requests == [at : Pc, recipient : Request \cup {None}, token : Request \cup {None},
             table : Table \cup {None}]
Pasts == [now : Nat, lost : [Request \X Table -> Nat], late : SUBSET Request,
          profile : Request \cup {None}, overtaken : BOOLEAN]

TypeInv ==
  /\ share \in Shares
  /\ links \in SUBSET [token : Request, table : Table, until : Nat, by : Request]
  /\ request \in [Request -> Requests]
  /\ past \in Pasts

(* A recipient and his token belong to a share that is there, and so did the
   recipient whose profile is being made. *)
TokenOfShare ==
  /\ share.recipient # None => share.there
  /\ share.token # None => share.recipient # None
  /\ \A r \in Request :
       request[r].at \in {"answer", "rotate", "return"} => request[r].recipient # None

(* Who was let in, and saw no change since, works with what is open. *)
LetIn ==
  \A r \in Request :
    /\ request[r].at \in {"lookup", "sign"} => request[r].token \in Request
    /\ request[r].at = "sign" => request[r].table \in Table
    /\ request[r].at \in {"lookup", "sign"} /\ r \notin past.late =>
         share.token = request[r].token
    /\ request[r].at = "sign" /\ r \notin past.late =>
         <<request[r].token, request[r].table>> \in Open(share)

(* A url lasts TTL from now at most, and from the loss of what it was made for. *)
UrlsDated ==
  \A l \in links :
    /\ l.until <= past.now + TTL
    /\ \/ <<l.token, l.table>> \in Open(share)
       \/ l.by \in past.late
       \/ l.until <= past.lost[<<l.token, l.table>>] + TTL

(* A profile that does not work is about to be replaced: a request for the
   recipient there is has still to return one. *)
ProfileComing ==
  \/ past.profile \in {share.token, None} \/ past.overtaken
  \/ \E r \in Request : request[r].at = "return" /\ request[r].recipient = share.recipient

SharingInv == TypeInv /\ TokenOfShare /\ LetIn /\ UrlsDated /\ ProfileComing
=============================================================================
