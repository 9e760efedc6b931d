------------------------------- MODULE Alerts -------------------------------
(***************************************************************************)
(* The evaluation of one alert (backend/app/alerts.py 25-63) by cron and by *)
(* hand at the same time (scheduler.py 25-34, main.py 1023-1032), and its   *)
(* deletion.  An evaluation reads last_status, then queries for up to 120   *)
(* seconds, and only then records what it found.                            *)
(***************************************************************************)
CONSTANTS
  Request,  \* evaluations
  None,
  Faults    \* "crash": the process dies

VARIABLES
  alert,    \* models.Alert: None once deleted, else its last_status
  holds,    \* the condition holds for the data, as it is now
  request,  \* where each evaluation is, was_triggered, and what it found
  past      \* evaluations whose record began an incident, those that sent the
            \* webhook, those that others recorded in the midst of

vars == <<alert, holds, request, past>>

At(pc, was, found) == [at |-> pc, was |-> was, found |-> found]

Init ==
  /\ alert = "unknown"
  /\ holds \in BOOLEAN
  /\ request = [r \in Request |-> At("idle", FALSE, None)]
  /\ past = [began |-> {}, told |-> {}, crossed |-> {}]

DataChanges ==
  /\ holds' = ~holds
  /\ UNCHANGED <<alert, request, past>>

(* was_triggered. *)
Load(r) ==
  /\ request[r].at = "idle"
  /\ alert # None
  /\ request' = [request EXCEPT ![r] = At("query", alert = "triggered", None)]
  /\ UNCHANGED <<alert, holds, past>>

(* The query, which may fail, or return no number: "error". *)
Query(r) ==
  /\ request[r].at = "query"
  /\ \E found \in {IF holds THEN "triggered" ELSE "ok", "error"} :
       request' = [request EXCEPT ![r].at = "record", ![r].found = found]
  /\ UNCHANGED <<alert, holds, past>>

(* Mutant: whoever finds it triggered notifies. *)
NotifiesAlways(r) == request[r].found = "triggered"

Notifies(r) == request[r].found = "triggered" /\ ~request[r].was

(* _record: last_status and a row of the history, if the alert is still there. *)
Record(r) ==
  /\ request[r].at = "record"
  /\ IF alert = None
       THEN /\ request' = [request EXCEPT ![r].at = "lost"]
            /\ UNCHANGED <<alert, past>>
       ELSE /\ alert' = request[r].found
            /\ request' = [request EXCEPT ![r].at = IF Notifies(r) THEN "notify" ELSE "ended"]
            /\ past' = [past EXCEPT
                 !.began = IF request[r].found = "triggered" /\ alert # "triggered"
                             THEN @ \cup {r} ELSE @,
                 !.crossed = @ \cup {q \in Request \ {r} : request[q].at \in {"query", "record"}}]
  /\ UNCHANGED holds

(* _notify: the name and the webhook are read again first. *)
Notify(r) ==
  /\ request[r].at = "notify"
  /\ IF alert = None
       THEN request' = [request EXCEPT ![r].at = "lost"] /\ UNCHANGED past
       ELSE /\ request' = [request EXCEPT ![r].at = "ended"]
            /\ past' = [past EXCEPT !.told = @ \cup {r}]
  /\ UNCHANGED <<alert, holds>>

(* delete_alert; the foreign key of a history row written meanwhile refuses it,
   and nothing changes. *)
Delete ==
  /\ alert # None
  /\ alert' = None
  /\ UNCHANGED <<holds, request, past>>

Busy(r) == request[r].at \in {"query", "record", "notify"}

Crash ==
  /\ "crash" \in Faults
  /\ \E r \in Request : Busy(r)
  /\ request' = [r \in Request |->
       IF Busy(r) THEN [request[r] EXCEPT !.at = "lost"] ELSE request[r]]
  /\ UNCHANGED <<alert, holds, past>>

Next ==
  \/ \E r \in Request : Load(r) \/ Query(r) \/ Record(r) \/ Notify(r)
  \/ DataChanges
  \/ Delete
  \/ Crash

Spec == Init /\ [][Next]_vars
-----------------------------------------------------------------------------
(* "One notification per incident" (alerts.py 4-6): an evaluation sends the
   webhook exactly if its record turns the alert to triggered, unless another
   one recorded between its read and its record (29, 50-55), the alert was
   deleted, or the process died.  Both an incident notified twice and one that
   nobody hears of take such a crossing. *)
ToldPerIncident ==
  \A r \in Request \ past.crossed : request[r].at = "ended" =>
    (r \in past.told <=> r \in past.began)
-----------------------------------------------------------------------------
(* The inductive invariant. *)
Found == {"triggered", "ok", "error"}
Pc == {"idle", "query", "record", "notify", "ended", "lost"}
Requests == [at : Pc, was : BOOLEAN, found : Found \cup {None}]

TypeInv ==
  /\ request \in [Request -> Requests]
  /\ past \in [began : SUBSET Request, told : SUBSET Request, crossed : SUBSET Request]

(* Until it records, an evaluation has begun nothing and told nobody; and nobody
   has recorded since it read, or it is crossed. *)
ReadIsCurrent ==
  \A r \in Request :
    /\ request[r].at \in {"idle", "query", "record"} => r \notin past.began \cup past.told
    /\ request[r].at \in {"query", "record"} /\ alert # None /\ r \notin past.crossed =>
         request[r].was = (alert = "triggered")

(* Who is about to notify has begun an incident and told nobody yet. *)
NotifiesItsOwn ==
  \A r \in Request : request[r].at = "notify" =>
    /\ r \notin past.told
    /\ r \in past.began \/ r \in past.crossed

AlertsInv == TypeInv /\ ReadIsCurrent /\ NotifiesItsOwn /\ ToldPerIncident
=============================================================================
