----------------------------- MODULE AIGateway -----------------------------
(***************************************************************************)
(* One route of the AI gateway (backend/app/ai_gateway.py 19-62, main.py    *)
(* 1859-1935): the sliding-window limiter, which concurrent requests work   *)
(* on without a lock, and the log that every call leaves.                   *)
(***************************************************************************)
EXTENDS Naturals, FiniteSets

CONSTANTS
  Request,  \* chat requests
  Window,   \* the limiter's window in ticks of the clock (60 seconds)
  Limit,    \* requests_per_minute
  MaxTime,  \* bound of the clock
  None,     \* the route was deleted
  Faults    \* "crash": the process dies, and forgets its history

VARIABLES
  route,    \* models.AIGatewayRoute: None or whether it is enabled
  calls,    \* the time, and _call_history[route.id] as pairs of a request and a time
  request,  \* where each request is, its `now`, the entries it has kept
  past      \* calls let through (with their time), those that ran beside another,
            \* and whether any call is logged

vars == <<route, calls, request, past>>

Busy(pc, now, kept) == [at |-> pc, now |-> now, kept |-> kept]
Goto(r, where) == request' = [request EXCEPT ![r] = where]
Done(pc) == Busy(pc, 0, {})

Init ==
  /\ route = TRUE
  /\ calls = [time |-> 0, history |-> {}]
  /\ request = [r \in Request |-> Done("idle")]
  /\ past = [through |-> {}, beside |-> {}, logged |-> FALSE]

Tick ==
  /\ calls.time < MaxTime
  /\ calls' = [calls EXCEPT !.time = @ + 1]
  /\ UNCHANGED <<route, request, past>>

(* toggle_ai_route. *)
Toggle ==
  /\ route # None
  /\ route' = ~route
  /\ UNCHANGED <<calls, request, past>>

(* delete_ai_route: the foreign key of a log refuses it. *)
Delete ==
  /\ route # None
  /\ ~past.logged
  /\ route' = None
  /\ UNCHANGED <<calls, request, past>>

InLimiter(r) == request[r].at \in {"keep", "count", "append"}

(* ai_gateway_chat finds the route, and call_route that it is enabled. *)
Enter(r) ==
  /\ request[r].at = "idle"
  /\ route # None
  /\ IF route
       THEN /\ Goto(r, Busy("keep", calls.time,
                         {c \in calls.history : c[2] + Window > calls.time}))
            /\ LET others == {q \in Request \ {r} : InLimiter(q)}
               IN  past' = IF others = {} THEN past
                           ELSE [past EXCEPT !.beside = @ \cup {r} \cup others]
       ELSE Goto(r, Done("log")) /\ UNCHANGED past
  /\ UNCHANGED <<route, calls>>

(* What it kept replaces the list: what others appended meanwhile is lost. *)
Keep(r) ==
  /\ request[r].at = "keep"
  /\ calls' = [calls EXCEPT !.history = request[r].kept]
  /\ Goto(r, Busy("count", request[r].now, {}))
  /\ UNCHANGED <<route, past>>

(* Mutant: one more than the limit. *)
CountOneMore(r) ==
  /\ request[r].at = "count"
  /\ Goto(r, IF Cardinality(calls.history) > Limit THEN Done("log")
             ELSE Busy("append", request[r].now, {}))
  /\ UNCHANGED <<route, calls, past>>

Count(r) ==
  /\ request[r].at = "count"
  /\ Goto(r, IF Cardinality(calls.history) >= Limit THEN Done("log")
             ELSE Busy("append", request[r].now, {}))
  /\ UNCHANGED <<route, calls, past>>

Append(r) ==
  /\ request[r].at = "append"
  /\ calls' = [calls EXCEPT !.history = @ \cup {<<r, request[r].now>>}]
  /\ past' = [past EXCEPT !.through = @ \cup {<<r, request[r].now>>}]
  /\ Goto(r, Done("log"))
  /\ UNCHANGED route

(* The provider has answered or failed, or there was no call; the log refers to
   the route, and is refused if that is gone. *)
Log(r) ==
  /\ request[r].at = "log"
  /\ past' = IF route = None THEN past ELSE [past EXCEPT !.logged = TRUE]
  /\ Goto(r, Done("ended"))
  /\ UNCHANGED <<route, calls>>

Crash ==
  /\ "crash" \in Faults
  /\ \E r \in Request : request[r].at \notin {"idle", "ended"}
  /\ calls' = [calls EXCEPT !.history = {}]
  /\ request' = [r \in Request |->
       IF request[r].at = "idle" THEN Done("idle") ELSE Done("ended")]
  /\ past' = [past EXCEPT !.through = {}]
  /\ UNCHANGED route

Next ==
  \/ \E r \in Request : Enter(r) \/ Keep(r) \/ Count(r) \/ Append(r) \/ Log(r)
  \/ Tick \/ Toggle \/ Delete \/ Crash

Spec == Init /\ [][Next]_vars
-----------------------------------------------------------------------------
(* In every window, the calls that were let through while no other request was
   in the limiter are no more than requests_per_minute: such a call is never
   lost from the list, whatever others do at once (ai_gateway.py 24-27).  For
   the calls of one process; a restart forgets. *)
RateKept ==
  \A c \in past.through :
    Cardinality({d \in past.through : d[1] \notin past.beside /\ d[2] <= c[2]
                                       /\ d[2] + Window > c[2]}) <= Limit
-----------------------------------------------------------------------------
(* The inductive invariant. *)
Calls == Request \X Nat
Requests == [at : {"idle", "keep", "count", "append", "log", "ended"}, now : Nat,
             kept : SUBSET Calls]

TypeInv ==
  /\ calls \in [time : Nat, history : SUBSET Calls]
  /\ request \in [Request -> Requests]
  /\ past \in [through : SUBSET Calls, beside : SUBSET Request, logged : BOOLEAN]
  /\ IsFiniteSet(calls.history) /\ IsFiniteSet(past.through)
  /\ \A r \in Request : IsFiniteSet(request[r].kept)
  /\ \A r \in Request : InLimiter(r) => request[r].now <= calls.time

(* Calls that ran alone in the limiter, and still count at time t. *)
Counting(t) == {d \in past.through : d[1] \notin past.beside /\ d[2] + Window > t}
InWindow(t) == {d \in Counting(t) : d[2] <= t}

(* Of two in the limiter neither runs alone. *)
BesideEachOther ==
  \A q, r \in Request : InLimiter(q) /\ InLimiter(r) /\ q # r => r \in past.beside

(* Who is to replace the list has kept all calls that count; who has replaced it
   and runs alone finds them there, and room for his own. *)
FindsAll(r) ==
  /\ request[r].at = "keep" => Counting(request[r].now) \subseteq request[r].kept
  /\ request[r].at \in {"count", "append"} /\ r \notin past.beside =>
       Counting(request[r].now) \subseteq calls.history
  /\ request[r].at = "append" /\ r \notin past.beside => Cardinality(calls.history) < Limit

NoneLost ==
  /\ Counting(calls.time) \subseteq calls.history
  /\ \A r \in Request : FindsAll(r)

(* In the window that ends at any time, not only at a call. *)
WindowsKept == \A t \in Nat : Cardinality(InWindow(t)) <= Limit

GatewayInv == TypeInv /\ BesideEachOther /\ NoneLost /\ WindowsKept
=============================================================================
