------------------------------ MODULE Serving ------------------------------
(***************************************************************************)
(* Model serving (backend/app/main.py 2109-2173): rows that say which model *)
(* is served on which port, and the `mlflow models serve` processes that    *)
(* the backend has started.                                                 *)
(***************************************************************************)
EXTENDS FiniteSets

CONSTANTS
  Request,  \* requests, each of which does one thing
  Model,    \* model names
  Port,     \* ports the kernel may hand out
  None,     \* no row, no port
  Faults    \* "crash": the container dies; "dies": a server does

VARIABLES
  deployment, \* models.ModelDeployment of each model: who deployed it, on which port
  servers,    \* the processes: who started it, for which model, on which port, and
              \* whether it listens yet
  request,    \* where each request is
  past        \* deployments refused after their server was started, servers that
              \* died or were killed, ports bound twice before any listened

vars == <<deployment, servers, request, past>>

Idle == [at |-> "idle"]
Ended == [at |-> "ended"]
At(pc, model, by, port) == [at |-> pc, model |-> model, by |-> by, port |-> port]

Init ==
  /\ deployment = [m \in Model |-> None]
  /\ servers = {}
  /\ request = [r \in Request |-> Idle]
  /\ past = [refused |-> {}, gone |-> {}, twice |-> {}]

Goto(r, where) == request' = [request EXCEPT ![r] = where]

(* Ports of servers that do not listen yet, or are still to be started. *)
Promised ==
  {s.port : s \in {t \in servers : ~t.up}}
    \cup {request[r].port : r \in {q \in Request : request[q].at = "start"}}

(* deploy_model: the model has no row. *)
Check(r, m) ==
  /\ request[r] = Idle
  /\ deployment[m] = None
  /\ Goto(r, At("bind", m, r, None))
  /\ UNCHANGED <<deployment, servers, past>>

(* Mutant: a port of its own for the model, whoever listens there. *)
BindAnyPort(r) ==
  /\ request[r].at = "bind"
  /\ \E port \in Port :
       /\ Goto(r, At("start", request[r].model, r, port))
       /\ past' = [past EXCEPT !.twice = IF port \in Promised THEN @ \cup {port} ELSE @]
  /\ UNCHANGED <<deployment, servers>>

(* A socket is bound to a free port, and closed. *)
Bind(r) ==
  /\ request[r].at = "bind"
  /\ \E port \in Port :
       /\ \A s \in servers : s.up => s.port # port
       /\ Goto(r, At("start", request[r].model, r, port))
       /\ past' = [past EXCEPT !.twice = IF port \in Promised THEN @ \cup {port} ELSE @]
  /\ UNCHANGED <<deployment, servers>>

(* Popen. *)
Start(r) ==
  /\ request[r].at = "start"
  /\ servers' = servers \cup
       {[by |-> r, model |-> request[r].model, port |-> request[r].port, up |-> FALSE]}
  /\ Goto(r, [request[r] EXCEPT !.at = "insert"])
  /\ UNCHANGED <<deployment, past>>

(* The row; the model's name is unique. *)
Insert(r) ==
  /\ request[r].at = "insert"
  /\ LET m == request[r].model
     IN  IF deployment[m] = None
           THEN /\ deployment' = [deployment EXCEPT ![m] = [by |-> r, port |-> request[r].port]]
                /\ UNCHANGED past
           ELSE /\ past' = [past EXCEPT !.refused = @ \cup {r}]
                /\ UNCHANGED deployment
  /\ Goto(r, Ended)
  /\ UNCHANGED servers

(* The model is loaded, and the server listens, or ends because the port is
   taken. *)
Listen(s) ==
  /\ ~s.up
  /\ servers' = IF \E t \in servers : t.up /\ t.port = s.port THEN servers \ {s}
                ELSE (servers \ {s}) \cup {[s EXCEPT !.up = TRUE]}
  /\ UNCHANGED <<deployment, request, past>>

(* stop_deployment: the process of the row is killed, if there still is one. *)
LoadStop(r, m) ==
  /\ request[r] = Idle
  /\ deployment[m] # None
  /\ Goto(r, At("kill", m, deployment[m].by, None))
  /\ UNCHANGED <<deployment, servers, past>>

Kill(r) ==
  /\ request[r].at = "kill"
  /\ servers' = {s \in servers : s.by # request[r].by}
  /\ past' = [past EXCEPT !.gone = @ \cup {request[r].by}]
  /\ Goto(r, [request[r] EXCEPT !.at = "delete"])
  /\ UNCHANGED deployment

(* Then the row goes, if it is still the one that was loaded. *)
DeleteRow(r) ==
  /\ request[r].at = "delete"
  /\ LET m == request[r].model
     IN  deployment' = [deployment EXCEPT ![m] =
           IF @ # None /\ @.by = request[r].by THEN None ELSE @]
  /\ Goto(r, Ended)
  /\ UNCHANGED <<servers, past>>

Dies(s) ==
  /\ "dies" \in Faults
  /\ servers' = servers \ {s}
  /\ past' = [past EXCEPT !.gone = @ \cup {s.by}]
  /\ UNCHANGED <<deployment, request>>

(* With the container all its processes die; the rows stay. *)
Crash ==
  /\ "crash" \in Faults
  /\ servers # {}
  /\ servers' = {}
  /\ past' = [past EXCEPT !.gone = @ \cup {s.by : s \in servers}]
  /\ request' = [r \in Request |-> IF request[r] = Idle THEN Idle ELSE Ended]
  /\ UNCHANGED deployment

Next ==
  \/ \E r \in Request :
       \/ \E m \in Model : Check(r, m) \/ LoadStop(r, m)
       \/ Bind(r) \/ Start(r) \/ Insert(r) \/ Kill(r) \/ DeleteRow(r)
  \/ \E s \in servers : Listen(s) \/ Dies(s)
  \/ Crash

Spec == Init /\ [][Next]_vars
-----------------------------------------------------------------------------
(* predict: whoever listens on the row's port answers. *)
Answers(m, s) == deployment[m] # None /\ s.up /\ s.port = deployment[m].port

(* A prediction comes from the server that was started for the row, unless that
   server died or was killed and its port was handed out again, or two deployments were
   given one port before either listened (main.py 2125-2132). *)
PredictsOwn ==
  \A m \in Model, s \in servers : Answers(m, s) =>
    \/ s.by = deployment[m].by
    \/ deployment[m].by \in past.gone
    \/ s.port \in past.twice

(* A server that no row names is about to get one, or its deployment was
   refused because another of the same model overtook it: nobody can stop it
   then (main.py 2122, 2134-2139). *)
ServersNamed ==
  \A s \in servers :
    \/ deployment[s.model] # None /\ deployment[s.model].by = s.by
    \/ request[s.by].at = "insert"
    \/ s.by \in past.refused

OwnServer == PredictsOwn /\ ServersNamed
-----------------------------------------------------------------------------
(* The inductive invariant. *)
Busy == [at : {"bind", "start", "insert", "kill", "delete"}, model : Model, by : Request,
         port : Port \cup {None}]
Rows == [by : Request, port : Port]
Servers == [by : Request, model : Model, port : Port, up : BOOLEAN]

TypeInv ==
  /\ deployment \in [Model -> Rows \cup {None}]
  /\ servers \in SUBSET Servers
  /\ request \in [Request -> {Idle, Ended} \cup Busy]
  /\ past \in [refused : SUBSET Request, gone : SUBSET Request, twice : SUBSET Port]
  /\ \A r \in Request : request[r].at \in {"start", "insert"} => request[r].port \in Port

Starting(r, port) == request[r].at = "start" /\ request[r].port = port

(* A port is one server's, started or about to be, unless it was bound twice. *)
PortsApart ==
  \A port \in Port \ past.twice :
    /\ \A s, t \in servers : s.port = port /\ t.port = port => s = t
    /\ \A r \in Request : Starting(r, port) =>
         /\ \A s \in servers : s.port # port
         /\ \A q \in Request : Starting(q, port) => q = r

Serves(by, port) == \E s \in servers : s.by = by /\ s.port = port

(* The server of a row, and of one about to be inserted, runs until it is killed or
   dies. *)
ServerRuns ==
  /\ \A m \in Model : deployment[m] # None =>
       \/ Serves(deployment[m].by, deployment[m].port)
       \/ deployment[m].by \in past.gone
       \/ deployment[m].port \in past.twice
  /\ \A r \in Request : request[r].at = "insert" =>
       \/ Serves(r, request[r].port)
       \/ r \in past.gone
       \/ request[r].port \in past.twice

(* Who has a row, was refused one, or is being stopped, is done with the deployment;
   and once killed, he has no server. *)
OwnersEnded ==
  /\ \A m \in Model : deployment[m] # None => request[deployment[m].by] = Ended
  /\ \A r \in past.refused : request[r] = Ended
  /\ \A r \in Request : request[r].at \in {"kill", "delete"} =>
       request[request[r].by] = Ended
  /\ \A r \in Request, s \in servers :
       /\ request[r].at = "delete" => s.by # request[r].by
       /\ request[r].at = "insert" /\ s.by = r => s.model = request[r].model

ServingInv == TypeInv /\ PortsApart /\ ServerRuns /\ OwnersEnded /\ ServersNamed
=============================================================================
