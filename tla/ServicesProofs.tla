--------------------------- MODULE ServicesProofs ---------------------------
(***************************************************************************)
(* What runs on beside the requests, for any number of them: servers and    *)
(* their rows, incidents and their notifications, the rate of a route, and  *)
(* the workers of a host.                                                   *)
(***************************************************************************)
EXTENDS MCComponents, FiniteSetTheorems, SequenceTheorems, TLAPS

-----------------------------------------------------------------------------
LEMMA ServingStarts == serving!Init => serving!ServingInv
BY NoneAssumption
DEF serving!Init, serving!ServingInv, serving!TypeInv, serving!PortsApart,
    serving!Starting, serving!ServerRuns, serving!OwnersEnded, serving!ServersNamed,
    serving!Idle

(* A step of one request that starts and ends no server. *)
LEMMA ServingKeeps ==
  ASSUME serving!ServingInv, UNCHANGED <<row, thing>>,
         past'.gone = past.gone, past'.refused = past.refused,
         past.twice \subseteq past'.twice,
         past' \in [refused : SUBSET Request, gone : SUBSET Request, twice : SUBSET Port],
         NEW r \in Request, NEW where \in {serving!Ended} \cup serving!Busy,
         serving!Goto(r, where), request[r] # serving!Ended, request[r].at # "insert",
         where.at \in {"bind", "start", "kill"},
         where.at = "start" /\ where.port \notin past'.twice =>
           /\ \A s \in thing : s.port # where.port
           /\ \A q \in Request : ~serving!Starting(q, where.port),
         where.at = "start" => where.port \in Port,
         where.at = "kill" => request[where.by] = serving!Ended
  PROVE  serving!ServingInv'
<1>t. serving!TypeInv /\ serving!PortsApart /\ serving!ServerRuns /\ serving!OwnersEnded /\ serving!ServersNamed
  BY DEF serving!ServingInv
<1>1. /\ request'[r] = where
      /\ \A q \in Request \ {r} : request'[q] = request[q]
  BY <1>t DEF serving!TypeInv, serving!Goto
<1>2. serving!TypeInv'
  BY <1>t, <1>1 DEF serving!TypeInv, serving!Goto
<1>3. serving!PortsApart'
  <2> SUFFICES ASSUME NEW port \in Port \ past'.twice
               PROVE  /\ \A s, t \in thing : s.port = port /\ t.port = port => s = t
                      /\ \A q \in Request : serving!Starting(q, port)' =>
                           /\ \A s \in thing : s.port # port
                           /\ \A x \in Request : serving!Starting(x, port)' => x = q
    BY DEF serving!PortsApart
  <2>1. \A q \in Request : serving!Starting(q, port)' =>
          serving!Starting(q, port) \/ (q = r /\ where.at = "start" /\ where.port = port)
    BY <1>1 DEF serving!Starting
  <2> QED
    BY <1>t, <2>1 DEF serving!PortsApart
<1>4. serving!ServerRuns'
  BY <1>t, <1>1 DEF serving!ServerRuns, serving!Serves
<1>5. \A q \in Request : request[q] = serving!Ended => request'[q] = serving!Ended
  BY <1>1
<1>6. serving!OwnersEnded'
  <2>1. /\ \A m \in Model : row'[m] # None => request'[row'[m].by] = serving!Ended
        /\ \A q \in past'.refused : request'[q] = serving!Ended
    BY <1>t, <1>5 DEF serving!OwnersEnded, serving!TypeInv, serving!Rows
  <2>2. \A q \in Request \ {r} : request[q].at \in {"kill", "delete"} =>
          request[q].by \in Request /\ request[request[q].by] = serving!Ended
    BY <1>t
    DEF serving!OwnersEnded, serving!TypeInv, serving!Busy, serving!Idle, serving!Ended
  <2>3. where.at = "kill" => where.by \in Request
    BY DEF serving!Busy, serving!Ended
  <2>4. \A q \in Request : request'[q].at \in {"kill", "delete"} =>
          request'[request'[q].by] = serving!Ended
    BY <1>1, <1>5, <2>2, <2>3
  <2> QED
    BY <1>t, <1>1, <2>1, <2>4 DEF serving!OwnersEnded
<1>7. serving!ServersNamed'
  BY <1>t, <1>1 DEF serving!ServersNamed, serving!TypeInv, serving!Servers
<1> QED
  BY <1>2, <1>3, <1>4, <1>6, <1>7 DEF serving!ServingInv

LEMMA ServingStep == serving!ServingInv /\ [serving!Next]_(serving!vars) => serving!ServingInv'
<1> SUFFICES ASSUME serving!ServingInv, [serving!Next]_(serving!vars)
             PROVE  serving!ServingInv'
  OBVIOUS
<1>t. serving!TypeInv /\ serving!PortsApart /\ serving!ServerRuns /\ serving!OwnersEnded /\ serving!ServersNamed
  BY DEF serving!ServingInv
<1>a. \A r \in Request : request[r] = serving!Idle => request[r] # serving!Ended /\ request[r].at # "insert"
  BY DEF serving!Idle, serving!Ended
<1>b. \A r \in Request : request[r].at \in {"bind", "start", "insert", "kill", "delete"}
                           => request[r] \in serving!Busy /\ request[r] # serving!Ended
  BY <1>t DEF serving!TypeInv, serving!Idle, serving!Ended
<1>1. ASSUME NEW r \in Request, NEW m \in Model, serving!Check(r, m) PROVE serving!ServingInv'
  <2> DEFINE where == serving!At("bind", m, r, None)
  <2>1. where \in serving!Busy /\ where.at = "bind"
    BY DEF serving!At, serving!Busy
  <2>2. /\ serving!Goto(r, where) /\ UNCHANGED <<row, thing, past>> /\ request[r] # serving!Ended
        /\ request[r].at # "insert"
    BY <1>1, <1>a DEF serving!Check
  <2> HIDE DEF where
  <2> QED
    BY <1>t, <2>1, <2>2, ServingKeeps DEF serving!TypeInv
<1>2. ASSUME NEW r \in Request, NEW m \in Model, serving!LoadStop(r, m) PROVE serving!ServingInv'
  <2> DEFINE where == serving!At("kill", m, row[m].by, None)
  <2>1. where \in serving!Busy /\ where.at = "kill" /\ where.by = row[m].by
    BY <1>2, <1>t
    DEF serving!LoadStop, serving!TypeInv, serving!Rows, serving!At, serving!Busy
  <2>2. /\ serving!Goto(r, where) /\ UNCHANGED <<row, thing, past>> /\ request[r] # serving!Ended
        /\ request[r].at # "insert"
    BY <1>2, <1>a DEF serving!LoadStop
  <2>3. request[where.by] = serving!Ended
    BY <1>2, <1>t, <2>1 DEF serving!LoadStop, serving!OwnersEnded
  <2> HIDE DEF where
  <2> QED
    BY <1>t, <2>1, <2>2, <2>3, ServingKeeps DEF serving!TypeInv
<1>3. ASSUME NEW r \in Request, serving!Bind(r) PROVE serving!ServingInv'
  <2>1. PICK port \in Port :
          /\ \A s \in thing : s.up => s.port # port
          /\ serving!Goto(r, serving!At("start", request[r].model, r, port))
          /\ past' = [past EXCEPT !.twice = IF port \in serving!Promised THEN @ \cup {port} ELSE @]
    BY <1>3 DEF serving!Bind
  <2> DEFINE where == serving!At("start", request[r].model, r, port)
  <2>2. request[r].at = "bind" /\ request[r] \in serving!Busy /\ request[r] # serving!Ended
    BY <1>3, <1>b DEF serving!Bind
  <2>3. where \in serving!Busy /\ where.at = "start" /\ where.port = port
    BY <2>2 DEF serving!At, serving!Busy
  <2>4. /\ past' \in [refused : SUBSET Request, gone : SUBSET Request, twice : SUBSET Port]
        /\ past'.gone = past.gone /\ past'.refused = past.refused
        /\ past.twice \subseteq past'.twice
        /\ port \in serving!Promised => port \in past'.twice
    BY <1>t, <2>1 DEF serving!TypeInv
  <2>5. port \notin serving!Promised => /\ \A s \in thing : s.port # port
                                /\ \A q \in Request : ~serving!Starting(q, port)
    BY <2>1 DEF serving!Promised, serving!Starting
  <2> HIDE DEF where
  <2> QED
    BY <1>3, <2>1, <2>2, <2>3, <2>4, <2>5, ServingKeeps DEF serving!Bind, where
<1>4. ASSUME NEW r \in Request, serving!Start(r) PROVE serving!ServingInv'
  <2> DEFINE new == [by |-> r, model |-> request[r].model, port |-> request[r].port,
                     up |-> FALSE]
  <2>1. /\ request[r].at = "start" /\ request[r] \in serving!Busy /\ request[r].port \in Port
        /\ thing' = thing \cup {new} /\ UNCHANGED <<row, past>>
    BY <1>4, <1>t, <1>b DEF serving!Start, serving!TypeInv
  <2>2. new \in serving!Servers
    BY <2>1 DEF serving!Servers, serving!Busy
  <2>3. /\ request'[r] = [request[r] EXCEPT !.at = "insert"]
        /\ \A q \in Request \ {r} : request'[q] = request[q]
        /\ request'[r] \in serving!Busy /\ request'[r].at = "insert"
        /\ request'[r].port = request[r].port /\ request'[r].model = request[r].model
    BY <1>4, <1>t, <2>1 DEF serving!Start, serving!Goto, serving!TypeInv, serving!Busy
  <2>4. new.by = r /\ new.port = request[r].port /\ new.model = request[r].model
    OBVIOUS
  <2> HIDE DEF new
  <2>5. serving!TypeInv'
    BY <1>4, <1>t, <2>1, <2>2, <2>3 DEF serving!TypeInv, serving!Start, serving!Goto
  <2>6. serving!PortsApart'
    <3>1. \A q \in Request, port \in Port : serving!Starting(q, port)' => serving!Starting(q, port) /\ q # r
      BY <2>3 DEF serving!Starting
    <3>2. \A port \in Port \ past.twice : new.port = port =>
            /\ serving!Starting(r, port)
            /\ \A s \in thing : s.port # port
      BY <1>t, <2>1, <2>4 DEF serving!PortsApart, serving!Starting
    <3> QED
      BY <1>t, <2>1, <3>1, <3>2 DEF serving!PortsApart
  <2>7. \A by, port : serving!Serves(by, port) => serving!Serves(by, port)'
    BY <2>1 DEF serving!Serves
  <2>8. serving!Serves(r, request[r].port)'
    BY <2>1, <2>3, <2>4 DEF serving!Serves
  <2>9. serving!ServerRuns'
    BY <1>t, <2>1, <2>3, <2>7, <2>8 DEF serving!ServerRuns
  <2>10. \A q \in Request : request[q] = serving!Ended => request'[q] = serving!Ended /\ q # r
    BY <1>b, <2>1, <2>3
  <2>11. serving!OwnersEnded'
    <3>1. /\ \A m \in Model : row'[m] # None => request'[row'[m].by] = serving!Ended
          /\ \A q \in past'.refused : request'[q] = serving!Ended
      BY <1>t, <2>1, <2>10 DEF serving!OwnersEnded, serving!TypeInv, serving!Rows
    <3>2. \A q \in Request : request'[q].at \in {"kill", "delete"} =>
            /\ request'[q] = request[q] /\ request[q] \in serving!Busy
            /\ request[request[q].by] = serving!Ended
      BY <1>t, <1>b, <2>3 DEF serving!OwnersEnded
    <3>3. \A q \in Request : request'[q].at \in {"kill", "delete"} =>
            request'[request'[q].by] = serving!Ended /\ request'[q].by # r
      BY <2>10, <3>2 DEF serving!Busy
    <3>4. \A q \in Request, s \in thing' :
            /\ request'[q].at = "delete" => s.by # request'[q].by
            /\ request'[q].at = "insert" /\ s.by = q => s.model = request'[q].model
      <4>1. \A s \in thing : s.by # r
        BY <1>t, <2>1, <2>10
        DEF serving!ServersNamed, serving!OwnersEnded, serving!TypeInv, serving!Servers
      <4>2. ASSUME NEW q \in Request
            PROVE  /\ request'[q].at = "delete" => r # request'[q].by
                   /\ request'[q].at = "insert" /\ q = r => new.model = request'[q].model
        BY <2>3, <2>4, <3>3
      <4>3. ASSUME NEW q \in Request, NEW s \in thing
            PROVE  /\ request'[q].at = "delete" => s.by # request'[q].by
                   /\ request'[q].at = "insert" /\ s.by = q => s.model = request'[q].model
        <5>1. CASE q = r
          BY <2>3, <4>1, <5>1
        <5>2. CASE q # r
          <6>1. request'[q] = request[q]
            BY <2>3, <5>2
          <6>2. /\ request[q].at = "delete" => s.by # request[q].by
                /\ request[q].at = "insert" /\ s.by = q => s.model = request[q].model
            BY <1>t DEF serving!OwnersEnded
          <6> QED
            BY <6>1, <6>2
        <5> QED
          BY <5>1, <5>2
      <4> QED
        BY <2>1, <2>4, <4>2, <4>3
    <3> QED
      BY <3>1, <3>3, <3>4 DEF serving!OwnersEnded
  <2>12. serving!ServersNamed'
    <3>1. \A s \in thing : s.by \in Request /\ (request[s.by].at = "insert" => s.by # r)
      BY <1>t, <2>1 DEF serving!TypeInv, serving!Servers
    <3> QED
      BY <1>t, <2>1, <2>3, <2>4, <3>1 DEF serving!ServersNamed
  <2> QED
    BY <2>5, <2>6, <2>9, <2>11, <2>12 DEF serving!ServingInv
<1>5. ASSUME NEW r \in Request, serving!Insert(r) PROVE serving!ServingInv'
  <2>1. PICK m \in Model : m = request[r].model
    BY <1>5, <1>b DEF serving!Insert, serving!Busy
  <2>2. /\ request[r].at = "insert" /\ request[r].port \in Port /\ thing' = thing
        /\ request'[r] = serving!Ended /\ request'[r].at = "ended"
        /\ \A q \in Request \ {r} : request'[q] = request[q]
        /\ request' \in [Request -> {serving!Idle, serving!Ended} \cup serving!Busy]
    BY <1>5, <1>t DEF serving!Insert, serving!TypeInv, serving!Goto, serving!Ended
  <2>3. \/ /\ row[m] = None /\ past' = past
           /\ row' = [row EXCEPT ![m] = [by |-> r, port |-> request[r].port]]
        \/ past' = [past EXCEPT !.refused = @ \cup {r}] /\ row' = row
    BY <1>5, <2>1 DEF serving!Insert
  <2>4. /\ row' \in [Model -> serving!Rows \cup {None}]
        /\ past' \in [refused : SUBSET Request, gone : SUBSET Request, twice : SUBSET Port]
        /\ past'.gone = past.gone /\ past'.twice = past.twice
        /\ past'.refused \subseteq past.refused \cup {r} /\ past.refused \subseteq past'.refused
    BY <1>t, <2>2, <2>3 DEF serving!TypeInv, serving!Rows
  <2>5. serving!TypeInv'
    BY <1>t, <2>2, <2>4 DEF serving!TypeInv
  <2>6. serving!PortsApart'
    BY <1>t, <2>2, <2>4 DEF serving!PortsApart, serving!Starting
  <2>7. \A n \in Model : row'[n] # None =>
          \/ row'[n] = row[n]
          \/ row'[n].by = r /\ row'[n].port = request[r].port
    BY <1>t, <2>3 DEF serving!TypeInv
  <2>8. serving!ServerRuns'
    BY <1>t, <2>2, <2>4, <2>7 DEF serving!ServerRuns, serving!Serves
  <2>9. \A q \in Request : request[q] = serving!Ended => request'[q] = serving!Ended
    BY <2>2
  <2>10. serving!OwnersEnded'
    <3>1. /\ \A n \in Model : row'[n] # None => request'[row'[n].by] = serving!Ended
          /\ \A q \in past'.refused : request'[q] = serving!Ended
      BY <1>t, <2>2, <2>4, <2>7, <2>9
      DEF serving!OwnersEnded, serving!TypeInv, serving!Rows
    <3>2. \A q \in Request : request'[q].at \in {"kill", "delete"} =>
            /\ request'[q] = request[q] /\ request[q] \in serving!Busy
            /\ request[request[q].by] = serving!Ended
      BY <1>t, <1>b, <2>2 DEF serving!OwnersEnded
    <3>3. \A q \in Request : request'[q].at \in {"kill", "delete"} =>
            request'[request'[q].by] = serving!Ended
      BY <2>9, <3>2 DEF serving!Busy
    <3> QED
      BY <1>t, <2>2, <3>1, <3>3 DEF serving!OwnersEnded
  <2>11. serving!ServersNamed'
    <3> SUFFICES ASSUME NEW s \in thing
                 PROVE  \/ row'[s.model] # None /\ row'[s.model].by = s.by
                        \/ request'[s.by].at = "insert"
                        \/ s.by \in past'.refused
      BY <2>2 DEF serving!ServersNamed
    <3>1. s.model \in Model /\ s.by \in Request
      BY <1>t DEF serving!TypeInv, serving!Servers
    <3>2. CASE s.by = r
      <4>1. s.model = m
        BY <1>t, <2>1, <2>2, <3>2 DEF serving!OwnersEnded
      <4>2. CASE row' = [row EXCEPT ![m] = [by |-> r, port |-> request[r].port]]
        <5>1. row'[m] = [by |-> r, port |-> request[r].port]
          BY <1>t, <4>2 DEF serving!TypeInv
        <5>2. row'[m] # None
          BY <2>2, <5>1, NoneAssumption
        <5> QED
          BY <3>2, <4>1, <5>1, <5>2
      <4>3. CASE past' = [past EXCEPT !.refused = @ \cup {r}]
        BY <1>t, <3>2, <4>3 DEF serving!TypeInv
      <4> QED
        BY <2>3, <4>2, <4>3
    <3>3. CASE s.by # r
      <4>1. row[s.model] # None => row'[s.model] = row[s.model]
        BY <1>t, <2>3, <3>1 DEF serving!TypeInv
      <4> QED
        BY <1>t, <2>2, <2>4, <3>1, <3>3, <4>1 DEF serving!ServersNamed
    <3> QED
      BY <3>2, <3>3
  <2> QED
    BY <2>5, <2>6, <2>8, <2>10, <2>11 DEF serving!ServingInv
<1>6. ASSUME NEW s \in thing, serving!Listen(s) PROVE serving!ServingInv'
  <2>1. UNCHANGED <<row, request, past>> /\ ~s.up
    BY <1>6 DEF serving!Listen
  <2>2. CASE \E t \in thing : t.up /\ t.port = s.port
    <3>1. thing' = thing \ {s} /\ thing' \subseteq thing
      BY <1>6, <2>2 DEF serving!Listen
    <3>2. s.port \in past.twice
      BY <1>t, <2>1, <2>2 DEF serving!PortsApart, serving!TypeInv, serving!Servers
    <3>3. serving!ServerRuns'
      BY <1>t, <2>1, <3>1, <3>2 DEF serving!ServerRuns, serving!Serves
    <3>4. serving!TypeInv' /\ serving!PortsApart'
      BY <1>t, <2>1, <3>1 DEF serving!TypeInv, serving!PortsApart, serving!Starting
    <3>5. serving!OwnersEnded' /\ serving!ServersNamed'
      BY <1>t, <2>1, <3>1 DEF serving!OwnersEnded, serving!ServersNamed
    <3> QED
      BY <3>3, <3>4, <3>5 DEF serving!ServingInv
  <2>3. CASE ~\E t \in thing : t.up /\ t.port = s.port
    <3> DEFINE new == [s EXCEPT !.up = TRUE]
    <3>1. thing' = (thing \ {s}) \cup {new}
      BY <1>6, <2>3 DEF serving!Listen
    <3>2. new \in serving!Servers /\ new.by = s.by /\ new.model = s.model /\ new.port = s.port
      BY <1>t DEF serving!TypeInv, serving!Servers
    <3> HIDE DEF new
    <3>3. serving!TypeInv'
      BY <1>t, <2>1, <3>1, <3>2 DEF serving!TypeInv
    <3>4. serving!PortsApart'
      BY <1>t, <2>1, <3>1, <3>2 DEF serving!PortsApart, serving!Starting
    <3>5. \A by, port : serving!Serves(by, port) => serving!Serves(by, port)'
      BY <3>1, <3>2 DEF serving!Serves
    <3>6. serving!ServerRuns'
      BY <1>t, <2>1, <3>5 DEF serving!ServerRuns
    <3>7. \A t \in thing' : \E x \in thing : t.by = x.by /\ t.model = x.model
      BY <3>1, <3>2
    <3>8. serving!OwnersEnded' /\ serving!ServersNamed'
      BY <1>t, <2>1, <3>7 DEF serving!OwnersEnded, serving!ServersNamed
    <3> QED
      BY <3>3, <3>4, <3>6, <3>8 DEF serving!ServingInv
  <2> QED
    BY <2>2, <2>3
<1>7. ASSUME NEW r \in Request, serving!Kill(r) PROVE serving!ServingInv'
  <2>1. /\ request[r].at = "kill" /\ request[r] \in serving!Busy
        /\ thing' = {s \in thing : s.by # request[r].by} /\ row' = row
        /\ past' = [past EXCEPT !.gone = @ \cup {request[r].by}]
        /\ request' = [request EXCEPT ![r] = [request[r] EXCEPT !.at = "delete"]]
    BY <1>7, <1>b DEF serving!Kill, serving!Goto
  <2>2. /\ past' \in [refused : SUBSET Request, gone : SUBSET Request, twice : SUBSET Port]
        /\ past'.gone = past.gone \cup {request[r].by} /\ past'.twice = past.twice
        /\ past'.refused = past.refused
    BY <1>t, <2>1 DEF serving!TypeInv, serving!Busy
  <2>3. /\ request' \in [Request -> {serving!Idle, serving!Ended} \cup serving!Busy]
        /\ request'[r].at = "delete" /\ request'[r].by = request[r].by
        /\ \A q \in Request \ {r} : request'[q] = request[q]
    BY <1>t, <2>1 DEF serving!TypeInv, serving!Busy
  <2>4. serving!TypeInv'
    BY <1>t, <2>1, <2>2, <2>3 DEF serving!TypeInv
  <2>5. serving!PortsApart'
    BY <1>t, <2>1, <2>2, <2>3 DEF serving!PortsApart, serving!Starting
  <2>6. \A by, port : serving!Serves(by, port) => serving!Serves(by, port)' \/ by \in past'.gone
    BY <2>1, <2>2 DEF serving!Serves
  <2>7. serving!ServerRuns'
    BY <1>t, <2>1, <2>2, <2>3, <2>6 DEF serving!ServerRuns
  <2>8. request[request[r].by] = serving!Ended /\ request[r].by \in Request /\ request[r].by # r
    BY <1>t, <1>b, <2>1 DEF serving!OwnersEnded, serving!Busy
  <2>9. \A q \in Request : request[q] = serving!Ended => request'[q] = serving!Ended
    BY <1>b, <2>1, <2>3
  <2>10. serving!OwnersEnded'
    <3>1. /\ \A n \in Model : row'[n] # None => request'[row'[n].by] = serving!Ended
          /\ \A q \in past'.refused : request'[q] = serving!Ended
      BY <1>t, <2>1, <2>2, <2>9 DEF serving!OwnersEnded, serving!TypeInv, serving!Rows
    <3>2. \A q \in Request : request'[q].at \in {"kill", "delete"} =>
            request'[request'[q].by] = serving!Ended
      BY <1>t, <1>b, <2>3, <2>8, <2>9 DEF serving!OwnersEnded, serving!Busy
    <3>3. \A q \in Request, s \in thing' :
            /\ request'[q].at = "delete" => s.by # request'[q].by
            /\ request'[q].at = "insert" /\ s.by = q => s.model = request'[q].model
      BY <1>t, <2>1, <2>3 DEF serving!OwnersEnded
    <3> QED
      BY <3>1, <3>2, <3>3 DEF serving!OwnersEnded
  <2>11. serving!ServersNamed'
    BY <1>t, <2>1, <2>2, <2>3 DEF serving!ServersNamed, serving!TypeInv, serving!Servers
  <2> QED
    BY <2>4, <2>5, <2>7, <2>10, <2>11 DEF serving!ServingInv
<1>8. ASSUME NEW r \in Request, serving!DeleteRow(r) PROVE serving!ServingInv'
  <2>1. PICK m \in Model : m = request[r].model
    BY <1>8, <1>b DEF serving!DeleteRow, serving!Busy
  <2>2. /\ request[r].at = "delete" /\ UNCHANGED <<thing, past>>
        /\ request'[r] = serving!Ended /\ request'[r].at = "ended"
        /\ \A q \in Request \ {r} : request'[q] = request[q]
        /\ request' \in [Request -> {serving!Idle, serving!Ended} \cup serving!Busy]
    BY <1>8, <1>t DEF serving!DeleteRow, serving!TypeInv, serving!Goto, serving!Ended
  <2>3. /\ row' \in [Model -> serving!Rows \cup {None}]
        /\ \A n \in Model :
             \/ row'[n] = row[n]
             \/ row'[n] = None /\ row[n].by = request[r].by
    BY <1>8, <1>t, <2>1 DEF serving!DeleteRow, serving!TypeInv
  <2>4. serving!TypeInv'
    BY <1>t, <2>2, <2>3 DEF serving!TypeInv
  <2>5. serving!PortsApart'
    BY <1>t, <2>2 DEF serving!PortsApart, serving!Starting
  <2>6. serving!ServerRuns'
    BY <1>t, <2>2, <2>3 DEF serving!ServerRuns, serving!Serves
  <2>7. \A q \in Request : request[q] = serving!Ended => request'[q] = serving!Ended
    BY <2>2
  <2>8. serving!OwnersEnded'
    <3>1. /\ \A n \in Model : row'[n] # None => request'[row'[n].by] = serving!Ended
          /\ \A q \in past'.refused : request'[q] = serving!Ended
      BY <1>t, <2>2, <2>3, <2>7 DEF serving!OwnersEnded, serving!TypeInv, serving!Rows
    <3>2. \A q \in Request : request'[q].at \in {"kill", "delete"} =>
            request'[request'[q].by] = serving!Ended
      BY <1>t, <1>b, <2>2, <2>7 DEF serving!OwnersEnded, serving!Busy
    <3> QED
      BY <1>t, <2>2, <3>1, <3>2 DEF serving!OwnersEnded
  <2>9. serving!ServersNamed'
    <3>1. \A s \in thing :
            /\ s.by # request[r].by /\ s.model \in Model /\ s.by \in Request
            /\ request[s.by].at = "insert" => s.by # r
      BY <1>t, <2>2 DEF serving!OwnersEnded, serving!TypeInv, serving!Servers
    <3> QED
      BY <1>t, <2>2, <2>3, <3>1 DEF serving!ServersNamed
  <2> QED
    BY <2>4, <2>5, <2>6, <2>8, <2>9 DEF serving!ServingInv
<1>9. ASSUME NEW s \in thing, serving!Dies(s) PROVE serving!ServingInv'
  <2>1. /\ thing' = thing \ {s} /\ UNCHANGED <<row, request>>
        /\ past' = [past EXCEPT !.gone = @ \cup {s.by}]
    BY <1>9 DEF serving!Dies
  <2>2. /\ past' \in [refused : SUBSET Request, gone : SUBSET Request, twice : SUBSET Port]
        /\ past'.gone = past.gone \cup {s.by} /\ past'.twice = past.twice
        /\ past'.refused = past.refused
    BY <1>t, <2>1 DEF serving!TypeInv, serving!Servers
  <2>3. serving!TypeInv' /\ serving!PortsApart'
    BY <1>t, <2>1, <2>2 DEF serving!TypeInv, serving!PortsApart, serving!Starting
  <2>4. \A by, port : serving!Serves(by, port) => serving!Serves(by, port)' \/ by \in past'.gone
    BY <2>1, <2>2 DEF serving!Serves
  <2>5. serving!ServerRuns'
    BY <1>t, <2>1, <2>2, <2>4 DEF serving!ServerRuns
  <2>6. serving!OwnersEnded' /\ serving!ServersNamed'
    BY <1>t, <2>1, <2>2 DEF serving!OwnersEnded, serving!ServersNamed
  <2> QED
    BY <2>3, <2>5, <2>6 DEF serving!ServingInv
<1>10. ASSUME serving!Crash PROVE serving!ServingInv'
  <2>1. /\ thing' = {} /\ row' = row
        /\ past' = [past EXCEPT !.gone = @ \cup {s.by : s \in thing}]
        /\ request' = [r \in Request |-> IF request[r] = serving!Idle THEN serving!Idle ELSE serving!Ended]
    BY <1>10 DEF serving!Crash
  <2>2. /\ past' \in [refused : SUBSET Request, gone : SUBSET Request, twice : SUBSET Port]
        /\ past'.gone = past.gone \cup {s.by : s \in thing} /\ past'.twice = past.twice
        /\ past'.refused = past.refused
    BY <1>t, <2>1 DEF serving!TypeInv, serving!Servers
  <2>3. \A q \in Request : /\ request'[q] \in {serving!Idle, serving!Ended}
                           /\ request'[q].at \in {"idle", "ended"}
                           /\ request[q] = serving!Ended => request'[q] = serving!Ended
    BY <2>1 DEF serving!Idle, serving!Ended
  <2>4. serving!TypeInv' /\ serving!PortsApart'
    BY <1>t, <2>1, <2>2, <2>3 DEF serving!TypeInv, serving!PortsApart, serving!Starting
  <2>5. \A by, port : serving!Serves(by, port) => by \in past'.gone
    BY <2>2 DEF serving!Serves
  <2>6. serving!ServerRuns'
    BY <1>t, <2>1, <2>2, <2>3, <2>5 DEF serving!ServerRuns
  <2>7. serving!OwnersEnded' /\ serving!ServersNamed'
    BY <1>t, <2>1, <2>2, <2>3
    DEF serving!OwnersEnded, serving!ServersNamed, serving!TypeInv, serving!Rows
  <2> QED
    BY <2>4, <2>6, <2>7 DEF serving!ServingInv
<1>11. CASE UNCHANGED serving!vars
  <2>1. UNCHANGED <<row, thing, request, past>>
    BY <1>11 DEF serving!vars
  <2>2. serving!TypeInv' /\ serving!PortsApart' /\ serving!ServerRuns'
    BY <1>t, <2>1
    DEF serving!TypeInv, serving!PortsApart, serving!Starting, serving!ServerRuns,
        serving!Serves
  <2>3. serving!OwnersEnded' /\ serving!ServersNamed'
    BY <1>t, <2>1 DEF serving!OwnersEnded, serving!ServersNamed
  <2> QED
    BY <2>2, <2>3 DEF serving!ServingInv
<1> QED
  BY <1>1, <1>2, <1>3, <1>4, <1>5, <1>6, <1>7, <1>8, <1>9, <1>10, <1>11 DEF serving!Next

(* The server of a row has its port to itself. *)
LEMMA ServingPredicts == serving!ServingInv => serving!OwnServer
<1> SUFFICES ASSUME serving!ServingInv
             PROVE  serving!PredictsOwn
  BY DEF serving!ServingInv, serving!OwnServer
<1> SUFFICES ASSUME NEW m \in Model, NEW s \in thing, serving!Answers(m, s),
                    row[m].by \notin past.gone, s.port \notin past.twice
             PROVE  s.by = row[m].by
  BY DEF serving!PredictsOwn
<1>1. PICK t \in thing : t.by = row[m].by /\ t.port = s.port
  BY DEF serving!Answers, serving!ServingInv, serving!ServerRuns, serving!Serves
<1>2. s.port \in Port
  BY DEF serving!ServingInv, serving!TypeInv, serving!Servers
<1>3. s = t
  BY <1>1, <1>2 DEF serving!ServingInv, serving!PortsApart
<1> QED
  BY <1>1, <1>3
-----------------------------------------------------------------------------
LEMMA AlertsStart == alerts!Init => alerts!AlertsInv
BY NoneAssumption
DEF alerts!Init, alerts!AlertsInv, alerts!TypeInv, alerts!Pc, alerts!Requests,
    alerts!ReadIsCurrent, alerts!NotifiesItsOwn, alerts!ToldPerIncident, alerts!At

(* A step that records and tells nothing, of requests that go on or are lost. *)
LEMMA AlertsKeep ==
  ASSUME alerts!AlertsInv, past' = past, request' \in [Client -> alerts!Requests],
         row' = row \/ row' = None,
         \A r \in Client :
           \/ request'[r] = request[r]
           \/ request'[r].at = "lost"
           \/ /\ request[r].at = "idle" /\ request'[r].at = "query"
              /\ request'[r].was = (row = "triggered")
           \/ /\ request[r].at = "query" /\ request'[r].at = "record"
              /\ request'[r].was = request[r].was
  PROVE  alerts!AlertsInv'
<1>1. alerts!TypeInv'
  BY DEF alerts!AlertsInv, alerts!TypeInv
<1>2. alerts!ReadIsCurrent'
  BY DEF alerts!AlertsInv, alerts!ReadIsCurrent
<1>3. alerts!NotifiesItsOwn'
  BY DEF alerts!AlertsInv, alerts!NotifiesItsOwn
<1>4. alerts!ToldPerIncident'
  BY DEF alerts!AlertsInv, alerts!ToldPerIncident
<1> QED
  BY <1>1, <1>2, <1>3, <1>4 DEF alerts!AlertsInv

LEMMA AlertsStep == alerts!AlertsInv /\ [alerts!Next]_(alerts!vars) => alerts!AlertsInv'
<1> SUFFICES ASSUME alerts!AlertsInv, [alerts!Next]_(alerts!vars)
             PROVE  alerts!AlertsInv'
  OBVIOUS
<1>t. alerts!TypeInv /\ alerts!ReadIsCurrent /\ alerts!NotifiesItsOwn /\ alerts!ToldPerIncident
  BY DEF alerts!AlertsInv
<1>1. ASSUME NEW r \in Client, alerts!Load(r) PROVE alerts!AlertsInv'
  <2>1. /\ UNCHANGED <<row, past>> /\ request[r].at = "idle"
        /\ request' = [request EXCEPT ![r] = alerts!At("query", row = "triggered", None)]
    BY <1>1 DEF alerts!Load
  <2>2. alerts!At("query", row = "triggered", None) \in alerts!Requests
    BY DEF alerts!At, alerts!Requests, alerts!Pc
  <2>3. request' \in [Client -> alerts!Requests]
    BY <1>t, <2>1, <2>2 DEF alerts!TypeInv
  <2>4. /\ request'[r].at = "query" /\ request'[r].was = (row = "triggered")
        /\ \A q \in Client \ {r} : request'[q] = request[q]
    BY <1>t, <2>1 DEF alerts!TypeInv, alerts!At
  <2> QED
    BY <2>1, <2>3, <2>4, AlertsKeep
<1>2. ASSUME NEW r \in Client, alerts!Query(r) PROVE alerts!AlertsInv'
  <2>1. PICK found \in alerts!Found :
          request' = [request EXCEPT ![r].at = "record", ![r].found = found]
    BY <1>2 DEF alerts!Query, alerts!Found
  <2>2. UNCHANGED <<row, past>> /\ request[r].at = "query"
    BY <1>2 DEF alerts!Query
  <2>2a. [request[r] EXCEPT !.at = "record", !.found = found] \in alerts!Requests
    BY <1>t DEF alerts!TypeInv, alerts!Requests, alerts!Pc
  <2>3. request' \in [Client -> alerts!Requests]
    BY <1>t, <2>1, <2>2a DEF alerts!TypeInv
  <2>4. /\ request'[r].at = "record" /\ request'[r].was = request[r].was
        /\ \A q \in Client \ {r} : request'[q] = request[q]
    BY <1>t, <2>1 DEF alerts!TypeInv, alerts!Requests
  <2> QED
    BY <2>2, <2>3, <2>4, AlertsKeep
<1>3. ASSUME NEW r \in Client, alerts!Record(r) PROVE alerts!AlertsInv'
  <2>1. CASE row = None
    <3>1. UNCHANGED <<row, past>> /\ request' = [request EXCEPT ![r].at = "lost"]
      BY <1>3, <2>1 DEF alerts!Record
    <3>2. request' \in [Client -> alerts!Requests] /\ request'[r].at = "lost"
          /\ \A q \in Client \ {r} : request'[q] = request[q]
      BY <1>t, <3>1 DEF alerts!TypeInv, alerts!Requests, alerts!Pc
    <3> QED
      BY <3>1, <3>2, AlertsKeep
  <2>2. CASE row # None
    <3> DEFINE pc == IF alerts!Notifies(r) THEN "notify" ELSE "ended"
               begins == request[r].found = "triggered" /\ row # "triggered"
    <3>1. /\ row' = request[r].found /\ request[r].at = "record"
          /\ request' = [request EXCEPT ![r].at = pc]
          /\ past' = [past EXCEPT
               !.began = IF begins THEN @ \cup {r} ELSE @,
               !.crossed = @ \cup {q \in Client \ {r} : request[q].at \in {"query", "record"}}]
      BY <1>3, <2>2 DEF alerts!Record
    <3>2. pc \in {"notify", "ended"} /\ (pc = "notify" <=> alerts!Notifies(r))
      OBVIOUS
    <3>3. /\ past'.told = past.told
          /\ past'.began = IF begins THEN past.began \cup {r} ELSE past.began
          /\ past'.crossed = past.crossed \cup
               {q \in Client \ {r} : request[q].at \in {"query", "record"}}
          /\ past' \in [began : SUBSET Client, told : SUBSET Client, crossed : SUBSET Client]
      BY <1>t, <3>1 DEF alerts!TypeInv
    <3>4. r \notin past.crossed => (begins <=> alerts!Notifies(r))
      BY <1>t, <2>2, <3>1 DEF alerts!ReadIsCurrent, alerts!Notifies
    <3>5. r \notin past.began /\ r \notin past.told
      BY <1>t, <3>1 DEF alerts!ReadIsCurrent
    <3> HIDE DEF pc, begins
    <3>6. request' \in [Client -> alerts!Requests]
      <4>1. \A x \in alerts!Requests : [x EXCEPT !.at = pc] \in alerts!Requests
        BY <3>2 DEF alerts!Requests, alerts!Pc
      <4> QED
        BY <1>t, <3>1, <4>1 DEF alerts!TypeInv
    <3>7. request'[r].at = pc /\ \A q \in Client \ {r} : request'[q] = request[q]
      BY <1>t, <3>1 DEF alerts!TypeInv, alerts!Requests
    <3>8. alerts!TypeInv'
      BY <3>3, <3>6 DEF alerts!TypeInv
    <3>9. alerts!ReadIsCurrent'
      BY <1>t, <3>2, <3>3, <3>7 DEF alerts!ReadIsCurrent
    <3>10. alerts!NotifiesItsOwn'
      BY <1>t, <3>2, <3>3, <3>4, <3>5, <3>7 DEF alerts!NotifiesItsOwn
    <3>11. alerts!ToldPerIncident'
      BY <1>t, <3>2, <3>3, <3>4, <3>5, <3>7 DEF alerts!ToldPerIncident
    <3> QED
      BY <3>8, <3>9, <3>10, <3>11 DEF alerts!AlertsInv
  <2> QED
    BY <2>1, <2>2
<1>4. ASSUME NEW r \in Client, alerts!Notify(r) PROVE alerts!AlertsInv'
  <2>1. CASE row = None
    <3>1. UNCHANGED <<row, past>> /\ request' = [request EXCEPT ![r].at = "lost"]
      BY <1>4, <2>1 DEF alerts!Notify
    <3>2. request' \in [Client -> alerts!Requests] /\ request'[r].at = "lost"
          /\ \A q \in Client \ {r} : request'[q] = request[q]
      BY <1>t, <3>1 DEF alerts!TypeInv, alerts!Requests, alerts!Pc
    <3> QED
      BY <3>1, <3>2, AlertsKeep
  <2>2. CASE row # None
    <3>1. /\ row' = row /\ request' = [request EXCEPT ![r].at = "ended"]
          /\ past' = [past EXCEPT !.told = @ \cup {r}] /\ request[r].at = "notify"
      BY <1>4, <2>2 DEF alerts!Notify
    <3>2. request' \in [Client -> alerts!Requests] /\ request'[r].at = "ended"
          /\ \A q \in Client \ {r} : request'[q] = request[q]
      BY <1>t, <3>1 DEF alerts!TypeInv, alerts!Requests, alerts!Pc
    <3>3. /\ past'.told = past.told \cup {r} /\ past'.began = past.began
          /\ past'.crossed = past.crossed
          /\ past' \in [began : SUBSET Client, told : SUBSET Client, crossed : SUBSET Client]
      BY <1>t, <3>1 DEF alerts!TypeInv
    <3>4. alerts!TypeInv'
      BY <3>2, <3>3 DEF alerts!TypeInv
    <3>5. alerts!ReadIsCurrent'
      BY <1>t, <3>1, <3>2, <3>3 DEF alerts!ReadIsCurrent
    <3>6. alerts!NotifiesItsOwn' /\ alerts!ToldPerIncident'
      BY <1>t, <3>1, <3>2, <3>3 DEF alerts!NotifiesItsOwn, alerts!ToldPerIncident
    <3> QED
      BY <3>4, <3>5, <3>6 DEF alerts!AlertsInv
  <2> QED
    BY <2>1, <2>2
<1>5. ASSUME alerts!DataChanges \/ alerts!Delete PROVE alerts!AlertsInv'
  BY <1>5, <1>t, AlertsKeep DEF alerts!DataChanges, alerts!Delete, alerts!TypeInv
<1>6. ASSUME alerts!Crash PROVE alerts!AlertsInv'
  <2>1. UNCHANGED <<row, past>>
        /\ request' = [r \in Client |->
             IF alerts!Busy(r) THEN [request[r] EXCEPT !.at = "lost"] ELSE request[r]]
    BY <1>6 DEF alerts!Crash
  <2>2. request' \in [Client -> alerts!Requests]
        /\ \A r \in Client : request'[r] = request[r] \/ request'[r].at = "lost"
    BY <1>t, <2>1 DEF alerts!TypeInv, alerts!Requests, alerts!Pc
  <2> QED
    BY <2>1, <2>2, AlertsKeep
<1>7. CASE UNCHANGED alerts!vars
  BY <1>7, <1>t, AlertsKeep DEF alerts!vars, alerts!TypeInv
<1> QED
  BY <1>1, <1>2, <1>3, <1>4, <1>5, <1>6, <1>7 DEF alerts!Next
-----------------------------------------------------------------------------
(* The module's finite sets are those of the theorems about them. *)
LEMMA SameSets ==
  \A S : /\ gateway!IsFiniteSet(S) = IsFiniteSet(S)
         /\ gateway!Cardinality(S) = Cardinality(S)
<1>1. \A S : gateway!IsFiniteSet(S) = IsFiniteSet(S)
  BY DEF gateway!IsFiniteSet, IsFiniteSet
<1>2. \A S : gateway!Cardinality(S) = Cardinality(S)
  BY DEF gateway!Cardinality, Cardinality
<1> QED
  BY <1>1, <1>2

LEMMA GatewayStarts == gateway!Init => gateway!GatewayInv
<1> USE SameSets
<1> SUFFICES ASSUME gateway!Init
             PROVE  gateway!GatewayInv
  OBVIOUS
<1>1. IsFiniteSet({}) /\ Cardinality({}) = 0
  BY FS_EmptySet
<1>2. gateway!TypeInv /\ gateway!BesideEachOther /\ gateway!NoneLost
  BY <1>1
  DEF gateway!Init, gateway!TypeInv, gateway!Done, gateway!Busy, gateway!Requests,
      gateway!Calls, gateway!BesideEachOther, gateway!InLimiter, gateway!NoneLost,
      gateway!FindsAll, gateway!Counting
<1>3. \A t : gateway!InWindow(t) = {}
  BY DEF gateway!Init, gateway!InWindow, gateway!Counting
<1>4. gateway!WindowsKept
  BY <1>1, <1>3, LimitAssumption DEF gateway!WindowsKept
<1> QED
  BY <1>2, <1>4 DEF gateway!GatewayInv

LEMMA WindowsFinite ==
  ASSUME gateway!TypeInv, NEW t
  PROVE  /\ IsFiniteSet(gateway!Counting(t)) /\ IsFiniteSet(gateway!InWindow(t))
         /\ Cardinality(gateway!InWindow(t)) \in Nat
<1> USE SameSets
<1>1. IsFiniteSet(past.through) /\ gateway!Counting(t) \subseteq past.through
  BY DEF gateway!TypeInv, gateway!Counting
<1>2. gateway!InWindow(t) \subseteq past.through
  BY DEF gateway!InWindow, gateway!Counting
<1>3. IsFiniteSet(gateway!Counting(t)) /\ IsFiniteSet(gateway!InWindow(t))
  BY <1>1, <1>2, FS_Subset
<1> QED
  BY <1>3, FS_CardinalityType

(* Windows do not fill up as long as nothing is let through. *)
LEMMA WindowsShrink ==
  ASSUME gateway!GatewayInv, past'.through \subseteq past.through,
         past.beside \subseteq past'.beside
  PROVE  gateway!WindowsKept' /\ \A t : gateway!Counting(t)' \subseteq gateway!Counting(t)
<1> USE SameSets
<1>1. \A t : gateway!Counting(t)' \subseteq gateway!Counting(t) /\ gateway!InWindow(t)' \subseteq gateway!InWindow(t)
  BY DEF gateway!Counting, gateway!InWindow
<1>2. ASSUME NEW t \in Nat PROVE Cardinality(gateway!InWindow(t)') <= Limit
  <2>1. IsFiniteSet(gateway!InWindow(t)) /\ Cardinality(gateway!InWindow(t)) \in Nat
    BY WindowsFinite DEF gateway!GatewayInv
  <2>2. /\ IsFiniteSet(gateway!InWindow(t)')
        /\ Cardinality(gateway!InWindow(t)') <= Cardinality(gateway!InWindow(t))
    BY <1>1, <2>1, FS_Subset
  <2>3. Cardinality(gateway!InWindow(t)') \in Nat
    BY <2>2, FS_CardinalityType
  <2>4. Cardinality(gateway!InWindow(t)) <= Limit
    BY DEF gateway!GatewayInv, gateway!WindowsKept
  <2> QED
    BY <2>1, <2>2, <2>3, <2>4, LimitAssumption
<1> QED
  BY <1>1, <1>2 DEF gateway!WindowsKept

(* Time only takes calls out of the window. *)
LEMMA CountingLater ==
  ASSUME gateway!TypeInv, NEW s \in Nat, NEW t \in Nat, s <= t
  PROVE  gateway!Counting(t) \subseteq gateway!Counting(s)
<1>1. \A d \in past.through : d[2] \in Nat
  BY DEF gateway!TypeInv, gateway!Calls
<1> QED
  BY <1>1, LimitAssumption DEF gateway!Counting

(* A request that stays where it is, while no call is let through alone beside it
   and nobody replaces the list that it relies on. *)
LEMMA FindsStill ==
  ASSUME NEW q \in Client, gateway!FindsAll(q), request'[q] = request[q],
         past.beside \subseteq past'.beside,
         gateway!InLimiter(q) => \A d \in past'.through \ past.through : d[1] \in past'.beside,
         request[q].at \in {"count", "append"} =>
           thing'.history = thing.history \/ q \in past'.beside
  PROVE  gateway!FindsAll(q)'
<1>1. gateway!InLimiter(q) => gateway!Counting(request[q].now)' \subseteq gateway!Counting(request[q].now)
  BY DEF gateway!Counting
<1> QED
  BY <1>1 DEF gateway!FindsAll, gateway!InLimiter

LEMMA GatewayStep == gateway!GatewayInv /\ [gateway!Next]_(gateway!vars) => gateway!GatewayInv'
<1> USE SameSets
<1> SUFFICES ASSUME gateway!GatewayInv, [gateway!Next]_(gateway!vars)
             PROVE  gateway!GatewayInv'
  OBVIOUS
<1>t. gateway!TypeInv /\ gateway!BesideEachOther /\ gateway!NoneLost /\ gateway!WindowsKept
  BY DEF gateway!GatewayInv
<1>f. /\ \A q \in Client : gateway!FindsAll(q)
      /\ gateway!Counting(thing.time) \subseteq thing.history
  BY <1>t DEF gateway!NoneLost
<1>e. IsFiniteSet({}) /\ Cardinality({}) = 0
  BY FS_EmptySet
<1>1. ASSUME NEW r \in Client, gateway!Enter(r), row PROVE gateway!GatewayInv'
  <2> DEFINE now == thing.time
             kept == {c \in thing.history : c[2] + Window > now}
             others == {q \in Client \ {r} : gateway!InLimiter(q)}
  <2>1. /\ request[r].at = "idle" /\ thing' = thing
        /\ request' = [request EXCEPT ![r] = gateway!Busy("keep", now, kept)]
        /\ past' = IF others = {} THEN past ELSE [past EXCEPT !.beside = @ \cup {r} \cup others]
    BY <1>1 DEF gateway!Enter, gateway!Goto
  <2>2. /\ now \in Nat /\ kept \in SUBSET gateway!Calls /\ kept \subseteq thing.history
        /\ gateway!Counting(now) \subseteq kept
    BY <1>t, <1>f DEF gateway!TypeInv, gateway!Counting
  <2>3. IsFiniteSet(kept)
    BY <1>t, <2>2, FS_Subset DEF gateway!TypeInv
  <2>4. /\ past' \in [through : SUBSET gateway!Calls, beside : SUBSET Client, logged : BOOLEAN]
        /\ past'.through = past.through /\ past.beside \subseteq past'.beside
        /\ \A q \in others : r \in past'.beside /\ q \in past'.beside
    BY <1>t, <2>1 DEF gateway!TypeInv
  <2>5. \A q \in Client \ {r} : gateway!InLimiter(q) => q \in past'.beside /\ r \in past'.beside
    BY <2>4
  <2>6. now = thing.time
    OBVIOUS
  <2> HIDE DEF now, kept, others
  <2>7. gateway!Busy("keep", now, kept) \in gateway!Requests
    BY <2>2 DEF gateway!Busy, gateway!Requests
  <2>8. /\ request'[r].at = "keep" /\ request'[r].now = now /\ request'[r].kept = kept
        /\ \A q \in Client \ {r} : request'[q] = request[q]
        /\ request' \in [Client -> gateway!Requests]
    BY <1>t, <2>1, <2>7 DEF gateway!TypeInv, gateway!Busy
  <2>9. gateway!TypeInv'
    <3>1. \A q \in Client : IsFiniteSet(request'[q].kept)
      BY <1>t, <2>3, <2>8 DEF gateway!TypeInv
    <3>2. \A q \in Client : gateway!InLimiter(q)' => request'[q].now <= thing'.time
      BY <1>t, <2>1, <2>2, <2>6, <2>8 DEF gateway!TypeInv, gateway!InLimiter
    <3> QED
      BY <1>t, <2>1, <2>4, <2>8, <3>1, <3>2 DEF gateway!TypeInv
  <2>10. gateway!BesideEachOther'
    BY <1>t, <2>4, <2>5, <2>8 DEF gateway!BesideEachOther, gateway!InLimiter
  <2>11. gateway!WindowsKept'
    BY <2>4, WindowsShrink
  <2>12. gateway!FindsAll(r)'
    <3>1. gateway!Counting(request[r].now)' \subseteq gateway!Counting(now)
      BY <2>4, <2>8 DEF gateway!Counting
    <3> QED
      BY <2>2, <2>8, <3>1 DEF gateway!FindsAll
  <2>13. gateway!NoneLost'
    <3>1. gateway!Counting(thing.time)' \subseteq thing'.history
      BY <1>f, <2>1, <2>4 DEF gateway!Counting
    <3>2. \A q \in Client \ {r} : gateway!FindsAll(q)'
      BY <1>f, <2>1, <2>4, <2>8, FindsStill
    <3> QED
      BY <2>12, <3>1, <3>2 DEF gateway!NoneLost
  <2> QED
    BY <2>9, <2>10, <2>11, <2>13 DEF gateway!GatewayInv
<1>2. ASSUME NEW r \in Client,
             (gateway!Enter(r) /\ ~row) \/ gateway!Log(r) \/ (gateway!Count(r) /\ Cardinality(thing.history) >= Limit)
      PROVE  gateway!GatewayInv'
  <2>1. PICK pc \in {"log", "ended"} : request' = [request EXCEPT ![r] = gateway!Busy(pc, 0, {})]
    BY <1>2 DEF gateway!Enter, gateway!Log, gateway!Count, gateway!Goto, gateway!Done
  <2>2. /\ thing' = thing
        /\ past' \in [through : SUBSET gateway!Calls, beside : SUBSET Client, logged : BOOLEAN]
        /\ past'.through = past.through /\ past'.beside = past.beside
    BY <1>2, <1>t DEF gateway!Enter, gateway!Log, gateway!Count, gateway!TypeInv
  <2>3. gateway!Busy(pc, 0, {}) \in gateway!Requests
    BY DEF gateway!Busy, gateway!Requests
  <2>4. /\ request' \in [Client -> gateway!Requests] /\ request'[r].at = pc /\ request'[r].kept = {}
        /\ \A q \in Client \ {r} : request'[q] = request[q]
    BY <1>t, <2>1, <2>3 DEF gateway!TypeInv, gateway!Busy
  <2>5. gateway!TypeInv'
    <3>1. \A q \in Client : IsFiniteSet(request'[q].kept)
      BY <1>e, <1>t, <2>4 DEF gateway!TypeInv
    <3>2. \A q \in Client : gateway!InLimiter(q)' => request'[q].now <= thing'.time
      BY <1>t, <2>2, <2>4 DEF gateway!TypeInv, gateway!InLimiter
    <3> QED
      BY <1>t, <2>2, <2>4, <3>1, <3>2 DEF gateway!TypeInv
  <2>6. gateway!BesideEachOther'
    BY <1>t, <2>2, <2>4 DEF gateway!BesideEachOther, gateway!InLimiter
  <2>7. gateway!WindowsKept'
    BY <2>2, WindowsShrink
  <2>8. gateway!NoneLost'
    <3>1. gateway!Counting(thing.time)' \subseteq thing'.history
      BY <1>f, <2>2 DEF gateway!Counting
    <3>2. \A q \in Client \ {r} : gateway!FindsAll(q)'
      BY <1>f, <2>2, <2>4, FindsStill
    <3>3. gateway!FindsAll(r)'
      BY <2>4 DEF gateway!FindsAll
    <3> QED
      BY <3>1, <3>2, <3>3 DEF gateway!NoneLost
  <2> QED
    BY <2>5, <2>6, <2>7, <2>8 DEF gateway!GatewayInv
<1>3. ASSUME NEW r \in Client, gateway!Keep(r) PROVE gateway!GatewayInv'
  <2>1. /\ request[r].at = "keep" /\ past' = past
        /\ thing' = [thing EXCEPT !.history = request[r].kept]
        /\ request' = [request EXCEPT ![r] = gateway!Busy("count", request[r].now, {})]
    BY <1>3 DEF gateway!Keep, gateway!Goto
  <2>2. /\ request[r].now \in Nat /\ request[r].now <= thing.time
        /\ request[r].kept \in SUBSET gateway!Calls /\ IsFiniteSet(request[r].kept)
    BY <1>t, <2>1 DEF gateway!TypeInv, gateway!Requests, gateway!InLimiter
  <2>3. /\ thing' \in [time : Nat, history : SUBSET gateway!Calls]
        /\ thing'.history = request[r].kept /\ thing'.time = thing.time
    BY <1>t, <2>1, <2>2 DEF gateway!TypeInv
  <2>4. gateway!Busy("count", request[r].now, {}) \in gateway!Requests
    BY <2>2 DEF gateway!Busy, gateway!Requests
  <2>5. /\ request' \in [Client -> gateway!Requests] /\ request'[r].at = "count"
        /\ request'[r].kept = {} /\ request'[r].now = request[r].now
        /\ \A q \in Client \ {r} : request'[q] = request[q]
    BY <1>t, <2>1, <2>4 DEF gateway!TypeInv, gateway!Busy
  <2>6. gateway!TypeInv'
    <3>1. \A q \in Client : IsFiniteSet(request'[q].kept)
      BY <1>e, <1>t, <2>5 DEF gateway!TypeInv
    <3>2. \A q \in Client : gateway!InLimiter(q)' => request'[q].now <= thing'.time
      BY <1>t, <2>2, <2>3, <2>5 DEF gateway!TypeInv, gateway!InLimiter
    <3> QED
      BY <1>t, <2>1, <2>2, <2>3, <2>5, <3>1, <3>2 DEF gateway!TypeInv
  <2>7. gateway!BesideEachOther'
    BY <1>t, <2>1, <2>5 DEF gateway!BesideEachOther, gateway!InLimiter
  <2>8. gateway!WindowsKept'
    BY <2>1, WindowsShrink
  <2>9. gateway!Counting(request[r].now) \subseteq thing'.history
    BY <1>f, <2>1, <2>3 DEF gateway!FindsAll
  <2>10. gateway!NoneLost'
    <3>1. gateway!Counting(thing.time)' = gateway!Counting(thing.time)
      BY <2>1, <2>3 DEF gateway!Counting
    <3>2. gateway!Counting(thing.time) \subseteq gateway!Counting(request[r].now)
      BY <1>t, <2>2, CountingLater DEF gateway!TypeInv
    <3>3. ASSUME NEW q \in Client \ {r} PROVE gateway!FindsAll(q)'
      <4>1. request[q].at \in {"count", "append"} => q \in past.beside
        BY <1>t, <2>1 DEF gateway!BesideEachOther, gateway!InLimiter
      <4> QED
        BY <1>f, <2>1, <2>5, <4>1, FindsStill
    <3>4. gateway!FindsAll(r)'
      <4>1. gateway!Counting(request[r].now)' = gateway!Counting(request[r].now)
        BY <2>1, <2>5 DEF gateway!Counting
      <4> QED
        BY <2>5, <2>9, <4>1 DEF gateway!FindsAll
    <3> QED
      BY <2>9, <3>1, <3>2, <3>3, <3>4 DEF gateway!NoneLost
  <2> QED
    BY <2>6, <2>7, <2>8, <2>10 DEF gateway!GatewayInv
<1>4. ASSUME NEW r \in Client, gateway!Count(r), ~(Cardinality(thing.history) >= Limit)
      PROVE  gateway!GatewayInv'
  <2>1. /\ request[r].at = "count" /\ UNCHANGED <<thing, past>>
        /\ request' = [request EXCEPT ![r] = gateway!Busy("append", request[r].now, {})]
    BY <1>4 DEF gateway!Count, gateway!Goto
  <2>2. /\ request[r].now \in Nat /\ request[r].now <= thing.time
        /\ Cardinality(thing.history) \in Nat
    BY <1>t, <2>1, FS_CardinalityType
    DEF gateway!TypeInv, gateway!Requests, gateway!InLimiter
  <2>3. Cardinality(thing.history) < Limit
    BY <1>4, <2>2, LimitAssumption
  <2>4. gateway!Busy("append", request[r].now, {}) \in gateway!Requests
    BY <2>2 DEF gateway!Busy, gateway!Requests
  <2>5. /\ request' \in [Client -> gateway!Requests] /\ request'[r].at = "append"
        /\ request'[r].kept = {} /\ request'[r].now = request[r].now
        /\ \A q \in Client \ {r} : request'[q] = request[q]
    BY <1>t, <2>1, <2>4 DEF gateway!TypeInv, gateway!Busy
  <2>6. gateway!TypeInv'
    <3>1. \A q \in Client : IsFiniteSet(request'[q].kept)
      BY <1>e, <1>t, <2>5 DEF gateway!TypeInv
    <3>2. \A q \in Client : gateway!InLimiter(q)' => request'[q].now <= thing'.time
      BY <1>t, <2>1, <2>2, <2>5 DEF gateway!TypeInv, gateway!InLimiter
    <3> QED
      BY <1>t, <2>1, <2>5, <3>1, <3>2 DEF gateway!TypeInv
  <2>7. gateway!BesideEachOther'
    BY <1>t, <2>1, <2>5 DEF gateway!BesideEachOther, gateway!InLimiter
  <2>8. gateway!WindowsKept'
    BY <2>1, WindowsShrink
  <2>9. gateway!NoneLost'
    <3>1. gateway!Counting(thing.time)' \subseteq thing'.history
      BY <1>f, <2>1 DEF gateway!Counting
    <3>2. \A q \in Client \ {r} : gateway!FindsAll(q)'
      BY <1>f, <2>1, <2>5, FindsStill
    <3>3. gateway!FindsAll(r)'
      <4>1. gateway!Counting(request[r].now)' = gateway!Counting(request[r].now)
        BY <2>1, <2>5 DEF gateway!Counting
      <4>2. r \notin past.beside => gateway!Counting(request[r].now) \subseteq thing.history
        BY <1>f, <2>1 DEF gateway!FindsAll
      <4> QED
        BY <2>1, <2>3, <2>5, <4>1, <4>2 DEF gateway!FindsAll
    <3> QED
      BY <3>1, <3>2, <3>3 DEF gateway!NoneLost
  <2> QED
    BY <2>6, <2>7, <2>8, <2>9 DEF gateway!GatewayInv
<1>5. ASSUME NEW r \in Client, gateway!Append(r) PROVE gateway!GatewayInv'
  <2> DEFINE call == <<r, request[r].now>>
  <2>1. /\ request[r].at = "append"
        /\ thing' = [thing EXCEPT !.history = @ \cup {call}]
        /\ past' = [past EXCEPT !.through = @ \cup {call}]
        /\ request' = [request EXCEPT ![r] = gateway!Busy("log", 0, {})]
    BY <1>5 DEF gateway!Append, gateway!Goto, gateway!Done
  <2>2. call \in gateway!Calls /\ call[1] = r /\ call[2] = request[r].now /\ request[r].now \in Nat
    BY <1>t DEF gateway!TypeInv, gateway!Requests, gateway!Calls
  <2> HIDE DEF call
  <2>3. /\ thing'.history = thing.history \cup {call} /\ thing'.time = thing.time
        /\ thing' \in [time : Nat, history : SUBSET gateway!Calls]
        /\ past'.through = past.through \cup {call} /\ past'.beside = past.beside
        /\ past' \in [through : SUBSET gateway!Calls, beside : SUBSET Client, logged : BOOLEAN]
    BY <1>t, <2>1, <2>2 DEF gateway!TypeInv
  <2>4. IsFiniteSet(thing'.history) /\ IsFiniteSet(past'.through)
    <3>1. IsFiniteSet(thing.history) /\ IsFiniteSet(past.through)
      BY <1>t DEF gateway!TypeInv
    <3>2. IsFiniteSet(thing.history \cup {call}) /\ IsFiniteSet(past.through \cup {call})
      BY <3>1, FS_AddElement
    <3> QED
      BY <2>3, <3>2
  <2>5. gateway!Busy("log", 0, {}) \in gateway!Requests
    BY DEF gateway!Busy, gateway!Requests
  <2>6. /\ request' \in [Client -> gateway!Requests] /\ request'[r].at = "log"
        /\ request'[r].kept = {}
        /\ \A q \in Client \ {r} : request'[q] = request[q]
    BY <1>t, <2>1, <2>5 DEF gateway!TypeInv, gateway!Busy
  <2>7. gateway!TypeInv'
    <3>1. \A q \in Client : IsFiniteSet(request'[q].kept)
      BY <1>e, <1>t, <2>6 DEF gateway!TypeInv
    <3>2. \A q \in Client : gateway!InLimiter(q)' => request'[q].now <= thing'.time
      BY <1>t, <2>3, <2>6 DEF gateway!TypeInv, gateway!InLimiter
    <3> QED
      BY <2>3, <2>4, <2>6, <3>1, <3>2 DEF gateway!TypeInv
  <2>8. gateway!BesideEachOther'
    BY <1>t, <2>3, <2>6 DEF gateway!BesideEachOther, gateway!InLimiter
  <2>9. gateway!NoneLost'
    <3>1. gateway!Counting(thing.time)' \subseteq thing'.history
      <4>1. gateway!Counting(thing.time)' \subseteq gateway!Counting(thing.time) \cup {call}
        BY <2>3 DEF gateway!Counting
      <4> QED
        BY <1>f, <2>3, <4>1
    <3>2. ASSUME NEW q \in Client \ {r} PROVE gateway!FindsAll(q)'
      <4>1. gateway!InLimiter(q) => r \in past.beside /\ q \in past.beside
        BY <1>t, <2>1 DEF gateway!BesideEachOther, gateway!InLimiter
      <4>2. request[q].at \in {"count", "append"} => gateway!InLimiter(q)
        BY DEF gateway!InLimiter
      <4> QED
        BY <1>f, <2>2, <2>3, <2>6, <4>1, <4>2, FindsStill
    <3>3. gateway!FindsAll(r)'
      BY <2>6 DEF gateway!FindsAll
    <3> QED
      BY <3>1, <3>2, <3>3 DEF gateway!NoneLost
  <2>10. ASSUME NEW t \in Nat PROVE Cardinality(gateway!InWindow(t)') <= Limit
    <3>1. Cardinality(gateway!InWindow(t)) \in Nat /\ Cardinality(gateway!InWindow(t)) <= Limit
      BY <1>t, WindowsFinite DEF gateway!WindowsKept
    <3>2. CASE r \in past.beside \/ ~(request[r].now <= t) \/ ~(request[r].now + Window > t)
      <4>1. gateway!InWindow(t)' = gateway!InWindow(t)
        BY <2>2, <2>3, <3>2 DEF gateway!InWindow, gateway!Counting
      <4> QED
        BY <3>1, <4>1
    <3>3. CASE /\ r \notin past.beside /\ request[r].now <= t
               /\ request[r].now + Window > t
      <4>1. gateway!InWindow(t)' \subseteq gateway!InWindow(t) \cup {call}
        BY <2>3 DEF gateway!InWindow, gateway!Counting
      <4>2. gateway!InWindow(t) \subseteq gateway!Counting(request[r].now)
        BY <1>t, <2>2, <3>3, CountingLater DEF gateway!InWindow
      <4>3. /\ gateway!Counting(request[r].now) \subseteq thing.history
            /\ Cardinality(thing.history) < Limit
        BY <1>f, <2>1, <3>3 DEF gateway!FindsAll
      <4>4. gateway!InWindow(t)' \subseteq thing'.history
        BY <2>3, <4>1, <4>2, <4>3
      <4>5. /\ Cardinality(gateway!InWindow(t)') <= Cardinality(thing'.history)
            /\ IsFiniteSet(gateway!InWindow(t)')
        BY <2>4, <4>4, FS_Subset
      <4>6. /\ Cardinality(thing'.history) <= Cardinality(thing.history) + 1
            /\ Cardinality(thing.history) \in Nat
        <5>1. IsFiniteSet(thing.history)
          BY <1>t DEF gateway!TypeInv
        <5>2. Cardinality(thing.history) \in Nat
          BY <5>1, FS_CardinalityType
        <5>3. Cardinality(thing.history \cup {call}) <= Cardinality(thing.history) + 1
          <6>1. Cardinality(thing.history \cup {call}) =
                  IF call \in thing.history THEN Cardinality(thing.history)
                  ELSE Cardinality(thing.history) + 1
            BY <5>1, FS_AddElement
          <6> QED
            BY <5>2, <6>1
        <5> QED
          BY <2>3, <5>2, <5>3
      <4>7. Cardinality(gateway!InWindow(t)') \in Nat /\ Cardinality(thing'.history) \in Nat
        BY <2>4, <4>5, FS_CardinalityType
      <4> QED
        BY <4>3, <4>5, <4>6, <4>7, LimitAssumption
    <3> QED
      BY <3>2, <3>3
  <2> QED
    BY <2>7, <2>8, <2>9, <2>10 DEF gateway!GatewayInv, gateway!WindowsKept
<1>6. ASSUME gateway!Tick PROVE gateway!GatewayInv'
  <2>1. /\ UNCHANGED <<request, past>> /\ thing' \in [time : Nat, history : SUBSET gateway!Calls]
        /\ thing'.history = thing.history /\ thing'.time = thing.time + 1
        /\ thing.time \in Nat
    BY <1>6, <1>t DEF gateway!Tick, gateway!TypeInv
  <2>2. gateway!TypeInv'
    <3>1. \A q \in Client : gateway!InLimiter(q)' => request'[q].now <= thing'.time
      BY <1>t, <2>1 DEF gateway!TypeInv, gateway!InLimiter, gateway!Requests
    <3> QED
      BY <1>t, <2>1, <3>1 DEF gateway!TypeInv
  <2>3. gateway!BesideEachOther'
    BY <1>t, <2>1 DEF gateway!BesideEachOther, gateway!InLimiter
  <2>4. gateway!WindowsKept'
    BY <2>1, WindowsShrink
  <2>5. gateway!Counting(thing.time)' \subseteq thing'.history
    <3>1. gateway!Counting(thing.time + 1) \subseteq gateway!Counting(thing.time)
      BY <1>t, <2>1, CountingLater
    <3>2. gateway!Counting(thing.time)' = gateway!Counting(thing.time + 1)
      BY <2>1 DEF gateway!Counting
    <3> QED
      BY <1>f, <2>1, <3>1, <3>2
  <2>6. \A q \in Client : gateway!FindsAll(q)'
    BY <1>f, <2>1, FindsStill
  <2> QED
    BY <2>2, <2>3, <2>4, <2>5, <2>6 DEF gateway!GatewayInv, gateway!NoneLost
<1>7. ASSUME gateway!Crash PROVE gateway!GatewayInv'
  <2>1. /\ thing' = [thing EXCEPT !.history = {}] /\ past' = [past EXCEPT !.through = {}]
        /\ request' = [r \in Client |->
             IF request[r].at = "idle" THEN gateway!Busy("idle", 0, {}) ELSE gateway!Busy("ended", 0, {})]
    BY <1>7 DEF gateway!Crash, gateway!Done
  <2>2. /\ thing' \in [time : Nat, history : SUBSET gateway!Calls] /\ thing'.history = {}
        /\ past' \in [through : SUBSET gateway!Calls, beside : SUBSET Client, logged : BOOLEAN]
        /\ past'.through = {} /\ past'.beside = past.beside
    BY <1>t, <2>1 DEF gateway!TypeInv
  <2>3. /\ request' \in [Client -> gateway!Requests]
        /\ \A q \in Client : request'[q].at \in {"idle", "ended"} /\ request'[q].kept = {}
    BY <2>1 DEF gateway!Busy, gateway!Requests
  <2>4. gateway!TypeInv' /\ gateway!BesideEachOther'
    BY <1>e, <2>2, <2>3 DEF gateway!TypeInv, gateway!BesideEachOther, gateway!InLimiter
  <2>5. gateway!WindowsKept'
    BY <2>2, WindowsShrink
  <2>6. gateway!NoneLost'
    BY <2>2, <2>3 DEF gateway!NoneLost, gateway!FindsAll, gateway!Counting
  <2> QED
    BY <2>4, <2>5, <2>6 DEF gateway!GatewayInv
<1>8. CASE UNCHANGED <<thing, request, past>>
  <2>1. gateway!TypeInv' /\ gateway!BesideEachOther'
    BY <1>t, <1>8 DEF gateway!TypeInv, gateway!BesideEachOther, gateway!InLimiter
  <2>2. gateway!WindowsKept'
    BY <1>8, WindowsShrink
  <2>3. gateway!Counting(thing.time)' \subseteq thing'.history
    BY <1>f, <1>8 DEF gateway!Counting
  <2>4. \A q \in Client : gateway!FindsAll(q)'
    BY <1>f, <1>8, FindsStill
  <2> QED
    BY <2>1, <2>2, <2>3, <2>4 DEF gateway!GatewayInv, gateway!NoneLost
<1>9. gateway!Toggle \/ gateway!Delete \/ UNCHANGED gateway!vars => UNCHANGED <<thing, request, past>>
  BY DEF gateway!Toggle, gateway!Delete, gateway!vars
<1> QED
  BY <1>1, <1>2, <1>3, <1>4, <1>5, <1>6, <1>7, <1>8, <1>9 DEF gateway!Next

(* A call's own window is one of them. *)
LEMMA GatewayKeepsRate == gateway!GatewayInv => gateway!RateKept
<1> USE SameSets
<1> SUFFICES ASSUME gateway!GatewayInv, NEW c \in past.through
             PROVE  Cardinality({d \in past.through : d[1] \notin past.beside /\ d[2] <= c[2]
                                                       /\ d[2] + Window > c[2]}) <= Limit
  BY DEF gateway!RateKept
<1>1. c[2] \in Nat
  BY DEF gateway!GatewayInv, gateway!TypeInv, gateway!Calls
<1>2. {d \in past.through : d[1] \notin past.beside /\ d[2] <= c[2]
                             /\ d[2] + Window > c[2]} = gateway!InWindow(c[2])
  BY DEF gateway!InWindow, gateway!Counting
<1> QED
  BY <1>1, <1>2 DEF gateway!GatewayInv, gateway!WindowsKept
-----------------------------------------------------------------------------
LEMMA AutoscalerStarts == autoscaler!Init => autoscaler!AutoscalerInv
BY DEF autoscaler!Init, autoscaler!AutoscalerInv, autoscaler!TypeInv, autoscaler!Apart,
       autoscaler!NeverIdle, autoscaler!Asleep

LEMMA BoundedFits ==
  ASSUME NEW n \in Nat PROVE autoscaler!Bounded(n) \in 0 .. MaxWorkers
BY WorkersAssumption DEF autoscaler!Bounded

LEMMA SleepKeeps ==
  ASSUME autoscaler!AutoscalerInv, NEW p \in Process, thing' = thing, row' = row,
         request' = [request EXCEPT ![p] = autoscaler!Asleep]
  PROVE  autoscaler!AutoscalerInv'
<1>1. request' \in [Process -> {autoscaler!Asleep} \cup autoscaler!Working]
  BY DEF autoscaler!AutoscalerInv, autoscaler!TypeInv
<1>2. request'[p].at = "sleep" /\ \A q \in Process \ {p} : request'[q] = request[q]
  BY DEF autoscaler!AutoscalerInv, autoscaler!TypeInv, autoscaler!Asleep
<1>3. autoscaler!NeverIdle'
  BY <1>2 DEF autoscaler!AutoscalerInv, autoscaler!NeverIdle
<1> QED
  BY <1>1, <1>3 DEF autoscaler!AutoscalerInv, autoscaler!TypeInv, autoscaler!Apart

LEMMA WorkKeeps ==
  ASSUME autoscaler!AutoscalerInv, NEW p \in Process, thing' = thing, row' = row,
         NEW w \in autoscaler!Working, w.at \in {"add", "remove"} => w.todo # <<>>,
         request' = [request EXCEPT ![p] = w]
  PROVE  autoscaler!AutoscalerInv'
<1>1. request' \in [Process -> {autoscaler!Asleep} \cup autoscaler!Working]
  BY DEF autoscaler!AutoscalerInv, autoscaler!TypeInv
<1>2. request'[p] = w /\ \A q \in Process \ {p} : request'[q] = request[q]
  BY DEF autoscaler!AutoscalerInv, autoscaler!TypeInv
<1>3. autoscaler!NeverIdle'
  BY <1>2 DEF autoscaler!AutoscalerInv, autoscaler!NeverIdle
<1> QED
  BY <1>1, <1>3 DEF autoscaler!AutoscalerInv, autoscaler!TypeInv, autoscaler!Apart

(* A call takes the next number off the list. *)
LEMMA CalledKeeps ==
  ASSUME autoscaler!AutoscalerInv, NEW p \in Process, request[p].at \in {"add", "remove"},
         NEW now \in Seq(autoscaler!Names), autoscaler!Apart(now), autoscaler!Called(p, now)
  PROVE  autoscaler!AutoscalerInv'
<1> DEFINE rest == Tail(request[p].todo)
           next == IF rest = <<>> THEN autoscaler!Asleep ELSE [request[p] EXCEPT !.todo = rest]
<1>1. thing' = now /\ row' = row /\ request' = [request EXCEPT ![p] = next]
  BY DEF autoscaler!Called
<1>2. request[p] \in autoscaler!Working /\ request[p].todo # <<>>
  BY DEF autoscaler!AutoscalerInv, autoscaler!TypeInv, autoscaler!NeverIdle,
         autoscaler!Asleep
<1>3. rest \in Seq(autoscaler!Names)
  BY <1>2 DEF autoscaler!Working
<1>4. next \in {autoscaler!Asleep} \cup autoscaler!Working
  BY <1>2, <1>3 DEF autoscaler!Working
<1>5. next.at \in {"add", "remove"} => next.todo # <<>>
  BY <1>2 DEF autoscaler!Asleep, autoscaler!Working
<1> HIDE DEF next
<1>6. request' \in [Process -> {autoscaler!Asleep} \cup autoscaler!Working]
  BY <1>1, <1>4 DEF autoscaler!AutoscalerInv, autoscaler!TypeInv
<1>7. request'[p] = next /\ \A q \in Process \ {p} : request'[q] = request[q]
  BY <1>1 DEF autoscaler!AutoscalerInv, autoscaler!TypeInv
<1>8. autoscaler!NeverIdle'
  BY <1>5, <1>7 DEF autoscaler!AutoscalerInv, autoscaler!NeverIdle
<1>9. autoscaler!Apart(thing)'
  BY <1>1 DEF autoscaler!Apart
<1> QED
  BY <1>1, <1>6, <1>8, <1>9 DEF autoscaler!AutoscalerInv, autoscaler!TypeInv

(* Names stay apart when a free one is given, or one taken away. *)
LEMMA GivenApart ==
  ASSUME autoscaler!AutoscalerInv, NEW n \in autoscaler!Names, ~autoscaler!Has(n)
  PROVE  <<n>> \o thing \in Seq(autoscaler!Names) /\ autoscaler!Apart(<<n>> \o thing)
<1> DEFINE now == <<n>> \o thing
<1>1. thing \in Seq(autoscaler!Names) /\ DOMAIN thing = 1 .. Len(thing) /\ Len(thing) \in Nat
  BY DEF autoscaler!AutoscalerInv, autoscaler!TypeInv
<1>2. now \in Seq(autoscaler!Names) /\ Len(now) = Len(thing) + 1
  BY <1>1
<1>3. now[1] = n /\ \A i \in 2 .. Len(now) : now[i] = thing[i - 1]
  BY <1>1
<1>4. DOMAIN now = 1 .. Len(thing) + 1
  BY <1>1, <1>2
<1>5. ASSUME NEW i \in 2 .. Len(now) PROVE i - 1 \in DOMAIN thing /\ now[i] # n
  BY <1>1, <1>2, <1>3 DEF autoscaler!Has
<1> HIDE DEF now
<1>6. ASSUME NEW i \in DOMAIN now, NEW j \in DOMAIN now, now[i] = now[j] PROVE i = j
  <2>1. CASE i = 1 \/ j = 1
    BY <1>2, <1>3, <1>4, <1>5, <1>6, <2>1, <1>1
  <2>2. CASE i # 1 /\ j # 1
    <3>1. i \in 2 .. Len(now) /\ j \in 2 .. Len(now)
      BY <1>1, <1>2, <1>4, <2>2
    <3>2. i - 1 = j - 1
      BY <1>3, <1>5, <1>6, <3>1 DEF autoscaler!AutoscalerInv, autoscaler!Apart
    <3> QED
      BY <3>1, <3>2
  <2> QED
    BY <2>1, <2>2
<1>7. now \in Seq(autoscaler!Names) /\ autoscaler!Apart(now)
  BY <1>2, <1>6 DEF autoscaler!Apart
<1> QED
  BY <1>7 DEF now

LEMMA TakenApart ==
  ASSUME autoscaler!AutoscalerInv, NEW i \in DOMAIN thing
  PROVE  autoscaler!Without(i) \in Seq(autoscaler!Names) /\ autoscaler!Apart(autoscaler!Without(i))
<1> DEFINE n == Len(thing)
           From(j) == IF j < i THEN j ELSE j + 1
           now == [j \in 1 .. n - 1 |-> thing[From(j)]]
<1>1. /\ thing \in [1 .. n -> autoscaler!Names] /\ n \in Nat
      /\ i \in 1 .. n /\ DOMAIN thing = 1 .. n
  BY DEF autoscaler!AutoscalerInv, autoscaler!TypeInv
<1>2. autoscaler!Without(i) = now
  BY DEF autoscaler!Without
<1>3. \A j \in 1 .. n - 1 : From(j) \in 1 .. n
  BY <1>1
<1>4. \A j, k \in 1 .. n - 1 : From(j) = From(k) => j = k
  BY <1>1
<1> HIDE DEF From
<1>5. now \in [1 .. n - 1 -> autoscaler!Names]
  BY <1>1, <1>3
<1>6. n - 1 \in Nat
  BY <1>1
<1>7. now \in Seq(autoscaler!Names)
  BY <1>5, <1>6
<1>8. autoscaler!Apart(now)
  BY <1>1, <1>3, <1>4 DEF autoscaler!AutoscalerInv, autoscaler!Apart
<1> QED
  BY <1>2, <1>7, <1>8

LEMMA AutoscalerStep == autoscaler!AutoscalerInv /\ [autoscaler!Next]_(autoscaler!vars) => autoscaler!AutoscalerInv'
<1> SUFFICES ASSUME autoscaler!AutoscalerInv, [autoscaler!Next]_(autoscaler!vars)
             PROVE  autoscaler!AutoscalerInv'
  OBVIOUS
<1>t. autoscaler!TypeInv /\ autoscaler!Apart(thing) /\ autoscaler!NeverIdle
  BY DEF autoscaler!AutoscalerInv
<1>n. Len(thing) \in Nat
  BY <1>t DEF autoscaler!TypeInv
<1>1. ASSUME NEW p \in Process, autoscaler!TaskStarts(p) \/ autoscaler!TaskEnds(p) PROVE autoscaler!AutoscalerInv'
  <2>1. PICK n \in Nat : row' = [row EXCEPT ![p] = n]
    <3>1. row[p] \in Nat
      BY <1>t DEF autoscaler!TypeInv
    <3> QED
      BY <1>1, <3>1 DEF autoscaler!TaskStarts, autoscaler!TaskEnds
  <2>2. UNCHANGED <<thing, request>>
    BY <1>1 DEF autoscaler!TaskStarts, autoscaler!TaskEnds
  <2>3. row' \in [Process -> Nat]
    BY <1>t, <2>1 DEF autoscaler!TypeInv
  <2> QED
    BY <1>t, <2>2, <2>3
    DEF autoscaler!AutoscalerInv, autoscaler!TypeInv, autoscaler!Apart,
        autoscaler!NeverIdle
<1>2. ASSUME NEW p \in Process, autoscaler!Decide(p) PROVE autoscaler!AutoscalerInv'
  <2>1. PICK n \in Nat : request' = [request EXCEPT ![p] = autoscaler!At("list", autoscaler!Bounded(n), <<>>)]
    <3>1. row[p] \in Nat
      BY <1>t DEF autoscaler!TypeInv
    <3> QED
      BY <1>2, <1>n, <3>1 DEF autoscaler!Decide
  <2>2. UNCHANGED <<thing, row>>
    BY <1>2 DEF autoscaler!Decide
  <2>3. /\ autoscaler!At("list", autoscaler!Bounded(n), <<>>) \in autoscaler!Working
        /\ autoscaler!At("list", autoscaler!Bounded(n), <<>>).at = "list"
    BY BoundedFits DEF autoscaler!At, autoscaler!Working
  <2> QED
    BY <2>1, <2>2, <2>3, WorkKeeps
<1>3. ASSUME NEW p \in Process, autoscaler!NoReference(p) \/ autoscaler!Raises(p) PROVE autoscaler!AutoscalerInv'
  BY <1>3, SleepKeeps DEF autoscaler!NoReference, autoscaler!Raises
<1>4. ASSUME NEW p \in Process, autoscaler!List(p) PROVE autoscaler!AutoscalerInv'
  <2> DEFINE target == request[p].target
             n == Len(thing)
             missing == [i \in 1 .. target - n |-> n + i - 1]
             surplus == SubSeq(thing, target + 1, n)
  <2>1. /\ UNCHANGED <<thing, row>>
        /\ request' = [request EXCEPT ![p] =
             CASE n < target -> autoscaler!At("add", target, missing)
               [] n > target -> autoscaler!At("remove", target, surplus)
               [] OTHER      -> autoscaler!Asleep]
    BY <1>4 DEF autoscaler!List
  <2>2. target \in 0 .. MaxWorkers
    BY <1>4, <1>t
    DEF autoscaler!List, autoscaler!TypeInv, autoscaler!Asleep, autoscaler!Working
  <2>3. CASE n < target
    <3>1. target - n \in Nat /\ target - n > 0
      BY <1>n, <2>2, <2>3, WorkersAssumption
    <3>2. \A i \in 1 .. target - n : n + i - 1 \in autoscaler!Names
      BY <1>n, <2>2, WorkersAssumption DEF autoscaler!Names
    <3>3. missing \in Seq(autoscaler!Names)
      BY <3>1, <3>2
    <3>4. missing # <<>>
      BY <3>1
    <3> HIDE DEF target, n, missing, surplus
    <3>5. /\ autoscaler!At("add", target, missing) \in autoscaler!Working
          /\ autoscaler!At("add", target, missing).todo # <<>>
      BY <2>2, <3>3, <3>4 DEF autoscaler!At, autoscaler!Working
    <3>6. request' = [request EXCEPT ![p] = autoscaler!At("add", target, missing)]
      <4>1. ~(n > target)
        BY <1>n, <2>2, <2>3, WorkersAssumption DEF n
      <4> QED
        BY <2>1, <2>3, <4>1
    <3> QED
      BY <2>1, <3>5, <3>6, WorkKeeps
  <2>4. CASE n > target
    <3>1. target + 1 \in 1 .. n /\ n - target > 0 /\ n \in Nat
      BY <1>n, <2>2, <2>4, WorkersAssumption
    <3>2. surplus \in Seq(autoscaler!Names) /\ surplus # <<>>
      <4>1. thing \in Seq(autoscaler!Names) /\ Len(thing) = n
        BY <1>t DEF autoscaler!TypeInv
      <4>2. \A i \in target + 1 .. n : thing[i] \in autoscaler!Names
        BY <3>1, <4>1
      <4>3. /\ surplus \in Seq(autoscaler!Names)
            /\ Len(surplus) = IF target + 1 <= n THEN n - (target + 1) + 1 ELSE 0
        BY <3>1, <4>2, SubSeqProperties
      <4> HIDE DEF surplus, target, n
      <4>4. Len(surplus) = n - target
        BY <2>2, <3>1, <4>3
      <4>5. surplus # <<>>
        BY <3>1, <4>4
      <4> QED
        BY <4>3, <4>5
    <3> HIDE DEF target, n, missing, surplus
    <3>3. /\ autoscaler!At("remove", target, surplus) \in autoscaler!Working
          /\ autoscaler!At("remove", target, surplus).todo # <<>>
      BY <2>2, <3>2 DEF autoscaler!At, autoscaler!Working
    <3>4. ~(n < target)
      BY <2>2, <2>4, <3>1, WorkersAssumption
    <3>5. request' = [request EXCEPT ![p] = autoscaler!At("remove", target, surplus)]
      BY <2>1, <2>4, <3>4
    <3> QED
      BY <2>1, <3>3, <3>5, WorkKeeps
  <2>5. CASE ~(n < target) /\ ~(n > target)
    BY <2>1, <2>5, SleepKeeps
  <2> QED
    BY <2>3, <2>4, <2>5
<1>5. ASSUME NEW p \in Process, autoscaler!Add(p) PROVE autoscaler!AutoscalerInv'
  <2>1. request[p] \in autoscaler!Working /\ request[p].todo # <<>> /\ request[p].at = "add"
    BY <1>5, <1>t
    DEF autoscaler!Add, autoscaler!TypeInv, autoscaler!NeverIdle, autoscaler!Asleep
  <2>2. Head(request[p].todo) \in autoscaler!Names
    BY <2>1 DEF autoscaler!Working
  <2>3. ~autoscaler!Has(Head(request[p].todo)) /\ autoscaler!Called(p, <<Head(request[p].todo)>> \o thing)
    BY <1>5 DEF autoscaler!Add
  <2> QED
    BY <2>1, <2>2, <2>3, GivenApart, CalledKeeps
<1>6. ASSUME NEW p \in Process, autoscaler!Remove(p) PROVE autoscaler!AutoscalerInv'
  <2>1. PICK i \in DOMAIN thing : autoscaler!Called(p, autoscaler!Without(i))
    BY <1>6 DEF autoscaler!Remove
  <2> QED
    BY <1>6, <2>1, TakenApart, CalledKeeps DEF autoscaler!Remove
<1>7. ASSUME autoscaler!Removed PROVE autoscaler!AutoscalerInv'
  <2>1. PICK i \in DOMAIN thing : thing' = autoscaler!Without(i)
    BY <1>7 DEF autoscaler!Removed
  <2>2. thing' \in Seq(autoscaler!Names) /\ autoscaler!Apart(thing)'
    BY <2>1, TakenApart DEF autoscaler!Apart
  <2>3. UNCHANGED <<row, request>>
    BY <1>7 DEF autoscaler!Removed
  <2> QED
    BY <1>t, <2>2, <2>3
    DEF autoscaler!AutoscalerInv, autoscaler!TypeInv, autoscaler!NeverIdle
<1>8. CASE UNCHANGED autoscaler!vars
  BY <1>t, <1>8
  DEF autoscaler!AutoscalerInv, autoscaler!TypeInv, autoscaler!Apart,
      autoscaler!NeverIdle, autoscaler!vars
<1> QED
  BY <1>1, <1>2, <1>3, <1>4, <1>5, <1>6, <1>7, <1>8 DEF autoscaler!Next

(* As many workers as names at most. *)
LEMMA AutoscalerBounds == autoscaler!AutoscalerInv => autoscaler!NeverTooMany
<1> SUFFICES ASSUME autoscaler!AutoscalerInv
             PROVE  Len(thing) <= MaxWorkers
  BY DEF autoscaler!NeverTooMany
<1> DEFINE n == Len(thing)
<1>1. n \in Nat /\ thing \in [1 .. n -> autoscaler!Names]
  BY DEF autoscaler!AutoscalerInv, autoscaler!TypeInv
<1>2. \A i, j \in 1 .. n : thing[i] = thing[j] => i = j
  BY <1>1 DEF autoscaler!AutoscalerInv, autoscaler!Apart
<1>3. IsFiniteSet(autoscaler!Names) /\ Cardinality(autoscaler!Names) = MaxWorkers
  <2>1. autoscaler!Names = 0 .. MaxWorkers - 1 /\ MaxWorkers - 1 \in Int
    BY WorkersAssumption DEF autoscaler!Names
  <2>2. /\ IsFiniteSet(0 .. MaxWorkers - 1)
        /\ Cardinality(0 .. MaxWorkers - 1) =
             IF 0 > MaxWorkers - 1 THEN 0 ELSE MaxWorkers - 1 - 0 + 1
    BY <2>1, FS_Interval
  <2> QED
    BY <2>1, <2>2, WorkersAssumption
<1>4. IsFiniteSet(1 .. n) /\ Cardinality(1 .. n) = n
  <2>1. /\ IsFiniteSet(1 .. n)
        /\ Cardinality(1 .. n) = IF 1 > n THEN 0 ELSE n - 1 + 1
    BY <1>1, FS_Interval
  <2> QED
    BY <1>1, <2>1
<1> HIDE DEF n
<1>5. thing \in Injection(1 .. n, autoscaler!Names)
  BY <1>1, <1>2 DEF Injection, IsInjective
<1>6. Cardinality(1 .. n) <= Cardinality(autoscaler!Names)
  BY <1>3, <1>5, FS_Injection DEF ExistsInjection
<1> QED
  BY <1>3, <1>4, <1>6 DEF n

-----------------------------------------------------------------------------
LEMMA OutputStarts == output!Init => output!OutputInv
BY NoneAssumption
DEF output!Init, output!OutputInv, output!TypeInv, output!LineSet, output!Requests,
    output!UnusedBefore, output!AloneWithOwn, output!Nested, output!OwnLines,
    output!Active, output!Idle

LEMMA OutputStep ==
  output!OutputInv /\ [output!Next]_(output!vars) => output!OutputInv'
<1> SUFFICES ASSUME output!OutputInv, [output!Next]_(output!vars) PROVE output!OutputInv'
  OBVIOUS
<1> USE NoneAssumption DEF output!Active
<1>t. /\ row \in Client \cup {None}
      /\ thing \in [Client -> SUBSET output!LineSet]
      /\ request \in [Client -> output!Requests]
      /\ past \in [met : SUBSET Client, torn : BOOLEAN]
      /\ \A c \in Client : /\ request[c].printed \in Nat
                           /\ request[c].saved \in Client \cup {None}
                           /\ request[c].under \subseteq Client
                           /\ request[c].at \in {"idle", "saved", "running", "left", "ended"}
  BY DEF output!OutputInv, output!TypeInv, output!Requests
<1>i. /\ output!UnusedBefore /\ output!AloneWithOwn /\ output!Nested /\ output!OwnLines
  BY DEF output!OutputInv
<1>1. ASSUME NEW c \in Client, output!Save(c) PROVE output!OutputInv'
  <2> DEFINE others == {d \in Client : output!Active(d)}
             begun == [at |-> "saved", saved |-> row, printed |-> 0, log |-> {},
                       under |-> others]
  <2>1. /\ row' = row /\ thing' = thing
        /\ request[c].at = "idle" /\ request' = [request EXCEPT ![c] = begun]
        /\ past' = [past EXCEPT !.met = IF others = {} THEN @ ELSE @ \cup others \cup {c}]
    BY <1>1 DEF output!Save
  <2>2. /\ begun = [at |-> "saved", saved |-> row, printed |-> 0, log |-> {}, under |-> others]
        /\ others \subseteq Client
    OBVIOUS
  <2>3. /\ past' = [met |-> past'.met, torn |-> past.torn]
        /\ past'.met = IF others = {} THEN past.met ELSE past.met \cup others \cup {c}
    BY <1>t, <2>1
  <2>4. output!TypeInv'
    <3> HIDE DEF others, begun
    <3>1. begun \in output!Requests
      BY <1>t, <2>2 DEF output!Requests
    <3>2. past' \in [met : SUBSET Client, torn : BOOLEAN]
      BY <1>t, <2>2, <2>3
    <3> QED
      BY <1>t, <2>1, <3>1, <3>2 DEF output!TypeInv
  <2>5. /\ request'[c] = begun
        /\ \A d \in Client : d # c => request'[d] = request[d]
        /\ \A d \in Client : d \in others <=> request[d].at \in {"saved", "running"}
        /\ request'[c].at = "saved" /\ request'[c].saved = row
        /\ request'[c].printed = 0 /\ request'[c].under = others
    BY <1>t, <2>1, <2>2
  <2> HIDE DEF begun, others
  <2>6. output!UnusedBefore'
    BY <1>t, <1>i, <2>1, <2>5 DEF output!UnusedBefore
  <2>7. output!AloneWithOwn'
    BY <1>t, <1>i, <2>1, <2>3, <2>5 DEF output!UnusedBefore, output!AloneWithOwn, output!Lines
  <2>8. output!Nested'
    BY <1>t, <1>i, <2>1, <2>2, <2>3, <2>5 DEF output!UnusedBefore, output!Nested
  <2>9. output!OwnLines'
    BY <1>t, <1>i, <2>3, <2>5 DEF output!OwnLines, output!Lines
  <2> QED
    BY <2>4, <2>6, <2>7, <2>8, <2>9 DEF output!OutputInv
<1>2. ASSUME NEW c \in Client, output!Redirect(c) PROVE output!OutputInv'
  <2>1. /\ row' = c /\ thing' = thing /\ past' = past
        /\ request[c].at = "saved" /\ request' = [request EXCEPT ![c].at = "running"]
    BY <1>2 DEF output!Redirect
  <2>2. output!TypeInv'
    BY <1>t, <2>1 DEF output!TypeInv, output!Requests
  <2>3. /\ request'[c].at = "running" /\ request'[c].saved = request[c].saved
        /\ request'[c].printed = request[c].printed /\ request'[c].under = request[c].under
        /\ \A d \in Client : d # c => request'[d] = request[d]
    BY <1>t, <2>1 DEF output!Requests
  <2>4. output!UnusedBefore'
    BY <1>t, <1>i, <2>1, <2>3 DEF output!UnusedBefore
  <2>5. output!AloneWithOwn'
    BY <1>t, <1>i, <2>1, <2>3 DEF output!UnusedBefore, output!AloneWithOwn, output!Lines
  <2>6. output!Nested'
    BY <1>t, <1>i, <2>1, <2>3 DEF output!Nested
  <2>7. output!OwnLines'
    BY <1>t, <1>i, <2>1, <2>3 DEF output!OwnLines, output!Lines
  <2> QED
    BY <2>2, <2>4, <2>5, <2>6, <2>7 DEF output!OutputInv
<1>3. ASSUME NEW c \in Client, output!Prints(c) PROVE output!OutputInv'
  <2> DEFINE n == request[c].printed + 1
  <2>1. /\ row' = row /\ past' = past /\ request[c].at = "running"
        /\ request' = [request EXCEPT ![c].printed = n]
        /\ thing' = [b \in Client |-> IF b = row THEN thing[b] \cup {<<c, n>>} ELSE thing[b]]
    BY <1>3 DEF output!Prints
  <2>2. output!TypeInv'
    BY <1>t, <2>1 DEF output!TypeInv, output!Requests, output!LineSet
  <2>3. /\ request'[c].at = "running" /\ request'[c].saved = request[c].saved
        /\ request'[c].printed = n /\ request'[c].under = request[c].under
        /\ \A d \in Client : d # c => request'[d] = request[d]
    BY <1>t, <2>1 DEF output!Requests
  <2>4. output!UnusedBefore'
    BY <1>t, <1>i, <2>1, <2>3 DEF output!UnusedBefore
  <2>5. output!AloneWithOwn'
    <3> SUFFICES ASSUME NEW d \in Client, d \notin past.met,
                        request'[d].at \in {"running", "left"}
                 PROVE  thing'[d] = output!Lines(d)'
      BY <1>t, <1>i, <2>1, <2>3 DEF output!AloneWithOwn
    <3>1. CASE d = c
      <4>1. row = c /\ thing[c] = output!Lines(c)
        BY <1>i, <2>1, <3>1 DEF output!AloneWithOwn
      <4>2. 1 .. n = (1 .. request[c].printed) \cup {n}
        BY <1>t
      <4> QED
        BY <2>1, <2>3, <3>1, <4>1, <4>2 DEF output!Lines
    <3>2. CASE d # c
      <4>1. row # d /\ thing[d] = output!Lines(d)
        BY <1>i, <2>1, <2>3, <3>2 DEF output!AloneWithOwn
      <4> QED
        BY <2>1, <2>3, <3>2, <4>1 DEF output!Lines
    <3> QED
      BY <3>1, <3>2
  <2>6. output!Nested'
    BY <1>t, <1>i, <2>1, <2>3 DEF output!Nested
  <2>7. output!OwnLines'
    BY <1>t, <1>i, <2>1, <2>3 DEF output!OwnLines, output!Lines
  <2> QED
    BY <2>2, <2>4, <2>5, <2>6, <2>7 DEF output!OutputInv
<1>4. ASSUME NEW c \in Client, output!Restore(c) PROVE output!OutputInv'
  <2>1. /\ row' = request[c].saved /\ thing' = thing /\ request[c].at = "running"
        /\ request' = [request EXCEPT ![c].at = "left"]
        /\ past' = [past EXCEPT !.torn = past.torn \/ output!Tears(c)]
    BY <1>4 DEF output!Restore
  <2>2. /\ past'.met = past.met /\ past' \in [met : SUBSET Client, torn : BOOLEAN]
        /\ past'.torn <=> past.torn \/ output!Tears(c)
    BY <1>t, <2>1
  <2>3. output!TypeInv'
    BY <1>t, <2>1, <2>2 DEF output!TypeInv, output!Requests
  <2>4. /\ request'[c].at = "left" /\ request'[c].saved = request[c].saved
        /\ request'[c].printed = request[c].printed /\ request'[c].under = request[c].under
        /\ \A d \in Client : d # c => request'[d] = request[d]
    BY <1>t, <2>1 DEF output!Requests
  <2>5. output!UnusedBefore'
    BY <1>t, <1>i, <2>1, <2>4 DEF output!UnusedBefore
  <2>6. output!AloneWithOwn'
    BY <1>t, <1>i, <2>1, <2>2, <2>4 DEF output!AloneWithOwn, output!Lines
  <2>7. output!Nested'
    BY <1>t, <1>i, <2>1, <2>2, <2>4 DEF output!Nested, output!Tears
  <2>8. output!OwnLines'
    BY <1>t, <1>i, <2>2, <2>4 DEF output!OwnLines, output!Lines
  <2> QED
    BY <2>3, <2>5, <2>6, <2>7, <2>8 DEF output!OutputInv
<1>5. ASSUME NEW c \in Client, output!Return(c) PROVE output!OutputInv'
  <2>1. /\ row' = row /\ thing' = thing /\ past' = past /\ request[c].at = "left"
        /\ request' = [request EXCEPT ![c].at = "ended", ![c].log = thing[c]]
    BY <1>5 DEF output!Return
  <2>2. output!TypeInv'
    <3>1. \A x \in output!Requests : \A l \in SUBSET output!LineSet :
            [x EXCEPT !.at = "ended", !.log = l] \in output!Requests
      BY DEF output!Requests
    <3>2. [request[c] EXCEPT !.at = "ended", !.log = thing[c]] \in output!Requests
      BY <1>t, <3>1
    <3> QED
      BY <1>t, <2>1, <3>2 DEF output!TypeInv
  <2>3. /\ request'[c].at = "ended" /\ request'[c].saved = request[c].saved
        /\ request'[c].printed = request[c].printed /\ request'[c].under = request[c].under
        /\ request'[c].log = thing[c]
        /\ \A d \in Client : d # c => request'[d] = request[d]
    BY <1>t, <2>1 DEF output!Requests
  <2>4. output!UnusedBefore'
    BY <1>t, <1>i, <2>1, <2>3 DEF output!UnusedBefore
  <2>5. output!AloneWithOwn'
    BY <1>t, <1>i, <2>1, <2>3 DEF output!AloneWithOwn, output!Lines
  <2>6. output!Nested'
    BY <1>t, <1>i, <2>1, <2>3 DEF output!Nested
  <2>7. output!OwnLines'
    BY <1>t, <1>i, <2>1, <2>3 DEF output!OwnLines, output!AloneWithOwn, output!Lines
  <2> QED
    BY <2>2, <2>4, <2>5, <2>6, <2>7 DEF output!OutputInv
<1>6. CASE UNCHANGED output!vars
  BY <1>6
  DEF output!vars, output!OutputInv, output!TypeInv, output!UnusedBefore,
      output!AloneWithOwn, output!Nested, output!OwnLines, output!Lines
<1> QED
  BY <1>1, <1>2, <1>3, <1>4, <1>5, <1>6 DEF output!Next
-----------------------------------------------------------------------------
ServicesInv ==
  /\ focus = "serving" => serving!ServingInv
  /\ focus = "alerts" => alerts!AlertsInv
  /\ focus = "gateway" => gateway!GatewayInv
  /\ focus = "autoscaler" => autoscaler!AutoscalerInv
  /\ focus = "output" => output!OutputInv

LEMMA ServicesStart == MCInit => ServicesInv
BY ServingStarts, AlertsStart, GatewayStarts, AutoscalerStarts, OutputStarts
DEF MCInit, ServicesInv

LEMMA ServicesStep == ServicesInv /\ [MCNext]_vars => ServicesInv'
<1> SUFFICES ASSUME ServicesInv, [MCNext]_vars PROVE ServicesInv'
  OBVIOUS
<1>1. focus' = focus
  BY DEF MCNext, vars
<1>2. ASSUME focus = "serving" PROVE serving!ServingInv'
  BY <1>2, ServingStep DEF MCNext, vars, ServicesInv, serving!vars
<1>3. ASSUME focus = "alerts" PROVE alerts!AlertsInv'
  BY <1>3, AlertsStep DEF MCNext, vars, ServicesInv, alerts!vars
<1>4. ASSUME focus = "gateway" PROVE gateway!GatewayInv'
  BY <1>4, GatewayStep DEF MCNext, vars, ServicesInv, gateway!vars
<1>5. ASSUME focus = "autoscaler" PROVE autoscaler!AutoscalerInv'
  BY <1>5, AutoscalerStep DEF MCNext, vars, ServicesInv, autoscaler!vars
<1>6. ASSUME focus = "output" PROVE output!OutputInv'
  BY <1>6, OutputStep DEF MCNext, vars, ServicesInv, output!vars
<1> QED
  BY <1>1, <1>2, <1>3, <1>4, <1>5, <1>6 DEF ServicesInv

LEMMA ServicesHold == MCSpec => []ServicesInv
BY ServicesStart, ServicesStep, PTL DEF MCSpec

(* For any number of requests, models and ports, and any crash of a server or restart
   of the backend: a prediction comes from the server that was started for the row,
   unless that server has died or was killed and its port went to another, or two
   deployments were given one port before either listened; a server that no row names
   is about to get one, or its deployment was refused because another of the same
   model overtook it (main.py 2122-2139, 2146-2172). *)
THEOREM ServersAnswerForTheirRows == MCSpec => []OwnServer
BY ServingPredicts, ServicesHold, PTL DEF ServicesInv, OwnServer

(* For any number of evaluations at once: an evaluation sends its notification exactly
   if its record turned the alert to triggered, unless another one recorded between its
   read and its record, the alert was deleted or the process died (alerts.py 4-6, 29,
   50-55). *)
THEOREM IncidentsToldOnce == MCSpec => []ToldPerIncident
<1>1. ASSUME alerts!AlertsInv PROVE alerts!ToldPerIncident
  BY <1>1 DEF alerts!AlertsInv
<1> QED
  BY <1>1, ServicesHold, PTL DEF ServicesInv, ToldPerIncident

(* For any window and limit, and any number of requests of one process: of the
   calls that were alone in the limiter no window holds more than
   requests_per_minute (ai_gateway.py 19-33).  The invariant behind it: a request
   that runs alone has found, in the list, every such call that still counts, so
   the list is shorter than the limit only if they are fewer too. *)
THEOREM RateIsKept == MCSpec => []RateKept
BY GatewayKeepsRate, ServicesHold, PTL DEF ServicesInv, RateKept

(* For any number of backends on one host, and any failure of Docker: no more
   workers than MAX_EXTRA_WORKERS, because a name is given once and only names
   below the maximum are asked for (autoscaler.py 77, 87-89).  It needs that
   MIN_EXTRA_WORKERS is not above the maximum. *)
THEOREM WorkersBounded == MCSpec => []NeverTooMany
BY AutoscalerBounds, ServicesHold, PTL DEF ServicesInv, NeverTooMany

(* For any number of calls of run_python at once: the log of a call that overlapped no
   other is what it printed, all of it and nothing else, whatever calls before it have
   left sys.stdout at (task_runners.py 59-69). *)
THEOREM LogsAreOwn == MCSpec => []OwnLines
<1>1. ASSUME output!OutputInv PROVE output!OwnLines
  BY <1>1 DEF output!OutputInv
<1> QED
  BY <1>1, ServicesHold, PTL DEF ServicesInv, OwnLines

(* For any number of calls: as long as each ends before those that it began within,
   sys.stdout is the console's when the last has ended (task_runners.py 62-63). *)
THEOREM NestedCallsRestoreStdout == MCSpec => []StdoutComesBack
<1>1. ASSUME output!OutputInv PROVE output!StdoutComesBack
  BY <1>1, NoneAssumption
  DEF output!OutputInv, output!TypeInv, output!Nested, output!StdoutComesBack
<1> QED
  BY <1>1, ServicesHold, PTL DEF ServicesInv, StdoutComesBack
=============================================================================
