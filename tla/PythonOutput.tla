---------------------------- MODULE PythonOutput ----------------------------
(***************************************************************************)
(* run_python (backend/app/task_runners.py 55-69): a python task or an     *)
(* ad-hoc snippet runs on a thread of the backend, and its output is taken *)
(* by redirecting sys.stdout, of which a process has one.  The executor    *)
(* calls it for the tasks of a layer at once (executor.py 162-169), and    *)
(* requests and other runs beside it (main.py 2290-2297).  sys.stderr goes *)
(* the same way on its own.  What a process has in memory ends with it.    *)
(***************************************************************************)
EXTENDS Naturals

CONSTANTS
  Request,  \* calls of run_python
  None,
  MaxLines  \* bound on what a call prints

VARIABLES
  stdout,   \* the call whose buffer sys.stdout is, None for the console
  text,     \* the lines in the buffer of each call: who printed them, and their number
  request,  \* where each call is, the stdout it found, how many lines it has printed,
            \* the log it returned; and the calls under way when it began
  past      \* calls that overlapped another; whether one has ended before a later one

vars == <<stdout, text, request, past>>

Idle == [at |-> "idle", saved |-> None, printed |-> 0, log |-> {}, under |-> {}]

(* Between __enter__ and __exit__ of redirect_stdout. *)
Active(c) == request[c].at \in {"saved", "running"}

Init ==
  /\ stdout = None
  /\ text = [c \in Request |-> {}]
  /\ request = [c \in Request |-> Idle]
  /\ past = [met |-> {}, torn |-> FALSE]

(* __enter__ notes the stdout there is, *)
Save(c) ==
  /\ request[c].at = "idle"
  /\ LET others == {d \in Request : Active(d)}
     IN  /\ request' = [request EXCEPT ![c] =
              [at |-> "saved", saved |-> stdout, printed |-> 0, log |-> {}, under |-> others]]
         /\ past' = [past EXCEPT !.met = IF others = {} THEN @ ELSE @ \cup others \cup {c}]
  /\ UNCHANGED <<stdout, text>>

(* Mutant: stdout that is redirected stays as it is. *)
RedirectOnce(c) ==
  /\ request[c].at = "saved"
  /\ stdout' = IF stdout = None THEN c ELSE stdout
  /\ request' = [request EXCEPT ![c].at = "running"]
  /\ UNCHANGED <<text, past>>

(* and puts the call's buffer in its place. *)
Redirect(c) ==
  /\ request[c].at = "saved"
  /\ stdout' = c
  /\ request' = [request EXCEPT ![c].at = "running"]
  /\ UNCHANGED <<text, past>>

(* exec prints to whatever stdout is now. *)
Prints(c) ==
  /\ request[c].at = "running"
  /\ request[c].printed < MaxLines
  /\ LET n == request[c].printed + 1
     IN  /\ request' = [request EXCEPT ![c].printed = n]
         /\ text' = [b \in Request |-> IF b = stdout THEN text[b] \cup {<<c, n>>} ELSE text[b]]
  /\ UNCHANGED <<stdout, past>>

(* A call ends while one that has begun after it is under way. *)
Tears(c) == \E d \in Request : Active(d) /\ c \in request[d].under

(* Mutant: not every way out of the snippet restores stdout. *)
RestoreSometimes(c) ==
  /\ request[c].at = "running"
  /\ stdout' \in {stdout, request[c].saved}
  /\ request' = [request EXCEPT ![c].at = "left"]
  /\ past' = [past EXCEPT !.torn = @ \/ Tears(c)]
  /\ UNCHANGED text

(* __exit__, after an exception too, brings back the stdout that was noted. *)
Restore(c) ==
  /\ request[c].at = "running"
  /\ stdout' = request[c].saved
  /\ request' = [request EXCEPT ![c].at = "left"]
  /\ past' = [past EXCEPT !.torn = @ \/ Tears(c)]
  /\ UNCHANGED text

(* The log is what is in the buffer then, and a traceback if the snippet raised. *)
Return(c) ==
  /\ request[c].at = "left"
  /\ request' = [request EXCEPT ![c].at = "ended", ![c].log = text[c]]
  /\ UNCHANGED <<stdout, text, past>>

Next ==
  \E c \in Request : Save(c) \/ Redirect(c) \/ Prints(c) \/ Restore(c) \/ Return(c)

Spec == Init /\ [][Next]_vars
-----------------------------------------------------------------------------
Lines(c) == {<<c, n>> : n \in 1 .. request[c].printed}

(* A call that overlapped no other has exactly its own lines in its log, whatever
   calls before it have left sys.stdout at (task_runners.py 59-69). *)
OwnLines ==
  \A c \in Request : request[c].at = "ended" /\ c \notin past.met => request[c].log = Lines(c)

(* When no call is under way, stdout is the console's again, unless a call has ended
   before one that had begun after it: nested calls undo each other's redirections
   (task_runners.py 62-63). *)
StdoutComesBack == (\A c \in Request : ~Active(c)) /\ ~past.torn => stdout = None
-----------------------------------------------------------------------------
(* The inductive invariant. *)
LineSet == Request \X Nat
Requests ==
  [at : {"idle", "saved", "running", "left", "ended"}, saved : Request \cup {None},
   printed : Nat, log : SUBSET LineSet, under : SUBSET Request]

TypeInv ==
  /\ stdout \in Request \cup {None}
  /\ text \in [Request -> SUBSET LineSet]
  /\ request \in [Request -> Requests]
  /\ past \in [met : SUBSET Request, torn : BOOLEAN]

(* Nobody holds the buffer of a call that has not redirected yet, *)
UnusedBefore ==
  \A c \in Request : request[c].at \in {"idle", "saved"} =>
    /\ stdout # c /\ text[c] = {} /\ request[c].printed = 0
    /\ \A d \in Request : request[d].saved # c \/ request[d].at = "idle"

(* a call that met no other is alone with its buffer until it returns, *)
AloneWithOwn ==
  \A c \in Request \ past.met :
    /\ Active(c) => \A d \in Request : Active(d) => d = c
    /\ request[c].at = "running" => stdout = c
    /\ Active(c) => request[c].saved # c
    /\ request[c].at = "left" =>
         stdout # c /\ \A d \in Request : Active(d) => request[d].saved # c
    /\ request[c].at \in {"running", "left"} => text[c] = Lines(c)

(* and while calls nest, each holds the stdout of one under way that began before
   it, or the console's. *)
Nested ==
  ~past.torn =>
    /\ stdout # None => Active(stdout)
    /\ \A c \in Request : Active(c) =>
         /\ c \notin request[c].under
         /\ request[c].saved \in request[c].under \cup {None}
         /\ \A d \in request[c].under : Active(d)

OutputInv == TypeInv /\ UnusedBefore /\ AloneWithOwn /\ Nested /\ OwnLines
=============================================================================
