------------------------------ MODULE Billing ------------------------------
(***************************************************************************)
(* How one user comes to a metered subscription (backend/app/billing.py     *)
(* 42-74, main.py 2220-2243): checkout requests create a Stripe customer    *)
(* and a session, the user pays at Stripe, and Stripe calls the webhook,    *)
(* late, twice, or not in order.  Stripe calls again after an error, and    *)
(* never after a 200.                                                       *)
(***************************************************************************)
EXTENDS FiniteSets

CONSTANTS
  Request,  \* checkout requests; they name the customers they create
  None,
  Faults    \* "crash": the process dies

VARIABLES
  user,     \* stripe_customer_id and stripe_subscription_item_id; a subscription
            \* is named for the checkout it was paid at
  stripe,   \* the customer of each checkout's session, the sessions that are paid,
            \* and the calls of the webhook that Stripe has had a 200 for
  request,  \* where each checkout is, and the customer id it works with
  past      \* subscriptions that were linked, checkouts that ran beside another

vars == <<user, stripe, request, past>>

At(pc, customer) == [at |-> pc, customer |-> customer]

Init ==
  /\ user = [customer |-> None, item |-> None]
  /\ stripe = [session |-> [r \in Request |-> None], paid |-> {}, answered |-> {}]
  /\ request = [r \in Request |-> At("idle", None)]
  /\ past = [linked |-> {}, beside |-> {}]

Busy(r) == request[r].at \in {"customer", "session", "commit"}

(* billing_checkout: the user as the request's session has loaded it. *)
Load(r) ==
  /\ request[r].at = "idle"
  /\ request' = [request EXCEPT ![r] = At("customer", user.customer)]
  /\ LET others == {q \in Request : Busy(q)}
     IN  past' = IF others = {} THEN past
                 ELSE [past EXCEPT !.beside = @ \cup {r} \cup others]
  /\ UNCHANGED <<user, stripe>>

(* Mutant: a new customer for every checkout. *)
CustomerAlways(r) ==
  /\ request[r].at = "customer"
  /\ request' = [request EXCEPT ![r] = At("session", r)]
  /\ UNCHANGED <<user, stripe, past>>

(* A customer is created if there is none. *)
Customer(r) ==
  /\ request[r].at = "customer"
  /\ request' = [request EXCEPT ![r] =
       At("session", IF request[r].customer = None THEN r ELSE request[r].customer)]
  /\ UNCHANGED <<user, stripe, past>>

Session(r) ==
  /\ request[r].at = "session"
  /\ stripe' = [stripe EXCEPT !.session[r] = request[r].customer]
  /\ request' = [request EXCEPT ![r].at = "commit"]
  /\ UNCHANGED <<user, past>>

(* Stripe fails, and the request with it. *)
StripeFails(r) ==
  /\ request[r].at \in {"customer", "session"}
  /\ request' = [request EXCEPT ![r] = At("failed", None)]
  /\ UNCHANGED <<user, stripe, past>>

(* The id is written if this request has set it; then the url goes out. *)
Commit(r) ==
  /\ request[r].at = "commit"
  /\ user' = IF request[r].customer = r THEN [user EXCEPT !.customer = r] ELSE user
  /\ request' = [request EXCEPT ![r].at = "given"]
  /\ UNCHANGED <<stripe, past>>

(* The user pays at a url he was given. *)
Pay(r) ==
  /\ request[r].at = "given"
  /\ r \notin stripe.paid
  /\ stripe' = [stripe EXCEPT !.paid = @ \cup {r}]
  /\ UNCHANGED <<user, request, past>>

Links(r) == stripe.session[r] = user.customer

(* stripe_webhook and handle_checkout_completed: without a user for the customer
   it is a 200 that does nothing.  A call that was answered may come again. *)
Webhook(r) ==
  /\ r \in stripe.paid
  /\ stripe' = [stripe EXCEPT !.answered = @ \cup {r}]
  /\ user' = IF Links(r) THEN [user EXCEPT !.item = r] ELSE user
  /\ past' = IF Links(r) THEN [past EXCEPT !.linked = @ \cup {r}] ELSE past
  /\ UNCHANGED request

Crash ==
  /\ "crash" \in Faults
  /\ \E r \in Request : Busy(r)
  /\ request' = [r \in Request |-> IF Busy(r) THEN At("failed", None) ELSE request[r]]
  /\ UNCHANGED <<user, stripe, past>>

Next ==
  \/ \E r \in Request :
       \/ Load(r) \/ Customer(r) \/ Session(r) \/ StripeFails(r) \/ Commit(r)
       \/ Pay(r) \/ Webhook(r)
  \/ Crash

Spec == Init /\ [][Next]_vars
-----------------------------------------------------------------------------
(* A payment whose webhook was answered is the user's subscription, or was
   until a later one: no webhook finds the customer unknown, since the url goes
   out after the commit (main.py 2225-2228), unless two checkouts overlapped, each with
   a customer of its own, and the id committed last hides the other. *)
PaidIsLinked ==
  \A r \in stripe.answered : r \in past.linked \/ r \in past.beside
-----------------------------------------------------------------------------
(* The inductive invariant. *)
TypeInv ==
  /\ user \in [customer : Request \cup {None}, item : Request \cup {None}]
  /\ stripe \in [session : [Request -> Request \cup {None}], paid : SUBSET Request,
                 answered : SUBSET Request]
  /\ request \in [Request ->
       [at : {"idle", "customer", "session", "commit", "given", "failed"},
        customer : Request \cup {None}]]
  /\ past \in [linked : SUBSET Request, beside : SUBSET Request]

Alone(r) == r \notin past.beside

(* While a checkout runs alone no other is under way, and it works with the
   user's customer or with one that it has made. *)
RunsAlone ==
  \A r \in Request : Busy(r) /\ Alone(r) =>
    /\ \A q \in Request : Busy(q) => q = r
    /\ request[r].at = "customer" => request[r].customer = user.customer
    /\ request[r].at # "customer" =>
         request[r].customer = r \/ request[r].customer = user.customer
    /\ request[r].at # "customer" => request[r].customer # None
    /\ request[r].at = "commit" => stripe.session[r] = request[r].customer

(* When its url is out, the user's customer is the session's, and nobody is
   going to write another. *)
CustomerSettled ==
  \A r \in Request : request[r].at = "given" /\ Alone(r) =>
    /\ user.customer # None
    /\ stripe.session[r] = user.customer
    /\ \A q \in Request : Busy(q) => request[q].customer = user.customer

PaidIsGiven == \A r \in stripe.paid \cup stripe.answered : request[r].at = "given"

BillingInv == TypeInv /\ RunsAlone /\ CustomerSettled /\ PaidIsGiven /\ PaidIsLinked
=============================================================================
