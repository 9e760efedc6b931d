------------------------------ MODULE MCAccess ------------------------------
(* Users, governance and sharing share no state here: a behaviour is one of one
   of them, `focus`. *)
EXTENDS Naturals, TLC

CONSTANTS Request, Client, New, Name, Role, Column, Table, None, TTL, MaxTime, MaxRows, Faults

ASSUME NoneAssumption ==
  /\ None \notin Request /\ None \notin Client /\ None \notin Table
  /\ None \notin Name /\ None \notin New \cup {"admin"} /\ None \notin BOOLEAN
  /\ None \notin [name : Name, active : BOOLEAN]
ASSUME AdminAssumption == "admin" \in Name
ASSUME TTLAssumption == TTL \in Nat

VARIABLES focus, row, thing, request, past

vars == <<focus, row, thing, request, past>>

accounts   == INSTANCE Accounts WITH Request <- Client, users <- row, holds <- thing
governance == INSTANCE Governance WITH table <- row, grants <- thing
sharing    == INSTANCE Sharing WITH share <- row, links <- thing

MCInit ==
  \/ focus = "accounts" /\ accounts!Init
  \/ focus = "governance" /\ governance!Init
  \/ focus = "sharing" /\ sharing!Init

MCNext ==
  /\ \/ focus = "accounts" /\ accounts!Next
     \/ focus = "governance" /\ governance!Next
     \/ focus = "sharing" /\ sharing!Next
  /\ UNCHANGED focus

MCSpec == MCInit /\ [][MCNext]_vars

(* Accounts.DisabledStaysOut: a deactivated user makes no calls. *)
DisabledStaysOut ==
  [][focus = "accounts" =>
       \A r \in Client :
         request[r].at = "user" /\ request'[r].at = "call"
           => request[r].user \notin past.off]_vars

(* Governance.QueriesUnderRules: queries run under the rules that were set. *)
QueriesUnderRules == focus = "governance" => governance!QueriesUnderRules

(* Governance.RevokeEnds: a revoke takes the access away, unless grants overlapped. *)
RevokeEnds == [][focus = "governance" => governance!RevokeEnds]_vars

(* Sharing.RevokedInTime: what is unshared is unreadable after TTL. *)
RevokedInTime == focus = "sharing" => sharing!RevokedInTime

(* Sharing.ProfileWorks: the profile handed out last has the token in force. *)
ProfileWorks == focus = "sharing" => sharing!ProfileWorks

Symmetry == Permutations(Request) \cup Permutations(Client) \cup Permutations(Role)
              \cup Permutations(Column) \cup Permutations(Table)
=============================================================================
