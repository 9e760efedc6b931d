---------------------------- MODULE MCComponents ----------------------------
(* Components that share no state: a behaviour is one of one of them, `focus`. *)
EXTENDS Integers, TLC

CONSTANTS
  Request, Client, None, Faults, Page, Url, Model, Port,
  Window, Limit, MaxTime, Process, MinWorkers, MaxWorkers, MaxTasks, MaxLines

ASSUME NoneAssumption ==
  /\ None \notin Request /\ None \notin Client
  /\ None \notin [by : Request, port : Port]
  /\ None \notin [origin : Url, cloned : BOOLEAN, edits : SUBSET Client,
                  staged : SUBSET Client, commits : SUBSET Client]
ASSUME LimitAssumption == Window \in Nat /\ Limit \in Nat
ASSUME WorkersAssumption ==
  MaxWorkers \in Nat /\ MinWorkers \in Int /\ MinWorkers <= MaxWorkers

VARIABLES focus, row, thing, request, past

vars == <<focus, row, thing, request, past>>

lakebase   == INSTANCE Lakebase WITH table <- thing
volumes    == INSTANCE Volumes WITH objects <- thing
repos      == INSTANCE GitRepos WITH Request <- Client, tree <- thing, remote <- past
serving    == INSTANCE Serving WITH deployment <- row, servers <- thing
alerts     == INSTANCE Alerts WITH Request <- Client, alert <- row, holds <- thing
gateway    == INSTANCE AIGateway WITH Request <- Client, route <- row, calls <- thing
billing    == INSTANCE Billing WITH user <- row, stripe <- thing
autoscaler == INSTANCE Autoscaler WITH workers <- thing, tasks <- row,
                                       controller <- request
output     == INSTANCE PythonOutput WITH Request <- Client, stdout <- row, text <- thing

MCInit ==
  \/ focus = "lakebase" /\ lakebase!Init
  \/ focus = "volumes" /\ volumes!Init
  \/ focus = "repos" /\ repos!Init
  \/ focus = "serving" /\ serving!Init
  \/ focus = "alerts" /\ alerts!Init
  \/ focus = "gateway" /\ gateway!Init
  \/ focus = "billing" /\ billing!Init
  \/ focus = "autoscaler" /\ autoscaler!Init /\ past = None
  \/ focus = "output" /\ output!Init

MCNext ==
  /\ \/ focus = "lakebase" /\ lakebase!Next
     \/ focus = "volumes" /\ volumes!Next
     \/ focus = "repos" /\ repos!Next
     \/ focus = "serving" /\ serving!Next
     \/ focus = "alerts" /\ alerts!Next
     \/ focus = "gateway" /\ gateway!Next
     \/ focus = "billing" /\ billing!Next
     \/ focus = "autoscaler" /\ autoscaler!Next /\ UNCHANGED past
     \/ focus = "output" /\ output!Next
  /\ UNCHANGED focus

MCSpec == MCInit /\ [][MCNext]_vars

(* Lakebase.OwnTable: a row has its own table. *)
OwnTable == focus = "lakebase" => lakebase!OwnTable

(* Volumes.ShowsOwn: a volume shows its own objects. *)
ShowsOwn == focus = "volumes" => volumes!ShowsOwn

(* GitRepos.ToldPushed: who is told that his commit is done has it pushed. *)
ToldPushed == focus = "repos" => repos!ToldPushed

(* Serving.OwnServer: a row's predictions are its server's, and a server has a
   row. *)
OwnServer == focus = "serving" => serving!OwnServer

(* Alerts.ToldPerIncident: an incident is notified once. *)
ToldPerIncident == focus = "alerts" => alerts!ToldPerIncident

(* AIGateway.RateKept: no more calls per window than allowed. *)
RateKept == focus = "gateway" => gateway!RateKept

(* Billing.PaidIsLinked: what is paid is linked to the user. *)
PaidIsLinked == focus = "billing" => billing!PaidIsLinked

(* Autoscaler.NeverTooMany: no more workers than the maximum. *)
NeverTooMany == focus = "autoscaler" => autoscaler!NeverTooMany

(* PythonOutput.OwnLines: the log of a call that met no other is its own. *)
OwnLines == focus = "output" => output!OwnLines

(* PythonOutput.StdoutComesBack: nested calls leave stdout as it was. *)
StdoutComesBack == focus = "output" => output!StdoutComesBack

Symmetry == Permutations(Request) \cup Permutations(Client) \cup Permutations(Url)
              \cup Permutations(Model) \cup Permutations(Port)
=============================================================================
