------------------------------ MODULE GitRepos ------------------------------
(***************************************************************************)
(* One repository name (backend/app/main.py 1963-2047, git_repos.py): the   *)
(* row, the working tree at /notebooks/<name> that all requests share       *)
(* without a lock, and the remotes.  Edits are those of notebooks and       *)
(* users; an edit is named for the request that its author commits it with. *)
(***************************************************************************)
CONSTANTS
  Request,  \* requests, each of which does one thing
  Url,      \* remotes
  None,     \* no row, no tree
  Faults    \* "crash": the process dies

VARIABLES
  row,      \* models.GitRepo: who created it, its remote, last_sync_status
  tree,     \* the tree: its origin, whether it is cloned; edits, those of them that
            \* are staged in its index instead, and commits
  remote,   \* the commits at each remote
  request   \* where each request is, what it has loaded, whether it has staged its
            \* edit, and the edits it committed

vars == <<row, tree, remote, request>>

At(pc, id, url) == 
  [at |-> pc, id |-> id, url |-> url, added |-> FALSE, took |-> {}]
Goto(r, pc) == request' = [request EXCEPT ![r].at = pc]

Init ==
  /\ row = None
  /\ tree = None
  /\ remote = [u \in Url |-> {}]
  /\ request = [r \in Request |-> At("idle", None, None)]

(* create_git_repo: the name is free (and the secret exists). *)
Check(r, url) ==
  /\ request[r].at = "idle"
  /\ row = None
  /\ request' = [request EXCEPT ![r] = At("fetch", None, url)]
  /\ UNCHANGED <<row, tree, remote>>

(* sync_git_repo and commit_git_repo load the row. *)
Load(r, pc) ==
  /\ row # None
  /\ <<request[r].at, pc>> \in {<<"idle", "fetch">>, <<"edited", "commit">>}
  /\ request' = [request EXCEPT ![r] = At(pc, row.id, row.url)]
  /\ UNCHANGED <<row, tree, remote>>

(* clone_or_pull where there is no .git: the clone begins by making it. *)
BeginClone(r) ==
  /\ request[r].at = "fetch"
  /\ tree = None
  /\ tree' = [origin |-> request[r].url, cloned |-> FALSE, edits |-> {}, staged |-> {},
               commits |-> {}]
  /\ Goto(r, "clone")
  /\ UNCHANGED <<row, remote>>

(* It succeeds, fails and takes the tree with it, or is killed after 120 s and
   leaves what there is. *)
Cloned(r) ==
  /\ request[r].at = "clone"
  /\ \/ /\ tree' = [tree EXCEPT !.cloned = TRUE, !.commits = @ \cup remote[tree.origin]]
        /\ Goto(r, "ok")
     \/ /\ tree' \in {None, tree}
        /\ Goto(r, "error")
  /\ UNCHANGED <<row, remote>>

(* clone_or_pull where there is one: it pulls from the tree's origin, not from
   the url of the row.  It completes a clone that was killed, but not one that
   another request is still at. *)
Pull(r) ==
  /\ request[r].at = "fetch"
  /\ tree # None
  /\ \/ /\ tree' = [tree EXCEPT !.cloned = \A q \in Request : request[q].at # "clone",
                               !.commits = @ \cup remote[tree.origin]]
        /\ Goto(r, "ok")
     \/ /\ UNCHANGED tree
        /\ Goto(r, "error")
  /\ UNCHANGED <<row, remote>>

(* What came of it is stored in the row: a new one, also after an error, or the
   one that was loaded, if it is still there. *)
Record(r) ==
  /\ request[r].at \in {"ok", "error"}
  /\ row' = CASE request[r].id = None /\ row = None ->
                   [id |-> r, url |-> request[r].url, status |-> request[r].at]
              [] row # None /\ row.id = request[r].id ->
                   [row EXCEPT !.status = request[r].at]
              [] OTHER -> row
  /\ Goto(r, "ended")
  /\ UNCHANGED <<tree, remote>>

(* The author of an edit makes it, and then asks for a commit. *)
Edit(r) ==
  /\ request[r].at = "idle"
  /\ tree # None /\ tree.cloned
  /\ tree' = [tree EXCEPT !.edits = @ \cup {r}]
  /\ Goto(r, "edited")
  /\ UNCHANGED <<row, remote>>

(* commit_and_push: git add -A stages every edit, whoever made it; *)
Add(r) ==
  /\ request[r].at = "commit"
  /\ tree # None
  /\ tree' = [tree EXCEPT !.staged = @ \cup tree.edits, !.edits = {}]
  /\ request' = [request EXCEPT ![r].at = "added", ![r].added = TRUE]
  /\ UNCHANGED <<row, remote>>

(* or none (an index lock of another request, a timeout), and nobody looks. *)
AddFails(r) ==
  /\ request[r].at = "commit"
  /\ request' = [request EXCEPT ![r].at = "added", ![r].added = FALSE]
  /\ UNCHANGED <<row, tree, remote>>

(* git commit takes what is staged; *)
Commit(r) ==
  /\ request[r].at = "added"
  /\ tree # None
  /\ tree.staged # {}
  /\ tree' = [tree EXCEPT !.commits = @ \cup tree.staged, !.staged = {}]
  /\ request' = [request EXCEPT ![r].at = "push", ![r].took = tree.staged]
  /\ UNCHANGED <<row, remote>>

(* with "nothing to commit" it is done, but not with "no changes added to commit". *)
NothingStaged(r) ==
  /\ request[r].at = "added"
  /\ tree # None
  /\ tree.staged = {}
  /\ Goto(r, IF tree.edits = {} THEN "told" ELSE "failed")
  /\ UNCHANGED <<row, tree, remote>>

(* The commit fails (an index lock of another request), or is killed after 120 s,
   perhaps when it is done. *)
CommitFails(r) ==
  /\ request[r].at = "added"
  /\ tree # None
  /\ \/ /\ Goto(r, "failed")
        /\ UNCHANGED tree
     \/ /\ request' = [request EXCEPT ![r].at = "failed", ![r].took = tree.staged]
        /\ tree' = [tree EXCEPT !.commits = @ \cup tree.staged, !.staged = {}]
  /\ UNCHANGED <<row, remote>>

(* Mutant: the push is to the tree's origin. *)
PushToOrigin(r) ==
  /\ request[r].at = "push"
  /\ tree # None
  /\ remote' = [remote EXCEPT ![tree.origin] = @ \cup tree.commits]
  /\ Goto(r, "told")
  /\ UNCHANGED <<row, tree>>

(* git push to the row's url, with all commits of the tree. *)
Push(r) ==
  /\ request[r].at = "push"
  /\ tree # None
  /\ remote' = [remote EXCEPT ![request[r].url] = @ \cup tree.commits]
  /\ Goto(r, "told")
  /\ UNCHANGED <<row, tree>>

(* It is rejected, fails or takes too long: the commit stays in the tree. *)
PushFails(r) ==
  /\ request[r].at = "push"
  /\ Goto(r, "failed")
  /\ UNCHANGED <<row, tree, remote>>

(* delete_git_repo leaves the tree. *)
Delete ==
  /\ row # None
  /\ row' = None
  /\ UNCHANGED <<tree, remote, request>>

Busy(r) == request[r].at \notin {"idle", "edited", "ended", "told", "failed"}

Crash ==
  /\ "crash" \in Faults
  /\ \E r \in Request : Busy(r)
  /\ request' = [r \in Request |->
       IF Busy(r) THEN [request[r] EXCEPT !.at = "failed"] ELSE request[r]]
  /\ UNCHANGED <<row, tree, remote>>

Next ==
  \/ \E r \in Request :
       \/ \E url \in Url : Check(r, url)
       \/ \E pc \in {"fetch", "commit"} : Load(r, pc)
       \/ BeginClone(r) \/ Cloned(r) \/ Pull(r) \/ Record(r)
       \/ Edit(r) \/ Add(r) \/ AddFails(r)
       \/ Commit(r) \/ NothingStaged(r) \/ CommitFails(r)
       \/ Push(r) \/ PushFails(r)
  \/ Delete
  \/ Crash

Spec == Init /\ [][Next]_vars
-----------------------------------------------------------------------------
(* Another request took the edit along in its commit, and its push went wrong,
   is still to come, or went elsewhere. *)
HeldByAnother(e, url) ==
  \E q \in Request \ {e} :
    e \in request[q].took /\ (request[q].at # "told" \/ request[q].url # url)

(* Its git add failed, which nobody saw, and its commit took what others had staged. *)
CommittedOthers(r) == ~request[r].added /\ request[r].took # {}

(* Who is told that his commit is done has his edit at the remote of the row he
   asked it for, whatever remote the tree was cloned from.  There are two ways out
   of that: another request committed the edit first, and he was told "nothing to
   commit" before, or although, that one's push succeeded; and his add failed, but
   not his commit, of another's edit (git_repos.py 55-63). *)
ToldPushed ==
  \A r \in Request : request[r].at = "told" =>
    \/ r \in remote[request[r].url]
    \/ HeldByAnother(r, request[r].url)
    \/ CommittedOthers(r)
-----------------------------------------------------------------------------
(* The inductive invariant. *)
Pc == {"idle", "fetch", "clone", "ok", "error", "edited", "commit", "added", "push",
       "told", "ended", "failed"}
Rows == [id : Request, url : Url, status : {"ok", "error"}]
Trees == [origin : Url, cloned : BOOLEAN, edits : SUBSET Request, staged : SUBSET Request,
          commits : SUBSET Request]
Requests == [at : Pc, id : Request \cup {None}, url : Url \cup {None}, added : BOOLEAN,
             took : SUBSET Request]

TypeInv ==
  /\ row \in Rows \cup {None}
  /\ tree \in Trees \cup {None}
  /\ remote \in [Url -> SUBSET Request]
  /\ request \in [Request -> Requests]
  /\ \A r \in Request :
       request[r].at \in {"fetch", "clone", "ok", "error", "commit", "added", "push", "told"}
         => request[r].url \in Url

(* One request clones, and the tree it clones is nobody's work yet. *)
CloneIsFresh ==
  \A p \in Request : request[p].at = "clone" =>
    /\ tree # None /\ ~tree.cloned /\ tree.edits = {} /\ tree.staged = {}
    /\ \A q \in Request : request[q].took = {} /\ (request[q].at = "clone" => q = p)

(* What a request has committed is in the tree, and at its remote once it is told. *)
TookIsCommitted ==
  \A q \in Request :
    /\ request[q].took # {} => tree # None /\ request[q].took \subseteq tree.commits
    /\ request[q].took # {} => request[q].at \in {"push", "told", "failed"}
    /\ request[q].at = "push" => request[q].took # {}
    /\ request[q].at = "told" => request[q].took \subseteq remote[request[q].url]

Taken(e) == \E q \in Request \ {e} : e \in request[q].took

(* An edit is in the tree, then staged, then in a commit, then at the remote, or
   another request has taken it, or its own commit was of others. *)
EditGoesOn ==
  \A r \in Request :
    /\ request[r].at \in {"edited", "commit", "added"} =>
         tree # None /\ (r \in tree.edits \cup tree.staged \/ Taken(r))
    /\ request[r].at = "added" /\ request[r].added => r \in tree.staged \/ Taken(r)
    /\ request[r].at = "push" => tree # None /\ (r \in tree.commits \/ ~request[r].added)
    /\ request[r].at = "told" =>
         r \in remote[request[r].url] \/ Taken(r) \/ CommittedOthers(r)

ReposInv == TypeInv /\ CloneIsFresh /\ TookIsCommitted /\ EditGoesOn
=============================================================================
