----------------------------- MODULE WorkQueue -----------------------------
(***************************************************************************)
(* The Manager's durable materialization queue: requests, tasks, claims,   *)
(* results and published snapshots, kept as separate records of the shared *)
(* artifact store and changed by one active Manager at a time.             *)
(*                                                                         *)
(* The queue's lock makes each operation exclusive, but an operation is a  *)
(* series of single-record writes.  With Interrupts an operation may stop  *)
(* after any of them: the process died, its leadership term ended (every   *)
(* later write is refused by the store), or the store raised an error and  *)
(* the same Manager carries on.  Subsets of the tasks stand for "the tasks *)
(* written so far", whatever order the hashed task ids give.               *)
(*                                                                         *)
(* Times are the ticks left until a deadline, a claim's expiry or the end  *)
(* of a back-off, so the clock needs no bound.                             *)
(***************************************************************************)
EXTENDS Integers, Sequences

CONSTANTS
    Tables, Splits, Agents,
    LeaseTicks,      \* task_lease_seconds
    DeadlineTicks,   \* a request's deadline, from its creation
    MaxAttempts,     \* max_attempts
    RetryBase,       \* retry_backoff_seconds
    RetryMax,        \* retry_max_seconds
    Elastic,         \* membership policy: elastic (TRUE) or fixed (FALSE)
    Iceberg,         \* TABLE_FORMAT: iceberg (TRUE) or delta (FALSE)
    Interrupts,      \* whether an operation may stop between two writes
    Lapses,          \* whether the coordinator's lease may run out unreplaced
    MaxGen,          \* bound on coordinator generations
    MaxTokens,       \* bound on claims ever issued
    MaxTerm,         \* bound on Manager terms (activations)
    MaxLease,        \* bound on registrations of one Agent
    MaxWorkerFence,  \* bound on a worker's fence
    MaxCreates,      \* bound on creations of the same request
    MaxRetries       \* bound on operator retries

ASSUME QueueAssumption ==
    /\ LeaseTicks \in Nat \ {0} /\ DeadlineTicks \in Nat \ {0}
    /\ MaxAttempts \in Nat \ {0}
    /\ RetryBase \in Nat /\ RetryMax \in Nat /\ RetryBase <= RetryMax
    /\ Elastic \in BOOLEAN /\ Iceberg \in BOOLEAN /\ Interrupts \in BOOLEAN /\ Lapses \in BOOLEAN
    /\ MaxGen \in Nat \ {0} /\ MaxTokens \in Nat /\ MaxTerm \in Nat \ {0}
    /\ MaxLease \in Nat /\ MaxWorkerFence \in Nat
    /\ MaxCreates \in Nat /\ MaxRetries \in Nat

VARIABLES
    term,       \* the Manager's leadership term
    phase,      \* how far the Manager's activation has come
    gen,        \* the coordinator's generation (its id, fence and plan)
    genLive,    \* whether the coordinator's lease is unexpired
    lease,      \* each Agent's registration lease, 0 if unregistered
    roster,     \* the generations that have a membership record
    member,     \* the workers of each generation's membership record
    req,        \* request records
    task,       \* task records
    res,        \* result records: the attempts of each task that have one
    idem,       \* requests with an idempotency record
    cmd,        \* the commands issued; a claim token is an index
    objects,    \* the claim tokens whose staged output exists
    snapshot,   \* the published snapshot record of each table
    meta,       \* the outputs each table's metadata objects refer to
    plan,       \* in memory: the outputs of each table's snapshot state
    built,      \* in memory: the outputs its built Iceberg manifest refers to
    pub,        \* the publication in progress for each request
    created,    \* how often each request was created
    retries,    \* how many operator retries were made
    cut         \* history: requests whose deletion by prune_terminal was cut short

qvars == <<req, task, res, idem>>
envvars == <<gen, genLive, lease>>
memvars == <<roster, member>>
pubvars == <<snapshot, meta, plan, built, pub>>
counts == <<created, retries, cut>>
vars == <<term, phase, gen, genLive, lease, roster, member, req, task, res, idem, cmd,
          objects, snapshot, meta, plan, built, pub, created, retries, cut>>

----------------------------------------------------------------------------
(* Records *)

Generations == 1..MaxGen
Requests == Tables \X Generations       \* the identity create_request hashes
Tasks == Requests \X Splits

TableOf(r) == r[1]
GenOf(r) == r[2]
ReqOf(k) == k[1]
TasksOf(r) == {r} \X Splits

Terminal == {"SUCCEEDED", "FAILED", "CANCELLED"}
Active == {"QUEUED", "CLAIMED", "RETRY_WAIT", "EXPIRED"}
TaskStates == Terminal \cup Active

AbsentTask == [state |-> "ABSENT", attempt |-> 0, wait |-> 0, left |-> 0,
               claim |-> 0, cleft |-> 0, out |-> 0]

NewTask == [AbsentTask EXCEPT !.state = "QUEUED", !.left = DeadlineTicks]

AbsentReq == [state |-> "ABSENT", ready |-> FALSE, published |-> FALSE]
NewReq == [AbsentReq EXCEPT !.state = "QUEUED"]

NoOutputs == [s \in Splits |-> 0]
NoSnapshot == [req |-> <<>>, objs |-> NoOutputs]
NoPub == [stage |-> "idle", objs |-> NoOutputs]

Present(tk, k) == tk[k].state # "ABSENT"
Exists(rq, r) == rq[r].state # "ABSENT"

Smaller(x, y) == IF x < y THEN x ELSE y

Init ==
    /\ term = 1
    /\ phase = "down"
    /\ gen = 1
    /\ genLive = TRUE
    /\ lease = [a \in Agents |-> 0]
    /\ roster = {}
    /\ member = [g \in Generations |->
                   [a \in Agents |-> [state |-> "absent", fence |-> 0, lease |-> 0]]]
    /\ req = [r \in Requests |-> AbsentReq]
    /\ task = [k \in Tasks |-> AbsentTask]
    /\ res = [k \in Tasks |-> {}]
    /\ idem = {}
    /\ cmd = <<>>
    /\ objects = {}
    /\ snapshot = [t \in Tables |-> NoSnapshot]
    /\ meta = [t \in Tables |-> NoOutputs]
    /\ plan = [t \in Tables |-> NoOutputs]
    /\ built = [t \in Tables |-> NoOutputs]
    /\ pub = [r \in Requests |-> NoPub]
    /\ created = [r \in Requests |-> 0]
    /\ retries = 0
    /\ cut = {}

----------------------------------------------------------------------------
(* _refresh_requests, from the tasks tk and the requests rq it reads *)

Open(rq, r) == rq[r].state \in Active /\ ~rq[r].published

\* Mutant: one succeeded task makes the request succeed.
RefreshedByAny(tk, r) ==
    IF \E k \in TasksOf(r) : tk[k].state = "SUCCEEDED" THEN "SUCCEEDED" ELSE "QUEUED"

RefreshedState(tk, r) ==
    LET states == {tk[k].state : k \in {j \in TasksOf(r) : Present(tk, j)}}
    IN  IF states = {"SUCCEEDED"} THEN "SUCCEEDED"
        ELSE IF "FAILED" \in states THEN "FAILED"
        ELSE IF "CLAIMED" \in states THEN "CLAIMED"
        ELSE IF "RETRY_WAIT" \in states THEN "RETRY_WAIT"
        ELSE "QUEUED"

Unclaimed(x, st) == [x EXCEPT !.state = st, !.claim = 0, !.cleft = 0]

\* The unfinished siblings of a failed task.
Doomed(tk, rq) ==
    {k \in Tasks : /\ Open(rq, ReqOf(k))
                   /\ RefreshedState(tk, ReqOf(k)) = "FAILED"
                   /\ tk[k].state \in Active}

CancelThese(tk, D) ==
    [k \in Tasks |-> IF k \in D THEN Unclaimed(tk[k], "CANCELLED") ELSE tk[k]]

RefreshThese(tk, rq, E) ==
    [r \in Requests |-> IF r \in E THEN [rq[r] EXCEPT !.state = RefreshedState(tk, r)]
                                   ELSE rq[r]]

OpenRequests(rq) == {r \in Requests : Open(rq, r)}
RefreshTasks(tk, rq) == CancelThese(tk, Doomed(tk, rq))
RefreshReqs(tk, rq) == RefreshThese(tk, rq, OpenRequests(rq))

\* An operation's last part: its task writes tk have been made, now refresh.
\* A request is rewritten after its doomed tasks.
Refresh(tk, rq) ==
    \/ /\ task' = RefreshTasks(tk, rq)
       /\ req' = RefreshReqs(tk, rq)
    \/ /\ Interrupts
       /\ \E D \in SUBSET Doomed(tk, rq), E \in SUBSET OpenRequests(rq) :
            /\ \A k \in Doomed(tk, rq) : ReqOf(k) \in E => k \in D
            /\ task' = CancelThese(tk, D)
            /\ req' = RefreshThese(tk, rq, E)

\* An operation stopped while it was changing the tasks from old to new.
WriteSome(old, new) ==
    /\ Interrupts
    /\ \E D \in SUBSET {k \in Tasks : new[k] # old[k]} :
         task' = [k \in Tasks |-> IF k \in D THEN new[k] ELSE old[k]]

----------------------------------------------------------------------------
(* expire_claims *)

Exhausted(x) == x.attempt >= MaxAttempts \/ x.left = 0

ClaimLapsed(x) == x.state = "CLAIMED" /\ (x.cleft = 0 \/ x.left = 0)

Requeue(x) ==
    [Unclaimed(x, IF Exhausted(x) THEN "FAILED" ELSE "QUEUED") EXCEPT !.wait = 0]

\* Mutant: the deadline of a task nobody claimed is not looked at.
ExpireClaimedOnly(x) == IF ClaimLapsed(x) THEN Requeue(x) ELSE x

ExpireTask(x) ==
    IF x.state \in {"QUEUED", "RETRY_WAIT"} /\ x.left = 0
    THEN [x EXCEPT !.state = "FAILED"]
    ELSE IF ClaimLapsed(x) THEN Requeue(x) ELSE x

ExpireAll(tk) == [k \in Tasks |-> ExpireTask(tk[k])]

ExpireClaims ==
    /\ phase = "active"
    /\ \/ Refresh(ExpireAll(task), req)
       \/ WriteSome(task, ExpireAll(task)) /\ UNCHANGED req
       \/ /\ Interrupts      \* between the two writes of an expired claim
          /\ \E k \in Tasks :
               /\ ClaimLapsed(task[k])
               /\ task' = [task EXCEPT ![k] = [Unclaimed(@, "EXPIRED") EXCEPT !.wait = 0]]
          /\ UNCHANGED req
    /\ UNCHANGED <<term, phase, envvars, memvars, res, idem, cmd, objects, pubvars, counts>>

----------------------------------------------------------------------------
(* create_request, for the current generation.  With an idempotency record *)
(* it returns the existing request and changes nothing.                    *)

CreateRequest(t) ==
    LET r == <<t, gen>>
        fresh(D) == [k \in Tasks |-> IF k \in TasksOf(r) /\ k[2] \in D THEN NewTask ELSE task[k]]
    IN  /\ phase = "active"
        /\ r \notin idem
        /\ created[r] < MaxCreates
        /\ created' = [created EXCEPT ![r] = @ + 1]
        /\ \/ /\ req' = [req EXCEPT ![r] = [NewReq EXCEPT !.ready = TRUE]]
              /\ task' = fresh(Splits)
              /\ \/ idem' = idem \cup {r}
                 \/ Interrupts /\ UNCHANGED idem
           \/ /\ Interrupts
              /\ req' = [req EXCEPT ![r] = NewReq]
              /\ \E D \in SUBSET Splits : task' = fresh(D)
              /\ UNCHANGED idem
        /\ UNCHANGED <<term, phase, envvars, memvars, res, cmd, objects, pubvars, retries,
                       cut>>

----------------------------------------------------------------------------
(* Claims *)

Runnable(k) ==
    /\ task[k].state \in {"QUEUED", "RETRY_WAIT"}
    /\ task[k].wait = 0
    /\ Exists(req, ReqOf(k)) /\ req[ReqOf(k)].ready

\* The worker fence of a claim.  A task that became runnable after the pass
\* reconciled the memberships is claimed for any Agent, with fence 0.
ClaimFences(g, a) ==
    {0} \cup {f \in {member[g][a].fence} : member[g][a].state = "active"}

\* dispatch_once gives a runnable task of the current generation to a member;
\* which of the eligible Agents is a matter of load and placement.
ClaimTask(k, a) ==
    LET attempt == task[k].attempt + 1
    IN  /\ phase = "active"
        /\ Runnable(k)
        /\ GenOf(ReqOf(k)) = gen
        /\ lease[a] > 0
        /\ Len(cmd) < MaxTokens
        /\ \/ \E f \in ClaimFences(gen, a) :
              /\ task' = [task EXCEPT ![k] =
                            [@ EXCEPT !.state = "CLAIMED", !.attempt = attempt,
                                      !.claim = Len(cmd) + 1,
                                      !.cleft = Smaller(LeaseTicks, task[k].left)]]
              /\ cmd' = Append(cmd, [task |-> k, agent |-> a, lease |-> lease[a],
                                     fence |-> f, term |-> term,
                                     attempt |-> attempt, outcome |-> "pending"])
           \/ /\ Interrupts /\ task[k].state = "RETRY_WAIT"
              /\ task' = [task EXCEPT ![k].state = "QUEUED"]
              /\ UNCHANGED cmd
        /\ UNCHANGED <<term, phase, envvars, memvars, req, res, idem, objects, pubvars,
                       counts>>

\* The Agent left the registry before its command could be queued.
ReleaseClaim(c) ==
    LET k == cmd[c].task
    IN  /\ phase = "active"
        /\ cmd[c].outcome = "pending"
        /\ task[k].state = "CLAIMED" /\ task[k].claim = c
        /\ Refresh([task EXCEPT ![k] = [Unclaimed(@, "RETRY_WAIT") EXCEPT !.wait = 0]], req)
        /\ cmd' = [cmd EXCEPT ![c].outcome = "dropped"]
        /\ UNCHANGED <<term, phase, envvars, memvars, res, idem, objects, pubvars, counts>>

\* A heartbeat names the tasks an Agent is executing, by task id: it renews the
\* current claim even when the Agent still runs an earlier one of that task.
RenewClaim(k) ==
    LET c == task[k].claim
    IN  /\ phase = "active"
        /\ task[k].state = "CLAIMED" /\ task[k].cleft > 0
        /\ cmd[c].lease = lease[cmd[c].agent]
        /\ \E d \in DOMAIN cmd : /\ cmd[d].task = k /\ cmd[d].agent = cmd[c].agent
                                 /\ cmd[d].outcome = "pending"
        /\ task' = [task EXCEPT ![k].cleft = Smaller(LeaseTicks, task[k].left)]
        /\ UNCHANGED <<term, phase, envvars, memvars, req, res, idem, cmd, objects, pubvars,
                       counts>>

----------------------------------------------------------------------------
(* accept_result *)

RetryDelay(attempt) == Smaller(RetryMax, RetryBase * 2 ^ (attempt - 1))

\* The worker that claimed c is still a member, under the same lease and fence.
MembershipStands(m, c) ==
    m[cmd[c].agent] = [state |-> "active", fence |-> cmd[c].fence, lease |-> cmd[c].lease]

\* Mutant: the claim token is not compared.
HoldsWithoutToken(tk, c) ==
    /\ tk[cmd[c].task].state = "CLAIMED"
    /\ lease[cmd[c].agent] = cmd[c].lease

\* The claim, the registration and the membership still stand.
ClaimHolds(tk, c) ==
    LET k == cmd[c].task
        g == GenOf(ReqOf(k))
    IN  /\ tk[k].state = "CLAIMED" /\ tk[k].claim = c
        /\ lease[cmd[c].agent] = cmd[c].lease
        /\ g \notin roster \/ MembershipStands(member[g], c)

Completed(x, c) ==
    IF cmd[c].outcome = "ok"
    THEN [Unclaimed(x, "SUCCEEDED") EXCEPT !.out = c]
    ELSE IF cmd[c].outcome = "retry" /\ x.attempt < MaxAttempts
         THEN [Unclaimed(x, "RETRY_WAIT") EXCEPT !.wait = RetryDelay(x.attempt), !.out = 0]
         ELSE [Unclaimed(x, "FAILED") EXCEPT !.out = 0]

OpenTasks(tk, r) == {k \in TasksOf(r) : tk[k].state \in Active}

\* cancel_request, on the tasks tk and the requests rq
Cancel(tk, rq, r) ==
    \/ /\ task' = CancelThese(tk, OpenTasks(tk, r))
       /\ req' = [rq EXCEPT ![r].state = "CANCELLED"]
    \/ /\ Interrupts
       /\ \E D \in SUBSET OpenTasks(tk, r) : task' = CancelThese(tk, D)
       /\ req' = rq

\* _verify_output: the staged object is there, whole, with the reported rows.
OutputVerified(c) == c \in objects

\* The result of command c arrives, once or again, in time or late.
AcceptResult(c) ==
    LET k == cmd[c].task
        tk == RefreshTasks(ExpireAll(task), req)
        rq == RefreshReqs(ExpireAll(task), req)
        done == [tk EXCEPT ![k] = Completed(tk[k], c)]
    IN  /\ phase = "active"
        /\ cmd[c].outcome \in {"ok", "retry", "fatal"}
        /\ cmd[c].attempt \notin res[k]
        /\ \/ /\ ~ClaimHolds(tk, c)
              /\ task' = tk /\ req' = rq /\ UNCHANGED res
           \/ /\ ClaimHolds(tk, c) /\ GenOf(ReqOf(k)) # gen
              /\ Cancel(tk, rq, ReqOf(k))
              /\ UNCHANGED res
           \/ /\ ClaimHolds(tk, c) /\ GenOf(ReqOf(k)) = gen
              /\ cmd[c].outcome = "ok" /\ ~OutputVerified(c)
              /\ task' = tk /\ req' = rq /\ UNCHANGED res
           \/ /\ ClaimHolds(tk, c) /\ GenOf(ReqOf(k)) = gen
              /\ cmd[c].outcome = "ok" => OutputVerified(c)
              /\ \/ /\ Refresh(done, rq)
                    /\ res' = [res EXCEPT ![k] = @ \cup {cmd[c].attempt}]
                 \/ /\ Interrupts
                    /\ task' = done /\ req' = rq /\ UNCHANGED res
        /\ UNCHANGED <<term, phase, envvars, memvars, idem, cmd, objects, pubvars, counts>>

----------------------------------------------------------------------------
(* Operator and scheduler cancellation, operator retry *)

CancelRequest(r) ==
    /\ phase = "active"
    /\ Exists(req, r)
    /\ Cancel(task, req, r)
    /\ UNCHANGED <<term, phase, envvars, memvars, res, idem, cmd, objects, pubvars, counts>>

\* dispatch_once cancels the request of a runnable task whose generation was
\* replaced.
FenceGeneration(r) ==
    /\ GenOf(r) # gen
    /\ \E k \in TasksOf(r) : Runnable(k)
    /\ CancelRequest(r)

RetryTask(k) ==
    LET r == ReqOf(k)
        queued == [task EXCEPT ![k] = NewTask]
    IN  /\ phase = "active"
        /\ task[k].state = "FAILED"
        /\ Exists(req, r) /\ ~req[r].published
        /\ retries < MaxRetries
        /\ retries' = retries + 1
        /\ res' = [res EXCEPT ![k] = {}]
        /\ \/ task' = queued /\ req' = [req EXCEPT ![r].state = "QUEUED"]
           \/ Interrupts /\ task' \in {task, queued} /\ UNCHANGED req
        /\ UNCHANGED <<term, phase, envvars, memvars, idem, cmd, objects, pubvars, created,
                       cut>>

----------------------------------------------------------------------------
(* Membership: a dispatch pass calls reconcile_membership and then         *)
(* reassign_fenced_claims for every generation with unfinished tasks.       *)

Reconciled(w, a, live) ==
    LET new == w.state = "absent"
    IN  IF a \in live
        THEN IF new /\ ~Elastic THEN w
             ELSE IF w.state = "active" /\ w.lease = lease[a] THEN w
             ELSE [state |-> "active", fence |-> w.fence + 1, lease |-> lease[a]]
        ELSE IF w.state = "active"
             THEN [w EXCEPT !.state = "departed", !.fence = @ + 1]
             ELSE w

\* The first membership admits every live worker, whatever the policy.
NewMembership(g, live) ==
    [a \in Agents |->
       IF g \in roster THEN Reconciled(member[g][a], a, live)
       ELSE IF a \in live THEN [state |-> "active", fence |-> 1, lease |-> lease[a]]
       ELSE member[g][a]]

Unfinished(g) == \E k \in Tasks : GenOf(ReqOf(k)) = g /\ task[k].state \in Active

\* live: the materializers that are alive, not draining and eligible.  No
\* record is written while there is none yet and nobody is live.
Reconcile(g) ==
    /\ phase = "active"
    /\ Unfinished(g)
    /\ \E live \in SUBSET {a \in Agents : lease[a] > 0} :
         LET m == NewMembership(g, live)
         IN  /\ \A a \in Agents : m[a].fence <= MaxWorkerFence
             /\ member' = [member EXCEPT ![g] = m]
             /\ roster' = IF live = {} THEN roster ELSE roster \cup {g}
    /\ UNCHANGED <<term, phase, envvars, qvars, cmd, objects, pubvars, counts>>

Reassigned(g) ==
    [k \in Tasks |->
       IF task[k].state = "CLAIMED" /\ GenOf(ReqOf(k)) = g
          /\ ~MembershipStands(member[g], task[k].claim)
       THEN [Unclaimed(task[k], "RETRY_WAIT") EXCEPT !.wait = 0]
       ELSE task[k]]

\* A pass that took claims back writes the membership record, even the empty
\* one that reconcile_membership only returned.
ReassignClaims(g) ==
    /\ phase = "active"
    /\ Unfinished(g)
    /\ \/ /\ task' = Reassigned(g)
          /\ roster' = IF task' = task THEN roster ELSE roster \cup {g}
       \/ WriteSome(task, Reassigned(g)) /\ UNCHANGED roster
    /\ UNCHANGED <<term, phase, envvars, member, req, res, idem, cmd, objects, pubvars,
                   counts>>

----------------------------------------------------------------------------
(* Activation of a Manager: recover, fence_claims, prune_terminal *)

\* The process dies, and the next activation is a new term.
Crash ==
    /\ phase # "down"
    /\ term < MaxTerm
    /\ term' = term + 1
    /\ phase' = "down"
    /\ pub' = [r \in Requests |-> NoPub]
    /\ plan' = [t \in Tables |-> NoOutputs]
    /\ built' = [t \in Tables |-> NoOutputs]
    /\ UNCHANGED <<envvars, memvars, qvars, cmd, objects, snapshot, meta, counts>>

Unready == {r \in Requests : Exists(req, r) /\ ~req[r].ready}
Missing(r) == \E k \in TasksOf(r) : ~Present(task, k)

\* Requests after recover's first loop has treated those in R.
RecoveredReq(R) ==
    [r \in Requests |->
       IF r \notin R \/ ~Exists(req, r) THEN req[r]
       ELSE IF ~req[r].ready THEN AbsentReq
       ELSE IF Missing(r) THEN [req[r] EXCEPT !.state = "FAILED"]
       ELSE req[r]]

RecoveredIdem(R) == (idem \cup {r \in R : req[r].ready}) \ (R \cap Unready)

Orphans(rq) == {k \in Tasks : Present(task, k) /\ ~Exists(rq, ReqOf(k))}

\* Mutant: an expired claim is left as it is.
RecoveredOrphans(rq) ==
    [k \in Tasks |-> IF ~Exists(rq, ReqOf(k)) THEN AbsentTask ELSE task[k]]

RecoveredTask(rq) ==
    [k \in Tasks |->
       IF ~Exists(rq, ReqOf(k)) THEN AbsentTask
       ELSE IF task[k].state = "EXPIRED" THEN Requeue(task[k])
       ELSE task[k]]

DropUnready(tk) == [k \in Tasks |-> IF ReqOf(k) \in Unready THEN AbsentTask ELSE tk[k]]

\* Results go with the orphans that recover's second loop has deleted.
RecoveredRes(rq, tk) ==
    [k \in Tasks |-> IF k \in Orphans(rq) /\ ReqOf(k) \notin Unready /\ ~Present(tk, k)
                     THEN {} ELSE res[k]]

Recover ==
    LET rq == RecoveredReq(Requests)
        tk == RecoveredTask(rq)
    IN  /\ phase = "down"
        /\ \/ /\ phase' = "recovered"
              /\ task' = RefreshTasks(ExpireAll(tk), rq)
              /\ req' = RefreshReqs(ExpireAll(tk), rq)
              /\ idem' = RecoveredIdem(Requests)
              /\ res' = RecoveredRes(rq, tk)
           \/ /\ Interrupts /\ UNCHANGED <<phase, res>>       \* in its first loop
              /\ \E R \in SUBSET Requests :
                   /\ req' = RecoveredReq(R)
                   /\ idem' = RecoveredIdem(R)
                   /\ WriteSome(task, DropUnready(task))
                   /\ \A k \in Tasks : ReqOf(k) \in R \cap Unready => ~Present(task', k)
           \/ /\ Interrupts /\ UNCHANGED phase                \* after it
              /\ idem' = RecoveredIdem(Requests)
              /\ \/ WriteSome(DropUnready(task), tk) /\ req' = rq
                 \/ WriteSome(tk, ExpireAll(tk)) /\ req' = rq
                 \/ Refresh(ExpireAll(tk), rq)
              /\ res' = RecoveredRes(rq, task')
        /\ UNCHANGED <<term, envvars, memvars, cmd, objects, pubvars, counts>>

\* Mutant: only the owner of a claim is compared, and a restarted Manager is
\* its own predecessor.
FencedByOwner == task

FencedTasks ==
    [k \in Tasks |-> IF task[k].state = "CLAIMED" /\ cmd[task[k].claim].term # term
                     THEN [Unclaimed(task[k], "RETRY_WAIT") EXCEPT !.wait = 0]
                     ELSE task[k]]

FenceClaims ==
    /\ phase = "recovered"
    /\ \/ /\ phase' = "fenced"
          /\ IF FencedTasks = task
             THEN UNCHANGED <<task, req>>
             ELSE /\ task' = RefreshTasks(FencedTasks, req)
                  /\ req' = RefreshReqs(FencedTasks, req)
       \/ phase' = "down" /\ WriteSome(task, FencedTasks) /\ UNCHANGED req
    /\ UNCHANGED <<term, envvars, memvars, res, idem, cmd, objects, pubvars, counts>>

\* prune_staging: the staged outputs of the request's table and generation,
\* except the kept ones.
Staged(r) == {c \in objects : ReqOf(cmd[c].task) = r}
PruneStaging(r, keep) == objects \ (Staged(r) \ keep)

Prunable(r) ==
    /\ req[r].state \in Terminal
    /\ req[r].state = "SUCCEEDED" => req[r].published

PrunesStaging(r) ==
    /\ ~req[r].published /\ req[r].state \in {"FAILED", "CANCELLED"}
    /\ \E k \in TasksOf(r) : Present(task, k)

DeleteTasks(D) ==
    /\ task' = [k \in Tasks |-> IF k \in D THEN AbsentTask ELSE task[k]]
    /\ res' = [k \in Tasks |-> IF k \in D THEN {} ELSE res[k]]

\* R: the prunable requests older than the retention time.
PruneTerminal ==
    /\ phase = "fenced"
    /\ \/ \E R \in SUBSET {r \in Requests : Prunable(r)} :
            /\ phase' = "active"
            /\ objects' = objects \ UNION {Staged(r) : r \in {q \in R : PrunesStaging(q)}}
            /\ DeleteTasks({k \in Tasks : ReqOf(k) \in R})
            /\ idem' = idem \ R
            /\ req' = [r \in Requests |-> IF r \in R THEN AbsentReq ELSE req[r]]
            /\ cut' = cut \ R
       \/ /\ Interrupts
          /\ phase' = "down"
          /\ \E r \in Requests :
               /\ Prunable(r)
               /\ cut' = cut \cup {r}
               /\ objects' \in {objects, IF PrunesStaging(r) THEN PruneStaging(r, {}) ELSE objects}
               /\ \E D \in SUBSET TasksOf(r) :
                    /\ D # {} => objects' = IF PrunesStaging(r) THEN PruneStaging(r, {}) ELSE objects
                    /\ DeleteTasks(D)
                    /\ \/ UNCHANGED idem
                       \/ D = TasksOf(r) /\ idem' = idem \ {r}
          /\ UNCHANGED req
    /\ UNCHANGED <<term, envvars, memvars, cmd, pubvars, created, retries>>

----------------------------------------------------------------------------
(* materialize_for_key, after create_request: wait, publish, prune *)

\* wait_request returned a SUCCEEDED request.  A caller waits only once its
\* create_request has returned, with the idempotency record in place.
WaitReturns(r) ==
    /\ phase = "active"
    /\ r \in idem
    /\ req[r].state = "SUCCEEDED"
    /\ pub[r].stage = "idle"
    /\ pub' = [pub EXCEPT ![r].stage = "seen"]
    /\ UNCHANGED <<term, phase, envvars, memvars, qvars, cmd, objects, snapshot, meta, plan,
                   built, counts>>

Intact(snap) == \A s \in Splits : snap.objs[s] \in objects

\* The table's snapshot was published by this request already.
PublishExisting(r) ==
    /\ pub[r].stage = "seen"
    /\ snapshot[TableOf(r)].req = r /\ Intact(snapshot[TableOf(r)])
    /\ objects' = PruneStaging(r, {task[k].out : k \in TasksOf(r)})
    /\ pub' = [pub EXCEPT ![r] = NoPub]
    /\ UNCHANGED <<term, phase, envvars, memvars, qvars, cmd, snapshot, meta, plan, built,
                   counts>>

\* Another request published it, or none: publish this one.
PublishStart(r) ==
    LET snap == snapshot[TableOf(r)]
    IN  /\ pub[r].stage = "seen"
        /\ snap.req # r
        /\ snap # NoSnapshot => Intact(snap)
        /\ pub' = [pub EXCEPT ![r].stage = "collect"]
        /\ UNCHANGED <<term, phase, envvars, memvars, qvars, cmd, objects, snapshot, meta,
                       plan, built, counts>>

\* Take over one task's result, into the manifest to be and into the table's
\* snapshot state, which the publications of all requests share.
CollectSplit(r, s) ==
    LET out == task[<<r, s>>].out
    IN  /\ pub[r].stage = "collect" /\ pub[r].objs[s] = 0
        /\ out > 0
        /\ pub' = [pub EXCEPT ![r].objs[s] = out]
        /\ plan' = [plan EXCEPT ![TableOf(r)][s] = out]
        /\ UNCHANGED <<term, phase, envvars, memvars, qvars, cmd, objects, snapshot, meta,
                       built, counts>>

\* What build_manifest_file returns: the bytes it built before, if any.
\* A delta log is invalidated first and so built from the current state.
BuiltOutputs(t) ==
    IF Iceberg /\ built[t] # NoOutputs THEN built[t] ELSE plan[t]

\* _publish_snapshot_objects: plain puts of the table's metadata objects.
PublishObjects(r) ==
    LET t == TableOf(r)
    IN  /\ pub[r].stage = "collect"
        /\ \A s \in Splits : pub[r].objs[s] > 0
        /\ built' = IF Iceberg THEN [built EXCEPT ![t] = BuiltOutputs(t)] ELSE built
        /\ meta' = [meta EXCEPT ![t] = BuiltOutputs(t)]
        /\ pub' = [pub EXCEPT ![r].stage = "commit"]
        /\ UNCHANGED <<term, phase, envvars, memvars, qvars, cmd, objects, snapshot, plan,
                       counts>>

\* Mutant: the manifest is read off the table's snapshot state.
ManifestOfState(r) == [req |-> r, objs |-> plan[TableOf(r)]]

Manifest(r) == [req |-> r, objs |-> pub[r].objs]

\* Mutant: no guard on the generation.
AnyGeneration(r) == TRUE

GenerationStands(r) == GenOf(r) = gen /\ genLive

\* publish_snapshot: the batch is guarded by the coordinator's bytes.
PublishSnapshot(r) ==
    /\ phase = "active"
    /\ pub[r].stage = "commit"
    /\ req[r].state = "SUCCEEDED"
    /\ GenerationStands(r)
    /\ Intact(Manifest(r))
    /\ \A k \in TasksOf(r) : Present(task, k)
    /\ snapshot' = [snapshot EXCEPT ![TableOf(r)] = Manifest(r)]
    /\ \/ /\ req' = [req EXCEPT ![r].published = TRUE]
          /\ pub' = [pub EXCEPT ![r].stage = "prune"]
       \/ /\ Interrupts
          /\ UNCHANGED req
          /\ pub' = [pub EXCEPT ![r] = NoPub]
    /\ UNCHANGED <<term, phase, envvars, memvars, task, res, idem, cmd, objects, meta,
                   plan, built, counts>>

PublishPrune(r) ==
    /\ pub[r].stage = "prune"
    /\ objects' = PruneStaging(r, {pub[r].objs[s] : s \in Splits})
    /\ pub' = [pub EXCEPT ![r] = NoPub]
    /\ UNCHANGED <<term, phase, envvars, memvars, qvars, cmd, snapshot, meta, plan, built,
                   counts>>

\* An exception ends the call: a conflict, a missing result, a lost client.
PublishAbort(r) ==
    /\ pub[r].stage # "idle"
    /\ pub' = [pub EXCEPT ![r] = NoPub]
    /\ UNCHANGED <<term, phase, envvars, memvars, qvars, cmd, objects, snapshot, meta, plan,
                   built, counts>>

----------------------------------------------------------------------------
(* Agents, the generation coordinator and time *)

\* A fresh lease: first registration, or one after a crash or a stale lease.
Register(a) ==
    /\ phase = "active"
    /\ lease[a] < MaxLease
    /\ lease' = [lease EXCEPT ![a] = @ + 1]
    /\ UNCHANGED <<term, phase, gen, genLive, memvars, qvars, cmd, objects, pubvars,
                   counts>>

\* execute_task: stage the output and its completion record under the current
\* generation, or fail.  A drained or dead Agent never gets here.
ExecuteTask(c) ==
    /\ cmd[c].outcome = "pending"
    /\ \/ /\ GenOf(ReqOf(cmd[c].task)) = gen /\ genLive
          /\ cmd' = [cmd EXCEPT ![c].outcome = "ok"]
          /\ objects' = objects \cup {c}
       \/ /\ cmd' \in {[cmd EXCEPT ![c].outcome = o] : o \in {"retry", "fatal"}}
          /\ UNCHANGED objects
    /\ UNCHANGED <<term, phase, envvars, memvars, qvars, pubvars, counts>>

NewGeneration ==
    /\ gen < MaxGen
    /\ gen' = gen + 1
    /\ genLive' = TRUE
    /\ UNCHANGED <<term, phase, lease, memvars, qvars, cmd, objects, pubvars, counts>>

GenerationLapses ==
    /\ Lapses /\ genLive
    /\ genLive' = FALSE
    /\ UNCHANGED <<term, phase, gen, lease, memvars, qvars, cmd, objects, pubvars, counts>>

Less(n) == IF n > 0 THEN n - 1 ELSE 0

Ticked ==
    [k \in Tasks |-> [task[k] EXCEPT !.wait = Less(@), !.left = Less(@), !.cleft = Less(@)]]

Tick ==
    /\ Ticked # task
    /\ task' = Ticked
    /\ UNCHANGED <<term, phase, envvars, memvars, req, res, idem, cmd, objects, pubvars,
                   counts>>

Next ==
    \/ Tick \/ NewGeneration \/ GenerationLapses
    \/ Crash \/ Recover \/ FenceClaims \/ PruneTerminal
    \/ ExpireClaims
    \/ \E t \in Tables : CreateRequest(t)
    \/ \E g \in Generations : Reconcile(g) \/ ReassignClaims(g)
    \/ \E a \in Agents : Register(a)
    \/ \E k \in Tasks : \/ \E a \in Agents : ClaimTask(k, a)
                        \/ RenewClaim(k) \/ RetryTask(k)
    \/ \E c \in DOMAIN cmd : ExecuteTask(c) \/ AcceptResult(c) \/ ReleaseClaim(c)
    \/ \E r \in Requests :
         \/ CancelRequest(r) \/ FenceGeneration(r)
         \/ WaitReturns(r) \/ PublishExisting(r) \/ PublishStart(r)
         \/ \E s \in Splits : CollectSplit(r, s)
         \/ PublishObjects(r) \/ PublishSnapshot(r) \/ PublishPrune(r) \/ PublishAbort(r)

Spec == Init /\ [][Next]_vars

\* wait_request and dispatch_once call expire_claims on every poll, a Manager
\* that is down is restarted or replaced, and time passes.
Fairness ==
    /\ WF_vars(Tick) /\ WF_vars(ExpireClaims)
    /\ WF_vars(Recover) /\ WF_vars(FenceClaims) /\ WF_vars(PruneTerminal)

FairSpec == Spec /\ Fairness

----------------------------------------------------------------------------
(* Properties *)

Tokens == DOMAIN cmd
TokensOf(k) == {c \in Tokens : cmd[c].task = k}
Outputs == [Splits -> 0..MaxTokens]

\* The types of all records (TaskRecord, RequestRecord, claim and manifest of
\* the contract): every claim token and output names an issued command.
TypeOK ==
    /\ term \in 1..MaxTerm
    /\ phase \in {"down", "recovered", "fenced", "active"}
    /\ gen \in Generations /\ genLive \in BOOLEAN
    /\ lease \in [Agents -> 0..MaxLease]
    /\ roster \subseteq Generations
    /\ member \in [Generations -> [Agents ->
         [state : {"absent", "active", "departed"}, fence : 0..MaxWorkerFence,
          lease : 0..MaxLease]]]
    /\ req \in [Requests -> [state : {"ABSENT"} \cup TaskStates, ready : BOOLEAN,
                              published : BOOLEAN]]
    /\ task \in [Tasks -> [state : {"ABSENT"} \cup TaskStates, attempt : 0..MaxTokens,
                            wait : Nat, left : 0..DeadlineTicks, claim : 0..MaxTokens,
                            cleft : 0..LeaseTicks, out : 0..MaxTokens]]
    /\ res \in [Tasks -> SUBSET (1..MaxTokens)]
    /\ idem \subseteq Requests
    /\ cmd \in Seq([task : Tasks, agent : Agents, lease : 0..MaxLease,
                     fence : 0..MaxWorkerFence, term : 1..MaxTerm, attempt : 1..MaxTokens,
                     outcome : {"pending", "dropped", "ok", "retry", "fatal"}])
    /\ Len(cmd) <= MaxTokens
    /\ objects \subseteq Tokens
    /\ snapshot \in [Tables -> [req : {<<>>} \cup Requests, objs : Outputs]]
    /\ meta \in [Tables -> Outputs] /\ plan \in [Tables -> Outputs]
    /\ built \in [Tables -> Outputs]
    /\ pub \in [Requests -> [stage : {"idle", "seen", "collect", "commit", "prune"},
                              objs : Outputs]]
    /\ created \in [Requests -> 0..MaxCreates] /\ retries \in 0..MaxRetries
    /\ cut \subseteq Requests

\* claim_task and accept_result: of all the claims ever issued for a task only
\* the last one counts.  A claimed task holds the latest token, a succeeded one
\* the output of the latest token, which the worker reported as a success.
LatestClaimWins ==
    \A k \in Tasks :
      /\ task[k].state = "CLAIMED" =>
           task[k].claim \in TokensOf(k) /\ \A c \in TokensOf(k) : c <= task[k].claim
      /\ task[k].state = "SUCCEEDED" =>
           /\ task[k].out \in TokensOf(k) /\ cmd[task[k].out].outcome = "ok"
           /\ \A c \in TokensOf(k) : c <= task[k].out

\* _refresh_requests and the order of the writes: to an active Manager a request
\* reads SUCCEEDED and unpublished only while each of its tasks has succeeded and
\* its staged output exists, wherever an earlier operation was interrupted.  Exempt
\* is a request that prune_terminal had begun to delete: retry_task can bring it
\* back to life without the records and outputs that are gone.
SucceededIsPublishable ==
    phase = "active" => \A r \in Requests \ cut :
      req[r].state = "SUCCEEDED" /\ ~req[r].published =>
        \A k \in TasksOf(r) : task[k].state = "SUCCEEDED" /\ task[k].out \in objects

\* publish_snapshot: every split of a published manifest is the output of a
\* successful claim for that very split, under one request, hence one
\* generation and plan.
SnapshotIsOneRequest ==
    \A t \in Tables : snapshot[t] # NoSnapshot =>
      /\ TableOf(snapshot[t].req) = t
      /\ \A s \in Splits :
           LET c == snapshot[t].objs[s]
           IN  c \in TokensOf(<<snapshot[t].req, s>>) /\ cmd[c].outcome = "ok"

\* The coordinator bytes guard publish_snapshot's batch: a snapshot is never
\* replaced by one of an older generation, whichever publication is slower.
SnapshotNeverGoesBack ==
    [][\A t \in Tables : snapshot[t] # NoSnapshot =>
         GenOf(snapshot'[t].req) >= GenOf(snapshot[t].req)]_vars

\* recover: before a Manager dispatches anything, no half-created request, no
\* orphaned task and no task between two states is left, and every request is
\* protected against a second creation.
RecoveryCleansUp ==
    phase \in {"recovered", "fenced"} =>
      /\ \A r \in Requests : Exists(req, r) => req[r].ready /\ r \in idem
      /\ \A k \in Tasks : Present(task, k) =>
           task[k].state # "EXPIRED" /\ Exists(req, ReqOf(k))

\* accept_result never looks at the Manager's term: fence_claims alone makes
\* sure that a task only succeeds by a claim of the term in office, by a worker
\* still registered and a member as it was when it claimed, in the generation
\* still current.
AcceptedWhileInForce ==
    [][\A k \in Tasks :
         task'[k].state = "SUCCEEDED" /\ task[k].state # "SUCCEEDED" =>
           LET c == task'[k].out
               g == GenOf(ReqOf(k))
           IN  /\ cmd[c].term = term
               /\ cmd[c].lease = lease[cmd[c].agent]
               /\ g \notin roster \/ member[g][cmd[c].agent].fence = cmd[c].fence
               /\ g = gen]_vars

\* expire_claims at the deadline: every request that was accepted comes to an
\* end, whatever happens to Agents, generations and Managers.
RequestsFinish ==
    \A r \in Requests :
      []((Exists(req, r) /\ req[r].ready) => <>(req[r].state \in Terminal \cup {"ABSENT"}))
=============================================================================
