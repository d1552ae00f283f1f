-------------------------- MODULE WorkQueueProofs --------------------------
(***************************************************************************)
(* Proofs about WorkQueue, for every set of tables, splits and Agents and  *)
(* every bound, with and without interruptions: only the latest claim of a *)
(* task counts, and only while it is in force; recovery leaves nothing     *)
(* half done; a request that reads SUCCEEDED can be published; a published *)
(* snapshot is the work of one request and never goes back.                *)
(*                                                                         *)
(* The inductive invariant (IInv) comes first, with what the operators do  *)
(* to task records.  Most operations leave a task's outcome alone (Kept):  *)
(* they only move a task or its claim.  The rest of the invariant says     *)
(* which requests can have missing tasks, and what a publication collected.*)
(***************************************************************************)
EXTENDS WorkQueue, TLAPS

-----------------------------------------------------------------------------
(* The inductive invariant *)

Outcomes == {"pending", "dropped", "ok", "retry", "fatal"}
Phases == {"down", "recovered", "fenced", "active"}
Stages == {"idle", "seen", "collect", "commit", "prune"}

\* A task record is one with these fields, a state and a number of attempts.
TaskFields == {"state", "attempt", "wait", "left", "claim", "cleft", "out"}
IsTask(x) == /\ x = [f \in TaskFields |-> x[f]]
             /\ x.state \in {"ABSENT"} \cup TaskStates /\ x.attempt \in Nat

\* Task records by task.
IsTasks(tk) == tk = [k \in Tasks |-> tk[k]] /\ \A k \in Tasks : IsTask(tk[k])

ReqRecs == [state : {"ABSENT"} \cup TaskStates, ready : BOOLEAN, published : BOOLEAN]
Commands == [task : Tasks, agent : Agents, lease : Nat, fence : Nat, term : Nat,
             attempt : Nat, outcome : Outcomes]

Workers == [state : {"absent", "active", "departed"}, fence : Nat, lease : Nat]

\* The types of the variables the properties are about.
ControlTypes ==
    /\ term \in Nat /\ phase \in Phases /\ gen \in Generations
    /\ lease \in [Agents -> Nat]
    /\ member \in [Generations -> [Agents -> Workers]]

PubTypes ==
    /\ snapshot \in [Tables -> [req : {<<>>} \cup Requests, objs : [Splits -> Nat]]]
    /\ pub \in [Requests -> [stage : Stages, objs : [Splits -> Nat]]]

Types ==
    /\ ControlTypes /\ PubTypes
    /\ req \in [Requests -> ReqRecs] /\ idem \subseteq Requests /\ cut \subseteq Requests
    /\ IsTasks(task)
    /\ cmd \in Seq(Commands)
    /\ objects \subseteq Nat \ {0}

\* By the commands cm, c is a claim of task k that its worker reported as a success.
Made(cm, c, k) == c \in DOMAIN cm /\ cm[c].task = k /\ cm[c].outcome = "ok"

\* Every output a record or a publication names was made for its very split.
OutputsMade == \A k \in Tasks : task[k].out # 0 => Made(cmd, task[k].out, k)

CollectedMade ==
    \A r \in Requests, s \in Splits : pub[r].objs[s] # 0 => Made(cmd, pub[r].objs[s], <<r, s>>)

\* A published snapshot is of a request of its table, of this generation or before.
SnapshotsOk ==
    \A t \in Tables : snapshot[t] # NoSnapshot =>
      /\ snapshot[t].req \in Requests /\ TableOf(snapshot[t].req) = t
      /\ GenOf(snapshot[t].req) <= gen
      /\ \A s \in Splits : Made(cmd, snapshot[t].objs[s], <<snapshot[t].req, s>>)

\* fence_claims has left only claims of the term in office.
ClaimsOfTerm ==
    phase \in {"fenced", "active"} =>
      \A k \in Tasks : task[k].state = "CLAIMED" => cmd[task[k].claim].term = term

\* A publication runs in an active Manager, for a request protected against a
\* second creation, which it has marked once it prunes.
PublicationsOk ==
    \A r \in Requests : pub[r].stage # "idle" =>
      /\ phase = "active" /\ r \in idem
      /\ pub[r].stage = "prune" => req[r].published

\* What survives of a request: a task record belongs to a request unless the
\* Manager is down, and only a request without the idempotency record can have
\* been left without its ready mark.
RecordsOk ==
    /\ phase # "down" => \A k \in Tasks : Present(task, k) => Exists(req, ReqOf(k))
    /\ phase # "down" => \A r \in Requests :
         Exists(req, r) /\ r \notin idem => phase = "active" /\ ~req[r].published
    /\ \A r \in cut : Exists(req, r) /\ req[r].ready /\ (phase # "down" => r \in idem)
    /\ \A r \in Requests \ cut : Exists(req, r) /\ req[r].ready =>
         \A k \in TasksOf(r) : Present(task, k)
    /\ phase = "active" => \A r \in Requests \ cut :
         Exists(req, r) /\ (\E j \in TasksOf(r) : ~Present(task, j)) =>
           \A k \in TasksOf(r) : task[k].state \notin {"CLAIMED", "SUCCEEDED"}

\* The outputs of an unpublished request are still there, and a request that
\* reads SUCCEEDED has them all.
OutputsKept ==
    \A r \in Requests \ cut :
      Exists(req, r) /\ ~req[r].published /\ (req[r].ready \/ phase = "active") =>
        /\ \A k \in TasksOf(r) : task[k].state = "SUCCEEDED" => task[k].out \in objects
        /\ req[r].state = "SUCCEEDED" => \A k \in TasksOf(r) : task[k].state = "SUCCEEDED"

IInv == /\ Types /\ LatestClaimWins /\ OutputsMade /\ CollectedMade /\ SnapshotsOk
        /\ ClaimsOfTerm /\ PublicationsOk /\ RecordsOk /\ OutputsKept /\ RecoveryCleansUp
-----------------------------------------------------------------------------
(* What an operation leaves alone *)

\* y is what became of x in an operation that gave it no claim and no result.
Alike(x, y) ==
    /\ IsTask(y)
    /\ y.state = "ABSENT" <=> x.state = "ABSENT"
    /\ y.state = "SUCCEEDED" <=> x.state = "SUCCEEDED"
    /\ y.state = "CLAIMED" => x.state = "CLAIMED" /\ y.claim = x.claim
    /\ y.out = x.out \/ (y.out = 0 /\ y.state # "SUCCEEDED")

\* The same, and x was not left between two states.
Kept(x, y) == Alike(x, y) /\ (y.state = "EXPIRED" => x.state = "EXPIRED")

AllAlike(tk, tk2) == IsTasks(tk2) /\ \A k \in Tasks : Alike(tk[k], tk2[k])
AllKept(tk, tk2) == IsTasks(tk2) /\ \A k \in Tasks : Kept(tk[k], tk2[k])

\* All the tasks of r there are have succeeded, and there is one.
AllDone(tk, r) ==
    /\ \E k \in TasksOf(r) : tk[k].state = "SUCCEEDED"
    /\ \A k \in TasksOf(r) : Present(tk, k) => tk[k].state = "SUCCEEDED"

\* rq2 is what became of the requests rq when they were refreshed or cancelled,
\* and tk of the tasks.
Refreshes(tk, rq, rq2) ==
    /\ rq2 \in [Requests -> ReqRecs]
    /\ \A r \in Requests :
         /\ rq2[r].ready = rq[r].ready /\ rq2[r].published = rq[r].published
         /\ Exists(rq2, r) <=> Exists(rq, r)
         /\ rq2[r].state = "SUCCEEDED" => rq[r].state = "SUCCEEDED" \/ AllDone(tk, r)

\* The commands may have got another outcome, but no success is taken back.
CommandsKept ==
    /\ cmd' \in Seq(Commands) /\ Len(cmd') = Len(cmd)
    /\ \A c \in DOMAIN cmd :
         /\ cmd'[c].task = cmd[c].task /\ cmd'[c].term = cmd[c].term
         /\ cmd[c].outcome = "ok" => cmd'[c].outcome = "ok"

\* The requests and their tasks.
LEMMA TaskFacts ==
    /\ \A r \in Requests : \A k \in TasksOf(r) : k \in Tasks /\ ReqOf(k) = r
    /\ \A k \in Tasks : ReqOf(k) \in Requests /\ k \in TasksOf(ReqOf(k))
    /\ \A r \in Requests, s \in Splits : <<r, s>> \in TasksOf(r)
    /\ \A t \in Tables, g \in Generations :
         <<t, g>> \in Requests /\ TableOf(<<t, g>>) = t /\ GenOf(<<t, g>>) = g
    /\ \A r \in Requests : TableOf(r) \in Tables /\ GenOf(r) \in Generations
BY Zenon DEF Tasks, TasksOf, ReqOf, Requests, TableOf, GenOf

\* The states of a task, spelled out.
LEMMA StateFacts ==
    /\ TaskStates = {"SUCCEEDED", "FAILED", "CANCELLED", "QUEUED", "CLAIMED", "RETRY_WAIT",
                     "EXPIRED"}
    /\ Active = {"QUEUED", "CLAIMED", "RETRY_WAIT", "EXPIRED"}
    /\ Terminal = {"SUCCEEDED", "FAILED", "CANCELLED"}
BY Zenon DEF TaskStates, Active, Terminal

\* The records of no task and of a new one.
LEMMA FixedTasks ==
    /\ IsTask(AbsentTask) /\ AbsentTask.state = "ABSENT" /\ AbsentTask.out = 0
    /\ IsTask(NewTask) /\ NewTask.state = "QUEUED" /\ NewTask.out = 0
BY StateFacts, Zenon DEF AbsentTask, NewTask, IsTask, TaskFields

\* The records of no request and of a new one.
LEMMA FixedReqs ==
    /\ AbsentReq \in ReqRecs /\ AbsentReq.state = "ABSENT"
    /\ NewReq \in ReqRecs
    /\ NewReq.state = "QUEUED" /\ ~NewReq.ready /\ ~NewReq.published
    /\ [NewReq EXCEPT !.ready = TRUE] \in ReqRecs
    /\ [NewReq EXCEPT !.ready = TRUE].state = "QUEUED"
    /\ ~[NewReq EXCEPT !.ready = TRUE].published
<1>1. AbsentReq \in ReqRecs /\ AbsentReq.state = "ABSENT" /\ ~AbsentReq.ready /\ ~AbsentReq.published
  BY Zenon DEF AbsentReq, ReqRecs
<1>2. /\ NewReq \in ReqRecs
      /\ NewReq.state = "QUEUED" /\ ~NewReq.ready /\ ~NewReq.published
  BY <1>1, StateFacts, Zenon DEF NewReq, ReqRecs
<1> QED
  BY <1>1, <1>2, Zenon DEF ReqRecs

\* A task that is not touched is as it was.
LEMMA SameKept == ASSUME NEW x, IsTask(x) PROVE Kept(x, x)
BY Zenon DEF Kept, Alike

\* Taking a claim away leaves the outcome alone.
LEMMA UnclaimedFields ==
    ASSUME NEW x, IsTask(x), NEW st \in TaskStates
    PROVE  /\ IsTask(Unclaimed(x, st))
           /\ Unclaimed(x, st).state = st /\ Unclaimed(x, st).out = x.out
           /\ Unclaimed(x, st).attempt = x.attempt
BY Zenon DEF IsTask, Unclaimed, TaskFields

\* The back-off of a record is no part of its outcome.
LEMMA WaitFields ==
    ASSUME NEW x, IsTask(x), NEW w
    PROVE  /\ IsTask([x EXCEPT !.wait = w])
           /\ [x EXCEPT !.wait = w].state = x.state
           /\ [x EXCEPT !.wait = w].claim = x.claim
           /\ [x EXCEPT !.wait = w].out = x.out
BY Zenon DEF IsTask, TaskFields

\* An unfinished task that loses its claim for another state.
LEMMA UnclaimedKept ==
    ASSUME NEW x, IsTask(x), x.state \in Active,
           NEW st \in {"QUEUED", "RETRY_WAIT", "FAILED", "CANCELLED"}
    PROVE  /\ Kept(x, Unclaimed(x, st))
           /\ \A w : Kept(x, [Unclaimed(x, st) EXCEPT !.wait = w])
<1>1. st \in TaskStates
  BY StateFacts, Zenon
<1>2. /\ IsTask(Unclaimed(x, st))
      /\ Unclaimed(x, st).state = st /\ Unclaimed(x, st).out = x.out
  BY <1>1, UnclaimedFields, Zenon
<1>3. x.state \notin {"ABSENT", "SUCCEEDED"}
  BY StateFacts, Zenon
<1>4. ASSUME NEW w PROVE Kept(x, [Unclaimed(x, st) EXCEPT !.wait = w])
  BY <1>2, <1>3, WaitFields, Zenon DEF Kept, Alike
<1> QED
  BY <1>2, <1>3, <1>4, Zenon DEF Kept, Alike

\* expire_claims, one task at a time.
LEMMA ExpireKept == ASSUME NEW x, IsTask(x) PROVE Kept(x, ExpireTask(x))
<1>1. CASE x.state \in {"QUEUED", "RETRY_WAIT"} /\ x.left = 0
  <2>1. ExpireTask(x) = [x EXCEPT !.state = "FAILED"]
    BY <1>1, Zenon DEF ExpireTask
  <2> QED
    BY <1>1, <2>1, StateFacts, Zenon DEF Kept, Alike, IsTask, TaskFields
<1>2. CASE ~(x.state \in {"QUEUED", "RETRY_WAIT"} /\ x.left = 0) /\ ClaimLapsed(x)
  <2>1. ExpireTask(x) = Requeue(x)
    BY <1>2, Zenon DEF ExpireTask
  <2>2. x.state \in Active
    BY <1>2, StateFacts, Zenon DEF ClaimLapsed
  <2> QED
    BY <2>1, <2>2, UnclaimedKept DEF Requeue
<1>3. CASE ~(x.state \in {"QUEUED", "RETRY_WAIT"} /\ x.left = 0) /\ ~ClaimLapsed(x)
  BY <1>3, SameKept, Zenon DEF ExpireTask
<1> QED
  BY <1>1, <1>2, <1>3, Zenon

\* Two changes of this kind are one.
LEMMA KeptTwice ==
    ASSUME NEW x, NEW y, NEW z
    PROVE  /\ Kept(x, y) /\ Kept(y, z) => Kept(x, z)
           /\ Alike(x, y) /\ Alike(y, z) => Alike(x, z)
BY Zenon DEF Kept, Alike

\* The same for all tasks.
LEMMA AllKeptTwice ==
    ASSUME NEW tk, NEW tk1, NEW tk2, AllKept(tk, tk1), AllKept(tk1, tk2)
    PROVE  AllKept(tk, tk2) /\ AllAlike(tk, tk2)
BY KeptTwice, Zenon DEF AllKept, AllAlike, Kept

\* No task was touched.
LEMMA AllSame == ASSUME NEW tk, IsTasks(tk) PROVE AllKept(tk, tk) /\ AllAlike(tk, tk)
BY SameKept, Zenon DEF AllKept, AllAlike, IsTasks, Kept

\* One task was touched.
LEMMA OneKept ==
    ASSUME NEW tk, IsTasks(tk), NEW k \in Tasks, NEW y, Alike(tk[k], y)
    PROVE  /\ AllAlike(tk, [tk EXCEPT ![k] = y])
           /\ Kept(tk[k], y) => AllKept(tk, [tk EXCEPT ![k] = y])
<1> DEFINE new == [tk EXCEPT ![k] = y]
<1>1. /\ new = [j \in Tasks |-> new[j]] /\ new[k] = y
      /\ \A j \in Tasks : j # k => new[j] = tk[j]
  BY Zenon DEF IsTasks
<1>2. IsTask(y)
  BY Zenon DEF Alike
<1>3. \A j \in Tasks : Kept(tk[j], tk[j])
  BY SameKept, Zenon DEF IsTasks
<1> HIDE DEF new
<1>4. IsTasks(new)
  BY <1>1, <1>2, Zenon DEF IsTasks
<1>5. AllAlike(tk, new) /\ (Kept(tk[k], y) => AllKept(tk, new))
  BY <1>1, <1>3, <1>4, Zenon DEF AllAlike, AllKept, Kept
<1> QED
  BY <1>5, Zenon DEF new

\* expire_claims, all tasks.
LEMMA ExpireAllKept == ASSUME NEW tk, IsTasks(tk) PROVE AllKept(tk, ExpireAll(tk))
<1>1. \A k \in Tasks : ExpireAll(tk)[k] = ExpireTask(tk[k])
  BY Zenon DEF ExpireAll
<1>2. \A k \in Tasks : Kept(tk[k], ExpireAll(tk)[k])
  BY <1>1, ExpireKept, Zenon DEF IsTasks
<1>3. ExpireAll(tk) = [k \in Tasks |-> ExpireAll(tk)[k]]
  BY Zenon DEF ExpireAll
<1> QED
  BY <1>2, <1>3, Zenon DEF AllKept, IsTasks, Kept, Alike

\* Cancelling unfinished tasks.
LEMMA CancelKept ==
    ASSUME NEW tk, IsTasks(tk), NEW D, \A k \in D : k \in Tasks /\ tk[k].state \in Active
    PROVE  AllKept(tk, CancelThese(tk, D))
<1>1. ASSUME NEW k \in Tasks PROVE Kept(tk[k], CancelThese(tk, D)[k])
  <2>1. CASE k \in D
    <3>1. CancelThese(tk, D)[k] = Unclaimed(tk[k], "CANCELLED")
      BY <2>1, Zenon DEF CancelThese
    <3> QED
      BY <2>1, <3>1, UnclaimedKept, Zenon DEF IsTasks
  <2>2. CASE k \notin D
    BY <2>2, SameKept, Zenon DEF CancelThese, IsTasks
  <2> QED
    BY <2>1, <2>2, Zenon
<1>2. CancelThese(tk, D) = [k \in Tasks |-> CancelThese(tk, D)[k]]
  BY Zenon DEF CancelThese
<1> QED
  BY <1>1, <1>2, Zenon DEF AllKept, IsTasks, Kept, Alike

\* What _refresh_requests makes of a request.
LEMMA RefreshedFacts ==
    ASSUME NEW tk, NEW r
    PROVE  /\ RefreshedState(tk, r) \in TaskStates
           /\ RefreshedState(tk, r) = "SUCCEEDED" => AllDone(tk, r)
<1> DEFINE states == {tk[k].state : k \in {j \in TasksOf(r) : Present(tk, j)}}
<1>1. RefreshedState(tk, r) \in TaskStates
      /\ (RefreshedState(tk, r) = "SUCCEEDED" => states = {"SUCCEEDED"})
  BY StateFacts, Zenon DEF RefreshedState
<1>2. states = {"SUCCEEDED"} => AllDone(tk, r)
  BY Zenon DEF AllDone
<1> QED
  BY <1>1, <1>2, Zenon

\* Whether all tasks of a request are done is not touched either.
LEMMA DoneKept ==
    ASSUME NEW tk, NEW tk2, AllAlike(tk, tk2), NEW r \in Requests, AllDone(tk, r)
    PROVE  AllDone(tk2, r)
BY TaskFacts, Zenon DEF AllAlike, Alike, AllDone, Present

\* _refresh_requests rewrites states only.
LEMMA RefreshesReqs ==
    ASSUME NEW tk, NEW tk2, AllAlike(tk, tk2),
           NEW rq \in [Requests -> ReqRecs], NEW E \in SUBSET OpenRequests(rq)
    PROVE  Refreshes(tk2, rq, RefreshThese(tk, rq, E))
<1> DEFINE rq2 == RefreshThese(tk, rq, E)
<1>1. ASSUME NEW r \in Requests
      PROVE  /\ rq2[r] \in ReqRecs
             /\ rq2[r].ready = rq[r].ready /\ rq2[r].published = rq[r].published
             /\ Exists(rq2, r) <=> Exists(rq, r)
             /\ rq2[r].state = "SUCCEEDED" => rq[r].state = "SUCCEEDED" \/ AllDone(tk2, r)
  <2>1. CASE r \in E
    <3>1. rq2[r] = [rq[r] EXCEPT !.state = RefreshedState(tk, r)]
      BY <2>1, Zenon DEF RefreshThese
    <3>2. rq[r].state \in Active
      BY <2>1, Zenon DEF OpenRequests, Open
    <3>3. RefreshedState(tk, r) \in TaskStates
          /\ (RefreshedState(tk, r) = "SUCCEEDED" => AllDone(tk2, r))
      BY RefreshedFacts, DoneKept, Zenon
    <3> QED
      BY <3>1, <3>2, <3>3, StateFacts, Zenon DEF ReqRecs, Exists
  <2>2. CASE r \notin E
    BY <2>2, Zenon DEF RefreshThese, ReqRecs, Exists
  <2> QED
    BY <2>1, <2>2, Zenon
<1>2. rq2 \in [Requests -> ReqRecs]
  BY <1>1, Zenon DEF RefreshThese
<1> QED
  BY <1>1, <1>2, Zenon DEF Refreshes

\* _refresh_requests as a whole, wherever it is interrupted.
LEMMA RefreshGives ==
    ASSUME NEW tk, IsTasks(tk), NEW rq \in [Requests -> ReqRecs]
    PROVE  /\ AllKept(tk, RefreshTasks(tk, rq))
           /\ Refreshes(RefreshTasks(tk, rq), rq, RefreshReqs(tk, rq))
           /\ Refresh(tk, rq) => AllKept(tk, task') /\ Refreshes(task', rq, req')
<1>1. ASSUME NEW D \in SUBSET Doomed(tk, rq), NEW E \in SUBSET OpenRequests(rq)
      PROVE  /\ AllKept(tk, CancelThese(tk, D))
             /\ Refreshes(CancelThese(tk, D), rq, RefreshThese(tk, rq, E))
  <2>1. AllKept(tk, CancelThese(tk, D))
    BY CancelKept, Zenon DEF Doomed
  <2>2. AllAlike(tk, CancelThese(tk, D))
    BY <2>1, Zenon DEF AllKept, AllAlike, Kept
  <2> QED
    BY <2>1, <2>2, RefreshesReqs, Zenon
<1> QED
  BY <1>1, Zenon DEF Refresh, RefreshTasks, RefreshReqs
-----------------------------------------------------------------------------
(* The operations that only move tasks and requests on *)

\* The claim of x was accepted, which made it y.
Finishes(x, y) ==
    /\ IsTask(y) /\ x.state = "CLAIMED" /\ y.state = "SUCCEEDED"
    /\ y.out = x.claim /\ y.out \in objects /\ cmd[y.out].outcome = "ok"

AllMoved ==
    IsTasks(task') /\ \A k \in Tasks : Alike(task[k], task'[k]) \/ Finishes(task[k], task'[k])

\* How the activation may advance while tasks move on.
PhaseMoves ==
    \/ phase' = phase
    \/ phase # "active" /\ phase' = "down"
    \/ phase = "recovered" /\ phase' = "fenced"

\* Everything such an operation has in common.
Moves ==
    /\ AllMoved /\ Refreshes(task', req, req') /\ CommandsKept /\ PhaseMoves
    /\ ControlTypes' /\ objects \subseteq objects' /\ objects' \subseteq Nat \ {0}
    /\ term' = term /\ gen <= gen'
    /\ UNCHANGED <<idem, cut, snapshot, pub>>

\* The claims of a task stay what they were.
LEMMA TokensKept ==
    ASSUME Types, CommandsKept
    PROVE  /\ DOMAIN cmd' = DOMAIN cmd
           /\ \A k : TokensOf(k)' = TokensOf(k)
           /\ \A c, k : Made(cmd, c, k) => Made(cmd', c, k)
<1>1. DOMAIN cmd' = DOMAIN cmd
  BY DEF Types, CommandsKept
<1>2. \A k : TokensOf(k)' = TokensOf(k)
  BY <1>1, Zenon DEF CommandsKept, TokensOf, Tokens
<1>3. \A c, k : Made(cmd, c, k) => Made(cmd', c, k)
  BY <1>1, <1>2, Zenon DEF CommandsKept, Made, TokensOf, Tokens
<1> QED
  BY <1>1, <1>2, <1>3, Zenon

\* Only the latest claim counts, still.
LEMMA LatestMoves == ASSUME Types, LatestClaimWins, Moves PROVE LatestClaimWins'
<1>1. /\ DOMAIN cmd' = DOMAIN cmd
      /\ \A k : TokensOf(k)' = TokensOf(k)
      /\ \A c, k : Made(cmd, c, k) => Made(cmd', c, k)
  BY TokensKept, Zenon DEF Moves
<1> SUFFICES ASSUME NEW k \in Tasks
             PROVE  /\ task'[k].state = "CLAIMED" =>
                         /\ task'[k].claim \in TokensOf(k)
                         /\ \A c \in TokensOf(k) : c <= task'[k].claim
                    /\ task'[k].state = "SUCCEEDED" =>
                         /\ task'[k].out \in TokensOf(k) /\ cmd'[task'[k].out].outcome = "ok"
                         /\ \A c \in TokensOf(k) : c <= task'[k].out
  BY <1>1, Zenon DEF LatestClaimWins
<1>2. task[k].state = "CLAIMED" => /\ task[k].claim \in TokensOf(k)
                                  /\ \A c \in TokensOf(k) : c <= task[k].claim
  BY Zenon DEF LatestClaimWins
<1>3. task[k].state = "SUCCEEDED" => /\ task[k].out \in TokensOf(k)
                                    /\ cmd[task[k].out].outcome = "ok"
                                    /\ \A c \in TokensOf(k) : c <= task[k].out
  BY Zenon DEF LatestClaimWins
<1>4. \A c \in TokensOf(k) : cmd[c].outcome = "ok" => cmd'[c].outcome = "ok"
  BY Zenon DEF Moves, CommandsKept, TokensOf, Tokens
<1>5. CASE Alike(task[k], task'[k])
  BY <1>2, <1>3, <1>4, <1>5, Zenon DEF Alike
<1>6. CASE Finishes(task[k], task'[k])
  BY <1>2, <1>4, <1>6, Zenon DEF Finishes
<1> QED
  BY <1>5, <1>6, Zenon DEF Moves, AllMoved

\* Outputs and snapshots were made, still.
LEMMA MadeMoves ==
    ASSUME Types, LatestClaimWins, OutputsMade, CollectedMade, SnapshotsOk, Moves
    PROVE  OutputsMade' /\ CollectedMade' /\ SnapshotsOk'
<1>1. \A c, k : Made(cmd, c, k) => Made(cmd', c, k)
  BY TokensKept, Zenon DEF Moves
<1>2. ASSUME NEW k \in Tasks, task'[k].out # 0 PROVE Made(cmd, task'[k].out, k)
  <2>1. CASE Alike(task[k], task'[k])
    BY <1>2, <2>1, Zenon DEF Alike, OutputsMade
  <2>2. CASE Finishes(task[k], task'[k])
    BY <2>2, Zenon DEF Finishes, LatestClaimWins, Made, TokensOf, Tokens
  <2> QED
    BY <2>1, <2>2, Zenon DEF Moves, AllMoved
<1>3. OutputsMade'
  BY <1>1, <1>2, Zenon DEF OutputsMade
<1>4. CollectedMade'
  BY <1>1, Zenon DEF CollectedMade, Moves
<1>5. SnapshotsOk'
  <2>1. snapshot' = snapshot /\ gen <= gen' /\ gen \in Nat /\ gen' \in Nat
    BY DEF Moves, Types, ControlTypes, Generations
  <2>2. \A r \in Requests : GenOf(r) \in Nat
    BY TaskFacts DEF Generations
  <2> SUFFICES ASSUME NEW t \in Tables, snapshot[t] # NoSnapshot
               PROVE  /\ snapshot[t].req \in Requests /\ TableOf(snapshot[t].req) = t
                      /\ GenOf(snapshot[t].req) <= gen'
                      /\ \A s \in Splits : Made(cmd', snapshot[t].objs[s], <<snapshot[t].req, s>>)
    BY <2>1, Zenon DEF SnapshotsOk
  <2>3. /\ snapshot[t].req \in Requests /\ TableOf(snapshot[t].req) = t
        /\ GenOf(snapshot[t].req) <= gen
        /\ \A s \in Splits : Made(cmd, snapshot[t].objs[s], <<snapshot[t].req, s>>)
    BY Zenon DEF SnapshotsOk
  <2>4. GenOf(snapshot[t].req) <= gen'
    BY <2>1, <2>2, <2>3
  <2> QED
    BY <1>1, <2>3, <2>4, Zenon
<1> QED
  BY <1>3, <1>4, <1>5, Zenon

\* Claims of the term in office and publications of an active Manager, still.
LEMMA TermMoves ==
    ASSUME Types, LatestClaimWins, ClaimsOfTerm, PublicationsOk, Moves
    PROVE  /\ PublicationsOk'
           /\ phase' = phase \/ phase' = "down" => ClaimsOfTerm'
<1>1. PublicationsOk'
  <2>1. phase = "active" => phase' = "active"
    BY Zenon DEF Moves, PhaseMoves
  <2>2. \A r \in Requests : req'[r].published = req[r].published
    BY Zenon DEF Moves, Refreshes
  <2> QED
    BY <2>1, <2>2, Zenon DEF PublicationsOk, Moves
<1>2. ASSUME phase' = phase \/ phase' = "down", phase' \in {"fenced", "active"},
             NEW k \in Tasks, task'[k].state = "CLAIMED"
      PROVE  cmd'[task'[k].claim].term = term'
  <2>1. task[k].state = "CLAIMED" /\ task'[k].claim = task[k].claim
    BY <1>2, Zenon DEF Moves, AllMoved, Alike, Finishes
  <2>2. cmd[task[k].claim].term = term
    BY <1>2, <2>1, Zenon DEF ClaimsOfTerm
  <2>3. task[k].claim \in DOMAIN cmd
    BY <2>1, Zenon DEF LatestClaimWins, TokensOf, Tokens
  <2> QED
    BY <2>1, <2>2, <2>3, Zenon DEF Moves, CommandsKept
<1> QED
  BY <1>1, <1>2, Zenon DEF ClaimsOfTerm

\* The records stay complete, and the tasks that have a result keep it.
LEMMA RecordsMoves ==
    ASSUME Types, RecordsOk, Moves
    PROVE  RecordsOk'
<1>1. /\ phase' # "down" => phase # "down"
      /\ phase' = "active" => phase = "active"
      /\ phase = "active" => phase' = "active"
  BY Zenon DEF Moves, PhaseMoves
<1>2. \A k \in Tasks : /\ Present(task', k) <=> Present(task, k)
                       /\ task'[k].state \in {"CLAIMED", "SUCCEEDED"} =>
                            task[k].state \in {"CLAIMED", "SUCCEEDED"}
  BY Zenon DEF Moves, AllMoved, Alike, Finishes, Present
<1>3. \A r \in Requests : /\ Exists(req', r) <=> Exists(req, r)
                          /\ req'[r].ready = req[r].ready
                          /\ req'[r].published = req[r].published
  BY Zenon DEF Moves, Refreshes
<1>4. idem' = idem /\ cut' = cut /\ cut \subseteq Requests
  BY Zenon DEF Moves, Types
<1>5. ASSUME phase' # "down", NEW k \in Tasks, Present(task', k) PROVE Exists(req', ReqOf(k))
  BY <1>1, <1>2, <1>3, <1>5, TaskFacts, Zenon DEF RecordsOk
<1>6. ASSUME phase' # "down", NEW r \in Requests, Exists(req', r), r \notin idem'
      PROVE  phase' = "active" /\ ~req'[r].published
  BY <1>1, <1>3, <1>4, <1>6, Zenon DEF RecordsOk
<1>7. ASSUME NEW r \in cut'
      PROVE  Exists(req', r) /\ req'[r].ready /\ (phase' # "down" => r \in idem')
  BY <1>1, <1>3, <1>4, <1>7, Zenon DEF RecordsOk
<1>8. ASSUME NEW r \in Requests \ cut', Exists(req', r), req'[r].ready, NEW k \in TasksOf(r)
      PROVE  Present(task', k)
  BY <1>2, <1>3, <1>4, <1>8, TaskFacts, Zenon DEF RecordsOk
<1>9. ASSUME phase' = "active", NEW r \in Requests \ cut', Exists(req', r),
             NEW j \in TasksOf(r), ~Present(task', j), NEW k \in TasksOf(r)
      PROVE  task'[k].state \notin {"CLAIMED", "SUCCEEDED"}
  BY <1>1, <1>2, <1>3, <1>4, <1>9, TaskFacts, Zenon DEF RecordsOk
<1> QED
  BY <1>5, <1>6, <1>7, <1>8, <1>9, Zenon DEF RecordsOk

\* The outputs of unpublished requests stay, and a refreshed request that reads
\* SUCCEEDED has all its tasks.
LEMMA OutputsMoves ==
    ASSUME Types, RecordsOk, OutputsKept, Moves
    PROVE  OutputsKept'
<1> SUFFICES ASSUME NEW r \in Requests \ cut', Exists(req', r), ~req'[r].published,
                    req'[r].ready \/ phase' = "active"
             PROVE  /\ \A k \in TasksOf(r) :
                         task'[k].state = "SUCCEEDED" => task'[k].out \in objects'
                    /\ req'[r].state = "SUCCEEDED" =>
                         \A k \in TasksOf(r) : task'[k].state = "SUCCEEDED"
  BY Zenon DEF OutputsKept
<1>1. /\ r \in Requests \ cut /\ Exists(req, r) /\ ~req[r].published
      /\ req[r].ready \/ phase = "active"
  BY Zenon DEF Moves, Refreshes, PhaseMoves
<1>2. /\ \A k \in TasksOf(r) : task[k].state = "SUCCEEDED" => task[k].out \in objects
      /\ req[r].state = "SUCCEEDED" => \A k \in TasksOf(r) : task[k].state = "SUCCEEDED"
  BY <1>1, Zenon DEF OutputsKept
<1>3. ASSUME NEW k \in TasksOf(r)
      PROVE  /\ task'[k].state = "SUCCEEDED" => task'[k].out \in objects'
             /\ task[k].state = "SUCCEEDED" => task'[k].state = "SUCCEEDED"
             /\ Present(task', k) <=> Present(task, k)
             /\ task'[k].state = "SUCCEEDED" => task[k].state \in {"CLAIMED", "SUCCEEDED"}
  <2>1. k \in Tasks
    BY <1>1, <1>3, TaskFacts, Zenon
  <2>2. CASE Alike(task[k], task'[k])
    BY <1>2, <2>2, Zenon DEF Alike, Moves, Present
  <2>3. CASE Finishes(task[k], task'[k])
    BY <2>3, Zenon DEF Finishes, Moves, Present
  <2> QED
    BY <2>1, <2>2, <2>3, Zenon DEF Moves, AllMoved
<1>4. ASSUME AllDone(task', r), NEW k \in TasksOf(r) PROVE task'[k].state = "SUCCEEDED"
  <2>1. PICK j \in TasksOf(r) : task'[j].state = "SUCCEEDED"
    BY <1>4, Zenon DEF AllDone
  <2>2. task[j].state \in {"CLAIMED", "SUCCEEDED"}
    BY <1>3, <2>1, Zenon
  <2>3. Present(task, k)
    BY <1>1, <1>4, <2>2, Zenon DEF RecordsOk
  <2> QED
    BY <1>3, <1>4, <2>3, Zenon DEF AllDone
<1>5. req'[r].state = "SUCCEEDED" => req[r].state = "SUCCEEDED" \/ AllDone(task', r)
  BY <1>1, Zenon DEF Moves, Refreshes
<1> QED
  BY <1>2, <1>3, <1>4, <1>5, Zenon

\* An operation that only moves tasks and requests on keeps the invariant.
LEMMA MovesKeep ==
    ASSUME IInv, Moves,
           phase' \in {"recovered", "fenced"} => AllKept(task, task'),
           phase = "recovered" /\ phase' = "fenced" => ClaimsOfTerm'
    PROVE  IInv'
<1>1. Types'
  <2>1. ControlTypes' /\ cmd' \in Seq(Commands) /\ objects' \subseteq Nat \ {0}
        /\ req' \in [Requests -> ReqRecs] /\ IsTasks(task)'
    BY Zenon DEF Moves, CommandsKept, Refreshes, AllMoved
  <2>2. PubTypes' /\ idem' \subseteq Requests /\ cut' \subseteq Requests
    BY Zenon DEF IInv, Types, Moves, PubTypes
  <2> QED
    BY <2>1, <2>2, Zenon DEF Types
<1>2. LatestClaimWins'
  BY LatestMoves, Zenon DEF IInv
<1>3. OutputsMade' /\ CollectedMade' /\ SnapshotsOk'
  BY MadeMoves, Zenon DEF IInv
<1>4. PublicationsOk' /\ ClaimsOfTerm'
  BY TermMoves, Zenon DEF IInv, Moves, PhaseMoves
<1>5. RecordsOk' /\ OutputsKept'
  BY RecordsMoves, OutputsMoves, Zenon DEF IInv
<1>6. RecoveryCleansUp'
  <2> SUFFICES ASSUME phase' \in {"recovered", "fenced"}
               PROVE  /\ \A r \in Requests : Exists(req', r) => req'[r].ready /\ r \in idem'
                      /\ \A k \in Tasks : Present(task', k) =>
                           task'[k].state # "EXPIRED" /\ Exists(req', ReqOf(k))
    BY Zenon DEF RecoveryCleansUp
  <2>1. phase \in {"recovered", "fenced"}
    BY Zenon DEF Moves, PhaseMoves
  <2>2. \A r \in Requests : Exists(req, r) <=> Exists(req', r)
    BY Zenon DEF Moves, Refreshes
  <2>3. \A r \in Requests : Exists(req', r) => req'[r].ready /\ r \in idem'
    BY <2>1, <2>2, Zenon DEF IInv, RecoveryCleansUp, Moves, Refreshes
  <2>4. \A k \in Tasks : /\ Present(task', k) => Present(task, k)
                         /\ task'[k].state = "EXPIRED" => task[k].state = "EXPIRED"
    BY Zenon DEF AllKept, Kept, Alike, Present
  <2>5. \A k \in Tasks : Present(task', k) =>
                           task'[k].state # "EXPIRED" /\ Exists(req', ReqOf(k))
    BY <2>1, <2>2, <2>4, TaskFacts, Zenon DEF IInv, RecoveryCleansUp
  <2> QED
    BY <2>3, <2>5, Zenon
<1> QED
  BY <1>1, <1>2, <1>3, <1>4, <1>5, <1>6, Zenon DEF IInv

\* The steps of the two action properties.
AcceptedStep ==
    \A k \in Tasks :
      task'[k].state = "SUCCEEDED" /\ task[k].state # "SUCCEEDED" =>
        LET c == task'[k].out
            g == GenOf(ReqOf(k))
        IN  /\ cmd[c].term = term
            /\ cmd[c].lease = lease[cmd[c].agent]
            /\ g \notin roster \/ member[g][cmd[c].agent].fence = cmd[c].fence
            /\ g = gen

SnapshotStep ==
    \A t \in Tables : snapshot[t] # NoSnapshot =>
      GenOf(snapshot'[t].req) >= GenOf(snapshot[t].req)

\* What every step is shown to do.
StepOk == IInv' /\ AcceptedStep /\ SnapshotStep

\* A snapshot that stays is not older than itself.
LEMMA SnapshotStays == ASSUME Types, SnapshotsOk, snapshot' = snapshot PROVE SnapshotStep
<1>1. \A r \in Requests : GenOf(r) \in Nat
  BY TaskFacts DEF Generations
<1>2. \A t \in Tables : snapshot[t] # NoSnapshot => GenOf(snapshot[t].req) \in Nat
  BY <1>1, Zenon DEF SnapshotsOk
<1> QED
  BY <1>2 DEF SnapshotStep

\* A step that finishes no task.
LEMMA NothingAccepted == ASSUME AllAlike(task, task') PROVE AcceptedStep
BY Zenon DEF AllAlike, Alike, AcceptedStep

\* An operation that touches only tasks, requests, commands and the control state.
LEMMA QuietStep ==
    ASSUME IInv, AllAlike(task, task'), Refreshes(task', req, req'), CommandsKept,
           PhaseMoves, ControlTypes', term' = term, gen <= gen',
           objects \subseteq objects', objects' \subseteq Nat \ {0},
           UNCHANGED <<idem, cut, snapshot, pub>>,
           phase' \in {"recovered", "fenced"} => AllKept(task, task'),
           phase = "recovered" /\ phase' = "fenced" => ClaimsOfTerm'
    PROVE  StepOk
<1>1. AllMoved
  BY Zenon DEF AllAlike, AllMoved
<1>2. Moves
  BY <1>1, Zenon DEF Moves
<1>3. IInv'
  BY <1>2, MovesKeep, Zenon
<1>4. SnapshotStep
  BY SnapshotStays, Zenon DEF IInv
<1> QED
  BY <1>3, <1>4, NothingAccepted, Zenon DEF StepOk

\* Commands, requests and control state that stay.
LEMMA Stays ==
    ASSUME Types
    PROVE  /\ cmd' = cmd => CommandsKept
           /\ req' = req => Refreshes(task', req, req')
           /\ UNCHANGED <<term, phase, envvars, member>> =>
                ControlTypes' /\ PhaseMoves /\ term' = term /\ gen <= gen'
           /\ objects' = objects => objects \subseteq objects' /\ objects' \subseteq Nat \ {0}
<1>1. cmd' = cmd => CommandsKept
  BY Zenon DEF Types, CommandsKept
<1>2. req' = req => Refreshes(task', req, req')
  BY Zenon DEF Types, Refreshes, Exists
<1>3. gen \in Nat
  BY DEF Types, ControlTypes, Generations
<1>4. UNCHANGED <<term, phase, envvars, member>> =>
        ControlTypes' /\ PhaseMoves /\ term' = term /\ gen <= gen'
  BY <1>3 DEF Types, ControlTypes, envvars, PhaseMoves
<1> QED
  BY <1>1, <1>2, <1>4, Zenon DEF Types

\* What most operations of an active Manager leave alone.
LEMMA ActiveStep ==
    ASSUME IInv, phase = "active", UNCHANGED <<term, phase, envvars, member>>,
           AllAlike(task, task'), Refreshes(task', req, req'), CommandsKept,
           UNCHANGED <<idem, objects, cut, snapshot, pub>>
    PROVE  StepOk
<1>1. Types
  BY Zenon DEF IInv
<1>2. /\ ControlTypes' /\ PhaseMoves /\ term' = term /\ gen <= gen'
      /\ objects \subseteq objects' /\ objects' \subseteq Nat \ {0}
  BY <1>1, Stays, Zenon
<1>3. phase' = "active"
  BY Zenon
<1> QED
  BY <1>2, <1>3, QuietStep, Zenon

\* An interrupted series of task writes.
LEMMA SomeKept ==
    ASSUME NEW old, NEW new, IsTasks(old), AllKept(old, new), WriteSome(old, new)
    PROVE  AllKept(old, task') /\ AllAlike(old, task')
<1>1. PICK D \in SUBSET {k \in Tasks : new[k] # old[k]} :
        task' = [k \in Tasks |-> IF k \in D THEN new[k] ELSE old[k]]
  BY Zenon DEF WriteSome
<1>2. \A k \in Tasks : task'[k] = new[k] \/ task'[k] = old[k]
  BY <1>1, Zenon
<1>3. \A k \in Tasks : Kept(old[k], old[k]) /\ Kept(old[k], new[k])
  BY SameKept, Zenon DEF IsTasks, AllKept
<1>4. \A k \in Tasks : Kept(old[k], task'[k])
  BY <1>2, <1>3, Zenon
<1>5. task' = [k \in Tasks |-> task'[k]]
  BY <1>1, Zenon
<1> QED
  BY <1>4, <1>5, Zenon DEF AllKept, AllAlike, IsTasks, Kept, Alike

\* cancel_request.
LEMMA CancelGives ==
    ASSUME NEW tk, IsTasks(tk), NEW rq \in [Requests -> ReqRecs], NEW r \in Requests,
           Exists(rq, r), Cancel(tk, rq, r)
    PROVE  AllKept(tk, task') /\ Refreshes(task', rq, req')
<1>1. ASSUME NEW D \in SUBSET OpenTasks(tk, r) PROVE AllKept(tk, CancelThese(tk, D))
  BY CancelKept, TaskFacts, Zenon DEF OpenTasks
<1>2. AllKept(tk, task')
  BY <1>1, Zenon DEF Cancel
<1>3. CASE req' = rq
  BY <1>2, <1>3, Zenon DEF Refreshes, Exists
<1>4. CASE req' = [rq EXCEPT ![r].state = "CANCELLED"]
  <2>1. /\ req' \in [Requests -> ReqRecs]
        /\ req'[r] = [rq[r] EXCEPT !.state = "CANCELLED"]
        /\ \A q \in Requests : q # r => req'[q] = rq[q]
    BY <1>4, StateFacts, Zenon DEF ReqRecs
  <2>2. /\ req'[r].state = "CANCELLED" /\ req'[r].ready = rq[r].ready
        /\ req'[r].published = rq[r].published
    BY <2>1 DEF ReqRecs
  <2> QED
    BY <1>2, <2>1, <2>2, Zenon DEF Refreshes, Exists
<1> QED
  BY <1>2, <1>3, <1>4, Zenon DEF Cancel
-----------------------------------------------------------------------------
(* Those operations, one by one *)

\* Time passes.
LEMMA TickStep == ASSUME IInv, Tick PROVE StepOk
<1>1. Types /\ IsTasks(task)
  BY Zenon DEF IInv, Types
<1>2. ASSUME NEW k \in Tasks PROVE Kept(task[k], Ticked[k])
  <2>1. Ticked[k] = [task[k] EXCEPT !.wait = Less(@), !.left = Less(@), !.cleft = Less(@)]
    BY Zenon DEF Ticked
  <2> QED
    BY <1>1, <2>1, Zenon DEF IsTasks, IsTask, TaskFields, Kept, Alike
<1>3. Ticked = [k \in Tasks |-> Ticked[k]]
  BY Zenon DEF Ticked
<1>4. AllKept(task, task') /\ AllAlike(task, task')
  BY <1>2, <1>3, Zenon DEF Tick, AllKept, AllAlike, IsTasks, Kept, Alike
<1>5. /\ UNCHANGED <<term, phase, envvars, member, req, cmd, objects>>
      /\ UNCHANGED <<idem, cut, snapshot, pub>>
  BY Zenon DEF Tick, envvars, memvars, pubvars, counts
<1>6. /\ CommandsKept /\ Refreshes(task', req, req')
      /\ ControlTypes' /\ PhaseMoves /\ term' = term /\ gen <= gen'
      /\ objects \subseteq objects' /\ objects' \subseteq Nat \ {0}
  BY <1>1, <1>5, Stays, Zenon
<1> QED
  BY <1>4, <1>5, <1>6, QuietStep, Zenon

\* The coordinator is replaced, or its lease runs out.
LEMMA GenerationStep == ASSUME IInv, NewGeneration \/ GenerationLapses PROVE StepOk
<1>1. Types /\ IsTasks(task)
  BY Zenon DEF IInv, Types
<1>2. /\ UNCHANGED <<term, phase, lease, member, task, req, cmd, objects>>
      /\ UNCHANGED <<idem, cut, snapshot, pub>>
      /\ gen' = gen \/ (gen < MaxGen /\ gen' = gen + 1)
  <2>1. CASE NewGeneration
    BY <2>1, Zenon DEF NewGeneration, memvars, qvars, pubvars, counts
  <2>2. CASE GenerationLapses
    BY <2>2, Zenon DEF GenerationLapses, memvars, qvars, pubvars, counts
  <2> QED
    BY <2>1, <2>2, Zenon
<1>3. AllKept(task, task') /\ AllAlike(task, task')
  BY <1>1, <1>2, AllSame, Zenon
<1>4. /\ CommandsKept /\ Refreshes(task', req, req')
      /\ objects \subseteq objects' /\ objects' \subseteq Nat \ {0}
  BY <1>1, <1>2, Stays, Zenon
<1>5. gen' \in Generations /\ gen <= gen'
  BY <1>1, <1>2, QueueAssumption DEF Types, ControlTypes, Generations
<1>6. ControlTypes' /\ PhaseMoves
  BY <1>1, <1>2, <1>5, Zenon DEF Types, ControlTypes, PhaseMoves
<1> QED
  BY <1>2, <1>3, <1>4, <1>5, <1>6, QuietStep, Zenon

\* An Agent registers.
LEMMA RegisterStep == ASSUME IInv, NEW a \in Agents, Register(a) PROVE StepOk
<1>1. Types /\ IsTasks(task)
  BY Zenon DEF IInv, Types
<1>2. /\ UNCHANGED <<term, phase, gen, member, task, req, cmd, objects>>
      /\ UNCHANGED <<idem, cut, snapshot, pub>>
      /\ phase = "active" /\ lease' = [lease EXCEPT ![a] = @ + 1]
  BY Zenon DEF Register, memvars, qvars, pubvars, counts
<1>3. AllKept(task, task') /\ AllAlike(task, task')
  BY <1>1, <1>2, AllSame, Zenon
<1>4. /\ CommandsKept /\ Refreshes(task', req, req')
      /\ objects \subseteq objects' /\ objects' \subseteq Nat \ {0}
  BY <1>1, <1>2, Stays, Zenon
<1>5. ControlTypes' /\ PhaseMoves /\ gen <= gen'
  BY <1>1, <1>2 DEF Types, ControlTypes, PhaseMoves, Generations
<1> QED
  BY <1>2, <1>3, <1>4, <1>5, QuietStep, Zenon

\* What reconcile_membership makes of one worker.
LEMMA ReconciledType ==
    ASSUME NEW w \in Workers, NEW a, NEW live, lease[a] \in Nat
    PROVE  Reconciled(w, a, live) \in Workers
<1>1. [state |-> "active", fence |-> w.fence + 1, lease |-> lease[a]] \in Workers
  BY DEF Workers
<1>2. [w EXCEPT !.state = "departed", !.fence = @ + 1] \in Workers
  <2>1. w = [f \in {"state", "fence", "lease"} |-> w[f]] /\ w.fence \in Nat /\ w.lease \in Nat
    BY Zenon DEF Workers
  <2> DEFINE v == [w EXCEPT !.state = "departed", !.fence = @ + 1]
  <2>2. /\ v = [f \in {"state", "fence", "lease"} |-> v[f]]
        /\ v.state = "departed" /\ v.fence = w.fence + 1 /\ v.lease = w.lease
    BY <2>1, Zenon
  <2> HIDE DEF v
  <2>3. v = [state |-> v.state, fence |-> v.fence, lease |-> v.lease]
    BY <2>2, Zenon
  <2>4. v \in Workers
    BY <2>1, <2>2, <2>3 DEF Workers
  <2> QED
    BY <2>4, Zenon DEF v
<1> QED
  BY <1>1, <1>2, Zenon DEF Reconciled

\* reconcile_membership.
LEMMA ReconcileStep == ASSUME IInv, NEW g \in Generations, Reconcile(g) PROVE StepOk
<1>1. Types /\ IsTasks(task)
  BY Zenon DEF IInv, Types
<1>2. /\ UNCHANGED <<term, phase, gen, lease, task, req, cmd, objects>>
      /\ UNCHANGED <<idem, cut, snapshot, pub>>
      /\ phase = "active"
  BY Zenon DEF Reconcile, envvars, qvars, pubvars, counts
<1>3. AllKept(task, task') /\ AllAlike(task, task')
  BY <1>1, <1>2, AllSame, Zenon
<1>4. /\ CommandsKept /\ Refreshes(task', req, req')
      /\ objects \subseteq objects' /\ objects' \subseteq Nat \ {0}
  BY <1>1, <1>2, Stays, Zenon
<1>5. PICK live : member' = [member EXCEPT ![g] = NewMembership(g, live)]
  BY Zenon DEF Reconcile
<1>6. ASSUME NEW a \in Agents
      PROVE  NewMembership(g, live)[a] \in Workers
  <2>1. /\ member[g][a] \in Workers
        /\ lease[a] \in Nat
    BY <1>1, Zenon DEF Types, ControlTypes
  <2>2. NewMembership(g, live)[a] =
          IF g \in roster THEN Reconciled(member[g][a], a, live)
          ELSE IF a \in live THEN [state |-> "active", fence |-> 1, lease |-> lease[a]]
          ELSE member[g][a]
    BY Zenon DEF NewMembership
  <2>3. Reconciled(member[g][a], a, live) \in Workers
    BY <2>1, ReconciledType, Zenon
  <2> QED
    BY <2>1, <2>2, <2>3 DEF Workers
<1>7. NewMembership(g, live) \in [Agents -> Workers]
  BY <1>6, Zenon DEF NewMembership
<1>8. ControlTypes' /\ PhaseMoves /\ gen <= gen'
  BY <1>1, <1>2, <1>5, <1>7 DEF Types, ControlTypes, PhaseMoves, Generations
<1> QED
  BY <1>2, <1>3, <1>4, <1>8, QuietStep, Zenon

\* A heartbeat renews a claim.
LEMMA RenewStep == ASSUME IInv, NEW k \in Tasks, RenewClaim(k) PROVE StepOk
<1>1. Types /\ IsTasks(task) /\ IsTask(task[k])
  BY Zenon DEF IInv, Types, IsTasks
<1>2. /\ phase = "active" /\ UNCHANGED <<term, phase, envvars, member, req, cmd>>
      /\ UNCHANGED <<idem, objects, cut, snapshot, pub>>
  BY Zenon DEF RenewClaim, memvars, pubvars, counts
<1> DEFINE y == [task[k] EXCEPT !.cleft = Smaller(LeaseTicks, task[k].left)]
<1>3. task' = [task EXCEPT ![k] = y]
  BY Zenon DEF RenewClaim
<1>4. Alike(task[k], y)
  BY <1>1, Zenon DEF IsTask, TaskFields, Alike
<1> HIDE DEF y
<1>5. AllAlike(task, task')
  BY <1>1, <1>3, <1>4, OneKept, Zenon
<1>6. CommandsKept /\ Refreshes(task', req, req')
  BY <1>1, <1>2, Stays, Zenon
<1> QED
  BY <1>2, <1>5, <1>6, ActiveStep, Zenon

\* retry_task puts a failed task back.
LEMMA RetryStep == ASSUME IInv, NEW k \in Tasks, RetryTask(k) PROVE StepOk
<1>1. Types /\ IsTasks(task) /\ req \in [Requests -> ReqRecs] /\ ReqOf(k) \in Requests
  BY TaskFacts, Zenon DEF IInv, Types
<1>2. /\ phase = "active" /\ UNCHANGED <<term, phase, envvars, member, cmd>>
      /\ UNCHANGED <<idem, objects, cut, snapshot, pub>>
      /\ task[k].state = "FAILED" /\ Exists(req, ReqOf(k))
  BY Zenon DEF RetryTask, memvars, pubvars
<1>3. Alike(task[k], NewTask)
  BY <1>2, FixedTasks, Zenon DEF Alike
<1>4. AllAlike(task, [task EXCEPT ![k] = NewTask]) /\ AllAlike(task, task)
  BY <1>1, <1>3, OneKept, AllSame, Zenon
<1>5. AllAlike(task, task')
  BY <1>4, Zenon DEF RetryTask
<1>6. Refreshes(task', req, req')
  <2>1. CASE req' = req
    BY <1>1, <2>1, Stays, Zenon
  <2>2. CASE req' = [req EXCEPT ![ReqOf(k)].state = "QUEUED"]
    <3>1. /\ req' \in [Requests -> ReqRecs]
          /\ req'[ReqOf(k)] = [req[ReqOf(k)] EXCEPT !.state = "QUEUED"]
          /\ \A q \in Requests : q # ReqOf(k) => req'[q] = req[q]
      BY <1>1, <2>2, StateFacts, Zenon DEF ReqRecs
    <3>2. /\ req'[ReqOf(k)].state = "QUEUED" /\ req'[ReqOf(k)].ready = req[ReqOf(k)].ready
          /\ req'[ReqOf(k)].published = req[ReqOf(k)].published
      BY <1>1, <3>1 DEF ReqRecs
    <3> QED
      BY <1>2, <3>1, <3>2, Zenon DEF Refreshes, Exists
  <2> QED
    BY <2>1, <2>2, Zenon DEF RetryTask
<1>7. CommandsKept
  BY <1>1, <1>2, Stays, Zenon
<1> QED
  BY <1>2, <1>5, <1>6, <1>7, ActiveStep, Zenon

\* reassign_fenced_claims.
LEMMA ReassignStep == ASSUME IInv, NEW g \in Generations, ReassignClaims(g) PROVE StepOk
<1>1. Types /\ IsTasks(task)
  BY Zenon DEF IInv, Types
<1>2. /\ phase = "active" /\ UNCHANGED <<term, phase, envvars, member, req, cmd>>
      /\ UNCHANGED <<idem, objects, cut, snapshot, pub>>
  BY Zenon DEF ReassignClaims, pubvars, counts
<1>3. ASSUME NEW k \in Tasks PROVE Kept(task[k], Reassigned(g)[k])
  <2>1. Kept(task[k], task[k])
    BY <1>1, SameKept, Zenon DEF IsTasks
  <2>2. task[k].state = "CLAIMED" =>
          Kept(task[k], [Unclaimed(task[k], "RETRY_WAIT") EXCEPT !.wait = 0])
    BY <1>1, UnclaimedKept, StateFacts, Zenon DEF IsTasks
  <2> QED
    BY <2>1, <2>2, Zenon DEF Reassigned
<1>4. Reassigned(g) = [k \in Tasks |-> Reassigned(g)[k]]
  BY Zenon DEF Reassigned
<1>5. AllKept(task, Reassigned(g)) /\ AllAlike(task, Reassigned(g))
  BY <1>3, <1>4, Zenon DEF AllKept, AllAlike, IsTasks, Kept, Alike
<1>6. AllAlike(task, task')
  BY <1>1, <1>5, SomeKept, Zenon DEF ReassignClaims
<1>7. CommandsKept /\ Refreshes(task', req, req')
  BY <1>1, <1>2, Stays, Zenon
<1> QED
  BY <1>2, <1>6, <1>7, ActiveStep, Zenon

\* expire_claims.
LEMMA ExpireStep == ASSUME IInv, ExpireClaims PROVE StepOk
<1>1. Types /\ IsTasks(task) /\ req \in [Requests -> ReqRecs]
  BY Zenon DEF IInv, Types
<1>2. /\ phase = "active" /\ UNCHANGED <<term, phase, envvars, member, cmd>>
      /\ UNCHANGED <<idem, objects, cut, snapshot, pub>>
  BY Zenon DEF ExpireClaims, memvars, pubvars, counts
<1>3. AllKept(task, ExpireAll(task)) /\ IsTasks(ExpireAll(task))
  BY <1>1, ExpireAllKept, Zenon DEF AllKept
<1>4. CommandsKept
  BY <1>1, <1>2, Stays, Zenon
<1>5. CASE Refresh(ExpireAll(task), req)
  <2>1. AllKept(ExpireAll(task), task') /\ Refreshes(task', req, req')
    BY <1>1, <1>3, <1>5, RefreshGives, Zenon
  <2>2. AllAlike(task, task')
    BY <1>3, <2>1, AllKeptTwice, Zenon
  <2> QED
    BY <1>2, <1>4, <2>1, <2>2, ActiveStep, Zenon
<1>6. CASE WriteSome(task, ExpireAll(task)) /\ UNCHANGED req
  BY <1>1, <1>2, <1>3, <1>4, <1>6, SomeKept, Stays, ActiveStep, Zenon
<1>7. CASE /\ \E k \in Tasks :
                /\ ClaimLapsed(task[k])
                /\ task' = [task EXCEPT ![k] = [Unclaimed(@, "EXPIRED") EXCEPT !.wait = 0]]
           /\ UNCHANGED req
  <2>1. PICK k \in Tasks :
             /\ ClaimLapsed(task[k])
             /\ task' = [task EXCEPT ![k] = [Unclaimed(task[k], "EXPIRED") EXCEPT !.wait = 0]]
    BY <1>7, Zenon
  <2>2. Alike(task[k], [Unclaimed(task[k], "EXPIRED") EXCEPT !.wait = 0])
    <3>1. IsTask(task[k]) /\ task[k].state = "CLAIMED"
      BY <1>1, <2>1, Zenon DEF IsTasks, ClaimLapsed
    <3>2. /\ IsTask(Unclaimed(task[k], "EXPIRED"))
          /\ Unclaimed(task[k], "EXPIRED").state = "EXPIRED"
          /\ Unclaimed(task[k], "EXPIRED").out = task[k].out
      BY <3>1, UnclaimedFields, StateFacts, Zenon
    <3> QED
      BY <3>1, <3>2, WaitFields, Zenon DEF Alike
  <2>3. AllAlike(task, task')
    BY <1>1, <2>1, <2>2, OneKept, Zenon
  <2> QED
    BY <1>1, <1>2, <1>4, <1>7, <2>3, Stays, ActiveStep, Zenon
<1> QED
  BY <1>5, <1>6, <1>7, Zenon DEF ExpireClaims

\* A command that is answered or dropped.
LEMMA Answered ==
    ASSUME Types, NEW c \in DOMAIN cmd, cmd[c].outcome = "pending", NEW o \in Outcomes,
           cmd' = [cmd EXCEPT ![c].outcome = o]
    PROVE  CommandsKept
<1>1. /\ cmd \in Seq(Commands) /\ cmd[c] \in Commands
      /\ cmd' = [cmd EXCEPT ![c] = [cmd[c] EXCEPT !.outcome = o]]
  BY DEF Types
<1>2. /\ [cmd[c] EXCEPT !.outcome = o] \in Commands
      /\ [cmd[c] EXCEPT !.outcome = o].task = cmd[c].task
      /\ [cmd[c] EXCEPT !.outcome = o].term = cmd[c].term
  BY <1>1, Zenon DEF Commands
<1>3. /\ cmd' \in Seq(Commands) /\ Len(cmd') = Len(cmd)
      /\ cmd'[c] = [cmd[c] EXCEPT !.outcome = o]
      /\ \A d \in DOMAIN cmd : d # c => cmd'[d] = cmd[d]
  BY <1>1, <1>2
<1> QED
  BY <1>2, <1>3, Zenon DEF CommandsKept

\* A command's number, task and claimant.
LEMMA CommandFacts ==
    ASSUME Types, NEW c \in DOMAIN cmd
    PROVE  /\ c \in 1..Len(cmd) /\ Len(cmd) \in Nat /\ cmd[c] \in Commands
           /\ cmd[c].task \in Tasks /\ cmd[c].agent \in Agents
<1>1. c \in 1..Len(cmd) /\ Len(cmd) \in Nat /\ cmd[c] \in Commands
  BY DEF Types
<1> QED
  BY <1>1, Zenon DEF Commands

\* release_claim.
LEMMA ReleaseStep == ASSUME IInv, NEW c \in DOMAIN cmd, ReleaseClaim(c) PROVE StepOk
<1>1. Types /\ IsTasks(task) /\ req \in [Requests -> ReqRecs]
  BY Zenon DEF IInv, Types
<1> DEFINE k == cmd[c].task
           y == [Unclaimed(task[k], "RETRY_WAIT") EXCEPT !.wait = 0]
<1>2. /\ phase = "active" /\ UNCHANGED <<term, phase, envvars, member>>
      /\ UNCHANGED <<idem, objects, cut, snapshot, pub>>
      /\ cmd[c].outcome = "pending" /\ task[k].state = "CLAIMED"
      /\ Refresh([task EXCEPT ![k] = y], req)
      /\ cmd' = [cmd EXCEPT ![c].outcome = "dropped"]
  BY Zenon DEF ReleaseClaim, memvars, pubvars, counts
<1>3. CommandsKept
  BY <1>1, <1>2, Answered, Zenon DEF Outcomes
<1>4. k \in Tasks
  BY <1>1, CommandFacts, Zenon
<1>5. Kept(task[k], y) /\ Alike(task[k], y)
  BY <1>1, <1>2, <1>4, UnclaimedKept, StateFacts, Zenon DEF IsTasks, Kept
<1> HIDE DEF k, y
<1>6. AllKept(task, [task EXCEPT ![k] = y])
  BY <1>1, <1>4, <1>5, OneKept, Zenon
<1>7. IsTasks([task EXCEPT ![k] = y])
  BY <1>6, Zenon DEF AllKept
<1>8. AllKept([task EXCEPT ![k] = y], task') /\ Refreshes(task', req, req')
  BY <1>1, <1>2, <1>7, RefreshGives, Zenon
<1>9. AllAlike(task, task')
  BY <1>6, <1>8, AllKeptTwice, Zenon
<1> QED
  BY <1>2, <1>3, <1>8, <1>9, ActiveStep, Zenon

\* cancel_request, called by an operator or by a dispatch pass.
LEMMA CancelStep == ASSUME IInv, NEW r \in Requests, CancelRequest(r) PROVE StepOk
<1>1. Types /\ IsTasks(task) /\ req \in [Requests -> ReqRecs]
  BY Zenon DEF IInv, Types
<1>2. /\ phase = "active" /\ UNCHANGED <<term, phase, envvars, member, cmd>>
      /\ UNCHANGED <<idem, objects, cut, snapshot, pub>>
      /\ Exists(req, r) /\ Cancel(task, req, r)
  BY Zenon DEF CancelRequest, memvars, pubvars, counts
<1>3. AllKept(task, task') /\ Refreshes(task', req, req')
  BY <1>1, <1>2, CancelGives, Zenon
<1>4. AllAlike(task, task')
  BY <1>3, Zenon DEF AllKept, AllAlike, Kept
<1>5. CommandsKept
  BY <1>1, <1>2, Stays, Zenon
<1> QED
  BY <1>2, <1>3, <1>4, <1>5, ActiveStep, Zenon

\* A worker ends its execution, whatever the Manager does meanwhile.
LEMMA ExecuteStep == ASSUME IInv, NEW c \in DOMAIN cmd, ExecuteTask(c) PROVE StepOk
<1>1. Types /\ IsTasks(task)
  BY Zenon DEF IInv, Types
<1>2. /\ UNCHANGED <<term, phase, envvars, member, task, req>>
      /\ UNCHANGED <<idem, cut, snapshot, pub>>
      /\ cmd[c].outcome = "pending" /\ (objects' = objects \/ objects' = objects \cup {c})
  BY Zenon DEF ExecuteTask, memvars, qvars, pubvars, counts
<1>3. PICK o \in Outcomes : cmd' = [cmd EXCEPT ![c].outcome = o]
  BY Zenon DEF ExecuteTask, Outcomes
<1>4. CommandsKept
  BY <1>1, <1>2, <1>3, Answered, Zenon
<1>5. AllKept(task, task') /\ AllAlike(task, task')
  BY <1>1, <1>2, AllSame, Zenon
<1>6. c \in Nat \ {0}
  BY <1>1, CommandFacts
<1>7. objects \subseteq objects' /\ objects' \subseteq Nat \ {0}
  BY <1>1, <1>2, <1>6, Zenon DEF Types
<1>8. /\ Refreshes(task', req, req')
      /\ ControlTypes' /\ PhaseMoves /\ term' = term /\ gen <= gen'
  BY <1>1, <1>2, Stays, Zenon
<1>9. phase = "recovered" /\ phase' = "fenced" => ClaimsOfTerm'
  BY <1>2, Zenon
<1> QED
  BY <1>2, <1>4, <1>5, <1>7, <1>8, <1>9, QuietStep, Zenon

\* fence_claims takes back the claims of earlier terms.
LEMMA FenceStep == ASSUME IInv, FenceClaims PROVE StepOk
<1>1. Types /\ IsTasks(task) /\ req \in [Requests -> ReqRecs]
  BY Zenon DEF IInv, Types
<1>2. /\ phase = "recovered" /\ phase' \in {"fenced", "down"}
      /\ UNCHANGED <<term, gen, lease, member, cmd, objects>>
      /\ UNCHANGED <<idem, cut, snapshot, pub>>
  BY Zenon DEF FenceClaims, envvars, memvars, pubvars, counts
<1>3. ASSUME NEW k \in Tasks
      PROVE  /\ Kept(task[k], FencedTasks[k])
             /\ FencedTasks[k].state = "CLAIMED" => cmd[FencedTasks[k].claim].term = term
  <2>1. CASE task[k].state = "CLAIMED" /\ cmd[task[k].claim].term # term
    <3>1. FencedTasks[k] = [Unclaimed(task[k], "RETRY_WAIT") EXCEPT !.wait = 0]
      BY <2>1, Zenon DEF FencedTasks
    <3>2. IsTask(task[k]) /\ task[k].state \in Active
      BY <1>1, <2>1, StateFacts, Zenon DEF IsTasks
    <3>3. Kept(task[k], FencedTasks[k])
      BY <3>1, <3>2, UnclaimedKept
    <3>4. FencedTasks[k].state = "RETRY_WAIT"
      BY <3>1, <3>2, UnclaimedFields, WaitFields, StateFacts
    <3> QED
      BY <3>3, <3>4, Zenon
  <2>2. CASE ~(task[k].state = "CLAIMED" /\ cmd[task[k].claim].term # term)
    BY <1>1, <2>2, SameKept, Zenon DEF IsTasks, FencedTasks
  <2> QED
    BY <2>1, <2>2, Zenon
<1>4. FencedTasks = [k \in Tasks |-> FencedTasks[k]]
  BY Zenon DEF FencedTasks
<1>5. AllKept(task, FencedTasks) /\ IsTasks(FencedTasks)
  BY <1>3, <1>4, Zenon DEF AllKept, IsTasks, Kept, Alike
<1>6. /\ AllKept(task, task') /\ Refreshes(task', req, req')
      /\ phase' = "fenced" => AllKept(FencedTasks, task')
  <2>1. CASE phase' = "fenced" /\ FencedTasks = task /\ UNCHANGED <<task, req>>
    BY <1>1, <1>5, <2>1, Stays, Zenon
  <2>2. CASE /\ task' = RefreshTasks(FencedTasks, req)
             /\ req' = RefreshReqs(FencedTasks, req)
    <3>1. AllKept(FencedTasks, task') /\ Refreshes(task', req, req')
      BY <1>1, <1>5, <2>2, RefreshGives, Zenon
    <3> QED
      BY <1>5, <3>1, AllKeptTwice, Zenon
  <2>3. CASE phase' = "down" /\ WriteSome(task, FencedTasks) /\ UNCHANGED req
    BY <1>1, <1>5, <2>3, SomeKept, Stays, Zenon
  <2> QED
    BY <2>1, <2>2, <2>3, Zenon DEF FenceClaims
<1>7. phase' = "fenced" => ClaimsOfTerm'
  BY <1>2, <1>3, <1>6, Zenon DEF AllKept, Kept, Alike, ClaimsOfTerm
<1>8. AllAlike(task, task')
  BY <1>6, Zenon DEF AllKept, AllAlike, Kept
<1>9. /\ CommandsKept /\ objects \subseteq objects' /\ objects' \subseteq Nat \ {0}
      /\ ControlTypes' /\ PhaseMoves /\ gen <= gen'
  BY <1>1, <1>2, Stays DEF Types, ControlTypes, Phases, PhaseMoves, Generations
<1> QED
  BY <1>2, <1>6, <1>7, <1>8, <1>9, QuietStep, Zenon

\* Requests that were not rewritten.
LEMMA RefreshesNone ==
    ASSUME NEW tk, NEW rq \in [Requests -> ReqRecs] PROVE Refreshes(tk, rq, rq)
BY Zenon DEF Refreshes

\* A task whose result arrived.
LEMMA CompletedFields ==
    ASSUME NEW x, IsTask(x), x.state = "CLAIMED", NEW c
    PROVE  /\ IsTask(Completed(x, c))
           /\ cmd[c].outcome = "ok" =>
                Completed(x, c).state = "SUCCEEDED" /\ Completed(x, c).out = c
           /\ cmd[c].outcome # "ok" => Kept(x, Completed(x, c))
<1>1. /\ \A st \in TaskStates : IsTask(Unclaimed(x, st)) /\ Unclaimed(x, st).state = st
      /\ {"SUCCEEDED", "RETRY_WAIT", "FAILED"} \subseteq TaskStates
  BY UnclaimedFields, StateFacts, Zenon
<1>2. ASSUME NEW z, IsTask(z), NEW o
      PROVE  /\ IsTask([z EXCEPT !.out = o]) /\ [z EXCEPT !.out = o].out = o
             /\ [z EXCEPT !.out = o].state = z.state
  BY <1>2, Zenon DEF IsTask, TaskFields
<1>3. CASE cmd[c].outcome = "ok"
  <2>1. Completed(x, c) = [Unclaimed(x, "SUCCEEDED") EXCEPT !.out = c]
    BY <1>3, Zenon DEF Completed
  <2> QED
    BY <1>1, <1>2, <1>3, <2>1
<1>4. CASE cmd[c].outcome # "ok"
  <2>1. \/ Completed(x, c) = [Unclaimed(x, "RETRY_WAIT") EXCEPT
                               !.wait = RetryDelay(x.attempt), !.out = 0]
        \/ Completed(x, c) = [Unclaimed(x, "FAILED") EXCEPT !.out = 0]
    BY <1>4, Zenon DEF Completed
  <2>2. /\ IsTask(Completed(x, c)) /\ Completed(x, c).out = 0
        /\ Completed(x, c).state \in {"RETRY_WAIT", "FAILED"}
    <3>1. IsTask(Unclaimed(x, "RETRY_WAIT")) /\ IsTask(Unclaimed(x, "FAILED"))
          /\ Unclaimed(x, "RETRY_WAIT").state = "RETRY_WAIT"
          /\ Unclaimed(x, "FAILED").state = "FAILED"
      BY <1>1, Zenon
    <3>2. CASE Completed(x, c) = [Unclaimed(x, "FAILED") EXCEPT !.out = 0]
      BY <1>2, <3>1, <3>2
    <3>3. CASE Completed(x, c) = [Unclaimed(x, "RETRY_WAIT") EXCEPT
                                    !.wait = RetryDelay(x.attempt), !.out = 0]
      BY <3>1, <3>3, Zenon DEF IsTask, TaskFields
    <3> QED
      BY <2>1, <3>2, <3>3, Zenon
  <2> QED
    BY <1>4, <2>2, Zenon DEF Kept, Alike
<1> QED
  BY <1>3, <1>4, Zenon

\* accept_result: the claim it accepts is in force, and of the term in office.
LEMMA AcceptStep == ASSUME IInv, NEW c \in DOMAIN cmd, AcceptResult(c) PROVE StepOk
<1>1. Types /\ IsTasks(task) /\ req \in [Requests -> ReqRecs]
  BY Zenon DEF IInv, Types
<1> DEFINE k == cmd[c].task
           tk == RefreshTasks(ExpireAll(task), req)
           rq == RefreshReqs(ExpireAll(task), req)
           done == [tk EXCEPT ![k] = Completed(tk[k], c)]
<1>2. /\ phase = "active" /\ UNCHANGED <<term, phase, envvars, member, cmd>>
      /\ UNCHANGED <<idem, objects, cut, snapshot, pub>>
  BY Zenon DEF AcceptResult, memvars, pubvars, counts
<1>3. k \in Tasks /\ ReqOf(k) \in Requests
  BY <1>1, CommandFacts, TaskFacts, Zenon
<1>4. /\ AllKept(task, tk) /\ AllAlike(task, tk) /\ IsTasks(tk)
      /\ Refreshes(tk, req, rq) /\ rq \in [Requests -> ReqRecs]
  <2>1. AllKept(task, ExpireAll(task)) /\ IsTasks(ExpireAll(task))
    BY <1>1, ExpireAllKept, Zenon DEF AllKept
  <2>2. AllKept(ExpireAll(task), tk) /\ Refreshes(tk, req, rq)
    BY <1>1, <2>1, RefreshGives, Zenon
  <2>3. AllKept(task, tk) /\ AllAlike(task, tk)
    BY <2>1, <2>2, AllKeptTwice, Zenon
  <2> QED
    BY <2>2, <2>3, Zenon DEF AllKept, Refreshes
<1>5. CommandsKept
  BY <1>1, <1>2, Stays, Zenon
<1>6. \/ task' = tk /\ req' = rq
      \/ ClaimHolds(tk, c) /\ Cancel(tk, rq, ReqOf(k))
      \/ /\ ClaimHolds(tk, c) /\ GenOf(ReqOf(k)) = gen
         /\ cmd[c].outcome = "ok" => c \in objects
         /\ Refresh(done, rq) \/ (task' = done /\ req' = rq)
  BY Zenon DEF AcceptResult, OutputVerified
<1> HIDE DEF k, tk, rq, done
<1>7. CASE task' = tk /\ req' = rq
  BY <1>2, <1>4, <1>5, <1>7, ActiveStep, Zenon
<1>8. CASE ClaimHolds(tk, c) /\ Cancel(tk, rq, ReqOf(k))
  <2>1. Present(tk, k)
    BY <1>8, Zenon DEF ClaimHolds, Present, k
  <2>2. Exists(rq, ReqOf(k))
    BY <1>2, <1>3, <1>4, <2>1, Zenon DEF IInv, RecordsOk, AllAlike, Alike, Present, Refreshes
  <2>3. AllKept(tk, task') /\ Refreshes(task', rq, req')
    BY <1>3, <1>4, <1>8, <2>2, CancelGives, Zenon
  <2>4. AllAlike(task, task')
    BY <1>4, <2>3, AllKeptTwice, Zenon
  <2>5. Refreshes(task', req, req')
    BY <1>4, <2>3, DoneKept, Zenon DEF Refreshes, AllKept, AllAlike, Kept
  <2> QED
    BY <1>2, <1>5, <2>4, <2>5, ActiveStep, Zenon
<1>9. CASE /\ ClaimHolds(tk, c) /\ GenOf(ReqOf(k)) = gen
           /\ cmd[c].outcome = "ok" => c \in objects
           /\ Refresh(done, rq) \/ (task' = done /\ req' = rq)
  <2>1. /\ tk[k].state = "CLAIMED" /\ tk[k].claim = c /\ IsTask(tk[k])
        /\ task[k].state = "CLAIMED" /\ task[k].claim = c
    <3>1. tk[k].state = "CLAIMED" /\ tk[k].claim = c
      BY <1>9, Zenon DEF ClaimHolds, k
    <3> QED
      BY <1>3, <1>4, <3>1, Zenon DEF AllAlike, Alike, IsTasks
  <2>2. /\ done[k] = Completed(tk[k], c) /\ done = [j \in Tasks |-> done[j]]
        /\ \A j \in Tasks : j # k => done[j] = tk[j]
    BY <1>3, <1>4, Zenon DEF done, IsTasks
  <2>3. IsTasks(done)
    BY <1>4, <2>1, <2>2, CompletedFields DEF IsTasks
  <2>4. AllKept(done, task') /\ AllAlike(done, task') /\ Refreshes(task', rq, req')
    <3>1. CASE Refresh(done, rq)
      BY <1>4, <2>3, <3>1, RefreshGives, Zenon DEF AllKept, AllAlike, Kept
    <3>2. CASE task' = done /\ req' = rq
      BY <1>4, <2>3, <3>2, AllSame, RefreshesNone, Zenon
    <3> QED
      BY <1>9, <3>1, <3>2, Zenon
  <2>5. \A r \in Requests : AllDone(tk, r) => AllDone(task', r)
    <3> SUFFICES ASSUME NEW r \in Requests, AllDone(tk, r) PROVE AllDone(done, r)
      BY <2>4, DoneKept, Zenon
    <3>1. k \notin TasksOf(r)
      BY <2>1, Zenon DEF AllDone, Present
    <3>2. \A j \in TasksOf(r) : done[j] = tk[j]
      BY <2>2, <3>1, TaskFacts, Zenon
    <3> QED
      BY <3>2, Zenon DEF AllDone, Present
  <2>6. Refreshes(task', req, req')
    BY <1>4, <2>4, <2>5, Zenon DEF Refreshes
  <2>7. \A j \in Tasks : j # k => Alike(task[j], task'[j])
    BY <1>4, <2>2, <2>4, KeptTwice, Zenon DEF AllAlike
  <2>8. CASE cmd[c].outcome = "ok"
    <3>1. done[k].state = "SUCCEEDED" /\ done[k].out = c
      BY <2>1, <2>2, <2>8, CompletedFields
    <3>2. task'[k].state = "SUCCEEDED" /\ task'[k].out = c /\ IsTask(task'[k])
      BY <1>3, <2>4, <3>1, Zenon DEF AllAlike, Alike
    <3>3. Finishes(task[k], task'[k])
      BY <1>9, <2>1, <2>8, <3>2, Zenon DEF Finishes
    <3>4. AllMoved
      BY <2>4, <2>7, <3>3, Zenon DEF AllMoved, AllKept
    <3>5. Moves /\ phase' = "active"
      BY <1>1, <1>2, <1>5, <2>6, <3>4, Stays, Zenon DEF Moves
    <3>6. IInv' /\ SnapshotStep
      BY <1>2, <3>5, MovesKeep, SnapshotStays, Zenon DEF IInv
    <3>7. cmd[c].term = term
      BY <1>2, <1>3, <2>1, Zenon DEF IInv, ClaimsOfTerm
    <3>8. /\ lease[cmd[c].agent] = cmd[c].lease
          /\ \/ GenOf(ReqOf(k)) \notin roster
             \/ member[GenOf(ReqOf(k))][cmd[c].agent].fence = cmd[c].fence
      BY <1>9 DEF ClaimHolds, MembershipStands, k
    <3>9. \A j \in Tasks : task'[j].state = "SUCCEEDED" /\ task[j].state # "SUCCEEDED" => j = k
      BY <2>7, Zenon DEF Alike
    <3>10. AcceptedStep
      BY <1>9, <3>2, <3>7, <3>8, <3>9, Zenon DEF AcceptedStep
    <3> QED
      BY <3>6, <3>10, Zenon DEF StepOk
  <2>9. CASE cmd[c].outcome # "ok"
    <3>1. Alike(tk[k], done[k])
      BY <2>1, <2>2, <2>9, CompletedFields DEF Kept
    <3>2. Alike(task[k], task'[k])
      BY <1>3, <1>4, <2>4, <3>1, KeptTwice, Zenon DEF AllAlike
    <3>3. AllAlike(task, task')
      BY <2>4, <2>7, <3>2, Zenon DEF AllAlike
    <3> QED
      BY <1>2, <1>5, <2>6, <3>3, ActiveStep, Zenon
  <2> QED
    BY <2>8, <2>9, Zenon
<1> QED
  BY <1>6, <1>7, <1>8, <1>9, Zenon

-----------------------------------------------------------------------------
(* Publications *)

\* A step that leaves tasks, commands and the control state alone, and marks
\* requests at most as published.
PubFrame ==
    /\ UNCHANGED <<term, phase, gen, lease, member, task, cmd, idem, cut>>
    /\ req' \in [Requests -> ReqRecs]
    /\ \A r \in Requests :
         /\ req'[r].state = req[r].state /\ req'[r].ready = req[r].ready
         /\ req'[r].published = req[r].published \/ r \in idem

\* Such a step, given what it does to publications and objects.
LEMMA PubStep ==
    ASSUME IInv, PubFrame, PubTypes', objects' \subseteq Nat \ {0},
           CollectedMade', SnapshotsOk', PublicationsOk', OutputsKept', SnapshotStep
    PROVE  StepOk
<1>1. Types'
  <2>1. ControlTypes' /\ IsTasks(task)' /\ cmd' \in Seq(Commands)
    BY Zenon DEF IInv, Types, ControlTypes, PubFrame
  <2>2. idem' \subseteq Requests /\ cut' \subseteq Requests /\ req' \in [Requests -> ReqRecs]
    BY Zenon DEF IInv, Types, PubFrame
  <2> QED
    BY <2>1, <2>2, Zenon DEF Types
<1>2. LatestClaimWins'
  BY Zenon DEF IInv, LatestClaimWins, TokensOf, Tokens, PubFrame
<1>3. OutputsMade'
  BY Zenon DEF IInv, OutputsMade, PubFrame
<1>4. ClaimsOfTerm'
  BY Zenon DEF IInv, ClaimsOfTerm, PubFrame
<1>5. \A r \in Requests : Exists(req', r) <=> Exists(req, r)
  BY Zenon DEF PubFrame, Exists
<1>6. RecordsOk'
  <2>1. idem' = idem /\ cut' = cut /\ task' = task /\ phase' = phase /\ cut \subseteq Requests
    BY Zenon DEF PubFrame, IInv, Types
  <2>2. phase' # "down" => \A k \in Tasks : Present(task', k) => Exists(req', ReqOf(k))
    BY <1>5, <2>1, TaskFacts, Zenon DEF IInv, RecordsOk
  <2>3. phase' # "down" => \A r \in Requests :
          Exists(req', r) /\ r \notin idem' => phase' = "active" /\ ~req'[r].published
    BY <1>5, <2>1, Zenon DEF IInv, RecordsOk, PubFrame
  <2>4. \A r \in cut' : Exists(req', r) /\ req'[r].ready /\ (phase' # "down" => r \in idem')
    BY <1>5, <2>1, Zenon DEF IInv, RecordsOk, PubFrame
  <2>5. \A r \in Requests \ cut' : Exists(req', r) /\ req'[r].ready =>
          \A k \in TasksOf(r) : Present(task', k)
    BY <1>5, <2>1, Zenon DEF IInv, RecordsOk, PubFrame
  <2>6. phase' = "active" => \A r \in Requests \ cut' :
          Exists(req', r) /\ (\E j \in TasksOf(r) : ~Present(task', j)) =>
            \A k \in TasksOf(r) : task'[k].state \notin {"CLAIMED", "SUCCEEDED"}
    BY <1>5, <2>1, Zenon DEF IInv, RecordsOk
  <2> QED
    BY <2>2, <2>3, <2>4, <2>5, <2>6, Zenon DEF RecordsOk
<1>7. RecoveryCleansUp'
  BY <1>5, TaskFacts, Zenon DEF IInv, RecoveryCleansUp, PubFrame
<1>8. AcceptedStep
  BY Zenon DEF AcceptedStep, PubFrame
<1> QED
  BY <1>1, <1>2, <1>3, <1>4, <1>6, <1>7, <1>8, Zenon DEF StepOk, IInv

\* The outputs of the other requests survive prune_staging, and those it keeps.
LEMMA PruneKeeps ==
    ASSUME Types, LatestClaimWins, NEW r \in Requests, NEW keep, NEW q \in Requests,
           NEW k \in TasksOf(q), task[k].state = "SUCCEEDED", task[k].out \in objects,
           q # r \/ task[k].out \in keep
    PROVE  task[k].out \in PruneStaging(r, keep)
<1>1. k \in Tasks /\ ReqOf(k) = q
  BY TaskFacts, Zenon
<1>2. cmd[task[k].out].task = k
  BY <1>1, Zenon DEF LatestClaimWins, TokensOf
<1> QED
  BY <1>1, <1>2, Zenon DEF PruneStaging, Staged

\* A step of a publication that changes nothing else.
LEMMA OnlyPubStep ==
    ASSUME IInv, UNCHANGED <<term, phase, gen, lease, member, req, task, cmd, idem, cut>>,
           UNCHANGED <<objects, snapshot>>,
           NEW r \in Requests, NEW p \in [stage : Stages, objs : [Splits -> Nat]],
           pub' = [pub EXCEPT ![r] = p],
           p.stage # "idle" => phase = "active" /\ r \in idem /\ p.stage # "prune",
           \A s \in Splits : p.objs[s] # 0 => Made(cmd, p.objs[s], <<r, s>>)
    PROVE  StepOk
<1>1. PubFrame
  BY Zenon DEF IInv, Types, PubFrame
<1>2. pub'[r] = p /\ (\A q \in Requests : q # r => pub'[q] = pub[q])
  BY Zenon DEF IInv, Types, PubTypes
<1>3. PubTypes' /\ objects' \subseteq Nat \ {0}
  BY Zenon DEF IInv, Types, PubTypes
<1>4. CollectedMade'
  BY <1>2, Zenon DEF IInv, CollectedMade
<1>5. SnapshotsOk'
  BY Zenon DEF IInv, SnapshotsOk
<1>6. PublicationsOk'
  BY <1>2, Zenon DEF IInv, PublicationsOk
<1>7. OutputsKept'
  BY Zenon DEF IInv, OutputsKept, Exists
<1>8. SnapshotStep
  BY SnapshotStays, Zenon DEF IInv
<1> QED
  BY <1>1, <1>3, <1>4, <1>5, <1>6, <1>7, <1>8, PubStep, Zenon

\* The record of a publication.
LEMMA PubRecord ==
    ASSUME IInv, NEW r \in Requests
    PROVE  /\ pub[r] \in [stage : Stages, objs : [Splits -> Nat]]
           /\ \A s \in Splits : pub[r].objs[s] # 0 => Made(cmd, pub[r].objs[s], <<r, s>>)
           /\ pub[r].stage # "idle" => phase = "active" /\ r \in idem
           /\ NoPub \in [stage : Stages, objs : [Splits -> Nat]]
           /\ NoPub.stage = "idle" /\ \A s \in Splits : NoPub.objs[s] = 0
BY Zenon DEF IInv, Types, PubTypes, CollectedMade, PublicationsOk, NoPub, NoOutputs, Stages

\* A publication reaches another stage.
LEMMA StageStep ==
    ASSUME IInv, UNCHANGED <<term, phase, gen, lease, member, req, task, cmd, idem, cut>>,
           UNCHANGED <<objects, snapshot>>,
           NEW r \in Requests, NEW st \in {"seen", "collect", "commit"},
           pub' = [pub EXCEPT ![r].stage = st], phase = "active", r \in idem
    PROVE  StepOk
<1> DEFINE p == [pub[r] EXCEPT !.stage = st]
<1>1. /\ p \in [stage : Stages, objs : [Splits -> Nat]]
      /\ p.stage = st /\ p.objs = pub[r].objs /\ pub' = [pub EXCEPT ![r] = p]
  BY PubRecord, Zenon DEF Stages
<1> HIDE DEF p
<1>2. /\ p.stage # "idle" => phase = "active" /\ r \in idem /\ p.stage # "prune"
      /\ \A s \in Splits : p.objs[s] # 0 => Made(cmd, p.objs[s], <<r, s>>)
  BY <1>1, PubRecord, Zenon
<1> QED
  BY <1>1, <1>2, OnlyPubStep, Zenon

\* A wait that ends, a publication that starts, writes its metadata or gives up.
LEMMA PublishSteps ==
    ASSUME IInv, NEW r \in Requests,
           WaitReturns(r) \/ PublishStart(r) \/ PublishObjects(r) \/ PublishAbort(r)
    PROVE  StepOk
<1>1. CASE WaitReturns(r)
  <2>1. /\ UNCHANGED <<term, phase, gen, lease, member, req, task, cmd, idem, cut>>
        /\ UNCHANGED <<objects, snapshot>>
        /\ pub' = [pub EXCEPT ![r].stage = "seen"] /\ phase = "active" /\ r \in idem
    BY <1>1, Zenon DEF WaitReturns, envvars, memvars, qvars, counts
  <2> QED
    BY <2>1, StageStep, Zenon
<1>2. CASE PublishStart(r)
  <2>1. /\ UNCHANGED <<term, phase, gen, lease, member, req, task, cmd, idem, cut>>
        /\ UNCHANGED <<objects, snapshot>>
        /\ pub' = [pub EXCEPT ![r].stage = "collect"] /\ pub[r].stage # "idle"
    BY <1>2, Zenon DEF PublishStart, envvars, memvars, qvars, counts
  <2> QED
    BY <2>1, StageStep, PubRecord, Zenon
<1>3. CASE PublishObjects(r)
  <2>1. /\ UNCHANGED <<term, phase, gen, lease, member, req, task, cmd, idem, cut>>
        /\ UNCHANGED <<objects, snapshot>>
        /\ pub' = [pub EXCEPT ![r].stage = "commit"] /\ pub[r].stage # "idle"
    BY <1>3, Zenon DEF PublishObjects, envvars, memvars, qvars, counts
  <2> QED
    BY <2>1, StageStep, PubRecord, Zenon
<1>4. CASE PublishAbort(r)
  <2>1. /\ UNCHANGED <<term, phase, gen, lease, member, req, task, cmd, idem, cut>>
        /\ UNCHANGED <<objects, snapshot>>
        /\ pub' = [pub EXCEPT ![r] = NoPub]
    BY <1>4, Zenon DEF PublishAbort, envvars, memvars, qvars, counts
  <2>2. /\ NoPub \in [stage : Stages, objs : [Splits -> Nat]]
        /\ NoPub.stage # "idle" => phase = "active" /\ r \in idem /\ NoPub.stage # "prune"
        /\ \A s \in Splits : NoPub.objs[s] # 0 => Made(cmd, NoPub.objs[s], <<r, s>>)
    BY PubRecord, Zenon
  <2> QED
    BY <2>1, <2>2, OnlyPubStep, Zenon
<1> QED
  BY <1>1, <1>2, <1>3, <1>4, Zenon

\* A publication takes over the result of one task.
LEMMA CollectStep ==
    ASSUME IInv, NEW r \in Requests, NEW s \in Splits, CollectSplit(r, s)
    PROVE  StepOk
<1> DEFINE out == task[<<r, s>>].out
           p == [pub[r] EXCEPT !.objs[s] = out]
<1>1. /\ UNCHANGED <<term, phase, gen, lease, member, req, task, cmd, idem, cut>>
      /\ UNCHANGED <<objects, snapshot>>
      /\ pub' = [pub EXCEPT ![r] = p] /\ pub[r].stage = "collect" /\ out > 0
  BY Zenon DEF CollectSplit, envvars, memvars, qvars, counts
<1>2. <<r, s>> \in Tasks
  BY TaskFacts, Zenon
<1>3. out # 0
  BY <1>1
<1>4. Made(cmd, out, <<r, s>>)
  BY <1>2, <1>3, Zenon DEF IInv, OutputsMade
<1>5. out \in Nat
  BY <1>4, CommandFacts DEF IInv, Made
<1> HIDE DEF out
<1>6. /\ p \in [stage : Stages, objs : [Splits -> Nat]] /\ p.stage = "collect"
      /\ p.objs[s] = out /\ \A z \in Splits : z # s => p.objs[z] = pub[r].objs[z]
  <2>1. p = [pub[r] EXCEPT !.objs = [pub[r].objs EXCEPT ![s] = out]]
    BY PubRecord, Zenon
  <2>2. [pub[r].objs EXCEPT ![s] = out] \in [Splits -> Nat]
    BY <1>5, PubRecord, Zenon
  <2> HIDE DEF p
  <2> QED
    BY <1>1, <2>1, <2>2, PubRecord, Zenon
<1> HIDE DEF p
<1>7. \A z \in Splits : p.objs[z] # 0 => Made(cmd, p.objs[z], <<r, z>>)
  BY <1>4, <1>6, PubRecord, Zenon
<1>8. phase = "active" /\ r \in idem
  BY <1>1, PubRecord, Zenon
<1> QED
  BY <1>1, <1>6, <1>7, <1>8, OnlyPubStep, Zenon

\* A publication that only prunes ends.
LEMMA PruneStep ==
    ASSUME IInv, UNCHANGED <<term, phase, gen, lease, member, req, task, cmd, idem, cut>>,
           snapshot' = snapshot, NEW r \in Requests, NEW keep,
           objects' = PruneStaging(r, keep), pub' = [pub EXCEPT ![r] = NoPub],
           req[r].published \/ \A k \in TasksOf(r) : task[k].out \in keep
    PROVE  StepOk
<1>1. PubFrame
  BY Zenon DEF IInv, Types, PubFrame
<1>2. pub'[r] = NoPub /\ (\A q \in Requests : q # r => pub'[q] = pub[q])
  BY Zenon DEF IInv, Types, PubTypes
<1>3. PubTypes' /\ objects' \subseteq Nat \ {0}
  BY PubRecord, Zenon DEF IInv, Types, PubTypes, PruneStaging
<1>4. CollectedMade'
  BY <1>2, PubRecord, Zenon DEF IInv, CollectedMade
<1>5. SnapshotsOk'
  BY Zenon DEF IInv, SnapshotsOk
<1>6. PublicationsOk'
  BY <1>2, PubRecord, Zenon DEF IInv, PublicationsOk
<1>7. OutputsKept'
  <2> SUFFICES ASSUME NEW q \in Requests \ cut, Exists(req, q), ~req[q].published,
                      req[q].ready \/ phase = "active",
                      NEW k \in TasksOf(q), task[k].state = "SUCCEEDED"
               PROVE  task[k].out \in objects'
    BY Zenon DEF IInv, OutputsKept, Exists
  <2>1. task[k].out \in objects
    BY Zenon DEF IInv, OutputsKept
  <2>2. q # r \/ task[k].out \in keep
    BY Zenon
  <2> QED
    BY <2>1, <2>2, PruneKeeps, Zenon DEF IInv
<1>8. SnapshotStep
  BY SnapshotStays, Zenon DEF IInv
<1> QED
  BY <1>1, <1>3, <1>4, <1>5, <1>6, <1>7, <1>8, PubStep, Zenon

\* The staged outputs that the snapshot does not use are pruned.
LEMMA PruneSteps ==
    ASSUME IInv, NEW r \in Requests, PublishExisting(r) \/ PublishPrune(r)
    PROVE  StepOk
<1>1. CASE PublishExisting(r)
  <2>1. /\ UNCHANGED <<term, phase, gen, lease, member, req, task, cmd, idem, cut>>
        /\ snapshot' = snapshot /\ pub' = [pub EXCEPT ![r] = NoPub]
        /\ objects' = PruneStaging(r, {task[k].out : k \in TasksOf(r)})
    BY <1>1, Zenon DEF PublishExisting, envvars, memvars, qvars, counts
  <2>2. \A k \in TasksOf(r) : task[k].out \in {task[j].out : j \in TasksOf(r)}
    BY Zenon
  <2> QED
    BY <2>1, <2>2, PruneStep, Zenon
<1>2. CASE PublishPrune(r)
  <2>1. /\ UNCHANGED <<term, phase, gen, lease, member, req, task, cmd, idem, cut>>
        /\ snapshot' = snapshot /\ pub' = [pub EXCEPT ![r] = NoPub]
        /\ objects' = PruneStaging(r, {pub[r].objs[s] : s \in Splits})
        /\ pub[r].stage = "prune"
    BY <1>2, Zenon DEF PublishPrune, envvars, memvars, qvars, counts
  <2>2. req[r].published
    BY <2>1, Zenon DEF IInv, PublicationsOk
  <2> QED
    BY <2>1, <2>2, PruneStep, Zenon
<1> QED
  BY <1>1, <1>2, Zenon

\* publish_snapshot: every output of the manifest is there, hence was made, and
\* the guard on the generation keeps older snapshots out.
LEMMA SnapshotPublished ==
    ASSUME IInv, NEW r \in Requests, PublishSnapshot(r)
    PROVE  StepOk
<1>1. /\ UNCHANGED <<term, phase, gen, lease, member, task, cmd, idem, cut, objects>>
      /\ snapshot' = [snapshot EXCEPT ![TableOf(r)] = Manifest(r)]
      /\ phase = "active" /\ pub[r].stage = "commit" /\ GenOf(r) = gen
      /\ \A s \in Splits : pub[r].objs[s] \in objects
  BY Zenon DEF PublishSnapshot, envvars, memvars, counts, GenerationStands, Intact, Manifest
<1>2. /\ r \in idem /\ TableOf(r) \in Tables /\ pub \in [Requests -> [stage : Stages, objs : [Splits -> Nat]]]
      /\ req \in [Requests -> ReqRecs]
  BY <1>1, PubRecord, TaskFacts, Zenon DEF IInv, Types, PubTypes
<1>3. /\ req' \in [Requests -> ReqRecs]
      /\ \A q \in Requests :
           /\ req'[q].state = req[q].state /\ req'[q].ready = req[q].ready
           /\ req'[q].published = req[q].published \/ (q = r /\ req'[q].published)
  <2>1. CASE req' = req
    BY <1>2, <2>1, Zenon
  <2>2. CASE req' = [req EXCEPT ![r].published = TRUE]
    BY <1>2, <2>2, Zenon DEF ReqRecs
  <2> QED
    BY <2>1, <2>2, Zenon DEF PublishSnapshot
<1>4. PubFrame
  BY <1>1, <1>2, <1>3, Zenon DEF PubFrame
<1>5. /\ pub' \in [Requests -> [stage : Stages, objs : [Splits -> Nat]]]
      /\ \A q \in Requests : q # r => pub'[q] = pub[q]
      /\ \A s \in Splits : pub'[r].objs[s] \in {0, pub[r].objs[s]}
      /\ pub'[r].stage = "idle" \/ (pub'[r].stage = "prune" /\ req'[r].published)
  <2>1. CASE pub' = [pub EXCEPT ![r] = NoPub]
    BY <1>2, <2>1, PubRecord, Zenon
  <2>2. CASE /\ req' = [req EXCEPT ![r].published = TRUE]
             /\ pub' = [pub EXCEPT ![r].stage = "prune"]
    BY <1>2, <2>2, Zenon DEF Stages, ReqRecs
  <2> QED
    BY <2>1, <2>2, Zenon DEF PublishSnapshot
<1>6. \A s \in Splits : Made(cmd, pub[r].objs[s], <<r, s>>)
  BY <1>1, PubRecord, Zenon DEF IInv, Types
<1>7. /\ Manifest(r) \in [req : {<<>>} \cup Requests, objs : [Splits -> Nat]]
      /\ Manifest(r).req = r /\ Manifest(r).objs = pub[r].objs
  BY <1>2, Zenon DEF Manifest
<1>8. /\ snapshot'[TableOf(r)] = Manifest(r)
      /\ \A t \in Tables : t # TableOf(r) => snapshot'[t] = snapshot[t]
  BY <1>1, <1>2, Zenon DEF IInv, Types, PubTypes
<1>9. PubTypes' /\ objects' \subseteq Nat \ {0}
  BY <1>1, <1>5, <1>7, Zenon DEF IInv, Types, PubTypes
<1>10. CollectedMade'
  BY <1>1, <1>5, Zenon DEF IInv, CollectedMade
<1>11. gen \in Nat
  BY DEF IInv, Types, ControlTypes, Generations
<1>12. SnapshotsOk'
  <2> SUFFICES ASSUME NEW t \in Tables, snapshot'[t] # NoSnapshot
               PROVE  /\ snapshot'[t].req \in Requests /\ TableOf(snapshot'[t].req) = t
                      /\ GenOf(snapshot'[t].req) <= gen
                      /\ \A s \in Splits : Made(cmd, snapshot'[t].objs[s], <<snapshot'[t].req, s>>)
    BY <1>1, Zenon DEF SnapshotsOk
  <2>1. CASE t = TableOf(r)
    BY <1>1, <1>6, <1>7, <1>8, <1>11, <2>1
  <2>2. CASE t # TableOf(r)
    BY <1>8, <2>2, Zenon DEF IInv, SnapshotsOk
  <2> QED
    BY <2>1, <2>2, Zenon
<1>13. PublicationsOk'
  BY <1>1, <1>2, <1>3, <1>5, Zenon DEF IInv, PublicationsOk
<1>14. OutputsKept'
  <2>1. \A q \in Requests : (Exists(req', q) <=> Exists(req, q))
                             /\ (~req'[q].published => ~req[q].published)
    BY <1>3, Zenon DEF Exists
  <2> QED
    BY <1>1, <1>3, <2>1 DEF IInv, OutputsKept
<1>15. SnapshotStep
  <2>1. \A q \in Requests : GenOf(q) \in Nat
    BY TaskFacts DEF Generations
  <2>2. \A t \in Tables : snapshot[t] # NoSnapshot =>
          GenOf(snapshot[t].req) <= gen /\ GenOf(snapshot[t].req) \in Nat
    BY <2>1, Zenon DEF IInv, SnapshotsOk
  <2> QED
    BY <1>1, <1>7, <1>8, <1>11, <2>2 DEF SnapshotStep
<1> QED
  BY <1>4, <1>9, <1>10, <1>12, <1>13, <1>14, <1>15, PubStep, Zenon
-----------------------------------------------------------------------------
(* Creation and claims *)

\* create_request: the request is protected against a second creation, or it is
\* rewritten by an active Manager, whose earlier attempt left no published work.
LEMMA CreateStep == ASSUME IInv, NEW t \in Tables, CreateRequest(t) PROVE StepOk
<1> DEFINE r == <<t, gen>>
           fresh(D) == [k \in Tasks |-> IF k \in TasksOf(r) /\ k[2] \in D THEN NewTask ELSE task[k]]
<1>1. /\ UNCHANGED <<term, phase, gen, lease, member, cmd, cut, objects, snapshot, pub>>
      /\ phase = "active" /\ r \notin idem
  BY Zenon DEF CreateRequest, envvars, memvars, pubvars
<1>2. /\ Types /\ IsTasks(task) /\ req \in [Requests -> ReqRecs] /\ r \in Requests
      /\ r \notin cut
  BY <1>1, TaskFacts, Zenon DEF IInv, Types, ControlTypes, RecordsOk
<1>3. PICK D \in SUBSET Splits :
        /\ task' = fresh(D)
        /\ \/ /\ req' = [req EXCEPT ![r] = [NewReq EXCEPT !.ready = TRUE]] /\ D = Splits
              /\ idem' = idem \cup {r} \/ idem' = idem
           \/ req' = [req EXCEPT ![r] = NewReq] /\ idem' = idem
  BY Zenon DEF CreateRequest
<1>4. \A k \in Tasks : \/ task'[k] = NewTask /\ k \in TasksOf(r)
                       \/ task'[k] = task[k] /\ (k \in TasksOf(r) => D # Splits)
  <2>1. \A k \in TasksOf(r) : k[2] \in Splits
    BY Zenon DEF TasksOf
  <2> QED
    BY <1>3, <2>1, Zenon
<1>5. IsTasks(task')
  BY <1>2, <1>3, <1>4, FixedTasks, Zenon DEF IsTasks
<1>6. PICK nr \in ReqRecs : /\ req' = [req EXCEPT ![r] = nr]
                            /\ nr.state = "QUEUED" /\ ~nr.published
                            /\ nr.ready => D = Splits
  BY <1>3, FixedReqs, Zenon
<1> HIDE DEF r, fresh
<1>7. /\ req' \in [Requests -> ReqRecs]
      /\ req'[r].state = "QUEUED" /\ ~req'[r].published
      /\ req'[r].ready => D = Splits
      /\ \A q \in Requests : q # r => req'[q] = req[q]
  <2>1. /\ req' \in [Requests -> ReqRecs] /\ req'[r] = nr
        /\ \A q \in Requests : q # r => req'[q] = req[q]
    BY <1>2, <1>6, Zenon
  <2> QED
    BY <1>6, <2>1, Zenon
<1>8. idem \subseteq idem' /\ idem' \subseteq idem \cup {r}
  BY <1>3, Zenon
<1>9. /\ NewTask.state = "QUEUED" /\ NewTask.out = 0
      /\ \A k \in Tasks : k \in TasksOf(r) => ReqOf(k) = r
  BY <1>2, FixedTasks, TaskFacts, Zenon
<1>10. \A k \in Tasks : task'[k].state \in {"CLAIMED", "SUCCEEDED"} => task'[k] = task[k]
  BY <1>4, <1>9, Zenon
<1>11. Types'
  <2>1. ControlTypes' /\ PubTypes'
    BY <1>1, <1>2, Zenon DEF Types, ControlTypes, PubTypes
  <2>2. /\ idem' \subseteq Requests /\ cut' \subseteq Requests
        /\ cmd' \in Seq(Commands) /\ objects' \subseteq Nat \ {0}
    BY <1>1, <1>2, <1>8, Zenon DEF Types
  <2> QED
    BY <1>5, <1>7, <2>1, <2>2, Zenon DEF Types
<1>12. LatestClaimWins' /\ OutputsMade' /\ CollectedMade'
  <2>1. \A k \in Tasks : TokensOf(k)' = TokensOf(k)
    BY <1>1, Zenon DEF TokensOf, Tokens
  <2>2. LatestClaimWins'
    BY <1>1, <1>10, <2>1, Zenon DEF IInv, LatestClaimWins
  <2>3. OutputsMade'
    BY <1>1, <1>4, <1>9, Zenon DEF IInv, OutputsMade
  <2> QED
    BY <1>1, <2>2, <2>3, Zenon DEF IInv, CollectedMade
<1>13. SnapshotsOk' /\ ClaimsOfTerm'
  <2>1. SnapshotsOk'
    BY <1>1, Zenon DEF IInv, SnapshotsOk
  <2> QED
    BY <1>1, <1>10, <2>1, Zenon DEF IInv, ClaimsOfTerm
<1>14. PublicationsOk'
  <2>1. pub[r].stage = "idle"
    BY <1>1, <1>2, Zenon DEF IInv, PublicationsOk
  <2> QED
    BY <1>1, <1>7, <1>8, <2>1, Zenon DEF IInv, PublicationsOk
<1>15. ASSUME NEW k \in TasksOf(r), task[k].state # "ABSENT"
       PROVE  Exists(req, r) /\ ~req[r].published
  <2>1. Exists(req, r)
    BY <1>1, <1>2, <1>9, <1>15, TaskFacts DEF IInv, RecordsOk, Present
  <2> QED
    BY <1>1, <1>2, <2>1, Zenon DEF IInv, RecordsOk
<1>16. RecordsOk'
  <2>1. \A k \in Tasks : Present(task', k) => Exists(req', ReqOf(k))
    BY <1>1, <1>4, <1>7, <1>9, TaskFacts, Zenon DEF IInv, RecordsOk, Present, Exists
  <2>2. \A q \in Requests : Exists(req', q) /\ q \notin idem' => ~req'[q].published
    BY <1>1, <1>7, <1>8, Zenon DEF IInv, RecordsOk, Exists
  <2>3. \A q \in cut : Exists(req', q) /\ req'[q].ready /\ q \in idem'
    BY <1>1, <1>2, <1>7, <1>8, Zenon DEF IInv, RecordsOk, Exists, Types
  <2>4. ASSUME NEW q \in Requests \ cut, Exists(req', q), req'[q].ready, NEW k \in TasksOf(q)
        PROVE  Present(task', k)
    <3>1. k \in Tasks /\ ReqOf(k) = q
      BY TaskFacts, Zenon
    <3>2. CASE q = r
      BY <1>4, <1>7, <1>9, <2>4, <3>1, <3>2, Zenon DEF Present
    <3>3. CASE q # r
      <4>1. task'[k] = task[k]
        BY <1>4, <1>9, <3>1, <3>3, Zenon
      <4>2. Exists(req, q) /\ req[q].ready
        BY <1>7, <2>4, <3>3, Zenon DEF Exists
      <4>3. Present(task, k)
        BY <2>4, <4>2, Zenon DEF IInv, RecordsOk
      <4> QED
        BY <4>1, <4>3, Zenon DEF Present
    <3> QED
      BY <3>2, <3>3, Zenon
  <2>5. ASSUME NEW q \in Requests \ cut, Exists(req', q),
               NEW j \in TasksOf(q), ~Present(task', j), NEW k \in TasksOf(q)
        PROVE  task'[k].state \notin {"CLAIMED", "SUCCEEDED"}
    <3>1. k \in Tasks /\ ReqOf(k) = q /\ j \in Tasks
      BY TaskFacts, Zenon
    <3> SUFFICES ASSUME task'[k].state \in {"CLAIMED", "SUCCEEDED"} PROVE FALSE
      BY Zenon
    <3>2. task'[k] = task[k]
      BY <1>10, <3>1, Zenon
    <3>3. ~Present(task, j)
      BY <1>4, <1>9, <2>5, <3>1, Zenon DEF Present
    <3>4. Exists(req, q)
      BY <1>7, <1>15, <2>5, <3>2, Zenon DEF Exists
    <3> QED
      BY <1>1, <3>2, <3>3, <3>4, Zenon DEF IInv, RecordsOk
  <2> QED
    BY <1>1, <2>1, <2>2, <2>3, <2>4, <2>5, Zenon DEF RecordsOk
<1>17. OutputsKept'
  <2> SUFFICES ASSUME NEW q \in Requests \ cut, Exists(req', q), ~req'[q].published,
                      NEW k \in TasksOf(q)
               PROVE  /\ task'[k].state = "SUCCEEDED" => task'[k].out \in objects
                      /\ req'[q].state = "SUCCEEDED" => task'[k].state = "SUCCEEDED"
    BY <1>1, Zenon DEF OutputsKept
  <2>1. k \in Tasks /\ ReqOf(k) = q
    BY TaskFacts, Zenon
  <2>2. CASE q = r
    <3> SUFFICES ASSUME task'[k].state = "SUCCEEDED" PROVE task'[k].out \in objects
      BY <1>7, <2>2, Zenon
    <3>1. task'[k] = task[k]
      BY <1>10, <2>1, Zenon
    <3>2. Exists(req, r) /\ ~req[r].published
      BY <1>15, <2>2, <3>1, Zenon
    <3> QED
      BY <1>1, <1>2, <2>2, <3>1, <3>2, Zenon DEF IInv, OutputsKept
  <2>3. CASE q # r
    <3>1. task'[k] = task[k] /\ req'[q] = req[q]
      BY <1>4, <1>7, <1>9, <2>1, <2>3, Zenon
    <3> QED
      BY <1>1, <3>1, Zenon DEF IInv, OutputsKept, Exists
  <2> QED
    BY <2>2, <2>3, Zenon
<1>18. RecoveryCleansUp' /\ AcceptedStep /\ SnapshotStep
  BY <1>1, <1>10, SnapshotStays, Zenon DEF IInv, RecoveryCleansUp, AcceptedStep
<1> QED
  BY <1>11, <1>12, <1>13, <1>14, <1>16, <1>17, <1>18, Zenon DEF StepOk, IInv

\* A claim is the last command of the log.
LEMMA Claimed ==
    ASSUME Types, NEW x \in Commands, cmd' = Append(cmd, x)
    PROVE  /\ cmd' \in Seq(Commands) /\ DOMAIN cmd' = DOMAIN cmd \cup {Len(cmd) + 1}
           /\ cmd'[Len(cmd) + 1] = x /\ Len(cmd) + 1 \notin DOMAIN cmd
           /\ \A c \in DOMAIN cmd : cmd'[c] = cmd[c] /\ c \in Nat /\ c <= Len(cmd) + 1
           /\ \A c, k : Made(cmd, c, k) => Made(cmd', c, k)
           /\ \A k : TokensOf(k)' = IF k = x.task THEN TokensOf(k) \cup {Len(cmd) + 1}
                                   ELSE TokensOf(k)
<1>1. /\ cmd \in Seq(Commands) /\ Len(cmd) \in Nat /\ DOMAIN cmd = 1..Len(cmd)
      /\ cmd' \in Seq(Commands) /\ Len(cmd') = Len(cmd) + 1 /\ DOMAIN cmd' = 1..Len(cmd')
      /\ cmd'[Len(cmd) + 1] = x /\ \A c \in 1..Len(cmd) : cmd'[c] = cmd[c]
  BY DEF Types
<1>2. /\ DOMAIN cmd' = DOMAIN cmd \cup {Len(cmd) + 1} /\ Len(cmd) + 1 \notin DOMAIN cmd
      /\ \A c \in DOMAIN cmd : cmd'[c] = cmd[c] /\ c \in Nat /\ c <= Len(cmd) + 1
  BY <1>1
<1>3. \A c, k : Made(cmd, c, k) => Made(cmd', c, k)
  BY <1>2, Zenon DEF Made
<1>4. ASSUME NEW k
      PROVE  TokensOf(k)' = IF k = x.task THEN TokensOf(k) \cup {Len(cmd) + 1} ELSE TokensOf(k)
  BY <1>1, <1>2, Zenon DEF TokensOf, Tokens
<1> QED
  BY <1>1, <1>2, <1>3, <1>4, Zenon

\* claim_task: a runnable task has all its siblings, and none of them counts as
\* the success of its request.
LEMMA ClaimStep ==
    ASSUME IInv, NEW k \in Tasks, NEW a \in Agents, ClaimTask(k, a)
    PROVE  StepOk
<1> DEFINE r == ReqOf(k)
<1>1. /\ UNCHANGED <<term, phase, gen, lease, member, req, idem, objects, snapshot, pub, cut>>
      /\ phase = "active" /\ task[k].state \in {"QUEUED", "RETRY_WAIT"}
      /\ Exists(req, r) /\ req[r].ready
  BY Zenon DEF ClaimTask, Runnable, envvars, memvars, pubvars, counts
<1>2. /\ Types /\ IsTasks(task) /\ IsTask(task[k]) /\ r \in Requests /\ k \in TasksOf(r)
  BY TaskFacts, Zenon DEF IInv, Types, IsTasks
<1>3. CASE task' = [task EXCEPT ![k].state = "QUEUED"] /\ cmd' = cmd
  <2>1. Alike(task[k], [task[k] EXCEPT !.state = "QUEUED"])
    BY <1>1, <1>2, StateFacts, Zenon DEF Alike, IsTask, TaskFields
  <2>2. AllAlike(task, task')
    BY <1>2, <1>3, <2>1, OneKept, Zenon
  <2>3. UNCHANGED envvars
    BY Zenon DEF ClaimTask
  <2> QED
    BY <1>1, <1>2, <1>3, <2>2, <2>3, Stays, ActiveStep, Zenon
<1>4. ASSUME NEW f \in ClaimFences(gen, a),
             task' = [task EXCEPT ![k] =
                        [@ EXCEPT !.state = "CLAIMED", !.attempt = task[k].attempt + 1,
                                  !.claim = Len(cmd) + 1,
                                  !.cleft = Smaller(LeaseTicks, task[k].left)]],
             cmd' = Append(cmd, [task |-> k, agent |-> a, lease |-> lease[a],
                                 fence |-> f, term |-> term,
                                 attempt |-> task[k].attempt + 1, outcome |-> "pending"])
      PROVE  StepOk
  <2> DEFINE x == [task |-> k, agent |-> a, lease |-> lease[a], fence |-> f, term |-> term,
                   attempt |-> task[k].attempt + 1, outcome |-> "pending"]
             n == Len(cmd) + 1
  <2>1. x \in Commands /\ x.task = k /\ x.term = term
    <3>1. /\ term \in Nat /\ lease[a] \in Nat /\ gen \in Generations
          /\ member[gen][a].fence \in Nat
      BY <1>2, Zenon DEF Types, ControlTypes, Workers
    <3>2. f \in Nat
      BY <1>4, <3>1 DEF ClaimFences
    <3>3. task[k].attempt + 1 \in Nat
      BY <1>2 DEF IsTask
    <3> QED
      BY <3>1, <3>2, <3>3, Zenon DEF Commands, Outcomes
  <2>2. cmd' = Append(cmd, x)
    BY <1>4, Zenon
  <2> HIDE DEF x
  <2>3. /\ cmd' \in Seq(Commands) /\ DOMAIN cmd' = DOMAIN cmd \cup {n} /\ n \notin DOMAIN cmd
        /\ cmd'[n] = x /\ n \in Nat
        /\ \A c \in DOMAIN cmd : cmd'[c] = cmd[c] /\ c \in Nat /\ c <= n
        /\ \A c, j : Made(cmd, c, j) => Made(cmd', c, j)
        /\ TokensOf(k)' = TokensOf(k) \cup {n}
        /\ \A j : j # k => TokensOf(j)' = TokensOf(j)
    <3>1. Len(cmd) \in Nat
      BY <1>2 DEF Types
    <3> QED
      BY <1>2, <2>1, <2>2, <3>1, Claimed
  <2> HIDE DEF n
  <2>4. /\ IsTask(task'[k]) /\ task'[k].state = "CLAIMED" /\ task'[k].claim = n
        /\ task'[k].out = task[k].out
        /\ \A j \in Tasks : j # k => task'[j] = task[j]
        /\ task' = [j \in Tasks |-> task'[j]]
    <3> DEFINE y == [task[k] EXCEPT !.state = "CLAIMED", !.attempt = task[k].attempt + 1,
                                    !.claim = Len(cmd) + 1,
                                    !.cleft = Smaller(LeaseTicks, task[k].left)]
    <3>1. /\ IsTask(y) /\ y.state = "CLAIMED" /\ y.claim = n /\ y.out = task[k].out
      <4>1. task[k] = [g \in TaskFields |-> task[k][g]] /\ task[k].attempt + 1 \in Nat
        BY <1>2 DEF IsTask
      <4>2. /\ y = [g \in TaskFields |-> y[g]]
            /\ y.state = "CLAIMED" /\ y.claim = Len(cmd) + 1 /\ y.out = task[k].out
            /\ y.attempt = task[k].attempt + 1
        BY <4>1, Zenon DEF TaskFields
      <4> HIDE DEF y
      <4> QED
        BY <4>1, <4>2, StateFacts, Zenon DEF IsTask, n
    <3>2. task' = [task EXCEPT ![k] = y]
      BY <1>4, Zenon
    <3> HIDE DEF y
    <3> QED
      BY <1>2, <3>1, <3>2, Zenon DEF IsTasks
  <2>5. Types'
    <3>1. ControlTypes' /\ PubTypes'
      BY <1>1, <1>2, Zenon DEF Types, ControlTypes, PubTypes
    <3>2. IsTasks(task')
      BY <1>2, <2>4, Zenon DEF IsTasks
    <3> QED
      BY <1>1, <1>2, <2>3, <3>1, <3>2, Zenon DEF Types
  <2>6. LatestClaimWins'
    <3> SUFFICES ASSUME NEW j \in Tasks
                 PROVE  /\ task'[j].state = "CLAIMED" =>
                             /\ task'[j].claim \in TokensOf(j)'
                             /\ \A c \in TokensOf(j)' : c <= task'[j].claim
                        /\ task'[j].state = "SUCCEEDED" =>
                             /\ task'[j].out \in TokensOf(j)' /\ cmd'[task'[j].out].outcome = "ok"
                             /\ \A c \in TokensOf(j)' : c <= task'[j].out
      BY Zenon DEF LatestClaimWins
    <3>1. CASE j = k
      BY <2>3, <2>4, <3>1 DEF TokensOf, Tokens
    <3>2. CASE j # k
      <4>1. task'[j] = task[j] /\ TokensOf(j)' = TokensOf(j)
        BY <2>3, <2>4, <3>2, Zenon
      <4>2. \A c \in TokensOf(j) : cmd'[c] = cmd[c]
        BY <2>3, Zenon DEF TokensOf, Tokens
      <4> QED
        BY <4>1, <4>2, Zenon DEF IInv, LatestClaimWins
    <3> QED
      BY <3>1, <3>2, Zenon
  <2>7. OutputsMade' /\ CollectedMade'
    BY <1>1, <2>3, <2>4, Zenon DEF IInv, OutputsMade, CollectedMade
  <2>8. SnapshotsOk'
    BY <1>1, <2>3, Zenon DEF IInv, SnapshotsOk
  <2>9. ClaimsOfTerm'
    <3> SUFFICES ASSUME NEW j \in Tasks, task'[j].state = "CLAIMED"
                 PROVE  cmd'[task'[j].claim].term = term
      BY <1>1, Zenon DEF ClaimsOfTerm
    <3>1. CASE j = k
      BY <2>1, <2>3, <2>4, <3>1, Zenon
    <3>2. CASE j # k
      <4>1. task'[j] = task[j] /\ task[j].claim \in DOMAIN cmd
        BY <2>4, <3>2, Zenon DEF IInv, LatestClaimWins, TokensOf, Tokens
      <4> QED
        BY <1>1, <2>3, <4>1, Zenon DEF IInv, ClaimsOfTerm
    <3> QED
      BY <3>1, <3>2, Zenon
  <2>10. PublicationsOk' /\ RecoveryCleansUp'
    BY <1>1, Zenon DEF IInv, PublicationsOk, RecoveryCleansUp
  <2>11. \A j \in Tasks : /\ Present(task', j) <=> Present(task, j)
                          /\ task'[j].state = "SUCCEEDED" <=> task[j].state = "SUCCEEDED"
                          /\ task'[j].state = "CLAIMED" => j = k \/ task[j].state = "CLAIMED"
                          /\ task'[j].out = task[j].out
    BY <1>1, <2>4, Zenon DEF Present
  <2> HIDE DEF r
  <2>12. r \notin cut => \A j \in TasksOf(r) : Present(task, j)
    BY <1>1, <1>2, Zenon DEF IInv, RecordsOk
  <2>13. RecordsOk'
    <3>1. ASSUME NEW q \in Requests \ cut, Exists(req, q), NEW j \in TasksOf(q), ~Present(task, j),
                 NEW i \in TasksOf(q)
          PROVE  task'[i].state \notin {"CLAIMED", "SUCCEEDED"}
      <4>1. q # r
        BY <2>12, <3>1, Zenon
      <4>2. i # k /\ i \in Tasks
        BY <4>1, TaskFacts, Zenon DEF r
      <4> QED
        BY <1>1, <2>11, <3>1, <4>2, Zenon DEF IInv, RecordsOk
    <3> QED
      BY <1>1, <2>11, <3>1, TaskFacts, Zenon DEF IInv, RecordsOk
  <2>14. OutputsKept'
    BY <1>1, <2>11, TaskFacts, Zenon DEF IInv, OutputsKept
  <2>15. AcceptedStep /\ SnapshotStep
    BY <1>1, <1>2, <2>11, SnapshotStays, Zenon DEF IInv, AcceptedStep
  <2> QED
    BY <2>5, <2>6, <2>7, <2>8, <2>9, <2>10, <2>13, <2>14, <2>15, Zenon DEF StepOk, IInv
<1> QED
  BY <1>3, <1>4, Zenon DEF ClaimTask
-----------------------------------------------------------------------------
(* Deletion, crash and recovery *)

\* y is what became of x in an operation that may also have deleted it.
Shrinks(x, y) == Alike(x, y) \/ (IsTask(y) /\ y.state = "ABSENT" /\ y.out = 0)

AllShrink == IsTasks(task') /\ \A k \in Tasks : Shrinks(task[k], task'[k])

\* Deletions leave claims, outputs and snapshots in order.
LEMMA ShrinkKeeps ==
    ASSUME IInv, AllShrink, UNCHANGED <<cmd, gen, snapshot>>
    PROVE  LatestClaimWins' /\ OutputsMade' /\ SnapshotsOk' /\ AcceptedStep /\ SnapshotStep
<1>1. \A k \in Tasks :
        /\ task'[k].state = "CLAIMED" => task[k].state = "CLAIMED" /\ task'[k].claim = task[k].claim
        /\ task'[k].state = "SUCCEEDED" => task[k].state = "SUCCEEDED" /\ task'[k].out = task[k].out
        /\ task'[k].out # 0 => task'[k].out = task[k].out
  BY Zenon DEF AllShrink, Shrinks, Alike
<1>2. \A k \in Tasks : TokensOf(k)' = TokensOf(k)
  BY Zenon DEF TokensOf, Tokens
<1>3. LatestClaimWins'
  BY <1>1, <1>2, Zenon DEF IInv, LatestClaimWins
<1>4. OutputsMade'
  BY <1>1, Zenon DEF IInv, OutputsMade
<1>5. SnapshotsOk'
  BY Zenon DEF IInv, SnapshotsOk
<1>6. AcceptedStep /\ SnapshotStep
  BY <1>1, SnapshotStays, Zenon DEF IInv, AcceptedStep
<1> QED
  BY <1>3, <1>4, <1>5, <1>6, Zenon

\* While the Manager is not active there is no publication.
LEMMA NoPublication ==
    ASSUME PublicationsOk, phase # "active" PROVE \A r \in Requests : pub[r].stage = "idle"
BY Zenon DEF PublicationsOk

\* The Manager dies; everything in memory is gone.
LEMMA CrashStep == ASSUME IInv, Crash PROVE StepOk
<1>1. /\ UNCHANGED <<gen, lease, member, req, task, idem, cmd, objects, snapshot, cut>>
      /\ phase' = "down" /\ term' = term + 1 /\ pub' = [r \in Requests |-> NoPub]
  BY Zenon DEF Crash, envvars, memvars, qvars, counts
<1>2. Types'
  <2>1. ControlTypes'
    BY <1>1 DEF IInv, Types, ControlTypes, Phases
  <2>2. PubTypes'
    BY <1>1, PubRecord, Zenon DEF IInv, Types, PubTypes
  <2>3. IsTasks(task')
    BY <1>1, Zenon DEF IInv, Types
  <2> QED
    BY <1>1, <2>1, <2>2, <2>3, Zenon DEF IInv, Types
<1>3. AllShrink
  BY <1>1, SameKept, Zenon DEF AllShrink, Shrinks, Kept, IInv, Types, IsTasks
<1>4. LatestClaimWins' /\ OutputsMade' /\ SnapshotsOk' /\ AcceptedStep /\ SnapshotStep
  BY <1>1, <1>3, ShrinkKeeps, Zenon
<1>5. CollectedMade' /\ PublicationsOk'
  BY <1>1, PubRecord, Zenon DEF CollectedMade, PublicationsOk
<1>6. ClaimsOfTerm' /\ RecoveryCleansUp'
  BY <1>1, Zenon DEF ClaimsOfTerm, RecoveryCleansUp
<1>7. RecordsOk' /\ OutputsKept'
  BY <1>1, Zenon DEF IInv, RecordsOk, OutputsKept, Exists, Present
<1> QED
  BY <1>2, <1>4, <1>5, <1>6, <1>7, Zenon DEF StepOk, IInv

\* prune_terminal, with D the tasks it deleted and G the requests whose staged
\* outputs it deleted.
LEMMA PruneFacts ==
    ASSUME IInv, phase = "fenced", NEW D \in SUBSET Tasks, DeleteTasks(D), NEW G,
           objects' \subseteq objects,
           \A c \in objects \ objects' : ReqOf(cmd[c].task) \in G,
           idem' \subseteq idem, cut' \subseteq Requests, req' \in [Requests -> ReqRecs],
           UNCHANGED <<term, gen, lease, member, cmd, snapshot, pub>>,
           phase' \in {"down", "active"}
    PROVE  /\ Types' /\ LatestClaimWins' /\ OutputsMade' /\ CollectedMade' /\ SnapshotsOk'
           /\ ClaimsOfTerm' /\ PublicationsOk' /\ RecoveryCleansUp'
           /\ AcceptedStep /\ SnapshotStep
           /\ \A k \in Tasks : IF k \in D THEN task'[k].state = "ABSENT" ELSE task'[k] = task[k]
           /\ \A k \in Tasks :
                ReqOf(k) \notin G /\ task[k].state = "SUCCEEDED" /\ task[k].out \in objects =>
                  task[k].out \in objects'
<1>1. \A k \in Tasks : IF k \in D THEN task'[k] = AbsentTask ELSE task'[k] = task[k]
  BY Zenon DEF DeleteTasks
<1>2. IsTasks(task')
  BY <1>1, FixedTasks, Zenon DEF DeleteTasks, IInv, Types, IsTasks
<1>3. AllShrink
  BY <1>1, <1>2, FixedTasks, SameKept, Zenon DEF AllShrink, Shrinks, Kept, IInv, Types, IsTasks
<1>4. LatestClaimWins' /\ OutputsMade' /\ SnapshotsOk' /\ AcceptedStep /\ SnapshotStep
  BY <1>3, ShrinkKeeps, Zenon
<1>5. Types'
  <2>1. ControlTypes' /\ PubTypes'
    BY Zenon DEF IInv, Types, ControlTypes, PubTypes, Phases
  <2> QED
    BY <1>2, <2>1, Zenon DEF IInv, Types
<1>6. CollectedMade' /\ PublicationsOk'
  BY NoPublication, Zenon DEF IInv, CollectedMade, PublicationsOk
<1>7. ClaimsOfTerm' /\ RecoveryCleansUp'
  BY <1>1, FixedTasks, Zenon DEF IInv, ClaimsOfTerm, RecoveryCleansUp
<1>8. ASSUME NEW k \in Tasks, ReqOf(k) \notin G, task[k].state = "SUCCEEDED",
             task[k].out \in objects
      PROVE  task[k].out \in objects'
  <2>1. cmd[task[k].out].task = k
    BY <1>8, Zenon DEF IInv, LatestClaimWins, TokensOf
  <2> QED
    BY <1>8, <2>1, Zenon
<1>9. \A k \in Tasks : IF k \in D THEN task'[k].state = "ABSENT" ELSE task'[k] = task[k]
  BY <1>1, FixedTasks, Zenon
<1> QED
  BY <1>4, <1>5, <1>6, <1>7, <1>8, <1>9, Zenon

\* prune_terminal and the activation it ends.
LEMMA PruneTerminalStep == ASSUME IInv, PruneTerminal PROVE StepOk
<1>1. /\ phase = "fenced" /\ UNCHANGED <<term, gen, lease, member, cmd, snapshot, pub>>
  BY Zenon DEF PruneTerminal, envvars, memvars, pubvars
<1>2. /\ \A r \in Requests : Exists(req, r) => req[r].ready /\ r \in idem
      /\ \A k \in Tasks : Present(task, k) => Exists(req, ReqOf(k))
  BY <1>1, Zenon DEF IInv, RecoveryCleansUp
<1>3. \A r \in Requests \ cut : Exists(req, r) => \A k \in TasksOf(r) : Present(task, k)
  BY <1>2, Zenon DEF IInv, RecordsOk
<1>4. req \in [Requests -> ReqRecs] /\ cut \subseteq Requests /\ idem \subseteq Requests
  BY Zenon DEF IInv, Types
<1>5. ASSUME NEW R \in SUBSET {r \in Requests : Prunable(r)},
             phase' = "active",
             objects' = objects \ UNION {Staged(r) : r \in {q \in R : PrunesStaging(q)}},
             DeleteTasks({k \in Tasks : ReqOf(k) \in R}), idem' = idem \ R,
             req' = [r \in Requests |-> IF r \in R THEN AbsentReq ELSE req[r]],
             cut' = cut \ R
      PROVE  StepOk
  <2>1. \A c \in objects \ objects' : ReqOf(cmd[c].task) \in R
    BY <1>5, Zenon DEF Staged
  <2>2. /\ req' \in [Requests -> ReqRecs]
        /\ \A r \in Requests : IF r \in R THEN ~Exists(req', r) ELSE req'[r] = req[r]
    BY <1>4, <1>5, FixedReqs, Zenon DEF Exists
  <2> DEFINE D == {k \in Tasks : ReqOf(k) \in R}
  <2>3. /\ Types' /\ LatestClaimWins' /\ OutputsMade' /\ CollectedMade' /\ SnapshotsOk'
        /\ ClaimsOfTerm' /\ PublicationsOk' /\ RecoveryCleansUp'
        /\ AcceptedStep /\ SnapshotStep
        /\ \A k \in Tasks : IF k \in D THEN task'[k].state = "ABSENT" ELSE task'[k] = task[k]
        /\ \A k \in Tasks :
             ReqOf(k) \notin R /\ task[k].state = "SUCCEEDED" /\ task[k].out \in objects =>
               task[k].out \in objects'
    <3>1. D \in SUBSET Tasks /\ DeleteTasks(D)
      BY <1>5, Zenon
    <3>2. objects' \subseteq objects /\ idem' \subseteq idem /\ cut' \subseteq Requests
      BY <1>4, <1>5, Zenon
    <3> HIDE DEF D
    <3> QED
      BY <1>1, <1>5, <2>1, <2>2, <3>1, <3>2, PruneFacts, Zenon
  <2>4. ASSUME NEW r \in Requests \ R
        PROVE  /\ Exists(req', r) <=> Exists(req, r)
               /\ req'[r] = req[r]
               /\ \A k \in TasksOf(r) : task'[k] = task[k] /\ k \in Tasks /\ ReqOf(k) = r
    BY <2>2, <2>3, TaskFacts, Zenon DEF Exists
  <2>5. \A k \in Tasks : Present(task', k) => Present(task, k) /\ ReqOf(k) \in Requests \ R
    BY <2>3, TaskFacts, Zenon DEF Present
  <2>6. RecordsOk'
    <3>1. \A k \in Tasks : Present(task', k) => Exists(req', ReqOf(k))
      BY <1>2, <2>4, <2>5, Zenon
    <3>2. \A r \in Requests : Exists(req', r) => r \in idem'
      BY <1>2, <1>5, <2>2, <2>4, Zenon
    <3>3. \A r \in cut' : Exists(req', r) /\ req'[r].ready
      BY <1>4, <1>5, <2>4, Zenon DEF IInv, RecordsOk
    <3>4. \A r \in Requests \ cut' : Exists(req', r) => \A k \in TasksOf(r) : Present(task', k)
      BY <1>3, <1>5, <2>2, <2>4, Zenon DEF Present
    <3> QED
      BY <1>4, <1>5, <3>1, <3>2, <3>3, <3>4, Zenon DEF RecordsOk
  <2>7. OutputsKept'
    <3> SUFFICES ASSUME NEW r \in Requests \ cut', Exists(req', r), ~req'[r].published
                 PROVE  /\ \A k \in TasksOf(r) :
                             task'[k].state = "SUCCEEDED" => task'[k].out \in objects'
                        /\ req'[r].state = "SUCCEEDED" =>
                             \A k \in TasksOf(r) : task'[k].state = "SUCCEEDED"
      BY Zenon DEF OutputsKept
    <3>1. r \in Requests \ R /\ r \notin cut
      BY <1>5, <2>2, Zenon
    <3>2. Exists(req, r) /\ req[r].ready /\ ~req[r].published
      BY <1>2, <2>4, <3>1, Zenon
    <3>3. /\ \A k \in TasksOf(r) : task[k].state = "SUCCEEDED" => task[k].out \in objects
          /\ req[r].state = "SUCCEEDED" => \A k \in TasksOf(r) : task[k].state = "SUCCEEDED"
      BY <3>1, <3>2, Zenon DEF IInv, OutputsKept
    <3> QED
      BY <2>3, <2>4, <3>1, <3>3, Zenon
  <2> QED
    BY <2>3, <2>6, <2>7, Zenon DEF StepOk, IInv
<1>6. ASSUME NEW r \in Requests, Prunable(r), phase' = "down", cut' = cut \cup {r}, req' = req,
             objects' \in {objects, IF PrunesStaging(r) THEN PruneStaging(r, {}) ELSE objects},
             NEW D \in SUBSET TasksOf(r), DeleteTasks(D), idem' = idem \/ idem' = idem \ {r}
      PROVE  StepOk
  <2>1. /\ objects' \subseteq objects
        /\ \A c \in objects \ objects' : ReqOf(cmd[c].task) \in {r}
    BY <1>6, Zenon DEF PruneStaging, Staged
  <2>2. D \in SUBSET Tasks /\ idem' \subseteq idem /\ cut' \subseteq Requests
    BY <1>4, <1>6, TaskFacts, Zenon
  <2>3. /\ Types' /\ LatestClaimWins' /\ OutputsMade' /\ CollectedMade' /\ SnapshotsOk'
        /\ ClaimsOfTerm' /\ PublicationsOk' /\ RecoveryCleansUp'
        /\ AcceptedStep /\ SnapshotStep
        /\ \A k \in Tasks : IF k \in D THEN task'[k].state = "ABSENT" ELSE task'[k] = task[k]
        /\ \A k \in Tasks :
             ReqOf(k) \notin {r} /\ task[k].state = "SUCCEEDED" /\ task[k].out \in objects =>
               task[k].out \in objects'
    BY <1>1, <1>4, <1>6, <2>1, <2>2, PruneFacts, Zenon
  <2>4. \A q \in Requests : q # r => \A k \in TasksOf(q) :
          task'[k] = task[k] /\ k \in Tasks /\ ReqOf(k) = q
    BY <1>6, <2>3, TaskFacts, Zenon
  <2>5. Exists(req, r) /\ req[r].ready
    BY <1>2, <1>6, StateFacts, Zenon DEF Prunable, Exists
  <2>6. RecordsOk'
    <3>1. \A q \in cut' : Exists(req', q) /\ req'[q].ready
      BY <1>6, <2>5, Zenon DEF IInv, RecordsOk, Exists
    <3>2. \A q \in Requests \ cut' : Exists(req', q) => \A k \in TasksOf(q) : Present(task', k)
      BY <1>3, <1>6, <2>4, Zenon DEF Present, Exists
    <3> QED
      BY <1>6, <3>1, <3>2, Zenon DEF RecordsOk
  <2>7. OutputsKept'
    <3> SUFFICES ASSUME NEW q \in Requests \ cut', Exists(req, q), ~req[q].published, req[q].ready
                 PROVE  /\ \A k \in TasksOf(q) :
                             task'[k].state = "SUCCEEDED" => task'[k].out \in objects'
                        /\ req[q].state = "SUCCEEDED" =>
                             \A k \in TasksOf(q) : task'[k].state = "SUCCEEDED"
      BY <1>6, Zenon DEF OutputsKept, Exists
    <3>1. q # r /\ q \notin cut
      BY <1>6, Zenon
    <3> QED
      BY <2>3, <2>4, <3>1, Zenon DEF IInv, OutputsKept
  <2> QED
    BY <2>3, <2>6, <2>7, Zenon DEF StepOk, IInv
<1> QED
  BY <1>5, <1>6, Zenon DEF PruneTerminal

\* What recover does to the requests, and what the steps that follow may do.
ReqsRecovered(rq, tk) ==
    /\ rq \in [Requests -> ReqRecs]
    /\ \A r \in Requests :
         /\ Exists(rq, r) => /\ Exists(req, r)
                             /\ rq[r].ready = req[r].ready /\ rq[r].published = req[r].published
         /\ Exists(req, r) /\ req[r].ready => Exists(rq, r)
         /\ rq[r].state = "SUCCEEDED" => req[r].state = "SUCCEEDED" \/ AllDone(tk, r)

\* recover, wherever it ends, given that a ready request loses no task.
LEMMA RecoverKeeps ==
    ASSUME IInv, phase = "down", phase' \in {"down", "recovered"},
           UNCHANGED <<term, gen, lease, member, cmd, objects, snapshot, pub, cut>>,
           idem' \subseteq Requests, AllShrink, ReqsRecovered(req', task'), RecoveryCleansUp',
           \A k \in Tasks : Exists(req, ReqOf(k)) /\ req[ReqOf(k)].ready =>
                            Alike(task[k], task'[k])
    PROVE  StepOk
<1>1. Types'
  <2>1. ControlTypes' /\ PubTypes' /\ IsTasks(task')
    BY Zenon DEF IInv, Types, ControlTypes, PubTypes, Phases, AllShrink
  <2> QED
    BY <2>1, Zenon DEF IInv, Types, ReqsRecovered
<1>2. LatestClaimWins' /\ OutputsMade' /\ SnapshotsOk' /\ AcceptedStep /\ SnapshotStep
  BY ShrinkKeeps, Zenon
<1>3. CollectedMade' /\ PublicationsOk' /\ ClaimsOfTerm'
  BY NoPublication, Zenon DEF IInv, CollectedMade, PublicationsOk, ClaimsOfTerm
<1>4. ASSUME NEW r \in Requests, Exists(req', r), req'[r].ready
      PROVE  /\ Exists(req, r) /\ req[r].ready
             /\ req'[r].published = req[r].published
             /\ \A k \in TasksOf(r) : k \in Tasks /\ Alike(task[k], task'[k])
  BY <1>4, TaskFacts, Zenon DEF ReqsRecovered
<1>5. \A r \in Requests \ cut : Exists(req', r) /\ req'[r].ready =>
        \A k \in TasksOf(r) : Present(task', k)
  BY <1>4, Zenon DEF IInv, RecordsOk, Alike, Present
<1>6. RecordsOk'
  <2>1. phase' # "down" => /\ \A k \in Tasks : Present(task', k) => Exists(req', ReqOf(k))
                           /\ \A r \in Requests : Exists(req', r) => r \in idem'
    BY Zenon DEF RecoveryCleansUp
  <2>2. \A r \in cut : r \in Requests /\ Exists(req', r) /\ req'[r].ready
    BY Zenon DEF IInv, Types, RecordsOk, ReqsRecovered
  <2> QED
    BY <1>5, <2>1, <2>2, Zenon DEF RecordsOk
<1>7. OutputsKept'
  <2> SUFFICES ASSUME NEW r \in Requests \ cut, Exists(req', r), ~req'[r].published, req'[r].ready
               PROVE  /\ \A k \in TasksOf(r) :
                           task'[k].state = "SUCCEEDED" => task'[k].out \in objects
                      /\ req'[r].state = "SUCCEEDED" =>
                           \A k \in TasksOf(r) : task'[k].state = "SUCCEEDED"
    BY Zenon DEF OutputsKept
  <2>1. /\ \A k \in TasksOf(r) : task[k].state = "SUCCEEDED" => task[k].out \in objects
        /\ req[r].state = "SUCCEEDED" => \A k \in TasksOf(r) : task[k].state = "SUCCEEDED"
    BY <1>4, Zenon DEF IInv, OutputsKept
  <2>2. \A k \in TasksOf(r) : /\ task'[k].state = "SUCCEEDED" <=> task[k].state = "SUCCEEDED"
                              /\ task'[k].state = "SUCCEEDED" => task'[k].out = task[k].out
    BY <1>4, Zenon DEF Alike
  <2>3. AllDone(task', r) => \A k \in TasksOf(r) : task'[k].state = "SUCCEEDED"
    BY <1>5, Zenon DEF AllDone
  <2>4. req'[r].state = "SUCCEEDED" => req[r].state = "SUCCEEDED" \/ AllDone(task', r)
    BY Zenon DEF ReqsRecovered
  <2> QED
    BY <2>1, <2>2, <2>3, <2>4, Zenon
<1> QED
  BY <1>1, <1>2, <1>3, <1>6, <1>7, Zenon DEF StepOk, IInv

\* recover's first loop, for the requests in R.
LEMMA RecoveredReqs ==
    ASSUME Types, NEW R \in SUBSET Requests, NEW tk
    PROVE  /\ ReqsRecovered(RecoveredReq(R), tk)
           /\ \A r \in R : Exists(RecoveredReq(R), r) => req[r].ready
<1> DEFINE rr == RecoveredReq(R)
<1>1. req \in [Requests -> ReqRecs]
  BY Zenon DEF Types
<1>2. ASSUME NEW r \in Requests
      PROVE  /\ rr[r] \in ReqRecs
             /\ Exists(rr, r) => /\ Exists(req, r) /\ rr[r].ready = req[r].ready
                                 /\ rr[r].published = req[r].published
             /\ Exists(req, r) /\ req[r].ready => Exists(rr, r)
             /\ rr[r].state = "SUCCEEDED" => req[r].state = "SUCCEEDED"
             /\ r \in R /\ Exists(rr, r) => req[r].ready
  <2>1. rr[r] = IF r \notin R \/ ~Exists(req, r) THEN req[r]
                ELSE IF ~req[r].ready THEN AbsentReq
                ELSE IF Missing(r) THEN [req[r] EXCEPT !.state = "FAILED"]
                ELSE req[r]
    BY Zenon DEF RecoveredReq
  <2>2. /\ [req[r] EXCEPT !.state = "FAILED"] \in ReqRecs
        /\ [req[r] EXCEPT !.state = "FAILED"].state = "FAILED"
        /\ [req[r] EXCEPT !.state = "FAILED"].ready = req[r].ready
        /\ [req[r] EXCEPT !.state = "FAILED"].published = req[r].published
    BY <1>1, StateFacts, Zenon DEF ReqRecs
  <2> HIDE DEF rr
  <2> QED
    BY <1>1, <2>1, <2>2, FixedReqs, Zenon DEF Exists
<1>3. rr \in [Requests -> ReqRecs]
  BY <1>2, Zenon DEF RecoveredReq
<1> HIDE DEF rr
<1>4. ReqsRecovered(rr, tk) /\ \A r \in R : Exists(rr, r) => req[r].ready
  BY <1>2, <1>3, Zenon DEF ReqsRecovered
<1> QED
  BY <1>4, Zenon DEF rr

\* tk2 is what became of the tasks once recover has deleted those without a request.
TasksRecovered(rq, tk2) ==
    /\ IsTasks(tk2)
    /\ \A k \in Tasks :
         IF Exists(rq, ReqOf(k)) THEN Alike(task[k], tk2[k]) /\ tk2[k].state # "EXPIRED"
         ELSE IsTask(tk2[k]) /\ tk2[k].state = "ABSENT" /\ tk2[k].out = 0

\* recover's second loop: orphans go, a task between two states is requeued.
LEMMA RecoveredTasks == ASSUME Types, NEW rq PROVE TasksRecovered(rq, RecoveredTask(rq))
<1> DEFINE tk == RecoveredTask(rq)
<1>1. ASSUME NEW k \in Tasks
      PROVE  IF Exists(rq, ReqOf(k)) THEN Alike(task[k], tk[k]) /\ tk[k].state # "EXPIRED"
             ELSE IsTask(tk[k]) /\ tk[k].state = "ABSENT" /\ tk[k].out = 0
  <2>1. IsTask(task[k])
    BY Zenon DEF Types, IsTasks
  <2>2. tk[k] = IF ~Exists(rq, ReqOf(k)) THEN AbsentTask
                ELSE IF task[k].state = "EXPIRED" THEN Requeue(task[k])
                ELSE task[k]
    BY Zenon DEF RecoveredTask
  <2>3. CASE ~Exists(rq, ReqOf(k))
    BY <2>2, <2>3, FixedTasks, Zenon
  <2>4. CASE Exists(rq, ReqOf(k)) /\ task[k].state = "EXPIRED"
    <3>1. tk[k] = Requeue(task[k])
      BY <2>2, <2>4, Zenon
    <3> DEFINE st == IF Exhausted(task[k]) THEN "FAILED" ELSE "QUEUED"
    <3>2. st \in {"QUEUED", "FAILED"} /\ st \in TaskStates
      BY StateFacts, Zenon
    <3>3. tk[k] = [Unclaimed(task[k], st) EXCEPT !.wait = 0]
      BY <3>1, Zenon DEF Requeue
    <3> HIDE DEF st, tk
    <3>4. IsTask(Unclaimed(task[k], st)) /\ Unclaimed(task[k], st).state = st
      BY <2>1, <3>2, UnclaimedFields, Zenon
    <3>5. tk[k].state = st
      BY <3>3, <3>4, WaitFields
    <3>6. Kept(task[k], tk[k])
      BY <2>1, <2>4, <3>2, <3>3, UnclaimedKept, StateFacts
    <3> QED
      BY <2>4, <3>2, <3>5, <3>6, Zenon DEF Kept
  <2>5. CASE Exists(rq, ReqOf(k)) /\ task[k].state # "EXPIRED"
    BY <2>1, <2>2, <2>5, SameKept, Zenon DEF Kept
  <2> QED
    BY <2>3, <2>4, <2>5, Zenon
<1>2. tk = [k \in Tasks |-> tk[k]]
  BY Zenon DEF RecoveredTask
<1> HIDE DEF tk
<1>3. TasksRecovered(rq, tk)
  BY <1>1, <1>2, Zenon DEF TasksRecovered, IsTasks, Alike
<1> QED
  BY <1>3, Zenon DEF tk

\* What happens to them afterwards does not matter.
LEMMA RecoveredThen ==
    ASSUME NEW rq, NEW tk, TasksRecovered(rq, tk), NEW tk2, AllKept(tk, tk2)
    PROVE  TasksRecovered(rq, tk2)
<1>1. ASSUME NEW k \in Tasks
      PROVE  IF Exists(rq, ReqOf(k)) THEN Alike(task[k], tk2[k]) /\ tk2[k].state # "EXPIRED"
             ELSE IsTask(tk2[k]) /\ tk2[k].state = "ABSENT" /\ tk2[k].out = 0
  <2>1. Alike(tk[k], tk2[k]) /\ (tk2[k].state = "EXPIRED" => tk[k].state = "EXPIRED")
    BY Zenon DEF AllKept, Kept
  <2>2. CASE Exists(rq, ReqOf(k))
    BY <2>1, <2>2, KeptTwice, Zenon DEF TasksRecovered
  <2>3. CASE ~Exists(rq, ReqOf(k))
    BY <2>1, <2>3, Zenon DEF TasksRecovered, Alike
  <2> QED
    BY <2>2, <2>3, Zenon
<1> QED
  BY <1>1, Zenon DEF TasksRecovered, AllKept

\* The requests that a recovered Manager refreshes.
LEMMA RecoveredRefresh ==
    ASSUME NEW rq, NEW tk, NEW rq2, ReqsRecovered(rq, tk), Refreshes(tk, rq, rq2)
    PROVE  ReqsRecovered(rq2, tk) /\ \A r \in Requests : Exists(rq2, r) <=> Exists(rq, r)
BY Zenon DEF ReqsRecovered, Refreshes

\* recover, ended or interrupted in any of its parts.
LEMMA RecoverStep == ASSUME IInv, Recover PROVE StepOk
<1> DEFINE rq == RecoveredReq(Requests)
           tk == RecoveredTask(rq)
<1>1. /\ phase = "down" /\ UNCHANGED <<term, gen, lease, member, cmd, objects, snapshot, pub, cut>>
  BY Zenon DEF Recover, envvars, memvars, pubvars, counts
<1>2. Types /\ IsTasks(task) /\ idem \subseteq Requests
  BY Zenon DEF IInv, Types
<1>3. /\ \A t2 : ReqsRecovered(rq, t2)
      /\ \A r \in Requests : Exists(rq, r) => req[r].ready
  BY <1>2, RecoveredReqs, Zenon
<1>4. /\ TasksRecovered(rq, tk) /\ IsTasks(tk) /\ rq \in [Requests -> ReqRecs]
  BY <1>2, <1>3, RecoveredTasks, Zenon DEF TasksRecovered, ReqsRecovered
<1>5. \A R \in SUBSET Requests : RecoveredIdem(R) \subseteq Requests
  BY <1>2, Zenon DEF RecoveredIdem
<1>6. AllKept(tk, ExpireAll(tk)) /\ IsTasks(ExpireAll(tk))
  BY <1>4, ExpireAllKept, Zenon DEF AllKept
<1>7. ASSUME phase' \in {"down", "recovered"}, idem' = RecoveredIdem(Requests),
             AllKept(tk, task'), Refreshes(task', rq, req')
      PROVE  StepOk
  <2>1. TasksRecovered(rq, task')
    BY <1>4, <1>7, RecoveredThen, Zenon
  <2>2. ReqsRecovered(req', task') /\ \A r \in Requests : Exists(req', r) <=> Exists(rq, r)
    BY <1>3, <1>7, RecoveredRefresh, Zenon
  <2> HIDE DEF rq, tk
  <2>3. AllShrink
    BY <2>1, Zenon DEF TasksRecovered, AllShrink, Shrinks
  <2>4. \A k \in Tasks : Exists(req, ReqOf(k)) /\ req[ReqOf(k)].ready => Alike(task[k], task'[k])
    BY <1>3, <2>1, TaskFacts, Zenon DEF TasksRecovered, ReqsRecovered
  <2>5. RecoveryCleansUp'
    <3>1. \A r \in Requests : Exists(req', r) => req'[r].ready /\ r \in idem'
      BY <1>3, <1>7, <2>2, Zenon DEF ReqsRecovered, RecoveredIdem, Unready
    <3>2. \A k \in Tasks : Present(task', k) => task'[k].state # "EXPIRED" /\ Exists(req', ReqOf(k))
      BY <2>1, <2>2, TaskFacts, Zenon DEF TasksRecovered, Present
    <3> QED
      BY <3>1, <3>2, Zenon DEF RecoveryCleansUp
  <2>6. idem' \subseteq Requests
    BY <1>5, <1>7, Zenon
  <2> QED
    BY <1>1, <1>7, <2>2, <2>3, <2>4, <2>5, <2>6, RecoverKeeps, Zenon
<1>8. CASE /\ phase' = "recovered"
           /\ task' = RefreshTasks(ExpireAll(tk), rq) /\ req' = RefreshReqs(ExpireAll(tk), rq)
           /\ idem' = RecoveredIdem(Requests)
  <2>1. AllKept(ExpireAll(tk), task') /\ Refreshes(task', rq, req')
    BY <1>4, <1>6, <1>8, RefreshGives, Zenon
  <2>2. AllKept(tk, task')
    BY <1>6, <2>1, AllKeptTwice, Zenon
  <2> QED
    BY <1>7, <1>8, <2>1, <2>2, Zenon
<1>9. CASE /\ phase' = phase
           /\ \E R \in SUBSET Requests :
                /\ req' = RecoveredReq(R) /\ idem' = RecoveredIdem(R)
                /\ WriteSome(task, DropUnready(task))
  <2>1. PICK R \in SUBSET Requests :
          /\ req' = RecoveredReq(R) /\ idem' = RecoveredIdem(R)
          /\ WriteSome(task, DropUnready(task))
    BY <1>9, Zenon
  <2>2. ReqsRecovered(req', task') /\ idem' \subseteq Requests
    BY <1>2, <1>5, <2>1, RecoveredReqs, Zenon
  <2>3. \A k \in Tasks : task'[k] = task[k] \/ (task'[k] = AbsentTask /\ ReqOf(k) \in Unready)
    BY <2>1, Zenon DEF WriteSome, DropUnready
  <2>4. task' = [k \in Tasks |-> task'[k]]
    BY <2>1, Zenon DEF WriteSome
  <2>5. \A k \in Tasks : Alike(task[k], task[k]) /\ IsTask(task[k])
    BY <1>2, SameKept, Zenon DEF Kept, IsTasks
  <2>6. AllShrink
    BY <2>3, <2>4, <2>5, FixedTasks, Zenon DEF AllShrink, Shrinks, IsTasks
  <2>7. \A k \in Tasks : Exists(req, ReqOf(k)) /\ req[ReqOf(k)].ready => Alike(task[k], task'[k])
    BY <2>3, <2>5, Zenon DEF Unready
  <2>8. RecoveryCleansUp'
    BY <1>1, <1>9, Zenon DEF RecoveryCleansUp
  <2> QED
    BY <1>1, <1>9, <2>2, <2>6, <2>7, <2>8, RecoverKeeps, Zenon
<1>10. CASE phase' = phase /\ idem' = RecoveredIdem(Requests) /\ req' = rq
            /\ WriteSome(DropUnready(task), tk)
  <2>1. ReqsRecovered(req', task') /\ idem' \subseteq Requests
    BY <1>3, <1>5, <1>10, Zenon
  <2>2. \A k \in Tasks : task'[k] = DropUnready(task)[k] \/ task'[k] = tk[k]
    BY <1>10, Zenon DEF WriteSome
  <2>3. task' = [k \in Tasks |-> task'[k]]
    BY <1>10, Zenon DEF WriteSome
  <2>4. \A k \in Tasks : DropUnready(task)[k] = IF ReqOf(k) \in Unready THEN AbsentTask ELSE task[k]
    BY Zenon DEF DropUnready
  <2>5. \A k \in Tasks : Alike(task[k], task[k]) /\ IsTask(task[k])
    BY <1>2, SameKept, Zenon DEF Kept, IsTasks
  <2> HIDE DEF rq, tk
  <2>6. \A k \in Tasks : Shrinks(task[k], tk[k]) /\ Shrinks(task[k], DropUnready(task)[k])
    BY <1>4, <2>4, <2>5, FixedTasks, Zenon DEF Shrinks, TasksRecovered
  <2>7. AllShrink
    <3>1. \A k \in Tasks : Shrinks(task[k], task'[k])
      BY <2>2, <2>6, Zenon
    <3> QED
      BY <2>3, <3>1, Zenon DEF AllShrink, IsTasks, Shrinks, Alike
  <2>8. \A k \in Tasks : Exists(req, ReqOf(k)) /\ req[ReqOf(k)].ready => Alike(task[k], task'[k])
    <3> SUFFICES ASSUME NEW k \in Tasks, Exists(req, ReqOf(k)), req[ReqOf(k)].ready
                 PROVE  Alike(task[k], task'[k])
      BY Zenon
    <3>1. DropUnready(task)[k] = task[k]
      BY <2>4, Zenon DEF Unready
    <3>2. Alike(task[k], tk[k])
      BY <1>3, <1>4, TaskFacts, Zenon DEF TasksRecovered, ReqsRecovered
    <3> QED
      BY <2>2, <2>5, <3>1, <3>2, Zenon
  <2>9. RecoveryCleansUp'
    BY <1>1, <1>10, Zenon DEF RecoveryCleansUp
  <2> QED
    BY <1>1, <1>10, <2>1, <2>7, <2>8, <2>9, RecoverKeeps, Zenon
<1>11. CASE phase' = phase /\ idem' = RecoveredIdem(Requests) /\ req' = rq
            /\ WriteSome(tk, ExpireAll(tk))
  <2>1. AllKept(tk, task') /\ Refreshes(task', rq, req')
    BY <1>4, <1>6, <1>11, SomeKept, RefreshesNone, Zenon
  <2> QED
    BY <1>1, <1>7, <1>11, <2>1, Zenon
<1>12. CASE phase' = phase /\ idem' = RecoveredIdem(Requests) /\ Refresh(ExpireAll(tk), rq)
  <2>1. AllKept(ExpireAll(tk), task') /\ Refreshes(task', rq, req')
    BY <1>4, <1>6, <1>12, RefreshGives, Zenon
  <2>2. AllKept(tk, task')
    BY <1>6, <2>1, AllKeptTwice, Zenon
  <2> QED
    BY <1>1, <1>7, <1>12, <2>1, <2>2, Zenon
<1> QED
  BY <1>8, <1>9, <1>10, <1>11, <1>12, Zenon DEF Recover
-----------------------------------------------------------------------------
(* Results *)

\* An empty store.
LEMMA InitHolds == ASSUME Init PROVE IInv
<1>1. /\ \A k \in Tasks : task[k] = AbsentTask
      /\ \A r \in Requests : req[r] = AbsentReq
      /\ \A t \in Tables : snapshot[t] = NoSnapshot
      /\ idem = {} /\ cut = {} /\ cmd = <<>> /\ objects = {} /\ phase = "down"
      /\ \A r \in Requests : pub[r] = NoPub
  BY Zenon DEF Init
<1>2. /\ NoPub \in [stage : Stages, objs : [Splits -> Nat]]
      /\ NoPub.stage = "idle" /\ \A s \in Splits : NoPub.objs[s] = 0
      /\ NoSnapshot \in [req : {<<>>} \cup Requests, objs : [Splits -> Nat]]
  BY Zenon DEF NoPub, NoOutputs, NoSnapshot, Stages
<1>3. Types
  <2>1. ControlTypes
    <3>1. [state |-> "absent", fence |-> 0, lease |-> 0] \in Workers
      BY Zenon DEF Workers
    <3>2. 1 \in Generations
      BY QueueAssumption DEF Generations
    <3> QED
      BY <3>1, <3>2, Zenon DEF Init, ControlTypes, Phases
  <2>2. PubTypes
    BY <1>2, Zenon DEF Init, PubTypes
  <2>3. IsTasks(task)
    BY <1>1, FixedTasks, Zenon DEF IsTasks, Init
  <2>4. req \in [Requests -> ReqRecs]
    BY FixedReqs, Zenon DEF Init
  <2> QED
    BY <1>1, <2>1, <2>2, <2>3, <2>4 DEF Types
<1>4. LatestClaimWins /\ OutputsMade /\ CollectedMade /\ SnapshotsOk /\ ClaimsOfTerm
  BY <1>1, <1>2, FixedTasks, Zenon
  DEF LatestClaimWins, OutputsMade, CollectedMade, SnapshotsOk, ClaimsOfTerm
<1>5. PublicationsOk /\ RecordsOk /\ OutputsKept /\ RecoveryCleansUp
  BY <1>1, <1>2, FixedReqs, Zenon
  DEF PublicationsOk, RecordsOk, OutputsKept, RecoveryCleansUp, Exists
<1> QED
  BY <1>3, <1>4, <1>5, Zenon DEF IInv

\* A step in which nothing happens.
LEMMA Stutters == ASSUME IInv, UNCHANGED vars PROVE StepOk
<1>1. /\ UNCHANGED <<term, phase, gen, lease, member, req, task, cmd, idem, cut>>
      /\ UNCHANGED <<objects, snapshot, pub>>
  BY Zenon DEF vars
<1>2. Types /\ IsTasks(task)
  BY Zenon DEF IInv, Types
<1>3. AllKept(task, task') /\ AllAlike(task, task')
  BY <1>1, <1>2, AllSame, Zenon
<1>4. UNCHANGED envvars
  BY Zenon DEF vars, envvars
<1>5. /\ CommandsKept /\ Refreshes(task', req, req')
      /\ ControlTypes' /\ PhaseMoves /\ term' = term /\ gen <= gen'
      /\ objects \subseteq objects' /\ objects' \subseteq Nat \ {0}
  BY <1>1, <1>2, <1>4, Stays, Zenon
<1> QED
  BY <1>1, <1>3, <1>5, QuietStep, Zenon

\* Every step keeps the invariant, accepts results only of claims in force, and
\* replaces no snapshot by an older one.
LEMMA EveryStep == ASSUME IInv, [Next]_vars PROVE StepOk
<1>1. CASE Tick \/ NewGeneration \/ GenerationLapses
  BY <1>1, TickStep, GenerationStep, Zenon
<1>2. CASE Crash \/ Recover \/ FenceClaims \/ PruneTerminal \/ ExpireClaims
  BY <1>2, CrashStep, RecoverStep, FenceStep, PruneTerminalStep, ExpireStep, Zenon
<1>3. CASE \E t \in Tables : CreateRequest(t)
  BY <1>3, CreateStep, Zenon
<1>4. CASE \E g \in Generations : Reconcile(g) \/ ReassignClaims(g)
  BY <1>4, ReconcileStep, ReassignStep, Zenon
<1>5. CASE \E a \in Agents : Register(a)
  BY <1>5, RegisterStep, Zenon
<1>6. CASE \E k \in Tasks : \/ \E a \in Agents : ClaimTask(k, a)
                            \/ RenewClaim(k) \/ RetryTask(k)
  BY <1>6, ClaimStep, RenewStep, RetryStep, Zenon
<1>7. CASE \E c \in DOMAIN cmd : ExecuteTask(c) \/ AcceptResult(c) \/ ReleaseClaim(c)
  BY <1>7, ExecuteStep, AcceptStep, ReleaseStep, Zenon
<1>8. ASSUME NEW r \in Requests,
             \/ CancelRequest(r) \/ FenceGeneration(r)
             \/ WaitReturns(r) \/ PublishExisting(r) \/ PublishStart(r)
             \/ \E s \in Splits : CollectSplit(r, s)
             \/ PublishObjects(r) \/ PublishSnapshot(r) \/ PublishPrune(r) \/ PublishAbort(r)
      PROVE  StepOk
  <2>1. FenceGeneration(r) => CancelRequest(r)
    BY Zenon DEF FenceGeneration
  <2> QED
    BY <1>8, <2>1, CancelStep, PublishSteps, PruneSteps, CollectStep, SnapshotPublished, Zenon
<1>9. CASE UNCHANGED vars
  BY <1>9, Stutters, Zenon
<1> QED
  BY <1>1, <1>2, <1>3, <1>4, <1>5, <1>6, <1>7, <1>8, <1>9, Zenon DEF Next

\* The inductive invariant holds in every state.
THEOREM Inductive == Spec => []IInv
<1>1. Init => IInv
  BY InitHolds, Zenon
<1>2. IInv /\ [Next]_vars => IInv'
  BY EveryStep, Zenon DEF StepOk
<1> QED
  BY <1>1, <1>2, PTL DEF Spec

\* claim_task and accept_result: of all the claims ever issued for a task, over
\* any number of terms, retries and lost workers, only the last one counts.
THEOREM LatestClaimCounts == Spec => []LatestClaimWins
<1>1. IInv => LatestClaimWins
  BY Zenon DEF IInv
<1> QED
  BY <1>1, Inductive, PTL

\* recover: whatever operation was interrupted, and wherever, a Manager starts to
\* dispatch from records without halves and orphans.
THEOREM RecoveryIsComplete == Spec => []RecoveryCleansUp
<1>1. IInv => RecoveryCleansUp
  BY Zenon DEF IInv
<1> QED
  BY <1>1, Inductive, PTL

\* _refresh_requests and the order of the writes: a request that reads SUCCEEDED
\* can be published, unless prune_terminal had begun to delete it.
THEOREM SucceededStays == Spec => []SucceededIsPublishable
<1>1. IInv => SucceededIsPublishable
  <2> SUFFICES ASSUME IInv, phase = "active", NEW r \in Requests \ cut,
                      req[r].state = "SUCCEEDED", ~req[r].published, NEW k \in TasksOf(r)
               PROVE  task[k].state = "SUCCEEDED" /\ task[k].out \in objects
    BY Zenon DEF SucceededIsPublishable
  <2> QED
    BY Zenon DEF IInv, OutputsKept, Exists
<1> QED
  BY <1>1, Inductive, PTL

\* publish_snapshot: a published manifest is the successful work of one request,
\* hence of one generation and plan, split by split.
THEOREM SnapshotsAreWhole == Spec => []SnapshotIsOneRequest
<1>1. IInv => SnapshotIsOneRequest
  BY Zenon DEF IInv, SnapshotsOk, SnapshotIsOneRequest, Made, TokensOf, Tokens
<1> QED
  BY <1>1, Inductive, PTL

\* accept_result and fence_claims: a task succeeds only by a claim of the term in
\* office, of a worker registered and a member as it was, in the current generation.
THEOREM OnlyClaimsInForce == Spec => AcceptedWhileInForce
<1>1. IInv /\ [Next]_vars => [AcceptedStep]_vars
  BY EveryStep, Zenon DEF StepOk
<1> QED
  BY <1>1, Inductive, PTL DEF Spec, AcceptedWhileInForce, AcceptedStep

\* publish_snapshot: no snapshot is replaced by one of an older generation.
THEOREM SnapshotsAreOrdered == Spec => SnapshotNeverGoesBack
<1>1. IInv /\ [Next]_vars => [SnapshotStep]_vars
  BY EveryStep, Zenon DEF StepOk
<1> QED
  BY <1>1, Inductive, PTL DEF Spec, SnapshotNeverGoesBack, SnapshotStep
=============================================================================
