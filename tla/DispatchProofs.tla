-------------------------- MODULE DispatchProofs --------------------------
(***************************************************************************)
(* What the scheduler promises of its claims, for every set of placement   *)
(* documents, Agents, tasks and limits: a claimed task stays inside the    *)
(* residency and the tenant of its connection, the limits of its source,   *)
(* its dataset and its Agent hold across passes, and a Manager never runs  *)
(* an older policy than one already run.                                   *)
(*                                                                         *)
(* The limits need two strengthenings.  A pass counts claims once and then *)
(* claims task after task, so its counts must still cover every claim when *)
(* the next one is made.  And a source's limit is that of the table that   *)
(* is claimed last, so the invariant speaks of every set of its claims:    *)
(* whichever of them end first, the rest is within the limit of one of its *)
(* own tables.                                                             *)
(***************************************************************************)
EXTENDS Dispatch, FiniteSetTheorems, TLAPS

-----------------------------------------------------------------------------
(* The inductive invariant *)

TaskFields == {"state", "tenant", "claim"}
PassFields == {"pc", "todo", "members", "counted", "pooled", "pick"}

Types ==
    /\ site \in DOMAIN Deployments
    /\ remote \in Bundles
    /\ cache = None \/ cache \in Bundles
    /\ tasks = [t \in Tasks |-> tasks[t]]
    /\ \A t \in Tasks : tasks[t] = [f \in TaskFields |-> tasks[t][f]]
    /\ pass = [f \in PassFields |-> pass[f]]
    /\ pass.members \subseteq Agents /\ IsFiniteSet(pass.counted)

\* The cached bundle is verified and not older than any that was run.
Revisions ==
    /\ cache # None => Verified(cache)
    /\ \A b \in applied : cache # None /\ b \in Bundles /\ (b.rev < cache.rev \/ b = cache)

\* A live Manager runs an accepted document and has a verdict on every task.
Runs ==
    running # None =>
        /\ running \in Bundles /\ Accepted(Doc)
        /\ placement = [t \in Known |-> Verdict(Doc, t)]

Pair(t) == <<t, tasks[t].claim.agent>>

\* What a pass has counted, with the claim it is about to count, covers all claims.
Counted ==
    /\ running = None => pass.pc = "idle"
    /\ pass.pc = "tasks" => \A t \in Claimed : Pair(t) \in pass.counted
    /\ pass.pc \in {"deliver", "tally"} =>
          \A t \in Claimed : Pair(t) \in pass.counted \cup {pass.pick}

\* Residency and tenant of a task of a connection, given its Agent and its tenant.
InsideOf(doc, d, conn, agent, tenant) ==
    LET rule == ConnectionPolicy(doc, conn)
        pool == PoolOf(doc, agent)
    IN  /\ rule.residency # {} =>
              /\ pool # "" /\ doc.pools[pool].location \in rule.residency
              /\ doc.pools[pool].profile = d.store
              /\ doc.stores[d.store].location \in rule.residency
        /\ tenant = rule.tenant
        /\ rule.tenant # "" => pool # "" /\ doc.pools[pool].tenant = rule.tenant

Inside ==
    running # None =>
        \A t \in Claimed : InsideOf(Doc, deploy, Info(t).conn, tasks[t].claim.agent, tasks[t].tenant)

\* A set of claims is within a limit, 0 being none.
Fits(S, limit) == limit = NoLimit \/ Cardinality(S) <= limit

\* The limits, for every set of claims of one source, one dataset and one Agent.
SourceFits ==
    \A S \in SUBSET Claimed :
        S # {} /\ (\A u, v \in S : Info(u).conn = Info(v).conn) =>
            \E u \in S : Fits(S, TaskPolicy(u).sourceMax)
DatasetFits ==
    \A S \in SUBSET Claimed : \A t \in S :
        (\A u \in S : ScopeOf(u) = ScopeOf(t)) => Fits(S, TaskPolicy(t).max)
AgentFits ==
    \A S \in SUBSET Claimed : \A t \in S :
        (\A u \in S : tasks[u].claim.agent = tasks[t].claim.agent) =>
            Cardinality(S) <= deploy.maxInflight * deploy.capacity[tasks[t].claim.agent]
Limits == running # None => SourceFits /\ DatasetFits /\ AgentFits

IInv == Types /\ Revisions /\ Runs /\ Counted /\ Inside /\ Limits

-----------------------------------------------------------------------------
(* Facts *)

\* The tasks of a deployment are finitely many.
LEMMA KnownFinite == ASSUME Types PROVE IsFiniteSet(Known) /\ Known \subseteq Tasks
<1> DEFINE s == deploy.order
<1>1. s \in Seq(Tasks)
  BY DeploymentsAssumption DEF Types, deploy
<1> HIDE DEF s
<1>2. DOMAIN s = 1 .. Len(s) /\ Len(s) \in Nat /\ \A i \in 1 .. Len(s) : s[i] \in Tasks
  BY <1>1
<1>3. Range(s) = {s[i] : i \in DOMAIN s}
  BY DEF Range
<1>4. [i \in 1 .. Len(s) |-> s[i]] \in Surjection(1 .. Len(s), Range(s))
  BY <1>2, <1>3 DEF Surjection
<1>5. IsFiniteSet(1 .. Len(s))
  BY <1>2, FS_Interval
<1>6. IsFiniteSet(Range(s)) /\ Range(s) \subseteq Tasks
  BY <1>2, <1>3, <1>4, <1>5, FS_Surjection
<1> QED
  BY <1>6 DEF Known, s

\* Tasks that are counted, with whatever Agent, are no more than the counts.
LEMMA Counts ==
  ASSUME NEW S, NEW C, NEW ag, IsFiniteSet(C), \A u \in S : <<u, ag[u]>> \in C
  PROVE  /\ IsFiniteSet(S) /\ Cardinality(S) \in Nat /\ Cardinality(C) \in Nat
         /\ Cardinality(S) <= Cardinality(C)
<1> DEFINE f == [u \in S |-> <<u, ag[u]>>]
<1>1. f \in Injection(S, C)
  BY DEF Injection, IsInjective
<1>2. IsFiniteSet(S) /\ Cardinality(S) <= Cardinality(C)
  BY <1>1, FS_Injection
<1> QED
  BY <1>2, FS_CardinalityType

\* One more task is at most one more.
LEMMA OneMore ==
  ASSUME NEW S, NEW C, NEW ag, NEW t, IsFiniteSet(C), \A u \in S \ {t} : <<u, ag[u]>> \in C
  PROVE  Cardinality(S) \in Nat /\ Cardinality(C) \in Nat /\ Cardinality(S) <= Cardinality(C) + 1
<1> DEFINE R == S \ {t}
<1>1. IsFiniteSet(R) /\ Cardinality(R) \in Nat /\ Cardinality(C) \in Nat /\ Cardinality(R) <= Cardinality(C)
  BY Counts
<1> HIDE DEF R
<1>2. /\ IsFiniteSet(R \cup {t})
      /\ Cardinality(R \cup {t}) = IF t \in R THEN Cardinality(R) ELSE Cardinality(R) + 1
  BY <1>1, FS_AddElement
<1>3. S \subseteq R \cup {t}
  BY DEF R
<1>4. IsFiniteSet(S) /\ Cardinality(S) <= Cardinality(R \cup {t})
  BY <1>2, <1>3, FS_Subset
<1>5. Cardinality(S) \in Nat /\ Cardinality(R \cup {t}) \in Nat
  BY <1>2, <1>4, FS_CardinalityType
<1> QED
  BY <1>1, <1>2, <1>4, <1>5

\* A task given back is a task without a claim.
LEMMA UnclaimedIsTask ==
  ASSUME NEW x, x = [f \in TaskFields |-> x[f]]
  PROVE  /\ Unclaimed(x) = [f \in TaskFields |-> Unclaimed(x)[f]] /\ Unclaimed(x).state = "queued"
         /\ Unclaimed(x).state # "claimed" /\ Unclaimed(x).tenant = x.tenant
  BY DEF Unclaimed, TaskFields

-----------------------------------------------------------------------------
(* Steps that make no claim *)

\* The Manager, its policy and its tasks' owners are as before; claims may be gone.
Shrinks ==
    /\ UNCHANGED <<site, running, placement>>
    /\ \A t \in Claimed' : t \in Claimed /\ tasks'[t].tenant = tasks[t].tenant
                                         /\ tasks'[t].claim = tasks[t].claim

\* What depends on the site and the bundle only.
LEMMA SameSite ==
  ASSUME UNCHANGED <<site, running, placement>>
  PROVE  /\ deploy' = deploy /\ Doc' = Doc /\ Known' = Known
         /\ \A t : Info(t)' = Info(t) /\ ScopeOf(t)' = ScopeOf(t) /\ TaskPolicy(t)' = TaskPolicy(t)
         /\ \A doc, t : Verdict(doc, t)' = Verdict(doc, t)
<1>1. deploy' = deploy /\ Doc' = Doc
  BY Zenon DEF deploy, Doc
<1>2. Known' = Known /\ \A t : Info(t)' = Info(t) /\ TaskPolicy(t)' = TaskPolicy(t)
  BY <1>1, Zenon DEF Known, Info, TaskPolicy
<1>3. \A t : ScopeOf(t)' = ScopeOf(t)
  BY <1>1, <1>2, Zenon DEF ScopeOf
<1>4. \A doc, t : Verdict(doc, t)' = Verdict(doc, t)
  BY <1>1, <1>2, Zenon DEF Verdict
<1> QED
  BY <1>1, <1>2, <1>3, <1>4, Zenon

\* Fewer claims stay inside and within the limits.
LEMMA ShrinksKeeps == ASSUME IInv, Shrinks PROVE Runs' /\ Inside' /\ Limits'
<1>1. /\ deploy' = deploy /\ Doc' = Doc /\ Known' = Known /\ running' = running
      /\ \A t : Info(t)' = Info(t) /\ ScopeOf(t)' = ScopeOf(t) /\ TaskPolicy(t)' = TaskPolicy(t)
      /\ \A doc, t : Verdict(doc, t)' = Verdict(doc, t)
  BY SameSite, Zenon DEF Shrinks
<1>2. \A t \in Claimed' : t \in Claimed /\ tasks'[t].tenant = tasks[t].tenant
                                         /\ tasks'[t].claim = tasks[t].claim
  BY Zenon DEF Shrinks
<1>3. Runs'
  BY <1>1, Zenon DEF Runs, IInv, Shrinks
<1>4. Inside'
  BY <1>1, <1>2, Zenon DEF Inside, IInv
<1>5. Claimed' \subseteq Claimed /\ SUBSET Claimed' \subseteq SUBSET Claimed
  BY <1>2
<1>6. ASSUME running # None PROVE Limits'
  <2>1. SourceFits /\ DatasetFits /\ AgentFits
    BY <1>6, Zenon DEF IInv, Limits
  <2>2. SourceFits'
    BY <1>1, <1>5, <2>1, Zenon DEF SourceFits
  <2>3. DatasetFits'
    BY <1>1, <1>5, <2>1, Zenon DEF DatasetFits
  <2>4. AgentFits'
    <3> SUFFICES ASSUME NEW S \in SUBSET Claimed', NEW t \in S,
                        \A u \in S : tasks'[u].claim.agent = tasks'[t].claim.agent
                 PROVE  Cardinality(S) <= deploy.maxInflight * deploy.capacity[tasks'[t].claim.agent]
      BY <1>1, Zenon DEF AgentFits
    <3>1. S \in SUBSET Claimed /\ \A u \in S : tasks'[u].claim = tasks[u].claim
      BY <1>2, <1>5
    <3>2. \A u \in S : tasks[u].claim.agent = tasks[t].claim.agent
      BY <3>1, Zenon
    <3> QED
      BY <2>1, <3>1, <3>2, Zenon DEF AgentFits
  <2> QED
    BY <2>2, <2>3, <2>4, Zenon DEF Limits
<1>7. running = None => Limits'
  BY <1>1, Zenon DEF Limits
<1> QED
  BY <1>3, <1>4, <1>6, <1>7, Zenon

\* A step outside the passes: nothing of the tasks or of the pass changes.
LEMMA OutsideKeeps ==
  ASSUME IInv, UNCHANGED <<site, cache, running, placement, tasks, pass, applied>>, remote' \in Bundles
  PROVE  IInv'
<1>1. Known' = Known
  BY SameSite, Zenon
<1>2. Claimed' = Claimed
  BY <1>1, Zenon DEF Claimed
<1>3. Shrinks
  BY <1>2, Zenon DEF Shrinks
<1>4. Types' /\ Revisions'
  BY Zenon DEF IInv, Types, Revisions
<1>5. Counted'
  BY <1>2, Zenon DEF IInv, Counted, Pair
<1> QED
  BY <1>3, <1>4, <1>5, ShrinksKeeps, Zenon DEF IInv

\* Publications, and the registry under them.
LEMMA FleetKeeps ==
  ASSUME IInv, Publish \/ \E a \in Agents : Register(a) \/ Remove(a) \/ Weaken(a) \/ Heartbeat(a)
  PROVE  IInv'
<1>1. CASE Publish
  <2>1. remote' \in Bundles
    <3>1. PICK rev \in 1 .. deploy.maxRev, doc \in deploy.docs, signed \in BOOLEAN :
             remote' = [rev |-> rev, doc |-> doc, signed |-> signed]
      BY <1>1, Zenon DEF Publish
    <3>2. deploy.maxRev \in Nat /\ deploy.docs \subseteq DOMAIN Documents
      BY DeploymentsAssumption DEF IInv, Types, deploy
    <3>3. rev \in Nat /\ doc \in DOMAIN Documents
      BY <3>2
    <3> QED
      BY <3>1, <3>3, Zenon DEF Bundles
  <2> QED
    BY <1>1, <2>1, OutsideKeeps, Zenon DEF Publish
<1>2. ASSUME NEW a \in Agents, Register(a) \/ Remove(a) \/ Weaken(a) \/ Heartbeat(a) PROVE IInv'
  <2>1. UNCHANGED <<site, remote, cache, running, placement, tasks, pass, applied>>
    BY <1>2, Zenon DEF Register, Remove, Weaken, Heartbeat, policy
  <2>2. remote' \in Bundles
    BY <2>1, Zenon DEF IInv, Types
  <2> QED
    BY <2>1, <2>2, OutsideKeeps, Zenon
<1> QED
  BY <1>1, <1>2, Zenon

-----------------------------------------------------------------------------
(* The life of a Manager *)

\* A stopped Manager claims nothing.
LEMMA StopKeeps == ASSUME IInv, Stop PROVE IInv'
<1>1. running' = None /\ pass' = IdlePass /\ UNCHANGED <<site, remote, cache, tasks, applied>>
  BY Zenon DEF Stop
<1>2. /\ IdlePass = [f \in PassFields |-> IdlePass[f]] /\ IdlePass.members \subseteq Agents
      /\ IdlePass.pc = "idle" /\ IdlePass.counted = {}
  BY DEF IdlePass, PassFields
<1>3. Types'
  BY <1>1, <1>2, FS_EmptySet, Zenon DEF IInv, Types
<1>4. Revisions'
  BY <1>1, Zenon DEF IInv, Revisions
<1>5. Runs' /\ Inside' /\ Limits'
  BY <1>1, Zenon DEF Runs, Inside, Limits
<1>6. Counted'
  <2>1. pass'.pc = "idle" /\ "idle" # "tasks" /\ "idle" \notin {"deliver", "tally"}
    BY <1>1, <1>2
  <2> QED
    BY <2>1, Zenon DEF Counted
<1> QED
  BY <1>3, <1>4, <1>5, <1>6, Zenon DEF IInv

\* The bundle a start loads: verified, and not older than any that was run.
LEMMA LoadedIsLatest ==
  ASSUME IInv, NEW answers \in BOOLEAN, Loadable(answers)
  PROVE  /\ Loaded(answers) \in Bundles /\ Verified(Loaded(answers))
         /\ \A b \in applied : b.rev < Loaded(answers).rev \/ b = Loaded(answers)
<1>1. CASE answers = FALSE
  <2>1. cache # None /\ Loaded(answers) = cache
    BY <1>1, Zenon DEF Loadable, Loaded
  <2> QED
    BY <2>1, Zenon DEF IInv, Types, Revisions
<1>2. CASE answers = TRUE
  <2>1. /\ Verified(remote) /\ (cache # None => remote.rev > cache.rev \/ remote = cache)
        /\ Loaded(answers) = remote /\ remote \in Bundles
    BY <1>2, Zenon DEF Loadable, Loaded, IInv, Types
  <2>2. ASSUME NEW b \in applied PROVE b.rev < remote.rev \/ b = remote
    <3>1. cache # None /\ cache \in Bundles /\ b \in Bundles /\ (b.rev < cache.rev \/ b = cache)
      BY Zenon DEF IInv, Types, Revisions
    <3>2. b.rev \in Nat /\ cache.rev \in Nat /\ remote.rev \in Nat
      BY <2>1, <3>1 DEF Bundles
    <3> QED
      BY <2>1, <3>1, <3>2
  <2> QED
    BY <2>1, <2>2, Zenon
<1> QED
  BY <1>1, <1>2, Zenon

\* A start caches the bundle it loads; one that binds it begins without claims.
LEMMA StartKeeps == ASSUME IInv, NEW answers \in BOOLEAN, Start(answers) PROVE IInv'
<1> DEFINE b == Loaded(answers)
<1>1. /\ b \in Bundles /\ Verified(b) /\ \A c \in applied : c.rev < b.rev \/ c = b
      /\ b # None /\ cache' = b /\ running = None /\ Accepted(Documents[b.doc])
  BY LoadedIsLatest, NoneAssumption, Zenon DEF Start
<1>2. UNCHANGED <<site, remote, pass>> /\ pass.pc = "idle"
  BY <1>1, Zenon DEF Start, IInv, Counted
<1>3. Counted'
  <2>1. pass'.pc = "idle" /\ "idle" # "tasks" /\ "idle" \notin {"deliver", "tally"}
    BY <1>2
  <2> QED
    BY <2>1, Zenon DEF Counted
<1>4. \A c \in applied : c \in Bundles
  BY Zenon DEF IInv, Revisions
<1>5. CASE /\ running' = b /\ placement' = [t \in Known |-> Verdict(Documents[b.doc], t)]
           /\ applied' = applied \cup {b}
           /\ tasks' = [t \in Tasks |-> IF t \in Claimed THEN Unclaimed(tasks[t]) ELSE tasks[t]]
  <2>1. \A t \in Tasks : tasks'[t] = IF t \in Claimed THEN Unclaimed(tasks[t]) ELSE tasks[t]
    BY <1>5, Zenon
  <2>2. \A t \in Tasks : tasks[t] = [f \in TaskFields |-> tasks[t][f]]
    BY Zenon DEF IInv, Types
  <2>3. \A t \in Tasks : tasks'[t] = [f \in TaskFields |-> tasks'[t][f]]
    BY <2>1, <2>2, UnclaimedIsTask, Zenon
  <2>4. Claimed' = {}
    <3>1. Known' = Known /\ Known \subseteq Tasks
      BY <1>2, KnownFinite, Zenon DEF Known, deploy, IInv
    <3>2. \A t \in Known : tasks'[t].state # "claimed"
      BY <2>1, <2>2, <3>1, UnclaimedIsTask, Zenon DEF Claimed
    <3> QED
      BY <3>1, <3>2, Zenon DEF Claimed
  <2>5. tasks' = [t \in Tasks |-> tasks'[t]]
    BY <1>5, Zenon
  <2>6. Types'
    BY <1>1, <1>2, <2>3, <2>5, Zenon DEF IInv, Types
  <2>7. Revisions'
    BY <1>1, <1>4, <1>5, Zenon DEF Revisions
  <2>8. Runs'
    <3>1. deploy' = deploy /\ Known' = Known /\ Doc' = Documents[b.doc]
      BY <1>2, <1>5, Zenon DEF deploy, Known, Doc
    <3>2. \A doc, t : Verdict(doc, t)' = Verdict(doc, t)
      BY <3>1, Zenon DEF Verdict, Info
    <3> QED
      BY <1>1, <1>5, <3>1, <3>2, Zenon DEF Runs
  <2>9. Inside' /\ Limits'
    BY <2>4, Zenon DEF Inside, Limits, SourceFits, DatasetFits, AgentFits
  <2> QED
    BY <1>3, <2>6, <2>7, <2>8, <2>9, Zenon DEF IInv
<1>6. CASE UNCHANGED <<running, placement, applied, tasks>>
  <2>1. Types' /\ Revisions'
    BY <1>1, <1>2, <1>4, <1>6, Zenon DEF IInv, Types, Revisions
  <2>2. Runs' /\ Inside' /\ Limits'
    BY <1>1, <1>6, Zenon DEF Runs, Inside, Limits
  <2> QED
    BY <1>3, <2>1, <2>2, Zenon DEF IInv
<1> QED
  BY <1>5, <1>6, Zenon DEF Start

-----------------------------------------------------------------------------
(* Tasks and passes *)

IsTasks(tk) == tk = [t \in Tasks |-> tk[t]] /\ \A t \in Tasks : tk[t] = [f \in TaskFields |-> tk[t][f]]
IsPass(x) == x = [f \in PassFields |-> x[f]] /\ x.members \subseteq Agents /\ IsFiniteSet(x.counted)

\* A step of the queue or of a pass that makes no claim.
LEMMA ReleaseKeeps ==
  ASSUME IInv, Shrinks, UNCHANGED <<remote, cache, applied>>, IsTasks(tasks'), IsPass(pass'), Counted'
  PROVE  IInv'
<1>1. Types' /\ Revisions'
  BY Zenon DEF IInv, Types, Revisions, Shrinks, IsTasks, IsPass
<1> QED
  BY <1>1, ShrinksKeeps, Zenon DEF IInv

\* Claims that are covered stay covered when some are gone.
LEMMA StaysCounted == ASSUME IInv, Shrinks, pass' = pass PROVE IsPass(pass') /\ Counted'
<1>1. \A t \in Claimed' : t \in Claimed /\ Pair(t)' = Pair(t)
  BY Zenon DEF Shrinks, Pair
<1>2. running' = running
  BY Zenon DEF Shrinks
<1> QED
  BY <1>1, <1>2, Zenon DEF IInv, Types, Counted, IsPass

\* Nothing happens to the tasks.
LEMMA SameTasks ==
  ASSUME IInv, UNCHANGED <<site, running, placement, tasks>>
  PROVE  Shrinks /\ IsTasks(tasks') /\ Claimed' = Claimed
<1>1. Known' = Known
  BY SameSite, Zenon
<1>2. Claimed' = Claimed
  BY <1>1, Zenon DEF Claimed
<1> QED
  BY <1>2, Zenon DEF Shrinks, IInv, Types, IsTasks

\* Each task stays, is given back or done, or is queued anew.
LEMMA TasksShrink ==
  ASSUME IInv, UNCHANGED <<site, running, placement>>,
         tasks' = [t \in Tasks |-> tasks'[t]],
         \A t \in Tasks : \/ tasks'[t] = tasks[t]
                          \/ /\ tasks'[t] = [f \in TaskFields |-> tasks'[t][f]]
                             /\ tasks'[t].state # "claimed"
  PROVE  Shrinks /\ IsTasks(tasks')
<1>1. Known' = Known /\ Known \subseteq Tasks
  BY SameSite, KnownFinite, Zenon DEF IInv
<1>2. \A t \in Claimed' : t \in Claimed /\ tasks'[t] = tasks[t]
  BY <1>1, Zenon DEF Claimed
<1> QED
  BY <1>2, Zenon DEF Shrinks, IInv, Types, IsTasks

\* Requests become tasks, and results end them.
LEMMA QueueKeeps == ASSUME IInv, NEW t \in Tasks, Enqueue(t) \/ Report(t) PROVE IInv'
<1>1. \A u \in Tasks : tasks[u] = [f \in TaskFields |-> tasks[u][f]]
  BY Zenon DEF IInv, Types
<1>2. tasks = [u \in Tasks |-> tasks[u]]
  BY Zenon DEF IInv, Types
<1>3. CASE Enqueue(t)
  <2> DEFINE new == [state |-> "queued", tenant |-> TaskPolicy(t).tenant, claim |-> None]
  <2>1. new = [f \in TaskFields |-> new[f]] /\ new.state # "claimed"
    BY DEF TaskFields
  <2>2. tasks' = [u \in Tasks |-> IF u \in Known /\ Info(u).table = Info(t).table THEN new ELSE tasks[u]]
    BY <1>3, Zenon DEF Enqueue
  <2> HIDE DEF new
  <2>3. /\ tasks' = [u \in Tasks |-> tasks'[u]]
        /\ \A u \in Tasks : tasks'[u] = tasks[u] \/ tasks'[u] = new
    BY <2>2
  <2>4. UNCHANGED <<site, running, placement, remote, cache, applied, pass>>
    BY <1>3, Zenon DEF Enqueue, policy
  <2>5. Shrinks /\ IsTasks(tasks')
    BY <2>1, <2>3, <2>4, TasksShrink, Zenon
  <2> QED
    BY <2>4, <2>5, StaysCounted, ReleaseKeeps, Zenon
<1>4. CASE Report(t)
  <2> DEFINE done == [tasks[t] EXCEPT !.state = "done", !.claim = None]
             back == Unclaimed(tasks[t])
  <2>1. done = [f \in TaskFields |-> done[f]] /\ done.state # "claimed"
    BY <1>1 DEF TaskFields
  <2>2. back = [f \in TaskFields |-> back[f]] /\ back.state # "claimed"
    BY <1>1, UnclaimedIsTask, Zenon
  <2>3. tasks' = [tasks EXCEPT ![t] = done] \/ tasks' = [tasks EXCEPT ![t] = back]
    BY <1>1, <1>2, <1>4 DEF Report, TaskFields
  <2> HIDE DEF done, back
  <2>4. /\ tasks' = [u \in Tasks |-> tasks'[u]]
        /\ \A u \in Tasks : tasks'[u] = tasks[u] \/ tasks'[u] \in {done, back}
    BY <1>2, <2>3
  <2>5. UNCHANGED <<site, running, placement, remote, cache, applied, pass>>
    BY <1>4, Zenon DEF Report, policy
  <2>6. Shrinks /\ IsTasks(tasks')
    BY <2>1, <2>2, <2>4, <2>5, TasksShrink, Zenon
  <2> QED
    BY <2>5, <2>6, StaysCounted, ReleaseKeeps, Zenon
<1> QED
  BY <1>3, <1>4, Zenon

\* A pass begins: claims that expired or whose member left are given back.
LEMMA BeginPassKeeps == ASSUME IInv, BeginPass PROVE IInv'
<1>1. \A u \in Tasks : tasks[u] = [f \in TaskFields |-> tasks[u][f]]
  BY Zenon DEF IInv, Types
<1>2. PICK expired \in SUBSET Claimed :
         tasks' = [t \in Tasks |->
             IF t \in expired \/ (t \in Claimed /\ ~HeldByMember(tasks[t].claim, members'))
             THEN Unclaimed(tasks[t]) ELSE tasks[t]]
  BY Zenon DEF BeginPass
<1>3. /\ tasks' = [u \in Tasks |-> tasks'[u]]
      /\ \A u \in Tasks : tasks'[u] = tasks[u] \/ tasks'[u] = Unclaimed(tasks[u])
  BY <1>2
<1>4. UNCHANGED <<site, running, placement, remote, cache, applied>>
  BY Zenon DEF BeginPass, policy
<1>5. Shrinks /\ IsTasks(tasks')
  BY <1>1, <1>3, <1>4, TasksShrink, UnclaimedIsTask, Zenon
<1>6. /\ pass' = [f \in PassFields |-> pass'[f]] /\ pass'.counted = {} /\ pass'.pc = "count"
      /\ pass'.members \subseteq Agents
  BY DEF BeginPass, IdlePass, PassFields
<1>7. IsPass(pass')
  BY <1>6, FS_EmptySet, Zenon DEF IsPass
<1>8. Counted'
  <2>1. running' # None
    BY <1>4, Zenon DEF BeginPass
  <2>2. "count" # "tasks" /\ "count" \notin {"deliver", "tally"}
    OBVIOUS
  <2> QED
    BY <1>6, <2>1, <2>2, Zenon DEF Counted
<1> QED
  BY <1>4, <1>5, <1>7, <1>8, ReleaseKeeps, Zenon

\* The counts of a pass are those of the claims there are.
LEMMA CountClaimsKeeps == ASSUME IInv, CountClaims PROVE IInv'
<1>1. UNCHANGED <<site, running, placement, remote, cache, applied, tasks>> /\ pass.pc = "count"
  BY Zenon DEF CountClaims, policy
<1>2. Shrinks /\ IsTasks(tasks') /\ Claimed' = Claimed
  BY <1>1, SameTasks, Zenon
<1> DEFINE C == {<<t, tasks[t].claim.agent>> : t \in Claimed}
<1>3. pass = [f \in PassFields |-> pass[f]] /\ pass.members \subseteq Agents
  BY Zenon DEF IInv, Types
<1>4. pass' = [f \in PassFields |-> pass'[f]] /\ pass'.counted = C /\ pass'.pc = "tasks"
      /\ pass'.members = pass.members
  BY <1>3 DEF CountClaims, PassFields
<1>5. IsFiniteSet(C)
  <2>1. IsFiniteSet(Claimed)
    <3>1. Claimed \in SUBSET Known
      BY DEF Claimed
    <3> QED
      BY <3>1, KnownFinite, FS_Subset, Zenon DEF IInv
  <2>2. [t \in Claimed |-> <<t, tasks[t].claim.agent>>] \in Surjection(Claimed, C)
    BY DEF Surjection
  <2> QED
    BY <2>1, <2>2, FS_Surjection
<1>6. IsPass(pass')
  BY <1>3, <1>4, <1>5, Zenon DEF IsPass
<1>7. Counted'
  <2>1. \A t \in Claimed' : Pair(t)' \in pass'.counted
    BY <1>1, <1>2, <1>4 DEF Pair
  <2>2. running' # None
    BY <1>1 DEF IInv, Counted
  <2>3. "tasks" \notin {"deliver", "tally"}
    OBVIOUS
  <2> QED
    BY <1>4, <2>1, <2>2, <2>3, Zenon DEF Counted
<1> QED
  BY <1>1, <1>2, <1>6, <1>7, ReleaseKeeps, Zenon

\* A task without a candidate is left, a delivered claim is counted, a pass ends.
LEMMA MovesKeeps == ASSUME IInv, Skip \/ Tally \/ EndPass PROVE IInv'
<1>1. UNCHANGED <<site, running, placement, remote, cache, applied, tasks>>
  BY Zenon DEF Skip, Tally, EndPass, policy
<1>2. Shrinks /\ IsTasks(tasks') /\ Claimed' = Claimed /\ \A t : Pair(t)' = Pair(t)
  BY <1>1, SameTasks, Zenon DEF Pair
<1>3. pass = [f \in PassFields |-> pass[f]] /\ pass.members \subseteq Agents /\ IsFiniteSet(pass.counted)
  BY Zenon DEF IInv, Types
<1>4. CASE Skip
  <2>1. /\ pass' = [f \in PassFields |-> pass'[f]] /\ pass'.counted = pass.counted /\ pass'.pc = "tasks"
        /\ pass'.members = pass.members /\ pass.pc = "tasks"
    BY <1>3, <1>4 DEF Skip, PassFields
  <2>2. IsPass(pass')
    BY <1>3, <2>1, Zenon DEF IsPass
  <2>3. running' # None /\ "tasks" \notin {"deliver", "tally"}
    BY <1>1, <2>1 DEF IInv, Counted
  <2>4. Counted'
    BY <1>2, <2>1, <2>3, Zenon DEF IInv, Counted
  <2> QED
    BY <1>1, <1>2, <2>2, <2>4, ReleaseKeeps, Zenon
<1>5. CASE Tally
  <2>1. /\ pass' = [f \in PassFields |-> pass'[f]] /\ pass'.counted = pass.counted \cup {pass.pick}
        /\ pass'.pc = "tasks" /\ pass'.members = pass.members /\ pass.pc = "tally"
    BY <1>3, <1>5 DEF Tally, PassFields
  <2>2. IsFiniteSet(pass'.counted)
    BY <1>3, <2>1, FS_AddElement
  <2>3. IsPass(pass')
    BY <1>3, <2>1, <2>2, Zenon DEF IsPass
  <2>4. running' # None /\ "tasks" \notin {"deliver", "tally"} /\ "tally" \in {"deliver", "tally"}
    BY <1>1, <2>1 DEF IInv, Counted
  <2>5. Counted'
    BY <1>2, <2>1, <2>4, Zenon DEF IInv, Counted
  <2> QED
    BY <1>1, <1>2, <2>3, <2>5, ReleaseKeeps, Zenon
<1>6. CASE EndPass
  <2>1. /\ pass' = [f \in PassFields |-> pass'[f]] /\ pass'.counted = {} /\ pass'.pc = "idle"
        /\ pass'.members \subseteq Agents
    BY <1>6 DEF EndPass, IdlePass, PassFields
  <2>2. IsPass(pass')
    BY <2>1, FS_EmptySet, Zenon DEF IsPass
  <2>3. "idle" # "tasks" /\ "idle" \notin {"deliver", "tally"}
    OBVIOUS
  <2>4. Counted'
    BY <2>1, <2>3, Zenon DEF Counted
  <2> QED
    BY <1>1, <1>2, <2>2, <2>4, ReleaseKeeps, Zenon
<1> QED
  BY <1>4, <1>5, <1>6, Zenon

\* A claim whose Agent has left is given back, so what was counted still covers.
LEMMA DeliverKeeps == ASSUME IInv, Deliver PROVE IInv'
<1> DEFINE t == pass.pick[1]
<1>1. UNCHANGED <<site, running, placement, remote, cache, applied>> /\ pass.pc = "deliver"
  BY Zenon DEF Deliver, policy
<1>2. /\ \A u \in Tasks : tasks[u] = [f \in TaskFields |-> tasks[u][f]]
      /\ tasks = [u \in Tasks |-> tasks[u]]
  BY Zenon DEF IInv, Types
<1>3. pass = [f \in PassFields |-> pass[f]] /\ pass.members \subseteq Agents /\ IsFiniteSet(pass.counted)
  BY Zenon DEF IInv, Types
<1>4. \A u \in Claimed : Pair(u) \in pass.counted \cup {pass.pick}
  BY <1>1 DEF IInv, Counted
<1>5. running' # None
  BY <1>1 DEF IInv, Counted
<1>6. CASE reg[pass.pick[2]] = None
  <2>1. /\ pass' = [f \in PassFields |-> pass'[f]] /\ pass'.counted = pass.counted /\ pass'.pc = "tasks"
        /\ pass'.members = pass.members
    BY <1>3, <1>6 DEF Deliver, PassFields
  <2>2. tasks' = IF t \in Claimed THEN [tasks EXCEPT ![t] = Unclaimed(tasks[t])] ELSE tasks
    BY <1>6 DEF Deliver
  <2> HIDE DEF t
  <2>3. /\ tasks' = [u \in Tasks |-> tasks'[u]]
        /\ \A u \in Tasks : tasks'[u] = tasks[u] \/ tasks'[u] = Unclaimed(tasks[u])
    BY <1>2, <2>2
  <2>4. Shrinks /\ IsTasks(tasks')
    <3>1. \A u \in Tasks : tasks[u] = [f \in TaskFields |-> tasks[u][f]]
      BY <1>2, Zenon
    <3> QED
      BY <1>1, <2>3, <3>1, TasksShrink, UnclaimedIsTask, Zenon
  <2>5. \A u \in Claimed' : u \in Claimed /\ u # t /\ Pair(u)' = Pair(u)
    <3>1. \A u \in Claimed' : u \in Claimed /\ Pair(u)' = Pair(u)
      BY <2>4, Zenon DEF Shrinks, Pair
    <3>2. t \in Claimed => t \notin Claimed'
      <4>1. t \in Claimed => t \in Tasks
        BY KnownFinite, Zenon DEF IInv, Claimed
      <4>2. t \in Claimed => tasks'[t] = Unclaimed(tasks[t])
        BY <1>2, <2>2, <4>1
      <4>3. t \in Claimed => tasks'[t].state # "claimed"
        BY <1>2, <4>1, <4>2, UnclaimedIsTask, Zenon
      <4> QED
        BY <4>3, Zenon DEF Claimed
    <3> QED
      BY <3>1, <3>2, Zenon
  <2>6. \A u \in Claimed' : Pair(u)' \in pass'.counted
    <3> SUFFICES ASSUME NEW u \in Claimed' PROVE Pair(u) \in pass.counted
      BY <2>1, <2>5, Zenon
    <3>1. u \in Claimed /\ u # t
      BY <2>5, Zenon
    <3>2. Pair(u) # pass.pick
      BY <3>1 DEF Pair, t
    <3> QED
      BY <1>4, <3>1, <3>2, Zenon
  <2>7. IsPass(pass')
    BY <1>3, <2>1, Zenon DEF IsPass
  <2>8. Counted'
    <3>1. "tasks" \notin {"deliver", "tally"}
      OBVIOUS
    <3> QED
      BY <1>5, <2>1, <2>6, <3>1, Zenon DEF Counted
  <2> QED
    BY <1>1, <2>4, <2>7, <2>8, ReleaseKeeps, Zenon
<1>7. CASE reg[pass.pick[2]] # None
  <2>1. /\ pass' = [f \in PassFields |-> pass'[f]] /\ pass'.counted = pass.counted /\ pass'.pc = "tally"
        /\ pass'.members = pass.members /\ pass'.pick = pass.pick /\ tasks' = tasks
    BY <1>3, <1>7 DEF Deliver, PassFields
  <2>2. Shrinks /\ IsTasks(tasks') /\ Claimed' = Claimed /\ \A u : Pair(u)' = Pair(u)
    BY <1>1, <2>1, SameTasks, Zenon DEF Pair
  <2>3. IsPass(pass')
    BY <1>3, <2>1, Zenon DEF IsPass
  <2>4. Counted'
    <3>1. "tally" # "tasks"
      OBVIOUS
    <3> QED
      BY <1>4, <1>5, <2>1, <2>2, <3>1, Zenon DEF Counted
  <2> QED
    BY <1>1, <2>2, <2>3, <2>4, ReleaseKeeps, Zenon
<1> QED
  BY <1>6, <1>7, Zenon

-----------------------------------------------------------------------------
(* A claim is made *)

\* The Agents found for the first open target are candidates of some target.
LEMMA FirstTargetFacts ==
  ASSUME NEW cands, NEW t, NEW pooled, NEW a \in FirstTarget(cands, t, pooled)
  PROVE  /\ a \in cands
         /\ \E target : /\ Targets(TaskPolicy(t)) = << >> \/ target \in TargetPools(TaskPolicy(t))
                        /\ Matches(a, t, target, pooled)
<1> DEFINE targets == Targets(TaskPolicy(t))
<1>1. CASE targets = << >>
  BY <1>1, Zenon DEF FirstTarget
<1>2. CASE targets # << >>
  <2>1. PICK i \in DOMAIN targets : a \in cands /\ Matches(a, t, targets[i], pooled)
    BY <1>2, Zenon DEF FirstTarget
  <2>2. targets[i] \in TargetPools(TaskPolicy(t))
    BY <2>1, Zenon DEF TargetPools, Range
  <2> QED
    BY <2>1, <2>2, Zenon
<1> QED
  BY <1>1, <1>2, Zenon

\* What _eligible_agents and _placement_eligible have checked of a candidate.
LEMMA CandidateFacts ==
  ASSUME NEW t, NEW a \in Candidates(t)
  PROVE  /\ a \in pass.members
         /\ Cardinality({c \in pass.counted : c[2] = a}) < InflightLimit(t, a)
         /\ TaskTenantOk(t) /\ placement[t].valid
         /\ Doc.tenants # {} => /\ PoolOf(Doc, a) # ""
                                /\ Doc.pools[PoolOf(Doc, a)].tenant = tasks[t].tenant
         /\ Enabled(Doc) =>
               /\ ~QuotaFull(t, pass.counted)
               /\ \E target :
                     /\ Targets(TaskPolicy(t)) = << >> \/ target \in TargetPools(TaskPolicy(t))
                     /\ Matches(a, t, target, pass.pooled)
<1> DEFINE cands == EligibleAgents(t, pass.members, pass.counted)
           tenants == {b \in cands : PoolOf(Doc, b) # "" /\
                                     Doc.pools[PoolOf(Doc, b)].tenant = tasks[t].tenant}
           allowed == IF Doc.tenants # {} THEN tenants ELSE cands
<1>1. /\ Admitted(t)
      /\ ~Enabled(Doc) => a \in allowed
      /\ Enabled(Doc) => ~QuotaFull(t, pass.counted) /\ a \in FirstTarget(allowed, t, pass.pooled)
  BY Zenon DEF Candidates, PlacementEligible
<1> HIDE DEF allowed
<1>2. a \in allowed
  BY <1>1, FirstTargetFacts, Zenon
<1>3. a \in cands /\ (Doc.tenants # {} => PoolOf(Doc, a) # ""
                                          /\ Doc.pools[PoolOf(Doc, a)].tenant = tasks[t].tenant)
  BY <1>2, Zenon DEF allowed
<1>4. a \in pass.members /\ Cardinality({c \in pass.counted : c[2] = a}) < InflightLimit(t, a)
  BY <1>3, Zenon DEF EligibleAgents
<1>5. Enabled(Doc) => \E target :
          /\ Targets(TaskPolicy(t)) = << >> \/ target \in TargetPools(TaskPolicy(t))
          /\ Matches(a, t, target, pass.pooled)
  BY <1>1, FirstTargetFacts, Zenon
<1> QED
  BY <1>1, <1>3, <1>4, <1>5, Zenon DEF Admitted

\* A list with a first element is not empty.
LEMMA MoreThanNothing == ASSUME NEW x, NEW S, NEW s \in Seq(S) PROVE <<x>> \o s # << >>
<1> DEFINE U == S \cup {x}
<1>1. <<x>> \in Seq(U) /\ s \in Seq(U)
  OBVIOUS
<1> HIDE DEF U
<1>2. Len(<<x>> \o s) = Len(<<x>>) + Len(s) /\ Len(s) \in Nat
  BY <1>1
<1>3. Len(<<x>>) = 1 /\ Len(<< >>) = 0
  OBVIOUS
<1> QED
  BY <1>2, <1>3

\* An accepted document and a valid dispatch keep a task inside its connection's rules.
LEMMA InsideWhenValid ==
  ASSUME NEW doc, NEW d, NEW conn, NEW table, NEW agent, NEW tenant, NEW p, Accepted(doc),
         p.fallbacks \in Seq(STRING), ValidDispatch(doc, p, conn, d.store),
         IF doc.tenants = {} THEN tenant = "" ELSE tenant # "" /\ tenant = p.tenant,
         doc.tenants # {} => PoolOf(doc, agent) # "" /\ doc.pools[PoolOf(doc, agent)].tenant = tenant,
         Enabled(doc) => \E target : /\ Targets(p) = << >> \/ target \in TargetPools(p)
                                     /\ PoolOf(doc, agent) # "" /\ target \in {"", PoolOf(doc, agent)}
                                     /\ Allows(doc.pools[PoolOf(doc, agent)], conn, table)
  PROVE  InsideOf(doc, d, conn, agent, tenant)
<1> DEFINE rule == ConnectionPolicy(doc, conn)
           pool == PoolOf(doc, agent)
<1>1. conn \notin DOMAIN doc.connections => rule.residency = {} /\ rule.tenant = ""
  BY DEF ConnectionPolicy, Empty
<1>2. doc.tenants = {} => rule.tenant = ""
  <2>1. conn \in DOMAIN doc.connections => rule \in Policies(doc)
    BY Zenon DEF ConnectionPolicy, Policies
  <2>2. conn \in DOMAIN doc.connections => TenantOk(doc, rule.tenant)
    BY <2>1, Zenon DEF Accepted, PolicyOk
  <2> QED
    BY <1>1, <2>2, Zenon DEF TenantOk
<1>3. CASE ~Enabled(doc)
  <2>1. conn \notin DOMAIN doc.connections /\ doc.tenants = {}
    BY <1>3, Zenon DEF Enabled
  <2> QED
    BY <1>1, <2>1, Zenon DEF InsideOf
<1>4. CASE Enabled(doc)
  <2>1. PICK target : /\ Targets(p) = << >> \/ target \in TargetPools(p)
                      /\ pool # "" /\ target \in {"", pool} /\ Allows(doc.pools[pool], conn, table)
    BY <1>4, Zenon
  <2>2. ASSUME rule.residency # {}
        PROVE  /\ doc.pools[pool].location \in rule.residency /\ doc.pools[pool].profile = d.store
               /\ doc.stores[d.store].location \in rule.residency
    <3>1. /\ p.residency # {} /\ p.residency \subseteq rule.residency /\ ValidResidency(doc, p)
          /\ p.profile = d.store /\ \A i \in TargetPools(p) : doc.pools[i].profile = d.store
      BY <2>2, Zenon DEF ValidDispatch
    <3>2. p.required # "" /\ PoolsInside(doc, p)
      BY <3>1, Zenon DEF ValidResidency
    <3>3. \A s \in {p.profile, Staging(p)} \cup p.replicas \cup p.caches
                     \cup {doc.pools[i].profile : i \in TargetPools(p)} :
               doc.stores[s].location \in p.residency
      BY <3>1, Zenon DEF ValidResidency
    <3>4. Targets(p) # << >>
      <4>1. Targets(p) = <<p.required>> \o p.fallbacks
        BY <3>2, Zenon DEF Targets
      <4> QED
        BY <4>1, MoreThanNothing, Zenon
    <3>5. target \in TargetPools(p)
      BY <2>1, <3>4, Zenon
    <3>6. target \in DOMAIN doc.pools /\ doc.pools[target].location \in p.residency
      BY <3>2, <3>5, Zenon DEF PoolsInside
    <3>7. target # ""
      BY <3>6, Zenon DEF Accepted, PoolsOk
    <3>8. target = pool
      BY <2>1, <3>7, Zenon
    <3>9. doc.stores[d.store].location \in p.residency
      <4>1. d.store \in {p.profile, Staging(p)} \cup p.replicas \cup p.caches
                     \cup {doc.pools[i].profile : i \in TargetPools(p)}
        BY <3>1
      <4> QED
        BY <3>3, <4>1, Zenon
    <3> QED
      BY <3>1, <3>5, <3>6, <3>8, <3>9, Zenon
  <2>3. doc.tenants # {} => rule.tenant = tenant
    <3> SUFFICES ASSUME doc.tenants # {} PROVE rule.tenant = tenant
      BY Zenon
    <3>1. pool \in DOMAIN doc.pools
      BY <2>1 DEF PoolOf
    <3>2. conn \in doc.pools[pool].connections
      BY <2>1, Zenon DEF Allows
    <3>3. rule.tenant = doc.pools[pool].tenant
      BY <3>1, <3>2, Zenon DEF Accepted, PoolTenantsOk
    <3> QED
      BY <3>3, Zenon
  <2> QED
    BY <1>2, <2>1, <2>2, <2>3, Zenon DEF InsideOf
<1> QED
  BY <1>3, <1>4, Zenon

\* The verdict on a task is that of the document in force, with numbers for limits.
LEMMA PolicyFacts ==
  ASSUME IInv, running # None, NEW t \in Known
  PROVE  /\ TaskPolicy(t) = PolicyFor(Doc, Info(t).conn, Info(t).table)
         /\ placement[t].valid = ValidDispatch(Doc, TaskPolicy(t), Info(t).conn, deploy.store)
         /\ TaskPolicy(t).max \in Nat /\ TaskPolicy(t).sourceMax \in Nat
         /\ TaskPolicy(t).fallbacks \in Seq(STRING)
         /\ ~Enabled(Doc) => TaskPolicy(t).max = NoLimit /\ TaskPolicy(t).sourceMax = NoLimit
<1> DEFINE p == PolicyFor(Doc, Info(t).conn, Info(t).table)
<1>1. placement[t] = Verdict(Doc, t)
  BY DEF IInv, Runs
<1>2. TaskPolicy(t) = p /\ placement[t].valid = ValidDispatch(Doc, p, Info(t).conn, deploy.store)
  BY <1>1 DEF TaskPolicy, Verdict
<1>3. p.max \in Nat /\ p.sourceMax \in Nat /\ p.fallbacks \in Seq(STRING)
  <2>1. running.doc \in DOMAIN Documents /\ site \in DOMAIN Deployments
    BY DEF IInv, Types, Runs, Bundles
  <2> QED
    BY <2>1, PoliciesAssumption, Zenon DEF Doc, Info, deploy, Known
<1>4. ~Enabled(Doc) => p.max = NoLimit /\ p.sourceMax = NoLimit
  <2>1. ~Enabled(Doc) => DOMAIN Doc.connections = {} /\ DOMAIN Doc.tables = {}
    BY Zenon DEF Enabled
  <2>2. ~Enabled(Doc) => p = Empty
    BY <2>1, Zenon DEF PolicyFor, ConnectionPolicy
  <2>3. Empty.max = NoLimit /\ Empty.sourceMax = NoLimit
    BY DEF Empty
  <2> QED
    BY <2>2, <2>3, Zenon
<1> QED
  BY <1>2, <1>3, <1>4, Zenon

\* Tasks of one dataset have one policy: a table's scope is its own, for tables
\* have names.
LEMMA OneScopeOnePolicy ==
  ASSUME IInv, running # None, NEW t \in Known, NEW u \in Known, ScopeOf(t) = ScopeOf(u)
  PROVE  TaskPolicy(t) = TaskPolicy(u)
<1> DEFINE k(v) == <<Info(v).conn, Info(v).table>>
<1>1. /\ TaskPolicy(t) = PolicyFor(Doc, Info(t).conn, Info(t).table)
      /\ TaskPolicy(u) = PolicyFor(Doc, Info(u).conn, Info(u).table)
  BY PolicyFacts, Zenon
<1>2. \A x \in DOMAIN Doc.tables : x[2] # ""
  BY Zenon DEF IInv, Runs, Accepted
<1>3. Info(t).conn = Info(u).conn
  BY DEF ScopeOf
<1>4. k(t) \in DOMAIN Doc.tables => Info(t).table # ""
  BY <1>2
<1>5. k(u) \in DOMAIN Doc.tables => Info(u).table # ""
  BY <1>2
<1>6. CASE k(t) \in DOMAIN Doc.tables
  <2>1. Info(t).table = Info(u).table
    BY <1>4, <1>5, <1>6 DEF ScopeOf
  <2> QED
    BY <1>1, <1>3, <2>1, Zenon
<1>7. CASE k(t) \notin DOMAIN Doc.tables
  <2>1. k(u) \notin DOMAIN Doc.tables
    BY <1>4, <1>5, <1>7 DEF ScopeOf
  <2> QED
    BY <1>1, <1>3, <1>7, <2>1, Zenon DEF PolicyFor
<1> QED
  BY <1>6, <1>7, Zenon

\* A count below its limit leaves room for one more.
LEMMA RoomForOne ==
  ASSUME NEW S, NEW C, NEW limit \in Nat, Cardinality(S) \in Nat, Cardinality(C) \in Nat,
         Cardinality(S) <= Cardinality(C) + 1, ~Reaches(Cardinality(C), limit)
  PROVE  Fits(S, limit)
  BY DEF Reaches, Fits, NoLimit

\* An Agent's limit is at least one claim.
LEMMA SomeInflight ==
  ASSUME IInv, NEW t, NEW a \in Agents
  PROVE  /\ deploy.maxInflight * deploy.capacity[a] \in Nat
         /\ InflightLimit(t, a) \in Nat
         /\ InflightLimit(t, a) <= deploy.maxInflight * deploy.capacity[a]
<1> DEFINE m == deploy.maxInflight n == deploy.capacity[a]
<1>1. m \in Nat \ {0} /\ n \in Nat \ {0}
  BY DeploymentsAssumption DEF IInv, Types, deploy
<1> HIDE DEF m, n
<1>2. m * n \in Nat /\ m * n >= 1
  BY <1>1
<1>3. InflightLimit(t, a) = 1 \/ InflightLimit(t, a) = m * n
  BY DEF InflightLimit, m, n
<1> QED
  BY <1>2, <1>3 DEF m, n

\* The claim of a candidate keeps every limit: the pass has counted all the others.
LEMMA ClaimLimits ==
  ASSUME IInv, running # None, pass.pc = "tasks", NEW t \in Known, NEW a \in Candidates(t),
         UNCHANGED <<site, running, placement>>, t \notin Claimed, Claimed' = Claimed \cup {t},
         \A u \in Claimed : tasks'[u] = tasks[u], tasks'[t].claim.agent = a
  PROVE  Limits'
<1>1. /\ deploy' = deploy /\ \A u : Info(u)' = Info(u)
      /\ \A u : ScopeOf(u)' = ScopeOf(u) /\ TaskPolicy(u)' = TaskPolicy(u)
  BY SameSite, Zenon
<1>2. \A u \in Claimed : <<u, tasks'[u].claim.agent>> \in pass.counted
  BY Zenon DEF IInv, Counted, Pair
<1>3. /\ IsFiniteSet(pass.counted) /\ Claimed \subseteq Known /\ pass.members \subseteq Agents
      /\ SourceFits /\ DatasetFits /\ AgentFits
  BY DEF IInv, Types, Claimed, Limits
<1>4. /\ a \in pass.members /\ Cardinality({c \in pass.counted : c[2] = a}) < InflightLimit(t, a)
      /\ Enabled(Doc) => ~QuotaFull(t, pass.counted)
  BY CandidateFacts, Zenon
<1>5. /\ TaskPolicy(t).max \in Nat /\ TaskPolicy(t).sourceMax \in Nat
      /\ ~Enabled(Doc) => TaskPolicy(t).max = NoLimit /\ TaskPolicy(t).sourceMax = NoLimit
  BY PolicyFacts, Zenon
<1>6. SourceFits'
  <2> SUFFICES ASSUME NEW S \in SUBSET (Claimed'), S # {}, \A u, v \in S : Info(u).conn = Info(v).conn
               PROVE  \E u \in S : Fits(S, TaskPolicy(u).sourceMax)
    BY <1>1, Zenon DEF SourceFits, Fits
  <2>1. CASE t \notin S
    <3>1. S \in SUBSET Claimed
      BY <2>1
    <3> QED
      BY <1>3, <3>1, Zenon DEF SourceFits
  <2>2. CASE t \in S
    <3> DEFINE C == {c \in pass.counted : Info(c[1]).conn = Info(t).conn}
               ag == [u \in S |-> tasks'[u].claim.agent]
    <3>1. IsFiniteSet(C)
      BY <1>3, FS_Subset
    <3>2. \A u \in S \ {t} : <<u, ag[u]>> \in C
      BY <1>2, <2>2
    <3>3. Enabled(Doc) => ~Reaches(Cardinality(C), TaskPolicy(t).sourceMax)
      BY <1>4, Zenon DEF QuotaFull
    <3> HIDE DEF C, ag
    <3>4. Enabled(Doc) => Fits(S, TaskPolicy(t).sourceMax)
      BY <1>5, <3>1, <3>2, <3>3, OneMore, RoomForOne, Zenon
    <3> QED
      BY <1>5, <2>2, <3>4, Zenon DEF Fits
  <2> QED
    BY <2>1, <2>2, Zenon
<1>7. DatasetFits'
  <2> SUFFICES ASSUME NEW S \in SUBSET (Claimed'), NEW v \in S, \A u \in S : ScopeOf(u) = ScopeOf(v)
               PROVE  Fits(S, TaskPolicy(v).max)
    BY <1>1, Zenon DEF DatasetFits, Fits
  <2>1. CASE t \notin S
    <3>1. S \in SUBSET Claimed
      BY <2>1
    <3> QED
      BY <1>3, <3>1, Zenon DEF DatasetFits
  <2>2. CASE t \in S
    <3> DEFINE C == {c \in pass.counted : ScopeOf(c[1]) = ScopeOf(t)}
               ag == [u \in S |-> tasks'[u].claim.agent]
    <3>1. IsFiniteSet(C)
      BY <1>3, FS_Subset
    <3>2. \A u \in S \ {t} : <<u, ag[u]>> \in C
      BY <1>2, <2>2
    <3>3. Enabled(Doc) => ~Reaches(Cardinality(C), TaskPolicy(t).max)
      BY <1>4, Zenon DEF QuotaFull
    <3> HIDE DEF C, ag
    <3>4. Enabled(Doc) => Fits(S, TaskPolicy(t).max)
      BY <1>5, <3>1, <3>2, <3>3, OneMore, RoomForOne, Zenon
    <3>5. Fits(S, TaskPolicy(t).max)
      BY <1>5, <3>4, Zenon DEF Fits
    <3>6. v \in Known /\ ScopeOf(t) = ScopeOf(v)
      BY <1>3, <2>2
    <3>7. TaskPolicy(v) = TaskPolicy(t)
      BY <3>6, OneScopeOnePolicy, Zenon
    <3> QED
      BY <3>5, <3>7, Zenon
  <2> QED
    BY <2>1, <2>2, Zenon
<1>8. AgentFits'
  <2> SUFFICES ASSUME NEW S \in SUBSET (Claimed'), NEW v \in S,
                      \A u \in S : tasks'[u].claim.agent = tasks'[v].claim.agent
               PROVE  Cardinality(S) <= deploy.maxInflight * deploy.capacity[tasks'[v].claim.agent]
    BY <1>1, Zenon DEF AgentFits
  <2>1. CASE t \notin S
    <3>1. S \in SUBSET Claimed
      BY <2>1
    <3>2. \A u \in S : tasks'[u] = tasks[u]
      BY <3>1
    <3> QED
      BY <1>3, <3>1, <3>2, Zenon DEF AgentFits
  <2>2. CASE t \in S
    <3> DEFINE C == {c \in pass.counted : c[2] = a}
               ag == [u \in S |-> tasks'[u].claim.agent]
    <3>1. IsFiniteSet(C)
      BY <1>3, FS_Subset
    <3>2. \A u \in S \ {t} : <<u, ag[u]>> \in C
      BY <1>2, <2>2
    <3>3. Cardinality(C) < InflightLimit(t, a) /\ tasks'[v].claim.agent = a /\ a \in Agents
      BY <1>3, <1>4, <2>2
    <3> HIDE DEF C, ag
    <3>4. Cardinality(S) \in Nat /\ Cardinality(C) \in Nat /\ Cardinality(S) <= Cardinality(C) + 1
      BY <3>1, <3>2, OneMore, Zenon
    <3>5. /\ deploy.maxInflight * deploy.capacity[a] \in Nat /\ InflightLimit(t, a) \in Nat
          /\ InflightLimit(t, a) <= deploy.maxInflight * deploy.capacity[a]
      BY <3>3, SomeInflight, Zenon
    <3> QED
      BY <3>3, <3>4, <3>5
  <2> QED
    BY <2>1, <2>2, Zenon
<1> QED
  BY <1>6, <1>7, <1>8, Zenon DEF Limits

\* A claim of a candidate is inside, within the limits, and covered by the counts
\* with the pick.
LEMMA AssignKeeps == ASSUME IInv, Assign PROVE IInv'
<1>0. PICK t : t = Head(pass.todo)
  BY Zenon
<1>1. pass.pc = "tasks" /\ running # None
  BY DEF Assign, IInv, Counted
<1>2. PICK a \in Candidates(t) : Claim(t, a)
  BY <1>0, Zenon DEF Assign
<1> DEFINE cl == [agent |-> a, lease |-> reg[a].lease, fence |-> members[a].fence]
           new == [tasks[t] EXCEPT !.state = "claimed", !.claim = cl]
<1>3. UNCHANGED <<site, running, placement, remote, cache, applied>>
  BY <1>2, Zenon DEF Claim, policy
<1>4. /\ pass = [f \in PassFields |-> pass[f]] /\ pass.members \subseteq Agents
      /\ IsFiniteSet(pass.counted) /\ tasks = [u \in Tasks |-> tasks[u]]
      /\ \A u \in Tasks : tasks[u] = [f \in TaskFields |-> tasks[u][f]]
  BY Zenon DEF IInv, Types
<1>5. /\ pass' = [f \in PassFields |-> pass'[f]] /\ pass'.pc = "deliver" /\ pass'.pick = <<t, a>>
      /\ pass'.members = pass.members /\ pass'.counted = pass.counted
  BY <1>2, <1>4 DEF Claim, PassFields
<1>6. IsPass(pass')
  BY <1>4, <1>5, Zenon DEF IsPass
<1>7. tasks[t].state = "queued" /\ tasks' = [tasks EXCEPT ![t] = new]
  BY <1>2, <1>4 DEF Claim, TaskFields
<1>8. t \in Tasks => /\ new = [f \in TaskFields |-> new[f]] /\ new.state = "claimed"
                     /\ new.tenant = tasks[t].tenant /\ new.claim.agent = a
  BY <1>4 DEF TaskFields
<1> HIDE DEF new, cl
<1>9. /\ tasks' = [u \in Tasks |-> tasks'[u]]
      /\ t \in Tasks => tasks'[t] = new
      /\ \A u \in Tasks : u # t => tasks'[u] = tasks[u]
  BY <1>4, <1>7
<1>10. IsTasks(tasks')
  <2>1. \A u \in Tasks : tasks'[u] = [f \in TaskFields |-> tasks'[u][f]]
    BY <1>4, <1>8, <1>9, Zenon
  <2> QED
    BY <1>9, <2>1, Zenon DEF IsTasks
<1>11. Known' = Known /\ Known \subseteq Tasks /\ t \notin Claimed
  BY <1>3, <1>7, SameSite, KnownFinite, Zenon DEF IInv, Claimed
<1>12. \A u \in Claimed : u \in Claimed' /\ tasks'[u] = tasks[u] /\ Pair(u) \in pass.counted
  <2>1. \A u \in Claimed : tasks'[u] = tasks[u] /\ u \in Known
    BY <1>9, <1>11, Zenon DEF Claimed
  <2> QED
    BY <1>1, <1>11, <2>1, Zenon DEF Claimed, IInv, Counted
<1>13. CASE t \notin Known
  <2>1. \A u \in Claimed' : u \in Claimed
    BY <1>9, <1>11, <1>13, Zenon DEF Claimed
  <2>2. Shrinks
    BY <1>3, <1>12, <2>1, Zenon DEF Shrinks
  <2>3. Counted'
    <3>1. \A u \in Claimed' : Pair(u)' \in pass'.counted
      BY <1>5, <1>12, <2>1, Zenon DEF Pair
    <3>2. running' # None /\ "deliver" # "tasks"
      BY <1>1, <1>3
    <3> QED
      BY <1>5, <3>1, <3>2, Zenon DEF Counted
  <2> QED
    BY <1>3, <1>6, <1>10, <2>2, <2>3, ReleaseKeeps, Zenon
<1>14. CASE t \in Known
  <2>1. /\ t \in Tasks /\ tasks'[t].state = "claimed" /\ tasks'[t].tenant = tasks[t].tenant
        /\ tasks'[t].claim.agent = a
    BY <1>8, <1>9, <1>11, <1>14, Zenon
  <2>2. Claimed' = Claimed \cup {t}
    <3>1. \A u \in Claimed' : u = t \/ u \in Claimed
      BY <1>9, <1>11, Zenon DEF Claimed
    <3>2. t \in Claimed'
      BY <1>11, <1>14, <2>1, Zenon DEF Claimed
    <3> QED
      BY <1>12, <3>1, <3>2
  <2>3. Types' /\ Revisions'
    BY <1>3, <1>6, <1>10, Zenon DEF IInv, Types, Revisions, IsTasks, IsPass
  <2>4. Runs'
    <3>1. Doc' = Doc /\ \A doc, u : Verdict(doc, u)' = Verdict(doc, u)
      BY <1>3, SameSite, Zenon
    <3> QED
      BY <1>3, <1>11, <3>1, Zenon DEF IInv, Runs
  <2>5. Counted'
    <3>1. \A u \in Claimed' : Pair(u)' \in pass'.counted \cup {pass'.pick}
      <4>1. \A u \in Claimed : Pair(u)' \in pass'.counted
        BY <1>5, <1>12, Zenon DEF Pair
      <4>2. Pair(t)' = pass'.pick
        BY <1>5, <2>1, Zenon DEF Pair
      <4> QED
        BY <2>2, <4>1, <4>2
    <3>2. running' # None /\ "deliver" # "tasks"
      BY <1>1, <1>3
    <3> QED
      BY <1>5, <3>1, <3>2, Zenon DEF Counted
  <2>6. Limits'
    BY <1>1, <1>3, <1>11, <1>12, <1>14, <2>1, <2>2, ClaimLimits, Zenon
  <2>7. InsideOf(Doc, deploy, Info(t).conn, a, tasks[t].tenant)
    <3>1. /\ TaskTenantOk(t) /\ placement[t].valid
          /\ Doc.tenants # {} => /\ PoolOf(Doc, a) # ""
                                 /\ Doc.pools[PoolOf(Doc, a)].tenant = tasks[t].tenant
          /\ Enabled(Doc) =>
                \E target :
                     /\ Targets(TaskPolicy(t)) = << >> \/ target \in TargetPools(TaskPolicy(t))
                     /\ Matches(a, t, target, pass.pooled)
      BY CandidateFacts, Zenon
    <3>2. /\ ValidDispatch(Doc, TaskPolicy(t), Info(t).conn, deploy.store)
          /\ TaskPolicy(t).fallbacks \in Seq(STRING) /\ Accepted(Doc)
      BY <1>1, <1>14, <3>1, PolicyFacts, Zenon DEF IInv, Runs
    <3>3. IF Doc.tenants = {} THEN tasks[t].tenant = ""
          ELSE tasks[t].tenant # "" /\ tasks[t].tenant = TaskPolicy(t).tenant
      BY <3>1, Zenon DEF TaskTenantOk
    <3>4. Enabled(Doc) => \E target :
              /\ Targets(TaskPolicy(t)) = << >> \/ target \in TargetPools(TaskPolicy(t))
              /\ PoolOf(Doc, a) # "" /\ target \in {"", PoolOf(Doc, a)}
              /\ Allows(Doc.pools[PoolOf(Doc, a)], Info(t).conn, Info(t).table)
      BY <3>1, Zenon DEF Matches
    <3> QED
      BY <3>1, <3>2, <3>3, <3>4, InsideWhenValid, Zenon
  <2>8. Inside'
    <3>1. Doc' = Doc /\ deploy' = deploy /\ \A u : Info(u)' = Info(u)
      BY <1>3, SameSite, Zenon
    <3>2. \A u \in Claimed : InsideOf(Doc, deploy, Info(u).conn, tasks'[u].claim.agent, tasks'[u].tenant)
      BY <1>1, <1>12, Zenon DEF IInv, Inside
    <3>3. InsideOf(Doc, deploy, Info(t).conn, tasks'[t].claim.agent, tasks'[t].tenant)
      BY <2>1, <2>7, Zenon
    <3>4. \A u \in Claimed' :
              InsideOf(Doc, deploy, Info(u).conn, tasks'[u].claim.agent, tasks'[u].tenant)
      BY <2>2, <3>2, <3>3
    <3> QED
      BY <3>1, <3>4, Zenon DEF Inside
  <2> QED
    BY <2>3, <2>4, <2>5, <2>6, <2>8, Zenon DEF IInv
<1> QED
  BY <1>13, <1>14, Zenon

-----------------------------------------------------------------------------
(* The theorems *)

\* No Manager runs and no task is claimed at first.
LEMMA InitHolds == ASSUME Init PROVE IInv
<1>1. /\ site \in DOMAIN Deployments /\ remote = [rev |-> 1, doc |-> deploy.first, signed |-> TRUE]
      /\ cache = None /\ running = None /\ applied = {}
      /\ tasks = [t \in Tasks |-> Absent] /\ pass = IdlePass
  BY Zenon DEF Init
<1>2. remote \in Bundles
  <2>1. deploy.first \in DOMAIN Documents
    BY <1>1, DeploymentsAssumption DEF deploy
  <2>2. 1 \in Nat /\ TRUE \in BOOLEAN
    OBVIOUS
  <2> QED
    BY <1>1, <2>1, <2>2, Zenon DEF Bundles
<1>3. /\ IdlePass = [f \in PassFields |-> IdlePass[f]] /\ IdlePass.members \subseteq Agents
      /\ IdlePass.counted = {} /\ IdlePass.pc = "idle"
      /\ "idle" # "tasks" /\ "idle" \notin {"deliver", "tally"}
  BY DEF IdlePass, PassFields
<1>4. /\ tasks = [t \in Tasks |-> tasks[t]]
      /\ \A t \in Tasks : tasks[t] = [f \in TaskFields |-> tasks[t][f]]
  BY <1>1 DEF Absent, TaskFields
<1>5. Types
  BY <1>1, <1>2, <1>3, <1>4, FS_EmptySet, Zenon DEF Types
<1>6. Counted
  BY <1>1, <1>3, Zenon DEF Counted
<1> QED
  BY <1>1, <1>5, <1>6, Zenon DEF IInv, Revisions, Runs, Inside, Limits

\* Every step keeps the invariant.
LEMMA StepHolds == ASSUME IInv, [Next]_vars PROVE IInv'
<1>1. CASE Next
  <2>1. \/ Publish \/ Stop \/ (\E answers \in BOOLEAN : Start(answers))
        \/ (\E a \in Agents : Register(a) \/ Remove(a) \/ Weaken(a) \/ Heartbeat(a))
        \/ (\E t \in Tasks : Enqueue(t) \/ Report(t))
        \/ BeginPass \/ CountClaims \/ Deliver \/ Skip \/ Assign \/ Tally \/ EndPass
    BY <1>1, Zenon DEF Next, PassStep, Answers
  <2>2. Publish \/ (\E a \in Agents : Register(a) \/ Remove(a) \/ Weaken(a) \/ Heartbeat(a)) => IInv'
    BY FleetKeeps, Zenon
  <2>3. (\E answers \in BOOLEAN : Start(answers)) \/ Stop => IInv'
    BY StartKeeps, StopKeeps, Zenon
  <2>4. (\E t \in Tasks : Enqueue(t) \/ Report(t)) => IInv'
    BY QueueKeeps, Zenon
  <2>5. BeginPass \/ CountClaims \/ Deliver \/ Assign => IInv'
    BY BeginPassKeeps, CountClaimsKeeps, DeliverKeeps, AssignKeeps, Zenon
  <2>6. Skip \/ Tally \/ EndPass => IInv'
    BY MovesKeeps, Zenon
  <2> QED
    BY <2>1, <2>2, <2>3, <2>4, <2>5, <2>6, Zenon
<1>2. CASE UNCHANGED vars
  <2>1. UNCHANGED <<site, remote, cache, running, placement, tasks, pass, applied>>
    BY <1>2, Zenon DEF vars
  <2>2. remote' \in Bundles
    BY <2>1, Zenon DEF IInv, Types
  <2> QED
    BY <2>1, <2>2, OutsideKeeps, Zenon
<1> QED
  BY <1>1, <1>2, Zenon

\* The invariant gives the boundary of every claim.
LEMMA InsideMeans == ASSUME IInv PROVE ClaimsStayInside
  BY Zenon DEF IInv, Inside, InsideOf, ClaimsStayInside, ClaimPool

\* The invariant gives the limits, for the sets of all claims of a source, a dataset
\* and an Agent.
LEMMA LimitsMean == ASSUME IInv PROVE ClaimsWithinLimits
<1> SUFFICES ASSUME running # None, NEW t \in Claimed
             PROVE  LET source  == {u \in Claimed : Info(u).conn = Info(t).conn}
                        dataset == {u \in Claimed : ScopeOf(u) = ScopeOf(t)}
                        agent   == {u \in Claimed : tasks[u].claim.agent = tasks[t].claim.agent}
                        limits  == {TaskPolicy(u).sourceMax : u \in source}
                    IN /\ NoLimit \in limits \/ \E l \in limits : Cardinality(source) <= l
                       /\ TaskPolicy(t).max # NoLimit => Cardinality(dataset) <= TaskPolicy(t).max
                       /\ Cardinality(agent) <=
                             deploy.maxInflight * deploy.capacity[tasks[t].claim.agent]
  BY Zenon DEF ClaimsWithinLimits
<1> DEFINE source  == {u \in Claimed : Info(u).conn = Info(t).conn}
           dataset == {u \in Claimed : ScopeOf(u) = ScopeOf(t)}
           agent   == {u \in Claimed : tasks[u].claim.agent = tasks[t].claim.agent}
           limits  == {TaskPolicy(u).sourceMax : u \in source}
<1>1. SourceFits /\ DatasetFits /\ AgentFits
  BY Zenon DEF IInv, Limits
<1>2. /\ source \in SUBSET Claimed /\ dataset \in SUBSET Claimed /\ agent \in SUBSET Claimed
      /\ t \in source /\ t \in dataset /\ t \in agent
  OBVIOUS
<1>3. NoLimit \in limits \/ \E l \in limits : Cardinality(source) <= l
  <2>1. PICK u \in source : Fits(source, TaskPolicy(u).sourceMax)
    <3>1. source # {} /\ \A u, v \in source : Info(u).conn = Info(v).conn
      BY <1>2
    <3> HIDE DEF source
    <3> QED
      BY <1>1, <1>2, <3>1, Zenon DEF SourceFits
  <2>2. TaskPolicy(u).sourceMax \in limits
    BY <2>1
  <2> HIDE DEF limits
  <2> QED
    BY <2>1, <2>2, Zenon DEF Fits
<1>4. TaskPolicy(t).max # NoLimit => Cardinality(dataset) <= TaskPolicy(t).max
  <2>1. \A u \in dataset : ScopeOf(u) = ScopeOf(t)
    OBVIOUS
  <2> HIDE DEF dataset
  <2> QED
    BY <1>1, <1>2, <2>1, Zenon DEF DatasetFits, Fits
<1>5. Cardinality(agent) <= deploy.maxInflight * deploy.capacity[tasks[t].claim.agent]
  <2>1. \A u \in agent : tasks[u].claim.agent = tasks[t].claim.agent
    OBVIOUS
  <2> HIDE DEF agent
  <2> QED
    BY <1>1, <1>2, <2>1, Zenon DEF AgentFits
<1> QED
  BY <1>3, <1>4, <1>5, Zenon

\* Only a start brings up a bundle, and it is the latest.
LEMMA StartsForward ==
  ASSUME IInv, [Next]_vars, running' # None, running' # running
  PROVE  Verified(running') /\ \A b \in applied : b.rev < running'.rev \/ b = running'
<1>1. PICK answers \in BOOLEAN : Start(answers)
  <2>1. UNCHANGED vars => running' = running
    BY Zenon DEF vars
  <2>2. BeginPass \/ CountClaims \/ Deliver \/ Skip \/ Assign \/ Tally \/ EndPass => running' = running
    BY Zenon DEF BeginPass, CountClaims, Deliver, Skip, Assign, Claim, Tally, EndPass, policy
  <2>3. (\E t \in Tasks : Enqueue(t) \/ Report(t)) => running' = running
    BY Zenon DEF Enqueue, Report, policy
  <2>4. (\E a \in Agents : Register(a) \/ Remove(a) \/ Weaken(a) \/ Heartbeat(a)) => running' = running
    BY Zenon DEF Register, Remove, Weaken, Heartbeat, policy
  <2>5. Publish => running' = running
    BY Zenon DEF Publish
  <2>6. Stop => running' = None
    BY Zenon DEF Stop
  <2> QED
    BY <2>1, <2>2, <2>3, <2>4, <2>5, <2>6, Zenon DEF Next, PassStep, Answers
<1>2. Loadable(answers) /\ running' = Loaded(answers)
  BY <1>1, Zenon DEF Start
<1> QED
  BY <1>2, LoadedIsLatest, Zenon

\* The scheduler keeps the inductive invariant.
THEOREM DispatchSafe == Spec => []IInv
<1>1. Init => IInv
  BY InitHolds
<1>2. IInv /\ [Next]_vars => IInv'
  BY StepHolds
<1> QED
  BY <1>1, <1>2, PTL DEF Spec

\* A claimed task is with an Agent, a store and a tenant inside the boundary of its
\* connection (_placement_eligible, validate_dispatch, from_dict).
THEOREM ClaimsInside == Spec => []ClaimsStayInside
<1>1. IInv => ClaimsStayInside
  BY InsideMeans
<1> QED
  BY <1>1, DispatchSafe, PTL

\* The claims of a source, a dataset and an Agent are within their limits at any time,
\* not only while a pass counts them (dispatch_once, _eligible_agents).
THEOREM ClaimsBounded == Spec => []ClaimsWithinLimits
<1>1. IInv => ClaimsWithinLimits
  BY LimitsMean
<1> QED
  BY <1>1, DispatchSafe, PTL

\* A Manager starts on verified policy, never older than what was run before
\* (load_policy_bundle).
THEOREM PolicyForward == Spec => PolicyNeverRollsBack
<1>1. IInv /\ [Next]_vars =>
        [running' # None /\ running' # running =>
            Verified(running') /\ \A b \in applied : b.rev < running'.rev \/ b = running']_vars
  BY StartsForward, Zenon
<1> QED
  BY <1>1, DispatchSafe, PTL DEF Spec, PolicyNeverRollsBack
=============================================================================
