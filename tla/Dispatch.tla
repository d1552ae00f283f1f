----------------------------- MODULE Dispatch -----------------------------
(***************************************************************************)
(* The Manager's materialization scheduler under a placement policy        *)
(* (enterprise/control/task_scheduler.py, policy_bundle.py, registry.py):  *)
(* how a Manager comes to run a policy revision, which Agents it registers *)
(* under it, and which Agent it gives each queued task to.                 *)
(*                                                                         *)
(* One generation of tasks is at work.  A claim keeps the Agent, the       *)
(* Agent's registration (lease) and its membership fence.  A dispatch pass *)
(* reconciles the membership, counts the claims and then handles the       *)
(* runnable tasks one by one, while Agents register, leave, die and report *)
(* between its steps.                                                      *)
(***************************************************************************)
EXTENDS Placement

CONSTANTS Agents, Tasks,
          Documents,    \* name -> placement document
          Deployments   \* name -> store, Agents, tasks and limits of a deployment

\* Published documents are known, an Agent's capacity and the inflight limit are at
\* least 1 (_eligible_agents), and the tasks are queued in some order.
ASSUME DeploymentsAssumption ==
    \A n \in DOMAIN Deployments :
        LET d == Deployments[n]
        IN /\ d.maxInflight \in Nat \ {0} /\ d.maxRev \in Nat
           /\ \A a \in Agents : d.capacity[a] \in Nat \ {0}
           /\ {d.first} \cup d.docs \subseteq DOMAIN Documents
           /\ d.order \in Seq(Tasks)

\* What _policy makes of a definition: limits are numbers, fallback pools a list.
ASSUME PoliciesAssumption ==
    \A n \in DOMAIN Deployments, doc \in DOMAIN Documents :
        \A t \in Range(Deployments[n].order) :
            LET i == Deployments[n].tasks[t]
                p == PolicyFor(Documents[doc], i.conn, i.table)
            IN p.max \in Nat /\ p.sourceMax \in Nat /\ p.fallbacks \in Seq(STRING)

\* A bundle is not the absence of one.
Bundles == [rev : Nat, doc : DOMAIN Documents, signed : BOOLEAN]
ASSUME NoneAssumption == None \notin Bundles

VARIABLES
    site,       \* the deployment (Deployments) at work
    events,     \* how often each outside event may still happen
    remote,     \* the published bundle: revision, document, whether its signature holds
    cache,      \* the last-known-good bundle on disk, None before the first
    running,    \* the bundle the live Manager runs, None while it is down
    placement,  \* task -> Verdict under the bundle it runs
    reg,        \* agent -> registration (lease, alive, draining) or None; an
                \* earlier term may have left some
    leases,     \* registrations issued so far
    members,    \* agent -> membership of the generation (lease, fence, active) or None
    tasks,      \* task -> state, recorded tenant, claim
    pass,       \* the dispatch pass in progress
    applied     \* history: the bundles some Manager has run

vars == <<site, events, remote, cache, running, placement, reg, leases, members, tasks,
          pass, applied>>
policy == <<remote, cache, running, placement, applied>>
fleet == <<reg, leases>>

Event(kind) == events[kind] > 0 /\ events' = [events EXCEPT ![kind] = @ - 1]

deploy == Deployments[site]
Doc == Documents[running.doc]
Info(t) == deploy.tasks[t]
Known == Range(deploy.order)
Claimed == {t \in Known : tasks[t].state = "claimed"}

\* The policy of a task under a document, and whether it may be dispatched at all:
\* policy_for and validate_dispatch, which only read the placement in force.
Verdict(doc, t) ==
    LET p == PolicyFor(doc, Info(t).conn, Info(t).table)
    IN [policy |-> p, valid |-> ValidDispatch(doc, p, Info(t).conn, deploy.store)]
TaskPolicy(t) == placement[t].policy

IdlePass == [pc |-> "idle", todo |-> << >>, members |-> {}, counted |-> {}, pooled |-> {},
             pick |-> None]
Absent == [state |-> "absent", tenant |-> "", claim |-> None]
Unclaimed(tk) == [tk EXCEPT !.state = "queued", !.claim = None]

Init ==
    /\ site \in DOMAIN Deployments
    /\ events = deploy.events
    /\ remote = [rev |-> 1, doc |-> deploy.first, signed |-> TRUE]
    /\ cache = None /\ running = None /\ placement = << >> /\ applied = {}
    /\ leases = 1
    /\ reg = [a \in Agents |-> IF a \in deploy.joined
                               THEN [lease |-> 1, alive |-> TRUE, draining |-> FALSE] ELSE None]
    /\ members = [a \in Agents |-> None]
    /\ tasks = [t \in Tasks |-> Absent]
    /\ pass = IdlePass

-----------------------------------------------------------------------------
(* The policy bundle and the life of the Manager. *)

\* The policy owner publishes a bundle, possibly one of an older revision or one
\* that the Managers' public key does not verify.
Publish ==
    /\ Event("publish")
    /\ \E rev \in 1 .. deploy.maxRev, doc \in deploy.docs, signed \in BOOLEAN :
          remote' = [rev |-> rev, doc |-> doc, signed |-> signed]
    /\ remote' # remote
    /\ UNCHANGED <<site, cache, running, placement, fleet, members, tasks, pass, applied>>

\* verify_policy_bundle: the envelope, its key and its signature.
Verified(bundle) == bundle.signed

\* _fetch_bundle: the endpoint answers, or counts as unavailable; any other answer
\* ends the start.
Answers == BOOLEAN

\* load_policy_bundle: an unavailable endpoint falls back to the cache; a bundle that
\* does not verify, is older than the cache, or has its revision and other content,
\* is refused.
LoadableAnyRevision(answers) ==
    IF answers THEN Verified(remote) /\ (cache # None /\ remote.rev = cache.rev => remote = cache)
               ELSE cache # None

Loadable(answers) ==
    IF answers
    THEN Verified(remote) /\ (cache # None => remote.rev > cache.rev \/ remote = cache)
    ELSE cache # None

Loaded(answers) == IF answers THEN remote ELSE cache

\* _restore_locked: the durable registry under the new placement; an Agent whose
\* release the placement no longer supports is dropped.
Restore(doc) ==
    [a \in Agents |-> IF reg[a] # None /\ VersionOk(doc, a, deploy.release[a])
                      THEN reg[a] ELSE None]

\* create_manager_app to _start_scheduler: load and cache the bundle, bind it to
\* this Manager's store and Agent tokens, restore the registry and release the claims of the
\* earlier term.  A bundle that does not bind is already in the cache.
Start(answers) ==
    /\ running = None
    /\ Loadable(answers)
    /\ Accepted(Documents[Loaded(answers).doc])
    /\ cache' = Loaded(answers)
    /\ IF /\ Bound(Documents[Loaded(answers).doc], deploy.store, deploy.provider)
          /\ IdentityTokensOk(Documents[Loaded(answers).doc], deploy.tokens, {"shared"})
       THEN /\ running' = Loaded(answers)
            /\ placement' = [t \in Known |-> Verdict(Documents[Loaded(answers).doc], t)]
            /\ applied' = applied \cup {Loaded(answers)}
            /\ reg' = Restore(Documents[Loaded(answers).doc])
            /\ tasks' = [t \in Tasks |-> IF t \in Claimed THEN Unclaimed(tasks[t]) ELSE tasks[t]]
       ELSE /\ cache' # cache
            /\ UNCHANGED <<running, placement, applied, reg, tasks>>
    /\ UNCHANGED <<site, events, remote, leases, members, pass>>

\* The Manager stops or dies at any point of a pass.
Stop ==
    /\ running # None
    /\ Event("stop")
    /\ running' = None /\ placement' = << >>
    /\ pass' = IdlePass
    /\ UNCHANGED <<site, remote, cache, fleet, members, tasks, applied>>

-----------------------------------------------------------------------------
(* Agents. *)

\* register: a new lease; a release outside the Agent's ring is refused.
Register(a) ==
    /\ running # None
    /\ a \in deploy.agents
    /\ IF reg[a] = None THEN UNCHANGED events ELSE Event("rejoin")
    /\ VersionOk(Doc, a, deploy.release[a])
    /\ leases < deploy.maxLeases
    /\ leases' = leases + 1
    /\ reg' = [reg EXCEPT ![a] = [lease |-> leases + 1, alive |-> TRUE, draining |-> FALSE]]
    /\ UNCHANGED <<site, policy, members, tasks, pass>>

\* remove: the operator takes the Agent out of the registry.
Remove(a) ==
    /\ running # None /\ reg[a] # None
    /\ Event("remove")
    /\ reg' = [reg EXCEPT ![a] = None]
    /\ UNCHANGED <<site, policy, leases, members, tasks, pass>>

\* Heartbeats stop until the Agent counts as dead, or a drain is commanded.
Weaken(a) ==
    /\ running # None /\ reg[a] # None
    /\ Event("weaken")
    /\ \E field \in {"alive", "draining"} :
          reg' = [reg EXCEPT ![a][field] = field = "draining"]
    /\ reg' # reg
    /\ UNCHANGED <<site, policy, leases, members, tasks, pass>>

\* heartbeat: the Agent is alive again under the same lease.
Heartbeat(a) ==
    /\ running # None /\ reg[a] # None
    /\ ~reg[a].alive
    /\ reg' = [reg EXCEPT ![a].alive = TRUE]
    /\ UNCHANGED <<site, events, policy, leases, members, tasks, pass>>

\* A request for a table that may be dispatched becomes its tasks; each records
\* the tenant of the dataset.
Enqueue(t) ==
    /\ running # None
    /\ t \in Known /\ tasks[t].state = "absent"
    /\ placement[t].valid
    /\ tasks' = [u \in Tasks |->
          IF u \in Known /\ Info(u).table = Info(t).table
          THEN [state |-> "queued", tenant |-> TaskPolicy(t).tenant, claim |-> None]
          ELSE tasks[u]]
    /\ UNCHANGED <<site, events, policy, fleet, members, pass>>

\* The Agent reports a result under its claim, or a failure that requeues it.
Report(t) ==
    /\ running # None
    /\ t \in Claimed
    /\ \/ tasks' = [tasks EXCEPT ![t].state = "done", ![t].claim = None] /\ UNCHANGED events
       \/ tasks' = [tasks EXCEPT ![t] = Unclaimed(@)] /\ Event("fail")
    /\ UNCHANGED <<site, policy, fleet, members, pass>>

-----------------------------------------------------------------------------
(* A dispatch pass. *)

\* validate_task_tenant
TaskTenantOk(t) ==
    IF Doc.tenants = {} THEN tasks[t].tenant = ""
    ELSE tasks[t].tenant # "" /\ tasks[t].tenant = TaskPolicy(t).tenant

Admitted(t) == TaskTenantOk(t) /\ placement[t].valid

Worker(a) == reg[a] # None /\ reg[a].alive /\ ~reg[a].draining /\ a \in deploy.materializers

ScopeOf(t) == IF <<Info(t).conn, Info(t).table>> \in DOMAIN Doc.tables
              THEN <<Info(t).conn, Info(t).table>> ELSE <<Info(t).conn, "">>

Reaches(n, limit) == limit # NoLimit /\ n >= limit

\* The source and the dataset of a task are at their limits.
QuotaFullPerTable(t, counted) ==
    \/ Reaches(Cardinality({c \in counted : Info(c[1]) = Info(t)}), TaskPolicy(t).sourceMax)
    \/ Reaches(Cardinality({c \in counted : ScopeOf(c[1]) = ScopeOf(t)}), TaskPolicy(t).max)

QuotaFull(t, counted) ==
    \/ Reaches(Cardinality({c \in counted : Info(c[1]).conn = Info(t).conn}),
               TaskPolicy(t).sourceMax)
    \/ Reaches(Cardinality({c \in counted : ScopeOf(c[1]) = ScopeOf(t)}), TaskPolicy(t).max)

Pinned(p) == p.required # "" \/ p.location # "" \/ p.profile # "" \/ p.fallbacks # << >>

\* The Agent may run the task for one target pool ("" is any pool).
Matches(a, t, target, pooled) ==
    LET p == TaskPolicy(t) i == PoolOf(Doc, a)
    IN /\ Pinned(p) => deploy.pinnable[a]
       /\ i # "" /\ target \in {"", i}
       /\ Allows(Doc.pools[i], Info(t).conn, Info(t).table)
       /\ p.location # "" => Doc.pools[i].location = p.location
       /\ p.profile # "" => Doc.pools[i].profile = p.profile
       /\ ~Reaches(Cardinality({c \in pooled : c[2] = i}), Doc.pools[i].max)

\* The first target pool with an Agent for the task decides; without targets, any.
FirstTarget(cands, t, pooled) ==
    LET targets == Targets(TaskPolicy(t))
        at(i) == {a \in cands : Matches(a, t, targets[i], pooled)}
    IN IF targets = << >> THEN {a \in cands : Matches(a, t, "", pooled)}
       ELSE UNION {at(i) : i \in {j \in DOMAIN targets : \A k \in 1 .. j - 1 : at(k) = {}}}

\* _placement_eligible
PlacementEligible(cands, t, counted, pooled) ==
    LET tenants == {a \in cands : PoolOf(Doc, a) # "" /\
                                  Doc.pools[PoolOf(Doc, a)].tenant = tasks[t].tenant}
        allowed == IF Doc.tenants # {} THEN tenants ELSE cands
    IN IF ~Admitted(t) THEN {}
       ELSE IF ~Enabled(Doc) THEN allowed
       ELSE IF QuotaFull(t, counted) THEN {}
       ELSE FirstTarget(allowed, t, pooled)

InflightLimit(t, a) ==
    IF Info(t).shard # None THEN 1 ELSE deploy.maxInflight * deploy.capacity[a]

\* _eligible_agents: alive, a member, not draining, the owner of the task's read
\* point, and below its limit of claims.
EligibleAgents(t, active, counted) ==
    {a \in active :
        /\ Worker(a)
        /\ Info(t).shard # None => deploy.shard[a] = Info(t).shard
        /\ Cardinality({c \in counted : c[2] = a}) < InflightLimit(t, a)}

\* The workers that may run some unfinished task of the generation, limits aside.
GenerationWorkers ==
    {a \in Agents : Worker(a) /\ \E t \in Known :
        tasks[t].state \in {"queued", "claimed"} /\ PlacementEligible({a}, t, {}, {}) # {}}

\* reconcile_membership: a fixed membership admits nobody after the first pass;
\* a departure, a rejoin and a new lease each raise the worker's fence.
Reconciled(now) ==
    LET fresh == \A a \in Agents : members[a] = None
    IN [a \in Agents |->
          IF members[a] = None
          THEN IF a \in now /\ (fresh \/ deploy.elastic)
               THEN [lease |-> reg[a].lease, fence |-> 1, active |-> TRUE] ELSE None
          ELSE IF a \notin now
          THEN [members[a] EXCEPT !.active = FALSE, !.fence = IF members[a].active THEN @ + 1 ELSE @]
          ELSE IF members[a].active /\ members[a].lease = reg[a].lease THEN members[a]
          ELSE [lease |-> reg[a].lease, fence |-> members[a].fence + 1, active |-> TRUE]]

\* reassign_fenced_claims: a claim stays with the worker that holds it now.
HeldByMember(claim, ms) ==
    /\ ms[claim.agent] # None /\ ms[claim.agent].active
    /\ ms[claim.agent].lease = claim.lease /\ ms[claim.agent].fence = claim.fence

\* The first part of dispatch_once: expired claims, membership, reassigned claims.
BeginPass ==
    /\ running # None /\ pass.pc = "idle"
    /\ \E t \in Known : tasks[t].state \in {"queued", "claimed"}
    /\ \E now \in {GenerationWorkers} : members' = Reconciled(now)
    /\ \E expired \in SUBSET Claimed :
          /\ IF expired = {} THEN UNCHANGED events ELSE Event("expire")
          /\ tasks' = [t \in Tasks |->
                IF t \in expired \/ (t \in Claimed /\ ~HeldByMember(tasks[t].claim, members'))
                THEN Unclaimed(tasks[t]) ELSE tasks[t]]
    /\ pass' = [IdlePass EXCEPT !.pc = "count",
                    !.members = {a \in Agents : members'[a] # None /\ members'[a].active}]
    /\ UNCHANGED <<site, policy, fleet>>

\* Counts the claims; a pool's count leaves out an Agent that has just left.
CountClaims ==
    /\ pass.pc = "count"
    /\ pass' = [pass EXCEPT
          !.pc = "tasks",
          !.todo = SelectSeq(deploy.order, LAMBDA t : tasks[t].state = "queued"),
          !.counted = {<<t, tasks[t].claim.agent>> : t \in Claimed},
          !.pooled = {<<t, PoolOf(Doc, tasks[t].claim.agent)>> :
                        t \in {u \in Claimed : reg[tasks[u].claim.agent] # None}}]
    /\ UNCHANGED <<site, events, policy, fleet, members, tasks>>

Candidates(t) ==
    PlacementEligible(EligibleAgents(t, pass.members, pass.counted), t, pass.counted, pass.pooled)

\* No eligible Agent, or the placement refuses the task: it stays queued.
Skip ==
    /\ pass.pc = "tasks" /\ pass.todo # << >>
    /\ Candidates(Head(pass.todo)) = {}
    /\ pass' = [pass EXCEPT !.todo = Tail(@)]
    /\ UNCHANGED <<site, events, policy, fleet, members, tasks>>

\* claim_task, with the lease the Agent has now and its fence of this pass.
Claim(t, a) ==
    /\ tasks[t].state = "queued"
    /\ tasks' = [tasks EXCEPT ![t].state = "claimed",
                     ![t].claim = [agent |-> a, lease |-> reg[a].lease, fence |-> members[a].fence]]
    /\ pass' = [pass EXCEPT !.pc = "deliver", !.pick = <<t, a>>, !.todo = Tail(@)]
    /\ UNCHANGED <<site, events, policy, fleet, members>>

\* One of the eligible Agents gets the task: the loads they report decide which.
Assign ==
    /\ pass.pc = "tasks" /\ pass.todo # << >>
    /\ \E a \in Candidates(Head(pass.todo)) : Claim(Head(pass.todo), a)

\* queue_command: an Agent that has left gives the claim back.
Deliver ==
    /\ pass.pc = "deliver"
    /\ LET t == pass.pick[1]
       IN IF reg[pass.pick[2]] = None
          THEN /\ tasks' = IF t \in Claimed THEN [tasks EXCEPT ![t] = Unclaimed(@)] ELSE tasks
               /\ pass' = [pass EXCEPT !.pc = "tasks", !.pick = None]
          ELSE pass' = [pass EXCEPT !.pc = "tally"] /\ UNCHANGED tasks
    /\ UNCHANGED <<site, events, policy, fleet, members>>

\* The counters of a delivered claim; the pool's only while the Agent is there.
Tally ==
    /\ pass.pc = "tally"
    /\ pass' = [pass EXCEPT !.pc = "tasks", !.pick = None, !.counted = @ \cup {pass.pick},
          !.pooled = IF reg[pass.pick[2]] = None THEN @
                     ELSE @ \cup {<<pass.pick[1], PoolOf(Doc, pass.pick[2])>>}]
    /\ UNCHANGED <<site, events, policy, fleet, members, tasks>>

EndPass ==
    /\ pass.pc = "tasks" /\ pass.todo = << >>
    /\ pass' = IdlePass
    /\ UNCHANGED <<site, events, policy, fleet, members, tasks>>

PassStep ==
    \/ BeginPass \/ CountClaims \/ Deliver \/ Skip \/ Assign
    \/ Tally \/ EndPass

Next ==
    \/ Publish \/ Stop
    \/ \E answers \in Answers : Start(answers)
    \/ \E a \in Agents : Register(a) \/ Remove(a) \/ Weaken(a) \/ Heartbeat(a)
    \/ \E t \in Tasks : Enqueue(t) \/ Report(t)
    \/ PassStep

Spec == Init /\ [][Next]_vars

-----------------------------------------------------------------------------
(* Properties. *)

TypeOK ==
    /\ site \in DOMAIN Deployments
    /\ cache = None \/ (cache.rev \in Nat /\ Accepted(Documents[cache.doc]))
    /\ running = None \/ running \in applied
    /\ \A a \in Agents : reg[a] = None \/ reg[a].lease \in 1 .. leases
    /\ \A t \in Tasks : /\ tasks[t].state \in {"absent", "queued", "claimed", "done"}
                        /\ tasks[t].state = "claimed" <=> tasks[t].claim # None
    /\ pass.pc \in {"idle", "count", "tasks", "deliver", "tally"}
    /\ running = None => pass = IdlePass

ClaimPool(t) == PoolOf(Doc, tasks[t].claim.agent)

\* Whatever a table overrides and whichever revision was loaded since, a claimed
\* task of a connection with a residency boundary is with an Agent of a pool inside
\* that boundary, and is staged in the Manager's own store, inside it as well.  It
\* is with an Agent of the tenant it was requested for, which is still the tenant of
\* its connection; a task with a tenant never runs untenanted.
ClaimsStayInside ==
    running # None => \A t \in Claimed :
        LET rule == ConnectionPolicy(Doc, Info(t).conn)
        IN  /\ rule.residency # {} =>
                  /\ ClaimPool(t) # "" /\ Doc.pools[ClaimPool(t)].location \in rule.residency
                  /\ Doc.pools[ClaimPool(t)].profile = deploy.store
                  /\ Doc.stores[deploy.store].location \in rule.residency
            /\ tasks[t].tenant = rule.tenant
            /\ rule.tenant # "" =>
                  ClaimPool(t) # "" /\ Doc.pools[ClaimPool(t)].tenant = rule.tenant

\* Over passes, departures and reports in between: the claims of one source stay
\* within the largest source limit among their tables, those of one dataset within
\* its limit, and those of one Agent within its inflight limit.
ClaimsWithinLimits ==
    running # None => \A t \in Claimed :
        LET source  == {u \in Claimed : Info(u).conn = Info(t).conn}
            dataset == {u \in Claimed : ScopeOf(u) = ScopeOf(t)}
            agent   == {u \in Claimed : tasks[u].claim.agent = tasks[t].claim.agent}
            limits  == {TaskPolicy(u).sourceMax : u \in source}
        IN /\ NoLimit \in limits \/ \E l \in limits : Cardinality(source) <= l
           /\ TaskPolicy(t).max # NoLimit => Cardinality(dataset) <= TaskPolicy(t).max
           /\ Cardinality(agent) <= deploy.maxInflight * deploy.capacity[tasks[t].claim.agent]

\* A Manager never starts on a policy that does not verify, on an older revision than
\* one already run, nor on other content under the same revision, whatever the endpoint
\* offers and whether or not it answers.
PolicyNeverRollsBack ==
    [][running' # None /\ running' # running =>
          Verified(running') /\ \A b \in applied : b.rev < running'.rev \/ b = running']_vars
=============================================================================
