---------------------------- MODULE ControlPlane ----------------------------
(***************************************************************************)
(* The Manager control plane in high-availability mode: the leadership     *)
(* loop of every Manager (manager_app.py), the fleet registry it keeps in  *)
(* memory and in the lease record (registry.py), the dispatch thread that  *)
(* queues commands (task_scheduler.py), and the link of every Agent        *)
(* (agent_link.py) that registers, heartbeats and runs what it is sent.    *)
(*                                                                         *)
(* The lease is what LeaderLease promises: one live holder, a term that    *)
(* grows at every takeover, and state committed only by the holder in the  *)
(* current term.  Agents reach any Manager; a reply may be lost.           *)
(***************************************************************************)
EXTENDS Integers, Sequences, FiniteSets

CONSTANTS
    Managers, Nobody,
    Agents,
    Drain, Deliveries,      \* a drain command; <<task, claim>> deliveries of tasks
    MaxDone,                \* deliveries an Agent remembers (1024 in the code)
    PromptLoops,            \* TRUE: no Manager sleeps through another one's term
    MaxTerm, MaxLease, MaxDrains    \* bounds

ASSUME ControlPlaneAssumption ==
    /\ Nobody \notin Managers
    /\ Drain \notin Deliveries
    /\ MaxDone \in Nat \ {0}
    /\ PromptLoops \in BOOLEAN
    /\ {MaxTerm, MaxLease, MaxDrains} \subseteq Nat

VARIABLES
    term, holder,   \* the lease record: its fence, its live owner or Nobody
    durable,        \* the registry committed in the lease record
    leads,          \* the owner's LeaderLease.fence is the record's fence
    mem,            \* Registry._agents of each Manager
    attached,       \* Registry._durable_lease is set
    loop,           \* _leadership_loop: where it is, supervising, primary_ready
    last,           \* the Manager that took the lease last
    sched,          \* a dispatch loop is running
    claimed,        \* deliveries claimed so far
    disp,           \* a claimed delivery the dispatch thread is about to queue
    link,           \* AgentLink of each Agent
    hb,             \* a heartbeat of each Agent, past the leadership check
    leases,         \* lease ids given out so far
    acked,          \* <<Agent, lease id>> of registrations with an acknowledged drain
    runs            \* [Agent -> [Delivery -> times the current process ran it]]

lvars == <<term, holder, leads, last>>
mvars == <<durable, mem, attached, leases, acked>>
avars == <<link, hb, runs>>
vars == <<lvars, mvars, avars, loop, sched, disp, claimed>>

Commands == {Drain} \cup Deliveries

\* A queued command, with the registration it was queued for.
Queued == [cmd : Commands, lease : Nat]

Absent == [lease |-> 0, cmds |-> <<>>, draining |-> FALSE]

EmptyRegistry == [a \in Agents |-> Absent]

NoDispatch == [agent |-> Nobody, d |-> Nobody]

NewLink ==
    [lease |-> 0, inbox |-> <<>>, running |-> {}, stuck |-> {}, done |-> {}]

NoHeartbeat == [at |-> Nobody, lease |-> 0]

Init ==
    /\ term = 0 /\ holder = Nobody
    /\ durable = EmptyRegistry
    /\ leads = FALSE
    /\ last = Nobody
    /\ mem = [m \in Managers |-> EmptyRegistry]
    /\ attached = [m \in Managers |-> FALSE]
    /\ loop = [m \in Managers |-> [pc |-> "poll", up |-> FALSE, ready |-> FALSE]]
    /\ sched = [m \in Managers |-> FALSE]
    /\ disp = [m \in Managers |-> NoDispatch]
    /\ claimed = {}
    /\ link = [a \in Agents |-> NewLink]
    /\ hb = [a \in Agents |-> NoHeartbeat]
    /\ leases = 0
    /\ acked = {}
    /\ runs = [a \in Agents |-> [d \in Deliveries |-> 0]]

----------------------------------------------------------------------------
(* The lease, as validate() and mutate_state() see it *)

Valid(m) == holder = m /\ leads

\* _require_active_leader
Admits(m) == Valid(m) /\ loop[m].ready

\* The TTL passes without a renewal.
Lapse ==
    /\ holder # Nobody
    /\ term < MaxTerm
    /\ holder' = Nobody
    /\ leads' = FALSE
    /\ UNCHANGED <<term, last, mvars, avars, loop, sched, disp, claimed>>

\* A request finds the term stale, or the store failing: validate() gives it up.
LoseTerm(m) ==
    /\ Valid(m)
    /\ leads' = FALSE
    /\ UNCHANGED <<term, holder, last, mvars, avars, loop, sched, disp, claimed>>

----------------------------------------------------------------------------
(* _leadership_loop *)

\* Under PromptLoops only the last holder may still believe in its term.
NobodySlept ==
    \A n \in Managers : loop[n].up \/ loop[n].pc = "start" => last = n

Led(m) == IF loop[m].up THEN loop[m] ELSE [loop[m] EXCEPT !.pc = "attach", !.ready = FALSE]

PollTakes(m) ==
    /\ loop[m].pc = "poll"
    /\ holder = Nobody
    /\ term < MaxTerm
    /\ PromptLoops => NobodySlept
    /\ holder' = m
    /\ term' = term + 1
    /\ leads' = TRUE
    /\ last' = m
    /\ loop' = [loop EXCEPT ![m] = Led(m)]
    /\ UNCHANGED <<mvars, avars, sched, disp, claimed>>

PollRenews(m) ==
    /\ loop[m].pc = "poll"
    /\ holder = m
    /\ leads' = TRUE
    /\ loop' = [loop EXCEPT ![m] = Led(m)]
    /\ UNCHANGED <<term, holder, last, mvars, avars, sched, disp, claimed>>

\* Somebody else leads, or the store failed.
PollStandsBy(m) ==
    /\ loop[m].pc = "poll"
    /\ leads' = (leads /\ holder # m)
    /\ loop' = [loop EXCEPT ![m].ready = FALSE,
                            ![m].pc = IF loop[m].up THEN "down" ELSE "poll"]
    /\ UNCHANGED <<term, holder, last, mvars, avars, sched, disp, claimed>>

StepDown(m) ==
    /\ loop[m].pc = "down"
    /\ loop' = [loop EXCEPT ![m] = [pc |-> "poll", up |-> FALSE, ready |-> FALSE]]
    /\ sched' = [sched EXCEPT ![m] = FALSE]
    /\ attached' = [attached EXCEPT ![m] = FALSE]
    /\ UNCHANGED <<lvars, durable, mem, leases, acked, avars, disp, claimed>>

\* attach_durable_state: restore the committed registry, commit it in this term.
Attach(m) ==
    /\ loop[m].pc = "attach"
    /\ Valid(m)
    /\ attached' = [attached EXCEPT ![m] = TRUE]
    /\ mem' = [mem EXCEPT ![m] = durable]
    /\ loop' = [loop EXCEPT ![m].pc = "start"]
    /\ UNCHANGED <<lvars, durable, leases, acked, avars, sched, disp, claimed>>

\* Rolling state, work queue, scheduler and supervisors are up.
StartServices(m) ==
    /\ loop[m].pc = "start"
    /\ loop' = [loop EXCEPT ![m] = [pc |-> "poll", up |-> TRUE, ready |-> TRUE]]
    /\ sched' = [sched EXCEPT ![m] = TRUE]
    /\ UNCHANGED <<lvars, mvars, avars, disp, claimed>>

\* The failure path of the activation: detach, release.  A scheduler that was
\* started is not stopped; supervising stays set when only Open Mirror failed.
ActivationFails(m) ==
    /\ \/ /\ loop[m].pc = "attach"
          /\ mem' \in {mem, [mem EXCEPT ![m] = durable]}
          /\ UNCHANGED sched
          /\ loop' = [loop EXCEPT ![m].pc = "poll"]
       \/ /\ loop[m].pc = "start"
          /\ sched' \in {sched, [sched EXCEPT ![m] = TRUE]}
          /\ UNCHANGED mem
          /\ loop' = [loop EXCEPT ![m].pc = "poll"]
       \/ /\ loop[m].pc = "start"
          /\ sched' = [sched EXCEPT ![m] = TRUE]
          /\ UNCHANGED mem
          /\ loop' = [loop EXCEPT ![m] = [pc |-> "poll", up |-> TRUE, ready |-> FALSE]]
    /\ attached' = [attached EXCEPT ![m] = FALSE]
    /\ holder' \in {holder, IF Valid(m) THEN Nobody ELSE holder}
    /\ leads' = (leads /\ holder # m)
    /\ UNCHANGED <<term, last, durable, leases, acked, avars, disp, claimed>>

----------------------------------------------------------------------------
(* Registry operations.  Each changes memory and commits the result; when  *)
(* the commit raises, memory is restored.                                  *)

\* A commit that fails is not noticed.
PersistBestEffort(m, new) ==
    /\ mem' = [mem EXCEPT ![m] = new]
    /\ \/ UNCHANGED durable
       \/ attached[m] /\ Valid(m) /\ durable' = new

\* _persist_locked
Persist(m, new) ==
    /\ mem' = [mem EXCEPT ![m] = new]
    /\ \/ ~attached[m] /\ UNCHANGED durable
       \/ attached[m] /\ Valid(m) /\ durable' = new

\* The commit raises: the term is stale, or the store failed before or after
\* the swap.
PersistFails(m, new) ==
    /\ attached[m]
    /\ UNCHANGED <<mem, acked>>
    /\ \/ UNCHANGED durable
       \/ Valid(m) /\ durable' = new

\* Commands queued for the previous process are kept.
WithAgentKept(m, a) == [mem[m] EXCEPT ![a].lease = leases + 1]

\* A fresh lease and record; stale queued commands are cleared.
WithAgent(m, a) ==
    [mem[m] EXCEPT ![a] = [lease |-> leases + 1, cmds |-> <<>>, draining |-> FALSE]]

Register(a, m) ==
    /\ link[a].lease = 0 /\ link[a].inbox = <<>>
    /\ leases < MaxLease
    /\ Admits(m)
    /\ leases' = leases + 1
    /\ \/ /\ Persist(m, WithAgent(m, a))
          /\ \/ link' = [link EXCEPT ![a].lease = leases + 1]
             \/ UNCHANGED link                                  \* reply lost
          /\ UNCHANGED acked
       \/ PersistFails(m, WithAgent(m, a)) /\ UNCHANGED link
    /\ UNCHANGED <<lvars, attached, loop, sched, disp, claimed, hb, runs>>

\* heartbeat: the leadership check, in its own thread ...
HeartbeatCheck(a, m) ==
    /\ link[a].lease # 0 /\ link[a].inbox = <<>> /\ hb[a] = NoHeartbeat
    /\ Admits(m)
    /\ hb' = [hb EXCEPT ![a] = [at |-> m, lease |-> link[a].lease]]
    /\ UNCHANGED <<lvars, mvars, loop, sched, disp, claimed, link, runs>>

\* The process that sent the heartbeat is still there.
Awaits(a) == link[a].lease = hb[a].lease

\* ... then Registry.heartbeat: a stale lease is refused, otherwise the queued
\* commands leave the registry in the reply.
HeartbeatRefused(a) ==
    LET m == hb[a].at IN
    /\ m # Nobody
    /\ mem[m][a].lease # hb[a].lease
    /\ hb' = [hb EXCEPT ![a] = NoHeartbeat]
    /\ \/ Awaits(a) /\ link' = [link EXCEPT ![a].lease = 0]
       \/ UNCHANGED link                                        \* reply lost
    /\ UNCHANGED <<lvars, mvars, loop, sched, disp, claimed, runs>>

HeartbeatDelivers(a) ==
    LET m == hb[a].at IN
    /\ m # Nobody
    /\ mem[m][a].lease = hb[a].lease
    /\ \/ /\ Persist(m, [mem[m] EXCEPT ![a].cmds = <<>>])
          /\ \/ Awaits(a) /\ link' = [link EXCEPT ![a].inbox = mem[m][a].cmds]
             \/ UNCHANGED link                                  \* reply lost
          /\ UNCHANGED acked
       \/ /\ PersistFails(m, [mem[m] EXCEPT ![a].cmds = <<>>])
          /\ UNCHANGED link
    /\ hb' = [hb EXCEPT ![a] = NoHeartbeat]
    /\ UNCHANGED <<lvars, attached, leases, loop, sched, disp, claimed, runs>>

\* queue_command
WithCommand(m, a, c) ==
    [mem[m] EXCEPT ![a].cmds = Append(@, [cmd |-> c, lease |-> mem[m][a].lease]),
                   ![a].draining = @ \/ c = Drain]

\* The operator's drain.
QueueDrain(m, a) ==
    /\ Admits(m)
    /\ mem[m][a].lease # 0
    /\ Cardinality({i \in 1..Len(mem[m][a].cmds) : mem[m][a].cmds[i].cmd = Drain})
         < MaxDrains
    /\ \/ /\ Persist(m, WithCommand(m, a, Drain))
          /\ acked' = acked \cup {<<a, mem[m][a].lease>>}
       \/ PersistFails(m, WithCommand(m, a, Drain))
    /\ UNCHANGED <<lvars, attached, leases, loop, sched, disp, claimed, avars>>

\* The operator forgets, stops or restarts an Agent: Registry.remove.
Remove(m, a) ==
    /\ Admits(m)
    /\ mem[m][a].lease # 0
    /\ \/ Persist(m, [mem[m] EXCEPT ![a] = Absent]) /\ UNCHANGED acked
       \/ PersistFails(m, [mem[m] EXCEPT ![a] = Absent])
    /\ UNCHANGED <<lvars, attached, leases, loop, sched, disp, claimed, avars>>

----------------------------------------------------------------------------
(* dispatch_once: claim a task in the work queue, then queue its command.  *)

\* claim_task writes the claim, so the term must stand; the token is fresh.
DispatchClaim(m, a, d) ==
    /\ sched[m] /\ disp[m] = NoDispatch
    /\ d \notin claimed
    /\ Valid(m)
    /\ mem[m][a].lease # 0 /\ ~mem[m][a].draining
    /\ disp' = [disp EXCEPT ![m] = [agent |-> a, d |-> d]]
    /\ claimed' = claimed \cup {d}
    /\ UNCHANGED <<lvars, mvars, avars, loop, sched>>

\* queue_command.  When the Agent is gone the claim is released; when the
\* commit raises, the claim is left to expire.  The thread outlives the loop.
DispatchQueue(m) ==
    LET a == disp[m].agent
        new == WithCommand(m, a, disp[m].d)
    IN
    /\ disp[m] # NoDispatch
    /\ IF mem[m][a].lease = 0
       THEN UNCHANGED <<durable, mem, acked>>
       ELSE \/ Persist(m, new) /\ UNCHANGED acked
            \/ PersistFails(m, new)
    /\ disp' = [disp EXCEPT ![m] = NoDispatch]
    /\ UNCHANGED <<lvars, attached, leases, loop, sched, claimed, avars>>

----------------------------------------------------------------------------
(* The Agent process *)

\* _materialize_tasks is keyed by the task of a delivery <<task, claim>>.
Tasks(l) == {d[1] : d \in l.running \cup l.stuck}

\* Only a running task is known.
StartsUnlessRunning(l, d) == d[1] \notin Tasks(l)

\* A task that runs, under whatever claim, and a delivery that ran are skipped.
Starts(l, d) == d[1] \notin Tasks(l) /\ d \notin l.done

\* The commands of a reply that create a task: of those that would start it the
\* first, as the others find it in _materialize_tasks.
Created(l) ==
    LET starts == {i \in DOMAIN l.inbox : l.inbox[i].cmd # Drain /\ Starts(l, l.inbox[i].cmd)}
    IN  {i \in starts : \A j \in starts : l.inbox[j].cmd[1] = l.inbox[i].cmd[1] => i <= j}

\* A drain cancels every task.  One that was created by the same reply has not
\* had its first step: it never runs, and its finally clause, which would take
\* it out of _materialize_tasks, never runs either.
Cancelled(l, i) == \E j \in DOMAIN l.inbox : i < j /\ l.inbox[j].cmd = Drain

Stuck(l) == {l.inbox[i].cmd : i \in {i \in Created(l) : Cancelled(l, i)}}
Begun(l) == {l.inbox[i].cmd : i \in {i \in Created(l) : ~Cancelled(l, i)}}

\* _loop handles the commands of one reply without giving up the event loop;
\* the tasks they created start when it does.
HandleCommands(a) ==
    /\ link[a].inbox # <<>>
    /\ link' = [link EXCEPT ![a].inbox = <<>>,
                            ![a].running = @ \cup Begun(link[a]),
                            ![a].stuck = @ \cup Stuck(link[a])]
    /\ runs' = [runs EXCEPT ![a] =
                  [d \in Deliveries |-> IF d \in Begun(link[a]) THEN @[d] + 1 ELSE @[d]]]
    /\ UNCHANGED <<lvars, mvars, loop, sched, disp, claimed, hb>>

\* The end of _run_materialize, cancelled by a drain or not.
Remember(done, d) ==
    IF Cardinality(done) < MaxDone THEN {done \cup {d}}
    ELSE {(done \ {old}) \cup {d} : old \in done}

FinishTask(a, d) ==
    /\ d \in link[a].running
    /\ \E done \in Remember(link[a].done, d) :
         link' = [link EXCEPT ![a].running = @ \ {d}, ![a].done = done]
    /\ UNCHANGED <<lvars, mvars, loop, sched, disp, claimed, hb, runs>>

\* The process dies and is started anew.
RestartAgent(a) ==
    /\ link[a] # NewLink
    /\ link' = [link EXCEPT ![a] = NewLink]
    /\ runs' = [runs EXCEPT ![a] = [d \in Deliveries |-> 0]]
    /\ UNCHANGED <<lvars, mvars, loop, sched, disp, claimed, hb>>

----------------------------------------------------------------------------

Poll(m) == PollTakes(m) \/ PollRenews(m) \/ PollStandsBy(m)

Next ==
    \/ Lapse
    \/ \E m \in Managers :
         \/ LoseTerm(m) \/ Poll(m) \/ StepDown(m)
         \/ Attach(m) \/ StartServices(m) \/ ActivationFails(m)
         \/ DispatchQueue(m)
         \/ \E a \in Agents : \/ QueueDrain(m, a) \/ Remove(m, a)
                              \/ Register(a, m) \/ HeartbeatCheck(a, m)
                              \/ \E d \in Deliveries : DispatchClaim(m, a, d)
    \/ \E a \in Agents :
         \/ HeartbeatRefused(a) \/ HeartbeatDelivers(a)
         \/ HandleCommands(a) \/ RestartAgent(a)
         \/ \E d \in Deliveries : FinishTask(a, d)

Spec == Init /\ [][Next]_vars

----------------------------------------------------------------------------
(* Properties *)

Registries == [Agents -> [lease : Nat, cmds : Seq(Queued), draining : BOOLEAN]]

\* Every variable has the type its Python counterpart has.
TypeOK ==
    /\ term \in Nat /\ holder \in Managers \cup {Nobody}
    /\ durable \in Registries
    /\ leads \in BOOLEAN /\ last \in Managers \cup {Nobody}
    /\ mem \in [Managers -> Registries]
    /\ attached \in [Managers -> BOOLEAN]
    /\ loop \in [Managers -> [pc : {"poll", "attach", "start", "down"},
                              up : BOOLEAN, ready : BOOLEAN]]
    /\ sched \in [Managers -> BOOLEAN]
    /\ disp \in [Managers -> {NoDispatch} \cup [agent : Agents, d : Deliveries]]
    /\ link \in [Agents -> [lease : Nat, inbox : Seq(Queued),
                            running : SUBSET Deliveries, stuck : SUBSET Deliveries,
                            done : SUBSET Deliveries]]
    /\ hb \in [Agents -> [at : Managers \cup {Nobody}, lease : Nat]]
    /\ leases \in Nat
    /\ acked \subseteq Agents \X Nat
    /\ claimed \subseteq Deliveries
    /\ runs \in [Agents -> [Deliveries -> Nat]]

\* A drain the operator was told is queued stays in the committed registry for
\* as long as the registration it was for: a takeover, a failed commit of some
\* other change, or a heartbeat does not bring the Agent back into service.
AckedDrainHolds ==
    \A a \in Agents : <<a, durable[a].lease>> \in acked => durable[a].draining

\* One process never runs the same delivery twice, although a command can
\* reach it twice: a heartbeat answered by a Manager that has just detached its
\* registry leaves the command in the committed one for the next primary.
RunsOnce == \A a \in Agents, d \in Deliveries : runs[a][d] <= 1

\* A command is handled only under the registration it was queued for: what
\* was queued for a process that died is not run by its successor.
CommandsStayWithLease ==
    \A a \in Agents : \A i \in 1..Len(link[a].inbox) :
      link[a].inbox[i].lease = link[a].lease
=============================================================================
