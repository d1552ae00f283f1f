-------------------------------- MODULE Fleet --------------------------------
(***************************************************************************)
(* The supervised fleet of one Manager (enterprise/control/supervisor.py,  *)
(* rolling.py, admin.py, manager_app.py): supervisors that spawn, watch,   *)
(* restart and stop Agent processes, and the tasks of the Manager's event  *)
(* loop that use them: the operator's start, stop and restart, the rolling *)
(* restart, live scaling, shutdown, and the leadership loop, which starts  *)
(* the fleet when it wins the lease and stops it when it loses it.         *)
(*                                                                         *)
(* A task runs alone between two awaits, so an action is the code between  *)
(* two awaits.  stop() has three: it awaits the cancelled watch task, then *)
(* a thread that ends the process, and only then clears _proc.  start()    *)
(* has none.  Time is left out: a wait may end at any moment, and the      *)
(* restarts that still count as rapid are any number up to all of them.    *)
(***************************************************************************)
EXTENDS Naturals, Sequences, FiniteSets

CONSTANTS
    Operators,      \* requests of the console that may be in flight at once
    AgentCount,     \* AGENT_COUNT: supervisors built at start-up
    Targets,        \* the fleet sizes an operator may ask for
    MaxRapid,       \* max_rapid_restarts
    MaxSups,        \* bound: supervisor objects ever built
    MaxProcs,       \* bound: processes ever spawned
    MaxOps,         \* bound: operator requests
    MaxTerms        \* bound: times the Manager wins the lease

ASSUME FleetAssumption ==
    /\ "loop" \notin Operators
    /\ Targets \subseteq Nat \ {0}
    /\ {AgentCount, MaxRapid, MaxSups, MaxProcs} \subseteq Nat \ {0}
    /\ {MaxOps, MaxTerms} \subseteq Nat
    /\ AgentCount <= MaxSups

VARIABLES
    supervisors,    \* the Manager's list, in order
    sup,            \* the supervisor objects
    proc, watch,    \* Agent processes; watch tasks, named by the first process
    task,           \* what each task of the event loop is doing
    scaleLock,      \* the holder of _scale_lock, or "none"
    rotation,       \* the Agents the gateway routes to: registered, heartbeat fresh
    leader, terms,  \* the lease is held and valid; how often it was won
    supervising, primaryReady, attached,    \* the leadership loop's fields
    rolling,        \* the durable record of the rolling restart
    exiting, ops,
    overlap,        \* history: supervisors two tasks were stopping at once
    crossed         \* history: a task stopped or started while another was at work

vars == <<supervisors, sup, proc, watch, task, scaleLock, rotation, leader, terms,
          supervising, primaryReady, attached, rolling, exiting, ops, overlap,
          crossed>>

history == <<overlap, crossed>>
machine == <<sup, proc, watch>>
lead    == <<leader, terms, supervising, primaryReady, attached>>
fleet   == <<supervisors, scaleLock>>
other   == <<rotation, rolling, exiting, ops>>
-----------------------------------------------------------------------------
(* Supervisors, processes, tasks *)

Sups  == 1 .. MaxSups
Procs == 1 .. MaxProcs
Tasks == Operators \cup {"loop"}

NoSup  == [name |-> 0, running |-> FALSE, proc |-> 0, watch |-> 0,
           looped |-> FALSE, recent |-> 0]
NewSup(name) == [NoSup EXCEPT !.name = name]
NoProc == [sup |-> 0, rc |-> "unborn"]
Idle   == [op |-> "none", pc |-> "idle", o |-> 0, p |-> 0, i |-> 0, n |-> 0]

Alive(p)   == p # 0 /\ proc[p].rc = "alive"
IsAlive(o) == Alive(sup[o].proc)
Watched(w) == w # 0 /\ watch[w].pc # "done"

Built    == {o \in Sups : sup[o].name # 0}
Spawned  == {p \in Procs : proc[p].rc # "unborn"}
Stopping(o) == {t \in Tasks : task[t].o = o /\ task[t].pc \in {"await", "kill", "killed"}}

Busy        == {t \in Tasks : task[t].pc # "idle"}

\* The server left its event loop, and the tasks with it.
Down == exiting /\ ~supervising

Machine == [sup |-> sup, proc |-> proc, watch |-> watch]

Becomes(m) == sup' = m.sup /\ proc' = m.proc /\ watch' = m.watch

\* The process number m's next spawn gets, and whether the bound allows it.
NextProc(m) == Cardinality({p \in Procs : m.proc[p].rc # "unborn"}) + 1

Spawn(m, o) ==
    [m EXCEPT !.proc[NextProc(m)] = [sup |-> o, rc |-> "alive"],
              !.sup[o].proc = NextProc(m)]

StartUnwatched(m, o) ==
    IF m.sup[o].running
    THEN m
    ELSE [Spawn(m, o) EXCEPT !.sup[o].running = TRUE, !.sup[o].looped = FALSE]

Start(m, o) ==
    IF m.sup[o].running
    THEN m
    ELSE [Spawn(m, o) EXCEPT !.sup[o].running = TRUE,
                             !.sup[o].looped = FALSE,
                             !.sup[o].watch = NextProc(m),
                             !.watch[NextProc(m)] = [sup |-> o, pc |-> "poll"]]

StartAll(m, os) ==
    LET start[i \in 0 .. Len(os)] == IF i = 0 THEN m ELSE Start(start[i - 1], os[i])
    IN  start[Len(os)]

\* The first part of stop(): _running goes down and a live watch is cancelled.
Cancel(m, o) ==
    [m EXCEPT !.sup[o].running = FALSE,
              !.watch = [w \in Procs |-> IF w = m.sup[o].watch
                                         THEN [@[w] EXCEPT !.pc = "done"] ELSE @[w]]]

\* stop() awaits the watch task unless there is none or it already ended;
\* then _terminate gets the process that _proc names at that moment.
Stop(t, m, op, o, i, n) ==
    /\ Becomes(Cancel(m, o))
    /\ task' = [task EXCEPT ![t] =
           [op |-> op, pc |-> IF Watched(m.sup[o].watch) THEN "await" ELSE "kill",
            o |-> o, p |-> m.sup[o].proc, i |-> i, n |-> n]]
    /\ overlap' = IF Stopping(o) \ {t} = {} THEN overlap ELSE overlap \cup {o}
    /\ crossed' = (crossed \/ Busy \ {t} # {})

Ends(t) == task' = [task EXCEPT ![t] = Idle]

\* The registry: removal is committed under the lease while one is attached.
RemoveCommits == ~attached \/ leader
Remove(o) == rotation' = rotation \ {sup[o].name}
-----------------------------------------------------------------------------
Init ==
    /\ supervisors = [i \in 1 .. AgentCount |-> i]
    /\ sup = [o \in Sups |-> IF o <= AgentCount THEN NewSup(o) ELSE NoSup]
    /\ proc = [p \in Procs |-> NoProc]
    /\ watch = [w \in Procs |-> [sup |-> 0, pc |-> "done"]]
    /\ task = [t \in Tasks |-> Idle]
    /\ scaleLock = "none"
    /\ rotation = {}
    /\ leader = FALSE /\ terms = 0
    /\ supervising = FALSE /\ primaryReady = FALSE /\ attached = FALSE
    /\ rolling = "none"
    /\ exiting = FALSE /\ ops = 0
    /\ overlap = {} /\ crossed = FALSE
-----------------------------------------------------------------------------
(* The Agent processes and their heartbeats *)

\* A process crashes, or gives up with EX_CONFIG (78).
Exits(p) ==
    /\ Alive(p)
    /\ \E rc \in {"crash", "config"} : proc' = [proc EXCEPT ![p].rc = rc]
    /\ UNCHANGED <<fleet, lead, other, history, task, sup, watch>>

\* A process registers, or its heartbeat is taken (after a LeaseError it
\* registers again); a record without a heartbeat grows old.
Heartbeat(p) ==
    /\ Alive(p) /\ RemoveCommits
    /\ sup[proc[p].sup].name \notin rotation
    /\ rotation' = rotation \cup {sup[proc[p].sup].name}
    /\ UNCHANGED <<fleet, machine, lead, history, task, rolling, exiting, ops>>

HeartbeatsMissed(a) ==
    /\ a \in rotation
    /\ \A p \in Procs : Alive(p) => sup[proc[p].sup].name # a
    /\ rotation' = rotation \ {a}
    /\ UNCHANGED <<fleet, machine, lead, history, task, rolling, exiting, ops>>
-----------------------------------------------------------------------------
(* The watch task *)

\* The child of a running supervisor exited: EX_CONFIG and a crash loop end
\* the watch, any other exit leads to the back-off.
WatchExit(w) ==
    LET o == watch[w].sup
        p == sup[o].proc
    IN  /\ watch[w].pc = "poll" /\ sup[o].running
        /\ p # 0 /\ ~Alive(p)
        /\ \/ /\ proc[p].rc = "config"
              /\ watch' = [watch EXCEPT ![w].pc = "done"]
              /\ UNCHANGED sup
           \/ /\ proc[p].rc # "config"
              /\ \E k \in 1 .. sup[o].recent + 1 :
                    LET looped == k >= MaxRapid
                    IN  /\ sup' = [sup EXCEPT ![o].recent = k,
                                              ![o].looped = @ \/ looped]
                        /\ watch' = [watch EXCEPT ![w].pc =
                                        IF sup'[o].looped THEN "done" ELSE "backoff"]
        /\ UNCHANGED <<fleet, lead, other, history, task, proc>>

WatchRestart(w) ==
    LET o == watch[w].sup
    IN  /\ watch[w].pc = "backoff"
        /\ IF sup[o].running
           THEN /\ NextProc(Machine) \in Procs
                /\ Becomes([Spawn(Machine, o) EXCEPT !.watch[w].pc = "poll"])
           ELSE Becomes([Machine EXCEPT !.watch[w].pc = "done"])
        /\ UNCHANGED <<fleet, lead, other, history, task>>

\* The memory threshold is reached: the process group gets SIGTERM.
WatchMemory(w) ==
    LET p == sup[watch[w].sup].proc
    IN  /\ watch[w].pc = "poll" /\ sup[watch[w].sup].running
        /\ Alive(p)
        /\ proc' = [proc EXCEPT ![p].rc = "crash"]
        /\ UNCHANGED <<fleet, lead, other, history, task, sup, watch>>

\* A watch whose supervisor stopped under it leaves its loop.
WatchLeaves(w) ==
    /\ watch[w].pc = "poll" /\ ~sup[watch[w].sup].running
    /\ watch' = [watch EXCEPT ![w].pc = "done"]
    /\ UNCHANGED <<fleet, lead, other, history, task, sup, proc>>
-----------------------------------------------------------------------------
(* Operator requests *)

\* A mutating request of the console: the Manager is the active primary.
Accepts(t) ==
    /\ task[t].pc = "idle" /\ ~exiting
    /\ ops < MaxOps /\ ops' = ops + 1
    /\ leader /\ primaryReady

AgentAction(t, op, o) ==
    /\ Accepts(t)
    /\ op \in {"start", "stop", "restart"}
    /\ op = "start" => ~IsAlive(o)
    /\ op # "start" => Remove(o)
    /\ op = "start" => UNCHANGED rotation
    /\ Stop(t, Machine, op, o, 0, 0)
    /\ UNCHANGED <<fleet, lead, rolling, exiting>>

\* The rolling restart of the i-th supervisor begins: the record first (it
\* raises without the lease, which ends the task), then remove, then stop.
RollTo(t, i) ==
    IF leader /\ i <= Len(supervisors)
    THEN /\ rolling' = "restarting"
         /\ Remove(supervisors[i])
         /\ Stop(t, Machine, "rolling", supervisors[i], i, 0)
    ELSE /\ rolling' = IF leader THEN "complete" ELSE rolling
         /\ Ends(t)
         /\ UNCHANGED <<machine, history, rotation>>

RollingRestart(t) ==
    /\ Accepts(t)
    /\ RollTo(t, 1)
    /\ UNCHANGED <<fleet, lead, exiting>>

\* The restarted Agent became healthy, or the health timeout passed.
RollingHealthy(t) ==
    /\ task[t].pc = "health"
    /\ RollTo(t, task[t].i + 1)
    /\ UNCHANGED <<fleet, lead, exiting, ops>>

\* POST /scale: the target waits for the lock, then the fleet grows at once
\* or shrinks one supervisor at a time.
ScaleRequest(t, n) ==
    /\ Accepts(t)
    /\ task' = [task EXCEPT ![t] = [Idle EXCEPT !.op = "scale", !.pc = "lock", !.n = n]]
    /\ UNCHANGED <<fleet, machine, lead, history, rotation, rolling, exiting>>

ScaleUp(t) ==
    LET cur   == Len(supervisors)
        fresh == [i \in 1 .. task[t].n - cur |-> Cardinality(Built) + i]
        built == [o \in Sups |-> IF \E i \in DOMAIN fresh : fresh[i] = o
                                 THEN NewSup(cur + o - Cardinality(Built))
                                 ELSE sup[o]]
    IN  /\ task[t].pc = "lock" /\ scaleLock = "none"
        /\ task[t].n >= cur
        /\ Cardinality(Built) + Len(fresh) <= MaxSups
        /\ Cardinality(Spawned) + Len(fresh) <= MaxProcs
        /\ supervisors' = supervisors \o fresh
        /\ Becomes(StartAll([Machine EXCEPT !.sup = built], fresh))
        /\ Ends(t)
        /\ crossed' = (crossed \/ Busy # {t})
        /\ UNCHANGED <<lead, other, scaleLock, overlap>>

\* The i-th supervisor leaves; a removal the lease refuses raises out of the
\* loop and leaves the list as it is.
Shrink(t, m, i, n) ==
    IF i <= Len(supervisors) /\ RemoveCommits
    THEN /\ Remove(supervisors[i])
         /\ Stop(t, m, "scale", supervisors[i], i, n)
         /\ scaleLock' = t
         /\ UNCHANGED supervisors
    ELSE /\ supervisors' = IF i <= Len(supervisors) THEN supervisors
                           ELSE SubSeq(supervisors, 1, n)
         /\ scaleLock' = "none"
         /\ Becomes(m)
         /\ Ends(t)
         /\ UNCHANGED <<history, rotation>>

ScaleDown(t) ==
    /\ task[t].pc = "lock" /\ scaleLock = "none"
    /\ task[t].n < Len(supervisors)
    /\ Shrink(t, Machine, task[t].n + 1, task[t].n)
    /\ UNCHANGED <<lead, rolling, exiting, ops>>

StopAllButLast(t, m, op, i) ==
    IF i < Len(supervisors)
    THEN /\ Stop(t, m, op, supervisors[i], i, 0)
         /\ UNCHANGED <<supervising, attached, exiting>>
    ELSE /\ Becomes(m)
         /\ Ends(t)
         /\ exiting' = (exiting \/ op = "shutdown")
         /\ supervising' = (supervising /\ op = "shutdown")
         /\ attached' = (attached /\ op = "shutdown")
         /\ UNCHANGED history

\* Stop the i-th supervisor of the list as it is now, or be done.
StopFrom(t, m, op, i) ==
    IF i <= Len(supervisors)
    THEN /\ Stop(t, m, op, supervisors[i], i, 0)
         /\ UNCHANGED <<supervising, attached, exiting>>
    ELSE /\ Becomes(m)
         /\ Ends(t)
         /\ exiting' = (exiting \/ op = "shutdown")
         /\ supervising' = (supervising /\ op = "shutdown")
         /\ attached' = (attached /\ op = "shutdown")
         /\ UNCHANGED history

Shutdown(t) ==
    /\ Accepts(t)
    /\ StopFrom(t, Machine, "shutdown", 1)
    /\ UNCHANGED <<fleet, leader, terms, primaryReady, rotation, rolling>>
-----------------------------------------------------------------------------
(* The rest of stop(), and what its caller does next *)

AwaitedWatch(t) ==
    /\ task[t].pc = "await"
    /\ sup' = [sup EXCEPT ![task[t].o].watch = 0]
    /\ task' = [task EXCEPT ![t].pc = "kill", ![t].p = sup[task[t].o].proc]
    /\ UNCHANGED <<fleet, lead, other, history, proc, watch>>

TerminateNothing(t) ==
    /\ task[t].pc = "kill"
    /\ task' = [task EXCEPT ![t].pc = "killed"]
    /\ UNCHANGED <<fleet, machine, lead, other, history>>

\* _terminate in its thread: SIGTERM, the grace period, SIGKILL.
Terminate(t) ==
    /\ task[t].pc = "kill"
    /\ proc' = IF Alive(task[t].p) THEN [proc EXCEPT ![task[t].p].rc = "crash"] ELSE proc
    /\ task' = [task EXCEPT ![t].pc = "killed"]
    /\ UNCHANGED <<fleet, lead, other, history, sup, watch>>

Cleared(t) == [Machine EXCEPT !.sup[task[t].o].proc = 0]

StoppedForGood(t) ==
    /\ task[t].pc = "killed" /\ task[t].op = "stop"
    /\ Becomes(Cleared(t))
    /\ Ends(t)
    /\ UNCHANGED <<fleet, lead, other, history>>

Respawn(t) ==
    /\ task[t].pc = "killed" /\ task[t].op \in {"start", "restart", "rolling"}
    /\ NextProc(Machine) \in Procs
    /\ Becomes(Start(Cleared(t), task[t].o))
    /\ IF task[t].op = "rolling"
       THEN task' = [task EXCEPT ![t].pc = "health", ![t].o = 0]
       ELSE Ends(t)
    /\ UNCHANGED <<fleet, lead, other, history>>

StopsNext(t) ==
    /\ task[t].pc = "killed" /\ task[t].op \in {"shutdown", "stepdown", "exit"}
    /\ StopFrom(t, Cleared(t), task[t].op, task[t].i + 1)
    /\ UNCHANGED <<fleet, leader, terms, primaryReady, rotation, rolling, ops>>

ShrinksNext(t) ==
    /\ task[t].pc = "killed" /\ task[t].op = "scale"
    /\ Shrink(t, Cleared(t), task[t].i + 1, task[t].n)
    /\ UNCHANGED <<lead, rolling, exiting, ops>>
-----------------------------------------------------------------------------
(* The leadership loop *)

LeaseWon ==
    /\ ~leader /\ ~exiting
    /\ terms < MaxTerms
    /\ leader' = TRUE /\ terms' = terms + 1
    /\ UNCHANGED <<fleet, machine, other, history, task, supervising, primaryReady, attached>>

LeaseLost ==
    /\ leader
    /\ leader' = FALSE
    /\ UNCHANGED <<fleet, machine, other, history, task, terms, supervising, primaryReady, attached>>

\* Activation: the registry is attached, an unfinished rolling restart is
\* recorded as failed, all supervisors are started.
Activate ==
    /\ leader /\ ~supervising /\ ~exiting
    /\ task["loop"].pc = "idle"
    /\ Cardinality(Spawned) + Len(supervisors) <= MaxProcs
    /\ attached' = TRUE /\ supervising' = TRUE /\ primaryReady' = TRUE
    /\ rolling' = IF rolling = "restarting" THEN "failed" ELSE rolling
    /\ Becomes(StartAll(Machine, supervisors))
    /\ overlap' = overlap \cup {supervisors[i] : i \in
                      {j \in DOMAIN supervisors : Stopping(supervisors[j]) # {}}}
    /\ crossed' = (crossed \/ Busy # {})
    /\ UNCHANGED <<fleet, task, leader, terms, rotation, exiting, ops>>

StepDown ==
    /\ ~leader /\ supervising /\ ~exiting
    /\ task["loop"].pc = "idle"
    /\ primaryReady' = FALSE
    /\ StopFrom("loop", Machine, "stepdown", 1)
    /\ UNCHANGED <<fleet, leader, terms, rotation, rolling, ops>>

\* The server was told to exit: the loop is cancelled and, if it supervises,
\* stops the fleet once more.
Exit ==
    /\ exiting /\ supervising
    /\ task["loop"].pc = "idle"
    /\ primaryReady' = FALSE
    /\ StopFrom("loop", Machine, "exit", 1)
    /\ UNCHANGED <<fleet, leader, terms, rotation, rolling, ops>>
-----------------------------------------------------------------------------
StopSteps(t) ==
    \/ AwaitedWatch(t)
    \/ Terminate(t)
    \/ StoppedForGood(t)
    \/ Respawn(t)
    \/ StopsNext(t)
    \/ ShrinksNext(t)

WatchSteps(w) ==
    \/ WatchExit(w)
    \/ WatchRestart(w)
    \/ WatchMemory(w)
    \/ WatchLeaves(w)

OperatorSteps(t) ==
    \/ \E op \in {"start", "stop", "restart"}, i \in DOMAIN supervisors :
          AgentAction(t, op, supervisors[i])
    \/ RollingRestart(t)
    \/ RollingHealthy(t)
    \/ \E n \in Targets : ScaleRequest(t, n)
    \/ ScaleUp(t)
    \/ ScaleDown(t)
    \/ Shutdown(t)

Next ==
    \/ \E p \in Procs : Exits(p) \/ Heartbeat(p)
    \/ \E a \in Sups : HeartbeatsMissed(a)
    \/ \E w \in Procs : WatchSteps(w)
    \/ \E t \in Operators : ~Down /\ OperatorSteps(t)
    \/ \E t \in Tasks : ~Down /\ StopSteps(t)
    \/ LeaseWon
    \/ LeaseLost
    \/ Activate
    \/ StepDown
    \/ Exit

Spec == Init /\ [][Next]_vars
-----------------------------------------------------------------------------
TypeOK ==
    /\ \A i \in DOMAIN supervisors : supervisors[i] \in Built
    /\ sup \in [Sups -> [name : 0 .. MaxSups, running : BOOLEAN, proc : 0 .. MaxProcs,
                         watch : 0 .. MaxProcs, looped : BOOLEAN,
                         recent : 0 .. MaxProcs]]
    /\ proc \in [Procs -> [sup : 0 .. MaxSups,
                           rc : {"unborn", "alive", "crash", "config"}]]
    /\ watch \in [Procs -> [sup : 0 .. MaxSups, pc : {"poll", "backoff", "done"}]]
    /\ scaleLock \in Operators \cup {"none"}
    /\ rolling \in {"none", "restarting", "complete", "failed"}

\* Every living Agent process is the one its supervisor refers to, so that the
\* supervisor can watch and stop it (supervisor.py: _proc), unless two tasks
\* were inside stop() of that supervisor at once: stop() clears _watch_task
\* and _proc after its awaits, whatever they then refer to.
NoOrphan ==
    \A p \in Procs : Alive(p) /\ proc[p].sup \notin overlap => sup[proc[p].sup].proc = p

\* Only the primary supervises Agents (manager_app.py:199): a Manager that is
\* done stepping down, or shutting down, leaves no Agent behind, if no other
\* task was at work on the fleet meanwhile.
StandbyRunsNothing ==
    ~supervising /\ task["loop"].pc = "idle" /\ ~crossed => \A p \in Procs : ~Alive(p)

\* No running Agent goes unwatched: a supervisor that is running has a watch
\* task that will see its process exit, unless the watch ended for good, as
\* crash-looped or on EX_CONFIG.
RunningIsWatched ==
    \A o \in Built \ overlap :
       sup[o].running =>
          \/ Watched(sup[o].watch) /\ watch[sup[o].watch].sup = o /\ sup[o].proc # 0
          \/ ~IsAlive(o) /\ (sup[o].looped \/ proc[sup[o].proc].rc = "config")
=============================================================================
