---------------------------- MODULE MirrorCycles ----------------------------
(***************************************************************************)
(* Open Mirroring above the publisher of one table: the scheduler's loop   *)
(* and the console's publish-now job go through the targets of the file,   *)
(* make sure that Fabric replicates each of them, and publish it           *)
(* (open_mirror/scheduler.py, configbuilder/router.py); the retention      *)
(* cleanup deletes what Fabric has processed (open_mirror/cleanup.py).     *)
(* The targets are those the console saves in Settings.                    *)
(*                                                                         *)
(* The two tasks share one event loop and _LAST_START_ATTEMPT; each await  *)
(* of a Fabric call lets the other run.  A call takes effect at Fabric and *)
(* answers later, so an answer may be stale when it is looked at.  Fabric, *)
(* its operator and the passing of time are external.                      *)
(***************************************************************************)
EXTENDS Settings

CONSTANTS
    Ids,            \* the ids of targets
    Files,          \* files that Fabric has processed
    Undated,        \* those whose modification time cannot be read
    MaxFaults,      \* bound on failed calls and failed publications
    MaxStops        \* bound on what the operator does at Fabric

VARIABLES
    fabric,         \* per id: status, retention and the rest of the definition
    cool,           \* _LAST_START_ATTEMPT: ids in their start cooldown
    task,           \* the scheduler's loop and the job
    job,            \* the latest job of _OPEN_MIRROR_JOBS
    ready, old,     \* _FilesReadyToDelete, and the files past their retention
    sweep,          \* a cleanup in its thread
    faults, stops,
    begun           \* history: start attempts per id in the present cooldown

mirrorVars == <<fabric, cool, task, job, ready, old, sweep, faults, stops, begun>>
cyclesVars == <<vars, mirrorVars>>

cleanup == <<ready, old, sweep>>
-----------------------------------------------------------------------------
Tasks == {"loop", "job"}

Startable == {"Initialized", "Paused", "Stopped"}

Idle == [pc |-> "idle", todo |-> {}, target |-> None, answer |-> None, raced |-> FALSE]

NoSweep == [pc |-> "idle", eligible |-> {}, seen |-> {}]

\* _self_healing_enabled, with OPEN_MIRROR_SELF_HEALING on.
Healing(t) == t.healing = "on" \/ (t.healing = "default" /\ t.onelake)

CyclesInit ==
    /\ Init
    /\ fabric = [id \in Ids |-> [status |-> deploy.status, days |-> 1, rest |-> 0]]
    /\ cool = {} /\ begun = [id \in Ids |-> 0]
    /\ task = [p \in Tasks |-> Idle]
    /\ job = None
    /\ ready = {} /\ old = {} /\ sweep = NoSweep
    /\ faults = 0 /\ stops = 0

\* What a step of task p leaves alone.
Others == UNCHANGED <<vars, cleanup, stops>>

Goes(p, pc) == task' = [task EXCEPT ![p].pc = pc]
-----------------------------------------------------------------------------
(* A cycle and a job *)

\* run_cycle: the loop reads the targets again.
LoopBegins ==
    /\ phase = "up" /\ deploy.publish /\ task["loop"].pc = "idle"
    /\ task' = [task EXCEPT !["loop"] = [Idle EXCEPT !.pc = "next", !.todo = LoadTargets]]
    /\ UNCHANGED <<fabric, cool, job, faults, begun>> /\ Others

\* POST /api/open-mirror/publish, for all targets or one of them.
PublishNow(ts) ==
    /\ phase = "up" /\ requests < deploy.requests
    /\ ts = LoadTargets \/ \E t \in LoadTargets : ts = {t}
    /\ Has(job) => job.status \notin {"queued", "running"}
    /\ job' = [status |-> "queued", targets |-> [id \in {t.id : t \in ts} |-> "queued"]]
    /\ task' = [task EXCEPT !["job"] = [Idle EXCEPT !.pc = "next", !.todo = ts]]
    /\ requests' = requests + 1
    /\ UNCHANGED <<deploy, files, running, phase, writing, deleting, builder, restarts, past>>
    /\ UNCHANGED <<fabric, cool, faults, begun, cleanup, stops>>

\* The status of p's target, in the job when p is the job.
Reports(p, t, status) ==
    job' = IF p = "job" THEN [job EXCEPT !.status = "running", !.targets[t.id] = status]
                        ELSE job

\* The result of p's target; p goes on to the next one.
Results(p, status) ==
    /\ Reports(p, task[p].target, status)
    /\ task' = [task EXCEPT ![p] = [Idle EXCEPT !.pc = "next",
                                                !.todo = task[p].todo \ {task[p].target}]]

\* Where ensure_replication_running begins for a target.
Preflight(t) ==
    CASE (Has(t.days) \/ Healing(t)) /\ ~t.ids -> "refused"
      [] Has(t.days) /\ t.ids -> "define"
      [] ~Has(t.days) /\ Healing(t) /\ t.ids -> "poll"
      [] OTHER -> "publish"

NextTarget(p) ==
    /\ task[p].pc = "next"
    /\ \E t \in task[p].todo :
        /\ task' = [task EXCEPT ![p].pc = Preflight(t), ![p].target = t]
        /\ Reports(p, t, "running")
    /\ UNCHANGED <<fabric, cool, faults, begun>> /\ Others

\* The loop sleeps; the job says how it went.
Ends(p) ==
    /\ task[p].pc = "next" /\ task[p].todo = {}
    /\ task' = [task EXCEPT ![p] = Idle]
    /\ job' = IF p = "loop" THEN job
              ELSE [job EXCEPT !.status =
                       IF \E id \in DOMAIN job.targets : job.targets[id] = "error"
                       THEN "completed_with_errors" ELSE "completed"]
    /\ UNCHANGED <<fabric, cool, faults, begun>> /\ Others

\* Leadership is lost, or the targets cannot be read: the loop gives the cycle up.
CycleFails ==
    /\ task["loop"].pc \in {"next", "publish"} /\ faults < MaxFaults
    /\ faults' = faults + 1
    /\ task' = [task EXCEPT !["loop"] = Idle]
    /\ UNCHANGED <<fabric, cool, job, begun>> /\ Others
-----------------------------------------------------------------------------
(* ensure_replication_running *)

\* Not ready: the result is skipped and has an error, which counts.
NotReady(p) ==
    /\ task[p].pc = "refused"
    /\ Results(p, "error")
    /\ UNCHANGED <<fabric, cool, faults, begun>> /\ Others

\* getDefinition.  Nothing is sent when the retention is already right.
ReadDefinition(p) ==
    LET t == task[p].target
    IN  /\ task[p].pc = "define"
        /\ task' = [task EXCEPT ![p].answer = fabric[t.id], ![p].raced = FALSE,
               ![p].pc = IF fabric[t.id].days # t.days THEN "update"
                         ELSE IF Healing(t) THEN "poll" ELSE "publish"]
        /\ UNCHANGED <<fabric, cool, job, faults, begun>> /\ Others

\* updateDefinition with the parts that were read; when the answer is lost
\* _fabric_call reads and updates again, or gives up.
SendDefinition(p) ==
    LET t == task[p].target
    IN  /\ task[p].pc = "update"
        /\ fabric' = [fabric EXCEPT ![t.id].days = t.days, ![t.id].rest = task[p].answer.rest]
        /\ \/ Goes(p, IF Healing(t) THEN "poll" ELSE "publish") /\ UNCHANGED faults
           \/ /\ faults < MaxFaults /\ faults' = faults + 1
              /\ \E pc \in {"define", "refused"} : Goes(p, pc)
        /\ UNCHANGED <<cool, job, begun>> /\ Others

\* getMirroringStatus.
Poll(p) ==
    /\ task[p].pc = "poll"
    /\ task' = [task EXCEPT ![p].pc = "decide", ![p].answer = fabric[task[p].target.id]]
    /\ UNCHANGED <<fabric, cool, job, faults, begun>> /\ Others

\* Mutant: the attempt is recorded once the start call has returned.
ToStartUnrecorded(p) ==
    /\ task' = [task EXCEPT ![p].pc = "start"]
    /\ begun' = [begun EXCEPT ![task[p].target.id] = @ + 1]
    /\ UNCHANGED cool

\* The attempt is recorded before the call is made.
ToStart(p) ==
    /\ task' = [task EXCEPT ![p].pc = "start"]
    /\ begun' = [begun EXCEPT ![task[p].target.id] = @ + 1]
    /\ cool' = cool \cup {task[p].target.id}

\* Fabric's decision table.  A mirror that is stopping, or whose status is
\* unknown, is left alone.
Decision(p, status) ==
    CASE status = "Running" -> "publish"
      [] status \in Startable -> IF task[p].target.id \in cool THEN "refused" ELSE "start"
      [] status \in {"Initializing", "Starting"} -> "wait"
      [] OTHER -> "refused"

Decide(p) ==
    LET next == Decision(p, task[p].answer.status)
    IN  /\ task[p].pc = "decide"
        /\ IF next = "start" THEN ToStart(p) ELSE Goes(p, next) /\ UNCHANGED <<cool, begun>>
        /\ UNCHANGED <<fabric, job, faults>> /\ Others

\* startMirroring; after a lost answer the call is made again, or given up.
StartMirroring(p) ==
    LET id == task[p].target.id
    IN  /\ task[p].pc = "start"
        /\ fabric' = [fabric EXCEPT ![id].status = IF @ \in Startable THEN "Starting" ELSE @]
        /\ \/ Goes(p, "wait") /\ UNCHANGED faults
           \/ /\ faults < MaxFaults /\ faults' = faults + 1
              /\ \E pc \in {"start", "refused"} : Goes(p, pc)
        /\ UNCHANGED <<cool, job, begun>> /\ Others

\* The sleep between two polls.
Wakes(p) ==
    /\ task[p].pc = "wait"
    /\ Goes(p, "poll")
    /\ UNCHANGED <<fabric, cool, job, faults, begun>> /\ Others

\* The preflight has taken too long.
Deadline(p) ==
    /\ task[p].pc = "wait"
    /\ Goes(p, "refused")
    /\ UNCHANGED <<fabric, cool, job, faults, begun>> /\ Others

\* A call of the Fabric API fails for good: the target is not ready.
CallFails(p) ==
    /\ task[p].pc \in {"define", "update", "poll", "start"}
    /\ faults < MaxFaults /\ faults' = faults + 1
    /\ Goes(p, "refused")
    /\ UNCHANGED <<fabric, cool, job, begun>> /\ Others

\* publish_target: a disabled target is skipped, any table may fail.
Publish(p) ==
    LET t == task[p].target
    IN  /\ task[p].pc = "publish"
        /\ \/ /\ Results(p, IF t.enabled THEN "completed" ELSE "skipped")
              /\ UNCHANGED faults
           \/ /\ t.enabled /\ faults < MaxFaults /\ faults' = faults + 1
              /\ Results(p, "error")
        /\ UNCHANGED <<fabric, cool, begun>> /\ Others

Step(p) ==
    \/ NextTarget(p) \/ Ends(p) \/ NotReady(p) \/ ReadDefinition(p) \/ SendDefinition(p)
    \/ Poll(p) \/ Decide(p) \/ StartMirroring(p) \/ Wakes(p) \/ Publish(p)
-----------------------------------------------------------------------------
(* Fabric, its operator and time *)

\* A mirror that starts is running at last.
FabricStarts(id) ==
    /\ fabric[id].status = "Starting"
    /\ fabric' = [fabric EXCEPT ![id].status = "Running"]
    /\ UNCHANGED <<cool, task, job, faults, begun, stops, cleanup, vars>>

FabricStops(id) ==
    /\ fabric[id].status = "Stopping"
    /\ fabric' = [fabric EXCEPT ![id].status = "Stopped"]
    /\ UNCHANGED <<cool, task, job, faults, begun, stops, cleanup, vars>>

\* The operator stops a mirror, or it fails.
OperatorStops(id, status) ==
    /\ stops < MaxStops /\ fabric[id].status = "Running"
    /\ stops' = stops + 1
    /\ fabric' = [fabric EXCEPT ![id].status = status]
    /\ UNCHANGED <<cool, task, job, faults, begun, cleanup, vars>>

\* The operator changes another part of the definition.
OperatorEdits(id) ==
    /\ stops < MaxStops /\ \E t \in LoadTargets : t.id = id /\ Has(t.days)
    /\ stops' = stops + 1
    /\ fabric' = [fabric EXCEPT ![id].rest = @ + 1]
    /\ task' = [p \in Tasks |-> [task[p] EXCEPT !.raced = @ \/ task[p].pc = "update"]]
    /\ UNCHANGED <<cool, job, faults, begun, cleanup, vars>>

\* OPEN_MIRROR_START_COOLDOWN_SECONDS have passed.
CooldownEnds(id) ==
    /\ id \in cool
    /\ cool' = cool \ {id} /\ begun' = [begun EXCEPT ![id] = 0]
    /\ UNCHANGED <<fabric, task, job, faults, stops, cleanup, vars>>
-----------------------------------------------------------------------------
(* The retention cleanup *)

FabricReadies(f) ==
    /\ f \notin ready \cup old
    /\ ready' = ready \cup {f}
    /\ UNCHANGED <<old, sweep, fabric, cool, task, job, faults, begun, stops, vars>>

Ages(f) ==
    /\ f \in ready \ old
    /\ old' = old \cup {f}
    /\ UNCHANGED <<ready, sweep, fabric, cool, task, job, faults, begun, stops, vars>>

\* inspect_cleanup: the files whose known modification time is past the cutoff.
Eligible == (ready \cap old) \ Undated

Inspect ==
    /\ sweep.pc = "idle" /\ requests < deploy.requests
    /\ requests' = requests + 1
    /\ sweep' = [pc |-> IF Eligible # {} THEN "delete" ELSE "idle", eligible |-> Eligible,
                 seen |-> ready]
    /\ UNCHANGED <<deploy, files, running, phase, writing, deleting, builder, restarts, past>>
    /\ UNCHANGED <<ready, old, fabric, cool, task, job, faults, begun, stops>>

DeleteFile(f) ==
    /\ sweep.pc = "delete" /\ f \in sweep.eligible
    /\ ready' = ready \ {f}
    /\ sweep' = [sweep EXCEPT !.eligible = @ \ {f}, !.pc =
                    IF sweep.eligible # {f} THEN "delete"
                    ELSE IF sweep.seen \subseteq old \ Undated THEN "remove" ELSE "idle"]
    /\ UNCHANGED <<old, fabric, cool, task, job, faults, begun, stops, vars>>

\* No file was retained: the folder goes, with what has come into it since.
RemoveFolder ==
    /\ sweep.pc = "remove"
    /\ ready' = {}
    /\ sweep' = NoSweep
    /\ UNCHANGED <<old, fabric, cool, task, job, faults, begun, stops, vars>>

Cleanup ==
    \/ Inspect \/ RemoveFolder
    \/ \E f \in Files : FabricReadies(f) \/ Ages(f) \/ DeleteFile(f)
-----------------------------------------------------------------------------
\* The process starts again: the tasks, the jobs and the attempts are forgotten.
CyclesRestart ==
    /\ Restart
    /\ task' = [p \in Tasks |-> Idle] /\ job' = None
    /\ cool' = {} /\ begun' = [id \in Ids |-> 0]
    /\ sweep' = NoSweep
    /\ UNCHANGED <<fabric, ready, old, faults, stops>>

CyclesStep ==
    \/ LoopBegins \/ CycleFails \/ CyclesRestart
    \/ \E ts \in SUBSET LoadTargets : PublishNow(ts)
    \/ \E p \in Tasks : Step(p) \/ Deadline(p) \/ CallFails(p)
    \/ \E id \in Ids : \/ FabricStarts(id) \/ FabricStops(id) \/ CooldownEnds(id)
                       \/ OperatorEdits(id)
                       \/ \E status \in {"Stopping", "Failed"} : OperatorStops(id, status)
    \/ \E ts \in TargetSets : SaveTargets(ts) /\ UNCHANGED mirrorVars

CyclesNext ==
    \/ deploy.part = "console" /\ Next /\ UNCHANGED mirrorVars
    \/ deploy.part = "cycles" /\ CyclesStep
    \/ deploy.part = "cleanup" /\ Cleanup

CyclesSpec == CyclesInit /\ [][CyclesNext]_cyclesVars
-----------------------------------------------------------------------------
CyclesTypeOK ==
    /\ TypeOK
    /\ cool \subseteq Ids
    /\ ready \cup old \cup sweep.seen \subseteq Files
    /\ \A p \in Tasks : Has(task[p].target) => task[p].target \in task[p].todo
    /\ Has(job) => job.status \in {"queued", "running", "completed", "completed_with_errors"}

(***************************************************************************)
(* What the upkeep in the background does is harmless, although its tasks  *)
(* look at the same things at the same time.  The preflights of the loop   *)
(* and the job do not start a mirrored database twice within a cooldown:   *)
(* ensure_replication_running records the attempt before it awaits the     *)
(* call (a call whose answer was lost is repeated; that is the same        *)
(* attempt).  What the operator changed in its definition is kept when     *)
(* update_mirrored_database_retention sets the retention, unless it was    *)
(* changed between its two calls.  And cleanup_target deletes no file that *)
(* is within its retention or has no usable modification time, unless the  *)
(* file came into the folder after inspect_cleanup had listed it.          *)
(***************************************************************************)
UpkeepIsHarmless ==
    [][/\ \A id \in Ids :
           /\ begun'[id] <= 1
           /\ fabric'[id].rest < fabric[id].rest =>
                 \E p \in Tasks : /\ task[p].pc = "update" /\ task[p].target.id = id
                                  /\ task[p].raced
       /\ \A f \in ready \ ready' : f \in old \ Undated \/ f \notin sweep.seen]_cyclesVars
=============================================================================
