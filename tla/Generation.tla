----------------------------- MODULE Generation -----------------------------
(***************************************************************************)
(* One table's build generation across the shards of a cluster             *)
(* (runtime/generation.py, split_completion.py, snapshot_planning.py,      *)
(* materializer.py, serving_image.py, and the start-up of main.py).        *)
(*                                                                         *)
(* Shard 0 fences the previous generation with a compare-and-swap of the   *)
(* coordinator record, plans, and writes the BUILD record the workers join *)
(* by.  Every shard makes the splits it owns, stores the bytes under a key *)
(* that does not name the generation, publishes a completion under the     *)
(* fence, and waits for the others.  Shard 0 then copies the objects into  *)
(* an image, and points CURRENT at it.                                     *)
(*                                                                         *)
(* A step is what the code does between two accesses to the store that     *)
(* others can come between.  A generation is named by its fence; token,    *)
(* identifier and plan digest go with it.  A process is one life of a      *)
(* shard: a restart is another process.  Time is left out: the lease may   *)
(* lapse at any moment, which is how it looks to a process that stalled.   *)
(***************************************************************************)
EXTENDS Naturals, FiniteSets

CONSTANTS
    Coordinators,   \* lives of shard 0, numbered in the order they start
    Workers,        \* lives of shard 1
    Splits,         \* split indexes of the table
    Deployments,    \* settings [mode, lazy, admin], and a bound on [faults]:
                    \* crashes, and leases that lapse
    MaxVersion      \* bound: states the source table goes through

ASSUME GenerationAssumption ==
    /\ Coordinators \cap Workers = {}
    /\ IsFiniteSet(Coordinators) /\ Coordinators \subseteq Nat
    /\ Splits \subseteq Nat
    /\ MaxVersion \in Nat \ {0}

VARIABLES
    deploy,         \* the settings of this cluster
    source,         \* the source table, as the number of changes made to it
    coord, live,    \* the coordinator record; its lease has not expired
    build,          \* the BUILD record
    current,        \* the CURRENT pointer: a generation, 0 when absent
    data, comp,     \* split bytes by key; completions by generation and split
    image, ready,   \* staged objects of each generation; its READY.json
    fresh,          \* processes whose copy of the coordinator bytes is still exact
    proc, sp,       \* the processes, and their splits
    loop,           \* the renewal loop of each process: its step and the BUILD to put
    faults,
    rewound         \* history: a coordinator was fenced between its check and its put

vars == <<deploy, source, coord, live, build, current, data, comp, image, ready,
          fresh, proc, sp, loop, faults, rewound>>

lease   == <<coord, live, fresh>>
store   == <<data, comp>>
serving == <<image, ready, current, faults, rewound>>
-----------------------------------------------------------------------------
(* Records *)

Procs == Coordinators \cup Workers
Gens  == 1 .. Cardinality(Coordinators)

NoBytes  == [ver |-> 0, by |-> 0]
Bytes    == [ver : 0 .. MaxVersion, by : 0 .. Cardinality(Coordinators)]
NoBuild  == [gen |-> 0, state |-> "none"]
NoIndex  == [s \in Splits |-> NoBytes]
NoProc   == [at |-> "start", gen |-> 0, ver |-> 0, by |-> 0, active |-> FALSE, put |-> NoBuild]
NoSplit  == [st |-> "todo", gen |-> 0, again |-> FALSE, bytes |-> NoBytes]
NoLoop   == [at |-> "off", put |-> NoBuild]

Snapshot == deploy.mode # "best_effort"
IsAdmin(a) == deploy.admin = a      \* POST /_admin/publish-image in a life of its own
Shards(a)  == IF IsAdmin(a) THEN 1 ELSE 2

Owns(a, s) == IF deploy.mode = "owned" THEN a \in Coordinators
              ELSE (s % 2 = 0) <=> (a \in Coordinators)

\* The transaction generation g's read point belongs to is still open.
PointOpen(g) == \E c \in Coordinators : proc[c].gen = g /\ proc[c].ver # 0

HoldsLease(g)   == coord.gen = g /\ live
Set(a, at)      == proc' = [proc EXCEPT ![a].at = at]
SetSplit(a, s, st) == sp' = [sp EXCEPT ![a][s].st = st]

Init ==
    /\ deploy \in Deployments
    /\ source = 1
    /\ coord = [gen |-> 0, shards |-> 0, plan |-> "none"]
    /\ live = FALSE
    /\ build = NoBuild
    /\ current = 0
    /\ data = [s \in Splits |-> NoBytes]
    /\ comp = [g \in Gens |-> [s \in Splits |-> NoBytes]]
    /\ image = [g \in Gens |-> NoIndex]
    /\ ready = {}
    /\ fresh = {}
    /\ proc = [a \in Procs |-> NoProc]
    /\ sp = [a \in Procs |-> [s \in Splits |-> NoSplit]]
    /\ loop = [a \in Procs |-> NoLoop]
    /\ faults = 0
    /\ rewound = FALSE
-----------------------------------------------------------------------------
(* The environment *)

SourceChanges ==
    /\ source < MaxVersion
    /\ source' = source + 1
    /\ UNCHANGED <<deploy, lease, build, store, serving, proc, sp, loop>>

LeaseLapses ==
    /\ live
    /\ faults < deploy.faults
    /\ faults' = faults + 1
    /\ live' = FALSE
    /\ UNCHANGED <<deploy, source, coord, fresh, build, store, image, ready, current, rewound, proc, sp, loop>>

\* The process ends; its transactions and its threads end with it.
Dies(a) ==
    /\ proc' = [proc EXCEPT ![a] = [NoProc EXCEPT !.at = "failed"]]
    /\ sp' = [sp EXCEPT ![a] = [s \in Splits |-> NoSplit]]
    /\ loop' = [loop EXCEPT ![a] = NoLoop]
    /\ fresh' = fresh \ {a}

Crash(a) ==
    /\ proc[a].at \notin {"start", "failed"}
    /\ faults < deploy.faults
    /\ faults' = faults + 1
    /\ Dies(a)
    /\ UNCHANGED <<deploy, source, coord, live, build, store, image, ready, current, rewound>>
-----------------------------------------------------------------------------
(* acquire_generation *)

ReadRaw(a) == fresh' = fresh \cup {a}

\* A successful compare-and-swap: every other copy of the bytes is now stale.
Swap(record) ==
    /\ coord' = record
    /\ live' = TRUE
    /\ fresh' = {}

AcquireRead(a) ==
    /\ a \in Coordinators /\ proc[a].at = "start"
    /\ \A b \in Coordinators : b < a => proc[b].at # "start"
    /\ IsAdmin(a) => \A s \in Splits : data[s] # NoBytes
    /\ ReadRaw(a)
    /\ Set(a, "acquire")
    /\ UNCHANGED <<deploy, source, coord, live, build, store, serving, sp, loop>>

AcquireSwap(a) ==
    /\ proc[a].at = "acquire"
    /\ IF a \in fresh
       THEN /\ Swap([gen |-> coord.gen + 1, shards |-> Shards(a),
                     plan |-> IF Snapshot /\ ~IsAdmin(a) THEN "PREPARING" ELSE "READY"])
            /\ proc' = [proc EXCEPT ![a].at = "confirm", ![a].gen = coord.gen + 1]
            /\ rewound' = (rewound \/ \E b \in Coordinators : proc[b].at = "activate")
            /\ UNCHANGED <<sp, loop>>
       ELSE Dies(a) /\ UNCHANGED <<coord, live, rewound>>
    /\ UNCHANGED <<deploy, source, build, store, image, ready, current, faults>>

AcquireConfirm(a) ==
    /\ proc[a].at = "confirm"
    /\ IF coord.gen = proc[a].gen
       THEN Set(a, "putBuild") /\ UNCHANGED <<fresh, sp, loop>>
       ELSE Dies(a)
    /\ UNCHANGED <<deploy, source, coord, live, build, store, serving>>

\* Where a shard goes once it has its generation and its plan.
Planned == IF deploy.lazy THEN "serve" ELSE "build"

Enter(a, g) == sp' = [sp EXCEPT ![a] = [s \in Splits |-> [NoSplit EXCEPT !.gen = g]]]
StartLoop(a) == loop' = [loop EXCEPT ![a].at = "idle"]

\* The put that ends acquire_generation is unconditional.
AcquirePut(a) ==
    /\ proc[a].at = "putBuild"
    /\ build' = [gen |-> proc[a].gen,
                 state |-> IF Snapshot /\ ~IsAdmin(a) THEN "PREPARING" ELSE "READY"]
    /\ \/ IsAdmin(a) /\ Set(a, "image") /\ UNCHANGED <<sp, loop>>
       \/ ~IsAdmin(a) /\ Snapshot /\ Set(a, "plan") /\ UNCHANGED <<sp, loop>>
       \/ ~IsAdmin(a) /\ ~Snapshot /\ Set(a, Planned)
          /\ Enter(a, proc[a].gen) /\ StartLoop(a)
    /\ UNCHANGED <<deploy, source, lease, store, serving>>
-----------------------------------------------------------------------------
(* Snapshot planning *)

\* acquire_owner opens the transaction that all reads of this generation use.
OpenReadPoint(a) ==
    /\ proc[a].at = "plan" /\ proc[a].ver = 0
    /\ proc' = [proc EXCEPT ![a].ver = source, ![a].by = proc[a].gen]
    /\ UNCHANGED <<deploy, source, lease, build, store, serving, sp, loop>>

PlanSwap(a) ==
    /\ proc[a].at = "plan" /\ proc[a].ver # 0
    /\ HoldsLease(proc[a].gen)
    /\ coord' = [coord EXCEPT !.plan = "READY"]
    /\ fresh' = {}
    /\ Set(a, "planned")
    /\ UNCHANGED <<deploy, source, live, build, store, serving, sp, loop>>

\* The put and the read that confirms it.
PlanPut(a) ==
    /\ proc[a].at = "planned"
    /\ build' = [gen |-> proc[a].gen, state |-> "READY"]
    /\ IF coord.gen = proc[a].gen
       THEN Set(a, Planned) /\ Enter(a, proc[a].gen) /\ StartLoop(a)
       ELSE Set(a, "planFail") /\ UNCHANGED <<sp, loop>>
    /\ UNCHANGED <<deploy, source, lease, store, serving>>

\* A read, a range query or a lost generation ends planning: the owner aborts.
PlanFails(a) ==
    /\ proc[a].at = "plan"
    /\ proc' = [proc EXCEPT ![a].at = "planFail", ![a].ver = 0]
    /\ UNCHANGED <<deploy, source, lease, build, store, serving, sp, loop>>

\* fail_generation_plan asserts the lease, then puts without a condition.
PlanFailAssert(a) ==
    /\ proc[a].at = "planFail"
    /\ IF HoldsLease(proc[a].gen)
       THEN Set(a, "failPut") /\ UNCHANGED <<fresh, sp, loop>>
       ELSE Dies(a)
    /\ UNCHANGED <<deploy, source, coord, live, build, store, serving>>

PlanFailPut(a) ==
    /\ proc[a].at = "failPut"
    /\ build' = [gen |-> proc[a].gen, state |-> "FAILED"]
    /\ Dies(a)
    /\ UNCHANGED <<deploy, source, coord, live, store, serving>>
-----------------------------------------------------------------------------
(* join_generation and hydrate_snapshot_generation *)

\* BUILD is read before the coordinator record; the generations must agree, so
\* reading both at once loses only outcomes an earlier join could have had.
Joinable ==
    /\ build.state \in {"READY", "ACTIVE"}
    /\ build.gen = coord.gen
    /\ coord.shards = 2
    /\ coord.plan = "READY"
    /\ live \/ build.state = "ACTIVE"

JoinRefused == build.state = "FAILED" /\ build.gen = coord.gen

Join(a) ==
    /\ a \in Workers /\ proc[a].at = "start"
    /\ Joinable
    /\ proc' = [proc EXCEPT ![a].at = "joined", ![a].gen = coord.gen,
                            ![a].active = build.state = "ACTIVE"]
    /\ UNCHANGED <<deploy, source, lease, build, store, serving, sp, loop>>

JoinFails(a) ==
    /\ a \in Workers /\ proc[a].at = "start"
    /\ JoinRefused
    /\ Dies(a)
    /\ UNCHANGED <<deploy, source, coord, live, build, store, serving>>

\* A worker imports the exported snapshot while its transaction is open.
JoinsPoint(a) == deploy.mode = "exported" /\ ~proc[a].active

Hydrate(a) ==
    /\ proc[a].at = "joined"
    /\ IF JoinsPoint(a) /\ ~PointOpen(proc[a].gen)
       THEN Dies(a)
       ELSE /\ proc' = [proc EXCEPT ![a].at = Planned,
                  ![a].ver = IF JoinsPoint(a)
                             THEN proc[CHOOSE c \in Coordinators :
                                         proc[c].gen = proc[a].gen /\ proc[c].ver # 0].ver
                             ELSE 0,
                  ![a].by = proc[a].gen]
            /\ Enter(a, proc[a].gen)
            /\ UNCHANGED <<fresh, loop>>
    /\ UNCHANGED <<deploy, source, coord, live, build, store, serving>>
-----------------------------------------------------------------------------
(* Materialisation of the splits *)

Working(a) == proc[a].at = "build" \/ (deploy.lazy /\ proc[a].at = "serve")

\* In snapshot mode the splits are made one after the other.
Turn(a, s) ==
    /\ Working(a)
    /\ Snapshot => \A t \in Splits : t < s => sp[a][t].st = "done"

\* assert_generation_identity
Identity(a, s) == HoldsLease(sp[a][s].gen)

CloseSession(a) == proc' = [proc EXCEPT ![a].ver = 0]

\* What a failed split does: at start-up the process ends, or the table is
\* quarantined and start-up goes on without it; on a first read the table's
\* session closes and the next read tries again.
TableFails(a, s) ==
    IF deploy.lazy
    THEN /\ sp' = [sp EXCEPT ![a][s].st = "todo", ![a][s].again = FALSE]
         /\ CloseSession(a)
         /\ UNCHANGED <<fresh, loop>>
    ELSE \/ Dies(a)
         \/ /\ proc' = [proc EXCEPT ![a].ver = 0,
                           ![a].at = IF a \in Coordinators THEN "image" ELSE "serve"]
            /\ Enter(a, 0)
            /\ UNCHANGED <<fresh, loop>>

\* A GenerationError: on a first read the split joins again and retries once.
Fenced(a, s) ==
    IF deploy.lazy /\ ~sp[a][s].again
    THEN SetSplit(a, s, "rejoin") /\ UNCHANGED <<proc, fresh, loop>>
    ELSE TableFails(a, s)

\* The bytes of an owned split: warm from the store, or read from the source.
MakeSplit(a, s) ==
    /\ Turn(a, s) /\ Owns(a, s) /\ sp[a][s].st = "todo"
    /\ data[s] # NoBytes \/ ~Snapshot \/ proc[a].ver # 0
    /\ sp' = [sp EXCEPT ![a][s].st = "made",
                ![a][s].bytes = IF data[s] # NoBytes THEN data[s]
                                ELSE [ver |-> IF Snapshot THEN proc[a].ver ELSE source,
                                      by  |-> IF Snapshot THEN proc[a].by ELSE sp[a][s].gen]]
    /\ UNCHANGED <<deploy, source, lease, build, store, serving, proc, loop>>

\* No session, or a source error.
MakeFails(a, s) ==
    /\ Turn(a, s) /\ Owns(a, s) /\ sp[a][s].st = "todo"
    /\ data[s] = NoBytes
    /\ TableFails(a, s)
    /\ UNCHANGED <<deploy, source, coord, live, build, store, serving>>

\* Mutant: the bytes are put without looking at what the key holds.
PutDataOverwrites(a, s) ==
    /\ Working(a) /\ sp[a][s].st = "made"
    /\ data' = [data EXCEPT ![s] = sp[a][s].bytes]
    /\ SetSplit(a, s, "stored")
    /\ UNCHANGED <<deploy, source, lease, build, comp, serving, proc, loop>>

\* put_stream_if_absent: the key keeps the first bytes; others are a conflict.
PutData(a, s) ==
    /\ Working(a) /\ sp[a][s].st = "made"
    /\ IF Identity(a, s) /\ data[s] \in {NoBytes, sp[a][s].bytes}
       THEN /\ data' = [data EXCEPT ![s] = sp[a][s].bytes]
            /\ SetSplit(a, s, "stored")
            /\ UNCHANGED <<proc, fresh, loop>>
       ELSE Fenced(a, s) /\ UNCHANGED data
    /\ UNCHANGED <<deploy, source, coord, live, build, comp, serving>>

\* fenced_put of the completion, then pin_parquet puts the bytes again.
PutCompletion(a, s) ==
    /\ Working(a) /\ sp[a][s].st = "stored"
    /\ IF Identity(a, s)
       THEN /\ comp' = [comp EXCEPT ![sp[a][s].gen][s] = sp[a][s].bytes]
            /\ data' = [data EXCEPT ![s] = sp[a][s].bytes]
            /\ SetSplit(a, s, "done")
            /\ UNCHANGED <<proc, fresh, loop>>
       ELSE Fenced(a, s) /\ UNCHANGED store
    /\ UNCHANGED <<deploy, source, coord, live, build, serving>>

\* _wait_for_completion and apply_split_completion
AwaitSplit(a, s) ==
    /\ Turn(a, s) /\ ~Owns(a, s) /\ sp[a][s].st = "todo"
    /\ IF Identity(a, s)
       THEN /\ comp[sp[a][s].gen][s] # NoBytes
            /\ sp' = [sp EXCEPT ![a][s].st = "done", ![a][s].bytes = comp[sp[a][s].gen][s]]
            /\ UNCHANGED <<proc, fresh, loop>>
       ELSE Fenced(a, s)
    /\ UNCHANGED <<deploy, source, coord, live, build, store, serving>>

AwaitTimesOut(a, s) ==
    /\ Turn(a, s) /\ ~Owns(a, s) /\ sp[a][s].st = "todo"
    /\ TableFails(a, s)
    /\ UNCHANGED <<deploy, source, coord, live, build, store, serving>>

\* Only the split's generation is renewed: the read session stays the old one.
Rejoin(a, s) ==
    /\ sp[a][s].st = "rejoin"
    /\ IF Joinable
       THEN /\ sp' = [sp EXCEPT ![a][s] = [NoSplit EXCEPT !.gen = coord.gen, !.again = TRUE]]
            /\ UNCHANGED <<proc, fresh, loop>>
       ELSE TableFails(a, s)
    /\ UNCHANGED <<deploy, source, coord, live, build, store, serving>>

\* All splits done: the session is released, and shard 0 goes on to the image.
Finish(a) ==
    /\ Working(a) /\ \A s \in Splits : sp[a][s].st = "done"
    /\ deploy.lazy => proc[a].ver # 0
    /\ proc' = [proc EXCEPT ![a].ver = 0,
                  ![a].at = IF a \in Coordinators /\ ~deploy.lazy THEN "image" ELSE "serve"]
    /\ UNCHANGED <<deploy, source, lease, build, store, serving, sp, loop>>
-----------------------------------------------------------------------------
(* renew_generation: the renewal loop, and the publisher between two objects *)

\* Mutant: a BUILD record of another generation is left alone.
RenewedInPlace(g, seen) == seen

\* The BUILD record renew_generation puts, given the one it read.
Renewed(g, seen) == IF seen.gen = g THEN seen ELSE [gen |-> g, state |-> "READY"]

\* A swap the loop loses is logged and tried again at the next period, so the
\* read before it is not a step of its own.
LoopSwap(a) ==
    /\ loop[a].at = "idle" /\ HoldsLease(proc[a].gen)
    /\ Swap(coord)
    /\ loop' = [loop EXCEPT ![a] = [at |-> "put", put |-> Renewed(proc[a].gen, build)]]
    /\ UNCHANGED <<deploy, source, build, store, serving, proc, sp>>

LoopPut(a) ==
    /\ loop[a].at = "put"
    /\ build' = loop[a].put
    /\ loop' = [loop EXCEPT ![a] = [NoLoop EXCEPT !.at = "idle"]]
    /\ UNCHANGED <<deploy, source, lease, store, serving, proc, sp>>
-----------------------------------------------------------------------------
(* publish_serving_image *)

\* A quarantined table has no objects; otherwise every split has one.
Objects(a) == IF IsAdmin(a) \/ (\A s \in Splits : sp[a][s].st = "done") THEN Splits ELSE {}
Unstaged(a) == {s \in Objects(a) : image[proc[a].gen][s] = NoBytes}

\* Every exception marks the generation FAILED in the store and is raised.
PublishFails(a) == Dies(a)

ImageRead(a) ==
    /\ proc[a].at = "image" /\ Unstaged(a) # {}
    /\ IF HoldsLease(proc[a].gen)
       THEN ReadRaw(a) /\ Set(a, "imageSwap") /\ UNCHANGED <<sp, loop>>
       ELSE PublishFails(a)
    /\ UNCHANGED <<deploy, source, coord, live, build, store, serving>>

ImageSwap(a) ==
    /\ proc[a].at = "imageSwap"
    /\ IF a \in fresh
       THEN /\ Swap(coord) /\ UNCHANGED <<sp, loop>>
            /\ proc' = [proc EXCEPT ![a].at = "imagePut",
                                      ![a].put = Renewed(proc[a].gen, build)]
       ELSE PublishFails(a) /\ UNCHANGED <<coord, live>>
    /\ UNCHANGED <<deploy, source, build, store, serving>>

\* The renewal's BUILD put, then the object's bytes are staged and verified.
ImagePut(a) ==
    /\ proc[a].at = "imagePut"
    /\ build' = proc[a].put
    /\ \E s \in Unstaged(a) :
        /\ \A t \in Unstaged(a) : s <= t
        /\ image' = [image EXCEPT ![proc[a].gen][s] = data[s]]
    /\ proc' = [proc EXCEPT ![a].at = "image", ![a].put = NoBuild]
    /\ UNCHANGED <<deploy, source, lease, store, ready, current, faults, rewound,
                   sp, loop>>

\* Mutant: READY.json is written after the first object.
ImageReadyEarly(a) ==
    /\ proc[a].at = "image"
    /\ ready' = ready \cup {proc[a].gen}
    /\ Set(a, "ready")
    /\ UNCHANGED <<deploy, source, lease, build, store, image, current, faults,
                   rewound, sp, loop>>

\* OBJECTS.index and READY.json
ImageReady(a) ==
    /\ proc[a].at = "image" /\ Unstaged(a) = {}
    /\ ready' = ready \cup {proc[a].gen}
    /\ Set(a, "ready")
    /\ UNCHANGED <<deploy, source, lease, build, store, image, current, faults,
                   rewound, sp, loop>>

\* Mutant: the lease is not checked again before CURRENT is put.
ImageUnchecked(a) ==
    /\ proc[a].at = "ready"
    /\ Set(a, "activate")
    /\ UNCHANGED <<deploy, source, lease, build, store, serving, sp, loop>>

ImageCheck(a) ==
    /\ proc[a].at = "ready"
    /\ IF HoldsLease(proc[a].gen)
       THEN Set(a, "activate") /\ UNCHANGED <<fresh, sp, loop>>
       ELSE PublishFails(a)
    /\ UNCHANGED <<deploy, source, coord, live, build, store, serving>>

\* The put of CURRENT is unconditional.
PutCurrent(a) ==
    /\ proc[a].at = "activate"
    /\ current' = proc[a].gen
    /\ Set(a, "activeBuild")
    /\ UNCHANGED <<deploy, source, lease, build, store, image, ready, faults, rewound, sp, loop>>

PutActive(a) ==
    /\ proc[a].at = "activeBuild"
    /\ build' = [gen |-> proc[a].gen, state |-> "ACTIVE"]
    /\ Set(a, "serve")
    /\ UNCHANGED <<deploy, source, lease, store, serving, sp, loop>>
-----------------------------------------------------------------------------
Acquire(a) == AcquireRead(a) \/ AcquireSwap(a) \/ AcquireConfirm(a) \/ AcquirePut(a)

Plan(a) == \/ OpenReadPoint(a) \/ PlanSwap(a) \/ PlanPut(a)
           \/ PlanFails(a) \/ PlanFailAssert(a) \/ PlanFailPut(a)

Split(a, s) == \/ MakeSplit(a, s) \/ PutData(a, s) \/ PutCompletion(a, s)
               \/ AwaitSplit(a, s) \/ Rejoin(a, s)

Renew(a) == LoopSwap(a) \/ LoopPut(a)

Publish(a) == \/ ImageRead(a) \/ ImageSwap(a) \/ ImagePut(a) \/ ImageReady(a)
              \/ ImageCheck(a) \/ PutCurrent(a) \/ PutActive(a)

Next ==
    \/ SourceChanges \/ LeaseLapses
    \/ \E a \in Procs :
        \/ Crash(a) \/ Acquire(a) \/ Plan(a) \/ Join(a) \/ JoinFails(a) \/ Hydrate(a)
        \/ Finish(a) \/ Renew(a) \/ Publish(a)
        \/ \E s \in Splits : Split(a, s) \/ MakeFails(a, s) \/ AwaitTimesOut(a, s)

\* The event loop runs the processes' tasks and the renewal loop's timer.
Fairness == \A a \in Procs : WF_vars(Renew(a)) /\ WF_vars(Acquire(a))

Spec == Init /\ [][Next]_vars /\ Fairness
-----------------------------------------------------------------------------
(* Properties *)

TypeOK ==
    /\ coord.gen \in 0 .. Cardinality(Coordinators)
    /\ build.state \in {"none", "PREPARING", "READY", "FAILED", "ACTIVE"}
    /\ current \in {0} \cup Gens
    /\ data \in [Splits -> Bytes] /\ comp \in [Gens -> [Splits -> Bytes]]
    /\ \A a \in Procs : proc[a].gen <= coord.gen /\ proc[a].ver <= source
    /\ fresh \subseteq Coordinators /\ ready \subseteq Gens

\* What a shard declares in its manifests is what the key serves: the bytes of a
\* completion, and the bytes a process finished a split with, stay the bytes under
\* the split's key, whatever other generations and late writers do
\* (publish_split_completion, read_split_completion, pin_parquet).
DeclaredBytesAreServed ==
    /\ \A g \in Gens, s \in Splits : comp[g][s] \in {NoBytes, data[s]}
    /\ \A a \in Procs, s \in Splits : sp[a][s].st = "done" => sp[a][s].bytes = data[s]

\* CURRENT points to a generation with READY.json whose image holds every split
\* of the table, or none when the table was quarantined, never a part of it
\* (publish_serving_image).
ImageIsWhole ==
    current # 0 =>
        /\ current \in ready
        /\ image[current] \in {NoIndex, data}

\* CURRENT goes back to an older generation only when a takeover fell between a
\* publisher's last lease check and its put (serving_image.py:97-107).
CurrentNeverRewinds == [][current' >= current \/ rewound]_vars

\* The coordinator of the generation in force, with its renewal loop running.
Coordinates(a) == HoldsLease(proc[a].gen) /\ loop[a].at # "off"

\* A BUILD record that an older coordinator's late put replaced is put back by
\* the renewal loop, so workers can join again (acquire_generation's last put,
\* renew_generation).
BuildRecovers ==
    \A a \in Coordinators :
        Coordinates(a) /\ build.gen # proc[a].gen
            ~> build.gen = proc[a].gen \/ ~Coordinates(a)
=============================================================================
