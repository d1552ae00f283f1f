------------------------------ MODULE Serving ------------------------------
(***************************************************************************)
(* What one Agent serves for one table with AUTO_REFRESH on: the freshness *)
(* poller and the other tasks that materialise and publish                 *)
(* (iceberg/freshness.py, runtime/table_health.py, main.py), the snapshot  *)
(* registry (iceberg/state_store.py), the byte caches and the tiers behind *)
(* them (cache/lru_cache.py), the Delta log (delta/log.py), object reads   *)
(* (s3/router.py) and the retention sweep (enterprise/retention.py).       *)
(*                                                                         *)
(* A split's key is its index and the hash of its rows, here the rows.     *)
(* Parquet output is not deterministic: a key's bytes are the rows they    *)
(* were made from and one of several encodings, and a manifest or a commit *)
(* declares the size of exactly one of them.  Tasks of the event loop run  *)
(* alone between two awaits; the sweep runs in an executor thread.         *)
(***************************************************************************)
EXTENDS Integers, Sequences, FiniteSets, SequencesExt

CONSTANTS
    Rows,           \* what the rows of each split may be: a sequence of sets
    Encodings,      \* encodings Parquet may give the same rows
    Deployments,    \* the settings to consider: agent ("python", or another front
                    \* that serves the bucket instead), strategy ("auto" probes a
                    \* change token, "full" always pulls), limit, pin, durable, and
                    \* the bound on restarts, failures, refreshes and sweeps
    MaxChanges      \* bound on changes of the source

ASSUME ServingAssumption ==
    /\ Rows \in Seq(SUBSET Nat)
    /\ \A d \in Deployments : d.strategy \in {"auto", "full"} /\ d.limit \in Nat \ {0}

VARIABLES
    deploy,         \* the settings: strategy, limit, pin, durable
    src, changes,   \* the source rows by split; how often they changed
    token,          \* _probe_tokens: the change count last acted on, or -1
    memory, stored, \* bytes of each key in memory, and on disk or in the store
    hist,           \* retained snapshots, oldest first
    commits, prevFiles, committed,      \* the Delta log's memo
    task,           \* what each task has read
    phase,          \* "down", "starting" or "up"; "off" under another front
    quarantined,    \* the table is in the quarantine registry
    polled,         \* the table is in the poller's list
    gc,             \* the sweep: the live keys it computed
    events,         \* restarts, failures, refreshes and sweeps so far
    lost,           \* history: bytes a running task had counted on were deleted
    crossed,        \* history: two tasks were materialising at once
    missed          \* history: the newest change is marked as seen, not published

source   == <<deploy, src, changes>>
deltaLog == <<commits, prevFiles, committed>>
cache    == <<memory, stored>>
process  == <<phase, quarantined, polled>>
past     == <<lost, crossed, missed>>

vars == <<source, token, cache, hist, deltaLog, task, process, gc, events, past>>
-----------------------------------------------------------------------------
Tasks    == {"start", "poll", "admin", "retry"}
Splits   == DOMAIN Rows
Contents == UNION {Rows[s] : s \in Splits}
Keys     == UNION {{s} \X Rows[s] : s \in Splits}
Bytes    == Contents \X Encodings
NoBytes  == <<>>

Idle     == [pc |-> "idle", files |-> <<>>, sizes |-> <<>>]

FilesOf(snap) == {<<s, snap.files[s]>> : s \in DOMAIN snap.files}
FilesIn(snaps) == UNION {FilesOf(snaps[i]) : i \in DOMAIN snaps}
Retained      == FilesIn(hist)
InFlight(ts)  == UNION {FilesOf(task[t]) : t \in ts}
Version       == IF hist = <<>> THEN 0 ELSE Last(hist).ver

\* peek_parquet and get_parquet: memory, then disk and the store.
Peek(k) == IF memory[k] # NoBytes THEN memory[k] ELSE stored[k]

\* pin_parquet, or put_parquet when splits are not pinned; the disk cache and the
\* artifact store are written through where they are configured.
Put(k, b) ==
    /\ memory' = [memory EXCEPT ![k] = b]
    /\ stored' = IF deploy.durable THEN [stored EXCEPT ![k] = b] ELSE stored

Nothing == [k \in Keys |-> NoBytes]

Init ==
    /\ deploy \in Deployments
    /\ src = [s \in Splits |-> CHOOSE c \in Rows[s] : TRUE]
    /\ changes = 0
    /\ token = -1
    /\ memory = Nothing /\ stored = Nothing
    /\ hist = <<>>
    /\ commits = <<>> /\ prevFiles = {} /\ committed = 0
    /\ task = [t \in Tasks |-> Idle]
    /\ phase = IF deploy.agent = "python" THEN "down" ELSE "off"
    /\ quarantined = FALSE /\ polled = FALSE
    /\ gc = [pc |-> "idle", live |-> {}]
    /\ events = 0
    /\ lost = FALSE /\ crossed = FALSE /\ missed = FALSE

Event == events < deploy.events /\ events' = events + 1

SourceChanges ==
    /\ phase # "off" /\ changes < MaxChanges
    /\ changes' = changes + 1
    /\ \E s \in Splits : \E c \in Rows[s] : c # src[s] /\ src' = [src EXCEPT ![s] = c]
    /\ UNCHANGED <<deploy, token, cache, hist, deltaLog, task, process, gc, events, past>>
-----------------------------------------------------------------------------
(* Tasks that materialise *)

Begin(t) ==
    /\ task[t].pc = "idle"
    /\ task' = [task EXCEPT ![t].pc = "read"]
    /\ crossed' = (crossed \/ \E u \in Tasks : task[u].pc # "idle")
    /\ UNCHANGED <<source, cache, hist, deltaLog, gc, lost>>

StartUp ==
    /\ phase = "down"
    /\ phase' = "starting"
    /\ Begin("start")
    /\ UNCHANGED <<token, quarantined, polled, events, missed>>

\* poll_once: the probe's token is recorded before anything is read.
Poll ==
    /\ polled
    /\ deploy.strategy = "auto" => token # changes
    /\ token' = IF deploy.strategy = "auto" THEN changes ELSE token
    /\ missed' = FALSE
    /\ Begin("poll")
    /\ UNCHANGED <<process, events>>

\* POST /_admin/refresh: refresh_all over every configured table
AdminRefresh ==
    /\ phase = "up"
    /\ Event
    /\ Begin("admin")
    /\ UNCHANGED <<token, process, missed>>

\* _retry_pass over the quarantined tables
Retry ==
    /\ phase = "up" /\ quarantined
    /\ Begin("retry")
    /\ UNCHANGED <<token, process, events, missed>>

\* One chunk of materialize_table: its rows are read and hashed; bytes already held
\* under the key are reused verbatim, else they are generated and kept.
ReadSplit(t) ==
    /\ task[t].pc = "read" /\ Len(task[t].files) < Cardinality(Splits)
    /\ LET s == Len(task[t].files) + 1
           k == <<s, src[s]>>
       IN \E e \in Encodings :
            LET b == IF Peek(k) # NoBytes THEN Peek(k) ELSE <<src[s], e>>
            IN /\ IF Peek(k) # NoBytes THEN UNCHANGED cache ELSE Put(k, b)
               /\ task' = [task EXCEPT ![t].files = Append(@, src[s]),
                                       ![t].sizes = Append(@, b)]
    /\ UNCHANGED <<source, token, hist, deltaLog, process, gc, events, past>>

\* A source error ends the cycle; at start-up it quarantines the table, and the
\* poller then starts without it.
ReadFails(t) ==
    /\ task[t].pc = "read"
    /\ Event
    /\ task' = [task EXCEPT ![t] = Idle]
    /\ IF t = "start" THEN phase' = "up" /\ quarantined' = TRUE
                      ELSE UNCHANGED <<phase, quarantined>>
    /\ missed' = (missed \/ t = "start" \/ (t = "poll" /\ deploy.strategy = "auto"))
    /\ UNCHANGED <<source, token, cache, hist, deltaLog, polled, gc,
                   lost, crossed>>
-----------------------------------------------------------------------------
(* publish, register_snapshot, _evict_unreferenced *)

\* Mutant: a pruned version's files go with it, the shared ones too.
UnreferencedShared(pruned, keep) == FilesIn(pruned)

\* The files of pruned versions that no retained version names.
Unreferenced(pruned, keep) == FilesIn(pruned) \ FilesIn(keep)

Without(tier, gone) == [k \in Keys |-> IF k \in gone THEN NoBytes ELSE tier[k]]

\* How many versions register_snapshot prunes.
Excess(n) == IF n > deploy.limit THEN n - deploy.limit ELSE 0

Install(t, snap) ==
    LET all    == Append(hist, snap)
        excess == Excess(Len(all))
        pruned == SubSeq(all, 1, excess)
        keep   == SubSeq(all, excess + 1, Len(all))
        gone   == Unreferenced(pruned, keep)
    IN /\ hist' = keep
       /\ memory' = Without(memory, gone)
       /\ stored' = Without(stored, gone)
       /\ lost' = (lost \/ gone \cap InFlight(Tasks \ {t}) # {})

\* Mutant: the snapshot id is derived from the number of splits, as without refresh.
SameShape(files, prior) == Len(files) = Len(prior)

\* The snapshot id is a digest of the chunks' hashes.
SameContent(files, prior) == files = prior

\* A new version only if the content differs from the current one.  The start-up
\* task goes on to prime the probe; the retry loop releases the table.
Publish(t) ==
    /\ task[t].pc = "read" /\ Len(task[t].files) = Cardinality(Splits)
    /\ IF hist # <<>> /\ SameContent(task[t].files, Last(hist).files)
       THEN UNCHANGED <<hist, cache, lost>>
       ELSE Install(t, [ver |-> Version + 1, files |-> task[t].files, sizes |-> task[t].sizes])
    /\ task' = [task EXCEPT ![t] = IF t = "start" THEN [Idle EXCEPT !.pc = "prime"] ELSE Idle]
    /\ quarantined' = (quarantined /\ t # "retry")
    /\ UNCHANGED <<source, token, deltaLog, phase, polled, gc, events, crossed, missed>>
-----------------------------------------------------------------------------
(* The Delta log *)

Sized(snap) == {<<s, snap.files[s], snap.sizes[s]>> : s \in Splits}
Path(f)     == <<f[1], f[2]>>
Paths(fs)   == {Path(f) : f \in fs}

\* The commit of one version is its difference from the last one registered; an
\* empty difference only moves the version forward.
Register(log, snap) ==
    LET diff == [add    |-> {f \in Sized(snap) : Path(f) \notin Paths(log.prev)},
                 remove |-> Paths(log.prev) \ FilesOf(snap)]
    IN IF snap.ver <= log.ver THEN log
       ELSE IF log.commits # <<>> /\ diff.add = {} /\ diff.remove = {}
            THEN [log EXCEPT !.ver = snap.ver]
            ELSE [commits |-> Append(log.commits, diff), prev |-> Sized(snap),
                  ver |-> snap.ver]

\* _sync registers every retained version not yet committed, oldest first.
Sync ==
    LET log == FoldLeft(Register, [commits |-> commits, prev |-> prevFiles,
                                   ver |-> committed], hist)
    IN commits' = log.commits /\ prevFiles' = log.prev /\ committed' = log.ver

\* Start-up ends: prime_probe stores the token of now for rows read a while ago, the
\* poller starts, and sync_all captures commit 0.
Prime ==
    /\ task["start"].pc = "prime"
    /\ token' = changes
    /\ phase' = "up" /\ polled' = TRUE
    /\ Sync
    /\ task' = [task EXCEPT !["start"] = Idle]
    /\ missed' = (Last(hist).files # src)
    /\ UNCHANGED <<source, cache, hist, quarantined, gc, events, lost,
                   crossed>>

\* Every listing and every read of a commit synchronises the log first.
ListDelta ==
    /\ phase = "up" /\ committed < Version
    /\ Sync
    /\ UNCHANGED <<source, token, cache, hist, task, process, gc, events, past>>
-----------------------------------------------------------------------------
(* Reads, cache eviction, the sweep, restarts *)

\* get_object of a split that no tier holds generates it from the rows of now.
GetGenerates ==
    /\ phase = "up"
    /\ \E k \in Retained, e \in Encodings :
        /\ Peek(k) = NoBytes
        /\ Put(k, <<src[k[1]], e>>)
    /\ UNCHANGED <<source, token, hist, deltaLog, task, process, gc, events, past>>

\* A file some version or running task counts on is now in no tier.
LosesBytes == \E k \in Retained \cup InFlight(Tasks) : Peek(k) # NoBytes /\ Peek(k)' = NoBytes

\* BytesLRUCache drops an entry that expired or does not fit.
CacheEvicts ==
    /\ ~deploy.pin
    /\ \E k \in Keys : memory[k] # NoBytes /\ memory' = [memory EXCEPT ![k] = NoBytes]
    /\ UNCHANGED stored
    /\ lost' = (lost \/ LosesBytes)
    /\ UNCHANGED <<source, token, hist, deltaLog, task, process, gc, events, crossed, missed>>

\* gc_orphaned_data: the live keys first, the listing and the deletes afterwards.
GcLive ==
    /\ phase = "up" /\ deploy.durable /\ gc.pc = "idle"
    /\ Event
    /\ gc' = [pc |-> "sweep", live |-> Retained]
    /\ UNCHANGED <<source, token, cache, hist, deltaLog, task, process, past>>

GcSweep ==
    /\ gc.pc = "sweep"
    /\ stored' = Without(stored, Keys \ gc.live)
    /\ UNCHANGED memory
    /\ lost' = (lost \/ LosesBytes)
    /\ gc' = [pc |-> "idle", live |-> {}]
    /\ UNCHANGED <<source, token, hist, deltaLog, task, process, events,
                   crossed, missed>>

Restart ==
    /\ phase \in {"starting", "up"}
    /\ Event
    /\ phase' = "down" /\ quarantined' = FALSE /\ polled' = FALSE
    /\ token' = -1
    /\ memory' = Nothing
    /\ hist' = <<>>
    /\ commits' = <<>> /\ prevFiles' = {} /\ committed' = 0
    /\ task' = [t \in Tasks |-> Idle]
    /\ gc' = [pc |-> "idle", live |-> {}]
    /\ crossed' = FALSE /\ missed' = FALSE
    /\ UNCHANGED <<source, stored, lost>>
-----------------------------------------------------------------------------
Next ==
    \/ SourceChanges \/ StartUp \/ Poll \/ AdminRefresh \/ Retry \/ Prime
    \/ ListDelta \/ GetGenerates \/ CacheEvicts \/ GcLive \/ GcSweep \/ Restart
    \/ \E t \in Tasks : ReadSplit(t) \/ ReadFails(t) \/ Publish(t)

\* The event loop runs every task; the poller's and the retry loop's timers fire.
Fairness ==
    /\ WF_vars(StartUp) /\ WF_vars(Poll) /\ WF_vars(Retry) /\ WF_vars(Prime)
    /\ \A t \in Tasks : WF_vars(ReadSplit(t)) /\ WF_vars(Publish(t))

Spec == Init /\ [][Next]_vars /\ Fairness
-----------------------------------------------------------------------------
TypeOK ==
    /\ src \in [Splits -> Contents] /\ changes \in 0 .. MaxChanges
    /\ memory \in [Keys -> Bytes \cup {NoBytes}] /\ stored \in [Keys -> Bytes \cup {NoBytes}]
    /\ Len(hist) <= deploy.limit
    /\ \A i \in DOMAIN hist : hist[i].files \in [Splits -> Contents]
    /\ committed <= Version
    /\ token \in -1 .. changes
    /\ phase \in {"down", "starting", "up", "off"}
    /\ gc.live \subseteq Keys

\* The bytes served for a file of any retained version are the ones its manifest
\* declares, through reuse, eviction, the sweep and restarts, unless bytes that a
\* task in flight had counted on were deleted under it (materialize_table's reuse
\* against _evict_unreferenced and gc_orphaned_data).
DeclaredIsServed ==
    lost \/ \A i \in DOMAIN hist, s \in Splits :
                Peek(<<s, hist[i].files[s]>>) = hist[i].sizes[s]

\* Once the source is quiet the current version comes to show it, unless the newest
\* change was marked as seen without being published (poll_once and prime_probe store
\* the token first; a quarantined table is not polled), or two tasks materialised at
\* once and the older reading was published last.
EventuallyFresh ==
    <>[](\/ phase = "off" \/ missed
         \/ crossed /\ deploy.strategy = "auto"
         \/ hist # <<>> /\ Last(hist).files = src)
=============================================================================
