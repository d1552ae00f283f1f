------------------------------ MODULE OpenMirror ------------------------------
(***************************************************************************)
(* Open Mirroring of one source table (src/fabric_shortcut_proxy/          *)
(* open_mirror): a publisher reads the source, reserves a numbered file of *)
(* the landing zone, saves the batch as pending, writes the file and       *)
(* finalises the state.  Publishers are tasks of one Manager process (the  *)
(* scheduler, and the publish-now job of the Config Builder): between two  *)
(* awaits a task runs alone, but it can die between any two durable        *)
(* effects.  Fabric, which consumes the files, is external.                *)
(*                                                                         *)
(* A row is one number: 0 when the key is absent, its watermark under the  *)
(* watermark strategy, its content under the snapshot strategy.  A batch   *)
(* is the rows it carries (0 is a delete) and whether they have markers,   *)
(* and stands for its own digest.  Dry runs change nothing and are left    *)
(* out; a refused state (corrupt, other strategy or projection) leaves     *)
(* everything as it is, which is TableFails.                               *)
(***************************************************************************)
EXTENDS Integers, FiniteSets, FiniteSetsExt

CONSTANTS
    Keys,           \* the key values, numbered as the key ladder orders them
    Publishers,     \* the tasks that may publish the table
    Strategies,     \* the tracking strategies to consider
    TokenChoices,   \* whether the projection has random tokens
    PageSize,       \* rows of one page of the watermark strategy
    MaxChanges,     \* bound: source transactions
    MaxContent,     \* bound: distinct contents of a row (snapshot strategy)
    MaxFaults,      \* bound: failures of a publisher
    MaxLoads,       \* bound: resets and explicit initial loads
    MaxEdits        \* bound: edits of the target configuration

ASSUME OpenMirrorAssumption ==
    /\ IsFiniteSet(Keys) /\ Cardinality(Keys) \in Nat
    /\ Keys = 1 .. Cardinality(Keys)
    /\ Strategies \subseteq {"watermark", "snapshot"}
    /\ TokenChoices \subseteq BOOLEAN
    /\ PageSize \in Nat \ {0} /\ MaxContent \in Nat \ {0}
    /\ {MaxChanges, MaxFaults, MaxLoads, MaxEdits} \subseteq Nat

VARIABLES
    strategy, tokens,   \* how the table is tracked and projected
    src, changes,       \* the source table, and the transactions so far
    config, edits,      \* the table's entry in config.open_mirror.json
    st,                 \* the state file
    sidecar,            \* the prepared payload beside the state file
    published,          \* whether the saved list of tables names the table
    files,              \* the numbered files of the landing-zone folder
    applied, mirror,    \* Fabric: the last file it applied, and its table
    pub,                \* the publishers
    faults, loads,
    torn                \* history: a drop removed the folder, not the state

vars == <<strategy, tokens, src, changes, config, edits, st, sidecar,
          published, files, applied, mirror, pub, faults, loads, torn>>

durable  == <<st, sidecar, published>>
external == <<src, changes, config, edits, applied, mirror>>
fixed    == <<strategy, tokens>>
bounds   == <<faults, loads>>
-----------------------------------------------------------------------------
(* Rows, batches, states *)

\* The numbers a row can be.
Contents == 0 .. MaxContent + MaxChanges

Tables == [Keys -> Contents]

RowSets == UNION {[K -> Contents] : K \in SUBSET Keys}

EmptyTable == [k \in Keys |-> 0]

NoRows == [k \in {} |-> 0]

Batches == [rows : RowSets, marked : BOOLEAN]

Cursors == Contents \X (Keys \cup {0})

NoCursor == <<0, 0>>

NoPending == [path |-> 0]

NoState == [missing |-> TRUE]

PublishState == [init |-> FALSE, cursor |-> NoCursor, keys |-> EmptyTable,
                 pend |-> NoPending]

NoPayload == [rows |-> NoRows, marked |-> TRUE]

\* The order of (watermark, key) pairs that the key ladder compares by.
Precedes(a, b) == a[1] < b[1] \/ (a[1] = b[1] /\ a[2] < b[2])

\* _read_rows_watermark: the first PageSize rows after the cursor.
Page(cursor) ==
    LET rest == {k \in Keys : src[k] # 0 /\ Precedes(cursor, <<src[k], k>>)}
        page == {k \in rest : Cardinality({j \in rest :
                     Precedes(<<src[j], j>>, <<src[k], k>>)}) < PageSize}
    IN  [k \in page |-> src[k]]

\* _read_source_rows.
AllRows == [k \in {k \in Keys : src[k] # 0} |-> src[k]]

\* _next_cursor of the last row of the page.
NextCursor(rows) ==
    CHOOSE c \in {<<rows[k], k>> : k \in DOMAIN rows} :
        \A k \in DOMAIN rows : ~ Precedes(c, <<rows[k], k>>)

\* build_state_from_rows.
KeysOf(rows) == [k \in Keys |-> IF k \in DOMAIN rows THEN rows[k] ELSE 0]

\* compute_changes: inserts, updates and deletes against the saved keys.
Changes(keys, rows) ==
    LET now == KeysOf(rows)
    IN  [k \in {k \in Keys : now[k] # keys[k]} |-> now[k]]

\* Mutant of NextFileIndex: the files are counted.
CountedFileIndex == Cardinality(DOMAIN files) + 1

\* reserve_batch_path: one past the highest numbered file of the folder.
NextFileIndex == Max(DOMAIN files \cup {0}) + 1

\* What the table holds once Fabric has applied every file that is waiting.
Landed ==
    [k \in Keys |->
        LET F == {i \in DOMAIN files : i > applied /\ k \in DOMAIN files[i].rows}
        IN  IF F = {} THEN mirror[k] ELSE files[Max(F)].rows[k]]
-----------------------------------------------------------------------------
(* The source, the configuration and Fabric *)

Idle == [pc |-> "idle", cfg |-> "gone", st |-> PublishState, rows |-> NoRows]

Init ==
    /\ strategy \in Strategies /\ tokens \in TokenChoices
    \* A snapshot with random tokens differs from itself at every read and
    \* republishes every row each cycle: it is left out.
    /\ tokens => strategy = "watermark"
    /\ src = EmptyTable /\ changes = 0
    /\ config = "on" /\ edits = 0
    /\ st = NoState /\ sidecar = NoPayload /\ published = FALSE
    /\ files = [i \in {} |-> NoPayload] /\ applied = 0 /\ mirror = EmptyTable
    /\ pub = [p \in Publishers |-> Idle]
    /\ faults = 0 /\ loads = 0 /\ torn = FALSE

\* A source transaction.  The watermark column advances whenever a row
\* changes; the rows of one transaction share their watermark.
SourceCommit ==
    /\ changes < MaxChanges
    /\ changes' = changes + 1
    /\ \/ /\ strategy = "watermark"
          /\ \E K \in SUBSET Keys \ {{}} :
                 src' = [k \in Keys |-> IF k \in K THEN changes + 1 ELSE src[k]]
       \/ /\ strategy = "snapshot"
          /\ \E k \in Keys, c \in 1 .. MaxContent :
                 c # src[k] /\ src' = [src EXCEPT ![k] = c]
       \/ \E k \in Keys : src[k] # 0 /\ src' = [src EXCEPT ![k] = 0]
    /\ UNCHANGED <<fixed, config, edits, durable, files, applied, mirror, pub,
                   bounds, torn>>

\* The operator adds, disables or removes the table of the target.
EditConfig(c) ==
    /\ edits < MaxEdits /\ c # config
    /\ config' = c /\ edits' = edits + 1
    /\ UNCHANGED <<fixed, src, changes, durable, files, applied, mirror, pub,
                   bounds, torn>>

\* Fabric applies the files in the order of their numbers, deletes the ones
\* it processed and leaves the last.
FabricApply ==
    \E i \in DOMAIN files :
        /\ i > applied
        /\ \A j \in DOMAIN files : j > applied => i <= j
        /\ mirror' = [k \in Keys |-> IF k \in DOMAIN files[i].rows
                                       THEN files[i].rows[k] ELSE mirror[k]]
        /\ applied' = i
        /\ files' = [j \in {j \in DOMAIN files : j >= i} |-> files[j]]
        /\ UNCHANGED <<fixed, src, changes, config, edits, durable, pub,
                       bounds, torn>>
-----------------------------------------------------------------------------
(* The publisher *)

\* No other task of the process is between two awaits.
Runs(p) ==
    \A q \in Publishers \ {p} : pub[q].pc \in {"idle", "read", "prepare"}

\* Mutant of Resume: a pending batch is taken for written.
ResumeTrusting(s) ==
    IF s.pend # NoPending THEN "finalize" ELSE "read"

\* Mutant of Resume: a missing file is always read again.
ResumeByReading(s) ==
    IF s.pend # NoPending /\ s.pend.path \in DOMAIN files THEN "finalize" ELSE "read"

\* What publish_table does with a pending batch: finalise it when its file is
\* there, replay the prepared payload when that is there, else read again.
Resume(s) ==
    CASE s.pend # NoPending /\ s.pend.path \in DOMAIN files -> "finalize"
      [] s.pend # NoPending /\ s.pend.path \notin DOMAIN files
             /\ tokens /\ sidecar # NoPayload ->
           IF sidecar = s.pend.batch THEN "write" ELSE "end"
      [] OTHER -> "read"

\* An explicit initial load starts from a new state unless a batch is
\* pending; so does a table without state.
Loaded(initial) ==
    IF st = NoState \/ (initial /\ st.pend = NoPending) THEN PublishState ELSE st

\* publish_targets_with_preflight and publish_target up to the first await:
\* drop a published table the configuration no longer names, skip a disabled
\* one, load the state of the others.
Begin(p, initial) ==
    /\ pub[p].pc = "idle" /\ Runs(p)
    /\ initial => loads < MaxLoads
    /\ loads' = IF initial THEN loads + 1 ELSE loads
    /\ pub' = [pub EXCEPT ![p] =
           [pc   |-> CASE config = "gone" /\ published -> "drop"
                       [] config = "on" -> Resume(Loaded(initial))
                       [] OTHER -> "end",
            cfg  |-> config,
            st   |-> IF config = "on" THEN Loaded(initial) ELSE PublishState,
            rows |-> NoRows]]
    /\ UNCHANGED <<fixed, external, durable, files, faults, torn>>

\* _reconcile_drops: remove the folder; Fabric drops the mirrored table.
DropFolder(p) ==
    /\ pub[p].pc = "drop" /\ Runs(p)
    /\ files' = [i \in {} |-> NoPayload]
    /\ applied' = 0 /\ mirror' = EmptyTable
    /\ torn' = TRUE
    /\ pub' = [pub EXCEPT ![p].pc = "forget"]
    /\ UNCHANGED <<fixed, src, changes, config, edits, durable, bounds>>

\* _reconcile_drops: then delete the state file.
DeleteState(p) ==
    /\ pub[p].pc = "forget" /\ Runs(p)
    /\ st' = NoState /\ torn' = FALSE
    /\ pub' = [pub EXCEPT ![p].pc = "end"]
    /\ UNCHANGED <<fixed, external, sidecar, published, files, bounds>>

\* The source query, awaited: the cursor is the pending batch's prior one.
Read(p) ==
    /\ pub[p].pc = "read"
    /\ pub' = [pub EXCEPT ![p].pc = "prepare", ![p].rows =
           IF strategy = "snapshot" THEN AllRows
           ELSE Page(IF pub[p].st.pend = NoPending THEN pub[p].st.cursor
                     ELSE pub[p].st.pend.prior)]
    /\ UNCHANGED <<fixed, external, durable, files, bounds, torn>>

\* The batch that the rows make: a first load has no row markers.
Batch(s, rows) ==
    [rows   |-> IF strategy = "snapshot" /\ s.init THEN Changes(s.keys, rows)
                ELSE rows,
     marked |-> s.init]

\* The rows leave nothing to publish.
Nothing(s, rows) ==
    /\ strategy = "watermark" \/ s.init
    /\ DOMAIN Batch(s, rows).rows = {}

Pending(s, rows) ==
    [path |-> NextFileIndex, batch |-> Batch(s, rows), prior |-> s.cursor,
     next |-> IF strategy = "watermark" THEN NextCursor(rows) ELSE NoCursor,
     keys |-> IF strategy = "snapshot" THEN KeysOf(rows) ELSE EmptyTable]

\* The retried page is the pending one.  Random tokens never repeat.
Matches(pend, s, rows) ==
    /\ ~ tokens
    /\ pend.batch = Batch(s, rows)
    /\ strategy = "watermark" => pend.next = NextCursor(rows)

\* An empty first page saves the state as initialised.
PrepareNothing(p) ==
    /\ pub[p].pc = "prepare" /\ Runs(p)
    /\ Nothing(pub[p].st, pub[p].rows)
    /\ st' = IF strategy = "watermark" /\ ~ pub[p].st.init
               THEN [pub[p].st EXCEPT !.init = TRUE] ELSE st
    /\ pub' = [pub EXCEPT ![p].pc = "end"]
    /\ UNCHANGED <<fixed, external, sidecar, published, files, bounds, torn>>

\* A batch was pending: write it when the page still matches, else raise.
PrepareAgain(p) ==
    /\ pub[p].pc = "prepare" /\ Runs(p)
    /\ pub[p].st.pend # NoPending
    /\ ~ Nothing(pub[p].st, pub[p].rows)
    /\ pub' = [pub EXCEPT ![p].pc =
           IF Matches(pub[p].st.pend, pub[p].st, pub[p].rows)
             THEN "write" ELSE "end"]
    /\ UNCHANGED <<fixed, external, durable, files, bounds, torn>>

\* Reserve the path, and with random tokens put the payload beside the state.
Prepare(p) ==
    /\ pub[p].pc = "prepare" /\ Runs(p)
    /\ pub[p].st.pend = NoPending
    /\ ~ Nothing(pub[p].st, pub[p].rows)
    /\ LET pend == Pending(pub[p].st, pub[p].rows)
       IN  /\ pub' = [pub EXCEPT ![p].pc = "save", ![p].st.pend = pend]
           /\ sidecar' = IF tokens THEN pend.batch ELSE sidecar
    /\ UNCHANGED <<fixed, external, st, published, files, bounds, torn>>

\* save_state with the pending batch.
SavePending(p) ==
    /\ pub[p].pc = "save" /\ Runs(p)
    /\ st' = pub[p].st
    /\ pub' = [pub EXCEPT ![p].pc = "write"]
    /\ UNCHANGED <<fixed, external, sidecar, published, files, bounds, torn>>

\* write_batch_at: the file replaces what is at the reserved path.
WriteBatch(p) ==
    /\ pub[p].pc = "write" /\ Runs(p)
    /\ LET pend == pub[p].st.pend
       IN  files' = [i \in DOMAIN files \cup {pend.path} |->
                       IF i = pend.path THEN pend.batch ELSE files[i]]
    /\ pub' = [pub EXCEPT ![p].pc = "finalize"]
    /\ UNCHANGED <<fixed, external, durable, bounds, torn>>

\* The state after a pending batch is final.
Finalized(s) ==
    [init |-> TRUE, cursor |-> s.pend.next,
     keys |-> s.pend.keys, pend |-> NoPending]

\* _finalize_pending, which saves the state and removes the payload.  After
\* a full page the loop reads the next one, unless a cycle limit is reached.
Finalize(p) ==
    /\ pub[p].pc = "finalize" /\ Runs(p)
    /\ st' = Finalized(pub[p].st)
    /\ sidecar' = NoPayload
    /\ \E next \in {"read", "end"} :
           /\ next = "read" => /\ strategy = "watermark"
                               /\ Cardinality(DOMAIN pub[p].rows) = PageSize
           /\ pub' = [pub EXCEPT ![p].pc = next, ![p].st = st', ![p].rows = NoRows]
    /\ UNCHANGED <<fixed, external, published, files, bounds, torn>>

\* save_published_tables: the enabled tables of the configuration read.
End(p) ==
    /\ pub[p].pc = "end" /\ Runs(p)
    /\ published' = (pub[p].cfg = "on")
    /\ pub' = [pub EXCEPT ![p] = Idle]
    /\ UNCHANGED <<fixed, external, st, sidecar, files, bounds, torn>>

\* A source, landing-zone or state error ends the table but not the cycle.
TableFails(p) ==
    /\ pub[p].pc \notin {"idle", "end"} /\ Runs(p)
    /\ faults < MaxFaults /\ faults' = faults + 1
    /\ pub' = [pub EXCEPT ![p].pc = "end"]
    /\ UNCHANGED <<fixed, external, durable, files, loads, torn>>

\* A crash, a cancelled task or a lost leadership ends the cycle.
Dies(p) ==
    /\ pub[p].pc # "idle"
    /\ faults < MaxFaults /\ faults' = faults + 1
    /\ pub' = [pub EXCEPT ![p] = Idle]
    /\ UNCHANGED <<fixed, external, durable, files, loads, torn>>

\* reset_open_mirror_table: the operator deletes the state file.
Reset ==
    /\ \A p \in Publishers : pub[p].pc \in {"idle", "read", "prepare"}
    /\ config # "gone" /\ loads < MaxLoads
    /\ st' = NoState /\ loads' = loads + 1
    \* A task that has loaded the old state goes on to save it again.
    /\ torn' = (torn /\ \E p \in Publishers : pub[p].pc # "idle")
    /\ UNCHANGED <<fixed, external, sidecar, published, files, pub, faults>>

Step(p) ==
    \/ Begin(p, FALSE) \/ DropFolder(p) \/ DeleteState(p) \/ Read(p)
    \/ PrepareNothing(p) \/ PrepareAgain(p) \/ Prepare(p) \/ SavePending(p)
    \/ WriteBatch(p) \/ Finalize(p) \/ End(p)

Next ==
    \/ SourceCommit \/ FabricApply \/ Reset
    \/ \E c \in {"on", "off", "gone"} : EditConfig(c)
    \/ \E p \in Publishers :
           Step(p) \/ Begin(p, TRUE) \/ TableFails(p) \/ Dies(p)

Spec == Init /\ [][Next]_vars

\* The scheduler's loop never ends and each of its steps returns.
FairSpec == Spec /\ \A p \in Publishers : WF_vars(Step(p))
-----------------------------------------------------------------------------
(* Properties *)

PendingBatches ==
    {NoPending} \cup [path : Nat \ {0}, batch : Batches, prior : Cursors,
                      next : Cursors, keys : Tables]

States == [init : BOOLEAN, cursor : Cursors, keys : Tables,
           pend : PendingBatches]

\* Every variable keeps its type.
TypeOK ==
    /\ strategy \in {"watermark", "snapshot"} /\ tokens \in BOOLEAN
    /\ src \in Tables /\ changes \in 0 .. MaxChanges /\ mirror \in Tables /\ applied \in Nat
    /\ loads \in Nat
    /\ config \in {"on", "off", "gone"}
    /\ st \in States \cup {NoState} /\ sidecar \in Batches
    /\ published \in BOOLEAN /\ torn \in BOOLEAN
    /\ DOMAIN files \subseteq Nat \ {0} /\ files \in [DOMAIN files -> Batches]
    /\ pub \in [Publishers ->
           [pc : {"idle", "drop", "forget", "read", "prepare", "save", "write",
                  "finalize", "end"},
            cfg : {"on", "off", "gone"}, st : States, rows : RowSets]]

\* The state never runs ahead of the landing zone: what a saved state without
\* a pending batch says was published (the keys of a snapshot table, every
\* source row up to a watermark table's cursor) is what the files hold, and
\* without an initial load over an older one nothing else is.  So a crash
\* anywhere between the read, the upload and _finalize_pending neither skips
\* nor forgets a row.  A drop cut short between its two deletions is exempt.
StateMatchesLanded ==
    (st # NoState /\ ~ torn) =>
        IF strategy = "snapshot"
        THEN st.pend = NoPending =>
               \A k \in Keys : \/ Landed[k] = st.keys[k]
                               \/ loads > 0 /\ st.keys[k] = 0
        ELSE \A k \in Keys :
               (src[k] # 0 /\ ~ Precedes(st.cursor, <<src[k], k>>))
                   => Landed[k] = src[k]

\* A file of the landing zone is written once, with a number past every file
\* Fabric has applied: reserve_batch_path, the retry at the reserved path and
\* the recovery never replace what Fabric may have read.
FilesAreAppended ==
    [][\A i \in DOMAIN files' :
           IF i \in DOMAIN files THEN files'[i] = files[i] ELSE i > applied]_vars

\* When the source stands still and the table stays configured, the landing
\* zone ends up with all its rows: a failure at any point of publish_table
\* delays a row but does not stop the table.  The comparison of row hashes of
\* a snapshot table finds the deletes too (an initial load forgets the keys
\* they are compared with).  A drop cut short is exempt, and so is a table
\* without prepared payloads: it stops when its pending batch cannot be
\* rebuilt.
CatchesUp ==
    (tokens /\ <>[](config = "on" /\ ~ torn)) =>
        <>[](\A k \in Keys :
                \/ Landed[k] = src[k]
                \/ src[k] = 0 /\ (strategy = "watermark" \/ loads > 0))
=============================================================================
