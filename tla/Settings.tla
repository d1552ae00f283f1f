------------------------------ MODULE Settings ------------------------------
(***************************************************************************)
(* The configuration of a Manager or Agent: the JSON files it is loaded    *)
(* from at import (config.py, connection_config.py), the two validators -- *)
(* validate_setting_updates for what the console is asked to save, and     *)
(* validate_config for what a starting process loads -- and the console's  *)
(* handlers that save, apply and delete (configbuilder/router.py).  Mounts *)
(* (storage/mounts.py) and Open Mirroring targets (open_mirror/config.py)  *)
(* have a file each, with validators of their own.                         *)
(*                                                                         *)
(* One setting stands for each rule the validators have: a number with a   *)
(* least value, a pair of bounds, and the settings that exclude each       *)
(* other.  A table names its connection and says whether its split key is  *)
(* explicit, how its columns are tokenised and which column that is.       *)
(*                                                                         *)
(* Handlers run on the event loop, so they are alone except at an await;   *)
(* but a save replaces one file after another and the process may stop in  *)
(* between, and deleting a connection awaits its body after its check.     *)
(***************************************************************************)
EXTENDS Integers, FiniteSets, TLC

CONSTANTS
    None,           \* the absence of a value
    Named,          \* ids of the connections other than "default"
    Providers,      \* connections whose dialect has a snapshot provider
    Tokenizing,     \* connections whose dialect can tokenise a column
    NeedsKey,       \* connections whose dialect cannot reflect a primary key
    Buckets,        \* the valid S3 bucket names
    Updates,        \* what the console may be asked to save or apply
    TargetSets,     \* what it may be asked to save as Open Mirroring targets
    MountSets,      \* what it may be asked to save as mounts
    Deployments     \* the settings of the environment, the first tables and
                    \* targets, and the bounds on requests and on restarts

ASSUME SettingsAssumption ==
    /\ "default" \notin Named
    /\ Providers \cup Tokenizing \cup NeedsKey \subseteq Named \cup {"default"}

VARIABLES
    deploy,         \* environment variables, and settings no console can save
    files,          \* config.*.json: scalars, tables, connections, targets, mounts
    running,        \* the module attributes: set, connections, tables, mounts
    phase,          \* "up", or "refused" by validate_config
    writing,        \* the write in progress: its update and the files to go
    deleting,       \* a delete between its check and its body
    removed,        \* _REMOVED_CONNECTION_IDS
    override,       \* _BUILDER_TABLES_OVERRIDE
    requests, restarts,
    outdated,       \* history: an update was checked against values that a
                    \* restart would not give the process
    halved,         \* history: tables and connections were not saved together
    onlyLive,       \* history: keys applied whose write failed
    onlySaved       \* history: keys saved and not applied since the start

builder == <<removed, override>>
past    == <<outdated, halved, onlyLive, onlySaved>>

vars == <<deploy, files, running, phase, writing, deleting, builder, requests,
          restarts, past>>
-----------------------------------------------------------------------------
Conns == Named \cup {"default"}

FileOf == [generation_source_consistency |-> "system", bucket |-> "system",
           enable_storage_proxy |-> "system",
           num_splits |-> "performance", split_count_min |-> "performance",
           split_count_max |-> "performance", materialize_mode |-> "performance",
           auto_refresh |-> "freshness"]

Keys == DOMAIN FileOf

Default == [generation_source_consistency |-> "best_effort", num_splits |-> 1,
            bucket |-> "warehouse", enable_storage_proxy |-> FALSE,
            split_count_min |-> 1, split_count_max |-> 2,
            materialize_mode |-> "eager", auto_refresh |-> FALSE]

\* The settings apply_live_settings may change in a running process.
LIVE_SETTINGS == {"num_splits", "split_count_min", "split_count_max", "auto_refresh"}

\* The order write_config_updates takes the files in: settings first.
Rank == [system |-> 1, performance |-> 1, freshness |-> 1, tables |-> 2,
         connection |-> 3, mounts |-> 4]

\* The table served when config.tables.json has none.
SalesTable(set) ==
    [conn |-> "default", splits |-> set["num_splits"], key |-> FALSE,
     token |-> "none", column |-> "other"]

Has(x) == x # None

(***************************************************************************)
(* A mount serves a bucket from a backend.  Its root is missing, a place   *)
(* that exists or one that does not; it signs in with a credential that    *)
(* the store has or has lost, with a mode of its own, or not at all; and   *)
(* it may tokenise a table format by a column policy.                      *)
(***************************************************************************)
Backends == {"local", "s3", "azure"}

Formats == {"delta", "iceberg"}

\* The modes a mount of each backend may name instead of a credential.
InlineAuth == [local |-> {}, s3 |-> {"anonymous", "instance"},
               azure |-> {"default", "managed_identity", "anonymous"}]

Stored == {"stored", "lost"}       \* mounts that name a credential

\* _mount_from_json and _build_mounts: the entries of the file that are loaded.
LoadsMount(m, set) ==
    /\ Has(m.snapshot) => m.snapshot > 0 /\ m.format = "iceberg"
    /\ m.bucket # set["bucket"] /\ m.bucket \in Buckets
    /\ m.backend \in Backends /\ m.root # "missing"
    /\ m.format # "none" => /\ m.format \in Formats /\ m.policy = "good"
                           /\ m.output \in Formats \cup {"auto", "none"}

(***************************************************************************)
(* Import: environment, then file, then default; a table whose connection  *)
(* is not defined is dropped, and so is a mount that does not load.        *)
(***************************************************************************)
Scalars(f) == deploy.env @@ f.scalars @@ Default

Connections(f) == f.connections \cup {"default"}

Load(f) ==
    LET set    == Scalars(f)
        tables == IF f.tables = {} THEN {SalesTable(set)} ELSE f.tables
    IN  [set |-> set, connections |-> Connections(f),
         tables |-> {t \in tables : t.conn \in Connections(f)},
         mounts |-> {m \in f.mounts : LoadsMount(m, set)}, targets |-> f.targets]

(***************************************************************************)
(* validate_config: the names of the rules that a loaded configuration     *)
(* breaks; one broken rule and the process does not start.                 *)
(***************************************************************************)
RangeRules(c) ==
    {r \in {"range", "order"} :
        \/ r = "range" /\ \/ c.set["num_splits"] < 1
                          \/ c.set["split_count_min"] < 1
                          \/ \E t \in c.tables : t.splits < 1
        \/ r = "order" /\ c.set["split_count_max"] < c.set["split_count_min"]}

ModeRules(c) ==
    {r \in {"deferred", "lazy_shards"} :
        \/ r = "deferred" /\ c.set["materialize_mode"] \in {"lazy", "virtual"}
                          /\ (c.set["auto_refresh"] \/ deploy.publish)
        \/ r = "lazy_shards" /\ c.set["materialize_mode"] = "lazy"
                             /\ deploy.shards > 1 /\ ~deploy.serving}

Snapshot == {"snapshot_virtual", "snapshot_refresh", "snapshot_shards",
             "snapshot_provider"}

SnapshotRules(c) ==
    {r \in Snapshot :
        /\ c.set["generation_source_consistency"] = "snapshot"
        /\ \/ r = "snapshot_virtual" /\ c.set["materialize_mode"] = "virtual"
           \/ r = "snapshot_refresh" /\ c.set["auto_refresh"]
           \/ r = "snapshot_shards" /\ deploy.shards > 1 /\ ~deploy.serving
           \/ r = "snapshot_provider" /\ \E t \in c.tables : t.conn \notin Providers}

TableRules(c) ==
    {r \in {"no_tables", "explicit_key", "key_tokenised", "alias_tokenised",
            "tokenization", "random_refresh", "random_virtual"} :
        \/ r = "no_tables" /\ c.tables = {}
        \/ \E t \in c.tables :
             \/ r = "explicit_key" /\ t.conn \in NeedsKey /\ ~t.key
             \/ /\ t.token # "none"
                /\ \/ r = "key_tokenised" /\ t.column = "key"
                   \/ r = "alias_tokenised" /\ t.column = "alias"
                   \/ r = "tokenization" /\ t.conn \notin Tokenizing
             \/ /\ t.token = "random"
                /\ \/ r = "random_refresh" /\ c.set["auto_refresh"] /\ deploy.content
                   \/ r = "random_virtual" /\ c.set["materialize_mode"] = "virtual"}

\* validate_mounts, for the mounts that were loaded.
MountRules(c) ==
    {r \in {"mount_shape", "mount_root", "mount_auth"} :
        /\ c.set["enable_storage_proxy"]
        /\ \E m \in c.mounts :
             \/ r = "mount_shape" /\ \/ m.bucket = c.set["bucket"]
                                     \/ m.root = "missing"
                                     \/ Has(m.snapshot) /\ m.format # "iceberg"
             \/ r = "mount_root" /\ m.backend = "local" /\ m.root = "gone"
             \/ r = "mount_auth" /\ m.backend # "local"
                                 /\ m.auth \notin InlineAuth[m.backend] \cup {"stored"}}

\* target_from_dict takes the days of both retentions in their ranges only.
Retains(t) == t.keep >= 0 /\ (Has(t.days) => t.days \in 1 .. 30)

TargetRules(c) == {r \in {"target"} : \E t \in c.targets : ~Retains(t)}

Problems(c) == RangeRules(c) \cup ModeRules(c) \cup SnapshotRules(c) \cup TableRules(c)
                   \cup TargetRules(c) \cup MountRules(c)

(***************************************************************************)
(* validate_setting_updates: an update against the running values.         *)
(* u.set holds settings, u.tables and u.connections are None when the      *)
(* request does not rewrite them.                                          *)
(***************************************************************************)
ValidTables(u) ==
    Has(u.tables) => \A t \in u.tables :
        t.key /\ (t.token # "none" => t.column # "key")

BoundToLoaded(u) ==
    Has(u.tables) /\ Has(u.connections) =>
        \A t \in u.tables : t.conn \in u.connections \cup running.connections

\* A request that rewrites both tables and connections is checked against itself.
Bound(u) ==
    Has(u.tables) /\ Has(u.connections) =>
        \A t \in u.tables : t.conn \in u.connections \cup {"default"}

\* Snapshot consistency, with the values the update brings and the running ones.
ConsistentSnapshot(u) ==
    LET set    == u.set @@ running.set
        conns  == running.connections \cup (IF Has(u.connections) THEN u.connections ELSE {})
        tables == IF Has(u.tables) THEN u.tables ELSE running.tables
    IN  set["generation_source_consistency"] = "snapshot" =>
            /\ set["materialize_mode"] # "virtual"
            /\ ~set["auto_refresh"]
            /\ deploy.shards > 1 => deploy.serving
            /\ \A t \in tables : t.conn \in conns => t.conn \in Providers

(***************************************************************************)
(* Open Mirroring targets: the console wants a connection the process has  *)
(* loaded, one target of an id, and the ids of Fabric where it is to heal; *)
(* load_targets skips a target whose retention is out of range.            *)
(***************************************************************************)
ValidTargets(ts) ==
    /\ \A t \in ts : /\ t.conn \in running.connections
                     /\ t.healing = "on" => t.ids
    /\ \A t, o \in ts : t.id = o.id => t = o

LoadTargets == {t \in files.targets : Retains(t)}

\* _validate_mounts_payload, an entry: against the bucket of the running process.
ValidMount(m) ==
    /\ m.bucket \in Buckets /\ m.bucket # running.set["bucket"]
    /\ m.backend \in Backends /\ m.root # "missing"
    /\ m.backend # "local" => m.auth \in InlineAuth[m.backend] \cup Stored
    /\ m.backend = "azure" => m.account \/ m.auth \in Stored
    /\ Has(m.snapshot) => m.snapshot > 0 /\ m.format = "iceberg"
    /\ m.format # "none" => /\ m.format \in Formats /\ m.policy = "good"
                           /\ m.output \in Formats \cup {"auto", "none"}

ValidMounts(ms) ==
    /\ \A m \in ms : ValidMount(m)
    /\ \A m, o \in ms : m.bucket = o.bucket => m = o

Valid(u) == ValidTables(u) /\ Bound(u) /\ ConsistentSnapshot(u)

(***************************************************************************)
(* The console's view of the configuration, which the builder page starts  *)
(* from: the loaded tables and connections without the deleted ones, or    *)
(* the tables last applied.                                                *)
(***************************************************************************)
View ==
    [connections |-> running.connections \ (removed \cup {"default"}),
     tables |-> IF Has(override) THEN override.tables
                ELSE {t \in running.tables : t.conn \notin removed}]
-----------------------------------------------------------------------------
Init ==
    /\ deploy \in Deployments
    /\ files = [scalars |-> <<>>, tables |-> deploy.tables,
                connections |-> {t.conn : t \in deploy.tables} \ {"default"},
                targets |-> deploy.targets, mounts |-> {}]
    /\ running = Load(files)
    /\ Problems(running) = {}
    /\ phase = "up"
    /\ writing = None /\ deleting = None
    /\ removed = {} /\ override = None
    /\ requests = 0 /\ restarts = 0
    /\ outdated = FALSE /\ halved = FALSE /\ onlyLive = {} /\ onlySaved = {}

FilesOf(u) ==
    {FileOf[k] : k \in DOMAIN u.set}
        \cup (IF Has(u.tables) THEN {"tables"} ELSE {})
        \cup (IF Has(u.connections) THEN {"connection"} ELSE {})
        \cup (IF Has(u.mounts) THEN {"mounts"} ELSE {})

\* A handler that was asked for something takes the event loop to itself.
Asked ==
    /\ phase = "up" /\ writing = None /\ requests < deploy.requests
    /\ requests' = requests + 1

\* An accepted update, by a delete or not: what it was checked against, and
\* whether it leaves tables and connections apart.
Accept(u, kind, by) ==
    /\ writing' = [kind |-> kind, update |-> u, by |-> by, left |-> FilesOf(u)]
    /\ outdated' = (outdated \/ Load(files) # running
                        \/ DOMAIN u.set \cap DOMAIN deploy.env # {})
    /\ halved' = (halved \/ Has(u.tables) # Has(u.connections))

\* POST /api/save: validate, then write.
Save(u) ==
    /\ Asked
    /\ Valid(u)
    /\ Accept(u, "save", None)
    /\ onlySaved' = onlySaved \cup (DOMAIN u.set \cap LIVE_SETTINGS)
    /\ UNCHANGED <<deploy, files, running, phase, deleting, builder, restarts, onlyLive>>

\* apply_live_settings.
Applied(u) ==
    [running EXCEPT !.set = [k \in DOMAIN u.set \cap LIVE_SETTINGS |-> u.set[k]] @@ @]

\* POST /api/apply: change the running process first, then write.
Apply(u) ==
    /\ Asked
    /\ Valid(u)
    /\ Accept(u, "apply", None)
    /\ running' = Applied(u)
    /\ onlySaved' = onlySaved \ DOMAIN u.set
    /\ onlyLive' = onlyLive \ DOMAIN u.set
    /\ UNCHANGED <<deploy, files, phase, deleting, builder, restarts>>

\* POST /api/open-mirror/save: one file, replaced at once.
SaveTargets(ts) ==
    /\ Asked
    /\ ValidTargets(ts)
    /\ files' = [files EXCEPT !.targets = ts]
    /\ deleting' = IF Has(deleting) THEN [deleting EXCEPT !.raced = TRUE] ELSE deleting
    /\ UNCHANGED <<deploy, running, phase, writing, builder, restarts, past>>

\* POST /api/mounts: the flag that enables them, when the request has one and
\* its validation allows it, then the mounts.
SaveMounts(ms, enabled) ==
    LET flag == [set |-> IF Has(enabled) THEN "enable_storage_proxy" :> enabled ELSE <<>>,
                 tables |-> None, connections |-> None, mounts |-> ms]
    IN  /\ Asked
        /\ ValidMounts(ms)
        /\ Accept(IF Valid(flag) THEN flag ELSE [flag EXCEPT !.set = <<>>], "mounts", None)
        /\ UNCHANGED <<deploy, files, running, phase, deleting, builder, restarts,
                       onlyLive, onlySaved>>

(***************************************************************************)
(* write_config_updates: merge into one file after another, each through a *)
(* temporary file.  The last file ends the handler.                        *)
(***************************************************************************)
MergeReplaces(f, u) ==
    [files EXCEPT
        !.scalars = IF Rank[f] = 1 THEN [k \in {k \in DOMAIN u.set : FileOf[k] = f} |-> u.set[k]] ELSE @,
        !.tables = IF f = "tables" THEN u.tables ELSE @,
        !.connections = IF f = "connection" THEN u.connections ELSE @,
        !.mounts = IF f = "mounts" THEN u.mounts ELSE @]

Merge(f, u) ==
    [files EXCEPT
        !.scalars = [k \in {k \in DOMAIN u.set : FileOf[k] = f} |-> u.set[k]] @@ @,
        !.tables = IF f = "tables" THEN u.tables ELSE @,
        !.connections = IF f = "connection" THEN u.connections ELSE @,
        !.mounts = IF f = "mounts" THEN u.mounts ELSE @]

Remember ==
    /\ removed' = CASE writing.kind = "delete" -> removed \cup {writing.by.conn}
                    [] writing.kind = "apply" /\ Has(writing.update.connections) ->
                           removed \ writing.update.connections
                    [] OTHER -> removed
    /\ override' = IF writing.kind = "apply" /\ Has(writing.update.tables)
                   THEN [tables |-> writing.update.tables] ELSE override

WriteFile ==
    /\ phase = "up" /\ Has(writing)
    /\ \E f \in writing.left :
        /\ \A g \in writing.left : Rank[f] <= Rank[g]
        /\ files' = Merge(f, writing.update)
        /\ IF writing.left = {f}
           THEN writing' = None /\ Remember
           ELSE writing' = [writing EXCEPT !.left = @ \ {f}] /\ UNCHANGED builder
    /\ UNCHANGED <<deploy, running, phase, deleting, requests, restarts, past>>

\* An OSError: the handler answers with an error; what it wrote stays.  That
\* the flag was not saved does not keep the mounts from being saved.
WriteFails ==
    /\ phase = "up" /\ Has(writing)
    /\ writing' = IF {"system", "mounts"} \subseteq writing.left
                  THEN [writing EXCEPT !.left = {"mounts"}] ELSE None
    /\ onlyLive' = IF writing.kind = "apply"
                   THEN onlyLive \cup (DOMAIN writing.update.set \cap LIVE_SETTINGS)
                   ELSE onlyLive
    /\ halved' = TRUE
    /\ UNCHANGED <<deploy, files, running, phase, deleting, builder, requests,
                   restarts, outdated, onlySaved>>

(***************************************************************************)
(* DELETE /api/connections/{id}: refuse while a target uses the            *)
(* connection, await the body, then save what the page leaves.             *)
(***************************************************************************)
DeleteChecks(c) ==
    /\ Asked
    /\ deleting = None
    /\ c \in View.connections
    /\ \A t \in LoadTargets : t.conn # c
    /\ deleting' = [conn |-> c, connections |-> View.connections \ {c}, raced |-> FALSE,
                    tables |-> {t \in View.tables : t.conn # c}]
    /\ UNCHANGED <<deploy, files, running, phase, writing, builder, restarts, past>>

DeleteWrites ==
    LET u == [set |-> <<>>, tables |-> deleting.tables,
              connections |-> deleting.connections, mounts |-> None]
    IN  /\ phase = "up" /\ writing = None /\ Has(deleting)
        /\ deleting' = None
        /\ IF Valid(u) THEN Accept(u, "delete", deleting)
                       ELSE UNCHANGED <<writing, outdated, halved>>
        /\ UNCHANGED <<deploy, files, running, phase, builder, requests, restarts,
                       onlyLive, onlySaved>>

(***************************************************************************)
(* The process stops, because it was asked to or in the middle of a write, *)
(* and is started again: it imports the files and validates them.          *)
(***************************************************************************)
Restart ==
    LET starts == Problems(Load(files)) = {}
    IN  /\ restarts < deploy.restarts
        /\ restarts' = restarts + 1
        /\ running' = Load(files)
        /\ phase' = IF starts THEN "up" ELSE "refused"
        /\ writing' = None /\ deleting' = None
        /\ removed' = {} /\ override' = None
        /\ outdated' = (outdated /\ ~starts)
        /\ halved' = ((halved \/ Has(writing)) /\ ~starts)
        /\ onlyLive' = {} /\ onlySaved' = {}
        /\ UNCHANGED <<deploy, files, requests>>

Next ==
    \/ \E u \in Updates : Save(u) \/ Apply(u)
    \/ \E ts \in TargetSets : SaveTargets(ts)
    \/ \E ms \in MountSets, enabled \in {TRUE, None} : SaveMounts(ms, enabled)
    \/ \E c \in Named : DeleteChecks(c)
    \/ WriteFile \/ WriteFails \/ DeleteWrites \/ Restart

Spec == Init /\ [][Next]_vars
-----------------------------------------------------------------------------
TypeOK ==
    /\ phase \in {"up", "refused"}
    /\ DOMAIN files.scalars \subseteq Keys
    /\ files.connections \subseteq Named
    /\ files.targets \in TargetSets \cup {deploy.targets}
    /\ running.connections \subseteq Conns
    /\ DOMAIN running.set = Keys
    /\ onlyLive \cup onlySaved \subseteq LIVE_SETTINGS

\* The rules of validate_config that validate_setting_updates never looks at.
Unchecked == {"range", "order", "deferred", "lazy_shards", "random_refresh",
              "random_virtual", "tokenization", "alias_tokenised",
              "target", "mount_root", "mount_auth"}

(***************************************************************************)
(* What the console accepts, the next start accepts, but for the rules     *)
(* only validate_config has: a rule on snapshot consistency is broken only *)
(* after an update was checked against values a restart does not give the  *)
(* process (config.py validates against its import-time attributes), and   *)
(* no table is left only after tables and connections were not written     *)
(* together.                                                               *)
(***************************************************************************)
AcceptedStarts ==
    writing = None => \A r \in Problems(Load(files)) :
        \/ r \in Unchecked
        \/ r \in Snapshot /\ (outdated \/ halved)
        \/ r = "no_tables" /\ halved

(***************************************************************************)
(* What apply_config made live a restart does not take back: a live        *)
(* setting changes at a restart only if it was saved and not applied, its  *)
(* write failed after it was made live, or an environment variable pins    *)
(* it.                                                                     *)
(***************************************************************************)
ApplySurvivesRestart ==
    [][restarts' # restarts /\ writing = None =>
        \A k \in LIVE_SETTINGS :
            \/ running'.set[k] = running.set[k]
            \/ k \in onlySaved \cup onlyLive \cup DOMAIN deploy.env]_vars
=============================================================================
