---------------------------- MODULE Credentials ----------------------------
(***************************************************************************)
(* The credential store and what reads and writes it: the console handlers *)
(* of the Manager (configbuilder/router.py), the start of a Manager and of *)
(* an Agent, the Agent's Key Vault refresh thread, the access-key cache    *)
(* that authenticates S3 requests, and backup and restore.                 *)
(*                                                                         *)
(* credentials.json is read, changed and written back without a lock, by   *)
(* the Manager and by the refresh thread of the Agent: the two halves of   *)
(* such a change are steps of their own here.  A secret is the number of   *)
(* the event that produced it; an encrypted record is that number with the *)
(* cipher it was encrypted under.                                          *)
(***************************************************************************)
EXTENDS Naturals, FiniteSets, Functions, TLC

CONSTANTS None, Deployments, BackendOf, Ttl, MaxClock, MaxEvents

Ids == {"default", "named", "admin", "token", "reader"}

Section == [default |-> "connections", named |-> "connections",
            admin |-> "secrets", token |-> "secrets", reader |-> "access_keys"]

VARIABLES
    deploy,     \* the deployment: which ids, vault, and which parts are active
    cipher,     \* the cipher the running processes encrypt and decrypt with
    file,       \* credentials.json
    vault,      \* the Key Vault
    env,        \* os.environ of the Manager and of the Agent
    agentUp,
    op,         \* the console handler at work on the store
    refresh,    \* the Agent's refresh thread
    clock, cache, check, answer,          \* access keys in the Agent
    disk, leased, archive, restore,       \* what a backup holds, and a restore
    events,
    saved, excused, touched, gone  \* history

store == <<deploy, cipher, vault, env, agentUp, op, refresh>>
keys == <<clock, cache, check, answer>>
recovery == <<disk, leased, archive, restore>>
past == <<saved, excused, touched>>
vars == <<store, file, keys, recovery, events, past, gone>>

Values == 0 .. MaxEvents
Ciphers == DOMAIN BackendOf
VaultIds == {"default", "admin"}
EnvIds == {"default", "named", "token", "admin"}
NoEnv == [i \in Ids |-> None]

Part(p) == p \in deploy.parts
Event == events > 0 /\ events' = events - 1

(***************************************************************************)
(* The store.  Stored is get_url, get_secret and get_access_key; Put the   *)
(* set_ operations, which drop the section of the id when the file was     *)
(* written by another backend; Drop the delete operations.                 *)
(***************************************************************************)
Stored(f, c, id) ==
    IF f.backend = BackendOf[c] /\ id \in DOMAIN f.recs /\ f.recs[id].key = c
      THEN f.recs[id].val ELSE None

Put(f, id, v) ==
    LET readable == {i \in DOMAIN f.recs : \/ f.backend = BackendOf[cipher]
                                           \/ Section[i] # Section[id]}
    IN  [backend |-> BackendOf[cipher],
         recs |-> (id :> [val |-> v, key |-> cipher]) @@ Restrict(f.recs, readable)]

Drop(f, id) ==
    [backend |-> BackendOf[cipher], recs |-> Restrict(f.recs, DOMAIN f.recs \ {id})]

Export(f, c) ==
    [i \in {j \in DOMAIN f.recs : Stored(f, c, j) # None} |-> f.recs[i].val]

Replace(recs) ==
    [backend |-> BackendOf[cipher],
     recs |-> [i \in DOMAIN recs |-> [val |-> recs[i], key |-> cipher]]]

Changed(f, g, but) ==
    {i \in (DOMAIN f.recs \cup DOMAIN g.recs) \ {but} :
        ~(i \in DOMAIN f.recs /\ i \in DOMAIN g.recs /\ f.recs[i] = g.recs[i])}

Idle == [at |-> "fetch", id |-> "default", val |-> None, data |-> None]
NotRestoring == [step |-> "never", before |-> None, aside |-> None,
                 asideHa |-> None, swapped |-> {}]

Init ==
    /\ deploy \in Deployments
    /\ cipher = deploy.cipher
    /\ file = Replace([i \in deploy.ids |-> 0])
    /\ vault = [i \in Ids |-> IF deploy.vault /\ i \in deploy.ids THEN 0 ELSE None]
    /\ env = [p \in {"Manager", "Agent"} |->
                [i \in Ids |-> IF i \in deploy.ids \cap EnvIds THEN 0 ELSE None]]
    /\ agentUp = TRUE /\ op = None /\ refresh = Idle
    /\ clock = 0 /\ cache = None /\ check = None /\ answer = None
    /\ disk = [c1 |-> 0, c2 |-> 0, mirror |-> 0, ha |-> None]
    /\ leased = FALSE /\ archive = None /\ restore = NotRestoring
    /\ events = deploy.events
    /\ saved = NoEnv /\ excused = {} /\ touched = FALSE
    /\ gone = [v \in Values \cup {None} |-> 0]

(***************************************************************************)
(* The console.  A handler reads the file, writes it back, and then        *)
(* mirrors the change to the Key Vault, where a failure is swallowed; a    *)
(* save also sets the Manager's environment, for a tokenization key unless *)
(* the launcher had set another value.                                     *)
(***************************************************************************)
Begin(kind, id) ==
    /\ Part("console") /\ op = None /\ Event
    /\ id \in deploy.ids \ {"admin"}
    /\ \E apply \in {FALSE} \cup (IF kind = "save" /\ id # "reader" THEN deploy.applies ELSE {}) :
         op' = [kind |-> kind, id |-> id, val |-> events, data |-> file, apply |-> apply,
                prev |-> Stored(file, cipher, id), persisted |-> FALSE]
    /\ UNCHANGED <<deploy, cipher, file, vault, env, agentUp, refresh, keys, recovery, past>>

Persist ==
    /\ op # None /\ ~op.persisted
    /\ UNCHANGED <<deploy, cipher, vault, env, agentUp, refresh, keys, recovery, events>>
    /\ IF op.kind = "delete" /\ op.id \notin DOMAIN op.data.recs
         THEN op' = None /\ UNCHANGED <<file, past>>
         ELSE /\ file' = IF op.kind = "save" THEN Put(op.data, op.id, op.val)
                                             ELSE Drop(op.data, op.id)
              /\ op' = [op EXCEPT !.persisted = TRUE]
              /\ LET reverted == Changed(op.data, file, op.id) IN
                 /\ saved' = [saved EXCEPT ![op.id] = IF op.kind = "save" THEN op.val ELSE None]
                 /\ excused' = (excused \ {op.id}) \cup reverted
              /\ touched' = TRUE

ManagerEnv ==
    LET current == env["Manager"][op.id] IN
    IF op.kind = "save" /\ \/ Section[op.id] = "connections"
                           \/ op.id = "token" /\ current \in {None, op.prev}
      THEN [env EXCEPT !["Manager"][op.id] = op.val] ELSE env

Respawns == op.apply /\ ManagerEnv["Manager"][op.id] = op.val

Mirror(up) ==
    IF ~up \/ ~deploy.writeBack THEN vault
    ELSE [vault EXCEPT ![op.id] = IF op.kind = "save" THEN op.val ELSE None]

Finish(up) ==
    /\ op # None /\ op.persisted
    /\ IF up THEN UNCHANGED events ELSE deploy.writeBack /\ Part("outage") /\ Event
    /\ vault' = Mirror(up)
    /\ env' = IF Respawns THEN [ManagerEnv EXCEPT !["Agent"] = NoEnv] ELSE ManagerEnv
    /\ agentUp' = (agentUp /\ ~Respawns)
    /\ refresh' = IF Respawns THEN Idle ELSE refresh
    /\ op' = None
    /\ UNCHANGED <<deploy, cipher, file, keys, recovery, saved, excused, touched>>

(***************************************************************************)
(* Starting a process.  hydrate_from_keyvault resolves the secrets that    *)
(* the environment lacks: db_url from the vault, or from the store while   *)
(* the vault is away; the others from the store also when the vault has    *)
(* none.  A Manager then fills what is left from the store.                *)
(***************************************************************************)
Resolve(e, f, c, up, id) ==
    CASE e[id] # None -> None
      [] up /\ vault[id] # None -> vault[id]
      [] up /\ id = "default" -> None
      [] OTHER -> Stored(f, c, id)

Starts(e, c, up) ==
    ~up /\ deploy.require => \A id \in VaultIds : e[id] # None \/ Stored(file, c, id) # None

HydrateOne(s, c, up, id) ==
    LET v == IF deploy.vault THEN Resolve(s.env, s.file, c, up, id) ELSE None
        kept == {i \in DOMAIN s.file.recs : \/ s.file.backend = BackendOf[c]
                                            \/ Section[i] # Section[id]}
    IN  IF v = None THEN s
        ELSE [env |-> [s.env EXCEPT ![id] = v],
              file |-> [backend |-> BackendOf[c],
                        recs |-> (id :> [val |-> v, key |-> c]) @@ Restrict(s.file.recs, kept)]]

FromVault(e, c, up) ==
    HydrateOne(HydrateOne([env |-> e, file |-> file], c, up, "default"), c, up, "admin")

FillUrlsOnly(e, f, c) ==
    [i \in Ids |-> IF e[i] = None /\ Section[i] = "connections" THEN Stored(f, c, i) ELSE e[i]]

HydrateEnvironment(e, f, c) ==
    [i \in Ids |-> IF e[i] = None /\ i \in EnvIds \ {"admin"} THEN Stored(f, c, i) ELSE e[i]]

\* The vault holds another secret than the one last saved.
Overruled == {i \in VaultIds : deploy.vault /\ vault[i] \notin {None, saved[i]}}

Preset == [i \in Ids |-> IF i \in deploy.preset THEN 0 ELSE None]

AgentStart(up) ==
    /\ ~agentUp /\ agentUp' = TRUE
    /\ IF up THEN UNCHANGED events ELSE deploy.vault /\ Part("outage") /\ Event
    /\ Starts(env["Manager"], cipher, up)
    /\ LET s == FromVault(env["Manager"], cipher, up) IN
       /\ env' = [env EXCEPT !["Agent"] = s.env]
       /\ file' = s.file
       /\ excused' = excused \cup Overruled
       /\ touched' = (touched \/ file' # file)
    /\ UNCHANGED <<deploy, cipher, vault, op, refresh, keys, recovery, saved>>

\* The Manager is restarted, or crashes and is started again, and its Agent with it.
Restart(c, up) ==
    /\ Part("restart") /\ Event
    /\ c = cipher \/ Part("cipher")
    /\ up \/ (deploy.vault /\ Part("outage"))
    /\ Starts(Preset, c, up)
    /\ cipher' = c
    /\ LET s == FromVault(Preset, c, up) IN
       /\ env' = [Manager |-> HydrateEnvironment(s.env, s.file, c), Agent |-> NoEnv]
       /\ file' = s.file
       /\ excused' = excused \cup deploy.preset
              \cup Overruled \cup (IF c # cipher THEN Ids ELSE {})
       /\ touched' = (touched \/ file' # file \/ c # cipher)
    /\ agentUp' = FALSE /\ op' = None /\ refresh' = Idle
    /\ cache' = None /\ check' = None
    /\ restore' = IF restore.step \in {"never", "ok", "failed", "crashed"} THEN restore
                  ELSE [restore EXCEPT !.step = "crashed"]
    /\ UNCHANGED <<deploy, vault, clock, answer, disk, leased, archive, saved>>

\* Someone sets a new secret in the vault.
Rotate(id) ==
    /\ Part("rotate") /\ deploy.vault /\ id \in deploy.ids \cap VaultIds /\ Event
    /\ vault' = [vault EXCEPT ![id] = events]
    /\ UNCHANGED <<deploy, cipher, file, env, agentUp, op, refresh, keys, recovery, saved,
                   excused, touched>>

(***************************************************************************)
(* refresh_secrets_once, again and again in a thread of the Agent.         *)
(***************************************************************************)
NextSecret == [Idle EXCEPT !.id = IF refresh.id = "default" THEN "admin" ELSE "default"]

RefreshFetch ==
    /\ deploy.vault /\ agentUp /\ refresh.at = "fetch"
    /\ refresh' = IF vault[refresh.id] = None THEN NextSecret
                  ELSE [refresh EXCEPT !.at = "load", !.val = vault[refresh.id]]
    /\ UNCHANGED <<deploy, cipher, file, vault, env, agentUp, op, keys, recovery, events, past>>

RefreshFails ==
    /\ deploy.vault /\ agentUp /\ refresh.at = "fetch" /\ Part("outage") /\ Event
    /\ refresh' = Idle
    /\ UNCHANGED <<deploy, cipher, file, vault, env, agentUp, op, keys, recovery, past>>

RefreshLoad ==
    /\ refresh.at = "load"
    /\ refresh' = [refresh EXCEPT !.at = "save", !.data = file]
    /\ UNCHANGED <<deploy, cipher, file, vault, env, agentUp, op, keys, recovery, events, past>>

AgentEnv == [env EXCEPT !["Agent"][refresh.id] = refresh.val]

RefreshSave ==
    /\ refresh.at = "save"
    /\ file' = Put(refresh.data, refresh.id, refresh.val)
    /\ env' = AgentEnv
    /\ refresh' = NextSecret
    /\ LET reverted == Changed(refresh.data, file, refresh.id) IN
       /\ excused' = excused \cup reverted
             \cup (IF saved[refresh.id] = refresh.val THEN {} ELSE {refresh.id})
       /\ touched' = (touched \/ file' # file)
    /\ UNCHANGED <<deploy, cipher, vault, agentUp, op, keys, recovery, events, saved>>

(***************************************************************************)
(* Access keys: _all_keys, one request at a time.  The time that dates the *)
(* snapshot is read before the file is.                                    *)
(***************************************************************************)
Tick ==
    /\ Part("clock") /\ clock < MaxClock
    /\ clock' = clock + 1
    /\ UNCHANGED <<store, file, cache, check, answer, recovery, events, past>>

Check ==
    /\ Part("clock") /\ agentUp /\ check = None
    /\ IF cache # None /\ clock - cache.ts < Ttl
         THEN answer' = [val |-> cache.val, at |-> clock] /\ UNCHANGED check
         ELSE check' = [ts |-> clock, read |-> FALSE, val |-> None] /\ UNCHANGED answer
    /\ UNCHANGED <<store, file, clock, cache, recovery, events, past>>

ReadAll ==
    /\ check # None /\ ~check.read
    /\ check' = [check EXCEPT !.read = TRUE, !.val = Stored(file, cipher, "reader")]
    /\ UNCHANGED <<store, file, clock, cache, answer, recovery, events, past>>

InstallNow == [val |-> check.val, ts |-> clock]

Install == [val |-> check.val, ts |-> check.ts]

Answer ==
    /\ check # None /\ check.read
    /\ cache' = Install
    /\ answer' = [val |-> check.val, at |-> check.ts]
    /\ check' = None
    /\ UNCHANGED <<store, file, clock, recovery, events, past>>

(***************************************************************************)
(* create_backup and restore_backup.  The restore runs in a thread: it     *)
(* replaces the credentials, then the configuration files one by one, then *)
(* moves the Open Mirroring state and the Manager HA state aside and their *)
(* staged copies into place.  A directory is not moved onto a non-empty    *)
(* one.                                                                    *)
(***************************************************************************)
Backup ==
    /\ Part("restore") /\ archive = None /\ ~leased
    /\ archive' = [creds |-> Export(file, cipher), disk |-> disk]
    /\ UNCHANGED <<store, file, keys, disk, leased, restore, events, past>>

Restoring == restore.step \notin {"never", "ok", "failed", "crashed"}

\* _decrypt_archive and _validated_files: an archive that does not decrypt or does not
\* validate is refused before anything is changed.
Readable(a) == a # None

BeginRestore ==
    /\ Part("restore") /\ Readable(archive) /\ ~Restoring /\ ~leased /\ Event
    /\ restore' = [NotRestoring EXCEPT !.step = "creds",
                     !.before = [creds |-> Export(file, cipher), disk |-> disk]]
    /\ touched' = FALSE
    /\ UNCHANGED <<store, file, keys, disk, leased, archive, saved, excused>>

AfterStep == [creds |-> "c1", c1 |-> "c2", c2 |-> "mirror", mirror |-> "mirrorIn",
              mirrorIn |-> "ha", ha |-> "haIn", haIn |-> "ok"]

RestoreCredentials ==
    /\ restore.step = "creds"
    /\ file' = Replace(archive.creds)
    /\ restore' = [restore EXCEPT !.step = "c1"]
    /\ excused' = Ids
    /\ UNCHANGED <<store, keys, disk, leased, archive, events, saved, touched>>

RestoreMissing ==
    /\ restore.step \in {"c1", "c2"}
    /\ disk' = IF disk[restore.step] # None THEN disk
               ELSE [disk EXCEPT ![restore.step] = archive.disk[restore.step]]
    /\ restore' = [restore EXCEPT !.step = AfterStep[@]]
    /\ UNCHANGED <<store, file, keys, leased, archive, events, past>>

RestoreConfig ==
    /\ restore.step \in {"c1", "c2"}
    /\ disk' = [disk EXCEPT ![restore.step] = archive.disk[restore.step]]
    /\ restore' = [restore EXCEPT !.step = AfterStep[@]]
    /\ UNCHANGED <<store, file, keys, leased, archive, events, past>>

AsideOf(d) == IF d = "mirror" THEN "aside" ELSE "asideHa"

MoveAside(d) ==
    /\ restore.step = d
    /\ restore' = IF restore.before.disk[d] = None THEN [restore EXCEPT !.step = AfterStep[@]]
                  ELSE [restore EXCEPT !.step = AfterStep[@], ![AsideOf(d)] = disk[d]]
    /\ disk' = IF restore.before.disk[d] = None THEN disk ELSE [disk EXCEPT ![d] = None]
    /\ UNCHANGED <<store, file, keys, leased, archive, events, past>>

MoveIn(d) ==
    /\ restore.step = (IF d = "mirror" THEN "mirrorIn" ELSE "haIn")
    /\ disk[d] = None
    /\ disk' = [disk EXCEPT ![d] = archive.disk[d]]
    /\ restore' = [restore EXCEPT !.step = AfterStep[@], !.swapped = @ \cup {d}]
    /\ UNCHANGED <<store, file, keys, leased, archive, events, past>>

Occupied == \/ restore.step = "mirrorIn" /\ disk["mirror"] # None
            \/ restore.step = "haIn" /\ disk["ha"] # None

PutBack(s, d) ==
    LET cleared == IF d \in restore.swapped THEN None ELSE s[d] IN
    [s EXCEPT ![d] = IF restore[AsideOf(d)] # None THEN restore[AsideOf(d)] ELSE cleared]

\* A directory that is there again when its previous state is moved back ends
\* the rollback with another error.
Blocked(d) == restore[AsideOf(d)] # None /\ d \notin restore.swapped /\ disk[d] # None

RolledBack ==
    LET configs == [disk EXCEPT !["c1"] = restore.before.disk["c1"],
                                !["c2"] = restore.before.disk["c2"]]
        mirror  == PutBack(configs, "mirror")
    IN  IF Blocked("mirror") THEN configs
        ELSE IF Blocked("ha") THEN mirror ELSE PutBack(mirror, "ha")

RestoreFails ==
    /\ Restoring
    /\ IF Occupied THEN UNCHANGED events ELSE Event
    /\ file' = Replace(restore.before.creds)
    /\ disk' = RolledBack
    /\ restore' = [restore EXCEPT !.step = "failed"]
    /\ excused' = Ids
    /\ UNCHANGED <<store, keys, leased, archive, saved, touched>>

\* A console save, the publisher of Open Mirroring, or another Manager that
\* takes the lease and writes control state.
OtherWrites(part) ==
    /\ Part("restore") /\ archive # None /\ Event
    /\ disk' = [disk EXCEPT ![part] = events]
    /\ leased' = (leased \/ part = "ha")
    /\ touched' = TRUE
    /\ UNCHANGED <<store, file, keys, archive, restore, saved, excused>>

LeaseLapses ==
    /\ leased /\ leased' = FALSE
    /\ UNCHANGED <<store, file, keys, disk, archive, restore, events, past>>

-----------------------------------------------------------------------------

Console == \/ \E id \in Ids : Begin("save", id) \/ Begin("delete", id)
           \/ Persist
           \/ \E up \in BOOLEAN : Finish(up)

Start == \E up \in BOOLEAN : AgentStart(up) \/ \E c \in Ciphers : Restart(c, up)

Refresh == RefreshFetch \/ RefreshLoad \/ RefreshSave

Authenticate == Tick \/ Check \/ ReadAll \/ Answer

Recover ==
    \/ Backup \/ BeginRestore \/ RestoreCredentials \/ RestoreConfig \/ RestoreFails
    \/ \E d \in {"mirror", "ha"} : MoveAside(d) \/ MoveIn(d)
    \/ \E part \in {"c1", "mirror", "ha"} : OtherWrites(part)
    \/ LeaseLapses

\* When the secret of the access key last changed.
Observe ==
    LET before == Stored(file, cipher, "reader") IN
    gone' = IF before = Stored(file', cipher', "reader") THEN gone
            ELSE [gone EXCEPT ![before] = clock]

Next ==
    /\ \/ Console \/ Start \/ Refresh \/ RefreshFails \/ Authenticate \/ Recover
       \/ \E id \in VaultIds : Rotate(id)
    /\ Observe

Spec == Init /\ [][Next]_vars
-----------------------------------------------------------------------------
TypeOK ==
    /\ cipher \in Ciphers
    /\ DOMAIN file.recs \subseteq deploy.ids
    /\ \A i \in DOMAIN file.recs : file.recs[i].key \in Ciphers
    /\ \A i \in Ids : vault[i] \in Values \cup {None}
    /\ \A p \in DOMAIN env : env[p]["reader"] = None
    /\ ~agentUp => refresh = Idle
    /\ restore.swapped \subseteq {"mirror", "ha"}

\* "Encrypt + persist a connection's DB URL so it survives a restart"
\* (save_credential): a restarted Manager runs with what was last saved, unless
\* the launcher or the vault holds another value, the cipher was replaced, or
\* another process wrote back a file it had read before.
SaveSurvivesRestart ==
    [][(\E c \in Ciphers, up \in BOOLEAN : Restart(c, up))
       => \A i \in {"default", "named", "token"} :
            saved[i] # None /\ i \notin excused' => env'["Manager"][i] = saved[i]]_vars

\* _all_keys never answers from a snapshot older than its time to live: the
\* secret a request is checked against was in the store less than Ttl before
\* the request began.
KeysFreshWithinTtl ==
    answer # None => \/ answer.val = Stored(file, cipher, "reader")
                     \/ gone[answer.val] + Ttl > answer.at

\* A restore that no other writer touched leaves exactly what was archived; one
\* that fails at any of its steps leaves the credentials, the configuration and
\* both states as they were (restore_backup and its rollback).
RestoreIsWhole ==
    ~touched =>
        /\ restore.step = "ok" =>
              Export(file, cipher) = archive.creds /\ disk = archive.disk
        /\ restore.step = "failed" =>
              Export(file, cipher) = restore.before.creds /\ disk = restore.before.disk
=============================================================================
