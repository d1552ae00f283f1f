---------------------------- MODULE ArtifactStore ----------------------------
(***************************************************************************)
(* The artifact stores, called by Managers, Agents and their threads at    *)
(* the same time: MemoryStore (a dict under a lock), LocalDirStore (files  *)
(* under a lock file), AzureBlobArtifactStore (blobs under a blob lease),  *)
(* S3ArtifactStore and GCSArtifactStore (conditional requests, no lock).   *)
(*                                                                         *)
(* Root records (the Manager lease, the generation coordinator, a catalog  *)
(* entry) change by compare_and_swap only.  Other records are written      *)
(* under the fence or the guard that a root gives.  Immutable artifacts    *)
(* are created once, and other objects are just overwritten.               *)
(***************************************************************************)
EXTENDS Integers, Sequences

CONSTANTS
    Clients,      \* callers
    Roots, RecordKeys, Immutables, Plain, \* keys, by how the code writes them
    Contents,     \* what an object can hold
    TokenOf,      \* the owner and fence that a root record of some content names
    Batches,      \* the sequences of puts that callers make of records
    Backends,     \* the configured stores
    MaxCalls,     \* calls in a behaviour
    Nil           \* no key, no object, no caller

Keys == Roots \cup RecordKeys \cup Immutables \cup Plain
Tokens == {TokenOf[v] : v \in Contents}

\* What build_store offers and the callers keep to: the kinds of keys are
\* different objects, and a batch, a dict, writes each of its records once.
Layout ==
    /\ Backends \subseteq {"memory", "local", "azure", "s3", "gcs"}
    /\ Nil \notin Keys \cup Contents \cup Clients
    /\ Roots \cap (RecordKeys \cup Immutables \cup Plain) = {}
    /\ Immutables \cap (RecordKeys \cup Plain) = {}
    /\ \A b \in Batches :
          /\ b \in Seq([key : RecordKeys, val : Contents \cup {Nil}]) /\ Len(b) > 0
          /\ \A i, j \in DOMAIN b : b[i].key = b[j].key => i = j

ASSUME LayoutAssumption == Layout

VARIABLES
    backend,   \* the store's class
    objects,   \* the content of every key, Nil when absent
    etag,      \* the version of every key: ETag or generation
    writes,    \* writes so far, the source of new versions
    lock,      \* the holder of the lock file or of the lock blob's lease
    op,        \* every client's call in progress
    told,      \* history: immutable keys and contents reported as stored
    late,      \* history: a lease ran out while its holder was at work
    calls      \* calls so far

storeVars == <<backend, objects, etag, writes, lock, op, told, late, calls>>

PutOf(k, v) == [key |-> k, val |-> v]

\* A call: what it needs to find (guard, exp), whose fence it needs (fence,
\* tok), what it writes, how many of those have landed, the version it saw.
Ask(pc, kind, guard, exp, fence, tok, puts) ==
    [pc |-> pc, kind |-> kind, guard |-> guard, exp |-> exp, fence |-> fence, tok |-> tok,
     puts |-> puts, n |-> 0, seen |-> 0]

NoCall == Ask("idle", "none", Nil, Nil, Nil, Nil, <<>>)

GuardHolds(q) == q.guard # Nil => objects[q.guard] = q.exp
FenceNames(q) == q.fence # Nil => objects[q.fence] # Nil /\ TokenOf[objects[q.fence]] = q.tok

\* Where a caller holds the lock.
Held == {"fence", "guard", "etag", "upload", "write", "unlock"}
HoldsLock(c) == op[c].pc \in Held /\ backend \in {"local", "azure"}

\* build_store, and the roots as earlier calls left them.
StoreInit ==
    /\ backend \in Backends
    /\ \E r \in [Roots -> Contents \cup {Nil}] :
          objects = [k \in Keys |-> IF k \in Roots THEN r[k] ELSE Nil]
    /\ etag = [k \in Keys |-> IF objects[k] = Nil THEN 0 ELSE 1] /\ writes = 1
    /\ lock = Nil
    /\ op = [c \in Clients |-> NoCall]
    /\ told = {} /\ late = FALSE /\ calls = 0

-----------------------------------------------------------------------------
(* The calls *)

Becomes(c, q) == op' = [op EXCEPT ![c] = q]

Start(c, q) ==
    /\ op[c].pc = "idle" /\ calls < MaxCalls
    /\ Becomes(c, q)
    /\ calls' = calls + 1
    /\ UNCHANGED <<backend, objects, etag, writes, lock, told, late>>

\* Where a mutation that needs the lock starts.
FirstStep == IF backend = "memory" THEN "apply" ELSE "lock"

CompareAndSwap(c) ==
    \E k \in Roots, e \in Contents \cup {Nil}, v \in Contents :
        Start(c, Ask(IF backend \in {"s3", "gcs"} THEN "read" ELSE FirstStep,
                     "swap", k, e, Nil, Nil, <<PutOf(k, v)>>))

\* fenced_put and fenced_delete (the latter writes Nil).
FencedPut(c) ==
    /\ backend \in {"memory", "local", "azure"}
    /\ \E f \in Roots, t \in Tokens, b \in Batches :
          Len(b) = 1 /\ Start(c, Ask(FirstStep, "fenced", Nil, Nil, f, t, b))

\* guarded_put_batch and, with a fence, fenced_guarded_put_batch.
GuardedPutBatch(c) ==
    /\ backend \in {"memory", "local", "azure"}
    /\ \E g \in Roots, e \in Contents, b \in Batches :
        /\ \A i \in DOMAIN b : b[i].val # Nil
        /\ \/ Start(c, Ask(FirstStep, "fenced", g, e, Nil, Nil, b))
           \/ \E f \in Roots, t \in Tokens : Start(c, Ask(FirstStep, "fenced", g, e, f, t, b))

\* The base class makes it of compare_and_swap, the cloud stores of an upload
\* on the condition that the key is absent.
PutStreamIfAbsent(c) ==
    \E k \in Immutables, v \in Contents :
        Start(c, Ask(IF backend \in {"memory", "local"} THEN FirstStep ELSE "stage",
                     "create", k, Nil, Nil, Nil, <<PutOf(k, v)>>))

\* put_stream, put and delete.
PutStream(c) ==
    \E k \in Plain, v \in Contents \cup {Nil} :
        Start(c, Ask("stage", "put", Nil, Nil, Nil, Nil, <<PutOf(k, v)>>))

-----------------------------------------------------------------------------
(* Steps of a call *)

Goes(c, pc) == Becomes(c, [op[c] EXCEPT !.pc = pc])
Saw(q, pc, version) == [q EXCEPT !.pc = pc, !.seen = version]
Wrote(q, pc, n) == [q EXCEPT !.pc = pc, !.n = n]

\* The next of the call's writes lands, with a new version.
Lands(c, pc) ==
    LET p == op[c].puts[op[c].n + 1]
    IN  /\ objects' = [objects EXCEPT ![p.key] = p.val]
        /\ etag' = [etag EXCEPT ![p.key] = writes + 1]
        /\ writes' = writes + 1
        /\ Becomes(c, Wrote(op[c], pc, op[c].n + 1))

Reads == UNCHANGED <<backend, objects, etag, writes, lock, told, late, calls>>
Writes == UNCHANGED <<backend, lock, told, late, calls>>

\* MemoryStore: conditions and writes under one threading lock.  A fence also
\* fails when its record has run out by the clock.
MemoryApply(c) ==
    LET q == op[c]
        Landed(k) == {i \in DOMAIN q.puts : q.puts[i].key = k}
    IN  /\ backend = "memory" /\ q.pc = "apply"
        /\ \/ /\ GuardHolds(q) /\ FenceNames(q)
              /\ objects' = [k \in Keys |-> IF Landed(k) = {} THEN objects[k]
                                         ELSE q.puts[CHOOSE i \in Landed(k) : TRUE].val]
              /\ Becomes(c, Wrote(q, "done", Len(q.puts)))
           \/ /\ ~GuardHolds(q) \/ q.fence # Nil
              /\ Goes(c, "done") /\ UNCHANGED objects
        /\ UNCHANGED <<etag, writes>> /\ Writes

\* The lock is taken when it is free; a caller that waited too long gets a
\* TimeoutError.
Acquire(c) ==
    /\ op[c].pc = "lock"
    /\ \/ lock = Nil /\ lock' = c /\ Goes(c, "fence")
       \/ lock # Nil /\ lock' = lock /\ Becomes(c, NoCall)
    /\ UNCHANGED <<backend, objects, etag, writes, told, late, calls>>

\* The fence, for a call that has one: the record, its owner, its fence and its
\* deadline.
CheckFence(c) ==
    /\ op[c].pc = "fence"
    /\ \/ FenceNames(op[c]) /\ Goes(c, "guard")
       \/ op[c].fence # Nil /\ Goes(c, "unlock")
    /\ Reads

\* LocalDirStore: an exclusive lock on .fsp-cas.lock, and _fence_matches.
CasLock(c) == backend = "local" /\ Acquire(c)
LocalFence(c) == backend = "local" /\ CheckFence(c)

\* The comparison of the guard, or of the key that is swapped.
LocalGuard(c) ==
    /\ backend = "local" /\ op[c].pc = "guard"
    /\ Goes(c, IF GuardHolds(op[c]) THEN "write" ELSE "unlock")
    /\ Reads

More(q) == q.n + 1 < Len(q.puts)

\* put: a temporary file, then os.replace.
LocalPut(c) ==
    /\ backend = "local" /\ op[c].pc = "write"
    /\ Lands(c, IF More(op[c]) THEN "write" ELSE "unlock")
    /\ Writes

\* The end of the with block: the lock is given up.  Azure refuses to release
\* a lease that ran out and that another has taken, and the call raises.
Unlock(c) ==
    /\ op[c].pc = "unlock"
    /\ IF lock \in {c, Nil} THEN lock' = Nil /\ Goes(c, "done")
       ELSE lock' = lock /\ Becomes(c, NoCall)
    /\ UNCHANGED <<backend, objects, etag, writes, told, late, calls>>

-----------------------------------------------------------------------------
(* AzureBlobArtifactStore *)

\* _mutation_lock takes the lease of the lock blob; _read_fence.
MutationLock(c) == backend = "azure" /\ Acquire(c)
ReadFence(c) == backend = "azure" /\ CheckFence(c)

\* The guard of a batch; for a swap the current content, whose version is
\* asked for next unless there is none.
ReadGuard(c) ==
    LET q == op[c]
    IN  /\ backend = "azure" /\ q.pc = "guard"
        /\ Goes(c, CASE ~GuardHolds(q) -> "unlock"
                     [] GuardHolds(q) /\ q.kind # "swap" -> "write"
                     [] GuardHolds(q) /\ q.kind = "swap" /\ q.exp = Nil -> "upload"
                     [] OTHER -> "etag")
        /\ Reads

\* get_blob_properties.
ReadEtag(c) ==
    LET q == op[c]
    IN  /\ backend = "azure" /\ q.pc = "etag"
        /\ Becomes(c, Saw(q, IF objects[q.guard] = Nil THEN "unlock" ELSE "upload", etag[q.guard]))
        /\ Reads

\* An upload goes through if the key is absent (seen = 0) or has the version seen.
Unchanged(q) == IF q.seen = 0 THEN objects[q.guard] = Nil
                ELSE objects[q.guard] # Nil /\ etag[q.guard] = q.seen

\* Mutant: the upload is not conditional.
UploadBlind(c, pc) == Lands(c, pc) /\ Writes

Upload(c, pc) ==
    \/ Unchanged(op[c]) /\ Lands(c, pc) /\ Writes
    \/ ~Unchanged(op[c]) /\ Goes(c, pc) /\ Reads

\* compare_and_swap's upload_blob, with if_match or without overwrite.
AzureSwap(c) ==
    /\ backend = "azure" /\ op[c].pc = "upload"
    /\ Upload(c, "unlock")

\* put of a fenced or guarded write.
AzurePut(c) ==
    /\ backend = "azure" /\ op[c].pc = "write"
    /\ Lands(c, IF More(op[c]) THEN "write" ELSE "unlock")
    /\ Writes

\* The lock blob's lease runs out after sixty seconds: its holder died, or
\* takes longer than that.
Lapse ==
    /\ backend = "azure" /\ lock # Nil
    /\ lock' = Nil
    /\ late' = (late \/ HoldsLock(lock))
    /\ UNCHANGED <<backend, objects, etag, writes, op, told, calls>>

-----------------------------------------------------------------------------
(* S3ArtifactStore and GCSArtifactStore *)

\* Zero for an object that is absent.
Version(k) == IF objects[k] = Nil THEN 0 ELSE etag[k]

\* compare_and_swap's get_object gives content and ETag together.
S3Read(c) ==
    LET q == op[c]
    IN  /\ backend = "s3" /\ q.pc = "read"
        /\ Becomes(c, Saw(q, IF GuardHolds(q) THEN "upload" ELSE "done", Version(q.guard)))
        /\ Reads

\* put_object with IfMatch or IfNoneMatch.
S3Swap(c) ==
    /\ backend = "s3" /\ op[c].pc = "upload"
    /\ Upload(c, "done")

\* reload gives the generation.
GcsReload(c) ==
    LET q == op[c]
    IN  /\ backend = "gcs" /\ q.pc = "read"
        /\ Becomes(c, Saw(q, CASE objects[q.guard] # Nil -> "download"
                               [] objects[q.guard] = Nil /\ q.exp = Nil -> "upload"
                               [] OTHER -> "done", Version(q.guard)))
        /\ Reads

\* download_as_bytes of that generation, compared with what is expected.
GcsDownload(c) ==
    LET q == op[c]
    IN  /\ backend = "gcs" /\ q.pc = "download"
        /\ Goes(c, IF Unchanged(q) /\ GuardHolds(q) THEN "upload" ELSE "done")
        /\ Reads

\* upload_from_string with if_generation_match.
GcsSwap(c) ==
    /\ backend = "gcs" /\ op[c].pc = "upload"
    /\ Upload(c, "done")

-----------------------------------------------------------------------------
(* Streams *)

\* A staged stream replaces the object.  The staged blocks, parts or temporary
\* file show nothing before.
Replaces(c) == op[c].kind = "put" /\ Lands(c, "done") /\ Writes

\* A cloud store also commits one that creates the object, if it is absent.
Commit(c) ==
    \/ Replaces(c)
    \/ op[c].kind = "create" /\ GuardHolds(op[c]) /\ Lands(c, "done") /\ Writes
    \/ op[c].kind = "create" /\ ~GuardHolds(op[c]) /\ Goes(c, "done") /\ Reads

MemoryCommit(c) == backend = "memory" /\ op[c].pc = "stage" /\ Replaces(c)
LocalCommit(c) == backend = "local" /\ op[c].pc = "stage" /\ Replaces(c)
AzureCommit(c) == backend = "azure" /\ op[c].pc = "stage" /\ Commit(c)
S3Commit(c) == backend = "s3" /\ op[c].pc = "stage" /\ Commit(c)
GcsCommit(c) == backend = "gcs" /\ op[c].pc = "stage" /\ Commit(c)

\* Mutant: an object that is already there is reported stored, unverified.
ReturnUnverified(c) ==
    /\ op[c].pc = "done"
    /\ Becomes(c, NoCall)
    /\ told' = IF op[c].kind = "create" THEN told \cup {op[c].puts[1]} ELSE told
    /\ UNCHANGED <<backend, objects, etag, writes, lock, late, calls>>

\* The call returns.  A creation that wrote nothing goes on to verify.
Return(c) ==
    LET q == op[c]
    IN  /\ q.pc = "done"
        /\ IF q.kind = "create" /\ q.n = 0
           THEN Goes(c, "verify") /\ told' = told
           ELSE /\ Becomes(c, NoCall)
                /\ told' = IF q.kind = "create" THEN told \cup {q.puts[1]} ELSE told
        /\ UNCHANGED <<backend, objects, etag, writes, lock, late, calls>>

\* verify: the size and hash of what is there; ObjectConflict if they differ.
Verify(c) ==
    LET q == op[c]
    IN  /\ q.pc = "verify"
        /\ Becomes(c, NoCall)
        /\ told' = IF objects[q.guard] = q.puts[1].val THEN told \cup {q.puts[1]} ELSE told
        /\ UNCHANGED <<backend, objects, etag, writes, lock, late, calls>>

-----------------------------------------------------------------------------
(* Failures *)

Busy(c) == op[c].pc \notin {"idle", "lock"}

\* A request or a write raises (a stream of the wrong length too): the with
\* block gives up the lock.
Raise(c) ==
    /\ Busy(c)
    /\ Becomes(c, NoCall)
    /\ lock' = IF lock = c /\ HoldsLock(c) THEN Nil ELSE lock
    /\ UNCHANGED <<backend, objects, etag, writes, told, late, calls>>

\* The caller's process dies: the operating system frees the lock file, the
\* blob's lease runs out by itself.
ClientCrash(c) ==
    /\ backend # "memory" /\ Busy(c)
    /\ Becomes(c, NoCall)
    /\ lock' = IF lock = c /\ backend = "local" THEN Nil ELSE lock
    /\ UNCHANGED <<backend, objects, etag, writes, told, late, calls>>

Call(c) ==
    \/ CompareAndSwap(c) \/ FencedPut(c) \/ GuardedPutBatch(c)
    \/ PutStreamIfAbsent(c) \/ PutStream(c)

Locked(c) ==
    \/ CasLock(c) \/ LocalFence(c) \/ LocalGuard(c) \/ LocalPut(c)
    \/ MutationLock(c) \/ ReadFence(c) \/ ReadGuard(c) \/ ReadEtag(c)
    \/ AzureSwap(c) \/ AzurePut(c) \/ Unlock(c)

Unlocked(c) ==
    \/ MemoryApply(c)
    \/ S3Read(c) \/ S3Swap(c) \/ GcsReload(c) \/ GcsDownload(c) \/ GcsSwap(c)
    \/ MemoryCommit(c) \/ LocalCommit(c) \/ AzureCommit(c) \/ S3Commit(c) \/ GcsCommit(c)

Ends(c) == Return(c) \/ Verify(c) \/ Raise(c) \/ ClientCrash(c)

StoreNext == Lapse \/ \E c \in Clients : Call(c) \/ Locked(c) \/ Unlocked(c) \/ Ends(c)

StoreSpec == StoreInit /\ [][StoreNext]_storeVars

-----------------------------------------------------------------------------
(* Properties *)

\* A write that was made conditional lands while its condition still holds: the
\* root it was compared with is as it was, and the fence still names its
\* caller.  One that is overtaken between check and write would break it; only
\* a caller that outlived its lease of Azure's lock may do that.
LandsAsChecked ==
    [][\A c \in Clients : op'[c].n > op[c].n =>
           late \/ (GuardHolds(op[c]) /\ FenceNames(op[c]))]_storeVars

\* Whoever was told that an immutable artifact is stored finds its own bytes
\* under the key, whatever others created, retried or lost meanwhile.
ToldIsStored == \A p \in told : objects[p.key] = p.val
=============================================================================
