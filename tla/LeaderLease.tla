---------------------------- MODULE LeaderLease ----------------------------
(***************************************************************************)
(* The Manager's leader lease: a TTL election over one compare-and-swap    *)
(* record of the shared artifact store, and the two kinds of durable write *)
(* that the lease fences.                                                  *)
(*                                                                         *)
(* One Manager process runs three threads over one LeaderLease object:     *)
(*   - the leadership loop, which acquires, renews and releases the lease; *)
(*   - a control-plane thread, whose mutate_state commits Manager state in *)
(*     the lease record itself;                                            *)
(*   - a work-queue thread (the queue's lock admits one), which reads a    *)
(*     queue record and later writes it back under a fence.                *)
(* Every access of the store is a step of its own, so that the threads and *)
(* the Managers interleave between a read and the write based on it.       *)
(*                                                                         *)
(* The record an operation finds when the key does not exist behaves like  *)
(* a released record of fence 0, so AbsentRecord stands for both.          *)
(***************************************************************************)
EXTENDS Naturals

CONSTANTS
    Managers,       \* Manager processes, by their owner_id
    NoOwner,        \* the empty owner_id of a released record
    StateNames,     \* names of the Manager states kept in the lease record
    TTL,            \* ttl_ms, in ticks; 0 when a tick is longer than the TTL
    AcquireTries,   \* CAS attempts of acquire_or_renew
    MutateTries,    \* CAS attempts of mutate_state
    MaxTime,        \* bound on the clock
    MaxFence,       \* bound on the number of leadership terms
    MaxWrites       \* bound on the number of queue-record writes

ASSUME LeaseAssumption ==
    /\ NoOwner \notin Managers
    /\ TTL \in Nat
    /\ AcquireTries \in Nat \ {0}
    /\ MutateTries \in Nat \ {0}
    /\ MaxTime \in Nat
    /\ MaxFence \in Nat
    /\ MaxWrites \in Nat

VARIABLES
    now,        \* the wall clock
    rec,        \* the lease record at LEASE_KEY
    isLeader,   \* LeaderLease._is_leader of each Manager
    fence,      \* LeaderLease.fence of each Manager
    loop,       \* the leadership loop's pending lease operation
    api,        \* the control-plane thread's pending mutate_state
    queue,      \* the work-queue thread's pending read-modify-write
    data,       \* a queue record: how often, and under which term, written
    terms       \* history: every <<fence, owner>> the record ever held

vars == <<now, rec, isLeader, fence, loop, api, queue, data, terms>>

----------------------------------------------------------------------------
(* The record.  state[n] is the term that last wrote state n. *)

Records == [owner : Managers \cup {NoOwner}, renew : Nat, fence : Nat,
            state : [StateNames -> Nat]]

AbsentRecord == [owner |-> NoOwner, renew |-> 0, fence |-> 0,
                 state |-> [n \in StateNames |-> 0]]

Expired(r, t) == t > r.renew + TTL

\* The liveness and identity test of validate and of mutate_state.
Holds(m, r, f, t) == r.owner = m /\ r.fence = f /\ ~Expired(r, t)

\* Mutant: the store writes without looking at the lease record.
FenceIgnored(m, f) == TRUE

\* The store's own test inside the lock of a fenced write.
FenceMatches(m, f) ==
    rec.owner = m /\ rec.fence = f /\ rec.renew > 0 /\ ~Expired(rec, now)

SameLiveOwner(m, r, t) == r.owner = m /\ ~Expired(r, t)

CanTake(m, r, t) == r.owner = NoOwner \/ Expired(r, t) \/ SameLiveOwner(m, r, t)

\* Mutant: a takeover keeps the fence of the expired term.
TakenInSameTerm(m, r, t) ==
    [owner |-> m, renew |-> t, state |-> r.state, fence |-> r.fence]

\* The record acquire_or_renew swaps in for r.
Taken(m, r, t) ==
    [owner |-> m, renew |-> t, state |-> r.state,
     fence |-> IF SameLiveOwner(m, r, t) THEN r.fence ELSE r.fence + 1]

Idle == [pc |-> "idle", raw |-> AbsentRecord, t |-> 0, tries |-> 0]

ApiIdle == [op |-> Idle, name |-> NoOwner]

QueueIdle == [pc |-> "idle", base |-> 0, seen |-> 0, term |-> 0]

Init ==
    /\ now = 1
    /\ rec = AbsentRecord
    /\ isLeader = [m \in Managers |-> FALSE]
    /\ fence = [m \in Managers |-> 0]
    /\ loop = [m \in Managers |-> Idle]
    /\ api = [m \in Managers |-> ApiIdle]
    /\ queue = [m \in Managers |-> QueueIdle]
    /\ data = [version |-> 0, term |-> 0]
    /\ terms = {}

\* LeaderLease._lose
Lose(m) ==
    /\ isLeader' = [isLeader EXCEPT ![m] = FALSE]
    /\ fence' = [fence EXCEPT ![m] = 0]

KeepLease == UNCHANGED <<isLeader, fence>>

----------------------------------------------------------------------------
(* acquire_or_renew *)

\* Read the record at the time t the call started.
AcquireFrom(m, t, tries) ==
    IF CanTake(m, rec, t)
    THEN /\ SameLiveOwner(m, rec, t) \/ rec.fence < MaxFence
         /\ loop' = [loop EXCEPT ![m] = [pc |-> "swap", raw |-> rec, t |-> t, tries |-> tries]]
         /\ KeepLease
    ELSE /\ loop' = [loop EXCEPT ![m] = Idle]
         /\ Lose(m)

AcquireRead(m) ==
    /\ \/ loop[m].pc = "idle" /\ AcquireFrom(m, now, 1)
       \/ loop[m].pc = "again" /\ AcquireFrom(m, loop[m].t, loop[m].tries + 1)
    /\ UNCHANGED <<now, rec, api, queue, data, terms>>

SwapIn(r) ==
    /\ rec' = r
    /\ terms' = terms \cup {<<r.fence, r.owner>>}

AcquireSwap(m) ==
    /\ loop[m].pc = "swap"
    /\ IF rec = loop[m].raw
       THEN /\ SwapIn(Taken(m, rec, loop[m].t))
            /\ loop' = [loop EXCEPT ![m].pc = "won"]
            /\ KeepLease
       ELSE /\ UNCHANGED <<rec, terms>>
            /\ IF loop[m].tries < AcquireTries
               THEN loop' = [loop EXCEPT ![m].pc = "again"] /\ KeepLease
               ELSE loop' = [loop EXCEPT ![m] = Idle] /\ Lose(m)
    /\ UNCHANGED <<now, api, queue, data>>

\* The swap succeeded: publish the term in the LeaderLease object.
AcquireDone(m) ==
    /\ loop[m].pc = "won"
    /\ isLeader' = [isLeader EXCEPT ![m] = TRUE]
    /\ fence' = [fence EXCEPT ![m] = Taken(m, loop[m].raw, loop[m].t).fence]
    /\ loop' = [loop EXCEPT ![m] = Idle]
    /\ UNCHANGED <<now, rec, api, queue, data, terms>>

\* A store error is reported to the caller; the swap may have been applied.
AcquireError(m) ==
    /\ loop[m].pc \in {"idle", "swap", "again"}
    /\ \/ UNCHANGED <<rec, terms>>
       \/ /\ loop[m].pc = "swap" /\ rec = loop[m].raw
          /\ SwapIn(Taken(m, rec, loop[m].t))
    /\ loop' = [loop EXCEPT ![m] = Idle]
    /\ Lose(m)
    /\ UNCHANGED <<now, api, queue, data>>

----------------------------------------------------------------------------
(* release *)

ReleaseRead(m) ==
    /\ loop[m].pc = "idle"
    /\ IF rec.owner = m /\ rec.fence = fence[m]
       THEN /\ loop' = [loop EXCEPT ![m] = [Idle EXCEPT !.pc = "release", !.raw = rec]]
            /\ KeepLease
       ELSE /\ UNCHANGED loop
            /\ Lose(m)
    /\ UNCHANGED <<now, rec, api, queue, data, terms>>

ReleaseSwap(m) ==
    /\ loop[m].pc = "release"
    /\ \/ rec = loop[m].raw /\ rec' = [rec EXCEPT !.owner = NoOwner, !.renew = 0]
       \/ UNCHANGED rec         \* the swap failed, or the store raised an error
    /\ loop' = [loop EXCEPT ![m] = Idle]
    /\ Lose(m)
    /\ UNCHANGED <<now, api, queue, data, terms>>

----------------------------------------------------------------------------
(* mutate_state *)

MutateFrom(m, name, t, tries) ==
    IF Holds(m, rec, fence[m], t)
    THEN /\ api' = [api EXCEPT ![m] =
                      [op |-> [pc |-> "swap", raw |-> rec, t |-> t, tries |-> tries],
                       name |-> name]]
         /\ KeepLease
    ELSE /\ api' = [api EXCEPT ![m] = ApiIdle]
         /\ Lose(m)

MutateRead(m) ==
    /\ \/ /\ api[m].op.pc = "idle"
          /\ \E name \in StateNames : MutateFrom(m, name, now, 1)
       \/ /\ api[m].op.pc = "again"
          /\ MutateFrom(m, api[m].name, api[m].op.t, api[m].op.tries + 1)
    /\ UNCHANGED <<now, rec, loop, queue, data, terms>>

\* Mutant: the record read is put back without comparing.
MutateByPut(m) ==
    /\ api[m].op.pc = "swap"
    /\ rec' = [api[m].op.raw EXCEPT !.state[api[m].name] = api[m].op.raw.fence]
    /\ api' = [api EXCEPT ![m] = ApiIdle]
    /\ KeepLease
    /\ UNCHANGED <<now, loop, queue, data, terms>>

\* The store raises and the swap was not made.  When it was made all the same,
\* the step is MutateSwap: no variable tells whether the caller was answered.
MutateError(m) ==
    /\ api[m].op.pc = "swap"
    /\ api' = [api EXCEPT ![m] = ApiIdle]
    /\ UNCHANGED <<now, rec, isLeader, fence, loop, queue, data, terms>>

MutateSwap(m) ==
    /\ api[m].op.pc = "swap"
    /\ IF rec = api[m].op.raw
       THEN /\ rec' = [rec EXCEPT !.state[api[m].name] = rec.fence]
            /\ api' = [api EXCEPT ![m] = ApiIdle]
       ELSE /\ UNCHANGED rec
            /\ api' = [api EXCEPT ![m] =
                         IF @.op.tries < MutateTries
                         THEN [@ EXCEPT !.op.pc = "again"] ELSE ApiIdle]
    /\ KeepLease
    /\ UNCHANGED <<now, loop, queue, data, terms>>

----------------------------------------------------------------------------
(* A read-modify-write of a queue record, begun by a Manager that leads:   *)
(* read, validate, fenced_put.  The term is the one validate finds when    *)
(* the write starts, not the one at the read.  seen records the durable    *)
(* fence at the read.                                                      *)

QueueRead(m) ==
    /\ queue[m].pc = "idle"
    /\ isLeader[m]
    /\ data.version < MaxWrites
    /\ queue' = [queue EXCEPT ![m] =
                   [pc |-> "read", base |-> data.version, seen |-> rec.fence, term |-> 0]]
    /\ UNCHANGED <<now, rec, isLeader, fence, loop, api, data, terms>>

QueueValidate(m) ==
    /\ queue[m].pc = "read"
    /\ \/ /\ Holds(m, rec, fence[m], now)
          /\ queue' = [queue EXCEPT ![m] = [@ EXCEPT !.pc = "put", !.term = rec.fence]]
          /\ KeepLease
       \/ /\ queue' = [queue EXCEPT ![m] = QueueIdle]    \* stale, or a store error
          /\ Lose(m)
    /\ UNCHANGED <<now, rec, loop, api, data, terms>>

FencedPut(m) ==
    /\ queue[m].pc = "put"
    /\ \/ /\ FenceMatches(m, queue[m].term)
          /\ data' = [version |-> data.version + 1, term |-> queue[m].term]
       \/ UNCHANGED data        \* refused, or a store error
    /\ queue' = [queue EXCEPT ![m] = QueueIdle]
    /\ UNCHANGED <<now, rec, isLeader, fence, loop, api, terms>>

----------------------------------------------------------------------------

Tick ==
    /\ now < MaxTime
    /\ now' = now + 1
    /\ UNCHANGED <<rec, isLeader, fence, loop, api, queue, data, terms>>

Next ==
    \/ Tick
    \/ \E m \in Managers :
         \/ AcquireRead(m) \/ AcquireSwap(m) \/ AcquireDone(m) \/ AcquireError(m)
         \/ ReleaseRead(m) \/ ReleaseSwap(m)
         \/ MutateRead(m) \/ MutateSwap(m) \/ MutateError(m)
         \/ QueueRead(m) \/ QueueValidate(m) \/ FencedPut(m)

Spec == Init /\ [][Next]_vars

----------------------------------------------------------------------------
(* Properties *)

Ops == [pc : {"idle", "swap", "again", "won", "release"}, raw : Records,
        t : Nat, tries : Nat]

\* Every variable has the type its Python counterpart has.
TypeOK ==
    /\ now \in Nat
    /\ rec \in Records
    /\ isLeader \in [Managers -> BOOLEAN]
    /\ fence \in [Managers -> Nat]
    /\ loop \in [Managers -> Ops]
    /\ api \in [Managers -> [op : Ops, name : StateNames \cup {NoOwner}]]
    /\ queue \in [Managers -> [pc : {"idle", "read", "put"}, base : Nat,
                               seen : Nat, term : Nat]]
    /\ data \in [version : Nat, term : Nat]
    /\ terms \subseteq (Nat \X Managers)

\* Two Managers that both believe they lead (one of them has not noticed its
\* lease lapse) never believe it for the same term: the fence that
\* acquire_or_renew returns identifies one owner.
LeadersHaveDistinctTerms ==
    \A m, n \in Managers :
        isLeader[m] /\ isLeader[n] /\ fence[m] = fence[n] => m = n

\* The fence in the durable record never decreases, whatever acquire, renew,
\* release and mutate_state of any Manager interleave.
FenceNeverDecreases == [][rec'.fence >= rec.fence]_vars

\* A queue record once written under a term is never overwritten by an older
\* term: a deposed Manager's delayed fenced_put is refused by the store.
WritesFollowTermOrder == [][data'.term >= data.term]_vars

\* A fenced write loses another Manager's update only when the durable term
\* moved on between the writer's read and its write: within one term the
\* queue's read-modify-write is atomic.
LostUpdateNeedsTermChange ==
    [][\A m \in Managers :
         /\ queue[m].pc = "put"
         /\ queue'[m].pc = "idle"
         /\ data' # data
         /\ queue[m].base # data.version
         => queue[m].seen # queue[m].term]_vars

\* Manager state in the lease record is committed only by the record's owner
\* and never carried backwards: a mutate_state that read the record in an
\* earlier term cannot commit over a later one.
StateFollowsTermOrder ==
    [][\A n \in StateNames :
         /\ rec'.state[n] >= rec.state[n]
         /\ rec'.state[n] # rec.state[n] => rec'.owner = rec.owner /\ rec.owner # NoOwner]_vars
=============================================================================
