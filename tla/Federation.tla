---------------------------- MODULE Federation ----------------------------
(***************************************************************************)
(* Federated publication of one dataset (enterprise/control/federation.py):*)
(* the catalog record that holds ownership and the replica pointers and    *)
(* changes by compare-and-swap only, the regional Managers that publish    *)
(* generations to the primary store, copy them to the replicas and renew   *)
(* their ownership, the catalog service an operator moves ownership with,  *)
(* the egress ledger, and the regional endpoints that serve a replica.     *)
(*                                                                         *)
(* The publish request, the replication loop and the renewal loop of a     *)
(* Manager are threads of their own.  A thread that reads the record keeps *)
(* what it read (raw) until its compare-and-swap.  A descriptor is a       *)
(* generation with the sequence (the publisher's clock) it was published   *)
(* under; its objects are the data of the generation and the snapshot      *)
(* written for that descriptor.                                            *)
(***************************************************************************)
EXTENDS Naturals, Sequences

CONSTANTS None, Managers, Primary, Replicas, LocationOf, Deployments,
          MaxClock, MaxGenerations

ASSUME BoundsAssumption == MaxClock \in Nat /\ MaxGenerations \in Nat
ASSUME ReplicasAssumption == Primary \notin Replicas

\* A deployment: its clocks (each party's is ahead of the slowest by its skew) stay
\* within the bound, and its replica targets are replica stores.
ASSUME DeploymentsAssumption ==
    \A d \in Deployments :
      /\ d.owner \in Managers /\ d.lease \in Nat /\ d.targets \in Seq(Replicas)
      /\ d.clock \in Nat /\ d.generations \in 0 .. MaxGenerations
      /\ d.skew \in [Managers \cup {"operator"} -> Nat]
      /\ \A m \in Managers : d.clock + d.skew[m] <= MaxClock

VARIABLES
    deploy,     \* first owner, lease length, replica targets in policy order,
                \* clock skew of each party, bounds on events
    clock, events,
    catalog,    \* the record, None until the operator creates it
    objs,       \* store -> the objects it holds with the bytes they were written with
    damaged,    \* <<store, object>> that is there with other bytes
    produced,   \* the clock of each generation's request
    pending,    \* manager -> the generation its queue has ready, or None
    pub, rep, ren,                        \* the threads of each Manager
    oper,       \* the ownership change in flight at the catalog service
    ledger,     \* <<generation, target>> of each recorded transfer
    req,        \* a request to a regional endpoint
    hurt        \* <<store, object>> an outside fault lost or damaged

threads == <<pub, rep, ren>>
data == <<objs, damaged, produced, pending, hurt>>
vars == <<deploy, clock, events, catalog, data, threads, oper, ledger, req>>

Stores == {Primary} \cup Replicas
Targets == deploy.targets
Parties == Managers \cup {"operator"}
Generations == 1 .. MaxGenerations
Times == 0 .. MaxClock
Descriptors == [gen : Generations, seq : Times]
DataOf(d) == <<"data", d.gen>>
SnapshotOf(d) == <<"snapshot", d.gen, d.seq>>
Objects(d) == {DataOf(d), SnapshotOf(d)}

Pointers == Descriptors \cup {None}

\* The records of the catalog.  None stands for no record, pointer or generation.
Records == [owner : Managers, fence : Nat \ {0}, expires : Nat,
            replicas : [Stores -> Pointers], generations : [Times -> Generations \cup {None}]]
ASSUME NoneAssumption ==
    None \notin Records /\ None \notin Descriptors /\ None \notin Generations

Now(p) == clock + deploy.skew[p]
Event(kind) == events[kind] > 0 /\ events' = [events EXCEPT ![kind] = @ - 1]

\* The states a thread can rest in: what it keeps between its steps is gone.
IdlePub == [pc |-> "idle", fence |-> 0, d |-> None, raw |-> None]
IdleRep == [pc |-> "idle", rec |-> None, d |-> None, at |-> 0, raw |-> None]
IdleSwap == [pc |-> "idle", raw |-> None, new |-> None]
IdleReq == [pc |-> "idle", store |-> None, d |-> None, body |-> None]

Holds(s, o) == o \in objs[s]

Verified(s, d) == \A o \in Objects(d) : Holds(s, o)

\* put_stream_if_absent: an object already there must have the same bytes.
CanPut(s, o) == <<s, o>> \notin damaged

Put(s, o) == objs' = [objs EXCEPT ![s] = @ \cup {o}]

RequireOwner(rec, m, fence, now) ==
    rec # None /\ rec.owner = m /\ rec.fence = fence /\ rec.expires > now

Init ==
    /\ deploy \in Deployments
    /\ clock = 0
    /\ events = deploy.events
    /\ catalog = None
    /\ objs = [s \in Stores |-> {}] /\ damaged = {}
    /\ produced = << >>
    /\ pending = [m \in Managers |-> None]
    /\ pub = [m \in Managers |-> IdlePub]
    /\ rep = [m \in Managers |-> IdleRep]
    /\ ren = [m \in Managers |-> IdleSwap]
    /\ oper = IdleSwap
    /\ ledger = {}
    /\ req = IdleReq
    /\ hurt = {}

(***************************************************************************)
(* The catalog service.                                                    *)
(***************************************************************************)
Create(m) ==
    /\ catalog = None /\ m = deploy.owner
    /\ catalog' = [owner |-> m, fence |-> 1, expires |-> Now("operator") + deploy.lease,
                   replicas |-> [s \in Stores |-> None], generations |-> [n \in Times |-> None]]
    /\ UNCHANGED <<deploy, clock, events, data, threads, oper, ledger, req>>

OwnedSameFence(rec, m) ==
    [rec EXCEPT !.owner = m, !.expires = Now("operator") + deploy.lease]

Owned(rec, m) ==
    [rec EXCEPT !.owner = m, !.fence = @ + 1, !.expires = Now("operator") + deploy.lease]

Handover(m) ==
    /\ Event("ownership") /\ oper = IdleSwap /\ catalog # None
    /\ m # catalog.owner
    /\ RequireOwner(catalog, catalog.owner, catalog.fence, Now("operator"))
    /\ oper' = [pc |-> "commit", raw |-> catalog, new |-> Owned(catalog, m)]
    /\ UNCHANGED <<deploy, clock, catalog, data, threads, ledger, req>>

Takeover(m) ==
    /\ Event("ownership") /\ oper = IdleSwap /\ catalog # None
    /\ catalog.expires <= Now("operator")
    /\ oper' = [pc |-> "commit", raw |-> catalog, new |-> Owned(catalog, m)]
    /\ UNCHANGED <<deploy, clock, catalog, data, threads, ledger, req>>

\* GlobalCatalog._commit: the record only changes from what was read.
Swap(raw, new) == IF catalog = raw THEN new ELSE catalog

OperatorCommit ==
    /\ oper.pc = "commit"
    /\ catalog' = Swap(oper.raw, oper.new)
    /\ oper' = IdleSwap
    /\ UNCHANGED <<deploy, clock, events, data, threads, ledger, req>>

(***************************************************************************)
(* advertise: the receipt of a verified descriptor d in store s.           *)
(***************************************************************************)
Advertises(rec, m, fence, s, d) ==
    /\ produced[d.gen] <= Now(m)
    /\ RequireOwner(rec, m, fence, Now(m))
    /\ rec.generations[d.seq] \in {None, d.gen}
    /\ rec.replicas[s] # None =>
         /\ rec.replicas[s].seq <= d.seq
         /\ rec.replicas[s].seq = d.seq => rec.replicas[s] = d

Advertised(rec, s, d) ==
    [rec EXCEPT !.replicas[s] = d, !.generations[d.seq] = d.gen]

\* The work queue of m completes a request: its verified output is in the
\* primary store.
Produce(m) ==
    /\ catalog # None /\ catalog.owner = m
    /\ pending[m] = None /\ Len(produced) < deploy.generations
    /\ LET g == Len(produced) + 1
       IN  /\ pending' = [pending EXCEPT ![m] = g]
           /\ produced' = Append(produced, clock)
           /\ Put(Primary, <<"data", g>>)
    /\ UNCHANGED <<deploy, clock, events, catalog, threads, oper, ledger, req, damaged, hurt>>

\* A request whose snapshot the catalog already shows is not published again.
AlreadyPublished(m) ==
    catalog.replicas[Primary] # None /\ catalog.replicas[Primary].gen = pending[m]

PublishExisting(m) ==
    /\ pub[m] = IdlePub /\ pending[m] # None /\ AlreadyPublished(m)
    /\ pending' = [pending EXCEPT ![m] = None]
    /\ UNCHANGED <<deploy, clock, events, catalog, objs, damaged, produced, threads, oper,
                   ledger, req, hurt>>

PublishStart(m) ==
    /\ pub[m] = IdlePub /\ pending[m] # None /\ ~AlreadyPublished(m)
    /\ RequireOwner(catalog, m, catalog.fence, Now(m))
    /\ pub' = [pub EXCEPT ![m] = [pc |-> "put", fence |-> catalog.fence, raw |-> None,
                                  d |-> [gen |-> pending[m], seq |-> Now(m)]]]
    /\ UNCHANGED <<deploy, clock, events, catalog, data, rep, ren, oper, ledger, req>>

PublishPut(m) ==
    /\ pub[m].pc = "put"
    /\ CanPut(Primary, SnapshotOf(pub[m].d))
    /\ Put(Primary, SnapshotOf(pub[m].d))
    /\ pub' = [pub EXCEPT ![m].pc = "verify"]
    /\ UNCHANGED <<deploy, clock, events, catalog, damaged, produced, pending, rep, ren,
                   oper, ledger, req, hurt>>

PublishVerify(m) ==
    /\ pub[m].pc = "verify"
    /\ Verified(Primary, pub[m].d)
    /\ Advertises(catalog, m, pub[m].fence, Primary, pub[m].d)
    /\ pub' = [pub EXCEPT ![m].pc = "commit", ![m].raw = catalog]
    /\ UNCHANGED <<deploy, clock, events, catalog, data, rep, ren, oper, ledger, req>>

PublishCommit(m) ==
    /\ pub[m].pc = "commit"
    /\ catalog' = Swap(pub[m].raw, Advertised(pub[m].raw, Primary, pub[m].d))
    /\ pub' = [pub EXCEPT ![m] = IdlePub]
    /\ UNCHANGED <<deploy, clock, events, data, rep, ren, oper, ledger, req>>

\* An exception: the request stays unpublished and may be tried again.
PublishFails(m) ==
    /\ \/ /\ pub[m].pc = "put"
          /\ ~CanPut(Primary, SnapshotOf(pub[m].d))
       \/ /\ pub[m].pc = "verify"
          /\ ~(/\ Verified(Primary, pub[m].d)
               /\ Advertises(catalog, m, pub[m].fence, Primary, pub[m].d))
    /\ pub' = [pub EXCEPT ![m] = IdlePub]
    /\ UNCHANGED <<deploy, clock, events, catalog, data, rep, ren, oper, ledger, req>>

(***************************************************************************)
(* replicate_owned: one pass over the record the thread listed.  Any        *)
(* exception ends the pass; the loop lists again.                           *)
(***************************************************************************)
Lagging(rec, target) ==
    \/ rec.replicas[target] = None
    \/ rec.replicas[target].seq < rec.replicas[Primary].seq

\* The targets from place i on that lag behind the record; the pass copies to the
\* first of them.
Remaining(rec, i) == {j \in DOMAIN Targets : j >= i /\ Lagging(rec, Targets[j])}

Copying(rec, i) ==
    IF Remaining(rec, i) = {} THEN IdleRep
    ELSE [pc |-> "data", rec |-> rec, d |-> rec.replicas[Primary], raw |-> None,
          at |-> CHOOSE j \in Remaining(rec, i) : \A k \in Remaining(rec, i) : j <= k]

ReplicateList(m) ==
    /\ rep[m] = IdleRep
    /\ catalog # None /\ catalog.owner = m /\ catalog.replicas[Primary] # None
    /\ Remaining(catalog, 1) # {}
    /\ rep' = [rep EXCEPT ![m] = Copying(catalog, 1)]
    /\ UNCHANGED <<deploy, clock, events, catalog, data, pub, ren, oper, ledger, req>>

\* replicate: the source is verified, then its objects are copied one by one.
Target(r) == Targets[r.at]
Source(r) == IF r.pc = "data" THEN DataOf(r.d) ELSE SnapshotOf(r.d)

CanCopy(r) ==
    /\ r.pc = "data" => Verified(Primary, r.d)
    /\ Holds(Primary, Source(r))
    /\ CanPut(Target(r), Source(r))

ReplicateCopyFirst(m) ==
    /\ rep[m].pc \in {"data", "snapshot"} /\ CanCopy(rep[m])
    /\ Put(Target(rep[m]), Source(rep[m]))
    /\ rep' = [rep EXCEPT ![m].pc = "advertise"]
    /\ UNCHANGED <<deploy, clock, events, catalog, damaged, produced, pending, pub, ren,
                   oper, ledger, req, hurt>>

ReplicateCopy(m) ==
    /\ rep[m].pc \in {"data", "snapshot"} /\ CanCopy(rep[m])
    /\ Put(Target(rep[m]), Source(rep[m]))
    /\ rep' = [rep EXCEPT ![m].pc = IF @ = "data" THEN "snapshot" ELSE "verify"]
    /\ UNCHANGED <<deploy, clock, events, catalog, damaged, produced, pending, pub, ren,
                   oper, ledger, req, hurt>>

\* The transfer is recorded under generation and target, before the replica
\* is advertised; a repeated record changes nothing.
RecordEgress(r) ==
    IF LocationOf[Primary] = LocationOf[Target(r)] THEN ledger
    ELSE ledger \cup {<<r.d.gen, Target(r)>>}

ReplicateVerify(m) ==
    /\ rep[m].pc = "verify" /\ Verified(Target(rep[m]), rep[m].d)
    /\ ledger' = RecordEgress(rep[m])
    /\ rep' = [rep EXCEPT ![m].pc = "advertise"]
    /\ UNCHANGED <<deploy, clock, events, catalog, data, pub, ren, oper, req>>

ReplicateRead(m) ==
    /\ rep[m].pc = "advertise"
    /\ Advertises(catalog, m, rep[m].rec.fence, Target(rep[m]), rep[m].d)
    /\ rep' = [rep EXCEPT ![m].pc = "commit", ![m].raw = catalog]
    /\ UNCHANGED <<deploy, clock, events, catalog, data, pub, ren, oper, ledger, req>>

ReplicateCommit(m) ==
    /\ rep[m].pc = "commit"
    /\ catalog' = Swap(rep[m].raw, Advertised(rep[m].raw, Target(rep[m]), rep[m].d))
    /\ rep' = [rep EXCEPT ![m] = IF catalog = rep[m].raw
                                   THEN Copying(rep[m].rec, rep[m].at + 1) ELSE IdleRep]
    /\ UNCHANGED <<deploy, clock, events, data, pub, ren, oper, ledger, req>>

ReplicateFails(m) ==
    /\ \/ rep[m].pc \in {"data", "snapshot"} /\ ~CanCopy(rep[m])
       \/ rep[m].pc = "verify" /\ ~Verified(Target(rep[m]), rep[m].d)
       \/ /\ rep[m].pc = "advertise"
          /\ ~Advertises(catalog, m, rep[m].rec.fence, Target(rep[m]), rep[m].d)
    /\ rep' = [rep EXCEPT ![m] = IdleRep]
    /\ UNCHANGED <<deploy, clock, events, catalog, data, pub, ren, oper, ledger, req>>

(***************************************************************************)
(* renew_owned.                                                            *)
(***************************************************************************)
Renewed(rec, m) == [rec EXCEPT !.expires = Now(m) + deploy.lease]

RenewRead(m) ==
    /\ ren[m] = IdleSwap /\ catalog # None
    /\ RequireOwner(catalog, m, catalog.fence, Now(m))
    /\ Renewed(catalog, m) # catalog
    /\ ren' = [ren EXCEPT ![m] = [pc |-> "commit", raw |-> catalog,
                                  new |-> Renewed(catalog, m)]]
    /\ UNCHANGED <<deploy, clock, events, catalog, data, pub, rep, oper, ledger, req>>

RenewCommit(m) ==
    /\ ren[m].pc = "commit"
    /\ catalog' = Swap(ren[m].raw, ren[m].new)
    /\ ren' = [ren EXCEPT ![m] = IdleSwap]
    /\ UNCHANGED <<deploy, clock, events, data, pub, rep, oper, ledger, req>>

(***************************************************************************)
(* A regional endpoint resolves the generation of its store and serves one *)
(* of its objects after it verified it; the snapshot document is not       *)
(* served.                                                                 *)
(***************************************************************************)
Resolve(s) ==
    /\ Event("request") /\ req.pc \in {"idle", "answered"}
    /\ catalog # None /\ catalog.replicas[s] # None
    /\ req' = [pc |-> "resolved", store |-> s, d |-> catalog.replicas[s], body |-> None]
    /\ UNCHANGED <<deploy, clock, catalog, data, threads, oper, ledger>>

Serve(o) == IF Holds(req.store, o) THEN "bytes" ELSE None

Answer ==
    /\ req.pc = "resolved"
    /\ req' = [req EXCEPT !.pc = "answered", !.body = Serve(DataOf(req.d))]
    /\ UNCHANGED <<deploy, clock, events, catalog, data, threads, oper, ledger>>

(***************************************************************************)
(* Time, a Manager that dies between two steps, and objects lost or        *)
(* damaged in a store.                                                     *)
(***************************************************************************)
Tick ==
    /\ clock < deploy.clock
    /\ clock' = clock + 1
    /\ UNCHANGED <<deploy, events, catalog, data, threads, oper, ledger, req>>

Crash(m) ==
    /\ Event("crash")
    /\ <<pub[m], rep[m], ren[m]>> # <<IdlePub, IdleRep, IdleSwap>>
    /\ pub' = [pub EXCEPT ![m] = IdlePub]
    /\ rep' = [rep EXCEPT ![m] = IdleRep]
    /\ ren' = [ren EXCEPT ![m] = IdleSwap]
    /\ UNCHANGED <<deploy, clock, catalog, data, oper, ledger, req>>

Fault(s, o, remains) ==
    /\ Event("fault") /\ Holds(s, o)
    /\ objs' = [objs EXCEPT ![s] = @ \ {o}]
    /\ damaged' = IF remains THEN damaged \cup {<<s, o>>} ELSE damaged
    /\ hurt' = hurt \cup {<<s, o>>}
    /\ UNCHANGED <<deploy, clock, catalog, produced, pending, threads, oper, ledger, req>>

ManagerStep(m) ==
    \/ PublishExisting(m) \/ PublishStart(m) \/ PublishPut(m) \/ PublishVerify(m)
    \/ PublishCommit(m) \/ PublishFails(m)
    \/ RenewRead(m) \/ RenewCommit(m)

Replicate(m) ==
    \/ ReplicateList(m) \/ ReplicateCopy(m) \/ ReplicateVerify(m)
    \/ ReplicateRead(m) \/ ReplicateCommit(m) \/ ReplicateFails(m)

Next ==
    \/ Tick \/ OperatorCommit \/ Answer
    \/ \E m \in Managers :
         \/ Create(m) \/ Handover(m) \/ Takeover(m) \/ Produce(m)
         \/ ManagerStep(m) \/ Replicate(m) \/ Crash(m)
    \/ \E s \in Stores :
         \/ Resolve(s)
         \/ \E o \in objs[s], remains \in BOOLEAN : Fault(s, o, remains)

Spec == Init /\ [][Next]_vars

----------------------------------------------------------------------------
PubStates == [pc : {"idle", "put", "verify", "commit"}, fence : Nat, d : Pointers,
              raw : Records \cup {None}]
RepStates == [pc : {"idle", "data", "snapshot", "verify", "advertise", "commit"},
              rec : Records \cup {None}, d : Pointers, at : Nat, raw : Records \cup {None}]
SwapStates == [pc : {"idle", "commit"}, raw : Records \cup {None}, new : Records \cup {None}]
ReqStates == [pc : {"idle", "resolved", "answered"}, store : Stores \cup {None},
              d : Pointers, body : {"bytes", None}]

\* Each variable has the values its data structure in the code can hold.
TypeOK ==
    /\ deploy \in Deployments /\ clock \in 0 .. deploy.clock
    /\ catalog \in Records \cup {None}
    /\ DOMAIN objs = Stores
    /\ produced \in Seq(Nat)
    /\ pending \in [Managers -> Generations \cup {None}]
    /\ pub \in [Managers -> PubStates] /\ rep \in [Managers -> RepStates]
    /\ ren \in [Managers -> SwapStates] /\ oper \in SwapStates /\ req \in ReqStates

\* Every generation the catalog shows for a store is complete in that store:
\* whatever Managers crash in the middle of a copy, or publish and replicate
\* at the same time, no pointer ever names an object the store does not hold
\* with its bytes, except one a fault of the store itself has taken.  A request that
\* resolved a pointer before it moved on is answered as well.
PointersAreWhole ==
    /\ catalog # None =>
         \A s \in Stores : catalog.replicas[s] # None =>
           \A o \in Objects(catalog.replicas[s]) : Holds(s, o) \/ <<s, o>> \in hurt
    /\ req.pc = "answered" => req.body = "bytes" \/ <<req.store, DataOf(req.d)>> \in hurt

\* Regions that show the same sequence show the same generation, and what any
\* region shows is registered under its sequence, so that clients that read two
\* regions cannot meet two contents under one sequence (advertise).
OneContentPerSequence ==
    catalog # None =>
      \A s \in Stores : catalog.replicas[s] # None =>
        catalog.generations[catalog.replicas[s].seq] = catalog.replicas[s].gen

\* A replica never runs ahead of the primary, and every transfer to another
\* location that the catalog shows is in the egress ledger.
TransfersAreCounted ==
    catalog # None =>
      \A t \in Replicas : catalog.replicas[t] # None =>
        /\ catalog.replicas[Primary] # None
        /\ catalog.replicas[t].seq <= catalog.replicas[Primary].seq
        /\ LocationOf[t] # LocationOf[Primary] => <<catalog.replicas[t].gen, t>> \in ledger

\* A pointer moves only for the Manager that owns the dataset at that moment,
\* under the fence it had when its publication or its pass began: once a
\* handover or a takeover has won, the work the former owner has in flight
\* shows nothing (publish, replicate_owned).
OnlyTheOwnerAdvertises ==
    [][\A m \in Managers :
         /\ PublishCommit(m) /\ catalog' # catalog =>
              catalog.owner = m /\ catalog.fence = pub[m].fence
         /\ ReplicateCommit(m) /\ catalog' # catalog =>
              catalog.owner = m /\ catalog.fence = rep[m].rec.fence]_vars

\* The fenced catalog of the record: its owner and fence, and the sequence each
\* store shows.
Fenced == INSTANCE FencedCatalog WITH
            owner <- IF catalog = None THEN None ELSE catalog.owner,
            fence <- IF catalog = None THEN 0 ELSE catalog.fence,
            shown <- [s \in Stores |->
                        IF catalog = None \/ catalog.replicas[s] = None THEN 0
                        ELSE catalog.replicas[s].seq + 1]

\* The compare-and-swap of the record by operators, publications, passes and
\* renewals implements the abstract fenced catalog: every change is a move of
\* ownership that takes a new fence, or one pointer the standing owner advances.
CatalogIsFenced == Fenced!Spec
=============================================================================
