-------------------------- MODULE FederationProofs --------------------------
(***************************************************************************)
(* Proofs about Federation, for every set of Managers and stores, every    *)
(* deployment and every bound: the compare-and-swapped record implements   *)
(* FencedCatalog, a sequence stands for one generation in all regions, the *)
(* objects behind every pointer are in its store, and every transfer to    *)
(* another location is in the egress ledger.                               *)
(*                                                                         *)
(* What makes the results inductive is what a thread knows while it waits  *)
(* for its compare-and-swap: the record it read and the checks it made on  *)
(* it still hold of the record if the swap succeeds, because the record is *)
(* then the one it read.  The first part has the invariant, its types and  *)
(* what each step leaves alone.                                            *)
(***************************************************************************)
EXTENDS Federation, TLAPS
LOCAL INSTANCE WellFoundedInduction

\* The objects of d are in store s, but for what a fault has taken.
Whole(s, d) == \A o \in Objects(d) : Holds(s, o) \/ <<s, o>> \in hurt

\* What advertise has checked of the record rec that a thread is about to replace.
Checked(rec, m, fence, s, d) ==
    /\ rec \in Records /\ rec.owner = m /\ rec.fence = fence
    /\ rec.generations[d.seq] \in {None, d.gen}
    /\ rec.replicas[s] # None => rec.replicas[s].seq <= d.seq

\* The transfer of d to t is in the ledger if it left the location.
Counted(t, d) == LocationOf[t] # LocationOf[Primary] => <<d.gen, t>> \in ledger

\* The primary shows d or something later.
Shown(d) ==
    /\ catalog # None /\ catalog.replicas[Primary] # None
    /\ d.seq <= catalog.replicas[Primary].seq

Publishing(m) ==
    /\ pub[m].pc # "idle" => pub[m].d \in Descriptors
    /\ pub[m].pc = "commit" => /\ Checked(pub[m].raw, m, pub[m].fence, Primary, pub[m].d)
                               /\ Whole(Primary, pub[m].d)

PublicationsOk == \A m \in Managers : Publishing(m)

Passing(m) ==
    /\ rep[m].pc # "idle" =>
         /\ rep[m].rec \in Records /\ rep[m].d \in Descriptors /\ rep[m].at \in DOMAIN Targets
         /\ rep[m].d = rep[m].rec.replicas[Primary] /\ Shown(rep[m].d)
    /\ rep[m].pc \in {"advertise", "commit"} =>
         Whole(Target(rep[m]), rep[m].d) /\ Counted(Target(rep[m]), rep[m].d)
    /\ rep[m].pc = "commit" =>
         Checked(rep[m].raw, m, rep[m].rec.fence, Target(rep[m]), rep[m].d)

PassesOk == \A m \in Managers : Passing(m)

RenewalsOk ==
    \A m \in Managers : ren[m].pc = "commit" =>
      /\ ren[m].raw \in Records /\ ren[m].new \in Records
      /\ ren[m].new.owner = ren[m].raw.owner /\ ren[m].new.fence = ren[m].raw.fence
      /\ ren[m].new.replicas = ren[m].raw.replicas
      /\ ren[m].new.generations = ren[m].raw.generations

OwnershipOk ==
    oper.pc = "commit" =>
      /\ oper.raw \in Records /\ oper.new \in Records
      /\ oper.new.fence = oper.raw.fence + 1
      /\ oper.new.replicas = oper.raw.replicas
      /\ oper.new.generations = oper.raw.generations

RequestsOk == req.pc # "idle" => req.store \in Stores /\ Whole(req.store, req.d)

\* The inductive invariant.
IInv ==
    /\ TypeOK /\ PublicationsOk /\ PassesOk /\ RenewalsOk /\ OwnershipOk /\ RequestsOk
    /\ PointersAreWhole /\ OneContentPerSequence /\ TransfersAreCounted

-----------------------------------------------------------------------------
(* Facts about the operators. *)

\* What the assumption on deployments gives in a state.
LEMMA Deployed ==
    ASSUME TypeOK
    PROVE  /\ deploy.lease \in Nat /\ Targets \in Seq(Replicas)
           /\ deploy.generations \in 0 .. MaxGenerations /\ deploy.owner \in Managers
           /\ Now("operator") \in Nat
           /\ \A m \in Managers : Now(m) \in Times
<1>1. /\ deploy \in Deployments /\ clock \in 0 .. deploy.clock
  BY Zenon DEF TypeOK
<1>2. /\ deploy.owner \in Managers /\ deploy.lease \in Nat /\ deploy.targets \in Seq(Replicas)
      /\ deploy.clock \in Nat /\ deploy.generations \in 0 .. MaxGenerations
      /\ deploy.skew \in [Managers \cup {"operator"} -> Nat]
      /\ \A m \in Managers : deploy.clock + deploy.skew[m] <= MaxClock
  BY <1>1, DeploymentsAssumption, Zenon
<1>3. \A p \in Managers \cup {"operator"} : deploy.skew[p] \in Nat
  BY <1>2, Zenon
<1>4. clock \in Nat /\ clock <= deploy.clock
  BY <1>1, <1>2
<1>5. \A m \in Managers : Now(m) \in Times
  BY <1>2, <1>3, <1>4, BoundsAssumption DEF Now, Times
<1>6. Now("operator") \in Nat
  BY <1>3, <1>4 DEF Now
<1> QED
  BY <1>2, <1>5, <1>6, Zenon DEF Targets

\* A handover or takeover makes a record with the next fence and the same pointers.
LEMMA OwnedType ==
    ASSUME TypeOK, NEW rec \in Records, NEW m \in Managers
    PROVE  /\ Owned(rec, m) \in Records
           /\ Owned(rec, m).fence = rec.fence + 1
           /\ Owned(rec, m).replicas = rec.replicas
           /\ Owned(rec, m).generations = rec.generations
<1>1. Now("operator") + deploy.lease \in Nat
  BY Deployed
<1>2. rec.fence + 1 \in Nat \ {0}
  BY DEF Records
<1> QED
  BY <1>1, <1>2, Zenon DEF Owned, Records

\* A renewal makes a record that differs in its expiry only.
LEMMA RenewedType ==
    ASSUME TypeOK, NEW rec \in Records, NEW m \in Managers
    PROVE  /\ Renewed(rec, m) \in Records
           /\ Renewed(rec, m).owner = rec.owner
           /\ Renewed(rec, m).fence = rec.fence
           /\ Renewed(rec, m).replicas = rec.replicas
           /\ Renewed(rec, m).generations = rec.generations
<1>1. Now(m) + deploy.lease \in Nat
  BY Deployed DEF Times
<1> QED
  BY <1>1, Zenon DEF Renewed, Records

\* An advertisement makes a record that differs in one pointer and one generation.
LEMMA AdvertisedType ==
    ASSUME NEW rec \in Records, NEW s \in Stores, NEW d \in Descriptors
    PROVE  /\ Advertised(rec, s, d) \in Records
           /\ Advertised(rec, s, d).owner = rec.owner
           /\ Advertised(rec, s, d).fence = rec.fence
           /\ Advertised(rec, s, d).replicas = [rec.replicas EXCEPT ![s] = d]
           /\ Advertised(rec, s, d).generations = [rec.generations EXCEPT ![d.seq] = d.gen]
<1>1. [rec.replicas EXCEPT ![s] = d] \in [Stores -> Pointers]
  BY Zenon DEF Records, Pointers
<1>2. [rec.generations EXCEPT ![d.seq] = d.gen] \in [Times -> Generations \cup {None}]
  BY Zenon DEF Records, Descriptors
<1> QED
  BY <1>1, <1>2, Zenon DEF Advertised, Records

\* The states a thread can be put into.
LEMMA IdleTypes ==
    /\ IdlePub \in PubStates /\ IdleRep \in RepStates /\ IdleSwap \in SwapStates
    /\ IdleReq \in ReqStates
BY Zenon DEF IdlePub, IdleRep, IdleSwap, IdleReq, PubStates, RepStates, SwapStates, ReqStates,
       Pointers

\* Every non-empty set of naturals has a least element.
LEMMA Least ==
    ASSUME NEW S \in SUBSET Nat, S # {}
    PROVE  \E j \in S : \A k \in S : j <= k
<1> DEFINE R == {ss \in Nat \X Nat : ss[1] < ss[2]}
<1>1. OpToRel(<, Nat) = R
  BY Zenon DEF OpToRel
<1>2. IsWellFoundedOn(R, Nat)
  BY <1>1, NatLessThanWellFounded, Zenon
<1> HIDE DEF R
<1>3. PICK j \in S : \A k \in S : <<k, j>> \notin R
  BY <1>2, WFMin, Zenon
<1>4. ASSUME NEW k \in S PROVE j <= k
  <2>1. ~(k < j)
    BY <1>3, Zenon DEF R
  <2> QED
    BY <2>1
<1> QED
  BY <1>4, Zenon

\* A pass rests, or copies the shown generation to a target of the policy.
LEMMA CopyingType ==
    ASSUME TypeOK, NEW rec \in Records, NEW i \in Nat, rec.replicas[Primary] # None
    PROVE  /\ Copying(rec, i) \in RepStates
           /\ Copying(rec, i) = IdleRep \/
                /\ Copying(rec, i).pc = "data" /\ Copying(rec, i).rec = rec
                /\ Copying(rec, i).d = rec.replicas[Primary] /\ Copying(rec, i).d \in Descriptors
                /\ Copying(rec, i).at \in DOMAIN Targets
<1>1. CASE Remaining(rec, i) = {}
  BY <1>1, IdleTypes, Zenon DEF Copying
<1>2. CASE Remaining(rec, i) # {}
  <2> DEFINE first(j) == \A k \in Remaining(rec, i) : j <= k
             at == CHOOSE j \in Remaining(rec, i) : first(j)
  <2>1. Targets \in Seq(Replicas) /\ Remaining(rec, i) \subseteq DOMAIN Targets
    BY Deployed, Zenon DEF Remaining
  <2>2. DOMAIN Targets = 1 .. Len(Targets) /\ Len(Targets) \in Nat
    BY <2>1
  <2>3. \E j \in Remaining(rec, i) : first(j)
    BY <1>2, <2>1, <2>2, Least
  <2>4. at \in DOMAIN Targets
    BY <2>1, <2>3, Zenon
  <2>5. rec.replicas[Primary] \in Descriptors
    BY Zenon DEF Records, Stores, Pointers
  <2>6. Copying(rec, i) = [pc |-> "data", rec |-> rec, d |-> rec.replicas[Primary],
                           raw |-> None, at |-> at]
    BY <1>2, Zenon DEF Copying
  <2> HIDE DEF at, first
  <2> QED
    BY <2>2, <2>4, <2>5, <2>6 DEF RepStates, Pointers
<1> QED
  BY <1>1, <1>2, Zenon

\* A compare-and-swap leaves a record or None.
LEMMA SwapCases ==
    ASSUME NEW raw, NEW new
    PROVE  Swap(raw, new) = catalog \/ (catalog = raw /\ Swap(raw, new) = new)
BY Zenon DEF Swap

-----------------------------------------------------------------------------
(* Type correctness. *)

\* The invariant holds before the record is created and any thread has begun.
THEOREM InitOk == Init => IInv
<1> SUFFICES ASSUME Init PROVE IInv
  BY Zenon
<1>1. TypeOK
  <2>1. clock \in 0 .. deploy.clock
    BY DeploymentsAssumption DEF Init
  <2> QED
    BY <2>1, IdleTypes DEF Init, TypeOK
<1>2. \A m \in Managers : pub[m].pc = "idle" /\ rep[m].pc = "idle" /\ ren[m].pc = "idle"
  BY Zenon DEF Init, IdlePub, IdleRep, IdleSwap
<1>3. oper.pc = "idle" /\ req.pc = "idle" /\ catalog = None
  BY Zenon DEF Init, IdleSwap, IdleReq
<1> QED
  BY <1>1, <1>2, <1>3, Zenon DEF IInv, PublicationsOk, Publishing, PassesOk, Passing, RenewalsOk, OwnershipOk, RequestsOk,
     PointersAreWhole, OneContentPerSequence, TransfersAreCounted

\* Every step keeps the types; a swap installs a record because its thread prepared one.
LEMMA TypeStep == IInv /\ [Next]_vars => TypeOK'
<1> SUFFICES ASSUME IInv, [Next]_vars PROVE TypeOK'
  BY Zenon
<1> USE DEF TypeOK
<1>0. TypeOK /\ PublicationsOk /\ PassesOk /\ RenewalsOk /\ OwnershipOk
  BY Zenon DEF IInv
<1>1. CASE UNCHANGED vars
  BY <1>0, <1>1, Zenon DEF vars, data, threads
<1>2. CASE Tick
  <2>1. clock' \in 0 .. deploy.clock
    BY <1>0, <1>2, DeploymentsAssumption DEF Tick
  <2> QED
    BY <1>0, <1>2, <2>1, Zenon DEF Tick, data, threads
<1>3. CASE OperatorCommit
  <2>1. catalog' \in Records \cup {None}
    BY <1>0, <1>3, Zenon DEF OperatorCommit, Swap, OwnershipOk
  <2> QED
    BY <1>0, <1>3, <2>1, IdleTypes, Zenon DEF OperatorCommit, data, threads
<1>4. CASE Answer
  <2>1. req' \in ReqStates
    BY <1>0, <1>4, Zenon DEF Answer, Serve, ReqStates
  <2> QED
    BY <1>0, <1>4, <2>1, Zenon DEF Answer, data, threads
<1>5. ASSUME NEW s \in Stores, Resolve(s) PROVE TypeOK'
  <2>1. req' \in ReqStates
    BY <1>0, <1>5, Zenon DEF Resolve, ReqStates, Records
  <2> QED
    BY <1>0, <1>5, <2>1, Zenon DEF Resolve, data, threads
<1>6. ASSUME NEW s \in Stores, NEW o, NEW remains, Fault(s, o, remains) PROVE TypeOK'
  BY <1>0, <1>6, Zenon DEF Fault, threads
<1>7. ASSUME NEW m \in Managers, Create(m) PROVE TypeOK'
  <2>1. Now("operator") + deploy.lease \in Nat
    BY <1>0, Deployed
  <2>2. catalog' \in Records
    BY <1>7, <2>1 DEF Create, Records, Pointers
  <2> QED
    BY <1>0, <1>7, <2>2, Zenon DEF Create, data, threads
<1>8. ASSUME NEW m \in Managers, Handover(m) \/ Takeover(m) PROVE TypeOK'
  <2>1. catalog \in Records /\ Owned(catalog, m) \in Records
    BY <1>0, <1>8, OwnedType, Zenon DEF Handover, Takeover
  <2>2. oper' \in SwapStates
    BY <1>8, <2>1 DEF Handover, Takeover, SwapStates
  <2> QED
    BY <1>0, <1>8, <2>2, Zenon DEF Handover, Takeover, data, threads
<1>9. ASSUME NEW m \in Managers, Produce(m) PROVE TypeOK'
  <2>1. Len(produced) \in Nat /\ Len(produced) + 1 \in Generations
    BY <1>0, <1>9, Deployed, BoundsAssumption DEF Produce, Generations
  <2>2. clock \in Nat
    BY <1>0, DeploymentsAssumption
  <2>3. produced' \in Seq(Nat)
    BY <1>0, <1>9, <2>2 DEF Produce
  <2>4. pending' \in [Managers -> Generations \cup {None}]
    BY <1>0, <1>9, <2>1, Zenon DEF Produce
  <2> QED
    BY <1>0, <1>9, <2>3, <2>4, Zenon DEF Produce, Put, threads
<1>10. ASSUME NEW m \in Managers, PublishExisting(m) PROVE TypeOK'
  BY <1>0, <1>10, Zenon DEF PublishExisting, threads
<1>11. ASSUME NEW m \in Managers, PublishStart(m) PROVE TypeOK'
  <2>1. [gen |-> pending[m], seq |-> Now(m)] \in Descriptors
    BY <1>0, <1>11, Deployed, Zenon DEF PublishStart, Descriptors
  <2>2. catalog \in Records /\ catalog.fence \in Nat
    BY <1>0, <1>11, Zenon DEF PublishStart, RequireOwner, Records
  <2>3. pub'[m] \in PubStates
    BY <1>0, <1>11, <2>1, <2>2, Zenon DEF PublishStart, PubStates, Pointers
  <2> QED
    BY <1>0, <1>11, <2>3, Zenon DEF PublishStart, data
<1>12. ASSUME NEW m \in Managers, PublishPut(m) PROVE TypeOK'
  <2>1. pub'[m] \in PubStates
    BY <1>0, <1>12, Zenon DEF PublishPut, PubStates
  <2> QED
    BY <1>0, <1>12, <2>1, Zenon DEF PublishPut, Put
<1>13. ASSUME NEW m \in Managers, PublishVerify(m) PROVE TypeOK'
  <2>1. pub'[m] \in PubStates
    BY <1>0, <1>13, Zenon DEF PublishVerify, PubStates
  <2> QED
    BY <1>0, <1>13, <2>1, Zenon DEF PublishVerify, data
<1>14. ASSUME NEW m \in Managers, PublishCommit(m) PROVE TypeOK'
  <2>1. /\ Advertised(pub[m].raw, Primary, pub[m].d) \in Records
    BY <1>0, <1>14, AdvertisedType, Zenon DEF PublishCommit, PublicationsOk, Publishing, Checked, Stores
  <2>2. catalog' \in Records \cup {None}
    BY <1>0, <1>14, <2>1, SwapCases, Zenon DEF PublishCommit
  <2> QED
    BY <1>0, <1>14, <2>2, IdleTypes, Zenon DEF PublishCommit, data
<1>15. ASSUME NEW m \in Managers, PublishFails(m) PROVE TypeOK'
  BY <1>0, <1>15, IdleTypes, Zenon DEF PublishFails, data
<1>16. ASSUME NEW m \in Managers, RenewRead(m) PROVE TypeOK'
  <2>1. catalog \in Records /\ Renewed(catalog, m) \in Records
    BY <1>0, <1>16, RenewedType, Zenon DEF RenewRead
  <2>2. ren'[m] \in SwapStates
    BY <1>0, <1>16, <2>1, Zenon DEF RenewRead, SwapStates
  <2> QED
    BY <1>0, <1>16, <2>2, Zenon DEF RenewRead, data
<1>17. ASSUME NEW m \in Managers, RenewCommit(m) PROVE TypeOK'
  <2>1. catalog' \in Records \cup {None}
    BY <1>0, <1>17, SwapCases DEF RenewCommit, RenewalsOk
  <2> QED
    BY <1>0, <1>17, <2>1, IdleTypes, Zenon DEF RenewCommit, data
<1>18. ASSUME NEW m \in Managers, ReplicateList(m) PROVE TypeOK'
  <2>1. catalog \in Records /\ Copying(catalog, 1) \in RepStates
    BY <1>0, <1>18, CopyingType, Zenon DEF ReplicateList
  <2> QED
    BY <1>0, <1>18, <2>1, Zenon DEF ReplicateList, data
<1>19. ASSUME NEW m \in Managers, ReplicateCopy(m) PROVE TypeOK'
  <2>1. rep'[m] \in RepStates
    BY <1>0, <1>19, Zenon DEF ReplicateCopy, RepStates
  <2> QED
    BY <1>0, <1>19, <2>1, Zenon DEF ReplicateCopy, Put
<1>20. ASSUME NEW m \in Managers, ReplicateVerify(m) PROVE TypeOK'
  <2>1. rep'[m] \in RepStates
    BY <1>0, <1>20, Zenon DEF ReplicateVerify, RepStates
  <2> QED
    BY <1>0, <1>20, <2>1, Zenon DEF ReplicateVerify, data
<1>21. ASSUME NEW m \in Managers, ReplicateRead(m) PROVE TypeOK'
  <2>1. rep'[m] \in RepStates
    BY <1>0, <1>21, Zenon DEF ReplicateRead, RepStates
  <2> QED
    BY <1>0, <1>21, <2>1, Zenon DEF ReplicateRead, data
<1>22. ASSUME NEW m \in Managers, ReplicateCommit(m) PROVE TypeOK'
  <2>1. /\ rep[m].rec \in Records /\ rep[m].d \in Descriptors /\ Target(rep[m]) \in Stores
        /\ rep[m].rec.replicas[Primary] # None /\ rep[m].at + 1 \in Nat
    BY <1>0, <1>22, Deployed, NoneAssumption
       DEF ReplicateCommit, PassesOk, Passing, Target, Stores, RepStates
  <2>2. Advertised(rep[m].raw, Target(rep[m]), rep[m].d) \in Records
    BY <1>0, <1>22, <2>1, AdvertisedType, Zenon DEF ReplicateCommit, PassesOk, Passing, Checked
  <2>3. catalog' \in Records \cup {None}
    BY <1>0, <1>22, <2>2, SwapCases, Zenon DEF ReplicateCommit
  <2>4. Copying(rep[m].rec, rep[m].at + 1) \in RepStates
    BY <1>0, <2>1, CopyingType, Zenon
  <2> QED
    BY <1>0, <1>22, <2>3, <2>4, IdleTypes, Zenon DEF ReplicateCommit, data
<1>23. ASSUME NEW m \in Managers, ReplicateFails(m) PROVE TypeOK'
  BY <1>0, <1>23, IdleTypes, Zenon DEF ReplicateFails, data
<1>24. ASSUME NEW m \in Managers, Crash(m) PROVE TypeOK'
  BY <1>0, <1>24, IdleTypes, Zenon DEF Crash, data
<1> HIDE DEF TypeOK
<1> QED
  BY <1>1, <1>2, <1>3, <1>4, <1>5, <1>6, <1>7, <1>8, <1>9, <1>10, <1>11, <1>12, <1>13, <1>14,
     <1>15, <1>16, <1>17, <1>18, <1>19, <1>20, <1>21, <1>22, <1>23, <1>24, Zenon
     DEF Next, ManagerStep, Replicate

-----------------------------------------------------------------------------
(* What a step does to each part of the state. *)

\* Which actions change which part of the state.
ObjectsFrame ==
    \/ UNCHANGED <<objs, hurt, ledger, deploy>>
    \/ \E m \in Managers : ReplicateVerify(m) \/ Produce(m) \/ PublishPut(m) \/ ReplicateCopy(m)
    \/ \E s \in Stores : \E o \in objs[s], remains \in BOOLEAN : Fault(s, o, remains)
PubFrame ==
    \/ UNCHANGED pub
    \/ \E m \in Managers : \/ PublishStart(m) \/ PublishPut(m) \/ PublishVerify(m)
                           \/ PublishCommit(m) \/ PublishFails(m) \/ Crash(m)
RepFrame == UNCHANGED rep \/ \E m \in Managers : Replicate(m) \/ Crash(m)
RenFrame == UNCHANGED ren \/ \E m \in Managers : RenewRead(m) \/ RenewCommit(m) \/ Crash(m)
OperFrame == UNCHANGED oper \/ OperatorCommit \/ \E m \in Managers : Handover(m) \/ Takeover(m)
ReqFrame == UNCHANGED req \/ Answer \/ \E s \in Stores : Resolve(s)
CatalogFrame ==
    \/ UNCHANGED catalog \/ OperatorCommit
    \/ \E m \in Managers : Create(m) \/ PublishCommit(m) \/ RenewCommit(m) \/ ReplicateCommit(m)
Frames ==
    /\ ObjectsFrame /\ PubFrame /\ RepFrame /\ RenFrame /\ OperFrame /\ ReqFrame
    /\ CatalogFrame

\* Each part of the state is changed by the actions named for it, and by no other.
LEMMA FrameStep == [Next]_vars => Frames
<1> SUFFICES ASSUME [Next]_vars PROVE Frames
  BY Zenon
<1> USE DEF Frames, ObjectsFrame, PubFrame, RepFrame, RenFrame, OperFrame, ReqFrame, CatalogFrame
<1>1. CASE UNCHANGED vars
  BY <1>1, Zenon DEF vars, data, threads
<1>2. CASE Tick \/ OperatorCommit \/ Answer
  BY <1>2, Zenon DEF Tick, OperatorCommit, Answer, data, threads
<1>3. ASSUME NEW m \in Managers, Create(m) \/ Handover(m) \/ Takeover(m) PROVE Frames
  BY <1>3, Zenon DEF Create, Handover, Takeover, data, threads
<1>4. ASSUME NEW m \in Managers, Produce(m) \/ PublishExisting(m) PROVE Frames
  BY <1>4, Zenon DEF Produce, PublishExisting, threads
<1>5. ASSUME NEW m \in Managers, PublishStart(m) \/ PublishPut(m) \/ PublishVerify(m)
      PROVE  Frames
  BY <1>5, Zenon DEF PublishStart, PublishPut, PublishVerify, data
<1>6. ASSUME NEW m \in Managers, PublishCommit(m) \/ PublishFails(m) PROVE Frames
  BY <1>6, Zenon DEF PublishCommit, PublishFails, data
<1>7. ASSUME NEW m \in Managers, RenewRead(m) \/ RenewCommit(m) PROVE Frames
  BY <1>7, Zenon DEF RenewRead, RenewCommit, data
<1>8. ASSUME NEW m \in Managers, ReplicateList(m) \/ ReplicateCopy(m) \/ ReplicateVerify(m)
      PROVE  Frames
  BY <1>8, Zenon DEF ReplicateList, ReplicateCopy, ReplicateVerify, Replicate, data
<1>9. ASSUME NEW m \in Managers, ReplicateRead(m) \/ ReplicateCommit(m) \/ ReplicateFails(m)
      PROVE  Frames
  BY <1>9, Zenon DEF ReplicateRead, ReplicateCommit, ReplicateFails, Replicate, data
<1>10. ASSUME NEW m \in Managers, Crash(m) PROVE Frames
  BY <1>10, Zenon DEF Crash, data
<1>11. ASSUME NEW s \in Stores, Resolve(s) PROVE Frames
  BY <1>11, Zenon DEF Resolve, data, threads
<1>12. ASSUME NEW s \in Stores, NEW o \in objs[s], NEW remains \in BOOLEAN, Fault(s, o, remains)
       PROVE  Frames
  BY <1>12, Zenon DEF Fault, threads
<1> HIDE DEF Frames
<1> QED
  BY <1>1, <1>2, <1>3, <1>4, <1>5, <1>6, <1>7, <1>8, <1>9, <1>10, <1>11, <1>12, Zenon
     DEF Next, ManagerStep, Replicate

\* An object that is in a store stays there, or is known to be hurt; the ledger grows.
LEMMA DataStep ==
    ASSUME TypeOK, [Next]_vars
    PROVE  /\ \A s \in Stores : \A o : Holds(s, o) \/ <<s, o>> \in hurt
                                     => (Holds(s, o) \/ <<s, o>> \in hurt)'
           /\ ledger \subseteq ledger' /\ hurt \subseteq hurt' /\ deploy' = deploy
<1>0. DOMAIN objs = Stores
  BY Zenon DEF TypeOK
<1>1. CASE UNCHANGED <<objs, hurt, ledger, deploy>>
  BY <1>1, Zenon DEF Holds
<1>2. ASSUME NEW s \in Stores, NEW o, Put(s, o), UNCHANGED <<hurt, ledger, deploy>>
      PROVE  \A t \in Stores : \A x : Holds(t, x) => Holds(t, x)'
  BY <1>0, <1>2, Zenon DEF Put, Holds
<1>3. ASSUME NEW s \in Stores, NEW o \in objs[s], NEW remains, Fault(s, o, remains)
      PROVE  /\ hurt \subseteq hurt' /\ UNCHANGED <<ledger, deploy>>
             /\ \A t \in Stores : \A x : Holds(t, x) => Holds(t, x)' \/ <<t, x>> \in hurt'
  BY <1>0, <1>3, Zenon DEF Fault, Holds
<1>4. ASSUME NEW m \in Managers, ReplicateVerify(m)
      PROVE  ledger \subseteq ledger' /\ UNCHANGED <<objs, hurt, deploy>>
  BY <1>4, Zenon DEF ReplicateVerify, RecordEgress, data
<1>5. ASSUME NEW m \in Managers, Produce(m) \/ PublishPut(m)
      PROVE  \E o : Put(Primary, o) /\ UNCHANGED <<hurt, ledger, deploy>>
  BY <1>5, Zenon DEF Produce, PublishPut
<1>6. ASSUME NEW m \in Managers, ReplicateCopy(m)
      PROVE  /\ UNCHANGED <<hurt, ledger, deploy>>
             /\ \A t \in Stores : \A x : Holds(t, x) => Holds(t, x)'
  BY <1>0, <1>6, Zenon DEF ReplicateCopy, Put, Holds
<1>7. Primary \in Stores
  BY Zenon DEF Stores
<1>8. ObjectsFrame
  BY FrameStep, Zenon DEF Frames
<1> QED
  BY <1>1, <1>2, <1>3, <1>4, <1>5, <1>6, <1>7, <1>8, Zenon DEF ObjectsFrame, Holds

\* A generation that is whole in a store stays so.
LEMMA WholeStep ==
    ASSUME TypeOK, [Next]_vars, NEW s \in Stores, NEW d, Whole(s, d)
    PROVE  \A o \in Objects(d) : o \in objs'[s] \/ <<s, o>> \in hurt'
BY DataStep, Zenon DEF Whole, Holds

\* The threads that a step changes.
LEMMA PubStep ==
    ASSUME TypeOK, [Next]_vars, NEW m \in Managers
    PROVE  \/ pub'[m] = pub[m] \/ pub'[m] = IdlePub
           \/ PublishStart(m) \/ PublishPut(m) \/ PublishVerify(m)
<1>1. PubFrame
  BY FrameStep, Zenon DEF Frames
<1>2. ASSUME NEW n \in Managers, PublishStart(n) \/ PublishPut(n) \/ PublishVerify(n)
      PROVE  pub'[m] = pub[m] \/ m = n
  BY <1>2, Zenon DEF TypeOK, PublishStart, PublishPut, PublishVerify
<1>3. ASSUME NEW n \in Managers, PublishCommit(n) \/ PublishFails(n) \/ Crash(n)
      PROVE  pub'[m] = pub[m] \/ pub'[m] = IdlePub
  BY <1>3, Zenon DEF TypeOK, PublishCommit, PublishFails, Crash
<1> QED
  BY <1>1, <1>2, <1>3, Zenon DEF PubFrame

\* A pass is changed by its own Manager only, or a crash ends it.
LEMMA RepStep ==
    ASSUME TypeOK, [Next]_vars, NEW m \in Managers
    PROVE  \/ rep'[m] = rep[m] \/ rep'[m] = IdleRep
           \/ ReplicateList(m) \/ ReplicateCopy(m) \/ ReplicateVerify(m)
           \/ ReplicateRead(m) \/ ReplicateCommit(m)
<1>1. RepFrame
  BY FrameStep, Zenon DEF Frames
<1>2. ASSUME NEW n \in Managers, Replicate(n) \/ Crash(n)
      PROVE  rep'[m] = rep[m] \/ m = n
  BY <1>2, Zenon DEF TypeOK, Replicate, ReplicateList, ReplicateCopy, ReplicateVerify, ReplicateRead,
         ReplicateCommit, ReplicateFails, Crash
<1>3. ASSUME ReplicateFails(m) \/ Crash(m) PROVE rep'[m] = IdleRep
  BY <1>3, Zenon DEF TypeOK, ReplicateFails, Crash
<1> QED
  BY <1>1, <1>2, <1>3, Zenon DEF RepFrame, Replicate

\* A pending swap begins with the read of its own thread, and ends without a trace.
LEMMA SwapStep ==
    ASSUME TypeOK, [Next]_vars
    PROVE  /\ \A m \in Managers : ren'[m] = ren[m] \/ ren'[m] = IdleSwap \/ RenewRead(m)
           /\ oper' = oper \/ oper' = IdleSwap \/ \E m \in Managers : Handover(m) \/ Takeover(m)
           /\ req' = req \/ Answer \/ \E s \in Stores : Resolve(s)
<1>0. ren \in [Managers -> SwapStates]
  BY Zenon DEF TypeOK
<1>1. RenFrame /\ OperFrame /\ ReqFrame
  BY FrameStep, Zenon DEF Frames
<1>2. ASSUME NEW n \in Managers, RenewRead(n), NEW m \in Managers
      PROVE  ren'[m] = ren[m] \/ RenewRead(m)
  <2>1. ren' = [ren EXCEPT ![n] = [pc |-> "commit", raw |-> catalog, new |-> Renewed(catalog, n)]]
    BY <1>2, Zenon DEF RenewRead
  <2> QED
    BY <1>0, <1>2, <2>1, Zenon
<1>3. ASSUME NEW n \in Managers, RenewCommit(n) \/ Crash(n), NEW m \in Managers
      PROVE  ren'[m] = ren[m] \/ ren'[m] = IdleSwap
  <2>1. ren' = [ren EXCEPT ![n] = IdleSwap]
    BY <1>3, Zenon DEF RenewCommit, Crash
  <2> QED
    BY <1>0, <2>1, Zenon
<1>4. OperatorCommit => oper' = IdleSwap
  BY Zenon DEF OperatorCommit
<1> QED
  BY <1>1, <1>2, <1>3, <1>4, Zenon DEF RenFrame, OperFrame, ReqFrame
-----------------------------------------------------------------------------
(* The changes of the record. *)

\* How the record changes: it is created; ownership moves under a new fence; only the
\* lease is renewed; or one pointer advances to a generation that is whole in its
\* store, whose transfer is counted and which a replica shows only after the primary.
Created ==
    /\ catalog = None /\ catalog' \in Records /\ catalog'.fence = 1
    /\ \A s \in Stores : catalog'.replicas[s] = None

Moved ==
    /\ catalog \in Records /\ catalog' \in Records
    /\ catalog'.replicas = catalog.replicas /\ catalog'.generations = catalog.generations
    /\ \/ catalog'.fence = catalog.fence + 1
       \/ catalog'.fence = catalog.fence /\ catalog'.owner = catalog.owner

AdvancedTo(s, d) ==
    /\ catalog \in Records /\ s \in Stores /\ d \in Descriptors
    /\ catalog' = Advertised(catalog, s, d)
    /\ \E m, fence : Checked(catalog, m, fence, s, d)
    /\ Whole(s, d)
    /\ s # Primary => Counted(s, d) /\ Shown(d)

\* The record after a pointer advanced.
LEMMA AdvancedType ==
    ASSUME NEW s \in Stores, NEW d \in Descriptors, AdvancedTo(s, d)
    PROVE  /\ catalog \in Records /\ catalog' \in Records
           /\ catalog'.owner = catalog.owner /\ catalog'.fence = catalog.fence
           /\ catalog'.replicas[s] = d
           /\ \A t \in Stores \ {s} : catalog'.replicas[t] = catalog.replicas[t]
           /\ catalog'.generations[d.seq] = d.gen
           /\ \A n \in Times \ {d.seq} : catalog'.generations[n] = catalog.generations[n]
           /\ catalog.generations[d.seq] \in {None, d.gen}
           /\ catalog.replicas[s] # None => catalog.replicas[s].seq <= d.seq
<1> DEFINE new == Advertised(catalog, s, d)
<1>1. catalog \in Records /\ catalog' = new
  BY Zenon DEF AdvancedTo
<1>2. /\ new \in Records /\ new.owner = catalog.owner /\ new.fence = catalog.fence
      /\ new.replicas = [catalog.replicas EXCEPT ![s] = d]
      /\ new.generations = [catalog.generations EXCEPT ![d.seq] = d.gen]
  BY <1>1, AdvertisedType
<1>3. /\ catalog.replicas \in [Stores -> Pointers] /\ d.seq \in Times
      /\ catalog.generations \in [Times -> Generations \cup {None}]
  BY <1>1, Zenon DEF Records, Descriptors
<1>4. /\ catalog.generations[d.seq] \in {None, d.gen}
      /\ catalog.replicas[s] # None => catalog.replicas[s].seq <= d.seq
  BY Zenon DEF AdvancedTo, Checked
<1> HIDE DEF new
<1> QED
  BY <1>1, <1>2, <1>3, <1>4, Zenon

\* Every change of the record is one of the four.
LEMMA CatalogStep ==
    ASSUME IInv, [Next]_vars
    PROVE  catalog' = catalog \/ Created \/ Moved \/ \E s \in Stores, d \in Descriptors : AdvancedTo(s, d)
<1>1. CatalogFrame
  BY FrameStep, Zenon DEF Frames
<1>0. PublicationsOk /\ PassesOk /\ RenewalsOk /\ OwnershipOk
  BY Zenon DEF IInv
<1>2. ASSUME OperatorCommit PROVE catalog' = catalog \/ Moved
  <2>1. oper.pc = "commit" /\ (catalog' = catalog \/ (catalog = oper.raw /\ catalog' = oper.new))
    BY <1>2, SwapCases DEF OperatorCommit
  <2> QED
    BY <1>0, <2>1, Zenon DEF OwnershipOk, Moved
<1>3. ASSUME NEW m \in Managers, Create(m) PROVE Created
  <2>1. catalog' \in Records
    <3>1. catalog' \in Records \cup {None}
      BY TypeStep, Zenon DEF TypeOK
    <3>2. Now("operator") + deploy.lease \in Nat
      BY Deployed DEF IInv
    <3> QED
      BY <1>3, <3>1, <3>2 DEF Create, Records, Pointers
  <2> QED
    BY <1>3, <2>1, Zenon DEF Create, Created
<1>4. ASSUME NEW m \in Managers, RenewCommit(m) PROVE catalog' = catalog \/ Moved
  <2>1. ren[m].pc = "commit" /\ (catalog' = catalog \/ (catalog = ren[m].raw /\ catalog' = ren[m].new))
    BY <1>4, SwapCases DEF RenewCommit
  <2> QED
    BY <1>0, <2>1, Zenon DEF RenewalsOk, Moved
<1>5. ASSUME NEW m \in Managers, PublishCommit(m)
      PROVE  catalog' = catalog \/ AdvancedTo(Primary, pub[m].d)
  <2>1. /\ pub[m].pc = "commit"
        /\ \/ catalog' = catalog
           \/ catalog = pub[m].raw /\ catalog' = Advertised(pub[m].raw, Primary, pub[m].d)
    BY <1>5, SwapCases, Zenon DEF PublishCommit
  <2>2. /\ pub[m].d \in Descriptors /\ Whole(Primary, pub[m].d) /\ Primary \in Stores
        /\ Checked(pub[m].raw, m, pub[m].fence, Primary, pub[m].d)
    BY <1>0, <2>1, Zenon DEF PublicationsOk, Publishing, Stores
  <2>3. pub[m].raw \in Records
    BY <2>2, Zenon DEF Checked
  <2> QED
    BY <2>1, <2>2, <2>3, Zenon DEF AdvancedTo
<1>6. ASSUME NEW m \in Managers, ReplicateCommit(m)
      PROVE  catalog' = catalog \/ AdvancedTo(Target(rep[m]), rep[m].d)
  <2>1. /\ rep[m].pc = "commit"
        /\ \/ catalog' = catalog
           \/ catalog = rep[m].raw /\ catalog' = Advertised(rep[m].raw, Target(rep[m]), rep[m].d)
    BY <1>6, SwapCases, Zenon DEF ReplicateCommit
  <2>2. /\ rep[m].d \in Descriptors /\ rep[m].at \in DOMAIN Targets /\ Shown(rep[m].d)
        /\ Whole(Target(rep[m]), rep[m].d) /\ Counted(Target(rep[m]), rep[m].d)
        /\ Checked(rep[m].raw, m, rep[m].rec.fence, Target(rep[m]), rep[m].d)
    BY <1>0, <2>1, Zenon DEF PassesOk, Passing
  <2>3. rep[m].raw \in Records
    BY <2>2, Zenon DEF Checked
  <2>4. Targets \in Seq(Replicas)
    BY Deployed, Zenon DEF IInv
  <2>5. Target(rep[m]) \in Stores
    BY <2>2, <2>4 DEF Target, Stores
  <2> QED
    BY <2>1, <2>2, <2>3, <2>5, Zenon DEF AdvancedTo
<1>7. ASSUME NEW s, NEW d, AdvancedTo(s, d) PROVE s \in Stores /\ d \in Descriptors
  BY <1>7, Zenon DEF AdvancedTo
<1> QED
  BY <1>1, <1>2, <1>3, <1>4, <1>5, <1>6, <1>7, Zenon DEF CatalogFrame

\* What the primary shows only moves forwards, so what was shown stays shown.
LEMMA ShownStep ==
    ASSUME IInv, [Next]_vars, NEW d \in Descriptors, Shown(d)
    PROVE  Shown(d)'
<1>1. Primary \in Stores
  BY Zenon DEF Stores
<1>2. CASE catalog' = catalog
  BY <1>2, Zenon DEF Shown
<1>3. CASE Created
  BY <1>3, Zenon DEF Created, Shown
<1>4. CASE Moved
  BY <1>4, NoneAssumption, Zenon DEF Moved, Shown
<1>5. ASSUME NEW s \in Stores, NEW e \in Descriptors, AdvancedTo(s, e) PROVE Shown(d)'
  <2>1. /\ catalog' \in Records /\ catalog'.replicas[s] = e
        /\ s # Primary => catalog'.replicas[Primary] = catalog.replicas[Primary]
        /\ catalog.replicas[s] # None => catalog.replicas[s].seq <= e.seq
        /\ catalog.replicas \in [Stores -> Pointers]
    BY <1>1, <1>5, AdvancedType, Zenon DEF Records
  <2>2. CASE s = Primary
    <3>1. d.seq <= e.seq
      BY <1>1, <2>1, <2>2 DEF Shown, Pointers, Descriptors, Times
    <3> QED
      BY <2>1, <2>2, <3>1, NoneAssumption, Zenon DEF Shown
  <2>3. CASE s # Primary
    BY <2>1, <2>3, NoneAssumption, Zenon DEF Shown
  <2> QED
    BY <2>2, <2>3, Zenon
<1> QED
  BY <1>2, <1>3, <1>4, <1>5, CatalogStep, Zenon

-----------------------------------------------------------------------------
(* The invariant is inductive. *)

\* A publication that waits for its swap has checked the record it read.
LEMMA PublicationsStep == IInv /\ [Next]_vars => PublicationsOk'
<1> SUFFICES ASSUME IInv, [Next]_vars, NEW m \in Managers
             PROVE  Publishing(m)'
  BY Zenon DEF PublicationsOk
<1>0. TypeOK /\ Publishing(m) /\ Primary \in Stores
  BY Zenon DEF IInv, Stores, PublicationsOk
<1>1. CASE pub'[m] = pub[m]
  BY <1>0, <1>1, WholeStep, Zenon DEF Publishing, Whole, Holds
<1>2. CASE pub'[m] = IdlePub
  BY <1>2 DEF IdlePub, Publishing
<1>3. CASE PublishStart(m)
  <2>1. [gen |-> pending[m], seq |-> Now(m)] \in Descriptors
    BY <1>0, <1>3, Deployed, Zenon DEF PublishStart, Descriptors, TypeOK
  <2> QED
    BY <1>0, <1>3, <2>1, Zenon DEF PublishStart, TypeOK, Publishing
<1>4. CASE PublishPut(m)
  BY <1>0, <1>4, Zenon DEF PublishPut, TypeOK, PubStates, Publishing
<1>5. CASE PublishVerify(m)
  <2>1. /\ pub'[m].pc = "commit" /\ pub'[m].raw = catalog
        /\ pub'[m].d = pub[m].d /\ pub'[m].fence = pub[m].fence
    BY <1>0, <1>5, Zenon DEF PublishVerify, TypeOK, PubStates
  <2>2. pub[m].d \in Descriptors
    BY <1>0, <1>5, Zenon DEF PublishVerify, Publishing
  <2>3. Checked(catalog, m, pub[m].fence, Primary, pub[m].d)
    BY <1>0, <1>5, Zenon DEF PublishVerify, Advertises, RequireOwner, Checked, TypeOK
  <2>4. Whole(Primary, pub[m].d)
    BY <1>5, Zenon DEF PublishVerify, Verified, Whole
  <2> QED
    BY <1>0, <2>1, <2>2, <2>3, <2>4, WholeStep, Zenon DEF Publishing, Whole, Holds
<1> QED
  BY <1>0, <1>1, <1>2, <1>3, <1>4, <1>5, PubStep, Zenon

\* What a pass keeps while others step: the record it listed is its own, the primary
\* still shows what it copies, and a copy that is whole and counted stays so.
LEMMA PassKept ==
    ASSUME IInv, [Next]_vars, NEW d \in Descriptors, NEW i \in DOMAIN Targets
    PROVE  /\ Targets' = Targets /\ Targets[i] \in Stores
           /\ Whole(Targets[i], d) => \A o \in Objects(d) : o \in objs'[Targets[i]]
                                                          \/ <<Targets[i], o>> \in hurt'
           /\ Counted(Targets[i], d) => (LocationOf[Targets[i]] # LocationOf[Primary]
                                           => <<d.gen, Targets[i]>> \in ledger')
<1>1. TypeOK
  BY Zenon DEF IInv
<1>2. Targets' = Targets /\ ledger \subseteq ledger'
  BY <1>1, DataStep, Zenon DEF Targets
<1>3. Targets[i] \in Stores
  BY <1>1, Deployed DEF Stores
<1>4. Whole(Targets[i], d) => \A o \in Objects(d) : o \in objs'[Targets[i]]
                                                 \/ <<Targets[i], o>> \in hurt'
  BY <1>1, <1>3, WholeStep, Zenon
<1> QED
  BY <1>2, <1>3, <1>4, Zenon DEF Counted

\* So has a pass, and its target holds the objects and is counted.
LEMMA PassesStep == IInv /\ [Next]_vars => PassesOk'
<1> SUFFICES ASSUME IInv, [Next]_vars, NEW m \in Managers
             PROVE  Passing(m)'
  BY Zenon DEF PassesOk
<1>0. TypeOK /\ Passing(m) /\ Primary \in Stores /\ Targets' = Targets
  BY DataStep, Zenon DEF IInv, Stores, PassesOk, Targets
<1>1. CASE rep'[m] = rep[m]
  <2>1. CASE rep[m].pc = "idle"
    BY <1>1, <2>1, Zenon DEF Passing
  <2>2. CASE rep[m].pc # "idle"
    <3>1. /\ rep[m].d \in Descriptors /\ rep[m].at \in DOMAIN Targets /\ Shown(rep[m].d)
      BY <1>0, <2>2, Zenon DEF Passing
    <3>2. /\ catalog' # None /\ catalog'.replicas[Primary] # None
          /\ rep[m].d.seq <= catalog'.replicas[Primary].seq
      BY <3>1, ShownStep, Zenon DEF Shown
    <3>3. rep[m].pc \in {"advertise", "commit"} =>
            Whole(Targets[rep[m].at], rep[m].d) /\ Counted(Targets[rep[m].at], rep[m].d)
      BY <1>0, Zenon DEF Passing, Target
    <3>4. rep[m].pc = "commit" =>
            Checked(rep[m].raw, m, rep[m].rec.fence, Targets[rep[m].at], rep[m].d)
      BY <1>0, Zenon DEF Passing, Target
    <3>5. rep[m].pc \in {"advertise", "commit"} =>
            /\ \A o \in Objects(rep[m].d) : o \in objs'[Targets[rep[m].at]]
                                           \/ <<Targets[rep[m].at], o>> \in hurt'
            /\ LocationOf[Targets[rep[m].at]] # LocationOf[Primary]
                 => <<rep[m].d.gen, Targets[rep[m].at]>> \in ledger'
      BY <3>1, <3>3, PassKept, Zenon
    <3>6. rep[m].rec \in Records /\ rep[m].d = rep[m].rec.replicas[Primary]
      BY <1>0, <2>2, Zenon DEF Passing
    <3> QED
      BY <1>0, <1>1, <3>1, <3>2, <3>4, <3>5, <3>6, Zenon
         DEF Passing, Target, Whole, Holds, Counted, Shown
  <2> QED
    BY <2>1, <2>2, Zenon
<1>2. CASE rep'[m] = IdleRep
  BY <1>2 DEF IdleRep, Passing
<1>3. ASSUME NEW rec \in Records, NEW i \in Nat, rec.replicas[Primary] # None,
             Shown(rec.replicas[Primary]), rep'[m] = Copying(rec, i)
      PROVE  Passing(m)'
  <2>1. CASE Copying(rec, i) = IdleRep
    BY <1>2, <1>3, <2>1, Zenon
  <2>2. CASE Copying(rec, i) # IdleRep
    <3>1. /\ Copying(rec, i).pc = "data" /\ Copying(rec, i).rec = rec
          /\ Copying(rec, i).d = rec.replicas[Primary] /\ rec.replicas[Primary] \in Descriptors
          /\ Copying(rec, i).at \in DOMAIN Targets
      BY <1>0, <1>3, <2>2, CopyingType, Zenon
    <3> QED
      BY <1>0, <1>3, <3>1, ShownStep, Zenon DEF Passing, Shown
  <2> QED
    BY <2>1, <2>2, Zenon
<1>4. CASE ReplicateList(m)
  <2>1. catalog \in Records /\ catalog.replicas[Primary] # None /\ rep'[m] = Copying(catalog, 1)
    BY <1>0, <1>4, Zenon DEF ReplicateList, TypeOK
  <2>2. catalog.replicas[Primary] \in Descriptors
    BY <1>0, <2>1, Zenon DEF Records, Pointers
  <2>3. Shown(catalog.replicas[Primary])
    BY <2>1, <2>2, NoneAssumption DEF Shown, Descriptors, Times
  <2> QED
    BY <1>3, <2>1, <2>3, Zenon
<1>5. CASE ReplicateCommit(m)
  <2>1. /\ rep[m].rec \in Records /\ rep[m].rec.replicas[Primary] # None
        /\ Shown(rep[m].rec.replicas[Primary]) /\ rep[m].at + 1 \in Nat
    BY <1>0, <1>5, NoneAssumption DEF ReplicateCommit, Passing, TypeOK, RepStates
  <2>2. rep'[m] = IdleRep \/ rep'[m] = Copying(rep[m].rec, rep[m].at + 1)
    BY <1>0, <1>5, Zenon DEF ReplicateCommit, TypeOK
  <2> QED
    BY <1>2, <1>3, <2>1, <2>2, Zenon
<1>6. ASSUME ReplicateCopy(m) \/ ReplicateVerify(m) \/ ReplicateRead(m)
      PROVE  Passing(m)'
  <2>1. /\ rep[m].rec \in Records /\ rep[m].d \in Descriptors /\ rep[m].at \in DOMAIN Targets
        /\ rep[m].d = rep[m].rec.replicas[Primary] /\ Shown(rep[m].d)
    BY <1>0, <1>6, Zenon DEF ReplicateCopy, ReplicateVerify, ReplicateRead, Passing
  <2>2. /\ rep'[m].rec = rep[m].rec /\ rep'[m].d = rep[m].d /\ rep'[m].at = rep[m].at
    BY <1>0, <1>6 DEF ReplicateCopy, ReplicateVerify, ReplicateRead, TypeOK, RepStates
  <2>3. /\ catalog' # None /\ catalog'.replicas[Primary] # None
        /\ rep[m].d.seq <= catalog'.replicas[Primary].seq
    BY <2>1, ShownStep, Zenon DEF Shown
  <2>4. CASE ReplicateCopy(m)
    <3>1. rep'[m].pc \in {"snapshot", "verify"}
      BY <1>0, <2>4, Zenon DEF ReplicateCopy, TypeOK, RepStates
    <3> QED
      BY <1>0, <2>1, <2>2, <2>3, <3>1, Zenon DEF Passing, Shown
  <2>5. CASE ReplicateVerify(m)
    <3>1. rep'[m].pc = "advertise" /\ Whole(Target(rep[m]), rep[m].d)
      BY <1>0, <2>5, Zenon DEF ReplicateVerify, TypeOK, RepStates, Verified, Whole
    <3>2. LocationOf[Target(rep[m])] # LocationOf[Primary]
            => <<rep[m].d.gen, Target(rep[m])>> \in ledger'
      BY <2>5, Zenon DEF ReplicateVerify, RecordEgress
    <3>3. \A o \in Objects(rep[m].d) : o \in objs'[Target(rep[m])] \/ <<Target(rep[m]), o>> \in hurt'
      BY <2>1, <3>1, PassKept, Zenon DEF Target
    <3> QED
      BY <1>0, <2>1, <2>2, <2>3, <3>1, <3>2, <3>3, Zenon
         DEF Passing, Shown, Whole, Holds, Counted, Target
  <2>6. CASE ReplicateRead(m)
    <3>1. rep'[m].pc = "commit" /\ rep'[m].raw = catalog
      BY <1>0, <2>6, Zenon DEF ReplicateRead, TypeOK, RepStates
    <3>2. Whole(Target(rep[m]), rep[m].d) /\ Counted(Target(rep[m]), rep[m].d)
      BY <1>0, <2>6, Zenon DEF ReplicateRead, Passing
    <3>3. Checked(catalog, m, rep[m].rec.fence, Target(rep[m]), rep[m].d)
      BY <1>0, <2>6, Zenon DEF ReplicateRead, Advertises, RequireOwner, Checked, TypeOK
    <3>4. /\ \A o \in Objects(rep[m].d) : o \in objs'[Target(rep[m])]
                                          \/ <<Target(rep[m]), o>> \in hurt'
          /\ LocationOf[Target(rep[m])] # LocationOf[Primary]
               => <<rep[m].d.gen, Target(rep[m])>> \in ledger'
      BY <2>1, <3>2, PassKept, Zenon DEF Target
    <3> QED
      BY <1>0, <2>1, <2>2, <2>3, <3>1, <3>3, <3>4, Zenon
         DEF Passing, Shown, Whole, Holds, Counted, Target
  <2> QED
    BY <1>6, <2>4, <2>5, <2>6, Zenon
<1> QED
  BY <1>0, <1>1, <1>2, <1>4, <1>5, <1>6, RepStep, Zenon

\* Renewals and moves of ownership change no pointer.
LEMMA ChangesStep == IInv /\ [Next]_vars => RenewalsOk' /\ OwnershipOk'
<1> SUFFICES ASSUME IInv, [Next]_vars
             PROVE  RenewalsOk' /\ OwnershipOk'
  BY Zenon
<1>0. TypeOK
  BY Zenon DEF IInv
<1>1. ASSUME NEW m \in Managers, ren'[m].pc = "commit"
      PROVE  /\ ren'[m].raw \in Records /\ ren'[m].new \in Records
             /\ ren'[m].new.owner = ren'[m].raw.owner /\ ren'[m].new.fence = ren'[m].raw.fence
             /\ ren'[m].new.replicas = ren'[m].raw.replicas
             /\ ren'[m].new.generations = ren'[m].raw.generations
  <2>1. CASE ren'[m] = ren[m] \/ ren'[m] = IdleSwap
    BY <1>1, <2>1 DEF IInv, RenewalsOk, IdleSwap
  <2>2. CASE RenewRead(m)
    <3>1. catalog \in Records /\ ren'[m].raw = catalog /\ ren'[m].new = Renewed(catalog, m)
      BY <1>0, <2>2, Zenon DEF RenewRead, TypeOK
    <3> QED
      BY <1>0, <3>1, RenewedType
  <2> QED
    BY <1>0, <2>1, <2>2, SwapStep, Zenon
<1>2. ASSUME oper'.pc = "commit"
      PROVE  /\ oper'.raw \in Records /\ oper'.new \in Records
             /\ oper'.new.fence = oper'.raw.fence + 1
             /\ oper'.new.replicas = oper'.raw.replicas
             /\ oper'.new.generations = oper'.raw.generations
  <2>1. CASE oper' = oper \/ oper' = IdleSwap
    BY <1>2, <2>1 DEF IInv, OwnershipOk, IdleSwap
  <2>2. ASSUME NEW m \in Managers, Handover(m) \/ Takeover(m)
        PROVE  /\ catalog \in Records /\ oper'.raw = catalog /\ oper'.new = Owned(catalog, m)
    BY <1>0, <2>2 DEF Handover, Takeover, TypeOK
  <2> QED
    BY <1>0, <2>1, <2>2, SwapStep, OwnedType
<1> QED
  BY <1>1, <1>2, Zenon DEF RenewalsOk, OwnershipOk

\* A record that was read by a request is whole for as long as the request lives.
LEMMA RequestsStep == IInv /\ [Next]_vars => RequestsOk'
<1> SUFFICES ASSUME IInv, [Next]_vars
             PROVE  RequestsOk'
  BY Zenon
<1>0. TypeOK
  BY Zenon DEF IInv
<1>1. CASE req' = req
  BY <1>0, <1>1, WholeStep, Zenon DEF IInv, RequestsOk, Whole, Holds
<1>2. CASE Answer
  <2>1. req'.store = req.store /\ req'.d = req.d /\ req.pc # "idle"
    BY <1>0, <1>2, Zenon DEF Answer, TypeOK, ReqStates
  <2> QED
    BY <1>0, <2>1, WholeStep, Zenon DEF IInv, RequestsOk, Whole, Holds
<1>3. ASSUME NEW s \in Stores, Resolve(s) PROVE RequestsOk'
  <2>1. Whole(s, catalog.replicas[s]) /\ req'.store = s /\ req'.d = catalog.replicas[s]
    BY <1>3, Zenon DEF Resolve, IInv, PointersAreWhole, Whole
  <2> QED
    BY <1>0, <1>3, <2>1, WholeStep, Zenon DEF RequestsOk, Whole, Holds
<1> QED
  BY <1>0, <1>1, <1>2, <1>3, SwapStep, Zenon

\* One content per sequence, and counted transfers, at every change of the record.
LEMMA CatalogInvariants ==
    IInv /\ [Next]_vars => OneContentPerSequence' /\ TransfersAreCounted'
<1> SUFFICES ASSUME IInv, [Next]_vars
             PROVE  OneContentPerSequence' /\ TransfersAreCounted'
  BY Zenon
<1>0. /\ TypeOK /\ OneContentPerSequence /\ TransfersAreCounted /\ ledger \subseteq ledger'
      /\ Primary \in Stores /\ Replicas \subseteq Stores
  BY DataStep, Zenon DEF IInv, Stores
<1>1. CASE catalog' = catalog
  BY <1>0, <1>1, Zenon DEF OneContentPerSequence, TransfersAreCounted
<1>2. CASE Created
  BY <1>0, <1>2, Zenon DEF Created, OneContentPerSequence, TransfersAreCounted
<1>3. CASE Moved
  BY <1>0, <1>3, NoneAssumption, Zenon DEF Moved, OneContentPerSequence, TransfersAreCounted
<1>4. ASSUME NEW s \in Stores, NEW d \in Descriptors, AdvancedTo(s, d)
      PROVE  OneContentPerSequence' /\ TransfersAreCounted'
  <2>1. /\ catalog \in Records /\ catalog' \in Records /\ catalog'.replicas[s] = d
        /\ \A t \in Stores \ {s} : catalog'.replicas[t] = catalog.replicas[t]
        /\ catalog'.generations[d.seq] = d.gen
        /\ \A n \in Times \ {d.seq} : catalog'.generations[n] = catalog.generations[n]
        /\ catalog.generations[d.seq] \in {None, d.gen}
        /\ catalog.replicas[s] # None => catalog.replicas[s].seq <= d.seq
    BY <1>4, AdvancedType, Zenon
  <2>2. \A t \in Stores : catalog.replicas[t] # None => catalog.replicas[t] \in Descriptors
    BY <2>1, Zenon DEF Records, Pointers
  <2>3. catalog # None
    BY <2>1, NoneAssumption, Zenon
  <2>4. ASSUME NEW t \in Stores, catalog'.replicas[t] # None
        PROVE  catalog'.generations[catalog'.replicas[t].seq] = catalog'.replicas[t].gen
    <3>1. CASE t = s
      BY <2>1, <3>1, Zenon
    <3>2. CASE t # s
      <4>1. catalog'.replicas[t] = catalog.replicas[t] /\ catalog.replicas[t] \in Descriptors
        BY <2>1, <2>2, <2>4, <3>2, Zenon
      <4>2. /\ catalog.generations[catalog.replicas[t].seq] = catalog.replicas[t].gen
            /\ catalog.replicas[t].seq \in Times /\ catalog.replicas[t].gen \in Generations
        BY <1>0, <2>3, <2>4, <4>1, Zenon DEF OneContentPerSequence, Descriptors
      <4> QED
        BY <2>1, <4>1, <4>2, NoneAssumption, Zenon
    <3> QED
      BY <3>1, <3>2, Zenon
  <2>5. ASSUME NEW t \in Replicas, catalog'.replicas[t] # None
        PROVE  /\ catalog'.replicas[Primary] # None
               /\ catalog'.replicas[t].seq <= catalog'.replicas[Primary].seq
               /\ LocationOf[t] # LocationOf[Primary] => <<catalog'.replicas[t].gen, t>> \in ledger'
    <3>0. t # Primary
      BY <2>5, ReplicasAssumption, Zenon
    <3>1. CASE t = s
      BY <1>0, <1>4, <2>1, <3>0, <3>1, Zenon DEF AdvancedTo, Shown, Counted
    <3>2. CASE t # s
      <4>1. /\ catalog'.replicas[t] = catalog.replicas[t] /\ catalog.replicas[t] \in Descriptors
            /\ catalog.replicas[Primary] \in Descriptors
            /\ catalog.replicas[t].seq <= catalog.replicas[Primary].seq
            /\ LocationOf[t] # LocationOf[Primary] => <<catalog.replicas[t].gen, t>> \in ledger
        BY <1>0, <2>1, <2>2, <2>3, <2>5, <3>2, Zenon DEF TransfersAreCounted
      <4>2. CASE s = Primary
        BY <1>0, <2>1, <4>1, <4>2, NoneAssumption DEF Descriptors, Times
      <4>3. CASE s # Primary
        BY <1>0, <2>1, <4>1, <4>3, NoneAssumption, Zenon
      <4> QED
        BY <4>2, <4>3, Zenon
    <3> QED
      BY <3>1, <3>2, Zenon
  <2> QED
    BY <2>4, <2>5, Zenon DEF OneContentPerSequence, TransfersAreCounted
<1> QED
  BY <1>1, <1>2, <1>3, <1>4, CatalogStep, Zenon

\* A pointer names objects that are there: it was advanced to a whole generation.
LEMMA PointersStep == IInv /\ [Next]_vars => PointersAreWhole'
<1> SUFFICES ASSUME IInv, [Next]_vars
             PROVE  PointersAreWhole'
  BY Zenon
<1>0. TypeOK /\ PointersAreWhole /\ hurt \subseteq hurt'
  BY DataStep, Zenon DEF IInv
<1>1. ASSUME NEW s \in Stores, catalog' # None, catalog'.replicas[s] # None
      PROVE  \A o \in Objects(catalog'.replicas[s]) : o \in objs'[s] \/ <<s, o>> \in hurt'
  <2>1. ASSUME catalog # None, catalog'.replicas[s] = catalog.replicas[s]
        PROVE  \A o \in Objects(catalog'.replicas[s]) : o \in objs'[s] \/ <<s, o>> \in hurt'
    <3>1. Whole(s, catalog.replicas[s])
      BY <1>0, <1>1, <2>1, Zenon DEF PointersAreWhole, Whole
    <3> QED
      BY <1>0, <2>1, <3>1, WholeStep, Zenon
  <2>2. CASE catalog' = catalog
    BY <1>1, <2>1, <2>2, Zenon
  <2>3. CASE Created
    BY <1>1, <2>3, Zenon DEF Created
  <2>4. CASE Moved
    BY <2>1, <2>4, NoneAssumption, Zenon DEF Moved
  <2>5. ASSUME NEW t \in Stores, NEW d \in Descriptors, AdvancedTo(t, d)
        PROVE  \A o \in Objects(catalog'.replicas[s]) : o \in objs'[s] \/ <<s, o>> \in hurt'
    <3>1. /\ catalog \in Records /\ catalog'.replicas[t] = d
          /\ s # t => catalog'.replicas[s] = catalog.replicas[s]
      BY <2>5, AdvancedType, Zenon
    <3>2. CASE s = t
      <4>1. Whole(s, d)
        BY <2>5, <3>2, Zenon DEF AdvancedTo
      <4> QED
        BY <1>0, <3>1, <3>2, <4>1, WholeStep, Zenon
    <3>3. CASE s # t
      BY <2>1, <3>1, <3>3, NoneAssumption, Zenon
    <3> QED
      BY <3>2, <3>3, Zenon
  <2> QED
    BY <2>2, <2>3, <2>4, <2>5, CatalogStep, Zenon
<1>2. ASSUME req'.pc = "answered"
      PROVE  req'.body = "bytes" \/ <<req'.store, DataOf(req'.d)>> \in hurt'
  <2>1. CASE req' = req
    BY <1>0, <1>2, <2>1, Zenon DEF PointersAreWhole
  <2>2. CASE Answer
    <3>1. /\ req'.store = req.store /\ req'.d = req.d /\ req.pc # "idle"
          /\ req'.body = Serve(DataOf(req.d))
      BY <1>0, <2>2, Zenon DEF Answer, TypeOK, ReqStates
    <3>2. Holds(req.store, DataOf(req.d)) \/ <<req.store, DataOf(req.d)>> \in hurt
      BY <3>1, Zenon DEF IInv, RequestsOk, Whole, Objects
    <3> QED
      BY <1>0, <3>1, <3>2, Zenon DEF Serve
  <2>3. ASSUME NEW s \in Stores, Resolve(s) PROVE FALSE
    BY <1>2, <2>3, Zenon DEF Resolve
  <2> QED
    BY <1>0, <2>1, <2>2, <2>3, SwapStep, Zenon
<1> QED
  BY <1>1, <1>2, Zenon DEF PointersAreWhole, Holds

\* The invariant is inductive.
LEMMA InvStep == IInv /\ [Next]_vars => IInv'
BY TypeStep, PublicationsStep, PassesStep, ChangesStep, RequestsStep, PointersStep,
   CatalogInvariants, Zenon DEF IInv

-----------------------------------------------------------------------------
(* The results. *)

\* The inductive invariant holds of every behaviour: what publications, passes,
\* renewals and ownership changes carry from their read to their compare-and-swap is
\* still true of the record they replace.
THEOREM Inductive == Spec => []IInv
<1>1. Init => IInv
  BY InitOk, Zenon
<1>2. IInv /\ [Next]_vars => IInv'
  BY InvStep, Zenon
<1> QED
  BY <1>1, <1>2, PTL DEF Spec

\* No pointer of the catalog names an object its store does not hold, unless a fault
\* took it, and a request that resolved a pointer gets its bytes (advertise only after
\* the objects are verified; _resolve and the object route of the regional endpoint).
THEOREM PointersWhole == Spec => []PointersAreWhole
BY Inductive, PTL DEF IInv

\* Two regions that show one sequence show one generation (the generations map that
\* advertise checks and extends in the same compare-and-swap).
THEOREM ContentIsUnique == Spec => []OneContentPerSequence
BY Inductive, PTL DEF IInv

\* Replicas stay behind the primary, and a replica in another location is shown only
\* after its transfer is in the egress ledger (replicate records before it advertises).
THEOREM TransfersCounted == Spec => []TransfersAreCounted
BY Inductive, PTL DEF IInv

\* A pointer moves only under the fence of the standing owner: what a former owner has
\* in flight shows nothing (require_owner and the compare-and-swap of _commit).
THEOREM OwnerOnly == Spec => OnlyTheOwnerAdvertises
<1> DEFINE Advertising(m) ==
      /\ PublishCommit(m) /\ catalog' # catalog =>
           catalog.owner = m /\ catalog.fence = pub[m].fence
      /\ ReplicateCommit(m) /\ catalog' # catalog =>
           catalog.owner = m /\ catalog.fence = rep[m].rec.fence
<1>1. ASSUME IInv, NEW m \in Managers PROVE Advertising(m)
  <2>1. ASSUME PublishCommit(m), catalog' # catalog
        PROVE  catalog.owner = m /\ catalog.fence = pub[m].fence
    <3>1. pub[m].pc = "commit" /\ catalog = pub[m].raw
      BY <2>1, SwapCases, Zenon DEF PublishCommit
    <3> QED
      BY <1>1, <3>1, Zenon DEF IInv, PublicationsOk, Publishing, Checked
  <2>2. ASSUME ReplicateCommit(m), catalog' # catalog
        PROVE  catalog.owner = m /\ catalog.fence = rep[m].rec.fence
    <3>1. rep[m].pc = "commit" /\ catalog = rep[m].raw
      BY <2>2, SwapCases, Zenon DEF ReplicateCommit
    <3> QED
      BY <1>1, <3>1, Zenon DEF IInv, PassesOk, Passing, Checked
  <2> QED
    BY <2>1, <2>2, Zenon
<1>2. IInv => [\A m \in Managers : Advertising(m)]_vars
  BY <1>1, Zenon
<1> QED
  BY <1>2, Inductive, PTL DEF OnlyTheOwnerAdvertises

\* The catalog record implements the abstract fenced catalog: a new owner always takes
\* a new fence, and only one pointer moves at a time, forwards, under the standing
\* owner (GlobalCatalog: create, handover, takeover, renew, advertise, _commit).
THEOREM CatalogRefines == Spec => CatalogIsFenced
<1>1. Init => Fenced!Init
  BY Zenon DEF Init, Fenced!Init
<1>2. IInv /\ [Next]_vars => [Fenced!Next]_(Fenced!vars)
  <2> SUFFICES ASSUME IInv, [Next]_vars
               PROVE  Fenced!Next \/ UNCHANGED Fenced!vars
    BY Zenon
  <2>1. CASE catalog' = catalog
    BY <2>1, Zenon DEF Fenced!vars
  <2>2. CASE Created
    <3>1. catalog' # None /\ catalog'.owner \in Managers
      BY <2>2, NoneAssumption, Zenon DEF Created, Records
    <3>2. Fenced!Own(catalog'.owner)
      BY <2>2, <3>1 DEF Created, Fenced!Own
    <3> QED
      BY <3>1, <3>2, Zenon DEF Fenced!Next, Fenced!Own
  <2>3. CASE Moved
    <3>1. catalog # None /\ catalog' # None /\ catalog'.owner \in Managers
      BY <2>3, NoneAssumption, Zenon DEF Moved, Records
    <3>2. CASE catalog'.fence = catalog.fence + 1
      <4>1. Fenced!Own(catalog'.owner)
        BY <2>3, <3>1, <3>2, Zenon DEF Moved, Fenced!Own
      <4> QED
        BY <3>1, <4>1, Zenon DEF Fenced!Next, Fenced!Own
    <3>3. CASE catalog'.fence = catalog.fence /\ catalog'.owner = catalog.owner
      BY <2>3, <3>1, <3>3, Zenon DEF Moved, Fenced!vars
    <3> QED
      BY <2>3, <3>2, <3>3, Zenon DEF Moved
  <2>4. ASSUME NEW s \in Stores, NEW d \in Descriptors, AdvancedTo(s, d)
        PROVE  Fenced!Next
    <3> DEFINE sh(rec, t) == IF rec = None \/ rec.replicas[t] = None THEN 0
                             ELSE rec.replicas[t].seq + 1
    <3>1. /\ catalog \in Records /\ catalog' \in Records
          /\ catalog'.owner = catalog.owner /\ catalog'.fence = catalog.fence
          /\ catalog'.replicas[s] = d
          /\ \A t \in Stores \ {s} : catalog'.replicas[t] = catalog.replicas[t]
          /\ catalog.replicas[s] # None => catalog.replicas[s].seq <= d.seq
      BY <2>4, AdvancedType, Zenon
    <3>2. catalog # None /\ catalog' # None /\ catalog.owner \in Managers
      BY <3>1, NoneAssumption, Zenon DEF Records
    <3>3. catalog.replicas[s] # None => catalog.replicas[s].seq \in Nat
      BY <2>4, <3>1 DEF Records, Pointers, Descriptors, Times
    <3>4. d # None /\ d.seq \in Nat
      BY <2>4, NoneAssumption DEF Descriptors, Times
    <3>5. sh(catalog', s) >= sh(catalog, s)
      BY <3>1, <3>2, <3>3, <3>4
    <3>6. \A t \in Stores \ {s} : sh(catalog', t) = sh(catalog, t)
      BY <3>1, <3>2, Zenon
    <3> HIDE DEF sh
    <3>7. [t \in Stores |-> sh(catalog', t)]
            = [[t \in Stores |-> sh(catalog, t)] EXCEPT ![s] = sh(catalog', s)]
      BY <3>6, Zenon
    <3> USE DEF sh
    <3>8. Fenced!Advance(s)
      BY <2>4, <3>1, <3>2, <3>5, <3>7, Zenon DEF Fenced!Advance
    <3> QED
      BY <2>4, <3>8, Zenon DEF Fenced!Next
  <2> QED
    BY <2>1, <2>2, <2>3, <2>4, CatalogStep, Zenon
<1> QED
  BY <1>1, <1>2, Inductive, PTL DEF Spec, CatalogIsFenced, Fenced!Spec

=============================================================================
