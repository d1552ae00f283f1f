------------------------- MODULE LeaderLeaseProofs -------------------------
(***************************************************************************)
(* The safety of the leader lease for any number of Managers, any TTL and  *)
(* any retry bounds.  The inductive invariant keeps, for every fence the   *)
(* record has held, its one owner (terms), and bounds by the durable fence *)
(* everything that was written under a term.                               *)
(***************************************************************************)
EXTENDS LeaderLease, TLAPS

\* A fence belongs to one owner, and no fence is ahead of the record.
TermsAreUnique ==
    /\ \A f \in Nat, m, n \in Managers : <<f, m>> \in terms /\ <<f, n>> \in terms => m = n
    /\ \A f \in Nat, m \in Managers : <<f, m>> \in terms => f <= rec.fence

\* Whoever owns the record, has just won it, or believes it leads, does so
\* under a term of its own.
TermsAreHeld ==
    /\ rec.owner \in Managers => <<rec.fence, rec.owner>> \in terms
    /\ \A m \in Managers :
         /\ isLeader[m] => <<fence[m], m>> \in terms
         /\ loop[m].pc = "won" => <<Taken(m, loop[m].raw, loop[m].t).fence, m>> \in terms

\* What was committed under a term is not ahead of the record.
CommitsAreBehind ==
    /\ data.term <= rec.fence
    /\ \A n \in StateNames : rec.state[n] <= rec.fence
    /\ \A m \in Managers : api[m].op.pc = "swap" => api[m].op.raw.owner = m

\* A record changed under a pending read-modify-write was changed by another
\* Manager, under a term no older than the one of the read.
OthersWrote ==
    \A m \in Managers :
      queue[m].pc # "idle" /\ queue[m].base # data.version =>
        /\ queue[m].seen <= data.term
        /\ \E n \in Managers \ {m} : <<data.term, n>> \in terms

\* The term of a read is one the record has reached.
SeenIsBehind == \A m \in Managers : queue[m].seen <= rec.fence

IInv ==
    /\ TypeOK /\ TermsAreUnique /\ TermsAreHeld
    /\ CommitsAreBehind /\ SeenIsBehind /\ OthersWrote

\* A lease that was never written reads as a record.
LEMMA AbsentIsRecord == AbsentRecord \in Records
BY DEF AbsentRecord, Records

\* acquire_or_renew swaps in a record.
LEMMA TakenType ==
    ASSUME NEW m \in Managers, NEW r \in Records, NEW t \in Nat
    PROVE  /\ Taken(m, r, t) \in Records
           /\ Taken(m, r, t).owner = m
           /\ Taken(m, r, t).state = r.state
           /\ r.fence <= Taken(m, r, t).fence
           /\ Taken(m, r, t).fence = r.fence => r.owner = m
BY DEF Taken, Records, SameLiveOwner, Expired

\* No operation in progress is an operation.
LEMMA IdleIsOp == Idle \in Ops
BY AbsentIsRecord DEF Idle, Ops

\* The pending operations stay operations as their program counter moves.
LEMMA OpType ==
    ASSUME NEW o \in Ops, NEW p \in {"idle", "swap", "again", "won", "release"}
    PROVE  [o EXCEPT !.pc = p] \in Ops
BY DEF Ops

\* A begun acquire_or_renew, release or mutate_state is an operation.
LEMMA OpMade ==
    ASSUME NEW p \in {"idle", "swap", "again", "won", "release"}, NEW r \in Records,
           NEW t \in Nat, NEW n \in Nat
    PROVE  [pc |-> p, raw |-> r, t |-> t, tries |-> n] \in Ops
BY DEF Ops

\* _lose, or leaving the LeaderLease object as it is, keeps its types.
LEMMA LeaseType ==
    ASSUME TypeOK, NEW m \in Managers, KeepLease \/ Lose(m)
    PROVE  isLeader' \in [Managers -> BOOLEAN] /\ fence' \in [Managers -> Nat]
<1>1. CASE KeepLease
    BY <1>1 DEF KeepLease, TypeOK
<1>2. CASE Lose(m)
    BY <1>2 DEF Lose, TypeOK
<1> QED BY <1>1, <1>2

\* What a Manager swaps in, or has swapped in, over a record it read is a record.
LEMMA TakenFromRead ==
    ASSUME TypeOK, NEW m \in Managers
    PROVE  /\ Taken(m, rec, loop[m].t) \in Records
           /\ Taken(m, rec, loop[m].t).owner = m
           /\ Taken(m, loop[m].raw, loop[m].t).fence \in Nat
<1>1. loop[m].t \in Nat /\ rec \in Records /\ loop[m].raw \in Records
    BY DEF TypeOK, Ops
<1>2. Taken(m, rec, loop[m].t) \in Records /\ Taken(m, rec, loop[m].t).owner = m
    BY <1>1, TakenType, Zenon
<1>3. Taken(m, loop[m].raw, loop[m].t) \in Records
    BY <1>1, TakenType, Zenon
<1>4. Taken(m, loop[m].raw, loop[m].t).fence \in Nat
    BY <1>3 DEF Records
<1> QED BY <1>2, <1>4

\* A Manager that has just been constructed, over any store, satisfies the
\* invariant.
THEOREM InitIsGood == Init => IInv
<1> SUFFICES ASSUME Init PROVE IInv
    OBVIOUS
<1>1. TypeOK
    BY AbsentIsRecord DEF Init, TypeOK, Ops, Idle, ApiIdle, QueueIdle
<1>2. TermsAreUnique /\ TermsAreHeld /\ CommitsAreBehind /\ SeenIsBehind /\ OthersWrote
    BY LeaseAssumption DEF Init, TermsAreUnique, TermsAreHeld, CommitsAreBehind,
       SeenIsBehind, OthersWrote, AbsentRecord, Idle, ApiIdle, QueueIdle
<1> QED BY <1>1, <1>2 DEF IInv

----------------------------------------------------------------------------
(* Types *)

\* Every step of the lease and of its users keeps the types.
LEMMA TypeStep == TypeOK /\ [Next]_vars => TypeOK'
<1> SUFFICES ASSUME TypeOK, [Next]_vars PROVE TypeOK'
    OBVIOUS
<1> USE LeaseAssumption, AbsentIsRecord, IdleIsOp
<1> DEFINE ApiOps == [op : Ops, name : StateNames \cup {NoOwner}]
<1>a. ApiIdle \in ApiOps
    BY DEF ApiIdle
<1>b. ASSUME NEW m \in Managers
      PROVE  /\ loop[m] \in Ops /\ loop[m].t \in Nat /\ loop[m].tries \in Nat
             /\ api[m] \in ApiOps /\ api[m].op \in Ops /\ api[m].op.t \in Nat
             /\ api[m].op.tries \in Nat /\ api[m].name \in StateNames \cup {NoOwner}
    BY DEF TypeOK, Ops
<1>1. ASSUME NEW m \in Managers, AcquireRead(m) PROVE TypeOK'
    <2>1. ASSUME NEW t \in Nat, NEW n \in Nat, AcquireFrom(m, t, n) PROVE TypeOK'
        <3>1. [pc |-> "swap", raw |-> rec, t |-> t, tries |-> n] \in Ops
            BY OpMade DEF TypeOK
        <3>2. loop' \in [Managers -> Ops]
            BY <2>1, <3>1 DEF AcquireFrom, TypeOK
        <3>3. KeepLease \/ Lose(m)
            BY <2>1 DEF AcquireFrom
        <3> QED BY <1>1, <3>2, <3>3, LeaseType DEF AcquireRead, TypeOK
    <2> QED BY <1>1, <1>b, <2>1 DEF AcquireRead, TypeOK
<1>2. ASSUME NEW m \in Managers, AcquireSwap(m) PROVE TypeOK'
    <2>2. Taken(m, rec, loop[m].t) \in Records /\ Taken(m, rec, loop[m].t).owner = m
        BY TakenFromRead
    <2>3. CASE rec = loop[m].raw
        <3>1. rec' \in Records /\ terms' \subseteq (Nat \X Managers)
            BY <1>2, <2>2, <2>3 DEF AcquireSwap, SwapIn, TypeOK, Records
        <3>2. loop' \in [Managers -> Ops]
            <4>1. [loop[m] EXCEPT !.pc = "won"] \in Ops
                BY <1>b, OpType
            <4>2. loop' = [loop EXCEPT ![m] = [loop[m] EXCEPT !.pc = "won"]]
                BY <1>2, <2>3 DEF AcquireSwap
            <4> QED BY <4>1, <4>2 DEF TypeOK
        <3> QED BY <1>2, <2>3, <3>1, <3>2 DEF AcquireSwap, KeepLease, TypeOK
    <2>4. CASE rec # loop[m].raw
        <3>1. [loop[m] EXCEPT !.pc = "again"] \in Ops
            BY <1>b, OpType
        <3>2. loop' \in [Managers -> Ops]
            <4>1. \/ loop' = [loop EXCEPT ![m] = [loop[m] EXCEPT !.pc = "again"]]
                  \/ loop' = [loop EXCEPT ![m] = Idle]
                BY <1>2, <2>4 DEF AcquireSwap
            <4> QED BY <3>1, <4>1 DEF TypeOK
        <3>3. KeepLease \/ Lose(m)
            BY <1>2 DEF AcquireSwap
        <3> QED BY <1>2, <2>4, <3>2, <3>3, LeaseType DEF TypeOK, AcquireSwap
    <2> QED BY <2>3, <2>4
<1>3. ASSUME NEW m \in Managers, AcquireDone(m) PROVE TypeOK'
    <2>2. Taken(m, loop[m].raw, loop[m].t).fence \in Nat
        BY TakenFromRead
    <2> QED BY <1>3, <2>2 DEF TypeOK, AcquireDone, Ops, Idle
<1>4. ASSUME NEW m \in Managers, AcquireError(m) PROVE TypeOK'
    <2>2. Taken(m, rec, loop[m].t) \in Records /\ Taken(m, rec, loop[m].t).owner = m
        BY TakenFromRead
    <2>3. rec' \in Records /\ terms' \subseteq (Nat \X Managers)
        BY <1>4, <2>2 DEF AcquireError, SwapIn, TypeOK, Records
    <2> QED BY <1>4, <2>3 DEF TypeOK, AcquireError, Lose, Ops, Idle
<1>5. ASSUME NEW m \in Managers, ReleaseRead(m) PROVE TypeOK'
    <2>1. [Idle EXCEPT !.pc = "release", !.raw = rec] \in Ops
        BY DEF TypeOK, Idle, Ops
    <2>2. loop' \in [Managers -> Ops]
        BY <1>5, <2>1 DEF ReleaseRead, TypeOK
    <2>3. KeepLease \/ Lose(m)
        BY <1>5 DEF ReleaseRead
    <2> QED BY <1>5, <2>2, <2>3, LeaseType DEF TypeOK, ReleaseRead
<1>6. ASSUME NEW m \in Managers, ReleaseSwap(m) PROVE TypeOK'
    <2>1. rec' \in Records
        <3>1. [rec EXCEPT !.owner = NoOwner, !.renew = 0] \in Records
            BY DEF TypeOK, Records
        <3> QED BY <1>6, <3>1 DEF ReleaseSwap, TypeOK
    <2> QED BY <1>6, <2>1 DEF TypeOK, ReleaseSwap, Lose, Ops, Idle
<1>7. ASSUME NEW m \in Managers, MutateRead(m) PROVE TypeOK'
    <2>1. ASSUME NEW t \in Nat, NEW n \in Nat, NEW name \in StateNames \cup {NoOwner},
                 MutateFrom(m, name, t, n)
          PROVE  TypeOK'
        <3>1. [pc |-> "swap", raw |-> rec, t |-> t, tries |-> n] \in Ops
            BY OpMade DEF TypeOK
        <3>2. [op |-> [pc |-> "swap", raw |-> rec, t |-> t, tries |-> n], name |-> name]
                \in ApiOps
            BY <3>1
        <3>3. api' \in [Managers -> ApiOps]
            <4>1. \/ api' = [api EXCEPT ![m] = ApiIdle]
                  \/ api' = [api EXCEPT ![m] =
                       [op |-> [pc |-> "swap", raw |-> rec, t |-> t, tries |-> n],
                        name |-> name]]
                BY <2>1 DEF MutateFrom
            <4> QED BY <1>a, <3>2, <4>1 DEF TypeOK
        <3>4. KeepLease \/ Lose(m)
            BY <2>1 DEF MutateFrom
        <3> QED BY <1>7, <3>3, <3>4, LeaseType DEF MutateRead, TypeOK
    <2>2. CASE api[m].op.pc = "idle"
        BY <1>7, <2>1, <2>2 DEF MutateRead, TypeOK
    <2>3. CASE api[m].op.pc = "again"
        <3>1. api[m].op.tries + 1 \in Nat
            BY <1>b
        <3>2. MutateFrom(m, api[m].name, api[m].op.t, api[m].op.tries + 1)
            BY <1>7, <2>3 DEF MutateRead
        <3> QED BY <1>b, <2>1, <3>1, <3>2
    <2> QED BY <1>7, <2>2, <2>3 DEF MutateRead
<1>8. ASSUME NEW m \in Managers, MutateSwap(m) PROVE TypeOK'
    <2>1. rec' \in Records
        <3>1. [rec.state EXCEPT ![api[m].name] = rec.fence] \in [StateNames -> Nat]
            BY DEF TypeOK, Records
        <3>2. [rec EXCEPT !.state[api[m].name] = rec.fence] \in Records
            BY <3>1 DEF TypeOK, Records
        <3> QED BY <1>8, <3>2 DEF MutateSwap, TypeOK
    <2>2. api' \in [Managers -> ApiOps]
        <3>1. [api[m].op EXCEPT !.pc = "again"] \in Ops
            BY <1>b, OpType
        <3>2. [api[m] EXCEPT !.op.pc = "again"] \in ApiOps
            BY <1>b, <3>1
        <3> QED BY <1>8, <1>a, <3>2 DEF MutateSwap, TypeOK
    <2> QED BY <1>8, <2>1, <2>2 DEF TypeOK, MutateSwap, KeepLease
<1>9. ASSUME NEW m \in Managers, QueueRead(m) PROVE TypeOK'
    BY <1>9 DEF TypeOK, QueueRead, Records
<1>10. ASSUME NEW m \in Managers, QueueValidate(m) PROVE TypeOK'
    <2>1. KeepLease \/ Lose(m)
        BY <1>10 DEF QueueValidate
    <2> DEFINE QueueOps == [pc : {"idle", "read", "put"}, base : Nat, seen : Nat, term : Nat]
    <2>2. queue \in [Managers -> QueueOps] /\ rec.fence \in Nat
        BY DEF TypeOK, Records
    <2>3. [queue[m] EXCEPT !.pc = "put", !.term = rec.fence] \in QueueOps
        BY <2>2
    <2>4. QueueIdle \in QueueOps
        BY DEF QueueIdle
    <2>5. \/ queue' = [queue EXCEPT ![m] = [queue[m] EXCEPT !.pc = "put", !.term = rec.fence]]
          \/ queue' = [queue EXCEPT ![m] = QueueIdle]
        BY <1>10 DEF QueueValidate
    <2>6. queue' \in [Managers -> QueueOps]
        <3> HIDE DEF QueueOps
        <3> QED BY <2>2, <2>3, <2>4, <2>5
    <2> QED BY <1>10, <2>1, <2>6, LeaseType DEF TypeOK, QueueValidate
<1>11. ASSUME NEW m \in Managers, FencedPut(m) PROVE TypeOK'
    <2>1. data' \in [version : Nat, term : Nat]
        <3>1. queue[m].term \in Nat /\ data.version + 1 \in Nat
            BY DEF TypeOK
        <3> QED BY <1>11, <3>1 DEF FencedPut, TypeOK
    <2> QED BY <1>11, <2>1 DEF TypeOK, FencedPut, QueueIdle
<1>c. ASSUME NEW m \in Managers, MutateError(m) PROVE TypeOK'
    BY <1>a, <1>c DEF TypeOK, MutateError
<1>12. CASE Tick
    BY <1>12 DEF TypeOK, Tick
<1>13. CASE UNCHANGED vars
    BY <1>13 DEF TypeOK, vars
<1> QED
    BY <1>1, <1>2, <1>3, <1>4, <1>5, <1>6, <1>7, <1>8, <1>9, <1>10, <1>11, <1>12,
       <1>13, <1>c DEF Next

----------------------------------------------------------------------------
(* Terms *)

\* Only AcquireSwap and AcquireError write a new owner and term.
LEMMA SwapStep ==
    ASSUME IInv, NEW m \in Managers, NEW t \in Nat, SwapIn(Taken(m, rec, t))
    PROVE  /\ TermsAreUnique'
           /\ rec'.owner \in Managers => <<rec'.fence, rec'.owner>> \in terms'
           /\ rec.fence <= rec'.fence
           /\ rec'.state = rec.state
           /\ terms \subseteq terms'
           /\ <<Taken(m, rec, t).fence, m>> \in terms'
<1> DEFINE new == Taken(m, rec, t)
<1>1. rec \in Records /\ terms \subseteq (Nat \X Managers)
    BY DEF IInv, TypeOK
<1>2. /\ new \in Records /\ new.owner = m /\ new.state = rec.state
      /\ rec.fence <= new.fence /\ (new.fence = rec.fence => rec.owner = m)
    BY <1>1, TakenType, Zenon
<1>3. rec' = new /\ terms' = terms \cup {<<new.fence, m>>}
    BY <1>2 DEF SwapIn
<1>4. new.fence \in Nat /\ rec.fence \in Nat
    BY <1>1, <1>2 DEF Records
<1>5. ASSUME NEW n \in Managers, <<new.fence, n>> \in terms PROVE n = m
    <2>1. new.fence <= rec.fence
        BY <1>4, <1>5 DEF IInv, TermsAreUnique
    <2>2. rec.owner = m
        BY <1>2, <1>4, <2>1
    <2> QED BY <1>2, <1>4, <1>5, <2>1, <2>2 DEF IInv, TermsAreHeld, TermsAreUnique
<1>6. TermsAreUnique'
    <2>1. ASSUME NEW f \in Nat, NEW a \in Managers, NEW b \in Managers,
                 <<f, a>> \in terms', <<f, b>> \in terms'
          PROVE  a = b
        BY <1>3, <1>5, <2>1 DEF IInv, TermsAreUnique
    <2>2. ASSUME NEW f \in Nat, NEW a \in Managers, <<f, a>> \in terms'
          PROVE  f <= rec'.fence
        BY <1>2, <1>3, <1>4, <2>2 DEF IInv, TermsAreUnique
    <2> QED BY <2>1, <2>2 DEF TermsAreUnique
<1> HIDE DEF new
<1> QED BY <1>2, <1>3, <1>6 DEF new

\* The record's fence only grows, and every term keeps its owner.
LEMMA RecordStep ==
    ASSUME IInv, [Next]_vars
    PROVE  /\ rec.fence <= rec'.fence
           /\ terms \subseteq terms'
           /\ TermsAreUnique'
           /\ rec'.owner \in Managers => <<rec'.fence, rec'.owner>> \in terms'
<1> DEFINE Goal == /\ rec.fence <= rec'.fence
                   /\ terms \subseteq terms'
                   /\ TermsAreUnique'
                   /\ rec'.owner \in Managers => <<rec'.fence, rec'.owner>> \in terms'
<1>1. rec \in Records /\ rec.fence \in Nat
    BY DEF IInv, TypeOK, Records
<1>2. ASSUME rec'.fence = rec.fence, terms' = terms, rec'.owner \in {rec.owner, NoOwner}
      PROVE  Goal
    BY <1>1, <1>2, LeaseAssumption DEF IInv, TermsAreUnique, TermsAreHeld
<1>3. ASSUME UNCHANGED <<rec, terms>> PROVE Goal
    BY <1>2, <1>3
<1>4. ASSUME NEW m \in Managers, SwapIn(Taken(m, rec, loop[m].t)) PROVE Goal
    <2>1. loop[m].t \in Nat
        BY DEF IInv, TypeOK, Ops
    <2> QED BY <1>4, <2>1, SwapStep
<1>5. ASSUME NEW m \in Managers, AcquireSwap(m) PROVE Goal
    BY <1>3, <1>4, <1>5 DEF AcquireSwap
<1>6. ASSUME NEW m \in Managers, AcquireError(m) PROVE Goal
    BY <1>3, <1>4, <1>6 DEF AcquireError
<1>7. ASSUME NEW m \in Managers, ReleaseSwap(m) PROVE Goal
    <2>1. rec'.fence = rec.fence /\ rec'.owner \in {rec.owner, NoOwner} /\ terms' = terms
        BY <1>1, <1>7 DEF ReleaseSwap, Records
    <2> QED BY <1>2, <2>1
<1>8. ASSUME NEW m \in Managers, MutateSwap(m) PROVE Goal
    <2>1. rec'.fence = rec.fence /\ rec'.owner = rec.owner /\ terms' = terms
        BY <1>1, <1>8 DEF MutateSwap, Records
    <2> QED BY <1>2, <2>1
<1>9. ASSUME NEW m \in Managers,
             \/ AcquireRead(m) \/ AcquireDone(m) \/ ReleaseRead(m) \/ MutateRead(m) \/ MutateError(m)
             \/ QueueRead(m) \/ QueueValidate(m) \/ FencedPut(m)
      PROVE  Goal
    BY <1>3, <1>9 DEF AcquireRead, AcquireDone, ReleaseRead, MutateRead, MutateError,
       QueueRead, QueueValidate, FencedPut
<1>10. CASE Tick \/ UNCHANGED vars
    BY <1>3, <1>10 DEF Tick, vars
<1>11. ASSUME NEW m \in Managers,
              \/ AcquireRead(m) \/ AcquireSwap(m) \/ AcquireDone(m) \/ AcquireError(m)
              \/ ReleaseRead(m) \/ ReleaseSwap(m)
              \/ MutateRead(m) \/ MutateSwap(m) \/ MutateError(m)
              \/ QueueRead(m) \/ QueueValidate(m) \/ FencedPut(m)
       PROVE  Goal
    BY <1>5, <1>6, <1>7, <1>8, <1>9, <1>11
<1> QED BY <1>10, <1>11 DEF Next

\* A Manager's belief in its leadership ends, or stays what it was.
LEMMA BeliefStep ==
    ASSUME IInv, NEW m \in Managers, KeepLease \/ Lose(m), terms \subseteq terms'
    PROVE  \A n \in Managers : isLeader'[n] => <<fence'[n], n>> \in terms'
<1> SUFFICES ASSUME NEW n \in Managers, isLeader'[n] PROVE <<fence'[n], n>> \in terms'
    OBVIOUS
<1>1. isLeader \in [Managers -> BOOLEAN] /\ fence \in [Managers -> Nat]
    BY DEF IInv, TypeOK
<1>2. CASE KeepLease
    BY <1>2 DEF IInv, TermsAreHeld, KeepLease
<1>3. CASE Lose(m)
    <2>1. n # m
        BY <1>1, <1>3 DEF Lose
    <2>2. isLeader'[n] = isLeader[n] /\ fence'[n] = fence[n]
        BY <1>1, <1>3, <2>1 DEF Lose
    <2> QED BY <2>2 DEF IInv, TermsAreHeld
<1> QED BY <1>2, <1>3

\* A loop that is not between winning and noticing it owes no term.
LEMMA LoopStep ==
    ASSUME IInv, NEW m \in Managers, terms \subseteq terms', NEW o, o.pc # "won",
           loop' = [loop EXCEPT ![m] = o] \/ UNCHANGED loop
    PROVE  \A n \in Managers : loop'[n].pc = "won" =>
             <<Taken(n, loop'[n].raw, loop'[n].t).fence, n>> \in terms'
<1> SUFFICES ASSUME NEW n \in Managers, loop'[n].pc = "won"
             PROVE  <<Taken(n, loop'[n].raw, loop'[n].t).fence, n>> \in terms'
    OBVIOUS
<1>1. loop'[n] = loop[n]
    BY DEF IInv, TypeOK
<1> QED BY <1>1 DEF IInv, TermsAreHeld

\* Whoever believes it leads a term was given that term by a swap.
LEMMA HeldStep == IInv /\ [Next]_vars => TermsAreHeld'
<1> SUFFICES ASSUME IInv, [Next]_vars PROVE TermsAreHeld'
    OBVIOUS
<1>1. /\ terms \subseteq terms'
      /\ rec'.owner \in Managers => <<rec'.fence, rec'.owner>> \in terms'
    BY RecordStep
<1> DEFINE Believed == \A n \in Managers : isLeader'[n] => <<fence'[n], n>> \in terms'
           Won == \A n \in Managers : loop'[n].pc = "won" =>
                    <<Taken(n, loop'[n].raw, loop'[n].t).fence, n>> \in terms'
<1>2. SUFFICES Believed /\ Won
    BY <1>1 DEF TermsAreHeld
<1>3. Idle.pc # "won"
    BY DEF Idle
<1>4. ASSUME NEW m \in Managers, AcquireRead(m) PROVE Believed /\ Won
    <2>1. KeepLease \/ Lose(m)
        BY <1>4 DEF AcquireRead, AcquireFrom
    <2>2. PICK o : o.pc # "won" /\ loop' = [loop EXCEPT ![m] = o]
        BY <1>3, <1>4 DEF AcquireRead, AcquireFrom
    <2> QED BY <1>1, <2>1, <2>2, BeliefStep, LoopStep
<1>5. ASSUME NEW m \in Managers, AcquireSwap(m) PROVE Believed /\ Won
    <2>1. KeepLease \/ Lose(m)
        BY <1>5 DEF AcquireSwap
    <2>2. CASE rec # loop[m].raw
        <3>1. PICK o : o.pc # "won" /\ loop' = [loop EXCEPT ![m] = o]
            <4>1. loop[m] \in Ops
                BY DEF IInv, TypeOK
            <4>2. [loop[m] EXCEPT !.pc = "again"].pc # "won"
                BY <4>1 DEF Ops
            <4> QED BY <1>3, <1>5, <2>2, <4>2 DEF AcquireSwap
        <3> QED BY <1>1, <2>1, <3>1, BeliefStep, LoopStep
    <2>3. CASE rec = loop[m].raw
        <3>1. loop[m].t \in Nat /\ loop[m] \in Ops /\ loop \in [Managers -> Ops]
            BY DEF IInv, TypeOK, Ops
        <3>2. SwapIn(Taken(m, rec, loop[m].t))
            BY <1>5, <2>3 DEF AcquireSwap
        <3>3. <<Taken(m, rec, loop[m].t).fence, m>> \in terms'
            BY <3>1, <3>2, SwapStep
        <3>4. loop' = [loop EXCEPT ![m] = [loop[m] EXCEPT !.pc = "won"]]
            BY <1>5, <2>3 DEF AcquireSwap
        <3>5. loop'[m].raw = rec /\ loop'[m].t = loop[m].t
            BY <2>3, <3>1, <3>4 DEF Ops
        <3>6. ASSUME NEW n \in Managers, loop'[n].pc = "won"
              PROVE  <<Taken(n, loop'[n].raw, loop'[n].t).fence, n>> \in terms'
            <4>1. CASE n = m
                BY <3>3, <3>5, <4>1
            <4>2. CASE n # m
                <5>1. loop'[n] = loop[n]
                    BY <3>1, <3>4, <4>2
                <5> QED BY <1>1, <3>6, <5>1 DEF IInv, TermsAreHeld
            <4> QED BY <4>1, <4>2
        <3> QED BY <1>1, <2>1, <3>6, BeliefStep
    <2> QED BY <2>2, <2>3
<1>6. ASSUME NEW m \in Managers, AcquireDone(m) PROVE Believed /\ Won
    <2>1. Won
        BY <1>1, <1>3, <1>6, LoopStep DEF AcquireDone
    <2>2. ASSUME NEW n \in Managers, isLeader'[n] PROVE <<fence'[n], n>> \in terms'
        <3>1. CASE n = m
            <4>1. fence'[m] = Taken(m, loop[m].raw, loop[m].t).fence
                BY <1>6 DEF AcquireDone, IInv, TypeOK
            <4> QED BY <1>1, <1>6, <3>1, <4>1 DEF AcquireDone, IInv, TermsAreHeld
        <3>2. CASE n # m
            <4>1. isLeader'[n] = isLeader[n] /\ fence'[n] = fence[n]
                BY <1>6, <3>2 DEF AcquireDone, IInv, TypeOK
            <4> QED BY <1>1, <2>2, <4>1 DEF IInv, TermsAreHeld
        <3> QED BY <3>1, <3>2
    <2> QED BY <2>1, <2>2
<1>7. ASSUME NEW m \in Managers, AcquireError(m) \/ ReleaseSwap(m) PROVE Believed /\ Won
    <2>1. Lose(m) /\ loop' = [loop EXCEPT ![m] = Idle]
        BY <1>7 DEF AcquireError, ReleaseSwap
    <2> QED BY <1>1, <1>3, <2>1, BeliefStep, LoopStep
<1>8. ASSUME NEW m \in Managers, ReleaseRead(m) PROVE Believed /\ Won
    <2>1. KeepLease \/ Lose(m)
        BY <1>8 DEF ReleaseRead
    <2>2. [Idle EXCEPT !.pc = "release", !.raw = rec].pc # "won"
        BY DEF Idle
    <2>3. PICK o : o.pc # "won" /\ (loop' = [loop EXCEPT ![m] = o] \/ UNCHANGED loop)
        BY <1>3, <1>8, <2>2 DEF ReleaseRead
    <2> QED BY <1>1, <2>1, <2>3, BeliefStep, LoopStep
<1>9. ASSUME NEW m \in Managers,
             \/ MutateRead(m) \/ MutateSwap(m) \/ MutateError(m)
             \/ QueueRead(m) \/ QueueValidate(m) \/ FencedPut(m)
      PROVE  Believed /\ Won
    <2>1. KeepLease \/ Lose(m)
        BY <1>9 DEF MutateRead, MutateFrom, MutateSwap, MutateError, QueueRead,
           QueueValidate, FencedPut, KeepLease
    <2>2. UNCHANGED loop
        BY <1>9 DEF MutateRead, MutateSwap, MutateError, QueueRead, QueueValidate, FencedPut
    <2> QED BY <1>1, <1>3, <2>1, <2>2, BeliefStep, LoopStep
<1>10. CASE Tick \/ UNCHANGED vars
    BY <1>1, <1>10 DEF Tick, vars, IInv, TermsAreHeld
<1>11. ASSUME NEW m \in Managers,
              \/ AcquireRead(m) \/ AcquireSwap(m) \/ AcquireDone(m) \/ AcquireError(m)
              \/ ReleaseRead(m) \/ ReleaseSwap(m)
              \/ MutateRead(m) \/ MutateSwap(m) \/ MutateError(m)
              \/ QueueRead(m) \/ QueueValidate(m) \/ FencedPut(m)
       PROVE  Believed /\ Won
    BY <1>4, <1>5, <1>6, <1>7, <1>8, <1>9, <1>11
<1> QED BY <1>10, <1>11 DEF Next

\* What a step can do to the lease record: nothing, take it, release it, or
\* commit one named state in it.
LEMMA RecordChange ==
    ASSUME TypeOK, [Next]_vars
    PROVE  \/ rec' = rec
           \/ \E m \in Managers, t \in Nat : rec' = Taken(m, rec, t)
           \/ rec' = [rec EXCEPT !.owner = NoOwner, !.renew = 0]
           \/ \E m \in Managers : MutateSwap(m) /\ rec = api[m].op.raw
<1> DEFINE Goal == \/ rec' = rec
                   \/ \E m \in Managers, t \in Nat : rec' = Taken(m, rec, t)
                   \/ rec' = [rec EXCEPT !.owner = NoOwner, !.renew = 0]
                   \/ \E m \in Managers : MutateSwap(m) /\ rec = api[m].op.raw
<1>1. ASSUME NEW m \in Managers, AcquireSwap(m) \/ AcquireError(m) PROVE Goal
    <2>1. loop[m].t \in Nat
        BY DEF TypeOK, Ops
    <2> QED BY <1>1, <2>1 DEF AcquireSwap, AcquireError, SwapIn
<1>2. ASSUME NEW m \in Managers, ReleaseSwap(m) PROVE Goal
    BY <1>2 DEF ReleaseSwap
<1>3. ASSUME NEW m \in Managers, MutateSwap(m) PROVE Goal
    BY <1>3 DEF MutateSwap
<1>4. ASSUME NEW m \in Managers,
             \/ AcquireRead(m) \/ AcquireDone(m) \/ ReleaseRead(m) \/ MutateRead(m) \/ MutateError(m)
             \/ QueueRead(m) \/ QueueValidate(m) \/ FencedPut(m)
      PROVE  Goal
    BY <1>4 DEF AcquireRead, AcquireDone, ReleaseRead, MutateRead, MutateError,
       QueueRead, QueueValidate, FencedPut
<1>5. CASE Tick \/ UNCHANGED vars
    BY <1>5 DEF Tick, vars
<1>6. ASSUME NEW m \in Managers,
             \/ AcquireRead(m) \/ AcquireSwap(m) \/ AcquireDone(m) \/ AcquireError(m)
             \/ ReleaseRead(m) \/ ReleaseSwap(m)
             \/ MutateRead(m) \/ MutateSwap(m) \/ MutateError(m)
             \/ QueueRead(m) \/ QueueValidate(m) \/ FencedPut(m)
      PROVE  Goal
    BY <1>1, <1>2, <1>3, <1>4, <1>6
<1> QED BY <1>5, <1>6 DEF Next

\* What a step can do to the queue record and to the pending updates of it:
\* nothing, or one step of one read-modify-write.
LEMMA QueueChange ==
    ASSUME [Next]_vars
    PROVE  \/ UNCHANGED <<data, queue>>
           \/ \E m \in Managers : QueueRead(m) \/ QueueValidate(m) \/ FencedPut(m)
<1> DEFINE Goal == \/ UNCHANGED <<data, queue>>
                   \/ \E m \in Managers : QueueRead(m) \/ QueueValidate(m) \/ FencedPut(m)
<1>1. ASSUME NEW m \in Managers,
             \/ AcquireRead(m) \/ AcquireSwap(m) \/ AcquireDone(m) \/ AcquireError(m)
             \/ ReleaseRead(m) \/ ReleaseSwap(m)
             \/ MutateRead(m) \/ MutateSwap(m) \/ MutateError(m)
             \/ QueueRead(m) \/ QueueValidate(m) \/ FencedPut(m)
      PROVE  Goal
    BY <1>1 DEF AcquireRead, AcquireSwap, AcquireDone, AcquireError, ReleaseRead,
       ReleaseSwap, MutateRead, MutateSwap, MutateError
<1>2. CASE Tick \/ UNCHANGED vars
    BY <1>2 DEF Tick, vars
<1> QED BY <1>1, <1>2 DEF Next

\* mutate_state's commit: the record keeps its owner and fence, and the named
\* state takes the record's term.
LEMMA MutateCommits ==
    ASSUME TypeOK, NEW m \in Managers, MutateSwap(m), rec = api[m].op.raw
    PROVE  /\ rec'.owner = rec.owner /\ rec'.fence = rec.fence
           /\ \A n \in StateNames : rec'.state[n] \in {rec.state[n], rec.fence}
<1>1. rec' = [rec EXCEPT !.state = [rec.state EXCEPT ![api[m].name] = rec.fence]]
    BY DEF MutateSwap
<1>2. rec \in Records /\ rec.state \in [StateNames -> Nat]
    BY DEF TypeOK, Records
<1>3. /\ rec'.owner = rec.owner /\ rec'.fence = rec.fence
      /\ rec'.state = [rec.state EXCEPT ![api[m].name] = rec.fence]
    BY <1>1, <1>2 DEF Records
<1>4. \A n \in StateNames : rec'.state[n] \in {rec.state[n], rec.fence}
    BY <1>2, <1>3
<1> QED BY <1>3, <1>4

\* A step that changes the queue record is the fenced write of one Manager,
\* under the term of the lease record it owns.
LEMMA PutCommits ==
    ASSUME [Next]_vars, data' # data
    PROVE  \E m \in Managers : /\ FencedPut(m)
                               /\ rec.owner = m
                               /\ queue[m].term = rec.fence
                               /\ data'.term = rec.fence
<1>1. PICK m \in Managers : FencedPut(m)
    BY QueueChange DEF QueueRead, QueueValidate
<1>2. FenceMatches(m, queue[m].term)
    BY <1>1 DEF FencedPut
<1>3. data'.term = queue[m].term
    BY <1>1, <1>2 DEF FencedPut
<1> QED BY <1>1, <1>2, <1>3 DEF FenceMatches

\* What was committed, in the lease record or in the queue, was committed in a
\* term that is not in the future.
LEMMA CommitsStep == IInv /\ [Next]_vars => CommitsAreBehind'
<1> SUFFICES ASSUME IInv, [Next]_vars PROVE CommitsAreBehind'
    OBVIOUS
<1>1. /\ rec.fence <= rec'.fence
      /\ rec.fence \in Nat /\ rec'.fence \in Nat
      /\ data.term \in Nat
    BY RecordStep, TypeStep DEF IInv, TypeOK, Records
<1>2. data'.term <= rec'.fence
    <2>1. data' = data \/ data'.term = rec.fence
        BY PutCommits
    <2> QED BY <1>1, <2>1 DEF IInv, CommitsAreBehind
<1>3. ASSUME NEW n \in StateNames PROVE rec'.state[n] <= rec'.fence
    <2>1. rec'.state[n] = rec.state[n] \/ rec'.state[n] = rec.fence
        <3>1. rec \in Records
            BY DEF IInv, TypeOK
        <3>2. \A m \in Managers, t \in Nat : Taken(m, rec, t).state = rec.state
            BY <3>1, TakenType, Zenon
        <3>3. [rec EXCEPT !.owner = NoOwner, !.renew = 0].state = rec.state
            BY <3>1 DEF Records
        <3> QED BY <3>2, <3>3, RecordChange, MutateCommits DEF IInv
    <2>2. rec.state[n] <= rec.fence /\ rec.state[n] \in Nat
        BY DEF IInv, CommitsAreBehind, TypeOK, Records
    <2> QED BY <1>1, <2>1, <2>2
<1>4. ASSUME NEW n \in Managers, api'[n].op.pc = "swap" PROVE api'[n].op.raw.owner = n
    <2> DEFINE Goal == api'[n].op.raw.owner = n
    <2>1. api[n].op.pc = "swap" => api[n].op.raw.owner = n
        BY DEF IInv, CommitsAreBehind
    <2>2. ApiIdle.op.pc # "swap"
        BY DEF ApiIdle, Idle
    <2>3. ASSUME NEW m \in Managers, MutateRead(m) PROVE Goal
        <3>1. PICK a : /\ a.op.pc = "swap" => a.op.raw.owner = m
                       /\ api' = [api EXCEPT ![m] = a]
            BY <2>2, <2>3 DEF MutateRead, MutateFrom, Holds
        <3> QED BY <1>4, <2>1, <3>1 DEF IInv, TypeOK
    <2>4. ASSUME NEW m \in Managers, MutateSwap(m) PROVE Goal
        <3>1. api[m].op \in Ops /\ api[m] \in [op : Ops, name : StateNames \cup {NoOwner}]
            BY DEF IInv, TypeOK
        <3>2. [api[m] EXCEPT !.op.pc = "again"].op.pc # "swap"
            BY <3>1 DEF Ops
        <3>3. PICK a : a.op.pc # "swap" /\ api' = [api EXCEPT ![m] = a]
            <4>1. CASE rec = api[m].op.raw
                BY <2>2, <2>4, <4>1 DEF MutateSwap
            <4>2. CASE rec # api[m].op.raw
                <5>1. api' = [api EXCEPT ![m] =
                                IF api[m].op.tries < MutateTries
                                THEN [api[m] EXCEPT !.op.pc = "again"] ELSE ApiIdle]
                    BY <2>4, <4>2 DEF MutateSwap
                <5> QED BY <2>2, <3>2, <5>1
            <4> QED BY <4>1, <4>2
        <3> QED BY <1>4, <2>1, <3>3 DEF IInv, TypeOK
    <2>a. ASSUME NEW m \in Managers, MutateError(m) PROVE Goal
        BY <1>4, <2>1, <2>2, <2>a DEF MutateError, IInv, TypeOK
    <2>5. ASSUME NEW m \in Managers,
                 \/ AcquireRead(m) \/ AcquireSwap(m) \/ AcquireDone(m) \/ AcquireError(m)
                 \/ ReleaseRead(m) \/ ReleaseSwap(m)
                 \/ MutateRead(m) \/ MutateSwap(m) \/ MutateError(m)
                 \/ QueueRead(m) \/ QueueValidate(m) \/ FencedPut(m)
          PROVE  Goal
        BY <1>4, <2>1, <2>3, <2>4, <2>5, <2>a
        DEF AcquireRead, AcquireSwap, AcquireDone, AcquireError, ReleaseRead,
            ReleaseSwap, QueueRead, QueueValidate, FencedPut
    <2>6. CASE Tick \/ UNCHANGED vars
        BY <1>4, <2>1, <2>6 DEF Tick, vars
    <2> QED BY <2>5, <2>6 DEF Next
<1> QED BY <1>2, <1>3, <1>4 DEF CommitsAreBehind

\* A queue record that changed under a pending update was changed by another
\* Manager, under a term no older than the one of the read.
LEMMA OthersStep == IInv /\ [Next]_vars => OthersWrote'
<1> SUFFICES ASSUME IInv, [Next]_vars,
                    NEW m \in Managers, queue'[m].pc # "idle", queue'[m].base # data'.version
             PROVE  /\ queue'[m].seen <= data'.term
                    /\ \E n \in Managers \ {m} : <<data'.term, n>> \in terms'
    BY DEF OthersWrote
<1>1. /\ terms \subseteq terms'
      /\ rec.owner \in Managers => <<rec.fence, rec.owner>> \in terms
    BY RecordStep DEF IInv, TermsAreHeld
<1>2. /\ queue \in [Managers -> [pc : {"idle", "read", "put"}, base : Nat,
                                seen : Nat, term : Nat]]
      /\ rec.fence \in Nat /\ data.term \in Nat /\ data.term <= rec.fence
    BY DEF IInv, TypeOK, Records, CommitsAreBehind
<1>3. CASE data' = data
    <2>1. /\ queue[m].pc # "idle" /\ queue'[m].base = queue[m].base
          /\ queue'[m].seen = queue[m].seen
        <3>1. QueueIdle.pc = "idle"
            BY DEF QueueIdle
        <3>2. CASE queue'[m] = queue[m]
            BY <3>2
        <3>3. ASSUME NEW n \in Managers, QueueRead(n), queue'[m] # queue[m] PROVE FALSE
            BY <1>2, <1>3, <3>3 DEF QueueRead
        <3>4. ASSUME NEW n \in Managers, QueueValidate(n), queue'[m] # queue[m]
              PROVE  queue'[m] = [queue[m] EXCEPT !.pc = "put", !.term = rec.fence]
                     /\ queue[m].pc = "read"
            BY <1>2, <3>1, <3>4 DEF QueueValidate
        <3>5. ASSUME NEW n \in Managers, FencedPut(n), queue'[m] # queue[m] PROVE FALSE
            BY <1>2, <3>1, <3>5 DEF FencedPut
        <3>6. CASE queue'[m] = [queue[m] EXCEPT !.pc = "put", !.term = rec.fence]
                   /\ queue[m].pc = "read"
            BY <1>2, <3>6
        <3> QED BY <3>2, <3>3, <3>4, <3>5, <3>6, QueueChange
    <2> QED BY <1>1, <1>3, <2>1 DEF IInv, OthersWrote
<1>4. CASE data' # data
    <2>1. PICK n \in Managers : /\ FencedPut(n)
                                /\ rec.owner = n
                                /\ queue[n].term = rec.fence
                                /\ data'.term = rec.fence
        BY <1>4, PutCommits
    <2>2. n # m
        BY <1>2, <2>1 DEF FencedPut, QueueIdle
    <2>3. queue'[m] = queue[m]
        BY <1>2, <2>1, <2>2 DEF FencedPut
    <2>4. queue[m].seen <= rec.fence
        BY <2>3 DEF IInv, SeenIsBehind
    <2> QED BY <1>1, <2>1, <2>2, <2>3, <2>4
<1> QED BY <1>3, <1>4

\* The durable fence a pending update saw is not in the future.
LEMMA SeenStep == IInv /\ [Next]_vars => SeenIsBehind'
<1> SUFFICES ASSUME IInv, [Next]_vars, NEW m \in Managers PROVE queue'[m].seen <= rec'.fence
    BY DEF SeenIsBehind
<1>1. rec.fence <= rec'.fence /\ rec.fence \in Nat /\ rec'.fence \in Nat
    BY RecordStep, TypeStep DEF IInv, TypeOK, Records
<1>2. /\ queue \in [Managers -> [pc : {"idle", "read", "put"}, base : Nat,
                                seen : Nat, term : Nat]]
      /\ queue[m].seen <= rec.fence
    BY DEF IInv, TypeOK, SeenIsBehind
<1>3. queue'[m].seen \in {queue[m].seen, rec.fence, 0}
    <2>1. ASSUME NEW n \in Managers, QueueRead(n)
          PROVE  queue'[m].seen \in {queue[m].seen, rec.fence, 0}
        BY <1>2, <2>1 DEF QueueRead
    <2>2. ASSUME NEW n \in Managers, QueueValidate(n)
          PROVE  queue'[m].seen \in {queue[m].seen, rec.fence, 0}
        <3>1. [queue[n] EXCEPT !.pc = "put", !.term = rec.fence].seen = queue[n].seen
            BY <1>2
        <3>2. QueueIdle.seen = 0
            BY DEF QueueIdle
        <3>3. PICK q : /\ queue' = [queue EXCEPT ![n] = q]
                       /\ q.seen \in {queue[n].seen, 0}
            BY <2>2, <3>1, <3>2 DEF QueueValidate
        <3> QED BY <1>2, <3>3
    <2>3. ASSUME NEW n \in Managers, FencedPut(n)
          PROVE  queue'[m].seen \in {queue[m].seen, rec.fence, 0}
        BY <1>2, <2>3 DEF FencedPut, QueueIdle
    <2> QED BY <2>1, <2>2, <2>3, QueueChange
<1> QED BY <1>1, <1>2, <1>3

\* The invariant is inductive.
LEMMA InvStep == IInv /\ [Next]_vars => IInv'
BY TypeStep, RecordStep, HeldStep, CommitsStep, SeenStep, OthersStep DEF IInv

\* The invariant holds in every state of every behaviour.
THEOREM Inductive == Spec => []IInv
BY InitIsGood, InvStep, PTL DEF Spec

\* Every variable of the lease keeps its type.
THEOREM TypeCorrect == Spec => []TypeOK
<1>1. IInv => TypeOK
    BY DEF IInv
<1> QED BY <1>1, Inductive, PTL

\* Two Managers never believe they lead the same term.
THEOREM LeadersAreDistinct == Spec => []LeadersHaveDistinctTerms
<1>1. IInv => LeadersHaveDistinctTerms
    BY DEF IInv, TypeOK, TermsAreUnique, TermsAreHeld, LeadersHaveDistinctTerms
<1> QED BY <1>1, Inductive, PTL

\* The durable fence never decreases.
THEOREM FenceIsMonotone == Spec => FenceNeverDecreases
<1>1. IInv /\ [Next]_vars => [rec'.fence >= rec.fence]_vars
    <2> SUFFICES ASSUME IInv, [Next]_vars PROVE rec'.fence >= rec.fence
        OBVIOUS
    <2>1. rec.fence <= rec'.fence /\ rec.fence \in Nat /\ rec'.fence \in Nat
        BY RecordStep, TypeStep DEF IInv, TypeOK, Records
    <2> QED BY <2>1
<1> QED BY <1>1, Inductive, PTL DEF Spec, FenceNeverDecreases

\* A queue record is never overwritten under an older term.
THEOREM WritesAreOrdered == Spec => WritesFollowTermOrder
<1>1. IInv /\ [Next]_vars => [data'.term >= data.term]_vars
    <2> SUFFICES ASSUME IInv, [Next]_vars PROVE data'.term >= data.term
        OBVIOUS
    <2>1. data' = data \/ data'.term = rec.fence
        BY PutCommits
    <2>2. data.term \in Nat /\ rec.fence \in Nat /\ data.term <= rec.fence
        BY DEF IInv, TypeOK, Records, CommitsAreBehind
    <2> QED BY <2>1, <2>2
<1> QED BY <1>1, Inductive, PTL DEF Spec, WritesFollowTermOrder

\* Manager state is committed by the record's owner, in the order of terms.
THEOREM StateIsOrdered == Spec => StateFollowsTermOrder
<1> DEFINE A == \A n \in StateNames :
                  /\ rec'.state[n] >= rec.state[n]
                  /\ rec'.state[n] # rec.state[n] => rec'.owner = rec.owner /\ rec.owner # NoOwner
<1>1. IInv /\ [Next]_vars => [A]_vars
    <2> SUFFICES ASSUME IInv, [Next]_vars PROVE A
        OBVIOUS
    <2>1. rec \in Records /\ \A n \in StateNames : rec.state[n] \in Nat /\ rec.state[n] <= rec.fence
        BY DEF IInv, TypeOK, Records, CommitsAreBehind
    <2>2. CASE rec'.state = rec.state
        BY <2>1, <2>2
    <2>3. CASE rec'.state # rec.state
        <3>1. PICK m \in Managers : MutateSwap(m) /\ rec = api[m].op.raw
            <4>1. \A k \in Managers, t \in Nat : Taken(k, rec, t).state = rec.state
                BY <2>1, TakenType, Zenon
            <4>2. [rec EXCEPT !.owner = NoOwner, !.renew = 0].state = rec.state
                BY <2>1 DEF Records
            <4> QED BY <2>3, <4>1, <4>2, RecordChange DEF IInv
        <3>2. /\ rec'.owner = rec.owner
              /\ \A n \in StateNames : rec'.state[n] \in {rec.state[n], rec.fence}
            BY <3>1, MutateCommits DEF IInv
        <3>3. rec.owner = m
            BY <3>1 DEF MutateSwap, IInv, CommitsAreBehind
        <3>4. rec.owner # NoOwner
            BY <3>3, LeaseAssumption
        <3>5. rec.fence \in Nat
            BY <2>1 DEF Records
        <3> QED BY <2>1, <3>2, <3>4, <3>5
    <2> QED BY <2>2, <2>3
<1> QED BY <1>1, Inductive, PTL DEF Spec, StateFollowsTermOrder

\* Within one term the queue's read-modify-write loses no update.
THEOREM UpdatesAreLostOnlyAcrossTerms == Spec => LostUpdateNeedsTermChange
<1> DEFINE A == \A m \in Managers :
                  /\ queue[m].pc = "put"
                  /\ queue'[m].pc = "idle"
                  /\ data' # data
                  /\ queue[m].base # data.version
                  => queue[m].seen # queue[m].term
<1>1. IInv /\ [Next]_vars => [A]_vars
    <2> SUFFICES ASSUME IInv, [Next]_vars, NEW m \in Managers,
                        queue[m].pc = "put", queue'[m].pc = "idle", data' # data,
                        queue[m].base # data.version
                 PROVE  queue[m].seen # queue[m].term
        OBVIOUS
    <2>1. PICK n \in Managers : /\ FencedPut(n)
                                /\ rec.owner = n
                                /\ queue[n].term = rec.fence
        BY PutCommits
    <2>2. queue \in [Managers -> [pc : {"idle", "read", "put"}, base : Nat,
                                 seen : Nat, term : Nat]]
        BY DEF IInv, TypeOK
    <2>3. n = m
        BY <2>1, <2>2 DEF FencedPut
    <2>4. <<rec.fence, m>> \in terms /\ rec.fence \in Nat
        BY <2>1, <2>3 DEF IInv, TermsAreHeld, TypeOK, Records
    <2>5. /\ queue[m].seen <= data.term
          /\ \E k \in Managers \ {m} : <<data.term, k>> \in terms
        BY DEF IInv, OthersWrote
    <2>6. data.term \in Nat /\ data.term <= rec.fence
        BY DEF IInv, TypeOK, CommitsAreBehind
    <2>7. data.term # rec.fence
        BY <2>4, <2>5, <2>6 DEF IInv, TermsAreUnique
    <2>8. queue[m].seen \in Nat
        BY <2>2
    <2> QED BY <2>1, <2>3, <2>4, <2>5, <2>6, <2>7, <2>8
<1> QED BY <1>1, Inductive, PTL DEF Spec, LostUpdateNeedsTermChange
=============================================================================
