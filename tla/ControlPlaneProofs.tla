------------------------- MODULE ControlPlaneProofs -------------------------
(***************************************************************************)
(* Proofs about ControlPlane, for every set of Managers, Agents and         *)
(* deliveries and every bound: commands stay with the registration they    *)
(* were queued for, an acknowledged drain outlives takeovers and failed    *)
(* commits as long as no Manager sleeps through another one's term, and a  *)
(* process runs a delivery once as long as it remembers what it ran.       *)
(***************************************************************************)
EXTENDS ControlPlane, FiniteSetTheorems, TLAPS

\* A live holder is the Manager that took the lease last.
LeaseOk == holder # Nobody => last = holder

\* A registry is attached from the activation to the step down, and requests are
\* admitted only while it is.
LoopOk(m) ==
    /\ attached[m] => loop[m].up \/ loop[m].pc = "start"
    /\ loop[m].ready \/ loop[m].pc = "start" => attached[m]
    /\ loop[m].pc \in {"attach", "start"} => ~loop[m].ready

\* The registrations of R are numbered up to n, and their commands are their own.
Numbered(R, n) ==
    \A a \in Agents : /\ R[a].lease <= n
                      /\ \A i \in DOMAIN R[a].cmds : R[a].cmds[i].lease = R[a].lease

RegistriesOk ==
    /\ Numbered(durable, leases) /\ \A m \in Managers : Numbered(mem[m], leases)
    /\ \A x \in acked : x[2] # 0 /\ x[2] <= leases

\* An Agent with commands to handle has no heartbeat under way.
InboxOk(a) ==
    /\ link[a].inbox # <<>> => hb[a].at = Nobody
    /\ \A i \in DOMAIN link[a].inbox : link[a].inbox[i].lease = link[a].lease

Base ==
    /\ TypeOK /\ LeaseOk /\ RegistriesOk
    /\ \A m \in Managers : LoopOk(m)
    /\ \A a \in Agents : InboxOk(a)

\* The acknowledged drains of the registrations in R are in R.
Held(R) == \A a \in Agents : <<a, R[a].lease>> \in acked => R[a].draining

\* The committed registry holds them, and so does the memory that may be committed
\* next: that of the Manager that took the lease last.
DrainsOk ==
    /\ Held(durable)
    /\ \A m \in Managers : attached[m] /\ last = m => Held(mem[m])

\* What a process ran is running or remembered.
RanOk(a) ==
    \A d \in Deliveries :
      /\ runs[a][d] <= 1
      /\ runs[a][d] # 0 => d \in link[a].running \cup link[a].done
      /\ d \in link[a].running => d \notin link[a].done

\* The process remembers every delivery there is.
RemembersAll == IsFiniteSet(Deliveries) /\ Cardinality(Deliveries) <= MaxDone

-----------------------------------------------------------------------------
(* What the registry operations make of a registry. *)

\* A registration takes a new lease id, which no drain was acknowledged for.
LEMMA WithAgentOk ==
    ASSUME TypeOK, RegistriesOk, NEW m \in Managers, NEW a \in Agents
    PROVE  /\ WithAgent(m, a) \in Registries
           /\ Numbered(WithAgent(m, a), leases + 1)
           /\ Held(mem[m]) => Held(WithAgent(m, a))
<1> DEFINE R == mem[m]  new == WithAgent(m, a)
<1>1. R \in Registries /\ leases \in Nat
  BY DEF TypeOK
<1>2. new = [R EXCEPT ![a] = [lease |-> leases + 1, cmds |-> <<>>, draining |-> FALSE]]
  BY DEF WithAgent
<1>3. new[a].lease = leases + 1 /\ new[a].cmds = <<>> /\ \A b \in Agents \ {a} : new[b] = R[b]
  BY <1>1, <1>2 DEF Registries
<1>4. new \in Registries
  BY <1>1, <1>2 DEF Registries
<1>5. Numbered(new, leases + 1)
  BY <1>1, <1>3 DEF RegistriesOk, Numbered, Registries
<1>6. <<a, leases + 1>> \notin acked
  BY <1>1 DEF RegistriesOk
<1> HIDE DEF R, new
<1>7. Held(R) => Held(new)
  BY <1>3, <1>6 DEF Held
<1> QED
  BY <1>4, <1>5, <1>7 DEF R, new

\* A delivery empties the queue of a registration and keeps its drain mark.
LEMMA DeliveredOk ==
    ASSUME TypeOK, RegistriesOk, NEW m \in Managers, NEW a \in Agents
    PROVE  LET new == [mem[m] EXCEPT ![a].cmds = <<>>]
           IN  new \in Registries /\ Numbered(new, leases) /\ (Held(mem[m]) => Held(new))
<1> DEFINE R == mem[m]  new == [R EXCEPT ![a].cmds = <<>>]
<1>1. R \in Registries /\ leases \in Nat
  BY DEF TypeOK
<1>2. /\ new[a].lease = R[a].lease /\ new[a].cmds = <<>> /\ new[a].draining = R[a].draining
      /\ \A b \in Agents \ {a} : new[b] = R[b]
  BY <1>1 DEF Registries
<1>3. new \in Registries
  <2>1. R[a] \in [lease : Nat, cmds : Seq(Queued), draining : BOOLEAN] /\ <<>> \in Seq(Queued)
    BY <1>1 DEF Registries
  <2>2. [R[a] EXCEPT !.cmds = <<>>] \in [lease : Nat, cmds : Seq(Queued), draining : BOOLEAN]
    BY <2>1, Zenon
  <2> QED
    BY <1>1, <2>2 DEF Registries
<1>4. Numbered(new, leases)
  BY <1>1, <1>2 DEF RegistriesOk, Numbered, Registries
<1> HIDE DEF R, new
<1>5. Held(R) => Held(new)
  BY <1>2 DEF Held
<1> QED
  BY <1>3, <1>4, <1>5 DEF R, new

\* A queued command carries the lease of its registration; a drain marks it.
LEMMA WithCommandOk ==
    ASSUME TypeOK, RegistriesOk, NEW m \in Managers, NEW a \in Agents, NEW c \in Commands
    PROVE  /\ WithCommand(m, a, c) \in Registries
           /\ Numbered(WithCommand(m, a, c), leases)
           /\ Held(mem[m]) => Held(WithCommand(m, a, c))
           /\ WithCommand(m, a, c)[a].lease = mem[m][a].lease
           /\ c = Drain => WithCommand(m, a, c)[a].draining
           /\ \A b \in Agents \ {a} : WithCommand(m, a, c)[b] = mem[m][b]
<1> DEFINE R == mem[m]  new == WithCommand(m, a, c)
           q == [cmd |-> c, lease |-> R[a].lease]
<1>1. R \in Registries /\ leases \in Nat
  BY DEF TypeOK
<1>2. R[a].cmds \in Seq(Queued) /\ q \in Queued /\ R[a].lease \in Nat /\ R[a].draining \in BOOLEAN
  BY <1>1, Zenon DEF Registries, Queued
<1>3. new = [R EXCEPT ![a].cmds = Append(@, q), ![a].draining = @ \/ c = Drain]
  BY DEF WithCommand
<1>4. /\ new[a].lease = R[a].lease /\ new[a].cmds = Append(R[a].cmds, q)
      /\ new[a].draining = (R[a].draining \/ c = Drain)
      /\ \A b \in Agents \ {a} : new[b] = R[b]
  BY <1>1, <1>3 DEF Registries
<1> HIDE DEF q
<1>5. Append(R[a].cmds, q) \in Seq(Queued)
  BY <1>2
<1>6. new \in Registries
  <2>1. R[a] \in [lease : Nat, cmds : Seq(Queued), draining : BOOLEAN]
    BY <1>1 DEF Registries
  <2>2. [R[a] EXCEPT !.cmds = Append(@, q), !.draining = @ \/ c = Drain]
          \in [lease : Nat, cmds : Seq(Queued), draining : BOOLEAN]
    BY <1>5, <2>1, Zenon
  <2> QED
    BY <1>1, <1>3, <2>2, Zenon DEF Registries
<1>7. Numbered(new, leases)
  <2>1. \A i \in DOMAIN new[a].cmds : new[a].cmds[i].lease = new[a].lease
    <3>1. q.lease = R[a].lease
      BY DEF q
    <3>2. \A i \in DOMAIN R[a].cmds : R[a].cmds[i].lease = R[a].lease
      BY DEF RegistriesOk, Numbered
    <3> QED
      BY <1>2, <1>4, <3>1, <3>2
  <2>2. new[a].lease <= leases
    BY <1>4 DEF RegistriesOk, Numbered
  <2>3. \A b \in Agents \ {a} : /\ new[b].lease <= leases
                               /\ \A i \in DOMAIN new[b].cmds : new[b].cmds[i].lease = new[b].lease
    BY <1>4 DEF RegistriesOk, Numbered
  <2> HIDE DEF new, R
  <2> QED
    BY <2>1, <2>2, <2>3 DEF Numbered
<1> HIDE DEF R, new
<1>8. Held(R) => Held(new)
  BY <1>4, Zenon DEF Held
<1> QED
  BY <1>4, <1>6, <1>7, <1>8, Zenon DEF R, new

\* A removal leaves no registration.
LEMMA RemovedOk ==
    ASSUME TypeOK, RegistriesOk, NEW m \in Managers, NEW a \in Agents
    PROVE  LET new == [mem[m] EXCEPT ![a] = Absent]
           IN  new \in Registries /\ Numbered(new, leases) /\ (Held(mem[m]) => Held(new))
<1> DEFINE R == mem[m]  new == [R EXCEPT ![a] = Absent]
<1>1. R \in Registries /\ leases \in Nat
  BY DEF TypeOK
<1>2. new[a].lease = 0 /\ new[a].cmds = <<>> /\ \A b \in Agents \ {a} : new[b] = R[b]
  BY <1>1 DEF Registries, Absent
<1>3. new \in Registries
  BY <1>1 DEF Registries, Absent
<1>4. Numbered(new, leases)
  BY <1>1, <1>2 DEF RegistriesOk, Numbered, Registries
<1>5. <<a, 0>> \notin acked
  BY DEF RegistriesOk
<1> HIDE DEF R, new
<1>6. Held(R) => Held(new)
  BY <1>2, <1>5 DEF Held
<1> QED
  BY <1>3, <1>4, <1>6 DEF R, new

-----------------------------------------------------------------------------
(* How a step changes the registries. *)

Commit(m, new) == (Persist(m, new) \/ PersistFails(m, new)) /\ UNCHANGED <<lvars, attached, loop>>

Registers(m, a) ==
    Commit(m, WithAgent(m, a)) /\ leases' = leases + 1 /\ acked' = acked

Delivers(m, a) ==
    Commit(m, [mem[m] EXCEPT ![a].cmds = <<>>]) /\ UNCHANGED <<leases, acked>>

Queues(m, a, c) ==
    Commit(m, WithCommand(m, a, c)) /\ UNCHANGED <<leases, acked>>

Acknowledges(m, a) ==
    /\ Admits(m) /\ mem[m][a].lease # 0
    /\ Persist(m, WithCommand(m, a, Drain)) /\ UNCHANGED <<lvars, attached, loop, leases>>
    /\ acked' = acked \cup {<<a, mem[m][a].lease>>}

Removes(m, a) ==
    Commit(m, [mem[m] EXCEPT ![a] = Absent]) /\ UNCHANGED <<leases, acked>>

Restores(m) ==
    /\ mem' = [mem EXCEPT ![m] = durable] /\ UNCHANGED <<durable, leases, acked, term, last>>
    /\ Attach(m) \/ ActivationFails(m)

\* The registries change by these operations only, each with its commit or its failure.
LEMMA RegistryStep ==
    ASSUME TypeOK, [Next]_vars
    PROVE  \/ UNCHANGED <<mem, durable, leases, acked>>
           \/ \E m \in Managers :
                \/ Restores(m)
                \/ \E a \in Agents : \/ Registers(m, a) \/ Delivers(m, a) \/ Removes(m, a)
                                     \/ Acknowledges(m, a)
                                     \/ \E c \in Commands : Queues(m, a, c)
<1>1. \/ UNCHANGED <<mem, durable, leases, acked>>
      \/ \E m \in Managers :
           \/ Attach(m) \/ ActivationFails(m) \/ DispatchQueue(m)
           \/ \E a \in Agents : QueueDrain(m, a) \/ Remove(m, a) \/ Register(a, m)
      \/ \E a \in Agents : HeartbeatDelivers(a)
  <2>1. ASSUME NEW m \in Managers, LoseTerm(m) \/ Poll(m) \/ StepDown(m) \/ StartServices(m)
        PROVE  UNCHANGED <<mem, durable, leases, acked>>
    BY <2>1 DEF LoseTerm, Poll, PollTakes, PollRenews, PollStandsBy, StepDown, StartServices, mvars
  <2>2. ASSUME NEW m \in Managers, NEW a \in Agents,
               HeartbeatCheck(a, m) \/ \E d \in Deliveries : DispatchClaim(m, a, d)
        PROVE  UNCHANGED <<mem, durable, leases, acked>>
    BY <2>2 DEF HeartbeatCheck, DispatchClaim, mvars
  <2>3. ASSUME NEW a \in Agents, \/ HeartbeatRefused(a) \/ HandleCommands(a) \/ RestartAgent(a)
                                \/ \E d \in Deliveries : FinishTask(a, d)
        PROVE  UNCHANGED <<mem, durable, leases, acked>>
    BY <2>3, Zenon DEF HeartbeatRefused, HandleCommands, RestartAgent, FinishTask, mvars
  <2>4. ASSUME Lapse \/ UNCHANGED vars PROVE UNCHANGED <<mem, durable, leases, acked>>
    BY <2>4 DEF Lapse, vars, mvars
  <2> QED
    BY <2>1, <2>2, <2>3, <2>4 DEF Next
<1>2. ASSUME NEW m \in Managers, Attach(m) PROVE Restores(m)
  BY <1>2 DEF Attach, Restores, lvars
<1>3. ASSUME NEW m \in Managers, ActivationFails(m)
      PROVE  UNCHANGED <<mem, durable, leases, acked>> \/ Restores(m)
  BY <1>3 DEF ActivationFails, Restores
<1>4. ASSUME NEW m \in Managers, NEW a \in Agents, Register(a, m) PROVE Registers(m, a)
  BY <1>4 DEF Register, Registers, Commit, PersistFails
<1>5. ASSUME NEW m \in Managers, NEW a \in Agents, Remove(m, a) PROVE Removes(m, a)
  BY <1>5 DEF Remove, Removes, Commit, PersistFails
<1>6. ASSUME NEW m \in Managers, NEW a \in Agents, QueueDrain(m, a)
      PROVE  Acknowledges(m, a) \/ \E c \in Commands : Queues(m, a, c)
  <2>1. CASE Persist(m, WithCommand(m, a, Drain)) /\ acked' = acked \cup {<<a, mem[m][a].lease>>}
    BY <1>6, <2>1 DEF QueueDrain, Acknowledges
  <2>2. CASE PersistFails(m, WithCommand(m, a, Drain))
    <3>1. Queues(m, a, Drain)
      BY <1>6, <2>2 DEF QueueDrain, Queues, Commit, PersistFails
    <3> QED
      BY <3>1 DEF Commands
  <2> QED
    BY <1>6, <2>1, <2>2 DEF QueueDrain
<1>7. ASSUME NEW m \in Managers, DispatchQueue(m)
      PROVE  \/ UNCHANGED <<mem, durable, leases, acked>>
             \/ \E a \in Agents, c \in Commands : Queues(m, a, c)
  <2>1. disp[m].agent \in Agents /\ disp[m].d \in Commands
    BY <1>7 DEF DispatchQueue, TypeOK, Commands
  <2>2. \/ UNCHANGED <<mem, durable, leases, acked>>
        \/ Queues(m, disp[m].agent, disp[m].d)
    BY <1>7 DEF DispatchQueue, Queues, Commit, PersistFails
  <2> QED
    BY <2>1, <2>2
<1>8. ASSUME NEW a \in Agents, HeartbeatDelivers(a)
      PROVE  \E m \in Managers : Delivers(m, a)
  <2>1. hb[a].at \in Managers
    BY <1>8 DEF HeartbeatDelivers, TypeOK
  <2>2. Delivers(hb[a].at, a)
    BY <1>8 DEF HeartbeatDelivers, Delivers, Commit, PersistFails
  <2> QED
    BY <2>1, <2>2
<1> QED
  BY <1>1, <1>2, <1>3, <1>4, <1>5, <1>6, <1>7, <1>8

\* A committed or restored registry has the type and the numbering of its origin.
LEMMA CommitOk ==
    ASSUME TypeOK, NEW m \in Managers, NEW new \in Registries, Commit(m, new),
           NEW n \in Nat, Numbered(new, n), Numbered(durable, n),
           \A k \in Managers : Numbered(mem[k], n)
    PROVE  /\ mem' \in [Managers -> Registries] /\ durable' \in Registries
           /\ Numbered(durable', n) /\ \A k \in Managers : Numbered(mem'[k], n)
<1>1. mem \in [Managers -> Registries] /\ durable \in Registries
  BY DEF TypeOK
<1>2. mem' = mem \/ mem' = [mem EXCEPT ![m] = new]
  BY DEF Commit, Persist, PersistFails
<1>3. durable' = durable \/ durable' = new
  BY DEF Commit, Persist, PersistFails
<1> QED
  BY <1>1, <1>2, <1>3

\* Registrations stay numbered, and commands stay with theirs.
LEMMA RegistriesStep ==
    ASSUME TypeOK, RegistriesOk, [Next]_vars
    PROVE  /\ mem' \in [Managers -> Registries] /\ durable' \in Registries /\ leases' \in Nat
           /\ acked' \subseteq Agents \X Nat
           /\ RegistriesOk'
<1> DEFINE Goal == /\ mem' \in [Managers -> Registries] /\ durable' \in Registries
                   /\ leases' \in Nat /\ acked' \subseteq Agents \X Nat
                   /\ Numbered(durable', leases')
                   /\ \A m \in Managers : Numbered(mem'[m], leases')
                   /\ \A x \in acked' : x[2] # 0 /\ x[2] <= leases'
<1>0. /\ mem \in [Managers -> Registries] /\ durable \in Registries
      /\ leases \in Nat /\ leases + 1 \in Nat /\ acked \subseteq Agents \X Nat
      /\ Numbered(durable, leases) /\ \A m \in Managers : Numbered(mem[m], leases)
      /\ \A x \in acked : x[2] # 0 /\ x[2] <= leases
  BY DEF TypeOK, RegistriesOk
<1>1. ASSUME UNCHANGED <<mem, durable, leases, acked>> PROVE Goal
  BY <1>0, <1>1
<1>2. ASSUME NEW m \in Managers, Restores(m) PROVE Goal
  BY <1>0, <1>2 DEF Restores
<1>3. ASSUME NEW m \in Managers, NEW a \in Agents, Registers(m, a) PROVE Goal
  <2>1. /\ Numbered(durable, leases + 1) /\ \A k \in Managers : Numbered(mem[k], leases + 1)
    <3>1. ASSUME NEW R \in Registries, Numbered(R, leases) PROVE Numbered(R, leases + 1)
      <4>1. \A b \in Agents : R[b].lease \in Nat /\ R[b].lease <= leases
        BY <3>1 DEF Registries, Numbered
      <4> QED
        BY <1>0, <3>1, <4>1 DEF Numbered
    <3> QED
      BY <1>0, <3>1
  <2>2. \A x \in acked : x[2] # 0 /\ x[2] <= leases + 1
    BY <1>0
  <2> QED
    BY <1>0, <1>3, <2>1, <2>2, WithAgentOk, CommitOk DEF Registers
<1>4. ASSUME NEW m \in Managers, NEW a \in Agents, Delivers(m, a) PROVE Goal
  BY <1>0, <1>4, DeliveredOk, CommitOk DEF Delivers
<1>5. ASSUME NEW m \in Managers, NEW a \in Agents, Removes(m, a) PROVE Goal
  BY <1>0, <1>5, RemovedOk, CommitOk DEF Removes
<1>6. ASSUME NEW m \in Managers, NEW a \in Agents, NEW c \in Commands, Queues(m, a, c)
      PROVE  Goal
  BY <1>0, <1>6, WithCommandOk, CommitOk DEF Queues
<1>7. ASSUME NEW m \in Managers, NEW a \in Agents, Acknowledges(m, a) PROVE Goal
  <2>1. Drain \in Commands /\ mem[m][a].lease \in Nat /\ mem[m][a].lease <= leases
    BY <1>0 DEF Commands, Registries, Numbered
  <2>2. Commit(m, WithCommand(m, a, Drain)) /\ leases' = leases
    BY <1>7 DEF Acknowledges, Commit
  <2>3. /\ acked' = acked \cup {<<a, mem[m][a].lease>>} /\ mem[m][a].lease # 0
    BY <1>7 DEF Acknowledges
  <2>4. acked' \subseteq Agents \X Nat /\ \A x \in acked' : x[2] # 0 /\ x[2] <= leases'
    BY <1>0, <2>1, <2>2, <2>3
  <2> QED
    BY <1>0, <2>1, <2>2, <2>4, WithCommandOk, CommitOk
<1>8. Goal
  BY <1>1, <1>2, <1>3, <1>4, <1>5, <1>6, <1>7, RegistryStep
<1> QED
  BY <1>8 DEF RegistriesOk, Numbered

-----------------------------------------------------------------------------
(* The lease and the leadership loops. *)

LoopStates == [pc : {"poll", "attach", "start", "down"}, up : BOOLEAN, ready : BOOLEAN]

\* A registry is attached from activation to step down, and only then requests are admitted.
LEMMA LeaderStep ==
    ASSUME TypeOK, LeaseOk, \A m \in Managers : LoopOk(m), [Next]_vars
    PROVE  /\ term' \in Nat /\ holder' \in Managers \cup {Nobody}
           /\ leads' \in BOOLEAN /\ last' \in Managers \cup {Nobody}
           /\ attached' \in [Managers -> BOOLEAN] /\ loop' \in [Managers -> LoopStates]
           /\ sched' \in [Managers -> BOOLEAN]
           /\ LeaseOk' /\ \A m \in Managers : LoopOk(m)'
<1> DEFINE Goal == /\ term' \in Nat /\ holder' \in Managers \cup {Nobody}
                   /\ leads' \in BOOLEAN /\ last' \in Managers \cup {Nobody}
                   /\ attached' \in [Managers -> BOOLEAN] /\ loop' \in [Managers -> LoopStates]
                   /\ sched' \in [Managers -> BOOLEAN]
                   /\ LeaseOk' /\ \A m \in Managers : LoopOk(m)'
<1>0. /\ term \in Nat /\ holder \in Managers \cup {Nobody}
      /\ leads \in BOOLEAN /\ last \in Managers \cup {Nobody}
      /\ attached \in [Managers -> BOOLEAN] /\ loop \in [Managers -> LoopStates]
      /\ sched \in [Managers -> BOOLEAN] /\ Nobody \notin Managers
  BY ControlPlaneAssumption DEF TypeOK, LoopStates
<1>1. ASSUME UNCHANGED <<lvars, attached, loop, sched>> PROVE Goal
  BY <1>0, <1>1 DEF lvars, LeaseOk, LoopOk
<1>2. ASSUME Lapse PROVE Goal
  BY <1>0, <1>2, Zenon DEF Lapse, mvars, LeaseOk, LoopOk
<1>3. ASSUME NEW m \in Managers, LoseTerm(m) PROVE Goal
  BY <1>0, <1>3, Zenon DEF LoseTerm, mvars, LeaseOk, LoopOk
<1>4. ASSUME NEW m \in Managers, PollTakes(m) \/ PollRenews(m) PROVE Goal
  <2>1. Led(m) \in LoopStates
    BY <1>0, Zenon DEF Led, LoopStates
  <2>2. loop' = [loop EXCEPT ![m] = Led(m)] /\ attached' = attached /\ sched' = sched
    BY <1>4 DEF PollTakes, PollRenews, mvars
  <2>3. /\ term' \in Nat /\ holder' = m /\ last' \in Managers \cup {Nobody} /\ leads' = TRUE
        /\ last' = m
    BY <1>0, <1>4 DEF PollTakes, PollRenews, LeaseOk
  <2>4. ASSUME NEW n \in Managers PROVE LoopOk(n)'
    <3>1. CASE n = m
      <4>1. loop'[m] = Led(m) /\ loop[m].pc = "poll"
        BY <1>0, <1>4, <2>2 DEF PollTakes, PollRenews
      <4>2. Led(m) = loop[m] \/ (~loop[m].up /\ Led(m).pc = "attach" /\ ~Led(m).ready)
        BY <1>0 DEF Led, LoopStates
      <4> QED
        BY <2>2, <3>1, <4>1, <4>2 DEF LoopOk
    <3>2. CASE n # m
      BY <1>0, <2>2, <3>2 DEF LoopOk
    <3> QED
      BY <3>1, <3>2
  <2> QED
    BY <1>0, <2>1, <2>2, <2>3, <2>4 DEF LeaseOk
<1>5. ASSUME NEW m \in Managers, PollStandsBy(m) PROVE Goal
  <2>1. /\ leads' \in BOOLEAN /\ UNCHANGED <<term, holder, last, attached, sched>>
    BY <1>0, <1>5 DEF PollStandsBy, mvars
  <2>2. loop' \in [Managers -> LoopStates]
    <3>1. /\ loop[m] \in LoopStates
          /\ \E pc \in {"down", "poll"} :
               loop' = [loop EXCEPT ![m] = [loop[m] EXCEPT !.ready = FALSE, !.pc = pc]]
      BY <1>0, <1>5, Zenon DEF PollStandsBy
    <3>2. \A pc \in {"down", "poll"} : [loop[m] EXCEPT !.ready = FALSE, !.pc = pc] \in LoopStates
      BY <3>1, Zenon DEF LoopStates
    <3> QED
      BY <1>0, <3>1, <3>2, Zenon
  <2>3. \A n \in Managers : LoopOk(n)'
    BY <1>0, <1>5, <2>1 DEF PollStandsBy, LoopStates, LoopOk
  <2> QED
    BY <1>0, <2>1, <2>2, <2>3 DEF LeaseOk
<1>6. ASSUME NEW m \in Managers, StepDown(m) PROVE Goal
  BY <1>0, <1>6 DEF StepDown, lvars, LoopStates, LeaseOk, LoopOk
<1>7. ASSUME NEW m \in Managers, Attach(m) PROVE Goal
  BY <1>0, <1>7 DEF Attach, lvars, LoopStates, LeaseOk, LoopOk
<1>8. ASSUME NEW m \in Managers, StartServices(m) PROVE Goal
  BY <1>0, <1>8 DEF StartServices, lvars, mvars, LoopStates, LeaseOk, LoopOk
<1>9. ASSUME NEW m \in Managers, ActivationFails(m) PROVE Goal
  <2>1. /\ attached' = [attached EXCEPT ![m] = FALSE] /\ leads' \in BOOLEAN
        /\ holder' \in {holder, Nobody} /\ UNCHANGED <<term, last>>
    BY <1>0, <1>9 DEF ActivationFails
  <2>2. /\ loop' = [loop EXCEPT ![m].pc = "poll"]
             \/ loop' = [loop EXCEPT ![m] = [pc |-> "poll", up |-> TRUE, ready |-> FALSE]]
        /\ sched' \in {sched, [sched EXCEPT ![m] = TRUE]} /\ loop[m].pc \in {"attach", "start"}
    BY <1>0, <1>9 DEF ActivationFails
  <2>3. /\ loop' \in [Managers -> LoopStates] /\ loop'[m].pc = "poll" /\ ~loop'[m].ready
        /\ \A n \in Managers \ {m} : loop'[n] = loop[n]
    <3>1. ~loop[m].ready
      BY <2>2 DEF LoopOk
    <3>2. CASE loop' = [loop EXCEPT ![m].pc = "poll"]
      BY <1>0, <3>1, <3>2 DEF LoopStates
    <3>3. CASE loop' = [loop EXCEPT ![m] = [pc |-> "poll", up |-> TRUE, ready |-> FALSE]]
      BY <1>0, <3>3 DEF LoopStates
    <3> QED
      BY <2>2, <3>2, <3>3
  <2> QED
    BY <1>0, <2>1, <2>2, <2>3, Zenon DEF LeaseOk, LoopOk
<1>10. \/ UNCHANGED <<lvars, attached, loop, sched>> \/ Lapse
       \/ \E m \in Managers : \/ LoseTerm(m) \/ Poll(m) \/ StepDown(m) \/ Attach(m)
                             \/ StartServices(m) \/ ActivationFails(m)
  <2>1. ASSUME NEW m \in Managers, NEW a \in Agents,
               \/ QueueDrain(m, a) \/ Remove(m, a) \/ Register(a, m) \/ HeartbeatCheck(a, m)
               \/ \E d \in Deliveries : DispatchClaim(m, a, d)
        PROVE  UNCHANGED <<lvars, attached, loop, sched>>
    BY <2>1 DEF QueueDrain, Remove, Register, HeartbeatCheck, DispatchClaim, mvars
  <2>2. ASSUME NEW a \in Agents, \/ HeartbeatRefused(a) \/ HeartbeatDelivers(a)
                                \/ HandleCommands(a) \/ RestartAgent(a)
                                \/ \E d \in Deliveries : FinishTask(a, d)
        PROVE  UNCHANGED <<lvars, attached, loop, sched>>
    BY <2>2, Zenon DEF HeartbeatRefused, HeartbeatDelivers, HandleCommands, RestartAgent, FinishTask, mvars
  <2>3. ASSUME NEW m \in Managers, DispatchQueue(m)
        PROVE  UNCHANGED <<lvars, attached, loop, sched>>
    BY <2>3 DEF DispatchQueue
  <2> QED
    BY <2>1, <2>2, <2>3 DEF Next, vars, mvars
<1> QED
  BY <1>1, <1>2, <1>3, <1>4, <1>5, <1>6, <1>7, <1>8, <1>9, <1>10 DEF Poll

-----------------------------------------------------------------------------
(* The Agents. *)

LinkStates ==
    [lease : Nat, inbox : Seq(Queued), running : SUBSET Deliveries,
     stuck : SUBSET Deliveries, done : SUBSET Deliveries]

\* The tasks a reply creates are deliveries that neither run nor ran.
LEMMA CreatedOk ==
    ASSUME NEW l \in LinkStates
    PROVE  /\ Begun(l) \subseteq Deliveries /\ Stuck(l) \subseteq Deliveries
           /\ \A d \in Begun(l) : d \notin l.running /\ d \notin l.done
<1>1. ASSUME NEW i \in Created(l)
      PROVE  l.inbox[i].cmd \in Deliveries /\ Starts(l, l.inbox[i].cmd)
  <2>1. i \in DOMAIN l.inbox /\ l.inbox[i].cmd # Drain /\ Starts(l, l.inbox[i].cmd)
    BY <1>1 DEF Created
  <2>2. l.inbox[i] \in Queued
    BY <2>1 DEF LinkStates
  <2> QED
    BY <2>1, <2>2 DEF Queued, Commands
<1>2. \A d : Starts(l, d) => d \notin l.running /\ d \notin l.done
  BY DEF Starts, Tasks
<1> QED
  BY <1>1, <1>2 DEF Begun, Stuck

AgentGoal ==
    /\ disp' \in [Managers -> {NoDispatch} \cup [agent : Agents, d : Deliveries]]
    /\ claimed' \subseteq Deliveries
    /\ link' \in [Agents -> LinkStates]
    /\ hb' \in [Agents -> [at : Managers \cup {Nobody}, lease : Nat]]
    /\ runs' \in [Agents -> [Deliveries -> Nat]]
    /\ \A a \in Agents : InboxOk(a)'

\* An Agent that has commands to handle holds the lease they were queued for.
LEMMA AgentStep ==
    ASSUME TypeOK, RegistriesOk, \A a \in Agents : InboxOk(a), [Next]_vars
    PROVE  AgentGoal
<1>0. /\ disp \in [Managers -> {NoDispatch} \cup [agent : Agents, d : Deliveries]]
      /\ claimed \subseteq Deliveries /\ link \in [Agents -> LinkStates]
      /\ hb \in [Agents -> [at : Managers \cup {Nobody}, lease : Nat]]
      /\ runs \in [Agents -> [Deliveries -> Nat]]
      /\ mem \in [Managers -> Registries] /\ leases \in Nat /\ Nobody \notin Managers
  BY ControlPlaneAssumption DEF TypeOK, LinkStates
<1> USE DEF AgentGoal
<1>1. ASSUME UNCHANGED <<disp, claimed, link, hb, runs>> PROVE AgentGoal
  BY <1>0, <1>1 DEF InboxOk
<1>2. ASSUME NEW m \in Managers, NEW a \in Agents, Register(a, m) PROVE AgentGoal
  <2>1. /\ link' \in {link, [link EXCEPT ![a].lease = leases + 1]} /\ link[a].inbox = <<>>
        /\ UNCHANGED <<disp, claimed, hb, runs>>
    BY <1>2 DEF Register
  <2>2. link' \in [Agents -> LinkStates]
    <3>0. link[a] \in LinkStates /\ leases + 1 \in Nat
      BY <1>0
    <3>1. [link[a] EXCEPT !.lease = leases + 1] \in LinkStates
      BY <3>0 DEF LinkStates
    <3> QED
      BY <1>0, <2>1, <3>1, Zenon
  <2>3. \A b \in Agents : link'[b].inbox = link[b].inbox /\ (b # a => link'[b] = link[b])
    BY <1>0, <2>1 DEF LinkStates
  <2>4. \A b \in Agents : InboxOk(b)'
    BY <2>1, <2>3 DEF InboxOk
  <2> QED
    BY <1>0, <2>1, <2>2, <2>4
<1>3. ASSUME NEW m \in Managers, NEW a \in Agents, HeartbeatCheck(a, m) PROVE AgentGoal
  <2>1. /\ link[a].inbox = <<>> /\ UNCHANGED <<disp, claimed, link, runs>>
        /\ hb' = [hb EXCEPT ![a] = [at |-> m, lease |-> link[a].lease]]
    BY <1>3 DEF HeartbeatCheck
  <2>2. hb' \in [Agents -> [at : Managers \cup {Nobody}, lease : Nat]]
    BY <1>0, <2>1 DEF LinkStates
  <2>3. \A b \in Agents : InboxOk(b)'
    BY <1>0, <2>1 DEF InboxOk
  <2> QED
    BY <1>0, <2>1, <2>2, <2>3
<1>4. ASSUME NEW m \in Managers, NEW a \in Agents, NEW d \in Deliveries, DispatchClaim(m, a, d)
      PROVE  AgentGoal
  BY <1>0, <1>4 DEF DispatchClaim, avars, InboxOk
<1>5. ASSUME NEW m \in Managers, DispatchQueue(m) PROVE AgentGoal
  BY <1>0, <1>5 DEF DispatchQueue, avars, InboxOk
<1>6. ASSUME NEW a \in Agents, HeartbeatRefused(a) PROVE AgentGoal
  <2>1. /\ link' \in {link, [link EXCEPT ![a].lease = 0]} /\ hb[a].at # Nobody
        /\ hb' = [hb EXCEPT ![a] = NoHeartbeat] /\ UNCHANGED <<disp, claimed, runs>>
    BY <1>6 DEF HeartbeatRefused
  <2>2. /\ link' \in [Agents -> LinkStates]
        /\ hb' \in [Agents -> [at : Managers \cup {Nobody}, lease : Nat]]
    <3>0. link[a] \in LinkStates
      BY <1>0
    <3>1. [link[a] EXCEPT !.lease = 0] \in LinkStates
      BY <3>0 DEF LinkStates
    <3>2. NoHeartbeat \in [at : Managers \cup {Nobody}, lease : Nat]
      BY DEF NoHeartbeat
    <3>3. link' \in [Agents -> LinkStates]
      BY <1>0, <2>1, <3>1, Zenon
    <3> QED
      BY <1>0, <2>1, <3>2, <3>3, Zenon
  <2>3. \A b \in Agents : link'[b].inbox = link[b].inbox /\ (b # a => link'[b] = link[b])
    BY <1>0, <2>1 DEF LinkStates
  <2>4. link[a].inbox = <<>> /\ hb'[a].at = Nobody /\ \A b \in Agents \ {a} : hb'[b] = hb[b]
    BY <1>0, <2>1 DEF InboxOk, NoHeartbeat
  <2>5. \A b \in Agents : InboxOk(b)'
    BY <2>1, <2>3, <2>4 DEF InboxOk
  <2> QED
    BY <1>0, <2>1, <2>2, <2>5
<1>7. ASSUME NEW a \in Agents, HeartbeatDelivers(a) PROVE AgentGoal
  <2> DEFINE cmds == mem[hb[a].at][a].cmds
  <2>1. /\ link' = link \/ (Awaits(a) /\ link' = [link EXCEPT ![a].inbox = cmds])
        /\ hb[a].at \in Managers /\ mem[hb[a].at][a].lease = hb[a].lease
        /\ hb' = [hb EXCEPT ![a] = NoHeartbeat] /\ UNCHANGED <<disp, claimed, runs>>
    BY <1>0, <1>7 DEF HeartbeatDelivers
  <2>2. /\ cmds \in Seq(Queued)
        /\ \A i \in DOMAIN cmds : cmds[i].lease = hb[a].lease
    BY <1>0, <2>1 DEF Registries, RegistriesOk, Numbered
  <2> HIDE DEF cmds
  <2>3. /\ link' \in [Agents -> LinkStates]
        /\ hb' \in [Agents -> [at : Managers \cup {Nobody}, lease : Nat]]
    <3>0. link[a] \in LinkStates
      BY <1>0
    <3>1. [link[a] EXCEPT !.inbox = cmds] \in LinkStates
      BY <3>0, <2>2 DEF LinkStates
    <3>2. NoHeartbeat \in [at : Managers \cup {Nobody}, lease : Nat]
      BY DEF NoHeartbeat
    <3>3. link' \in [Agents -> LinkStates]
      BY <1>0, <2>1, <3>1, Zenon
    <3> QED
      BY <1>0, <2>1, <3>2, <3>3, Zenon
  <2>4. hb'[a].at = Nobody /\ \A b \in Agents \ {a} : hb'[b] = hb[b] /\ link'[b] = link[b]
    BY <1>0, <2>1 DEF NoHeartbeat
  <2>5. \A i \in DOMAIN link'[a].inbox : link'[a].inbox[i].lease = link'[a].lease
    <3>1. CASE link' = link
      BY <3>1 DEF InboxOk
    <3>2. CASE Awaits(a) /\ link' = [link EXCEPT ![a].inbox = cmds]
      <4>1. link'[a].inbox = cmds /\ link'[a].lease = hb[a].lease
        BY <1>0, <3>2 DEF Awaits, LinkStates
      <4> QED
        BY <2>2, <4>1
    <3> QED
      BY <2>1, <3>1, <3>2
  <2>6. \A b \in Agents : InboxOk(b)'
    BY <2>4, <2>5 DEF InboxOk
  <2> QED
    BY <1>0, <2>1, <2>3, <2>6
<1>8. ASSUME NEW a \in Agents, HandleCommands(a) PROVE AgentGoal
  <2>1. /\ UNCHANGED <<disp, claimed, hb>>
        /\ link' = [link EXCEPT ![a].inbox = <<>>, ![a].running = @ \cup Begun(link[a]),
                                ![a].stuck = @ \cup Stuck(link[a])]
        /\ runs' = [runs EXCEPT ![a] = [d \in Deliveries |->
                      IF d \in Begun(link[a]) THEN runs[a][d] + 1 ELSE runs[a][d]]]
    BY <1>0, <1>8 DEF HandleCommands
  <2>2. link' \in [Agents -> LinkStates]
    <3>1. link[a] \in LinkStates /\ <<>> \in Seq(Queued)
      BY <1>0
    <3>2. [link[a] EXCEPT !.inbox = <<>>, !.running = @ \cup Begun(link[a]),
                          !.stuck = @ \cup Stuck(link[a])] \in LinkStates
      BY <3>1, CreatedOk, Zenon DEF LinkStates
    <3> QED
      BY <1>0, <2>1, <3>2
  <2>3. runs' \in [Agents -> [Deliveries -> Nat]]
    BY <1>0, <2>1
  <2>4. link'[a].inbox = <<>> /\ \A b \in Agents \ {a} : link'[b] = link[b]
    BY <1>0, <2>1 DEF LinkStates
  <2>5. \A b \in Agents : InboxOk(b)'
    <3>1. DOMAIN link'[a].inbox = {}
      BY <2>4
    <3>2. InboxOk(a)'
      BY <2>1, <2>4, <3>1, Zenon DEF InboxOk
    <3>3. ASSUME NEW b \in Agents \ {a} PROVE InboxOk(b)'
      <4>1. InboxOk(b) /\ link'[b] = link[b] /\ hb' = hb
        BY <2>1, <2>4, <3>3, Zenon
      <4> QED
        BY <4>1 DEF InboxOk
    <3> QED
      BY <3>2, <3>3
  <2> QED
    BY <1>0, <2>1, <2>2, <2>3, <2>5
<1>9. ASSUME NEW a \in Agents, NEW d \in Deliveries, FinishTask(a, d) PROVE AgentGoal
  <2>1. PICK done \in Remember(link[a].done, d) :
           link' = [link EXCEPT ![a].running = @ \ {d}, ![a].done = done]
    BY <1>9, Zenon DEF FinishTask
  <2>2. UNCHANGED <<disp, claimed, hb, runs>>
    BY <1>9 DEF FinishTask
  <2>3. link[a] \in LinkStates /\ done \subseteq Deliveries
    BY <1>0, <2>1 DEF Remember, LinkStates
  <2>4. link' \in [Agents -> LinkStates]
    BY <1>0, <2>1, <2>3, Zenon DEF LinkStates
  <2>5. /\ link'[a].inbox = link[a].inbox /\ link'[a].lease = link[a].lease
        /\ \A b \in Agents \ {a} : link'[b] = link[b]
    BY <1>0, <2>1, <2>3 DEF LinkStates
  <2>6. \A b \in Agents : InboxOk(b)'
    BY <2>2, <2>5 DEF InboxOk
  <2> QED
    BY <1>0, <2>2, <2>4, <2>6
<1>10. ASSUME NEW a \in Agents, RestartAgent(a) PROVE AgentGoal
  <2>1. NewLink \in LinkStates /\ NewLink.inbox = <<>>
    BY DEF NewLink, LinkStates
  <2> QED
    BY <1>0, <1>10, <2>1 DEF RestartAgent, InboxOk
<1>11. \/ UNCHANGED <<disp, claimed, link, hb, runs>>
       \/ \E m \in Managers :
            \/ DispatchQueue(m)
            \/ \E a \in Agents : \/ Register(a, m) \/ HeartbeatCheck(a, m)
                                 \/ \E d \in Deliveries : DispatchClaim(m, a, d)
       \/ \E a \in Agents : \/ HeartbeatRefused(a) \/ HeartbeatDelivers(a)
                            \/ HandleCommands(a) \/ RestartAgent(a)
                            \/ \E d \in Deliveries : FinishTask(a, d)
  <2>1. ASSUME NEW m \in Managers, \/ LoseTerm(m) \/ Poll(m) \/ StepDown(m) \/ Attach(m)
                                  \/ StartServices(m) \/ ActivationFails(m)
        PROVE  UNCHANGED <<disp, claimed, link, hb, runs>>
    BY <2>1, Zenon DEF LoseTerm, Poll, PollTakes, PollRenews, PollStandsBy, StepDown, Attach,
                StartServices, ActivationFails, avars
  <2>2. ASSUME NEW m \in Managers, NEW a \in Agents, QueueDrain(m, a) \/ Remove(m, a)
        PROVE  UNCHANGED <<disp, claimed, link, hb, runs>>
    BY <2>2 DEF QueueDrain, Remove, avars
  <2>3. ASSUME Lapse \/ UNCHANGED vars PROVE UNCHANGED <<disp, claimed, link, hb, runs>>
    BY <2>3 DEF Lapse, vars, avars
  <2> QED
    BY <2>1, <2>2, <2>3 DEF Next
<1> HIDE DEF AgentGoal
<1> QED
  BY <1>1, <1>2, <1>3, <1>4, <1>5, <1>6, <1>7, <1>8, <1>9, <1>10, <1>11

-----------------------------------------------------------------------------
(* The results. *)

\* No Manager leads and no Agent is registered at first.
LEMMA InitBase == Init => Base
<1> SUFFICES ASSUME Init PROVE Base
  OBVIOUS
<1>1. EmptyRegistry \in Registries /\ Numbered(EmptyRegistry, 0)
  BY DEF EmptyRegistry, Absent, Registries, Numbered
<1>2. NewLink \in LinkStates /\ DOMAIN NewLink.inbox = {}
  BY DEF NewLink, LinkStates
<1>3. TypeOK
  BY <1>1, <1>2, Zenon DEF Init, TypeOK, LinkStates, NoHeartbeat
<1>4. RegistriesOk
  BY <1>1 DEF Init, RegistriesOk
<1>5. LeaseOk /\ \A m \in Managers : LoopOk(m)
  BY DEF Init, LeaseOk, LoopOk
<1>6. \A a \in Agents : InboxOk(a)
  BY <1>2 DEF Init, InboxOk, NewLink
<1> QED
  BY <1>3, <1>4, <1>5, <1>6 DEF Base

\* The invariant is inductive.
LEMMA BaseStep == Base /\ [Next]_vars => Base'
<1> SUFFICES ASSUME Base, [Next]_vars PROVE Base'
  OBVIOUS
<1>1. TypeOK'
  BY RegistriesStep, LeaderStep, AgentStep, Zenon DEF Base, TypeOK, AgentGoal, LinkStates, LoopStates
<1> QED
  BY <1>1, RegistriesStep, LeaderStep, AgentStep DEF Base, AgentGoal

\* The base invariant: the lease, the loops, the registries and the Agents are
\* consistent with each other in every reachable state.
THEOREM BaseHolds == Spec => []Base
BY InitBase, BaseStep, PTL DEF Spec

\* Whatever replies are lost, whoever restarts or takes over, an Agent handles only
\* commands that were queued for its present registration (Registry.register clears
\* what was queued for the process before; Registry.heartbeat refuses its lease).
THEOREM CommandsStay == Spec => []CommandsStayWithLease
<1>1. Base => CommandsStayWithLease
  BY DEF Base, InboxOk, CommandsStayWithLease, TypeOK
<1> QED
  BY <1>1, BaseHolds, PTL

-----------------------------------------------------------------------------
(* Acknowledged drains. *)

\* A Manager comes to be the last holder with an attached registry only by attaching.
LEMMA AttachStep ==
    ASSUME PromptLoops, Base, [Next]_vars, NEW n \in Managers, attached'[n], last' = n
    PROVE  (attached[n] /\ last = n) \/ Attach(n)
<1>0. /\ attached \in [Managers -> BOOLEAN] /\ LoopOk(n) /\ Nobody \notin Managers
  BY ControlPlaneAssumption DEF Base, TypeOK
<1>1. CASE UNCHANGED <<attached, last>>
  BY <1>1
<1>2. ASSUME NEW m \in Managers, PollTakes(m) PROVE attached[n] /\ last = n
  <2>1. m = n /\ attached' = attached /\ loop[n].pc = "poll" /\ NobodySlept
    BY <1>2 DEF PollTakes, mvars
  <2> QED
    BY <1>0, <2>1 DEF LoopOk, NobodySlept
<1>3. ASSUME NEW m \in Managers, StepDown(m) \/ ActivationFails(m) PROVE attached[n] /\ last = n
  BY <1>0, <1>3 DEF StepDown, ActivationFails, lvars
<1>4. ASSUME NEW m \in Managers, Attach(m) PROVE (attached[n] /\ last = n) \/ Attach(n)
  BY <1>0, <1>4, Zenon DEF Attach, lvars
<1>5. \/ UNCHANGED <<attached, last>>
      \/ \E m \in Managers : PollTakes(m) \/ StepDown(m) \/ ActivationFails(m) \/ Attach(m)
  <2>1. ASSUME NEW m \in Managers, \/ LoseTerm(m) \/ PollRenews(m) \/ PollStandsBy(m)
                                  \/ StartServices(m) \/ DispatchQueue(m)
        PROVE  UNCHANGED <<attached, last>>
    BY <2>1 DEF LoseTerm, PollRenews, PollStandsBy, StartServices, DispatchQueue, lvars, mvars
  <2>2. ASSUME NEW m \in Managers, NEW a \in Agents,
               \/ QueueDrain(m, a) \/ Remove(m, a) \/ Register(a, m) \/ HeartbeatCheck(a, m)
               \/ \E d \in Deliveries : DispatchClaim(m, a, d)
        PROVE  UNCHANGED <<attached, last>>
    BY <2>2 DEF QueueDrain, Remove, Register, HeartbeatCheck, DispatchClaim, lvars, mvars
  <2>3. ASSUME NEW a \in Agents, \/ HeartbeatRefused(a) \/ HeartbeatDelivers(a)
                                \/ HandleCommands(a) \/ RestartAgent(a)
                                \/ \E d \in Deliveries : FinishTask(a, d)
        PROVE  UNCHANGED <<attached, last>>
    BY <2>3, Zenon DEF HeartbeatRefused, HeartbeatDelivers, HandleCommands, RestartAgent, FinishTask,
                lvars, mvars
  <2>4. ASSUME Lapse \/ UNCHANGED vars PROVE UNCHANGED <<attached, last>>
    BY <2>4 DEF Lapse, vars, lvars, mvars
  <2> QED
    BY <2>1, <2>2, <2>3, <2>4 DEF Next, Poll
<1> QED
  BY <1>1, <1>2, <1>3, <1>4, <1>5

\* A change that keeps the drains of the memory it starts from keeps them everywhere.
LEMMA CommitHolds ==
    ASSUME Base, DrainsOk, NEW m \in Managers, NEW new, Commit(m, new), acked' = acked,
           Held(mem[m]) => Held(new)
    PROVE  DrainsOk'
<1>1. mem \in [Managers -> Registries] /\ LeaseOk /\ Nobody \notin Managers
  BY ControlPlaneAssumption DEF Base, TypeOK
<1>2. UNCHANGED <<attached, last>>
  BY DEF Commit, lvars
<1>3. durable' = durable \/ (attached[m] /\ last = m /\ durable' = new)
  BY <1>1 DEF Commit, Persist, PersistFails, Valid, LeaseOk
<1>4. Held(durable')
  BY <1>3 DEF DrainsOk
<1>5. ASSUME NEW n \in Managers, attached[n], last = n PROVE Held(mem'[n])
  <2>1. mem'[n] = mem[n] \/ (n = m /\ mem'[n] = new)
    BY <1>1 DEF Commit, Persist, PersistFails
  <2> QED
    BY <1>5, <2>1 DEF DrainsOk
<1> QED
  BY <1>2, <1>4, <1>5 DEF DrainsOk, Held

\* Acknowledged drains are in the committed registry and in the memory that commits next.
LEMMA DrainsStep ==
    ASSUME PromptLoops, Base, DrainsOk, [Next]_vars
    PROVE  DrainsOk'
<1>0. /\ mem \in [Managers -> Registries] /\ LeaseOk /\ TypeOK /\ RegistriesOk
      /\ Nobody \notin Managers /\ Drain \in Commands
  BY ControlPlaneAssumption DEF Base, TypeOK, Commands
<1>1. ASSUME UNCHANGED <<mem, durable, acked>> PROVE DrainsOk'
  <2>1. ASSUME NEW n \in Managers, attached'[n], last' = n PROVE Held(mem'[n])
    <3>1. CASE attached[n] /\ last = n
      BY <1>1, <3>1 DEF DrainsOk
    <3>2. CASE Attach(n)
      <4>1. mem'[n] = durable
        BY <1>0, <3>2 DEF Attach
      <4> QED
        BY <4>1 DEF DrainsOk
    <3> QED
      BY <2>1, <3>1, <3>2, AttachStep
  <2> QED
    BY <1>1, <2>1 DEF DrainsOk, Held
<1>2. ASSUME NEW m \in Managers, Restores(m) PROVE DrainsOk'
  <2>1. /\ UNCHANGED <<durable, acked>>
        /\ \A n \in Managers : mem'[n] = mem[n] \/ mem'[n] = durable
    BY <1>0, <1>2 DEF Restores
  <2>2. ASSUME NEW n \in Managers, attached'[n], last' = n PROVE Held(mem'[n])
    <3>1. CASE attached[n] /\ last = n
      BY <2>1, <3>1 DEF DrainsOk
    <3>2. CASE Attach(n)
      <4>1. mem'[n] = durable
        BY <1>0, <3>2 DEF Attach
      <4> QED
        BY <4>1 DEF DrainsOk
    <3> QED
      BY <2>2, <3>1, <3>2, AttachStep
  <2> QED
    BY <2>1, <2>2 DEF DrainsOk, Held
<1>3. ASSUME NEW m \in Managers, NEW a \in Agents, Registers(m, a) PROVE DrainsOk'
  BY <1>0, <1>3, WithAgentOk, CommitHolds DEF Registers
<1>4. ASSUME NEW m \in Managers, NEW a \in Agents, Delivers(m, a) PROVE DrainsOk'
  BY <1>0, <1>4, DeliveredOk, CommitHolds DEF Delivers
<1>5. ASSUME NEW m \in Managers, NEW a \in Agents, Removes(m, a) PROVE DrainsOk'
  BY <1>0, <1>5, RemovedOk, CommitHolds DEF Removes
<1>6. ASSUME NEW m \in Managers, NEW a \in Agents, NEW c \in Commands, Queues(m, a, c)
      PROVE  DrainsOk'
  BY <1>0, <1>6, WithCommandOk, CommitHolds DEF Queues
<1>7. ASSUME NEW m \in Managers, NEW a \in Agents, Acknowledges(m, a) PROVE DrainsOk'
  <2> DEFINE new == WithCommand(m, a, Drain)
  <2>1. /\ acked' = acked \cup {<<a, mem[m][a].lease>>} /\ UNCHANGED <<attached, last>>
        /\ Admits(m) /\ Persist(m, new)
    BY <1>7 DEF Acknowledges, lvars
  <2>2. attached[m] /\ last = m
    BY <1>0, <2>1 DEF Admits, Valid, LeaseOk, Base, LoopOk
  <2>3. durable' = new /\ mem'[m] = new
    BY <1>0, <2>1, <2>2 DEF Persist
  <2>4. Held(mem[m])
    BY <2>2 DEF DrainsOk
  <2>5. /\ Held(new) /\ new[a].lease = mem[m][a].lease /\ new[a].draining
    BY <1>0, <2>4, WithCommandOk
  <2> HIDE DEF new
  <2>6. \A b \in Agents : <<b, new[b].lease>> \in acked' => new[b].draining
    BY <2>1, <2>5 DEF Held
  <2> QED
    BY <2>1, <2>2, <2>3, <2>6 DEF DrainsOk, Held
<1> QED
  BY <1>0, <1>1, <1>2, <1>3, <1>4, <1>5, <1>6, <1>7, RegistryStep

\* An acknowledged drain is in the committed registry for as long as its registration,
\* through takeovers, failed commits and heartbeats, provided no Manager sleeps through
\* the term of another (queue_command commits before it answers, attach_durable_state
\* restores what was committed).
THEOREM DrainsHold == PromptLoops => (Spec => []AckedDrainHolds)
<1> SUFFICES ASSUME PromptLoops PROVE Spec => []AckedDrainHolds
  OBVIOUS
<1>1. Init => DrainsOk
  BY DEF Init, DrainsOk, Held
<1>2. Base /\ DrainsOk /\ [Next]_vars => DrainsOk'
  BY DrainsStep
<1>3. DrainsOk => AckedDrainHolds
  BY DEF DrainsOk, Held, AckedDrainHolds
<1> QED
  BY <1>1, <1>2, <1>3, BaseHolds, PTL DEF Spec

-----------------------------------------------------------------------------
(* Deliveries run once. *)

\* A process that remembers every delivery starts none twice.
LEMMA RunsStep ==
    ASSUME RemembersAll, Base, NEW a \in Agents, RanOk(a), [Next]_vars
    PROVE  RanOk(a)'
<1>0. link \in [Agents -> LinkStates] /\ runs \in [Agents -> [Deliveries -> Nat]]
  BY DEF Base, TypeOK, LinkStates
<1>1. ASSUME link'[a].running = link[a].running, link'[a].done = link[a].done, runs'[a] = runs[a]
      PROVE  RanOk(a)'
  BY <1>1 DEF RanOk
<1>2. CASE HandleCommands(a)
  <2>1. /\ link'[a].running = link[a].running \cup Begun(link[a])
        /\ link'[a].done = link[a].done
        /\ \A d \in Deliveries : runs'[a][d] = IF d \in Begun(link[a]) THEN runs[a][d] + 1
                                                                     ELSE runs[a][d]
    BY <1>0, <1>2 DEF HandleCommands, LinkStates
  <2>2. \A d \in Begun(link[a]) : d \notin link[a].running /\ d \notin link[a].done
    BY <1>0, CreatedOk
  <2>3. \A d \in Deliveries : runs[a][d] \in Nat
    BY <1>0
  <2> QED
    BY <2>1, <2>2, <2>3 DEF RanOk
<1>3. ASSUME NEW d \in Deliveries, FinishTask(a, d) PROVE RanOk(a)'
  <2>1. PICK done \in Remember(link[a].done, d) :
           link' = [link EXCEPT ![a].running = @ \ {d}, ![a].done = done]
    BY <1>3, Zenon DEF FinishTask
  <2>2. d \in link[a].running /\ runs' = runs
    BY <1>3 DEF FinishTask
  <2>3. Cardinality(link[a].done) < MaxDone
    <3>1. link[a].done \subseteq Deliveries /\ d \notin link[a].done
      BY <1>0, <2>2 DEF LinkStates, RanOk
    <3>2. IsFiniteSet(Deliveries) /\ Cardinality(Deliveries) <= MaxDone
          /\ Cardinality(Deliveries) \in Nat /\ MaxDone \in Nat
      BY ControlPlaneAssumption, FS_CardinalityType DEF RemembersAll
    <3>3. /\ Cardinality(link[a].done) <= Cardinality(Deliveries)
          /\ Cardinality(link[a].done) = Cardinality(Deliveries) => link[a].done = Deliveries
      BY <3>1, <3>2, FS_Subset
    <3>4. IsFiniteSet(link[a].done) /\ Cardinality(link[a].done) \in Nat
      BY <3>1, <3>2, FS_Subset, FS_CardinalityType
    <3>5. link[a].done # Deliveries
      BY <1>3, <3>1
    <3> QED
      BY <3>2, <3>3, <3>4, <3>5
  <2>4. done = link[a].done \cup {d}
    BY <2>1, <2>3 DEF Remember
  <2>5. link'[a].running = link[a].running \ {d} /\ link'[a].done = link[a].done \cup {d}
    BY <1>0, <2>1, <2>4 DEF LinkStates
  <2> QED
    BY <2>2, <2>5 DEF RanOk
<1>4. CASE RestartAgent(a)
  BY <1>0, <1>4 DEF RestartAgent, NewLink, RanOk
<1>5. ASSUME NEW b \in Agents, b # a, \/ HandleCommands(b) \/ RestartAgent(b)
                                    \/ \E d \in Deliveries : FinishTask(b, d)
      PROVE  link'[a] = link[a] /\ runs'[a] = runs[a]
  BY <1>0, <1>5, Zenon DEF HandleCommands, RestartAgent, FinishTask
<1>6. ASSUME NEW b \in Agents,
             \/ HeartbeatRefused(b) \/ HeartbeatDelivers(b)
             \/ \E m \in Managers : Register(b, m)
      PROVE  link'[a].running = link[a].running /\ link'[a].done = link[a].done /\ runs' = runs
  <2>1. /\ \/ link' = link \/ \E n : link' = [link EXCEPT ![b].lease = n]
           \/ \E q : link' = [link EXCEPT ![b].inbox = q]
        /\ runs' = runs
    BY <1>6 DEF HeartbeatRefused, HeartbeatDelivers, Register
  <2>2. ASSUME NEW n, link' = [link EXCEPT ![b].lease = n]
        PROVE  link'[a].running = link[a].running /\ link'[a].done = link[a].done
    BY <1>0, <2>2 DEF LinkStates
  <2>3. ASSUME NEW q, link' = [link EXCEPT ![b].inbox = q]
        PROVE  link'[a].running = link[a].running /\ link'[a].done = link[a].done
    BY <1>0, <2>3 DEF LinkStates
  <2> QED
    BY <2>1, <2>2, <2>3
<1>7. \/ UNCHANGED <<link, runs>>
      \/ \E b \in Agents : \/ HeartbeatRefused(b) \/ HeartbeatDelivers(b)
                           \/ HandleCommands(b) \/ RestartAgent(b)
                           \/ \E d \in Deliveries : FinishTask(b, d)
                           \/ \E m \in Managers : Register(b, m)
  <2>1. ASSUME NEW m \in Managers, \/ LoseTerm(m) \/ Poll(m) \/ StepDown(m) \/ Attach(m)
                                  \/ StartServices(m) \/ ActivationFails(m) \/ DispatchQueue(m)
        PROVE  UNCHANGED <<link, runs>>
    BY <2>1, Zenon DEF LoseTerm, Poll, PollTakes, PollRenews, PollStandsBy, StepDown, Attach,
                StartServices, ActivationFails, DispatchQueue, avars
  <2>2. ASSUME NEW m \in Managers, NEW b \in Agents,
               \/ QueueDrain(m, b) \/ Remove(m, b) \/ HeartbeatCheck(b, m)
               \/ \E d \in Deliveries : DispatchClaim(m, b, d)
        PROVE  UNCHANGED <<link, runs>>
    BY <2>2 DEF QueueDrain, Remove, HeartbeatCheck, DispatchClaim, avars
  <2>3. ASSUME Lapse \/ UNCHANGED vars PROVE UNCHANGED <<link, runs>>
    BY <2>3 DEF Lapse, vars, avars
  <2> QED
    BY <2>1, <2>2, <2>3 DEF Next
<1> QED
  BY <1>1, <1>2, <1>3, <1>4, <1>5, <1>6, <1>7

\* An Agent process runs a delivery at most once, although a command can reach it more
\* than once, as long as it remembers as many deliveries as it is sent
\* (_completed_materialize_deliveries, which forgets beyond 1024 of them).
THEOREM DeliveriesRunOnce == RemembersAll => (Spec => []RunsOnce)
<1> SUFFICES ASSUME RemembersAll PROVE Spec => []RunsOnce
  OBVIOUS
<1> DEFINE AllRan == \A a \in Agents : RanOk(a)
<1>1. Init => AllRan
  BY DEF Init, RanOk, NewLink
<1>2. Base /\ AllRan /\ [Next]_vars => AllRan'
  BY RunsStep
<1>3. AllRan => RunsOnce
  BY DEF RanOk, RunsOnce
<1> HIDE DEF AllRan
<1> QED
  BY <1>1, <1>2, <1>3, BaseHolds, PTL DEF Spec

=============================================================================
