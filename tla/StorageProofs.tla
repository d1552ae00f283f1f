---------------------------- MODULE StorageProofs ----------------------------
(***************************************************************************)
(* What the artifact stores promise their callers, for any number of       *)
(* callers, keys, contents and calls, and what the fronts that serve       *)
(* objects promise of a Range header, for objects of any size.             *)
(*                                                                         *)
(* A caller checks and then writes.  The invariant says, for every step    *)
(* between the two, what makes the check still true when the write lands:  *)
(* the lock (LockKept, Checked) or the version of the object (Seen).       *)
(***************************************************************************)
EXTENDS ArtifactStore, S3Ranges, TLAPS

\* What a call can write.
PutSet == [key : Keys, val : Contents \cup {Nil}]

\* One caller has the lock at a time, unless an Azure lease ran out on it.
Serial(b, lt) == b = "local" \/ (b = "azure" /\ ~lt)

\* The steps of a conditional write on each store.
StepsOf(b) ==
    CASE b = "memory" -> {"apply"}
      [] b = "local" -> {"lock", "fence", "guard", "write", "unlock"}
      [] b = "azure" -> {"lock", "fence", "guard", "etag", "upload", "write", "unlock"}
      [] OTHER -> {"read", "download", "upload"}

\* A call, as a record of these fields.
CallFields == {"pc", "kind", "guard", "exp", "fence", "tok", "puts", "n", "seen"}

IsCall(q) ==
    /\ q = [f \in CallFields |-> q[f]]
    /\ q.guard \in Keys \cup {Nil} /\ q.exp \in Contents \cup {Nil}
    /\ q.fence \in Roots \cup {Nil} /\ q.tok \in Tokens \cup {Nil}
    /\ q.puts \in Seq(PutSet) /\ q.n \in Nat /\ q.seen \in Nat
    /\ q.kind \in {"none", "swap", "fenced", "create", "put"}

\* What a call of each kind needs and writes.
Shape(q) ==
    /\ q.kind = "swap" => /\ q.guard \in Roots /\ q.fence = Nil
                          /\ Len(q.puts) = 1 /\ q.puts[1].key = q.guard
    /\ q.kind = "fenced" => /\ q.guard \in Roots \cup {Nil} /\ Len(q.puts) > 0
                            /\ \A i \in DOMAIN q.puts : q.puts[i].key \in RecordKeys
    /\ q.kind = "create" => /\ q.guard \in Immutables /\ q.exp = Nil /\ q.fence = Nil
                            /\ Len(q.puts) = 1 /\ q.puts[1].key = q.guard /\ q.puts[1].val # Nil
    /\ q.kind = "put" => /\ q.guard = Nil /\ q.fence = Nil
                         /\ Len(q.puts) = 1 /\ q.puts[1].key \in Plain

\* Which calls are at which step, and how many of their writes have landed.
Place(b, q) ==
    /\ q.pc \in StepsOf(b) \cup {"idle", "stage", "done", "verify"}
    /\ q.kind = "none" <=> q.pc = "idle"
    /\ q.pc \notin {"write", "unlock", "done"} => q.n = 0
    /\ q.n <= Len(q.puts)
    /\ q.pc = "write" => q.n < Len(q.puts)
    /\ q.pc \in {"etag", "upload", "read", "download"} => q.kind = "swap"
    /\ q.pc = "etag" => q.exp # Nil
    /\ q.pc = "stage" => q.kind = "put" \/ (q.kind = "create" /\ b \notin {"local", "memory"})
    /\ q.pc \in StepsOf(b) =>
          q.kind # "put" /\ (b \notin {"local", "memory"} => q.kind # "create")
    /\ q.pc = "verify" => q.kind = "create"

\* A caller at a step under the lock holds it.
LockKept(b, lk, lt, c, q) == Serial(b, lt) /\ q.pc \in Held => lk = c

\* FenceNames and GuardHolds, of any content of the store.
Fenced(dt, q) == q.fence # Nil => dt[q.fence] # Nil /\ TokenOf[dt[q.fence]] = q.tok
Guarded(dt, q) == q.guard # Nil => dt[q.guard] = q.exp

\* What was checked under the lock still holds.
Checked(b, dt, lt, q) ==
    Serial(b, lt) => /\ q.pc \in {"guard", "etag", "upload", "write"} => Fenced(dt, q)
                     /\ q.pc \in {"etag", "upload", "write"} => Guarded(dt, q)

\* Without a lock, an object of the version seen has the content compared.
Seen(b, dt, et, w, q) ==
    b \in {"s3", "gcs"} =>
        /\ q.pc \in {"download", "upload"} => q.seen <= w
        /\ q.pc = "download" => q.seen # 0
        /\ q.pc = "upload" => /\ q.seen = 0 => q.exp = Nil
                              /\ q.seen # 0 /\ dt[q.guard] # Nil /\ et[q.guard] = q.seen
                                    => dt[q.guard] = q.exp

\* A created artifact stays.
Created(dt, q) == q.kind = "create" /\ q.n > 0 => dt[q.guard] = q.puts[1].val

\* All that is known of one caller.
Good(b, dt, et, w, lk, lt, c, q) ==
    /\ IsCall(q) /\ Shape(q) /\ Place(b, q)
    /\ LockKept(b, lk, lt, c, q) /\ Checked(b, dt, lt, q)
    /\ Seen(b, dt, et, w, q) /\ Created(dt, q)

\* Versions grow with the writes.
Store(b, dt, et, w) ==
    /\ b \in {"memory", "local", "azure", "s3", "gcs"}
    /\ dt \in [Keys -> Contents \cup {Nil}] /\ et \in [Keys -> Nat] /\ w \in Nat
    /\ \A k \in Keys : et[k] <= w /\ (b # "memory" /\ dt[k] # Nil => et[k] > 0)

\* ToldIsStored, with what is reported.
Told(dt, tl) == \A p \in tl : p.key \in Immutables /\ p.val # Nil /\ dt[p.key] = p.val

\* The inductive invariant.
Inv ==
    /\ Store(backend, objects, etag, writes)
    /\ lock \in Clients \cup {Nil} /\ late \in BOOLEAN
    /\ DOMAIN op = Clients
    /\ \A c \in Clients : Good(backend, objects, etag, writes, lock, late, c, op[c])
    /\ Told(objects, told)

\* The condition under which a step may let a write of c land.
AsChecked(c) == late \/ (GuardHolds(op[c]) /\ FenceNames(op[c]))

\* LandsAsChecked, of one step.
LandsStep == \A c \in Clients : op'[c].n > op[c].n => AsChecked(c)

\* What every step is shown to keep.
Kept == Inv' /\ LandsStep

-----------------------------------------------------------------------------

\* A step that writes nothing: the other callers keep what they know, and the
\* lock is not taken from one that holds it.
LEMMA Quiet ==
  ASSUME Layout, Inv, NEW c \in Clients, NEW q,
         Becomes(c, q),
         UNCHANGED <<backend, objects, etag, writes, late>>,
         lock' \in Clients \cup {Nil}, lock' = lock \/ lock \in {Nil, c},
         Good(backend, objects, etag, writes, lock', late, c, q), q.n <= op[c].n,
         Told(objects, told')
  PROVE  Kept
PROOF
  <1>1. op'[c] = q /\ DOMAIN op' = Clients /\ \A d \in Clients : d # c => op'[d] = op[d]
    BY Zenon DEF Inv, Becomes
  <1>2. \A d \in Clients : Good(backend, objects, etag, writes, lock', late, d, op'[d])
    <2> SUFFICES ASSUME NEW d \in Clients, d # c
                 PROVE  Good(backend, objects, etag, writes, lock', late, d, op[d])
      BY <1>1, Zenon
    <2>1. Good(backend, objects, etag, writes, lock, late, d, op[d])
      BY Zenon DEF Inv
    <2>2. LockKept(backend, lock', late, d, op[d])
      BY <2>1, Zenon DEF Good, LockKept, Layout
    <2> QED
      BY <2>1, <2>2, Zenon DEF Good
  <1>3. Inv'
    BY <1>1, <1>2, Zenon DEF Inv
  <1>4. q.n \in Nat /\ \A d \in Clients : op[d].n \in Nat
    BY Zenon DEF Inv, Good, IsCall
  <1>5. LandsStep
    BY <1>1, <1>4 DEF LandsStep
  <1> QED
    BY <1>3, <1>5, Zenon DEF Kept

\* One key changes: what the others checked still holds, since either the
\* change is under the lock or the key is none that they check.
LEMMA Landing ==
  ASSUME Layout, Inv, NEW c \in Clients, NEW q, NEW k \in Keys, NEW v \in Contents \cup {Nil},
         Becomes(c, q),
         objects' = [objects EXCEPT ![k] = v], etag' = [etag EXCEPT ![k] = writes + 1],
         writes' = writes + 1, UNCHANGED <<backend, lock, late, told>>,
         Good(backend, objects', etag', writes', lock, late, c, q),
         k \in Immutables => objects[k] = Nil,
         Serial(backend, late) /\ op[c].pc \notin Held =>
            k \notin Roots /\ (backend = "local" => k \notin Immutables),
         AsChecked(c)
  PROVE  Kept
PROOF
  <1>1. op'[c] = q /\ DOMAIN op' = Clients /\ \A d \in Clients : d # c => op'[d] = op[d]
    BY Zenon DEF Inv, Becomes
  <1>2. /\ objects' \in [Keys -> Contents \cup {Nil}] /\ etag' \in [Keys -> Nat] /\ writes' \in Nat
        /\ objects'[k] = v /\ etag'[k] = writes + 1 /\ writes \in Nat
        /\ \A j \in Keys : j # k => objects'[j] = objects[j] /\ etag'[j] = etag[j]
    BY DEF Inv, Store
  <1>3. Store(backend, objects', etag', writes')
    BY <1>2 DEF Inv, Store
  <1>k. \A j \in Immutables : objects[j] # Nil => objects'[j] = objects[j]
    BY <1>2, Zenon DEF Keys
  <1>4. Told(objects', told)
    BY <1>k, Zenon DEF Inv, Told
  <1>5. ASSUME NEW d \in Clients, d # c
        PROVE  Good(backend, objects', etag', writes', lock, late, d, op[d])
    <2>1. Good(backend, objects, etag, writes, lock, late, d, op[d])
      BY Zenon DEF Inv
    <2>2. Good(backend, objects, etag, writes, lock, late, c, op[c])
      BY Zenon DEF Inv
    <2>3. Seen(backend, objects', etag', writes', op[d])
      BY <1>2, <2>1 DEF Good, Seen, IsCall, Shape, Place, Keys
    <2>4. Created(objects', op[d])
      BY <1>k, <2>1, Zenon DEF Good, Created, Shape
    <2>5. Checked(backend, objects', late, op[d])
      <3> SUFFICES ASSUME Serial(backend, late), op[d].pc \in Held
                   PROVE  Checked(backend, objects', late, op[d])
        BY Zenon DEF Checked, Held
      <3>1. lock = d /\ op[c].pc \notin Held
        BY <2>1, <2>2, d # c, Zenon DEF Good, LockKept
      <3>2. k \notin Roots /\ (backend = "local" => k \notin Immutables)
        BY <3>1, Zenon
      <3>3. op[d].guard = Nil \/ op[d].guard \in Keys
        BY <2>1, Zenon DEF Good, IsCall
      <3>4. op[d].guard # Nil => op[d].guard \in Roots \/ (backend = "local" /\ op[d].guard \in Immutables)
        BY <2>1, Zenon DEF Good, Shape, Place, StepsOf, Held, Serial, IsCall
      <3>5. Fenced(objects', op[d]) <=> Fenced(objects, op[d])
        BY <1>2, <2>1, <3>2, Zenon DEF Good, IsCall, Fenced, Keys
      <3>6. Guarded(objects', op[d]) <=> Guarded(objects, op[d])
        BY <1>2, <3>2, <3>3, <3>4, Zenon DEF Guarded
      <3> QED
        BY <2>1, <3>5, <3>6, Zenon DEF Good, Checked
    <2> QED
      BY <2>1, <2>3, <2>4, <2>5, Zenon DEF Good
  <1>6. \A d \in Clients : Good(backend, objects', etag', writes', lock, late, d, op'[d])
    BY <1>1, <1>5, Zenon
  <1>7. Inv'
    BY <1>1, <1>3, <1>4, <1>6, Zenon DEF Inv
  <1>8. LandsStep
    <2>1. \A d \in Clients : op[d].n \in Nat
      BY Zenon DEF Inv, Good, IsCall
    <2> QED
      BY <1>1, <2>1 DEF LandsStep
  <1> QED
    BY <1>7, <1>8, Zenon DEF Kept

\* Two calls that ask for the same.
Alike(r, q) == /\ r.kind = q.kind /\ r.guard = q.guard /\ r.exp = q.exp
               /\ r.fence = q.fence /\ r.tok = q.tok /\ r.puts = q.puts

\* The elements of a sequence are where they should be.
LEMMA SeqElements ==
  ASSUME NEW S, NEW s \in Seq(S)
  PROVE  Len(s) \in Nat /\ DOMAIN s = 1 .. Len(s) /\ \A i \in DOMAIN s : s[i] \in S
OBVIOUS

\* A sequence over a set is one over a larger set.
LEMMA SeqWidens ==
  ASSUME NEW S, NEW T, NEW s \in Seq(S), S \subseteq T
  PROVE  s \in Seq(T)
OBVIOUS

\* Moving to another step changes nothing that was asked for.
LEMMA Moved ==
  ASSUME NEW q, IsCall(q), NEW pc
  PROVE  /\ IsCall([q EXCEPT !.pc = pc]) /\ Alike([q EXCEPT !.pc = pc], q)
         /\ [q EXCEPT !.pc = pc].pc = pc /\ [q EXCEPT !.pc = pc].n = q.n
         /\ [q EXCEPT !.pc = pc].seen = q.seen
BY Zenon DEF IsCall, CallFields, Alike

\* Neither does counting a write that landed,
LEMMA Counted ==
  ASSUME NEW q, IsCall(q), NEW pc, NEW m \in Nat
  PROVE  /\ IsCall(Wrote(q, pc, m)) /\ Alike(Wrote(q, pc, m), q)
         /\ Wrote(q, pc, m).pc = pc /\ Wrote(q, pc, m).n = m
         /\ Wrote(q, pc, m).seen = q.seen
BY Zenon DEF IsCall, CallFields, Alike, Wrote, Saw

\* or noting a version.
LEMMA Noted ==
  ASSUME NEW q, IsCall(q), NEW pc, NEW m \in Nat
  PROVE  /\ IsCall(Saw(q, pc, m)) /\ Alike(Saw(q, pc, m), q)
         /\ Saw(q, pc, m).pc = pc /\ Saw(q, pc, m).n = q.n
         /\ Saw(q, pc, m).seen = m
BY Zenon DEF IsCall, CallFields, Alike, Wrote, Saw

\* The shape of a call depends only on what was asked for.
LEMMA ShapeStays ==
  ASSUME NEW q, NEW r, Alike(r, q), Shape(q)
  PROVE  Shape(r)
BY Zenon DEF Alike, Shape

\* A client that is idle is as it should be, whatever the store holds.
LEMMA IdleIsGood ==
  ASSUME NEW b, NEW dt, NEW et, NEW w, NEW lk, NEW lt, NEW c
  PROVE  Good(b, dt, et, w, lk, lt, c, NoCall) /\ NoCall.n = 0
PROOF
  <1>1. IsCall(NoCall)
    BY DEF IsCall, NoCall, Ask, CallFields
  <1>2. Shape(NoCall) /\ Place(b, NoCall) /\ LockKept(b, lk, lt, c, NoCall) /\ Checked(b, dt, lt, NoCall)
        /\ Seen(b, dt, et, w, NoCall) /\ Created(dt, NoCall) /\ NoCall.n = 0
    BY DEF NoCall, Ask, Shape, Place, LockKept, Checked, Seen, Created, Held
  <1> QED
    BY <1>1, <1>2, Zenon DEF Good

\* A new call is a call.
LEMMA Asked ==
  ASSUME NEW pc, NEW kind \in {"swap", "fenced", "create", "put"}, NEW g \in Keys \cup {Nil},
         NEW e \in Contents \cup {Nil}, NEW f \in Roots \cup {Nil}, NEW t \in Tokens \cup {Nil},
         NEW p \in Seq(PutSet)
  PROVE  IsCall(Ask(pc, kind, g, e, f, t, p))
BY Zenon DEF IsCall, Ask, CallFields

\* A new call, when it has the shape of its kind and starts in its place.
LEMMA StartStep ==
  ASSUME Layout, Inv, NEW c \in Clients, NEW q, IsCall(q), Shape(q), Start(c, q),
         q.pc \in {"apply", "lock", "read", "stage"}, q.n = 0, Place(backend, q)
  PROVE  Kept
PROOF
  <1>1. /\ LockKept(backend, lock, late, c, q) /\ Checked(backend, objects, late, q)
        /\ Seen(backend, objects, etag, writes, q) /\ Created(objects, q)
    BY DEF LockKept, Checked, Seen, Created, Held
  <1>2. op[c].n \in Nat
    BY Zenon DEF Inv, Good, IsCall
  <1>3. /\ Becomes(c, q)
        /\ UNCHANGED <<backend, objects, etag, writes, late>> /\ lock' = lock /\ told' = told
    BY Zenon DEF Start
  <1>4. Good(backend, objects, etag, writes, lock', late, c, q)
    BY <1>1, <1>3, Zenon DEF Good
  <1>5. lock \in Clients \cup {Nil} /\ Told(objects, told') /\ q.n <= op[c].n
    BY <1>2, <1>3 DEF Inv
  <1> QED
    BY <1>3, <1>4, <1>5, Quiet, Zenon

\* compare_and_swap, fenced_put, the guarded batches, put_stream_if_absent and
\* put_stream begin.
LEMMA CallStep ==
  ASSUME Layout, Inv, NEW c \in Clients, Call(c)
  PROVE  Kept
PROOF
  <1>0. backend \in {"memory", "local", "azure", "s3", "gcs"}
    BY Zenon DEF Inv, Store
  <1>1. CASE CompareAndSwap(c)
    <2>1. PICK k \in Roots, e \in Contents \cup {Nil}, v \in Contents :
            Start(c, Ask(IF backend \in {"s3", "gcs"} THEN "read" ELSE FirstStep,
                         "swap", k, e, Nil, Nil, <<PutOf(k, v)>>))
      BY <1>1, Zenon DEF CompareAndSwap
    <2> DEFINE pc == IF backend \in {"s3", "gcs"} THEN "read" ELSE FirstStep
               q == Ask(pc, "swap", k, e, Nil, Nil, <<PutOf(k, v)>>)
    <2>2. <<PutOf(k, v)>> \in Seq(PutSet) /\ Len(<<PutOf(k, v)>>) = 1 /\ <<PutOf(k, v)>>[1].key = k
      BY DEF PutOf, PutSet, Keys
    <2>3. IsCall(q)
      BY <2>2, Asked, Zenon DEF Keys
    <2>4. /\ q.pc = pc /\ q.kind = "swap" /\ q.guard = k /\ q.fence = Nil /\ q.n = 0
          /\ q.puts = <<PutOf(k, v)>>
      BY Zenon DEF Ask
    <2>5. pc \in StepsOf(backend) /\ pc \in {"apply", "lock", "read"}
      BY <1>0, Zenon DEF FirstStep, StepsOf
    <2> HIDE DEF pc, q
    <2>6. Shape(q)
      BY <2>2, <2>4, Zenon DEF Shape
    <2>7. Place(backend, q)
      BY <2>2, <2>4, <2>5 DEF Place
    <2> QED
      BY <2>1, <2>3, <2>4, <2>5, <2>6, <2>7, StartStep, Zenon DEF q, pc
  <1>2. ASSUME NEW g \in Roots \cup {Nil}, NEW e \in Contents \cup {Nil}, NEW f \in Roots \cup {Nil},
               NEW t \in Tokens \cup {Nil}, NEW b \in Batches,
               backend \in {"memory", "local", "azure"},
               Start(c, Ask(FirstStep, "fenced", g, e, f, t, b))
        PROVE  Kept
    <2> DEFINE q == Ask(FirstStep, "fenced", g, e, f, t, b)
    <2> DEFINE S == [key : RecordKeys, val : Contents \cup {Nil}]
    <2>1. b \in Seq(S) /\ Len(b) > 0
      BY Zenon DEF Layout
    <2>3. S \subseteq PutSet /\ \A p \in S : p.key \in RecordKeys
      BY Zenon DEF PutSet, Keys
    <2> HIDE DEF S
    <2>2. Len(b) \in Nat /\ Len(b) > 0 /\ \A i \in DOMAIN b : b[i].key \in RecordKeys
      BY <2>1, <2>3, SeqElements, Zenon
    <2>4. b \in Seq(PutSet)
      BY <2>1, <2>3, SeqWidens, Zenon
    <2>5. IsCall(q)
      BY <2>4, Asked, Zenon DEF Keys
    <2>6. q.pc = FirstStep /\ q.kind = "fenced" /\ q.guard = g /\ q.fence = f /\ q.n = 0 /\ q.puts = b
      BY Zenon DEF Ask
    <2>7. FirstStep \in StepsOf(backend) /\ FirstStep \in {"apply", "lock"}
      BY <1>2, Zenon DEF FirstStep, StepsOf
    <2> HIDE DEF q
    <2>8. Shape(q)
      BY <2>2, <2>6, Zenon DEF Shape
    <2>9. Place(backend, q)
      BY <2>2, <2>6, <2>7 DEF Place
    <2> QED
      BY <1>2, <2>5, <2>6, <2>7, <2>8, <2>9, StartStep, Zenon DEF q
  <1>3. CASE FencedPut(c)
    BY <1>2, <1>3, Zenon DEF FencedPut
  <1>4. CASE GuardedPutBatch(c)
    BY <1>2, <1>4, Zenon DEF GuardedPutBatch
  <1>5. CASE PutStreamIfAbsent(c)
    <2> DEFINE pc == IF backend \in {"memory", "local"} THEN FirstStep ELSE "stage"
    <2>1. PICK k \in Immutables, v \in Contents :
            Start(c, Ask(pc, "create", k, Nil, Nil, Nil, <<PutOf(k, v)>>))
      BY <1>5, Zenon DEF PutStreamIfAbsent
    <2> DEFINE q == Ask(pc, "create", k, Nil, Nil, Nil, <<PutOf(k, v)>>)
    <2>2. /\ <<PutOf(k, v)>> \in Seq(PutSet) /\ Len(<<PutOf(k, v)>>) = 1
          /\ <<PutOf(k, v)>>[1].key = k /\ <<PutOf(k, v)>>[1].val = v /\ v # Nil
      BY DEF PutOf, PutSet, Keys, Layout
    <2>3. IsCall(q)
      BY <2>2, Asked, Zenon DEF Keys
    <2>4. /\ q.pc = pc /\ q.kind = "create" /\ q.guard = k /\ q.fence = Nil /\ q.n = 0
          /\ q.exp = Nil /\ q.puts = <<PutOf(k, v)>>
      BY Zenon DEF Ask
    <2>5. /\ backend \in {"memory", "local"} => pc \in StepsOf(backend)
          /\ backend \notin {"memory", "local"} => pc = "stage"
          /\ pc \in {"apply", "lock", "stage"}
      BY <1>0, Zenon DEF FirstStep, StepsOf
    <2> HIDE DEF pc, q
    <2>6. Shape(q)
      BY <2>2, <2>4, Zenon DEF Shape
    <2>7. Place(backend, q)
      BY <1>0, <2>2, <2>4, <2>5 DEF Place, StepsOf
    <2> QED
      BY <2>1, <2>3, <2>4, <2>5, <2>6, <2>7, StartStep, Zenon DEF q
  <1>6. CASE PutStream(c)
    <2>1. PICK k \in Plain, v \in Contents \cup {Nil} :
            Start(c, Ask("stage", "put", Nil, Nil, Nil, Nil, <<PutOf(k, v)>>))
      BY <1>6, Zenon DEF PutStream
    <2> DEFINE q == Ask("stage", "put", Nil, Nil, Nil, Nil, <<PutOf(k, v)>>)
    <2>2. <<PutOf(k, v)>> \in Seq(PutSet) /\ Len(<<PutOf(k, v)>>) = 1 /\ <<PutOf(k, v)>>[1].key = k
      BY DEF PutOf, PutSet, Keys
    <2>3. IsCall(q)
      BY <2>2, Asked, Zenon
    <2>4. /\ q.pc = "stage" /\ q.kind = "put" /\ q.guard = Nil /\ q.fence = Nil /\ q.n = 0
          /\ q.puts = <<PutOf(k, v)>>
      BY Zenon DEF Ask
    <2> HIDE DEF q
    <2>6. Shape(q)
      BY <2>2, <2>4, Zenon DEF Shape
    <2>7. Place(backend, q)
      BY <1>0, <2>2, <2>4 DEF Place, StepsOf
    <2> QED
      BY <2>1, <2>3, <2>4, <2>6, <2>7, StartStep, Zenon DEF q
  <1> QED
    BY <1>1, <1>3, <1>4, <1>5, <1>6, Zenon DEF Call

-----------------------------------------------------------------------------
(* Steps that write nothing *)

\* A step within a call: it asks for the same, and has landed as many writes.
LEMMA WithinStep ==
  ASSUME Layout, Inv, NEW c \in Clients, NEW r, Becomes(c, r),
         IsCall(r), Alike(r, op[c]), r.n = op[c].n,
         UNCHANGED <<backend, objects, etag, writes, late, told>>,
         lock' \in Clients \cup {Nil}, lock' = lock \/ lock \in {Nil, c},
         Place(backend, r), LockKept(backend, lock', late, c, r), Checked(backend, objects, late, r),
         Seen(backend, objects, etag, writes, r)
  PROVE  Kept
PROOF
  <1>1. Good(backend, objects, etag, writes, lock, late, c, op[c])
    BY Zenon DEF Inv
  <1>2. Shape(r)
    BY <1>1, ShapeStays, Zenon DEF Good
  <1>3. Created(objects, r)
    BY <1>1, Zenon DEF Good, Created, Alike
  <1>4. r.n <= op[c].n /\ Told(objects, told')
    BY <1>1 DEF Good, IsCall, Inv
  <1>5. Good(backend, objects, etag, writes, lock', late, c, r)
    BY <1>2, <1>3, Zenon DEF Good
  <1> QED
    BY <1>4, <1>5, Quiet, Zenon

\* A call ends.
LEMMA EndStep ==
  ASSUME Layout, Inv, NEW c \in Clients, Becomes(c, NoCall),
         UNCHANGED <<backend, objects, etag, writes, late>>, Told(objects, told'),
         lock' \in Clients \cup {Nil}, lock' = lock \/ lock \in {Nil, c}
  PROVE  Kept
PROOF
  <1>1. op[c].n \in Nat
    BY Zenon DEF Inv, Good, IsCall
  <1>2. Good(backend, objects, etag, writes, lock', late, c, NoCall) /\ NoCall.n <= op[c].n
    BY <1>1, IdleIsGood
  <1> QED
    BY <1>2, Quiet, Zenon

\* What is known of a client that is about to move to pc.
LEMMA GoesFacts ==
  ASSUME Inv, NEW c \in Clients, NEW pc, Goes(c, pc)
  PROVE  \E r : /\ Becomes(c, r) /\ IsCall(r) /\ Alike(r, op[c])
                /\ r.pc = pc /\ r.n = op[c].n /\ r.seen = op[c].seen
PROOF
  <1>1. IsCall(op[c])
    BY Zenon DEF Inv, Good
  <1> WITNESS [op[c] EXCEPT !.pc = pc]
  <1> QED
    BY <1>1, Moved, Zenon DEF Goes

\* Taking the lock, or giving up.
LEMMA AcquireStep ==
  ASSUME Layout, Inv, NEW c \in Clients, backend \in {"local", "azure"}, Acquire(c)
  PROVE  Kept
PROOF
  <1>1. Good(backend, objects, etag, writes, lock, late, c, op[c])
    BY Zenon DEF Inv
  <1>2. CASE lock = Nil /\ lock' = c /\ Goes(c, "fence")
    <2>1. PICK r : /\ Becomes(c, r) /\ IsCall(r) /\ Alike(r, op[c])
                   /\ r.pc = "fence" /\ r.n = op[c].n
      BY <1>2, GoesFacts
    <2>2. Place(backend, r)
      BY <1>1, <2>1, Zenon DEF Acquire, Good, Place, StepsOf, Alike
    <2>3. LockKept(backend, lock', late, c, r) /\ Checked(backend, objects, late, r)
          /\ Seen(backend, objects, etag, writes, r)
      BY <1>2, <2>1, Zenon DEF LockKept, Checked, Seen
    <2> QED
      BY <1>2, <2>1, <2>2, <2>3, WithinStep, Zenon DEF Acquire
  <1>3. CASE lock # Nil /\ lock' = lock /\ Becomes(c, NoCall)
    BY <1>3, EndStep, Zenon DEF Acquire, Inv
  <1> QED
    BY <1>2, <1>3, Zenon DEF Acquire

\* The fence, on the local store and on Azure.
LEMMA FenceStep ==
  ASSUME Layout, Inv, NEW c \in Clients, backend \in {"local", "azure"}, CheckFence(c)
  PROVE  Kept
PROOF
  <1>1. Good(backend, objects, etag, writes, lock, late, c, op[c])
    BY Zenon DEF Inv
  <1>2. PICK pc : /\ (pc = "guard" /\ FenceNames(op[c])) \/ pc = "unlock"
                  /\ Goes(c, pc)
    BY Zenon DEF CheckFence
  <1>3. PICK r : /\ Becomes(c, r) /\ IsCall(r) /\ Alike(r, op[c])
                 /\ r.pc = pc /\ r.n = op[c].n
    BY <1>2, GoesFacts
  <1>4. Place(backend, r)
    BY <1>1, <1>2, <1>3, Zenon DEF CheckFence, Good, Place, StepsOf, Alike
  <1>5. LockKept(backend, lock, late, c, r)
    BY <1>1, <1>2, <1>3, Zenon DEF CheckFence, Good, LockKept, Held
  <1>6. Checked(backend, objects, late, r)
    BY <1>2, <1>3, Zenon DEF Checked, FenceNames, Fenced, Alike
  <1>7. Seen(backend, objects, etag, writes, r)
    BY Zenon DEF Seen
  <1> QED
    BY <1>3, <1>4, <1>5, <1>6, <1>7, WithinStep, Zenon DEF CheckFence, Reads, Inv

\* The guard, on the local store and on Azure.
LEMMA GuardStep ==
  ASSUME Layout, Inv, NEW c \in Clients, LocalGuard(c) \/ ReadGuard(c)
  PROVE  Kept
PROOF
  <1>1. Good(backend, objects, etag, writes, lock, late, c, op[c])
    BY Zenon DEF Inv
  <1>2. PICK pc : /\ \/ pc = "unlock"
                     \/ pc = "write" /\ GuardHolds(op[c]) /\ (backend = "azure" => op[c].kind # "swap")
                     \/ /\ pc \in {"upload", "etag"} /\ GuardHolds(op[c]) /\ op[c].kind = "swap"
                        /\ backend = "azure" /\ (pc = "etag" => op[c].exp # Nil)
                  /\ Goes(c, pc)
    BY Zenon DEF LocalGuard, ReadGuard
  <1>3. PICK r : /\ Becomes(c, r) /\ IsCall(r) /\ Alike(r, op[c])
                 /\ r.pc = pc /\ r.n = op[c].n
    BY <1>2, GoesFacts
  <1>4. op[c].pc = "guard" /\ backend \in {"local", "azure"} /\ Reads
    BY Zenon DEF LocalGuard, ReadGuard
  <1>5. op[c].kind \in {"swap", "fenced", "create"} /\ Len(op[c].puts) > 0
    BY <1>1, <1>4 DEF Good, IsCall, Place, Shape, StepsOf
  <1>6. Place(backend, r)
    BY <1>1, <1>2, <1>3, <1>4, <1>5, Zenon DEF Good, Place, StepsOf, Alike
  <1>7. LockKept(backend, lock, late, c, r)
    BY <1>1, <1>2, <1>3, <1>4, Zenon DEF Good, LockKept, Held
  <1>8. Checked(backend, objects, late, r)
    BY <1>1, <1>2, <1>3, <1>4, Zenon DEF Good, Checked, GuardHolds, Fenced, Guarded, Alike
  <1>9. Seen(backend, objects, etag, writes, r)
    BY <1>4, Zenon DEF Seen
  <1> QED
    BY <1>3, <1>4, <1>6, <1>7, <1>8, <1>9, WithinStep, Zenon DEF Reads, Inv

\* What is known of a client that also notes a version.
LEMMA NotesFacts ==
  ASSUME Inv, NEW c \in Clients, NEW pc, NEW m \in Nat,
         Becomes(c, Saw(op[c], pc, m))
  PROVE  \E r : /\ Becomes(c, r) /\ IsCall(r) /\ Alike(r, op[c])
                /\ r.pc = pc /\ r.n = op[c].n /\ r.seen = m
PROOF
  <1>1. IsCall(op[c])
    BY Zenon DEF Inv, Good
  <1> WITNESS Saw(op[c], pc, m)
  <1> QED
    BY <1>1, Noted

\* Azure gives the version of the blob that was compared.
LEMMA EtagStep ==
  ASSUME Layout, Inv, NEW c \in Clients, ReadEtag(c)
  PROVE  Kept
PROOF
  <1>1. Good(backend, objects, etag, writes, lock, late, c, op[c])
    BY Zenon DEF Inv
  <1>2. op[c].pc = "etag" /\ backend = "azure" /\ Reads /\ op[c].kind = "swap" /\ op[c].guard \in Keys
    BY <1>1, Zenon DEF ReadEtag, Good, Place, Shape, Keys
  <1>3. etag[op[c].guard] \in Nat
    BY <1>2, Zenon DEF Inv, Store
  <1>4. PICK pc : pc \in {"unlock", "upload"} /\ Becomes(c, Saw(op[c], pc, etag[op[c].guard]))
    BY Zenon DEF ReadEtag
  <1>5. PICK r : /\ Becomes(c, r) /\ IsCall(r) /\ Alike(r, op[c])
                 /\ r.pc = pc /\ r.n = op[c].n
    BY <1>3, <1>4, NotesFacts
  <1>6. Place(backend, r)
    BY <1>1, <1>2, <1>4, <1>5, Zenon DEF Good, Place, StepsOf, Alike
  <1>7. LockKept(backend, lock, late, c, r)
    BY <1>1, <1>2, <1>4, <1>5, Zenon DEF Good, LockKept, Held
  <1>8. Checked(backend, objects, late, r)
    BY <1>1, <1>2, <1>4, <1>5, Zenon DEF Good, Checked, Fenced, Guarded, Alike
  <1>9. Seen(backend, objects, etag, writes, r)
    BY <1>2, Zenon DEF Seen
  <1> QED
    BY <1>2, <1>5, <1>6, <1>7, <1>8, <1>9, WithinStep, Zenon DEF Reads, Inv

\* Reading what is to be swapped, on S3 and on GCS.
LEMMA ReadStep ==
  ASSUME Layout, Inv, NEW c \in Clients, S3Read(c) \/ GcsReload(c)
  PROVE  Kept
PROOF
  <1> DEFINE m == Version(op[c].guard)
  <1>1. Good(backend, objects, etag, writes, lock, late, c, op[c])
    BY Zenon DEF Inv
  <1>2. /\ op[c].pc = "read" /\ backend \in {"s3", "gcs"} /\ Reads /\ op[c].kind = "swap"
        /\ op[c].guard \in Roots /\ op[c].guard \in Keys /\ op[c].guard # Nil
    BY <1>1, Zenon DEF S3Read, GcsReload, Good, Place, Shape, Keys, Layout
  <1>3. /\ m \in Nat /\ m <= writes
        /\ objects[op[c].guard] # Nil => m # 0 /\ m = etag[op[c].guard]
        /\ m = 0 => objects[op[c].guard] = Nil
    BY <1>2 DEF Inv, Store, Version
  <1>4. PICK pc : /\ \/ pc = "upload" /\ (backend = "s3" => GuardHolds(op[c]))
                        /\ (backend = "gcs" => m = 0 /\ op[c].exp = Nil)
                     \/ pc = "download" /\ m # 0
                     \/ pc = "done"
                  /\ Becomes(c, Saw(op[c], pc, m))
    BY <1>3, Zenon DEF S3Read, GcsReload, Version
  <1> HIDE DEF m
  <1>5. PICK r : /\ Becomes(c, r) /\ IsCall(r) /\ Alike(r, op[c])
                 /\ r.pc = pc /\ r.n = op[c].n /\ r.seen = m
    BY <1>3, <1>4, NotesFacts
  <1>6. Place(backend, r)
    BY <1>1, <1>2, <1>4, <1>5, Zenon DEF Good, Place, StepsOf, Alike
  <1>7. LockKept(backend, lock, late, c, r) /\ Checked(backend, objects, late, r)
    BY <1>2, Zenon DEF LockKept, Checked, Serial
  <1>8. Seen(backend, objects, etag, writes, r)
    BY <1>2, <1>3, <1>4, <1>5, Zenon DEF Seen, GuardHolds, Alike
  <1> QED
    BY <1>2, <1>5, <1>6, <1>7, <1>8, WithinStep, Zenon DEF Reads, Inv

\* GCS gives the content of the generation that was reloaded.
LEMMA DownloadStep ==
  ASSUME Layout, Inv, NEW c \in Clients, GcsDownload(c)
  PROVE  Kept
PROOF
  <1>1. Good(backend, objects, etag, writes, lock, late, c, op[c])
    BY Zenon DEF Inv
  <1>2. /\ op[c].pc = "download" /\ backend = "gcs" /\ Reads /\ op[c].kind = "swap"
        /\ op[c].guard \in Roots /\ op[c].guard # Nil
    BY <1>1, Zenon DEF GcsDownload, Good, Place, Shape, Keys, Layout
  <1>3. PICK pc : /\ (pc = "upload" /\ GuardHolds(op[c])) \/ pc = "done"
                  /\ Goes(c, pc)
    BY Zenon DEF GcsDownload
  <1>4. PICK r : /\ Becomes(c, r) /\ IsCall(r) /\ Alike(r, op[c])
                 /\ r.pc = pc /\ r.n = op[c].n /\ r.seen = op[c].seen
    BY <1>3, GoesFacts, Zenon
  <1>5. Place(backend, r)
    BY <1>1, <1>2, <1>3, <1>4, Zenon DEF Good, Place, StepsOf, Alike
  <1>6. LockKept(backend, lock, late, c, r) /\ Checked(backend, objects, late, r)
    BY <1>2, Zenon DEF LockKept, Checked, Serial
  <1>7. Seen(backend, objects, etag, writes, r)
    BY <1>1, <1>2, <1>3, <1>4, Zenon DEF Good, Seen, GuardHolds, Alike
  <1> QED
    BY <1>2, <1>4, <1>5, <1>6, <1>7, WithinStep, Zenon DEF Reads, Inv

-----------------------------------------------------------------------------
(* Steps that write *)

\* A write of c lands: it may if it is as it was checked, creates what is
\* absent, and is under the lock unless it needs none.
LEMMA LandStep ==
  ASSUME Layout, Inv, NEW c \in Clients, NEW pc, Lands(c, pc), Writes,
         op[c].pc \in {"write", "upload", "stage"}, op[c].pc # "write" => Len(op[c].puts) = 1,
         pc = IF op[c].pc = "write" /\ More(op[c]) THEN "write"
              ELSE IF op[c].pc = "stage" \/ backend \in {"s3", "gcs"} THEN "done" ELSE "unlock",
         AsChecked(c), op[c].kind = "create" => GuardHolds(op[c])
  PROVE  Kept
PROOF
  <1> DEFINE q == op[c]
             p == q.puts[q.n + 1]
             r == Wrote(q, pc, q.n + 1)
  <1>1. Good(backend, objects, etag, writes, lock, late, c, q)
    BY Zenon DEF Inv
  <1>2. /\ q.n \in Nat /\ q.n + 1 \in Nat /\ q.n + 1 \in 1 .. Len(q.puts) /\ Len(q.puts) \in Nat
        /\ q.n + 1 \in DOMAIN q.puts /\ q.puts \in Seq(PutSet)
    <2>1. q.puts \in Seq(PutSet) /\ q.n \in Nat
      BY <1>1, Zenon DEF Good, IsCall
    <2>2. Len(q.puts) \in Nat /\ DOMAIN q.puts = 1 .. Len(q.puts)
      BY <2>1, SeqElements, Zenon
    <2>3. q.n < Len(q.puts)
      <3>1. q.pc # "write" => q.n = 0 /\ Len(q.puts) = 1
        BY <1>1, <2>2 DEF Good, Place
      <3>2. q.pc = "write" => q.n < Len(q.puts)
        BY <1>1, Zenon DEF Good, Place
      <3>3. 0 < 1
        OBVIOUS
      <3> QED
        BY <3>1, <3>2, <3>3, Zenon
    <2>4. \A m, l \in Nat : m < l => m + 1 \in Nat /\ m + 1 \in 1 .. l
      OBVIOUS
    <2> QED
      BY <2>1, <2>2, <2>3, <2>4, Zenon
  <1>3. p \in PutSet
    BY <1>2, SeqElements, Zenon
  <1>4. p.key \in Keys /\ p.val \in Contents \cup {Nil}
    BY <1>3, Zenon DEF PutSet
  <1>5. /\ IsCall(r) /\ Alike(r, q) /\ r.pc = pc /\ r.n = q.n + 1 /\ r.seen = q.seen
    BY <1>1, <1>2, Counted DEF Good
  <1>6. /\ Becomes(c, r) /\ objects' = [objects EXCEPT ![p.key] = p.val]
        /\ etag' = [etag EXCEPT ![p.key] = writes + 1] /\ writes' = writes + 1
        /\ UNCHANGED <<backend, lock, late, told>>
    BY Zenon DEF Lands, Writes
  <1> HIDE DEF p, r
  <1>7. /\ q.kind = "swap" => p.key \in Roots
        /\ q.kind = "fenced" => p.key \in RecordKeys
        /\ q.kind = "create" => /\ p.key \in Immutables /\ p.key = q.guard /\ q.exp = Nil
                                /\ p = q.puts[1] /\ q.guard # Nil
        /\ q.kind = "put" => p.key \in Plain
        /\ q.kind \in {"swap", "fenced", "create", "put"}
    <2>1. Shape(q) /\ q.kind \in {"swap", "fenced", "create", "put"}
      BY <1>1, Zenon DEF Good, IsCall, Place
    <2>2. Len(q.puts) = 1 => p = q.puts[1]
      BY <1>2 DEF p
    <2>3. q.kind = "swap" => p.key \in Roots
      BY <2>1, <2>2, Zenon DEF Shape
    <2>4. q.kind = "fenced" => p.key \in RecordKeys
      BY <1>2, <2>1, Zenon DEF Shape, p
    <2>5. q.kind = "create" => /\ p.key \in Immutables /\ p.key = q.guard /\ q.exp = Nil
                               /\ p = q.puts[1] /\ q.guard # Nil
      BY <2>1, <2>2, Zenon DEF Shape, Layout, Keys
    <2>6. q.kind = "put" => p.key \in Plain
      BY <2>1, <2>2, Zenon DEF Shape
    <2> QED
      BY <2>1, <2>3, <2>4, <2>5, <2>6, Zenon
  <1>8. /\ q.pc = "upload" => q.kind = "swap"
        /\ q.pc = "stage" => q.kind = "put" \/ (q.kind = "create" /\ backend # "local")
        /\ q.pc = "write" => backend \in {"local", "azure"}
        /\ backend \in {"memory", "local", "azure", "s3", "gcs"}
    BY <1>1, Zenon DEF Good, Place, StepsOf, Inv, Store
  <1>9. p.key \in Immutables => objects[p.key] = Nil
    BY <1>7, Zenon DEF GuardHolds, Layout
  <1>10. Serial(backend, late) /\ q.pc \notin Held =>
             p.key \notin Roots /\ (backend = "local" => p.key \notin Immutables)
    BY <1>7, <1>8, Zenon DEF Held, Layout
  <1>11. /\ objects'[p.key] = p.val
         /\ \A j \in Keys : j # p.key => objects'[j] = objects[j]
    BY <1>4, <1>6, Zenon DEF Inv, Store
  <1>12. Shape(r)
    BY <1>1, <1>5, ShapeStays, Zenon DEF Good
  <1>13. Place(backend, r)
    <2>1. pc = "write" => q.n + 1 < Len(q.puts)
      BY Zenon DEF More
    <2>2. /\ pc \in {"write", "unlock", "done"}
          /\ pc \in {"write", "unlock"} => backend \in {"local", "azure"} /\ q.pc # "stage"
      BY <1>1, <1>8, Zenon DEF Good, Place, StepsOf
    <2> QED
      BY <1>1, <1>2, <1>5, <1>7, <1>8, <2>1, <2>2 DEF Good, Place, StepsOf, Alike
  <1>14. LockKept(backend, lock, late, c, r)
    BY <1>1, <1>5, <1>8, Zenon DEF Good, LockKept, Held
  <1>15. Checked(backend, objects', late, r)
    <2> SUFFICES ASSUME Serial(backend, late), pc = "write"
                 PROVE  Fenced(objects', r) /\ Guarded(objects', r)
      BY <1>5, Zenon DEF Checked
    <2>1. q.pc = "write" /\ Len(q.puts) # 1
      <3>1. q.pc = "write" /\ q.n + 1 < Len(q.puts)
        BY Zenon DEF More
      <3>2. \A a, b \in Nat : a + 1 < b => b # 1
        OBVIOUS
      <3> QED
        BY <1>2, <3>1, <3>2, Zenon
    <2>2. q.kind = "fenced" /\ p.key \in RecordKeys
      <3>2. q.kind \notin {"swap", "create", "put"}
        BY <1>1, <2>1, Zenon DEF Good, Shape
      <3> QED
        BY <1>7, <3>2, Zenon
    <2>3. Fenced(objects, q) /\ Guarded(objects, q)
      BY <1>1, <2>1, Zenon DEF Good, Checked
    <2>4. q.guard \in Roots \cup {Nil} /\ q.fence \in Roots \cup {Nil}
      BY <1>1, <2>2, Zenon DEF Good, Shape, IsCall
    <2>5. \A k \in Roots : objects'[k] = objects[k]
      BY <1>11, <2>2, Zenon DEF Layout, Keys
    <2> QED
      BY <1>5, <2>3, <2>4, <2>5, Zenon DEF Fenced, Guarded, Alike
  <1>16. Seen(backend, objects', etag', writes', r)
    BY <1>5, Zenon DEF Seen
  <1>17. Created(objects', r)
    BY <1>5, <1>7, <1>11, Zenon DEF Created, Alike
  <1>18. Good(backend, objects', etag', writes', lock, late, c, r)
    BY <1>5, <1>12, <1>13, <1>14, <1>15, <1>16, <1>17, Zenon DEF Good
  <1> QED
    BY <1>4, <1>6, <1>9, <1>10, <1>18, Landing, Zenon

\* The puts of a fenced or guarded write, or of a local swap.
LEMMA PutStep ==
  ASSUME Layout, Inv, NEW c \in Clients, LocalPut(c) \/ AzurePut(c)
  PROVE  Kept
PROOF
  <1>1. Good(backend, objects, etag, writes, lock, late, c, op[c])
    BY Zenon DEF Inv
  <1>2. /\ backend \in {"local", "azure"} /\ op[c].pc = "write" /\ Writes
        /\ Lands(c, IF More(op[c]) THEN "write" ELSE "unlock")
    BY Zenon DEF LocalPut, AzurePut
  <1>3. AsChecked(c)
    BY <1>1, <1>2, Zenon DEF Good, Checked, Serial, AsChecked, GuardHolds, FenceNames, Guarded, Fenced, Inv
  <1>4. op[c].kind = "create" => GuardHolds(op[c])
    BY <1>1, <1>2, Zenon DEF Good, Place, StepsOf, Checked, Serial, GuardHolds, Guarded
  <1> QED
    BY <1>2, <1>3, <1>4, LandStep, Zenon

\* An upload that lands, or that finds another version.
LEMMA UploadStep ==
  ASSUME Layout, Inv, NEW c \in Clients, AzureSwap(c) \/ S3Swap(c) \/ GcsSwap(c)
  PROVE  Kept
PROOF
  <1> DEFINE pc == IF backend = "azure" THEN "unlock" ELSE "done"
  <1>1. Good(backend, objects, etag, writes, lock, late, c, op[c])
    BY Zenon DEF Inv
  <1>2. backend \in {"azure", "s3", "gcs"} /\ op[c].pc = "upload" /\ Upload(c, pc)
    BY Zenon DEF AzureSwap, S3Swap, GcsSwap
  <1>3. op[c].kind = "swap" /\ op[c].guard \in Roots /\ op[c].fence = Nil /\ Len(op[c].puts) = 1
    BY <1>1, <1>2, Zenon DEF Good, Place, Shape
  <1>4. CASE Unchanged(op[c]) /\ Lands(c, pc) /\ Writes
    <2>1. AsChecked(c)
      <3>1. CASE backend = "azure"
        BY <1>1, <1>2, <3>1, Zenon DEF Good, Checked, Serial, AsChecked, GuardHolds, FenceNames, Guarded, Fenced, Inv
      <3>2. CASE backend \in {"s3", "gcs"}
        BY <1>1, <1>2, <1>3, <1>4, <3>2, Zenon DEF Good, Seen, Unchanged, AsChecked, GuardHolds, FenceNames
      <3> QED
        BY <1>2, <3>1, <3>2, Zenon
    <2> QED
      BY <1>2, <1>3, <1>4, <2>1, LandStep, Zenon
  <1>5. CASE ~Unchanged(op[c]) /\ Goes(c, pc) /\ Reads
    <2>1. PICK r : /\ Becomes(c, r) /\ IsCall(r) /\ Alike(r, op[c])
                   /\ r.pc = pc /\ r.n = op[c].n /\ r.seen = op[c].seen
      BY <1>5, GoesFacts
    <2>2. Place(backend, r)
      BY <1>1, <1>2, <1>3, <2>1, Zenon DEF Good, Place, StepsOf, Alike
    <2>3. LockKept(backend, lock, late, c, r)
      BY <1>1, <1>2, <2>1, Zenon DEF Good, LockKept, Held, Serial
    <2>4. Checked(backend, objects, late, r) /\ Seen(backend, objects, etag, writes, r)
      BY <2>1, Zenon DEF Checked, Seen
    <2> QED
      BY <1>5, <2>1, <2>2, <2>3, <2>4, WithinStep, Zenon DEF Reads, Inv
  <1> QED
    BY <1>2, <1>4, <1>5, Zenon DEF Upload

\* A staged stream is committed.
LEMMA CommitStep ==
  ASSUME Layout, Inv, NEW c \in Clients, op[c].pc = "stage", Commit(c)
  PROVE  Kept
PROOF
  <1>1. Good(backend, objects, etag, writes, lock, late, c, op[c])
    BY Zenon DEF Inv
  <1>2. /\ op[c].kind \in {"put", "create"} /\ Len(op[c].puts) = 1 /\ op[c].fence = Nil
        /\ op[c].kind = "put" => op[c].guard = Nil
    BY <1>1, Zenon DEF Good, Place, Shape
  <1>3. CASE Lands(c, "done") /\ Writes /\ (op[c].kind = "create" => GuardHolds(op[c]))
    <2>1. AsChecked(c)
      BY <1>2, <1>3, Zenon DEF AsChecked, GuardHolds, FenceNames
    <2> QED
      BY <1>2, <1>3, <2>1, LandStep, Zenon
  <1>4. CASE op[c].kind = "create" /\ Goes(c, "done") /\ Reads
    <2>1. PICK r : /\ Becomes(c, r) /\ IsCall(r) /\ Alike(r, op[c])
                   /\ r.pc = "done" /\ r.n = op[c].n /\ r.seen = op[c].seen
      BY <1>4, GoesFacts
    <2>2. Place(backend, r)
      BY <1>1, <1>2, <2>1, Zenon DEF Good, Place, StepsOf, Alike
    <2>3. LockKept(backend, lock, late, c, r) /\ Checked(backend, objects, late, r)
          /\ Seen(backend, objects, etag, writes, r)
      BY <2>1, Zenon DEF LockKept, Held, Checked, Seen
    <2> QED
      BY <1>4, <2>1, <2>2, <2>3, WithinStep, Zenon DEF Reads, Inv
  <1> QED
    BY <1>2, <1>3, <1>4, Zenon DEF Commit, Replaces

\* MemoryStore does it all in one step.
LEMMA MemoryStep ==
  ASSUME Layout, Inv, NEW c \in Clients, MemoryApply(c)
  PROVE  Kept
PROOF
  <1> DEFINE q == op[c]
             Landed(k) == {i \in DOMAIN q.puts : q.puts[i].key = k}
  <1>1. Good(backend, objects, etag, writes, lock, late, c, q)
    BY Zenon DEF Inv
  <1>2. backend = "memory" /\ q.pc = "apply" /\ UNCHANGED <<etag, writes>> /\ Writes
    BY Zenon DEF MemoryApply
  <1>3. CASE /\ GuardHolds(q) /\ FenceNames(q)
             /\ objects' = [k \in Keys |-> IF Landed(k) = {} THEN objects[k]
                                        ELSE q.puts[CHOOSE i \in Landed(k) : TRUE].val]
             /\ Becomes(c, Wrote(q, "done", Len(q.puts)))
    <2> DEFINE r == Wrote(q, "done", Len(q.puts))
    <2>1. q.puts \in Seq(PutSet) /\ Len(q.puts) \in Nat /\ \A i \in DOMAIN q.puts : q.puts[i] \in PutSet
      BY <1>1, SeqElements, Zenon DEF Good, IsCall
    <2>2. IsCall(r) /\ Alike(r, q) /\ r.pc = "done" /\ r.n = Len(q.puts)
      BY <1>1, <2>1, Counted DEF Good
    <2> HIDE DEF r
    <2>3. /\ op'[c] = r /\ DOMAIN op' = Clients
          /\ \A d \in Clients : d # c => op'[d] = op[d]
      BY <1>3, Zenon DEF Inv, Becomes, r
    <2>4. ASSUME NEW k \in Keys
          PROVE  /\ objects'[k] \in Contents \cup {Nil}
                 /\ (\A i \in DOMAIN q.puts : q.puts[i].key # k) => objects'[k] = objects[k]
                 /\ \/ objects'[k] = objects[k]
                    \/ \E i \in DOMAIN q.puts : q.puts[i].key = k /\ objects'[k] = q.puts[i].val
      <3>1. CASE Landed(k) = {}
        BY <1>3, <3>1, Zenon DEF Inv, Store
      <3>2. CASE Landed(k) # {}
        <4> DEFINE i == CHOOSE i \in Landed(k) : TRUE
        <4>1. i \in Landed(k)
          BY <3>2, Zenon
        <4>2. objects'[k] = q.puts[i].val
          BY <1>3, <3>2, Zenon
        <4> HIDE DEF i
        <4> QED
          BY <2>1, <4>1, <4>2, Zenon DEF PutSet
      <3> QED
        BY <3>1, <3>2, Zenon
    <2>5. objects' \in [Keys -> Contents \cup {Nil}]
      BY <1>3, <2>4, Zenon
    <2>6. Store(backend, objects', etag', writes')
      BY <1>2, <2>5, Zenon DEF Inv, Store, Writes
    <2>7. \A k \in Immutables : objects[k] # Nil => objects'[k] = objects[k]
      <3> SUFFICES ASSUME NEW k \in Immutables, objects[k] # Nil
                   PROVE  \A i \in DOMAIN q.puts : q.puts[i].key # k
        BY <2>4, Zenon DEF Keys
      <3>1. q.kind \in {"swap", "fenced", "create"} /\ Shape(q)
        BY <1>1, <1>2, Zenon DEF Good, IsCall, Place, StepsOf
      <3>2. DOMAIN q.puts = 1 .. Len(q.puts)
        BY <2>1, SeqElements, Zenon
      <3>3. CASE q.kind = "create"
        <4>1. q.guard # Nil /\ objects[q.guard] = Nil
          BY <1>3, <3>1, <3>3, Zenon DEF Shape, GuardHolds, Layout, Keys
        <4> QED
          BY <3>1, <3>2, <3>3, <4>1 DEF Shape
      <3>4. CASE q.kind = "swap"
        BY <3>1, <3>2, <3>4 DEF Shape, Layout
      <3>5. CASE q.kind = "fenced"
        BY <3>1, <3>5 DEF Shape, Layout
      <3> QED
        BY <3>1, <3>3, <3>4, <3>5, Zenon
    <2>8. Created(objects', r)
      <3> SUFFICES ASSUME q.kind = "create"
                   PROVE  objects'[q.guard] = q.puts[1].val
        BY <2>2, Zenon DEF Created, Alike
      <3>1. q.guard \in Keys /\ Len(q.puts) = 1 /\ q.puts[1].key = q.guard
        BY <1>1, Zenon DEF Good, Shape, Keys
      <3>2. DOMAIN q.puts = {1}
        BY <2>1, <3>1, SeqElements
      <3>3. Landed(q.guard) = {1}
        BY <3>1, <3>2, Zenon
      <3> QED
        BY <1>3, <3>1, <3>3, Zenon
    <2>9. Good(backend, objects', etag', writes', lock, late, c, r)
      <3>1. Shape(r)
        BY <1>1, <2>2, ShapeStays, Zenon DEF Good
      <3>2. Place(backend, r)
        BY <1>1, <1>2, <2>1, <2>2 DEF Good, Place, StepsOf, Alike
      <3>3. LockKept(backend, lock, late, c, r) /\ Checked(backend, objects', late, r)
            /\ Seen(backend, objects', etag', writes', r)
        BY <1>2, <2>2, Zenon DEF LockKept, Held, Checked, Seen
      <3> QED
        BY <2>2, <2>8, <3>1, <3>2, <3>3, Zenon DEF Good
    <2>10. ASSUME NEW d \in Clients, d # c
           PROVE  Good(backend, objects', etag', writes', lock, late, d, op[d])
      <3>1. Good(backend, objects, etag, writes, lock, late, d, op[d])
        BY Zenon DEF Inv
      <3>2. Checked(backend, objects', late, op[d]) /\ Seen(backend, objects', etag', writes', op[d])
        BY <1>2, Zenon DEF Checked, Serial, Seen
      <3>3. Created(objects', op[d])
        BY <2>7, <3>1, Zenon DEF Good, Shape, Created
      <3> QED
        BY <3>1, <3>2, <3>3, Zenon DEF Good
    <2>11. Told(objects', told)
      BY <2>7, Zenon DEF Inv, Told
    <2>12. Inv'
      BY <1>2, <2>3, <2>6, <2>9, <2>10, <2>11, Zenon DEF Inv, Writes
    <2>13. \A d \in Clients : op[d].n \in Nat
      BY Zenon DEF Inv, Good, IsCall
    <2>14. LandsStep
      BY <1>3, <2>3, <2>13 DEF LandsStep, AsChecked
    <2> QED
      BY <2>12, <2>14, Zenon DEF Kept
  <1>4. CASE Goes(c, "done") /\ UNCHANGED objects
    <2>1. PICK r : /\ Becomes(c, r) /\ IsCall(r) /\ Alike(r, q)
                   /\ r.pc = "done" /\ r.n = q.n
      BY <1>4, GoesFacts
    <2>2. Place(backend, r)
      BY <1>1, <1>2, <2>1, Zenon DEF Good, Place, StepsOf, Alike
    <2>3. LockKept(backend, lock, late, c, r) /\ Checked(backend, objects, late, r)
          /\ Seen(backend, objects, etag, writes, r)
      BY <2>1, Zenon DEF LockKept, Held, Checked, Seen
    <2> QED
      BY <1>2, <1>4, <2>1, <2>2, <2>3, WithinStep, Zenon DEF Writes, Inv
  <1> QED
    BY <1>3, <1>4, Zenon DEF MemoryApply

-----------------------------------------------------------------------------
(* The end of a call, and failures *)

\* The lock is given up, by its holder or by one that had lost it.
LEMMA UnlockStep ==
  ASSUME Layout, Inv, NEW c \in Clients, Unlock(c)
  PROVE  Kept
PROOF
  <1>1. Good(backend, objects, etag, writes, lock, late, c, op[c])
    BY Zenon DEF Inv
  <1>2. op[c].pc = "unlock" /\ UNCHANGED <<backend, objects, etag, writes, late, told>>
    BY Zenon DEF Unlock
  <1>3. CASE lock \in {c, Nil}
    <2>1. lock' = Nil /\ Goes(c, "done")
      BY <1>3, Zenon DEF Unlock
    <2>2. PICK r : /\ Becomes(c, r) /\ IsCall(r) /\ Alike(r, op[c])
                   /\ r.pc = "done" /\ r.n = op[c].n
      BY <2>1, GoesFacts
    <2>3. Place(backend, r)
      BY <1>1, <1>2, <2>2, Zenon DEF Good, Place, StepsOf, Alike
    <2>4. LockKept(backend, lock', late, c, r) /\ Checked(backend, objects, late, r)
          /\ Seen(backend, objects, etag, writes, r)
      BY <2>2, Zenon DEF LockKept, Held, Checked, Seen
    <2> QED
      BY <1>2, <1>3, <2>1, <2>2, <2>3, <2>4, WithinStep, Zenon
  <1>4. CASE lock \notin {c, Nil}
    BY <1>2, <1>4, EndStep, Zenon DEF Unlock, Inv
  <1> QED
    BY <1>3, <1>4, Zenon

\* A call returns, or goes on to verify what another created.
LEMMA ReturnStep ==
  ASSUME Layout, Inv, NEW c \in Clients, Return(c)
  PROVE  Kept
PROOF
  <1>1. Good(backend, objects, etag, writes, lock, late, c, op[c])
    BY Zenon DEF Inv
  <1>2. op[c].pc = "done" /\ UNCHANGED <<backend, objects, etag, writes, lock, late>>
    BY Zenon DEF Return
  <1>3. CASE op[c].kind = "create" /\ op[c].n = 0
    <2>1. Goes(c, "verify") /\ told' = told
      BY <1>3, Zenon DEF Return
    <2>2. PICK r : /\ Becomes(c, r) /\ IsCall(r) /\ Alike(r, op[c])
                   /\ r.pc = "verify" /\ r.n = op[c].n
      BY <2>1, GoesFacts
    <2>3. Place(backend, r)
      BY <1>1, <1>2, <1>3, <2>2, Zenon DEF Good, Place, StepsOf, Alike
    <2>4. LockKept(backend, lock, late, c, r) /\ Checked(backend, objects, late, r)
          /\ Seen(backend, objects, etag, writes, r)
      BY <2>2, Zenon DEF LockKept, Held, Checked, Seen
    <2> QED
      BY <1>2, <2>1, <2>2, <2>3, <2>4, WithinStep, Zenon DEF Inv
  <1>4. CASE op[c].kind = "create" /\ op[c].n # 0
    <2>1. Becomes(c, NoCall) /\ told' = told \cup {op[c].puts[1]}
      BY <1>4, Zenon DEF Return
    <2>2. op[c].n > 0
      BY <1>1, <1>4 DEF Good, IsCall
    <2>3. Told(objects, {op[c].puts[1]})
      BY <1>1, <1>4, <2>2, Zenon DEF Good, Shape, Created, Told
    <2>4. Told(objects, told')
      BY <2>1, <2>3, Zenon DEF Inv, Told
    <2> QED
      BY <1>2, <2>1, <2>4, EndStep, Zenon DEF Inv
  <1>5. CASE op[c].kind # "create"
    BY <1>2, <1>5, EndStep, Zenon DEF Return, Inv
  <1> QED
    BY <1>3, <1>4, <1>5, Zenon

\* verify reports an artifact as stored only if its content is there.
LEMMA VerifyStep ==
  ASSUME Layout, Inv, NEW c \in Clients, Verify(c)
  PROVE  Kept
PROOF
  <1>1. Good(backend, objects, etag, writes, lock, late, c, op[c])
    BY Zenon DEF Inv
  <1>2. /\ op[c].pc = "verify" /\ UNCHANGED <<backend, objects, etag, writes, lock, late>>
        /\ Becomes(c, NoCall)
    BY Zenon DEF Verify
  <1>3. op[c].kind = "create" /\ op[c].guard \in Immutables /\ op[c].puts[1].key = op[c].guard
        /\ op[c].puts[1].val # Nil
    BY <1>1, <1>2, Zenon DEF Good, Shape, Place
  <1>4. Told(objects, told')
    <2>1. CASE objects[op[c].guard] = op[c].puts[1].val
      <3>1. Told(objects, {op[c].puts[1]})
        BY <1>3, <2>1, Zenon DEF Told
      <3>2. told' = told \cup {op[c].puts[1]}
        BY <2>1, Zenon DEF Verify
      <3> QED
        BY <3>1, <3>2, Zenon DEF Inv, Told
    <2>2. CASE objects[op[c].guard] # op[c].puts[1].val
      BY <2>2, Zenon DEF Verify, Inv
    <2> QED
      BY <2>1, <2>2, Zenon
  <1> QED
    BY <1>2, <1>4, EndStep, Zenon DEF Inv

\* A call raises, or its process dies.
LEMMA FailStep ==
  ASSUME Layout, Inv, NEW c \in Clients, Raise(c) \/ ClientCrash(c)
  PROVE  Kept
PROOF
  <1>1. /\ Becomes(c, NoCall) /\ UNCHANGED <<backend, objects, etag, writes, late, told>>
        /\ lock' = lock \/ (lock' = Nil /\ lock = c)
    BY Zenon DEF Raise, ClientCrash
  <1> QED
    BY <1>1, EndStep, Zenon DEF Inv

\* A lease that runs out leaves its holder without the lock, and is noted.
LEMMA LapseStep ==
  ASSUME Layout, Inv, Lapse
  PROVE  Kept
PROOF
  <1>1. /\ backend = "azure" /\ lock # Nil /\ lock' = Nil /\ late' = (late \/ HoldsLock(lock))
        /\ UNCHANGED <<backend, objects, etag, writes, op, told>>
    BY Zenon DEF Lapse
  <1>2. ASSUME NEW d \in Clients
        PROVE  Good(backend, objects, etag, writes, lock', late', d, op[d])
    <2>1. Good(backend, objects, etag, writes, lock, late, d, op[d])
      BY Zenon DEF Inv
    <2>2. LockKept(backend, lock', late', d, op[d])
      BY <1>1, <2>1, Zenon DEF Good, LockKept, Serial, HoldsLock
    <2>3. Checked(backend, objects, late', op[d])
      BY <1>1, <2>1, Zenon DEF Good, Checked, Serial
    <2> QED
      BY <2>1, <2>2, <2>3, Zenon DEF Good
  <1>3. late' \in BOOLEAN
    BY <1>1, Zenon
  <1>4. Inv'
    BY <1>1, <1>2, <1>3, Zenon DEF Inv
  <1>5. \A d \in Clients : op[d].n \in Nat
    BY Zenon DEF Inv, Good, IsCall
  <1>6. LandsStep
    BY <1>1, <1>5 DEF LandsStep
  <1> QED
    BY <1>4, <1>6, Zenon DEF Kept

\* A store as build_store finds it.
LEMMA Begins ==
  ASSUME Layout, StoreInit
  PROVE  Inv
PROOF
  <1>1. backend \in {"memory", "local", "azure", "s3", "gcs"}
    BY Zenon DEF StoreInit, Layout
  <1>2. Store(backend, objects, etag, writes)
    BY <1>1 DEF StoreInit, Store
  <1>3. \A c \in Clients : Good(backend, objects, etag, writes, lock, late, c, op[c])
    BY IdleIsGood, Zenon DEF StoreInit
  <1> QED
    BY <1>2, <1>3, Zenon DEF StoreInit, Inv, Told

\* Every step keeps the invariant, and lets only checked writes land.
LEMMA NextKeeps ==
  ASSUME Layout, Inv, StoreNext
  PROVE  Kept
PROOF
  <1>1. CASE Lapse
    BY <1>1, LapseStep, Zenon
  <1>2. ASSUME NEW c \in Clients, Call(c) \/ Locked(c) \/ Unlocked(c) \/ Ends(c)
        PROVE  Kept
    <2>1. CASE Call(c)
      BY <2>1, CallStep, Zenon
    <2>2. CASE Locked(c)
      BY <2>2, AcquireStep, FenceStep, GuardStep, EtagStep, PutStep, UploadStep, UnlockStep, Zenon
         DEF Locked, CasLock, MutationLock, LocalFence, ReadFence
    <2>3. CASE Unlocked(c)
      <3>1. Replaces(c) => Commit(c)
        BY Zenon DEF Commit
      <3> QED
        BY <2>3, <3>1, MemoryStep, ReadStep, DownloadStep, UploadStep, CommitStep, Zenon
           DEF Unlocked, MemoryCommit, LocalCommit, AzureCommit, S3Commit, GcsCommit
    <2>4. CASE Ends(c)
      BY <2>4, ReturnStep, VerifyStep, FailStep, Zenon DEF Ends
    <2> QED
      BY <1>2, <2>1, <2>2, <2>3, <2>4, Zenon
  <1> QED
    BY <1>1, <1>2, Zenon DEF StoreNext

\* And so does a step of other components.
LEMMA StutterKeeps ==
  ASSUME Inv, UNCHANGED storeVars
  PROVE  Inv'
BY Zenon DEF Inv, storeVars

-----------------------------------------------------------------------------

\* The inductive invariant: under the lock of the local store, and under a lease
\* of Azure that did not run out, what a caller has checked stays true until it
\* writes; on S3 and GCS an object of the version seen still has the content
\* compared; and a created artifact keeps its content.
THEOREM StoreInductive == StoreSpec => []Inv
PROOF
  <1>1. StoreInit => Inv
    BY Begins, LayoutAssumption, Zenon
  <1>2. Inv /\ [StoreNext]_storeVars => Inv'
    BY NextKeeps, StutterKeeps, LayoutAssumption, Zenon DEF Kept
  <1> QED
    BY <1>1, <1>2, PTL DEF StoreSpec

\* put_stream_if_absent, on every store: an artifact reported as stored is there
\* with the content of the caller that was told so.
THEOREM CreatedStaysTold == StoreSpec => []ToldIsStored
PROOF
  <1>1. Inv => ToldIsStored
    BY Zenon DEF Inv, Told, ToldIsStored
  <1> QED
    BY <1>1, StoreInductive, PTL

\* compare_and_swap, fenced_put and the guarded batches, on every store that has
\* them: a write lands only while its guard and its fence hold, unless Azure's
\* lease had run out on a caller at work.
THEOREM ConditionsHold == StoreSpec => LandsAsChecked
PROOF
  <1>1. Inv /\ [StoreNext]_storeVars => [\A c \in Clients : op'[c].n > op[c].n =>
                                   late \/ (GuardHolds(op[c]) /\ FenceNames(op[c]))]_storeVars
    BY NextKeeps, LayoutAssumption, Zenon DEF Kept, LandsStep, AsChecked
  <1> QED
    BY <1>1, StoreInductive, PTL DEF StoreSpec, LandsAsChecked

-----------------------------------------------------------------------------
(* Range requests *)

\* The bounds computed for a readable header enclose the bytes it asks for.
LEMMA BoundsAreAsked ==
    ASSUME NEW total \in Nat, NEW h \in Headers(Nat), Readable(h)
    PROVE  /\ FirstByte(h, total) \in Nat /\ LastByte(h, total) \in Int
           /\ LastByte(h, total) < total
           /\ AskedFor(h, total) = FirstByte(h, total) .. LastByte(h, total)
<1>1. /\ h.a \in Nat /\ h.b \in Nat
      /\ h.form \in {"span", "open"} \/ (h.form = "suffix" /\ h.a > 0)
  BY Zenon DEF Headers, Readable
<1>2. CASE h.form = "span"
  <2>1. AskedFor(h, total) = {i \in 0 .. total - 1 : h.a <= i /\ i <= h.b}
    BY <1>2, Zenon DEF AskedFor
  <2>2. FirstByte(h, total) = h.a /\ LastByte(h, total) = Smaller(h.b, total - 1)
    BY <1>2, Zenon DEF FirstByte, LastByte
  <2> QED
    BY <1>1, <2>1, <2>2 DEF Smaller
<1>3. CASE h.form = "open"
  <2>1. AskedFor(h, total) = {i \in 0 .. total - 1 : h.a <= i}
    BY <1>3, Zenon DEF AskedFor
  <2>2. FirstByte(h, total) = h.a /\ LastByte(h, total) = total - 1
    BY <1>3, Zenon DEF FirstByte, LastByte
  <2> QED
    BY <1>1, <2>1, <2>2
<1>4. CASE h.form = "suffix"
  <2>1. AskedFor(h, total) = {i \in 0 .. total - 1 : total - h.a <= i}
    BY <1>4, Zenon DEF AskedFor
  <2>2. FirstByte(h, total) = total - Smaller(h.a, total) /\ LastByte(h, total) = total - 1
    BY <1>4, Zenon DEF FirstByte, LastByte
  <2> QED
    BY <1>1, <2>1, <2>2 DEF Smaller
<1> QED
  BY <1>1, <1>2, <1>3, <1>4, Zenon

\* A header that is not read as a range, bytes=-0 among them, asks for nothing.
LEMMA UnreadableAsksNothing ==
    ASSUME NEW total \in Nat, NEW h \in Headers(Nat), ~ Readable(h)
    PROVE  AskedFor(h, total) = {} /\ h.form \notin {"span", "open"}
<1>1. h.a \in Nat /\ h.form \notin {"span", "open"} /\ (h.form = "suffix" => h.a = 0)
  BY DEF Headers, Readable
<1>2. CASE h.form = "suffix"
  <2>1. AskedFor(h, total) = {i \in 0 .. total - 1 : total - h.a <= i}
    BY <1>2, Zenon DEF AskedFor
  <2> QED
    BY <1>1, <1>2, <2>1
<1>3. CASE h.form # "suffix"
  BY <1>1, <1>3, Zenon DEF AskedFor
<1> QED
  BY <1>1, <1>2, <1>3, Zenon

\* The three fronts answer every Range header, on objects of every size, with
\* exactly the bytes that it asks for: _make_object_response of the Python
\* router, _parse_range of a mount and parse_range_header of the native Agent.
THEOREM RangesExact ==
    \A total \in Nat, h \in Headers(Nat) : RangesAreExact(h, total)
<1> SUFFICES ASSUME NEW total \in Nat, NEW h \in Headers(Nat)
             PROVE  RangesAreExact(h, total)
  BY Zenon
<1> DEFINE from == FirstByte(h, total)
           to   == LastByte(h, total)
<1>1. h.a \in Nat /\ h.b \in Nat
  BY Zenon DEF Headers
<1>2. CASE ~ Readable(h)
  <2>1. AskedFor(h, total) = {} /\ h.form \notin {"span", "open"}
    BY <1>2, UnreadableAsksNothing, Zenon
  <2>2. /\ RouterRange(h, total).status # 206
        /\ MountRange(h, total).status # 206
        /\ NativeRange(h, total).status # 206
    BY <1>2 DEF RouterRange, MountRange, NativeRange, Whole, NotSatisfiable
  <2> QED
    BY <2>1, <2>2, Zenon DEF RangesAreExact, RangeAnswers
<1>3. CASE Readable(h)
  <2>1. /\ from \in Nat /\ to \in Int /\ to < total
        /\ AskedFor(h, total) = from .. to
    BY <1>3, BoundsAreAsked, Zenon
  <2>2. h.form \in {"span", "open"} => from = h.a
    BY Zenon DEF FirstByte
  <2>3. h.form \in {"span", "open", "suffix"}
    BY <1>3, Zenon DEF Readable
  <2> HIDE DEF from, to
  <2>4. RangeAnswers(RouterRange(h, total), h, total)
    <3>1. RouterRange(h, total) =
              IF h.form \in {"span", "open"} /\ h.a >= total THEN NotSatisfiable
              ELSE IF from <= to THEN Partial(from, to) ELSE Whole(total)
      BY <1>3, <2>3, Zenon DEF RouterRange, from, to
    <3> QED
      BY <1>1, <2>1, <2>2, <3>1 DEF RangeAnswers, NotSatisfiable, Partial, Whole
  <2>5. RangeAnswers(MountRange(h, total), h, total)
    <3>1. MountRange(h, total) =
              IF from >= total THEN NotSatisfiable
              ELSE IF from > to THEN Whole(total) ELSE Partial(from, to)
      BY <1>3, Zenon DEF MountRange, from, to
    <3> QED
      BY <1>1, <2>1, <2>2, <3>1 DEF RangeAnswers, NotSatisfiable, Partial, Whole
  <2>6. ASSUME total > 0 PROVE RangeAnswers(NativeRange(h, total), h, total)
    <3>1. NativeRange(h, total) =
              IF h.form # "suffix" /\ (h.a >= total \/ to < h.a) THEN NotSatisfiable
              ELSE Partial(from, to)
      BY <1>3, <2>3, Zenon DEF NativeRange, from, to
    <3>2. h.form = "suffix" => from <= to
      <4>1. h.form = "suffix" => h.a > 0
        BY <1>3, Zenon DEF Readable
      <4> QED
        BY <1>1, <2>6, <4>1 DEF from, to, FirstByte, LastByte, Smaller
    <3> QED
      BY <1>1, <2>1, <2>2, <2>3, <3>1, <3>2 DEF RangeAnswers, NotSatisfiable, Partial
  <2> QED
    BY <2>4, <2>5, <2>6, Zenon DEF RangesAreExact
<1> QED
  BY <1>2, <1>3, Zenon
=============================================================================
