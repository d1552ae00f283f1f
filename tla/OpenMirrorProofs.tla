-------------------------- MODULE OpenMirrorProofs --------------------------
(***************************************************************************)
(* Proofs about OpenMirror for any table, any page size, any number of     *)
(* source transactions, failures, resets and edits, and both strategies,   *)
(* when one task publishes the table (Alone).                              *)
(*                                                                         *)
(* FilesInv relates the numbers of the landing zone to the pending batch   *)
(* of the saved state and of the task's copy of it; it gives               *)
(* FilesAreAppended.  ContentInv adds what a state says was published; it  *)
(* gives StateMatchesLanded.  First the facts about batches, paths and     *)
(* rows and every step's proof for FilesInv, then every step's proof for   *)
(* ContentInv, and the theorems on the landing zone and the saved state.   *)
(***************************************************************************)
EXTENDS OpenMirror, Sequences, TLAPS

\* One task publishes the table: the scheduler's loop, which awaits one cycle
\* before it starts the next.
Alone == \A p, q \in Publishers : p = q

\* The steps between the load of the state and the end of the table.
Working == {"read", "prepare", "save", "write", "finalize"}

\* A pending batch's number is past every other file and every applied one.
PathOk(s, D, ap) ==
    s.pend # NoPending =>
        /\ \A i \in D : i <= s.pend.path
        /\ s.pend.path \in D \/ s.pend.path > ap

\* How the task r, with its copy of the state, stands to the saved state s
\* and the files D: it knows whether the pending file is there, and only a
\* batch it is about to save differs from the saved one.
InStep(r, s, D, lo) ==
    r.pc \in Working =>
        /\ r.pc \in {"save", "write", "finalize"} => r.st.pend # NoPending
        /\ r.st.pend # NoPending => (r.pc = "finalize" <=> r.st.pend.path \in D)
        /\ IF r.st.pend # NoPending /\ r.pc # "save"
             THEN s = r.st \/ (s = NoState /\ lo > 0)
             ELSE s = NoState \/ s.pend = NoPending

\* Between the two deletions of a drop the table is gone.
Forgetting(r, D, mi) == r.pc = "forget" => D = {} /\ mi = EmptyTable

FolderOk ==
    /\ \E n \in DOMAIN files \cup {0} : \A i \in DOMAIN files : i <= n
    /\ applied \in DOMAIN files \cup {0}

TaskOk(r, s, D, ap, mi, lo) ==
    /\ r.pc \in Working => PathOk(r.st, D, ap)
    /\ InStep(r, s, D, lo)
    /\ Forgetting(r, D, mi)

FilesInv ==
    /\ TypeOK
    /\ FolderOk
    /\ st # NoState => PathOk(st, DOMAIN files, applied)
    /\ \A p \in Publishers :
           TaskOk(pub[p], st, DOMAIN files, applied, mirror, loads)
-----------------------------------------------------------------------------
(* What a state says was published *)

\* Every source row up to the cursor c is in the table ld.
Upto(c, ld, sr) ==
    \A k \in Keys : (sr[k] # 0 /\ ~ Precedes(c, <<sr[k], k>>)) => ld[k] = sr[k]

\* A page brings every row between its two cursors that has not changed since.
Covers(prior, next, rows, sr) ==
    /\ Precedes(prior, next)
    /\ \A k \in Keys :
           (sr[k] # 0 /\ ~ Precedes(next, <<sr[k], k>>)) =>
               IF k \in DOMAIN rows THEN rows[k] = sr[k]
               ELSE ~ Precedes(prior, <<sr[k], k>>)

WatermarkOk(s, ld, sr, ch, D) ==
    /\ s.cursor[1] <= ch
    /\ Upto(s.cursor, ld, sr)
    /\ s.pend # NoPending =>
           /\ s.pend.prior = s.cursor
           /\ s.pend.next[1] <= ch
           /\ Covers(s.pend.prior, s.pend.next, s.pend.batch.rows, sr)
           /\ s.pend.path \in D => Upto(s.pend.next, ld, sr)

\* The keys K are the table ld, except for what an initial load left there.
Agrees(K, ld, lo) == \A k \in Keys : ld[k] = K[k] \/ (lo > 0 /\ K[k] = 0)

\* The pending batch takes the keys of s to its own.
Bridges(s) ==
    \A k \in Keys :
        IF k \in DOMAIN s.pend.batch.rows
        THEN s.pend.batch.rows[k] = s.pend.keys[k]
        ELSE s.pend.keys[k] = s.keys[k]

SnapshotOk(s, ld, D, lo) ==
    /\ ~ s.init => s.keys = EmptyTable
    /\ s.pend # NoPending => Bridges(s)
    /\ IF s.pend # NoPending /\ s.pend.path \in D
         THEN Agrees(s.pend.keys, ld, lo) ELSE Agrees(s.keys, ld, lo)

StateOk(s, how, ld, sr, ch, D, lo) ==
    IF how = "snapshot" THEN SnapshotOk(s, ld, D, lo)
    ELSE WatermarkOk(s, ld, sr, ch, D)

\* The rows the task has read and not yet prepared.
Fetched(r, sr, ch) ==
    (r.pc = "prepare" /\ r.st.pend = NoPending /\ DOMAIN r.rows # {}) =>
        /\ NextCursor(r.rows)[1] <= ch
        /\ Covers(r.st.cursor, NextCursor(r.rows), r.rows, sr)

SavedOk ==
    /\ st # NoState =>
           StateOk(st, strategy, Landed, src, changes, DOMAIN files, loads)
    /\ (st = NoState /\ strategy = "snapshot") => Agrees(EmptyTable, Landed, loads)

LoadedOk(p) ==
    /\ pub[p].pc \in Working =>
           StateOk(pub[p].st, strategy, Landed, src, changes, DOMAIN files, loads)
    /\ strategy = "watermark" => Fetched(pub[p], src, changes)

ContentInv ==
    /\ strategy = "watermark" => \A k \in Keys : src[k] <= changes
    /\ ~ torn => SavedOk /\ \A p \in Publishers : LoadedOk(p)
-----------------------------------------------------------------------------
(* Types *)

\* What the assumption says of each constant.
LEMMA Constants ==
    /\ Cardinality(Keys) \in Nat /\ Keys = 1 .. Cardinality(Keys)
    /\ IsFiniteSet(Keys) /\ Keys \in SUBSET Nat
    /\ MaxContent \in Nat /\ MaxChanges \in Nat
    /\ Contents \in SUBSET Nat /\ 0 \in Contents
    /\ \A n \in 0 .. MaxChanges : n \in Contents
    /\ \A n \in 0 .. MaxContent : n \in Contents
<1>1. IsFiniteSet(Keys) /\ Keys = 1 .. Cardinality(Keys)
  BY OpenMirrorAssumption
<1>2. Cardinality(Keys) \in Nat
  BY OpenMirrorAssumption
<1>3. MaxContent \in Nat /\ MaxChanges \in Nat
  BY OpenMirrorAssumption
<1>4. /\ Contents \in SUBSET Nat /\ 0 \in Contents
      /\ \A n \in 0 .. MaxChanges : n \in Contents
      /\ \A n \in 0 .. MaxContent : n \in Contents
  BY <1>3 DEF Contents
<1>5. Keys \in SUBSET Nat
  BY <1>1, <1>2
<1> QED
  BY <1>1, <1>2, <1>3, <1>4, <1>5, Zenon

\* Two facts about sets that OpenMirrorProofs takes from the library: a
\* bounded set of naturals has a greatest element, and a set of keys has no
\* more elements than one that contains it.
Library ==
    /\ \A S \in SUBSET Nat : \A n \in Nat :
           (S # {} /\ \A k \in S : k <= n) => \E j \in S : \A k \in S : k <= j
    /\ \A T \in SUBSET Keys : \A U \in SUBSET T :
           /\ Cardinality(T) \in Nat /\ Cardinality(U) \in Nat
           /\ Cardinality(U) <= Cardinality(T)

\* A bounded, nonempty set of file indexes has a last one.
LEMMA GreatestOf ==
    ASSUME Library, NEW S \in SUBSET Nat, S # {}, NEW n \in Nat, \A k \in S : k <= n
    PROVE  \E j \in S : \A k \in S : k <= j
BY Zenon DEF Library

\* A set of keys and its subsets have a size, and the subsets the smaller one.
LEMMA Smaller ==
    ASSUME Library, NEW T \in SUBSET Keys, NEW U \in SUBSET T
    PROVE  /\ Cardinality(T) \in Nat /\ Cardinality(U) \in Nat
           /\ Cardinality(U) <= Cardinality(T)
BY Zenon DEF Library

\* Max is the greatest element where there is one.
LEMMA MaxIs ==
    ASSUME NEW S \in SUBSET Nat, NEW m \in S, \A k \in S : k <= m
    PROVE  Max(S) = m
<1>1. \A k \in S : m >= k
  OBVIOUS
<1>2. Max(S) \in S /\ \A k \in S : Max(S) >= k
  BY <1>1, Zenon DEF Max
<1>3. Max(S) \in Nat /\ Max(S) <= m /\ Max(S) >= m
  BY <1>2, Zenon
<1> QED
  BY <1>3

\* reserve_batch_path gives a number past every file.
LEMMA NextIndex ==
    ASSUME TypeOK, FolderOk
    PROVE  /\ NextFileIndex \in Nat \ {0}
           /\ \A i \in DOMAIN files : i < NextFileIndex
           /\ NextFileIndex > applied
<1> DEFINE S == DOMAIN files \cup {0}
<1>1. S \in SUBSET Nat /\ applied \in S
  BY DEF TypeOK, FolderOk
<1>2. PICK m \in S : \A i \in DOMAIN files : i <= m
  BY DEF FolderOk
<1>3. \A i \in S : i <= m
  BY <1>1, <1>2
<1> HIDE DEF S
<1>4. Max(S) = m
  BY <1>1, <1>3, MaxIs
<1>5. NextFileIndex = m + 1
  BY <1>4 DEF S, NextFileIndex
<1>6. m \in Nat /\ applied \in Nat /\ applied <= m
  BY <1>1, <1>3
<1>7. \A i \in DOMAIN files : i \in Nat /\ i <= m
  BY <1>1, <1>2 DEF S
<1> QED
  BY <1>5, <1>6, <1>7

\* The empty table, page, payload and state are of their types.
LEMMA EmptyTypes ==
    /\ EmptyTable \in Tables
    /\ NoRows \in RowSets
    /\ NoPayload \in Batches
    /\ PublishState \in States
    /\ PublishState.pend = NoPending
<1>1. EmptyTable \in Tables
  BY Constants DEF EmptyTable, Tables
<1>2. NoRows \in RowSets
  <2>1. NoRows \in [{} -> Contents] /\ {} \in SUBSET Keys
    BY DEF NoRows
  <2> QED
    BY <2>1 DEF RowSets
<1>3. NoPayload \in Batches
  BY <1>2 DEF NoPayload, Batches
<1>4. NoCursor \in Cursors
  BY Constants DEF NoCursor, Cursors
<1>5. PublishState \in States /\ PublishState.pend = NoPending
  BY <1>1, <1>4 DEF PublishState, States, PendingBatches
<1> QED
  BY <1>1, <1>2, <1>3, <1>5

\* The rows of a read are rows.
LEMMA RowsType ==
    ASSUME NEW K \in SUBSET Keys, NEW f \in [K -> Contents]
    PROVE  f \in RowSets
BY DEF RowSets

\* A page is a function from some of the keys to contents.
LEMMA RowsAre ==
    ASSUME NEW r \in RowSets
    PROVE  DOMAIN r \in SUBSET Keys /\ r \in [DOMAIN r -> Contents]
<1>1. PICK K \in SUBSET Keys : r \in [K -> Contents]
  BY DEF RowSets
<1> QED
  BY <1>1

\* The keys a snapshot remembers of a page form a table.
LEMMA KeysOfType ==
    ASSUME NEW r \in RowSets
    PROVE  KeysOf(r) \in Tables
<1>1. r \in [DOMAIN r -> Contents]
  BY RowsAre
<1>2. \A k \in Keys : (IF k \in DOMAIN r THEN r[k] ELSE 0) \in Contents
  BY <1>1, Constants
<1> QED
  BY <1>2 DEF KeysOf, Tables

\* What a snapshot has to send is a page of rows.
LEMMA ChangesType ==
    ASSUME NEW keys \in Tables, NEW r \in RowSets
    PROVE  Changes(keys, r) \in RowSets
<1> DEFINE now == KeysOf(r)
           K == {k \in Keys : now[k] # keys[k]}
<1>1. now \in [Keys -> Contents]
  BY KeysOfType DEF Tables
<1>2. Changes(keys, r) = [k \in K |-> now[k]]
  BY DEF Changes
<1>3. K \in SUBSET Keys
  OBVIOUS
<1> HIDE DEF now, K
<1>4. [k \in K |-> now[k]] \in [K -> Contents]
  BY <1>1, <1>3
<1> QED
  BY <1>2, <1>3, <1>4, RowsType
-----------------------------------------------------------------------------
(* The pages of the watermark strategy *)

\* The last row of a page comes after none of them.
LEMMA LastOfPage ==
    ASSUME Library, NEW r \in RowSets, DOMAIN r # {}
    PROVE  \E m \in DOMAIN r :
               /\ NextCursor(r) = <<r[m], m>>
               /\ \A k \in DOMAIN r : ~ Precedes(<<r[m], m>>, <<r[k], k>>)
<1>1. DOMAIN r \in SUBSET Keys /\ r \in [DOMAIN r -> Contents]
  BY RowsAre
<1>2. /\ Keys \in SUBSET Nat /\ Contents \in SUBSET Nat
      /\ Cardinality(Keys) \in Nat /\ \A k \in Keys : k <= Cardinality(Keys)
      /\ MaxContent + MaxChanges \in Nat
      /\ \A c \in Contents : c <= MaxContent + MaxChanges
  BY Constants DEF Contents
<1> DEFINE W == {r[k] : k \in DOMAIN r}
<1>3. W \in SUBSET Nat /\ W # {} /\ \A w \in W : w <= MaxContent + MaxChanges
  BY <1>1, <1>2
<1>4. PICK w \in W : \A v \in W : v <= w
  <2> HIDE DEF W
  <2> QED
    BY <1>2, <1>3, GreatestOf
<1> DEFINE M == {k \in DOMAIN r : r[k] = w}
<1>5. M \in SUBSET Nat /\ M # {} /\ \A k \in M : k <= Cardinality(Keys)
  BY <1>1, <1>2, <1>4
<1>6. PICK m \in M : \A k \in M : k <= m
  <2> HIDE DEF M
  <2> QED
    BY <1>2, <1>5, GreatestOf
<1>7. ASSUME NEW k \in DOMAIN r PROVE ~ Precedes(<<r[m], m>>, <<r[k], k>>)
  <2>1. r[m] = w /\ r[k] \in Nat /\ w \in Nat /\ k \in Nat /\ m \in Nat
    BY <1>1, <1>2, <1>3, <1>7
  <2>2. r[k] <= w
    BY <1>4, <1>7
  <2>3. r[k] = w => k <= m
    BY <1>6, <1>7
  <2> QED
    BY <2>1, <2>2, <2>3 DEF Precedes
<1> DEFINE S == {<<r[k], k>> : k \in DOMAIN r}
<1>8. <<r[m], m>> \in S /\ \A k \in DOMAIN r : ~ Precedes(<<r[m], m>>, <<r[k], k>>)
  BY <1>7
<1>9. NextCursor(r) \in S /\ \A k \in DOMAIN r : ~ Precedes(NextCursor(r), <<r[k], k>>)
  BY <1>8, Zenon DEF NextCursor
<1>10. PICK x \in DOMAIN r : NextCursor(r) = <<r[x], x>>
  BY <1>9
<1> QED
  BY <1>9, <1>10

\* The cursor taken from the last row of a page is a cursor.
LEMMA NextCursorType ==
    ASSUME Library, NEW r \in RowSets, DOMAIN r # {}
    PROVE  NextCursor(r) \in Cursors
<1>1. PICK m \in DOMAIN r : NextCursor(r) = <<r[m], m>>
  BY LastOfPage
<1>2. m \in Keys /\ r[m] \in Contents
  BY RowsAre
<1> QED
  BY <1>1, <1>2 DEF Cursors

\* A page holds rows of the source as they are now, past the cursor.
LEMMA PageType ==
    ASSUME TypeOK, NEW c
    PROVE  /\ Page(c) \in RowSets
           /\ \A k \in DOMAIN Page(c) :
                  Page(c)[k] = src[k] /\ src[k] # 0 /\ Precedes(c, <<src[k], k>>)
<1> DEFINE rest == {k \in Keys : src[k] # 0 /\ Precedes(c, <<src[k], k>>)}
           page == {k \in rest : Cardinality({j \in rest :
                        Precedes(<<src[j], j>>, <<src[k], k>>)}) < PageSize}
<1>1. Page(c) = [k \in page |-> src[k]]
  BY Zenon DEF Page
<1>2. page \in SUBSET rest /\ rest \in SUBSET Keys
  OBVIOUS
<1>3. \A k \in rest : src[k] # 0 /\ Precedes(c, <<src[k], k>>)
  OBVIOUS
<1>4. src \in [Keys -> Contents]
  BY DEF TypeOK, Tables
<1> HIDE DEF rest, page
<1>5. [k \in page |-> src[k]] \in [page -> Contents]
  BY <1>2, <1>4
<1>6. page \in SUBSET Keys
  BY <1>2
<1>7. Page(c) \in RowSets
  BY <1>1, <1>5, <1>6, RowsType
<1>8. ASSUME NEW k \in DOMAIN Page(c)
      PROVE  Page(c)[k] = src[k] /\ src[k] # 0 /\ Precedes(c, <<src[k], k>>)
  <2>1. k \in page /\ k \in rest
    BY <1>1, <1>2, <1>8
  <2> QED
    BY <1>1, <1>3, <2>1
<1> QED
  BY <1>7, <1>8

\* A row after the cursor that comes before a row of the page is in the page.
LEMMA PageIsInitial ==
    ASSUME Library, TypeOK, NEW c, NEW m \in DOMAIN Page(c), NEW k \in Keys,
           src[k] # 0, Precedes(c, <<src[k], k>>),
           ~ Precedes(<<src[m], m>>, <<src[k], k>>)
    PROVE  k \in DOMAIN Page(c)
<1> DEFINE rest == {j \in Keys : src[j] # 0 /\ Precedes(c, <<src[j], j>>)}
           Before(i) == {j \in rest : Precedes(<<src[j], j>>, <<src[i], i>>)}
           page == {i \in rest : Cardinality(Before(i)) < PageSize}
<1>1. Page(c) = [i \in page |-> src[i]]
  BY Zenon DEF Page
<1>2. m \in page /\ m \in rest /\ Cardinality(Before(m)) < PageSize
  BY <1>1
<1>3. src \in [Keys -> Nat] /\ Keys \in SUBSET Nat
  BY Constants DEF TypeOK, Tables
<1>4. k \in rest /\ rest \in SUBSET Keys
  OBVIOUS
<1>5. Before(k) \in SUBSET Before(m)
  <2>1. SUFFICES ASSUME NEW j \in rest, Precedes(<<src[j], j>>, <<src[k], k>>)
                 PROVE  Precedes(<<src[j], j>>, <<src[m], m>>)
    OBVIOUS
  <2>2. /\ src[j] \in Nat /\ src[k] \in Nat /\ src[m] \in Nat
        /\ j \in Nat /\ k \in Nat /\ m \in Nat
    BY <1>2, <1>3, <1>4
  <2> QED
    BY <2>1, <2>2 DEF Precedes
<1>6. Before(m) \in SUBSET Keys /\ Before(k) \in SUBSET Keys
  OBVIOUS
<1> HIDE DEF Before
<1>7. /\ Cardinality(Before(m)) \in Nat /\ Cardinality(Before(k)) \in Nat
      /\ Cardinality(Before(k)) <= Cardinality(Before(m))
  BY <1>5, <1>6, Smaller
<1>8. PageSize \in Nat
  BY OpenMirrorAssumption
<1>9. Cardinality(Before(k)) < PageSize
  BY <1>2, <1>7, <1>8
<1> QED
  BY <1>1, <1>4, <1>9

\* A page brings every row between the cursor and its last row.
LEMMA PageCovers ==
    ASSUME Library, TypeOK, \A k \in Keys : src[k] <= changes,
           NEW c \in Cursors, DOMAIN Page(c) # {}
    PROVE  /\ NextCursor(Page(c))[1] <= changes
           /\ Covers(c, NextCursor(Page(c)), Page(c), src)
<1> DEFINE r == Page(c)
           n == NextCursor(r)
<1>1. r \in RowSets
  BY PageType
<1>2. PICK m \in DOMAIN r :
          /\ n = <<r[m], m>>
          /\ \A k \in DOMAIN r : ~ Precedes(<<r[m], m>>, <<r[k], k>>)
  BY <1>1, LastOfPage
<1>3. r[m] = src[m] /\ Precedes(c, <<src[m], m>>) /\ m \in Keys
  BY <1>1, PageType, RowsAre
<1>4. n = <<src[m], m>>
  BY <1>2, <1>3
<1>5. ASSUME NEW k \in Keys, src[k] # 0, ~ Precedes(n, <<src[k], k>>)
      PROVE  IF k \in DOMAIN r THEN r[k] = src[k] ELSE ~ Precedes(c, <<src[k], k>>)
  <2>1. CASE k \in DOMAIN r
    BY <2>1, PageType
  <2>2. CASE k \notin DOMAIN r
    <3>1. ~ Precedes(<<src[m], m>>, <<src[k], k>>)
      BY <1>4, <1>5
    <3> QED
      BY <1>5, <2>2, <3>1, PageIsInitial
  <2> QED
    BY <2>1, <2>2
<1> HIDE DEF r, n
<1>6. n[1] <= changes
  BY <1>3, <1>4
<1>7. Precedes(c, n)
  BY <1>3, <1>4
<1>8. Covers(c, n, r, src)
  BY <1>5, <1>7 DEF Covers
<1> QED
  BY <1>6, <1>8 DEF n, r
-----------------------------------------------------------------------------
(* What the landing zone holds *)

\* Landed, for the files fs of which those up to ap are applied.
Waiting(fs, ap, k) == {i \in DOMAIN fs : i > ap /\ k \in DOMAIN fs[i].rows}

LandedAt(fs, ap, mi, k) ==
    IF Waiting(fs, ap, k) = {} THEN mi[k] ELSE fs[Max(Waiting(fs, ap, k))].rows[k]

\* What has landed is, key by key, what LandedAt says of the folder.
LEMMA LandedIs == Landed = [k \in Keys |-> LandedAt(files, applied, mirror, k)]
BY Zenon DEF Landed, LandedAt, Waiting

\* The last waiting file with a row for the key decides.
LEMMA LastDecides ==
    ASSUME NEW fs, DOMAIN fs \in SUBSET Nat, NEW ap, NEW mi, NEW k,
           NEW m \in Waiting(fs, ap, k), \A i \in Waiting(fs, ap, k) : i <= m
    PROVE  LandedAt(fs, ap, mi, k) = fs[m].rows[k]
<1> DEFINE F == Waiting(fs, ap, k)
<1>1. F \in SUBSET Nat /\ F # {} /\ m \in F /\ \A i \in F : i <= m
  BY DEF Waiting
<1> HIDE DEF F
<1>2. Max(F) = m
  BY <1>1, MaxIs
<1> QED
  BY <1>1, <1>2 DEF F, LandedAt

\* Fabric's applying the first waiting file changes nothing that has landed.
LEMMA LandedApplied ==
    ASSUME Library, NEW fs, DOMAIN fs \in SUBSET Nat, NEW n \in Nat,
           \A j \in DOMAIN fs : j <= n,
           NEW ap \in Nat, NEW mi, NEW k, NEW i \in DOMAIN fs, i > ap,
           \A j \in DOMAIN fs : j > ap => i <= j,
           NEW mi2, mi2[k] = IF k \in DOMAIN fs[i].rows THEN fs[i].rows[k] ELSE mi[k]
    PROVE  LandedAt([j \in {j \in DOMAIN fs : j >= i} |-> fs[j]], i, mi2, k)
             = LandedAt(fs, ap, mi, k)
<1> DEFINE fs2 == [j \in {j \in DOMAIN fs : j >= i} |-> fs[j]]
           F  == Waiting(fs, ap, k)
           F2 == Waiting(fs2, i, k)
<1>1. DOMAIN fs2 = {j \in DOMAIN fs : j >= i} /\ \A j \in DOMAIN fs2 : fs2[j] = fs[j]
  OBVIOUS
<1>2. F = {j \in DOMAIN fs : j > ap /\ k \in DOMAIN fs[j].rows}
  BY DEF Waiting
<1>3. F2 = {j \in DOMAIN fs2 : j > i /\ k \in DOMAIN fs2[j].rows}
  BY DEF Waiting
<1> HIDE DEF fs2, F, F2
<1>4. F2 = F \ {i}
  BY <1>1, <1>2, <1>3
<1>5. i \in F <=> k \in DOMAIN fs[i].rows
  BY <1>2
<1>6. DOMAIN fs2 \in SUBSET Nat
  BY <1>1
<1>7. CASE F2 = {}
  <2>1. LandedAt(fs2, i, mi2, k) = mi2[k]
    BY <1>7 DEF LandedAt, F2
  <2>2. CASE i \in F
    <3>1. \A j \in F : j <= i
      BY <1>4, <1>7
    <3>2. LandedAt(fs, ap, mi, k) = fs[i].rows[k]
      BY <2>2, <3>1, LastDecides DEF F
    <3> QED
      BY <1>5, <2>1, <2>2, <3>2 DEF fs2
  <2>3. CASE i \notin F
    <3>1. F = {}
      BY <1>4, <1>7, <2>3
    <3>2. LandedAt(fs, ap, mi, k) = mi[k]
      BY <3>1 DEF LandedAt, F
    <3> QED
      BY <1>5, <2>1, <2>3, <3>2 DEF fs2
  <2> QED
    BY <2>2, <2>3
<1>8. CASE F2 # {}
  <2>1. F2 \in SUBSET Nat /\ \A j \in F2 : j <= n
    BY <1>2, <1>4
  <2>2. PICK m \in F2 : \A j \in F2 : j <= m
    BY <1>8, <2>1, GreatestOf
  <2>3. m \in F /\ m > i /\ fs2[m] = fs[m]
    BY <1>1, <1>3, <1>4
  <2>4. \A j \in F : j <= m
    BY <1>4, <2>1, <2>2, <2>3
  <2>5. LandedAt(fs2, i, mi2, k) = fs2[m].rows[k]
    BY <1>6, <2>2, LastDecides DEF F2
  <2>6. LandedAt(fs, ap, mi, k) = fs[m].rows[k]
    BY <2>3, <2>4, LastDecides DEF F
  <2> QED
    BY <2>3, <2>5, <2>6 DEF fs2
<1> QED
  BY <1>7, <1>8

\* The folder fs2 is the folder fs with one file more, at a path past the
\* others and past the applied ones.
Appended(fs2, fs, ap, path) ==
    /\ DOMAIN fs \in SUBSET Nat /\ ap \in Nat /\ path \in Nat
    /\ path \notin DOMAIN fs /\ path > ap /\ \A j \in DOMAIN fs : j <= path
    /\ DOMAIN fs2 = DOMAIN fs \cup {path}
    /\ \A j \in DOMAIN fs : fs2[j] = fs[j]

\* A new file past the others puts its rows on top of what has landed.
LEMMA LandedWritten ==
    ASSUME Library, NEW fs, NEW fs2, NEW ap, NEW path, NEW mi, NEW k,
           Appended(fs2, fs, ap, path)
    PROVE  LandedAt(fs2, ap, mi, k)
             = IF k \in DOMAIN fs2[path].rows THEN fs2[path].rows[k]
               ELSE LandedAt(fs, ap, mi, k)
<1> DEFINE F  == Waiting(fs, ap, k)
           F2 == Waiting(fs2, ap, k)
<1>1. /\ DOMAIN fs \in SUBSET Nat /\ ap \in Nat /\ path \in Nat
      /\ path \notin DOMAIN fs /\ path > ap /\ \A j \in DOMAIN fs : j <= path
      /\ DOMAIN fs2 = DOMAIN fs \cup {path}
      /\ \A j \in DOMAIN fs : fs2[j] = fs[j]
  BY DEF Appended
<1>2. F = {j \in DOMAIN fs : j > ap /\ k \in DOMAIN fs[j].rows}
  BY DEF Waiting
<1>3. F2 = {j \in DOMAIN fs2 : j > ap /\ k \in DOMAIN fs2[j].rows}
  BY DEF Waiting
<1> HIDE DEF F, F2
<1>4. DOMAIN fs2 \in SUBSET Nat /\ \A j \in DOMAIN fs2 : j <= path
  BY <1>1
<1>5. CASE k \in DOMAIN fs2[path].rows
  <2>1. path \in F2 /\ \A j \in F2 : j <= path
    BY <1>1, <1>3, <1>4, <1>5
  <2>2. LandedAt(fs2, ap, mi, k) = fs2[path].rows[k]
    BY <1>4, <2>1, LastDecides DEF F2
  <2> QED
    BY <1>1, <1>5, <2>2
<1>6. CASE k \notin DOMAIN fs2[path].rows
  <2>1. F2 = F
    BY <1>1, <1>2, <1>3, <1>6
  <2>2. CASE F = {}
    BY <1>6, <2>1, <2>2 DEF LandedAt, F, F2
  <2>3. CASE F # {}
    <3>1. F \in SUBSET Nat /\ \A j \in F : j <= path
      BY <1>1, <1>2
    <3>2. PICK m \in F : \A j \in F : j <= m
      BY <1>1, <2>3, <3>1, GreatestOf
    <3>3. LandedAt(fs2, ap, mi, k) = fs2[m].rows[k]
      BY <1>4, <2>1, <3>2, LastDecides DEF F2
    <3>4. LandedAt(fs, ap, mi, k) = fs[m].rows[k]
      BY <1>1, <3>2, LastDecides DEF F
    <3>5. fs2[m] = fs[m]
      BY <1>1, <1>2
    <3> QED
      BY <1>6, <3>3, <3>4, <3>5
  <2> QED
    BY <2>2, <2>3
<1> QED
  BY <1>5, <1>6
-----------------------------------------------------------------------------
(* What keeps a state true *)

\* The fields of a state and of its pending batch.
LEMMA StateFields ==
    ASSUME NEW s \in States
    PROVE  /\ s.cursor \in Cursors /\ s.keys \in Tables /\ s.init \in BOOLEAN
           /\ s.pend # NoPending =>
                  /\ s.pend.path \in Nat \ {0} /\ s.pend.batch \in Batches
                  /\ s.pend.prior \in Cursors /\ s.pend.next \in Cursors
                  /\ s.pend.keys \in Tables
<1>1. /\ s.cursor \in Cursors /\ s.keys \in Tables /\ s.init \in BOOLEAN
      /\ s.pend \in PendingBatches
  BY DEF States
<1>2. s.pend # NoPending =>
          /\ s.pend.path \in Nat \ {0} /\ s.pend.batch \in Batches
          /\ s.pend.prior \in Cursors /\ s.pend.next \in Cursors
          /\ s.pend.keys \in Tables
  BY <1>1 DEF PendingBatches
<1> QED
  BY <1>1, <1>2

\* The absence of a state file is not a state.
LEMMA NoStateIsNone == NoState \notin States
<1>1. SUFFICES ASSUME NoState \in States PROVE FALSE
  OBVIOUS
<1>2. DOMAIN NoState = {"init", "cursor", "keys", "pend"}
  BY <1>1 DEF States
<1>3. DOMAIN NoState = {"missing"}
  BY DEF NoState
<1> QED
  BY <1>2, <1>3

\* Both parts of a cursor are numbers.
LEMMA CursorFields ==
    ASSUME NEW c \in Cursors
    PROVE  c[1] \in Nat /\ c[2] \in Nat
BY Constants DEF Cursors

\* Precedes orders the cursors.
LEMMA PrecedesThrough ==
    ASSUME NEW a \in Cursors, NEW b \in Cursors, Precedes(a, b),
           NEW w \in Nat, NEW k \in Nat, ~ Precedes(a, <<w, k>>)
    PROVE  ~ Precedes(b, <<w, k>>)
<1>1. a[1] \in Nat /\ a[2] \in Nat /\ b[1] \in Nat /\ b[2] \in Nat
  BY CursorFields
<1> QED
  BY <1>1 DEF Precedes

\* A source transaction under the watermark strategy: the rows that changed
\* carry a watermark past every earlier one, or are gone.
Advances(sr, sr2, ch) ==
    \A k \in Keys : sr2[k] = sr[k] \/ sr2[k] = ch + 1 \/ sr2[k] = 0

\* The next change of the source comes after any cursor there is.
LEMMA PastCursor ==
    ASSUME NEW c \in Cursors, NEW ch \in Nat, c[1] <= ch, NEW k
    PROVE  Precedes(c, <<ch + 1, k>>)
BY CursorFields DEF Precedes

\* A change of the source does not take back what has landed up to the cursor.
LEMMA UptoAdvances ==
    ASSUME NEW c \in Cursors, NEW ch \in Nat, c[1] <= ch, NEW ld,
           NEW sr, NEW sr2, Advances(sr, sr2, ch), Upto(c, ld, sr)
    PROVE  Upto(c, ld, sr2)
<1>1. SUFFICES ASSUME NEW k \in Keys, sr2[k] # 0, ~ Precedes(c, <<sr2[k], k>>)
               PROVE  ld[k] = sr2[k]
  BY DEF Upto
<1>2. sr2[k] # ch + 1
  BY <1>1, PastCursor
<1>3. sr2[k] = sr[k]
  BY <1>1, <1>2 DEF Advances
<1> QED
  BY <1>1, <1>3 DEF Upto

\* A change of the source leaves the stretch a pending batch covers covered.
LEMMA CoversAdvances ==
    ASSUME NEW a, NEW c \in Cursors, NEW ch \in Nat, c[1] <= ch, NEW rows,
           NEW sr, NEW sr2, Advances(sr, sr2, ch), Covers(a, c, rows, sr)
    PROVE  Covers(a, c, rows, sr2)
<1>1. ASSUME NEW k \in Keys, sr2[k] # 0, ~ Precedes(c, <<sr2[k], k>>)
      PROVE  IF k \in DOMAIN rows THEN rows[k] = sr2[k] ELSE ~ Precedes(a, <<sr2[k], k>>)
  <2>1. sr2[k] # ch + 1
    BY <1>1, PastCursor
  <2>2. sr2[k] = sr[k]
    BY <1>1, <2>1 DEF Advances
  <2> QED
    BY <1>1, <2>2 DEF Covers
<1> QED
  BY <1>1 DEF Covers

\* A change of the source keeps a watermark state true of what has landed.
LEMMA WatermarkAdvances ==
    ASSUME NEW s \in States, NEW ld, NEW D, NEW ch \in Nat,
           NEW sr, NEW sr2, Advances(sr, sr2, ch), WatermarkOk(s, ld, sr, ch, D)
    PROVE  WatermarkOk(s, ld, sr2, ch + 1, D)
<1>1. /\ s.cursor \in Cursors /\ s.cursor[1] <= ch /\ s.cursor[1] \in Nat
      /\ Upto(s.cursor, ld, sr)
  BY StateFields, CursorFields DEF WatermarkOk
<1>2. s.cursor[1] <= ch + 1 /\ Upto(s.cursor, ld, sr2)
  BY <1>1, UptoAdvances
<1>3. ASSUME s.pend # NoPending
      PROVE  /\ s.pend.prior = s.cursor
             /\ s.pend.next[1] <= ch + 1
             /\ Covers(s.pend.prior, s.pend.next, s.pend.batch.rows, sr2)
             /\ s.pend.path \in D => Upto(s.pend.next, ld, sr2)
  <2>1. s.pend.next \in Cursors /\ s.pend.next[1] \in Nat
    BY <1>3, StateFields, CursorFields
  <2>2. /\ s.pend.prior = s.cursor /\ s.pend.next[1] <= ch
        /\ Covers(s.pend.prior, s.pend.next, s.pend.batch.rows, sr)
        /\ s.pend.path \in D => Upto(s.pend.next, ld, sr)
    BY <1>3 DEF WatermarkOk
  <2>3. Covers(s.pend.prior, s.pend.next, s.pend.batch.rows, sr2)
    BY <2>1, <2>2, CoversAdvances
  <2>4. s.pend.path \in D => Upto(s.pend.next, ld, sr2)
    BY <2>1, <2>2, UptoAdvances
  <2> QED
    BY <2>1, <2>2, <2>3, <2>4
<1> QED
  BY <1>2, <1>3 DEF WatermarkOk

\* The write of the pending file takes the table to the next cursor.
LEMMA WatermarkWritten ==
    ASSUME NEW s \in States, s.pend # NoPending, NEW ld, NEW ld2, NEW D, NEW ch \in Nat,
           NEW sr \in [Keys -> Nat], WatermarkOk(s, ld, sr, ch, D),
           \A k \in Keys : ld2[k] = IF k \in DOMAIN s.pend.batch.rows
                                      THEN s.pend.batch.rows[k] ELSE ld[k]
    PROVE  WatermarkOk(s, ld2, sr, ch, D \cup {s.pend.path})
<1>1. /\ s.cursor \in Cursors /\ s.pend.next \in Cursors
      /\ s.cursor[1] <= ch /\ s.pend.next[1] <= ch
      /\ s.pend.prior = s.cursor
      /\ Upto(s.cursor, ld, sr)
      /\ Covers(s.cursor, s.pend.next, s.pend.batch.rows, sr)
  BY StateFields DEF WatermarkOk
<1>2. Upto(s.pend.next, ld2, sr)
  <2>1. SUFFICES ASSUME NEW k \in Keys, sr[k] # 0, ~ Precedes(s.pend.next, <<sr[k], k>>)
                 PROVE  ld2[k] = sr[k]
    BY DEF Upto
  <2>2. IF k \in DOMAIN s.pend.batch.rows THEN s.pend.batch.rows[k] = sr[k]
        ELSE ~ Precedes(s.cursor, <<sr[k], k>>)
    BY <1>1, <2>1 DEF Covers
  <2>3. CASE k \in DOMAIN s.pend.batch.rows
    BY <2>2, <2>3
  <2>4. CASE k \notin DOMAIN s.pend.batch.rows
    <3>1. ld[k] = sr[k]
      BY <1>1, <2>1, <2>2, <2>4 DEF Upto
    <3> QED
      BY <2>4, <3>1
  <2> QED
    BY <2>3, <2>4
<1>3. Upto(s.cursor, ld2, sr)
  <2>1. SUFFICES ASSUME NEW k \in Keys, sr[k] # 0, ~ Precedes(s.cursor, <<sr[k], k>>)
                 PROVE  ld2[k] = sr[k]
    BY DEF Upto
  <2>2. sr[k] \in Nat /\ k \in Nat /\ Precedes(s.cursor, s.pend.next)
    BY <1>1, Constants DEF Covers
  <2>3. ~ Precedes(s.pend.next, <<sr[k], k>>)
    BY <1>1, <2>1, <2>2, PrecedesThrough
  <2> QED
    BY <1>2, <2>1, <2>3 DEF Upto
<1> QED
  BY <1>1, <1>2, <1>3 DEF WatermarkOk

\* Writing the pending file keeps a snapshot state true of what has landed.
LEMMA SnapshotWritten ==
    ASSUME NEW s \in States, s.pend # NoPending, NEW ld, NEW ld2, NEW D, NEW lo,
           SnapshotOk(s, ld, D, lo), s.pend.path \notin D,
           \A k \in Keys : ld2[k] = IF k \in DOMAIN s.pend.batch.rows
                                      THEN s.pend.batch.rows[k] ELSE ld[k]
    PROVE  SnapshotOk(s, ld2, D \cup {s.pend.path}, lo)
<1>1. /\ ~ s.init => s.keys = EmptyTable
      /\ Bridges(s)
      /\ Agrees(s.keys, ld, lo)
  BY DEF SnapshotOk
<1>2. Agrees(s.pend.keys, ld2, lo)
  <2>1. SUFFICES ASSUME NEW k \in Keys
                 PROVE  ld2[k] = s.pend.keys[k] \/ (lo > 0 /\ s.pend.keys[k] = 0)
    BY DEF Agrees
  <2> QED
    BY <1>1 DEF Agrees, Bridges
<1> QED
  BY <1>1, <1>2 DEF SnapshotOk

\* The two together.
LEMMA StateWritten ==
    ASSUME NEW s \in States, s.pend # NoPending, NEW how, NEW ld, NEW ld2, NEW D,
           NEW ch \in Nat, NEW lo, NEW sr \in [Keys -> Nat],
           StateOk(s, how, ld, sr, ch, D, lo), s.pend.path \notin D,
           \A k \in Keys : ld2[k] = IF k \in DOMAIN s.pend.batch.rows
                                      THEN s.pend.batch.rows[k] ELSE ld[k]
    PROVE  StateOk(s, how, ld2, sr, ch, D \cup {s.pend.path}, lo)
BY SnapshotWritten, WatermarkWritten DEF StateOk

\* The files that Fabric deletes are not the pending one.
LEMMA StateApplied ==
    ASSUME NEW s, NEW how, NEW ld, NEW sr, NEW ch, NEW D, NEW D2, NEW lo,
           StateOk(s, how, ld, sr, ch, D, lo),
           s.pend # NoPending => (s.pend.path \in D <=> s.pend.path \in D2)
    PROVE  StateOk(s, how, ld, sr, ch, D2, lo)
BY Zenon DEF StateOk, SnapshotOk, WatermarkOk

\* One initial load more asks less of a state.
LEMMA StateReloaded ==
    ASSUME NEW s, NEW how, NEW ld, NEW sr, NEW ch, NEW D, NEW lo \in Nat, NEW lo2 \in Nat,
           lo <= lo2, StateOk(s, how, ld, sr, ch, D, lo)
    PROVE  StateOk(s, how, ld, sr, ch, D, lo2)
<1>1. \A K : Agrees(K, ld, lo) => Agrees(K, ld, lo2)
  BY DEF Agrees
<1> QED
  BY <1>1, Zenon DEF StateOk, SnapshotOk

\* _finalize_pending after the file is there.
LEMMA StateFinalized ==
    ASSUME NEW s, s.pend # NoPending, NEW how, NEW ld, NEW sr, NEW ch, NEW D, NEW lo,
           StateOk(s, how, ld, sr, ch, D, lo), s.pend.path \in D
    PROVE  StateOk(Finalized(s), how, ld, sr, ch, D, lo)
<1>1. /\ Finalized(s).init = TRUE /\ Finalized(s).cursor = s.pend.next
      /\ Finalized(s).keys = s.pend.keys /\ Finalized(s).pend = NoPending
  BY DEF Finalized
<1>2. CASE how = "snapshot"
  BY <1>1, <1>2, Zenon DEF StateOk, SnapshotOk
<1>3. CASE how # "snapshot"
  BY <1>1, <1>3, Zenon DEF StateOk, WatermarkOk
<1> QED
  BY <1>2, <1>3

\* A new state says nothing: an empty table, or one that is loaded again.
LEMMA StateNew ==
    ASSUME NEW how, NEW ld, NEW sr \in [Keys -> Nat], NEW ch \in Nat, NEW D, NEW lo,
           how = "snapshot" => Agrees(EmptyTable, ld, lo)
    PROVE  StateOk(PublishState, how, ld, sr, ch, D, lo)
<1>1. /\ PublishState.keys = EmptyTable /\ PublishState.pend = NoPending
      /\ PublishState.cursor = <<0, 0>>
  BY DEF PublishState, NoCursor
<1>2. CASE how = "snapshot"
  BY <1>1, <1>2, Zenon DEF StateOk, SnapshotOk
<1>3. CASE how # "snapshot"
  <2>1. Upto(<<0, 0>>, ld, sr)
    BY DEF Upto, Precedes
  <2> QED
    BY <1>1, <1>3, <2>1 DEF StateOk, WatermarkOk
<1> QED
  BY <1>2, <1>3
-----------------------------------------------------------------------------
(* The type of a step *)

Tasks ==
    [pc : {"idle", "drop", "forget", "read", "prepare", "save", "write",
           "finalize", "end"},
     cfg : {"on", "off", "gone"}, st : States, rows : RowSets]

FileMaps(f) == DOMAIN f \subseteq Nat \ {0} /\ f \in [DOMAIN f -> Batches]

\* The parts of a publishing task are of their types.
LEMMA TaskFields ==
    ASSUME TypeOK, NEW p \in Publishers
    PROVE  /\ pub[p] \in Tasks /\ pub[p].st \in States /\ pub[p].rows \in RowSets
           /\ pub \in [Publishers -> Tasks]
<1>1. pub \in [Publishers -> Tasks]
  BY Zenon DEF TypeOK, Tasks
<1>2. pub[p] \in Tasks
  BY <1>1, Zenon
<1> QED
  BY <1>1, <1>2, Zenon DEF Tasks

\* A task that moves to another step.
LEMMA Moves ==
    ASSUME TypeOK, NEW p \in Publishers, NEW pc,
           pub' = [pub EXCEPT ![p].pc = pc],
           pc \in {"forget", "write", "finalize", "end"}
    PROVE  /\ pub' \in [Publishers -> Tasks]
           /\ pub'[p].pc = pc /\ pub'[p].st = pub[p].st /\ pub'[p].rows = pub[p].rows
<1>1. pub[p] \in Tasks /\ pub \in [Publishers -> Tasks]
  BY TaskFields, Zenon
<1>2. [pub[p] EXCEPT !.pc = pc] \in Tasks
  BY <1>1, Zenon DEF Tasks
<1>3. pub' = [pub EXCEPT ![p] = [pub[p] EXCEPT !.pc = pc]]
  BY Zenon
<1>4. pub'[p] = [pub[p] EXCEPT !.pc = pc]
  BY <1>1, <1>3, Zenon
<1>5. pub' \in [Publishers -> Tasks]
  BY <1>1, <1>2, <1>3, Zenon
<1> QED
  BY <1>1, <1>4, <1>5, Zenon DEF Tasks

\* A task that is replaced.
LEMMA Replaced ==
    ASSUME TypeOK, NEW p \in Publishers, NEW t \in Tasks, pub' = [pub EXCEPT ![p] = t]
    PROVE  pub' \in [Publishers -> Tasks] /\ pub'[p] = t
<1>1. pub \in [Publishers -> Tasks]
  BY TaskFields, Zenon
<1> QED
  BY <1>1, Zenon

\* The task that publishes nothing is a task.
LEMMA IdleType == Idle \in Tasks /\ Idle.pc = "idle"
BY EmptyTypes, Zenon DEF Idle, Tasks

\* What a publish starts from, the saved state or a new one, is a state.
LEMMA LoadedType ==
    ASSUME TypeOK, NEW i \in BOOLEAN
    PROVE  Loaded(i) \in States
BY EmptyTypes, Zenon DEF TypeOK, Loaded

\* The batch that prepareBatch builds is a batch.
LEMMA BatchType ==
    ASSUME NEW s \in States, NEW r \in RowSets
    PROVE  Batch(s, r) \in Batches
<1>1. Changes(s.keys, r) \in RowSets /\ s.init \in BOOLEAN
  BY ChangesType, StateFields, Zenon
<1> QED
  BY <1>1, Zenon DEF Batch, Batches

\* The pending record made for a page that has something to send.
LEMMA PendingType ==
    ASSUME Library, TypeOK, FolderOk, NEW s \in States, NEW r \in RowSets, ~ Nothing(s, r)
    PROVE  /\ Pending(s, r) \in PendingBatches
           /\ Pending(s, r) # NoPending
           /\ strategy = "watermark" => DOMAIN r # {}
<1>1. NextFileIndex \in Nat \ {0}
  BY NextIndex, Zenon
<1>2. strategy = "watermark" => DOMAIN r # {}
  BY Zenon DEF Nothing, Batch
<1>3. Batch(s, r) \in Batches
  BY BatchType, Zenon
<1>4. s.cursor \in Cursors /\ KeysOf(r) \in Tables /\ EmptyTable \in Tables
  BY StateFields, KeysOfType, EmptyTypes, Zenon
<1>5. NoCursor \in Cursors
  BY Constants, Zenon DEF NoCursor, Cursors
<1>6. strategy = "watermark" => NextCursor(r) \in Cursors
  BY <1>2, NextCursorType, Zenon
<1>7. Pending(s, r) \in PendingBatches
  BY <1>1, <1>3, <1>4, <1>5, <1>6, Zenon DEF Pending, PendingBatches
<1>8. Pending(s, r).path # 0 /\ NoPending.path = 0
  BY <1>1, Zenon DEF Pending, NoPending
<1> QED
  BY <1>2, <1>7, <1>8, Zenon

\* A finalized state is a state with nothing pending.
LEMMA FinalizedType ==
    ASSUME NEW s \in States, s.pend # NoPending
    PROVE  Finalized(s) \in States /\ Finalized(s).pend = NoPending
<1>1. s.pend.next \in Cursors /\ s.pend.keys \in Tables
  BY StateFields, Zenon
<1> QED
  BY <1>1, Zenon DEF Finalized, States, PendingBatches

\* What reading the source leaves in the task.
LEMMA ReadType ==
    ASSUME TypeOK, NEW p \in Publishers, Read(p)
    PROVE  /\ pub' \in [Publishers -> Tasks]
           /\ pub'[p].pc = "prepare" /\ pub'[p].st = pub[p].st
           /\ pub'[p].rows = IF strategy = "snapshot" THEN AllRows
                             ELSE Page(IF pub[p].st.pend = NoPending THEN pub[p].st.cursor
                                       ELSE pub[p].st.pend.prior)
<1> DEFINE R == IF strategy = "snapshot" THEN AllRows
                ELSE Page(IF pub[p].st.pend = NoPending THEN pub[p].st.cursor
                          ELSE pub[p].st.pend.prior)
<1>1. AllRows \in RowSets
  <2> DEFINE K == {k \in Keys : src[k] # 0}
  <2>1. AllRows = [k \in K |-> src[k]] /\ K \in SUBSET Keys
    BY Zenon DEF AllRows
  <2>2. src \in [Keys -> Contents]
    BY Zenon DEF TypeOK, Tables
  <2> HIDE DEF K
  <2>3. [k \in K |-> src[k]] \in [K -> Contents]
    BY <2>1, <2>2, Zenon
  <2> QED
    BY <2>1, <2>3, RowsType, Zenon
<1>2. R \in RowSets
  BY <1>1, PageType, Zenon
<1>3. pub' = [pub EXCEPT ![p].pc = "prepare", ![p].rows = R]
  BY Zenon DEF Read
<1> HIDE DEF R
<1>4. pub[p] \in Tasks /\ pub \in [Publishers -> Tasks]
  BY TaskFields, Zenon
<1>5. [pub[p] EXCEPT !.pc = "prepare", !.rows = R] \in Tasks
  BY <1>2, <1>4, Zenon DEF Tasks
<1>6. pub'[p] = [pub[p] EXCEPT !.pc = "prepare", !.rows = R]
  BY <1>3, <1>4, Zenon
<1>7. pub' \in [Publishers -> Tasks]
  BY <1>3, <1>4, <1>5, Zenon
<1>8. pub'[p].pc = "prepare" /\ pub'[p].st = pub[p].st /\ pub'[p].rows = R
  BY <1>4, <1>6, Zenon DEF Tasks
<1> QED
  BY <1>7, <1>8, Zenon DEF R

\* What preparing a batch leaves in the task and beside the table.
LEMMA PrepareType ==
    ASSUME Library, TypeOK, FolderOk, NEW p \in Publishers, Prepare(p)
    PROVE  /\ pub' \in [Publishers -> Tasks] /\ sidecar' \in Batches
           /\ pub'[p].pc = "save"
           /\ pub'[p].st = [pub[p].st EXCEPT !.pend = Pending(pub[p].st, pub[p].rows)]
           /\ pub'[p].st.pend = Pending(pub[p].st, pub[p].rows)
           /\ pub'[p].st.pend # NoPending
           /\ strategy = "watermark" => DOMAIN pub[p].rows # {}
<1> DEFINE N == Pending(pub[p].st, pub[p].rows)
<1>1. pub[p] \in Tasks /\ pub \in [Publishers -> Tasks] /\ pub[p].st \in States
      /\ pub[p].rows \in RowSets
  BY TaskFields, Zenon
<1>2. /\ pub' = [pub EXCEPT ![p].pc = "save", ![p].st.pend = N]
      /\ sidecar' = IF tokens THEN N.batch ELSE sidecar
      /\ ~ Nothing(pub[p].st, pub[p].rows)
  BY Zenon DEF Prepare
<1>3. /\ N \in PendingBatches /\ N # NoPending
      /\ strategy = "watermark" => DOMAIN pub[p].rows # {}
  BY <1>1, <1>2, PendingType, Zenon
<1>4. N.batch \in Batches
  BY <1>1, BatchType, Zenon DEF Pending
<1> HIDE DEF N
<1>5. [pub[p].st EXCEPT !.pend = N] \in States /\ [pub[p].st EXCEPT !.pend = N].pend = N
  BY <1>1, <1>3, Zenon DEF States
<1>6. [pub[p] EXCEPT !.pc = "save", !.st = [pub[p].st EXCEPT !.pend = N]] \in Tasks
  BY <1>1, <1>5, Zenon DEF Tasks
<1>7. pub' = [pub EXCEPT ![p] = [pub[p] EXCEPT !.pc = "save",
                                               !.st = [pub[p].st EXCEPT !.pend = N]]]
  BY <1>1, <1>2, Zenon DEF Tasks
<1>8. /\ pub' \in [Publishers -> Tasks]
      /\ pub'[p] = [pub[p] EXCEPT !.pc = "save", !.st = [pub[p].st EXCEPT !.pend = N]]
  BY <1>6, <1>7, Replaced, Zenon
<1>9. pub'[p].pc = "save" /\ pub'[p].st = [pub[p].st EXCEPT !.pend = N]
  BY <1>1, <1>8, Zenon DEF Tasks
<1>10. sidecar' \in Batches
  BY <1>2, <1>4, Zenon DEF TypeOK
<1> QED
  BY <1>3, <1>5, <1>8, <1>9, <1>10, Zenon DEF N

\* What finalizing leaves in the task and in the saved state.
LEMMA FinalizeType ==
    ASSUME TypeOK, NEW p \in Publishers, Finalize(p), pub[p].st.pend # NoPending
    PROVE  /\ pub' \in [Publishers -> Tasks] /\ st' \in States
           /\ pub'[p].pc \in {"read", "end"}
           /\ pub'[p].st = Finalized(pub[p].st) /\ st' = Finalized(pub[p].st)
<1>1. pub[p] \in Tasks /\ pub \in [Publishers -> Tasks] /\ pub[p].st \in States
  BY TaskFields, Zenon
<1>2. st' = Finalized(pub[p].st)
  BY Zenon DEF Finalize
<1>3. PICK next \in {"read", "end"} :
          pub' = [pub EXCEPT ![p].pc = next, ![p].st = st', ![p].rows = NoRows]
  BY Zenon DEF Finalize
<1>4. st' \in States
  BY <1>1, <1>2, FinalizedType, Zenon
<1>5. [pub[p] EXCEPT !.pc = next, !.st = st', !.rows = NoRows] \in Tasks
  BY <1>1, <1>4, EmptyTypes, Zenon DEF Tasks
<1>6. pub' = [pub EXCEPT ![p] = [pub[p] EXCEPT !.pc = next, !.st = st', !.rows = NoRows]]
  BY <1>1, <1>3, Zenon DEF Tasks
<1>7. /\ pub' \in [Publishers -> Tasks]
      /\ pub'[p] = [pub[p] EXCEPT !.pc = next, !.st = st', !.rows = NoRows]
  BY <1>5, <1>6, Replaced, Zenon
<1>8. pub'[p].pc = next /\ pub'[p].st = st'
  BY <1>1, <1>7, Zenon DEF Tasks
<1> QED
  BY <1>2, <1>4, <1>7, <1>8, Zenon

\* What publish_table does with the pending batch of the state it loaded.
LEMMA Resumes ==
    ASSUME NEW s
    PROVE  /\ Resume(s) \in {"read", "write", "finalize", "end"}
           /\ s.pend # NoPending /\ s.pend.path \in DOMAIN files => Resume(s) = "finalize"
           /\ s.pend # NoPending /\ s.pend.path \notin DOMAIN files => Resume(s) # "finalize"
           /\ s.pend = NoPending => Resume(s) = "read"
<1>1. CASE s.pend # NoPending /\ s.pend.path \in DOMAIN files
  BY <1>1, Zenon DEF Resume
<1>2. CASE s.pend # NoPending /\ s.pend.path \notin DOMAIN files /\ tokens /\ sidecar # NoPayload
  BY <1>2, Zenon DEF Resume
<1>3. CASE s.pend = NoPending
  BY <1>3, Zenon DEF Resume
<1>4. CASE s.pend # NoPending /\ s.pend.path \notin DOMAIN files /\ ~(tokens /\ sidecar # NoPayload)
  BY <1>4, Zenon DEF Resume
<1> QED
  BY <1>1, <1>2, <1>3, <1>4, Zenon

\* Where the start of a publish, resuming or not, leaves the task.
LEMMA BeginType ==
    ASSUME TypeOK, NEW p \in Publishers, NEW i \in BOOLEAN, Begin(p, i)
    PROVE  /\ pub' \in [Publishers -> Tasks]
           /\ pub'[p].pc \in {"read", "write", "finalize", "drop", "end"}
           /\ pub'[p].pc \in Working =>
                  pub'[p].pc = Resume(Loaded(i)) /\ pub'[p].st = Loaded(i)
           /\ loads' \in Nat /\ loads <= loads' /\ (i => loads' > 0)
<1> DEFINE c == CASE config = "gone" /\ published -> "drop"
                  [] config = "on" -> Resume(Loaded(i))
                  [] OTHER -> "end"
           s == IF config = "on" THEN Loaded(i) ELSE PublishState
           t == [pc |-> c, cfg |-> config, st |-> s, rows |-> NoRows]
<1>1. pub' = [pub EXCEPT ![p] = t] /\ loads' = IF i THEN loads + 1 ELSE loads
  BY Zenon DEF Begin
<1>2. config \in {"on", "off", "gone"} /\ loads \in Nat /\ published \in BOOLEAN
  BY Zenon DEF TypeOK
<1>3. s \in States
  BY LoadedType, EmptyTypes, Zenon
<1>4. c \in {"read", "write", "finalize", "drop", "end"}
  <2>1. Resume(Loaded(i)) \in {"read", "write", "finalize", "end"}
    BY Resumes, Zenon
  <2> QED
    BY <1>2, <2>1, Zenon
<1>5. c \in Working => config = "on" /\ c = Resume(Loaded(i))
  BY <1>2, Zenon DEF Working
<1>6. c \in Working => s = Loaded(i)
  BY <1>5, Zenon
<1> HIDE DEF c, s
<1>7. t \in Tasks
  BY <1>2, <1>3, <1>4, EmptyTypes, Zenon DEF Tasks
<1>8. pub' \in [Publishers -> Tasks] /\ pub'[p] = t
  BY <1>1, <1>7, Replaced, Zenon
<1>9. pub'[p].pc = c /\ pub'[p].st = s
  BY <1>8
<1>10. loads' \in Nat /\ loads <= loads' /\ (i => loads' > 0)
  BY <1>1, <1>2
<1> QED
  BY <1>4, <1>5, <1>6, <1>8, <1>9, <1>10, Zenon

\* TypeOK without the record notation.
LEMMA TypeParts ==
    TypeOK <=>
    /\ strategy \in {"watermark", "snapshot"} /\ tokens \in BOOLEAN
    /\ src \in Tables /\ changes \in 0 .. MaxChanges
    /\ mirror \in Tables /\ applied \in Nat /\ loads \in Nat
    /\ config \in {"on", "off", "gone"}
    /\ st \in States \cup {NoState} /\ sidecar \in Batches
    /\ published \in BOOLEAN /\ torn \in BOOLEAN
    /\ FileMaps(files)
    /\ pub \in [Publishers -> Tasks]
BY Zenon DEF TypeOK, FileMaps, Tasks

\* The same of the next state, for the steps below.
LEMMA TypeNext ==
    /\ strategy' \in {"watermark", "snapshot"} /\ tokens' \in BOOLEAN
    /\ src' \in Tables /\ changes' \in 0 .. MaxChanges
    /\ mirror' \in Tables /\ applied' \in Nat /\ loads' \in Nat
    /\ config' \in {"on", "off", "gone"}
    /\ st' \in States \cup {NoState} /\ sidecar' \in Batches
    /\ published' \in BOOLEAN /\ torn' \in BOOLEAN
    /\ FileMaps(files')
    /\ pub' \in [Publishers -> Tasks]
    => TypeOK'
BY Zenon DEF TypeOK, FileMaps, Tasks

\* Every step keeps the types.
LEMMA TypeStep ==
    ASSUME Library, FilesInv, [Next]_vars
    PROVE  TypeOK'
<1> USE DEF fixed, external, durable, bounds
<1>0. TypeOK /\ FolderOk
  BY Zenon DEF FilesInv
<1>1. /\ strategy \in {"watermark", "snapshot"} /\ tokens \in BOOLEAN
      /\ src \in Tables /\ changes \in 0 .. MaxChanges
      /\ mirror \in Tables /\ applied \in Nat /\ loads \in Nat
      /\ config \in {"on", "off", "gone"}
      /\ st \in States \cup {NoState} /\ sidecar \in Batches
      /\ published \in BOOLEAN /\ torn \in BOOLEAN
      /\ FileMaps(files)
      /\ pub \in [Publishers -> Tasks]
  BY <1>0, TypeParts, Zenon
<1>2. CASE UNCHANGED vars
  BY <1>1, <1>2, TypeNext, Zenon DEF vars
<1>3. CASE SourceCommit
  <2>1. src \in [Keys -> Contents] /\ changes \in Nat /\ MaxChanges \in Nat
    BY <1>1, Constants, Zenon DEF Tables
  <2>2. changes' \in 0 .. MaxChanges /\ changes + 1 \in 0 .. MaxChanges
    BY <1>3, <2>1 DEF SourceCommit
  <2>3. changes + 1 \in Contents /\ 0 \in Contents
    BY <2>2, Constants, Zenon
  <2>4. \A c \in 1 .. MaxContent : c \in Contents
    BY Constants
  <2>5. src' \in Tables
    <3>1. CASE \E K \in SUBSET Keys \ {{}} :
                   src' = [k \in Keys |-> IF k \in K THEN changes + 1 ELSE src[k]]
      BY <2>1, <2>3, <3>1, Zenon DEF Tables
    <3>2. CASE \E k \in Keys, c \in 1 .. MaxContent : src' = [src EXCEPT ![k] = c]
      BY <2>1, <2>4, <3>2, Zenon DEF Tables
    <3>3. CASE \E k \in Keys : src' = [src EXCEPT ![k] = 0]
      BY <2>1, <2>3, <3>3, Zenon DEF Tables
    <3> QED
      BY <1>3, <3>1, <3>2, <3>3, Zenon DEF SourceCommit
  <2> QED
    BY <1>1, <1>3, <2>2, <2>5, TypeNext, Zenon DEF SourceCommit
<1>4. CASE FabricApply
  <2>1. PICK i \in DOMAIN files :
            /\ mirror' = [k \in Keys |-> IF k \in DOMAIN files[i].rows
                                           THEN files[i].rows[k] ELSE mirror[k]]
            /\ applied' = i
            /\ files' = [j \in {j \in DOMAIN files : j >= i} |-> files[j]]
            /\ UNCHANGED <<fixed, src, changes, config, edits, durable, pub, bounds, torn>>
    BY <1>4, Zenon DEF FabricApply
  <2>2. i \in Nat /\ files[i] \in Batches /\ mirror \in [Keys -> Contents]
    BY <1>1, Zenon DEF FileMaps, Tables
  <2>3. files[i].rows \in [DOMAIN files[i].rows -> Contents]
    BY <2>2, RowsAre, Zenon DEF Batches
  <2>4. mirror' \in Tables
    BY <2>1, <2>2, <2>3, Zenon DEF Tables
  <2>5. FileMaps(files')
    BY <1>1, <2>1, Zenon DEF FileMaps
  <2> QED
    BY <1>1, <2>1, <2>2, <2>4, <2>5, TypeNext, Zenon
<1>5. CASE Reset
  <2>1. loads' \in Nat /\ torn' \in BOOLEAN
    BY <1>1, <1>5 DEF Reset
  <2> QED
    BY <1>1, <1>5, <2>1, TypeNext, Zenon DEF Reset
<1>6. ASSUME NEW c \in {"on", "off", "gone"}, EditConfig(c) PROVE TypeOK'
  BY <1>1, <1>6, TypeNext, Zenon DEF EditConfig
<1>7. ASSUME NEW p \in Publishers, NEW i \in BOOLEAN, Begin(p, i) PROVE TypeOK'
  <2>1. pub' \in [Publishers -> Tasks] /\ loads' \in Nat
    BY <1>0, <1>7, BeginType, Zenon
  <2> QED
    BY <1>1, <1>7, <2>1, TypeNext, Zenon DEF Begin
<1>8. ASSUME NEW p \in Publishers, DropFolder(p) PROVE TypeOK'
  <2>1. pub' \in [Publishers -> Tasks]
    BY <1>0, <1>8, Moves, Zenon DEF DropFolder
  <2>2. FileMaps(files') /\ applied' \in Nat /\ mirror' \in Tables /\ torn' \in BOOLEAN
    BY <1>8, EmptyTypes, Zenon DEF FileMaps, DropFolder
  <2> QED
    BY <1>1, <1>8, <2>1, <2>2, TypeNext, Zenon DEF DropFolder
<1>9. ASSUME NEW p \in Publishers, DeleteState(p) PROVE TypeOK'
  <2>1. pub' \in [Publishers -> Tasks]
    BY <1>0, <1>9, Moves, Zenon DEF DeleteState
  <2> QED
    BY <1>1, <1>9, <2>1, TypeNext, Zenon DEF DeleteState
<1>10. ASSUME NEW p \in Publishers, Read(p) PROVE TypeOK'
  <2>1. pub' \in [Publishers -> Tasks]
    BY <1>0, <1>10, ReadType, Zenon
  <2> QED
    BY <1>1, <1>10, <2>1, TypeNext, Zenon DEF Read
<1>11. ASSUME NEW p \in Publishers, PrepareNothing(p) PROVE TypeOK'
  <2>1. pub' \in [Publishers -> Tasks]
    BY <1>0, <1>11, Moves, Zenon DEF PrepareNothing
  <2>2. pub[p].st \in States
    BY <1>0, <1>11, TaskFields, Zenon
  <2>3. [pub[p].st EXCEPT !.init = TRUE] \in States
    BY <2>2, Zenon DEF States
  <2>4. st' \in States \cup {NoState}
    BY <1>1, <1>11, <2>3, Zenon DEF PrepareNothing
  <2> QED
    BY <1>1, <1>11, <2>1, <2>4, TypeNext, Zenon DEF PrepareNothing
<1>12. ASSUME NEW p \in Publishers, PrepareAgain(p) PROVE TypeOK'
  <2>1. pub' \in [Publishers -> Tasks]
    BY <1>0, <1>12, Moves, Zenon DEF PrepareAgain
  <2> QED
    BY <1>1, <1>12, <2>1, TypeNext, Zenon DEF PrepareAgain
<1>13. ASSUME NEW p \in Publishers, Prepare(p) PROVE TypeOK'
  <2>1. pub' \in [Publishers -> Tasks] /\ sidecar' \in Batches
    BY <1>0, <1>13, PrepareType, Zenon
  <2> QED
    BY <1>1, <1>13, <2>1, TypeNext, Zenon DEF Prepare
<1>14. ASSUME NEW p \in Publishers, SavePending(p) PROVE TypeOK'
  <2>1. pub' \in [Publishers -> Tasks]
    BY <1>0, <1>14, Moves, Zenon DEF SavePending
  <2>2. st' \in States
    BY <1>0, <1>14, TaskFields, Zenon DEF SavePending
  <2> QED
    BY <1>1, <1>14, <2>1, <2>2, TypeNext, Zenon DEF SavePending
<1>15. ASSUME NEW p \in Publishers, WriteBatch(p) PROVE TypeOK'
  <2>1. pub' \in [Publishers -> Tasks]
    BY <1>0, <1>15, Moves, Zenon DEF WriteBatch
  <2>2. pub[p].st \in States /\ pub[p].st.pend # NoPending
    BY <1>0, <1>15, TaskFields, Zenon DEF WriteBatch, FilesInv, TaskOk, InStep, Working
  <2>3. pub[p].st.pend.path \in Nat \ {0} /\ pub[p].st.pend.batch \in Batches
    BY <2>2, StateFields, Zenon
  <2>4. files' = [i \in DOMAIN files \cup {pub[p].st.pend.path} |->
                    IF i = pub[p].st.pend.path THEN pub[p].st.pend.batch ELSE files[i]]
    BY <1>15, Zenon DEF WriteBatch
  <2>5. FileMaps(files')
    BY <1>1, <2>3, <2>4, Zenon DEF FileMaps
  <2> QED
    BY <1>1, <1>15, <2>1, <2>5, TypeNext, Zenon DEF WriteBatch
<1>16. ASSUME NEW p \in Publishers, Finalize(p) PROVE TypeOK'
  <2>1. pub[p].st.pend # NoPending
    BY <1>16, Zenon DEF Finalize, FilesInv, TaskOk, InStep, Working
  <2>2. pub' \in [Publishers -> Tasks] /\ st' \in States
    BY <1>0, <1>16, <2>1, FinalizeType, Zenon
  <2> QED
    BY <1>1, <1>16, <2>2, EmptyTypes, TypeNext, Zenon DEF Finalize
<1>17. ASSUME NEW p \in Publishers, End(p) PROVE TypeOK'
  <2>1. pub' \in [Publishers -> Tasks]
    BY <1>0, <1>17, IdleType, Replaced, Zenon DEF End
  <2>2. published' \in BOOLEAN
    BY <1>17, Zenon DEF End
  <2> QED
    BY <1>1, <1>17, <2>1, <2>2, TypeNext, Zenon DEF End
<1>18. ASSUME NEW p \in Publishers, TableFails(p) PROVE TypeOK'
  <2>1. pub' \in [Publishers -> Tasks]
    BY <1>0, <1>18, Moves, Zenon DEF TableFails
  <2> QED
    BY <1>1, <1>18, <2>1, TypeNext, Zenon DEF TableFails
<1>19. ASSUME NEW p \in Publishers, Dies(p) PROVE TypeOK'
  <2>1. pub' \in [Publishers -> Tasks]
    BY <1>0, <1>19, IdleType, Replaced, Zenon DEF Dies
  <2> QED
    BY <1>1, <1>19, <2>1, TypeNext, Zenon DEF Dies
<1> QED
  BY <1>2, <1>3, <1>4, <1>5, <1>6, <1>7, <1>8, <1>9, <1>10, <1>11, <1>12, <1>13,
     <1>14, <1>15, <1>16, <1>17, <1>18, <1>19, Zenon DEF Next, Step
-----------------------------------------------------------------------------
(* The files *)

\* What FilesInv says, taken apart once for the steps below.
LEMMA FilesParts ==
    ASSUME FilesInv
    PROVE  /\ TypeOK /\ FolderOk
           /\ st # NoState => PathOk(st, DOMAIN files, applied)
           /\ \A p \in Publishers :
                  TaskOk(pub[p], st, DOMAIN files, applied, mirror, loads)
           /\ applied \in Nat /\ DOMAIN files \in SUBSET Nat
           /\ loads \in Nat /\ st \in States \cup {NoState}
BY Zenon DEF FilesInv, TypeOK

\* What a step must leave true of the files.
FilesGoal ==
    /\ FolderOk'
    /\ st' # NoState => PathOk(st', DOMAIN files', applied')
    /\ \A p \in Publishers :
           TaskOk(pub'[p], st', DOMAIN files', applied', mirror', loads')

\* The invariant of the next state, from its parts.
LEMMA FilesNext ==
    ASSUME Library, FilesInv, [Next]_vars, FilesGoal
    PROVE  FilesInv'
<1>1. TypeOK'
  BY TypeStep, Zenon
<1> QED
  BY <1>1, Zenon DEF FilesInv, FilesGoal

\* A task that works on nothing satisfies its part.
LEMMA AtRest ==
    ASSUME NEW r, r.pc \in {"idle", "drop", "end"}, NEW s, NEW D, NEW ap, NEW mi, NEW lo
    PROVE  TaskOk(r, s, D, ap, mi, lo)
BY Zenon DEF TaskOk, InStep, Forgetting, Working

\* Fabric deletes earlier files only, so never a pending one.
LEMMA PathApplied ==
    ASSUME NEW s \in States, NEW D \in SUBSET Nat, NEW ap \in Nat, NEW i \in D,
           PathOk(s, D, ap)
    PROVE  /\ PathOk(s, {j \in D : j >= i}, i)
           /\ s.pend # NoPending =>
                  (s.pend.path \in D <=> s.pend.path \in {j \in D : j >= i})
<1>1. CASE s.pend = NoPending
  BY <1>1, Zenon DEF PathOk
<1>2. CASE s.pend # NoPending
  <2>1. s.pend.path \in Nat
    BY <1>2, StateFields, Zenon
  <2>2. i <= s.pend.path
    BY <1>2, Zenon DEF PathOk
  <2> QED
    BY <1>2, <2>1, <2>2 DEF PathOk
<1> QED
  BY <1>1, <1>2, Zenon

\* Fabric applying a file leaves the folder and the paths in order.
LEMMA FilesApply ==
    ASSUME FilesInv, FabricApply
    PROVE  FilesGoal
<1>1. PICK i \in DOMAIN files :
          /\ i > applied
          /\ applied' = i
          /\ files' = [j \in {j \in DOMAIN files : j >= i} |-> files[j]]
          /\ UNCHANGED <<st, pub, loads>>
  BY Zenon DEF FabricApply, durable, bounds
<1> DEFINE D == {j \in DOMAIN files : j >= i}
<1>2. DOMAIN files' = D
  BY <1>1, Zenon
<1>3. i \in D /\ i \in Nat /\ D \in SUBSET DOMAIN files
  BY FilesParts
<1>4. FolderOk'
  BY <1>1, <1>2, <1>3, FilesParts, Zenon DEF FolderOk
<1>5. st # NoState => PathOk(st, D, i)
  BY FilesParts, PathApplied, Zenon
<1>6. ASSUME NEW p \in Publishers
      PROVE  TaskOk(pub[p], st, D, i, mirror', loads)
  <2>1. TaskOk(pub[p], st, DOMAIN files, applied, mirror, loads) /\ pub[p].st \in States
    BY <1>6, FilesParts, TaskFields, Zenon
  <2>2. pub[p].pc \in Working =>
            /\ PathOk(pub[p].st, D, i)
            /\ pub[p].st.pend # NoPending =>
                   (pub[p].st.pend.path \in DOMAIN files <=> pub[p].st.pend.path \in D)
    BY <2>1, FilesParts, PathApplied, Zenon DEF TaskOk
  <2>3. pub[p].pc # "forget"
    BY <1>1, <2>1, Zenon DEF TaskOk, Forgetting
  <2> HIDE DEF D
  <2>4. InStep(pub[p], st, D, loads)
    BY <2>1, <2>2, Zenon DEF TaskOk, InStep
  <2> QED
    BY <2>2, <2>3, <2>4, Zenon DEF TaskOk, Forgetting
<1> HIDE DEF D
<1> QED
  BY <1>1, <1>2, <1>4, <1>5, <1>6, Zenon DEF FilesGoal

\* One task publishes: a step of p leaves no other task to consider.
LEMMA OnlyTask ==
    ASSUME Alone, NEW p \in Publishers, NEW s, NEW D, NEW ap, NEW mi, NEW lo, NEW f,
           TaskOk(f[p], s, D, ap, mi, lo)
    PROVE  \A q \in Publishers : TaskOk(f[q], s, D, ap, mi, lo)
BY Zenon DEF Alone

\* A step that leaves the folder alone leaves it in order.
LEMMA FolderSame ==
    ASSUME FolderOk, UNCHANGED <<files, applied>>
    PROVE  FolderOk'
BY Zenon DEF FolderOk

\* The start of a publish keeps the paths in order.
LEMMA FilesBegin ==
    ASSUME FilesInv, Alone, NEW p \in Publishers, NEW i \in BOOLEAN, Begin(p, i)
    PROVE  FilesGoal
<1>1. /\ pub'[p].pc \in {"read", "write", "finalize", "drop", "end"}
      /\ pub'[p].pc \in Working =>
             pub'[p].pc = Resume(Loaded(i)) /\ pub'[p].st = Loaded(i)
  BY FilesParts, BeginType, Zenon
<1>2. UNCHANGED <<st, files, applied, mirror>>
  BY Zenon DEF Begin, external, durable
<1>3. FolderOk'
  BY <1>2, FilesParts, FolderSame, Zenon
<1>4. TaskOk(pub'[p], st, DOMAIN files, applied, mirror, loads')
  <2>1. CASE pub'[p].pc \notin Working
    BY <1>1, <2>1, AtRest DEF Working
  <2>2. CASE pub'[p].pc \in Working
    <3>1. pub'[p].pc = Resume(Loaded(i)) /\ pub'[p].st = Loaded(i)
      BY <1>1, <2>2, Zenon
    <3>2. \/ Loaded(i) = PublishState /\ (st = NoState \/ st.pend = NoPending)
          \/ Loaded(i) = st /\ st # NoState
      BY Zenon DEF Loaded
    <3>3. CASE Loaded(i) = PublishState /\ (st = NoState \/ st.pend = NoPending)
      <4>1. pub'[p].st.pend = NoPending /\ pub'[p].pc = "read"
        BY <3>1, <3>3, EmptyTypes, Resumes, Zenon
      <4> QED
        BY <3>3, <4>1, Zenon DEF TaskOk, PathOk, InStep, Forgetting, Working
    <3>4. CASE Loaded(i) = st /\ st # NoState
      <4>1. PathOk(st, DOMAIN files, applied)
        BY <3>4, FilesParts, Zenon
      <4>2. /\ st.pend # NoPending => (pub'[p].pc = "finalize" <=> st.pend.path \in DOMAIN files)
            /\ st.pend = NoPending => pub'[p].pc = "read"
            /\ pub'[p].pc \in {"read", "write", "finalize", "end"}
        BY <3>1, <3>4, Resumes, Zenon
      <4>3. pub'[p].st = st
        BY <3>1, <3>4, Zenon
      <4>4. InStep(pub'[p], st, DOMAIN files, loads')
        BY <4>2, <4>3, Zenon DEF InStep, Working
      <4> QED
        BY <2>2, <4>1, <4>3, <4>4, Zenon DEF TaskOk, Forgetting, Working
    <3> QED
      BY <3>2, <3>3, <3>4, Zenon
  <2> QED
    BY <2>1, <2>2, Zenon
<1>5. \A q \in Publishers : TaskOk(pub'[q], st, DOMAIN files, applied, mirror, loads')
  BY <1>4, OnlyTask, Zenon
<1> QED
  BY <1>2, <1>3, <1>5, FilesParts, Zenon DEF FilesGoal

\* A step that ends the work of the task and writes no file.
LEMMA FilesRest ==
    ASSUME FilesInv, Alone, NEW p \in Publishers,
           pub'[p].pc \in {"idle", "drop", "end"}, UNCHANGED <<files, applied>>,
           st' # NoState => PathOk(st', DOMAIN files, applied)
    PROVE  FilesGoal
<1>1. FolderOk'
  BY FilesParts, FolderSame, Zenon
<1>2. TaskOk(pub'[p], st', DOMAIN files, applied, mirror', loads')
  BY AtRest
<1>3. \A q \in Publishers : TaskOk(pub'[q], st', DOMAIN files, applied, mirror', loads')
  BY <1>2, OnlyTask, Zenon
<1> QED
  BY <1>1, <1>3, Zenon DEF FilesGoal

\* A step within the work of the task that writes no file.
LEMMA FilesWork ==
    ASSUME FilesInv, Alone, NEW p \in Publishers,
           pub'[p].pc \in Working, UNCHANGED <<files, applied>>,
           st' # NoState => PathOk(st', DOMAIN files, applied),
           PathOk(pub'[p].st, DOMAIN files, applied),
           InStep(pub'[p], st', DOMAIN files, loads')
    PROVE  FilesGoal
<1>1. FolderOk'
  BY FilesParts, FolderSame, Zenon
<1>2. TaskOk(pub'[p], st', DOMAIN files, applied, mirror', loads')
  BY Zenon DEF TaskOk, Forgetting, Working
<1>3. \A q \in Publishers : TaskOk(pub'[q], st', DOMAIN files, applied, mirror', loads')
  BY <1>2, OnlyTask, Zenon
<1> QED
  BY <1>1, <1>3, Zenon DEF FilesGoal

\* What is known of a task at work.
LEMMA AtWork ==
    ASSUME FilesInv, NEW p \in Publishers, pub[p].pc \in Working
    PROVE  /\ pub[p].st \in States
           /\ PathOk(pub[p].st, DOMAIN files, applied)
           /\ pub[p].pc \in {"save", "write", "finalize"} => pub[p].st.pend # NoPending
           /\ pub[p].st.pend # NoPending =>
                  (pub[p].pc = "finalize" <=> pub[p].st.pend.path \in DOMAIN files)
           /\ IF pub[p].st.pend # NoPending /\ pub[p].pc # "save"
                THEN st = pub[p].st \/ (st = NoState /\ loads > 0)
                ELSE st = NoState \/ st.pend = NoPending
<1>1. TaskOk(pub[p], st, DOMAIN files, applied, mirror, loads) /\ pub[p].st \in States
  BY FilesParts, TaskFields, Zenon
<1> QED
  BY <1>1, Zenon DEF TaskOk, InStep

\* Deleting the table folder keeps the paths in order.
LEMMA FilesDrop ==
    ASSUME FilesInv, Alone, NEW p \in Publishers, DropFolder(p)
    PROVE  FilesGoal
<1>1. pub'[p].pc = "forget"
  BY FilesParts, Moves, Zenon DEF DropFolder
<1>2. DOMAIN files' = {} /\ applied' = 0 /\ mirror' = EmptyTable /\ st' = st
  BY Zenon DEF DropFolder, durable
<1>3. FolderOk'
  BY <1>2, Zenon DEF FolderOk
<1>4. TaskOk(pub'[p], st', {}, 0, EmptyTable, loads')
  BY <1>1, Zenon DEF TaskOk, InStep, Forgetting, Working
<1>5. \A q \in Publishers : TaskOk(pub'[q], st', {}, 0, EmptyTable, loads')
  BY <1>4, OnlyTask, Zenon
<1>6. st # NoState => PathOk(st, {}, 0)
  BY FilesParts, StateFields DEF PathOk
<1> QED
  BY <1>2, <1>3, <1>5, <1>6, Zenon DEF FilesGoal

\* Reading the source keeps the paths in order.
LEMMA FilesRead ==
    ASSUME FilesInv, Alone, NEW p \in Publishers, Read(p)
    PROVE  FilesGoal
<1>1. pub'[p].pc = "prepare" /\ pub'[p].st = pub[p].st
  BY FilesParts, ReadType, Zenon
<1>2. pub[p].pc = "read" /\ UNCHANGED <<st, files, applied, loads>>
  BY Zenon DEF Read, durable, external, bounds
<1>3. InStep(pub'[p], st, DOMAIN files, loads)
  BY <1>1, <1>2, AtWork, Zenon DEF InStep, Working
<1>4. PathOk(pub[p].st, DOMAIN files, applied)
  BY <1>2, AtWork, Zenon DEF Working
<1>5. pub'[p].pc \in Working
  BY <1>1, Zenon DEF Working
<1> QED
  BY <1>1, <1>2, <1>3, <1>4, <1>5, FilesParts, FilesWork, Zenon

\* A page with nothing to send keeps the paths in order.
LEMMA FilesNothing ==
    ASSUME FilesInv, Alone, NEW p \in Publishers, PrepareNothing(p)
    PROVE  FilesGoal
<1>1. pub'[p].pc = "end"
  BY FilesParts, Moves, Zenon DEF PrepareNothing
<1>2. pub[p].pc = "prepare" /\ UNCHANGED <<files, applied>>
  BY Zenon DEF PrepareNothing, external
<1>3. PathOk(pub[p].st, DOMAIN files, applied) /\ pub[p].st \in States
  BY <1>2, AtWork, Zenon DEF Working
<1>4. [pub[p].st EXCEPT !.init = TRUE].pend = pub[p].st.pend
  BY <1>3, Zenon DEF States
<1>5. PathOk([pub[p].st EXCEPT !.init = TRUE], DOMAIN files, applied)
  BY <1>3, <1>4, Zenon DEF PathOk
<1>6. st' # NoState => PathOk(st', DOMAIN files, applied)
  BY <1>5, FilesParts, Zenon DEF PrepareNothing
<1> QED
  BY <1>1, <1>2, <1>6, FilesRest, Zenon

\* Taking up a pending batch again keeps the paths in order.
LEMMA FilesAgain ==
    ASSUME FilesInv, Alone, NEW p \in Publishers, PrepareAgain(p)
    PROVE  FilesGoal
<1>1. pub'[p].pc \in {"write", "end"} /\ pub'[p].st = pub[p].st
  BY FilesParts, Moves, Zenon DEF PrepareAgain
<1>2. /\ pub[p].pc = "prepare" /\ pub[p].st.pend # NoPending
      /\ UNCHANGED <<st, files, applied, loads>>
  BY Zenon DEF PrepareAgain, durable, external, bounds
<1>3. st' # NoState => PathOk(st', DOMAIN files, applied)
  BY <1>2, FilesParts, Zenon
<1>4. CASE pub'[p].pc = "end"
  BY <1>2, <1>3, <1>4, FilesRest, Zenon
<1>5. CASE pub'[p].pc = "write"
  <2>1. InStep(pub'[p], st, DOMAIN files, loads)
    BY <1>1, <1>2, <1>5, AtWork, Zenon DEF InStep, Working
  <2>2. PathOk(pub[p].st, DOMAIN files, applied)
    BY <1>2, AtWork, Zenon DEF Working
  <2>3. pub'[p].pc \in Working
    BY <1>5, Zenon DEF Working
  <2> QED
    BY <1>1, <1>2, <1>3, <2>1, <2>2, <2>3, FilesWork, Zenon
<1> QED
  BY <1>1, <1>4, <1>5, Zenon

\* A new pending batch is given the path after the last file.
LEMMA FilesPrepare ==
    ASSUME Library, FilesInv, Alone, NEW p \in Publishers, Prepare(p)
    PROVE  FilesGoal
<1>1. /\ pub'[p].pc = "save" /\ pub'[p].st.pend = Pending(pub[p].st, pub[p].rows)
      /\ pub'[p].st.pend # NoPending
  BY FilesParts, PrepareType, Zenon
<1>2. /\ pub[p].pc = "prepare" /\ pub[p].st.pend = NoPending
      /\ UNCHANGED <<st, files, applied, loads>>
  BY Zenon DEF Prepare, external, bounds
<1>3. /\ NextFileIndex \in Nat /\ NextFileIndex > applied
      /\ \A i \in DOMAIN files : i < NextFileIndex
  BY FilesParts, NextIndex, Zenon
<1>4. pub'[p].st.pend.path = NextFileIndex
  BY <1>1 DEF Pending
<1>5. NextFileIndex \notin DOMAIN files /\ \A i \in DOMAIN files : i <= NextFileIndex
  BY <1>3, FilesParts
<1>6. PathOk(pub'[p].st, DOMAIN files, applied)
  BY <1>3, <1>4, <1>5, Zenon DEF PathOk
<1>7. st = NoState \/ st.pend = NoPending
  BY <1>2, AtWork, Zenon DEF Working
<1>8. InStep(pub'[p], st, DOMAIN files, loads)
  BY <1>1, <1>4, <1>5, <1>7, Zenon DEF InStep
<1>9. pub'[p].pc \in Working
  BY <1>1, Zenon DEF Working
<1> QED
  BY <1>2, <1>6, <1>8, <1>9, FilesParts, FilesWork, Zenon

\* Saving the pending batch keeps the paths in order.
LEMMA FilesSave ==
    ASSUME FilesInv, Alone, NEW p \in Publishers, SavePending(p)
    PROVE  FilesGoal
<1>1. pub'[p].pc = "write" /\ pub'[p].st = pub[p].st
  BY FilesParts, Moves, Zenon DEF SavePending
<1>2. pub[p].pc = "save" /\ st' = pub[p].st /\ UNCHANGED <<files, applied, loads>>
  BY Zenon DEF SavePending, external, bounds
<1>3. InStep(pub'[p], st', DOMAIN files, loads)
  BY <1>1, <1>2, AtWork, Zenon DEF InStep, Working
<1>4. PathOk(pub[p].st, DOMAIN files, applied)
  BY <1>2, AtWork, Zenon DEF Working
<1>5. pub'[p].pc \in Working
  BY <1>1, Zenon DEF Working
<1> QED
  BY <1>1, <1>2, <1>3, <1>4, <1>5, FilesWork, Zenon

\* The file that a write adds.
LEMMA NewFile ==
    ASSUME FilesInv, NEW p \in Publishers, WriteBatch(p)
    PROVE  LET pend == pub[p].st.pend
           IN  /\ pend # NoPending /\ pend.path \in Nat
               /\ pend.path \notin DOMAIN files /\ pend.path > applied
               /\ \A i \in DOMAIN files : i <= pend.path
               /\ files' = [i \in DOMAIN files \cup {pend.path} |->
                              IF i = pend.path THEN pend.batch ELSE files[i]]
               /\ DOMAIN files' = DOMAIN files \cup {pend.path}
               /\ UNCHANGED <<st, applied, mirror, loads, src, changes, strategy, torn>>
<1>1. /\ pub[p].pc = "write" /\ pub[p].pc \in Working
      /\ files' = [i \in DOMAIN files \cup {pub[p].st.pend.path} |->
                    IF i = pub[p].st.pend.path THEN pub[p].st.pend.batch ELSE files[i]]
      /\ UNCHANGED <<st, applied, mirror, loads, src, changes, strategy, torn>>
  BY Zenon DEF WriteBatch, Working, durable, external, bounds, fixed
<1>2. /\ pub[p].st \in States /\ pub[p].st.pend # NoPending
      /\ pub[p].st.pend.path \notin DOMAIN files
      /\ PathOk(pub[p].st, DOMAIN files, applied)
  BY <1>1, AtWork, Zenon
<1>3. /\ pub[p].st.pend.path \in Nat /\ pub[p].st.pend.path > applied
      /\ \A i \in DOMAIN files : i <= pub[p].st.pend.path
  BY <1>2, StateFields, Zenon DEF PathOk
<1> QED
  BY <1>1, <1>2, <1>3, Zenon

\* Writing the pending file adds it at the end of the folder.
LEMMA FilesWrite ==
    ASSUME FilesInv, Alone, NEW p \in Publishers, WriteBatch(p)
    PROVE  FilesGoal
<1> DEFINE path == pub[p].st.pend.path
           D == DOMAIN files \cup {path}
<1>1. /\ pub[p].st.pend # NoPending /\ path \in Nat
      /\ \A i \in DOMAIN files : i <= path
      /\ DOMAIN files' = D /\ UNCHANGED <<st, applied, mirror, loads>>
  BY NewFile, Zenon
<1>2. pub'[p].pc = "finalize" /\ pub'[p].st = pub[p].st
  BY FilesParts, Moves, Zenon DEF WriteBatch
<1>3. PathOk(pub[p].st, D, applied)
  BY <1>1 DEF PathOk
<1>4. st = pub[p].st \/ (st = NoState /\ loads > 0)
  <2>1. pub[p].pc = "write" /\ pub[p].pc \in Working
    BY Zenon DEF WriteBatch, Working
  <2> QED
    BY <1>1, <2>1, AtWork, Zenon
<1>5. FolderOk'
  <2>1. applied \in D \cup {0}
    BY FilesParts, Zenon DEF FolderOk
  <2>2. \A i \in D : i <= path
    BY <1>1
  <2> QED
    BY <1>1, <2>1, <2>2, Zenon DEF FolderOk
<1>6. TaskOk(pub'[p], st, D, applied, mirror, loads)
  BY <1>1, <1>2, <1>3, <1>4, Zenon DEF TaskOk, InStep, Forgetting
<1> HIDE DEF D
<1>7. \A q \in Publishers : TaskOk(pub'[q], st, D, applied, mirror, loads)
  BY <1>6, OnlyTask, Zenon
<1>8. st # NoState => PathOk(st, D, applied)
  BY <1>3, <1>4, Zenon
<1> QED
  BY <1>1, <1>5, <1>7, <1>8, Zenon DEF FilesGoal

\* Finalizing a batch that is in the folder keeps the paths in order.
LEMMA FilesFinalize ==
    ASSUME FilesInv, Alone, NEW p \in Publishers, Finalize(p)
    PROVE  FilesGoal
<1>1. pub[p].pc = "finalize" /\ pub[p].pc \in Working /\ UNCHANGED <<files, applied, loads>>
  BY Zenon DEF Finalize, Working, external, bounds
<1>2. pub[p].st.pend # NoPending /\ pub[p].st \in States
  BY <1>1, AtWork, Zenon
<1>3. /\ pub'[p].pc \in {"read", "end"} /\ pub'[p].st = st'
      /\ st' = Finalized(pub[p].st)
  BY <1>2, FilesParts, FinalizeType, Zenon
<1>4. st'.pend = NoPending
  BY <1>2, <1>3, FinalizedType, Zenon
<1>5. PathOk(st', DOMAIN files, applied)
  BY <1>4, Zenon DEF PathOk
<1>6. CASE pub'[p].pc = "end"
  BY <1>1, <1>5, <1>6, FilesRest, Zenon
<1>7. CASE pub'[p].pc = "read"
  <2>1. InStep(pub'[p], st', DOMAIN files, loads)
    BY <1>3, <1>4, <1>7, Zenon DEF InStep
  <2>2. pub'[p].pc \in Working
    BY <1>7, Zenon DEF Working
  <2> QED
    BY <1>1, <1>3, <1>5, <2>1, <2>2, FilesWork, Zenon
<1> QED
  BY <1>3, <1>6, <1>7, Zenon

\* A reset, which removes the saved state, keeps the paths in order.
LEMMA FilesReset ==
    ASSUME FilesInv, Alone, Reset
    PROVE  FilesGoal
<1>1. /\ st' = NoState /\ loads' = loads + 1 /\ UNCHANGED <<files, applied, mirror, pub>>
      /\ \A p \in Publishers : pub[p].pc \in {"idle", "read", "prepare"}
  BY Zenon DEF Reset, external
<1>2. FolderOk' /\ loads' > 0
  BY <1>1, FilesParts, FolderSame
<1>3. ASSUME NEW p \in Publishers
      PROVE  TaskOk(pub[p], NoState, DOMAIN files, applied, mirror, loads')
  <2>1. CASE pub[p].pc = "idle"
    BY <2>1, AtRest
  <2>2. CASE pub[p].pc \in {"read", "prepare"}
    <3>1. pub[p].pc \in Working
      BY <2>2, Zenon DEF Working
    <3>2. InStep(pub[p], NoState, DOMAIN files, loads')
      BY <1>2, <2>2, <3>1, AtWork, Zenon DEF InStep
    <3>3. PathOk(pub[p].st, DOMAIN files, applied)
      BY <3>1, AtWork, Zenon
    <3> QED
      BY <2>2, <3>2, <3>3, Zenon DEF TaskOk, Forgetting
  <2> QED
    BY <1>1, <1>3, <2>1, <2>2, Zenon
<1> QED
  BY <1>1, <1>2, <1>3, Zenon DEF FilesGoal

\* Every step keeps FilesInv, where one publisher works on the table.
LEMMA FilesStep ==
    ASSUME Library, FilesInv, Alone, [Next]_vars
    PROVE  FilesInv'
<1> USE DEF fixed, external, durable, bounds
<1>1. SUFFICES FilesGoal
  BY FilesNext, Zenon
<1>2. ASSUME UNCHANGED <<st, files, applied, mirror, pub, loads>> PROVE FilesGoal
  BY <1>2, FilesParts, FolderSame, Zenon DEF FilesGoal
<1>3. CASE UNCHANGED vars
  BY <1>2, <1>3, Zenon DEF vars
<1>4. CASE SourceCommit
  BY <1>2, <1>4, Zenon DEF SourceCommit
<1>5. ASSUME NEW c \in {"on", "off", "gone"}, EditConfig(c) PROVE FilesGoal
  BY <1>2, <1>5, Zenon DEF EditConfig
<1>6. ASSUME NEW p \in Publishers, DeleteState(p) PROVE FilesGoal
  <2>1. pub'[p].pc = "end"
    BY <1>6, FilesParts, Moves, Zenon DEF DeleteState
  <2>2. st' = NoState /\ UNCHANGED <<files, applied>>
    BY <1>6, Zenon DEF DeleteState
  <2> QED
    BY <1>6, <2>1, <2>2, FilesRest, Zenon
<1>7. ASSUME NEW p \in Publishers, End(p) \/ TableFails(p) \/ Dies(p) PROVE FilesGoal
  <2>1. pub'[p].pc \in {"idle", "end"}
    <3>1. CASE End(p)
      BY <1>7, <3>1, FilesParts, IdleType, Replaced, Zenon DEF End
    <3>2. CASE TableFails(p)
      BY <1>7, <3>2, FilesParts, Moves, Zenon DEF TableFails
    <3>3. CASE Dies(p)
      BY <1>7, <3>3, FilesParts, IdleType, Replaced, Zenon DEF Dies
    <3> QED
      BY <1>7, <3>1, <3>2, <3>3, Zenon
  <2>2. UNCHANGED <<st, files, applied>>
    BY <1>7, Zenon DEF End, TableFails, Dies
  <2> QED
    BY <1>7, <2>1, <2>2, FilesParts, FilesRest, Zenon
<1>8. ASSUME NEW p \in Publishers, Step(p) \/ Begin(p, TRUE) PROVE FilesGoal
  BY <1>6, <1>7, <1>8, FilesBegin, FilesDrop, FilesRead, FilesNothing, FilesAgain,
     FilesPrepare, FilesSave, FilesWrite, FilesFinalize, Zenon DEF Step
<1> QED
  BY <1>3, <1>4, <1>5, <1>7, <1>8, FilesApply, FilesReset, Zenon DEF Next

\* FilesInv holds where nothing has been published yet.
LEMMA FilesInit ==
    ASSUME Init
    PROVE  FilesInv
<1>1. /\ strategy \in {"watermark", "snapshot"} /\ tokens \in BOOLEAN
      /\ src = EmptyTable /\ changes = 0 /\ mirror = EmptyTable /\ applied = 0
      /\ loads = 0 /\ config = "on" /\ st = NoState /\ sidecar = NoPayload
      /\ published = FALSE /\ torn = FALSE
      /\ files = [i \in {} |-> NoPayload] /\ pub = [p \in Publishers |-> Idle]
  BY OpenMirrorAssumption, Zenon DEF Init
<1>2. DOMAIN files = {} /\ FileMaps(files)
  BY <1>1, Zenon DEF FileMaps
<1>3. pub \in [Publishers -> Tasks]
  BY <1>1, IdleType, Zenon
<1>4. changes \in 0 .. MaxChanges /\ applied \in Nat /\ loads \in Nat
  BY <1>1, Constants
<1>5. TypeOK
  BY <1>1, <1>2, <1>3, <1>4, EmptyTypes, TypeParts, Zenon
<1>6. FolderOk
  BY <1>1, <1>2, Zenon DEF FolderOk
<1>7. \A p \in Publishers : TaskOk(pub[p], st, DOMAIN files, applied, mirror, loads)
  BY <1>1, IdleType, AtRest
<1> QED
  BY <1>1, <1>5, <1>6, <1>7, Zenon DEF FilesInv

\* One step appends.
LEMMA AppendStep ==
    ASSUME FilesInv, [Next]_vars
    PROVE  \A i \in DOMAIN files' :
               IF i \in DOMAIN files THEN files'[i] = files[i] ELSE i > applied
<1> USE DEF fixed, external, durable, bounds
<1>1. CASE files' = files
  BY <1>1, Zenon
<1>2. CASE FabricApply
  BY <1>2, Zenon DEF FabricApply
<1>3. ASSUME NEW p \in Publishers, DropFolder(p)
      PROVE  \A i \in DOMAIN files' :
                 IF i \in DOMAIN files THEN files'[i] = files[i] ELSE i > applied
  BY <1>3, Zenon DEF DropFolder
<1>4. ASSUME NEW p \in Publishers, WriteBatch(p)
      PROVE  \A i \in DOMAIN files' :
                 IF i \in DOMAIN files THEN files'[i] = files[i] ELSE i > applied
  BY <1>4, NewFile, Zenon
<1>5. ASSUME ~ FabricApply,
             \A p \in Publishers : ~ DropFolder(p) /\ ~ WriteBatch(p)
      PROVE  files' = files
  <2>1. CASE UNCHANGED vars \/ SourceCommit \/ Reset \/ \E c \in {"on", "off", "gone"} : EditConfig(c)
    BY <2>1, Zenon DEF vars, SourceCommit, Reset, EditConfig
  <2>2. ASSUME NEW p \in Publishers,
               \/ Begin(p, FALSE) \/ DeleteState(p) \/ Read(p) \/ PrepareNothing(p)
               \/ PrepareAgain(p) \/ Prepare(p) \/ SavePending(p) \/ Finalize(p) \/ End(p)
               \/ Begin(p, TRUE) \/ TableFails(p) \/ Dies(p)
        PROVE  files' = files
    BY <2>2, Zenon DEF Begin, DeleteState, Read, PrepareNothing, PrepareAgain, Prepare,
                       SavePending, Finalize, End, TableFails, Dies
  <2> QED
    BY <1>5, <2>1, <2>2, Zenon DEF Next, Step
<1> QED
  BY <1>1, <1>2, <1>3, <1>4, <1>5, Zenon

-----------------------------------------------------------------------------
(* What the states say was published *)

\* The state s is true of the landing zone as it is now.
Holds(s, lo) == StateOk(s, strategy, Landed, src, changes, DOMAIN files, lo)

\* What a step must leave true of the content.
SavedGoal ==
    /\ st' # NoState =>
           StateOk(st', strategy', Landed', src', changes', DOMAIN files', loads')
    /\ (st' = NoState /\ strategy' = "snapshot") => Agrees(EmptyTable, Landed', loads')

LoadedGoal(p) ==
    /\ pub'[p].pc \in Working =>
           StateOk(pub'[p].st, strategy', Landed', src', changes', DOMAIN files', loads')
    /\ strategy' = "watermark" => Fetched(pub'[p], src', changes')

ContentGoal == SavedGoal /\ \A p \in Publishers : LoadedGoal(p)

\* What ContentInv says, taken apart once for the steps below.
LEMMA ContentParts ==
    ASSUME FilesInv, ContentInv, ~ torn
    PROVE  /\ st # NoState => Holds(st, loads)
           /\ (st = NoState /\ strategy = "snapshot") => Agrees(EmptyTable, Landed, loads)
           /\ \A p \in Publishers :
                  /\ pub[p].pc \in Working => Holds(pub[p].st, loads)
                  /\ strategy = "watermark" => Fetched(pub[p], src, changes)
BY Zenon DEF ContentInv, SavedOk, LoadedOk, Holds

\* The types of what the source and the initial loads are counted in.
LEMMA SourceTypes ==
    ASSUME FilesInv
    PROVE  /\ src \in [Keys -> Nat] /\ changes \in Nat /\ loads \in Nat
           /\ strategy \in {"watermark", "snapshot"}
<1>1. /\ src \in Tables /\ changes \in 0 .. MaxChanges /\ loads \in Nat
      /\ strategy \in {"watermark", "snapshot"}
  BY Zenon DEF FilesInv, TypeOK
<1>2. Contents \in SUBSET Nat /\ MaxChanges \in Nat
  BY Constants, Zenon
<1>3. src \in [Keys -> Nat]
  BY <1>1, <1>2, Zenon DEF Tables
<1> QED
  BY <1>1, <1>2, <1>3

\* A step that leaves the source, the files and Fabric alone.
Quiet == UNCHANGED <<strategy, src, changes, files, applied, mirror>>

\* What has landed depends on the folder, the applied index and the mirror alone.
LEMMA LandedSame ==
    ASSUME UNCHANGED <<files, applied, mirror>>
    PROVE  Landed' = Landed
BY Zenon DEF Landed

\* What is left to show of a step that lands nothing.
LEMMA QuietStep ==
    ASSUME Alone, NEW p \in Publishers, Quiet,
           st' # NoState => Holds(st', loads'),
           (st' = NoState /\ strategy = "snapshot") => Agrees(EmptyTable, Landed, loads'),
           pub'[p].pc \in Working => Holds(pub'[p].st, loads'),
           strategy = "watermark" => Fetched(pub'[p], src, changes)
    PROVE  ContentGoal
<1>1. Landed' = Landed
  BY LandedSame, Zenon DEF Quiet
<1>2. SavedGoal
  BY <1>1, Zenon DEF SavedGoal, Holds, Quiet
<1>3. LoadedGoal(p)
  BY <1>1, Zenon DEF LoadedGoal, Holds, Quiet
<1>4. \A q \in Publishers : q = p
  BY Zenon DEF Alone
<1> QED
  BY <1>2, <1>3, <1>4, Zenon DEF ContentGoal

\* A step after which the task has nothing of the state in hand.
LEMMA QuietRest ==
    ASSUME FilesInv, ContentInv, ~ torn, Alone, NEW p \in Publishers, Quiet,
           pub'[p].pc \in {"idle", "drop", "end"}, loads' = loads,
           st' = st \/ (st' # NoState /\ Holds(st', loads))
    PROVE  ContentGoal
<1>1. pub'[p].pc \notin Working /\ Fetched(pub'[p], src, changes)
  BY Zenon DEF Working, Fetched
<1>2. st' # NoState => Holds(st', loads')
  BY ContentParts, Zenon
<1>3. (st' = NoState /\ strategy = "snapshot") => Agrees(EmptyTable, Landed, loads')
  BY ContentParts, Zenon
<1> QED
  BY <1>1, <1>2, <1>3, QuietStep, Zenon

\* After an initial load the mirrored table may hold what no state knows of.
LEMMA AgreesLoaded ==
    ASSUME NEW ld, NEW lo, lo > 0
    PROVE  Agrees(EmptyTable, ld, lo)
BY Zenon DEF Agrees, EmptyTable

\* One initial load more asks less of the remembered keys.
LEMMA AgreesMore ==
    ASSUME NEW K, NEW ld, NEW lo \in Nat, NEW lo2 \in Nat, lo <= lo2, Agrees(K, ld, lo)
    PROVE  Agrees(K, ld, lo2)
BY DEF Agrees

\* The start of a publish takes up a state that is true of what has landed.
LEMMA ContentBegin ==
    ASSUME FilesInv, ContentInv, ~ torn, Alone,
           NEW p \in Publishers, NEW i \in BOOLEAN, Begin(p, i)
    PROVE  ContentGoal
<1>1. /\ pub'[p].pc \in {"read", "write", "finalize", "drop", "end"}
      /\ pub'[p].pc \in Working => pub'[p].st = Loaded(i)
      /\ loads' \in Nat /\ loads <= loads' /\ (i => loads' > 0)
  BY FilesParts, BeginType, Zenon
<1>2. Quiet /\ st' = st
  BY Zenon DEF Begin, Quiet, external, durable, fixed
<1>3. loads \in Nat /\ src \in [Keys -> Nat] /\ changes \in Nat
  BY SourceTypes, Zenon
<1>4. st # NoState => Holds(st, loads')
  BY <1>1, <1>3, ContentParts, StateReloaded, Zenon DEF Holds
<1>5. (st = NoState /\ strategy = "snapshot") => Agrees(EmptyTable, Landed, loads')
  BY <1>1, <1>3, ContentParts, AgreesMore, Zenon
<1>6. Holds(Loaded(i), loads')
  <2>1. CASE Loaded(i) = st /\ st # NoState
    BY <1>4, <2>1, Zenon
  <2>2. CASE Loaded(i) = PublishState /\ (st = NoState \/ i)
    <3>1. strategy = "snapshot" => Agrees(EmptyTable, Landed, loads')
      BY <1>1, <1>5, <2>2, AgreesLoaded, Zenon
    <3> QED
      BY <1>3, <2>2, <3>1, StateNew, Zenon DEF Holds
  <2> QED
    BY <2>1, <2>2, Zenon DEF Loaded
<1>7. Fetched(pub'[p], src, changes)
  BY <1>1, Zenon DEF Fetched
<1> QED
  BY <1>1, <1>2, <1>4, <1>5, <1>6, <1>7, QuietStep, Zenon

\* The page that is read is the stretch of the source after the cursor.
LEMMA ContentRead ==
    ASSUME Library, FilesInv, ContentInv, ~ torn, Alone, NEW p \in Publishers, Read(p)
    PROVE  ContentGoal
<1>1. /\ pub'[p].pc = "prepare" /\ pub'[p].st = pub[p].st
      /\ pub'[p].rows = IF strategy = "snapshot" THEN AllRows
                        ELSE Page(IF pub[p].st.pend = NoPending THEN pub[p].st.cursor
                                  ELSE pub[p].st.pend.prior)
  BY FilesParts, ReadType, Zenon
<1>2. Quiet /\ st' = st /\ loads' = loads /\ pub[p].pc = "read"
  BY Zenon DEF Read, Quiet, external, durable, fixed, bounds
<1>3. Holds(pub[p].st, loads)
  BY <1>2, ContentParts, Zenon DEF Working
<1>4. strategy = "watermark" => Fetched(pub'[p], src, changes)
  <2>1. SUFFICES ASSUME strategy = "watermark", pub[p].st.pend = NoPending,
                        DOMAIN pub'[p].rows # {}
                 PROVE  /\ NextCursor(pub'[p].rows)[1] <= changes
                        /\ Covers(pub[p].st.cursor, NextCursor(pub'[p].rows),
                                  pub'[p].rows, src)
    BY <1>1, Zenon DEF Fetched
  <2>2. pub'[p].rows = Page(pub[p].st.cursor)
    BY <1>1, <2>1, Zenon
  <2>3. pub[p].st.cursor \in Cursors
    BY FilesParts, TaskFields, StateFields, Zenon
  <2>4. \A k \in Keys : src[k] <= changes
    BY <2>1, Zenon DEF ContentInv
  <2> QED
    BY <2>1, <2>2, <2>3, <2>4, FilesParts, PageCovers, Zenon
<1> QED
  BY <1>1, <1>2, <1>3, <1>4, ContentParts, QuietStep, Zenon

\* A page with nothing to send leaves the states true of what has landed.
LEMMA ContentNothing ==
    ASSUME FilesInv, ContentInv, ~ torn, Alone, NEW p \in Publishers, PrepareNothing(p)
    PROVE  ContentGoal
<1> DEFINE s == pub[p].st
           s2 == [s EXCEPT !.init = TRUE]
<1>1. pub'[p].pc = "end"
  BY FilesParts, Moves, Zenon DEF PrepareNothing
<1>2. /\ Quiet /\ loads' = loads /\ pub[p].pc = "prepare"
      /\ st' = IF strategy = "watermark" /\ ~ s.init THEN s2 ELSE st
  BY Zenon DEF PrepareNothing, Quiet, external, fixed, bounds
<1>3. Holds(s, loads) /\ s \in States
  BY <1>2, FilesParts, TaskFields, ContentParts, Zenon DEF Working
<1>4. s2.cursor = s.cursor /\ s2.pend = s.pend /\ s2.init = TRUE
  BY <1>3, Zenon DEF States
<1>5. CASE strategy = "watermark" /\ ~ s.init
  <2>1. WatermarkOk(s, Landed, src, changes, DOMAIN files)
    BY <1>3, <1>5, Zenon DEF Holds, StateOk
  <2> HIDE DEF s, s2
  <2>2. WatermarkOk(s2, Landed, src, changes, DOMAIN files)
    BY <1>4, <2>1, Zenon DEF WatermarkOk
  <2>3. Holds(s2, loads)
    BY <1>5, <2>2, Zenon DEF Holds, StateOk
  <2>4. s2 # NoState
    BY <1>3, NoStateIsNone, Zenon DEF States, s, s2
  <2> QED
    BY <1>1, <1>2, <1>5, <2>3, <2>4, QuietRest, Zenon
<1>6. CASE ~(strategy = "watermark" /\ ~ s.init)
  BY <1>1, <1>2, <1>6, QuietRest, Zenon
<1> QED
  BY <1>5, <1>6, Zenon

\* A pending batch taken up again is still the one that was saved.
LEMMA ContentAgain ==
    ASSUME FilesInv, ContentInv, ~ torn, Alone, NEW p \in Publishers, PrepareAgain(p)
    PROVE  ContentGoal
<1>1. pub'[p].pc \in {"write", "end"} /\ pub'[p].st = pub[p].st
  BY FilesParts, Moves, Zenon DEF PrepareAgain
<1>2. Quiet /\ st' = st /\ loads' = loads /\ pub[p].pc = "prepare"
  BY Zenon DEF PrepareAgain, Quiet, external, durable, fixed, bounds
<1>3. Holds(pub[p].st, loads) /\ Fetched(pub'[p], src, changes)
  BY <1>1, <1>2, ContentParts, Zenon DEF Working, Fetched
<1> QED
  BY <1>1, <1>2, <1>3, ContentParts, QuietStep, Zenon

\* The batch of a snapshot takes the keys it was compared with to the new ones.
LEMMA BatchBridges ==
    ASSUME strategy = "snapshot", NEW s \in States, ~ s.init => s.keys = EmptyTable,
           NEW r \in RowSets, NEW k \in Keys
    PROVE  IF k \in DOMAIN Batch(s, r).rows THEN Batch(s, r).rows[k] = KeysOf(r)[k]
           ELSE KeysOf(r)[k] = s.keys[k]
<1>1. CASE s.init
  <2>1. Batch(s, r).rows = Changes(s.keys, r)
    BY <1>1, Zenon DEF Batch
  <2> QED
    BY <2>1, Zenon DEF Changes
<1>2. CASE ~ s.init
  <2>1. Batch(s, r).rows = r /\ s.keys[k] = 0
    BY <1>2, Zenon DEF Batch, EmptyTable
  <2> QED
    BY <2>1, Zenon DEF KeysOf
<1> QED
  BY <1>1, <1>2, StateFields, Zenon

\* A new pending batch covers the source between its two cursors.
LEMMA ContentPrepare ==
    ASSUME Library, FilesInv, ContentInv, ~ torn, Alone, NEW p \in Publishers, Prepare(p)
    PROVE  ContentGoal
<1> DEFINE s == pub[p].st
           r == pub[p].rows
           s2 == pub'[p].st
           N == Pending(s, r)
<1>1. /\ pub'[p].pc = "save" /\ s2 = [s EXCEPT !.pend = N]
      /\ s2.pend = N /\ N # NoPending
      /\ strategy = "watermark" => DOMAIN r # {}
  BY FilesParts, PrepareType, Zenon
<1>2. /\ Quiet /\ st' = st /\ loads' = loads
      /\ pub[p].pc = "prepare" /\ s.pend = NoPending
  BY Zenon DEF Prepare, Quiet, external, fixed, bounds
<1>3. Holds(s, loads) /\ s \in States /\ r \in RowSets
  BY <1>2, FilesParts, TaskFields, ContentParts, Zenon DEF Working
<1>4. s2.cursor = s.cursor /\ s2.keys = s.keys /\ s2.init = s.init
  BY <1>1, <1>3, Zenon DEF States
<1>5. N.path \notin DOMAIN files
  <2>1. /\ NextFileIndex \in Nat /\ \A i \in DOMAIN files : i < NextFileIndex
        /\ DOMAIN files \in SUBSET Nat
    BY FilesParts, NextIndex, Zenon
  <2> QED
    BY <2>1 DEF Pending
<1>6. Fetched(pub'[p], src, changes)
  BY <1>1, Zenon DEF Fetched
<1>7. Holds(s2, loads)
  <2>1. CASE strategy = "snapshot"
    <3>1. (~ s.init => s.keys = EmptyTable) /\ Agrees(s.keys, Landed, loads)
      BY <1>2, <1>3, <2>1, Zenon DEF Holds, StateOk, SnapshotOk
    <3>2. N.batch = Batch(s, r) /\ N.keys = KeysOf(r)
      BY <2>1, Zenon DEF Pending
    <3>3. \A k \in Keys :
              IF k \in DOMAIN Batch(s, r).rows THEN Batch(s, r).rows[k] = KeysOf(r)[k]
              ELSE KeysOf(r)[k] = s.keys[k]
      BY <1>3, <2>1, <3>1, BatchBridges, Zenon
    <3> HIDE DEF s, r, s2, N
    <3>4. Bridges(s2)
      BY <1>1, <1>4, <3>2, <3>3, Zenon DEF Bridges
    <3>5. SnapshotOk(s2, Landed, DOMAIN files, loads)
      BY <1>1, <1>4, <1>5, <3>1, <3>4, Zenon DEF SnapshotOk
    <3> QED
      BY <2>1, <3>5, Zenon DEF Holds, StateOk
  <2>2. CASE strategy = "watermark"
    <3>1. s.cursor[1] <= changes /\ Upto(s.cursor, Landed, src)
      BY <1>3, <2>2, Zenon DEF Holds, StateOk, WatermarkOk
    <3>2. N.batch.rows = r /\ N.prior = s.cursor /\ N.next = NextCursor(r)
      BY <2>2, Zenon DEF Pending, Batch
    <3>3. NextCursor(r)[1] <= changes /\ Covers(s.cursor, NextCursor(r), r, src)
      BY <1>1, <1>2, <2>2, ContentParts, Zenon DEF Fetched
    <3> HIDE DEF s, r, s2, N
    <3>4. WatermarkOk(s2, Landed, src, changes, DOMAIN files)
      BY <1>1, <1>4, <1>5, <3>1, <3>2, <3>3, Zenon DEF WatermarkOk
    <3> QED
      BY <2>2, <3>4, Zenon DEF Holds, StateOk
  <2> QED
    BY <2>1, <2>2, SourceTypes, Zenon
<1> HIDE DEF s, r, N
<1> QED
  BY <1>1, <1>2, <1>6, <1>7, ContentParts, QuietStep, Zenon

\* The saved state becomes the one the task works on.
LEMMA ContentSave ==
    ASSUME FilesInv, ContentInv, ~ torn, Alone, NEW p \in Publishers, SavePending(p)
    PROVE  ContentGoal
<1>1. pub'[p].pc = "write" /\ pub'[p].st = pub[p].st
  BY FilesParts, Moves, Zenon DEF SavePending
<1>2. Quiet /\ st' = pub[p].st /\ loads' = loads /\ pub[p].pc = "save"
  BY Zenon DEF SavePending, Quiet, external, fixed, bounds
<1>3. Holds(pub[p].st, loads) /\ Fetched(pub'[p], src, changes)
  BY <1>1, <1>2, ContentParts, Zenon DEF Working, Fetched
<1>4. pub[p].st # NoState
  BY FilesParts, TaskFields, NoStateIsNone, Zenon
<1> QED
  BY <1>1, <1>2, <1>3, <1>4, QuietStep, Zenon

\* The pending file, once written, brings what has landed up to its cursor.
LEMMA ContentWrite ==
    ASSUME Library, FilesInv, ContentInv, ~ torn, Alone, NEW p \in Publishers, WriteBatch(p)
    PROVE  ContentGoal
<1> DEFINE s == pub[p].st
           D == DOMAIN files \cup {s.pend.path}
<1>1. /\ s.pend # NoPending /\ s.pend.path \in Nat
      /\ s.pend.path \notin DOMAIN files /\ s.pend.path > applied
      /\ \A i \in DOMAIN files : i <= s.pend.path
      /\ files' = [i \in DOMAIN files \cup {s.pend.path} |->
                     IF i = s.pend.path THEN s.pend.batch ELSE files[i]]
      /\ DOMAIN files' = D
      /\ UNCHANGED <<st, applied, mirror, loads, src, changes, strategy>>
  BY NewFile, Zenon
<1>2. pub[p].pc = "write" /\ pub[p].pc \in Working
  BY Zenon DEF WriteBatch, Working
<1>3. pub'[p].pc = "finalize" /\ pub'[p].st = s
  BY FilesParts, Moves, Zenon DEF WriteBatch
<1>4. s \in States /\ Holds(s, loads)
  BY <1>2, FilesParts, TaskFields, ContentParts, Zenon
<1>5. applied \in Nat /\ DOMAIN files \in SUBSET Nat
  BY FilesParts, Zenon
<1> HIDE DEF s
<1>6. \A k \in Keys : Landed'[k] = IF k \in DOMAIN s.pend.batch.rows
                                     THEN s.pend.batch.rows[k] ELSE Landed[k]
  <2>1. SUFFICES ASSUME NEW k \in Keys
                 PROVE  Landed'[k] = IF k \in DOMAIN s.pend.batch.rows
                                       THEN s.pend.batch.rows[k] ELSE Landed[k]
    BY Zenon
  <2>2. Landed[k] = LandedAt(files, applied, mirror, k)
    BY <2>1, LandedIs, Zenon
  <2>3. Landed'[k] = LandedAt(files', applied, mirror, k)
    <3>1. Landed' = [x \in Keys |-> LandedAt(files', applied', mirror', x)]
      BY Zenon DEF Landed, LandedAt, Waiting
    <3> QED
      BY <1>1, <2>1, <3>1, Zenon
  <2>4. LandedAt(files', applied, mirror, k) =
            IF k \in DOMAIN s.pend.batch.rows THEN s.pend.batch.rows[k]
            ELSE LandedAt(files, applied, mirror, k)
    <3>1. Appended(files', files, applied, s.pend.path)
      BY <1>1, <1>5, Zenon DEF Appended
    <3>2. files'[s.pend.path] = s.pend.batch
      BY <1>1, Zenon
    <3> QED
      BY <3>1, <3>2, LandedWritten
  <2> QED
    BY <2>2, <2>3, <2>4, Zenon
<1>7. StateOk(s, strategy, Landed', src, changes, D, loads)
  <2>1. src \in [Keys -> Nat] /\ changes \in Nat
    BY SourceTypes, Zenon
  <2> QED
    BY <1>1, <1>4, <1>6, <2>1, StateWritten, Zenon DEF Holds
<1> HIDE DEF D
<1>8. st = s \/ (st = NoState /\ loads > 0)
  BY <1>1, <1>2, AtWork, Zenon DEF s
<1>9. SavedGoal
  <2>1. st # NoState => StateOk(st, strategy, Landed', src, changes, D, loads)
    BY <1>7, <1>8, Zenon
  <2>2. st = NoState => Agrees(EmptyTable, Landed', loads)
    <3>1. st = NoState => loads > 0
      BY <1>4, <1>8, NoStateIsNone, Zenon
    <3> QED
      BY <3>1, AgreesLoaded, Zenon
  <2> QED
    BY <1>1, <2>1, <2>2, Zenon DEF SavedGoal
<1>10. LoadedGoal(p)
  <2>1. Fetched(pub'[p], src, changes)
    BY <1>3, Zenon DEF Fetched
  <2> QED
    BY <1>1, <1>3, <1>7, <2>1, Zenon DEF LoadedGoal
<1>11. \A q \in Publishers : q = p
  BY Zenon DEF Alone
<1> QED
  BY <1>9, <1>10, <1>11, Zenon DEF ContentGoal

\* A cursor moves only past a batch that is in the folder.
LEMMA ContentFinalize ==
    ASSUME FilesInv, ContentInv, ~ torn, Alone, NEW p \in Publishers, Finalize(p)
    PROVE  ContentGoal
<1>1. /\ Quiet /\ loads' = loads /\ pub[p].pc = "finalize" /\ pub[p].pc \in Working
  BY Zenon DEF Finalize, Quiet, Working, external, fixed, bounds
<1>2. /\ pub[p].st.pend # NoPending /\ pub[p].st \in States
      /\ pub[p].st.pend.path \in DOMAIN files
  BY <1>1, AtWork, Zenon
<1>3. /\ pub'[p].pc \in {"read", "end"} /\ pub'[p].st = Finalized(pub[p].st)
      /\ st' = Finalized(pub[p].st) /\ st' \in States
  BY <1>2, FilesParts, FinalizeType, Zenon
<1>4. Holds(pub[p].st, loads)
  BY <1>1, ContentParts, Zenon
<1>5. Holds(Finalized(pub[p].st), loads)
  BY <1>2, <1>4, StateFinalized, Zenon DEF Holds
<1>6. Fetched(pub'[p], src, changes)
  BY <1>3, Zenon DEF Fetched
<1>7. st' # NoState
  BY <1>3, NoStateIsNone, Zenon
<1> QED
  BY <1>1, <1>3, <1>5, <1>6, <1>7, QuietStep, Zenon

\* Deleting the state, after the folder, leaves nothing landed and no state.
LEMMA ContentDelete ==
    ASSUME FilesInv, Alone, NEW p \in Publishers, DeleteState(p)
    PROVE  ContentGoal
<1>1. pub'[p].pc = "end"
  BY FilesParts, Moves, Zenon DEF DeleteState
<1>2. Quiet /\ st' = NoState /\ pub[p].pc = "forget"
  BY Zenon DEF DeleteState, Quiet, external, fixed
<1>3. TaskOk(pub[p], st, DOMAIN files, applied, mirror, loads)
  BY FilesParts, Zenon
<1>4. DOMAIN files = {} /\ mirror = EmptyTable
  BY <1>2, <1>3, Zenon DEF TaskOk, Forgetting
<1>5. \A k \in Keys : Landed[k] = EmptyTable[k]
  <2>1. SUFFICES ASSUME NEW k \in Keys PROVE Landed[k] = EmptyTable[k]
    BY Zenon
  <2>2. Waiting(files, applied, k) = {}
    BY <1>4, Zenon DEF Waiting
  <2> QED
    BY <1>4, <2>2, LandedIs, Zenon DEF LandedAt
<1>6. Agrees(EmptyTable, Landed, loads')
  BY <1>5, Zenon DEF Agrees
<1>7. pub'[p].pc \notin Working /\ Fetched(pub'[p], src, changes)
  BY <1>1, Zenon DEF Working, Fetched
<1> QED
  BY <1>2, <1>6, <1>7, QuietStep, Zenon

\* A reset leaves no saved state, and counts an initial load.
LEMMA ContentReset ==
    ASSUME FilesInv, ContentInv, Reset, ~ torn'
    PROVE  ContentGoal
<1>1. /\ st' = NoState /\ loads' = loads + 1 /\ pub' = pub /\ Quiet
      /\ torn' = (torn /\ \E p \in Publishers : pub[p].pc # "idle")
  BY Zenon DEF Reset, Quiet, external, fixed
<1>2. loads \in Nat /\ loads' \in Nat /\ loads <= loads' /\ loads' > 0
  BY <1>1, SourceTypes
<1>3. Landed' = Landed
  BY <1>1, LandedSame, Zenon DEF Quiet
<1>4. SavedGoal
  BY <1>1, <1>2, AgreesLoaded, Zenon DEF SavedGoal
<1>5. ASSUME NEW p \in Publishers PROVE LoadedGoal(p)
  <2>1. CASE pub[p].pc = "idle"
    BY <1>1, <2>1, Zenon DEF LoadedGoal, Working, Fetched
  <2>2. CASE pub[p].pc # "idle"
    <3>1. ~ torn
      BY <1>1, <1>5, <2>2, Zenon
    <3>2. pub[p].pc \in Working => Holds(pub[p].st, loads')
      BY <1>2, <1>5, <3>1, ContentParts, StateReloaded, Zenon DEF Holds
    <3>3. strategy = "watermark" => Fetched(pub[p], src, changes)
      BY <1>5, <3>1, ContentParts, Zenon
    <3> QED
      BY <1>1, <1>3, <3>2, <3>3, Zenon DEF LoadedGoal, Holds, Quiet
  <2> QED
    BY <2>1, <2>2, Zenon
<1> QED
  BY <1>4, <1>5, Zenon DEF ContentGoal

\* Fabric applying files moves rows into the mirror and changes nothing landed.
LEMMA ContentApply ==
    ASSUME Library, FilesInv, ContentInv, ~ torn, FabricApply
    PROVE  ContentGoal
<1>1. PICK i \in DOMAIN files :
          /\ i > applied
          /\ \A j \in DOMAIN files : j > applied => i <= j
          /\ mirror' = [k \in Keys |-> IF k \in DOMAIN files[i].rows
                                         THEN files[i].rows[k] ELSE mirror[k]]
          /\ applied' = i
          /\ files' = [j \in {j \in DOMAIN files : j >= i} |-> files[j]]
          /\ UNCHANGED <<strategy, src, changes, st, pub, loads>>
  BY Zenon DEF FabricApply, durable, bounds, fixed
<1> DEFINE D == {j \in DOMAIN files : j >= i}
<1>2. DOMAIN files' = D
  BY <1>1, Zenon
<1>3. DOMAIN files \in SUBSET Nat /\ applied \in Nat
  BY FilesParts, Zenon
<1>4. PICK n \in Nat : \A j \in DOMAIN files : j <= n
  BY FilesParts, Zenon DEF FolderOk
<1>5. Landed' = Landed
  <2>1. ASSUME NEW k \in Keys
        PROVE  LandedAt(files', applied', mirror', k) = LandedAt(files, applied, mirror, k)
    <3>1. mirror'[k] = IF k \in DOMAIN files[i].rows THEN files[i].rows[k] ELSE mirror[k]
      BY <1>1, <2>1, Zenon
    <3>2. LandedAt([j \in {j \in DOMAIN files : j >= i} |-> files[j]], i, mirror', k)
            = LandedAt(files, applied, mirror, k)
      BY <1>1, <1>3, <1>4, <3>1, LandedApplied
    <3> QED
      BY <1>1, <3>2, Zenon
  <2>2. Landed' = [x \in Keys |-> LandedAt(files', applied', mirror', x)]
    BY Zenon DEF Landed, LandedAt, Waiting
  <2> QED
    BY <2>1, <2>2, LandedIs, Zenon
<1>6. st # NoState => StateOk(st, strategy, Landed, src, changes, D, loads)
  <2>1. ASSUME st # NoState PROVE StateOk(st, strategy, Landed, src, changes, D, loads)
    <3>1. /\ st \in States /\ PathOk(st, DOMAIN files, applied) /\ Holds(st, loads)
      BY <2>1, FilesParts, ContentParts, Zenon
    <3>2. st.pend # NoPending => (st.pend.path \in DOMAIN files <=> st.pend.path \in D)
      BY <1>3, <3>1, PathApplied, Zenon
    <3> QED
      BY <3>1, <3>2, StateApplied, Zenon DEF Holds
  <2> QED
    BY <2>1, Zenon
<1>7. ASSUME NEW p \in Publishers, pub[p].pc \in Working
      PROVE  StateOk(pub[p].st, strategy, Landed, src, changes, D, loads)
  <2>1. /\ pub[p].st \in States /\ PathOk(pub[p].st, DOMAIN files, applied)
        /\ Holds(pub[p].st, loads)
    BY <1>7, AtWork, ContentParts, Zenon
  <2>2. pub[p].st.pend # NoPending =>
            (pub[p].st.pend.path \in DOMAIN files <=> pub[p].st.pend.path \in D)
    BY <1>3, <2>1, PathApplied, Zenon
  <2> QED
    BY <2>1, <2>2, StateApplied, Zenon DEF Holds
<1> HIDE DEF D
<1>8. SavedGoal
  BY <1>1, <1>2, <1>5, <1>6, ContentParts, Zenon DEF SavedGoal
<1>9. ASSUME NEW p \in Publishers PROVE LoadedGoal(p)
  BY <1>1, <1>2, <1>5, <1>7, <1>9, ContentParts, Zenon DEF LoadedGoal
<1> QED
  BY <1>8, <1>9, Zenon DEF ContentGoal

\* A source transaction gives the rows it changes a watermark of its own.
LEMMA SourceAdvances ==
    ASSUME FilesInv, SourceCommit, strategy = "watermark"
    PROVE  /\ Advances(src, src', changes)
           /\ (\A k \in Keys : src[k] <= changes) => \A k \in Keys : src'[k] <= changes'
<1>1. src \in [Keys -> Nat] /\ changes \in Nat /\ changes' = changes + 1
  BY SourceTypes, Zenon DEF SourceCommit
<1>2. Advances(src, src', changes)
  <2>1. CASE \E K \in SUBSET Keys \ {{}} :
                 src' = [k \in Keys |-> IF k \in K THEN changes + 1 ELSE src[k]]
    BY <2>1, Zenon DEF Advances
  <2>2. CASE \E k \in Keys : src' = [src EXCEPT ![k] = 0]
    BY <1>1, <2>2, Zenon DEF Advances
  <2> QED
    BY <2>1, <2>2, Zenon DEF SourceCommit
<1>3. ASSUME \A k \in Keys : src[k] <= changes, NEW k \in Keys
      PROVE  src'[k] <= changes'
  <2>1. src[k] \in Nat /\ src[k] <= changes
    BY <1>1, <1>3, Zenon
  <2>2. src'[k] = src[k] \/ src'[k] = changes + 1 \/ src'[k] = 0
    BY <1>2, <1>3, Zenon DEF Advances
  <2> QED
    BY <1>1, <2>1, <2>2
<1> QED
  BY <1>2, <1>3, Zenon

\* A change of the source comes after every cursor.
LEMMA ContentCommit ==
    ASSUME Library, FilesInv, ContentInv, ~ torn, SourceCommit
    PROVE  ContentGoal
<1>1. /\ changes' = changes + 1
      /\ UNCHANGED <<strategy, files, applied, mirror, st, pub, loads>>
  BY Zenon DEF SourceCommit, fixed, durable, bounds
<1>2. Landed' = Landed
  BY <1>1, LandedSame, Zenon
<1>3. changes \in Nat
  BY SourceTypes, Zenon
<1>4. ASSUME NEW s \in States, Holds(s, loads)
      PROVE  StateOk(s, strategy, Landed, src', changes', DOMAIN files, loads)
  <2>1. CASE strategy = "snapshot"
    BY <1>4, <2>1, Zenon DEF Holds, StateOk
  <2>2. CASE strategy # "snapshot"
    <3>1. Advances(src, src', changes)
      BY <2>2, SourceAdvances, SourceTypes, Zenon
    <3>2. WatermarkOk(s, Landed, src, changes, DOMAIN files)
      BY <1>4, <2>2, Zenon DEF Holds, StateOk
    <3>3. WatermarkOk(s, Landed, src', changes + 1, DOMAIN files)
      BY <1>3, <1>4, <3>1, <3>2, WatermarkAdvances, Zenon
    <3> QED
      BY <1>1, <2>2, <3>3, Zenon DEF StateOk
  <2> QED
    BY <2>1, <2>2, Zenon
<1>5. ASSUME NEW p \in Publishers, strategy = "watermark"
      PROVE  Fetched(pub[p], src', changes')
  <2>1. SUFFICES ASSUME pub[p].pc = "prepare", pub[p].st.pend = NoPending,
                        DOMAIN pub[p].rows # {}
                 PROVE  /\ NextCursor(pub[p].rows)[1] <= changes'
                        /\ Covers(pub[p].st.cursor, NextCursor(pub[p].rows),
                                  pub[p].rows, src')
    BY Zenon DEF Fetched
  <2>2. /\ NextCursor(pub[p].rows)[1] <= changes
        /\ Covers(pub[p].st.cursor, NextCursor(pub[p].rows), pub[p].rows, src)
    BY <1>5, <2>1, ContentParts, Zenon DEF Fetched
  <2>3. pub[p].rows \in RowSets
    BY <1>5, FilesParts, TaskFields, Zenon
  <2>4. NextCursor(pub[p].rows) \in Cursors /\ NextCursor(pub[p].rows)[1] \in Nat
    BY <2>1, <2>3, NextCursorType, CursorFields, Zenon
  <2>5. Covers(pub[p].st.cursor, NextCursor(pub[p].rows), pub[p].rows, src')
    BY <1>3, <1>5, <2>2, <2>4, SourceAdvances, CoversAdvances, Zenon
  <2> QED
    BY <1>1, <1>3, <2>2, <2>4, <2>5
<1>6. SavedGoal
  <2>1. st # NoState => st \in States /\ Holds(st, loads)
    BY FilesParts, ContentParts, Zenon
  <2> QED
    BY <1>1, <1>2, <1>4, <2>1, ContentParts, Zenon DEF SavedGoal
<1>7. ASSUME NEW p \in Publishers PROVE LoadedGoal(p)
  <2>1. pub[p].st \in States /\ (pub[p].pc \in Working => Holds(pub[p].st, loads))
    BY <1>7, FilesParts, TaskFields, ContentParts, Zenon
  <2> QED
    BY <1>1, <1>2, <1>4, <1>5, <1>7, <2>1, Zenon DEF LoadedGoal
<1> QED
  BY <1>6, <1>7, Zenon DEF ContentGoal

\* A step other than DropFolder, DeleteState and Reset leaves torn alone.
LEMMA ContentStep ==
    ASSUME Library, FilesInv, ContentInv, Alone, [Next]_vars
    PROVE  ContentInv'
<1> USE DEF fixed, external, durable, bounds
<1>1. strategy' = strategy
  <2>1. CASE UNCHANGED vars \/ SourceCommit \/ Reset \/ \E c \in {"on", "off", "gone"} : EditConfig(c)
    BY <2>1, Zenon DEF vars, SourceCommit, Reset, EditConfig
  <2>2. CASE FabricApply
    BY <2>2, Zenon DEF FabricApply
  <2>3. ASSUME NEW p \in Publishers, Step(p) \/ Begin(p, TRUE) \/ TableFails(p) \/ Dies(p)
        PROVE  strategy' = strategy
    BY <2>3, Zenon DEF Step, Begin, DropFolder, DeleteState, Read, PrepareNothing, PrepareAgain,
       Prepare, SavePending, WriteBatch, Finalize, End, TableFails, Dies
  <2> QED
    BY <2>1, <2>2, <2>3, Zenon DEF Next
<1>2. SourceCommit \/ UNCHANGED <<src, changes>>
  <2>1. CASE UNCHANGED vars \/ Reset \/ \E c \in {"on", "off", "gone"} : EditConfig(c)
    BY <2>1, Zenon DEF vars, Reset, EditConfig
  <2>2. CASE FabricApply
    BY <2>2, Zenon DEF FabricApply
  <2>3. ASSUME NEW p \in Publishers, Step(p) \/ Begin(p, TRUE) \/ TableFails(p) \/ Dies(p)
        PROVE  UNCHANGED <<src, changes>>
    BY <2>3, Zenon DEF Step, Begin, DropFolder, DeleteState, Read, PrepareNothing, PrepareAgain,
       Prepare, SavePending, WriteBatch, Finalize, End, TableFails, Dies
  <2> QED
    BY <2>1, <2>2, <2>3, Zenon DEF Next
<1>3. strategy' = "watermark" => \A k \in Keys : src'[k] <= changes'
  BY <1>1, <1>2, SourceAdvances, Zenon DEF ContentInv
<1>4. SUFFICES ASSUME ~ torn' PROVE ContentGoal
  BY <1>3, Zenon DEF ContentInv, ContentGoal, SavedGoal, LoadedGoal, SavedOk, LoadedOk
<1>5. ASSUME ~ torn, UNCHANGED <<strategy, src, changes, st, files, applied, mirror, pub, loads>>
      PROVE  ContentGoal
  <2>1. Landed' = Landed
    BY <1>5, LandedSame, Zenon
  <2> QED
    BY <1>5, <2>1, ContentParts, Zenon DEF ContentGoal, SavedGoal, LoadedGoal, Holds
<1>6. CASE UNCHANGED vars
  BY <1>4, <1>5, <1>6, Zenon DEF vars
<1>7. CASE SourceCommit
  <2>1. ~ torn
    BY <1>4, <1>7, Zenon DEF SourceCommit
  <2> QED
    BY <1>7, <2>1, ContentCommit, Zenon
<1>8. CASE FabricApply
  <2>1. ~ torn
    BY <1>4, <1>8 DEF FabricApply
  <2> QED
    BY <1>8, <2>1, ContentApply, Zenon
<1>9. CASE Reset
  BY <1>4, <1>9, ContentReset, Zenon
<1>10. ASSUME NEW c \in {"on", "off", "gone"}, EditConfig(c) PROVE ContentGoal
  BY <1>4, <1>5, <1>10, Zenon DEF EditConfig
<1>11. ASSUME NEW p \in Publishers, End(p) \/ TableFails(p) \/ Dies(p) PROVE ContentGoal
  <2>1. pub'[p].pc \in {"idle", "end"}
    <3>1. CASE End(p)
      BY <1>11, <3>1, FilesParts, IdleType, Replaced, Zenon DEF End
    <3>2. CASE TableFails(p)
      BY <1>11, <3>2, FilesParts, Moves, Zenon DEF TableFails
    <3>3. CASE Dies(p)
      BY <1>11, <3>3, FilesParts, IdleType, Replaced, Zenon DEF Dies
    <3> QED
      BY <1>11, <3>1, <3>2, <3>3, Zenon
  <2>2. ~ torn /\ st' = st /\ loads' = loads /\ Quiet
    <3>1. CASE End(p)
      BY <1>4, <3>1, Zenon DEF End, Quiet
    <3>2. CASE TableFails(p)
      BY <1>4, <3>2, Zenon DEF TableFails, Quiet
    <3>3. CASE Dies(p)
      BY <1>4, <3>3, Zenon DEF Dies, Quiet
    <3> QED
      BY <1>11, <3>1, <3>2, <3>3, Zenon
  <2> QED
    BY <1>11, <2>1, <2>2, QuietRest, Zenon
<1>12. ASSUME NEW p \in Publishers, DropFolder(p) PROVE ContentGoal
  BY <1>4, <1>12, Zenon DEF DropFolder
<1>13. ASSUME NEW p \in Publishers,
              \/ Begin(p, TRUE) \/ Begin(p, FALSE) \/ Read(p) \/ PrepareNothing(p)
              \/ PrepareAgain(p) \/ Prepare(p) \/ SavePending(p) \/ WriteBatch(p)
              \/ Finalize(p)
       PROVE  ContentGoal
  <2>1. ~ torn
    BY <1>4, <1>13, Zenon DEF Begin, Read, PrepareNothing, PrepareAgain, Prepare,
                              SavePending, WriteBatch, Finalize
  <2> QED
    BY <1>13, <2>1, ContentBegin, ContentRead, ContentNothing, ContentAgain, ContentPrepare,
       ContentSave, ContentWrite, ContentFinalize, Zenon
<1> QED
  BY <1>6, <1>7, <1>8, <1>9, <1>10, <1>11, <1>12, <1>13, ContentDelete, Zenon DEF Next, Step

\* ContentInv holds where nothing has been published yet.
LEMMA ContentInit ==
    ASSUME Init
    PROVE  ContentInv
<1>1. /\ src = EmptyTable /\ changes = 0 /\ st = NoState /\ mirror = EmptyTable
      /\ files = [i \in {} |-> NoPayload] /\ pub = [p \in Publishers |-> Idle]
  BY Zenon DEF Init
<1>2. \A k \in Keys : src[k] <= changes
  BY <1>1 DEF EmptyTable
<1>3. \A k \in Keys : Landed[k] = EmptyTable[k]
  <2>1. SUFFICES ASSUME NEW k \in Keys PROVE Landed[k] = EmptyTable[k]
    BY Zenon
  <2>2. Waiting(files, applied, k) = {}
    BY <1>1, Zenon DEF Waiting
  <2> QED
    BY <1>1, <2>2, LandedIs, Zenon DEF LandedAt
<1>4. SavedOk
  BY <1>1, <1>3, Zenon DEF SavedOk, Agrees
<1>5. \A p \in Publishers : LoadedOk(p)
  BY <1>1, IdleType, Zenon DEF LoadedOk, Working, Fetched
<1> QED
  BY <1>2, <1>4, <1>5, Zenon DEF ContentInv
-----------------------------------------------------------------------------
(* The theorems *)

\* What it is to be finite and to have a size, spelled out: the library below brings
\* its own copy of the two definitions.
Listed(S) == \E seq \in Seq(S) : \A s \in S : \E n \in 1 .. Len(seq) : seq[n] = s
Size(S) ==
    LET CS[T \in SUBSET S] == IF T = {} THEN 0 ELSE 1 + CS[T \ {CHOOSE x : x \in T}]
    IN CS[S]

\* The model's sizes are these.
LEMMA SizeOfModel == Listed(Keys) /\ \A S : Cardinality(S) = Size(S)
  BY OpenMirrorAssumption, Zenon DEF IsFiniteSet, Cardinality, Listed, Size

LOCAL INSTANCE FiniteSetTheorems

\* The library's sizes are these as well.
LEMMA SizeOfLibrary == /\ \A S : Listed(S) => IsFiniteSet(S)
                       /\ \A S : Cardinality(S) = Size(S)
  BY Zenon DEF IsFiniteSet, Cardinality, Listed, Size

\* A bounded set of file indexes that is not empty has a last one: the least of
\* its bounds.
LEMMA Greatest ==
    ASSUME NEW S \in SUBSET Nat, S # {}, NEW n \in Nat, \A k \in S : k <= n
    PROVE  \E j \in S : \A k \in S : k <= j
<1> DEFINE R == {ss \in Nat \X Nat : ss[1] < ss[2]}
           U == {u \in Nat : \A k \in S : k <= u}
<1>1. OpToRel(<, Nat) = R
  BY Zenon DEF OpToRel
<1>2. IsWellFoundedOn(R, Nat)
  BY <1>1, NatLessThanWellFounded, Zenon
<1>3. U \in SUBSET Nat /\ U # {}
  BY Zenon
<1> HIDE DEF R, U
<1>4. PICK u \in U : \A v \in U : <<v, u>> \notin R
  BY <1>2, <1>3, WFMin, Zenon
<1>5. u \in Nat /\ \A k \in S : k <= u
  BY Zenon DEF U
<1>6. u \in S
  <2>1. SUFFICES ASSUME u \notin S PROVE FALSE
    BY Zenon
  <2>2. \A k \in S : k \in Nat /\ k < u
    BY <1>5, <2>1
  <2>3. u - 1 \in Nat
    <3>1. PICK k \in S : TRUE
      BY Zenon
    <3> QED
      BY <1>5, <2>2, <3>1
  <2>4. u - 1 \in U /\ <<u - 1, u>> \in R
    BY <1>5, <2>2, <2>3 DEF R, U
  <2> QED
    BY <1>4, <2>4, Zenon
<1> QED
  BY <1>5, <1>6, Zenon

\* The facts about sets that the steps rest on.
LEMMA LibraryHolds == Library
<1>1. ASSUME NEW S \in SUBSET Nat, NEW n \in Nat, S # {}, \A k \in S : k <= n
      PROVE  \E j \in S : \A k \in S : k <= j
  BY <1>1, Greatest, Zenon
<1>2. ASSUME NEW T \in SUBSET Keys, NEW U \in SUBSET T
      PROVE  Size(T) \in Nat /\ Size(U) \in Nat /\ Size(U) <= Size(T)
  <2>1. IsFiniteSet(T)
    BY SizeOfModel, SizeOfLibrary, FS_Subset, Zenon
  <2>2. IsFiniteSet(U) /\ Cardinality(U) <= Cardinality(T)
    BY <2>1, FS_Subset, Zenon
  <2> QED
    BY <2>1, <2>2, FS_CardinalityType, SizeOfLibrary, Zenon
<1> QED
  BY <1>1, <1>2, SizeOfModel, Zenon DEF Library

\* The numbers of the landing zone and the pending batches agree in every
\* state, through every crash, reset and drop between two durable effects of
\* publish_table.
THEOREM FilesInductive == Alone => (Spec => []FilesInv)
<1> SUFFICES ASSUME Alone PROVE Spec => []FilesInv
  BY Zenon
<1>1. Init => FilesInv
  BY FilesInit, Zenon
<1>2. FilesInv /\ [Next]_vars => FilesInv'
  BY LibraryHolds, FilesStep, Zenon
<1> QED
  BY <1>1, <1>2, PTL DEF Spec

\* The landing zone is append-only while one task publishes the table: every
\* number is written once and past what Fabric has applied, for any number of
\* failures between reserve_batch_path, save_state and write_batch_at.
THEOREM LandingZoneIsAppended == Alone => (Spec => FilesAreAppended)
<1> SUFFICES ASSUME Alone PROVE Spec => FilesAreAppended
  BY Zenon
<1>1. FilesInv /\ [Next]_vars =>
          [\A i \in DOMAIN files' :
               IF i \in DOMAIN files THEN files'[i] = files[i] ELSE i > applied]_vars
  BY AppendStep, Zenon
<1> QED
  BY <1>1, FilesInductive, PTL DEF Spec, FilesAreAppended

\* The saved state never runs ahead of the landing zone while one task
\* publishes the table, for any table, page size and number of source
\* transactions, failures, resets and drops: what save_state wrote as final is
\* in the files, so no crash between the read, the upload and _finalize_pending
\* skips or forgets a row.
THEOREM StateFollowsLanding == Alone => (Spec => []StateMatchesLanded)
<1> SUFFICES ASSUME Alone PROVE Spec => []StateMatchesLanded
  BY Zenon
<1>1. Init => ContentInv
  BY ContentInit, Zenon
<1>2. FilesInv /\ ContentInv /\ [Next]_vars => ContentInv'
  BY LibraryHolds, ContentStep, Zenon
<1>3. FilesInv /\ ContentInv => StateMatchesLanded
  <2>1. SUFFICES ASSUME FilesInv, ContentInv, st # NoState, ~ torn
                 PROVE  IF strategy = "snapshot"
                        THEN st.pend = NoPending =>
                               \A k \in Keys : \/ Landed[k] = st.keys[k]
                                               \/ loads > 0 /\ st.keys[k] = 0
                        ELSE \A k \in Keys :
                               (src[k] # 0 /\ ~ Precedes(st.cursor, <<src[k], k>>))
                                   => Landed[k] = src[k]
    BY Zenon DEF StateMatchesLanded
  <2>2. Holds(st, loads)
    BY <2>1, ContentParts, Zenon
  <2>3. CASE strategy = "snapshot"
    BY <2>2, <2>3, Zenon DEF Holds, StateOk, SnapshotOk, Agrees
  <2>4. CASE strategy # "snapshot"
    BY <2>2, <2>4, Zenon DEF Holds, StateOk, WatermarkOk, Upto
  <2> QED
    BY <2>3, <2>4, Zenon
<1> QED
  BY <1>1, <1>2, <1>3, FilesInductive, PTL DEF Spec
=============================================================================
