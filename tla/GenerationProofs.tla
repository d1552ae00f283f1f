-------------------------- MODULE GenerationProofs --------------------------
(***************************************************************************)
(* What Generation promises, for any number of shard lives, splits, source *)
(* versions and deployments: the bytes declared are the bytes served, the  *)
(* image CURRENT points to is whole, and CURRENT goes back only through a  *)
(* takeover that fell between a publisher's check and its put.             *)
(*                                                                         *)
(* No generation owns a key of the split data, so the argument rests on    *)
(* what may be under it: a key is written once, whoever writes it, and     *)
(* each process that stored or finished a split holds those very bytes.    *)
(* The image rests on the fence: a generation belongs to one coordinator,  *)
(* and nobody else stages its objects, so they are untouched until that    *)
(* coordinator stages them and fixed once it has written READY.json.       *)
(***************************************************************************)
EXTENDS Generation, FiniteSetTheorems, TLAPS

-----------------------------------------------------------------------------
(* The inductive invariant *)

Phases == {"start", "acquire", "confirm", "putBuild", "plan", "planned", "planFail",
           "failPut", "joined", "build", "serve", "image", "imageSwap", "imagePut",
           "ready", "activate", "activeBuild", "failed"}
Stages == {"todo", "made", "stored", "rejoin", "done"}

Acquiring == {"start", "acquire"}
BeforeImage == {"confirm", "putBuild", "plan", "planned", "planFail", "failPut", "build"}
Staging   == {"image", "imageSwap", "imagePut"}
Final     == {"ready", "activate", "activeBuild"}

States    == {"none", "PREPARING", "READY", "FAILED", "ACTIVE"}
BuildRecs == [gen : Nat, state : States]
LoopRecs  == [at : {"off", "idle", "put"}, put : BuildRecs]
CoordRecs == [gen : Nat, shards : Nat, plan : States]
ByteRecs  == [ver : Nat, by : Nat]
ProcRecs  == [at : Phases, gen : Nat, ver : Nat, by : Nat, active : BOOLEAN, put : BuildRecs]
SplitRecs == [st : Stages, gen : Nat, again : BOOLEAN, bytes : ByteRecs]

Types ==
    /\ source \in Nat \ {0}
    /\ coord \in CoordRecs /\ live \in BOOLEAN
    /\ build \in BuildRecs
    /\ current \in Nat
    /\ data \in [Splits -> ByteRecs] /\ comp \in [Gens -> [Splits -> ByteRecs]]
    /\ image \in [Gens -> [Splits -> ByteRecs]] /\ ready \subseteq Gens
    /\ proc \in [Procs -> ProcRecs]
    /\ sp \in [Procs -> [Splits -> SplitRecs]]
    /\ loop \in [Procs -> LoopRecs]
    /\ rewound \in BOOLEAN

\* Lives of shard 0 that have used up their one compare-and-swap.
Begun == {a \in Coordinators : proc[a].at \notin Acquiring}

\* A fence is given out once, to a coordinator that keeps it to itself.
Fences ==
    /\ coord.gen <= Cardinality(Begun)
    /\ live => coord.gen > 0
    /\ current <= coord.gen
    /\ \A a \in Procs : proc[a].gen <= coord.gen
    /\ \A a \in Procs : proc[a].at \in {"acquire"} \cup (BeforeImage \ {"build"}) \cup Staging \cup Final
                           => a \in Coordinators
    /\ \A a \in Coordinators : proc[a].at # "joined"
    /\ \A a \in Coordinators : proc[a].at \notin Acquiring \cup {"failed"} => proc[a].gen > 0
    /\ \A a, b \in Coordinators : a # b /\ proc[a].gen = proc[b].gen => proc[a].gen = 0
    /\ \A a \in Coordinators : proc[a].at = "activate" /\ ~rewound => proc[a].gen = coord.gen

\* What process and split hold, given the bytes d under the split's key.
SplitOk(x, d) ==
    /\ x.st \in {"made", "stored", "done"} => x.bytes # NoBytes
    /\ x.st \in {"stored", "done"} => x.bytes = d

\* Everything said of a split's bytes agrees with its key.
Agreed ==
    /\ \A a \in Procs, s \in Splits : SplitOk(sp[a][s], data[s])
    /\ \A g \in Gens, s \in Splits : comp[g][s] \in {NoBytes, data[s]}
    /\ \A g \in Gens, s \in Splits : image[g][s] \in {NoBytes, data[s]}

Unstarted(g) == \A s \in Splits : image[g][s] = NoBytes
Complete(g)  == \A s \in Splits : image[g][s] # NoBytes

\* The table is not quarantined in coordinator a.
Whole(a) == IsAdmin(a) \/ \A s \in Splits : sp[a][s].st = "done"

\* The image of a coordinator's generation, by how far the coordinator is.
ImageOf(a) ==
    /\ proc[a].at \in BeforeImage => Unstarted(proc[a].gen) /\ proc[a].gen \notin ready
    /\ proc[a].at \in Staging =>
         proc[a].gen \notin ready /\ (Whole(a) \/ Unstarted(proc[a].gen))
    /\ proc[a].at \in Final => proc[a].gen \in ready

\* An image is untouched, then staged by its coordinator, then fixed.
Images ==
    /\ current # 0 => current \in ready
    /\ \A g \in ready : Unstarted(g) \/ Complete(g)
    /\ \A g \in Gens : g > coord.gen => Unstarted(g) /\ g \notin ready
    /\ \A a \in Coordinators : ImageOf(a)
    /\ \A a \in Procs : proc[a].at \notin {"build", "serve"} =>
                           \A s \in Splits : sp[a][s].st # "rejoin"
    /\ \A a \in Procs, s \in Splits : sp[a][s].st = "rejoin" => deploy.lazy

IInv == Types /\ Fences /\ Agreed /\ Images

-----------------------------------------------------------------------------
(* A step of one process that leaves bytes, images and fences alone *)

\* What a coordinator at x may become.
Follows(x, y) ==
    /\ y # "joined"
    /\ y \in Acquiring => x \in Acquiring
    /\ y \notin Acquiring \cup {"failed"} => x \notin Acquiring \cup {"failed"}
    /\ y \in BeforeImage => x \in BeforeImage
    /\ y \in Staging => x \in BeforeImage \cup Staging

\* Process a keeps its fence, loses it by dying, or joins as a worker.
Moved(a) ==
    /\ \A b \in Procs : b # a => proc'[b] = proc[b] /\ sp'[b] = sp[b]
    /\ \/ proc'[a].gen = proc[a].gen
       \/ proc'[a].gen = 0 /\ proc'[a].at = "failed"
       \/ a \notin Coordinators /\ proc'[a].gen = coord.gen
    /\ a \in Coordinators => Follows(proc[a].at, proc'[a].at)
    /\ a \notin Coordinators => proc'[a].at \in {"start", "joined", "build", "serve", "failed"}

\* The splits of process a, after it moved.
SplitsMoved(a) ==
    /\ proc'[a].at \notin {"build", "serve"} => \A s \in Splits : sp'[a][s].st # "rejoin"
    /\ \A s \in Splits : sp'[a][s].st = "rejoin" => deploy.lazy
    /\ proc[a].at \in Staging /\ proc'[a].at \in Staging => sp'[a] = sp[a]

SameFence == coord'.gen = coord.gen /\ (live' => coord.gen > 0)

Quiet(a) ==
    /\ Moved(a) /\ SplitsMoved(a) /\ SameFence
    /\ proc'[a].at = "activate" => proc[a].gen = coord.gen
    /\ proc'[a].at \in Final => proc[a].at \in Final
    /\ \A s \in Splits : SplitOk(sp'[a][s], data[s])
    /\ UNCHANGED <<deploy, data, comp, image, ready, current, rewound>>

-----------------------------------------------------------------------------
(* Facts about fences and records *)

\* There are no more generations than lives of shard 0, so a fence in use names one.
LEMMA FenceBound == ASSUME Types, Fences PROVE coord.gen <= Cardinality(Coordinators)
<1>1. IsFiniteSet(Coordinators) /\ Begun \subseteq Coordinators
  BY GenerationAssumption, Zenon DEF Begun
<1>2. /\ Cardinality(Begun) \in Nat /\ Cardinality(Coordinators) \in Nat
      /\ Cardinality(Begun) <= Cardinality(Coordinators)
  BY <1>1, FS_Subset, FS_CardinalityType, Zenon
<1> QED
  BY <1>2 DEF Types, Fences, CoordRecs

\* A coordinator past its compare-and-swap has a generation of its own.
LEMMA OwnGeneration ==
  ASSUME Types, Fences, NEW a \in Coordinators,
         proc[a].at \notin Acquiring \cup {"failed"}
  PROVE  proc[a].gen \in Gens
<1>1. proc[a].gen \in Nat /\ proc[a].gen > 0 /\ proc[a].gen <= coord.gen /\ coord.gen \in Nat
  BY Zenon DEF Types, Fences, Procs, ProcRecs, CoordRecs
<1>2. Cardinality(Coordinators) \in Nat
  BY GenerationAssumption, FS_CardinalityType, Zenon
<1> QED
  BY <1>1, <1>2, FenceBound DEF Gens

\* The generation whose lease is held is one.
LEMMA HeldGeneration ==
  ASSUME Types, Fences, NEW g, HoldsLease(g) PROVE g \in Gens /\ g = coord.gen
<1>1. g = coord.gen /\ coord.gen \in Nat /\ coord.gen > 0
  BY Zenon DEF HoldsLease, Types, Fences, CoordRecs
<1>2. Cardinality(Coordinators) \in Nat
  BY GenerationAssumption, FS_CardinalityType, Zenon
<1> QED
  BY <1>1, <1>2, FenceBound DEF Gens

\* The fields of the empty records.
LEMMA EmptyRecords ==
  /\ NoBytes \in ByteRecs /\ NoBuild \in BuildRecs
  /\ NoProc \in ProcRecs /\ NoSplit \in SplitRecs /\ NoSplit.st = "todo"
  /\ NoLoop \in LoopRecs
<1>1. NoBytes \in ByteRecs
  BY Zenon DEF NoBytes, ByteRecs
<1>2. NoBuild \in BuildRecs
  BY Zenon DEF NoBuild, BuildRecs, States
<1>3. NoProc \in ProcRecs
  BY <1>2, Zenon DEF NoProc, ProcRecs, Phases
<1>4. NoSplit \in SplitRecs /\ NoSplit.st = "todo"
  BY <1>1, Zenon DEF NoSplit, SplitRecs, Stages
<1>5. NoLoop \in LoopRecs
  BY <1>2, Zenon DEF NoLoop, LoopRecs
<1> QED
  BY <1>1, <1>2, <1>3, <1>4, <1>5, Zenon

-----------------------------------------------------------------------------
(* Quiet steps keep the invariant *)

\* No fence is given out: the others keep theirs, and a does not get one.
LEMMA FencesKept ==
  ASSUME IInv, Types', NEW a \in Procs, Moved(a), SameFence,
         proc'[a].at = "activate" => proc[a].at = "activate" \/ proc[a].gen = coord.gen,
         current' <= coord.gen, rewound' = rewound
  PROVE  Fences'
<1> USE DEF IInv
<1>1. coord.gen \in Nat /\ coord'.gen = coord.gen /\ Coordinators \subseteq Procs
  BY Zenon DEF Types, CoordRecs, SameFence, Procs
<1>2. \A b \in Procs : b # a => proc'[b] = proc[b]
  BY Zenon DEF Moved
<1>3. coord'.gen <= Cardinality(Begun')
  <2>1. Begun \subseteq Begun'
    BY <1>1, <1>2, Zenon DEF Begun, Moved, Follows
  <2>2. IsFiniteSet(Begun')
    BY GenerationAssumption, FS_Subset, Zenon DEF Begun
  <2>3. Cardinality(Begun) \in Nat /\ Cardinality(Begun') \in Nat /\ Cardinality(Begun) <= Cardinality(Begun')
    BY <2>1, <2>2, FS_Subset, FS_CardinalityType, Zenon
  <2> QED
    BY <1>1, <2>3 DEF Fences
<1>4. \A b \in Procs : proc'[b].gen <= coord.gen
  BY <1>1, <1>2 DEF Moved, Fences
<1>5. \A b \in Procs : proc'[b].at \in {"acquire"} \cup (BeforeImage \ {"build"}) \cup Staging \cup Final
                           => b \in Coordinators
  BY <1>2, Zenon DEF Moved, Fences, BeforeImage, Staging, Final
<1>6. \A b \in Coordinators : proc'[b].at \notin Acquiring \cup {"failed"} => proc'[b].gen > 0
  BY <1>1, <1>2, Zenon DEF Moved, Follows, Fences
<1>7. \A b, c \in Coordinators : b # c /\ proc'[b].gen = proc'[c].gen => proc'[b].gen = 0
  BY <1>1, <1>2 DEF Moved, Fences
<1>8. \A b \in Coordinators : proc'[b].at = "activate" /\ ~rewound => proc'[b].gen = coord.gen
  BY <1>1, <1>2, Zenon DEF Moved, Fences
<1>9. (live' => coord.gen > 0) /\ current' <= coord.gen
  BY Zenon DEF SameFence
<1>10. \A b \in Coordinators : proc'[b].at # "joined"
  BY <1>1, <1>2, Zenon DEF Moved, Follows, Fences
<1> QED
  BY <1>1, <1>3, <1>4, <1>5, <1>6, <1>7, <1>8, <1>9, <1>10, Zenon DEF Fences

\* A key is written once: what agreed with it before still does.
LEMMA AgreedKept ==
  ASSUME IInv, NEW a \in Procs,
         \A b \in Procs : b # a => sp'[b] = sp[b],
         \A s \in Splits : data'[s] = data[s] \/ data[s] = NoBytes,
         \A s \in Splits : SplitOk(sp'[a][s], data'[s]),
         \A g \in Gens, s \in Splits : comp'[g][s] \in {comp[g][s], data'[s]},
         \A g \in Gens, s \in Splits : image'[g][s] \in {image[g][s], data'[s]}
  PROVE  Agreed'
<1>1. \A b \in Procs, s \in Splits : SplitOk(sp'[b][s], data'[s])
  <2> SUFFICES ASSUME NEW b \in Procs, NEW s \in Splits, b # a PROVE SplitOk(sp[b][s], data'[s])
    BY Zenon
  <2>1. SplitOk(sp[b][s], data[s])
    BY Zenon DEF IInv, Agreed
  <2> QED
    BY <2>1, Zenon DEF SplitOk
<1>2. \A g \in Gens, s \in Splits : comp'[g][s] \in {NoBytes, data'[s]}
  BY DEF IInv, Agreed
<1>3. \A g \in Gens, s \in Splits : image'[g][s] \in {NoBytes, data'[s]}
  BY DEF IInv, Agreed
<1> QED
  BY <1>1, <1>2, <1>3, Zenon DEF Agreed

\* No image changes, and a comes no nearer to staging than its image allows.
LEMMA ImagesKept ==
  ASSUME IInv, NEW a \in Procs, Moved(a), SplitsMoved(a), coord'.gen = coord.gen,
         proc'[a].at \in Final => proc[a].at \in Final,
         UNCHANGED <<deploy, image, ready>>, current' # 0 => current' \in ready
  PROVE  Images'
<1> USE DEF IInv
<1>1. \A b \in Procs : b # a => proc'[b] = proc[b] /\ sp'[b] = sp[b]
  BY Zenon DEF Moved
<1>2. \A g : Unstarted(g)' = Unstarted(g) /\ Complete(g)' = Complete(g)
  BY Zenon DEF Unstarted, Complete
<1>3. /\ current' # 0 => current' \in ready'
      /\ \A g \in ready' : Unstarted(g)' \/ Complete(g)'
      /\ \A g \in Gens : g > coord'.gen => Unstarted(g)' /\ g \notin ready'
  BY <1>2, Zenon DEF Images
<1>4. ASSUME NEW b \in Coordinators, b # a PROVE ImageOf(b)'
  <2>1. proc'[b] = proc[b] /\ sp'[b] = sp[b] /\ (Whole(b) => Whole(b)')
    BY <1>1, <1>4, Zenon DEF Whole, IsAdmin, Procs
  <2> QED
    BY <1>2, <1>4, <2>1, Zenon DEF Images, ImageOf
<1>5. ASSUME a \in Coordinators PROVE ImageOf(a)'
  <2>1. \/ proc'[a].gen = proc[a].gen /\ Follows(proc[a].at, proc'[a].at)
        \/ proc'[a].at = "failed"
    BY <1>5, Zenon DEF Moved
  <2>2. "failed" \notin BeforeImage \cup Staging \cup Final
    BY Zenon DEF BeforeImage, Staging, Final
  <2>3. CASE proc'[a].gen = proc[a].gen /\ Follows(proc[a].at, proc'[a].at)
    <3>1. proc[a].at \in Staging /\ proc'[a].at \in Staging /\ Whole(a) => Whole(a)'
      BY Zenon DEF SplitsMoved, Whole, IsAdmin
    <3> QED
      BY <1>2, <1>5, <2>3, <3>1, Zenon DEF Follows, Images, ImageOf
  <2> QED
    BY <2>1, <2>2, <2>3, Zenon DEF ImageOf
<1>6. \A b \in Procs : proc'[b].at \notin {"build", "serve"} =>
                           \A s \in Splits : sp'[b][s].st # "rejoin"
  BY <1>1, Zenon DEF SplitsMoved, Images
<1>7. \A b \in Procs, s \in Splits : sp'[b][s].st = "rejoin" => deploy'.lazy
  BY <1>1, Zenon DEF SplitsMoved, Images
<1> QED
  BY <1>3, <1>4, <1>5, <1>6, <1>7, Zenon DEF Images

\* A quiet step keeps the invariant.
LEMMA QuietKeeps == ASSUME IInv, Types', NEW a \in Procs, Quiet(a) PROVE IInv' /\ current' = current
<1>1. Fences'
  BY FencesKept, Zenon DEF Quiet, IInv, Fences
<1>2. Agreed'
  BY AgreedKept, Zenon DEF Quiet, Moved
<1>3. Images'
  BY ImagesKept, Zenon DEF Quiet, SameFence, IInv, Images
<1> QED
  BY <1>1, <1>2, <1>3, Zenon DEF IInv, Quiet

-----------------------------------------------------------------------------
(* The quiet steps of the code: a process moves on, enters its splits, dies *)

\* What every quiet step does to the rest of the state.
Around ==
    /\ source' \in Nat \ {0} /\ coord' \in CoordRecs /\ live' \in BOOLEAN /\ build' \in BuildRecs
    /\ SameFence
    /\ UNCHANGED <<deploy, data, comp, image, ready, current, rewound>>

\* A step of the environment or of a renewal loop keeps the invariant.
LEMMA StayKeeps ==
  ASSUME IInv, Around, UNCHANGED <<proc, sp>>, loop' \in [Procs -> LoopRecs]
  PROVE  IInv' /\ current' = current
<1>1. Types'
  BY Zenon DEF IInv, Types, Around
<1>2. Begun' = Begun /\ coord'.gen = coord.gen /\ (live' => coord.gen > 0)
  BY Zenon DEF Begun, Around, SameFence
<1>3. Fences'
  BY <1>2, Zenon DEF IInv, Fences, Around
<1>4. Agreed'
  BY Zenon DEF IInv, Agreed, Around
<1>5. Images'
  <2>1. \A g : (Unstarted(g) => Unstarted(g)') /\ (Complete(g) => Complete(g)')
    BY Zenon DEF Unstarted, Complete, Around
  <2>2. \A a \in Coordinators : ImageOf(a)'
    BY <2>1, Zenon DEF IInv, Images, ImageOf, Whole, IsAdmin, Around
  <2> QED
    BY <1>2, <2>1, <2>2, Zenon DEF IInv, Images, Around
<1> QED
  BY <1>1, <1>3, <1>4, <1>5, Zenon DEF IInv, Around

\* The pieces of a quiet step.
LEMMA MoveKeeps ==
  ASSUME IInv, Around, NEW a \in Procs,
         proc' \in [Procs -> ProcRecs], sp' \in [Procs -> [Splits -> SplitRecs]],
         loop' \in [Procs -> LoopRecs],
         Moved(a), SplitsMoved(a),
         proc'[a].at = "activate" => proc[a].gen = coord.gen,
         proc'[a].at \in Final => proc[a].at \in Final,
         \A s \in Splits : SplitOk(sp'[a][s], data[s])
  PROVE  IInv' /\ current' = current
<1>1. Types'
  BY Zenon DEF IInv, Types, Around
<1>2. Quiet(a)
  BY Zenon DEF Quiet, Around
<1> QED
  BY <1>1, <1>2, QuietKeeps, Zenon

\* A process moves on with its splits as they are.
LEMMA PassKeeps ==
  ASSUME IInv, Around, NEW a \in Procs, sp' = sp, loop' \in [Procs -> LoopRecs],
         proc' \in [Procs -> ProcRecs], \A b \in Procs : b # a => proc'[b] = proc[b],
         \/ proc'[a].gen = proc[a].gen
         \/ a \notin Coordinators /\ proc'[a].gen = coord.gen,
         a \in Coordinators => Follows(proc[a].at, proc'[a].at),
         a \notin Coordinators => proc'[a].at \in {"start", "joined", "build", "serve", "failed"},
         proc'[a].at = "activate" => proc[a].gen = coord.gen,
         proc'[a].at \in Final => proc[a].at \in Final,
         \/ proc[a].at \in {"build", "serve"} => proc'[a].at \in {"build", "serve"}
         \/ \A s \in Splits : sp[a][s].st = "done"
  PROVE  IInv' /\ current' = current
<1>1. Moved(a)
  BY Zenon DEF Moved
<1>2. SplitsMoved(a)
  <2>1. \A s \in Splits : sp[a][s].st = "done" => sp[a][s].st # "rejoin"
    BY Zenon
  <2> QED
    BY <2>1, Zenon DEF SplitsMoved, IInv, Images
<1>3. \A s \in Splits : SplitOk(sp'[a][s], data[s])
  BY Zenon DEF IInv, Agreed
<1>4. sp' \in [Procs -> [Splits -> SplitRecs]]
  BY Zenon DEF IInv, Types
<1> QED
  BY <1>1, <1>2, <1>3, <1>4, MoveKeeps, Zenon

\* What Enter does.
LEMMA EnterGives ==
  ASSUME IInv, NEW a \in Procs, NEW g \in Nat, Enter(a, g)
  PROVE  /\ sp' \in [Procs -> [Splits -> SplitRecs]]
         /\ \A b \in Procs : b # a => sp'[b] = sp[b]
         /\ \A s \in Splits : sp'[a][s].st = "todo"
<1>1. [NoSplit EXCEPT !.gen = g] \in SplitRecs /\ [NoSplit EXCEPT !.gen = g].st = "todo"
  BY EmptyRecords, Zenon DEF SplitRecs
<1> DEFINE fresh_ == [s \in Splits |-> [NoSplit EXCEPT !.gen = g]]
<1>2. fresh_ \in [Splits -> SplitRecs] /\ \A s \in Splits : fresh_[s].st = "todo"
  BY <1>1, Zenon
<1>3. sp' = [sp EXCEPT ![a] = fresh_] /\ sp \in [Procs -> [Splits -> SplitRecs]]
  BY Zenon DEF Enter, IInv, Types
<1> HIDE DEF fresh_
<1> QED
  BY <1>2, <1>3, Zenon

\* A process enters its splits anew and moves on.
LEMMA EntersKeeps ==
  ASSUME IInv, Around, NEW a \in Procs, NEW g \in Nat, Enter(a, g), loop' \in [Procs -> LoopRecs],
         proc' \in [Procs -> ProcRecs], \A b \in Procs : b # a => proc'[b] = proc[b],
         proc'[a].gen = proc[a].gen,
         a \in Coordinators => Follows(proc[a].at, proc'[a].at),
         a \notin Coordinators => proc'[a].at \in {"joined", "build", "serve"},
         proc'[a].at \notin Final \cup {"activate"}, proc[a].at \notin Staging
  PROVE  IInv' /\ current' = current
<1>1. Moved(a)
  BY EnterGives, Zenon DEF Moved
<1>2. \A s \in Splits : sp'[a][s].st # "rejoin" /\ SplitOk(sp'[a][s], data[s])
  BY EnterGives, Zenon DEF SplitOk
<1>3. SplitsMoved(a)
  BY <1>2, Zenon DEF SplitsMoved
<1> QED
  BY <1>1, <1>2, <1>3, EnterGives, MoveKeeps, Zenon

\* A process that dies leaves nothing behind in the store.
LEMMA DiesKeeps ==
  ASSUME IInv, Around, NEW a \in Procs, Dies(a) PROVE IInv' /\ current' = current
<1> DEFINE dead == [NoProc EXCEPT !.at = "failed"]
<1>1. dead \in ProcRecs /\ dead.at = "failed" /\ dead.gen = 0
  BY EmptyRecords, Zenon DEF ProcRecs, Phases, NoProc
<1> HIDE DEF dead
<1>2. /\ proc' = [proc EXCEPT ![a] = dead] /\ proc \in [Procs -> ProcRecs]
      /\ loop' = [loop EXCEPT ![a] = NoLoop] /\ loop \in [Procs -> LoopRecs]
      /\ sp' = [sp EXCEPT ![a] = [s \in Splits |-> NoSplit]] /\ sp \in [Procs -> [Splits -> SplitRecs]]
  BY Zenon DEF Dies, IInv, Types, dead
<1>3. /\ proc' \in [Procs -> ProcRecs] /\ proc'[a].at = "failed" /\ proc'[a].gen = 0
      /\ \A b \in Procs : b # a => proc'[b] = proc[b]
  BY <1>1, <1>2, Zenon
<1>4. loop' \in [Procs -> LoopRecs]
  BY <1>2, EmptyRecords, Zenon
<1>5. /\ sp' \in [Procs -> [Splits -> SplitRecs]]
      /\ \A b \in Procs : b # a => sp'[b] = sp[b]
      /\ \A s \in Splits : sp'[a][s].st = "todo"
  BY <1>2, EmptyRecords, Zenon
<1>6. Moved(a)
  <2>1. Follows(proc[a].at, "failed")
    BY Zenon DEF Follows, Acquiring, BeforeImage, Staging
  <2> QED
    BY <1>3, <1>5, <2>1, Zenon DEF Moved
<1>7. \A s \in Splits : sp'[a][s].st # "rejoin" /\ SplitOk(sp'[a][s], data[s])
  BY <1>5, Zenon DEF SplitOk
<1>8. proc'[a].at \notin Final \cup Staging \cup {"activate"}
  BY <1>3, Zenon DEF Final, Staging
<1>9. SplitsMoved(a)
  BY <1>7, <1>8, Zenon DEF SplitsMoved
<1> QED
  BY <1>3, <1>4, <1>5, <1>6, <1>7, <1>8, <1>9, MoveKeeps, Zenon

\* What a process's record becomes when it only moves on.
LEMMA SetGives ==
  ASSUME IInv, NEW a \in Procs, NEW at \in Phases, Set(a, at)
  PROVE  /\ proc' \in [Procs -> ProcRecs] /\ proc'[a].at = at /\ proc'[a].gen = proc[a].gen
         /\ \A b \in Procs : b # a => proc'[b] = proc[b]
BY Zenon DEF Set, IInv, Types, ProcRecs

\* Steps that leave the store alone, but for the BUILD record.
LEMMA AroundBuild ==
  ASSUME IInv, build' \in BuildRecs,
         UNCHANGED <<deploy, source, coord, live, data, comp, image, ready, current, rewound>>
  PROVE  Around
BY Zenon DEF Around, SameFence, IInv, Types, Fences

\* Steps that leave the store alone altogether.
LEMMA AroundSame ==
  ASSUME IInv,
         UNCHANGED <<deploy, source, coord, live, build, data, comp, image, ready, current, rewound>>
  PROVE  Around
BY AroundBuild, Zenon DEF IInv, Types

\* A renewal writes the coordinator record as it was.
LEMMA AroundSwap ==
  ASSUME IInv, Swap(coord), coord.gen > 0,
         UNCHANGED <<deploy, source, build, data, comp, image, ready, current, rewound>>
  PROVE  Around
BY Zenon DEF Around, Swap, SameFence, IInv, Types

-----------------------------------------------------------------------------
(* acquire_generation and the plan *)

\* The phases of acquiring, planning and publishing are those of shard 0.
LEMMA ShardZero ==
  ASSUME IInv, NEW a \in Procs,
         proc[a].at \in {"acquire", "confirm", "putBuild", "plan", "planned", "planFail", "failPut",
                         "image", "imageSwap", "imagePut", "ready", "activate", "activeBuild"}
  PROVE  a \in Coordinators
BY Zenon DEF IInv, Fences, BeforeImage, Staging, Final

\* SourceChanges and LeaseLapses change nothing the invariant speaks of.
LEMMA EnvironmentKeeps ==
  ASSUME IInv, SourceChanges \/ LeaseLapses PROVE IInv' /\ current' = current
<1>1. CASE SourceChanges
  <2>1. source' \in Nat \ {0}
    BY <1>1 DEF SourceChanges, IInv, Types
  <2>2. Around /\ UNCHANGED <<proc, sp, loop>>
    BY <1>1, <2>1, Zenon DEF SourceChanges, lease, store, serving, Around, SameFence, IInv, Types, Fences
  <2> QED
    BY <2>2, StayKeeps, Zenon DEF IInv, Types
<1>2. CASE LeaseLapses
  <2>1. Around /\ UNCHANGED <<proc, sp, loop>>
    BY <1>2, Zenon DEF LeaseLapses, store, Around, SameFence, IInv, Types
  <2> QED
    BY <2>1, StayKeeps, Zenon DEF IInv, Types
<1> QED
  BY <1>1, <1>2, Zenon

\* The process ends between any two steps.
LEMMA CrashKeeps == ASSUME IInv, NEW a \in Procs, Crash(a) PROVE IInv' /\ current' = current
<1>1. Dies(a) /\ Around
  BY AroundSame, Zenon DEF Crash, store
<1> QED
  BY <1>1, DiesKeeps, Zenon

\* The read before the compare-and-swap, and the read after it.
LEMMA AcquireReadKeeps ==
  ASSUME IInv, NEW a \in Procs, AcquireRead(a) \/ AcquireConfirm(a) PROVE IInv' /\ current' = current
<1>1. Around
  BY AroundSame, Zenon DEF AcquireRead, AcquireConfirm, store, serving
<1>2. loop \in [Procs -> LoopRecs]
  BY Zenon DEF IInv, Types
<1>3. CASE AcquireRead(a)
  <2>1. a \in Coordinators /\ proc[a].at = "start" /\ Set(a, "acquire") /\ sp' = sp /\ loop' = loop
    BY <1>3, Zenon DEF AcquireRead
  <2>2. Follows("start", "acquire") /\ "acquire" \in Phases /\ "acquire" \notin Final \cup {"activate"}
        /\ "start" \notin {"build", "serve"}
    BY Zenon DEF Follows, Acquiring, BeforeImage, Staging, Phases, Final
  <2> QED
    BY <1>1, <1>2, <2>1, <2>2, SetGives, PassKeeps, Zenon
<1>4. CASE AcquireConfirm(a) /\ coord.gen = proc[a].gen
  <2>1. a \in Coordinators /\ proc[a].at = "confirm" /\ Set(a, "putBuild") /\ sp' = sp /\ loop' = loop
    BY <1>4, ShardZero, Zenon DEF AcquireConfirm
  <2>2. Follows("confirm", "putBuild") /\ "putBuild" \in Phases /\ "putBuild" \notin Final \cup {"activate"}
        /\ "confirm" \notin {"build", "serve"}
    BY Zenon DEF Follows, Acquiring, BeforeImage, Staging, Phases, Final
  <2> QED
    BY <1>1, <1>2, <2>1, <2>2, SetGives, PassKeeps, Zenon
<1>5. CASE AcquireConfirm(a) /\ coord.gen # proc[a].gen
  BY <1>1, <1>5, DiesKeeps, Zenon DEF AcquireConfirm
<1> QED
  BY <1>3, <1>4, <1>5, Zenon

\* The compare-and-swap gives out the next fence.
LEMMA AcquireSwapKeeps ==
  ASSUME IInv, NEW a \in Procs, AcquireSwap(a) PROVE IInv' /\ current' = current
<1>1. proc[a].at = "acquire" /\ a \in Coordinators
  BY ShardZero, Zenon DEF AcquireSwap
<1>2. CASE a \notin fresh
  <2>1. Dies(a) /\ Around
    BY <1>2, AroundSame, Zenon DEF AcquireSwap, store
  <2> QED
    BY <2>1, DiesKeeps, Zenon
<1>3. CASE a \in fresh
  <2> DEFINE n == coord.gen + 1
  <2>1. /\ proc' = [proc EXCEPT ![a].at = "confirm", ![a].gen = n]
        /\ rewound' = (rewound \/ \E b \in Coordinators : proc[b].at = "activate")
        /\ UNCHANGED <<deploy, source, build, data, comp, image, ready, current, sp, loop>>
    BY <1>3, Zenon DEF AcquireSwap, store
  <2>2. coord' \in CoordRecs /\ coord'.gen = n /\ live' = TRUE /\ n \in Nat /\ coord.gen \in Nat
    BY <1>3 DEF AcquireSwap, Swap, Shards, IInv, Types, CoordRecs, States
  <2> HIDE DEF n
  <2>3. /\ proc' \in [Procs -> ProcRecs] /\ proc'[a].at = "confirm" /\ proc'[a].gen = n
        /\ \A b \in Procs : b # a => proc'[b] = proc[b]
    <3> DEFINE rec == [proc[a] EXCEPT !.at = "confirm", !.gen = n]
    <3>1. rec \in ProcRecs /\ rec.at = "confirm" /\ rec.gen = n
      BY <2>2, ZenonT(60) DEF IInv, Types, ProcRecs, Phases
    <3>2. proc' = [proc EXCEPT ![a] = rec] /\ proc \in [Procs -> ProcRecs]
      BY <2>1, Zenon DEF IInv, Types
    <3> HIDE DEF rec
    <3> QED
      BY <3>1, <3>2, Zenon
  <2>4. Types'
    BY <2>1, <2>2, <2>3, Zenon DEF IInv, Types
  <2>5. coord'.gen <= Cardinality(Begun') /\ n \in Gens
    <3>1. Begun' = Begun \cup {a} /\ a \notin Begun /\ Begun' \subseteq Coordinators
      BY <1>1, <2>3, Zenon DEF Begun, Acquiring, Procs
    <3>2. IsFiniteSet(Begun) /\ IsFiniteSet(Coordinators)
      BY GenerationAssumption, FS_Subset, Zenon DEF Begun
    <3>3. Cardinality(Begun') = Cardinality(Begun) + 1 /\ Cardinality(Begun) \in Nat
      BY <3>1, <3>2, FS_AddElement, FS_CardinalityType, Zenon
    <3>4. Cardinality(Begun') <= Cardinality(Coordinators) /\ Cardinality(Coordinators) \in Nat
      BY <3>1, <3>2, FS_Subset, FS_CardinalityType, Zenon
    <3>5. coord.gen <= Cardinality(Begun)
      BY Zenon DEF IInv, Fences
    <3> QED
      BY <2>2, <3>3, <3>4, <3>5 DEF Gens, n
  <2>6. \A b \in Procs : proc[b].gen \in Nat /\ proc[b].gen <= coord.gen
    BY Zenon DEF IInv, Types, Fences, ProcRecs
  <2>7. n > coord.gen /\ n > 0
    BY <2>2 DEF n
  <2>8. Fences'
    <3>1. current' <= coord'.gen
      BY <2>1, <2>2, <2>7 DEF IInv, Types, Fences
    <3>2. \A b \in Procs : proc'[b].gen <= coord'.gen
      BY <2>2, <2>3, <2>6, <2>7
    <3>3. \A b \in Procs : proc'[b].at \in {"acquire"} \cup (BeforeImage \ {"build"}) \cup Staging \cup Final
                           => b \in Coordinators
      BY <1>1, <2>3, Zenon DEF IInv, Fences
    <3>4. \A b \in Coordinators : proc'[b].at \notin Acquiring \cup {"failed"} => proc'[b].gen > 0
      BY <2>3, <2>7, Zenon DEF IInv, Fences, Procs
    <3>5. \A b, c \in Coordinators : b # c /\ proc'[b].gen = proc'[c].gen => proc'[b].gen = 0
      BY <2>2, <2>3, <2>6, <2>7 DEF IInv, Fences, Procs
    <3>6. \A b \in Coordinators : proc'[b].at = "activate" /\ ~rewound' => proc'[b].gen = coord'.gen
      BY <1>1, <2>1, <2>2, <2>3, Zenon DEF Procs
    <3>7. \A b \in Coordinators : proc'[b].at # "joined"
      BY <2>3, Zenon DEF IInv, Fences, Procs
    <3> QED
      BY <2>2, <2>5, <2>7, <3>1, <3>2, <3>3, <3>4, <3>5, <3>6, <3>7, Zenon DEF Fences
  <2>9. Agreed'
    BY <2>1, Zenon DEF IInv, Agreed
  <2>10. Images'
    <3>1. \A g : (Unstarted(g) => Unstarted(g)') /\ (Complete(g) => Complete(g)')
      BY <2>1, Zenon DEF Unstarted, Complete
    <3>2. \A g \in Gens : g > coord'.gen => g > coord.gen
      BY <2>2, <2>7, GenerationAssumption, FS_CardinalityType DEF Gens
    <3>3. ASSUME NEW b \in Coordinators, b # a PROVE ImageOf(b)'
      BY <2>1, <2>3, <3>1, <3>3, Zenon DEF IInv, Images, ImageOf, Whole, IsAdmin, Procs
    <3>4. ImageOf(a)'
      <4>1. "confirm" \notin Staging \cup Final
        BY Zenon DEF Staging, Final
      <4>2. Unstarted(n) /\ n \notin ready
        BY <2>5, <2>7, Zenon DEF IInv, Images
      <4>3. Unstarted(proc[a].gen)'
        BY <2>1, <2>3, <4>2, Zenon DEF Unstarted
      <4> QED
        BY <2>1, <2>3, <4>1, <4>2, <4>3 DEF ImageOf
    <3>5. \A b \in Procs : proc'[b].at \notin {"build", "serve"} =>
                               \A s \in Splits : sp'[b][s].st # "rejoin"
      <4>1. "acquire" \notin {"build", "serve"}
        BY Zenon
      <4> QED
        BY <1>1, <2>1, <2>3, <4>1, Zenon DEF IInv, Images
    <3> QED
      BY <2>1, <3>1, <3>2, <3>3, <3>4, <3>5, Zenon DEF IInv, Images
  <2> QED
    BY <2>1, <2>4, <2>8, <2>9, <2>10, Zenon DEF IInv
<1> QED
  BY <1>2, <1>3, Zenon

\* Where a shard with a plan goes.
LEMMA PlannedPhase == Planned \in {"build", "serve"}
BY Zenon DEF Planned

\* StartLoop keeps the type of the loops.
LEMMA LoopGives == ASSUME IInv, NEW a \in Procs, StartLoop(a) PROVE loop' \in [Procs -> LoopRecs]
BY Zenon DEF StartLoop, IInv, Types, LoopRecs

\* The put that ends acquire_generation.
LEMMA AcquirePutKeeps ==
  ASSUME IInv, NEW a \in Procs, AcquirePut(a) PROVE IInv' /\ current' = current
<1>1. proc[a].at = "putBuild" /\ a \in Coordinators /\ proc[a].gen \in Nat /\ loop \in [Procs -> LoopRecs]
  BY ShardZero, Zenon DEF AcquirePut, IInv, Types, ProcRecs
<1>2. build' \in BuildRecs
  BY <1>1, Zenon DEF AcquirePut, BuildRecs, States
<1>3. Around
  BY <1>2, AroundBuild, Zenon DEF AcquirePut, lease, store, serving
<1>4. /\ {"image", "plan", "build", "serve"} \subseteq Phases
      /\ \A y \in {"image", "plan", "build", "serve"} :
            Follows("putBuild", y) /\ y \notin Final \cup {"activate"}
      /\ "putBuild" \notin Staging \cup {"build", "serve"}
  BY Zenon DEF Follows, Acquiring, BeforeImage, Staging, Phases, Final
<1>5. CASE Set(a, "image") /\ UNCHANGED <<sp, loop>>
  BY <1>1, <1>3, <1>4, <1>5, SetGives, PassKeeps, Zenon
<1>6. CASE Set(a, "plan") /\ UNCHANGED <<sp, loop>>
  BY <1>1, <1>3, <1>4, <1>6, SetGives, PassKeeps, Zenon
<1>7. CASE Set(a, Planned) /\ Enter(a, proc[a].gen) /\ StartLoop(a)
  <2>1. Planned \in {"image", "plan", "build", "serve"}
    BY PlannedPhase, Zenon
  <2> QED
    BY <1>1, <1>3, <1>4, <1>7, <2>1, LoopGives, SetGives, EntersKeeps, Zenon
<1> QED
  BY <1>5, <1>6, <1>7, Zenon DEF AcquirePut

\* Planning moves shard 0 on, and its record of the read point with it.
LEMMA PlanKeeps ==
  ASSUME IInv, NEW a \in Procs, OpenReadPoint(a) \/ PlanSwap(a) \/ PlanFails(a)
  PROVE  IInv' /\ current' = current
<1>1. proc[a].at = "plan" /\ a \in Coordinators /\ loop \in [Procs -> LoopRecs]
  BY ShardZero, Zenon DEF OpenReadPoint, PlanSwap, PlanFails, IInv, Types
<1>2. /\ {"plan", "planned", "planFail"} \subseteq Phases
      /\ \A y \in {"plan", "planned", "planFail"} :
            Follows("plan", y) /\ y \notin Final \cup {"activate"}
      /\ "plan" \notin {"build", "serve"}
  BY Zenon DEF Follows, Acquiring, BeforeImage, Staging, Phases, Final
<1>3. proc \in [Procs -> ProcRecs] /\ source \in Nat /\ proc[a].gen \in Nat
  BY Zenon DEF IInv, Types, ProcRecs
<1>4. CASE OpenReadPoint(a)
  <2>1. /\ proc' \in [Procs -> ProcRecs] /\ proc'[a].at = "plan" /\ proc'[a].gen = proc[a].gen
        /\ \A b \in Procs : b # a => proc'[b] = proc[b]
    BY <1>1, <1>3, <1>4, Zenon DEF OpenReadPoint, ProcRecs
  <2>2. Around /\ UNCHANGED <<sp, loop>>
    BY <1>4, AroundSame, Zenon DEF OpenReadPoint, lease, store, serving
  <2> QED
    BY <1>1, <1>2, <2>1, <2>2, PassKeeps, Zenon
<1>5. CASE PlanFails(a)
  <2>1. /\ proc' \in [Procs -> ProcRecs] /\ proc'[a].at = "planFail" /\ proc'[a].gen = proc[a].gen
        /\ \A b \in Procs : b # a => proc'[b] = proc[b]
    <3> DEFINE rec == [proc[a] EXCEPT !.at = "planFail", !.ver = 0]
    <3>1. rec \in ProcRecs /\ rec.at = "planFail" /\ rec.gen = proc[a].gen
      BY <1>3, ZenonT(60) DEF ProcRecs, Phases
    <3>2. proc' = [proc EXCEPT ![a] = rec] /\ proc \in [Procs -> ProcRecs]
      BY <1>3, <1>5, ZenonT(60) DEF PlanFails
    <3> HIDE DEF rec
    <3> QED
      BY <3>1, <3>2, Zenon
  <2>2. Around /\ UNCHANGED <<sp, loop>>
    BY <1>5, AroundSame, Zenon DEF PlanFails, lease, store, serving
  <2> QED
    BY <1>1, <1>2, <2>1, <2>2, PassKeeps, Zenon
<1>6. CASE PlanSwap(a)
  <2>1. coord' \in CoordRecs /\ coord'.gen = coord.gen
    BY <1>6, Zenon DEF PlanSwap, IInv, Types, CoordRecs, States
  <2>2. Around /\ UNCHANGED <<sp, loop>> /\ Set(a, "planned")
    BY <1>6, <2>1, Zenon DEF PlanSwap, store, serving, Around, SameFence, IInv, Types, Fences
  <2> QED
    BY <1>1, <1>2, <2>2, SetGives, PassKeeps, Zenon
<1> QED
  BY <1>4, <1>5, <1>6, Zenon

\* The BUILD record that ends planning, and the one that gives it up.
LEMMA PlanPutKeeps ==
  ASSUME IInv, NEW a \in Procs, PlanPut(a) \/ PlanFailAssert(a) \/ PlanFailPut(a)
  PROVE  IInv' /\ current' = current
<1>1. /\ a \in Coordinators /\ proc[a].gen \in Nat /\ loop \in [Procs -> LoopRecs]
      /\ proc[a].at \in {"planned", "planFail", "failPut"}
  <2>1. proc[a].at \in {"planned", "planFail", "failPut"}
    BY Zenon DEF PlanPut, PlanFailAssert, PlanFailPut
  <2> QED
    BY <2>1, ShardZero, Zenon DEF IInv, Types, ProcRecs
<1>2. build' \in BuildRecs
  BY <1>1 DEF PlanPut, PlanFailAssert, PlanFailPut, BuildRecs, States, IInv, Types
<1>3. Around
  BY <1>2, AroundBuild, Zenon DEF PlanPut, PlanFailAssert, PlanFailPut, lease, store, serving
<1>4. /\ {"planFail", "failPut", "build", "serve"} \subseteq Phases
      /\ \A x \in {"planned", "planFail"}, y \in {"planFail", "failPut", "build", "serve"} :
            Follows(x, y) /\ y \notin Final \cup {"activate"}
      /\ \A x \in {"planned", "planFail"} : x \notin Staging \cup {"build", "serve"}
  BY Zenon DEF Follows, Acquiring, BeforeImage, Staging, Phases, Final
<1>5. CASE Dies(a)
  BY <1>3, <1>5, DiesKeeps, Zenon
<1>6. CASE proc[a].at = "planned" /\ Set(a, "planFail") /\ UNCHANGED <<sp, loop>>
  BY <1>1, <1>3, <1>4, <1>6, SetGives, PassKeeps, Zenon
<1>7. CASE proc[a].at = "planFail" /\ Set(a, "failPut") /\ UNCHANGED <<sp, loop>>
  BY <1>1, <1>3, <1>4, <1>7, SetGives, PassKeeps, Zenon
<1>8. CASE proc[a].at = "planned" /\ Set(a, Planned) /\ Enter(a, proc[a].gen) /\ StartLoop(a)
  <2>1. Planned \in {"planFail", "failPut", "build", "serve"}
    BY PlannedPhase, Zenon
  <2> QED
    BY <1>1, <1>3, <1>4, <1>8, <2>1, LoopGives, SetGives, EntersKeeps, Zenon
<1> QED
  BY <1>5, <1>6, <1>7, <1>8, Zenon DEF PlanPut, PlanFailAssert, PlanFailPut

-----------------------------------------------------------------------------
(* join_generation, and the renewal loop *)

\* A worker joins the generation in force, or is refused.
LEMMA JoinKeeps ==
  ASSUME IInv, NEW a \in Procs, Join(a) \/ JoinFails(a) PROVE IInv' /\ current' = current
<1>1. Around
  BY AroundSame, Zenon DEF Join, JoinFails, lease, store, serving
<1>2. CASE JoinFails(a)
  BY <1>1, <1>2, DiesKeeps, Zenon DEF JoinFails
<1>3. CASE Join(a)
  <2>1. a \notin Coordinators /\ proc[a].at = "start"
    BY <1>3, GenerationAssumption, Zenon DEF Join
  <2>2. /\ proc' \in [Procs -> ProcRecs] /\ proc'[a].at = "joined" /\ proc'[a].gen = coord.gen
        /\ \A b \in Procs : b # a => proc'[b] = proc[b]
    <3> DEFINE rec == [proc[a] EXCEPT !.at = "joined", !.gen = coord.gen, !.active = (build.state = "ACTIVE")]
    <3>1. rec \in ProcRecs /\ rec.at = "joined" /\ rec.gen = coord.gen
      BY ZenonT(60) DEF IInv, Types, ProcRecs, CoordRecs, Phases
    <3>2. proc' = [proc EXCEPT ![a] = rec] /\ proc \in [Procs -> ProcRecs]
      BY <1>3, Zenon DEF Join, IInv, Types
    <3> HIDE DEF rec
    <3> QED
      BY <3>1, <3>2, Zenon
  <2>3. UNCHANGED <<sp, loop>> /\ loop \in [Procs -> LoopRecs]
    BY <1>3, Zenon DEF Join, IInv, Types
  <2>4. "joined" \notin Final \cup {"activate"} /\ "start" \notin {"build", "serve"}
    BY Zenon DEF Final
  <2> QED
    BY <1>1, <2>1, <2>2, <2>3, <2>4, PassKeeps, Zenon
<1> QED
  BY <1>2, <1>3, Zenon

\* The exported read point a worker imports is a number.
LEMMA PointType ==
  ASSUME IInv, NEW g, PointOpen(g)
  PROVE  proc[CHOOSE c \in Coordinators : proc[c].gen = g /\ proc[c].ver # 0].ver \in Nat
<1> DEFINE P(c) == proc[c].gen = g /\ proc[c].ver # 0
<1>1. \E c \in Coordinators : P(c)
  BY Zenon DEF PointOpen
<1>2. (CHOOSE c \in Coordinators : P(c)) \in Coordinators
  BY <1>1, Zenon
<1>3. \A c \in Coordinators : proc[c].ver \in Nat
  BY Zenon DEF IInv, Types, ProcRecs, Procs
<1> QED
  BY <1>2, <1>3, Zenon

\* hydrate_snapshot_generation
LEMMA HydrateKeeps == ASSUME IInv, NEW a \in Procs, Hydrate(a) PROVE IInv' /\ current' = current
<1>1. Around
  BY AroundSame, Zenon DEF Hydrate, store, serving
<1>2. CASE Dies(a)
  BY <1>1, <1>2, DiesKeeps, Zenon
<1>3. CASE ~Dies(a)
  <2> DEFINE v == IF JoinsPoint(a)
                  THEN proc[CHOOSE c \in Coordinators : proc[c].gen = proc[a].gen /\ proc[c].ver # 0].ver
                  ELSE 0
             rec == [proc[a] EXCEPT !.at = Planned, !.ver = v, !.by = proc[a].gen]
  <2>1. proc[a].at = "joined" /\ (JoinsPoint(a) => PointOpen(proc[a].gen))
    BY <1>3, Zenon DEF Hydrate
  <2>2. v \in Nat
    BY <2>1, PointType, Zenon
  <2>3. proc' = [proc EXCEPT ![a] = rec] /\ Enter(a, proc[a].gen) /\ loop' = loop
    BY <1>3, Zenon DEF Hydrate
  <2> HIDE DEF v
  <2>4. rec \in ProcRecs /\ rec.at \in {"build", "serve"} /\ rec.gen = proc[a].gen /\ proc[a].gen \in Nat
    BY <2>2, PlannedPhase, ZenonT(60) DEF IInv, Types, ProcRecs, Phases
  <2> HIDE DEF rec
  <2>5. /\ proc' \in [Procs -> ProcRecs] /\ proc'[a].at \in {"build", "serve"} /\ proc'[a].gen = proc[a].gen
        /\ \A b \in Procs : b # a => proc'[b] = proc[b]
    BY <2>3, <2>4, Zenon DEF IInv, Types
  <2>6. /\ \A y \in {"build", "serve"} : y \in {"joined", "build", "serve"} /\ y \notin Final \cup {"activate"}
        /\ "joined" \notin Staging
    BY Zenon DEF Final, Staging
  <2>7. loop' \in [Procs -> LoopRecs]
    BY <2>3, Zenon DEF IInv, Types
  <2>8. a \notin Coordinators
    BY <2>1, Zenon DEF IInv, Fences
  <2> QED
    BY <1>1, <2>1, <2>3, <2>4, <2>5, <2>6, <2>7, <2>8, EntersKeeps, Zenon
<1> QED
  BY <1>2, <1>3, Zenon

\* The renewal loop swaps the coordinator record for itself, then puts BUILD.
LEMMA LoopKeeps ==
  ASSUME IInv, NEW a \in Procs, Renew(a) PROVE IInv' /\ current' = current
<1>1. /\ proc[a] \in ProcRecs /\ proc[a].gen \in Nat /\ build \in BuildRecs /\ loop \in [Procs -> LoopRecs]
      /\ loop[a].put \in BuildRecs
  BY Zenon DEF IInv, Types, ProcRecs, LoopRecs
<1>4. CASE LoopSwap(a)
  <2>1. Renewed(proc[a].gen, build) \in BuildRecs
    BY <1>1, Zenon DEF Renewed, BuildRecs, States
  <2>2. loop' \in [Procs -> LoopRecs]
    BY <1>1, <1>4, <2>1, Zenon DEF LoopSwap, LoopRecs
  <2>3. UNCHANGED <<proc, sp>> /\ Swap(coord) /\ HoldsLease(proc[a].gen)
        /\ UNCHANGED <<deploy, source, build, data, comp, image, ready, current, rewound>>
    BY <1>4, Zenon DEF LoopSwap, store, serving
  <2>4. Around
    BY <2>3, AroundSwap, Zenon DEF HoldsLease, IInv, Fences
  <2> QED
    BY <1>4, <2>2, <2>3, <2>4, StayKeeps, Zenon
<1>5. CASE LoopPut(a)
  <2>1. loop' \in [Procs -> LoopRecs] /\ build' \in BuildRecs
    BY <1>1, <1>5, EmptyRecords, Zenon DEF LoopPut, LoopRecs
  <2>2. Around /\ UNCHANGED <<proc, sp>>
    BY <1>5, <2>1, AroundBuild, Zenon DEF LoopPut, lease, store, serving
  <2> QED
    BY <2>1, <2>2, StayKeeps, Zenon
<1> QED
  BY <1>4, <1>5, Zenon DEF Renew

-----------------------------------------------------------------------------
(* The splits *)

\* One split of a process at work changes.
LEMMA SplitKeeps ==
  ASSUME IInv, Around, NEW a \in Procs, NEW s \in Splits, NEW x \in SplitRecs,
         sp' = [sp EXCEPT ![a][s] = x], SplitOk(x, data[s]), x.st = "rejoin" => deploy.lazy,
         proc[a].at \in {"build", "serve"}, loop' = loop,
         proc' \in [Procs -> ProcRecs], \A b \in Procs : b # a => proc'[b] = proc[b],
         proc'[a].at = proc[a].at, proc'[a].gen = proc[a].gen
  PROVE  IInv' /\ current' = current
<1>1. /\ sp' \in [Procs -> [Splits -> SplitRecs]]
      /\ \A b \in Procs : b # a => sp'[b] = sp[b]
      /\ sp'[a][s] = x /\ \A t \in Splits : t # s => sp'[a][t] = sp[a][t]
  BY Zenon DEF IInv, Types
<1>2. Follows(proc[a].at, proc[a].at) /\ proc[a].at \notin Staging \cup Final \cup {"activate"}
      /\ proc[a].at \in {"start", "joined", "build", "serve", "failed"}
  BY Zenon DEF Follows, Staging, Final
<1>3. Moved(a)
  BY <1>1, <1>2, Zenon DEF Moved
<1>4. SplitsMoved(a)
  BY <1>1, <1>2, Zenon DEF SplitsMoved, IInv, Images
<1>5. \A t \in Splits : SplitOk(sp'[a][t], data[t])
  BY <1>1, Zenon DEF IInv, Agreed
<1>6. loop' \in [Procs -> LoopRecs]
  BY Zenon DEF IInv, Types
<1> QED
  BY <1>1, <1>2, <1>3, <1>4, <1>5, <1>6, MoveKeeps, Zenon

\* A split fails: the process ends, gives the table up, or will try again.
LEMMA TableFailsKeeps ==
  ASSUME IInv, Around, NEW a \in Procs, NEW s \in Splits, TableFails(a, s),
         proc[a].at = "build" \/ (deploy.lazy /\ proc[a].at = "serve")
  PROVE  IInv' /\ current' = current
<1>1. /\ proc \in [Procs -> ProcRecs] /\ sp[a][s] \in SplitRecs /\ loop \in [Procs -> LoopRecs]
      /\ sp \in [Procs -> [Splits -> SplitRecs]]
  BY Zenon DEF IInv, Types
<1>2. CASE deploy.lazy
  <2> DEFINE x == [sp[a][s] EXCEPT !.st = "todo", !.again = FALSE]
  <2>1. x \in SplitRecs /\ x.st = "todo"
    BY <1>1, Zenon DEF SplitRecs, Stages
  <2>2. sp' = [sp EXCEPT ![a][s] = x] /\ proc' = [proc EXCEPT ![a].ver = 0] /\ loop' = loop
    BY <1>1, <1>2, ZenonT(60) DEF TableFails, CloseSession
  <2> HIDE DEF x
  <2>3. SplitOk(x, data[s]) /\ x.st # "rejoin"
    BY <2>1, Zenon DEF SplitOk
  <2>4. /\ proc' \in [Procs -> ProcRecs] /\ proc'[a].at = proc[a].at /\ proc'[a].gen = proc[a].gen
        /\ \A b \in Procs : b # a => proc'[b] = proc[b]
    BY <1>1, <2>2, Zenon DEF ProcRecs
  <2>5. proc[a].at \in {"build", "serve"}
    BY Zenon
  <2> QED
    BY <2>1, <2>2, <2>3, <2>4, <2>5, SplitKeeps, Zenon
<1>3. CASE ~deploy.lazy /\ Dies(a)
  BY <1>3, DiesKeeps, Zenon
<1>4. CASE ~deploy.lazy /\ ~Dies(a)
  <2> DEFINE y == IF a \in Coordinators THEN "image" ELSE "serve"
  <2>1. proc' = [proc EXCEPT ![a].ver = 0, ![a].at = y] /\ Enter(a, 0) /\ loop' = loop
    BY <1>4, Zenon DEF TableFails
  <2>2. /\ y \in Phases /\ y \notin Final \cup {"activate"} /\ Follows("build", y)
        /\ a \notin Coordinators => y \in {"joined", "build", "serve"}
        /\ "build" \notin Staging
    BY Zenon DEF Phases, Final, Follows, Acquiring, BeforeImage, Staging
  <2> HIDE DEF y
  <2>3. /\ proc' \in [Procs -> ProcRecs] /\ proc'[a].at = y /\ proc'[a].gen = proc[a].gen
        /\ \A b \in Procs : b # a => proc'[b] = proc[b]
    BY <1>1, <2>1, <2>2, Zenon DEF ProcRecs
  <2>4. proc[a].at = "build"
    BY <1>4, Zenon
  <2> QED
    BY <1>1, <2>1, <2>2, <2>3, <2>4, EntersKeeps, Zenon
<1> QED
  BY <1>2, <1>3, <1>4, Zenon

\* A fenced split joins again, once, on a first read; otherwise it fails.
LEMMA FencedKeeps ==
  ASSUME IInv, Around, NEW a \in Procs, NEW s \in Splits, Fenced(a, s), Working(a)
  PROVE  IInv' /\ current' = current
<1>1. proc[a].at = "build" \/ (deploy.lazy /\ proc[a].at = "serve")
  BY Zenon DEF Working
<1>2. CASE TableFails(a, s)
  BY <1>1, <1>2, TableFailsKeeps, Zenon
<1>3. CASE ~TableFails(a, s)
  <2> DEFINE x == [sp[a][s] EXCEPT !.st = "rejoin"]
  <2>1. deploy.lazy /\ SetSplit(a, s, "rejoin") /\ UNCHANGED <<proc, fresh, loop>>
    BY <1>3, Zenon DEF Fenced
  <2>2. /\ sp \in [Procs -> [Splits -> SplitRecs]] /\ sp[a][s] \in SplitRecs
        /\ proc \in [Procs -> ProcRecs]
    BY Zenon DEF IInv, Types
  <2>3. x \in SplitRecs /\ x.st = "rejoin"
    BY <2>2, Zenon DEF SplitRecs, Stages
  <2>4. sp' = [sp EXCEPT ![a][s] = x]
    BY <2>1, <2>2, Zenon DEF SetSplit
  <2> HIDE DEF x
  <2>5. SplitOk(x, data[s])
    BY <2>3, Zenon DEF SplitOk
  <2>6. proc[a].at \in {"build", "serve"}
    BY <1>1, Zenon
  <2> QED
    BY <2>1, <2>2, <2>3, <2>4, <2>5, <2>6, SplitKeeps, Zenon
<1> QED
  BY <1>2, <1>3, Zenon

\* MakeSplit: the bytes of the key, or bytes with a source version.
LEMMA MakeSplitKeeps ==
  ASSUME IInv, NEW a \in Procs, NEW s \in Splits, MakeSplit(a, s) PROVE IInv' /\ current' = current
<1> DEFINE new == [ver |-> IF Snapshot THEN proc[a].ver ELSE source,
                   by  |-> IF Snapshot THEN proc[a].by ELSE sp[a][s].gen]
           bytes == IF data[s] # NoBytes THEN data[s] ELSE new
           x == [sp[a][s] EXCEPT !.st = "made", !.bytes = bytes]
<1>1. /\ sp \in [Procs -> [Splits -> SplitRecs]] /\ sp[a][s] \in SplitRecs
      /\ proc \in [Procs -> ProcRecs] /\ data[s] \in ByteRecs
  BY Zenon DEF IInv, Types
<1>2. new \in ByteRecs
  BY <1>1, Zenon DEF IInv, Types, ProcRecs, SplitRecs, ByteRecs
<1>3. data[s] = NoBytes => new # NoBytes
  <2>1. data[s] = NoBytes => new.ver # 0
    BY Zenon DEF MakeSplit, IInv, Types
  <2>2. NoBytes.ver = 0
    BY Zenon DEF NoBytes
  <2> QED
    BY <2>1, <2>2, Zenon
<1> HIDE DEF new
<1>4. bytes \in ByteRecs /\ bytes # NoBytes
  BY <1>1, <1>2, <1>3, Zenon
<1>5. sp' = [sp EXCEPT ![a][s] = x]
  BY <1>1, Zenon DEF MakeSplit, new
<1> HIDE DEF bytes
<1>6. x \in SplitRecs /\ x.st = "made" /\ x.bytes = bytes
  BY <1>1, <1>4, Zenon DEF SplitRecs, Stages
<1> HIDE DEF x
<1>7. SplitOk(x, data[s]) /\ x.st # "rejoin"
  BY <1>4, <1>6, Zenon DEF SplitOk
<1>8. Around /\ UNCHANGED <<proc, loop>> /\ proc[a].at \in {"build", "serve"}
  BY AroundSame, Zenon DEF MakeSplit, Turn, Working, lease, store, serving
<1> QED
  BY <1>1, <1>5, <1>6, <1>7, <1>8, SplitKeeps, Zenon

\* AwaitSplit: the bytes of the completion are those of the key.
LEMMA AwaitSplitKeeps ==
  ASSUME IInv, NEW a \in Procs, NEW s \in Splits, AwaitSplit(a, s) PROVE IInv' /\ current' = current
<1>1. Around /\ Working(a) /\ proc[a].at \in {"build", "serve"}
  BY AroundSame, Zenon DEF AwaitSplit, Turn, Working, store, serving
<1>2. CASE ~Identity(a, s)
  BY <1>1, <1>2, FencedKeeps, Zenon DEF AwaitSplit
<1>3. CASE Identity(a, s)
  <2> DEFINE g == sp[a][s].gen
             x == [sp[a][s] EXCEPT !.st = "done", !.bytes = comp[g][s]]
  <2>1. g \in Gens
    BY <1>3, HeldGeneration, Zenon DEF Identity, IInv
  <2>2. /\ sp \in [Procs -> [Splits -> SplitRecs]] /\ sp[a][s] \in SplitRecs
        /\ proc \in [Procs -> ProcRecs] /\ comp[g][s] \in ByteRecs
    BY <2>1, Zenon DEF IInv, Types
  <2>3. comp[g][s] # NoBytes /\ UNCHANGED <<proc, fresh, loop>>
    BY <1>3, Zenon DEF AwaitSplit
  <2>4. sp' = [sp EXCEPT ![a][s] = x]
    BY <1>3, <2>2, Zenon DEF AwaitSplit
  <2>5. comp[g][s] = data[s]
    BY <2>1, <2>3, Zenon DEF IInv, Agreed
  <2> HIDE DEF g
  <2>6. x \in SplitRecs /\ x.st = "done" /\ x.bytes = comp[g][s]
    BY <2>2, Zenon DEF SplitRecs, Stages
  <2> HIDE DEF x
  <2>7. SplitOk(x, data[s]) /\ x.st # "rejoin"
    BY <2>3, <2>5, <2>6, Zenon DEF SplitOk
  <2> QED
    BY <1>1, <2>2, <2>3, <2>4, <2>6, <2>7, SplitKeeps, Zenon
<1> QED
  BY <1>2, <1>3, Zenon

\* Rejoin: the split starts over in the generation in force.
LEMMA RejoinKeeps ==
  ASSUME IInv, NEW a \in Procs, NEW s \in Splits, Rejoin(a, s) PROVE IInv' /\ current' = current
<1>1. Around
  BY AroundSame, Zenon DEF Rejoin, store, serving
<1>2. sp[a][s].st = "rejoin" /\ deploy.lazy /\ proc[a].at \in {"build", "serve"}
  BY Zenon DEF Rejoin, IInv, Images
<1>3. CASE ~Joinable
  <2>1. TableFails(a, s) /\ (proc[a].at = "build" \/ (deploy.lazy /\ proc[a].at = "serve"))
    BY <1>2, <1>3, Zenon DEF Rejoin
  <2> QED
    BY <1>1, <2>1, TableFailsKeeps, Zenon
<1>4. CASE Joinable
  <2> DEFINE x == [NoSplit EXCEPT !.gen = coord.gen, !.again = TRUE]
  <2>1. sp' = [sp EXCEPT ![a][s] = x] /\ UNCHANGED <<proc, fresh, loop>>
    BY <1>4, Zenon DEF Rejoin
  <2>2. x \in SplitRecs /\ x.st = "todo"
    BY EmptyRecords, Zenon DEF SplitRecs, IInv, Types, CoordRecs
  <2> HIDE DEF x
  <2>3. SplitOk(x, data[s]) /\ x.st # "rejoin"
    BY <2>2, Zenon DEF SplitOk
  <2>4. proc \in [Procs -> ProcRecs]
    BY Zenon DEF IInv, Types
  <2> QED
    BY <1>1, <1>2, <2>1, <2>2, <2>3, <2>4, SplitKeeps, Zenon
<1> QED
  BY <1>3, <1>4, Zenon

\* A split that cannot be made, or does not come.
LEMMA SplitFailsKeeps ==
  ASSUME IInv, NEW a \in Procs, NEW s \in Splits, MakeFails(a, s) \/ AwaitTimesOut(a, s)
  PROVE  IInv' /\ current' = current
<1>1. Around /\ TableFails(a, s)
  BY AroundSame, Zenon DEF MakeFails, AwaitTimesOut, store, serving
<1>2. proc[a].at = "build" \/ (deploy.lazy /\ proc[a].at = "serve")
  BY Zenon DEF MakeFails, AwaitTimesOut, Turn, Working
<1> QED
  BY <1>1, <1>2, TableFailsKeeps, Zenon

\* Finish: all splits are done.
LEMMA FinishKeeps == ASSUME IInv, NEW a \in Procs, Finish(a) PROVE IInv' /\ current' = current
<1> DEFINE y == IF a \in Coordinators /\ ~deploy.lazy THEN "image" ELSE "serve"
<1>1. Around /\ UNCHANGED <<sp, loop>> /\ loop \in [Procs -> LoopRecs] /\ proc \in [Procs -> ProcRecs]
  BY AroundSame, Zenon DEF Finish, lease, store, serving, IInv, Types
<1>2. /\ proc[a].at = "build" \/ (deploy.lazy /\ proc[a].at = "serve")
      /\ proc' = [proc EXCEPT ![a].ver = 0, ![a].at = y]
      /\ \A s \in Splits : sp[a][s].st = "done"
  BY Zenon DEF Finish, Working
<1>3. /\ y \in Phases /\ y \notin Final \cup {"activate"} /\ Follows(proc[a].at, y)
      /\ a \notin Coordinators => y \in {"start", "joined", "build", "serve", "failed"}
  BY <1>2, Zenon DEF Phases, Final, Follows, Acquiring, BeforeImage, Staging
<1> HIDE DEF y
<1>4. /\ proc' \in [Procs -> ProcRecs] /\ proc'[a].at = y /\ proc'[a].gen = proc[a].gen
      /\ \A b \in Procs : b # a => proc'[b] = proc[b]
  BY <1>1, <1>2, <1>3, Zenon DEF ProcRecs
<1> QED
  BY <1>1, <1>2, <1>3, <1>4, PassKeeps, Zenon

-----------------------------------------------------------------------------
(* The steps that write split data, images, READY.json and CURRENT *)

\* A split's bytes go to its key, and to the completion of its generation.
LEMMA StoreKeeps ==
  ASSUME IInv, NEW a \in Procs, NEW s \in Splits, NEW x \in SplitRecs,
         sp' = [sp EXCEPT ![a][s] = x], x.st # "rejoin", Working(a),
         data' = [data EXCEPT ![s] = x.bytes], data[s] \in {NoBytes, x.bytes},
         SplitOk(x, x.bytes),
         comp' \in [Gens -> [Splits -> ByteRecs]],
         \A g \in Gens, t \in Splits : comp'[g][t] \in {comp[g][t], data'[t]},
         UNCHANGED <<deploy, source, coord, live, build, image, ready, current, rewound, proc, loop>>
  PROVE  IInv' /\ current' = current
<1>1. /\ sp' \in [Procs -> [Splits -> SplitRecs]]
      /\ \A b \in Procs : b # a => sp'[b] = sp[b]
      /\ sp'[a][s] = x /\ \A t \in Splits : t # s => sp'[a][t] = sp[a][t]
  BY Zenon DEF IInv, Types
<1>2. /\ data' \in [Splits -> ByteRecs] /\ data'[s] = x.bytes
      /\ \A t \in Splits : t # s => data'[t] = data[t]
  BY Zenon DEF IInv, Types, SplitRecs
<1>3. Types'
  BY <1>1, <1>2, Zenon DEF IInv, Types
<1>4. proc[a].at \in {"build", "serve"} /\ Follows(proc[a].at, proc[a].at)
      /\ proc[a].at \in {"start", "joined", "build", "serve", "failed"}
      /\ proc[a].at \notin Staging \cup Final \cup {"activate"}
  BY Zenon DEF Working, Follows, Staging, Final
<1>5. Moved(a)
  BY <1>1, <1>4, Zenon DEF Moved
<1>6. SplitsMoved(a)
  BY <1>1, <1>4, Zenon DEF SplitsMoved, IInv, Images
<1>7. Fences'
  BY <1>3, <1>4, <1>5, FencesKept, Zenon DEF IInv, Fences, SameFence
<1>8. Images'
  BY <1>4, <1>5, <1>6, ImagesKept, Zenon DEF IInv, Images
<1>9. \A t \in Splits : SplitOk(sp'[a][t], data'[t])
  BY <1>1, <1>2, Zenon DEF IInv, Agreed
<1>10. \A t \in Splits : data'[t] = data[t] \/ data[t] = NoBytes
  BY <1>2, Zenon
<1>11. Agreed'
  <2>1. \A g \in Gens, t \in Splits : image'[g][t] \in {image[g][t], data'[t]}
    BY Zenon
  <2> QED
    BY <1>1, <1>9, <1>10, <2>1, AgreedKept, Zenon
<1> QED
  BY <1>3, <1>7, <1>8, <1>11, Zenon DEF IInv

\* put_stream_if_absent
LEMMA PutDataKeeps ==
  ASSUME IInv, NEW a \in Procs, NEW s \in Splits, PutData(a, s) PROVE IInv' /\ current' = current
<1>1. Working(a) /\ sp[a][s].st = "made"
  BY Zenon DEF PutData
<1>2. CASE ~(Identity(a, s) /\ data[s] \in {NoBytes, sp[a][s].bytes})
  <2>1. Fenced(a, s) /\ Around
    BY <1>2, AroundSame, Zenon DEF PutData, serving
  <2> QED
    BY <1>1, <2>1, FencedKeeps, Zenon
<1>3. CASE Identity(a, s) /\ data[s] \in {NoBytes, sp[a][s].bytes}
  <2> DEFINE x == [sp[a][s] EXCEPT !.st = "stored"]
  <2>1. /\ data' = [data EXCEPT ![s] = sp[a][s].bytes] /\ SetSplit(a, s, "stored")
        /\ UNCHANGED <<deploy, source, coord, live, build, comp, image, ready, current, rewound, proc, loop>>
    BY <1>3, Zenon DEF PutData, serving
  <2>2. sp \in [Procs -> [Splits -> SplitRecs]] /\ sp[a][s] \in SplitRecs
    BY Zenon DEF IInv, Types
  <2>3. x \in SplitRecs /\ x.st = "stored" /\ x.bytes = sp[a][s].bytes
    BY <2>2, Zenon DEF SplitRecs, Stages
  <2>4. sp' = [sp EXCEPT ![a][s] = x]
    BY <2>1, <2>2, Zenon DEF SetSplit
  <2> HIDE DEF x
  <2>5. SplitOk(x, x.bytes) /\ x.st # "rejoin"
    BY <1>1, <2>3, Zenon DEF SplitOk, IInv, Agreed
  <2>6. /\ comp' \in [Gens -> [Splits -> ByteRecs]]
        /\ \A g \in Gens, t \in Splits : comp'[g][t] \in {comp[g][t], data'[t]}
    BY <2>1, Zenon DEF IInv, Types
  <2> QED
    BY <1>1, <1>3, <2>1, <2>3, <2>4, <2>5, <2>6, StoreKeeps, Zenon
<1> QED
  BY <1>2, <1>3, Zenon

\* The completion under the fence, and pin_parquet.
LEMMA PutCompletionKeeps ==
  ASSUME IInv, NEW a \in Procs, NEW s \in Splits, PutCompletion(a, s) PROVE IInv' /\ current' = current
<1>1. Working(a) /\ sp[a][s].st = "stored"
  BY Zenon DEF PutCompletion
<1>2. CASE ~Identity(a, s)
  <2>1. Fenced(a, s) /\ Around
    BY <1>2, AroundSame, Zenon DEF PutCompletion, store, serving
  <2> QED
    BY <1>1, <2>1, FencedKeeps, Zenon
<1>3. CASE Identity(a, s)
  <2> DEFINE g == sp[a][s].gen
             x == [sp[a][s] EXCEPT !.st = "done"]
  <2>1. /\ data' = [data EXCEPT ![s] = sp[a][s].bytes] /\ SetSplit(a, s, "done")
        /\ comp' = [comp EXCEPT ![g][s] = sp[a][s].bytes]
        /\ UNCHANGED <<deploy, source, coord, live, build, image, ready, current, rewound, proc, loop>>
    BY <1>3, Zenon DEF PutCompletion, serving
  <2>2. sp \in [Procs -> [Splits -> SplitRecs]] /\ sp[a][s] \in SplitRecs
    BY Zenon DEF IInv, Types
  <2>3. x \in SplitRecs /\ x.st = "done" /\ x.bytes = sp[a][s].bytes /\ x.bytes \in ByteRecs
    BY <2>2, Zenon DEF SplitRecs, Stages
  <2>4. sp' = [sp EXCEPT ![a][s] = x]
    BY <2>1, <2>2, Zenon DEF SetSplit
  <2> HIDE DEF x
  <2>5. SplitOk(x, x.bytes) /\ x.st # "rejoin" /\ data[s] = x.bytes
    BY <1>1, <2>3, Zenon DEF SplitOk, IInv, Agreed
  <2>6. g \in Gens
    BY <1>3, HeldGeneration, Zenon DEF Identity, IInv
  <2> HIDE DEF g
  <2>7. data'[s] = x.bytes
    BY <2>1, <2>3, Zenon DEF IInv, Types
  <2>8. comp' = [comp EXCEPT ![g][s] = x.bytes] /\ comp \in [Gens -> [Splits -> ByteRecs]]
    BY <2>1, <2>3, Zenon DEF IInv, Types
  <2>9. /\ comp' \in [Gens -> [Splits -> ByteRecs]]
        /\ \A h \in Gens, t \in Splits : comp'[h][t] = comp[h][t] \/ (t = s /\ comp'[h][t] = x.bytes)
    BY <2>3, <2>6, <2>8, Zenon
  <2>10. \A h \in Gens, t \in Splits : comp'[h][t] \in {comp[h][t], data'[t]}
    BY <2>7, <2>9, Zenon
  <2>11. data[s] \in {NoBytes, x.bytes} /\ data' = [data EXCEPT ![s] = x.bytes]
    BY <2>1, <2>3, <2>5, Zenon
  <2> QED
    BY <1>1, <2>1, <2>3, <2>4, <2>5, <2>9, <2>10, <2>11, StoreKeeps, Zenon
<1> QED
  BY <1>2, <1>3, Zenon

\* The publisher's renewal, its last check, and the ACTIVE BUILD record.
LEMMA PublishMovesKeeps ==
  ASSUME IInv, NEW a \in Procs, ImageRead(a) \/ ImageSwap(a) \/ ImageCheck(a) \/ PutActive(a)
  PROVE  IInv' /\ current' = current
<1>1. /\ a \in Coordinators /\ proc[a].gen \in Nat /\ loop \in [Procs -> LoopRecs]
      /\ proc \in [Procs -> ProcRecs] /\ build \in BuildRecs
      /\ proc[a].at \in {"image", "imageSwap", "ready", "activeBuild"}
  <2>1. proc[a].at \in {"image", "imageSwap", "ready", "activeBuild"}
    BY Zenon DEF ImageRead, ImageSwap, ImageCheck, PutActive
  <2> QED
    BY <2>1, ShardZero, Zenon DEF IInv, Types, ProcRecs
<1>2. /\ {"imageSwap", "imagePut", "activate", "serve"} \subseteq Phases
      /\ Follows("image", "imageSwap") /\ Follows("imageSwap", "imagePut")
      /\ Follows("ready", "activate") /\ Follows("activeBuild", "serve")
      /\ \A y \in {"imageSwap", "imagePut", "serve"} : y \notin Final \cup {"activate"}
      /\ "ready" \in Final
      /\ \A x \in {"image", "imageSwap", "ready", "activeBuild"} : x \notin {"build", "serve"}
  BY Zenon DEF Follows, Acquiring, BeforeImage, Staging, Phases, Final
<1>3. CASE Dies(a) /\ Around
  BY <1>3, DiesKeeps, Zenon
<1>4. CASE ImageRead(a) /\ ~(Dies(a) /\ Around)
  <2>1. proc[a].at = "image" /\ Set(a, "imageSwap") /\ UNCHANGED <<sp, loop>> /\ Around
    BY <1>4, AroundSame, Zenon DEF ImageRead, PublishFails, store, serving
  <2> QED
    BY <1>1, <1>2, <2>1, SetGives, PassKeeps, Zenon
<1>5. CASE ImageSwap(a) /\ ~(Dies(a) /\ Around)
  <2>1. a \notin fresh => Dies(a) /\ Around
    BY <1>5, AroundSame, Zenon DEF ImageSwap, PublishFails, store, serving
  <2>2. /\ proc[a].at = "imageSwap" /\ Swap(coord) /\ UNCHANGED <<sp, loop>>
        /\ proc' = [proc EXCEPT ![a].at = "imagePut", ![a].put = Renewed(proc[a].gen, build)]
        /\ UNCHANGED <<deploy, source, build, data, comp, image, ready, current, rewound>>
    BY <1>5, <2>1, Zenon DEF ImageSwap, store, serving
  <2>3. Renewed(proc[a].gen, build) \in BuildRecs
    BY <1>1, Zenon DEF Renewed, BuildRecs, States
  <2>4. /\ proc' \in [Procs -> ProcRecs] /\ proc'[a].at = "imagePut" /\ proc'[a].gen = proc[a].gen
        /\ \A b \in Procs : b # a => proc'[b] = proc[b]
    BY <1>1, <2>2, <2>3, ZenonT(60) DEF ProcRecs, Phases
  <2>5. coord.gen > 0
    <3>1. proc[a].at \notin Acquiring \cup {"failed"}
      BY <1>1, Zenon DEF Acquiring
    <3>2. proc[a].gen > 0 /\ proc[a].gen <= coord.gen
      BY <1>1, <3>1, Zenon DEF IInv, Fences
    <3> QED
      BY <1>1, <3>2 DEF IInv, Types, CoordRecs
  <2>6. Around
    BY <2>2, <2>5, AroundSwap, Zenon
  <2> QED
    BY <1>1, <1>2, <2>2, <2>4, <2>6, PassKeeps, Zenon
<1>6. CASE ImageCheck(a) /\ ~(Dies(a) /\ Around)
  <2>1. Around
    BY <1>6, AroundSame, Zenon DEF ImageCheck, store, serving
  <2>2. proc[a].at = "ready" /\ Set(a, "activate") /\ UNCHANGED <<sp, loop>> /\ proc[a].gen = coord.gen
    BY <1>6, <2>1, Zenon DEF ImageCheck, PublishFails, HoldsLease
  <2> QED
    BY <1>1, <1>2, <2>1, <2>2, SetGives, PassKeeps, Zenon
<1>7. CASE PutActive(a)
  <2>1. build' \in BuildRecs
    BY <1>1, <1>7, Zenon DEF PutActive, BuildRecs, States
  <2>2. proc[a].at = "activeBuild" /\ Set(a, "serve") /\ UNCHANGED <<sp, loop>> /\ Around
    BY <1>7, <2>1, AroundBuild, Zenon DEF PutActive, lease, store, serving
  <2> QED
    BY <1>1, <1>2, <2>2, SetGives, PassKeeps, Zenon
<1> QED
  BY <1>3, <1>4, <1>5, <1>6, <1>7, Zenon

\* What the publishing coordinator knows of its generation.
LEMMA Publisher ==
  ASSUME IInv, NEW a \in Procs, proc[a].at \in Staging \cup Final
  PROVE  /\ a \in Coordinators /\ proc[a].gen \in Gens /\ proc[a].gen <= coord.gen
         /\ ImageOf(a)
         /\ \A b \in Coordinators : b # a => proc[b].gen # proc[a].gen
         /\ \A b \in Coordinators : proc[b].at \in BeforeImage \cup Staging \cup Final => proc[b].gen \in Gens
<1>1. a \in Coordinators
  BY Zenon DEF IInv, Fences
<1>2. \A x \in BeforeImage \cup Staging \cup Final : x \notin Acquiring \cup {"failed"}
  BY Zenon DEF BeforeImage, Staging, Final, Acquiring
<1>3. \A b \in Coordinators : proc[b].at \in BeforeImage \cup Staging \cup Final => proc[b].gen \in Gens
  BY <1>2, OwnGeneration, Zenon DEF IInv
<1>4. proc[a].gen # 0
  BY <1>1, <1>3, GenerationAssumption, FS_CardinalityType DEF Gens
<1> QED
  BY <1>1, <1>3, <1>4, Zenon DEF IInv, Fences, Images

\* An object is staged: a part of the image of the publisher's own generation.
LEMMA ImagePutKeeps == ASSUME IInv, NEW a \in Procs, ImagePut(a) PROVE IInv' /\ current' = current
<1> DEFINE g == proc[a].gen
<1>1. proc[a].at = "imagePut" /\ proc[a].at \in Staging /\ proc[a].at \in Staging \cup Final
  BY Zenon DEF ImagePut, Staging
<1>2. /\ a \in Coordinators /\ g \in Gens /\ g <= coord.gen /\ ImageOf(a)
      /\ \A b \in Coordinators : b # a => proc[b].gen # g
      /\ \A b \in Coordinators : proc[b].at \in BeforeImage \cup Staging \cup Final => proc[b].gen \in Gens
  BY <1>1, Publisher, Zenon
<1>3. PICK s \in Unstaged(a) : image' = [image EXCEPT ![g][s] = data[s]]
  BY Zenon DEF ImagePut
<1>4. s \in Splits /\ Whole(a) /\ g \notin ready
  BY <1>1, <1>2, <1>3, Zenon DEF Unstaged, Objects, Whole, ImageOf
<1>5. /\ image' \in [Gens -> [Splits -> ByteRecs]]
      /\ \A h \in Gens : h # g => image'[h] = image[h]
      /\ \A h \in Gens, t \in Splits : image'[h][t] \in {image[h][t], data[t]}
  <2>1. image \in [Gens -> [Splits -> ByteRecs]] /\ data[s] \in ByteRecs
    BY <1>4, Zenon DEF IInv, Types
  <2> HIDE DEF g
  <2> QED
    BY <1>2, <1>3, <1>4, <2>1, Zenon
<1>6. /\ proc' \in [Procs -> ProcRecs] /\ proc'[a].at = "image" /\ proc'[a].gen = g
      /\ \A b \in Procs : b # a => proc'[b] = proc[b]
  BY EmptyRecords, ZenonT(60) DEF ImagePut, IInv, Types, ProcRecs, Phases
<1>7. build' \in BuildRecs
  BY Zenon DEF ImagePut, IInv, Types, ProcRecs
<1>8. /\ UNCHANGED <<deploy, source, coord, live, data, comp, ready, current, rewound, sp, loop>>
  BY Zenon DEF ImagePut, lease, store
<1>9. Types'
  BY <1>5, <1>6, <1>7, <1>8, Zenon DEF IInv, Types
<1>10. Follows("imagePut", "image") /\ "image" \notin Final \cup {"activate"} \cup BeforeImage \cup {"build", "serve"}
       /\ "image" \in Staging /\ "imagePut" \notin {"build", "serve"}
  BY Zenon DEF Follows, Acquiring, BeforeImage, Staging, Final
<1>11. Moved(a)
  BY <1>1, <1>2, <1>6, <1>8, <1>10, Zenon DEF Moved
<1>12. Fences'
  BY <1>6, <1>8, <1>9, <1>10, <1>11, FencesKept, Zenon DEF IInv, Fences, SameFence
<1>13. Agreed'
  <2>1. \A h \in Gens, t \in Splits : comp'[h][t] \in {comp[h][t], data'[t]}
    BY <1>8, Zenon
  <2>2. \A t \in Splits : SplitOk(sp'[a][t], data'[t]) /\ data'[t] = data[t]
    BY <1>8, Zenon DEF IInv, Agreed
  <2> QED
    BY <1>5, <1>8, <2>1, <2>2, AgreedKept, Zenon
<1>14. \A h \in Gens : h # g => (Unstarted(h) => Unstarted(h)') /\ (Complete(h) => Complete(h)')
  BY <1>5, Zenon DEF Unstarted, Complete
<1>15. ImageOf(a)'
  <2>1. Whole(a)'
    BY <1>4, <1>8, Zenon DEF Whole, IsAdmin
  <2> QED
    BY <1>4, <1>6, <1>8, <1>10, <2>1, Zenon DEF ImageOf
<1>16. ASSUME NEW b \in Coordinators, b # a PROVE ImageOf(b)'
  <2>1. proc'[b] = proc[b] /\ sp'[b] = sp[b] /\ ImageOf(b) /\ (Whole(b) => Whole(b)')
    BY <1>6, <1>8, <1>16, Zenon DEF Procs, IInv, Images, Whole, IsAdmin
  <2>2. proc[b].at \in BeforeImage \cup Staging => (Unstarted(proc[b].gen) => Unstarted(proc[b].gen)')
    <3>1. ASSUME proc[b].at \in BeforeImage \cup Staging, Unstarted(proc[b].gen) PROVE Unstarted(proc[b].gen)'
      <4>1. proc[b].gen \in Gens /\ proc[b].gen # g
        BY <1>2, <1>16, <3>1, Zenon
      <4> QED
        BY <1>5, <2>1, <3>1, <4>1, Zenon DEF Unstarted
    <3> QED
      BY <3>1, Zenon
  <2> QED
    BY <1>8, <2>1, <2>2, Zenon DEF ImageOf
<1>17. Images'
  <2>1. \A h \in Gens : h > coord.gen => h # g
    BY <1>2, GenerationAssumption, FS_CardinalityType DEF Gens, IInv, Types, CoordRecs
  <2>2. \A h \in ready : h \in Gens /\ h # g
    BY <1>4, Zenon DEF IInv, Types
  <2>3. \A b \in Procs : proc'[b].at \notin {"build", "serve"} => \A t \in Splits : sp'[b][t].st # "rejoin"
    BY <1>1, <1>6, <1>8, <1>10, Zenon DEF IInv, Images
  <2> HIDE DEF g
  <2> QED
    BY <1>8, <1>14, <1>15, <1>16, <2>1, <2>2, <2>3, Zenon DEF IInv, Images
<1> QED
  BY <1>8, <1>9, <1>12, <1>13, <1>17, Zenon DEF IInv

\* READY.json is written once nothing is left to stage.
LEMMA ImageReadyKeeps == ASSUME IInv, NEW a \in Procs, ImageReady(a) PROVE IInv' /\ current' = current
<1> DEFINE g == proc[a].gen
<1>1. proc[a].at = "image" /\ proc[a].at \in Staging /\ proc[a].at \in Staging \cup Final
  BY Zenon DEF ImageReady, Staging
<1>2. /\ a \in Coordinators /\ g \in Gens /\ g <= coord.gen /\ ImageOf(a)
      /\ \A b \in Coordinators : b # a => proc[b].gen # g
      /\ \A b \in Coordinators : proc[b].at \in BeforeImage \cup Staging \cup Final => proc[b].gen \in Gens
  BY <1>1, Publisher, Zenon
<1>3. /\ ready' = ready \cup {g} /\ Set(a, "ready")
      /\ UNCHANGED <<deploy, source, coord, live, build, data, comp, image, current, rewound, sp, loop>>
  BY Zenon DEF ImageReady, lease, store
<1>4. /\ Follows("image", "ready") /\ "ready" \in Phases /\ "ready" \in Final
      /\ "ready" \notin BeforeImage \cup Staging \cup {"activate", "build", "serve"}
      /\ "image" \notin {"build", "serve"}
  BY Zenon DEF Follows, Acquiring, BeforeImage, Staging, Final, Phases
<1>5. /\ proc' \in [Procs -> ProcRecs] /\ proc'[a].at = "ready" /\ proc'[a].gen = g
      /\ \A b \in Procs : b # a => proc'[b] = proc[b]
  BY <1>3, <1>4, SetGives, Zenon
<1>6. Types'
  <2>1. ready' \subseteq Gens
    BY <1>2, <1>3, Zenon DEF IInv, Types
  <2> QED
    BY <1>3, <1>5, <2>1, Zenon DEF IInv, Types
<1>7. Moved(a)
  BY <1>1, <1>2, <1>3, <1>4, <1>5, Zenon DEF Moved
<1>8. Fences'
  BY <1>3, <1>4, <1>5, <1>6, <1>7, FencesKept, Zenon DEF IInv, Fences, SameFence
<1>9. Agreed'
  BY <1>3, Zenon DEF IInv, Agreed
<1>10. Unstarted(g) \/ Complete(g)
  <2>1. CASE Whole(a)
    <3>1. \A s \in Splits : image[g][s] # NoBytes
      BY <2>1, Zenon DEF ImageReady, Unstaged, Objects, Whole
    <3> QED
      BY <3>1, Zenon DEF Complete
  <2>2. CASE ~Whole(a)
    BY <1>1, <1>2, <2>2, Zenon DEF ImageOf
  <2> QED
    BY <2>1, <2>2, Zenon
<1> HIDE DEF g
<1>11. \A h : (Unstarted(h) => Unstarted(h)') /\ (Complete(h) => Complete(h)')
  BY <1>3, Zenon DEF Unstarted, Complete
<1>12. ImageOf(a)'
  BY <1>3, <1>4, <1>5, Zenon DEF ImageOf
<1>13. ASSUME NEW b \in Coordinators, b # a PROVE ImageOf(b)'
  <2>1. /\ proc'[b] = proc[b] /\ sp'[b] = sp[b] /\ ImageOf(b) /\ (Whole(b) => Whole(b)')
        /\ proc[b].gen # g
    BY <1>2, <1>3, <1>5, <1>13, Zenon DEF Procs, IInv, Images, Whole, IsAdmin
  <2>2. proc[b].gen \in ready' <=> proc[b].gen \in ready
    BY <1>3, <2>1, Zenon
  <2>3. Unstarted(proc[b].gen) => Unstarted(proc[b].gen)'
    BY <1>3, <2>1, Zenon DEF Unstarted
  <2> QED
    BY <2>1, <2>2, <2>3, Zenon DEF ImageOf
<1>14. Images'
  <2>1. \A h \in Gens : h > coord.gen => h # g
    BY <1>2, GenerationAssumption, FS_CardinalityType DEF Gens, IInv, Types, CoordRecs
  <2>2. \A b \in Procs : proc'[b].at \notin {"build", "serve"} => \A t \in Splits : sp'[b][t].st # "rejoin"
    BY <1>1, <1>3, <1>4, <1>5, Zenon DEF IInv, Images
  <2>3. \A h \in ready' : Unstarted(h)' \/ Complete(h)'
    BY <1>3, <1>10, <1>11, Zenon DEF IInv, Images
  <2>4. \A h \in Gens : h > coord'.gen => Unstarted(h)' /\ h \notin ready'
    BY <1>3, <1>11, <2>1, Zenon DEF IInv, Images
  <2>5. current' # 0 => current' \in ready'
    BY <1>3, Zenon DEF IInv, Images
  <2>6. \A b \in Coordinators : ImageOf(b)'
    BY <1>12, <1>13, Zenon
  <2>7. \A b \in Procs, t \in Splits : sp'[b][t].st = "rejoin" => deploy'.lazy
    BY <1>3, Zenon DEF IInv, Images
  <2> QED
    BY <2>2, <2>3, <2>4, <2>5, <2>6, <2>7, Zenon DEF Images
<1> QED
  BY <1>3, <1>6, <1>8, <1>9, <1>14, Zenon DEF IInv

\* CURRENT is put: forward, unless a takeover fell after the publisher's check.
LEMMA PutCurrentKeeps ==
  ASSUME IInv, NEW a \in Procs, PutCurrent(a) PROVE IInv' /\ (current' >= current \/ rewound)
<1> DEFINE g == proc[a].gen
<1>1. proc[a].at = "activate" /\ proc[a].at \in Final /\ proc[a].at \in Staging \cup Final
  BY Zenon DEF PutCurrent, Final
<1>2. a \in Coordinators /\ g \in Gens /\ g <= coord.gen /\ g \in ready
  BY <1>1, Publisher, Zenon DEF ImageOf
<1>3. /\ current' = g /\ Set(a, "activeBuild")
      /\ UNCHANGED <<deploy, source, coord, live, build, data, comp, image, ready, rewound, sp, loop>>
  BY Zenon DEF PutCurrent, lease, store
<1>4. /\ Follows("activate", "activeBuild") /\ "activeBuild" \in Phases
      /\ "activeBuild" \notin Staging \cup {"activate", "build", "serve"}
      /\ "activate" \notin {"build", "serve"}
  BY Zenon DEF Follows, Acquiring, BeforeImage, Staging, Final, Phases
<1>5. /\ proc' \in [Procs -> ProcRecs] /\ proc'[a].at = "activeBuild" /\ proc'[a].gen = g
      /\ \A b \in Procs : b # a => proc'[b] = proc[b]
  BY <1>3, <1>4, SetGives, Zenon
<1>6. Types'
  <2>1. current' \in Nat
    BY <1>2, <1>3 DEF Gens
  <2> QED
    BY <1>3, <1>5, <2>1, Zenon DEF IInv, Types
<1>7. Moved(a)
  BY <1>1, <1>2, <1>3, <1>4, <1>5, Zenon DEF Moved
<1>8. Fences'
  BY <1>2, <1>3, <1>4, <1>5, <1>6, <1>7, FencesKept, Zenon DEF IInv, Fences, SameFence
<1>9. Agreed'
  BY <1>3, Zenon DEF IInv, Agreed
<1>10. SplitsMoved(a)
  BY <1>1, <1>3, <1>4, <1>5, Zenon DEF SplitsMoved, IInv, Images
<1>11. Images'
  BY <1>1, <1>2, <1>3, <1>7, <1>10, ImagesKept, Zenon
<1>12. current' >= current \/ rewound
  <2>1. rewound \/ g = coord.gen
    BY <1>1, <1>2, Zenon DEF IInv, Fences
  <2>2. current <= coord.gen /\ current \in Nat /\ coord.gen \in Nat
    BY Zenon DEF IInv, Fences, Types, CoordRecs
  <2> HIDE DEF g
  <2> QED
    BY <1>3, <2>1, <2>2, Zenon
<1> QED
  BY <1>6, <1>8, <1>9, <1>11, <1>12, Zenon DEF IInv

-----------------------------------------------------------------------------
(* The theorems *)

\* The store is empty and no process has begun.
LEMMA InitGives == Init => IInv
<1> SUFFICES ASSUME Init PROVE IInv
  BY Zenon
<1>1. /\ \A a \in Procs : proc[a] = NoProc /\ loop[a] = NoLoop
      /\ \A a \in Procs, s \in Splits : sp[a][s] = NoSplit
      /\ \A s \in Splits : data[s] = NoBytes
      /\ \A g \in Gens, s \in Splits : comp[g][s] = NoBytes /\ image[g][s] = NoBytes
      /\ coord.gen = 0 /\ live = FALSE /\ current = 0 /\ ready = {} /\ rewound = FALSE
  BY Zenon DEF Init, NoIndex
<1>2. /\ NoProc.at = "start" /\ NoProc.gen = 0 /\ NoSplit.st = "todo" /\ Coordinators \subseteq Procs
      /\ "start" \in Acquiring /\ "start" # "joined"
      /\ "start" \notin {"acquire", "activate"} \cup BeforeImage \cup Staging \cup Final
  BY Zenon DEF NoProc, NoSplit, Procs, Acquiring, BeforeImage, Staging, Final
<1>3. Types
  <2>1. NoLoop \in LoopRecs /\ [gen |-> 0, shards |-> 0, plan |-> "none"] \in CoordRecs
    BY Zenon DEF NoLoop, NoBuild, LoopRecs, BuildRecs, CoordRecs, States
  <2>2. [g \in Gens |-> NoIndex] \in [Gens -> [Splits -> ByteRecs]]
    BY EmptyRecords, Zenon DEF NoIndex
  <2>3. source \in Nat \ {0} /\ current \in Nat
    BY DEF Init
  <2>4. live \in BOOLEAN /\ rewound \in BOOLEAN
    BY <1>1, Zenon
  <2>5. coord \in CoordRecs /\ build \in BuildRecs /\ ready \subseteq Gens
    BY <2>1, EmptyRecords, Zenon DEF Init
  <2>6. /\ data \in [Splits -> ByteRecs] /\ comp \in [Gens -> [Splits -> ByteRecs]]
        /\ image \in [Gens -> [Splits -> ByteRecs]]
    BY <2>2, EmptyRecords, Zenon DEF Init
  <2>7. /\ proc \in [Procs -> ProcRecs] /\ sp \in [Procs -> [Splits -> SplitRecs]]
        /\ loop \in [Procs -> LoopRecs]
    BY <2>1, EmptyRecords, Zenon DEF Init
  <2> QED
    BY <2>3, <2>4, <2>5, <2>6, <2>7, Zenon DEF Types
<1>4. Fences
  <2>1. Cardinality(Begun) \in Nat
    <3>1. IsFiniteSet(Begun)
      BY GenerationAssumption, FS_Subset, Zenon DEF Begun
    <3> QED
      BY <3>1, FS_CardinalityType, Zenon
  <2>2. coord.gen <= Cardinality(Begun) /\ current <= coord.gen /\ \A a \in Procs : proc[a].gen <= coord.gen
    BY <1>1, <1>2, <2>1
  <2> QED
    BY <1>1, <1>2, <2>2, Zenon DEF Fences
<1>5. Agreed
  <2>1. \A d : SplitOk(NoSplit, d)
    BY Zenon DEF SplitOk, NoSplit
  <2> QED
    BY <1>1, <2>1, Zenon DEF Agreed
<1>6. Images
  <2>1. \A g \in Gens : Unstarted(g) /\ g \notin ready
    BY <1>1, Zenon DEF Unstarted
  <2>2. \A a \in Coordinators : ImageOf(a)
    BY <1>1, <1>2, Zenon DEF ImageOf
  <2>3. \A a \in Procs, s \in Splits : sp[a][s].st # "rejoin"
    BY <1>1, <1>2, Zenon
  <2> QED
    BY <1>1, <2>1, <2>2, <2>3, Zenon DEF Images
<1> QED
  BY <1>3, <1>4, <1>5, <1>6, Zenon DEF IInv

\* Every step keeps the invariant, and only the late put of a fenced publisher
\* takes CURRENT back.
LEMMA StepKeeps == ASSUME IInv, [Next]_vars PROVE IInv' /\ (current' >= current \/ rewound)
<1>1. current \in Nat
  BY Zenon DEF IInv, Types
<1>2. current' = current => current' >= current
  BY <1>1
<1>3. CASE SourceChanges \/ LeaseLapses
  BY <1>2, <1>3, EnvironmentKeeps, Zenon
<1>4. ASSUME NEW a \in Procs, Crash(a) \/ Acquire(a) \/ Plan(a) \/ Join(a) \/ JoinFails(a) \/ Hydrate(a)
                              \/ Finish(a) \/ Renew(a)
      PROVE  IInv' /\ current' = current
  BY <1>4, CrashKeeps, AcquireReadKeeps, AcquireSwapKeeps, AcquirePutKeeps, PlanKeeps, PlanPutKeeps,
     JoinKeeps, HydrateKeeps, FinishKeeps, LoopKeeps, Zenon DEF Acquire, Plan
<1>5. ASSUME NEW a \in Procs, Publish(a) PROVE IInv' /\ (current' >= current \/ rewound)
  BY <1>2, <1>5, PublishMovesKeeps, ImagePutKeeps, ImageReadyKeeps, PutCurrentKeeps, Zenon DEF Publish
<1>6. ASSUME NEW a \in Procs, NEW s \in Splits, Split(a, s) \/ MakeFails(a, s) \/ AwaitTimesOut(a, s)
      PROVE  IInv' /\ current' = current
  BY <1>6, MakeSplitKeeps, PutDataKeeps, PutCompletionKeeps, AwaitSplitKeeps, RejoinKeeps,
     SplitFailsKeeps, Zenon DEF Split
<1>7. CASE UNCHANGED vars
  <2>1. /\ deploy' = deploy /\ source' = source /\ coord' = coord /\ live' = live /\ build' = build
        /\ current' = current /\ data' = data /\ comp' = comp /\ image' = image /\ ready' = ready
        /\ proc' = proc /\ sp' = sp /\ loop' = loop /\ rewound' = rewound
    BY <1>7, Zenon DEF vars
  <2>2. Types' /\ Fences' /\ Agreed'
    BY <2>1, Zenon DEF IInv, Types, Fences, Begun, Agreed
  <2>3. Images'
    BY <2>1, Zenon DEF IInv, Images, ImageOf, Unstarted, Complete, Whole, IsAdmin
  <2> QED
    BY <1>2, <2>1, <2>2, <2>3, Zenon DEF IInv
<1> QED
  BY <1>2, <1>3, <1>4, <1>5, <1>6, <1>7, Zenon DEF Next

\* The inductive invariant: fences, bytes and images, at every step.
THEOREM GenerationSafe == Spec => []IInv
<1>1. IInv /\ [Next]_vars => IInv'
  BY StepKeeps, Zenon
<1> QED
  BY <1>1, InitGives, PTL DEF Spec

\* The bytes a completion declares, and the bytes a process finished a split with,
\* are the bytes under the split's key, whatever other generations and late
\* writers do (publish_split_completion, pin_parquet).
THEOREM BytesServed == Spec => []DeclaredBytesAreServed
<1>1. IInv => DeclaredBytesAreServed
  BY Zenon DEF IInv, Agreed, SplitOk, DeclaredBytesAreServed
<1> QED
  BY <1>1, GenerationSafe, PTL

\* CURRENT points to a generation with READY.json whose image holds every split of
\* the table or, when the table was quarantined, none (publish_serving_image).
THEOREM ImageWhole == Spec => []ImageIsWhole
<1>1. ASSUME IInv PROVE ImageIsWhole
  <2> SUFFICES ASSUME current # 0 PROVE current \in ready /\ image[current] \in {NoIndex, data}
    BY Zenon DEF ImageIsWhole
  <2>1. current \in ready /\ current \in Gens /\ (Unstarted(current) \/ Complete(current))
    BY <1>1, Zenon DEF IInv, Images, Types
  <2>2. image[current] \in [Splits -> ByteRecs] /\ data \in [Splits -> ByteRecs]
    BY <1>1, <2>1, Zenon DEF IInv, Types
  <2>3. CASE Unstarted(current)
    BY <2>1, <2>2, <2>3, Zenon DEF Unstarted, NoIndex
  <2>4. CASE Complete(current)
    <3>1. \A s \in Splits : image[current][s] = data[s]
      BY <1>1, <2>1, <2>4, Zenon DEF Complete, IInv, Agreed
    <3>2. image[current] = data
      BY <2>2, <3>1
    <3> QED
      BY <2>1, <3>2, Zenon
  <2> QED
    BY <2>1, <2>3, <2>4, Zenon
<1> QED
  BY <1>1, GenerationSafe, PTL

\* CURRENT goes back to an older generation only when a takeover fell between a
\* publisher's last lease check and its put (publish_serving_image).
THEOREM CurrentForward == Spec => CurrentNeverRewinds
<1>1. IInv /\ [Next]_vars => [current' >= current \/ rewound]_vars
  BY StepKeeps, Zenon
<1> QED
  BY <1>1, GenerationSafe, PTL DEF Spec, CurrentNeverRewinds
=============================================================================
