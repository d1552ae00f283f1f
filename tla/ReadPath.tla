------------------------------ MODULE ReadPath ------------------------------
(***************************************************************************)
(* A client that lists and reads a bucket while what is served changes     *)
(* under it.  The bucket is served by the Python Agent of module Serving,  *)
(* by a passthrough mount, or by the native Agent (agent-cpp/agent.cpp),   *)
(* whose threads are modelled here: the accept loop, the workers, the      *)
(* index refresher and the control loop, over a store in which a publisher *)
(* writes generations and the Manager materialises on request.             *)
(*                                                                         *)
(* A file's content stands for its bytes and for their number.             *)
(***************************************************************************)
EXTENDS Serving, S3Api, S3Ranges

CONSTANTS
    Images,         \* what the generations hold: a sequence of contents by key
    Requests,       \* listings a client may make
    Workers,        \* worker threads of the native Agent
    MaxInflight,    \* CFG.max_inflight
    MaxTotal        \* bound on the object sizes for which Range headers are tried

ASSUME ReadPathAssumption ==
    /\ MaxInflight \in Nat \ {0}
    /\ \A g \in DOMAIN Images : DOMAIN Images[g] \subseteq DOMAIN FolderOf

\* What S3Ranges proves of objects of every size, evaluated on small ones.
ASSUME RangesTried ==
    \A total \in 0 .. MaxTotal, h \in Headers(0 .. MaxTotal + 1) : RangesAreExact(h, total)

VARIABLES
    disk,           \* the store: CURRENT, objects at its root, damaged generations, and
                    \* the index the native Agent saves
    native,         \* its globals: index, root, generation, ready, draining, running, main
    act,            \* each thread's call of activate_current_generation
    conns, work,    \* accepted connections; what each worker is doing
    lst,            \* a client's listing
    span            \* history: what was there throughout it, and at some time

frontVars == <<disk, native, act, conns, work, lst>>
allVars   == <<vars, frontVars, span>>

Threads    == Workers \cup {"refresh"}
NoFiles    == << >>
Generation == DOMAIN Images
ListRequest == Before       \* a connection asks for an object, or for a listing

NoCall     == [pc |-> "idle", gen |-> 0, entries |-> NoFiles]
NoWork     == [pc |-> "idle", what |-> 0, root |-> 0, total |-> 0, body |-> 0, asked |-> FALSE]
NoListing  == [pc |-> "idle", req |-> [prefix |-> Before, delim |-> FALSE], max |-> 0,
               token |-> Before, got |-> << >>]

\* The files below a root: the store's own, or a generation's.
FilesUnder(root) ==
    IF root = 0 THEN (IF disk.files = 0 THEN NoFiles ELSE Images[disk.files])
    ELSE IF root \in disk.damaged THEN NoFiles ELSE Images[root]

Busy(w) == work[w].pc \notin {"idle", "gone"}

Exists(root, k) == k \in DOMAIN FilesUnder(root)

\* Keys of the Delta log and of the data files.
LogRank(i)  == i
DataRank(k) == 10 * k[1] + k[2]

\* What a listing would be made from: delta_log_objects, the mount's files, the index.
Objects ==
    CASE deploy.agent = "python" ->
            {LogRank(i) : i \in DOMAIN commits} \cup {DataRank(k) : k \in Retained}
      [] deploy.agent = "mount"  -> DOMAIN FilesUnder(0)
      [] OTHER                   -> DOMAIN native.index

ReadInit ==
    /\ Init
    /\ disk = [current |-> 0, files |-> deploy.files, damaged |-> {}, saved |-> {}]
    /\ native = [index |-> NoFiles, root |-> 0, gen |-> 0, ready |-> FALSE,
                 draining |-> FALSE, running |-> FALSE, main |-> "off"]
    /\ act = [t \in Threads |-> NoCall]
    /\ conns = [queue |-> << >>, inflight |-> 0, accepted |-> 0, late |-> FALSE, stops |-> 0]
    /\ work = [w \in Workers |-> NoWork]
    /\ lst = NoListing
    /\ span = [always |-> {}, ever |-> {}]
-----------------------------------------------------------------------------
(* The store *)

\* publish_serving_image writes a generation and then CURRENT; the Manager's
\* materialize_for_key writes objects at the root.
PublishImage ==
    /\ deploy.images
    /\ disk.current + 1 \in Generation
    /\ disk' = [disk EXCEPT !.current = @ + 1]

ReplaceFiles ==
    /\ deploy.agent # "python" /\ ~deploy.images
    /\ disk.files + 1 \in Generation
    /\ disk' = [disk EXCEPT !.files = @ + 1]

Damage ==
    /\ deploy.damage /\ disk.current # 0 /\ disk.damaged = {}
    /\ disk' = [disk EXCEPT !.damaged = {disk.current}]

StoreChanges ==
    /\ PublishImage \/ ReplaceFiles \/ Damage
    /\ UNCHANGED <<native, act, conns, work, lst>>
-----------------------------------------------------------------------------
(* activate_current_generation, called by the refresher and by workers *)

RootMode == (deploy.lazy /\ ~deploy.require) \/ (disk.current = 0 /\ ~deploy.require)

Call(t, pc) == act' = [act EXCEPT ![t].pc = pc]

\* The root is scanned and the index saved; or CURRENT is read.
ActRead(t) ==
    /\ act[t].pc = "read"
    /\ IF RootMode
         THEN /\ act' = [act EXCEPT ![t].pc = "swap", ![t].entries = FilesUnder(0)]
              /\ disk' = [disk EXCEPT !.saved = {FilesUnder(0)}]
         ELSE /\ act' = [act EXCEPT ![t].pc = IF disk.current = 0 THEN "failed" ELSE "verify",
                                    ![t].gen = disk.current]
              /\ UNCHANGED disk
    /\ UNCHANGED <<native, conns, work, lst>>

\* rebuild_object_index swaps the index under the lock ...
ActSwap(t) ==
    /\ act[t].pc = "swap"
    /\ native' = [native EXCEPT !.index = act[t].entries]
    /\ Call(t, "root")
    /\ UNCHANGED <<disk, conns, work, lst>>

\* ... and the caller takes the lock again for the root.
ActRoot(t) ==
    /\ act[t].pc = "root"
    /\ native' = [native EXCEPT !.root = 0, !.gen = 0, !.ready = TRUE]
    /\ Call(t, "ok")
    /\ UNCHANGED <<disk, conns, work, lst>>

\* READY.json, the index and every object must match CURRENT's digests.
ActVerify(t) ==
    /\ act[t].pc = "verify"
    /\ Call(t, IF act[t].gen \in disk.damaged THEN "failed" ELSE "install")
    /\ UNCHANGED <<disk, native, conns, work, lst>>

Installed(g) ==
    [native EXCEPT !.index = Images[g], !.root = g, !.gen = g, !.ready = TRUE]

ActInstall(t) ==
    /\ act[t].pc = "install"
    /\ native' = Installed(act[t].gen)
    /\ Call(t, "ok")
    /\ UNCHANGED <<disk, conns, work, lst>>

\* index_refresh_loop
Refresh ==
    /\ native.running /\ act["refresh"].pc = "idle"
    /\ Call("refresh", "read")
    /\ UNCHANGED <<disk, native, conns, work, lst>>

\* Mutant: a failed refresh ends the thread.
RefreshFailedEnds == "ended"

\* Without an active generation a failed refresh is followed by the loss of readiness.
RefreshFailed == IF native.gen = 0 THEN "unready" ELSE "idle"

RefreshEnds ==
    /\ act["refresh"].pc \in {"ok", "failed"}
    /\ act' = [act EXCEPT !["refresh"] = [NoCall EXCEPT !.pc =
                  IF act["refresh"].pc = "ok" THEN "idle" ELSE RefreshFailed]]
    /\ UNCHANGED <<disk, native, conns, work, lst>>

RefreshUnready ==
    /\ act["refresh"].pc = "unready"
    /\ native' = [native EXCEPT !.ready = FALSE]
    /\ Call("refresh", "idle")
    /\ UNCHANGED <<disk, conns, work, lst>>

Activate(t) == ActRead(t) \/ ActSwap(t) \/ ActRoot(t) \/ ActVerify(t) \/ ActInstall(t)
-----------------------------------------------------------------------------
(* main: start, accept, drain *)

\* initialize_object_index, before any other thread runs
Boot ==
    /\ deploy.agent = "native" /\ native.main = "off"
    /\ LET g       == disk.current
           scanned == RootMode /\ (g # 0 \/ disk.saved = {})
           found   == IF scanned THEN FilesUnder(0)
                      ELSE IF RootMode THEN CHOOSE index \in disk.saved : TRUE
                      ELSE FilesUnder(g)
           usable  == RootMode \/ g \notin disk.damaged \cup {0}
           root    == IF RootMode \/ ~usable THEN 0 ELSE g
       IN  /\ native' = [index |-> IF usable THEN found ELSE NoFiles, root |-> root, gen |-> root,
                         ready |-> usable, draining |-> FALSE, running |-> TRUE, main |-> "accept"]
           /\ disk' = IF scanned THEN [disk EXCEPT !.saved = {found}] ELSE disk
    /\ UNCHANGED <<act, conns, work, lst>>

Refused(inflight) == inflight >= MaxInflight

\* A connection past the limit is answered 503 at once.  (The loop's test of
\* g_running may be older than the accept.)
Accept(what) ==
    /\ native.main = "accept"
    /\ ~Refused(conns.inflight)
    /\ conns' = [conns EXCEPT !.queue = Append(@, what), !.inflight = @ + 1, !.accepted = @ + 1]

AcceptGet ==
    /\ conns.accepted < deploy.gets
    /\ \E k \in DOMAIN FolderOf : k \in deploy.keys /\ Accept(k)
    /\ UNCHANGED <<disk, native, act, work, lst>>

StopOnce ==
    /\ conns.stops < deploy.stops
    /\ conns' = [conns EXCEPT !.stops = @ + 1]

\* The Manager's drain command: /readyz answers 503, and after the grace the
\* process stops.  A termination signal closes the listener instead.
Drain ==
    /\ native.main = "accept" /\ ~native.draining
    /\ StopOnce
    /\ native' = [native EXCEPT !.draining = TRUE]
    /\ UNCHANGED <<disk, act, work, lst>>

GraceEnds ==
    /\ native.draining /\ native.running /\ native.main = "accept"
    /\ native' = [native EXCEPT !.running = FALSE]
    /\ conns' = [conns EXCEPT !.late = @ \/ conns.inflight > 0]
    /\ UNCHANGED <<disk, act, work, lst>>

Terminate ==
    /\ native.main = "accept" /\ native.running
    /\ StopOnce
    /\ native' = [native EXCEPT !.draining = TRUE, !.main = "wait"]
    /\ UNCHANGED <<disk, act, work, lst>>

StopAccepting ==
    /\ native.main = "accept" /\ ~native.running
    /\ native' = [native EXCEPT !.main = "wait"]
    /\ UNCHANGED <<disk, act, conns, work, lst>>

\* No request is left, or the grace is over.
Waited == conns.inflight = 0 \/ conns'.late

StopRunning ==
    /\ native.main = "wait"
    /\ \E late \in {FALSE, conns.inflight > 0} :
         conns' = [conns EXCEPT !.late = @ \/ late]
    /\ Waited
    /\ native' = [native EXCEPT !.running = FALSE, !.main = "join"]
    /\ UNCHANGED <<disk, act, work, lst>>

\* The threads are joined; a supervisor starts the process again.  A listing
\* that was queued ends with its connection.
Exit ==
    /\ native.main = "join"
    /\ \A w \in Workers : ~Busy(w)
    /\ act["refresh"].pc = "idle"
    /\ native' = [native EXCEPT !.main = "off", !.ready = FALSE]
    /\ conns' = [conns EXCEPT !.queue = << >>, !.inflight = 0, !.late = FALSE]
    /\ lst' = IF lst.pc = "wait" THEN [lst EXCEPT !.pc = "failed"] ELSE lst
    /\ work' = [w \in Workers |-> NoWork]
    /\ UNCHANGED <<disk, act>>
-----------------------------------------------------------------------------
(* Workers: handle_connection, handle_get, handle_list *)

Take(w) ==
    /\ work[w].pc = "idle" /\ conns.queue # << >>
    /\ work' = [work EXCEPT ![w] = [NoWork EXCEPT !.what = Head(conns.queue), !.pc = "parse"]]
    /\ conns' = [conns EXCEPT !.queue = Tail(@)]
    /\ UNCHANGED <<disk, native, act, lst>>

\* A worker of a process that stops handles no further connection.
Finish(w) ==
    /\ work' = [work EXCEPT ![w] = [NoWork EXCEPT !.pc = IF native.running THEN "idle" ELSE "gone"]]
    /\ conns' = [conns EXCEPT !.inflight = @ - 1]

\* A request that is malformed, not signed or not allowed ends here.
Reject(w) ==
    /\ work[w].pc = "parse"
    /\ Finish(w)
    /\ lst' = IF work[w].what = ListRequest THEN [lst EXCEPT !.pc = "failed"] ELSE lst
    /\ UNCHANGED <<disk, native, act>>

Route(w) ==
    /\ work[w].pc = "parse"
    /\ work' = [work EXCEPT ![w].pc = IF work[w].what = ListRequest THEN "token" ELSE "resolve"]
    /\ UNCHANGED <<disk, native, act, conns, lst>>

Resolve(w) ==
    /\ work[w].pc = "resolve"
    /\ work' = [work EXCEPT ![w].root = native.root, ![w].pc = "stat"]
    /\ UNCHANGED <<disk, native, act, conns, lst>>

Stat(w) ==
    /\ work[w].pc = "stat" /\ Exists(work[w].root, work[w].what)
    /\ work' = [work EXCEPT ![w].total = FilesUnder(work[w].root)[work[w].what], ![w].pc = "send"]
    /\ UNCHANGED <<disk, native, act, conns, lst>>

\* The Manager is asked once, in lazy mode; else the answer is 404.
StatMisses(w) ==
    /\ work[w].pc = "stat" /\ ~Exists(work[w].root, work[w].what)
    /\ IF deploy.lazy /\ ~work[w].asked
         THEN work' = [work EXCEPT ![w].pc = "ask", ![w].asked = TRUE] /\ UNCHANGED conns
         ELSE Finish(w)
    /\ UNCHANGED <<disk, native, act, lst>>

\* try_manager_materialize: once the Manager has written, the generation of now is
\* activated, and the path resolved before is looked at again.
Ask(w) ==
    /\ work[w].pc = "ask"
    /\ \/ /\ ReplaceFiles \/ UNCHANGED disk
          /\ Call(w, "read")
          /\ work' = [work EXCEPT ![w].pc = "activate"]
          /\ UNCHANGED conns
       \/ Finish(w) /\ UNCHANGED <<disk, act>>
    /\ UNCHANGED <<native, lst>>

Asked(w) ==
    /\ work[w].pc = "activate" /\ act[w].pc \in {"ok", "failed"}
    /\ act' = [act EXCEPT ![w] = NoCall]
    /\ work' = [work EXCEPT ![w].pc = "stat"]
    /\ UNCHANGED <<disk, native, conns, lst>>

SentFrom(w) == FilesUnder(work[w].root)

\* The headers are out; the body is read from the path.
Send(w) ==
    /\ work[w].pc = "send"
    /\ work' = [work EXCEPT ![w].pc = "sent",
                  ![w].body = IF work[w].what \in DOMAIN SentFrom(w)
                                THEN SentFrom(w)[work[w].what] ELSE 0]
    /\ UNCHANGED <<disk, native, act, conns, lst>>

Sent(w) ==
    /\ work[w].pc = "sent"
    /\ Finish(w)
    /\ UNCHANGED <<disk, native, act, lst>>
-----------------------------------------------------------------------------
(* Listings *)

Listed(page) ==
    [lst EXCEPT !.got = @ \o page.names, !.token = page.token,
                !.pc = IF page.truncated /\ page.names # << >> THEN "more" ELSE "done"]

ListStart ==
    /\ lst.pc = "idle" /\ Objects # {}
    /\ \E req \in Requests, max \in deploy.pages :
         lst' = [NoListing EXCEPT !.pc = "more", !.req = req, !.max = max]
    /\ UNCHANGED <<disk, native, act, conns, work>>

ListNative ==
    /\ deploy.agent = "native" /\ lst.pc = "more"
    /\ Accept(ListRequest)
    /\ lst' = [lst EXCEPT !.pc = "wait"]
    /\ UNCHANGED <<disk, native, act, work>>

\* A token that the index no longer knows is answered 400.
ListToken(w) ==
    /\ work[w].pc = "token"
    /\ IF lst.token = Before \/ TokenValid(Objects, lst.req, lst.token)
         THEN work' = [work EXCEPT ![w].pc = "page"] /\ UNCHANGED <<conns, lst>>
         ELSE Finish(w) /\ lst' = [lst EXCEPT !.pc = "failed"]
    /\ UNCHANGED <<disk, native, act>>

ListPage(w) ==
    /\ work[w].pc = "page"
    /\ Finish(w)
    /\ lst' = Listed(NativePage(Objects, lst.req, lst.token, lst.max))
    /\ UNCHANGED <<disk, native, act>>

\* list_objects_v2 on the event loop: the log is synchronised first.
ListPython ==
    /\ deploy.agent = "python" /\ phase = "up" /\ lst.pc = "more"
    /\ Sync
    /\ UNCHANGED <<deploy, source, token, cache, hist, task, process, gc, events, past,
                   disk, native, act, conns, work>>
    /\ lst' = Listed(RouterPage(Objects', lst.req, lst.token, lst.max))

ListMount ==
    /\ deploy.agent = "mount" /\ lst.pc = "more"
    /\ lst' = Listed(MountPage(Objects, lst.req))
    /\ UNCHANGED <<disk, native, act, conns, work>>

-----------------------------------------------------------------------------
\* A passthrough read: the head of the object first, then the stream.
MountGet(w) ==
    /\ deploy.agent = "mount" /\ work[w].pc = "idle" /\ conns.accepted < deploy.gets
    /\ \E k \in deploy.keys : work' = [work EXCEPT ![w] = [NoWork EXCEPT !.what = k, !.pc = "stat"]]
    /\ conns' = [conns EXCEPT !.inflight = @ + 1, !.accepted = @ + 1]
    /\ UNCHANGED <<disk, native, act, lst>>

Worker(w) ==
    \/ Take(w) \/ Reject(w) \/ Route(w) \/ Resolve(w) \/ Stat(w) \/ StatMisses(w) \/ Ask(w) \/ Asked(w)
    \/ Send(w) \/ Sent(w)

FrontNext ==
    \/ StoreChanges \/ Refresh \/ RefreshEnds \/ RefreshUnready
    \/ Boot \/ AcceptGet \/ Drain \/ GraceEnds \/ Terminate \/ StopAccepting
    \/ StopRunning \/ Exit \/ ListStart \/ ListNative \/ ListMount
    \/ \E t \in Threads : Activate(t)
    \/ \E w \in Workers : Worker(w) \/ ListToken(w) \/ ListPage(w) \/ MountGet(w)

Listing(l) == l.pc \in {"more", "wait"}

\* What the objects of now add to the history.
Span ==
    span' = IF ~Listing(lst) /\ Listing(lst')
              THEN [always |-> Entries(Objects', lst'.req), ever |-> Entries(Objects', lst'.req)]
            ELSE IF Listing(lst)
              THEN [always |-> span.always \cap Entries(Objects', lst.req),
                    ever   |-> span.ever \cup Entries(Objects', lst.req)]
            ELSE span

ReadNext ==
    \/ Next /\ UNCHANGED frontVars /\ Span
    \/ ListPython /\ Span
    \/ FrontNext /\ UNCHANGED vars /\ Span

\* Beside the event loop of Serving: each thread of the native Agent runs, the
\* refresher's timer fires, and a supervisor starts the process again.  (No
\* property needs a listing to end.)
ReadFairness ==
    /\ WF_frontVars(Boot \/ StopAccepting \/ StopRunning \/ Exit)
    /\ WF_frontVars(Refresh \/ RefreshEnds \/ RefreshUnready \/ Activate("refresh"))
    /\ \A w \in Workers : WF_frontVars(Activate(w) \/ Worker(w))

ReadSpec == ReadInit /\ [][ReadNext]_allVars /\ Fairness /\ ReadFairness
-----------------------------------------------------------------------------
ReadTypeOK ==
    /\ TypeOK
    /\ disk.current \in Generation \cup {0} /\ disk.files \in Generation \cup {0}
    /\ native.root \in Generation \cup {0} /\ DOMAIN native.index \subseteq DOMAIN FolderOf
    /\ conns.inflight \in 0 .. MaxInflight
    /\ span.always \subseteq span.ever

\* A client that pages through a listing sees, in order and once, every name that
\* was there all the time and no name that never was, although the objects change
\* between two pages (list_objects_v2, handle_list, passthrough.list_objects).
Ascending(seq) == \A i \in 1 .. Len(seq) - 1 : seq[i] < seq[i + 1]

ListingIsExact ==
    /\ Ascending(lst.got)
    /\ Range(lst.got) \subseteq span.ever
    /\ lst.pc = "done" /\ lst.max > 0 => span.always \subseteq Range(lst.got)

\* The native Agent comes to serve what the store holds: the generation CURRENT
\* names, if its digests match, or the files at the root; and it is then ready.
\* A slow thread, a damaged generation or a stale saved index only delays it.
NativeCatchesUp ==
    deploy.agent = "native" =>
        <>[](\/ native.main # "accept" \/ ~native.running
             \/ ~RootMode /\ disk.current \in disk.damaged \cup {0}
             \/ /\ native.ready
                /\ native.root = IF RootMode THEN 0 ELSE disk.current
                /\ native.index = FilesUnder(native.root))
=============================================================================
