---------------------------- MODULE MCFederation ----------------------------
(* Federation for TLC: two Managers, a primary store with a replica in the  *)
(* same location and one in another, and deployments that differ in whose   *)
(* clock is ahead and in which faults happen.                               *)
(*                                                                          *)
(* A behaviour is of the catalog, or of the artifact stores under it: two   *)
(* clients of one store, which swap a root record, write two records under  *)
(* it, create one artifact and overwrite another.                           *)
EXTENDS Federation, ArtifactStore, TLC

MCLocations == [east |-> "eu", near |-> "eu", west |-> "us"]

MCSkew(p) == [q \in Parties |-> IF q = p THEN 1 ELSE 0]

MCEvents(o, c, f, r) == [ownership |-> o, crash |-> c, fault |-> f, request |-> r]

MCHandover == [owner |-> "m1", lease |-> 2, targets |-> <<"west">>, skew |-> MCSkew("m1"),
               generations |-> 2, clock |-> 1, events |-> MCEvents(1, 0, 0, 0)]
MCTakeover == [MCHandover EXCEPT !.lease = 1, !.skew = MCSkew("none"),
                                     !.clock = 2]
MCCrashes == [owner |-> "m1", lease |-> 2, targets |-> <<"near", "west">>, skew |-> MCSkew("none"), generations |-> 2,
              clock |-> 1, events |-> MCEvents(0, 1, 0, 0)]
MCFaults == [owner |-> "m1", lease |-> 2, targets |-> <<"west">>, skew |-> MCSkew("none"), generations |-> 2,
             clock |-> 1, events |-> MCEvents(0, 0, 1, 1)]

MCDeployments == {MCHandover, MCTakeover, MCCrashes, MCFaults}

-----------------------------------------------------------------------------

VARIABLE part

MCTokenOf == "a1" :> "a" @@ "a2" :> "a" @@ "b1" :> "b"
MCBatches == {<<[key |-> "r", val |-> Nil]>>,
              <<[key |-> "r", val |-> "a1"], [key |-> "s", val |-> "a1"]>>}

MCVars == <<vars, storeVars, part>>

MCInit ==
    /\ Init /\ StoreInit
    /\ \/ part = "catalog" /\ backend = "memory" /\ objects["lease"] = Nil
       \/ part = "store" /\ deploy = MCHandover

MCNext ==
    \/ part = "catalog" /\ Next /\ UNCHANGED <<storeVars, part>>
    \/ part = "store" /\ StoreNext /\ UNCHANGED <<vars, part>>

MCSpec == MCInit /\ [][MCNext]_MCVars
=============================================================================
