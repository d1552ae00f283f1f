---------------------------- MODULE FencedCatalog ----------------------------
(***************************************************************************)
(* What the federated catalog promises of one dataset (the module comment  *)
(* of enterprise/control/federation.py): ownership and the pointer of each *)
(* regional store move together.  A new owner always takes a new fence,    *)
(* and only the owner of the moment advances a pointer, never backwards.   *)
(* A pointer is 0 until a store shows a generation.                        *)
(***************************************************************************)
EXTENDS Naturals

CONSTANTS None, Managers, Stores

VARIABLES owner, fence, shown

vars == <<owner, fence, shown>>

Init == owner = None /\ fence = 0 /\ shown = [s \in Stores |-> 0]

\* The dataset is registered, or its ownership moves.
Own(m) == owner' = m /\ fence' = fence + 1 /\ shown' = shown

\* The owner shows another generation in one store.
Advance(s) ==
    /\ owner \in Managers
    /\ shown'[s] >= shown[s]
    /\ shown' = [shown EXCEPT ![s] = shown'[s]]
    /\ UNCHANGED <<owner, fence>>

Next == (\E m \in Managers : Own(m)) \/ (\E s \in Stores : Advance(s))

Spec == Init /\ [][Next]_vars
=============================================================================
