----------------------------- MODULE RelayLedger -----------------------------
(***************************************************************************)
(* What the daemon promises those who read the contract, and itself after  *)
(* a restart, whatever happens on the way: three chains that follow each   *)
(* other.  The node moves to heavier chains.  The relay moves to heavier   *)
(* chains too, which are never heavier than the node's, and stays on the   *)
(* block it was set up with.  The progress on disk is a block of a height  *)
(* the relay has.                                                          *)
(***************************************************************************)
EXTENDS Chains

CONSTANT Base  \* the height of the block the relay was set up with

VARIABLES
    node,   \* the Bitcoin node's chain
    relay,  \* the relay's chain
    saved   \* the block the progress on disk names, or None

vars == <<node, relay, saved>>

Init ==
    /\ relay \in {c \in Chain : Height(c) = Base}
    /\ node = relay
    /\ saved = None

NodeMoves ==
    /\ node' \in Chain
    /\ Work[node'] > Work[node]
    /\ UNCHANGED <<relay, saved>>

\* However many headers at once, by growth or by a fork that took over.
Land ==
    /\ relay' \in Chain
    /\ Work[relay] < Work[relay'] /\ Work[relay'] <= Work[node]
    /\ Holds(relay', BlockAt(relay, Base))
    /\ UNCHANGED <<node, saved>>

\* Where the relay cannot sink, the progress rises.
Save ==
    /\ saved' \in Chain
    /\ Height(saved') <= Height(relay) /\ Work[saved'] <= Work[node]
    /\ EqualWork /\ saved # None => Height(saved) < Height(saved')
    /\ UNCHANGED <<node, relay>>

Next == NodeMoves \/ Land \/ Save

Spec == Init /\ [][Next]_vars
=============================================================================
