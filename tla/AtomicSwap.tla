----------------------------- MODULE AtomicSwap -----------------------------
(***************************************************************************)
(* What the users of a volume rely on: it has one master key, one list of  *)
(* slots and one index at a time.  A rekey changes the key in one step and *)
(* leaves the rest alone, an edit of the slots or a saved index changes    *)
(* just that, and a power loss takes the volume back at most to the state  *)
(* of the last sync.                                                       *)
(***************************************************************************)
EXTENDS Naturals

VARIABLES volume,   \* [key, slots, index]: generations of the three
          since     \* the volumes since the last sync

vars == <<volume, since>>

Init ==
    /\ volume = [key |-> 1, slots |-> 1, index |-> 0]
    /\ since = {volume}

Becomes(v) ==
    /\ volume' = v
    /\ since' = since \cup {v}

SaveIndex == Becomes([volume EXCEPT !.index = @ + 1])

EditSlots == Becomes([volume EXCEPT !.slots = @ + 1])

\* Keys are random; a new one is any that was not used before.
Rekey ==
    /\ volume'.key > volume.key
    /\ Becomes([volume EXCEPT !.key = volume'.key])

Sync == since' = {volume} /\ UNCHANGED volume

PowerLoss ==
    /\ volume' \in since
    /\ since' = {volume'}

Next == SaveIndex \/ EditSlots \/ Rekey \/ Sync \/ PowerLoss

Spec == Init /\ [][Next]_vars
=============================================================================
