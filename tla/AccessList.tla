----------------------------- MODULE AccessList -----------------------------
(***************************************************************************)
(* What the owner of a volume relies on: the volume has a list of          *)
(* credentials that open it.  A command adds one recipient at the end,     *)
(* takes one credential away while another is left, or sets the password,  *)
(* and leaves everyone else on the list as they were.                      *)
(***************************************************************************)
EXTENDS Naturals, Sequences, SequencesExt

CONSTANTS Password, Identity

VARIABLE access    \* who opens each slot

vars == <<access>>

Init == \E p \in Password : access = <<p>>

Share(who) == access' = Append(access, who)

Revoke(i) ==
    /\ Len(access) > 1
    /\ access' = RemoveAt(access, i)

SetPassword(p) ==
    \/ \E i \in DOMAIN access :
        /\ access[i] \in Password
        /\ access' = ReplaceAt(access, i, p)
    \/ /\ \A i \in DOMAIN access : access[i] \notin Password
       /\ access' = Append(access, p)

Next ==
    \/ \E who \in Identity : Share(who)
    \/ \E i \in DOMAIN access : Revoke(i)
    \/ \E p \in Password : SetPassword(p)

Spec == Init /\ [][Next]_vars
=============================================================================
