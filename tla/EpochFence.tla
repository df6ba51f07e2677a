------------------------------ MODULE EpochFence ------------------------------
(***************************************************************************)
(* What the epoch fence promises, without frames, registries or clients:   *)
(* epochs are handed out one after the other, each to one Anchor; an       *)
(* Anchor learns of epochs in increasing order; and it accepts a topology  *)
(* write only in the highest epoch it has learnt of, which must be its     *)
(* own.                                                                    *)
(***************************************************************************)
EXTENDS Naturals, Sequences

CONSTANT Nids          \* the Anchors of the cluster

VARIABLES
    granted,  \* granted[e] is the Anchor that epoch e was given to
    seen,     \* the highest epoch each Anchor has learnt of
    log       \* the writes accepted so far: Anchor and epoch

fenceVars == <<granted, seen, log>>

Init ==
    /\ \E a \in Nids : granted = <<a>>
    /\ seen = [a \in Nids |-> 1]
    /\ log = <<>>

Grant(a) ==
    /\ granted' = Append(granted, a)
    /\ UNCHANGED <<seen, log>>

Learn(a, e) ==
    /\ e > seen[a]
    /\ seen' = [seen EXCEPT ![a] = e]
    /\ UNCHANGED <<granted, log>>

AcceptWrite(a) ==
    /\ granted[seen[a]] = a
    /\ log' = Append(log, <<a, seen[a]>>)
    /\ UNCHANGED <<granted, seen>>

Next ==
    \E a \in Nids :
        \/ Grant(a)
        \/ \E e \in DOMAIN granted : Learn(a, e)
        \/ AcceptWrite(a)

Spec == Init /\ [][Next]_fenceVars
=============================================================================
