------------------------------- MODULE Channel -------------------------------
(***************************************************************************)
(* What one direction of the control socket promises to those who send     *)
(* messages over it: each arrives once, whole and in order.  Messages may  *)
(* arrive together, and only those together with a message that cannot be  *)
(* understood, and behind it, are lost.                                    *)
(***************************************************************************)
EXTENDS Naturals, Sequences

CONSTANTS
    Messages,
    Breaking    \* those the receiver cannot understand

VARIABLES
    queue,      \* sent and not arrived
    got         \* arrived, in the order they did

vars == <<queue, got>>

Init == queue = <<>> /\ got = <<>>

Send ==
    /\ \E m \in Messages : queue' = Append(queue, m)
    /\ UNCHANGED got

(* n messages leave the queue and the first k of them are received. *)
Arrive ==
    \E n \in 1 .. Len(queue), k \in 1 .. Len(queue) :
        /\ k <= n
        /\ \A i \in 1 .. k - 1 : queue[i] \notin Breaking
        /\ k = n \/ queue[k] \in Breaking
        /\ queue' = SubSeq(queue, n + 1, Len(queue))
        /\ got' = got \o SubSeq(queue, 1, k)

Spec == Init /\ [][Send \/ Arrive]_vars

=============================================================================
