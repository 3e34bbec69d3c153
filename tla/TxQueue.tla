------------------------------ MODULE TxQueue ------------------------------
(***************************************************************************)
(* What the transmit path promises the network stack (spec sections 4.2,   *)
(* 4.3 and 5): every submitted frame is either dropped at once or accepted *)
(* into a queue of at most Capacity frames, and accepted frames are        *)
(* reported complete exactly once, in the order they were accepted.       *)
(* Frames are numbered in submission order.                                *)
(***************************************************************************)
EXTENDS Naturals, Sequences

CONSTANT Capacity

VARIABLES
    q,           \* accepted frames not yet reported complete, oldest first
    nextFrame    \* number of the next frame the stack submits

vars == <<q, nextFrame>>

Init == q = <<>> /\ nextFrame = 1

Accept ==
    /\ Len(q) < Capacity
    /\ q' = Append(q, nextFrame)
    /\ nextFrame' = nextFrame + 1

Drop ==
    /\ nextFrame' = nextFrame + 1
    /\ UNCHANGED q

Complete ==
    /\ q # <<>>
    /\ q' = Tail(q)
    /\ UNCHANGED nextFrame

Next == Accept \/ Drop \/ Complete

Spec == Init /\ [][Next]_vars

=============================================================================
