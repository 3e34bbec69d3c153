------------------------------ MODULE RxStream ------------------------------
(***************************************************************************)
(* What the receive path promises the network stack (spec sections 4.4    *)
(* and 5): frames the MAC received intact are handed up once each, in the  *)
(* order they arrived; damaged frames are never handed up.  q holds the    *)
(* intact frames that arrived and were not handed up yet, out the frame    *)
(* handed up last (0 before the first).                                    *)
(***************************************************************************)
EXTENDS Naturals, Sequences

CONSTANT FrameIds     \* the frames the MAC may receive, numbered from 1

VARIABLES q, out

vars == <<q, out>>

Init == q = <<>> /\ out = 0

\* An intact frame f arrives at the MAC.
Arrive(f) ==
    /\ q' = Append(q, f)
    /\ UNCHANGED out

\* The oldest intact frame is handed up.
Deliver ==
    /\ q # <<>>
    /\ out' = Head(q)
    /\ q' = Tail(q)

Next == (\E f \in FrameIds : Arrive(f)) \/ Deliver

Spec == Init /\ [][Next]_vars

=============================================================================
