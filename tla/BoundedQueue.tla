---------------------------- MODULE BoundedQueue ----------------------------
(***************************************************************************)
(* What the keyboard buffer promises its two ends: a first-in first-out    *)
(* queue of at most Cap characters.  A character offered to a full queue   *)
(* is discarded; a read of an empty queue answers None.                    *)
(***************************************************************************)
EXTENDS Naturals, Sequences

CONSTANTS Cap, Char, None

VARIABLES q,   \* the characters waiting, oldest first
          out  \* what the last read answered

Init == q = <<>> /\ out = None

Put(c) ==
    /\ Len(q) < Cap
    /\ q' = Append(q, c)
    /\ UNCHANGED out

Get ==
    /\ q # <<>>
    /\ out' = Head(q)
    /\ q' = Tail(q)

GetNothing ==
    /\ q = <<>>
    /\ out' = None
    /\ UNCHANGED q

Next == (\E c \in Char : Put(c)) \/ Get \/ GetNothing

Spec == Init /\ [][Next]_<<q, out>>
=============================================================================
