--------------------------- MODULE BoundedHistory ---------------------------
(***************************************************************************)
(* What a telemetry history promises, whatever its layout in memory: it    *)
(* holds the Capacity most recent values pushed since the last Clear,      *)
(* oldest first, and counts the pushes.                                    *)
(*                                                                         *)
(* RingBuffer implements this specification with a circular vector.        *)
(***************************************************************************)
EXTENDS Naturals, Sequences

CONSTANTS Value,     \* what is pushed
          Capacity   \* how many values are kept

VARIABLES window,    \* the retained values, oldest first
          total      \* the number of pushes since the last Clear

(* The window after one more value: the oldest one leaves a full window.   *)
Pushed(w, v) == Append(IF Len(w) < Capacity THEN w ELSE Tail(w), v)

(* The most recent n values of w, oldest first.                            *)
Latest(w, n) == SubSeq(w, Len(w) - n + 1, Len(w))

Init == window = << >> /\ total = 0

Push(v) == window' = Pushed(window, v) /\ total' = total + 1

Clear == window' = << >> /\ total' = 0

Next == Clear \/ \E v \in Value : Push(v)

Spec == Init /\ [][Next]_<<window, total>>
=============================================================================
