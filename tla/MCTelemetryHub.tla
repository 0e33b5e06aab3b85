---- MODULE MCTelemetryHub ----
(* Two streams, one at the full rate and one at 0.4 Hz (every third tick), *)
(* with queues and a history of two: four ticks overflow both and take     *)
(* head_ once around the ring.                                             *)
EXTENDS TelemetryHub

CONSTANTS full, slow

Tick == 1..MaxTotal

MCHz == [s \in Subs |-> IF s = full THEN <<1, 1>> ELSE <<2, 5>>]
====
