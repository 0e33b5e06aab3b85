---------------------------- MODULE AtomicSwitch ----------------------------
(***************************************************************************)
(* What the configuration transaction promises: hardware goes from the     *)
(* settings of one profile to those of another in a single step, and a     *)
(* switch that fails leaves no trace, except on keys that were found in a  *)
(* state the executor cannot set.  ProfileManager implements this          *)
(* specification when its executors restore all others from what they read.*)
(***************************************************************************)
CONSTANTS Ids,            \* profile ids
          Contents,       \* the settings a profile may hold: key -> text
          Accepts(_, _),  \* Accepts(k, text): the states that text stands for
          Settable(_, _), \* Settable(k, h): the executor can bring about h
          InitialHw       \* the states the hardware may be found in

VARIABLES hw,        \* the state of the hardware, by key
          committed  \* the profile in force

Init == hw \in InitialHw

(* Exactly the keys of the profile move, all of them together.             *)
SwitchTo(id, c) ==
  /\ hw' = [k \in DOMAIN hw |-> IF k \in DOMAIN c THEN hw'[k] ELSE hw[k]]
  /\ \A k \in DOMAIN c : k \in DOMAIN hw /\ hw'[k] \in Accepts(k, c[k])
  /\ committed' = id

(* A failed switch: a key it could not put back is as the profile has it.  *)
FailedSwitch(c) ==
  /\ hw' = [k \in DOMAIN hw |-> hw'[k]]
  /\ \A k \in DOMAIN hw : hw'[k] # hw[k] =>
       k \in DOMAIN c /\ hw'[k] \in Accepts(k, c[k]) /\ ~Settable(k, hw[k])
  /\ committed' = committed

Next == \E c \in Contents : FailedSwitch(c) \/ \E id \in Ids : SwitchTo(id, c)

Spec == Init /\ [][Next]_<<hw, committed>>
=============================================================================
