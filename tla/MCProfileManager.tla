---- MODULE MCProfileManager ----
(* ProfileManager with the two real executors.  A profile file may set     *)
(* both, ask for a plan that is refused after the brightness was set, name *)
(* a key that has no executor, or hold a brightness out of range.  One     *)
(* plan has no alias, and zeros in front of several fields of its GUID.    *)
EXTENDS ProfileManager, Executors, TLC

Custom ==
  << <<0, 0, 0, 0, 11, 14, 14, 15>>, <<0, 0, 1, 2>>, <<4, 0, 0, 0>>, <<0, 7>>, <<8, 0>>,
     <<0, 0>>, <<0, 1>>, <<10, 2>>, <<3, 0>>, <<0, 0>>, <<0, 5>> >>

MCSchemes == {HighPerformance, Custom}

Empty == << >>
Forty == ToDecimal(40)
MinusFive == <<Dash, 5>>
High == GuidToAlias(HighPerformance)
Eco == <<14, 12, Letter.o>>

MCContents ==
  { (Brightness :> Forty @@ PowerPlan :> High),
    (Brightness :> Forty @@ PowerPlan :> Eco),
    (Brightness :> Forty @@ PowerPlan :> High @@ NoSuchKey :> Empty),
    (Brightness :> MinusFive) }

MCTexts == {Empty, Forty, MinusFive, High, Eco} \cup {GuidToAlias(g) : g \in Schemes}
             \cup {ToDecimal(n) : n \in Levels}

(* What the executors do, computed once.                                   *)
ApplyTable ==
  [k \in ExecutorKeys |-> [text \in MCTexts |-> [h \in States(k) |-> Apply(k, text, h)]]]
ReadTable == [k \in ExecutorKeys |-> [h \in States(k) |-> CurrentValue(k, h)]]

MCApply(k, text, h) == ApplyTable[k][text][h]
MCRead(k, h) == ReadTable[k][h]

MCInitialHw == {(Brightness :> b @@ PowerPlan :> g) : b \in [Monitors -> Levels], g \in Schemes}
====
