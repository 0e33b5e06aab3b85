----------------------------- MODULE Executors ------------------------------
(***************************************************************************)
(* The two executor plugins, as operators: what CurrentValue() may return  *)
(* and what Apply(text) may do in a given state of the hardware.           *)
(*                                                                         *)
(*   power.plan          plugins/executors/power_plan_executor.cpp         *)
(*   display.brightness  plugins/executors/brightness_executor.cpp         *)
(*                                                                         *)
(* A rollback hands Apply the text that CurrentValue printed, so printing  *)
(* and reading are modelled: a text is a sequence of characters, and a     *)
(* character is a number, 0..15 being the hexadecimal digits.              *)
(*                                                                         *)
(* Windows decides whether a call succeeds.  Reliable = TRUE leaves out    *)
(* the failures that do not depend on the arguments.                       *)
(***************************************************************************)
EXTENDS Integers, Sequences, FiniteSets

CONSTANTS Monitors,   \* the physical monitors that DDC/CI enumerates
          Levels,     \* the brightness levels that occur
          Schemes,    \* the power schemes installed
          Reliable    \* no call into Windows fails by itself

(* std::map order: "display.brightness" before "power.plan"; a key after   *)
(* them has no executor.                                                   *)
Brightness == 1
PowerPlan == 2
NoSuchKey == 3

Failure(h) == [ok |-> FALSE, hw |-> h]
Success(h) == [ok |-> TRUE, hw |-> h]

(* The characters that are not hexadecimal digits.                         *)
Dash == 16
Letter == [g |-> 17, h |-> 18, i |-> 19, l |-> 20, n |-> 21, o |-> 22, r |-> 23, s |-> 24,
           v |-> 25]

(* There is a digit of the base at place i of text.                        *)
IsDigit(text, i, base) == i \in 1..Len(text) /\ text[i] < base

(* How many digits stand at place at, up to w: what sscanf_s and atoi take.*)
Run(text, at, w, base) ==
  CHOOSE n \in 0..w : /\ \A i \in 0..(n - 1) : IsDigit(text, at + i, base)
                      /\ n = w \/ ~IsDigit(text, at + n, base)

-----------------------------------------------------------------------------
(* power.plan: the state is the GUID of the active scheme.  A GUID is the  *)
(* sequence of its eleven fields Data1, Data2, Data3, Data4[0..7], each of *)
(* them as the sequence of its hexadecimal digits.                         *)

Widths == <<8, 4, 4, 2, 2, 2, 2, 2, 2, 2, 2>>

IsGuid(g) == g \in [1..11 -> Seq(0..15)] /\ \A i \in 1..11 : Len(g[i]) = Widths[i]

ASSUME SchemesAssumption == \A g \in Schemes : IsGuid(g)

(* kBalanced, kHighPerformance, kPowerSaver.                               *)
Balanced ==
  << <<3, 8, 1, 11, 4, 2, 2, 2>>, <<15, 6, 9, 4>>, <<4, 1, 15, 0>>, <<9, 6>>, <<8, 5>>,
     <<15, 15>>, <<5, 11>>, <<11, 2>>, <<6, 0>>, <<13, 15>>, <<2, 14>> >>
HighPerformance ==
  << <<8, 12, 5, 14, 7, 15, 13, 10>>, <<14, 8, 11, 15>>, <<4, 10, 9, 6>>, <<9, 10>>, <<8, 5>>,
     <<10, 6>>, <<14, 2>>, <<3, 10>>, <<8, 12>>, <<6, 3>>, <<5, 12>> >>
PowerSaver ==
  << <<10, 1, 8, 4, 1, 3, 0, 8>>, <<3, 5, 4, 1>>, <<4, 15, 10, 11>>, <<11, 12>>, <<8, 1>>,
     <<15, 7>>, <<1, 5>>, <<5, 6>>, <<15, 2>>, <<0, 11>>, <<4, 10>> >>

(* The aliases "balanced", "high" and "saver" with their GUIDs.            *)
Aliases ==
  { << <<11, 10, Letter.l, 10, Letter.n, 12, 14, 13>>, Balanced >>,
    << <<Letter.h, Letter.i, Letter.g, Letter.h>>, HighPerformance >>,
    << <<Letter.s, 10, Letter.v, 14, Letter.r>>, PowerSaver >> }

(* The printed form with %x for %08lx, %04x and %02x: a field loses its    *)
(* leading zeros.                                                          *)
GuidToStringUnpadded(guid) ==
  LET Hex(f) == LET zeros == Run([i \in 1..(Len(f) - 1) |-> f[i]], 1, Len(f) - 1, 1)
                IN  SubSeq(f, zeros + 1, Len(f))
  IN  Hex(guid[1]) \o <<Dash>> \o Hex(guid[2]) \o <<Dash>> \o Hex(guid[3]) \o <<Dash>>
        \o Hex(guid[4]) \o Hex(guid[5]) \o <<Dash>> \o Hex(guid[6]) \o Hex(guid[7])
        \o Hex(guid[8]) \o Hex(guid[9]) \o Hex(guid[10]) \o Hex(guid[11])

(* %08lx-%04x-%04x-%02x%02x-%02x%02x%02x%02x%02x%02x: every field with all *)
(* of its digits.                                                          *)
GuidToString(guid) ==
  guid[1] \o <<Dash>> \o guid[2] \o <<Dash>> \o guid[3] \o <<Dash>>
    \o guid[4] \o guid[5] \o <<Dash>> \o guid[6] \o guid[7]
    \o guid[8] \o guid[9] \o guid[10] \o guid[11]

(* One conversion of sscanf_s, and the dash that follows it in the format: *)
(* the place where the next one starts, 0 once the text does not match.    *)
(* (The spaces, signs and 0x that %x also takes occur in no text here.)    *)
ScanField(text, i, at) ==
  LET n == Run(text, at, Widths[i], 16)
  IN  IF at = 0 \/ n = 0 THEN 0
      ELSE IF i \notin {1, 2, 3, 5} THEN at + n
      ELSE IF at + n <= Len(text) /\ text[at + n] = Dash THEN at + n + 1 ELSE 0

(* The digits at place at as a number of w digits.                         *)
FieldAt(text, at, w) ==
  LET n == Run(text, at, w, 16)
  IN  [j \in 1..w |-> IF j <= w - n THEN 0 ELSE text[at + j - (w - n) - 1]]

(* The GUID that text denotes, as a set: empty when sscanf_s does not find *)
(* its eleven fields.                                                      *)
ParseGuid(text) ==
  LET at[i \in 0..11] == IF i = 0 THEN 1 ELSE ScanField(text, i, at[i - 1])
  IN  IF at[11] = 0 THEN {} ELSE {[i \in 1..11 |-> FieldAt(text, at[i - 1], Widths[i])]}

AliasToGuid(text) == {a[2] : a \in {b \in Aliases : b[1] = text}}

GuidToAlias(guid) ==
  IF \E a \in Aliases : a[2] = guid THEN (CHOOSE a \in Aliases : a[2] = guid)[1]
                                    ELSE GuidToString(guid)

PowerPlanRead(guid) == {GuidToAlias(guid)} \cup (IF Reliable THEN {} ELSE {<< >>})

(* Alias first, then GUID.  PowerSetActiveScheme rejects a scheme that is  *)
(* not installed.                                                          *)
PowerPlanApply(text, guid) ==
  LET wanted == IF AliasToGuid(text) # {} THEN AliasToGuid(text) ELSE ParseGuid(text)
  IN  {Success(g) : g \in wanted \cap Schemes}
        \cup (IF Reliable /\ wanted \cap Schemes # {} THEN {} ELSE {Failure(guid)})

-----------------------------------------------------------------------------
(* display.brightness: the state is the level of each monitor, a 16-bit    *)
(* number in DDC/CI.                                                       *)

ASSUME LevelsAssumption == 0 \in Levels /\ \A n \in Levels : n \in Nat /\ n < 65536
ASSUME MonitorsAssumption == IsFiniteSet(Monitors) /\ Monitors # {}
ASSUME ReliableAssumption == Reliable \in BOOLEAN

Power == <<1, 10, 100, 1000, 10000>>

(* The number of decimal digits of n.                                      *)
Width(n) == CHOOSE w \in 1..5 : n < 10 * Power[w] /\ (w = 1 \/ n >= Power[w])

(* std::to_string                                                          *)
ToDecimal(n) == [i \in 1..Width(n) |-> (n \div Power[Width(n) - i + 1]) % 10]

(* std::atoi: a minus sign, then the leading digits; 0 when there are none.*)
Atoi(text) ==
  LET minus == text # << >> /\ text[1] = Dash
      from == IF minus THEN 2 ELSE 1
      n == Run(text, from, Len(text), 10)
      value[i \in 0..n] == IF i = 0 THEN 0 ELSE 10 * value[i - 1] + text[from + i - 1]
  IN  IF minus THEN -value[n] ELSE value[n]

(* The level of the first monitor that answers, "" when none does.         *)
BrightnessRead(levels) ==
  {ToDecimal(levels[m]) : m \in Monitors} \cup (IF Reliable THEN {} ELSE {<< >>})

(* Every monitor is told; it is a success if any of them accepts.          *)
BrightnessApply(text, levels) ==
  LET value == Atoi(text)
      willing == IF Reliable THEN {Monitors} ELSE SUBSET Monitors
  IN  IF value < 0 \/ value > 100
        THEN {Failure(levels)}
        ELSE {IF accepted = {} THEN Failure(levels)
                ELSE Success([m \in Monitors |-> IF m \in accepted THEN value ELSE levels[m]])
              : accepted \in willing}

-----------------------------------------------------------------------------
(* The executors by key, as ProfileManager sees them.                      *)

States(k) == IF k = PowerPlan THEN Schemes ELSE [Monitors -> Levels]

CurrentValue(k, h) == IF k = PowerPlan THEN PowerPlanRead(h) ELSE BrightnessRead(h)

Apply(k, text, h) ==
  IF k = PowerPlan THEN PowerPlanApply(text, h) ELSE BrightnessApply(text, h)

(* Apply takes levels up to 100 only; a monitor may well be at another.    *)
InRange(k, h) == k = Brightness => \A m \in Monitors : h[m] <= 100
=============================================================================
