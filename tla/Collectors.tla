----------------------------- MODULE Collectors -----------------------------
(***************************************************************************)
(* The three collectors (plugins/collectors) and one turn of the loop of   *)
(* CollectorPipeline that asks them.                                       *)
(*                                                                         *)
(* PDH, WMI, NVML and the other calls into Windows are external: what they *)
(* answer in one turn is a record of Answers.  All counters and devices    *)
(* show the same reading in one turn, so a sum tells how many were added.  *)
(***************************************************************************)
EXTENDS Integers, Sequences, SequencesExt, FiniteSets

CONSTANTS Specs,        \* specs_: the ids of the PDH metrics, in order
          Instances,    \* the number of instances each path expands to
          NvmlCalls,    \* the optional functions that nvml.dll exports, in order
          Devices,      \* the number of NVIDIA GPUs
          MaxFailures,  \* kMaxConsecutiveFailures
          MemTotal,     \* ullTotalPhys
          Readings      \* what a counter may read

ASSUME DevicesAssumption == Devices \in Nat /\ MaxFailures \in Nat \ {0}
ASSUME ReadingsAssumption == MemTotal \in Int /\ Readings \subseteq Int

(* specs_ names each metric once, and neither what is derived from it nor  *)
(* what WMI reports.                                                       *)
ASSUME SpecsAssumption ==
  /\ Specs \in Seq(STRING) /\ Instances \in [DOMAIN Specs -> Nat]
  /\ \A i, j \in DOMAIN Specs : i # j => Specs[i] # Specs[j]
  /\ \A i \in DOMAIN Specs : Specs[i] \notin {"mem.used_mb", "mem.total_mb", "cpu.temp_c"}

VARIABLES
  counters,     \* counters_ of PdhCollector, which is ready_ when there are any
  nvmlReady,    \* ready_ of NvmlCollector
  wmiFailures,  \* consecutive_failures_
  wmiDisabled,  \* disabled_
  wmiLog        \* observer: the counted results of WMI since the process started

collectorVars == <<counters, nvmlReady, wmiFailures, wmiDisabled, wmiLog>>

Counters == UNION {{i} \X (1..Instances[i]) : i \in DOMAIN Specs}

NvmlIds == [utilization |-> <<"gpu.util_pct">>,
            memory |-> <<"gpu.mem_used_mb", "gpu.mem_total_mb">>,
            temperature |-> <<"gpu.temp_c">>,
            power |-> <<"gpu.power_w">>,
            clock |-> <<"gpu.clock_mhz">>]

ASSUME NvmlCallsAssumption ==
  /\ NvmlCalls \in Seq(DOMAIN NvmlIds)
  /\ \A i, j \in DOMAIN NvmlCalls : i # j => NvmlCalls[i] # NvmlCalls[j]

NvmlAnswers == (1..Devices) \X Range(NvmlCalls)

Metric(id, v) == [id |-> id, value |-> v]

(* The metrics with one of these names, in order.                          *)
Only(metrics, ids) ==
  FlattenSeq([n \in DOMAIN metrics |->
                IF metrics[n].id \in ids THEN <<metrics[n]>> ELSE << >>])

-----------------------------------------------------------------------------
(* The external answers of one turn.                                       *)

Good(v) == [reading |-> v, counters |-> Counters, memory |-> TRUE, wmi |-> "ok",
            nvml |-> NvmlAnswers, throws |-> "none"]

(* Everything but one call answers: a query or a counter of PDH, the size  *)
(* of the memory, a step of WMI, a call or a device of NVML; or one of the *)
(* collectors throws.                                                      *)
OneFails(v) ==
  {[Good(v) EXCEPT !.counters = c] : c \in {{}} \cup {Counters \ {x} : x \in Counters}}
    \cup {[Good(v) EXCEPT !.memory = FALSE]}
    \cup {[Good(v) EXCEPT !.wmi = w] : w \in {"no com", "no server", "no zone"}}
    \cup {[Good(v) EXCEPT !.nvml = n] : n \in {{}} \cup {NvmlAnswers \ {x} : x \in NvmlAnswers}}
    \cup {[Good(v) EXCEPT !.throws = t] : t \in {"pdh", "wmi", "nvml"}}

-----------------------------------------------------------------------------
(* The constructors: what PDH refuses is left out, and without an nvml.dll *)
(* that initializes there is nothing to ask.                               *)
Construct(refused, nvml) ==
  /\ counters' = Counters \ refused
  /\ nvmlReady' = nvml
  /\ wmiFailures' = 0
  /\ wmiDisabled' = FALSE
  /\ wmiLog' = << >>

(* PdhCollector::Collect sums the valid counters of each spec, and derives *)
(* the used memory from the available.                                     *)
Valid(a, i) == {k \in 1..Instances[i] : <<i, k>> \in counters \cap a.counters}

PdhSums(a) ==
  FlattenSeq([i \in DOMAIN Specs |->
    IF Valid(a, i) = {} THEN << >>
    ELSE <<Metric(Specs[i], a.reading * Cardinality(Valid(a, i)))>>])

PdhCollect(a) ==
  LET available == Only(PdhSums(a), {"mem.available_mb"})
  IN  PdhSums(a) \o IF available # << >> /\ a.memory
                      THEN <<Metric("mem.used_mb", MemTotal - available[1].value),
                             Metric("mem.total_mb", MemTotal)>>
                      ELSE << >>

(* NvmlCollector::Collect: the devices in turn, without telling them apart. *)
NvmlCall(a, d, c) ==
  IF <<d, c>> \in a.nvml
    THEN [n \in DOMAIN NvmlIds[c] |-> Metric(NvmlIds[c][n], a.reading)]
    ELSE << >>

NvmlDevice(a, d) == FlattenSeq([n \in DOMAIN NvmlCalls |-> NvmlCall(a, d, NvmlCalls[n])])

NvmlCollect(a) ==
  IF nvmlReady THEN FlattenSeq([d \in 1..Devices |-> NvmlDevice(a, d)]) ELSE << >>

WmiAsked(a) == ~wmiDisabled /\ a.throws # "wmi" /\ a.wmi # "no com"

(* WmiCollector::Collect that never forgets a failure.                     *)
WmiCountForgetsNothing(a) ==
  IF WmiAsked(a)
    THEN /\ wmiFailures' = IF a.wmi = "ok" THEN wmiFailures ELSE wmiFailures + 1
         /\ wmiDisabled' = (wmiFailures' >= MaxFailures)
         /\ wmiLog' = Append(wmiLog, a.wmi = "ok")
    ELSE UNCHANGED <<wmiFailures, wmiDisabled, wmiLog>>

(* WmiCollector::Collect: a WMI that cannot be reached, or has no thermal  *)
(* zone, counts; COM that cannot be initialized does not.                  *)
WmiCount(a) ==
  IF WmiAsked(a)
    THEN /\ wmiFailures' = IF a.wmi = "ok" THEN 0 ELSE wmiFailures + 1
         /\ wmiDisabled' = (wmiFailures' >= MaxFailures)
         /\ wmiLog' = Append(wmiLog, a.wmi = "ok")
    ELSE UNCHANGED <<wmiFailures, wmiDisabled, wmiLog>>

WmiCollect(a) ==
  IF ~wmiDisabled /\ a.wmi = "ok" THEN <<Metric("cpu.temp_c", a.reading)>> ELSE << >>

-----------------------------------------------------------------------------
(* Loop asks the collectors in the order of Register; one that throws      *)
(* contributes nothing.                                                    *)
Collect(a) ==
  (IF a.throws = "pdh" THEN << >> ELSE PdhCollect(a))
    \o (IF a.throws = "wmi" THEN << >> ELSE WmiCollect(a))
    \o (IF a.throws = "nvml" THEN << >> ELSE NvmlCollect(a))

(* WMI has failed MaxFailures times in a row since the process started.    *)
GivenUp ==
  \E i \in 1..(Len(wmiLog) - MaxFailures + 1) :
    \A j \in i..(i + MaxFailures - 1) : ~wmiLog[j]

(* Observer: what Windows offers to collectors that do not throw.          *)
Offered(a) ==
  LET pdh == {Specs[c[1]] : c \in counters \cap a.counters}
      memory == IF "mem.available_mb" \in pdh /\ a.memory THEN {"mem.used_mb"} ELSE {}
      nvml == IF nvmlReady THEN UNION {Range(NvmlIds[x[2]]) : x \in a.nvml} ELSE {}
  IN  (IF a.throws = "pdh" THEN {} ELSE pdh \cup memory)
        \cup (IF a.throws = "wmi" \/ a.wmi # "ok" \/ GivenUp THEN {} ELSE {"cpu.temp_c"})
        \cup (IF a.throws = "nvml" THEN {} ELSE nvml)
=============================================================================
