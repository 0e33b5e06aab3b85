---------------------------- MODULE TelemetryPath ----------------------------
(***************************************************************************)
(* What a user sees: the samples of the service's collectors, converted,   *)
(* sent over a stream that may lose some, and shown by the client: the     *)
(* series of TelemetryStore, the curves of LineChart that are drawn from   *)
(* them, and NotificationModel.  The client's part runs on the GUI thread  *)
(* alone, fed by queued signals.                                           *)
(***************************************************************************)
EXTENDS Collectors

CONSTANTS SeriesCapacity,  \* 60, the points of a series
          RowCapacity,     \* 50, the rows of the notification list
          RangeMax,        \* the upper end of the fixed ranges
          Width, Height,   \* the size of a chart
          MaxOnWire,       \* bound: samples on their way at a time
          MaxInputs,       \* bound: samples, notifications and clears
          MaxMishaps       \* bound: failing calls, restarts and lost samples

ASSUME SizesAssumption ==
  /\ Width \in Nat \ {0} /\ Height \in Nat \ {0} /\ RangeMax \in Int
  /\ SeriesCapacity \in Nat \ {0} /\ RowCapacity \in Nat

VARIABLES
  up,        \* the service is running
  wire,      \* the samples on their way to the client, oldest first
  values,    \* values_ of each MetricSeries
  rows,      \* rows_ of NotificationModel, newest first
  inputs,    \* the number of inputs so far
  mishaps,   \* the number of mishaps so far
  points,    \* observer: all points of each series, with the tick they are from
  taken,     \* observer: the samples that HandleSample was given
  notified   \* observer: all notifications since the last Clear

pathVars == <<up, wire, values, rows, inputs, mishaps, points, taken, notified>>
vars == <<collectorVars, pathVars>>

Series == {"cpu.usage_pct", "gpu.util_pct", "mem.used_mb", "disk.io_bps", "cpu.temp_c",
           "gpu.temp_c"}

Init ==
  /\ counters = {} /\ nvmlReady = FALSE
  /\ wmiFailures = 0 /\ wmiDisabled = FALSE /\ wmiLog = << >>
  /\ up = FALSE
  /\ wire = << >>
  /\ values = [s \in Series |-> << >>]
  /\ rows = << >>
  /\ inputs = 0 /\ mishaps = 0
  /\ points = [s \in Series |-> << >>]
  /\ taken = {}
  /\ notified = << >>

Mishap == mishaps < MaxMishaps /\ mishaps' = mishaps + 1
Input == inputs < MaxInputs /\ inputs' = inputs + 1

-----------------------------------------------------------------------------
(* The service.                                                            *)

(* The process starts and builds its collectors; a PDH that opens no query *)
(* is one that refuses every counter.                                      *)
ServiceStarts ==
  /\ ~up
  /\ up' = TRUE
  /\ \E nvml \in BOOLEAN :
       \/ Construct({}, nvml) /\ UNCHANGED mishaps
       \/ Mishap /\ \E r \in {Counters} \cup {{c} : c \in Counters} : Construct(r, nvml)
  /\ UNCHANGED <<wire, values, rows, inputs, points, taken, notified>>

(* The process ends, or is ended by an exception that Loop does not catch, *)
(* such as the _com_error of a _bstr_t; what has not left it is lost.      *)
ServiceDies ==
  /\ up /\ Mishap
  /\ up' = FALSE
  /\ \E n \in 0..Len(wire) : wire' = SubSeq(wire, 1, n)
  /\ UNCHANGED <<collectorVars, values, rows, inputs, points, taken, notified>>

(* ToProto with the filter of the subscription.                            *)
ToProto(metrics, filter) ==
  IF filter = {} THEN metrics ELSE Only(metrics, filter)

(* One turn of Loop, and the sample goes out behind the ones before it.    *)
(* It carries along what Windows offered for it.                           *)
Tick ==
  /\ up /\ Input /\ Len(wire) < MaxOnWire
  /\ \E v \in Readings : \E a \in {Good(v)} \cup OneFails(v) :
       /\ IF a = Good(v) THEN UNCHANGED mishaps ELSE Mishap
       /\ wire' = Append(wire, [time |-> inputs', metrics |-> ToProto(Collect(a), {}),
                                offered |-> Offered(a)])
       /\ WmiCount(a)
  /\ UNCHANGED <<counters, nvmlReady, up, values, rows, points, taken, notified>>

(* A client without a stream, or with a full queue, misses a sample.       *)
SampleLost ==
  /\ Mishap
  /\ \E n \in DOMAIN wire : wire' = RemoveAt(wire, n)
  /\ UNCHANGED <<collectorVars, up, values, rows, inputs, points, taken, notified>>

-----------------------------------------------------------------------------
(* The client.                                                             *)

(* MetricSeries::Append with a test that comes too late.                   *)
AppendOverflows(w, v) == Append(IF Len(w) > SeriesCapacity THEN Tail(w) ELSE w, v)

(* MetricSeries::Append                                                    *)
AppendValue(w, v) == Append(IF Len(w) >= SeriesCapacity THEN Tail(w) ELSE w, v)

AppendAll(w, vs) ==
  LET after[n \in 0..Len(vs)] == IF n = 0 THEN w ELSE AppendValue(after[n - 1], vs[n])
  IN  after[Len(vs)]

Total(vs) ==
  LET sum[n \in 0..Len(vs)] == IF n = 0 THEN 0 ELSE sum[n - 1] + vs[n]
  IN  sum[Len(vs)]

(* The metrics that series s is made of.                                   *)
Sources(s) == IF s = "disk.io_bps" THEN {"disk.read_bps", "disk.write_bps"} ELSE {s}

(* The values that HandleSample finds for series s.                        *)
Found(s, metrics) ==
  LET found == Only(metrics, Sources(s))
  IN  [n \in DOMAIN found |-> found[n].value]

(* A HandleSample that appends reads and writes one by one.                *)
RoutedApart(s, metrics) == Found(s, metrics)

(* What HandleSample appends to series s: every metric of that name, but   *)
(* one point for all that the disks read and write.                        *)
Routed(s, metrics) ==
  LET vs == Found(s, metrics)
  IN  IF s = "disk.io_bps" /\ vs # << >> THEN <<Total(vs)>> ELSE vs

(* The queued signals of the reading thread arrive in their order.         *)
HandleSample ==
  /\ wire # << >>
  /\ wire' = Tail(wire)
  /\ LET sample == Head(wire)
     IN  /\ values' = [s \in Series |-> AppendAll(values[s], Routed(s, sample.metrics))]
         /\ points' = [s \in Series |->
              LET new == Routed(s, sample.metrics)
              IN  points[s] \o [n \in DOMAIN new |-> [time |-> sample.time, value |-> new[n]]]]
         /\ taken' = taken \cup {[time |-> sample.time, offered |-> sample.offered]}
  /\ UNCHANGED <<collectorVars, up, rows, inputs, mishaps, notified>>

(* NotificationModel::Append                                               *)
PushRow(rs, r) ==
  LET grown == <<r>> \o rs
  IN  IF Len(grown) > RowCapacity THEN Front(grown) ELSE grown

(* An event of the service, or the result of a switch.                     *)
Notify(level) ==
  /\ Input
  /\ LET row == [number |-> inputs', level |-> level]
     IN  rows' = PushRow(rows, row) /\ notified' = Append(notified, row)
  /\ UNCHANGED <<collectorVars, up, wire, values, mishaps, points, taken>>

SwitchResult(ok) == Notify(IF ok THEN "info" ELSE "warn")

(* NotificationModel::Clear                                                *)
ClearNotifications ==
  /\ Input
  /\ rows' = << >> /\ notified' = << >>
  /\ UNCHANGED <<collectorVars, up, wire, values, mishaps, points, taken>>

Next ==
  \/ ServiceStarts \/ ServiceDies \/ Tick \/ SampleLost \/ HandleSample \/ ClearNotifications
  \/ \E ok \in BOOLEAN : SwitchResult(ok)

Spec == Init /\ [][Next]_vars

-----------------------------------------------------------------------------
(* LineChart                                                               *)

AutoRange(s) == s \notin {"cpu.usage_pct", "gpu.util_pct"}

(* The range of updatePaintNode: fixed and not empty, or that of the       *)
(* values, widened when they are all the same.                             *)
PaintRange(vs, auto) ==
  LET lo == Min(Range(vs))
      hi == Max(Range(vs))
  IN  CASE ~auto -> [lo |-> 0, hi |-> Max({RangeMax, 1})]
        [] auto /\ lo = hi -> [lo |-> lo - 1, hi |-> hi + 1]
        [] OTHER -> [lo |-> lo, hi |-> hi]

(* The height of a point without the clamp.                                *)
VertexUnclamped(vs, auto, i) ==
  LET r == PaintRange(vs, auto)
  IN  [x |-> Width * (i - 1), xd |-> Len(vs) - 1,
       y |-> Height * (r.hi - r.lo - (vs[i] - r.lo)), yd |-> r.hi - r.lo]

(* Vertex i of the line strip, as fractions x / xd and y / yd.             *)
Vertex(vs, auto, i) ==
  LET r == PaintRange(vs, auto)
      span == r.hi - r.lo
      t == Max({0, Min({span, vs[i] - r.lo})})
  IN  [x |-> Width * (i - 1), xd |-> Len(vs) - 1, y |-> Height * (span - t), yd |-> span]

(* updatePaintNode: nothing for less than two values.                      *)
UpdatePaintNode(vs, auto) ==
  IF Len(vs) < 2 THEN << >> ELSE [i \in DOMAIN vs |-> Vertex(vs, auto, i)]

-----------------------------------------------------------------------------
(* A sample has all that Windows offered at that moment to the collectors  *)
(* of this process, whatever becomes of the others: only a WMI that failed *)
(* MaxFailures times in a row is not asked again.                          *)
WholeSamples ==
  \A n \in DOMAIN wire :
    wire[n].offered \subseteq {wire[n].metrics[i].id : i \in DOMAIN wire[n].metrics}

(* The series that PDH and a device, or several devices, report.           *)
SharedSeries == {"gpu.util_pct", "gpu.temp_c"}

(* A curve is the record of the samples that reached the client: it never  *)
(* goes back in time, also over lost samples and a restart of the service, *)
(* has a point for each of them at whose tick Windows offered its metric,  *)
(* and no second one unless PDH and devices share the series.              *)
CurvesFollowSamples ==
  \A s \in Series :
    /\ \A i, j \in DOMAIN points[s] : i < j =>
         /\ points[s][i].time <= points[s][j].time
         /\ points[s][i].time = points[s][j].time => s \in SharedSeries
    /\ \A x \in taken : Sources(s) \cap x.offered # {} =>
         \E i \in DOMAIN points[s] : points[s][i].time = x.time

(* A series holds its latest SeriesCapacity points, oldest first, and the  *)
(* list its latest RowCapacity notifications, newest first.                *)
LatestShown ==
  /\ \A s \in Series :
       LET n == Len(points[s])
           k == Min({n, SeriesCapacity})
       IN  values[s] = [i \in 1..k |-> points[s][n - k + i].value]
  /\ LET n == Len(notified)
     IN  rows = [i \in 1..Min({n, RowCapacity}) |-> notified[n - i + 1]]

(* What is drawn of a series stays inside the chart, spans its width from  *)
(* left to right, keeps the order of the values, and with an automatic     *)
(* range fills the height or, when all values are the same, the middle.    *)
DrawnInside ==
  \A s \in Series :
    LET vs == values[s]
        ps == UpdatePaintNode(vs, AutoRange(s))
    IN  /\ \A i \in DOMAIN ps :
             /\ ps[i].xd > 0 /\ ps[i].yd > 0
             /\ ps[i].x \in 0..(Width * ps[i].xd) /\ ps[i].y \in 0..(Height * ps[i].yd)
             /\ \A j \in DOMAIN ps : vs[i] <= vs[j] => ps[j].y <= ps[i].y
        /\ ps # << >> =>
             /\ ps[1].x = 0 /\ Last(ps).x = Width * Last(ps).xd
             /\ AutoRange(s) /\ Cardinality(Range(vs)) = 1 => 2 * ps[1].y = Height * ps[1].yd
             /\ AutoRange(s) /\ Cardinality(Range(vs)) > 1 =>
                  \E i, j \in DOMAIN ps : ps[i].y = 0 /\ ps[j].y = Height * ps[j].yd

-----------------------------------------------------------------------------
(* README.md calls the curves a window of 60 s, at one sample a second and *)
(* 60 points: a full series goes back SeriesCapacity samples.              *)
WindowIsFull ==
  \A s \in Series :
    LET n == Len(points[s])
    IN  n >= SeriesCapacity =>
          points[s][n].time - points[s][n - SeriesCapacity + 1].time >= SeriesCapacity - 1
=============================================================================
