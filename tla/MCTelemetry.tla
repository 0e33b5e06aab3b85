---- MODULE MCTelemetry ----
(* One counter of each kind and two GPU engines; a GPU with two functions.  *)
(* cpu.usage_pct goes the way of gpu.util_pct, cpu.temp_c that of WMI.      *)
EXTENDS TelemetryPath

MCSpecs == <<"mem.available_mb", "disk.read_bps", "disk.write_bps",
             "gpu.util_pct">>
MCInstances == <<1, 1, 1, 2>>
MCNvmlCalls == <<"utilization", "temperature">>
====
