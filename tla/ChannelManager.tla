--------------------------- MODULE ChannelManager ---------------------------
(***************************************************************************)
(* core::ChannelManager (libs/core/src/channel_manager.cpp): the client's  *)
(* gRPC channel and the monitor thread that reports its connectivity and   *)
(* keeps it trying.  The service and gRPC's own state machine are external *)
(* and modelled by what MonitorLoop expects of them.                       *)
(*                                                                         *)
(* Time is abstracted: WaitForStateChange and its growing deadline         *)
(* (backoff_s) only say when the next probe comes, and a step may come at  *)
(* any time.  The state callback is the business of the module that uses   *)
(* this one: it fires when state changes.                                  *)
(***************************************************************************)
EXTENDS Naturals

CONSTANT MaxRestarts  \* bound: the times the service goes away

ASSUME MaxRestartsAssumption == MaxRestarts \in Nat

VARIABLES
  up,          \* external: the service listens
  restarts,    \* external: the times it went away
  linked,      \* external: the transport of a READY channel is alive
  channel,     \* channel_: "none", or its grpc_connectivity_state
  mgrRunning,  \* running_
  monitor,     \* where MonitorLoop is
  seen,        \* gstate
  state        \* state_

netVars == <<up, restarts, linked>>
monitorVars == <<mgrRunning, monitor, seen, state>>
mgrVars == <<netVars, channel, monitorVars>>

ManagerInit ==
  /\ up \in BOOLEAN
  /\ restarts = 0
  /\ linked = FALSE
  /\ channel = "none"
  /\ mgrRunning = FALSE
  /\ monitor = "none"
  /\ seen = "none"
  /\ state = "disconnected"

-----------------------------------------------------------------------------
(* The service goes away, with every connection to it, and comes back.     *)

ServiceStops ==
  /\ up
  /\ restarts < MaxRestarts
  /\ up' = FALSE
  /\ linked' = FALSE
  /\ restarts' = restarts + 1
  /\ UNCHANGED <<channel, monitorVars>>

ServiceStarts ==
  /\ ~up
  /\ up' = TRUE
  /\ UNCHANGED <<restarts, linked, channel, monitorVars>>

(* gRPC: an attempt ends, or a broken transport is noticed.                *)

ChannelConnects ==
  /\ channel = "CONNECTING"
  /\ linked' = up
  /\ channel' = IF up THEN "READY" ELSE "TRANSIENT_FAILURE"
  /\ UNCHANGED <<up, restarts, monitorVars>>

ChannelBreaks ==
  /\ channel = "READY"
  /\ ~linked
  /\ channel' \in {"IDLE", "CONNECTING", "TRANSIENT_FAILURE"}
  /\ UNCHANGED <<netVars, monitorVars>>

(* gRPC leaves TRANSIENT_FAILURE after a backoff of about a second, which  *)
(* is long enough for WaitForStateChange to have woken the monitor.        *)
ChannelRetries ==
  /\ channel = "TRANSIENT_FAILURE"
  /\ monitor = "loop" => seen = "TRANSIENT_FAILURE"
  /\ channel' \in {"IDLE", "CONNECTING"}
  /\ UNCHANGED <<netVars, monitorVars>>

(* Asking an idle channel to connect.                                      *)
Connecting(c) == IF c = "IDLE" THEN "CONNECTING" ELSE c

-----------------------------------------------------------------------------
(* Start, called once: the caller's running_ guards it.                    *)
StartManager ==
  /\ mgrRunning' = TRUE
  /\ monitor' = "create"
  /\ UNCHANGED <<netVars, channel, seen, state>>

(* The first half of Stop; the second is the join.                         *)
StopManager ==
  /\ mgrRunning' = FALSE
  /\ UNCHANGED <<netVars, channel, monitor, seen, state>>

CreateChannel ==
  /\ monitor = "create"
  /\ channel' = "IDLE"
  /\ monitor' = "loop"
  /\ UNCHANGED <<netVars, mgrRunning, seen, state>>

(* The state a connectivity stands for; IDLE is no news.                   *)
StateOf(g) ==
  CASE g = "READY" -> "connected"
    [] g = "CONNECTING" -> "connecting"
    [] g = "TRANSIENT_FAILURE" -> "disconnected"
    [] OTHER -> state

(* GetState(false): a monitor that only looks.                             *)
ProbePassively ==
  /\ monitor = "loop"
  /\ mgrRunning
  /\ seen' = channel
  /\ state' = StateOf(channel)
  /\ UNCHANGED <<netVars, channel, mgrRunning, monitor>>

(* One turn of the loop: GetState(true), SetState, WaitForStateChange.     *)
Probe ==
  /\ monitor = "loop"
  /\ mgrRunning
  /\ seen' = channel
  /\ channel' = Connecting(channel)
  /\ state' = StateOf(channel)
  /\ UNCHANGED <<netVars, mgrRunning, monitor>>

MonitorExits ==
  /\ monitor = "loop"
  /\ ~mgrRunning
  /\ state' = "disconnected"
  /\ monitor' = "done"
  /\ UNCHANGED <<netVars, channel, mgrRunning, seen>>

MonitorLoop == CreateChannel \/ Probe \/ MonitorExits
=============================================================================
