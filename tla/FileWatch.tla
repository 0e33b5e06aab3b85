------------------------------ MODULE FileWatch ------------------------------
(***************************************************************************)
(* The file watch of config::ProfileManager (profile_manager.cpp, lines    *)
(* 87-152) on top of the event bus: the watch thread is one of the two     *)
(* threads that publish, the other one being the SwitchTo that holds the   *)
(* manager's mutex.                                                        *)
(*                                                                         *)
(* ReadDirectoryChangesW is external.  From the first call on the kernel   *)
(* keeps the changes that happen between two calls in a buffer of its own; *)
(* when that overflows, the next call completes with zero bytes.           *)
(***************************************************************************)
EXTENDS EventBus

CONSTANTS MaxSwitches,  \* bound: events of SwitchTo
          MaxChanges    \* bound: changes in the directory

ASSUME PublishersAssumption == Publishers = {"switch", "watch"}
ASSUME BoundsAssumption ==
  MaxSwitches \in Nat /\ MaxChanges \in Nat /\ MaxEvents = MaxSwitches + MaxChanges

VARIABLES
  watching,   \* watching_
  dir,        \* watch_dir_ is open
  hEvent,     \* overlapped_.hEvent is an event, not null
  watch,      \* where the watch thread is
  stopper,    \* where the thread that calls StopFileWatch is
  io,         \* the overlapped read; all but none and pending signal its event
  kernel,     \* the changes between two reads
  changes,    \* the number of changes so far
  switches,   \* the number of events of SwitchTo so far
  unannounced,\* observer: a change that the watch has not published yet
  missed      \* observer: an overflow has swallowed changes

watchVars == <<watching, dir, hEvent, watch, stopper, io, kernel, changes,
               switches, unannounced, missed>>
vars == <<eventVars, watchVars>>

Init ==
  /\ EventInit
  /\ watching = FALSE
  /\ dir = FALSE
  /\ hEvent = FALSE
  /\ watch = "none"
  /\ stopper = "idle"
  /\ io = "none"
  /\ kernel = "off"
  /\ changes = 0
  /\ switches = 0
  /\ unannounced = FALSE
  /\ missed = FALSE

Signaled == io \in {"changes", "overflow", "aborted"}

-----------------------------------------------------------------------------
(* StartFileWatch, on the thread that starts the service: CreateFileW may  *)
(* fail, which ends it, and so may CreateEventW, which nobody looks at.    *)
StartFileWatch ==
  /\ stopper = "idle" /\ watch = "none" /\ ~watching
  /\ stopper' = "started"
  /\ \/ watching' = TRUE /\ dir' = TRUE /\ hEvent' \in BOOLEAN /\ watch' = "first arm"
     \/ UNCHANGED <<watching, dir, hEvent, watch>>
  /\ UNCHANGED <<eventVars, io, kernel, changes, switches,
                 unannounced, missed>>

(* A stop that looks at the flag and leaves it.                            *)
StopFileWatchKeepsFlag ==
  /\ stopper = "started"
  /\ stopper' = IF watching THEN "cancel" ELSE "stopped"
  /\ UNCHANGED <<eventVars, watching, dir, hEvent, watch, io, kernel, changes,
                 switches, unannounced, missed>>

(* StopFileWatch: the exchange; nothing to do when it is not watching.     *)
StopFileWatch ==
  /\ stopper = "started"
  /\ stopper' = IF watching THEN "cancel" ELSE "stopped"
  /\ watching' = FALSE
  /\ UNCHANGED <<eventVars, dir, hEvent, watch, io, kernel, changes, switches,
                 unannounced, missed>>

(* CancelIoEx finds a read that is pending, or nothing.  Without an event  *)
(* it is not called.                                                       *)
CancelIo ==
  /\ stopper = "cancel"
  /\ io' = IF io = "pending" /\ hEvent THEN "aborted" ELSE io
  /\ stopper' = "join"
  /\ UNCHANGED <<eventVars, watching, dir, hEvent, watch, kernel, changes, switches,
                 unannounced, missed>>

(* A stop that does not wait for the thread.                               *)
CloseHandlesNoJoin ==
  /\ stopper = "join"
  /\ dir' = FALSE /\ hEvent' = FALSE
  /\ io' = IF io = "pending" THEN "aborted" ELSE io
  /\ stopper' = "stopped"
  /\ UNCHANGED <<eventVars, watching, watch, kernel, changes, switches,
                 unannounced, missed>>

(* The join, then both handles are closed, which aborts a pending read.    *)
CloseHandles ==
  /\ stopper = "join"
  /\ watch = "exited"
  /\ dir' = FALSE /\ hEvent' = FALSE
  /\ io' = IF io = "pending" THEN "aborted" ELSE io
  /\ stopper' = "stopped"
  /\ UNCHANGED <<eventVars, watching, watch, kernel, changes, switches,
                 unannounced, missed>>

Stopping == CancelIo \/ CloseHandles

-----------------------------------------------------------------------------
(* WatchLoop                                                               *)

(* An arm() that begins with a directory handle, and a kernel buffer, of   *)
(* its own.                                                                *)
ArmAfresh ==
  /\ watch \in {"first arm", "arm"}
  /\ \/ io' = "pending" /\ kernel' = "empty" /\ watch' = "test"
     \/ watch' = "exited" /\ io' = "none" /\ UNCHANGED kernel
  /\ UNCHANGED <<eventVars, watching, dir, hEvent, stopper, changes, switches,
                 unannounced, missed>>

(* arm(): the read is pending, or completes at once with what the kernel   *)
(* has kept.  When it fails the thread ends, and watching_ stays true.     *)
Arm ==
  /\ watch \in {"first arm", "arm"}
  /\ \/ /\ io' = IF kernel \in {"changes", "overflow"} THEN kernel ELSE "pending"
        /\ kernel' = "empty"
        /\ watch' = "test"
     \/ watch' = "exited" /\ io' = "none" /\ UNCHANGED kernel
  /\ UNCHANGED <<eventVars, watching, dir, hEvent, stopper, changes, switches,
                 unannounced, missed>>

(* while (watching_.load())                                                *)
TestWatching ==
  /\ watch = "test"
  /\ watch' = IF watching THEN "wait" ELSE "exited"
  /\ UNCHANGED <<eventVars, watching, dir, hEvent, stopper, io, kernel, changes,
                 switches, unannounced, missed>>

(* WaitForSingleObject(hEvent, 500); a timeout, or the failure at once     *)
(* that a null handle gives, only matters when watching_ is false by then. *)
Wait ==
  /\ watch = "wait"
  /\ \/ hEvent /\ Signaled /\ watch' = "woken"
     \/ ~(hEvent /\ Signaled) /\ ~watching /\ watch' = "exited"
  /\ UNCHANGED <<eventVars, watching, dir, hEvent, stopper, io, kernel, changes,
                 switches, unannounced, missed>>

(* The test of watching_ after the wait, and GetOverlappedResult.          *)
AfterWait ==
  /\ watch = "woken"
  /\ watch' = IF ~watching THEN "exited" ELSE IF io = "changes" THEN "publish" ELSE "arm"
  /\ UNCHANGED <<eventVars, watching, dir, hEvent, stopper, io, kernel, changes,
                 switches, unannounced, missed>>

(* events_->PublishNow("info", "Profiles changed", ...): it is about what  *)
(* the completed read held; the changes after it are the kernel's.         *)
Announce ==
  /\ watch = "publish"
  /\ PublishNow("watch")
  /\ watch' = "publishing"
  /\ unannounced' = (kernel = "changes")
  /\ UNCHANGED <<watching, dir, hEvent, stopper, io, kernel, changes, switches, missed>>

(* Publish of the watch thread; when it returns the loop arms again.       *)
WatchPublishes ==
  /\ Publish("watch")
  /\ watch' = IF event'["watch"] = 0 THEN "arm" ELSE watch
  /\ UNCHANGED <<watching, dir, hEvent, stopper, io, kernel, changes, switches,
                 unannounced, missed>>

WatchLoop == Arm \/ TestWatching \/ Wait \/ AfterWait \/ Announce \/ WatchPublishes

-----------------------------------------------------------------------------
(* A file of the directory is written, renamed or removed, by an editor or *)
(* by the store itself: SetActiveId does both on every switch.             *)
DirectoryChanges ==
  /\ changes < MaxChanges
  /\ changes' = changes + 1
  /\ \/ /\ io = "pending"
        /\ io' = "changes"
        /\ unannounced' = TRUE
        /\ UNCHANGED <<kernel, missed>>
     \/ /\ io # "pending" /\ kernel \in {"empty", "changes"}
        /\ kernel' = "changes"
        /\ unannounced' = TRUE
        /\ UNCHANGED <<io, missed>>
     \/ /\ io # "pending" /\ kernel = "changes"
        /\ kernel' = "overflow"
        /\ missed' = TRUE
        /\ UNCHANGED <<io, unannounced>>
     \/ /\ io # "pending" /\ kernel \in {"off", "overflow"}
        /\ UNCHANGED <<io, kernel, unannounced, missed>>
  /\ UNCHANGED <<eventVars, watching, dir, hEvent, watch, stopper, switches>>

(* SwitchTo publishes from handler threads, one at a time.                 *)
SwitchPublishes ==
  /\ \/ switches < MaxSwitches /\ PublishNow("switch") /\ switches' = switches + 1
     \/ Publish("switch") /\ UNCHANGED switches
  /\ UNCHANGED <<watching, dir, hEvent, watch, stopper, io, kernel, changes,
                 unannounced, missed>>

Next ==
  \/ StartFileWatch \/ StopFileWatch \/ Stopping \/ WatchLoop \/ DirectoryChanges
  \/ SwitchPublishes
  \/ \E s \in Streams : StreamStep(s) /\ UNCHANGED watchVars

Spec == Init /\ [][Next]_vars

(* The watch thread runs, and a stop once begun goes on.  Nobody has to    *)
(* switch, to stop the service, to touch a file or to read events.         *)
FairSpec ==
  /\ Spec
  /\ WF_vars(WatchLoop)
  /\ WF_vars(Stopping)

-----------------------------------------------------------------------------
(* Type invariant of the bus and of the watch.                             *)
TypeOK ==
  /\ EventTypeOK
  /\ watching \in BOOLEAN /\ dir \in BOOLEAN /\ hEvent \in BOOLEAN
  /\ unannounced \in BOOLEAN /\ missed \in BOOLEAN
  /\ watch \in {"none", "first arm", "test", "wait", "woken", "publish",
                "publishing", "arm", "exited"}
  /\ stopper \in {"idle", "started", "cancel", "join", "stopped"}
  /\ io \in {"none", "pending", "changes", "overflow", "aborted"}
  /\ kernel \in {"off", "empty", "changes", "overflow"}
  /\ changes \in 0..MaxChanges /\ switches \in 0..MaxSwitches

(* When StopFileWatch returns, the thread is gone and publishes no more,   *)
(* no handle is left and no read is pending.  The buffer of the read lives *)
(* in WatchLoop: the thread leaves it to a pending read only while         *)
(* StopFileWatch is at work, which ends the read.                          *)
StopIsFinal ==
  /\ stopper = "stopped" =>
       /\ watch \in {"none", "exited"} /\ event["watch"] = 0
       /\ ~dir /\ ~hEvent /\ io # "pending"
  /\ watch = "exited" /\ io = "pending" => stopper \in {"cancel", "join"}

(* StopFileWatch returns, also when CancelIoEx came before the arm.        *)
StopReturns == stopper = "cancel" ~> stopper = "stopped"

(* A change of the directory is announced, unless the kernel's buffer has  *)
(* overflowed, the watch has ended or it never got its event.              *)
ChangeAnnounced ==
  unannounced ~> (~unannounced \/ missed \/ ~watching \/ watch = "exited" \/ ~hEvent)
=============================================================================
