--------------------------- MODULE ProfileManager ---------------------------
(***************************************************************************)
(* config::ProfileManager (libs/config/src/profile_manager.cpp): SwitchTo  *)
(* as run by the gRPC handler threads of CommandService::SwitchProfile,    *)
(* against the profile files and the executors.                            *)
(*                                                                         *)
(* SwitchTo holds mutex_ from beginning to end, but it is not one step:    *)
(* each call into an executor or the store is, and the hardware, the       *)
(* profile directory and the life of the service process belong to others  *)
(* in between.  A settings key is a number, in the order of the std::map;  *)
(* a setting is an uninterpreted text whose meaning the executors give.    *)
(***************************************************************************)
EXTENDS Integers, FiniteSets

CONSTANTS
  Threads,                \* gRPC handler threads
  Ids,                    \* profile ids
  Keys,                   \* settings keys, numbered in map order
  ExecutorKeys,           \* the keys that have an executor
  Texts,                  \* values of settings and snapshots
  Unreadable,             \* the empty text of a snapshot that failed
  Contents,               \* the settings a profile file may hold
  MayVanish,              \* executors whose Available() may turn false
  HwStates(_),            \* the states of the hardware behind a key
  InitialHw,              \* the states the service may find the hardware in
  ApplyOutcomes(_, _, _), \* (k, text, state): what Apply(text) may do
  ReadOutcomes(_, _),     \* (k, state): what CurrentValue() may return
  Settable(_, _),         \* (k, state): a state that Apply has a text for
  NotAProfile,            \* a file that is missing or does not parse
  IllTyped,               \* a file with a field of the wrong JSON type
  NoId,                   \* the empty active id, and no thread
  MaxDisturbances         \* bound: changes made behind the service's back

ASSUME KeysAssumption == Keys \subseteq Nat /\ ExecutorKeys \subseteq Keys
ASSUME MayVanishAssumption == MayVanish \subseteq ExecutorKeys
ASSUME ContentsAssumption ==
  /\ NotAProfile \notin Contents /\ IllTyped \notin Contents /\ NotAProfile # IllTyped
  /\ \A c \in Contents : /\ DOMAIN c \subseteq Keys
                         /\ \A k \in DOMAIN c : c[k] \in Texts
ASSUME TextsAssumption == Unreadable \in Texts
ASSUME NoIdAssumption == NoId \notin Threads /\ NoId \notin Ids
ASSUME DisturbanceAssumption == MaxDisturbances \in Nat

(* One state of the hardware for each executor.                            *)
IsHw(f) == /\ f = [k \in ExecutorKeys |-> f[k]]
           /\ \A k \in ExecutorKeys : f[k] \in HwStates(k)

ASSUME InitialHwAssumption == \A f \in InitialHw : IsHw(f)

(* Apply reports ok or not; when not, it has left the hardware alone.      *)
ASSUME ApplyAssumption ==
  \A k \in ExecutorKeys, text \in Texts : \A h \in HwStates(k) :
    \A o \in ApplyOutcomes(k, text, h) :
      /\ o.ok \in BOOLEAN
      /\ o.hw \in HwStates(k)
      /\ ~o.ok => o.hw = h
ASSUME ReadAssumption ==
  \A k \in ExecutorKeys : \A h \in HwStates(k) : ReadOutcomes(k, h) \subseteq Texts

(* What is found under the name of a profile.                              *)
Files == Contents \cup {NotAProfile, IllTyped}

VARIABLES
  files,      \* the profile directory, by id
  active,     \* active.json, as ActiveId() reads it
  hw,         \* the hardware behind each executor
  event,      \* the last event SwitchTo published
  lock,       \* the thread holding mutex_, NoId if none
  pc,         \* where each thread is in SwitchTo
  req,        \* profile_id
  settings,   \* profile.settings
  todo,       \* the keys the loop has not finished with
  key,        \* the key of the current turn of the loop
  snap,       \* the snapshot values, by key
  applied,    \* the keys in the vector applied
  rolled,     \* rolled_back_keys
  reply,      \* how the last call of the thread ended
  committed,  \* observer: the last profile that reached SetActiveId
  before,     \* observer: the hardware when the transaction began
  unrestored, \* observer: keys whose snapshot or rollback was no good
  disturbed,  \* observer: keys changed by others during the transaction
  disturbances

locals == <<req, settings, todo, key, snap, applied, rolled>>
ghosts == <<before, unrestored, disturbed>>
world == <<files, disturbances>>
vars == <<world, active, hw, event, lock, pc, locals, reply, committed, ghosts>>

IsFirst(k, S) == k \in S /\ \A j \in S : k <= j
IsLast(k, S) == k \in S /\ \A j \in S : j <= k

(* What a successful Apply(text) can leave behind.                         *)
Accepts(k, text) ==
  UNION {{o.hw : o \in {r \in ApplyOutcomes(k, text, h) : r.ok}} : h \in HwStates(k)}

(* A successful Apply(text) surely brings back the state h.                *)
Restores(k, text, h) == Accepts(k, text) \subseteq {h}

Init ==
  /\ files \in [Ids -> Files]
  /\ active \in Ids \cup {NoId}
  /\ hw \in InitialHw
  /\ event = [level |-> "none", id |-> NoId]
  /\ lock = NoId
  /\ pc = [t \in Threads |-> "idle"]
  /\ req = [t \in Threads |-> NoId]
  /\ settings = [t \in Threads |-> NotAProfile]
  /\ todo = [t \in Threads |-> {}]
  /\ key = [t \in Threads |-> 0]
  /\ snap = [t \in Threads |-> [k \in Keys |-> Unreadable]]
  /\ applied = [t \in Threads |-> {}]
  /\ rolled = [t \in Threads |-> {}]
  /\ reply = [t \in Threads |-> "none"]
  /\ committed = active
  /\ before = [t \in Threads |-> hw]
  /\ unrestored = [t \in Threads |-> {}]
  /\ disturbed = [t \in Threads |-> {}]
  /\ disturbances = 0

-----------------------------------------------------------------------------
(* SwitchTo returns r: mutex_ is released and the locals are gone.         *)
Return(t, r) ==
  /\ pc' = [pc EXCEPT ![t] = "idle"]
  /\ reply' = [reply EXCEPT ![t] = r]
  /\ lock' = NoId
  /\ req' = [req EXCEPT ![t] = NoId]
  /\ settings' = [settings EXCEPT ![t] = NotAProfile]
  /\ todo' = [todo EXCEPT ![t] = {}]
  /\ key' = [key EXCEPT ![t] = 0]
  /\ snap' = [snap EXCEPT ![t] = [k \in Keys |-> Unreadable]]
  /\ applied' = [applied EXCEPT ![t] = {}]
  /\ rolled' = [rolled EXCEPT ![t] = {}]

(* A client's SwitchProfile request reaches a handler thread.              *)
SwitchProfile(t, id) ==
  /\ pc[t] = "idle"
  /\ pc' = [pc EXCEPT ![t] = "lock"]
  /\ req' = [req EXCEPT ![t] = id]
  /\ UNCHANGED <<world, active, hw, event, lock, settings, todo, key, snap, applied, rolled,
                 reply, committed, ghosts>>

(* The lock_guard forgotten.                                               *)
LockSkipped(t) ==
  /\ pc[t] = "lock"
  /\ lock' = t
  /\ pc' = [pc EXCEPT ![t] = "get"]
  /\ UNCHANGED <<world, active, hw, event, locals, reply, committed, ghosts>>

(* std::lock_guard lock(mutex_)                                            *)
Lock(t) ==
  /\ pc[t] = "lock"
  /\ lock = NoId
  /\ lock' = t
  /\ pc' = [pc EXCEPT ![t] = "get"]
  /\ UNCHANGED <<world, active, hw, event, locals, reply, committed, ghosts>>

(* store_.Get fails: the caller is told, nobody else is.                   *)
ProfileNotFound(t) ==
  /\ pc[t] = "get"
  /\ files[req[t]] = NotAProfile
  /\ Return(t, "not found")
  /\ UNCHANGED <<world, active, hw, event, committed, ghosts>>

(* store_.Get throws on a field of the wrong type: lock_guard releases the *)
(* mutex on the way out and gRPC fails the call.                           *)
GetThrows(t) ==
  /\ pc[t] = "get"
  /\ files[req[t]] = IllTyped
  /\ Return(t, "threw")
  /\ UNCHANGED <<world, active, hw, event, committed, ghosts>>

(* store_.Get succeeds: the transaction works on this copy of the profile. *)
GetProfile(t) ==
  /\ pc[t] = "get"
  /\ files[req[t]] \in Contents
  /\ settings' = [settings EXCEPT ![t] = files[req[t]]]
  /\ todo' = [todo EXCEPT ![t] = DOMAIN files[req[t]]]
  /\ pc' = [pc EXCEPT ![t] = "next"]
  /\ before' = [before EXCEPT ![t] = hw]
  /\ unrestored' = [unrestored EXCEPT ![t] = {}]
  /\ disturbed' = [disturbed EXCEPT ![t] = {}]
  /\ UNCHANGED <<world, active, hw, event, lock, req, key, snap, applied, rolled, reply,
                 committed>>

(* The early return for a missing executor without the rollback loop.      *)
NoExecutorNoRollback(t) ==
  /\ pc[t] = "next"
  /\ \E k \in Keys : IsFirst(k, todo[t]) /\ (k \notin ExecutorKeys \/ k \in MayVanish)
  /\ pc' = [pc EXCEPT ![t] = "rollback"]
  /\ applied' = [applied EXCEPT ![t] = {}]
  /\ UNCHANGED <<world, active, hw, event, lock, req, settings, todo, key, snap, rolled, reply,
                 committed, ghosts>>

(* The turn of a key that has no executor, or one that is not available.   *)
NoExecutor(t) ==
  /\ pc[t] = "next"
  /\ \E k \in Keys : IsFirst(k, todo[t]) /\ (k \notin ExecutorKeys \/ k \in MayVanish)
  /\ pc' = [pc EXCEPT ![t] = "rollback"]
  /\ UNCHANGED <<world, active, hw, event, lock, locals, reply, committed, ghosts>>

(* previous = executor->CurrentValue()                                     *)
Snapshot(t) ==
  /\ pc[t] = "next"
  /\ \E k \in ExecutorKeys :
       /\ IsFirst(k, todo[t])
       /\ key' = [key EXCEPT ![t] = k]
       /\ \E text \in ReadOutcomes(k, hw[k]) :
            /\ snap' = [snap EXCEPT ![t][k] = text]
            /\ unrestored' = [unrestored EXCEPT ![t] =
                 IF Restores(k, text, before[t][k]) THEN @ ELSE @ \cup {k}]
  /\ pc' = [pc EXCEPT ![t] = "apply"]
  /\ UNCHANGED <<world, active, hw, event, lock, req, settings, todo, applied, rolled, reply,
                 committed, before, disturbed>>

(* The loop left after its first turn.                                     *)
ApplyFirstOnly(t) ==
  /\ pc[t] = "apply"
  /\ \E o \in ApplyOutcomes(key[t], settings[t][key[t]], hw[key[t]]) :
       /\ o.ok
       /\ hw' = [hw EXCEPT ![key[t]] = o.hw]
  /\ applied' = [applied EXCEPT ![t] = @ \cup {key[t]}]
  /\ todo' = [todo EXCEPT ![t] = {}]
  /\ pc' = [pc EXCEPT ![t] = "next"]
  /\ UNCHANGED <<world, active, event, lock, req, settings, key, snap, rolled, reply,
                 committed, ghosts>>

(* executor->Apply(desired) succeeds and joins the vector applied.         *)
ApplySetting(t) ==
  /\ pc[t] = "apply"
  /\ \E o \in ApplyOutcomes(key[t], settings[t][key[t]], hw[key[t]]) :
       /\ o.ok
       /\ hw' = [hw EXCEPT ![key[t]] = o.hw]
  /\ applied' = [applied EXCEPT ![t] = @ \cup {key[t]}]
  /\ todo' = [todo EXCEPT ![t] = @ \ {key[t]}]
  /\ pc' = [pc EXCEPT ![t] = "next"]
  /\ UNCHANGED <<world, active, event, lock, req, settings, key, snap, rolled, reply,
                 committed, ghosts>>

ApplyFails(t) ==
  /\ pc[t] = "apply"
  /\ \E o \in ApplyOutcomes(key[t], settings[t][key[t]], hw[key[t]]) : ~o.ok
  /\ pc' = [pc EXCEPT ![t] = "rollback"]
  /\ UNCHANGED <<world, active, hw, event, lock, locals, reply, committed, ghosts>>

(* A rollback that forgets to report the key.                              *)
RollBackUnreported(t) ==
  /\ pc[t] = "rollback"
  /\ \E k \in applied[t] :
       /\ IsLast(k, applied[t])
       /\ \E o \in ApplyOutcomes(k, snap[t][k], hw[k]) :
            /\ hw' = [hw EXCEPT ![k] = o.hw]
            /\ unrestored' = [unrestored EXCEPT ![t] = IF o.ok THEN @ ELSE @ \cup {k}]
       /\ applied' = [applied EXCEPT ![t] = @ \ {k}]
  /\ UNCHANGED <<world, active, event, lock, pc, req, settings, todo, key, snap, rolled, reply,
                 committed, before, disturbed>>

(* A rollback that retries until the executor accepts the snapshot.        *)
RollBackUntilOk(t) ==
  /\ pc[t] = "rollback"
  /\ \E k \in applied[t] :
       /\ IsLast(k, applied[t])
       /\ \E o \in ApplyOutcomes(k, snap[t][k], hw[k]) :
            /\ hw' = [hw EXCEPT ![k] = o.hw]
            /\ applied' = [applied EXCEPT ![t] = IF o.ok THEN @ \ {k} ELSE @]
       /\ rolled' = [rolled EXCEPT ![t] = @ \cup {k}]
  /\ UNCHANGED <<world, active, event, lock, pc, req, settings, todo, key, snap, reply,
                 committed, ghosts>>

(* One turn of the rollback loop, last applied first.  What Apply answers  *)
(* is ignored.                                                             *)
RollBack(t) ==
  /\ pc[t] = "rollback"
  /\ \E k \in applied[t] :
       /\ IsLast(k, applied[t])
       /\ \E o \in ApplyOutcomes(k, snap[t][k], hw[k]) :
            /\ hw' = [hw EXCEPT ![k] = o.hw]
            /\ unrestored' = [unrestored EXCEPT ![t] = IF o.ok THEN @ ELSE @ \cup {k}]
       /\ applied' = [applied EXCEPT ![t] = @ \ {k}]
       /\ rolled' = [rolled EXCEPT ![t] = @ \cup {k}]
  /\ UNCHANGED <<world, active, event, lock, pc, req, settings, todo, key, snap, reply,
                 committed, before, disturbed>>

(* The "Profile switch failed" event, then return {false, ..., rolled}.    *)
SwitchFails(t) ==
  /\ pc[t] = "rollback"
  /\ applied[t] = {}
  /\ event' = [level |-> "error", id |-> req[t]]
  /\ Return(t, "failed")
  /\ UNCHANGED <<world, active, hw, committed, ghosts>>

(* SetActiveId with the mutex given up before the event goes out.          *)
SetActiveIdUnlocks(t) ==
  /\ pc[t] = "next"
  /\ todo[t] = {}
  /\ active' \in {req[t], active, NoId}
  /\ committed' = req[t]
  /\ lock' = NoId
  /\ pc' = [pc EXCEPT ![t] = "announce"]
  /\ UNCHANGED <<world, hw, event, locals, reply, ghosts>>

(* store_.SetActiveId.  It returns nothing: the new id may silently not be *)
(* written, or be cut short by a full disk and read back as empty.         *)
SetActiveId(t) ==
  /\ pc[t] = "next"
  /\ todo[t] = {}
  /\ active' \in {req[t], active, NoId}
  /\ committed' = req[t]
  /\ pc' = [pc EXCEPT ![t] = "announce"]
  /\ UNCHANGED <<world, hw, event, lock, locals, reply, ghosts>>

(* The "Profile applied" event, then return {true, "ok", {}}.              *)
SwitchSucceeds(t) ==
  /\ pc[t] = "announce"
  /\ event' = [level |-> "info", id |-> req[t]]
  /\ Return(t, "ok")
  /\ UNCHANGED <<world, active, hw, committed, ghosts>>

InTransaction(t) ==
  \/ ProfileNotFound(t) \/ GetThrows(t) \/ GetProfile(t) \/ NoExecutor(t) \/ Snapshot(t)
  \/ ApplySetting(t) \/ ApplyFails(t) \/ RollBack(t) \/ SwitchFails(t)
  \/ SetActiveId(t) \/ SwitchSucceeds(t)

Next ==
  \E t \in Threads : InTransaction(t) \/ Lock(t) \/ \E id \in Ids : SwitchProfile(t, id)

Spec == Init /\ [][Next]_vars

-----------------------------------------------------------------------------
(* What the rest of the machine does meanwhile.                            *)

(* Somebody else changes the power plan or the brightness.                 *)
HardwareChanges(k) ==
  /\ disturbances < MaxDisturbances
  /\ disturbances' = disturbances + 1
  /\ \E h \in HwStates(k) \ {hw[k]} : hw' = [hw EXCEPT ![k] = h]
  /\ disturbed' = [t \in Threads |-> disturbed[t] \cup {k}]
  /\ UNCHANGED <<files, active, event, lock, pc, locals, reply, committed, before, unrestored>>

(* A profile file is written, damaged or deleted from outside.             *)
FileChanges(id) ==
  /\ disturbances < MaxDisturbances
  /\ disturbances' = disturbances + 1
  /\ \E c \in Files \ {files[id]} : files' = [files EXCEPT ![id] = c]
  /\ UNCHANGED <<active, hw, event, lock, pc, locals, reply, committed, ghosts>>

(* The service dies anywhere in SwitchTo and the SCM restarts it: memory   *)
(* is lost, the disk and the hardware stay as they are.                    *)
Crash ==
  /\ disturbances < MaxDisturbances
  /\ disturbances' = disturbances + 1
  /\ event' = [level |-> "none", id |-> NoId]
  /\ lock' = NoId
  /\ pc' = [t \in Threads |-> "idle"]
  /\ req' = [t \in Threads |-> NoId]
  /\ settings' = [t \in Threads |-> NotAProfile]
  /\ todo' = [t \in Threads |-> {}]
  /\ key' = [t \in Threads |-> 0]
  /\ snap' = [t \in Threads |-> [k \in Keys |-> Unreadable]]
  /\ applied' = [t \in Threads |-> {}]
  /\ rolled' = [t \in Threads |-> {}]
  /\ reply' = [t \in Threads |-> "none"]
  /\ UNCHANGED <<files, active, hw, committed, ghosts>>

Environment ==
  \/ \E k \in ExecutorKeys : HardwareChanges(k)
  \/ \E id \in Ids : FileChanges(id)
  \/ Crash

FaultySpec == Init /\ [][Next \/ Environment]_vars

(* A thread that holds the mutex keeps running: no executor call hangs.    *)
(* Nothing is assumed about who gets the mutex next.                       *)
FairSpec == FaultySpec /\ \A t \in Threads : WF_vars(InTransaction(t))

-----------------------------------------------------------------------------
InSwitch(t) == pc[t] \in {"next", "apply", "rollback", "announce"}

(* Type invariant.                                                         *)
TypeOK ==
  /\ files \in [Ids -> Files]
  /\ active \in Ids \cup {NoId}
  /\ IsHw(hw)
  /\ event \in [level : {"none", "info", "error"}, id : Ids \cup {NoId}]
  /\ lock \in Threads \cup {NoId}
  /\ pc \in [Threads -> {"idle", "lock", "get", "next", "apply", "rollback", "announce"}]
  /\ req \in [Threads -> Ids \cup {NoId}]
  /\ settings \in [Threads -> Contents \cup {NotAProfile}]
  /\ todo \in [Threads -> SUBSET Keys]
  /\ key \in [Threads -> Nat]
  /\ snap \in [Threads -> [Keys -> Texts]]
  /\ applied \in [Threads -> SUBSET ExecutorKeys]
  /\ rolled \in [Threads -> SUBSET ExecutorKeys]
  /\ reply \in [Threads -> {"none", "ok", "failed", "not found", "threw"}]
  /\ committed \in Ids \cup {NoId}
  /\ before = [t \in Threads |-> before[t]] /\ \A t \in Threads : IsHw(before[t])
  /\ unrestored \in [Threads -> SUBSET ExecutorKeys]
  /\ disturbed \in [Threads -> SUBSET ExecutorKeys]
  /\ disturbances \in Nat

(* A switch that fails leaves every key as it found it, unless somebody    *)
(* else changed it meanwhile, its snapshot did not stand for its state, or *)
(* the rollback's own Apply failed.                                        *)
RollbackRestores ==
  \A t \in Threads : pc[t] = "rollback" /\ applied[t] = {} =>
    \A k \in ExecutorKeys \ (unrestored[t] \cup disturbed[t]) : hw[k] = before[t][k]

(* What a failed switch leaves changed it tells: every key that differs    *)
(* from the start is among rolled_back_keys or was changed by others.      *)
ChangesAreReported ==
  \A t \in Threads : pc[t] = "rollback" /\ applied[t] = {} =>
    \A k \in ExecutorKeys \ disturbed[t] : hw[k] # before[t][k] => k \in rolled[t]

(* When the new id is made active all settings of the profile are in force *)
(* at once, even the first ones, and nothing outside the profile moved.    *)
CommitInEffect ==
  \A t \in Threads : pc[t] = "announce" =>
    \A k \in ExecutorKeys \ disturbed[t] :
      IF k \in DOMAIN settings[t] THEN hw[k] \in Accepts(k, settings[t][k])
                                  ELSE hw[k] = before[t][k]

(* With no switch under way, the last event that announced a profile names *)
(* the one whose settings were applied last.                               *)
EventsInCommitOrder ==
  (\A t \in Threads : ~InSwitch(t)) /\ event.level = "info" => event.id = committed

(* The mutex is always given back.                                         *)
TransactionEnds == \A t \in Threads : lock = t ~> lock # t

-----------------------------------------------------------------------------
(* What CurrentValue returns in state h is accepted by Apply and brings h  *)
(* back from any other state.                                              *)
CanRestore(k, h) ==
  \A text \in ReadOutcomes(k, h) :
    \A g \in HwStates(k) : \A o \in ApplyOutcomes(k, text, g) : o.ok /\ o.hw = h

(* What CurrentValue returns in state h Apply always refuses.              *)
CannotRestore(k, h) ==
  \A text \in ReadOutcomes(k, h) :
    \A g \in HwStates(k) : \A o \in ApplyOutcomes(k, text, g) : ~o.ok

RestorableAt(k, h) == IF Settable(k, h) THEN CanRestore(k, h) ELSE CannotRestore(k, h)

(* Every executor restores what it reads, or cannot set it at all.         *)
Restorable == \A k \in ExecutorKeys : \A h \in HwStates(k) : RestorableAt(k, h)

(* Whatever state the hardware gets into, what CurrentValue prints of it   *)
(* Apply reads back as that same state: a power plan without an alias,     *)
(* through the digits and dashes of its GUID, and a level through its      *)
(* decimals.  Only a level over 100, which CurrentValue also prints, is    *)
(* refused.                                                                *)
HardwareRestorable == \A k \in ExecutorKeys : RestorableAt(k, hw[k])

(* Between GetProfile and SetActiveId or the last rollback step, the       *)
(* hardware counts as still being in the state the transaction found.      *)
VisibleHw ==
  IF \E t \in Threads : pc[t] \in {"next", "apply", "rollback"}
    THEN before[CHOOSE t \in Threads : pc[t] \in {"next", "apply", "rollback"}]
    ELSE hw

Atomic == INSTANCE AtomicSwitch WITH hw <- VisibleHw

(* Switches are atomic: with executors that restore what they read and     *)
(* nobody else at work, every switch takes effect as a whole or not at     *)
(* all, in the order of the mutex, whatever fails on the way; only what    *)
(* was found in a state that cannot be set may stay changed.               *)
SwitchesAreAtomic == Atomic!Spec

-----------------------------------------------------------------------------
(* command.proto calls rolled_back_keys "executors restored after a failed *)
(* apply": each of them is back in the state the transaction found.        *)
RolledBackKeysRestored ==
  \A t \in Threads : pc[t] = "rollback" /\ applied[t] = {} =>
    \A k \in rolled[t] : hw[k] = before[t][k]
=============================================================================
