------------------------ MODULE ProfileManagerProofs ------------------------
(***************************************************************************)
(* For any number of threads, profiles, keys and executors: the safety of  *)
(* the profile transaction amid crashes, changed files and hardware that   *)
(* others change, the order of its events, and its atomicity when the      *)
(* executors can restore what they read.  Those of the program can, a      *)
(* level over 100 excepted: for every GUID and every level, what is read   *)
(* from the characters that were printed is what was printed.              *)
(***************************************************************************)
EXTENDS ProfileManager, Executors, FiniteSetTheorems, TLAPS

Critical == {"get", "next", "apply", "rollback", "announce"}

(* Exactly the thread inside SwitchTo's critical section owns mutex_.      *)
Mutex == \A t \in Threads : pc[t] \in Critical <=> lock = t

(* Before the loop starts a thread has applied and rolled back nothing.    *)
Prologue ==
  \A t \in Threads :
    /\ pc[t] # "idle" => req[t] \in Ids
    /\ pc[t] \in {"idle", "lock", "get"} => applied[t] = {} /\ rolled[t] = {}

(* The bookkeeping of the loop: which keys are done, and that a snapshot   *)
(* stands for the state it was taken in.                                   *)
Books(t) ==
  /\ settings[t] \in Contents
  /\ todo[t] \subseteq DOMAIN settings[t]
  /\ applied[t] \subseteq DOMAIN settings[t]
  /\ pc[t] # "rollback" => rolled[t] = {} /\ DOMAIN settings[t] \subseteq applied[t] \cup todo[t]
  /\ pc[t] = "announce" => todo[t] = {}
  /\ pc[t] = "apply" => /\ key[t] \in todo[t] /\ key[t] \in ExecutorKeys
                        /\ \/ key[t] \in unrestored[t]
                           \/ Restores(key[t], snap[t][key[t]], before[t][key[t]])
  /\ \A k \in applied[t] \ unrestored[t] : Restores(k, snap[t][k], before[t][k])

(* Where the hardware is at each point of the loop.                        *)
Hardware(t) ==
  /\ \A k \in ExecutorKeys \ (applied[t] \cup rolled[t] \cup disturbed[t]) :
       hw[k] = before[t][k]
  /\ \A k \in rolled[t] \ (unrestored[t] \cup disturbed[t]) : hw[k] = before[t][k]
  /\ pc[t] # "rollback" =>
       \A k \in applied[t] \ disturbed[t] : hw[k] \in Accepts(k, settings[t][k])

(* The inductive invariant.                                                *)
Inv ==
  /\ TypeOK
  /\ Mutex
  /\ Prologue
  /\ \A t \in Threads : InSwitch(t) => Books(t) /\ Hardware(t)

(* A successful Apply leaves a state that its text stands for.             *)
LEMMA AcceptsOutcome ==
  ASSUME NEW k, NEW text, NEW h \in HwStates(k), NEW o \in ApplyOutcomes(k, text, h), o.ok
  PROVE  o.hw \in Accepts(k, text)
  BY DEF Accepts

(* Apply keeps the hardware in one of its states.                          *)
LEMMA ApplyKeepsHw ==
  ASSUME IsHw(hw), NEW k \in ExecutorKeys, NEW text \in Texts,
         NEW o \in ApplyOutcomes(k, text, hw[k])
  PROVE  /\ o.ok \in BOOLEAN /\ o.hw \in HwStates(k)
         /\ IsHw([hw EXCEPT ![k] = o.hw])
         /\ [hw EXCEPT ![k] = o.hw][k] = o.hw
         /\ \A j \in ExecutorKeys \ {k} : [hw EXCEPT ![k] = o.hw][j] = hw[j]
<1>1. hw[k] \in HwStates(k) /\ hw = [j \in ExecutorKeys |-> hw[j]]
  BY DEF IsHw
<1>2. o.ok \in BOOLEAN /\ o.hw \in HwStates(k)
  BY <1>1, ApplyAssumption
<1> QED
  BY <1>1, <1>2 DEF IsHw

(* The service starts with no transaction.                                 *)
LEMMA InitInv == Init => Inv
<1> SUFFICES ASSUME Init PROVE Inv
  OBVIOUS
<1>1. TypeOK
  BY InitialHwAssumption, TextsAssumption DEF Init, TypeOK
<1>2. Mutex /\ Prologue
  BY NoIdAssumption DEF Init, Mutex, Prologue, Critical
<1>3. \A t \in Threads : ~InSwitch(t)
  BY DEF Init, InSwitch
<1> QED
  BY <1>1, <1>2, <1>3 DEF Inv

(* Leaving SwitchTo.                                                       *)
LEMMA ReturnInv ==
  ASSUME Inv, NEW t \in Threads, pc[t] \in Critical,
         NEW r \in {"ok", "failed", "not found", "threw"}, Return(t, r),
         event' \in [level : {"none", "info", "error"}, id : Ids \cup {NoId}],
         UNCHANGED <<world, active, hw, committed, ghosts>>
  PROVE  Inv'
<1> USE DEF Inv
<1>1. TypeOK'
  <2>1. /\ reply' \in [Threads -> {"none", "ok", "failed", "not found", "threw"}]
        /\ pc' \in [Threads -> {"idle", "lock", "get", "next", "apply", "rollback", "announce"}]
        /\ req' \in [Threads -> Ids \cup {NoId}]
        /\ settings' \in [Threads -> Contents \cup {NotAProfile}]
        /\ key' \in [Threads -> Nat]
    BY DEF Return, TypeOK
  <2>2. /\ todo' \in [Threads -> SUBSET Keys]
        /\ applied' \in [Threads -> SUBSET ExecutorKeys]
        /\ rolled' \in [Threads -> SUBSET ExecutorKeys]
    BY DEF Return, TypeOK
  <2>3. snap' \in [Threads -> [Keys -> Texts]]
    BY TextsAssumption DEF Return, TypeOK
  <2>4. lock' \in Threads \cup {NoId}
    BY DEF Return
  <2> QED
    BY <2>1, <2>2, <2>3, <2>4 DEF TypeOK, world, ghosts
<1>2. lock = t
  BY DEF Mutex
<1>3. Mutex'
  BY <1>2, NoIdAssumption DEF Mutex, Return, Critical, TypeOK
<1>4. Prologue'
  BY DEF Prologue, Return, TypeOK
<1>5. \A u \in Threads : ~InSwitch(u)'
  BY <1>2 DEF Mutex, InSwitch, Critical, Return, TypeOK
<1> QED
  BY <1>1, <1>3, <1>4, <1>5

(* While one thread is in its critical section no other is in a switch.    *)
LEMMA Alone ==
  ASSUME Inv, NEW t \in Threads, pc[t] \in Critical, NEW x, pc' = [pc EXCEPT ![t] = x]
  PROVE  /\ lock = t
         /\ pc'[t] = x
         /\ \A u \in Threads \ {t} : ~InSwitch(u)' /\ pc'[u] = pc[u] /\ pc[u] \notin Critical
  BY DEF Inv, Mutex, InSwitch, Critical, TypeOK

(* A step inside the critical section keeps the mutex.                     *)
LEMMA StillLocked ==
  ASSUME Inv, NEW t \in Threads, pc[t] \in Critical, lock' = lock,
         NEW x \in Critical, pc' = [pc EXCEPT ![t] = x]
  PROVE  Mutex'
  BY Alone DEF Mutex, Critical

(* Requests, the mutex and the profile file.                               *)
LEMMA EnterInv ==
  ASSUME Inv, NEW t \in Threads,
         (\E id \in Ids : SwitchProfile(t, id)) \/ Lock(t) \/ GetProfile(t)
  PROVE  Inv'
<1> USE DEF Inv
<1>1. ASSUME NEW id \in Ids, SwitchProfile(t, id) PROVE Inv'
  <2>1. TypeOK'
    BY <1>1 DEF SwitchProfile, TypeOK, world, ghosts
  <2>2. Mutex' /\ Prologue'
    BY <1>1 DEF SwitchProfile, Mutex, Prologue, Critical, TypeOK
  <2>3. ASSUME NEW u \in Threads, InSwitch(u)' PROVE Books(u)' /\ Hardware(u)'
    <3>1. InSwitch(u) /\ pc'[u] = pc[u]
      BY <1>1, <2>3 DEF SwitchProfile, InSwitch, TypeOK
    <3>2. Books(u) /\ Hardware(u)
      BY <3>1
    <3> QED
      BY <1>1, <3>1, <3>2 DEF SwitchProfile, Books, Hardware, world, ghosts
  <2> QED
    BY <2>1, <2>2, <2>3
<1>2. CASE Lock(t)
  <2>1. TypeOK'
    BY <1>2 DEF Lock, TypeOK, world, ghosts, locals
  <2>2. Mutex' /\ Prologue'
    BY <1>2, NoIdAssumption DEF Lock, Mutex, Prologue, Critical, TypeOK, locals
  <2>3. \A u \in Threads : ~InSwitch(u)'
    BY <1>2, NoIdAssumption DEF Lock, Mutex, InSwitch, Critical, TypeOK
  <2> QED
    BY <2>1, <2>2, <2>3
<1>3. CASE GetProfile(t)
  <2>1. pc[t] = "get" /\ pc' = [pc EXCEPT ![t] = "next"] /\ req[t] \in Ids
    BY <1>3 DEF GetProfile, Prologue
  <2>2. files[req[t]] \in Contents
    BY <1>3 DEF GetProfile
  <2>8. DOMAIN files[req[t]] \subseteq Keys
    BY <2>2, ContentsAssumption
  <2>3. TypeOK'
    <3>1. /\ settings' \in [Threads -> Contents \cup {NotAProfile}]
          /\ todo' \in [Threads -> SUBSET Keys]
      BY <1>3, <2>2, <2>8 DEF GetProfile, TypeOK
    <3>2. /\ unrestored' \in [Threads -> SUBSET ExecutorKeys]
          /\ disturbed' \in [Threads -> SUBSET ExecutorKeys]
      BY <1>3 DEF GetProfile, TypeOK
    <3>3. before' = [u \in Threads |-> before'[u]] /\ \A u \in Threads : IsHw(before'[u])
      BY <1>3 DEF GetProfile, TypeOK
    <3>4. pc' \in [Threads -> {"idle", "lock", "get", "next", "apply", "rollback", "announce"}]
      BY <2>1 DEF TypeOK
    <3>5. IsHw(hw)'
      BY <1>3 DEF GetProfile, TypeOK, IsHw
    <3>6. \A u \in Threads : IsHw(before[u])'
      BY <3>3 DEF IsHw
    <3> QED
      BY <1>3, <3>1, <3>2, <3>3, <3>4, <3>5, <3>6 DEF GetProfile, TypeOK, world
  <2>4. Mutex'
    BY <1>3, <2>1, StillLocked DEF GetProfile, Critical
  <2>5. Prologue'
    BY <1>3 DEF GetProfile, Prologue, TypeOK
  <2>6. /\ settings'[t] = files[req[t]] /\ todo'[t] = DOMAIN files[req[t]]
        /\ applied'[t] = {} /\ rolled'[t] = {} /\ pc'[t] = "next" /\ hw' = hw
    BY <1>3, <2>1 DEF GetProfile, Prologue, TypeOK
  <2>7. before'[t] = hw /\ disturbed'[t] = {}
    BY <1>3 DEF GetProfile, TypeOK
  <2>9. Books(t)'
    BY <2>2, <2>6, <2>7 DEF Books
  <2>10. Hardware(t)'
    BY <2>6, <2>7 DEF Hardware
  <2>11. \A u \in Threads \ {t} : ~InSwitch(u)'
    BY <2>1, Alone DEF Critical
  <2> QED
    BY <2>3, <2>4, <2>5, <2>9, <2>10, <2>11
<1> QED
  BY <1>1, <1>2, <1>3

(* Giving up at a key, and taking its snapshot.                            *)
LEMMA BeforeApplyInv ==
  ASSUME Inv, NEW t \in Threads, NoExecutor(t) \/ Snapshot(t)
  PROVE  Inv'
<1> USE DEF Inv
<1>0. pc[t] = "next" /\ Books(t) /\ Hardware(t)
  BY DEF NoExecutor, Snapshot, InSwitch
<1>1. CASE NoExecutor(t)
  <2>1. pc' = [pc EXCEPT ![t] = "rollback"]
    BY <1>1 DEF NoExecutor
  <2>2. /\ UNCHANGED <<files, disturbances, active, hw, event, lock, req, settings, todo, key>>
        /\ UNCHANGED <<snap, applied, rolled, reply, committed, before, unrestored, disturbed>>
    BY <1>1 DEF NoExecutor, world, locals, ghosts
  <2>3. TypeOK'
    BY <2>1, <2>2 DEF TypeOK, IsHw
  <2>4. Mutex'
    BY <1>0, <2>1, <2>2, StillLocked DEF Critical
  <2>5. Prologue'
    BY <1>0, <2>1, <2>2 DEF Prologue, TypeOK
  <2>6. pc'[t] = "rollback" /\ \A u \in Threads \ {t} : ~InSwitch(u)'
    BY <1>0, <2>1, Alone DEF Critical
  <2>7. Books(t)' /\ Hardware(t)'
    BY <1>0, <2>2, <2>6 DEF Books, Hardware
  <2> QED
    BY <2>3, <2>4, <2>5, <2>6, <2>7
<1>2. CASE Snapshot(t)
  <2>1. pc' = [pc EXCEPT ![t] = "apply"]
    BY <1>2 DEF Snapshot
  <2>2. /\ UNCHANGED <<files, disturbances, active, hw, event, lock, req, settings, todo>>
        /\ UNCHANGED <<applied, rolled, reply, committed, before, disturbed>>
    BY <1>2 DEF Snapshot, world
  <2>3. PICK k \in ExecutorKeys :
          /\ k \in todo[t]
          /\ key' = [key EXCEPT ![t] = k]
          /\ \E text \in ReadOutcomes(k, hw[k]) :
               /\ snap' = [snap EXCEPT ![t][k] = text]
               /\ unrestored' = [unrestored EXCEPT ![t] =
                    IF Restores(k, text, before[t][k]) THEN @ ELSE @ \cup {k}]
    BY <1>2 DEF Snapshot, IsFirst
  <2>4. PICK text \in ReadOutcomes(k, hw[k]) :
               /\ snap' = [snap EXCEPT ![t][k] = text]
               /\ unrestored' = [unrestored EXCEPT ![t] =
                    IF Restores(k, text, before[t][k]) THEN @ ELSE @ \cup {k}]
    BY <2>3
  <2>5. /\ k \in todo[t]
        /\ key' = [key EXCEPT ![t] = k]
        /\ snap' = [snap EXCEPT ![t][k] = text]
        /\ unrestored' = [unrestored EXCEPT ![t] =
             IF Restores(k, text, before[t][k]) THEN @ ELSE @ \cup {k}]
    BY <2>3, <2>4
  <2>6. text \in Texts /\ k \in Keys /\ k \in Nat
    BY ReadAssumption, KeysAssumption DEF TypeOK, IsHw
  <2>7. /\ key'[t] = k /\ snap'[t][k] = text
        /\ \A j \in Keys \ {k} : snap'[t][j] = snap[t][j]
        /\ unrestored'[t] = IF Restores(k, text, before[t][k]) THEN unrestored[t]
                                                              ELSE unrestored[t] \cup {k}
    BY <2>5, <2>6 DEF TypeOK
  <2>8. TypeOK'
    <3>1. key' \in [Threads -> Nat] /\ snap' \in [Threads -> [Keys -> Texts]]
      BY <2>5, <2>6 DEF TypeOK
    <3>2. unrestored' \in [Threads -> SUBSET ExecutorKeys]
      BY <2>5 DEF TypeOK
    <3> QED
      BY <2>1, <2>2, <3>1, <3>2 DEF TypeOK, IsHw
  <2>9. Mutex'
    BY <1>0, <2>1, <2>2, StillLocked DEF Critical
  <2>10. Prologue'
    BY <1>0, <2>1, <2>2 DEF Prologue, TypeOK
  <2>11. pc'[t] = "apply" /\ \A u \in Threads \ {t} : ~InSwitch(u)'
    BY <1>0, <2>1, Alone DEF Critical
  <2>12. Books(t)'
    <3>1. ASSUME NEW j \in applied'[t] \ unrestored'[t]
          PROVE  Restores(j, snap'[t][j], before'[t][j])
      <4>1. j \in applied[t] \ unrestored[t] /\ j \in Keys
        BY <2>2, <2>7, <3>1, KeysAssumption DEF TypeOK
      <4>2. Restores(j, snap[t][j], before[t][j])
        BY <1>0, <4>1 DEF Books
      <4>3. CASE j = k
        BY <2>2, <2>7, <3>1, <4>3
      <4>4. CASE j # k
        BY <2>2, <2>7, <4>1, <4>2, <4>4
      <4> QED
        BY <4>3, <4>4
    <3>2. \/ key'[t] \in unrestored'[t]
          \/ Restores(key'[t], snap'[t][key'[t]], before'[t][key'[t]])
      BY <2>2, <2>7
    <3> QED
      BY <1>0, <2>2, <2>5, <2>7, <2>11, <3>1, <3>2 DEF Books, Restores, Accepts
  <2>13. Hardware(t)'
    BY <1>0, <2>2, <2>7, <2>11 DEF Hardware, Accepts
  <2> QED
    BY <2>8, <2>9, <2>10, <2>11, <2>12, <2>13
<1> QED
  BY <1>1, <1>2

(* Apply, whether it succeeds or not.                                      *)
LEMMA ApplyInv ==
  ASSUME Inv, NEW t \in Threads, ApplySetting(t) \/ ApplyFails(t)
  PROVE  Inv'
<1> USE DEF Inv
<1>0. /\ pc[t] = "apply" /\ Books(t) /\ Hardware(t)
      /\ key[t] \in ExecutorKeys /\ key[t] \in todo[t] /\ key[t] \in DOMAIN settings[t]
      /\ settings[t][key[t]] \in Texts
  <2>1. pc[t] = "apply" /\ Books(t) /\ Hardware(t)
    BY DEF ApplySetting, ApplyFails, InSwitch
  <2> QED
    BY <2>1, ContentsAssumption DEF Books
<1>1. CASE ApplyFails(t)
  <2>1. pc' = [pc EXCEPT ![t] = "rollback"]
    BY <1>1 DEF ApplyFails
  <2>2. /\ UNCHANGED <<files, disturbances, active, hw, event, lock, req, settings, todo, key>>
        /\ UNCHANGED <<snap, applied, rolled, reply, committed, before, unrestored, disturbed>>
    BY <1>1 DEF ApplyFails, world, locals, ghosts
  <2>3. TypeOK'
    BY <2>1, <2>2 DEF TypeOK, IsHw
  <2>4. Mutex'
    BY <1>0, <2>1, <2>2, StillLocked DEF Critical
  <2>5. Prologue'
    BY <1>0, <2>1, <2>2 DEF Prologue, TypeOK
  <2>6. pc'[t] = "rollback" /\ \A u \in Threads \ {t} : ~InSwitch(u)'
    BY <1>0, <2>1, Alone DEF Critical
  <2>7. Books(t)' /\ Hardware(t)'
    BY <1>0, <2>2, <2>6 DEF Books, Hardware
  <2> QED
    BY <2>3, <2>4, <2>5, <2>6, <2>7
<1>2. CASE ApplySetting(t)
  <2> DEFINE k == key[t]
  <2>1. PICK o \in ApplyOutcomes(k, settings[t][k], hw[k]) :
          o.ok /\ hw' = [hw EXCEPT ![k] = o.hw]
    BY <1>2 DEF ApplySetting
  <2>2. /\ pc' = [pc EXCEPT ![t] = "next"]
        /\ applied' = [applied EXCEPT ![t] = @ \cup {k}]
        /\ todo' = [todo EXCEPT ![t] = @ \ {k}]
        /\ UNCHANGED <<files, disturbances, active, event, lock, req, settings, key, snap>>
        /\ UNCHANGED <<rolled, reply, committed, before, unrestored, disturbed>>
    BY <1>2 DEF ApplySetting, world, ghosts
  <2>3. k \in ExecutorKeys /\ k \in todo[t] /\ k \in DOMAIN settings[t]
        /\ settings[t][k] \in Texts /\ hw[k] \in HwStates(k)
    BY <1>0 DEF TypeOK, IsHw
  <2> HIDE DEF k
  <2>4. /\ IsHw(hw)' /\ hw'[k] = o.hw
        /\ \A j \in ExecutorKeys \ {k} : hw'[j] = hw[j]
    <3>1. /\ IsHw([hw EXCEPT ![k] = o.hw])
          /\ [hw EXCEPT ![k] = o.hw][k] = o.hw
          /\ \A j \in ExecutorKeys \ {k} : [hw EXCEPT ![k] = o.hw][j] = hw[j]
      <4>1. IsHw(hw)
        BY DEF TypeOK
      <4> HIDE DEF Inv
      <4> QED
        BY <2>1, <2>3, <4>1, ApplyKeepsHw
    <3>2. IsHw(hw') <=> IsHw(hw)'
      BY DEF IsHw
    <3> QED
      BY <2>1, <3>1, <3>2
  <2>5. o.hw \in Accepts(k, settings[t][k])
    BY <2>1, <2>3, AcceptsOutcome
  <2>6. applied'[t] = applied[t] \cup {k} /\ todo'[t] = todo[t] \ {k}
    BY <2>2 DEF TypeOK
  <2>7. TypeOK'
    <3>1. /\ applied' \in [Threads -> SUBSET ExecutorKeys]
          /\ todo' \in [Threads -> SUBSET Keys]
      BY <2>2, <2>3 DEF TypeOK
    <3>2. (\A u \in Threads : IsHw(before[u]))'
      BY <2>2 DEF TypeOK, IsHw
    <3> QED
      BY <2>2, <2>4, <3>1, <3>2 DEF TypeOK
  <2>8. Mutex'
    BY <1>0, <2>2, StillLocked DEF Critical
  <2>9. pc'[t] = "next" /\ \A u \in Threads \ {t} : ~InSwitch(u)' /\ pc'[u] = pc[u]
    BY <1>0, <2>2, Alone DEF Critical
  <2>10. Prologue'
    BY <2>2, <2>9, <1>0 DEF Prologue, TypeOK
  <2>11. Books(t)'
    <3>1. ASSUME NEW j \in applied'[t] \ unrestored'[t]
          PROVE  Restores(j, snap'[t][j], before'[t][j])
      BY <1>0, <2>2, <2>6, <3>1 DEF Books, k
    <3> QED
      BY <1>0, <2>2, <2>3, <2>6, <2>9, <3>1 DEF Books, Restores, Accepts
  <2>12. Hardware(t)'
    <3>1. ASSUME NEW j \in ExecutorKeys \ (applied'[t] \cup rolled'[t] \cup disturbed'[t])
          PROVE  hw'[j] = before'[t][j]
      BY <1>0, <2>2, <2>4, <2>6, <3>1 DEF Hardware
    <3>2. rolled'[t] = {}
      BY <1>0, <2>2 DEF Books
    <3>3. ASSUME NEW j \in applied'[t] \ disturbed'[t]
          PROVE  hw'[j] \in Accepts(j, settings'[t][j])
      <4>1. CASE j = k
        BY <2>2, <2>4, <2>5, <4>1
      <4>2. CASE j # k
        <5>1. j \in applied[t] \ disturbed[t] /\ j \in ExecutorKeys
          BY <2>2, <2>6, <3>3, <4>2 DEF TypeOK
        <5> QED
          BY <1>0, <2>2, <2>4, <4>2, <5>1 DEF Hardware
      <4> QED
        BY <4>1, <4>2
    <3> QED
      BY <3>1, <3>2, <3>3 DEF Hardware, Accepts
  <2> QED
    BY <2>7, <2>8, <2>9, <2>10, <2>11, <2>12
<1> QED
  BY <1>1, <1>2

(* One turn of the rollback loop, whatever Apply answers.                  *)
LEMMA RollBackInv ==
  ASSUME Inv, NEW t \in Threads, RollBack(t)
  PROVE  Inv'
<1> USE DEF Inv
<1>0. pc[t] = "rollback" /\ Books(t) /\ Hardware(t)
  BY DEF RollBack, InSwitch
<1>1. PICK k \in applied[t] :
        /\ \E o \in ApplyOutcomes(k, snap[t][k], hw[k]) :
             /\ hw' = [hw EXCEPT ![k] = o.hw]
             /\ unrestored' = [unrestored EXCEPT ![t] = IF o.ok THEN @ ELSE @ \cup {k}]
        /\ applied' = [applied EXCEPT ![t] = @ \ {k}]
        /\ rolled' = [rolled EXCEPT ![t] = @ \cup {k}]
  BY DEF RollBack
<1>2. PICK o \in ApplyOutcomes(k, snap[t][k], hw[k]) :
        /\ hw' = [hw EXCEPT ![k] = o.hw]
        /\ unrestored' = [unrestored EXCEPT ![t] = IF o.ok THEN @ ELSE @ \cup {k}]
  BY <1>1
<1>3. /\ UNCHANGED <<files, disturbances, active, event, lock, pc, req, settings, todo, key>>
      /\ UNCHANGED <<snap, reply, committed, before, disturbed>>
  BY DEF RollBack, world
<1>4. k \in ExecutorKeys /\ k \in Keys /\ snap[t][k] \in Texts /\ hw[k] \in HwStates(k)
  <2>1. k \in ExecutorKeys /\ k \in Keys
    BY KeysAssumption DEF TypeOK
  <2>2. snap[t] \in [Keys -> Texts]
    BY DEF TypeOK
  <2>3. hw[k] \in HwStates(k)
    BY <2>1 DEF TypeOK, IsHw
  <2> QED
    BY <2>1, <2>2, <2>3
<1>5. /\ IsHw(hw)' /\ hw'[k] = o.hw
      /\ \A j \in ExecutorKeys \ {k} : hw'[j] = hw[j]
  <2>1. /\ IsHw([hw EXCEPT ![k] = o.hw])
        /\ [hw EXCEPT ![k] = o.hw][k] = o.hw
        /\ \A j \in ExecutorKeys \ {k} : [hw EXCEPT ![k] = o.hw][j] = hw[j]
    <3>1. IsHw(hw)
      BY DEF TypeOK
    <3> HIDE DEF Inv
    <3> QED
      BY <1>4, <3>1, ApplyKeepsHw
  <2>2. IsHw(hw') <=> IsHw(hw)'
    BY DEF IsHw
  <2> QED
    BY <1>2, <2>1, <2>2
<1>6. /\ applied'[t] = applied[t] \ {k}
      /\ rolled'[t] = rolled[t] \cup {k}
      /\ unrestored'[t] = IF o.ok THEN unrestored[t] ELSE unrestored[t] \cup {k}
  BY <1>1, <1>2 DEF TypeOK
<1>7. TypeOK'
  <2>1. /\ applied' \in [Threads -> SUBSET ExecutorKeys]
        /\ rolled' \in [Threads -> SUBSET ExecutorKeys]
    BY <1>1, <1>4 DEF TypeOK
  <2>2. unrestored' \in [Threads -> SUBSET ExecutorKeys]
    BY <1>2, <1>4 DEF TypeOK
  <2>3. (\A u \in Threads : IsHw(before[u]))'
    BY <1>3 DEF TypeOK, IsHw
  <2> QED
    BY <1>3, <1>5, <2>1, <2>2, <2>3 DEF TypeOK
<1>8. Mutex'
  BY <1>3 DEF Mutex
<1>9. \A u \in Threads \ {t} : ~InSwitch(u)' /\ pc'[u] = pc[u] /\ pc[u] \notin Critical
  BY <1>0, <1>3 DEF Mutex, InSwitch, Critical
<1>10. Prologue'
  BY <1>0, <1>1, <1>3 DEF Prologue, TypeOK
<1>11. Books(t)'
  <2>1. ASSUME NEW j \in applied'[t] \ unrestored'[t]
        PROVE  Restores(j, snap'[t][j], before'[t][j])
    BY <1>0, <1>3, <1>6, <2>1 DEF Books
  <2> QED
    BY <1>0, <1>3, <1>6, <2>1 DEF Books, Restores, Accepts
<1>12. Hardware(t)'
  <2>1. ASSUME NEW j \in ExecutorKeys \ (applied'[t] \cup rolled'[t] \cup disturbed'[t])
        PROVE  hw'[j] = before'[t][j]
    BY <1>0, <1>3, <1>5, <1>6, <2>1 DEF Hardware
  <2>2. ASSUME NEW j \in rolled'[t] \ (unrestored'[t] \cup disturbed'[t])
        PROVE  hw'[j] = before'[t][j]
    <3>1. CASE j = k
      <4>1. o.ok /\ k \notin unrestored[t]
        BY <1>6, <2>2, <3>1
      <4>2. o.hw \in Accepts(k, snap[t][k])
        BY <1>4, <4>1, AcceptsOutcome
      <4>3. Restores(k, snap[t][k], before[t][k])
        BY <1>0, <4>1 DEF Books
      <4> QED
        BY <1>3, <1>5, <3>1, <4>2, <4>3 DEF Restores
    <3>2. CASE j # k
      <4>1. j \in rolled[t] \ (unrestored[t] \cup disturbed[t]) /\ j \in ExecutorKeys
        BY <1>3, <1>6, <2>2, <3>2 DEF TypeOK
      <4> QED
        BY <1>0, <1>3, <1>5, <3>2, <4>1 DEF Hardware
    <3> QED
      BY <3>1, <3>2
  <2> QED
    BY <1>0, <1>3, <2>1, <2>2 DEF Hardware
<1> QED
  BY <1>7, <1>8, <1>9, <1>10, <1>11, <1>12

(* The steps that end the loop.                                            *)
LEMMA FinishInv ==
  ASSUME Inv, NEW t \in Threads,
         \/ ProfileNotFound(t) \/ GetThrows(t) \/ SwitchFails(t) \/ SetActiveId(t)
         \/ SwitchSucceeds(t)
  PROVE  Inv'
<1> USE DEF Inv
<1>1. CASE ProfileNotFound(t)
  <2>1. pc[t] \in Critical /\ event' = event
    BY <1>1 DEF ProfileNotFound, Critical
  <2> QED
    BY <1>1, <2>1, ReturnInv DEF ProfileNotFound, TypeOK
<1>5. CASE GetThrows(t)
  <2>1. pc[t] \in Critical /\ event' = event
    BY <1>5 DEF GetThrows, Critical
  <2> QED
    BY <1>5, <2>1, ReturnInv DEF GetThrows, TypeOK
<1>2. CASE SwitchFails(t)
  <2>1. pc[t] \in Critical /\ req[t] \in Ids
    BY <1>2 DEF SwitchFails, Critical, Prologue
  <2> QED
    BY <1>2, <2>1, ReturnInv DEF SwitchFails
<1>3. CASE SwitchSucceeds(t)
  <2>1. pc[t] \in Critical /\ req[t] \in Ids
    BY <1>3 DEF SwitchSucceeds, Critical, Prologue
  <2> QED
    BY <1>3, <2>1, ReturnInv DEF SwitchSucceeds
<1>4. CASE SetActiveId(t)
  <2>0. pc[t] = "next" /\ Books(t) /\ Hardware(t) /\ todo[t] = {} /\ req[t] \in Ids
    BY <1>4 DEF SetActiveId, InSwitch, Prologue
  <2>1. pc' = [pc EXCEPT ![t] = "announce"]
    BY <1>4 DEF SetActiveId
  <2>2. /\ UNCHANGED <<files, disturbances, hw, event, lock, req, settings, todo, key>>
        /\ UNCHANGED <<snap, applied, rolled, reply, before, unrestored, disturbed>>
    BY <1>4 DEF SetActiveId, world, locals, ghosts
  <2>3. TypeOK'
    <3>1. active' \in Ids \cup {NoId} /\ committed' \in Ids \cup {NoId}
      BY <1>4, <2>0 DEF SetActiveId, TypeOK
    <3> QED
      BY <2>1, <2>2, <3>1 DEF TypeOK, IsHw
  <2>4. Mutex'
    BY <2>0, <2>1, <2>2, StillLocked DEF Critical
  <2>5. Prologue'
    BY <2>0, <2>1, <2>2 DEF Prologue, TypeOK
  <2>6. pc'[t] = "announce" /\ \A u \in Threads \ {t} : ~InSwitch(u)'
    BY <2>0, <2>1, Alone DEF Critical
  <2>7. Books(t)' /\ Hardware(t)'
    BY <2>0, <2>2, <2>6 DEF Books, Hardware
  <2> QED
    BY <2>3, <2>4, <2>5, <2>6, <2>7
<1> QED
  BY <1>1, <1>2, <1>3, <1>4, <1>5

(* What happens outside the service, and its crash.                        *)
LEMMA EnvironmentInv ==
  ASSUME Inv, Environment
  PROVE  Inv'
<1> USE DEF Inv
<1>1. ASSUME NEW k \in ExecutorKeys, HardwareChanges(k) PROVE Inv'
  <2>1. PICK h \in HwStates(k) : hw' = [hw EXCEPT ![k] = h]
    BY <1>1 DEF HardwareChanges
  <2>2. /\ disturbed' = [t \in Threads |-> disturbed[t] \cup {k}]
        /\ disturbances' = disturbances + 1
        /\ UNCHANGED <<files, active, event, lock, pc, req, settings, todo, key, snap, applied>>
        /\ UNCHANGED <<rolled, reply, committed, before, unrestored>>
    BY <1>1 DEF HardwareChanges, locals
  <2>3. IsHw(hw)' /\ \A j \in ExecutorKeys \ {k} : hw'[j] = hw[j]
    BY <2>1 DEF TypeOK, IsHw
  <2>4. TypeOK'
    <3>1. disturbed' \in [Threads -> SUBSET ExecutorKeys]
      BY <2>2 DEF TypeOK
    <3>2. (\A u \in Threads : IsHw(before[u]))'
      BY <2>2 DEF TypeOK, IsHw
    <3>3. disturbances' \in Nat
      <4>1. disturbances \in Nat
        BY DEF TypeOK
      <4>2. disturbances' = disturbances + 1
        BY <2>2
      <4> QED
        BY ONLY <4>1, <4>2
    <3> QED
      BY <2>2, <2>3, <3>1, <3>2, <3>3 DEF TypeOK
  <2>5. Mutex' /\ Prologue'
    BY <2>2 DEF Mutex, Prologue
  <2>6. ASSUME NEW t \in Threads, InSwitch(t)' PROVE Books(t)' /\ Hardware(t)'
    <3>1. InSwitch(t) /\ Books(t) /\ Hardware(t)
      BY <2>2, <2>6 DEF InSwitch
    <3>2. Books(t)'
      BY <2>2, <3>1 DEF Books
    <3>3. disturbed'[t] = disturbed[t] \cup {k}
      BY <2>2
    <3>4. applied[t] \subseteq ExecutorKeys /\ rolled[t] \subseteq ExecutorKeys
      BY DEF TypeOK
    <3>5. Hardware(t)'
      BY <2>2, <2>3, <3>1, <3>3, <3>4 DEF Hardware
    <3> QED
      BY <3>2, <3>5
  <2> QED
    BY <2>4, <2>5, <2>6
<1>2. ASSUME NEW id \in Ids, FileChanges(id) PROVE Inv'
  <2>1. /\ UNCHANGED <<active, hw, event, lock, pc, req, settings, todo, key, snap, applied>>
        /\ UNCHANGED <<rolled, reply, committed, before, unrestored, disturbed>>
        /\ disturbances' = disturbances + 1
    BY <1>2 DEF FileChanges, locals, ghosts
  <2>2. files' \in [Ids -> Files]
    BY <1>2 DEF FileChanges, TypeOK
  <2>3. TypeOK'
    <3>1. disturbances' \in Nat
      <4>1. disturbances \in Nat
        BY DEF TypeOK
      <4>2. disturbances' = disturbances + 1
        BY <2>1
      <4> QED
        BY ONLY <4>1, <4>2
    <3>2. IsHw(hw)' /\ (\A u \in Threads : IsHw(before[u]))'
      BY <2>1 DEF TypeOK, IsHw
    <3> QED
      BY <2>1, <2>2, <3>1, <3>2 DEF TypeOK
  <2>4. Mutex' /\ Prologue'
    BY <2>1 DEF Mutex, Prologue
  <2>5. ASSUME NEW t \in Threads, InSwitch(t)' PROVE Books(t)' /\ Hardware(t)'
    <3>1. InSwitch(t) /\ Books(t) /\ Hardware(t)
      BY <2>1, <2>5 DEF InSwitch
    <3> QED
      BY <2>1, <3>1 DEF Books, Hardware
  <2> QED
    BY <2>3, <2>4, <2>5
<1>3. CASE Crash
  <2>1. TypeOK'
    <3>1. disturbances' \in Nat
      <4>1. disturbances \in Nat
        BY DEF TypeOK
      <4>2. disturbances' = disturbances + 1
        BY <1>3 DEF Crash
      <4> QED
        BY ONLY <4>1, <4>2
    <3>2. IsHw(hw)' /\ (\A u \in Threads : IsHw(before[u]))'
      BY <1>3 DEF Crash, TypeOK, IsHw, ghosts
    <3>3. snap' \in [Threads -> [Keys -> Texts]]
      BY <1>3, TextsAssumption DEF Crash
    <3>4. /\ todo' \in [Threads -> SUBSET Keys]
          /\ applied' \in [Threads -> SUBSET ExecutorKeys]
          /\ rolled' \in [Threads -> SUBSET ExecutorKeys]
          /\ key' \in [Threads -> Nat]
      BY <1>3 DEF Crash
    <3> QED
      BY <1>3, <3>1, <3>2, <3>3, <3>4 DEF Crash, TypeOK, ghosts
  <2>2. Mutex' /\ Prologue'
    BY <1>3, NoIdAssumption DEF Crash, Mutex, Prologue, Critical
  <2>3. \A t \in Threads : ~InSwitch(t)'
    BY <1>3 DEF Crash, InSwitch
  <2> QED
    BY <2>1, <2>2, <2>3
<1> QED
  BY <1>1, <1>2, <1>3 DEF Environment

(* Every step of the service keeps the invariant.                          *)
LEMMA NextInv == Inv /\ [Next]_vars => Inv'
<1> SUFFICES ASSUME Inv, [Next]_vars PROVE Inv'
  OBVIOUS
<1>1. ASSUME NEW t \in Threads,
             InTransaction(t) \/ Lock(t) \/ \E id \in Ids : SwitchProfile(t, id)
      PROVE  Inv'
  BY <1>1, EnterInv, BeforeApplyInv, ApplyInv, RollBackInv, FinishInv DEF InTransaction
<1>2. CASE UNCHANGED vars
  <2>1. /\ UNCHANGED <<files, disturbances, active, hw, event, lock, pc, req, settings, todo>>
        /\ UNCHANGED <<key, snap, applied, rolled, reply, committed, before, unrestored>>
        /\ UNCHANGED disturbed
    BY <1>2 DEF vars, world, locals, ghosts
  <2>2. TypeOK' /\ Mutex' /\ Prologue'
    BY <2>1 DEF Inv, TypeOK, IsHw, Mutex, Prologue
  <2>3. ASSUME NEW t \in Threads, InSwitch(t)' PROVE Books(t)' /\ Hardware(t)'
    <3>1. Books(t) /\ Hardware(t)
      BY <2>1, <2>3 DEF Inv, InSwitch
    <3> QED
      BY <2>1, <3>1 DEF Books, Hardware
  <2> QED
    BY <2>2, <2>3 DEF Inv
<1> QED
  BY <1>1, <1>2 DEF Next

(* The invariant holds in every run, crashes and interference included.    *)
THEOREM InvHolds == FaultySpec => []Inv
<1>1. Inv /\ [Next \/ Environment]_vars => Inv'
  BY NextInv, EnvironmentInv
<1> QED
  BY InitInv, <1>1, PTL DEF FaultySpec

(* The transaction's state is well typed in every run, with crashes,       *)
(* changed files and changed hardware.                                     *)
THEOREM TypeCorrect == FaultySpec => []TypeOK
  BY InvHolds, PTL DEF Inv

(* A failed switch leaves every key as it found it, except where others    *)
(* interfered or the executor could not do it: SwitchTo's rollback.        *)
THEOREM RollbackCorrect == FaultySpec => []RollbackRestores
<1>1. Inv => RollbackRestores
  BY DEF Inv, InSwitch, Hardware, RollbackRestores
<1> QED
  BY <1>1, InvHolds, PTL

(* A failed switch reports every key that it leaves changed.               *)
THEOREM ChangesReported == FaultySpec => []ChangesAreReported
<1>1. Inv => ChangesAreReported
  BY DEF Inv, InSwitch, Hardware, ChangesAreReported
<1> QED
  BY <1>1, InvHolds, PTL

(* A profile becomes active only with all of its settings in force and     *)
(* nothing else touched.                                                   *)
THEOREM CommitCorrect == FaultySpec => []CommitInEffect
<1>1. Inv => CommitInEffect
  <2> SUFFICES ASSUME Inv, NEW t \in Threads, pc[t] = "announce",
                      NEW k \in ExecutorKeys \ disturbed[t]
               PROVE  IF k \in DOMAIN settings[t] THEN hw[k] \in Accepts(k, settings[t][k])
                                                  ELSE hw[k] = before[t][k]
    BY DEF CommitInEffect
  <2>1. Books(t) /\ Hardware(t)
    BY DEF Inv, InSwitch
  <2>2. applied[t] = DOMAIN settings[t] /\ rolled[t] = {}
    BY <2>1 DEF Books
  <2> QED
    BY <2>1, <2>2 DEF Hardware
<1> QED
  BY <1>1, InvHolds, PTL

(* The thread that has committed and not announced yet is the last one     *)
(* that committed.                                                         *)
Announced ==
  /\ \A t \in Threads : pc[t] = "announce" => committed = req[t]
  /\ (\A t \in Threads : pc[t] # "announce") /\ event.level = "info" => event.id = committed

(* Only SetActiveId commits, and only its own thread can follow it with    *)
(* an event: the mutex is held in between.                                 *)
LEMMA AnnouncedNext ==
  ASSUME Inv, Announced, [Next \/ Environment]_vars
  PROVE  Announced'
<1>1. ASSUME NEW t \in Threads, SetActiveId(t) PROVE Announced'
  <2>1. /\ pc[t] = "next" /\ pc' = [pc EXCEPT ![t] = "announce"] /\ committed' = req[t]
        /\ req' = req
    BY <1>1 DEF SetActiveId, locals
  <2>2. pc'[t] = "announce" /\ \A u \in Threads \ {t} : pc'[u] # "announce"
    BY <2>1, Alone DEF Critical
  <2> QED
    BY <2>1, <2>2 DEF Announced
<1>2. ASSUME NEW t \in Threads, SwitchSucceeds(t) PROVE Announced'
  <2>1. /\ pc[t] = "announce" /\ pc' = [pc EXCEPT ![t] = "idle"] /\ committed' = committed
        /\ event' = [level |-> "info", id |-> req[t]]
    BY <1>2 DEF SwitchSucceeds, Return
  <2>2. pc'[t] = "idle" /\ \A u \in Threads \ {t} : pc'[u] # "announce"
    BY <2>1, Alone DEF Critical
  <2> QED
    BY <2>1, <2>2 DEF Announced
<1>3. ASSUME NEW t \in Threads, SwitchFails(t) \/ ProfileNotFound(t) \/ GetThrows(t)
      PROVE  Announced'
  <2>1. /\ pc[t] \in {"rollback", "get"} /\ pc' = [pc EXCEPT ![t] = "idle"]
        /\ committed' = committed
        /\ event' = event \/ event' = [level |-> "error", id |-> req[t]]
    BY <1>3 DEF SwitchFails, ProfileNotFound, GetThrows, Return
  <2>2. pc'[t] = "idle" /\ \A u \in Threads : pc'[u] # "announce" /\ pc[u] # "announce"
    BY <2>1, Alone DEF Critical
  <2> QED
    BY <2>1, <2>2 DEF Announced
<1>4. ASSUME NEW t \in Threads,
             \/ GetProfile(t) \/ NoExecutor(t) \/ Snapshot(t) \/ ApplySetting(t) \/ ApplyFails(t)
             \/ RollBack(t)
      PROVE  Announced'
  <2>1. /\ pc[t] \in {"get", "next", "apply", "rollback"}
        /\ \E x \in {"next", "rollback", "apply"} : pc' = [pc EXCEPT ![t] = x]
    <3>1. CASE GetProfile(t) \/ ApplySetting(t)
      BY <3>1 DEF GetProfile, ApplySetting
    <3>2. CASE Snapshot(t)
      BY <3>2 DEF Snapshot
    <3>3. CASE NoExecutor(t) \/ ApplyFails(t)
      BY <3>3 DEF NoExecutor, ApplyFails
    <3>4. CASE RollBack(t)
      <4>1. pc[t] = "rollback" /\ pc' = pc /\ pc = [u \in Threads |-> pc[u]]
        BY <3>4 DEF RollBack, Inv, TypeOK
      <4>2. pc' = [pc EXCEPT ![t] = "rollback"]
        BY <4>1
      <4> QED
        BY <4>1, <4>2
    <3> QED
      BY <1>4, <3>1, <3>2, <3>3, <3>4
  <2>2. \A u \in Threads : pc'[u] # "announce" /\ pc[u] # "announce"
    BY <2>1, Alone DEF Critical
  <2>3. UNCHANGED <<committed, event>>
    BY <1>4 DEF GetProfile, NoExecutor, Snapshot, ApplySetting, ApplyFails, RollBack
  <2> QED
    BY <2>2, <2>3 DEF Announced
<1>5. ASSUME NEW t \in Threads, Lock(t) \/ \E id \in Ids : SwitchProfile(t, id) PROVE Announced'
  <2>1. /\ \A u \in Threads : pc'[u] = "announce" <=> pc[u] = "announce"
        /\ \A u \in Threads : pc[u] = "announce" => req'[u] = req[u]
        /\ UNCHANGED <<committed, event>>
    BY <1>5 DEF Lock, SwitchProfile, locals, Inv, TypeOK
  <2> QED
    BY <2>1 DEF Announced
<1>6. CASE Environment
  <2>1. CASE Crash
    BY <2>1 DEF Crash, Announced
  <2>2. CASE ~Crash
    BY <1>6, <2>2 DEF Environment, HardwareChanges, FileChanges, locals, Announced
  <2> QED
    BY <2>1, <2>2
<1>7. CASE UNCHANGED vars
  BY <1>7 DEF vars, locals, Announced
<1> QED
  BY <1>1, <1>2, <1>3, <1>4, <1>5, <1>6, <1>7 DEF Next, InTransaction

(* Whenever no switch is under way, the last "Profile applied" event names *)
(* the profile that was applied last, for every number of threads and      *)
(* through crashes: what clients are told comes in the order of commits.   *)
THEOREM EventsFollowCommits == FaultySpec => []EventsInCommitOrder
<1>1. Init => Announced
  BY DEF Init, Announced
<1>2. Inv /\ Announced /\ [Next \/ Environment]_vars => Announced'
  BY AnnouncedNext
<1>3. Announced => EventsInCommitOrder
  BY DEF Announced, EventsInCommitOrder, InSwitch
<1> QED
  BY <1>1, <1>2, <1>3, InvHolds, PTL DEF FaultySpec

-----------------------------------------------------------------------------
(* The books of a transaction whose executors restore what they can set:   *)
(* every snapshot stands for the state that the transaction found, and a   *)
(* key is there still, or again, or where the profile put it.              *)
CleanBooks(t) ==
  /\ \A k \in unrestored[t] : ~Settable(k, before[t][k])
  /\ todo[t] \cap applied[t] = {}
  /\ \A k \in applied[t] : snap[t][k] \in ReadOutcomes(k, before[t][k])
  /\ pc[t] = "apply" => snap[t][key[t]] \in ReadOutcomes(key[t], before[t][key[t]])
  /\ \A k \in applied[t] \cup rolled[t] :
       k \in DOMAIN settings[t] /\ hw[k] \in {before[t][k]} \cup Accepts(k, settings[t][k])

Clean ==
  /\ \A t \in Threads : disturbed[t] = {}
  /\ \A t \in Threads : InSwitch(t) => CleanBooks(t)

(* A rollback to a snapshot brings the state back, or is refused and does  *)
(* nothing, because that state cannot be set.                              *)
LEMMA RollBackOutcome ==
  ASSUME Restorable, NEW k \in ExecutorKeys, NEW h \in HwStates(k),
         NEW text \in ReadOutcomes(k, h), NEW g \in HwStates(k),
         NEW o \in ApplyOutcomes(k, text, g)
  PROVE  \/ o.ok /\ o.hw = h
         \/ ~o.ok /\ o.hw = g /\ ~Settable(k, h)
<1>1. CASE Settable(k, h)
  BY <1>1 DEF Restorable, RestorableAt, CanRestore
<1>2. CASE ~Settable(k, h)
  <2>1. ~o.ok
    BY <1>2 DEF Restorable, RestorableAt, CannotRestore
  <2>2. text \in Texts
    BY ReadAssumption
  <2>3. o.hw = g
    BY <2>1, <2>2, ApplyAssumption
  <2> QED
    BY <1>2, <2>1, <2>3
<1> QED
  BY <1>1, <1>2

LEMMA SnapshotRestores ==
  ASSUME Restorable, NEW k \in ExecutorKeys, NEW h \in HwStates(k),
         NEW text \in ReadOutcomes(k, h)
  PROVE  Restores(k, text, h)
  BY RollBackOutcome DEF Restores, Accepts

(* The service's own steps keep the books clean.                           *)
LEMMA CleanNext ==
  ASSUME Restorable, Inv, Clean, [Next]_vars
  PROVE  Clean'
<1>1. ASSUME NEW t \in Threads, pc[t] \in Critical, NEW x, pc' = [pc EXCEPT ![t] = x],
             UNCHANGED disturbed, x \in {"next", "apply", "rollback", "announce"} => CleanBooks(t)'
      PROVE  Clean'
  <2>1. pc'[t] = x /\ \A u \in Threads \ {t} : ~InSwitch(u)'
    BY <1>1, Alone
  <2>2. \A u \in Threads : disturbed'[u] = {}
    BY <1>1 DEF Clean
  <2>3. InSwitch(t)' => CleanBooks(t)'
    BY <1>1, <2>1 DEF InSwitch
  <2> QED
    BY <2>1, <2>2, <2>3 DEF Clean
<1>2. ASSUME NEW t \in Threads, NEW id \in Ids, SwitchProfile(t, id) PROVE Clean'
  <2>1. \A u \in Threads : InSwitch(u)' => InSwitch(u) /\ pc'[u] = pc[u]
    BY <1>2 DEF SwitchProfile, InSwitch, Inv, TypeOK
  <2> QED
    BY <1>2, <2>1 DEF SwitchProfile, Clean, CleanBooks, ghosts
<1>3. ASSUME NEW t \in Threads, Lock(t) PROVE Clean'
  <2>1. \A u \in Threads : InSwitch(u)' => InSwitch(u) /\ pc'[u] = pc[u]
    BY <1>3 DEF Lock, InSwitch, Inv, TypeOK
  <2> QED
    BY <1>3, <2>1 DEF Lock, Clean, CleanBooks, ghosts, locals
<1>4. ASSUME NEW t \in Threads, NEW r, Return(t, r), pc[t] \in Critical, UNCHANGED ghosts
      PROVE  Clean'
  BY <1>1, <1>4 DEF Return, ghosts
<1>5. ASSUME NEW t \in Threads, GetProfile(t) PROVE Clean'
  <2>1. pc[t] = "get" /\ pc' = [pc EXCEPT ![t] = "next"] /\ applied'[t] = {}
        /\ rolled'[t] = {}
    BY <1>5 DEF GetProfile, Inv, Prologue
  <2>2. unrestored'[t] = {} /\ \A u \in Threads : disturbed'[u] = {}
    BY <1>5 DEF GetProfile, Inv, TypeOK, Clean
  <2>3. pc'[t] = "next" /\ \A u \in Threads \ {t} : ~InSwitch(u)'
    BY <2>1, Alone DEF Critical
  <2> QED
    BY <2>1, <2>2, <2>3 DEF Clean, CleanBooks
<1>6. ASSUME NEW t \in Threads, NoExecutor(t) \/ ApplyFails(t) \/ SetActiveId(t) PROVE Clean'
  <2>1. InSwitch(t) /\ pc[t] \in Critical /\ CleanBooks(t)
    BY <1>6 DEF NoExecutor, ApplyFails, SetActiveId, InSwitch, Critical, Clean
  <2>2. PICK x \in {"rollback", "announce"} : pc' = [pc EXCEPT ![t] = x]
    BY <1>6 DEF NoExecutor, ApplyFails, SetActiveId
  <2>3. /\ UNCHANGED <<snap, key, todo, applied, before, unrestored, disturbed>>
        /\ UNCHANGED <<hw, rolled, settings>>
    BY <1>6 DEF NoExecutor, ApplyFails, SetActiveId, locals, ghosts
  <2>4. pc'[t] = x
    BY <2>1, <2>2, Alone
  <2> QED
    BY <1>1, <2>1, <2>2, <2>3, <2>4 DEF CleanBooks
<1>7. ASSUME NEW t \in Threads, Snapshot(t) PROVE Clean'
  <2>1. /\ pc[t] = "next" /\ CleanBooks(t) /\ Books(t) /\ Hardware(t) /\ disturbed[t] = {}
        /\ pc' = [pc EXCEPT ![t] = "apply"]
        /\ UNCHANGED <<todo, applied, before, disturbed, hw, rolled, settings>>
    BY <1>7 DEF Snapshot, InSwitch, Clean, Inv
  <2>2. PICK k \in ExecutorKeys :
          /\ k \in todo[t]
          /\ key' = [key EXCEPT ![t] = k]
          /\ \E text \in ReadOutcomes(k, hw[k]) :
               /\ snap' = [snap EXCEPT ![t][k] = text]
               /\ unrestored' = [unrestored EXCEPT ![t] =
                    IF Restores(k, text, before[t][k]) THEN @ ELSE @ \cup {k}]
    BY <1>7 DEF Snapshot, IsFirst
  <2>3. PICK text \in ReadOutcomes(k, hw[k]) :
               /\ snap' = [snap EXCEPT ![t][k] = text]
               /\ unrestored' = [unrestored EXCEPT ![t] =
                    IF Restores(k, text, before[t][k]) THEN @ ELSE @ \cup {k}]
    BY <2>2
  <2>4. hw[k] = before[t][k] /\ k \notin applied[t]
    BY <2>1, <2>2 DEF CleanBooks, Books, Hardware
  <2>5. Restores(k, text, before[t][k])
    <3>1. before[t][k] \in HwStates(k)
      BY DEF Inv, TypeOK, IsHw
    <3> QED
      BY <2>3, <2>4, <3>1, SnapshotRestores
  <2>6. unrestored'[t] = unrestored[t] /\ key'[t] = k
    BY <2>1, <2>2, <2>3, <2>5 DEF Inv, TypeOK
  <2>7. k \in Keys /\ snap \in [Threads -> [Keys -> Texts]]
    BY KeysAssumption DEF Inv, TypeOK
  <2>8. snap'[t][k] = text /\ \A j \in Keys \ {k} : snap'[t][j] = snap[t][j]
    BY <2>3, <2>7
  <2>9. applied[t] \subseteq Keys
    BY KeysAssumption DEF Inv, TypeOK
  <2>10. CleanBooks(t)'
    BY <2>1, <2>3, <2>4, <2>6, <2>8, <2>9 DEF CleanBooks
  <2> QED
    BY <1>1, <2>1, <2>10 DEF Critical
<1>8. ASSUME NEW t \in Threads, ApplySetting(t) PROVE Clean'
  <2> DEFINE k == key[t]
  <2>1. /\ pc[t] = "apply" /\ CleanBooks(t) /\ Books(t)
        /\ pc' = [pc EXCEPT ![t] = "next"]
        /\ UNCHANGED <<snap, key, before, unrestored, disturbed, rolled, settings>>
    BY <1>8 DEF ApplySetting, InSwitch, Clean, Inv, ghosts
  <2>2. applied'[t] = applied[t] \cup {k} /\ todo'[t] = todo[t] \ {k}
    BY <1>8 DEF ApplySetting, Inv, TypeOK
  <2>3. pc'[t] = "next"
    BY <2>1 DEF Inv, TypeOK
  <2>5. PICK o \in ApplyOutcomes(k, settings[t][k], hw[k]) :
          o.ok /\ hw' = [hw EXCEPT ![k] = o.hw]
    BY <1>8 DEF ApplySetting
  <2>6. k \in ExecutorKeys /\ k \in DOMAIN settings[t] /\ settings[t][k] \in Texts
    BY <2>1, ContentsAssumption DEF Books
  <2> HIDE DEF k
  <2>7. hw[k] \in HwStates(k) /\ IsHw(hw)
    BY <2>6 DEF Inv, TypeOK, IsHw
  <2>8. hw'[k] = o.hw /\ \A j \in ExecutorKeys \ {k} : hw'[j] = hw[j]
    BY <2>5, <2>6, <2>7, ApplyKeepsHw
  <2>9. o.hw \in Accepts(k, settings[t][k])
    BY <2>5, <2>7, AcceptsOutcome
  <2>10. applied[t] \cup rolled[t] \subseteq ExecutorKeys
    BY DEF Inv, TypeOK
  <2>11. ASSUME NEW j \in applied'[t] \cup rolled'[t]
         PROVE  /\ j \in DOMAIN settings'[t]
                /\ hw'[j] \in {before'[t][j]} \cup Accepts(j, settings'[t][j])
    <3>1. CASE j = k
      BY <2>1, <2>6, <2>8, <2>9, <3>1
    <3>2. CASE j # k
      <4>1. j \in applied[t] \cup rolled[t] /\ j \in ExecutorKeys \ {k}
        BY <2>1, <2>2, <2>10, <3>2
      <4>2. j \in DOMAIN settings[t] /\ hw[j] \in {before[t][j]} \cup Accepts(j, settings[t][j])
        BY <2>1, <4>1 DEF CleanBooks
      <4> QED
        BY <2>1, <2>8, <4>1, <4>2
    <3> QED
      BY <3>1, <3>2
  <2>12. \A j \in applied'[t] : snap'[t][j] \in ReadOutcomes(j, before'[t][j])
    BY <2>1, <2>2 DEF CleanBooks, k
  <2>13. todo'[t] \cap applied'[t] = {}
    BY <2>1, <2>2 DEF CleanBooks
  <2>4. CleanBooks(t)'
    BY <2>1, <2>3, <2>11, <2>12, <2>13 DEF CleanBooks, Accepts
  <2> QED
    BY <1>1, <2>1, <2>4 DEF Critical
<1>9. ASSUME NEW t \in Threads, RollBack(t) PROVE Clean'
  <2>1. /\ pc[t] = "rollback" /\ CleanBooks(t)
        /\ UNCHANGED <<pc, todo, snap, key, before, disturbed, settings>>
    BY <1>9 DEF RollBack, InSwitch, Clean
  <2>2. PICK k \in applied[t] :
          /\ \E o \in ApplyOutcomes(k, snap[t][k], hw[k]) :
               /\ hw' = [hw EXCEPT ![k] = o.hw]
               /\ unrestored' = [unrestored EXCEPT ![t] = IF o.ok THEN @ ELSE @ \cup {k}]
          /\ applied' = [applied EXCEPT ![t] = @ \ {k}]
          /\ rolled' = [rolled EXCEPT ![t] = @ \cup {k}]
    BY <1>9 DEF RollBack
  <2>3. PICK o \in ApplyOutcomes(k, snap[t][k], hw[k]) :
          /\ hw' = [hw EXCEPT ![k] = o.hw]
          /\ unrestored' = [unrestored EXCEPT ![t] = IF o.ok THEN @ ELSE @ \cup {k}]
    BY <2>2
  <2>4. /\ k \in ExecutorKeys /\ hw[k] \in HwStates(k) /\ before[t][k] \in HwStates(k)
        /\ IsHw(hw) /\ applied[t] \cup rolled[t] \subseteq ExecutorKeys
    BY <2>2 DEF Inv, TypeOK, IsHw
  <2>5. snap[t][k] \in ReadOutcomes(k, before[t][k]) /\ snap[t][k] \in Texts
    <3>1. snap[t][k] \in ReadOutcomes(k, before[t][k])
      BY <2>1, <2>2 DEF CleanBooks
    <3> QED
      BY <2>4, <3>1, ReadAssumption
  <2>6. \/ o.ok /\ o.hw = before[t][k]
        \/ ~o.ok /\ o.hw = hw[k] /\ ~Settable(k, before[t][k])
    BY <2>3, <2>4, <2>5, RollBackOutcome
  <2>9. hw'[k] = o.hw /\ \A j \in ExecutorKeys \ {k} : hw'[j] = hw[j]
    BY <2>3, <2>4, <2>5, ApplyKeepsHw
  <2>10. /\ unrestored'[t] = IF o.ok THEN unrestored[t] ELSE unrestored[t] \cup {k}
         /\ applied'[t] = applied[t] \ {k} /\ rolled'[t] = rolled[t] \cup {k}
    BY <2>2, <2>3 DEF Inv, TypeOK
  <2>11. \A j \in unrestored'[t] : ~Settable(j, before'[t][j])
    BY <2>1, <2>6, <2>10 DEF CleanBooks
  <2>12. ASSUME NEW j \in applied'[t] \cup rolled'[t]
         PROVE  /\ j \in DOMAIN settings'[t]
                /\ hw'[j] \in {before'[t][j]} \cup Accepts(j, settings'[t][j])
    <3>1. j \in applied[t] \cup rolled[t] /\ j \in ExecutorKeys
      BY <2>2, <2>4, <2>10
    <3>2. j \in DOMAIN settings[t] /\ hw[j] \in {before[t][j]} \cup Accepts(j, settings[t][j])
      BY <2>1, <3>1 DEF CleanBooks
    <3>3. CASE j = k
      BY <2>1, <2>6, <2>9, <3>2, <3>3
    <3>4. CASE j # k
      BY <2>1, <2>9, <3>1, <3>2, <3>4
    <3> QED
      BY <3>3, <3>4
  <2>7. CleanBooks(t)'
    BY <2>1, <2>10, <2>11, <2>12 DEF CleanBooks, Accepts
  <2>8. pc' = [pc EXCEPT ![t] = "rollback"]
    BY <2>1 DEF Inv, TypeOK
  <2> QED
    BY <1>1, <2>1, <2>7, <2>8 DEF Critical
<1>10. ASSUME NEW t \in Threads,
              ProfileNotFound(t) \/ GetThrows(t) \/ SwitchFails(t) \/ SwitchSucceeds(t)
       PROVE  Clean'
  <2>1. PICK r : Return(t, r)
    BY <1>10 DEF ProfileNotFound, GetThrows, SwitchFails, SwitchSucceeds
  <2>2. pc[t] \in Critical /\ UNCHANGED ghosts
    BY <1>10 DEF ProfileNotFound, GetThrows, SwitchFails, SwitchSucceeds, Critical
  <2> QED
    BY <1>4, <2>1, <2>2
<1>11. CASE UNCHANGED vars
  <2>1. /\ UNCHANGED <<pc, key, snap, todo, applied, before, unrestored, disturbed>>
        /\ UNCHANGED <<hw, rolled, settings>>
    BY <1>11 DEF vars, locals, ghosts
  <2> QED
    BY <2>1 DEF Clean, CleanBooks, InSwitch
<1> QED
  BY <1>2, <1>3, <1>5, <1>6, <1>7, <1>8, <1>9, <1>10, <1>11 DEF Next, InTransaction

(* The service starts with clean books.                                    *)
LEMMA CleanInit == Init => Clean
  BY DEF Init, Clean, InSwitch

(* Between GetProfile and SetActiveId, or the last step of the rollback.   *)
Undecided(t) == pc[t] \in {"next", "apply", "rollback"}

(* The visible hardware is what the one undecided transaction found.       *)
LEMMA VisibleInside ==
  ASSUME Inv, NEW t \in Threads, Undecided(t)
  PROVE  VisibleHw = before[t]
<1>1. \A u \in Threads : Undecided(u) => u = t
  BY DEF Inv, Mutex, Undecided, Critical
<1> QED
  BY <1>1 DEF VisibleHw, Undecided

LEMMA VisibleInsideNext ==
  ASSUME Inv', NEW t \in Threads, Undecided(t)'
  PROVE  VisibleHw' = before'[t]
<1>1. \A u \in Threads : Undecided(u)' => u = t
  BY DEF Inv, Mutex, Undecided, Critical
<1> QED
  BY <1>1 DEF VisibleHw, Undecided

(* Every step of the service is a step of the atomic switch, or invisible. *)
LEMMA AtomicNext ==
  ASSUME Restorable, Inv, Inv', Clean, [Next]_vars
  PROVE  [Atomic!Next]_<<VisibleHw, committed>>
<1>1. ASSUME NEW t \in Threads, Undecided(t), Undecided(t)', UNCHANGED <<before, committed>>
      PROVE  UNCHANGED <<VisibleHw, committed>>
  BY <1>1, VisibleInside, VisibleInsideNext
<1>2. ASSUME UNCHANGED <<hw, before, committed>>,
             \A u \in Threads : Undecided(u)' <=> Undecided(u)
      PROVE  UNCHANGED <<VisibleHw, committed>>
  <2>1. CASE \E u \in Threads : Undecided(u)
    <3>1. PICK u \in Threads : Undecided(u)
      BY <2>1
    <3>2. Undecided(u)'
      BY <1>2, <3>1
    <3> QED
      BY <1>1, <1>2, <3>1, <3>2
  <2>2. CASE \A u \in Threads : ~Undecided(u)
    <3>1. VisibleHw = hw
      BY <2>2 DEF VisibleHw, Undecided
    <3>2. VisibleHw' = hw'
      BY <1>2, <2>2 DEF VisibleHw, Undecided
    <3> QED
      BY <1>2, <3>1, <3>2
  <2> QED
    BY <2>1, <2>2
<1>3. ASSUME NEW t \in Threads,
             \/ Lock(t) \/ ProfileNotFound(t) \/ GetThrows(t) \/ SwitchSucceeds(t)
             \/ \E id \in Ids : SwitchProfile(t, id)
      PROVE  UNCHANGED <<VisibleHw, committed>>
  <2>1. UNCHANGED <<hw, before, committed>>
    BY <1>3 DEF Lock, ProfileNotFound, GetThrows, SwitchSucceeds, SwitchProfile, ghosts
  <2>2. ~Undecided(t) /\ \E x \in {"lock", "get", "idle"} : pc' = [pc EXCEPT ![t] = x]
    BY <1>3 DEF Lock, ProfileNotFound, GetThrows, SwitchSucceeds, SwitchProfile, Return, Undecided
  <2>3. \A u \in Threads : Undecided(u)' <=> Undecided(u)
    BY <2>2 DEF Undecided, Inv, TypeOK
  <2> QED
    BY <1>2, <2>1, <2>3
<1>4. ASSUME NEW t \in Threads,
             NoExecutor(t) \/ Snapshot(t) \/ ApplySetting(t) \/ ApplyFails(t) \/ RollBack(t)
      PROVE  UNCHANGED <<VisibleHw, committed>>
  <2>1. UNCHANGED <<before, committed>> /\ Undecided(t)
    BY <1>4 DEF NoExecutor, Snapshot, ApplySetting, ApplyFails, RollBack, ghosts, Undecided
  <2>2. Undecided(t)'
    BY <1>4 DEF NoExecutor, Snapshot, ApplySetting, ApplyFails, RollBack, Undecided, Inv, TypeOK
  <2> QED
    BY <1>1, <2>1, <2>2
<1>5. ASSUME NEW t \in Threads, pc[t] \in Critical, NEW x \in {"idle", "announce"},
             pc' = [pc EXCEPT ![t] = x]
      PROVE  VisibleHw' = hw'
  <2>1. \A u \in Threads : ~Undecided(u)'
    BY <1>5, Alone DEF Undecided, Critical
  <2> QED
    BY <2>1 DEF VisibleHw, Undecided
<1>6. ASSUME NEW t \in Threads, GetProfile(t) PROVE UNCHANGED <<VisibleHw, committed>>
  <2>1. pc[t] = "get" /\ pc' = [pc EXCEPT ![t] = "next"] /\ committed' = committed
    BY <1>6 DEF GetProfile
  <2>2. before'[t] = hw
    BY <1>6 DEF GetProfile, Inv, TypeOK
  <2>3. \A u \in Threads : ~Undecided(u)
    BY <2>1, Alone DEF Critical, Undecided
  <2>4. VisibleHw = hw
    BY <2>3 DEF VisibleHw, Undecided
  <2>5. Undecided(t)'
    BY <2>1 DEF Undecided, Inv, TypeOK
  <2> QED
    BY <2>1, <2>2, <2>4, <2>5, VisibleInsideNext
<1>7. ASSUME NEW t \in Threads, SwitchFails(t) PROVE Atomic!Next
  <2>1. /\ pc[t] = "rollback" /\ pc' = [pc EXCEPT ![t] = "idle"]
        /\ UNCHANGED <<hw, committed>> /\ applied[t] = {}
    BY <1>7 DEF SwitchFails, Return
  <2>2. Books(t) /\ Hardware(t) /\ CleanBooks(t) /\ disturbed[t] = {}
    BY <2>1 DEF Inv, InSwitch, Clean
  <2>3. ASSUME NEW k \in ExecutorKeys, hw[k] # before[t][k]
        PROVE  /\ k \in DOMAIN settings[t] /\ hw[k] \in Accepts(k, settings[t][k])
               /\ ~Settable(k, before[t][k])
    <3>1. k \in rolled[t] /\ k \in unrestored[t]
      BY <2>1, <2>2, <2>3 DEF Hardware
    <3> QED
      BY <2>2, <2>3, <3>1 DEF CleanBooks
  <2>4. hw = [k \in ExecutorKeys |-> hw[k]] /\ DOMAIN before[t] = ExecutorKeys
    BY DEF Inv, TypeOK, IsHw
  <2>5. VisibleHw = before[t]
    BY <2>1, VisibleInside DEF Undecided
  <2>6. VisibleHw' = hw
    BY <1>5, <2>1 DEF Critical
  <2>7. settings[t] \in Contents
    BY <2>2 DEF Books
  <2>8. Atomic!FailedSwitch(settings[t])
    BY <2>1, <2>3, <2>4, <2>5, <2>6 DEF Atomic!FailedSwitch
  <2> QED
    BY <2>7, <2>8 DEF Atomic!Next
<1>8. ASSUME NEW t \in Threads, SetActiveId(t) PROVE Atomic!Next
  <2>1. /\ pc[t] = "next" /\ pc' = [pc EXCEPT ![t] = "announce"]
        /\ hw' = hw /\ committed' = req[t] /\ todo[t] = {}
    BY <1>8 DEF SetActiveId
  <2>2. Books(t) /\ Hardware(t) /\ disturbed[t] = {} /\ req[t] \in Ids
    BY <2>1 DEF Inv, InSwitch, Clean, Prologue
  <2>3. /\ settings[t] \in Contents /\ applied[t] = DOMAIN settings[t] /\ rolled[t] = {}
        /\ applied[t] \subseteq ExecutorKeys
    BY <2>1, <2>2 DEF Books, Inv, TypeOK
  <2>4. VisibleHw = before[t] /\ VisibleHw' = hw
    BY <1>5, <2>1, VisibleInside DEF Critical, Undecided
  <2>5. /\ DOMAIN before[t] = ExecutorKeys
        /\ hw = [k \in ExecutorKeys |-> hw[k]]
    BY DEF Inv, TypeOK, IsHw
  <2>6. \A k \in ExecutorKeys \ DOMAIN settings[t] : hw[k] = before[t][k]
    BY <2>2, <2>3 DEF Hardware
  <2>7. \A k \in DOMAIN settings[t] : hw[k] \in Accepts(k, settings[t][k])
    BY <2>1, <2>2, <2>3 DEF Hardware
  <2>8. hw = [k \in DOMAIN before[t] |->
                IF k \in DOMAIN settings[t] THEN hw[k] ELSE before[t][k]]
    BY <2>5, <2>6
  <2>9. Atomic!SwitchTo(req[t], settings[t])
    BY <2>1, <2>3, <2>4, <2>5, <2>7, <2>8 DEF Atomic!SwitchTo
  <2> QED
    BY <2>2, <2>3, <2>9 DEF Atomic!Next
<1>9. CASE UNCHANGED vars
  <2>1. UNCHANGED <<hw, before, committed, pc>>
    BY <1>9 DEF vars, ghosts
  <2> QED
    BY <1>2, <2>1 DEF Undecided
<1> QED
  BY <1>3, <1>4, <1>6, <1>7, <1>8, <1>9 DEF Next, InTransaction

(* Whatever the number of threads, profiles, keys and executors: if each   *)
(* executor restores what it reads, SwitchTo is one atomic step.           *)
THEOREM SwitchIsAtomic ==
  ASSUME Restorable
  PROVE  Spec => SwitchesAreAtomic
<1>1. Init => Atomic!Init
  <2> SUFFICES ASSUME Init PROVE Atomic!Init
    OBVIOUS
  <2>1. VisibleHw = hw /\ hw \in InitialHw
    BY DEF Init, VisibleHw
  <2> QED
    BY <2>1 DEF Atomic!Init
<1>2. Inv /\ Clean /\ [Next]_vars => Inv' /\ Clean'
  BY NextInv, CleanNext
<1>3. Inv /\ Inv' /\ Clean /\ [Next]_vars => [Atomic!Next]_<<VisibleHw, committed>>
  BY AtomicNext
<1> QED
  BY InitInv, CleanInit, <1>1, <1>2, <1>3, PTL DEF Spec, SwitchesAreAtomic, Atomic!Spec

-----------------------------------------------------------------------------
(* Texts: what the executors print they can also read.                     *)

(* A set of naturals has a least element.                                  *)
LEMMA Least ==
  ASSUME NEW T, T \subseteq Nat, T # {}
  PROVE  \E m \in T : \A k \in T : m <= k
<1>1. PICK x \in T : \A y \in T : ~(<<y, x>> \in OpToRel(<, Nat))
  BY NatLessThanWellFounded, WFMin
<1>2. ASSUME NEW y \in T, y < x PROVE FALSE
  BY <1>1, <1>2 DEF OpToRel
<1>3. ASSUME NEW y \in T PROVE x <= y
  <2>1. x \in Nat /\ y \in Nat
    OBVIOUS
  <2>2. ~(y < x)
    BY <1>2
  <2> QED BY <2>1, <2>2
<1> QED BY <1>3

(* Induction up to m: T is the set of numbers with the property.           *)
LEMMA Induction ==
  ASSUME NEW m \in Nat, NEW T, 0 \in T, \A n \in 1..m : n - 1 \in T => n \in T
  PROVE  \A n \in 0..m : n \in T
<1> DEFINE B == (0..m) \ T
<1> SUFFICES ASSUME B # {} PROVE FALSE
  OBVIOUS
<1>1. PICK b \in B : \A k \in B : b <= k
  <2>1. B \subseteq Nat
    OBVIOUS
  <2> HIDE DEF B
  <2> QED BY <2>1, Least
<1>2. b \in 1..m /\ b \notin T
  BY <1>1
<1>3. b - 1 \notin T /\ b - 1 \in 0..m
  BY <1>2
<1>4. b <= b - 1
  BY <1>1, <1>3
<1> QED BY <1>2, <1>4

(* A prefix of digits is taken as a whole.                                 *)
LEMMA RunTakesAll ==
  ASSUME NEW text, NEW at \in Nat, NEW w \in Nat, NEW base,
         \A i \in 0..(w - 1) : IsDigit(text, at + i, base)
  PROVE  Run(text, at, w, base) = w
<1> DEFINE P(n) == /\ \A i \in 0..(n - 1) : IsDigit(text, at + i, base)
                   /\ n = w \/ ~IsDigit(text, at + n, base)
<1>1. P(w) /\ w \in 0..w
  OBVIOUS
<1>2. ASSUME NEW n \in 0..w, P(n) PROVE n = w
  <2>1. n # w => n \in 0..(w - 1)
    OBVIOUS
  <2> QED
    BY <1>2, <2>1
<1>3. Run(text, at, w, base) = CHOOSE n \in 0..w : P(n)
  BY DEF Run
<1> HIDE DEF P
<1> QED
  BY <1>1, <1>2, <1>3

-----------------------------------------------------------------------------
(* Where each field of a printed GUID starts, and where its dashes are.    *)
FieldStart == <<1, 10, 15, 20, 22, 25, 27, 29, 31, 33, 35>>
DashPlaces == {9, 14, 19, 24}

(* s is a printed GUID up to its field n and place len.                    *)
Printed(s, g, n, len) ==
  /\ s \in Seq(0..16) /\ Len(s) = len
  /\ \A i \in 1..n : /\ FieldStart[i] + Widths[i] - 1 <= len
                     /\ \A j \in 1..Widths[i] : s[FieldStart[i] + j - 1] = g[i][j]
  /\ \A p \in DashPlaces : p <= len => s[p] = Dash

LEMMA WidthsType ==
  /\ Widths \in [1..11 -> Nat \ {0}]
  /\ FieldStart \in [1..11 -> Nat \ {0}]
  BY DEF Widths, FieldStart

LEMMA FieldType ==
  ASSUME NEW g, IsGuid(g), NEW i \in 1..11
  PROVE  g[i] \in Seq(0..15) /\ Len(g[i]) = Widths[i]
  BY DEF IsGuid

LEMMA PrintDash ==
  ASSUME NEW s, NEW g, NEW n \in 1..11, NEW len \in Nat, Printed(s, g, n, len),
         len + 1 \in DashPlaces
  PROVE  Printed(s \o <<Dash>>, g, n, len + 1)
<1> DEFINE t == s \o <<Dash>>
<1>1. s \in Seq(0..16) /\ Len(s) = len /\ <<Dash>> \in Seq(0..16)
  BY DEF Printed, Dash
<1>2. /\ t \in Seq(0..16) /\ Len(t) = len + 1 /\ t[len + 1] = Dash
      /\ \A i \in 1..len : t[i] = s[i]
  BY <1>1
<1> HIDE DEF t
<1>3. ASSUME NEW i \in 1..n
      PROVE  /\ FieldStart[i] + Widths[i] - 1 <= len + 1
             /\ \A j \in 1..Widths[i] : t[FieldStart[i] + j - 1] = g[i][j]
  <2>1. FieldStart[i] \in Nat \ {0} /\ Widths[i] \in Nat
    BY WidthsType
  <2>2. /\ FieldStart[i] + Widths[i] - 1 <= len
        /\ \A j \in 1..Widths[i] : s[FieldStart[i] + j - 1] = g[i][j]
    BY DEF Printed
  <2>3. ASSUME NEW j \in 1..Widths[i] PROVE FieldStart[i] + j - 1 \in 1..len
    BY <2>1, <2>2
  <2> QED
    BY <1>2, <2>1, <2>2, <2>3
<1>4. ASSUME NEW p \in DashPlaces, p <= len + 1 PROVE t[p] = Dash
  <2>1. p \in 1..len \/ p = len + 1
    BY <1>4 DEF DashPlaces
  <2> QED
    BY <1>2, <2>1 DEF Printed
<1>5. Printed(t, g, n, len + 1)
  BY <1>2, <1>3, <1>4 DEF Printed
<1> QED
  BY <1>5 DEF t

LEMMA PrintField ==
  ASSUME NEW s, NEW g, IsGuid(g), NEW n \in 0..10, NEW m, m = n + 1, NEW len \in Nat,
         Printed(s, g, n, len), FieldStart[m] = len + 1,
         NEW end, end = len + Widths[m], \A p \in DashPlaces : p <= len \/ p > end
  PROVE  Printed(s \o g[m], g, m, end)
<1> DEFINE t == s \o g[m]
           w == Widths[m]
<1>0. m \in 1..11 /\ w \in Nat /\ end \in Nat /\ g[m] \in Seq(0..16) /\ Len(g[m]) = w
  <2>1. m \in 1..11
    OBVIOUS
  <2>2. w \in Nat /\ g[m] \in Seq(0..15) /\ Len(g[m]) = w
    BY <2>1, WidthsType DEF IsGuid
  <2>3. g[m] \in Seq(0..16)
    BY <2>2
  <2> QED
    BY <2>1, <2>2, <2>3
<1>1. s \in Seq(0..16) /\ Len(s) = len
  BY DEF Printed
<1>2. /\ t \in Seq(0..16) /\ Len(t) = len + w
      /\ \A i \in 1..len : t[i] = s[i]
      /\ \A j \in 1..w : t[len + j] = g[m][j]
  <2> DEFINE f == g[m]
  <2>1. f \in Seq(0..16) /\ Len(f) = w /\ w \in Nat
    BY <1>0
  <2> HIDE DEF f, w
  <2>2. /\ s \o f \in Seq(0..16) /\ Len(s \o f) = len + w
        /\ \A i \in 1..len : (s \o f)[i] = s[i]
        /\ \A j \in 1..w : (s \o f)[len + j] = f[j]
    BY <1>1, <2>1
  <2> QED
    BY <2>2 DEF f
<1> HIDE DEF t
<1>3. ASSUME NEW i \in 1..m
      PROVE  /\ FieldStart[i] + Widths[i] - 1 <= end
             /\ \A j \in 1..Widths[i] : t[FieldStart[i] + j - 1] = g[i][j]
  <2>0. i \in 1..11
    BY <1>0
  <2>1. FieldStart[i] \in Nat \ {0} /\ Widths[i] \in Nat
    BY <2>0, WidthsType
  <2>2. CASE i = m
    <3>1. ASSUME NEW j \in 1..w PROVE FieldStart[m] + j - 1 = len + j
      BY <1>0
    <3>2. FieldStart[m] + w - 1 <= end
      BY <1>0
    <3> QED
      BY <1>2, <2>2, <3>1, <3>2
  <2>3. CASE i # m
    <3>0. i \in 1..n
      BY <2>3
    <3>2. /\ FieldStart[i] + Widths[i] - 1 <= len
          /\ \A j \in 1..Widths[i] : s[FieldStart[i] + j - 1] = g[i][j]
      BY <3>0 DEF Printed
    <3>3. ASSUME NEW j \in 1..Widths[i] PROVE FieldStart[i] + j - 1 \in 1..len
      BY <2>1, <3>2
    <3>4. FieldStart[i] + Widths[i] - 1 <= end
      BY <1>0, <2>1, <3>2
    <3> QED
      BY <1>2, <3>2, <3>3, <3>4
  <2> QED
    BY <2>2, <2>3
<1>4. ASSUME NEW p \in DashPlaces, p <= end PROVE t[p] = Dash
  <2>1. p \in 1..len
    BY <1>4 DEF DashPlaces
  <2> QED
    BY <1>2, <2>1 DEF Printed
<1>5. Printed(t, g, m, end)
  BY <1>0, <1>2, <1>3, <1>4 DEF Printed
<1> QED
  BY <1>5 DEF t

LEMMA GuidIsPrinted ==
  ASSUME NEW g, IsGuid(g)
  PROVE  Printed(GuidToString(g), g, 11, 36)
<1>0. /\ FieldStart[1] = 1 /\ FieldStart[2] = 10 /\ FieldStart[3] = 15 /\ FieldStart[4] = 20
      /\ FieldStart[5] = 22 /\ FieldStart[6] = 25 /\ FieldStart[7] = 27 /\ FieldStart[8] = 29
      /\ FieldStart[9] = 31 /\ FieldStart[10] = 33 /\ FieldStart[11] = 35
  BY DEF FieldStart
<1>1. /\ Widths[1] = 8 /\ Widths[2] = 4 /\ Widths[3] = 4 /\ Widths[4] = 2 /\ Widths[5] = 2
      /\ Widths[6] = 2 /\ Widths[7] = 2 /\ Widths[8] = 2 /\ Widths[9] = 2 /\ Widths[10] = 2
      /\ Widths[11] = 2
  BY DEF Widths
<1> DEFINE s0 == << >>
           s1 == g[1]
           d1 == s1 \o <<Dash>>
           s2 == d1 \o g[2]
           d2 == s2 \o <<Dash>>
           s3 == d2 \o g[3]
           d3 == s3 \o <<Dash>>
           s4 == d3 \o g[4]
           s5 == s4 \o g[5]
           d5 == s5 \o <<Dash>>
           s6 == d5 \o g[6]
           s7 == s6 \o g[7]
           s8 == s7 \o g[8]
           s9 == s8 \o g[9]
           s10 == s9 \o g[10]
           s11 == s10 \o g[11]
<1>2. GuidToString(g) = s11
  BY DEF GuidToString
<1>3. Printed(s1, g, 1, 8)
  <2>0. g[1] \in Seq(0..15) /\ Len(g[1]) = Widths[1]
    BY FieldType
  <2>1. g[1] \in Seq(0..15) /\ Len(g[1]) = 8
    BY <1>1, <2>0
  <2>2. g[1] \in Seq(0..16)
    BY <2>1
  <2>3. \A i \in 1..1 : i = 1
    OBVIOUS
  <2>4. \A j \in 1..8 : 1 + j - 1 = j
    OBVIOUS
  <2>5. \A j \in 1..Widths[1] : s1[FieldStart[1] + j - 1] = g[1][j]
    BY <1>0, <1>1, <2>4
  <2>6. FieldStart[1] + Widths[1] - 1 <= 8
    BY <1>0, <1>1
  <2>7. \A p \in DashPlaces : ~(p <= 8)
    BY DEF DashPlaces
  <2> QED
    BY <2>1, <2>2, <2>3, <2>5, <2>6, <2>7 DEF Printed
<1> HIDE DEF s1
<1>4. Printed(d1, g, 1, 9)
  BY <1>3, PrintDash DEF DashPlaces
<1> HIDE DEF d1
<1>5. Printed(s2, g, 2, 13)
  BY <1>4, <1>0, <1>1, PrintField DEF DashPlaces
<1> HIDE DEF s2
<1>6. Printed(d2, g, 2, 14)
  BY <1>5, PrintDash DEF DashPlaces
<1> HIDE DEF d2
<1>7. Printed(s3, g, 3, 18)
  BY <1>6, <1>0, <1>1, PrintField DEF DashPlaces
<1> HIDE DEF s3
<1>8. Printed(d3, g, 3, 19)
  BY <1>7, PrintDash DEF DashPlaces
<1> HIDE DEF d3
<1>9. Printed(s4, g, 4, 21)
  BY <1>8, <1>0, <1>1, PrintField DEF DashPlaces
<1> HIDE DEF s4
<1>10. Printed(s5, g, 5, 23)
  BY <1>9, <1>0, <1>1, PrintField DEF DashPlaces
<1> HIDE DEF s5
<1>11. Printed(d5, g, 5, 24)
  BY <1>10, PrintDash DEF DashPlaces
<1> HIDE DEF d5
<1>12. Printed(s6, g, 6, 26)
  BY <1>11, <1>0, <1>1, PrintField DEF DashPlaces
<1> HIDE DEF s6
<1>13. Printed(s7, g, 7, 28)
  BY <1>12, <1>0, <1>1, PrintField DEF DashPlaces
<1> HIDE DEF s7
<1>14. Printed(s8, g, 8, 30)
  BY <1>13, <1>0, <1>1, PrintField DEF DashPlaces
<1> HIDE DEF s8
<1>15. Printed(s9, g, 9, 32)
  BY <1>14, <1>0, <1>1, PrintField DEF DashPlaces
<1> HIDE DEF s9
<1>16. Printed(s10, g, 10, 34)
  BY <1>15, <1>0, <1>1, PrintField DEF DashPlaces
<1> HIDE DEF s10
<1>17. Printed(s11, g, 11, 36)
  BY <1>16, <1>0, <1>1, PrintField DEF DashPlaces
<1> QED
  BY <1>2, <1>17

(* One conversion of sscanf_s on a printed GUID.                           *)
LEMMA ScanPrinted ==
  ASSUME NEW text, NEW g, IsGuid(g), Printed(text, g, 11, 36), NEW i \in 1..11,
         NEW at, at = FieldStart[i], NEW w, w = Widths[i], NEW next,
         next = IF i \in {1, 2, 3, 5} THEN at + w + 1 ELSE at + w,
         i \in {1, 2, 3, 5} => at + w \in DashPlaces
  PROVE  ScanField(text, i, at) = next /\ FieldAt(text, at, w) = g[i]
<1>1. /\ at \in Nat \ {0} /\ w \in Nat \ {0}
      /\ at + w - 1 <= 36 /\ \A j \in 1..w : text[at + j - 1] = g[i][j]
  BY WidthsType DEF Printed
<1>2. text \in Seq(0..16) /\ Len(text) = 36 /\ \A p \in DashPlaces : p <= 36 => text[p] = Dash
  BY DEF Printed
<1>3. g[i] \in Seq(0..15) /\ Len(g[i]) = w
  BY FieldType
<1> DEFINE f == g[i]
<1>4. f \in Seq(0..15) /\ Len(f) = w /\ \A j \in 1..w : text[at + j - 1] = f[j]
  BY <1>1, <1>3
<1> HIDE DEF f
<1>5. ASSUME NEW j \in 0..(w - 1) PROVE IsDigit(text, at + j, 16)
  <2>0. at \in Nat \ {0} /\ w \in Nat \ {0} /\ at + w - 1 <= 36 /\ j \in 0..(w - 1)
    BY <1>1, <1>5
  <2>1. j + 1 \in 1..w /\ at + (j + 1) - 1 = at + j /\ at + j \in 1..36
    BY ONLY <2>0
  <2>2. PICK p : p = j + 1
    OBVIOUS
  <2>4. p \in 1..w /\ at + p - 1 = at + j
    BY <2>1, <2>2
  <2>5. f[p] \in 0..15
    BY ONLY <1>4, <2>4
  <2>6. text[at + p - 1] = f[p]
    BY ONLY <1>4, <2>4
  <2>3. text[at + j] \in 0..15
    BY ONLY <2>4, <2>5, <2>6
  <2>7. text[at + j] < 16
    BY ONLY <2>3
  <2>8. at + j \in 1..Len(text)
    BY ONLY <1>2, <2>1
  <2> QED
    BY ONLY <2>7, <2>8 DEF IsDigit
<1>6. Run(text, at, w, 16) = w
  BY <1>1, <1>5, RunTakesAll
<1>7. ScanField(text, i, at) = next
  <2>1. ScanField(text, i, at) =
          IF at = 0 \/ w = 0 THEN 0
          ELSE IF i \notin {1, 2, 3, 5} THEN at + w
          ELSE IF at + w <= Len(text) /\ text[at + w] = Dash THEN at + w + 1 ELSE 0
    BY <1>6 DEF ScanField
  <2>2. CASE i \in {1, 2, 3, 5}
    <3>1. at + w \in DashPlaces /\ at + w <= 36
      BY <2>2 DEF DashPlaces
    <3>2. text[at + w] = Dash /\ at + w <= Len(text)
      BY <1>2, <3>1
    <3> QED
      BY <1>1, <2>1, <2>2, <3>2
  <2>3. CASE i \notin {1, 2, 3, 5}
    BY <1>1, <2>1, <2>3
  <2> QED
    BY <2>2, <2>3
<1>8. FieldAt(text, at, w) = f
  <2>1. FieldAt(text, at, w) =
          [j \in 1..w |-> IF j <= w - w THEN 0 ELSE text[at + j - (w - w) - 1]]
    BY <1>6 DEF FieldAt
  <2>2. \A j \in 1..w : (IF j <= w - w THEN 0 ELSE text[at + j - (w - w) - 1]) = f[j]
    <3>1. ASSUME NEW j \in 1..w PROVE ~(j <= w - w) /\ at + j - (w - w) - 1 = at + j - 1
      BY <1>1
    <3> QED
      BY <1>4, <3>1
  <2>3. f = [j \in 1..w |-> f[j]]
    BY <1>4
  <2> QED
    BY <2>1, <2>2, <2>3
<1> QED
  BY <1>7, <1>8 DEF f

(* Where the conversion after field i starts.                              *)
ScanAt == [i \in 0..11 |-> IF i = 11 THEN 37 ELSE FieldStart[i + 1]]

LEMMA ScanPlaces ==
  /\ ScanAt[0] = 1 /\ ScanAt[11] = 37
  /\ \A i \in 1..11 :
       /\ ScanAt[i - 1] = FieldStart[i]
       /\ i \in {1, 2, 3, 5} => FieldStart[i] + Widths[i] \in DashPlaces
       /\ ScanAt[i] = IF i \in {1, 2, 3, 5} THEN FieldStart[i] + Widths[i] + 1
                                            ELSE FieldStart[i] + Widths[i]
<1>0. /\ FieldStart[1] = 1 /\ FieldStart[2] = 10 /\ FieldStart[3] = 15 /\ FieldStart[4] = 20
      /\ FieldStart[5] = 22 /\ FieldStart[6] = 25 /\ FieldStart[7] = 27 /\ FieldStart[8] = 29
      /\ FieldStart[9] = 31 /\ FieldStart[10] = 33 /\ FieldStart[11] = 35
  BY DEF FieldStart
<1>1. /\ Widths[1] = 8 /\ Widths[2] = 4 /\ Widths[3] = 4 /\ Widths[4] = 2 /\ Widths[5] = 2
      /\ Widths[6] = 2 /\ Widths[7] = 2 /\ Widths[8] = 2 /\ Widths[9] = 2 /\ Widths[10] = 2
      /\ Widths[11] = 2
  BY DEF Widths
<1>2. ScanAt[0] = 1 /\ ScanAt[11] = 37
  BY <1>0 DEF ScanAt
<1>3. /\ ScanAt[1] = 10 /\ ScanAt[2] = 15 /\ ScanAt[3] = 20 /\ ScanAt[4] = 22
      /\ ScanAt[5] = 25 /\ ScanAt[6] = 27 /\ ScanAt[7] = 29 /\ ScanAt[8] = 31
      /\ ScanAt[9] = 33 /\ ScanAt[10] = 35
  BY <1>0 DEF ScanAt
<1>4. ASSUME NEW i \in 1..11
      PROVE  /\ ScanAt[i - 1] = FieldStart[i]
             /\ i \in {1, 2, 3, 5} => FieldStart[i] + Widths[i] \in DashPlaces
             /\ ScanAt[i] = IF i \in {1, 2, 3, 5} THEN FieldStart[i] + Widths[i] + 1
                                                  ELSE FieldStart[i] + Widths[i]
  <2>1. i \in {1, 2, 3, 4, 5, 6, 7, 8, 9, 10, 11}
    OBVIOUS
  <2> QED
    BY <1>0, <1>1, <1>2, <1>3, <2>1 DEF DashPlaces
<1> QED
  BY <1>2, <1>4

(* sscanf_s reads back every GUID that snprintf printed.                   *)
THEOREM GuidRoundTrip ==
  ASSUME NEW g, IsGuid(g)
  PROVE  ParseGuid(GuidToString(g)) = {g}
<1> DEFINE text == GuidToString(g)
           Scan(h) == h = [i \in 0..11 |-> IF i = 0 THEN 1 ELSE ScanField(text, i, h[i - 1])]
           at == CHOOSE h : Scan(h)
<1>1. ParseGuid(text) =
        IF at[11] = 0 THEN {} ELSE {[i \in 1..11 |-> FieldAt(text, at[i - 1], Widths[i])]}
  BY DEF ParseGuid
<1>2. Printed(text, g, 11, 36)
  BY GuidIsPrinted
<1> HIDE DEF text
<1>3. ASSUME NEW i \in 1..11
      PROVE  /\ ScanField(text, i, ScanAt[i - 1]) = ScanAt[i]
             /\ FieldAt(text, ScanAt[i - 1], Widths[i]) = g[i]
  BY <1>2, ScanPlaces, ScanPrinted
<1>4. Scan(ScanAt)
  <2>1. ASSUME NEW i \in 0..11
        PROVE  ScanAt[i] = IF i = 0 THEN 1 ELSE ScanField(text, i, ScanAt[i - 1])
    <3>1. CASE i = 0
      BY <3>1, ScanPlaces
    <3>2. CASE i # 0
      <4>1. i \in 1..11
        BY <3>2
      <4> QED
        BY <1>3, <3>2, <4>1
    <3> QED
      BY <3>1, <3>2
  <2>2. ScanAt = [i \in 0..11 |-> ScanAt[i]]
    BY DEF ScanAt
  <2> QED
    BY <2>1, <2>2
<1>5. Scan(at)
  <2> HIDE DEF Scan
  <2> QED
    BY <1>4
<1> HIDE DEF at
<1> DEFINE T == {i \in 0..11 : at[i] = ScanAt[i]}
<1>6. 0 \in T
  BY <1>5, ScanPlaces
<1>7. ASSUME NEW i \in 1..11, i - 1 \in T PROVE i \in T
  <2>1. at[i] = ScanField(text, i, at[i - 1])
    BY <1>5
  <2> QED
    BY <1>3, <1>7, <2>1
<1>8. \A i \in 0..11 : i \in T
  <2> HIDE DEF T
  <2> QED
    BY <1>6, <1>7, Induction
<1>9. at[11] = 37 /\ \A i \in 1..11 : at[i - 1] = ScanAt[i - 1]
  BY <1>8, ScanPlaces
<1>10. [i \in 1..11 |-> FieldAt(text, at[i - 1], Widths[i])] = g
  <2>1. g = [i \in 1..11 |-> g[i]]
    BY DEF IsGuid
  <2> QED
    BY <1>3, <1>9, <2>1
<1> QED
  BY <1>1, <1>9, <1>10 DEF text

-----------------------------------------------------------------------------
(* An alias is shorter than a GUID.                                        *)
LEMMA AliasLength ==
  ASSUME NEW a \in Aliases
  PROVE  Len(a[1]) \in {4, 5, 8}
  BY DEF Aliases

LEMMA AliasesDiffer ==
  ASSUME NEW a \in Aliases, NEW b \in Aliases, a[1] = b[1]
  PROVE  a[2] = b[2]
<1>1. \A c \in Aliases :
        \/ Len(c[1]) = 8 /\ c[2] = Balanced
        \/ Len(c[1]) = 4 /\ c[2] = HighPerformance
        \/ Len(c[1]) = 5 /\ c[2] = PowerSaver
  BY DEF Aliases
<1> QED
  BY <1>1

(* What GetActiveScheme printed, alias or GUID, names the scheme it was    *)
(* made from: alias first, then GUID.                                      *)
LEMMA PlansRead ==
  ASSUME NEW g \in Schemes
  PROVE  (IF AliasToGuid(GuidToAlias(g)) # {} THEN AliasToGuid(GuidToAlias(g))
                                              ELSE ParseGuid(GuidToAlias(g))) = {g}
<1> DEFINE text == GuidToAlias(g)
<1>1. CASE \E a \in Aliases : a[2] = g
  <2>1. PICK a \in Aliases : a[2] = g /\ text = a[1]
    BY <1>1 DEF GuidToAlias
  <2>2. \A b \in Aliases : b[1] = text => b[2] = g
    BY <2>1, AliasesDiffer
  <2> HIDE DEF text
  <2>3. AliasToGuid(text) = {g}
    BY <2>1, <2>2 DEF AliasToGuid
  <2> QED
    BY <2>3 DEF text
<1>2. CASE ~\E a \in Aliases : a[2] = g
  <2>1. text = GuidToString(g) /\ IsGuid(g)
    BY <1>2, SchemesAssumption DEF GuidToAlias
  <2>2. Len(text) = 36
    BY <2>1, GuidIsPrinted DEF Printed
  <2>3. \A a \in Aliases : a[1] # text
    BY <2>2, AliasLength
  <2> HIDE DEF text
  <2>4. AliasToGuid(text) = {}
    BY <2>3 DEF AliasToGuid
  <2>5. ParseGuid(text) = {g}
    BY <2>1, GuidRoundTrip
  <2> QED
    BY <2>4, <2>5 DEF text
<1> QED
  BY <1>1, <1>2

-----------------------------------------------------------------------------
LEMMA PowerValues ==
  Power[1] = 1 /\ Power[2] = 10 /\ Power[3] = 100 /\ Power[4] = 1000 /\ Power[5] = 10000
  BY DEF Power

(* The last digit of a number, and the number without it.                  *)
LEMMA LastDigit ==
  ASSUME NEW n \in Nat
  PROVE  /\ \E q \in Nat, r \in 0..9 : n \div 10 = q /\ n % 10 = r /\ n = 10 * q + r
         /\ n < 10 => n % 10 = n
<1>1. n \div 10 \in Int /\ n \div 10 >= 0
  OBVIOUS
<1>2. n % 10 \in 0..9
  OBVIOUS
<1>3. n % 10 = n - 10 * (n \div 10)
  OBVIOUS
<1>4. n < 10 => n % 10 = n
  OBVIOUS
<1>5. PICK q \in Nat, r \in 0..9 : q = n \div 10 /\ r = n % 10
  BY <1>1, <1>2
<1>6. n = 10 * q + r
  BY <1>3, <1>5
<1> QED
  BY <1>4, <1>5, <1>6

(* Dropping two digits, three or four.                                     *)
LEMMA Quotients ==
  ASSUME NEW n \in Nat, NEW q \in Nat, NEW r \in Nat
  PROVE  /\ n \div 1 = n
         /\ n = 100 * q + r /\ r < 100 => n \div 100 = q
         /\ n = 1000 * q + r /\ r < 1000 => n \div 1000 = q
         /\ n = 10000 * q + r /\ r < 10000 => n \div 10000 = q
<1>1. n \div 1 = n
  OBVIOUS
<1>2. n = 100 * q + r /\ r < 100 => n \div 100 = q
  OBVIOUS
<1>3. n = 1000 * q + r /\ r < 1000 => n \div 1000 = q
  OBVIOUS
<1>4. n = 10000 * q + r /\ r < 10000 => n \div 10000 = q
  OBVIOUS
<1> QED
  BY <1>1, <1>2, <1>3, <1>4

(* What is left of n without its last p - 1 digits.                        *)
Front(n, p) == n \div Power[p]

LEMMA FrontIs ==
  ASSUME NEW n, NEW p, NEW d, Power[p] = d, NEW x, n \div d = x
  PROVE  Front(n, p) = x
  BY DEF Front

(* Dropping one digit more.                                                *)
LEMMA DropDigit ==
  ASSUME NEW n \in Nat, NEW p \in 1..4
  PROVE  Front(n, p) \in Nat /\ Front(n, p) \div 10 = Front(n, p + 1)
<1>1. PICK a \in Nat, i \in 0..9 : n \div 10 = a /\ n = 10 * a + i
  BY LastDigit
<1>2. PICK b \in Nat, j \in 0..9 : a \div 10 = b /\ a = 10 * b + j
  BY LastDigit
<1>3. PICK c \in Nat, k \in 0..9 : b \div 10 = c /\ b = 10 * c + k
  BY LastDigit
<1>4. PICK d \in Nat, l \in 0..9 : c \div 10 = d /\ c = 10 * d + l
  BY LastDigit
<1>5. Front(n, 1) = n /\ Front(n, 2) = a
  <2>1. n \div 1 = n
    OBVIOUS
  <2>2. n \div 10 = a
    BY <1>1
  <2>3. Front(n, 1) = n
    BY ONLY <2>1, PowerValues, FrontIs
  <2>4. Front(n, 2) = a
    BY ONLY <2>2, PowerValues, FrontIs
  <2> QED
    BY ONLY <2>3, <2>4
<1>6. Front(n, 3) = b
  <2>1. PICK r \in Nat : r = 10 * j + i
    OBVIOUS
  <2>2. n = 100 * b + r /\ r < 100
    BY <1>1, <1>2, <2>1
  <2>3. n \div 100 = b
    BY <2>2, Quotients
  <2> QED
    BY ONLY <2>3, PowerValues, FrontIs
<1>7. Front(n, 4) = c
  <2>1. PICK r \in Nat : r = 100 * k + 10 * j + i
    OBVIOUS
  <2>2. n = 1000 * c + r /\ r < 1000
    BY <1>1, <1>2, <1>3, <2>1
  <2>3. n \div 1000 = c
    BY <2>2, Quotients
  <2> QED
    BY ONLY <2>3, PowerValues, FrontIs
<1>8. Front(n, 5) = d
  <2>1. PICK r \in Nat : r = 1000 * l + 100 * k + 10 * j + i
    OBVIOUS
  <2>2. n = 10000 * d + r /\ r < 10000
    BY <1>1, <1>2, <1>3, <1>4, <2>1
  <2>3. n \div 10000 = d
    BY <2>2, Quotients
  <2> QED
    BY ONLY <2>3, PowerValues, FrontIs
<1>13. /\ Front(n, 1) = n /\ Front(n, 2) = a /\ Front(n, 3) = b
       /\ Front(n, 4) = c /\ Front(n, 5) = d
  BY ONLY <1>5, <1>6, <1>7, <1>8
<1>14. n \div 10 = a /\ a \div 10 = b /\ b \div 10 = c /\ c \div 10 = d
  BY <1>1, <1>2, <1>3, <1>4
<1>9. CASE p = 1
  BY ONLY n \in Nat, <1>13, <1>14, <1>9
<1>10. CASE p = 2
  BY ONLY a \in Nat, <1>13, <1>14, <1>10
<1>11. CASE p = 3
  BY ONLY b \in Nat, <1>13, <1>14, <1>11
<1>12. CASE p = 4
  BY ONLY c \in Nat, <1>13, <1>14, <1>12
<1> QED
  BY <1>9, <1>10, <1>11, <1>12

(* The number of digits that std::to_string prints.                        *)
LEMMA WidthIs ==
  ASSUME NEW n \in Nat, n < 65536
  PROVE  Width(n) \in 1..5 /\ n < 10 * Power[Width(n)]
<1> DEFINE P(w) == n < 10 * Power[w] /\ (w = 1 \/ n >= Power[w])
<1>1. \E w \in 1..5 : P(w)
  <2>1. n < 10 => P(1)
    BY PowerValues
  <2>2. n >= 10 /\ n < 100 => P(2)
    BY PowerValues
  <2>3. n >= 100 /\ n < 1000 => P(3)
    BY PowerValues
  <2>4. n >= 1000 /\ n < 10000 => P(4)
    BY PowerValues
  <2>5. n >= 10000 => P(5)
    BY PowerValues
  <2> HIDE DEF P
  <2> QED
    BY <2>1, <2>2, <2>3, <2>4, <2>5
<1>2. Width(n) = CHOOSE w \in 1..5 : P(w)
  BY DEF Width
<1>3. Width(n) \in 1..5 /\ P(Width(n))
  <2> HIDE DEF P
  <2> QED
    BY <1>1, <1>2
<1> QED
  BY <1>3

(* Quotients below ten.                                                    *)
LEMMA SmallQuotients ==
  ASSUME NEW n \in Nat
  PROVE  /\ n < 10 => Front(n, 1) \in 0..9
         /\ n < 100 => Front(n, 2) \in 0..9
         /\ n < 1000 => Front(n, 3) \in 0..9
         /\ n < 10000 => Front(n, 4) \in 0..9
         /\ n < 100000 => Front(n, 5) \in 0..9
<1>1. n < 10 => Front(n, 1) \in 0..9
  <2>1. PICK x : n \div 1 = x
    OBVIOUS
  <2>2. n < 10 => x \in 0..9
    BY <2>1
  <2>3. Front(n, 1) = x
    BY ONLY <2>1, PowerValues, FrontIs
  <2> QED
    BY <2>2, <2>3
<1>2. n < 100 => Front(n, 2) \in 0..9
  <2>1. PICK x : n \div 10 = x
    OBVIOUS
  <2>2. n < 100 => x \in 0..9
    BY <2>1
  <2>3. Front(n, 2) = x
    BY ONLY <2>1, PowerValues, FrontIs
  <2> QED
    BY <2>2, <2>3
<1>3. n < 1000 => Front(n, 3) \in 0..9
  <2>1. PICK x : n \div 100 = x
    OBVIOUS
  <2>2. n < 1000 => x \in 0..9
    BY <2>1
  <2>3. Front(n, 3) = x
    BY ONLY <2>1, PowerValues, FrontIs
  <2> QED
    BY <2>2, <2>3
<1>4. n < 10000 => Front(n, 4) \in 0..9
  <2>1. PICK x : n \div 1000 = x
    OBVIOUS
  <2>2. n < 10000 => x \in 0..9
    BY <2>1
  <2>3. Front(n, 4) = x
    BY ONLY <2>1, PowerValues, FrontIs
  <2> QED
    BY <2>2, <2>3
<1>5. n < 100000 => Front(n, 5) \in 0..9
  <2>1. PICK x : n \div 10000 = x
    OBVIOUS
  <2>2. n < 100000 => x \in 0..9
    BY <2>1
  <2>3. Front(n, 5) = x
    BY ONLY <2>1, PowerValues, FrontIs
  <2> QED
    BY <2>2, <2>3
<1> QED
  BY ONLY <1>1, <1>2, <1>3, <1>4, <1>5

(* One digit less.                                                         *)
LEMMA FrontStep ==
  ASSUME NEW n \in Nat, NEW p \in 1..4
  PROVE  \E a \in Nat, q \in Nat, r \in 0..9 :
           /\ Front(n, p) = a /\ Front(n, p + 1) = q /\ a % 10 = r /\ a = 10 * q + r
<1>1. PICK a \in Nat : Front(n, p) = a /\ a \div 10 = Front(n, p + 1)
  BY DropDigit
<1>2. PICK q \in Nat, r \in 0..9 : a \div 10 = q /\ a % 10 = r /\ a = 10 * q + r
  BY LastDigit
<1> QED
  BY <1>1, <1>2

(* The first digit stands alone.                                           *)
LEMMA FrontFirst ==
  ASSUME NEW n \in Nat, NEW p \in 1..5, n < 10 * Power[p]
  PROVE  Front(n, p) \in 0..9
<1>0. n \in Nat
  OBVIOUS
<1>1. CASE p = 1
  BY <1>0, <1>1, PowerValues, SmallQuotients
<1>2. CASE p = 2
  BY <1>0, <1>2, PowerValues, SmallQuotients
<1>3. CASE p = 3
  BY <1>0, <1>3, PowerValues, SmallQuotients
<1>4. CASE p = 4
  BY <1>0, <1>4, PowerValues, SmallQuotients
<1>5. CASE p = 5
  BY <1>0, <1>5, PowerValues, SmallQuotients
<1> QED
  BY <1>1, <1>2, <1>3, <1>4, <1>5

LEMMA FrontType ==
  ASSUME NEW n \in Nat, NEW p \in 1..5
  PROVE  Front(n, p) % 10 \in 0..9
<1>1. \E a \in Nat : Front(n, p) = a
  <2>1. CASE p = 5
    <3>1. \E q \in Nat : Front(n, 4 + 1) = q
      BY FrontStep
    <3> QED
      BY <2>1, <3>1
  <2>2. CASE p # 5
    <3>1. p \in 1..4
      BY <2>2
    <3> QED
      BY <3>1, FrontStep
  <2> QED
    BY <2>1, <2>2
<1>2. PICK a \in Nat : Front(n, p) = a
  BY <1>1
<1>3. a % 10 \in 0..9
  BY LastDigit
<1> QED
  BY <1>2, <1>3

(* What the loop of std::atoi over n digits computes.                      *)
IsValue(h, text, from, n) ==
  h = [i \in 0..n |-> IF i = 0 THEN 0 ELSE 10 * h[i - 1] + text[from + i - 1]]

LEMMA ValueStep ==
  ASSUME NEW h, NEW text, NEW from, NEW n \in Nat, IsValue(h, text, from, n)
  PROVE  /\ h[0] = 0
         /\ \A i \in 1..n : h[i] = 10 * h[i - 1] + text[from + i - 1]
<1>1. \A i \in 0..n : h[i] = IF i = 0 THEN 0 ELSE 10 * h[i - 1] + text[from + i - 1]
  BY Zenon DEF IsValue
<1>2. 0 \in 0..n /\ \A i \in 1..n : i \in 0..n /\ i # 0
  OBVIOUS
<1> QED
  BY <1>1, <1>2

(* std::atoi reads back what std::to_string printed.                       *)
THEOREM LevelRoundTrip ==
  ASSUME NEW n \in Nat, n < 65536
  PROVE  Atoi(ToDecimal(n)) = n
<1> DEFINE w == Width(n)
           text == ToDecimal(n)
           minus == text # << >> /\ text[1] = Dash
           from == IF minus THEN 2 ELSE 1
           digits == Run(text, from, Len(text), 10)
           value == CHOOSE h : IsValue(h, text, from, digits)
           Known == [i \in 0..w |-> IF i = 0 THEN 0 ELSE Front(n, w - i + 1)]
<1>0. n \in Nat
  OBVIOUS
<1>1. w \in 1..5 /\ n < 10 * Power[w]
  BY WidthIs
<1>2. text = [i \in 1..w |-> Front(n, w - i + 1) % 10]
  BY DEF ToDecimal, Front
<1>8. Atoi(text) = IF minus THEN -value[digits] ELSE value[digits]
  BY DEF Atoi, IsValue
<1> HIDE DEF w, text, digits, from, minus, value
<1>3. ASSUME NEW i \in 1..w PROVE w - i + 1 \in 1..5 /\ text[i] = Front(n, w - i + 1) % 10
  BY <1>1, <1>2
<1>4. ASSUME NEW i \in 1..w PROVE text[i] \in 0..9
  <2>1. PICK p \in 1..5 : p = w - i + 1
    BY <1>3
  <2>2. Front(n, p) % 10 \in 0..9
    BY <1>0, FrontType
  <2>3. text[i] = Front(n, w - i + 1) % 10
    BY <1>3
  <2> QED
    BY ONLY <2>1, <2>2, <2>3
<1>5. text \in Seq(0..9) /\ Len(text) = w
  BY <1>1, <1>2, <1>4
<1>6. ~minus /\ from = 1
  <2>1. 1 \in 1..w
    BY <1>1
  <2>2. text[1] \in 0..9
    BY <1>4, <2>1
  <2> QED
    BY <2>2 DEF Dash, minus, from
<1>7. digits = w
  <2>1. ASSUME NEW i \in 0..(w - 1) PROVE IsDigit(text, 1 + i, 10)
    <3>1. 1 + i \in 1..w
      BY <1>1
    <3>2. text[1 + i] \in 0..9
      BY <1>4, <3>1
    <3>3. text[1 + i] < 10
      BY ONLY <3>2
    <3> QED
      BY <1>5, <3>1, <3>3 DEF IsDigit
  <2>2. Run(text, 1, w, 10) = w
    BY <1>1, <2>1, RunTakesAll
  <2> QED
    BY <1>5, <1>6, <2>2 DEF digits
<1>9. Known[0] = 0 /\ \A i \in 1..w : Known[i] = 10 * Known[i - 1] + text[i]
  <2>1. ASSUME NEW i \in 1..w PROVE Known[i] = 10 * Known[i - 1] + text[i]
    <3>1. PICK p \in 1..5 : p = w - i + 1
      BY <1>3
    <3>2. Known[i] = Front(n, p) /\ text[i] = Front(n, p) % 10
      BY <1>1, <1>3, <3>1
    <3>3. CASE i = 1
      <4>1. p = w /\ Known[i - 1] = 0
        BY <1>1, <3>1, <3>3
      <4>2. PICK a \in 0..9 : Front(n, p) = a
        BY <1>1, <4>1, FrontFirst
      <4>3. a % 10 = a
        BY LastDigit
      <4> HIDE DEF Known
      <4>4. Known[i] = a /\ text[i] = a
        BY <3>2, <4>2, <4>3
      <4> QED
        BY <4>1, <4>2, <4>4
    <3>4. CASE i # 1
      <4>1. p \in 1..4 /\ i - 1 \in 1..w /\ w - (i - 1) + 1 = p + 1
        BY <1>1, <3>1, <3>4
      <4>2. Known[i - 1] = Front(n, p + 1)
        BY <4>1
      <4>3. PICK a \in Nat, q \in Nat, r \in 0..9 :
              /\ Front(n, p) = a /\ Front(n, p + 1) = q /\ a % 10 = r /\ a = 10 * q + r
        <5>1. p \in 1..4
          BY <4>1
        <5> QED
          BY ONLY <1>0, <5>1, FrontStep
      <4> HIDE DEF Known
      <4>4. Known[i] = a /\ text[i] = r /\ Known[i - 1] = q
        BY <3>2, <4>2, <4>3
      <4> QED
        BY <4>3, <4>4
    <3> QED
      BY <3>3, <3>4
  <2>2. Known[0] = 0
    BY <1>1
  <2> HIDE DEF Known
  <2> QED
    BY <2>1, <2>2
<1>10. Known = [i \in 0..w |-> Known[i]] /\ Known[w] = n
  <2>1. Known[w] = Front(n, w - w + 1) /\ w - w + 1 = 1
    BY <1>1
  <2>2. Front(n, 1) = n
    BY ONLY n \div 1 = n, PowerValues, FrontIs
  <2>3. Known = [i \in 0..w |-> Known[i]]
    OBVIOUS
  <2> QED
    BY <2>1, <2>2, <2>3
<1> HIDE DEF Known
<1>11. IsValue(Known, text, 1, w)
  <2>1. ASSUME NEW i \in 0..w
        PROVE  Known[i] = IF i = 0 THEN 0 ELSE 10 * Known[i - 1] + text[1 + i - 1]
    <3>1. i # 0 => i \in 1..w /\ 1 + i - 1 = i
      BY <1>1
    <3> QED
      BY <1>9, <3>1
  <2>2. Known = [i \in 0..w |-> IF i = 0 THEN 0 ELSE 10 * Known[i - 1] + text[1 + i - 1]]
    BY <1>10, <2>1
  <2> QED
    BY ONLY <2>2 DEF IsValue
<1>12. IsValue(value, text, 1, w)
  <2>1. IsValue(Known, text, from, digits)
    BY <1>6, <1>7, <1>11
  <2>2. IsValue(value, text, from, digits)
    BY ONLY <2>1 DEF value
  <2> QED
    BY <1>6, <1>7, <2>2
<1> DEFINE T == {i \in 0..w : value[i] = Known[i]}
<1>13. 0 \in T
  <2>1. value[0] = 0 /\ 0 \in 0..w
    BY <1>1, <1>12, ValueStep
  <2> QED
    BY <1>9, <2>1
<1>14. ASSUME NEW i \in 1..w, i - 1 \in T PROVE i \in T
  <2>1. i \in 0..w /\ 1 + i - 1 = i
    BY <1>1
  <2>2. value[i] = 10 * value[i - 1] + text[1 + i - 1]
    BY <1>1, <1>12, ValueStep
  <2>3. value[i - 1] = Known[i - 1] /\ Known[i] = 10 * Known[i - 1] + text[i]
    BY <1>9, <1>14
  <2>4. value[i] = Known[i]
    BY ONLY <2>1, <2>2, <2>3
  <2> QED
    BY <2>1, <2>4
<1>15. \A i \in 0..w : i \in T
  <2> HIDE DEF T
  <2> QED
    BY <1>1, <1>13, <1>14, Induction
<1>16. value[w] = n
  BY <1>1, <1>10, <1>15
<1> QED
  BY <1>6, <1>7, <1>8, <1>16 DEF text

-----------------------------------------------------------------------------
(* The executors of plugins/executors, with one monitor and a Windows that *)
(* does what it is told.                                                   *)
RealExecutors ==
  /\ ExecutorKeys = {Brightness, PowerPlan}
  /\ \A k \in ExecutorKeys : HwStates(k) = States(k)
  /\ \A k \in ExecutorKeys : \A h \in States(k) :
       /\ ReadOutcomes(k, h) = CurrentValue(k, h)
       /\ Settable(k, h) <=> InRange(k, h)
  /\ \A k \in ExecutorKeys, text \in Texts : \A h \in States(k) :
       ApplyOutcomes(k, text, h) = Apply(k, text, h)
  /\ Reliable
  /\ \E m : Monitors = {m}

(* The two executors restore what they read, except a level over 100,      *)
(* which they refuse.                                                      *)
LEMMA ExecutorsRestore ==
  ASSUME RealExecutors
  PROVE  Restorable
<1> SUFFICES ASSUME NEW k \in ExecutorKeys, NEW h \in HwStates(k),
                    NEW text \in ReadOutcomes(k, h), NEW g \in HwStates(k),
                    NEW o \in ApplyOutcomes(k, text, g)
             PROVE  IF Settable(k, h) THEN o.ok /\ o.hw = h ELSE ~o.ok
  BY DEF Restorable, RestorableAt, CanRestore, CannotRestore
<1>1. /\ h \in States(k) /\ g \in States(k) /\ text \in CurrentValue(k, h)
      /\ o \in Apply(k, text, g) /\ Reliable /\ (Settable(k, h) <=> InRange(k, h))
  BY ReadAssumption DEF RealExecutors
<1>2. CASE k = PowerPlan
  <2>0. InRange(k, h)
    BY <1>2 DEF InRange, PowerPlan, Brightness
  <2>1. h \in Schemes /\ text = GuidToAlias(h)
    BY <1>1, <1>2 DEF States, CurrentValue, PowerPlanRead
  <2>2. o \in PowerPlanApply(text, g)
    BY <1>1, <1>2 DEF Apply
  <2>3. (IF AliasToGuid(text) # {} THEN AliasToGuid(text) ELSE ParseGuid(text)) = {h}
    BY <2>1, PlansRead
  <2>4. {h} \cap Schemes = {h} /\ {h} # {}
    BY <2>1
  <2>5. PowerPlanApply(text, g) = {Success(x) : x \in {h}}
    BY <1>1, <2>3, <2>4 DEF PowerPlanApply
  <2> QED
    BY <1>1, <2>0, <2>2, <2>5 DEF Success
<1>3. CASE k = Brightness
  <2>1. PICK m : Monitors = {m}
    BY DEF RealExecutors
  <2>2. h \in [Monitors -> Levels] /\ g \in [Monitors -> Levels] /\ text = ToDecimal(h[m])
    BY <1>1, <1>3, <2>1 DEF States, CurrentValue, BrightnessRead, Brightness, PowerPlan
  <2>3. h[m] \in Nat /\ h[m] < 65536
    BY <2>1, <2>2, LevelsAssumption
  <2>4. Atoi(text) = h[m]
    BY <2>2, <2>3, LevelRoundTrip
  <2>5. o \in BrightnessApply(text, g)
    BY <1>1, <1>3 DEF Apply, Brightness, PowerPlan
  <2>6. InRange(k, h) <=> h[m] <= 100
    BY <1>3, <2>1 DEF InRange
  <2>7. CASE h[m] <= 100
    <3>1. ~(Atoi(text) < 0 \/ Atoi(text) > 100)
      BY <2>3, <2>4, <2>7
    <3>2. o = IF Monitors = {} THEN Failure(g)
              ELSE Success([n \in Monitors |-> IF n \in Monitors THEN Atoi(text) ELSE g[n]])
      BY <1>1, <2>5, <3>1 DEF BrightnessApply
    <3>3. [n \in Monitors |-> IF n \in Monitors THEN Atoi(text) ELSE g[n]] = h
      BY <2>1, <2>2, <2>4
    <3> QED
      BY <1>1, <2>1, <2>6, <2>7, <3>2, <3>3 DEF Success
  <2>8. CASE ~(h[m] <= 100)
    <3>1. Atoi(text) > 100
      BY <2>3, <2>4, <2>8
    <3>2. o = Failure(g)
      BY <2>5, <3>1 DEF BrightnessApply
    <3> QED
      BY <1>1, <2>6, <2>8, <3>2 DEF Failure
  <2> QED
    BY <2>7, <2>8
<1> QED
  BY <1>2, <1>3 DEF RealExecutors

(* With the real executors and one monitor, whatever others do to the      *)
(* hardware and whatever GUIDs and 16-bit levels there are: every state it *)
(* gets into is restored from the text that CurrentValue prints of it, but *)
(* for a level over 100, whose text Apply always refuses.                  *)
THEOREM ExecutorsCanRestore ==
  ASSUME RealExecutors
  PROVE  FaultySpec => []HardwareRestorable
<1>1. Inv => HardwareRestorable
  BY ExecutorsRestore DEF Inv, TypeOK, IsHw, Restorable, HardwareRestorable
<1> QED
  BY <1>1, InvHolds, PTL

(* With the real executors and one monitor a switch is one atomic step.    *)
(* What it may leave behind when it fails is a brightness that it found    *)
(* over 100.                                                               *)
THEOREM RealSwitchIsAtomic ==
  ASSUME RealExecutors
  PROVE  Spec => SwitchesAreAtomic
  BY ExecutorsRestore, SwitchIsAtomic
=============================================================================
