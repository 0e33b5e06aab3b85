------------------------ MODULE ProfileSessionProofs ------------------------
(***************************************************************************)
(* For any profiles, handlers, numbers of switches, and mishaps: the store *)
(* never leaves a file half written, a start seeds it completely, and a    *)
(* client is told the truth about its switches and nothing outdated.       *)
(***************************************************************************)
EXTENDS ProfileSession, TLAPS

(* A file that is about to be renamed is whole, or fell short.             *)
StoreInv ==
  /\ file \in [Files -> Int]
  /\ tmp \in Int
  /\ commits \in Nat
  /\ stage = "rename" /\ tmp = Torn => "short" \in faults
  /\ NeverHalfWritten

HandlerStates == {"idle", "list", "listed", "answered", "switch", "commit", "switched",
                  "refused", "failed"}

(* What the books of the session hold.                                     *)
SessionTypeOK ==
  /\ handler \in [Handlers -> HandlerStates]
  /\ request \in [Handlers -> 0..MaxSwitches]
  /\ waiting \in Handlers \cup {NoOne}
  /\ switches \in 0..MaxSwitches
  /\ outcome \in [1..MaxSwitches -> {"none", "ok", "refused", "failed"}]

(* No two handlers work on the same switch, and none on one that has been  *)
(* answered; done and the handlers agree.                                  *)
SessionInv ==
  /\ SessionTypeOK
  /\ done \subseteq 1..switches
  /\ \A h \in Handlers : request[h] <= switches
  /\ \A h, g \in Handlers : h # g /\ request[h] = request[g] => request[h] = 0
  /\ \A h \in Handlers : handler[h] \in {"commit", "switched"} =>
       request[h] # 0 /\ request[h] \in done
  /\ \A h \in Handlers : handler[h] \in {"switch", "refused"} =>
       request[h] # 0 /\ request[h] \notin done
  /\ \A r \in 1..MaxSwitches : outcome[r] \in {"ok", "refused"} =>
       \A h \in Handlers : request[h] # r
  /\ \A r \in 1..MaxSwitches : r > switches => outcome[r] = "none"
  /\ AnswersAreTrue

-----------------------------------------------------------------------------
(* The steps of the store.                                                 *)

(* Others write something whole, or take the file away.                    *)
LEMMA EditOfOthers ==
  ASSUME commits \in Nat, StoreEnvironment
  PROVE  \E f \in Files, c \in Int : Edit(f, c) /\ c # Torn
<1> USE DEF Torn, Ill, Absent, Files
<1>1. CASE \E p \in Profiles : Edit(p, 2) \/ Edit(p, Ill) \/ Remove(p)
  <2>1. PICK p \in Profiles, c \in {2, Ill, Absent} : Edit(p, c)
    BY <1>1 DEF Remove
  <2> QED BY <2>1
<1>2. CASE \E v \in 1..commits : Edit(Active, v)
  BY <1>2
<1>3. CASE Edit(Active, Ill) \/ Remove(Active)
  <2>1. PICK c \in {Ill, Absent} : Edit(Active, c)
    BY <1>3 DEF Remove
  <2> QED BY <2>1
<1> QED BY <1>1, <1>2, <1>3 DEF StoreEnvironment

(* Only Rename and Edit change a file, and only WriteTmp leads to Rename.  *)
LEMMA StoreNext ==
  ASSUME StoreInv, [Next]_vars
  PROVE  StoreInv'
<1> USE DEF Torn, Ill, Absent
<1>1. ASSUME UNCHANGED <<file, tmp, commits>>, faults \subseteq faults',
             stage' # "rename" \/ stage' = stage
      PROVE  StoreInv'
  BY <1>1 DEF StoreInv, NeverHalfWritten
<1>2. ASSUME UNCHANGED <<file, tmp>>, faults \subseteq faults', stage' # "rename",
             commits' \in Nat
      PROVE  StoreInv'
  BY <1>2 DEF StoreInv, NeverHalfWritten
<1>3. CASE OpenTmp
  <2>1. tmp' \in Int /\ stage' # "rename" /\ UNCHANGED <<file, commits>>
    BY <1>3 DEF OpenTmp, StoreInv
  <2>2. faults \subseteq faults'
    BY <1>3 DEF OpenTmp, AllWell, Mishap
  <2> QED BY <2>1, <2>2 DEF StoreInv, NeverHalfWritten
<1>4. CASE WriteTmp
  <2>1. UNCHANGED <<file, commits>> /\ tmp' \in Int
    BY <1>4 DEF WriteTmp, StoreInv
  <2>2. faults \subseteq faults'
    BY <1>4 DEF WriteTmp, AllWell, Mishap
  <2>3. tmp' = Torn => "short" \in faults'
    BY <1>4 DEF WriteTmp, Mishap, StoreInv
  <2> QED BY <2>1, <2>2, <2>3 DEF StoreInv, NeverHalfWritten
<1>5. CASE Rename
  <2>1. stage' # "rename" /\ tmp' \in Int /\ UNCHANGED commits
    BY <1>5 DEF Rename
  <2>2. faults \subseteq faults'
    BY <1>5 DEF Rename, AllWell, Mishap
  <2>3. file' = file \/ file' = [file EXCEPT ![target] = tmp]
    BY <1>5 DEF Rename
  <2>4. tmp = Torn => "short" \in faults
    BY <1>5 DEF Rename, StoreInv
  <2>5. file' \in [Files -> Int]
    BY <2>3 DEF StoreInv
  <2>6. \A f \in Files : file'[f] = Torn => file[f] = Torn \/ tmp = Torn
    BY <2>3 DEF StoreInv
  <2> QED BY <2>1, <2>2, <2>4, <2>5, <2>6 DEF StoreInv, NeverHalfWritten
<1>6. CASE EnsureDefaults
  <2>1. UNCHANGED <<file, tmp>> /\ faults \subseteq faults'
    BY <1>6 DEF EnsureDefaults
  <2>2. (stage' # "rename" \/ stage' = stage) /\ commits' \in Nat
    BY <1>6 DEF EnsureDefaults, BeginWrite, StoreInv
  <2> QED BY <1>6, <2>1, <2>2 DEF EnsureDefaults, StoreInv, NeverHalfWritten
<1>7. CASE SeedNext
  <2>1. UNCHANGED <<file, tmp, faults>> /\ stage' # "rename" /\ commits' \in Nat
    BY <1>7 DEF SeedNext, BeginWrite, StoreInv
  <2> QED BY <1>2, <2>1
<1>8. CASE Crash
  <2>1. UNCHANGED <<file, commits>> /\ tmp' = Absent /\ stage' = "down" /\ faults \subseteq faults'
    BY <1>8 DEF Crash, StoreCrash, Mishap
  <2> QED BY <2>1 DEF StoreInv, NeverHalfWritten
<1>9. CASE StoreEnvironment
  <2>1. PICK f \in Files, c \in Int : Edit(f, c) /\ c # Torn
    BY <1>9, EditOfOthers DEF StoreInv
  <2>2. UNCHANGED <<tmp, stage, commits>> /\ faults \subseteq faults'
          /\ file' = [file EXCEPT ![f] = c]
    BY <2>1 DEF Edit, Mishap
  <2>3. file' \in [Files -> Int] /\ \A g \in Files : file'[g] = Torn => file[g] = Torn
    <3> HIDE DEF Torn, Ill, Absent
    <3> QED BY <2>1, <2>2 DEF StoreInv
  <2> QED BY <2>2, <2>3 DEF StoreInv, NeverHalfWritten
<1>10. CASE \E h \in Handlers : \/ ListProfiles(h) \/ ListActive(h) \/ SwitchTo(h)
                                \/ SwitchToReturns(h) \/ AnswerDropped(h)
  <2> PICK h \in Handlers : \/ ListProfiles(h) \/ ListActive(h) \/ SwitchTo(h)
                            \/ SwitchToReturns(h) \/ AnswerDropped(h)
    BY <1>10
  <2>1. CASE ListProfiles(h) \/ ListActive(h) \/ AnswerDropped(h)
    <3>1. UNCHANGED <<file, tmp, commits, stage>> /\ faults \subseteq faults'
      BY <2>1 DEF ListProfiles, ListActive, AnswerDropped, storeVars
    <3> QED BY <1>1, <3>1
  <2>2. CASE SwitchTo(h)
    <3>1. UNCHANGED <<file, tmp, faults>> /\ stage' # "rename" /\ commits' \in Nat
      BY <2>2 DEF SwitchTo, BeginWrite, Unlocked, StoreInv
    <3> QED BY <1>2, <3>1
  <2>3. CASE SwitchToReturns(h)
    <3>1. UNCHANGED <<file, tmp, commits, faults>> /\ stage' # "rename"
      BY <2>3 DEF SwitchToReturns
    <3> QED BY <1>1, <3>1
  <2> QED BY <2>1, <2>2, <2>3
<1>11. CASE RequestThread \/ UNCHANGED vars
  <2>1. UNCHANGED storeVars
    BY <1>11 DEF RequestThread, RefreshProfiles, SwitchProfile, ProfilesReceived, SwitchAnswered,
                 CallFails, vars
  <2> QED BY <1>1, <2>1 DEF storeVars
<1> QED BY <1>3, <1>4, <1>5, <1>6, <1>7, <1>8, <1>9, <1>10, <1>11
        DEF Next, Service, StoreStep, WriteFile

(* Whatever goes wrong, only a write that fell short leaves a torn file.   *)
THEOREM FilesAreWhole == Spec => []NeverHalfWritten
<1>1. Init => StoreInv
  BY DEF Init, StoreInit, StoreInv, NeverHalfWritten, Absent, Torn
<1>2. StoreInv => NeverHalfWritten
  BY DEF StoreInv
<1> QED BY <1>1, <1>2, StoreNext, PTL DEF Spec

-----------------------------------------------------------------------------
(* The steps of the session.                                               *)

(* A step that changes none of the books.                                  *)
LEMMA BooksUnchanged ==
  ASSUME SessionInv, UNCHANGED <<handler, request, waiting, switches, outcome, done>>
  PROVE  SessionInv'
  BY DEF SessionInv, SessionTypeOK, AnswersAreTrue

(* The service's steps.                                                    *)
LEMMA ServiceKeeps ==
  ASSUME SessionInv, Service
  PROVE  SessionInv'
<1> USE MaxSwitchesAssumption
<1>1. CASE StoreStep /\ UNCHANGED sessionVars
  BY <1>1, BooksUnchanged DEF sessionVars
<1>2. ASSUME NEW h \in Handlers, ListProfiles(h) \/ ListActive(h)
      PROVE  SessionInv'
  <2>1. UNCHANGED <<request, waiting, switches, outcome, done>>
          /\ \E c \in {"failed", "listed", "answered"} : handler' = [handler EXCEPT ![h] = c]
    BY <1>2 DEF ListProfiles, ListActive
  <2> QED BY <2>1 DEF SessionInv, SessionTypeOK, HandlerStates, AnswersAreTrue
<1>3. ASSUME NEW h \in Handlers, SwitchTo(h)
      PROVE  SessionInv'
  <2>1. UNCHANGED <<request, waiting, switches, outcome>> /\ handler[h] = "switch"
    BY <1>3 DEF SwitchTo
  <2>2. CASE handler' = [handler EXCEPT ![h] = "commit"] /\ done' = done \cup {request[h]}
    <3>1. SessionTypeOK'
      BY <2>1, <2>2 DEF SessionInv, SessionTypeOK, HandlerStates
    <3>2. request[h] \in 1..switches /\ done' \subseteq 1..switches
      <4>1. request[h] \in 0..MaxSwitches /\ switches \in 0..MaxSwitches
        BY DEF SessionInv, SessionTypeOK
      <4>2. request[h] # 0 /\ request[h] <= switches /\ done \subseteq 1..switches
        BY <2>1 DEF SessionInv
      <4>3. request[h] \in 1..switches
        BY <4>1, <4>2
      <4> QED BY <2>2, <4>2, <4>3, Zenon
    <3>3. \A g \in Handlers : handler'[g] \in {"commit", "switched"} =>
            request[g] # 0 /\ request[g] \in done'
      BY <2>1, <2>2, <3>2 DEF SessionInv, SessionTypeOK
    <3>4. \A g \in Handlers : handler'[g] \in {"switch", "refused"} =>
            request[g] # 0 /\ request[g] \notin done'
      BY <2>1, <2>2, <3>2 DEF SessionInv, SessionTypeOK
    <3>5. AnswersAreTrue'
      BY <2>1, <2>2 DEF SessionInv, AnswersAreTrue
    <3> QED BY <2>1, <3>1, <3>2, <3>3, <3>4, <3>5 DEF SessionInv
  <2>3. CASE UNCHANGED done /\ (handler' = [handler EXCEPT ![h] = "refused"]
                                \/ handler' = [handler EXCEPT ![h] = "failed"])
    BY <2>1, <2>3 DEF SessionInv, SessionTypeOK, HandlerStates, AnswersAreTrue
  <2> QED BY <1>3, <2>2, <2>3 DEF SwitchTo
<1>4. ASSUME NEW h \in Handlers, SwitchToReturns(h)
      PROVE  SessionInv'
  BY <1>4 DEF SwitchToReturns, SessionInv, SessionTypeOK, HandlerStates, AnswersAreTrue
<1>5. ASSUME NEW h \in Handlers, AnswerDropped(h)
      PROVE  SessionInv'
  BY <1>5 DEF AnswerDropped, Released, SessionInv, SessionTypeOK, HandlerStates, AnswersAreTrue
<1> QED BY <1>1, <1>2, <1>3, <1>4, <1>5 DEF Service

(* The steps of the request thread.                                        *)
LEMMA RequestKeeps ==
  ASSUME SessionInv, RequestThread
  PROVE  SessionInv'
<1> USE MaxSwitchesAssumption, NoOneAssumption
<1>1. CASE RefreshProfiles
  <2>1. PICK h \in Handlers : Call(h, "list", 0)
    BY <1>1 DEF RefreshProfiles
  <2> QED BY <1>1, <2>1 DEF RefreshProfiles, Call, SessionInv, SessionTypeOK, HandlerStates,
                            AnswersAreTrue
<1>2. CASE SwitchProfile
  <2>1. switches' = switches + 1 /\ switches' \in 1..MaxSwitches /\ UNCHANGED done
    BY <1>2 DEF SwitchProfile, SessionInv, SessionTypeOK
  <2>2. CASE Up
    <3>1. PICK h \in Handlers : Call(h, "switch", switches') /\ UNCHANGED outcome
      BY <1>2, <2>2 DEF SwitchProfile
    <3> QED BY <2>1, <3>1 DEF Call, SessionInv, SessionTypeOK, HandlerStates, AnswersAreTrue
  <2>3. CASE ~Up
    <3>1. outcome' = [outcome EXCEPT ![switches'] = "failed"]
            /\ UNCHANGED <<handler, waiting, request>>
      BY <1>2, <2>3 DEF SwitchProfile
    <3> QED BY <2>1, <3>1 DEF SessionInv, SessionTypeOK, AnswersAreTrue
  <2> QED BY <2>2, <2>3
<1>3. CASE ProfilesReceived
  <2>1. waiting \in Handlers
    BY <1>3 DEF ProfilesReceived, SessionInv, SessionTypeOK
  <2> QED BY <1>3, <2>1 DEF ProfilesReceived, Released, SessionInv, SessionTypeOK, HandlerStates,
                            AnswersAreTrue
<1>4. CASE SwitchAnswered
  <2>1. waiting \in Handlers /\ UNCHANGED <<switches, done>>
    BY <1>4 DEF SwitchAnswered, SessionInv, SessionTypeOK
  <2>2. request[waiting] \in 1..MaxSwitches /\ (handler[waiting] = "switched" <=> request[waiting] \in done)
    BY <1>4, <2>1 DEF SwitchAnswered, SessionInv, SessionTypeOK
  <2>3. outcome' = [outcome EXCEPT ![request[waiting]] =
                      IF handler[waiting] = "switched" THEN "ok" ELSE "refused"]
    BY <1>4 DEF SwitchAnswered
  <2>4. request' = [request EXCEPT ![waiting] = 0] /\ waiting' \in Handlers \cup {NoOne}
          /\ \E c \in {"list", "idle"} : handler' = [handler EXCEPT ![waiting] = c]
    BY <1>4, <2>1 DEF SwitchAnswered, Call, Released
  <2> QED BY <2>1, <2>2, <2>3, <2>4 DEF SessionInv, SessionTypeOK, HandlerStates, AnswersAreTrue
<1>5. CASE CallFails
  <2>1. waiting \in Handlers /\ waiting' = NoOne /\ UNCHANGED <<switches, done>>
    BY <1>5 DEF CallFails, SessionInv, SessionTypeOK
  <2>2. outcome' = outcome \/ (/\ request[waiting] # 0
                               /\ outcome' = [outcome EXCEPT ![request[waiting]] = "failed"])
    BY <1>5 DEF CallFails
  <2>3. \/ UNCHANGED <<handler, request>>
        \/ handler' = [handler EXCEPT ![waiting] = "idle"] /\ request' = [request EXCEPT ![waiting] = 0]
    BY <1>5 DEF CallFails, Released
  <2>4. \A h \in Handlers : request'[h] = request[h] \/ request'[h] = 0
    BY <2>1, <2>3 DEF SessionInv, SessionTypeOK
  <2>5. \A n \in 1..MaxSwitches : outcome'[n] = outcome[n]
                                  \/ (n <= switches /\ outcome'[n] = "failed")
    BY <2>1, <2>2 DEF SessionInv, SessionTypeOK
  <2>6. SessionTypeOK'
    <3>1. outcome' \in [1..MaxSwitches -> {"none", "ok", "refused", "failed"}]
      BY <2>1, <2>2 DEF SessionInv, SessionTypeOK
    <3>2. handler' \in [Handlers -> HandlerStates] /\ request' \in [Handlers -> 0..MaxSwitches]
      BY <2>1, <2>3 DEF SessionInv, SessionTypeOK, HandlerStates
    <3> QED BY <2>1, <3>1, <3>2 DEF SessionInv, SessionTypeOK
  <2>7. \A h \in Handlers : handler'[h] = "idle"
                             \/ (handler'[h] = handler[h] /\ request'[h] = request[h])
    BY <2>1, <2>3 DEF SessionInv, SessionTypeOK
  <2>8. \A h \in Handlers : request'[h] <= switches
    BY <2>4 DEF SessionInv, SessionTypeOK
  <2>9. AnswersAreTrue'
    BY <2>1, <2>5 DEF SessionInv, AnswersAreTrue
  <2>10. \A h, g \in Handlers : h # g /\ request'[h] = request'[g] => request'[h] = 0
    BY <2>4 DEF SessionInv
  <2>11. \A h \in Handlers :
           /\ handler'[h] \in {"commit", "switched"} => request'[h] # 0 /\ request'[h] \in done
           /\ handler'[h] \in {"switch", "refused"} => request'[h] # 0 /\ request'[h] \notin done
    BY <2>7 DEF SessionInv
  <2>12. \A n \in 1..MaxSwitches : outcome'[n] \in {"ok", "refused"} =>
           \A h \in Handlers : request'[h] # n
    BY <2>4, <2>5 DEF SessionInv
  <2>13. \A n \in 1..MaxSwitches : n > switches => outcome'[n] = "none"
    BY <2>5 DEF SessionInv, SessionTypeOK
  <2> QED BY <2>1, <2>6, <2>8, <2>9, <2>10, <2>11, <2>12, <2>13 DEF SessionInv
<1> QED BY <1>1, <1>2, <1>3, <1>4, <1>5 DEF RequestThread

(* Every step keeps the books.                                             *)
LEMMA SessionNext ==
  ASSUME SessionInv, [Next]_vars
  PROVE  SessionInv'
<1>1. CASE Crash
  BY <1>1 DEF Crash, SessionInv, SessionTypeOK, HandlerStates, AnswersAreTrue
<1>2. CASE StoreEnvironment /\ UNCHANGED sessionVars
  BY <1>2, BooksUnchanged DEF sessionVars
<1>3. CASE UNCHANGED vars
  BY <1>3, BooksUnchanged DEF vars, sessionVars
<1> QED BY <1>1, <1>2, <1>3, ServiceKeeps, RequestKeeps DEF Next

(* The session starts with empty books.                                    *)
LEMMA SessionInit == Init => SessionInv
  BY MaxSwitchesAssumption
  DEF Init, SessionInv, SessionTypeOK, HandlerStates, AnswersAreTrue

(* An ok was carried out and a refusal never is, although calls that the   *)
(* client has given up on go on, and the service may crash.                *)
THEOREM AnswersTrue == Spec => []AnswersAreTrue
<1>1. SessionInv => AnswersAreTrue
  BY DEF SessionInv
<1> QED BY <1>1, SessionInit, SessionNext, PTL DEF Spec

-----------------------------------------------------------------------------
(* What a start leaves behind.                                             *)

Writing == stage \in {"open", "write", "rename", "written"}

(* EnsureDefaults is writing.                                              *)
Seeding == Writing /\ owner = NoOne

(* Who writes what: EnsureDefaults anything, a handler only active.json,   *)
(* and what is about to be renamed is what was meant.                      *)
Writers ==
  /\ stage \in {"down", "open", "write", "rename", "written", "ready"}
  /\ owner \in Handlers \cup {NoOne}
  /\ target \in Files
  /\ file \in [Files -> Int] /\ tmp \in Int
  /\ commits \in Nat
  /\ fresh \in BOOLEAN
  /\ owner # NoOne => Writing /\ target = Active
  /\ Writing /\ target = Active => commits > 0
  /\ stage = "rename" /\ "short" \notin faults => tmp = IF target = Active THEN commits ELSE 1

(* Every default and the active id are there.                              *)
Seeded == ActiveId > 0 /\ \A p \in Profiles : file[p] = 1

(* The defaults up to the one being written are there.                     *)
SeededSoFar ==
  /\ \A i, j \in 1..Len(Defaults) :
       target = Defaults[j] /\ (i < j \/ (i = j /\ stage = "written")) => file[Defaults[i]] = 1
  /\ target = Active => \A p \in Profiles : file[p] = 1
  /\ target = Active /\ stage = "written" => file[Active] > 0

(* A directory that was empty: nothing or everything is there when the     *)
(* process is down.                                                        *)
FromNothing ==
  /\ Up => Seeded
  /\ stage = "down" => Seeded \/ \A f \in Files : file[f] = Absent
  /\ Seeding => SeededSoFar

(* A directory with a profile is not seeded.                               *)
FromSomething ==
  /\ ~Seeding
  /\ \A p \in Profiles : file[p] = IF p = Defaults[1] THEN 2 ELSE Absent

(* However often a start dies, the next one finds nothing or something.    *)
SomethingLeft ==
  /\ Up => List # {}
  /\ Seeding => (target = Defaults[1] /\ stage # "written") \/ List # {}

SeedInv ==
  /\ Writers
  /\ faults \subseteq {"crashed"} => IF fresh THEN FromNothing ELSE FromSomething
  /\ faults \subseteq {"crashed", "interrupted"} => SomethingLeft

(* After any other mishap only the writers' discipline is left to show.    *)
LEMMA Spoilt ==
  ASSUME Writers', NEW kind \in {"failed", "short", "edited", "reset", "threw"}, kind \in faults'
  PROVE  SeedInv'
<1>1. ~(faults' \subseteq {"crashed"}) /\ ~(faults' \subseteq {"crashed", "interrupted"})
  OBVIOUS
<1> QED
  BY <1>1 DEF SeedInv

(* A step that leaves the files and the writer alone.                      *)
LEMMA SameStore ==
  ASSUME SeedInv, UNCHANGED <<file, tmp, stage, target, owner, commits, fresh>>,
         faults \subseteq faults'
  PROVE  SeedInv'
<1>1. Writers'
  BY DEF SeedInv, Writers, Writing
<1>2. /\ FromNothing' <=> FromNothing
      /\ FromSomething' <=> FromSomething
      /\ SomethingLeft' <=> SomethingLeft
  BY DEF FromNothing, FromSomething, SomethingLeft, Up, Seeded, SeededSoFar, Seeding, Writing,
         ActiveId, List
<1>3. /\ faults' \subseteq {"crashed"} => faults \subseteq {"crashed"}
      /\ faults' \subseteq {"crashed", "interrupted"} => faults \subseteq {"crashed", "interrupted"}
  OBVIOUS
<1> QED
  BY <1>1, <1>2, <1>3 DEF SeedInv

(* The first default is a profile.                                         *)
LEMMA FirstDefault == /\ Len(Defaults) \in Nat \ {0} /\ 1 \in 1..Len(Defaults)
                      /\ Defaults[1] \in Profiles /\ Defaults[1] # Active
<1>1. Len(Defaults) \in Nat \ {0}
  BY DefaultsAssumption
<1>2. 1 \in 1..Len(Defaults)
  BY <1>1
<1> QED
  BY <1>1, <1>2, DefaultsAssumption DEF Profiles

(* Writing the temporary file.                                             *)
LEMMA TmpKeeps ==
  ASSUME SeedInv, OpenTmp \/ WriteTmp
  PROVE  SeedInv'
<1>1. UNCHANGED <<file, target, owner, commits, fresh>> /\ Writing
  BY DEF OpenTmp, WriteTmp, Writing
<1>2. Writers
  BY DEF SeedInv
<1>3. CASE OpenTmp /\ stage' = "write" /\ AllWell
  <2>1. Writers'
    BY <1>1, <1>2, <1>3 DEF OpenTmp, Writers, Writing, AllWell, Torn
  <2>2. stage = "open" /\ faults' = faults
    BY <1>3 DEF OpenTmp, AllWell
  <2>3. (FromNothing => FromNothing') /\ (FromSomething => FromSomething')
        /\ (SomethingLeft => SomethingLeft')
    BY <1>1, <1>3, <2>2 DEF FromNothing, FromSomething, SomethingLeft, Up, Seeded, SeededSoFar,
                            Seeding, Writing, ActiveId, List
  <2> QED
    BY <1>1, <2>1, <2>2, <2>3 DEF SeedInv
<1>4. CASE OpenTmp /\ stage' = "written" /\ Mishap("failed")
  <2>1. "failed" \in faults'
    BY <1>4 DEF Mishap
  <2>2. Writers'
    BY <1>1, <1>2, <1>4 DEF OpenTmp, Writers, Writing, Torn
  <2> QED
    BY <2>1, <2>2, Spoilt
<1>5. CASE WriteTmp /\ AllWell /\ tmp' = (IF target = Active THEN commits ELSE 1)
  <2>1. stage = "write" /\ stage' = "rename" /\ faults' = faults
    BY <1>5 DEF WriteTmp, AllWell
  <2>2. Writers'
    BY <1>1, <1>2, <1>5, <2>1 DEF Writers, Writing
  <2>3. (FromNothing => FromNothing') /\ (FromSomething => FromSomething')
        /\ (SomethingLeft => SomethingLeft')
    BY <1>1, <2>1 DEF FromNothing, FromSomething, SomethingLeft, Up, Seeded, SeededSoFar,
                      Seeding, Writing, ActiveId, List
  <2> QED
    BY <1>1, <2>1, <2>2, <2>3 DEF SeedInv
<1>6. CASE WriteTmp /\ Mishap("short")
  <2>1. "short" \in faults' /\ stage' = "rename"
    BY <1>6 DEF WriteTmp, Mishap
  <2>2. Writers'
    BY <1>1, <1>2, <1>6, <2>1 DEF WriteTmp, Writers, Writing
  <2> QED
    BY <2>1, <2>2, Spoilt
<1> QED
  BY <1>3, <1>4, <1>5, <1>6 DEF OpenTmp, WriteTmp

(* The rename puts the new file in its place.                              *)
LEMMA RenameKeeps ==
  ASSUME SeedInv, Rename
  PROVE  SeedInv'
<1>1. /\ UNCHANGED <<target, owner, commits, fresh>> /\ stage = "rename" /\ stage' = "written"
      /\ target \in Files /\ file \in [Files -> Int] /\ commits \in Nat
  BY DEF Rename, SeedInv, Writers
<1>2. CASE Mishap("failed") /\ UNCHANGED file
  <2>1. "failed" \in faults'
    BY <1>2 DEF Mishap
  <2>2. Writers'
    BY <1>1, <1>2 DEF Rename, SeedInv, Writers, Writing, Absent
  <2> QED
    BY <2>1, <2>2, Spoilt
<1>3. CASE AllWell /\ file' = [file EXCEPT ![target] = tmp] /\ "short" \in faults
  <2>1. "short" \in faults'
    BY <1>3 DEF AllWell
  <2>2. Writers'
    BY <1>1, <1>3 DEF Rename, SeedInv, Writers, Writing, Absent
  <2> QED
    BY <2>1, <2>2, Spoilt
<1>4. CASE AllWell /\ file' = [file EXCEPT ![target] = tmp] /\ "short" \notin faults
  <2>1. faults' = faults /\ tmp = IF target = Active THEN commits ELSE 1
    BY <1>1, <1>4 DEF SeedInv, Writers, AllWell
  <2>2. target = Active => commits > 0
    BY <1>1 DEF SeedInv, Writers, Writing
  <2>3. tmp \in Int /\ tmp > 0
    BY <1>1, <2>1, <2>2
  <2>4. Writers'
    BY <1>1, <1>4, <2>3 DEF Rename, SeedInv, Writers, Writing, Absent
  <2>5. /\ \A p \in Profiles : file'[p] = IF p = target THEN 1 ELSE file[p]
        /\ file'[Active] = IF Active = target THEN tmp ELSE file[Active]
    BY <1>1, <1>4, <2>1, DefaultsAssumption DEF Files
  <2>6. List \subseteq List' /\ (target # Active => target \in List')
    <3>1. target # Active => target \in Profiles
      BY <1>1 DEF Files
    <3> QED
      BY <2>5, <3>1 DEF List
  <2>7. SomethingLeft => SomethingLeft'
    <3>1. Up' => Up
      BY <1>1 DEF Up
    <3>2. Seeding' => Seeding
      BY <1>1 DEF Seeding, Writing
    <3>3. target = Defaults[1] => List' # {}
      BY <2>6, FirstDefault
    <3> QED
      BY <1>1, <2>6, <3>1, <3>2, <3>3 DEF SomethingLeft
  <2>8. FromNothing => FromNothing'
    <3> SUFFICES ASSUME FromNothing PROVE FromNothing'
      OBVIOUS
    <3>1. stage' # "down"
      BY <1>1
    <3>2. Up' => Seeded'
      <4> SUFFICES ASSUME Up' PROVE Seeded'
        OBVIOUS
      <4>1. Up /\ owner # NoOne
        BY <1>1 DEF Up
      <4>2. target = Active
        BY <4>1 DEF SeedInv, Writers
      <4>3. Seeded
        BY <4>1 DEF FromNothing
      <4> QED
        BY <2>3, <2>5, <4>2, <4>3, DefaultsAssumption DEF Seeded, ActiveId
    <3>3. Seeding' => SeededSoFar'
      <4> SUFFICES ASSUME Seeding PROVE SeededSoFar'
        BY <1>1 DEF Seeding, Writing
      <4>1. SeededSoFar
        BY DEF FromNothing
      <4>2. ASSUME NEW i \in 1..Len(Defaults), NEW j \in 1..Len(Defaults),
                   target = Defaults[j], i < j \/ i = j
            PROVE  file'[Defaults[i]] = 1
        <5>1. Defaults[i] \in Profiles
          BY DEF Profiles
        <5>2. i < j => file[Defaults[i]] = 1
          BY <4>1, <4>2 DEF SeededSoFar
        <5> QED
          BY <2>5, <4>2, <5>1, <5>2
      <4>3. target = Active => (\A p \in Profiles : file'[p] = 1) /\ file'[Active] > 0
        BY <2>3, <2>5, <4>1, DefaultsAssumption DEF SeededSoFar
      <4> QED
        BY <1>1, <4>2, <4>3 DEF SeededSoFar
    <3> QED
      BY <3>1, <3>2, <3>3 DEF FromNothing
  <2>9. FromSomething => FromSomething'
    <3> SUFFICES ASSUME FromSomething PROVE FromSomething'
      OBVIOUS
    <3>1. owner # NoOne
      BY <1>1 DEF FromSomething, Seeding, Writing
    <3>2. target = Active
      BY <3>1 DEF SeedInv, Writers
    <3> QED
      BY <1>1, <2>5, <3>1, <3>2, DefaultsAssumption DEF FromSomething, Seeding
  <2> QED
    BY <1>1, <2>1, <2>4, <2>7, <2>8, <2>9 DEF SeedInv
<1> QED
  BY <1>2, <1>3, <1>4 DEF Rename

(* The beginning of EnsureDefaults.                                        *)
LEMMA EnsureKeeps ==
  ASSUME SeedInv, EnsureDefaults
  PROVE  SeedInv'
<1>1. stage = "down" /\ UNCHANGED <<file, tmp, fresh>> /\ Writers
  BY DEF EnsureDefaults, SeedInv
<1>2. owner = NoOne
  BY <1>1 DEF Writers, Writing
<1>3. CASE ListThrows
  <2>1. faults \subseteq faults' /\ UNCHANGED <<stage, target, owner, commits>>
    BY <1>3 DEF EnsureDefaults
  <2> QED
    BY <1>1, <2>1, SameStore
<1>4. CASE ~ListThrows /\ List # {}
  <2>1. stage' = "ready" /\ UNCHANGED <<target, owner, commits, faults>>
    BY <1>4 DEF EnsureDefaults
  <2>2. Writers'
    BY <1>1, <1>2, <2>1 DEF Writers, Writing
  <2>3. SomethingLeft'
    BY <1>1, <1>4, <2>1 DEF SomethingLeft, Seeding, Writing, List
  <2>4. FromSomething => FromSomething'
    BY <1>1, <2>1 DEF FromSomething, Seeding, Writing
  <2>5. FromNothing => FromNothing'
    <3> SUFFICES ASSUME FromNothing PROVE FromNothing'
      OBVIOUS
    <3>1. PICK p \in Profiles : file[p] > 0
      BY <1>4 DEF List
    <3>2. ~\A f \in Files : file[f] = Absent
      BY <3>1 DEF Files, Absent
    <3>3. Seeded
      BY <1>1, <3>2 DEF FromNothing
    <3> QED
      BY <1>1, <2>1, <3>3 DEF FromNothing, Seeded, ActiveId, Seeding, Writing
  <2> QED
    BY <1>1, <2>1, <2>2, <2>3, <2>4, <2>5 DEF SeedInv
<1>5. CASE ~ListThrows /\ List = {}
  <2>1. /\ stage' = "open" /\ target' = Defaults[1] /\ owner' = NoOne
        /\ UNCHANGED <<commits, faults>>
    BY <1>5, FirstDefault DEF EnsureDefaults, BeginWrite
  <2>2. Writers'
    BY <1>1, <2>1, FirstDefault DEF Writers, Writing, Files
  <2>3. SomethingLeft'
    BY <2>1 DEF SomethingLeft, Up
  <2>4. ~FromSomething
    BY <1>5, FirstDefault DEF FromSomething, List
  <2>5. FromNothing'
    <3>1. ~Up' /\ stage' # "down"
      BY <2>1 DEF Up
    <3>2. ASSUME NEW i \in 1..Len(Defaults), NEW j \in 1..Len(Defaults), target' = Defaults[j]
          PROVE  ~(i < j)
      <4>1. j = 1
        BY <2>1, <3>2, FirstDefault, DefaultsAssumption
      <4> QED
        BY <4>1, FirstDefault
    <3>3. SeededSoFar'
      BY <2>1, <3>2, FirstDefault DEF SeededSoFar
    <3> QED
      BY <3>1, <3>3 DEF FromNothing
  <2> QED
    BY <1>1, <2>1, <2>2, <2>3, <2>4, <2>5 DEF SeedInv
<1> QED
  BY <1>3, <1>4, <1>5

(* From one default to the next, to the active id, to the end.             *)
LEMMA SeedingKeeps ==
  ASSUME SeedInv, SeedNext
  PROVE  SeedInv'
<1>1. /\ stage = "written" /\ owner = NoOne /\ UNCHANGED <<file, tmp, faults, fresh>>
      /\ Writers /\ Seeding /\ commits \in Nat
  BY DEF SeedNext, SeedInv, Writers, Seeding, Writing
<1>2. /\ List' = List
      /\ faults \subseteq {"crashed"} => fresh /\ SeededSoFar
      /\ faults \subseteq {"crashed", "interrupted"} => List # {}
  BY <1>1 DEF SeedInv, FromNothing, FromSomething, SomethingLeft, List
<1>3. ASSUME Writers', List # {} => SomethingLeft', faults \subseteq {"crashed"} => FromNothing'
      PROVE  SeedInv'
  BY <1>1, <1>2, <1>3 DEF SeedInv
<1>4. CASE \E i \in 1..(Len(Defaults) - 1) : target = Defaults[i]
  <2>1. PICK n \in 1..(Len(Defaults) - 1) :
          target = Defaults[n] /\ BeginWrite(Defaults[n + 1], NoOne)
    BY <1>4 DEF SeedNext
  <2>2. n \in 1..Len(Defaults) /\ n + 1 \in 1..Len(Defaults) /\ n \in Nat
    BY <2>1, FirstDefault
  <2>3. Defaults[n + 1] \in Profiles /\ Defaults[n + 1] # Active
    BY <2>2, DefaultsAssumption DEF Profiles
  <2>4. /\ stage' = "open" /\ target' = Defaults[n + 1] /\ owner' = NoOne
        /\ UNCHANGED commits
    BY <2>1, <2>3 DEF BeginWrite
  <2>5. Writers'
    BY <1>1, <2>3, <2>4 DEF Writers, Writing, Files
  <2>6. List # {} => SomethingLeft'
    BY <1>2, <2>4 DEF SomethingLeft, Up
  <2>7. ASSUME SeededSoFar PROVE FromNothing'
    <3>1. ~Up' /\ stage' # "down"
      BY <2>4 DEF Up
    <3>2. ASSUME NEW i \in 1..Len(Defaults), NEW j \in 1..Len(Defaults),
                 target' = Defaults[j], i < j
          PROVE  file[Defaults[i]] = 1
      <4>1. j = n + 1
        BY <2>2, <2>4, <3>2, DefaultsAssumption
      <4>2. i < n \/ i = n
        BY <2>2, <3>2, <4>1
      <4> QED
        BY <1>1, <2>1, <2>2, <2>7, <4>2 DEF SeededSoFar
    <3>3. SeededSoFar'
      BY <1>1, <2>3, <2>4, <3>2 DEF SeededSoFar
    <3> QED
      BY <3>1, <3>3 DEF FromNothing
  <2> QED
    BY <1>2, <1>3, <2>5, <2>6, <2>7
<1>5. ASSUME ~\E i \in 1..(Len(Defaults) - 1) : target = Defaults[i], SeededSoFar, target # Active
      PROVE  \A p \in Profiles : file[p] = 1
  <2>1. target \in Profiles
    BY <1>1, <1>5 DEF Writers, Files
  <2>2. PICK n \in 1..Len(Defaults) : target = Defaults[n]
    BY <2>1 DEF Profiles
  <2>3. n = Len(Defaults)
    BY <1>5, <2>2, FirstDefault
  <2>4. ASSUME NEW i \in 1..Len(Defaults) PROVE file[Defaults[i]] = 1
    <3>1. i < n \/ i = n
      BY <2>3, FirstDefault
    <3> QED
      BY <1>1, <1>5, <2>2, <3>1 DEF SeededSoFar
  <2> QED
    BY <2>4 DEF Profiles
<1>6. CASE /\ ~\E i \in 1..(Len(Defaults) - 1) : target = Defaults[i]
           /\ target # Active /\ ActiveId = 0
  <2>1. stage' = "open" /\ target' = Active /\ owner' = NoOne /\ commits' = commits + 1
    BY <1>6 DEF SeedNext, BeginWrite
  <2>2. Writers'
    <3>1. commits' \in Nat /\ commits' > 0
      BY <1>1, <2>1
    <3> QED
      BY <1>1, <2>1, <3>1 DEF Writers, Writing, Files
  <2>3. List # {} => SomethingLeft'
    BY <1>2, <2>1 DEF SomethingLeft, Up
  <2>4. ASSUME SeededSoFar PROVE FromNothing'
    <3>1. ~Up' /\ stage' # "down"
      BY <2>1 DEF Up
    <3>2. \A j \in 1..Len(Defaults) : Defaults[j] # Active
      BY DefaultsAssumption DEF Profiles
    <3>3. SeededSoFar'
      BY <1>1, <1>5, <1>6, <2>1, <2>4, <3>2 DEF SeededSoFar
    <3> QED
      BY <3>1, <3>3 DEF FromNothing
  <2> QED
    BY <1>2, <1>3, <2>2, <2>3, <2>4
<1>7. CASE /\ ~\E i \in 1..(Len(Defaults) - 1) : target = Defaults[i]
           /\ ~(target # Active /\ ActiveId = 0)
  <2>1. stage' = "ready" /\ UNCHANGED <<target, owner, commits>>
    BY <1>7 DEF SeedNext
  <2>2. Writers'
    BY <1>1, <2>1 DEF Writers, Writing
  <2>3. List # {} => SomethingLeft'
    BY <1>2, <2>1 DEF SomethingLeft, Seeding, Writing
  <2>4. ASSUME SeededSoFar PROVE FromNothing'
    <3>1. \A p \in Profiles : file[p] = 1
      BY <1>5, <1>7, <2>4 DEF SeededSoFar
    <3>2. ActiveId > 0
      <4>1. CASE target = Active
        BY <1>1, <2>4, <4>1 DEF SeededSoFar, ActiveId
      <4>2. CASE target # Active
        BY <1>7, <4>2 DEF ActiveId
      <4> QED
        BY <4>1, <4>2
    <3> QED
      BY <1>1, <2>1, <3>1, <3>2 DEF FromNothing, Seeded, ActiveId, Seeding, Writing
  <2> QED
    BY <1>2, <1>3, <2>2, <2>3, <2>4
<1> QED
  BY <1>4, <1>6, <1>7

(* A handler takes the mutex to write active.json, and gives it back.      *)
LEMMA SwitchKeeps ==
  ASSUME SeedInv, NEW h \in Handlers, SwitchTo(h) \/ SwitchToReturns(h)
  PROVE  SeedInv'
<1>1. UNCHANGED <<file, tmp, faults, fresh>> /\ Writers /\ h # NoOne
  BY NoOneAssumption DEF SwitchTo, SwitchToReturns, SeedInv
<1>2. CASE SwitchTo(h) /\ BeginWrite(Active, h)
  <2>1. /\ stage = "ready" /\ stage' = "open" /\ target' = Active /\ owner' = h
        /\ commits' = commits + 1
    BY <1>2 DEF SwitchTo, Unlocked, BeginWrite
  <2>2. Writers'
    <3>1. commits' \in Nat /\ commits' > 0
      BY <1>1, <2>1 DEF Writers
    <3> QED
      BY <1>1, <2>1, <3>1 DEF Writers, Writing, Files
  <2>3. Up /\ Up' /\ ~Seeding' /\ ~Seeding
    BY <1>1, <2>1 DEF Up, Seeding, Writing
  <2>4. (FromNothing => FromNothing') /\ (FromSomething => FromSomething')
        /\ (SomethingLeft => SomethingLeft')
    BY <1>1, <2>1, <2>3 DEF FromNothing, FromSomething, SomethingLeft, Seeded, ActiveId, List
  <2> QED
    BY <1>1, <2>2, <2>4 DEF SeedInv
<1>3. CASE UNCHANGED <<stage, target, owner, commits>>
  BY <1>1, <1>3, SameStore
<1>4. CASE SwitchToReturns(h)
  <2>1. /\ stage = "written" /\ owner = h /\ stage' = "ready" /\ owner' = NoOne
        /\ UNCHANGED <<target, commits>>
    BY <1>4 DEF SwitchToReturns
  <2>2. Writers'
    BY <1>1, <2>1 DEF Writers, Writing
  <2>3. Up /\ Up' /\ ~Seeding' /\ ~Seeding
    BY <1>1, <2>1 DEF Up, Seeding, Writing
  <2>4. (FromNothing => FromNothing') /\ (FromSomething => FromSomething')
        /\ (SomethingLeft => SomethingLeft')
    BY <1>1, <2>1, <2>3 DEF FromNothing, FromSomething, SomethingLeft, Seeded, ActiveId, List
  <2> QED
    BY <1>1, <2>2, <2>4 DEF SeedInv
<1> QED
  BY <1>2, <1>3, <1>4 DEF SwitchTo

(* A crash, in the middle of a start or later.                             *)
LEMMA CrashKeeps ==
  ASSUME SeedInv, StoreCrash
  PROVE  SeedInv'
<1>1. /\ stage # "down" /\ stage' = "down" /\ owner' = NoOne /\ target' = Active /\ tmp' = Absent
      /\ UNCHANGED <<file, commits, fresh>> /\ Writers
  BY DEF StoreCrash, SeedInv
<1>2. Writers'
  BY <1>1 DEF Writers, Writing, Files, Absent
<1>3. ~Up' /\ ~Seeding'
  BY <1>1 DEF Up, Seeding, Writing
<1>4. SomethingLeft'
  BY <1>3 DEF SomethingLeft
<1>5. ASSUME faults' \subseteq {"crashed"} PROVE IF fresh THEN FromNothing' ELSE FromSomething'
  <2>1. faults \subseteq {"crashed"} /\ ~(stage # "ready" /\ owner = NoOne)
    BY <1>5 DEF StoreCrash, Mishap
  <2>2. Up
    BY <1>1, <2>1 DEF Up
  <2>3. CASE fresh
    <3>1. Seeded
      BY <2>1, <2>2, <2>3 DEF SeedInv, FromNothing
    <3> QED
      BY <1>1, <1>3, <2>3, <3>1 DEF FromNothing, Seeded, ActiveId
  <2>4. CASE ~fresh
    BY <1>1, <1>3, <2>1, <2>4 DEF SeedInv, FromSomething
  <2> QED
    BY <2>3, <2>4
<1> QED
  BY <1>1, <1>2, <1>4, <1>5 DEF SeedInv

(* Every step.                                                             *)
LEMMA SeedKeeps ==
  ASSUME SeedInv, [Next]_vars
  PROVE  SeedInv'
<1>1. CASE StoreStep
  BY <1>1, TmpKeeps, RenameKeeps, EnsureKeeps, SeedingKeeps DEF StoreStep, WriteFile
<1>2. ASSUME NEW h \in Handlers, SwitchTo(h) \/ SwitchToReturns(h) PROVE SeedInv'
  BY <1>2, SwitchKeeps
<1>3. ASSUME NEW h \in Handlers, ListProfiles(h) \/ ListActive(h) \/ AnswerDropped(h)
      PROVE  SeedInv'
  <2>1. UNCHANGED <<file, tmp, stage, target, owner, commits, fresh>> /\ faults \subseteq faults'
    BY <1>3 DEF ListProfiles, ListActive, AnswerDropped, storeVars
  <2> QED
    BY <2>1, SameStore
<1>4. CASE Crash
  BY <1>4, CrashKeeps DEF Crash
<1>5. CASE RequestThread \/ UNCHANGED vars
  <2>1. UNCHANGED storeVars
    BY <1>5 DEF RequestThread, RefreshProfiles, SwitchProfile, ProfilesReceived, SwitchAnswered,
                CallFails, vars
  <2> QED
    BY <2>1, SameStore DEF storeVars
<1>6. CASE StoreEnvironment
  <2>1. PICK f \in Files, c \in Int : Edit(f, c)
    BY <1>6, EditOfOthers DEF SeedInv, Writers
  <2>2. /\ UNCHANGED <<tmp, stage, target, owner, commits, fresh>>
        /\ faults \subseteq faults' /\ file' = [file EXCEPT ![f] = c]
    BY <2>1 DEF Edit, Mishap
  <2>3. file' \in [Files -> Int]
    BY <2>2 DEF SeedInv, Writers
  <2>4. Writers'
    BY <2>2, <2>3 DEF SeedInv, Writers, Writing
  <2>5. "edited" \in faults' \/ "reset" \in faults'
    BY <2>1 DEF Edit, Mishap
  <2> QED
    BY <2>4, <2>5, Spoilt
<1> QED
  BY <1>1, <1>2, <1>3, <1>4, <1>5, <1>6 DEF Next, Service

(* The store starts with what it finds.                                    *)
LEMMA SeedInit == Init => SeedInv
<1> SUFFICES ASSUME Init PROVE SeedInv
  OBVIOUS
<1>1. /\ fresh \in BOOLEAN /\ stage = "down" /\ owner = NoOne /\ target = Active /\ tmp = Absent
      /\ commits = 0
      /\ file = [f \in Files |-> IF f = Defaults[1] /\ ~fresh THEN 2 ELSE Absent]
  BY DEF Init, StoreInit
<1>2. Writers
  BY <1>1 DEF Writers, Writing, Files, Absent
<1>3. ~Up /\ ~Seeding
  BY <1>1 DEF Up, Seeding, Writing
<1> QED
  BY <1>1, <1>2, <1>3, FirstDefault
     DEF SeedInv, FromNothing, FromSomething, SomethingLeft, Files

(* An undisturbed start leaves all the defaults and an active id, or the   *)
(* user's profiles alone, and one that died leaves something to the next:  *)
(* for every list of defaults and every number of crashes.                 *)
THEOREM SeedsAreComplete == Spec => []SeedsComplete
<1>1. SeedInv => SeedsComplete
  <2> SUFFICES ASSUME SeedInv, stage = "ready"
               PROVE  /\ faults \subseteq {"crashed"} =>
                           IF fresh THEN ActiveId > 0 /\ \A p \in Profiles : file[p] = 1
                                    ELSE List = {Defaults[1]} /\ file[Defaults[1]] = 2
                      /\ faults \subseteq {"crashed", "interrupted"} => List # {}
    BY DEF SeedsComplete
  <2>1. Up
    BY DEF Up
  <2>2. FromSomething => List = {Defaults[1]} /\ file[Defaults[1]] = 2
    BY FirstDefault DEF FromSomething, List, Absent
  <2> QED
    BY <2>1, <2>2 DEF SeedInv, FromNothing, SomethingLeft, Seeded
<1> QED
  BY <1>1, SeedInit, SeedKeeps, PTL DEF Spec

-----------------------------------------------------------------------------
(* What a list may show: the active id only grows, so that what a handler  *)
(* reads is no older than what was there when its call began.              *)
FreshInv ==
  /\ answer \in [Handlers -> [list : SUBSET Profiles, active : Int]]
  /\ began \in [Handlers -> Int]
  /\ ActiveKept => file[Active] <= commits
  /\ ActiveKept => \A h \in Handlers : began[h] <= ActiveId
  /\ ActiveKept =>
       \A h \in Handlers : handler[h] = "answered" => began[h] <= answer[h].active

(* The active id never goes back, unless a write fell short.               *)
LEMMA ActiveGrows ==
  ASSUME SeedInv, ActiveKept => file[Active] <= commits, [Next]_vars,
         ActiveKept'
  PROVE  /\ ActiveKept /\ file'[Active] <= commits'
         /\ ActiveId <= ActiveId' /\ ActiveId' \in Int
<1>1. /\ file \in [Files -> Int] /\ commits \in Nat /\ Active \in Files /\ tmp \in Int
      /\ target \in Files
  BY DEF SeedInv, Writers, Files
<1>2. ASSUME file'[Active] = file[Active], commits' \in Nat, commits <= commits',
             faults \subseteq faults'
      PROVE  /\ ActiveKept /\ file'[Active] <= commits'
             /\ ActiveId <= ActiveId' /\ ActiveId' \in Int
  <2>1. file[Active] \in Int
    BY <1>1
  <2>2. ActiveId' = ActiveId /\ ActiveId \in Int
    BY <1>2, <2>1 DEF ActiveId
  <2>3. ActiveKept
    BY <1>2 DEF ActiveKept
  <2> QED
    BY <1>1, <1>2, <2>1, <2>2, <2>3
<1>3. CASE OpenTmp \/ WriteTmp
  <2>1. UNCHANGED <<file, commits>> /\ faults \subseteq faults'
    BY <1>3 DEF OpenTmp, WriteTmp, Mishap, AllWell
  <2> QED
    BY <1>1, <1>2, <2>1
<1>4. CASE Rename
  <2>1. UNCHANGED commits /\ faults \subseteq faults' /\ stage = "rename"
    BY <1>4 DEF Rename, Mishap, AllWell
  <2>2. CASE file'[Active] = file[Active]
    BY <1>1, <1>2, <2>1, <2>2
  <2>3. CASE file'[Active] # file[Active]
    <3>1. target = Active /\ file'[Active] = tmp /\ faults' = faults
      BY <1>1, <1>4, <2>3 DEF Rename, AllWell
    <3>2. tmp = commits /\ ActiveKept
      BY <2>1, <3>1 DEF SeedInv, Writers, ActiveKept
    <3>3. file'[Active] = commits /\ file[Active] <= commits /\ file[Active] \in Int
      BY <1>1, <3>1, <3>2
    <3> QED
      BY <1>1, <2>1, <3>1, <3>2, <3>3 DEF ActiveId
  <2> QED
    BY <2>2, <2>3
<1>5. CASE EnsureDefaults \/ SeedNext
  <2>1. UNCHANGED file /\ faults \subseteq faults'
    BY <1>5 DEF EnsureDefaults, SeedNext
  <2>2. commits' \in Nat /\ commits <= commits'
    BY <1>1, <1>5 DEF EnsureDefaults, SeedNext, BeginWrite
  <2> QED
    BY <1>2, <2>1, <2>2
<1>6. CASE Crash
  <2>1. UNCHANGED <<file, commits>> /\ faults \subseteq faults'
    BY <1>6 DEF Crash, StoreCrash, Mishap
  <2> QED
    BY <1>1, <1>2, <2>1
<1>7. CASE StoreEnvironment
  <2>1. PICK f \in Files, c \in Int : Edit(f, c)
    BY <1>1, <1>7, EditOfOthers
  <2>2. f # Active
    BY <2>1 DEF Edit, Mishap, ActiveKept
  <2>3. UNCHANGED commits /\ faults \subseteq faults' /\ file'[Active] = file[Active]
    BY <1>1, <2>1, <2>2 DEF Edit, Mishap
  <2> QED
    BY <1>1, <1>2, <2>3
<1>8. ASSUME NEW h \in Handlers, \/ ListProfiles(h) \/ ListActive(h) \/ SwitchTo(h)
                                 \/ SwitchToReturns(h) \/ AnswerDropped(h)
      PROVE  UNCHANGED file /\ faults \subseteq faults' /\ commits' \in Nat /\ commits <= commits'
  <2>1. UNCHANGED file /\ faults \subseteq faults'
    BY <1>8 DEF ListProfiles, ListActive, SwitchTo, SwitchToReturns, AnswerDropped, storeVars
  <2>2. commits' = commits \/ commits' = commits + 1
    BY <1>8 DEF ListProfiles, ListActive, SwitchTo, SwitchToReturns, AnswerDropped, storeVars,
                BeginWrite
  <2> QED
    BY <1>1, <2>1, <2>2
<1>9. CASE RequestThread \/ UNCHANGED vars
  <2>1. UNCHANGED <<file, commits, faults>>
    BY <1>9 DEF RequestThread, RefreshProfiles, SwitchProfile, ProfilesReceived, SwitchAnswered,
                CallFails, vars, storeVars
  <2> QED
    BY <1>1, <1>2, <2>1
<1> QED
  BY <1>2, <1>3, <1>4, <1>5, <1>6, <1>7, <1>8, <1>9 DEF Next, Service, StoreStep, WriteFile

(* What a step may do to the answer of a handler and to the active id that *)
(* its call found.                                                         *)
LEMMA AnswerSteps ==
  ASSUME SessionInv, FreshInv, SeedInv, [Next]_vars
  PROVE  /\ answer' \in [Handlers -> [list : SUBSET Profiles, active : Int]]
         /\ began' \in [Handlers -> Int]
         /\ \A h \in Handlers :
              /\ began'[h] \in {began[h], 0, ActiveId}
              /\ handler'[h] = "answered" =>
                   \/ handler[h] = "answered" /\ answer'[h] = answer[h] /\ began'[h] = began[h]
                   \/ answer'[h].active = ActiveId /\ began'[h] = began[h] /\ ActiveId' = ActiveId
<1> DEFINE Goal == /\ answer' \in [Handlers -> [list : SUBSET Profiles, active : Int]]
                   /\ began' \in [Handlers -> Int]
                   /\ \A h \in Handlers :
                        /\ began'[h] \in {began[h], 0, ActiveId}
                        /\ handler'[h] = "answered" =>
                             \/ /\ handler[h] = "answered" /\ answer'[h] = answer[h]
                                /\ began'[h] = began[h]
                             \/ /\ answer'[h].active = ActiveId /\ began'[h] = began[h]
                                /\ ActiveId' = ActiveId
<1>1. /\ answer \in [Handlers -> [list : SUBSET Profiles, active : Int]]
      /\ began \in [Handlers -> Int] /\ handler \in [Handlers -> HandlerStates]
      /\ waiting \in Handlers \cup {NoOne}
  BY DEF FreshInv, SessionInv, SessionTypeOK
<1>2. ActiveId \in Int /\ Nothing \in [list : SUBSET Profiles, active : Int]
  <2>1. file[Active] \in Int
    BY DEF SeedInv, Writers, Files
  <2> QED
    BY <2>1 DEF ActiveId, Nothing
<1>3. ASSUME UNCHANGED <<handler, answer, began>> PROVE Goal
  BY <1>1, <1>3
<1>4. ASSUME NEW g \in Handlers, Released(g) PROVE Goal
  BY <1>1, <1>2, <1>4 DEF Released
<1>5. ASSUME NEW g \in Handlers, NEW what \in {"list", "switch"}, NEW r, Call(g, what, r),
             UNCHANGED answer
      PROVE  Goal
  BY <1>1, <1>2, <1>5 DEF Call
<1>6. CASE StoreStep /\ UNCHANGED sessionVars
  BY <1>3, <1>6 DEF sessionVars
<1>7. CASE StoreEnvironment /\ UNCHANGED sessionVars
  BY <1>3, <1>7 DEF sessionVars
<1>8. CASE UNCHANGED vars
  BY <1>3, <1>8 DEF vars, sessionVars
<1>9. CASE Crash
  BY <1>1, <1>2, <1>9 DEF Crash
<1>10. ASSUME NEW g \in Handlers, ListProfiles(g) PROVE Goal
  <2>1. /\ answer' = [answer EXCEPT ![g] = [list |-> List, active |-> 0]] /\ UNCHANGED began
        /\ handler'[g] \in {"failed", "listed"} /\ \A f \in Handlers \ {g} : handler'[f] = handler[f]
    BY <1>1, <1>10 DEF ListProfiles
  <2>2. List \in SUBSET Profiles
    BY DEF List
  <2> QED
    BY <1>1, <2>1, <2>2
<1>11. ASSUME NEW g \in Handlers, ListActive(g) PROVE Goal
  <2>1. /\ answer' = [answer EXCEPT ![g].active = ActiveId] /\ UNCHANGED <<began, file>>
        /\ \A f \in Handlers \ {g} : handler'[f] = handler[f]
    BY <1>1, <1>11 DEF ListActive, storeVars
  <2>2. ActiveId' = ActiveId
    BY <2>1 DEF ActiveId
  <2> QED
    BY <1>1, <1>2, <2>1, <2>2
<1>12. ASSUME NEW g \in Handlers, SwitchTo(g) \/ SwitchToReturns(g) PROVE Goal
  <2>1. /\ UNCHANGED <<answer, began>>
        /\ \E c \in {"commit", "refused", "failed", "switched"} : handler' = [handler EXCEPT ![g] = c]
    BY <1>12 DEF SwitchTo, SwitchToReturns
  <2> QED
    BY <1>1, <2>1
<1>13. ASSUME NEW g \in Handlers, AnswerDropped(g) PROVE Goal
  BY <1>4, <1>13 DEF AnswerDropped
<1>14. CASE RefreshProfiles
  BY <1>5, <1>14 DEF RefreshProfiles
<1>15. CASE SwitchProfile
  BY <1>3, <1>5, <1>15 DEF SwitchProfile
<1>16. CASE ProfilesReceived
  <2>1. waiting \in Handlers /\ Released(waiting)
    BY <1>1, <1>16 DEF ProfilesReceived
  <2> QED
    BY <1>4, <2>1
<1>17. CASE SwitchAnswered
  <2>1. waiting \in Handlers /\ (Released(waiting) \/ (Call(waiting, "list", 0) /\ UNCHANGED answer))
    BY <1>1, <1>17 DEF SwitchAnswered
  <2> QED
    BY <1>4, <1>5, <2>1
<1>18. CASE CallFails
  <2>1. waiting \in Handlers /\ (Released(waiting) \/ UNCHANGED <<handler, answer, began>>)
    BY <1>1, <1>18 DEF CallFails
  <2> QED
    BY <1>3, <1>4, <2>1
<1> QED
  BY <1>6, <1>7, <1>8, <1>9, <1>10, <1>11, <1>12, <1>13, <1>14, <1>15, <1>16, <1>17, <1>18
     DEF Next, Service, RequestThread

(* Every step keeps the answers fresh.                                     *)
LEMMA FreshKeeps ==
  ASSUME SessionInv, FreshInv, SeedInv, [Next]_vars
  PROVE  FreshInv'
<1>1. ActiveKept' => /\ ActiveKept /\ file'[Active] <= commits'
                                /\ ActiveId <= ActiveId' /\ ActiveId' \in Int
  BY ActiveGrows DEF FreshInv
<1>2. ActiveId \in Int /\ ActiveId >= 0
  <2>1. file[Active] \in Int
    BY DEF SeedInv, Writers, Files
  <2> QED
    BY <2>1 DEF ActiveId
<1>3. /\ answer' \in [Handlers -> [list : SUBSET Profiles, active : Int]]
      /\ began' \in [Handlers -> Int]
  BY AnswerSteps
<1>4. ASSUME ActiveKept', NEW h \in Handlers
      PROVE  /\ began'[h] <= ActiveId'
             /\ handler'[h] = "answered" => began'[h] <= answer'[h].active
  <2>1. /\ began[h] \in Int /\ began[h] <= ActiveId
        /\ handler[h] = "answered" => began[h] <= answer[h].active
    BY <1>1, <1>4 DEF FreshInv
  <2>2. began'[h] \in {began[h], 0, ActiveId}
    BY AnswerSteps
  <2>3. handler'[h] = "answered" =>
          \/ handler[h] = "answered" /\ answer'[h] = answer[h] /\ began'[h] = began[h]
          \/ answer'[h].active = ActiveId /\ began'[h] = began[h] /\ ActiveId' = ActiveId
    BY AnswerSteps
  <2> QED
    BY <1>1, <1>2, <1>4, <2>1, <2>2, <2>3
<1> QED
  BY <1>1, <1>3, <1>4 DEF FreshInv

(* ListProfiles never answers with an active id older than the one there   *)
(* was when the call began, for any number of handlers, abandoned calls    *)
(* and crashes: a client that has seen a switch does not see it undone.    *)
THEOREM AnswersAreFresh == Spec => FreshAnswers
<1> DEFINE I == SessionInv /\ SeedInv /\ FreshInv
<1>1. Init => I
  <2>1. Init => SessionInv /\ SeedInv
    BY SessionInit, SeedInit
  <2>2. Init => FreshInv
    <3> SUFFICES ASSUME Init PROVE FreshInv
      OBVIOUS
    <3>1. /\ answer = [h \in Handlers |-> Nothing] /\ began = [h \in Handlers |-> 0]
          /\ handler = [h \in Handlers |-> "idle"] /\ commits = 0
          /\ file = [f \in Files |-> IF f = Defaults[1] /\ ~fresh THEN 2 ELSE Absent]
      BY DEF Init, StoreInit
    <3>2. file[Active] = 0
      BY <3>1, FirstDefault DEF Files, Absent
    <3>3. Nothing \in [list : SUBSET Profiles, active : Int]
      BY DEF Nothing
    <3>4. answer \in [Handlers -> [list : SUBSET Profiles, active : Int]]
      BY <3>1, <3>3
    <3>5. ActiveId = 0
      BY <3>2 DEF ActiveId
    <3> QED
      BY <3>1, <3>2, <3>4, <3>5 DEF FreshInv
  <2> QED
    BY <2>1, <2>2
<1>2. I /\ [Next]_vars => I'
  BY SessionNext, SeedKeeps, FreshKeeps
<1>3. I /\ [Next]_vars =>
        [waiting # NoOne /\ waiting' = NoOne
           /\ handler[waiting] = "answered" /\ handler'[waiting] = "idle" /\ ActiveKept
         => shown'.active >= began[waiting]]_vars
  <2> SUFFICES ASSUME I, Next, waiting # NoOne, waiting' = NoOne, handler[waiting] = "answered",
                      handler'[waiting] = "idle", ActiveKept
               PROVE  shown'.active >= began[waiting]
    OBVIOUS
  <2>1. waiting \in Handlers
    BY DEF SessionInv, SessionTypeOK
  <2>2. ProfilesReceived
    <3>1. ~Crash /\ ~(StoreStep /\ UNCHANGED sessionVars) /\ ~(StoreEnvironment /\ UNCHANGED sessionVars)
      BY DEF Crash, sessionVars
    <3>2. ASSUME NEW h \in Handlers PROVE
             ~(\/ ListProfiles(h) \/ ListActive(h) \/ SwitchTo(h)
               \/ SwitchToReturns(h) \/ AnswerDropped(h))
      BY DEF ListProfiles, ListActive, SwitchTo, SwitchToReturns, AnswerDropped
    <3>3. ~RefreshProfiles /\ ~SwitchProfile /\ ~SwitchAnswered
      BY DEF RefreshProfiles, SwitchProfile, SwitchAnswered
    <3>4. ~CallFails
      BY <2>1 DEF CallFails, Released
    <3> QED
      BY <3>1, <3>2, <3>3, <3>4 DEF Next, Service, RequestThread
  <2>3. shown' = answer[waiting]
    BY <2>2 DEF ProfilesReceived
  <2>4. began[waiting] <= answer[waiting].active
    BY <2>1 DEF FreshInv
  <2>5. began[waiting] \in Int /\ answer[waiting].active \in Int
    BY <2>1 DEF FreshInv
  <2> QED
    BY <2>3, <2>4, <2>5
<1> QED
  BY <1>1, <1>2, <1>3, PTL DEF Spec, FreshAnswers
=============================================================================
