--------------------------- MODULE ProfileSession ---------------------------
(***************************************************************************)
(* A client and the profiles of the service: ListProfiles and              *)
(* SwitchProfile of CommandServiceImpl on top of the store, called by      *)
(* ClientWorker's one request thread with deadlines, and the ProfileModel  *)
(* that shows the answers.  A handler goes on when its client has given    *)
(* up.  What SwitchTo does to the hardware is in ProfileManager: here it   *)
(* succeeds or fails.                                                      *)
(***************************************************************************)
EXTENDS ProfileStore

CONSTANTS Handlers,    \* the handler threads of the gRPC server
          MaxSwitches  \* bound: switches the user asks for

ASSUME NoOneAssumption == NoOne \notin Handlers
ASSUME MaxSwitchesAssumption == MaxSwitches \in Nat

VARIABLES
  handler,   \* what each handler thread is doing
  answer,    \* the response of each handler
  request,   \* the switch each handler works on, 0 for a list
  waiting,   \* the handler whose answer the request thread waits for, or NoOne
  shown,     \* ProfileModel: its rows and active_id_
  switches,  \* the number of switches asked for
  outcome,   \* observer: what SwitchResult has said of each switch
  done,      \* observer: the switches that were carried out
  began      \* observer: the active id when each call began

sessionVars == <<handler, answer, request, waiting, shown, switches, outcome, done, began>>
vars == <<storeVars, sessionVars>>

(* An empty answer.                                                        *)
Nothing == [list |-> {}, active |-> 0]

Init ==
  /\ StoreInit
  /\ handler = [h \in Handlers |-> "idle"]
  /\ answer = [h \in Handlers |-> Nothing]
  /\ request = [h \in Handlers |-> 0]
  /\ waiting = NoOne
  /\ shown = Nothing
  /\ switches = 0
  /\ outcome = [r \in 1..MaxSwitches |-> "none"]
  /\ done = {}
  /\ began = [h \in Handlers |-> 0]

(* The server answers: startup is over.                                    *)
Up == stage # "down" /\ (stage = "ready" \/ owner # NoOne)

(* The manager's mutex is free.                                            *)
Unlocked == stage = "ready"

(* A handler whose call is over.                                           *)
Released(h) ==
  /\ handler' = [handler EXCEPT ![h] = "idle"]
  /\ answer' = [answer EXCEPT ![h] = Nothing]
  /\ request' = [request EXCEPT ![h] = 0]
  /\ began' = [began EXCEPT ![h] = 0]

-----------------------------------------------------------------------------
(* The service.                                                            *)

(* ListProfiles: List under the mutex; an exception becomes an error.      *)
ListProfiles(h) ==
  /\ handler[h] = "list" /\ Unlocked
  /\ handler' = [handler EXCEPT ![h] = IF ListThrows THEN "failed" ELSE "listed"]
  /\ answer' = [answer EXCEPT ![h] = [list |-> List, active |-> 0]]
  /\ faults' = IF ListThrows THEN faults \cup {"threw"} ELSE faults
  /\ UNCHANGED <<file, tmp, stage, target, owner, commits, mishaps, fresh, request,
                 waiting, shown, switches, outcome, done, began>>

(* ActiveId under the mutex, taken a second time.                          *)
ListActive(h) ==
  /\ handler[h] = "listed" /\ Unlocked
  /\ answer' = [answer EXCEPT ![h].active = ActiveId]
  /\ handler' = [handler EXCEPT ![h] = "answered"]
  /\ UNCHANGED <<storeVars, request, waiting, shown, switches, outcome, done, began>>

(* SwitchTo takes the mutex: the profile can be read and applied, and the  *)
(* id is written; or not, and the answer is a refusal or an error.         *)
SwitchTo(h) ==
  /\ handler[h] = "switch" /\ Unlocked
  /\ \/ /\ List # {}
        /\ BeginWrite(Active, h)
        /\ handler' = [handler EXCEPT ![h] = "commit"]
        /\ done' = done \cup {request[h]}
     \/ /\ \/ handler' = [handler EXCEPT ![h] = "refused"]
           \/ ListThrows /\ handler' = [handler EXCEPT ![h] = "failed"]
        /\ UNCHANGED <<stage, target, owner, commits, done>>
  /\ UNCHANGED <<file, tmp, mishaps, faults, fresh, answer, request, waiting, shown,
                 switches, outcome, began>>

SwitchToReturns(h) ==
  /\ handler[h] = "commit" /\ stage = "written" /\ owner = h
  /\ stage' = "ready" /\ owner' = NoOne
  /\ handler' = [handler EXCEPT ![h] = "switched"]
  /\ UNCHANGED <<file, tmp, target, commits, mishaps, faults, fresh, answer,
                 request, waiting, shown, switches, outcome, done, began>>

(* An answer that nobody waits for any more is thrown away.                *)
AnswerDropped(h) ==
  /\ handler[h] \in {"answered", "switched", "refused", "failed"} /\ waiting # h
  /\ Released(h)
  /\ UNCHANGED <<storeVars, waiting, shown, switches, outcome, done>>

Service ==
  \/ StoreStep /\ UNCHANGED sessionVars
  \/ \E h \in Handlers : \/ ListProfiles(h) \/ ListActive(h) \/ SwitchTo(h)
                         \/ SwitchToReturns(h) \/ AnswerDropped(h)

Crash ==
  /\ StoreCrash
  /\ handler' = [h \in Handlers |-> "idle"]
  /\ answer' = [h \in Handlers |-> Nothing]
  /\ UNCHANGED <<request, waiting, shown, switches, outcome, done, began>>

-----------------------------------------------------------------------------
(* The request thread of the client.                                       *)

(* A call goes out: r is the number of a switch, 0 for a refresh.          *)
Call(h, what, r) ==
  /\ handler' = [handler EXCEPT ![h] = what]
  /\ request' = [request EXCEPT ![h] = r]
  /\ waiting' = h
  /\ began' = [began EXCEPT ![h] = ActiveId]

(* A refresh that returns at once when something is shown.                 *)
RefreshOnce ==
  /\ waiting = NoOne /\ Up
  /\ IF shown = Nothing
       THEN \E h \in Handlers : handler[h] = "idle" /\ Call(h, "list", 0)
       ELSE UNCHANGED <<handler, request, waiting, began>>
  /\ UNCHANGED <<storeVars, answer, shown, switches, outcome, done>>

(* RefreshProfiles, by the timer of main or by a click.                    *)
RefreshProfiles ==
  /\ waiting = NoOne /\ Up
  /\ \E h \in Handlers : handler[h] = "idle" /\ Call(h, "list", 0)
  /\ UNCHANGED <<storeVars, answer, shown, switches, outcome, done>>

(* SwitchProfile; without a connection it fails at once.                   *)
SwitchProfile ==
  /\ waiting = NoOne
  /\ switches < MaxSwitches
  /\ switches' = switches + 1
  /\ IF Up
       THEN \E h \in Handlers :
              /\ handler[h] = "idle"
              /\ Call(h, "switch", switches')
              /\ UNCHANGED outcome
       ELSE /\ outcome' = [outcome EXCEPT ![switches'] = "failed"]
            /\ UNCHANGED <<handler, waiting, began, request>>
  /\ UNCHANGED <<storeVars, answer, shown, done>>

(* SetProfiles with an active id that is kept once it is set.              *)
ProfilesReceivedKeepsActive ==
  /\ waiting # NoOne /\ handler[waiting] = "answered"
  /\ shown' = [answer[waiting] EXCEPT !.active = IF shown.active = 0 THEN @ ELSE shown.active]
  /\ Released(waiting)
  /\ waiting' = NoOne
  /\ UNCHANGED <<storeVars, switches, outcome, done>>

(* The answer to a refresh: ProfileModel::SetProfiles replaces it all.     *)
ProfilesReceived ==
  /\ waiting # NoOne /\ handler[waiting] = "answered"
  /\ shown' = answer[waiting]
  /\ Released(waiting)
  /\ waiting' = NoOne
  /\ UNCHANGED <<storeVars, switches, outcome, done>>

(* A client that takes any answer for a success.                           *)
SwitchAlwaysOk ==
  /\ waiting # NoOne /\ handler[waiting] \in {"switched", "refused"}
  /\ outcome' = [outcome EXCEPT ![request[waiting]] = "ok"]
  /\ Call(waiting, "list", 0)
  /\ UNCHANGED <<storeVars, answer, shown, switches, done>>

(* The answer to a switch; a success is followed by a refresh.             *)
SwitchAnswered ==
  /\ waiting # NoOne /\ handler[waiting] \in {"switched", "refused"}
  /\ LET ok == handler[waiting] = "switched"
     IN  /\ outcome' = [outcome EXCEPT ![request[waiting]] = IF ok THEN "ok" ELSE "refused"]
         /\ IF ok THEN Call(waiting, "list", 0) /\ UNCHANGED answer
                  ELSE Released(waiting) /\ waiting' = NoOne
  /\ UNCHANGED <<storeVars, shown, switches, done>>

(* !status.ok(): the deadline of 3 or 5 s, an error, or a lost connection. *)
CallFails ==
  /\ waiting # NoOne
  /\ outcome' = IF request[waiting] = 0 THEN outcome
                ELSE [outcome EXCEPT ![request[waiting]] = "failed"]
  /\ waiting' = NoOne
  /\ IF handler[waiting] \in {"idle", "failed"} THEN Released(waiting)
                                               ELSE UNCHANGED <<handler, answer, request, began>>
  /\ UNCHANGED <<storeVars, shown, switches, done>>

RequestThread ==
  \/ RefreshProfiles \/ SwitchProfile \/ ProfilesReceived \/ SwitchAnswered \/ CallFails

Next ==
  \/ Service \/ Crash \/ RequestThread
  \/ StoreEnvironment /\ UNCHANGED sessionVars

Spec == Init /\ [][Next]_vars

(* The service runs and the SCM restarts it; the refresh timer goes on     *)
(* firing, calls end, and the client does not give up on every refresh     *)
(* before the service has answered.                                        *)
FairSpec ==
  /\ Spec
  /\ WF_vars(Service)
  /\ WF_vars(RefreshProfiles)
  /\ WF_vars(SwitchAnswered \/ CallFails)
  /\ SF_vars(\E h \in Handlers : waiting = h /\ ListProfiles(h))
  /\ SF_vars(\E h \in Handlers : waiting = h /\ ListActive(h))
  /\ SF_vars(ProfilesReceived)

-----------------------------------------------------------------------------
(* What the client tells the user about a switch is true whenever the      *)
(* service has answered: an ok was carried out, a refusal never is.  Of a  *)
(* call that failed nothing is known: it may be carried out afterwards.    *)
AnswersAreTrue ==
  \A r \in 1..MaxSwitches : /\ outcome[r] = "ok" => r \in done
                            /\ outcome[r] = "refused" => r \notin done

(* A list is never older than the call that fetched it, although the list  *)
(* and the active id are read under separate locks and given-up calls go   *)
(* on: after a switch the client never shows an earlier active id again,   *)
(* unless somebody else has put one into active.json.                      *)
FreshAnswers ==
  [][waiting # NoOne /\ waiting' = NoOne
       /\ handler[waiting] = "answered" /\ handler'[waiting] = "idle" /\ ActiveKept
     => shown'.active >= began[waiting]]_vars

(* The client ends up showing what is active, also when it gave up on the  *)
(* switch that made it so, unless profiles that cannot be listed stop it.  *)
ActiveShown ==
  \A v \in 0..(MaxSwitches + 1) :
    ActiveId = v ~> (shown.active = v \/ ActiveId # v \/ ListThrows)
=============================================================================
