---------------------------- MODULE ProfileStore ----------------------------
(***************************************************************************)
(* core::ProfileStore (libs/core/src/profile_store.cpp): a directory with  *)
(* one file per profile and active.json, written through temporary files,  *)
(* in a process that may die between any two file operations and is then   *)
(* restarted by the SCM.                                                   *)
(*                                                                         *)
(* A file is the version of what it holds.  A built-in profile has version *)
(* 1, an edited one 2, and active.json the number of the SetActiveId that  *)
(* wrote it.                                                               *)
(***************************************************************************)
EXTENDS Integers, Sequences

CONSTANTS Defaults,    \* the ids of the built-in profiles, in order
          Active,      \* the name of active.json
          NoOne,       \* the owner of a write that is part of EnsureDefaults
          MaxMishaps   \* bound: crashes, failed writes and changes by others

Absent == 0
Torn == -1   \* empty or cut off: it does not parse
Ill == -2    \* JSON with a field of another type than the code expects

Profiles == {Defaults[i] : i \in 1..Len(Defaults)}
Files == Profiles \cup {Active}

ASSUME DefaultsAssumption ==
  /\ Defaults \in Seq(Profiles) /\ Defaults # << >>
  /\ \A i, j \in 1..Len(Defaults) : Defaults[i] = Defaults[j] => i = j
  /\ Active \notin Profiles

VARIABLES
  file,     \* the files
  tmp,      \* the temporary file being written; one left behind is never read
  stage,    \* where the process is: down, in EnsureDefaults or a write, or ready
  target,   \* the file being written
  owner,    \* who is writing: NoOne at startup, else the holder of the manager's mutex
  commits,  \* the number of calls of SetActiveId
  mishaps,  \* the number of crashes, failed writes and changes by others
  faults,   \* observer: the kinds of what has gone wrong
  fresh     \* observer: the directory was empty at first

storeVars == <<file, tmp, stage, target, owner, commits, mishaps, faults, fresh>>

(* What List returns: .tmp files and active.json do not count, files that  *)
(* do not parse are skipped.                                               *)
List == {p \in Profiles : file[p] > 0}

(* List calls ParseProfileFile, which throws on a field of another type.   *)
ListThrows == \E p \in Profiles : file[p] = Ill

(* ActiveId: empty for a file that is absent or does not parse.            *)
ActiveId == IF file[Active] > 0 THEN file[Active] ELSE 0

(* A directory that is new, or one with a profile of the user's own.       *)
StoreInit ==
  /\ fresh \in BOOLEAN
  /\ file = [f \in Files |-> IF f = Defaults[1] /\ ~fresh THEN 2 ELSE Absent]
  /\ tmp = Absent
  /\ stage = "down"
  /\ target = Active
  /\ owner = NoOne
  /\ commits = 0
  /\ mishaps = 0
  /\ faults = {}

(* Something goes wrong.                                                   *)
Mishap(kind) ==
  /\ mishaps < MaxMishaps
  /\ mishaps' = mishaps + 1
  /\ faults' = faults \cup {kind}

AllWell == UNCHANGED <<mishaps, faults>>

-----------------------------------------------------------------------------
(* Save and SetActiveId: write <file>.tmp, then rename it.                 *)

(* A Save that truncates the file itself.                                  *)
OpenInPlace ==
  /\ stage = "open"
  /\ file' = [file EXCEPT ![target] = Torn]
  /\ tmp' = Torn
  /\ stage' = "write"
  /\ UNCHANGED <<target, owner, commits, mishaps, faults, fresh>>

(* ofstream out(tmp, trunc); when it fails the caller returns.             *)
OpenTmp ==
  /\ stage = "open"
  /\ \/ tmp' = Torn /\ stage' = "write" /\ AllWell
     \/ stage' = "written" /\ Mishap("failed") /\ UNCHANGED tmp
  /\ UNCHANGED <<file, target, owner, commits, fresh>>

(* out << doc.dump(2): nobody looks whether all of it was written.         *)
WriteTmp ==
  /\ stage = "write"
  /\ stage' = "rename"
  /\ \/ tmp' = (IF target = Active THEN commits ELSE 1) /\ AllWell
     \/ Mishap("short") /\ UNCHANGED tmp
  /\ UNCHANGED <<file, target, owner, commits, fresh>>

(* std::filesystem::rename replaces the file or fails.                     *)
Rename ==
  /\ stage = "rename"
  /\ stage' = "written"
  /\ tmp' = Absent
  /\ \/ file' = [file EXCEPT ![target] = tmp] /\ AllWell
     \/ Mishap("failed") /\ UNCHANGED file
  /\ UNCHANGED <<target, owner, commits, fresh>>

WriteFile == OpenTmp \/ WriteTmp \/ Rename

(* A Save of p, or a SetActiveId, begins.                                  *)
BeginWrite(f, who) ==
  /\ stage' = "open"
  /\ target' = f
  /\ owner' = who
  /\ commits' = IF f = Active THEN commits + 1 ELSE commits

-----------------------------------------------------------------------------
(* ServiceHost::Start calls EnsureDefaults before anything else.  A List   *)
(* that throws ends the process.                                           *)
EnsureDefaults ==
  /\ stage = "down"
  /\ IF ListThrows
       THEN faults' = faults \cup {"threw"} /\ UNCHANGED <<stage, target, owner, commits>>
       ELSE /\ IF List # {}
                 THEN stage' = "ready" /\ UNCHANGED <<target, owner, commits>>
                 ELSE BeginWrite(Defaults[1], NoOne)
            /\ UNCHANGED faults
  /\ UNCHANGED <<file, tmp, mishaps, fresh>>

(* A loop over the defaults that stops one early.                          *)
SeedNextOffByOne ==
  /\ stage = "written" /\ owner = NoOne
  /\ IF \E i \in 1..(Len(Defaults) - 2) : target = Defaults[i]
       THEN \E i \in 1..(Len(Defaults) - 2) :
              target = Defaults[i] /\ BeginWrite(Defaults[i + 1], NoOne)
       ELSE IF target # Active /\ ActiveId = 0
              THEN BeginWrite(Active, NoOne)
              ELSE stage' = "ready" /\ UNCHANGED <<target, owner, commits>>
  /\ UNCHANGED <<file, tmp, mishaps, faults, fresh>>

(* The next default, whatever became of this one; then the active id.      *)
SeedNext ==
  /\ stage = "written" /\ owner = NoOne
  /\ IF \E i \in 1..(Len(Defaults) - 1) : target = Defaults[i]
       THEN \E i \in 1..(Len(Defaults) - 1) :
              target = Defaults[i] /\ BeginWrite(Defaults[i + 1], NoOne)
       ELSE IF target # Active /\ ActiveId = 0
              THEN BeginWrite(Active, NoOne)
              ELSE stage' = "ready" /\ UNCHANGED <<target, owner, commits>>
  /\ UNCHANGED <<file, tmp, mishaps, faults, fresh>>

StoreStep == WriteFile \/ EnsureDefaults \/ SeedNext

-----------------------------------------------------------------------------
(* The process dies; what is on disk stays.                                *)
StoreCrash ==
  /\ stage # "down"
  /\ Mishap(IF stage # "ready" /\ owner = NoOne THEN "interrupted" ELSE "crashed")
  /\ stage' = "down"
  /\ tmp' = Absent /\ owner' = NoOne /\ target' = Active
  /\ UNCHANGED <<file, commits, fresh>>

(* Another program puts something else in the place of a file.             *)
Edit(f, content) ==
  /\ Mishap(IF f = Active THEN "reset" ELSE "edited")
  /\ file' = [file EXCEPT ![f] = content]
  /\ UNCHANGED <<tmp, stage, target, owner, commits, fresh>>

(* Remove(id), which only other programs ask for; active.json may go too.  *)
Remove(f) == file[f] # Absent /\ Edit(f, Absent)

(* An editor saves a good profile or one with an ill-typed field, and in   *)
(* active.json an id that was active before or something that is no id.    *)
StoreEnvironment ==
  \/ \E p \in Profiles : Edit(p, 2) \/ Edit(p, Ill) \/ Remove(p)
  \/ \E v \in 1..commits : Edit(Active, v)
  \/ Edit(Active, Ill) \/ Remove(Active)

-----------------------------------------------------------------------------
(* Nothing but SetActiveId has written active.json, and all of it.         *)
ActiveKept == "short" \notin faults /\ "reset" \notin faults

(* A crash between any two file operations leaves each file old or new:    *)
(* only a write that fell short unnoticed is ever renamed half done.       *)
NeverHalfWritten == (\E f \in Files : file[f] = Torn) => "short" \in faults

(* A start that nothing disturbs leaves a directory with profiles alone    *)
(* and gives an empty one all the defaults and an active id; one that dies *)
(* in the middle leaves at least one profile to the next start.            *)
SeedsComplete ==
  /\ stage = "ready" /\ faults \subseteq {"crashed"} =>
       IF fresh THEN ActiveId > 0 /\ \A p \in Profiles : file[p] = 1
                ELSE List = {Defaults[1]} /\ file[Defaults[1]] = 2
  /\ stage = "ready" /\ faults \subseteq {"crashed", "interrupted"} => List # {}

(* "Corrupt files are skipped with a warning instead of breaking List()".  *)
CorruptFilesSkipped == "threw" \notin faults
=============================================================================
