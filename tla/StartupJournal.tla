--------------------------- MODULE StartupJournal ---------------------------
(***************************************************************************)
(* The state files of the proxy of zhost: a proxy that starts publishes    *)
(* five files one by one under a journal, the next start or lifecycle      *)
(* command undoes a publication its process did not survive, `stop'        *)
(* removes a dead proxy's marker, and any command may read the files while *)
(* this goes on (packages/zhost/src/portless: startup-journal.ts,          *)
(* startup-state.ts, committed-state.ts, cli-utils.ts, lifecycle.ts).      *)
(*                                                                         *)
(* An action is one change of one file, or one look of a reader; between   *)
(* two of them any process may die.  What is abstracted:                   *)
(*   - every file is written by rename, so its content is a value: none,   *)
(*     the earlier installation's, the configuration all starts publish,   *)
(*     or a process, whose marker it holds;                                *)
(*   - the operation lock excludes: whoever takes it from an owner finds   *)
(*     the owner dead (OperationLock says when that is so);                *)
(*   - a reader that finds no commit record falls back on the older files,  *)
(*     without a guarantee, and is not followed further;                   *)
(*   - a process identity can always be read: one that cannot only adds    *)
(*     refusals;                                                           *)
(*   - a change of a file that fails may have been made, a journal that    *)
(*     cannot be removed stays;                                            *)
(*   - a failed start ends its process, and the rollback a publication     *)
(*     returns is left out: no caller keeps it.                            *)
(*                                                                         *)
(* The definitions whose comment starts with `Fault' are used by nothing:  *)
(* each is a plausible bug of the definition below it.                     *)
(***************************************************************************)
EXTENDS Naturals, FiniteSets, Sequences

CONSTANTS
  Starters,      \* proxies that start, each once
  Operators,     \* processes that run lifecycle commands
  Nobody,        \* no process
  Editable,      \* state files somebody may change by hand
  MaxTroubles    \* bound: processes that die of themselves, file operations that
                 \* fail and files changed by hand, together

Procs == Starters \cup Operators
ASSUME NobodyAssumption == Nobody \notin Procs /\ Starters \cap Operators = {}
ASSUME BoundAssumption == MaxTroubles \in Nat

VARIABLES
  file,       \* file[f]: content of state file f
  journal,    \* the set holding what the journal records, or no record
  holder,     \* owner of the operation lock
  alive,      \* processes that run
  pc,         \* pc[p]: what p does next
  undo,       \* files the holder has still to restore
  wpos,       \* files the holder has published
  rpc,        \* what the reader does next
  view,       \* the commit record it read
  inForce,    \* the commit records in force since it began (history)
  undone,     \* a publication was undone since it began (history)
  strayed,    \* stop removed a marker from a pending publication (history)
  crashes, faults, edits

fileVars == <<file, journal>>
workVars == <<undo, wpos>>
readVars == <<rpc, view>>
historyVars == <<inForce, undone, strayed>>
countVars == <<crashes, faults, edits>>
vars == <<fileVars, holder, alive, pc, workVars, readVars, historyVars, countVars>>

STATE_NAMES == <<"port", "tls", "tld", "pid", "state">>
Files == {"port", "tls", "tld", "pid", "state"}
ASSUME EditableAssumption == Editable \subseteq Files
State == [Files -> {"none", "earlier", "config", "edited"} \cup Procs]
Earlier == [f \in Files |-> "earlier"]

\* What p publishes.
After(p) == [f \in Files |-> IF f \in {"pid", "state"} THEN p ELSE "config"]

\* An earlier proxy, now dead, left its files, or there are none.
Init ==
  /\ file \in {Earlier, [f \in Files |-> "none"]}
  /\ journal = {} /\ holder = Nobody /\ alive = Procs
  /\ pc = [p \in Procs |-> "out"] /\ undo = {} /\ wpos = 0
  /\ rpc = "out" /\ view = "none"
  /\ inForce = {} /\ undone = FALSE /\ strayed = FALSE
  /\ crashes = 0 /\ faults = 0 /\ edits = 0

------------------------------------------------------------------------------
Pending == journal # {}
Goto(p, l) == pc' = [pc EXCEPT ![p] = l]
Write(f, v) == file' = [file EXCEPT ![f] = v]
Live(v) == v \in alive

\* The last of the files in S, in the order of publication.
Last(S) ==
  STATE_NAMES[CHOOSE i \in DOMAIN STATE_NAMES :
                /\ STATE_NAMES[i] \in S
                /\ \A j \in DOMAIN STATE_NAMES : STATE_NAMES[j] \in S => j <= i]

InTrouble == crashes + faults + edits < MaxTroubles
Faulty == InTrouble /\ faults' = faults + 1

\* p leaves the lock with its command done, or failed.
Leave(p, l) == holder' = Nobody /\ undo' = {} /\ wpos' = 0 /\ Goto(p, l)

\* The history a reader is judged by.
Watch ==
  IF rpc' \in {"out", "failed"} THEN inForce' = {} /\ undone' = FALSE
  ELSE /\ inForce' = inForce \cup IF journal' = {} THEN {file'["state"]} ELSE {}
       /\ undone' = (undone \/ \E j \in journal : file'["state"] # file["state"]
                                                  /\ file'["state"] = j.before["state"])

Apart == UNCHANGED <<readVars, crashes, edits>> /\ Watch

------------------------------------------------------------------------------
(* Commands: a start locks at once; a stop reads first, and recovers if it *)
(* finds a journal.                                                        *)

Discover(p) ==
  /\ p \in Operators /\ p \in alive /\ pc[p] = "out"
  /\ Goto(p, IF Pending THEN "recovers" ELSE "stops")
  /\ UNCHANGED <<fileVars, holder, alive, workVars, strayed, faults>> /\ Apart

Acquire(p) ==
  /\ p \in alive /\ holder \notin alive
  /\ \/ p \in Starters /\ pc[p] = "out" /\ Goto(p, "recover")
     \/ pc[p] = "recovers" /\ Goto(p, "recover")
     \/ pc[p] = "stops" /\ Goto(p, "stop")
  /\ holder' = p /\ undo' = {} /\ wpos' = 0
  /\ UNCHANGED <<fileVars, alive, strayed, faults>> /\ Apart

\* What follows a recovery: an operator reads again.
Recovered(p) == IF p \in Starters THEN "claim" ELSE "out"

\* Fault of Refused: only complete publications are recovered.
RefusedUnlessComplete(j) ==
  \/ \E f \in Files : file[f] # j.after[f]
  \/ Live(file["pid"]) \/ Live(file["state"])

\* The files are neither as before nor as after, or their owner lives.
Refused(j) ==
  \/ \E f \in Files : file[f] \notin {j.before[f], j.after[f]}
  \/ Live(file["pid"]) \/ Live(file["state"])

Recover(p) ==
  /\ pc[p] = "recover" /\ p \in alive
  /\ \/ /\ ~Pending
        /\ IF p \in Starters THEN Goto(p, "claim") /\ UNCHANGED <<holder, workVars>> ELSE Leave(p, "out")
     \/ \E j \in journal :
          \/ Refused(j) /\ Leave(p, "failed")
          \/ /\ ~Refused(j)
             /\ undo' = {f \in Files : file[f] # j.before[f]}
             /\ Goto(p, "restore")
             /\ UNCHANGED <<holder, wpos>>
  /\ UNCHANGED <<fileVars, alive, strayed, faults>> /\ Apart

\* The owner's record first.
Restore(p) ==
  /\ pc[p] \in {"restore", "revert"} /\ p \in alive /\ undo # {}
  /\ \E j \in journal :
       \/ /\ Write(Last(undo), j.before[Last(undo)])
          /\ undo' = undo \ {Last(undo)}
          /\ UNCHANGED <<holder, wpos, pc, faults>>
       \/ /\ Faulty /\ Leave(p, "failed")
          /\ UNCHANGED file \/ Write(Last(undo), j.before[Last(undo)])
  /\ UNCHANGED <<journal, alive, strayed>> /\ Apart

\* Fault of ClearJournal: the journal goes before the files are restored.
ClearJournalFirst(p) ==
  /\ pc[p] \in {"restore", "revert"} /\ p \in alive
  /\ journal' = {}
  /\ IF pc[p] = "restore" /\ p \in Starters THEN Goto(p, "claim") /\ UNCHANGED <<holder, workVars>>
     ELSE Leave(p, IF pc[p] = "revert" THEN "failed" ELSE "out")
  /\ UNCHANGED <<file, alive, strayed, faults>> /\ Apart

ClearJournal(p) ==
  /\ pc[p] \in {"restore", "revert"} /\ p \in alive /\ undo = {}
  /\ journal' = {}
  /\ IF pc[p] = "restore" /\ p \in Starters THEN Goto(p, "claim") /\ UNCHANGED <<holder, workVars>>
     ELSE Leave(p, IF pc[p] = "revert" THEN "failed" ELSE "out")
  /\ UNCHANGED <<file, alive, strayed, faults>> /\ Apart

------------------------------------------------------------------------------
(* Publication.                                                            *)

\* Fault of Owned: the commit record is not asked.
OwnedByPid == Live(file["pid"]) \/ file["pid"] = "edited"

\* A live process holds the files, or a marker cannot be understood.
Owned ==
  \E f \in {"pid", "state"} : Live(file[f]) \/ file[f] = "edited"

Claim(p) ==
  /\ pc[p] = "claim" /\ p \in alive
  /\ IF Owned THEN Leave(p, "failed") /\ UNCHANGED journal
     ELSE /\ journal' = {[before |-> file, after |-> After(p)]}
          /\ Goto(p, "publish") /\ UNCHANGED <<holder, workVars>>
  /\ UNCHANGED <<file, alive, strayed, faults>> /\ Apart

Publish(p) ==
  /\ pc[p] = "publish" /\ p \in alive /\ wpos < Len(STATE_NAMES)
  /\ Write(STATE_NAMES[wpos + 1], After(p)[STATE_NAMES[wpos + 1]])
  /\ wpos' = wpos + 1
  /\ UNCHANGED <<journal, holder, alive, pc, undo, strayed, faults>> /\ Apart

\* A write fails, before or after the rename, or the journal cannot be
\* cleared; what holds a published value is reverted.
PublishFails(p) ==
  /\ pc[p] = "publish" /\ p \in alive /\ Faulty
  /\ \/ UNCHANGED file
     \/ wpos < Len(STATE_NAMES) /\ Write(STATE_NAMES[wpos + 1], After(p)[STATE_NAMES[wpos + 1]])
  /\ Goto(p, "revert")
  /\ undo' = {f \in Files : \E i \in 1..(wpos + 1) \cap DOMAIN STATE_NAMES :
                               STATE_NAMES[i] = f /\ file'[f] = After(p)[f]}
  /\ UNCHANGED <<journal, holder, alive, wpos, strayed>> /\ Apart

Commit(p) ==
  /\ pc[p] = "publish" /\ p \in alive /\ wpos = Len(STATE_NAMES)
  /\ journal' = {}
  /\ Leave(p, "serving")
  /\ UNCHANGED <<file, alive, strayed, faults>> /\ Apart

------------------------------------------------------------------------------
(* stop.                                                                   *)

\* The marked process is asked to end if its endpoint answers, and may take
\* too long.
StopSignal(p) ==
  /\ pc[p] = "stop" /\ p \in alive /\ Live(file["pid"])
  /\ \/ /\ pc[file["pid"]] = "serving"
        /\ alive' = alive \ {file["pid"]} /\ UNCHANGED <<holder, pc, workVars>>
     \/ Leave(p, "failed") /\ UNCHANGED alive
  /\ UNCHANGED <<fileVars, strayed, faults>> /\ Apart

\* The marker of a dead process goes; one that says nothing stays.
StopMarker(p) ==
  /\ pc[p] = "stop" /\ p \in alive /\ ~Live(file["pid"])
  /\ IF file["pid"] \in {"none", "edited"} THEN UNCHANGED <<file, strayed>>
     ELSE Write("pid", "none") /\ strayed' = (strayed \/ Pending)
  /\ Leave(p, "done")
  /\ UNCHANGED <<journal, alive, faults>> /\ Apart

------------------------------------------------------------------------------
(* The environment.                                                        *)

Crash(p) ==
  /\ p \in alive /\ InTrouble
  /\ alive' = alive \ {p} /\ crashes' = crashes + 1
  /\ UNCHANGED <<fileVars, holder, pc, workVars, readVars, strayed, faults, edits>> /\ Watch

\* After a command that died another one is run, under the same name; a lock
\* that the dead one held has no owner.
Rerun(p) ==
  /\ p \in Operators \ alive
  /\ alive' = alive \cup {p} /\ Goto(p, "out")
  /\ holder' = IF holder = p THEN Nobody ELSE holder
  /\ UNCHANGED <<fileVars, workVars, strayed, faults>> /\ Apart

\* A start that failed ends; an operator runs another command.
Exit(p) ==
  /\ p \in alive /\ pc[p] \in {"failed", "done"}
  /\ IF p \in Starters THEN alive' = alive \ {p} /\ UNCHANGED pc
     ELSE Goto(p, "out") /\ UNCHANGED alive
  /\ UNCHANGED <<fileVars, holder, workVars, strayed, faults>> /\ Apart

Edit(f) ==
  /\ InTrouble /\ edits' = edits + 1
  /\ \E v \in {"none", "edited"} : Write(f, v)
  /\ UNCHANGED <<journal, holder, alive, pc, workVars, readVars, strayed, crashes, faults>> /\ Watch

------------------------------------------------------------------------------
(* A reader: look for a journal, read the commit record and look again.     *)

Reading == UNCHANGED <<fileVars, holder, alive, pc, workVars, strayed, countVars>> /\ Watch

ReadBegin ==
  /\ rpc = "out" /\ ~Pending
  /\ rpc' = "commit"
  /\ UNCHANGED view /\ Reading

ReadCommit ==
  /\ rpc = "commit"
  /\ rpc' = IF file["state"] \in {"none", "edited"} THEN "failed" ELSE "check"
  /\ view' = file["state"]
  /\ Reading

\* Fault of ReadEnd: the journal is not looked for again.
ReadEndUnchecked ==
  /\ rpc = "check"
  /\ rpc' = "done"
  /\ UNCHANGED view /\ Reading

ReadEnd ==
  /\ rpc = "check"
  /\ rpc' = IF Pending THEN "failed" ELSE "done"
  /\ UNCHANGED view /\ Reading

ReadAgain ==
  /\ rpc \in {"failed", "done"}
  /\ rpc' = "out" /\ view' = "none"
  /\ Reading

------------------------------------------------------------------------------
Work(p) ==
  \/ Discover(p) \/ Acquire(p) \/ Recover(p) \/ Restore(p) \/ ClearJournal(p)
  \/ Claim(p) \/ Publish(p) \/ PublishFails(p) \/ Commit(p)
  \/ StopSignal(p) \/ StopMarker(p) \/ Exit(p) \/ Rerun(p)

Read == ReadBegin \/ ReadCommit \/ ReadEnd \/ ReadAgain

Next ==
  \/ \E p \in Procs : Work(p) \/ Crash(p)
  \/ \E f \in Editable : Edit(f)
  \/ Read

Spec == Init /\ [][Next]_vars

\* Commands come to their end, and operators run another one.
FairSpec == Spec /\ \A p \in Procs : WF_vars(Work(p))

------------------------------------------------------------------------------
(* Properties.                                                             *)

\* A transaction that ends has published every file or changed none, through
\* crashes of the publisher and of those that recover; files changed from
\* outside apart (startup-journal.ts:85-119, startup-state.ts:76-97).
AllOrNothing ==
  [][(Pending /\ journal' = {} /\ edits = 0) =>
       \E j \in journal : file \in {j.before, j.after}]_vars

\* A serving proxy's record is replaced by nobody, its own marker file gone or
\* not (startup-state.ts:26-50, startup-journal.ts:102-112).
LiveOwnerStands ==
  \A p \in Starters : pc[p] = "serving" /\ p \in alive => file["state"] \in {p, "edited", "none"}

\* A commit record that a reader returns was in force at some moment of the
\* read, unless a publication was undone meanwhile or a file changed from
\* outside (committed-state.ts:72-79).
ReadIsCurrent == rpc = "done" => view \in inForce \/ undone \/ edits > 0

\* An interrupted publication is undone by whoever comes next, unless a file was
\* changed from outside, or a stop that had read before the publication began
\* took its marker (cli-utils.ts:264-276, startup-journal.ts:88-119).
PendingEnds == Pending ~> (~Pending \/ edits > 0 \/ strayed)
==============================================================================
