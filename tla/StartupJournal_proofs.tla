------------------------ MODULE StartupJournal_proofs ------------------------
(***************************************************************************)
(* Safety of StartupJournal for any starters, operators, troubles and      *)
(* files that are changed by hand.                                         *)
(***************************************************************************)
EXTENDS StartupJournal, TLAPS

------------------------------------------------------------------------------
(* The inductive invariant.                                                *)

Labels == {"out", "recovers", "stops", "recover", "restore", "claim", "publish", "revert",
           "stop", "serving", "failed", "done"}

\* What p does under the operation lock.
Locked == {"recover", "restore", "claim", "publish", "revert", "stop"}

TypeOK ==
  /\ file \in State
  /\ \A j \in journal : j.before \in State /\ j.after \in State
  /\ alive \subseteq Procs /\ pc \in [Procs -> Labels]
  /\ undo \subseteq Files /\ wpos \in 0..5
  /\ rpc \in {"out", "commit", "check", "done", "failed"}
  /\ undone \in BOOLEAN /\ edits \in Nat

\* A change of f by hand.
ByHand(f) == f \in Editable /\ edits > 0 /\ file[f] \in {"none", "edited"}

\* One process at a time works under the lock, and what the journal records is
\* its own publication when it publishes or reverts.
ControlInv ==
  /\ \A j, k \in journal : j = k
  /\ \A p \in alive :
       /\ pc[p] \in Locked => holder = p
       /\ pc[p] \in {"claim", "publish", "revert", "serving"} => p \in Starters
       /\ pc[p] \in {"publish", "revert"} => \A j \in journal : j.after = After(p)
       /\ pc[p] = "claim" => journal = {}
       /\ pc[p] \in {"recover", "restore", "claim"} => wpos = 0

\* While p publishes, the files up to wpos are published and the others are as
\* before; while it restores, all but those in undo are as before.
ProgressInv ==
  \A p \in alive :
    /\ pc[p] = "publish" =>
         \A i \in 1..5 :
           /\ i <= wpos => \/ file[STATE_NAMES[i]] = After(p)[STATE_NAMES[i]]
                           \/ ByHand(STATE_NAMES[i])
           /\ i > wpos /\ edits = 0 =>
                \A j \in journal : file[STATE_NAMES[i]] = j.before[STATE_NAMES[i]]
    /\ pc[p] \in {"restore", "revert"} /\ edits = 0 =>
         \A j \in journal, f \in Files \ undo : file[f] = j.before[f]

\* A serving proxy's files are its own, and nobody publishes or restores.
OwnerInv ==
  \A p \in alive : pc[p] = "serving" =>
    /\ \A f \in {"pid", "state"} : file[f] = p \/ ByHand(f)
    /\ \A q \in alive : pc[q] \notin {"publish", "restore", "revert"}

\* While a reader looks, the committed record, or the one a publication
\* replaces, is among those in force; what it read was in force, has been
\* undone, or is being published.
ReaderInv ==
  /\ rpc \in {"commit", "check", "done"} =>
       IF Pending THEN \A j \in journal : j.before["state"] \in inForce
                  ELSE file["state"] \in inForce
  /\ rpc \in {"check", "done"} =>
       \/ view \in inForce \/ undone \/ edits > 0
       \/ rpc = "check" /\ Pending /\ view = file["state"]

Inv == TypeOK /\ ControlInv /\ ProgressInv

------------------------------------------------------------------------------
(* The files in their order.                                               *)

\* STATE_NAMES lists every file once.
LEMMA Names ==
  /\ DOMAIN STATE_NAMES = 1..5 /\ Len(STATE_NAMES) = 5
  /\ \A i \in 1..5 : STATE_NAMES[i] \in Files
  /\ \A i, j \in 1..5 : STATE_NAMES[i] = STATE_NAMES[j] => i = j
  /\ \A f \in Files : \E i \in 1..5 : STATE_NAMES[i] = f
  /\ \A i \in 1..5 : STATE_NAMES[i] = "state" <=> i = 5
BY DEF STATE_NAMES, Files

\* Last picks a file of the set.
LEMMA LastIsMember ==
  ASSUME NEW S \in SUBSET Files, S # {}
  PROVE  Last(S) \in S
<1> DEFINE IsLast(i) == /\ i \in 1..5 /\ STATE_NAMES[i] \in S
                        /\ \A j \in 1..5 : STATE_NAMES[j] \in S => j <= i
<1>1. \E i \in 1..5 : STATE_NAMES[i] \in S
  BY Names
<1>2. \E i \in 1..5 : IsLast(i)
  <2>1. CASE STATE_NAMES[5] \in S  BY <2>1
  <2>2. CASE STATE_NAMES[5] \notin S /\ STATE_NAMES[4] \in S  BY <2>2
  <2>3. CASE STATE_NAMES[5] \notin S /\ STATE_NAMES[4] \notin S /\ STATE_NAMES[3] \in S  BY <2>3
  <2>4. CASE STATE_NAMES[5] \notin S /\ STATE_NAMES[4] \notin S /\ STATE_NAMES[3] \notin S
             /\ STATE_NAMES[2] \in S
    BY <2>4
  <2>5. CASE STATE_NAMES[5] \notin S /\ STATE_NAMES[4] \notin S /\ STATE_NAMES[3] \notin S
             /\ STATE_NAMES[2] \notin S
    BY <1>1, <2>5
  <2> QED BY <2>1, <2>2, <2>3, <2>4, <2>5
<1>3. Last(S) = STATE_NAMES[CHOOSE i \in 1..5 : IsLast(i)]
  BY Names DEF Last
<1> HIDE DEF IsLast
<1>4. IsLast(CHOOSE i \in 1..5 : IsLast(i))
  BY <1>2
<1> QED BY <1>3, <1>4 DEF IsLast

\* What a start publishes is a state of the files.
LEMMA AfterTyped == \A p \in Procs : After(p) \in State
BY DEF After, State, Files

------------------------------------------------------------------------------
(* Types.                                                                  *)

LEMMA TypeStep == TypeOK /\ [Next]_vars => TypeOK'
<1> SUFFICES ASSUME TypeOK, [Next]_vars PROVE TypeOK'
  OBVIOUS
<1> USE DEF TypeOK, fileVars, workVars, readVars, countVars, historyVars
<1>1. Watch => undone' \in BOOLEAN
  BY DEF Watch
<1>2. ASSUME NEW p \in Procs, NEW l \in Labels, Goto(p, l)
      PROVE  pc' \in [Procs -> Labels]
  BY <1>2 DEF Goto
<1>3. ASSUME NEW p \in Procs, NEW l \in Labels, Leave(p, l)
      PROVE  pc' \in [Procs -> Labels] /\ undo' \subseteq Files /\ wpos' \in 0..5
  BY <1>2, <1>3 DEF Leave
<1>4. ASSUME NEW f \in Files, NEW v, Write(f, v), v \in {"none", "earlier", "config", "edited"} \cup Procs
      PROVE  file' \in State
  BY <1>4 DEF Write, State
<1>5. ASSUME NEW p \in Procs, Work(p) PROVE TypeOK'
  <2>1. CASE Discover(p) BY <1>1, <1>2, <2>1 DEF Discover, Apart, Labels
  <2>2. CASE Acquire(p) BY <1>1, <1>2, <2>2 DEF Acquire, Apart, Labels
  <2>3. CASE Recover(p) BY <1>1, <1>2, <1>3, <2>3 DEF Recover, Apart, Labels
  <2>4. CASE Restore(p)
    <3>1. Last(undo) \in Files
      BY <2>4, LastIsMember DEF Restore
    <3>2. PICK j \in journal :
            \/ /\ Write(Last(undo), j.before[Last(undo)])
               /\ undo' = undo \ {Last(undo)}
               /\ UNCHANGED <<holder, wpos, pc, faults>>
            \/ /\ Faulty /\ Leave(p, "failed")
               /\ UNCHANGED file \/ Write(Last(undo), j.before[Last(undo)])
      BY <2>4 DEF Restore
    <3>3. j.before[Last(undo)] \in {"none", "earlier", "config", "edited"} \cup Procs
      BY <3>1 DEF State
    <3>4. file' \in State
      BY <1>4, <3>1, <3>2, <3>3
    <3>5. pc' \in [Procs -> Labels] /\ undo' \subseteq Files /\ wpos' \in 0..5
      BY <1>3, <3>2 DEF Labels
    <3> QED BY <1>1, <2>4, <3>4, <3>5 DEF Restore, Apart
  <2>5. CASE ClearJournal(p) BY <1>1, <1>2, <1>3, <2>5 DEF ClearJournal, Apart, Labels
  <2>6. CASE Claim(p) BY <1>1, <1>2, <1>3, <2>6, AfterTyped DEF Claim, Apart, Labels
  <2>7. CASE Publish(p)
    <3>1. wpos + 1 \in 1..5
      BY <2>7, Names DEF Publish
    <3>2. file' \in State
      BY <1>4, <2>7, <3>1, Names, AfterTyped DEF Publish, State
    <3> QED BY <1>1, <2>7, <3>1, <3>2 DEF Publish, Apart
  <2>8. CASE PublishFails(p)
    <3>1. file' \in State
      <4>1. CASE UNCHANGED file BY <4>1
      <4>2. CASE wpos < Len(STATE_NAMES) /\ Write(STATE_NAMES[wpos + 1], After(p)[STATE_NAMES[wpos + 1]])
        <5>1. wpos + 1 \in 1..5
          BY <4>2, Names
        <5> QED BY <1>4, <4>2, <5>1, Names, AfterTyped DEF State
      <4> QED BY <2>8, <4>1, <4>2 DEF PublishFails
    <3> QED BY <1>1, <1>2, <2>8, <3>1 DEF PublishFails, Apart, Labels
  <2>9. CASE Commit(p) BY <1>1, <1>3, <2>9 DEF Commit, Apart, Labels
  <2>10. CASE StopSignal(p) BY <1>1, <1>3, <2>10 DEF StopSignal, Apart, Labels
  <2>11. CASE StopMarker(p) BY <1>1, <1>3, <1>4, <2>11 DEF StopMarker, Apart, Labels, Files
  <2>12. CASE Exit(p) BY <1>1, <1>2, <2>12 DEF Exit, Apart, Labels
  <2>13. CASE Rerun(p) BY <1>1, <1>2, <2>13 DEF Rerun, Apart, Labels
  <2> QED BY <1>5, <2>1, <2>2, <2>3, <2>4, <2>5, <2>6, <2>7, <2>8, <2>9, <2>10, <2>11,
             <2>12, <2>13 DEF Work
<1>6. ASSUME NEW p \in Procs, Crash(p) PROVE TypeOK'
  BY <1>1, <1>6 DEF Crash
<1>7. ASSUME NEW f \in Editable, Edit(f) PROVE TypeOK'
  BY <1>1, <1>4, <1>7, EditableAssumption DEF Edit
<1>8. CASE Read
  BY <1>1, <1>8 DEF Read, ReadBegin, ReadCommit, ReadEnd, ReadAgain, Reading
<1>9. CASE UNCHANGED vars
  BY <1>9 DEF vars
<1> QED BY <1>5, <1>6, <1>7, <1>8, <1>9 DEF Next

------------------------------------------------------------------------------
(* Who works under the lock.                                               *)

LEMMA ControlStep == TypeOK /\ ControlInv /\ [Next]_vars => ControlInv'
<1> SUFFICES ASSUME TypeOK, ControlInv, [Next]_vars PROVE ControlInv'
  OBVIOUS
<1> USE NobodyAssumption DEF TypeOK, ControlInv, fileVars, workVars, readVars, countVars,
        Procs, Locked, Goto, Leave
<1>1. ASSUME NEW p \in Procs, Work(p) PROVE ControlInv'
  <2>1. CASE Discover(p) BY <2>1 DEF Discover
  <2>2. CASE Acquire(p) BY <2>2 DEF Acquire
  <2>3. CASE Recover(p) BY <2>3 DEF Recover, Pending
  <2>4. CASE Restore(p) BY <2>4 DEF Restore
  <2>5. CASE ClearJournal(p) BY <2>5 DEF ClearJournal
  <2>6. CASE Claim(p) BY <2>6 DEF Claim
  <2>7. CASE Publish(p) BY <2>7 DEF Publish
  <2>8. CASE PublishFails(p) BY <2>8 DEF PublishFails
  <2>9. CASE Commit(p) BY <2>9 DEF Commit
  <2>10. CASE StopSignal(p) BY <2>10 DEF StopSignal
  <2>11. CASE StopMarker(p) BY <2>11 DEF StopMarker
  <2>12. CASE Exit(p) BY <2>12 DEF Exit
  <2>13. CASE Rerun(p) BY <2>13 DEF Rerun
  <2> QED BY <1>1, <2>1, <2>2, <2>3, <2>4, <2>5, <2>6, <2>7, <2>8, <2>9, <2>10, <2>11,
             <2>12, <2>13 DEF Work
<1>2. ASSUME NEW p \in Procs, Crash(p) PROVE ControlInv'
  BY <1>2 DEF Crash
<1>3. ASSUME NEW f \in Editable, Edit(f) PROVE ControlInv'
  BY <1>3 DEF Edit
<1>4. CASE Read
  BY <1>4 DEF Read, ReadBegin, ReadCommit, ReadEnd, ReadAgain, Reading
<1>5. CASE UNCHANGED vars
  BY <1>5 DEF vars
<1> QED BY <1>1, <1>2, <1>3, <1>4, <1>5 DEF Next

------------------------------------------------------------------------------
(* What is published and what is restored.                                 *)

\* A process that works under the lock keeps out the others.
LEMMA AloneUnderLock ==
  ASSUME TypeOK, ControlInv, NEW p \in alive, pc[p] \in Locked,
         NEW q \in alive, pc[q] \in Locked
  PROVE  p = q
BY DEF ControlInv

\* What a step of p leaves to be shown of the others: nothing, as they do not
\* work under the lock.
LEMMA OthersDoNotWork ==
  ASSUME TypeOK, ControlInv, NEW p \in alive, pc[p] \in Locked,
         alive' \subseteq alive, \A q \in Procs \ {p} : pc'[q] = pc[q],
         NEW q \in alive', q # p
  PROVE  pc'[q] \notin Locked
BY DEF ControlInv, TypeOK

\* A step under the lock that ends outside publication and restoration has
\* nothing more to show.
LEMMA LeavesNoProgress ==
  ASSUME TypeOK, ControlInv, NEW p \in alive, pc[p] \in Locked,
         alive' \subseteq alive, \A q \in Procs \ {p} : pc'[q] = pc[q],
         pc'[p] \notin {"publish", "restore", "revert"}
  PROVE  ProgressInv'
BY OthersDoNotWork DEF ProgressInv, Locked

LEMMA ProgressStep == TypeOK /\ ControlInv /\ ProgressInv /\ [Next]_vars => ProgressInv'
<1> SUFFICES ASSUME TypeOK, ControlInv, ProgressInv, [Next]_vars PROVE ProgressInv'
  OBVIOUS
<1>t. TypeOK'
  BY TypeStep
<1> USE DEF fileVars, workVars, readVars, countVars
<1>1. ASSUME NEW p \in Procs, Work(p) PROVE ProgressInv'
  <2>1. CASE Discover(p) BY <2>1 DEF Discover, Apart, Goto, TypeOK, ProgressInv, ByHand
  <2>2. CASE Acquire(p) BY <2>2 DEF Acquire, Apart, Goto, TypeOK, ControlInv, ProgressInv, Locked
  <2>3. CASE Recover(p)
    <3>1. p \in alive /\ pc[p] \in Locked /\ alive' = alive
          /\ \A q \in Procs \ {p} : pc'[q] = pc[q]
      BY <2>3 DEF Recover, Goto, Leave, TypeOK, Locked
    <3>2. CASE pc'[p] = "restore"
      <4>1. PICK j \in journal : undo' = {f \in Files : file[f] # j.before[f]}
        BY <2>3, <3>2 DEF Recover, Goto, Leave, TypeOK
      <4>2. \A k \in journal', f \in Files \ undo' : file'[f] = k.before[f]
        BY <2>3, <4>1 DEF Recover, ControlInv
      <4>3. \A q \in alive' : q # p => pc'[q] \notin Locked
        BY <3>1, OthersDoNotWork
      <4> QED BY <3>2, <4>2, <4>3 DEF ProgressInv, Locked
    <3>3. CASE pc'[p] # "restore"
      <4>1. pc'[p] \notin {"publish", "restore", "revert"}
        BY <2>3, <3>3 DEF Recover, Goto, Leave, TypeOK
      <4> QED BY <3>1, <4>1, LeavesNoProgress
    <3> QED BY <3>2, <3>3
  <2>4. CASE Restore(p)
    <3>1. p \in alive /\ pc[p] \in {"restore", "revert"} /\ alive' = alive /\ journal' = journal
          /\ edits' = edits /\ Last(undo) \in undo /\ undo \subseteq Files
          /\ \A q \in Procs \ {p} : pc'[q] = pc[q]
      BY <2>4, LastIsMember DEF Restore, Apart, Goto, Leave, TypeOK
    <3>2. CASE pc'[p] = pc[p]
      <4>1. PICK j \in journal : Write(Last(undo), j.before[Last(undo)]) /\ undo' = undo \ {Last(undo)}
        BY <2>4, <3>1, <3>2 DEF Restore, Goto, Leave, TypeOK
      <4>2. edits = 0 => \A k \in journal, f \in Files \ undo' : file'[f] = k.before[f]
        BY <3>1, <4>1 DEF ProgressInv, ControlInv, Write, TypeOK, State
      <4>3. \A q \in alive' : q # p => pc'[q] \notin Locked
        BY <3>1, OthersDoNotWork DEF Locked
      <4> QED BY <3>1, <3>2, <4>2, <4>3 DEF ProgressInv, Locked
    <3>3. CASE pc'[p] = "failed"
      BY <3>1, <3>3, LeavesNoProgress DEF Locked
    <3> QED BY <2>4, <3>2, <3>3 DEF Restore, Goto, Leave, TypeOK
  <2>5. CASE ClearJournal(p)
    BY <2>5, LeavesNoProgress DEF ClearJournal, Goto, Leave, TypeOK, Locked
  <2>6. CASE Claim(p)
    <3>1. p \in alive /\ pc[p] \in Locked /\ alive' = alive
          /\ \A q \in Procs \ {p} : pc'[q] = pc[q]
      BY <2>6 DEF Claim, Goto, Leave, TypeOK, Locked
    <3>2. CASE Owned
      <4>1. pc'[p] = "failed"
        BY <2>6, <3>2 DEF Claim, Leave, Goto, TypeOK
      <4> QED BY <3>1, <4>1, LeavesNoProgress
    <3>3. CASE ~Owned
      <4>1. journal' = {[before |-> file, after |-> After(p)]} /\ file' = file /\ pc'[p] = "publish"
        BY <2>6, <3>3 DEF Claim, Goto, TypeOK
      <4>2. \A q \in alive' : q # p => pc'[q] \notin Locked
        BY <3>1, OthersDoNotWork
      <4>3. wpos' = 0
        BY <2>6, <3>3 DEF Claim, ControlInv, TypeOK
      <4> QED BY <4>1, <4>2, <4>3 DEF ProgressInv, Locked
    <3> QED BY <3>2, <3>3
  <2>7. CASE Publish(p)
    <3>1. p \in alive /\ pc[p] = "publish" /\ alive' = alive /\ journal' = journal /\ pc' = pc
          /\ edits' = edits /\ wpos' = wpos + 1 /\ wpos + 1 \in 1..5
      BY <2>7, Names DEF Publish, Apart, TypeOK
    <3> DEFINE n == STATE_NAMES[wpos + 1]
    <3>2. n \in Files /\ file' = [file EXCEPT ![n] = After(p)[n]]
      BY <2>7, <3>1, Names DEF Publish, Write
    <3>3. file'[n] = After(p)[n] /\ \A f \in Files \ {n} : file'[f] = file[f]
      BY <3>2 DEF TypeOK, State
    <3>4. ASSUME NEW i \in 1..5
          PROVE  /\ i <= wpos' => \/ file'[STATE_NAMES[i]] = After(p)[STATE_NAMES[i]]
                                  \/ ByHand(STATE_NAMES[i])'
                 /\ i > wpos' /\ edits' = 0 =>
                      \A j \in journal' : file'[STATE_NAMES[i]] = j.before[STATE_NAMES[i]]
      <4>1. CASE i = wpos + 1
        BY <3>1, <3>3, <4>1 DEF TypeOK
      <4>2. CASE i # wpos + 1
        <5>1. STATE_NAMES[i] \in Files \ {n}
          BY <3>1, <4>2, Names
        <5>2. file'[STATE_NAMES[i]] = file[STATE_NAMES[i]]
          BY <3>3, <5>1
        <5>3. wpos \in 0..5 /\ (i <= wpos' => i <= wpos) /\ (i > wpos' => i > wpos)
          BY <3>1, <4>2 DEF TypeOK
        <5> QED BY <3>1, <5>2, <5>3 DEF ProgressInv, ByHand
      <4> QED BY <4>1, <4>2
    <3>5. \A q \in alive' : q # p => pc'[q] \notin Locked
      BY <3>1, OthersDoNotWork DEF Locked
    <3> QED BY <3>1, <3>4, <3>5 DEF ProgressInv, Locked
  <2>8. CASE PublishFails(p)
    <3>1. p \in alive /\ pc[p] = "publish" /\ alive' = alive /\ journal' = journal
          /\ edits' = edits /\ pc'[p] = "revert" /\ \A q \in Procs \ {p} : pc'[q] = pc[q]
      BY <2>8 DEF PublishFails, Apart, Goto, TypeOK
    <3>2. ASSUME edits = 0, NEW j \in journal, NEW f \in Files \ undo'
          PROVE  file'[f] = j.before[f]
      <4>1. PICK i \in 1..5 : STATE_NAMES[i] = f
        BY <3>2, Names
      <4>2. \/ file' = file
            \/ /\ wpos + 1 \in 1..5
               /\ file' = [file EXCEPT ![STATE_NAMES[wpos + 1]] = After(p)[STATE_NAMES[wpos + 1]]]
        BY <2>8, Names DEF PublishFails, Write, TypeOK
      <4>3. i <= wpos + 1 => file'[f] # After(p)[f]
        BY <2>8, <4>1, Names DEF PublishFails, TypeOK
      <4>4. wpos + 1 \in 1..5 => After(p)[STATE_NAMES[wpos + 1]] = [file EXCEPT ![STATE_NAMES[wpos + 1]] = After(p)[STATE_NAMES[wpos + 1]]][STATE_NAMES[wpos + 1]]
        BY Names DEF TypeOK, State
      <4>5. file'[f] = file[f]
        BY <4>1, <4>2, <4>3, <4>4, Names DEF TypeOK, State
      <4>6. i > wpos
        BY <3>1, <3>2, <4>1, <4>3, <4>5 DEF ProgressInv, ByHand, TypeOK
      <4> QED BY <3>1, <3>2, <4>1, <4>5, <4>6 DEF ProgressInv
    <3>3. \A q \in alive' : q # p => pc'[q] \notin Locked
      BY <3>1, OthersDoNotWork DEF Locked
    <3> QED BY <3>1, <3>2, <3>3 DEF ProgressInv, Locked
  <2>9. CASE Commit(p)
    BY <2>9, LeavesNoProgress DEF Commit, Goto, Leave, TypeOK, Locked
  <2>10. CASE StopSignal(p)
    <3>1. p \in alive /\ pc[p] \in Locked /\ alive' \subseteq alive /\ pc'[p] \in {"stop", "failed"}
          /\ \A q \in Procs \ {p} : pc'[q] = pc[q]
      BY <2>10 DEF StopSignal, Goto, Leave, TypeOK, Locked
    <3> QED BY <3>1, LeavesNoProgress
  <2>11. CASE StopMarker(p)
    BY <2>11, LeavesNoProgress DEF StopMarker, Goto, Leave, TypeOK, Locked
  <2>12. CASE Exit(p) BY <2>12 DEF Exit, Apart, Goto, TypeOK, ProgressInv, ByHand
  <2>13. CASE Rerun(p) BY <2>13 DEF Rerun, Apart, Goto, TypeOK, ProgressInv, ByHand
  <2> QED BY <1>1, <2>1, <2>2, <2>3, <2>4, <2>5, <2>6, <2>7, <2>8, <2>9, <2>10, <2>11,
             <2>12, <2>13 DEF Work
<1>2. ASSUME NEW p \in Procs, Crash(p) PROVE ProgressInv'
  BY <1>2 DEF Crash, TypeOK, ProgressInv, ByHand
<1>3. ASSUME NEW f \in Editable, Edit(f) PROVE ProgressInv'
  BY <1>3, EditableAssumption, Names DEF Edit, Write, TypeOK, State, ProgressInv, ByHand
<1>4. CASE Read
  BY <1>4 DEF Read, ReadBegin, ReadCommit, ReadEnd, ReadAgain, Reading, ProgressInv, ByHand
<1>5. CASE UNCHANGED vars
  BY <1>5 DEF vars, ProgressInv, ByHand
<1> QED BY <1>1, <1>2, <1>3, <1>4, <1>5 DEF Next

------------------------------------------------------------------------------
(* A serving proxy, unless both its marker and its record may be changed   *)
(* by hand.                                                                *)

Marked == ~({"pid", "state"} \subseteq Editable)

\* A step that starts no proxy, and neither publishes nor restores.
LEMMA OwnersKept ==
  ASSUME OwnerInv, file' = file, edits' = edits,
         \A p \in alive' : pc'[p] = "serving" => p \in alive /\ pc[p] = "serving",
         \A q \in alive' : pc'[q] \in {"publish", "restore", "revert"} =>
                             \/ q \in alive /\ pc[q] \in {"publish", "restore", "revert"}
                             \/ \A p \in alive : pc[p] # "serving"
  PROVE  OwnerInv'
BY DEF OwnerInv, ByHand

\* A step of a process that publishes or restores: nobody serves.
LEMMA NobodyServes ==
  ASSUME OwnerInv, NEW q \in alive, pc[q] \in {"publish", "restore", "revert"},
         \A p \in alive' : pc'[p] = "serving" => p \in alive /\ pc[p] = "serving"
  PROVE  OwnerInv'
BY DEF OwnerInv

\* A serving proxy is seen alive in one of its files.
LEMMA ServingIsSeen ==
  ASSUME Marked, OwnerInv, NEW p \in alive, pc[p] = "serving"
  PROVE  Live(file["pid"]) \/ Live(file["state"])
BY DEF Marked, OwnerInv, ByHand, Live

LEMMA OwnerStep ==
  ASSUME Marked
  PROVE  TypeOK /\ ControlInv /\ ProgressInv /\ OwnerInv /\ [Next]_vars => OwnerInv'
<1> SUFFICES ASSUME TypeOK, ControlInv, ProgressInv, OwnerInv, [Next]_vars PROVE OwnerInv'
  OBVIOUS
<1> USE DEF fileVars, workVars, readVars, countVars
<1>1. ASSUME NEW p \in Procs, Work(p) PROVE OwnerInv'
  <2>1. CASE Discover(p) BY <2>1, OwnersKept DEF Discover, Apart, Goto, TypeOK
  <2>2. CASE Acquire(p) BY <2>2, OwnersKept DEF Acquire, Apart, Goto, TypeOK
  <2>3. CASE Recover(p)
    <3>1. p \in alive /\ alive' = alive /\ file' = file /\ edits' = edits
          /\ pc'[p] \in {"claim", "out", "failed", "restore"} /\ \A q \in Procs \ {p} : pc'[q] = pc[q]
      BY <2>3 DEF Recover, Apart, Goto, Leave, TypeOK
    <3>2. pc'[p] = "restore" => \E j \in journal : ~Refused(j)
      BY <2>3 DEF Recover, Goto, Leave, TypeOK
    <3>3. pc'[p] = "restore" => \A q \in alive : pc[q] # "serving"
      BY <3>2, ServingIsSeen DEF Refused
    <3> QED BY <3>1, <3>3, OwnersKept DEF TypeOK
  <2>4. CASE Restore(p) BY <2>4, NobodyServes DEF Restore, Goto, Leave, TypeOK
  <2>5. CASE ClearJournal(p) BY <2>5, NobodyServes DEF ClearJournal, Goto, Leave, TypeOK
  <2>6. CASE Claim(p)
    <3>1. p \in alive /\ alive' = alive /\ file' = file /\ edits' = edits
          /\ pc'[p] \in {"publish", "failed"} /\ \A q \in Procs \ {p} : pc'[q] = pc[q]
      BY <2>6 DEF Claim, Apart, Goto, Leave, TypeOK
    <3>2. pc'[p] = "publish" => ~Owned
      BY <2>6 DEF Claim, Goto, Leave, TypeOK
    <3>3. pc'[p] = "publish" => \A q \in alive : pc[q] # "serving"
      BY <3>2, ServingIsSeen DEF Owned
    <3> QED BY <3>1, <3>3, OwnersKept DEF TypeOK
  <2>7. CASE Publish(p) BY <2>7, NobodyServes DEF Publish
  <2>8. CASE PublishFails(p) BY <2>8, NobodyServes DEF PublishFails, Goto, TypeOK
  <2>9. CASE Commit(p)
    <3>1. p \in alive /\ pc[p] = "publish" /\ wpos = 5 /\ file' = file /\ edits' = edits
          /\ alive' = alive /\ pc'[p] = "serving" /\ \A q \in Procs \ {p} : pc'[q] = pc[q]
      BY <2>9, Names DEF Commit, Apart, Goto, Leave, TypeOK
    <3>2. \A f \in Files : file[f] = After(p)[f] \/ ByHand(f)
      BY <3>1, Names DEF ProgressInv
    <3>3. \A f \in {"pid", "state"} : file'[f] = p \/ ByHand(f)'
      BY <3>1, <3>2 DEF After, Files, ByHand
    <3>4. \A q \in alive' : q # p => pc'[q] \notin Locked /\ pc'[q] # "serving"
      BY <3>1, OthersDoNotWork DEF Locked, OwnerInv, TypeOK
    <3> QED BY <3>1, <3>3, <3>4 DEF OwnerInv, Locked
  <2>10. CASE StopSignal(p) BY <2>10, OwnersKept DEF StopSignal, Apart, Goto, Leave, TypeOK
  <2>11. CASE StopMarker(p)
    <3>1. p \in alive /\ ~Live(file["pid"]) /\ edits' = edits /\ alive' = alive
          /\ pc'[p] = "done" /\ \A q \in Procs \ {p} : pc'[q] = pc[q]
      BY <2>11 DEF StopMarker, Apart, Goto, Leave, TypeOK
    <3>2. CASE file["pid"] \in {"none", "edited"}
      BY <2>11, <3>1, <3>2, OwnersKept DEF StopMarker, TypeOK
    <3>3. CASE file["pid"] \notin {"none", "edited"}
      <4>1. \A q \in alive : pc[q] # "serving"
        BY <3>1, <3>3 DEF OwnerInv, ByHand, Live
      <4> QED BY <3>1, <4>1 DEF OwnerInv, TypeOK
    <3> QED BY <3>2, <3>3
  <2>12. CASE Exit(p) BY <2>12, OwnersKept DEF Exit, Apart, Goto, TypeOK
  <2>13. CASE Rerun(p) BY <2>13, OwnersKept DEF Rerun, Apart, Goto, TypeOK
  <2> QED BY <1>1, <2>1, <2>2, <2>3, <2>4, <2>5, <2>6, <2>7, <2>8, <2>9, <2>10, <2>11,
             <2>12, <2>13 DEF Work
<1>2. ASSUME NEW p \in Procs, Crash(p) PROVE OwnerInv'
  BY <1>2, OwnersKept DEF Crash, TypeOK
<1>3. ASSUME NEW f \in Editable, Edit(f) PROVE OwnerInv'
  BY <1>3 DEF Edit, Write, TypeOK, State, Files, OwnerInv, ByHand
<1>4. CASE Read
  BY <1>4, OwnersKept DEF Read, ReadBegin, ReadCommit, ReadEnd, ReadAgain, Reading, TypeOK
<1>5. CASE UNCHANGED vars
  BY <1>5, OwnersKept DEF vars
<1> QED BY <1>1, <1>2, <1>3, <1>4, <1>5 DEF Next

------------------------------------------------------------------------------
(* The reader.                                                             *)

\* A step that changes neither the record nor the journal.
LEMMA ReaderKept ==
  ASSUME TypeOK, ReaderInv, Watch, UNCHANGED readVars, edits' = edits,
         journal' = journal, file'["state"] = file["state"]
  PROVE  ReaderInv'
BY DEF ReaderInv, Watch, Pending, readVars, TypeOK

\* A step that ends a publication as the files are.
LEMMA ReaderAtEnd ==
  ASSUME TypeOK, ReaderInv, Watch, UNCHANGED readVars, edits' = edits,
         journal' = {}, file' = file
  PROVE  ReaderInv'
BY DEF ReaderInv, Watch, Pending, readVars, TypeOK

\* A step that changes the record of a pending publication: what it was is
\* known to the reader, or is undone.
LEMMA ReaderAtChange ==
  ASSUME TypeOK, ReaderInv, Watch, UNCHANGED readVars, edits' = edits,
         journal' = journal, NEW j \in journal, \A k \in journal : k = j,
         edits > 0 \/ file["state"] = j.before["state"] \/ file'["state"] = j.before["state"]
  PROVE  ReaderInv'
<1>1. CASE file'["state"] = file["state"]
  BY <1>1, ReaderKept
<1>2. CASE file'["state"] # file["state"] /\ file'["state"] = j.before["state"]
  BY <1>2 DEF ReaderInv, Watch, Pending, readVars, TypeOK
<1>3. CASE file["state"] = j.before["state"] \/ edits > 0
  BY <1>3 DEF ReaderInv, Watch, Pending, readVars, TypeOK
<1> QED BY <1>1, <1>2, <1>3

\* A step that publishes the record.
LEMMA ReaderAtPublish ==
  ASSUME TypeOK, ControlInv, ProgressInv, ReaderInv, Watch, UNCHANGED readVars,
         edits' = edits, journal' = journal, NEW p \in alive, pc[p] = "publish", wpos = 4
  PROVE  ReaderInv'
<1>1. edits > 0 \/ \A j \in journal : file["state"] = j.before["state"]
  BY Names DEF ProgressInv, TypeOK
<1>2. CASE journal = {}
  BY <1>2 DEF ReaderInv, Watch, Pending, readVars, TypeOK
<1>3. CASE journal # {}
  BY <1>1, <1>3, ReaderAtChange DEF ControlInv
<1> QED BY <1>2, <1>3

LEMMA ReaderStep ==
  TypeOK /\ ControlInv /\ ProgressInv /\ ReaderInv /\ [Next]_vars => ReaderInv'
<1> SUFFICES ASSUME TypeOK, ControlInv, ProgressInv, ReaderInv, [Next]_vars PROVE ReaderInv'
  OBVIOUS
<1> USE DEF fileVars, workVars, countVars
<1>1. ASSUME NEW p \in Procs, Work(p) PROVE ReaderInv'
  <2>1. CASE Discover(p) BY <2>1, ReaderKept DEF Discover, Apart
  <2>2. CASE Acquire(p) BY <2>2, ReaderKept DEF Acquire, Apart
  <2>3. CASE Recover(p) BY <2>3, ReaderKept DEF Recover, Apart
  <2>4. CASE Restore(p)
    <3>1. PICK j \in journal : file' = file \/ Write(Last(undo), j.before[Last(undo)])
      BY <2>4 DEF Restore
    <3>2. Last(undo) \in Files
      BY <2>4, LastIsMember DEF Restore, TypeOK
    <3>3. file'["state"] = file["state"] \/ file'["state"] = j.before["state"]
      BY <3>1, <3>2 DEF Write, TypeOK, State, Files
    <3>4. CASE file'["state"] = file["state"]
      BY <2>4, <3>4, ReaderKept DEF Restore, Apart
    <3>5. CASE file'["state"] = j.before["state"]
      BY <2>4, <3>5, ReaderAtChange DEF Restore, Apart, ControlInv
    <3> QED BY <3>3, <3>4, <3>5
  <2>5. CASE ClearJournal(p) BY <2>5, ReaderAtEnd DEF ClearJournal, Apart
  <2>6. CASE Claim(p)
    <3>1. CASE Owned
      BY <2>6, <3>1, ReaderKept DEF Claim, Apart
    <3>2. CASE ~Owned
      <4>1. journal = {} /\ journal' = {[before |-> file, after |-> After(p)]} /\ file' = file
            /\ UNCHANGED readVars /\ edits' = edits /\ Watch
        BY <2>6, <3>2 DEF Claim, Apart, ControlInv
      <4> QED BY <4>1 DEF ReaderInv, Watch, Pending, readVars, TypeOK
    <3> QED BY <3>1, <3>2
  <2>7. CASE Publish(p)
    <3>1. p \in alive /\ pc[p] = "publish" /\ wpos + 1 \in 1..5
          /\ journal' = journal /\ edits' = edits /\ UNCHANGED readVars /\ Watch
      BY <2>7, Names DEF Publish, Apart, TypeOK
    <3>2. CASE wpos = 4
      BY <3>1, <3>2, ReaderAtPublish
    <3>3. CASE wpos # 4
      <4>1. file'["state"] = file["state"]
        BY <2>7, <3>1, <3>3, Names DEF Publish, Write, TypeOK, State
      <4> QED BY <3>1, <4>1, ReaderKept
    <3> QED BY <3>2, <3>3
  <2>8. CASE PublishFails(p)
    <3>1. p \in alive /\ pc[p] = "publish"
          /\ journal' = journal /\ edits' = edits /\ UNCHANGED readVars /\ Watch
      BY <2>8 DEF PublishFails, Apart
    <3>2. CASE file'["state"] = file["state"]
      BY <3>1, <3>2, ReaderKept
    <3>3. CASE file'["state"] # file["state"]
      <4>1. wpos < 5 /\ Write(STATE_NAMES[wpos + 1], After(p)[STATE_NAMES[wpos + 1]])
        BY <2>8, <3>3, Names DEF PublishFails
      <4>2. wpos = 4
        BY <3>3, <4>1, Names DEF Write, TypeOK, State
      <4> QED BY <3>1, <4>2, ReaderAtPublish
    <3> QED BY <3>2, <3>3
  <2>9. CASE Commit(p) BY <2>9, ReaderAtEnd DEF Commit, Apart
  <2>10. CASE StopSignal(p) BY <2>10, ReaderKept DEF StopSignal, Apart
  <2>11. CASE StopMarker(p)
    <3>1. file'["state"] = file["state"]
      BY <2>11 DEF StopMarker, Write, TypeOK, State, Files
    <3> QED BY <2>11, <3>1, ReaderKept DEF StopMarker, Apart
  <2>12. CASE Exit(p) BY <2>12, ReaderKept DEF Exit, Apart
  <2>13. CASE Rerun(p) BY <2>13, ReaderKept DEF Rerun, Apart
  <2> QED BY <1>1, <2>1, <2>2, <2>3, <2>4, <2>5, <2>6, <2>7, <2>8, <2>9, <2>10, <2>11,
             <2>12, <2>13 DEF Work
<1>2. ASSUME NEW p \in Procs, Crash(p) PROVE ReaderInv'
  BY <1>2, ReaderKept DEF Crash
<1>3. ASSUME NEW f \in Editable, Edit(f) PROVE ReaderInv'
  BY <1>3 DEF Edit, TypeOK, ReaderInv, Watch, Pending, readVars
<1>4. CASE Read
  BY <1>4 DEF Read, ReadBegin, ReadCommit, ReadEnd, ReadAgain, Reading, TypeOK, ReaderInv, Watch, Pending, readVars
<1>5. CASE UNCHANGED vars
  BY <1>5 DEF vars, ReaderInv, readVars, historyVars, Pending
<1> QED BY <1>1, <1>2, <1>3, <1>4, <1>5 DEF Next

------------------------------------------------------------------------------
(* The theorems.                                                           *)

\* Whoever works under the lock works alone, and the files are where its
\* publication or restoration says, through crashes and failing writes
\* (startup-journal.ts:83-119, startup-state.ts:60-99).
THEOREM Invariance == Spec => []Inv
<1>1. ASSUME Init PROVE Inv
  <2>1. file \in State /\ pc \in [Procs -> Labels]
    BY <1>1 DEF Init, Labels, State, Earlier
  <2>2. TypeOK
    <3>1. undone \in BOOLEAN
      BY <1>1, Zenon DEF Init
    <3>2. wpos \in 0..5 /\ edits \in Nat
      BY <1>1 DEF Init
    <3> QED BY <1>1, <2>1, <3>1, <3>2 DEF Init, TypeOK
  <2>3. ControlInv /\ ProgressInv
    BY <1>1 DEF Init, ControlInv, ProgressInv, Locked
  <2> QED BY <2>2, <2>3 DEF Inv
<1>2. Inv /\ [Next]_vars => Inv'
  BY TypeStep, ControlStep, ProgressStep DEF Inv
<1> QED BY <1>1, <1>2, PTL DEF Spec

\* A step that ends a transaction finds every file as before or as published.
LEMMA EndsWhole ==
  ASSUME Inv, Next, Pending, journal' = {}, edits = 0
  PROVE  \E j \in journal : file \in {j.before, j.after}
<1> USE DEF Inv, fileVars
<1>1. PICK p \in Procs : ClearJournal(p) \/ Commit(p)
  BY DEF Next, Work, Pending, Discover, Acquire, Recover, Restore, Claim, Publish, PublishFails,
         StopSignal, StopMarker, Exit, Rerun, Crash, Edit, Read, ReadBegin, ReadCommit,
         ReadEnd, ReadAgain, Reading
<1>2. PICK j \in journal : TRUE
  BY DEF Pending
<1>3. CASE ClearJournal(p)
  <2>1. \A f \in Files : file[f] = j.before[f]
    BY <1>3 DEF ClearJournal, ProgressInv
  <2>2. file = j.before
    BY <2>1 DEF TypeOK, State
  <2> QED BY <2>2
<1>4. CASE Commit(p)
  <2>1. p \in alive /\ pc[p] = "publish" /\ wpos = 5 /\ j.after = After(p)
    BY <1>4, Names DEF Commit, ControlInv
  <2>2. \A f \in Files : file[f] = j.after[f]
    BY <2>1, Names DEF ProgressInv, ByHand
  <2>3. file = j.after
    BY <2>2 DEF TypeOK, State
  <2> QED BY <2>3
<1> QED BY <1>1, <1>3, <1>4

\* A publication takes effect as a whole or not at all
\* (startup-journal.ts:85-119, startup-state.ts:76-97).
THEOREM TransactionsAreWhole == Spec => AllOrNothing
<1>1. Inv /\ [Next]_vars =>
        [(Pending /\ journal' = {} /\ edits = 0) => \E j \in journal : file \in {j.before, j.after}]_vars
  BY EndsWhole
<1> QED BY <1>1, Invariance, PTL DEF Spec, AllOrNothing

\* What a reader returns was in force while it read (committed-state.ts:72-79).
THEOREM ReadsAreCurrent == Spec => []ReadIsCurrent
<1>1. Init => ReaderInv
  BY DEF Init, ReaderInv
<1>2. Inv /\ ReaderInv /\ [Next]_vars => ReaderInv'
  BY ReaderStep DEF Inv
<1>3. ReaderInv => ReadIsCurrent
  BY DEF ReaderInv, ReadIsCurrent
<1> QED BY <1>1, <1>2, <1>3, Invariance, PTL DEF Spec

\* A serving proxy's record is replaced by nobody, unless somebody may change
\* both its marker file and its record by hand (startup-state.ts:26-50).
THEOREM OwnersStand ==
  ASSUME Marked
  PROVE  Spec => []LiveOwnerStands
<1>1. Init => OwnerInv
  BY DEF Init, OwnerInv
<1>2. Inv /\ OwnerInv /\ [Next]_vars => OwnerInv'
  BY OwnerStep DEF Inv
<1>3. OwnerInv => LiveOwnerStands
  BY DEF OwnerInv, LiveOwnerStands, ByHand
<1> QED BY <1>1, <1>2, <1>3, Invariance, PTL DEF Spec
==============================================================================
