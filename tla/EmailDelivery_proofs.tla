------------------------- MODULE EmailDelivery_proofs -------------------------
(***************************************************************************)
(* Safety of EmailDelivery for any messages, workers, scanners, operators, *)
(* redeliveries and crashes: types first, then the inductive invariant of  *)
(* EmailDelivery_inv and what follows from it, and then the refinement of  *)
(* SingleSubmission.                                                       *)
(***************************************************************************)
EXTENDS EmailDelivery_inv, TLAPS

------------------------------------------------------------------------------
(* Types.                                                                  *)


RecordsTyped == rec \in [Messages -> Records]

ActorsTyped ==
  /\ pc \in [Actors -> PCs]
  /\ job \in [Actors -> Messages \cup {NoMessage}]
  /\ snap \in [Actors -> Records]
  /\ token \in [Actors -> Nat]
  /\ goal \in [Actors -> Goals]
  /\ \A a \in Actors :
       /\ job[a] = NoMessage <=> pc[a] = "idle"
       /\ pc[a] \in {"settleLoad", "settleSave"} => goal[a] # "none"
       /\ pc[a] \in {"resolveLoad", "resolveSave"} => goal[a] \in Decisions

EnvironmentTyped ==
  /\ deliveries \in [Messages -> Nat]
  /\ consent \in [Messages -> BOOLEAN]
  /\ gate \in {"allow", "defer", "suppress"}
  /\ sends \in [Messages -> Nat]
  /\ accepted \subseteq Messages
  /\ alerted \subseteq Messages
  /\ decided \subseteq Messages
  /\ barred \subseteq Messages

\* TypeOK falls into the records, the actors and the rest.
LEMMA TypeParts == TypeOK <=> RecordsTyped /\ ActorsTyped /\ EnvironmentTyped
BY DEF TypeOK, RecordsTyped, ActorsTyped, EnvironmentTyped

\* The same of the next state.
LEMMA TypePartsNext ==
  ASSUME RecordsTyped', ActorsTyped', EnvironmentTyped'
  PROVE  TypeOK'
BY DEF TypeOK, RecordsTyped, ActorsTyped, EnvironmentTyped

\* The record a message starts with is typed.
LEMMA UnclaimedTyped == Unclaimed \in Records
BY DEF Unclaimed, Records, States, NoLease

\* An actor that is not idle works on a message.
LEMMA BusyActor ==
  ASSUME TypeOK, NEW a \in Actors, pc[a] # "idle"
  PROVE  job[a] \in Messages /\ rec[job[a]] \in Records
<1>1. job[a] \in Messages \cup {NoMessage} /\ job[a] # NoMessage
  BY DEF TypeOK
<1> QED BY <1>1 DEF TypeOK

\* Finish leaves the actors typed.
LEMMA FinishTyped ==
  ASSUME TypeOK, NEW a \in Actors, Finish(a)
  PROVE  ActorsTyped'
<1>1. pc' \in [Actors -> PCs] BY DEF TypeOK, Finish, PCs
<1>2. job' \in [Actors -> Messages \cup {NoMessage}] BY DEF TypeOK, Finish
<1>3. snap' \in [Actors -> Records] BY UnclaimedTyped DEF TypeOK, Finish
<1>4. token' \in [Actors -> Nat] BY DEF TypeOK, Finish, NoLease
<1>5. goal' \in [Actors -> Goals] BY DEF TypeOK, Finish, Goals
<1>6. \A b \in Actors :
         /\ job'[b] = NoMessage <=> pc'[b] = "idle"
         /\ pc'[b] \in {"settleLoad", "settleSave"} => goal'[b] # "none"
         /\ pc'[b] \in {"resolveLoad", "resolveSave"} => goal'[b] \in Decisions
  BY DEF TypeOK, Finish
<1> QED BY <1>1, <1>2, <1>3, <1>4, <1>5, <1>6 DEF ActorsTyped

\* Goto leaves the actors typed if the goal fits the next await.
LEMMA GotoTyped ==
  ASSUME TypeOK, NEW a \in Actors, pc[a] # "idle", NEW next \in PCs \ {"idle"}, Goto(a, next),
         next \in {"settleLoad", "settleSave"} => goal[a] # "none",
         next \in {"resolveLoad", "resolveSave"} => goal[a] \in Decisions
  PROVE  ActorsTyped'
BY DEF TypeOK, ActorsTyped, Goto

\* GotoWithGoal leaves the actors typed.
LEMMA GotoWithGoalTyped ==
  ASSUME TypeOK, NEW a \in Actors, pc[a] # "idle", NEW next \in PCs \ {"idle"},
         NEW state \in Goals \ {"none"}, GotoWithGoal(a, next, state),
         next \notin {"resolveLoad", "resolveSave"}
  PROVE  ActorsTyped'
BY DEF TypeOK, ActorsTyped, GotoWithGoal

\* GotoWithRecord leaves the actors typed: what it loads is a record.
LEMMA GotoWithRecordTyped ==
  ASSUME TypeOK, NEW a \in Actors, pc[a] # "idle", NEW next \in PCs \ {"idle"},
         GotoWithRecord(a, next),
         next \in {"settleLoad", "settleSave"} => goal[a] # "none",
         next \in {"resolveLoad", "resolveSave"} => goal[a] \in Decisions
  PROVE  ActorsTyped'
BY BusyActor DEF TypeOK, ActorsTyped, GotoWithRecord

\* A conditional update leaves typed records.
LEMMA WriteTyped ==
  ASSUME TypeOK, NEW a \in Actors, pc[a] # "idle", NEW state \in States, NEW lease \in Nat,
         NEW live \in BOOLEAN, Write(a, state, lease, live)
  PROVE  RecordsTyped'
<1>1. snap[a].version + 1 \in Nat
  BY DEF TypeOK, Records
<1>2. [version |-> snap[a].version + 1, state |-> state, lease |-> lease, live |-> live] \in Records
  BY <1>1 DEF Records
<1> QED BY <1>2, BusyActor DEF TypeOK, RecordsTyped, Write

\* So does one that releases the lease.
LEMMA WriteAndReleaseTyped ==
  ASSUME TypeOK, NEW a \in Actors, pc[a] # "idle", NEW state \in States, WriteAndRelease(a, state)
  PROVE  RecordsTyped'
BY WriteTyped DEF WriteAndRelease, NoLease

\* So does the save of a claim.
LEMMA ClaimWriteTyped ==
  ASSUME TypeOK, NEW w \in Actors, pc[w] # "idle", ClaimWrite(w)
  PROVE  RecordsTyped'
<1>1. snap[w].version + 1 \in Nat
  BY DEF TypeOK, Records
<1> QED BY <1>1, WriteTyped, WriteAndReleaseTyped DEF ClaimWrite, States, Terminal

\* The handler of a refused transition leaves the actors typed.
LEMMA TransitionFailedTyped ==
  ASSUME TypeOK, NEW w \in Actors, pc[w] # "idle", TransitionFailed(w)
  PROVE  ActorsTyped'
BY GotoTyped, GotoWithGoalTyped, FinishTyped DEF TransitionFailed, PCs, Goals

\* A worker's step keeps every variable typed.
LEMMA WorkerTyped ==
  ASSUME TypeOK, NEW w \in Workers, WorkerStep(w)
  PROVE  TypeOK'
<1> USE DEF policyVars, historyVars
<1>0. w \in Actors
  BY DEF Actors
<1>e. EnvironmentTyped /\ RecordsTyped /\ ActorsTyped
  BY TypeParts
<1>1. CASE \E m \in Messages : StartJob(w, m)
  <2> PICK m \in Messages : StartJob(w, m)
    BY <1>1
  <2>1. ActorsTyped'
    BY <1>0, <1>e, MessagesAssumption DEF ActorsTyped, StartJob, PCs
  <2>2. RecordsTyped' /\ EnvironmentTyped'
    BY <1>e DEF RecordsTyped, EnvironmentTyped, StartJob
  <2> QED BY <2>1, <2>2, TypePartsNext
<1>2. CASE LoadForClaim(w)
  <2>1. ActorsTyped'
    BY <1>0, <1>2, GotoWithRecordTyped, FinishTyped DEF LoadForClaim, PCs
  <2>2. RecordsTyped' /\ EnvironmentTyped'
    BY <1>e, <1>2 DEF RecordsTyped, EnvironmentTyped, LoadForClaim
  <2> QED BY <2>1, <2>2, TypePartsNext
<1>3. CASE Claim(w)
  <2>0. pc[w] = "claim" /\ snap[w].version + 1 \in Nat
    BY <1>0, <1>3 DEF Claim, TypeOK, Records
  <2>1. ActorsTyped'
    <3>1. ASSUME pc' = [pc EXCEPT ![w] = "consent"],
                 token' = [token EXCEPT ![w] = snap[w].version + 1],
                 UNCHANGED <<job, snap, goal>>
          PROVE  ActorsTyped'
      BY <1>0, <1>e, <2>0, <3>1 DEF ActorsTyped, PCs
    <3> QED BY <1>0, <1>3, <2>0, <3>1, GotoTyped, FinishTyped DEF Claim, PCs
  <2>2. RecordsTyped' /\ EnvironmentTyped'
    BY <1>0, <1>e, <1>3, <2>0, ClaimWriteTyped DEF RecordsTyped, EnvironmentTyped, Claim
  <2> QED BY <2>1, <2>2, TypePartsNext
<1>4. CASE CheckConsent(w)
  <2>1. ActorsTyped'
    BY <1>0, <1>4, GotoTyped, GotoWithGoalTyped DEF CheckConsent, PCs, Goals, Terminal
  <2>2. RecordsTyped' /\ EnvironmentTyped'
    BY <1>e, <1>4 DEF RecordsTyped, EnvironmentTyped, CheckConsent
  <2> QED BY <2>1, <2>2, TypePartsNext
<1>5. CASE CheckGate(w)
  <2>1. ActorsTyped'
    BY <1>0, <1>5, GotoTyped, GotoWithGoalTyped DEF CheckGate, PCs, Goals, Terminal
  <2>2. RecordsTyped' /\ EnvironmentTyped'
    BY <1>e, <1>5 DEF RecordsTyped, EnvironmentTyped, CheckGate
  <2> QED BY <2>1, <2>2, TypePartsNext
<1>6. CASE RevertLoad(w)
  <2>1. ActorsTyped'
    BY <1>0, <1>6, GotoWithRecordTyped, FinishTyped DEF RevertLoad, PCs
  <2>2. RecordsTyped' /\ EnvironmentTyped'
    BY <1>e, <1>6 DEF RecordsTyped, EnvironmentTyped, RevertLoad
  <2> QED BY <2>1, <2>2, TypePartsNext
<1>7. CASE RevertSave(w)
  <2>1. ActorsTyped'
    BY <1>0, <1>7, FinishTyped DEF RevertSave
  <2>2. RecordsTyped' /\ EnvironmentTyped'
    BY <1>0, <1>e, <1>7, WriteAndReleaseTyped
    DEF RecordsTyped, EnvironmentTyped, RevertSave, States
  <2> QED BY <2>1, <2>2, TypePartsNext
<1>8. CASE Recheck(w)
  <2>1. ActorsTyped'
    BY <1>0, <1>8, GotoWithRecordTyped, FinishTyped DEF Recheck, PCs
  <2>2. RecordsTyped' /\ EnvironmentTyped'
    BY <1>e, <1>8 DEF RecordsTyped, EnvironmentTyped, Recheck
  <2> QED BY <2>1, <2>2, TypePartsNext
<1>9. CASE BeginSending(w)
  <2>0. pc[w] = "begin" /\ snap[w].lease \in Nat /\ rec[job[w]].live \in BOOLEAN
    BY <1>0, <1>9, BusyActor DEF BeginSending, TypeOK, Records
  <2>1. ActorsTyped'
    BY <1>0, <1>9, GotoTyped, FinishTyped DEF BeginSending, PCs
  <2>2. RecordsTyped'
    BY <1>0, <1>e, <1>9, <2>0, WriteTyped DEF RecordsTyped, BeginSending, States
  <2>3. EnvironmentTyped'
    BY <1>e, <1>9 DEF EnvironmentTyped, BeginSending
  <2> QED BY <2>1, <2>2, <2>3, TypePartsNext
<1>10. CASE Send(w)
  <2>0. pc[w] = "send" /\ job[w] \in Messages
    BY <1>0, <1>10, BusyActor DEF Send
  <2>1. ActorsTyped'
    BY <1>0, <1>10, GotoWithGoalTyped DEF Send, PCs, Goals, Terminal
  <2>2. RecordsTyped' /\ EnvironmentTyped'
    BY <1>e, <1>10, <2>0 DEF RecordsTyped, EnvironmentTyped, Send
  <2> QED BY <2>1, <2>2, TypePartsNext
<1>11. CASE SettleLoad(w)
  <2>0. pc[w] = "settleLoad" /\ goal[w] # "none"
    BY <1>0, <1>11 DEF SettleLoad, TypeOK
  <2>1. ActorsTyped'
    BY <1>0, <1>11, <2>0, GotoWithRecordTyped, TransitionFailedTyped DEF SettleLoad, PCs
  <2>2. RecordsTyped' /\ EnvironmentTyped'
    BY <1>e, <1>11 DEF RecordsTyped, EnvironmentTyped, SettleLoad
  <2> QED BY <2>1, <2>2, TypePartsNext
<1>12. CASE SettleSave(w)
  <2>0. pc[w] = "settleSave" /\ goal[w] # "none" /\ goal[w] \in Goals
    BY <1>0, <1>12 DEF SettleSave, TypeOK
  <2>1. ActorsTyped'
    BY <1>0, <1>12, <2>0, GotoTyped, FinishTyped, TransitionFailedTyped DEF SettleSave, PCs
  <2>2. Outcome(w) \in States
    BY <2>0 DEF Outcome, Goals, States, Terminal
  <2>3. RecordsTyped'
    BY <1>0, <1>e, <1>12, <2>0, <2>2, WriteAndReleaseTyped DEF RecordsTyped, SettleSave
  <2>4. EnvironmentTyped'
    BY <1>e, <1>12 DEF EnvironmentTyped, SettleSave
  <2> QED BY <2>1, <2>3, <2>4, TypePartsNext
<1>13. CASE Alert(w)
  <2>0. pc[w] = "alert" /\ job[w] \in Messages
    BY <1>0, <1>13, BusyActor DEF Alert
  <2>1. ActorsTyped'
    BY <1>0, <1>13, FinishTyped DEF Alert
  <2>2. RecordsTyped' /\ EnvironmentTyped'
    BY <1>e, <1>13, <2>0 DEF RecordsTyped, EnvironmentTyped, Alert
  <2> QED BY <2>1, <2>2, TypePartsNext
<1> QED
  BY <1>1, <1>2, <1>3, <1>4, <1>5, <1>6, <1>7, <1>8, <1>9, <1>10, <1>11, <1>12, <1>13 DEF WorkerStep


\* A scanner's step keeps every variable typed.
LEMMA ScannerTyped ==
  ASSUME TypeOK, NEW s \in Scanners, ScannerStep(s)
  PROVE  TypeOK'
<1> USE DEF policyVars, historyVars
<1>0. s \in Actors /\ EnvironmentTyped /\ RecordsTyped /\ ActorsTyped
  BY TypeParts DEF Actors
<1>1. CASE \E m \in Messages : ScanLoad(s, m)
  <2> PICK m \in Messages : ScanLoad(s, m)
    BY <1>1
  <2>1. ActorsTyped'
    BY <1>0, MessagesAssumption DEF ActorsTyped, RecordsTyped, ScanLoad, PCs
  <2>2. RecordsTyped' /\ EnvironmentTyped'
    BY <1>0 DEF RecordsTyped, EnvironmentTyped, ScanLoad
  <2> QED BY <2>1, <2>2, TypePartsNext
<1>2. CASE ScanSave(s)
  <2>1. ActorsTyped'
    BY <1>0, <1>2, FinishTyped DEF ScanSave
  <2>2. RecordsTyped' /\ EnvironmentTyped'
    BY <1>0, <1>2, WriteAndReleaseTyped
    DEF RecordsTyped, EnvironmentTyped, ScanSave, States, Terminal
  <2> QED BY <2>1, <2>2, TypePartsNext
<1> QED BY <1>1, <1>2 DEF ScannerStep

\* An operator's step keeps every variable typed.
LEMMA OperatorTyped ==
  ASSUME TypeOK, NEW o \in Operators, OperatorStep(o)
  PROVE  TypeOK'
<1> USE DEF policyVars, historyVars
<1>0. o \in Actors /\ EnvironmentTyped /\ RecordsTyped /\ ActorsTyped
  BY TypeParts DEF Actors
<1>1. CASE \E m \in Messages, decision \in Decisions : StartResolve(o, m, decision)
  <2> PICK m \in Messages, decision \in Decisions : StartResolve(o, m, decision)
    BY <1>1
  <2>1. ActorsTyped'
    BY <1>0, MessagesAssumption DEF ActorsTyped, StartResolve, PCs, Goals, Terminal, Decisions
  <2>2. RecordsTyped' /\ EnvironmentTyped'
    BY <1>0 DEF RecordsTyped, EnvironmentTyped, StartResolve
  <2> QED BY <2>1, <2>2, TypePartsNext
<1>2. CASE ResolveLoad(o)
  <2>0. pc[o] = "resolveLoad" /\ goal[o] \in Decisions
    BY <1>0, <1>2 DEF ResolveLoad, TypeOK
  <2>1. ActorsTyped'
    BY <1>0, <1>2, <2>0, FinishTyped, GotoWithRecordTyped DEF ResolveLoad, PCs
  <2>2. RecordsTyped' /\ EnvironmentTyped'
    BY <1>0, <1>2 DEF RecordsTyped, EnvironmentTyped, ResolveLoad
  <2> QED BY <2>1, <2>2, TypePartsNext
<1>3. CASE ResolveSave(o)
  <2>0. pc[o] = "resolveSave" /\ goal[o] \in Decisions /\ job[o] \in Messages
    BY <1>0, <1>3, BusyActor DEF ResolveSave, TypeOK
  <2>1. ActorsTyped'
    BY <1>0, <1>3, <2>0, FinishTyped, GotoTyped DEF ResolveSave, PCs
  <2>2. RecordsTyped'
    BY <1>0, <1>3, <2>0, WriteAndReleaseTyped
    DEF RecordsTyped, ResolveSave, States, Terminal, Decisions
  <2>3. EnvironmentTyped'
    BY <1>0, <1>3, <2>0 DEF EnvironmentTyped, ResolveSave
  <2> QED BY <2>1, <2>2, <2>3, TypePartsNext
<1> QED BY <1>1, <1>2, <1>3 DEF OperatorStep

\* Crashes, time and the recipients keep every variable typed.
LEMMA EnvironmentStepTyped ==
  ASSUME TypeOK, EnvironmentStep
  PROVE  TypeOK'
<1> USE DEF policyVars, historyVars, actorVars
<1>0. EnvironmentTyped /\ RecordsTyped /\ ActorsTyped
  BY TypeParts
<1>1. CASE \E a \in Actors : Crash(a)
  <2>1. ActorsTyped'
    BY <1>1, FinishTyped DEF Crash
  <2>2. RecordsTyped' /\ EnvironmentTyped'
    BY <1>0, <1>1 DEF RecordsTyped, EnvironmentTyped, Crash
  <2> QED BY <2>1, <2>2, TypePartsNext
<1>2. CASE \E m \in Messages : ExpireLease(m)
  <2>1. RecordsTyped'
    BY <1>0, <1>2 DEF RecordsTyped, Records, ExpireLease
  <2>2. ActorsTyped' /\ EnvironmentTyped'
    BY <1>0, <1>2 DEF ActorsTyped, EnvironmentTyped, ExpireLease
  <2> QED BY <2>1, <2>2, TypePartsNext
<1>3. CASE \E m \in Messages : Withdraw(m)
  <2>1. EnvironmentTyped'
    BY <1>0, <1>3 DEF EnvironmentTyped, Withdraw
  <2>2. RecordsTyped' /\ ActorsTyped'
    BY <1>0, <1>3 DEF RecordsTyped, ActorsTyped, Withdraw
  <2> QED BY <2>1, <2>2, TypePartsNext
<1>4. CASE PauseOrResume
  <2>1. EnvironmentTyped' /\ RecordsTyped' /\ ActorsTyped'
    BY <1>0, <1>4 DEF EnvironmentTyped, RecordsTyped, ActorsTyped, PauseOrResume
  <2> QED BY <2>1, TypePartsNext
<1>5. CASE CancelCampaign
  <2>1. EnvironmentTyped'
    BY <1>0, <1>5, MessagesAssumption DEF EnvironmentTyped, CancelCampaign
  <2>2. RecordsTyped' /\ ActorsTyped'
    BY <1>0, <1>5 DEF RecordsTyped, ActorsTyped, CancelCampaign
  <2> QED BY <2>1, <2>2, TypePartsNext
<1> QED BY <1>1, <1>2, <1>3, <1>4, <1>5 DEF EnvironmentStep

\* Type correctness: every variable keeps its shape, for any number of
\* messages, workers, scanners and operators (EmailDelivery, TypeOK).
THEOREM TypeCorrect == Spec => []TypeOK
<1>1. Init => TypeOK
  <2> SUFFICES ASSUME Init PROVE TypeOK
    OBVIOUS
  <2>1. RecordsTyped
    BY UnclaimedTyped DEF Init, RecordsTyped
  <2>2. ActorsTyped
    BY UnclaimedTyped DEF Init, ActorsTyped, PCs, Goals, NoLease
  <2>3. EnvironmentTyped
    BY DEF Init, EnvironmentTyped
  <2> QED BY <2>1, <2>2, <2>3, TypeParts
<1>2. TypeOK /\ [Next]_vars => TypeOK'
  <2>1. ASSUME TypeOK, UNCHANGED vars PROVE TypeOK'
    BY <2>1 DEF TypeOK, vars, actorVars, policyVars, historyVars
  <2> QED BY <2>1, WorkerTyped, ScannerTyped, OperatorTyped, EnvironmentStepTyped DEF Next
<1> QED BY <1>1, <1>2, PTL DEF Spec

------------------------------------------------------------------------------

(* A step of one actor: what it leaves alone, and what is left to show.        *)

OthersSame(a) ==
  \A b \in Actors \ {a} :
    /\ pc'[b] = pc[b] /\ job'[b] = job[b] /\ snap'[b] = snap[b]
    /\ token'[b] = token[b] /\ goal'[b] = goal[b]

\* An actor that finishes leaves the others alone and relies on nothing.
LEMMA FinishStep ==
  ASSUME TypeOK, NEW a \in Actors, Finish(a)
  PROVE  /\ OthersSame(a)
         /\ pc'[a] = "idle" /\ token'[a] = NoLease
         /\ ActorInv(a)'
<1>1. OthersSame(a) /\ pc'[a] = "idle" /\ token'[a] = NoLease
  BY DEF TypeOK, Finish, OthersSame
<1>2. SnapshotInv(a)' /\ DecisionInv(a)' /\ TokenInv(a)' /\ AttemptInv(a)'
  BY <1>1 DEF SnapshotInv, DecisionInv, TokenInv, AttemptInv, Saving, Settling,
              Checking, Attempting
<1> QED BY <1>1, <1>2 DEF ActorInv

\* What Goto changes.
LEMMA GotoStep ==
  ASSUME TypeOK, NEW a \in Actors, NEW next, Goto(a, next)
  PROVE  /\ OthersSame(a)
         /\ pc'[a] = next /\ job'[a] = job[a] /\ snap'[a] = snap[a]
         /\ token'[a] = token[a] /\ goal'[a] = goal[a]
BY DEF TypeOK, Goto, OthersSame

\* What GotoWithGoal changes.
LEMMA GotoWithGoalStep ==
  ASSUME TypeOK, NEW a \in Actors, NEW next, NEW state, GotoWithGoal(a, next, state)
  PROVE  /\ OthersSame(a)
         /\ pc'[a] = next /\ job'[a] = job[a] /\ snap'[a] = snap[a]
         /\ token'[a] = token[a] /\ goal'[a] = state
BY DEF TypeOK, GotoWithGoal, OthersSame

\* What GotoWithRecord changes.
LEMMA GotoWithRecordStep ==
  ASSUME TypeOK, NEW a \in Actors, NEW next, GotoWithRecord(a, next)
  PROVE  /\ OthersSame(a)
         /\ pc'[a] = next /\ job'[a] = job[a] /\ snap'[a] = rec[job[a]]
         /\ token'[a] = token[a] /\ goal'[a] = goal[a]
BY DEF TypeOK, GotoWithRecord, OthersSame

\* Without a save or a submission, other actors keep what they rely on.
LEMMA OthersKeepInv ==
  ASSUME Inv, NEW a \in Actors, OthersSame(a), NEW b \in Actors \ {a},
         UNCHANGED <<rec, sends, accepted, decided>>
  PROVE  ActorInv(b)'
BY DEF Inv, OthersSame, ActorInv, SnapshotInv, DecisionInv, TokenInv, AttemptInv,
       Checking, Attempting, Unchanged, begun

\* Nobody draws or begins anything: tokens differ, one at most submits.
LEMMA PairsKept ==
  ASSUME Inv, NEW a \in Actors, OthersSame(a), pc'[a] # "send",
         \/ token'[a] = NoLease
         \/ token'[a] = token[a] /\ job'[a] = job[a]
  PROVE  \A b, c \in Actors : TokensDiffer(b, c)' /\ SubmitsAlone(b, c)'
BY DEF Inv, OthersSame, TokensDiffer, SubmitsAlone

\* A step that writes neither the store nor the history.
LEMMA ControlStep ==
  ASSUME TypeOK, Inv, NEW a \in Actors, OthersSame(a), pc'[a] # "send",
         UNCHANGED <<rec, sends, accepted, alerted, decided>>,
         \/ token'[a] = NoLease
         \/ token'[a] = token[a] /\ job'[a] = job[a],
         ActorInv(a)'
  PROVE  Inv'
<1>1. \A b \in Actors : ActorInv(b)'
  BY OthersKeepInv
<1>2. \A m \in Messages : RecordInv(m)'
  BY DEF Inv, RecordInv, begun
<1> QED BY <1>1, <1>2, PairsKept DEF Inv

(* A step that replaces the record of the actor's message.                     *)

\* What the save must satisfy for the other actors to rely on the record still.
Respectful(a, lease) ==
  /\ \/ lease = NoLease
     \/ lease = snap[a].version + 1
     \/ lease = token[a] /\ token[a] # NoLease
  /\ job[a] \in begun => job[a] \in begun'
  /\ rec[job[a]].state = "uncertain" => job[a] \in decided'

\* An accepted save replaces the loaded version by the next one.
LEMMA WriteEffect ==
  ASSUME TypeOK, NEW a \in Actors, pc[a] # "idle",
         NEW state, NEW lease, NEW live, Write(a, state, lease, live)
  PROVE  /\ job[a] \in Messages
         /\ rec[job[a]].version \in Nat
         /\ snap[a].version = rec[job[a]].version
         /\ rec'[job[a]].version = rec[job[a]].version + 1
         /\ rec'[job[a]].state = state
         /\ rec'[job[a]].lease = lease
         /\ \A m \in Messages \ {job[a]} : rec'[m] = rec[m]
<1>1. job[a] \in Messages /\ rec[job[a]] \in Records
  BY BusyActor
<1> QED BY <1>1 DEF Write, Unchanged, TypeOK, Records

\* An accepted save leaves what the other actors rely on true: their loads
\* are stale by now, and a new token is none of theirs.
LEMMA OthersSurviveWrite ==
  ASSUME TypeOK, Inv, NEW a \in Actors, pc[a] # "idle", OthersSame(a),
         NEW state, NEW lease, NEW live, Write(a, state, lease, live),
         Respectful(a, lease), decided \subseteq decided',
         UNCHANGED <<sends, accepted>>, NEW b \in Actors \ {a}
  PROVE  ActorInv(b)'
<1> DEFINE m == job[a]
<1>0. /\ m \in Messages
      /\ rec[m].version \in Nat
      /\ snap[a].version = rec[m].version
      /\ rec'[m].version = rec[m].version + 1
      /\ rec'[m].lease = lease
      /\ \A n \in Messages \ {m} : rec'[n] = rec[n]
  BY WriteEffect
<1>1. /\ pc'[b] = pc[b] /\ job'[b] = job[b] /\ snap'[b] = snap[b]
      /\ token'[b] = token[b] /\ goal'[b] = goal[b]
  BY DEF OthersSame
<1>2. ActorInv(b) /\ token[b] \in Nat /\ snap[b].version \in Nat
  BY DEF Inv, TypeOK, Records
<1>3. \A n \in Messages : n \in begun => n \in begun'
  BY <1>0 DEF begun, Respectful
<1>4. CASE job[b] # m
  <2>1. pc[b] # "idle" => rec'[job[b]] = rec[job[b]]
    BY <1>0, <1>4, BusyActor
  <2>2. SnapshotInv(b)' /\ DecisionInv(b)' /\ TokenInv(b)'
    BY <1>1, <1>2, <2>1
    DEF ActorInv, SnapshotInv, DecisionInv, TokenInv, Saving, Settling, Checking, Attempting, Unchanged
  <2>3. AttemptInv(b)'
    BY <1>1, <1>2, <1>3, <2>1, BusyActor
    DEF ActorInv, AttemptInv, Settling, Attempting
  <2> QED BY <2>2, <2>3 DEF ActorInv
<1>5. CASE job[b] = m
  <2>1. SnapshotInv(b)'
    BY <1>0, <1>1, <1>2, <1>5 DEF ActorInv, SnapshotInv, Unchanged
  <2>2. DecisionInv(b)'
    BY <1>1, <1>2 DEF ActorInv, DecisionInv
  <2>3. pc[b] # "idle" => token[b] <= rec[m].version
    BY <1>2, <1>5 DEF ActorInv, TokenInv
  <2>4. pc[b] # "idle" /\ token[b] # NoLease => lease # token[b]
    <3>1. token[a] # NoLease => token[a] # token[b]
      BY <1>5 DEF Inv, TokensDiffer
    <3> QED BY <1>0, <1>2, <2>3, <3>1 DEF Respectful, NoLease
  <2>5. TokenInv(b)'
    BY <1>0, <1>1, <1>2, <1>5, <2>3, <2>4
    DEF ActorInv, TokenInv, Checking, Attempting, Settling
  <2>6. AttemptInv(b)'
    <3>1. pc[b] = "alert" => m \in decided'
      BY <1>2, <1>5 DEF ActorInv, AttemptInv, Respectful
    <3> QED BY <1>1, <1>2, <1>3, <1>5, <1>0, <3>1 DEF ActorInv, AttemptInv, Attempting, Settling
  <2> QED BY <2>1, <2>2, <2>5, <2>6 DEF ActorInv
<1> QED BY <1>4, <1>5

\* An accepted save that leaves its own actor and record right keeps the
\* whole invariant.
LEMMA WriteStep ==
  ASSUME TypeOK, Inv, NEW a \in Actors, pc[a] # "idle", OthersSame(a),
         NEW state, NEW lease, NEW live, Write(a, state, lease, live),
         Respectful(a, lease),
         UNCHANGED <<sends, accepted, alerted>>,
         decided' = decided \/ decided' = decided \cup {job[a]},
         \/ token'[a] = NoLease
         \/ token'[a] = token[a] /\ job'[a] = job[a]
         \/ token'[a] = snap[a].version + 1 /\ job'[a] = job[a],
         pc'[a] = "send" => job'[a] = job[a] /\ job[a] \notin begun,
         ActorInv(a)', NEW m \in Messages, m = job[a], RecordInv(m)'
  PROVE  Inv'
<1>0. /\ rec[m].version \in Nat
      /\ snap[a].version = rec[m].version
      /\ \A n \in Messages \ {m} : rec'[n] = rec[n]
  BY WriteEffect
<1>1. \A b \in Actors : ActorInv(b)'
  BY OthersSurviveWrite
<1>2. ASSUME NEW n \in Messages \ {m}
      PROVE  RecordInv(n)'
  <2>1. rec'[n] = rec[n] /\ (n \in decided' <=> n \in decided)
    BY <1>0
  <2>2. n \in begun' <=> n \in begun
    BY <2>1 DEF begun
  <2> QED BY <2>1, <2>2 DEF Inv, RecordInv
<1>3. ASSUME NEW b \in Actors \ {a}, job[b] = m
      PROVE  token[b] # snap[a].version + 1 /\ (pc'[a] = "send" => pc[b] # "send")
  <2>1. pc[b] # "idle" => token[b] <= rec[m].version
    BY <1>3 DEF Inv, ActorInv, TokenInv
  <2>2. pc[b] = "idle" => token[b] = NoLease
    BY DEF Inv, ActorInv, TokenInv
  <2>3. token[b] \in Nat
    BY DEF TypeOK
  <2>4. pc[b] = "send" => m \in begun
    BY <1>3 DEF Inv, ActorInv, AttemptInv
  <2> QED BY <1>0, <2>1, <2>2, <2>3, <2>4 DEF NoLease
<1>4. \A b, c \in Actors : TokensDiffer(b, c)' /\ SubmitsAlone(b, c)'
  <2>1. ASSUME NEW b \in Actors \ {a}, NEW c \in Actors \ {a}
        PROVE  TokensDiffer(b, c)' /\ SubmitsAlone(b, c)'
    BY DEF Inv, OthersSame, TokensDiffer, SubmitsAlone
  <2>2. ASSUME NEW b \in Actors \ {a}
        PROVE  /\ TokensDiffer(a, b)' /\ SubmitsAlone(a, b)'
               /\ TokensDiffer(b, a)' /\ SubmitsAlone(b, a)'
    <3>0. pc'[b] = pc[b] /\ job'[b] = job[b] /\ token'[b] = token[b]
      BY <2>2 DEF OthersSame
    <3>1. TokensDiffer(a, b) /\ TokensDiffer(b, a)
      BY <2>2 DEF Inv
    <3>2. job[b] = m => token[b] # snap[a].version + 1
      BY <1>3
    <3>3. job[b] = m /\ pc'[a] = "send" => pc[b] # "send"
      BY <1>3
    <3>4. TokensDiffer(a, b)' /\ TokensDiffer(b, a)'
      BY <3>0, <3>1, <3>2 DEF TokensDiffer
    <3>5. SubmitsAlone(a, b)' /\ SubmitsAlone(b, a)'
      BY <3>0, <3>3 DEF SubmitsAlone
    <3> QED BY <3>4, <3>5
  <2>3. TokensDiffer(a, a)' /\ SubmitsAlone(a, a)'
    BY DEF TokensDiffer, SubmitsAlone
  <2> QED BY <2>1, <2>2, <2>3
<1>5. \A n \in Messages : RecordInv(n)'
  BY <1>2
<1> QED BY <1>1, <1>4, <1>5 DEF Inv

(* The actions of a worker.                                                     *)

\* A job delivered to a worker keeps the invariant.
LEMMA StartJobInv ==
  ASSUME TypeOK, Inv, NEW w \in Workers, NEW m \in Messages, StartJob(w, m)
  PROVE  Inv'
<1>1. w \in Actors /\ pc[w] = "idle" /\ token[w] = NoLease
  BY DEF Actors, StartJob, Inv, ActorInv, TokenInv
<1>2. /\ OthersSame(w)
      /\ pc'[w] = "load" /\ job'[w] = m /\ token'[w] = NoLease
      /\ UNCHANGED <<rec, sends, accepted, alerted, decided>>
  BY <1>1 DEF StartJob, OthersSame, TypeOK, historyVars
<1>3. ActorInv(w)'
  <2>1. SnapshotInv(w)' /\ DecisionInv(w)' /\ AttemptInv(w)'
    BY <1>2 DEF SnapshotInv, DecisionInv, AttemptInv, Saving, Settling, Attempting
  <2>2. rec[m].version \in Nat
    BY DEF TypeOK, Records
  <2>3. TokenInv(w)'
    BY <1>2, <2>2 DEF TokenInv, Checking, Attempting, Settling, NoLease
  <2> QED BY <2>1, <2>3 DEF ActorInv
<1> QED BY <1>1, <1>2, <1>3, ControlStep

\* A load: what it returns is what the actor decides on.
LEMMA LoadStep ==
  ASSUME TypeOK, Inv, NEW a \in Actors, pc[a] # "idle",
         NEW next \in {"claim", "begin", "revertSave", "settleSave", "resolveSave"},
         GotoWithRecord(a, next),
         UNCHANGED <<rec, sends, accepted, alerted, decided>>,
         next = "claim" => rec[job[a]].state \notin Terminal,
         next \in {"begin", "revertSave"} =>
           Checking(a) /\ rec[job[a]].state = "claimed",
         next \in {"begin", "settleSave"} => rec[job[a]].lease = token[a],
         next = "settleSave" => pc[a] = "settleLoad",
         next = "resolveSave" => rec[job[a]].state = "uncertain"
  PROVE  Inv'
<1>1. /\ OthersSame(a)
      /\ pc'[a] = next /\ job'[a] = job[a] /\ snap'[a] = rec[job[a]]
      /\ token'[a] = token[a] /\ goal'[a] = goal[a]
  BY GotoWithRecordStep
<1>2. ActorInv(a) /\ rec[job[a]].version \in Nat
  BY BusyActor DEF Inv, Records
<1>3. SnapshotInv(a)'
  BY <1>1, <1>2 DEF SnapshotInv, Unchanged
<1>4. DecisionInv(a)'
  BY <1>1 DEF DecisionInv
<1>5. TokenInv(a)'
  BY <1>1, <1>2 DEF ActorInv, TokenInv, Checking, Attempting, Settling
<1>6. AttemptInv(a)'
  BY <1>1, <1>2 DEF ActorInv, AttemptInv, Attempting, Settling, begun
<1>7. ActorInv(a)'
  BY <1>3, <1>4, <1>5, <1>6 DEF ActorInv
<1> QED BY <1>1, <1>7, ControlStep

\* An actor that lets go without writing.
LEMMA LetGo ==
  ASSUME TypeOK, Inv, NEW a \in Actors, Finish(a),
         UNCHANGED <<rec, sends, accepted, alerted, decided>>
  PROVE  Inv'
BY FinishStep, ControlStep

\* A worker moves on within the phase it is in.
LEMMA PhaseStep ==
  ASSUME TypeOK, Inv, NEW a \in Actors, pc[a] # "idle", OthersSame(a),
         pc'[a] \in {"load", "consent", "gate", "recheck", "revertLoad", "settleLoad", "resolveLoad"},
         job'[a] = job[a], token'[a] = token[a],
         UNCHANGED <<rec, sends, accepted, alerted, decided>>,
         Checking(a)' => Checking(a),
         Attempting(a)' => Attempting(a) /\ pc[a] # "send" /\ (goal'[a] = goal[a] \/ goal'[a] \notin {"sent", "rejected"})
  PROVE  Inv'
<1>1. ActorInv(a)
  BY DEF Inv
<1>2. SnapshotInv(a)' /\ DecisionInv(a)'
  BY DEF SnapshotInv, DecisionInv, Saving
<1>3. TokenInv(a)'
  BY <1>1 DEF ActorInv, TokenInv
<1>4. AttemptInv(a)'
  BY <1>1 DEF ActorInv, AttemptInv
<1> QED BY <1>2, <1>3, <1>4, ControlStep DEF ActorInv

\* The load before a claim keeps the invariant.
LEMMA LoadForClaimInv ==
  ASSUME TypeOK, Inv, NEW w \in Workers, LoadForClaim(w)
  PROVE  Inv'
BY LoadStep, LetGo DEF LoadForClaim, Actors, historyVars

\* The consent check keeps the invariant.
LEMMA CheckConsentInv ==
  ASSUME TypeOK, Inv, NEW w \in Workers, CheckConsent(w)
  PROVE  Inv'
<1>1. w \in Actors /\ pc[w] = "consent" /\ UNCHANGED <<rec, sends, accepted, alerted, decided>>
  BY DEF CheckConsent, Actors, historyVars
<1>2. CASE \E next \in {"recheck", "gate", "revertLoad"} : Goto(w, next)
  BY <1>1, <1>2, GotoStep, PhaseStep DEF Checking, Attempting, Settling
<1>3. CASE GotoWithGoal(w, "settleLoad", "suppressed")
  BY <1>1, <1>3, GotoWithGoalStep, PhaseStep DEF Checking, Attempting, Settling
<1> QED BY <1>2, <1>3 DEF CheckConsent

\* The campaign gate keeps the invariant.
LEMMA CheckGateInv ==
  ASSUME TypeOK, Inv, NEW w \in Workers, CheckGate(w)
  PROVE  Inv'
<1>1. w \in Actors /\ pc[w] = "gate" /\ UNCHANGED <<rec, sends, accepted, alerted, decided>>
  BY DEF CheckGate, Actors, historyVars
<1>2. CASE \E next \in {"recheck", "revertLoad"} : Goto(w, next)
  BY <1>1, <1>2, GotoStep, PhaseStep DEF Checking, Attempting, Settling
<1>3. CASE GotoWithGoal(w, "settleLoad", "suppressed")
  BY <1>1, <1>3, GotoWithGoalStep, PhaseStep DEF Checking, Attempting, Settling
<1> QED BY <1>2, <1>3 DEF CheckGate

\* The load before a revert keeps the invariant.
LEMMA RevertLoadInv ==
  ASSUME TypeOK, Inv, NEW w \in Workers, RevertLoad(w)
  PROVE  Inv'
BY LoadStep, LetGo DEF RevertLoad, Actors, historyVars, Checking

\* The load before an attempt keeps the invariant.
LEMMA RecheckInv ==
  ASSUME TypeOK, Inv, NEW w \in Workers, Recheck(w)
  PROVE  Inv'
BY LoadStep, LetGo DEF Recheck, Actors, historyVars, Checking, OwnLease

\* The handler of a refused transition keeps the invariant.
LEMMA TransitionFailedInv ==
  ASSUME TypeOK, Inv, NEW w \in Actors, pc[w] \in Settling, TransitionFailed(w),
         UNCHANGED <<rec, sends, accepted, alerted, decided>>
  PROVE  Inv'
<1>1. CASE goal[w] = "suppressed" /\ Goto(w, "revertLoad")
  BY <1>1, GotoStep, PhaseStep DEF Checking, Attempting, Settling
<1>2. CASE goal[w] = "fallback" /\ Finish(w)
  BY <1>2, LetGo
<1>3. CASE goal[w] \in {"sent", "rejected", "uncertain"} /\ GotoWithGoal(w, "settleLoad", "fallback")
  BY <1>3, GotoWithGoalStep, PhaseStep DEF Checking, Attempting, Settling
<1> QED BY <1>1, <1>2, <1>3 DEF TransitionFailed

\* The load before an outcome is recorded keeps the invariant.
LEMMA SettleLoadInv ==
  ASSUME TypeOK, Inv, NEW w \in Workers, SettleLoad(w)
  PROVE  Inv'
<1>1. w \in Actors /\ pc[w] = "settleLoad" /\ UNCHANGED <<rec, sends, accepted, alerted, decided>>
  BY DEF SettleLoad, Actors, historyVars
<1>2. CASE OwnLease(w, rec[job[w]]) /\ GotoWithRecord(w, "settleSave")
  BY <1>1, <1>2, LoadStep DEF OwnLease
<1>3. CASE TransitionFailed(w)
  BY <1>1, <1>3, TransitionFailedInv DEF Settling
<1> QED BY <1>2, <1>3 DEF SettleLoad

\* Calling onUncertain keeps the invariant.
LEMMA AlertInv ==
  ASSUME TypeOK, Inv, NEW w \in Workers, Alert(w)
  PROVE  Inv'
<1>1. /\ w \in Actors /\ pc[w] = "alert" /\ Finish(w)
      /\ UNCHANGED <<rec, sends, accepted, decided>> /\ alerted' = alerted \cup {job[w]}
  BY DEF Alert, Actors
<1>2. OthersSame(w) /\ pc'[w] = "idle" /\ token'[w] = NoLease /\ ActorInv(w)'
  BY <1>1, FinishStep
<1>3. \A b \in Actors : ActorInv(b)'
  BY <1>1, <1>2, OthersKeepInv
<1>4. rec[job[w]].state = "uncertain" \/ job[w] \in decided
  BY <1>1 DEF Inv, ActorInv, AttemptInv
<1>5. \A m \in Messages : RecordInv(m)'
  BY <1>1, <1>4 DEF Inv, RecordInv, begun
<1> QED BY <1>1, <1>2, <1>3, <1>5, PairsKept DEF Inv

\* A conditional update that is accepted replaces the record that was loaded.
LEMMA SnapshotAccurate ==
  ASSUME Inv, NEW a \in Actors, pc[a] \in Saving,
         NEW state, NEW lease, NEW live, Write(a, state, lease, live)
  PROVE  snap[a].state = rec[job[a]].state /\ snap[a].lease = rec[job[a]].lease
BY DEF Inv, ActorInv, SnapshotInv, Write

\* A save after which the actor lets go, in any phase.
LEMMA WriteThenFinish ==
  ASSUME TypeOK, Inv, NEW a \in Actors, pc[a] # "idle", Finish(a),
         NEW state, NEW lease, NEW live, Write(a, state, lease, live),
         Respectful(a, lease), UNCHANGED <<sends, accepted, alerted>>,
         decided' = decided \/ decided' = decided \cup {job[a]},
         NEW m \in Messages, m = job[a], RecordInv(m)'
  PROVE  Inv'
BY FinishStep, WriteStep

\* A claim draws a token nobody has, or closes a dead attempt.
LEMMA ClaimInv ==
  ASSUME TypeOK, Inv, NEW w \in Workers, Claim(w)
  PROVE  Inv'
<1> PICK m \in Messages : m = job[w]
  BY BusyActor DEF Claim, Actors
<1>1. /\ w \in Actors /\ pc[w] = "claim" /\ pc[w] \in Saving
      /\ UNCHANGED <<sends, accepted, alerted, decided>>
  BY DEF Claim, Actors, historyVars, Saving
<1>2. snap[w].state \notin Terminal /\ snap[w].version \in Nat /\ snap[w].state \in States
  BY <1>1 DEF Inv, ActorInv, DecisionInv, TypeOK, Records
<1>3. ASSUME ClaimWrite(w)
      PROVE  \E state, lease, live :
               /\ Write(w, state, lease, live)
               /\ Respectful(w, lease) /\ RecordInv(m)'
               /\ ClaimedState(w) = "uncertain" =>
                    state = "uncertain" /\ lease = NoLease
               /\ ClaimedState(w) = "claimed" =>
                    state = "claimed" /\ lease = snap[w].version + 1
  <2>1. CASE snap[w].state = "sending"
    <3>1. Write(w, "uncertain", NoLease, FALSE) /\ ClaimedState(w) = "uncertain"
      BY <1>3, <2>1 DEF ClaimWrite, ClaimedState, WriteAndRelease
    <3>2. rec[m].state = "sending"
      BY <1>1, <2>1, <3>1, SnapshotAccurate
    <3>3. rec'[m].state = "uncertain" /\ rec'[m].lease = NoLease
      BY <1>1, <3>1, WriteEffect
    <3>4. Respectful(w, NoLease) /\ RecordInv(m)'
      BY <1>1, <3>2, <3>3 DEF Respectful, RecordInv, begun, Inv
    <3> QED BY <3>1, <3>4
  <2>2. CASE snap[w].state # "sending"
    <3>1. Write(w, "claimed", snap[w].version + 1, TRUE) /\ ClaimedState(w) = "claimed"
      BY <1>3, <2>2 DEF ClaimWrite, ClaimedState
    <3>2. rec[m].state \in {"pending", "claimed"}
      <4>1. snap[w].state = rec[m].state
        BY <1>1, <3>1 DEF Inv, ActorInv, SnapshotInv, Write
      <4> QED BY <1>2, <2>2, <4>1 DEF States
    <3>3. rec'[m].state = "claimed" /\ rec'[m].lease = snap[w].version + 1
      BY <1>1, <3>1 DEF Write, TypeOK
    <3>4. snap[w].version + 1 # NoLease
      BY <1>2 DEF NoLease
    <3>5. Respectful(w, snap[w].version + 1) /\ RecordInv(m)'
      BY <1>1, <3>2, <3>3, <3>4 DEF Respectful, RecordInv, begun, Inv
    <3> QED BY <3>1, <3>5
  <2> QED BY <2>1, <2>2
<1>4. CASE ClaimWrite(w) /\ ClaimedState(w) = "uncertain" /\ Goto(w, "alert")
  <2> PICK live : /\ Write(w, "uncertain", NoLease, live)
                  /\ Respectful(w, NoLease) /\ RecordInv(m)'
    BY <1>3, <1>4
  <2>1. /\ OthersSame(w) /\ pc'[w] = "alert" /\ job'[w] = m
        /\ token'[w] = token[w] /\ goal'[w] = goal[w]
    BY <1>1, <1>4, GotoStep
  <2>2. /\ rec[m].version \in Nat /\ rec'[m].version = rec[m].version + 1
        /\ rec'[m].state = "uncertain"
    BY <1>1, WriteEffect
  <2>3. token[w] \in Nat /\ token[w] <= rec[m].version
    BY <1>1 DEF Inv, ActorInv, TokenInv, TypeOK
  <2>4. ActorInv(w)'
    BY <1>1, <2>1, <2>2, <2>3
    DEF ActorInv, SnapshotInv, DecisionInv, TokenInv, AttemptInv, Saving, Settling,
        Checking, Attempting
  <2> QED BY <1>1, <2>1, <2>4, WriteStep
<1>5. CASE /\ ClaimWrite(w) /\ ClaimedState(w) = "claimed"
           /\ pc' = [pc EXCEPT ![w] = "consent"]
           /\ token' = [token EXCEPT ![w] = snap[w].version + 1]
           /\ UNCHANGED <<job, snap, goal>>
  <2> DEFINE lease == snap[w].version + 1
  <2> PICK live : /\ Write(w, "claimed", lease, live)
                  /\ Respectful(w, lease) /\ RecordInv(m)'
    BY <1>3, <1>5
  <2>1. /\ OthersSame(w) /\ pc'[w] = "consent" /\ job'[w] = m /\ token'[w] = lease
    BY <1>1, <1>5 DEF OthersSame, TypeOK
  <2>2. /\ rec[m].version \in Nat /\ rec'[m].version = lease
        /\ rec'[m].state = "claimed"
    BY <1>1, WriteEffect
  <2>3. ActorInv(w)'
    BY <1>1, <1>2, <2>1, <2>2
    DEF ActorInv, SnapshotInv, DecisionInv, TokenInv, AttemptInv, Saving, Settling,
        Checking, Attempting, NoLease
  <2> QED BY <1>1, <2>1, <2>3, WriteStep
<1>6. CASE ClaimWrite(w) /\ Finish(w)
  BY <1>1, <1>3, <1>6, WriteThenFinish
<1>7. CASE Goto(w, "load") /\ UNCHANGED rec
  BY <1>1, <1>7, GotoStep, PhaseStep DEF Checking, Attempting, Settling
<1> QED BY <1>4, <1>5, <1>6, <1>7 DEF Claim

\* A claim given back leaves its record pending and unleased.
LEMMA RevertSaveInv ==
  ASSUME TypeOK, Inv, NEW w \in Workers, RevertSave(w)
  PROVE  Inv'
<1> PICK m \in Messages : m = job[w]
  BY BusyActor DEF RevertSave, Actors
<1>1. /\ w \in Actors /\ pc[w] = "revertSave" /\ pc[w] \in Saving
      /\ Finish(w) /\ UNCHANGED <<sends, accepted, alerted, decided>>
  BY DEF RevertSave, Actors, historyVars, Saving
<1>2. CASE Write(w, "pending", NoLease, FALSE)
  <2>1. rec[m].state = "claimed"
    BY <1>1, <1>2, SnapshotAccurate DEF Inv, ActorInv, DecisionInv
  <2>2. rec'[m].state = "pending" /\ rec'[m].lease = NoLease
    BY <1>1, <1>2, WriteEffect
  <2>3. Respectful(w, NoLease) /\ RecordInv(m)'
    BY <1>1, <2>1, <2>2 DEF Respectful, RecordInv, begun, Inv
  <2> QED BY <1>1, <1>2, <2>3, WriteThenFinish
<1>3. CASE UNCHANGED rec
  BY <1>1, <1>3, LetGo
<1> QED BY <1>2, <1>3 DEF RevertSave, WriteAndRelease

\* An attempt begins under a claim: nobody else is about to submit.
LEMMA BeginSendingInv ==
  ASSUME TypeOK, Inv, NEW w \in Workers, BeginSending(w)
  PROVE  Inv'
<1> PICK m \in Messages : m = job[w]
  BY BusyActor DEF BeginSending, Actors
<1> DEFINE lease == snap[w].lease
<1>1. /\ w \in Actors /\ pc[w] = "begin" /\ pc[w] \in Saving
      /\ UNCHANGED <<sends, accepted, alerted, decided>>
  BY DEF BeginSending, Actors, historyVars, Saving
<1>2. lease = token[w] /\ token[w] # NoLease /\ snap[w].state = "claimed"
  BY <1>1 DEF Inv, ActorInv, DecisionInv, TokenInv, Checking
<1>3. ASSUME Write(w, "sending", lease, rec[m].live)
      PROVE  /\ Respectful(w, lease) /\ RecordInv(m)'
             /\ m \notin begun /\ m \in begun' /\ sends[m] = 0
  <2>1. rec[m].state = "claimed"
    BY <1>1, <1>2, <1>3, SnapshotAccurate
  <2>2. rec'[m].state = "sending" /\ rec'[m].lease = lease
    BY <1>1, <1>3, WriteEffect
  <2>3. m \notin begun /\ m \in begun' /\ sends[m] = 0
    BY <1>1, <2>1, <2>2 DEF Inv, RecordInv, begun
  <2> QED BY <1>1, <1>2, <2>1, <2>2, <2>3 DEF Respectful, RecordInv, Inv
<1>4. CASE Write(w, "sending", lease, rec[m].live) /\ Goto(w, "send")
  <2>1. /\ OthersSame(w) /\ pc'[w] = "send" /\ job'[w] = m /\ token'[w] = token[w]
    BY <1>1, <1>4, GotoStep
  <2>2. /\ rec[m].version \in Nat /\ rec'[m].version = rec[m].version + 1
        /\ rec'[m].state = "sending"
    BY <1>1, <1>4, WriteEffect
  <2>3. token[w] \in Nat /\ token[w] <= rec[m].version
    BY <1>1 DEF Inv, ActorInv, TokenInv, TypeOK
  <2>4. ActorInv(w)'
    BY <1>1, <1>2, <1>3, <1>4, <2>1, <2>2, <2>3
    DEF ActorInv, SnapshotInv, DecisionInv, TokenInv, AttemptInv, Saving, Settling,
        Checking, Attempting
  <2> QED BY <1>1, <1>3, <1>4, <2>1, <2>4, WriteStep
<1>5. CASE Write(w, "sending", lease, rec[m].live) /\ Finish(w)
  BY <1>1, <1>3, <1>5, WriteThenFinish
<1>6. CASE Finish(w) /\ UNCHANGED rec
  BY <1>1, <1>6, LetGo
<1> QED BY <1>4, <1>5, <1>6 DEF BeginSending

\* What is recorded of an attempt is what the worker saw of it.
LEMMA SettleSaveInv ==
  ASSUME TypeOK, Inv, NEW w \in Workers, SettleSave(w)
  PROVE  Inv'
<1> PICK m \in Messages : m = job[w]
  BY BusyActor DEF SettleSave, Actors
<1>1. /\ w \in Actors /\ pc[w] = "settleSave" /\ pc[w] \in Saving /\ pc[w] \in Settling
      /\ UNCHANGED <<sends, accepted, alerted, decided>>
  BY DEF SettleSave, Actors, historyVars, Saving, Settling
<1>2. /\ goal[w] \in Terminal \cup {"fallback"}
      /\ snap[w].lease = token[w] /\ token[w] # NoLease
  BY <1>1 DEF Inv, ActorInv, DecisionInv, TokenInv, Checking, Attempting, TypeOK, Goals
<1>3. ASSUME Write(w, Outcome(w), NoLease, FALSE)
      PROVE  /\ rec'[m].state = Outcome(w) /\ rec'[m].lease = NoLease
             /\ rec[m].version \in Nat /\ rec'[m].version = rec[m].version + 1
             /\ Respectful(w, NoLease) /\ RecordInv(m)'
  <2>1. /\ rec'[m].state = Outcome(w) /\ rec'[m].lease = NoLease
        /\ rec[m].version \in Nat /\ rec'[m].version = rec[m].version + 1
    BY <1>1, <1>3, WriteEffect
  <2>2. rec[m].lease = token[w]
    BY <1>1, <1>2, <1>3, SnapshotAccurate
  <2>3. CASE goal[w] = "suppressed"
    <3>1. rec[m].state = "claimed" /\ Outcome(w) = "suppressed"
      BY <1>1, <2>2, <2>3 DEF Inv, ActorInv, TokenInv, Checking, Outcome
    <3> QED BY <1>1, <2>1, <3>1 DEF Respectful, RecordInv, begun, Inv
  <2>4. CASE goal[w] # "suppressed"
    <3>1. rec[m].state = "sending" /\ Outcome(w) \in {"sent", "rejected", "uncertain"}
      BY <1>1, <1>2, <2>2, <2>4 DEF Inv, ActorInv, TokenInv, Attempting, Outcome, Terminal
    <3>2. /\ sends[m] = 1
          /\ Outcome(w) = "sent" => m \in accepted
          /\ Outcome(w) = "rejected" => m \notin accepted
      BY <1>1, <2>4 DEF Inv, ActorInv, AttemptInv, Attempting, Outcome
    <3> QED BY <1>1, <2>1, <3>1, <3>2 DEF Respectful, RecordInv, begun, Inv
  <2> QED BY <2>1, <2>3, <2>4
<1>4. token[w] \in Nat /\ token[w] <= rec[m].version
  BY <1>1 DEF Inv, ActorInv, TokenInv, TypeOK
<1>5. CASE /\ Write(w, Outcome(w), NoLease, FALSE)
           /\ \/ IF Outcome(w) = "uncertain" THEN Goto(w, "alert") ELSE Finish(w)
              \/ TransitionFailed(w)
  <2>1. CASE Finish(w)
    BY <1>1, <1>3, <1>5, <2>1, WriteThenFinish
  <2>2. CASE Outcome(w) = "uncertain" /\ Goto(w, "alert")
    <3>1. /\ OthersSame(w) /\ pc'[w] = "alert" /\ job'[w] = m /\ token'[w] = token[w]
      BY <1>1, <2>2, GotoStep
    <3>2. ActorInv(w)'
      BY <1>3, <1>4, <1>5, <2>2, <3>1
      DEF ActorInv, SnapshotInv, DecisionInv, TokenInv, AttemptInv, Saving, Settling,
          Checking, Attempting
    <3> QED BY <1>1, <1>3, <1>5, <3>1, <3>2, WriteStep
  <2>3. CASE goal[w] = "suppressed" /\ Goto(w, "revertLoad")
    <3>1. /\ OthersSame(w) /\ pc'[w] = "revertLoad" /\ job'[w] = m /\ token'[w] = token[w]
      BY <1>1, <2>3, GotoStep
    <3>2. ActorInv(w)'
      BY <1>2, <1>3, <1>4, <1>5, <3>1
      DEF ActorInv, SnapshotInv, DecisionInv, TokenInv, AttemptInv, Saving, Settling,
          Checking, Attempting
    <3> QED BY <1>1, <1>3, <1>5, <3>1, <3>2, WriteStep
  <2>4. CASE /\ goal[w] \in {"sent", "rejected", "uncertain"}
             /\ GotoWithGoal(w, "settleLoad", "fallback")
    <3>1. /\ OthersSame(w) /\ pc'[w] = "settleLoad" /\ job'[w] = m
          /\ token'[w] = token[w] /\ goal'[w] = "fallback"
      BY <1>1, <2>4, GotoWithGoalStep
    <3>2. sends[m] = 1
      BY <1>1, <2>4 DEF Inv, ActorInv, AttemptInv, Attempting
    <3>3. ActorInv(w)'
      BY <1>1, <1>2, <1>3, <1>4, <1>5, <3>1, <3>2
      DEF ActorInv, SnapshotInv, DecisionInv, TokenInv, AttemptInv, Saving, Settling,
          Checking, Attempting
    <3> QED BY <1>1, <1>3, <1>5, <3>1, <3>3, WriteStep
  <2> QED BY <1>5, <2>1, <2>2, <2>3, <2>4 DEF TransitionFailed
<1>6. CASE UNCHANGED rec /\ (Goto(w, "settleLoad") \/ TransitionFailed(w))
  <2>1. CASE Goto(w, "settleLoad")
    BY <1>1, <1>6, <2>1, GotoStep, PhaseStep DEF Checking, Attempting, Settling
  <2>2. CASE TransitionFailed(w)
    BY <1>1, <1>6, <2>2, TransitionFailedInv
  <2> QED BY <1>6, <2>1, <2>2
<1> QED BY <1>5, <1>6 DEF SettleSave, WriteAndRelease

\* A submission is the message's first.
LEMMA SendInv ==
  ASSUME TypeOK, Inv, NEW w \in Workers, Send(w)
  PROVE  Inv'
<1> PICK m \in Messages : m = job[w]
  BY BusyActor DEF Send, Actors
<1>1. /\ w \in Actors /\ pc[w] = "send" /\ token[w] # NoLease
      /\ m \in begun /\ sends[m] = 0 /\ m \notin accepted
  BY DEF Send, Actors, Inv, ActorInv, TokenInv, AttemptInv, Attempting, RecordInv
<1>2. /\ UNCHANGED <<rec, alerted, decided>>
      /\ sends'[m] = 1 /\ \A n \in Messages \ {m} : sends'[n] = sends[n]
      /\ \A n \in Messages \ {m} : n \in accepted' <=> n \in accepted
      /\ m \in accepted => m \in accepted'
  BY <1>1 DEF Send, TypeOK
<1>3. PICK outcome \in {"sent", "rejected", "uncertain"} :
        /\ GotoWithGoal(w, "settleLoad", outcome)
        /\ outcome = "sent" => m \in accepted'
        /\ outcome = "rejected" => m \notin accepted'
  BY <1>1 DEF Send
<1>4. /\ OthersSame(w)
      /\ pc'[w] = "settleLoad" /\ job'[w] = m /\ token'[w] = token[w]
      /\ goal'[w] = outcome
  BY <1>1, <1>3, GotoWithGoalStep
<1>5. begun' = begun
  BY <1>2 DEF begun
<1>6. ActorInv(w)'
  BY <1>1, <1>2, <1>3, <1>4
  DEF Inv, ActorInv, SnapshotInv, DecisionInv, TokenInv, AttemptInv, Saving, Settling,
      Checking, Attempting
<1>7. ASSUME NEW b \in Actors \ {w}
      PROVE  ActorInv(b)'
  <2>1. /\ pc'[b] = pc[b] /\ job'[b] = job[b] /\ snap'[b] = snap[b]
        /\ token'[b] = token[b] /\ goal'[b] = goal[b]
    BY <1>4 DEF OthersSame
  <2>2. ActorInv(b)
    BY DEF Inv
  <2>3. SnapshotInv(b)' /\ DecisionInv(b)' /\ TokenInv(b)'
    BY <1>2, <2>1, <2>2
    DEF ActorInv, SnapshotInv, DecisionInv, TokenInv, Checking, Attempting, Unchanged
  <2>4. Attempting(b) => job[b] # m /\ job[b] \in Messages
    <3>1. job[b] = m => pc[b] # "send"
      BY <1>1 DEF Inv, SubmitsAlone
    <3>2. job[b] = m => ~(Attempting(b) /\ pc[b] # "send")
      BY <1>1, <2>2 DEF ActorInv, AttemptInv
    <3>3. Attempting(b) => pc[b] # "idle"
      BY DEF Attempting, Settling
    <3> QED BY <3>1, <3>2, <3>3, BusyActor
  <2>5. Attempting(b)' <=> Attempting(b)
    BY <2>1 DEF Attempting
  <2>6. AttemptInv(b)'
    BY <1>2, <1>5, <2>1, <2>2, <2>4, <2>5 DEF ActorInv, AttemptInv, Attempting
  <2> QED BY <2>3, <2>6 DEF ActorInv
<1>8. ASSUME NEW n \in Messages
      PROVE  RecordInv(n)'
  <2>1. CASE n = m
    BY <1>1, <1>2, <1>5, <2>1 DEF Inv, RecordInv
  <2>2. CASE n # m
    BY <1>2, <1>5, <2>2 DEF Inv, RecordInv
  <2> QED BY <2>1, <2>2
<1> QED BY <1>1, <1>4, <1>6, <1>7, <1>8, PairsKept DEF Inv

\* A worker's step keeps the invariant.
LEMMA WorkerInv ==
  ASSUME TypeOK, Inv, NEW w \in Workers, WorkerStep(w)
  PROVE  Inv'
BY StartJobInv, LoadForClaimInv, ClaimInv, CheckConsentInv, CheckGateInv, RevertLoadInv,
   RevertSaveInv, RecheckInv, BeginSendingInv, SendInv, SettleLoadInv, SettleSaveInv, AlertInv
DEF WorkerStep

(* The recovery scanner, the operator and the environment.                      *)

\* An idle actor starts on a record it has just loaded, or has yet to load.
LEMMA StartStep ==
  ASSUME TypeOK, Inv, NEW a \in Actors, pc[a] = "idle", OthersSame(a),
         NEW m \in Messages, job'[a] = m, token'[a] = token[a],
         pc'[a] \in {"scanSave", "resolveLoad"},
         pc'[a] = "scanSave" => snap'[a] = rec[m] /\ rec[m].state \in {"claimed", "sending"},
         UNCHANGED <<rec, sends, accepted, alerted, decided>>
  PROVE  Inv'
<1>1. token[a] = NoLease /\ rec[m].version \in Nat
  BY DEF Inv, ActorInv, TokenInv, TypeOK, Records
<1>2. ActorInv(a)'
  BY <1>1
  DEF ActorInv, SnapshotInv, DecisionInv, TokenInv, AttemptInv, Saving, Settling,
      Checking, Attempting, NoLease
<1> QED BY <1>1, <1>2, ControlStep

\* A scanner's step keeps the invariant.
LEMMA ScannerInv ==
  ASSUME TypeOK, Inv, NEW s \in Scanners, ScannerStep(s)
  PROVE  Inv'
<1>0. s \in Actors
  BY DEF Actors
<1>1. CASE \E m \in Messages : ScanLoad(s, m)
  <2> PICK m \in Messages : ScanLoad(s, m)
    BY <1>1
  <2>1. /\ pc[s] = "idle" /\ OthersSame(s) /\ job'[s] = m /\ token'[s] = token[s]
        /\ pc'[s] = "scanSave" /\ snap'[s] = rec[m] /\ rec[m].state \in {"claimed", "sending"}
        /\ UNCHANGED <<rec, sends, accepted, alerted, decided>>
    BY <1>0 DEF ScanLoad, OthersSame, TypeOK, historyVars
  <2> QED BY <1>0, <2>1, StartStep
<1>2. CASE ScanSave(s)
  <2>1. /\ pc[s] = "scanSave" /\ pc[s] \in Saving /\ Finish(s)
        /\ UNCHANGED <<sends, accepted, alerted, decided>>
    BY <1>2 DEF ScanSave, Saving, historyVars
  <2> PICK m \in Messages : m = job[s]
    BY <1>0, <2>1, BusyActor
  <2>2. CASE Write(s, IF snap[s].state = "claimed" THEN "pending" ELSE "uncertain", NoLease, FALSE)
    <3>1. PICK state : /\ state = IF snap[s].state = "claimed" THEN "pending" ELSE "uncertain"
                       /\ Write(s, state, NoLease, FALSE)
      BY <2>2
    <3>2. snap[s].state = rec[m].state /\ snap[s].state \in {"claimed", "sending"}
      BY <1>0, <2>1, <3>1, SnapshotAccurate DEF Inv, ActorInv, DecisionInv
    <3>3. rec'[m].state = state /\ rec'[m].lease = NoLease
      <4>1. pc[s] # "idle" /\ Write(s, state, NoLease, FALSE)
        BY <2>1, <3>1
      <4>2. rec'[job[s]].state = state /\ rec'[job[s]].lease = NoLease
        BY ONLY TypeOK, <1>0, <4>1, WriteEffect
      <4> QED BY <4>2
    <3>4. Respectful(s, NoLease) /\ RecordInv(m)'
      BY <1>0, <2>1, <3>1, <3>2, <3>3 DEF Respectful, RecordInv, begun, Inv
    <3> QED BY <1>0, <2>1, <3>1, <3>4, WriteThenFinish
  <2>3. CASE UNCHANGED rec
    BY <1>0, <2>1, <2>3, LetGo
  <2> QED BY <1>2, <2>2, <2>3 DEF ScanSave, WriteAndRelease
<1> QED BY <1>1, <1>2 DEF ScannerStep

\* An operator's step keeps the invariant.
LEMMA OperatorInv ==
  ASSUME TypeOK, Inv, NEW o \in Operators, OperatorStep(o)
  PROVE  Inv'
<1>0. o \in Actors
  BY DEF Actors
<1>1. CASE \E m \in Messages, decision \in Decisions : StartResolve(o, m, decision)
  <2> PICK m \in Messages, decision \in Decisions : StartResolve(o, m, decision)
    BY <1>1
  <2>1. /\ pc[o] = "idle" /\ OthersSame(o) /\ job'[o] = m /\ token'[o] = token[o]
        /\ pc'[o] = "resolveLoad"
        /\ UNCHANGED <<rec, sends, accepted, alerted, decided>>
    BY <1>0 DEF StartResolve, OthersSame, TypeOK, historyVars
  <2> QED BY <1>0, <2>1, StartStep
<1>2. CASE ResolveLoad(o)
  BY <1>0, <1>2, LoadStep, LetGo DEF ResolveLoad, historyVars
<1>3. CASE ResolveSave(o)
  <2>1. /\ pc[o] = "resolveSave" /\ pc[o] \in Saving /\ goal[o] \in Decisions
        /\ UNCHANGED <<sends, accepted, alerted>>
    BY <1>0, <1>3 DEF ResolveSave, Saving, TypeOK
  <2> PICK m \in Messages : m = job[o]
    BY <1>0, <2>1, BusyActor
  <2>2. CASE Write(o, goal[o], NoLease, FALSE) /\ decided' = decided \cup {m} /\ Finish(o)
    <3>1. PICK state \in Decisions : Write(o, state, NoLease, FALSE)
      BY <2>1, <2>2
    <3>2. rec[m].state = "uncertain"
      BY <1>0, <2>1, <3>1, SnapshotAccurate DEF Inv, ActorInv, DecisionInv
    <3>3. rec'[m].state = state /\ rec'[m].lease = NoLease
      BY <1>0, <2>1, <3>1, WriteEffect
    <3>4. Respectful(o, NoLease) /\ RecordInv(m)'
      BY <1>0, <2>1, <2>2, <3>2, <3>3 DEF Respectful, RecordInv, begun, Inv, Decisions
    <3> QED BY <1>0, <2>1, <2>2, <3>1, <3>4, WriteThenFinish
  <2>3. CASE Goto(o, "resolveLoad") /\ UNCHANGED <<rec, decided>>
    BY <1>0, <2>1, <2>3, GotoStep, PhaseStep DEF Checking, Attempting, Settling
  <2> QED BY <1>3, <2>2, <2>3 DEF ResolveSave, WriteAndRelease
<1> QED BY <1>1, <1>2, <1>3 DEF OperatorStep

\* A step that changes neither an actor, nor a version, state or lease.
LEMMA AmbientStep ==
  ASSUME Inv, UNCHANGED <<pc, job, snap, token, goal, sends, accepted, alerted, decided>>,
         \A m \in Messages : /\ rec'[m].version = rec[m].version
                             /\ rec'[m].state = rec[m].state
                             /\ rec'[m].lease = rec[m].lease,
         TypeOK
  PROVE  Inv'
<1>1. begun' = begun
  BY DEF begun
<1>2. \A a \in Actors : pc[a] # "idle" => job[a] \in Messages
  BY BusyActor
<1>3. ASSUME NEW a \in Actors
      PROVE  ActorInv(a)'
  <2>1. ActorInv(a)
    BY DEF Inv
  <2>2. SnapshotInv(a)' /\ DecisionInv(a)'
    BY <1>2, <2>1 DEF ActorInv, SnapshotInv, DecisionInv, Saving, Unchanged
  <2>3. TokenInv(a)' /\ AttemptInv(a)'
    BY <1>1, <1>2, <2>1 DEF ActorInv, TokenInv, AttemptInv, Checking, Attempting, Settling
  <2> QED BY <2>2, <2>3 DEF ActorInv
<1>4. \A a, b \in Actors : TokensDiffer(a, b)' /\ SubmitsAlone(a, b)'
  BY DEF Inv, TokensDiffer, SubmitsAlone
<1>5. \A m \in Messages : RecordInv(m)'
  BY <1>1 DEF Inv, RecordInv
<1> QED BY <1>3, <1>4, <1>5 DEF Inv

\* Crashes, time and the recipients keep the invariant.
LEMMA EnvironmentInv ==
  ASSUME TypeOK, Inv, EnvironmentStep
  PROVE  Inv'
<1>1. CASE \E a \in Actors : Crash(a)
  BY <1>1, LetGo DEF Crash, historyVars
<1>2. CASE \E m \in Messages : ExpireLease(m)
  <2>1. \A n \in Messages : /\ rec'[n].version = rec[n].version
                            /\ rec'[n].state = rec[n].state
                            /\ rec'[n].lease = rec[n].lease
    BY <1>2 DEF ExpireLease, TypeOK, Records
  <2> QED BY <1>2, <2>1, AmbientStep DEF ExpireLease, actorVars, historyVars
<1>3. CASE PauseOrResume \/ CancelCampaign \/ \E m \in Messages : Withdraw(m)
  <2>1. UNCHANGED <<rec, pc, job, snap, token, goal, sends, accepted, alerted, decided>>
    BY <1>3 DEF PauseOrResume, CancelCampaign, Withdraw, actorVars, historyVars
  <2> QED BY <2>1, AmbientStep
<1> QED BY <1>1, <1>2, <1>3 DEF EnvironmentStep

\* What the actors rely on at their awaits holds in every reachable state
\* (EmailDelivery_inv): delivery.ts:81-160, 183-200 and recovery.ts:14-33.
THEOREM Invariance == Spec => []Inv
<1>1. Init => Inv
  <2> SUFFICES ASSUME Init PROVE Inv
    OBVIOUS
  <2>1. \A a \in Actors : ActorInv(a)
    BY DEF Init, ActorInv, SnapshotInv, DecisionInv, TokenInv, AttemptInv, Saving,
           Settling, Checking, Attempting
  <2>2. \A a, b \in Actors : TokensDiffer(a, b) /\ SubmitsAlone(a, b)
    BY DEF Init, TokensDiffer, SubmitsAlone
  <2>3. \A m \in Messages : RecordInv(m)
    <3> SUFFICES ASSUME NEW m \in Messages PROVE RecordInv(m)
      OBVIOUS
    <3>1. /\ rec[m].state = "pending" /\ rec[m].lease = NoLease /\ sends[m] = 0
          /\ m \notin accepted /\ m \notin decided /\ m \notin alerted
      BY DEF Init, Unclaimed
    <3> QED BY <3>1 DEF RecordInv
  <2> QED BY <2>1, <2>2, <2>3 DEF Inv
<1>2. TypeOK /\ Inv /\ [Next]_vars => Inv'
  <2>1. ASSUME TypeOK, Inv, UNCHANGED vars PROVE Inv'
    <3>1. UNCHANGED <<rec, pc, job, snap, token, goal, sends, accepted, alerted, decided>>
      BY <2>1 DEF vars, actorVars, historyVars
    <3> QED BY <2>1, <3>1, AmbientStep
  <2> QED BY <2>1, WorkerInv, ScannerInv, OperatorInv, EnvironmentInv DEF Next
<1> QED BY <1>1, <1>2, TypeCorrect, PTL DEF Spec

\* delivery.ts:51-52.  For any number of workers, redeliveries, crashes and
\* expired leases, SMTP sees a message at most once.
THEOREM SendsOnce == Spec => []AtMostOneSend
<1>1. Inv => AtMostOneSend
  BY DEF Inv, RecordInv, AtMostOneSend
<1> QED BY <1>1, Invariance, PTL

\* delivery.ts:133-138.  A message SMTP has seen is never pending or claimed.
THEOREM RecordsBeforeSending == Spec => []SendIsRecordedFirst
<1>1. TypeOK /\ Inv => SendIsRecordedFirst
  <2> SUFFICES ASSUME TypeOK, Inv, NEW m \in Messages, sends[m] > 0
               PROVE  rec[m].state \notin {"pending", "claimed"}
    BY DEF SendIsRecordedFirst
  <2>1. m \in begun
    BY DEF Inv, RecordInv
  <2> QED BY <2>1 DEF Inv, RecordInv, begun
<1> QED BY <1>1, Invariance, TypeCorrect, PTL

\* delivery.ts:139-158.  An outcome nobody decided by hand is what happened.
THEOREM OutcomesAreTrue == Spec => []OutcomeIsTrue
<1>1. Inv => OutcomeIsTrue
  BY DEF Inv, RecordInv, OutcomeIsTrue, begun
<1> QED BY <1>1, Invariance, PTL

\* delivery.ts:102,147,157.  onUncertain follows a record of uncertainty.
THEOREM AlertsAreRecorded == Spec => []AlertIsRecorded
<1>1. TypeOK /\ Inv => AlertIsRecorded
  BY DEF Inv, RecordInv, AlertIsRecorded, TypeOK
<1> QED BY <1>1, Invariance, TypeCorrect, PTL

(* Barred messages.                                                             *)

\* How a step may change a version and a lease.
StoreAdvances ==
  \A m \in Messages :
    /\ rec'[m].version >= rec[m].version
    /\ \/ rec'[m].lease = rec[m].lease
       \/ rec'[m].lease = NoLease
       \/ rec'[m].lease = rec[m].version + 1

\* A save either keeps a version and its lease or advances to a lease no
\* token of an earlier claim names.
LEMMA SaveAdvances ==
  ASSUME TypeOK, Inv, NEW a \in Actors, pc[a] \in Saving,
         NEW state, NEW lease, NEW live, Write(a, state, lease, live),
         lease = NoLease \/ lease = snap[a].lease \/ lease = snap[a].version + 1
  PROVE  StoreAdvances
<1>0. pc[a] # "idle"
  BY DEF Saving
<1>1. /\ job[a] \in Messages
      /\ rec[job[a]].version \in Nat
      /\ snap[a].version = rec[job[a]].version
      /\ rec'[job[a]].version = rec[job[a]].version + 1
      /\ rec'[job[a]].lease = lease
      /\ \A m \in Messages \ {job[a]} : rec'[m] = rec[m]
  BY <1>0, WriteEffect
<1>2. snap[a].lease = rec[job[a]].lease
  BY SnapshotAccurate
<1>3. ASSUME NEW m \in Messages, m # job[a]
      PROVE  rec'[m] = rec[m] /\ rec[m].version \in Nat
  BY <1>1, <1>3 DEF TypeOK, Records
<1> QED BY <1>1, <1>2, <1>3 DEF StoreAdvances

\* So does a step that saves nothing.
LEMMA StoreKept ==
  ASSUME TypeOK,
         \A m \in Messages : rec'[m].version = rec[m].version /\ rec'[m].lease = rec[m].lease
  PROVE  StoreAdvances
BY DEF StoreAdvances, TypeOK, Records

\* So does every step.
LEMMA StepAdvances ==
  ASSUME TypeOK, Inv, [Next]_vars
  PROVE  StoreAdvances
<1>1. CASE UNCHANGED rec
  BY <1>1, StoreKept
<1>2. ASSUME NEW w \in Workers, Claim(w), ~UNCHANGED rec
      PROVE  StoreAdvances
  <2>1. w \in Actors /\ pc[w] \in Saving /\ ClaimWrite(w)
    BY <1>2 DEF Actors, Claim, Saving
  <2>2. CASE Write(w, "claimed", snap[w].version + 1, TRUE)
    <3>1. PICK state, lease, live : /\ Write(w, state, lease, live)
                                    /\ lease = snap[w].version + 1
      BY <2>2
    <3> QED BY <2>1, <3>1, SaveAdvances
  <2>3. CASE Write(w, "uncertain", NoLease, FALSE)
    BY <2>1, <2>3, SaveAdvances
  <2> QED BY <2>1, <2>2, <2>3 DEF ClaimWrite, WriteAndRelease
<1>3. ASSUME NEW w \in Workers, BeginSending(w), ~UNCHANGED rec
      PROVE  StoreAdvances
  <2>1. w \in Actors /\ pc[w] \in Saving
    BY <1>3 DEF Actors, BeginSending, Saving
  <2>2. PICK lease, live : Write(w, "sending", lease, live) /\ lease = snap[w].lease
    BY <1>3 DEF BeginSending
  <2> QED BY <2>1, <2>2, SaveAdvances
<1>4. ASSUME NEW a \in Actors, pc[a] \in Saving, NEW state, WriteAndRelease(a, state)
      PROVE  StoreAdvances
  BY <1>4, SaveAdvances DEF WriteAndRelease
<1>5. ASSUME NEW m \in Messages, ExpireLease(m)
      PROVE  StoreAdvances
  <2>1. \A n \in Messages : rec'[n].version = rec[n].version /\ rec'[n].lease = rec[n].lease
    BY <1>5 DEF ExpireLease, TypeOK, Records
  <2> QED BY <2>1, StoreKept
<1>6. ASSUME NEW w \in Workers, WorkerStep(w)
      PROVE  StoreAdvances
  <2>1. CASE RevertSave(w)
    BY <1>1, <1>4, <2>1 DEF RevertSave, Actors, Saving
  <2>2. CASE SettleSave(w)
    BY <1>1, <1>4, <2>2 DEF SettleSave, Actors, Saving
  <2>3. CASE \/ \E m \in Messages : StartJob(w, m)
             \/ LoadForClaim(w) \/ CheckConsent(w) \/ CheckGate(w) \/ RevertLoad(w)
             \/ Recheck(w) \/ Send(w) \/ SettleLoad(w) \/ Alert(w)
    BY <1>1, <2>3 DEF StartJob, LoadForClaim, CheckConsent, CheckGate, RevertLoad, Recheck,
                      Send, SettleLoad, Alert
  <2> QED BY <1>1, <1>2, <1>3, <1>6, <2>1, <2>2, <2>3 DEF WorkerStep
<1>7. ASSUME NEW s \in Scanners, ScannerStep(s)
      PROVE  StoreAdvances
  <2>1. CASE ScanSave(s)
    <3>1. PICK state : WriteAndRelease(s, state) \/ UNCHANGED rec
      BY <2>1 DEF ScanSave
    <3> QED BY <1>1, <1>4, <2>1, <3>1 DEF ScanSave, Actors, Saving
  <2>2. CASE \E m \in Messages : ScanLoad(s, m)
    BY <1>1, <2>2 DEF ScanLoad
  <2> QED BY <1>7, <2>1, <2>2 DEF ScannerStep
<1>8. ASSUME NEW o \in Operators, OperatorStep(o)
      PROVE  StoreAdvances
  <2>1. CASE ResolveSave(o)
    BY <1>1, <1>4, <2>1 DEF ResolveSave, Actors, Saving
  <2>2. CASE ResolveLoad(o) \/ \E m \in Messages, d \in Decisions : StartResolve(o, m, d)
    BY <1>1, <2>2 DEF ResolveLoad, StartResolve
  <2> QED BY <1>8, <2>1, <2>2 DEF OperatorStep
<1>9. ASSUME EnvironmentStep
      PROVE  StoreAdvances
  BY <1>1, <1>5, <1>9 DEF EnvironmentStep, Crash, Withdraw, PauseOrResume, CancelCampaign
<1> QED BY <1>1, <1>6, <1>7, <1>8, <1>9 DEF Next, vars

\* An actor that holds still keeps its part of BarredInv.
LEMMA StillBarred ==
  ASSUME TypeOK, Inv, NEW b \in Actors, BarredActorInv(b), StoreAdvances,
         pc'[b] = pc[b], job'[b] = job[b], snap'[b] = snap[b], token'[b] = token[b],
         UNCHANGED barred, gate = "suppress" => gate' = "suppress"
  PROVE  BarredActorInv(b)'
<1>1. SUFFICES ASSUME pc[b] \in {"gate", "recheck", "begin", "send"}, job[b] \in barred
               PROVE  BarredActorInv(b)'
  BY DEF BarredActorInv
<1>2. /\ job[b] \in Messages /\ rec[job[b]].version \in Nat /\ rec'[job[b]].version >= rec[job[b]].version
      /\ token[b] \in Nat /\ snap[b].version \in Nat
  BY <1>1, BusyActor DEF TypeOK, Records, StoreAdvances
<1>3. pc[b] \in {"gate", "recheck"} /\ rec[job[b]].lease # token[b] => rec'[job[b]].lease # token[b]
  <2>1. pc[b] \in {"gate", "recheck"} => token[b] # NoLease /\ token[b] <= rec[job[b]].version
    BY <1>1 DEF Inv, ActorInv, TokenInv, Checking
  <2> QED BY <1>2, <2>1 DEF StoreAdvances
<1>4. pc[b] = "begin" => rec'[job[b]].version # snap[b].version
  <2>1. pc[b] = "begin" => snap[b].version <= rec[job[b]].version
    BY DEF Inv, ActorInv, SnapshotInv, Saving
  <2>2. pc[b] = "begin" => snap[b].version # rec[job[b]].version
    BY <1>1 DEF BarredActorInv, Unchanged
  <2> QED BY <1>2, <2>1, <2>2
<1> QED BY <1>1, <1>2, <1>3, <1>4 DEF BarredActorInv, Unchanged

\* Nobody holds the claim of a pending message.
LEMMA PendingIsFree ==
  ASSUME TypeOK, Inv, NEW a \in Actors, pc[a] # "idle", rec[job[a]].state = "pending"
  PROVE  /\ pc[a] \in {"gate", "recheck"} => rec[job[a]].lease # token[a]
         /\ pc[a] = "begin" => ~Unchanged(a)
         /\ pc[a] # "send"
<1>1. ActorInv(a) /\ job[a] \in Messages /\ RecordInv(job[a])
  BY BusyActor DEF Inv
<1>2. job[a] \notin begun
  BY <1>1 DEF RecordInv, begun
<1> QED BY <1>1, <1>2
        DEF ActorInv, SnapshotInv, DecisionInv, TokenInv, AttemptInv, Saving, Checking

\* A worker that gets past a check of a barred message has lost its claim.
LEMMA WorkerBarred ==
  ASSUME TypeOK, Inv, BarredInv, NEW w \in Workers, WorkerStep(w),
         pc'[w] \in {"gate", "recheck", "begin", "send"}, job'[w] \in barred
  PROVE  BarredActorInv(w)'
<1>0. w \in Actors /\ BarredActorInv(w) /\ \A m \in Messages : BarredRecordInv(m)
  BY DEF Actors, BarredInv
<1>1. CASE CheckConsent(w)
  <2>1. pc[w] = "consent" /\ job[w] \in Messages /\ UNCHANGED <<rec, gate, barred>>
    BY <1>0, <1>1, BusyActor DEF CheckConsent, policyVars, historyVars
  <2>2. CASE Goto(w, "gate") /\ consent[job[w]]
    <3>1. pc'[w] = "gate" /\ job'[w] = job[w]
      BY <1>0, <2>2, GotoStep
    <3> QED BY <1>0, <2>1, <2>2, <3>1 DEF BarredRecordInv, BarredActorInv
  <2>3. CASE Goto(w, "recheck") /\ job[w] \notin Marketing
    <3>1. job'[w] = job[w]
      BY <1>0, <2>3, GotoStep
    <3> QED BY <1>0, <2>1, <2>3, <3>1 DEF BarredRecordInv
  <2>4. CASE Goto(w, "revertLoad") \/ GotoWithGoal(w, "settleLoad", "suppressed")
    BY <1>0, <2>4, GotoStep, GotoWithGoalStep
  <2> QED BY <1>1, <2>2, <2>3, <2>4 DEF CheckConsent
<1>2. CASE CheckGate(w)
  <2>1. pc[w] = "gate" /\ UNCHANGED <<rec, barred>>
    BY <1>2 DEF CheckGate, policyVars, historyVars
  <2>2. CASE Goto(w, "recheck") /\ gate = "allow"
    <3>1. pc'[w] = "recheck" /\ job'[w] = job[w] /\ token'[w] = token[w]
      BY <1>0, <2>2, GotoStep
    <3> QED BY <1>0, <2>1, <2>2, <3>1 DEF BarredActorInv
  <2>3. CASE Goto(w, "revertLoad") \/ GotoWithGoal(w, "settleLoad", "suppressed")
    BY <1>0, <2>3, GotoStep, GotoWithGoalStep
  <2> QED BY <1>2, <2>2, <2>3 DEF CheckGate
<1>3. CASE Recheck(w)
  <2>1. CASE OwnLease(w, rec[job[w]]) /\ GotoWithRecord(w, "begin")
    <3>1. job'[w] = job[w] /\ pc[w] = "recheck"
      BY <1>0, <1>3, <2>1, GotoWithRecordStep DEF Recheck
    <3> QED BY <1>0, <2>1, <3>1 DEF BarredActorInv, OwnLease
  <2>2. CASE Finish(w)
    BY <1>0, <2>2, FinishStep
  <2> QED BY <1>3, <2>1, <2>2 DEF Recheck
<1>4. CASE BeginSending(w)
  <2>1. CASE Unchanged(w) /\ Goto(w, "send")
    <3>1. job'[w] = job[w] /\ pc[w] = "begin"
      BY <1>0, <1>4, <2>1, GotoStep DEF BeginSending
    <3> QED BY <1>0, <2>1, <3>1 DEF BarredActorInv
  <2>2. CASE Finish(w)
    BY <1>0, <2>2, FinishStep
  <2> QED BY <1>4, <2>1, <2>2 DEF BeginSending, Write
<1>5. CASE \/ LoadForClaim(w) \/ RevertLoad(w) \/ RevertSave(w) \/ Alert(w)
           \/ \E m \in Messages : StartJob(w, m)
  BY <1>0, <1>5, FinishStep, GotoWithRecordStep
  DEF LoadForClaim, RevertLoad, RevertSave, Alert, StartJob, TypeOK
<1>6. CASE Send(w) \/ SettleLoad(w) \/ SettleSave(w)
  BY <1>0, <1>6, FinishStep, GotoStep, GotoWithRecordStep, GotoWithGoalStep
  DEF Send, SettleLoad, SettleSave, TransitionFailed
<1>7. CASE Claim(w)
  BY <1>0, <1>7, FinishStep, GotoStep DEF Claim, TypeOK
<1> QED BY <1>1, <1>2, <1>3, <1>4, <1>5, <1>6, <1>7 DEF WorkerStep

\* A step of one actor that touches neither the bar nor SMTP.
LEMMA OthersBarred ==
  ASSUME TypeOK, Inv, BarredInv, StoreAdvances, NEW a \in Actors, OthersSame(a),
         UNCHANGED <<barred, consent, gate>>, BarredActorInv(a)',
         \A m \in barred : sends'[m] = sends[m]
  PROVE  BarredInv'
<1>1. ASSUME NEW b \in Actors \ {a} PROVE BarredActorInv(b)'
  BY StillBarred DEF BarredInv, OthersSame
<1>2. \A m \in Messages : BarredRecordInv(m)'
  BY DEF BarredInv, BarredRecordInv
<1> QED BY <1>1, <1>2 DEF BarredInv

\* An actor that is nowhere near SMTP.
LEMMA AwayFromSmtp ==
  ASSUME NEW a \in Actors, pc'[a] \notin {"gate", "recheck", "begin", "send"}
  PROVE  BarredActorInv(a)'
BY DEF BarredActorInv

\* A worker's step keeps what is known of barred messages.
LEMMA WorkerKeepsBarred ==
  ASSUME TypeOK, Inv, BarredInv, StoreAdvances, NEW w \in Workers, WorkerStep(w)
  PROVE  BarredInv'
<1>0. w \in Actors
  BY DEF Actors
<1>1. UNCHANGED <<barred, consent, gate>>
  BY DEF WorkerStep, StartJob, LoadForClaim, Claim, CheckConsent, CheckGate, RevertLoad,
         RevertSave, Recheck, BeginSending, Send, SettleLoad, SettleSave, Alert,
         policyVars, historyVars
<1>2. OthersSame(w)
  <2>1. CASE \E m \in Messages : StartJob(w, m)
    BY <2>1 DEF StartJob, OthersSame, TypeOK
  <2>2. CASE \/ LoadForClaim(w) \/ CheckConsent(w) \/ CheckGate(w) \/ RevertLoad(w)
             \/ RevertSave(w) \/ Recheck(w) \/ BeginSending(w) \/ Send(w) \/ SettleLoad(w)
             \/ SettleSave(w) \/ Alert(w)
    BY <1>0, <2>2, FinishStep, GotoStep, GotoWithGoalStep, GotoWithRecordStep
    DEF LoadForClaim, CheckConsent, CheckGate, RevertLoad, RevertSave, Recheck, BeginSending,
        Send, SettleLoad, SettleSave, Alert, TransitionFailed
  <2>3. CASE Claim(w)
    BY <1>0, <2>3, FinishStep, GotoStep DEF Claim, OthersSame, TypeOK
  <2> QED BY <2>1, <2>2, <2>3 DEF WorkerStep
<1>3. BarredActorInv(w)'
  <2>1. CASE pc'[w] \in {"gate", "recheck", "begin", "send"} /\ job'[w] \in barred
    BY <2>1, WorkerBarred
  <2>2. CASE pc'[w] \notin {"gate", "recheck", "begin", "send"} \/ job'[w] \notin barred
    BY <1>1, <2>2 DEF BarredActorInv
  <2> QED BY <2>1, <2>2
<1>4. \A m \in barred : sends'[m] = sends[m]
  <2>1. CASE Send(w)
    <3>1. pc[w] = "send" /\ job[w] \notin barred
      BY <1>0, <2>1 DEF Send, BarredInv, BarredActorInv
    <3> QED BY <2>1, <3>1 DEF Send, TypeOK
  <2>2. CASE ~Send(w)
    BY <2>2 DEF WorkerStep, StartJob, LoadForClaim, Claim, CheckConsent, CheckGate, RevertLoad,
                RevertSave, Recheck, BeginSending, SettleLoad, SettleSave, Alert, historyVars
  <2> QED BY <2>1, <2>2
<1> QED BY <1>0, <1>1, <1>2, <1>3, <1>4, OthersBarred

\* So do a crash, a scanner's step and an operator's step.
LEMMA OtherActorsKeepBarred ==
  ASSUME TypeOK, Inv, BarredInv, StoreAdvances, NEW a \in Actors,
         Crash(a) \/ ScannerStep(a) \/ OperatorStep(a)
  PROVE  BarredInv'
<1>1. UNCHANGED <<barred, consent, gate, sends>>
  BY DEF Crash, ScannerStep, OperatorStep, ScanLoad, ScanSave, StartResolve, ResolveLoad,
         ResolveSave, policyVars, historyVars
<1>2. OthersSame(a) /\ pc'[a] \in {"idle", "scanSave", "resolveLoad", "resolveSave"}
  <2>1. CASE \/ \E m \in Messages : ScanLoad(a, m)
             \/ \E m \in Messages, d \in Decisions : StartResolve(a, m, d)
    BY <2>1 DEF ScanLoad, StartResolve, OthersSame, TypeOK
  <2>2. CASE Crash(a) \/ ScanSave(a) \/ ResolveLoad(a) \/ ResolveSave(a)
    BY <2>2, FinishStep, GotoStep, GotoWithRecordStep
    DEF Crash, ScanSave, ResolveLoad, ResolveSave
  <2> QED BY <2>1, <2>2 DEF ScannerStep, OperatorStep
<1>3. BarredActorInv(a)'
  BY <1>2, AwayFromSmtp
<1> QED BY <1>1, <1>2, <1>3, OthersBarred

\* A step of the environment that bars the pending messages among new.
LEMMA BarringStep ==
  ASSUME TypeOK, Inv, BarredInv, UNCHANGED <<rec, pc, job, snap, token, sends>>,
         gate = "suppress" => gate' = "suppress",
         \A m \in Messages : ~consent[m] => ~consent'[m],
         \A m \in Messages : m \in barred' /\ m \notin barred =>
           /\ rec[m].state = "pending" /\ m \in Marketing
           /\ ~consent'[m] \/ gate' = "suppress"
  PROVE  BarredInv'
<1>1. ASSUME NEW a \in Actors PROVE BarredActorInv(a)'
  <2>1. CASE job[a] \in barred
    BY <1>1, <2>1 DEF BarredInv, BarredActorInv, Unchanged
  <2>2. CASE job[a] \in barred' /\ job[a] \notin barred /\ pc[a] # "idle"
    BY <1>1, <2>2, PendingIsFree, BusyActor DEF BarredActorInv, Unchanged
  <2>3. CASE job[a] \notin barred' \/ pc[a] = "idle"
    BY <2>3 DEF BarredActorInv
  <2> QED BY <2>1, <2>2, <2>3
<1>2. ASSUME NEW m \in Messages PROVE BarredRecordInv(m)'
  <2>1. rec[m].state = "pending" => sends[m] = 0
    BY DEF Inv, RecordInv, begun
  <2> QED BY <2>1 DEF BarredInv, BarredRecordInv
<1> QED BY <1>1, <1>2 DEF BarredInv

\* So does the environment: what it bars nobody holds.
LEMMA EnvironmentKeepsBarred ==
  ASSUME TypeOK, Inv, BarredInv, StoreAdvances, EnvironmentStep
  PROVE  BarredInv'
<1>1. CASE \E a \in Actors : Crash(a)
  BY <1>1, OtherActorsKeepBarred
<1>2. CASE \E m \in Messages : ExpireLease(m)
  <2>1. UNCHANGED <<pc, job, snap, token, barred, consent, gate, sends>>
    BY <1>2 DEF ExpireLease, actorVars, policyVars, historyVars
  <2>2. ASSUME NEW b \in Actors PROVE BarredActorInv(b)'
    BY <2>1, StillBarred DEF BarredInv
  <2>3. \A m \in Messages : BarredRecordInv(m)'
    BY <2>1 DEF BarredInv, BarredRecordInv
  <2> QED BY <2>2, <2>3 DEF BarredInv
<1>3. CASE \E m \in Messages : Withdraw(m)
  <2>1. UNCHANGED <<rec, pc, job, snap, token, gate, sends>>
    BY <1>3 DEF Withdraw, actorVars
  <2> QED BY <1>3, <2>1, BarringStep DEF Withdraw, TypeOK
<1>4. CASE CancelCampaign
  <2>1. UNCHANGED <<rec, pc, job, snap, token, consent, sends>>
    BY <1>4 DEF CancelCampaign, actorVars
  <2> QED BY <1>4, <2>1, BarringStep DEF CancelCampaign
<1>5. CASE PauseOrResume
  <2>1. UNCHANGED <<rec, pc, job, snap, token, consent, sends, barred>>
    BY <1>5 DEF PauseOrResume, actorVars, historyVars
  <2> QED BY <1>5, <2>1, BarringStep DEF PauseOrResume
<1> QED BY <1>1, <1>2, <1>3, <1>4, <1>5 DEF EnvironmentStep

\* delivery.ts:107-134.  A recipient who opts out, or a campaign cancelled,
\* while no worker holds the message is never mailed.
THEOREM BarredStays == Spec => []BarredIsNeverSent
<1>1. Init => BarredInv
  BY DEF Init, BarredInv, BarredActorInv, BarredRecordInv
<1>2. TypeOK /\ Inv /\ BarredInv /\ [Next]_vars => BarredInv'
  <2> SUFFICES ASSUME TypeOK, Inv, BarredInv, [Next]_vars
               PROVE  BarredInv'
    OBVIOUS
  <2>0. StoreAdvances
    BY StepAdvances
  <2>1. CASE UNCHANGED vars
    <3>1. UNCHANGED <<rec, pc, job, snap, token, sends, gate, consent, barred>>
      BY <2>1 DEF vars, actorVars, policyVars, historyVars
    <3> QED BY <3>1, BarringStep
  <2>2. CASE \E w \in Workers : WorkerStep(w)
    BY <2>0, <2>2, WorkerKeepsBarred
  <2>3. CASE (\E s \in Scanners : ScannerStep(s)) \/ (\E o \in Operators : OperatorStep(o))
    BY <2>0, <2>3, OtherActorsKeepBarred DEF Actors
  <2>4. CASE EnvironmentStep
    BY <2>0, <2>4, EnvironmentKeepsBarred
  <2> QED BY <2>1, <2>2, <2>3, <2>4 DEF Next
<1>3. TypeOK /\ BarredInv => BarredIsNeverSent
  BY DEF TypeOK, BarredInv, BarredRecordInv, BarredIsNeverSent
<1> QED BY <1>1, <1>2, <1>3, Invariance, TypeCorrect, PTL DEF Spec

------------------------------------------------------------------------------
(* EmailDelivery implements SingleSubmission: every step of a worker, the  *)
(* scanner, an operator or the environment is a step of the promise or     *)
(* leaves what the promise speaks of alone.                                *)

\* A step that leaves every state, every submission and every decision alone.
Quiet ==
  /\ \A m \in Messages : rec'[m].state = rec[m].state
  /\ UNCHANGED <<sends, decided>>

\* The only ways a save moves the record of m.
Moves(m) ==
  \/ /\ rec[m].state \in {"pending", "claimed"} /\ rec'[m].state \in {"pending", "claimed"}
     /\ UNCHANGED decided
  \/ /\ rec[m].state = "claimed" /\ rec'[m].state \in {"sending", "suppressed"}
     /\ UNCHANGED decided
  \/ /\ rec[m].state = "sending" /\ rec'[m].state \in {"sent", "rejected", "uncertain"}
     /\ rec'[m].state # "uncertain" => sends[m] = 1
     /\ UNCHANGED decided
  \/ /\ rec[m].state = "uncertain" /\ rec'[m].state \in Decisions
     /\ decided' = decided \cup {m}

SavesOne(m) ==
  /\ Moves(m)
  /\ \A n \in Messages \ {m} : rec'[n].state = rec[n].state
  /\ UNCHANGED sends

SubmitsOne(m) ==
  /\ m \in begun /\ sends[m] = 0 /\ sends' = [sends EXCEPT ![m] = 1]
  /\ UNCHANGED <<rec, decided>>

Observed == Quiet \/ \E m \in Messages : SavesOne(m) \/ SubmitsOne(m)

\* An accepted save, seen from outside.
LEMMA SaveObserved ==
  ASSUME TypeOK, Inv, NEW a \in Actors, pc[a] \in Saving,
         NEW state, NEW lease, NEW live, Write(a, state, lease, live), UNCHANGED sends,
         NEW m \in Messages, m = job[a],
         \/ /\ snap[a].state \in {"pending", "claimed"} /\ state \in {"pending", "claimed"}
            /\ UNCHANGED decided
         \/ /\ snap[a].state = "claimed" /\ state \in {"sending", "suppressed"}
            /\ UNCHANGED decided
         \/ /\ snap[a].state = "sending" /\ state \in {"sent", "rejected", "uncertain"}
            /\ state # "uncertain" => sends[m] = 1
            /\ UNCHANGED decided
         \/ /\ snap[a].state = "uncertain" /\ state \in Decisions
            /\ decided' = decided \cup {m}
  PROVE  Observed
<1>1. pc[a] # "idle"
  BY DEF Saving
<1>2. snap[a].state = rec[m].state
  BY SnapshotAccurate
<1>3. rec'[m].state = state /\ \A n \in Messages \ {m} : rec'[n] = rec[n]
  BY <1>1, WriteEffect
<1> QED BY <1>2, <1>3 DEF Observed, SavesOne, Moves

\* A claim is queued still, or closes a dead attempt.
LEMMA ClaimObserved ==
  ASSUME TypeOK, Inv, NEW w \in Workers, Claim(w)
  PROVE  Observed
<1> PICK m \in Messages : m = job[w]
  BY BusyActor DEF Claim, Actors
<1>1. /\ w \in Actors /\ pc[w] = "claim" /\ pc[w] \in Saving
      /\ snap[w].state \in {"pending", "claimed", "sending"}
      /\ UNCHANGED <<sends, decided>>
  BY DEF Claim, Actors, Saving, historyVars, Inv, ActorInv, DecisionInv, TypeOK, Records, States
<1>2. CASE ClaimWrite(w)
  <2>1. CASE snap[w].state = "sending"
    <3>1. Write(w, "uncertain", NoLease, FALSE)
      BY <1>2, <2>1 DEF ClaimWrite, ClaimedState, WriteAndRelease
    <3> QED BY <1>1, <2>1, <3>1, SaveObserved
  <2>2. CASE snap[w].state # "sending"
    <3>1. PICK fresh, on : Write(w, "claimed", fresh, on)
      BY <1>2, <2>2 DEF ClaimWrite, ClaimedState
    <3> QED BY <1>1, <2>2, <3>1, SaveObserved
  <2> QED BY <2>1, <2>2
<1>3. CASE UNCHANGED rec
  BY <1>1, <1>3 DEF Observed, Quiet
<1> QED BY <1>2, <1>3 DEF Claim

\* A claim given back is queued still.
LEMMA RevertSaveObserved ==
  ASSUME TypeOK, Inv, NEW w \in Workers, RevertSave(w)
  PROVE  Observed
<1> PICK m \in Messages : m = job[w]
  BY BusyActor DEF RevertSave, Actors
<1>1. /\ w \in Actors /\ pc[w] = "revertSave" /\ pc[w] \in Saving /\ snap[w].state = "claimed"
      /\ UNCHANGED <<sends, decided>>
  BY DEF RevertSave, Actors, Saving, historyVars, Inv, ActorInv, DecisionInv
<1>2. CASE Write(w, "pending", NoLease, FALSE)
  BY <1>1, <1>2, SaveObserved
<1>3. CASE UNCHANGED rec
  BY <1>1, <1>3 DEF Observed, Quiet
<1> QED BY <1>2, <1>3 DEF RevertSave, WriteAndRelease

\* An attempt begins from a claim.
LEMMA BeginSendingObserved ==
  ASSUME TypeOK, Inv, NEW w \in Workers, BeginSending(w)
  PROVE  Observed
<1> PICK m \in Messages : m = job[w]
  BY BusyActor DEF BeginSending, Actors
<1>1. /\ w \in Actors /\ pc[w] = "begin" /\ pc[w] \in Saving /\ snap[w].state = "claimed"
      /\ UNCHANGED <<sends, decided>>
  BY DEF BeginSending, Actors, Saving, historyVars, Inv, ActorInv, DecisionInv
<1>2. CASE \E kept, on : Write(w, "sending", kept, on)
  <2> PICK kept, on : Write(w, "sending", kept, on)
    BY <1>2
  <2> QED BY <1>1, SaveObserved
<1>3. CASE UNCHANGED rec
  BY <1>1, <1>3 DEF Observed, Quiet
<1> QED BY <1>2, <1>3 DEF BeginSending

\* An outcome follows a submission, or is a suppression without one.
LEMMA SettleSaveObserved ==
  ASSUME TypeOK, Inv, NEW w \in Workers, SettleSave(w)
  PROVE  Observed
<1> PICK m \in Messages : m = job[w]
  BY BusyActor DEF SettleSave, Actors
<1>1. /\ w \in Actors /\ pc[w] = "settleSave" /\ pc[w] \in Saving /\ pc[w] \in Settling
      /\ goal[w] \in Terminal \cup {"fallback"} /\ snap[w].lease = token[w]
      /\ UNCHANGED <<sends, decided>>
  BY DEF SettleSave, Actors, Saving, Settling, historyVars, Inv, ActorInv, DecisionInv,
         TypeOK, Goals
<1>2. CASE Write(w, Outcome(w), NoLease, FALSE)
  <2>1. snap[w].state = rec[m].state /\ rec[m].lease = token[w]
    BY <1>1, <1>2, SnapshotAccurate
  <2>2. CASE goal[w] = "suppressed"
    <3>1. snap[w].state = "claimed" /\ Outcome(w) = "suppressed"
      BY <1>1, <2>1, <2>2 DEF Inv, ActorInv, TokenInv, Checking, Outcome
    <3> QED BY <1>1, <1>2, <3>1, SaveObserved
  <2>3. CASE goal[w] # "suppressed"
    <3>1. snap[w].state = "sending" /\ Outcome(w) \in {"sent", "rejected", "uncertain"}
      BY <1>1, <2>1, <2>3 DEF Inv, ActorInv, TokenInv, Attempting, Outcome, Terminal
    <3>2. sends[m] = 1
      BY <1>1, <2>3 DEF Inv, ActorInv, AttemptInv, Attempting
    <3> QED BY <1>1, <1>2, <3>1, <3>2, SaveObserved
  <2> QED BY <2>2, <2>3
<1>3. CASE UNCHANGED rec
  BY <1>1, <1>3 DEF Observed, Quiet
<1> QED BY <1>2, <1>3 DEF SettleSave, WriteAndRelease

\* A submission belongs to an attempt that began and is its first.
LEMMA SendObserved ==
  ASSUME TypeOK, Inv, NEW w \in Workers, Send(w)
  PROVE  Observed
<1> PICK m \in Messages : m = job[w]
  BY BusyActor DEF Send, Actors
<1>1. m \in begun /\ sends[m] = 0
  BY DEF Send, Actors, Inv, ActorInv, AttemptInv
<1>2. sends' = [sends EXCEPT ![m] = 1] /\ UNCHANGED <<rec, decided>>
  BY <1>1 DEF Send
<1> QED BY <1>1, <1>2 DEF Observed, SubmitsOne

\* What is seen of a worker's step.
LEMMA WorkerObserved ==
  ASSUME TypeOK, Inv, NEW w \in Workers, WorkerStep(w)
  PROVE  Observed
<1>1. ASSUME UNCHANGED <<rec, sends, decided>>
      PROVE  Observed
  BY <1>1 DEF Observed, Quiet
<1>2. CASE \/ \E m \in Messages : StartJob(w, m)
           \/ LoadForClaim(w) \/ CheckConsent(w) \/ CheckGate(w) \/ RevertLoad(w)
           \/ Recheck(w) \/ SettleLoad(w) \/ Alert(w)
  BY <1>1, <1>2 DEF StartJob, LoadForClaim, CheckConsent, CheckGate, RevertLoad, Recheck,
                    SettleLoad, Alert, historyVars
<1> QED BY <1>2, ClaimObserved, RevertSaveObserved, BeginSendingObserved, SendObserved,
           SettleSaveObserved DEF WorkerStep

\* What is seen of a scanner's step.
LEMMA ScannerObserved ==
  ASSUME TypeOK, Inv, NEW s \in Scanners, ScannerStep(s)
  PROVE  Observed
<1>0. s \in Actors
  BY DEF Actors
<1>1. CASE \E m \in Messages : ScanLoad(s, m)
  BY <1>1 DEF ScanLoad, historyVars, Observed, Quiet
<1>2. CASE ScanSave(s)
  <2> PICK m \in Messages : m = job[s]
    BY <1>0, <1>2, BusyActor DEF ScanSave
  <2>1. /\ pc[s] \in Saving /\ snap[s].state \in {"claimed", "sending"}
        /\ UNCHANGED <<sends, decided>>
    BY <1>0, <1>2 DEF ScanSave, Saving, historyVars, Inv, ActorInv, DecisionInv
  <2>2. CASE \E to : /\ to = (IF snap[s].state = "claimed" THEN "pending" ELSE "uncertain")
                     /\ Write(s, to, NoLease, FALSE)
    <3> PICK to : /\ to = (IF snap[s].state = "claimed" THEN "pending" ELSE "uncertain")
                  /\ Write(s, to, NoLease, FALSE)
      BY <2>2
    <3> QED BY <1>0, <2>1, SaveObserved
  <2>3. CASE UNCHANGED rec
    BY <2>1, <2>3 DEF Observed, Quiet
  <2> QED BY <1>2, <2>2, <2>3 DEF ScanSave, WriteAndRelease
<1> QED BY <1>1, <1>2 DEF ScannerStep

\* What is seen of an operator's step.
LEMMA OperatorObserved ==
  ASSUME TypeOK, Inv, NEW o \in Operators, OperatorStep(o)
  PROVE  Observed
<1>0. o \in Actors
  BY DEF Actors
<1>1. CASE ResolveLoad(o) \/ \E m \in Messages, d \in Decisions : StartResolve(o, m, d)
  BY <1>1 DEF ResolveLoad, StartResolve, historyVars, Observed, Quiet
<1>2. CASE ResolveSave(o)
  <2> PICK m \in Messages : m = job[o]
    BY <1>0, <1>2, BusyActor DEF ResolveSave
  <2>1. /\ pc[o] \in Saving /\ snap[o].state = "uncertain" /\ goal[o] \in Decisions
        /\ UNCHANGED sends
    BY <1>0, <1>2 DEF ResolveSave, Saving, Inv, ActorInv, DecisionInv, TypeOK
  <2>2. CASE Write(o, goal[o], NoLease, FALSE) /\ decided' = decided \cup {job[o]}
    BY <1>0, <2>1, <2>2, SaveObserved
  <2>3. CASE UNCHANGED <<rec, decided>>
    BY <2>1, <2>3 DEF Observed, Quiet
  <2> QED BY <1>2, <2>2, <2>3 DEF ResolveSave, WriteAndRelease
<1> QED BY <1>1, <1>2 DEF OperatorStep

\* Nothing is seen of the environment.
LEMMA EnvironmentObserved ==
  ASSUME TypeOK, EnvironmentStep
  PROVE  Observed
<1>1. CASE \E m \in Messages : ExpireLease(m)
  BY <1>1 DEF ExpireLease, historyVars, TypeOK, Records, Observed, Quiet
<1>2. CASE \/ PauseOrResume \/ CancelCampaign
           \/ \E m \in Messages : Withdraw(m)
           \/ \E a \in Actors : Crash(a)
  BY <1>2 DEF PauseOrResume, CancelCampaign, Withdraw, Crash, historyVars, Observed, Quiet
<1> QED BY <1>1, <1>2 DEF EnvironmentStep

\* What is seen of any step.
LEMMA StepObserved ==
  ASSUME TypeOK, Inv, [Next]_vars
  PROVE  Observed
<1>1. CASE UNCHANGED vars
  BY <1>1 DEF vars, historyVars, Observed, Quiet
<1> QED BY <1>1, WorkerObserved, ScannerObserved, OperatorObserved, EnvironmentObserved DEF Next

\* delivery.ts:84-88,193.  No step takes a recorded outcome back, and an
\* uncertain one changes only by an operator's decision.
THEOREM OutcomesStay == Spec => OutcomesAreFinal
<1> DEFINE Kept ==
      \A m \in Messages :
        /\ rec[m].state \in Terminal /\ rec'[m].state # rec[m].state
             => rec[m].state = "uncertain" /\ m \in decided'
        /\ rec[m].state = "sending"
             => rec'[m].state \in {"sending", "sent", "rejected", "uncertain"}
<1>1. TypeOK /\ Inv /\ [Next]_vars => Kept
  <2> SUFFICES ASSUME TypeOK, Inv, [Next]_vars PROVE Kept
    OBVIOUS
  <2>1. CASE Quiet
    BY <2>1 DEF Quiet, Terminal
  <2>2. CASE \E m \in Messages : SavesOne(m)
    <3> PICK m \in Messages : SavesOne(m)
      BY <2>2
    <3> QED BY DEF SavesOne, Moves, Terminal
  <2>3. CASE \E m \in Messages : SubmitsOne(m)
    BY <2>3 DEF SubmitsOne, Terminal
  <2> QED BY <2>1, <2>2, <2>3, StepObserved DEF Observed
<1>2. TypeOK /\ Inv /\ [Next]_vars => [Kept]_vars
  BY <1>1
<1> QED BY <1>2, Invariance, TypeCorrect, PTL DEF Spec, OutcomesAreFinal

(* The refinement.                                                              *)

\* How a save of one record moves the promise's fate of its message.
LEMMA FateMoves ==
  ASSUME NEW m \in Messages, \A n \in Messages \ {m} : rec'[n].state = rec[n].state,
         NEW to, to = IF rec'[m].state \in {"pending", "claimed"}
                      THEN "queued" ELSE rec'[m].state
  PROVE  fate' = [fate EXCEPT ![m] = to]
<1>1. \A n \in Messages : fate'[n] = [fate EXCEPT ![m] = to][n]
  BY DEF fate
<1>2. fate = [n \in Messages |-> fate[n]] /\ fate' = [n \in Messages |-> fate'[n]]
  BY DEF fate
<1> QED BY <1>1, <1>2

\* A step of which nothing is seen is a stutter of the promise.
LEMMA QuietPromise ==
  ASSUME Quiet
  PROVE  UNCHANGED <<fate, begun, sends>>
BY DEF Quiet, fate, begun

\* A save is a step of the promise, or a stutter.
LEMMA SavePromise ==
  ASSUME Inv, NEW m \in Messages, SavesOne(m)
  PROVE  Promise!Next \/ UNCHANGED <<fate, begun, sends>>
<1>1. \A n \in Messages \ {m} : rec'[n].state = rec[n].state /\ UNCHANGED sends
  BY DEF SavesOne
<1>2. CASE /\ rec[m].state \in {"pending", "claimed"} /\ rec'[m].state \in {"pending", "claimed"}
           /\ UNCHANGED decided
  BY <1>1, <1>2 DEF SavesOne, fate, begun
<1>3. CASE /\ rec[m].state = "claimed" /\ rec'[m].state = "sending"
           /\ UNCHANGED decided
  <2>1. fate' = [fate EXCEPT ![m] = "sending"] /\ fate[m] = "queued"
    BY <1>1, <1>3, FateMoves DEF fate
  <2>2. begun' = begun \cup {m}
    BY <1>1, <1>3 DEF begun
  <2> QED BY <2>1, <2>2 DEF SavesOne, Promise!Next, Promise!Begin
<1>4. CASE /\ rec[m].state = "claimed" /\ rec'[m].state = "suppressed"
           /\ UNCHANGED decided
  <2>1. fate' = [fate EXCEPT ![m] = "suppressed"] /\ fate[m] = "queued"
    BY <1>1, <1>4, FateMoves DEF fate
  <2>2. begun' = begun
    BY <1>1, <1>4 DEF begun
  <2> QED BY <2>1, <2>2 DEF SavesOne, Promise!Next, Promise!Suppress
<1>5. CASE /\ rec[m].state = "sending" /\ rec'[m].state \in {"sent", "rejected", "uncertain"}
           /\ rec'[m].state # "uncertain" => sends[m] = 1
           /\ UNCHANGED decided
  <2>1. fate' = [fate EXCEPT ![m] = rec'[m].state] /\ fate[m] = "sending"
    BY <1>1, <1>5, FateMoves DEF fate
  <2>2. begun' = begun
    BY <1>1, <1>5 DEF begun
  <2> QED BY <1>5, <2>1, <2>2 DEF SavesOne, Promise!Next, Promise!Conclude
<1>6. CASE /\ rec[m].state = "uncertain" /\ rec'[m].state \in Decisions
           /\ decided' = decided \cup {m}
  <2>1. fate' = [fate EXCEPT ![m] = rec'[m].state] /\ fate[m] = "uncertain"
    BY <1>1, <1>6, FateMoves DEF fate, Decisions
  <2>2. begun' = begun
    BY <1>1, <1>6 DEF begun
  <2> QED BY <1>6, <2>1, <2>2 DEF SavesOne, Decisions, Promise!Next, Promise!Resolve
<1> QED BY <1>2, <1>3, <1>4, <1>5, <1>6 DEF SavesOne, Moves

\* A submission is the promise's.
LEMMA SubmitPromise ==
  ASSUME NEW m \in Messages, SubmitsOne(m)
  PROVE  Promise!Next
<1>1. UNCHANGED <<fate, begun>>
  BY DEF SubmitsOne, fate, begun
<1> QED BY <1>1 DEF SubmitsOne, Promise!Next, Promise!Transmit

\* The delivery code implements the promise of one submission per message:
\* whatever workers, redelivery, leases, crashes and operators do, what is
\* seen of a message is a behaviour of SingleSubmission.
THEOREM Refinement == Spec => PromiseSpec
<1>1. Init => Promise!Init
  BY DEF Init, Unclaimed, Promise!Init, fate, begun
<1>2. TypeOK /\ Inv /\ [Next]_vars => [Promise!Next]_(Promise!vars)
  <2> SUFFICES ASSUME TypeOK, Inv, [Next]_vars
               PROVE  Promise!Next \/ UNCHANGED <<fate, begun, sends>>
    BY DEF Promise!vars
  <2> QED BY StepObserved, QuietPromise, SavePromise, SubmitPromise DEF Observed
<1> QED BY <1>1, <1>2, Invariance, TypeCorrect, PTL DEF Spec, PromiseSpec, Promise!Spec
================================================================================
