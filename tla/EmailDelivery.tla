---------------------------- MODULE EmailDelivery ----------------------------
(***************************************************************************)
(* Durable e-mail delivery of @zeruxjs/queue: the processor every BullMQ   *)
(* worker runs for a job 'email.deliver' (delivery.ts), the recovery       *)
(* scanner (recovery.ts) and the operator's manual resolution              *)
(* (delivery.ts, resolveUncertainEmailDelivery).  They share one record    *)
(* per message in a store whose only write is a compare-and-swap on the    *)
(* record's version.                                                       *)
(*                                                                         *)
(* An action is the code between two awaits.  What is abstracted:          *)
(*   - a token (a fresh UUID) is named by the version its claim writes;    *)
(*   - expiresAt > now() is the flag `live' of the record, which time may  *)
(*     clear at any moment (ExpireLease) and a new claim sets;             *)
(*   - a read that throws and the 12th lost compare-and-swap have the same *)
(*     handler in the code, so the retry counters are left out: every read *)
(*     may throw;                                                          *)
(*   - an actor that finishes, throws or crashes goes back to "idle".      *)
(*                                                                         *)
(* The definitions whose comment starts with `Fault' are used by nothing:  *)
(* each is a plausible bug of the definition below it, kept to confirm     *)
(* that a property is able to fail.                                        *)
(***************************************************************************)
EXTENDS Naturals

CONSTANTS
  Messages,       \* durable message ids
  Marketing,      \* the messages with purpose 'marketing'
  Workers,        \* concurrent runs of the job processor
  Scanners,       \* runs of the recovery scanner
  Operators,      \* concurrent calls of resolveUncertainEmailDelivery
  NoMessage,      \* what an idle actor works on
  MaxDeliveries   \* bound: times the queue hands one message to a worker

ASSUME MessagesAssumption == Marketing \subseteq Messages /\ NoMessage \notin Messages
ASSUME ActorsAssumption ==
  /\ Workers \cap Scanners = {}
  /\ Workers \cap Operators = {}
  /\ Scanners \cap Operators = {}
ASSUME BoundAssumption == MaxDeliveries \in Nat

Actors == Workers \cup Scanners \cup Operators

Terminal == {"sent", "suppressed", "uncertain", "rejected"}
States == {"pending", "claimed", "sending"} \cup Terminal
Decisions == {"sent", "suppressed", "rejected"}
Goals == Terminal \cup {"none", "fallback"}
PCs == {"idle", "load", "claim", "consent", "gate", "recheck", "begin", "send",
        "settleLoad", "settleSave", "revertLoad", "revertSave", "alert",
        "scanSave", "resolveLoad", "resolveSave"}

NoLease == 0
Records == [version : Nat, state : States, lease : Nat, live : BOOLEAN]

VARIABLES
  rec,         \* rec[m]: the durable record of m
  pc,          \* pc[a]: the await at which a is suspended
  job,         \* job[a]: the message a works on
  snap,        \* snap[a]: the record a last loaded
  token,       \* token[a]: the lease token of the claim a won, or NoLease
  goal,        \* goal[a]: the state a is about to record
  deliveries,  \* deliveries[m]: jobs started for m
  consent,     \* consent[m]: isSubscribed and not isSuppressed
  gate,        \* the live campaign gate: "allow", "defer" or "suppress"
  sends,       \* history: SMTP submissions of m
  accepted,    \* history: messages the SMTP provider took
  alerted,     \* history: messages onUncertain was called for
  decided,     \* history: messages an operator resolved
  barred       \* history: messages refused while no claim was outstanding

actorVars == <<pc, job, snap, token, goal>>
policyVars == <<consent, gate>>
historyVars == <<sends, accepted, alerted, decided, barred>>
vars == <<rec, actorVars, deliveries, policyVars, historyVars>>

Unclaimed == [version |-> 1, state |-> "pending", lease |-> NoLease, live |-> FALSE]

Init ==
  /\ rec = [m \in Messages |-> Unclaimed]
  /\ pc = [a \in Actors |-> "idle"]
  /\ job = [a \in Actors |-> NoMessage]
  /\ snap = [a \in Actors |-> Unclaimed]
  /\ token = [a \in Actors |-> NoLease]
  /\ goal = [a \in Actors |-> "none"]
  /\ deliveries = [m \in Messages |-> 0]
  /\ consent = [m \in Messages |-> TRUE]
  /\ gate = "allow"
  /\ sends = [m \in Messages |-> 0]
  /\ accepted = {}
  /\ alerted = {}
  /\ decided = {}
  /\ barred = {}

------------------------------------------------------------------------------
(* The store and the actors' control.                                      *)

\* An actor returns, throws, or dies with everything it holds in memory.
Finish(a) ==
  /\ pc' = [pc EXCEPT ![a] = "idle"]
  /\ job' = [job EXCEPT ![a] = NoMessage]
  /\ snap' = [snap EXCEPT ![a] = Unclaimed]
  /\ token' = [token EXCEPT ![a] = NoLease]
  /\ goal' = [goal EXCEPT ![a] = "none"]

Goto(a, next) ==
  /\ pc' = [pc EXCEPT ![a] = next]
  /\ UNCHANGED <<job, snap, token, goal>>

GotoWithGoal(a, next, state) ==
  /\ pc' = [pc EXCEPT ![a] = next]
  /\ goal' = [goal EXCEPT ![a] = state]
  /\ UNCHANGED <<job, snap, token>>

\* The record a load returns is what the actor decides on until its save.
GotoWithRecord(a, next) ==
  /\ pc' = [pc EXCEPT ![a] = next]
  /\ snap' = [snap EXCEPT ![a] = rec[job[a]]]
  /\ UNCHANGED <<job, token, goal>>

\* Fault of Unchanged: UPDATE ... WHERE id = ?, without the version.
UpdateById(a) == rec[job[a]].version >= snap[a].version

\* The store's conditional update would be accepted.
Unchanged(a) == rec[job[a]].version = snap[a].version

\* The conditional update: the state and lease change, the version advances.
Write(a, state, lease, live) ==
  /\ Unchanged(a)
  /\ rec' = [rec EXCEPT ![job[a]] =
       [version |-> snap[a].version + 1, state |-> state, lease |-> lease, live |-> live]]

WriteAndRelease(a, state) == Write(a, state, NoLease, FALSE)

OwnLease(a, record) == record.lease = token[a] /\ token[a] # NoLease

------------------------------------------------------------------------------
(* acquire: claim the message, or record that a dead sender is uncertain.  *)

\* BullMQ hands the job to a worker: at least once, possibly to two at a time.
StartJob(w, m) ==
  /\ pc[w] = "idle"
  /\ deliveries[m] < MaxDeliveries
  /\ deliveries' = [deliveries EXCEPT ![m] = @ + 1]
  /\ pc' = [pc EXCEPT ![w] = "load"]
  /\ job' = [job EXCEPT ![w] = m]
  /\ UNCHANGED <<rec, snap, token, goal, policyVars, historyVars>>

Busy(record) == record.state \in {"claimed", "sending"} /\ record.live

LoadForClaim(w) ==
  /\ pc[w] = "load"
  /\ \/ /\ rec[job[w]].state \notin Terminal
        /\ ~Busy(rec[job[w]])
        /\ GotoWithRecord(w, "claim")
     \/ Finish(w)   \* already terminal, busy, or the store failed
  /\ UNCHANGED <<rec, deliveries, policyVars, historyVars>>

\* Fault of ClaimedState: an expired attempt is claimed and tried again.
RetriedState(w) == "claimed"

\* What the claim records, by the state it loaded: a dead sender may have
\* reached SMTP.
ClaimedState(w) == IF snap[w].state = "sending" THEN "uncertain" ELSE "claimed"

ClaimWrite(w) ==
  IF ClaimedState(w) = "claimed"
  THEN Write(w, "claimed", snap[w].version + 1, TRUE)
  ELSE WriteAndRelease(w, "uncertain")

Claim(w) ==
  /\ pc[w] = "claim"
  /\ \/ /\ ClaimWrite(w)
        /\ ClaimedState(w) = "uncertain"
        /\ Goto(w, "alert")
     \/ /\ ClaimWrite(w)
        /\ ClaimedState(w) = "claimed"
        /\ pc' = [pc EXCEPT ![w] = "consent"]
        /\ token' = [token EXCEPT ![w] = snap[w].version + 1]
        /\ UNCHANGED <<job, snap, goal>>
     \/ /\ ClaimWrite(w)              \* committed, the acknowledgement lost
        /\ Finish(w)
     \/ /\ ~Unchanged(w)
        /\ Goto(w, "load")
        /\ UNCHANGED rec
  /\ UNCHANGED <<deliveries, policyVars, historyVars>>

------------------------------------------------------------------------------
(* The checks between the claim and SMTP.                                  *)

CheckConsent(w) ==
  /\ pc[w] = "consent"
  /\ \/ job[w] \notin Marketing /\ Goto(w, "recheck")
     \/ job[w] \in Marketing /\ consent[job[w]] /\ Goto(w, "gate")
     \/ job[w] \in Marketing /\ ~consent[job[w]] /\ GotoWithGoal(w, "settleLoad", "suppressed")
     \/ job[w] \in Marketing /\ Goto(w, "revertLoad")   \* the preference read failed
  /\ UNCHANGED <<rec, deliveries, policyVars, historyVars>>

CheckGate(w) ==
  /\ pc[w] = "gate"
  /\ \/ gate = "allow" /\ Goto(w, "recheck")
     \/ gate = "suppress" /\ GotoWithGoal(w, "settleLoad", "suppressed")
     \/ Goto(w, "revertLoad")          \* deferred, or the gate failed
  /\ UNCHANGED <<rec, deliveries, policyVars, historyVars>>

\* catch: nothing reached SMTP, so the worker's own claim goes back.
RevertLoad(w) ==
  /\ pc[w] = "revertLoad"
  /\ \/ /\ rec[job[w]].state = "claimed"
        /\ OwnLease(w, rec[job[w]])
        /\ GotoWithRecord(w, "revertSave")
     \/ Finish(w)   \* no longer its claim, or the store failed
  /\ UNCHANGED <<rec, deliveries, policyVars, historyVars>>

RevertSave(w) ==
  /\ pc[w] = "revertSave"
  /\ IF Unchanged(w) THEN WriteAndRelease(w, "pending") ELSE UNCHANGED rec
  /\ Finish(w)
  /\ UNCHANGED <<deliveries, policyVars, historyVars>>

\* Fault of Recheck: the state is compared, the lease is not.
RecheckStateOnly(w) ==
  /\ pc[w] = "recheck"
  /\ \/ /\ rec[job[w]].state = "claimed"
        /\ GotoWithRecord(w, "begin")
     \/ Finish(w)
  /\ UNCHANGED <<rec, deliveries, policyVars, historyVars>>

Recheck(w) ==
  /\ pc[w] = "recheck"
  /\ \/ /\ rec[job[w]].state = "claimed"
        /\ OwnLease(w, rec[job[w]])
        /\ rec[job[w]].live
        /\ GotoWithRecord(w, "begin")
     \/ Finish(w)   \* the lease is lost or expired, or the store failed
  /\ UNCHANGED <<rec, deliveries, policyVars, historyVars>>

------------------------------------------------------------------------------
(* The single submission.                                                  *)

\* 'sending' is durable before SMTP begins; the lease is kept, not renewed.
BeginSending(w) ==
  /\ pc[w] = "begin"
  /\ \/ /\ Write(w, "sending", snap[w].lease, rec[job[w]].live)
        /\ Goto(w, "send")
     \/ /\ Write(w, "sending", snap[w].lease, rec[job[w]].live)
        /\ Finish(w)                   \* the acknowledgement was lost
     \/ /\ ~Unchanged(w)
        /\ Finish(w)
        /\ UNCHANGED rec
  /\ UNCHANGED <<deliveries, policyVars, historyVars>>

\* options.send: what the provider did, and what the caller learns of it.
Send(w) ==
  /\ pc[w] = "send"
  /\ sends' = [sends EXCEPT ![job[w]] = @ + 1]
  /\ \/ /\ accepted' = accepted \cup {job[w]}
        /\ \E outcome \in {"sent", "uncertain"} : GotoWithGoal(w, "settleLoad", outcome)
     \/ /\ accepted' = accepted
        /\ \E outcome \in {"rejected", "uncertain"} : GotoWithGoal(w, "settleLoad", outcome)
  /\ UNCHANGED <<rec, deliveries, policyVars, alerted, decided, barred>>

------------------------------------------------------------------------------
(* transition: record the outcome under the same lease token.              *)

\* Fault of Outcome: what could not be recorded is taken for a refusal.
OutcomeRefused(w) == IF goal[w] = "fallback" THEN "rejected" ELSE goal[w]

Outcome(w) == IF goal[w] = "fallback" THEN "uncertain" ELSE goal[w]

\* Fault of TransitionFailed: onUncertain runs whether or not it was recorded.
AlertUnrecorded(w) ==
  \/ goal[w] = "suppressed" /\ Goto(w, "revertLoad")
  \/ goal[w] = "fallback" /\ Goto(w, "alert")
  \/ goal[w] \in {"sent", "rejected", "uncertain"} /\ GotoWithGoal(w, "settleLoad", "fallback")

\* The handler around transition: a refused suppression is reverted; a
\* refused outcome is recorded as uncertain, once.
TransitionFailed(w) ==
  \/ goal[w] = "suppressed" /\ Goto(w, "revertLoad")
  \/ goal[w] = "fallback" /\ Finish(w)
  \/ goal[w] \in {"sent", "rejected", "uncertain"} /\ GotoWithGoal(w, "settleLoad", "fallback")

SettleLoad(w) ==
  /\ pc[w] = "settleLoad"
  /\ \/ OwnLease(w, rec[job[w]]) /\ GotoWithRecord(w, "settleSave")
     \/ TransitionFailed(w)   \* the lease is lost, or the store failed
  /\ UNCHANGED <<rec, deliveries, policyVars, historyVars>>

SettleSave(w) ==
  /\ pc[w] = "settleSave"
  /\ \/ /\ WriteAndRelease(w, Outcome(w))
        /\ IF Outcome(w) = "uncertain" THEN Goto(w, "alert") ELSE Finish(w)
     \/ /\ WriteAndRelease(w, Outcome(w))
        /\ TransitionFailed(w)         \* the acknowledgement was lost
     \/ /\ ~Unchanged(w)
        /\ Goto(w, "settleLoad")
        /\ UNCHANGED rec
     \/ /\ TransitionFailed(w)         \* the store failed, nothing committed
        /\ UNCHANGED rec
  /\ UNCHANGED <<deliveries, policyVars, historyVars>>

Alert(w) ==
  /\ pc[w] = "alert"
  /\ alerted' = alerted \cup {job[w]}
  /\ Finish(w)
  /\ UNCHANGED <<rec, deliveries, policyVars, sends, accepted, decided, barred>>

------------------------------------------------------------------------------
(* The recovery scanner, one row at a time (dryRun = false).               *)

\* Fault of ScanLoad: an expired claim is not collected.
ScanAttemptsOnly(s, m) ==
  /\ pc[s] = "idle"
  /\ rec[m].state = "sending"
  /\ rec[m].lease # NoLease /\ ~rec[m].live
  /\ pc' = [pc EXCEPT ![s] = "scanSave"]
  /\ job' = [job EXCEPT ![s] = m]
  /\ snap' = [snap EXCEPT ![s] = rec[m]]
  /\ UNCHANGED <<rec, token, goal, deliveries, policyVars, historyVars>>

ScanLoad(s, m) ==
  /\ pc[s] = "idle"
  /\ rec[m].state \in {"claimed", "sending"}
  /\ rec[m].lease # NoLease /\ ~rec[m].live
  /\ pc' = [pc EXCEPT ![s] = "scanSave"]
  /\ job' = [job EXCEPT ![s] = m]
  /\ snap' = [snap EXCEPT ![s] = rec[m]]
  /\ UNCHANGED <<rec, token, goal, deliveries, policyVars, historyVars>>

\* Fault of ScanSave: an expired attempt is returned to the queue as well.
ScanSaveReopens(s) ==
  /\ pc[s] = "scanSave"
  /\ IF Unchanged(s) THEN WriteAndRelease(s, "pending") ELSE UNCHANGED rec
  /\ Finish(s)
  /\ UNCHANGED <<deliveries, policyVars, historyVars>>

ScanSave(s) ==
  /\ pc[s] = "scanSave"
  /\ IF Unchanged(s)
     THEN WriteAndRelease(s, IF snap[s].state = "claimed" THEN "pending" ELSE "uncertain")
     ELSE UNCHANGED rec
  /\ Finish(s)
  /\ UNCHANGED <<deliveries, policyVars, historyVars>>

------------------------------------------------------------------------------
(* resolveUncertainEmailDelivery.                                          *)

StartResolve(o, m, decision) ==
  /\ pc[o] = "idle"
  /\ pc' = [pc EXCEPT ![o] = "resolveLoad"]
  /\ job' = [job EXCEPT ![o] = m]
  /\ goal' = [goal EXCEPT ![o] = decision]
  /\ UNCHANGED <<rec, snap, token, deliveries, policyVars, historyVars>>

\* Fault of ResolveLoad: any record may be resolved.
ResolveAny(o) ==
  /\ pc[o] = "resolveLoad"
  /\ GotoWithRecord(o, "resolveSave")
  /\ UNCHANGED <<rec, deliveries, policyVars, historyVars>>

ResolveLoad(o) ==
  /\ pc[o] = "resolveLoad"
  /\ IF rec[job[o]].state = "uncertain"
     THEN GotoWithRecord(o, "resolveSave")
     ELSE Finish(o)
  /\ UNCHANGED <<rec, deliveries, policyVars, historyVars>>

ResolveSave(o) ==
  /\ pc[o] = "resolveSave"
  /\ \/ /\ WriteAndRelease(o, goal[o])
        /\ decided' = decided \cup {job[o]}
        /\ Finish(o)
     \/ /\ ~Unchanged(o)
        /\ Goto(o, "resolveLoad")
        /\ UNCHANGED <<rec, decided>>
  /\ UNCHANGED <<deliveries, policyVars, sends, accepted, alerted, barred>>

------------------------------------------------------------------------------
(* The environment: crashes, time, recipients and the campaign's owner.    *)

\* The process dies, or the store fails where the code does not catch it.
Crash(a) ==
  /\ pc[a] # "idle"
  /\ Finish(a)
  /\ UNCHANGED <<rec, deliveries, policyVars, historyVars>>

ExpireLease(m) ==
  /\ rec[m].live
  /\ rec' = [rec EXCEPT ![m].live = FALSE]
  /\ UNCHANGED <<actorVars, deliveries, policyVars, historyVars>>

Withdraw(m) ==
  /\ m \in Marketing /\ consent[m]
  /\ consent' = [consent EXCEPT ![m] = FALSE]
  /\ barred' = IF rec[m].state = "pending" THEN barred \cup {m} ELSE barred
  /\ UNCHANGED <<rec, actorVars, deliveries, gate, sends, accepted, alerted, decided>>

PauseOrResume ==
  /\ gate \in {"allow", "defer"}
  /\ gate' = IF gate = "allow" THEN "defer" ELSE "allow"
  /\ UNCHANGED <<rec, actorVars, deliveries, consent, historyVars>>

CancelCampaign ==
  /\ gate # "suppress"
  /\ gate' = "suppress"
  /\ barred' = barred \cup {m \in Marketing : rec[m].state = "pending"}
  /\ UNCHANGED <<rec, actorVars, deliveries, consent, sends, accepted, alerted, decided>>

------------------------------------------------------------------------------
WorkerStep(w) ==
  \/ \E m \in Messages : StartJob(w, m)
  \/ LoadForClaim(w) \/ Claim(w)
  \/ CheckConsent(w) \/ CheckGate(w) \/ RevertLoad(w) \/ RevertSave(w) \/ Recheck(w)
  \/ BeginSending(w) \/ Send(w)
  \/ SettleLoad(w) \/ SettleSave(w) \/ Alert(w)

ScannerStep(s) == (\E m \in Messages : ScanLoad(s, m)) \/ ScanSave(s)

OperatorStep(o) ==
  \/ \E m \in Messages, decision \in Decisions : StartResolve(o, m, decision)
  \/ ResolveLoad(o) \/ ResolveSave(o)

EnvironmentStep ==
  \/ \E a \in Actors : Crash(a)
  \/ \E m \in Messages : ExpireLease(m) \/ Withdraw(m)
  \/ PauseOrResume \/ CancelCampaign

Next ==
  \/ \E w \in Workers : WorkerStep(w)
  \/ \E s \in Scanners : ScannerStep(s)
  \/ \E o \in Operators : OperatorStep(o)
  \/ EnvironmentStep

Spec == Init /\ [][Next]_vars

\* Time passes, and the host keeps running the recovery scanner on campaigns
\* that hold every message: the queue need not deliver again, and workers and
\* operators may stop anywhere.
FairSpec ==
  /\ Spec
  /\ \A m \in Messages : WF_vars(ExpireLease(m))
  /\ \A m \in Messages : SF_vars(\E s \in Scanners : ScanLoad(s, m))
  /\ \A s \in Scanners : SF_vars(ScanSave(s))

------------------------------------------------------------------------------
(* Properties.                                                             *)

\* Every variable keeps its shape; an idle actor holds no message, and one
\* that is to record an outcome knows which.
TypeOK ==
  /\ rec \in [Messages -> Records]
  /\ pc \in [Actors -> PCs]
  /\ job \in [Actors -> Messages \cup {NoMessage}]
  /\ snap \in [Actors -> Records]
  /\ token \in [Actors -> Nat]
  /\ goal \in [Actors -> Goals]
  /\ deliveries \in [Messages -> Nat]
  /\ consent \in [Messages -> BOOLEAN]
  /\ gate \in {"allow", "defer", "suppress"}
  /\ sends \in [Messages -> Nat]
  /\ accepted \subseteq Messages
  /\ alerted \subseteq Messages
  /\ decided \subseteq Messages
  /\ barred \subseteq Messages
  /\ \A a \in Actors :
       /\ job[a] = NoMessage <=> pc[a] = "idle"
       /\ pc[a] \in {"settleLoad", "settleSave"} => goal[a] # "none"
       /\ pc[a] \in {"resolveLoad", "resolveSave"} => goal[a] \in Decisions

\* delivery.ts:51-52.  However often the queue redelivers, workers crash,
\* leases expire and answers are lost, SMTP sees a message at most once.
AtMostOneSend == \A m \in Messages : sends[m] <= 1

\* delivery.ts:133-138.  When SMTP has seen a message, the durable record
\* says so: it can never again be claimed.
SendIsRecordedFirst ==
  \A m \in Messages : sends[m] > 0 => rec[m].state \notin {"pending", "claimed"}

\* delivery.ts:139-158.  A terminal state nobody decided by hand is what
\* happened: sent was accepted, rejected was refused, suppressed never left.
OutcomeIsTrue ==
  \A m \in Messages \ decided :
    /\ rec[m].state = "sent" => m \in accepted
    /\ rec[m].state = "rejected" => sends[m] = 1 /\ m \notin accepted
    /\ rec[m].state = "suppressed" => sends[m] = 0

\* delivery.ts:102,147,157.  onUncertain is called only for a message whose
\* record is uncertain, or was before an operator resolved it.
AlertIsRecorded ==
  \A m \in alerted : rec[m].state = "uncertain" \/ m \in decided

\* delivery.ts:107-134.  A recipient who opts out, or a campaign cancelled,
\* while no worker holds the message is never mailed by a worker that
\* checked earlier under a claim it has lost.
BarredIsNeverSent == \A m \in barred : sends[m] = 0

\* delivery.ts:84-88,193.  Outcomes are final; only an operator changes an
\* uncertain one, and an attempt that has begun is never undone.
OutcomesAreFinal ==
  [][\A m \in Messages :
       /\ rec[m].state \in Terminal /\ rec'[m].state # rec[m].state
            => rec[m].state = "uncertain" /\ m \in decided'
       /\ rec[m].state = "sending"
            => rec'[m].state \in {"sending", "sent", "rejected", "uncertain"}]_vars

\* recovery.ts:19-30.  A claim or an attempt whose worker died does not
\* stay open: the scanner returns the one and closes the other.
NothingStaysOpen == \A m \in Messages :
  /\ rec[m].state = "sending" ~> rec[m].state \in Terminal
  /\ rec[m].state = "claimed" ~> rec[m].state # "claimed"

------------------------------------------------------------------------------
(* The promise: one submission per message (module SingleSubmission).      *)

fate == [m \in Messages |->
          IF rec[m].state \in {"pending", "claimed"} THEN "queued" ELSE rec[m].state]

begun == {m \in Messages : rec[m].state \in {"sending", "sent", "rejected", "uncertain"}}
           \cup decided

Promise == INSTANCE SingleSubmission WITH
  Messages <- Messages, fate <- fate, begun <- begun, sends <- sends
PromiseSpec == Promise!Spec
==============================================================================
