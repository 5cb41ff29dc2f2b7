---------------------------- MODULE PublishOutbox ----------------------------
(***************************************************************************)
(* The publish-intent ledger of @zeruxjs/queue (outbox.ts): an intent is   *)
(* durable before the BullMQ job is, a dispatcher leases it, publishes the *)
(* job and settles it, and an operator's redriver reopens the intent of a  *)
(* job that was lost.  The dispatcher reads the delivery record; what the  *)
(* workers do to that record is module EmailDelivery, of which only the    *)
(* moves between states are kept here (EmailDelivery_proofs, Moves).       *)
(*                                                                         *)
(* An action is the code between two awaits.  A conditional update on a    *)
(* version is modelled by `fresh': the actors whose loaded row nobody has  *)
(* replaced.  A lease token is named by the dispatcher that drew it: a     *)
(* dispatcher that starts over has lost its old token.  A lost update is   *)
(* retried by the code from the read, here by starting over.               *)
(*                                                                         *)
(* The definitions whose comment starts with `Fault' are used by nothing:  *)
(* each is a plausible bug of the definition below it.                     *)
(***************************************************************************)
EXTENDS Naturals

CONSTANTS
  Messages,        \* ids of durable delivery records
  Dispatchers,     \* concurrent runs of dispatch()
  Redrivers,       \* concurrent runs of redrive()
  NoMessage,       \* what an idle actor works on
  NoHolder,        \* the holder of a row that is not leased
  MaxDisturbances  \* bound: crashes, failed calls, lost answers, late leases

ASSUME NamesAssumption == NoMessage \notin Messages /\ NoHolder \notin Dispatchers
ASSUME DisjointAssumption == Dispatchers \cap Redrivers = {}
ASSUME BoundAssumption == MaxDisturbances \in Nat

Actors == Dispatchers \cup Redrivers
Statuses == {"none", "pending", "leased", "published", "abandoned"}
Goals == {"none", "deferred", "abandoned", "published", "release"}
Deliveries == {"pending", "claimed", "sending", "done"}
Jobs == {"none", "queued", "failed", "completed"}
PCs == {"idle", "claimSave", "check", "add", "settleLoad", "settleSave",
        "loadDelivery", "getJob", "reopenLoad", "reopenSave"}

VARIABLES
  status,      \* status[m]: the ledger's row, "none" before registration
  holder,      \* holder[m]: the dispatcher whose token the row carries
  live,        \* live[m]: the row's lease has not expired
  delivery,    \* delivery[m]: the delivery record's state
  jobs,        \* jobs[m]: the BullMQ job whose id is m
  pc,          \* pc[a]: the await at which a is suspended
  job,         \* job[a]: the message a works on
  goal,        \* goal[a]: what a dispatcher is about to settle
  fresh,       \* the actors whose loaded row is still the stored one
  offered,     \* history: messages the queue took since they were last opened
  disturbances \* how many there were so far

rowVars == <<status, holder, live>>
actorVars == <<pc, job, goal, fresh>>
vars == <<rowVars, delivery, jobs, actorVars, offered, disturbances>>

Init ==
  /\ status = [m \in Messages |-> "none"]
  /\ holder = [m \in Messages |-> NoHolder]
  /\ live = [m \in Messages |-> FALSE]
  /\ delivery = [m \in Messages |-> "pending"]
  /\ jobs = [m \in Messages |-> "none"]
  /\ pc = [a \in Actors |-> "idle"]
  /\ job = [a \in Actors |-> NoMessage]
  /\ goal = [a \in Actors |-> "none"]
  /\ fresh = {}
  /\ offered = {}
  /\ disturbances = 0

------------------------------------------------------------------------------
(* Control and the row.                                                    *)

Move(a, next, m, g) ==
  /\ pc' = [pc EXCEPT ![a] = next]
  /\ job' = [job EXCEPT ![a] = m]
  /\ goal' = [goal EXCEPT ![a] = g]

Goto(a, next) == Move(a, next, job[a], goal[a])
Settle(a, g) == Move(a, "settleLoad", job[a], g)
Finish(a) == Move(a, "idle", NoMessage, "none")

Disturbed ==
  /\ disturbances < MaxDisturbances
  /\ disturbances' = disturbances + 1

Calm == UNCHANGED disturbances

\* The conditional update: accepted, it leaves every other load stale.
Save(a, s, h, l) ==
  /\ a \in fresh
  /\ status' = [status EXCEPT ![job[a]] = s]
  /\ holder' = [holder EXCEPT ![job[a]] = h]
  /\ live' = [live EXCEPT ![job[a]] = l]
  /\ fresh' = {b \in fresh : job[b] # job[a]}

Release(a, s) == Save(a, s, NoHolder, FALSE)

\* register: the insert under the row's primary key, by the producer or by
\* the missing-intent scanner.
Register(m) ==
  /\ status[m] = "none"
  /\ status' = [status EXCEPT ![m] = "pending"]
  /\ UNCHANGED <<holder, live, delivery, jobs, actorVars, offered, disturbances>>

------------------------------------------------------------------------------
(* dispatch().                                                             *)

\* Fault of Due: a row leased by a dispatcher that died is not due again.
DuePendingOnly(m) == status[m] = "pending"

Due(m) == status[m] = "pending" \/ (status[m] = "leased" /\ ~live[m])

ClaimLoad(d, m) ==
  /\ pc[d] = "idle"
  /\ Due(m)
  /\ Move(d, "claimSave", m, "none")
  /\ fresh' = fresh \cup {d}
  /\ UNCHANGED <<rowVars, delivery, jobs, offered, disturbances>>

ClaimSave(d) ==
  /\ pc[d] = "claimSave"
  /\ \/ Save(d, "leased", d, TRUE) /\ Goto(d, "check") /\ Calm
     \/ Save(d, "leased", d, TRUE) /\ Finish(d) /\ Disturbed   \* the answer was lost
     \/ d \notin fresh /\ Finish(d) /\ UNCHANGED <<rowVars, fresh>> /\ Calm
  /\ UNCHANGED <<delivery, jobs, offered>>

\* Fault of CheckDelivery: whatever is not pending is abandoned.
CheckPendingOnly(d) ==
  /\ pc[d] = "check"
  /\ \/ delivery[job[d]] = "pending" /\ Goto(d, "add") /\ Calm
     \/ delivery[job[d]] # "pending" /\ Settle(d, "abandoned") /\ Calm
     \/ Settle(d, "release") /\ Disturbed
  /\ UNCHANGED <<rowVars, delivery, jobs, fresh, offered>>

CheckDelivery(d) ==
  /\ pc[d] = "check"
  /\ \/ delivery[job[d]] = "pending" /\ Goto(d, "add") /\ Calm
     \/ delivery[job[d]] = "claimed" /\ Settle(d, "deferred") /\ Calm
     \/ delivery[job[d]] \in {"sending", "done"} /\ Settle(d, "abandoned") /\ Calm
     \/ Settle(d, "release") /\ Disturbed                      \* the read failed
  /\ UNCHANGED <<rowVars, delivery, jobs, fresh, offered>>

\* BullMQ keeps one job per id: adding an id it still holds changes nothing.
Enqueue(m) ==
  /\ jobs' = [jobs EXCEPT ![m] = IF @ = "none" THEN "queued" ELSE @]
  /\ offered' = offered \cup {m}

\* Fault of Add: a failed publication is settled like an accepted one.
AddRegardless(d) ==
  /\ pc[d] = "add"
  /\ \/ Enqueue(job[d]) /\ Settle(d, "published") /\ Calm
     \/ UNCHANGED <<jobs, offered>> /\ Settle(d, "published") /\ Disturbed
  /\ UNCHANGED <<rowVars, delivery, fresh>>

Add(d) ==
  /\ pc[d] = "add"
  /\ \/ Enqueue(job[d]) /\ Settle(d, "published") /\ Calm
     \/ Enqueue(job[d]) /\ Settle(d, "release") /\ Disturbed   \* the answer was lost
     \/ UNCHANGED <<jobs, offered>> /\ Settle(d, "release") /\ Disturbed
  /\ UNCHANGED <<rowVars, delivery, fresh>>

\* A settlement that is refused or fails: catch gives the lease back, once.
Refused(d) == IF goal[d] = "release" THEN Finish(d) ELSE Settle(d, "release")

\* Fault of HoldsLease: the row is settled by id, whatever its lease.
HoldsAny(d) == TRUE

HoldsLease(d) ==
  status[job[d]] = "leased" /\ holder[job[d]] = d /\ live[job[d]]

SettleLoad(d) ==
  /\ pc[d] = "settleLoad"
  /\ \/ HoldsLease(d) /\ Goto(d, "settleSave") /\ fresh' = fresh \cup {d} /\ Calm
     \/ ~HoldsLease(d) /\ Refused(d) /\ UNCHANGED fresh /\ Calm
     \/ Refused(d) /\ UNCHANGED fresh /\ Disturbed             \* the read failed
  /\ UNCHANGED <<rowVars, delivery, jobs, offered>>

Settlement(g) == IF g \in {"deferred", "release"} THEN "pending" ELSE g

SettleSave(d) ==
  /\ pc[d] = "settleSave"
  /\ \/ Release(d, Settlement(goal[d])) /\ Finish(d) /\ Calm
     \/ Release(d, Settlement(goal[d])) /\ Refused(d) /\ Disturbed
     \/ d \notin fresh /\ Goto(d, "settleLoad") /\ UNCHANGED <<rowVars, fresh>> /\ Calm
     \/ Refused(d) /\ UNCHANGED <<rowVars, fresh>> /\ Disturbed
  /\ UNCHANGED <<delivery, jobs, offered>>

------------------------------------------------------------------------------
(* redrive(): four reads, each possibly stale when the next is made.       *)

RedriveGet(r, m) ==
  /\ pc[r] = "idle"
  /\ status[m] = "published"
  /\ Move(r, "loadDelivery", m, "none")
  /\ UNCHANGED <<rowVars, delivery, jobs, fresh, offered, disturbances>>

RedriveDelivery(r) ==
  /\ pc[r] = "loadDelivery"
  /\ IF delivery[job[r]] = "pending" THEN Goto(r, "getJob") ELSE Finish(r)
  /\ UNCHANGED <<rowVars, delivery, jobs, fresh, offered, disturbances>>

RedriveJob(r) ==
  /\ pc[r] = "getJob"
  /\ IF jobs[job[r]] = "none" THEN Goto(r, "reopenLoad") ELSE Finish(r)
  /\ UNCHANGED <<rowVars, delivery, jobs, fresh, offered, disturbances>>

ReopenLoad(r) ==
  /\ pc[r] = "reopenLoad"
  /\ \/ /\ status[job[r]] = "published"
        /\ Goto(r, "reopenSave")
        /\ fresh' = fresh \cup {r}
     \/ /\ status[job[r]] # "published"
        /\ Finish(r)
        /\ UNCHANGED fresh
  /\ UNCHANGED <<rowVars, delivery, jobs, offered, disturbances>>

ReopenSave(r) ==
  /\ pc[r] = "reopenSave"
  /\ \/ Release(r, "pending") /\ offered' = offered \ {job[r]} /\ Finish(r)
     \/ r \notin fresh /\ Goto(r, "reopenLoad") /\ UNCHANGED <<rowVars, fresh, offered>>
  /\ UNCHANGED <<delivery, jobs, disturbances>>

------------------------------------------------------------------------------
(* The environment: crashes, time, the workers and BullMQ.                 *)

Crash(a) ==
  /\ pc[a] # "idle"
  /\ Finish(a)
  /\ Disturbed
  /\ UNCHANGED <<rowVars, delivery, jobs, fresh, offered>>

\* The holder still works under its lease: it is late.
Held(m) == \E d \in Dispatchers : holder[m] = d /\ job[d] = m /\ pc[d] # "claimSave"

ExpireLease(m) ==
  /\ live[m]
  /\ live' = [live EXCEPT ![m] = FALSE]
  /\ IF Held(m) THEN Disturbed ELSE Calm
  /\ UNCHANGED <<status, holder, delivery, jobs, actorVars, offered>>

Deliver(m, from, to) ==
  /\ delivery[m] = from
  /\ delivery' = [delivery EXCEPT ![m] = to]
  /\ UNCHANGED <<rowVars, jobs, actorVars, offered>>

StartDelivery(m) == jobs[m] = "queued" /\ Deliver(m, "pending", "claimed") /\ Calm

\* A worker whose job was lost meanwhile, or came under another id
\* (enqueueEmailCampaignBatch).
StartOtherJob(m) ==
  jobs[m] # "queued" /\ Deliver(m, "pending", "claimed") /\ Disturbed

BeginSending(m) == Deliver(m, "claimed", "sending") /\ Calm
Conclude(m) == (Deliver(m, "sending", "done") \/ Deliver(m, "claimed", "done")) /\ Calm

\* The claim goes back: the campaign deferred it, or its worker died.
ReturnClaim(m) == Deliver(m, "claimed", "pending") /\ Disturbed

EndJob(m, from, to) ==
  /\ jobs[m] = from
  /\ jobs' = [jobs EXCEPT ![m] = to]
  /\ UNCHANGED <<rowVars, delivery, actorVars, offered>>

CompleteJob(m) ==
  delivery[m] \in {"sending", "done"} /\ EndJob(m, "queued", "completed") /\ Calm

\* Out of attempts, or Redis lost the job.
LoseJob(m) == (EndJob(m, "queued", "failed") \/ EndJob(m, "queued", "none")) /\ Disturbed

RemoveOldJob(m) == (EndJob(m, "failed", "none") \/ EndJob(m, "completed", "none")) /\ Calm
RetryFailedJob(m) == EndJob(m, "failed", "queued") /\ Calm

------------------------------------------------------------------------------
DispatcherStep(d) ==
  \/ \E m \in Messages : ClaimLoad(d, m)
  \/ ClaimSave(d) \/ CheckDelivery(d) \/ Add(d) \/ SettleLoad(d) \/ SettleSave(d)

RedriverStep(r) ==
  \/ \E m \in Messages : RedriveGet(r, m)
  \/ RedriveDelivery(r) \/ RedriveJob(r) \/ ReopenLoad(r) \/ ReopenSave(r)

WorkerStep(m) == StartDelivery(m) \/ BeginSending(m) \/ Conclude(m) \/ CompleteJob(m)

EnvironmentStep ==
  \/ \E a \in Actors : Crash(a)
  \/ \E m \in Messages :
       \/ Register(m) \/ ExpireLease(m) \/ WorkerStep(m)
       \/ StartOtherJob(m) \/ ReturnClaim(m)
       \/ LoseJob(m) \/ RemoveOldJob(m) \/ RetryFailedJob(m)

Next ==
  \/ \E d \in Dispatchers : DispatcherStep(d)
  \/ \E r \in Redrivers : RedriverStep(r)
  \/ EnvironmentStep

Spec == Init /\ [][Next]_vars

\* The host keeps polling, workers keep running, old jobs are removed and an
\* operator redrives; what may go wrong does so finitely often (MaxDisturbances).
FairSpec ==
  /\ Spec
  /\ \A m \in Messages :
       /\ WF_vars(Register(m))
       /\ WF_vars(ExpireLease(m))
       /\ WF_vars(WorkerStep(m))
       /\ WF_vars(RemoveOldJob(m))
       /\ SF_vars(\E d \in Dispatchers : ClaimLoad(d, m))
       /\ SF_vars(\E r \in Redrivers : RedriveGet(r, m))
  /\ \A d \in Dispatchers :
       WF_vars(ClaimSave(d) \/ CheckDelivery(d) \/ Add(d) \/ SettleLoad(d) \/ SettleSave(d))
  /\ \A r \in Redrivers :
       WF_vars(RedriveDelivery(r) \/ RedriveJob(r) \/ ReopenLoad(r) \/ ReopenSave(r))

------------------------------------------------------------------------------
(* Properties.                                                             *)

\* Every variable keeps its shape; only a leased row has a holder.
TypeOK ==
  /\ status \in [Messages -> Statuses]
  /\ holder \in [Messages -> Dispatchers \cup {NoHolder}]
  /\ live \in [Messages -> BOOLEAN]
  /\ delivery \in [Messages -> Deliveries]
  /\ jobs \in [Messages -> Jobs]
  /\ pc \in [Actors -> PCs]
  /\ job \in [Actors -> Messages \cup {NoMessage}]
  /\ goal \in [Actors -> Goals]
  /\ fresh \subseteq Actors
  /\ offered \subseteq Messages
  /\ disturbances \in 0..MaxDisturbances
  /\ \A a \in Actors : job[a] = NoMessage <=> pc[a] = "idle"
  /\ \A m \in Messages : holder[m] # NoHolder <=> status[m] = "leased"

\* outbox.ts:158-168.  An intent is given up only when its message can never
\* be pending again: one in a worker's hands may still come back.
AbandonedIsDecided ==
  \A m \in Messages : status[m] = "abandoned" => delivery[m] \in {"sending", "done"}

\* outbox.ts:171-177.  A published intent's job was taken by the queue since
\* the intent was last opened, whatever answers were lost on the way.
PublishedIsOffered ==
  \A m \in Messages : status[m] = "published" => m \in offered

\* outbox.ts:128,137,219-232.  Two dispatchers of one message, one of them
\* late, do not undo a publication: only a redrive reopens it.
PublicationStands ==
  [][\A m \in Messages :
       status[m] = "published" /\ status'[m] # "published"
         => \E r \in Redrivers : pc[r] = "reopenSave" /\ job[r] = m /\ pc'[r] = "idle"]_vars

\* outbox.ts:181-191.  A registered intent is published or given up.
IntentIsServed ==
  \A m \in Messages : status[m] = "pending" ~> status[m] \in {"published", "abandoned"}

\* outbox.ts:2-3,195-196,216-218.  With the poller, the missing-intent scan
\* and the redriver run by the host, no message stays pending.
MessageIsServed == \A m \in Messages : <>(delivery[m] = "done")
==============================================================================
