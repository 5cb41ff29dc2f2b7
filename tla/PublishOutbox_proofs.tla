------------------------- MODULE PublishOutbox_proofs -------------------------
(***************************************************************************)
(* Safety of PublishOutbox, for any number of messages, dispatchers and    *)
(* redrivers.  The invariant says what an actor may rely on while its      *)
(* loaded row is still the stored one, and what a dispatcher that is about *)
(* to settle has seen: a decided message stays decided, and an accepted    *)
(* job counts for as long as its row is leased to the one that added it.   *)
(***************************************************************************)
EXTENDS PublishOutbox, TLAPS

Settling == {"settleLoad", "settleSave"}
Decided == {"sending", "done"}

\* The row an actor's save would replace is in the status it loaded it in.
LoadedInv(a) ==
  a \in fresh =>
    /\ pc[a] = "claimSave" => status[job[a]] \in {"pending", "leased"}
    /\ pc[a] = "settleSave" => status[job[a]] = "leased" /\ holder[job[a]] = a
    /\ pc[a] = "reopenSave" => status[job[a]] = "published"

\* Why a dispatcher settles as it does.
GoalInv(d) ==
  pc[d] \in Settling =>
    /\ goal[d] = "abandoned" => delivery[job[d]] \in Decided
    /\ goal[d] = "published" /\ holder[job[d]] = d => job[d] \in offered

Inv ==
  /\ \A a \in Actors : LoadedInv(a)
  /\ \A d \in Dispatchers : GoalInv(d)
  /\ AbandonedIsDecided
  /\ PublishedIsOffered

------------------------------------------------------------------------------
(* Types.                                                                  *)

RowsTyped ==
  /\ status \in [Messages -> Statuses]
  /\ holder \in [Messages -> Dispatchers \cup {NoHolder}]
  /\ live \in [Messages -> BOOLEAN]
  /\ \A m \in Messages : holder[m] # NoHolder <=> status[m] = "leased"

ActorsTyped ==
  /\ pc \in [Actors -> PCs]
  /\ job \in [Actors -> Messages \cup {NoMessage}]
  /\ goal \in [Actors -> Goals]
  /\ \A a \in Actors : job[a] = NoMessage <=> pc[a] = "idle"

WorldTyped ==
  /\ delivery \in [Messages -> Deliveries]
  /\ jobs \in [Messages -> Jobs]
  /\ fresh \subseteq Actors
  /\ offered \subseteq Messages
  /\ disturbances \in 0..MaxDisturbances

\* TypeOK falls into the rows, the actors and the rest.
LEMMA TypeParts == TypeOK <=> RowsTyped /\ ActorsTyped /\ WorldTyped
BY DEF TypeOK, RowsTyped, ActorsTyped, WorldTyped

\* The same of the next state.
LEMMA TypePartsNext ==
  ASSUME RowsTyped', ActorsTyped', WorldTyped'
  PROVE  TypeOK'
BY DEF TypeOK, RowsTyped, ActorsTyped, WorldTyped

\* An actor that is not idle works on a message.
LEMMA BusyActor ==
  ASSUME TypeOK, NEW a \in Actors, pc[a] # "idle"
  PROVE  job[a] \in Messages
BY DEF TypeOK

\* Moving an actor keeps the actors typed.
LEMMA MoveTyped ==
  ASSUME TypeOK, NEW a \in Actors, NEW next \in PCs, NEW m \in Messages \cup {NoMessage},
         NEW g \in Goals, m = NoMessage <=> next = "idle", Move(a, next, m, g)
  PROVE  ActorsTyped'
BY DEF TypeOK, ActorsTyped, Move

\* An actor that is done goes idle.
LEMMA FinishTyped ==
  ASSUME TypeOK, NEW a \in Actors, Finish(a)
  PROVE  ActorsTyped'
BY MoveTyped DEF Finish, PCs, Goals

\* A busy actor goes to its next await with the message it works on.
LEMMA GotoTyped ==
  ASSUME TypeOK, NEW a \in Actors, pc[a] # "idle", NEW next \in PCs \ {"idle"}, Goto(a, next)
  PROVE  ActorsTyped'
<1>1. job[a] \in Messages /\ job[a] # NoMessage /\ goal[a] \in Goals
  BY BusyActor, NamesAssumption DEF TypeOK
<1> QED BY <1>1, MoveTyped DEF Goto

\* A busy dispatcher goes on to settle.
LEMMA SettleTyped ==
  ASSUME TypeOK, NEW a \in Actors, pc[a] # "idle", NEW g \in Goals, Settle(a, g)
  PROVE  ActorsTyped'
<1>1. job[a] \in Messages /\ job[a] # NoMessage /\ "settleLoad" \in PCs
  BY BusyActor, NamesAssumption DEF TypeOK, PCs
<1> QED BY <1>1, MoveTyped DEF Settle

\* A refused settlement ends the dispatch or gives the lease back.
LEMMA RefusedTyped ==
  ASSUME TypeOK, NEW a \in Actors, pc[a] # "idle", Refused(a)
  PROVE  ActorsTyped'
BY SettleTyped, FinishTyped DEF Refused, Goals

\* A conditional update leaves typed rows.
LEMMA SaveTyped ==
  ASSUME TypeOK, NEW a \in Actors, pc[a] # "idle", NEW s \in Statuses,
         NEW h \in Dispatchers \cup {NoHolder}, NEW l \in BOOLEAN,
         h # NoHolder <=> s = "leased", Save(a, s, h, l)
  PROVE  RowsTyped' /\ fresh' \subseteq Actors
<1>1. job[a] \in Messages
  BY BusyActor
<1> QED BY <1>1 DEF TypeOK, RowsTyped, Save

\* A disturbance is counted, and counted only up to the bound.
LEMMA DisturbancesTyped ==
  ASSUME TypeOK, Disturbed \/ Calm
  PROVE  disturbances' \in 0..MaxDisturbances
BY BoundAssumption DEF TypeOK, Disturbed, Calm

\* A dispatcher's step keeps every variable typed.
LEMMA DispatcherTyped ==
  ASSUME TypeOK, NEW d \in Dispatchers, DispatcherStep(d)
  PROVE  TypeOK'
<1> USE DEF rowVars, actorVars
<1>0. RowsTyped /\ ActorsTyped /\ WorldTyped /\ d \in Actors
  BY TypeParts DEF Actors
<1>1. ASSUME NEW m \in Messages, ClaimLoad(d, m) PROVE TypeOK'
  <2>1. ActorsTyped'
    BY <1>0, <1>1, MoveTyped, NamesAssumption DEF ClaimLoad, PCs, Goals
  <2>2. RowsTyped' /\ WorldTyped'
    BY <1>0, <1>1 DEF RowsTyped, WorldTyped, ClaimLoad
  <2> QED BY <2>1, <2>2, TypePartsNext
<1>2. CASE ClaimSave(d)
  <2>0. pc[d] # "idle" /\ disturbances' \in 0..MaxDisturbances
    BY <1>2, DisturbancesTyped DEF ClaimSave
  <2>1. ActorsTyped'
    BY <1>0, <1>2, <2>0, GotoTyped, FinishTyped DEF ClaimSave, PCs
  <2>2. RowsTyped' /\ fresh' \subseteq Actors
    <3>1. CASE Save(d, "leased", d, TRUE)
      BY <1>0, <2>0, <3>1, SaveTyped, NamesAssumption DEF Statuses
    <3>2. CASE UNCHANGED <<rowVars, fresh>>
      BY <1>0, <3>2 DEF RowsTyped, WorldTyped
    <3> QED BY <1>2, <3>1, <3>2 DEF ClaimSave
  <2>3. WorldTyped'
    BY <1>0, <1>2, <2>0, <2>2 DEF WorldTyped, ClaimSave
  <2> QED BY <2>1, <2>2, <2>3, TypePartsNext
<1>3. CASE CheckDelivery(d)
  <2>0. pc[d] # "idle" /\ disturbances' \in 0..MaxDisturbances
    BY <1>3, DisturbancesTyped DEF CheckDelivery
  <2>1. ActorsTyped'
    BY <1>0, <1>3, <2>0, GotoTyped, SettleTyped DEF CheckDelivery, PCs, Goals
  <2>2. RowsTyped' /\ WorldTyped'
    BY <1>0, <1>3, <2>0 DEF RowsTyped, WorldTyped, CheckDelivery
  <2> QED BY <2>1, <2>2, TypePartsNext
<1>4. CASE Add(d)
  <2>0. pc[d] # "idle" /\ disturbances' \in 0..MaxDisturbances /\ job[d] \in Messages
    BY <1>0, <1>4, DisturbancesTyped, BusyActor DEF Add
  <2>1. ActorsTyped'
    BY <1>0, <1>4, <2>0, SettleTyped DEF Add, Goals
  <2>2. RowsTyped'
    BY <1>0, <1>4 DEF RowsTyped, Add
  <2>3. WorldTyped'
    BY <1>0, <1>4, <2>0 DEF WorldTyped, Add, Enqueue, Jobs
  <2> QED BY <2>1, <2>2, <2>3, TypePartsNext
<1>5. CASE SettleLoad(d)
  <2>0. pc[d] # "idle" /\ disturbances' \in 0..MaxDisturbances
    BY <1>5, DisturbancesTyped DEF SettleLoad
  <2>1. ActorsTyped'
    BY <1>0, <1>5, <2>0, GotoTyped, RefusedTyped DEF SettleLoad, PCs
  <2>2. RowsTyped' /\ WorldTyped'
    BY <1>0, <1>5, <2>0 DEF RowsTyped, WorldTyped, SettleLoad
  <2> QED BY <2>1, <2>2, TypePartsNext
<1>6. CASE SettleSave(d)
  <2>0. pc[d] # "idle" /\ disturbances' \in 0..MaxDisturbances
    BY <1>6, DisturbancesTyped DEF SettleSave
  <2>1. ActorsTyped'
    BY <1>0, <1>6, <2>0, GotoTyped, RefusedTyped, FinishTyped DEF SettleSave, PCs
  <2>2. RowsTyped' /\ fresh' \subseteq Actors
    <3>1. Settlement(goal[d]) \in Statuses \ {"leased"}
      BY <1>0 DEF ActorsTyped, Settlement, Goals, Statuses
    <3>2. CASE Release(d, Settlement(goal[d]))
      BY <1>0, <2>0, <3>1, <3>2, SaveTyped DEF Release
    <3>3. CASE UNCHANGED <<rowVars, fresh>>
      BY <1>0, <3>3 DEF RowsTyped, WorldTyped
    <3> QED BY <1>6, <3>2, <3>3 DEF SettleSave
  <2>3. WorldTyped'
    BY <1>0, <1>6, <2>0, <2>2 DEF WorldTyped, SettleSave
  <2> QED BY <2>1, <2>2, <2>3, TypePartsNext
<1> QED BY <1>1, <1>2, <1>3, <1>4, <1>5, <1>6 DEF DispatcherStep

\* A redriver's step keeps every variable typed.
LEMMA RedriverTyped ==
  ASSUME TypeOK, NEW r \in Redrivers, RedriverStep(r)
  PROVE  TypeOK'
<1> USE DEF rowVars, actorVars
<1>0. RowsTyped /\ ActorsTyped /\ WorldTyped /\ r \in Actors
  BY TypeParts DEF Actors
<1>1. ASSUME NEW m \in Messages, RedriveGet(r, m) PROVE TypeOK'
  <2>1. ActorsTyped'
    BY <1>0, <1>1, MoveTyped, NamesAssumption DEF RedriveGet, PCs, Goals
  <2>2. RowsTyped' /\ WorldTyped'
    BY <1>0, <1>1 DEF RowsTyped, WorldTyped, RedriveGet
  <2> QED BY <2>1, <2>2, TypePartsNext
<1>2. CASE RedriveDelivery(r)
  <2>1. ActorsTyped'
    BY <1>0, <1>2, GotoTyped, FinishTyped DEF RedriveDelivery, PCs
  <2>2. RowsTyped' /\ WorldTyped'
    BY <1>0, <1>2 DEF RowsTyped, WorldTyped, RedriveDelivery
  <2> QED BY <2>1, <2>2, TypePartsNext
<1>3. CASE RedriveJob(r)
  <2>1. ActorsTyped'
    BY <1>0, <1>3, GotoTyped, FinishTyped DEF RedriveJob, PCs
  <2>2. RowsTyped' /\ WorldTyped'
    BY <1>0, <1>3 DEF RowsTyped, WorldTyped, RedriveJob
  <2> QED BY <2>1, <2>2, TypePartsNext
<1>4. CASE ReopenLoad(r)
  <2>1. ActorsTyped'
    BY <1>0, <1>4, GotoTyped, FinishTyped DEF ReopenLoad, PCs
  <2>2. RowsTyped' /\ WorldTyped'
    BY <1>0, <1>4 DEF RowsTyped, WorldTyped, ReopenLoad
  <2> QED BY <2>1, <2>2, TypePartsNext
<1>5. CASE ReopenSave(r)
  <2>1. ActorsTyped'
    BY <1>0, <1>5, GotoTyped, FinishTyped DEF ReopenSave, PCs
  <2>2. RowsTyped' /\ fresh' \subseteq Actors
    <3>1. CASE Release(r, "pending")
      BY <1>0, <1>5, <3>1, SaveTyped DEF Release, ReopenSave, Statuses
    <3>2. CASE UNCHANGED <<rowVars, fresh>>
      BY <1>0, <3>2 DEF RowsTyped, WorldTyped
    <3> QED BY <1>5, <3>1, <3>2 DEF ReopenSave
  <2>3. WorldTyped'
    BY <1>0, <1>5, <2>2 DEF WorldTyped, ReopenSave
  <2> QED BY <2>1, <2>2, <2>3, TypePartsNext
<1> QED BY <1>1, <1>2, <1>3, <1>4, <1>5 DEF RedriverStep

\* What the environment does keeps every variable typed.
LEMMA EnvironmentTyped ==
  ASSUME TypeOK, EnvironmentStep
  PROVE  TypeOK'
<1> USE DEF rowVars, actorVars
<1>0. RowsTyped /\ ActorsTyped /\ WorldTyped
  BY TypeParts
<1>1. ASSUME NEW a \in Actors, Crash(a) PROVE TypeOK'
  <2>1. ActorsTyped'
    BY <1>1, FinishTyped DEF Crash
  <2>2. RowsTyped' /\ WorldTyped'
    BY <1>0, <1>1, DisturbancesTyped DEF RowsTyped, WorldTyped, Crash
  <2> QED BY <2>1, <2>2, TypePartsNext
<1>2. ASSUME NEW m \in Messages, Register(m) PROVE TypeOK'
  <2>1. RowsTyped'
    BY <1>0, <1>2 DEF RowsTyped, Register, Statuses
  <2>2. ActorsTyped' /\ WorldTyped'
    BY <1>0, <1>2 DEF ActorsTyped, WorldTyped, Register
  <2> QED BY <2>1, <2>2, TypePartsNext
<1>3. ASSUME NEW m \in Messages, ExpireLease(m) PROVE TypeOK'
  <2>1. RowsTyped'
    BY <1>0, <1>3 DEF RowsTyped, ExpireLease
  <2>2. ActorsTyped' /\ WorldTyped'
    BY <1>0, <1>3, DisturbancesTyped DEF ActorsTyped, WorldTyped, ExpireLease
  <2> QED BY <2>1, <2>2, TypePartsNext
<1>4. ASSUME NEW m \in Messages, NEW from, NEW to \in Deliveries, Deliver(m, from, to), Disturbed \/ Calm
      PROVE  TypeOK'
  <2>1. RowsTyped' /\ ActorsTyped'
    BY <1>0, <1>4 DEF RowsTyped, ActorsTyped, Deliver
  <2>2. WorldTyped'
    BY <1>0, <1>4, DisturbancesTyped DEF WorldTyped, Deliver
  <2> QED BY <2>1, <2>2, TypePartsNext
<1>5. ASSUME NEW m \in Messages, NEW from, NEW to \in Jobs, EndJob(m, from, to), Disturbed \/ Calm
      PROVE  TypeOK'
  <2>1. RowsTyped' /\ ActorsTyped'
    BY <1>0, <1>5 DEF RowsTyped, ActorsTyped, EndJob
  <2>2. WorldTyped'
    BY <1>0, <1>5, DisturbancesTyped DEF WorldTyped, EndJob
  <2> QED BY <2>1, <2>2, TypePartsNext
<1>6. ASSUME NEW m \in Messages, WorkerStep(m) \/ StartOtherJob(m) \/ ReturnClaim(m) PROVE TypeOK'
  BY <1>4, <1>5, <1>6
     DEF WorkerStep, StartDelivery, StartOtherJob, BeginSending, Conclude, ReturnClaim, CompleteJob, Deliveries, Jobs
<1>7. ASSUME NEW m \in Messages, LoseJob(m) \/ RemoveOldJob(m) \/ RetryFailedJob(m) PROVE TypeOK'
  BY <1>5, <1>7 DEF LoseJob, RemoveOldJob, RetryFailedJob, Jobs
<1> QED BY <1>1, <1>2, <1>3, <1>6, <1>7 DEF EnvironmentStep

\* Type correctness, and that a row carries a token exactly while it is
\* leased, for any number of messages and actors (PublishOutbox, TypeOK).
THEOREM TypeCorrect == Spec => []TypeOK
<1>1. Init => TypeOK
  <2> SUFFICES ASSUME Init PROVE TypeOK
    OBVIOUS
  <2>1. RowsTyped
    BY DEF Init, RowsTyped, Statuses
  <2>2. ActorsTyped
    BY DEF Init, ActorsTyped, PCs, Goals
  <2>3. WorldTyped
    BY BoundAssumption DEF Init, WorldTyped, Deliveries, Jobs
  <2> QED BY <2>1, <2>2, <2>3, TypeParts
<1>2. TypeOK /\ [Next]_vars => TypeOK'
  <2>1. ASSUME TypeOK, UNCHANGED vars PROVE TypeOK'
    BY <2>1 DEF TypeOK, vars, rowVars, actorVars
  <2> QED BY <2>1, DispatcherTyped, RedriverTyped, EnvironmentTyped DEF Next
<1> QED BY <1>1, <1>2, PTL DEF Spec

------------------------------------------------------------------------------
(* The invariant.                                                          *)

\* A step of one actor that saves nothing disturbs nobody else.
LEMMA ReadKeepsInv ==
  ASSUME TypeOK, Inv, NEW a \in Actors, NEW next, NEW m, NEW g, Move(a, next, m, g),
         UNCHANGED <<rowVars, delivery>>, offered \subseteq offered', fresh' \subseteq fresh \cup {a},
         LoadedInv(a)', GoalInv(a)'
  PROVE  Inv'
<1> USE DEF rowVars
<1>1. \A b \in Actors : b # a => pc'[b] = pc[b] /\ job'[b] = job[b] /\ goal'[b] = goal[b]
  BY DEF Move, TypeOK
<1>2. \A b \in Actors : LoadedInv(b)'
  BY <1>1 DEF Inv, LoadedInv
<1>3. \A d \in Dispatchers : GoalInv(d)'
  BY <1>1 DEF Inv, GoalInv, Actors
<1>4. AbandonedIsDecided' /\ PublishedIsOffered'
  BY DEF Inv, AbandonedIsDecided, PublishedIsOffered
<1> QED BY <1>2, <1>3, <1>4 DEF Inv

\* A save leaves every other load of the row stale, and no other dispatcher
\* its holder.
LEMMA SaveKeepsInv ==
  ASSUME TypeOK, Inv, NEW a \in Actors, pc[a] # "idle", NEW next, NEW n, NEW g, Move(a, next, n, g),
         NEW s, NEW h, h = NoHolder \/ h = a, NEW l, Save(a, s, h, l), UNCHANGED delivery,
         offered' = offered \/ offered' = offered \ {job[a]},
         next \in Settling => g \notin {"abandoned", "published"},
         s = "abandoned" => delivery[job[a]] \in Decided,
         s = "published" => job[a] \in offered'
  PROVE  Inv'
<1>1. \A b \in Actors : b # a => pc'[b] = pc[b] /\ job'[b] = job[b] /\ goal'[b] = goal[b]
  BY DEF Move, TypeOK
<1>2. pc'[a] = next /\ goal'[a] = g
  BY DEF Move, TypeOK
<1>3. job[a] \in Messages
  BY BusyActor
<1>4. status'[job[a]] = s /\ holder'[job[a]] = h
  BY <1>3 DEF Save, TypeOK
<1>5. \A m \in Messages : m # job[a] =>
        status'[m] = status[m] /\ holder'[m] = holder[m] /\ (m \in offered' <=> m \in offered)
  BY <1>3 DEF Save, TypeOK
<1>6. ASSUME NEW b \in Actors PROVE LoadedInv(b)'
  <2>1. CASE b \in fresh'
    <3>1. b # a /\ b \in fresh /\ job[b] # job[a]
      BY <2>1 DEF Save
    <3>2. pc[b] # "idle" => job[b] \in Messages
      BY BusyActor
    <3> QED BY <1>1, <1>5, <3>1, <3>2 DEF Inv, LoadedInv
  <2> QED BY <2>1 DEF LoadedInv
<1>7. ASSUME NEW d \in Dispatchers PROVE GoalInv(d)'
  <2>1. CASE d = a
    BY <1>2, <2>1 DEF GoalInv
  <2>2. CASE d # a
    <3>1. d \in Actors /\ h # d
      BY <2>2, NamesAssumption DEF Actors
    <3>2. pc[d] \in Settling => job[d] \in Messages
      BY <3>1, BusyActor DEF Settling
    <3> QED BY <1>1, <1>4, <1>5, <2>2, <3>1, <3>2 DEF Inv, GoalInv
  <2> QED BY <2>1, <2>2
<1>8. AbandonedIsDecided'
  BY <1>4, <1>5 DEF Inv, AbandonedIsDecided, Decided
<1>9. PublishedIsOffered'
  BY <1>4, <1>5 DEF Inv, PublishedIsOffered
<1> QED BY <1>6, <1>7, <1>8, <1>9 DEF Inv

\* An actor that gives up holds nothing the invariant speaks of.
LEMMA FinishKeepsInv ==
  ASSUME TypeOK, Inv, NEW a \in Actors, Finish(a), UNCHANGED <<rowVars, delivery, fresh>>,
         offered \subseteq offered'
  PROVE  Inv'
<1>1. Move(a, "idle", NoMessage, "none") /\ pc'[a] = "idle"
  BY DEF Finish, Move, TypeOK
<1>2. LoadedInv(a)' /\ GoalInv(a)'
  BY <1>1 DEF LoadedInv, GoalInv, Settling
<1> QED BY <1>1, <1>2, ReadKeepsInv

\* Nor does one that gives its lease back, or ends after failing to.
LEMMA RefusedKeepsInv ==
  ASSUME TypeOK, Inv, NEW a \in Actors, Refused(a), UNCHANGED <<rowVars, delivery, fresh>>,
         offered \subseteq offered'
  PROVE  Inv'
<1>1. CASE Settle(a, "release")
  <2>1. Move(a, "settleLoad", job[a], "release") /\ pc'[a] = "settleLoad" /\ goal'[a] = "release"
    BY <1>1 DEF Settle, Move, TypeOK
  <2>2. LoadedInv(a)' /\ GoalInv(a)'
    BY <2>1 DEF LoadedInv, GoalInv
  <2> QED BY <2>1, <2>2, ReadKeepsInv
<1> QED BY <1>1, FinishKeepsInv DEF Refused

\* A dispatcher's step keeps the invariant.
LEMMA DispatcherKeepsInv ==
  ASSUME TypeOK, Inv, NEW d \in Dispatchers, DispatcherStep(d)
  PROVE  Inv'
<1>0. d \in Actors /\ (pc[d] # "idle" => job[d] \in Messages)
  BY BusyActor DEF Actors
<1>1. ASSUME NEW m \in Messages, ClaimLoad(d, m) PROVE Inv'
  <2>1. /\ pc'[d] = "claimSave" /\ job'[d] = m
        /\ UNCHANGED <<rowVars, delivery, offered>>
    BY <1>0, <1>1 DEF ClaimLoad, Move, TypeOK
  <2>2. LoadedInv(d)' /\ GoalInv(d)'
    BY <1>1, <2>1 DEF ClaimLoad, Due, LoadedInv, GoalInv, Settling, rowVars
  <2> QED BY <1>0, <1>1, <2>1, <2>2, ReadKeepsInv DEF ClaimLoad
<1>2. CASE ClaimSave(d)
  <2>0. pc[d] = "claimSave" /\ UNCHANGED <<delivery, offered>>
    BY <1>2 DEF ClaimSave
  <2>1. ASSUME Save(d, "leased", d, TRUE),
               NEW next \in {"check", "idle"}, NEW n, NEW g, Move(d, next, n, g)
        PROVE  Inv'
    <3>1. next \notin Settling
      BY DEF Settling
    <3> QED BY <1>0, <2>0, <2>1, <3>1, SaveKeepsInv
  <2>2. CASE Save(d, "leased", d, TRUE) /\ (Goto(d, "check") \/ Finish(d))
    BY <2>1, <2>2 DEF Goto, Finish
  <2>3. CASE Finish(d) /\ UNCHANGED <<rowVars, fresh>>
    BY <1>0, <2>0, <2>3, FinishKeepsInv
  <2> QED BY <1>2, <2>2, <2>3 DEF ClaimSave
<1>3. CASE CheckDelivery(d)
  <2>0. pc[d] = "check" /\ UNCHANGED <<rowVars, delivery, fresh, offered>>
    BY <1>3 DEF CheckDelivery
  <2>1. CASE Goto(d, "add")
    <3>1. Move(d, "add", job[d], goal[d]) /\ pc'[d] = "add"
      BY <1>0, <2>1 DEF Goto, Move, TypeOK
    <3>2. LoadedInv(d)' /\ GoalInv(d)'
      BY <3>1 DEF LoadedInv, GoalInv, Settling
    <3> QED BY <1>0, <2>0, <3>1, <3>2, ReadKeepsInv
  <2>2. ASSUME NEW g \in {"deferred", "abandoned", "release"}, Settle(d, g),
               g = "abandoned" => delivery[job[d]] \in Decided
        PROVE  Inv'
    <3>1. /\ Move(d, "settleLoad", job[d], g)
          /\ pc'[d] = "settleLoad" /\ goal'[d] = g /\ job'[d] = job[d]
      BY <1>0, <2>2 DEF Settle, Move, TypeOK
    <3>2. LoadedInv(d)' /\ GoalInv(d)'
      BY <2>0, <2>2, <3>1 DEF LoadedInv, GoalInv
    <3> QED BY <1>0, <2>0, <3>1, <3>2, ReadKeepsInv
  <2> QED BY <1>3, <2>1, <2>2 DEF CheckDelivery, Decided
<1>4. CASE Add(d)
  <2>0. /\ pc[d] = "add" /\ UNCHANGED <<rowVars, delivery, fresh>>
        /\ offered \subseteq offered'
    BY <1>4 DEF Add, Enqueue
  <2>1. ASSUME NEW g \in {"published", "release"}, Settle(d, g),
               g = "published" => Enqueue(job[d])
        PROVE  Inv'
    <3>1. /\ Move(d, "settleLoad", job[d], g)
          /\ pc'[d] = "settleLoad" /\ goal'[d] = g /\ job'[d] = job[d]
      BY <1>0, <2>1 DEF Settle, Move, TypeOK
    <3>2. LoadedInv(d)' /\ GoalInv(d)'
      BY <2>0, <2>1, <3>1 DEF LoadedInv, GoalInv, Enqueue
    <3> QED BY <1>0, <2>0, <3>1, <3>2, ReadKeepsInv
  <2> QED BY <1>4, <2>1 DEF Add
<1>5. CASE SettleLoad(d)
  <2>0. /\ pc[d] = "settleLoad" /\ UNCHANGED <<rowVars, delivery, offered>>
        /\ fresh' \subseteq fresh \cup {d}
    BY <1>5 DEF SettleLoad
  <2>1. CASE HoldsLease(d) /\ Goto(d, "settleSave")
    <3>1. /\ Move(d, "settleSave", job[d], goal[d])
          /\ pc'[d] = "settleSave" /\ goal'[d] = goal[d] /\ job'[d] = job[d]
      BY <1>0, <2>1 DEF Goto, Move, TypeOK
    <3>2. LoadedInv(d)'
      BY <2>0, <2>1, <3>1 DEF LoadedInv, HoldsLease, rowVars
    <3>3. GoalInv(d)'
      BY <2>0, <3>1 DEF Inv, GoalInv, Settling, rowVars
    <3> QED BY <1>0, <2>0, <3>1, <3>2, <3>3, ReadKeepsInv
  <2>2. CASE Refused(d) /\ UNCHANGED fresh
    BY <1>0, <2>0, <2>2, RefusedKeepsInv
  <2> QED BY <1>5, <2>1, <2>2 DEF SettleLoad
<1>6. CASE SettleSave(d)
  <2>0. pc[d] = "settleSave" /\ UNCHANGED <<delivery, offered>>
    BY <1>6 DEF SettleSave
  <2>1. ASSUME Release(d, Settlement(goal[d])) PROVE
          /\ Settlement(goal[d]) = "abandoned" => delivery[job[d]] \in Decided
          /\ Settlement(goal[d]) = "published" => job[d] \in offered'
    <3>1. d \in fresh /\ GoalInv(d) /\ LoadedInv(d)
      BY <1>0, <2>1 DEF Release, Save, Inv
    <3> QED BY <2>0, <3>1 DEF GoalInv, LoadedInv, Settlement, Settling
  <2>2. ASSUME Release(d, Settlement(goal[d])), NEW next, NEW n, NEW g \in {"none", "release"},
               Move(d, next, n, g)
        PROVE  Inv'
    <3>1. Save(d, Settlement(goal[d]), NoHolder, FALSE) /\ g \notin {"abandoned", "published"}
      BY <2>2 DEF Release
    <3> QED BY <1>0, <2>0, <2>1, <2>2, <3>1, SaveKeepsInv
  <2>3. CASE Release(d, Settlement(goal[d])) /\ (Finish(d) \/ Refused(d))
    BY <2>2, <2>3 DEF Refused, Finish, Settle
  <2>4. CASE Goto(d, "settleLoad") /\ UNCHANGED <<rowVars, fresh>>
    <3>1. /\ Move(d, "settleLoad", job[d], goal[d])
          /\ pc'[d] = "settleLoad" /\ goal'[d] = goal[d] /\ job'[d] = job[d]
      BY <1>0, <2>4 DEF Goto, Move, TypeOK
    <3>2. LoadedInv(d)'
      BY <3>1 DEF LoadedInv
    <3>3. GoalInv(d)'
      BY <2>0, <2>4, <3>1 DEF Inv, GoalInv, Settling, rowVars
    <3> QED BY <1>0, <2>0, <2>4, <3>1, <3>2, <3>3, ReadKeepsInv
  <2>5. CASE Refused(d) /\ UNCHANGED <<rowVars, fresh>>
    BY <1>0, <2>0, <2>5, RefusedKeepsInv
  <2> QED BY <1>6, <2>3, <2>4, <2>5 DEF SettleSave
<1> QED BY <1>1, <1>2, <1>3, <1>4, <1>5, <1>6 DEF DispatcherStep

\* So does a redriver's.
LEMMA RedriverKeepsInv ==
  ASSUME TypeOK, Inv, NEW r \in Redrivers, RedriverStep(r)
  PROVE  Inv'
<1>0. r \in Actors /\ (pc[r] # "idle" => job[r] \in Messages)
  BY BusyActor DEF Actors
<1>1. ASSUME NEW next \in {"loadDelivery", "getJob", "reopenLoad"}, NEW m, NEW g, Move(r, next, m, g),
             UNCHANGED <<rowVars, delivery, fresh, offered>>
      PROVE  Inv'
  <2>1. pc'[r] = next
    BY <1>0, <1>1 DEF Move, TypeOK
  <2>2. LoadedInv(r)' /\ GoalInv(r)'
    BY <2>1 DEF LoadedInv, GoalInv, Settling
  <2> QED BY <1>0, <1>1, <2>2, ReadKeepsInv
<1>2. CASE Finish(r) /\ UNCHANGED <<rowVars, delivery, fresh, offered>>
  BY <1>0, <1>2, FinishKeepsInv
<1>3. CASE \E m \in Messages : RedriveGet(r, m)
  BY <1>1, <1>3 DEF RedriveGet
<1>4. CASE RedriveDelivery(r)
  BY <1>1, <1>2, <1>4 DEF RedriveDelivery, Goto
<1>5. CASE RedriveJob(r)
  BY <1>1, <1>2, <1>5 DEF RedriveJob, Goto
<1>6. CASE ReopenLoad(r)
  <2>1. CASE /\ status[job[r]] = "published" /\ Goto(r, "reopenSave") /\ fresh' = fresh \cup {r}
             /\ UNCHANGED <<rowVars, delivery, offered>>
    <3>1. Move(r, "reopenSave", job[r], goal[r]) /\ pc'[r] = "reopenSave" /\ job'[r] = job[r]
      BY <1>0, <2>1 DEF Goto, Move, TypeOK
    <3>2. LoadedInv(r)' /\ GoalInv(r)'
      BY <2>1, <3>1 DEF LoadedInv, GoalInv, Settling, rowVars
    <3> QED BY <1>0, <2>1, <3>1, <3>2, ReadKeepsInv
  <2> QED BY <1>2, <1>6, <2>1 DEF ReopenLoad
<1>7. CASE ReopenSave(r)
  <2>0. pc[r] = "reopenSave" /\ UNCHANGED delivery
    BY <1>7 DEF ReopenSave
  <2>1. CASE Release(r, "pending") /\ offered' = offered \ {job[r]} /\ Finish(r)
    <3>1. Save(r, "pending", NoHolder, FALSE)
      BY <2>1 DEF Release
    <3>2. ASSUME NEW next, NEW n, NEW g \in {"none"}, Move(r, next, n, g) PROVE Inv'
      BY <1>0, <2>0, <2>1, <3>1, <3>2, SaveKeepsInv
    <3> QED BY <2>1, <3>2 DEF Finish
  <2>2. CASE Goto(r, "reopenLoad") /\ UNCHANGED <<rowVars, fresh, offered>>
    BY <1>1, <2>0, <2>2 DEF Goto
  <2> QED BY <1>7, <2>1, <2>2 DEF ReopenSave
<1> QED BY <1>3, <1>4, <1>5, <1>6, <1>7 DEF RedriverStep

\* So does the environment: time clears leases, a decided message stays so.
LEMMA EnvironmentKeepsInv ==
  ASSUME TypeOK, Inv, EnvironmentStep
  PROVE  Inv'
<1> USE DEF rowVars, actorVars
<1>1. ASSUME NEW a \in Actors, Crash(a) PROVE Inv'
  BY <1>1, FinishKeepsInv DEF Crash
<1>2. ASSUME NEW m \in Messages, Register(m) PROVE Inv'
  <2>1. status[m] = "none" /\ status' = [status EXCEPT ![m] = "pending"] /\ UNCHANGED <<holder, delivery, actorVars, offered>>
    BY <1>2 DEF Register
  <2>2. \A a \in Actors : LoadedInv(a)'
    BY <2>1 DEF Inv, LoadedInv, TypeOK
  <2>3. \A d \in Dispatchers : GoalInv(d)'
    BY <2>1 DEF Inv, GoalInv
  <2>4. AbandonedIsDecided' /\ PublishedIsOffered'
    BY <2>1 DEF Inv, AbandonedIsDecided, PublishedIsOffered, TypeOK
  <2> QED BY <2>2, <2>3, <2>4 DEF Inv
<1>3. ASSUME UNCHANGED <<status, holder, delivery, actorVars, offered>> PROVE Inv'
  BY <1>3 DEF Inv, LoadedInv, GoalInv, AbandonedIsDecided, PublishedIsOffered
<1>4. ASSUME NEW m \in Messages, NEW from, NEW to, Deliver(m, from, to),
             from \in Decided => to \in Decided
      PROVE  Inv'
  <2>1. UNCHANGED <<rowVars, actorVars, offered>>
    BY <1>4 DEF Deliver
  <2>2. \A n \in Messages : delivery[n] \in Decided => delivery'[n] \in Decided
    BY <1>4 DEF Deliver, TypeOK
  <2>3. \A a \in Actors : LoadedInv(a)'
    BY <2>1 DEF Inv, LoadedInv
  <2>4. \A d \in Dispatchers : GoalInv(d)'
    <3> SUFFICES ASSUME NEW d \in Dispatchers, pc[d] \in Settling PROVE GoalInv(d)'
      BY <2>1 DEF GoalInv
    <3>1. job[d] \in Messages
      BY BusyActor DEF Actors, Settling
    <3> QED BY <2>1, <2>2, <3>1 DEF Inv, GoalInv
  <2>5. AbandonedIsDecided' /\ PublishedIsOffered'
    BY <2>1, <2>2 DEF Inv, AbandonedIsDecided, PublishedIsOffered, Decided
  <2> QED BY <2>3, <2>4, <2>5 DEF Inv
<1>5. ASSUME NEW m \in Messages, WorkerStep(m) \/ StartOtherJob(m) \/ ReturnClaim(m) PROVE Inv'
  BY <1>3, <1>4, <1>5
     DEF WorkerStep, StartDelivery, StartOtherJob, BeginSending, Conclude, ReturnClaim, CompleteJob, EndJob, Decided
<1>6. ASSUME NEW m \in Messages, ExpireLease(m) \/ LoseJob(m) \/ RemoveOldJob(m) \/ RetryFailedJob(m)
      PROVE  Inv'
  BY <1>3, <1>6 DEF ExpireLease, LoseJob, RemoveOldJob, RetryFailedJob, EndJob
<1> QED BY <1>1, <1>2, <1>5, <1>6 DEF EnvironmentStep

\* The invariant holds throughout.
THEOREM Invariance == Spec => []Inv
<1>1. Init => Inv
  BY DEF Init, Inv, LoadedInv, GoalInv, Settling, AbandonedIsDecided, PublishedIsOffered, Actors
<1>2. TypeOK /\ Inv /\ [Next]_vars => Inv'
  <2>1. ASSUME TypeOK, Inv, UNCHANGED vars PROVE Inv'
    BY <2>1 DEF Inv, LoadedInv, GoalInv, AbandonedIsDecided, PublishedIsOffered, vars, rowVars, actorVars
  <2> QED BY <2>1, DispatcherKeepsInv, RedriverKeepsInv, EnvironmentKeepsInv DEF Next
<1> QED BY <1>1, <1>2, TypeCorrect, PTL DEF Spec

\* An intent is given up only when its message is decided
\* (PublishOutbox, AbandonedIsDecided).
THEOREM AbandonedStays == Spec => []AbandonedIsDecided
<1>1. Inv => AbandonedIsDecided
  BY DEF Inv
<1> QED BY <1>1, Invariance, PTL

\* A published intent's job was taken by the queue since the intent was last
\* opened (PublishOutbox, PublishedIsOffered).
THEOREM PublicationIsReal == Spec => []PublishedIsOffered
<1>1. Inv => PublishedIsOffered
  BY DEF Inv
<1> QED BY <1>1, Invariance, PTL

\* Publications stand: of all steps only a redriver's reopening undoes one
\* (PublishOutbox, PublicationStands).
THEOREM PublicationsStay == Spec => PublicationStands
<1> DEFINE Reopens(m) == \E r \in Redrivers : pc[r] = "reopenSave" /\ job[r] = m /\ pc'[r] = "idle"
           Stands == \A m \in Messages : status[m] = "published" /\ status'[m] # "published" => Reopens(m)
<1>1. TypeOK /\ Inv /\ [Next]_vars => Stands
  <2> SUFFICES ASSUME TypeOK, Inv, [Next]_vars,
                      NEW m \in Messages, status[m] = "published", status'[m] # "published"
               PROVE  Reopens(m)
    OBVIOUS
  <2>1. ASSUME NEW a \in Actors, LoadedInv(a), pc[a] \in {"claimSave", "settleSave"},
               NEW s, NEW h, NEW l, Save(a, s, h, l)
        PROVE  FALSE
    <3>1. job[a] \in Messages /\ job[a] # m
      BY <2>1, BusyActor DEF LoadedInv, Save
    <3> QED BY <2>1, <3>1 DEF Save, TypeOK
  <2>2. ASSUME NEW d \in Dispatchers, DispatcherStep(d) PROVE FALSE
    <3>1. d \in Actors /\ LoadedInv(d)
      BY DEF Actors, Inv
    <3>2. ~ClaimSave(d)
      BY <2>1, <3>1 DEF ClaimSave, rowVars
    <3>3. ~SettleSave(d)
      BY <2>1, <3>1 DEF SettleSave, Release, rowVars
    <3> QED BY <2>2, <3>2, <3>3
         DEF DispatcherStep, ClaimLoad, CheckDelivery, Add, SettleLoad, rowVars
  <2>3. ASSUME NEW r \in Redrivers, RedriverStep(r) PROVE Reopens(m)
    <3>1. r \in Actors
      BY DEF Actors
    <3>2. CASE ReopenSave(r) /\ Release(r, "pending") /\ Finish(r)
      <4>1. pc[r] = "reopenSave" /\ pc'[r] = "idle"
        BY <3>1, <3>2 DEF ReopenSave, Finish, Move, TypeOK
      <4>2. job[r] = m
        BY <3>2 DEF Release, Save, TypeOK
      <4> QED BY <4>1, <4>2
    <3> QED BY <2>3, <3>2
         DEF RedriverStep, RedriveGet, RedriveDelivery, RedriveJob, ReopenLoad, ReopenSave, rowVars
  <2>4. ASSUME EnvironmentStep PROVE FALSE
    <3>1. ASSUME NEW n \in Messages, Register(n) PROVE FALSE
      BY <3>1 DEF Register, TypeOK
    <3> QED BY <2>4, <3>1
         DEF EnvironmentStep, Crash, ExpireLease, WorkerStep, StartDelivery, StartOtherJob, BeginSending, Conclude,
             ReturnClaim, Deliver, CompleteJob, LoseJob, RemoveOldJob, RetryFailedJob, EndJob, rowVars
  <2>5. CASE UNCHANGED vars
    BY <2>5 DEF vars, rowVars
  <2> QED BY <2>2, <2>3, <2>4, <2>5 DEF Next
<1>2. TypeOK /\ Inv /\ [Next]_vars => [Stands]_vars
  BY <1>1
<1> QED BY <1>2, Invariance, TypeCorrect, PTL DEF Spec, PublicationStands

===============================================================================
