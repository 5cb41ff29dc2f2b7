--------------------------- MODULE EmailDelivery_inv ---------------------------
(***************************************************************************)
(* The inductive invariant behind the safety properties of EmailDelivery.  *)
(* It says what an actor suspended at an await may still rely on: the      *)
(* record it loaded is the record its save would replace, its lease token  *)
(* is its own and is still the record's only in the phase it is in, and an *)
(* attempt in progress is the message's only one.                          *)
(***************************************************************************)
EXTENDS EmailDelivery

Saving == {"claim", "begin", "settleSave", "revertSave", "scanSave", "resolveSave"}
Settling == {"settleLoad", "settleSave"}

\* A worker that holds a claim and has not begun, and one that has begun.
Checking(a) ==
  \/ pc[a] \in {"consent", "gate", "recheck", "begin", "revertLoad", "revertSave"}
  \/ pc[a] \in Settling /\ goal[a] = "suppressed"
Attempting(a) ==
  \/ pc[a] = "send"
  \/ pc[a] \in Settling /\ goal[a] # "suppressed"

\* An accepted save replaces the record that was loaded.
SnapshotInv(a) ==
  pc[a] \in Saving =>
    /\ snap[a].version <= rec[job[a]].version
    /\ Unchanged(a) => /\ snap[a].state = rec[job[a]].state
                       /\ snap[a].lease = rec[job[a]].lease

\* What the actor checked on that record before it decided to save.
DecisionInv(a) ==
  /\ pc[a] = "claim" => snap[a].state \notin Terminal
  /\ pc[a] \in {"begin", "revertSave"} => snap[a].state = "claimed"
  /\ pc[a] \in {"begin", "settleSave"} => snap[a].lease = token[a]
  /\ pc[a] = "scanSave" => snap[a].state \in {"claimed", "sending"}
  /\ pc[a] = "resolveSave" => snap[a].state = "uncertain"

\* The token names one claim; while the record carries it, the record is in
\* the phase its owner is in.
TokenInv(a) ==
  /\ pc[a] = "idle" => token[a] = NoLease
  /\ pc[a] # "idle" => token[a] <= rec[job[a]].version
  /\ Checking(a) => /\ token[a] # NoLease
                    /\ rec[job[a]].lease = token[a] => rec[job[a]].state = "claimed"
  /\ Attempting(a) => /\ token[a] # NoLease
                      /\ rec[job[a]].lease = token[a] => rec[job[a]].state = "sending"

\* A worker about to submit is the first; one that submitted knows how.
AttemptInv(a) ==
  /\ pc[a] = "send" => job[a] \in begun /\ sends[job[a]] = 0
  /\ Attempting(a) /\ pc[a] # "send" =>
       /\ sends[job[a]] = 1
       /\ goal[a] = "sent" => job[a] \in accepted
       /\ goal[a] = "rejected" => job[a] \notin accepted
  /\ pc[a] = "alert" => rec[job[a]].state = "uncertain" \/ job[a] \in decided

ActorInv(a) == SnapshotInv(a) /\ DecisionInv(a) /\ TokenInv(a) /\ AttemptInv(a)

\* Two claims of one message have two tokens; one of them at most submits.
TokensDiffer(a, b) ==
  a # b /\ job[a] = job[b] /\ token[a] # NoLease => token[a] # token[b]
SubmitsAlone(a, b) ==
  a # b /\ job[a] = job[b] /\ pc[a] = "send" => pc[b] # "send"

RecordInv(m) ==
  /\ rec[m].lease # NoLease <=> rec[m].state \in {"claimed", "sending"}
  /\ rec[m].state \in {"pending", "claimed"} => m \notin decided
  /\ sends[m] <= 1
  /\ m \notin begun => sends[m] = 0
  /\ sends[m] = 0 => m \notin accepted
  /\ m \notin decided =>
       /\ rec[m].state = "sent" => m \in accepted
       /\ rec[m].state = "rejected" => sends[m] = 1 /\ m \notin accepted
  /\ m \in alerted => rec[m].state = "uncertain" \/ m \in decided

Inv ==
  /\ \A a \in Actors : ActorInv(a)
  /\ \A a, b \in Actors : TokensDiffer(a, b) /\ SubmitsAlone(a, b)
  /\ \A m \in Messages : RecordInv(m)

\* A message barred while nobody held it: the bar never lifts, and a worker
\* that passed a check holds a claim the record no longer carries.
BarredActorInv(a) ==
  job[a] \in barred =>
    /\ pc[a] = "gate" => rec[job[a]].lease # token[a] \/ gate = "suppress"
    /\ pc[a] = "recheck" => rec[job[a]].lease # token[a]
    /\ pc[a] = "begin" => ~Unchanged(a)
    /\ pc[a] # "send"
BarredRecordInv(m) ==
  m \in barred => m \in Marketing /\ sends[m] = 0 /\ (~consent[m] \/ gate = "suppress")
BarredInv ==
  /\ \A a \in Actors : BarredActorInv(a)
  /\ \A m \in Messages : BarredRecordInv(m)
================================================================================
