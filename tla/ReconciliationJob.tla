-------------------------- MODULE ReconciliationJob --------------------------
(***************************************************************************)
(* A backfill job of the analytics package: runs scan a window page by     *)
(* page, each under a lease, and record their progress in one durable      *)
(* document whose every change is a compare-and-swap on its version        *)
(* (packages/@zeruxjs/analytics/src/jobs.ts).                              *)
(*                                                                         *)
(* acquire, fail, restart and checkpoint read the document and swap it; a  *)
(* swap that fails is retried, or is the error of the call, so each is one *)
(* action.  What is abstracted: heartbeats, which only put off Expire; all *)
(* runs have the same owner name; a token is the epoch it was issued in.   *)
(*                                                                         *)
(* The definitions whose comment starts with `Fault' are used by nothing:  *)
(* each is a plausible bug of the definition below it.                     *)
(***************************************************************************)
EXTENDS Naturals

CONSTANTS
  Runs,        \* runs that may be under way at the same time
  Pages,       \* pages of the window
  MaxEpochs    \* bound: leases and restarts

ASSUME PagesAssumption == Pages \in Nat \ {0}
ASSUME EpochsAssumption == MaxEpochs \in Nat

VARIABLES
  doc,      \* the document: status, cursor, counted, pass, epoch and the lease:
            \* none, live or expired
  run,      \* run[w]: what w does next, its token, the cursor and the pass it read
  scans     \* the pages scanned, each with the pass its scan began in (history)

jobVars == <<doc, run, scans>>

Idle == [at |-> "idle", token |-> 0, cursor |-> 0, pass |-> 0]

JobInit ==
  /\ doc = [status |-> "pending", cursor |-> 0, counted |-> 0, pass |-> 1, epoch |-> 0,
            lease |-> "none"]
  /\ run = [w \in Runs |-> Idle]
  /\ scans = {}

------------------------------------------------------------------------------
\* Fault of Belongs: the owner's name says whose lease it is.
BelongsByName(w) == doc.status = "running" /\ doc.lease = "live"

Belongs(w) ==
  /\ doc.status = "running" /\ doc.lease = "live"
  /\ doc.epoch = run[w].token

Leased == doc.lease = "live"
Free(d) == [d EXCEPT !.lease = "none"]
Goto(w, l) == run' = [run EXCEPT ![w].at = l]

Acquire(w) ==
  /\ run[w].at = "idle"
  /\ doc.status # "completed" /\ ~Leased /\ doc.epoch < MaxEpochs
  /\ doc' = [doc EXCEPT !.status = "running", !.epoch = @ + 1, !.lease = "live"]
  /\ run' = [run EXCEPT ![w] = [at |-> "read", token |-> doc.epoch + 1, cursor |-> 0, pass |-> 0]]
  /\ UNCHANGED scans

\* The page is the one after the cursor as it is now, whoever holds the lease.
ReadCursor(w) ==
  /\ run[w].at = "read"
  /\ run' = [run EXCEPT ![w] = [at |-> "reconcile", token |-> run[w].token,
                                cursor |-> doc.cursor, pass |-> doc.pass]]
  /\ UNCHANGED <<doc, scans>>

Reconcile(w) ==
  /\ run[w].at = "reconcile"
  /\ Goto(w, "checkpoint")
  /\ scans' = scans \cup {<<run[w].pass, run[w].cursor + 1>>}
  /\ UNCHANGED doc

ReconcileFails(w) ==
  /\ run[w].at \in {"read", "reconcile"}
  /\ Goto(w, "fail")
  /\ UNCHANGED <<doc, scans>>

\* The answer of the swap may be lost: the run then fails.
Checkpoint(w) ==
  /\ run[w].at = "checkpoint" /\ Belongs(w)
  /\ LET more == run[w].cursor + 1 < Pages IN
     doc' = Free([doc EXCEPT !.status = IF more THEN "pending" ELSE "completed",
                             !.cursor = IF more THEN run[w].cursor + 1 ELSE @,
                             !.counted = @ + 1])
  /\ \/ run' = [run EXCEPT ![w] = Idle]
     \/ Goto(w, "fail")
  /\ UNCHANGED scans

CheckpointLost(w) ==
  /\ run[w].at = "checkpoint"
  /\ Goto(w, "fail")
  /\ UNCHANGED <<doc, scans>>

Fail(w) ==
  /\ run[w].at = "fail"
  /\ doc' = IF Belongs(w) THEN [Free(doc) EXCEPT !.status = "failed"] ELSE doc
  /\ run' = [run EXCEPT ![w] = Idle]
  /\ UNCHANGED scans

Crash(w) ==
  /\ run[w].at # "idle"
  /\ run' = [run EXCEPT ![w] = Idle]
  /\ UNCHANGED <<doc, scans>>

\* No heartbeat came in time.
Expire ==
  /\ Leased
  /\ doc' = [doc EXCEPT !.lease = "expired"]
  /\ UNCHANGED <<run, scans>>

Restart ==
  /\ ~Leased /\ doc.epoch < MaxEpochs
  /\ doc' = [Free(doc) EXCEPT !.status = "pending", !.cursor = 0, !.counted = 0,
                              !.pass = @ + 1, !.epoch = @ + 1]
  /\ UNCHANGED <<run, scans>>

JobNext ==
  \/ \E w \in Runs :
       \/ Acquire(w) \/ ReadCursor(w) \/ Reconcile(w) \/ ReconcileFails(w)
       \/ Checkpoint(w) \/ CheckpointLost(w) \/ Fail(w) \/ Crash(w)
  \/ Expire \/ Restart

JobSpec == JobInit /\ [][JobNext]_jobVars

------------------------------------------------------------------------------
\* Progress is true: each page up to the cursor is counted once, and was
\* scanned by a scan that began in the current pass, whatever run was
\* overtaken, restarted over or lost its answer (jobs.ts:94-156, 169-173).
ProgressIsTrue ==
  /\ doc.counted = IF doc.status = "completed" THEN Pages ELSE doc.cursor
  /\ \A p \in 1..doc.counted : <<doc.pass, p>> \in scans
==============================================================================
