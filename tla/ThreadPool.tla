----------------------------- MODULE ThreadPool -----------------------------
(***************************************************************************)
(* A pool of worker threads: tasks wait in a queue until a thread is idle  *)
(* or may still be spawned; a thread fails, exits or is terminated when    *)
(* its task takes too long; and the pool is stopped and started again by   *)
(* the next task (packages/zeruxjs/src/bootstrap/worker.ts).               *)
(*                                                                         *)
(* An action is one turn of the event loop: a call of the pool's methods,  *)
(* or an event of a thread.  dispatch() is a function from what the pool   *)
(* holds to what it then holds.  What is abstracted: payloads are such     *)
(* that they can be posted to a thread or not; a handler that throws has   *)
(* answered; the number of a thread is used again once it has exited.      *)
(*                                                                         *)
(* The definitions whose comment starts with `Fault' are used by nothing:  *)
(* each is a plausible bug of the definition below it.                     *)
(***************************************************************************)
EXTENDS Naturals, Sequences, FiniteSets

CONSTANTS
  Tasks,         \* tasks that may be run, each once
  Uncloneable,   \* those whose payload postMessage rejects
  Timed,         \* those with a timeout
  NoTask,
  MinThreads, MaxThreads,
  MaxExisting,   \* bound: threads that exist at the same time
  MaxFailures    \* bound: threads that fail, or exit of themselves

ASSUME TasksAssumption == NoTask \notin Tasks /\ Uncloneable \subseteq Tasks /\ Timed \subseteq Tasks
ASSUME ThreadsAssumption == MinThreads \in Nat /\ MaxThreads \in Nat \ {0} /\ MinThreads <= MaxThreads
ASSUME BoundsAssumption == MaxExisting \in Nat /\ MaxFailures \in Nat
\* A thread that was handed such a payload stays busy for ever.
ASSUME CloningAssumption == Cardinality(Uncloneable) < MaxThreads

Threads == 1..MaxExisting

VARIABLES
  pool,        \* workers, idle, queue and task, as in the code; the threads that are up,
               \* and those that have failed or are terminated and have not exited: ending
  on,          \* running
  halting,     \* stop() is under way
  awaited,     \* the threads it waits for
  outcome,     \* outcome[t]: new, open or settled
  overtaken,   \* run() was called while a stop was under way (history)
  failures     \* how many there were

poolVars == <<pool, on, halting, awaited, outcome, overtaken, failures>>

PoolInit ==
  /\ pool = [workers |-> {}, idle |-> <<>>, queue |-> <<>>,
             task |-> [w \in Threads |-> NoTask], up |-> {}, ending |-> {}]
  /\ on = FALSE /\ halting = FALSE /\ awaited = {}
  /\ outcome = [t \in Tasks |-> "new"]
  /\ overtaken = FALSE /\ failures = 0

------------------------------------------------------------------------------
(* What the pool holds after one of its helpers.                           *)

Least(a, b) == IF a < b THEN a ELSE b
Less(a, b) == IF a < b THEN 0 ELSE a - b

Elements(s) == {s[i] : i \in DOMAIN s}
First(I) == CHOOSE i \in I : \A j \in I : i <= j

\* indexOf and splice: s without the first of its elements that is x.
Spliced(s, x) ==
  LET found == {i \in DOMAIN s : s[i] = x}
  IN IF found = {} THEN s ELSE [i \in 1..Len(s) - 1 |-> s[IF i < First(found) THEN i ELSE i + 1]]

Unused(p) == Threads \ (p.up \cup p.ending)

\* Bound of the steps that spawn threads: there are numbers left for them.
Room == Cardinality(Unused(pool)) >= 2 * MaxThreads

Spawned(p, n) ==
  LET new == CHOOSE s \in [1..n -> Unused(p)] : \A i, j \in 1..n : s[i] = s[j] => i = j
  IN [p EXCEPT !.workers = @ \cup Elements(new), !.up = @ \cup Elements(new), !.idle = @ \o new]

Startable(p) == Least(Len(p.queue), Len(p.idle) + Less(MaxThreads, Cardinality(p.workers)))
Refused(p) == {i \in 1..Startable(p) : p.queue[i] \in Uncloneable}

\* dispatch ends with an exception at the first payload that cannot be posted.
Taken(p) == IF Refused(p) = {} THEN Startable(p) ELSE First(Refused(p))

\* The first n of the queue go to the first n threads of s.
Assigned(p, n, s) ==
  [w \in Threads |-> IF \E i \in 1..n : s[i] = w THEN p.queue[CHOOSE i \in 1..n : s[i] = w] ELSE p.task[w]]

\* Fault of Dispatched: the thread spawned for a task also counts as idle.
DispatchedIdle(p) ==
  LET n == Taken(p)
      s == Spawned(p, Less(n, Len(p.idle)))
  IN [s EXCEPT !.queue = SubSeq(@, n + 1, Len(@)), !.task = Assigned(p, n, s.idle),
               !.idle = SubSeq(@, Least(n, Len(p.idle)) + 1, Len(@))]

Dispatched(p) ==
  LET n == Taken(p)
      s == Spawned(p, Less(n, Len(p.idle)))
  IN [s EXCEPT !.queue = SubSeq(@, n + 1, Len(@)), !.task = Assigned(p, n, s.idle),
               !.idle = SubSeq(@, n + 1, Len(@))]

\* The pool forgets the thread w and its task.
Without(p, w) ==
  [p EXCEPT !.workers = @ \ {w}, !.idle = Spliced(@, w), !.task[w] = NoTask]

Settle(S) == outcome' = [t \in Tasks |-> IF t \in S THEN "settled" ELSE outcome[t]]

------------------------------------------------------------------------------
(* The methods.                                                            *)

PoolStart ==
  /\ ~on /\ ~halting /\ Room
  /\ on' = TRUE
  /\ pool' = Spawned(pool, MinThreads)
  /\ UNCHANGED <<halting, awaited, outcome, overtaken, failures>>

\* run() starts the pool that was stopped; its promise is rejected when
\* dispatch throws, whosever payload it was.
PoolRun(t) ==
  /\ outcome[t] = "new" /\ Room
  /\ LET started == IF on THEN pool ELSE Spawned(pool, MinThreads)
         queued == [started EXCEPT !.queue = Append(@, t)]
     IN /\ pool' = Dispatched(queued)
        /\ outcome' = [outcome EXCEPT ![t] = IF Refused(queued) = {} THEN "open" ELSE "settled"]
  /\ on' = TRUE
  /\ overtaken' = (overtaken \/ halting)
  /\ UNCHANGED <<halting, awaited, failures>>

\* The pool's owner stops it once at a time.
PoolStop ==
  /\ ~halting
  /\ on' = FALSE /\ halting' = TRUE /\ awaited' = pool.workers
  /\ Settle(Elements(pool.queue) \cup {pool.task[w] : w \in Threads})
  /\ pool' = [pool EXCEPT !.queue = <<>>, !.task = [w \in Threads |-> NoTask],
                          !.up = @ \ pool.workers, !.ending = @ \cup pool.workers]
  /\ UNCHANGED <<overtaken, failures>>

\* Every thread stop() terminated has exited; what was spawned since is
\* forgotten with them.
StopReturns ==
  /\ halting /\ awaited = {}
  /\ halting' = FALSE
  /\ pool' = [pool EXCEPT !.workers = {}, !.idle = <<>>]
  /\ UNCHANGED <<on, awaited, outcome, overtaken, failures>>

------------------------------------------------------------------------------
(* The events.                                                             *)

\* A thread answers its task and takes the next one.
Reply(w) ==
  /\ w \in pool.up /\ pool.task[w] \in Tasks \ Uncloneable /\ Room
  /\ Settle({pool.task[w]})
  /\ \E p \in {[pool EXCEPT !.task[w] = NoTask]} :
       pool' = IF on THEN Dispatched([p EXCEPT !.idle = Append(@, w)]) ELSE p
  /\ UNCHANGED <<on, halting, awaited, overtaken, failures>>

\* The exit follows.
ThreadErrs(w) ==
  /\ w \in pool.up
  /\ Settle({pool.task[w]})
  /\ failures < MaxFailures /\ failures' = failures + 1
  /\ pool' = [Without(pool, w) EXCEPT !.up = @ \ {w}, !.ending = @ \cup {w}]
  /\ UNCHANGED <<on, halting, awaited, overtaken>>

\* It was terminated or has failed, or exits of itself.
Leaves(w) ==
  \/ w \in pool.ending /\ UNCHANGED failures
  \/ w \in pool.up /\ failures < MaxFailures /\ failures' = failures + 1

\* Fault of ThreadExits: only the next call of run() looks at the queue again.
ThreadExitsQuietly(w) ==
  /\ Leaves(w) /\ Room
  /\ Settle({pool.task[w]})
  /\ LET left == [Without(pool, w) EXCEPT !.up = @ \ {w}, !.ending = @ \ {w}]
     IN pool' = IF on /\ Cardinality(left.workers) < MinThreads THEN Spawned(left, 1) ELSE left
  /\ awaited' = awaited \ {w}
  /\ UNCHANGED <<on, halting, overtaken>>

ThreadExits(w) ==
  /\ Leaves(w) /\ Room
  /\ Settle({pool.task[w]})
  /\ \E left \in {[Without(pool, w) EXCEPT !.up = @ \ {w}, !.ending = @ \ {w}]} :
       IF on
         THEN \E p \in {IF Cardinality(left.workers) < MinThreads THEN Spawned(left, 1) ELSE left} :
                pool' = Dispatched(p)
         ELSE pool' = left
  /\ awaited' = awaited \ {w}
  /\ UNCHANGED <<on, halting, overtaken>>

\* The timeout of a task that waits, or is with a thread.
TimesOut(t) ==
  /\ t \in Timed
  /\ \/ /\ t \in Elements(pool.queue)
        /\ pool' = [pool EXCEPT !.queue = Spliced(@, t)]
     \/ \E w \in Threads :
          /\ pool.task[w] = t
          /\ pool' = [pool EXCEPT !.task[w] = NoTask, !.up = @ \ {w}, !.ending = @ \cup {w}]
  /\ Settle({t})
  /\ UNCHANGED <<on, halting, awaited, overtaken, failures>>

PoolNext ==
  \/ PoolStart \/ PoolStop \/ StopReturns
  \/ \E t \in Tasks : PoolRun(t) \/ TimesOut(t)
  \/ \E w \in Threads : Reply(w) \/ ThreadErrs(w) \/ ThreadExits(w)

PoolSpec == PoolInit /\ [][PoolNext]_poolVars

------------------------------------------------------------------------------
(* Properties.                                                             *)

\* Whatever fails, times out or is stopped in between: a task whose caller
\* waits is in the queue or with one thread, a thread has one task or is idle
\* once, the pool knows of at most maxThreads that are up, and a stop that no
\* run() overtook leaves none (worker.ts:137-292).
EveryTaskIsHeld ==
  /\ \A t \in Tasks : outcome[t] = "open" =>
       Cardinality({i \in DOMAIN pool.queue : pool.queue[i] = t})
         + Cardinality({w \in Threads : pool.task[w] = t}) = 1
  /\ \A w \in pool.up :
       Cardinality({i \in DOMAIN pool.idle : pool.idle[i] = w})
         + (IF pool.task[w] = NoTask THEN 0 ELSE 1) <= 1
  /\ Cardinality(pool.workers \cap pool.up) <= MaxThreads
  /\ ~on /\ ~halting /\ ~overtaken => pool.up = {}

\* The promise of a task whose payload can be posted is settled, although
\* threads die, tasks time out, dispatch throws for others and the pool is
\* stopped and started again (worker.ts:137-271).
TasksSettle == \A t \in Tasks \ Uncloneable : outcome[t] = "open" ~> outcome[t] = "settled"
==============================================================================
