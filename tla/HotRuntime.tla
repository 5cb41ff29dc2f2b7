----------------------------- MODULE HotRuntime -----------------------------
(***************************************************************************)
(* The development server of zeruxjs replaces its application while it     *)
(* serves: rebuilds run one after the other, a new generation takes over   *)
(* when it is ready, and the one before it is drained of its requests and  *)
(* closed (packages/zeruxjs/src: bootstrap/hot-runtime.ts,                 *)
(* bootstrap/request-lifecycle.ts, commands/server.ts).                    *)
(*                                                                         *)
(* An action is what runs between two awaits.  A rebuild that fails has    *)
(* closed what it opened; a response that is finished or destroyed is out  *)
(* of flight, whatever its handler still does.                             *)
(*                                                                         *)
(* The definitions whose comment starts with `Fault' are used by nothing:  *)
(* each is a plausible bug of the definition below it.                     *)
(***************************************************************************)
EXTENDS Naturals

CONSTANTS
  Requests,     \* requests that may arrive, each once
  MaxReloads    \* bound: calls of reload

ASSUME ReloadsAssumption == MaxReloads \in Nat

Gens == 1..(MaxReloads + 1)

VARIABLES
  stage,     \* stage[g]: none, ready, draining, closing or disposed
  current,   \* the generation that answers
  waiting,   \* reloads in the queue
  reloads,   \* calls of reload
  made,      \* generations prepared so far
  doing,     \* idle, prepare, dispose or end
  victim,    \* the generation being disposed, or 0
  closed,    \* close was called
  serving,   \* serving[r]: the generation that answers r, or 0
  refused    \* requests answered with 503 before close (history)

hotVars == <<stage, current, waiting, reloads, made, doing, victim, closed, serving, refused>>

HotInit ==
  /\ stage = [g \in Gens |-> IF g = 1 THEN "ready" ELSE "none"]
  /\ current = 1 /\ waiting = 0 /\ reloads = 0 /\ made = 1
  /\ doing = "idle" /\ victim = 0 /\ closed = FALSE
  /\ serving = [r \in Requests |-> 0] /\ refused = {}

------------------------------------------------------------------------------
Reload ==
  /\ ~closed /\ reloads < MaxReloads
  /\ reloads' = reloads + 1 /\ waiting' = waiting + 1
  /\ UNCHANGED <<stage, current, made, doing, victim, closed, serving, refused>>

\* The next attempt of the queue; none is made after close.
Attempt ==
  /\ doing = "idle" /\ waiting > 0
  /\ waiting' = waiting - 1
  /\ doing' = IF closed THEN "idle" ELSE "prepare"
  /\ UNCHANGED <<stage, current, reloads, made, victim, closed, serving, refused>>

PrepareFails ==
  /\ doing = "prepare"
  /\ doing' = "idle"
  /\ UNCHANGED <<stage, current, waiting, reloads, made, victim, closed, serving, refused>>

\* g is asked to drain: from now on it refuses requests.
Dispose(g) == doing' = "dispose" /\ victim' = g

\* Fault of Prepared: the old generation drains before the new one answers.
PreparedLate ==
  /\ doing = "prepare"
  /\ Dispose(current)
  /\ stage' = [stage EXCEPT ![made + 1] = "ready", ![current] = "draining"]
  /\ made' = made + 1
  /\ UNCHANGED <<current, waiting, reloads, closed, serving, refused>>

\* Fault of Prepared: a generation that may not take over is left as it is.
PreparedUndisposed ==
  /\ doing = "prepare"
  /\ stage' = [stage EXCEPT ![made + 1] = "ready", ![current] = IF closed THEN @ ELSE "draining"]
  /\ IF closed THEN doing' = "idle" /\ UNCHANGED <<current, victim>>
     ELSE current' = made + 1 /\ Dispose(current)
  /\ made' = made + 1
  /\ UNCHANGED <<waiting, reloads, closed, serving, refused>>

\* A generation prepared after close, or whose activation throws, is disposed;
\* otherwise it takes over and the one before it is.
Prepared ==
  /\ doing = "prepare"
  /\ \E taken \in BOOLEAN :
       /\ taken => ~closed
       /\ current' = IF taken THEN made + 1 ELSE current
       /\ Dispose(IF taken THEN current ELSE made + 1)
       /\ stage' = [stage EXCEPT ![made + 1] = IF taken THEN "ready" ELSE "draining",
                                 ![current] = IF taken THEN "draining" ELSE @]
  /\ made' = made + 1
  /\ UNCHANGED <<waiting, reloads, closed, serving, refused>>

\* No response is left, or the deadline destroys those that are.
Drained ==
  /\ doing = "dispose" /\ stage[victim] = "draining"
  /\ stage' = [stage EXCEPT ![victim] = "closing"]
  /\ serving' = [r \in Requests |-> IF serving[r] = victim THEN 0 ELSE serving[r]]
  /\ UNCHANGED <<current, waiting, reloads, made, doing, victim, closed, refused>>

\* Workers, protocols and services are closed, or fail to.
Disposed ==
  /\ doing = "dispose" /\ stage[victim] = "closing"
  /\ stage' = [stage EXCEPT ![victim] = "disposed"]
  /\ victim' = 0
  /\ doing' = IF victim = current THEN "end" ELSE "idle"
  /\ UNCHANGED <<current, waiting, reloads, made, closed, serving, refused>>

Close ==
  /\ ~closed
  /\ closed' = TRUE
  /\ UNCHANGED <<stage, current, waiting, reloads, made, doing, victim, serving, refused>>

\* The queue has ended.
CloseCurrent ==
  /\ closed /\ doing = "idle" /\ waiting = 0
  /\ Dispose(current)
  /\ stage' = [stage EXCEPT ![current] = "draining"]
  /\ UNCHANGED <<current, waiting, reloads, made, closed, serving, refused>>

Arrive(r) ==
  /\ serving[r] = 0
  /\ IF stage[current] = "ready" THEN serving' = [serving EXCEPT ![r] = current] /\ UNCHANGED refused
     ELSE refused' = (IF closed THEN refused ELSE refused \cup {r}) /\ UNCHANGED serving
  /\ UNCHANGED <<stage, current, waiting, reloads, made, doing, victim, closed>>

Answer(r) ==
  /\ serving[r] # 0
  /\ serving' = [serving EXCEPT ![r] = 0]
  /\ UNCHANGED <<stage, current, waiting, reloads, made, doing, victim, closed, refused>>

HotNext ==
  \/ Reload \/ Attempt \/ PrepareFails \/ Prepared \/ Drained \/ Disposed \/ Close \/ CloseCurrent
  \/ \E r \in Requests : Arrive(r) \/ Answer(r)

HotSpec == HotInit /\ [][HotNext]_hotVars

------------------------------------------------------------------------------
(* Properties.                                                             *)

HotTypeOK ==
  /\ stage \in [Gens -> {"none", "ready", "draining", "closing", "disposed"}]
  /\ current \in Gens /\ made \in Gens /\ victim \in Gens \cup {0}
  /\ reloads \in 0..MaxReloads /\ waiting \in Nat
  /\ doing \in {"idle", "prepare", "dispose", "end"} /\ closed \in BOOLEAN
  /\ serving \in [Requests -> Gens \cup {0}] /\ refused \subseteq Requests

\* Every generation that was prepared is disposed, except the one that answers
\* and the one being disposed, also when close comes while a rebuild is under
\* way; after close none is left (hot-runtime.ts:29-62).
OneGeneration ==
  /\ \A g \in Gens :
       stage[g] \in {"ready", "draining", "closing"} => g = victim \/ (g = current /\ doing # "end")
  /\ doing = "end" => closed

\* A response under way belongs to a generation whose services are up, and no
\* request is refused before close (request-lifecycle.ts:19-63,
\* server.ts:188-202).
RequestsAreServed ==
  /\ \A r \in Requests : serving[r] # 0 => stage[serving[r]] \in {"ready", "draining"}
  /\ refused = {}
==============================================================================
