----------------------------- MODULE ManagedApp -----------------------------
(***************************************************************************)
(* An application zhost keeps running: one supervised child after the      *)
(* other, restarted when it exits or fails its health checks, on demand,   *)
(* or never, and routed only while one is ready                            *)
(* (packages/zhost/src/portless: managed-app.ts, process-supervisor.ts).   *)
(*                                                                         *)
(* `loop' is what the supervising loop awaits; restart and stop are called *)
(* at any of these awaits, and a child exits when it likes.  What is       *)
(* abstracted: status snapshots and their listeners; health checks, which  *)
(* fail at any time; delays; the times of restarts, of which only the      *)
(* number within the window is kept; a child that is stopped is killed in  *)
(* the end.                                                                *)
(*                                                                         *)
(* The definitions whose comment starts with `Fault' are used by nothing:  *)
(* each is a plausible bug of the definition below it.                     *)
(***************************************************************************)
EXTENDS Naturals

CONSTANT MaxRestarts   \* automatic restarts within the window

ASSUME RestartsAssumption == MaxRestarts \in Nat

VARIABLES
  policy,    \* restartPolicy: never, on-failure or always
  loop,      \* launch, boot, reap, publish, unpublish, watch, pause, done or failed
  kind,      \* what the last launch is for: first, manual or auto
  alive,     \* the child runs
  signalled, \* the child is being stopped
  active,    \* restart and stop know the child
  routed,    \* the route is registered
  manual,    \* a restart is asked for and not answered
  stopping,  \* stop was called
  restarts   \* automatic restarts within the window

managedVars ==
  <<policy, loop, kind, alive, signalled, active, routed, manual, stopping, restarts>>

ManagedInit ==
  /\ policy \in {"never", "on-failure", "always"}
  /\ loop = "launch" /\ kind = "first"
  /\ alive = FALSE /\ signalled = FALSE
  /\ active = FALSE /\ routed = FALSE
  /\ manual = FALSE /\ stopping = FALSE
  /\ restarts = 0

------------------------------------------------------------------------------
Launch(k) == loop' = "launch" /\ kind' = k /\ UNCHANGED manual

\* finish(): whoever waits for a restart is told.
Finish == loop' = "done" /\ manual' = FALSE /\ UNCHANGED kind

\* spawn() threw: the first launch is the caller's error, a manual restart
\* ends the application, an automatic one goes through the loop again.
SpawnFailed ==
  /\ routed' = FALSE
  /\ \/ kind = "first" /\ loop' = "failed" /\ UNCHANGED <<kind, manual>>
     \/ kind = "manual" /\ Finish
     \/ kind = "auto" /\ loop' = "watch" /\ UNCHANGED <<kind, manual>>

------------------------------------------------------------------------------
(* spawn().                                                                *)

Spawn ==
  /\ loop = "launch"
  /\ alive' = TRUE /\ signalled' = FALSE /\ loop' = "boot"
  /\ UNCHANGED <<policy, kind, active, routed, manual, stopping, restarts>>

\* The port is taken, or the child is gone before it is ready or after it was
\* stopped.
NotSpawned ==
  /\ loop = "launch" \/ (loop \in {"boot", "reap", "unpublish"} /\ ~alive)
  /\ SpawnFailed
  /\ UNCHANGED <<policy, alive, signalled, active, stopping, restarts>>

TimeOut ==
  /\ loop = "boot" /\ alive
  /\ signalled' = TRUE /\ loop' = "reap"
  /\ UNCHANGED <<policy, kind, alive, active, routed, manual, stopping, restarts>>

Ready ==
  /\ loop = "boot" /\ alive
  /\ active' = TRUE
  /\ IF stopping THEN loop' = "reap" /\ signalled' = TRUE
                 ELSE loop' = "publish" /\ UNCHANGED signalled
  /\ UNCHANGED <<policy, kind, alive, routed, manual, stopping, restarts>>

\* Fault of Published: a restart asked for during an automatic one is forgotten.
PublishedDeaf ==
  /\ loop = "publish" /\ alive /\ ~stopping
  /\ routed' = TRUE /\ loop' = "watch"
  /\ manual' = (manual /\ kind # "manual")
  /\ UNCHANGED <<policy, kind, alive, signalled, active, stopping, restarts>>

\* A restart asked for during an automatic one comes next.
Published ==
  /\ loop = "publish" /\ alive /\ ~stopping
  /\ routed' = TRUE /\ loop' = "watch"
  /\ manual' = (manual /\ kind # "manual")
  /\ signalled' = (signalled \/ (manual /\ kind = "auto"))
  /\ UNCHANGED <<policy, kind, alive, active, stopping, restarts>>

\* onReady threw, or the child exited or is to stop while it was published.
NotPublished ==
  /\ loop = "publish"
  /\ \/ /\ alive
        /\ loop' = "unpublish" /\ signalled' = TRUE
        /\ routed' \in {stopping, FALSE}
        /\ UNCHANGED <<kind, manual>>
     \/ ~alive /\ SpawnFailed /\ UNCHANGED signalled
  /\ UNCHANGED <<policy, alive, active, stopping, restarts>>

------------------------------------------------------------------------------
(* The loop.                                                               *)

\* The status of an exit is any.
Gone ==
  /\ loop = "watch" /\ ~alive
  /\ routed' = FALSE /\ active' = FALSE
  /\ \/ stopping /\ Finish /\ UNCHANGED restarts
     \/ ~stopping /\ manual /\ Launch("manual") /\ UNCHANGED restarts
     \/ /\ ~stopping /\ ~manual
        /\ policy # "always" \/ restarts = MaxRestarts
        /\ Finish /\ UNCHANGED restarts
     \/ /\ ~stopping /\ ~manual
        /\ policy # "never" /\ restarts < MaxRestarts
        /\ restarts' = restarts + 1 /\ loop' = "pause" /\ UNCHANGED <<kind, manual>>
  /\ UNCHANGED <<policy, alive, signalled, stopping>>

Paused ==
  /\ loop = "pause"
  /\ IF stopping THEN Finish ELSE Launch(IF manual THEN "manual" ELSE "auto")
  /\ UNCHANGED <<policy, alive, signalled, active, routed, stopping, restarts>>

LoopStep ==
  Spawn \/ NotSpawned \/ TimeOut \/ Ready \/ Published \/ NotPublished \/ Gone \/ Paused

------------------------------------------------------------------------------
(* Callers, the child, and time.                                           *)

\* The handle exists, and the application is neither stopping nor over.
Callable ==
  /\ kind # "first" \/ loop = "watch" \/ loop = "pause"
  /\ loop # "done" /\ ~stopping

Signal == signalled' = (signalled \/ (active /\ alive))

AskRestart ==
  /\ Callable /\ ~manual
  /\ manual' = TRUE
  /\ Signal
  /\ UNCHANGED <<policy, loop, kind, alive, active, routed, stopping, restarts>>

AskStop ==
  /\ Callable
  /\ stopping' = TRUE /\ manual' = FALSE
  /\ Signal
  /\ UNCHANGED <<policy, loop, kind, alive, active, routed, restarts>>

Unhealthy ==
  /\ loop = "watch" /\ alive /\ ~stopping /\ ~manual
  /\ signalled' = TRUE
  /\ UNCHANGED <<policy, loop, kind, alive, active, routed, manual, stopping, restarts>>

Exit ==
  /\ alive
  /\ alive' = FALSE
  /\ UNCHANGED <<policy, loop, kind, signalled, active, routed, manual, stopping, restarts>>

WindowMoves ==
  /\ restarts > 0
  /\ restarts' = restarts - 1
  /\ UNCHANGED <<policy, loop, kind, alive, signalled, active, routed, manual, stopping>>

ManagedNext == LoopStep \/ AskRestart \/ AskStop \/ Unhealthy \/ Exit \/ WindowMoves

ManagedSpec == ManagedInit /\ [][ManagedNext]_managedVars

------------------------------------------------------------------------------
\* Whenever they are called, at whatever await of the loop, a restart is
\* answered, and after a stop nothing runs or is routed any more
\* (managed-app.ts:91-127, 136-155, 192-250).
CommandsSettle ==
  /\ manual ~> ~manual
  /\ stopping ~> [](loop = "done" /\ ~alive /\ ~routed)
==============================================================================
