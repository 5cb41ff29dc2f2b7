------------------------------ MODULE RollingApp ------------------------------
(***************************************************************************)
(* A rolling application of zhost: a wrapper process owns the generations  *)
(* of one application, cuts traffic over from one to the next and stops    *)
(* them (packages/zhost/src/portless/rolling-app.ts, run by                *)
(* rolling-command.ts).  Every child is recorded in a file                 *)
(* (generation-registry.ts), so that after a crash of the wrapper somebody *)
(* can find and stop what it left (recoverRollingGenerations).             *)
(*                                                                         *)
(* An action is what the wrapper does between two awaits; `dpc' is the     *)
(* await of deploy (or of the first launch) and `spc' that of stop, which  *)
(* interleave.  What is abstracted:                                        *)
(*   - one hostname; a lease is the number of the wrapper that holds it,   *)
(*     other applications share the number 0; the locks of the operation   *)
(*     and of the route file are held throughout, as they are in the code; *)
(*   - a health check answers anything, and its answer may arrive after    *)
(*     the child exited; repeated checks are one;                          *)
(*   - a drain ends, idle or at its deadline; a child's exit and the       *)
(*     wrapper's notice of it are one step;                                *)
(*   - recovery goes on where a recovery that died stopped, and is         *)
(*     finished before the next wrapper starts, as the same lock demands.  *)
(*                                                                         *)
(* The definitions whose comment starts with `Fault' are used by nothing:  *)
(* each is a plausible bug of the definition below it.                     *)
(***************************************************************************)
EXTENDS Naturals

CONSTANTS
  NPorts,        \* loopback ports of the application
  MaxChildren,   \* bound: children spawned
  MaxWrappers,   \* bound: wrapper processes, one after the other
  MaxCrashes,    \* bound: wrappers killed
  MaxTakeovers,  \* bound: forced registrations by other applications
  MaxFaults      \* bound: calls that fail (drain, route file, record)

ASSUME PortsAssumption == NPorts \in Nat /\ NPorts >= 2
ASSUME BoundsAssumption ==
  /\ MaxChildren \in Nat /\ MaxWrappers \in Nat /\ MaxCrashes \in Nat
  /\ MaxTakeovers \in Nat /\ MaxFaults \in Nat

Children == 1..MaxChildren
Ports == 0..(NPorts - 1)
None == 0       \* no child
Other == 0      \* the leases of other applications
NoRoute == [lease |-> Other, port |-> NPorts]   \* the host is not routed
NoRecord == [owner |-> 0, children |-> {}, leased |-> FALSE]

VARIABLES
  child,     \* child[g]: absent, booting, up or exited
  port,      \* port[g]: the port given to g
  route,     \* what the route file holds for the host
  record,    \* the generation record: its owner, children, whether it has the lease
  wrapper,   \* the wrapper process: off or on
  epoch,     \* how many wrappers started
  dpc,       \* what deploy (or the first launch) awaits
  spc,       \* what stop awaits
  phase,     \* snapshot.phase
  active,    \* the active generation, or None
  peer,      \* the candidate; once the candidate is active, the old generation
  watched,   \* the generation whose exit the wrapper waits for
  orphaned,  \* history: children their wrapper left before they were recorded
  torn,      \* history: a route was not taken back because the write failed
  crashes, takeovers, faults   \* how many there were

appVars == <<active, peer, watched>>
histVars == <<orphaned, torn>>
countVars == <<crashes, takeovers>>
vars == <<child, port, route, record, wrapper, epoch, dpc, spc, phase, appVars, histVars,
          countVars, faults>>

Init ==
  /\ child = [g \in Children |-> "absent"]
  /\ port = [g \in Children |-> 0]
  /\ route = NoRoute
  /\ record = NoRecord
  /\ wrapper = "off" /\ epoch = 0
  /\ dpc = "idle" /\ spc = "no" /\ phase = "none"
  /\ active = None /\ peer = None /\ watched = None
  /\ orphaned = {} /\ torn = FALSE
  /\ crashes = 0 /\ takeovers = 0 /\ faults = 0

------------------------------------------------------------------------------
Running(g) == child[g] \in {"booting", "up"}
Launched == wrapper = "on" /\ active # None
Mine == route.lease = epoch      \* the route file holds this wrapper's lease
Unspawned == {g \in Children : child[g] = "absent"}

NextPort == IF active = None THEN 0 ELSE (port[active] + 1) % NPorts

Fault ==
  /\ faults < MaxFaults
  /\ faults' = faults + 1

Exited(g) == child' = [child EXCEPT ![g] = "exited"]
Untracked(r, g) == [r EXCEPT !.children = @ \ {g}]

\* Fault of Closed: the record is removed whatever it lists.
ClosedUnchecked(r, state) == NoRecord

\* registry.close(): the record is kept while a tracked child runs.
Closed(r, state) ==
  IF \E g \in r.children : state[g] \in {"booting", "up"} THEN r ELSE NoRecord

\* The wrapper process is gone, and what it knew with it.
Off ==
  /\ wrapper' = "off"
  /\ dpc' = "idle" /\ spc' = "no" /\ phase' = "none"
  /\ active' = None /\ peer' = None /\ watched' = None

BeginStop == spc' = "waiting" /\ phase' = "stopping"

\* deploy is over; unless the application stops, it runs.
Finish ==
  /\ dpc' = "idle"
  /\ phase' = IF spc = "no" THEN "running" ELSE phase

\* The launch of a child threw: a deployment is over, a wrapper that has no
\* generation yet closes its record, here r, and ends.
LaunchFailed(r) ==
  \/ /\ active = None
     /\ record' = Closed(r, child')
     /\ Off
  \/ /\ active # None
     /\ record' = r
     /\ Finish
     /\ UNCHANGED <<wrapper, spc, appVars>>

------------------------------------------------------------------------------
(* startRollingFromCLI and the launch of a child.                          *)

Start ==
  /\ wrapper = "off" /\ record = NoRecord
  /\ epoch < MaxWrappers /\ Unspawned # {}
  /\ wrapper' = "on" /\ epoch' = epoch + 1
  /\ record' = [owner |-> epoch + 1, children |-> {}, leased |-> FALSE]
  /\ dpc' = "launch"
  /\ UNCHANGED <<child, port, route, spc, phase, appVars, histVars, countVars, faults>>

Deploy ==
  /\ Launched /\ spc = "no" /\ dpc = "idle"
  /\ Running(active) /\ Unspawned # {}
  /\ dpc' = "launch" /\ phase' = "deploying"
  /\ UNCHANGED <<child, port, route, record, wrapper, epoch, spc, appVars, histVars,
                 countVars, faults>>

Occupied == \E g \in Children : child[g] = "up" /\ port[g] = NextPort

PortBusy ==
  /\ dpc = "launch" /\ Occupied
  /\ UNCHANGED child
  /\ LaunchFailed(record)
  /\ UNCHANGED <<port, route, epoch, histVars, countVars, faults>>

\* spawn and onSpawn: the child is tracked, its record could not be written,
\* or the wrapper was killed in between.
Spawn ==
  /\ dpc = "launch" /\ ~Occupied
  /\ \E g \in Unspawned :
       /\ \A h \in Unspawned : g <= h
       /\ child' = [child EXCEPT ![g] = "booting"]
       /\ port' = [port EXCEPT ![g] = NextPort]
       /\ \/ /\ record' = [record EXCEPT !.children = @ \cup {g}]
             /\ dpc' = "boot" /\ peer' = g
             /\ UNCHANGED <<wrapper, spc, phase, active, watched, orphaned, crashes, faults>>
          \/ /\ Fault
             /\ dpc' = "unboot" /\ peer' = g
             /\ UNCHANGED <<record, wrapper, spc, phase, active, watched, orphaned, crashes>>
          \/ /\ crashes < MaxCrashes /\ crashes' = crashes + 1
             /\ orphaned' = orphaned \cup {g}
             /\ Off
             /\ UNCHANGED <<record, faults>>
  /\ UNCHANGED <<route, epoch, torn, takeovers>>

\* The first child is ready: its route is published and the lease recorded,
\* unless the host is taken (by other applications, which live) and not forced;
\* a lease that cannot be recorded is given back.
Publish ==
  /\ dpc = "boot" /\ active = None /\ child[peer] = "booting"
  /\ child' = [child EXCEPT ![peer] = "up"]
  /\ \/ /\ route' = [lease |-> epoch, port |-> port[peer]]
        /\ record' = [record EXCEPT !.leased = TRUE]
        /\ dpc' = "idle" /\ phase' = "running"
        /\ active' = peer /\ watched' = peer /\ peer' = None
        /\ UNCHANGED faults
     \/ /\ route # NoRoute /\ route.lease = Other
        /\ dpc' = "unboot"
        /\ UNCHANGED <<route, record, phase, appVars, faults>>
     \/ /\ Fault /\ route' = NoRoute
        /\ dpc' = "unboot"
        /\ UNCHANGED <<record, phase, appVars>>
  /\ UNCHANGED <<port, wrapper, epoch, spc, histVars, countVars>>

Ready ==
  /\ dpc = "boot" /\ active # None /\ child[peer] = "booting"
  /\ child' = [child EXCEPT ![peer] = "up"]
  /\ dpc' = IF spc = "no" /\ Running(active) THEN "probe" ELSE "reap"
  /\ UNCHANGED <<port, route, record, wrapper, epoch, spc, phase, appVars, histVars,
                 countVars, faults>>

\* The child exited before it was ready, or is not ready in time.
NotReady ==
  /\ dpc = "boot"
  /\ UNCHANGED <<child, port, route, epoch, histVars, countVars, faults>>
  /\ \/ child[peer] = "exited" /\ LaunchFailed(record)
     \/ /\ child[peer] = "booting" /\ dpc' = "unboot"
        /\ UNCHANGED <<record, wrapper, spc, phase, appVars>>

Unboot ==
  /\ dpc = "unboot"
  /\ Exited(peer)
  /\ LaunchFailed(Untracked(record, peer))
  /\ UNCHANGED <<port, route, epoch, histVars, countVars, faults>>

------------------------------------------------------------------------------
(* deploy, from the check before the cutover to the end.                   *)

\* Fault of Cutover: the lease is not looked at.
CutoverUnleased ==
  /\ dpc = "probe" /\ spc = "no" /\ Running(active)
  /\ route' = [lease |-> epoch, port |-> port[peer]]
  /\ dpc' = "verify"
  /\ UNCHANGED <<child, port, record, wrapper, epoch, spc, phase, appVars, histVars,
                 countVars, faults>>

\* The candidate is unhealthy, the application stops, the old generation is
\* gone, the lease is lost, or the route file cannot be written: no cutover.
Cutover ==
  /\ dpc = "probe"
  /\ \/ /\ spc = "no" /\ Running(active) /\ Mine
        /\ route' = [route EXCEPT !.port = port[peer]]
        /\ dpc' = "verify"
     \/ dpc' = "reap" /\ UNCHANGED route
  /\ UNCHANGED <<child, port, record, wrapper, epoch, spc, phase, appVars, histVars,
                 countVars, faults>>

\* Fault of Rollback: the candidate is stopped while it has the route.
RollbackForgotten ==
  /\ dpc' = "reap"
  /\ UNCHANGED <<route, phase, torn, faults>>

\* The route goes back, or is no longer ours, or the write throws: then the
\* candidate is neither stopped nor known any more.
Rollback ==
  \/ /\ Mine
     /\ route' = [route EXCEPT !.port = port[active]]
     /\ dpc' = "reap"
     /\ UNCHANGED <<phase, torn, faults>>
  \/ /\ ~Mine
     /\ dpc' = "reap" /\ phase' = "running"
     /\ UNCHANGED <<route, torn, faults>>
  \/ /\ Fault /\ torn' = TRUE
     /\ dpc' = "idle"
     /\ UNCHANGED <<route, phase>>

\* Fault of Verify: the candidate does not become the active generation.
VerifyWithoutCommit ==
  /\ dpc = "verify"
  /\ \/ dpc' = "drain" /\ phase' = "draining" /\ UNCHANGED <<route, torn, faults>>
     \/ Rollback
  /\ UNCHANGED <<child, port, record, wrapper, epoch, spc, appVars, orphaned, countVars>>

Verify ==
  /\ dpc = "verify"
  /\ \/ /\ active' = peer /\ peer' = active
        /\ dpc' = "drain" /\ phase' = "draining"
        /\ UNCHANGED <<route, torn, faults>>
     \/ Rollback /\ UNCHANGED <<active, peer>>
  /\ UNCHANGED <<child, port, record, wrapper, epoch, spc, watched, orphaned, countVars>>

\* Fault of Drain: there is no deadline.
DrainWithoutDeadline == FALSE

\* The observer is the proxy: when it does not answer, the old generation stays.
Drain ==
  /\ dpc = "drain"
  /\ \/ dpc' = "stopOld" /\ UNCHANGED <<phase, faults>>
     \/ Finish /\ Fault
  /\ UNCHANGED <<child, port, route, record, wrapper, epoch, spc, appVars, histVars, countVars>>

\* The cutover is done: from now on the new generation is watched.
StopOld ==
  /\ dpc = "stopOld"
  /\ Exited(peer) /\ record' = Untracked(record, peer)
  /\ watched' = active /\ dpc' = "idle"
  /\ \/ spc = "no" /\ Running(active) /\ phase' = "running" /\ UNCHANGED spc
     \/ spc = "no" /\ ~Running(active) /\ BeginStop
     \/ spc # "no" /\ UNCHANGED <<spc, phase>>
  /\ UNCHANGED <<port, route, wrapper, epoch, active, peer, histVars, countVars, faults>>

Reap ==
  /\ dpc = "reap"
  /\ Exited(peer) /\ record' = Untracked(record, peer)
  /\ Finish
  /\ UNCHANGED <<port, route, wrapper, epoch, spc, appVars, histVars, countVars, faults>>

------------------------------------------------------------------------------
(* stop, and the end of the wrapper.                                       *)

Stop ==
  /\ Launched /\ spc = "no"
  /\ BeginStop
  /\ UNCHANGED <<child, port, route, record, wrapper, epoch, dpc, appVars, histVars,
                 countVars, faults>>

Release ==
  /\ spc = "waiting" /\ dpc = "idle"
  /\ \/ /\ route' = IF Mine THEN NoRoute ELSE route
        /\ spc' = "draining"
        /\ UNCHANGED <<torn, faults>>
     \/ /\ Fault /\ torn' = TRUE
        /\ spc' = "drainingRouted"
        /\ UNCHANGED route
  /\ UNCHANGED <<child, port, record, wrapper, epoch, dpc, phase, appVars, orphaned, countVars>>

\* When the proxy does not answer, stop throws and the application runs on.
StopDrain ==
  /\ \/ spc = "draining" /\ spc' = "closing" /\ UNCHANGED faults
     \/ spc = "drainingRouted" /\ spc' = "closingRouted" /\ UNCHANGED faults
     \/ spc \in {"draining", "drainingRouted"} /\ spc' = "failed" /\ Fault
  /\ UNCHANGED <<child, port, route, record, wrapper, epoch, dpc, phase, appVars, histVars,
                 countVars>>

\* Only a stop that threw nothing closes the record.
StopActive ==
  /\ spc \in {"closing", "closingRouted"}
  /\ Exited(active) /\ phase' = "stopped"
  /\ LET r == Untracked(record, active) IN
     \/ spc = "closing" /\ spc' = "done" /\ record' = Closed(r, child')
     \/ spc = "closingRouted" /\ spc' = "failed" /\ record' = r
  /\ UNCHANGED <<port, route, wrapper, epoch, dpc, appVars, histVars, countVars, faults>>

\* A running child keeps its wrapper's event loop alive.
Leave ==
  /\ spc \in {"done", "failed"}
  /\ \A g \in record.children : ~Running(g)
  /\ Off
  /\ UNCHANGED <<child, port, route, record, epoch, histVars, countVars, faults>>

Crash ==
  /\ wrapper = "on" /\ crashes < MaxCrashes
  /\ crashes' = crashes + 1
  /\ orphaned' = orphaned \cup {g \in Children : Running(g) /\ g \notin record.children}
  /\ Off
  /\ UNCHANGED <<child, port, route, record, epoch, torn, takeovers, faults>>

------------------------------------------------------------------------------
(* The children, other applications, and recovery.                         *)

\* The wrapper cleans up after the generation it watches, if that is active
\* and the phase is running.
Exit(g) ==
  /\ Running(g)
  /\ Exited(g)
  /\ record' = IF wrapper = "on" THEN Untracked(record, g) ELSE record
  /\ IF wrapper = "on" /\ g = watched /\ g = active /\ phase = "running" /\ spc = "no"
     THEN BeginStop ELSE UNCHANGED <<spc, phase>>
  /\ UNCHANGED <<port, route, wrapper, epoch, dpc, appVars, histVars, countVars, faults>>

\* A child that nobody waits for comes up all the same.
Listen(g) ==
  /\ g \in orphaned /\ child[g] = "booting"
  /\ child' = [child EXCEPT ![g] = "up"]
  /\ UNCHANGED <<port, route, record, wrapper, epoch, dpc, spc, phase, appVars, histVars,
                 countVars, faults>>

Takeover ==
  /\ takeovers < MaxTakeovers
  /\ takeovers' = takeovers + 1
  /\ \E p \in Ports : route' = [lease |-> Other, port |-> p]
  /\ UNCHANGED <<child, port, record, wrapper, epoch, dpc, spc, phase, appVars, histVars,
                 crashes, faults>>

OtherLeaves ==
  /\ route # NoRoute /\ route.lease = Other
  /\ route' = NoRoute
  /\ UNCHANGED <<child, port, record, wrapper, epoch, dpc, spc, phase, appVars, histVars,
                 countVars, faults>>

RecoverChild(g) ==
  /\ wrapper = "off" /\ g \in record.children /\ Running(g)
  /\ Exited(g)
  /\ UNCHANGED <<port, route, record, wrapper, epoch, dpc, spc, phase, appVars, histVars,
                 countVars, faults>>

\* Fault of DeleteRecord: the record goes before its children are stopped.
DeleteRecordFirst ==
  /\ wrapper = "off" /\ record # NoRecord
  /\ record' = NoRecord
  /\ UNCHANGED <<child, port, route, wrapper, epoch, dpc, spc, phase, appVars, histVars,
                 countVars, faults>>

\* The lease is given back if it is recorded and still held; then the record goes.
DeleteRecord ==
  /\ wrapper = "off" /\ record # NoRecord
  /\ \A g \in record.children : ~Running(g)
  /\ IF record.leased /\ route.lease = record.owner
     THEN route' = NoRoute /\ UNCHANGED record
     ELSE record' = NoRecord /\ UNCHANGED route
  /\ UNCHANGED <<child, port, wrapper, epoch, dpc, spc, phase, appVars, histVars,
                 countVars, faults>>

------------------------------------------------------------------------------
DeployStep ==
  \/ PortBusy \/ Spawn \/ Publish \/ Ready \/ NotReady \/ Unboot
  \/ Cutover \/ Verify \/ Drain \/ StopOld \/ Reap
StopStep == Release \/ StopDrain \/ StopActive \/ Leave
Recover == DeleteRecord \/ \E g \in Children : RecoverChild(g)

Next ==
  \/ Start \/ Deploy \/ Stop \/ Crash \/ Takeover \/ OtherLeaves
  \/ DeployStep \/ StopStep \/ Recover
  \/ \E g \in Children : Exit(g) \/ Listen(g)

Spec == Init /\ [][Next]_vars

\* What the wrapper awaits comes: a probe, a drain or a stop has its deadline,
\* a child that is stopped is killed in the end.  Somebody runs recovery.
FairSpec == Spec /\ WF_vars(DeployStep) /\ WF_vars(StopStep) /\ WF_vars(Recover)
------------------------------------------------------------------------------
(* Properties.                                                             *)

\* Every variable keeps its shape.
TypeOK ==
  /\ child \in [Children -> {"absent", "booting", "up", "exited"}]
  /\ port \in [Children -> Ports]
  /\ route \in [lease : 0..MaxWrappers, port : 0..NPorts]
  /\ record \in [owner : 0..MaxWrappers, children : SUBSET Children, leased : BOOLEAN]
  /\ wrapper \in {"off", "on"} /\ epoch \in 0..MaxWrappers
  /\ dpc \in {"idle", "launch", "boot", "unboot", "probe", "verify", "drain", "stopOld", "reap"}
  /\ spc \in {"no", "waiting", "draining", "drainingRouted", "closing", "closingRouted",
               "done", "failed"}
  /\ phase \in {"none", "running", "deploying", "draining", "stopping", "stopped"}
  /\ active \in Children \cup {None} /\ peer \in Children \cup {None}
  /\ watched \in Children \cup {None}
  /\ orphaned \subseteq Children /\ torn \in BOOLEAN
  /\ crashes \in 0..MaxCrashes /\ takeovers \in 0..MaxTakeovers /\ faults \in 0..MaxFaults

\* generation-registry.ts:110-138, rolling-command.ts:54-59,85-104.  Whatever
\* fails and whenever the wrapper dies, a child that still runs is in the
\* record that recovery reads, or its launch is just being undone; only a
\* wrapper killed before it could record a child leaves one nobody finds.
RecordCoversChildren ==
  \A g \in Children : Running(g) =>
    \/ g \in record.children \cup orphaned
    \/ wrapper = "on" /\ dpc = "unboot" /\ peer = g

\* rolling-app.ts:134-165.  While the status is running and nothing is
\* under way, the route a wrapper holds leads to its active generation.
StatusIsRouted ==
  (phase = "running" /\ dpc = "idle" /\ Mine /\ ~torn) => route.port = port[active]

Condemned ==
  {g \in Children : \/ dpc \in {"drain", "stopOld", "reap"} /\ g = peer
                    \/ spc \in {"draining", "closing"} /\ g = active}

\* rolling-app.ts:135,149-150,154-163,178-181.  A generation is drained and stopped
\* only when the route does not lead to it, however deploy, rollback, stop and
\* a takeover interleave.
StoppedOffRoute ==
  \A g \in Condemned : Mine /\ ~torn => route.port # port[g]

\* routes.ts:317-345, rolling-app.ts:154-161.  A route somebody else registered
\* is not changed by a wrapper that lost it, nor by recovery; only a wrapper
\* that starts with force takes it over.
OthersRouteStands ==
  [][route # NoRoute /\ route.lease = Other /\ route' # route
       => Takeover \/ OtherLeaves \/ Publish]_vars

\* rolling-app.ts:111-186.  A deployment ends, and a stop ends in a stopped
\* application or an error, with or without a deployment to wait for.
OperationsEnd ==
  /\ dpc # "idle" ~> dpc = "idle"
  /\ spc # "no" ~> spc \in {"no", "done", "failed"}

\* generation-registry.ts:179-217.  Once the wrapper is gone for good, the
\* children it recorded are stopped and its record is removed.
OrphansAreCollected ==
  wrapper = "off" ~> (wrapper = "on" \/ (record = NoRecord /\ \A g \in Children :
                                           Running(g) => g \in orphaned))

\* rolling-app.ts:54.  `Idempotent. First withdraws the route, then drains and
\* stops children.'
StopEndsChildren == spc \in {"done", "failed"} => \A g \in record.children : ~Running(g)
==============================================================================
