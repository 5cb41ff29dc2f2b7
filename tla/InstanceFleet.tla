---------------------------- MODULE InstanceFleet ----------------------------
(***************************************************************************)
(* A fleet of zhost: one controller keeps a desired number of processes of *)
(* an application behind one route lease, replaces those that exit or turn *)
(* unhealthy, and is scaled and stopped by operators                       *)
(* (packages/zhost/src/portless/instance-fleet.ts).                        *)
(*                                                                         *)
(* An action is what the controller does between two awaits, or one turn   *)
(* of a loop.  Reconciling and resizing exclude each other and share `pc'; *)
(* stop comes at any moment and waits for them.  What is abstracted:       *)
(*   - the fleet has been launched; the newest of equally healthy members  *)
(*     is any of them;                                                     *)
(*   - a member that fails its checks stays healthy for a while: the count *)
(*     of failures is a choice, made when the checks of a round are in;    *)
(*   - an attempt of the restart budget expires at any time;               *)
(*   - a drain ends, idle or at its deadline, or fails; a child that never *)
(*     became ready is reaped in the step that gives it up.                *)
(*                                                                         *)
(* The definitions whose comment starts with `Fault' are used by nothing:  *)
(* each is a plausible bug of the definition below it.                     *)
(***************************************************************************)
EXTENDS Naturals, FiniteSets

CONSTANTS
  NPorts,        \* loopback ports of the fleet
  Targets,       \* replica counts it is launched with or scaled to
  Limit,         \* maxReplacements, per restart window
  MaxTroubles,   \* bound: exits, failed checks and failed launches
  MaxScales,     \* bound: scaleTo calls
  MaxTakeovers,  \* bound: forced registrations by other applications
  MaxFaults      \* bound: drains and budget records that fail

ASSUME TargetsAssumption == \A n \in Targets : n \in Nat /\ 1 <= n /\ n < NPorts
ASSUME BoundsAssumption ==
  /\ NPorts \in Nat /\ Limit \in Nat /\ MaxTroubles \in Nat /\ MaxScales \in Nat
  /\ MaxTakeovers \in Nat /\ MaxFaults \in Nat

Ports == 1..NPorts
NoPort == 0

VARIABLES
  proc,      \* proc[p]: the child given port p: none, booting, up or exited
  members,   \* the ports in the member table
  healthy,   \* members marked healthy
  routed,    \* members marked routed
  owner,     \* whose lease the route file holds: fleet, other or nobody
  route,     \* the ports it leads to while it is the fleet's
  pc,        \* what the operation in progress does next
  mode,      \* why it launches or drains: replace, restore, grow or shrink
  todo,      \* members this round has not looked at yet
  old,       \* the member being replaced or retired
  spare,     \* the port of the candidate
  errors,    \* the round or the resize has failures
  desired,   \* desiredReplicas
  target,    \* the replicas a pending resize asks for, or 0
  used,      \* attempts in the restart window
  phase,     \* phase of the published status
  stopping,  \* stop was called
  troubles, scales, takeovers, faults   \* how many there were

tableVars == <<members, healthy, routed>>
routeVars == <<owner, route>>
roundVars == <<mode, todo, old, spare, errors>>
sizeVars == <<desired, target, used>>
countVars == <<troubles, scales, takeovers, faults>>
vars == <<proc, tableVars, routeVars, pc, roundVars, sizeVars, phase, stopping, countVars>>

Init ==
  /\ \E n \in Targets : desired = n
  /\ members = 1..desired /\ healthy = 1..desired /\ routed = 1..desired /\ route = 1..desired
  /\ proc = [p \in Ports |-> IF p \in 1..desired THEN "up" ELSE "none"]
  /\ owner = "fleet" /\ pc = "idle" /\ mode = "replace" /\ todo = {}
  /\ old = NoPort /\ spare = NoPort /\ errors = FALSE
  /\ target = 0 /\ used = 0 /\ phase = "running" /\ stopping = FALSE
  /\ troubles = 0 /\ scales = 0 /\ takeovers = 0 /\ faults = 0

------------------------------------------------------------------------------
Mine == owner = "fleet"
Up == {p \in Ports : proc[p] = "up"}
Serving == routed \cap Up
Free == Ports \ members
NextFree == CHOOSE p \in Free : \A q \in Free : p <= q
Size(S) == Cardinality(S)

Exhausted == used >= Limit \/ Free = {}

Trouble ==
  /\ troubles < MaxTroubles
  /\ troubles' = troubles + 1

Fault ==
  /\ faults < MaxFaults
  /\ faults' = faults + 1

SwitchTo(S) == route' = S /\ routed' = S
Spawn(p) == proc' = [proc EXCEPT ![p] = "booting"]
Gone(p) == proc' = [proc EXCEPT ![p] = "none"]

\* The operation ends, and its variables with it.
Ends ==
  /\ pc' = "idle" /\ mode' = "replace" /\ todo' = {}
  /\ old' = NoPort /\ spare' = NoPort /\ errors' = FALSE

\* An error of a resize ends it.
ResizeFails == Ends /\ target' = 0 /\ phase' = "degraded"

\* An error of a replacement is noted, one of a restoration ends the round.
Failed ==
  \/ /\ mode \in {"replace", "restore"}
     /\ errors' = TRUE /\ spare' = NoPort
     /\ pc' = IF mode = "replace" THEN "next" ELSE "finish"
     /\ UNCHANGED <<mode, todo, old, target, phase>>
  \/ mode \in {"grow", "shrink"} /\ ResizeFails

------------------------------------------------------------------------------
(* reconcile: check, isolate, replace, restore.                            *)

Reconcile ==
  /\ pc = "idle" /\ target = 0 /\ ~stopping
  /\ pc' = "probe"
  /\ UNCHANGED <<proc, tableVars, routeVars, roundVars, sizeVars, phase, stopping, countVars>>

\* The checks are in; healthy members that were isolated rejoin while there
\* are fewer than desired.
Probe ==
  /\ pc = "probe" /\ ~stopping
  /\ \E H \in SUBSET (members \cap Up) :
       LET sick == (members \cap Up \cap healthy) \ H
           missing == IF Size(Serving) < desired THEN desired - Size(Serving) ELSE 0
       IN
         /\ troubles' = troubles + Size(sick) /\ troubles' <= MaxTroubles
         /\ healthy' = H
         /\ \E R \in SUBSET (H \ routed) :
              /\ Size(R) = missing \/ (Size(R) < missing /\ R = H \ routed)
              /\ IF R # {} /\ Mine
                 THEN SwitchTo(Serving \cup R) ELSE UNCHANGED <<route, routed>>
              /\ errors' = (R # {} /\ ~Mine)
  /\ todo' = members /\ mode' = "replace" /\ pc' = "next"
  /\ UNCHANGED <<proc, members, owner, old, spare, sizeVars, phase, stopping, scales,
                 takeovers, faults>>

ProbeCancelled ==
  /\ pc = "probe" /\ stopping
  /\ pc' = "idle"
  /\ UNCHANGED <<proc, tableVars, routeVars, roundVars, sizeVars, phase, stopping, countVars>>

\* An attempt is taken from the budget and recorded before it is made.
Attempt(kind) ==
  /\ used' = used + 1 /\ mode' = kind
  /\ spare' = NextFree
  /\ \/ pc' = "pause" /\ UNCHANGED <<errors, faults>>
     \/ /\ Fault
        /\ errors' = TRUE
        /\ pc' = IF kind = "replace" THEN "next" ELSE "finish"

Survivors(p) == (Serving \cap healthy) \ {p}

\* The loop passes over some healthy members. The failing one it comes to is
\* isolated as long as another one serves, and replaced if the budget and the
\* ports allow it.
Examine(p) ==
  /\ pc = "next" /\ ~stopping /\ p \in todo \ healthy
  /\ \E D \in SUBSET (todo \cap healthy) :
     LET isolated == p \in routed /\ Survivors(p) # {}
         rest == todo \ (D \cup {p})
     IN
     \/ /\ isolated /\ ~Mine
        /\ errors' = TRUE /\ todo' = {}
        /\ UNCHANGED <<routed, route, pc, mode, old, spare, used, faults>>
     \/ /\ isolated => Mine
        /\ IF isolated THEN SwitchTo(Survivors(p)) ELSE UNCHANGED <<route, routed>>
        /\ \/ /\ Exhausted
              /\ errors' = TRUE /\ todo' = rest
              /\ UNCHANGED <<pc, mode, old, spare, used, faults>>
           \/ /\ ~Exhausted
              /\ Attempt("replace")
              /\ old' = p
              /\ todo' = IF pc' = "pause" THEN rest ELSE {}
  /\ UNCHANGED <<proc, members, healthy, owner, desired, target, phase, stopping, troubles,
                 scales, takeovers>>

\* Fault of Examined: a round that replaced what it could is over.
ExaminedOnly ==
  /\ pc = "next" /\ (stopping \/ todo \subseteq healthy)
  /\ pc' = "finish"
  /\ UNCHANGED <<proc, tableVars, routeVars, mode, todo, old, spare, errors, sizeVars, phase,
                 stopping, countVars>>

Examined ==
  /\ pc = "next" /\ (stopping \/ todo \subseteq healthy)
  /\ pc' = IF errors \/ stopping THEN "finish" ELSE "restore"
  /\ UNCHANGED <<proc, tableVars, routeVars, roundVars, sizeVars, phase, stopping, countVars>>

\* stop cuts the back-off short.
Pause ==
  /\ pc = "pause"
  /\ IF stopping THEN pc' = "finish" /\ UNCHANGED proc ELSE pc' = "boot" /\ Spawn(spare)
  /\ UNCHANGED <<tableVars, routeVars, roundVars, sizeVars, phase, stopping, countVars>>

Restore ==
  /\ pc = "restore"
  /\ \/ /\ stopping \/ Size(Serving \cap healthy) >= desired
        /\ pc' = "finish"
        /\ UNCHANGED <<mode, spare, errors, used, faults>>
     \/ /\ ~stopping /\ Size(Serving \cap healthy) < desired
        /\ \/ ~Exhausted /\ Attempt("restore")
           \/ Exhausted /\ errors' = TRUE /\ pc' = "finish" /\ UNCHANGED <<mode, spare, used, faults>>
  /\ UNCHANGED <<proc, tableVars, routeVars, todo, old, desired, target, phase, stopping,
                 troubles, scales, takeovers>>

Finish ==
  /\ pc = "finish"
  /\ Ends
  /\ phase' = IF stopping THEN phase
              ELSE IF Size(Serving \cap healthy) = desired THEN "running" ELSE "degraded"
  /\ UNCHANGED <<proc, tableVars, routeVars, sizeVars, stopping, countVars>>

------------------------------------------------------------------------------
(* A candidate, and the end of the member it replaces.                     *)

BootFails ==
  /\ pc = "boot"
  /\ Trouble \/ (stopping /\ UNCHANGED troubles)
  /\ Gone(spare)
  /\ Failed
  /\ UNCHANGED <<tableVars, routeVars, desired, used, stopping, scales, takeovers, faults>>

\* What the route leads to next, besides the candidate.
Kept == IF mode = "replace" THEN (routed \cap healthy) \ {old} ELSE Serving

\* The candidate is ready: it joins the route, or it is given up.
Ready ==
  /\ pc = "boot"
  /\ proc' = [proc EXCEPT ![spare] = "up"]
  /\ \/ /\ stopping \/ ~Mine
        /\ pc' = "discard"
        /\ UNCHANGED <<tableVars, route, spare>>
     \/ /\ ~stopping /\ Mine
        /\ SwitchTo(Kept \cup {spare})
        /\ members' = IF mode = "replace" THEN (members \ {old}) \cup {spare} ELSE members \cup {spare}
        /\ healthy' = (healthy \cap members') \cup {spare}
        /\ pc' = CASE mode = "replace" -> "drain" [] mode = "restore" -> "restore" [] OTHER -> "grow"
        /\ spare' = NoPort
  /\ UNCHANGED <<owner, mode, todo, old, errors, sizeVars, phase, stopping, countVars>>

Discard ==
  /\ pc = "discard"
  /\ Gone(spare)
  /\ Failed
  /\ UNCHANGED <<tableVars, routeVars, desired, used, stopping, countVars>>

\* A drain that fails is noted; the member is stopped all the same.
Drain ==
  /\ pc = "drain"
  /\ pc' = "stopOld"
  /\ \/ UNCHANGED <<errors, faults>>
     \/ Fault /\ errors' = TRUE
  /\ UNCHANGED <<proc, tableVars, routeVars, mode, todo, old, spare, sizeVars, phase, stopping,
                 troubles, scales, takeovers>>

\* Fault of StopOld: a drain that fails leaves the process running.
StopOldUnlessFailed ==
  /\ pc = "stopOld"
  /\ IF errors THEN UNCHANGED proc ELSE Gone(old)
  /\ old' = NoPort /\ pc' = IF mode = "replace" THEN "next" ELSE "shrink"
  /\ UNCHANGED <<tableVars, routeVars, mode, todo, spare, errors, sizeVars, phase, stopping,
                 countVars>>

StopOld ==
  /\ pc = "stopOld"
  /\ Gone(old)
  /\ \/ mode = "shrink" /\ errors /\ ResizeFails
     \/ /\ mode = "replace" \/ ~errors
        /\ old' = NoPort /\ pc' = IF mode = "replace" THEN "next" ELSE "shrink"
        /\ UNCHANGED <<mode, todo, spare, errors, target, phase>>
  /\ UNCHANGED <<tableVars, routeVars, desired, used, stopping, countVars>>

------------------------------------------------------------------------------
(* scaleTo.                                                                *)

Scale ==
  /\ target = 0 /\ ~stopping /\ scales < MaxScales
  /\ \E n \in Targets : target' = n
  /\ scales' = scales + 1
  /\ UNCHANGED <<proc, tableVars, routeVars, pc, roundVars, desired, used, phase, stopping,
                 troubles, takeovers, faults>>

\* The round in progress is over.
BeginScale ==
  /\ pc = "idle" /\ target # 0
  /\ IF stopping THEN target' = 0 /\ UNCHANGED <<pc, desired>>
     ELSE pc' = "grow" /\ desired' = target /\ UNCHANGED target
  /\ UNCHANGED <<proc, tableVars, routeVars, roundVars, used, phase, stopping, countVars>>

Grow ==
  /\ pc = "grow"
  /\ \/ /\ Size(Serving \cap healthy) >= desired
        /\ pc' = "shrink" /\ mode' = "shrink"
        /\ UNCHANGED <<proc, todo, old, spare, errors, target, phase>>
     \/ /\ Size(Serving \cap healthy) < desired /\ ~stopping /\ Free # {}
        /\ pc' = "boot" /\ mode' = "grow"
        /\ spare' = NextFree /\ Spawn(NextFree)
        /\ UNCHANGED <<todo, old, errors, target, phase>>
     \/ /\ Size(Serving \cap healthy) < desired /\ (stopping \/ Free = {})
        /\ ResizeFails
        /\ UNCHANGED proc
  /\ UNCHANGED <<tableVars, routeVars, desired, used, stopping, countVars>>

\* Fault of Retired: members retire whatever their health.
RetiredInAnyOrder == Serving

\* Unhealthy members retire first.
Retired == IF Serving \subseteq healthy THEN Serving ELSE Serving \ healthy

Shrink ==
  /\ pc = "shrink"
  /\ \/ /\ Size(Serving) <= desired
        /\ phase' = IF Size(Serving \cap healthy) = desired THEN "running" ELSE "degraded"
        /\ Ends /\ target' = 0
        /\ UNCHANGED <<tableVars, route>>
     \/ /\ Size(Serving) > desired /\ (stopping \/ ~Mine)
        /\ ResizeFails
        /\ UNCHANGED <<tableVars, route>>
     \/ /\ Size(Serving) > desired /\ ~stopping /\ Mine
        /\ \E v \in Retired :
             /\ SwitchTo(Serving \ {v})
             /\ members' = members \ {v} /\ healthy' = healthy \ {v} /\ old' = v
        /\ pc' = "drain"
        /\ UNCHANGED <<mode, todo, spare, errors, target, phase>>
  /\ UNCHANGED <<proc, owner, desired, used, stopping, countVars>>

------------------------------------------------------------------------------
(* stop, the processes, other applications and the clock.                  *)

Stop ==
  /\ ~stopping
  /\ stopping' = TRUE /\ phase' = "stopping"
  /\ UNCHANGED <<proc, tableVars, routeVars, pc, roundVars, sizeVars, countVars>>

\* Fault of Release: a lease that was superseded cannot be released.
ReleaseIfMine ==
  /\ stopping /\ phase # "stopped" /\ pc = "idle" /\ target = 0 /\ Mine
  /\ owner' = "nobody" /\ route' = {}
  /\ pc' = "stopMembers"
  /\ UNCHANGED <<proc, tableVars, roundVars, sizeVars, phase, stopping, countVars>>

Release ==
  /\ stopping /\ phase # "stopped" /\ pc = "idle" /\ target = 0
  /\ owner' = (IF Mine THEN "nobody" ELSE owner) /\ route' = {}
  /\ pc' = "stopMembers"
  /\ UNCHANGED <<proc, tableVars, roundVars, sizeVars, phase, stopping, countVars>>

\* Every member is drained and stopped, whether its drain fails or not.
StopMembers ==
  /\ pc = "stopMembers"
  /\ proc' = [p \in Ports |-> IF p \in members THEN "none" ELSE proc[p]]
  /\ members' = {} /\ healthy' = {} /\ routed' = {}
  /\ pc' = "idle" /\ phase' = "stopped"
  /\ UNCHANGED <<routeVars, roundVars, sizeVars, stopping, countVars>>

Exit(p) ==
  /\ proc[p] = "up" /\ Trouble
  /\ proc' = [proc EXCEPT ![p] = "exited"]
  /\ healthy' = IF stopping THEN healthy ELSE healthy \ {p}
  /\ UNCHANGED <<members, routed, routeVars, pc, roundVars, sizeVars, phase, stopping, scales,
                 takeovers, faults>>

Takeover ==
  /\ Mine /\ takeovers < MaxTakeovers
  /\ takeovers' = takeovers + 1
  /\ owner' = "other" /\ route' = {}
  /\ UNCHANGED <<proc, tableVars, pc, roundVars, sizeVars, phase, stopping, troubles, scales, faults>>

Expire ==
  /\ used > 0
  /\ used' = used - 1
  /\ UNCHANGED <<proc, tableVars, routeVars, pc, roundVars, desired, target, phase, stopping,
                 countVars>>

------------------------------------------------------------------------------
Step ==
  \/ Probe \/ ProbeCancelled \/ Examined \/ Pause \/ Restore \/ Finish
  \/ \E p \in Ports : Examine(p)
  \/ BootFails \/ Ready \/ Discard \/ Drain \/ StopOld
  \/ BeginScale \/ Grow \/ Shrink \/ Release \/ StopMembers

Next ==
  \/ Reconcile \/ Scale \/ Stop \/ Takeover \/ Expire \/ Step
  \/ \E p \in Ports : Exit(p)

Spec == Init /\ [][Next]_vars

\* What the controller awaits comes, its health timer ticks, and attempts
\* leave the restart window.
FairSpec == Spec /\ WF_vars(Step) /\ WF_vars(Reconcile) /\ WF_vars(Expire)

------------------------------------------------------------------------------
(* Properties.                                                             *)

\* Every child that may run is a member, or the candidate or the retired
\* member the operation in progress will stop, whatever fails and whenever
\* stop comes; a stopped fleet has none (instance-fleet.ts:201-207, 317-339).
NothingIsLost ==
  \A p \in Ports : proc[p] # "none" =>
    \/ p \in members
    \/ p = spare /\ pc \in {"boot", "discard"}
    \/ p = old /\ pc \in {"drain", "stopOld"}

\* A healthy member that serves leaves the route only when it is in excess:
\* enough healthy members serve without it (instance-fleet.ts:150-157, 188-190,
\* 291-297).
OnlyExcessLeaves ==
  [][Mine /\ Mine' =>
       \/ Serving \cap healthy \cap Up' \subseteq routed'
       \/ Size(routed' \cap healthy' \cap Up') >= desired]_vars

\* A fleet that is asked to stop comes to its end, with no child left,
\* whatever operation is under way (instance-fleet.ts:317-339).
StopEnds == stopping ~> (phase = "stopped" /\ \A p \in Ports : proc[p] = "none")

\* A degraded fleet is repaired, unless its lease is gone, it stops, every
\* port holds a member, or more members serve than are desired: no operation
\* but the next scaleTo frees a port or retires a member
\* (instance-fleet.ts:148-168, 213-247, 291).
DegradedIsRepaired ==
  phase = "degraded" ~>
    (phase # "degraded" \/ ~Mine \/ Free = {} \/ Size(Serving) > desired)
==============================================================================
