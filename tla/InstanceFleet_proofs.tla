------------------------ MODULE InstanceFleet_proofs ------------------------
(***************************************************************************)
(* Safety of InstanceFleet for any number of ports, replicas, attempts and *)
(* troubles: no child is forgotten, and healthy members leave the route    *)
(* only in excess.                                                         *)
(***************************************************************************)
EXTENDS InstanceFleet, FiniteSetTheorems, TLAPS

Typed ==
  /\ proc \in [Ports -> {"none", "booting", "up", "exited"}]
  /\ desired \in Nat /\ target \in Targets \cup {0}

\* The member a candidate is to replace has not become healthy again.
OldIsSick == mode = "replace" /\ pc \in {"pause", "boot"} => old \notin healthy

\* Members are stopped together only after the lease was given up.
ReleasedFirst == pc = "stopMembers" => ~Mine

Inv == Typed /\ NothingIsLost /\ OldIsSick /\ ReleasedFirst

------------------------------------------------------------------------------
\* A child that comes to its end concerns nobody else.
LEMMA GoneStep ==
  ASSUME Typed, NEW q, Gone(q)
  PROVE  /\ proc' \in [Ports -> {"none", "booting", "up", "exited"}]
         /\ \A p \in Ports : proc'[p] = IF p = q THEN "none" ELSE proc[p]
BY DEF Typed, Gone

\* A child that is launched concerns nobody else.
LEMMA SpawnStep ==
  ASSUME Typed, NEW q, Spawn(q)
  PROVE  /\ proc' \in [Ports -> {"none", "booting", "up", "exited"}]
         /\ \A p \in Ports : proc'[p] = IF p = q THEN "booting" ELSE proc[p]
BY DEF Typed, Spawn

\* The sizes of a fleet are numbers.
LEMMA TargetsTyped == \A n \in Targets : n \in Nat
BY TargetsAssumption

------------------------------------------------------------------------------
(* One lemma for the steps of a round, one for a candidate, one for the     *)
(* rest.                                                                    *)

LEMMA RoundSteps ==
  ASSUME Inv, Reconcile \/ Probe \/ ProbeCancelled \/ Examined \/ Pause \/ Restore \/ Finish
              \/ \E p \in Ports : Examine(p)
  PROVE  Inv'
<1> USE TargetsTyped DEF Inv
<1>1. CASE Reconcile \/ ProbeCancelled \/ Examined \/ Finish
  <2>1. Typed' /\ ReleasedFirst' /\ OldIsSick'
    BY <1>1 DEF Reconcile, ProbeCancelled, Examined, Finish, Ends, Typed, ReleasedFirst, OldIsSick,
       Mine, tableVars, routeVars, sizeVars, roundVars
  <2>2. NothingIsLost'
    BY <1>1 DEF Reconcile, ProbeCancelled, Examined, Finish, Ends, NothingIsLost, tableVars, roundVars
  <2> QED BY <2>1, <2>2
<1>2. CASE Probe
  <2>1. UNCHANGED <<proc, members, desired, target>> /\ pc = "probe" /\ pc' = "next"
    BY <1>2 DEF Probe, sizeVars
  <2> QED BY <2>1 DEF Typed, NothingIsLost, OldIsSick, ReleasedFirst
<1>3. CASE Pause
  <2>1. CASE stopping
    BY <1>3, <2>1 DEF Pause, Typed, NothingIsLost, OldIsSick, ReleasedFirst, tableVars, roundVars,
       sizeVars
  <2>2. CASE ~stopping
    <3>1. /\ pc = "pause" /\ pc' = "boot" /\ Spawn(spare)
          /\ UNCHANGED <<members, healthy, mode, old, spare, desired, target>>
      BY <1>3, <2>2 DEF Pause, tableVars, roundVars, sizeVars
    <3> QED BY <3>1, SpawnStep DEF Typed, NothingIsLost, OldIsSick, ReleasedFirst
  <2> QED BY <2>1, <2>2
<1>4. CASE Restore
  <2>1. /\ UNCHANGED <<proc, members, healthy, old, desired, target>>
        /\ pc = "restore" /\ pc' \in {"finish", "pause"} /\ (pc' = "pause" => mode' = "restore")
    BY <1>4 DEF Restore, Attempt, tableVars
  <2> QED BY <2>1 DEF Typed, NothingIsLost, OldIsSick, ReleasedFirst
<1>5. ASSUME NEW p \in Ports, Examine(p) PROVE Inv'
  <2>1. /\ UNCHANGED <<proc, members, healthy, desired, target>>
        /\ pc = "next" /\ pc' \in {"next", "pause"}
        /\ p \notin healthy /\ (pc' = "pause" => old' = p)
    BY <1>5 DEF Examine, Attempt
  <2> QED BY <2>1 DEF Typed, NothingIsLost, OldIsSick, ReleasedFirst
<1> QED BY <1>1, <1>2, <1>3, <1>4, <1>5

LEMMA CandidateSteps ==
  ASSUME Inv, BootFails \/ Ready \/ Discard \/ Drain \/ StopOld
  PROVE  Inv'
<1> USE TargetsTyped DEF Inv
<1>1. CASE BootFails \/ Discard
  <2>1. /\ pc \in {"boot", "discard"} /\ pc' \in {"next", "finish", "idle"}
        /\ Gone(spare) /\ UNCHANGED <<members, healthy, desired>> /\ target' \in {target, 0}
    BY <1>1 DEF BootFails, Discard, Failed, ResizeFails, Ends, tableVars
  <2> QED BY <2>1, GoneStep DEF Typed, NothingIsLost, OldIsSick, ReleasedFirst
<1>2. CASE Ready
  <2>1. /\ pc = "boot" /\ proc' = [proc EXCEPT ![spare] = "up"]
        /\ UNCHANGED <<desired, target, mode, old>>
    BY <1>2 DEF Ready, sizeVars
  <2>2. CASE pc' = "discard" /\ UNCHANGED <<members, healthy, spare>>
    BY <2>1, <2>2 DEF Typed, NothingIsLost, OldIsSick, ReleasedFirst
  <2>3. CASE /\ pc' = CASE mode = "replace" -> "drain" [] mode = "restore" -> "restore" [] OTHER -> "grow"
             /\ members' = IF mode = "replace" THEN (members \ {old}) \cup {spare}
                                               ELSE members \cup {spare}
    <3>1. pc' \in {"drain", "restore", "grow"} /\ (mode = "replace" => pc' = "drain")
      BY <2>3
    <3>2. NothingIsLost'
      BY <2>1, <2>3, <3>1 DEF Typed, NothingIsLost
    <3> QED BY <2>1, <3>1, <3>2 DEF Typed, OldIsSick, ReleasedFirst
  <2> QED BY <1>2, <2>2, <2>3 DEF Ready, tableVars
<1>3. CASE Drain
  <2>1. /\ UNCHANGED <<proc, members, healthy, old, desired, target>>
        /\ pc = "drain" /\ pc' = "stopOld"
    BY <1>3 DEF Drain, tableVars, sizeVars
  <2> QED BY <2>1 DEF Typed, NothingIsLost, OldIsSick, ReleasedFirst
<1>4. CASE StopOld
  <2>1. /\ pc = "stopOld" /\ pc' \in {"next", "shrink", "idle"}
        /\ Gone(old) /\ UNCHANGED <<members, healthy, desired>> /\ target' \in {target, 0}
    BY <1>4 DEF StopOld, ResizeFails, Ends, tableVars
  <2> QED BY <2>1, GoneStep DEF Typed, NothingIsLost, OldIsSick, ReleasedFirst
<1> QED BY <1>1, <1>2, <1>3, <1>4

LEMMA ScaleSteps ==
  ASSUME Inv, Scale \/ BeginScale \/ Grow \/ Shrink
  PROVE  Inv'
<1> USE TargetsTyped DEF Inv
<1>1. CASE Scale
  BY <1>1 DEF Scale, Typed, NothingIsLost, OldIsSick, ReleasedFirst, Mine, tableVars, routeVars,
     roundVars
<1>2. CASE BeginScale
  <2>1. /\ UNCHANGED <<proc, members, healthy, mode, old, spare>> /\ Mine' = Mine
        /\ pc = "idle" /\ pc' \in {"idle", "grow"}
        /\ desired' \in {desired, target} /\ target # 0 /\ target' \in {target, 0}
    BY <1>2 DEF BeginScale, tableVars, roundVars, routeVars, Mine
  <2> QED BY <2>1 DEF Typed, NothingIsLost, OldIsSick, ReleasedFirst
<1>3. CASE Grow
  <2>1. /\ UNCHANGED <<members, healthy, desired>> /\ pc = "grow"
        /\ target' \in {target, 0}
        /\ \/ pc' \in {"shrink", "idle"} /\ UNCHANGED proc
           \/ pc' = "boot" /\ mode' = "grow" /\ Spawn(spare')
    BY <1>3 DEF Grow, ResizeFails, Ends, tableVars
  <2> QED BY <2>1, SpawnStep DEF Typed, NothingIsLost, OldIsSick, ReleasedFirst
<1>4. CASE Shrink
  <2>1. /\ UNCHANGED <<proc, desired>> /\ pc = "shrink" /\ target' \in {target, 0}
        /\ \/ pc' = "idle" /\ UNCHANGED members
           \/ pc' = "drain" /\ members' = members \ {old'}
    BY <1>4 DEF Shrink, ResizeFails, Ends, tableVars
  <2> QED BY <2>1 DEF Typed, NothingIsLost, OldIsSick, ReleasedFirst
<1> QED BY <1>1, <1>2, <1>3, <1>4

LEMMA OtherSteps ==
  ASSUME Inv, Stop \/ Release \/ StopMembers \/ Takeover \/ Expire
              \/ (\E p \in Ports : Exit(p)) \/ UNCHANGED vars
  PROVE  Inv'
<1> USE TargetsTyped DEF Inv
<1>1. CASE Stop \/ Expire \/ UNCHANGED vars
  BY <1>1 DEF Stop, Expire, vars, Typed, NothingIsLost, OldIsSick, ReleasedFirst, Mine, tableVars,
     routeVars, roundVars, sizeVars
<1>2. CASE Release
  <2>1. /\ UNCHANGED <<proc, members, healthy, desired, target>> /\ ~Mine'
        /\ pc = "idle" /\ pc' = "stopMembers"
    BY <1>2 DEF Release, Mine, tableVars, sizeVars
  <2> QED BY <2>1 DEF Typed, NothingIsLost, OldIsSick, ReleasedFirst
<1>3. CASE StopMembers
  <2>1. /\ pc = "stopMembers" /\ pc' = "idle" /\ UNCHANGED <<desired, target>>
        /\ proc' = [p \in Ports |-> IF p \in members THEN "none" ELSE proc[p]]
    BY <1>3 DEF StopMembers, sizeVars
  <2>2. \A p \in Ports : proc'[p] = "none"
    BY <2>1 DEF NothingIsLost
  <2> QED BY <2>1, <2>2 DEF Typed, NothingIsLost, OldIsSick, ReleasedFirst
<1>4. CASE Takeover
  BY <1>4 DEF Takeover, Typed, NothingIsLost, OldIsSick, ReleasedFirst, Mine, tableVars, roundVars,
     sizeVars
<1>5. ASSUME NEW p \in Ports, Exit(p) PROVE Inv'
  <2>1. /\ proc[p] = "up" /\ proc' = [proc EXCEPT ![p] = "exited"] /\ healthy' \subseteq healthy
        /\ UNCHANGED <<members, pc, old, spare, mode, desired, target, owner>>
    BY <1>5 DEF Exit, roundVars, sizeVars, routeVars
  <2> QED BY <2>1 DEF Typed, NothingIsLost, OldIsSick, ReleasedFirst, Mine
<1> QED BY <1>1, <1>2, <1>3, <1>4, <1>5

\* The fleet's invariant holds in every behaviour (instance-fleet.ts:120-339).
THEOREM Invariance == Spec => []Inv
<1>1. Init => Inv
  <2> SUFFICES ASSUME Init PROVE Inv
    OBVIOUS
  <2>1. Typed
    BY TargetsTyped DEF Init, Typed
  <2>2. NothingIsLost
    BY DEF Init, NothingIsLost
  <2> QED BY <2>1, <2>2 DEF Init, Inv, OldIsSick, ReleasedFirst
<1>2. Inv /\ [Next]_vars => Inv'
  BY RoundSteps, CandidateSteps, ScaleSteps, OtherSteps DEF Next, Step
<1> QED BY <1>1, <1>2, PTL DEF Spec

\* Every child that may run is known to whoever will stop it, for any number
\* of ports, replicas and failures (instance-fleet.ts:201-207, 317-339).
THEOREM NoChildIsLost == Spec => []NothingIsLost
<1>1. Inv => NothingIsLost
  BY DEF Inv
<1> QED BY <1>1, Invariance, PTL

------------------------------------------------------------------------------
(* Who leaves the route.                                                    *)

Stays == Serving \cap healthy \cap Up' \subseteq routed'
Excess == Size(routed' \cap healthy' \cap Up') >= desired

\* A step that does not change the route's members takes none away.
LEMMA RouteUnchanged == routed' = routed => Stays
BY DEF Stays, Serving

\* The isolation of a failing member takes no healthy one away.
LEMMA IsolationStays ==
  ASSUME NEW p \in Ports, Examine(p)
  PROVE  Stays
BY DEF Examine, SwitchTo, Survivors, Stays, Serving

\* Members that rejoin, and a candidate, are added to those that serve; the
\* member a candidate replaces is not healthy.
LEMMA JoiningStays ==
  ASSUME Inv, Probe \/ Ready
  PROVE  Stays
<1>1. CASE Probe
  <2>1. PICK R : IF R # {} /\ Mine THEN SwitchTo(Serving \cup R) ELSE UNCHANGED <<route, routed>>
    BY <1>1 DEF Probe
  <2>2. routed' = routed \/ routed' = Serving \cup R
    BY <2>1 DEF SwitchTo
  <2> QED BY <2>2, RouteUnchanged DEF Stays
<1>2. CASE Ready
  <2>1. CASE routed' = routed
    BY <2>1, RouteUnchanged
  <2>2. CASE routed' # routed
    <3>1. pc = "boot" /\ routed' = Kept \cup {spare}
      BY <1>2, <2>2 DEF Ready, SwitchTo, tableVars
    <3>2. mode = "replace" => old \notin healthy
      BY <3>1 DEF Inv, OldIsSick
    <3> QED BY <3>1, <3>2 DEF Kept, Stays, Serving
  <2> QED BY <2>1, <2>2
<1> QED BY <1>1, <1>2

\* The serving members are finitely many.
LEMMA ServingFinite == IsFiniteSet(Serving) /\ Size(Serving) \in Nat
<1>1. IsFiniteSet(Ports)
  BY BoundsAssumption, FS_Interval DEF Ports
<1>2. Serving \subseteq Ports
  BY DEF Serving, Up
<1> QED BY <1>1, <1>2, FS_Subset, FS_CardinalityType DEF Size

\* A resize retires an unhealthy member, or one of more than it needs.
LEMMA ShrinkingStays ==
  ASSUME Inv, Shrink
  PROVE  Stays \/ Excess
<1>1. CASE routed' = routed
  BY <1>1, RouteUnchanged
<1>2. CASE routed' # routed
  <2>1. PICK v \in Retired :
          /\ routed' = Serving \ {v} /\ healthy' = healthy \ {v} /\ Up' = Up
          /\ Size(Serving) > desired
    BY <1>2 DEF Shrink, SwitchTo, tableVars, Up
  <2>2. CASE ~(Serving \subseteq healthy)
    BY <2>1, <2>2 DEF Retired, Stays
  <2>3. CASE Serving \subseteq healthy
    <3>1. v \in Serving /\ routed' \cap healthy' \cap Up' = Serving \ {v}
      BY <2>1, <2>3 DEF Retired, Serving
    <3>2. Size(Serving \ {v}) = Size(Serving) - 1
      BY <3>1, ServingFinite, FS_RemoveElement DEF Size
    <3>3. desired \in Nat
      BY DEF Inv, Typed
    <3>4. Size(Serving \ {v}) >= desired
      BY <3>2, <3>3, <2>1, ServingFinite
    <3> QED BY <3>1, <3>4 DEF Excess
  <2> QED BY <2>2, <2>3
<1> QED BY <1>1, <1>2

\* A healthy member leaves the fleet's route only in excess, for any number of
\* ports and replicas (instance-fleet.ts:150-157, 188-190, 291-297).
THEOREM ExcessOnlyLeaves == Spec => OnlyExcessLeaves
<1>1. ASSUME Inv, [Next]_vars, Mine, Mine' PROVE Stays \/ Excess
  <2>1. CASE Probe \/ Ready
    BY <2>1, <1>1, JoiningStays
  <2>2. ASSUME NEW p \in Ports, Examine(p) PROVE Stays
    BY <2>2, IsolationStays
  <2>3. CASE Shrink
    BY <2>3, <1>1, ShrinkingStays
  <2>4. CASE StopMembers
    BY <2>4, <1>1 DEF StopMembers, Inv, ReleasedFirst
  <2>5. CASE Reconcile \/ ProbeCancelled \/ Examined \/ Pause \/ Restore \/ Finish
    BY <2>5, RouteUnchanged
       DEF Reconcile, ProbeCancelled, Examined, Pause, Restore, Finish, tableVars
  <2>6. CASE BootFails \/ Discard \/ Drain \/ StopOld \/ Scale \/ BeginScale \/ Grow
    BY <2>6, RouteUnchanged
       DEF BootFails, Discard, Drain, StopOld, Scale, BeginScale, Grow, tableVars
  <2>7. CASE Stop \/ Release \/ Takeover \/ Expire \/ UNCHANGED vars
    BY <2>7, RouteUnchanged DEF Stop, Release, Takeover, Expire, vars, tableVars
  <2>8. ASSUME NEW p \in Ports, Exit(p) PROVE Stays
    BY <2>8, RouteUnchanged DEF Exit
  <2> QED BY <1>1, <2>1, <2>2, <2>3, <2>4, <2>5, <2>6, <2>7, <2>8 DEF Next, Step
<1>2. Inv /\ [Next]_vars
        => [Mine /\ Mine' => \/ Serving \cap healthy \cap Up' \subseteq routed'
                             \/ Size(routed' \cap healthy' \cap Up') >= desired]_vars
  BY <1>1 DEF Stays, Excess
<1> QED BY <1>2, Invariance, PTL DEF Spec, OnlyExcessLeaves
==============================================================================
