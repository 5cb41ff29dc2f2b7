-------------------------- MODULE RollingApp_proofs --------------------------
(***************************************************************************)
(* Safety of RollingApp for any number of ports, children, wrappers,       *)
(* crashes, takeovers and faults.  The invariant says where the route of a *)
(* live lease leads: to the candidate while a cutover is verified, to the  *)
(* active generation otherwise; and that the two have different ports.     *)
(***************************************************************************)
EXTENDS RollingApp, TLAPS

\* What deploy awaits once there is a candidate, and once it may take over.
Launching == {"boot", "unboot", "probe", "verify", "drain", "stopOld", "reap"}
Exchanging == {"probe", "verify", "drain", "stopOld", "reap"}

\* When there is a wrapper, an active generation, and a deployment.
ControlInv ==
  /\ wrapper = "off" => dpc = "idle" /\ spc = "no" /\ phase = "none" /\ active = None
  /\ wrapper = "on" => epoch >= 1
  /\ active # None => child[active] # "absent"
  /\ dpc \in Exchanging \/ phase # "none" \/ spc # "no" => active # None
  /\ spc \notin {"no", "waiting"} => dpc = "idle"

\* Which wrapper the record and the lease may name.
LeaseInv ==
  /\ route.lease <= epoch
  /\ record.leased \/ (wrapper = "on" /\ spc # "done") => record.owner >= 1

\* Where the route of a live lease leads.
RouteInv ==
  /\ dpc \in Launching =>
       /\ peer # None /\ child[peer] # "absent"
       /\ active # None => port[peer] # port[active]
  /\ Mine /\ ~torn /\ active # None =>
       route.port = IF dpc = "verify" THEN port[peer] ELSE port[active]
  /\ spc \in {"draining", "closing"} => ~Mine

Rest == ControlInv /\ LeaseInv /\ RouteInv /\ RecordCoversChildren
Inv == TypeOK /\ Rest

Records == [owner : 0..MaxWrappers, children : SUBSET Children, leased : BOOLEAN]

------------------------------------------------------------------------------
(* Records and ports.                                                      *)

\* What becomes of a record when a child is untracked or the wrapper leaves.
LEMMA RecordKept ==
  /\ NoRecord \in Records
  /\ \A r \in Records : \A g : Untracked(r, g) \in Records
  /\ \A r, state : Closed(r, state) \in {r, NoRecord}
BY BoundsAssumption DEF Records, NoRecord, Untracked, Closed, Children

\* The next port is a port, and another one than the active generation's.
LEMMA NextPortIsOther ==
  ASSUME TypeOK
  PROVE  NextPort \in Ports /\ (active # None => NextPort # port[active])
<1>1. CASE active = None
  BY <1>1, PortsAssumption DEF NextPort, Ports
<1>2. CASE active # None
  <2>1. port[active] \in Ports
    BY <1>2 DEF TypeOK
  <2>2. \A n \in 0..(NPorts - 1) : (n + 1) % NPorts \in 0..(NPorts - 1) /\ (n + 1) % NPorts # n
    <3>1. ASSUME NEW n \in 0..(NPorts - 1)
          PROVE  (n + 1) % NPorts = IF n + 1 = NPorts THEN 0 ELSE n + 1
      BY <3>1, PortsAssumption
    <3> QED BY <3>1, PortsAssumption
  <2> QED BY <1>2, <2>1, <2>2 DEF NextPort, Ports
<1> QED BY <1>1, <1>2

------------------------------------------------------------------------------
(* Types.                                                                  *)

\* Starting, and the launch of a child up to its readiness.
LEMMA LaunchTyped ==
  ASSUME Inv, Start \/ Deploy \/ PortBusy \/ Ready \/ NotReady \/ Unboot
  PROVE  TypeOK'
<1> USE PortsAssumption, BoundsAssumption DEF Inv, Rest, TypeOK, ControlInv, RouteInv, Launching, Exchanging
<1>1. CASE Start
  BY <1>1 DEF Start, Children, NoRecord, Unspawned, appVars, countVars, histVars
<1>2. CASE Deploy
  BY <1>2 DEF Deploy, Children, Launched, None, Running, Unspawned, appVars, countVars,
     histVars
<1>3. CASE PortBusy
  <2>1. record' \in Records
    <3>1. record' \in {record, NoRecord}
      BY <1>3, RecordKept DEF PortBusy, Children, Finish, LaunchFailed, NextPort, None,
         Occupied, Off, appVars, countVars, histVars
    <3> QED BY <3>1, RecordKept DEF Records
  <2> QED
    BY <1>3, <2>1 DEF PortBusy, Children, Closed, Finish, LaunchFailed, NextPort, NoRecord, None,
       Occupied, Off, appVars, countVars, histVars, Records
<1>4. CASE Ready
  BY <1>4 DEF Ready, None, Running, appVars, countVars, histVars
<1>5. CASE NotReady
  <2>1. record' \in Records
    <3>1. record' \in {record, NoRecord}
      BY <1>5, RecordKept DEF NotReady, Finish, LaunchFailed, None, Off, appVars, countVars,
         histVars
    <3> QED BY <3>1, RecordKept DEF Records
  <2> QED
    BY <1>5, <2>1 DEF NotReady, Closed, Finish, LaunchFailed, NoRecord, None, Off, appVars,
       countVars, histVars, Records
<1>6. CASE Unboot
  <2>1. record' \in Records
    <3>1. record' \in {Untracked(record, peer), NoRecord}
      BY <1>6, RecordKept DEF Unboot, Exited, Finish, LaunchFailed, None, Off, appVars,
         countVars, histVars
    <3> QED BY <3>1, RecordKept DEF Records
  <2> QED
    BY <1>6, <2>1 DEF Unboot, Closed, Exited, Finish, LaunchFailed, NoRecord, None, Off,
       Untracked, appVars, countVars, histVars, Records
<1> QED BY <1>1, <1>2, <1>3, <1>4, <1>5, <1>6

\* A deployment, from its cutover to its end.
LEMMA DeployTyped ==
  ASSUME Inv, Cutover \/ Verify \/ Drain \/ StopOld \/ Reap
  PROVE  TypeOK'
<1> USE PortsAssumption, BoundsAssumption DEF Inv, Rest, TypeOK, ControlInv, RouteInv, Launching, Exchanging
<1>1. CASE Cutover
  <2>1. route' \in [lease : 0..MaxWrappers, port : 0..NPorts]
    <3>1. route' = route \/ (route' = [route EXCEPT !.port = port[peer]] /\ peer \in Children)
      BY <1>1 DEF Cutover
    <3>2. peer \in Children => port[peer] \in 0..NPorts
      BY DEF Ports
    <3> QED BY <3>1, <3>2
  <2> QED BY <1>1, <2>1 DEF Cutover, appVars, countVars, histVars
<1>2. CASE Verify
  <2>1. route' \in [lease : 0..MaxWrappers, port : 0..NPorts]
    <3>1. route' = route \/ (route' = [route EXCEPT !.port = port[active]] /\ active \in Children)
      BY <1>2 DEF Verify, Rollback
    <3>2. active \in Children => port[active] \in 0..NPorts
      BY DEF Ports
    <3> QED BY <3>1, <3>2
  <2>2. torn' \in BOOLEAN
    <3>1. torn' = torn \/ torn' = TRUE
      BY <1>2 DEF Verify, Fault, Mine, Rollback, countVars
    <3> QED BY <3>1
  <2> QED
    BY <1>2, <2>1, <2>2 DEF Verify, Fault, Rollback, countVars
<1>3. CASE Drain
  BY <1>3 DEF Drain, Fault, Finish, appVars, countVars, histVars
<1>4. CASE StopOld
  <2>1. record' \in Records
    <3>1. record' \in {Untracked(record, peer)}
      BY <1>4, RecordKept DEF StopOld, BeginStop, Exited, Running, countVars, histVars
    <3> QED BY <3>1, RecordKept DEF Records
  <2> QED
    BY <1>4, <2>1 DEF StopOld, BeginStop, Exited, Running, Untracked, countVars, histVars,
       Records
<1>5. CASE Reap
  <2>1. record' \in Records
    <3>1. record' \in {Untracked(record, peer)}
      BY <1>5, RecordKept DEF Reap, Exited, Finish, appVars, countVars, histVars
    <3> QED BY <3>1, RecordKept DEF Records
  <2> QED
    BY <1>5, <2>1 DEF Reap, Exited, Finish, Untracked, appVars, countVars, histVars, Records
<1> QED BY <1>1, <1>2, <1>3, <1>4, <1>5

\* stop, and the end of the wrapper.
LEMMA StopTyped ==
  ASSUME Inv, Stop \/ Release \/ StopDrain \/ StopActive \/ Leave \/ Crash
  PROVE  TypeOK'
<1> USE PortsAssumption, BoundsAssumption DEF Inv, Rest, TypeOK, ControlInv, RouteInv, Launching, Exchanging
<1>1. CASE Stop
  BY <1>1 DEF Stop, BeginStop, Launched, None, appVars, countVars, histVars
<1>2. CASE Release
  <2>2. torn' \in BOOLEAN
    <3>1. torn' = torn \/ torn' = TRUE
      BY <1>2 DEF Release, Fault, Mine, NoRoute, Other, appVars, countVars
    <3> QED BY <3>1
  <2> QED
    BY <1>2, <2>2 DEF Release, Fault, Mine, NoRoute, Other, appVars, countVars, Records
<1>3. CASE StopDrain
  BY <1>3 DEF StopDrain, Fault, appVars, countVars, histVars
<1>4. CASE StopActive
  <2>1. record' \in Records
    <3>1. record' \in {Untracked(record, active), NoRecord}
      BY <1>4, RecordKept DEF StopActive, Exited, appVars, countVars, histVars
    <3> QED BY <3>1, RecordKept DEF Records
  <2> QED
    BY <1>4, <2>1 DEF StopActive, Closed, Exited, NoRecord, Untracked, appVars, countVars,
       histVars, Records
<1>5. CASE Leave
  BY <1>5 DEF Leave, None, Off, Running, countVars, histVars
<1>6. CASE Crash
  <2>3. orphaned' \subseteq Children
    BY <1>6 DEF Crash, Children, None, Off, Running
  <2> QED
    BY <1>6, <2>3 DEF Crash, Children, None, Off, Running, Records
<1> QED BY <1>1, <1>2, <1>3, <1>4, <1>5, <1>6

\* The children, other applications, and recovery.
LEMMA OtherTyped ==
  ASSUME Inv, (\E g \in Children : Exit(g)) \/ (\E g \in Children : Listen(g)) \/ Takeover \/ OtherLeaves \/ (\E g \in Children : RecoverChild(g)) \/ DeleteRecord
  PROVE  TypeOK'
<1> USE PortsAssumption, BoundsAssumption DEF Inv, Rest, TypeOK, ControlInv, RouteInv, Launching, Exchanging
<1>1. ASSUME NEW g \in Children, Exit(g) PROVE TypeOK'
  <2>1. record' \in Records
    <3>1. record' \in {record, Untracked(record, g)}
      BY <1>1, RecordKept DEF Exit, BeginStop, Exited, Running, appVars, countVars, histVars
    <3> QED BY <3>1, RecordKept DEF Records
  <2> QED
    BY <1>1, <2>1 DEF Exit, BeginStop, Exited, Running, Untracked, appVars, countVars, histVars,
       Records
<1>2. ASSUME NEW g \in Children, Listen(g) PROVE TypeOK'
  BY <1>2 DEF Listen, appVars, countVars, histVars
<1>3. CASE Takeover
  BY <1>3 DEF Takeover, Other, Ports, appVars, histVars
<1>4. CASE OtherLeaves
  BY <1>4 DEF OtherLeaves, NoRoute, Other, appVars, countVars, histVars
<1>5. ASSUME NEW g \in Children, RecoverChild(g) PROVE TypeOK'
  BY <1>5 DEF RecoverChild, Exited, Running, appVars, countVars, histVars
<1>6. CASE DeleteRecord
  <2>1. record' \in Records
    <3>1. record' \in {record, NoRecord}
      BY <1>6, RecordKept DEF DeleteRecord, NoRoute, Other, Running, appVars, countVars,
         histVars
    <3> QED BY <3>1, RecordKept DEF Records
  <2> QED
    BY <1>6, <2>1 DEF DeleteRecord, NoRecord, NoRoute, Other, Running, appVars, countVars,
       histVars, Records
<1> QED BY <1>1, <1>2, <1>3, <1>4, <1>5, <1>6

------------------------------------------------------------------------------
(* The other parts of the invariant, by the step that may disturb them.     *)

\* Starting, and the launch of a child up to its readiness.
LEMMA LaunchSteps ==
  ASSUME Inv, Start \/ Deploy \/ PortBusy \/ Ready \/ NotReady \/ Unboot
  PROVE  Rest'
<1> USE PortsAssumption, BoundsAssumption DEF Inv, Rest, TypeOK, ControlInv, LeaseInv, RouteInv,
      RecordCoversChildren, Launching, Exchanging
<1>1. CASE Start
  BY <1>1 DEF Start, Children, Mine, NoRecord, NoRoute, None, Other, Running, Unspawned,
     appVars, countVars, histVars
<1>2. CASE Deploy
  BY <1>2 DEF Deploy, Children, Launched, Mine, NoRoute, None, Other, Running, Unspawned,
     appVars, countVars, histVars
<1>3. CASE PortBusy
  <2>1. ControlInv'
    BY <1>3 DEF PortBusy, Finish, LaunchFailed, None, Off, appVars, countVars, histVars
  <2>2. LeaseInv'
    BY <1>3 DEF PortBusy, Closed, Finish, LaunchFailed, NoRecord, None, Off, appVars, countVars,
       histVars
  <2>3. RouteInv'
    BY <1>3 DEF PortBusy, Finish, LaunchFailed, Mine, None, Off, appVars, countVars, histVars
  <2>4. RecordCoversChildren'
    BY <1>3 DEF PortBusy, Closed, Finish, LaunchFailed, NoRecord, None, Off, Running, appVars,
       countVars, histVars
  <2> QED BY <2>1, <2>2, <2>3, <2>4
<1>4. CASE Ready
  BY <1>4 DEF Ready, Mine, NoRoute, None, Other, Running, appVars, countVars, histVars
<1>5. CASE NotReady
  BY <1>5 DEF NotReady, Closed, Finish, LaunchFailed, Mine, NoRecord, NoRoute, None, Off,
     Other, Running, appVars, countVars, histVars
<1>6. CASE Unboot
  BY <1>6 DEF Unboot, Closed, Exited, Finish, LaunchFailed, Mine, NoRecord, NoRoute, None, Off,
     Other, Running, Untracked, appVars, countVars, histVars
<1> QED BY <1>1, <1>2, <1>3, <1>4, <1>5, <1>6

\* A deployment, from its cutover to its end.
LEMMA DeploySteps ==
  ASSUME Inv, Cutover \/ Verify \/ Drain \/ StopOld \/ Reap
  PROVE  Rest'
<1> USE PortsAssumption, BoundsAssumption DEF Inv, Rest, TypeOK, ControlInv, LeaseInv, RouteInv,
      RecordCoversChildren, Launching, Exchanging
<1>1. CASE Cutover
  BY <1>1 DEF Cutover, Mine, NoRoute, None, Other, Running, appVars, countVars, histVars
<1>2. CASE Verify
  BY <1>2 DEF Verify, Fault, Mine, NoRoute, None, Other, Rollback, Running, countVars
<1>3. CASE Drain
  BY <1>3 DEF Drain, Fault, Finish, Mine, NoRoute, None, Other, Running, appVars, countVars,
     histVars
<1>4. CASE StopOld
  BY <1>4 DEF StopOld, BeginStop, Exited, Mine, NoRoute, None, Other, Running, Untracked,
     countVars, histVars
<1>5. CASE Reap
  BY <1>5 DEF Reap, Exited, Finish, Mine, NoRoute, None, Other, Running, Untracked, appVars,
     countVars, histVars
<1> QED BY <1>1, <1>2, <1>3, <1>4, <1>5

\* stop, and the end of the wrapper.
LEMMA StopSteps ==
  ASSUME Inv, Stop \/ Release \/ StopDrain \/ StopActive \/ Leave \/ Crash
  PROVE  Rest'
<1> USE PortsAssumption, BoundsAssumption DEF Inv, Rest, TypeOK, ControlInv, LeaseInv, RouteInv,
      RecordCoversChildren, Launching, Exchanging
<1>1. CASE Stop
  BY <1>1 DEF Stop, BeginStop, Launched, Mine, NoRoute, None, Other, Running, appVars,
     countVars, histVars
<1>2. CASE Release
  BY <1>2 DEF Release, Fault, Mine, NoRoute, None, Other, Running, appVars, countVars
<1>3. CASE StopDrain
  BY <1>3 DEF StopDrain, Fault, Mine, NoRoute, None, Other, Running, appVars, countVars,
     histVars
<1>4. CASE StopActive
  BY <1>4 DEF StopActive, Closed, Exited, Mine, NoRecord, NoRoute, None, Other, Running,
     Untracked, appVars, countVars, histVars
<1>5. CASE Leave
  BY <1>5 DEF Leave, Mine, NoRoute, None, Off, Other, Running, countVars, histVars
<1>6. CASE Crash
  BY <1>6 DEF Crash, Children, Mine, NoRoute, None, Off, Other, Running
<1> QED BY <1>1, <1>2, <1>3, <1>4, <1>5, <1>6

\* The children, other applications, and recovery.
LEMMA OtherSteps ==
  ASSUME Inv, (\E g \in Children : Exit(g)) \/ (\E g \in Children : Listen(g)) \/ Takeover \/ OtherLeaves \/ DeleteRecord
              \/ (\E g \in Children : RecoverChild(g))
  PROVE  Rest'
<1> USE PortsAssumption, BoundsAssumption DEF Inv, Rest, TypeOK, ControlInv, LeaseInv, RouteInv,
      RecordCoversChildren, Launching, Exchanging
<1>1. ASSUME NEW g \in Children, Exit(g) PROVE Rest'
  BY <1>1 DEF Exit, BeginStop, Exited, Mine, NoRoute, None, Other, Running, Untracked, appVars,
     countVars, histVars
<1>2. ASSUME NEW g \in Children, Listen(g) PROVE Rest'
  BY <1>2 DEF Listen, Mine, NoRoute, None, Other, Running, appVars, countVars, histVars
<1>3. CASE Takeover
  BY <1>3 DEF Takeover, Mine, NoRoute, None, Other, Ports, Running, appVars, histVars
<1>4. CASE OtherLeaves
  BY <1>4 DEF OtherLeaves, Mine, NoRoute, None, Other, Running, appVars, countVars, histVars
<1>5. ASSUME NEW g \in Children, RecoverChild(g) PROVE Rest'
  BY <1>5 DEF RecoverChild, Exited, Mine, NoRoute, None, Other, Running, appVars, countVars,
     histVars
<1>6. CASE DeleteRecord
  BY <1>6 DEF DeleteRecord, Mine, NoRecord, NoRoute, None, Other, Running, appVars, countVars,
     histVars
<1> QED BY <1>1, <1>2, <1>3, <1>4, <1>5, <1>6

\* The launch of a child, whose port is not the active generation's.
LEMMA SpawnStep ==
  ASSUME Inv, Spawn
  PROVE  TypeOK' /\ Rest'
<1> USE PortsAssumption, BoundsAssumption DEF Inv, TypeOK
<1>1. PICK h \in Unspawned :
        /\ child' = [child EXCEPT ![h] = "booting"]
        /\ port' = [port EXCEPT ![h] = NextPort]
        /\ \/ /\ record' = [record EXCEPT !.children = @ \cup {h}]
              /\ dpc' = "boot" /\ peer' = h
              /\ UNCHANGED <<wrapper, spc, phase, active, watched, orphaned, crashes, faults>>
           \/ /\ Fault
              /\ dpc' = "unboot" /\ peer' = h
              /\ UNCHANGED <<record, wrapper, spc, phase, active, watched, orphaned, crashes>>
           \/ /\ crashes < MaxCrashes /\ crashes' = crashes + 1
              /\ orphaned' = orphaned \cup {h}
              /\ Off
              /\ UNCHANGED <<record, faults>>
  BY DEF Spawn
<1>2. /\ h \in Children /\ child[h] = "absent" /\ NextPort \in Ports
      /\ child' \in [Children -> {"absent", "booting", "up", "exited"}]
      /\ port' \in [Children -> Ports] /\ port'[h] = NextPort
      /\ \A g \in Children : g # h => port'[g] = port[g] /\ child'[g] = child[g]
  BY <1>1, NextPortIsOther DEF Unspawned
<1>3. dpc = "launch" /\ UNCHANGED <<route, epoch, torn, takeovers>>
  BY DEF Spawn
<1>4. record' \in Records /\ record'.owner = record.owner /\ record'.leased = record.leased
      /\ record.children \subseteq record'.children
  <2>1. record' = record \/ record' = [record EXCEPT !.children = @ \cup {h}]
    BY <1>1
  <2>2. record \in Records
    BY DEF Records
  <2> QED BY <2>1, <2>2, <1>2 DEF Records
<1>5. crashes' \in 0..MaxCrashes /\ takeovers' \in 0..MaxTakeovers /\ faults' \in 0..MaxFaults
  BY <1>1, <1>3 DEF Fault
<1>6. TypeOK'
  BY <1>1, <1>2, <1>3, <1>4, <1>5 DEF Off, None, Records
<1>7. ControlInv'
  BY <1>1, <1>2, <1>3 DEF Rest, ControlInv, Exchanging, Off, None
<1>8. LeaseInv'
  <2>1. wrapper = "on" /\ spc # "done"
    BY <1>3 DEF Rest, ControlInv
  <2> QED BY <2>1, <1>3, <1>4 DEF Rest, LeaseInv
<1>9. RouteInv'
  <2>1. active # None => active # h /\ port'[active] = port[active]
    BY <1>2 DEF Rest, ControlInv, None
  <2>2. active # None => NextPort # port[active]
    BY NextPortIsOther
  <2>3. h # None
    BY <1>2 DEF Children, None
  <2> QED BY <1>1, <1>2, <1>3, <2>1, <2>2, <2>3
        DEF Rest, ControlInv, RouteInv, Launching, Mine, Off
<1>10. RecordCoversChildren'
  BY <1>1, <1>2, <1>3, <1>4 DEF Rest, ControlInv, RecordCoversChildren, Running
<1> QED BY <1>6, <1>7, <1>8, <1>9, <1>10 DEF Rest

\* The first publication of a wrapper's route.
LEMMA PublishStep ==
  ASSUME Inv, Publish
  PROVE  TypeOK' /\ Rest'
<1> USE PortsAssumption, BoundsAssumption DEF Inv, TypeOK
<1>1. record' \in Records /\ record'.owner = record.owner /\ record'.children = record.children
  <2>1. record' = record \/ record' = [record EXCEPT !.leased = TRUE]
    BY DEF Publish, appVars
  <2>2. record \in Records
    BY DEF Records
  <2> QED BY <2>1, <2>2 DEF Records
<1>2. TypeOK'
  <2>1. peer \in Children /\ port[peer] \in 0..NPorts
    BY DEF Publish, Rest, RouteInv, Launching, Ports
  <2>2. route' \in [lease : 0..MaxWrappers, port : 0..NPorts]
    BY <2>1 DEF Publish, NoRoute, Other
  <2>3. child' \in [Children -> {"absent", "booting", "up", "exited"}]
    BY <2>1 DEF Publish
  <2>4. /\ active' \in Children \cup {None} /\ peer' \in Children \cup {None}
        /\ watched' \in Children \cup {None}
    BY <2>1 DEF Publish, appVars
  <2>5. faults' \in 0..MaxFaults
    BY DEF Publish, Fault
  <2> QED BY <1>1, <2>2, <2>3, <2>4, <2>5
        DEF Publish, appVars, histVars, countVars, Records
<1>3. ControlInv'
  BY DEF Publish, appVars, histVars, countVars, Rest, ControlInv, RouteInv, Launching, Exchanging
<1>4. LeaseInv'
  <2>1. route'.lease <= epoch' /\ epoch' = epoch
    BY DEF Publish, NoRoute, Other, Rest, LeaseInv
  <2>2. wrapper = "on" /\ spc # "done"
    BY DEF Publish, Rest, ControlInv
  <2>3. record'.owner >= 1
    BY <1>1, <2>2 DEF Rest, LeaseInv
  <2> QED BY <2>1, <2>3 DEF LeaseInv
<1>5. RouteInv'
  BY DEF Publish, appVars, histVars, countVars, Rest, ControlInv, RouteInv, Launching, Mine,
     NoRoute, Other, None
<1>6. RecordCoversChildren'
  BY <1>1 DEF Publish, appVars, histVars, countVars, Rest, RecordCoversChildren, Running, ControlInv
<1> QED BY <1>2, <1>3, <1>4, <1>5, <1>6 DEF Rest

------------------------------------------------------------------------------
(* Results.                                                                *)

\* The invariant holds in every behaviour (rolling-app.ts:64-205).
THEOREM Invariance == Spec => []Inv
<1>1. Init => Inv
  <2> SUFFICES ASSUME Init PROVE Inv
    OBVIOUS
  <2> USE PortsAssumption, BoundsAssumption DEF Init, None, Other, NoRoute, NoRecord
  <2>1. TypeOK
    <3>1. child \in [Children -> {"absent", "booting", "up", "exited"}]
      OBVIOUS
    <3>2. port \in [Children -> Ports]
      BY DEF Ports
    <3>3. route \in [lease : 0..MaxWrappers, port : 0..NPorts]
      OBVIOUS
    <3>4. record \in Records
      BY RecordKept
    <3>5. torn \in BOOLEAN
      BY Zenon
    <3>6. /\ epoch \in 0..MaxWrappers /\ crashes \in 0..MaxCrashes
          /\ takeovers \in 0..MaxTakeovers /\ faults \in 0..MaxFaults
      OBVIOUS
    <3> QED BY <3>1, <3>2, <3>3, <3>4, <3>5, <3>6 DEF TypeOK, Records
  <2>2. ControlInv /\ LeaseInv /\ RouteInv
    BY DEF ControlInv, Exchanging, LeaseInv, RouteInv, Launching
  <2>3. RecordCoversChildren
    BY DEF RecordCoversChildren, Running
  <2> QED BY <2>1, <2>2, <2>3 DEF Inv, Rest
<1>2. Inv /\ [Next]_vars => Inv'
  <2> SUFFICES ASSUME Inv, [Next]_vars PROVE Inv'
    OBVIOUS
  <2>1. CASE UNCHANGED vars
    BY <2>1 DEF vars, appVars, histVars, countVars, Inv, Rest, TypeOK, ControlInv, LeaseInv,
       RouteInv, RecordCoversChildren, Running, Mine
  <2>2. CASE Next
    BY <2>2, SpawnStep, PublishStep, LaunchSteps, DeploySteps, StopSteps, OtherSteps,
       LaunchTyped, DeployTyped, StopTyped, OtherTyped
       DEF Next, DeployStep, StopStep, Recover, Inv
  <2> QED BY <2>1, <2>2
<1> QED BY <1>1, <1>2, PTL DEF Spec

\* The variables keep their types for any bounds.
THEOREM TypeCorrect == Spec => []TypeOK
<1>1. Inv => TypeOK
  BY DEF Inv
<1> QED BY <1>1, Invariance, PTL

\* Every running child is in the record recovery reads, or is being undone, or
\* its wrapper died before it could record it (generation-registry.ts:110-138).
THEOREM RecordCovers == Spec => []RecordCoversChildren
<1>1. Inv => RecordCoversChildren
  BY DEF Inv, Rest
<1> QED BY <1>1, Invariance, PTL

\* While the status is running, the route leads to the active generation
\* (rolling-app.ts:134-165).
THEOREM StatusIsTrue == Spec => []StatusIsRouted
<1>1. Inv => StatusIsRouted
  BY DEF Inv, Rest, ControlInv, RouteInv, StatusIsRouted
<1> QED BY <1>1, Invariance, PTL

\* No generation is drained or stopped while the route of its own wrapper leads
\* to it (rolling-app.ts:135,149-163,178-181).
THEOREM OffRouteFirst == Spec => []StoppedOffRoute
<1>1. Inv => StoppedOffRoute
  BY DEF Inv, Rest, ControlInv, RouteInv, StoppedOffRoute, Condemned, Launching, Exchanging
<1> QED BY <1>1, Invariance, PTL

\* A route of another application changes only by that application, by a forced
\* takeover or by a wrapper that starts (routes.ts:317-345).
THEOREM OthersStand == Spec => OthersRouteStands
<1>1. Inv /\ [Next]_vars
        => [route # NoRoute /\ route.lease = Other /\ route' # route
              => Takeover \/ OtherLeaves \/ Publish]_vars
  <2> SUFFICES ASSUME Inv, [Next]_vars, route.lease = Other, route' # route,
                      ~Takeover, ~OtherLeaves, ~Publish
               PROVE  FALSE
    OBVIOUS
  <2>1. wrapper = "on" => ~Mine
    BY BoundsAssumption DEF Inv, Rest, ControlInv, TypeOK, Mine, Other
  <2>2. dpc # "idle" \/ spc # "no" => wrapper = "on"
    BY DEF Inv, Rest, ControlInv, TypeOK
  <2>3. CASE Cutover \/ Verify \/ Release
    BY <2>1, <2>2, <2>3 DEF Cutover, Verify, Rollback, Release
  <2>4. CASE DeleteRecord
    BY <2>4, BoundsAssumption DEF DeleteRecord, Inv, Rest, LeaseInv, TypeOK, Other
  <2>5. CASE Start \/ Deploy \/ Stop \/ Crash \/ UNCHANGED vars
    BY <2>5 DEF Start, Deploy, Stop, Crash, vars
  <2>6. CASE PortBusy \/ Spawn \/ Ready \/ NotReady \/ Unboot \/ Drain \/ StopOld \/ Reap
    BY <2>6 DEF PortBusy, Spawn, Ready, NotReady, Unboot, Drain, StopOld, Reap
  <2>7. CASE StopDrain \/ StopActive \/ Leave
    BY <2>7 DEF StopDrain, StopActive, Leave
  <2>8. ASSUME NEW g \in Children, Exit(g) \/ Listen(g) \/ RecoverChild(g) PROVE FALSE
    BY <2>8 DEF Exit, Listen, RecoverChild
  <2> QED BY <2>3, <2>4, <2>5, <2>6, <2>7, <2>8 DEF Next, DeployStep, StopStep, Recover
<1> QED BY <1>1, Invariance, PTL DEF Spec, OthersRouteStands
==============================================================================
