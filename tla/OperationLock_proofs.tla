------------------------- MODULE OperationLock_proofs -------------------------
(***************************************************************************)
(* Safety of OperationLock for any number of processes, crashes and failed *)
(* looks.  The invariant: until a live owner's lock is removed as stale,   *)
(* every process between creating and removing the lock finds the path     *)
(* leading to the file it created; and a holder's own file is filled, so   *)
(* its release recognises it.                                              *)
(***************************************************************************)
EXTENDS OperationLock, TLAPS

Probing == {"probe1", "probe2", "probe3"}

\* The path still leads to the file c created.
OwnsFile(c) == file # NoFile /\ file.marker = Marker(c)

OwnerInv == ~stolen => \A c \in Callers : Owning(c) => OwnsFile(c)
FilledInv == \A c \in Callers : pc[c] \in {"held"} \cup Releasing /\ OwnsFile(c) => file.filled
Inv == OwnerInv /\ FilledInv /\ LockHasUser

------------------------------------------------------------------------------
(* Types.                                                                  *)

\* The marker of a caller, and the file it creates, are typed.
LEMMA MarkerTyped ==
  ASSUME TypeOK, NEW c \in Callers
  PROVE  /\ Marker(c) \in Markers /\ Marker(c)[1] = c
         /\ \A i \in Inodes, b \in BOOLEAN :
              [ino |-> i, marker |-> Marker(c), filled |-> b] \in Files
BY DEF TypeOK, Marker, Markers, Files

\* A lock that holds no marker is told from every marker.
LEMMA NothingIsNoMarker == \A m \in Markers : m # Nothing
BY DEF Markers, Nothing

\* Moving a caller keeps the program counters typed.
LEMMA GotoTyped ==
  ASSUME TypeOK, NEW c \in Callers, NEW next \in PCs, Goto(c, next)
  PROVE  /\ pc' \in [Callers -> PCs] /\ pc'[c] = next
         /\ \A d \in Callers : d # c => pc'[d] = pc[d]
BY DEF TypeOK, Goto

\* The steps on the file the caller makes or removes.
LEMMA FileStepTyped ==
  ASSUME TypeOK, NEW c \in Callers,
         Open(c) \/ Write(c) \/ WriteFails(c) \/ UnlinkForRelease(c) \/ UnlinkStale(c)
  PROVE  TypeOK'
<1> USE DEF callerVars, countVars, Unlink
<1>1. PICK next \in {"write", "stat", "held", "idle", "open"} : Goto(c, next)
  BY DEF Open, Write, WriteFails, UnlinkForRelease, UnlinkStale
<1>2. pc' \in [Callers -> PCs] /\ pc'[c] = next /\ \A d \in Callers : d # c => pc'[d] = pc[d]
  BY <1>1, GotoTyped DEF PCs, Creating
<1>3. file' \in Files \cup {NoFile}
  <2>1. CASE Open(c)
    <3>1. CASE \E i \in Inodes : file' = [ino |-> i, marker |-> Marker(c), filled |-> FALSE]
      BY <3>1, MarkerTyped
    <3> QED BY <2>1, <3>1 DEF Open, TypeOK
  <2>2. CASE Write(c)
    BY <2>2 DEF Write, TypeOK, Files
  <2> QED BY <2>1, <2>2 DEF WriteFails, UnlinkForRelease, UnlinkStale
<1>4. UNCHANGED <<calls, ino, raw, crashes, unreadable>>
  BY DEF Open, Write, WriteFails, UnlinkForRelease, UnlinkStale
<1>5. stolen' \in BOOLEAN
  BY DEF TypeOK, Open, Write, WriteFails, UnlinkForRelease, UnlinkStale
<1>6. next \notin Probing \cup Removing
  BY DEF Probing, Removing
<1> QED BY <1>2, <1>3, <1>4, <1>5, <1>6 DEF TypeOK, Probing

\* Everything else a caller does, and its death.
LEMMA CallerStepTyped ==
  ASSUME TypeOK, NEW c \in Callers,
         \/ Acquire(c) \/ Release(c) \/ ReadForRelease(c) \/ Stat(c) \/ Read(c)
         \/ Probe1(c) \/ Probe2(c) \/ Probe3(c) \/ Restat(c) \/ Reread(c)
         \/ Poll(c) \/ GiveUp(c) \/ Crash(c)
  PROVE  TypeOK'
<1> USE DEF callerVars, countVars
<1>1. UNCHANGED <<file, stolen>>
  BY DEF Acquire, Release, ReadForRelease, Stat, Read, Probe1, Probe2, Probe3, Restat, Reread,
         Poll, GiveUp, Crash
<1>2. crashes' \in 0..MaxCrashes /\ unreadable' \in 0..MaxUnreadable
  BY BoundsAssumption
     DEF TypeOK, Unread, Acquire, Release, ReadForRelease, Stat, Read, Probe1, Probe2, Probe3,
         Restat, Reread, Poll, GiveUp, Crash
<1>3. CASE Read(c)
  <2>1. raw' \in [Callers -> Markers \cup {Nothing}]
    BY <1>3 DEF Read, TypeOK, Files
  <2>2. PICK next \in {"open", "idle", "probe1"} : Goto(c, next)
    BY <1>3 DEF Read
  <2>3. pc' \in [Callers -> PCs] /\ pc'[c] = next /\ \A d \in Callers : d # c => pc'[d] = pc[d]
    BY <2>2, GotoTyped DEF PCs
  <2>4. pc'[c] = "probe1" => raw'[c] # Nothing
    <3>1. CASE file # NoFile /\ raw' = [raw EXCEPT ![c] = file.marker]
      BY <3>1, NothingIsNoMarker DEF TypeOK, Files
    <3> QED BY <1>3, <2>3, <3>1, GotoTyped DEF Read, PCs
  <2>5. \A d \in Callers : d # c => raw'[d] = raw[d]
    BY <1>3 DEF Read, TypeOK
  <2>6. pc'[c] \notin {"probe2", "probe3"} \cup Removing
    BY <2>3 DEF Removing
  <2> QED BY <1>1, <1>2, <1>3, <2>1, <2>3, <2>4, <2>5, <2>6 DEF TypeOK, Read
<1>4. CASE Acquire(c) \/ Release(c) \/ ReadForRelease(c) \/ Stat(c) \/ Poll(c) \/ GiveUp(c) \/ Crash(c)
  <2>1. PICK next \in {"open", "releaseRead", "releaseUnlink", "idle", "read", "dead"} : Goto(c, next)
    BY <1>4 DEF Acquire, Release, ReadForRelease, Stat, Poll, GiveUp, Crash
  <2>2. pc' \in [Callers -> PCs] /\ pc'[c] = next /\ \A d \in Callers : d # c => pc'[d] = pc[d]
    BY <2>1, GotoTyped DEF PCs, Releasing
  <2>3. calls' \in [Callers -> Nat] /\ ino' \in [Callers -> Inodes] /\ raw' = raw
    BY <1>4 DEF TypeOK, Files, Acquire, Release, ReadForRelease, Stat, Poll, GiveUp, Crash
  <2>4. pc'[c] \notin Probing \cup Removing
    BY <2>2 DEF Probing, Removing
  <2> QED BY <1>1, <1>2, <2>2, <2>3, <2>4 DEF TypeOK, Probing
<1>5. CASE Probe1(c) \/ Probe2(c) \/ Probe3(c) \/ Restat(c) \/ Reread(c)
  <2>1. PICK next \in {"wait", "probe2", "probe3", "restat", "open", "reread", "unlink"} : Goto(c, next)
    BY <1>5 DEF Probe1, Probe2, Probe3, Restat, Reread
  <2>2. pc' \in [Callers -> PCs] /\ pc'[c] = next /\ \A d \in Callers : d # c => pc'[d] = pc[d]
    BY <2>1, GotoTyped DEF PCs, Removing
  <2>3. UNCHANGED <<calls, ino, raw>> /\ raw[c] # Nothing
    BY <1>5 DEF TypeOK, Removing, Probe1, Probe2, Probe3, Restat, Reread
  <2> QED BY <1>1, <1>2, <2>2, <2>3 DEF TypeOK
<1> QED BY <1>3, <1>4, <1>5

\* Type correctness, for any number of processes (OperationLock, TypeOK).
THEOREM TypeCorrect == Spec => []TypeOK
<1>1. Init => TypeOK
  <2> SUFFICES ASSUME Init PROVE TypeOK
    OBVIOUS
  <2>1. pc \in [Callers -> PCs] /\ \A c \in Callers : pc[c] = "idle"
    BY DEF Init, PCs
  <2>2. calls \in [Callers -> Nat] /\ raw \in [Callers -> Markers \cup {Nothing}]
    BY DEF Init
  <2>3. crashes \in 0..MaxCrashes /\ unreadable \in 0..MaxUnreadable
    BY BoundsAssumption DEF Init
  <2> QED BY <2>1, <2>2, <2>3 DEF Init, TypeOK, Removing
<1>2. TypeOK /\ [Next]_vars => TypeOK'
  <2>1. ASSUME TypeOK, UNCHANGED vars PROVE TypeOK'
    BY <2>1 DEF TypeOK, vars, callerVars, countVars
  <2> QED BY <2>1, FileStepTyped, CallerStepTyped DEF Next, Step
<1> QED BY <1>1, <1>2, PTL DEF Spec

------------------------------------------------------------------------------
(* The invariant.                                                          *)

\* Two callers never draw the same marker.
LEMMA MarkersDiffer == \A c, d \in Callers : Marker(c) = Marker(d) => c = d
BY DEF Marker

\* A step that leaves the file, every other caller and c's call alone keeps
\* the invariant, if c owns afterwards only what it owned, gives up owning
\* only by dying or with nothing at the path, and becomes a holder only of a
\* filled file.
LEMMA QuietStep ==
  ASSUME TypeOK, Inv, NEW c \in Callers, NEW next \in PCs, Goto(c, next),
         UNCHANGED <<file, calls, stolen>>,
         Owning(c)' => Owning(c),
         Owning(c) /\ ~Owning(c)' => next = "dead" \/ ~OwnsFile(c),
         next \in {"held"} \cup Releasing => pc[c] \in {"held"} \cup Releasing,
         pc[c] = "dead" => next = "dead"
  PROVE  Inv'
<1>1. pc'[c] = next /\ \A d \in Callers : d # c => pc'[d] = pc[d]
  BY GotoTyped
<1>2. \A d \in Callers : (Owning(d)' => Owning(d)) /\ (OwnsFile(d)' <=> OwnsFile(d))
  BY <1>1 DEF Owning, OwnsFile, Marker
<1>3. OwnerInv'
  BY <1>2 DEF Inv, OwnerInv
<1>4. FilledInv'
  BY <1>1, <1>2 DEF Inv, FilledInv
<1>5. LockHasUser'
  <2> SUFFICES ASSUME file # NoFile PROVE LockHasUser'
    BY DEF LockHasUser
  <2> DEFINE d == file.marker[1]
  <2>1. d \in Callers
    BY DEF TypeOK, Files, Markers
  <2>2. pc[d] = "dead" \/ (file.marker = Marker(d) /\ Owning(d))
    BY DEF Inv, LockHasUser
  <2>3. pc[d] = "dead" => pc'[d] = "dead"
    BY <1>1, <2>1
  <2>4. file.marker = Marker(d) /\ Owning(d) => pc'[d] = "dead" \/ Owning(d)'
    <3>1. CASE d = c
      BY <1>1, <3>1 DEF OwnsFile
    <3>2. CASE d # c
      BY <1>1, <2>1, <3>2 DEF Owning
    <3> QED BY <3>1, <3>2
  <2>5. Marker(d)' = Marker(d)
    BY DEF Marker
  <2> QED BY <2>2, <2>3, <2>4, <2>5 DEF LockHasUser
<1> QED BY <1>3, <1>4, <1>5 DEF Inv

\* So does removing the file, if nobody but c owned it, c stops owning, and
\* c holds nothing afterwards.
LEMMA RemovalStep ==
  ASSUME TypeOK, Inv, NEW c \in Callers, NEW next \in PCs, Goto(c, next),
         file' = NoFile, ~Owning(c)', UNCHANGED calls, stolen => stolen',
         ~stolen' => \A d \in Callers : Owning(d) => d = c
  PROVE  Inv'
<1>1. \A d \in Callers : d # c => pc'[d] = pc[d]
  BY GotoTyped
<1>2. OwnerInv'
  BY <1>1 DEF OwnerInv, Owning
<1>3. FilledInv' /\ LockHasUser'
  BY DEF FilledInv, LockHasUser, OwnsFile
<1> QED BY <1>2, <1>3 DEF Inv

\* The steps that create, fill or remove a file keep the invariant.
LEMMA FileStepKeepsInv ==
  ASSUME TypeOK, Inv, NEW c \in Callers,
         Write(c) \/ WriteFails(c) \/ UnlinkForRelease(c) \/ UnlinkStale(c)
  PROVE  Inv'
<1> USE DEF callerVars, countVars, Unlink
<1>1. CASE Write(c)
  <2>1. Goto(c, "held") /\ UNCHANGED <<calls, stolen>> /\ pc[c] = "write"
    BY <1>1 DEF Write
  <2>2. pc'[c] = "held" /\ \A d \in Callers : d # c => pc'[d] = pc[d]
    BY <2>1, GotoTyped DEF PCs
  <2>3. /\ file = NoFile <=> file' = NoFile
        /\ file # NoFile => file'.marker = file.marker /\ (file.filled => file'.filled)
        /\ OwnsFile(c) => file'.filled
    BY <1>1, NoFileAssumption DEF Write, TypeOK, Files, OwnsFile
  <2>4. \A d \in Callers : (Owning(d)' <=> Owning(d)) /\ (OwnsFile(d)' <=> OwnsFile(d))
    BY <2>1, <2>2, <2>3 DEF Owning, OwnsFile, Marker, Creating
  <2>5. OwnerInv'
    BY <2>1, <2>4 DEF Inv, OwnerInv
  <2>6. FilledInv'
    BY <2>2, <2>3, <2>4 DEF Inv, FilledInv, OwnsFile
  <2>7. LockHasUser'
    <3> SUFFICES ASSUME file' # NoFile PROVE LockHasUser'
      BY DEF LockHasUser
    <3> DEFINE d == file.marker[1]
    <3>1. d \in Callers /\ file # NoFile /\ file'.marker[1] = d
      BY <2>3 DEF TypeOK, Files, Markers
    <3>2. pc[d] = "dead" \/ (file.marker = Marker(d) /\ Owning(d))
      BY <3>1 DEF Inv, LockHasUser
    <3>3. pc[d] = "dead" => pc'[d] = "dead"
      BY <2>1, <2>2, <3>1
    <3>4. Marker(d)' = Marker(d) /\ (Owning(d)' <=> Owning(d))
      BY <2>1, <2>4, <3>1 DEF Marker
    <3> QED BY <2>3, <3>1, <3>2, <3>3, <3>4 DEF LockHasUser
  <2> QED BY <2>5, <2>6, <2>7 DEF Inv
<1>2. CASE WriteFails(c) \/ UnlinkForRelease(c)
  <2>1. /\ Goto(c, "idle") /\ UNCHANGED <<calls, stolen>> /\ file' = NoFile
        /\ pc[c] \in {"write", "releaseUnlink"}
    BY <1>2 DEF WriteFails, UnlinkForRelease
  <2>2. pc'[c] = "idle"
    BY <2>1, GotoTyped DEF PCs
  <2>3. ~Owning(c)' /\ Owning(c)
    BY <2>1, <2>2 DEF Owning, Creating, Releasing
  <2>4. ~stolen => \A d \in Callers : Owning(d) => d = c
    BY <2>3, MarkersDiffer DEF Inv, OwnerInv, OwnsFile
  <2>5. "idle" \in PCs
    BY DEF PCs
  <2> QED BY <2>1, <2>3, <2>4, <2>5, RemovalStep
<1>3. CASE UnlinkStale(c)
  <2>1. /\ Goto(c, "open") /\ UNCHANGED calls /\ file' = NoFile
        /\ stolen' = (stolen \/ (file # NoFile /\ Alive(file.marker)))
    BY <1>3 DEF UnlinkStale
  <2>2. pc'[c] = "open"
    BY <2>1, GotoTyped DEF PCs
  <2>3. ~Owning(c)'
    BY <2>2 DEF Owning, Creating, Releasing
  <2>4. ASSUME ~stolen', NEW d \in Callers, Owning(d) PROVE FALSE
    <3>1. ~stolen
      BY <2>1, <2>4
    <3>2. file # NoFile /\ file.marker = Marker(d)
      BY <2>4, <3>1 DEF Inv, OwnerInv, OwnsFile
    <3>3. ~Alive(Marker(d))
      BY <2>1, <2>4, <3>2
    <3>4. pc[d] = "dead"
      BY <3>3, MarkerTyped DEF Alive
    <3> QED BY <2>4, <3>4 DEF Owning, Creating, Releasing
  <2>5. "open" \in PCs
    BY DEF PCs
  <2> QED BY <2>1, <2>3, <2>4, <2>5, RemovalStep
<1> QED BY <1>1, <1>2, <1>3

\* A new call draws a new marker; an exclusive create succeeds on no file.
LEMMA EntryKeepsInv ==
  ASSUME TypeOK, Inv, NEW c \in Callers, Acquire(c) \/ Open(c)
  PROVE  Inv'
<1> USE DEF callerVars, countVars
<1>1. CASE Acquire(c)
  <2>1. /\ pc[c] = "idle" /\ Goto(c, "open") /\ UNCHANGED <<file, stolen>>
        /\ calls' = [calls EXCEPT ![c] = @ + 1]
    BY <1>1 DEF Acquire
  <2>2. pc'[c] = "open" /\ \A d \in Callers : d # c => pc'[d] = pc[d]
    BY <2>1, GotoTyped DEF PCs
  <2>3. ~Owning(c) /\ ~Owning(c)'
    BY <2>1, <2>2 DEF Owning, Creating, Releasing
  <2>4. \A d \in Callers : d # c =>
          Marker(d)' = Marker(d) /\ (Owning(d)' <=> Owning(d)) /\ (OwnsFile(d)' <=> OwnsFile(d))
    BY <2>1, <2>2 DEF Marker, Owning, OwnsFile, TypeOK
  <2>5. OwnerInv'
    BY <2>1, <2>3, <2>4 DEF Inv, OwnerInv
  <2>6. FilledInv'
    <3>1. pc'[c] \notin {"held"} \cup Releasing
      BY <2>2 DEF Releasing
    <3> QED BY <2>1, <2>2, <2>4, <3>1 DEF Inv, FilledInv
  <2>7. LockHasUser'
    <3> SUFFICES ASSUME file # NoFile PROVE LockHasUser'
      BY <2>1 DEF LockHasUser
    <3> DEFINE d == file.marker[1]
    <3>1. d \in Callers
      BY DEF TypeOK, Files, Markers
    <3>2. pc[d] = "dead" \/ (file.marker = Marker(d) /\ Owning(d))
      BY DEF Inv, LockHasUser
    <3>3. d # c
      BY <2>1, <2>3, <3>2
    <3> QED BY <2>1, <2>2, <2>4, <3>1, <3>2, <3>3 DEF LockHasUser
  <2> QED BY <2>5, <2>6, <2>7 DEF Inv
<1>2. CASE Open(c) /\ file = NoFile
  <2>1. PICK i \in Inodes : file' = [ino |-> i, marker |-> Marker(c), filled |-> FALSE]
    BY <1>2 DEF Open
  <2>2. pc[c] = "open" /\ Goto(c, "write") /\ UNCHANGED <<calls, stolen>>
    BY <1>2 DEF Open
  <2>3. pc'[c] = "write" /\ \A d \in Callers : d # c => pc'[d] = pc[d]
    BY <2>2, GotoTyped DEF PCs, Creating
  <2>4. file' # NoFile /\ file'.marker = Marker(c) /\ Marker(c)' = Marker(c)
    BY <2>1, <2>2, MarkerTyped, NoFileAssumption DEF Marker
  <2>5. OwnsFile(c)' /\ Owning(c)'
    BY <2>3, <2>4 DEF OwnsFile, Owning, Creating
  <2>6. OwnerInv'
    <3>1. ~stolen => \A d \in Callers : ~Owning(d)
      BY <1>2 DEF Inv, OwnerInv, OwnsFile
    <3> QED BY <2>2, <2>3, <2>5, <3>1 DEF OwnerInv, Owning
  <2>7. FilledInv'
    <3>1. \A d \in Callers : OwnsFile(d)' => d = c
      BY <2>2, <2>4, MarkersDiffer DEF OwnsFile, Marker
    <3>2. pc'[c] \notin {"held"} \cup Releasing
      BY <2>3 DEF Releasing
    <3> QED BY <3>1, <3>2 DEF FilledInv
  <2>8. LockHasUser'
    BY <2>4, <2>5, MarkerTyped DEF LockHasUser
  <2> QED BY <2>6, <2>7, <2>8 DEF Inv
<1>3. CASE Open(c) /\ file # NoFile
  <2>1. pc[c] = "open" /\ Goto(c, "stat") /\ UNCHANGED <<file, calls, stolen>>
    BY <1>3 DEF Open
  <2>2. "stat" \in PCs /\ ~Owning(c) /\ pc[c] # "dead" /\ "stat" \notin {"held"} \cup Releasing
    BY <2>1 DEF PCs, Owning, Creating, Releasing
  <2>3. ~Owning(c)'
    BY <2>1, <2>2, GotoTyped DEF Owning, Creating
  <2> QED BY <2>1, <2>2, <2>3, QuietStep
<1> QED BY <1>1, <1>2, <1>3

\* The steps that leave the file alone keep the invariant.
LEMMA OtherStepKeepsInv ==
  ASSUME TypeOK, Inv, NEW c \in Callers,
         \/ Release(c) \/ ReadForRelease(c) \/ Stat(c) \/ Read(c)
         \/ Probe1(c) \/ Probe2(c) \/ Probe3(c) \/ Restat(c) \/ Reread(c)
         \/ Poll(c) \/ GiveUp(c) \/ Crash(c)
  PROVE  Inv'
<1> USE DEF callerVars, countVars
<1>1. UNCHANGED <<file, calls, stolen>>
  BY DEF Release, ReadForRelease, Stat, Read, Probe1, Probe2, Probe3, Restat, Reread,
         Poll, GiveUp, Crash
<1>2. CASE Release(c) \/ ReadForRelease(c)
  <2>1. PICK next \in {"releaseRead", "releaseUnlink", "idle"} :
          /\ Goto(c, next) /\ pc[c] \in {"held"} \cup Releasing
          /\ next = "idle" => ~(file # NoFile /\ Content(file) = Marker(c))
    BY <1>2 DEF Release, ReadForRelease, Releasing
  <2>2. next \in PCs /\ pc'[c] = next
    BY <2>1, GotoTyped DEF PCs, Releasing
  <2>3. Owning(c) /\ pc[c] # "dead" /\ (Owning(c)' <=> next # "idle")
    BY <2>1, <2>2 DEF Owning, Creating, Releasing
  <2>4. next = "idle" => ~OwnsFile(c)
    BY <2>1 DEF Inv, FilledInv, OwnsFile, Content
  <2> QED BY <1>1, <2>1, <2>2, <2>3, <2>4, QuietStep
<1>3. CASE Crash(c)
  <2>1. Goto(c, "dead") /\ "dead" \in PCs /\ "dead" \notin {"held"} \cup Releasing
    BY <1>3 DEF Crash, PCs, Releasing
  <2>2. ~Owning(c)'
    BY <2>1, GotoTyped DEF Owning, Creating, Releasing
  <2> QED BY <1>1, <2>1, <2>2, QuietStep
<1>4. CASE \/ Stat(c) \/ Read(c) \/ Probe1(c) \/ Probe2(c) \/ Probe3(c) \/ Restat(c) \/ Reread(c)
           \/ Poll(c) \/ GiveUp(c)
  <2> DEFINE Outside == {"stat", "read", "probe1", "probe2", "probe3", "restat", "reread", "unlink",
                         "open", "wait", "idle"}
  <2>1. PICK next \in Outside : Goto(c, next) /\ pc[c] \in Outside
    BY <1>4 DEF Stat, Read, Probe1, Probe2, Probe3, Restat, Reread, Poll, GiveUp
  <2>2. next \in PCs /\ pc'[c] = next
    BY <2>1, GotoTyped DEF PCs, Removing
  <2>3. ~Owning(c) /\ ~Owning(c)' /\ pc[c] # "dead" /\ next \notin {"held"} \cup Releasing
    BY <2>1, <2>2 DEF Owning, Creating, Releasing
  <2> QED BY <1>1, <2>1, <2>2, <2>3, QuietStep
<1> QED BY <1>2, <1>3, <1>4

\* The invariant holds throughout.
THEOREM Invariance == Spec => []Inv
<1>1. Init => Inv
  BY DEF Init, Inv, OwnerInv, FilledInv, LockHasUser, Owning, OwnsFile, Creating, Releasing
<1>2. TypeOK /\ Inv /\ [Next]_vars => Inv'
  <2>1. ASSUME TypeOK, Inv, UNCHANGED vars PROVE Inv'
    BY <2>1 DEF Inv, OwnerInv, FilledInv, LockHasUser, Owning, OwnsFile, Marker, vars, callerVars
  <2> QED BY <2>1, FileStepKeepsInv, EntryKeepsInv, OtherStepKeepsInv DEF Next, Step
<1> QED BY <1>1, <1>2, TypeCorrect, PTL DEF Spec

\* As long as no live owner's lock is removed as stale, one process at a time
\* is between creating and removing the lock, whatever crashes and whatever
\* cannot be read (OperationLock, ExclusionUnlessStolen).
THEOREM Exclusion == Spec => []ExclusionUnlessStolen
<1>1. TypeOK /\ Inv => ExclusionUnlessStolen
  BY MarkersDiffer DEF Inv, OwnerInv, OwnsFile, ExclusionUnlessStolen
<1> QED BY <1>1, TypeCorrect, Invariance, PTL

\* A lock file's maker is in the call that made it, or died
\* (OperationLock, LockHasUser).
THEOREM NoLockIsLeft == Spec => []LockHasUser
<1>1. Inv => LockHasUser
  BY DEF Inv
<1> QED BY <1>1, Invariance, PTL

------------------------------------------------------------------------------
(* What a contender's judgement is worth.                                  *)

\* A process that died stays dead.
LEMMA DeadStaysDead ==
  ASSUME TypeOK, [Next]_vars, NEW d \in Callers, pc[d] = "dead"
  PROVE  pc'[d] = "dead"
<1>1. ASSUME NEW c \in Callers, Acquire(c) \/ Step(c) \/ Release(c) \/ Crash(c) PROVE pc'[d] = "dead"
  <2>1. CASE Crash(c)
    BY <2>1 DEF Crash, Goto, TypeOK
  <2>2. CASE Acquire(c) \/ Step(c) \/ Release(c)
    <3>1. pc[c] # "dead"
      BY <2>2 DEF Acquire, Release, Step, Open, Write, WriteFails, ReadForRelease, UnlinkForRelease,
         Stat, Read, Probe1, Probe2, Probe3, Restat, Reread, UnlinkStale, Poll, GiveUp
    <3>2. PICK next : Goto(c, next)
      BY <2>2 DEF Acquire, Release, Step, Open, Write, WriteFails, ReadForRelease, UnlinkForRelease,
         Stat, Read, Probe1, Probe2, Probe3, Restat, Reread, UnlinkStale, Poll, GiveUp
    <3> QED BY <3>1, <3>2 DEF Goto, TypeOK
  <2> QED BY <1>1, <2>1, <2>2
<1> QED BY <1>1 DEF Next, vars

\* A contender past its first look, when no look at a live process fails.
FoundDead(c) == pc[c] \in {"probe2", "probe3"} \cup Removing => ~Alive(raw[c])

\* When no look at a live process fails, one step of a contender keeps it.
LEMMA FoundDeadStep ==
  ASSUME MaxUnreadable = 0, TypeOK, [Next]_vars, NEW c \in Callers, FoundDead(c)
  PROVE  FoundDead(c)'
<1> USE DEF callerVars, countVars
<1>1. ~Unread
  BY DEF Unread, TypeOK
<1>2. SUFFICES ASSUME pc'[c] \in {"probe2", "probe3"} \cup Removing PROVE ~Alive(raw[c])'
  BY DEF FoundDead, Alive
<1>3. raw'[c] = raw[c] /\ raw[c] \in Markers /\ ~Alive(raw[c])
  <2>1. CASE UNCHANGED vars \/ \E d \in Callers \ {c} : Acquire(d) \/ Step(d) \/ Release(d) \/ Crash(d)
    <3>1. pc'[c] = pc[c] /\ raw'[c] = raw[c]
      BY <2>1 DEF TypeOK, vars, Goto, Acquire, Release, Crash, Step, Open, Write, WriteFails,
         ReadForRelease, UnlinkForRelease, Stat, Read, Probe1, Probe2, Probe3, Restat, Reread,
         UnlinkStale, Poll, GiveUp
    <3> QED BY <1>2, <3>1 DEF FoundDead, TypeOK
  <2>2. CASE Acquire(c) \/ Release(c) \/ Crash(c) \/ Open(c) \/ Write(c) \/ WriteFails(c)
             \/ ReadForRelease(c) \/ UnlinkForRelease(c) \/ Stat(c) \/ Read(c) \/ UnlinkStale(c)
             \/ Poll(c) \/ GiveUp(c)
    BY <1>2, <2>2 DEF TypeOK, Goto, Removing, Acquire, Release, Crash, Open, Write, WriteFails,
       ReadForRelease, UnlinkForRelease, Stat, Read, UnlinkStale, Poll, GiveUp
  <2>3. CASE Probe1(c) \/ Probe2(c) \/ Probe3(c) \/ Restat(c) \/ Reread(c)
    <3>1. UNCHANGED raw /\ raw[c] \in Markers
      BY <2>3 DEF TypeOK, Removing, Probe1, Probe2, Probe3, Restat, Reread
    <3>2. CASE Probe1(c)
      BY <1>1, <1>2, <3>1, <3>2 DEF Probe1, Goto, TypeOK, Removing
    <3>3. CASE Probe2(c) \/ Probe3(c) \/ Restat(c) \/ Reread(c)
      BY <3>1, <3>3 DEF FoundDead, Probe2, Probe3, Restat, Reread, Removing
    <3> QED BY <2>3, <3>1, <3>2, <3>3
  <2> QED BY <2>1, <2>2, <2>3 DEF Next, Step
<1>4. raw[c][1] \in Callers /\ pc[raw[c][1]] = "dead"
  BY <1>3 DEF Alive, Markers
<1>5. pc'[raw[c][1]] = "dead"
  BY <1>4, DeadStaysDead
<1>6. ~Alive(raw[c])'
  BY <1>3, <1>5 DEF Alive
<1> QED BY <1>6

\* If every look at a live process succeeds, a contender that goes on to
\* remove a lock has found its owner's process gone
\* (OperationLock, JudgedStaleIsDead).
THEOREM ReadableJudgement ==
  ASSUME MaxUnreadable = 0
  PROVE  Spec => []JudgedStaleIsDead
<1> DEFINE Found == \A c \in Callers : FoundDead(c)
<1>1. Init => Found
  BY DEF Init, FoundDead, Removing
<1>2. TypeOK /\ Found /\ [Next]_vars => Found'
  <2> SUFFICES ASSUME TypeOK, Found, [Next]_vars, NEW c \in Callers PROVE FoundDead(c)'
    OBVIOUS
  <2>1. FoundDead(c)
    OBVIOUS
  <2> QED BY <2>1, FoundDeadStep
<1>3. Found => JudgedStaleIsDead
  BY DEF FoundDead, JudgedStaleIsDead
<1> QED BY <1>1, <1>2, <1>3, TypeCorrect, PTL DEF Spec

===============================================================================
