----------------------------- MODULE OperationLock -----------------------------
(***************************************************************************)
(* The lock file that serialises proxy operations between zhost processes  *)
(* (packages/zhost/src/portless/operation-lock.ts): created exclusively,   *)
(* filled with the owner's process marker, removed by its owner, or by a   *)
(* contender that finds the owner's process gone.                          *)
(*                                                                         *)
(* An action is one system call on the lock file or one look at the owner  *)
(* process, with the code around it: other processes run in between.  What *)
(* is abstracted:                                                          *)
(*   - a caller is a process that calls acquireOperationLock again and     *)
(*     again; one that crashed stays dead, a new process is another caller *)
(*   - a marker (pid, identity, fresh nonce) is <<caller, call>>; its text *)
(*     is written as a whole, a partial write reads like none;             *)
(*   - the deadline is a choice between polling and giving up;             *)
(*   - errors of the file system other than a failed write are left out.   *)
(*                                                                         *)
(* The definitions whose comment starts with `Fault' are used by nothing:  *)
(* each is a plausible bug of the definition below it.                     *)
(***************************************************************************)
EXTENDS Naturals

CONSTANTS
  Callers,       \* processes
  Inodes,        \* inode numbers, which the file system reuses
  NoFile,        \* there is no lock file
  MaxCalls,      \* bound: acquisitions begun by one process
  MaxCrashes,    \* bound: processes that die
  MaxUnreadable  \* bound: looks at a live process that fail

Markers == Callers \X Nat
Nothing == <<>>   \* what an unfilled lock file holds
Files == [ino : Inodes, marker : Markers, filled : BOOLEAN]

ASSUME NoFileAssumption == NoFile \notin Files
ASSUME InodesAssumption == Inodes # {}
ASSUME BoundsAssumption == MaxCalls \in Nat /\ MaxCrashes \in Nat /\ MaxUnreadable \in Nat

Creating == {"write"}
Removing == {"restat", "reread", "unlink"}
Releasing == {"releaseRead", "releaseUnlink"}
PCs == {"idle", "open", "held", "stat", "read", "probe1", "probe2", "probe3", "wait", "dead"}
         \cup Creating \cup Removing \cup Releasing

VARIABLES
  file,       \* the file at the lock's path, or NoFile
  pc,         \* pc[c]: the next system call of c
  calls,      \* calls[c]: acquisitions c has begun
  ino,        \* ino[c]: before.ino of removeStaleLock
  raw,        \* raw[c]: the marker c read, or Nothing
  stolen,     \* history: a lock whose owner was alive was removed as stale
  crashes,    \* how many processes died
  unreadable  \* how many looks at a live process failed

callerVars == <<calls, ino, raw>>
countVars == <<crashes, unreadable>>
vars == <<file, pc, callerVars, stolen, countVars>>

Init ==
  /\ file = NoFile
  /\ pc = [c \in Callers |-> "idle"]
  /\ calls = [c \in Callers |-> 0]
  /\ ino \in [Callers -> Inodes]
  /\ raw = [c \in Callers |-> Nothing]
  /\ stolen = FALSE
  /\ crashes = 0
  /\ unreadable = 0

------------------------------------------------------------------------------
Marker(c) == <<c, calls[c]>>
Content(f) == IF f.filled THEN f.marker ELSE Nothing
Alive(marker) == pc[marker[1]] # "dead"

Goto(c, next) == pc' = [pc EXCEPT ![c] = next]
Unlink == file' = NoFile

\* A look at a live process that fails: /proc, ps or CIM did not answer.
Unread ==
  /\ unreadable < MaxUnreadable
  /\ unreadable' = unreadable + 1

------------------------------------------------------------------------------
(* acquireOperationLock and release.                                       *)

Acquire(c) ==
  /\ pc[c] = "idle"
  /\ calls[c] < MaxCalls
  /\ calls' = [calls EXCEPT ![c] = @ + 1]
  /\ Goto(c, "open")
  /\ UNCHANGED <<file, ino, raw, stolen, countVars>>

\* Fault of Open: without O_EXCL an existing lock is truncated.
OpenTruncating(c) ==
  /\ pc[c] = "open"
  /\ \E i \in Inodes : file' = [ino |-> i, marker |-> Marker(c), filled |-> FALSE]
  /\ Goto(c, "write")
  /\ UNCHANGED <<callerVars, stolen, countVars>>

Open(c) ==
  /\ pc[c] = "open"
  /\ \/ /\ file = NoFile
        /\ \E i \in Inodes : file' = [ino |-> i, marker |-> Marker(c), filled |-> FALSE]
        /\ Goto(c, "write")
     \/ /\ file # NoFile
        /\ Goto(c, "stat")
        /\ UNCHANGED file
  /\ UNCHANGED <<callerVars, stolen, countVars>>

\* The descriptor writes to the file c created, wherever the path leads now.
Write(c) ==
  /\ pc[c] = "write"
  /\ file' = IF file # NoFile /\ file.marker = Marker(c)
             THEN [file EXCEPT !.filled = TRUE] ELSE file
  /\ Goto(c, "held")
  /\ UNCHANGED <<callerVars, stolen, countVars>>

\* Fault of WriteFails: the file is left behind.
WriteFailsQuietly(c) ==
  /\ pc[c] = "write"
  /\ Goto(c, "idle")
  /\ UNCHANGED <<file, callerVars, stolen, countVars>>

WriteFails(c) ==
  /\ pc[c] = "write"
  /\ Unlink
  /\ Goto(c, "idle")
  /\ UNCHANGED <<callerVars, stolen, countVars>>

Release(c) ==
  /\ pc[c] = "held"
  /\ Goto(c, "releaseRead")
  /\ UNCHANGED <<file, callerVars, stolen, countVars>>

ReadForRelease(c) ==
  /\ pc[c] = "releaseRead"
  /\ IF file # NoFile /\ Content(file) = Marker(c)
     THEN Goto(c, "releaseUnlink") ELSE Goto(c, "idle")
  /\ UNCHANGED <<file, callerVars, stolen, countVars>>

UnlinkForRelease(c) ==
  /\ pc[c] = "releaseUnlink"
  /\ Unlink
  /\ Goto(c, "idle")
  /\ UNCHANGED <<callerVars, stolen, countVars>>

------------------------------------------------------------------------------
(* removeStaleLock: what is there, whose is it, is it still there, remove. *)

Stat(c) ==
  /\ pc[c] = "stat"
  /\ IF file = NoFile
     THEN Goto(c, "open") /\ UNCHANGED ino
     ELSE Goto(c, "read") /\ ino' = [ino EXCEPT ![c] = file.ino]
  /\ UNCHANGED <<file, calls, raw, stolen, countVars>>

\* A lock that holds no marker is unverifiable: the call throws.
Read(c) ==
  /\ pc[c] = "read"
  /\ \/ file = NoFile /\ Goto(c, "open") /\ UNCHANGED raw
     \/ file # NoFile /\ ~file.filled /\ Goto(c, "idle") /\ UNCHANGED raw
     \/ /\ file # NoFile /\ file.filled
        /\ Goto(c, "probe1")
        /\ raw' = [raw EXCEPT ![c] = file.marker]
  /\ UNCHANGED <<file, calls, ino, stolen, countVars>>

\* Fault of Probe1: the first look is not taken.
Probe1Skipped(c) ==
  /\ pc[c] = "probe1"
  /\ Goto(c, "probe2")
  /\ UNCHANGED <<file, callerVars, stolen, countVars>>

\* The owner exists and is the process it was: busy.
Probe1(c) ==
  /\ pc[c] = "probe1"
  /\ \/ Alive(raw[c]) /\ Goto(c, "wait") /\ UNCHANGED unreadable
     \/ Alive(raw[c]) /\ Goto(c, "probe2") /\ Unread
     \/ ~Alive(raw[c]) /\ Goto(c, "probe2") /\ UNCHANGED unreadable
  /\ UNCHANGED <<file, callerVars, stolen, crashes>>

\* Its pid exists and is not the process it was; a dead owner's pid may have
\* been given to another process.
Probe2(c) ==
  /\ pc[c] = "probe2"
  /\ \/ Alive(raw[c]) /\ Goto(c, "restat") /\ UNCHANGED unreadable
     \/ Alive(raw[c]) /\ Goto(c, "probe3") /\ Unread
     \/ ~Alive(raw[c]) /\ Goto(c, "restat") /\ UNCHANGED unreadable
     \/ ~Alive(raw[c]) /\ Goto(c, "probe3") /\ UNCHANGED unreadable
  /\ UNCHANGED <<file, callerVars, stolen, crashes>>

\* Who the pid belongs to cannot be told: busy.
Probe3(c) ==
  /\ pc[c] = "probe3"
  /\ \/ Goto(c, "restat") /\ UNCHANGED unreadable
     \/ Alive(raw[c]) /\ Goto(c, "wait") /\ Unread
     \/ ~Alive(raw[c]) /\ Goto(c, "wait") /\ UNCHANGED unreadable
  /\ UNCHANGED <<file, callerVars, stolen, crashes>>

Restat(c) ==
  /\ pc[c] = "restat"
  /\ \/ file = NoFile /\ Goto(c, "open")
     \/ file # NoFile /\ file.ino # ino[c] /\ Goto(c, "wait")
     \/ file # NoFile /\ file.ino = ino[c] /\ Goto(c, "reread")
  /\ UNCHANGED <<file, callerVars, stolen, countVars>>

Reread(c) ==
  /\ pc[c] = "reread"
  /\ \/ file = NoFile /\ Goto(c, "open")
     \/ file # NoFile /\ Content(file) # raw[c] /\ Goto(c, "wait")
     \/ file # NoFile /\ Content(file) = raw[c] /\ Goto(c, "unlink")
  /\ UNCHANGED <<file, callerVars, stolen, countVars>>

\* Whatever the path names by now is removed.
UnlinkStale(c) ==
  /\ pc[c] = "unlink"
  /\ Unlink
  /\ stolen' = (stolen \/ (file # NoFile /\ Alive(file.marker)))
  /\ Goto(c, "open")
  /\ UNCHANGED <<callerVars, countVars>>

Poll(c) ==
  /\ pc[c] = "wait"
  /\ Goto(c, "open")
  /\ UNCHANGED <<file, callerVars, stolen, countVars>>

\* Fault of GiveUp: the deadline is never looked at.
NeverGiveUp(c) == FALSE

GiveUp(c) ==
  /\ pc[c] = "wait"
  /\ Goto(c, "idle")
  /\ UNCHANGED <<file, callerVars, stolen, countVars>>

Crash(c) ==
  /\ pc[c] # "dead"
  /\ crashes < MaxCrashes
  /\ crashes' = crashes + 1
  /\ Goto(c, "dead")
  /\ UNCHANGED <<file, callerVars, stolen, unreadable>>

------------------------------------------------------------------------------
Step(c) ==
  \/ Open(c) \/ Write(c) \/ WriteFails(c) \/ ReadForRelease(c) \/ UnlinkForRelease(c)
  \/ Stat(c) \/ Read(c) \/ Probe1(c) \/ Probe2(c) \/ Probe3(c)
  \/ Restat(c) \/ Reread(c) \/ UnlinkStale(c) \/ Poll(c) \/ GiveUp(c)

Next == \E c \in Callers : Acquire(c) \/ Step(c) \/ Release(c) \/ Crash(c)

Spec == Init /\ [][Next]_vars

\* A live process goes on, and its clock passes the deadline in the end; how
\* long an operation runs under the lock is anybody's guess.
FairSpec == Spec /\ \A c \in Callers : WF_vars(Step(c)) /\ SF_vars(GiveUp(c))

------------------------------------------------------------------------------
(* Properties.                                                             *)

\* Every variable keeps its shape; an owner is looked for only under a marker.
TypeOK ==
  /\ file \in Files \cup {NoFile}
  /\ pc \in [Callers -> PCs]
  /\ calls \in [Callers -> Nat]
  /\ ino \in [Callers -> Inodes]
  /\ raw \in [Callers -> Markers \cup {Nothing}]
  /\ stolen \in BOOLEAN
  /\ crashes \in 0..MaxCrashes
  /\ unreadable \in 0..MaxUnreadable
  /\ \A c \in Callers : pc[c] \in {"probe1", "probe2", "probe3"} \cup Removing => raw[c] # Nothing

Owning(c) == pc[c] \in Creating \cup {"held"} \cup Releasing

\* operation-lock.ts:1,84-88.  Until recovery removes the lock of a live
\* owner, no two processes are between creating the lock and removing it.
ExclusionUnlessStolen ==
  ~stolen => \A c, d \in Callers : Owning(c) /\ Owning(d) => c = d

\* operation-lock.ts:66,69-74.  A lock file is never left behind by a process
\* that lives on: whoever made it is still in that very call, or died.
LockHasUser ==
  file # NoFile =>
    LET c == file.marker[1] IN
      pc[c] = "dead" \/ (file.marker = Marker(c) /\ Owning(c))

\* operation-lock.ts:37-43.  A contender that goes on to remove a lock has
\* found its owner's process gone.
JudgedStaleIsDead ==
  \A c \in Callers : pc[c] \in Removing => ~Alive(raw[c])

\* operation-lock.ts:2-3,21-23.  The lock of a live owner is not removed by
\* anyone else.
LiveOwnerKeepsLock == ~stolen

\* operation-lock.ts:61,75-80.  A call to acquire returns or throws, however
\* long another process holds the lock.
CallReturns ==
  \A c \in Callers : pc[c] = "open" ~> pc[c] \in {"held", "idle", "dead"}
================================================================================
