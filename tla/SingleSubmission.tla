--------------------------- MODULE SingleSubmission ---------------------------
(***************************************************************************)
(* What @zeruxjs/queue promises about an e-mail, with workers, leases,     *)
(* retries and crashes out of sight (packages/@zeruxjs/queue/README.md,    *)
(* "conservative durable email dispatch").  A message is queued until it   *)
(* is suppressed or one attempt begins; an attempt transmits at most once, *)
(* and its outcome is final unless it is uncertain and someone decides.    *)
(***************************************************************************)
EXTENDS Naturals

CONSTANT Messages

VARIABLES
  fate,    \* fate[m]: "queued", "sending" or an outcome
  begun,   \* the messages an attempt was begun for
  sends    \* sends[m]: SMTP submissions

vars == <<fate, begun, sends>>

Init ==
  /\ fate = [m \in Messages |-> "queued"]
  /\ begun = {}
  /\ sends = [m \in Messages |-> 0]

Suppress(m) ==
  /\ fate[m] = "queued"
  /\ fate' = [fate EXCEPT ![m] = "suppressed"]
  /\ UNCHANGED <<begun, sends>>

Begin(m) ==
  /\ fate[m] = "queued"
  /\ fate' = [fate EXCEPT ![m] = "sending"]
  /\ begun' = begun \cup {m}
  /\ UNCHANGED sends

\* The sender may be slower than the recovery of its own attempt.
Transmit(m) ==
  /\ m \in begun
  /\ sends[m] = 0
  /\ sends' = [sends EXCEPT ![m] = 1]
  /\ UNCHANGED <<fate, begun>>

Conclude(m) ==
  /\ fate[m] = "sending"
  /\ \/ sends[m] = 1 /\ \E outcome \in {"sent", "rejected"} : fate' = [fate EXCEPT ![m] = outcome]
     \/ fate' = [fate EXCEPT ![m] = "uncertain"]
  /\ UNCHANGED <<begun, sends>>

Resolve(m) ==
  /\ fate[m] = "uncertain"
  /\ \E decision \in {"sent", "suppressed", "rejected"} :
       fate' = [fate EXCEPT ![m] = decision]
  /\ UNCHANGED <<begun, sends>>

Next ==
  \E m \in Messages : Suppress(m) \/ Begin(m) \/ Transmit(m) \/ Conclude(m) \/ Resolve(m)

Spec == Init /\ [][Next]_vars
===============================================================================
