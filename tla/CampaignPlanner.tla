--------------------------- MODULE CampaignPlanner ---------------------------
(***************************************************************************)
(* The planning of one e-mail campaign: runs of the planner read the       *)
(* audience page by page, decide who is eligible, store each message and   *)
(* offer its job to the queue, while operators pause, resume and cancel    *)
(* the campaign (packages/@zeruxjs/email/src/campaigns.ts).  All of them   *)
(* share one stored document whose every change is a compare-and-swap on   *)
(* its version.                                                            *)
(*                                                                         *)
(* An action is what a run does between two awaits; a load and the swap    *)
(* that follows it are one, as the swap fails when anything came between.  *)
(* What is abstracted: contacts are numbers in the order of the audience;  *)
(* instead of versions, `fresh' tells whether the version a run knows is   *)
(* still the stored one; a token is the name of the run, which is not used *)
(* again while the document holds it; segments and consent decide freely.  *)
(*                                                                         *)
(* The definitions whose comment starts with `Fault' are used by nothing:  *)
(* each is a plausible bug of the definition below it.                     *)
(***************************************************************************)
EXTENDS Naturals, FiniteSets

CONSTANTS
  Contacts,      \* how many contacts the audience has
  BatchSize,     \* contacts in a page
  Planners,      \* runs of the planner that may be under way, or dead with a lease
  NoPlanner,
  MaxCommands,   \* bound: commands of operators
  MaxSlips       \* bound: failed calls, deaths, and leases that end too early

ASSUME AudienceAssumption == Contacts \in Nat /\ BatchSize \in Nat \ {0}
ASSUME PlannersAssumption == NoPlanner \notin Planners
ASSUME SlipsAssumption == MaxCommands \in Nat /\ MaxSlips \in Nat

VARIABLES
  camp,      \* the document: status, cursor, ended, pending, queued, skipped, lease, live
  planner,   \* planner[p]: what p does next, fresh, its target, the targets of its page
  stored,    \* the contacts whose message is stored
  offered,   \* the contacts whose job is in the queue
  told,      \* the last command given (history)
  due,       \* the campaign's time has come
  commands, slips   \* how many there were

campaignVars == <<camp, planner, stored, offered, told, due, commands, slips>>

Resting == [at |-> "idle", fresh |-> FALSE, target |-> 0, page |-> {}]

CampaignInit ==
  /\ camp = [status |-> "draft", cursor |-> 0, ended |-> FALSE, pending |-> {},
             queued |-> 0, skipped |-> 0, lease |-> NoPlanner, live |-> FALSE]
  /\ planner = [p \in Planners |-> Resting]
  /\ stored = {} /\ offered = {}
  /\ told = "create" /\ due = FALSE
  /\ commands = 0 /\ slips = 0

------------------------------------------------------------------------------
Slip == slips < MaxSlips /\ slips' = slips + 1
Smooth == UNCHANGED slips

PageEnd == IF camp.cursor + BatchSize < Contacts THEN camp.cursor + BatchSize ELSE Contacts
PageOf == camp.cursor + 1 .. PageEnd

\* The document becomes c: no other run knows its version any more, and of p
\* it is known what `r' says.
Swap(p, c, r) ==
  /\ camp' = c
  /\ planner' = [q \in Planners |-> IF q = p THEN r ELSE [planner[q] EXCEPT !.fresh = FALSE]]

Moved(p, l) == [planner[p] EXCEPT !.at = l]
Advance(p, l) == planner' = [planner EXCEPT ![p] = Moved(p, l)] /\ UNCHANGED camp
Rest(p) == planner' = [planner EXCEPT ![p] = Resting] /\ UNCHANGED camp

Holds(p) == planner[p].fresh /\ camp.live

\* Fault of Commit: the swap does not compare versions.
CommitUnfenced(p, c, r) ==
  \/ Swap(p, c, r) /\ Smooth
  \/ Slip /\ Advance(p, "fail")

\* commit(): the run fails when it lost the lease or the document changed, when
\* the call fails, and when only its answer is lost.
Commit(p, c, r) ==
  \/ Holds(p) /\ Swap(p, c, r) /\ Smooth
  \/ Holds(p) /\ Swap(p, c, [r EXCEPT !.at = "fail"]) /\ Slip
  \/ ~Holds(p) /\ Advance(p, "fail") /\ Smooth
  \/ Slip /\ Advance(p, "fail")

Unleased(c) == [c EXCEPT !.lease = NoPlanner, !.live = FALSE]

------------------------------------------------------------------------------
(* runOnce.                                                                *)

Runnable == camp.status \in {"scheduled", "running"} /\ due

\* p writes its lease, and begins with the page unless targets are left.
Begin(p) ==
  /\ Swap(p, [camp EXCEPT !.status = "running", !.lease = p, !.live = TRUE],
          [Resting EXCEPT !.fresh = TRUE,
                          !.at = IF camp.pending = {} /\ ~camp.ended THEN "page" ELSE "next"])
  /\ UNCHANGED <<stored, offered, told, due, commands, slips>>

\* Fault of Claim: a lease that expired is not taken over.
ClaimFree(p) ==
  /\ planner[p].at = "idle" /\ camp.lease = NoPlanner /\ Runnable
  /\ Begin(p)

Claim(p) ==
  /\ planner[p].at = "idle" /\ camp.lease # p
  /\ Runnable /\ ~camp.live
  /\ Begin(p)

\* The contacts that are in the segment, subscribed and not suppressed.
ReadPage(p) ==
  /\ planner[p].at = "page"
  /\ UNCHANGED <<camp, stored, offered, told, due, commands>>
  /\ \/ \E s \in SUBSET PageOf :
          planner' = [planner EXCEPT ![p] = [Moved(p, "savePage") EXCEPT !.page = s]]
        /\ Smooth
     \/ Advance(p, "fail") /\ Slip

SavePage(p) ==
  /\ planner[p].at = "savePage"
  /\ Commit(p, [camp EXCEPT !.cursor = PageEnd, !.ended = PageEnd = Contacts,
                            !.pending = planner[p].page,
                            !.skipped = @ + Cardinality(PageOf \ planner[p].page)],
            Moved(p, "next"))
  /\ UNCHANGED <<stored, offered, told, due, commands>>

\* The state is checked again before each target.
Recheck(p) ==
  /\ planner[p].at = "next" /\ camp.pending # {}
  /\ \/ /\ Holds(p) /\ Smooth
        /\ \E t \in camp.pending :
             /\ \A u \in camp.pending : t <= u
             /\ planner' = [planner EXCEPT ![p] = [Moved(p, "ensure") EXCEPT !.target = t]]
        /\ UNCHANGED camp
     \/ ~Holds(p) /\ Advance(p, "fail") /\ Smooth
     \/ Advance(p, "fail") /\ Slip
  /\ UNCHANGED <<stored, offered, told, due, commands>>

Ensure(p) ==
  /\ planner[p].at = "ensure"
  /\ \/ stored' = stored \cup {planner[p].target} /\ Advance(p, "enqueue") /\ Smooth
     \/ stored' \in {stored, stored \cup {planner[p].target}} /\ Advance(p, "fail") /\ Slip
  /\ UNCHANGED <<offered, told, due, commands>>

Enqueue(p) ==
  /\ planner[p].at = "enqueue"
  /\ \/ offered' = offered \cup {planner[p].target} /\ Advance(p, "saveQueued") /\ Smooth
     \/ offered' \in {offered, offered \cup {planner[p].target}} /\ Advance(p, "fail") /\ Slip
  /\ UNCHANGED <<stored, told, due, commands>>

SaveQueued(p) ==
  /\ planner[p].at = "saveQueued"
  /\ Commit(p, [camp EXCEPT !.pending = @ \ {planner[p].target}, !.queued = @ + 1],
            Moved(p, "next"))
  /\ UNCHANGED <<stored, offered, told, due, commands>>

\* The run gives its lease back; after the last page the campaign is complete.
Conclude(p) ==
  /\ planner[p].at = "next" /\ camp.pending = {}
  /\ Commit(p, [Unleased(camp) EXCEPT !.status = IF camp.ended THEN "completed" ELSE @], Resting)
  /\ UNCHANGED <<stored, offered, told, due, commands>>

\* A run that failed gives back a lease that is still its own.
GiveBack(p) ==
  /\ planner[p].at = "fail"
  /\ \/ camp.lease = p /\ Swap(p, Unleased(camp), Resting) /\ Smooth
     \/ camp.lease # p /\ Rest(p) /\ Smooth
     \/ Rest(p) /\ Slip
  /\ UNCHANGED <<stored, offered, told, due, commands>>

Die(p) ==
  /\ planner[p].at # "idle"
  /\ Rest(p) /\ Slip
  /\ UNCHANGED <<stored, offered, told, due, commands>>

RunStep(p) ==
  \/ ReadPage(p) \/ SavePage(p) \/ Recheck(p) \/ Ensure(p) \/ Enqueue(p) \/ SaveQueued(p)
  \/ Conclude(p) \/ GiveBack(p)

------------------------------------------------------------------------------
(* Time, and the operators.                                                *)

\* A lease is not renewed: it may end before its run does.
LeaseEnds ==
  /\ camp.live
  /\ camp' = [camp EXCEPT !.live = FALSE]
  /\ \/ planner[camp.lease].at = "idle" /\ Smooth
     \/ Slip
  /\ UNCHANGED <<planner, stored, offered, told, due, commands>>

TimeComes ==
  /\ ~due
  /\ due' = TRUE
  /\ UNCHANGED <<camp, planner, stored, offered, told, commands, slips>>

\* From which states a command is accepted.
Allowed(a) ==
  CASE a = "schedule" -> {"draft"}
    [] a = "pause" -> {"running", "scheduled"}
    [] a = "resume" -> {"paused"}
    [] a = "cancel" -> {"draft", "scheduled", "running", "paused"}

Reached(a) ==
  CASE a = "schedule" -> "scheduled"
    [] a = "pause" -> "paused"
    [] a = "resume" -> IF due THEN "running" ELSE "scheduled"
    [] a = "cancel" -> "cancelled"

Command(a) ==
  /\ commands < MaxCommands /\ commands' = commands + 1
  /\ camp.status \in Allowed(a)
  /\ camp' = [camp EXCEPT !.status = Reached(a)]
  /\ planner' = [p \in Planners |-> [planner[p] EXCEPT !.fresh = FALSE]]
  /\ told' = a
  /\ UNCHANGED <<stored, offered, due, slips>>

CampaignNext ==
  \/ \E p \in Planners : Claim(p) \/ RunStep(p) \/ Die(p)
  \/ \E a \in {"schedule", "pause", "resume", "cancel"} : Command(a)
  \/ LeaseEnds \/ TimeComes

CampaignSpec == CampaignInit /\ [][CampaignNext]_campaignVars

------------------------------------------------------------------------------
\* The document is true, whichever runs were overtaken, lost an answer or died:
\* every contact up to the cursor is counted once, as skipped, pending or
\* handed over; who is handed over has a message and a job; a completed
\* campaign has reached everybody; and no run overrides a pause or a
\* cancellation (campaigns.ts:124-137, 151-190).
PlanIsTrue ==
  /\ camp.cursor = camp.skipped + camp.queued + Cardinality(camp.pending)
  /\ camp.queued = Cardinality((stored \cup offered) \ camp.pending)
  /\ (stored \cup offered) \ camp.pending \subseteq stored \cap offered
  /\ camp.status = "completed" => camp.cursor = Contacts /\ camp.pending = {}
  /\ told = "pause" => camp.status = "paused"
  /\ told = "cancel" => camp.status = "cancelled"

\* A campaign whose time comes is planned to its end, unless somebody stops it,
\* as long as somebody runs the planner (queue/src/campaigns.ts:11-27).
CampaignEnds ==
  camp.status \in {"scheduled", "running"} ~> camp.status \in {"completed", "paused", "cancelled"}
==============================================================================
