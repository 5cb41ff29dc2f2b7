------------------------ MODULE CampaignPlanner_proofs ------------------------
(***************************************************************************)
(* The stored document of CampaignPlanner is true for any audience, page   *)
(* size, number of runs, commands and slips: the counts of the document    *)
(* agree with the contacts that have a message and a job, and what a run   *)
(* is about to write follows from what it knows while nobody else has      *)
(* written.                                                                *)
(***************************************************************************)
EXTENDS CampaignPlanner, FiniteSetTheorems, TLAPS

Audience == 1..Contacts

Documents ==
  [status : {"draft", "scheduled", "running", "paused", "cancelled", "completed"},
   cursor : 0..Contacts, ended : BOOLEAN, pending : SUBSET Audience,
   queued : Nat, skipped : Nat, lease : Planners \cup {NoPlanner}, live : BOOLEAN]

PlanRuns ==
  [at : {"idle", "page", "savePage", "next", "ensure", "enqueue", "saveQueued", "fail"},
   fresh : BOOLEAN, target : 0..Contacts, page : SUBSET Audience]

PlanTyped ==
  /\ camp \in Documents /\ planner \in [Planners -> PlanRuns]
  /\ stored \subseteq Audience /\ offered \subseteq Audience

Touched == stored \cup offered

\* PlanIsTrue, and nobody beyond the cursor has been touched.
CountInv ==
  /\ camp.cursor = camp.skipped + camp.queued + Cardinality(camp.pending)
  /\ camp.queued = Cardinality(Touched \ camp.pending)
  /\ Touched \ camp.pending \subseteq stored \cap offered
  /\ Touched \subseteq 1..camp.cursor /\ camp.pending \subseteq 1..camp.cursor

StatusInv ==
  /\ camp.ended => camp.cursor = Contacts
  /\ camp.status = "completed" => camp.cursor = Contacts /\ camp.pending = {}
  /\ told = "pause" => camp.status = "paused"
  /\ told = "cancel" => camp.status = "cancelled"

\* What a run that was overtaken may still do is harmless: its target is
\* pending, or has its message and its job.
TargetInv(p) ==
  /\ planner[p].at \in {"ensure", "enqueue", "saveQueued"} =>
       planner[p].target \in camp.pending \cup (stored \cap offered)
  /\ planner[p].at \in {"enqueue", "saveQueued"} => planner[p].target \in stored
  /\ planner[p].at = "saveQueued" => planner[p].target \in offered

\* A run whose version is the stored one.
FreshInv(p) ==
  planner[p].fresh =>
    /\ camp.status = "running"
    /\ planner[p].at \in {"page", "savePage"} => camp.pending = {}
    /\ planner[p].at = "savePage" => planner[p].page \subseteq PageOf
    /\ planner[p].at \in {"ensure", "enqueue", "saveQueued"} => planner[p].target \in camp.pending

PlanInv ==
  /\ PlanTyped /\ CountInv /\ StatusInv
  /\ \A p \in Planners : TargetInv(p) /\ FreshInv(p)

\* Sets of contacts are finite.
LEMMA ContactsFinite ==
  \A S \in SUBSET Audience : IsFiniteSet(S) /\ Cardinality(S) \in Nat
<1>1. IsFiniteSet(1..Contacts)
  <2>1. 1 \in Int /\ Contacts \in Int
    BY AudienceAssumption
  <2> QED BY <2>1, FS_Interval
<1> QED BY <1>1, FS_Subset, FS_CardinalityType DEF Audience

\* What a swap changes: the runs but p no longer know the version.
LEMMA SwapStep ==
  ASSUME PlanTyped, NEW p \in Planners, NEW c \in Documents, NEW r \in PlanRuns, Swap(p, c, r)
  PROVE  /\ camp' = c /\ planner' \in [Planners -> PlanRuns] /\ planner'[p] = r
         /\ \A q \in Planners \ {p} : planner'[q] = [planner[q] EXCEPT !.fresh = FALSE]
BY DEF PlanTyped, PlanRuns, Swap

\* Runs that were overtaken rely on nothing but what stays.
LEMMA OvertakenStep ==
  ASSUME PlanTyped, NEW q \in Planners, TargetInv(q),
         planner'[q] = [planner[q] EXCEPT !.fresh = FALSE],
         camp.pending \cup (stored \cap offered) \subseteq camp'.pending \cup (stored' \cap offered'),
         stored \subseteq stored', offered \subseteq offered'
  PROVE  TargetInv(q)' /\ FreshInv(q)'
<1>1. /\ planner'[q].fresh = FALSE /\ planner'[q].at = planner[q].at
      /\ planner'[q].target = planner[q].target
  BY DEF PlanTyped, PlanRuns
<1> QED BY <1>1 DEF TargetInv, FreshInv

\* So do runs while the document stays.
LEMMA BystanderStep ==
  ASSUME TRUE, NEW q \in Planners, TargetInv(q), FreshInv(q), planner'[q] = planner[q],
         camp' = camp, stored \subseteq stored', offered \subseteq offered'
  PROVE  TargetInv(q)' /\ FreshInv(q)'
BY DEF TargetInv, FreshInv, PageOf, PageEnd

\* A run that moves on leaves the others alone.
LEMMA AdvanceStep ==
  ASSUME PlanTyped, NEW p \in Planners,
         NEW l \in {"page", "savePage", "next", "ensure", "enqueue", "saveQueued", "fail"}, Advance(p, l)
  PROVE  /\ camp' = camp /\ planner' \in [Planners -> PlanRuns]
         /\ planner'[p] = [planner[p] EXCEPT !.at = l]
         /\ \A q \in Planners \ {p} : planner'[q] = planner[q]
BY DEF PlanTyped, PlanRuns, Advance, Moved

\* A run that fails has nothing more to show.
LEMMA FailStep ==
  ASSUME PlanInv, NEW p \in Planners, Advance(p, "fail"), told' = told,
         UNCHANGED <<stored, offered>>
  PROVE  PlanInv'
<1>1. /\ camp' = camp /\ planner' \in [Planners -> PlanRuns]
      /\ planner'[p] = [planner[p] EXCEPT !.at = "fail"]
      /\ \A q \in Planners \ {p} : planner'[q] = planner[q]
  BY AdvanceStep DEF PlanInv
<1>2. planner'[p].at = "fail" /\ planner'[p].fresh = planner[p].fresh
  BY <1>1 DEF PlanInv, PlanTyped, PlanRuns
<1>3. TargetInv(p)' /\ FreshInv(p)'
  BY <1>1, <1>2 DEF PlanInv, TargetInv, FreshInv
<1>4. \A q \in Planners \ {p} : TargetInv(q)' /\ FreshInv(q)'
  BY <1>1, BystanderStep DEF PlanInv
<1> QED BY <1>1, <1>3, <1>4 DEF PlanInv, PlanTyped, CountInv, StatusInv, Touched

\* A run that rests has nothing to show.
LEMMA RestStep ==
  ASSUME PlanInv, NEW p \in Planners, Rest(p), told' = told, UNCHANGED <<stored, offered>>
  PROVE  PlanInv'
<1>1. /\ camp' = camp /\ planner' \in [Planners -> PlanRuns] /\ planner'[p] = Resting
      /\ \A q \in Planners \ {p} : planner'[q] = planner[q]
  BY AudienceAssumption DEF PlanInv, PlanTyped, PlanRuns, Rest, Resting
<1>2. TargetInv(p)' /\ FreshInv(p)'
  BY <1>1 DEF TargetInv, FreshInv, Resting
<1>3. \A q \in Planners \ {p} : TargetInv(q)' /\ FreshInv(q)'
  BY <1>1, BystanderStep DEF PlanInv
<1> QED BY <1>1, <1>2, <1>3 DEF PlanInv, PlanTyped, CountInv, StatusInv, Touched

\* A swap keeps the invariant when it keeps the counts and the status, takes
\* nothing from the pending that has no message and job, and p knows what r says.
LEMMA SwapKeeps ==
  ASSUME PlanInv, NEW p \in Planners, NEW c \in Documents, NEW r \in PlanRuns, Swap(p, c, r),
         UNCHANGED <<stored, offered, told>>, CountInv', StatusInv',
         camp.pending \subseteq c.pending \cup (stored \cap offered),
         r.at \in {"idle", "page", "next", "fail"},
         r.fresh => c.status = "running" /\ (r.at = "page" => c.pending = {})
  PROVE  PlanInv'
<1>1. /\ camp' = c /\ planner' \in [Planners -> PlanRuns] /\ planner'[p] = r
      /\ \A q \in Planners \ {p} : planner'[q] = [planner[q] EXCEPT !.fresh = FALSE]
  BY SwapStep DEF PlanInv
<1>2. TargetInv(p)' /\ FreshInv(p)'
  BY <1>1 DEF TargetInv, FreshInv
<1>3. \A q \in Planners \ {p} : TargetInv(q)' /\ FreshInv(q)'
  BY <1>1, OvertakenStep DEF PlanInv
<1> QED BY <1>1, <1>2, <1>3 DEF PlanInv, PlanTyped

\* A commit is a swap of a run that knows the version, or the run fails.
LEMMA CommitKeeps ==
  ASSUME PlanInv, NEW p \in Planners, NEW c \in Documents, NEW r \in PlanRuns, Commit(p, c, r),
         UNCHANGED <<stored, offered, told>>,
         planner[p].fresh /\ camp' = c => CountInv' /\ StatusInv',
         planner[p].fresh => camp.pending \subseteq c.pending \cup (stored \cap offered),
         planner[p].fresh /\ r.fresh => c.status = "running",
         r.at \in {"idle", "next"}
  PROVE  PlanInv'
<1> DEFINE f == [r EXCEPT !.at = "fail"]
<1>1. f \in PlanRuns /\ f.at = "fail" /\ f.fresh = r.fresh
  BY DEF PlanRuns
<1>2. CASE Holds(p) /\ Swap(p, c, r)
  <2>1. planner[p].fresh /\ camp' = c
    BY <1>2 DEF Holds, Swap
  <2> QED BY <1>2, <2>1, SwapKeeps
<1>3. CASE Holds(p) /\ Swap(p, c, f)
  <2>1. planner[p].fresh /\ camp' = c
    BY <1>3 DEF Holds, Swap
  <2> HIDE DEF f
  <2> QED BY <1>1, <1>3, <2>1, SwapKeeps
<1>4. CASE Advance(p, "fail")
  BY <1>4, FailStep
<1> QED BY <1>2, <1>3, <1>4 DEF Commit

------------------------------------------------------------------------------
(* The steps of a run.                                                     *)

\* The page that follows the cursor.
LEMMA PageTyped ==
  ASSUME PlanTyped
  PROVE  /\ PageEnd \in camp.cursor..Contacts /\ PageOf = camp.cursor + 1 .. PageEnd
         /\ PageOf \subseteq Audience /\ Cardinality(PageOf) = PageEnd - camp.cursor
<1>1. camp.cursor \in 0..Contacts
  BY DEF PlanTyped, Documents
<1>2. PageEnd \in camp.cursor..Contacts
  BY <1>1, AudienceAssumption DEF PageEnd
<1>3. PageOf = camp.cursor + 1 .. PageEnd /\ PageOf \subseteq Audience
  BY <1>1, <1>2, AudienceAssumption DEF PageOf, Audience
<1>4. camp.cursor + 1 \in Int /\ PageEnd \in Int
  BY <1>1, <1>2, AudienceAssumption
<1>5. Cardinality(camp.cursor + 1 .. PageEnd) = IF camp.cursor + 1 > PageEnd THEN 0 ELSE PageEnd - (camp.cursor + 1) + 1
  BY <1>4, FS_Interval
<1>6. Cardinality(PageOf) = PageEnd - camp.cursor
  BY <1>1, <1>2, <1>3, <1>5, AudienceAssumption
<1> QED BY <1>2, <1>3, <1>6

\* A page is counted as pending and skipped.
LEMMA SavePageCounts ==
  ASSUME PlanTyped, CountInv, StatusInv, camp.pending = {}, camp.status = "running",
         NEW s \in SUBSET PageOf, UNCHANGED <<stored, offered, told>>,
         camp' = [camp EXCEPT !.cursor = PageEnd, !.ended = PageEnd = Contacts, !.pending = s,
                              !.skipped = @ + Cardinality(PageOf \ s)]
  PROVE  CountInv' /\ StatusInv' /\ camp' \in Documents
<1>1. camp.cursor \in 0..Contacts /\ camp.queued \in Nat /\ camp.skipped \in Nat
  BY DEF PlanTyped, Documents
<1>2. Cardinality(PageOf) = Cardinality(s) + Cardinality(PageOf \ s)
  <2>1. IsFiniteSet(PageOf)
    BY PageTyped, ContactsFinite
  <2>2. PageOf \cap s = s
    OBVIOUS
  <2>3. Cardinality(PageOf \ s) = Cardinality(PageOf) - Cardinality(s)
    <3>1. Cardinality(PageOf \ s) = Cardinality(PageOf) - Cardinality(PageOf \cap s)
      BY <2>1, FS_Difference
    <3> QED BY <2>2, <3>1, Zenon
  <2>4. Cardinality(PageOf) \in Nat /\ Cardinality(s) \in Nat
    BY PageTyped, ContactsFinite
  <2> QED BY <2>3, <2>4
<1>3. Cardinality(s) \in Nat /\ Cardinality(PageOf \ s) \in Nat /\ s \subseteq Audience
  BY PageTyped, ContactsFinite
<1>4. camp'.cursor = PageEnd /\ camp'.ended = (PageEnd = Contacts) /\ camp'.pending = s
      /\ camp'.skipped = camp.skipped + Cardinality(PageOf \ s) /\ camp'.queued = camp.queued
      /\ camp'.status = "running"
  BY DEF PlanTyped, Documents
<1>5. Touched' \ s = Touched \ camp.pending
  BY PageTyped, <1>1, AudienceAssumption DEF CountInv, Touched, PlanTyped, Audience
<1>6. Cardinality(camp.pending) = 0
  BY FS_EmptySet
<1>7. CountInv'
  <2>1. camp'.cursor = camp'.skipped + camp'.queued + Cardinality(camp'.pending)
    <3>1. camp.cursor = camp.skipped + camp.queued
      BY <1>1, <1>6 DEF CountInv
    <3>2. PageEnd = camp.cursor + Cardinality(s) + Cardinality(PageOf \ s) /\ PageEnd \in Nat
      <4>1. Cardinality(PageOf) = PageEnd - camp.cursor /\ PageEnd \in camp.cursor..Contacts
        BY PageTyped
      <4> QED BY <1>1, <1>2, <1>3, <4>1, AudienceAssumption
    <3> QED BY <1>1, <1>3, <1>4, <3>1, <3>2
  <2>2. camp'.queued = Cardinality((Touched \ camp.pending)')
    BY <1>4, <1>5 DEF CountInv
  <2>3. (Touched \ camp.pending)' \subseteq stored' \cap offered'
    BY <1>4, <1>5 DEF CountInv
  <2>4. Touched' \subseteq 1..camp'.cursor /\ camp'.pending \subseteq 1..camp'.cursor
    <3>1. 1..camp.cursor \subseteq 1..PageEnd /\ PageOf \subseteq 1..PageEnd
      BY <1>1, PageTyped, AudienceAssumption
    <3> QED BY <1>4, <3>1 DEF CountInv, Touched
  <2> QED BY <2>1, <2>2, <2>3, <2>4 DEF CountInv
<1>8. StatusInv'
  BY <1>4 DEF StatusInv
<1>9. camp' \in Documents
  <2>1. PageEnd \in 0..Contacts /\ (PageEnd = Contacts) \in BOOLEAN
        /\ camp.skipped + Cardinality(PageOf \ s) \in Nat
    BY <1>1, <1>3, PageTyped, AudienceAssumption
  <2> QED BY <1>3, <2>1 DEF PlanTyped, Documents
<1> QED BY <1>7, <1>8, <1>9

\* A contact that has its message and its job is counted as queued.
LEMMA SaveQueuedCounts ==
  ASSUME PlanTyped, CountInv, StatusInv, camp.status = "running",
         NEW t \in camp.pending, t \in stored \cap offered, UNCHANGED <<stored, offered, told>>,
         camp' = [camp EXCEPT !.pending = @ \ {t}, !.queued = @ + 1]
  PROVE  CountInv' /\ StatusInv' /\ camp' \in Documents
<1>1. camp.cursor \in Nat /\ camp.queued \in Nat /\ camp.skipped \in Nat /\ camp.pending \subseteq Audience
      /\ Touched \subseteq Audience
  BY AudienceAssumption DEF PlanTyped, Documents, Touched
<1>2. camp'.cursor = camp.cursor /\ camp'.ended = camp.ended /\ camp'.pending = camp.pending \ {t}
      /\ camp'.skipped = camp.skipped /\ camp'.queued = camp.queued + 1 /\ camp'.status = "running"
  BY DEF PlanTyped, Documents
<1>3. Cardinality(camp.pending \ {t}) = Cardinality(camp.pending) - 1
  BY <1>1, ContactsFinite, FS_RemoveElement
<1>4. Touched' \ camp'.pending = (Touched \ camp.pending) \cup {t}
  BY <1>2 DEF Touched
<1>5. Cardinality((Touched \ camp.pending) \cup {t}) = Cardinality(Touched \ camp.pending) + 1
  <2>1. IsFiniteSet(Touched \ camp.pending) /\ t \notin Touched \ camp.pending
    BY <1>1, ContactsFinite
  <2> QED BY <2>1, FS_AddElement
<1>6. CountInv'
  <2>1. Cardinality(camp.pending) \in Nat /\ Cardinality(Touched \ camp.pending) \in Nat
    BY <1>1, ContactsFinite
  <2>2. camp'.cursor = camp'.skipped + camp'.queued + Cardinality(camp'.pending)
    <3>1. camp.cursor = camp.skipped + camp.queued + Cardinality(camp.pending)
      BY DEF CountInv
    <3>2. Cardinality(camp'.pending) = Cardinality(camp.pending) - 1
      BY <1>2, <1>3
    <3>3. camp.cursor = camp.skipped + (camp.queued + 1) + (Cardinality(camp.pending) - 1)
      BY <1>1, <2>1, <3>1
    <3> QED BY <1>2, <3>2, <3>3, Zenon
  <2>3. Touched' = Touched
    BY DEF Touched
  <2> QED BY <1>1, <1>2, <1>4, <1>5, <2>1, <2>2, <2>3 DEF CountInv
<1>7. StatusInv'
  BY <1>2 DEF StatusInv
<1>8. camp' \in Documents
  <2>1. camp.pending \ {t} \in SUBSET Audience /\ camp.queued + 1 \in Nat
    BY <1>1
  <2> QED BY <2>1 DEF PlanTyped, Documents
<1> QED BY <1>6, <1>7, <1>8

\* Counts that are not written agree as before.
LEMMA CountsStay ==
  ASSUME CountInv, UNCHANGED <<stored, offered>>, camp'.cursor = camp.cursor,
         camp'.pending = camp.pending, camp'.queued = camp.queued, camp'.skipped = camp.skipped
  PROVE  CountInv'
BY DEF CountInv, Touched

\* A message or a job of a target that is pending, or has both already,
\* changes no count.
LEMMA TouchKeeps ==
  ASSUME PlanTyped, CountInv, camp' = camp, NEW t \in camp.pending \cup (stored \cap offered),
         stored' \in {stored, stored \cup {t}}, offered' \in {offered, offered \cup {t}}
  PROVE  /\ CountInv' /\ stored' \subseteq Audience /\ offered' \subseteq Audience
         /\ stored \subseteq stored' /\ offered \subseteq offered'
<1>1. stored' \subseteq Audience /\ offered' \subseteq Audience
  BY DEF PlanTyped, Documents
<1>2. Touched' \ camp'.pending = Touched \ camp.pending
  BY DEF Touched
<1>3. Touched' \subseteq 1..camp.cursor
  BY DEF Touched, CountInv
<1> QED BY <1>1, <1>2, <1>3 DEF CountInv

\* A run at rest.
LEMMA RestingTyped == Resting \in PlanRuns /\ Resting.at = "idle" /\ Resting.fresh = FALSE
BY AudienceAssumption DEF Resting, PlanRuns

\* A run begins.
LEMMA ClaimStep ==
  ASSUME PlanInv, NEW p \in Planners, Claim(p)
  PROVE  PlanInv'
<1> DEFINE c == [camp EXCEPT !.status = "running", !.lease = p, !.live = TRUE]
           r == [Resting EXCEPT !.fresh = TRUE,
                                !.at = IF camp.pending = {} /\ ~camp.ended THEN "page" ELSE "next"]
<1>1. Swap(p, c, r) /\ UNCHANGED <<stored, offered, told>> /\ camp.status \in {"scheduled", "running"}
  BY DEF Claim, Begin, Runnable
<1>2. /\ c \in Documents /\ c.status = "running" /\ c.cursor = camp.cursor /\ c.pending = camp.pending
      /\ c.queued = camp.queued /\ c.skipped = camp.skipped /\ c.ended = camp.ended
  BY DEF PlanInv, PlanTyped, Documents
<1>3. /\ r \in PlanRuns /\ r.at \in {"page", "next"}
      /\ r.at = "page" => c.pending = {}
  <2>1. CASE camp.pending = {} /\ ~camp.ended
    <3>1. r = [Resting EXCEPT !.fresh = TRUE, !.at = "page"]
      BY <2>1
    <3> QED BY <1>2, <2>1, <3>1, RestingTyped DEF PlanRuns
  <2>2. CASE ~(camp.pending = {} /\ ~camp.ended)
    <3>1. r = [Resting EXCEPT !.fresh = TRUE, !.at = "next"]
      BY <2>2
    <3> QED BY <3>1, RestingTyped DEF PlanRuns
  <2> QED BY <2>1, <2>2
<1>4. camp' = c
  BY <1>1 DEF Swap
<1> HIDE DEF c, r
<1>5. CountInv'
  BY <1>1, <1>2, <1>4, CountsStay DEF PlanInv
<1>6. StatusInv'
  BY <1>1, <1>2, <1>4 DEF PlanInv, StatusInv
<1> QED BY <1>1, <1>2, <1>3, <1>5, <1>6, SwapKeeps

\* A run reads its page.
LEMMA ReadPageStep ==
  ASSUME PlanInv, NEW p \in Planners, ReadPage(p)
  PROVE  PlanInv'
<1>1. CASE Advance(p, "fail")
  BY <1>1, FailStep DEF ReadPage
<1>2. CASE \E s \in SUBSET PageOf :
             planner' = [planner EXCEPT ![p] = [Moved(p, "savePage") EXCEPT !.page = s]]
  <2>1. PICK s \in SUBSET PageOf :
          planner' = [planner EXCEPT ![p] = [Moved(p, "savePage") EXCEPT !.page = s]]
    BY <1>2
  <2>2. s \in SUBSET Audience
    BY PageTyped DEF PlanInv
  <2>3. UNCHANGED <<camp, stored, offered, told>> /\ planner[p].at = "page"
    BY DEF ReadPage
  <2>4. /\ planner' \in [Planners -> PlanRuns]
        /\ planner'[p].at = "savePage" /\ planner'[p].page = s /\ planner'[p].fresh = planner[p].fresh
        /\ \A q \in Planners \ {p} : planner'[q] = planner[q]
    BY <2>1, <2>2 DEF PlanInv, PlanTyped, PlanRuns, Moved
  <2>5. PageOf' = PageOf
    BY <2>3 DEF PageOf, PageEnd
  <2>6. TargetInv(p)' /\ FreshInv(p)'
    BY <2>3, <2>4, <2>5 DEF PlanInv, TargetInv, FreshInv
  <2>7. \A q \in Planners \ {p} : TargetInv(q)' /\ FreshInv(q)'
    BY <2>3, <2>4, BystanderStep DEF PlanInv
  <2>8. CountInv' /\ StatusInv'
    BY <2>3 DEF PlanInv, CountInv, StatusInv, Touched
  <2> QED BY <2>3, <2>4, <2>6, <2>7, <2>8 DEF PlanInv, PlanTyped
<1> QED BY <1>1, <1>2 DEF ReadPage

\* A run saves its page.
LEMMA SavePageStep ==
  ASSUME PlanInv, NEW p \in Planners, SavePage(p)
  PROVE  PlanInv'
<1> DEFINE c == [camp EXCEPT !.cursor = PageEnd, !.ended = PageEnd = Contacts,
                             !.pending = planner[p].page,
                             !.skipped = @ + Cardinality(PageOf \ planner[p].page)]
           r == Moved(p, "next")
<1>1. Commit(p, c, r) /\ UNCHANGED <<stored, offered, told>> /\ planner[p].at = "savePage"
  BY DEF SavePage
<1>2. r \in PlanRuns /\ r.at = "next" /\ r.fresh = planner[p].fresh
  BY DEF Moved, PlanInv, PlanTyped, PlanRuns
<1>3. c \in Documents /\ c.status = camp.status
  <2>1. planner[p].page \in SUBSET Audience
    BY DEF PlanInv, PlanTyped, PlanRuns
  <2>2. Cardinality(PageOf \ planner[p].page) \in Nat
    BY PageTyped, ContactsFinite DEF PlanInv
  <2>3. PageEnd \in 0..Contacts /\ camp.skipped + Cardinality(PageOf \ planner[p].page) \in Nat
    BY <2>2, PageTyped, AudienceAssumption DEF PlanInv, PlanTyped, Documents
  <2> QED BY <2>1, <2>3 DEF PlanInv, PlanTyped, Documents
<1>4. planner[p].fresh => camp.status = "running" /\ camp.pending = {} /\ planner[p].page \in SUBSET PageOf
  BY <1>1 DEF PlanInv, FreshInv
<1>5. planner[p].fresh /\ camp' = c => CountInv' /\ StatusInv'
  BY <1>1, <1>4, SavePageCounts DEF PlanInv
<1> HIDE DEF c, r
<1> QED BY <1>1, <1>2, <1>3, <1>4, <1>5, CommitKeeps

\* A run checks the state and chooses its target.
LEMMA RecheckStep ==
  ASSUME PlanInv, NEW p \in Planners, Recheck(p)
  PROVE  PlanInv'
<1>1. CASE Advance(p, "fail")
  BY <1>1, FailStep DEF Recheck
<1>2. CASE /\ Holds(p) /\ UNCHANGED camp
           /\ \E t \in camp.pending :
                planner' = [planner EXCEPT ![p] = [Moved(p, "ensure") EXCEPT !.target = t]]
  <2>1. PICK t \in camp.pending :
          planner' = [planner EXCEPT ![p] = [Moved(p, "ensure") EXCEPT !.target = t]]
    BY <1>2
  <2>2. t \in 0..Contacts
    BY AudienceAssumption DEF PlanInv, PlanTyped, Documents, Audience
  <2>3. UNCHANGED <<camp, stored, offered, told>> /\ planner[p].fresh
    BY <1>2 DEF Recheck, Holds
  <2>4. /\ planner' \in [Planners -> PlanRuns]
        /\ planner'[p].at = "ensure" /\ planner'[p].target = t /\ planner'[p].fresh = planner[p].fresh
        /\ \A q \in Planners \ {p} : planner'[q] = planner[q]
    BY <2>1, <2>2 DEF PlanInv, PlanTyped, PlanRuns, Moved
  <2>5. TargetInv(p)' /\ FreshInv(p)'
    BY <2>3, <2>4 DEF PlanInv, TargetInv, FreshInv
  <2>6. \A q \in Planners \ {p} : TargetInv(q)' /\ FreshInv(q)'
    BY <2>3, <2>4, BystanderStep DEF PlanInv
  <2>7. CountInv' /\ StatusInv'
    BY <2>3 DEF PlanInv, CountInv, StatusInv, Touched
  <2> QED BY <2>3, <2>4, <2>5, <2>6, <2>7 DEF PlanInv, PlanTyped
<1> QED BY <1>1, <1>2 DEF Recheck

\* A run stores the message of its target, or offers its job, and moves on.
LEMMA TouchStep ==
  ASSUME PlanInv, NEW p \in Planners,
         NEW l \in {"enqueue", "saveQueued", "fail"}, Advance(p, l),
         planner[p].at \in {"ensure", "enqueue"},
         stored' \in {stored, stored \cup {planner[p].target}},
         offered' \in {offered, offered \cup {planner[p].target}},
         l \in {"enqueue", "saveQueued"} => planner[p].target \in stored',
         l = "saveQueued" => planner[p].target \in offered', told' = told
  PROVE  PlanInv'
<1>1. /\ camp' = camp /\ planner' \in [Planners -> PlanRuns]
      /\ planner'[p] = [planner[p] EXCEPT !.at = l]
      /\ \A q \in Planners \ {p} : planner'[q] = planner[q]
  BY AdvanceStep DEF PlanInv
<1>2. planner'[p].at = l /\ planner'[p].target = planner[p].target /\ planner'[p].fresh = planner[p].fresh
  BY <1>1 DEF PlanInv, PlanTyped, PlanRuns
<1>3. planner[p].target \in camp.pending \cup (stored \cap offered)
  BY DEF PlanInv, TargetInv
<1>4. /\ CountInv' /\ stored' \subseteq Audience /\ offered' \subseteq Audience
      /\ stored \subseteq stored' /\ offered \subseteq offered'
  BY <1>1, <1>3, TouchKeeps DEF PlanInv
<1>5. TargetInv(p)' /\ FreshInv(p)'
  <2>1. TargetInv(p)'
    BY <1>1, <1>2, <1>3, <1>4 DEF TargetInv
  <2>2. FreshInv(p)'
    BY <1>1, <1>2 DEF PlanInv, FreshInv
  <2> QED BY <2>1, <2>2
<1>6. \A q \in Planners \ {p} : TargetInv(q)' /\ FreshInv(q)'
  BY <1>1, <1>4, BystanderStep DEF PlanInv
<1>7. StatusInv'
  BY <1>1 DEF PlanInv, StatusInv
<1> QED BY <1>1, <1>4, <1>5, <1>6, <1>7 DEF PlanInv, PlanTyped

LEMMA EnsureStep ==
  ASSUME PlanInv, NEW p \in Planners, Ensure(p)
  PROVE  PlanInv'
BY TouchStep DEF Ensure

LEMMA EnqueueStep ==
  ASSUME PlanInv, NEW p \in Planners, Enqueue(p)
  PROVE  PlanInv'
<1>1. planner[p].target \in stored
  BY DEF Enqueue, PlanInv, TargetInv
<1> QED BY <1>1, TouchStep DEF Enqueue

\* A run hands its target over.
LEMMA SaveQueuedStep ==
  ASSUME PlanInv, NEW p \in Planners, SaveQueued(p)
  PROVE  PlanInv'
<1> DEFINE t == planner[p].target
           c == [camp EXCEPT !.pending = @ \ {t}, !.queued = @ + 1]
           r == Moved(p, "next")
<1>1. Commit(p, c, r) /\ UNCHANGED <<stored, offered, told>> /\ planner[p].at = "saveQueued"
  BY DEF SaveQueued
<1>2. r \in PlanRuns /\ r.at = "next" /\ r.fresh = planner[p].fresh
  BY DEF Moved, PlanInv, PlanTyped, PlanRuns
<1>3. c \in Documents /\ c.status = camp.status /\ c.pending = camp.pending \ {t}
  <2>1. camp.pending \ {t} \in SUBSET Audience /\ camp.queued + 1 \in Nat
    BY DEF PlanInv, PlanTyped, Documents
  <2> QED BY <2>1 DEF PlanInv, PlanTyped, Documents
<1>4. t \in stored \cap offered /\ (planner[p].fresh => camp.status = "running" /\ t \in camp.pending)
  BY <1>1 DEF PlanInv, TargetInv, FreshInv
<1>5. planner[p].fresh /\ camp' = c => CountInv' /\ StatusInv'
  BY <1>1, <1>4, SaveQueuedCounts DEF PlanInv
<1>6. camp.pending \subseteq c.pending \cup (stored \cap offered)
  BY <1>3, <1>4
<1> HIDE DEF c, r, t
<1> QED BY <1>1, <1>2, <1>3, <1>4, <1>5, <1>6, CommitKeeps

\* What giving the lease back leaves alone.
LEMMA UnleasedTyped ==
  ASSUME PlanTyped
  PROVE  /\ Unleased(camp) \in Documents /\ Unleased(camp).status = camp.status
         /\ Unleased(camp).cursor = camp.cursor /\ Unleased(camp).ended = camp.ended
         /\ Unleased(camp).pending = camp.pending /\ Unleased(camp).queued = camp.queued
         /\ Unleased(camp).skipped = camp.skipped
BY DEF PlanTyped, Documents, Unleased

\* A run that is through gives its lease back.
LEMMA ConcludeStep ==
  ASSUME PlanInv, NEW p \in Planners, Conclude(p)
  PROVE  PlanInv'
<1> DEFINE u == Unleased(camp)
           c == [u EXCEPT !.status = IF camp.ended THEN "completed" ELSE @]
<1>1. Commit(p, c, Resting) /\ UNCHANGED <<stored, offered, told>> /\ camp.pending = {}
  BY DEF Conclude
<1>2. /\ u \in Documents /\ u.status = camp.status /\ u.cursor = camp.cursor
      /\ u.ended = camp.ended /\ u.pending = camp.pending /\ u.queued = camp.queued
      /\ u.skipped = camp.skipped
  BY UnleasedTyped DEF PlanInv
<1> HIDE DEF u
<1>3. /\ c \in Documents /\ c.cursor = camp.cursor /\ c.ended = camp.ended /\ c.pending = camp.pending
      /\ c.queued = camp.queued /\ c.skipped = camp.skipped
      /\ c.status = IF camp.ended THEN "completed" ELSE camp.status
  BY <1>2 DEF Documents
<1> HIDE DEF c
<1>4. planner[p].fresh => camp.status = "running"
  BY DEF PlanInv, FreshInv
<1>5. ASSUME planner[p].fresh, camp' = c
      PROVE  CountInv' /\ StatusInv'
  <2>1. CountInv'
    BY <1>1, <1>3, <1>5, CountsStay DEF PlanInv
  <2>2. StatusInv'
    BY <1>1, <1>3, <1>4, <1>5 DEF PlanInv, StatusInv
  <2> QED BY <2>1, <2>2
<1> QED BY <1>1, <1>3, <1>5, RestingTyped, CommitKeeps

\* A run that failed gives its lease back.
LEMMA GiveBackStep ==
  ASSUME PlanInv, NEW p \in Planners, GiveBack(p)
  PROVE  PlanInv'
<1>1. CASE Swap(p, Unleased(camp), Resting)
  <2>1. camp' = Unleased(camp)
    BY <1>1 DEF Swap
  <2>2. UNCHANGED <<stored, offered, told>>
    BY DEF GiveBack
  <2>3. CountInv'
    BY <2>1, <2>2, UnleasedTyped, CountsStay DEF PlanInv
  <2>4. StatusInv'
    BY <2>1, <2>2, UnleasedTyped DEF PlanInv, StatusInv
  <2> QED BY <1>1, <2>2, <2>3, <2>4, UnleasedTyped, RestingTyped, SwapKeeps DEF PlanInv
<1>2. CASE Rest(p)
  BY <1>2, RestStep DEF GiveBack
<1> QED BY <1>1, <1>2 DEF GiveBack

\* A lease ends.
LEMMA LeaseEndsStep ==
  ASSUME PlanInv, LeaseEnds
  PROVE  PlanInv'
<1>1. camp' = [camp EXCEPT !.live = FALSE] /\ UNCHANGED <<planner, stored, offered, told>>
  BY DEF LeaseEnds
<1>2. /\ camp' \in Documents /\ camp'.status = camp.status /\ camp'.cursor = camp.cursor
      /\ camp'.ended = camp.ended /\ camp'.pending = camp.pending /\ camp'.queued = camp.queued
      /\ camp'.skipped = camp.skipped
  BY <1>1 DEF PlanInv, PlanTyped, Documents
<1>3. CountInv'
  BY <1>1, <1>2, CountsStay DEF PlanInv
<1>4. StatusInv'
  BY <1>1, <1>2 DEF PlanInv, StatusInv
<1>5. PageOf' = PageOf
  BY <1>2 DEF PageOf, PageEnd
<1>6. \A q \in Planners : TargetInv(q)' /\ FreshInv(q)'
  BY <1>1, <1>2, <1>5 DEF PlanInv, TargetInv, FreshInv
<1> QED BY <1>1, <1>2, <1>3, <1>4, <1>6 DEF PlanInv, PlanTyped

\* An operator gives a command.
LEMMA CommandStep ==
  ASSUME PlanInv, NEW a \in {"schedule", "pause", "resume", "cancel"}, Command(a)
  PROVE  PlanInv'
<1>1. /\ camp' = [camp EXCEPT !.status = Reached(a)] /\ told' = a /\ UNCHANGED <<stored, offered>>
      /\ planner' = [p \in Planners |-> [planner[p] EXCEPT !.fresh = FALSE]]
  BY DEF Command
<1>2. /\ Reached(a) \in {"scheduled", "running", "paused", "cancelled"}
      /\ a = "pause" => Reached(a) = "paused"
      /\ a = "cancel" => Reached(a) = "cancelled"
  BY DEF Reached
<1>3. /\ camp' \in Documents /\ camp'.status = Reached(a) /\ camp'.cursor = camp.cursor
      /\ camp'.ended = camp.ended /\ camp'.pending = camp.pending /\ camp'.queued = camp.queued
      /\ camp'.skipped = camp.skipped
  BY <1>1, <1>2 DEF PlanInv, PlanTyped, Documents
<1>4. CountInv'
  BY <1>1, <1>3, CountsStay DEF PlanInv
<1>5. StatusInv'
  BY <1>1, <1>2, <1>3 DEF PlanInv, StatusInv
<1>6. planner' \in [Planners -> PlanRuns]
  BY <1>1 DEF PlanInv, PlanTyped, PlanRuns
<1>7. \A q \in Planners : TargetInv(q)' /\ FreshInv(q)'
  BY <1>1, <1>3, OvertakenStep DEF PlanInv
<1> QED BY <1>1, <1>3, <1>4, <1>5, <1>6, <1>7 DEF PlanInv, PlanTyped

\* A step of a run.
LEMMA RunStepKeeps ==
  ASSUME PlanInv, NEW p \in Planners, Claim(p) \/ RunStep(p) \/ Die(p)
  PROVE  PlanInv'
<1>1. CASE Die(p)
  BY <1>1, RestStep DEF Die
<1> QED
  BY <1>1, ClaimStep, ReadPageStep, SavePageStep, RecheckStep, EnsureStep, EnqueueStep,
     SaveQueuedStep, ConcludeStep, GiveBackStep DEF RunStep

\* The campaign begins with nobody planned.
LEMMA PlanBegins == CampaignInit => PlanInv
<1> SUFFICES ASSUME CampaignInit PROVE PlanInv
  OBVIOUS
<1>1. PlanTyped
  BY AudienceAssumption DEF CampaignInit, PlanTyped, Documents, PlanRuns, Resting
<1>2. Touched \ camp.pending = {} /\ camp.pending = {} /\ Touched = {}
  BY DEF CampaignInit, Touched
<1>3. Cardinality(camp.pending) = 0 /\ Cardinality(Touched \ camp.pending) = 0
  BY <1>2, FS_EmptySet
<1>4. CountInv
  BY <1>2, <1>3 DEF CampaignInit, CountInv
<1>5. StatusInv
  BY DEF CampaignInit, StatusInv
<1>6. \A p \in Planners : TargetInv(p) /\ FreshInv(p)
  BY DEF CampaignInit, TargetInv, FreshInv, Resting
<1> QED BY <1>1, <1>4, <1>5, <1>6 DEF PlanInv

\* Every step of the campaign keeps the invariant (campaigns.ts:124-190).
THEOREM PlanInvariance == CampaignSpec => []PlanInv
<1>1. PlanInv /\ [CampaignNext]_campaignVars => PlanInv'
  <2> SUFFICES ASSUME PlanInv, [CampaignNext]_campaignVars PROVE PlanInv'
    OBVIOUS
  <2>1. CASE \E p \in Planners : Claim(p) \/ RunStep(p) \/ Die(p)
    BY <2>1, RunStepKeeps
  <2>2. CASE \E a \in {"schedule", "pause", "resume", "cancel"} : Command(a)
    BY <2>2, CommandStep
  <2>3. CASE LeaseEnds
    BY <2>3, LeaseEndsStep
  <2>4. CASE UNCHANGED <<camp, planner, stored, offered, told>>
    BY <2>4 DEF PlanInv, PlanTyped, CountInv, StatusInv, Touched, TargetInv, FreshInv, PageOf, PageEnd
  <2> QED BY <2>1, <2>2, <2>3, <2>4 DEF CampaignNext, TimeComes, campaignVars
<1> QED BY <1>1, PlanBegins, PTL DEF CampaignSpec

\* The document is true in every state, for every audience and any number of
\* runs (campaigns.ts:124-137, 151-190).
THEOREM PlanStaysTrue == CampaignSpec => []PlanIsTrue
<1>1. PlanInv => PlanIsTrue
  BY DEF PlanInv, CountInv, StatusInv, Touched, PlanIsTrue
<1> QED BY <1>1, PlanInvariance, PTL
===============================================================================
