------------------------- MODULE Application_proofs -------------------------
(***************************************************************************)
(* Safety of HotRuntime, ReconciliationJob, QueryCache and ThreadPool for  *)
(* any number of requests, reloads, runs, pages, keys, loads, tasks and    *)
(* threads.                                                                *)
(***************************************************************************)
EXTENDS HotRuntime, ReconciliationJob, QueryCache, ThreadPool, FiniteSetTheorems, TLAPS

------------------------------------------------------------------------------
(* QueryCache: the pending load of a key is the one load of it that no      *)
(* invalidation has outdated, and a stored load has settled.                *)

CacheTyped ==
  /\ entry \in [Keys -> Loads \cup {NoLoad, Given}]
  /\ pending \in [Keys -> Loads \cup {NoLoad}]
  /\ loading \in [Loads -> Keys \cup {Nothing}]
  /\ outdated \subseteq Loads /\ begun \subseteq Loads

SharedInv ==
  /\ \A k \in Keys : pending[k] # NoLoad => loading[pending[k]] = k /\ pending[k] \notin outdated
  /\ \A l \in Running \ outdated : pending[loading[l]] = l

StoredInv ==
  /\ Running \subseteq begun /\ outdated \subseteq begun
  /\ \A k \in Keys : entry[k] \in Loads => entry[k] \in (begun \ Running) \ outdated

CacheInv == CacheTyped /\ SharedInv /\ StoredInv

\* A load that settles leaves the others, and the loads shared with them, alone.
LEMMA SettledStep ==
  ASSUME CacheInv, NEW l \in Running, Settled(l), Leave(l), UNCHANGED <<outdated, begun>>,
         entry' \in [Keys -> Loads \cup {NoLoad, Given}]
  PROVE  CacheTyped' /\ SharedInv' /\ Running' = Running \ {l}
<1> USE LoadsAssumption, KeysAssumption DEF CacheInv, CacheTyped, Nothing
<1>1. l \in Loads /\ loading[l] \in Keys
  BY DEF Running
<1>2. loading' \in [Loads -> Keys \cup {Nothing}] /\ pending' \in [Keys -> Loads \cup {NoLoad}]
  BY <1>1 DEF Settled, Leave
<1>3. Running' = Running \ {l}
  BY <1>1 DEF Settled, Running
<1>4. SharedInv'
  <2>1. ASSUME NEW k \in Keys, pending'[k] # NoLoad
        PROVE  loading'[pending'[k]] = k /\ pending'[k] \notin outdated'
    <3>1. pending'[k] = pending[k] /\ pending[k] # l /\ pending[k] \in Loads
      BY <1>1, <2>1 DEF Leave, SharedInv
    <3> QED BY <3>1 DEF Settled, SharedInv
  <2>2. ASSUME NEW m \in Running' \ outdated'
        PROVE  pending'[loading'[m]] = m
    <3>1. m \in Running \ outdated /\ m # l /\ m \in Loads
      BY <1>3 DEF Running
    <3>2. loading'[m] = loading[m] /\ loading[m] \in Keys
      BY <3>1 DEF Settled, Running
    <3>3. pending[loading[m]] = m
      BY <3>1 DEF SharedInv
    <3> QED BY <3>1, <3>2, <3>3, <1>1 DEF Leave
  <2> QED BY <2>1, <2>2 DEF SharedInv
<1> QED BY <1>2, <1>3, <1>4

\* The inductive step of QueryCache, by action.
LEMMA CacheStep == CacheInv /\ [CacheNext]_cacheVars => CacheInv'
<1> SUFFICES ASSUME CacheInv, [CacheNext]_cacheVars PROVE CacheInv'
  OBVIOUS
<1> USE LoadsAssumption, KeysAssumption DEF CacheInv, CacheTyped, Nothing
<1>1. ASSUME NEW k \in Keys, NEW l \in Loads, Query(k, l) PROVE CacheInv'
  <2>1. l \notin Running /\ l \notin outdated /\ Running' = Running \cup {l}
    BY <1>1 DEF Query, StoredInv, Running
  <2>2. CacheTyped'
    BY <1>1 DEF Query
  <2>3. SharedInv'
    <3>1. ASSUME NEW j \in Keys, pending'[j] # NoLoad
          PROVE  loading'[pending'[j]] = j /\ pending'[j] \notin outdated'
      <4>1. CASE j = k
        BY <4>1, <2>1, <1>1 DEF Query
      <4>2. CASE j # k
        <5>1. pending'[j] = pending[j] /\ pending[j] \in Loads /\ loading[pending[j]] = j
          BY <4>2, <3>1, <1>1 DEF Query, SharedInv
        <5>2. pending[j] # l
          BY <5>1, <2>1 DEF Running
        <5> QED BY <5>1, <5>2, <1>1, <3>1 DEF Query, SharedInv
      <4> QED BY <4>1, <4>2
    <3>2. ASSUME NEW m \in Running' \ outdated' PROVE pending'[loading'[m]] = m
      <4>1. CASE m = l
        BY <4>1, <1>1 DEF Query
      <4>2. CASE m # l
        <5>1. m \in Running \ outdated /\ m \in Loads /\ pending[loading[m]] = m
          BY <4>2, <2>1, <1>1 DEF Query, SharedInv, Running
        <5>2. loading'[m] = loading[m] /\ loading[m] \in Keys /\ loading[m] # k
          BY <5>1, <4>2, <1>1 DEF Query, Running
        <5> QED BY <5>1, <5>2, <1>1 DEF Query
      <4> QED BY <4>1, <4>2
    <3> QED BY <3>1, <3>2 DEF SharedInv
  <2>4. StoredInv'
    BY <1>1, <2>1 DEF Query, StoredInv
  <2> QED BY <2>2, <2>3, <2>4
<1>2. ASSUME NEW k \in Keys, Set(k) PROVE CacheInv'
  BY <1>2 DEF Set, SharedInv, StoredInv, Running
<1>3. ASSUME NEW k \in Keys, Drop(k) PROVE CacheInv'
  BY <1>3 DEF Drop, SharedInv, StoredInv, Running
<1>4. ASSUME NEW S, Invalidate(S) PROVE CacheInv'
  <2>1. Running' = Running /\ CacheTyped'
    BY <1>4 DEF Invalidate, Running
  <2>2. SharedInv'
    <3>1. ASSUME NEW j \in Keys, pending'[j] # NoLoad
          PROVE  loading'[pending'[j]] = j /\ pending'[j] \notin outdated'
      BY <3>1, <1>4 DEF Invalidate, SharedInv
    <3>2. ASSUME NEW m \in Running' \ outdated' PROVE pending'[loading'[m]] = m
      <4>1. m \in Running \ outdated /\ loading[m] \notin S /\ loading[m] \in Keys
        BY <2>1, <1>4, <3>2 DEF Invalidate, Running
      <4> QED BY <4>1, <1>4 DEF Invalidate, SharedInv
    <3> QED BY <3>1, <3>2 DEF SharedInv
  <2>3. StoredInv'
    BY <2>1, <1>4 DEF Invalidate, StoredInv, Running
  <2> QED BY <2>1, <2>2, <2>3
<1>5. ASSUME NEW l \in Loads, Abort(l) PROVE CacheInv'
  BY <1>5 DEF Abort, SharedInv, StoredInv, Running
<1>6. ASSUME NEW l \in Loads, Store(l) PROVE CacheInv'
  <2>1. l \in Running /\ entry' \in [Keys -> Loads \cup {NoLoad, Given}]
    BY <1>6 DEF Store, Running
  <2>2. CacheTyped' /\ SharedInv' /\ Running' = Running \ {l}
    BY <1>6, <2>1, SettledStep DEF Store
  <2>3. StoredInv'
    <3>1. ASSUME NEW j \in Keys, entry'[j] \in Loads
          PROVE  entry'[j] \in (begun \ Running') \ outdated
      <4>1. CASE entry'[j] = entry[j]
        BY <4>1, <3>1, <2>2 DEF StoredInv
      <4>2. CASE entry'[j] # entry[j]
        BY <4>2, <2>1, <2>2, <1>6 DEF Store, StoredInv, SharedInv
      <4> QED BY <4>1, <4>2
    <3> QED BY <3>1, <2>2, <1>6 DEF Store, StoredInv
  <2> QED BY <2>2, <2>3
<1>7. ASSUME NEW l \in Loads, LoadFails(l) PROVE CacheInv'
  <2>1. l \in Running
    BY <1>7 DEF LoadFails
  <2>2. CacheTyped' /\ SharedInv' /\ Running' = Running \ {l}
    BY <1>7, <2>1, SettledStep DEF LoadFails
  <2> QED BY <2>2, <1>7 DEF LoadFails, StoredInv
<1>8. CASE InvalidateTag
  BY <1>8 DEF InvalidateTag, SharedInv, StoredInv, Running
<1>9. CASE UNCHANGED cacheVars
  BY <1>9 DEF cacheVars, SharedInv, StoredInv, Running
<1> QED BY <1>1, <1>2, <1>3, <1>4, <1>5, <1>6, <1>7, <1>8, <1>9 DEF CacheNext

\* The cache's invariant holds in every behaviour (cache.ts:15-57).
THEOREM CacheInvariance == CacheSpec => []CacheInv
<1>1. CacheInit => CacheInv
  BY LoadsAssumption DEF CacheInit, CacheInv, CacheTyped, SharedInv, StoredInv, Running, Nothing
<1> QED BY <1>1, CacheStep, PTL DEF CacheSpec

\* A value loaded before an invalidation of its key is not stored after it,
\* for any keys and loads (cache.ts:35-41).
THEOREM InvalidatedStaysAway == CacheSpec => []InvalidatedStaysOut
<1>1. CacheInv => InvalidatedStaysOut
  BY LoadsAssumption DEF CacheInv, CacheTyped, SharedInv, StoredInv, InvalidatedStaysOut
<1> QED BY <1>1, CacheInvariance, PTL

------------------------------------------------------------------------------
(* ReconciliationJob: a run that still belongs has read the cursor and the  *)
(* pass the document has, since nothing but its own checkpoint moves them.  *)

Documents ==
  [status : {"pending", "running", "failed", "completed"}, cursor : 0..(Pages - 1),
   counted : Nat, pass : Nat, epoch : Nat, lease : {"none", "live", "expired"}]

RunStates ==
  [at : {"idle", "read", "reconcile", "checkpoint", "fail"},
   token : Nat, cursor : Nat, pass : Nat]

JobTyped == doc \in Documents /\ run \in [Runs -> RunStates]

\* What keeps the fields and their types is a document.
LEMMA DocumentTyped ==
  ASSUME doc \in Documents, DOMAIN doc' = DOMAIN doc, doc' = [f \in DOMAIN doc' |-> doc'[f]],
         doc'.status \in {"pending", "running", "failed", "completed"},
         doc'.cursor \in 0..(Pages - 1), doc'.counted \in Nat, doc'.pass \in Nat,
         doc'.epoch \in Nat, doc'.lease \in {"none", "live", "expired"}
  PROVE  doc' \in Documents
BY DEF Documents

TokenInv == \A w \in Runs : run[w].token <= doc.epoch

ReadInv ==
  \A w \in Runs : run[w].at \in {"reconcile", "checkpoint"} /\ Belongs(w) =>
    /\ run[w].cursor = doc.cursor /\ run[w].pass = doc.pass
    /\ run[w].at = "checkpoint" => <<doc.pass, doc.cursor + 1>> \in scans

JobInv == JobTyped /\ TokenInv /\ ReadInv /\ ProgressIsTrue

\* The inductive step of ReconciliationJob, by action.
LEMMA JobStep == JobInv /\ [JobNext]_jobVars => JobInv'
<1> SUFFICES ASSUME JobInv, [JobNext]_jobVars PROVE JobInv'
  OBVIOUS
<1> USE PagesAssumption, EpochsAssumption DEF JobInv, JobTyped, TokenInv, Documents, RunStates
<1>1. ASSUME NEW w \in Runs, Acquire(w) PROVE JobInv'
  <2>1. JobTyped' /\ TokenInv'
    <3>1. doc' \in Documents
      <4>1. DOMAIN doc' = DOMAIN doc /\ doc' = [f \in DOMAIN doc' |-> doc'[f]]
        BY <1>1 DEF Acquire
      <4>2. /\ doc'.status = "running" /\ doc'.cursor = doc.cursor /\ doc'.counted = doc.counted
            /\ doc'.pass = doc.pass /\ doc'.epoch = doc.epoch + 1 /\ doc'.lease = "live"
        BY <1>1 DEF Acquire
      <4> QED BY <4>1, <4>2, DocumentTyped
    <3>2. run' \in [Runs -> RunStates]
      BY <1>1 DEF Acquire, Idle
    <3>3. TokenInv'
      BY <1>1 DEF Acquire, Idle
    <3> QED BY <3>1, <3>2, <3>3
  <2>2. ASSUME NEW v \in Runs, run'[v].at \in {"reconcile", "checkpoint"} PROVE ~Belongs(v)'
    BY <1>1, <2>2 DEF Acquire, Belongs, Idle
  <2>3. ProgressIsTrue'
    BY <1>1 DEF Acquire, ProgressIsTrue
  <2> QED BY <2>1, <2>2, <2>3 DEF ReadInv
<1>2. ASSUME NEW w \in Runs, ReadCursor(w) PROVE JobInv'
  <2>1. JobTyped' /\ TokenInv' /\ ProgressIsTrue'
    BY <1>2 DEF ReadCursor, ProgressIsTrue
  <2>2. ReadInv'
    BY <1>2 DEF ReadCursor, ReadInv, Belongs
  <2> QED BY <2>1, <2>2
<1>3. ASSUME NEW w \in Runs, Reconcile(w) PROVE JobInv'
  <2>1. JobTyped' /\ TokenInv'
    BY <1>3 DEF Reconcile, Goto
  <2>2. ProgressIsTrue'
    BY <1>3 DEF Reconcile, ProgressIsTrue
  <2>3. ReadInv'
    BY <1>3 DEF Reconcile, Goto, ReadInv, Belongs
  <2> QED BY <2>1, <2>2, <2>3
<1>4. ASSUME NEW w \in Runs, ReconcileFails(w) \/ CheckpointLost(w) \/ Crash(w) PROVE JobInv'
  <2>1. UNCHANGED <<doc, scans>> /\ run'[w].at \in {"fail", "idle"} /\ run'[w].token <= doc.epoch
    BY <1>4 DEF ReconcileFails, CheckpointLost, Crash, Goto, Idle
  <2>2. run' \in [Runs -> RunStates]
    BY <1>4 DEF ReconcileFails, CheckpointLost, Crash, Goto, Idle
  <2>3. \A v \in Runs : v # w => run'[v] = run[v]
    BY <1>4 DEF ReconcileFails, CheckpointLost, Crash, Goto
  <2>4. ReadInv'
    BY <2>1, <2>3 DEF ReadInv, Belongs
  <2> QED BY <2>1, <2>2, <2>3, <2>4 DEF ProgressIsTrue
<1>5. ASSUME NEW w \in Runs, Checkpoint(w) PROVE JobInv'
  <2>1. /\ run[w].cursor = doc.cursor /\ doc.counted = doc.cursor
        /\ <<doc.pass, doc.counted + 1>> \in scans
    BY <1>5 DEF Checkpoint, ReadInv, ProgressIsTrue, Belongs
  <2>2. /\ doc'.counted = doc.counted + 1 /\ doc'.pass = doc.pass /\ doc'.epoch = doc.epoch
        /\ doc'.lease = "none"
        /\ \/ doc'.status = "pending" /\ doc'.cursor = doc'.counted /\ doc'.cursor < Pages
           \/ doc'.status = "completed" /\ doc'.cursor = doc.cursor /\ doc'.counted = Pages
    BY <1>5, <2>1 DEF Checkpoint, Free
  <2>3. JobTyped' /\ TokenInv'
    <3>1. doc' \in Documents
      <4>1. DOMAIN doc' = DOMAIN doc /\ doc' = [f \in DOMAIN doc' |-> doc'[f]]
        BY <1>5 DEF Checkpoint, Free
      <4> QED BY <4>1, <2>2, DocumentTyped
    <3>2. run' \in [Runs -> RunStates]
      BY <1>5 DEF Checkpoint, Goto, Idle
    <3>3. TokenInv'
      BY <1>5, <2>2 DEF Checkpoint, Goto, Idle
    <3> QED BY <3>1, <3>2, <3>3
  <2>4. ReadInv'
    BY <2>2 DEF ReadInv, Belongs
  <2>5. ProgressIsTrue'
    <3>1. \A p \in 1..(doc.counted + 1) : <<doc.pass, p>> \in scans
      <4>1. ASSUME NEW p \in 1..(doc.counted + 1) PROVE p \in 1..doc.counted \/ p = doc.counted + 1
        OBVIOUS
      <4> QED BY <4>1, <2>1 DEF ProgressIsTrue
    <3> QED BY <3>1, <2>2, <1>5 DEF Checkpoint, ProgressIsTrue
  <2> QED BY <2>3, <2>4, <2>5
<1>6. ASSUME NEW w \in Runs, Fail(w) PROVE JobInv'
  <2>1. /\ doc' \in {doc, [Free(doc) EXCEPT !.status = "failed"]}
        /\ doc' # doc => doc.status = "running"
    BY <1>6 DEF Fail, Belongs
  <2>2. JobTyped' /\ TokenInv'
    <3>1. doc' \in Documents
      BY <2>1 DEF Free
    <3>2. run' \in [Runs -> RunStates]
      BY <1>6 DEF Fail, Idle
    <3>3. TokenInv'
      BY <1>6, <2>1 DEF Fail, Free, Idle
    <3> QED BY <3>1, <3>2, <3>3
  <2>3. ReadInv'
    BY <1>6, <2>1 DEF Fail, Free, Idle, ReadInv, Belongs
  <2>4. ProgressIsTrue'
    BY <1>6, <2>1 DEF Fail, Free, ProgressIsTrue
  <2> QED BY <2>2, <2>3, <2>4
<1>7. CASE Expire
  BY <1>7 DEF Expire, ReadInv, Belongs, ProgressIsTrue
<1>8. CASE Restart
  <2>1. JobTyped' /\ TokenInv'
    <3>1. doc' \in Documents
      <4>1. DOMAIN doc' = DOMAIN doc /\ doc' = [f \in DOMAIN doc' |-> doc'[f]]
        BY <1>8 DEF Restart, Free
      <4>2. /\ doc'.status = "pending" /\ doc'.cursor = 0 /\ doc'.counted = 0
            /\ doc'.pass = doc.pass + 1 /\ doc'.epoch = doc.epoch + 1 /\ doc'.lease = "none"
        BY <1>8 DEF Restart, Free
      <4> QED BY <4>1, <4>2, DocumentTyped
    <3> QED BY <3>1, <1>8 DEF Restart, Free
  <2>2. ReadInv' /\ ProgressIsTrue'
    BY <1>8 DEF Restart, Free, ReadInv, Belongs, ProgressIsTrue
  <2> QED BY <2>1, <2>2
<1>9. CASE UNCHANGED jobVars
  BY <1>9 DEF jobVars, ReadInv, Belongs, ProgressIsTrue
<1> QED BY <1>1, <1>2, <1>3, <1>4, <1>5, <1>6, <1>7, <1>8, <1>9 DEF JobNext

\* A job's recorded progress is true for any number of runs, pages, leases and
\* restarts (jobs.ts:94-156, 169-173).
THEOREM ProgressStaysTrue == JobSpec => []ProgressIsTrue
<1>1. JobInit => JobInv
  BY PagesAssumption DEF JobInit, JobInv, JobTyped, TokenInv, ReadInv, ProgressIsTrue, Idle,
     Documents, RunStates
<1>2. JobInv => ProgressIsTrue
  BY DEF JobInv
<1> QED BY <1>1, <1>2, JobStep, PTL DEF JobSpec

------------------------------------------------------------------------------
(* HotRuntime: what a generation may be, by what the queue does.            *)

\* A reload in the queue or under way has a generation left to make.
RoomInv ==
  /\ made + waiting <= reloads + 1
  /\ doing = "prepare" => made + waiting <= reloads

StageInv ==
  /\ current <= made
  /\ \A g \in Gens : g > made => stage[g] = "none"
  /\ \A g \in Gens : g # current /\ g # victim => stage[g] \in {"none", "disposed"}
  /\ doing \in {"idle", "prepare"} => victim = 0 /\ stage[current] = "ready"
  /\ doing = "dispose" =>
       /\ victim \in 1..made /\ stage[victim] \in {"draining", "closing"}
       /\ IF victim = current THEN closed ELSE stage[current] = "ready"
  /\ doing = "end" => victim = 0 /\ closed /\ stage[current] = "disposed"

HotInv == HotTypeOK /\ RoomInv /\ StageInv /\ RequestsAreServed

\* The inductive step of HotRuntime, by action.
LEMMA HotStep == HotInv /\ [HotNext]_hotVars => HotInv'
<1> SUFFICES ASSUME HotInv, [HotNext]_hotVars PROVE HotInv'
  OBVIOUS
<1> USE ReloadsAssumption DEF HotInv, HotTypeOK, Gens
<1>1. CASE Reload \/ Attempt \/ PrepareFails \/ Close
  <2>1. HotTypeOK' /\ RoomInv'
    <3>1. CASE Reload
      BY <3>1 DEF Reload, RoomInv
    <3>2. CASE Attempt
      <4>1. waiting' \in Nat /\ waiting = waiting' + 1
        BY <3>2 DEF Attempt
      <4>2. HotTypeOK'
        BY <3>2, <4>1 DEF Attempt
      <4>3. RoomInv'
        BY <3>2, <4>1 DEF Attempt, RoomInv
      <4> QED BY <4>2, <4>3
    <3>3. CASE PrepareFails \/ Close
      BY <3>3 DEF PrepareFails, Close, RoomInv
    <3> QED BY <1>1, <3>1, <3>2, <3>3
  <2>2. StageInv'
    BY <1>1 DEF Reload, Attempt, PrepareFails, Close, StageInv
  <2>3. RequestsAreServed'
    BY <1>1 DEF Reload, Attempt, PrepareFails, Close, RequestsAreServed
  <2> QED BY <2>1, <2>2, <2>3
<1>2. CASE Prepared
  <2>1. made + 1 \in Gens /\ made + 1 # current /\ stage[made + 1] = "none"
    BY <1>2 DEF Prepared, RoomInv, StageInv
  <2>2. PICK taken \in BOOLEAN :
          /\ taken => ~closed
          /\ current' = IF taken THEN made + 1 ELSE current
          /\ Dispose(IF taken THEN current ELSE made + 1)
          /\ stage' = [stage EXCEPT ![made + 1] = IF taken THEN "ready" ELSE "draining",
                                    ![current] = IF taken THEN "draining" ELSE @]
    BY <1>2 DEF Prepared
  <2>3. /\ stage'[made + 1] = IF taken THEN "ready" ELSE "draining"
        /\ stage'[current] = IF taken THEN "draining" ELSE "ready"
        /\ \A g \in Gens : g # current /\ g # made + 1 => stage'[g] = stage[g]
    BY <1>2, <2>1, <2>2 DEF Prepared, StageInv
  <2>4. HotTypeOK' /\ RoomInv'
    BY <1>2, <2>1, <2>2 DEF Prepared, Dispose, RoomInv
  <2>5. StageInv'
    BY <1>2, <2>1, <2>2, <2>3 DEF Prepared, Dispose, StageInv
  <2>6. RequestsAreServed'
    BY <1>2, <2>1, <2>3 DEF Prepared, StageInv, RequestsAreServed
  <2> QED BY <2>4, <2>5, <2>6
<1>3. CASE Drained
  <2>1. HotTypeOK' /\ RoomInv'
    BY <1>3 DEF Drained, RoomInv
  <2>2. StageInv'
    BY <1>3 DEF Drained, StageInv
  <2>3. RequestsAreServed'
    BY <1>3 DEF Drained, StageInv, RequestsAreServed
  <2> QED BY <2>1, <2>2, <2>3
<1>4. CASE Disposed
  <2>1. HotTypeOK' /\ RoomInv'
    BY <1>4 DEF Disposed, RoomInv
  <2>2. StageInv'
    BY <1>4 DEF Disposed, StageInv
  <2>3. RequestsAreServed'
    BY <1>4 DEF Disposed, StageInv, RequestsAreServed
  <2> QED BY <2>1, <2>2, <2>3
<1>5. CASE CloseCurrent
  <2>1. HotTypeOK' /\ RoomInv'
    BY <1>5 DEF CloseCurrent, Dispose, RoomInv
  <2>2. StageInv'
    BY <1>5 DEF CloseCurrent, Dispose, StageInv
  <2>3. RequestsAreServed'
    BY <1>5 DEF CloseCurrent, StageInv, RequestsAreServed
  <2> QED BY <2>1, <2>2, <2>3
<1>6. ASSUME NEW r \in Requests, Arrive(r) PROVE HotInv'
  <2>1. HotTypeOK' /\ RoomInv'
    BY <1>6 DEF Arrive, RoomInv
  <2>2. StageInv'
    BY <1>6 DEF Arrive, StageInv
  <2>3. RequestsAreServed'
    BY <1>6 DEF Arrive, StageInv, RequestsAreServed
  <2> QED BY <2>1, <2>2, <2>3
<1>7. ASSUME NEW r \in Requests, Answer(r) PROVE HotInv'
  <2>1. HotTypeOK' /\ RoomInv'
    BY <1>7 DEF Answer, RoomInv
  <2>2. StageInv' /\ RequestsAreServed'
    BY <1>7 DEF Answer, StageInv, RequestsAreServed
  <2> QED BY <2>1, <2>2
<1>8. CASE UNCHANGED hotVars
  BY <1>8 DEF hotVars, RoomInv, StageInv, RequestsAreServed
<1> QED BY <1>1, <1>2, <1>3, <1>4, <1>5, <1>6, <1>7, <1>8 DEF HotNext

\* The server's invariant holds in every behaviour (hot-runtime.ts:29-62).
THEOREM HotInvariance == HotSpec => []HotInv
<1>1. HotInit => HotInv
  <2> USE ReloadsAssumption DEF HotInit, Gens
  <2>1. HotInit => HotTypeOK
    <3>1. HotInit => stage \in [Gens -> {"none", "ready", "draining", "closing", "disposed"}]
      BY Zenon
    <3>2. HotInit => closed \in BOOLEAN /\ refused \subseteq Requests
      BY Zenon
    <3>3. HotInit => serving \in [Requests -> Gens \cup {0}]
      OBVIOUS
    <3>4. 1 \in Gens
      OBVIOUS
    <3> QED BY <3>1, <3>2, <3>3, <3>4 DEF HotTypeOK
  <2>4. HotInit => RoomInv
    BY DEF RoomInv
  <2>2. HotInit => StageInv
    BY DEF StageInv
  <2>3. HotInit => RequestsAreServed
    BY DEF RequestsAreServed
  <2> QED BY <2>1, <2>2, <2>3, <2>4 DEF HotInv
<1> QED BY <1>1, HotStep, PTL DEF HotSpec

\* Every generation but the answering one and the one being disposed has been
\* disposed, for any number of reloads (hot-runtime.ts:29-62).
THEOREM GenerationsAreDisposed == HotSpec => []OneGeneration
<1>1. HotInv => OneGeneration
  BY DEF HotInv, HotTypeOK, StageInv, OneGeneration
<1> QED BY <1>1, HotInvariance, PTL

\* A response under way has its services, and before close none is refused, for
\* any number of requests and reloads (request-lifecycle.ts:19-63).
THEOREM RequestsStayServed == HotSpec => []RequestsAreServed
<1>1. HotInv => RequestsAreServed
  BY DEF HotInv
<1> QED BY <1>1, HotInvariance, PTL

------------------------------------------------------------------------------
(* ThreadPool: a task that is held is in one place, only threads that exist *)
(* are idle or busy, and dispatch spawns within the limit.                  *)

Pools ==
  [workers : SUBSET Threads, idle : Seq(Threads), queue : Seq(Tasks),
   task : [Threads -> Tasks \cup {NoTask}], up : SUBSET Threads, ending : SUBSET Threads]

PoolTyped ==
  /\ pool \in Pools /\ on \in BOOLEAN /\ halting \in BOOLEAN /\ overtaken \in BOOLEAN
  /\ outcome \in [Tasks -> {"new", "open", "settled"}]

Distinct(s) == \A i, j \in DOMAIN s : s[i] = s[j] => i = j

\* A task is in one place, a thread is idle once and then has none, and only a
\* thread that exists is idle or has one.
Sound(p) ==
  /\ Distinct(p.queue) /\ Distinct(p.idle)
  /\ \A v, w \in Threads : p.task[v] = p.task[w] /\ p.task[v] # NoTask => v = w
  /\ \A w \in Threads : p.task[w] \notin Elements(p.queue)
  /\ \A w \in Elements(p.idle) : w \in p.up \cup p.ending /\ p.task[w] = NoTask
  /\ \A w \in Threads : p.task[w] # NoTask => w \in p.up \cup p.ending

HeldBy(p) == {t \in Tasks : t \in Elements(p.queue) \/ \E w \in Threads : p.task[w] = t}

OpenInv ==
  /\ \A t \in Tasks : outcome[t] = "open" => t \in HeldBy(pool)
  /\ \A t \in Tasks : outcome[t] = "new" => t \notin HeldBy(pool)

SizeInv ==
  /\ Cardinality(pool.workers \cap pool.up) <= MaxThreads
  /\ ~on => pool.workers \cap pool.up = {}

StopInv ==
  ~overtaken => /\ pool.up \subseteq pool.workers
                /\ ~on => pool.up = {}
                /\ halting => ~on

PoolInv == PoolTyped /\ Sound(pool) /\ OpenInv /\ SizeInv /\ StopInv

------------------------------------------------------------------------------
(* The operators of ThreadPool.                                            *)

\* A set of numbers has a first one.
LEMMA FirstOfNumbers ==
  ASSUME NEW I \in SUBSET Nat, I # {}
  PROVE  First(I) \in I /\ \A j \in I : First(I) <= j
<1>1. \E i \in I : \A j \in I : ~(<<j, i>> \in OpToRel(<, Nat))
  BY NatLessThanWellFounded, WFMin, Zenon
<1>2. OpToRel(<, Nat) = {r \in Nat \X Nat : r[1] < r[2]}
  BY DEF OpToRel
<1>3. \A i, j \in Nat : j < i => <<j, i>> \in {r \in Nat \X Nat : r[1] < r[2]}
  OBVIOUS
<1>4. PICK i \in I : \A j \in I : ~(<<j, i>> \in {r \in Nat \X Nat : r[1] < r[2]})
  BY <1>1, <1>2, Zenon
<1>5. \A j \in I : ~(j < i)
  BY <1>3, <1>4, Zenon
<1>6. \A j \in I : i <= j
  BY <1>5
<1> QED BY <1>6 DEF First

\* Taking the first x out of a sequence without repetitions takes x out.
LEMMA SplicedStep ==
  ASSUME NEW S, NEW s \in Seq(S), NEW x, Distinct(s)
  PROVE  /\ Spliced(s, x) \in Seq(S) /\ Distinct(Spliced(s, x))
         /\ Elements(Spliced(s, x)) = Elements(s) \ {x}
<1> DEFINE found == {i \in DOMAIN s : s[i] = x}
           k == First(found)
           r == [i \in 1..Len(s) - 1 |-> s[IF i < k THEN i ELSE i + 1]]
<1>1. Len(s) \in Nat /\ DOMAIN s = 1..Len(s) /\ \A i \in 1..Len(s) : s[i] \in S
  OBVIOUS
<1>2. CASE found = {}
  BY <1>2 DEF Spliced, Elements
<1>3. CASE found # {}
  <2>1. k \in found
    <3>1. found \in SUBSET Nat
      BY <1>1
    <3> HIDE DEF found
    <3> QED BY <1>3, <3>1, FirstOfNumbers
  <2>2. k \in 1..Len(s) /\ s[k] = x
    BY <1>1, <2>1
  <2>3. Spliced(s, x) = r
    BY <1>3 DEF Spliced
  <2> HIDE DEF found, k
  <2>4. \A i \in 1..Len(s) - 1 : (IF i < k THEN i ELSE i + 1) \in (1..Len(s)) \ {k}
    BY <1>1, <2>2
  <2>5. r \in Seq(S) /\ DOMAIN r = 1..Len(s) - 1
    BY <1>1, <2>4
  <2>6. Distinct(r)
    <3> SUFFICES ASSUME NEW i \in 1..Len(s) - 1, NEW j \in 1..Len(s) - 1, r[i] = r[j] PROVE i = j
      BY <2>5 DEF Distinct
    <3>1. (IF i < k THEN i ELSE i + 1) = (IF j < k THEN j ELSE j + 1)
      BY <1>1, <2>4 DEF Distinct
    <3> QED BY <2>2, <3>1
  <2>7. Elements(r) \subseteq Elements(s) \ {x}
    <3> SUFFICES ASSUME NEW i \in 1..Len(s) - 1 PROVE r[i] \in Elements(s) \ {x}
      BY <2>5 DEF Elements
    <3>1. PICK j \in (1..Len(s)) \ {k} : r[i] = s[j]
      BY <2>4
    <3> QED BY <1>1, <2>2, <3>1 DEF Elements, Distinct
  <2>8. Elements(s) \ {x} \subseteq Elements(r)
    <3> SUFFICES ASSUME NEW i \in 1..Len(s), s[i] # x PROVE s[i] \in Elements(r)
      BY <1>1 DEF Elements
    <3>1. CASE i < k
      <4>1. i \in 1..Len(s) - 1 /\ r[i] = s[i]
        BY <1>1, <2>2, <3>1
      <4> QED BY <2>5, <4>1 DEF Elements
    <3>2. CASE i > k
      <4>1. i - 1 \in 1..Len(s) - 1 /\ r[i - 1] = s[i]
        BY <1>1, <2>2, <3>2
      <4> QED BY <2>5, <4>1 DEF Elements
    <3> QED BY <2>2, <3>1, <3>2
  <2> HIDE DEF r
  <2> QED BY <2>3, <2>5, <2>6, <2>7, <2>8
<1> QED BY <1>2, <1>3

\* What is left of a sequence when its first n elements are taken.
Left(s, n) == SubSeq(s, n + 1, Len(s))

LEMMA RestOfSequence ==
  ASSUME NEW S, NEW s \in Seq(S), NEW n \in 0..Len(s), Distinct(s)
  PROVE  /\ Left(s, n) \in Seq(S) /\ Distinct(Left(s, n))
         /\ Elements(Left(s, n)) = {s[i] : i \in n + 1..Len(s)}
         /\ \A i \in 1..n : s[i] \notin Elements(Left(s, n))
<1> DEFINE r == Left(s, n)
<1>1. Len(s) \in Nat /\ DOMAIN s = 1..Len(s) /\ \A i \in 1..Len(s) : s[i] \in S
  OBVIOUS
<1>2. r \in Seq(S) /\ Len(r) = Len(s) - n /\ DOMAIN r = 1..Len(s) - n
      /\ \A i \in 1..Len(s) - n : r[i] = s[i + n]
  <2>1. r = [i \in 1..Len(s) - n |-> s[i + n]]
    BY <1>1 DEF SubSeq, Left
  <2>2. \A i \in 1..Len(s) - n : i + n \in 1..Len(s)
    BY <1>1
  <2>3. Len(s) - n \in Nat
    BY <1>1
  <2> HIDE DEF r
  <2> QED BY <1>1, <2>1, <2>2, <2>3
<1> HIDE DEF r
<1>3. Distinct(r)
  <2> SUFFICES ASSUME NEW i \in 1..Len(s) - n, NEW j \in 1..Len(s) - n, r[i] = r[j] PROVE i = j
    BY <1>2 DEF Distinct
  <2>1. i + n \in 1..Len(s) /\ j + n \in 1..Len(s) /\ s[i + n] = s[j + n]
    BY <1>1, <1>2
  <2>2. i + n = j + n
    BY <1>1, <2>1 DEF Distinct
  <2> QED BY <1>1, <2>2
<1>4. Elements(r) \subseteq {s[i] : i \in n + 1..Len(s)}
  BY <1>1, <1>2 DEF Elements
<1>5. {s[i] : i \in n + 1..Len(s)} \subseteq Elements(r)
  <2> SUFFICES ASSUME NEW i \in n + 1..Len(s) PROVE s[i] \in Elements(r)
    OBVIOUS
  <2>1. i - n \in 1..Len(s) - n /\ r[i - n] = s[i]
    BY <1>1, <1>2
  <2> QED BY <1>2, <2>1 DEF Elements
<1>6. \A i \in 1..n : s[i] \notin {s[j] : j \in n + 1..Len(s)}
  BY <1>1 DEF Distinct
<1> QED BY <1>2, <1>3, <1>4, <1>5, <1>6 DEF r

\* A set of n or more elements has n different ones.
LEMMA DifferentOnes ==
  ASSUME NEW S, IsFiniteSet(S), NEW n \in Nat, n <= Cardinality(S)
  PROVE  \E s \in [1..n -> S] : \A i, j \in 1..n : s[i] = s[j] => i = j
<1>1. Cardinality(S) \in Nat /\ ExistsBijection(1..Cardinality(S), S)
  BY FS_CardinalityType
<1>2. PICK f \in [1..Cardinality(S) -> S] : \A i, j \in 1..Cardinality(S) : f[i] = f[j] => i = j
  BY <1>1 DEF ExistsBijection, Bijection, Injection, IsInjective
<1> DEFINE s == [i \in 1..n |-> f[i]]
<1>3. \A i \in 1..n : i \in 1..Cardinality(S)
  BY <1>1
<1>4. s \in [1..n -> S] /\ \A i, j \in 1..n : s[i] = s[j] => i = j
  BY <1>2, <1>3
<1> QED BY <1>4

\* One sequence after another.
LEMMA ConcatStep ==
  ASSUME NEW S, NEW s \in Seq(S), NEW r \in Seq(S), Distinct(s), Distinct(r),
         Elements(s) \cap Elements(r) = {}
  PROVE  /\ s \o r \in Seq(S) /\ Distinct(s \o r) /\ Len(s \o r) = Len(s) + Len(r)
         /\ Elements(s \o r) = Elements(s) \cup Elements(r)
<1> DEFINE q == s \o r
<1>1. /\ Len(s) \in Nat /\ DOMAIN s = 1..Len(s) /\ \A i \in 1..Len(s) : s[i] \in S
      /\ Len(r) \in Nat /\ DOMAIN r = 1..Len(r) /\ \A i \in 1..Len(r) : r[i] \in S
  OBVIOUS
<1>2. /\ q \in Seq(S) /\ Len(q) = Len(s) + Len(r)
      /\ \A i \in 1..Len(s) + Len(r) : q[i] = IF i <= Len(s) THEN s[i] ELSE r[i - Len(s)]
  OBVIOUS
<1> HIDE DEF q
<1>3. DOMAIN q = 1..Len(s) + Len(r)
  BY <1>2
<1>4. \A i \in 1..Len(s) : q[i] = s[i] /\ s[i] \in Elements(s)
  BY <1>1, <1>2 DEF Elements
<1>5. \A i \in Len(s) + 1..Len(s) + Len(r) :
        i - Len(s) \in 1..Len(r) /\ q[i] = r[i - Len(s)] /\ r[i - Len(s)] \in Elements(r)
  BY <1>1, <1>2 DEF Elements
<1>6. Distinct(q)
  <2> SUFFICES ASSUME NEW i \in 1..Len(s) + Len(r), NEW j \in 1..Len(s) + Len(r), q[i] = q[j] PROVE i = j
    BY <1>3 DEF Distinct
  <2>1. CASE i <= Len(s) /\ j <= Len(s)
    BY <1>1, <1>4, <2>1 DEF Distinct
  <2>2. CASE i > Len(s) /\ j > Len(s)
    <3>1. i \in Len(s) + 1..Len(s) + Len(r) /\ j \in Len(s) + 1..Len(s) + Len(r)
      BY <1>1, <2>2
    <3>2. i - Len(s) \in DOMAIN r /\ j - Len(s) \in DOMAIN r /\ r[i - Len(s)] = r[j - Len(s)]
      BY <1>1, <1>5, <3>1
    <3>3. i - Len(s) = j - Len(s)
      BY <3>2 DEF Distinct
    <3> QED BY <1>1, <3>3
  <2>3. CASE i <= Len(s) /\ j > Len(s)
    BY <1>1, <1>4, <1>5, <2>3
  <2>4. CASE i > Len(s) /\ j <= Len(s)
    BY <1>1, <1>4, <1>5, <2>4
  <2> QED BY <1>1, <2>1, <2>2, <2>3, <2>4
<1>7. Elements(q) \subseteq Elements(s) \cup Elements(r)
  BY <1>1, <1>3, <1>4, <1>5 DEF Elements
<1>8. Elements(s) \subseteq Elements(q)
  BY <1>1, <1>3, <1>4 DEF Elements
<1>9. Elements(r) \subseteq Elements(q)
  <2> SUFFICES ASSUME NEW i \in 1..Len(r) PROVE r[i] \in Elements(q)
    BY <1>1 DEF Elements
  <2>1. i + Len(s) \in Len(s) + 1..Len(s) + Len(r) /\ (i + Len(s)) - Len(s) = i
    BY <1>1
  <2>2. q[i + Len(s)] = r[i]
    BY <1>5, <2>1
  <2> QED BY <1>1, <1>3, <2>1, <2>2 DEF Elements
<1> QED BY <1>2, <1>6, <1>7, <1>8, <1>9 DEF q

LEMMA AppendStep ==
  ASSUME NEW S, NEW s \in Seq(S), Distinct(s), NEW x \in S, x \notin Elements(s)
  PROVE  /\ Append(s, x) \in Seq(S) /\ Distinct(Append(s, x))
         /\ Elements(Append(s, x)) = Elements(s) \cup {x}
<1> DEFINE y == <<x>>
<1>1. y \in Seq(S) /\ Distinct(y) /\ Elements(y) = {x}
  BY DEF Distinct, Elements
<1>2. Append(s, x) = s \o y
  OBVIOUS
<1> HIDE DEF y
<1>3. Elements(s) \cap Elements(y) = {}
  BY <1>1
<1>4. s \o y \in Seq(S) /\ Distinct(s \o y) /\ Elements(s \o y) = Elements(s) \cup Elements(y)
  BY <1>1, <1>3, ConcatStep
<1> QED BY <1>1, <1>2, <1>4

\* A pool that spawned at most n threads.
Grown(p, q, n) ==
  \E N \in SUBSET Unused(p) :
    /\ IsFiniteSet(N) /\ Cardinality(N) <= n
    /\ q.workers = p.workers \cup N /\ q.up = p.up \cup N /\ q.ending = p.ending

LEMMA ThreadsFinite ==
  \A S \in SUBSET Threads : IsFiniteSet(S) /\ Cardinality(S) \in Nat
<1>1. IsFiniteSet(1..MaxExisting)
  <2>1. 1 \in Int /\ MaxExisting \in Int
    BY BoundsAssumption
  <2> QED BY <2>1, FS_Interval
<1> QED BY <1>1, FS_Subset, FS_CardinalityType DEF Threads

\* Spawning adds n idle threads that did not exist.
LEMMA SpawnedStep ==
  ASSUME NEW p \in Pools, Sound(p), NEW n \in Nat, n <= Cardinality(Unused(p)),
         NEW q, q = Spawned(p, n)
  PROVE  /\ q \in Pools /\ Sound(q) /\ Grown(p, q, n)
         /\ q.queue = p.queue /\ q.task = p.task /\ Len(q.idle) = Len(p.idle) + n
<1> DEFINE U == Unused(p)
           new == CHOOSE s \in [1..n -> U] : \A i, j \in 1..n : s[i] = s[j] => i = j
<1>1. U \subseteq Threads /\ IsFiniteSet(U)
  BY ThreadsFinite DEF Unused
<1>2. new \in [1..n -> U] /\ \A i, j \in 1..n : new[i] = new[j] => i = j
  BY <1>1, DifferentOnes
<1>3. q = [p EXCEPT !.workers = @ \cup Elements(new), !.up = @ \cup Elements(new), !.idle = @ \o new]
  BY DEF Spawned
<1> HIDE DEF new
<1>4. /\ new \in Seq(Threads) /\ Len(new) = n /\ DOMAIN new = 1..n /\ Distinct(new)
      /\ Elements(new) \subseteq U
  BY <1>1, <1>2 DEF Distinct, Elements
<1>5. /\ p.idle \in Seq(Threads) /\ Distinct(p.idle) /\ Elements(p.idle) \cap Elements(new) = {}
  BY <1>4 DEF Pools, Sound, Unused
<1>6. /\ p.idle \o new \in Seq(Threads) /\ Distinct(p.idle \o new)
      /\ Len(p.idle \o new) = Len(p.idle) + n
      /\ Elements(p.idle \o new) = Elements(p.idle) \cup Elements(new)
  BY <1>4, <1>5, ConcatStep
<1>7. /\ q.workers = p.workers \cup Elements(new) /\ q.up = p.up \cup Elements(new)
      /\ q.idle = p.idle \o new /\ q.queue = p.queue /\ q.task = p.task /\ q.ending = p.ending
  BY <1>3 DEF Pools
<1>8. q \in Pools
  <2>1. p.workers \cup Elements(new) \in SUBSET Threads /\ p.up \cup Elements(new) \in SUBSET Threads
    BY <1>1, <1>4 DEF Pools
  <2> QED BY <1>3, <1>6, <2>1 DEF Pools
<1>9. Sound(q)
  BY <1>1, <1>4, <1>6, <1>7 DEF Sound, Unused
<1>10. IsFiniteSet(Elements(new)) /\ Cardinality(Elements(new)) <= n
  <2>1. new \in Surjection(1..n, Elements(new))
    BY <1>2, <1>4 DEF Surjection, Elements
  <2>2. 1 \in Int /\ n \in Int
    OBVIOUS
  <2>3. IsFiniteSet(1..n) /\ Cardinality(1..n) = IF 1 > n THEN 0 ELSE n - 1 + 1
    BY <2>2, FS_Interval
  <2>4. Cardinality(1..n) = n
    BY <2>3
  <2> QED BY <2>1, <2>3, <2>4, FS_Surjection
<1>11. Grown(p, q, n)
  BY <1>4, <1>7, <1>10 DEF Grown
<1> QED BY <1>6, <1>7, <1>8, <1>9, <1>11

\* No more tasks are taken than wait, and than idle threads and spawns allow.
LEMMA TakenBounds ==
  ASSUME NEW p \in Pools
  PROVE  /\ Taken(p) \in 0..Len(p.queue) /\ Len(p.idle) \in Nat
         /\ Less(MaxThreads, Cardinality(p.workers)) \in Nat
         /\ Taken(p) <= Len(p.idle) + Less(MaxThreads, Cardinality(p.workers))
<1>1. Len(p.queue) \in Nat /\ Len(p.idle) \in Nat /\ Cardinality(p.workers) \in Nat
  BY ThreadsFinite DEF Pools
<1>2. Less(MaxThreads, Cardinality(p.workers)) \in Nat
  BY <1>1, ThreadsAssumption DEF Less
<1>3. /\ Startable(p) \in 0..Len(p.queue)
      /\ Startable(p) <= Len(p.idle) + Less(MaxThreads, Cardinality(p.workers))
  BY <1>1, <1>2 DEF Startable, Least
<1>4. CASE Refused(p) = {}
  BY <1>1, <1>2, <1>3, <1>4 DEF Taken
<1>5. CASE Refused(p) # {}
  <2>1. Refused(p) \in SUBSET (1..Startable(p)) /\ Refused(p) \in SUBSET Nat
    BY <1>3 DEF Refused
  <2>2. Taken(p) \in 1..Startable(p)
    BY <1>5, <2>1, FirstOfNumbers DEF Taken
  <2> QED BY <1>1, <1>2, <1>3, <2>2
<1> QED BY <1>4, <1>5

\* The first n of the queue are handed to the first n of the idle threads.
LEMMA HandedOver ==
  ASSUME NEW p \in Pools, Sound(p), NEW n \in 0..Len(p.queue), n <= Len(p.idle),
         NEW q, q = [p EXCEPT !.queue = SubSeq(@, n + 1, Len(@)), !.task = Assigned(p, n, p.idle),
                              !.idle = SubSeq(@, n + 1, Len(@))]
  PROVE  /\ q \in Pools /\ Sound(q) /\ HeldBy(q) = HeldBy(p)
         /\ q.workers = p.workers /\ q.up = p.up /\ q.ending = p.ending
<1> DEFINE s == p.idle
           f == Assigned(p, n, s)
<1>1. /\ p.queue \in Seq(Tasks) /\ s \in Seq(Threads) /\ p.task \in [Threads -> Tasks \cup {NoTask}]
      /\ Distinct(p.queue) /\ Distinct(s)
  BY DEF Pools, Sound
<1>2. /\ Len(p.queue) \in Nat /\ Len(s) \in Nat /\ n \in Nat /\ n \in 0..Len(s)
      /\ DOMAIN p.queue = 1..Len(p.queue) /\ DOMAIN s = 1..Len(s)
  BY <1>1
<1>0. /\ \A v, w \in Threads : p.task[v] = p.task[w] /\ p.task[v] # NoTask => v = w
      /\ \A w \in Threads : p.task[w] \notin Elements(p.queue)
      /\ \A w \in Elements(s) : w \in p.up \cup p.ending /\ p.task[w] = NoTask
      /\ \A w \in Threads : p.task[w] # NoTask => w \in p.up \cup p.ending
  BY DEF Sound
<1>3. \A i \in 1..n : /\ i \in DOMAIN p.queue /\ i \in DOMAIN s
                      /\ p.queue[i] \in Tasks /\ p.queue[i] \in Elements(p.queue)
                      /\ s[i] \in Threads /\ s[i] \in Elements(s)
  BY <1>1, <1>2 DEF Elements
<1>4. /\ q.queue = Left(p.queue, n) /\ q.idle = Left(s, n) /\ q.task = f
      /\ q.workers = p.workers /\ q.up = p.up /\ q.ending = p.ending
  BY DEF Pools, Left
<1>5. /\ q.queue \in Seq(Tasks) /\ Distinct(q.queue) /\ \A i \in 1..n : p.queue[i] \notin Elements(q.queue)
      /\ Elements(q.queue) = {p.queue[i] : i \in n + 1..Len(p.queue)}
  <2> DEFINE z == p.queue
  <2>1. z \in Seq(Tasks) /\ Distinct(z) /\ n \in 0..Len(z)
    BY <1>1
  <2> HIDE DEF z
  <2>2. /\ Left(z, n) \in Seq(Tasks) /\ Distinct(Left(z, n))
        /\ Elements(Left(z, n)) = {z[i] : i \in n + 1..Len(z)}
        /\ \A i \in 1..n : z[i] \notin Elements(Left(z, n))
    BY <2>1, RestOfSequence
  <2> QED BY <1>4, <2>2, Zenon DEF z
<1>6. /\ q.idle \in Seq(Threads) /\ Distinct(q.idle) /\ \A i \in 1..n : s[i] \notin Elements(q.idle)
      /\ Elements(q.idle) = {s[i] : i \in n + 1..Len(s)}
  <2> HIDE DEF s
  <2>1. /\ Left(s, n) \in Seq(Threads) /\ Distinct(Left(s, n))
        /\ Elements(Left(s, n)) = {s[i] : i \in n + 1..Len(s)}
        /\ \A i \in 1..n : s[i] \notin Elements(Left(s, n))
    BY <1>1, <1>2, RestOfSequence
  <2> QED BY <1>4, <2>1, Zenon
<1>7. Elements(q.queue) \subseteq Elements(p.queue) /\ Elements(q.idle) \subseteq Elements(s)
  <2>1. n + 1..Len(p.queue) \subseteq 1..Len(p.queue) /\ n + 1..Len(s) \subseteq 1..Len(s)
    BY <1>2
  <2>2. /\ Elements(p.queue) = {p.queue[i] : i \in 1..Len(p.queue)}
        /\ Elements(s) = {s[i] : i \in 1..Len(s)}
    BY <1>2 DEF Elements
  <2> QED BY <1>5, <1>6, <2>1, <2>2
<1>8. \A i \in 1..n : f[s[i]] = p.queue[i]
  <2> SUFFICES ASSUME NEW i \in 1..n PROVE f[s[i]] = p.queue[i]
    OBVIOUS
  <2>1. \A j \in 1..n : s[j] = s[i] <=> j = i
    BY <1>1, <1>3 DEF Distinct
  <2>2. (CHOOSE j \in 1..n : s[j] = s[i]) = i
    BY <2>1
  <2> QED BY <1>3, <2>2 DEF Assigned
<1>9. \A w \in Threads : (\A i \in 1..n : s[i] # w) => f[w] = p.task[w]
  BY DEF Assigned
<1>10. f \in [Threads -> Tasks \cup {NoTask}]
  <2>1. \A w \in Threads : f[w] \in Tasks \cup {NoTask}
    BY <1>1, <1>3, <1>8, <1>9
  <2>2. f = [w \in Threads |-> f[w]]
    BY DEF Assigned
  <2> QED BY <2>1, <2>2
<1> HIDE DEF f
<1>11. q \in Pools
  BY <1>4, <1>5, <1>6, <1>10 DEF Pools
<1>12. \A v \in Threads :
         \/ \E i \in 1..n : v = s[i] /\ f[v] = p.queue[i]
         \/ (\A i \in 1..n : s[i] # v) /\ f[v] = p.task[v]
  BY <1>8, <1>9
<1>13. \A v, w \in Threads : f[v] = f[w] /\ f[v] # NoTask => v = w
  <2> SUFFICES ASSUME NEW v \in Threads, NEW w \in Threads, f[v] = f[w], f[v] # NoTask PROVE v = w
    OBVIOUS
  <2>1. CASE \E i \in 1..n : v = s[i] /\ f[v] = p.queue[i]
    <3>1. PICK i \in 1..n : v = s[i] /\ f[v] = p.queue[i]
      BY <2>1
    <3>2. PICK j \in 1..n : w = s[j] /\ f[w] = p.queue[j]
      BY <1>0, <1>3, <1>12, <3>1
    <3>3. i = j
      BY <1>1, <1>3, <3>1, <3>2 DEF Distinct
    <3> QED BY <3>1, <3>2, <3>3
  <2>2. CASE f[v] = p.task[v]
    <3>1. f[w] \notin Elements(p.queue)
      BY <1>0, <2>2
    <3>2. f[w] = p.task[w]
      BY <1>3, <1>12, <3>1
    <3> QED BY <1>0, <2>2, <3>2
  <2> QED BY <1>12, <2>1, <2>2
<1>14. \A w \in Threads : f[w] \notin Elements(q.queue)
  BY <1>0, <1>5, <1>7, <1>12
<1>15. \A w \in Elements(q.idle) : w \in q.up \cup q.ending /\ f[w] = NoTask
  <2> SUFFICES ASSUME NEW w \in Elements(q.idle) PROVE w \in q.up \cup q.ending /\ f[w] = NoTask
    OBVIOUS
  <2>1. w \in Elements(s) /\ \A i \in 1..n : s[i] # w
    BY <1>6, <1>7
  <2>2. w \in Threads
    BY <1>1, <1>2, <2>1 DEF Elements
  <2>3. f[w] = p.task[w]
    BY <1>9, <2>1, <2>2
  <2> QED BY <1>0, <1>4, <2>1, <2>3
<1>16. \A w \in Threads : f[w] # NoTask => w \in q.up \cup q.ending
  <2>1. \A w \in Threads : w \in Elements(s) \/ f[w] = p.task[w]
    BY <1>3, <1>12
  <2> QED BY <1>0, <1>4, <2>1
<1>17. Sound(q)
  BY <1>4, <1>5, <1>6, <1>13, <1>14, <1>15, <1>16 DEF Sound
<1>18. HeldBy(q) \subseteq HeldBy(p)
  <2>1. \A w \in Threads : f[w] \in Elements(p.queue) \/ f[w] = p.task[w]
    BY <1>3, <1>12
  <2> QED BY <1>4, <1>7, <2>1 DEF HeldBy
<1>19. HeldBy(p) \subseteq HeldBy(q)
  <2> SUFFICES ASSUME NEW t \in Tasks, t \in HeldBy(p) PROVE t \in HeldBy(q)
    BY DEF HeldBy
  <2>1. CASE t \in Elements(p.queue)
    <3>1. PICK i \in 1..Len(p.queue) : t = p.queue[i]
      BY <1>2, <2>1 DEF Elements
    <3>2. CASE i <= n
      <4>1. i \in 1..n
        BY <1>2, <3>1, <3>2
      <4>2. s[i] \in Threads /\ q.task[s[i]] = t
        BY <1>3, <1>4, <1>8, <3>1, <4>1
      <4> QED BY <4>2 DEF HeldBy
    <3>3. CASE i > n
      BY <1>2, <1>5, <3>1, <3>3 DEF HeldBy
    <3> QED BY <1>2, <3>2, <3>3
  <2>2. CASE \E w \in Threads : p.task[w] = t
    <3>1. PICK w \in Threads : p.task[w] = t
      BY <2>2
    <3>2. p.task[w] # NoTask
      BY <3>1, TasksAssumption
    <3>3. f[w] = t
      BY <1>0, <1>3, <1>12, <3>1, <3>2
    <3> QED BY <1>4, <3>1, <3>3 DEF HeldBy
  <2> QED BY <2>1, <2>2 DEF HeldBy
<1> QED BY <1>4, <1>11, <1>17, <1>18, <1>19

\* dispatch spawns no more threads than the limit leaves room for.
LEMMA DispatchedStep ==
  ASSUME NEW p \in Pools, Sound(p), Cardinality(Unused(p)) >= MaxThreads,
         NEW q, q = Dispatched(p)
  PROVE  /\ q \in Pools /\ Sound(q) /\ HeldBy(q) = HeldBy(p)
         /\ Grown(p, q, Less(MaxThreads, Cardinality(p.workers)))
<1> DEFINE n == Taken(p)
           k == Less(n, Len(p.idle))
           s == Spawned(p, k)
           m == Less(MaxThreads, Cardinality(p.workers))
<1>1. n \in 0..Len(p.queue) /\ Len(p.idle) \in Nat /\ m \in Nat /\ n <= Len(p.idle) + m /\ Len(p.queue) \in Nat
  BY TakenBounds DEF Pools
<1>2. m <= MaxThreads
  BY ThreadsFinite, ThreadsAssumption DEF Less, Pools
<1>3. k \in Nat /\ k <= m /\ n <= Len(p.idle) + k
  BY <1>1 DEF Less
<1>4. Cardinality(Unused(p)) \in Nat
  BY ThreadsFinite DEF Unused
<1>5. k <= Cardinality(Unused(p))
  BY <1>1, <1>2, <1>3, <1>4, ThreadsAssumption
<1> HIDE DEF k, m
<1>6. /\ s \in Pools /\ Sound(s) /\ Grown(p, s, k)
      /\ s.queue = p.queue /\ s.task = p.task /\ Len(s.idle) = Len(p.idle) + k
  BY <1>3, <1>5, SpawnedStep
<1>7. Assigned(s, n, s.idle) = Assigned(p, n, s.idle)
  BY <1>6 DEF Assigned
<1>8. q = [s EXCEPT !.queue = SubSeq(@, n + 1, Len(@)), !.task = Assigned(s, n, s.idle),
                    !.idle = SubSeq(@, n + 1, Len(@))]
  BY <1>7 DEF Dispatched, k
<1> HIDE DEF n, s
<1>9. /\ q \in Pools /\ Sound(q) /\ HeldBy(q) = HeldBy(s)
      /\ q.workers = s.workers /\ q.up = s.up /\ q.ending = s.ending
  <2>1. n \in 0..Len(s.queue) /\ n <= Len(s.idle)
    BY <1>1, <1>3, <1>6
  <2> QED BY <1>6, <1>8, <2>1, HandedOver
<1>10. HeldBy(s) = HeldBy(p)
  BY <1>6 DEF HeldBy
<1>11. Grown(p, q, m)
  <2>1. PICK N \in SUBSET Unused(p) :
          /\ IsFiniteSet(N) /\ Cardinality(N) <= k
          /\ s.workers = p.workers \cup N /\ s.up = p.up \cup N /\ s.ending = p.ending
    BY <1>6 DEF Grown
  <2>2. Cardinality(N) <= m
    BY <1>1, <1>3, <2>1, FS_CardinalityType
  <2> QED BY <1>9, <2>1, <2>2 DEF Grown
<1> QED BY <1>9, <1>10, <1>11 DEF m

\* What n new threads do to the numbers that are left and to the size.
LEMMA GrownStep ==
  ASSUME NEW p \in Pools, NEW q \in Pools, NEW n \in Nat, Grown(p, q, n)
  PROVE  /\ Cardinality(Unused(q)) \in Nat /\ Cardinality(Unused(q)) >= Cardinality(Unused(p)) - n
         /\ Cardinality(q.workers \cap q.up) <= Cardinality(p.workers \cap p.up) + n
         /\ p.up \subseteq p.workers => q.up \subseteq q.workers
         /\ n = 0 => q.workers = p.workers /\ q.up = p.up
<1>1. PICK N \in SUBSET Unused(p) :
        /\ IsFiniteSet(N) /\ Cardinality(N) <= n
        /\ q.workers = p.workers \cup N /\ q.up = p.up \cup N /\ q.ending = p.ending
  BY DEF Grown
<1>2. Cardinality(N) \in Nat
  BY <1>1, FS_CardinalityType
<1>3. Unused(q) = Unused(p) \ N
  BY <1>1 DEF Unused
<1>4. /\ IsFiniteSet(Unused(p)) /\ Cardinality(Unused(p)) \in Nat /\ Cardinality(Unused(q)) \in Nat
      /\ IsFiniteSet(p.workers \cap p.up) /\ Cardinality(p.workers \cap p.up) \in Nat
  BY ThreadsFinite DEF Unused, Pools
<1>5. Cardinality(Unused(p) \ N) = Cardinality(Unused(p)) - Cardinality(N)
  <2>1. Cardinality(Unused(p) \ N) = Cardinality(Unused(p)) - Cardinality(Unused(p) \cap N)
    BY <1>4, FS_Difference
  <2>2. Unused(p) \cap N = N
    OBVIOUS
  <2> QED BY <2>1, <2>2, Zenon
<1>6. Cardinality(Unused(q)) >= Cardinality(Unused(p)) - n
  BY <1>1, <1>2, <1>3, <1>4, <1>5
<1>7. q.workers \cap q.up = (p.workers \cap p.up) \cup N
  BY <1>1 DEF Unused
<1>8. Cardinality((p.workers \cap p.up) \cup N) =
        Cardinality(p.workers \cap p.up) + Cardinality(N) - Cardinality((p.workers \cap p.up) \cap N)
  BY <1>1, <1>4, FS_Union
<1>9. Cardinality((p.workers \cap p.up) \cap N) \in Nat
  BY <1>4, FS_Intersection, FS_CardinalityType
<1>10. Cardinality(q.workers \cap q.up) <= Cardinality(p.workers \cap p.up) + n
  <2>1. Cardinality((p.workers \cap p.up) \cup N) <= Cardinality(p.workers \cap p.up) + n
    BY <1>1, <1>2, <1>4, <1>8, <1>9
  <2> QED BY <1>7, <2>1, Zenon
<1>11. n = 0 => N = {}
  BY <1>1, <1>2, FS_EmptySet
<1> QED BY <1>1, <1>4, <1>6, <1>10, <1>11

------------------------------------------------------------------------------
(* The steps of ThreadPool.                                                *)

\* What is settled leaves the pool.
LEMMA SettledLeave ==
  ASSUME PoolTyped, OpenInv, NEW S, Settle(S), HeldBy(pool') = HeldBy(pool) \ S
  PROVE  OpenInv' /\ outcome' \in [Tasks -> {"new", "open", "settled"}]
<1>1. \A t \in Tasks : outcome'[t] = IF t \in S THEN "settled" ELSE outcome[t]
  BY DEF Settle
<1>2. outcome' \in [Tasks -> {"new", "open", "settled"}]
  BY DEF Settle, PoolTyped
<1>3. \A t \in Tasks : (outcome'[t] = "open" => t \in HeldBy(pool')) /\ (outcome'[t] = "new" => t \notin HeldBy(pool'))
  BY <1>1 DEF OpenInv
<1> QED BY <1>2, <1>3 DEF OpenInv

\* dispatch keeps to the limit.
LEMMA DispatchedSize ==
  ASSUME NEW p \in Pools, NEW q \in Pools, Grown(p, q, Less(MaxThreads, Cardinality(p.workers))),
         Cardinality(p.workers \cap p.up) <= MaxThreads
  PROVE  Cardinality(q.workers \cap q.up) <= MaxThreads /\ (p.up \subseteq p.workers => q.up \subseteq q.workers)
<1> DEFINE m == Less(MaxThreads, Cardinality(p.workers))
           a == Cardinality(p.workers)
           b == Cardinality(p.workers \cap p.up)
           c == Cardinality(q.workers \cap q.up)
<1>1. a \in Nat /\ b \in Nat /\ c \in Nat
  BY ThreadsFinite DEF Pools
<1>2. b <= a
  <2>1. IsFiniteSet(p.workers)
    BY ThreadsFinite DEF Pools
  <2> QED BY <2>1, FS_Subset
<1>3. m \in Nat /\ (m = 0 \/ a + m = MaxThreads)
  BY <1>1, ThreadsAssumption DEF Less
<1>4. c <= b + m /\ (m = 0 => q.workers = p.workers /\ q.up = p.up) /\ (p.up \subseteq p.workers => q.up \subseteq q.workers)
  BY <1>3, GrownStep
<1> HIDE DEF m, a, b, c
<1>5. c <= MaxThreads
  <2>1. CASE m = 0
    BY <1>4, <2>1 DEF b, c
  <2>2. CASE a + m = MaxThreads
    BY <1>1, <1>2, <1>3, <1>4, <2>2, ThreadsAssumption
  <2> QED BY <1>3, <2>1, <2>2
<1> QED BY <1>4, <1>5 DEF c

\* A thread without its task.
LEMMA FreedStep ==
  ASSUME NEW p \in Pools, Sound(p), NEW w \in Threads,
         NEW q, q = [p EXCEPT !.task[w] = NoTask]
  PROVE  /\ q \in Pools /\ Sound(q) /\ HeldBy(q) = HeldBy(p) \ {p.task[w]}
         /\ q.task[w] = NoTask /\ q.workers = p.workers /\ q.up = p.up /\ q.ending = p.ending
         /\ q.idle = p.idle /\ q.queue = p.queue
<1>1. /\ q.task = [p.task EXCEPT ![w] = NoTask] /\ q.workers = p.workers /\ q.up = p.up
      /\ q.ending = p.ending /\ q.idle = p.idle /\ q.queue = p.queue
  BY DEF Pools
<1>2. p.task \in [Threads -> Tasks \cup {NoTask}]
  BY DEF Pools
<1>3. /\ q.task \in [Threads -> Tasks \cup {NoTask}] /\ q.task[w] = NoTask
      /\ \A v \in Threads \ {w} : q.task[v] = p.task[v]
  BY <1>1, <1>2
<1>4. q \in Pools
  <2>1. q = [p EXCEPT !.task = q.task]
    BY <1>1 DEF Pools
  <2> QED BY <1>3, <2>1 DEF Pools
<1>5. NoTask \notin Elements(p.queue)
  <2>1. p.queue \in Seq(Tasks)
    BY DEF Pools
  <2> QED BY <2>1, TasksAssumption DEF Elements
<1>6. \A v \in Threads : q.task[v] = NoTask \/ (v # w /\ q.task[v] = p.task[v])
  BY <1>3
<1>7. \A v \in Elements(p.idle) : v \in Threads
  <2>1. p.idle \in Seq(Threads)
    BY DEF Pools
  <2> QED BY <2>1 DEF Elements
<1>8. Sound(q)
  <2>1. Distinct(q.queue) /\ Distinct(q.idle)
    BY <1>1 DEF Sound
  <2>2. \A u, v \in Threads : q.task[u] = q.task[v] /\ q.task[u] # NoTask => u = v
    BY <1>6 DEF Sound
  <2>3. \A v \in Threads : q.task[v] \notin Elements(q.queue)
    BY <1>1, <1>5, <1>6 DEF Sound
  <2>4. \A v \in Elements(q.idle) : v \in q.up \cup q.ending /\ q.task[v] = NoTask
    BY <1>1, <1>6, <1>7 DEF Sound
  <2>5. \A v \in Threads : q.task[v] # NoTask => v \in q.up \cup q.ending
    BY <1>1, <1>6 DEF Sound
  <2> QED BY <2>1, <2>2, <2>3, <2>4, <2>5 DEF Sound
<1>9. HeldBy(q) \subseteq HeldBy(p) \ {p.task[w]}
  <2> SUFFICES ASSUME NEW t \in HeldBy(q) PROVE t \in HeldBy(p) /\ t # p.task[w]
    OBVIOUS
  <2>1. t \in Tasks /\ t # NoTask
    BY TasksAssumption DEF HeldBy
  <2>2. CASE t \in Elements(q.queue)
    BY <1>1, <2>1, <2>2 DEF HeldBy, Sound
  <2>3. CASE \E v \in Threads : q.task[v] = t
    <3>1. PICK v \in Threads : q.task[v] = t
      BY <2>3
    <3>2. v # w /\ p.task[v] = t
      BY <1>6, <2>1, <3>1
    <3> QED BY <2>1, <3>2 DEF HeldBy, Sound
  <2> QED BY <2>2, <2>3 DEF HeldBy
<1>10. HeldBy(p) \ {p.task[w]} \subseteq HeldBy(q)
  BY <1>1, <1>3 DEF HeldBy
<1> QED BY <1>1, <1>3, <1>4, <1>8, <1>9, <1>10

\* A thread that ends is neither idle nor has a task.
Gone(p, w, e) == [Without(p, w) EXCEPT !.up = @ \ {w}, !.ending = e]

LEMMA WithoutStep ==
  ASSUME NEW p \in Pools, Sound(p), NEW w \in Threads, NEW e \in SUBSET Threads,
         p.ending \ {w} \subseteq e,
         NEW q, q = Gone(p, w, e)
  PROVE  /\ q \in Pools /\ Sound(q) /\ HeldBy(q) = HeldBy(p) \ {p.task[w]}
         /\ q.workers = p.workers \ {w} /\ q.up = p.up \ {w} /\ q.ending = e
<1> DEFINE f == [p EXCEPT !.task[w] = NoTask]
<1>1. /\ f \in Pools /\ Sound(f) /\ HeldBy(f) = HeldBy(p) \ {p.task[w]}
      /\ f.task[w] = NoTask /\ f.workers = p.workers /\ f.up = p.up /\ f.ending = p.ending
      /\ f.idle = p.idle /\ f.queue = p.queue
  BY FreedStep
<1>2. /\ q.workers = p.workers \ {w} /\ q.up = p.up \ {w} /\ q.ending = e
      /\ q.idle = Spliced(p.idle, w) /\ q.queue = p.queue /\ q.task = f.task
  BY DEF Pools, Without, Gone
<1>3. /\ Spliced(p.idle, w) \in Seq(Threads) /\ Distinct(Spliced(p.idle, w))
      /\ Elements(Spliced(p.idle, w)) = Elements(p.idle) \ {w}
  <2>1. p.idle \in Seq(Threads) /\ Distinct(p.idle)
    BY DEF Pools, Sound
  <2> QED BY <2>1, SplicedStep
<1>4. q \in Pools
  <2>1. /\ p.workers \ {w} \in SUBSET Threads /\ p.up \ {w} \in SUBSET Threads
        /\ f.task \in [Threads -> Tasks \cup {NoTask}]
    BY <1>1 DEF Pools
  <2>2. q = [p EXCEPT !.workers = q.workers, !.up = q.up, !.ending = q.ending, !.idle = q.idle, !.task = q.task]
    BY DEF Pools, Without, Gone
  <2> QED BY <1>2, <1>3, <2>1, <2>2 DEF Pools
<1> HIDE DEF f
<1>5. Sound(q)
  <2>1. Distinct(q.queue) /\ Distinct(q.idle)
    BY <1>1, <1>2, <1>3 DEF Sound
  <2>2. \A u, v \in Threads : q.task[u] = q.task[v] /\ q.task[u] # NoTask => u = v
    BY <1>1, <1>2 DEF Sound
  <2>3. \A v \in Threads : q.task[v] \notin Elements(q.queue)
    BY <1>1, <1>2 DEF Sound
  <2>4. \A v \in Elements(q.idle) : v \in q.up \cup q.ending /\ q.task[v] = NoTask
    BY <1>1, <1>2, <1>3 DEF Sound
  <2>5. \A v \in Threads : q.task[v] # NoTask => v \in q.up \cup q.ending
    BY <1>1, <1>2 DEF Sound
  <2> QED BY <2>1, <2>2, <2>3, <2>4, <2>5 DEF Sound
<1>6. HeldBy(q) = HeldBy(f)
  BY <1>1, <1>2 DEF HeldBy
<1> QED BY <1>1, <1>2, <1>4, <1>5, <1>6

\* There is room for the threads start() spawns and for those of a dispatch.
LEMMA RoomLeft ==
  ASSUME PoolTyped, Room
  PROVE  /\ Cardinality(Unused(pool)) \in Nat /\ MinThreads <= Cardinality(Unused(pool))
         /\ Cardinality(Unused(pool)) - MinThreads >= MaxThreads
         /\ Cardinality(Unused(pool)) >= MaxThreads /\ 1 + MaxThreads <= Cardinality(Unused(pool))
<1>1. Cardinality(Unused(pool)) \in Nat
  BY ThreadsFinite DEF Unused
<1> QED BY <1>1, ThreadsAssumption DEF Room

LEMMA StartStep ==
  ASSUME PoolInv, PoolStart
  PROVE  PoolInv'
<1>1. pool' = Spawned(pool, MinThreads) /\ ~on /\ on' = TRUE /\ ~halting /\ Room
      /\ UNCHANGED <<halting, outcome, overtaken>>
  BY DEF PoolStart
<1>2. /\ pool' \in Pools /\ Sound(pool') /\ Grown(pool, pool', MinThreads)
      /\ pool'.queue = pool.queue /\ pool'.task = pool.task
  BY <1>1, RoomLeft, SpawnedStep, ThreadsAssumption DEF PoolInv, PoolTyped
<1>3. HeldBy(pool') = HeldBy(pool)
  BY <1>2 DEF HeldBy
<1>4. Cardinality(pool.workers \cap pool.up) = 0
  BY <1>1, FS_EmptySet DEF PoolInv, SizeInv
<1>5. /\ Cardinality(pool'.workers \cap pool'.up) <= MinThreads
      /\ pool.up \subseteq pool.workers => pool'.up \subseteq pool'.workers
  BY <1>2, <1>4, GrownStep, ThreadsAssumption DEF PoolInv, PoolTyped
<1>6. Cardinality(pool'.workers \cap pool'.up) \in Nat
  BY <1>2, ThreadsFinite DEF Pools
<1>7. Cardinality(pool'.workers \cap pool'.up) <= MaxThreads
  BY <1>5, <1>6, ThreadsAssumption
<1> QED BY <1>1, <1>2, <1>3, <1>5, <1>7 DEF PoolInv, PoolTyped, OpenInv, SizeInv, StopInv

\* The pool that run() finds or starts, with its task in the queue.
LEMMA QueuedStep ==
  ASSUME PoolInv, Room, NEW t \in Tasks, outcome[t] = "new",
         NEW s, s = IF on THEN pool ELSE Spawned(pool, MinThreads),
         NEW q, q = [s EXCEPT !.queue = Append(@, t)]
  PROVE  /\ q \in Pools /\ Sound(q) /\ HeldBy(q) = HeldBy(pool) \cup {t}
         /\ Cardinality(Unused(q)) >= MaxThreads
         /\ Cardinality(q.workers \cap q.up) <= MaxThreads
         /\ pool.up \subseteq pool.workers => q.up \subseteq q.workers
<1>1. /\ s \in Pools /\ Sound(s) /\ s.queue = pool.queue /\ s.task = pool.task
      /\ Cardinality(Unused(s)) >= MaxThreads
      /\ Cardinality(s.workers \cap s.up) <= MaxThreads
      /\ pool.up \subseteq pool.workers => s.up \subseteq s.workers
  <2>1. CASE on
    BY <2>1, RoomLeft DEF PoolInv, PoolTyped, SizeInv
  <2>2. CASE ~on
    <3>1. /\ s \in Pools /\ Sound(s) /\ Grown(pool, s, MinThreads)
          /\ s.queue = pool.queue /\ s.task = pool.task
      BY <2>2, RoomLeft, SpawnedStep, ThreadsAssumption DEF PoolInv, PoolTyped
    <3>2. Cardinality(pool.workers \cap pool.up) = 0
      BY <2>2, FS_EmptySet DEF PoolInv, SizeInv
    <3>3. /\ Cardinality(Unused(s)) \in Nat
          /\ Cardinality(Unused(s)) >= Cardinality(Unused(pool)) - MinThreads
          /\ Cardinality(s.workers \cap s.up) <= MinThreads
          /\ pool.up \subseteq pool.workers => s.up \subseteq s.workers
      <4>1. /\ Cardinality(Unused(s)) \in Nat
            /\ Cardinality(Unused(s)) >= Cardinality(Unused(pool)) - MinThreads
            /\ Cardinality(s.workers \cap s.up) <= Cardinality(pool.workers \cap pool.up) + MinThreads
            /\ pool.up \subseteq pool.workers => s.up \subseteq s.workers
        BY <3>1, GrownStep, ThreadsAssumption DEF PoolInv, PoolTyped
      <4>2. Cardinality(pool.workers \cap pool.up) + MinThreads = MinThreads
        BY <3>2, ThreadsAssumption
      <4> QED BY <4>1, <4>2
    <3>4. Cardinality(s.workers \cap s.up) \in Nat
      BY <3>1, ThreadsFinite DEF Pools
    <3>5. Cardinality(Unused(s)) >= MaxThreads /\ Cardinality(s.workers \cap s.up) <= MaxThreads
      BY <3>3, <3>4, RoomLeft, ThreadsAssumption DEF PoolInv
    <3> QED BY <3>1, <3>3, <3>5
  <2> QED BY <2>1, <2>2
<1>2. t \notin HeldBy(pool)
  BY DEF PoolInv, OpenInv
<1>3. t \notin Elements(s.queue) /\ \A w \in Threads : s.task[w] # t
  BY <1>1, <1>2 DEF HeldBy
<1>4. /\ q.queue = Append(s.queue, t) /\ q.task = s.task /\ q.idle = s.idle
      /\ q.workers = s.workers /\ q.up = s.up /\ q.ending = s.ending
  BY <1>1 DEF Pools
<1>5. /\ q.queue \in Seq(Tasks) /\ Distinct(q.queue) /\ Elements(q.queue) = Elements(s.queue) \cup {t}
  <2>1. s.queue \in Seq(Tasks) /\ Distinct(s.queue)
    BY <1>1 DEF Pools, Sound
  <2>2. /\ Append(s.queue, t) \in Seq(Tasks) /\ Distinct(Append(s.queue, t))
        /\ Elements(Append(s.queue, t)) = Elements(s.queue) \cup {t}
    BY <1>3, <2>1, AppendStep
  <2> QED BY <1>4, <2>2, Zenon
<1>6. q \in Pools
  <2>1. q = [s EXCEPT !.queue = q.queue]
    BY <1>1, <1>4 DEF Pools
  <2> QED BY <1>1, <1>5, <2>1 DEF Pools
<1>7. Sound(q)
  BY <1>1, <1>3, <1>4, <1>5 DEF Sound
<1>8. HeldBy(q) = HeldBy(pool) \cup {t}
  BY <1>1, <1>4, <1>5 DEF HeldBy
<1>9. Unused(q) = Unused(s)
  BY <1>4 DEF Unused
<1> QED BY <1>1, <1>4, <1>6, <1>7, <1>8, <1>9

LEMMA RunKeeps ==
  ASSUME PoolInv, NEW t \in Tasks, PoolRun(t)
  PROVE  PoolInv'
<1> DEFINE s == IF on THEN pool ELSE Spawned(pool, MinThreads)
           q == [s EXCEPT !.queue = Append(@, t)]
<1>1. /\ pool' = Dispatched(q) /\ Room /\ outcome[t] = "new"
      /\ outcome' = [outcome EXCEPT ![t] = IF Refused(q) = {} THEN "open" ELSE "settled"]
      /\ on' = TRUE /\ overtaken' = (overtaken \/ halting) /\ halting' = halting
  BY DEF PoolRun
<1>2. /\ q \in Pools /\ Sound(q) /\ HeldBy(q) = HeldBy(pool) \cup {t}
      /\ Cardinality(Unused(q)) >= MaxThreads
      /\ Cardinality(q.workers \cap q.up) <= MaxThreads
      /\ pool.up \subseteq pool.workers => q.up \subseteq q.workers
  BY <1>1, QueuedStep
<1> HIDE DEF q
<1>3. /\ pool' \in Pools /\ Sound(pool') /\ HeldBy(pool') = HeldBy(q)
      /\ Grown(q, pool', Less(MaxThreads, Cardinality(q.workers)))
  BY <1>1, <1>2, DispatchedStep
<1>4. /\ Cardinality(pool'.workers \cap pool'.up) <= MaxThreads
      /\ q.up \subseteq q.workers => pool'.up \subseteq pool'.workers
  BY <1>2, <1>3, DispatchedSize
<1>5. /\ outcome' \in [Tasks -> {"new", "open", "settled"}] /\ outcome'[t] # "new"
      /\ \A u \in Tasks \ {t} : outcome'[u] = outcome[u]
  BY <1>1 DEF PoolInv, PoolTyped
<1>6. OpenInv'
  BY <1>2, <1>3, <1>5 DEF PoolInv, OpenInv
<1>7. PoolTyped'
  BY <1>1, <1>3, <1>5 DEF PoolInv, PoolTyped
<1>8. SizeInv' /\ StopInv'
  BY <1>1, <1>2, <1>4 DEF PoolInv, SizeInv, StopInv
<1> QED BY <1>3, <1>6, <1>7, <1>8 DEF PoolInv

LEMMA StopKeeps ==
  ASSUME PoolInv, PoolStop
  PROVE  PoolInv'
<1> DEFINE S == Elements(pool.queue) \cup {pool.task[w] : w \in Threads}
           none == [w \in Threads |-> NoTask]
<1>1. /\ Settle(S) /\ on' = FALSE /\ halting' = TRUE /\ overtaken' = overtaken
      /\ pool' = [pool EXCEPT !.queue = <<>>, !.task = none,
                              !.up = @ \ pool.workers, !.ending = @ \cup pool.workers]
  BY DEF PoolStop
<1>2. /\ pool'.queue = <<>> /\ pool'.task = none /\ pool'.idle = pool.idle
      /\ pool'.workers = pool.workers /\ pool'.up = pool.up \ pool.workers
      /\ pool'.ending = pool.ending \cup pool.workers
  BY <1>1 DEF PoolInv, PoolTyped, Pools
<1>3. Elements(pool'.queue) = {} /\ Distinct(pool'.queue) /\ pool'.queue \in Seq(Tasks)
  BY <1>2 DEF Elements, Distinct
<1>4. pool' \in Pools
  <2>1. none \in [Threads -> Tasks \cup {NoTask}] /\ <<>> \in Seq(Tasks)
    OBVIOUS
  <2> HIDE DEF none
  <2> QED BY <1>1, <2>1 DEF PoolInv, PoolTyped, Pools
<1>5. \A w \in Threads : pool'.task[w] = NoTask
  BY <1>2
<1>6. \A w \in Elements(pool.idle) : w \in Threads
  <2>1. pool.idle \in Seq(Threads)
    BY DEF PoolInv, PoolTyped, Pools
  <2> QED BY <2>1 DEF Elements
<1>7. Sound(pool')
  <2>1. Distinct(pool'.idle) /\ \A w \in Elements(pool'.idle) : w \in pool'.up \cup pool'.ending
    BY <1>2 DEF PoolInv, Sound
  <2>2. \A w \in Elements(pool'.idle) : pool'.task[w] = NoTask
    BY <1>2, <1>5, <1>6
  <2> QED BY <1>3, <1>5, <2>1, <2>2 DEF Sound
<1>8. HeldBy(pool') = {} /\ HeldBy(pool) \ S = {}
  BY <1>3, <1>5, TasksAssumption DEF HeldBy
<1> HIDE DEF S
<1>9. OpenInv' /\ outcome' \in [Tasks -> {"new", "open", "settled"}]
  BY <1>1, <1>8, SettledLeave DEF PoolInv
<1>10. pool'.workers \cap pool'.up = {}
  BY <1>2
<1>11. SizeInv'
  <2>1. Cardinality(pool'.workers \cap pool'.up) = 0
    BY <1>10, FS_EmptySet
  <2> QED BY <1>10, <2>1, ThreadsAssumption DEF SizeInv
<1>12. StopInv'
  BY <1>1, <1>2 DEF PoolInv, StopInv
<1> QED BY <1>1, <1>4, <1>7, <1>9, <1>11, <1>12 DEF PoolInv, PoolTyped

LEMMA StopReturnsKeeps ==
  ASSUME PoolInv, StopReturns
  PROVE  PoolInv'
<1>1. /\ pool' = [pool EXCEPT !.workers = {}, !.idle = <<>>]
      /\ halting /\ halting' = FALSE /\ UNCHANGED <<on, outcome, overtaken>>
  BY DEF StopReturns
<1>2. /\ pool'.workers = {} /\ pool'.idle = <<>> /\ pool'.queue = pool.queue /\ pool'.task = pool.task
      /\ pool'.up = pool.up /\ pool'.ending = pool.ending
  BY <1>1 DEF PoolInv, PoolTyped, Pools
<1>3. Elements(pool'.idle) = {} /\ Distinct(pool'.idle)
  BY <1>2 DEF Elements, Distinct
<1>4. pool' \in Pools
  <2>1. <<>> \in Seq(Threads) /\ {} \in SUBSET Threads
    OBVIOUS
  <2> QED BY <1>1, <2>1 DEF PoolInv, PoolTyped, Pools
<1>5. Sound(pool') /\ HeldBy(pool') = HeldBy(pool)
  BY <1>2, <1>3 DEF PoolInv, Sound, HeldBy
<1>6. SizeInv'
  <2>1. pool'.workers \cap pool'.up = {}
    BY <1>2
  <2>2. Cardinality(pool'.workers \cap pool'.up) = 0
    BY <2>1, FS_EmptySet
  <2> QED BY <2>1, <2>2, ThreadsAssumption DEF SizeInv
<1>7. StopInv'
  BY <1>1, <1>2 DEF PoolInv, StopInv
<1> QED BY <1>1, <1>4, <1>5, <1>6, <1>7 DEF PoolInv, PoolTyped, OpenInv

LEMMA ReplyKeeps ==
  ASSUME PoolInv, NEW w \in Threads, Reply(w)
  PROVE  PoolInv'
<1> DEFINE p == [pool EXCEPT !.task[w] = NoTask]
           q == [p EXCEPT !.idle = Append(@, w)]
<1>1. /\ w \in pool.up /\ pool.task[w] \in Tasks /\ Room /\ Settle({pool.task[w]})
      /\ pool' = IF on THEN Dispatched(q) ELSE p
      /\ UNCHANGED <<on, halting, overtaken>>
  BY DEF Reply
<1>2. /\ p \in Pools /\ Sound(p) /\ HeldBy(p) = HeldBy(pool) \ {pool.task[w]}
      /\ p.task[w] = NoTask /\ p.workers = pool.workers /\ p.up = pool.up /\ p.ending = pool.ending
      /\ p.idle = pool.idle /\ p.queue = pool.queue
  <2>1. pool \in Pools /\ Sound(pool)
    BY DEF PoolInv, PoolTyped
  <2> QED BY <2>1, FreedStep
<1>3. w \notin Elements(p.idle)
  BY <1>1, <1>2, TasksAssumption DEF PoolInv, Sound
<1> HIDE DEF p
<1>4. /\ q.idle = Append(p.idle, w) /\ q.task = p.task /\ q.queue = p.queue
      /\ q.workers = p.workers /\ q.up = p.up /\ q.ending = p.ending
  BY <1>2 DEF Pools
<1>5. /\ q.idle \in Seq(Threads) /\ Distinct(q.idle) /\ Elements(q.idle) = Elements(p.idle) \cup {w}
  <2>1. p.idle \in Seq(Threads) /\ Distinct(p.idle)
    BY <1>2 DEF Pools, Sound
  <2>2. /\ Append(p.idle, w) \in Seq(Threads) /\ Distinct(Append(p.idle, w))
        /\ Elements(Append(p.idle, w)) = Elements(p.idle) \cup {w}
    BY <1>3, <2>1, AppendStep
  <2> QED BY <1>4, <2>2, Zenon
<1>6. q \in Pools
  <2>1. q = [p EXCEPT !.idle = q.idle]
    BY <1>2, <1>4 DEF Pools
  <2> QED BY <1>2, <1>5, <2>1 DEF Pools
<1>7. Sound(q) /\ HeldBy(q) = HeldBy(p)
  BY <1>1, <1>2, <1>4, <1>5 DEF Sound, HeldBy
<1>8. Cardinality(Unused(q)) >= MaxThreads
  <2>1. Unused(q) = Unused(pool)
    BY <1>2, <1>4 DEF Unused
  <2> QED BY <1>1, <2>1, RoomLeft DEF PoolInv
<1>9. Cardinality(q.workers \cap q.up) <= MaxThreads
  BY <1>2, <1>4 DEF PoolInv, SizeInv
<1> HIDE DEF q
<1>10. /\ pool' \in Pools /\ Sound(pool') /\ HeldBy(pool') = HeldBy(pool) \ {pool.task[w]}
       /\ Cardinality(pool'.workers \cap pool'.up) <= MaxThreads
       /\ pool.up \subseteq pool.workers => pool'.up \subseteq pool'.workers
       /\ ~on => pool'.workers = pool.workers /\ pool'.up = pool.up
  <2>1. CASE on
    <3>1. /\ pool' \in Pools /\ Sound(pool') /\ HeldBy(pool') = HeldBy(q)
          /\ Grown(q, pool', Less(MaxThreads, Cardinality(q.workers)))
      BY <1>1, <1>6, <1>7, <1>8, <2>1, DispatchedStep
    <3>2. /\ Cardinality(pool'.workers \cap pool'.up) <= MaxThreads
          /\ q.up \subseteq q.workers => pool'.up \subseteq pool'.workers
      BY <1>6, <1>9, <3>1, DispatchedSize
    <3> QED BY <1>2, <1>4, <1>7, <2>1, <3>1, <3>2
  <2>2. CASE ~on
    BY <1>1, <1>2, <2>2 DEF PoolInv, SizeInv
  <2> QED BY <2>1, <2>2
<1>11. OpenInv' /\ outcome' \in [Tasks -> {"new", "open", "settled"}]
  BY <1>1, <1>10, SettledLeave DEF PoolInv
<1>12. SizeInv' /\ StopInv'
  BY <1>1, <1>10 DEF PoolInv, SizeInv, StopInv
<1> QED BY <1>1, <1>10, <1>11, <1>12 DEF PoolInv, PoolTyped

\* Fewer threads that are up are within the limit too.
LEMMA FewerThreads ==
  ASSUME NEW p \in Pools, NEW q \in Pools, q.workers \subseteq p.workers, q.up \subseteq p.up
  PROVE  Cardinality(q.workers \cap q.up) <= Cardinality(p.workers \cap p.up)
<1>1. IsFiniteSet(p.workers \cap p.up)
  BY ThreadsFinite DEF Pools
<1>2. q.workers \cap q.up \in SUBSET (p.workers \cap p.up)
  OBVIOUS
<1> QED BY <1>1, <1>2, FS_Subset

\* A step that takes threads away and settles what they had.
LEMMA ShrinkKeeps ==
  ASSUME PoolInv, NEW S, Settle(S), UNCHANGED <<on, halting, overtaken>>,
         pool' \in Pools, Sound(pool'), HeldBy(pool') = HeldBy(pool) \ S,
         pool'.workers \subseteq pool.workers, pool'.up \subseteq pool.up,
         pool.up \subseteq pool.workers => pool'.up \subseteq pool'.workers
  PROVE  PoolInv'
<1>1. OpenInv' /\ outcome' \in [Tasks -> {"new", "open", "settled"}]
  BY SettledLeave DEF PoolInv
<1>2. SizeInv'
  <2>1. Cardinality(pool'.workers \cap pool'.up) <= Cardinality(pool.workers \cap pool.up)
    BY FewerThreads DEF PoolInv, PoolTyped
  <2>2. Cardinality(pool'.workers \cap pool'.up) \in Nat /\ Cardinality(pool.workers \cap pool.up) \in Nat
    BY ThreadsFinite DEF PoolInv, PoolTyped, Pools
  <2>3. Cardinality(pool'.workers \cap pool'.up) <= MaxThreads
    BY <2>1, <2>2, ThreadsAssumption DEF PoolInv, SizeInv
  <2> QED BY <2>3 DEF PoolInv, SizeInv
<1>3. StopInv'
  BY DEF PoolInv, StopInv
<1> QED BY <1>1, <1>2, <1>3 DEF PoolInv, PoolTyped

LEMMA ThreadErrsKeeps ==
  ASSUME PoolInv, NEW w \in Threads, ThreadErrs(w)
  PROVE  PoolInv'
<1> DEFINE e == pool.ending \cup {w}
<1>1. /\ Settle({pool.task[w]}) /\ UNCHANGED <<on, halting, overtaken>>
      /\ pool' = [Without(pool, w) EXCEPT !.up = @ \ {w}, !.ending = @ \cup {w}]
  BY DEF ThreadErrs
<1>2. pool' = Gone(pool, w, e)
  BY <1>1 DEF PoolInv, PoolTyped, Pools, Without, Gone
<1>3. e \in SUBSET Threads /\ pool.ending \ {w} \subseteq e
  BY DEF PoolInv, PoolTyped, Pools
<1> HIDE DEF e
<1>4. /\ pool' \in Pools /\ Sound(pool') /\ HeldBy(pool') = HeldBy(pool) \ {pool.task[w]}
      /\ pool'.workers = pool.workers \ {w} /\ pool'.up = pool.up \ {w}
  <2>1. pool \in Pools /\ Sound(pool)
    BY DEF PoolInv, PoolTyped
  <2> HIDE DEF e
  <2> QED BY <1>2, <1>3, <2>1, WithoutStep
<1> QED BY <1>1, <1>4, ShrinkKeeps

LEMMA ThreadExitsKeeps ==
  ASSUME PoolInv, NEW w \in Threads, ThreadExits(w)
  PROVE  PoolInv'
<1> DEFINE e == pool.ending \ {w}
           l == [Without(pool, w) EXCEPT !.up = @ \ {w}, !.ending = @ \ {w}]
           p == IF Cardinality(l.workers) < MinThreads THEN Spawned(l, 1) ELSE l
<1>1. /\ Settle({pool.task[w]}) /\ UNCHANGED <<on, halting, overtaken>> /\ Room
      /\ pool' = IF on THEN Dispatched(p) ELSE l
  BY DEF ThreadExits
<1>2. l = Gone(pool, w, e)
  BY DEF PoolInv, PoolTyped, Pools, Without, Gone
<1>3. e \in SUBSET Threads /\ pool.ending \ {w} \subseteq e
  BY DEF PoolInv, PoolTyped, Pools
<1> HIDE DEF l
<1>4. /\ l \in Pools /\ Sound(l) /\ HeldBy(l) = HeldBy(pool) \ {pool.task[w]}
      /\ l.workers = pool.workers \ {w} /\ l.up = pool.up \ {w} /\ l.ending = e
  <2>1. pool \in Pools /\ Sound(pool)
    BY DEF PoolInv, PoolTyped
  <2> HIDE DEF e
  <2> QED BY <1>2, <1>3, <2>1, WithoutStep
<1>5. CASE ~on
  BY <1>1, <1>4, <1>5, ShrinkKeeps
<1>6. CASE on
  <2>1. /\ Cardinality(Unused(l)) \in Nat /\ 1 + MaxThreads <= Cardinality(Unused(l))
    <3>1. Unused(pool) \subseteq Unused(l) /\ IsFiniteSet(Unused(l)) /\ Cardinality(Unused(l)) \in Nat
      BY <1>4, ThreadsFinite DEF Unused
    <3>2. Cardinality(Unused(pool)) <= Cardinality(Unused(l))
      BY <3>1, FS_Subset
    <3> QED BY <1>1, <3>1, <3>2, RoomLeft, ThreadsAssumption DEF PoolInv
  <2>2. /\ Cardinality(l.workers \cap l.up) \in Nat /\ Cardinality(l.workers) \in Nat
        /\ IsFiniteSet(l.workers)
    BY <1>4, ThreadsFinite DEF Pools
  <2>3. Cardinality(l.workers \cap l.up) <= MaxThreads
    <3>1. Cardinality(l.workers \cap l.up) <= Cardinality(pool.workers \cap pool.up)
      BY <1>4, FewerThreads DEF PoolInv, PoolTyped
    <3>2. Cardinality(pool.workers \cap pool.up) \in Nat
      BY ThreadsFinite DEF PoolInv, PoolTyped, Pools
    <3> QED BY <2>2, <3>1, <3>2, ThreadsAssumption DEF PoolInv, SizeInv
  <2>4. /\ p \in Pools /\ Sound(p) /\ HeldBy(p) = HeldBy(l)
        /\ Cardinality(Unused(p)) >= MaxThreads
        /\ Cardinality(p.workers \cap p.up) <= MaxThreads
        /\ l.up \subseteq l.workers => p.up \subseteq p.workers
    <3>1. CASE Cardinality(l.workers) < MinThreads
      <4>1. p = Spawned(l, 1) /\ 1 \in Nat /\ 1 <= Cardinality(Unused(l))
        BY <2>1, <3>1, ThreadsAssumption
      <4> HIDE DEF p
      <4>2. /\ p \in Pools /\ Sound(p) /\ Grown(l, p, 1) /\ p.queue = l.queue /\ p.task = l.task
        BY <1>4, <4>1, SpawnedStep
      <4>3. /\ Cardinality(Unused(p)) \in Nat
            /\ Cardinality(Unused(p)) >= Cardinality(Unused(l)) - 1
            /\ Cardinality(p.workers \cap p.up) <= Cardinality(l.workers \cap l.up) + 1
            /\ l.up \subseteq l.workers => p.up \subseteq p.workers
        BY <1>4, <4>1, <4>2, GrownStep
      <4>4. Cardinality(l.workers \cap l.up) <= Cardinality(l.workers)
        BY <2>2, FS_Subset
      <4>5. Cardinality(p.workers \cap p.up) \in Nat
        BY <4>2, ThreadsFinite DEF Pools
      <4>6. Cardinality(p.workers \cap p.up) <= MaxThreads
        BY <2>2, <3>1, <4>3, <4>4, <4>5, ThreadsAssumption
      <4>7. Cardinality(Unused(p)) >= MaxThreads
        BY <2>1, <4>3, ThreadsAssumption
      <4>8. HeldBy(p) = HeldBy(l)
        BY <4>2 DEF HeldBy
      <4> QED BY <4>2, <4>3, <4>6, <4>7, <4>8
    <3>2. CASE ~(Cardinality(l.workers) < MinThreads)
      <4>1. p = l
        BY <3>2
      <4>2. Cardinality(Unused(l)) >= MaxThreads
        BY <2>1, ThreadsAssumption
      <4> HIDE DEF p
      <4> QED BY <1>4, <2>3, <4>1, <4>2
    <3> QED BY <3>1, <3>2
  <2> HIDE DEF p
  <2>5. pool' = Dispatched(p)
    BY <1>1, <1>6
  <2>6. /\ pool' \in Pools /\ Sound(pool') /\ HeldBy(pool') = HeldBy(p)
        /\ Grown(p, pool', Less(MaxThreads, Cardinality(p.workers)))
    BY <2>4, <2>5, DispatchedStep
  <2>7. /\ Cardinality(pool'.workers \cap pool'.up) <= MaxThreads
        /\ p.up \subseteq p.workers => pool'.up \subseteq pool'.workers
    BY <2>4, <2>6, DispatchedSize
  <2>8. HeldBy(pool') = HeldBy(pool) \ {pool.task[w]}
    BY <1>4, <2>4, <2>6
  <2>9. OpenInv' /\ outcome' \in [Tasks -> {"new", "open", "settled"}]
    BY <1>1, <2>8, SettledLeave DEF PoolInv
  <2>10. pool.up \subseteq pool.workers => pool'.up \subseteq pool'.workers
    BY <1>4, <2>4, <2>7
  <2>11. SizeInv' /\ StopInv'
    BY <1>1, <1>6, <2>7, <2>10 DEF PoolInv, SizeInv, StopInv
  <2> QED BY <1>1, <2>6, <2>9, <2>11 DEF PoolInv, PoolTyped
<1> QED BY <1>5, <1>6

LEMMA TimesOutKeeps ==
  ASSUME PoolInv, NEW t \in Tasks, TimesOut(t)
  PROVE  PoolInv'
<1>1. Settle({t}) /\ UNCHANGED <<on, halting, overtaken>> /\ pool \in Pools /\ Sound(pool)
  BY DEF TimesOut, PoolInv, PoolTyped
<1>2. CASE t \in Elements(pool.queue) /\ pool' = [pool EXCEPT !.queue = Spliced(@, t)]
  <2>1. /\ pool'.queue = Spliced(pool.queue, t) /\ pool'.task = pool.task /\ pool'.idle = pool.idle
        /\ pool'.workers = pool.workers /\ pool'.up = pool.up /\ pool'.ending = pool.ending
    BY <1>1, <1>2 DEF Pools
  <2>2. /\ Spliced(pool.queue, t) \in Seq(Tasks) /\ Distinct(Spliced(pool.queue, t))
        /\ Elements(Spliced(pool.queue, t)) = Elements(pool.queue) \ {t}
    <3>1. pool.queue \in Seq(Tasks) /\ Distinct(pool.queue)
      BY <1>1 DEF Pools, Sound
    <3> QED BY <3>1, SplicedStep
  <2>3. pool' \in Pools
    BY <1>1, <1>2, <2>2 DEF Pools
  <2>4. Sound(pool')
    BY <1>1, <2>1, <2>2 DEF Sound
  <2>5. \A w \in Threads : pool.task[w] # t
    BY <1>1, <1>2 DEF Sound
  <2>6. HeldBy(pool') = HeldBy(pool) \ {t}
    BY <2>1, <2>2, <2>5 DEF HeldBy
  <2> QED BY <1>1, <2>1, <2>3, <2>4, <2>6, ShrinkKeeps
<1>3. ASSUME NEW w \in Threads, pool.task[w] = t,
             pool' = [pool EXCEPT !.task[w] = NoTask, !.up = @ \ {w}, !.ending = @ \cup {w}]
      PROVE  PoolInv'
  <2> DEFINE f == [pool EXCEPT !.task[w] = NoTask]
  <2>1. /\ f \in Pools /\ Sound(f) /\ HeldBy(f) = HeldBy(pool) \ {t}
        /\ f.workers = pool.workers /\ f.up = pool.up /\ f.ending = pool.ending
        /\ f.idle = pool.idle /\ f.queue = pool.queue
    BY <1>1, <1>3, FreedStep
  <2>2. pool' = [f EXCEPT !.up = @ \ {w}, !.ending = @ \cup {w}]
    BY <1>1, <1>3 DEF Pools
  <2> HIDE DEF f
  <2>3. /\ pool'.queue = f.queue /\ pool'.task = f.task /\ pool'.idle = f.idle
        /\ pool'.workers = f.workers /\ pool'.up = f.up \ {w} /\ pool'.ending = f.ending \cup {w}
    BY <2>1, <2>2 DEF Pools
  <2>4. pool' \in Pools
    BY <2>1, <2>2 DEF Pools
  <2>5. Sound(pool') /\ HeldBy(pool') = HeldBy(f)
    BY <2>1, <2>3 DEF Sound, HeldBy
  <2> QED
    <3>1. /\ HeldBy(pool') = HeldBy(pool) \ {t} /\ pool'.workers \subseteq pool.workers
          /\ pool'.up \subseteq pool.up /\ pool.up \subseteq pool.workers => pool'.up \subseteq pool'.workers
      BY <2>1, <2>3, <2>5
    <3> QED BY <1>1, <2>1, <2>3, <2>4, <2>5, <3>1, ShrinkKeeps
<1> QED BY <1>2, <1>3 DEF TimesOut

\* A pool begins with nothing.
LEMMA PoolBegins == PoolInit => PoolInv
<1> SUFFICES ASSUME PoolInit PROVE PoolInv
  OBVIOUS
<1>1. /\ pool = [workers |-> {}, idle |-> <<>>, queue |-> <<>>,
                 task |-> [w \in Threads |-> NoTask], up |-> {}, ending |-> {}]
      /\ on = FALSE /\ halting = FALSE /\ overtaken = FALSE /\ outcome = [t \in Tasks |-> "new"]
  BY DEF PoolInit
<1>2. PoolTyped
  <2>1. /\ <<>> \in Seq(Tasks) /\ <<>> \in Seq(Threads)
        /\ [w \in Threads |-> NoTask] \in [Threads -> Tasks \cup {NoTask}]
    OBVIOUS
  <2>2. pool \in Pools
    BY <1>1, <2>1 DEF Pools
  <2> QED BY <1>1, <2>2 DEF PoolTyped
<1>3. /\ Elements(pool.queue) = {} /\ Elements(pool.idle) = {} /\ \A w \in Threads : pool.task[w] = NoTask
      /\ Distinct(pool.queue) /\ Distinct(pool.idle)
  BY <1>1 DEF Elements, Distinct
<1>4. Sound(pool)
  BY <1>3 DEF Sound
<1>5. OpenInv
  BY <1>1, <1>3, TasksAssumption DEF OpenInv, HeldBy
<1>6. SizeInv
  <2>1. pool.workers \cap pool.up = {} /\ Cardinality({}) = 0
    BY <1>1, FS_EmptySet
  <2> QED BY <2>1, ThreadsAssumption DEF SizeInv
<1>7. StopInv
  BY <1>1 DEF StopInv
<1> QED BY <1>2, <1>4, <1>5, <1>6, <1>7 DEF PoolInv

\* Every call and every event of a thread keeps the invariant
\* (worker.ts:128-292).
THEOREM PoolInvariance == PoolSpec => []PoolInv
<1>1. PoolInv /\ [PoolNext]_poolVars => PoolInv'
  <2> SUFFICES ASSUME PoolInv, [PoolNext]_poolVars PROVE PoolInv'
    OBVIOUS
  <2>1. CASE \E t \in Tasks : PoolRun(t) \/ TimesOut(t)
    BY <2>1, RunKeeps, TimesOutKeeps
  <2>2. CASE \E w \in Threads : Reply(w) \/ ThreadErrs(w) \/ ThreadExits(w)
    BY <2>2, ReplyKeeps, ThreadErrsKeeps, ThreadExitsKeeps
  <2>3. CASE UNCHANGED poolVars
    BY <2>3 DEF poolVars, PoolInv, PoolTyped, OpenInv, SizeInv, StopInv
  <2> QED BY <2>1, <2>2, <2>3, StartStep, StopKeeps, StopReturnsKeeps DEF PoolNext
<1> QED BY <1>1, PoolBegins, PTL DEF PoolSpec

\* At most one number has a property that tells numbers apart.
LEMMA AtMostOne ==
  ASSUME NEW S, \A i, j \in S : i = j
  PROVE  (S = {} /\ Cardinality(S) = 0) \/ (S # {} /\ Cardinality(S) = 1)
<1>1. CASE S = {}
  BY <1>1, FS_EmptySet
<1>2. CASE S # {}
  <2>1. PICK x \in S : TRUE
    BY <1>2
  <2>2. S = {x}
    BY <2>1
  <2> QED BY <1>2, <2>2, FS_Singleton
<1> QED BY <1>1, <1>2

\* A task whose caller waits is in one place, a thread has one task or is idle
\* once, and the limit holds, for any tasks, threads, failures and stops
\* (worker.ts:137-292).
THEOREM TasksStayHeld == PoolSpec => []EveryTaskIsHeld
<1>1. PoolInv => EveryTaskIsHeld
  <2> SUFFICES ASSUME PoolInv PROVE EveryTaskIsHeld
    OBVIOUS
  <2>1. ASSUME NEW t \in Tasks, outcome[t] = "open"
        PROVE  Cardinality({i \in DOMAIN pool.queue : pool.queue[i] = t})
                 + Cardinality({w \in Threads : pool.task[w] = t}) = 1
    <3> DEFINE I == {i \in DOMAIN pool.queue : pool.queue[i] = t}
               W == {w \in Threads : pool.task[w] = t}
    <3>1. t # NoTask
      BY TasksAssumption
    <3>2. (\A i, j \in I : i = j) /\ (\A v, w \in W : v = w)
      BY <3>1 DEF PoolInv, Sound, Distinct
    <3>3. I # {} \/ W # {}
      BY <2>1 DEF PoolInv, OpenInv, HeldBy, Elements
    <3>4. I = {} \/ W = {}
      BY DEF PoolInv, Sound, Elements
    <3> HIDE DEF I, W
    <3>5. (I = {} /\ Cardinality(I) = 0) \/ (I # {} /\ Cardinality(I) = 1)
      BY <3>2, AtMostOne
    <3>6. (W = {} /\ Cardinality(W) = 0) \/ (W # {} /\ Cardinality(W) = 1)
      BY <3>2, AtMostOne
    <3>7. Cardinality(I) + Cardinality(W) = 1
      BY <3>3, <3>4, <3>5, <3>6
    <3> QED BY <3>7 DEF I, W
  <2>2. ASSUME NEW w \in pool.up
        PROVE  Cardinality({i \in DOMAIN pool.idle : pool.idle[i] = w})
                 + (IF pool.task[w] = NoTask THEN 0 ELSE 1) <= 1
    <3> DEFINE I == {i \in DOMAIN pool.idle : pool.idle[i] = w}
    <3>1. \A i, j \in I : i = j
      BY DEF PoolInv, Sound, Distinct
    <3>2. I # {} => pool.task[w] = NoTask
      BY DEF PoolInv, Sound, Elements
    <3> HIDE DEF I
    <3>3. (I = {} /\ Cardinality(I) = 0) \/ (I # {} /\ Cardinality(I) = 1)
      BY <3>1, AtMostOne
    <3>4. Cardinality(I) + (IF pool.task[w] = NoTask THEN 0 ELSE 1) <= 1
      BY <3>2, <3>3
    <3> QED BY <3>4 DEF I
  <2>3. Cardinality(pool.workers \cap pool.up) <= MaxThreads
    BY DEF PoolInv, SizeInv
  <2>4. ~on /\ ~halting /\ ~overtaken => pool.up = {}
    BY DEF PoolInv, StopInv
  <2> QED BY <2>1, <2>2, <2>3, <2>4 DEF EveryTaskIsHeld
<1> QED BY <1>1, PoolInvariance, PTL
==============================================================================
