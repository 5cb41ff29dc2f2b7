--------------------------- MODULE MC_Application ---------------------------
(***************************************************************************)
(* Six components that share no state: one of them runs in each            *)
(* behaviour, so that a single instance checks them all.  Fairness is      *)
(* stated for the component that runs.                                     *)
(***************************************************************************)
EXTENDS HotRuntime, ReconciliationJob, QueryCache, CampaignPlanner, ManagedApp,
        ThreadPool

VARIABLE part   \* the component that runs

Init ==
  /\ HotInit /\ JobInit /\ CacheInit /\ CampaignInit /\ ManagedInit /\ PoolInit
  /\ part \in {"server", "job", "cache", "campaign", "managed", "threads"}
  /\ part # "managed" => policy = "never"

vars == <<part, hotVars, jobVars, cacheVars, campaignVars, managedVars, poolVars>>

CampaignRuns == part = "campaign" /\ UNCHANGED <<part, hotVars, jobVars, cacheVars, managedVars, poolVars>>
AppRuns == part = "managed" /\ UNCHANGED <<part, hotVars, jobVars, cacheVars, campaignVars, poolVars>>
ThreadsRun ==
  part = "threads" /\ UNCHANGED <<part, hotVars, jobVars, cacheVars, campaignVars, managedVars>>

Next ==
  \/ part = "server" /\ HotNext
     /\ UNCHANGED <<part, jobVars, cacheVars, campaignVars, managedVars, poolVars>>
  \/ part = "job" /\ JobNext
     /\ UNCHANGED <<part, hotVars, cacheVars, campaignVars, managedVars, poolVars>>
  \/ part = "cache" /\ CacheNext
     /\ UNCHANGED <<part, hotVars, jobVars, campaignVars, managedVars, poolVars>>
  \/ CampaignRuns /\ CampaignNext
  \/ AppRuns /\ ManagedNext
  \/ ThreadsRun /\ PoolNext

Spec == Init /\ [][Next]_vars

\* Time passes, an abandoned lease ends, somebody runs the planner, and calls
\* return.
CampaignFairness ==
  /\ WF_vars(CampaignRuns /\ \/ TimeComes
                             \/ camp.live /\ planner[camp.lease].at = "idle" /\ LeaseEnds
                             \/ \E p \in Planners : Claim(p))
  /\ WF_vars(CampaignRuns /\ \E p \in Planners : RunStep(p))

\* The loop's awaits end, and a child that is being stopped is killed.
ManagedFairness ==
  /\ WF_vars(AppRuns /\ LoopStep)
  /\ WF_vars(AppRuns /\ signalled /\ Exit)

\* Handlers end, and a thread that has failed or is terminated exits.
ThreadsFairness ==
  WF_vars(ThreadsRun /\ ((\E w \in Threads : Reply(w)) \/ \E w \in pool.ending : ThreadExits(w)))

FairSpec == Spec /\ CampaignFairness /\ ManagedFairness /\ ThreadsFairness
==============================================================================
