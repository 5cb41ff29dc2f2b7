----------------------------- MODULE QueryCache -----------------------------
(***************************************************************************)
(* The query cache of the zyro client: concurrent queries of a key share   *)
(* one load, and its value is stored unless the key was invalidated in the *)
(* meantime (packages/zyrojs/src/network/cache.ts).                        *)
(*                                                                         *)
(* An action is what runs between two turns of the event loop.  A value is *)
(* the load that produced it, or `Given' for one that set() was handed;    *)
(* a time to live may end, and the least recently used entry may go, at    *)
(* any time.                                                               *)
(*                                                                         *)
(* The definitions whose comment starts with `Fault' are used by nothing:  *)
(* each is a plausible bug of the definition below it.                     *)
(***************************************************************************)
EXTENDS Naturals, FiniteSets

CONSTANTS
  Keys,
  Tagged,      \* keys whose entries carry the tag that invalidateTag is called with
  Loads,       \* loads that may be made, each once
  NoLoad,      \* no load
  Given        \* the value set() was handed

ASSUME LoadsAssumption == NoLoad \notin Loads /\ Given \notin Loads /\ NoLoad # Given
ASSUME KeysAssumption == "none" \notin Keys

VARIABLES
  entry,       \* entry[k]: the load whose value is stored, Given or NoLoad
  pending,     \* pending[k]: the load that queries of k share, or NoLoad
  loading,     \* loading[l]: the key that l loads, or none once it has settled
  aborted,     \* loads whose first caller aborted
  outdated,    \* loads whose key was invalidated since they began (history)
  begun        \* loads made so far

cacheVars == <<entry, pending, loading, aborted, outdated, begun>>

Nothing == "none"

CacheInit ==
  /\ entry = [k \in Keys |-> NoLoad] /\ pending = [k \in Keys |-> NoLoad]
  /\ loading = [l \in Loads |-> Nothing]
  /\ aborted = {} /\ outdated = {} /\ begun = {}

------------------------------------------------------------------------------
Running == {l \in Loads : loading[l] # Nothing}

\* A miss that finds no load to share begins one.
Query(k, l) ==
  /\ entry[k] = NoLoad /\ pending[k] = NoLoad /\ l \notin begun
  /\ pending' = [pending EXCEPT ![k] = l]
  /\ loading' = [loading EXCEPT ![l] = k]
  /\ begun' = begun \cup {l}
  /\ UNCHANGED <<entry, aborted, outdated>>

Abort(l) ==
  /\ l \in Running \ aborted
  /\ aborted' = aborted \cup {l}
  /\ UNCHANGED <<entry, pending, loading, outdated, begun>>

Settled(l) == loading' = [loading EXCEPT ![l] = Nothing]

\* The slot is given up if it is still the load's.
Leave(l) == pending' = [pending EXCEPT ![loading[l]] = IF @ = l THEN NoLoad ELSE @]

\* Fault of Store: a load stores its value whether it is still shared or not.
StoreAlways(l) ==
  /\ l \in Running
  /\ entry' = IF l \notin aborted THEN [entry EXCEPT ![loading[l]] = l] ELSE entry
  /\ Settled(l) /\ Leave(l)
  /\ UNCHANGED <<aborted, outdated, begun>>

Store(l) ==
  /\ l \in Running
  /\ entry' = IF pending[loading[l]] = l /\ l \notin aborted
              THEN [entry EXCEPT ![loading[l]] = l] ELSE entry
  /\ Settled(l) /\ Leave(l)
  /\ UNCHANGED <<aborted, outdated, begun>>

LoadFails(l) ==
  /\ l \in Running
  /\ Settled(l) /\ Leave(l)
  /\ UNCHANGED <<entry, aborted, outdated, begun>>

Set(k) ==
  /\ entry' = [entry EXCEPT ![k] = Given]
  /\ UNCHANGED <<pending, loading, aborted, outdated, begun>>

\* Expiry, eviction, or a set with no time to live.
Drop(k) ==
  /\ entry[k] # NoLoad
  /\ entry' = [entry EXCEPT ![k] = NoLoad]
  /\ UNCHANGED <<pending, loading, aborted, outdated, begun>>

\* invalidate of one key, and clear of all.
Invalidate(S) ==
  /\ entry' = [k \in Keys |-> IF k \in S THEN NoLoad ELSE entry[k]]
  /\ pending' = [k \in Keys |-> IF k \in S THEN NoLoad ELSE pending[k]]
  /\ outdated' = outdated \cup {l \in Running : loading[l] \in S}
  /\ UNCHANGED <<loading, aborted, begun>>

\* The entries go, the loads under way stay.
InvalidateTag ==
  /\ entry' = [k \in Keys |-> IF k \in Tagged /\ entry[k] # Given THEN NoLoad ELSE entry[k]]
  /\ UNCHANGED <<pending, loading, aborted, outdated, begun>>

CacheNext ==
  \/ \E k \in Keys : (\E l \in Loads : Query(k, l)) \/ Set(k) \/ Drop(k) \/ Invalidate({k})
  \/ \E l \in Loads : Abort(l) \/ Store(l) \/ LoadFails(l)
  \/ Invalidate(Keys) \/ InvalidateTag

CacheSpec == CacheInit /\ [][CacheNext]_cacheVars

------------------------------------------------------------------------------
\* What was loaded before its key was invalidated, by itself or by clear, is not
\* stored afterwards, and a key has at most one load that may still be stored
\* (cache.ts:35-41, 51, 57).
InvalidatedStaysOut ==
  /\ \A k \in Keys : entry[k] \notin outdated
  /\ \A l, m \in Running \ outdated : loading[l] = loading[m] => l = m
==============================================================================
