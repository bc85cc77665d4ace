------------------------- MODULE MCSharedMemcached --------------------------
(***************************************************************************)
(* Instances of SharedMemcached for TLC.                                   *)
(***************************************************************************)
EXTENDS SharedMemcached, TLC

CONSTANTS decisionengine, applier,  \* two resources of one Watcher
          m1, m2

AllKinds == {"WatcherAPI", "WatcherDecisionEngine", "WatcherApplier"}

TwoKinds == decisionengine :> "WatcherDecisionEngine"
            @@ applier :> "WatcherApplier"
=============================================================================
