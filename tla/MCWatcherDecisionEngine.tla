---------------------- MODULE MCWatcherDecisionEngine -----------------------
(***************************************************************************)
(* Instances of WatcherDecisionEngine for TLC.                             *)
(***************************************************************************)
EXTENDS WatcherDecisionEngine

CONSTANTS v1, v2, c1, c2, i1, i2, m1

Base == [cfg |-> c1, img |-> i1, replicas |-> 1, memcached |-> m1]

\* A spec and one with another configuration and image, scaled to nothing.
SpecsScale == {Base, [Base EXCEPT !.cfg = c2, !.img = i2, !.replicas = 0]}
=============================================================================
