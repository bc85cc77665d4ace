---------------------------- MODULE MCWatcherAPI ----------------------------
(***************************************************************************)
(* Instances of WatcherAPI for TLC.                                        *)
(***************************************************************************)
EXTENDS WatcherAPI

CONSTANTS v1, v2, c1, c2, i1, m1, u1, u2

Base == [cfg |-> c1, img |-> i1, replicas |-> 1, memcached |-> m1, url |-> u1]

\* A spec and one with another configuration and other endpoint URLs.
SpecsURL == {Base, [Base EXCEPT !.cfg = c2, !.url = u2]}
=============================================================================
