-------------------------- MODULE MCRouteExposure ---------------------------
(***************************************************************************)
(* Instances of RouteExposure for TLC.                                     *)
(***************************************************************************)
EXTENDS RouteExposure

CONSTANTS v1, v2

Base == [type |-> "ClusterIP", ingressTLS |-> FALSE, podTLS |-> FALSE]

\* Plain, TLS up to the pods, a load balancer instead, and a spec that is
\* refused.
SpecsTLS == {Base, [Base EXCEPT !.ingressTLS = TRUE, !.podTLS = TRUE],
             [Base EXCEPT !.ingressTLS = TRUE, !.type = "LoadBalancer"],
             [Base EXCEPT !.podTLS = TRUE]}
=============================================================================
