--------------------------- MODULE ServicePromise ---------------------------
(***************************************************************************)
(* What a service resource promises the Watcher that owns it, whatever     *)
(* goes on inside its reconciler: the abstract specification that the      *)
(* reconcilers of WatcherAPI, WatcherDecisionEngine and WatcherApplier     *)
(* implement (ServiceCR!Promise), and that the services in the module      *)
(* Watcher keep to.  The Watcher looks at a service's conditions only if   *)
(* status.observedGeneration is the generation of the spec it has written, *)
(* watcher_controller.go:1210, 1286, 1365.                                 *)
(***************************************************************************)
CONSTANT None     \* no StatefulSet

VARIABLES
    phase,     \* "Live", "Deleting" or "Gone"
    wanted,    \* what the spec asks for: configuration, image, replicas
    observed,  \* observedGeneration is the generation of the spec
    ready,     \* the status of the Ready condition
    told       \* what the StatefulSet was told to run

vars == <<phase, wanted, observed, ready, told>>

Init == phase = "Live" /\ ~observed /\ ready = "NotSet" /\ told = None

\* The owner writes another spec: a new generation.
Order ==
    /\ phase = "Live"
    /\ observed' = FALSE
    /\ UNCHANGED <<phase, ready, told>>

\* The resource is deleted, which is a new generation, too.
Withdraw ==
    /\ phase = "Live" /\ phase' \in {"Deleting", "Gone"}
    /\ observed' = FALSE
    /\ UNCHANGED <<wanted, ready, told>>

\* The StatefulSet is written.  Once a spec counts as observed, no earlier
\* one reaches the StatefulSet any more.
Tell ==
    /\ observed => told' = wanted
    /\ UNCHANGED <<phase, wanted, observed, ready>>

\* Somebody deletes the StatefulSet.
Lose == told' = None /\ UNCHANGED <<phase, wanted, observed, ready>>

\* The status is written.  Observing is not taken back, and Ready becomes
\* True about an observed spec only if the StatefulSet carries this spec or
\* has just been lost.
Report ==
    /\ observed => observed'
    /\ ready # "True" /\ ready' = "True" /\ observed' => told \in {wanted, None}
    /\ UNCHANGED <<phase, wanted, told>>

\* A resource under deletion goes with its last finalizer.
Leave ==
    /\ phase = "Deleting" /\ phase' = "Gone"
    /\ observed => observed'
    /\ UNCHANGED <<wanted, told>>

Next == Order \/ Withdraw \/ Tell \/ Lose \/ Report \/ Leave

Spec == Init /\ [][Next]_vars
=============================================================================
