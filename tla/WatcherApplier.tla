--------------------------- MODULE WatcherApplier ---------------------------
(***************************************************************************)
(* The reconciler of the WatcherApplier resource,                          *)
(* controllers/watcherapplier_controller.go.                               *)
(***************************************************************************)
EXTENDS ServiceCR

ApplierConditions == {"Ready", "InputReady", "ServiceConfigReady",
                      "MemcachedReady", "DeploymentReady"}

ApplierInputs == {"secret", "memcached", "keystone"}

\* A hash that was rendered is told from one that was not.
ASSUME HashAssumption ==
    NoHash \notin [cfg : {s.cfg : s \in Specs},
                   in : [ApplierInputs -> InputStates]]

\* Reconcile up to the first input.
Start == Fetch("secret")

\* The secret the parent controller wrote for the service.
Secret == EnsureSecret("secret", "memcached", Marked(inst, "InputReady", "True"))

\* Mutant: goes on with a step only the WatcherAPI has.
MemcachedThenTLS == EnsureMemcached("caBundle")
Memcached == EnsureMemcached("config")

\* generateServiceConfigs, then the hash over all inputs.
ServiceConfigs ==
    /\ pc = "config"
    /\ \/ KeystoneMissing
       \/ ConfigsFail
       \/ ConfigsWritten /\ CheckHash(Rendered, "deploy")
    /\ UNCHANGED <<cr, cache, base, input, memFin, sts, changes>>

EnsureDeployment == DeployAndFinish

ReconcileDelete ==
    /\ pc = "delete"
    /\ ReleaseMemcached
    /\ UNCHANGED <<cr, cache, queue, base, seen, input, config, sts, changes>>

Reconcile == \/ Start \/ Secret \/ Memcached \/ ServiceConfigs
             \/ EnsureDeployment \/ ReconcileDelete \/ Exit

Init == ServiceInit(ApplierConditions, ApplierInputs)

Next == Reconcile \/ SyncCache \/ StsController \/ Environment

Spec == Init /\ [][Next]_vars

-----------------------------------------------------------------------------
\* The type invariant: the reconciler's variables stay in their types.
TypeOK == TypesOK(ApplierConditions, ApplierInputs,
                  {"secret", "memcached", "config", "deploy"})

\* No lost wake-up: when the controller rests on a resource, Ready is True
\* only if the StatefulSet is up to date with spec and secret and its pods
\* are ready, and Ready is anything else only while those pods are not.
RestIsTruthful ==
    AtRest /\ cr.phase = "Live" =>
        /\ cr.obs = cr.gen
        /\ UpToDate
        /\ (cr.cond["Ready"] = "True") <=> Available
        /\ Available => cr.readyCount = cr.spec.replicas

\* A stale copy never takes observedGeneration back, and no patch brings a
\* deleted resource to life.
StatusMonotone ==
    [][/\ cr'.obs >= cr.obs
       /\ cr.phase # "Live" => cr'.phase # "Live"
       /\ cr.phase = "Gone" => cr' = cr]_vars
=============================================================================
