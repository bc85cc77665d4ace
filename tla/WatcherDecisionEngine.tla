----------------------- MODULE WatcherDecisionEngine ------------------------
(***************************************************************************)
(* The reconciler of the WatcherDecisionEngine resource,                   *)
(* controllers/watcherdecisionengine_controller.go.  Besides the secret of *)
(* the service it reads the Prometheus secret.                             *)
(***************************************************************************)
EXTENDS ServiceCR

DecisionEngineConditions == {"Ready", "InputReady", "ServiceConfigReady",
                             "MemcachedReady", "DeploymentReady"}

DecisionEngineInputs == {"secret", "prometheus", "memcached", "keystone"}

\* A hash that was rendered is told from one that was not.
ASSUME HashAssumption ==
    NoHash \notin [cfg : {s.cfg : s \in Specs},
                   in : [DecisionEngineInputs -> InputStates]]

\* Reconcile up to the first input.
Start == Fetch("secret")

Secret == EnsureSecret("secret", "prometheus", inst)

PrometheusSecret ==
    RequireSecret("prometheus", "memcached", Marked(inst, "InputReady", "True"))

\* Mutant: goes on with a step only the WatcherAPI has.
MemcachedThenTLS == EnsureMemcached("caBundle")
Memcached == EnsureMemcached("config")

\* generateServiceConfigs, then the hash over all inputs.
ServiceConfigs ==
    /\ pc = "config"
    /\ \/ KeystoneMissing
       \/ ConfigsFail
       \/ ConfigsWritten /\ CheckHash(Rendered, "deploy")
    /\ UNCHANGED <<cr, cache, base, input, memFin, sts, changes>>

EnsureDeployment == DeployAndFinish

ReconcileDelete ==
    /\ pc = "delete"
    /\ ReleaseMemcached
    /\ UNCHANGED <<cr, cache, queue, base, seen, input, config, sts, changes>>

Reconcile == \/ Start \/ Secret \/ PrometheusSecret \/ Memcached
             \/ ServiceConfigs \/ EnsureDeployment \/ ReconcileDelete \/ Exit

Init == ServiceInit(DecisionEngineConditions, DecisionEngineInputs)

Next == Reconcile \/ SyncCache \/ StsController \/ Environment

Spec == Init /\ [][Next]_vars

\* The operator's workers, its informers and the StatefulSet controller run
\* as long as they have work; nobody has to change or break anything.
Fairness == WF_vars(Reconcile) /\ WF_vars(SyncCache) /\ WF_vars(StsController)

FairSpec == Spec /\ Fairness

-----------------------------------------------------------------------------
\* The type invariant: the reconciler's variables stay in their types.
TypeOK == TypesOK(DecisionEngineConditions, DecisionEngineInputs,
                  {"secret", "prometheus", "memcached", "config", "deploy"})

\* No lost wake-up: when the controller rests on a resource, Ready is True
\* only if the StatefulSet is up to date with spec, secret and Prometheus
\* secret and its pods are ready, and anything else only while they are not.
RestIsTruthful ==
    AtRest /\ cr.phase = "Live" =>
        /\ cr.obs = cr.gen
        /\ UpToDate
        /\ (cr.cond["Ready"] = "True") <=> Available

\* Once changes and faults end: usable inputs lead to a service that is
\* Ready on the pods of the current template, and stays so.
Converges ==
    <>[](cr.phase = "Live" /\ UsableInputs
         => cr.cond["Ready"] = "True" /\ Available /\ sts.rolled)

\* A deleted resource is eventually gone.
DeletionCompletes == (cr.phase = "Deleting") ~> (cr.phase = "Gone")
=============================================================================
