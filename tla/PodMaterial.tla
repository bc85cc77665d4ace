---------------------------- MODULE PodMaterial -----------------------------
(***************************************************************************)
(* What the pods of a service really work with.  A pod takes the rendered  *)
(* configuration and the secrets it mounts when its container starts       *)
(* (COPY_ALWAYS, and mounts with a subPath) and keeps them: it follows a   *)
(* change only if it is restarted.  CONFIG_HASH in the pod template, the   *)
(* hash over the inputs, is what restarts it.  This module takes the       *)
(* functions StatefulSet of pkg/watcherapi, pkg/watcherdecisionengine and  *)
(* pkg/watcherapplier together with the part of the three reconcilers that *)
(* reads, renders and hashes; ServiceCR has the status and the failures.   *)
(*                                                                         *)
(* A secret is a version number, 0 for one that does not exist.  A version *)
(* never returns: a secret that is put back to an earlier content is not   *)
(* told from one that has not changed, by the hash nor by this module.     *)
(***************************************************************************)
EXTENDS Naturals, FiniteSets, Functions

CONSTANTS
    Kinds,      \* the kinds of service of the instance
    Optional,   \* the secrets that a resource may, but need not, use
    Pods,       \* the pods of the StatefulSet
    None,       \* no hash, no pod
    MaxChanges  \* bound on changes of secrets and restarts of the operator

Materials == {"secret", "prometheus", "caBundle", "certs", "prometheusCA"}

ASSUME KindAssumption == Kinds \subseteq {"api", "decisionengine", "applier"}
ASSUME OptionalAssumption == Optional \subseteq {"caBundle", "certs", "prometheusCA"}
ASSUME BoundAssumption == MaxChanges \in Nat

VARIABLES
    kind, uses,  \* the kind of the resource, and the secrets it names
    stored,      \* the secrets on the API server
    seen,        \* the informer's copies
    awake,       \* the key is in the work queue
    pc, read,    \* the step of the reconcile, and what it has read
    config,      \* the versions the secret <name>-config-data is rendered from
    recorded,    \* status.hash
    template,    \* CONFIG_HASH in the StatefulSet's pod template
    pods,        \* the running pods
    changes

resourceVars == <<kind, uses>>
reconcileVars == <<awake, pc, read>>
outputVars == <<config, recorded, template>>
vars == <<resourceVars, stored, seen, reconcileVars, outputVars, pods, changes>>

\* The secrets whose content goes into the configuration.
Rendered == {"secret"} \cup (IF kind = "applier" THEN {} ELSE {"prometheus"})

\* The volumes of StatefulSet, the configuration apart.
MountedBy(k) ==
    {"caBundle"} \cup (IF k = "applier" THEN {} ELSE {"prometheusCA"})
                 \cup (IF k = "api" THEN {"certs"} ELSE {})
Mounted == uses

\* The mounted secrets a reconcile validates and adds to the hash.  Mutant:
\* without the certificates of the endpoints.
CheckedWithoutCerts == IF kind = "api" THEN uses \cap {"caBundle"} ELSE {}
Checked == IF kind = "api" THEN uses \cap {"caBundle", "certs"} ELSE {}

\* The fields that findObjectsForSrc looks a changed secret up by.
Watched == {"secret", "prometheus", "caBundle", "certs"}

Versions == [Materials -> Nat]
NothingRead == [m \in Materials |-> 0]

\* The versions of the secrets in ms, over those of f.
Over(f, g, ms) == [m \in Materials |-> IF m \in ms THEN g[m] ELSE f[m]]

\* An event that comes during a reconcile keeps the key in the queue.
Return(wake) == pc' = "idle" /\ awake' = (awake \/ wake) /\ read' = NothingRead

Start ==
    /\ pc = "idle" /\ awake
    /\ pc' = "inputs" /\ awake' = FALSE
    /\ UNCHANGED <<resourceVars, stored, seen, read, outputVars, pods, changes>>

\* ensureSecret, once for the Applier.  A missing secret is asked for again.
EnsureSecrets ==
    /\ pc = "inputs"
    /\ IF \E m \in Rendered : seen[m] = 0 THEN Return(TRUE)
       ELSE /\ read' = Over(read, seen, Rendered)
            /\ pc' = "render" /\ UNCHANGED awake
    /\ UNCHANGED <<resourceVars, stored, seen, outputVars, pods, changes>>

\* generateServiceConfigs.  Mutant: a secret that exists is left as it is.
RenderOnce ==
    /\ pc = "render"
    /\ config' = IF config = NothingRead THEN read ELSE config
    /\ pc' = "tls"
    /\ UNCHANGED <<resourceVars, stored, seen, awake, read, recorded, template, pods, changes>>
Render ==
    /\ pc = "render"
    /\ config' = read
    /\ pc' = "tls"
    /\ UNCHANGED <<resourceVars, stored, seen, awake, read, recorded, template, pods, changes>>

\* The TLS validation of the WatcherAPI; it waits for a missing secret.
\* Mutant: it reads past the informer.
ValidateTLSUncached ==
    /\ pc = "tls"
    /\ IF \E m \in Checked : stored[m] = 0 THEN Return(FALSE)
       ELSE /\ read' = Over(read, stored, Checked)
            /\ pc' = "hash" /\ UNCHANGED awake
    /\ UNCHANGED <<resourceVars, stored, seen, outputVars, pods, changes>>
ValidateTLS ==
    /\ pc = "tls"
    /\ IF \E m \in Checked : seen[m] = 0 THEN Return(FALSE)
       ELSE /\ read' = Over(read, seen, Checked)
            /\ pc' = "hash" /\ UNCHANGED awake
    /\ UNCHANGED <<resourceVars, stored, seen, outputVars, pods, changes>>

\* createHashOfInputHashes.  A new hash ends the reconcile, and the patch of
\* the status starts the next one.  Mutant: it does not.
CheckHashAndSleep ==
    /\ pc = "hash"
    /\ IF recorded = read THEN /\ pc' = "deploy"
                               /\ UNCHANGED <<awake, read, recorded>>
       ELSE /\ recorded' = read /\ Return(FALSE)
    /\ UNCHANGED <<resourceVars, stored, seen, config, template, pods, changes>>
CheckHash ==
    /\ pc = "hash"
    /\ IF recorded = read THEN /\ pc' = "deploy"
                               /\ UNCHANGED <<awake, read, recorded>>
       ELSE /\ recorded' = read /\ Return(TRUE)
    /\ UNCHANGED <<resourceVars, stored, seen, config, template, pods, changes>>

\* ensureDeployment: StatefulSet and its CreateOrPatch.
EnsureDeployment ==
    /\ pc = "deploy"
    /\ template' = read
    /\ Return(FALSE)
    /\ UNCHANGED <<resourceVars, stored, seen, config, recorded, pods, changes>>

Reconcile == \/ Start \/ EnsureSecrets \/ Render \/ ValidateTLS
             \/ CheckHash \/ EnsureDeployment

\* The operator stops and starts again, with every resource in its queue.
Crash ==
    /\ pc # "idle"
    /\ changes < MaxChanges /\ changes' = changes + 1
    /\ Return(TRUE)
    /\ seen' = stored
    /\ UNCHANGED <<resourceVars, stored, outputVars, pods>>

\* A secret is created, or its content changes.
Change(m) ==
    /\ changes < MaxChanges /\ changes' = changes + 1
    /\ stored' = [stored EXCEPT ![m] = @ + 1]
    /\ UNCHANGED <<resourceVars, seen, reconcileVars, outputVars, pods>>

\* An event of the informer.
Sync(m) ==
    /\ seen[m] # stored[m]
    /\ seen' = [seen EXCEPT ![m] = stored[m]]
    /\ awake' = (awake \/ m \in Watched)
    /\ UNCHANGED <<resourceVars, stored, pc, read, outputVars, pods, changes>>

\* What a container finds when it starts.
Holdings == [m \in Materials |-> IF m \in Rendered THEN config[m]
                                 ELSE IF m \in Mounted THEN stored[m] ELSE 0]

\* The StatefulSet controller and the kubelet: a pod of another template goes,
\* a pod starts once every secret it mounts exists, a container that fails
\* starts again in its pod.
StopPod(p) ==
    /\ pods[p] # None /\ pods[p].hash # template
    /\ pods' = [pods EXCEPT ![p] = None]
StartPod(p) ==
    /\ pods[p] = None /\ template # None
    /\ \A m \in Mounted : stored[m] # 0
    /\ pods' = [pods EXCEPT ![p] = [hash |-> template, holds |-> Holdings]]
RestartContainer(p) ==
    /\ pods[p] # None
    /\ pods' = [pods EXCEPT ![p].holds = Holdings]

PodStep(p) ==
    /\ StopPod(p) \/ StartPod(p) \/ RestartContainer(p)
    /\ UNCHANGED <<resourceVars, stored, seen, reconcileVars, outputVars, changes>>

\* The secrets the resource has to do with.
Relevant == Rendered \cup Mounted

Init ==
    /\ kind \in Kinds
    /\ uses \in SUBSET (Optional \cap MountedBy(kind))
    /\ stored \in {f \in [Materials -> {0, 1}] :
                     \A m \in Materials \ Relevant : f[m] = 0}
    /\ seen = stored
    /\ awake = TRUE /\ pc = "idle" /\ read = NothingRead
    /\ config = NothingRead /\ recorded = None /\ template = None
    /\ pods = [p \in Pods |-> None]
    /\ changes = 0

Next == \/ Reconcile \/ Crash
        \/ \E m \in Relevant : Change(m) \/ Sync(m)
        \/ \E p \in Pods : PodStep(p)

Spec == Init /\ [][Next]_vars

\* The queue is served, watches deliver and the StatefulSet controller brings
\* its pods to the template; nothing makes a user create a secret.
Fairness ==
    /\ WF_vars(Reconcile)
    /\ \A m \in Materials : WF_vars(m \in Relevant /\ Sync(m))
    /\ \A p \in Pods : /\ WF_vars(StopPod(p) /\ UNCHANGED <<resourceVars, stored, seen, reconcileVars, outputVars, changes>>)
                       /\ WF_vars(StartPod(p) /\ UNCHANGED <<resourceVars, stored, seen, reconcileVars, outputVars, changes>>)

FairSpec == Spec /\ Fairness

(***************************************************************************)
(* Properties                                                              *)
(***************************************************************************)

\* The variables have their types, and the reconcile has read no secret that
\* the informer does not know.
TypeOK ==
    /\ kind \in Kinds /\ uses \subseteq MountedBy(kind)
    /\ {stored, seen, read, config} \subseteq Versions
    /\ awake \in BOOLEAN
    /\ pc \in {"idle", "inputs", "render", "tls", "hash", "deploy"}
    /\ {recorded, template} \subseteq Versions \cup {None}
    /\ pods \in [Pods -> [hash : Versions, holds : Versions] \cup {None}]
    /\ changes \in 0..MaxChanges
    /\ \A m \in Materials : read[m] <= seen[m] /\ seen[m] <= stored[m]

\* A pod never works with inputs older than those its CONFIG_HASH stands for:
\* the configuration is written before the hash that announces it, in
\* generateServiceConfigs and then createHashOfInputHashes.
NeverBehindItsHash ==
    \A p \in Pods : pods[p] # None =>
        \A m \in Materials : pods[p].holds[m] >= pods[p].hash[m]

\* Nothing is left to do, and every pod is up.
AtRest == /\ pc = "idle" /\ ~awake /\ seen = stored
          /\ \A m \in Relevant : stored[m] # 0
          /\ \A p \in Pods : pods[p] # None /\ pods[p].hash = template

\* The secrets a service follows: all that it uses, but the CA bundle of the
\* Decision Engine and the Applier and the CA of Prometheus.
Followed == Relevant \ ({"prometheusCA"} \cup
                          (IF kind = "api" THEN {} ELSE {"caBundle"}))

\* At rest every pod works with the current content of every secret its
\* service follows: such a secret is watched by findObjectsForSrc, and its
\* change reaches CONFIG_HASH, which restarts the pods.
InputsInPods ==
    AtRest => \A p \in Pods, m \in Followed : pods[p].holds[m] = stored[m]

\* ... and, "create hash over all the different input resources to identify
\* if any those changed and a restart/recreate is required"
\* (watcherdecisionengine_controller.go:227-228 and the same comment in the
\* two others), of every secret it mounts.
MountsInPods ==
    AtRest => \A p \in Pods, m \in Mounted : pods[p].holds[m] = stored[m]

\* Once every secret exists and changes no more, the pods come to work with
\* the current content of those they follow, and stay there: the reconcile
\* that ends with a new hash, createHashOfInputHashes, is followed by another.
PodsConverge ==
    <>[](\A m \in Relevant : stored[m] # 0) =>
        <>[](\A p \in Pods : /\ pods[p] # None
                             /\ \A m \in Followed : pods[p].holds[m] = stored[m])
=============================================================================
