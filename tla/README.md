# A formal model of the Watcher operator

The Watcher operator deploys OpenStack Watcher on Kubernetes. It consists of four
reconcilers that run concurrently with each other, with users, with the operators they
depend on, and with the controllers of Kubernetes itself. All of them talk only through
objects on the API server, and each of them works on a cached copy that lags behind.
This directory holds TLA+ modules of those reconcilers, configurations that model-check
them with TLC, and proofs of their central properties for TLAPS.

Paths without a prefix are relative to the repository.

## The system

| Component | State it keeps | Operations | Makes it correct |
|---|---|---|---|
| Watcher controller, `controllers/watcher_controller.go` | the Watcher resource (spec, generation, finalizer, conditions, dbsync hash), finalizers on MariaDBAccounts, on the KeystoneService and on Prometheus secrets, the secret of the services, dbsync Job, purge CronJob, the three service resources | `Reconcile`, `reconcileDelete` and what they call | migrates the database before any service runs an image; reports Ready exactly when everything is; releases what it held |
| WatcherApplier, WatcherDecisionEngine, WatcherAPI controllers | the service resource, the finalizer on Memcached, the config-data secret, the StatefulSet; the API also Services and KeystoneEndpoint | the same | pods always get the newest configuration; Ready tells the truth; deletion completes |
| Shared steps, `controllers/watcher_common.go` | none | `ensureSecret`, `ensureMemcached`, `GenerateConfigsGeneric` | each way of failing leads to a condition and to another try |
| Shared Memcached instances, in all three service controllers | finalizers on the Memcached resources, one per kind of service | `AddFinalizer`, `RemoveFinalizer` and their updates | an instance in use cannot go; one that nobody uses can |
| Conditions, lib-common | the condition list of a resource | Init, Set, Mirror, AllSubConditionIsTrue | the overall condition is composed of the others |
| Route exposure, `exposeEndpoints`, `ensureRoute` | Routes for the API's Services | part of the Watcher's `Reconcile` | each public Service has a Route with current certificates, never one without TLS when TLS is wanted |
| Pod and volume templates, `pkg/*/statefulset.go`, `pkg/watcher/volumes.go` | what the pods mount and when they have read it | configuration, validation of certificates, input hash, rollout | running pods have what the secrets hold |
| Webhooks, `api/v1beta1/*_webhook.go` | none | Default, Validate* | every stored spec is complete and legal, and stays so for the next release |
| Manager, `main.go` | the defaults taken from the environment | starts controllers and webhooks | an upgrade changes defaults under stored resources |

Interactions. The Watcher controller writes specs and one secret; the service
controllers react to those, write StatefulSets, Services and a KeystoneEndpoint, and
report in their conditions, which the Watcher controller mirrors. Other operators
(MariaDB, RabbitMQ, Keystone, Memcached) answer in the same way. A change of an object
that is owned or watched puts the key of the reconciler's resource in its work queue; a
key waits there at most once and one worker at a time works on it.

What is hard:

- *Wake-ups.* Nothing polls. A reconcile that returns without an error, and without a
  request to come back, relies on an event, often that of its own status update (a new
  input hash is stored and the reconcile simply ends). Whether one always comes depends
  on what changed, when, and on what is watched.
- *Stale reads.* A reconcile starts from the informer's copy, takes many steps, and
  then sends a merge patch of its differences without a check of the version.
- *Failures and restarts* between any two calls.
- *Ordering*: finalizers before use, migration before deployment, a prerequisite may
  vanish or change between being read and being used.
- *Deletion*, which may begin at any of these points.

The list "hazards" in `PROJECT.json` names each of them at its line with the
properties that would catch it going wrong.

## The modules

| Module | Models |
|---|---|
| `ServicePromise` | the abstract service resource: what the Watcher may rely on, whatever goes on in a service's reconciler |
| `Conditions` | condition lists, as lib-common implements them |
| `ServiceCR` | what the three service reconcilers share: their resource, cache, queue, inputs, StatefulSet; the beginning (`Fetch`) and the deferred end (`Exit`) of every reconcile; `ensureSecret`, `ensureMemcached`, config and hash, deployment, deletion; the environment; the refinement mapping to `ServicePromise` |
| `WatcherApplier`, `WatcherDecisionEngine`, `WatcherAPI` | one reconciler each, put together from the steps of `ServiceCR` in the order of the code; the API adds certificates, Services and KeystoneEndpoint |
| `Watcher` | the top-level reconciler; a service resource is reduced to what `ServicePromise` says of it |
| `RouteExposure` | two reconcilers side by side: the Watcher's `ensureAPI`, `exposeEndpoints`, `ensureRoute` and `CreateRoute`, and the API's `ensureServiceExposed`, with Service, Route, certificates and the informers' copies of Watcher, WatcherAPI and Route |
| `SharedMemcached` | the service reconcilers cut down to what they do to the Memcached instances they share: any number of resources, kinds and instances, looked up in the informer's copies and written with optimistic concurrency |
| `PodMaterial` | the way of a secret into a running process: informer, rendered configuration, validated certificates, hash, StatefulSet, volumes, start of a pod |
| `Admission` | the webhooks, with the writes of users and of the operator that pass them, during upgrades |
| `MC*` | instances for TLC |
| `WatcherApplierProofs`, `WatcherDecisionEngineProofs`, `WatcherAPIProofs`, `WatcherProofs`, `RouteExposureProofs`, `SharedMemcachedProofs`, `PodMaterialProofs`, `AdmissionProofs` | the theorems about the module of that name |

How state and actions correspond to the code:

- `cr` is the resource on the API server, `cache` the informer's copy, `base` what the
  reconcile in progress has read (`helper.beforeObject`), `inst` its working copy
  (`instance`). `pc` is the next step of `Reconcile`, `outcome` what it will return.
- There is one action per access to the API server, named for the function of the code
  that makes it, because there others can come in between. Local computation belongs
  to the step before or after it.
- Every step has its failure as a disjunct (`Fault`), with the condition and the return
  value of the error path, and with nothing where the code drops the error
  ("swallowed").
- `Exit` is the deferred function: mirror, then `PatchInstance`, field by field what
  differs between `base` and `inst`, against whatever `cr` has become. The client
  sends metadata and status as two requests; they are one step here.
- A change of an object puts the key in the queue at once; only `cr` itself reaches the
  reconciler later, by `SyncCache`. In the modules of the reconcilers, lookups of other
  objects return their present state. One consequence of caches that lag is kept there:
  a StatefulSet that was just deleted may still be found and then fail to be patched.
  The modules about other objects have copies of these: of the Route in
  `RouteExposure`, of the instances in `SharedMemcached`, of the secrets in
  `PodMaterial`, of the Watcher in `Admission`.
- A condition's status False is split by severity, which `Mirror` looks at. A hash is
  the record of what it is computed from, a secret's content a value of `Versions`.
  `Broken` is an input that exists but cannot be used: a secret without a field, a
  Memcached that is not ready, a KeystoneAPI without an endpoint, a certificate
  without its key.
- The StatefulSet controller first observes a generation, then replaces pods, then
  scales; `ready` counts old pods too, as `status.readyReplicas` does.
- In `Watcher`, `sub[k]` is a service resource. `SubTell` stands for everything its
  reconciler does to the StatefulSet, `SubReport` for its status patches, `SubWritten`
  for the Watcher's own writes. They are the steps of `ServicePromise`.
- A restart (`Crash`) loses everything in memory; the new process lists all resources
  and reconciles each.
- In `Admission` an image is a number: that of the release whose default it is, one for
  the user's own, and 0 for an empty one. Two neighbouring releases serve requests
  between `Upgrade` and `Retire`.
- controller-runtime's periodic resync (ten hours) is not modelled: properties at rest
  are about what happens without it.

The properties are stated *at rest* (`AtRest`: no reconcile in progress, no key in the
queue, caches up to date) where the code only promises something then: in between, Ready
may be about the generation before.

### How the modules are composed

`Watcher` does not contain the service reconcilers; their product would be out of TLC's
reach. It contains what they promise. `ServicePromise` states that promise: an observed
generation is not taken back except by a new spec, the StatefulSet is told nothing but
the spec once it is observed, and Ready becomes True beside an observed spec only if the
StatefulSet carries that spec or has just been lost. Both ends are tied to it:

- `ServiceCR!KeepsPromise` is `Promise!Spec`, an instance of `ServicePromise` with a
  refinement mapping (`wanted` is configuration, image and replicas of the spec, `told`
  what the StatefulSet's template was rendered from, `observed` is
  `cr.obs = cr.gen`). The runs `ApplierSafety`, `DecisionEngine` and `API` check it, and
  the theorem `KeepsThePromise` of each of the three proof modules proves it.
- `Watcher!ServicesKeepPromise` says that the services, as `Watcher` reduces them, take
  steps of the same specification; the run `WatcherUpgrade` checks that, and
  `WatcherProofs!ServicesKeepThePromise` proves it.

`exposeEndpoints` is in `Watcher` by its outcomes, by way of the input `ingress`;
`RouteExposure` has the steps, with the rest of the Watcher's reconcile left out.
`SharedMemcached` and `PodMaterial` refine one step each of `ServiceCR` (`EnsureMemcached`
with its release, and configuration, hash and rollout): there an input is a
single value that all reconcilers see alike, here it has copies, versions and several
users.

## What is checked

| Run | Instance | Shows |
|---|---|---|
| `ApplierSafety` | 2 specs, 2 versions per input, 2 changes, 1 fault | `RestIsTruthful` (no lost wake-up), `MemcachedProtected`, `StatusMonotone`, `KeepsPromise` |
| `DecisionEngine` | 2 specs (one scaled to 0), 2 versions, any inputs missing at first, 2 changes or a change and a fault, fair | `RestIsTruthful`, `KeepsPromise`, `Converges`, `DeletionCompletes` |
| `API` | 2 specs (configuration, URLs), any inputs missing at first, 1 change, 1 fault, fair | `RestIsTruthful`, `NothingHeldBack`, `KeepsPromise`, `Converges`, `DeletionCompletes` |
| `WatcherUpgrade` | 2 images, one service, 2 changes or a change and a fault (so an upgrade can be taken back, or fail) | `MigratedFirst`, `RestIsTruthful`, `PrerequisitesFirst`, `NoFinalizerLeft`, `ServicesKeepPromise` |
| `WatcherServices` | two services, 1 change of the spec, of a service, of Keystone or by deletion | `RestIsTruthful` |
| `WatcherLiveness` | one service, any of the five inputs missing at first, 1 change or 1 fault, fair | `RestIsTruthful`, `Converges`, `DeletionCompletes` |
| `Route` | 4 specs: plain, TLS up to the pods, load balancer, refused; 2 versions per certificate, 1 change, 1 fault, fair | `RestIsExposed`, `CertificatesAreUsable`, `NeverPlainAgain`, `Converges` |
| `Memcached` | 2 kinds, 2 instances, 3 changes, 1 fault, fair | `UsedIsHeld`, `NothingHeldAfterwards`, `InstanceGoes` |
| `Pods` | each kind of service, with and without CA bundle, certificates and CA of Prometheus, 1 pod, 3 changes, fair | `NeverBehindItsHash`, `InputsInPods`, `PodsConverge` |
| `Admission` | 2 services, 2 required fields, 3 releases, 3 changes | `OwnWritesPass`, `NoEmptyImage` |

All but `WatcherServices`, `WatcherLiveness`, `Route` and `Memcached` check `TypeOK` as well.

Two runs end in a counterexample; each contradicts a comment of the code.

| Run | What happens |
|---|---|
| `WatcherRotation` | `databaseAccount` changes. The reconcile rewrites the secret of the services and in the same pass removes the finalizer of the old account, while the services run with it. The comment before `DeleteUnusedMariaDBAccountFinalizers` assumes that all deployments run with the new account; nothing waits for that. |
| `PodBundle` | The CA bundle changes. Decision Engine and Applier mount it with a `subPath`, are woken by the change, but do not add it to the hash that restarts pods "if any of those changed". The pods keep the old bundle. |

Limits of the code that the properties step around, each at its line under "hazards":
the finalizer on an earlier Memcached or Prometheus secret after the spec has named
another; the Memcached finalizer that two resources of one kind share; the Memcached
finalizer of a resource that goes before the informer has delivered it; Memcached,
KeystoneAPI, the CA of Prometheus and, for the route, the CA bundle, which are read but
not watched; the dropped error of `createSubLevelSecret`, which no condition tells
of; a public Service deleted before its route is finished; `observedGeneration` patched
forward beside a Ready of the spec before.

One of these, the finalizer that was not delivered, takes no failure. The first reconcile
puts the finalizer on the instance and deploys; the user deletes the resource; `reconcileDelete` looks the instance up in the informer's copy, which does not
show the finalizer yet, takes nothing off and lets the resource go. The instance keeps
the finalizer and cannot be deleted any more. `NothingHeldAfterwards` and `InstanceGoes`
hold up to exactly this: the history variable `unseen` of `SharedMemcached`, which no
guard reads, records the finalizers that were put on and not delivered while their
resource was there, and both properties except a resource that went with such a one.
`swallowed`, the other history variable, records the lookups whose failure
`reconcileDelete` drops; `InstanceGoes` excepts these, too.

Two lost wake-ups lie just beyond the bounds of the runs. Both came up when an invariant
turned out not to be inductive; TLC shows each with `MaxFaults = 2`:

- `createSubLevelSecret` fails and its error is dropped. The status changes with the first
  such failure, which brings the controller back. A second one in a row writes the
  same status, so nothing brings it back, and the controller rests without services
  (`controllers/watcher_controller.go:571`). In the runs `RestIsTruthful` holds because
  one fault is all there is.
- The API's reconcile fails at the Service, succeeds for the spec of that time, and
  fails again from a copy that has a newer spec but misses the success. The condition
  that it reports is the one in its copy, so the patch writes `observedGeneration` and no
  condition: the status now claims the new spec for the old Service. The Watcher keeps
  the old route on the strength of it; the next success changes the Service, which
  the Watcher does not watch, and no status
  (`controllers/watcher_controller.go:1468`). `Misreported` in `RouteExposure` is the
  state in which the third reconcile ends; without it nothing is lost (below). Transition times of conditions are not in
  the model; a patch that also differs in one would be an event.

Bounds. `MaxChanges` bounds what users and the environment do unasked (spec update,
deletion, a changed input, a lost StatefulSet or pod), `MaxFaults` failed calls and
restarts, `MaxBoth` in `Watcher` and `ServiceCR` their sum. Every change may happen between any two
steps of a reconcile. Two changes are enough for a change during the reaction to a
change, for an update taken back, for a deletion after an update, and for an input that
breaks and recovers; three, in the modules with several actors, for a deletion of both
users of an instance and of the instance, and for a secret that changes while two others
do. One fault is enough for each call failing once at each point, and for a restart at
each point. Retries after a fault are not bounded. Two values of a parameter suffice for
"old" and "new"; three releases for one before and one after the release that filled in
an image. `Kinds` limits the services of `Watcher` to one in the runs with inputs and
faults: the three are reconciled by the same code, `EnsureSub`, and their interleaving
is the subject of `WatcherServices`. `Volatile` limits the inputs that change in
`Watcher` and says whether Keystone and the services may break by themselves: all of it
in `WatcherLiveness`, the latter two in `WatcherServices`, the Prometheus secret, which
the finalizers are about, in `WatcherUpgrade`. `StartInputs`
are the states of the inputs at the start. In `DecisionEngine`, `API` and
`WatcherLiveness`, the runs with liveness, each input may be missing, so the reconcilers
wait for it and it appears with a change; in `DecisionEngine` two may, in either order,
and one that is there may break and recover. In `API` and `WatcherLiveness` one change is
what TLC can do, so an input appears there but none recovers. The other runs start with
every input present; in `Route` a certificate that appears or recovers is left to the
proof. Symmetry: the two images of
`WatcherUpgrade`, which both appear as first spec, the pods in `PodBundle`, and the
services in `Admission`; no liveness is checked with it. Deadlock is not checked because the system is
meant to come to rest; that it does not rest too early is what the properties at rest
say.

Fairness. `FairSpec` assumes weak fairness of the reconcile (a worker of
controller-runtime takes every key from the queue), of the informer, and of the other
controllers, each as far as it has work. No change, fault, or broken input is ever
assumed to be repaired; `Converges` and `PodsConverge` therefore speak of inputs that are
usable, of a dbsync that does not fail and of a spec that is not refused, and
`InstanceGoes` of a history without the failure whose error the code drops and without
a finalizer that came too late for its resource. They
say "eventually always", as the bounds make changes and faults end.

## What is proved

Every safety invariant, action property and refinement that a passing run checks is also
a theorem, for every value of the constants that meets the `ASSUME`s: specs have the
fields the code reads, `Absent`, `Broken`, `None` and `NoHash` are told from real values,
bounds are natural numbers. There is no bound on the number of specs, versions,
resources, instances, pods, releases, changes or faults. Two theorems need more than
that, `SharedMemcachedProofs!InUseIsHeld` and `NothingIsHeldAfterwards`. They assume
`OneResourcePerKind`, and say so in their statement: the finalizer carries the kind of
its resource, not the name, so two resources of a kind share it. The Watcher creates one
of each kind.

Two theorems are about the behaviours without the one step that makes the property false,
each with its line under "hazards":

| Theorem | About behaviours with | Why |
|---|---|---|
| `WatcherProofs!NoWakeUpIsLost` | `[]Unswallowed` | the failure whose error is dropped does not meet a live resource |
| `RouteExposureProofs!NoWakeUpIsLost` | `[]~Misreported` | no failure for a new spec goes unreported because the copy shows an earlier one |

The second has a companion without such a condition, `OneFaultLosesNothing`: with at most
one failure or restart, at any point and with any number of changes, `RestIsExposed` holds.

| Property | Module: theorem | Strengthening |
|---|---|---|
| `TypeOK` | all eight modules: `TypeCorrect` | in `RouteExposure`, `Prepared`: a route is written with TLS only after its certificate was read. In `Admission`, `Admitted`. In the reconcilers it is inductive |
| `StatusMonotone` (a run checks it of the Applier) | the three service reconcilers' proofs: `StatusIsMonotone` | `Generations` |
| `MemcachedProtected` (a run checks it of the Applier) | the three service reconcilers' proofs: `MemcachedIsProtected` | `Phases`, `Held` (in the API `Carried`): from the step that adds it until deletion, the finalizer is there |
| `MemcachedReleased` (a run checks it of the API, as part of `NothingHeldBack`) | `WatcherApplierProofs`, `WatcherDecisionEngineProofs`: `NothingIsHeldBack` | `Progress`, `Final`, `Holding` |
| `RestIsTruthful` | `WatcherApplierProofs`, `WatcherDecisionEngineProofs`, `WatcherAPIProofs`, `WatcherProofs`: `NoWakeUpIsLost` | see below |
| `KeepsPromise` | the three service reconcilers' proofs: `KeepsThePromise` | `SameSpec`, `Reported` |
| `NothingHeldBack` | `WatcherAPIProofs`: `NothingIsHeldBack` | `Progress`, `Final`, `Holding`, `Carried` |
| `MigratedFirst` | `WatcherProofs`: `MigrationComesFirst` | `SyncRecorded` |
| `PrerequisitesFirst` | `WatcherProofs`: `PrerequisitesComeFirst` | `Phases`, `Prepared`, `Accounted` |
| `NoFinalizerLeft` | `WatcherProofs`: `NothingStaysHeld` | `Final`, `Holding` |
| `ServicesKeepPromise` | `WatcherProofs`: `ServicesKeepThePromise` | none |
| `RestIsExposed` | `RouteExposureProofs`: `NoWakeUpIsLost`, `OneFaultLosesNothing` | see below |
| `CertificatesAreUsable` | `RouteExposureProofs`: `RoutesAreUsable` | `Prepared` |
| `NeverPlainAgain` | `RouteExposureProofs`: `NoRouteFallsBack` | `Prepared` |
| `UsedIsHeld` | `SharedMemcachedProofs`: `InUseIsHeld` | `Alive`, `Releasing`, `Kept` |
| `NothingHeldAfterwards` | `SharedMemcachedProofs`: `NothingIsHeldAfterwards` | `Alive`, `CachedAlive`, `Releasing`, `Final`, `Recorded`, `LetGone` |
| `NeverBehindItsHash`, `InputsInPods` | `PodMaterialProofs`: `NoPodIsBehind`, `FollowedInputsArrive` | `Reading`, `Behind`, `Quiet` |
| `OwnWritesPass`, `NoEmptyImage` | `AdmissionProofs`: `NoWriteIsRefused`, `EveryServiceHasAnImage` | `Admitted` |

The arguments:

- *Nothing is turned back.* `Generations`: the resource's observed generation is at most
  that of the reconcile's copy, that at most the informer's, that at most the resource's;
  so a patch never has less to write than is there. `Phases`: a copy that is under
  deletion is right about it.
- *No lost wake-up in a service reconciler.* `RestIsTruthful` alone is not inductive, as
  it says nothing while a reconcile runs. `Unqueued` says that a reconcile with no key
  waiting works on the newest copy; `Progress` (in the API with `Reading` and `Reached`)
  what conditions and hash are at each step, and that what it has read is what is
  there unless a key waits; `Settled` that a reconcile that is about to end without an
  error and with no key waiting either changes the resource, and so causes an event, or
  has only the truth to tell. From these the last step to rest follows.
- *No lost wake-up in the Watcher.* The same argument with more to remember: `Reported`
  and `Open` are what the status says at each step, `Provided` what has been done
  (account protected, Prometheus secret protected, the services' secret written), `Found`
  what has been seen of Keystone and the services as long as no key waits.
- *The promise.* The initial states of each service reconciler are initial in
  `ServicePromise`; every step is one of its steps or changes nothing of it. `SameSpec`: a
  generation stands for one spec, whichever copy it is read from. `Reported`: only the end
  of a reconcile sets Ready, and says True only if the StatefulSet was told the spec the
  reconcile was started for. On the side of `Watcher`, every step changes a service
  resource by a step of `ServicePromise` or not at all.
- *Migration first.* A stored hash, in the resource or in any copy of it however old, is
  an image with a completed dbsync, and no reconcile is past `ensureDBSync` without one;
  a StatefulSet gets its image from the spec of a service resource, so it is migrated too.
- *The account in the services' secret.* `Accounted`: past `ensureDB` the account of the
  spec that the reconcile works with is held, past `createSubLevelSecret` the secret names
  that account, and only then are the finalizers of other accounts removed. So the
  account in the secret is held in every state, also while the spec moves from one to
  another and whatever fails on the way. This is the half of the comment before
  `DeleteUnusedMariaDBAccountFinalizers` that is true; the other half, about the account
  that running pods connect with, is what `WatcherRotation` refutes. The run
  `WatcherUpgrade` has one account only; several are the theorem's.
- *Deletion releases.* `Holding`, in all four reconcilers: finalizers on other objects
  stand behind the resource's own, which no reconcile drops before it has released the
  rest, and no stale copy is read as if it had a finalizer that the resource lost.
  `Final`: a copy that is under deletion has the spec there is, as no other is written
  any more; so what the deletion releases is what the last spec names, whatever earlier
  specs named.
- *Shared instances.* An instance with a finalizer is there (`Alive`), only a resource
  under deletion is about to release (`Releasing`), and while a resource lives its
  finalizer is on every instance that a copy shows with it, that its StatefulSet uses, or
  that its reconcile is about to deploy with (`Kept`). A deletion is about the instance
  the resource names, which cannot change any more (`Final`). What its copy does not show
  is not there, or was put on by the resource itself and has not been delivered
  (`Recorded`); and only the resource's own reconcile, which is at rest when the resource
  has gone, puts the finalizer back (`LetGone`).
- *Two reconcilers and a route.* On the API's side, a status that says the Service of
  the current spec is written is right (`SaysTheTruth`), and its controller rests only
  with such a status or with one that the informer has still to deliver (`APIQuiet`). Its
  patch is compared with a copy that may miss its own last one; that the generation it
  writes is the one it is about all the same follows from `Generations`, and that it does
  not leave an old True beside a new generation takes that the failure is reported. To
  fail to report one takes two failures (`Counted`). On the Watcher's side (`Quiet`), with no key waiting
  nothing has changed since the reconcile began but the Service, and this only while it
  is not announced; the announcement is the event.
- *Pods.* Whatever stands for inputs, a hash in the status, in the template or in
  a pod, is not newer than what a container would find now (`Behind`, `Backed`), for the
  configuration is rendered first. With no key waiting what the reconcile has read is
  what the informer has (`Quiet`).
- *Admission.* Whatever is stored, cached or being worked with is complete, and the
  webhooks of all releases agree about complete resources.

Only model-checked: liveness (`Converges`, `PodsConverge`, `DeletionCompletes`,
`InstanceGoes`), which with `ENABLED` is beyond the proof system.

## What is not modelled, and why

- Garbage collection of owned objects, except for the service resources in `Admission`.
- The three conditions of RBAC are one; public and internal Service are one; node
  selectors, resources, labels, probes and commands are left out, being copied only, and
  so are the overrides a user may give for Service and Route.
- Two failed lookups of Memcached in a row during deletion: the code drops that error,
  and the second time nothing is left to patch, so the deletion would wait for
  an unrelated event. `DeletionCompletes` is checked with one fault.
- A finalizer on Memcached that the informer has not delivered, in the modules of the
  single reconcilers: they look the instance up as it is. `SharedMemcached` has the copy,
  and its exception goes for what those modules say of the release, too
  (`MemcachedReleased`, `NothingHeldBack`, `DeletionCompletes`).
- `SharedMemcached` has the resource go with its Memcached finalizer; the status, the
  resource's own finalizer and what comes between are in `ServiceCR`.
- `PodMaterial` has versions that only grow; a secret that returns to an earlier content
  is, for a hash, as if nothing had happened.
- A manager that runs without webhooks (`ENABLE_WEBHOOKS=false`), its flags, metrics and
  leader election, which are libraries' code.
- Manifests, generated code and tests.

## Plan

Done: all components with state of their own, their composition by `ServicePromise`, and
a proof of every safety property that is checked. The plan ends here. One item was
dropped: consequences of `ServicePromise` alone, stated about the abstract module. Its
actions are the promise, and what follows from them without a reconciler restates a guard
of one; what the Watcher makes of them is `WatcherProofs!NoWakeUpIsLost`. A next step
would be outside the present modules: liveness by proof, once the proof system has rules
for fairness, and the objects that are garbage collected.
