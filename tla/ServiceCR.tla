----------------------------- MODULE ServiceCR ------------------------------
(***************************************************************************)
(* What the reconcilers of the three service resources (WatcherAPI,        *)
(* WatcherDecisionEngine, WatcherApplier) have in common: the custom       *)
(* resource on the API server, the controller's cached copy of it, the     *)
(* work queue, the inputs a service is configured from, the StatefulSet it *)
(* runs as, and the steps that the reconcilers are put together from.      *)
(*                                                                         *)
(* A reconcile is cut into one step per access to the API server, because  *)
(* that is where it interleaves with users, with other controllers and     *)
(* with a crash of the operator's pod.                                     *)
(***************************************************************************)
EXTENDS Naturals, Conditions

CONSTANTS
    Specs,       \* the specs the parent controller may write, see SpecShape
    Versions,    \* contents of an input: secret data, server lists, URLs
    Absent,      \* an input that does not exist
    Broken,      \* an input that exists but cannot be used yet: a secret
                 \* without an expected field, a Memcached that is not ready,
                 \* a KeystoneAPI without the endpoint
    StartInputs, \* the states inputs may be in when the resource is created
    NoHash,      \* no hash was stored or rendered yet
    MaxChanges,  \* bound on the changes of the environment
    MaxFaults,   \* bound on failed API calls and crashes
    MaxBoth      \* bound on changes and faults together

VARIABLES
    cr,       \* the resource on the API server
    cache,    \* the informer's copy of it, which lags behind
    queue,    \* the key of the resource waits in the work queue
    pc,       \* the next step of the reconcile in progress, or "idle"
    base,     \* the resource as the reconcile read it (helper.beforeObject)
    inst,     \* the resource as the reconcile has changed it (instance)
    seen,     \* contents of the inputs this reconcile has read (configVars)
    outcome,  \* what the reconcile returns: "none", "after" (requeue later),
              \* "error", or "swallowed": nothing although a call failed
    input,    \* the inputs as they are now
    memFin,   \* the Memcached instances that carry this kind's finalizer
    config,   \* content of the generated <name>-config-data secret
    sts,      \* the StatefulSet
    changes, faults

controllerVars == <<pc, base, inst, seen, outcome>>
vars == <<cr, cache, queue, pc, base, inst, seen, outcome, input, memFin,
          config, sts, changes, faults>>

\* What the reconcilers tell apart in a spec: cfg goes into the rendered
\* configuration only, img into the pod template only.
SpecShape(s) == /\ {"cfg", "img", "replicas", "memcached"} \subseteq DOMAIN s
                /\ s.replicas \in Nat

ASSUME SpecsAssumption == Specs # {} /\ \A s \in Specs : SpecShape(s)
ASSUME InputAssumption == Absent \notin Versions /\ Broken \notin Versions
                          /\ Absent # Broken /\ Versions # {}
ASSUME StartAssumption == StartInputs \subseteq Versions \cup {Absent, Broken}
ASSUME BoundsAssumption ==
    MaxChanges \in Nat /\ MaxFaults \in Nat /\ MaxBoth \in Nat

\* Inputs that are read, and hashed, but that no controller watches.
Unwatched == {"memcached", "keystone"}

InputStates == Versions \cup {Absent, Broken}

NoSts == [exists |-> FALSE, img |-> NoHash, replicas |-> 0, hash |-> NoHash,
          observed |-> FALSE, ready |-> 0, rolled |-> FALSE]

\* A resource its parent has just created.
NewCR(s, types) ==
    [phase |-> "Live", gen |-> 1, spec |-> s, fin |-> FALSE, obs |-> 0,
     cond |-> [t \in types |-> "NotSet"], hash |-> NoHash, readyCount |-> 0]

NothingSeen == [i \in DOMAIN input |-> Absent]

\* Between two reconciles base and inst hold nothing.
Blank == NewCR(CHOOSE s \in Specs : TRUE, DOMAIN cr.cond)

-----------------------------------------------------------------------------
(***************************************************************************)
(* What every reconcile does to the resource itself.                       *)
(***************************************************************************)

\* initStatus: all conditions Unknown, the generation counts as observed.
InitStatus(o) == [o EXCEPT !.cond = InitConditions(DOMAIN o.cond),
                           !.obs = o.gen]

Marked(o, t, status) == [o EXCEPT !.cond = SetCondition(o.cond, t, status)]

\* helper.PatchInstance: a merge patch of what differs from the copy read at
\* the start, without a check of the resource version.  The API server drops
\* a resource under deletion with its last finalizer; a patch of a resource
\* that is gone is ignored.
PatchInstance(server, before, after) ==
    LET written == [server EXCEPT
            !.fin  = IF after.fin # before.fin THEN after.fin ELSE @,
            !.obs  = IF after.obs # before.obs THEN after.obs ELSE @,
            !.cond = IF after.cond # before.cond THEN after.cond ELSE @,
            !.hash = IF after.hash # before.hash THEN after.hash ELSE @,
            !.readyCount =
                IF after.readyCount # before.readyCount THEN after.readyCount
                ELSE @]
    IN  IF server.phase = "Gone" THEN server
        ELSE IF written.phase = "Deleting" /\ ~written.fin
             THEN [written EXCEPT !.phase = "Gone"]
             ELSE written

GoTo(step, o) == pc' = step /\ inst' = o /\ UNCHANGED outcome

Return(o, result) == pc' = "exit" /\ inst' = o /\ outcome' = result

Bounded == changes + faults < MaxBoth

\* A call to the API server fails.
Fault == Bounded /\ faults < MaxFaults /\ faults' = faults + 1
NoFault == UNCHANGED faults

Forget == /\ pc' = "idle" /\ base' = Blank /\ inst' = Blank
          /\ seen' = NothingSeen /\ outcome' = "none"

\* The beginning of Reconcile, up to the first input: read the resource from
\* the cache, reset its status, return at once if it is new or has just got
\* its finalizer, branch off if it is being deleted.
Fetch(first) ==
    LET o == InitStatus(cache)
        addFinalizer == cache.phase = "Live" /\ ~cache.fin
    IN  /\ pc = "idle" /\ queue
        /\ queue' = FALSE
        /\ \/ cache.phase = "Gone" /\ UNCHANGED controllerVars
           \/ /\ cache.phase # "Gone"
              /\ base' = cache
              /\ inst' = IF addFinalizer THEN [o EXCEPT !.fin = TRUE] ELSE o
              /\ pc' = IF addFinalizer \/ NilConditions(cache.cond) THEN "exit"
                       ELSE IF cache.phase = "Deleting" THEN "delete"
                       ELSE first
              /\ UNCHANGED <<seen, outcome>>
        /\ UNCHANGED <<cr, cache, input, memFin, config, sts, changes, faults>>

\* Mutant: an update with the whole object, whatever happened meanwhile.
ExitWithUpdate ==
    /\ pc = "exit" /\ NoFault
    /\ cr' = [inst EXCEPT !.cond = MirrorUndecided(inst.cond)]
    /\ queue' = (queue \/ outcome \in {"after", "error"})
    /\ Forget
    /\ UNCHANGED <<cache, input, memFin, config, sts, changes>>

\* The deferred function: mirror, patch, hand the result to the queue.
Exit ==
    /\ pc = "exit"
    /\ \/ /\ NoFault
          /\ cr' = PatchInstance(cr, base,
                       [inst EXCEPT !.cond = MirrorUndecided(inst.cond)])
          /\ queue' = (queue \/ outcome \in {"after", "error"})
       \/ Fault /\ UNCHANGED cr /\ queue' = TRUE
    /\ Forget
    /\ UNCHANGED <<cache, input, memFin, config, sts, changes>>

-----------------------------------------------------------------------------
(***************************************************************************)
(* The steps the reconcilers share.                                        *)
(***************************************************************************)

\* ensureSecret of watcher_common.go for the input i, followed by the step
\* next with the resource o.
EnsureSecret(i, next, o) ==
    /\ pc = i
    /\ \/ /\ input[i] = Absent /\ NoFault
          /\ Return(Marked(inst, "InputReady", "Info"), "after")
          /\ UNCHANGED seen
       \/ /\ (input[i] = Broken /\ NoFault) \/ Fault
          /\ Return(Marked(inst, "InputReady", "Warning"), "error")
          /\ UNCHANGED seen
       \/ /\ input[i] \in Versions /\ NoFault
          /\ seen' = [seen EXCEPT ![i] = input[i]]
          /\ GoTo(next, o)
    /\ UNCHANGED <<cr, cache, queue, base, input, memFin, config, sts, changes>>

\* ensureSecret for a caller that takes a missing secret for an error, too.
RequireSecret(i, next, o) ==
    /\ pc = i
    /\ \/ /\ (input[i] \notin Versions /\ NoFault) \/ Fault
          /\ Return(Marked(inst, "InputReady", "Warning"), "error")
          /\ UNCHANGED seen
       \/ /\ input[i] \in Versions /\ NoFault
          /\ seen' = [seen EXCEPT ![i] = input[i]]
          /\ GoTo(next, o)
    /\ UNCHANGED <<cr, cache, queue, base, input, memFin, config, sts, changes>>

\* AddFinalizer and RemoveFinalizer with an update of the other object.
\* Mutant: the update is forgotten.
AddFinalizerForgotten(held, name) == held
AddFinalizer(held, name) == held \cup {name}
RemoveFinalizer(held, name) == held \ {name}

\* ensureMemcached of watcher_common.go, and the finalizer the reconcilers
\* then put on the Memcached instance.
EnsureMemcached(next) ==
    LET ready == Marked(inst, "MemcachedReady", "True")
        name == base.spec.memcached
    IN  /\ pc = "memcached"
        /\ \/ /\ input["memcached"] \in {Absent, Broken} /\ NoFault
              /\ Return(Marked(inst, "MemcachedReady", "Info"), "error")
              /\ UNCHANGED <<seen, memFin>>
           \/ /\ Fault
              /\ Return(Marked(inst, "MemcachedReady", "Warning"), "error")
              /\ UNCHANGED <<seen, memFin>>
           \/ /\ input["memcached"] \in Versions /\ NoFault
              /\ seen' = [seen EXCEPT !["memcached"] = input["memcached"]]
              /\ memFin' = AddFinalizer(memFin, name)
              /\ GoTo(next, ready)
        /\ UNCHANGED <<cr, cache, queue, base, input, config, sts, changes>>

\* Mutant: the error is dropped.
KeystoneMissingIgnored ==
    /\ (input["keystone"] = Absent /\ NoFault) \/ Fault
    /\ Return(Marked(inst, "ServiceConfigReady", "Warning"), "none")
    /\ UNCHANGED <<seen, config, queue>>

\* generateServiceConfigs: a KeystoneAPI that is missing or cannot be read is
\* reported in ServiceConfigReady; a missing endpoint, a failed lookup of the database
\* and a failed write of the secret return the bare error.  The config-data
\* secret is owned, so changing it wakes the controller up.
KeystoneMissing ==
    /\ (input["keystone"] = Absent /\ NoFault) \/ Fault
    /\ Return(Marked(inst, "ServiceConfigReady", "Warning"), "error")
    /\ UNCHANGED <<seen, config, queue>>

ConfigsFail ==
    /\ (input["keystone"] = Broken /\ NoFault) \/ Fault
    /\ Return(inst, "error")
    /\ UNCHANGED <<seen, config, queue>>

Rendered == [cfg |-> base.spec.cfg,
             in |-> [seen EXCEPT !["keystone"] = input["keystone"]]]

ConfigsWritten ==
    /\ input["keystone"] \in Versions /\ NoFault
    /\ seen' = Rendered.in
    /\ config' = Rendered
    /\ queue' = (queue \/ config # Rendered)

\* Mutant: the new hash does not get into the status.
CheckHashUnsaved(h, next) ==
    IF inst.hash # h
    THEN Return(inst, "none")
    ELSE GoTo(next, Marked(inst, "ServiceConfigReady", "True"))

\* Mutant: another hash than the stored one is not noticed.
CheckHashIgnored(h, next) ==
    IF inst.hash = NoHash
    THEN Return([inst EXCEPT !.hash = h], "none")
    ELSE GoTo(next, Marked(inst, "ServiceConfigReady", "True"))

\* createHashOfInputHashes and its caller: a new hash is stored, and the
\* reconcile returns to be started again by its own status update.
CheckHash(h, next) ==
    IF inst.hash # h
    THEN Return([inst EXCEPT !.hash = h], "none")
    ELSE GoTo(next, Marked(inst, "ServiceConfigReady", "True"))

\* The StatefulSet of a spec and a hash; a change of the template or of the
\* number of replicas is a new generation, which the StatefulSet controller
\* has yet to observe.
AppliedSts(spec, h) ==
    LET wanted == [exists |-> TRUE, img |-> spec.img,
                   replicas |-> spec.replicas, hash |-> h]
        same == \A f \in DOMAIN wanted : sts[f] = wanted[f]
        sameTemplate == sts.exists /\ sts.img = spec.img /\ sts.hash = h
    IN  IF same THEN sts
        ELSE [exists |-> TRUE, img |-> spec.img, replicas |-> spec.replicas,
              hash |-> h, observed |-> FALSE, ready |-> sts.ready,
              rolled |-> sameTemplate /\ sts.rolled]

\* Mutant: ready pods count although the StatefulSet controller has not seen
\* the new generation.
DeployedUnobserved(o, s) ==
    LET counted == [o EXCEPT !.readyCount = s.ready]
    IN  Marked(counted, "DeploymentReady",
               IF counted.readyCount = o.spec.replicas THEN "True" ELSE "Info")

\* ensureDeployment once CreateOrPatch has returned the StatefulSet s.
Deployed(o, s) ==
    LET counted == IF s.observed THEN [o EXCEPT !.readyCount = s.ready] ELSE o
    IN  Marked(counted, "DeploymentReady",
               IF s.observed /\ counted.readyCount = o.spec.replicas
               THEN "True" ELSE "Info")

\* The end of Reconcile.
Finished(o) == IF AllSubConditionIsTrue(o.cond) THEN Marked(o, "Ready", "True")
               ELSE o

\* ensureDeployment of WatcherApplier and WatcherDecisionEngine and the end
\* of their Reconcile.  A StatefulSet that is patched after it was deleted,
\* while its event is still on the way, is reported as in progress.
DeployAndFinish ==
    /\ pc = "deploy"
    /\ \/ /\ NoFault
          /\ sts' = AppliedSts(base.spec, inst.hash)
          /\ queue' = (queue \/ sts' # sts)
          /\ Return(Finished(Deployed(inst, sts')), "none")
       \/ /\ NoFault /\ ~sts.exists /\ queue
          /\ Return(Finished(Marked(inst, "DeploymentReady", "Info")), "none")
          /\ UNCHANGED <<sts, queue>>
       \/ /\ Fault
          /\ Return(Marked(inst, "DeploymentReady", "Warning"), "error")
          /\ UNCHANGED <<sts, queue>>
    /\ UNCHANGED <<cr, cache, base, seen, input, memFin, config, changes>>

\* The resource is let go.  Mutant: it keeps its own finalizer.
KeepsFinalizer(o) == o
DropsFinalizer(o) == [o EXCEPT !.fin = FALSE]

\* reconcileDelete, after what the WatcherAPI does first: release the
\* Memcached instance of the current spec, then the resource.  A failed
\* lookup of Memcached returns without an error.
ReleaseMemcached ==
    LET name == base.spec.memcached
    IN  \/ Fault /\ Return(inst, "swallowed") /\ UNCHANGED memFin
        \/ name \in memFin /\ Fault /\ Return(inst, "error") /\ UNCHANGED memFin
        \/ /\ NoFault
           /\ memFin' = RemoveFinalizer(memFin, name)
           /\ Return(DropsFinalizer(inst), "none")

-----------------------------------------------------------------------------
(***************************************************************************)
(* The environment: the parent controller and users, the StatefulSet       *)
(* controller, the informer, the pod the operator runs in.                 *)
(***************************************************************************)

Change == Bounded /\ changes < MaxChanges /\ changes' = changes + 1

\* The parent writes another spec.
UpdateSpec ==
    /\ Change /\ cr.phase = "Live"
    /\ \E s \in Specs \ {cr.spec} :
          cr' = [cr EXCEPT !.spec = s, !.gen = @ + 1]
    /\ UNCHANGED <<cache, queue, controllerVars, input, memFin, config, sts,
                   faults>>

\* The resource is deleted; without a finalizer it is gone at once.
DeleteCR ==
    /\ Change /\ cr.phase = "Live"
    /\ cr' = [cr EXCEPT !.phase = IF cr.fin THEN "Deleting" ELSE "Gone",
                        !.gen = @ + 1]
    /\ UNCHANGED <<cache, queue, controllerVars, input, memFin, config, sts,
                   faults>>

\* An input appears, changes, breaks or disappears.  A Memcached that
\* carries a finalizer does not disappear.
ChangeInput ==
    /\ Change
    /\ \E i \in DOMAIN input : \E v \in InputStates \ {input[i]} :
          /\ i = "memcached" /\ v = Absent => memFin = {}
          /\ input' = [input EXCEPT ![i] = v]
          /\ queue' = (queue \/ i \notin Unwatched)
    /\ UNCHANGED <<cr, cache, controllerVars, memFin, config, sts, faults>>

StsEvent == /\ queue' = TRUE
            /\ UNCHANGED <<cr, cache, controllerVars, input, memFin, config,
                           faults>>

\* Somebody deletes the StatefulSet, or one of its pods stops being ready.
DisturbSts ==
    /\ Change /\ StsEvent /\ sts.exists
    /\ \/ sts' = NoSts
       \/ sts.ready > 0 /\ sts' = [sts EXCEPT !.ready = @ - 1]

\* The StatefulSet controller takes note of a generation, before it touches
\* a pod ...
ObserveSts ==
    /\ sts.exists /\ ~sts.observed
    /\ sts' = [sts EXCEPT !.observed = TRUE]
    /\ StsEvent /\ UNCHANGED changes

\* ... then replaces the pods of an old template ...
RollSts ==
    /\ sts.exists /\ sts.observed /\ ~sts.rolled
    /\ sts' = [sts EXCEPT !.rolled = TRUE, !.ready = 0]
    /\ StsEvent /\ UNCHANGED changes

\* ... and starts or stops pods until their number is right.
ScaleSts ==
    /\ sts.exists /\ sts.observed /\ sts.rolled /\ sts.ready # sts.replicas
    /\ sts' = [sts EXCEPT !.ready = IF @ < sts.replicas THEN @ + 1 ELSE @ - 1]
    /\ StsEvent /\ UNCHANGED changes

\* The informer catches up with the API server.
SyncCache ==
    /\ cache # cr
    /\ cache' = cr /\ queue' = TRUE
    /\ UNCHANGED <<cr, controllerVars, input, memFin, config, sts, changes,
                   faults>>

\* The operator restarts: it lists every resource and reconciles it.
Crash ==
    /\ Fault
    /\ cache' = cr /\ queue' = TRUE /\ Forget
    /\ UNCHANGED <<cr, input, memFin, config, sts, changes>>

Environment == UpdateSpec \/ DeleteCR \/ ChangeInput \/ DisturbSts \/ Crash
StsController == ObserveSts \/ RollSts \/ ScaleSts

\* The resource was just created.
ServiceInit(types, inputs) ==
    /\ \E s \in Specs : cr = NewCR(s, types)
    /\ cache = cr /\ queue = TRUE
    /\ input \in [inputs -> StartInputs]
    /\ pc = "idle" /\ base = Blank /\ inst = Blank
    /\ seen = NothingSeen /\ outcome = "none"
    /\ memFin = {} /\ config = NoHash /\ sts = NoSts
    /\ changes = 0 /\ faults = 0

-----------------------------------------------------------------------------
(***************************************************************************)
(* What the properties of the three services are put together from.        *)
(***************************************************************************)

Hashes(inputs) == {NoHash} \cup [cfg : {s.cfg : s \in Specs},
                                 in : [inputs -> InputStates]]

CRs(types, inputs) ==
    [phase : {"Live", "Deleting", "Gone"}, gen : Nat, spec : Specs,
     fin : BOOLEAN, obs : Nat, cond : [types -> Statuses],
     hash : Hashes(inputs), readyCount : Nat]

TypesOK(types, inputs, steps) ==
    /\ cr \in CRs(types, inputs) /\ cache \in CRs(types, inputs)
    /\ base \in CRs(types, inputs) /\ inst \in CRs(types, inputs)
    /\ queue \in BOOLEAN
    /\ outcome \in {"none", "after", "error", "swallowed"}
    /\ pc \in {"idle", "delete", "exit"} \cup steps
    /\ seen \in [inputs -> InputStates]
    /\ input \in [inputs -> InputStates]
    /\ memFin \subseteq {s.memcached : s \in Specs}
    /\ sts \in [exists : BOOLEAN, img : {NoHash} \cup {s.img : s \in Specs},
                replicas : Nat, hash : Hashes(inputs), observed : BOOLEAN,
                ready : Nat, rolled : BOOLEAN]
    /\ config \in Hashes(inputs)
    /\ changes \in Nat /\ faults \in Nat

\* Nothing is under way: no reconcile, no key in the queue, and the informer
\* knows the newest version of the resource.
AtRest == pc = "idle" /\ ~queue /\ cache = cr

Available == sts.exists /\ sts.observed /\ sts.ready = sts.replicas

\* The StatefulSet is the one of the current spec, configured from a hash
\* that holds the current configuration and the watched inputs.
UpToDate ==
    /\ sts.exists
    /\ sts.img = cr.spec.img /\ sts.replicas = cr.spec.replicas
    /\ cr.hash # NoHash /\ sts.hash = cr.hash
    /\ cr.hash.cfg = cr.spec.cfg
    /\ \A i \in DOMAIN input \ Unwatched : cr.hash.in[i] = input[i]

UsableInputs == \A i \in DOMAIN input : input[i] \in Versions

\* A Memcached instance cannot disappear under a service that was deployed
\* with it: the finalizer is on it before the StatefulSet exists.
MemcachedProtected ==
    cr.phase = "Live" /\ sts.exists => input["memcached"] # Absent

\* A resource that is gone does not hold back the Memcached instance its spec
\* named last, whatever failed while it was being deleted.
MemcachedReleased == cr.phase = "Gone" => cr.spec.memcached \notin memFin

\* The resource as its owner sees it, and what the StatefulSet runs.
Wanted == [img |-> cr.spec.img, replicas |-> cr.spec.replicas,
           cfg |-> cr.spec.cfg]
Told == IF sts.exists THEN [img |-> sts.img, replicas |-> sts.replicas,
                            cfg |-> sts.hash.cfg]
        ELSE NoHash

Promise == INSTANCE ServicePromise
           WITH None <- NoHash, phase <- cr.phase, wanted <- Wanted,
                observed <- cr.obs = cr.gen, ready <- cr.cond["Ready"],
                told <- Told

\* The reconciler keeps the promise that the Watcher builds on: what it does
\* to a service resource implements ServicePromise, so neither a stale copy,
\* a late patch nor a restart makes it report Ready for a spec that the
\* StatefulSet was never told, or tell the StatefulSet an earlier spec once
\* it has acknowledged a later one.
KeepsPromise == Promise!Spec
=============================================================================
