------------------------------ MODULE Watcher -------------------------------
(***************************************************************************)
(* The reconciler of the top-level Watcher resource,                       *)
(* controllers/watcher_controller.go: it asks other operators for a        *)
(* database, a message queue and a Keystone service, collects what they    *)
(* return in one secret, migrates the database, and keeps the three        *)
(* service resources.  The reconcilers of those are the modules WatcherAPI,*)
(* WatcherDecisionEngine and WatcherApplier; here each of them is reduced  *)
(* to what it promises its parent.                                         *)
(***************************************************************************)
EXTENDS Naturals, Conditions

CONSTANTS
    Specs,       \* the specs a user may write: records with the fields img
                 \* (container images), cfg (customServiceConfig), acct (the
                 \* MariaDBAccount) and prom (the Prometheus secret)
    Versions, Absent, Broken,  \* states of an input, as in ServiceCR
    StartInputs, \* the states inputs may be in at the start
    Volatile,    \* the inputs that the environment changes, and "keystone"
                 \* and "services", where these may break by themselves
    Kinds,       \* the service resources looked at, of the three there are;
                 \* the step of one that is left out does nothing
    None,        \* no image, no secret, no StatefulSet
    MaxChanges,  \* bound on the changes of the environment
    MaxFaults,   \* bound on failed API calls and crashes
    MaxBoth      \* bound on changes and faults together

VARIABLES
    cr, cache, queue,     \* the resource, the informer's copy, the work queue
    pc, base, inst, seen, outcome,  \* the reconcile in progress
    input,      \* secret, transport, prometheus, database and ingress inputs
    acctFin,    \* the MariaDBAccounts that carry the finalizer
    promFin,    \* the Prometheus secrets that carry the finalizer
    ks,         \* the KeystoneService
    jobs,       \* config of the database jobs, dbsync Job and purge CronJob
    migrated,   \* the images whose dbsync has completed
    subSecret,  \* the secret with everything the services need
    sub,        \* the three service resources
    changes, faults

controllerVars == <<pc, base, inst, seen, outcome>>
worldVars == <<acctFin, promFin, ks, jobs, migrated, subSecret, sub>>
vars == <<cr, cache, queue, controllerVars, input, worldVars, changes, faults>>

ASSUME SpecsAssumption ==
    /\ Specs # {}
    /\ \A s \in Specs : {"img", "cfg", "acct", "prom"} \subseteq DOMAIN s
    /\ \A s \in Specs : s.img # None
ASSUME InputAssumption == Absent \notin Versions /\ Broken \notin Versions
                          /\ Absent # Broken /\ Versions # {}
ASSUME StartAssumption == StartInputs \subseteq Versions \cup {Absent, Broken}
ASSUME VolatileAssumption ==
    Volatile \subseteq {"secret", "transport", "prometheus", "database",
                        "ingress", "keystone", "services"}
ASSUME BoundsAssumption ==
    MaxChanges \in Nat /\ MaxFaults \in Nat /\ MaxBoth \in Nat

ASSUME KindsAssumption == Kinds \subseteq {"api", "decisionengine", "applier"}

SubCondition == [api |-> "WatcherAPIReady", applier |-> "WatcherApplierReady",
                 decisionengine |-> "WatcherDecisionEngineReady"]

\* initConditions.  RBACReady stands for the three conditions of the service
\* account, the role and the role binding, which are set together.
InitialConditions == {"Ready", "RBACReady", "DBReady", "TransportURLReady",
    "InputReady", "KeystoneServiceReady", "ServiceConfigReady", "DBSyncReady",
    "CronJobReady", "ExposeServiceReady"} \cup {SubCondition[k] : k \in Kinds}

\* ensureDB sets one more condition, which is never reset.
WatcherConditions == InitialConditions \cup {"MariaDBAccountReady"}

Inputs == {"secret", "transport", "prometheus", "database", "ingress"}

\* The content of the TransportURL's secret is read but not watched.
Unwatched == {"transport"}

InputStates == Versions \cup {Absent, Broken}

NewCR(s) == [phase |-> "Live", gen |-> 1, spec |-> s, fin |-> FALSE, obs |-> 0,
             cond |-> [t \in WatcherConditions |-> "NotSet"], hash |-> None]

Blank == NewCR(CHOOSE s \in Specs : TRUE)
NothingSeen == [i \in Inputs |-> Absent]

\* What ensureAPI, ensureDecisionEngine and ensureApplier write.
SubSpec(s) == [img |-> s.img, prom |-> s.prom]

\* A service resource that was not created yet.  Its generation matters only
\* in comparison to the observed one.
NoSub == [exists |-> FALSE, spec |-> None, observed |-> FALSE,
          ready |-> "NotSet", told |-> None]

NoJobs == [config |-> None, sync |-> None, state |-> "none", purge |-> None]

-----------------------------------------------------------------------------
(***************************************************************************)
(* The frame of the reconcile.                                             *)
(***************************************************************************)

InitStatus(o) ==
    [o EXCEPT !.obs = o.gen,
              !.cond = [t \in WatcherConditions |->
                           IF t \in InitialConditions THEN "Unknown"
                           ELSE o.cond[t]]]

Marked(o, t, status) == [o EXCEPT !.cond = SetCondition(o.cond, t, status)]

\* helper.PatchInstance: a merge patch of what differs from the copy read at
\* the start.  A resource under deletion goes with its last finalizer; a
\* patch of a resource that is gone is ignored.
PatchInstance(server, before, after) ==
    LET written == [server EXCEPT
            !.fin  = IF after.fin # before.fin THEN after.fin ELSE @,
            !.obs  = IF after.obs # before.obs THEN after.obs ELSE @,
            !.cond = IF after.cond # before.cond THEN after.cond ELSE @,
            !.hash = IF after.hash # before.hash THEN after.hash ELSE @]
    IN  IF server.phase = "Gone" THEN server
        ELSE IF written.phase = "Deleting" /\ ~written.fin
             THEN [written EXCEPT !.phase = "Gone"]
             ELSE written

GoTo(step, o) == pc' = step /\ inst' = o /\ UNCHANGED outcome
Return(o, result) == pc' = "exit" /\ inst' = o /\ outcome' = result

Bounded == changes + faults < MaxBoth

Fault == Bounded /\ faults < MaxFaults /\ faults' = faults + 1
NoFault == UNCHANGED faults

Forget == /\ pc' = "idle" /\ base' = Blank /\ inst' = Blank
          /\ seen' = NothingSeen /\ outcome' = "none"

\* A step that reports its failure in the condition t.
FailWith(t, status) == Fault /\ Return(Marked(inst, t, status), "error")

\* What no step of a reconcile but its last one changes.
Within == UNCHANGED <<cr, cache, base, input, changes>>

\* Reconcile up to initStatus.
Start ==
    /\ pc = "idle" /\ queue
    /\ queue' = FALSE
    /\ \/ cache.phase = "Gone" /\ UNCHANGED controllerVars
       \/ /\ cache.phase # "Gone"
          /\ base' = cache /\ GoTo("rbac", InitStatus(cache))
          /\ UNCHANGED seen
    /\ UNCHANGED <<cr, cache, input, worldVars, changes, faults>>

\* ensureRbac, then the early returns: a new resource, or one that has just
\* got its finalizer, and the branch to reconcileDelete.
EnsureRbac ==
    LET o == Marked(inst, "RBACReady", "True")
        addFinalizer == base.phase = "Live" /\ ~base.fin
    IN  /\ pc = "rbac"
        /\ \/ FailWith("RBACReady", "Warning")
           \/ /\ NoFault
              /\ IF addFinalizer \/ NilConditions(base.cond)
                 THEN Return([o EXCEPT !.fin = addFinalizer \/ @], "none")
                 ELSE GoTo(IF base.phase = "Deleting" THEN "deleteDB" ELSE "db",
                           o)
        /\ Within /\ UNCHANGED <<queue, seen, worldVars>>

\* A patch that fails fails the reconcile.  Mutant: it goes unnoticed.
PatchFailsUnnoticed == Fault /\ UNCHANGED <<cr, queue>>
PatchFails == Fault /\ UNCHANGED cr /\ queue' = TRUE

\* The deferred function: mirror, patch, hand the result to the queue.
Exit ==
    /\ pc = "exit"
    /\ \/ /\ NoFault
          /\ cr' = PatchInstance(cr, base,
                       [inst EXCEPT !.cond = MirrorUndecided(inst.cond)])
          /\ queue' = (queue \/ outcome \in {"after", "error"})
       \/ PatchFails
    /\ Forget
    /\ UNCHANGED <<cache, input, worldVars, changes>>

-----------------------------------------------------------------------------
(***************************************************************************)
(* The steps of the reconcile, in their order.                             *)
(***************************************************************************)

\* ensureDB: the account, then the database with both their finalizers, then
\* the wait for the MariaDB operator.
EnsureDB ==
    LET o == Marked(inst, "MariaDBAccountReady", "True")
    IN  /\ pc = "db"
        /\ \/ FailWith("MariaDBAccountReady", "Warning") /\ UNCHANGED <<acctFin, seen>>
           \/ /\ Fault /\ Return(Marked(o, "DBReady", "Warning"), "error")
              /\ UNCHANGED <<acctFin, seen>>
           \/ /\ NoFault
              /\ acctFin' = acctFin \cup {base.spec.acct}
              /\ \/ /\ input["database"] \notin Versions
                    /\ Return(Marked(o, "DBReady", "Info"), "after")
                    /\ UNCHANGED seen
                 \/ /\ input["database"] \in Versions
                    /\ seen' = [seen EXCEPT !["database"] = input["database"]]
                    /\ GoTo("mq", Marked(o, "DBReady", "True"))
        /\ Within
        /\ UNCHANGED <<queue, promFin, ks, jobs, migrated, subSecret, sub>>

\* ensureMQ and its caller: a TransportURL that is not ready is waited for,
\* one whose secret cannot be used is an error.
EnsureMQ ==
    /\ pc = "mq"
    /\ \/ FailWith("TransportURLReady", "Warning")
       \/ /\ NoFault /\ input["transport"] \notin Versions
          /\ Return(Marked(inst, "TransportURLReady", "Warning"),
                    IF input["transport"] = Absent THEN "after" ELSE "error")
       \/ /\ NoFault /\ input["transport"] \in Versions
          /\ GoTo("secret", Marked(inst, "TransportURLReady", "True"))
    /\ Within /\ UNCHANGED <<queue, seen, worldVars>>

\* One of the calls of ensureSecret; the caller turns a missing secret into
\* an error too.
EnsureSecret(i, next) ==
    /\ pc = i
    /\ \/ FailWith("InputReady", "Warning") /\ UNCHANGED seen
       \/ /\ NoFault /\ input[i] \notin Versions
          /\ Return(Marked(inst, "InputReady",
                           IF input[i] = Absent THEN "Info" ELSE "Warning"),
                    "error")
          /\ UNCHANGED seen
       \/ /\ NoFault /\ input[i] \in Versions
          /\ seen' = [seen EXCEPT ![i] = input[i]]
          /\ GoTo(next, inst)
    /\ Within /\ UNCHANGED <<queue, worldVars>>

InputSecret == EnsureSecret("secret", "transport")
TransportURLSecret == EnsureSecret("transport", "prometheus")

\* AddFinalizer with an update of the secret.  Mutant: it is forgotten.
PrometheusUnheld(name) == promFin
PrometheusHeld(name) == promFin \cup {name}

\* The Prometheus secret gets a finalizer once it is found usable.
PrometheusSecret ==
    /\ pc = "prometheus"
    /\ \/ FailWith("InputReady", "Warning") /\ UNCHANGED promFin
       \/ /\ NoFault /\ input["prometheus"] \notin Versions
          /\ Return(Marked(inst, "InputReady", "Warning"), "error")
          /\ UNCHANGED promFin
       \/ /\ NoFault /\ input["prometheus"] \in Versions
          /\ promFin' = PrometheusHeld(base.spec.prom)
          /\ GoTo("subSecret", inst)
    /\ Within
    /\ UNCHANGED <<queue, seen, acctFin, ks, jobs, migrated, subSecret, sub>>

Collected == [acct |-> base.spec.acct, cfg |-> base.spec.cfg,
              in |-> [i \in {"secret", "transport", "database"} |-> seen[i]]]

\* createSubLevelSecret; its caller drops the error.
CreateSubLevelSecret ==
    /\ pc = "subSecret"
    /\ \/ Fault /\ Return(inst, "swallowed") /\ UNCHANGED <<subSecret, queue>>
       \/ /\ NoFault
          /\ subSecret' = Collected
          /\ queue' = (queue \/ subSecret # Collected)
          /\ GoTo("keystone", Marked(inst, "InputReady", "True"))
    /\ Within
    /\ UNCHANGED <<seen, acctFin, promFin, ks, jobs, migrated, sub>>

\* Mutant: the conditions of the KeystoneService are not looked at.
KeystoneUnmirrored(o) == o
MirrorKeystone(o) == IF ks.status = "NotSet" THEN o
                     ELSE Marked(o, "KeystoneServiceReady", ks.status)

\* ensureKeystoneSvc: its conditions are mirrored, the reconcile goes on.
EnsureKeystoneSvc ==
    /\ pc = "keystone"
    /\ \/ FailWith("KeystoneServiceReady", "Error") /\ UNCHANGED <<ks, queue>>
       \/ /\ NoFault
          /\ ks' = [ks EXCEPT !.exists = TRUE, !.fin = TRUE]
          /\ queue' = (queue \/ ks' # ks)
          /\ GoTo("config", MirrorKeystone(inst))
    /\ Within
    /\ UNCHANGED <<seen, acctFin, promFin, jobs, migrated, subSecret, sub>>

\* generateServiceConfigDBJobs: config and scripts of the database jobs.
ServiceConfigDBJobs ==
    /\ pc = "config"
    /\ \/ FailWith("ServiceConfigReady", "Warning") /\ UNCHANGED <<jobs, queue>>
       \/ /\ NoFault
          /\ jobs' = [jobs EXCEPT !.config = Collected]
          /\ queue' = (queue \/ jobs' # jobs)
          /\ GoTo("dbsync", Marked(inst, "ServiceConfigReady", "True"))
    /\ Within
    /\ UNCHANGED <<seen, acctFin, promFin, ks, migrated, subSecret, sub>>

\* What the status says while the Job runs.
SyncRunning(o) == Marked(o, "DBSyncReady", "Info")

\* Nothing is left to migrate.  Mutant: a Job that has started is enough.
SyncStarted(image) == inst.hash = image \/ jobs.sync = image
SyncDone(image) ==
    inst.hash = image \/ (jobs.sync = image /\ jobs.state = "done")

\* ensureDBSync: the Job runs again when its definition, the image, differs
\* from the one whose hash is in the status, and the reconcile waits for it.
EnsureDBSync ==
    LET image == base.spec.img
    IN  /\ pc = "dbsync"
        /\ \/ FailWith("DBSyncReady", "Warning") /\ UNCHANGED <<jobs, queue>>
           \/ /\ NoFault /\ inst.hash # image /\ jobs.sync # image
              /\ jobs' = [jobs EXCEPT !.sync = image, !.state = "running"]
              /\ queue' = TRUE
              /\ Return(SyncRunning(inst), "after")
           \/ /\ NoFault /\ inst.hash # image /\ jobs.sync = image
              /\ jobs.state = "running"
              /\ Return(SyncRunning(inst), "after")
              /\ UNCHANGED <<jobs, queue>>
           \/ /\ NoFault /\ inst.hash # image /\ jobs.sync = image
              /\ jobs.state = "failed"
              /\ Return(Marked(inst, "DBSyncReady", "Warning"), "error")
              /\ UNCHANGED <<jobs, queue>>
           \/ /\ NoFault
              /\ SyncDone(image)
              /\ GoTo("cronjob", [Marked(inst, "DBSyncReady", "True")
                                     EXCEPT !.hash = image])
              /\ UNCHANGED <<jobs, queue>>
        /\ Within
        /\ UNCHANGED <<seen, acctFin, promFin, ks, migrated, subSecret, sub>>

EnsureDBPurgeCronJob ==
    /\ pc = "cronjob"
    /\ \/ FailWith("CronJobReady", "Warning") /\ UNCHANGED <<jobs, queue>>
       \/ /\ NoFault
          /\ jobs' = [jobs EXCEPT !.purge = base.spec.img]
          /\ queue' = (queue \/ jobs' # jobs)
          /\ GoTo("api", Marked(inst, "CronJobReady", "True"))
    /\ Within
    /\ UNCHANGED <<seen, acctFin, promFin, ks, migrated, subSecret, sub>>

\* The conditions count if they are about the spec that was written.  Mutant:
\* whatever spec they are about.
MirrorAnyGeneration(o, k, s) ==
    IF s.ready # "NotSet" THEN Marked(o, SubCondition[k], s.ready) ELSE o
MirrorSub(o, k, s) ==
    IF s.observed /\ s.ready # "NotSet"
    THEN Marked(o, SubCondition[k], s.ready) ELSE o

\* CreateOrPatch of a service resource: another spec is another generation.
\* Mutant: the one that was observed.
SubSameGeneration(k, wanted) ==
    [sub[k] EXCEPT !.exists = TRUE, !.spec = wanted]
SubWritten(k, wanted) ==
    IF sub[k].exists /\ sub[k].spec = wanted THEN sub[k]
    ELSE [sub[k] EXCEPT !.exists = TRUE, !.spec = wanted, !.observed = FALSE]

\* ensureAPI, ensureDecisionEngine, ensureApplier: write the spec of the
\* service resource; mirror its conditions if it has observed that spec.
EnsureSub(k, next) ==
    LET s == SubWritten(k, SubSpec(base.spec))
    IN  /\ pc = k
        /\ \/ k \notin Kinds /\ NoFault /\ GoTo(next, inst) /\ UNCHANGED <<sub, queue>>
           \/ /\ k \in Kinds /\ FailWith(SubCondition[k], "Error")
              /\ UNCHANGED <<sub, queue>>
           \/ /\ k \in Kinds /\ NoFault
              /\ sub' = [sub EXCEPT ![k] = s]
              /\ queue' = (queue \/ sub' # sub)
              /\ GoTo(next, MirrorSub(inst, k, s))
        /\ Within
        /\ UNCHANGED <<seen, acctFin, promFin, ks, jobs, migrated, subSecret>>

EnsureAPI == EnsureSub("api", "expose")
EnsureDecisionEngine == EnsureSub("decisionengine", "applier")
\* Mutant: goes on with a step that does not exist.
EnsureApplierLast == EnsureSub("applier", "finish")
EnsureApplier == EnsureSub("applier", "accounts")

ExposureReported(o) == Marked(o, "ExposeServiceReady", "True")

\* exposeEndpoints, reduced to its outcomes: a certificate of the route that
\* is missing is waited for, one that is not valid is an error.
ExposeEndpoints ==
    /\ pc = "expose"
    /\ \/ FailWith("ExposeServiceReady", "Warning")
       \/ /\ NoFault /\ input["ingress"] = Absent
          /\ Return(Marked(inst, "ExposeServiceReady", "Info"), "after")
       \/ /\ NoFault /\ input["ingress"] = Broken
          /\ Return(Marked(inst, "ExposeServiceReady", "Warning"), "error")
       \/ /\ NoFault /\ input["ingress"] \in Versions
          /\ GoTo("decisionengine", ExposureReported(inst))
    /\ Within /\ UNCHANGED <<queue, seen, worldVars>>

\* The end of Reconcile.  Mutant: whatever the conditions say, it is Ready.
FinishedAnyway(o) == Marked(o, "Ready", "True")
Finished(o) == IF AllSubConditionIsTrue(o.cond) THEN Marked(o, "Ready", "True")
               ELSE o

\* DeleteUnusedMariaDBAccountFinalizers releases every account but the
\* current one; then the end of Reconcile.
ReleaseUnusedAccounts ==
    /\ pc = "accounts"
    /\ \/ Fault /\ Return(inst, "error") /\ UNCHANGED acctFin
       \/ /\ NoFault
          /\ acctFin' = acctFin \cap {base.spec.acct}
          /\ Return(Finished(inst), "none")
    /\ Within
    /\ UNCHANGED <<queue, seen, promFin, ks, jobs, migrated, subSecret, sub>>

\* reconcileDelete: the database and its account, the KeystoneService, the
\* Prometheus secret of the current spec, the resource.
DeleteDBFinalizer ==
    /\ pc = "deleteDB"
    /\ \/ Fault /\ Return(inst, "error") /\ UNCHANGED acctFin
       \/ /\ NoFault
          /\ acctFin' = acctFin \ {base.spec.acct}
          /\ GoTo("deleteKS", inst)
    /\ Within
    /\ UNCHANGED <<queue, seen, promFin, ks, jobs, migrated, subSecret, sub>>

\* RemoveFinalizer with an update of the KeystoneService.  Mutant: it is
\* forgotten.
KeystoneKept == ks
KeystoneReleased == [ks EXCEPT !.fin = FALSE]

DeleteKSFinalizer ==
    /\ pc = "deleteKS"
    /\ \/ Fault /\ Return(inst, "error") /\ UNCHANGED <<ks, queue>>
       \/ /\ NoFault
          /\ ks' = KeystoneReleased
          /\ queue' = (queue \/ ks' # ks)
          /\ GoTo("deletePrometheus", inst)
    /\ Within
    /\ UNCHANGED <<seen, acctFin, promFin, jobs, migrated, subSecret, sub>>

\* The resource is let go.  Mutant: it keeps its own finalizer.
KeepsFinalizer(o) == o
DropsFinalizer(o) == [o EXCEPT !.fin = FALSE]

\* A lookup of the Prometheus secret that fails is taken for a secret that
\* does not exist.
DeletePrometheusFinalizer ==
    /\ pc = "deletePrometheus"
    /\ \/ /\ Fault /\ Return(DropsFinalizer(inst), "swallowed")
          /\ UNCHANGED promFin
       \/ /\ Fault /\ base.spec.prom \in promFin
          /\ Return(inst, "error") /\ UNCHANGED promFin
       \/ /\ NoFault
          /\ promFin' = promFin \ {base.spec.prom}
          /\ Return(DropsFinalizer(inst), "none")
    /\ Within
    /\ UNCHANGED <<queue, seen, acctFin, ks, jobs, migrated, subSecret, sub>>

Reconcile ==
    \/ Start \/ EnsureRbac \/ EnsureDB \/ EnsureMQ \/ InputSecret
    \/ TransportURLSecret \/ PrometheusSecret \/ CreateSubLevelSecret
    \/ EnsureKeystoneSvc \/ ServiceConfigDBJobs \/ EnsureDBSync
    \/ EnsureDBPurgeCronJob \/ EnsureAPI \/ ExposeEndpoints
    \/ EnsureDecisionEngine \/ EnsureApplier \/ ReleaseUnusedAccounts
    \/ DeleteDBFinalizer \/ DeleteKSFinalizer \/ DeletePrometheusFinalizer
    \/ Exit

-----------------------------------------------------------------------------
(***************************************************************************)
(* The environment: users, the other operators, the reconcilers of the     *)
(* service resources, the informer, the pod the operator runs in.          *)
(***************************************************************************)

Change == Bounded /\ changes < MaxChanges /\ changes' = changes + 1

UpdateSpec ==
    /\ Change /\ cr.phase = "Live"
    /\ \E s \in Specs \ {cr.spec} :
          cr' = [cr EXCEPT !.spec = s, !.gen = @ + 1]
    /\ UNCHANGED <<cache, queue, controllerVars, input, worldVars, faults>>

DeleteCR ==
    /\ Change /\ cr.phase = "Live"
    /\ cr' = [cr EXCEPT !.phase = IF cr.fin THEN "Deleting" ELSE "Gone",
                        !.gen = @ + 1]
    /\ UNCHANGED <<cache, queue, controllerVars, input, worldVars, faults>>

\* A Prometheus secret that carries a finalizer does not disappear.
ChangeInput ==
    /\ Change
    /\ \E i \in Volatile \cap Inputs : \E v \in InputStates \ {input[i]} :
          /\ i = "prometheus" /\ v = Absent => promFin = {}
          /\ input' = [input EXCEPT ![i] = v]
          /\ queue' = (queue \/ i \notin Unwatched)
    /\ UNCHANGED <<cr, cache, controllerVars, worldVars, faults>>

\* Something the Watcher resource owns has changed.
OwnedEvent == /\ queue' = TRUE
              /\ UNCHANGED <<cr, cache, controllerVars, input, faults, acctFin,
                             promFin, subSecret>>

\* The Keystone operator registers the service, or fails to.
KeystoneStep ==
    /\ ks.exists /\ OwnedEvent /\ UNCHANGED <<jobs, migrated, sub>>
    /\ \/ /\ ks.status # "True" /\ ks' = [ks EXCEPT !.status = "True"]
          /\ UNCHANGED changes
       \/ /\ "keystone" \in Volatile /\ ks.status # "Warning"
          /\ ks' = [ks EXCEPT !.status = "Warning"]
          /\ Change

\* The dbsync Job ends.
JobStep ==
    /\ jobs.state = "running" /\ OwnedEvent /\ UNCHANGED <<ks, sub>>
    /\ \/ /\ jobs' = [jobs EXCEPT !.state = "done"]
          /\ migrated' = migrated \cup {jobs.sync}
          /\ UNCHANGED changes
       \/ /\ jobs' = [jobs EXCEPT !.state = "failed"]
          /\ Change /\ UNCHANGED migrated

\* What the reconcilers of the service resources do, as far as their owner
\* can tell, see ServicePromise: they tell the StatefulSet what spec and
\* secret say now, which is no event for the Watcher ...
Current(k) == [spec |-> sub[k].spec, secret |-> subSecret]

SubTell(k) ==
    /\ sub[k].exists /\ sub[k].told # Current(k)
    /\ sub' = [sub EXCEPT ![k].told = Current(k)]
    /\ UNCHANGED <<cr, cache, queue, controllerVars, input, faults, acctFin,
                   promFin, subSecret, ks, jobs, migrated, changes>>

\* ... report on the way there, sometimes with the Ready of earlier pods, and
\* sometimes about an earlier generation, which is news only if it is Ready ...
SubReport(k) ==
    \E observed \in {sub[k].observed, TRUE},
       ready \in {"Info", "True", sub[k].ready} :
        /\ sub[k].exists
        /\ sub[k].told # Current(k)
        /\ observed \/ ready = "True"
        /\ ready = "True" /\ sub[k].ready # "True" /\ observed =>
              sub[k].told # None /\ sub[k].told.spec = sub[k].spec
        /\ sub' = [sub EXCEPT ![k].observed = observed, ![k].ready = ready]
        /\ OwnedEvent /\ UNCHANGED <<ks, jobs, migrated, changes>>

\* ... and are Ready in the end.
SubReady(k) ==
    /\ sub[k].exists /\ sub[k].told = Current(k)
    /\ ~(sub[k].observed /\ sub[k].ready = "True")
    /\ sub' = [sub EXCEPT ![k].observed = TRUE, ![k].ready = "True"]
    /\ OwnedEvent /\ UNCHANGED <<ks, jobs, migrated, changes>>

\* A service breaks for a reason of its own.
SubDisturb(k) ==
    /\ "services" \in Volatile /\ Change /\ sub[k].ready = "True"
    /\ sub' = [sub EXCEPT ![k].ready = "Warning"]
    /\ OwnedEvent /\ UNCHANGED <<ks, jobs, migrated>>

\* The informer catches up with the API server.
SyncCache ==
    /\ cache # cr
    /\ cache' = cr /\ queue' = TRUE
    /\ UNCHANGED <<cr, controllerVars, input, worldVars, changes, faults>>

\* The operator restarts: it lists every resource and reconciles it.
Crash ==
    /\ Fault
    /\ cache' = cr /\ queue' = TRUE /\ Forget
    /\ UNCHANGED <<cr, input, worldVars, changes>>

Services == \E k \in Kinds : SubTell(k) \/ SubReport(k) \/ SubReady(k)

Environment == \/ UpdateSpec \/ DeleteCR \/ ChangeInput \/ Crash
               \/ \E k \in Kinds : SubDisturb(k)

Init ==
    /\ \E s \in Specs : cr = NewCR(s)
    /\ cache = cr /\ queue = TRUE
    /\ input \in [Inputs -> StartInputs]
    /\ pc = "idle" /\ base = Blank /\ inst = Blank
    /\ seen = NothingSeen /\ outcome = "none"
    /\ acctFin = {} /\ promFin = {}
    /\ ks = [exists |-> FALSE, fin |-> FALSE, status |-> "NotSet"]
    /\ jobs = NoJobs /\ migrated = {}
    /\ subSecret = None /\ sub = [k \in Kinds |-> NoSub]
    /\ changes = 0 /\ faults = 0

Next == Reconcile \/ SyncCache \/ KeystoneStep \/ JobStep \/ Services
        \/ Environment

Spec == Init /\ [][Next]_vars

\* The operator's workers and informers, the other operators and the
\* reconcilers of the services run as long as they have work to do.
Fairness ==
    /\ WF_vars(Reconcile) /\ WF_vars(SyncCache) /\ WF_vars(KeystoneStep)
    /\ WF_vars(JobStep)
    /\ \A k \in Kinds : WF_vars(SubTell(k) \/ SubReady(k))

FairSpec == Spec /\ Fairness

-----------------------------------------------------------------------------
CRs == [phase : {"Live", "Deleting", "Gone"}, gen : Nat, spec : Specs,
        fin : BOOLEAN, obs : Nat, cond : [WatcherConditions -> Statuses],
        hash : {None} \cup {s.img : s \in Specs}]

Steps == {"idle", "rbac", "db", "mq", "secret", "transport", "prometheus",
          "subSecret", "keystone", "config", "dbsync", "cronjob", "expose",
          "accounts", "deleteDB", "deleteKS", "deletePrometheus", "exit",
          "api", "decisionengine", "applier"}

Images == {s.img : s \in Specs}
SubSpecs == {SubSpec(s) : s \in Specs}
Contents == [acct : {s.acct : s \in Specs}, cfg : {s.cfg : s \in Specs},
             in : [{"secret", "transport", "database"} -> InputStates]]
Secrets == {None} \cup Contents

\* What a StatefulSet is told: a spec and a secret.
Tellings == [spec : {None} \cup SubSpecs, secret : Secrets]

\* No secret and no StatefulSet is not one of them.
ASSUME NoneAssumption == None \notin Contents \cup Tellings

\* The type invariant: the reconciler's variables stay in their types.
TypeOK ==
    /\ cr \in CRs /\ cache \in CRs /\ base \in CRs /\ inst \in CRs
    /\ queue \in BOOLEAN /\ pc \in Steps
    /\ outcome \in {"none", "after", "error", "swallowed"}
    /\ seen \in [Inputs -> InputStates] /\ input \in [Inputs -> InputStates]
    /\ acctFin \subseteq {s.acct : s \in Specs}
    /\ promFin \subseteq {s.prom : s \in Specs}
    /\ ks \in [exists : BOOLEAN, fin : BOOLEAN, status : Statuses]
    /\ jobs \in [config : Secrets, sync : {None} \cup Images,
                state : {"none", "running", "done", "failed"},
                purge : {None} \cup Images]
    /\ jobs.state # "none" => jobs.sync \in Images
    /\ migrated \subseteq Images /\ subSecret \in Secrets
    /\ sub \in [Kinds -> [exists : BOOLEAN, spec : {None} \cup SubSpecs,
                          observed : BOOLEAN, ready : Statuses,
                          told : {None} \cup Tellings]]
    /\ changes \in 0..MaxChanges /\ faults \in 0..MaxFaults

\* Nothing is under way in this controller.
AtRest == pc = "idle" /\ ~queue /\ cache = cr

\* The service resource of a kind follows the spec, and says it is ready.
Follows(k) == /\ sub[k].exists /\ sub[k].spec = SubSpec(cr.spec)
              /\ sub[k].observed /\ sub[k].ready = "True"

\* The secret of the services holds what is current, up to the content of
\* the TransportURL's secret.
SecretCurrent ==
    /\ subSecret # None
    /\ subSecret.acct = cr.spec.acct /\ subSecret.cfg = cr.spec.cfg
    /\ \A i \in {"secret", "database"} : subSecret.in[i] = input[i]

\* No lost wake-up: when the controller rests, the services and their secret
\* follow spec and inputs, the account in use is protected, the database is
\* migrated, and Ready is True exactly if Keystone and all services are.
RestIsTruthful ==
    AtRest /\ cr.phase = "Live" =>
        /\ cr.obs = cr.gen /\ cr.hash = cr.spec.img
        /\ SecretCurrent
        /\ \A k \in Kinds : sub[k].exists /\ sub[k].spec = SubSpec(cr.spec)
        /\ cr.spec.acct \in acctFin /\ cr.spec.prom \in promFin
        /\ (cr.cond["Ready"] = "True") <=>
              (ks.status = "True" /\ \A k \in Kinds : Follows(k))

\* Neither a service resource nor its StatefulSet names an image before a
\* dbsync with that image has completed, whatever order spec changes, stale
\* reads and restarts come in.
MigratedFirst ==
    \A k \in Kinds :
        /\ sub[k].exists => sub[k].spec.img \in migrated
        /\ sub[k].told # None => sub[k].told.spec.img \in migrated

\* A service resource exists only once the secret it is configured from does,
\* the account in that secret is held, and the Prometheus secret it refers to
\* can no longer disappear.
PrerequisitesFirst ==
    \A k \in Kinds : cr.phase = "Live" /\ sub[k].exists =>
        /\ subSecret # None /\ subSecret.acct \in acctFin
        /\ input["prometheus"] # Absent

\* A resource that is gone holds back neither the KeystoneService nor the
\* account and the Prometheus secret that its spec named last.  A lookup of
\* that secret that fails, for whatever reason, is taken for a secret that does
\* not exist; without it the release is certain.
NoFinalizerLeft ==
    cr.phase = "Gone" =>
        /\ ~ks.fin /\ cr.spec.acct \notin acctFin
        /\ faults = 0 => cr.spec.prom \notin promFin

\* Once changes and faults end: with usable inputs and a dbsync that does not
\* fail the deployment becomes and stays Ready, its StatefulSets told the
\* current spec and secret.
Converges ==
    <>[](/\ cr.phase = "Live" /\ jobs.state # "failed"
         /\ \A i \in Inputs : input[i] \in Versions
         => /\ cr.cond["Ready"] = "True"
            /\ \A k \in Kinds : sub[k].told = Current(k))

\* A deleted resource is eventually gone.
DeletionCompletes == (cr.phase = "Deleting") ~> (cr.phase = "Gone")

\* Each service resource keeps to what the reconcilers of the services
\* implement, the writes of this controller to it included.
Promise(k) == INSTANCE ServicePromise
              WITH phase <- "Live", wanted <- sub[k].spec,
                   observed <- sub[k].observed, ready <- sub[k].ready,
                   told <- IF sub[k].told = None THEN None
                           ELSE sub[k].told.spec

\* The services behave as their reconcilers are shown to (KeepsPromise of
\* ServiceCR): every new spec is a new generation that has to be observed
\* before a Ready of the service counts.
ServicesKeepPromise ==
    /\ \A k \in Kinds : Promise(k)!Init
    /\ [][\A k \in Kinds :
             UNCHANGED <<sub[k]>> \/ Promise(k)!Next]_sub

\* watcher_controller.go:673-676: finalizers are removed from unused accounts
\* when all deployments "are up and running with current database account
\* info", so no account that a StatefulSet's pods connect with is released.
RunningAccountHeld ==
    \A k \in Kinds : cr.phase = "Live" /\ sub[k].told # None =>
        sub[k].told.secret.acct \in acctFin
=============================================================================
