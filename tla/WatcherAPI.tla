----------------------------- MODULE WatcherAPI -----------------------------
(***************************************************************************)
(* The reconciler of the WatcherAPI resource,                              *)
(* controllers/watcherapi_controller.go.  It also validates certificates,  *)
(* and once the pods are ready it exposes the service and registers it     *)
(* with Keystone.                                                          *)
(***************************************************************************)
EXTENDS ServiceCR

CONSTANT NoURL

VARIABLES
    svc,  \* the public and internal Service: "none", "pending" (an address
          \* is being assigned) or "up"
    ke    \* the KeystoneEndpoint resource and what Keystone has registered

apiVars == <<vars, svc, ke>>

\* spec.url stands for the endpoint URLs that the overrides of a spec yield.
ASSUME URLAssumption == \A s \in Specs : "url" \in DOMAIN s /\ s.url # NoURL

APIConditions == {"Ready", "InputReady", "TLSInputReady", "ServiceConfigReady",
                  "MemcachedReady", "DeploymentReady", "CreateServiceReady",
                  "KeystoneEndpointReady"}

Certificates == {"caBundle", "apiCerts"}

APIInputs == {"secret", "prometheus", "memcached", "keystone"} \cup Certificates

\* A hash that was rendered is told from one that was not.
ASSUME HashAssumption ==
    NoHash \notin [cfg : {s.cfg : s \in Specs}, in : [APIInputs -> InputStates]]

NoEndpoint == [url |-> NoURL, registered |-> NoURL, status |-> "NotSet",
               fin |-> FALSE]

NotExposing == UNCHANGED <<svc, ke>>

-----------------------------------------------------------------------------
\* Reconcile up to the first input.
Start == Fetch("secret") /\ NotExposing

Secret == EnsureSecret("secret", "prometheus", inst) /\ NotExposing

PrometheusSecret ==
    /\ RequireSecret("prometheus", "memcached", Marked(inst, "InputReady", "True"))
    /\ NotExposing

\* Mutant: looks for certificates under the name of the field.
MemcachedThenTLS == EnsureMemcached("tls") /\ NotExposing
Memcached == EnsureMemcached("config") /\ NotExposing

\* generateServiceConfigs; the hash is taken after the certificates.
ServiceConfigs ==
    /\ pc = "config"
    /\ \/ KeystoneMissing
       \/ ConfigsFail
       \/ ConfigsWritten /\ GoTo("caBundle", inst)
    /\ UNCHANGED <<cr, cache, base, input, memFin, sts, changes>> /\ NotExposing

\* A certificate that is missing ends the reconcile without a requeue, the
\* secret is watched; one that is not valid is an error.
CertificateFails(i) ==
    /\ \/ /\ input[i] = Absent /\ NoFault
          /\ Return(Marked(inst, "TLSInputReady", "Info"), "none")
       \/ /\ (input[i] = Broken /\ NoFault) \/ Fault
          /\ Return(Marked(inst, "TLSInputReady", "Warning"), "error")
    /\ UNCHANGED seen

CABundle ==
    /\ pc = "caBundle"
    /\ \/ CertificateFails("caBundle")
       \/ /\ input["caBundle"] \in Versions /\ NoFault
          /\ seen' = [seen EXCEPT !["caBundle"] = input["caBundle"]]
          /\ GoTo("apiCerts", inst)
    /\ UNCHANGED <<cr, cache, queue, base, input, memFin, config, sts, changes>>
    /\ NotExposing

\* The content of the input hash.  Mutant: the configuration of the first
\* reconcile stays in it.
HashedOnce(in) ==
    [cfg |-> IF inst.hash = NoHash THEN base.spec.cfg ELSE inst.hash.cfg,
     in |-> in]
Hashed(in) == [cfg |-> base.spec.cfg, in |-> in]

\* The certificates of the service, then the hash over all inputs.
APICerts ==
    /\ pc = "apiCerts"
    /\ \/ CertificateFails("apiCerts")
       \/ /\ input["apiCerts"] \in Versions /\ NoFault
          /\ seen' = [seen EXCEPT !["apiCerts"] = input["apiCerts"]]
          /\ LET h == Hashed(seen')
                 valid == Marked(inst, "TLSInputReady", "True")
             IN  IF inst.hash # h
                 THEN Return([valid EXCEPT !.hash = h], "none")
                 ELSE GoTo("deploy", Marked(valid, "ServiceConfigReady", "True"))
    /\ UNCHANGED <<cr, cache, queue, base, input, memFin, config, sts, changes>>
    /\ NotExposing

\* ensureDeployment; the reconcile only goes on once the pods are ready.
EnsureDeployment ==
    /\ pc = "deploy"
    /\ \/ /\ NoFault
          /\ sts' = AppliedSts(base.spec, inst.hash)
          /\ queue' = (queue \/ sts' # sts)
          /\ LET o == Deployed(inst, sts')
             IN  IF o.cond["DeploymentReady"] = "True" THEN GoTo("service", o)
                 ELSE Return(o, "none")
       \/ /\ NoFault /\ ~sts.exists /\ queue
          /\ Return(Marked(inst, "DeploymentReady", "Info"), "after")
          /\ UNCHANGED <<sts, queue>>
       \/ /\ Fault
          /\ Return(Marked(inst, "DeploymentReady", "Warning"), "error")
          /\ UNCHANGED <<sts, queue>>
    /\ UNCHANGED <<cr, cache, base, seen, input, memFin, config, changes>>
    /\ NotExposing

\* Mutant: the condition of the Services is not set.
ServicesUnreported(o) == o
ServicesReported(o) == Marked(o, "CreateServiceReady", "True")

\* ensureServiceExposed: creates the Services if they are missing, and waits
\* for their addresses without a requeue, as Services are watched.
EnsureServiceExposed ==
    /\ pc = "service"
    /\ \/ /\ NoFault
          /\ IF svc = "none" THEN svc' \in {"pending", "up"} ELSE UNCHANGED svc
          /\ queue' = (queue \/ svc' # svc)
          /\ IF svc' = "up"
             THEN GoTo("endpoint", ServicesReported(inst))
             ELSE Return(Marked(inst, "CreateServiceReady", "Info"), "none")
       \/ /\ Fault
          /\ Return(Marked(inst, "CreateServiceReady", "Warning"), "error")
          /\ UNCHANGED <<svc, queue>>
    /\ UNCHANGED <<cr, cache, base, seen, input, memFin, config, sts, changes,
                   ke>>

\* Mutant: success is assumed.
AssumeEndpoint(o) == Marked(o, "KeystoneEndpointReady", "True")
MirrorEndpoint(o) == IF ke.status = "NotSet" THEN o
                     ELSE Marked(o, "KeystoneEndpointReady", ke.status)

\* ensureKeystoneEndpoint writes the URLs and mirrors the conditions of the
\* KeystoneEndpoint, if it has any; then the end of Reconcile.  A call that
\* changed the KeystoneEndpoint may ask to come back before that end.
EnsureKeystoneEndpoint ==
    /\ pc = "endpoint"
    /\ \/ /\ NoFault
          /\ ke' = [ke EXCEPT !.url = base.spec.url, !.fin = TRUE]
          /\ queue' = (queue \/ ke' # ke)
          /\ \/ Return(Finished(MirrorEndpoint(inst)), "none")
             \/ ke' # ke /\ Return(MirrorEndpoint(inst), "after")
       \/ Fault /\ Return(inst, "error") /\ UNCHANGED <<ke, queue>>
    /\ UNCHANGED <<cr, cache, base, seen, input, memFin, config, sts, changes,
                   svc>>

\* Mutant: the KeystoneEndpoint is forgotten.
KeystoneEndpointKept ==
    /\ pc = "delete" /\ NoFault /\ GoTo("release", inst)
    /\ UNCHANGED <<cr, cache, queue, base, seen, input, memFin, config, sts,
                   changes, svc, ke>>

\* reconcileDelete, first part: ensureKeystoneEndpointDeletion.
KeystoneEndpointDeletion ==
    /\ pc = "delete"
    /\ \/ /\ NoFault
          /\ ke' = [ke EXCEPT !.fin = FALSE]
          /\ queue' = (queue \/ ke' # ke)
          /\ GoTo("release", inst)
       \/ Fault /\ Return(inst, "error") /\ UNCHANGED <<ke, queue>>
    /\ UNCHANGED <<cr, cache, base, seen, input, memFin, config, sts, changes,
                   svc>>

\* reconcileDelete, second part: Memcached, then the resource itself.
ReconcileDelete ==
    /\ pc = "release"
    /\ ReleaseMemcached
    /\ UNCHANGED <<cr, cache, queue, base, seen, input, config, sts, changes>>
    /\ NotExposing

Reconcile == \/ Start \/ Secret \/ PrometheusSecret \/ Memcached
             \/ ServiceConfigs \/ CABundle \/ APICerts \/ EnsureDeployment
             \/ EnsureServiceExposed \/ EnsureKeystoneEndpoint
             \/ KeystoneEndpointDeletion \/ ReconcileDelete
             \/ (Exit /\ NotExposing)

-----------------------------------------------------------------------------
(***************************************************************************)
(* The cluster: load balancer and Keystone operator.                       *)
(***************************************************************************)

ExposureEvent == /\ queue' = TRUE
                 /\ UNCHANGED <<cr, cache, controllerVars, input, memFin,
                                config, sts, faults>>

AssignAddress ==
    /\ svc = "pending" /\ svc' = "up"
    /\ ExposureEvent /\ UNCHANGED <<changes, ke>>

\* The Keystone operator registers the URLs and reports success.
RegisterEndpoint ==
    /\ ke.url # NoURL /\ (ke.registered # ke.url \/ ke.status # "True")
    /\ ke' = [ke EXCEPT !.registered = ke.url, !.status = "True"]
    /\ ExposureEvent /\ UNCHANGED <<changes, svc>>

\* A Service is deleted, or Keystone refuses the registration.
DisturbExposure ==
    /\ Change /\ ExposureEvent
    /\ \/ svc # "none" /\ svc' = "none" /\ UNCHANGED ke
       \/ /\ ke.url # NoURL /\ ke.status # "Warning"
          /\ ke' = [ke EXCEPT !.status = "Warning"] /\ UNCHANGED svc

Cluster == AssignAddress \/ RegisterEndpoint

Init == /\ ServiceInit(APIConditions, APIInputs)
        /\ svc = "none" /\ ke = NoEndpoint

Next == \/ Reconcile \/ Cluster \/ DisturbExposure
        \/ (SyncCache \/ StsController \/ Environment) /\ NotExposing

Spec == Init /\ [][Next]_apiVars

\* The operator's workers, its informers and the other controllers run as
\* long as they have work; nobody has to change or break anything.
Fairness == /\ WF_apiVars(Reconcile) /\ WF_apiVars(Cluster)
            /\ WF_apiVars(SyncCache /\ NotExposing)
            /\ WF_apiVars(StsController /\ NotExposing)

FairSpec == Spec /\ Fairness

-----------------------------------------------------------------------------
\* The type invariant: the reconciler's variables stay in their types.
TypeOK ==
    /\ TypesOK(APIConditions, APIInputs,
               {"secret", "prometheus", "memcached", "config", "caBundle",
                "apiCerts", "deploy", "service", "endpoint", "release"})
    /\ svc \in {"none", "pending", "up"}
    /\ ke \in [url : {NoURL} \cup {s.url : s \in Specs},
               registered : {NoURL} \cup {s.url : s \in Specs},
               status : Statuses, fin : BOOLEAN]

HaveCertificates == \A i \in Certificates : input[i] \in Versions

\* No lost wake-up, and no stale promise: when the controller rests, the
\* deployment is up to date unless a certificate is missing, and Ready is
\* True exactly if the pods are ready, the Services have their addresses and
\* the KeystoneEndpoint carries the URLs of this spec and reports success.
RestIsTruthful ==
    AtRest /\ cr.phase = "Live" =>
        /\ cr.obs = cr.gen
        /\ HaveCertificates => UpToDate
        /\ (cr.cond["Ready"] = "True") <=>
              (/\ HaveCertificates /\ Available /\ svc = "up"
               /\ ke.url = cr.spec.url /\ ke.status = "True")

\* An endpoint that Keystone was told of, and the Memcached of the service,
\* carry the finalizer as long as the resource lives, and no longer.
NothingHeldBack ==
    /\ MemcachedReleased /\ (cr.phase = "Gone" => ~ke.fin)
    /\ cr.phase = "Live" /\ ke.url # NoURL => ke.fin /\ memFin # {}

\* Once changes and faults end: usable inputs lead to a service that is
\* Ready and registered with Keystone under the URLs of its spec.
Converges ==
    <>[](cr.phase = "Live" /\ UsableInputs
         => /\ cr.cond["Ready"] = "True" /\ Available /\ sts.rolled
            /\ ke.registered = cr.spec.url)

\* A deleted resource is eventually gone.
DeletionCompletes == (cr.phase = "Deleting") ~> (cr.phase = "Gone")
=============================================================================
