----------------------------- MODULE Admission ------------------------------
(***************************************************************************)
(* The admission webhooks of the operator, api/v1beta1/*_webhook.go.       *)
(* Every write of a Watcher passes them: the user's and the operator's     *)
(* own, of the finalizer.  The Watcher's webhook fills the images that are *)
(* left empty with the defaults of the release that serves the request     *)
(* and refuses a Watcher without a database or a message bus; those of     *)
(* the three services admit everything as it is.  An upgrade changes the   *)
(* defaults, and two releases serve requests while it lasts.               *)
(***************************************************************************)
EXTENDS Naturals, FiniteSets

CONSTANTS
    Services,    \* WatcherAPI, WatcherDecisionEngine, WatcherApplier
    Required,    \* the fields a Watcher must fill: databaseInstance and
                 \* rabbitMqClusterName
    None,        \* no resource
    MaxRelease,  \* bound on upgrades
    MaxChanges   \* bound on what users do

ASSUME ReleaseAssumption == MaxRelease \in Nat \ {0}
ASSUME BoundAssumption == MaxChanges \in Nat

VARIABLES
    serving,   \* the releases of the operator that run
    stored,    \* the Watcher on the API server
    cached,    \* the operator's copy
    services,  \* the image of the resource of each service
    pc, read,  \* the step of the reconcile, and the Watcher it has read
    changes

vars == <<serving, stored, cached, services, pc, read, changes>>

\* An image is that of a release, the user's own, or left empty.
Empty == 0
Custom == MaxRelease + 1
Images == 0 .. Custom
Releases == 1 .. MaxRelease

Watchers == [images : [Services -> Images], filled : SUBSET Required,
             finalizer : BOOLEAN, deleting : BOOLEAN]

ASSUME NoneAssumption == None \notin Watchers /\ None \notin Images

\* WatcherImages.Default.  SetupDefaults has taken the defaults of the release
\* r from its environment.  Mutant: only a Watcher without images has them
\* filled.
DefaultAllOrNone(r, w) ==
    IF \A s \in Services : w.images[s] = Empty
      THEN [w EXCEPT !.images = [s \in Services |-> r]] ELSE w
Default(r, w) ==
    [w EXCEPT !.images = [s \in Services |-> IF @[s] = Empty THEN r ELSE @[s]]]

\* Mutant: a creation is only checked for the database.
ValidateCreateDatabase(w) == \E f \in Required : f \in w.filled
ValidateCreate(w) == w.filled = Required
ValidateUpdate(w) == w.filled = Required

\* The objects that a request for w may become, each for one that serves it.
\* It is stored if it passes the validation, too.
Defaulted(w) == {Default(r, w) : r \in serving}

\* The default of WatcherAPI, WatcherDecisionEngine and WatcherApplier does
\* nothing.
DefaultService(image) == image

Start ==
    /\ pc = "idle" /\ cached # read
    /\ read' = cached
    /\ pc' = IF cached = None THEN "idle" ELSE "run"
    /\ UNCHANGED <<serving, stored, cached, services, changes>>

\* Mutant: an object under deletion outlives its last finalizer.
PatchFinalizerKept(present) ==
    /\ stored # None /\ stored.finalizer # present
    /\ LET patched == [stored EXCEPT !.finalizer = present]
       IN  \E w \in Defaulted(patched) : ValidateUpdate(w) /\ stored' = w
\* PatchInstance: a patch of the finalizers changes the Watcher as it is
\* stored, and passes the webhook like every update.  A reconcile whose patch
\* is refused starts again.
PatchFinalizer(present) ==
    /\ stored # None /\ stored.finalizer # present
    /\ LET patched == [stored EXCEPT !.finalizer = present]
       IN  \E w \in Defaulted(patched) :
             /\ ValidateUpdate(w)
             /\ stored' = IF w.deleting /\ ~w.finalizer THEN None ELSE w

\* The API server accepts no new finalizer on an object under deletion.
AddFinalizer ==
    /\ pc = "run" /\ ~read.deleting /\ ~read.finalizer
    /\ stored # None /\ ~stored.deleting
    /\ PatchFinalizer(TRUE)
    /\ pc' = "idle"
    /\ UNCHANGED <<serving, cached, services, read, changes>>

\* ensureAPI, ensureApplier and ensureDecisionEngine write the image of the
\* copy they work with.
EnsureService(s) ==
    /\ pc = "run" /\ ~read.deleting /\ read.finalizer
    /\ services' = [services EXCEPT ![s] = DefaultService(read.images[s])]
    /\ UNCHANGED <<serving, stored, cached, pc, read, changes>>

\* The reconcile ends, once every service has its image.
Finish ==
    /\ pc = "run" /\ ~read.deleting /\ read.finalizer
    /\ \A s \in Services : services[s] = read.images[s]
    /\ pc' = "idle"
    /\ UNCHANGED <<serving, stored, cached, services, read, changes>>

\* The copy is of a Watcher that has meanwhile changed: the patch finds
\* nothing to do, or fails, and the event of the change follows.
GiveUp ==
    /\ pc = "run" /\ read # stored
    /\ pc' = "idle"
    /\ UNCHANGED <<serving, stored, cached, services, read, changes>>

\* reconcileDelete.
ReconcileDelete ==
    /\ pc = "run" /\ read.deleting
    /\ PatchFinalizer(FALSE)
    /\ pc' = "idle"
    /\ UNCHANGED <<serving, cached, services, read, changes>>

Reconcile == \/ Start \/ AddFinalizer \/ Finish \/ GiveUp \/ ReconcileDelete
             \/ \E s \in Services : EnsureService(s)

Sync ==
    /\ cached # stored
    /\ cached' = stored
    /\ UNCHANGED <<serving, stored, services, pc, read, changes>>

\* The resources of the services go with the Watcher that owns them.
Collect(s) ==
    /\ stored = None /\ pc = "idle" /\ cached = None
    /\ services[s] # None
    /\ services' = [services EXCEPT ![s] = None]
    /\ UNCHANGED <<serving, stored, cached, pc, read, changes>>

Change == changes < MaxChanges /\ changes' = changes + 1

\* The images a user asks for: his own, or the default.
Asked == [Services -> {Empty, Custom}]

Create ==
    /\ stored = None /\ Change
    /\ \E images \in Asked, filled \in SUBSET Required :
         \E w \in Defaulted([images |-> images, filled |-> filled,
                             finalizer |-> FALSE, deleting |-> FALSE]) :
           ValidateCreate(w) /\ stored' = w
    /\ UNCHANGED <<serving, cached, services, pc, read>>

\* A user changes one image, or asks for the default again; or changes the
\* required fields.
Update ==
    /\ stored # None /\ Change
    /\ \E s \in Services, image \in {Empty, Custom}, filled \in SUBSET Required :
         \E w \in Defaulted([stored EXCEPT !.images[s] = image,
                                            !.filled = filled]) :
           ValidateUpdate(w) /\ stored' = w
    /\ UNCHANGED <<serving, cached, services, pc, read>>

\* ValidateDelete refuses nothing.
Delete ==
    /\ stored # None /\ ~stored.deleting /\ Change
    /\ stored' = IF stored.finalizer THEN [stored EXCEPT !.deleting = TRUE] ELSE None
    /\ UNCHANGED <<serving, cached, services, pc, read>>

\* main: a new release starts, with its webhooks, and the old one stops.
Upgrade ==
    /\ \E r \in Releases : /\ serving = {r} /\ r + 1 \in Releases
                           /\ serving' = {r, r + 1}
    /\ UNCHANGED <<stored, cached, services, pc, read, changes>>
Retire ==
    /\ Cardinality(serving) = 2
    /\ serving' = {r \in serving : r - 1 \in serving}
    /\ UNCHANGED <<stored, cached, services, pc, read, changes>>

Init ==
    /\ serving = {1}
    /\ stored = None /\ cached = None /\ read = None /\ pc = "idle"
    /\ services = [s \in Services |-> None]
    /\ changes = 0

Next == \/ Reconcile \/ Sync \/ Create \/ Update \/ Delete \/ Upgrade \/ Retire
        \/ \E s \in Services : Collect(s)

Spec == Init /\ [][Next]_vars

(***************************************************************************)
(* Properties                                                              *)
(***************************************************************************)

\* The variables have their types, one or two neighbouring releases serve, and
\* a Watcher under deletion is there only for its finalizer.
TypeOK ==
    /\ \E r \in Releases : serving = {r} \/ serving = {r, r + 1} \cap Releases
    /\ {stored, cached, read} \subseteq Watchers \cup {None}
    /\ services \in [Services -> Images \cup {None}]
    /\ pc \in {"idle", "run"} /\ changes \in 0 .. MaxChanges
    /\ stored # None => (stored.deleting => stored.finalizer)

\* The webhook of no release, earlier or later, refuses a write that the
\* operator makes of a Watcher it has once admitted, nor changes an image by
\* the way: ValidateCreate and ValidateUpdate agree, and Default leaves alone
\* what it has filled.
OwnWritesPass ==
    stored # None =>
        /\ ValidateUpdate(stored)
        /\ \A r \in Releases : Default(r, stored) = stored

\* "The service specific Container Image URL (will be set to environmental
\* default if empty)" (api/v1beta1/common_types.go:156): the webhooks of the
\* services fill nothing, so this rests on the Watcher's, whichever release
\* has served the Watcher and however old the copy is.
NoEmptyImage == \A s \in Services : services[s] # Empty
=============================================================================
