-------------------------- MODULE AdmissionProofs ---------------------------
(***************************************************************************)
(* Proofs about the webhooks, for any number of services, releases,        *)
(* changes and required fields.                                            *)
(***************************************************************************)
EXTENDS Admission, FiniteSetTheorems, TLAPS

\* A Watcher that a webhook has let pass: the required fields are filled, and
\* so is every image.
Complete(w) == /\ w.filled = Required
               /\ \A s \in Services : w.images[s] # Empty

\* Whatever is stored, cached or being worked with was admitted; a reconcile
\* that runs works with a Watcher; and what the services got comes from there.
Admitted == /\ \A w \in {stored, cached, read} : w # None => Complete(w)
            /\ pc = "run" => read # None
            /\ NoEmptyImage

\* What is preserved together.
Inv == TypeOK /\ Admitted

-----------------------------------------------------------------------------
(***************************************************************************)
(* What the webhooks return.                                               *)
(***************************************************************************)

\* One or two neighbouring releases serve requests.
Neighbours == \E r \in Releases : serving = {r} \/ serving = {r, r + 1} \cap Releases

\* A release is an image, and none is the empty one.
LEMMA ReleaseFacts ==
    \A r \in Releases : r \in Images /\ r # Empty /\ r \in Nat
  BY ReleaseAssumption DEF Releases, Images, Custom, Empty

\* Those that serve are releases.
LEMMA ServingFacts == ASSUME Neighbours PROVE serving \subseteq Releases
  BY DEF Neighbours

\* The webhook's default fills every image and touches nothing else.
LEMMA DefaultFacts ==
    ASSUME NEW r \in Releases, NEW w \in Watchers
    PROVE  /\ Default(r, w) \in Watchers
           /\ \A s \in Services : Default(r, w).images[s] # Empty
           /\ Default(r, w).filled = w.filled
           /\ Default(r, w).finalizer = w.finalizer
           /\ Default(r, w).deleting = w.deleting
  <1>1. w.images \in [Services -> Images]
    BY DEF Watchers
  <1>2. r \in Images /\ r # Empty
    BY ReleaseFacts
  <1> QED
    BY <1>1, <1>2 DEF Default, Watchers

\* What has every image is left as it is, whichever release serves.
LEMMA DefaultLeavesAlone ==
    ASSUME NEW r \in Releases, NEW w \in Watchers, Complete(w)
    PROVE  Default(r, w) = w
  <1>1. w.images \in [Services -> Images]
    BY DEF Watchers
  <1>2. [s \in Services |-> IF w.images[s] = Empty THEN r ELSE w.images[s]]
            = w.images
    BY <1>1 DEF Complete
  <1>3. Default(r, w) = [w EXCEPT !.images = w.images]
    BY <1>2 DEF Default
  <1> QED
    BY <1>3 DEF Watchers

\* What a write that passes both webhooks stores is complete.
LEMMA DefaultedFacts ==
    ASSUME Neighbours, NEW w \in Watchers, NEW stores \in Defaulted(w),
           stores.filled = Required
    PROVE  /\ stores \in Watchers /\ Complete(stores)
           /\ stores.finalizer = w.finalizer /\ stores.deleting = w.deleting
  <1>1. PICK r \in serving : stores = Default(r, w)
    BY DEF Defaulted
  <1>2. r \in Releases
    BY ServingFacts
  <1> QED
    BY <1>1, <1>2, DefaultFacts DEF Complete

-----------------------------------------------------------------------------
(***************************************************************************)
(* What each kind of write leaves behind.                                  *)
(***************************************************************************)

\* A resource that is stored, if there is one, is a complete Watcher, which
\* is under deletion only as long as its finalizer is there.
Sound(w) == w = None \/ /\ w \in Watchers /\ Complete(w)
                        /\ w.deleting => w.finalizer

\* The invariant in the terms of the lemmas.
LEMMA InvUnfolded ==
    Inv <=> /\ Neighbours
            /\ Sound(stored)
            /\ \A w \in {cached, read} :
                  w = None \/ (w \in Watchers /\ Complete(w))
            /\ services \in [Services -> Images \cup {None}] /\ NoEmptyImage
            /\ pc \in {"idle", "run"} /\ (pc = "run" => read # None)
            /\ changes \in 0 .. MaxChanges
  BY NoneAssumption DEF Inv, TypeOK, Admitted, Sound, Neighbours

\* The operator's patch of its finalizer.
LEMMA PatchFinalizerFacts ==
    ASSUME Inv, NEW present \in BOOLEAN, PatchFinalizer(present),
           present => ~stored.deleting
    PROVE  Sound(stored')
  <1> DEFINE patched == [stored EXCEPT !.finalizer = present]
  <1>1. stored \in Watchers /\ Neighbours
    BY InvUnfolded DEF PatchFinalizer, Sound
  <1>2. /\ patched \in Watchers /\ patched.finalizer = present
        /\ patched.deleting = stored.deleting
    BY <1>1 DEF Watchers
  <1>3. PICK w \in Defaulted(patched) :
            /\ w.filled = Required
            /\ stored' = IF w.deleting /\ ~w.finalizer THEN None ELSE w
    BY DEF PatchFinalizer, ValidateUpdate
  <1> HIDE DEF patched
  <1>4. /\ w \in Watchers /\ Complete(w)
        /\ w.finalizer = present /\ w.deleting = stored.deleting
    BY <1>1, <1>2, <1>3, DefaultedFacts
  <1> QED
    BY <1>3, <1>4 DEF Sound, Watchers

\* A user's creation.
LEMMA CreateFacts == ASSUME Inv, Create PROVE Sound(stored')
  <1>1. PICK images \in Asked, filled \in SUBSET Required :
           \E w \in Defaulted([images |-> images, filled |-> filled,
                               finalizer |-> FALSE, deleting |-> FALSE]) :
              w.filled = Required /\ stored' = w
    BY DEF Create, ValidateCreate
  <1> DEFINE asked == [images |-> images, filled |-> filled,
                       finalizer |-> FALSE, deleting |-> FALSE]
  <1>2. images \in [Services -> Images]
    BY ReleaseAssumption DEF Asked, Images, Empty, Custom
  <1>3. asked \in Watchers /\ asked.finalizer = FALSE /\ asked.deleting = FALSE
    BY <1>2 DEF Watchers
  <1>4. PICK w \in Defaulted(asked) : w.filled = Required /\ stored' = w
    BY <1>1
  <1> HIDE DEF asked
  <1>5. /\ w \in Watchers /\ Complete(w) /\ w.deleting = FALSE
    BY <1>3, <1>4, InvUnfolded, DefaultedFacts
  <1> QED
    BY <1>4, <1>5 DEF Sound

\* A user's update, which may empty an image.
LEMMA UpdateFacts == ASSUME Inv, Update PROVE Sound(stored')
  <1>1. /\ stored \in Watchers /\ Neighbours
        /\ stored.deleting => stored.finalizer
    BY InvUnfolded DEF Update, Sound
  <1>2. PICK s \in Services, image \in {Empty, Custom},
             filled \in SUBSET Required :
           \E w \in Defaulted([stored EXCEPT !.images[s] = image,
                                             !.filled = filled]) :
              w.filled = Required /\ stored' = w
    BY DEF Update, ValidateUpdate
  <1> DEFINE images == [stored.images EXCEPT ![s] = image]
             asked == [stored EXCEPT !.images = images, !.filled = filled]
  <1>3. images \in [Services -> Images]
    BY <1>1, ReleaseAssumption DEF Watchers, Images, Empty, Custom
  <1>4. [stored EXCEPT !.images[s] = image, !.filled = filled] = asked
    OBVIOUS
  <1>5. PICK w \in Defaulted(asked) : w.filled = Required /\ stored' = w
    BY <1>2, <1>4
  <1> HIDE DEF images
  <1>6. /\ asked \in Watchers /\ asked.finalizer = stored.finalizer
        /\ asked.deleting = stored.deleting
    BY <1>1, <1>3 DEF Watchers
  <1> HIDE DEF asked
  <1>7. /\ w \in Watchers /\ Complete(w)
        /\ w.finalizer = stored.finalizer /\ w.deleting = stored.deleting
    BY <1>1, <1>5, <1>6, DefaultedFacts
  <1> QED
    BY <1>1, <1>5, <1>7 DEF Sound

\* A user's deletion, which no webhook refuses.
LEMMA DeleteFacts == ASSUME Inv, Delete PROVE Sound(stored')
  <1>1. stored \in Watchers /\ Complete(stored)
    BY InvUnfolded DEF Delete, Sound
  <1>2. /\ [stored EXCEPT !.deleting = TRUE] \in Watchers
        /\ [stored EXCEPT !.deleting = TRUE].images = stored.images
        /\ [stored EXCEPT !.deleting = TRUE].filled = stored.filled
        /\ [stored EXCEPT !.deleting = TRUE].finalizer = stored.finalizer
    BY <1>1 DEF Watchers
  <1> QED
    BY <1>1, <1>2 DEF Delete, Sound, Complete

\* During an upgrade and after it, the releases that serve are neighbours.
LEMMA UpgradeFacts ==
    ASSUME Neighbours, Upgrade \/ Retire PROVE Neighbours'
  <1>1. CASE Upgrade
    BY <1>1 DEF Upgrade, Neighbours
  <1>2. CASE Retire
    <2>1. PICK r \in Releases : serving = {r} \/ serving = {r, r + 1} \cap Releases
      BY DEF Neighbours
    <2>2. serving # {r}
      BY <1>2, FS_Singleton DEF Retire
    <2>3. r + 1 \in Releases /\ serving = {r, r + 1}
      BY <2>1, <2>2
    <2>4. {n \in serving : n - 1 \in serving} = {r + 1}
      BY <2>3 DEF Releases
    <2> QED
      BY <1>2, <2>3, <2>4 DEF Retire, Neighbours
  <1> QED
    BY <1>1, <1>2

-----------------------------------------------------------------------------
(***************************************************************************)
(* The invariant.                                                          *)
(***************************************************************************)

\* The invariant holds before there is a Watcher ...
LEMMA InitInv == Init => Inv
  <1> SUFFICES ASSUME Init PROVE Inv
    OBVIOUS
  <1>1. 1 \in Releases /\ None # Empty
    BY ReleaseAssumption, NoneAssumption DEF Releases, Images, Empty, Custom
  <1> QED
    BY <1>1, InvUnfolded, BoundAssumption
       DEF Init, Neighbours, Sound, NoEmptyImage

\* ... and every step preserves it.
LEMMA NextInv == Inv /\ [Next]_vars => Inv'
  <1> SUFFICES ASSUME Inv, [Next]_vars PROVE Inv'
    OBVIOUS
  <1> DEFINE Copies == \A w \in {cached, read} :
                          w = None \/ (w \in Watchers /\ Complete(w))
             Given == services \in [Services -> Images \cup {None}]
                      /\ NoEmptyImage
             Rest == /\ pc \in {"idle", "run"} /\ (pc = "run" => read # None)
                     /\ changes \in 0 .. MaxChanges
  <1>0. /\ Neighbours /\ Sound(stored) /\ Copies /\ Given /\ Rest
    BY InvUnfolded
  <1>Q. Neighbours' /\ Sound(stored') /\ Copies' /\ Given' /\ Rest' => Inv'
    BY NoneAssumption DEF Inv, TypeOK, Admitted, Sound, Neighbours
  <1>C. Change => changes' \in 0 .. MaxChanges
    BY <1>0, BoundAssumption DEF Change
  <1>1. CASE Start
    BY <1>0, <1>1, <1>Q DEF Start, Neighbours, NoEmptyImage
  <1>2. CASE AddFinalizer
    <2>1. Sound(stored')
      BY <1>2, PatchFinalizerFacts DEF AddFinalizer
    <2> QED
      BY <1>0, <1>2, <1>Q, <2>1 DEF AddFinalizer, Neighbours, NoEmptyImage
  <1>3. ASSUME NEW s \in Services, EnsureService(s) PROVE Inv'
    <2>1. read \in Watchers /\ Complete(read)
      BY <1>0, <1>3 DEF EnsureService
    <2>2. read.images[s] \in Images /\ read.images[s] # Empty
      BY <2>1 DEF Watchers, Complete
    <2>3. Given'
      BY <1>0, <1>3, <2>2 DEF EnsureService, DefaultService, NoEmptyImage
    <2> QED
      BY <1>0, <1>3, <1>Q, <2>3 DEF EnsureService, Neighbours
  <1>4. CASE Finish \/ GiveUp
    BY <1>0, <1>4, <1>Q DEF Finish, GiveUp, Neighbours, NoEmptyImage
  <1>5. CASE ReconcileDelete
    <2>1. Sound(stored')
      BY <1>5, PatchFinalizerFacts DEF ReconcileDelete
    <2> QED
      BY <1>0, <1>5, <1>Q, <2>1 DEF ReconcileDelete, Neighbours, NoEmptyImage
  <1>6. CASE Sync
    BY <1>0, <1>6, <1>Q DEF Sync, Sound, Neighbours, NoEmptyImage
  <1>7. CASE Create \/ Update \/ Delete
    <2>1. Sound(stored')
      BY <1>7, CreateFacts, UpdateFacts, DeleteFacts
    <2>2. UNCHANGED <<serving, cached, services, pc, read>> /\ Change
      BY <1>7 DEF Create, Update, Delete
    <2> QED
      BY <1>0, <1>C, <1>Q, <2>1, <2>2 DEF Neighbours, NoEmptyImage
  <1>8. CASE Upgrade \/ Retire
    <2>1. Neighbours'
      BY <1>0, <1>8, UpgradeFacts
    <2>2. UNCHANGED <<stored, cached, services, pc, read, changes>>
      BY <1>8 DEF Upgrade, Retire
    <2> QED
      BY <1>0, <1>Q, <2>1, <2>2 DEF NoEmptyImage
  <1>9. ASSUME NEW s \in Services, Collect(s) PROVE Inv'
    <2>1. Given'
      BY <1>0, <1>9, NoneAssumption, ReleaseAssumption
         DEF Collect, NoEmptyImage, Images, Empty, Custom
    <2> QED
      BY <1>0, <1>9, <1>Q, <2>1 DEF Collect, Neighbours
  <1>10. CASE UNCHANGED vars
    BY <1>0, <1>10, <1>Q DEF vars, Neighbours, NoEmptyImage
  <1> QED
    BY <1>1, <1>2, <1>3, <1>4, <1>5, <1>6, <1>7, <1>8, <1>9, <1>10
       DEF Next, Reconcile

\* The invariant always holds.
LEMMA Invariance == Spec => []Inv
  BY InitInv, NextInv, PTL DEF Spec

\* The webhooks' and the operator's variables stay in their types, and a Watcher
\* under deletion is there only for its finalizer.
THEOREM TypeCorrect == Spec => []TypeOK
  <1>1. Inv => TypeOK
    BY DEF Inv
  <1> QED
    BY <1>1, Invariance, PTL

\* However many upgrades there were since, and whichever release serves the
\* request: no Watcher is stored that the webhook would refuse or change when
\* the operator patches its finalizer, so a reconcile and a deletion are never
\* blocked by it.
THEOREM NoWriteIsRefused == Spec => []OwnWritesPass
  <1>1. Inv => OwnWritesPass
    <2> SUFFICES ASSUME Inv, stored # None
                 PROVE  /\ ValidateUpdate(stored)
                        /\ \A r \in Releases : Default(r, stored) = stored
      BY DEF OwnWritesPass
    <2>1. stored \in Watchers /\ Complete(stored)
      BY InvUnfolded DEF Sound
    <2> QED
      BY <2>1, DefaultLeavesAlone DEF ValidateUpdate, Complete
  <1> QED
    BY <1>1, Invariance, PTL

\* No service resource is written with an empty image, although the services'
\* own webhooks fill none and the operator works from a stale copy.
THEOREM EveryServiceHasAnImage == Spec => []NoEmptyImage
  <1>1. Inv => NoEmptyImage
    BY DEF Inv, Admitted
  <1> QED
    BY <1>1, Invariance, PTL
=============================================================================
