----------------------------- MODULE MCWatcher ------------------------------
(***************************************************************************)
(* Instances of Watcher for TLC.                                           *)
(***************************************************************************)
EXTENDS Watcher, TLC

CONSTANTS v1, v2, i1, i2, c1, c2, a1, a2, p1, p2

Base == [img |-> i1, cfg |-> c1, acct |-> a1, prom |-> p1]

\* An upgrade, possibly taken back.
SpecsUpgrade == {Base, [Base EXCEPT !.img = i2]}

\* The two images of SpecsUpgrade are alike.
ImagesAlike == Permutations({i1, i2})

\* Another database account.
SpecsRotate == {Base, [Base EXCEPT !.acct = a2]}

SpecsOne == {Base}
=============================================================================
