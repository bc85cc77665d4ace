---------------------------- MODULE MCAdmission -----------------------------
(***************************************************************************)
(* Instances of Admission for TLC.                                         *)
(***************************************************************************)
EXTENDS Admission, TLC

CONSTANTS api, applier,                           \* two of the services
          databaseInstance, rabbitMqClusterName   \* the required fields

ServiceSymmetry == Permutations(Services)
=============================================================================
