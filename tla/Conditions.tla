----------------------------- MODULE Conditions -----------------------------
(***************************************************************************)
(* The status conditions every Watcher custom resource carries.  The code  *)
(* is the `condition` package of lib-common, a library outside this        *)
(* repository; what is written here is what the controllers rely on.       *)
(*                                                                         *)
(* A condition list is a function from condition types to a status.  The   *)
(* status "False" is split by its severity, and "NotSet" says that the     *)
(* list holds no condition of that type.                                   *)
(***************************************************************************)

FalseStatuses == {"Info", "Warning", "Error"}

Statuses == {"NotSet", "Unknown", "True"} \cup FalseStatuses

\* Conditions.Init: every listed condition starts the reconcile as Unknown.
InitConditions(types) == [t \in types |-> "Unknown"]

\* Conditions == nil: the object was never reconciled.
NilConditions(cond) == \A t \in DOMAIN cond : cond[t] = "NotSet"

\* Conditions.Set and Conditions.MarkTrue replace the condition of one type.
SetCondition(cond, t, status) == [cond EXCEPT ![t] = status]

\* Conditions.AllSubConditionIsTrue: all but the overall Ready condition.
AllSubConditionIsTrue(cond) ==
    \A t \in DOMAIN cond \ {"Ready"} : cond[t] \in {"True", "NotSet"}

\* Conditions.Mirror: True if the object is Ready, otherwise its most
\* severe condition that is not True.
Mirror(cond) ==
    IF cond["Ready"] = "True" THEN "True"
    ELSE IF \E t \in DOMAIN cond : cond[t] = "Error" THEN "Error"
    ELSE IF \E t \in DOMAIN cond : cond[t] = "Warning" THEN "Warning"
    ELSE IF \E t \in DOMAIN cond : cond[t] = "Info" THEN "Info"
    ELSE "Unknown"

\* What every reconciler's deferred function does before it patches the
\* status: an overall condition nobody decided mirrors the worst one.
MirrorUndecided(cond) ==
    IF cond["Ready"] = "Unknown"
    THEN [cond EXCEPT !["Ready"] = Mirror(cond)]
    ELSE cond
=============================================================================
