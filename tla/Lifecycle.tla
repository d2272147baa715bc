------------------------------ MODULE Lifecycle ------------------------------
(***************************************************************************)
(* The lifecycle of a checkpoint row (lifecycle.rs): its states, the        *)
(* transition table that set_lifecycle and the restore transaction consult, *)
(* and the classifications the rest of the program derives from a state.    *)
(***************************************************************************)

LifecycleStates ==
    {"CREATED", "CAPTURING", "CAPTURED", "VALIDATING", "SEALED", "PERSISTING",
     "AVAILABLE", "RESTORE_PENDING", "RESTORING", "RESTORED", "RETIRED", "FAILED"}

\* can_transition: the states a row may be moved to from state s.
Successors(s) ==
    CASE s = "CREATED"         -> {"CAPTURING"}
      [] s = "CAPTURING"       -> {"CAPTURED", "FAILED"}
      [] s = "CAPTURED"        -> {"VALIDATING", "FAILED"}
      [] s = "VALIDATING"      -> {"SEALED", "FAILED"}
      [] s = "SEALED"          -> {"PERSISTING", "FAILED"}
      [] s = "PERSISTING"      -> {"AVAILABLE", "FAILED"}
      [] s = "AVAILABLE"       -> {"RESTORE_PENDING", "RETIRED", "FAILED"}
      [] s = "RESTORE_PENDING" -> {"RESTORING", "FAILED", "AVAILABLE"}
      [] s = "RESTORING"       -> {"RESTORED", "AVAILABLE", "FAILED"}
      [] s = "RESTORED"        -> {"AVAILABLE", "FAILED"}
      [] s = "RETIRED"         -> {"RESTORE_PENDING", "FAILED"}
      [] OTHER                 -> {}

CanTransition(s, t) == t \in Successors(s)

IsRestorable(s) == s \in {"AVAILABLE", "RESTORED"}
==============================================================================
