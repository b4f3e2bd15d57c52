---------------------------- MODULE MCFleetWork ----------------------------
(***************************************************************************)
(* What the console does with its fleet: rolling runs, schedules, orders,  *)
(* alerts, caches and baselines.  The components share no state that their *)
(* models keep, so a behaviour follows one of them, chosen at the start,   *)
(* and leaves the others as they began.                                    *)
(***************************************************************************)
EXTENDS Rolling, Schedules, Dispatch, Alerts, FleetCache, Baseline

VARIABLE focus

Components == {"rolling", "schedules", "dispatch", "alerts", "cache", "baseline"}

workVars == <<focus, rollVars, schedVars, dispVars, alertVars, fleetVars, baselineVars>>

(* A component that is not followed has one initial state.                 *)
WorkInit ==
    /\ focus \in Components
    /\ RollingInit  /\ (focus # "rolling" => degraded /\ up = {})
    /\ SchedInit    /\ (focus # "schedules" => shift = MaxShift)
    /\ DispatchInit
    /\ AlertInit
    /\ FleetInit    /\ enrolled = {CHOOSE h \in FleetHosts : TRUE}
    /\ BaselineInit /\ (focus # "baseline" => declared = [h \in Managed |-> {}])

WorkNext ==
    /\ UNCHANGED focus
    /\ IF focus = "rolling" THEN RollingNext ELSE UNCHANGED rollVars
    /\ IF focus = "schedules" THEN SchedNext ELSE UNCHANGED schedVars
    /\ IF focus = "dispatch" THEN DispatchNext ELSE UNCHANGED dispVars
    /\ IF focus = "alerts" THEN AlertNext ELSE UNCHANGED alertVars
    /\ IF focus = "cache" THEN FleetNext ELSE UNCHANGED fleetVars
    /\ IF focus = "baseline" THEN BaselineNext ELSE UNCHANGED baselineVars

WorkSpec == WorkInit /\ [][WorkNext]_workVars
=============================================================================
