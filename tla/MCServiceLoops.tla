--------------------------- MODULE MCServiceLoops ---------------------------
(***************************************************************************)
(* What must come to an end, or round again, whatever fails: rolling runs, *)
(* the scheduler, terminals, restores, backups and agent updates.  The     *)
(* components share no state that their models keep, so a behaviour        *)
(* follows one of them, chosen at the start, and leaves the others as they *)
(* began.  The fairness is each component's own.                           *)
(***************************************************************************)
EXTENDS Rolling, Schedules, Terminal, RestorePoint, ConfigBackup, Integrity

VARIABLE focus

Components == {"rolling", "schedules", "terminal", "restore point", "backup", "integrity"}

loopVars ==
    <<focus, rollVars, schedVars, terminalVars, restoreVars, backupVars, vars>>

(* A component that is not followed has one initial state.                 *)
LoopsInit ==
    /\ focus \in Components
    /\ RollingInit /\ (focus # "rolling" => degraded /\ up = {})
    /\ SchedInit   /\ (focus # "schedules" => shift = MaxShift)
    /\ TerminalInit
    /\ RestoreInit
    /\ focus # "restore point" => live = [f \in Files |-> CHOOSE b \in Bytes : TRUE]
    /\ BackupInit
    /\ Init

LoopsNext ==
    /\ UNCHANGED focus
    /\ IF focus = "rolling" THEN RollingNext ELSE UNCHANGED rollVars
    /\ IF focus = "schedules" THEN SchedNext ELSE UNCHANGED schedVars
    /\ IF focus = "terminal" THEN TerminalNext ELSE UNCHANGED terminalVars
    /\ IF focus = "restore point" THEN RestoreNext ELSE UNCHANGED restoreVars
    /\ IF focus = "backup" THEN BackupNext ELSE UNCHANGED backupVars
    /\ IF focus = "integrity" THEN Next ELSE UNCHANGED vars

During(component, A) == focus = component /\ A

LoopsFairness ==
    /\ WF_rollVars(During("rolling", RollStep))
    /\ WF_schedVars(During("schedules", LoopStep))
    /\ WF_terminalVars(During("terminal", OpenQueue))
    /\ WF_terminalVars(During("terminal", StartBridge))
    /\ WF_terminalVars(During("terminal", ReadTerminal))
    /\ WF_terminalVars(During("terminal", Reap))
    /\ WF_terminalVars(During("terminal", SecondsPass))
    /\ WF_terminalVars(During("terminal", Reader))
    /\ WF_terminalVars(During("terminal", Feeder))
    /\ WF_restoreVars(During("restore point", AgentStep))
    /\ WF_restoreVars(During("restore point", ApplyStep))
    /\ WF_restoreVars(During("restore point", CaptureStep))
    /\ WF_backupVars(During("backup", ThreadStep))
    /\ SF_backupVars(During("backup", CaptureRound))
    /\ \A w \in Threads : WF_vars(During("integrity", HandlerStep(w)))
    /\ WF_vars(During("integrity", \E w \in Threads : Heartbeat(w)))
    /\ SF_vars(During("integrity", Poll))
    /\ WF_vars(During("integrity", RunUpdate)) /\ WF_vars(During("integrity", Reexec))
    /\ WF_vars(During("integrity", Tick))

LoopsSpec == LoopsInit /\ [][LoopsNext]_loopVars /\ LoopsFairness

(* The loops get round: a run ends, a job that is due is started, a new    *)
(* content is backed up, a host comes to run the controller's build, and   *)
(* one that has gone silent is quarantined.                                *)
LoopsServe ==
    /\ focus = "rolling" => RunEnds
    /\ OccurrenceIsServed
    /\ focus = "backup" => EditsAreCaptured
    /\ focus = "integrity" => BuildConverges /\ EvasionIsCaught

(* What is begun with a host ends: a restore is reported, and a shell      *)
(* nobody watches, or nobody may, is stopped.                              *)
ChannelsEnd == RestoreEnds /\ RestoreIsReported /\ OrphanShellDies /\ AbandonedIsReaped
=============================================================================
