--------------------------- MODULE MCHostChannels ---------------------------
(***************************************************************************)
(* What runs on a host for the controller, and what passes between them:   *)
(* the agent's terminal, restore points, the backup of its files, the      *)
(* measurement of its build, scripts that edit its configuration and its   *)
(* firewall, and how a command gets its privilege.  The components share   *)
(* no state that their models keep, so a behaviour follows one of them,    *)
(* chosen at the start, and leaves the others as they began.               *)
(***************************************************************************)
EXTENDS Terminal, RestorePoint, ConfigBackup, Integrity, HostConfig, Elevation,
        HostFirewall

VARIABLE focus

Components == {"terminal", "restore point", "backup", "integrity", "config", "elevation",
               "firewall"}

channelVars ==
    <<focus, terminalVars, restoreVars, backupVars, vars, hcVars, elevationVars, fwVars>>

(* A component that is not followed has one initial state.                 *)
ChannelsInit ==
    /\ focus \in Components
    /\ TerminalInit
    /\ RestoreInit
    /\ focus # "restore point" => live = [f \in Files |-> CHOOSE b \in Bytes : TRUE]
    /\ BackupInit
    /\ Init
    /\ ConfigInit
    /\ ElevationInit
    /\ focus # "elevation" =>
         /\ command = [via |-> "ssh", attributed |-> FALSE, wantRoot |-> FALSE, soft |-> FALSE,
                       password |-> "none", script |-> <<"any">>, prints |-> "own"]
         /\ policy = [account |-> FALSE, sudo |-> "none"]
    /\ FwInit
    /\ focus # "firewall" => ~fwd.inst /\ fwd.perm = {} /\ ~ufw.inst
                           /\ isController /\ serving /\ frontEnd

ChannelsNext ==
    /\ UNCHANGED focus
    /\ IF focus = "terminal" THEN TerminalNext ELSE UNCHANGED terminalVars
    /\ IF focus = "restore point" THEN RestoreNext ELSE UNCHANGED restoreVars
    /\ IF focus = "backup" THEN BackupNext ELSE UNCHANGED backupVars
    /\ IF focus = "integrity" THEN Next ELSE UNCHANGED vars
    /\ IF focus = "config" THEN ConfigNext ELSE UNCHANGED hcVars
    /\ IF focus = "elevation" THEN ElevationNext ELSE UNCHANGED elevationVars
    /\ IF focus = "firewall" THEN FwNext ELSE UNCHANGED fwVars

ChannelsSpec == ChannelsInit /\ [][ChannelsNext]_channelVars

(* What is restored to a host, a restore point or a file, is whole, and    *)
(* only said to be restored if it is.                                      *)
RestoresAreSound == RestoreIsSound /\ BackupIsSound

(* A script on a host leaves its files acceptable and its ports open, and  *)
(* is never repeated but for the privilege it was refused.                 *)
ScriptsAreSound == ConfigIsSound /\ FirewallIsSound /\ ElevationIsSound
=============================================================================
