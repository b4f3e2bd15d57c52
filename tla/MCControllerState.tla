------------------------- MODULE MCControllerState -------------------------
(***************************************************************************)
(* What the controller keeps on its disk: the audit chain, the master key, *)
(* its certificate, its backups, the portal's accounts and processes, and  *)
(* the relay.  The components share no state that their models keep, so a  *)
(* behaviour follows one of them, chosen at the start, and leaves the      *)
(* others as they began.                                                   *)
(***************************************************************************)
EXTENDS AuditChain, KeyCustody, Snapshot, ControllerTls, Portal, RelayConfig, TLC

VARIABLE focus

Components == {"audit", "key", "snapshot", "tls", "portal", "relay"}

stateVars == <<focus, vars, keyVars, snapshotVars, tlsVars, portalVars, relayVars>>

(* A component that is not followed has one initial state.                 *)
StateInit ==
    /\ focus \in Components
    /\ Init /\ (focus # "audit" => strict)
    /\ CustodyInit
    /\ focus # "key" => command /\ source = "file"
    /\ SnapshotInit
    /\ TlsInit
    /\ focus # "tls" => /\ config.ip = CHOOSE a \in NetAddresses : TRUE
                        /\ identities[1].imported
    /\ PortalInit /\ (focus # "portal" => confPort = CHOOSE p \in Ports : TRUE)
    /\ RelayInit

StateNext ==
    /\ UNCHANGED focus
    /\ IF focus = "audit" THEN Next ELSE UNCHANGED vars
    /\ IF focus = "key" THEN CustodyNext ELSE UNCHANGED keyVars
    /\ IF focus = "snapshot" THEN SnapshotNext ELSE UNCHANGED snapshotVars
    /\ IF focus = "tls" THEN TlsNext ELSE UNCHANGED tlsVars
    /\ IF focus = "portal" THEN PortalNext ELSE UNCHANGED portalVars
    /\ IF focus = "relay" THEN RelayNext ELSE UNCHANGED relayVars

StateSpec == StateInit /\ [][StateNext]_stateVars

MCSymmetry == Permutations(Workers)

(* What the controller restarts from: its secrets, readable under one key, *)
(* and a box that a restore has put back whole.                            *)
StateIsReadable == SecretsSurvive /\ RestoreIsWhole

(* Its ways out and in beside the agents' own: the portal and the relay.   *)
DoorsAsConfigured == PortalIsTracked /\ RelayIsInForce
=============================================================================
