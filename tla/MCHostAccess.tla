---------------------------- MODULE MCHostAccess ----------------------------
(***************************************************************************)
(* How people get at the hosts: the console's login, its sessions, and the *)
(* records of the SSH hosts.  The components share no state that their     *)
(* models keep, so a behaviour follows one of them, chosen at the start,   *)
(* and leaves the others as they began.                                    *)
(***************************************************************************)
EXTENDS ConsoleSession, SshHosts, LoginThrottle, TLC

VARIABLE focus

Components == {"session", "records", "login"}

accessVars == <<focus, sessionVars, sshVars, throttleVars>>

(* A component that is not followed has one initial state.                 *)
AccessInit ==
    /\ focus \in Components
    /\ SessionInit /\ (focus # "session" => sso)
    /\ SshInit
    /\ focus # "records" => known = [p \in Peers |-> CHOOSE n \in HostNames : TRUE]
    /\ ThrottleInit

AccessNext ==
    /\ UNCHANGED focus
    /\ IF focus = "session" THEN SessionNext ELSE UNCHANGED sessionVars
    /\ IF focus = "records" THEN SshNext ELSE UNCHANGED sshVars
    /\ IF focus = "login" THEN ThrottleNext ELSE UNCHANGED throttleVars

AccessSpec == AccessInit /\ [][AccessNext]_accessVars

MCSymmetry == Permutations(Tabs) \cup Permutations(Requests) \cup Permutations(HostKeys)
=============================================================================
