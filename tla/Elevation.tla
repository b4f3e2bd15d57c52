----------------------------- MODULE Elevation -----------------------------
(***************************************************************************)
(* How one dispatched command runs on a host: as the operator who asked,   *)
(* and again under that operator's own sudo if it looks as if it needed    *)
(* more (host_agent/agent.py _run_as_user, run_command; exec_remote in     *)
(* backend/remote_routes.py for hosts reached over SSH).  A command is a   *)
(* script of steps; some need root, any may fail for reasons of its own    *)
(* and print what it likes, and a soft script goes on after a failure and  *)
(* exits 0.  The agent, and the login of the SSH connection, are root.     *)
(***************************************************************************)
EXTENDS Naturals, Sequences

CONSTANTS MaxSteps,      \* bound: steps of a script
          MaxOwnFailures \* bound: failures that have nothing to do with privilege

ASSUME ElevationBounds == MaxSteps \in Nat \ {0} /\ MaxOwnFailures \in Nat

VARIABLES command,    \* how it came, the script, what was promised
          policy,     \* the host: the operator's account and sudo rights
          attempt,    \* the run under way: its privilege, step, and words so far
          ended,      \* how each run so far ended
          effects,    \* per step, how often it took effect as the user, as root
          verdictSent, \* what the controller is told
          ownFailures

elevationVars == <<command, policy, attempt, ended, effects, verdictSent, ownFailures>>

Scripts == UNION {[1..n -> {"any", "rooted"}] : n \in 1..MaxSteps}

NotRunning == [going |-> FALSE, root |-> FALSE, step |-> 1, said |-> {}]

Untold == [given |-> FALSE, code |-> 0, root |-> FALSE, said |-> {}, note |-> FALSE]

ElevationInit ==
    /\ command \in [via : {"agent", "ssh"}, attributed : BOOLEAN, wantRoot : BOOLEAN,
                    soft : BOOLEAN, password : {"none", "right", "wrong"},
                    script : Scripts, prints : {"own", "denied", "sudo"}]
    /\ command.wantRoot => command.via = "agent"
    /\ policy \in [account : BOOLEAN, sudo : {"free", "password", "none"}]
    /\ attempt = NotRunning /\ ended = <<>> /\ verdictSent = Untold /\ ownFailures = 0
    /\ effects = [s \in DOMAIN command.script |-> [user |-> 0, root |-> 0]]

-----------------------------------------------------------------------------
(* What to run.                                                             *)

\* sudo -n without a password, sudo -S with the one the operator entered.
SudoAllows ==
    \/ policy.sudo = "free"
    \/ policy.sudo = "password" /\ command.password = "right"

MutLooksPrivileged(run) == run.code # 0

\* A failure whose output, on either stream, looks like a privilege error.
LooksPrivileged(run) == run.code # 0 /\ run.said \cap {"denied", "sudo"} # {}

\* Under want_root only the words of sudo itself let the run drop back.
SudoRefused(run) == run.code # 0 /\ "sudo" \in run.said

\* A second run, with the other privilege, is due.
RunAgain ==
    /\ Len(ended) = 1 /\ command.attributed
    /\ IF command.wantRoot THEN SudoRefused(ended[1]) ELSE LooksPrivileged(ended[1])

Launch(root) ==
    /\ attempt' = [NotRunning EXCEPT !.going = TRUE, !.root = root]
    /\ UNCHANGED <<command, policy, ended, effects, verdictSent, ownFailures>>

RunOver(code, said) ==
    /\ ended' = Append(ended, [code |-> code, said |-> said, root |-> attempt.root])
    /\ attempt' = NotRunning

\* sudo turns the operator away, and no step of the script runs.
TurnedAway ==
    /\ ended' = Append(ended, [code |-> 1, said |-> {"sudo"}, root |-> TRUE])
    /\ UNCHANGED <<command, policy, attempt, effects, verdictSent, ownFailures>>

Elevated == IF SudoAllows THEN Launch(TRUE) ELSE TurnedAway

BetweenRuns == ~attempt.going /\ ~verdictSent.given

\* A command of nobody's runs as root; an operator's runs as the operator,
\* or straight under the operator's sudo when root was promised.
FirstRun ==
    /\ BetweenRuns /\ ended = <<>> /\ (command.attributed => policy.account)
    /\ IF ~command.attributed THEN Launch(TRUE)
       ELSE IF command.wantRoot THEN Elevated ELSE Launch(FALSE)

SecondRun ==
    /\ BetweenRuns /\ RunAgain
    /\ IF command.wantRoot THEN Launch(FALSE) ELSE Elevated

-----------------------------------------------------------------------------
(* The script.                                                              *)

Denied == command.script[attempt.step] = "rooted" /\ ~attempt.root

Moves(said) ==
    IF attempt.step = Len(command.script)
      THEN RunOver(0, attempt.said \cup said)
      ELSE /\ attempt' = [attempt EXCEPT !.step = @ + 1, !.said = @ \cup said]
           /\ UNCHANGED ended

Stumbles(said) ==
    IF command.soft THEN Moves(said) ELSE RunOver(1, attempt.said \cup said)

StepWorks ==
    /\ attempt.going /\ ~Denied
    /\ LET as == IF attempt.root THEN "root" ELSE "user"
       IN effects' = [effects EXCEPT ![attempt.step][as] = @ + 1]
    /\ Moves({})
    /\ UNCHANGED <<command, policy, verdictSent, ownFailures>>

StepDenied ==
    /\ attempt.going /\ Denied
    /\ Stumbles({"denied"})
    /\ UNCHANGED <<command, policy, effects, verdictSent, ownFailures>>

OwnFailure ==
    /\ attempt.going /\ ~Denied /\ ownFailures < MaxOwnFailures
    /\ ownFailures' = ownFailures + 1
    /\ Stumbles({command.prints})
    /\ UNCHANGED <<command, policy, effects, verdictSent>>

\* ssh itself is refused by the host, before anything of the command runs.
ConnectionRefused ==
    /\ command.via = "ssh" /\ attempt.going /\ attempt.step = 1 /\ attempt.said = {}
    /\ ownFailures < MaxOwnFailures /\ ownFailures' = ownFailures + 1
    /\ RunOver(255, {"denied"})
    /\ UNCHANGED <<command, policy, effects, verdictSent>>

-----------------------------------------------------------------------------
(* The answer.                                                              *)

MutNote(run) == command.wantRoot /\ run.code # 0

\* The output of the fallback carries "NOT RUN AS ROOT".
Note(run) == command.wantRoot /\ Len(ended) = 2

Tell(run) ==
    verdictSent' = [given |-> TRUE, code |-> run.code, root |-> run.root,
                    said |-> run.said, note |-> Note(run)]

ReportRun ==
    /\ BetweenRuns /\ ended # <<>> /\ ~RunAgain
    /\ Tell(ended[Len(ended)])
    /\ UNCHANGED <<command, policy, attempt, ended, effects, ownFailures>>

\* The operator has no account on the host.
NoAccount ==
    /\ BetweenRuns /\ ended = <<>> /\ command.attributed /\ ~policy.account
    /\ verdictSent' = [Untold EXCEPT !.given = TRUE, !.code = 126, !.said = {"own"}]
    /\ UNCHANGED <<command, policy, attempt, ended, effects, ownFailures>>

\* The agent kills a command that takes too long.  Over SSH the controller
\* answers 504 and the command runs on.
TimeOut ==
    /\ attempt.going /\ ~verdictSent.given
    /\ \/ command.via = "agent" /\ RunOver(1, {"own"}) /\ UNCHANGED verdictSent
       \/ /\ command.via = "ssh" /\ UNCHANGED <<attempt, ended>>
          /\ verdictSent' = [Untold EXCEPT !.given = TRUE, !.code = 504]
    /\ UNCHANGED <<command, policy, effects, ownFailures>>

ElevationNext ==
    \/ FirstRun \/ SecondRun
    \/ StepWorks \/ StepDenied \/ OwnFailure \/ ConnectionRefused
    \/ ReportRun \/ NoAccount \/ TimeOut

ElevationSpec == ElevationInit /\ [][ElevationNext]_elevationVars

-----------------------------------------------------------------------------
(* Properties.                                                              *)

\* Type correctness of a command's run; at most two runs, of different privilege.
ElevationTypeOK ==
    /\ attempt \in [going : BOOLEAN, root : BOOLEAN, step : 1..MaxSteps,
                    said : SUBSET {"own", "denied", "sudo"}]
    /\ Len(ended) <= 2 /\ (Len(ended) = 2 => ended[1].root # ended[2].root)
    /\ ownFailures \in 0..MaxOwnFailures
    /\ verdictSent.code \in {0, 1, 126, 255, 504}
    /\ effects \in [DOMAIN command.script -> [user : Nat, root : Nat]]

\* A command that was promised root and had a step refused for want of it
\* says so in what it reports (_run_as_user, "the one outcome that must not
\* happen is unprivileged results presented as if they were root's").
UnprivilegedIsSaid ==
    command.wantRoot /\ verdictSent.given /\ "denied" \in verdictSent.said
        /\ command.prints # "denied"
      => verdictSent.note

\* A step takes effect a second time only when some step was denied, or the
\* command itself printed such words: an ordinary failure is never repeated
\* (exec_remote and _run_as_user, "never on an ordinary failure").
TwiceOnlyForPrivilege ==
    \A s \in DOMAIN effects :
        /\ effects[s].user <= 1 /\ effects[s].root <= 1
        /\ effects[s].user + effects[s].root = 2
             => ended[1].said \cap {"denied", "sudo"} # {}

\* What a command does, as whom, how often, and what is said of it.
ElevationIsSound == ElevationTypeOK /\ UnprivilegedIsSaid /\ TwiceOnlyForPrivilege
=============================================================================
