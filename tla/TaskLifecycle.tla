---------------------------- MODULE TaskLifecycle ----------------------------
(***************************************************************************)
(* What the command queue promises of a task, whatever threads, agents,     *)
(* lost requests and restarts are between the operator and the host: it is  *)
(* queued once, handed out once, started at most once, and closed at most   *)
(* once, by the host's report of a command that was started, or by the      *)
(* reclaim loop.  TaskQueue implements it (TaskQueue!KeepsLifecycle).       *)
(***************************************************************************)
EXTENDS Naturals, Sequences

CONSTANT Tasks

VARIABLES
    phase,    \* task -> where its row is
    runs,     \* task -> how often its command was started
    report    \* task -> the result rows the operator can read

lifeVars == <<phase, runs, report>>

LifeInit ==
    /\ phase = [t \in Tasks |-> "unused"]
    /\ runs = [t \in Tasks |-> 0]
    /\ report = [t \in Tasks |-> <<>>]

In(S) == {t \in Tasks : phase[t] \in S}
(* The tasks of S go to a phase, with what is then to be read of them.      *)
Move(S, to, rows) ==
    /\ phase' = [t \in Tasks |-> IF t \in S THEN to ELSE phase[t]]
    /\ report' = [t \in Tasks |-> IF t \in S THEN rows ELSE report[t]]

Queue(t)   == t \in In({"unused"}) /\ Move({t}, "pending", <<>>) /\ UNCHANGED runs
HandOut(S) == S \subseteq In({"pending"}) /\ Move(S, "dispatched", <<>>) /\ UNCHANGED runs

(* A command is started after it was handed out, be its row closed or gone  *)
(* by then.                                                                 *)
Start(t) ==
    /\ t \notin In({"unused", "pending"}) /\ runs[t] = 0
    /\ runs' = [runs EXCEPT ![t] = 1]
    /\ UNCHANGED <<phase, report>>

Report(t) ==
    /\ t \in In({"dispatched"}) /\ runs[t] = 1
    /\ Move({t}, "done", <<"real">>)
    /\ UNCHANGED runs

(* The reclaim loop closes what is out, and deletes what is closed and old. *)
Expire(S, old) ==
    /\ S \subseteq In({"dispatched"})
    /\ old \subseteq S \cup In({"done", "timed_out"})
    /\ phase' = [t \in Tasks |-> IF t \in old THEN "removed"
                                 ELSE IF t \in S THEN "timed_out" ELSE phase[t]]
    /\ report' = [t \in Tasks |-> IF t \in old THEN <<>>
                                  ELSE IF t \in S THEN <<"synthetic">> ELSE report[t]]
    /\ UNCHANGED runs

(* The host is deleted, with its tasks and their results.                   *)
Forget(S) == S \cap In({"unused"}) = {} /\ Move(S, "removed", <<>>) /\ UNCHANGED runs

LifeNext ==
    \/ \E t \in Tasks : Queue(t) \/ Start(t) \/ Report(t)
    \/ \E S \in SUBSET Tasks : HandOut(S) \/ Forget(S) \/ \E old \in SUBSET Tasks : Expire(S, old)

LifeSpec == LifeInit /\ [][LifeNext]_lifeVars
=============================================================================
