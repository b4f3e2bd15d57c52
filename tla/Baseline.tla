------------------------------ MODULE Baseline ------------------------------
(***************************************************************************)
(* The desired-state cycle (webgui/server.py _run_baseline_cycle and       *)
(* _carry_out_baseline_actions, backend/baseline.py).  For each host: ask  *)
(* Sysible Baseline what it must look like, run each state on the host,    *)
(* hand the output back, and carry out the actions the rules fired.        *)
(* Baseline itself is another program: it hands out run numbers, and it    *)
(* answers a report with a verdict and any actions.                        *)
(***************************************************************************)
EXTENDS Integers, FiniteSets, Sequences, SequencesExt

CONSTANTS Managed,       \* the hosts of the environment
          States,        \* states that can be declared for a host
          MaxActions,    \* bound: actions one report fires
          MaxRuns,       \* bound: run numbers Baseline gives out
          MaxRefusals    \* bound: calls to Baseline that fail

ASSUME BaselineBounds ==
    /\ IsFiniteSet(Managed) /\ IsFiniteSet(States)
    /\ {MaxActions, MaxRuns, MaxRefusals} \subseteq Nat

VARIABLES declared,     \* what Baseline holds for each host
          handed,       \* the runs handed out: whose, and how often they ran
          cycle,        \* the cycle under way
          ledger,       \* what the cycle counted: applied, failed, skipped
          refusals      \* calls that have failed

baselineVars == <<declared, handed, cycle, ledger, refusals>>

\* notify and capture touch no host; "unknown" is an action of a later version.
Actions == {"notify", "command", "reapply", "unknown"}
FiredLists == UNION {[1..n -> Actions] : n \in 0..MaxActions}

NoCycle == [at |-> "none", left |-> <<>>, todo |-> <<>>, run |-> 0,
            fired |-> <<>>, reapplied |-> FALSE, preview |-> FALSE]

FreshLedger == [applied |-> 0, failed |-> 0, skipped |-> 0]

BaselineInit ==
    /\ declared \in [Managed -> SUBSET States]
    /\ handed = <<>> /\ cycle = NoCycle /\ ledger = FreshLedger
    /\ refusals = 0

\* An operator unassigns a state while the cycle runs.
Unassign ==
    /\ cycle.at # "none"
    /\ \E h \in Managed : \E s \in declared[h] :
        declared' = [declared EXCEPT ![h] = @ \ {s}]
    /\ UNCHANGED <<handed, cycle, ledger, refusals>>

Refused == refusals < MaxRefusals /\ refusals' = refusals + 1

\* desired() makes a run of every state declared for the host.
Desired(h, again) ==
    LET list == SetToSeq(declared[h]) IN
    handed \o [i \in 1..Len(list) |->
                 [host |-> h, state |-> list[i], again |-> again, ran |-> 0]]

Numbers(h) == [i \in 1..Len(Desired(h, FALSE)) - Len(handed) |-> Len(handed) + i]

Room(h) == Len(Desired(h, FALSE)) <= MaxRuns

-----------------------------------------------------------------------------
(* _run_baseline_cycle                                                     *)

BeginCycle ==
    /\ cycle.at = "none"
    /\ \E preview \in BOOLEAN :
        cycle' = [NoCycle EXCEPT !.at = "ask", !.left = SetToSeq(Managed),
                                 !.preview = preview]
    /\ UNCHANGED <<declared, handed, ledger, refusals>>

\* An empty list is a host nobody declared anything for; a failure ends the
\* whole cycle, whatever it has applied so far.
Ask ==
    /\ cycle.at = "ask" /\ cycle.left # <<>>
    /\ LET h == Head(cycle.left) IN
       \/ /\ Refused /\ cycle' = [NoCycle EXCEPT !.at = "raised"]
          /\ UNCHANGED <<handed, ledger>>
       \/ /\ declared[h] = {}
          /\ ledger' = [ledger EXCEPT !.skipped = @ + 1]
          /\ cycle' = [cycle EXCEPT !.left = Tail(@)]
          /\ UNCHANGED <<handed, refusals>>
       \/ /\ declared[h] # {} /\ Room(h)
          /\ handed' = Desired(h, FALSE)
          /\ cycle' = [cycle EXCEPT !.left = Tail(@), !.todo = Numbers(h), !.at = "run"]
          /\ UNCHANGED <<ledger, refusals>>
    /\ UNCHANGED declared

MutVerdict(ok) == [ledger EXCEPT !.applied = IF ok THEN @ + 1 ELSE @]

Verdict(ok) == IF ok THEN [ledger EXCEPT !.applied = @ + 1]
               ELSE [ledger EXCEPT !.failed = @ + 1]

\* _dispatch_one runs the salt-call, a dry run in a preview; a report that
\* fails counts as a failure and fires nothing.
RunAndReport ==
    /\ cycle.at = "run" /\ cycle.todo # <<>>
    /\ LET r == Head(cycle.todo) IN
       /\ handed' = [handed EXCEPT ![r].ran = @ + 1]
       /\ \/ /\ Refused /\ ledger' = Verdict(FALSE)
             /\ cycle' = [cycle EXCEPT !.todo = Tail(@)]
          \/ \E ok \in BOOLEAN, fired \in FiredLists :
             /\ ledger' = Verdict(ok)
             /\ cycle' = [cycle EXCEPT !.todo = Tail(@), !.run = r, !.at = "act",
                                       !.fired = fired, !.reapplied = FALSE]
             /\ UNCHANGED refusals
    /\ UNCHANGED declared

NextHost ==
    /\ cycle.at = "run" /\ cycle.todo = <<>>
    /\ cycle' = [cycle EXCEPT !.at = "ask"]
    /\ UNCHANGED <<declared, handed, ledger, refusals>>

EndCycle ==
    /\ cycle.at = "ask" /\ cycle.left = <<>>
    /\ cycle' = [cycle EXCEPT !.at = "done"]
    /\ UNCHANGED <<declared, handed, ledger, refusals>>

-----------------------------------------------------------------------------
(* _carry_out_baseline_actions                                             *)

MutNoReapply == cycle.preview

\* A reapply is skipped in a preview, and after the first of these actions.
NoReapply == cycle.preview \/ cycle.reapplied

ActOnHost ==
    /\ cycle.at = "act" /\ cycle.fired # <<>>
    /\ LET a == Head(cycle.fired)
           further == a = "reapply" /\ ~NoReapply
       IN /\ cycle' = [cycle EXCEPT !.fired = Tail(@),
                                    !.at = IF further THEN "reapply" ELSE "act",
                                    !.reapplied = @ \/ further]
    /\ UNCHANGED <<declared, handed, ledger, refusals>>

ActsDone ==
    /\ cycle.at = "act" /\ cycle.fired = <<>>
    /\ cycle' = [cycle EXCEPT !.at = "run"]
    /\ UNCHANGED <<declared, handed, ledger, refusals>>

MutGoesOn(fired) == [cycle EXCEPT !.at = "act", !.fired = fired, !.reapplied = FALSE]

\* What the second run's own rules fire is deliberately not carried out.
GoesOn(fired) == [cycle EXCEPT !.at = "act"]

\* The fresh runs of the same state, among those Baseline hands out now.
Again(runs) ==
    {n \in Len(handed) + 1..Len(runs) : runs[n].state = handed[cycle.run].state}

\* The state was unassigned in between: a note, and nothing is run.
Unassigned == GoesOn(<<>>)

\* The reapply: Baseline may be away before it or after it, and the state may
\* have been unassigned since.
Reapply ==
    /\ cycle.at = "reapply"
    /\ LET h == handed[cycle.run].host
           runs == Desired(h, TRUE)
       IN \/ /\ Refused /\ cycle' = GoesOn(<<>>) /\ UNCHANGED handed
          \/ /\ Again(runs) = {} /\ Room(h)
             /\ handed' = runs /\ cycle' = Unassigned
             /\ UNCHANGED refusals
          \/ /\ Room(h)
             /\ \E n \in Again(runs) :
                  /\ \A m \in Again(runs) : n <= m
                  /\ handed' = [runs EXCEPT ![n].ran = @ + 1]
             /\ \/ Refused /\ cycle' = GoesOn(<<>>)
                \/ /\ \E fired \in FiredLists : cycle' = GoesOn(fired)
                   /\ UNCHANGED refusals
    /\ UNCHANGED <<declared, ledger>>

CycleStep ==
    BeginCycle \/ Ask \/ RunAndReport \/ NextHost \/ EndCycle \/ ActOnHost \/ ActsDone \/ Reapply

BaselineNext == CycleStep \/ Unassign

\* The request handler runs on.
BaselineSpec ==
    BaselineInit /\ [][BaselineNext]_baselineVars /\ WF_baselineVars(CycleStep)

-----------------------------------------------------------------------------
(* Properties                                                              *)

\* Type correctness of the declarations, the runs and the cycle.
BaselineTypeOK ==
    /\ declared \in [Managed -> SUBSET States]
    /\ Len(handed) <= MaxRuns
    /\ cycle.at \in {"none", "ask", "run", "act", "reapply", "done", "raised"}
    /\ cycle.run \in 0..Len(handed)
    /\ \A r \in 1..Len(handed) : handed[r].state \in States /\ handed[r].ran \in 0..1

\* However many rules ask for it and whatever its second run fires, a state is
\* applied to a host at most twice in a cycle, and in a preview once.
AtMostOneReapply ==
    \A h \in Managed, s \in States :
      Cardinality({r \in 1..Len(handed) :
                     handed[r].host = h /\ handed[r].state = s /\ handed[r].ran > 0})
        <= IF cycle.preview THEN 1 ELSE 2

\* When the cycle answers, its counts are those of the states it first ran:
\* each was applied or failed, none was left out, and no reapply is counted;
\* a host is skipped if and only if nothing was run on it.
CountsAddUp ==
    cycle.at = "done" =>
      LET first == {r \in 1..Len(handed) : ~handed[r].again} IN
      /\ \A r \in first : handed[r].ran = 1
      /\ ledger.applied + ledger.failed = Cardinality(first)
      /\ ledger.skipped = Cardinality({h \in Managed : \A r \in first : handed[r].host # h})

\* A cycle does what its rules ask, boundedly, and counts it right.
BaselineIsKept == BaselineTypeOK /\ AtMostOneReapply /\ CountsAddUp
=============================================================================
