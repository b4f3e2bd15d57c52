------------------------------ MODULE Rolling ------------------------------
(***************************************************************************)
(* Rolling maintenance of a pool (rolling.run): batch after batch of        *)
(* members is drained, acted on, waited for, checked and put back.          *)
(*                                                                         *)
(* Members are numbered in the roll order.  The run keeps its own book of   *)
(* who is healthy and who is out; up and inRotation are what is true.  A    *)
(* call that reports an error may have had its effect all the same.  A      *)
(* member the action broke is down; any member may go down by itself.       *)
(***************************************************************************)
EXTENDS Integers, FiniteSets

CONSTANTS
    PoolSize,        \* members of the pool
    MaxUnavailable,  \* members that may be out together
    MinHealthy,      \* members that must keep serving
    MaxLosses        \* bound: calls that fail for no fault of the member, and
                     \* members that go down by themselves

Members == 1..PoolSize

(* pools.validate: the roll leaves MinHealthy members serving.              *)
PoolIsValid(unavailable, healthy) ==
    /\ PoolSize >= 2
    /\ unavailable >= 1 /\ healthy >= 1
    /\ unavailable <= PoolSize - healthy

ASSUME RollingBounds ==
    /\ PoolSize \in Nat /\ MaxUnavailable \in Nat /\ MinHealthy \in Nat
    /\ MaxLosses \in Nat
    /\ PoolIsValid(MaxUnavailable, MinHealthy)

VARIABLES
    up,          \* members that are healthy
    inRotation,  \* members the balancer sends traffic to
    roll,        \* the run: phase, batch, members left in the phase, members
                 \* it has drained in this batch, and how it will end
    healthyNow, leftDrained, rolled,   \* its book: healthy_now, left_drained, done
    degraded,    \* allow_degraded
    cancelAsked, \* the operator has asked it to stop
    acted,       \* history: members the action was tried on
    proven,      \* history: those that have passed a health check of the run
    faulty,      \* history: those that failed a step or a check
    losses       \* members lost otherwise: down by themselves, or told to
                 \* leave by a call that then reported an error

book     == <<healthyNow, leftDrained, rolled>>
rollHist == <<acted, proven, faulty>>
rollVars == <<up, inRotation, roll, book, degraded, cancelAsked, rollHist, losses>>

Phases == {"preflight", "batch", "drain", "act", "settle", "health", "undrain",
           "back", "end"}
Ends   == {"running", "ok", "failed", "refused", "cancelled"}

RollingTypeOK ==
    /\ up \subseteq Members /\ inRotation \subseteq Members
    /\ roll \in [phase : Phases, batch : 0..PoolSize, todo : SUBSET Members,
                 out : SUBSET Members, end : Ends]
    /\ healthyNow \subseteq Members /\ leftDrained \subseteq Members
    /\ rolled \subseteq Members
    /\ degraded \in BOOLEAN /\ cancelAsked \in BOOLEAN
    /\ acted \subseteq Members /\ proven \subseteq Members /\ faulty \subseteq Members
    /\ losses \subseteq Members

RollingInit ==
    /\ up \in SUBSET Members
    /\ inRotation = Members
    /\ roll = [phase |-> "preflight", batch |-> 0, todo |-> {}, out |-> {},
               end |-> "running"]
    /\ healthyNow = {} /\ leftDrained = {} /\ rolled = {}
    /\ degraded \in BOOLEAN
    /\ cancelAsked = FALSE
    /\ acted = {} /\ proven = {} /\ faulty = {} /\ losses = {}

-----------------------------------------------------------------------------
First(S) == CHOOSE h \in S : \A i \in S : h <= i
Lose(h)  == Cardinality(losses \cup {h}) <= MaxLosses /\ losses' = losses \cup {h}

(* Mutant: a batch is one longer.                                           *)
MutBatch(g) == {h \in Members : (g - 1) * MaxUnavailable < h /\ h <= g * MaxUnavailable + 1}
Batch(g)    == {h \in Members : (g - 1) * MaxUnavailable < h /\ h <= g * MaxUnavailable}

At(phase)   == roll.phase = phase
EndWith(e)  == roll' = [roll EXCEPT !.phase = "end", !.end = e]
Enter(phase, todo) == roll' = [roll EXCEPT !.phase = phase, !.todo = todo]

(* Mutant: whoever is drained stays so.                                     *)
MutToPutBack(blamed) == {}
(* bail(): the members of this batch that are not to blame are put back.    *)
ToPutBack(blamed) == roll.out \ blamed
Bail(blamed, e) == roll' = [roll EXCEPT !.phase = "back", !.todo = ToPutBack(blamed),
                                        !.end = e]

(* Mutant: the batch starts the same phase again.                           *)
MutDone(h, next) == roll' = [roll EXCEPT !.todo = IF @ = {h} THEN roll.out ELSE @ \ {h}]
(* One member done with this phase; the next phase takes the whole batch.   *)
Done(h, next) ==
    roll' = IF roll.todo = {h} THEN [roll EXCEPT !.phase = next, !.todo = roll.out]
            ELSE [roll EXCEPT !.todo = @ \ {h}]

-----------------------------------------------------------------------------
(* preflight: a probe that raises counts as unhealthy.                      *)
Preflight ==
    /\ At("preflight")
    /\ \E missed \in {{}} \cup {{h} : h \in up} :
         /\ \A h \in missed : Lose(h)
         /\ missed = {} => UNCHANGED losses
         /\ healthyNow' = up \ missed
         /\ IF healthyNow' = {} \/ (healthyNow' # Members /\ ~degraded)
            THEN EndWith("refused")
            ELSE Enter("batch", {})
    /\ UNCHANGED <<up, inRotation, leftDrained, rolled, degraded, cancelAsked, rollHist>>

(* Mutant: rule 1 counts the members that are about to leave.               *)
MutFloorHolds(taking) == Cardinality(healthyNow) >= MinHealthy
(* Rule 1, by the book.                                                     *)
FloorHolds(taking) == Cardinality(healthyNow) - Cardinality(taking) >= MinHealthy

NextBatch ==
    /\ At("batch")
    /\ LET batch == Batch(roll.batch + 1) IN
       CASE batch = {} -> EndWith("ok")
         [] batch # {} /\ cancelAsked -> EndWith("cancelled")
         [] batch # {} /\ ~cancelAsked /\ ~FloorHolds(batch \cap healthyNow) ->
              EndWith("failed")
         [] OTHER -> roll' = [roll EXCEPT !.phase = "drain", !.batch = @ + 1,
                                          !.todo = batch, !.out = {}]
    /\ UNCHANGED <<up, inRotation, book, degraded, cancelAsked, rollHist, losses>>

Drain ==
    /\ At("drain")
    /\ LET h == First(roll.todo) IN
       \/ /\ inRotation' = inRotation \ {h}
          /\ healthyNow' = healthyNow \ {h}
          /\ leftDrained' = leftDrained \cup {h}
          /\ roll' = IF roll.todo = {h}
                     THEN [roll EXCEPT !.phase = "act", !.out = @ \cup {h},
                                       !.todo = roll.out \cup {h}]
                     ELSE [roll EXCEPT !.out = @ \cup {h}, !.todo = @ \ {h}]
          /\ UNCHANGED losses
       \/ /\ Lose(h)
          /\ inRotation' \in {inRotation, inRotation \ {h}}
          /\ Bail({}, "failed")
          /\ UNCHANGED <<healthyNow, leftDrained>>
    /\ UNCHANGED <<up, rolled, degraded, cancelAsked, rollHist>>

(* The action may break the member whatever it reports.                     *)
Act ==
    /\ At("act")
    /\ LET h == First(roll.todo) IN
       IF cancelAsked
       THEN Bail({}, "cancelled") /\ UNCHANGED <<up, acted, faulty>>
       ELSE /\ acted' = acted \cup {h}
            /\ up' \in {up \cup {h}, up \ {h}}
            /\ \/ Done(h, "settle") /\ UNCHANGED faulty
               \/ Bail({h}, "failed") /\ faulty' = faulty \cup {h}
    /\ UNCHANGED <<inRotation, book, degraded, cancelAsked, proven, losses>>

Settle ==
    /\ At("settle")
    /\ LET h == First(roll.todo) IN
       \/ Done(h, "health") /\ UNCHANGED faulty
       \/ h \notin up /\ Bail({h}, "failed") /\ faulty' = faulty \cup {h}
    /\ UNCHANGED <<up, inRotation, book, degraded, cancelAsked, acted, proven, losses>>

(* Mutant: the check is not looked at.                                      *)
MutFit(h) == TRUE
Fit(h)    == h \in up
Health ==
    /\ At("health")
    /\ LET h == First(roll.todo) IN
       IF Fit(h)
       THEN Done(h, "undrain") /\ proven' = proven \cup ({h} \cap up) /\ UNCHANGED faulty
       ELSE Bail({h}, "failed") /\ faulty' = faulty \cup {h} /\ UNCHANGED proven
    /\ UNCHANGED <<up, inRotation, book, degraded, cancelAsked, acted, losses>>

Undrain ==
    /\ At("undrain")
    /\ LET h == First(roll.todo) IN
       \/ /\ inRotation' = inRotation \cup {h}
          /\ leftDrained' = leftDrained \ {h}
          /\ healthyNow' = healthyNow \cup {h}
          /\ rolled' = rolled \cup {h}
          /\ Done(h, "batch")
          /\ UNCHANGED <<faulty, losses>>
       \/ /\ Lose(h)                          \* rule 4
          /\ inRotation' \in {inRotation, inRotation \cup {h}}
          /\ faulty' = faulty \cup {h}
          /\ Bail({h}, "failed")
          /\ UNCHANGED <<leftDrained, healthyNow, rolled>>
    /\ UNCHANGED <<up, degraded, cancelAsked, acted, proven>>

(* Mutant: put back, and still on the list.                                 *)
MutOut(h) == leftDrained
Out(h)    == leftDrained \ {h}
(* The rest of bail(): checked first, then put back.                        *)
PutBack ==
    /\ At("back")
    /\ IF roll.todo = {}
       THEN /\ roll' = [roll EXCEPT !.phase = "end"]
            /\ UNCHANGED <<inRotation, leftDrained, healthyNow, proven, faulty, losses>>
       ELSE LET h == First(roll.todo) IN
            /\ Enter("back", roll.todo \ {h})
            /\ \/ /\ h \in up
                  /\ inRotation' = inRotation \cup {h}
                  /\ leftDrained' = Out(h)
                  /\ healthyNow' = healthyNow \cup {h}
                  /\ proven' = proven \cup {h}
                  /\ UNCHANGED <<faulty, losses>>
               \/ /\ h \notin up
                  /\ faulty' = faulty \cup {h}
                  /\ UNCHANGED <<inRotation, leftDrained, healthyNow, proven, losses>>
               \/ /\ h \in up /\ Lose(h)
                  /\ inRotation' \in {inRotation, inRotation \cup {h}}
                  /\ proven' = proven \cup {h} /\ faulty' = faulty \cup {h}
                  /\ UNCHANGED <<leftDrained, healthyNow>>
    /\ UNCHANGED <<up, rolled, degraded, cancelAsked, acted>>

-----------------------------------------------------------------------------
(* Anything but the run.                                                    *)

MemberFails(h) ==
    /\ h \in up /\ h \notin roll.out \ rolled
    /\ Lose(h)
    /\ up' = up \ {h}
    /\ UNCHANGED <<inRotation, roll, book, degraded, cancelAsked, rollHist>>

CancelRun ==
    /\ ~cancelAsked /\ ~At("end")
    /\ cancelAsked' = TRUE
    /\ UNCHANGED <<up, inRotation, roll, book, degraded, rollHist, losses>>

RollStep == \/ Preflight \/ NextBatch \/ Drain \/ Act \/ Settle \/ Health \/ Undrain
            \/ PutBack
RollingNext == RollStep \/ (\E h \in Members : MemberFails(h)) \/ CancelRun

RollingSpec == RollingInit /\ [][RollingNext]_rollVars /\ WF_rollVars(RollStep)

-----------------------------------------------------------------------------
(* Rule 1: what the run does never leaves fewer than MinHealthy members     *)
(* serving: every one that is missing was lost otherwise, or was down from  *)
(* the start of a run that has not touched the pool.                        *)
ServingFloor ==
    \/ acted = {} /\ leftDrained = {}
    \/ Cardinality(inRotation \cap up) + Cardinality(losses) >= MinHealthy

(* Rule 2: a bad action costs one batch at the most.                        *)
OneBatchHurt ==
    /\ acted \ rolled \subseteq roll.out
    /\ Cardinality(roll.out) <= MaxUnavailable

(* Rule 3: a member the action was tried on takes traffic again only after  *)
(* it has passed its health check.                                          *)
FailedStaysOut == acted \cap inRotation \subseteq proven \cup losses

(* No bystander stays out: when the run is over, however it ended, whoever  *)
(* is out of rotation failed its own step or its own check.                 *)
OutForAReason == At("end") => Members \ inRotation \subseteq faulty \cup losses

(* What it reports is so: ok means everybody was rolled, and "drained"      *)
(* names those that are out.                                                *)
ReportIsTrue ==
    At("end") => /\ roll.end = "ok" => rolled = Members
                 /\ (leftDrained \ losses) = (Members \ inRotation) \ losses

(* The run comes to its end, whatever fails.                                *)
RunEnds == <>At("end")

(* What a rolling run does to the pool, whatever fails on the way: the      *)
(* three rules, nobody left out without a reason, and a true report.        *)
RollingIsSafe ==
    /\ RollingTypeOK
    /\ ServingFloor /\ OneBatchHurt /\ FailedStaysOut
    /\ OutForAReason /\ ReportIsTrue
=============================================================================
