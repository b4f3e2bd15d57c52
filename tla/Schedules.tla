----------------------------- MODULE Schedules -----------------------------
(***************************************************************************)
(* Scheduled jobs of the console: the JSON store with its lock, the one     *)
(* scheduler thread (list what is due; for each: move next_run on, run on   *)
(* every target, record), an operator who edits, disables, deletes and runs *)
(* jobs by hand meanwhile, saves that fail, and restarts.                   *)
(*                                                                         *)
(* A job fires At ticks into every Period ticks of local time, and local    *)
(* time is shifted by shift at tick ShiftAt: compute_next_run reckons with  *)
(* wall clocks.  An hourly or weekly job is a daily one with another        *)
(* period, and a weekly one loses fold.  The fields of a job are one        *)
(* version number; what a run executes is the version it has in hand.       *)
(***************************************************************************)
EXTENDS Integers, FiniteSets

CONSTANTS
    Jobs,         \* scheduled jobs
    WeeklyJobs,   \* those of weekly cadence
    SchedHosts,   \* number of their targets
    Period, DueAt,   \* the cadence: every Period, at At
    ShiftAt,      \* when daylight saving starts or ends
    MaxShift,     \* bound: ticks by which it shifts the clocks
    MaxTime,      \* bound: ticks
    MaxEdits,     \* bound: operator's requests
    MaxMishaps    \* bound: saves that fail, calls that raise, restarts

ASSUME ScheduleBounds ==
    /\ WeeklyJobs \subseteq Jobs
    /\ Period \in Nat \ {0} /\ DueAt \in 0..(Period - 1)
    /\ SchedHosts \in Nat \ {0} /\ ShiftAt \in Nat /\ MaxShift \in Nat
    /\ MaxTime \in Nat /\ MaxEdits \in Nat /\ MaxMishaps \in Nat

(* The wall clocks that are shown twice fall into one period: no zone sets  *)
(* its clocks back across the turn of an hour, a day or a week today.       *)
ASSUME ShiftWithinPeriod ==
    \E k \in 0..ShiftAt : k * Period <= ShiftAt - MaxShift /\ ShiftAt <= (k + 1) * Period

VARIABLES
    clock,
    shift,       \* by which clocks go forward, or back when it is negative
    schedules,   \* the store: job -> there, enabled, version, next_run, last_status
    loop,        \* the scheduler thread
    runNow,      \* the request thread of a run-now
    started,     \* history: next_run values the loop has started a run for
    twice,       \* history: jobs it has started again for the same value
    missed,      \* history: next_run values given up, and none started
    edits, mishaps

schedHist == <<started, twice, missed>>
schedVars == <<clock, shift, schedules, loop, runNow, schedHist, edits, mishaps>>

Times    == 0..(MaxTime + 2 * Period + MaxShift)
Statuses == {"never", "ok", "partial", "error"}

(* left: snapshots still to be handled in this pass; version, due: of the   *)
(* job in hand; hosts, good: how many targets are to come, how many did it. *)
NoRun == [pc |-> "idle", left |-> {}, job |-> 0, version |-> 0, due |-> 0,
         hosts |-> 0, good |-> 0, raised |-> FALSE]
Runs == [pc : {"idle", "advance", "run", "record"},
         left : SUBSET [job : Jobs, version : 0..MaxEdits, due : Times],
         job : Jobs \cup {0}, version : 0..MaxEdits, due : Times,
         hosts : 0..SchedHosts, good : 0..SchedHosts, raised : BOOLEAN]

SchedTypeOK ==
    /\ clock \in 0..MaxTime /\ shift \in {-MaxShift, MaxShift}
    /\ schedules \in [Jobs -> [there : BOOLEAN, enabled : BOOLEAN, version : 0..MaxEdits,
                               next : Times, status : Statuses]]
    /\ loop \in Runs /\ runNow \in Runs
    /\ started \in [Jobs -> SUBSET Times] /\ twice \subseteq Jobs
    /\ missed \in [Jobs -> SUBSET Times]
    /\ edits \in 0..MaxEdits /\ mishaps \in 0..MaxMishaps

-----------------------------------------------------------------------------
(* compute_next_run.                                                        *)

Lower(a, b) == IF a < b THEN a ELSE b
Wall(t) == IF t < ShiftAt THEN t ELSE t + shift
(* fold: the second time this wall clock is shown.                          *)
Second(t) == t >= ShiftAt /\ shift < 0 /\ Wall(t) < ShiftAt
(* timestamp() of a wall clock; one that is shown twice or never is taken   *)
(* with the offset before the shift, or after it in its second showing.     *)
Instant(w, second) ==
    CASE w < Lower(ShiftAt, ShiftAt + shift)              -> w
      [] w >= ShiftAt + shift /\ w >= ShiftAt             -> w - shift
      [] OTHER                                            -> IF second THEN w - shift ELSE w

(* replace() keeps fold, the addition of days, be they none, does not: only *)
(* a weekly job's wall clock is always the result of one.                   *)
NextRun(j, t) ==
    LET w   == Wall(t)
        nxt == (w - (w % Period)) + DueAt
    IN  IF nxt <= w THEN Instant(nxt + Period, FALSE)
        ELSE Instant(nxt, Second(t) /\ j \notin WeeklyJobs)

SchedInit ==
    /\ clock = 0 /\ shift \in {-MaxShift, MaxShift}
    /\ schedules = [j \in Jobs |-> [there |-> TRUE, enabled |-> TRUE, version |-> 0,
                                    next |-> NextRun(j, 0), status |-> "never"]]
    /\ loop = NoRun /\ runNow = NoRun
    /\ started = [j \in Jobs |-> {}] /\ twice = {}
    /\ missed = [j \in Jobs |-> {}]
    /\ edits = 0 /\ mishaps = 0

Mishap == mishaps < MaxMishaps /\ mishaps' = mishaps + 1
Due(j) == schedules[j].there /\ schedules[j].enabled /\ schedules[j].next <= clock

(* A write that moves next_run while it is due gives that run up.           *)
GivesUp(j) ==
    missed' = IF Due(j) /\ schedules[j].next \notin started[j]
              THEN [missed EXCEPT ![j] = @ \cup {schedules[j].next}] ELSE missed

-----------------------------------------------------------------------------
(* The scheduler thread.                                                    *)

(* due_jobs: copies, taken without the lock.                                *)
ListDue ==
    /\ loop.pc = "idle"
    /\ \E j \in Jobs : Due(j)
    /\ loop' = [NoRun EXCEPT !.pc = "advance",
                  !.left = {[job |-> j, version |-> schedules[j].version,
                             due |-> schedules[j].next] : j \in {i \in Jobs : Due(i)}}]
    /\ UNCHANGED <<clock, shift, schedules, runNow, schedHist, edits, mishaps>>

NextOf(left) == [NoRun EXCEPT !.pc = IF left = {} THEN "idle" ELSE "advance", !.left = left]
(* Mutant: the run is skipped when the advance was recorded.                *)
MutBegin(s, left) == NextOf(left)
Begin(s, left) ==
    [NoRun EXCEPT !.pc = "run", !.left = left, !.job = s.job, !.version = s.version,
                 !.due = s.due, !.hosts = SchedHosts]

(* Mutant: a save that fails does not keep the job from running.            *)
MutUnsaved(s, left) == Begin(s, left)
(* "If the advance can't be recorded, skip the run."                        *)
Unsaved(s, left) == NextOf(left)
(* advance_next_run: it asks whether the job is there, not whether it is    *)
(* still enabled or still the same.                                         *)
Advance ==
    /\ loop.pc = "advance"
    /\ \E s \in loop.left :
         LET j    == s.job
             left == loop.left \ {s}
             Start(next) ==
                /\ loop' = next
                /\ IF next.pc = "run"
                   THEN /\ started' = [started EXCEPT ![j] = @ \cup {s.due}]
                        /\ twice' = IF s.due \in started[j] THEN twice \cup {j} ELSE twice
                   ELSE UNCHANGED <<started, twice>>
         IN \/ /\ schedules[j].there
               /\ schedules' = [schedules EXCEPT ![j].next = NextRun(j, clock)]
               /\ Start(Begin(s, left))
               /\ missed' = IF Due(j) /\ schedules[j].next # s.due
                            THEN [missed EXCEPT ![j] = @ \cup {schedules[j].next}]
                            ELSE missed
               /\ UNCHANGED mishaps
            \/ /\ schedules[j].there /\ Mishap
               /\ Start(Unsaved(s, left))
               /\ UNCHANGED <<schedules, missed>>
            \/ /\ ~schedules[j].there
               /\ loop' = NextOf(left)
               /\ UNCHANGED <<schedules, started, twice, missed, mishaps>>
    /\ UNCHANGED <<clock, shift, runNow, edits>>

(* _dispatch_one on one target after the other: it answers, well or badly   *)
(* (an offline host is a bad answer), or an error while its result is       *)
(* polled for ends the run: the targets after it are not tried.             *)
Answered(r) == {[r EXCEPT !.hosts = @ - 1, !.good = @ + did] : did \in {0, 1}}
Raised(r)   == {[r EXCEPT !.hosts = 0, !.raised = TRUE]}
AtHost(r)   == r.pc = "run" /\ r.hosts > 0

LoopRunsHost ==
    /\ AtHost(loop)
    /\ \/ loop' \in Answered(loop) /\ UNCHANGED mishaps
       \/ loop' \in Raised(loop) /\ Mishap
    /\ UNCHANGED <<clock, shift, schedules, runNow, schedHist, edits>>

(* Mutant: one host is enough.                                              *)
MutVerdictOf(r) == IF r.raised \/ r.good = 0 THEN "error" ELSE "ok"
(* "THREE outcomes, not two."                                               *)
VerdictOf(r) == CASE r.raised \/ r.good = 0 -> "error"
                  [] r.good = SchedHosts    -> "ok"
                  [] OTHER                   -> "partial"

(* Mutant: the copy in hand is saved.                                       *)
MutRecorded(r) == [schedules EXCEPT ![r.job] =
                     [there |-> TRUE, enabled |-> TRUE, version |-> r.version,
                      next |-> NextRun(r.job, clock), status |-> VerdictOf(r)]]
(* record_run: the job as it is now, if it is still there.                  *)
Recorded(r) == IF schedules[r.job].there
               THEN [schedules EXCEPT ![r.job].next = NextRun(r.job, clock),
                                      ![r.job].status = VerdictOf(r)]
               ELSE schedules
Record(r) ==
    /\ r.pc = "run" /\ r.hosts = 0
    /\ \/ schedules' = Recorded(r) /\ GivesUp(r.job) /\ UNCHANGED mishaps
       \/ Mishap /\ UNCHANGED <<schedules, missed>>
    /\ UNCHANGED <<clock, shift, started, twice, edits>>

LoopRecords == Record(loop) /\ loop' = NextOf(loop.left) /\ UNCHANGED runNow

-----------------------------------------------------------------------------
(* Requests.                                                                *)

Edit == edits < MaxEdits /\ edits' = edits + 1

UpdateJob(j, enabled) ==
    /\ Edit /\ schedules[j].there
    /\ schedules' = [schedules EXCEPT ![j].version = edits + 1, ![j].enabled = enabled,
                                      ![j].next = NextRun(j, clock)]
    /\ GivesUp(j)
    /\ UNCHANGED <<clock, shift, loop, runNow, started, twice, mishaps>>

DeleteJob(j) ==
    /\ Edit /\ schedules[j].there
    /\ schedules' = [schedules EXCEPT ![j].there = FALSE]
    /\ GivesUp(j)
    /\ UNCHANGED <<clock, shift, loop, runNow, started, twice, mishaps>>

RunNow(j) ==
    /\ Edit /\ schedules[j].there /\ runNow.pc = "idle"
    /\ runNow' = Begin([job |-> j, version |-> schedules[j].version, due |-> 0], {})
    /\ UNCHANGED <<clock, shift, schedules, loop, schedHist, mishaps>>

(* What the run raises becomes the answer, and nothing is recorded.         *)
RunNowHost ==
    /\ AtHost(runNow)
    /\ \/ runNow' \in Answered(runNow) /\ UNCHANGED mishaps
       \/ runNow' = NoRun /\ Mishap
    /\ UNCHANGED <<clock, shift, schedules, loop, schedHist, edits>>

RunNowRecords == Record(runNow) /\ runNow' = NoRun /\ UNCHANGED loop

(* The web console starts again: its threads are gone, the file is not.     *)
ConsoleRestart ==
    /\ Mishap
    /\ loop' = NoRun /\ runNow' = NoRun
    /\ UNCHANGED <<clock, shift, schedules, schedHist, edits>>

TimeGoesOn ==
    /\ clock < MaxTime
    /\ clock' = clock + 1
    /\ UNCHANGED <<shift, schedules, loop, runNow, schedHist, edits, mishaps>>

LoopStep == ListDue \/ Advance \/ LoopRunsHost \/ LoopRecords
SchedNext ==
    \/ LoopStep
    \/ \E j \in Jobs : \/ \E enabled \in BOOLEAN : UpdateJob(j, enabled)
                       \/ DeleteJob(j) \/ RunNow(j)
    \/ RunNowHost \/ RunNowRecords
    \/ ConsoleRestart \/ TimeGoesOn

SchedSpec == SchedInit /\ [][SchedNext]_schedVars /\ WF_schedVars(LoopStep)

-----------------------------------------------------------------------------
(* The loop starts a job at most once for each time it falls due, whatever  *)
(* fails to be saved and whenever the console restarts, on both sides of    *)
(* the hour that is shown twice; but a weekly job's next_run may then be    *)
(* the first showing, which is past.                                        *)
OncePerOccurrence == \A j \in twice : j \in WeeklyJobs /\ shift < 0 /\ ShiftAt <= clock

(* What the operator was told is stored stays stored, through every run     *)
(* that is recorded meanwhile; what was deleted stays deleted.              *)
EditsSurvive == [][\A j \in Jobs :
    /\ ~schedules[j].there => ~schedules'[j].there
    /\ schedules'[j].version # schedules[j].version => edits' # edits]_schedVars

(* "ok" is recorded only of a run that succeeded on every target, and       *)
(* "partial" only of one that succeeded on some.                            *)
StatusIsTrue == [][\A j \in Jobs :
    LET status == schedules'[j].status
        runs   == {r \in {loop, runNow} : r.pc = "run" /\ r.job = j /\ r.hosts = 0}
    IN  status # schedules[j].status =>
          \E r \in runs : /\ status = "ok" => r.good = SchedHosts
                          /\ status = "partial" => r.good # 0]_schedVars

(* A time at which a job fell due is given up only by starting the job or   *)
(* in one of the ways "missed" collects: an edit or another run's record     *)
(* while it was due, or a start-up later than the grace.                     *)
NoneIsDropped == [][\A j \in Jobs :
    Due(j) /\ schedules'[j].next # schedules[j].next =>
        schedules[j].next \in started'[j] \cup missed'[j]]_schedVars

(* Whatever fails, the loop gets round to every job that is due.            *)
OccurrenceIsServed == \A j \in Jobs : Due(j) ~> ~Due(j)

(* The schedule the operators gave is the one that is kept: their edits     *)
(* stay, each occurrence is started once or given up in one of the ways     *)
(* named, and what is recorded of a run is so.                              *)
ScheduleIsKept ==
    [](SchedTypeOK /\ OncePerOccurrence) /\ EditsSurvive /\ NoneIsDropped /\ StatusIsTrue
=============================================================================
