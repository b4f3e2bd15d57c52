------------------------------ MODULE Integrity ------------------------------
(***************************************************************************)
(* Agent integrity and agent updates, for one host.  Every heartbeat        *)
(* carries the build the agent process runs and a measurement of the        *)
(* agent's files; the controller seals the first measurement it sees and    *)
(* quarantines the host when a later one differs.  The controller's own     *)
(* updates change those files too, so pushing one opens a window in which   *)
(* whatever is measured is sealed again.  Hosts do not interact here: the   *)
(* state file is one JSON object, read and replaced under one lock.         *)
(*                                                                         *)
(* Measured files are compared for equality only, so a measurement is the   *)
(* build that was installed, or "bad" for anything the controller did not   *)
(* ship.  Timers count down, or up to the threshold they are compared with. *)
(***************************************************************************)
EXTENDS Integers, FiniteSets

CONSTANTS
    Threads,     \* threads of the backend's pool
    None,        \* no value
    Window,      \* _RESEAL_WINDOW_S, in ticks
    Grace,       \* _MISSING_GRACE_S, in ticks
    Cooldown,    \* _AGENT_AUTO_UPDATE_RETRY_S, in ticks
    MaxEvents    \* bound: operator's acts, faults and tampering

ASSUME IntegrityBounds ==
    /\ Window \in Nat \ {0} /\ Grace \in Nat /\ Cooldown \in Nat
    /\ MaxEvents \in Nat /\ None \notin {"old", "new", "bad"}

Builds   == {"old", "new"}
Contents == Builds \cup {"bad"}

VARIABLES
    target,    \* the controller's current agent build
    disk,      \* what is installed on the host
    running,   \* what the agent process was started from
    mute,      \* measure() fails, or the agent leaves the manifest out
    revoked,   \* agents.revoked
    rec,       \* the host's record in agent_integrity_state.json
    memo,      \* _auto_update_sent of the host
    pending,   \* the newest update task that waits for the host
    got,       \* the update the agent has polled and not yet run
    thread,    \* handlers
    cause,     \* history: what may excuse a quarantine
    events     \* bound

host == <<disk, running, mute>>
vars == <<target, host, revoked, rec, memo, pending, got, thread, cause, events>>

NoRecord == [sealed |-> None, status |-> "ok", window |-> 0, missing |-> None]
Idle     == [pc |-> "idle", version |-> None, files |-> None]

TypeOK ==
    /\ target \in Builds /\ disk \in Contents /\ running \in Contents
    /\ mute \in BOOLEAN /\ revoked \in BOOLEAN
    /\ rec \in [sealed : Contents \cup {None}, status : {"ok", "quarantined"},
                window : 0..Window, missing : {None} \cup 0..Grace]
    /\ memo \in {None} \cup [build : Builds, age : 0..Cooldown]
    /\ pending \in Builds \cup {None} /\ got \in Builds \cup {None}
    /\ thread \in [Threads -> [pc : {"idle", "verify", "auto", "queue", "mark", "judge"},
                               version : Contents \cup {None},
                               files : Contents \cup {None}]]
    /\ cause \subseteq {"tampered", "mute", "late", "dropped", "expired", "unsaved"}
    /\ events \in 0..MaxEvents

Init ==
    /\ target = "old" /\ disk = "old" /\ running = "old"
    /\ mute = FALSE /\ revoked = FALSE
    /\ rec = NoRecord /\ memo = None /\ pending = None /\ got = None
    /\ thread = [w \in Threads |-> Idle]
    /\ cause = {} /\ events = 0

Goto(w, pc) == thread' = [thread EXCEPT ![w].pc = pc]
Finish(w)   == thread' = [thread EXCEPT ![w] = Idle]
Event       == events < MaxEvents /\ events' = events + 1
Blame(c)    == cause' = cause \cup {c}

-----------------------------------------------------------------------------
(* backend/agent_integrity.py: what one call does to the record.            *)

(* Mutant: no window.                                                       *)
MutInWindow(r) == FALSE
InWindow(r) == r.window > 0

(* Mutant: a quarantined host is sealed again by its next heartbeat.        *)
MutEvaluate(r, files) ==
    IF r.sealed = None THEN [NoRecord EXCEPT !.sealed = files]
    ELSE IF InWindow(r) \/ r.status = "quarantined"
    THEN [r EXCEPT !.sealed = files, !.status = "ok", !.missing = None]
    ELSE [r EXCEPT !.missing = None,
                   !.status = IF files = r.sealed THEN "ok" ELSE "quarantined"]

(* evaluate(files): an armed timer is cleared, an open window reseals, the  *)
(* first sighting seals (and forgets everything else), else compare.        *)
Evaluate(r, files) ==
    IF InWindow(r)
    THEN [r EXCEPT !.sealed = files, !.status = "ok", !.missing = None]
    ELSE IF r.sealed = None THEN [NoRecord EXCEPT !.sealed = files]
    ELSE [r EXCEPT !.missing = None,
                   !.status = IF files = r.sealed THEN "ok" ELSE "quarantined"]

(* Mutant: a timer that starts over on every miss.                          *)
MutNoteMissing(r) ==
    IF r.sealed = None \/ InWindow(r) \/ r.status = "quarantined" THEN r
    ELSE [r EXCEPT !.missing = 0]

(* note_missing(): arm the timer once, quarantine when it has run out.      *)
NoteMissing(r) ==
    IF r.sealed = None \/ InWindow(r) \/ r.status = "quarantined" THEN r
    ELSE IF r.missing = None THEN [r EXCEPT !.missing = 0]
    ELSE IF r.missing = Grace THEN [r EXCEPT !.status = "quarantined"]
    ELSE r

(* mark_updating(): also on a record without a baseline.                    *)
MarkUpdating(r) == [r EXCEPT !.window = Window, !.status = "ok"]

-----------------------------------------------------------------------------
(* The heartbeat handler.  The agent's heartbeat thread sends the build it  *)
(* runs and measures what is on disk; a request it gave up on may still be  *)
(* handled after the next one.                                              *)

Heartbeat(w) ==
    /\ thread[w].pc = "idle"
    /\ thread' = [thread EXCEPT ![w] = [pc |-> "verify", version |-> running,
                                        files |-> IF mute THEN None ELSE disk]]
    /\ UNCHANGED <<target, host, revoked, rec, memo, pending, got, cause, events>>

(* verify_agent: 403 for a revoked host.                                    *)
HeartbeatVerify(w) ==
    /\ thread[w].pc = "verify"
    /\ IF revoked THEN Finish(w)
       ELSE Goto(w, IF thread[w].version = target THEN "judge" ELSE "auto")
    /\ UNCHANGED <<target, host, revoked, rec, memo, pending, got, cause, events>>

(* Mutant: one update per build, and never again.                           *)
MutShouldQueue == memo = None \/ memo.build # target
ShouldQueue == \/ memo = None
               \/ memo.build # target
               \/ memo.age = Cooldown

(* _maybe_auto_update_agent: a revoked host is left alone; the memo is      *)
(* written before anything is queued.                                       *)
AutoUpdate(w) ==
    /\ thread[w].pc = "auto"
    /\ IF ~revoked /\ ShouldQueue
       THEN memo' = [build |-> target, age |-> 0] /\ Goto(w, "queue")
       ELSE UNCHANGED memo /\ Goto(w, "judge")
    /\ UNCHANGED <<target, host, revoked, rec, pending, got, cause, events>>

(* queue_task: the build is the one on the controller's disk by now.  When  *)
(* the insert fails, no window is opened.  version = None: a manual push.   *)
After(w) == IF thread[w].version = None THEN "idle" ELSE "judge"
QueueUpdate(w) ==
    /\ thread[w].pc = "queue"
    /\ \/ /\ pending' = target
          /\ Goto(w, "mark")
          /\ UNCHANGED events
       \/ /\ Event
          /\ Goto(w, After(w))
          /\ UNCHANGED pending
    /\ UNCHANGED <<target, host, revoked, rec, memo, got, cause>>

(* mark_updating swallows a failed save; the task is queued all the same.   *)
Mark(w) ==
    /\ thread[w].pc = "mark"
    /\ Goto(w, After(w))
    /\ \/ /\ rec' = MarkUpdating(rec)
          /\ UNCHANGED <<cause, events>>
       \/ /\ Event /\ Blame("unsaved")
          /\ UNCHANGED rec
    /\ UNCHANGED <<target, host, revoked, memo, pending, got>>

(* evaluate() or note_missing(), under the lock.  A judgement on files that *)
(* have been replaced since they were measured is late.                     *)
Judge(w) ==
    /\ thread[w].pc = "judge"
    /\ LET files == thread[w].files IN
       \/ /\ rec' = IF files = None THEN NoteMissing(rec) ELSE Evaluate(rec, files)
          /\ cause' = IF files \notin {None, disk} /\ ~InWindow(rec)
                      THEN cause \cup {"late"} ELSE cause
          /\ UNCHANGED events
       \/ Event /\ Blame("unsaved") /\ UNCHANGED rec
    /\ Finish(w)
    /\ UNCHANGED <<target, host, revoked, memo, pending, got>>

(* update_agents_route: every host that is not revoked.                     *)
ManualPush(w) ==
    /\ Event
    /\ thread[w].pc = "idle" /\ ~revoked
    /\ Goto(w, "queue")
    /\ UNCHANGED <<target, host, revoked, rec, memo, pending, got, cause>>

-----------------------------------------------------------------------------
(* The host.                                                                *)

(* poll_agent_tasks: nothing for a quarantined or a revoked host.  Updates  *)
(* queued one after the other run in that order, and the last one stays.    *)
Poll ==
    /\ pending # None /\ got = None
    /\ ~revoked /\ rec.status # "quarantined"
    /\ pending' = None
    /\ \/ got' = pending /\ UNCHANGED events
       \/ got' = None /\ Event         \* the answer is lost after the claim
    /\ UNCHANGED <<target, host, revoked, rec, memo, thread, cause>>

(* The update command: the new file is compiled first and then moved over.  *)
RunUpdate ==
    /\ got # None
    /\ got' = None
    /\ \/ disk' = got /\ UNCHANGED events
       \/ Event /\ UNCHANGED disk
    /\ UNCHANGED <<target, running, mute, revoked, rec, memo, pending, thread, cause>>

(* _reexec_if_source_changed, or the restart the update command asked for.  *)
Reexec ==
    /\ running # disk
    /\ running' = disk
    /\ got' = None
    /\ UNCHANGED <<target, disk, mute, revoked, rec, memo, pending, thread, cause, events>>

Tamper ==
    /\ Event /\ Blame("tampered")
    /\ disk' = "bad"
    /\ UNCHANGED <<target, running, mute, revoked, rec, memo, pending, got, thread>>

GoMute ==
    /\ Event /\ Blame("mute")
    /\ mute' = TRUE
    /\ UNCHANGED <<target, disk, running, revoked, rec, memo, pending, got, thread>>

Unmute ==
    /\ mute
    /\ mute' = FALSE
    /\ UNCHANGED <<target, disk, running, revoked, rec, memo, pending, got, thread,
                   cause, events>>

-----------------------------------------------------------------------------
(* The controller's own upgrade, and its administrators.                    *)

Upgrade ==
    /\ target = "old"
    /\ target' = "new"
    /\ UNCHANGED <<host, revoked, rec, memo, pending, got, thread, cause, events>>

(* rebaseline() takes the window with it, whatever update is under way.     *)
Updating  == pending # None \/ got # None \/ InWindow(rec)
             \/ \E w \in Threads : thread[w].pc \in {"queue", "mark"}
Rebaseline ==
    /\ rec' = NoRecord
    /\ cause' = IF Updating THEN cause \cup {"dropped"} ELSE cause

Resume ==
    /\ Event
    /\ Rebaseline
    /\ UNCHANGED <<target, host, revoked, memo, pending, got, thread>>

Revoke ==
    /\ Event
    /\ ~revoked
    /\ revoked' = TRUE
    /\ Rebaseline
    /\ UNCHANGED <<target, host, memo, pending, got, thread>>

Restore ==
    /\ revoked
    /\ revoked' = FALSE
    /\ UNCHANGED <<target, host, rec, memo, pending, got, thread, cause, events>>

(* A restart of the backend loses handlers and the memo, not the record.    *)
BackendRestart ==
    /\ Event
    /\ thread' = [w \in Threads |-> Idle]
    /\ memo' = None
    /\ cause' = IF \E w \in Threads : thread[w].pc = "mark"
                THEN cause \cup {"unsaved"} ELSE cause
    /\ UNCHANGED <<target, host, revoked, rec, pending, got>>

(* The window may run out on an update that has not been measured yet.      *)
Up(n, top) == IF n = None THEN None ELSE IF n < top THEN n + 1 ELSE n
Tick ==
    /\ rec' = [rec EXCEPT !.window = IF @ = 0 THEN 0 ELSE @ - 1,
                          !.missing = Up(@, Grace)]
    /\ memo' = IF memo = None THEN None ELSE [memo EXCEPT !.age = Up(@, Cooldown)]
    /\ cause' = IF rec.window = 1 /\ (pending # None \/ got # None \/ rec.sealed # disk)
                THEN cause \cup {"expired"} ELSE cause
    /\ UNCHANGED <<target, host, revoked, pending, got, thread, events>>

-----------------------------------------------------------------------------
HandlerStep(w) == \/ HeartbeatVerify(w) \/ AutoUpdate(w) \/ QueueUpdate(w)
                  \/ Mark(w) \/ Judge(w)
Next ==
    \/ \E w \in Threads : Heartbeat(w) \/ HandlerStep(w) \/ ManualPush(w)
    \/ Poll \/ RunUpdate \/ Reexec \/ Tamper \/ GoMute \/ Unmute
    \/ Upgrade \/ Resume \/ Revoke \/ Restore \/ BackendRestart \/ Tick

(* The heartbeat and task threads of an agent that is up go on, handlers    *)
(* finish, and time passes.                                                 *)
Fairness ==
    /\ \A w \in Threads : WF_vars(HandlerStep(w))
    /\ WF_vars(\E w \in Threads : Heartbeat(w))
    /\ SF_vars(Poll) /\ WF_vars(RunUpdate) /\ WF_vars(Reexec) /\ WF_vars(Tick)

Spec     == Init /\ [][Next]_vars
FairSpec == Spec /\ Fairness

-----------------------------------------------------------------------------
(* An update of the controller's own never locks the host out: without a    *)
(* named cause (tampering, silence, a measurement older than the files, a   *)
(* record dropped under way, a window that ran out, a write that failed) a  *)
(* host is quarantined only while the handler that queued its update is     *)
(* about to open the window, which lifts the quarantine again.              *)
LockoutHasCause ==
    rec.status = "quarantined" /\ cause = {} =>
        \E w \in Threads : thread[w].pc = "mark"

(* What the controller did not ship is sealed only as the first sighting or *)
(* in an update's window; and a quarantine only ends by an administrator's  *)
(* rebaseline, by a push of an update or by measuring what was sealed.      *)
SealsAreGranted ==
    [][/\ rec'.sealed = "bad" /\ rec.sealed # "bad" =>
             rec.sealed = None \/ rec.window > 0
       /\ rec.status = "quarantined" /\ rec'.status = "ok" =>
             \/ rec' = NoRecord
             \/ rec'.window = Window
             \/ rec'.sealed = rec.sealed /\ rec'.missing = None]_vars

(* note_missing: a host that was sealed and stops reporting for good is     *)
(* locked out, and stays so.                                                *)
EvasionIsCaught ==
    <>[](mute /\ ~revoked /\ rec.sealed # None /\ rec.window = 0)
    => <>[](rec.status = "quarantined")

(* "a fleet slowly drifts onto mixed builds": a managed host ends on the    *)
(* controller's build, whatever updates were lost on the way, and also from *)
(* quarantine.                                                              *)
BuildConverges == <>[](~revoked) => <>[](running = target /\ disk = target)

(* What locks a host out, and what lets it in again.                        *)
IntegrityHolds == [](TypeOK /\ LockoutHasCause) /\ SealsAreGranted
=============================================================================
