------------------------------ MODULE TaskQueue ------------------------------
(***************************************************************************)
(* The controller's command queue, end to end: an operator's request queues *)
(* a task row in SQLite (and leaves a sudo password or a root promise in    *)
(* the backend's memory), the host's agent claims it with a poll, runs it   *)
(* and reports a result, and a background loop closes what never came back. *)
(*                                                                         *)
(* Handlers run on a thread pool: one step here is one committed SQLite     *)
(* transaction, one lock-protected access to memory, or one read on which   *)
(* the handler branches, and any other thread may run in between.           *)
(*                                                                         *)
(* Time is kept as ages.  Tick makes every age grow by one and an age stops *)
(* growing once it is past the only threshold it is ever compared with, so  *)
(* that time itself is unbounded.                                           *)
(***************************************************************************)
EXTENDS Integers, Sequences, FiniteSets

CONSTANTS
    Hosts,          \* host_ids
    Workers,        \* threads of the backend's pool
    MaxTasks,       \* bound: rows ever inserted in agent_tasks
    MaxFaults,      \* bound: lockouts, deletions, key outages and faults
    Requests,       \* the bodies operators post, each a subset of Wants
    ReclaimAfter,   \* _TASK_RECLAIM_SECONDS, in ticks
    Retention,      \* TASK_RETENTION_DAYS, in ticks
    BecomeTTL,      \* _BECOME_TTL_S, in ticks
    CmdTimeout      \* the agent's _CMD_TIMEOUT, in ticks

(* What a request can ask for: the two RAM-held items, an activity row, and *)
(* kind = "ssh_enable" (the controller's own SSH auto-enroll command).      *)
Items == {"password", "root"}
Wants == Items \cup {"log", "ssh"}

ASSUME BoundsAssumption ==
    /\ MaxTasks \in Nat /\ MaxFaults \in Nat
    /\ ReclaimAfter \in Nat /\ Retention \in Nat
    /\ BecomeTTL \in Nat /\ CmdTimeout \in Nat
    /\ Requests \subseteq SUBSET Wants
    /\ Hosts # {}

TaskIds  == 1..MaxTasks
NotHeld  == -1
Terminal == {"done", "timed_out"}

VARIABLES
    agentRow,     \* agents table: is there a row for the host, is it revoked
    quarantined,  \* hosts the integrity check has locked out of dispatch
    auditKey,     \* can the audit HMAC key be resolved right now
    status,       \* agent_tasks.status; "unused" / "removed": no such row
    owner,        \* agent_tasks.host_id
    req,          \* what the task was queued with
    createdAge,   \* now - agent_tasks.created
    dispatchAge,  \* now - agent_tasks.dispatched
    results,      \* agent_results rows of the task, by origin
    ram,          \* _PENDING_BECOME and _PENDING_WANT_ROOT: age, or NotHeld
    thread,       \* what each pool thread is doing
    reclaimer,    \* the _task_reclaim_loop thread
    agent,        \* each host's agent process
    ran,          \* history: how often the command was started on its host
    attached,     \* history: RAM items that went out with the task
    effects,      \* history: _consume_ssh_enable_result runs for the task
    refused,      \* history: tasks whose caller was answered with an error
    faults        \* bound: disturbances so far

db    == <<status, owner, req, createdAge, dispatchAge, results>>
hist  == <<ran, attached, effects, refused>>
trust == <<agentRow, quarantined, auditKey>>
vars  == <<trust, db, ram, thread, reclaimer, agent, hist, faults>>

(* Row ids are AUTOINCREMENT: the least one is the oldest.                  *)
Least(S) == CHOOSE t \in S : \A u \in S : t <= u

-----------------------------------------------------------------------------
QueuePCs  == {"q_exists", "q_insert", "q_become", "q_root", "q_log"}
PollPCs   == {"p_verify", "p_quarantine", "p_claim", "p_become", "p_root"}
ResultPCs == {"r_verify", "r_owner", "r_submit", "r_effect"}

(* live: the caller is still waiting for this handler's answer.             *)
Handlers == [pc : {"idle"} \cup QueuePCs \cup PollPCs \cup ResultPCs,
             host : Hosts, tasks : SUBSET TaskIds, want : SUBSET Wants,
             live : BOOLEAN]

Agents == [mode : {"down", "idle", "polling", "ready", "running", "sending"},
           batch : SUBSET TaskIds, age : 0..CmdTimeout]

AnyHost == CHOOSE h \in Hosts : TRUE
IdleHandler == [pc |-> "idle", host |-> AnyHost, tasks |-> {}, want |-> {},
                live |-> FALSE]
AgentIn(mode, batch) == [mode |-> mode, batch |-> batch, age |-> 0]

TypeOK ==
    /\ agentRow \in [Hosts -> {"absent", "active", "revoked"}]
    /\ quarantined \in SUBSET Hosts
    /\ auditKey \in BOOLEAN
    /\ status \in [TaskIds -> {"unused", "pending", "dispatched", "removed"}
                                \cup Terminal]
    /\ owner \in [TaskIds -> Hosts]
    /\ req \in [TaskIds -> SUBSET Wants]
    /\ createdAge \in [TaskIds -> 0..Retention+1]
    /\ dispatchAge \in [TaskIds -> 0..ReclaimAfter+1]
    /\ results \in [TaskIds -> Seq({"real", "synthetic"})]
    /\ ram \in [Items -> [TaskIds -> NotHeld..BecomeTTL+1]]
    /\ thread \in [Workers -> Handlers]
    /\ reclaimer \in [pc : {"sleep", "apply"}, stale : SUBSET TaskIds]
    /\ agent \in [Hosts -> Agents]
    /\ ran \in [TaskIds -> Nat]
    /\ attached \in [TaskIds -> SUBSET Items]
    /\ effects \in [TaskIds -> Nat]
    /\ refused \in SUBSET TaskIds
    /\ faults \in Nat

Init ==
    /\ agentRow = [h \in Hosts |-> "active"]
    /\ quarantined = {}
    /\ auditKey = TRUE
    /\ status = [t \in TaskIds |-> "unused"]
    /\ owner = [t \in TaskIds |-> AnyHost]
    /\ req = [t \in TaskIds |-> {}]
    /\ createdAge = [t \in TaskIds |-> 0]
    /\ dispatchAge = [t \in TaskIds |-> 0]
    /\ results = [t \in TaskIds |-> <<>>]
    /\ ram = [i \in Items |-> [t \in TaskIds |-> NotHeld]]
    /\ thread = [w \in Workers |-> IdleHandler]
    /\ reclaimer = [pc |-> "sleep", stale |-> {}]
    /\ agent = [h \in Hosts |-> AgentIn("idle", {})]
    /\ ran = [t \in TaskIds |-> 0]
    /\ attached = [t \in TaskIds |-> {}]
    /\ effects = [t \in TaskIds |-> 0]
    /\ refused = {}
    /\ faults = 0

-----------------------------------------------------------------------------
(* What happens when an agent's request is answered, or given up on.        *)

Begin(w, pc, h, tasks, want, live) ==
    thread' = [thread EXCEPT ![w] = [pc |-> pc, host |-> h, tasks |-> tasks,
                                     want |-> want, live |-> live]]
Goto(w, pc) == thread' = [thread EXCEPT ![w].pc = pc]
GotoWith(w, pc, tasks) ==
    thread' = [thread EXCEPT ![w] = [@ EXCEPT !.pc = pc, !.tasks = tasks]]
Finish(w)   == thread' = [thread EXCEPT ![w] = IdleHandler]

(* The answer reaches the agent only if the agent still waits for it.       *)
Answer(w, a) ==
    agent' = IF thread[w].live THEN [agent EXCEPT ![thread[w].host] = a]
             ELSE agent

(* Mutant: the loop is left in a state the agent does not know.             *)
MutExited == AgentIn("unknown", {})
(* 404 "Unknown host_id": UnknownHostError, clear_state(), sys.exit(1).     *)
Exited == AgentIn("down", {})

(* The loop's batch is in id order: fetch_pending_tasks sorts it.           *)
Current(h) == Least(agent[h].batch)
(* send_result() is over, however it ended: go on with the rest.            *)
Advanced(h) ==
    LET rest == agent[h].batch \ {Current(h)}
    IN  AgentIn(IF rest = {} THEN "idle" ELSE "ready", rest)

(* Nobody waits any more for a request that h has in flight.                *)
Abandon(h) == [w \in Workers |->
                 IF thread[w].live /\ thread[w].host = h
                 THEN [thread[w] EXCEPT !.live = FALSE] ELSE thread[w]]

-----------------------------------------------------------------------------
(* queue_agent_task: the row is committed before the password and the root  *)
(* promise reach memory, and before the activity row is written.            *)

Unused    == {t \in TaskIds : status[t] = "unused"}
NextId    == Least(Unused)
Inserting == {w \in Workers : thread[w].pc \in {"q_exists", "q_insert"}}

(* Bound: a request is only made while an unused row id is left for it.     *)
QueueRequest(w, h, r) ==
    /\ thread[w].pc = "idle"
    /\ Cardinality(Inserting) < Cardinality(Unused)
    /\ Begin(w, "q_exists", h, {}, r, FALSE)
    /\ UNCHANGED <<trust, db, ram, reclaimer, agent, hist, faults>>

QueueExists(w) ==
    /\ thread[w].pc = "q_exists"
    /\ IF agentRow[thread[w].host] = "absent" THEN Finish(w)
       ELSE Goto(w, "q_insert")
    /\ UNCHANGED <<trust, db, ram, reclaimer, agent, hist, faults>>

QueueInsert(w) ==
    /\ thread[w].pc = "q_insert"
    /\ Unused # {}
    /\ status' = [status EXCEPT ![NextId] = "pending"]
    /\ owner' = [owner EXCEPT ![NextId] = thread[w].host]
    /\ req' = [req EXCEPT ![NextId] = thread[w].want]
    /\ createdAge' = [createdAge EXCEPT ![NextId] = 0]
    /\ GotoWith(w, "q_become", {NextId})
    /\ UNCHANGED <<trust, dispatchAge, results, ram, reclaimer, agent, hist,
                   faults>>

(* _store_become / _store_want_root: sweep the expired ones, then store.    *)
Sweep(held) == [t \in TaskIds |-> IF held[t] > BecomeTTL THEN NotHeld
                                  ELSE held[t]]
Store(w, item) ==
    ram' = IF item \in thread[w].want
           THEN [ram EXCEPT ![item] =
                    [t \in TaskIds |-> IF t \in thread[w].tasks THEN 0
                                       ELSE Sweep(ram[item])[t]]]
           ELSE ram

QueueStoreBecome(w) ==
    /\ thread[w].pc = "q_become"
    /\ Store(w, "password")
    /\ Goto(w, "q_root")
    /\ UNCHANGED <<trust, db, reclaimer, agent, hist, faults>>

QueueStoreRoot(w) ==
    /\ thread[w].pc = "q_root"
    /\ Store(w, "root")
    /\ Goto(w, "q_log")
    /\ UNCHANGED <<trust, db, reclaimer, agent, hist, faults>>

(* log_activity raises AuditKeyUnavailable when there is no key: the caller *)
(* gets a 500, the row stays queued.                                        *)
QueueLog(w) ==
    /\ thread[w].pc = "q_log"
    /\ refused' = IF "log" \in thread[w].want /\ ~auditKey
                  THEN refused \cup thread[w].tasks ELSE refused
    /\ Finish(w)
    /\ UNCHANGED <<trust, db, ram, reclaimer, agent, ran, attached, effects,
                   faults>>

-----------------------------------------------------------------------------
(* poll_agent_tasks, and the agent's side of it.                            *)

StartPoll(h, w) ==
    /\ agent[h].mode = "idle"
    /\ thread[w].pc = "idle"
    /\ agent' = [agent EXCEPT ![h] = AgentIn("polling", {})]
    /\ Begin(w, "p_verify", h, {}, {}, TRUE)
    /\ UNCHANGED <<trust, db, ram, reclaimer, hist, faults>>

(* verify_agent: 404 for a deleted host, 403 for a revoked one.             *)
PollVerify(w) ==
    /\ thread[w].pc = "p_verify"
    /\ LET row == agentRow[thread[w].host] IN
       \/ /\ row = "active"
          /\ Goto(w, "p_quarantine")
          /\ UNCHANGED agent
       \/ /\ row # "active"
          /\ Finish(w)
          /\ Answer(w, IF row = "absent" THEN Exited ELSE AgentIn("idle", {}))
    /\ UNCHANGED <<trust, db, ram, reclaimer, hist, faults>>

PollQuarantine(w) ==
    /\ thread[w].pc = "p_quarantine"
    /\ \/ /\ thread[w].host \notin quarantined
          /\ Goto(w, "p_claim")
          /\ UNCHANGED agent
       \/ /\ thread[w].host \in quarantined
          /\ Finish(w)
          /\ Answer(w, AgentIn("idle", {}))
    /\ UNCHANGED <<trust, db, ram, reclaimer, hist, faults>>

(* Mutants: claim also what is already out; claim only what is fresh.       *)
MutClaimAgain(h) == {t \in TaskIds : /\ status[t] \in {"pending", "dispatched"}
                                     /\ owner[t] = h}
MutClaimFresh(h) == {t \in TaskIds : /\ status[t] = "pending" /\ owner[t] = h
                                     /\ createdAge[t] = 0}
(* fetch_pending_tasks: one UPDATE ... RETURNING claims and reads.          *)
Claimable(h) == {t \in TaskIds : status[t] = "pending" /\ owner[t] = h}

PollClaim(w) ==
    /\ thread[w].pc = "p_claim"
    /\ LET claimed == Claimable(thread[w].host) IN
       /\ status' = [t \in TaskIds |-> IF t \in claimed THEN "dispatched"
                                       ELSE status[t]]
       /\ dispatchAge' = [t \in TaskIds |-> IF t \in claimed THEN 0
                                            ELSE dispatchAge[t]]
       /\ GotoWith(w, "p_become", claimed)
    /\ UNCHANGED <<trust, owner, req, createdAge, results, ram, reclaimer,
                   agent, hist, faults>>

(* _take_become / _take_want_root: pop, whatever the age.                   *)
Take(w, item) ==
    /\ attached' = [t \in TaskIds |->
                      IF t \in thread[w].tasks /\ ram[item][t] # NotHeld
                      THEN attached[t] \cup {item} ELSE attached[t]]
    /\ ram' = [ram EXCEPT ![item] =
                 [t \in TaskIds |-> IF t \in thread[w].tasks THEN NotHeld
                                    ELSE ram[item][t]]]

PollTakeBecome(w) ==
    /\ thread[w].pc = "p_become"
    /\ Take(w, "password")
    /\ Goto(w, "p_root")
    /\ UNCHANGED <<trust, db, reclaimer, agent, ran, effects, refused,
                   faults>>

PollTakeRoot(w) ==
    /\ thread[w].pc = "p_root"
    /\ Take(w, "root")
    /\ Finish(w)
    /\ Answer(w, AgentIn(IF thread[w].tasks = {} THEN "idle" ELSE "ready",
                         thread[w].tasks))
    /\ UNCHANGED <<trust, db, reclaimer, ran, effects, refused, faults>>

-----------------------------------------------------------------------------
(* The agent's task loop: run the batch serially, report each result once.  *)

RunTask(h) ==
    /\ agent[h].mode = "ready"
    /\ ran' = [ran EXCEPT ![Current(h)] = @ + 1]
    /\ agent' = [agent EXCEPT ![h] = AgentIn("running", agent[h].batch)]
    /\ UNCHANGED <<trust, db, ram, thread, reclaimer, attached, effects,
                   refused, faults>>

(* The command ended, or was killed at _CMD_TIMEOUT: send_result() begins.  *)
CommandEnds(h) ==
    /\ agent[h].mode = "running"
    /\ agent' = [agent EXCEPT ![h] = AgentIn("sending", agent[h].batch)]
    /\ UNCHANGED <<trust, db, ram, thread, reclaimer, hist, faults>>

(* One POST of the result.  _request() turns to the next candidate address  *)
(* after a timeout, so an earlier attempt may still be running.             *)
PostResult(h, w) ==
    /\ agent[h].mode = "sending"
    /\ thread[w].pc = "idle"
    /\ thread' = [Abandon(h) EXCEPT ![w] =
                    [pc |-> "r_verify", host |-> h, tasks |-> {Current(h)},
                     want |-> {}, live |-> TRUE]]
    /\ UNCHANGED <<trust, db, ram, reclaimer, agent, hist, faults>>

(* Every candidate timed out: the poll yields no tasks, a result is dropped *)
(* ("could not send result") and the loop goes on.                          *)
GiveUp(h) ==
    /\ agent[h].mode \in {"polling", "sending"}
    /\ agent' = [agent EXCEPT ![h] =
                   IF @.mode = "polling" THEN AgentIn("idle", {})
                   ELSE Advanced(h)]
    /\ thread' = Abandon(h)
    /\ UNCHANGED <<trust, db, ram, reclaimer, hist, faults>>

-----------------------------------------------------------------------------
(* post_task_result.                                                        *)

ResultVerify(w) ==
    /\ thread[w].pc = "r_verify"
    /\ LET h == thread[w].host IN
       \/ /\ agentRow[h] = "active"
          /\ Goto(w, "r_owner")
          /\ UNCHANGED agent
       \/ /\ agentRow[h] # "active"
          /\ Finish(w)
          /\ Answer(w, IF agentRow[h] = "absent" THEN Exited ELSE Advanced(h))
    /\ UNCHANGED <<trust, db, ram, reclaimer, hist, faults>>

(* get_task_host: only the host the row was queued for may report on it.    *)
ResultOwner(w) ==
    /\ thread[w].pc = "r_owner"
    /\ \/ /\ \A t \in thread[w].tasks :
                /\ status[t] # "removed"
                /\ owner[t] = thread[w].host
          /\ Goto(w, "r_submit")
          /\ UNCHANGED agent
       \/ /\ \E t \in thread[w].tasks :
                \/ status[t] = "removed"
                \/ owner[t] # thread[w].host
          /\ Finish(w)
          /\ Answer(w, Advanced(thread[w].host))
    /\ UNCHANGED <<trust, db, ram, reclaimer, hist, faults>>

(* Mutant: a late result replaces a timeout.                                *)
MutAppliesLate(t) == status[t] \in {"dispatched", "timed_out"}
(* submit_task_result: done + one agent_results row, if still dispatched.   *)
Applies(t) == status[t] = "dispatched"

(* Mutant: whether the result was applied is not looked at.                 *)
MutResultSubmit(w) ==
    /\ thread[w].pc = "r_submit"
    /\ \E t \in thread[w].tasks :
          IF Applies(t)
          THEN /\ status' = [status EXCEPT ![t] = "done"]
               /\ results' = [results EXCEPT ![t] = Append(@, "real")]
          ELSE UNCHANGED <<status, results>>
    /\ Goto(w, "r_effect")
    /\ UNCHANGED <<trust, owner, req, createdAge, dispatchAge, ram, reclaimer,
                   agent, hist, faults>>
ResultSubmit(w) ==
    /\ thread[w].pc = "r_submit"
    /\ \E t \in thread[w].tasks :
       \/ /\ Applies(t)
          /\ status' = [status EXCEPT ![t] = "done"]
          /\ results' = [results EXCEPT ![t] = Append(@, "real")]
          /\ Goto(w, "r_effect")
          /\ UNCHANGED agent
       \/ /\ ~Applies(t)
          /\ Finish(w)
          /\ Answer(w, Advanced(thread[w].host))
          /\ UNCHANGED <<status, results>>
    /\ UNCHANGED <<trust, owner, req, createdAge, dispatchAge, ram, reclaimer,
                   hist, faults>>

(* An applied result: get_task_kind reads the row again, which may be gone. *)
ResultEffect(w) ==
    /\ thread[w].pc = "r_effect"
    /\ effects' = [t \in TaskIds |->
                     IF /\ t \in thread[w].tasks /\ "ssh" \in req[t]
                        /\ status[t] # "removed"
                     THEN effects[t] + 1 ELSE effects[t]]
    /\ Finish(w)
    /\ Answer(w, Advanced(thread[w].host))
    /\ UNCHANGED <<trust, db, ram, reclaimer, ran, attached, refused, faults>>

-----------------------------------------------------------------------------
(* reclaim_stale_tasks: the SELECT runs on its own; the guarded UPDATEs,    *)
(* the synthetic results and the pruning are one transaction.               *)

ReclaimSelect ==
    /\ reclaimer.pc = "sleep"
    /\ reclaimer' = [pc |-> "apply",
                     stale |-> {t \in TaskIds : /\ status[t] = "dispatched"
                                                /\ dispatchAge[t] > ReclaimAfter}]
    /\ UNCHANGED <<trust, db, ram, thread, agent, hist, faults>>

(* Mutants: the UPDATE is not guarded on status; it is guarded on the wrong  *)
(* one.                                                                     *)
MutReclaimUnguarded(t) == t \in reclaimer.stale
MutReclaimPending(t)   == t \in reclaimer.stale /\ status[t] = "pending"
Reclaimable(t) == t \in reclaimer.stale /\ status[t] = "dispatched"

(* _prune_terminal_tasks goes by the row's creation time.                   *)
Prunable(t, st) == st \in Terminal /\ createdAge[t] > Retention

ReclaimApply ==
    /\ reclaimer.pc = "apply"
    /\ LET now(t) == IF Reclaimable(t) THEN "timed_out" ELSE status[t] IN
       /\ status' = [t \in TaskIds |-> IF Prunable(t, now(t)) THEN "removed"
                                       ELSE now(t)]
       /\ results' = [t \in TaskIds |->
                        IF Prunable(t, now(t)) THEN <<>>
                        ELSE IF Reclaimable(t) THEN Append(results[t], "synthetic")
                        ELSE results[t]]
    /\ reclaimer' = [pc |-> "sleep", stale |-> {}]
    /\ UNCHANGED <<trust, owner, req, createdAge, dispatchAge, ram, thread,
                   agent, hist, faults>>

-----------------------------------------------------------------------------
(* The rest of the system, as far as the queue notices it.  Bound: there    *)
(* are at most MaxFaults disturbances; recovering from one is not counted.  *)
Fault == faults < MaxFaults /\ faults' = faults + 1

(* remove_agent, self_disenroll: delete_agent takes the row, its tasks and   *)
(* its results in one transaction; the integrity baseline is forgotten.      *)
DeleteAgent(h) ==
    /\ Fault
    /\ agentRow[h] # "absent"
    /\ agentRow' = [agentRow EXCEPT ![h] = "absent"]
    /\ status' = [t \in TaskIds |-> IF owner[t] = h /\ status[t] # "unused"
                                    THEN "removed" ELSE status[t]]
    /\ results' = [t \in TaskIds |-> IF owner[t] = h THEN <<>> ELSE results[t]]
    /\ quarantined' = quarantined \ {h}
    /\ UNCHANGED <<auditKey, owner, req, createdAge, dispatchAge, ram, thread,
                   reclaimer, agent, hist>>

(* An enrollment under the same host_id: a new row and a new agent process. *)
EnrollAgain(h) ==
    /\ agentRow[h] = "absent"
    /\ agent[h].mode = "down"
    /\ agentRow' = [agentRow EXCEPT ![h] = "active"]
    /\ quarantined' = quarantined \ {h}
    /\ agent' = [agent EXCEPT ![h] = AgentIn("idle", {})]
    /\ UNCHANGED <<auditKey, db, ram, thread, reclaimer, hist, faults>>

(* revoke_agent_route: every later request of the host's agent is answered  *)
(* 403, and its integrity baseline is dropped.                              *)
RevokeAgent(h) ==
    /\ Fault
    /\ agentRow[h] = "active"
    /\ agentRow' = [agentRow EXCEPT ![h] = "revoked"]
    /\ quarantined' = quarantined \ {h}
    /\ UNCHANGED <<auditKey, db, ram, thread, reclaimer, agent, hist>>

(* restore_agent_route: the same secret is good again.                      *)
RestoreAgent(h) ==
    /\ agentRow[h] = "revoked"
    /\ agentRow' = [agentRow EXCEPT ![h] = "active"]
    /\ UNCHANGED <<quarantined, auditKey, db, ram, thread, reclaimer, agent,
                   hist, faults>>

(* agent_integrity: a heartbeat whose measurement diverged quarantines.     *)
Quarantine(h) ==
    /\ Fault
    /\ h \notin quarantined
    /\ quarantined' = quarantined \cup {h}
    /\ UNCHANGED <<agentRow, auditKey, db, ram, thread, reclaimer, agent, hist>>

(* resume_agent_route: an administrator lifts the lockout.                   *)
Resume(h) ==
    /\ h \in quarantined
    /\ quarantined' = quarantined \ {h}
    /\ UNCHANGED <<agentRow, auditKey, db, ram, thread, reclaimer, agent, hist,
                   faults>>

(* The master key the audit HMAC key is derived from cannot be resolved.    *)
KeyOutage ==
    /\ Fault
    /\ auditKey' = FALSE
    /\ UNCHANGED <<agentRow, quarantined, db, ram, thread, reclaimer, agent, hist>>

KeyBack ==
    /\ ~auditKey
    /\ auditKey' = TRUE
    /\ UNCHANGED <<agentRow, quarantined, db, ram, thread, reclaimer, agent,
                   hist, faults>>

(* A restart of the backend loses the pool and the two RAM stores.          *)
BackendRestart ==
    /\ Fault
    /\ thread' = [w \in Workers |-> IdleHandler]
    /\ ram' = [i \in Items |-> [t \in TaskIds |-> NotHeld]]
    /\ reclaimer' = [pc |-> "sleep", stale |-> {}]
    /\ UNCHANGED <<trust, db, agent, hist>>

(* A restart of the agent keeps agent_state.json and loses the batch.       *)
AgentRestart(h) ==
    /\ Fault
    /\ agent[h].mode # "down"
    /\ agent' = [agent EXCEPT ![h] = AgentIn("idle", {})]
    /\ thread' = Abandon(h)
    /\ UNCHANGED <<trust, db, ram, reclaimer, hist>>

(* One unit of time.  No command outlives the agent's _CMD_TIMEOUT.         *)
Older(n, top) == IF n < top THEN n + 1 ELSE n
Tick ==
    /\ \A h \in Hosts : agent[h].mode = "running" => agent[h].age < CmdTimeout
    /\ createdAge' = [t \in TaskIds |->
                        IF status[t] \in {"unused", "removed"} THEN 0
                        ELSE Older(createdAge[t], Retention + 1)]
    /\ dispatchAge' = [t \in TaskIds |->
                         IF status[t] = "dispatched"
                         THEN Older(dispatchAge[t], ReclaimAfter + 1) ELSE 0]
    /\ ram' = [i \in Items |-> [t \in TaskIds |->
                 IF ram[i][t] = NotHeld THEN NotHeld
                 ELSE Older(ram[i][t], BecomeTTL + 1)]]
    /\ agent' = [h \in Hosts |->
                   IF agent[h].mode = "running"
                   THEN [agent[h] EXCEPT !.age = @ + 1] ELSE agent[h]]
    /\ UNCHANGED <<trust, status, owner, req, results, thread, reclaimer, hist,
                   faults>>

-----------------------------------------------------------------------------
QueueStep(w) == \/ QueueExists(w) \/ QueueInsert(w) \/ QueueStoreBecome(w)
                \/ QueueStoreRoot(w) \/ QueueLog(w)
PollStep(w) == \/ PollVerify(w) \/ PollQuarantine(w) \/ PollClaim(w)
               \/ PollTakeBecome(w) \/ PollTakeRoot(w)
ResultStep(w) == \/ ResultVerify(w) \/ ResultOwner(w) \/ ResultSubmit(w)
                 \/ ResultEffect(w)
AgentStep(h) == RunTask(h) \/ CommandEnds(h) \/ GiveUp(h)
Reclaim == ReclaimSelect \/ ReclaimApply

Next ==
    \/ \E w \in Workers :
          \/ \E h \in Hosts, r \in Requests : QueueRequest(w, h, r)
          \/ QueueStep(w) \/ PollStep(w) \/ ResultStep(w)
    \/ \E h \in Hosts :
          \/ AgentStep(h)
          \/ \E w \in Workers : StartPoll(h, w) \/ PostResult(h, w)
          \/ DeleteAgent(h) \/ EnrollAgain(h) \/ RevokeAgent(h) \/ RestoreAgent(h)
          \/ Quarantine(h) \/ Resume(h) \/ AgentRestart(h)
    \/ Reclaim \/ KeyOutage \/ KeyBack \/ BackendRestart \/ Tick

Spec == Init /\ [][Next]_vars

(* A pool thread that has started a handler goes on with it, the reclaim    *)
(* loop wakes every 60 s, an agent that is up keeps working and polling,    *)
(* and time passes.  Nothing is assumed of operators, networks or faults. *)
Fairness ==
    /\ \A w \in Workers :
          WF_vars(QueueStep(w)) /\ WF_vars(PollStep(w)) /\ WF_vars(ResultStep(w))
    /\ \A h \in Hosts :
          /\ WF_vars(AgentStep(h))
          /\ WF_vars(\E w \in Workers : StartPoll(h, w))
    /\ WF_vars(Reclaim)
    /\ WF_vars(Tick)

FairSpec == Spec /\ Fairness

-----------------------------------------------------------------------------
(* Where the right to run a claimed command is.  A poll handler that has    *)
(* claimed it, or the batch of the agent it was queued for, holds it, never *)
(* two of them at once, and it is spent when the command is started.        *)
Claimed(t)  == status[t] \notin {"unused", "pending"}
Holds(w, t) == thread[w].pc \in {"p_become", "p_root"} /\ t \in thread[w].tasks
Started(h)  == IF agent[h].mode \in {"running", "sending"} THEN {Current(h)} ELSE {}

SingleHolder ==
    /\ \A w \in Workers, t \in TaskIds : Holds(w, t) =>
          /\ Claimed(t) /\ owner[t] = thread[w].host /\ ran[t] = 0
          /\ \A v \in Workers : Holds(v, t) => v = w
          /\ \A h \in Hosts : t \notin agent[h].batch
    /\ \A h \in Hosts :
          /\ agent[h].batch = {} <=> agent[h].mode \in {"down", "idle", "polling"}
          /\ \A t \in agent[h].batch :
                /\ Claimed(t) /\ owner[t] = h
                /\ ran[t] = IF t \in Started(h) THEN 1 ELSE 0

(* Who is still being waited for: an agent waits for one handler at most,   *)
(* the one its loop is blocked on, and a result is only reported for a      *)
(* command that was started.                                                *)
OneWait ==
    /\ \A w \in Workers : thread[w].live =>
          /\ \/ thread[w].pc \in PollPCs /\ agent[thread[w].host].mode = "polling"
             \/ /\ thread[w].pc \in ResultPCs
                /\ agent[thread[w].host].mode = "sending"
          /\ \A v \in Workers : thread[v].live /\ thread[v].host = thread[w].host => v = w
    /\ \A w \in Workers : thread[w].pc \in ResultPCs =>
          \E t \in TaskIds : thread[w].tasks = {t} /\ ran[t] = 1

(* At most once, by design (reclaim_stale_tasks' docstring): whatever polls *)
(* overlap, answers get lost and processes restart, no command is started   *)
(* twice on its host, and only a claimed one is started at all.             *)
AtMostOnce ==
    \A t \in TaskIds : ran[t] <= 1 /\ (ran[t] = 1 => status[t] \notin {"unused", "pending"})

(* submit_task_result and reclaim_stale_tasks race for a dispatched task:   *)
(* exactly one of them closes it, with exactly one agent_results row, which *)
(* is the host's own for a done task and the synthetic one for a timed-out  *)
(* task; a done task really was started.                                    *)
OneOutcome ==
    \A t \in TaskIds :
       /\ status[t] = "done" => results[t] = <<"real">> /\ ran[t] = 1
       /\ status[t] = "timed_out" => results[t] = <<"synthetic">>
       /\ status[t] \notin Terminal => results[t] = <<>>

(* A duplicate or late result is ignored, so that registering the host's    *)
(* SSH connection happens at most once per task, and only for a task of     *)
(* that kind that its host ran.                                             *)
EffectOnce ==
    \A t \in TaskIds : /\ effects[t] <= 1
                       /\ effects[t] = 1 => "ssh" \in req[t] /\ ran[t] = 1

(* A RAM-held item is handed out at most once and only if it was asked for: *)
(* once it has gone out with its task no copy is left in the store.         *)
HandedOutOnce ==
    \A t \in TaskIds, i \in Items :
       /\ i \in attached[t] => i \in req[t] /\ ram[i][t] = NotHeld
       /\ ram[i][t] # NotHeld => i \in req[t] /\ status[t] # "unused"

(* The command is queued before it is audited: a caller who is refused for   *)
(* want of the audit key has left its command in the queue.                 *)
RefusedIsQueued == \A t \in refused : status[t] # "unused" /\ "log" \in req[t]

(* What a request asked for happens once and to its task alone, and a task  *)
(* has one holder and one wait at a time, whatever is lost or restarted.    *)
AskedIsDoneOnce ==
    EffectOnce /\ HandedOutOnce /\ SingleHolder /\ OneWait /\ RefusedIsQueued

(* A closed task stays closed with the outcome it has: its row may only be  *)
(* deleted.  In particular a late result never replaces a timeout.          *)
OutcomeIsFinal ==
    [][\A t \in TaskIds : status[t] \in Terminal =>
          \/ status'[t] = status[t] /\ results'[t] = results[t]
          \/ status'[t] = "removed"]_vars

(* Lost polls, lost results, crashed agents and backends: a dispatched task *)
(* never stays dispatched ("instead of living forever").                    *)
DispatchedIsClosed ==
    \A t \in TaskIds : status[t] = "dispatched" ~> status[t] # "dispatched"

(* A queued task of a host that from some time on stays enrolled, trusted   *)
(* and up is claimed.                                                       *)
PendingIsClaimed ==
    \A t \in TaskIds :
       (<>[](/\ agentRow[owner[t]] = "active" /\ owner[t] \notin quarantined
             /\ agent[owner[t]].mode # "down"))
       => (status[t] = "pending" ~> status[t] # "pending")

(* The queue implements the life of a task it promises.                     *)
Life == INSTANCE TaskLifecycle
            WITH Tasks <- TaskIds, phase <- status, runs <- ran, report <- results

(* Every step of the threads, the agents, the reclaim loop and the faults   *)
(* is one step of the tasks' life (TaskLifecycle) or none: handed out once, *)
(* started once and only when handed out, closed once and truthfully.       *)
KeepsLifecycle == Life!LifeSpec

-----------------------------------------------------------------------------
(* What the code's comments say of it, and the code does not do.            *)

(* "handed to the host's authenticated agent exactly once when it polls for *)
(* the task": what a task was queued with goes out with it.  (The row is    *)
(* committed before the password is stored.)                                *)
RunsWithItsItems == \A t \in TaskIds : ran[t] = 1 => req[t] \cap Items \subseteq attached[t]

=============================================================================
