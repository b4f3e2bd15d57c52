------------------------------ MODULE Dispatch ------------------------------
(***************************************************************************)
(* How a row the operator picked in the web console becomes a command on   *)
(* a machine: the merged host list (client/_api_dispatch.py), the lookup   *)
(* of the picked id in a list read AGAIN when the request arrives, the     *)
(* choice of the connection, and the task that is queued and polled        *)
(* (webgui/server.py: run_tool, fleet, files_upload, fleet_updates_install *)
(* and _dispatch_one).                                                     *)
(*                                                                         *)
(* Two lists are read, one after the other: the agents from the database   *)
(* and the SSH hosts from hosts.json.  Either read may fail, and a failed  *)
(* read is an empty list.  Host ids are UUIDs and record names are host    *)
(* names, so ids are tagged.                                               *)
(***************************************************************************)
EXTENDS Integers, Sequences, FiniteSets

CONSTANTS HostCount,     \* agents are 1..HostCount, in the order of GET /agents
          RowNames,      \* host names, which are also the names of SSH records
          RowIps,        \* addresses
          Orders,        \* requests
          MaxChanges,    \* changes of the fleet
          MaxFailedReads \* list reads, queue answers and polls that fail

ASSUME DispatchBounds == /\ {HostCount, MaxChanges, MaxFailedReads} \subseteq Nat
                         /\ 0 \notin RowNames

VARIABLES agents,   \* agents enrolled and not revoked
          sshNames, \* SSH records: name -> address, 0 when there is none
          order,    \* the requests
          tasks,    \* what reached a host: one entry per request
          budget    \* changes and failures left

dispVars == <<agents, sshNames, order, tasks, budget>>

AgentIds == 1..HostCount
ControllerHost == 1      \* the controller's own, self-enrolled agent
Ssh(names) == {n \in RowNames : names[n] # 0}

(* One row of the list: the agent and the SSH record it stands for. *)
AgentRow(a) == [id |-> <<"host", a>>, agent |-> a, ssh |-> 0]
SshRow(n) == [id |-> <<"name", n>>, agent |-> 0, ssh |-> n]
MergedRow(a, n) == [id |-> <<"name", n>>, agent |-> a, ssh |-> n]
Least(S) == CHOOSE x \in S : \A y \in S : x <= y

(* The first agent that bears a name joins the SSH record of that name. *)
Merged(ags, names) ==
  LET named(n) == {a \in DOMAIN ags : ags[a].label = n}
      joined == {n \in Ssh(names) : named(n) # {}}
  IN  {MergedRow(Least(named(n)), n) : n \in joined}
      \cup {AgentRow(a) : a \in {b \in DOMAIN ags :
               \A n \in joined : b # Least(named(n))}}
      \cup {SshRow(n) : n \in Ssh(names) \ joined}

RowIp(row, ags, names) == IF row.agent # 0 THEN ags[row.agent].ip ELSE names[row.ssh]

(* An SSH row at the address of an agent row is folded into it; of the SSH
   rows at one address the first stays. *)
Folded(row, rows, ags, names) ==
  /\ row.agent = 0
  /\ \E other \in rows : /\ other.agent # 0
                         /\ RowIp(other, ags, names) = RowIp(row, ags, names)
Twin(row, rows, ags, names) ==
  /\ row.agent = 0
  /\ \E other \in rows : /\ other.agent = 0 /\ other # row
                         /\ RowIp(other, ags, names) = RowIp(row, ags, names)
                         /\ row # (CHOOSE x \in rows :
                                     /\ x.agent = 0
                                     /\ RowIp(x, ags, names) = RowIp(row, ags, names))

MutHostList(ags, names) ==
  LET rows == Merged(ags, names)
  IN  {r \in rows : /\ ~Folded(r, rows, ags, names) /\ ~Twin(r, rows, ags, names)
                    /\ ~\E s \in rows : /\ r.agent # 0 /\ s.agent # 0 /\ s.agent < r.agent
                                        /\ ags[s.agent].ip = ags[r.agent].ip}
HostList(ags, names) ==
  LET rows == Merged(ags, names)
  IN  {r \in rows : ~Folded(r, rows, ags, names) /\ ~Twin(r, rows, ags, names)}
NoAgents == [a \in {} |-> 0]
NoNames == [n \in RowNames |-> 0]
NoOrder == [phase |-> "none"]
NoTask == [at |-> <<"none">>, state |-> "none"]

DispatchInit == /\ agents = NoAgents
                /\ sshNames = NoNames
                /\ order = [r \in Orders |-> NoOrder]
                /\ tasks = [r \in Orders |-> NoTask]
                /\ budget = [changes |-> MaxChanges, failures |-> MaxFailedReads]

Spend(what) == /\ budget[what] > 0
               /\ budget' = [budget EXCEPT ![what] = @ - 1]

----------------------------------------------------------------------------
(* The fleet changes under the requests. *)

Enrolled(a, n, i) == /\ a \notin DOMAIN agents
                     /\ agents' = [b \in DOMAIN agents \cup {a} |->
                          IF b = a THEN [label |-> n, ip |-> i, quarantined |-> FALSE]
                          ELSE agents[b]]
                     /\ UNCHANGED sshNames
Removed(a) == /\ agents' = [b \in DOMAIN agents \ {a} |-> agents[b]]
              /\ UNCHANGED sshNames
QuarantineFlips(a) == /\ agents' = [agents EXCEPT ![a].quarantined = ~@]
                      /\ UNCHANGED sshNames
SshRecorded(n, i) == /\ sshNames[n] # i
                     /\ sshNames' = [sshNames EXCEPT ![n] = i]
                     /\ UNCHANGED agents

FleetChanges ==
  /\ Spend("changes")
  /\ \/ \E a \in AgentIds, n \in RowNames, i \in RowIps : Enrolled(a, n, i)
     \/ \E a \in DOMAIN agents : Removed(a) \/ QuarantineFlips(a)
     \/ \E n \in RowNames, i \in RowIps \cup {0} : SshRecorded(n, i)
  /\ UNCHANGED <<order, tasks>>

----------------------------------------------------------------------------
(* A request.  "tool" stands for every synchronous run on picked rows,     *)
(* "all" for the power-off of all hosts, "upload" for a file transfer by a *)
(* superuser, "install" for a host of a background install job.            *)

(* The page shows the list and the operator picks a row of it. *)
PickRow(r, kind, row) ==
  /\ order[r].phase = "none"
  /\ row \in HostList(agents, sshNames)
  /\ order' = [order EXCEPT ![r] =
       [phase |-> "asked", kind |-> kind, shown |-> row, ags |-> NoAgents,
        row |-> row, outcome |-> "none", status |-> "queued"]]
  /\ UNCHANGED <<agents, sshNames, tasks, budget>>

(* list_merged_hosts: a failed read leaves an empty list. *)
ReadAgents(r) ==
  /\ order[r].phase = "asked"
  /\ \/ /\ order' = [order EXCEPT ![r].phase = "agents read", ![r].ags = agents]
        /\ UNCHANGED budget
     \/ /\ order' = [order EXCEPT ![r].phase = "agents read"]
        /\ Spend("failures")
  /\ UNCHANGED <<agents, sshNames, tasks>>

MutLooked(r, rows) == {row \in rows : \/ order[r].kind = "all"
                                      \/ row.id = order[r].shown.id
                                      \/ /\ row.agent # 0
                                         /\ order[r].shown.agent \in DOMAIN agents
                                         /\ order[r].ags[row.agent].label
                                              = agents[order[r].shown.agent].label}
(* The row a request acts on: the picked id looked up in the new list, or any
   row of it for "all". *)
Looked(r, rows) == {row \in rows : order[r].kind = "all" \/ row.id = order[r].shown.id}
FinishOrder(r, outcome, status) ==
  order' = [order EXCEPT ![r].phase = "over", ![r].outcome = outcome,
                         ![r].status = status, ![r].ags = NoAgents]
Start(r, row) == order' = [order EXCEPT ![r].phase = "chosen", ![r].row = row,
                                        ![r].status = "running"]

(* The control node is spared when the list is taken as a whole, by the flag
   the agent record of it carries. *)
Spared(r, row) == order[r].kind = "all" /\ row.agent = ControllerHost

(* _transfer_entry: an id that is not in the list is taken for a pure SSH host. *)
Resolve(r) ==
  /\ order[r].phase = "agents read"
  /\ \E names \in {sshNames, NoNames} :
       LET rows == Looked(r, HostList(order[r].ags, names))
           id == order[r].shown.id
       IN  /\ IF names = sshNames THEN UNCHANGED budget ELSE Spend("failures")
           /\ \/ \E row \in rows :
                   IF Spared(r, row) THEN FinishOrder(r, "refused", "failed")
                   ELSE Start(r, row)
              \/ /\ rows = {} /\ order[r].kind = "upload" /\ id[1] = "name"
                 /\ Start(r, SshRow(id[2]))
              \/ /\ rows = {} /\ ~(order[r].kind = "upload" /\ id[1] = "name")
                 /\ FinishOrder(r, "not found", "failed")
  /\ UNCHANGED <<agents, sshNames, tasks>>

(* run_on_entry over SSH: the record is read again by the controller, and the
   command has run when the call returns - or the call fails, perhaps later. *)
RunOverSsh(r) ==
  /\ order[r].phase = "chosen" /\ order[r].row.agent = 0
  /\ LET n == order[r].row.ssh
     IN  \/ /\ sshNames[n] # 0
            /\ \E code \in {"zero", "other"} :
                 /\ tasks' = [tasks EXCEPT ![r] = [at |-> <<"ssh", n>>, state |-> code]]
                 /\ \/ /\ FinishOrder(r, IF code = "zero" THEN "ok" ELSE "failed",
                                 IF code = "zero" THEN "done" ELSE "failed")
                       /\ UNCHANGED budget
                    \/ FinishOrder(r, "error", "failed") /\ Spend("failures")
         \/ /\ sshNames[n] = 0
            /\ FinishOrder(r, "error", "failed")
            /\ UNCHANGED <<tasks, budget>>
  /\ UNCHANGED <<agents, sshNames>>

(* _install_one asks the row, and a merged row does not carry the flag. *)
Quarantined(r) ==
  LET row == order[r].row
  IN  /\ order[r].kind = "install" /\ row.ssh = 0
      /\ order[r].ags[row.agent].quarantined

RefuseInstall(r) ==
  /\ order[r].phase = "chosen" /\ order[r].row.agent # 0
  /\ Quarantined(r)
  /\ FinishOrder(r, "refused", "failed")
  /\ UNCHANGED <<agents, sshNames, tasks, budget>>

(* queue_command_on_hosts: any failure, a lost answer included, is "failed to
   queue task". *)
Queued(a) == [at |-> <<"agent", a>>, state |-> "pending"]
QueueTask(r) ==
  /\ order[r].phase = "chosen" /\ order[r].row.agent # 0
  /\ ~Quarantined(r)
  /\ LET a == order[r].row.agent
     IN  \/ /\ a \in DOMAIN agents
            /\ tasks' = [tasks EXCEPT ![r] = Queued(a)]
            /\ \/ /\ order' = [order EXCEPT ![r].phase = "polling", ![r].ags = NoAgents]
                  /\ UNCHANGED budget
               \/ FinishOrder(r, "error", "failed") /\ Spend("failures")
         \/ /\ a \notin DOMAIN agents
            /\ FinishOrder(r, "error", "failed")
            /\ UNCHANGED <<tasks, budget>>
  /\ UNCHANGED <<agents, sshNames>>

(* The agent takes a task when it is neither quarantined nor gone. *)
AgentRuns(r) ==
  /\ tasks[r].state = "pending"
  /\ tasks[r].at[2] \in DOMAIN agents
  /\ ~agents[tasks[r].at[2]].quarantined
  /\ \E code \in {"zero", "other"} : tasks' = [tasks EXCEPT ![r].state = code]
  /\ UNCHANGED <<agents, sshNames, order, budget>>

MutReported(r) == tasks[r].state \in {"zero", "other", "pending"}
(* poll_entry_result finds the report ... *)
Reported(r) == tasks[r].state \in {"zero", "other"}
PollSees(r) ==
  /\ order[r].phase = "polling" /\ Reported(r)
  /\ IF tasks[r].state = "other" THEN FinishOrder(r, "failed", "failed") ELSE FinishOrder(r, "ok", "done")
  /\ UNCHANGED <<agents, sshNames, tasks, budget>>
(* ... raises, which nothing on the way catches: the install job's host keeps
   the status "running" while the job is marked done ... *)
PollRaises(r) ==
  /\ order[r].phase = "polling"
  /\ FinishOrder(r, "error", order[r].status)
  /\ Spend("failures")
  /\ UNCHANGED <<agents, sshNames, tasks>>
(* ... or the deadline passes first. *)
DeadlinePassed(r) == ~Reported(r)
GiveUp(r) ==
  /\ order[r].phase = "polling" /\ DeadlinePassed(r)
  /\ FinishOrder(r, "timeout", "failed")
  /\ UNCHANGED <<agents, sshNames, tasks, budget>>

OrderStep(r) == \/ ReadAgents(r) \/ Resolve(r) \/ RunOverSsh(r) \/ RefuseInstall(r)
                \/ QueueTask(r) \/ PollSees(r) \/ PollRaises(r) \/ GiveUp(r)

DispatchNext ==
  \/ FleetChanges
  \/ \E r \in Orders :
       \/ \E kind \in {"tool", "all", "upload", "install"},
             row \in HostList(agents, sshNames) : PickRow(r, kind, row)
       \/ ReadAgents(r) \/ Resolve(r) \/ RunOverSsh(r) \/ RefuseInstall(r)
       \/ QueueTask(r) \/ PollSees(r) \/ PollRaises(r) \/ GiveUp(r) \/ AgentRuns(r)

(* Request threads and the job's worker threads run; their loops have
   deadlines. *)
DispatchSpec == /\ DispatchInit /\ [][DispatchNext]_dispVars
                /\ \A r \in Orders : WF_dispVars(OrderStep(r))

----------------------------------------------------------------------------
(* The fleet, the requests and the tasks keep their types, and a task is at
   the connection the request chose. *)
Rows == {AgentRow(a) : a \in AgentIds} \cup {SshRow(n) : n \in RowNames}
        \cup {MergedRow(a, n) : a \in AgentIds, n \in RowNames}
DispatchTypeOK ==
  /\ DOMAIN agents \subseteq AgentIds
  /\ \A a \in DOMAIN agents : agents[a] \in [label : RowNames, ip : RowIps, quarantined : BOOLEAN]
  /\ sshNames \in [RowNames -> RowIps \cup {0}]
  /\ \A r \in Orders :
       /\ order[r] # NoOrder =>
            /\ order[r].phase \in {"asked", "agents read", "chosen", "polling", "over"}
            /\ order[r].row \in Rows /\ order[r].shown \in Rows
            /\ order[r].status \in {"queued", "running", "done", "failed"}
            /\ order[r].outcome \in {"none", "ok", "failed", "error", "timeout",
                                     "refused", "not found"}
       /\ tasks[r].state \in {"none", "pending", "zero", "other"}
       /\ tasks[r] # NoTask =>
            tasks[r].at = (IF order[r].row.agent # 0 THEN <<"agent", order[r].row.agent>>
                           ELSE <<"ssh", order[r].row.ssh>>)

(* Every enrolled agent is in exactly one row of the list whatever addresses
   and names are shared (_dedupe_same_ip: merging agents "hid a
   genuinely-enrolled host"), ids are unique, and an SSH record that is in no
   row is at the address of a row that is. *)
EveryHostIsListed ==
  LET rows == HostList(agents, sshNames)
  IN  /\ \A a \in DOMAIN agents : Cardinality({r \in rows : r.agent = a}) = 1
      /\ \A r, s \in rows : r.id = s.id => r = s
      /\ \A n \in Ssh(sshNames) :
           \/ \E r \in rows : r.ssh = n
           \/ \E r \in rows : RowIp(r, agents, sshNames) = sshNames[n]

(* A command for a picked agent row runs on that agent or nowhere, and one for
   a picked name only on a connection of that name - however the fleet changed
   between the page and the request. *)
RunsWhereAsked ==
  \A r \in Orders :
    (tasks[r] # NoTask /\ order[r].kind # "all") =>
       LET id == order[r].shown.id
       IN  IF id[1] = "host" THEN tasks[r].at = <<"agent", id[2]>>
           ELSE order[r].row.ssh = id[2]

(* What the request reports is what happened: ok and failed are the exit of a
   command that ran, refused and not found mean that nothing was or will be
   run, and a host of a finished install job is left "running" only when its
   poll raised. *)
ReportedIsTrue ==
  \A r \in Orders : order[r].phase = "over" =>
     /\ order[r].outcome = "ok" => tasks[r].state = "zero"
     /\ order[r].outcome = "failed" => tasks[r].state = "other"
     /\ order[r].outcome \in {"refused", "not found"} => tasks[r] = NoTask
     /\ order[r].status = "done" <=> order[r].outcome = "ok"
     /\ order[r].status = "running" => order[r].outcome = "error"

(* From the page to the report: every host is offered, what is picked is what
   runs, and what is reported is what happened. *)
DispatchIsTrue == DispatchTypeOK /\ EveryHostIsListed /\ RunsWhereAsked /\ ReportedIsTrue
=============================================================================
