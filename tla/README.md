# Sysible Controller: verification project

TLA+ models of the parts of Sysible Controller whose correctness depends on
interleavings, lost messages, restarts, clocks and half-finished work, the TLC
configurations that check small instances of them, and TLAPS proofs for every
instance. File and line references are to the repository this directory sits
in.

## 1. The system

The controller is one Python process (FastAPI, `src/backend/app.py`) over one
SQLite file (`src/backend/db.py`, WAL, a new connection per call, default
isolation: one transaction from the first write to `commit()`). Plain `def`
handlers run on a thread pool, so any two requests interleave between database
calls; `threading.Lock`s protect a few sections; some state is only in memory.
Each managed host runs an agent (`src/host_agent/agent.py`) that enrolls once,
then heartbeats and polls for commands over HTTPS. The web console is a second
process (`src/webgui/`) in front of the backend, with JSON stores, caches and
background loops of its own; most of `src/client/` builds the shell scripts it
sends to hosts. Around them are the download portal, the relay, the TLS files,
the master key, and the backup tools.

| component | state | operations | hard behaviour | what makes it correct | module |
|---|---|---|---|---|---|
| **command queue** (db.py, app.py, agent.py) | `agent_tasks`, `agent_results`; `_PENDING_BECOME`, `_PENDING_WANT_ROOT` in memory; the agent's batch | queue, poll, run, report, reclaim, prune | lost polls and reports, a POST repeated at another address, restarts | a command starts at most once, one final outcome, a password goes out with its task only, nothing stays dispatched | `TaskQueue`, `TaskLifecycle` |
| **host enrollment** (db.py, app.py, edition.py, agent.py) | `agents`, `enroll_tokens`, `_ENROLL_LOCK`; `agent_state.json` | mint, reissue, enroll, revoke, restore, delete, Force Delete, disenroll, pause | handlers outside the lock, lost answers | one host_id per token, no takeover without proof, the cap, deleted stays gone | `Enrollment` |
| **audit chains** (db.py) | `activity_log`, `admin_audit_log`, `audit_chain_head`, the HMAC key | append, trim, move the mark, verify | concurrent appends, key outage | what is written verifies, damage is reported | `AuditChain` |
| **agent integrity, updates** (agent_integrity.py, app.py, agent.py) | sealed measurements and timers in a JSON file; `_auto_update_sent` | heartbeat, seal, quarantine, update, rebaseline | an update changes what is sealed | no lockout without a cause, no seal without a grant, builds converge | `Integrity` |
| **administrator accounts** (db.py, app.py, auth.py) | `administrators`, `admin_tokens` | setup, login, add, remove, roles, passwords, SSO | check and write in two transactions | a superuser remains, sessions end with their password | `AdminAccounts` |
| **login throttles** (db.py, app.py, webgui/server.py) | `login_throttle`; counts in the console's memory | check, verify, count, clear | two counts, neither atomic | guesses are bounded | `LoginThrottle` |
| **console sessions, SSO** (webgui/server.py) | a signed cookie that every answer writes back | login, revalidate, gates, provision | stale answers undo newer cookies | revoked within the TTL, temporary passwords gated | `ConsoleSession` |
| **agent-hosted terminal** (remote_routes.py, app.py, agent.py) | PTY sessions and buffers in memory; the shell | open, type, read, close, reap | drained answers lost, a viewer that dies | bytes in order, the shell ends with its session | `Terminal` |
| **SSH hosts, host keys** (remote_routes.py, app.py) | `hosts.json`, `known_hosts`, agents' SSH state | enroll, delete, agent registration | unlocked look-ups, two writers of one file | a machine once, a changed key refused, the operator's record stands | `SshHosts` |
| **restore points** (flashback_restore.py, agent.py, app.py) | staging tree, READY, unit, symlink on the host | capture, seal, stage, arm, apply offline, report | power loss at every step | only what is whole is applied, no boot loop, ok means restored | `RestorePoint` |
| **configuration backup** (app.py, agent.py, flashback.py) | the file, its copies, queued restores | capture, request, restore, acknowledge | lost acknowledgement, a crash while writing | never half a file, a way back, written once | `ConfigBackup` |
| **rolling operations** (webgui/rolling.py, pools.py) | the run's book of members | drain, act, settle, health, undrain, cancel | errors that took effect, members that fail | the floor, one batch hurt, the report is true | `Rolling` |
| **schedules** (webgui/schedules.py, server.py) | one JSON store, one thread | claim, run, record, edit, run now | stale lists, failed saves, clock changes | once per occurrence, edits survive | `Schedules` |
| **dispatch** (client/_api_dispatch.py, webgui/server.py) | none of its own; two lists | list, pick, choose connection, queue, poll | the list is read again, one source failing | what was picked is what runs | `Dispatch` |
| **alerts** (webgui/alerts.py, server.py) | configuration and firing state in one file | cycle, save form | minutes between load and save | told what fires, edits survive | `Alerts` |
| **fleet caches** (webgui/server.py) | health, posture, updates caches, membership memo | sweep, serve, merge a scan | unlocked merges, moving fleet | as fresh and as complete as said | `FleetCache` |
| **desired state** (backend/baseline.py, webgui/server.py) | a cycle's counts | ask, run, report, act | actions that fire actions | bounded reapplication, honest counts | `Baseline` |
| **privilege of a command** (agent.py, remote_routes.py) | one run, perhaps two | run as operator, run again under sudo | output mistaken for a refusal | no silent loss of root, no needless repeat | `Elevation` |
| **host firewalls** (client/_api_firewall.py) | firewalld, ufw, raw rules of a host | enable, disable, open, close, save, install | a step of a script fails, a reboot | one front end, access kept, success is real | `HostFirewall` |
| **configuration edits** (client/_api_security.py and others) | a file, its backups, its service | back up, edit, test, reload or put back | `;` chains, a step that fails | a refused file is put back | `HostConfig` |
| **master key, sudo passwords** (secret_vault.py, sudo_store.py) | key files of two processes, sealed passwords | resolve, create, seal, read | two processes create one file | one key, stored means readable | `KeyCustody` |
| **TLS, addresses** (tls_manager.py, self_address.py) | server.key, server.crt, trust.crt | import, regenerate, heal, restart | three files, two writers, a crash between | the files belong together | `ControllerTls` |
| **download portal** (portal_*.py) | a process, its pid file, its sessions | start, stop, log in, set credentials | calls overlap around the pid file | current sessions only, what serves is tracked | `Portal` |
| **relay** (relay.py, relay_keys.py) | a row over the environment, a key pair | save, show, mint, dial | two saves and two mints | never quietly around it | `RelayConfig` |
| **backup tools** (tools/backup_lib.py) | an archive | back up, verify, restore | copied piece by piece under a live system | a restored box runs | `Snapshot` |
| **SSH terminals, ephemeral grants**; **console stores, formatting**; **supervision, policy, front end** | | | | | not modelled, section 6 |

The components meet in few places. The terminal, updates and dispatched
commands travel as tasks of the command queue; enrollment decides who may poll,
integrity who is given work; every handler that logs appends to the audit
chain. Each model takes from its neighbours what it can observe of them: a
task that is queued, claimed after a while or lost; a host that is revoked at
any moment; a list that may fail to be read.

## 2. The modules

Twenty-five modules model the code; `TaskLifecycle` is an abstract
specification; nine `MC` modules hold the instances, and eight modules the
proofs.

All models follow one scheme. A request, loop or script that is under way is a
record with a program counter; an action is one committed transaction, one
access to a lock or to memory under a lock, one file replaced, one call whose
loss matters, or one read on which the code branches. Two consecutive reads
are one action where nothing between them can matter to what is checked. What
a caller sees is part of the last action of its handler. History variables
(named as such) record what has happened outside the program's state: commands
started, guesses made, bytes read. Disturbances, operators' requests and time
are bounded by named constants.

### Composition

`MCControllerState`, `MCHostAccess`, `MCHostChannels`, `MCFleetWork` and
`MCServiceLoops` each put several components under one specification. These
components share no variable, so interleaving them would only multiply states:
a variable `focus`, chosen at the start, says which of them the behaviour
follows, and the others stay where they began. Where a component that is not
followed has several initial states, one is taken; the component in focus keeps
all of its own, with the one exception that the caches begin with one enrolled
host. What one such run checks is what a run per component would.
Components that do interact are composed inside one module: the queue with its
agents, enrollment with the machines, a restore point with the machine, the
agent and the offline applier, the terminal with both its ends.

### TaskQueue

| model | code |
|---|---|
| `status`, `owner`, `req`, `createdAge`, `dispatchAge` | columns of `agent_tasks`; `req` is what `queue_agent_task` was asked for |
| `results` | the task's `agent_results` rows: the host's own (`real`) or the reclaim loop's (`synthetic`) |
| `ram["password"]`, `ram["root"]` | `_PENDING_BECOME`, `_PENDING_WANT_ROOT` with the age of each entry |
| `QueueRequest .. QueueLog` | `queue_agent_task`: exists, `queue_task`, `_store_become`, `_store_want_root`, `log_activity` |
| `PollVerify .. PollTakeRoot` | `poll_agent_tasks`: `verify_agent`, `is_quarantined`, `fetch_pending_tasks` (one `UPDATE ... RETURNING`), and the two pops |
| `ResultVerify .. ResultEffect` | `post_task_result`: `verify_agent`, `get_task_host`, `submit_task_result`, `_consume_ssh_enable_result` |
| `ReclaimSelect`, `ReclaimApply` | `reclaim_stale_tasks`: a SELECT, then one transaction of guarded UPDATEs, synthetic results and pruning |
| `agent`, `StartPoll`, `RunTask`, `CommandEnds`, `PostResult`, `GiveUp` | the agent's loop: a batch run one by one, a result sent and, if lost, not sent again; a POST may be repeated at another controller address while the first is still being handled |
| `DeleteAgent .. AgentRestart` | everything the rest of the system does to the queue |
| `Tick` | time, as ages cut off just above the one threshold each is compared with |

Agents lose polls, answers and results (`live` says whether the caller still
waits), the agent and the backend restart at any moment, hosts are deleted,
revoked, quarantined and enrolled again, and the audit key disappears.

### Enrollment

| model | code |
|---|---|
| `tokens` | `enroll_tokens`: used, bound_host_id, reissue; expiry and reuse window as two flags that time may flip at any moment |
| `rows` | `agents`: the secret (a number, never repeated), revoked, whether last_seen is recent, and which machine's hostname and address the row shows |
| `lock` | `_ENROLL_LOCK` |
| `machine` | each host: its process, `SYSIBLE_ENROLL_TOKEN`, `agent_state.json` |
| `EnrollPaused .. EnrollAnswer` | the `enroll` handler, from the pause check to the answer |
| `Mint`, `Reissue`/`ReissueMint`, `Revoke`, `Restore`, `SetPaused` | the administrator's routes, which do not take the lock |
| `Remove`, `DeleteLock`, `DeleteRow`, `DeletePurge` | `remove_agent` with and without `purge_token` |
| `Disenroll`, `DisenrollVerify` | `disenroll_agent.sh` and `self_disenroll` |

`HostLimit` is `edition.HOST_LIMIT`; the community build sets it to `None`,
which is any number that is never reached. The community default
`_ENROLL_REQUIRE_REBIND_AUTH = 1` is assumed.

### AuditChain

One module stands for both tables: `admin_audit_log` is `MaxRows = 0`. A hash
is the id of the row it was computed for, since a row's digest covers the row
and its predecessor's digest and ids are never reused (AUTOINCREMENT); a digest
that no longer matches is `intact = FALSE`. `strict` is
`SYSIBLE_AUDIT_REQUIRED`. The deletion of the last rows from outside is left
out: it is what the mark is for, and `NoFalseTruncation` is about the opposite.

### AdminAccounts

| model | code |
|---|---|
| `admins` | `administrators`: role (`None`: no row), the password as the number of its choice, must_change_password, created_by='sso', and whether the hash is below the current PBKDF2 cost |
| `tokens` | `admin_tokens`: user and role, and, as history, the password verified at login and whether it had changed by the time the token was stored (`late`) |
| `SetupCount`, `SetupInsert`, `Mint` | `admin_setup` |
| `LoginVerify`, `LoginRehash`, `RehashFails`, `Mint` | `admin_login` |
| `Gate` | the dependency `require_superuser`; the route body is a step of its own |
| `Add`; `RemoveLookup`, `RemoveGuard`, `RemoveDelete`; `RoleLookup`, `RoleGuard`, `RoleWrite`; `ResetLookup`, `ResetWrite` | the superuser's four routes |
| `CredentialsVerify .. CredentialsRefused`, `DropTokens` | `change_admin_credentials` and `force_admin_password_change`; one database call each, in the code's order |
| `SsoLookup`, `SsoInsert`, `SsoAdopt`, `SsoSync` | `admin_sso_provision` and `ensure_sso_account` |
| `ResetAdminLookup .. ResetAdminInsert` | `sysible_controller reset-admin`, a process on the host |
| `EndSession`, `Restart` | logout, expiry, a stale token swept; a restart, perhaps with a higher PBKDF2 cost |

None of these handlers takes a lock, so each database call is a step. Three
histories say what the two properties are allowed to excuse: `contested` (the
roster was written while another request was between its check and its write,
or SLOP took the role away), `unswept` (names whose sessions a change has left
in place), and `founded`. Passwords are never chosen twice, so an old session
can not match by accident. Left out: the login throttle, the sudo_connect flag,
and the seat caps (`edition.ROLE_LIMITS` is empty in this edition).

`TaskLifecycle` is what an operator may rely on of each task: queued, handed
out once, started at most once, closed once by a report of what was started or
by expiry, and forgotten. `TaskQueue!KeepsLifecycle` states that the queue
implements it, with `phase <- status`, `runs <- ran` and `report <- results`.

### Terminal

| model | code |
|---|---|
| `OpenCreate`, `OpenQueue` | `open_terminal`: `pty_create`, then `queue_task` and `pty_note_task` |
| `Type`, `ReadTerminal`, `CloseTerminal`, `Reap` | the viewer's routes and `_reaper_loop`; the viewer may die instead of closing |
| `Push`, `Taken`, `SaysClosed`, `Emptied` | `pty_output`, `pty_io` and what `pty_take_input` drains |
| `StartBridge`, `ReaderReads .. ReaderEnds`, `FeederChecks .. FeederEnds` | the agent's `_pty_bridge`: one thread that reads the shell and posts, one that polls and feeds it |
| `StrayTakes` | a poll whose caller has gone still drains the buffer |

### RestorePoint

| model | code |
|---|---|
| `live`; `tree`, `ready`, `unit`, `link`, `result` | the host's files; the staging tree, READY, the unit, `/system-update`, `result.json` |
| `store`, `point`, `jobs` (`cloud`) | Flashback behind the controller's relay: blobs, the point being captured, restore jobs |
| `CaptureOpen .. CaptureSeal` | `_rp_capture` |
| `PollRestore`, `Stage`, `ArmUnit`, `ArmLink`, `Reboot` | `_rp_poll`, `stage`, `arm`, `_rp_reboot` |
| `ApplyBegin`, `ApplyFile`, `ApplyResult`, `ApplyReboot` | `apply_staged` under systemd's `system-update.target`, and what the unit does afterwards |
| `ReportResult`, `ReportFailure` | `_rp_report_result`, and the failure path of `_rp_poll` |
| `PowerLoss` | the machine stops, at any step |

### ConfigBackup

`backupThread` is the agent's `_fb_loop`: `CaptureRound` and `PollRound` begin
its two halves, `Read`/`Send` a capture, `PollRestores .. Ack` a restore with
its copy (`Copy`), its temporary file (`WriteTmp`) and `os.replace`
(`Replace`). `AskCapture` is the console's request. `AgentDies` may come
between any two of them. Contents of the file are numbered as they are made;
`Torn` is a file half written.

### Integrity

`rec` is the host's entry of the JSON state (`sealed`, `quarantined`, the
window, the age of a missing measurement), `memo` is `_auto_update_sent`,
`disk` and `running` are what the host has installed and what its agent process
runs. `HeartbeatVerify`, `AutoUpdate`, `QueueUpdate`, `Mark`, `Judge` are the
heartbeat handler; `ManualPush`, `Rebaseline`, `Resume`, `Revoke`, `Restore`
the administrator's routes; `Poll`, `RunUpdate`, `Reexec` the agent. `Upgrade`
is a controller that ships a new build, `Tamper` and `GoMute` what integrity is
there to notice.

### Elevation, HostFirewall, HostConfig

`Elevation` follows one command from `FirstRun` over `RunAgain` to `ReportRun`;
a script is a sequence of steps, each of which may need root. What the model
starts from is every combination of transport, promise, password and sudo
policy.

`HostFirewall.Script` translates each command into the calls its shell script
makes, in order, given what the host has; a call gates the exit code or is
followed by `|| true`. `Does` is the effect of a call, `Step` and `StepFails`
run it, `HostReboots` keeps what is persistent.

`HostConfig` has the shape of six scripts, one of each way a file is edited
(the header of the module lists them); `SaveCopy .. LoadFile` are their steps,
`LineFails` a failing step, which ends an `&&` chain and not a `;` chain, and
`CutShort` a script that is killed.

### Rolling, Schedules

`Rolling`: `book` is what `rolling.run` believes, `up` and `inRotation` what is
so. `Preflight`, `NextBatch`, then `Drain`, `Act`, `Settle`, `Health`,
`Undrain` for each member of the batch, `Bail` and `PutBack` when a rule stops
the run, `CancelRun` from the operator.

`Schedules`: `ListDue`, `Begin`, `Advance`, `LoopRunsHost`, `Record` are one
round of `_scheduler_loop`; `Edit`, `DeleteJob`, `RunNow` the operator's
routes; `Unsaved` a save that fails; `ConsoleRestart` reads the store again.
`Wall` and `NextRun` are `compute_next_run` over local time that is shifted
once; `WeeklyJobs` are those whose next run always comes out of an addition of
days.

### Dispatch, Alerts, FleetCache, Baseline

`Dispatch`: `ReadAgents` and the SSH hosts give `HostList`
(`list_merged_hosts` with its two merging passes, `Merged` and `Folded`);
`Looked` and `Resolve` find the picked id in a list read again; `RunOverSsh`,
`QueueTask`, `RefuseInstall`, `PollSees`, `PollRaises`, `DeadlinePassed`,
`GiveUp` are the ways on from there.

`Alerts`: `WakeUp`, `Gather`, `EvaluateCycle`, `SaveState`, `Notify` are one
turn of `_alerts_loop`; `OpenForm`, `PostForm` an operator with a form that may
be old.

`FleetCache`: a request is a probe that goes through `Load`, `SecondLook`,
`Ids`, `Lock`, `Found`, `Store`; `Demand` is the priming loop, `Scan` and
`Merge` a scheduled scan, which takes no lock.

`Baseline`: `BeginCycle`, `Ask`, `RunAndReport`, `EndCycle` and the actions
(`ActOnHost`, `Reapply`, `Again`) that the report of a run fires.

### ConsoleSession, LoginThrottle, SshHosts

`ConsoleSession`: a tab has the cookie, every request carries a copy
(`Arrive`) and its answer writes one back (`Reply`), in any order. `Refuse`,
`Kept`, `Checked`, `Gate` are `require_login`, `_revalidate_session` and the
gates; `Provision`, `Reuse`, `NeedsGateway` single sign-on.

`LoginThrottle`: `Try` passes the console's counts, `Ask`, `ReadRow`,
`WriteRow` are the backend's, `Note` and `Welcome` the console's after the
answer; `TryDirect` goes around the console.

`SshHosts`: `Enroll`, `Connect`, `Merge`, `Write`, `Record` are `enroll_ssh`
with paramiko's handling of `known_hosts`; `Delete`, `Forget` a removal;
`Attempt`, `Pending`, `Answer`, `Register`, `SettleState` the record an agent's
`ssh_enable` answer makes; `Rebuild` a machine that is reinstalled or whose
address is taken by another.

### KeyCustody, Snapshot, ControllerTls, Portal, RelayConfig

`KeyCustody`: `CreateKey`/`WriteKey`/`ReadKey` is the O_EXCL creation of the
master key by two processes, `CreateSudoKey`/`WriteSudoKey` that of the
console's own; `Save`, `ReadKeys` and `AppendKeyed` use them.

`Snapshot`: `CopyOut` and `CopyBack` take one piece at a time, `Accepted` is
the verification of an archive, `ReissueKey`/`ReissueCrt` and `WriteDb` the
controller that goes on under a backup, `NewBox` and `RestoreKilled` what a
restore may find and leave.

`ControllerTls`: `Fill` and `PutInPlace` write one file of `WriteOrder`;
`Import`, `Regenerate`, `Heal` bring a new identity; `Begun` and `Loaded` are
the process that starts on what it finds.

`Portal`: `Begins`, `Spawn`, `Boot`, `StartEnds`, `Kill`, `StopEnds` are
`portal_manager.start` and `stop`; `LoginReads`, `LoginRefused`, `LoginAdmits`
the portal's login; `SetCredentials`, `RemoveCredentials`, `EndSessions` the
controller's routes.

`RelayConfig`: `BeginSave`, `StoreRow`, `AnswerSave` a save; `LookForKey ..
SshKeygen` the key that is minted on first use; `Hop` the choice of the way.

## 3. The checks

Every run explores all reachable states of its instance.

| run | instance | shows |
|---|---|---|
| `TaskQueueSafety` | 1 host, 2 threads; two tasks without secrets and no disturbance, or one task: of any kind with 1 disturbance, without secrets with 2 | a command is started at most once; one outcome, and a final one; `AskedIsDoneOnce`; the queue implements `TaskLifecycle` |
| `TaskQueueLiveness` | 1 host, 2 threads, 1 task, 1 disturbance | every dispatched task is closed; a healthy host's task is claimed |
| `EnrollmentSafety` | 2 machines, 2 tokens, 2 threads, limit 1, 3 secrets, 1 disturbance | one host_id per token; the cap; no takeover without secret or reissue token; Force Delete |
| `AdminAccountsSafety` | 2 names, 2 sessions, 2 threads, 2 passwords, 2 of restart, SSO and reset-admin | the last superuser is lost only to overlapping requests or to SLOP; a session outlives the password it was granted for only on the paths the property names |
| `ControllerState` | audit chain (2 threads, 4 rows ever, 2 retained, 2 faults), key custody, snapshot, TLS, portal, relay | the chain verifies and damage is reported; `StateIsReadable`, `CertificateStands`, `DoorsAsConfigured` |
| `HostAccess` | 2 tabs, 2 throttled logins at a time from 2 addresses, 2 SSH requests on 2 names and addresses | `SessionsAreGated`, `GuessingIsSlowed`, `HostRecordsStand` |
| `HostChannels` | terminal, restore point, file backup, integrity, edits, elevation, firewall | `StreamsAreWhole`, `RestoresAreSound`, `IntegrityHolds`, `ScriptsAreSound` |
| `FleetWork` | pool of 5, 2 jobs on 2 hosts, 2 agents and 2 records, 1 alerting host with 2 forms, 2 cached hosts, 2 managed hosts with 2 states | `RollingIsSafe`, `ScheduleIsKept`, `DispatchIsTrue`, `AlertsAreTrue`, `CacheIsTrue`, `BaselineIsKept` |
| `ServiceLoops` | smaller instances of six of them, under fairness | `LoopsServe`, `ChannelsEnd` |
| `TaskQueuePassword`, `EnrollmentRevoke`, `AuditChainAlarm` | | a counterexample each, see section 5 |

A composite property is the conjunction of the named parts below; each part is
stated, with the line of code or the comment it is about, in its module. Every
part speaks of a history or of two pieces of state.

| property | its parts |
|---|---|
| `AskedIsDoneOnce` | `EffectOnce`, `HandedOutOnce`, `RefusedIsQueued`, and `SingleHolder`, `OneWait`, on which the proof rests |
| `StateIsReadable` | `OneMasterKey`, `StoredIsReadable`; `RestoredRunsWhole` |
| `CertificateStands` | `FilesBelongTogether`, `ImportedStands` |
| `DoorsAsConfigured` | `SessionsAreCurrent`, `ServingIsTracked`; `NeverQuietlyAround`, `ShownIsInUse` |
| `SessionsAreGated` | `RevokedWithinTtl`, `TemporaryIsGated`, `SsoNeedsGateway` |
| `GuessingIsSlowed` | `GuessesBounded`, `LocksWithoutOverlap` |
| `HostRecordsStand` | `TwiceOnlyByOverlap`, `OperatorRecordStands`, `ChangedKeyIsRefused`, `ForgottenIsFree` |
| `StreamsAreWhole` | `KeysInOrder`, `OutputComplete`, `KilledForAReason` |
| `RestoresAreSound` | `ArmedIsStaged`, `NoBootLoop`, `OkMeansRestored`; `FileIsWhole`, `ReplacedIsKept`, `OnceUnlessUnheard` |
| `IntegrityHolds` | `LockoutHasCause`, `SealsAreGranted` |
| `ScriptsAreSound` | `RefusedIsRestored`, `AcceptableAtRest`, `DoneIsDone`; `OneFrontEnd`, `EnableKeepsAccess`, `SuccessIsReal`; `UnprivilegedIsSaid`, `TwiceOnlyForPrivilege` |
| `RollingIsSafe` | `ServingFloor`, `OneBatchHurt`, `FailedStaysOut`, `OutForAReason`, `ReportIsTrue` |
| `ScheduleIsKept` | `OncePerOccurrence`, `EditsSurvive`, `NoneIsDropped`, `StatusIsTrue` |
| `DispatchIsTrue` | `EveryHostIsListed`, `RunsWhereAsked`, `ReportedIsTrue` |
| `AlertsAreTrue` | `ToldIsRemembered`, `RulesAreAuthored`, `EditsOutliveTheCycle` |
| `CacheIsTrue` | `ServedCoversFleet`, `ServedIsRecent`, `RefreshIsLive`, `BurstSweepsOnce` |
| `BaselineIsKept` | `AtMostOneReapply`, `CountsAddUp` |
| `LoopsServe` | `RunEnds`, `OccurrenceIsServed`, `EditsAreCaptured`, `BuildConverges`, `EvasionIsCaught` |
| `ChannelsEnd` | `RestoreEnds`, `RestoreIsReported`, `OrphanShellDies`, `AbandonedIsReaped` |

Several of these say what they except. The exceptions are behaviours of the
code that the model has and the property would otherwise be false of; they
name the step that has to go wrong, and section 5 lists the ones that are in
conflict with what the code says of itself.

The modules keep, next to a definition, the mutated form of it (`Mut...`) that
a plausible mistake would have left: a guard dropped, an order swapped, a reset
forgotten. `PROJECT.json` pairs them with the properties; of a composite
property most parts have a mutant of their own.

### Bounds

Two threads are what is needed for every race in the code: a handler against
its own repetition, against another handler, or against the loop (a thread of
its own). Two tasks make a batch of which one can be run and the other lost.
Two machines and two tokens give a token presented by the wrong machine, a box
whose old row is adopted, and a limit of one is the smallest that two hosts
compete for. Three secrets are an enrollment, a takeover and one more attempt.
Four rows with two retained let rows be trimmed while older damage is still in
the window. Two administrators are the fewest of which one can be spared.

A pool of five with two unavailable and two that must serve has three batches,
the last of them short, and room for two losses. Two ticks of clock shift in a
period of three make an occurrence come twice or not at all, also one that falls
into the second showing of the doubled ticks, for a daily and for a weekly job. Two names and two
addresses let records share a name, an address, both or neither. Two files
with two contents are a tree of which part can be missing or changed; two
restore jobs are one that fails and the next. Three outages of the key command
let both processes be restarted and the command fail between. Three identities
are the first, one issued by the loop and one by a request. One failed call, or
reboot, per firewall command sequence leaves each prefix of a script behind;
three edits of a file with two mishaps let a good copy be overwritten by a
second backup. A capacity of two pieces is the smallest buffer that loses its
oldest and keeps its newest.

The bounds are named constants with a guard each; ages are cut off just above
the threshold they are compared with and need none. Symmetry is over threads,
requests, tabs, host keys, and tokens, machines, users and sessions where there
are any, never in a run with a liveness property. `MCBounds` is the one state
constraint: it cuts `TaskQueueSafety` to the two kinds of instance the table
names; all of its properties are safety properties.

### Fairness

`FairSpec` of TaskQueue: a started handler goes on (weak fairness per thread),
the reclaim loop wakes (it is a daemon thread with a sleep), an agent that is
up runs, gives up or polls, and time passes. Nothing is assumed of operators,
of the network or of disturbances, and a restart ends a handler.

`LoopsFairness` is the same for the other components: a roll that is running
takes its steps; the scheduler, the reaper, the two bridge threads, the agent's
backup thread and the offline applier are threads or units that go on once
they are started; a heartbeat comes and its handler goes on; time passes.
Strong fairness is used twice: the agent polls, and the backup thread begins a
capture round, again and again although other rounds of the same loop disable
the step in between - one loop does both, by its timers. A machine that is
armed for an offline restore is not assumed to be booted; `RestoreEnds` says
so. The viewer's reads are fair as long as it lives; nothing makes it live.

Deadlock is checked in the runs of the queue, of enrollment and in the three
counterexamples. The bounded models of the other runs do stop: when nobody can
log in any more and all passwords are used up, when a roll is over, when every
restore, edit or reboot of the bound has been spent.

## 4. The proofs

**TaskQueueProofs.** `TypeCorrect`, `NeverRunTwice`, `ExactlyOneOutcome`,
`OutcomesAreFinal`, for all hosts, threads, tasks, timing constants and any
number of disturbances, from `BoundsAssumption` alone. Neither `AtMostOnce` nor
`OneOutcome` is inductive: from an arbitrary state two handlers could hold the
same claimed task. The invariant is their conjunction with
- `SingleHolder`: the right to run a task is in one place, a poll handler that
  has claimed it or its host's batch, and nowhere once the command is started;
- `OneWait`: an agent is waited for by one handler at most, the one its loop is
  blocked on, so a late answer can not refill a batch; a result handler stands
  for a command that was started.

The proof has one lemma per group of actions and one step per action; the
actions that touch neither the row nor the holders are dealt with together by
a frame lemma. `OutcomesAreFinal` follows from the guards on `status` and needs
only types.

The same module has the refinement, `ImplementsLife`: with
`phase <- status`, `runs <- ran`, `report <- results`, each of the actions that
touch these maps to one action of `TaskLifecycle` (`LifeQueue .. LifeForget`),
every other to a stutter. A claim hands out a set of tasks in one
UPDATE, a reclaim expires and prunes a set in one transaction, which is why the
abstract actions take sets. It uses `SingleHolder` and `OneOutcome`. `DoneOnce` is about
what goes with a task; its invariant says what a queueing handler still owes
(`Owing`), that no two handlers owe a task the same (`Alone`), and that an SSH
record made stands for a report received (`Paid`).

**ControllerStateProofs.** The components of `MCControllerState`, each with an
invariant of its own; `FollowsEach` says that a behaviour of the composition is
a behaviour of each.

The audit chain: `TypeCorrect`, `UntouchedChainVerifies`, `DamageIsFound`,
`MarkStaysBehind`, `RecentRowsStay`, `MarkNeverGoesBack`, for any number of
writers, any window and any number of faults, from `AuditAssumption`.
The inductive invariant `IInv` says that whoever is between reading the last
row and trimming holds the lock (`Serialized`), that every row was chained to
the id before it (`Chained`), and that the table is what was inserted but for a
trimmed beginning and the rows lost (`TableTail`). `Walk` is then derived from it.

`StateStaysReadable`, from `CustodyBound` and `SnapshotBounds`. `OneOrigin` says
that a process with a key has the master key and that a sealed password was
sealed with it or with the console's own key; it needs that only one process is
ever about to write the key file. `SnapshotInv` says what a running controller
has (`Running`), that what a backup has copied is what the box still has
(`BackupIsWhole`: its claim ends with a reissue of the certificate, and that the
controller is up is what keeps a restore from running under it), and that what a
restore has copied is what the archive has (`RestoreIsOn`). A file's type grows
with the numbers given out, which `Growing` and `Counted` take care of.

`DoorsStayAsConfigured`, from `PortalBounds` and `RelayBounds`. While calls come
one at a time there is one portal process at most, the pid file's and the one
the call under way is about (`OneProcess`); what is stored of the relay, or about
to be, was validated as a whole (`Validated`), and until two requests mint at
once, whoever mints finds no key but its own (`OneKey`).

`CertificateAlwaysStands`, from `TlsBounds`; its second part is an action property.
`OneWriter` says how far a writer that is alone has come, file by file;
`Looked`, which holds with any number of writers, that the temporary certificate,
when somebody is about to put one in place, is that of such a writer (the last
to fill it), and that this writer had looked before it issued its identity.

**AdminAccountsProofs.** `TypeCorrect` and `SessionsEndWithTheirPassword`, for
any administrators, sessions, threads and roles and any number of passwords and
events, from `AdminAssumption`. `SessionsEnd` speaks of sessions that resolve,
and a session whose role no longer fits resolves again when the role is given
back. So `IInv` says the same of every stored session (`StoredSessions`); it
needs that an absent row has no password, so that a row inserted or renamed to
puts no session out of date that was not (`AbsentRows`), and that a handler past
its gate is about an administrator (`Named`). The proof follows where the excuse
of a session goes at each step: it stays, or is handed from the thread that was
to drop the sessions to `unswept`, or ends with the session.

The last superuser is a second invariant, over the first. `LockoutNeedsOverlap`
trusts the count a guard has made some steps ago; `SuperuserKept` says that as
long as nothing overlapped, what the guard found is still so (`GuardHolds`:
another superuser is left) when the row is deleted or demoted. Every write of
the roster while somebody else is in a section sets `contested`, which is where
the proof hands the excuse over.

**EnrollmentProofs.** `TypeCorrect`, `OneHostPerToken`, `CapHolds`,
`NoTakeover`, `GoneForGood`, for any machines, tokens, threads, secrets, limit
and disturbances, from `EnrollmentAssumption`. Each safety property holds
because of what a handler has established before the step that matters, so the
invariant has one conjunct per handler, `Carries`: in the section it holds
`_ENROLL_LOCK`; past `e_check` it is entitled to the row (the secret, or a
reissue token not yet spent); past `e_limit` there is room; past `e_consume` the
token is its own. Administrators' routes do not take the lock: the lemma per
route shows why each of them leaves the handler's facts standing (a reissue
mints a token that was never used, a delete makes room, a purge makes the
consume fail). `Purged` is what `GoneForGood` needs: a token purged by a Force
Delete stays deleted.

**FleetWorkProofs.** What the console does with the fleet, one invariant per
component. `RunsSafely`, for a pool of any size, from `RollingBounds`,
which is what `pools.validate` accepts. `ServingFloor` is about the pool, and
the run decides by its book; `RollInv` says how far the two are apart.
`Shape` ties phase, batch and what is left to do to the batch's members (batches
are consecutive intervals, `Batches`); `Rotation` says that whoever is out of
rotation is in the batch under way, failed, or was lost to something other than
the run; `Book` that whoever the run believes healthy is up and in rotation or
was lost, and that beside the batch it counts `MinHealthy` of them. `FloorHeld`
takes the count from the book to the pool.

`DispatchesTruly`, for any agents, names, addresses,
requests and failures, from `DispatchBounds`. `ListIsComplete` is a lemma about
`HostList` alone, for any two lists of the right types: every agent in exactly
one row, ids unique, every SSH record in a row or at the address of one. It is
where the choice of the least agent of a name and of one row per address is
reasoned about. The request's part is `Tracked` (nothing reaches a host before
the row is chosen, and the row has the id that was picked) and `Answered`.

`SchedulesStand`, for any jobs, any cadence and any shift of the clocks that
stays within a period, from `ScheduleBounds` and `ShiftWithinPeriod`. Its core
is the arithmetic of local time: `NextRun` of any instant is later than it,
unless it is a weekly job's in the second showing of a doubled hour. `SchedInv`
then says that what the loop has listed was due when it looked, each job once
(`ListedOnce`), and that what was started of a job is past and neither stored
nor in hand again (`StartedOnce`). `AlertsStand`, from `AlertBounds`:
`FormsAreAuthored` (the rules in the file, and in a form that was let through, are
a superuser's) and `ToldSoFar` (what the file remembers as firing has been told,
or the evaluator has written it and is about to tell it). `CachesStand`, from
`CacheBounds`: `OneSweeps` (one task at most holds the lock), `MemoIsTrue` and
`ReadingsAreTrue` (a reading is no older than the stamp says, and while nobody
sweeps the cache covers the fleet of the last sweep), and of each request what
it has found out so far (`TrueTask`).

`BaselinesStand`, from `BaselineBounds`. The runs handed out are one list;
`RunFirstOnce` says that no two first runs are of one state of one host, and
that nothing was run yet of a host that is still to come; `ToBeRun` that the
list in hand is of the first runs that have not run. `SecondHasFirst` gives
every second run a first one of its own whose reapply has been spent, which is
why there is no third. `LedgerIsTrue` makes the counts cardinalities of sets of
runs and of hosts, so that a step adds one element and no induction over the
list is needed.

**HostAccessProofs.** `RecordsStand`, for any names, addresses, keys, agents and
requests, from `SshBounds`. Requests look records and pins up and write them some steps later. `LateIsMarked`
says that one whose address has been taken by another record meanwhile is marked
late, which is what `TwiceOnlyByOverlap` excepts, and `OperatorIsDuring` that what
an operator recorded while an agent's answer was on its way was recorded during
it, which is what `OperatorRecordStands` excepts. `OneInHand` says that until two
requests cross, one at most holds a copy of `known_hosts`, and what the copy says
of every address it is not about is what the file says; `PinsAreTrue` follows: the
pin in the file is the key trusted first, or a writer is about to make it so.

`SessionsStand`, from `ConsoleBounds`. The cookie lives in several places
(the tab, and every request under way), and a stale one comes back at any time,
so `SessionInv` says the same of each copy (`Held`: its grant was given, was good
when the backend was last asked, and, where it opens more than the change of a
password, was not to a temporary one). `GrantsAreTrue` and `CalmIsTrue` tie the
ages to what they are ages of, and `WayIn` says how a request came behind its gate.

`GuessersAreSlowed`, from `ThrottleBounds`. A count is the set of its failures,
each known by its age and its number among those of that age, so that it grows
by one element, and a minute is an injection that loses the oldest.
`ConsoleCounts` says what lets the console's own counts stand for the guesses:
the requests past `_throttle_check` were admitted below the limit (`AdmittedFit`),
and a guess that is not noted yet is in the hands of a request that will note
it, no younger than the mark it will get (`GuessesNoted`, for each age).
`BelowLimit` and `RowHasAll` say that until two writers of the row overlap, what
has failed since the last lock is in the row, and fewer than `MaxFails`.

**HostChannelProofs.** `StreamsStayWhole`, for any number of keystrokes, pieces
of output and mishaps, any buffer and any time limit, from `TerminalBounds`.
Either direction of the terminal is one history split over the places it passes
(typed: the session's buffer, the agent's hands, the shell; written: the PTY,
the agent's hands, the session's buffer, the viewer). `KeyStream` and
`OutStream` say that the places, read from the far end, rise and hold no more
than was made, and all of it while nothing was lost; a step moves the front of
one place to the end of the next or drops it, which is one lemma
(`StreamMoves`). That the buffer's cap drops nothing needs the bound on the sum
of the places. `Control` is what the threads owe each other: a thread told to
stop, or about to kill, stands for a session that is closed or gone or a shell
that is dead (`Halted`); the output thread at its end of file has read all.
`Ending` is what a reported end is the sign of: until the viewer is told, an
end by end of file means that all output is read or in the buffer.

`RestoresStaySound`, in the same module, for any files, jobs, versions and
faults, from `RestorePointBounds` and `BackupBounds`. What `ArmedIsStaged`,
`NoBootLoop` and `OkMeansRestored` need is that there is one restore at a time
on its way to the disk (`OneOpen`: asked for, staged, armed, applied or
reported), that a point is sealed before it is asked for
(`Sealing`), and what the apply has done (`Applying`: while no file failed, the
files that are not left to do are the tree's). Of a file, `Carrying` says what
the thread holds at each step (what it met is torn, or has a copy), `Restoring`
that a restore Flashback waits for is not replaced by another meanwhile, and
`Reporting` that a write whose restore is still queued is about to be reported
or its report was lost.

`IntegrityAlwaysHolds`, in the same module too, from `IntegrityBounds`: an
invariant for `LockoutHasCause` and, from the same, the action property
`SealsAreGranted`. `UpdateIsCovered` says that while there is no cause, whoever
measures measured something, and an update on its way (queued, polled, or
installed and not yet sealed) has an open window or a handler that is about to
open it (`MarkSteps`); a judgement then quarantines nobody else.
`QuarantineIsPlain`, which holds with a cause too, says that a quarantine is
never inside a window and is of a sealed host, so that the reseal and the first
sighting of `evaluate` can not lift it.

**HostScriptProofs.** `ScriptsStaySound`, for any number of edits, steps of a
script and failures, from `ConfigBounds`, `ElevationBounds` and
`FailuresAreBounded`. Each part is a script that may stop at any of
its steps, so its invariant says what the steps done so far have made of the
host, and what is left.
- `ConfigInv`: a script's copy is of the file it found (`CopiedBefore`), netplan
  has copies from its first file on (`NoFileNoCopy`), what may be put back is
  a file its program accepts (`GoodCopies`), and a chain that has come to its
  end has written (`ChainDone`).
- `ElevationInv`: the runs of a command alternate in privilege and a second one
  is due only after a refusal (`Turn`, `RunsInTurn`); a step has taken effect
  as somebody only in a run of theirs (`EffectsInTurn`), so twice only in two
  runs; root is not denied (`RootIsNotDenied`), so what is denied is said.
- `FwInv`: what is left of an enabling or disabling script is one of a few lists
  of calls (`ScriptLeft`), and each of them fixes what firewalld or ufw has by
  then (`FwdTurning`, `UfwTurning`, `Turned`): a port is let through at every
  call, by the firewall that was in charge or by the one that comes.

In each of the composites a part is shown of its component, whose variables the
steps of the others leave alone; `RestoresAtOnce` and `ScriptsAtOnce` are the
same with all parts running at once.

Proving has corrected the models twice. `NextRun` of a weekly job was taken to
keep fold as a daily one's does; the proof that it is ahead of its argument
failed, and the source drops fold (section 5). `late`, the history that
`BurstSweepsOnce` excepts, counted the scans that merge readings older than the
stamp, which misses one that began before the last sweep and ends after it when
the stamp is older than both; the three tasks of the run leave no room for that.

Every safety invariant and action property that a passing run checks is proved.
Only model-checked: the liveness properties, since liveness under fairness is
out of the prover's reach, and the three claims of section 5 that are refuted.

## 5. Where the code and what is said of it differ

Each of these is a run that TLC refutes, with a finding in `PROJECT.json` that
quotes the line.

- `RunsWithItsItems`: the row is committed before the password is stored; a
  poll in between runs the command without it.
- `RevocationSticks`: enroll reads `revoked`, and clears it some steps later.
- `NoFalseTruncation`: verification reads the rows, and then the mark.

The others are in the models' behaviour, and in the exceptions of the
properties, without a run of their own.

Queue. The reclaim limit (900 s) is below the agent's own command timeout
(1800 s), so a task is given up while its command runs (app.py 1228); the
command is queued before it is audited, so a refused one may run (app.py 1446);
uncollected passwords are only swept by the next store (app.py 1252); pruning
goes by creation time, so a task that waited long is deleted by the transaction
that closes it (db.py 3144); quarantine is checked before the claim and not at
it (app.py 1932).

Enrollment. The pause flag is read before the lock is waited for (app.py 897);
a used token is resolved to its host_id whichever machine presents it (db.py
1530); an agent that has lost its enroll answer is refused with its own token
(app.py 968); a reissue token does not let a revoked host back in (app.py 940);
self_disenroll verifies the secret before it waits for the lock (app.py 2772);
reissue looks a host up and inserts the token in a second transaction (app.py
487).

Accounts. A superuser is counted in one transaction and removed, or demoted, in
another, so two requests may each count the other's (app.py 4125); two
first-run setups may both find no administrator (app.py 3643). A session
outlives a change of password when its login was verified before the change and
stored after it (app.py 3743, 3780), when the rehash at login writes the old
password back (app.py 3765), when a rename is followed by a password the policy
refuses (app.py 4227), after an adoption by SSO (app.py 3955), after
`reset-admin`, or when the backend stops between the change and the deletion of
the tokens. The first account can be added without setup and need not be a
superuser (app.py 4071). The failed-login count is called "Atomic" (db.py 2329)
and is a read and a write on which two failures may meet: one of them is not
counted.

Console. `compute_next_run` promises the next run "strictly after `from_ts`"
(webgui/schedules.py 101). A weekly job's wall clock always goes through an
addition of days, which drops fold (schedules.py 110-117), so during the second
showing of a doubled hour its next run is the first showing, in the past: it is
due again at once, and again at every turn of the loop until the hour is over.
A daily job keeps fold unless the day is added. `OncePerOccurrence` excepts this
case and `twice` records it.
A list that could not be read is taken for an empty one, so an agent
row that is also an SSH record is looked up as the record (webgui/server.py
4444). A preview of a baseline does fire `command` actions (webgui/server.py
3124). A reapply is said to be done "ONCE per host per cycle" (webgui/server.py
3147); `reapplied` belongs to the report of one state, so a host's every state
may be run a second time. The answer's "Applied on N host(s)" counts states
(webgui/server.py 3094).

Hosts. Installing firewalld from the console starts it beside a running ufw
(_api_firewall.py 1038). A restore job that is READY and was not armed when the
machine or the agent stopped is never taken up again (flashback_restore.py
250).

## 6. What is not modelled

- SSH terminals and ephemeral grants (remote_routes.py 120-146, 1501-1632):
  paramiko channels and short-lived keys held in one process; the agent-hosted
  terminal, with two ends and a network between, is modelled instead.
- The console's other JSON stores (suppressions, host notes, pools, finished
  runs): each is one file replaced under one lock.
- `webgui/actions.py` and most of `client/`: they format one command line, or
  forward one call. The scripts that edit files and firewalls are modelled.
- Supervision, installer, editions, policy, and the front end: calls of the
  operating system, configuration, and pages.
- Cryptography (the vault, digests, certificates, cookies) is taken to be
  sound; audit digests are taken to be collision-free.
- In the modelled parts: rate limits, the IP allowlist and the other checks
  that only refuse a request earlier; environments as a filter; activity rows
  other than the queue's; the one-time audit backfill; SQLite errors except
  where a handler's comment speaks of them; CSRF, origin and header checks of
  the console; the wording and transport of alerts; the connection test of the
  relay; what the portal serves; edits and tests of an SSH record.
- Behaviour of Flashback, Baseline, paramiko, systemd, sudo, ufw and firewalld
  beyond what the code relies on; the definitions that stand for them are
  marked external in `PROJECT.json`.
