---------------------------- MODULE RestorePoint ----------------------------
(***************************************************************************)
(* A whole-machine restore point of one host: captured by the agent's       *)
(* config-backup thread, kept by Flashback behind the controller's relay,   *)
(* staged back beside the live system, applied offline by systemd's         *)
(* system-update.target on the next boot, and reported when the agent is up *)
(* again.  Requests get lost, files change under the capture, and the       *)
(* machine may stop between any two steps.                                  *)
(*                                                                         *)
(* A file's digest is its content.  Flashback itself is external: it hands  *)
(* out the open job until it is told that it is finished, seals a point     *)
(* whose content is all there, and may or may not check what it is sent     *)
(* against the digest it is sent under.                                     *)
(***************************************************************************)
EXTENDS Integers, FiniteSets

CONSTANTS
    Files,           \* paths under the captured roots
    Bytes,           \* what a file may hold
    Missing,         \* no value: no such file, no such blob
    MaxJobs,         \* bound: restores queued
    MaxFileChanges,  \* bound: changes of live files by anybody else
    MaxFaults        \* bound: lost requests, refusals, stops of the machine

ASSUME RestorePointBounds ==
    MaxJobs \in Nat /\ MaxFileChanges \in Nat /\ MaxFaults \in Nat /\ Files # {}

RestoreJobs == 1..MaxJobs
Trees       == [Files -> Bytes \cup {Missing}]
NoFiles     == [f \in Files |-> Missing]

VARIABLES
    live,     \* the host's files
    store,    \* Flashback's blobs, by digest
    point,    \* the restore point: manifest and whether it is sealed
    capture,  \* _rp_capture: its step, its manifest, the digests to upload
    jobs,     \* Flashback's restore jobs
    tree,     \* the staged tree of each job
    ready,    \* jobs with a READY file
    unit,     \* the job in the apply unit's ExecStart, 0 for none
    link,     \* the job /system-update points to, 0 for none
    result,   \* result.json of each job
    boot,     \* "normal", or "update": system-update.target
    agent,    \* the config-backup thread: step and job
    applier,  \* apply_staged: step, files done, errors so far
    stuck,    \* history: what left a job open for good
    changes,  \* bound
    faults    \* bound

hostDisk  == <<live, tree, ready, unit, link, result>>
cloud == <<store, point, jobs>>
restoreVars  == <<hostDisk, cloud, capture, boot, agent, applier, stuck, changes, faults>>

NoCapture == [pc |-> "off", manifest |-> NoFiles, missing |-> {}]
NoApply   == [pc |-> "off", todo |-> {}, ok |-> TRUE]
AtStep(pc, j) == [pc |-> pc, job |-> j]

RestoreTypeOK ==
    /\ live \in Trees
    /\ store \in [Bytes -> Bytes \cup {Missing}]
    /\ point \in [manifest : Trees, sealed : BOOLEAN]
    /\ capture \in [pc : {"off", "manifest", "upload", "seal"}, manifest : Trees,
                    missing : SUBSET Bytes]
    /\ jobs \in [RestoreJobs -> {"none", "open", "done", "failed"}]
    /\ tree \in [RestoreJobs -> Trees]
    /\ ready \subseteq RestoreJobs
    /\ unit \in 0..MaxJobs /\ link \in 0..MaxJobs
    /\ result \in [RestoreJobs -> {Missing, "ok", "errors"}]
    /\ boot \in {"normal", "update"}
    /\ agent \in [pc : {"report", "poll", "stage", "unit", "link", "fail", "reboot"},
                  job : 0..MaxJobs]
    /\ applier \in [pc : {"off", "begin", "write", "result"}, todo : SUBSET Files,
                    ok : BOOLEAN]
    /\ stuck \in BOOLEAN
    /\ changes \in 0..MaxFileChanges /\ faults \in 0..MaxFaults

RestoreInit ==
    /\ live \in [Files -> Bytes]
    /\ store = [c \in Bytes |-> Missing]
    /\ point = [manifest |-> NoFiles, sealed |-> FALSE]
    /\ capture = NoCapture
    /\ jobs = [j \in RestoreJobs |-> "none"]
    /\ tree = [j \in RestoreJobs |-> NoFiles]
    /\ ready = {} /\ unit = 0 /\ link = 0
    /\ result = [j \in RestoreJobs |-> Missing]
    /\ boot = "normal"
    /\ agent = AtStep("report", 0)
    /\ applier = NoApply
    /\ stuck = FALSE /\ changes = 0 /\ faults = 0

Fault == faults < MaxFaults /\ faults' = faults + 1
Held(t) == {t[f] : f \in Files} \ {Missing}

-----------------------------------------------------------------------------
(* Capture: describe, be told what is missing, upload it, seal.  It runs on *)
(* the thread that polls, between two polls.  One point is captured.        *)

CaptureOpen ==
    /\ boot = "normal" /\ agent.pc = "poll" /\ capture.pc = "off"
    /\ ~point.sealed /\ Held(live) # {}
    /\ capture' = [pc |-> "manifest", manifest |-> live, missing |-> {}]
    /\ UNCHANGED <<hostDisk, cloud, boot, agent, applier, stuck, changes, faults>>

CaptureManifest ==
    /\ capture.pc = "manifest"
    /\ capture' = [capture EXCEPT
                     !.pc = "upload",
                     !.missing = {c \in Held(capture.manifest) : store[c] = Missing}]
    /\ point' = [point EXCEPT !.manifest = capture.manifest]
    /\ UNCHANGED <<hostDisk, store, jobs, boot, agent, applier, stuck, changes, faults>>

(* The file is read again: it may hold something else by now, or be gone.   *)
CaptureUpload(c) ==
    /\ capture.pc = "upload" /\ c \in capture.missing
    /\ capture' = [capture EXCEPT !.missing = @ \ {c}]
    /\ \E f \in Files :
          /\ capture.manifest[f] = c
          /\ \/ live[f] # Missing /\ store' = [store EXCEPT ![c] = live[f]]
             \/ live[f] # c /\ UNCHANGED store       \* unreadable, or refused
    /\ UNCHANGED <<hostDisk, point, jobs, boot, agent, applier, stuck, changes, faults>>

CaptureSeal ==
    /\ capture.pc = "upload" /\ capture.missing = {}
    /\ point' = [point EXCEPT
                   !.sealed = \A c \in Held(point.manifest) : store[c] # Missing]
    /\ capture' = NoCapture
    /\ UNCHANGED <<hostDisk, store, jobs, boot, agent, applier, stuck, changes, faults>>

CaptureFails ==
    /\ Fault
    /\ capture.pc # "off"
    /\ capture' = NoCapture
    /\ UNCHANGED <<hostDisk, cloud, boot, agent, applier, stuck, changes>>

-----------------------------------------------------------------------------
(* Stage and arm: _rp_poll, flashback_restore.stage and arm.                *)

AskRestore(j) ==
    /\ point.sealed /\ jobs[j] = "none"
    /\ \A i \in RestoreJobs : (i < j => jobs[i] # "none") /\ jobs[i] # "open"
    /\ jobs' = [jobs EXCEPT ![j] = "open"]
    /\ UNCHANGED <<hostDisk, store, point, capture, boot, agent, applier, stuck, changes,
                   faults>>

(* A job with READY is taken for one that waits for its reboot.             *)
PollRestore ==
    /\ boot = "normal" /\ agent.pc = "poll" /\ capture.pc = "off"
    /\ \E j \in RestoreJobs :
          /\ jobs[j] = "open" /\ j \notin ready
          /\ agent' = AtStep("stage", j)
    /\ UNCHANGED <<hostDisk, cloud, capture, boot, applier, stuck, changes, faults>>

(* Mutant: what comes down is written as it is.                             *)
MutGenuine(c) == store[c] # Missing
(* Every digest is checked before READY is written.                         *)
Genuine(c) == store[c] = c
Stage ==
    /\ boot = "normal" /\ agent.pc = "stage"
    /\ LET j == agent.job
           genuine == \A c \in Held(point.manifest) : Genuine(c) IN
       \/ /\ genuine
          /\ tree' = [tree EXCEPT ![j] = [f \in Files |->
                        IF point.manifest[f] = Missing THEN Missing
                        ELSE store[point.manifest[f]]]]
          /\ ready' = ready \cup {j}
          /\ agent' = AtStep("unit", j)
          /\ UNCHANGED faults
       \/ /\ \/ ~genuine /\ UNCHANGED faults
             \/ Fault
          /\ agent' = AtStep("fail", j)
          /\ UNCHANGED <<tree, ready>>
    /\ UNCHANGED <<live, unit, link, result, cloud, capture, boot, applier, stuck,
                   changes>>

(* arm(): script, unit and wants-link first, /system-update last.           *)
ArmUnit ==
    /\ boot = "normal" /\ agent.pc = "unit"
    /\ \/ unit' = agent.job /\ agent' = AtStep("link", agent.job) /\ UNCHANGED faults
       \/ UNCHANGED unit /\ agent' = AtStep("fail", agent.job) /\ Fault
    /\ UNCHANGED <<live, tree, ready, link, result, cloud, capture, boot, applier,
                   stuck, changes>>

ArmLink ==
    /\ boot = "normal" /\ agent.pc = "link"
    /\ \/ /\ link' = agent.job /\ UNCHANGED faults
          /\ agent' \in {AtStep("reboot", 0), AtStep("poll", 0)}    \* job.reboot
       \/ UNCHANGED link /\ agent' = AtStep("fail", agent.job) /\ Fault
    /\ UNCHANGED <<live, tree, ready, unit, result, cloud, capture, boot, applier,
                   stuck, changes>>

(* finish(ok = False).  When it is lost the next poll stages again, but not *)
(* a job that is READY.                                                     *)
ReportFailure ==
    /\ boot = "normal" /\ agent.pc = "fail"
    /\ agent' = AtStep("poll", 0)
    /\ \/ jobs' = [jobs EXCEPT ![agent.job] = "failed"] /\ UNCHANGED <<stuck, faults>>
       \/ Fault /\ stuck' = (stuck \/ agent.job \in ready) /\ UNCHANGED jobs
    /\ UNCHANGED <<hostDisk, store, point, capture, boot, applier, changes>>

-----------------------------------------------------------------------------
(* Boot, apply, report.                                                     *)

(* Down and up again: system-update.target if its link is there.            *)
BootUp ==
    /\ capture' = NoCapture
    /\ IF link # 0 /\ unit # 0
       THEN /\ boot' = "update"
            /\ applier' = [pc |-> "begin", todo |-> {}, ok |-> TRUE]
       ELSE /\ boot' = "normal"
            /\ applier' = NoApply
    /\ agent' = AtStep("report", 0)

Reboot ==
    /\ boot = "normal" /\ agent.pc = "reboot"
    /\ BootUp
    /\ UNCHANGED <<hostDisk, cloud, stuck, changes, faults>>

(* The machine stops; an apply that has begun is not begun again.           *)
PowerLoss ==
    /\ Fault
    /\ BootUp
    /\ stuck' = \/ stuck
                \/ boot = "update" /\ applier.pc \in {"write", "result"}
                \/ boot = "normal" /\ link = 0 /\ agent.job \in ready
    /\ UNCHANGED <<hostDisk, cloud, changes>>

AgentRestart ==
    /\ Fault
    /\ boot = "normal"
    /\ agent' = AtStep("report", 0)
    /\ capture' = NoCapture
    /\ stuck' = (stuck \/ agent.job \in ready)
    /\ UNCHANGED <<hostDisk, cloud, boot, applier, changes>>

(* Mutant: the link is left for the end.                                    *)
MutUnlinked == link
(* apply_staged: the link goes before the work starts.                      *)
Unlinked == 0
ApplyBegin ==
    /\ boot = "update" /\ applier.pc = "begin"
    /\ unit \in ready
    /\ link' = Unlinked
    /\ applier' = [pc |-> "write", todo |-> Files, ok |-> TRUE]
    /\ UNCHANGED <<live, tree, ready, unit, result, cloud, capture, boot, agent,
                   stuck, changes, faults>>

(* One file at a time, by rename; a file the point does not have is moved   *)
(* to displaced/.  An error is noted and the rest goes on.                  *)
ApplyFile(f) ==
    /\ boot = "update" /\ applier.pc = "write" /\ f \in applier.todo
    /\ \/ /\ live' = [live EXCEPT ![f] = tree[unit][f]]
          /\ applier' = [applier EXCEPT !.todo = @ \ {f}]
          /\ UNCHANGED faults
       \/ /\ Fault
          /\ applier' = [applier EXCEPT !.todo = @ \ {f}, !.ok = FALSE]
          /\ UNCHANGED live
    /\ UNCHANGED <<tree, ready, unit, link, result, cloud, capture, boot, agent, stuck,
                   changes>>

(* Mutant: an error does not show in the result.                            *)
MutOutcome == "ok"
Outcome == IF applier.ok THEN "ok" ELSE "errors"
ApplyResult ==
    /\ boot = "update" /\ applier.pc = "write" /\ applier.todo = {}
    /\ result' = [result EXCEPT ![unit] = Outcome]
    /\ applier' = [applier EXCEPT !.pc = "result"]
    /\ UNCHANGED <<live, tree, ready, unit, link, cloud, capture, boot, agent, stuck,
                   changes, faults>>

(* SuccessAction=reboot.                                                    *)
ApplyReboot ==
    /\ boot = "update" /\ applier.pc = "result"
    /\ BootUp
    /\ UNCHANGED <<hostDisk, cloud, stuck, changes, faults>>

(* _rp_report_result runs once, when the thread starts.  A report that is   *)
(* not taken keeps its file until the agent starts again.                   *)
Reports == {j \in RestoreJobs : result[j] # Missing}
ApplyVerdict(r) == IF r = "ok" THEN "done" ELSE "failed"
ReportResult ==
    /\ boot = "normal" /\ agent.pc = "report"
    /\ \/ /\ Reports = {}
          /\ agent' = AtStep("poll", 0)
          /\ UNCHANGED <<jobs, result, stuck, faults>>
       \/ \E j \in Reports :
             /\ jobs' = [jobs EXCEPT ![j] = ApplyVerdict(result[j])]
             /\ result' = [result EXCEPT ![j] = Missing]
             /\ UNCHANGED <<agent, stuck, faults>>
       \/ /\ Reports # {} /\ Fault
          /\ agent' = AtStep("poll", 0)
          /\ stuck' = TRUE
          /\ UNCHANGED <<jobs, result>>
    /\ UNCHANGED <<live, tree, ready, unit, link, store, point, capture, boot, applier,
                   changes>>

(* Anybody else writes, creates or deletes a file while the host runs.      *)
FileChanges(f) ==
    /\ boot = "normal" /\ changes < MaxFileChanges
    /\ changes' = changes + 1
    /\ \E c \in Bytes \cup {Missing} : c # live[f] /\ live' = [live EXCEPT ![f] = c]
    /\ UNCHANGED <<tree, ready, unit, link, result, cloud, capture, boot, agent,
                   applier, stuck, faults>>

-----------------------------------------------------------------------------
AgentStep == \/ ReportResult \/ PollRestore \/ Stage \/ ArmUnit \/ ArmLink
             \/ ReportFailure \/ Reboot
ApplyStep == ApplyBegin \/ (\E f \in Files : ApplyFile(f)) \/ ApplyResult \/ ApplyReboot
CaptureStep == \/ CaptureManifest \/ (\E c \in Bytes : CaptureUpload(c))
               \/ CaptureSeal
RestoreNext ==
    \/ AgentStep \/ ApplyStep \/ CaptureOpen \/ CaptureStep \/ CaptureFails
    \/ \E j \in RestoreJobs : AskRestore(j)
    \/ \E f \in Files : FileChanges(f)
    \/ PowerLoss \/ AgentRestart

RestoreSpec     == RestoreInit /\ [][RestoreNext]_restoreVars
FairRestoreSpec ==
    /\ RestoreSpec
    /\ WF_restoreVars(AgentStep) /\ WF_restoreVars(ApplyStep) /\ WF_restoreVars(CaptureStep)

-----------------------------------------------------------------------------
(* At every instant the machine may stop at, what the next boot would apply *)
(* is a job that is completely staged, with the digests of its point: "its  *)
(* absence means do not apply".                                             *)
ArmedIsStaged ==
    /\ link # 0 => unit = link /\ link \in ready
    /\ \A j \in ready : tree[j] = point.manifest

(* "The symlink is removed BEFORE the work starts": no boot into the update *)
(* target can follow once a file has been written, a crash included.        *)
NoBootLoop ==
    boot = "update" /\ applier.pc # "begin" => link = 0

(* Success is only reported of a machine that was put back completely: all  *)
(* files are the point's, from the last write to the reboot.                *)
OkMeansRestored ==
    /\ boot = "update" /\ applier.pc = "result" /\ result[unit] = "ok"
          => live = point.manifest
    /\ \A j \in RestoreJobs : jobs[j] = "done" => j \in ready /\ point.sealed

(* A restore that was queued ends, one way or the other, unless it is one   *)
(* of the ways in which the code loses it (stuck): the machine or the agent *)
(* stopped once it was READY and before it was armed, or in the middle of   *)
(* the apply; a report or a failure to arm was not taken.  What is armed    *)
(* waits for the next boot.                                                 *)
RestoreEnds == \A j \in RestoreJobs :
    jobs[j] = "open" ~> jobs[j] # "open" \/ stuck \/ (link = j /\ boot = "normal")

(* A restore is applied whole, once, and only said to be done if it is.     *)
RestoreIsSound == RestoreTypeOK /\ ArmedIsStaged /\ NoBootLoop /\ OkMeansRestored
=============================================================================
