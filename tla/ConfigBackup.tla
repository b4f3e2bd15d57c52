---------------------------- MODULE ConfigBackup ----------------------------
(***************************************************************************)
(* Configuration history: the agent captures its config files on a         *)
(* schedule and when the console asks, the controller relays the captures  *)
(* and the restores between the agent and Flashback, and the agent writes  *)
(* a queued version back (host_agent/agent.py _fb_*, backend/app.py        *)
(* /agents/{id}/config-*, backend/flashback.py).  One host and one file,   *)
(* whose contents are numbered in the order they are made.  Flashback is   *)
(* another product: it keeps what it was sent and a restore's last report. *)
(***************************************************************************)
EXTENDS Naturals, FiniteSets

CONSTANTS MaxVersions,  \* bound: contents of the file ever made
          MaxRestores,  \* bound: restores queued
          MaxWishes,    \* bound: captures asked for
          MaxTroubles   \* bound: failed calls, lost answers, agent crashes

ASSUME BackupBounds ==
    /\ MaxVersions \in Nat \ {0}
    /\ {MaxRestores, MaxWishes, MaxTroubles} \subseteq Nat

VARIABLES file,          \* the content of the file; Torn when half written
          newest,        \* contents made so far
          kept,          \* contents in .sysible-backup copies on the host
          stored,        \* contents Flashback holds
          restore,       \* the restore queued last, at Flashback
          restores,      \* restores queued so far
          wish,          \* a capture is asked for (_CAPTURE_REQUESTS)
          wishes,        \* captures asked for so far
          backupThread,  \* where the agent's config thread stands
          replaced,      \* contents a restore overwrote that it had met
          writes,        \* times the present restore was written
          unheard,       \* a report of the present restore was lost
          troubles       \* troubles spent

backupVars == <<file, newest, kept, stored, restore, restores, wish, wishes,
                backupThread, replaced, writes, unheard, troubles>>

Torn == 0

NoRestore == [version |-> 0, allowed |-> TRUE, state |-> "none"]

Asleep == [at |-> "asleep"]

Pending == restore.state = "pending"

Goes(to) == backupThread' = to

HadTrouble == troubles < MaxTroubles /\ troubles' = troubles + 1

BackupInit ==
    /\ file = 1 /\ newest = 1
    /\ kept = {} /\ stored = {}
    /\ restore = NoRestore /\ restores = 0
    /\ wish = FALSE /\ wishes = 0
    /\ backupThread = Asleep
    /\ replaced = {} /\ writes = 0
    /\ unheard = FALSE
    /\ troubles = 0

-----------------------------------------------------------------------------
(* The people: an administrator of the host edits the file, an operator     *)
(* asks for a capture, or queues a version Flashback holds.  The path may be *)
(* one this host no longer tracks.                                           *)

EditFile ==
    /\ newest < MaxVersions /\ file # Torn
    /\ newest' = newest + 1
    /\ file' = newest'
    /\ UNCHANGED <<kept, stored, restore, restores, wish, wishes, backupThread, replaced,
                   writes, unheard, troubles>>

AskCapture ==
    /\ wishes < MaxWishes
    /\ wish' = TRUE
    /\ wishes' = wishes + 1
    /\ UNCHANGED <<file, newest, kept, stored, restore, restores, backupThread, replaced,
                   writes, unheard, troubles>>

QueueRestore ==
    /\ ~Pending /\ restores < MaxRestores
    /\ \E v \in stored, allowed \in BOOLEAN :
        restore' = [version |-> v, allowed |-> allowed, state |-> "pending"]
    /\ restores' = restores + 1
    /\ writes' = 0
    /\ unheard' = FALSE
    /\ UNCHANGED <<file, newest, kept, stored, wish, wishes, backupThread, replaced, troubles>>

-----------------------------------------------------------------------------
(* The thread: a scheduled capture, then the poll, in a loop.               *)

MutCaptureDue == Goes([at |-> "poll"])

\* A round in which FB_INTERVAL is over: a capture first, and then the poll.
CaptureDue == Goes([at |-> "read", then |-> "poll"])

CaptureRound ==
    /\ backupThread.at = "asleep"
    /\ CaptureDue
    /\ UNCHANGED <<file, newest, kept, stored, restore, restores, wish, wishes,
                   replaced, writes, unheard, troubles>>

PollRound ==
    /\ backupThread.at = "asleep"
    /\ Goes([at |-> "poll"])
    /\ UNCHANGED <<file, newest, kept, stored, restore, restores, wish, wishes,
                   replaced, writes, unheard, troubles>>

\* _fb_collect reads the file as it stands.
Collected == file

Read ==
    /\ backupThread.at = "read"
    /\ Goes([at |-> "send", then |-> backupThread.then, content |-> Collected])
    /\ UNCHANGED <<file, newest, kept, stored, restore, restores, wish, wishes,
                   replaced, writes, unheard, troubles>>

\* An answer of 400 and up is a line in the journal; a connection that fails
\* is the loop's own exception, and ends this round.
Send ==
    /\ backupThread.at = "send"
    /\ \/ /\ stored' = stored \cup {backupThread.content}
          /\ Goes([at |-> backupThread.then])
          /\ UNCHANGED troubles
       \/ /\ HadTrouble
          /\ UNCHANGED stored
          /\ Goes([at |-> backupThread.then]) \/ Goes(Asleep)
    /\ UNCHANGED <<file, newest, kept, restore, restores, wish, wishes, replaced,
                   writes, unheard>>

\* The controller asks Flashback first and takes the wish only when Flashback
\* has answered.
HandsOver(reached) == reached

PollRestores ==
    /\ backupThread.at = "poll"
    /\ \/ /\ wish' = (wish /\ ~HandsOver(TRUE))
          /\ Goes([at |-> "handed", restore |-> Pending, capture |-> wish])
          /\ UNCHANGED troubles
       \/ /\ HadTrouble
          /\ Goes(Asleep)
          /\ wish' = (wish /\ ~HandsOver(FALSE))
    /\ UNCHANGED <<file, newest, kept, stored, restore, restores, wishes, replaced,
                   writes, unheard>>

ThenAsleep == IF backupThread.capture THEN [at |-> "read", then |-> "asleep"] ELSE Asleep

\* The answer arrives, or is lost and the wish with it: the next scheduled
\* capture has to cover that one.
Receive ==
    /\ backupThread.at = "handed"
    /\ \/ /\ Goes(IF backupThread.restore THEN [at |-> "fetch", capture |-> backupThread.capture]
                                  ELSE ThenAsleep)
          /\ UNCHANGED troubles
       \/ HadTrouble /\ Goes(Asleep)
    /\ UNCHANGED <<file, newest, kept, stored, restore, restores, wish, wishes,
                   replaced, writes, unheard>>

\* The payload and its digest.  A refused path, or bytes that do not match, are
\* reported as failed; a failed fetch is left for the next poll.
MutRefuse == Goes(ThenAsleep)

Refuse == Goes([at |-> "ack", ok |-> FALSE, capture |-> backupThread.capture])

Fetch ==
    /\ backupThread.at = "fetch"
    /\ \/ /\ restore.allowed
          /\ Goes([at |-> "copy", capture |-> backupThread.capture])
          /\ UNCHANGED troubles
       \/ /\ ~restore.allowed
          /\ Refuse
          /\ UNCHANGED troubles
       \/ /\ HadTrouble
          /\ Refuse \/ Goes(ThenAsleep)
    /\ UNCHANGED <<file, newest, kept, stored, restore, restores, wish, wishes,
                   replaced, writes, unheard>>

MutCopied == kept

Copied == kept \cup {file}

\* A copy that fails is a line in the journal; the restore goes on.
Copy ==
    /\ backupThread.at = "copy"
    /\ \/ /\ kept' = Copied
          /\ Goes([at |-> "write", capture |-> backupThread.capture, met |-> file])
          /\ UNCHANGED troubles
       \/ /\ HadTrouble
          /\ Goes([at |-> "write", capture |-> backupThread.capture, met |-> Torn])
          /\ UNCHANGED kept
    /\ UNCHANGED <<file, newest, stored, restore, restores, wish, wishes, replaced,
                   writes, unheard>>

MutWhileWriting == Torn

\* The new content goes to a temporary file beside the old one.
WhileWriting == file

WriteTmp ==
    /\ backupThread.at = "write"
    /\ file' = WhileWriting
    /\ \/ /\ Goes([backupThread EXCEPT !.at = "replace"])
          /\ UNCHANGED troubles
       \/ /\ HadTrouble
          /\ Goes([at |-> "ack", ok |-> FALSE, capture |-> backupThread.capture])
    /\ UNCHANGED <<newest, kept, stored, restore, restores, wish, wishes, replaced,
                   writes, unheard>>

Replace ==
    /\ backupThread.at = "replace"
    /\ file' = restore.version
    /\ replaced' = IF file = backupThread.met THEN replaced \cup {file} ELSE replaced
    /\ writes' = writes + 1
    /\ Goes([at |-> "ack", ok |-> TRUE, capture |-> backupThread.capture])
    /\ UNCHANGED <<newest, kept, stored, restore, restores, wish, wishes, unheard, troubles>>

MutReport(r) == r

\* What a report makes of the restore at Flashback.
Report(r) == [r EXCEPT !.state = IF backupThread.ok THEN "applied" ELSE "failed"]

Ack ==
    /\ backupThread.at = "ack"
    /\ \/ /\ restore' = Report(restore)
          /\ UNCHANGED <<unheard, troubles>>
       \/ /\ HadTrouble
          /\ unheard' = TRUE
          /\ UNCHANGED restore
    /\ Goes(ThenAsleep)
    /\ UNCHANGED <<file, newest, kept, stored, restores, wish, wishes, replaced, writes>>

\* The agent is killed anywhere; it starts again with an empty loop.
AgentDies ==
    /\ backupThread # Asleep /\ HadTrouble
    /\ Goes(Asleep)
    /\ unheard' = (unheard \/ backupThread.at = "ack")
    /\ UNCHANGED <<file, newest, kept, stored, restore, restores, wish, wishes,
                   replaced, writes>>

ThreadStep ==
    CaptureRound \/ PollRound \/ Read \/ Send \/ PollRestores \/ Receive \/ Fetch
      \/ Copy \/ WriteTmp \/ Replace \/ Ack

BackupNext == EditFile \/ AskCapture \/ QueueRestore \/ ThreadStep \/ AgentDies

\* The thread's loop never ends, and FB_INTERVAL is over again and again.
BackupSpec ==
    /\ BackupInit /\ [][BackupNext]_backupVars
    /\ WF_backupVars(ThreadStep)
    /\ SF_backupVars(CaptureRound)

-----------------------------------------------------------------------------

BackupTypeOK ==
    /\ file \in 0..MaxVersions /\ newest \in 1..MaxVersions
    /\ kept \subseteq 1..newest /\ stored \subseteq 1..newest
    /\ restore.version \in {0} \cup stored
    /\ restore.state \in {"none", "pending", "applied", "failed"}
    /\ backupThread.at \in {"asleep", "read", "send", "poll", "handed", "fetch", "copy",
                      "write", "replace", "ack"}
    /\ replaced \subseteq 1..newest
    /\ restores <= MaxRestores /\ wishes <= MaxWishes /\ troubles <= MaxTroubles

\* "So a reader never sees a half-written config": whenever the agent dies, the
\* file is the old content or the new one.
FileIsWhole == file # Torn

\* "I restored the wrong version needs a way back": a content a restore found
\* and overwrote has a copy on the host, unless the copy itself failed, or
\* the file was edited after it was made (it is not the content met then).
ReplacedIsKept == replaced \subseteq kept

\* A restore is written once.  Only when its report did not reach Flashback is
\* it still queued at the next poll, and written again, over whatever the file
\* has become.
OnceUnlessUnheard == writes > 1 => unheard

\* "A refusal the console never sees leaves the restore pending forever": every
\* restore is reported, applied or failed, in the end.
RestoreIsReported == Pending ~> ~Pending

\* The history has no hole that lasts: a content that stays in the file is at
\* Flashback in the end, whether or not the captures asked for were lost.
EditsAreCaptured ==
    \A v \in 1..MaxVersions : (file = v) ~> (v \in stored \/ file # v)

\* What a restore of a file leaves behind, wherever the agent dies.
BackupIsSound == BackupTypeOK /\ FileIsWhole /\ ReplacedIsKept /\ OnceUnlessUnheard
=============================================================================
