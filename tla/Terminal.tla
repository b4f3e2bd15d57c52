------------------------------ MODULE Terminal ------------------------------
(***************************************************************************)
(* One agent-hosted terminal: the controller keeps a session with a buffer  *)
(* in each direction, the agent runs the shell on a PTY and streams it over *)
(* its outbound connection with two threads, and a viewer reads, types and  *)
(* closes, or dies without closing.  Sessions have ids of their own and do  *)
(* not interact, so one is modelled, from its opening to its end.           *)
(*                                                                         *)
(* Keystrokes and pieces of output are numbered in the order in which they  *)
(* were made.  A resize travels like a keystroke and is not told apart.     *)
(***************************************************************************)
EXTENDS Integers, Sequences

CONSTANTS
    Nothing,    \* no value
    MaxKeys,    \* bound: keystrokes
    MaxChunks,  \* bound: pieces of output the shell writes
    Cap,        \* _PTY_OUT_MAX, in pieces
    IdleAfter,  \* TERMINAL_IDLE_TIMEOUT_S, in ticks
    MaxHitches  \* bound: lost requests and answers, restarts, revocations

Keys   == 1..MaxKeys
Chunks == 1..MaxChunks
(* _PTY's entry: the two buffers, what either side said, and its age.       *)
Sessions == [out : Seq(Chunks), inq : Seq(Keys), closed : BOOLEAN, ended : BOOLEAN,
             idle : 0..IdleAfter+2]

ASSUME TerminalBounds ==
    /\ MaxKeys \in Nat /\ MaxChunks \in Nat /\ MaxHitches \in Nat
    /\ Cap \in Nat \ {0} /\ IdleAfter \in Nat
    /\ Nothing \notin Sessions
    /\ Nothing \notin {"pending", "taken", "alive", "dead", "eof", "reader", "feeder",
                       "refused"}

VARIABLES
    sess,       \* _PTY's entry for the session, or None
    opening,    \* the terminal/open handler: "new", "queue", "done"
    task,       \* the pty_open task: None, "pending", "taken"
    lockedOut,  \* agents.revoked of the host
    shell,      \* None, "alive", "dead"
    tty,        \* output the shell has written and nobody has read
    written,    \* history: pieces of output so far
    reader,     \* the agent's output thread
    feeder,     \* the agent's input thread
    stray,      \* an io request its agent has given up on
    applied,    \* history: the keys that reached the shell
    typed,      \* history: keys so far
    viewer,     \* "reading", "ended" (was told closed), "dead"
    shown,      \* history: what the viewer has read
    endedBy,    \* history: who reported the end first
    hitches     \* bound

bridge == <<shell, tty, reader, feeder>>
hist  == <<written, applied, typed, shown, endedBy>>
terminalVars  == <<sess, opening, task, lockedOut, bridge, stray, viewer, hist, hitches>>

TerminalTypeOK ==
    /\ sess \in {Nothing} \cup Sessions
    /\ sess # Nothing => Len(sess.out) <= Cap /\ Len(sess.inq) <= MaxKeys
    /\ opening \in {"new", "queue", "done"}
    /\ task \in {Nothing, "pending", "taken"}
    /\ lockedOut \in BOOLEAN
    /\ shell \in {Nothing, "alive", "dead"}
    /\ tty \in Seq(Chunks) /\ written \in 0..MaxChunks
    /\ reader \in [pc : {"off", "read", "post", "end"}, data : Seq(Chunks), stop : BOOLEAN]
    /\ feeder \in [pc : {"off", "check", "poll", "feed", "kill", "end"},
                   msgs : Seq(Keys), closed : BOOLEAN]
    /\ stray \in BOOLEAN
    /\ applied \in Seq(Keys) /\ typed \in 0..MaxKeys
    /\ viewer \in {"reading", "ended", "dead"}
    /\ shown \in Seq(Chunks)
    /\ endedBy \in {Nothing, "eof", "reader", "feeder", "refused"}
    /\ hitches \in 0..MaxHitches

TerminalInit ==
    /\ sess = Nothing /\ opening = "new" /\ task = Nothing /\ lockedOut = FALSE
    /\ shell = Nothing /\ tty = <<>> /\ written = 0
    /\ reader = [pc |-> "off", data |-> <<>>, stop |-> FALSE]
    /\ feeder = [pc |-> "off", msgs |-> <<>>, closed |-> FALSE]
    /\ stray = FALSE
    /\ applied = <<>> /\ typed = 0
    /\ viewer = "reading" /\ shown = <<>> /\ endedBy = Nothing
    /\ hitches = 0

Hitch == hitches < MaxHitches /\ hitches' = hitches + 1
(* A session is never dropped between these two: the uuid is minted once.   *)
Gone   == sess = Nothing /\ opening # "new"
Closed == sess = Nothing \/ sess.closed

-----------------------------------------------------------------------------
(* The controller's session table; each step holds _PTY_LOCK.               *)

NewSession == [out |-> <<>>, inq |-> <<>>, closed |-> FALSE, ended |-> FALSE, idle |-> 0]

(* open_terminal: the session is there before the task that leads to it.    *)
OpenCreate ==
    /\ opening = "new"
    /\ sess' = NewSession
    /\ opening' = "queue"
    /\ UNCHANGED <<task, lockedOut, bridge, stray, viewer, hist, hitches>>

(* queue_task, and pty_note_task; the queue itself is TaskQueue.            *)
OpenQueue ==
    /\ opening = "queue"
    /\ task' = "pending"
    /\ opening' = "done"
    /\ UNCHANGED <<sess, lockedOut, bridge, stray, viewer, hist, hitches>>

(* pty_push_output: the newest bytes up to the cap are kept.                *)
Pushed(out, data) ==
    LET all == out \o data
    IN  IF Len(all) > Cap THEN SubSeq(all, Len(all) - Cap + 1, Len(all)) ELSE all

(* The agent's POST is handled: what the session becomes, and the answer.   *)
Push(data, ended) ==
    IF lockedOut \/ sess = Nothing THEN sess
    ELSE [sess EXCEPT !.out = Pushed(@, data), !.ended = @ \/ ended, !.idle = 0]

(* What both requests tell the agent: a 403 reads as not closed.            *)
(* Mutants: an error reads as closed; a dropped session is not reported.    *)
MutSaysClosed == lockedOut \/ Closed
MutSaysOpen   == ~lockedOut /\ sess # Nothing /\ sess.closed
SaysClosed    == ~lockedOut /\ Closed

(* pty_queue_input.                                                         *)
Type ==
    /\ viewer = "reading" /\ sess # Nothing /\ typed < MaxKeys
    /\ typed' = typed + 1
    /\ sess' = [sess EXCEPT !.inq = Append(@, typed + 1), !.idle = 0]
    /\ UNCHANGED <<opening, task, lockedOut, bridge, stray, viewer, written, applied,
                   shown, endedBy, hitches>>

CloseTerminal ==
    /\ viewer = "reading" /\ sess # Nothing
    /\ sess' = [sess EXCEPT !.closed = TRUE, !.idle = 0]
    /\ viewer' = "ended"
    /\ UNCHANGED <<opening, task, lockedOut, bridge, stray, hist, hitches>>

(* Mutant: the end is decided before the buffer is drained.                 *)
MutReadSession == IF sess.ended THEN <<>> ELSE sess.out
(* read_terminal: drain; closed once the shell ended or the session did.    *)
ReadSession == sess.out
ReadTerminal ==
    /\ viewer = "reading" /\ opening = "done"
    /\ \/ /\ sess = Nothing
          /\ viewer' = "ended"
          /\ UNCHANGED <<sess, shown>>
       \/ /\ sess # Nothing
          /\ shown' = shown \o ReadSession
          /\ sess' = [sess EXCEPT !.out = <<>>, !.idle = 0]
          /\ viewer' = IF sess.closed \/ sess.ended THEN "ended" ELSE "reading"
    /\ UNCHANGED <<opening, task, lockedOut, bridge, stray, written, applied, typed,
                   endedBy, hitches>>

ViewerDies ==
    /\ viewer = "reading"
    /\ viewer' = "dead"
    /\ UNCHANGED <<sess, opening, task, lockedOut, bridge, stray, hist, hitches>>

(* _reap_pty_sessions: close what has ended or is idle, drop it a while     *)
(* later.  One tick of grace stands for the 30 seconds.  Mutant: only what  *)
(* has ended.                                                               *)
MutReapable == sess.ended
Reapable == sess.ended \/ sess.idle > IdleAfter
Dropped  == (sess.ended /\ sess.idle > 1) \/ sess.idle > IdleAfter + 1
Reap ==
    /\ sess # Nothing
    /\ Reapable
    /\ sess' = IF Dropped THEN Nothing ELSE [sess EXCEPT !.closed = TRUE]
    /\ UNCHANGED <<opening, task, lockedOut, bridge, stray, viewer, hist, hitches>>

ControllerRestart ==
    /\ Hitch
    /\ sess' = Nothing
    /\ stray' = FALSE
    /\ opening' = "done"
    /\ UNCHANGED <<task, lockedOut, bridge, viewer, hist>>

RevokeHost ==
    /\ Hitch
    /\ ~lockedOut
    /\ lockedOut' = TRUE
    /\ UNCHANGED <<sess, opening, task, bridge, stray, viewer, hist>>

Reinstate ==
    /\ lockedOut
    /\ lockedOut' = FALSE
    /\ UNCHANGED <<sess, opening, task, bridge, stray, viewer, hist, hitches>>

-----------------------------------------------------------------------------
(* The shell and the two threads of _pty_bridge.                            *)

(* _start_pty_session.  An account that does not exist on the host, or a    *)
(* PTY that cannot be allocated: one line of output and the end, no shell.  *)
StartBridge ==
    /\ task = "pending" /\ ~lockedOut
    /\ task' = "taken"
    /\ \/ /\ shell' = "alive"
          /\ reader' = [reader EXCEPT !.pc = "read"]
          /\ feeder' = [feeder EXCEPT !.pc = "check"]
          /\ UNCHANGED <<sess, endedBy>>
       \/ /\ sess' = Push(<<>>, TRUE)
          /\ endedBy' = "refused"
          /\ UNCHANGED <<shell, reader, feeder>>
    /\ UNCHANGED <<opening, lockedOut, tty, stray, viewer, written, applied, typed,
                   shown, hitches>>

ShellWrites ==
    /\ shell = "alive" /\ written < MaxChunks
    /\ written' = written + 1
    /\ tty' = Append(tty, written + 1)
    /\ UNCHANGED <<sess, opening, task, lockedOut, shell, reader, feeder, stray, viewer,
                   applied, typed, shown, endedBy, hitches>>

ShellExits ==
    /\ shell = "alive"
    /\ shell' = "dead"
    /\ UNCHANGED <<sess, opening, task, lockedOut, tty, reader, feeder, stray, viewer,
                   hist, hitches>>

(* out_loop: read what is there; leave when told to stop or at end of file. *)
ReaderReads ==
    /\ reader.pc = "read"
    /\ reader' =
         IF reader.stop THEN [reader EXCEPT !.pc = "end"]
         ELSE IF tty # <<>> THEN [reader EXCEPT !.pc = "post", !.data = tty]
         ELSE IF shell = "dead" THEN [reader EXCEPT !.pc = "end"]
         ELSE reader
    /\ tty' = IF reader.stop THEN tty ELSE <<>>
    /\ UNCHANGED <<sess, opening, task, lockedOut, shell, feeder, stray, viewer, hist,
                   hitches>>

(* _pty_post_output: handled and answered; lost on the way (every candidate *)
(* failed: the piece is dropped); or handled, its answer lost, and sent     *)
(* again to the next candidate.                                             *)
ReaderPosts ==
    /\ reader.pc = "post"
    /\ \/ /\ sess' = Push(reader.data, FALSE)
          /\ reader' = [pc |-> "read", data |-> <<>>, stop |-> reader.stop \/ SaysClosed]
          /\ UNCHANGED hitches
       \/ /\ Hitch
          /\ UNCHANGED sess
          /\ reader' = [reader EXCEPT !.pc = "read", !.data = <<>>]
       \/ /\ Hitch
          /\ sess' = Push(reader.data, FALSE)
          /\ UNCHANGED reader
    /\ UNCHANGED <<opening, task, lockedOut, shell, tty, feeder, stray, viewer, hist>>

EndedBy(who) == IF endedBy = Nothing THEN who ELSE endedBy
ReaderEnds ==
    /\ reader.pc = "end"
    /\ \/ /\ sess' = Push(<<>>, TRUE)
          /\ endedBy' = EndedBy(IF reader.stop THEN "reader" ELSE "eof")
          /\ UNCHANGED hitches
       \/ UNCHANGED <<sess, endedBy>> /\ Hitch
    /\ reader' = [pc |-> "off", data |-> <<>>, stop |-> TRUE]
    /\ UNCHANGED <<opening, task, lockedOut, shell, tty, feeder, stray, viewer, written,
                   applied, typed, shown>>

(* The input loop notices a shell that has exited between two polls only.   *)
FeederChecks ==
    /\ feeder.pc = "check"
    /\ feeder' = [feeder EXCEPT !.pc = IF reader.stop \/ shell = "dead" THEN "kill"
                                       ELSE "poll"]
    /\ UNCHANGED <<sess, opening, task, lockedOut, shell, tty, reader, stray, viewer,
                   hist, hitches>>

(* pty_take_input: the queue is emptied into the answer.  The wait ends     *)
(* without anything as well; a 403 reads as no messages and not closed.     *)
Taken == IF sess = Nothing \/ lockedOut THEN <<>> ELSE sess.inq
(* Mutant: the messages are read and left in the queue.                     *)
MutEmptied == sess
Emptied == IF sess = Nothing \/ lockedOut THEN sess ELSE [sess EXCEPT !.inq = <<>>]
FeederPolls ==
    /\ feeder.pc = "poll"
    /\ \/ /\ feeder' = [pc |-> "feed", msgs |-> Taken, closed |-> SaysClosed]
          /\ sess' = Emptied
          /\ UNCHANGED <<stray, hitches>>
       \/ /\ Hitch                             \* the answer is lost
          /\ feeder' = [feeder EXCEPT !.pc = "check"]
          /\ sess' = Emptied
          /\ UNCHANGED stray
       \/ /\ Hitch                             \* given up on, still waiting
          /\ stray' = TRUE
          /\ feeder' = [feeder EXCEPT !.pc = "check"]
          /\ UNCHANGED sess
    /\ UNCHANGED <<opening, task, lockedOut, shell, tty, reader, viewer, hist>>

(* The abandoned long poll is answered first: nobody reads its answer.      *)
StrayTakes ==
    /\ stray
    /\ stray' = FALSE
    /\ sess' = Emptied
    /\ UNCHANGED <<opening, task, lockedOut, bridge, viewer, hist, hitches>>

StrayExpires ==
    /\ stray
    /\ stray' = FALSE
    /\ UNCHANGED <<sess, opening, task, lockedOut, bridge, viewer, hist, hitches>>

(* A closed session's messages are not fed any more.                        *)
FeederFeeds ==
    /\ feeder.pc = "feed"
    /\ IF feeder.closed
       THEN /\ feeder' = [pc |-> "kill", msgs |-> <<>>, closed |-> TRUE]
            /\ UNCHANGED <<applied, reader>>
       ELSE /\ applied' = IF shell = "alive" THEN applied \o feeder.msgs ELSE applied
            /\ \/ UNCHANGED reader
               \/ /\ shell = "dead" /\ feeder.msgs # <<>>      \* OSError
                  /\ reader' = [reader EXCEPT !.stop = TRUE]
            /\ feeder' = [pc |-> "check", msgs |-> <<>>, closed |-> FALSE]
    /\ UNCHANGED <<sess, opening, task, lockedOut, shell, tty, stray, viewer, written,
                   typed, shown, endedBy, hitches>>

FeederKills ==
    /\ feeder.pc = "kill"
    /\ shell' = "dead"
    /\ tty' = <<>>                             \* os.close(master)
    /\ reader' = [reader EXCEPT !.stop = TRUE]
    /\ feeder' = [feeder EXCEPT !.pc = "end"]
    /\ UNCHANGED <<sess, opening, task, lockedOut, stray, viewer, hist, hitches>>

FeederEnds ==
    /\ feeder.pc = "end"
    /\ \/ sess' = Push(<<>>, TRUE) /\ endedBy' = EndedBy("feeder") /\ UNCHANGED hitches
       \/ UNCHANGED <<sess, endedBy>> /\ Hitch
    /\ feeder' = [feeder EXCEPT !.pc = "off"]
    /\ UNCHANGED <<opening, task, lockedOut, shell, tty, reader, stray, viewer, written,
                   applied, typed, shown>>

(* The agent's process ends: the PTY goes, and the shell with it.           *)
AgentStops ==
    /\ Hitch
    /\ task = "taken" /\ shell = "alive"
    /\ shell' = "dead" /\ tty' = <<>>
    /\ reader' = [pc |-> "off", data |-> <<>>, stop |-> TRUE]
    /\ feeder' = [pc |-> "off", msgs |-> <<>>, closed |-> FALSE]
    /\ UNCHANGED <<sess, opening, task, lockedOut, stray, viewer, hist>>

SecondsPass ==
    /\ sess # Nothing
    /\ sess' = [sess EXCEPT !.idle = IF @ < IdleAfter + 2 THEN @ + 1 ELSE @]
    /\ UNCHANGED <<opening, task, lockedOut, bridge, stray, viewer, hist, hitches>>

-----------------------------------------------------------------------------
Reader == ReaderReads \/ ReaderPosts \/ ReaderEnds
Feeder == FeederChecks \/ FeederPolls \/ FeederFeeds \/ FeederKills \/ FeederEnds
TerminalNext ==
    \/ OpenCreate \/ OpenQueue \/ Type \/ CloseTerminal \/ ReadTerminal \/ ViewerDies
    \/ Reap \/ ControllerRestart \/ RevokeHost \/ Reinstate
    \/ StartBridge \/ ShellWrites \/ ShellExits \/ Reader \/ Feeder
    \/ StrayTakes \/ StrayExpires \/ AgentStops \/ SecondsPass

(* The handlers, the reaper's timer and the agent's threads go on; a viewer *)
(* that is alive goes on reading.                                           *)
TerminalFairness ==
    /\ WF_terminalVars(OpenQueue) /\ WF_terminalVars(StartBridge) /\ WF_terminalVars(ReadTerminal)
    /\ WF_terminalVars(Reap) /\ WF_terminalVars(SecondsPass)
    /\ WF_terminalVars(Reader) /\ WF_terminalVars(Feeder)

TerminalSpec     == TerminalInit /\ [][TerminalNext]_terminalVars
FairTerminalSpec == TerminalSpec /\ TerminalFairness

-----------------------------------------------------------------------------
Increasing(s) == \A i \in 1..Len(s) - 1 : s[i] < s[i + 1]
Upto(n)       == [i \in 1..n |-> i]
Buffered      == IF sess = Nothing THEN <<>> ELSE sess.inq

(* Keys reach the shell at most once and in the order they were typed,      *)
(* whatever requests are lost, repeated or overtaken; and as long as no     *)
(* request was lost and the session is open, every key has either reached   *)
(* the shell or is on its way.                                              *)
KeysInOrder ==
    /\ Increasing(applied \o feeder.msgs \o Buffered)
    /\ hitches = 0 /\ ~Closed /\ shell # "dead" =>
          applied \o feeder.msgs \o Buffered = Upto(typed)

(* The end is told after everything: while nothing is lost and the cap is   *)
(* not reached, a viewer that is told that the shell ended has seen all of  *)
(* its output in order, if the output thread got to its end of file and the *)
(* input thread did not notice the exit first.                              *)
OutputComplete ==
    /\ hitches = 0 /\ MaxChunks <= Cap => Increasing(shown)
    /\ /\ hitches = 0 /\ MaxChunks <= Cap
       /\ viewer = "ended" /\ endedBy = "eof" /\ ~Closed
       => shown = Upto(written)

(* A shell that runs is killed only when its session is closed or gone: not *)
(* by a revoked host's 403, an empty poll or a lost answer, and not because *)
(* the agent was faster than the controller.                                *)
KilledForAReason ==
    feeder.pc = "kill" => Closed \/ shell = "dead"

(* A shell whose session was closed or is gone does not outlive it, if the  *)
(* agent may still talk to the controller.                                  *)
OrphanShellDies ==
    <>[](~lockedOut) => (Gone \/ (sess # Nothing /\ sess.closed) ~> shell # "alive")

(* A session whose viewer died is dropped in the end, shell and all, unless *)
(* its shell goes on writing (here: writes at most MaxChunks pieces).       *)
AbandonedIsReaped ==
    <>[](~lockedOut) => (viewer = "dead" ~> sess = Nothing /\ shell # "alive")

(* What goes through the relay between a viewer and a shell, and what stops *)
(* the shell.                                                               *)
StreamsAreWhole == TerminalTypeOK /\ KeysInOrder /\ OutputComplete /\ KilledForAReason
=============================================================================
