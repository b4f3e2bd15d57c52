------------------------- MODULE HostChannelProofs -------------------------
(***************************************************************************)
(* Proofs about the channels between the controller and a host.            *)
(*                                                                         *)
(* Terminal: for any number of keystrokes, pieces of output and mishaps,    *)
(* any buffer and any time limit.  A stream is a history that is split over *)
(* the places it passes through, and each step moves the front of one place *)
(* to the end of the next or loses it; the invariant says that the places,  *)
(* read in order, rise, and that they are everything while nothing is lost. *)
(*                                                                         *)
(* RestorePoint and ConfigBackup: for any files, jobs, versions and faults. *)
(* What the apply, or a restore of a file, may rely on was made good by the *)
(* steps before it, and the invariant says by each step what that is.       *)
(*                                                                         *)
(* Integrity: for any threads, window, grace, cooldown and faults.  While   *)
(* nothing has gone wrong, an update on its way has its window open, or the *)
(* handler that queued it is about to open it.                              *)
(***************************************************************************)
EXTENDS MCHostChannels, SequenceTheorems, TLAPS

-----------------------------------------------------------------------------
(* Sequences that rise, and places of one stream.                           *)

Rising(s)   == \A i, j \in 1..Len(s) : i < j => s[i] < s[j]
Below(s, t) == \A i \in 1..Len(s), j \in 1..Len(t) : s[i] < t[j]
AtMost(s, n) == \A i \in 1..Len(s) : s[i] <= n

(* A stream in three places, of which n pieces have been made.              *)
Stream(s, t, u, n) ==
    /\ Rising(s) /\ Rising(t) /\ Rising(u)
    /\ Below(s, t) /\ Below(s, u) /\ Below(t, u)
    /\ AtMost(s, n) /\ AtMost(t, n) /\ AtMost(u, n)
    /\ Len(s) + Len(t) + Len(u) <= n

LEMMA RisingIncreases ==
    ASSUME NEW s \in Seq(Nat), Rising(s)
    PROVE  Increasing(s)
  BY DEF Rising, Increasing

LEMMA ConcatAt ==
    ASSUME NEW s \in Seq(Nat), NEW t \in Seq(Nat)
    PROVE  /\ s \o t \in Seq(Nat) /\ Len(s \o t) = Len(s) + Len(t)
           /\ Len(s) \in Nat /\ Len(t) \in Nat
           /\ \A i \in 1..Len(s \o t) :
                 \/ i \in 1..Len(s) /\ (s \o t)[i] = s[i]
                 \/ /\ i > Len(s) /\ i - Len(s) \in 1..Len(t)
                    /\ (s \o t)[i] = t[i - Len(s)]
           /\ \A i \in 1..Len(s) : i \in 1..Len(s \o t) /\ (s \o t)[i] = s[i]
  OBVIOUS

LEMMA RisingConcat ==
    ASSUME NEW s \in Seq(Nat), NEW t \in Seq(Nat), Rising(s), Rising(t), Below(s, t)
    PROVE  Rising(s \o t)
<1> DEFINE w == s \o t
<1> SUFFICES ASSUME NEW i \in 1..Len(w), NEW j \in 1..Len(w), i < j PROVE w[i] < w[j]
  BY DEF Rising
<1>1. \A k \in 1..Len(w) : \/ k \in 1..Len(s) /\ w[k] = s[k]
                           \/ k > Len(s) /\ k - Len(s) \in 1..Len(t) /\ w[k] = t[k - Len(s)]
  BY ConcatAt
<1>2. Len(s) \in Nat /\ Len(t) \in Nat /\ Len(w) = Len(s) + Len(t)
  BY ConcatAt
<1> HIDE DEF w
<1>3. CASE j \in 1..Len(s) /\ w[j] = s[j]
  <2>1. i \in 1..Len(s)
    BY <1>2, <1>3
  <2>2. w[i] = s[i]
    BY <1>1, <1>2, <2>1
  <2> QED
    BY <1>3, <2>1, <2>2 DEF Rising
<1>4. CASE j > Len(s) /\ j - Len(s) \in 1..Len(t) /\ w[j] = t[j - Len(s)]
  <2>1. CASE i \in 1..Len(s) /\ w[i] = s[i]
    BY <1>4, <2>1 DEF Below
  <2>2. CASE i > Len(s) /\ i - Len(s) \in 1..Len(t) /\ w[i] = t[i - Len(s)]
    <3>1. i - Len(s) < j - Len(s)
      BY <1>2
    <3> QED
      BY <1>4, <2>2, <3>1 DEF Rising
  <2> QED
    BY <1>1, <2>1, <2>2
<1> QED
  BY <1>1, <1>3, <1>4

LEMMA RisingStart ==
    ASSUME NEW s \in Seq(Nat), NEW t \in Seq(Nat), Rising(s \o t)
    PROVE  Rising(s)
  BY ConcatAt DEF Rising

LEMMA BelowConcat ==
    ASSUME NEW s \in Seq(Nat), NEW t \in Seq(Nat), NEW u \in Seq(Nat), NEW n \in Nat
    PROVE  /\ Below(s, u) /\ Below(t, u) => Below(s \o t, u)
           /\ Below(s, t) /\ Below(s, u) => Below(s, t \o u)
           /\ AtMost(s, n) /\ AtMost(t, n) => AtMost(s \o t, n)
<1>1. Below(s, u) /\ Below(t, u) => Below(s \o t, u)
  <2>1. \A i \in 1..Len(s \o t) : \/ i \in 1..Len(s) /\ (s \o t)[i] = s[i]
                                  \/ i - Len(s) \in 1..Len(t) /\ (s \o t)[i] = t[i - Len(s)]
    BY ConcatAt
  <2> QED
    BY <2>1 DEF Below
<1>2. Below(s, t) /\ Below(s, u) => Below(s, t \o u)
  <2>1. \A i \in 1..Len(t \o u) : \/ i \in 1..Len(t) /\ (t \o u)[i] = t[i]
                                  \/ i - Len(t) \in 1..Len(u) /\ (t \o u)[i] = u[i - Len(t)]
    BY ConcatAt
  <2> QED
    BY <2>1 DEF Below
<1>3. AtMost(s, n) /\ AtMost(t, n) => AtMost(s \o t, n)
  <2>1. \A i \in 1..Len(s \o t) : \/ i \in 1..Len(s) /\ (s \o t)[i] = s[i]
                                  \/ i - Len(s) \in 1..Len(t) /\ (s \o t)[i] = t[i - Len(s)]
    BY ConcatAt
  <2> QED
    BY <2>1 DEF AtMost
<1> QED
  BY <1>1, <1>2, <1>3

LEMMA Empty == /\ <<>> \in Seq(Nat) /\ Len(<<>>) = 0
               /\ Rising(<<>>) /\ \A n : AtMost(<<>>, n)
               /\ \A s : Below(s, <<>>) /\ Below(<<>>, s)
  BY DEF Rising, AtMost, Below

(* What a step may do to a stream: the front goes on, a place is lost, a    *)
(* piece is made.                                                           *)
LEMMA StreamMoves ==
    ASSUME NEW s \in Seq(Nat), NEW t \in Seq(Nat), NEW u \in Seq(Nat), NEW n \in Nat,
           Stream(s, t, u, n)
    PROVE  /\ Stream(s \o t, <<>>, u, n)
           /\ Stream(s, t \o u, <<>>, n)
           /\ Stream(s, <<>>, u, n) /\ Stream(s, t, <<>>, n) /\ Stream(s, <<>>, <<>>, n)
           /\ Stream(s, t, Append(u, n + 1), n + 1)
           /\ Rising(s \o t \o u)
<1>1. Stream(s \o t, <<>>, u, n)
  <2>1. Rising(s \o t) /\ Below(s \o t, u) /\ AtMost(s \o t, n)
    BY RisingConcat, BelowConcat DEF Stream
  <2> QED
    BY <2>1, ConcatAt, Empty DEF Stream
<1>2. Stream(s, t \o u, <<>>, n)
  <2>1. Rising(t \o u) /\ Below(s, t \o u) /\ AtMost(t \o u, n)
    BY RisingConcat, BelowConcat DEF Stream
  <2> QED
    BY <2>1, ConcatAt, Empty DEF Stream
<1>3. Stream(s, <<>>, u, n) /\ Stream(s, t, <<>>, n) /\ Stream(s, <<>>, <<>>, n)
  BY Empty DEF Stream
<1>4. Stream(s, t, Append(u, n + 1), n + 1)
  <2> DEFINE v == Append(u, n + 1)
  <2>1. /\ v \in Seq(Nat) /\ Len(v) = Len(u) + 1 /\ v[Len(u) + 1] = n + 1
        /\ \A i \in 1..Len(u) : v[i] = u[i]
    OBVIOUS
  <2>2. /\ \A i \in 1..Len(s) : s[i] \in Nat /\ s[i] < n + 1
        /\ \A i \in 1..Len(t) : t[i] \in Nat /\ t[i] < n + 1
        /\ \A i \in 1..Len(u) : u[i] \in Nat /\ u[i] < n + 1
    <3>1. ASSUME NEW x \in Seq(Nat), AtMost(x, n), NEW i \in 1..Len(x)
          PROVE  x[i] \in Nat /\ x[i] < n + 1
      <4>1. x[i] \in Nat /\ x[i] <= n
        BY <3>1 DEF AtMost
      <4> QED
        BY <4>1
    <3> QED
      BY <3>1 DEF Stream
  <2>l. Len(s) \in Nat /\ Len(t) \in Nat /\ Len(u) \in Nat
    OBVIOUS
  <2>3. \A i \in 1..Len(v) : \/ i \in 1..Len(u) /\ v[i] = u[i]
                             \/ i = Len(u) + 1 /\ v[i] = n + 1
    BY <2>1, <2>l
  <2> HIDE DEF v
  <2>4. Rising(v)
    <3> SUFFICES ASSUME NEW i \in 1..Len(v), NEW j \in 1..Len(v), i < j PROVE v[i] < v[j]
      BY DEF Rising
    <3>1. i \in 1..Len(u) /\ v[i] = u[i]
      BY <2>1, <2>3, <2>l
    <3>2. CASE j \in 1..Len(u) /\ v[j] = u[j]
      BY <3>1, <3>2 DEF Stream, Rising
    <3>3. CASE v[j] = n + 1
      BY <2>2, <3>1, <3>3
    <3> QED
      BY <2>3, <3>2, <3>3
  <2>5. AtMost(v, n + 1) /\ AtMost(s, n + 1) /\ AtMost(t, n + 1)
    <3>1. ASSUME NEW i \in 1..Len(v) PROVE v[i] <= n + 1
      <4>1. CASE v[i] = n + 1
        BY <4>1
      <4>2. CASE i \in 1..Len(u) /\ v[i] = u[i]
        BY <2>2, <4>2
      <4> QED
        BY <2>3, <4>1, <4>2
    <3>2. /\ \A i \in 1..Len(s) : s[i] \in Nat /\ s[i] <= n + 1
          /\ \A i \in 1..Len(t) : t[i] \in Nat /\ t[i] <= n + 1
      BY <2>2
    <3> QED
      BY <3>1, <3>2 DEF AtMost
  <2>6. Below(s, v)
    BY <2>2, <2>3 DEF Stream, Below
  <2>7. Below(t, v)
    BY <2>2, <2>3 DEF Stream, Below
  <2>8. Len(s) + Len(t) + Len(v) <= n + 1
    BY <2>1, <2>l DEF Stream
  <2>9. Stream(s, t, v, n + 1)
    BY <2>4, <2>5, <2>6, <2>7, <2>8 DEF Stream
  <2> QED
    BY <2>9 DEF v
<1>5. Rising(s \o t \o u)
  BY RisingConcat, BelowConcat, ConcatAt DEF Stream
<1> QED
  BY <1>1, <1>2, <1>3, <1>4, <1>5

(* A stream of which everything is there.                                   *)
LEMMA OneMore ==
    ASSUME NEW n \in Nat
    PROVE  /\ Append(Upto(n), n + 1) = Upto(n + 1)
           /\ Upto(n) \in Seq(Nat) /\ Len(Upto(n)) = n /\ Upto(0) = <<>>
  BY DEF Upto

LEMMA AppendAfter ==
    ASSUME NEW s \in Seq(Nat), NEW t \in Seq(Nat), NEW n \in Nat
    PROVE  s \o Append(t, n + 1) = Append(s \o t, n + 1)
<1>1. Append(t, n + 1) = t \o <<n + 1>> /\ <<n + 1>> \in Seq(Nat) /\ n + 1 \in Nat
  BY AppendIsConcat
<1>2. Append(s \o t, n + 1) = (s \o t) \o <<n + 1>>
  BY <1>1, AppendIsConcat, ConcatProperties
<1> QED
  BY <1>1, <1>2, ConcatAssociative

LEMMA StreamFront ==
    ASSUME NEW s \in Seq(Nat), NEW t \in Seq(Nat), NEW u \in Seq(Nat), NEW v \in Seq(Nat),
           NEW n \in Nat, Stream(s \o v, t, u, n)
    PROVE  Stream(s, t, u, n)
<1>1. Rising(s)
  BY RisingStart DEF Stream
<1>2. Below(s, t) /\ Below(s, u) /\ AtMost(s, n)
  BY ConcatAt DEF Stream, Below, AtMost
<1>3. Len(s) + Len(t) + Len(u) <= n
  BY ConcatAt DEF Stream
<1> QED
  BY <1>1, <1>2, <1>3 DEF Stream

-----------------------------------------------------------------------------
(* The terminal.                                                            *)

Outgoing == IF sess = Nothing THEN <<>> ELSE sess.out
Halted   == (Closed /\ opening # "new") \/ shell = "dead"
Started  == task = "taken"

(* Who has started whom, and what an end is the sign of.                    *)
Control ==
    /\ opening = "new" => typed = 0 /\ sess = Nothing /\ viewer # "ended"
    /\ task # Nothing => opening = "done"
    /\ ~Started => /\ shell = Nothing /\ tty = <<>> /\ written = 0 /\ ~reader.stop
                   /\ applied = <<>> /\ shown = <<>> /\ Outgoing = <<>> /\ endedBy = Nothing
    /\ shell = Nothing => reader.pc = "off" /\ feeder.pc = "off"
    /\ feeder.pc # "feed" => feeder.msgs = <<>>
    /\ reader.pc # "post" => reader.data = <<>>
    /\ reader.stop \/ reader.pc = "end" \/ feeder.pc \in {"kill", "end"} \/ feeder.closed => Halted
    /\ reader.pc = "end" /\ ~reader.stop => shell = "dead" /\ tty = <<>>
    /\ stray \/ lockedOut => hitches # 0

KeyStream ==
    /\ Stream(applied, feeder.msgs, Buffered, typed)
    /\ hitches = 0 /\ ~Closed /\ shell # "dead" =>
          applied \o feeder.msgs \o Buffered = Upto(typed)

Unharmed == hitches = 0 /\ MaxChunks <= Cap
OutStream ==
    /\ Unharmed => Stream(shown \o Outgoing, reader.data, tty, written)
    /\ Unharmed /\ ~Closed /\ ~reader.stop =>
          shown \o Outgoing \o reader.data \o tty = Upto(written)

(* What the viewer is told at the end.                                      *)
Ending ==
    /\ sess # Nothing /\ sess.ended => endedBy # Nothing
    /\ viewer = "ended" /\ ~Closed => sess.ended
    /\ Unharmed /\ ~Closed /\ endedBy = "eof" =>
          /\ shown \o Outgoing = Upto(written) /\ reader.pc = "off" /\ shell = "dead"
          /\ viewer = "ended" => Outgoing = <<>>

TerminalInv == TerminalTypeOK /\ Control /\ KeyStream /\ OutStream /\ Ending


LEMMA PlacesAreSequences ==
    ASSUME TerminalTypeOK
    PROVE  /\ applied \in Seq(Nat) /\ feeder.msgs \in Seq(Nat) /\ Buffered \in Seq(Nat)
           /\ shown \in Seq(Nat) /\ Outgoing \in Seq(Nat) /\ reader.data \in Seq(Nat)
           /\ tty \in Seq(Nat) /\ written \in Nat /\ typed \in Nat
<1>1. /\ applied \in Seq(Keys) /\ feeder.msgs \in Seq(Keys) /\ Buffered \in Seq(Keys)
      /\ shown \in Seq(Chunks) /\ Outgoing \in Seq(Chunks) /\ reader.data \in Seq(Chunks)
      /\ tty \in Seq(Chunks) /\ written \in Nat /\ typed \in Nat
  BY TerminalBounds DEF TerminalTypeOK, Sessions, Buffered, Outgoing
<1>2. /\ \A s \in Seq(Keys) : s \in Seq(Nat)
      /\ \A s \in Seq(Chunks) : s \in Seq(Nat)
  BY TerminalBounds DEF Keys, Chunks
<1> QED
  BY <1>1, <1>2

(* pty_push_output keeps the newest pieces, and all while the cap allows.   *)
LEMMA PushedPieces ==
    ASSUME NEW out \in Seq(Chunks), NEW data \in Seq(Chunks)
    PROVE  /\ Pushed(out, data) \in Seq(Chunks) /\ Len(Pushed(out, data)) <= Cap
           /\ Len(out) + Len(data) <= Cap => Pushed(out, data) = out \o data
<1> DEFINE all == out \o data
<1>1. all \in Seq(Chunks) /\ Len(all) = Len(out) + Len(data) /\ Len(all) \in Nat
  OBVIOUS
<1> HIDE DEF all
<1>2. CASE Len(all) <= Cap
  BY <1>1, <1>2, TerminalBounds DEF Pushed, all
<1>3. CASE Len(all) > Cap
  <2>1. /\ SubSeq(all, Len(all) - Cap + 1, Len(all)) \in Seq(Chunks)
        /\ Len(SubSeq(all, Len(all) - Cap + 1, Len(all))) = Cap
    BY <1>1, <1>3, TerminalBounds
  <2> QED
    BY <1>1, <1>3, <2>1, TerminalBounds DEF Pushed, all
<1> QED
  BY <1>1, <1>2, <1>3, TerminalBounds

LEMMA SessionIsSomething == Nothing \notin Sessions
  BY TerminalBounds

(* What a handled POST of output changes in the session.                    *)
LEMMA PushedSession ==
    ASSUME TerminalTypeOK, NEW data \in Seq(Chunks), NEW over \in BOOLEAN,
           sess' = Push(data, over)
    PROVE  /\ sess' \in {Nothing} \cup Sessions
           /\ sess' = Nothing <=> sess = Nothing
           /\ sess # Nothing => Len(sess'.out) <= Cap /\ sess'.inq = sess.inq
           /\ Buffered' = Buffered /\ Closed' = Closed
           /\ sess # Nothing => sess'.ended = (sess.ended \/ (over /\ ~lockedOut))
           /\ Outgoing' = IF lockedOut \/ sess = Nothing THEN Outgoing
                          ELSE Pushed(Outgoing, data)
<1>1. CASE lockedOut \/ sess = Nothing
  <2>1. sess' = sess
    BY <1>1 DEF Push
  <2>2. /\ sess \in {Nothing} \cup Sessions
        /\ sess # Nothing => sess.ended \in BOOLEAN /\ Len(sess.out) <= Cap
        /\ lockedOut \in BOOLEAN
    BY DEF TerminalTypeOK, Sessions
  <2> QED
    BY <1>1, <2>1, <2>2 DEF Buffered, Closed, Outgoing
<1>2. CASE ~lockedOut /\ sess # Nothing
  <2> DEFINE out == Pushed(sess.out, data)
  <2>1. sess \in Sessions /\ sess.out \in Seq(Chunks)
    BY <1>2 DEF TerminalTypeOK, Sessions
  <2>2. out \in Seq(Chunks) /\ Len(out) <= Cap
    BY <2>1, PushedPieces
  <2>3. sess' = [sess EXCEPT !.out = out, !.ended = @ \/ over, !.idle = 0]
    BY <1>2 DEF Push
  <2> HIDE DEF out
  <2>4. 0 \in 0..IdleAfter+2
    BY TerminalBounds
  <2>5. /\ sess' \in Sessions /\ sess'.out = out /\ sess'.inq = sess.inq
        /\ sess'.closed = sess.closed /\ sess'.ended = (sess.ended \/ over)
    BY <2>1, <2>2, <2>3, <2>4 DEF Sessions
  <2>6. sess' # Nothing
    BY <2>5, SessionIsSomething
  <2> QED
    BY <1>2, <2>1, <2>2, <2>5, <2>6 DEF Buffered, Closed, Outgoing, out
<1> QED
  BY <1>1, <1>2 DEF TerminalTypeOK

(* The invariant but for the types.                                         *)
Rest == Control /\ KeyStream /\ OutStream /\ Ending

(* A step that leaves the bridge and what it has carried alone: the session *)
(* stays, closes or goes, and only a lost answer empties the input.         *)
LEMMA QuietStep ==
    ASSUME TerminalTypeOK, Rest,
           UNCHANGED <<bridge, written, applied, typed, shown, endedBy>>,
           hitches' = hitches \/ hitches' # 0,
           \/ sess' = Nothing /\ (sess = Nothing \/ opening' # "new")
           \/ /\ sess # Nothing /\ sess' # Nothing
              /\ sess'.out = sess.out /\ sess'.ended = sess.ended
              /\ sess'.inq = sess.inq \/ (sess'.inq = <<>> /\ hitches' # 0)
              /\ sess.closed => sess'.closed,
           opening' = "new" => opening = "new" /\ sess' = Nothing /\ viewer' # "ended",
           task # Nothing => opening' = "done",
           task' # Nothing => opening' = "done", Started' <=> Started,
           viewer' = "ended" => viewer = "ended" \/ Closed',
           stray' \/ lockedOut' => hitches' # 0 
    PROVE  Rest'
<1>1. /\ ~Closed' => ~Closed
      /\ Buffered' = Buffered \/ (Buffered' = <<>> /\ (hitches' # 0 \/ Closed'))
      /\ Outgoing' = Outgoing \/ (Outgoing' = <<>> /\ Closed')
  BY DEF Closed, Buffered, Outgoing
<1>2. feeder'.msgs = feeder.msgs /\ reader' = reader /\ tty' = tty /\ shell' = shell
  BY DEF bridge
<1>3. Control'
  <2>1. Halted => Halted'
    BY <1>1, <1>2 DEF Halted
  <2>2. Outgoing = <<>> => Outgoing' = <<>>
    BY <1>1
  <2> QED
    BY <1>2, <2>1, <2>2 DEF Rest, Control, bridge
<1>4. KeyStream'
  <2>1. Stream(applied, feeder.msgs, Buffered', typed)
    BY <1>1, PlacesAreSequences, StreamMoves DEF Rest, KeyStream
  <2>2. hitches' = 0 /\ ~Closed' => hitches = 0 /\ ~Closed /\ Buffered' = Buffered
    BY <1>1
  <2> QED
    BY <1>2, <2>1, <2>2 DEF Rest, KeyStream
<1>5. OutStream'
  <2>1. Unharmed' => Unharmed
    BY DEF Unharmed
  <2>2. Unharmed => Stream(shown \o Outgoing', reader.data, tty, written)
    <3>1. shown \o <<>> = shown
      BY PlacesAreSequences
    <3> QED
      BY <1>1, <3>1, PlacesAreSequences, StreamFront DEF Rest, OutStream
  <2> QED
    BY <1>1, <1>2, <2>1, <2>2 DEF Rest, OutStream
<1>6. Ending'
  <2>1. Unharmed' => Unharmed
    BY DEF Unharmed
  <2>2. /\ sess' # Nothing /\ sess'.ended => sess # Nothing /\ sess.ended
        /\ sess # Nothing /\ sess.ended /\ ~Closed' => sess'.ended
    BY DEF Closed
  <2>3. ~Closed' => sess' # Nothing /\ sess # Nothing
    BY DEF Closed
  <2> QED
    BY <1>1, <1>2, <2>1, <2>2, <2>3 DEF Rest, Ending
<1> QED
  BY <1>3, <1>4, <1>5, <1>6 DEF Rest

(* A session whose input was taken.                                         *)
LEMMA EmptiedSession ==
    ASSUME NEW s \in Sessions, NEW t, t = [s EXCEPT !.inq = <<>>]
    PROVE  /\ t \in Sessions /\ t # Nothing /\ t.out = s.out /\ t.inq = <<>>
           /\ t.ended = s.ended /\ t.closed = s.closed
<1>1. <<>> \in Seq(Keys)
  OBVIOUS
<1>2. /\ t \in Sessions /\ t.out = s.out /\ t.inq = <<>>
      /\ t.ended = s.ended /\ t.closed = s.closed
  BY <1>1 DEF Sessions
<1> QED
  BY <1>2, SessionIsSomething

(* What the rest of the type invariant says of a step of the controller.    *)
LEMMA ControllerTypes ==
    ASSUME TerminalTypeOK, UNCHANGED <<bridge, written, applied, endedBy>>,
           sess' \in {Nothing} \cup Sessions,
           sess' # Nothing => Len(sess'.out) <= Cap /\ Len(sess'.inq) <= MaxKeys,
           opening' \in {"new", "queue", "done"}, task' \in {Nothing, "pending", "taken"},
           lockedOut' \in BOOLEAN, stray' \in BOOLEAN, typed' \in 0..MaxKeys,
           viewer' \in {"reading", "ended", "dead"}, shown' \in Seq(Chunks),
           hitches' \in 0..MaxHitches
    PROVE  TerminalTypeOK'
  BY DEF TerminalTypeOK, bridge

LEMMA Hitches == TerminalTypeOK /\ Hitch => hitches' \in 0..MaxHitches /\ hitches' # 0
  BY TerminalBounds DEF TerminalTypeOK, Hitch

LEMMA KeptQuietly ==
    ASSUME TerminalTypeOK, Rest,
           \/ OpenQueue \/ CloseTerminal \/ ViewerDies \/ Reap \/ ControllerRestart
           \/ RevokeHost \/ Reinstate \/ StrayTakes \/ StrayExpires \/ SecondsPass
    PROVE  TerminalTypeOK' /\ Rest'
<1> USE DEF hist
<1>t. /\ sess \in {Nothing} \cup Sessions /\ hitches \in 0..MaxHitches
      /\ sess # Nothing => /\ Len(sess.out) <= Cap /\ Len(sess.inq) <= MaxKeys
                           /\ sess.closed \in BOOLEAN /\ sess.idle \in 0..IdleAfter+2
      /\ typed \in 0..MaxKeys /\ shown \in Seq(Chunks) /\ stray \in BOOLEAN
      /\ lockedOut \in BOOLEAN /\ opening \in {"new", "queue", "done"}
      /\ task \in {Nothing, "pending", "taken"} /\ viewer \in {"reading", "ended", "dead"}
  BY DEF TerminalTypeOK, Sessions
<1>c. /\ opening = "new" => sess = Nothing /\ task = Nothing /\ viewer # "ended"
      /\ task # Nothing => opening = "done"
      /\ stray \/ lockedOut => hitches # 0
  BY TerminalBounds DEF Rest, Control
<1>e. Len(<<>>) = 0 /\ 0 <= MaxKeys
  BY TerminalBounds
<1>1. CASE OpenQueue
  BY <1>1, <1>t, <1>c, QuietStep, ControllerTypes, TerminalBounds DEF OpenQueue, Started
<1>2. CASE CloseTerminal
  <2>1. 0 \in 0..IdleAfter+2
    BY TerminalBounds
  <2>0. sess \in Sessions /\ sess # Nothing /\ sess' = [sess EXCEPT !.closed = TRUE, !.idle = 0]
    BY <1>2, <1>t DEF CloseTerminal
  <2>2. /\ sess' \in Sessions /\ sess' # Nothing /\ sess'.out = sess.out /\ sess'.inq = sess.inq
        /\ sess'.ended = sess.ended /\ sess'.closed
    BY <2>0, <2>1, SessionIsSomething DEF Sessions
  <2> QED
    BY <1>2, <1>t, <1>c, <2>0, <2>2, QuietStep, ControllerTypes DEF CloseTerminal, Started, Closed
<1>3. CASE ViewerDies
  BY <1>3, <1>t, <1>c, QuietStep, ControllerTypes DEF ViewerDies, Started
<1>4. CASE Reap
  <2>1. CASE sess' = Nothing
    BY <1>4, <1>t, <1>c, <2>1, QuietStep, ControllerTypes DEF Reap, Started
  <2>2. CASE sess' = [sess EXCEPT !.closed = TRUE]
    <3>0. sess \in Sessions /\ sess # Nothing /\ sess.idle \in 0..IdleAfter+2
      BY <1>4, <1>t DEF Reap
    <3>1. sess' = [sess EXCEPT !.closed = TRUE, !.idle = sess.idle]
      BY <2>2, <3>0 DEF Sessions
    <3>2. /\ sess' \in Sessions /\ sess' # Nothing /\ sess'.out = sess.out /\ sess'.inq = sess.inq
          /\ sess'.ended = sess.ended /\ sess'.closed
      BY <3>0, <3>1, SessionIsSomething DEF Sessions
    <3> QED
      BY <1>4, <1>t, <1>c, <3>0, <3>2, QuietStep, ControllerTypes DEF Reap, Started
  <2> QED
    BY <1>4, <2>1, <2>2 DEF Reap
<1>5. CASE ControllerRestart
  BY <1>5, <1>t, <1>c, Hitches, QuietStep, ControllerTypes DEF ControllerRestart, Started
<1>6. CASE RevokeHost
  BY <1>6, <1>t, <1>c, Hitches, QuietStep, ControllerTypes DEF RevokeHost, Started
<1>7. CASE Reinstate
  BY <1>7, <1>t, <1>c, QuietStep, ControllerTypes DEF Reinstate, Started
<1>8. CASE StrayTakes
  <2>1. CASE sess' = sess
    BY <1>8, <1>t, <1>c, <2>1, QuietStep, ControllerTypes DEF StrayTakes, Started
  <2>2. CASE sess # Nothing /\ sess' = [sess EXCEPT !.inq = <<>>]
    <3>1. /\ sess \in Sessions
          /\ sess' \in Sessions /\ sess' # Nothing /\ sess'.out = sess.out /\ sess'.inq = <<>>
          /\ sess'.ended = sess.ended /\ sess'.closed = sess.closed
      BY <1>t, <2>2, EmptiedSession
    <3> QED
      BY <1>8, <1>t, <1>c, <1>e, <2>2, <3>1, QuietStep, ControllerTypes DEF StrayTakes, Started
  <2> QED
    BY <1>8, <2>1, <2>2 DEF StrayTakes, Emptied
<1>9. CASE StrayExpires
  BY <1>9, <1>t, <1>c, QuietStep, ControllerTypes DEF StrayExpires, Started
<1>10. CASE SecondsPass
  <2> DEFINE i == IF sess.idle < IdleAfter + 2 THEN sess.idle + 1 ELSE sess.idle
  <2>1. i \in 0..IdleAfter+2
    BY <1>10, <1>t, TerminalBounds DEF SecondsPass
  <2>2. sess' = [sess EXCEPT !.closed = sess.closed, !.idle = i]
    BY <1>10, <1>t DEF SecondsPass, Sessions
  <2> HIDE DEF i
  <2>0. sess \in Sessions /\ sess # Nothing /\ sess.closed \in BOOLEAN
    BY <1>10, <1>t DEF SecondsPass
  <2>3. /\ sess' \in Sessions /\ sess' # Nothing /\ sess'.out = sess.out /\ sess'.inq = sess.inq
        /\ sess'.ended = sess.ended /\ sess'.closed = sess.closed
    BY <2>0, <2>1, <2>2, SessionIsSomething DEF Sessions
  <2> QED
    BY <1>10, <1>t, <1>c, <2>0, <2>3, QuietStep, ControllerTypes DEF SecondsPass, Started
<1> QED
  BY <1>1, <1>2, <1>3, <1>4, <1>5, <1>6, <1>7, <1>8, <1>9, <1>10

(* Steps that leave one of the two streams alone.                           *)
LEMMA KeysStill ==
    ASSUME Rest, UNCHANGED <<applied, typed>>, feeder'.msgs = feeder.msgs,
           Buffered' = Buffered, ~Closed' => ~Closed, hitches' = 0 => hitches = 0,
           shell' # "dead" => shell # "dead"
    PROVE  KeyStream'
  BY DEF Rest, KeyStream

LEMMA OutStill ==
    ASSUME Rest, UNCHANGED <<shown, tty, written>>, Outgoing' = Outgoing,
           reader'.data = reader.data, ~Closed' => ~Closed, hitches' = 0 => hitches = 0,
           ~reader'.stop => ~reader.stop
    PROVE  OutStream'
  BY DEF Rest, OutStream, Unharmed

LEMMA EndStill ==
    ASSUME Rest, UNCHANGED <<shown, written, endedBy>>, Outgoing' = Outgoing,
           sess' = Nothing <=> sess = Nothing, sess # Nothing => sess'.ended = sess.ended,
           viewer' = viewer, ~Closed' => ~Closed, hitches' = 0 => hitches = 0,
           reader.pc = "off" => reader'.pc = "off", shell = "dead" => shell' = "dead"
    PROVE  Ending'
<1>1. ~Closed' => sess # Nothing /\ sess' # Nothing
  BY DEF Closed
<1> QED
  BY <1>1 DEF Rest, Ending, Unharmed

LEMMA KeptOpen ==
    ASSUME TerminalTypeOK, Rest, OpenCreate
    PROVE  TerminalTypeOK' /\ Rest'
<1>1. /\ sess' = NewSession /\ sess' \in Sessions /\ sess'.out = <<>> /\ sess'.inq = <<>>
      /\ ~sess'.ended
  <2>1. <<>> \in Seq(Chunks) /\ <<>> \in Seq(Keys) /\ 0 \in 0..IdleAfter+2
    BY TerminalBounds
  <2> QED
    BY <2>1 DEF OpenCreate, NewSession, Sessions
<1>2. sess' # Nothing /\ Len(sess'.out) <= Cap /\ Len(sess'.inq) <= MaxKeys
  BY <1>1, SessionIsSomething, TerminalBounds
<1>3. TerminalTypeOK'
  BY <1>1, <1>2 DEF TerminalTypeOK, OpenCreate, bridge, hist
<1>4. opening = "new" /\ typed = 0 /\ sess = Nothing /\ task = Nothing /\ ~Started
  BY TerminalBounds DEF OpenCreate, Rest, Control, Started
<1>5. /\ shell = Nothing /\ tty = <<>> /\ written = 0 /\ ~reader.stop /\ applied = <<>>
      /\ shown = <<>> /\ Outgoing = <<>> /\ endedBy = Nothing
      /\ reader.pc = "off" /\ feeder.pc = "off"
  BY <1>4 DEF Rest, Control
<1>6. feeder.msgs = <<>> /\ reader.data = <<>>
  BY <1>5 DEF Rest, Control
<1>7. Outgoing' = <<>> /\ Buffered' = <<>> /\ Buffered = <<>>
  BY <1>1, <1>2, <1>4 DEF Outgoing, Buffered
<1>u. /\ UNCHANGED <<task, lockedOut, stray, viewer, shell, tty, reader, feeder, written,
                     applied, typed, shown, endedBy, hitches>>
      /\ opening' = "queue"
  BY DEF OpenCreate, bridge, hist
<1>8. Control'
  <2>1. ~reader.stop /\ reader.pc # "end" /\ feeder.pc \notin {"kill", "end"} /\ ~feeder.closed
    BY <1>4, <1>5, TerminalBounds DEF Rest, Control, Halted
  <2> QED
    BY <1>2, <1>4, <1>5, <1>6, <1>7, <1>u, <2>1 DEF Rest, Control, Started
<1>9. <<>> \o <<>> = <<>> /\ Upto(0) = <<>>
  BY OneMore
<1>10. KeyStream'
  BY <1>4, <1>5, <1>6, <1>7, <1>9, <1>u DEF Rest, KeyStream
<1>11. OutStream'
  BY <1>4, <1>5, <1>6, <1>7, <1>9, <1>u DEF Rest, OutStream, Unharmed
<1>12. Ending'
  <2>1. viewer' # "ended" /\ endedBy' = Nothing /\ ~sess'.ended
    BY <1>1, <1>4, <1>5, <1>u DEF Rest, Control, OpenCreate
  <2> QED
    BY <2>1, TerminalBounds DEF Ending
<1> QED
  BY <1>3, <1>8, <1>10, <1>11, <1>12 DEF Rest

(* A key goes to the end of its stream.                                     *)
LEMMA KeptType ==
    ASSUME TerminalTypeOK, Rest, Type
    PROVE  TerminalTypeOK' /\ Rest'
<1> DEFINE more == Append(sess.inq, typed + 1)
<1>1. /\ sess \in Sessions /\ sess # Nothing /\ sess.inq \in Seq(Keys) /\ Len(sess.out) <= Cap
      /\ typed \in Nat /\ typed + 1 \in Keys /\ Buffered = sess.inq
  <2>1. /\ sess \in {Nothing} \cup Sessions /\ typed \in 0..MaxKeys
        /\ sess # Nothing => Len(sess.out) <= Cap
    BY DEF TerminalTypeOK
  <2>2. sess # Nothing /\ typed < MaxKeys
    BY DEF Type
  <2>3. sess \in Sessions /\ sess.inq \in Seq(Keys)
    BY <2>1, <2>2 DEF Sessions
  <2>4. typed \in Nat /\ typed + 1 \in Keys
    <3>1. MaxKeys \in Nat
      BY TerminalBounds
    <3> QED
      BY <2>1, <2>2, <3>1 DEF Keys
  <2>5. Buffered = sess.inq
    BY <2>2 DEF Buffered
  <2> QED
    BY <2>1, <2>2, <2>3, <2>4, <2>5
<1>2. more \in Seq(Keys) /\ more = Append(Buffered, typed + 1)
  BY <1>1
<1>3. sess' = [sess EXCEPT !.inq = more, !.idle = 0]
  BY DEF Type
<1> HIDE DEF more
<1>z. 0 \in 0..IdleAfter+2
  BY TerminalBounds
<1>4. /\ sess' \in Sessions /\ sess'.out = sess.out /\ sess'.inq = more
      /\ sess'.closed = sess.closed /\ sess'.ended = sess.ended
  BY <1>1, <1>2, <1>3, <1>z DEF Sessions
<1>5. sess' # Nothing
  BY <1>4, SessionIsSomething
<1>6. /\ Buffered' = Append(Buffered, typed + 1) /\ Outgoing' = Outgoing /\ Closed' = Closed
  BY <1>1, <1>2, <1>4, <1>5 DEF Buffered, Outgoing, Closed
<1>u. /\ UNCHANGED <<opening, task, lockedOut, shell, tty, reader, feeder, stray, viewer,
                     written, applied, shown, endedBy, hitches>>
      /\ typed' = typed + 1
  BY DEF Type, bridge
<1>7. KeyStream'
  <2>1. Stream(applied, feeder.msgs, Append(Buffered, typed + 1), typed + 1)
    BY PlacesAreSequences, StreamMoves DEF Rest, KeyStream
  <2>2. applied \o feeder.msgs \o Append(Buffered, typed + 1)
          = Append(applied \o feeder.msgs \o Buffered, typed + 1)
    <3>1. applied \o feeder.msgs \in Seq(Nat) /\ Buffered \in Seq(Nat) /\ typed \in Nat
      BY PlacesAreSequences, ConcatAt
    <3> QED
      BY <3>1, AppendAfter
  <2>3. Append(Upto(typed), typed + 1) = Upto(typed + 1)
    BY <1>1, OneMore
  <2> QED
    BY <1>6, <1>u, <2>1, <2>2, <2>3 DEF Rest, KeyStream
<1>8. Len(sess'.inq) <= MaxKeys
  <2>1. /\ applied \in Seq(Nat) /\ feeder.msgs \in Seq(Nat) /\ sess'.inq \in Seq(Nat)
        /\ typed' <= MaxKeys /\ sess'.inq = Buffered'
    BY <1>1, <1>2, <1>4, <1>6, <1>u, PlacesAreSequences, TerminalBounds DEF Keys
  <2>2. Len(applied) + Len(feeder.msgs) + Len(sess'.inq) <= typed'
    BY <1>7, <1>u, <2>1 DEF KeyStream, Stream
  <2>3. Len(applied) \in Nat /\ Len(feeder.msgs) \in Nat /\ Len(sess'.inq) \in Nat
    BY <2>1
  <2>4. typed' \in Nat /\ MaxKeys \in Nat
    BY <1>1, <1>u, TerminalBounds
  <2> QED
    BY <2>1, <2>2, <2>3, <2>4
<1>9. TerminalTypeOK'
  <2>1. typed' \in 0..MaxKeys
    BY <1>1, <1>u, TerminalBounds DEF Keys
  <2> QED
    BY <1>1, <1>4, <1>8, <1>u, <2>1 DEF TerminalTypeOK
<1>10. Control'
  BY <1>1, <1>6, <1>u DEF Rest, Control, Halted, Started
<1>11. OutStream'
  BY <1>6, <1>u, OutStill
<1>12. Ending'
  BY <1>1, <1>4, <1>5, <1>6, <1>u, EndStill
<1> QED
  BY <1>7, <1>9, <1>10, <1>11, <1>12 DEF Rest

(* The viewer drains the buffer, and may be told of the end.                *)
LEMMA KeptReadTerminal ==
    ASSUME TerminalTypeOK, Rest, ReadTerminal
    PROVE  TerminalTypeOK' /\ Rest'
<1>1. CASE sess = Nothing
  <2>1. /\ sess' = Nothing /\ viewer' = "ended" /\ opening = "done"
        /\ UNCHANGED <<opening, task, lockedOut, bridge, stray, written, applied, typed,
                       endedBy, hitches, shown>>
    BY <1>1 DEF ReadTerminal
  <2>2. TerminalTypeOK'
    BY <1>1, <2>1 DEF TerminalTypeOK, bridge
  <2> QED
    BY <1>1, <2>1, <2>2, QuietStep DEF Rest, Control, Started, Closed
<1>2. CASE sess # Nothing
  <2>u. /\ UNCHANGED <<opening, task, lockedOut, shell, tty, reader, feeder, stray, written,
                       applied, typed, endedBy, hitches>>
        /\ opening = "done" /\ viewer' = IF sess.closed \/ sess.ended THEN "ended" ELSE "reading"
        /\ shown' = shown \o sess.out /\ sess' = [sess EXCEPT !.out = <<>>, !.idle = 0]
    BY <1>2 DEF ReadTerminal, ReadSession, bridge
  <2>1. /\ sess \in Sessions /\ sess.out \in Seq(Chunks) /\ shown \in Seq(Chunks)
        /\ Len(sess.inq) <= MaxKeys /\ <<>> \in Seq(Chunks) /\ 0 \in 0..IdleAfter+2
        /\ Outgoing = sess.out
    BY <1>2, TerminalBounds DEF TerminalTypeOK, Sessions, Outgoing
  <2>2. /\ sess' \in Sessions /\ sess'.out = <<>> /\ sess'.inq = sess.inq
        /\ sess'.closed = sess.closed /\ sess'.ended = sess.ended
    BY <2>u, <2>1 DEF Sessions
  <2>3. sess' # Nothing /\ Len(sess'.out) <= Cap
    BY <2>2, SessionIsSomething, TerminalBounds
  <2>4. Buffered' = Buffered /\ Outgoing' = <<>> /\ Closed' = Closed
    BY <1>2, <2>2, <2>3 DEF Buffered, Outgoing, Closed
  <2>5. shown' \in Seq(Chunks) /\ shown' = shown \o Outgoing /\ shown' \o Outgoing' = shown \o Outgoing
    <3>1. shown' \in Seq(Chunks)
      BY <2>u, <2>1
    <3>2. shown' \o <<>> = shown'
      BY <3>1
    <3> QED
      BY <2>u, <2>1, <2>4, <3>1, <3>2
  <2>6. TerminalTypeOK'
    BY <2>u, <2>1, <2>2, <2>3, <2>5 DEF TerminalTypeOK
  <2>7. Control'
    <3>1. ~Started => shown' = <<>>
      BY <2>5 DEF Rest, Control
    <3> QED
      BY <1>2, <2>u, <2>4, <3>1 DEF Rest, Control, Halted, Started
  <2>8. KeyStream'
    BY <2>u, <2>4, KeysStill
  <2>9. OutStream'
    BY <2>u, <2>4, <2>5 DEF Rest, OutStream, Unharmed
  <2>10. Ending'
    <3>1. viewer' = "ended" /\ ~Closed => sess.ended
      BY <1>2, <2>u DEF Closed
    <3> QED
      BY <1>2, <2>u, <2>2, <2>3, <2>4, <2>5, <3>1 DEF Rest, Ending, Unharmed
  <2> QED
    BY <2>6, <2>7, <2>8, <2>9, <2>10 DEF Rest
<1> QED
  BY <1>1, <1>2

(* The type invariant's part that a step of the bridge can disturb.         *)
LEMMA BridgeTypes ==
    ASSUME TerminalTypeOK, UNCHANGED <<opening, lockedOut, viewer, typed, shown>>,
           sess' \in {Nothing} \cup Sessions,
           sess' # Nothing => Len(sess'.out) <= Cap /\ Len(sess'.inq) <= MaxKeys,
           task' \in {Nothing, "pending", "taken"}, stray' \in BOOLEAN,
           shell' \in {Nothing, "alive", "dead"}, tty' \in Seq(Chunks),
           written' \in 0..MaxChunks,
           reader' \in [pc : {"off", "read", "post", "end"}, data : Seq(Chunks), stop : BOOLEAN],
           feeder' \in [pc : {"off", "check", "poll", "feed", "kill", "end"},
                        msgs : Seq(Keys), closed : BOOLEAN],
           applied' \in Seq(Keys), endedBy' \in {Nothing, "eof", "reader", "feeder", "refused"},
           hitches' \in 0..MaxHitches
    PROVE  TerminalTypeOK'
  BY DEF TerminalTypeOK

(* The end is reported with no output.                                      *)
LEMMA PushedEnd ==
    ASSUME TerminalTypeOK, sess' = Push(<<>>, TRUE)
    PROVE  /\ sess' \in {Nothing} \cup Sessions
           /\ sess' = Nothing <=> sess = Nothing
           /\ sess' # Nothing => Len(sess'.out) <= Cap /\ Len(sess'.inq) <= MaxKeys
           /\ Buffered' = Buffered /\ Closed' = Closed /\ Outgoing' = Outgoing
           /\ sess # Nothing => sess'.ended = (sess.ended \/ ~lockedOut)
<1>1. <<>> \in Seq(Chunks) /\ Outgoing \in Seq(Chunks) /\ Len(Outgoing) <= Cap
      /\ Len(<<>>) = 0 /\ Outgoing \o <<>> = Outgoing
  BY TerminalBounds DEF TerminalTypeOK, Sessions, Outgoing
<1>2. Pushed(Outgoing, <<>>) = Outgoing
  <2>1. Len(Outgoing) \in Nat /\ Cap \in Nat
    BY <1>1, TerminalBounds
  <2>2. Len(Outgoing) + Len(<<>>) <= Cap
    BY <1>1, <2>1
  <2> QED
    BY <1>1, <2>2, PushedPieces
<1>3. /\ sess' \in {Nothing} \cup Sessions
      /\ sess' = Nothing <=> sess = Nothing
      /\ sess # Nothing => Len(sess'.out) <= Cap /\ sess'.inq = sess.inq
      /\ Buffered' = Buffered /\ Closed' = Closed
      /\ sess # Nothing => sess'.ended = (sess.ended \/ (TRUE /\ ~lockedOut))
      /\ Outgoing' = IF lockedOut \/ sess = Nothing THEN Outgoing ELSE Pushed(Outgoing, <<>>)
  BY <1>1, PushedSession
<1> QED
  BY <1>2, <1>3 DEF TerminalTypeOK

(* What a well-typed state looks like to the bridge.                        *)
LEMMA BridgeFacts ==
    ASSUME TerminalTypeOK
    PROVE  /\ sess \in {Nothing} \cup Sessions
           /\ sess # Nothing => Len(sess.out) <= Cap /\ Len(sess.inq) <= MaxKeys
           /\ task \in {Nothing, "pending", "taken"} /\ stray \in BOOLEAN /\ lockedOut \in BOOLEAN
           /\ shell \in {Nothing, "alive", "dead"} /\ tty \in Seq(Chunks)
           /\ written \in 0..MaxChunks /\ applied \in Seq(Keys) /\ hitches \in 0..MaxHitches
           /\ reader \in [pc : {"off", "read", "post", "end"}, data : Seq(Chunks), stop : BOOLEAN]
           /\ feeder \in [pc : {"off", "check", "poll", "feed", "kill", "end"},
                          msgs : Seq(Keys), closed : BOOLEAN]
           /\ endedBy \in {Nothing, "eof", "reader", "feeder", "refused"}
           /\ <<>> \in Seq(Keys) /\ <<>> \in Seq(Chunks)
           /\ "taken" # Nothing /\ "alive" # Nothing /\ "dead" # Nothing
  BY TerminalBounds DEF TerminalTypeOK

(* Before the task is taken nothing of the bridge is there.                 *)
LEMMA KeptStart ==
    ASSUME TerminalTypeOK, Rest, StartBridge
    PROVE  TerminalTypeOK' /\ Rest'
<1>1. /\ ~Started /\ task # Nothing /\ shell = Nothing /\ tty = <<>> /\ written = 0 /\ ~reader.stop
      /\ shown = <<>> /\ Outgoing = <<>> /\ endedBy = Nothing
      /\ reader.pc = "off" /\ feeder.pc = "off" /\ opening = "done" /\ ~lockedOut
  BY TerminalBounds DEF StartBridge, Rest, Control, Started
<1>2. reader.data = <<>> /\ feeder.msgs = <<>>
  BY <1>1 DEF Rest, Control
<1>u. /\ UNCHANGED <<opening, lockedOut, tty, stray, viewer, written, applied, typed, shown,
                     hitches>>
      /\ task' = "taken"
  BY DEF StartBridge
<1>3. CASE /\ shell' = "alive" /\ reader' = [reader EXCEPT !.pc = "read"]
           /\ feeder' = [feeder EXCEPT !.pc = "check"] /\ UNCHANGED <<sess, endedBy>>
  <2>1. /\ reader' \in [pc : {"off", "read", "post", "end"}, data : Seq(Chunks), stop : BOOLEAN]
        /\ reader'.pc = "read" /\ reader'.data = <<>> /\ ~reader'.stop
    BY <1>1, <1>2, <1>3, BridgeFacts
  <2>2. /\ feeder' \in [pc : {"off", "check", "poll", "feed", "kill", "end"},
                        msgs : Seq(Keys), closed : BOOLEAN]
        /\ feeder'.pc = "check" /\ feeder'.msgs = <<>> /\ feeder'.closed = feeder.closed
    BY <1>1, <1>2, <1>3, BridgeFacts
  <2>3. Buffered' = Buffered /\ Outgoing' = Outgoing /\ Closed' = Closed
    BY <1>3 DEF Buffered, Outgoing, Closed
  <2>4. TerminalTypeOK'
    BY <1>u, <1>3, <2>1, <2>2, BridgeFacts, BridgeTypes
  <2>5. Control'
    <3>1. feeder.closed => Halted'
      BY <1>1, <1>3, <1>u, <2>3, TerminalBounds DEF Rest, Control, Halted
    <3> QED
      BY <1>1, <1>3, <1>u, <2>1, <2>2, <3>1, TerminalBounds DEF Rest, Control, Started
  <2>6. KeyStream'
    BY <1>1, <1>2, <1>3, <1>u, <2>2, <2>3, KeysStill, TerminalBounds
  <2>7. OutStream'
    BY <1>1, <1>2, <1>3, <1>u, <2>1, <2>3, OutStill
  <2>8. Ending'
    BY <1>1, <1>3, <1>u, <2>3, TerminalBounds DEF Rest, Ending
  <2> QED
    BY <2>4, <2>5, <2>6, <2>7, <2>8 DEF Rest
<1>4. CASE /\ sess' = Push(<<>>, TRUE) /\ endedBy' = "refused"
           /\ UNCHANGED <<shell, reader, feeder>>
  <2>1. /\ sess' \in {Nothing} \cup Sessions
        /\ sess' = Nothing <=> sess = Nothing
        /\ sess' # Nothing => Len(sess'.out) <= Cap /\ Len(sess'.inq) <= MaxKeys
        /\ Buffered' = Buffered /\ Closed' = Closed /\ Outgoing' = Outgoing
        /\ sess # Nothing => sess'.ended = (sess.ended \/ ~lockedOut)
    BY <1>4, PushedEnd
  <2>2. TerminalTypeOK'
    BY <1>u, <1>4, <2>1, BridgeFacts, BridgeTypes
  <2>3. Control'
    BY <1>1, <1>4, <1>u, <2>1, TerminalBounds DEF Rest, Control, Halted, Started
  <2>4. KeyStream'
    BY <1>4, <1>u, <2>1, KeysStill
  <2>5. OutStream'
    BY <1>4, <1>u, <2>1, OutStill
  <2>6. Ending'
    <3>1. ~Closed' => sess # Nothing
      BY <2>1 DEF Closed
    <3> QED
      BY <1>1, <1>4, <1>u, <2>1, <3>1, TerminalBounds DEF Ending
  <2> QED
    BY <2>2, <2>3, <2>4, <2>5, <2>6 DEF Rest
<1> QED
  BY <1>3, <1>4 DEF StartBridge

LEMMA KeptShell ==
    ASSUME TerminalTypeOK, Rest, ShellWrites \/ ShellExits
    PROVE  TerminalTypeOK' /\ Rest'
<1>1. /\ shell = "alive" /\ Started
      /\ UNCHANGED <<sess, opening, task, lockedOut, reader, feeder, stray, viewer, applied, typed,
                     shown, endedBy, hitches>>
  BY TerminalBounds DEF ShellWrites, ShellExits, hist, Rest, Control
<1>2. Buffered' = Buffered /\ Outgoing' = Outgoing /\ Closed' = Closed
  BY <1>1 DEF Buffered, Outgoing, Closed
<1>3. KeyStream'
  BY <1>1, <1>2, KeysStill DEF ShellWrites, ShellExits
<1>4. CASE ShellWrites
  <2>1. /\ tty' = Append(tty, written + 1) /\ written' = written + 1 /\ shell' = shell
        /\ written + 1 \in Chunks /\ written \in Nat
    BY <1>4, BridgeFacts, TerminalBounds DEF ShellWrites, Chunks
  <2>2. tty' \in Seq(Chunks) /\ written' \in 0..MaxChunks
    BY <2>1, BridgeFacts, TerminalBounds DEF Chunks
  <2>3. TerminalTypeOK'
    BY <1>1, <2>1, <2>2, BridgeFacts, BridgeTypes
  <2>4. Control'
    BY <1>1, <1>2, <2>1, TerminalBounds DEF Rest, Control, Halted, Started
  <2>5. OutStream'
    <3> DEFINE front == shown \o Outgoing
    <3>1. front \in Seq(Nat) /\ reader.data \in Seq(Nat) /\ tty \in Seq(Nat)
          /\ front \o reader.data \in Seq(Nat)
      BY PlacesAreSequences, ConcatAt
    <3> HIDE DEF front
    <3>2. Unharmed => Stream(front, reader.data, tty', written')
      BY <2>1, <3>1, StreamMoves DEF Rest, OutStream, front
    <3>3. (front \o reader.data) \o tty' = Append((front \o reader.data) \o tty, written + 1)
      BY <2>1, <3>1, AppendAfter
    <3>4. Append(Upto(written), written + 1) = Upto(written')
      BY <2>1, OneMore
    <3> QED
      BY <1>1, <1>2, <3>2, <3>3, <3>4 DEF Rest, OutStream, Unharmed, front
  <2>6. Ending'
    BY <1>1, <1>2, <2>1 DEF Rest, Ending, Unharmed, Closed
  <2> QED
    BY <1>3, <2>3, <2>4, <2>5, <2>6 DEF Rest
<1>5. CASE ShellExits
  <2>1. shell' = "dead" /\ UNCHANGED <<tty, written>>
    BY <1>5 DEF ShellExits, hist
  <2>2. TerminalTypeOK'
    BY <1>1, <2>1, BridgeFacts, BridgeTypes
  <2>3. Control'
    BY <1>1, <1>2, <2>1, TerminalBounds DEF Rest, Control, Halted, Started
  <2>4. OutStream'
    BY <1>1, <1>2, <2>1, OutStill
  <2>5. Ending'
    BY <1>1, <1>2, <2>1, EndStill
  <2> QED
    BY <1>3, <2>2, <2>3, <2>4, <2>5 DEF Rest
<1> QED
  BY <1>4, <1>5

(* The output thread takes what the shell has written.                      *)
LEMMA KeptReaderReads ==
    ASSUME TerminalTypeOK, Rest, ReaderReads
    PROVE  TerminalTypeOK' /\ Rest'
<1>1. reader.pc = "read" /\ reader.data = <<>> /\ shell # Nothing /\ Started
  BY DEF ReaderReads, Rest, Control
<1>u. UNCHANGED <<sess, opening, task, lockedOut, shell, feeder, stray, viewer, written, applied,
                  typed, shown, endedBy, hitches>>
  BY DEF ReaderReads, hist
<1>2. Buffered' = Buffered /\ Outgoing' = Outgoing /\ Closed' = Closed
  BY <1>u DEF Buffered, Outgoing, Closed
<1>3. KeyStream' /\ Ending'
  BY <1>1, <1>2, <1>u, KeysStill, EndStill
<1>4. CASE reader' = reader /\ tty' = tty
  <2>1. TerminalTypeOK'
    BY <1>u, <1>4, BridgeFacts, BridgeTypes
  <2>2. Control'
    BY <1>2, <1>u, <1>4 DEF Rest, Control, Halted, Started
  <2>3. OutStream'
    BY <1>2, <1>u, <1>4, OutStill
  <2> QED
    BY <1>3, <2>1, <2>2, <2>3 DEF Rest
<1>5. CASE /\ reader' = [reader EXCEPT !.pc = "end"] /\ tty' = tty
           /\ reader.stop \/ (shell = "dead" /\ tty = <<>>)
  <2>1. /\ reader' \in [pc : {"off", "read", "post", "end"}, data : Seq(Chunks), stop : BOOLEAN]
        /\ reader'.pc = "end" /\ reader'.data = <<>> /\ reader'.stop = reader.stop
    BY <1>1, <1>5, BridgeFacts
  <2>2. TerminalTypeOK'
    BY <1>u, <1>5, <2>1, BridgeFacts, BridgeTypes
  <2>3. Control'
    BY <1>1, <1>2, <1>u, <1>5, <2>1 DEF Rest, Control, Halted, Started
  <2>4. OutStream'
    BY <1>1, <1>2, <1>u, <1>5, <2>1, OutStill
  <2> QED
    BY <1>3, <2>2, <2>3, <2>4 DEF Rest
<1>6. CASE /\ reader' = [reader EXCEPT !.pc = "post", !.data = tty] /\ tty' = <<>>
           /\ ~reader.stop
  <2>1. /\ reader' \in [pc : {"off", "read", "post", "end"}, data : Seq(Chunks), stop : BOOLEAN]
        /\ reader'.pc = "post" /\ reader'.data = tty /\ ~reader'.stop
    BY <1>6, BridgeFacts
  <2>2. TerminalTypeOK'
    BY <1>u, <1>6, <2>1, BridgeFacts, BridgeTypes
  <2>3. Control'
    BY <1>1, <1>2, <1>u, <1>6, <2>1 DEF Rest, Control, Halted, Started
  <2>4. OutStream'
    <3> DEFINE front == shown \o Outgoing
    <3>1. front \in Seq(Nat) /\ tty \in Seq(Nat) /\ <<>> \in Seq(Nat) /\ written \in Nat
      BY PlacesAreSequences, ConcatAt, Empty
    <3> HIDE DEF front
    <3>2. <<>> \o tty = tty /\ front \o <<>> = front /\ (front \o tty) \o <<>> = front \o tty
      BY <3>1
    <3>3. Unharmed => Stream(front, tty, <<>>, written)
      BY <1>1, <3>1, <3>2, StreamMoves DEF Rest, OutStream, front
    <3> QED
      BY <1>1, <1>2, <1>u, <1>6, <2>1, <3>2, <3>3 DEF Rest, OutStream, Unharmed, front
  <2> QED
    BY <1>3, <2>2, <2>3, <2>4 DEF Rest
<1> QED
  BY <1>4, <1>5, <1>6 DEF ReaderReads

(* The output thread's report is handled, lost, or handled and repeated.    *)
LEMMA KeptReaderPosts ==
    ASSUME TerminalTypeOK, Rest, ReaderPosts
    PROVE  TerminalTypeOK' /\ Rest'
<1>1. reader.pc = "post" /\ reader.data \in Seq(Chunks) /\ shell # Nothing /\ Started
  BY BridgeFacts DEF ReaderPosts, Rest, Control
<1>u. UNCHANGED <<opening, task, lockedOut, shell, tty, feeder, stray, viewer, written, applied,
                  typed, shown, endedBy>>
  BY DEF ReaderPosts, hist
<1>o. opening = "done"
  BY <1>1, BridgeFacts DEF Rest, Control, Started
<1>2. ASSUME sess' = Push(reader.data, FALSE)
      PROVE  /\ sess' \in {Nothing} \cup Sessions
             /\ sess' = Nothing <=> sess = Nothing
             /\ sess' # Nothing => Len(sess'.out) <= Cap /\ Len(sess'.inq) <= MaxKeys
             /\ Buffered' = Buffered /\ Closed' = Closed
             /\ sess # Nothing => sess'.ended = sess.ended
             /\ Outgoing' = IF lockedOut \/ sess = Nothing THEN Outgoing
                            ELSE Pushed(Outgoing, reader.data)
  <2>1. /\ sess' \in {Nothing} \cup Sessions
        /\ sess' = Nothing <=> sess = Nothing
        /\ sess # Nothing => Len(sess'.out) <= Cap /\ sess'.inq = sess.inq
        /\ Buffered' = Buffered /\ Closed' = Closed
        /\ sess # Nothing => sess'.ended = (sess.ended \/ (FALSE /\ ~lockedOut))
        /\ Outgoing' = IF lockedOut \/ sess = Nothing THEN Outgoing
                       ELSE Pushed(Outgoing, reader.data)
    BY <1>1, <1>2, PushedSession
  <2>2. sess # Nothing => sess.ended \in BOOLEAN
    BY BridgeFacts DEF Sessions
  <2> QED
    BY <2>1, <2>2, BridgeFacts
<1>3. CASE /\ sess' = Push(reader.data, FALSE) /\ UNCHANGED hitches
           /\ reader' = [pc |-> "read", data |-> <<>>, stop |-> reader.stop \/ SaysClosed]
  <2>1. /\ reader' \in [pc : {"off", "read", "post", "end"}, data : Seq(Chunks), stop : BOOLEAN]
        /\ reader'.pc = "read" /\ reader'.data = <<>>
        /\ reader'.stop => reader.stop \/ Closed
        /\ ~reader'.stop => ~reader.stop
    <3>1. reader.stop \in BOOLEAN /\ SaysClosed \in BOOLEAN
      BY BridgeFacts DEF SaysClosed, Closed, Sessions
    <3> QED
      BY <1>3, <3>1, BridgeFacts DEF SaysClosed
  <2>2. TerminalTypeOK'
    BY <1>u, <1>2, <1>3, <2>1, BridgeFacts, BridgeTypes
  <2>3. Control'
    BY <1>1, <1>o, <1>2, <1>u, <1>3, <2>1 DEF Rest, Control, Halted, Started
  <2>4. KeyStream'
    BY <1>2, <1>u, <1>3, KeysStill
  <2>5. Unharmed => \/ Closed /\ Outgoing = <<>> /\ Outgoing' = <<>>
                    \/ Outgoing' = Outgoing \o reader.data
    <3> SUFFICES ASSUME Unharmed PROVE \/ Closed /\ Outgoing = <<>> /\ Outgoing' = <<>>
                                       \/ Outgoing' = Outgoing \o reader.data
      OBVIOUS
    <3>1. ~lockedOut
      BY DEF Unharmed, Rest, Control
    <3>2. CASE sess = Nothing
      BY <1>2, <1>3, <3>2 DEF Closed, Outgoing
    <3>3. CASE sess # Nothing
      <4>1. Len(shown \o Outgoing) + Len(reader.data) + Len(tty) <= written
        BY DEF Rest, OutStream, Stream
      <4>2. /\ Len(shown \o Outgoing) = Len(shown) + Len(Outgoing)
            /\ Len(shown) \in Nat /\ Len(Outgoing) \in Nat /\ Len(reader.data) \in Nat
            /\ Len(tty) \in Nat
        BY PlacesAreSequences, ConcatAt
      <4>3. written <= MaxChunks /\ MaxChunks <= Cap /\ written \in Nat /\ MaxChunks \in Nat
            /\ Cap \in Nat
        BY BridgeFacts, TerminalBounds DEF Unharmed
      <4>4. Len(Outgoing) + Len(reader.data) <= Cap
        <5>1. ASSUME NEW a \in Nat, NEW b \in Nat, NEW c \in Nat, NEW d \in Nat, NEW n \in Nat,
                     NEW m \in Nat, NEW k \in Nat, (a + b) + c + d <= n, n <= m, m <= k
              PROVE  b + c <= k
          BY <5>1
        <5>2. (Len(shown) + Len(Outgoing)) + Len(reader.data) + Len(tty) <= written
          BY <4>1, <4>2
        <5> QED
          BY <4>2, <4>3, <5>1, <5>2
      <4>5. Outgoing \in Seq(Chunks)
        BY <3>3, BridgeFacts DEF Outgoing, Sessions
      <4>6. Pushed(Outgoing, reader.data) = Outgoing \o reader.data
        BY <1>1, <4>4, <4>5, PushedPieces
      <4> QED
        BY <1>2, <1>3, <3>1, <3>3, <4>6
    <3> QED
      BY <3>2, <3>3
  <2>6. OutStream'
    <3> DEFINE front == shown \o Outgoing
    <3>1. /\ front \in Seq(Nat) /\ reader.data \in Seq(Nat) /\ tty \in Seq(Nat)
          /\ shown \in Seq(Nat) /\ Outgoing \in Seq(Nat) /\ written \in Nat
      BY PlacesAreSequences, ConcatAt
    <3>2. shown \o (Outgoing \o reader.data) = front \o reader.data
      <4>1. ASSUME NEW x \in Seq(Nat), NEW y \in Seq(Nat), NEW z \in Seq(Nat)
            PROVE  x \o (y \o z) = (x \o y) \o z
        BY ConcatAssociative
      <4> QED
        BY <3>1, <4>1
    <3>3. front \o reader.data \in Seq(Nat)
          /\ (front \o reader.data) \o <<>> = front \o reader.data
      BY <3>1, ConcatAt
    <3> HIDE DEF front
    <3>4. Unharmed => /\ Stream(front \o reader.data, <<>>, tty, written)
                      /\ Stream(front, <<>>, tty, written)
      BY <3>1, StreamMoves DEF Rest, OutStream, front
    <3>5. Unharmed' = Unharmed
      BY <1>3 DEF Unharmed
    <3>6. CASE Unharmed /\ Closed /\ Outgoing = <<>> /\ Outgoing' = <<>>
      <4>1. shown' \o Outgoing' = front
        BY <1>u, <3>6 DEF front
      <4> QED
        BY <1>2, <1>u, <1>3, <2>1, <3>4, <3>5, <3>6, <4>1 DEF OutStream
    <3>7. CASE Unharmed /\ Outgoing' = Outgoing \o reader.data
      <4>1. shown' \o Outgoing' = front \o reader.data
        BY <1>u, <3>2, <3>7
      <4>2. ~Closed /\ ~reader.stop => (front \o reader.data) \o tty = Upto(written)
        BY <3>7 DEF Rest, OutStream, front
      <4>3. ~Closed' /\ ~reader'.stop
              => shown' \o Outgoing' \o reader'.data \o tty' = Upto(written')
        BY <1>2, <1>u, <1>3, <2>1, <3>3, <4>1, <4>2
      <4>4. Stream(shown' \o Outgoing', reader'.data, tty', written')
        BY <1>u, <2>1, <3>4, <3>7, <4>1
      <4> QED
        BY <4>3, <4>4 DEF OutStream
    <3> QED
      BY <2>5, <3>5, <3>6, <3>7 DEF OutStream
  <2>7. Ending'
    <3>1. Unharmed /\ ~Closed /\ endedBy = "eof" => FALSE
      BY <1>1 DEF Rest, Ending
    <3>2. /\ ~Closed' => sess # Nothing
          /\ sess' # Nothing <=> sess # Nothing
          /\ sess # Nothing => sess'.ended = sess.ended
          /\ Closed' = Closed
      BY <1>2, <1>3 DEF Closed
    <3> QED
      BY <1>u, <1>3, <3>1, <3>2 DEF Rest, Ending, Unharmed
  <2> QED
    BY <2>2, <2>3, <2>4, <2>6, <2>7 DEF Rest
<1>4. CASE Hitch /\ UNCHANGED sess /\ reader' = [reader EXCEPT !.pc = "read", !.data = <<>>]
  <2>1. /\ reader' \in [pc : {"off", "read", "post", "end"}, data : Seq(Chunks), stop : BOOLEAN]
        /\ reader'.pc = "read" /\ reader'.data = <<>> /\ reader'.stop = reader.stop
    BY <1>4, BridgeFacts
  <2>2. TerminalTypeOK'
    BY <1>u, <1>4, <2>1, Hitches, BridgeFacts, BridgeTypes
  <2>3. Buffered' = Buffered /\ Closed' = Closed /\ Outgoing' = Outgoing /\ hitches' # 0
    BY <1>4, Hitches DEF Buffered, Closed, Outgoing
  <2>4. Control'
    BY <1>1, <1>o, <1>u, <2>1, <2>3 DEF Rest, Control, Halted, Started
  <2>5. KeyStream'
    BY <1>u, <2>3, KeysStill
  <2>6. OutStream'
    BY <2>3 DEF OutStream, Unharmed
  <2>7. Ending'
    BY <1>u, <1>4, <2>3 DEF Rest, Ending, Unharmed
  <2> QED
    BY <2>2, <2>4, <2>5, <2>6, <2>7 DEF Rest
<1>5. CASE Hitch /\ sess' = Push(reader.data, FALSE) /\ UNCHANGED reader
  <2>1. hitches' # 0 /\ hitches' \in 0..MaxHitches
    BY <1>5, Hitches
  <2>2. TerminalTypeOK'
    <3>1. /\ sess' \in {Nothing} \cup Sessions
          /\ sess' # Nothing => Len(sess'.out) <= Cap /\ Len(sess'.inq) <= MaxKeys
          /\ reader' = reader
      BY <1>2, <1>5
    <3> QED
      BY <1>u, <2>1, <3>1, BridgeFacts, BridgeTypes
  <2>3. Control'
    BY <1>1, <1>o, <1>u, <1>2, <1>5, <2>1 DEF Rest, Control, Halted, Started
  <2>4. KeyStream'
    BY <1>u, <1>2, <1>5, <2>1, KeysStill
  <2>5. OutStream'
    BY <2>1 DEF OutStream, Unharmed
  <2>6. Ending'
    <3>1. ~Closed' => sess # Nothing
      BY <1>2, <1>5 DEF Closed
    <3> QED
      BY <1>u, <1>2, <1>5, <2>1, <3>1 DEF Rest, Ending, Unharmed
  <2> QED
    BY <2>2, <2>3, <2>4, <2>5, <2>6 DEF Rest
<1> QED
  BY <1>3, <1>4, <1>5 DEF ReaderPosts

(* The output thread ends, at its end of file or because it was told to.    *)
LEMMA KeptReaderEnds ==
    ASSUME TerminalTypeOK, Rest, ReaderEnds
    PROVE  TerminalTypeOK' /\ Rest'
<1>1. /\ reader.pc = "end" /\ reader.data = <<>> /\ shell # Nothing /\ Started /\ Halted
      /\ ~reader.stop => shell = "dead" /\ tty = <<>>
  BY DEF ReaderEnds, Rest, Control
<1>o. opening = "done"
  BY <1>1, BridgeFacts DEF Rest, Control, Started
<1>u. UNCHANGED <<opening, task, lockedOut, shell, tty, feeder, stray, viewer, written, applied,
                  typed, shown>>
  BY DEF ReaderEnds
<1>2. reader' = [pc |-> "off", data |-> <<>>, stop |-> TRUE]
  BY DEF ReaderEnds
<1>3. /\ reader' \in [pc : {"off", "read", "post", "end"}, data : Seq(Chunks), stop : BOOLEAN]
      /\ reader'.pc = "off" /\ reader'.data = <<>> /\ reader'.stop
  BY <1>2, BridgeFacts
<1>4. CASE /\ sess' = Push(<<>>, TRUE) /\ UNCHANGED hitches
           /\ endedBy' = EndedBy(IF reader.stop THEN "reader" ELSE "eof")
  <2>1. /\ sess' \in {Nothing} \cup Sessions
        /\ sess' = Nothing <=> sess = Nothing
        /\ sess' # Nothing => Len(sess'.out) <= Cap /\ Len(sess'.inq) <= MaxKeys
        /\ Buffered' = Buffered /\ Closed' = Closed /\ Outgoing' = Outgoing
        /\ sess # Nothing => sess'.ended = (sess.ended \/ ~lockedOut)
    BY <1>4, PushedEnd
  <2>2. /\ endedBy' \in {"eof", "reader", "feeder", "refused"} /\ endedBy' # Nothing
        /\ endedBy # Nothing => endedBy' = endedBy
        /\ endedBy = Nothing /\ endedBy' = "eof" => ~reader.stop
    BY <1>4, BridgeFacts, TerminalBounds DEF EndedBy
  <2>3. TerminalTypeOK'
    BY <1>u, <1>3, <1>4, <2>1, <2>2, BridgeFacts, BridgeTypes
  <2>4. Control'
    BY <1>1, <1>o, <1>u, <1>3, <1>4, <2>1 DEF Rest, Control, Halted, Started
  <2>5. KeyStream'
    BY <1>u, <1>4, <2>1, KeysStill
  <2>6. OutStream'
    BY <1>1, <1>u, <1>3, <1>4, <2>1, OutStill
  <2>7. Ending'
    <3>1. sess' # Nothing /\ sess'.ended => endedBy' # Nothing
      BY <2>2
    <3>2. viewer' = "ended" /\ ~Closed' => sess.ended /\ sess'.ended
      BY <1>u, <2>1 DEF Rest, Ending, Closed
    <3>3. ASSUME Unharmed', ~Closed', endedBy' = "eof"
          PROVE  /\ shown' \o Outgoing' = Upto(written') /\ reader'.pc = "off" /\ shell' = "dead"
                 /\ viewer' = "ended" => Outgoing' = <<>>
      <4>1. Unharmed /\ ~Closed
        BY <1>4, <2>1, <3>3 DEF Unharmed
      <4>2. CASE endedBy # Nothing
        BY <1>u, <1>3, <2>1, <2>2, <3>3, <4>1, <4>2 DEF Rest, Ending
      <4>3. CASE endedBy = Nothing
        <5>1. ~reader.stop /\ shell = "dead" /\ tty = <<>>
          BY <1>1, <2>2, <3>3, <4>3
        <5>2. (shown \o Outgoing) \o <<>> \o <<>> = Upto(written)
          BY <1>1, <4>1, <5>1 DEF Rest, OutStream
        <5>3. shown \o Outgoing \in Seq(Nat)
          BY PlacesAreSequences, ConcatAt
        <5>4. ASSUME NEW x \in Seq(Nat) PROVE x \o <<>> \o <<>> = x
          OBVIOUS
        <5>5. shown \o Outgoing = Upto(written)
          BY <5>2, <5>3, <5>4
        <5>6. viewer # "ended"
          <6>1. sess # Nothing
            BY <4>1 DEF Closed
          <6> QED
            BY <4>1, <4>3, <6>1 DEF Rest, Ending
        <5> QED
          BY <1>u, <1>3, <2>1, <5>1, <5>5, <5>6
      <4> QED
        BY <4>2, <4>3
    <3> QED
      BY <3>1, <3>2, <3>3 DEF Ending
  <2> QED
    BY <2>3, <2>4, <2>5, <2>6, <2>7 DEF Rest
<1>5. CASE UNCHANGED <<sess, endedBy>> /\ Hitch
  <2>1. Buffered' = Buffered /\ Closed' = Closed /\ Outgoing' = Outgoing
        /\ hitches' # 0 /\ hitches' \in 0..MaxHitches
    BY <1>5, Hitches DEF Buffered, Closed, Outgoing
  <2>2. sess' = sess /\ endedBy' = endedBy
    BY <1>5
  <2>3. TerminalTypeOK'
    BY <1>u, <1>3, <2>1, <2>2, BridgeFacts, BridgeTypes
  <2>4. Control'
    BY <1>1, <1>o, <1>u, <1>3, <2>1, <2>2 DEF Rest, Control, Halted, Started
  <2>5. KeyStream'
    BY <1>u, <2>1, <2>2, KeysStill
  <2>6. OutStream'
    BY <1>1, <1>u, <1>3, <2>1, <2>2, OutStill
  <2>7. Ending'
    BY <1>u, <1>3, <2>1, <2>2, EndStill
  <2> QED
    BY <2>3, <2>4, <2>5, <2>6, <2>7 DEF Rest
<1> QED
  BY <1>4, <1>5 DEF ReaderEnds

(* The input thread looks whether to go on.                                 *)
LEMMA KeptFeederChecks ==
    ASSUME TerminalTypeOK, Rest, FeederChecks
    PROVE  TerminalTypeOK' /\ Rest'
<1>1. feeder.pc = "check" /\ feeder.msgs = <<>> /\ shell # Nothing /\ Started
  BY DEF FeederChecks, Rest, Control
<1>o. opening = "done"
  BY <1>1, BridgeFacts DEF Rest, Control, Started
<1>u. UNCHANGED <<sess, opening, task, lockedOut, shell, tty, reader, stray, viewer, written,
                  applied, typed, shown, endedBy, hitches>>
  BY DEF FeederChecks, hist
<1>2. Buffered' = Buffered /\ Outgoing' = Outgoing /\ Closed' = Closed
  BY <1>u DEF Buffered, Outgoing, Closed
<1>3. /\ feeder' \in [pc : {"off", "check", "poll", "feed", "kill", "end"},
                      msgs : Seq(Keys), closed : BOOLEAN]
      /\ feeder'.pc \in {"kill", "poll"} /\ feeder'.msgs = <<>> /\ feeder'.closed = feeder.closed
      /\ feeder'.pc = "kill" => reader.stop \/ shell = "dead"
  BY <1>1, BridgeFacts DEF FeederChecks
<1>4. TerminalTypeOK'
  BY <1>u, <1>3, BridgeFacts, BridgeTypes
<1>5. Control'
  BY <1>1, <1>o, <1>u, <1>2, <1>3 DEF Rest, Control, Halted, Started
<1>6. KeyStream' /\ OutStream' /\ Ending'
  BY <1>1, <1>u, <1>2, <1>3, KeysStill, OutStill, EndStill
<1> QED
  BY <1>4, <1>5, <1>6 DEF Rest

(* The input goes into the answer of a poll, or into one that is lost.      *)
LEMMA KeptFeederPolls ==
    ASSUME TerminalTypeOK, Rest, FeederPolls
    PROVE  TerminalTypeOK' /\ Rest'
<1>1. feeder.pc = "poll" /\ feeder.msgs = <<>> /\ shell # Nothing /\ Started
  BY DEF FeederPolls, Rest, Control
<1>o. opening = "done"
  BY <1>1, BridgeFacts DEF Rest, Control, Started
<1>u. UNCHANGED <<opening, task, lockedOut, shell, tty, reader, viewer, written, applied, typed,
                  shown, endedBy>>
  BY DEF FeederPolls, hist
<1>2. ASSUME sess' = Emptied
      PROVE  /\ sess' \in {Nothing} \cup Sessions
             /\ sess' # Nothing => Len(sess'.out) <= Cap /\ Len(sess'.inq) <= MaxKeys
             /\ sess' = Nothing <=> sess = Nothing
             /\ Outgoing' = Outgoing /\ Closed' = Closed
             /\ sess # Nothing => sess'.ended = sess.ended
             /\ Taken \in Seq(Keys)
             /\ \/ Taken = <<>> /\ Buffered' = Buffered
                \/ Taken = Buffered /\ Buffered' = <<>>
  <2>1. CASE sess = Nothing \/ lockedOut
    <3>1. sess' = sess /\ Taken = <<>>
      BY <1>2, <2>1 DEF Emptied, Taken
    <3> QED
      BY <3>1, BridgeFacts DEF Outgoing, Closed, Buffered
  <2>2. CASE sess # Nothing /\ ~lockedOut
    <3>1. sess \in Sessions /\ sess' = [sess EXCEPT !.inq = <<>>] /\ Taken = sess.inq
      BY <1>2, <2>2, BridgeFacts DEF Emptied, Taken
    <3>2. /\ sess' \in Sessions /\ sess' # Nothing /\ sess'.out = sess.out /\ sess'.inq = <<>>
          /\ sess'.ended = sess.ended /\ sess'.closed = sess.closed
      BY <3>1, EmptiedSession
    <3>3. sess.inq \in Seq(Keys) /\ Len(<<>>) = 0 /\ 0 <= MaxKeys
      BY <3>1, TerminalBounds DEF Sessions
    <3> QED
      BY <2>2, <3>1, <3>2, <3>3, BridgeFacts DEF Outgoing, Closed, Buffered
  <2> QED
    BY <2>1, <2>2
<1>3. CASE /\ feeder' = [pc |-> "feed", msgs |-> Taken, closed |-> SaysClosed]
           /\ sess' = Emptied /\ UNCHANGED <<stray, hitches>>
  <2>1. SaysClosed \in BOOLEAN /\ (SaysClosed => Closed)
    BY BridgeFacts DEF SaysClosed, Closed, Sessions
  <2>2. /\ feeder' \in [pc : {"off", "check", "poll", "feed", "kill", "end"},
                        msgs : Seq(Keys), closed : BOOLEAN]
        /\ feeder'.pc = "feed" /\ feeder'.msgs = Taken /\ (feeder'.closed => Closed)
    BY <1>2, <1>3, <2>1
  <2>3. TerminalTypeOK'
    BY <1>u, <1>2, <1>3, <2>2, BridgeFacts, BridgeTypes
  <2>4. Control'
    BY <1>1, <1>o, <1>u, <1>2, <1>3, <2>2 DEF Rest, Control, Halted, Started
  <2>5. KeyStream'
    <3>1. applied \in Seq(Nat) /\ Buffered \in Seq(Nat) /\ <<>> \in Seq(Nat) /\ typed \in Nat
      BY PlacesAreSequences, Empty
    <3>2. CASE Taken = <<>> /\ Buffered' = Buffered
      BY <1>1, <1>u, <1>2, <1>3, <2>2, <3>2 DEF Rest, KeyStream
    <3>3. CASE Taken = Buffered /\ Buffered' = <<>>
      <4>1. /\ <<>> \o Buffered = Buffered /\ applied \o <<>> = applied
            /\ (applied \o Buffered) \o <<>> = applied \o Buffered
        BY <3>1
      <4>2. Stream(applied, Buffered, <<>>, typed)
        BY <1>1, <3>1, <4>1, StreamMoves DEF Rest, KeyStream
      <4>3. hitches = 0 /\ ~Closed /\ shell # "dead" => applied \o Buffered = Upto(typed)
        BY <1>1, <4>1 DEF Rest, KeyStream
      <4> QED
        BY <1>u, <1>2, <1>3, <2>2, <3>3, <4>1, <4>2, <4>3 DEF KeyStream
    <3> QED
      BY <1>2, <1>3, <3>2, <3>3
  <2>6. OutStream' /\ Ending'
    BY <1>u, <1>2, <1>3, OutStill, EndStill
  <2> QED
    BY <2>3, <2>4, <2>5, <2>6 DEF Rest
<1>4. CASE /\ Hitch /\ feeder' = [feeder EXCEPT !.pc = "check"]
           /\ \/ sess' = Emptied /\ UNCHANGED stray
              \/ stray' = TRUE /\ UNCHANGED sess
  <2>1. /\ feeder' \in [pc : {"off", "check", "poll", "feed", "kill", "end"},
                        msgs : Seq(Keys), closed : BOOLEAN]
        /\ feeder'.pc = "check" /\ feeder'.msgs = <<>> /\ feeder'.closed = feeder.closed
    BY <1>1, <1>4, BridgeFacts
  <2>2. hitches' # 0 /\ hitches' \in 0..MaxHitches /\ stray' \in BOOLEAN
    BY <1>4, Hitches, BridgeFacts
  <2>3. /\ sess' \in {Nothing} \cup Sessions
        /\ sess' # Nothing => Len(sess'.out) <= Cap /\ Len(sess'.inq) <= MaxKeys
        /\ sess' = Nothing <=> sess = Nothing
        /\ Outgoing' = Outgoing /\ Closed' = Closed
        /\ sess # Nothing => sess'.ended = sess.ended
        /\ Buffered' \in {Buffered, <<>>}
    <3>1. CASE sess' = sess
      BY <3>1, BridgeFacts DEF Outgoing, Closed, Buffered
    <3> QED
      BY <1>2, <1>4, <3>1
  <2>4. TerminalTypeOK'
    BY <1>u, <2>1, <2>2, <2>3, BridgeFacts, BridgeTypes
  <2>5. Control'
    BY <1>1, <1>o, <1>u, <2>1, <2>2, <2>3 DEF Rest, Control, Halted, Started
  <2>6. KeyStream'
    <3>1. Stream(applied, feeder.msgs, Buffered', typed)
      BY <2>3, PlacesAreSequences, StreamMoves DEF Rest, KeyStream
    <3> QED
      BY <1>1, <1>u, <2>1, <2>2, <3>1 DEF KeyStream
  <2>7. OutStream' /\ Ending'
    BY <1>u, <2>2, <2>3, OutStill, EndStill
  <2> QED
    BY <2>4, <2>5, <2>6, <2>7 DEF Rest
<1> QED
  BY <1>3, <1>4 DEF FeederPolls

(* The input reaches the shell while its session is open.                   *)
LEMMA KeptFeederFeeds ==
    ASSUME TerminalTypeOK, Rest, FeederFeeds
    PROVE  TerminalTypeOK' /\ Rest'
<1>1. feeder.pc = "feed" /\ feeder.msgs \in Seq(Keys) /\ shell # Nothing /\ Started
  BY BridgeFacts DEF FeederFeeds, Rest, Control
<1>o. opening = "done"
  BY <1>1, BridgeFacts DEF Rest, Control, Started
<1>u. UNCHANGED <<sess, opening, task, lockedOut, shell, tty, stray, viewer, written, typed, shown,
                  endedBy, hitches>>
  BY DEF FeederFeeds
<1>2. Buffered' = Buffered /\ Outgoing' = Outgoing /\ Closed' = Closed
  BY <1>u DEF Buffered, Outgoing, Closed
<1>3. /\ applied \in Seq(Nat) /\ feeder.msgs \in Seq(Nat) /\ Buffered \in Seq(Nat)
      /\ <<>> \in Seq(Nat) /\ typed \in Nat /\ applied \in Seq(Keys)
      /\ Stream(applied, feeder.msgs, Buffered, typed)
  BY PlacesAreSequences, BridgeFacts, Empty DEF Rest, KeyStream
<1>s. /\ Stream(applied, <<>>, Buffered, typed)
      /\ Stream(applied \o feeder.msgs, <<>>, Buffered, typed)
  BY <1>3, StreamMoves
<1>4. CASE /\ feeder.closed /\ feeder' = [pc |-> "kill", msgs |-> <<>>, closed |-> TRUE]
           /\ UNCHANGED <<applied, reader>>
  <2>1. /\ feeder' \in [pc : {"off", "check", "poll", "feed", "kill", "end"},
                        msgs : Seq(Keys), closed : BOOLEAN]
        /\ feeder'.pc = "kill" /\ feeder'.msgs = <<>>
    BY <1>4, BridgeFacts
  <2>2. Halted /\ Halted'
    BY <1>4, <1>u, <1>2 DEF Rest, Control, Halted
  <2>3. TerminalTypeOK'
    BY <1>u, <1>4, <2>1, BridgeFacts, BridgeTypes
  <2>4. Control'
    BY <1>1, <1>o, <1>u, <1>2, <1>4, <2>1, <2>2 DEF Rest, Control, Started
  <2>5. KeyStream'
    BY <1>u, <1>2, <1>4, <1>s, <2>1, <2>2 DEF KeyStream, Halted
  <2>6. OutStream' /\ Ending'
    BY <1>u, <1>2, <1>4, OutStill, EndStill
  <2> QED
    BY <2>3, <2>4, <2>5, <2>6 DEF Rest
<1>5. CASE /\ ~feeder.closed
           /\ applied' = IF shell = "alive" THEN applied \o feeder.msgs ELSE applied
           /\ \/ UNCHANGED reader
              \/ shell = "dead" /\ reader' = [reader EXCEPT !.stop = TRUE]
           /\ feeder' = [pc |-> "check", msgs |-> <<>>, closed |-> FALSE]
  <2>1. /\ feeder' \in [pc : {"off", "check", "poll", "feed", "kill", "end"},
                        msgs : Seq(Keys), closed : BOOLEAN]
        /\ feeder'.pc = "check" /\ feeder'.msgs = <<>> /\ ~feeder'.closed
    BY <1>5, BridgeFacts
  <2>2. /\ reader' \in [pc : {"off", "read", "post", "end"}, data : Seq(Chunks), stop : BOOLEAN]
        /\ reader'.pc = reader.pc /\ reader'.data = reader.data
        /\ reader'.stop => reader.stop \/ shell = "dead"
        /\ reader.stop => reader'.stop
    BY <1>5, BridgeFacts
  <2>3. applied' \in Seq(Keys)
    BY <1>1, <1>3, <1>5
  <2>4. TerminalTypeOK'
    BY <1>u, <2>1, <2>2, <2>3, BridgeFacts, BridgeTypes
  <2>5. Control'
    BY <1>1, <1>o, <1>u, <1>2, <2>1, <2>2 DEF Rest, Control, Halted, Started
  <2>6. KeyStream'
    <3>1. Stream(applied', <<>>, Buffered, typed)
      BY <1>5, <1>s
    <3>2. ~Closed /\ shell # "dead" => applied' = applied \o feeder.msgs
      BY <1>1, <1>5, BridgeFacts
    <3>3. (applied \o feeder.msgs) \o <<>> = applied \o feeder.msgs
      <4>1. ASSUME NEW x \in Seq(Nat) PROVE x \o <<>> = x
        OBVIOUS
      <4> QED
        BY <1>3, <4>1, ConcatAt
    <3> QED
      BY <1>u, <1>2, <2>1, <3>1, <3>2, <3>3 DEF Rest, KeyStream
  <2>7. OutStream' /\ Ending'
    BY <1>u, <1>2, <2>2, OutStill, EndStill
  <2> QED
    BY <2>4, <2>5, <2>6, <2>7 DEF Rest
<1> QED
  BY <1>4, <1>5 DEF FeederFeeds

(* The shell is killed and its PTY closed, with what nobody has read.       *)
LEMMA KeptFeederKills ==
    ASSUME TerminalTypeOK, Rest, FeederKills
    PROVE  TerminalTypeOK' /\ Rest'
<1>1. feeder.pc = "kill" /\ feeder.msgs = <<>> /\ shell # Nothing /\ Started
  BY DEF FeederKills, Rest, Control
<1>o. opening = "done"
  BY <1>1, BridgeFacts DEF Rest, Control, Started
<1>u. /\ UNCHANGED <<sess, opening, task, lockedOut, stray, viewer, written, applied, typed, shown,
                     endedBy, hitches>>
      /\ shell' = "dead" /\ tty' = <<>>
  BY DEF FeederKills, hist
<1>2. Buffered' = Buffered /\ Outgoing' = Outgoing /\ Closed' = Closed
  BY <1>u DEF Buffered, Outgoing, Closed
<1>3. /\ feeder' \in [pc : {"off", "check", "poll", "feed", "kill", "end"},
                      msgs : Seq(Keys), closed : BOOLEAN]
      /\ feeder'.pc = "end" /\ feeder'.msgs = <<>>
  BY <1>1, BridgeFacts DEF FeederKills
<1>4. /\ reader' \in [pc : {"off", "read", "post", "end"}, data : Seq(Chunks), stop : BOOLEAN]
      /\ reader'.pc = reader.pc /\ reader'.data = reader.data /\ reader'.stop
  BY BridgeFacts DEF FeederKills
<1>5. TerminalTypeOK'
  BY <1>u, <1>3, <1>4, BridgeFacts, BridgeTypes
<1>6. Control'
  BY <1>1, <1>o, <1>u, <1>2, <1>3, <1>4, BridgeFacts DEF Rest, Control, Halted, Started
<1>7. KeyStream' /\ Ending'
  BY <1>1, <1>u, <1>2, <1>3, <1>4, KeysStill, EndStill
<1>8. OutStream'
  <2>1. shown \o Outgoing \in Seq(Nat) /\ reader.data \in Seq(Nat) /\ tty \in Seq(Nat)
        /\ written \in Nat
    BY PlacesAreSequences, ConcatAt
  <2>2. Unharmed => Stream(shown \o Outgoing, reader.data, <<>>, written)
    BY <2>1, StreamMoves DEF Rest, OutStream
  <2> QED
    BY <1>u, <1>2, <1>4, <2>2 DEF OutStream, Unharmed
<1> QED
  BY <1>5, <1>6, <1>7, <1>8 DEF Rest

(* The input thread ends, and says so.                                      *)
LEMMA KeptFeederEnds ==
    ASSUME TerminalTypeOK, Rest, FeederEnds
    PROVE  TerminalTypeOK' /\ Rest'
<1>1. feeder.pc = "end" /\ feeder.msgs = <<>> /\ shell # Nothing /\ Started
  BY DEF FeederEnds, Rest, Control
<1>o. opening = "done"
  BY <1>1, BridgeFacts DEF Rest, Control, Started
<1>u. UNCHANGED <<opening, task, lockedOut, shell, tty, reader, stray, viewer, written, applied,
                  typed, shown>>
  BY DEF FeederEnds
<1>2. /\ feeder' \in [pc : {"off", "check", "poll", "feed", "kill", "end"},
                      msgs : Seq(Keys), closed : BOOLEAN]
      /\ feeder'.pc = "off" /\ feeder'.msgs = <<>> /\ feeder'.closed = feeder.closed
  BY <1>1, BridgeFacts DEF FeederEnds
<1>3. CASE sess' = Push(<<>>, TRUE) /\ endedBy' = EndedBy("feeder") /\ UNCHANGED hitches
  <2>1. /\ sess' \in {Nothing} \cup Sessions
        /\ sess' = Nothing <=> sess = Nothing
        /\ sess' # Nothing => Len(sess'.out) <= Cap /\ Len(sess'.inq) <= MaxKeys
        /\ Buffered' = Buffered /\ Closed' = Closed /\ Outgoing' = Outgoing
        /\ sess # Nothing => sess'.ended = (sess.ended \/ ~lockedOut)
    BY <1>3, PushedEnd
  <2>2. /\ endedBy' \in {"eof", "reader", "feeder", "refused"} /\ endedBy' # Nothing
        /\ endedBy' = "eof" => endedBy = "eof"
    BY <1>3, BridgeFacts, TerminalBounds DEF EndedBy
  <2>3. TerminalTypeOK'
    BY <1>u, <1>2, <1>3, <2>1, <2>2, BridgeFacts, BridgeTypes
  <2>4. Control'
    BY <1>1, <1>o, <1>u, <1>2, <1>3, <2>1 DEF Rest, Control, Halted, Started
  <2>5. KeyStream' /\ OutStream'
    BY <1>1, <1>u, <1>2, <1>3, <2>1, KeysStill, OutStill
  <2>6. Ending'
    <3>1. viewer' = "ended" /\ ~Closed' => sess'.ended
      BY <1>u, <2>1 DEF Rest, Ending, Closed
    <3>2. hitches' = hitches
      BY <1>3
    <3> QED
      BY <1>u, <2>1, <2>2, <3>1, <3>2 DEF Rest, Ending, Unharmed
  <2> QED
    BY <2>3, <2>4, <2>5, <2>6 DEF Rest
<1>4. CASE UNCHANGED <<sess, endedBy>> /\ Hitch
  <2>1. /\ Buffered' = Buffered /\ Closed' = Closed /\ Outgoing' = Outgoing
        /\ hitches' # 0 /\ hitches' \in 0..MaxHitches /\ sess' = sess /\ endedBy' = endedBy
    BY <1>4, Hitches DEF Buffered, Closed, Outgoing
  <2>2. TerminalTypeOK'
    BY <1>u, <1>2, <2>1, BridgeFacts, BridgeTypes
  <2>3. Control'
    BY <1>1, <1>o, <1>u, <1>2, <2>1 DEF Rest, Control, Halted, Started
  <2>4. KeyStream' /\ OutStream' /\ Ending'
    BY <1>1, <1>u, <1>2, <2>1, KeysStill, OutStill, EndStill
  <2> QED
    BY <2>2, <2>3, <2>4 DEF Rest
<1> QED
  BY <1>3, <1>4 DEF FeederEnds

(* The agent stops: what was in its hands is lost.                          *)
LEMMA KeptAgentStops ==
    ASSUME TerminalTypeOK, Rest, AgentStops
    PROVE  TerminalTypeOK' /\ Rest'
<1>1. shell = "alive" /\ Started
  BY DEF AgentStops, Started
<1>o. opening = "done"
  BY <1>1, BridgeFacts DEF Rest, Control, Started
<1>u. /\ UNCHANGED <<sess, opening, task, lockedOut, stray, viewer, written, applied, typed, shown,
                     endedBy>>
      /\ shell' = "dead" /\ tty' = <<>>
  BY DEF AgentStops, hist
<1>2. Buffered' = Buffered /\ Outgoing' = Outgoing /\ Closed' = Closed
  BY <1>u DEF Buffered, Outgoing, Closed
<1>3. /\ feeder' \in [pc : {"off", "check", "poll", "feed", "kill", "end"},
                      msgs : Seq(Keys), closed : BOOLEAN]
      /\ feeder'.pc = "off" /\ feeder'.msgs = <<>> /\ ~feeder'.closed
  BY BridgeFacts DEF AgentStops
<1>4. /\ reader' \in [pc : {"off", "read", "post", "end"}, data : Seq(Chunks), stop : BOOLEAN]
      /\ reader'.pc = "off" /\ reader'.data = <<>> /\ reader'.stop
  BY BridgeFacts DEF AgentStops
<1>5. hitches' # 0 /\ hitches' \in 0..MaxHitches
  BY Hitches DEF AgentStops
<1>6. TerminalTypeOK'
  BY <1>u, <1>3, <1>4, <1>5, BridgeFacts, BridgeTypes
<1>7. Control'
  BY <1>1, <1>o, <1>u, <1>2, <1>3, <1>4, <1>5, BridgeFacts DEF Rest, Control, Halted, Started
<1>8. KeyStream'
  <2>1. Stream(applied, <<>>, Buffered, typed)
    BY PlacesAreSequences, StreamMoves DEF Rest, KeyStream
  <2> QED
    BY <1>u, <1>2, <1>3, <1>5, <2>1 DEF KeyStream
<1>9. OutStream' /\ Ending'
  BY <1>u, <1>2, <1>5 DEF Rest, OutStream, Ending, Unharmed
<1> QED
  BY <1>6, <1>7, <1>8, <1>9 DEF Rest

LEMMA TerminalStarts == TerminalInit => TerminalInv
<1> SUFFICES ASSUME TerminalInit PROVE TerminalInv
  OBVIOUS
<1>1. TerminalTypeOK
  <2>1. <<>> \in Seq(Keys) /\ <<>> \in Seq(Chunks)
    OBVIOUS
  <2>2. 0 \in 0..MaxChunks /\ 0 \in 0..MaxKeys /\ 0 \in 0..MaxHitches
    BY TerminalBounds
  <2>3. /\ reader \in [pc : {"off", "read", "post", "end"}, data : Seq(Chunks), stop : BOOLEAN]
        /\ feeder \in [pc : {"off", "check", "poll", "feed", "kill", "end"},
                       msgs : Seq(Keys), closed : BOOLEAN]
    BY <2>1 DEF TerminalInit
  <2> QED
    BY <2>1, <2>2, <2>3 DEF TerminalInit, TerminalTypeOK
<1>2. Buffered = <<>> /\ Outgoing = <<>> /\ Closed
  BY DEF TerminalInit, Buffered, Outgoing, Closed
<1>3. Control
  <2>1. task = Nothing /\ opening = "new" /\ Nothing # "taken" /\ ~Started
    BY TerminalBounds DEF TerminalInit, Started
  <2>2. /\ reader.pc = "off" /\ reader.data = <<>> /\ reader.stop = FALSE
        /\ feeder.pc = "off" /\ feeder.msgs = <<>> /\ feeder.closed = FALSE
    BY DEF TerminalInit
  <2> QED
    BY <1>2, <2>1, <2>2 DEF TerminalInit, Control
<1>4. <<>> \o <<>> = <<>> /\ Stream(<<>>, <<>>, <<>>, 0)
  BY Empty DEF Stream
<1>5. KeyStream /\ OutStream /\ Ending
  BY <1>2, <1>4 DEF TerminalInit, KeyStream, OutStream, Ending
<1> QED
  BY <1>1, <1>3, <1>5 DEF TerminalInv

LEMMA TerminalStep == TerminalInv /\ [TerminalNext]_terminalVars => TerminalInv'
<1> SUFFICES ASSUME TerminalInv, [TerminalNext]_terminalVars PROVE TerminalInv'
  OBVIOUS
<1>1. TerminalTypeOK /\ Rest
  BY DEF TerminalInv, Rest
<1>2. CASE UNCHANGED terminalVars
  <2>1. UNCHANGED <<sess, opening, task, lockedOut, shell, tty, written, reader, feeder, stray,
                    applied, typed, viewer, shown, endedBy, hitches>>
    BY <1>2 DEF terminalVars, bridge, hist
  <2>2. Buffered' = Buffered /\ Outgoing' = Outgoing /\ Closed' = Closed
    BY <2>1 DEF Buffered, Outgoing, Closed
  <2>3. TerminalTypeOK'
    BY <1>1, <2>1 DEF TerminalTypeOK
  <2>4. Control'
    BY <1>1, <2>1, <2>2 DEF Rest, Control, Halted, Started
  <2>5. KeyStream' /\ OutStream' /\ Ending'
    BY <1>1, <2>1, <2>2, KeysStill, OutStill, EndStill
  <2> QED
    BY <2>3, <2>4, <2>5 DEF TerminalInv
<1>3. CASE TerminalNext
  <2>1. TerminalTypeOK' /\ Rest'
    BY <1>1, <1>3, KeptQuietly, KeptOpen, KeptType, KeptReadTerminal, KeptStart, KeptShell,
       KeptReaderReads, KeptReaderPosts, KeptReaderEnds, KeptFeederChecks, KeptFeederPolls,
       KeptFeederFeeds, KeptFeederKills, KeptFeederEnds, KeptAgentStops
       DEF TerminalNext, Reader, Feeder
  <2> QED
    BY <2>1 DEF TerminalInv, Rest
<1> QED
  BY <1>2, <1>3

(* What the streams in their places say to the one who reads them.          *)
LEMMA StreamsFollow == TerminalInv => StreamsAreWhole
<1> SUFFICES ASSUME TerminalInv PROVE StreamsAreWhole
  OBVIOUS
<1>1. KeysInOrder
  <2>1. Rising(applied \o feeder.msgs \o Buffered)
    BY PlacesAreSequences, StreamMoves DEF TerminalInv, KeyStream
  <2>2. applied \o feeder.msgs \o Buffered \in Seq(Nat)
    BY PlacesAreSequences, ConcatAt DEF TerminalInv
  <2> QED
    BY <2>1, <2>2, RisingIncreases DEF TerminalInv, KeyStream, KeysInOrder
<1>2. OutputComplete
  <2>1. shown \in Seq(Nat) /\ Outgoing \in Seq(Nat) /\ shown \o <<>> = shown
    BY PlacesAreSequences DEF TerminalInv
  <2>2. Unharmed => Increasing(shown)
    BY <2>1, RisingStart, RisingIncreases DEF TerminalInv, OutStream, Stream
  <2>3. Unharmed /\ ~Closed /\ endedBy = "eof" /\ viewer = "ended" => shown = Upto(written)
    BY <2>1 DEF TerminalInv, Ending
  <2> QED
    BY <2>2, <2>3 DEF OutputComplete, Unharmed
<1>3. KilledForAReason
  BY DEF TerminalInv, Control, Halted, KilledForAReason
<1> QED
  BY <1>1, <1>2, <1>3 DEF TerminalInv, StreamsAreWhole

(* Of pty_queue_input and pty_take_input: no loss, repetition or late long  *)
(* poll makes a key reach the shell twice or before an earlier one, and     *)
(* while nothing is lost none is missing; of pty_push_output, read_terminal *)
(* and the output thread of _pty_bridge: a viewer that is told of the end   *)
(* by the end of file has all of the output; and of the input thread: it    *)
(* kills a live shell for a closed or dropped session only.                 *)
THEOREM StreamsStayWhole == TerminalSpec => []StreamsAreWhole
<1>1. TerminalSpec => []TerminalInv
  BY TerminalStarts, TerminalStep, PTL DEF TerminalSpec
<1> QED
  BY <1>1, StreamsFollow, PTL

-----------------------------------------------------------------------------
(* The restore point.                                                       *)

(* The thread is at work on a job, and has staged it.                       *)
AtWork   == agent.pc \in {"stage", "unit", "link", "fail"}
HasTree  == agent.pc \in {"unit", "link"}

(* A point is sealed once, and a job asks for a sealed point.               *)
Sealing ==
    /\ capture.pc # "off" => ~point.sealed
    /\ \A j \in RestoreJobs : jobs[j] # "none" => point.sealed
    /\ \A j \in ready : jobs[j] # "none"

(* One job at a time is on its way to the disk: asked for, staged, armed,   *)
(* applied or reported.                                                     *)
OneOpen ==
    /\ \A i, j \in RestoreJobs : jobs[i] = "open" /\ jobs[j] = "open" => i = j
    /\ AtWork => agent.job \in RestoreJobs /\ jobs[agent.job] = "open" /\ link = 0
    /\ agent.pc = "stage" => agent.job \notin ready
    /\ HasTree => agent.job \in ready /\ result[agent.job] = Missing
    /\ agent.pc = "link" => unit = agent.job
    /\ link # 0 => link \in RestoreJobs /\ jobs[link] = "open"
    /\ \A j \in RestoreJobs : result[j] # Missing => j \in ready /\ link # j

(* What the apply has done so far.                                          *)
Applying ==
    /\ boot = "update" <=> applier.pc # "off"
    /\ boot = "update" => agent.pc = "report"
    /\ applier.pc = "begin" => link # 0
    /\ applier.pc \in {"write", "result"} =>
          /\ unit \in ready
          /\ applier.ok => \A f \in Files \ applier.todo : live[f] = tree[unit][f]
    /\ applier.pc = "result" => applier.todo = {} /\ (result[unit] = "ok" => applier.ok)

RestoreRest == /\ ArmedIsStaged /\ NoBootLoop /\ OkMeansRestored
               /\ Sealing /\ OneOpen /\ Applying
RestoreInv  == RestoreTypeOK /\ RestoreRest

AgentSteps == [pc : {"report", "poll", "stage", "unit", "link", "fail", "reboot"}, job : 0..MaxJobs]
Captures   == [pc : {"off", "manifest", "upload", "seal"}, manifest : Trees, missing : SUBSET Bytes]
Appliers   == [pc : {"off", "begin", "write", "result"}, todo : SUBSET Files, ok : BOOLEAN]

LEMMA RestoreTypes ==
    ASSUME RestoreTypeOK, RestoreRest, [RestoreNext]_restoreVars
    PROVE  RestoreTypeOK'
<1> USE RestorePointBounds DEF hostDisk, cloud
<1>t. /\ AtWork => agent.job \in RestoreJobs
      /\ applier.pc = "write" => unit \in ready
  BY DEF RestoreRest, OneOpen, Applying
<1>b. BootUp => /\ capture' \in Captures
                /\ boot' \in {"normal", "update"}
                /\ agent' \in AgentSteps
                /\ applier' \in Appliers
  <2>1. NoFiles \in Trees /\ 0 \in 0..MaxJobs
    BY DEF NoFiles, Trees
  <2>2. /\ NoCapture \in Captures
        /\ AtStep("report", 0) \in AgentSteps
        /\ NoApply \in Appliers
        /\ [pc |-> "begin", todo |-> {}, ok |-> TRUE] \in Appliers
    BY <2>1 DEF NoCapture, NoApply, AtStep, AgentSteps, Captures, Appliers
  <2> QED
    BY <2>2 DEF BootUp
<1>f. /\ Fault => faults' \in 0..MaxFaults
      /\ NoCapture \in Captures
      /\ RestoreJobs \subseteq 0..MaxJobs
  <2>1. NoFiles \in Trees
    BY DEF NoFiles, Trees
  <2> QED
    BY <2>1 DEF Fault, NoCapture, RestoreJobs, RestoreTypeOK, Captures
<1>g. /\ AtStep("report", 0) \in AgentSteps
      /\ AtStep("poll", 0) \in AgentSteps
      /\ AtStep("reboot", 0) \in AgentSteps
      /\ \A j \in 0..MaxJobs : AtStep("stage", j) \in AgentSteps
      /\ \A j \in 0..MaxJobs : AtStep("unit", j) \in AgentSteps
      /\ \A j \in 0..MaxJobs : AtStep("link", j) \in AgentSteps
      /\ \A j \in 0..MaxJobs : AtStep("fail", j) \in AgentSteps
  BY DEF AtStep, AgentSteps
<1>h. \A t \in Trees : Held(t) \subseteq Bytes
  BY DEF Held, Trees
<1>o. /\ live \in Trees /\ store \in [Bytes -> Bytes \cup {Missing}]
      /\ point \in [manifest : Trees, sealed : BOOLEAN] /\ capture \in Captures
      /\ jobs \in [RestoreJobs -> {"none", "open", "done", "failed"}]
      /\ tree \in [RestoreJobs -> Trees] /\ ready \subseteq RestoreJobs
      /\ unit \in 0..MaxJobs /\ link \in 0..MaxJobs
      /\ result \in [RestoreJobs -> {Missing, "ok", "errors"}]
      /\ boot \in {"normal", "update"} /\ agent \in AgentSteps /\ applier \in Appliers
      /\ stuck \in BOOLEAN /\ changes \in 0..MaxFileChanges /\ faults \in 0..MaxFaults
  BY DEF RestoreTypeOK, AgentSteps, Captures, Appliers
<1>j. agent.job \in 0..MaxJobs
  BY <1>o DEF AgentSteps
<1>n. ASSUME live' \in Trees,
             store' \in [Bytes -> Bytes \cup {Missing}],
             point' \in [manifest : Trees, sealed : BOOLEAN],
             capture' \in Captures,
             jobs' \in [RestoreJobs -> {"none", "open", "done", "failed"}],
             tree' \in [RestoreJobs -> Trees],
             ready' \subseteq RestoreJobs,
             unit' \in 0..MaxJobs,
             link' \in 0..MaxJobs,
             result' \in [RestoreJobs -> {Missing, "ok", "errors"}],
             boot' \in {"normal", "update"},
             agent' \in AgentSteps,
             applier' \in Appliers,
             stuck' \in BOOLEAN,
             changes' \in 0..MaxFileChanges,
             faults' \in 0..MaxFaults
      PROVE  RestoreTypeOK'
  BY <1>n DEF RestoreTypeOK, AgentSteps, Captures, Appliers
<1>u. CASE UNCHANGED restoreVars
  BY <1>u, <1>o, <1>n DEF restoreVars
<1>1. CASE CaptureOpen
  BY <1>1, <1>o, <1>n DEF CaptureOpen, Captures
<1>2. CASE CaptureManifest
  <2>1. /\ capture'.pc = "upload" /\ capture'.manifest = capture.manifest
        /\ capture'.missing \subseteq Held(capture.manifest)
    BY <1>2 DEF CaptureManifest
  <2>2. capture' \in Captures
    BY <1>2, <1>h, <1>o DEF CaptureManifest, Captures
  <2>3. point' \in [manifest : Trees, sealed : BOOLEAN]
    BY <1>2, <1>o DEF CaptureManifest, Captures
  <2> QED
    BY <1>2, <2>2, <2>3, <1>o, <1>n DEF CaptureManifest
<1>3. CASE \E c \in Bytes : CaptureUpload(c)
  <2> PICK c \in Bytes : CaptureUpload(c)
    BY <1>3
  <2>1. capture' \in Captures
    BY <1>o DEF CaptureUpload, Captures
  <2>2. store' \in [Bytes -> Bytes \cup {Missing}]
    BY <1>o DEF CaptureUpload, Trees
  <2> QED
    BY <2>1, <2>2, <1>o, <1>n DEF CaptureUpload
<1>4. CASE CaptureSeal
  BY <1>4, <1>f, <1>o, <1>n DEF CaptureSeal
<1>5. CASE CaptureFails
  BY <1>5, <1>f, <1>o, <1>n DEF CaptureFails
<1>6. CASE \E j \in RestoreJobs : AskRestore(j)
  BY <1>6, <1>o, <1>n DEF AskRestore
<1>7. CASE PollRestore
  BY <1>7, <1>f, <1>o, <1>n, <1>g DEF PollRestore
<1>8. CASE Stage
  <2>1. agent.job \in RestoreJobs
    BY <1>8, <1>t DEF Stage, AtWork
  <2>2. \A f \in Files : point.manifest[f] \in Bytes \cup {Missing}
    BY <1>o DEF Trees
  <2>3. [f \in Files |-> IF point.manifest[f] = Missing THEN Missing
                         ELSE store[point.manifest[f]]] \in Trees
    BY <1>o DEF Trees
  <2>4. tree' \in [RestoreJobs -> Trees]
    BY <1>8, <2>3, <1>o DEF Stage
  <2>5. ready' \subseteq RestoreJobs
    BY <1>8, <2>1, <1>o DEF Stage
  <2>6. agent' \in AgentSteps /\ faults' \in 0..MaxFaults
    BY <1>8, <2>1, <1>o, <1>f, <1>g DEF Stage
  <2> QED
    BY <1>8, <2>4, <2>5, <2>6, <1>o, <1>n DEF Stage
<1>9. CASE ArmUnit
  BY <1>9, <1>f, <1>o, <1>n, <1>g, <1>j DEF ArmUnit
<1>10. CASE ArmLink
  BY <1>10, <1>f, <1>o, <1>n, <1>g, <1>j DEF ArmLink
<1>11. CASE ReportFailure
  <2>1. jobs' \in [RestoreJobs -> {"none", "open", "done", "failed"}]
    BY <1>11, <1>o DEF ReportFailure
  <2>2. stuck' \in BOOLEAN /\ faults' \in 0..MaxFaults
    BY <1>11, <1>f, <1>o DEF ReportFailure
  <2> QED
    BY <1>11, <1>o, <1>n, <1>f, <1>g DEF ReportFailure
<1>12. CASE Reboot
  BY <1>12, <1>b, <1>o, <1>n DEF Reboot
<1>13. CASE PowerLoss
  BY <1>13, <1>b, <1>f, <1>o, <1>n DEF PowerLoss
<1>14. CASE AgentRestart
  BY <1>14, <1>f, <1>o, <1>n, <1>g DEF AgentRestart
<1>15. CASE ApplyBegin
  BY <1>15, <1>o, <1>n DEF ApplyBegin, Unlinked, Appliers
<1>16. CASE \E f \in Files : ApplyFile(f)
  <2> PICK f \in Files : ApplyFile(f)
    BY <1>16
  <2>1. unit \in RestoreJobs
    BY <1>t, <1>o DEF ApplyFile
  <2>2. live' \in Trees
    BY <2>1, <1>o DEF ApplyFile, Trees
  <2>3. applier' \in Appliers
    <3> DEFINE rest == applier.todo \ {f}
    <3>1. rest \in SUBSET Files
      BY <1>o DEF Appliers
    <3>2. \/ applier' = [applier EXCEPT !.todo = rest]
          \/ applier' = [applier EXCEPT !.todo = rest, !.ok = FALSE]
      BY DEF ApplyFile
    <3> HIDE DEF rest
    <3> QED
      BY <1>o, <3>1, <3>2 DEF Appliers
  <2>4. faults' \in 0..MaxFaults
    BY <1>f, <1>o DEF ApplyFile
  <2> QED
    BY <2>2, <2>3, <1>o, <1>n, <1>f DEF ApplyFile
<1>17. CASE ApplyResult
  BY <1>17, <1>o, <1>n DEF ApplyResult, Outcome, Appliers
<1>18. CASE ApplyReboot
  BY <1>18, <1>b, <1>o, <1>n DEF ApplyReboot
<1>19. CASE ReportResult
  <2>1. jobs' \in [RestoreJobs -> {"none", "open", "done", "failed"}]
    BY <1>19, <1>o DEF ReportResult, ApplyVerdict
  <2>2. result' \in [RestoreJobs -> {Missing, "ok", "errors"}]
    BY <1>19, <1>o DEF ReportResult
  <2>3. agent' \in AgentSteps /\ stuck' \in BOOLEAN /\ faults' \in 0..MaxFaults
    BY <1>19, <1>f, <1>o, <1>g DEF ReportResult
  <2> QED
    BY <1>19, <2>1, <1>o, <1>n, <1>f, <1>g DEF ReportResult
<1>20. CASE \E f \in Files : FileChanges(f)
  BY <1>20, <1>o, <1>n DEF FileChanges, Trees
<1> QED
  BY <1>u, <1>1, <1>2, <1>3, <1>4, <1>5, <1>6, <1>7, <1>8, <1>9, <1>10, <1>11, <1>12, <1>13,
     <1>14, <1>15, <1>16, <1>17, <1>18, <1>19, <1>20
     DEF RestoreNext, AgentStep, ApplyStep, CaptureStep

(* What is armed has been staged.                                          *)
LEMMA KeepsArmedIsStaged ==
    ASSUME RestoreTypeOK, RestoreRest, RestoreTypeOK', [RestoreNext]_restoreVars
    PROVE  ArmedIsStaged'
<1>0. \/ UNCHANGED <<link, unit, ready, tree, point>>
      \/ CaptureManifest
      \/ CaptureSeal
      \/ Stage
      \/ ArmUnit
      \/ ArmLink
      \/ ApplyBegin
  BY DEF restoreVars, hostDisk, cloud, RestoreNext, AgentStep, ApplyStep, CaptureStep,
     CaptureOpen, CaptureUpload, CaptureFails, AskRestore, PollRestore, ReportFailure,
     Reboot, PowerLoss, AgentRestart, ApplyFile, ApplyResult, ApplyReboot, ReportResult,
     FileChanges
<1>u. CASE UNCHANGED <<link, unit, ready, tree, point>>
  BY <1>u DEF RestoreRest, ArmedIsStaged
<1>1. CASE CaptureManifest
  BY ZenonT(30), <1>1, RestorePointBounds
     DEF CaptureManifest, hostDisk, cloud, RestoreTypeOK, RestoreRest, RestoreJobs, Trees,
         ArmedIsStaged, Sealing, OneOpen, AtWork, HasTree
<1>2. CASE CaptureSeal
  BY <1>2 DEF CaptureSeal, hostDisk, RestoreRest, ArmedIsStaged
<1>3. CASE Stage
  BY <1>3
     DEF Stage, Genuine, Held, cloud, RestoreTypeOK, RestoreRest, Trees, ArmedIsStaged,
         OneOpen, AtWork
<1>4. CASE ArmUnit
  BY <1>4 DEF ArmUnit, cloud, RestoreRest, ArmedIsStaged, OneOpen, AtWork
<1>5. CASE ArmLink
  BY <1>5 DEF ArmLink, cloud, RestoreRest, ArmedIsStaged, OneOpen, HasTree
<1>6. CASE ApplyBegin
  BY <1>6 DEF ApplyBegin, Unlinked, cloud, RestoreRest, ArmedIsStaged
<1> QED
  BY <1>0, <1>u, <1>1, <1>2, <1>3, <1>4, <1>5, <1>6

(* The link goes first.                                                    *)
LEMMA KeepsNoBootLoop ==
    ASSUME RestoreTypeOK, RestoreRest, RestoreTypeOK', [RestoreNext]_restoreVars
    PROVE  NoBootLoop'
<1>0. \/ UNCHANGED <<boot, applier, link>>
      \/ ArmLink
      \/ Reboot
      \/ PowerLoss
      \/ ApplyBegin
      \/ \E f \in Files : ApplyFile(f)
      \/ ApplyResult
      \/ ApplyReboot
  BY DEF restoreVars, hostDisk, RestoreNext, AgentStep, ApplyStep, CaptureStep, CaptureOpen,
     CaptureManifest, CaptureUpload, CaptureSeal, CaptureFails, AskRestore, PollRestore,
     Stage, ArmUnit, ReportFailure, AgentRestart, ReportResult, FileChanges
<1>u. CASE UNCHANGED <<boot, applier, link>>
  BY <1>u DEF RestoreRest, NoBootLoop
<1>1. CASE ArmLink
  BY <1>1 DEF ArmLink, NoBootLoop
<1>2. CASE Reboot
  BY <1>2 DEF Reboot, BootUp, NoBootLoop
<1>3. CASE PowerLoss
  BY <1>3 DEF PowerLoss, BootUp, NoBootLoop
<1>4. CASE ApplyBegin
  BY <1>4 DEF ApplyBegin, Unlinked, NoBootLoop
<1>5. CASE \E f \in Files : ApplyFile(f)
  BY <1>5 DEF ApplyFile, RestoreRest, NoBootLoop
<1>6. CASE ApplyResult
  BY <1>6 DEF ApplyResult, RestoreRest, NoBootLoop
<1>7. CASE ApplyReboot
  BY <1>7 DEF ApplyReboot, hostDisk, RestoreRest, NoBootLoop
<1> QED
  BY <1>0, <1>u, <1>1, <1>2, <1>3, <1>4, <1>5, <1>6, <1>7

(* What is reported as done was applied.                                   *)
LEMMA KeepsOkMeansRestored ==
    ASSUME RestoreTypeOK, RestoreRest, RestoreTypeOK', [RestoreNext]_restoreVars
    PROVE  OkMeansRestored'
<1>0. \/ UNCHANGED <<boot, applier, result, unit, live, point, jobs, ready>>
      \/ CaptureManifest
      \/ CaptureSeal
      \/ \E j \in RestoreJobs : AskRestore(j)
      \/ Stage
      \/ ArmUnit
      \/ ReportFailure
      \/ Reboot
      \/ PowerLoss
      \/ ApplyBegin
      \/ \E f \in Files : ApplyFile(f)
      \/ ApplyResult
      \/ ApplyReboot
      \/ ReportResult
      \/ \E f \in Files : FileChanges(f)
  BY DEF restoreVars, hostDisk, cloud, RestoreNext, AgentStep, ApplyStep, CaptureStep,
     CaptureOpen, CaptureUpload, CaptureFails, PollRestore, ArmLink, AgentRestart
<1>u. CASE UNCHANGED <<boot, applier, result, unit, live, point, jobs, ready>>
  BY <1>u DEF RestoreRest, OkMeansRestored
<1>1. CASE CaptureManifest
  <2>1. ready = {} /\ \A j \in RestoreJobs : jobs[j] = "none"
    BY <1>1 DEF CaptureManifest, RestoreTypeOK, RestoreRest, Sealing
  <2> QED
    BY <1>1, <2>1 DEF CaptureManifest, RestoreRest, Applying, OkMeansRestored
<1>2. CASE CaptureSeal
  BY <1>2 DEF CaptureSeal, RestoreTypeOK, RestoreRest, OkMeansRestored, Sealing, Applying
<1>3. CASE \E j \in RestoreJobs : AskRestore(j)
  BY <1>3 DEF AskRestore, hostDisk, RestoreRest, OkMeansRestored
<1>4. CASE Stage
  BY <1>4 DEF Stage, cloud, RestoreRest, OkMeansRestored
<1>5. CASE ArmUnit
  BY <1>5 DEF ArmUnit, cloud, RestoreRest, OkMeansRestored
<1>6. CASE ReportFailure
  BY <1>6 DEF ReportFailure, hostDisk, RestoreTypeOK, RestoreRest, OkMeansRestored
<1>7. CASE Reboot
  BY <1>7 DEF Reboot, BootUp, hostDisk, cloud, RestoreRest, OkMeansRestored
<1>8. CASE PowerLoss
  BY <1>8 DEF PowerLoss, BootUp, hostDisk, cloud, RestoreRest, OkMeansRestored
<1>9. CASE ApplyBegin
  BY <1>9 DEF ApplyBegin, cloud, RestoreRest, OkMeansRestored
<1>10. CASE \E f \in Files : ApplyFile(f)
  BY ZenonT(30), <1>10, RestorePointBounds
     DEF ApplyFile, hostDisk, cloud, RestoreTypeOK, RestoreRest, RestoreJobs, Trees,
         OkMeansRestored, ArmedIsStaged, Sealing, OneOpen, Applying, AtWork
<1>11. CASE ApplyResult
  BY <1>11
     DEF ApplyResult, Outcome, cloud, RestoreTypeOK, RestoreRest, Trees, OkMeansRestored,
         ArmedIsStaged, Applying
<1>12. CASE ApplyReboot
  BY <1>12 DEF ApplyReboot, hostDisk, cloud, RestoreRest, OkMeansRestored
<1>13. CASE ReportResult
  BY <1>13
     DEF ReportResult, Reports, RestoreTypeOK, RestoreRest, OkMeansRestored, Sealing, OneOpen
<1>14. CASE \E f \in Files : FileChanges(f)
  BY <1>14 DEF FileChanges, cloud, RestoreRest, OkMeansRestored
<1> QED
  BY <1>0, <1>u, <1>1, <1>2, <1>3, <1>4, <1>5, <1>6, <1>7, <1>8, <1>9, <1>10, <1>11, <1>12,
     <1>13, <1>14

LEMMA KeepsSealing ==
    ASSUME RestoreTypeOK, RestoreRest, RestoreTypeOK', [RestoreNext]_restoreVars
    PROVE  Sealing'
<1>0. \/ UNCHANGED <<capture, point, jobs, ready>>
      \/ CaptureOpen
      \/ CaptureManifest
      \/ \E c \in Bytes : CaptureUpload(c)
      \/ CaptureSeal
      \/ CaptureFails
      \/ \E j \in RestoreJobs : AskRestore(j)
      \/ Stage
      \/ ReportFailure
      \/ Reboot
      \/ PowerLoss
      \/ AgentRestart
      \/ ApplyReboot
      \/ ReportResult
  BY DEF restoreVars, hostDisk, cloud, RestoreNext, AgentStep, ApplyStep, CaptureStep,
     PollRestore, ArmUnit, ArmLink, ApplyBegin, ApplyFile, ApplyResult, FileChanges
<1>u. CASE UNCHANGED <<capture, point, jobs, ready>>
  BY <1>u DEF RestoreRest, Sealing
<1>1. CASE CaptureOpen
  BY <1>1 DEF CaptureOpen, hostDisk, cloud, RestoreRest, Sealing
<1>2. CASE CaptureManifest
  BY <1>2 DEF CaptureManifest, hostDisk, RestoreRest, Sealing
<1>3. CASE \E c \in Bytes : CaptureUpload(c)
  BY <1>3 DEF CaptureUpload, hostDisk, RestoreRest, Sealing
<1>4. CASE CaptureSeal
  BY <1>4 DEF CaptureSeal, NoCapture, hostDisk, RestoreRest, Sealing
<1>5. CASE CaptureFails
  BY <1>5 DEF CaptureFails, hostDisk, cloud, RestoreRest, Sealing
<1>6. CASE \E j \in RestoreJobs : AskRestore(j)
  BY <1>6 DEF AskRestore, hostDisk, RestoreRest, Sealing
<1>7. CASE Stage
  BY <1>7 DEF Stage, cloud, RestoreRest, Sealing, OneOpen, AtWork
<1>8. CASE ReportFailure
  BY <1>8 DEF ReportFailure, hostDisk, RestoreTypeOK, RestoreRest, Sealing, OneOpen, AtWork
<1>9. CASE Reboot
  BY <1>9 DEF Reboot, BootUp, NoCapture, hostDisk, cloud, RestoreRest, Sealing
<1>10. CASE PowerLoss
  BY <1>10 DEF PowerLoss, BootUp, NoCapture, hostDisk, cloud, RestoreRest, Sealing
<1>11. CASE AgentRestart
  BY <1>11 DEF AgentRestart, NoCapture, hostDisk, cloud, RestoreRest, Sealing
<1>12. CASE ApplyReboot
  BY <1>12 DEF ApplyReboot, BootUp, NoCapture, hostDisk, cloud, RestoreRest, Sealing
<1>13. CASE ReportResult
  BY <1>13 DEF ReportResult, Reports, ApplyVerdict, RestoreTypeOK, RestoreRest, Sealing, OneOpen
<1> QED
  BY <1>0, <1>u, <1>1, <1>2, <1>3, <1>4, <1>5, <1>6, <1>7, <1>8, <1>9, <1>10, <1>11, <1>12,
     <1>13

LEMMA KeepsOneOpen ==
    ASSUME RestoreTypeOK, RestoreRest, RestoreTypeOK', [RestoreNext]_restoreVars
    PROVE  OneOpen'
<1>0. \/ UNCHANGED <<jobs, agent, ready, link, unit, result>>
      \/ \E j \in RestoreJobs : AskRestore(j)
      \/ PollRestore
      \/ Stage
      \/ ArmUnit
      \/ ArmLink
      \/ ReportFailure
      \/ Reboot
      \/ PowerLoss
      \/ AgentRestart
      \/ ApplyBegin
      \/ ApplyResult
      \/ ApplyReboot
      \/ ReportResult
  BY DEF restoreVars, hostDisk, cloud, RestoreNext, AgentStep, ApplyStep, CaptureStep,
     CaptureOpen, CaptureManifest, CaptureUpload, CaptureSeal, CaptureFails, ApplyFile,
     FileChanges
<1>u. CASE UNCHANGED <<jobs, agent, ready, link, unit, result>>
  BY <1>u DEF RestoreRest, OneOpen, AtWork, HasTree
<1>1. CASE \E j \in RestoreJobs : AskRestore(j)
  BY <1>1 DEF AskRestore, hostDisk, RestoreRest, OneOpen, AtWork, HasTree
<1>2. CASE PollRestore
  BY <1>2 DEF PollRestore, AtStep, hostDisk, cloud, RestoreRest, OneOpen, ArmedIsStaged, HasTree
<1>3. CASE Stage
  BY <1>3 DEF Stage, AtStep, cloud, RestoreRest, OneOpen, AtWork, HasTree
<1>4. CASE ArmUnit
  BY <1>4 DEF ArmUnit, AtStep, cloud, RestoreRest, OneOpen, AtWork, HasTree
<1>5. CASE ArmLink
  BY <1>5 DEF ArmLink, AtStep, cloud, RestoreRest, OneOpen, AtWork, HasTree
<1>6. CASE ReportFailure
  BY <1>6
     DEF ReportFailure, AtStep, hostDisk, RestoreTypeOK, RestoreRest, OneOpen, AtWork, HasTree
<1>7. CASE Reboot
  BY <1>7 DEF Reboot, BootUp, AtStep, hostDisk, cloud, RestoreRest, OneOpen, AtWork, HasTree
<1>8. CASE PowerLoss
  BY <1>8 DEF PowerLoss, BootUp, AtStep, hostDisk, cloud, RestoreRest, OneOpen, AtWork, HasTree
<1>9. CASE AgentRestart
  BY <1>9 DEF AgentRestart, AtStep, hostDisk, cloud, RestoreRest, OneOpen, AtWork, HasTree
<1>10. CASE ApplyBegin
  BY <1>10 DEF ApplyBegin, Unlinked, cloud, RestoreRest, RestoreJobs, OneOpen, AtWork, HasTree
<1>11. CASE ApplyResult
  BY <1>11
     DEF ApplyResult, cloud, RestoreRest, RestoreJobs, OneOpen, NoBootLoop, Applying, AtWork,
         HasTree
<1>12. CASE ApplyReboot
  BY <1>12
     DEF ApplyReboot, BootUp, AtStep, hostDisk, cloud, RestoreRest, OneOpen, AtWork, HasTree
<1>13. CASE ReportResult
  BY <1>13
     DEF ReportResult, Reports, ApplyVerdict, AtStep, RestoreTypeOK, RestoreRest, RestoreJobs,
         OneOpen, AtWork, HasTree
<1> QED
  BY <1>0, <1>u, <1>1, <1>2, <1>3, <1>4, <1>5, <1>6, <1>7, <1>8, <1>9, <1>10, <1>11, <1>12,
     <1>13

LEMMA KeepsApplying ==
    ASSUME RestoreTypeOK, RestoreRest, RestoreTypeOK', [RestoreNext]_restoreVars
    PROVE  Applying'
<1>0. \/ UNCHANGED <<boot, applier, agent, link, unit, ready, live, tree, result>>
      \/ PollRestore
      \/ Stage
      \/ ArmUnit
      \/ ArmLink
      \/ ReportFailure
      \/ Reboot
      \/ PowerLoss
      \/ AgentRestart
      \/ ApplyBegin
      \/ \E f \in Files : ApplyFile(f)
      \/ ApplyResult
      \/ ApplyReboot
      \/ ReportResult
      \/ \E f \in Files : FileChanges(f)
  BY DEF restoreVars, hostDisk, RestoreNext, AgentStep, ApplyStep, CaptureStep, CaptureOpen,
     CaptureManifest, CaptureUpload, CaptureSeal, CaptureFails, AskRestore
<1>u. CASE UNCHANGED <<boot, applier, agent, link, unit, ready, live, tree, result>>
  BY <1>u DEF RestoreRest, Applying
<1>1. CASE PollRestore
  BY <1>1 DEF PollRestore, RestoreRest, Applying
<1>2. CASE Stage
  BY <1>2 DEF Stage, RestoreRest, Applying
<1>3. CASE ArmUnit
  BY <1>3 DEF ArmUnit, RestoreRest, Applying
<1>4. CASE ArmLink
  BY <1>4 DEF ArmLink, RestoreRest, Applying
<1>5. CASE ReportFailure
  BY <1>5 DEF ReportFailure, RestoreRest, Applying
<1>6. CASE Reboot
  BY <1>6 DEF Reboot, BootUp, NoApply, AtStep, hostDisk, Applying
<1>7. CASE PowerLoss
  BY <1>7 DEF PowerLoss, BootUp, NoApply, AtStep, hostDisk, Applying
<1>8. CASE AgentRestart
  BY <1>8 DEF AgentRestart, RestoreRest, Applying
<1>9. CASE ApplyBegin
  BY <1>9 DEF ApplyBegin, RestoreRest, Applying
<1>10. CASE \E f \in Files : ApplyFile(f)
  <2> PICK f \in Files : ApplyFile(f)
    BY <1>10
  <2>1. /\ applier.pc = "write" /\ unit \in ready /\ unit \in RestoreJobs
        /\ UNCHANGED <<unit, ready, tree, boot, agent, link>>
        /\ applier'.pc = "write" /\ applier'.todo = applier.todo \ {f}
    BY DEF ApplyFile, RestoreTypeOK, RestoreRest, Applying
  <2>2. applier'.ok => applier.ok /\ live' = [live EXCEPT ![f] = tree[unit][f]]
    BY DEF ApplyFile, RestoreTypeOK
  <2>3. ASSUME applier'.ok, NEW g \in Files \ applier'.todo
        PROVE  live'[g] = tree'[unit'][g]
    <3>1. live \in [Files -> Bytes \cup {Missing}]
      BY DEF RestoreTypeOK, Trees
    <3>2. CASE g = f
      BY <2>1, <2>2, <2>3, <3>1, <3>2
    <3>3. CASE g # f
      <4>1. g \in Files \ applier.todo /\ live'[g] = live[g]
        BY <2>1, <2>2, <2>3, <3>1, <3>3
      <4> QED
        BY <2>1, <2>2, <2>3, <4>1 DEF RestoreRest, Applying
    <3> QED
      BY <3>2, <3>3
  <2> QED
    BY <2>1, <2>3 DEF RestoreRest, Applying
<1>11. CASE ApplyResult
  BY <1>11 DEF ApplyResult, Outcome, RestoreTypeOK, RestoreRest, Applying
<1>12. CASE ApplyReboot
  BY <1>12 DEF ApplyReboot, BootUp, NoApply, AtStep, hostDisk, Applying
<1>13. CASE ReportResult
  BY <1>13 DEF ReportResult, RestoreRest, Applying
<1>14. CASE \E f \in Files : FileChanges(f)
  BY <1>14 DEF FileChanges, RestoreRest, Applying
<1> QED
  BY <1>0, <1>u, <1>1, <1>2, <1>3, <1>4, <1>5, <1>6, <1>7, <1>8, <1>9, <1>10, <1>11, <1>12,
     <1>13, <1>14

LEMMA RestoreKept == RestoreSpec => []RestoreInv
<1>1. RestoreInit => RestoreInv
  <2> SUFFICES ASSUME RestoreInit PROVE RestoreInv
    OBVIOUS
  <2>1. RestoreTypeOK
    <3>1. NoFiles \in Trees /\ live \in Trees
      BY DEF RestoreInit, NoFiles, Trees
    <3>2. capture \in Captures /\ applier \in Appliers /\ agent \in AgentSteps
      BY <3>1, RestorePointBounds
         DEF RestoreInit, NoCapture, NoApply, AtStep, Captures, Appliers, AgentSteps
    <3>3. /\ store \in [Bytes -> Bytes \cup {Missing}]
          /\ point \in [manifest : Trees, sealed : BOOLEAN]
          /\ tree \in [RestoreJobs -> Trees]
      BY <3>1 DEF RestoreInit
    <3>4. /\ jobs \in [RestoreJobs -> {"none", "open", "done", "failed"}]
          /\ result \in [RestoreJobs -> {Missing, "ok", "errors"}]
      BY DEF RestoreInit
    <3>5. /\ ready = {} /\ unit = 0 /\ link = 0 /\ boot = "normal" /\ stuck = FALSE
          /\ changes = 0 /\ faults = 0 /\ 0 \in 0..MaxJobs /\ 0 \in 0..MaxFileChanges
          /\ 0 \in 0..MaxFaults
      BY RestorePointBounds DEF RestoreInit
    <3> QED
      BY <3>1, <3>2, <3>3, <3>4, <3>5 DEF RestoreTypeOK, Captures, Appliers, AgentSteps
  <2>2. RestoreRest
    BY DEF RestoreInit, RestoreRest, ArmedIsStaged, NoBootLoop, OkMeansRestored, Sealing,
       OneOpen, Applying, AtWork, HasTree, NoApply, AtStep
  <2> QED
    BY <2>1, <2>2 DEF RestoreInv
<1>2. RestoreInv /\ [RestoreNext]_restoreVars => RestoreInv'
  <2> SUFFICES ASSUME RestoreTypeOK, RestoreRest, [RestoreNext]_restoreVars PROVE RestoreInv'
    BY DEF RestoreInv
  <2>1. RestoreTypeOK'
    BY RestoreTypes
  <2> QED
    BY <2>1, KeepsArmedIsStaged, KeepsNoBootLoop, KeepsOkMeansRestored, KeepsSealing,
       KeepsOneOpen, KeepsApplying
       DEF RestoreInv, RestoreRest
<1> QED
  BY <1>1, <1>2, PTL DEF RestoreSpec

-----------------------------------------------------------------------------
(* The backup of a host's files.                                            *)

(* Where the thread stands, and what it carries there.                      *)
ThreadSteps ==
    [at : {"asleep", "poll"}]
      \cup [at : {"read"}, then : {"poll", "asleep"}]
      \cup [at : {"send"}, then : {"poll", "asleep"}, content : Nat]
      \cup [at : {"handed"}, restore : BOOLEAN, capture : BOOLEAN]
      \cup [at : {"fetch", "copy"}, capture : BOOLEAN]
      \cup [at : {"write", "replace"}, capture : BOOLEAN, met : Nat]
      \cup [at : {"ack"}, ok : BOOLEAN, capture : BOOLEAN]

RestoreStates == {"none", "pending", "applied", "failed"}

(* What is read, or met, is a content of the file.                          *)
Carrying ==
    /\ backupThread \in ThreadSteps
    /\ restore \in [version : Nat, allowed : BOOLEAN, state : RestoreStates]
    /\ wish \in BOOLEAN
    /\ writes \in Nat /\ restores \in Nat /\ wishes \in Nat /\ troubles \in Nat
    /\ file \in 1..newest
    /\ backupThread.at = "send" => backupThread.content \in 1..newest
    /\ backupThread.at \in {"write", "replace"} =>
          backupThread.met = Torn \/ backupThread.met \in kept

(* The thread restores what Flashback still waits for, and no other restore *)
(* is queued meanwhile.                                                     *)
Restoring ==
    /\ Pending => restore.version \in stored
    /\ backupThread.at \in {"fetch", "copy", "write", "replace", "ack"} => Pending
    /\ backupThread.at = "handed" /\ backupThread.restore => Pending

(* The report of a write is on its way, or was lost.                        *)
Reporting ==
    Pending /\ writes > 0 => unheard \/ (/\ backupThread.at = "ack" /\ backupThread.ok
                                         /\ writes = 1)

BackupInv == BackupIsSound /\ Carrying /\ Restoring /\ Reporting

LEMMA ThreadForms ==
    /\ Asleep \in ThreadSteps /\ [at |-> "poll"] \in ThreadSteps
    /\ \A then \in {"poll", "asleep"} :
          /\ [at |-> then] \in ThreadSteps
          /\ [at |-> "read", then |-> then] \in ThreadSteps
          /\ \A content \in Nat :
                [at |-> "send", then |-> then, content |-> content] \in ThreadSteps
    /\ \A wanted \in BOOLEAN :
          /\ \A r \in BOOLEAN :
                [at |-> "handed", restore |-> r, capture |-> wanted] \in ThreadSteps
          /\ [at |-> "fetch", capture |-> wanted] \in ThreadSteps
          /\ [at |-> "copy", capture |-> wanted] \in ThreadSteps
          /\ \A met \in Nat :
                [at |-> "write", capture |-> wanted, met |-> met] \in ThreadSteps
          /\ \A ok \in BOOLEAN :
                [at |-> "ack", ok |-> ok, capture |-> wanted] \in ThreadSteps
<1>1. Asleep \in ThreadSteps /\ [at |-> "poll"] \in ThreadSteps
  BY DEF ThreadSteps, Asleep
<1>2. ASSUME NEW then \in {"poll", "asleep"}
      PROVE  [at |-> then] \in ThreadSteps /\ [at |-> "read", then |-> then] \in ThreadSteps
  BY DEF ThreadSteps
<1>3. ASSUME NEW then \in {"poll", "asleep"}, NEW content \in Nat
      PROVE  [at |-> "send", then |-> then, content |-> content] \in ThreadSteps
  BY DEF ThreadSteps
<1>4. ASSUME NEW wanted \in BOOLEAN, NEW r \in BOOLEAN
      PROVE  /\ [at |-> "handed", restore |-> r, capture |-> wanted] \in ThreadSteps
             /\ [at |-> "ack", ok |-> r, capture |-> wanted] \in ThreadSteps
  BY DEF ThreadSteps
<1>5. ASSUME NEW wanted \in BOOLEAN
      PROVE  /\ [at |-> "fetch", capture |-> wanted] \in ThreadSteps
             /\ [at |-> "copy", capture |-> wanted] \in ThreadSteps
  BY DEF ThreadSteps
<1>6. ASSUME NEW wanted \in BOOLEAN, NEW met \in Nat
      PROVE  [at |-> "write", capture |-> wanted, met |-> met] \in ThreadSteps
  BY DEF ThreadSteps
<1> QED
  BY <1>1, <1>2, <1>3, <1>4, <1>5, <1>6

LEMMA BackupStarts == BackupInit => BackupInv
<1> SUFFICES ASSUME BackupInit PROVE BackupInv
  OBVIOUS
<1> USE DEF BackupInit
<1>1. BackupIsSound
  BY BackupBounds
     DEF BackupIsSound, BackupTypeOK, FileIsWhole, ReplacedIsKept, OnceUnlessUnheard,
         NoRestore, Asleep, Torn
<1>2. Carrying
  <2>1. backupThread \in ThreadSteps
    BY ThreadForms
  <2>2. restore \in [version : Nat, allowed : BOOLEAN, state : RestoreStates]
    BY DEF NoRestore, RestoreStates
  <2>3. backupThread.at = "asleep"
    BY DEF Asleep
  <2> HIDE DEF BackupInit
  <2>4. /\ file \in 1..newest
        /\ writes \in Nat /\ restores \in Nat /\ wishes \in Nat /\ troubles \in Nat
    BY DEF BackupInit
  <2>5. wish \in BOOLEAN
    BY DEF BackupInit
  <2> QED
    BY <2>1, <2>2, <2>3, <2>4, <2>5 DEF Carrying
<1>3. Restoring /\ Reporting
  BY DEF Restoring, Reporting, NoRestore, Asleep, Pending
<1> QED
  BY <1>1, <1>2, <1>3 DEF BackupInv

(* What a step makes of the thread is where it may stand.                   *)
LEMMA ThreadGoes ==
    ASSUME BackupInv, [BackupNext]_backupVars
    PROVE  backupThread' \in ThreadSteps
<1>o. /\ backupThread \in ThreadSteps /\ file \in Nat
      /\ backupThread.at = "send" => backupThread.content \in Nat
  BY DEF BackupInv, Carrying
<1>a. ASSUME backupThread.at \in {"handed", "fetch", "copy", "write", "replace", "ack"}
      PROVE  backupThread.capture \in BOOLEAN
  BY <1>a, <1>o DEF ThreadSteps
<1>s. Asleep \in ThreadSteps /\ ThenAsleep \in ThreadSteps
  BY ThreadForms DEF ThenAsleep
<1>1. CASE backupThread' = backupThread
  BY <1>1, <1>o
<1>2. CASE AgentDies
  BY <1>2, <1>s DEF AgentDies, Goes
<1>3. CASE CaptureRound
  BY <1>3, ThreadForms DEF CaptureRound, CaptureDue, Goes
<1>4. CASE PollRound
  BY <1>4, ThreadForms DEF PollRound, Goes
<1>5. CASE Read
  <2>1. backupThread.then \in {"poll", "asleep"}
    BY <1>5, <1>o DEF Read, ThreadSteps
  <2> QED
    BY <1>5, <1>o, <2>1, ThreadForms DEF Read, Collected, Goes
<1>6. CASE Send
  <2>1. backupThread.then \in {"poll", "asleep"}
    BY <1>6, <1>o DEF Send, ThreadSteps
  <2> QED
    BY <1>6, <2>1, ThreadForms DEF Send, Goes
<1>7. CASE PollRestores
  <2>1. Pending \in BOOLEAN /\ wish \in BOOLEAN
    BY DEF Pending, BackupInv, Carrying
  <2> QED
    BY <1>7, <2>1, ThreadForms DEF PollRestores, Goes
<1>8. CASE Receive
  BY <1>8, <1>a, <1>s, ThreadForms DEF Receive, Goes
<1>9. CASE Fetch
  BY <1>9, <1>a, <1>s, ThreadForms DEF Fetch, Refuse, Goes
<1>10. CASE Copy
  BY <1>10, <1>a, <1>o, ThreadForms DEF Copy, Goes, Torn
<1>11. CASE WriteTmp
  <2>1. backupThread \in [at : {"write", "replace"}, capture : BOOLEAN, met : Nat]
    BY <1>11, <1>o DEF WriteTmp, ThreadSteps
  <2>2. [backupThread EXCEPT !.at = "replace"] \in ThreadSteps
    BY <2>1 DEF ThreadSteps
  <2> QED
    BY <1>11, <1>a, <2>2, ThreadForms DEF WriteTmp, Goes
<1>12. CASE Replace
  BY <1>12, <1>a, ThreadForms DEF Replace, Goes
<1>13. CASE Ack
  BY <1>13, <1>s DEF Ack, Goes
<1> QED
  BY <1>1, <1>2, <1>3, <1>4, <1>5, <1>6, <1>7, <1>8, <1>9, <1>10, <1>11, <1>12, <1>13
     DEF BackupNext, ThreadStep, EditFile, AskCapture, QueueRestore, backupVars

LEMMA TypeKept ==
    ASSUME BackupInv, [BackupNext]_backupVars
    PROVE  BackupTypeOK'
<1> USE BackupBounds DEF Torn
<1>o. /\ BackupTypeOK /\ FileIsWhole /\ ReplacedIsKept /\ OnceUnlessUnheard
      /\ Carrying /\ Restoring /\ Reporting
  BY DEF BackupInv, BackupIsSound
<1>t. backupThread'.at \in {"asleep", "read", "send", "poll", "handed", "fetch", "copy",
                          "write", "replace", "ack"}
  BY ThreadGoes DEF ThreadSteps
<1>1. CASE EditFile
  BY <1>1, <1>o DEF EditFile, BackupTypeOK
<1>2. CASE AskCapture
  BY <1>2, <1>o DEF AskCapture, BackupTypeOK, Carrying
<1>3. CASE QueueRestore
  BY <1>3, <1>o DEF QueueRestore, BackupTypeOK, Carrying
<1>4. CASE CaptureRound
  BY <1>4, <1>o, <1>t DEF CaptureRound, BackupTypeOK
<1>5. CASE PollRound
  BY <1>5, <1>o, <1>t DEF PollRound, BackupTypeOK
<1>6. CASE Read
  BY <1>6, <1>o, <1>t DEF Read, BackupTypeOK
<1>7. CASE Send
  <2>1. stored' \subseteq 1..newest /\ stored \subseteq stored'
    BY <1>7, <1>o DEF Send, BackupTypeOK, Carrying
  <2>2. troubles' <= MaxTroubles
    BY <1>7, <1>o DEF Send, HadTrouble, BackupTypeOK, Carrying
  <2> QED
    BY <1>7, <1>o, <1>t, <2>1, <2>2 DEF Send, BackupTypeOK
<1>8. CASE PollRestores
  BY <1>8, <1>o, <1>t DEF PollRestores, HadTrouble, HandsOver, BackupTypeOK, Carrying
<1>9. CASE Receive
  BY <1>9, <1>o, <1>t DEF Receive, HadTrouble, BackupTypeOK, Carrying
<1>10. CASE Fetch
  BY <1>10, <1>o, <1>t DEF Fetch, HadTrouble, BackupTypeOK, Carrying
<1>11. CASE Copy
  <2>1. kept' \subseteq 1..newest
    BY <1>11, <1>o DEF Copy, Copied, BackupTypeOK, Carrying
  <2>2. troubles' <= MaxTroubles
    BY <1>11, <1>o DEF Copy, HadTrouble, BackupTypeOK, Carrying
  <2> QED
    BY <1>11, <1>o, <1>t, <2>1, <2>2 DEF Copy, BackupTypeOK
<1>12. CASE WriteTmp
  BY <1>12, <1>o, <1>t DEF WriteTmp, HadTrouble, WhileWriting, BackupTypeOK, Carrying
<1>13. CASE Replace
  BY <1>13, <1>o, <1>t DEF Replace, BackupTypeOK, Carrying
<1>14. CASE Ack
  BY <1>14, <1>o, <1>t DEF Ack, HadTrouble, Report, BackupTypeOK, Carrying
<1>15. CASE AgentDies
  BY <1>15, <1>o, <1>t DEF AgentDies, HadTrouble, BackupTypeOK, Carrying
<1>16. CASE UNCHANGED backupVars
  BY <1>16, <1>o DEF backupVars, BackupTypeOK
<1> QED
  BY <1>1, <1>2, <1>3, <1>4, <1>5, <1>6, <1>7, <1>8, <1>9, <1>10, <1>11, <1>12, <1>13, <1>14,
     <1>15, <1>16
     DEF BackupNext, ThreadStep

LEMMA ContentsKept ==
    ASSUME BackupInv, [BackupNext]_backupVars
    PROVE  FileIsWhole' /\ ReplacedIsKept'
<1> USE BackupBounds DEF Torn
<1>o. /\ BackupTypeOK /\ FileIsWhole /\ ReplacedIsKept /\ OnceUnlessUnheard
      /\ Carrying /\ Restoring /\ Reporting
  BY DEF BackupInv, BackupIsSound
<1>1. CASE EditFile
  BY <1>1, <1>o DEF EditFile, FileIsWhole, ReplacedIsKept, BackupTypeOK
<1>2. CASE AskCapture
  BY <1>2, <1>o DEF AskCapture, FileIsWhole, ReplacedIsKept
<1>3. CASE QueueRestore
  BY <1>3, <1>o DEF QueueRestore, FileIsWhole, ReplacedIsKept
<1>4. CASE CaptureRound
  BY <1>4, <1>o DEF CaptureRound, FileIsWhole, ReplacedIsKept
<1>5. CASE PollRound
  BY <1>5, <1>o DEF PollRound, FileIsWhole, ReplacedIsKept
<1>6. CASE Read
  BY <1>6, <1>o DEF Read, FileIsWhole, ReplacedIsKept
<1>7. CASE Send
  BY <1>7, <1>o DEF Send, FileIsWhole, ReplacedIsKept
<1>8. CASE PollRestores
  BY <1>8, <1>o DEF PollRestores, FileIsWhole, ReplacedIsKept
<1>9. CASE Receive
  BY <1>9, <1>o DEF Receive, FileIsWhole, ReplacedIsKept
<1>10. CASE Fetch
  BY <1>10, <1>o DEF Fetch, FileIsWhole, ReplacedIsKept
<1>11. CASE Copy
  BY <1>11, <1>o DEF Copy, Copied, FileIsWhole, ReplacedIsKept
<1>12. CASE WriteTmp
  BY <1>12, <1>o DEF WriteTmp, WhileWriting, FileIsWhole, ReplacedIsKept
<1>13. CASE Replace
  BY <1>13, <1>o DEF Replace, FileIsWhole, ReplacedIsKept, Carrying, Restoring, BackupTypeOK
<1>14. CASE Ack
  BY <1>14, <1>o DEF Ack, FileIsWhole, ReplacedIsKept
<1>15. CASE AgentDies
  BY <1>15, <1>o DEF AgentDies, FileIsWhole, ReplacedIsKept
<1>16. CASE UNCHANGED backupVars
  BY <1>16, <1>o DEF backupVars, FileIsWhole, ReplacedIsKept
<1> QED
  BY <1>1, <1>2, <1>3, <1>4, <1>5, <1>6, <1>7, <1>8, <1>9, <1>10, <1>11, <1>12, <1>13, <1>14,
     <1>15, <1>16
     DEF BackupNext, ThreadStep

LEMMA CountKept ==
    ASSUME BackupInv, [BackupNext]_backupVars
    PROVE  OnceUnlessUnheard' /\ Reporting'
<1> USE BackupBounds DEF Torn
<1>o. /\ BackupTypeOK /\ FileIsWhole /\ ReplacedIsKept /\ OnceUnlessUnheard
      /\ Carrying /\ Restoring /\ Reporting
  BY DEF BackupInv, BackupIsSound
<1>1. CASE EditFile
  BY <1>1, <1>o DEF EditFile, Pending, OnceUnlessUnheard, Reporting
<1>2. CASE AskCapture
  BY <1>2, <1>o DEF AskCapture, Pending, OnceUnlessUnheard, Reporting
<1>3. CASE QueueRestore
  BY <1>3 DEF QueueRestore, OnceUnlessUnheard, Reporting
<1>4. CASE CaptureRound
  BY <1>4, <1>o DEF CaptureRound, Pending, OnceUnlessUnheard, Reporting
<1>5. CASE PollRound
  BY <1>5, <1>o DEF PollRound, Pending, OnceUnlessUnheard, Reporting
<1>6. CASE Read
  BY <1>6, <1>o DEF Read, Pending, OnceUnlessUnheard, Reporting
<1>7. CASE Send
  BY <1>7, <1>o DEF Send, Pending, OnceUnlessUnheard, Reporting
<1>8. CASE PollRestores
  BY <1>8, <1>o DEF PollRestores, Pending, OnceUnlessUnheard, Reporting
<1>9. CASE Receive
  BY <1>9, <1>o DEF Receive, Pending, OnceUnlessUnheard, Reporting
<1>10. CASE Fetch
  BY <1>10, <1>o DEF Fetch, OnceUnlessUnheard, Reporting, Restoring
<1>11. CASE Copy
  BY <1>11, <1>o DEF Copy, OnceUnlessUnheard, Reporting, Restoring
<1>12. CASE WriteTmp
  BY <1>12, <1>o DEF WriteTmp, OnceUnlessUnheard, Reporting, Restoring
<1>13. CASE Replace
  BY <1>13, <1>o DEF Replace, Goes, OnceUnlessUnheard, Reporting, Carrying, Restoring
<1>14. CASE Ack
  BY <1>14, <1>o DEF Ack, Report, Pending, OnceUnlessUnheard, Reporting, Carrying
<1>15. CASE AgentDies
  BY <1>15, <1>o DEF AgentDies, Pending, OnceUnlessUnheard, Reporting
<1>16. CASE UNCHANGED backupVars
  BY <1>16, <1>o DEF backupVars, Pending, OnceUnlessUnheard, Reporting
<1> QED
  BY <1>1, <1>2, <1>3, <1>4, <1>5, <1>6, <1>7, <1>8, <1>9, <1>10, <1>11, <1>12, <1>13, <1>14,
     <1>15, <1>16
     DEF BackupNext, ThreadStep

LEMMA RestoringKept ==
    ASSUME BackupInv, [BackupNext]_backupVars
    PROVE  Restoring'
<1> USE BackupBounds DEF Torn
<1>o. /\ BackupTypeOK /\ FileIsWhole /\ ReplacedIsKept /\ OnceUnlessUnheard
      /\ Carrying /\ Restoring /\ Reporting
  BY DEF BackupInv, BackupIsSound
<1>1. CASE EditFile
  BY <1>1, <1>o DEF EditFile, Pending, Restoring
<1>2. CASE AskCapture
  BY <1>2, <1>o DEF AskCapture, Pending, Restoring
<1>3. CASE QueueRestore
  BY <1>3, <1>o DEF QueueRestore, Restoring
<1>4. CASE CaptureRound
  BY <1>4, <1>o DEF CaptureRound, Goes, CaptureDue, Pending, Restoring
<1>5. CASE PollRound
  BY <1>5, <1>o DEF PollRound, Goes, Pending, Restoring
<1>6. CASE Read
  BY <1>6, <1>o DEF Read, Goes, Pending, Restoring
<1>7. CASE Send
  <2>1. backupThread'.at \in {"poll", "asleep"}
    <3>1. backupThread.then \in {"poll", "asleep"}
      BY <1>7, <1>o DEF Send, Carrying, ThreadSteps
    <3> QED
      BY <1>7, <3>1 DEF Send, Goes, Asleep
  <2>2. stored \subseteq stored' /\ UNCHANGED restore
    BY <1>7 DEF Send
  <2> QED
    BY <2>1, <2>2, <1>o DEF Restoring, Pending
<1>8. CASE PollRestores
  <2>1. \/ backupThread' = Asleep
        \/ backupThread' = [at |-> "handed", restore |-> Pending, capture |-> wish]
    BY <1>8 DEF PollRestores, Goes
  <2>2. UNCHANGED <<restore, stored>>
    BY <1>8 DEF PollRestores
  <2>3. /\ backupThread'.at \in {"asleep", "handed"}
        /\ backupThread'.at = "handed" /\ backupThread'.restore => Pending
    BY <2>1 DEF Asleep
  <2> QED
    BY <2>2, <2>3, <1>o DEF Restoring, Pending
<1>9. CASE Receive
  BY <1>9, <1>o DEF Receive, Goes, ThenAsleep, Asleep, Pending, Restoring
<1>10. CASE Fetch
  BY <1>10, <1>o DEF Fetch, Pending, Restoring
<1>11. CASE Copy
  BY <1>11, <1>o DEF Copy, Pending, Restoring
<1>12. CASE WriteTmp
  BY <1>12, <1>o DEF WriteTmp, Pending, Restoring
<1>13. CASE Replace
  BY <1>13, <1>o DEF Replace, Pending, Restoring
<1>14. CASE Ack
  BY <1>14, <1>o DEF Ack, Goes, Report, ThenAsleep, Asleep, Restoring, Carrying
<1>15. CASE AgentDies
  BY <1>15, <1>o DEF AgentDies, Goes, Asleep, Pending, Restoring
<1>16. CASE UNCHANGED backupVars
  BY <1>16, <1>o DEF backupVars, Pending, Restoring
<1> QED
  BY <1>1, <1>2, <1>3, <1>4, <1>5, <1>6, <1>7, <1>8, <1>9, <1>10, <1>11, <1>12, <1>13, <1>14,
     <1>15, <1>16
     DEF BackupNext, ThreadStep

LEMMA CarryingKept ==
    ASSUME BackupInv, [BackupNext]_backupVars
    PROVE  Carrying'
<1> USE BackupBounds DEF Torn
<1>o. /\ BackupTypeOK /\ FileIsWhole /\ ReplacedIsKept /\ OnceUnlessUnheard
      /\ Carrying /\ Restoring /\ Reporting
  BY DEF BackupInv, BackupIsSound
<1>t. backupThread' \in ThreadSteps
  BY ThreadGoes
<1>1. CASE EditFile
  BY <1>1, <1>o DEF EditFile, Carrying, BackupTypeOK
<1>2. CASE AskCapture
  BY <1>2, <1>o DEF AskCapture, Carrying
<1>3. CASE QueueRestore
  <2>1. restore' \in [version : Nat, allowed : BOOLEAN, state : RestoreStates]
    BY <1>3, <1>o DEF QueueRestore, BackupTypeOK, RestoreStates
  <2>2. UNCHANGED <<wish, wishes, file, newest, kept, troubles, backupThread>>
    BY <1>3 DEF QueueRestore
  <2>3. restores' \in Nat /\ writes' \in Nat
    BY <1>3, <1>o DEF QueueRestore, Carrying
  <2> QED
    BY <2>1, <2>2, <2>3, <1>o DEF Carrying
<1>4. CASE CaptureRound
  BY <1>4, <1>o, <1>t DEF CaptureRound, Goes, CaptureDue, Carrying
<1>5. CASE PollRound
  BY <1>5, <1>o, <1>t DEF PollRound, Goes, Carrying
<1>6. CASE Read
  BY <1>6, <1>o, <1>t DEF Read, Goes, Collected, Carrying
<1>7. CASE Send
  <2>1. backupThread'.at \in {"poll", "asleep"}
    <3>1. backupThread.then \in {"poll", "asleep"}
      BY <1>7, <1>o DEF Send, Carrying, ThreadSteps
    <3> QED
      BY <1>7, <3>1 DEF Send, Goes, Asleep
  <2>2. UNCHANGED <<restore, wish, writes, restores, wishes, file, newest, kept>>
    BY <1>7 DEF Send
  <2>3. troubles' \in Nat
    BY <1>7, <1>o DEF Send, HadTrouble, Carrying
  <2> QED
    BY <2>1, <2>2, <2>3, <1>o, <1>t DEF Carrying
<1>8. CASE PollRestores
  <2>0. \/ /\ backupThread' = [at |-> "handed", restore |-> Pending, capture |-> wish]
           /\ UNCHANGED troubles
        \/ backupThread' = Asleep /\ HadTrouble
    BY <1>8, Zenon DEF PollRestores, Goes
  <2>1. backupThread'.at \in {"handed", "asleep"}
    BY <2>0 DEF Asleep
  <2>4. wish' \in BOOLEAN
    BY <1>8 DEF PollRestores
  <2>2. UNCHANGED <<restore, writes, restores, wishes, file, newest, kept>>
    BY <1>8 DEF PollRestores
  <2>3. troubles' \in Nat
    BY <2>0, <1>o DEF HadTrouble, Carrying
  <2>5. backupThread'.at \notin {"send", "write", "replace"}
    BY <2>1
  <2>6. /\ restore' \in [version : Nat, allowed : BOOLEAN, state : RestoreStates]
        /\ writes' \in Nat /\ restores' \in Nat /\ wishes' \in Nat /\ file' \in 1..newest'
    BY <2>2, <1>o DEF Carrying
  <2> QED
    BY <2>3, <2>4, <2>5, <2>6, <1>t DEF Carrying
<1>9. CASE Receive
  BY <1>9, <1>o, <1>t DEF Receive, Goes, HadTrouble, ThenAsleep, Asleep, Carrying
<1>10. CASE Fetch
  BY <1>10, <1>o, <1>t DEF Fetch, Goes, HadTrouble, Refuse, ThenAsleep, Asleep, Carrying
<1>11. CASE Copy
  BY <1>11, <1>o, <1>t DEF Copy, Goes, HadTrouble, Copied, Carrying
<1>12. CASE WriteTmp
  <2>1. \/ backupThread' = [backupThread EXCEPT !.at = "replace"]
        \/ backupThread'.at = "ack"
    BY <1>12 DEF WriteTmp, Goes
  <2>2. backupThread \in [at : {"write", "replace"}, capture : BOOLEAN, met : Nat]
    BY <1>12, <1>o DEF WriteTmp, Carrying, ThreadSteps
  <2>3. /\ backupThread.at = "write"
        /\ backupThread'.at \in {"replace", "ack"}
        /\ backupThread'.at = "replace" => backupThread'.met = backupThread.met
    BY <1>12, <2>1, <2>2 DEF WriteTmp
  <2>4. UNCHANGED <<restore, wish, writes, restores, wishes, file, newest, kept>>
    BY <1>12 DEF WriteTmp, WhileWriting
  <2>5. troubles' \in Nat
    BY <1>12, <1>o DEF WriteTmp, HadTrouble, Carrying
  <2> QED
    BY <2>3, <2>4, <2>5, <1>o, <1>t DEF Carrying
<1>13. CASE Replace
  BY <1>13, <1>o, <1>t DEF Replace, Goes, Carrying, BackupTypeOK, Restoring
<1>14. CASE Ack
  <2>1. backupThread'.at \in {"read", "asleep"}
    BY <1>14 DEF Ack, Goes, ThenAsleep, Asleep
  <2>2. restore' \in [version : Nat, allowed : BOOLEAN, state : RestoreStates]
    BY <1>14, <1>o DEF Ack, Report, Carrying, RestoreStates
  <2>3. UNCHANGED <<wish, writes, restores, wishes, file, newest, kept>>
    BY <1>14 DEF Ack
  <2>4. troubles' \in Nat
    BY <1>14, <1>o DEF Ack, HadTrouble, Carrying
  <2> QED
    BY <2>1, <2>2, <2>3, <2>4, <1>o, <1>t DEF Carrying
<1>15. CASE AgentDies
  BY <1>15, <1>o, <1>t DEF AgentDies, Goes, HadTrouble, Asleep, Carrying
<1>16. CASE UNCHANGED backupVars
  BY <1>16, <1>o DEF backupVars, Carrying
<1> QED
  BY <1>1, <1>2, <1>3, <1>4, <1>5, <1>6, <1>7, <1>8, <1>9, <1>10, <1>11, <1>12, <1>13, <1>14,
     <1>15, <1>16
     DEF BackupNext, ThreadStep

LEMMA BackupKept == BackupInit /\ [][BackupNext]_backupVars => []BackupInv
<1>1. BackupInv /\ [BackupNext]_backupVars => BackupInv'
  BY TypeKept, ContentsKept, CountKept, RestoringKept, CarryingKept DEF BackupInv, BackupIsSound
<1> QED
  BY BackupStarts, <1>1, PTL

(* A run that follows one part of a host goes by that part's specification. *)
LEMMA RestoresFollowed ==
    ChannelsSpec => RestoreSpec /\ BackupInit /\ [][BackupNext]_backupVars
<1>1. ChannelsInit => RestoreInit /\ BackupInit
  BY DEF ChannelsInit
<1>2. [ChannelsNext]_channelVars => [RestoreNext]_restoreVars /\ [BackupNext]_backupVars
  BY DEF ChannelsNext, channelVars
<1> QED
  BY <1>1, <1>2, PTL DEF ChannelsSpec, RestoreSpec

(* A restore point and the restore of a file, at once, in any order of      *)
(* their steps.                                                             *)
LEMMA RestoresAtOnce ==
    RestoreSpec /\ BackupInit /\ [][BackupNext]_backupVars => []RestoresAreSound
<1>1. RestoreInv /\ BackupInv => RestoresAreSound
  BY DEF RestoreInv, RestoreRest, BackupInv, RestoresAreSound, RestoreIsSound
<1> QED
  BY RestoreKept, BackupKept, <1>1, PTL

(* Of the restore points (_rp_poll stages a tree and arms the link last,    *)
(* apply_staged removes the link first and reports what it wrote): a host   *)
(* never boots into a restore that is not whole, never into one restore     *)
(* again and again, and is said to be restored only if it is; and of the    *)
(* files (_fb_apply_restore copies, writes beside and replaces): a file is  *)
(* never half written, what a restore overwrote has a copy, and a restore   *)
(* is written again only if its report was lost.                            *)
THEOREM RestoresStaySound == ChannelsSpec => []RestoresAreSound
BY RestoresFollowed, RestoresAtOnce, PTL

-----------------------------------------------------------------------------
(* The measurement of an agent.                                             *)

Records  == [sealed : Contents \cup {None}, status : {"ok", "quarantined"},
             window : 0..Window, missing : {None} \cup 0..Grace]
Memos    == {None} \cup [build : Builds, age : 0..Cooldown]
Handlers == [pc : {"idle", "verify", "auto", "queue", "mark", "judge"},
             version : Contents \cup {None}, files : Contents \cup {None}]
Excuses  == SUBSET {"tampered", "mute", "late", "dropped", "expired", "unsaved"}

MarkSteps == {w \in Threads : thread[w].pc = "mark"}

(* A quarantine is never inside a window, and is of a sealed host.          *)
QuarantineIsPlain ==
    rec.status = "quarantined" => rec.window = 0 /\ rec.sealed # None

(* Whoever measures, measured something.                                    *)
Measuring ==
    \A w \in Threads :
        /\ thread[w].pc \in {"verify", "auto", "judge"} => thread[w].files # None
        /\ thread[w].version # None => thread[w].files # None

(* Without a cause an update on its way, or files that are not those        *)
(* sealed, have a window open, or about to be; and so has a quarantine.     *)
UpdateIsCovered ==
    cause = {} =>
        /\ ~mute
        /\ Measuring
        /\ pending # None \/ got # None \/ rec.sealed \notin {None, disk}
              => InWindow(rec) \/ MarkSteps # {}
        /\ rec.status = "quarantined" => MarkSteps # {}

IntegrityInv == TypeOK /\ QuarantineIsPlain /\ UpdateIsCovered

LEMMA HandlerMoves ==
    ASSUME NEW w \in Threads, thread \in [Threads -> Handlers]
    PROVE  /\ Finish(w) =>
                 /\ thread' \in [Threads -> Handlers]
                 /\ thread'[w].pc = "idle" /\ thread'[w].version = None
                 /\ \A x \in Threads \ {w} : thread'[x] = thread[x]
           /\ \A pc \in {"idle", "auto", "queue", "mark", "judge"} :
                 Goto(w, pc) =>
                 /\ thread' \in [Threads -> Handlers]
                 /\ thread'[w].pc = pc
                 /\ thread'[w].version = thread[w].version
                 /\ thread'[w].files = thread[w].files
                 /\ \A x \in Threads \ {w} : thread'[x] = thread[x]
<1>1. Idle \in Handlers /\ Idle.pc = "idle" /\ Idle.version = None
  BY DEF Idle, Handlers
<1>2. ASSUME Finish(w)
      PROVE  /\ thread' \in [Threads -> Handlers]
             /\ thread'[w].pc = "idle" /\ thread'[w].version = None
             /\ \A x \in Threads \ {w} : thread'[x] = thread[x]
  BY <1>1, <1>2 DEF Finish
<1>3. ASSUME NEW pc \in {"idle", "auto", "queue", "mark", "judge"}, Goto(w, pc)
      PROVE  /\ thread' \in [Threads -> Handlers]
             /\ thread'[w].pc = pc
             /\ thread'[w].version = thread[w].version
             /\ thread'[w].files = thread[w].files
             /\ \A x \in Threads \ {w} : thread'[x] = thread[x]
  BY <1>3 DEF Goto, Handlers
<1> QED
  BY <1>2, <1>3

LEMMA NewBlame ==
    ASSUME NEW c \in {"tampered", "mute", "late", "dropped", "expired", "unsaved"},
           cause \in Excuses, Blame(c)
    PROVE  cause' \in Excuses /\ cause' # {}
  BY DEF Blame, Excuses

LEMMA AnEvent ==
    ASSUME events \in 0..MaxEvents, Event
    PROVE  events' \in 0..MaxEvents
<1>1. MaxEvents \in Nat
  BY IntegrityBounds
<1> QED
  BY <1>1 DEF Event

(* What the three calls of agent_integrity do to a record.                  *)
LEMMA RecordCalls ==
    ASSUME rec \in Records, QuarantineIsPlain, NEW files \in Contents
    PROVE  /\ NoRecord \in Records
           /\ LET r == NoteMissing(rec) IN
                /\ r \in Records /\ r.sealed = rec.sealed /\ r.window = rec.window
                /\ rec.status = "quarantined" => r = rec
                /\ r.status = "quarantined" => r.window = 0 /\ r.sealed # None
           /\ LET r == MarkUpdating(rec) IN
                /\ r \in Records /\ r.sealed = rec.sealed
                /\ r.window = Window /\ r.window > 0 /\ r.status = "ok"
           /\ LET r == Evaluate(rec, files) IN
                /\ r \in Records
                /\ r.status = "quarantined" => r.window = 0 /\ r.sealed # None
                /\ r.sealed = files \/ r.sealed = rec.sealed
                /\ r.sealed # rec.sealed => rec.sealed = None \/ rec.window > 0
                /\ rec.window > 0 => r.window > 0 /\ r.status = "ok"
                /\ r.status = "quarantined" =>
                      rec.sealed # None /\ files # rec.sealed
                /\ rec.status = "quarantined" /\ r.status = "ok" =>
                      r.sealed = rec.sealed /\ r.missing = None
                /\ rec.window = 0 =>
                      r.sealed = IF rec.sealed = None THEN files ELSE rec.sealed
<1>1. Window \in Nat /\ Window > 0 /\ Grace \in Nat /\ None \notin Contents
  BY IntegrityBounds DEF Contents, Builds
<1>2. /\ rec.sealed \in Contents \cup {None} /\ rec.status \in {"ok", "quarantined"}
      /\ rec.window \in 0..Window /\ rec.missing \in {None} \cup 0..Grace
  BY DEF Records
<1>3. NoRecord \in Records
  BY <1>1 DEF NoRecord, Records
<1>4. LET r == NoteMissing(rec) IN
        /\ r \in Records /\ r.sealed = rec.sealed /\ r.window = rec.window
        /\ rec.status = "quarantined" => r = rec
        /\ r.status = "quarantined" => r.window = 0 /\ r.sealed # None
  <2>1. CASE NoteMissing(rec) = rec
    BY <2>1 DEF QuarantineIsPlain
  <2>2. CASE /\ ~(rec.sealed = None \/ InWindow(rec) \/ rec.status = "quarantined")
             /\ NoteMissing(rec) = [rec EXCEPT !.missing = 0]
    BY <1>1, <1>2, <2>2 DEF Records
  <2>3. CASE /\ ~(rec.sealed = None \/ InWindow(rec) \/ rec.status = "quarantined")
             /\ NoteMissing(rec) = [rec EXCEPT !.status = "quarantined"]
    BY <1>1, <1>2, <2>3 DEF Records, InWindow
  <2> QED
    BY <2>1, <2>2, <2>3 DEF NoteMissing
<1>5. LET r == MarkUpdating(rec) IN
        /\ r \in Records /\ r.sealed = rec.sealed
        /\ r.window = Window /\ r.window > 0 /\ r.status = "ok"
  <2>1. MarkUpdating(rec) = [sealed |-> rec.sealed, status |-> "ok", window |-> Window,
                             missing |-> rec.missing]
    <3>1. MarkUpdating(rec) = [rec EXCEPT !.window = Window, !.status = "ok"]
      BY DEF MarkUpdating
    <3>2. rec = [sealed |-> rec.sealed, status |-> rec.status, window |-> rec.window,
                 missing |-> rec.missing]
      BY DEF Records
    <3> QED
      BY <1>1, <3>1, <3>2
  <2> QED
    BY <1>1, <1>2, <2>1 DEF Records
<1>6. LET r == Evaluate(rec, files) IN
        /\ r \in Records
        /\ r.status = "quarantined" => r.window = 0 /\ r.sealed # None
        /\ r.sealed = files \/ r.sealed = rec.sealed
        /\ r.sealed # rec.sealed => rec.sealed = None \/ rec.window > 0
        /\ rec.window > 0 => r.window > 0 /\ r.status = "ok"
        /\ r.status = "quarantined" => rec.sealed # None /\ files # rec.sealed
        /\ rec.status = "quarantined" /\ r.status = "ok" =>
              r.sealed = rec.sealed /\ r.missing = None
        /\ rec.window = 0 => r.sealed = IF rec.sealed = None THEN files ELSE rec.sealed
  <2>1. CASE rec.window > 0
    <3>1. Evaluate(rec, files) = [sealed |-> files, status |-> "ok", window |-> rec.window,
                                  missing |-> None]
      BY <2>1 DEF Evaluate, InWindow, Records
    <3>2. rec.status # "quarantined"
      BY <1>1, <1>2, <2>1 DEF QuarantineIsPlain
    <3> QED
      BY <1>1, <1>2, <2>1, <3>1, <3>2 DEF Records
  <2>2. CASE rec.window = 0 /\ rec.sealed = None
    <3>1. Evaluate(rec, files) = [NoRecord EXCEPT !.sealed = files]
      BY <2>2 DEF Evaluate, InWindow
    <3>2. rec.status # "quarantined"
      BY <2>2 DEF QuarantineIsPlain
    <3> QED
      BY <1>1, <1>2, <2>2, <3>1, <3>2 DEF Records, NoRecord
  <2>3. CASE rec.window = 0 /\ rec.sealed # None
    <3>1. Evaluate(rec, files) =
             [sealed |-> rec.sealed, window |-> rec.window, missing |-> None,
              status |-> IF files = rec.sealed THEN "ok" ELSE "quarantined"]
      <4>1. Evaluate(rec, files) =
               [rec EXCEPT !.missing = None,
                           !.status = IF files = rec.sealed THEN "ok" ELSE "quarantined"]
        BY <1>2, <2>3 DEF Evaluate, InWindow
      <4>2. CASE files = rec.sealed
        <5>1. Evaluate(rec, files) = [rec EXCEPT !.missing = None, !.status = "ok"]
          BY <4>1, <4>2
        <5> QED
          BY <4>2, <5>1 DEF Records
      <4>3. CASE files # rec.sealed
        <5>1. Evaluate(rec, files) = [rec EXCEPT !.missing = None, !.status = "quarantined"]
          BY <4>1, <4>3
        <5> QED
          BY <4>3, <5>1 DEF Records
      <4> QED
        BY <4>2, <4>3
    <3> QED
      BY <1>1, <1>2, <2>3, <3>1 DEF Records
  <2> QED
    BY <1>1, <1>2, <2>1, <2>2, <2>3
<1> QED
  BY <1>3, <1>4, <1>5, <1>6

LEMMA IntegrityTypes ==
    TypeOK <=> /\ target \in Builds /\ disk \in Contents /\ running \in Contents
               /\ mute \in BOOLEAN /\ revoked \in BOOLEAN
               /\ rec \in Records /\ memo \in Memos
               /\ pending \in Builds \cup {None} /\ got \in Builds \cup {None}
               /\ thread \in [Threads -> Handlers]
               /\ cause \in Excuses /\ events \in 0..MaxEvents
  BY DEF TypeOK, Records, Memos, Handlers, Excuses

LEMMA IntegrityTypesNext ==
    /\ target' \in Builds /\ disk' \in Contents /\ running' \in Contents
    /\ mute' \in BOOLEAN /\ revoked' \in BOOLEAN
    /\ rec' \in Records /\ memo' \in Memos
    /\ pending' \in Builds \cup {None} /\ got' \in Builds \cup {None}
    /\ thread' \in [Threads -> Handlers]
    /\ cause' \in Excuses /\ events' \in 0..MaxEvents
    => TypeOK'
  BY DEF TypeOK, Records, Memos, Handlers, Excuses

(* One handler moves.                                                       *)
LEMMA OneHandlerMoves ==
    ASSUME NEW w \in Threads, thread \in [Threads -> Handlers],
           \A x \in Threads \ {w} : thread'[x] = thread[x]
    PROVE  /\ thread[w].pc # "mark" \/ thread'[w].pc = "mark" =>
                 (MarkSteps # {} => MarkSteps' # {})
           /\ /\ Measuring
              /\ thread'[w].pc \in {"verify", "auto", "judge"} => thread'[w].files # None
              /\ thread'[w].version # None => thread'[w].files # None
              => Measuring'
  BY DEF MarkSteps, Measuring

(* What one step may do to the record.                                      *)
SealStep ==
    /\ rec'.sealed = "bad" /\ rec.sealed # "bad" => rec.sealed = None \/ rec.window > 0
    /\ rec.status = "quarantined" /\ rec'.status = "ok" =>
          \/ rec' = NoRecord
          \/ rec'.window = Window
          \/ rec'.sealed = rec.sealed /\ rec'.missing = None

IntegrityStep == IntegrityInv' /\ SealStep

LEMMA SealKept == UNCHANGED rec => SealStep /\ (QuarantineIsPlain => QuarantineIsPlain')
  BY DEF SealStep, QuarantineIsPlain

LEMMA IntegrityInit == Init => IntegrityInv
<1> SUFFICES ASSUME Init PROVE IntegrityInv
  OBVIOUS
<1>1. Window \in Nat /\ MaxEvents \in Nat
  BY IntegrityBounds
<1>2. TypeOK
  <2>1. NoRecord \in Records /\ Idle \in Handlers
    BY <1>1 DEF NoRecord, Records, Idle, Handlers
  <2> QED
    <3>1. thread \in [Threads -> Handlers] /\ rec \in Records
      BY <2>1 DEF Init
    <3>2. events \in 0..MaxEvents /\ cause \in Excuses /\ memo \in Memos
      BY <1>1 DEF Init, Excuses, Memos
    <3>3. /\ target \in Builds /\ disk \in Contents /\ running \in Contents
          /\ mute \in BOOLEAN /\ revoked \in BOOLEAN
          /\ pending \in Builds \cup {None} /\ got \in Builds \cup {None}
      BY DEF Init, Builds, Contents
    <3> QED
      BY <3>1, <3>2, <3>3, IntegrityTypes
<1>3. QuarantineIsPlain /\ UpdateIsCovered
  BY DEF Init, QuarantineIsPlain, UpdateIsCovered, Measuring, NoRecord, Idle
<1> QED
  BY <1>2, <1>3 DEF IntegrityInv

LEMMA HeartbeatSafe ==
    ASSUME IntegrityInv, NEW w \in Threads, Heartbeat(w)
    PROVE  IntegrityStep
<1>1. TypeOK /\ QuarantineIsPlain /\ UpdateIsCovered /\ None \notin Contents
  BY IntegrityBounds DEF IntegrityInv, Contents, Builds
<1>2. /\ thread' \in [Threads -> Handlers]
      /\ thread'[w].pc = "verify" /\ thread'[w].files = IF mute THEN None ELSE disk
      /\ \A x \in Threads \ {w} : thread'[x] = thread[x]
  <2> DEFINE h == [pc |-> "verify", version |-> running, files |-> IF mute THEN None ELSE disk]
  <2>1. h \in Handlers /\ h.pc = "verify" /\ h.files = IF mute THEN None ELSE disk
    BY <1>1, IntegrityTypes DEF Handlers
  <2>2. thread' = [thread EXCEPT ![w] = h]
    BY DEF Heartbeat
  <2> HIDE DEF h
  <2> QED
    BY <1>1, <2>1, <2>2, IntegrityTypes
<1>3. UNCHANGED <<target, host, revoked, rec, memo, pending, got, cause, events>>
      /\ thread[w].pc = "idle"
  BY DEF Heartbeat
<1>4. TypeOK'
  BY <1>1, <1>2, <1>3, IntegrityTypes, IntegrityTypesNext DEF host
<1>5. UpdateIsCovered'
  <2>1. disk # None
    BY <1>1 DEF TypeOK
  <2>2. MarkSteps # {} => MarkSteps' # {}
    BY <1>1, <1>2, <1>3, OneHandlerMoves, IntegrityTypes
  <2>3. Measuring /\ ~mute => Measuring'
    BY <1>1, <1>2, <2>1, OneHandlerMoves, IntegrityTypes
  <2> QED
    BY <1>1, <1>3, <2>2, <2>3 DEF UpdateIsCovered, host, InWindow
<1> QED
  BY <1>1, <1>3, <1>4, <1>5, SealKept DEF IntegrityInv, IntegrityStep

(* A step of a handler that leaves the record alone.                        *)
LEMMA PlainHandlerStep ==
    ASSUME IntegrityInv, NEW w \in Threads,
           TypeOK',
           UNCHANGED <<disk, mute, rec, pending, got, cause>>,
           \A x \in Threads \ {w} : thread'[x] = thread[x],
           thread[w].pc # "mark",
           thread'[w].version # None => thread'[w].version = thread[w].version
                                        /\ thread'[w].files = thread[w].files,
           thread'[w].pc \in {"verify", "auto", "judge"} =>
               /\ thread'[w].files = thread[w].files
               /\ thread[w].pc \in {"verify", "auto", "judge"} \/ thread[w].version # None
    PROVE  IntegrityStep
<1>1. TypeOK /\ QuarantineIsPlain /\ UpdateIsCovered
  BY DEF IntegrityInv
<1>2. MarkSteps # {} => MarkSteps' # {}
  BY <1>1, OneHandlerMoves, IntegrityTypes
<1>3. Measuring => Measuring'
  <2> SUFFICES ASSUME Measuring PROVE Measuring'
    OBVIOUS
  <2>1. /\ thread[w].pc \in {"verify", "auto", "judge"} => thread[w].files # None
        /\ thread[w].version # None => thread[w].files # None
    BY DEF Measuring
  <2> QED
    BY <1>1, <2>1, OneHandlerMoves, IntegrityTypes
<1>4. UpdateIsCovered'
  BY <1>1, <1>2, <1>3 DEF UpdateIsCovered, InWindow
<1> QED
  BY <1>1, <1>4, SealKept DEF IntegrityInv, IntegrityStep

LEMMA HeartbeatVerifySafe ==
    ASSUME IntegrityInv, NEW w \in Threads, HeartbeatVerify(w)
    PROVE  IntegrityStep
<1>1. TypeOK /\ thread \in [Threads -> Handlers]
  BY IntegrityTypes DEF IntegrityInv
<1>2. /\ thread[w].pc = "verify"
      /\ UNCHANGED <<target, disk, running, mute, revoked, rec, memo, pending, got, cause, events>>
  BY DEF HeartbeatVerify, host
<1>3. Finish(w) \/ \E pc \in {"judge", "auto"} : Goto(w, pc)
  BY DEF HeartbeatVerify
<1>4. /\ thread' \in [Threads -> Handlers]
      /\ \A x \in Threads \ {w} : thread'[x] = thread[x]
      /\ \/ thread'[w].pc = "idle" /\ thread'[w].version = None
         \/ thread'[w].version = thread[w].version /\ thread'[w].files = thread[w].files
  <2>1. CASE Finish(w)
    BY <1>1, <2>1, HandlerMoves
  <2>2. CASE \E pc \in {"judge", "auto"} : Goto(w, pc)
    BY <1>1, <2>2, HandlerMoves
  <2> QED
    BY <1>3, <2>1, <2>2
<1>5. TypeOK'
  BY <1>1, <1>2, <1>4, IntegrityTypes, IntegrityTypesNext
<1> QED
  BY <1>2, <1>4, <1>5, PlainHandlerStep

LEMMA AutoUpdateSafe ==
    ASSUME IntegrityInv, NEW w \in Threads, AutoUpdate(w)
    PROVE  IntegrityStep
<1>1. TypeOK /\ thread \in [Threads -> Handlers] /\ Cooldown \in Nat
  BY IntegrityTypes, IntegrityBounds DEF IntegrityInv
<1>2. /\ thread[w].pc = "auto"
      /\ UNCHANGED <<target, disk, running, mute, revoked, rec, pending, got, cause, events>>
  BY DEF AutoUpdate, host
<1>3. \E pc \in {"queue", "judge"} : Goto(w, pc)
  BY DEF AutoUpdate
<1>4. /\ thread' \in [Threads -> Handlers]
      /\ \A x \in Threads \ {w} : thread'[x] = thread[x]
      /\ thread'[w].version = thread[w].version /\ thread'[w].files = thread[w].files
  BY <1>1, <1>3, HandlerMoves
<1>5. memo' \in Memos
  <2>1. memo' = memo \/ memo' = [build |-> target, age |-> 0]
    BY DEF AutoUpdate
  <2>2. memo \in Memos /\ target \in Builds
    BY <1>1, IntegrityTypes
  <2> QED
    BY <1>1, <2>1, <2>2 DEF Memos
<1>6. TypeOK'
  BY <1>1, <1>2, <1>4, <1>5, IntegrityTypes, IntegrityTypesNext
<1> QED
  BY <1>2, <1>4, <1>6, PlainHandlerStep

LEMMA QueueUpdateSafe ==
    ASSUME IntegrityInv, NEW w \in Threads, QueueUpdate(w)
    PROVE  IntegrityStep
<1>1. TypeOK /\ thread \in [Threads -> Handlers] /\ QuarantineIsPlain /\ UpdateIsCovered
  BY IntegrityTypes DEF IntegrityInv
<1>2. /\ thread[w].pc = "queue"
      /\ UNCHANGED <<target, disk, running, mute, revoked, rec, memo, got, cause>>
  BY DEF QueueUpdate, host
<1>3. CASE pending' = target /\ Goto(w, "mark") /\ UNCHANGED events
  <2>1. /\ thread' \in [Threads -> Handlers] /\ thread'[w].pc = "mark"
        /\ \A x \in Threads \ {w} : thread'[x] = thread[x]
        /\ thread'[w].version = thread[w].version /\ thread'[w].files = thread[w].files
    BY <1>1, <1>3, HandlerMoves
  <2>2. TypeOK'
    BY <1>1, <1>2, <1>3, <2>1, IntegrityTypes, IntegrityTypesNext
  <2>3. MarkSteps' # {}
    BY <2>1 DEF MarkSteps
  <2>4. Measuring => Measuring'
    BY <2>1 DEF Measuring
  <2>5. UpdateIsCovered'
    BY <1>1, <1>2, <2>3, <2>4 DEF UpdateIsCovered
  <2> QED
    BY <1>1, <1>2, <2>2, <2>5, SealKept DEF IntegrityInv, IntegrityStep
<1>4. CASE Event /\ Goto(w, After(w)) /\ UNCHANGED pending
  <2>1. After(w) \in {"idle", "judge"} /\ (After(w) = "judge" => thread[w].version # None)
    BY DEF After
  <2>2. /\ thread' \in [Threads -> Handlers] /\ thread'[w].pc = After(w)
        /\ \A x \in Threads \ {w} : thread'[x] = thread[x]
        /\ thread'[w].version = thread[w].version /\ thread'[w].files = thread[w].files
    BY <1>1, <1>4, <2>1, HandlerMoves
  <2>3. events' \in 0..MaxEvents
    BY <1>1, <1>4, AnEvent, IntegrityTypes
  <2>4. TypeOK'
    BY <1>1, <1>2, <1>4, <2>2, <2>3, IntegrityTypes, IntegrityTypesNext
  <2> QED
    BY <1>2, <1>4, <2>1, <2>2, <2>4, PlainHandlerStep
<1> QED
  BY <1>3, <1>4 DEF QueueUpdate

LEMMA ManualPushSafe ==
    ASSUME IntegrityInv, NEW w \in Threads, ManualPush(w)
    PROVE  IntegrityStep
<1>1. TypeOK /\ thread \in [Threads -> Handlers]
  BY IntegrityTypes DEF IntegrityInv
<1>2. /\ thread[w].pc = "idle" /\ Goto(w, "queue")
      /\ UNCHANGED <<target, disk, running, mute, revoked, rec, memo, pending, got, cause>>
  BY DEF ManualPush, host
<1>3. /\ thread' \in [Threads -> Handlers] /\ thread'[w].pc = "queue"
      /\ \A x \in Threads \ {w} : thread'[x] = thread[x]
      /\ thread'[w].version = thread[w].version /\ thread'[w].files = thread[w].files
  BY <1>1, <1>2, HandlerMoves
<1>4. events' \in 0..MaxEvents
  BY <1>1, AnEvent, IntegrityTypes DEF ManualPush
<1>5. TypeOK'
  BY <1>1, <1>2, <1>3, <1>4, IntegrityTypes, IntegrityTypesNext
<1> QED
  BY <1>2, <1>3, <1>5, PlainHandlerStep

LEMMA MarkSafe ==
    ASSUME IntegrityInv, NEW w \in Threads, Mark(w)
    PROVE  IntegrityStep
<1>1. /\ TypeOK /\ thread \in [Threads -> Handlers] /\ rec \in Records
      /\ QuarantineIsPlain /\ UpdateIsCovered
  BY IntegrityTypes DEF IntegrityInv
<1>2. /\ thread[w].pc = "mark" /\ Goto(w, After(w))
      /\ UNCHANGED <<target, disk, running, mute, revoked, memo, pending, got>>
  BY DEF Mark, host
<1>3. After(w) \in {"idle", "judge"} /\ (After(w) = "judge" => thread[w].version # None)
  BY DEF After
<1>4. /\ thread' \in [Threads -> Handlers] /\ thread'[w].pc = After(w)
      /\ \A x \in Threads \ {w} : thread'[x] = thread[x]
      /\ thread'[w].version = thread[w].version /\ thread'[w].files = thread[w].files
  BY <1>1, <1>2, <1>3, HandlerMoves
<1>5. CASE rec' = MarkUpdating(rec) /\ UNCHANGED <<cause, events>>
  <2>1. disk \in Contents
    BY <1>1, IntegrityTypes
  <2>2. /\ rec' \in Records /\ rec'.sealed = rec.sealed
        /\ rec'.window = Window /\ rec'.window > 0 /\ rec'.status = "ok"
    BY <1>1, <1>5, <2>1, RecordCalls
  <2>3. TypeOK'
    BY <1>1, <1>2, <1>4, <1>5, <2>2, IntegrityTypes, IntegrityTypesNext
  <2>4. Measuring => Measuring'
    <3>1. Measuring => (thread[w].version # None => thread[w].files # None)
      BY DEF Measuring
    <3> QED
      BY <1>1, <1>3, <1>4, <3>1, OneHandlerMoves
  <2>5. UpdateIsCovered' /\ QuarantineIsPlain'
    BY <1>1, <1>2, <1>5, <2>2, <2>4 DEF UpdateIsCovered, QuarantineIsPlain, InWindow
  <2>6. SealStep
    BY <2>2 DEF SealStep
  <2> QED
    BY <2>3, <2>5, <2>6 DEF IntegrityInv, IntegrityStep
<1>6. CASE Event /\ Blame("unsaved") /\ UNCHANGED rec
  <2>1. events' \in 0..MaxEvents /\ cause' \in Excuses /\ cause' # {}
    BY <1>1, <1>6, AnEvent, NewBlame, IntegrityTypes
  <2>2. TypeOK'
    BY <1>1, <1>2, <1>4, <1>6, <2>1, IntegrityTypes, IntegrityTypesNext
  <2> QED
    BY <1>1, <1>6, <2>1, <2>2, SealKept DEF IntegrityInv, IntegrityStep, UpdateIsCovered
<1> QED
  BY <1>5, <1>6 DEF Mark

LEMMA JudgeSafe ==
    ASSUME IntegrityInv, NEW w \in Threads, Judge(w)
    PROVE  IntegrityStep
<1>1. /\ TypeOK /\ thread \in [Threads -> Handlers] /\ rec \in Records /\ cause \in Excuses
      /\ disk \in Contents /\ QuarantineIsPlain /\ UpdateIsCovered
      /\ None \notin Contents
  BY IntegrityTypes, IntegrityBounds DEF IntegrityInv, Contents, Builds
<1>2. /\ thread[w].pc = "judge" /\ Finish(w)
      /\ UNCHANGED <<target, disk, running, mute, revoked, memo, pending, got>>
  BY DEF Judge, host
<1>3. /\ thread' \in [Threads -> Handlers]
      /\ thread'[w].pc = "idle" /\ thread'[w].version = None
      /\ \A x \in Threads \ {w} : thread'[x] = thread[x]
  BY <1>1, <1>2, HandlerMoves
<1>4. (MarkSteps # {} => MarkSteps' # {}) /\ (Measuring => Measuring')
  BY <1>1, <1>2, <1>3, OneHandlerMoves
<1> DEFINE files == thread[w].files
<1>5. files \in Contents \cup {None}
  BY <1>1 DEF Handlers
<1>6. CASE /\ rec' = IF files = None THEN NoteMissing(rec) ELSE Evaluate(rec, files)
           /\ cause' = IF files \notin {None, disk} /\ ~InWindow(rec)
                       THEN cause \cup {"late"} ELSE cause
           /\ UNCHANGED events
  <2>1. cause' \in Excuses /\ (cause' = {} => cause = {})
    BY <1>1, <1>6 DEF Excuses
  <2>2. CASE files = None
    <3>1. rec' = NoteMissing(rec)
      BY <1>6, <2>2
    <3>2. /\ rec' \in Records /\ rec'.sealed = rec.sealed
          /\ rec.status = "quarantined" => rec' = rec
          /\ rec'.status = "quarantined" => rec'.window = 0 /\ rec'.sealed # None
      BY <1>1, <3>1, RecordCalls
    <3>3. TypeOK'
      BY <1>1, <1>2, <1>3, <1>6, <2>1, <3>2, IntegrityTypes, IntegrityTypesNext
    <3>4. cause # {}
      BY <1>1, <1>2, <2>2 DEF UpdateIsCovered, Measuring
    <3>5. UpdateIsCovered' /\ QuarantineIsPlain'
      BY <2>1, <3>2, <3>4 DEF UpdateIsCovered, QuarantineIsPlain
    <3>6. SealStep
      BY <3>2 DEF SealStep
    <3> QED
      BY <3>3, <3>5, <3>6 DEF IntegrityInv, IntegrityStep
  <2>3. CASE files # None
    <3>1. rec' = Evaluate(rec, files) /\ files \in Contents
      BY <1>5, <1>6, <2>3
    <3> HIDE DEF files
    <3>2. /\ rec' \in Records
          /\ rec'.status = "quarantined" => rec'.window = 0 /\ rec'.sealed # None
          /\ rec'.sealed # rec.sealed => rec.sealed = None \/ rec.window > 0
          /\ rec.window > 0 => rec'.window > 0 /\ rec'.status = "ok"
          /\ rec'.status = "quarantined" => rec.sealed # None /\ files # rec.sealed
          /\ rec.status = "quarantined" /\ rec'.status = "ok" =>
                rec'.sealed = rec.sealed /\ rec'.missing = None
          /\ rec.window = 0 => rec'.sealed = IF rec.sealed = None THEN files ELSE rec.sealed
      BY <1>1, <3>1, RecordCalls
    <3>3. TypeOK'
      BY <1>1, <1>2, <1>3, <1>6, <2>1, <3>2, IntegrityTypes, IntegrityTypesNext
    <3>4. ASSUME cause' = {} PROVE cause = {} /\ (rec.window > 0 \/ (rec.window = 0 /\ files = disk))
      <4>1. rec.window \in 0..Window /\ Window \in Nat
        BY <1>1, IntegrityBounds DEF Records
      <4>2. CASE InWindow(rec)
        <5>1. rec.window > 0
          BY <4>2 DEF InWindow
        <5> QED
          BY <2>1, <3>4, <5>1
      <4>3. CASE ~InWindow(rec)
        <5>1. ~(files \notin {None, disk})
          BY <1>6, <3>4, <4>3
        <5> QED
          BY <2>1, <2>3, <3>4, <4>1, <4>3, <5>1 DEF InWindow
      <4> QED
        BY <4>2, <4>3
    <3>5. UpdateIsCovered'
      <4> SUFFICES ASSUME cause' = {}
                   PROVE  /\ ~mute' /\ Measuring'
                          /\ pending' # None \/ got' # None \/ rec'.sealed \notin {None, disk'}
                                => InWindow(rec)' \/ MarkSteps' # {}
                          /\ rec'.status = "quarantined" => MarkSteps' # {}
        BY DEF UpdateIsCovered, InWindow
      <4>1. /\ ~mute /\ Measuring
            /\ pending # None \/ got # None \/ rec.sealed \notin {None, disk}
                  => InWindow(rec) \/ MarkSteps # {}
        BY <1>1, <3>4 DEF UpdateIsCovered
      <4>2. CASE rec.window > 0
        <5>1. rec'.window > 0 /\ rec'.status = "ok"
          BY <3>2, <4>2
        <5> QED
          BY <1>2, <1>4, <4>1, <5>1 DEF InWindow
      <4>3. CASE rec.window = 0 /\ files = disk
        <5>1. ~InWindow(rec)
          BY <4>3 DEF InWindow
        <5>2. rec'.sealed = IF rec.sealed = None THEN disk ELSE rec.sealed
          BY <3>2, <4>3
        <5>3. rec'.status = "quarantined" => rec.sealed \notin {None, disk}
          BY <3>2, <4>3
        <5> QED
          BY <1>2, <1>4, <4>1, <5>1, <5>2, <5>3
      <4> QED
        BY <3>4, <4>2, <4>3
    <3>6. QuarantineIsPlain'
      BY <3>2 DEF QuarantineIsPlain
    <3>7. SealStep
      BY <3>2 DEF SealStep
    <3> QED
      BY <3>3, <3>5, <3>6, <3>7 DEF IntegrityInv, IntegrityStep
  <2> QED
    BY <2>2, <2>3
<1>7. CASE Event /\ Blame("unsaved") /\ UNCHANGED rec
  <2>1. events' \in 0..MaxEvents /\ cause' \in Excuses /\ cause' # {}
    BY <1>1, <1>7, AnEvent, NewBlame, IntegrityTypes
  <2>2. TypeOK'
    BY <1>1, <1>2, <1>3, <1>7, <2>1, IntegrityTypes, IntegrityTypesNext
  <2> QED
    BY <1>1, <1>7, <2>1, <2>2, SealKept DEF IntegrityInv, IntegrityStep, UpdateIsCovered
<1> QED
  BY <1>6, <1>7 DEF Judge

LEMMA HostStepsSafe ==
    ASSUME IntegrityInv,
           Poll \/ RunUpdate \/ Reexec \/ Tamper \/ GoMute \/ Unmute \/ Upgrade \/ Restore
    PROVE  IntegrityStep
<1>1. TypeOK /\ QuarantineIsPlain /\ UpdateIsCovered /\ None \notin Contents
  BY IntegrityBounds DEF IntegrityInv, Contents, Builds
<1>2. ASSUME UNCHANGED <<rec, thread>>, TypeOK', UpdateIsCovered' PROVE IntegrityStep
  BY <1>1, <1>2, SealKept DEF IntegrityInv, IntegrityStep
<1>3. UNCHANGED thread => UNCHANGED MarkSteps /\ (Measuring <=> Measuring')
  BY DEF MarkSteps, Measuring
<1>4. Event \/ UNCHANGED events => events' \in 0..MaxEvents
  BY <1>1, AnEvent, IntegrityTypes
<1>5. CASE Poll
  <2>1. /\ pending' = None /\ got' \in {pending, None}
        /\ pending # None
        /\ UNCHANGED <<target, disk, running, mute, revoked, rec, memo, thread, cause>>
        /\ Event \/ UNCHANGED events
    BY <1>5 DEF Poll, host
  <2>2. TypeOK'
    BY <1>1, <1>4, <2>1, IntegrityTypes, IntegrityTypesNext
  <2>3. UpdateIsCovered'
    BY <1>1, <1>3, <2>1 DEF UpdateIsCovered, InWindow
  <2> QED
    BY <1>2, <2>1, <2>2, <2>3
<1>6. CASE RunUpdate
  <2>1. /\ got # None /\ got' = None /\ disk' \in {got, disk}
        /\ UNCHANGED <<target, running, mute, revoked, rec, memo, pending, thread, cause>>
        /\ Event \/ UNCHANGED events
    BY <1>6 DEF RunUpdate
  <2>2. TypeOK'
    <3>1. got \in Builds \cup {None} /\ disk \in Contents /\ Builds \subseteq Contents
      BY <1>1, IntegrityTypes DEF Contents
    <3> QED
      BY <1>1, <1>4, <2>1, <3>1, IntegrityTypes, IntegrityTypesNext
  <2>3. UpdateIsCovered'
    BY <1>1, <1>3, <2>1 DEF UpdateIsCovered, InWindow
  <2> QED
    BY <1>2, <2>1, <2>2, <2>3
<1>7. CASE Reexec
  <2>1. /\ running' = disk /\ got' = None
        /\ UNCHANGED <<target, disk, mute, revoked, rec, memo, pending, thread, cause, events>>
    BY <1>7 DEF Reexec
  <2>2. TypeOK'
    BY <1>1, <2>1, IntegrityTypes, IntegrityTypesNext
  <2>3. UpdateIsCovered'
    BY <1>1, <1>3, <2>1 DEF UpdateIsCovered, InWindow
  <2> QED
    BY <1>2, <2>1, <2>2, <2>3
<1>8. CASE Tamper
  <2>1. /\ Event /\ Blame("tampered") /\ disk' = "bad"
        /\ UNCHANGED <<target, running, mute, revoked, rec, memo, pending, got, thread>>
    BY <1>8 DEF Tamper
  <2>2. cause' \in Excuses /\ cause' # {}
    BY <1>1, <2>1, NewBlame, IntegrityTypes
  <2>3. TypeOK'
    <3>1. "bad" \in Contents
      BY DEF Contents
    <3> QED
      BY <1>1, <1>4, <2>1, <2>2, <3>1, IntegrityTypes, IntegrityTypesNext
  <2> QED
    BY <1>2, <2>1, <2>2, <2>3 DEF UpdateIsCovered
<1>9. CASE GoMute
  <2>1. /\ Event /\ Blame("mute") /\ mute' = TRUE
        /\ UNCHANGED <<target, disk, running, revoked, rec, memo, pending, got, thread>>
    BY <1>9 DEF GoMute
  <2>2. cause' \in Excuses /\ cause' # {}
    BY <1>1, <2>1, NewBlame, IntegrityTypes
  <2>3. TypeOK'
    BY <1>1, <1>4, <2>1, <2>2, IntegrityTypes, IntegrityTypesNext
  <2> QED
    BY <1>2, <2>1, <2>2, <2>3 DEF UpdateIsCovered
<1>10. CASE Unmute \/ Upgrade \/ Restore
  <2>1. /\ mute' \in {mute, FALSE} /\ target' \in {target, "new"} /\ revoked' \in {revoked, FALSE}
        /\ UNCHANGED <<disk, running, rec, memo, pending, got, thread, cause, events>>
    BY <1>10 DEF Unmute, Upgrade, Restore, host
  <2>2. TypeOK'
    BY <1>1, <2>1, IntegrityTypes, IntegrityTypesNext DEF Builds
  <2>3. UpdateIsCovered'
    BY <1>1, <1>3, <2>1 DEF UpdateIsCovered, InWindow
  <2> QED
    BY <1>2, <2>1, <2>2, <2>3
<1> QED
  BY <1>5, <1>6, <1>7, <1>8, <1>9, <1>10

LEMMA RebaselineSafe ==
    ASSUME IntegrityInv, Resume \/ Revoke
    PROVE  IntegrityStep
<1>1. /\ TypeOK /\ QuarantineIsPlain /\ UpdateIsCovered /\ None \notin Contents
      /\ rec \in Records /\ disk \in Contents /\ cause \in Excuses
  BY IntegrityTypes, IntegrityBounds DEF IntegrityInv, Contents, Builds
<1>2. /\ Event /\ revoked' \in {revoked, TRUE} /\ rec' = NoRecord
      /\ cause' = IF Updating THEN cause \cup {"dropped"} ELSE cause
      /\ UNCHANGED <<target, disk, running, mute, memo, pending, got, thread>>
  BY DEF Resume, Revoke, Rebaseline, host
<1>3. events' \in 0..MaxEvents
  BY <1>1, <1>2, AnEvent, IntegrityTypes
<1>4. cause' \in Excuses /\ (cause' = {} => cause = {} /\ ~Updating)
  BY <1>1, <1>2 DEF Excuses
<1>5. rec' \in Records /\ rec'.status = "ok" /\ rec'.sealed = None
  BY <1>1, <1>2, RecordCalls DEF NoRecord
<1>6. TypeOK'
  BY <1>1, <1>2, <1>3, <1>4, <1>5, IntegrityTypes, IntegrityTypesNext
<1>7. UpdateIsCovered' /\ QuarantineIsPlain'
  <2>1. Measuring => Measuring'
    BY <1>2 DEF Measuring
  <2> QED
    BY <1>1, <1>2, <1>4, <1>5, <2>1 DEF UpdateIsCovered, QuarantineIsPlain, Updating
<1>8. SealStep
  <2>1. None # "bad"
    BY IntegrityBounds
  <2> QED
    BY <1>2, <1>5, <2>1 DEF SealStep
<1> QED
  BY <1>6, <1>7, <1>8 DEF IntegrityInv, IntegrityStep

LEMMA RestartSafe ==
    ASSUME IntegrityInv, BackendRestart
    PROVE  IntegrityStep
<1>1. TypeOK /\ QuarantineIsPlain /\ UpdateIsCovered /\ cause \in Excuses
  BY IntegrityTypes DEF IntegrityInv
<1>2. /\ Event /\ thread' = [w \in Threads |-> Idle] /\ memo' = None
      /\ cause' = IF MarkSteps # {} THEN cause \cup {"unsaved"} ELSE cause
      /\ UNCHANGED <<target, disk, running, mute, revoked, rec, pending, got>>
  BY DEF BackendRestart, host, MarkSteps
<1>3. events' \in 0..MaxEvents
  BY <1>1, <1>2, AnEvent, IntegrityTypes
<1>4. cause' \in Excuses /\ (cause' = {} => cause = {} /\ MarkSteps = {})
  BY <1>1, <1>2 DEF Excuses
<1>5. thread' \in [Threads -> Handlers] /\ Measuring'
  <2>1. Idle \in Handlers /\ Idle.pc = "idle" /\ Idle.version = None
    BY DEF Idle, Handlers
  <2> QED
    BY <1>2, <2>1 DEF Measuring
<1>6. TypeOK'
  BY <1>1, <1>2, <1>3, <1>4, <1>5, IntegrityTypes, IntegrityTypesNext DEF Memos
<1>7. UpdateIsCovered'
  BY <1>1, <1>2, <1>4, <1>5 DEF UpdateIsCovered, InWindow
<1> QED
  BY <1>1, <1>2, <1>6, <1>7, SealKept DEF IntegrityInv, IntegrityStep

LEMMA TickSafe ==
    ASSUME IntegrityInv, Tick
    PROVE  IntegrityStep
<1>1. /\ TypeOK /\ QuarantineIsPlain /\ UpdateIsCovered
      /\ rec \in Records /\ memo \in Memos /\ cause \in Excuses
      /\ Window \in Nat /\ Grace \in Nat /\ Cooldown \in Nat
  BY IntegrityTypes, IntegrityBounds DEF IntegrityInv
<1>2. /\ UNCHANGED <<target, disk, running, mute, revoked, pending, got, thread, events>>
      /\ cause' = IF rec.window = 1 /\ (pending # None \/ got # None \/ rec.sealed # disk)
                  THEN cause \cup {"expired"} ELSE cause
  BY DEF Tick, host
<1>3. /\ rec' \in Records /\ rec'.sealed = rec.sealed /\ rec'.status = rec.status
      /\ rec'.window = IF rec.window = 0 THEN 0 ELSE rec.window - 1
  <2>1. rec' = [rec EXCEPT !.window = IF rec.window = 0 THEN 0 ELSE rec.window - 1,
                           !.missing = Up(rec.missing, Grace)]
    BY DEF Tick
  <2>2. /\ (IF rec.window = 0 THEN 0 ELSE rec.window - 1) \in 0..Window
        /\ Up(rec.missing, Grace) \in {None} \cup 0..Grace
    BY <1>1 DEF Records, Up
  <2> DEFINE n == IF rec.window = 0 THEN 0 ELSE rec.window - 1
             m == Up(rec.missing, Grace)
  <2>3. rec' = [rec EXCEPT !.window = n, !.missing = m]
    BY <2>1
  <2>4. n \in 0..Window /\ m \in {None} \cup 0..Grace
    BY <2>2
  <2>5. n = IF rec.window = 0 THEN 0 ELSE rec.window - 1
    OBVIOUS
  <2> HIDE DEF n, m
  <2>6. /\ rec' \in Records /\ rec'.sealed = rec.sealed /\ rec'.status = rec.status
        /\ rec'.window = n
    BY <1>1, <2>3, <2>4 DEF Records
  <2> QED
    BY <2>5, <2>6
<1>4. memo' \in Memos
  <2>1. CASE memo = None
    BY <2>1 DEF Tick, Memos
  <2>2. CASE memo # None
    <3>1. memo \in [build : Builds, age : 0..Cooldown]
      BY <1>1, <2>2 DEF Memos
    <3>2. Up(memo.age, Cooldown) \in 0..Cooldown
      BY <1>1, <3>1 DEF Up
    <3>3. memo' = [memo EXCEPT !.age = Up(memo.age, Cooldown)]
      BY <2>2 DEF Tick
    <3> QED
      BY <3>1, <3>2, <3>3 DEF Memos
  <2> QED
    BY <2>1, <2>2
<1>5. /\ cause' \in Excuses
      /\ cause' = {} =>
            /\ cause = {}
            /\ rec.window = 1 => pending = None /\ got = None /\ rec.sealed = disk
  BY <1>1, <1>2 DEF Excuses
<1>6. TypeOK'
  BY <1>1, <1>2, <1>3, <1>4, <1>5, IntegrityTypes, IntegrityTypesNext
<1>7. UpdateIsCovered'
  <2>1. UNCHANGED MarkSteps /\ (Measuring => Measuring')
    BY <1>2 DEF MarkSteps, Measuring
  <2>2. rec.window \in Nat
    BY <1>1 DEF Records
  <2>3. rec.window > 1 => InWindow(rec')
    BY <1>3, <2>2 DEF InWindow
  <2>4. InWindow(rec) => rec.window = 1 \/ rec.window > 1
    BY <2>2 DEF InWindow
  <2> QED
    BY <1>1, <1>2, <1>3, <1>5, <2>1, <2>3, <2>4 DEF UpdateIsCovered
<1>8. QuarantineIsPlain' /\ SealStep
  BY <1>1, <1>3 DEF QuarantineIsPlain, SealStep
<1> QED
  BY <1>6, <1>7, <1>8 DEF IntegrityInv, IntegrityStep

LEMMA IntegrityStepSafe == IntegrityInv /\ [Next]_vars => IntegrityStep
<1> SUFFICES ASSUME IntegrityInv, [Next]_vars PROVE IntegrityStep
  OBVIOUS
<1>1. CASE UNCHANGED vars
  <2>1. TypeOK' /\ QuarantineIsPlain' /\ UpdateIsCovered'
    BY <1>1 DEF IntegrityInv, TypeOK, QuarantineIsPlain, UpdateIsCovered, Measuring, MarkSteps,
                InWindow, vars, host
  <2> QED
    BY <1>1, <2>1, SealKept DEF IntegrityInv, IntegrityStep, vars
<1>2. CASE Next
  <2>1. ASSUME NEW w \in Threads, Heartbeat(w) \/ HandlerStep(w) \/ ManualPush(w)
        PROVE  IntegrityStep
    BY <2>1, HeartbeatSafe, HeartbeatVerifySafe, AutoUpdateSafe, QueueUpdateSafe, MarkSafe,
       JudgeSafe, ManualPushSafe DEF HandlerStep
  <2> QED
    BY <1>2, <2>1, HostStepsSafe, RebaselineSafe, RestartSafe, TickSafe DEF Next
<1> QED
  BY <1>1, <1>2

(* Without a named cause a quarantine stands only until the handler that    *)
(* queued the update opens its window (mark_updating); what the controller  *)
(* did not ship is sealed only by evaluate()'s first sighting or inside a   *)
(* window; and evaluate() and note_missing() never lift a quarantine but    *)
(* for the files that were sealed.  For any threads, window, grace,         *)
(* cooldown and number of faults.                                           *)
THEOREM IntegrityAlwaysHolds == ChannelsSpec => IntegrityHolds
<1>1. ChannelsInit => IntegrityInv
  BY IntegrityInit DEF ChannelsInit
<1>2. IntegrityInv /\ [ChannelsNext]_channelVars => IntegrityInv' /\ SealStep
  <2>1. [ChannelsNext]_channelVars => [Next]_vars
    BY DEF ChannelsNext, channelVars
  <2> QED
    BY <2>1, IntegrityStepSafe DEF IntegrityStep
<1>3. IntegrityInv => TypeOK /\ LockoutHasCause
  BY DEF IntegrityInv, UpdateIsCovered, MarkSteps, LockoutHasCause
<1>4. SealStep => [/\ rec'.sealed = "bad" /\ rec.sealed # "bad" =>
                        rec.sealed = None \/ rec.window > 0
                   /\ rec.status = "quarantined" /\ rec'.status = "ok" =>
                        \/ rec' = NoRecord
                        \/ rec'.window = Window
                        \/ rec'.sealed = rec.sealed /\ rec'.missing = None]_vars
  BY DEF SealStep
<1> QED
  BY <1>1, <1>2, <1>3, <1>4, PTL DEF ChannelsSpec, IntegrityHolds, SealsAreGranted

=============================================================================
