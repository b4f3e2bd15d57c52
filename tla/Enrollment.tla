----------------------------- MODULE Enrollment -----------------------------
(***************************************************************************)
(* Enrollment of hosts: single-use tokens, the agents table, the enroll     *)
(* handler with its lock, and the administrator's operations that run       *)
(* beside it (mint, reissue, revoke, restore, delete, Force Delete, pause). *)
(*                                                                         *)
(* Every handler runs on a pool thread; one step is one database access or  *)
(* one access to _ENROLL_LOCK.  Enrolling and deleting hold the lock over   *)
(* several steps; revoking, restoring, minting and pausing do not take it.  *)
(*                                                                         *)
(* Clocks are abstracted to the moments at which a threshold passes: a      *)
(* token expires, its reuse window closes, a host was last seen too long    *)
(* ago to count as live.  Each may happen at any time.                      *)
(*                                                                         *)
(* A machine's host_id is derived from its machine-id (_stable_host_id), so *)
(* host_ids and machines are the same set; a host_id can still end up on    *)
(* another machine, because a used token resolves to the one it is bound to.*)
(***************************************************************************)
EXTENDS Integers, FiniteSets

CONSTANTS
    Machines,     \* managed machines, and their host_ids
    Tokens,       \* bound: the enrollment tokens that can be minted
    Workers,      \* threads of the backend's pool
    None,         \* no host, no token, nobody holds the lock
    HostLimit,    \* edition.HOST_LIMIT
    MaxSecrets,   \* bound: agent secrets ever minted
    MaxEvents     \* bound: disturbances (see Event)

ASSUME EnrollmentAssumption ==
    /\ None \notin Machines \cup Tokens \cup Workers
    /\ Machines # {} /\ IsFiniteSet(Machines)
    /\ HostLimit \in Nat /\ MaxSecrets \in Nat /\ MaxEvents \in Nat

NoSecret == 0
Secrets  == 0..MaxSecrets
OrNone(S) == S \cup {None}

VARIABLES
    tokens,      \* the enroll_tokens table
    rows,        \* the agents table; NoSecret: there is no such row
    paused,      \* enrollment_control.paused
    lock,        \* who holds _ENROLL_LOCK
    minted,      \* agent secrets minted so far
    thread,      \* what each pool thread is doing
    machine,     \* each machine: its agent, its token, its state file
    enrolled,    \* history: host_ids a token has enrolled
    rebinds,     \* history: takeovers a token was the only authority for
    banned,      \* history: tokens a Force Delete of the host has purged
    events       \* bound: disturbances so far

db   == <<tokens, rows, paused>>
hist == <<enrolled, rebinds, banned>>
vars == <<db, lock, minted, thread, machine, hist, events>>

-----------------------------------------------------------------------------
TokenRows == [state : {"none", "unused", "used", "deleted"},
              bound : OrNone(Machines), reissue : BOOLEAN,
              expired : BOOLEAN, window : BOOLEAN]
(* box: the machine whose hostname and address the row shows.               *)
AgentRows == [secret : Secrets, revoked : BOOLEAN, live : BOOLEAN,
              box : OrNone(Machines)]
NoRow == [secret |-> NoSecret, revoked |-> FALSE, live |-> FALSE, box |-> None]

EnrollLocked == {"e_validate", "e_check", "e_limit", "e_consume", "e_create"}
DeleteLocked == {"d_delete", "d_purge"}
EnrollPCs    == {"e_paused", "e_lock", "e_answer"} \cup EnrollLocked

(* live: the machine still waits; purge: this is a Force Delete.            *)
Handlers == [pc : {"idle", "i_mint", "x_verify", "d_lock"} \cup EnrollPCs \cup DeleteLocked,
             from : OrNone(Machines), host : OrNone(Machines),
             token : OrNone(Tokens), secret : Secrets,
             live : BOOLEAN, purge : BOOLEAN]
IdleHandler == [pc |-> "idle", from |-> None, host |-> None, token |-> None,
                secret |-> NoSecret, live |-> FALSE, purge |-> FALSE]

(* host, secret: agent_state.json; token: SYSIBLE_ENROLL_TOKEN.             *)
MachineStates == [mode : {"off", "registering", "up"}, token : OrNone(Tokens),
                  host : OrNone(Machines), secret : Secrets]

TypeOK ==
    /\ tokens \in [Tokens -> TokenRows]
    /\ rows \in [Machines -> AgentRows]
    /\ paused \in BOOLEAN
    /\ lock \in OrNone(Workers)
    /\ minted \in Secrets
    /\ thread \in [Workers -> Handlers]
    /\ machine \in [Machines -> MachineStates]
    /\ enrolled \in [Tokens -> SUBSET Machines]
    /\ rebinds \in [Tokens -> Nat]
    /\ banned \in [Machines -> SUBSET Tokens]
    /\ events \in Nat

Init ==
    /\ tokens = [t \in Tokens |-> [state |-> "none", bound |-> None, reissue |-> FALSE,
                                   expired |-> FALSE, window |-> FALSE]]
    /\ rows = [h \in Machines |-> NoRow]
    /\ paused = FALSE
    /\ lock = None
    /\ minted = 0
    /\ thread = [w \in Workers |-> IdleHandler]
    /\ machine = [m \in Machines |-> [mode |-> "off", token |-> None, host |-> None,
                                      secret |-> NoSecret]]
    /\ enrolled = [t \in Tokens |-> {}]
    /\ rebinds = [t \in Tokens |-> 0]
    /\ banned = [h \in Machines |-> {}]
    /\ events = 0

-----------------------------------------------------------------------------
Present(h) == rows[h].secret # NoSecret
Fleet      == {h \in Machines : Present(h)}
(* Bound: deletions, disenrollments, lost files, revocations, pauses, failed *)
(* inserts and restarts.                                                    *)
Event      == events < MaxEvents /\ events' = events + 1

Goto(w, pc) == thread' = [thread EXCEPT ![w].pc = pc]
Finish(w)   == thread' = [thread EXCEPT ![w] = IdleHandler]

Release == lock' = None

(* The handler raises: `with _ENROLL_LOCK' is left, and register() fails, so *)
(* the agent process exits and systemd starts it again.                     *)
Refuse(w) ==
    /\ Release
    /\ Finish(w)
    /\ machine' = IF thread[w].live THEN [machine EXCEPT ![thread[w].from].mode = "off"]
                  ELSE machine

-----------------------------------------------------------------------------
(* The machines.                                                            *)

(* A bundle, and with it a token, is installed; nothing keeps an operator   *)
(* from using one bundle on two machines.                                   *)
InstallBundle(m, t) ==
    /\ machine[m].mode = "off"
    /\ tokens[t].state # "none"
    /\ machine' = [machine EXCEPT ![m].token = t]
    /\ UNCHANGED <<db, lock, minted, thread, hist, events>>

(* register(): the saved host_id and secret go along if there are any.      *)
(* (main() only calls it without a saved secret; a client may do otherwise.)*)
(* Bound: no more handlers than secrets are left.                           *)
Enrolling == {w \in Workers : thread[w].pc \in EnrollPCs \ {"e_answer"}}
Register(m, w) ==
    /\ machine[m].mode = "off"
    /\ machine[m].token # None
    /\ thread[w].pc = "idle"
    /\ minted + Cardinality(Enrolling) < MaxSecrets
    /\ machine' = [machine EXCEPT ![m].mode = "registering"]
    /\ thread' = [thread EXCEPT ![w] =
                    [pc |-> "e_paused", from |-> m,
                     host |-> IF machine[m].host = None THEN m ELSE machine[m].host,
                     token |-> machine[m].token, secret |-> machine[m].secret,
                     live |-> TRUE, purge |-> FALSE]]
    /\ UNCHANGED <<db, lock, minted, hist, events>>

(* main() with a state file.                                                *)
StartAgent(m) ==
    /\ machine[m].mode = "off"
    /\ machine[m].secret # NoSecret
    /\ machine' = [machine EXCEPT ![m].mode = "up"]
    /\ UNCHANGED <<db, lock, minted, thread, hist, events>>

(* A restart of the agent or its machine keeps the state file.              *)
StopAgent(m) ==
    /\ machine[m].mode = "up"
    /\ machine' = [machine EXCEPT ![m].mode = "off"]
    /\ UNCHANGED <<db, lock, minted, thread, hist, events>>

(* The request timed out or the process was stopped: nobody reads the answer.*)
Abandon(m) == [w \in Workers |-> IF thread[w].live /\ thread[w].from = m
                                 THEN [thread[w] EXCEPT !.live = FALSE] ELSE thread[w]]
GiveUp(m) ==
    /\ machine[m].mode = "registering"
    /\ machine' = [machine EXCEPT ![m].mode = "off"]
    /\ thread' = Abandon(m)
    /\ UNCHANGED <<db, lock, minted, hist, events>>

(* Mutant: the state file is emptied, not removed.                          *)
MutCleared(m) == [machine[m] EXCEPT !.mode = "off", !.host = None, !.secret = None]
(* clear_state(), and the process has ended.                                *)
Cleared(m) == [machine[m] EXCEPT !.mode = "off", !.host = None, !.secret = NoSecret]

(* verify_agent passes: update_agent_heartbeat.  404: UnknownHostError, so  *)
(* clear_state() and exit.  Revoked or rotated: logged, and it goes on.     *)
Heartbeat(m) ==
    /\ machine[m].mode = "up"
    /\ LET h == machine[m].host IN
       \/ /\ Present(h) /\ ~rows[h].revoked /\ rows[h].secret = machine[m].secret
          /\ rows' = [rows EXCEPT ![h].live = TRUE]
          /\ UNCHANGED machine
       \/ /\ ~Present(h)
          /\ machine' = [machine EXCEPT ![m] = Cleared(m)]
          /\ UNCHANGED rows
    /\ UNCHANGED <<tokens, paused, lock, minted, thread, hist, events>>

(* disenroll_agent.sh: tell the controller, then clean up whatever it says. *)
Disenroll(m, w) ==
    /\ Event
    /\ machine[m].mode = "up"
    /\ thread[w].pc = "idle"
    /\ thread' = [thread EXCEPT ![w] =
                    [IdleHandler EXCEPT !.pc = "x_verify", !.host = machine[m].host,
                                        !.secret = machine[m].secret]]
    /\ machine' = [machine EXCEPT ![m] = Cleared(m)]
    /\ UNCHANGED <<db, lock, minted, hist>>

(* The machine is reimaged, or its state file could not be written.         *)
LoseState(m) ==
    /\ Event
    /\ machine[m].mode = "up"
    /\ machine' = [machine EXCEPT ![m] = Cleared(m)]
    /\ UNCHANGED <<db, lock, minted, thread, hist>>

-----------------------------------------------------------------------------
(* The enroll handler.                                                      *)

(* get_enrollment_paused, before the lock is taken.                         *)
EnrollPaused(w) ==
    /\ thread[w].pc = "e_paused"
    /\ \/ /\ ~paused
          /\ Goto(w, "e_lock")
          /\ UNCHANGED machine
       \/ /\ paused
          /\ Finish(w)
          /\ machine' = IF thread[w].live THEN [machine EXCEPT ![thread[w].from].mode = "off"]
                        ELSE machine
    /\ UNCHANGED <<db, lock, minted, hist, events>>

Acquire(w) == lock = None /\ lock' = w

EnrollLock(w) ==
    /\ thread[w].pc = "e_lock"
    /\ Acquire(w)
    /\ Goto(w, "e_validate")
    /\ UNCHANGED <<db, minted, machine, hist, events>>

(* validate_enroll_token: unexpired and unused, or used by some host within *)
(* the reuse window.                                                        *)
Valid(t) == /\ ~tokens[t].expired
            /\ \/ tokens[t].state = "unused"
               \/ tokens[t].state = "used" /\ tokens[t].bound # None /\ tokens[t].window

(* resolve_enroll_token_host: a bound token stands for its host.            *)
Resolved(t, requested) == IF tokens[t].bound # None THEN tokens[t].bound ELSE requested

EnrollValidate(w) ==
    /\ thread[w].pc = "e_validate"
    /\ LET t == thread[w].token IN
       \/ /\ Valid(t)
          /\ thread' = [thread EXCEPT ![w] = [@ EXCEPT !.pc = "e_check",
                                              !.host = Resolved(t, thread[w].host)]]
          /\ UNCHANGED <<lock, machine>>
       \/ ~Valid(t) /\ Refuse(w)
    /\ UNCHANGED <<db, minted, hist, events>>

(* _find_supersedable_agent: rows of the same box, not revoked, not live.   *)
Supersedable(m, h) == {g \in Fleet \ {h} : /\ rows[g].box = m
                                           /\ ~rows[g].revoked /\ ~rows[g].live}
(* The row this enrollment is about: the resolved one, else one to adopt.   *)
Targets(m, h) == IF Present(h) \/ Supersedable(m, h) = {} THEN {h}
                 ELSE Supersedable(m, h)

(* enroll_token_authorizes_rebind.                                          *)
Authorizes(t, h) == /\ tokens[t].reissue /\ tokens[t].state = "unused"
                    /\ ~tokens[t].expired /\ tokens[t].bound = h
HasSecret(h, s) == s # NoSecret /\ s = rows[h].secret

(* Mutant: any valid token may take over a host that is not live.           *)
MutProven(w, h) == HasSecret(h, thread[w].secret) \/ Authorizes(thread[w].token, h)
                   \/ ~rows[h].live
(* P1: the caller has the current secret.  P3: an admin's reissue token.    *)
Proven(w, h) == HasSecret(h, thread[w].secret) \/ Authorizes(thread[w].token, h)

EnrollCheck(w) ==
    /\ thread[w].pc = "e_check"
    /\ \E h \in Targets(thread[w].from, thread[w].host) :
       \/ /\ Present(h) => ~rows[h].revoked /\ Proven(w, h)
          /\ thread' = [thread EXCEPT ![w] = [@ EXCEPT !.pc = "e_limit", !.host = h]]
          /\ UNCHANGED <<lock, machine>>
       \/ /\ Present(h) /\ (rows[h].revoked \/ ~Proven(w, h))
          /\ Refuse(w)
    /\ UNCHANGED <<db, minted, hist, events>>

(* Mutant: the limit counts what is there, not what will be.                *)
MutWithinLimit(h) == Cardinality(Fleet) <= HostLimit
(* enforce_host_limit: a host under management is not a new one.            *)
WithinLimit(h) == Present(h) \/ Cardinality(Fleet) < HostLimit

EnrollLimit(w) ==
    /\ thread[w].pc = "e_limit"
    /\ \/ /\ WithinLimit(thread[w].host)
          /\ Goto(w, "e_consume")
          /\ UNCHANGED <<lock, machine>>
       \/ ~WithinLimit(thread[w].host) /\ Refuse(w)
    /\ UNCHANGED <<db, minted, hist, events>>

(* Mutant: claim by token alone.                                            *)
MutClaimable(t, h) == tokens[t].state \in {"unused", "used"}
(* consume_enroll_token: ... WHERE token=? AND (used=0 OR bound_host_id=?). *)
Claimable(t, h) == \/ tokens[t].state = "unused"
                   \/ tokens[t].state = "used" /\ tokens[t].bound = h

EnrollConsume(w) ==
    /\ thread[w].pc = "e_consume"
    /\ LET t == thread[w].token
           h == thread[w].host IN
       \/ /\ Claimable(t, h)
          /\ tokens' = [tokens EXCEPT ![t] = [@ EXCEPT !.state = "used", !.bound = h,
                                                       !.window = ~tokens[t].expired]]
          /\ Goto(w, "e_create")
          /\ UNCHANGED <<lock, machine>>
       \/ /\ ~Claimable(t, h)
          /\ Refuse(w)
          /\ UNCHANGED tokens
    /\ UNCHANGED <<rows, paused, minted, hist, events>>

(* create_or_update_agent: a new secret, revoked=0; then the lock is left.  *)
EnrollCreate(w) ==
    /\ thread[w].pc = "e_create"
    /\ minted < MaxSecrets
    /\ minted' = minted + 1
    /\ LET t == thread[w].token
           h == thread[w].host IN
       /\ rows' = [rows EXCEPT ![h] = [secret |-> minted + 1, revoked |-> FALSE,
                                       live |-> TRUE, box |-> thread[w].from]]
       /\ enrolled' = [enrolled EXCEPT ![t] = @ \cup {h}]
       /\ rebinds' = IF Present(h) /\ ~HasSecret(h, thread[w].secret)
                     THEN [rebinds EXCEPT ![t] = @ + 1] ELSE rebinds
    /\ thread' = [thread EXCEPT ![w] = [@ EXCEPT !.pc = "e_answer", !.token = None,
                                                 !.secret = minted + 1]]
    /\ Release
    /\ UNCHANGED <<tokens, paused, machine, banned, events>>

(* "If the row insert fails (e.g. transient DB lock)": a 500, token bound.  *)
EnrollCreateFails(w) ==
    /\ Event
    /\ thread[w].pc = "e_create"
    /\ Refuse(w)
    /\ UNCHANGED <<db, minted, hist>>

EnrollAnswer(w) ==
    /\ thread[w].pc = "e_answer"
    /\ Finish(w)
    /\ machine' = IF thread[w].live
                  THEN [machine EXCEPT ![thread[w].from] =
                          [@ EXCEPT !.mode = "up", !.host = thread[w].host,
                                    !.secret = thread[w].secret]]
                  ELSE machine
    /\ UNCHANGED <<db, lock, minted, hist, events>>

-----------------------------------------------------------------------------
(* The administrator's operations.                                          *)

(* generate_token and the bundle downloads: refused at the host limit.      *)
Mint(t) ==
    /\ tokens[t].state = "none"
    /\ Cardinality(Fleet) < HostLimit
    /\ tokens' = [tokens EXCEPT ![t].state = "unused"]
    /\ UNCHANGED <<rows, paused, lock, minted, thread, machine, hist, events>>

(* reissue_token: look the host up, then insert a token bound to it.        *)
(* Bound: while there is a token left to mint.                              *)
Reissue(w, h) ==
    /\ thread[w].pc = "idle"
    /\ Present(h)
    /\ \E t \in Tokens : tokens[t].state = "none"
    /\ thread' = [thread EXCEPT ![w] = [IdleHandler EXCEPT !.pc = "i_mint", !.host = h]]
    /\ UNCHANGED <<db, lock, minted, machine, hist, events>>
ReissueMint(w, t) ==
    /\ thread[w].pc = "i_mint"
    /\ tokens[t].state = "none"
    /\ tokens' = [tokens EXCEPT ![t] = [@ EXCEPT !.state = "unused", !.reissue = TRUE,
                                                 !.bound = thread[w].host]]
    /\ Finish(w)
    /\ UNCHANGED <<rows, paused, lock, minted, machine, hist, events>>

(* revoke_agent_route and restore_agent_route: UPDATEs without the lock.    *)
Revoke(h) ==
    /\ Event
    /\ Present(h) /\ ~rows[h].revoked
    /\ rows' = [rows EXCEPT ![h].revoked = TRUE]
    /\ UNCHANGED <<tokens, paused, lock, minted, thread, machine, hist>>
Restore(h) ==
    /\ Present(h) /\ rows[h].revoked
    /\ rows' = [rows EXCEPT ![h].revoked = FALSE]
    /\ UNCHANGED <<tokens, paused, lock, minted, thread, machine, hist, events>>

(* Setting the flag to what it is changes nothing.                          *)
SetPaused(b) ==
    /\ Event
    /\ paused # b
    /\ paused' = b
    /\ UNCHANGED <<tokens, rows, lock, minted, thread, machine, hist>>

(* remove_agent, with purge_token=1 a Force Delete.                         *)
Remove(w, h, purge) ==
    /\ Event
    /\ thread[w].pc = "idle"
    /\ thread' = [thread EXCEPT ![w] = [IdleHandler EXCEPT !.pc = "d_lock", !.host = h,
                                                           !.purge = purge]]
    /\ UNCHANGED <<db, lock, minted, machine, hist>>

(* self_disenroll verifies the secret, and then waits for the lock.         *)
DisenrollVerify(w) ==
    /\ thread[w].pc = "x_verify"
    /\ LET h == thread[w].host IN
       IF Present(h) /\ ~rows[h].revoked /\ HasSecret(h, thread[w].secret)
       THEN Goto(w, "d_lock") ELSE Finish(w)
    /\ UNCHANGED <<db, lock, minted, machine, hist, events>>

(* Mutant: the delete does not wait for the lock.                           *)
MutDeleteLock(w) ==
    /\ thread[w].pc = "d_lock"
    /\ Goto(w, "d_delete")
    /\ UNCHANGED <<db, lock, minted, machine, hist, events>>
DeleteLock(w) ==
    /\ thread[w].pc = "d_lock"
    /\ Acquire(w)
    /\ Goto(w, "d_delete")
    /\ UNCHANGED <<db, minted, machine, hist, events>>

DeleteRow(w) ==
    /\ thread[w].pc = "d_delete"
    /\ rows' = [rows EXCEPT ![thread[w].host] = NoRow]
    /\ IF thread[w].purge THEN Goto(w, "d_purge") /\ UNCHANGED lock
       ELSE Finish(w) /\ Release
    /\ UNCHANGED <<tokens, paused, minted, machine, hist, events>>

(* invalidate_enroll_tokens_for_host.                                       *)
DeletePurge(w) ==
    /\ thread[w].pc = "d_purge"
    /\ LET h == thread[w].host
           mine == {t \in Tokens : tokens[t].bound = h /\ tokens[t].state # "deleted"} IN
       /\ tokens' = [t \in Tokens |-> IF t \in mine
                                      THEN [tokens[t] EXCEPT !.state = "deleted"]
                                      ELSE tokens[t]]
       /\ banned' = [banned EXCEPT ![h] = @ \cup mine]
    /\ Finish(w)
    /\ Release
    /\ UNCHANGED <<rows, paused, minted, machine, enrolled, rebinds, events>>

-----------------------------------------------------------------------------
(* Time (the reuse window of an expired token does not matter any more),    *)
(* and a restart of the backend (the lock is in its memory).                *)
Expire(t) ==
    /\ tokens[t].state \in {"unused", "used"} /\ ~tokens[t].expired
    /\ tokens' = [tokens EXCEPT ![t] = [@ EXCEPT !.expired = TRUE, !.window = FALSE]]
    /\ UNCHANGED <<rows, paused, lock, minted, thread, machine, hist, events>>
CloseWindow(t) ==
    /\ tokens[t].state = "used" /\ tokens[t].window
    /\ tokens' = [tokens EXCEPT ![t].window = FALSE]
    /\ UNCHANGED <<rows, paused, lock, minted, thread, machine, hist, events>>
GoStale(h) ==
    /\ rows[h].live
    /\ rows' = [rows EXCEPT ![h].live = FALSE]
    /\ UNCHANGED <<tokens, paused, lock, minted, thread, machine, hist, events>>
BackendRestart ==
    /\ Event
    /\ thread' = [w \in Workers |-> IdleHandler]
    /\ lock' = None
    /\ UNCHANGED <<db, minted, machine, hist>>

-----------------------------------------------------------------------------
EnrollStep(w) ==
    \/ EnrollPaused(w) \/ EnrollLock(w) \/ EnrollValidate(w) \/ EnrollCheck(w)
    \/ EnrollLimit(w) \/ EnrollConsume(w) \/ EnrollCreate(w) \/ EnrollAnswer(w)
DeleteStep(w) == DisenrollVerify(w) \/ DeleteLock(w) \/ DeleteRow(w) \/ DeletePurge(w)

Next ==
    \/ \E m \in Machines :
          \/ \E t \in Tokens : InstallBundle(m, t)
          \/ \E w \in Workers : Register(m, w) \/ Disenroll(m, w)
          \/ StartAgent(m) \/ StopAgent(m) \/ GiveUp(m) \/ Heartbeat(m) \/ LoseState(m)
    \/ \E w \in Workers :
          \/ EnrollStep(w) \/ DeleteStep(w) \/ EnrollCreateFails(w)
          \/ \E t \in Tokens : ReissueMint(w, t)
          \/ \E h \in Machines :
                Reissue(w, h) \/ \E purge \in BOOLEAN : Remove(w, h, purge)
    \/ \E t \in Tokens : Mint(t) \/ Expire(t) \/ CloseWindow(t)
    \/ \E h \in Machines : Revoke(h) \/ Restore(h) \/ GoStale(h)
    \/ \E b \in BOOLEAN : SetPaused(b)
    \/ BackendRestart

Spec == Init /\ [][Next]_vars

-----------------------------------------------------------------------------
(* "A token is single-use FOREVER as far as a different host is concerned": *)
(* whatever requests overlap, are repeated or fail half way, all the rows a *)
(* token has written are the row of the one host_id it is bound to.         *)
SingleUse == \A t \in Tokens : enrolled[t] \subseteq {tokens[t].bound}

(* "a bearer enroll token alone is NOT enough": an enrollment that replaces *)
(* the secret of an existing row without presenting that secret spends a    *)
(* reissue token, and a reissue token is good for one such takeover.        *)
TakeoverNeedsReissue ==
    \A t \in Tokens : rebinds[t] <= IF tokens[t].reissue THEN 1 ELSE 0

(* "the cap can't be raced past": never more rows than HOST_LIMIT.          *)
HostCap == Cardinality(Fleet) <= HostLimit

(* Force Delete is the "make this host gone for good" action: a token it    *)
(* has purged never writes the host's row again, not even by a request that *)
(* had been validated when the delete began.                                *)
ForceDeletedStaysGone ==
    [][\A w \in Workers : thread[w].pc = "e_create" /\ minted' > minted =>
          rows'[thread[w].host].secret # minted' \/ thread[w].token \notin banned[thread[w].host]]_vars

-----------------------------------------------------------------------------
(* What the code's comments say of it, and the code does not do.            *)

(* "a replayed/fresh token must never silently un-revoke and resurrect it": *)
(* a revoked row becomes unrevoked only in place, with its secret (Restore).*)
(* (The check and the write are apart, and Revoke does not take the lock.)  *)
RevocationSticks ==
    [][\A h \in Machines : /\ Present(h) /\ rows[h].revoked
                           /\ rows'[h].secret # NoSecret /\ ~rows'[h].revoked
          => rows'[h].secret = rows[h].secret]_vars
=============================================================================
