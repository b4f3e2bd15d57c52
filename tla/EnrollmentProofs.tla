-------------------------- MODULE EnrollmentProofs --------------------------
(***************************************************************************)
(* Proofs about Enrollment, for any machines, tokens and pool threads, any  *)
(* host limit, and any number of secrets and disturbances.                  *)
(*                                                                         *)
(* None of the four safety properties is inductive: each holds because of   *)
(* what the handler in the locked section has established on its way, and   *)
(* because nobody else can undo it there.  Carries(w) says what that is.    *)
(***************************************************************************)
EXTENDS Enrollment, FiniteSetTheorems, TLAPS

Locked == EnrollLocked \cup DeleteLocked
Asking == EnrollPCs \ {"e_answer"}

(* The request may replace the row of its host, if there is one.            *)
Entitled(w, state) ==
    LET h == thread[w].host
        t == thread[w].token IN
    Present(h) => \/ HasSecret(h, thread[w].secret)
                  \/ /\ tokens[t].reissue /\ rebinds[t] = 0
                     /\ tokens[t].state = state /\ tokens[t].bound = h

(* What a handler has established by the time it is where it is.            *)
Carries(w) ==
    LET h  == thread[w].host
        t  == thread[w].token
        pc == thread[w].pc IN
    /\ thread[w].live => thread[w].from \in Machines
    /\ pc # "idle" => h \in Machines
    /\ pc \in EnrollPCs => thread[w].from \in Machines
    /\ pc \in Asking => t \in Tokens /\ tokens[t].state # "none"
    /\ pc \in Locked => lock = w
    /\ pc \in {"e_limit", "e_consume"} => Entitled(w, "unused")
    /\ pc \in {"e_consume", "e_create"} => WithinLimit(h)
    /\ pc = "e_create" => /\ tokens[t].state = "used" /\ tokens[t].bound = h
                          /\ Entitled(w, "used")
Handling == \A w \in Workers : Carries(w)

(* A token's row, and what the token has done so far.                       *)
Lived(t) ==
    /\ tokens[t].state = "none" => tokens[t].bound = None /\ ~tokens[t].reissue
    /\ tokens[t].state \in {"none", "unused"} => enrolled[t] = {} /\ rebinds[t] = 0
TokenLives == \A t \in Tokens : Lived(t)

(* A machine's state file has a host with its secret, and a bundle's token  *)
(* was minted.                                                              *)
Equipped(m) ==
    /\ machine[m].mode = "up" \/ machine[m].secret # NoSecret => machine[m].host \in Machines
    /\ machine[m].token # None => tokens[machine[m].token].state # "none"
Equipment == \A m \in Machines : Equipped(m)

(* What a Force Delete has purged stays deleted.                            *)
Purged == \A h \in Machines : \A t \in banned[h] : tokens[t].state = "deleted"

Rest == /\ Handling /\ TokenLives /\ Equipment /\ Purged
        /\ SingleUse /\ TakeoverNeedsReissue /\ HostCap
IInv == TypeOK /\ Rest

-----------------------------------------------------------------------------
(* Types.                                                                   *)

(* The idle handler and the absent row are well typed.                      *)
LEMMA Blanks == IdleHandler \in Handlers /\ NoRow \in AgentRows
  BY EnrollmentAssumption
  DEF IdleHandler, Handlers, NoRow, AgentRows, Secrets, NoSecret, OrNone

(* A handler that moves on, or ends, stays well typed.                      *)
LEMMA MoveTypes ==
    ASSUME TypeOK, NEW w \in Workers
    PROVE  /\ \A pc \in EnrollPCs \cup DeleteLocked \cup {"d_lock"} :
                Goto(w, pc) => thread' \in [Workers -> Handlers]
           /\ Finish(w) => thread' \in [Workers -> Handlers]
<1>1. thread[w] \in Handlers
  BY DEF TypeOK
<1>2. \A pc \in EnrollPCs \cup DeleteLocked \cup {"d_lock"} :
        [thread[w] EXCEPT !.pc = pc] \in Handlers
  BY <1>1 DEF Handlers
<1> QED
  BY <1>2, Blanks DEF Goto, Finish, TypeOK

(* Writing the mode of a machine keeps the type of the machines.            *)
LEMMA ModeTypes ==
    ASSUME TypeOK, NEW m, NEW mode \in {"off", "registering", "up"}
    PROVE  [machine EXCEPT ![m].mode = mode] \in [Machines -> MachineStates]
  BY DEF TypeOK, MachineStates

(* A refusal ends the handler and may stop the machine's agent.             *)
LEMMA RefuseTypes ==
    ASSUME TypeOK, NEW w \in Workers, Refuse(w)
    PROVE  /\ lock' \in OrNone(Workers)
           /\ thread' \in [Workers -> Handlers]
           /\ machine' \in [Machines -> MachineStates]
<1>1. machine' \in [Machines -> MachineStates]
  BY ModeTypes DEF Refuse, TypeOK
<1> QED
  BY <1>1, MoveTypes DEF Refuse, Release, OrNone

LEMMA ClearedType ==
    ASSUME TypeOK, NEW m \in Machines
    PROVE  Cleared(m) \in MachineStates
<1>1. machine[m] \in MachineStates
  BY DEF TypeOK
<1>2. NoSecret \in Secrets /\ None \in OrNone(Machines)
  BY EnrollmentAssumption DEF Secrets, NoSecret, OrNone
<1> QED
  BY <1>1, <1>2 DEF Cleared, MachineStates

LEMMA EventType == TypeOK /\ Event => events' \in Nat
  BY DEF TypeOK, Event

(* What a machine does.                                                     *)
LEMMA TypeMachine ==
    ASSUME TypeOK, NEW m \in Machines,
           \/ \E t \in Tokens : InstallBundle(m, t)
           \/ StartAgent(m) \/ StopAgent(m) \/ GiveUp(m) \/ Heartbeat(m) \/ LoseState(m)
    PROVE  TypeOK'
<1>1. CASE \E t \in Tokens : InstallBundle(m, t)
  BY <1>1 DEF InstallBundle, TypeOK, MachineStates, OrNone, db, hist
<1>2. CASE StartAgent(m)
  BY <1>2, ModeTypes DEF StartAgent, TypeOK, db, hist
<1>3. CASE StopAgent(m)
  BY <1>3, ModeTypes DEF StopAgent, TypeOK, db, hist
<1>4. CASE GiveUp(m)
  <2>1. \A w \in Workers : [thread[w] EXCEPT !.live = FALSE] \in Handlers
    BY DEF TypeOK, Handlers
  <2>2. Abandon(m) \in [Workers -> Handlers]
    BY <2>1 DEF Abandon, TypeOK
  <2> QED
    BY <1>4, <2>2, ModeTypes DEF GiveUp, TypeOK, db, hist
<1>5. CASE Heartbeat(m)
  <2>1. [rows EXCEPT ![machine[m].host].live = TRUE] \in [Machines -> AgentRows]
    BY DEF TypeOK, AgentRows
  <2>2. [machine EXCEPT ![m] = Cleared(m)] \in [Machines -> MachineStates]
    BY ClearedType DEF TypeOK
  <2> QED
    BY <1>5, <2>1, <2>2 DEF Heartbeat, TypeOK, hist
<1>6. CASE LoseState(m)
  <2>1. [machine EXCEPT ![m] = Cleared(m)] \in [Machines -> MachineStates]
    BY ClearedType DEF TypeOK
  <2> QED
    BY <1>6, <2>1, EventType DEF LoseState, TypeOK, db, hist
<1> QED
  BY <1>1, <1>2, <1>3, <1>4, <1>5, <1>6

(* A machine's request becomes a handler.                                   *)
LEMMA TypeRequest ==
    ASSUME TypeOK, NEW m \in Machines, NEW w \in Workers, Register(m, w) \/ Disenroll(m, w)
    PROVE  TypeOK'
<1>1. machine[m] \in MachineStates
  BY DEF TypeOK
<1>2. CASE Register(m, w)
  <2>1. [pc |-> "e_paused", from |-> m,
         host |-> IF machine[m].host = None THEN m ELSE machine[m].host,
         token |-> machine[m].token, secret |-> machine[m].secret,
         live |-> TRUE, purge |-> FALSE] \in Handlers
    BY <1>1 DEF MachineStates, Handlers, EnrollPCs, OrNone
  <2> QED
    BY <1>2, <2>1, ModeTypes DEF Register, TypeOK, db, hist
<1>3. CASE Disenroll(m, w)
  <2>1. [IdleHandler EXCEPT !.pc = "x_verify", !.host = machine[m].host,
                            !.secret = machine[m].secret] \in Handlers
    BY <1>1, Blanks DEF MachineStates, Handlers
  <2>2. [machine EXCEPT ![m] = Cleared(m)] \in [Machines -> MachineStates]
    BY ClearedType DEF TypeOK
  <2> QED
    BY <1>3, <2>1, <2>2, EventType DEF Disenroll, TypeOK, db, hist
<1> QED
  BY <1>2, <1>3

(* What the enroll handler does.  Its token is one that was minted.         *)
LEMMA TypeEnroll ==
    ASSUME TypeOK, Handling, NEW w \in Workers, EnrollStep(w) \/ EnrollCreateFails(w)
    PROVE  TypeOK'
<1> DEFINE t == thread[w].token
           h == thread[w].host
<1>1. /\ thread[w] \in Handlers
      /\ thread[w].host \in OrNone(Machines) /\ thread[w].from \in OrNone(Machines)
  BY DEF TypeOK, Handlers
<1>2. CASE EnrollPaused(w)
  <2>1. [machine EXCEPT ![thread[w].from].mode = "off"] \in [Machines -> MachineStates]
    BY ModeTypes
  <2>2. machine' \in [Machines -> MachineStates]
    BY <1>2, <2>1 DEF EnrollPaused, TypeOK
  <2> QED
    BY <1>2, <2>2, MoveTypes DEF EnrollPaused, TypeOK, EnrollPCs, db, hist
<1>3. CASE EnrollLock(w)
  BY <1>3, MoveTypes DEF EnrollLock, Acquire, TypeOK, EnrollPCs, EnrollLocked, OrNone, db, hist
<1>4. CASE EnrollValidate(w)
  <2>1. CASE Refuse(w)
    BY <1>4, <2>1, RefuseTypes DEF EnrollValidate, TypeOK, db, hist
  <2>2. CASE ~Refuse(w)
    <3>1. tokens[t] \in TokenRows
      BY <1>4 DEF EnrollValidate, Handling, Carries, Asking, EnrollPCs, EnrollLocked, TypeOK
    <3>2. [thread[w] EXCEPT !.pc = "e_check", !.host = Resolved(t, h)] \in Handlers
      BY <1>1, <3>1 DEF Resolved, TokenRows, Handlers, EnrollPCs, EnrollLocked
    <3> QED
      BY <1>4, <2>2, <3>2 DEF EnrollValidate, TypeOK, db, hist
  <2> QED
    BY <2>1, <2>2
<1>5. CASE EnrollCheck(w)
  <2>1. CASE Refuse(w)
    BY <1>5, <2>1, RefuseTypes DEF EnrollCheck, TypeOK, db, hist
  <2>2. CASE ~Refuse(w)
    <3>1. \A g \in Targets(thread[w].from, h) : g \in OrNone(Machines)
      BY <1>1 DEF Targets, Supersedable, Fleet, OrNone
    <3>2. \A g \in OrNone(Machines) : [thread[w] EXCEPT !.pc = "e_limit", !.host = g] \in Handlers
      BY <1>1 DEF Handlers, EnrollPCs, EnrollLocked
    <3> QED
      BY <1>5, <2>2, <3>1, <3>2 DEF EnrollCheck, TypeOK, db, hist
  <2> QED
    BY <2>1, <2>2
<1>6. CASE EnrollLimit(w)
  <2>1. "e_consume" \in EnrollPCs
    BY DEF EnrollPCs, EnrollLocked
  <2>2. CASE Refuse(w)
    BY <1>6, <2>2, RefuseTypes DEF EnrollLimit, TypeOK, db, hist
  <2>3. CASE ~Refuse(w)
    BY <1>6, <2>1, <2>3, MoveTypes DEF EnrollLimit, TypeOK, db, hist
  <2> QED
    BY <2>2, <2>3
<1>7. CASE EnrollConsume(w)
  <2>1. "e_create" \in EnrollPCs
    BY DEF EnrollPCs, EnrollLocked
  <2>2. CASE Claimable(t, h)
    <3>1. tokens[t] \in TokenRows
      BY <1>7 DEF EnrollConsume, Handling, Carries, Asking, EnrollPCs, EnrollLocked, TypeOK
    <3>2. [tokens[t] EXCEPT !.state = "used", !.bound = h, !.window = ~tokens[t].expired]
            \in TokenRows
      BY <1>1, <3>1 DEF TokenRows
    <3> QED
      BY <1>7, <2>1, <2>2, <3>2, MoveTypes DEF EnrollConsume, TypeOK, hist
  <2>3. CASE ~Claimable(t, h)
    BY <1>7, <2>3, RefuseTypes DEF EnrollConsume, TypeOK, hist
  <2> QED
    BY <2>2, <2>3
<1>8. CASE EnrollCreate(w)
  <2>1. minted + 1 \in Secrets
    BY <1>8, EnrollmentAssumption DEF EnrollCreate, TypeOK, Secrets
  <2>2. [secret |-> minted + 1, revoked |-> FALSE, live |-> TRUE, box |-> thread[w].from]
          \in AgentRows
    BY <1>1, <2>1 DEF AgentRows
  <2>3. [thread[w] EXCEPT !.pc = "e_answer", !.token = None, !.secret = minted + 1] \in Handlers
    BY <1>1, <2>1 DEF Handlers, EnrollPCs, OrNone
  <2>4. h \in Machines /\ t \in Tokens
    BY <1>8 DEF EnrollCreate, Handling, Carries, Asking, EnrollPCs, EnrollLocked
  <2>5. /\ [enrolled EXCEPT ![t] = @ \cup {h}] \in [Tokens -> SUBSET Machines]
        /\ [rebinds EXCEPT ![t] = @ + 1] \in [Tokens -> Nat]
    <3>1. enrolled[t] \cup {h} \in SUBSET Machines /\ rebinds[t] + 1 \in Nat
      BY <2>4 DEF TypeOK
    <3> QED
      BY <3>1 DEF TypeOK
  <2> QED
    BY <1>8, <2>1, <2>2, <2>3, <2>5 DEF EnrollCreate, Release, TypeOK, OrNone
<1>9. CASE EnrollAnswer(w)
  <2>1. thread[w].secret \in Secrets
    BY <1>1 DEF Handlers
  <2>2. [machine EXCEPT ![thread[w].from] =
           [@ EXCEPT !.mode = "up", !.host = h, !.secret = thread[w].secret]]
          \in [Machines -> MachineStates]
    BY <1>1, <2>1 DEF TypeOK, MachineStates
  <2>3. machine' \in [Machines -> MachineStates]
    BY <1>9, <2>2 DEF EnrollAnswer, TypeOK
  <2> QED
    BY <1>9, <2>3, MoveTypes DEF EnrollAnswer, TypeOK, db, hist
<1>10. CASE EnrollCreateFails(w)
  BY <1>10, RefuseTypes, EventType DEF EnrollCreateFails, TypeOK, db, hist
<1> QED
  BY <1>2, <1>3, <1>4, <1>5, <1>6, <1>7, <1>8, <1>9, <1>10 DEF EnrollStep

(* What the administrator's requests and a disenrollment do.                *)
LEMMA TypeAdmin ==
    ASSUME TypeOK, NEW w \in Workers,
           \/ DeleteStep(w)
           \/ \E t \in Tokens : ReissueMint(w, t)
           \/ \E h \in Machines : Reissue(w, h) \/ \E purge \in BOOLEAN : Remove(w, h, purge)
    PROVE  TypeOK'
<1>1. thread[w] \in Handlers /\ thread[w].host \in OrNone(Machines)
  BY DEF TypeOK, Handlers
<1>2. CASE DisenrollVerify(w)
  BY <1>2, MoveTypes DEF DisenrollVerify, TypeOK, db, hist
<1>3. CASE DeleteLock(w)
  BY <1>3, MoveTypes DEF DeleteLock, Acquire, TypeOK, DeleteLocked, OrNone, db, hist
<1>4. CASE DeleteRow(w)
  BY <1>4, MoveTypes, Blanks DEF DeleteRow, Release, TypeOK, DeleteLocked, OrNone, hist
<1>5. CASE DeletePurge(w)
  <2>1. \A t \in Tokens : [tokens[t] EXCEPT !.state = "deleted"] \in TokenRows
    BY DEF TypeOK, TokenRows
  <2>2. tokens' \in [Tokens -> TokenRows]
    BY <1>5, <2>1 DEF DeletePurge, TypeOK
  <2>3. banned' \in [Machines -> SUBSET Tokens]
    BY <1>5 DEF DeletePurge, TypeOK
  <2> QED
    BY <1>5, <2>2, <2>3, MoveTypes DEF DeletePurge, Release, TypeOK, OrNone
<1>6. ASSUME NEW t \in Tokens, ReissueMint(w, t) PROVE TypeOK'
  <2>1. [tokens EXCEPT ![t] = [@ EXCEPT !.state = "unused", !.reissue = TRUE,
                                        !.bound = thread[w].host]] \in [Tokens -> TokenRows]
    BY <1>1 DEF TypeOK, TokenRows
  <2> QED
    BY <1>6, <2>1, MoveTypes DEF ReissueMint, TypeOK, hist
<1>7. ASSUME NEW h \in Machines, Reissue(w, h) PROVE TypeOK'
  <2>1. [IdleHandler EXCEPT !.pc = "i_mint", !.host = h] \in Handlers
    BY Blanks DEF Handlers, OrNone
  <2> QED
    BY <1>7, <2>1 DEF Reissue, TypeOK, db, hist
<1>8. ASSUME NEW h \in Machines, NEW purge \in BOOLEAN, Remove(w, h, purge) PROVE TypeOK'
  <2>1. [IdleHandler EXCEPT !.pc = "d_lock", !.host = h, !.purge = purge] \in Handlers
    BY Blanks DEF Handlers, OrNone
  <2> QED
    BY <1>8, <2>1, EventType DEF Remove, TypeOK, db, hist
<1> QED
  BY <1>2, <1>3, <1>4, <1>5, <1>6, <1>7, <1>8 DEF DeleteStep

(* What happens to tokens and rows besides, and a restart.                  *)
LEMMA TypeOther ==
    ASSUME TypeOK,
           \/ \E t \in Tokens : Mint(t) \/ Expire(t) \/ CloseWindow(t)
           \/ \E h \in Machines : Revoke(h) \/ Restore(h) \/ GoStale(h)
           \/ \E b \in BOOLEAN : SetPaused(b)
           \/ BackendRestart
    PROVE  TypeOK'
<1>1. ASSUME NEW t \in Tokens, Mint(t) \/ Expire(t) \/ CloseWindow(t) PROVE TypeOK'
  <2>1. /\ [tokens[t] EXCEPT !.state = "unused"] \in TokenRows
        /\ [tokens[t] EXCEPT !.expired = TRUE, !.window = FALSE] \in TokenRows
        /\ [tokens[t] EXCEPT !.window = FALSE] \in TokenRows
    BY DEF TypeOK, TokenRows
  <2>2. tokens' \in [Tokens -> TokenRows]
    BY <1>1, <2>1 DEF Mint, Expire, CloseWindow, TypeOK
  <2> QED
    BY <1>1, <2>2 DEF Mint, Expire, CloseWindow, TypeOK, hist
<1>2. ASSUME NEW h \in Machines, Revoke(h) \/ Restore(h) \/ GoStale(h) PROVE TypeOK'
  <2>1. \A b \in BOOLEAN : /\ [rows[h] EXCEPT !.revoked = b] \in AgentRows
                           /\ [rows[h] EXCEPT !.live = b] \in AgentRows
    BY DEF TypeOK, AgentRows
  <2>2. rows' \in [Machines -> AgentRows]
    BY <1>2, <2>1 DEF Revoke, Restore, GoStale, TypeOK
  <2> QED
    BY <1>2, <2>2, EventType DEF Revoke, Restore, GoStale, TypeOK, hist
<1>3. ASSUME NEW b \in BOOLEAN, SetPaused(b) PROVE TypeOK'
  BY <1>3, EventType DEF SetPaused, TypeOK, hist
<1>4. CASE BackendRestart
  BY <1>4, EventType, Blanks DEF BackendRestart, TypeOK, OrNone, db, hist
<1> QED
  BY <1>1, <1>2, <1>3, <1>4

LEMMA TypeStep == TypeOK /\ Handling /\ [Next]_vars => TypeOK'
<1> SUFFICES ASSUME TypeOK, Handling, [Next]_vars PROVE TypeOK'
  OBVIOUS
<1>1. CASE UNCHANGED vars
  BY <1>1 DEF TypeOK, vars, db, hist
<1> QED
  BY <1>1, TypeMachine, TypeRequest, TypeEnroll, TypeAdmin, TypeOther DEF Next

-----------------------------------------------------------------------------
(* What most steps leave alone.                                             *)

(* Nothing a locked section relies on changes: the rows keep their secrets, *)
(* and the tokens that were minted what they are.                           *)
Quiet ==
    /\ \A h \in Machines : rows'[h].secret = rows[h].secret
    /\ \A t \in Tokens :
          \/ /\ tokens'[t].state = tokens[t].state /\ tokens'[t].bound = tokens[t].bound
             /\ tokens'[t].reissue = tokens[t].reissue
          \/ tokens[t].state = "none" /\ tokens'[t].state = "unused"
    /\ UNCHANGED hist

(* The handler stays where it is, and nobody takes the lock from it.        *)
Waits(v) ==
    /\ thread'[v] = thread[v] \/ thread'[v] = [thread[v] EXCEPT !.live = FALSE]
    /\ lock' = lock \/ lock # v

(* The machine's state file is what it was, or gone.                        *)
Wanes(m) ==
    \/ machine'[m] = machine[m]
    \/ \E mode \in {"off", "registering"} : machine'[m] = [machine[m] EXCEPT !.mode = mode]
    \/ machine'[m] = Cleared(m)

LEMMA QuietFleet == Quiet => Fleet' = Fleet
  BY DEF Quiet, Fleet, Present

(* What concerns tokens and rows only survives a quiet step.                *)
LEMMA QuietTables ==
    ASSUME TypeOK, Rest, Quiet
    PROVE  TokenLives' /\ Purged' /\ SingleUse' /\ TakeoverNeedsReissue' /\ HostCap'
<1>1. TokenLives'
  BY DEF Rest, Quiet, TokenLives, Lived, hist
<1>2. Purged'
  BY DEF Rest, Quiet, Purged, TypeOK, hist
<1>3. SingleUse'
  BY DEF Rest, Quiet, TokenLives, Lived, SingleUse, hist
<1>4. TakeoverNeedsReissue'
  BY DEF Rest, Quiet, TokenLives, Lived, TakeoverNeedsReissue, hist, TypeOK
<1>5. HostCap'
  BY QuietFleet DEF Rest, HostCap
<1> QED
  BY <1>1, <1>2, <1>3, <1>4, <1>5

(* So does what a handler that stays where it is has established.           *)
LEMMA QuietWaits ==
    ASSUME TypeOK, Rest, Quiet, NEW v \in Workers, Waits(v)
    PROVE  Carries(v)'
<1> DEFINE h == thread[v].host
           t == thread[v].token
<1>1. Carries(v)
  BY DEF Rest, Handling
<1>2. /\ thread'[v].pc = thread[v].pc /\ thread'[v].host = h /\ thread'[v].token = t
      /\ thread'[v].from = thread[v].from /\ thread'[v].secret = thread[v].secret
      /\ thread'[v].live => thread[v].live
  BY DEF Waits, TypeOK, Handlers
<1>3. ASSUME NEW state \in {"unused", "used"}, h \in Machines, t \in Tokens, Entitled(v, state)
      PROVE  Entitled(v, state)'
  BY <1>2, <1>3 DEF Entitled, Present, HasSecret, Quiet, hist
<1>4. \A g \in Machines : WithinLimit(g) => WithinLimit(g)'
  BY QuietFleet DEF WithinLimit, Present, Quiet
<1>5. thread[v].pc \in Locked => lock' = v
  BY <1>1 DEF Carries, Waits
<1>6. thread[v].pc \in Asking => t \in Tokens /\ tokens'[t].state # "none"
  BY <1>1 DEF Carries, Quiet
<1>7. thread[v].pc \in {"e_limit", "e_consume", "e_create"} => h \in Machines /\ t \in Tokens
  BY <1>1 DEF Carries, Asking, EnrollPCs, EnrollLocked
<1>8. thread[v].pc = "e_create" => tokens'[t].state = "used" /\ tokens'[t].bound = h
  BY <1>1, <1>7 DEF Carries, Quiet
<1> QED
  BY <1>1, <1>2, <1>3, <1>4, <1>5, <1>6, <1>7, <1>8 DEF Carries

(* What the machines have is kept as long as minted tokens are.             *)
LEMMA WaningEquipment ==
    ASSUME TypeOK, Rest, NEW m \in Machines, Wanes(m),
           \A t \in Tokens : tokens[t].state # "none" => tokens'[t].state # "none"
    PROVE  Equipped(m)'
<1>1. Equipped(m) /\ machine[m] \in MachineStates
  BY DEF Rest, Equipment, TypeOK
<1>2. machine'[m].token = machine[m].token
  BY <1>1 DEF Wanes, Cleared, MachineStates
<1>3. \/ machine'[m].secret = machine[m].secret /\ machine'[m].host = machine[m].host
      \/ machine'[m].mode # "up" /\ machine'[m].secret = NoSecret
  BY <1>1 DEF Wanes, Cleared, MachineStates
<1>4. machine'[m].mode = "up" => machine[m].mode = "up"
  BY <1>1 DEF Wanes, Cleared, MachineStates
<1>5. machine'[m].token # None => tokens'[machine'[m].token].state # "none"
  BY <1>1, <1>2 DEF Equipped, MachineStates, OrNone
<1>6. machine'[m].mode = "up" \/ machine'[m].secret # NoSecret => machine'[m].host \in Machines
  BY <1>1, <1>3, <1>4 DEF Equipped
<1> QED
  BY <1>5, <1>6 DEF Equipped

(* Putting it together: what is left to show of a quiet step is what it does *)
(* to the handler and the machine it is about.                              *)
LEMMA QuietStep ==
    ASSUME TypeOK, Rest, Quiet,
           \A w \in Workers : Waits(w) \/ Carries(w)',
           \A m \in Machines : Wanes(m) \/ Equipped(m)'
    PROVE  Rest'
<1>1. Handling'
  BY QuietWaits DEF Handling
<1>2. \A t \in Tokens : tokens[t].state # "none" => tokens'[t].state # "none"
  BY DEF Quiet
<1>3. Equipment'
  BY <1>2, WaningEquipment DEF Equipment
<1> QED
  BY <1>1, <1>3, QuietTables DEF Rest

-----------------------------------------------------------------------------
(* The machines.                                                            *)

(* Steps of a machine that touch no handler but to abandon it.              *)
LEMMA RestMachine ==
    ASSUME TypeOK, Rest, NEW m \in Machines,
           \/ \E t \in Tokens : InstallBundle(m, t)
           \/ StartAgent(m) \/ StopAgent(m) \/ GiveUp(m) \/ Heartbeat(m) \/ LoseState(m)
    PROVE  Rest'
<1>1. Quiet
  <2>1. CASE ~Heartbeat(m)
    BY <2>1 DEF InstallBundle, StartAgent, StopAgent, GiveUp, LoseState, Quiet, db, hist
  <2>2. CASE Heartbeat(m)
    BY <2>2 DEF Heartbeat, Quiet, TypeOK, AgentRows, hist
  <2> QED
    BY <2>1, <2>2
<1>2. \A v \in Workers : Waits(v)
  <2>1. CASE GiveUp(m)
    BY <2>1 DEF GiveUp, Abandon, Waits
  <2>2. CASE ~GiveUp(m)
    BY <2>2 DEF InstallBundle, StartAgent, StopAgent, Heartbeat, LoseState, Waits
  <2> QED
    BY <2>1, <2>2
<1>3. \A n \in Machines \ {m} : Wanes(n)
  BY DEF InstallBundle, StartAgent, StopAgent, GiveUp, Heartbeat, LoseState, Wanes, TypeOK
<1>4. Equipped(m) /\ machine[m] \in MachineStates
  BY DEF Rest, Equipment, TypeOK
<1>5. Equipped(m)'
  <2>1. ASSUME NEW t \in Tokens, InstallBundle(m, t) PROVE Equipped(m)'
    BY <1>4, <2>1 DEF InstallBundle, Equipped, TypeOK, MachineStates, db
  <2>2. CASE StartAgent(m)
    BY <1>4, <2>2 DEF StartAgent, Equipped, TypeOK, MachineStates, db
  <2>3. CASE StopAgent(m) \/ GiveUp(m) \/ Heartbeat(m) \/ LoseState(m)
    <3>1. Wanes(m)
      BY <2>3 DEF StopAgent, GiveUp, Heartbeat, LoseState, Wanes, TypeOK
    <3>2. \A t \in Tokens : tokens[t].state # "none" => tokens'[t].state # "none"
      BY <1>1 DEF Quiet
    <3> QED
      BY <3>1, <3>2, WaningEquipment
  <2> QED
    BY <2>1, <2>2, <2>3
<1> QED
  BY <1>1, <1>2, <1>3, <1>5, QuietStep

(* A machine's request starts a handler on an idle thread.                  *)
LEMMA RestRequest ==
    ASSUME TypeOK, Rest, NEW m \in Machines, NEW w \in Workers,
           Register(m, w) \/ Disenroll(m, w)
    PROVE  Rest'
<1>1. Quiet
  BY DEF Register, Disenroll, Quiet, db, hist
<1>2. \A v \in Workers \ {w} : Waits(v)
  BY DEF Register, Disenroll, Waits, TypeOK
<1>3. \A n \in Machines : Wanes(n)
  BY DEF Register, Disenroll, Wanes, TypeOK
<1>4. Equipped(m) /\ machine[m] \in MachineStates
  BY DEF Rest, Equipment, TypeOK
<1>5. Carries(w)'
  <2>1. CASE Register(m, w)
    <3>1. machine[m].token \in Tokens /\ tokens[machine[m].token].state # "none"
      BY <1>4, <2>1 DEF Register, Equipped, MachineStates, OrNone
    <3>2. (IF machine[m].host = None THEN m ELSE machine[m].host) \in Machines
      BY <1>4 DEF MachineStates, OrNone
    <3>3. thread'[w] = [pc |-> "e_paused", from |-> m,
                        host |-> IF machine[m].host = None THEN m ELSE machine[m].host,
                        token |-> machine[m].token, secret |-> machine[m].secret,
                        live |-> TRUE, purge |-> FALSE]
      BY <2>1 DEF Register, TypeOK
    <3>4. tokens' = tokens
      BY <2>1 DEF Register, db
    <3> QED
      BY <3>1, <3>2, <3>3, <3>4 DEF Carries, Locked, EnrollLocked, DeleteLocked
  <2>2. CASE Disenroll(m, w)
    <3>1. machine[m].host \in Machines
      BY <1>4, <2>2 DEF Disenroll, Equipped
    <3>2. /\ thread'[w].pc = "x_verify" /\ thread'[w].host = machine[m].host
          /\ ~thread'[w].live
      BY <2>2 DEF Disenroll, TypeOK, IdleHandler
    <3> QED
      BY <3>1, <3>2 DEF Carries, Locked, Asking, EnrollPCs, EnrollLocked, DeleteLocked
  <2> QED
    BY <2>1, <2>2
<1> QED
  BY <1>1, <1>2, <1>3, <1>5, QuietStep

-----------------------------------------------------------------------------
(* The enroll handler.                                                      *)

(* An idle thread has nothing to carry.                                     *)
LEMMA IdleCarries == \A w \in Workers : thread'[w] = IdleHandler => Carries(w)'
  BY DEF Carries, IdleHandler, Locked, Asking, EnrollPCs, EnrollLocked, DeleteLocked

(* When a thread moves on, the others wait, if it takes the lock from none. *)
LEMMA OthersWait ==
    ASSUME TypeOK, NEW w \in Workers, NEW x, thread' = [thread EXCEPT ![w] = x],
           lock' = lock \/ lock = None \/ lock = w
    PROVE  \A v \in Workers : v # w => Waits(v)
  BY EnrollmentAssumption DEF Waits, TypeOK

(* The handler that is refused leaves the locked section as it found it.    *)
LEMMA RestRefuse ==
    ASSUME TypeOK, Rest, NEW w \in Workers, Refuse(w), thread[w].pc \in Locked, Quiet
    PROVE  Rest'
<1>1. lock = w
  BY DEF Rest, Handling, Carries
<1>2. thread' = [thread EXCEPT ![w] = IdleHandler]
  BY DEF Refuse, Finish
<1>3. \A v \in Workers : Waits(v) \/ Carries(v)'
  BY <1>1, <1>2, OthersWait, IdleCarries DEF TypeOK
<1>4. \A m \in Machines : Wanes(m)
  BY DEF Refuse, Wanes, TypeOK
<1> QED
  BY <1>3, <1>4, QuietStep

(* The handler before, outside and after its locked section.                *)
LEMMA RestOutside ==
    ASSUME TypeOK, Rest, NEW w \in Workers,
           EnrollPaused(w) \/ EnrollLock(w) \/ EnrollAnswer(w)
    PROVE  Rest'
<1>1. Quiet
  BY DEF EnrollPaused, EnrollLock, EnrollAnswer, Quiet, db, hist
<1>2. Carries(w) /\ thread[w] \in Handlers
  BY DEF Rest, Handling, TypeOK
<1>3. CASE EnrollPaused(w)
  <2>1. CASE Finish(w)
    <3>1. \A v \in Workers : Waits(v) \/ Carries(v)'
      BY <1>3, <2>1, OthersWait, IdleCarries DEF EnrollPaused, Finish, TypeOK
    <3>2. \A m \in Machines : Wanes(m)
      BY <1>3 DEF EnrollPaused, Wanes, TypeOK
    <3> QED
      BY <1>1, <3>1, <3>2, QuietStep
  <2>2. CASE ~Finish(w)
    <3>1. thread' = [thread EXCEPT ![w] = [thread[w] EXCEPT !.pc = "e_lock"]]
      BY <1>3, <2>2 DEF EnrollPaused, Goto
    <3>2. thread'[w] = [thread[w] EXCEPT !.pc = "e_lock"] /\ tokens' = tokens
      BY <1>3, <3>1 DEF EnrollPaused, TypeOK, db
    <3>3. Carries(w)'
      BY <1>2, <1>3, <3>2 DEF EnrollPaused, Carries, Handlers, Locked, Asking, EnrollPCs,
         EnrollLocked, DeleteLocked
    <3>4. \A v \in Workers : Waits(v) \/ Carries(v)'
      BY <1>3, <3>1, <3>3, OthersWait DEF EnrollPaused
    <3>5. \A m \in Machines : Wanes(m)
      BY <1>3, <2>2 DEF EnrollPaused, Wanes
    <3> QED
      BY <1>1, <3>4, <3>5, QuietStep
  <2> QED
    BY <2>1, <2>2
<1>4. CASE EnrollLock(w)
  <2>1. thread' = [thread EXCEPT ![w] = [thread[w] EXCEPT !.pc = "e_validate"]]
    BY <1>4 DEF EnrollLock, Goto
  <2>2. /\ thread'[w] = [thread[w] EXCEPT !.pc = "e_validate"]
        /\ tokens' = tokens /\ lock' = w
    BY <1>4, <2>1 DEF EnrollLock, Acquire, TypeOK, db
  <2>3. Carries(w)'
    BY <1>2, <1>4, <2>2 DEF EnrollLock, Carries, Handlers, Locked, Asking, EnrollPCs,
       EnrollLocked, DeleteLocked
  <2>4. \A v \in Workers : Waits(v) \/ Carries(v)'
    BY <1>4, <2>1, <2>3, OthersWait DEF EnrollLock, Acquire
  <2>5. \A m \in Machines : Wanes(m)
    BY <1>4 DEF EnrollLock, Wanes
  <2> QED
    BY <1>1, <2>4, <2>5, QuietStep
<1>5. CASE EnrollAnswer(w)
  <2>1. \A v \in Workers : Waits(v) \/ Carries(v)'
    BY <1>5, OthersWait, IdleCarries DEF EnrollAnswer, Finish, TypeOK
  <2>2. \A m \in Machines : m # thread[w].from \/ ~thread[w].live => Wanes(m)
    BY <1>5 DEF EnrollAnswer, Wanes, TypeOK
  <2>3. ASSUME NEW m \in Machines, m = thread[w].from, thread[w].live PROVE Equipped(m)'
    <3>1. Equipped(m) /\ machine[m] \in MachineStates
      BY DEF Rest, Equipment, TypeOK
    <3>2. thread[w].host \in Machines
      BY <1>2, <1>5 DEF EnrollAnswer, Carries
    <3>3. machine'[m] = [machine[m] EXCEPT !.mode = "up", !.host = thread[w].host,
                                           !.secret = thread[w].secret]
      BY <1>5, <2>3 DEF EnrollAnswer, TypeOK
    <3> QED
      BY <1>5, <3>1, <3>2, <3>3 DEF EnrollAnswer, Equipped, MachineStates, db
  <2> QED
    BY <1>1, <2>1, <2>2, <2>3, QuietStep
<1> QED
  BY <1>3, <1>4, <1>5

(* The handler in its locked section, up to the writes: each check is what  *)
(* the next step relies on.                                                 *)
LEMMA RestChecks ==
    ASSUME TypeOK, Rest, NEW w \in Workers,
           EnrollValidate(w) \/ EnrollCheck(w) \/ EnrollLimit(w) \/ EnrollCreateFails(w)
    PROVE  Rest'
<1> DEFINE h == thread[w].host
           t == thread[w].token
<1>1. Quiet
  BY DEF EnrollValidate, EnrollCheck, EnrollLimit, EnrollCreateFails, Quiet, db, hist
<1>2. /\ thread[w].pc \in {"e_validate", "e_check", "e_limit", "e_create"}
      /\ thread[w].pc \in Locked /\ thread[w].pc \in Asking
  BY DEF EnrollValidate, EnrollCheck, EnrollLimit, EnrollCreateFails, Locked, Asking, EnrollPCs,
     EnrollLocked
<1>3. CASE Refuse(w)
  BY <1>1, <1>2, <1>3, RestRefuse
<1>4. CASE ~Refuse(w)
  <2>1. thread[w] \in Handlers /\ tokens[t] \in TokenRows /\ Lived(t)
    BY <1>2 DEF Rest, Handling, TokenLives, Carries, TypeOK
  <2>2. /\ thread[w].live => thread[w].from \in Machines
        /\ h \in Machines /\ thread[w].from \in Machines
        /\ t \in Tokens /\ tokens[t].state # "none" /\ lock = w
    BY <1>2 DEF Rest, Handling, Carries, Asking
  <2>3. /\ lock' = lock /\ machine' = machine /\ rows' = rows /\ tokens' = tokens
        /\ rebinds' = rebinds
    BY <1>4 DEF EnrollValidate, EnrollCheck, EnrollLimit, EnrollCreateFails, db, hist
  <2>4. CASE EnrollValidate(w)
    <3>1. thread' = [thread EXCEPT ![w] = [thread[w] EXCEPT !.pc = "e_check",
                                                            !.host = Resolved(t, h)]]
      BY <1>4, <2>4 DEF EnrollValidate
    <3>2. thread'[w] = [thread[w] EXCEPT !.pc = "e_check", !.host = Resolved(t, h)]
      BY <3>1 DEF TypeOK
    <3>3. Resolved(t, h) \in Machines
      BY <2>1, <2>2 DEF Resolved, TokenRows, OrNone
    <3>4. Carries(w)'
      BY <2>1, <2>2, <2>3, <3>2, <3>3 DEF Carries, Handlers
    <3>5. \A v \in Workers : Waits(v) \/ Carries(v)'
      BY <2>3, <3>1, <3>4, OthersWait
    <3> QED
      BY <1>1, <2>3, <3>5, QuietStep DEF Wanes
  <2>5. CASE EnrollCheck(w)
    <3>1. PICK g \in Targets(thread[w].from, h) :
             /\ Present(g) => ~rows[g].revoked /\ Proven(w, g)
             /\ thread' = [thread EXCEPT ![w] = [thread[w] EXCEPT !.pc = "e_limit", !.host = g]]
      BY <1>4, <2>5 DEF EnrollCheck
    <3>2. g \in Machines
      BY <2>2 DEF Targets, Supersedable, Fleet
    <3>3. thread'[w] = [thread[w] EXCEPT !.pc = "e_limit", !.host = g]
      BY <3>1 DEF TypeOK
    <3>4. Entitled(w, "unused")'
      <4>1. thread'[w].host = g /\ thread'[w].token = t /\ thread'[w].secret = thread[w].secret
        BY <2>1, <3>3 DEF Handlers
      <4>2. tokens[t].state = "unused" => rebinds[t] = 0
        BY <2>1 DEF Lived
      <4>3. Present(g) => \/ HasSecret(g, thread[w].secret)
                          \/ /\ tokens[t].reissue /\ rebinds[t] = 0
                             /\ tokens[t].state = "unused" /\ tokens[t].bound = g
        BY <3>1, <4>2 DEF Proven, Authorizes
      <4> QED
        BY <2>3, <4>1, <4>3 DEF Entitled, Present, HasSecret
    <3>5. Carries(w)'
      BY <2>1, <2>2, <2>3, <3>2, <3>3, <3>4 DEF Carries, Handlers
    <3>6. \A v \in Workers : Waits(v) \/ Carries(v)'
      BY <2>3, <3>1, <3>5, OthersWait
    <3> QED
      BY <1>1, <2>3, <3>6, QuietStep DEF Wanes
  <2>6. CASE EnrollLimit(w)
    <3>1. thread' = [thread EXCEPT ![w] = [thread[w] EXCEPT !.pc = "e_consume"]]
      BY <1>4, <2>6 DEF EnrollLimit, Goto
    <3>2. thread'[w] = [thread[w] EXCEPT !.pc = "e_consume"]
      BY <3>1 DEF TypeOK
    <3>3. WithinLimit(h) /\ Entitled(w, "unused")
      BY <1>4, <2>6 DEF EnrollLimit, Rest, Handling, Carries
    <3>4. Fleet' = Fleet
      BY <1>1, QuietFleet
    <3>5. thread'[w].host = h /\ thread'[w].token = t /\ thread'[w].secret = thread[w].secret
      BY <2>1, <3>2 DEF Handlers
    <3>6. Entitled(w, "unused")'
      BY <2>3, <3>3, <3>5 DEF Entitled, Present, HasSecret
    <3>7. WithinLimit(thread[w].host)'
      BY <2>3, <3>3, <3>4, <3>5 DEF WithinLimit, Present
    <3>8. Carries(w)'
      BY <2>1, <2>2, <2>3, <3>2, <3>6, <3>7 DEF Carries, Handlers
    <3>9. \A v \in Workers : Waits(v) \/ Carries(v)'
      BY <2>3, <3>1, <3>8, OthersWait
    <3> QED
      BY <1>1, <2>3, <3>9, QuietStep DEF Wanes
  <2>7. CASE EnrollCreateFails(w)
    BY <1>4, <2>7 DEF EnrollCreateFails
  <2> QED
    BY <2>4, <2>5, <2>6, <2>7
<1> QED
  BY <1>3, <1>4

-----------------------------------------------------------------------------
(* The administrator's operations, time and restarts.                       *)

(* A thread whose handler has not taken the lock yet, or ends.              *)
LEMMA RestAdmin ==
    ASSUME TypeOK, Rest, NEW w \in Workers,
           \/ DisenrollVerify(w) \/ DeleteLock(w)
           \/ \E t \in Tokens : ReissueMint(w, t)
           \/ \E h \in Machines : Reissue(w, h) \/ \E purge \in BOOLEAN : Remove(w, h, purge)
    PROVE  Rest'
<1>1. Carries(w) /\ thread[w] \in Handlers
  BY DEF Rest, Handling, TypeOK
<1>2. machine' = machine
  BY DEF DisenrollVerify, DeleteLock, ReissueMint, Reissue, Remove
<1>3. CASE Finish(w) /\ lock' = lock /\ Quiet
  <2>1. \A v \in Workers : Waits(v) \/ Carries(v)'
    BY <1>3, OthersWait, IdleCarries DEF Finish, TypeOK
  <2> QED
    BY <1>2, <1>3, <2>1, QuietStep DEF Wanes
<1>4. ASSUME NEW t \in Tokens, ReissueMint(w, t) PROVE Rest'
  <2>1. Quiet
    BY <1>4 DEF ReissueMint, Quiet, TypeOK, TokenRows, hist
  <2> QED
    BY <1>3, <1>4, <2>1 DEF ReissueMint
<1>5. ASSUME NEW x, NEW h \in Machines, thread' = [thread EXCEPT ![w] = x],
             ~x.live, x.host = h, x.pc \in {"i_mint", "d_lock"}, lock' = lock, Quiet
      PROVE  Rest'
  <2>1. thread'[w] = x
    BY <1>5 DEF TypeOK
  <2>2. Carries(w)'
    BY <1>5, <2>1 DEF Carries, Locked, Asking, EnrollPCs, EnrollLocked, DeleteLocked
  <2>3. \A v \in Workers : Waits(v) \/ Carries(v)'
    BY <1>5, <2>2, OthersWait
  <2> QED
    BY <1>2, <1>5, <2>3, QuietStep DEF Wanes
<1>6. ASSUME NEW h \in Machines, Reissue(w, h) PROVE Rest'
  <2> DEFINE x == [IdleHandler EXCEPT !.pc = "i_mint", !.host = h]
  <2>1. ~x.live /\ x.host = h /\ x.pc = "i_mint"
    BY DEF IdleHandler
  <2>2. Quiet /\ thread' = [thread EXCEPT ![w] = x] /\ lock' = lock
    BY <1>6 DEF Reissue, Quiet, db, hist
  <2> HIDE DEF x
  <2> QED
    BY <1>5, <2>1, <2>2
<1>7. ASSUME NEW h \in Machines, NEW purge \in BOOLEAN, Remove(w, h, purge) PROVE Rest'
  <2> DEFINE x == [IdleHandler EXCEPT !.pc = "d_lock", !.host = h, !.purge = purge]
  <2>1. ~x.live /\ x.host = h /\ x.pc = "d_lock"
    BY DEF IdleHandler
  <2>2. Quiet /\ thread' = [thread EXCEPT ![w] = x] /\ lock' = lock
    BY <1>7 DEF Remove, Quiet, db, hist
  <2> HIDE DEF x
  <2> QED
    BY <1>5, <2>1, <2>2
<1>8. CASE DisenrollVerify(w)
  <2>1. Quiet /\ lock' = lock
    BY <1>8 DEF DisenrollVerify, Quiet, db, hist
  <2>2. CASE ~Finish(w)
    <3>1. thread' = [thread EXCEPT ![w] = [thread[w] EXCEPT !.pc = "d_lock"]]
      BY <1>8, <2>2 DEF DisenrollVerify, Goto
    <3>2. thread'[w] = [thread[w] EXCEPT !.pc = "d_lock"]
      BY <3>1 DEF TypeOK
    <3>3. Carries(w)'
      BY <1>1, <1>8, <3>2 DEF DisenrollVerify, Carries, Handlers, Locked, Asking, EnrollPCs,
         EnrollLocked, DeleteLocked
    <3>4. \A v \in Workers : Waits(v) \/ Carries(v)'
      BY <2>1, <3>1, <3>3, OthersWait
    <3> QED
      BY <1>2, <2>1, <3>4, QuietStep DEF Wanes
  <2> QED
    BY <1>3, <2>1, <2>2
<1>9. CASE DeleteLock(w)
  <2>1. Quiet /\ lock = None /\ lock' = w
    BY <1>9 DEF DeleteLock, Acquire, Quiet, db, hist
  <2>2. thread' = [thread EXCEPT ![w] = [thread[w] EXCEPT !.pc = "d_delete"]]
    BY <1>9 DEF DeleteLock, Goto
  <2>3. thread'[w] = [thread[w] EXCEPT !.pc = "d_delete"]
    BY <2>2 DEF TypeOK
  <2>4. Carries(w)'
    BY <1>1, <1>9, <2>1, <2>3 DEF DeleteLock, Carries, Handlers, Locked, Asking, EnrollPCs,
       EnrollLocked, DeleteLocked
  <2>5. \A v \in Workers : Waits(v) \/ Carries(v)'
    BY <2>1, <2>2, <2>4, OthersWait
  <2> QED
    BY <1>2, <2>1, <2>5, QuietStep DEF Wanes
<1> QED
  BY <1>4, <1>6, <1>7, <1>8, <1>9

(* Steps no handler makes, and a restart, which ends them all.              *)
LEMMA RestOther ==
    ASSUME TypeOK, Rest,
           \/ \E t \in Tokens : Mint(t) \/ Expire(t) \/ CloseWindow(t)
           \/ \E h \in Machines : Revoke(h) \/ Restore(h) \/ GoStale(h)
           \/ \E b \in BOOLEAN : SetPaused(b)
           \/ BackendRestart
    PROVE  Rest'
<1>1. Quiet
  <2>1. ASSUME NEW t \in Tokens, Mint(t) \/ Expire(t) \/ CloseWindow(t) PROVE Quiet
    <3>1. \A o \in Tokens : o # t => tokens'[o] = tokens[o]
      BY <2>1 DEF Mint, Expire, CloseWindow, TypeOK
    <3>2. tokens[t] \in TokenRows
      BY DEF TypeOK
    <3>3. CASE Mint(t)
      <4>1. tokens[t].state = "none" /\ tokens'[t].state = "unused"
        BY <3>2, <3>3 DEF Mint, TypeOK, TokenRows
      <4> QED
        BY <3>1, <3>3, <4>1 DEF Mint, Quiet, hist
    <3>4. CASE ~Mint(t)
      <4>1. /\ tokens'[t].state = tokens[t].state /\ tokens'[t].bound = tokens[t].bound
            /\ tokens'[t].reissue = tokens[t].reissue
        <5>1. CASE Expire(t)
          <6>1. tokens'[t] = [tokens[t] EXCEPT !.expired = TRUE, !.window = FALSE]
            BY <5>1 DEF Expire, TypeOK
          <6> QED
            BY <3>2, <6>1 DEF TokenRows
        <5>2. CASE CloseWindow(t)
          <6>1. tokens'[t] = [tokens[t] EXCEPT !.window = FALSE]
            BY <5>2 DEF CloseWindow, TypeOK
          <6> QED
            BY <3>2, <6>1 DEF TokenRows
        <5> QED
          BY <2>1, <3>4, <5>1, <5>2
      <4> QED
        BY <2>1, <3>1, <3>4, <4>1 DEF Expire, CloseWindow, Quiet, hist
    <3> QED
      BY <3>3, <3>4
  <2>2. ASSUME NEW h \in Machines, Revoke(h) \/ Restore(h) \/ GoStale(h) PROVE Quiet
    BY <2>2 DEF Revoke, Restore, GoStale, Quiet, TypeOK, AgentRows, hist
  <2>3. CASE (\E b \in BOOLEAN : SetPaused(b)) \/ BackendRestart
    BY <2>3 DEF SetPaused, BackendRestart, Quiet, db, hist
  <2> QED
    BY <2>1, <2>2, <2>3
<1>2. \A w \in Workers : Waits(w) \/ Carries(w)'
  <2>1. CASE BackendRestart
    BY <2>1, IdleCarries DEF BackendRestart
  <2>2. CASE ~BackendRestart
    BY <2>2 DEF Mint, Expire, CloseWindow, Revoke, Restore, GoStale, SetPaused, Waits
  <2> QED
    BY <2>1, <2>2
<1>3. \A m \in Machines : Wanes(m)
  BY DEF Mint, Expire, CloseWindow, Revoke, Restore, GoStale, SetPaused, BackendRestart, Wanes
<1> QED
  BY <1>1, <1>2, <1>3, QuietStep

-----------------------------------------------------------------------------
(* The writes of the locked section.                                        *)

(* Whoever is not in the locked section does not notice them.               *)
LEMMA Unaware ==
    ASSUME TypeOK, Rest, NEW w \in Workers, lock = w,
           \A v \in Workers : v # w => thread'[v] = thread[v],
           \A t \in Tokens : tokens[t].state # "none" => tokens'[t].state # "none"
    PROVE  \A v \in Workers : v # w => Carries(v)'
<1> SUFFICES ASSUME NEW v \in Workers, v # w PROVE Carries(v)'
  OBVIOUS
<1>1. Carries(v)
  BY DEF Rest, Handling
<1>2. thread[v].pc \notin Locked
  BY <1>1 DEF Carries
<1>3. thread[v].pc \notin {"e_limit", "e_consume", "e_create"}
  BY <1>2 DEF Locked, EnrollLocked
<1> QED
  BY <1>1, <1>2, <1>3 DEF Carries

(* consume_enroll_token.                                                    *)
LEMMA RestConsume == ASSUME TypeOK, Rest, NEW w \in Workers, EnrollConsume(w) PROVE Rest'
<1> DEFINE h == thread[w].host
           t == thread[w].token
<1>1. /\ Carries(w) /\ thread[w] \in Handlers
      /\ thread[w].pc = "e_consume" /\ thread[w].pc \in Locked /\ thread[w].pc \in Asking
      /\ thread[w].pc \in EnrollPCs
  BY DEF EnrollConsume, Rest, Handling, TypeOK, Locked, Asking, EnrollPCs, EnrollLocked
<1>2. CASE ~Claimable(t, h)
  BY <1>1, <1>2, RestRefuse DEF EnrollConsume, Quiet, hist
<1>3. CASE Claimable(t, h)
  <2>1. /\ h \in Machines /\ t \in Tokens /\ lock = w /\ Entitled(w, "unused")
        /\ WithinLimit(h) /\ thread[w].from \in Machines
    BY <1>1 DEF Carries
  <2>2. /\ tokens[t].state \in {"unused", "used"}
        /\ tokens[t].state = "used" => tokens[t].bound = h
    BY <1>3 DEF Claimable
  <2>3. /\ lock' = lock /\ machine' = machine /\ rows' = rows /\ enrolled' = enrolled
        /\ rebinds' = rebinds /\ banned' = banned
    BY <1>3 DEF EnrollConsume, hist
  <2>4. /\ \A o \in Tokens : o # t => tokens'[o] = tokens[o]
        /\ tokens'[t] = [tokens[t] EXCEPT !.state = "used", !.bound = h,
                                          !.window = ~tokens[t].expired]
    BY <1>3, <2>1 DEF EnrollConsume, TypeOK
  <2>5. tokens[t] \in TokenRows
    BY <2>1 DEF TypeOK
  <2>6. /\ tokens'[t].state = "used" /\ tokens'[t].bound = h
        /\ tokens'[t].reissue = tokens[t].reissue
    BY <2>4, <2>5 DEF TokenRows
  <2>7. \A o \in Tokens : tokens[o].state # "none" => tokens'[o].state # "none"
    BY <2>4, <2>6
  <2>8. thread' = [thread EXCEPT ![w] = [thread[w] EXCEPT !.pc = "e_create"]]
    BY <1>3 DEF EnrollConsume, Goto
  <2>9. Handling'
    <3>1. \A v \in Workers : v # w => thread'[v] = thread[v]
      BY <2>8 DEF TypeOK
    <3>2. thread'[w] = [thread[w] EXCEPT !.pc = "e_create"]
      BY <2>8 DEF TypeOK
    <3>3. /\ thread'[w].pc = "e_create" /\ thread'[w].host = h /\ thread'[w].token = t
          /\ thread'[w].from = thread[w].from /\ thread'[w].secret = thread[w].secret
      BY <1>1, <3>2 DEF Handlers
    <3>4. WithinLimit(thread[w].host)'
      BY <2>1, <2>3, <3>3 DEF WithinLimit, Present, Fleet
    <3>5. Entitled(w, "used")'
      BY <2>1, <2>3, <2>6, <3>3 DEF Entitled, Present, HasSecret
    <3>6. Carries(w)'
      BY <2>1, <2>3, <2>6, <3>3, <3>4, <3>5 DEF Carries
    <3> QED
      BY <2>1, <2>7, <3>1, <3>6, Unaware DEF Handling
  <2>10. TokenLives'
    BY <2>3, <2>4, <2>6 DEF Rest, TokenLives, Lived
  <2>11. Equipment'
    BY <2>3, <2>7, WaningEquipment DEF Equipment, Wanes
  <2>12. Purged'
    BY <2>2, <2>3, <2>4 DEF Rest, Purged, TypeOK
  <2>13. SingleUse'
    <3>1. enrolled[t] \subseteq {h}
      BY <2>1, <2>2 DEF Rest, TokenLives, Lived, SingleUse
    <3> QED
      BY <2>3, <2>4, <2>6, <3>1 DEF Rest, SingleUse
  <2>14. TakeoverNeedsReissue'
    BY <2>3, <2>4, <2>6 DEF Rest, TakeoverNeedsReissue
  <2>15. HostCap'
    BY <2>3 DEF Rest, HostCap, Fleet, Present
  <2> QED
    BY <2>9, <2>10, <2>11, <2>12, <2>13, <2>14, <2>15 DEF Rest
<1> QED
  BY <1>2, <1>3

(* create_or_update_agent: one row more at most, and room for it.           *)
LEMMA RestCreate == ASSUME TypeOK, Rest, NEW w \in Workers, EnrollCreate(w) PROVE Rest'
<1> DEFINE h == thread[w].host
           t == thread[w].token
<1>1. /\ Carries(w) /\ thread[w] \in Handlers
      /\ thread[w].pc = "e_create" /\ thread[w].pc \in Locked /\ thread[w].pc \in Asking
      /\ thread[w].pc \in EnrollPCs
  BY DEF EnrollCreate, Rest, Handling, TypeOK, Locked, Asking, EnrollPCs, EnrollLocked
<1>2. /\ h \in Machines /\ t \in Tokens /\ lock = w /\ Entitled(w, "used")
      /\ WithinLimit(h) /\ thread[w].from \in Machines
      /\ tokens[t].state = "used" /\ tokens[t].bound = h
  BY <1>1 DEF Carries
<1>3. tokens' = tokens /\ machine' = machine /\ banned' = banned
  BY DEF EnrollCreate
<1>4. minted + 1 # NoSecret
  BY DEF TypeOK, NoSecret, Secrets
<1>5. /\ \A g \in Machines : g # h => rows'[g] = rows[g]
      /\ rows'[h].secret = minted + 1
  BY <1>2 DEF EnrollCreate, TypeOK
<1>6. Fleet' = Fleet \cup {h}
  BY <1>2, <1>4, <1>5 DEF Fleet, Present
<1>7. Handling'
  <2> DEFINE x == [thread[w] EXCEPT !.pc = "e_answer", !.token = None, !.secret = minted + 1]
  <2>1. thread'[w] = x /\ \A v \in Workers : v # w => thread'[v] = thread[v]
    BY DEF EnrollCreate, TypeOK
  <2>2. /\ thread'[w].pc = "e_answer" /\ thread'[w].host = h
        /\ thread'[w].from = thread[w].from
    BY <1>1, <2>1 DEF Handlers
  <2>3. Carries(w)'
    BY <1>2, <2>2 DEF Carries, Locked, Asking, EnrollLocked, DeleteLocked
  <2> QED
    BY <1>2, <1>3, <2>1, <2>3, Unaware DEF Handling
<1>8. /\ \A o \in Tokens : o # t => enrolled'[o] = enrolled[o] /\ rebinds'[o] = rebinds[o]
      /\ enrolled'[t] = enrolled[t] \cup {h}
      /\ rebinds'[t] = IF Present(h) /\ ~HasSecret(h, thread[w].secret)
                       THEN rebinds[t] + 1 ELSE rebinds[t]
  BY <1>2 DEF EnrollCreate, TypeOK
<1>9. TokenLives'
  BY <1>2, <1>3, <1>8 DEF Rest, TokenLives, Lived
<1>10. Equipment'
  BY <1>3, WaningEquipment DEF Equipment, Wanes
<1>11. Purged'
  BY <1>3 DEF Rest, Purged
<1>12. SingleUse'
  BY <1>2, <1>3, <1>8 DEF Rest, SingleUse
<1>13. TakeoverNeedsReissue'
  <2>1. rebinds'[t] <= IF tokens[t].reissue THEN 1 ELSE 0
    <3>1. CASE Present(h) /\ ~HasSecret(h, thread[w].secret)
      BY <1>2, <1>8, <3>1 DEF Entitled
    <3>2. CASE ~(Present(h) /\ ~HasSecret(h, thread[w].secret))
      BY <1>2, <1>8, <3>2 DEF Rest, TakeoverNeedsReissue
    <3> QED
      BY <3>1, <3>2
  <2> QED
    BY <1>3, <1>8, <2>1 DEF Rest, TakeoverNeedsReissue
<1>14. HostCap'
  <2>1. IsFiniteSet(Fleet)
    BY EnrollmentAssumption, FS_Subset DEF Fleet
  <2>2. Cardinality(Fleet) \in Nat
    BY <2>1, FS_CardinalityType
  <2>3. CASE Present(h)
    <3>1. Fleet' = Fleet
      BY <1>2, <1>6, <2>3 DEF Fleet
    <3> QED
      BY <3>1 DEF Rest, HostCap
  <2>4. CASE ~Present(h)
    <3>1. h \notin Fleet /\ Cardinality(Fleet) < HostLimit
      BY <1>2, <2>4 DEF WithinLimit, Fleet
    <3>2. Cardinality(Fleet \cup {h}) = Cardinality(Fleet) + 1
      BY <2>1, <3>1, FS_AddElement
    <3> QED
      BY <1>6, <2>2, <3>1, <3>2, EnrollmentAssumption DEF HostCap
  <2> QED
    BY <2>3, <2>4
<1> QED
  BY <1>7, <1>9, <1>10, <1>11, <1>12, <1>13, <1>14 DEF Rest

(* remove_agent and self_disenroll: a row goes.                             *)
LEMMA RestDelete == ASSUME TypeOK, Rest, NEW w \in Workers, DeleteRow(w) PROVE Rest'
<1> DEFINE h == thread[w].host
<1>1. /\ Carries(w) /\ thread[w] \in Handlers
      /\ thread[w].pc = "d_delete" /\ thread[w].pc \in Locked
  BY DEF DeleteRow, Rest, Handling, TypeOK, Locked, DeleteLocked
<1>2. h \in Machines /\ lock = w /\ (thread[w].live => thread[w].from \in Machines)
  BY <1>1 DEF Carries
<1>3. /\ tokens' = tokens /\ machine' = machine /\ banned' = banned
      /\ enrolled' = enrolled /\ rebinds' = rebinds
  BY DEF DeleteRow, hist
<1>4. Handling'
  <2>1. \A v \in Workers : v # w => thread'[v] = thread[v]
    BY DEF DeleteRow, Finish, Goto, TypeOK
  <2>2. CASE Finish(w)
    BY <1>2, <1>3, <2>1, <2>2, Unaware, IdleCarries DEF Finish, Handling, TypeOK
  <2>3. CASE ~Finish(w)
    <3>1. thread'[w] = [thread[w] EXCEPT !.pc = "d_purge"] /\ lock' = lock
      BY <2>3 DEF DeleteRow, Goto, TypeOK
    <3>2. Carries(w)'
      BY <1>1, <1>2, <3>1 DEF Carries, Handlers, Asking, EnrollPCs, EnrollLocked
    <3> QED
      BY <1>2, <1>3, <2>1, <3>2, Unaware DEF Handling
  <2> QED
    BY <2>2, <2>3
<1>5. TokenLives' /\ Purged' /\ SingleUse' /\ TakeoverNeedsReissue'
  BY <1>3 DEF Rest, TokenLives, Lived, Purged, SingleUse, TakeoverNeedsReissue
<1>6. Equipment'
  BY <1>3, WaningEquipment DEF Equipment, Wanes
<1>7. HostCap'
  <2>1. Fleet' \subseteq Fleet
    BY DEF DeleteRow, Fleet, Present, NoRow, TypeOK
  <2>2. IsFiniteSet(Fleet)
    BY EnrollmentAssumption, FS_Subset DEF Fleet
  <2>3. Cardinality(Fleet') \in Nat /\ Cardinality(Fleet) \in Nat
        /\ Cardinality(Fleet') <= Cardinality(Fleet)
    BY <2>1, <2>2, FS_Subset, FS_CardinalityType
  <2> QED
    BY <2>3, EnrollmentAssumption DEF Rest, HostCap
<1> QED
  BY <1>4, <1>5, <1>6, <1>7 DEF Rest

(* invalidate_enroll_tokens_for_host: every token of the host goes.         *)
LEMMA RestPurge == ASSUME TypeOK, Rest, NEW w \in Workers, DeletePurge(w) PROVE Rest'
<1> DEFINE h == thread[w].host
           mine == {t \in Tokens : tokens[t].bound = h /\ tokens[t].state # "deleted"}
<1>1. /\ Carries(w)
      /\ thread[w].pc = "d_purge" /\ thread[w].pc \in Locked
  BY DEF DeletePurge, Rest, Handling, Locked, DeleteLocked
<1>2. h \in Machines /\ lock = w
  BY <1>1 DEF Carries
<1>3. /\ rows' = rows /\ machine' = machine /\ enrolled' = enrolled /\ rebinds' = rebinds
      /\ thread' = [thread EXCEPT ![w] = IdleHandler]
  BY DEF DeletePurge, Finish
<1>4. \A t \in Tokens :
        /\ tokens'[t].bound = tokens[t].bound /\ tokens'[t].reissue = tokens[t].reissue
        /\ tokens'[t].state = IF t \in mine THEN "deleted" ELSE tokens[t].state
  BY DEF DeletePurge, TypeOK, TokenRows
<1>5. \A t \in Tokens : tokens[t].state # "none" => tokens'[t].state # "none"
  BY <1>4
<1>6. Handling'
  <2>1. thread'[w] = IdleHandler /\ \A v \in Workers : v # w => thread'[v] = thread[v]
    BY <1>3 DEF TypeOK
  <2> QED
    BY <1>2, <1>5, <2>1, Unaware, IdleCarries DEF Handling
<1>7. TokenLives' /\ SingleUse' /\ TakeoverNeedsReissue'
  BY <1>3, <1>4 DEF Rest, TokenLives, Lived, SingleUse, TakeoverNeedsReissue
<1>8. Equipment'
  BY <1>3, <1>5, WaningEquipment DEF Equipment, Wanes
<1>9. Purged'
  <2>1. banned' = [banned EXCEPT ![h] = @ \cup mine]
    BY DEF DeletePurge
  <2>2. \A g \in Machines : \A t \in banned'[g] : t \in banned[g] \/ t \in mine
    BY <2>1 DEF TypeOK
  <2>3. \A g \in Machines : \A t \in banned[g] : t \in Tokens /\ tokens[t].state = "deleted"
    BY DEF Rest, Purged, TypeOK
  <2> QED
    BY <1>4, <2>2, <2>3 DEF Purged
<1>10. HostCap'
  BY <1>3 DEF Rest, HostCap, Fleet, Present
<1> QED
  BY <1>6, <1>7, <1>8, <1>9, <1>10 DEF Rest

-----------------------------------------------------------------------------
(* The theorems.                                                            *)

LEMMA InvInit == Init => IInv
<1> SUFFICES ASSUME Init PROVE IInv
  OBVIOUS
<1>1. TypeOK
  <2>1. 0 \in Secrets /\ NoSecret \in Secrets
    BY EnrollmentAssumption DEF Secrets, NoSecret
  <2>2. tokens \in [Tokens -> TokenRows]
    BY DEF Init, TokenRows, OrNone
  <2>3. machine \in [Machines -> MachineStates]
    BY <2>1 DEF Init, MachineStates, OrNone
  <2>4. rows \in [Machines -> AgentRows] /\ thread \in [Workers -> Handlers]
    BY Blanks DEF Init
  <2> QED
    BY <2>1, <2>2, <2>3, <2>4 DEF Init, TypeOK, OrNone
<1>2. Handling
  BY DEF Init, Handling, Carries, IdleHandler, Locked, Asking, EnrollPCs, EnrollLocked,
     DeleteLocked
<1>3. TokenLives /\ Equipment /\ Purged /\ SingleUse
  BY DEF Init, TokenLives, Lived, Equipment, Equipped, Purged, SingleUse
<1>4. TakeoverNeedsReissue
  BY DEF Init, TakeoverNeedsReissue
<1>5. HostCap
  <2>1. Fleet = {}
    BY DEF Init, Fleet, Present, NoRow
  <2> QED
    BY <2>1, FS_EmptySet, EnrollmentAssumption DEF HostCap
<1> QED
  BY <1>1, <1>2, <1>3, <1>4, <1>5 DEF IInv, Rest

LEMMA InvStep == IInv /\ [Next]_vars => IInv'
<1> SUFFICES ASSUME TypeOK, Rest, [Next]_vars PROVE Rest'
  BY TypeStep DEF IInv, Rest
<1>1. CASE UNCHANGED vars
  <2>1. /\ Quiet
        /\ \A w \in Workers : Waits(w)
        /\ \A m \in Machines : Wanes(m)
    BY <1>1 DEF vars, db, hist, Quiet, Waits, Wanes
  <2> QED
    BY <2>1, QuietStep
<1> QED
  BY <1>1, RestMachine, RestRequest, RestOutside, RestChecks, RestConsume, RestCreate, RestDelete,
     RestPurge, RestAdmin, RestOther DEF Next, EnrollStep, DeleteStep

THEOREM Invariance == Spec => []IInv
  BY InvInit, InvStep, PTL DEF Spec

(* What every variable holds, in every reachable state.                     *)
THEOREM TypeCorrect == Spec => []TypeOK
  BY Invariance, PTL DEF IInv

(* "A token is single-use FOREVER as far as a different host is concerned": *)
(* the rows a token has ever written are the row of one host_id.            *)
THEOREM OneHostPerToken == Spec => []SingleUse
<1>1. IInv => SingleUse
  BY DEF IInv, Rest
<1> QED
  BY <1>1, Invariance, PTL

(* enforce_host_limit in the locked section: the cap cannot be raced past.  *)
THEOREM CapHolds == Spec => []HostCap
<1>1. IInv => HostCap
  BY DEF IInv, Rest
<1> QED
  BY <1>1, Invariance, PTL

(* A bearer token alone never replaces the secret of an existing row.       *)
THEOREM NoTakeover == Spec => []TakeoverNeedsReissue
<1>1. IInv => TakeoverNeedsReissue
  BY DEF IInv, Rest
<1> QED
  BY <1>1, Invariance, PTL

(* A token a Force Delete has purged never writes the host's row again, not *)
(* even by a request that was under way when the delete began.              *)
THEOREM GoneForGood == Spec => ForceDeletedStaysGone
<1>1. IInv /\ [Next]_vars =>
         [\A w \in Workers : thread[w].pc = "e_create" /\ minted' > minted =>
            rows'[thread[w].host].secret # minted' \/ thread[w].token \notin banned[thread[w].host]]_vars
  <2> SUFFICES ASSUME IInv, NEW w \in Workers, thread[w].pc = "e_create"
               PROVE  thread[w].token \notin banned[thread[w].host]
    OBVIOUS
  <2>1. Carries(w)
    BY DEF IInv, Rest, Handling
  <2>2. tokens[thread[w].token].state = "used" /\ thread[w].host \in Machines
    BY <2>1 DEF Carries
  <2> QED
    BY <2>2 DEF IInv, Rest, Purged
<1> QED
  BY <1>1, Invariance, PTL DEF Spec, ForceDeletedStaysGone
=============================================================================
