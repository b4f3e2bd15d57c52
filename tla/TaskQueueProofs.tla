--------------------------- MODULE TaskQueueProofs ---------------------------
(***************************************************************************)
(* Theorems about TaskQueue, for every number of hosts, pool threads, tasks *)
(* and faults and for every choice of the timeouts: its types, what its     *)
(* steps keep, that it implements the life of a task (TaskLifecycle), and   *)
(* that it does once what a request asked for beside its command.           *)
(***************************************************************************)
EXTENDS TaskQueue, WellFoundedInduction, TLAPS

(* A non-empty set of row ids has a least one, which is what the agent's    *)
(* loop and AUTOINCREMENT pick.                                             *)
LEMMA LeastId ==
    ASSUME NEW S \in SUBSET TaskIds, S # {}
    PROVE  Least(S) \in S /\ \A u \in S : Least(S) <= u
<1>1. IsWellFoundedOn(OpToRel(<, Nat), Nat)
  BY NatLessThanWellFounded
<1>2. S \subseteq Nat
  BY BoundsAssumption DEF TaskIds
<1>3. PICK t \in S : \A u \in S : ~(<<u, t>> \in OpToRel(<, Nat))
  BY <1>1, <1>2, WFMin
<1>4. \A u \in S : ~(u < t)
  BY <1>2, <1>3 DEF OpToRel
<1>5. \E x \in S : \A u \in S : x <= u
  BY <1>2, <1>4
<1> QED
  BY <1>5, Zenon DEF Least

(* The placeholder host of an idle handler is a host.                       *)
LEMMA AnyHostIsHost == AnyHost \in Hosts
BY BoundsAssumption DEF AnyHost

(* AUTOINCREMENT hands out an id no row has had.                            *)
LEMMA NextIdIsUnused == Unused # {} => NextId \in Unused
<1>1. Unused \in SUBSET TaskIds
  BY DEF Unused
<1> QED
  BY <1>1, LeastId DEF NextId

(* What the agent loop works on next is one of its batch.                   *)
LEMMA CurrentInBatch ==
    ASSUME TypeOK, NEW h \in Hosts, agent[h].batch # {}
    PROVE  Current(h) \in agent[h].batch
<1>1. agent[h].batch \in SUBSET TaskIds
  BY DEF TypeOK, Agents
<1> QED
  BY <1>1, LeastId DEF Current

(* The initial state is well typed.                                         *)
LEMMA TypeInit == Init => TypeOK
<1> SUFFICES ASSUME Init PROVE TypeOK
  OBVIOUS
<1> USE BoundsAssumption, AnyHostIsHost
<1>1. thread \in [Workers -> Handlers]
  BY DEF Init, IdleHandler, Handlers, Wants, Items
<1>2. agent \in [Hosts -> Agents]
  BY DEF Init, AgentIn, Agents
<1>3. results \in [TaskIds -> Seq({"real", "synthetic"})]
  BY DEF Init
<1>4. ram \in [Items -> [TaskIds -> NotHeld..BecomeTTL+1]]
  BY DEF Init, NotHeld
<1> QED
  BY <1>1, <1>2, <1>3, <1>4 DEF Init, TypeOK

(* An idle pool thread is a well-typed handler record.                      *)
LEMMA IdleHandlerType == IdleHandler \in Handlers
BY AnyHostIsHost DEF IdleHandler, Handlers

(* AgentIn builds well-typed agent records.                                 *)
LEMMA AgentInType ==
    ASSUME NEW batch \in SUBSET TaskIds,
           NEW mode \in {"down", "idle", "polling", "ready", "running", "sending"}
    PROVE  AgentIn(mode, batch) \in Agents
BY BoundsAssumption DEF AgentIn, Agents

(* After a result the agent loop is in a well-typed state.                  *)
LEMMA AdvancedType ==
    ASSUME TypeOK, NEW h \in Hosts
    PROVE  Advanced(h) \in Agents
BY AgentInType DEF Advanced, TypeOK, Agents

(* An agent that was told its host is unknown is well typed.                *)
LEMMA ExitedType == Exited \in Agents
BY AgentInType DEF Exited

PCs == {"idle"} \cup QueuePCs \cup PollPCs \cup ResultPCs

(* Changing one field of a handler's record leaves it a handler's record.   *)
LEMMA HandlerFields ==
    ASSUME NEW r \in Handlers
    PROVE  /\ \A pc \in PCs : [r EXCEPT !.pc = pc] \in Handlers
           /\ \A pc \in PCs, S \in SUBSET TaskIds :
                 [r EXCEPT !.pc = pc, !.tasks = S] \in Handlers
           /\ [r EXCEPT !.live = FALSE] \in Handlers
BY DEF Handlers, PCs

(* A handler that goes to its next step keeps its type.                     *)
LEMMA GotoType ==
    ASSUME TypeOK, NEW w \in Workers, NEW pc \in PCs, Goto(w, pc)
    PROVE  thread' \in [Workers -> Handlers]
<1>1. thread[w] \in Handlers
  BY DEF TypeOK
<1>2. thread' = [thread EXCEPT ![w] = [thread[w] EXCEPT !.pc = pc]]
  BY DEF Goto
<1> QED
  BY <1>1, <1>2, HandlerFields DEF TypeOK

(* The same when the step also fixes the tasks it works on.                 *)
LEMMA GotoWithType ==
    ASSUME TypeOK, NEW w \in Workers, NEW pc \in PCs, NEW S \in SUBSET TaskIds,
           GotoWith(w, pc, S)
    PROVE  thread' \in [Workers -> Handlers]
<1>1. thread[w] \in Handlers
  BY DEF TypeOK
<1>2. thread' = [thread EXCEPT ![w] = [thread[w] EXCEPT !.pc = pc, !.tasks = S]]
  BY DEF GotoWith
<1> QED
  BY <1>1, <1>2, HandlerFields DEF TypeOK

(* A handler that ends keeps the pool well typed.                           *)
LEMMA FinishType ==
    ASSUME TypeOK, NEW w \in Workers, Finish(w)
    PROVE  thread' \in [Workers -> Handlers]
BY IdleHandlerType DEF Finish, TypeOK

(* A caller that stops waiting keeps the pool well typed.                   *)
LEMMA AbandonType ==
    ASSUME TypeOK, NEW h
    PROVE  Abandon(h) \in [Workers -> Handlers]
<1> SUFFICES ASSUME NEW w \in Workers PROVE Abandon(h)[w] \in Handlers
  BY DEF Abandon
<1>1. thread[w] \in Handlers
  BY DEF TypeOK
<1> QED
  BY <1>1, HandlerFields DEF Abandon

(* The steps of queue_agent_task preserve the types.                        *)
LEMMA TypeQueue ==
    ASSUME TypeOK, NEW w \in Workers,
           \/ \E h \in Hosts, r \in Requests : QueueRequest(w, h, r)
           \/ QueueStep(w)
    PROVE  TypeOK'
<1> USE IdleHandlerType, BoundsAssumption
<1>1. ASSUME NEW h \in Hosts, NEW r \in Requests, QueueRequest(w, h, r)
      PROVE  TypeOK'
  <2>1. thread' \in [Workers -> Handlers]
    BY <1>1 DEF QueueRequest, Begin, TypeOK, Handlers, QueuePCs
  <2> QED
    BY <1>1, <2>1 DEF QueueRequest, TypeOK, trust, db, hist
<1>2. CASE QueueExists(w)
  <2>1. thread' \in [Workers -> Handlers]
    BY <1>2, GotoType, FinishType DEF QueueExists, PCs, QueuePCs
  <2> QED
    BY <1>2, <2>1 DEF QueueExists, TypeOK, trust, db, hist
<1>3. CASE QueueInsert(w)
  <2>1. NextId \in TaskIds
    BY <1>3, NextIdIsUnused DEF QueueInsert, Unused
  <2>2. thread' \in [Workers -> Handlers]
    BY <1>3, <2>1, GotoWithType DEF QueueInsert, PCs, QueuePCs
  <2>3. owner' \in [TaskIds -> Hosts] /\ req' \in [TaskIds -> SUBSET Wants]
    BY <1>3, <2>1 DEF QueueInsert, TypeOK, Handlers
  <2> QED
    BY <1>3, <2>1, <2>2, <2>3 DEF QueueInsert, TypeOK, trust, hist
<1>4. ASSUME NEW item \in Items, Store(w, item) PROVE ram' \in [Items -> [TaskIds -> NotHeld..BecomeTTL+1]]
  BY SMTT(30), <1>4 DEF Store, Sweep, TypeOK, NotHeld
<1>5. CASE QueueStoreBecome(w)
  <2>1. thread' \in [Workers -> Handlers]
    BY <1>5, GotoType DEF QueueStoreBecome, PCs, QueuePCs
  <2> QED
    BY <1>4, <1>5, <2>1 DEF QueueStoreBecome, TypeOK, trust, db, hist, Items
<1>6. CASE QueueStoreRoot(w)
  <2>1. thread' \in [Workers -> Handlers]
    BY <1>6, GotoType DEF QueueStoreRoot, PCs, QueuePCs
  <2> QED
    BY <1>4, <1>6, <2>1 DEF QueueStoreRoot, TypeOK, trust, db, hist, Items
<1>7. CASE QueueLog(w)
  <2>1. thread' \in [Workers -> Handlers] /\ refused' \in SUBSET TaskIds
    BY <1>7, FinishType DEF QueueLog, TypeOK, Handlers
  <2> QED
    BY <1>7, <2>1 DEF QueueLog, TypeOK, trust, db
<1> QED
  BY <1>1, <1>2, <1>3, <1>5, <1>6, <1>7 DEF QueueStep

(* An answer, taken or not, leaves the agents well typed.                   *)
LEMMA AnswerType ==
    ASSUME TypeOK, NEW w \in Workers, NEW a \in Agents, Answer(w, a)
    PROVE  agent' \in [Hosts -> Agents]
BY DEF Answer, TypeOK

(* The steps of poll_agent_tasks preserve the types.                        *)
LEMMA TypePoll ==
    ASSUME TypeOK, NEW w \in Workers, PollStep(w)
    PROVE  TypeOK'
<1> USE IdleHandlerType, BoundsAssumption
<1>0. thread[w].host \in Hosts /\ thread[w].tasks \in SUBSET TaskIds
  BY DEF TypeOK, Handlers
<1>1. CASE PollVerify(w)
  <2>1. thread' \in [Workers -> Handlers]
    BY <1>1, GotoType, FinishType DEF PollVerify, PCs, PollPCs
  <2>2. agent' \in [Hosts -> Agents]
    BY <1>1, AnswerType, ExitedType, AgentInType DEF PollVerify, TypeOK
  <2> QED
    BY <1>1, <2>1, <2>2 DEF PollVerify, TypeOK, trust, db, hist
<1>2. CASE PollQuarantine(w)
  <2>1. thread' \in [Workers -> Handlers]
    BY <1>2, GotoType, FinishType DEF PollQuarantine, PCs, PollPCs
  <2>2. agent' \in [Hosts -> Agents]
    BY <1>2, AnswerType, AgentInType DEF PollQuarantine, TypeOK
  <2> QED
    BY <1>2, <2>1, <2>2 DEF PollQuarantine, TypeOK, trust, db, hist
<1>3. CASE PollClaim(w)
  <2>1. thread' \in [Workers -> Handlers]
    BY <1>3, GotoWithType DEF PollClaim, Claimable, PCs, PollPCs
  <2> QED
    BY <1>3, <2>1 DEF PollClaim, TypeOK, trust, hist
<1>4. ASSUME NEW item \in Items, Take(w, item)
      PROVE  /\ ram' \in [Items -> [TaskIds -> NotHeld..BecomeTTL+1]]
             /\ attached' \in [TaskIds -> SUBSET Items]
  BY <1>4 DEF Take, TypeOK, NotHeld
<1>5. CASE PollTakeBecome(w)
  <2>1. thread' \in [Workers -> Handlers]
    BY <1>5, GotoType DEF PollTakeBecome, PCs, PollPCs
  <2> QED
    BY <1>4, <1>5, <2>1 DEF PollTakeBecome, TypeOK, trust, db, Items
<1>6. CASE PollTakeRoot(w)
  <2>1. thread' \in [Workers -> Handlers]
    BY <1>6, FinishType DEF PollTakeRoot
  <2>2. agent' \in [Hosts -> Agents]
    BY <1>0, <1>6, AnswerType, AgentInType DEF PollTakeRoot, TypeOK
  <2> QED
    BY <1>4, <1>6, <2>1, <2>2 DEF PollTakeRoot, TypeOK, trust, db, Items
<1> QED
  BY <1>1, <1>2, <1>3, <1>5, <1>6 DEF PollStep

(* One more agent_results row is still a sequence of results.               *)
LEMMA AppendType ==
    ASSUME TypeOK, NEW t \in TaskIds, NEW x \in {"real", "synthetic"}
    PROVE  Append(results[t], x) \in Seq({"real", "synthetic"})
<1>1. results[t] \in Seq({"real", "synthetic"})
  BY DEF TypeOK
<1> QED
  BY <1>1

(* The steps of post_task_result preserve the types.                        *)
LEMMA TypeResult ==
    ASSUME TypeOK, NEW w \in Workers, ResultStep(w)
    PROVE  TypeOK'
<1>0. thread[w].host \in Hosts /\ thread[w].tasks \in SUBSET TaskIds
  BY DEF TypeOK, Handlers
<1>a. Advanced(thread[w].host) \in Agents
  BY <1>0, AdvancedType
<1>1. CASE ResultVerify(w)
  <2>1. thread' \in [Workers -> Handlers]
    BY <1>1, GotoType, FinishType DEF ResultVerify, PCs, ResultPCs
  <2>2. agent' \in [Hosts -> Agents]
    BY <1>1, <1>a, AnswerType, ExitedType DEF ResultVerify, TypeOK
  <2> QED
    BY <1>1, <2>1, <2>2 DEF ResultVerify, TypeOK, trust, db, hist
<1>2. CASE ResultOwner(w)
  <2>1. thread' \in [Workers -> Handlers]
    BY <1>2, GotoType, FinishType DEF ResultOwner, PCs, ResultPCs
  <2>2. agent' \in [Hosts -> Agents]
    BY <1>2, <1>a, AnswerType DEF ResultOwner, TypeOK
  <2> QED
    BY <1>2, <2>1, <2>2 DEF ResultOwner, TypeOK, trust, db, hist
<1>3. CASE ResultSubmit(w)
  <2>1. thread' \in [Workers -> Handlers]
    BY <1>3, GotoType, FinishType DEF ResultSubmit, PCs, ResultPCs
  <2>2. agent' \in [Hosts -> Agents]
    BY <1>3, <1>a, AnswerType DEF ResultSubmit, TypeOK
  <2>3. results' \in [TaskIds -> Seq({"real", "synthetic"})]
    <3>1. PICK t \in thread[w].tasks :
             \/ results' = [results EXCEPT ![t] = Append(results[t], "real")]
             \/ results' = results
      BY <1>3 DEF ResultSubmit
    <3>2. Append(results[t], "real") \in Seq({"real", "synthetic"})
      BY <1>0, AppendType
    <3>3. results \in [TaskIds -> Seq({"real", "synthetic"})]
      BY DEF TypeOK
    <3> QED
      BY <3>1, <3>2, <3>3
  <2> QED
    BY <1>3, <1>0, <2>1, <2>2, <2>3 DEF ResultSubmit, TypeOK, trust, hist, Terminal
<1>4. CASE ResultEffect(w)
  <2>1. thread' \in [Workers -> Handlers]
    BY <1>4, FinishType DEF ResultEffect
  <2>2. agent' \in [Hosts -> Agents]
    BY <1>4, <1>a, AnswerType DEF ResultEffect
  <2> QED
    BY <1>4, <2>1, <2>2 DEF ResultEffect, TypeOK, trust, db
<1> QED
  BY <1>1, <1>2, <1>3, <1>4 DEF ResultStep

(* The steps of the agent loop preserve the types.                          *)
LEMMA TypeAgent ==
    ASSUME TypeOK, SingleHolder, NEW h \in Hosts,
           \/ AgentStep(h)
           \/ \E w \in Workers : StartPoll(h, w) \/ PostResult(h, w)
    PROVE  TypeOK'
<1>0. agent[h].batch \in SUBSET TaskIds
  BY DEF TypeOK, Agents
<1>c. agent[h].mode \in {"ready", "sending"} => Current(h) \in TaskIds
  BY <1>0, CurrentInBatch DEF SingleHolder
<1>1. CASE RunTask(h)
  <2>1. agent' \in [Hosts -> Agents]
    BY <1>0, <1>1, AgentInType DEF RunTask, TypeOK
  <2> QED
    BY <1>1, <1>c, <2>1 DEF RunTask, TypeOK, trust, db
<1>2. CASE CommandEnds(h)
  <2>1. agent' \in [Hosts -> Agents]
    BY <1>0, <1>2, AgentInType DEF CommandEnds, TypeOK
  <2> QED
    BY <1>2, <2>1 DEF CommandEnds, TypeOK, trust, db, hist
<1>3. CASE GiveUp(h)
  <2>1. agent' \in [Hosts -> Agents]
    BY <1>3, AgentInType, AdvancedType DEF GiveUp, TypeOK
  <2> QED
    BY <1>3, <2>1, AbandonType DEF GiveUp, TypeOK, trust, db, hist
<1>4. ASSUME NEW w \in Workers, StartPoll(h, w)
      PROVE  TypeOK'
  <2>1. agent' \in [Hosts -> Agents]
    BY <1>4, AgentInType DEF StartPoll, TypeOK
  <2>2. thread' \in [Workers -> Handlers]
    BY <1>4 DEF StartPoll, Begin, TypeOK, Handlers, PollPCs
  <2> QED
    BY <1>4, <2>1, <2>2 DEF StartPoll, TypeOK, trust, db, hist
<1>5. ASSUME NEW w \in Workers, PostResult(h, w)
      PROVE  TypeOK'
  <2>1. Current(h) \in TaskIds
    BY <1>c, <1>5 DEF PostResult
  <2>2. thread' \in [Workers -> Handlers]
    BY <1>5, <2>1, AbandonType DEF PostResult, Handlers, ResultPCs
  <2> QED
    BY <1>5, <2>2 DEF PostResult, TypeOK, trust, db, hist
<1> QED
  BY <1>1, <1>2, <1>3, <1>4, <1>5 DEF AgentStep

(* Administration, faults, the reclaimer and time keep the types.           *)
LEMMA TypeEnvironment ==
    ASSUME TypeOK,
           \/ \E h \in Hosts : \/ DeleteAgent(h) \/ EnrollAgain(h)
                              \/ RevokeAgent(h) \/ RestoreAgent(h)
                              \/ Quarantine(h) \/ Resume(h) \/ AgentRestart(h)
           \/ Reclaim \/ KeyOutage \/ KeyBack \/ BackendRestart \/ Tick
    PROVE  TypeOK'
<1> USE BoundsAssumption
<1>1. ASSUME NEW h \in Hosts, DeleteAgent(h) PROVE TypeOK'
  BY <1>1 DEF DeleteAgent, Fault, TypeOK, hist
<1>2. ASSUME NEW h \in Hosts, EnrollAgain(h) PROVE TypeOK'
  <2>1. agent' \in [Hosts -> Agents]
    BY <1>2, AgentInType DEF EnrollAgain, TypeOK
  <2> QED
    BY <1>2, <2>1 DEF EnrollAgain, TypeOK, db, hist
<1>3. ASSUME NEW h \in Hosts,
             RevokeAgent(h) \/ RestoreAgent(h) \/ Quarantine(h) \/ Resume(h)
      PROVE  TypeOK'
  <2>1. CASE RevokeAgent(h)
    BY <2>1 DEF RevokeAgent, Fault, TypeOK, db, hist
  <2>2. CASE RestoreAgent(h)
    BY <2>2 DEF RestoreAgent, TypeOK, db, hist
  <2>3. CASE Quarantine(h)
    BY <2>3 DEF Quarantine, Fault, TypeOK, db, hist
  <2>4. CASE Resume(h)
    BY <2>4 DEF Resume, TypeOK, db, hist
  <2> QED
    BY <1>3, <2>1, <2>2, <2>3, <2>4
<1>4. ASSUME NEW h \in Hosts, AgentRestart(h) PROVE TypeOK'
  <2>1. agent' \in [Hosts -> Agents]
    BY <1>4, AgentInType DEF AgentRestart, TypeOK
  <2> QED
    BY <1>4, <2>1, AbandonType DEF AgentRestart, Fault, TypeOK, trust, db, hist
<1>5. CASE ReclaimSelect
  BY <1>5 DEF ReclaimSelect, TypeOK, trust, db, hist
<1>6. CASE ReclaimApply
  <2>1. status' \in [TaskIds -> {"unused", "pending", "dispatched", "removed"}
                                \cup Terminal]
    BY <1>6 DEF ReclaimApply, TypeOK, Terminal
  <2>2. results' \in [TaskIds -> Seq({"real", "synthetic"})]
    BY <1>6, AppendType DEF ReclaimApply, TypeOK
  <2>3. reclaimer' \in [pc : {"sleep", "apply"}, stale : SUBSET TaskIds]
    BY <1>6 DEF ReclaimApply
  <2> QED
    BY <1>6, <2>1, <2>2, <2>3 DEF ReclaimApply, TypeOK, trust, hist
<1>7. CASE KeyOutage \/ KeyBack
  <2>1. CASE KeyOutage
    <3>1. auditKey' \in BOOLEAN
      BY <2>1, Zenon DEF KeyOutage
    <3>2. faults' \in Nat
      BY <2>1 DEF KeyOutage, Fault, TypeOK
    <3> QED
      BY <2>1, <3>1, <3>2, Zenon DEF KeyOutage, TypeOK, db, hist
  <2>2. CASE KeyBack
    BY <2>2 DEF KeyBack, TypeOK, db, hist
  <2> QED
    BY <1>7, <2>1, <2>2
<1>8. CASE BackendRestart
  <2>1. ram' \in [Items -> [TaskIds -> NotHeld..BecomeTTL+1]]
    BY <1>8 DEF BackendRestart, NotHeld
  <2> QED
    BY <1>8, <2>1, IdleHandlerType DEF BackendRestart, Fault, TypeOK, trust, db, hist
<1>9. CASE Tick
  <2>0. ASSUME NEW top \in Nat, NEW n \in 0..top PROVE Older(n, top) \in 0..top
    BY <2>0 DEF Older
  <2>1. createdAge' \in [TaskIds -> 0..Retention+1]
    <3>1. \A t \in TaskIds : createdAge[t] \in 0..Retention+1
      BY DEF TypeOK
    <3>2. \A t \in TaskIds : Older(createdAge[t], Retention+1) \in 0..Retention+1
      BY <2>0, <3>1
    <3> QED
      BY <1>9, <3>2 DEF Tick
  <2>4. dispatchAge' \in [TaskIds -> 0..ReclaimAfter+1]
    <3>1. \A t \in TaskIds : dispatchAge[t] \in 0..ReclaimAfter+1
      BY DEF TypeOK
    <3>2. \A t \in TaskIds : Older(dispatchAge[t], ReclaimAfter+1) \in 0..ReclaimAfter+1
      BY <2>0, <3>1
    <3> QED
      BY <1>9, <3>2 DEF Tick
  <2>2. ram' \in [Items -> [TaskIds -> NotHeld..BecomeTTL+1]]
    BY SMTT(30), <1>9 DEF Tick, Older, TypeOK, NotHeld
  <2>3. agent' \in [Hosts -> Agents]
    <3> SUFFICES ASSUME NEW h \in Hosts PROVE agent'[h] \in Agents
      BY <1>9 DEF Tick
    <3>1. agent[h] \in Agents
      BY DEF TypeOK
    <3>2. agent[h].mode = "running" => agent[h].age + 1 \in 0..CmdTimeout
      BY <1>9, <3>1 DEF Tick, Agents
    <3>3. agent[h].mode = "running" =>
             [agent[h] EXCEPT !.age = agent[h].age + 1] \in Agents
      BY <3>1, <3>2 DEF Agents
    <3> QED
      BY <1>9, <3>1, <3>3 DEF Tick
  <2> QED
    BY <1>9, <2>1, <2>2, <2>3, <2>4 DEF Tick, TypeOK, trust, hist
<1> QED
  BY <1>1, <1>2, <1>3, <1>4, <1>5, <1>6, <1>7, <1>8, <1>9 DEF Reclaim

-----------------------------------------------------------------------------
(* The inductive invariant behind at-most-once.                             *)

IInv == TypeOK /\ SingleHolder /\ OneWait /\ AtMostOnce

(* The inductive invariant holds initially.                                 *)
LEMMA InvInit == Init => IInv
<1> SUFFICES ASSUME Init PROVE IInv
  OBVIOUS
<1>1. TypeOK
  BY TypeInit
<1>2. SingleHolder
  BY DEF Init, SingleHolder, Holds, Started, IdleHandler, AgentIn
<1>3. OneWait
  BY DEF Init, OneWait, IdleHandler, ResultPCs
<1>4. AtMostOnce
  BY DEF Init, AtMostOnce
<1> QED
  BY <1>1, <1>2, <1>3, <1>4 DEF IInv

(* Steps that leave threads and agents alone, and only move task rows on.   *)
LEMMA CustodyUndisturbed ==
    ASSUME IInv, UNCHANGED <<thread, agent, ran, owner>>,
           \A t \in TaskIds : Claimed(t) => Claimed(t)'
    PROVE  (SingleHolder /\ OneWait /\ AtMostOnce)'
<1>1. SingleHolder'
  BY DEF IInv, SingleHolder, Holds, Started, Current, Claimed, TypeOK, Agents
<1>2. OneWait'
  BY DEF IInv, OneWait
<1>3. AtMostOnce'
  BY DEF IInv, AtMostOnce, Claimed
<1> QED
  BY <1>1, <1>2, <1>3

(* Administration, the key and the reclaimer move no custody.               *)
LEMMA InvEnvironment ==
    ASSUME IInv,
           \/ \E h \in Hosts : \/ DeleteAgent(h) \/ RevokeAgent(h)
                              \/ RestoreAgent(h) \/ Quarantine(h) \/ Resume(h)
           \/ Reclaim \/ KeyOutage \/ KeyBack
    PROVE  (SingleHolder /\ OneWait /\ AtMostOnce)'
<1>1. UNCHANGED <<thread, agent, ran, owner>>
  BY DEF DeleteAgent, RevokeAgent, RestoreAgent, Quarantine, Resume, Reclaim,
         ReclaimSelect, ReclaimApply, KeyOutage, KeyBack, db, hist
<1>2. ASSUME NEW t \in TaskIds, Claimed(t) PROVE Claimed(t)'
  <2>1. CASE \E h \in Hosts : DeleteAgent(h)
    BY <1>2, <2>1 DEF Claimed, DeleteAgent
  <2>2. CASE ReclaimApply
    BY <1>2, <2>2 DEF Claimed, ReclaimApply
  <2>3. CASE status' = status
    BY <1>2, <2>3 DEF Claimed
  <2> QED
    BY <2>1, <2>2, <2>3 DEF RevokeAgent, RestoreAgent, Quarantine, Resume,
         Reclaim, ReclaimSelect, KeyOutage, KeyBack, db
<1> QED
  BY <1>1, <1>2, CustodyUndisturbed

(* A handler that holds nothing and that no agent waits for.                *)
LEMMA QuietThread ==
    ASSUME IInv, NEW w \in Workers, NEW hd, UNCHANGED <<status, owner, ran, agent>>,
           thread' = [thread EXCEPT ![w] = hd],
           hd.pc \in {"idle"} \cup QueuePCs, hd.live = FALSE
    PROVE  (SingleHolder /\ OneWait /\ AtMostOnce)'
<1>1. \A v \in Workers : thread'[v] = IF v = w THEN hd ELSE thread[v]
  BY DEF IInv, TypeOK
<1>2. hd.pc \notin PollPCs \cup ResultPCs
  BY DEF QueuePCs, PollPCs, ResultPCs
<1>3. SingleHolder'
  <2>1. \A v \in Workers, t \in TaskIds :
           Holds(v, t)' => Holds(v, t) /\ thread'[v] = thread[v]
    BY <1>1, <1>2 DEF Holds, PollPCs
  <2> QED
    BY <2>1 DEF IInv, SingleHolder, Holds, Started, Current, Claimed, TypeOK, Agents
<1>4. OneWait'
  BY <1>1, <1>2 DEF IInv, OneWait
<1>5. AtMostOnce'
  BY DEF IInv, AtMostOnce
<1> QED
  BY <1>3, <1>4, <1>5

(* Queueing a task gives nobody the right to run it.                        *)
LEMMA InvQueue ==
    ASSUME IInv, NEW w \in Workers,
           \/ \E h \in Hosts, r \in Requests : QueueRequest(w, h, r)
           \/ QueueStep(w)
    PROVE  (SingleHolder /\ OneWait /\ AtMostOnce)'
<1> USE DEF IInv
<1>1. CASE QueueInsert(w)
  <2>1. NextId \in TaskIds /\ status[NextId] = "unused"
    BY <1>1, NextIdIsUnused DEF QueueInsert, Unused
  <2>2. SingleHolder'
    BY <1>1, <2>1 DEF SingleHolder, QueueInsert, GotoWith, Holds, Started, Current,
       Claimed, TypeOK, Agents, Handlers, hist
  <2>3. OneWait'
    BY ZenonT(30), <1>1 DEF OneWait, QueueInsert, GotoWith, TypeOK, Handlers, PollPCs, ResultPCs,
       hist
  <2>4. AtMostOnce'
    BY <1>1, <2>1 DEF AtMostOnce, QueueInsert, TypeOK, hist
  <2> QED
    BY <2>2, <2>3, <2>4
<1>2. ASSUME QueueStep(w), ~QueueInsert(w)
      PROVE  (SingleHolder /\ OneWait /\ AtMostOnce)'
  <2>1. thread[w] \in Handlers /\ thread[w].pc \in QueuePCs
    BY <1>2 DEF TypeOK, QueueStep, QueueExists, QueueStoreBecome, QueueStoreRoot,
       QueueLog, QueuePCs
  <2>2. thread[w].live = FALSE
    BY <2>1 DEF OneWait, QueuePCs, PollPCs, ResultPCs, Handlers
  <2>3. UNCHANGED <<status, owner, ran, agent>>
    BY <1>2 DEF QueueStep, QueueExists, QueueStoreBecome, QueueStoreRoot, QueueLog,
       db, hist
  <2>4. CASE Finish(w)
    <3>1. IdleHandler.pc = "idle" /\ IdleHandler.live = FALSE
      BY DEF IdleHandler
    <3> QED
      BY <2>3, <2>4, <3>1, QuietThread DEF Finish
  <2>5. ASSUME NEW pc \in QueuePCs, Goto(w, pc)
        PROVE  (SingleHolder /\ OneWait /\ AtMostOnce)'
    <3> DEFINE hd == [thread[w] EXCEPT !.pc = pc]
    <3>1. hd.pc = pc /\ hd.live = FALSE
      BY <2>1, <2>2 DEF Handlers
    <3>2. thread' = [thread EXCEPT ![w] = hd]
      BY <2>5 DEF Goto
    <3> HIDE DEF hd
    <3> QED
      BY <2>3, <3>1, <3>2, QuietThread
  <2> QED
    BY <1>2, <2>4, <2>5 DEF QueueStep, QueueExists, QueueStoreBecome, QueueStoreRoot,
       QueueLog, QueuePCs
<1>3. ASSUME NEW h \in Hosts, NEW r \in Requests, QueueRequest(w, h, r)
      PROVE  (SingleHolder /\ OneWait /\ AtMostOnce)'
  <2> DEFINE hd == [pc |-> "q_exists", host |-> h, tasks |-> {}, want |-> r,
                    live |-> FALSE]
  <2>1. thread' = [thread EXCEPT ![w] = hd] /\ UNCHANGED <<status, owner, ran, agent>>
    BY <1>3 DEF QueueRequest, Begin, db, hist
  <2>2. hd.pc \in {"idle"} \cup QueuePCs /\ hd.live = FALSE
    BY DEF QueuePCs
  <2> HIDE DEF hd
  <2> QED
    BY <2>1, <2>2, QuietThread
<1> QED
  BY <1>1, <1>2, <1>3

(* One agent changes, keeps at most what it had, and no handler comes to    *)
(* hold anything: the single holders stay single.                           *)
LEMMA HolderKept ==
    ASSUME IInv, NEW h \in Hosts, NEW a,
           agent' = [agent EXCEPT ![h] = a], UNCHANGED <<status, owner, ran>>,
           a.batch \subseteq agent[h].batch,
           a.batch = {} <=> a.mode \in {"down", "idle", "polling"},
           \A t \in a.batch :
              ran[t] = IF a.mode \in {"running", "sending"} /\ t = Least(a.batch)
                       THEN 1 ELSE 0,
           \A v \in Workers, t \in TaskIds :
              Holds(v, t)' => Holds(v, t) /\ thread'[v].host = thread[v].host
    PROVE  SingleHolder'
<1>1. \A g \in Hosts : agent'[g] = IF g = h THEN a ELSE agent[g]
  BY DEF IInv, TypeOK
<1>2. \A g \in Hosts : agent'[g].batch \subseteq agent[g].batch
  BY <1>1
<1>3. ASSUME NEW v \in Workers, NEW t \in TaskIds, Holds(v, t)'
      PROVE  /\ Claimed(t)' /\ owner'[t] = thread'[v].host /\ ran'[t] = 0
             /\ \A u \in Workers : Holds(u, t)' => u = v
             /\ \A g \in Hosts : t \notin agent'[g].batch
  <2>1. Holds(v, t) /\ thread'[v].host = thread[v].host
    BY <1>3
  <2>2. Claimed(t)' = Claimed(t)
    BY DEF Claimed
  <2> QED
    BY <1>2, <2>1, <2>2 DEF IInv, SingleHolder
<1>4. ASSUME NEW g \in Hosts
      PROVE  /\ agent'[g].batch = {} <=> agent'[g].mode \in {"down", "idle", "polling"}
             /\ \A t \in agent'[g].batch :
                   /\ Claimed(t)' /\ owner'[t] = g
                   /\ ran'[t] = IF t \in Started(g)' THEN 1 ELSE 0
  <2>1. CASE g = h
    BY <1>1, <2>1 DEF IInv, SingleHolder, Claimed, Started, Current
  <2>2. CASE g # h
    BY <1>1, <2>2 DEF IInv, SingleHolder, Claimed, Started, Current
  <2> QED
    BY <2>1, <2>2
<1> QED
  BY <1>3, <1>4 DEF SingleHolder

(* Nobody waits for h's requests any more, and nothing else changed about   *)
(* who waits for what.                                                      *)
LEMMA WaitKept ==
    ASSUME IInv, NEW h \in Hosts, NEW a, agent' = [agent EXCEPT ![h] = a],
           \A t \in TaskIds : ran[t] = 1 => ran'[t] = 1,
           \A v \in Workers : thread'[v].live =>
              thread'[v] = thread[v] /\ thread[v].host # h,
           \A v \in Workers : thread'[v].pc \in ResultPCs =>
              thread[v].pc \in ResultPCs /\ thread'[v].tasks = thread[v].tasks
    PROVE  OneWait'
<1>1. \A g \in Hosts : g # h => agent'[g] = agent[g]
  BY DEF IInv, TypeOK
<1>2. \A v \in Workers : thread[v].host \in Hosts
  BY DEF IInv, TypeOK, Handlers
<1> QED
  BY <1>1, <1>2 DEF IInv, OneWait

(* A handler goes on: same caller, same tasks, same kind of request.        *)
LEMMA HandlerGoesOn ==
    ASSUME IInv, NEW w \in Workers, NEW pc, Goto(w, pc),
           UNCHANGED <<owner, ran, agent>>,
           \A t \in TaskIds : Claimed(t) => Claimed(t)',
           \/ thread[w].pc \in ResultPCs /\ pc \in ResultPCs
           \/ thread[w].pc \in PollPCs /\ pc \in {"p_quarantine", "p_claim"}
           \/ thread[w].pc = "p_become" /\ pc = "p_root"
    PROVE  (SingleHolder /\ OneWait /\ AtMostOnce)'
<1>0. thread[w] \in Handlers
  BY DEF IInv, TypeOK
<1>1. /\ thread'[w].pc = pc /\ thread'[w].live = thread[w].live
      /\ thread'[w].host = thread[w].host /\ thread'[w].tasks = thread[w].tasks
  BY <1>0 DEF Goto, IInv, TypeOK, Handlers
<1>2. \A v \in Workers : v # w => thread'[v] = thread[v]
  BY DEF Goto, IInv, TypeOK
<1>3. SingleHolder'
  <2>1. \A v \in Workers, t \in TaskIds : Holds(v, t)' => Holds(v, t)
    BY <1>1, <1>2 DEF Holds, ResultPCs
  <2>2. \A v \in Workers : thread'[v].host = thread[v].host
    BY <1>1, <1>2
  <2>3. ASSUME NEW v \in Workers, NEW t \in TaskIds, Holds(v, t)'
        PROVE  /\ Claimed(t)' /\ owner'[t] = thread'[v].host /\ ran'[t] = 0
               /\ \A u \in Workers : Holds(u, t)' => u = v
               /\ \A g \in Hosts : t \notin agent'[g].batch
    BY <2>1, <2>2, <2>3 DEF IInv, SingleHolder
  <2>4. ASSUME NEW g \in Hosts
        PROVE  /\ agent'[g].batch = {} <=> agent'[g].mode \in {"down", "idle", "polling"}
               /\ \A t \in agent'[g].batch :
                     /\ Claimed(t)' /\ owner'[t] = g
                     /\ ran'[t] = IF t \in Started(g)' THEN 1 ELSE 0
    BY DEF IInv, SingleHolder, Claimed, Started, Current, TypeOK, Agents
  <2> QED
    BY <2>3, <2>4 DEF SingleHolder
<1>4. OneWait'
  BY <1>1, <1>2 DEF IInv, OneWait, PollPCs, ResultPCs
<1>5. AtMostOnce'
  BY DEF IInv, AtMostOnce, Claimed
<1> QED
  BY <1>3, <1>4, <1>5

(* A handler ends and, if its agent still waits, its answer takes effect.   *)
LEMMA HandlerAnswers ==
    ASSUME IInv, NEW w \in Workers, NEW a, Finish(w), Answer(w, a),
           UNCHANGED <<status, owner, ran>>,
           a.batch \subseteq agent[thread[w].host].batch,
           a.batch = {} <=> a.mode \in {"down", "idle", "polling"},
           thread[w].live => a.mode \notin {"running", "sending"}
                          /\ \A t \in a.batch : ran[t] = 0
    PROVE  (SingleHolder /\ OneWait /\ AtMostOnce)'
<1>0. thread[w].host \in Hosts
  BY DEF IInv, TypeOK, Handlers
<1>1. \A v \in Workers : thread'[v] = IF v = w THEN IdleHandler ELSE thread[v]
  BY DEF Finish, IInv, TypeOK
<1>2. IdleHandler.pc = "idle" /\ IdleHandler.live = FALSE
  BY DEF IdleHandler
<1>3. CASE thread[w].live
  <2>1. agent' = [agent EXCEPT ![thread[w].host] = a]
    BY <1>3 DEF Answer
  <2>2. SingleHolder'
    <3>1. \A v \in Workers, t \in TaskIds :
             Holds(v, t)' => Holds(v, t) /\ thread'[v].host = thread[v].host
      BY <1>1, <1>2 DEF Holds
    <3>2. \A t \in a.batch :
             ran[t] = IF a.mode \in {"running", "sending"} /\ t = Least(a.batch)
                      THEN 1 ELSE 0
      BY <1>3
    <3> QED
      BY <1>0, <2>1, <3>1, <3>2, HolderKept
  <2>3. OneWait'
    <3>1. \A v \in Workers : thread'[v].live =>
             thread'[v] = thread[v] /\ thread[v].host # thread[w].host
      BY <1>1, <1>2, <1>3 DEF IInv, OneWait
    <3>2. \A v \in Workers : thread'[v].pc \in ResultPCs =>
             thread[v].pc \in ResultPCs /\ thread'[v].tasks = thread[v].tasks
      BY <1>1, <1>2 DEF ResultPCs
    <3> QED
      BY <1>0, <2>1, <3>1, <3>2, WaitKept
  <2>4. AtMostOnce'
    BY DEF IInv, AtMostOnce
  <2> QED
    BY <2>2, <2>3, <2>4
<1>4. CASE ~thread[w].live
  BY <1>2, <1>4, QuietThread DEF Finish, Answer
<1> QED
  BY <1>3, <1>4

(* What an agent turns into when its poll yields nothing, when it exits,    *)
(* and when a result it was sending is answered or given up.                *)
LEMMA EmptyHanded ==
    ASSUME NEW m \in {"down", "idle", "polling"}
    PROVE  /\ AgentIn(m, {}).batch = {} /\ AgentIn(m, {}).mode = m
BY DEF AgentIn

(* After a result the agent keeps the rest of its batch.                    *)
LEMMA AdvancedBatch ==
    ASSUME IInv, NEW h \in Hosts, agent[h].mode = "sending"
    PROVE  /\ Advanced(h).batch \subseteq agent[h].batch
           /\ Advanced(h).batch = {} <=> Advanced(h).mode \in {"down", "idle", "polling"}
           /\ Advanced(h).mode \notin {"running", "sending"}
           /\ \A t \in Advanced(h).batch : ran[t] = 0
<1>1. \A t \in agent[h].batch \ {Current(h)} : ran[t] = 0
  BY DEF IInv, SingleHolder, Started
<1> QED
  BY <1>1 DEF Advanced, AgentIn

(* verify_agent and the quarantine check keep the invariant.                *)
LEMMA InvPollReads ==
    ASSUME IInv, NEW w \in Workers, PollVerify(w) \/ PollQuarantine(w)
    PROVE  (SingleHolder /\ OneWait /\ AtMostOnce)'
<1>1. UNCHANGED <<status, owner, ran>>
  BY DEF PollVerify, PollQuarantine, db, hist
<1>2. thread[w].pc \in PollPCs
  BY DEF PollVerify, PollQuarantine, PollPCs
<1>3. ASSUME NEW pc \in {"p_quarantine", "p_claim"}, Goto(w, pc), UNCHANGED agent
      PROVE  (SingleHolder /\ OneWait /\ AtMostOnce)'
  <2>1. \A t \in TaskIds : Claimed(t) => Claimed(t)'
    BY <1>1 DEF Claimed
  <2> QED
    BY <1>1, <1>2, <1>3, <2>1, HandlerGoesOn
<1>4. ASSUME NEW m \in {"down", "idle"}, Finish(w), Answer(w, AgentIn(m, {}))
      PROVE  (SingleHolder /\ OneWait /\ AtMostOnce)'
  <2> DEFINE a == AgentIn(m, {})
  <2>1. a.batch = {} /\ a.mode = m
    BY EmptyHanded
  <2>2. Answer(w, a)
    BY <1>4
  <2> HIDE DEF a
  <2> QED
    BY <1>1, <1>4, <2>1, <2>2, HandlerAnswers
<1> QED
  BY <1>3, <1>4 DEF PollVerify, PollQuarantine, Exited

(* The claiming UPDATE makes this poll the only holder of its tasks.        *)
LEMMA InvPollClaim ==
    ASSUME IInv, NEW w \in Workers, PollClaim(w)
    PROVE  (SingleHolder /\ OneWait /\ AtMostOnce)'
<1> DEFINE mine == Claimable(thread[w].host)
<1>0. thread[w] \in Handlers /\ mine \in SUBSET TaskIds
  BY DEF IInv, TypeOK, Claimable
<1>1. /\ thread'[w].pc = "p_become" /\ thread'[w].live = thread[w].live
      /\ thread'[w].host = thread[w].host /\ thread'[w].tasks = mine
  BY <1>0 DEF PollClaim, GotoWith, IInv, TypeOK, Handlers
<1>2. \A v \in Workers : v # w => thread'[v] = thread[v]
  BY DEF PollClaim, GotoWith, IInv, TypeOK
<1>3. thread[w].pc = "p_claim" /\ UNCHANGED <<owner, ran, agent>>
  BY DEF PollClaim, hist
<1>4. \A t \in TaskIds : status'[t] = IF t \in mine THEN "dispatched" ELSE status[t]
  BY DEF PollClaim
<1>5. \A t \in mine : t \in TaskIds /\ status[t] = "pending" /\ owner[t] = thread[w].host
  BY DEF Claimable
<1> HIDE DEF mine
<1>6. \A t \in TaskIds : Claimed(t)' <=> Claimed(t) \/ t \in mine
  BY <1>4, <1>5 DEF Claimed
<1>7. \A t \in mine : ~Claimed(t) /\ ran[t] = 0
  BY <1>5 DEF Claimed, IInv, AtMostOnce, TypeOK
<1>8. \A v \in Workers, t \in TaskIds :
         Holds(v, t)' <=> \/ v = w /\ t \in mine
                          \/ v # w /\ Holds(v, t)
  BY <1>1, <1>2 DEF Holds
<1>9. SingleHolder'
  <2>1. ASSUME NEW v \in Workers, NEW t \in TaskIds, Holds(v, t)'
        PROVE  /\ Claimed(t)' /\ owner'[t] = thread'[v].host /\ ran'[t] = 0
               /\ \A u \in Workers : Holds(u, t)' => u = v
               /\ \A g \in Hosts : t \notin agent'[g].batch
    <3>1. CASE v = w /\ t \in mine
      BY <3>1, <1>1, <1>3, <1>5, <1>6, <1>7, <1>8 DEF IInv, SingleHolder
    <3>2. CASE v # w /\ Holds(v, t)
      BY <3>2, <1>2, <1>3, <1>6, <1>7, <1>8 DEF IInv, SingleHolder
    <3> QED
      BY <1>8, <2>1, <3>1, <3>2
  <2>2. ASSUME NEW g \in Hosts
        PROVE  /\ agent'[g].batch = {} <=> agent'[g].mode \in {"down", "idle", "polling"}
               /\ \A t \in agent'[g].batch :
                     /\ Claimed(t)' /\ owner'[t] = g
                     /\ ran'[t] = IF t \in Started(g)' THEN 1 ELSE 0
    BY <1>3, <1>6 DEF IInv, SingleHolder, Started, Current, TypeOK, Agents
  <2> QED
    BY <2>1, <2>2 DEF SingleHolder
<1>10. OneWait'
  BY <1>1, <1>2, <1>3 DEF IInv, OneWait, PollPCs, ResultPCs
<1>11. AtMostOnce'
  BY <1>3, <1>6 DEF IInv, AtMostOnce, Claimed
<1> QED
  BY <1>9, <1>10, <1>11

(* Popping the passwords keeps the invariant.                               *)
LEMMA InvPollTakeBecome ==
    ASSUME IInv, NEW w \in Workers, PollTakeBecome(w)
    PROVE  (SingleHolder /\ OneWait /\ AtMostOnce)'
<1>1. UNCHANGED <<status, owner, ran, agent>> /\ Goto(w, "p_root")
  BY DEF PollTakeBecome, db
<1>2. \A t \in TaskIds : Claimed(t) => Claimed(t)'
  BY <1>1 DEF Claimed
<1> QED
  BY <1>1, <1>2, HandlerGoesOn DEF PollTakeBecome

(* The claimed tasks pass from the handler to the agent, if it still waits; *)
(* otherwise they are nowhere any more and are never run.                   *)
LEMMA InvPollTakeRoot ==
    ASSUME IInv, NEW w \in Workers, PollTakeRoot(w)
    PROVE  (SingleHolder /\ OneWait /\ AtMostOnce)'
<1> DEFINE h == thread[w].host
           got == thread[w].tasks
           a == AgentIn(IF got = {} THEN "idle" ELSE "ready", got)
<1>0. h \in Hosts /\ got \in SUBSET TaskIds
  BY DEF IInv, TypeOK, Handlers
<1>1. \A v \in Workers : thread'[v] = IF v = w THEN IdleHandler ELSE thread[v]
  BY DEF PollTakeRoot, Finish, IInv, TypeOK
<1>2. IdleHandler.pc = "idle" /\ IdleHandler.live = FALSE
  BY DEF IdleHandler
<1>3. UNCHANGED <<status, owner, ran>> /\ Finish(w) /\ Answer(w, a)
  BY DEF PollTakeRoot, db
<1>4. a.batch = got /\ a.mode = IF got = {} THEN "idle" ELSE "ready"
  BY DEF AgentIn
<1>5. \A t \in got : Holds(w, t)
  BY DEF PollTakeRoot, Holds
<1>6. CASE ~thread[w].live
  BY <1>2, <1>3, <1>6, QuietThread DEF Finish, Answer
<1>7. CASE thread[w].live
  <2>1. agent' = [agent EXCEPT ![h] = a]
    BY <1>3, <1>7 DEF Answer
  <2> HIDE DEF h, got, a
  <2>2. \A g \in Hosts : agent'[g] = IF g = h THEN a ELSE agent[g]
    BY <2>1 DEF IInv, TypeOK
  <2>3. \A v \in Workers, t \in TaskIds :
           Holds(v, t)' => Holds(v, t) /\ v # w /\ thread'[v] = thread[v]
    BY <1>1, <1>2 DEF Holds
  <2>4. SingleHolder'
    <3>1. ASSUME NEW v \in Workers, NEW t \in TaskIds, Holds(v, t)'
          PROVE  /\ Claimed(t)' /\ owner'[t] = thread'[v].host /\ ran'[t] = 0
                 /\ \A u \in Workers : Holds(u, t)' => u = v
                 /\ \A g \in Hosts : t \notin agent'[g].batch
      <4>1. Holds(v, t) /\ v # w /\ thread'[v] = thread[v]
        BY <2>3, <3>1
      <4>2. t \notin got
        BY <1>5, <4>1 DEF IInv, SingleHolder
      <4>3. Claimed(t)' = Claimed(t)
        BY <1>3 DEF Claimed
      <4> QED
        BY <1>3, <1>4, <2>2, <2>3, <4>1, <4>2, <4>3 DEF IInv, SingleHolder
    <3>2. ASSUME NEW g \in Hosts
          PROVE  /\ agent'[g].batch = {} <=> agent'[g].mode \in {"down", "idle", "polling"}
                 /\ \A t \in agent'[g].batch :
                       /\ Claimed(t)' /\ owner'[t] = g
                       /\ ran'[t] = IF t \in Started(g)' THEN 1 ELSE 0
      <4>1. CASE g = h
        <5>1. \A t \in got : Claimed(t) /\ owner[t] = h /\ ran[t] = 0
          BY <1>0, <1>5 DEF IInv, SingleHolder, h
        <5> QED
          BY <1>3, <1>4, <2>2, <4>1, <5>1 DEF Claimed, Started
      <4>2. CASE g # h
        BY <1>3, <2>2, <4>2 DEF IInv, SingleHolder, Claimed, Started, Current
      <4> QED
        BY <4>1, <4>2
    <3> QED
      BY <3>1, <3>2 DEF SingleHolder
  <2>5. OneWait'
    <3>1. \A v \in Workers : thread'[v].live => thread'[v] = thread[v] /\ thread[v].host # h
      BY <1>1, <1>2, <1>7 DEF IInv, OneWait, h
    <3>2. \A v \in Workers : thread'[v].pc \in ResultPCs =>
             thread[v].pc \in ResultPCs /\ thread'[v].tasks = thread[v].tasks
      BY <1>1, <1>2 DEF ResultPCs
    <3> QED
      BY <1>0, <1>3, <2>1, <3>1, <3>2, WaitKept
  <2>6. AtMostOnce'
    BY <1>3 DEF IInv, AtMostOnce
  <2> QED
    BY <2>4, <2>5, <2>6
<1> QED
  BY <1>6, <1>7

(* The steps of post_task_result keep the invariant.                        *)
LEMMA InvResult ==
    ASSUME IInv, NEW w \in Workers, ResultStep(w)
    PROVE  (SingleHolder /\ OneWait /\ AtMostOnce)'
<1>0. thread[w].host \in Hosts /\ thread[w].tasks \in SUBSET TaskIds
  BY DEF IInv, TypeOK, Handlers
<1>1. thread[w].pc \in ResultPCs /\ UNCHANGED <<owner, ran>>
  BY DEF ResultStep, ResultVerify, ResultOwner, ResultSubmit, ResultEffect, db, hist,
     ResultPCs
<1>2. \A t \in TaskIds : Claimed(t) => Claimed(t)'
  BY <1>0 DEF ResultStep, ResultVerify, ResultOwner, ResultSubmit, ResultEffect, db,
     Claimed, IInv, TypeOK
<1>3. ASSUME NEW pc \in ResultPCs, Goto(w, pc), UNCHANGED agent
      PROVE  (SingleHolder /\ OneWait /\ AtMostOnce)'
  BY <1>1, <1>2, <1>3, HandlerGoesOn
<1>4. ASSUME UNCHANGED status, Finish(w),
             Answer(w, Advanced(thread[w].host)) \/ Answer(w, Exited)
      PROVE  (SingleHolder /\ OneWait /\ AtMostOnce)'
  <2>1. CASE ~thread[w].live
    <3>1. IdleHandler.pc = "idle" /\ IdleHandler.live = FALSE
      BY DEF IdleHandler
    <3> QED
      BY <1>1, <1>4, <2>1, <3>1, QuietThread DEF Finish, Answer
  <2>2. CASE thread[w].live /\ Answer(w, Advanced(thread[w].host))
    <3>1. agent[thread[w].host].mode = "sending"
      BY <1>1, <2>2 DEF IInv, OneWait, PollPCs, ResultPCs
    <3> DEFINE a == Advanced(thread[w].host)
    <3>2. /\ a.batch \subseteq agent[thread[w].host].batch
          /\ a.batch = {} <=> a.mode \in {"down", "idle", "polling"}
          /\ a.mode \notin {"running", "sending"} /\ \A t \in a.batch : ran[t] = 0
      BY <1>0, <3>1, AdvancedBatch
    <3>3. Answer(w, a)
      BY <2>2
    <3> HIDE DEF a
    <3> QED
      BY <1>1, <1>4, <3>2, <3>3, HandlerAnswers
  <2>3. CASE Answer(w, Exited)
    <3>1. Exited.batch = {} /\ Exited.mode = "down"
      BY EmptyHanded DEF Exited
    <3> QED
      BY <1>1, <1>4, <2>3, <3>1, HandlerAnswers
  <2> QED
    BY <1>4, <2>1, <2>2, <2>3
<1>5. CASE ResultVerify(w)
  BY <1>3, <1>4, <1>5 DEF ResultVerify, db, ResultPCs
<1>6. CASE ResultOwner(w)
  BY <1>3, <1>4, <1>6 DEF ResultOwner, db, ResultPCs
<1>7. CASE ResultSubmit(w)
  BY <1>3, <1>4, <1>7 DEF ResultSubmit, ResultPCs
<1>8. CASE ResultEffect(w)
  BY <1>4, <1>8 DEF ResultEffect, db
<1> QED
  BY <1>5, <1>6, <1>7, <1>8 DEF ResultStep

(* Abandon changes nothing but who is waited for.                           *)
LEMMA AbandonFacts ==
    ASSUME IInv, NEW h \in Hosts, NEW v \in Workers
    PROVE  /\ Abandon(h)[v].live = (thread[v].live /\ thread[v].host # h)
           /\ Abandon(h)[v].pc = thread[v].pc /\ Abandon(h)[v].host = thread[v].host
           /\ Abandon(h)[v].tasks = thread[v].tasks
           /\ Abandon(h)[v].live => Abandon(h)[v] = thread[v]
<1>1. thread[v] \in Handlers
  BY DEF IInv, TypeOK
<1>2. CASE thread[v].live /\ thread[v].host = h
  BY <1>1, <1>2 DEF Abandon, Handlers
<1>3. CASE ~(thread[v].live /\ thread[v].host = h)
  BY <1>1, <1>3 DEF Abandon, Handlers
<1> QED
  BY <1>2, <1>3

(* The agent drops whatever it waited for: GiveUp and AgentRestart.         *)
LEMMA InvAbandon ==
    ASSUME IInv, NEW h \in Hosts, NEW a,
           agent' = [agent EXCEPT ![h] = a], thread' = Abandon(h),
           UNCHANGED <<status, owner, ran>>,
           a.batch \subseteq agent[h].batch,
           a.batch = {} <=> a.mode \in {"down", "idle", "polling"},
           a.mode \notin {"running", "sending"},
           \A t \in a.batch : ran[t] = 0
    PROVE  (SingleHolder /\ OneWait /\ AtMostOnce)'
<1>1. \A v \in Workers : /\ thread'[v].live = (thread[v].live /\ thread[v].host # h)
                         /\ thread'[v].pc = thread[v].pc
                         /\ thread'[v].host = thread[v].host
                         /\ thread'[v].tasks = thread[v].tasks
                         /\ thread'[v].live => thread'[v] = thread[v]
  BY AbandonFacts
<1>2. SingleHolder'
  <2>1. \A v \in Workers, t \in TaskIds :
           Holds(v, t)' => Holds(v, t) /\ thread'[v].host = thread[v].host
    BY <1>1 DEF Holds
  <2>2. \A t \in a.batch :
           ran[t] = IF a.mode \in {"running", "sending"} /\ t = Least(a.batch)
                    THEN 1 ELSE 0
    OBVIOUS
  <2> QED
    BY <2>1, <2>2, HolderKept
<1>3. OneWait'
  <2>1. \A v \in Workers : thread'[v].live => thread'[v] = thread[v] /\ thread[v].host # h
    BY <1>1
  <2>2. \A v \in Workers : thread'[v].pc \in ResultPCs =>
           thread[v].pc \in ResultPCs /\ thread'[v].tasks = thread[v].tasks
    BY <1>1
  <2> QED
    BY <2>1, <2>2, WaitKept
<1>4. AtMostOnce'
  BY DEF IInv, AtMostOnce
<1> QED
  BY <1>2, <1>3, <1>4

(* Giving up on a request keeps the invariant.                              *)
LEMMA InvGiveUp ==
    ASSUME IInv, NEW h \in Hosts, GiveUp(h)
    PROVE  (SingleHolder /\ OneWait /\ AtMostOnce)'
<1>0. UNCHANGED <<status, owner, ran>> /\ thread' = Abandon(h)
  BY DEF GiveUp, db, hist
<1>1. CASE agent[h].mode = "polling"
  <2> DEFINE a == AgentIn("idle", {})
  <2>1. a.batch = {} /\ a.mode = "idle"
    BY EmptyHanded
  <2>2. agent' = [agent EXCEPT ![h] = a]
    BY <1>1 DEF GiveUp
  <2> HIDE DEF a
  <2> QED
    BY <1>0, <2>1, <2>2, InvAbandon
<1>2. CASE agent[h].mode = "sending"
  <2> DEFINE a == Advanced(h)
  <2>1. /\ a.batch \subseteq agent[h].batch
        /\ a.batch = {} <=> a.mode \in {"down", "idle", "polling"}
        /\ a.mode \notin {"running", "sending"} /\ \A t \in a.batch : ran[t] = 0
    BY <1>2, AdvancedBatch
  <2>2. agent' = [agent EXCEPT ![h] = a]
    BY <1>2 DEF GiveUp
  <2> HIDE DEF a
  <2> QED
    BY <1>0, <2>1, <2>2, InvAbandon
<1> QED
  BY <1>1, <1>2 DEF GiveUp

(* Restarting an agent keeps the invariant.                                 *)
LEMMA InvAgentRestart ==
    ASSUME IInv, NEW h \in Hosts, AgentRestart(h)
    PROVE  (SingleHolder /\ OneWait /\ AtMostOnce)'
<1> DEFINE a == AgentIn("idle", {})
<1>1. a.batch = {} /\ a.mode = "idle"
  BY EmptyHanded
<1>2. /\ agent' = [agent EXCEPT ![h] = a] /\ thread' = Abandon(h)
      /\ UNCHANGED <<status, owner, ran>>
  BY DEF AgentRestart, db, hist
<1> HIDE DEF a
<1> QED
  BY <1>1, <1>2, InvAbandon

(* h's agent is in a mode in which it waits for nobody.                     *)
LEMMA NotWaiting ==
    ASSUME IInv, NEW h \in Hosts, agent[h].mode \notin {"polling", "sending"},
           NEW v \in Workers, thread[v].live
    PROVE  thread[v].host # h
BY DEF IInv, OneWait

(* Enrolling a host again keeps the invariant.                              *)
LEMMA InvEnrollAgain ==
    ASSUME IInv, NEW h \in Hosts, EnrollAgain(h)
    PROVE  (SingleHolder /\ OneWait /\ AtMostOnce)'
<1> DEFINE a == AgentIn("idle", {})
<1>1. a.batch = {} /\ a.mode = "idle"
  BY EmptyHanded
<1>2. agent' = [agent EXCEPT ![h] = a] /\ UNCHANGED <<status, owner, ran, thread>>
  BY DEF EnrollAgain, db, hist
<1> HIDE DEF a
<1>3. SingleHolder'
  <2>1. \A v \in Workers, t \in TaskIds :
           Holds(v, t)' => Holds(v, t) /\ thread'[v].host = thread[v].host
    BY <1>2 DEF Holds
  <2> QED
    BY <1>1, <1>2, <2>1, HolderKept
<1>4. OneWait'
  <2>1. \A v \in Workers : thread'[v].live => thread'[v] = thread[v] /\ thread[v].host # h
    BY <1>2, NotWaiting DEF EnrollAgain
  <2> QED
    BY <1>2, <2>1, WaitKept
<1>5. AtMostOnce'
  BY <1>2 DEF IInv, AtMostOnce
<1> QED
  BY <1>3, <1>4, <1>5

(* Starting a command spends the right to run it.                           *)
LEMMA InvRunTask ==
    ASSUME IInv, NEW h \in Hosts, RunTask(h)
    PROVE  (SingleHolder /\ OneWait /\ AtMostOnce)'
<1> DEFINE c == Current(h)
           a == AgentIn("running", agent[h].batch)
<1>0. agent[h].batch \in SUBSET TaskIds /\ agent[h].batch # {} /\ agent[h].mode = "ready"
  BY DEF IInv, TypeOK, Agents, SingleHolder, RunTask
<1>1. c \in agent[h].batch /\ c \in TaskIds /\ c = Least(agent[h].batch)
  BY <1>0, CurrentInBatch DEF IInv, Current
<1>2. a.batch = agent[h].batch /\ a.mode = "running"
  BY DEF AgentIn
<1>3. /\ agent' = [agent EXCEPT ![h] = a] /\ UNCHANGED <<status, owner, thread>>
      /\ ran' = [ran EXCEPT ![c] = ran[c] + 1]
  BY DEF RunTask, db
<1>4. /\ Claimed(c) /\ owner[c] = h
      /\ \A t \in agent[h].batch : ran[t] = 0
  BY <1>0, <1>1 DEF IInv, SingleHolder, Started
<1> HIDE DEF c, a
<1>5. \A t \in TaskIds : ran'[t] = IF t = c THEN 1 ELSE ran[t]
  BY <1>1, <1>3, <1>4 DEF IInv, TypeOK
<1>6. \A g \in Hosts : agent'[g] = IF g = h THEN a ELSE agent[g]
  BY <1>3 DEF IInv, TypeOK
<1>7. SingleHolder'
  <2>1. ASSUME NEW v \in Workers, NEW t \in TaskIds, Holds(v, t)'
        PROVE  /\ Claimed(t)' /\ owner'[t] = thread'[v].host /\ ran'[t] = 0
               /\ \A u \in Workers : Holds(u, t)' => u = v
               /\ \A g \in Hosts : t \notin agent'[g].batch
    <3>1. /\ \A u \in Workers : Holds(u, t)' = Holds(u, t)
          /\ Claimed(t)' = Claimed(t)
      BY <1>3 DEF Holds, Claimed
    <3>2. t # c
      BY <1>1, <2>1, <3>1 DEF IInv, SingleHolder
    <3> QED
      BY <1>2, <1>3, <1>5, <1>6, <2>1, <3>1, <3>2 DEF IInv, SingleHolder
  <2>2. ASSUME NEW g \in Hosts
        PROVE  /\ agent'[g].batch = {} <=> agent'[g].mode \in {"down", "idle", "polling"}
               /\ \A t \in agent'[g].batch :
                     /\ Claimed(t)' /\ owner'[t] = g
                     /\ ran'[t] = IF t \in Started(g)' THEN 1 ELSE 0
    <3>1. CASE g = h
      <4>1. Started(g)' = {c}
        BY <1>1, <1>2, <1>6, <3>1 DEF Started, Current
      <4> QED
        BY <1>0, <1>2, <1>3, <1>4, <1>5, <1>6, <3>1, <4>1 DEF IInv, SingleHolder, Claimed
    <3>2. CASE g # h
      <4>1. c \notin agent[g].batch
        BY <1>4, <3>2 DEF IInv, SingleHolder
      <4>2. agent[g].batch \in SUBSET TaskIds
        BY DEF IInv, TypeOK, Agents
      <4> QED
        BY <1>3, <1>5, <1>6, <3>2, <4>1, <4>2
           DEF IInv, SingleHolder, Claimed, Started, Current
    <3> QED
      BY <3>1, <3>2
  <2> QED
    BY <2>1, <2>2 DEF SingleHolder
<1>8. OneWait'
  <2>1. \A v \in Workers : thread'[v].live => thread'[v] = thread[v] /\ thread[v].host # h
    BY <1>0, <1>3, NotWaiting
  <2>2. \A t \in TaskIds : ran[t] = 1 => ran'[t] = 1
    BY <1>5
  <2> QED
    BY <1>3, <2>1, <2>2, WaitKept
<1>9. AtMostOnce'
  BY <1>3, <1>4, <1>5 DEF IInv, AtMostOnce, Claimed
<1> QED
  BY <1>7, <1>8, <1>9

(* The end of a command keeps the invariant.                                *)
LEMMA InvCommandEnds ==
    ASSUME IInv, NEW h \in Hosts, CommandEnds(h)
    PROVE  (SingleHolder /\ OneWait /\ AtMostOnce)'
<1> DEFINE a == AgentIn("sending", agent[h].batch)
<1>0. agent[h].mode = "running" /\ agent[h].batch # {}
  BY DEF CommandEnds, IInv, SingleHolder
<1>1. a.batch = agent[h].batch /\ a.mode = "sending"
  BY DEF AgentIn
<1>2. agent' = [agent EXCEPT ![h] = a] /\ UNCHANGED <<status, owner, ran, thread>>
  BY DEF CommandEnds, db, hist
<1> HIDE DEF a
<1>3. SingleHolder'
  <2>1. \A v \in Workers, t \in TaskIds :
           Holds(v, t)' => Holds(v, t) /\ thread'[v].host = thread[v].host
    BY <1>2 DEF Holds
  <2>2. \A t \in a.batch : ran[t] = IF t = Least(a.batch) THEN 1 ELSE 0
    BY <1>0, <1>1 DEF IInv, SingleHolder, Started, Current
  <2> QED
    BY <1>0, <1>1, <1>2, <2>1, <2>2, HolderKept
<1>4. OneWait'
  <2>1. \A v \in Workers : thread'[v].live => thread'[v] = thread[v] /\ thread[v].host # h
    BY <1>0, <1>2, NotWaiting
  <2> QED
    BY <1>2, <2>1, WaitKept
<1>5. AtMostOnce'
  BY <1>2 DEF IInv, AtMostOnce
<1> QED
  BY <1>3, <1>4, <1>5

(* A new poll keeps the invariant.                                          *)
LEMMA InvStartPoll ==
    ASSUME IInv, NEW h \in Hosts, NEW w \in Workers, StartPoll(h, w)
    PROVE  (SingleHolder /\ OneWait /\ AtMostOnce)'
<1> DEFINE a == AgentIn("polling", {})
           hd == [pc |-> "p_verify", host |-> h, tasks |-> {}, want |-> {}, live |-> TRUE]
<1>1. a.batch = {} /\ a.mode = "polling"
  BY EmptyHanded
<1>2. hd.pc = "p_verify" /\ hd.host = h /\ hd.live = TRUE
  OBVIOUS
<1>3. /\ agent' = [agent EXCEPT ![h] = a] /\ thread' = [thread EXCEPT ![w] = hd]
      /\ UNCHANGED <<status, owner, ran>>
  BY DEF StartPoll, Begin, db, hist
<1>4. agent[h].mode = "idle"
  BY DEF StartPoll
<1> HIDE DEF a, hd
<1>5. \A v \in Workers : thread'[v] = IF v = w THEN hd ELSE thread[v]
  BY <1>3 DEF IInv, TypeOK
<1>6. \A g \in Hosts : agent'[g] = IF g = h THEN a ELSE agent[g]
  BY <1>3 DEF IInv, TypeOK
<1>7. SingleHolder'
  <2>1. \A v \in Workers, t \in TaskIds :
           Holds(v, t)' => Holds(v, t) /\ thread'[v].host = thread[v].host
    BY <1>2, <1>5 DEF Holds
  <2> QED
    BY <1>1, <1>3, <2>1, HolderKept
<1>8. OneWait'
  <2>1. \A v \in Workers : thread[v].live => thread[v].host # h
    BY <1>4, NotWaiting
  <2>2. \A v \in Workers : thread[v].host \in Hosts
    BY DEF IInv, TypeOK, Handlers
  <2>3. "p_verify" \in PollPCs /\ "p_verify" \notin ResultPCs
    BY DEF PollPCs, ResultPCs
  <2> QED
    BY <1>1, <1>2, <1>3, <1>5, <1>6, <2>1, <2>2, <2>3 DEF IInv, OneWait
<1>9. AtMostOnce'
  BY <1>3 DEF IInv, AtMostOnce
<1> QED
  BY <1>7, <1>8, <1>9

(* Posting a result keeps the invariant.                                    *)
LEMMA InvPostResult ==
    ASSUME IInv, NEW h \in Hosts, NEW w \in Workers, PostResult(h, w)
    PROVE  (SingleHolder /\ OneWait /\ AtMostOnce)'
<1> DEFINE hd == [pc |-> "r_verify", host |-> h, tasks |-> {Current(h)},
                  want |-> {}, live |-> TRUE]
<1>1. hd.pc = "r_verify" /\ hd.host = h /\ hd.live = TRUE /\ hd.tasks = {Current(h)}
  OBVIOUS
<1>2. thread' = [Abandon(h) EXCEPT ![w] = hd] /\ UNCHANGED <<status, owner, ran, agent>>
  BY DEF PostResult, db, hist
<1>3. agent[h].mode = "sending" /\ agent[h].batch \in SUBSET TaskIds /\ agent[h].batch # {}
  BY DEF PostResult, IInv, SingleHolder, TypeOK, Agents
<1>4. Current(h) \in TaskIds /\ ran[Current(h)] = 1
  BY <1>3, CurrentInBatch DEF IInv, SingleHolder, Started
<1> HIDE DEF hd
<1>5. \A v \in Workers :
         /\ v = w => thread'[v] = hd
         /\ v # w => /\ thread'[v].live = (thread[v].live /\ thread[v].host # h)
                     /\ thread'[v].pc = thread[v].pc /\ thread'[v].host = thread[v].host
                     /\ thread'[v].tasks = thread[v].tasks
  <2>1. Abandon(h) \in [Workers -> Handlers]
    BY AbandonType DEF IInv
  <2>2. \A v \in Workers : thread'[v] = IF v = w THEN hd ELSE Abandon(h)[v]
    BY <1>2, <2>1
  <2> QED
    BY <2>2, AbandonFacts
<1>6. SingleHolder'
  <2>1. \A v \in Workers, t \in TaskIds :
           Holds(v, t)' => Holds(v, t) /\ thread'[v].host = thread[v].host
    BY <1>1, <1>5 DEF Holds
  <2>2. agent' = [agent EXCEPT ![h] = agent[h]]
    BY <1>2 DEF IInv, TypeOK
  <2>3. /\ agent[h].batch = {} <=> agent[h].mode \in {"down", "idle", "polling"}
        /\ \A t \in agent[h].batch :
              ran[t] = IF /\ agent[h].mode \in {"running", "sending"}
                          /\ t = Least(agent[h].batch) THEN 1 ELSE 0
    BY <1>3 DEF IInv, SingleHolder, Started, Current
  <2> QED
    BY <1>2, <2>1, <2>2, <2>3, HolderKept
<1>7. OneWait'
  <2>1. "r_verify" \in ResultPCs
    BY DEF ResultPCs
  <2>2. ASSUME NEW v \in Workers, thread'[v].live
        PROVE  /\ \/ thread'[v].pc \in PollPCs /\ agent'[thread'[v].host].mode = "polling"
                  \/ thread'[v].pc \in ResultPCs /\ agent'[thread'[v].host].mode = "sending"
               /\ \A u \in Workers :
                     thread'[u].live /\ thread'[u].host = thread'[v].host => u = v
    <3>1. CASE v = w
      BY ZenonT(30), <1>1, <1>2, <1>3, <1>5, <2>1, <3>1
    <3>2. CASE v # w
      <4>1. thread[v].live /\ thread[v].host # h
        BY <1>5, <2>2, <3>2
      <4>2. /\ \/ thread[v].pc \in PollPCs /\ agent[thread[v].host].mode = "polling"
               \/ thread[v].pc \in ResultPCs /\ agent[thread[v].host].mode = "sending"
            /\ \A u \in Workers :
                  thread[u].live /\ thread[u].host = thread[v].host => u = v
        BY <4>1 DEF IInv, OneWait
      <4>3. thread'[v].pc = thread[v].pc /\ thread'[v].host = thread[v].host /\ agent' = agent
        BY <1>2, <1>5, <3>2
      <4>4. ASSUME NEW u \in Workers, thread'[u].live, thread'[u].host = thread'[v].host
            PROVE  u = v
        <5>1. u # w
          BY <1>1, <1>5, <4>1, <4>3, <4>4
        <5>2. thread[u].live /\ thread[u].host = thread[v].host
          BY <1>5, <4>3, <4>4, <5>1
        <5> QED
          BY <4>2, <5>2
      <4> QED
        BY <4>2, <4>3, <4>4
    <3> QED
      BY <3>1, <3>2
  <2>3. ASSUME NEW v \in Workers, thread'[v].pc \in ResultPCs
        PROVE  \E t \in TaskIds : thread'[v].tasks = {t} /\ ran'[t] = 1
    BY <1>1, <1>2, <1>4, <1>5, <2>3 DEF IInv, OneWait
  <2> QED
    BY <2>2, <2>3 DEF OneWait
<1>8. AtMostOnce'
  BY <1>2 DEF IInv, AtMostOnce
<1> QED
  BY <1>6, <1>7, <1>8

(* Restarting the backend keeps the invariant.                              *)
LEMMA InvBackendRestart ==
    ASSUME IInv, BackendRestart
    PROVE  (SingleHolder /\ OneWait /\ AtMostOnce)'
<1>1. IdleHandler.pc = "idle" /\ IdleHandler.live = FALSE
  BY DEF IdleHandler
<1>2. \A v \in Workers : thread'[v] = IdleHandler
  BY DEF BackendRestart
<1>3. UNCHANGED <<status, owner, ran, agent>>
  BY DEF BackendRestart, db, hist
<1>4. SingleHolder'
  <2>1. \A v \in Workers, t \in TaskIds : ~Holds(v, t)'
    BY <1>1, <1>2 DEF Holds
  <2> QED
    BY <1>3, <2>1 DEF IInv, SingleHolder, Claimed, Started, Current, TypeOK, Agents
<1>5. OneWait'
  BY <1>1, <1>2 DEF OneWait, ResultPCs
<1>6. AtMostOnce'
  BY <1>3 DEF IInv, AtMostOnce
<1> QED
  BY <1>4, <1>5, <1>6

(* Passing time keeps the invariant.                                        *)
LEMMA InvTick ==
    ASSUME IInv, Tick
    PROVE  (SingleHolder /\ OneWait /\ AtMostOnce)'
<1>1. UNCHANGED <<status, owner, ran, thread>>
  BY DEF Tick, hist
<1>2. \A g \in Hosts : agent'[g].mode = agent[g].mode /\ agent'[g].batch = agent[g].batch
  BY DEF Tick, IInv, TypeOK, Agents
<1>3. SingleHolder'
  BY <1>1, <1>2 DEF IInv, SingleHolder, Holds, Claimed, Started, Current
<1>4. OneWait'
  <2>1. \A v \in Workers : thread[v].host \in Hosts
    BY DEF IInv, TypeOK, Handlers
  <2> QED
    BY <1>1, <1>2, <2>1 DEF IInv, OneWait
<1>5. AtMostOnce'
  BY <1>1 DEF IInv, AtMostOnce
<1> QED
  BY <1>3, <1>4, <1>5

(* Every step preserves the inductive invariant.                            *)
LEMMA InvNext == IInv /\ [Next]_vars => IInv'
<1> SUFFICES ASSUME IInv, [Next]_vars PROVE IInv'
  OBVIOUS
<1>1. TypeOK'
  <2>1. CASE UNCHANGED vars
    BY <2>1 DEF IInv, TypeOK, vars, trust, db, hist
  <2> QED
    BY <2>1, TypeQueue, TypePoll, TypeResult, TypeAgent, TypeEnvironment DEF IInv, Next
<1>2. (SingleHolder /\ OneWait /\ AtMostOnce)'
  <2>1. CASE UNCHANGED vars
    <3>1. UNCHANGED <<status, owner, ran, thread, agent>>
      BY <2>1 DEF vars, db, hist
    <3>2. \A t \in TaskIds : Claimed(t) => Claimed(t)'
      BY <3>1 DEF Claimed
    <3> QED
      BY <3>1, <3>2, CustodyUndisturbed
  <2>2. ASSUME NEW w \in Workers,
               \/ \E h \in Hosts, r \in Requests : QueueRequest(w, h, r)
               \/ QueueStep(w) \/ PollStep(w) \/ ResultStep(w)
        PROVE  (SingleHolder /\ OneWait /\ AtMostOnce)'
    BY <2>2, InvQueue, InvPollReads, InvPollClaim, InvPollTakeBecome, InvPollTakeRoot,
       InvResult DEF PollStep
  <2>3. ASSUME NEW h \in Hosts,
               \/ AgentStep(h)
               \/ \E w \in Workers : StartPoll(h, w) \/ PostResult(h, w)
               \/ EnrollAgain(h) \/ AgentRestart(h)
        PROVE  (SingleHolder /\ OneWait /\ AtMostOnce)'
    BY <2>3, InvRunTask, InvCommandEnds, InvGiveUp, InvStartPoll, InvPostResult,
       InvEnrollAgain, InvAgentRestart DEF AgentStep
  <2> QED
    BY <2>1, <2>2, <2>3, InvEnvironment, InvBackendRestart, InvTick DEF Next
<1> QED
  BY <1>1, <1>2 DEF IInv

(* Type correctness of the command queue.                                   *)
THEOREM TypeCorrect == Spec => []TypeOK
<1>1. IInv => TypeOK
  BY DEF IInv
<1> QED
  BY <1>1, InvInit, InvNext, PTL DEF Spec

(* fetch_pending_tasks' atomic claim and the loop's discipline suffice: a   *)
(* command is started at most once, for any number of hosts, threads,       *)
(* overlapping polls, lost answers and restarts.                            *)
THEOREM NeverRunTwice == Spec => []AtMostOnce
<1>1. IInv => AtMostOnce
  BY DEF IInv
<1> QED
  BY <1>1, InvInit, InvNext, PTL DEF Spec

-----------------------------------------------------------------------------
(* Outcomes.  What each kind of step does to one task row and its results.  *)

RowStep(t) ==
    \/ UNCHANGED <<status[t], results[t], ran[t]>>
    \/ status[t] = "unused" /\ status'[t] = "pending" /\ UNCHANGED <<results[t], ran[t]>>
    \/ status[t] = "pending" /\ status'[t] = "dispatched" /\ UNCHANGED <<results[t], ran[t]>>
    \/ ran[t] = 0 /\ ran'[t] = 1 /\ UNCHANGED <<status[t], results[t]>>
    \/ /\ status[t] = "dispatched" /\ status'[t] = "done" /\ ran[t] = 1 /\ ran'[t] = 1
       /\ results'[t] = Append(results[t], "real")
    \/ /\ status[t] = "dispatched" /\ status'[t] = "timed_out" /\ ran'[t] = ran[t]
       /\ results'[t] = Append(results[t], "synthetic")
    \/ /\ status[t] # "unused" /\ status'[t] = "removed" /\ results'[t] = <<>>
       /\ ran'[t] = ran[t]

(* What any step can do to one task row and its results.                    *)
LEMMA RowSteps ==
    ASSUME IInv, [Next]_vars, OneOutcome, NEW t \in TaskIds
    PROVE  RowStep(t)
<1>1. CASE UNCHANGED <<status, results, ran>>
  BY <1>1 DEF RowStep
<1>2. ASSUME NEW w \in Workers, QueueInsert(w) PROVE RowStep(t)
  <2>1. NextId \in TaskIds /\ status[NextId] = "unused"
    BY <1>2, NextIdIsUnused DEF QueueInsert, Unused
  <2> QED
    BY <1>2, <2>1 DEF QueueInsert, RowStep, IInv, TypeOK, hist
<1>3. ASSUME NEW w \in Workers, PollClaim(w) PROVE RowStep(t)
  BY <1>3 DEF PollClaim, Claimable, RowStep, hist
<1>4. ASSUME NEW h \in Hosts, RunTask(h) PROVE RowStep(t)
  <2>1. agent[h].batch \in SUBSET TaskIds /\ agent[h].batch # {} /\ agent[h].mode = "ready"
    BY <1>4 DEF IInv, TypeOK, Agents, SingleHolder, RunTask
  <2>2. Current(h) \in agent[h].batch
    BY <2>1, CurrentInBatch DEF IInv
  <2>3. ran[Current(h)] = 0
    BY <2>1, <2>2 DEF IInv, SingleHolder, Started
  <2> QED
    BY <1>4, <2>1, <2>2, <2>3 DEF RunTask, RowStep, IInv, TypeOK, db
<1>5. ASSUME NEW w \in Workers, ResultSubmit(w) PROVE RowStep(t)
  <2>1. PICK u \in TaskIds : thread[w].tasks = {u} /\ ran[u] = 1
    BY <1>5 DEF ResultSubmit, ResultPCs, IInv, OneWait
  <2>2. \/ /\ status[u] = "dispatched" /\ status' = [status EXCEPT ![u] = "done"]
           /\ results' = [results EXCEPT ![u] = Append(results[u], "real")]
        \/ UNCHANGED <<status, results>>
    BY <1>5, <2>1 DEF ResultSubmit, Applies
  <2>3. ran' = ran
    BY <1>5 DEF ResultSubmit, hist
  <2> QED
    BY <2>1, <2>2, <2>3 DEF RowStep, IInv, TypeOK
<1>6. CASE ReclaimApply
  <2>1. /\ ran' = ran
        /\ \/ UNCHANGED <<status[t], results[t]>>
           \/ /\ status[t] = "dispatched" /\ status'[t] = "timed_out"
              /\ results'[t] = Append(results[t], "synthetic")
           \/ /\ status[t] # "unused" /\ status'[t] = "removed" /\ results'[t] = <<>>
    BY <1>6 DEF ReclaimApply, Reclaimable, Prunable, Terminal, hist
  <2> QED
    BY <2>1 DEF RowStep
<1>7. ASSUME NEW h \in Hosts, DeleteAgent(h) PROVE RowStep(t)
  <2>1. /\ ran' = ran
        /\ status'[t] = IF owner[t] = h /\ status[t] # "unused" THEN "removed" ELSE status[t]
        /\ results'[t] = IF owner[t] = h THEN <<>> ELSE results[t]
    BY <1>7 DEF DeleteAgent, hist
  <2>2. status[t] = "unused" => results[t] = <<>>
    BY DEF OneOutcome, Terminal
  <2> QED
    BY <2>1, <2>2 DEF RowStep
<1>8. \/ UNCHANGED <<status, results, ran>>
      \/ \E w \in Workers : QueueInsert(w) \/ PollClaim(w) \/ ResultSubmit(w)
      \/ \E h \in Hosts : RunTask(h) \/ DeleteAgent(h)
      \/ ReclaimApply
  BY ZenonT(30) DEF Next, vars, db, hist, QueueStep, PollStep, ResultStep, AgentStep, Reclaim,
     QueueRequest, QueueExists, QueueStoreBecome, QueueStoreRoot, QueueLog,
     PollVerify, PollQuarantine, PollTakeBecome, PollTakeRoot, ResultVerify,
     ResultOwner, ResultEffect, CommandEnds, GiveUp, StartPoll, PostResult,
     EnrollAgain, RevokeAgent, RestoreAgent, Quarantine, Resume, AgentRestart,
     ReclaimSelect, KeyOutage, KeyBack, BackendRestart, Tick
<1> QED
  BY <1>1, <1>2, <1>3, <1>4, <1>5, <1>6, <1>7, <1>8

(* Every step preserves the single outcome.                                 *)
LEMMA OutcomeNext == IInv /\ OneOutcome /\ [Next]_vars => OneOutcome'
<1> SUFFICES ASSUME IInv, OneOutcome, [Next]_vars, NEW t \in TaskIds
             PROVE  /\ status'[t] = "done" => results'[t] = <<"real">> /\ ran'[t] = 1
                    /\ status'[t] = "timed_out" => results'[t] = <<"synthetic">>
                    /\ status'[t] \notin Terminal => results'[t] = <<>>
  BY DEF OneOutcome
<1>1. RowStep(t)
  BY RowSteps
<1>2. /\ status[t] = "done" => results[t] = <<"real">> /\ ran[t] = 1
      /\ status[t] = "timed_out" => results[t] = <<"synthetic">>
      /\ status[t] \notin Terminal => results[t] = <<>>
  BY DEF OneOutcome
<1>3. Append(<<>>, "real") = <<"real">> /\ Append(<<>>, "synthetic") = <<"synthetic">>
  OBVIOUS
<1> QED
  BY <1>1, <1>2, <1>3 DEF RowStep, Terminal

(* There are no outcomes initially.                                         *)
LEMMA OutcomeInit == Init => OneOutcome
BY DEF Init, OneOutcome, Terminal

(* The result handler and the reclaim loop race for every dispatched task:  *)
(* one of them closes it and exactly one result row says how.               *)
THEOREM ExactlyOneOutcome == Spec => []OneOutcome
BY InvInit, InvNext, OutcomeInit, OutcomeNext, PTL DEF Spec

(* An outcome, once recorded, is never replaced.                            *)
THEOREM OutcomesAreFinal == Spec => OutcomeIsFinal
<1>1. IInv /\ OneOutcome /\ [Next]_vars =>
         [\A t \in TaskIds : status[t] \in Terminal =>
            \/ status'[t] = status[t] /\ results'[t] = results[t]
            \/ status'[t] = "removed"]_vars
  <2> SUFFICES ASSUME IInv, OneOutcome, [Next]_vars, NEW t \in TaskIds,
                      status[t] \in Terminal
               PROVE  \/ status'[t] = status[t] /\ results'[t] = results[t]
                      \/ status'[t] = "removed"
    OBVIOUS
  <2>1. RowStep(t)
    BY RowSteps
  <2> QED
    BY <2>1 DEF RowStep, Terminal
<1> QED
  BY <1>1, InvInit, InvNext, OutcomeInit, OutcomeNext, PTL DEF Spec, OutcomeIsFinal

-----------------------------------------------------------------------------
(* The refinement.  A step maps to a step of the life or to none.           *)

(* A table with one value for some of its rows.                             *)
LEMMA MovedTable ==
    ASSUME NEW V, NEW f \in [TaskIds -> V], NEW S, NEW x,
           \A t \in S \cap TaskIds : f[t] = x
    PROVE  f = [t \in TaskIds |-> IF t \in S THEN x ELSE f[t]]
  OBVIOUS

(* The tables of a well-typed state, and what can be read of an open task.  *)
LEMMA Tables ==
    ASSUME IInv, OneOutcome
    PROVE  /\ status \in [TaskIds -> {"unused", "pending", "dispatched", "removed"} \cup Terminal]
           /\ results \in [TaskIds -> Seq({"real", "synthetic"})]
           /\ ran \in [TaskIds -> Nat]
           /\ \A t \in TaskIds : status[t] \notin Terminal => results[t] = <<>>
  BY DEF IInv, TypeOK, OneOutcome

LEMMA LifeQueue ==
    ASSUME IInv, OneOutcome, NEW w \in Workers, QueueInsert(w)
    PROVE  Life!LifeNext
<1> DEFINE n == NextId
<1>1. n \in TaskIds /\ status[n] = "unused"
  BY NextIdIsUnused DEF QueueInsert, Unused
<1>2. status' = [t \in TaskIds |-> IF t \in {n} THEN "pending" ELSE status[t]]
  BY Tables DEF QueueInsert
<1>3. results' = [t \in TaskIds |-> IF t \in {n} THEN <<>> ELSE results[t]]
  BY <1>1, Tables DEF QueueInsert, Terminal
<1>4. ran' = ran
  BY DEF QueueInsert, hist
<1> HIDE DEF n
<1>5. Life!Queue(n)
  BY <1>1, <1>2, <1>3, <1>4 DEF Life!Queue, Life!In, Life!Move
<1> QED
  BY <1>1, <1>5 DEF Life!LifeNext

LEMMA LifeHandOut ==
    ASSUME IInv, OneOutcome, NEW w \in Workers, PollClaim(w)
    PROVE  Life!LifeNext
<1> DEFINE S == Claimable(thread[w].host)
<1>1. S \in SUBSET TaskIds /\ S \subseteq Life!In({"pending"})
  BY DEF Claimable, Life!In
<1>2. status' = [t \in TaskIds |-> IF t \in S THEN "dispatched" ELSE status[t]]
  BY DEF PollClaim
<1>3. \A t \in S : results[t] = <<>>
  BY Tables DEF Claimable, Terminal
<1>4. results' = results /\ ran' = ran
  BY DEF PollClaim, hist
<1> HIDE DEF S
<1>5. results' = [t \in TaskIds |-> IF t \in S THEN <<>> ELSE results[t]]
  BY <1>3, <1>4, Tables
<1>6. Life!HandOut(S)
  BY <1>1, <1>2, <1>4, <1>5 DEF Life!HandOut, Life!Move
<1> QED
  BY <1>1, <1>6 DEF Life!LifeNext

LEMMA LifeStart ==
    ASSUME IInv, NEW h \in Hosts, RunTask(h)
    PROVE  Life!LifeNext
<1> DEFINE c == Current(h)
<1>1. agent[h].mode = "ready" /\ agent[h].batch # {}
  BY DEF RunTask, IInv, SingleHolder
<1>2. c \in agent[h].batch /\ agent[h].batch \in SUBSET TaskIds
  BY <1>1, CurrentInBatch DEF IInv, TypeOK, Agents
<1>3. c \in TaskIds /\ ran[c] = 0 /\ status[c] \notin {"unused", "pending"}
  BY <1>1, <1>2 DEF IInv, SingleHolder, Started, Claimed
<1>4. ran' = [ran EXCEPT ![c] = 1] /\ status' = status /\ results' = results
  BY <1>3 DEF RunTask, db
<1> HIDE DEF c
<1>5. Life!Start(c)
  BY <1>3, <1>4 DEF Life!Start, Life!In
<1> QED
  BY <1>3, <1>5 DEF Life!LifeNext

LEMMA LifeReport ==
    ASSUME IInv, OneOutcome, NEW w \in Workers, ResultSubmit(w)
    PROVE  Life!LifeNext \/ UNCHANGED <<status, ran, results>>
<1>1. PICK u \in TaskIds : thread[w].tasks = {u} /\ ran[u] = 1
  BY DEF ResultSubmit, ResultPCs, IInv, OneWait
<1>2. ran' = ran
  BY DEF ResultSubmit, hist
<1>3. CASE ~Applies(u)
  BY <1>1, <1>2, <1>3 DEF ResultSubmit
<1>4. CASE Applies(u)
  <2>1. /\ status[u] = "dispatched" /\ status' = [status EXCEPT ![u] = "done"]
        /\ results' = [results EXCEPT ![u] = Append(results[u], "real")]
    BY <1>1, <1>4 DEF ResultSubmit, Applies
  <2>2. Append(results[u], "real") = <<"real">>
    <3>1. results[u] = <<>>
      BY <2>1, Tables DEF Terminal
    <3> QED
      BY <3>1
  <2>3. status' = [t \in TaskIds |-> IF t \in {u} THEN "done" ELSE status[t]]
    BY <2>1, Tables
  <2>4. results' = [t \in TaskIds |-> IF t \in {u} THEN <<"real">> ELSE results[t]]
    BY <2>1, <2>2, Tables
  <2>5. Life!Report(u)
    BY <1>1, <1>2, <2>1, <2>3, <2>4 DEF Life!Report, Life!In, Life!Move
  <2> QED
    BY <2>5 DEF Life!LifeNext
<1> QED
  BY <1>3, <1>4

LEMMA LifeExpire ==
    ASSUME IInv, OneOutcome, ReclaimApply
    PROVE  Life!LifeNext
<1> DEFINE S == {t \in TaskIds : Reclaimable(t)}
           now(t) == IF Reclaimable(t) THEN "timed_out" ELSE status[t]
           old == {t \in TaskIds : Prunable(t, now(t))}
<1>1. S \in SUBSET TaskIds /\ S \subseteq Life!In({"dispatched"})
  BY DEF Reclaimable, Life!In
<1>2. old \in SUBSET TaskIds /\ old \subseteq S \cup Life!In({"done", "timed_out"})
  BY DEF Prunable, Terminal, Life!In
<1>3. status' = [t \in TaskIds |-> IF t \in old THEN "removed"
                                   ELSE IF t \in S THEN "timed_out" ELSE status[t]]
  BY DEF ReclaimApply
<1>4. \A t \in S : Append(results[t], "synthetic") = <<"synthetic">>
  <2>1. \A t \in S : results[t] = <<>>
    BY Tables DEF Reclaimable, Terminal
  <2>2. Append(<<>>, "synthetic") = <<"synthetic">>
    OBVIOUS
  <2> QED
    BY <2>1, <2>2, Zenon
<1>5. results' = [t \in TaskIds |-> IF t \in old THEN <<>>
                                    ELSE IF t \in S THEN <<"synthetic">> ELSE results[t]]
  BY <1>4 DEF ReclaimApply
<1>6. ran' = ran
  BY DEF ReclaimApply, hist
<1> HIDE DEF S, old
<1>7. Life!Expire(S, old)
  BY <1>1, <1>2, <1>3, <1>5, <1>6 DEF Life!Expire
<1> QED
  BY <1>1, <1>2, <1>7 DEF Life!LifeNext

LEMMA LifeForget ==
    ASSUME IInv, OneOutcome, NEW h \in Hosts, DeleteAgent(h)
    PROVE  Life!LifeNext
<1> DEFINE S == {t \in TaskIds : owner[t] = h /\ status[t] # "unused"}
<1>1. S \in SUBSET TaskIds /\ S \cap Life!In({"unused"}) = {}
  BY DEF Life!In
<1>2. status' = [t \in TaskIds |-> IF t \in S THEN "removed" ELSE status[t]]
  BY DEF DeleteAgent
<1>3. \A t \in TaskIds : status[t] = "unused" => results[t] = <<>>
  BY Tables DEF Terminal
<1>4. results' = [t \in TaskIds |-> IF t \in S THEN <<>> ELSE results[t]]
  BY <1>3 DEF DeleteAgent
<1>5. ran' = ran
  BY DEF DeleteAgent, hist
<1> HIDE DEF S
<1>6. Life!Forget(S)
  BY <1>1, <1>2, <1>4, <1>5 DEF Life!Forget, Life!Move
<1> QED
  BY <1>1, <1>6 DEF Life!LifeNext

(* The steps that are steps of the life; all others are none.               *)
LEMMA LifeSteps ==
    [Next]_vars =>
      \/ UNCHANGED <<status, ran, results>>
      \/ \E w \in Workers : QueueInsert(w) \/ PollClaim(w) \/ ResultSubmit(w)
      \/ \E h \in Hosts : RunTask(h) \/ DeleteAgent(h)
      \/ ReclaimApply
  BY DEF Next, vars, db, hist, QueueStep, PollStep, ResultStep, AgentStep, Reclaim,
     QueueRequest, QueueExists, QueueStoreBecome, QueueStoreRoot, QueueLog,
     PollVerify, PollQuarantine, PollTakeBecome, PollTakeRoot, ResultVerify,
     ResultOwner, ResultEffect, CommandEnds, GiveUp, StartPoll, PostResult,
     EnrollAgain, RevokeAgent, RestoreAgent, Quarantine, Resume, AgentRestart,
     ReclaimSelect, KeyOutage, KeyBack, BackendRestart, Tick

(* The queue implements the life of a task: handed out once, started once   *)
(* and only when handed out, closed once and truthfully, whatever polls     *)
(* overlap, answers get lost and processes restart.                         *)
THEOREM ImplementsLife == Spec => KeepsLifecycle
<1>1. Init => Life!LifeInit
  BY DEF Init, Life!LifeInit
<1>2. IInv /\ OneOutcome /\ [Next]_vars => [Life!LifeNext]_(Life!lifeVars)
  <2> SUFFICES ASSUME IInv, OneOutcome, [Next]_vars,
                      ~UNCHANGED <<status, ran, results>>
               PROVE  Life!LifeNext
    BY DEF Life!lifeVars
  <2> QED
    BY LifeSteps, LifeQueue, LifeHandOut, LifeStart, LifeReport, LifeExpire, LifeForget
<1> QED
  BY <1>1, <1>2, InvInit, InvNext, OutcomeInit, OutcomeNext, PTL
  DEF Spec, KeepsLifecycle, Life!LifeSpec

-----------------------------------------------------------------------------
(* What goes with a command.  A queueing handler that has inserted the row  *)
(* still has the items to store and the activity row to write; a result     *)
(* handler whose result was applied still has the effect before it.         *)
Storing == {"q_become", "q_root", "q_log"}

(* An item that was neither stored nor handed out.                          *)
Fresh(i, t) == i \notin attached[t] /\ ram[i][t] = NotHeld

(* What a handler still owes a task of its.                                 *)
Owes(w, t) ==
    /\ thread[w].pc \in Storing => status[t] # "unused" /\ req[t] = thread[w].want
    /\ thread[w].pc = "q_become" => Fresh("password", t)
    /\ thread[w].pc \in {"q_become", "q_root"} => Fresh("root", t)
    /\ thread[w].pc = "r_effect" => status[t] \in {"done", "removed"} /\ effects[t] = 0
Owing == \A w \in Workers : \A t \in thread[w].tasks : Owes(w, t)

(* No two handlers owe a task the same.                                     *)
Alone ==
    \A v, w \in Workers : \A t \in thread[v].tasks \cap thread[w].tasks :
       \/ v = w
       \/ ~(thread[v].pc \in Storing /\ thread[w].pc \in Storing)
          /\ ~(thread[v].pc = "r_effect" /\ thread[w].pc = "r_effect")

(* Where effects and attachments can have come from.                        *)
Paid == \A t \in TaskIds :
          /\ effects[t] # 0 => status[t] \in {"done", "removed"}
          /\ attached[t] # {} => status[t] # "unused"

Asked == Owing /\ Alone /\ Paid /\ EffectOnce /\ HandedOutOnce /\ RefusedIsQueued

(* Rows settle: what a step can never take back.                            *)
LEMMA RowsSettle ==
    ASSUME IInv, OneOutcome, [Next]_vars, NEW t \in TaskIds
    PROVE  /\ status[t] # "unused" => status'[t] # "unused" /\ req'[t] = req[t]
           /\ status[t] \in {"done", "removed"} => status'[t] \in {"done", "removed"}
           /\ ran[t] = 1 => ran'[t] = 1
<1>1. RowStep(t)
  BY RowSteps
<1>2. status[t] # "unused" => req'[t] = req[t]
  <2>1. CASE req' = req
    BY <2>1
  <2>2. ASSUME NEW w \in Workers, QueueInsert(w) PROVE status[t] # "unused" => req'[t] = req[t]
    BY <2>2, NextIdIsUnused DEF QueueInsert, Unused, IInv, TypeOK
  <2>3. req' = req \/ \E w \in Workers : QueueInsert(w)
    BY DEF Next, vars, db, hist, QueueStep, PollStep, ResultStep, AgentStep, Reclaim,
       QueueRequest, QueueExists, QueueStoreBecome, QueueStoreRoot, QueueLog,
       PollVerify, PollQuarantine, PollClaim, PollTakeBecome, PollTakeRoot, ResultVerify,
       ResultOwner, ResultSubmit, ResultEffect, RunTask, CommandEnds, GiveUp, StartPoll, PostResult,
       DeleteAgent, EnrollAgain, RevokeAgent, RestoreAgent, Quarantine, Resume, AgentRestart,
       ReclaimSelect, ReclaimApply, KeyOutage, KeyBack, BackendRestart, Tick
  <2> QED
    BY <2>1, <2>2, <2>3
<1>3. ran[t] \in Nat /\ ran[t] <= 1
  BY DEF IInv, TypeOK, AtMostOnce
<1> QED
  BY <1>1, <1>2, <1>3 DEF RowStep

(* The handler has no new duty: it stays where it is, or has none any more. *)
SameDuty(w) ==
    \/ /\ thread'[w].pc = thread[w].pc /\ thread'[w].tasks = thread[w].tasks
       /\ thread'[w].want = thread[w].want
    \/ thread'[w].pc \notin Storing \cup {"r_effect"}

(* Nothing is stored, handed out or caused anew, and nobody refused whose   *)
(* command is not queued.                                                   *)
StillGoods ==
    /\ UNCHANGED <<attached, effects>>
    /\ \A i \in Items : \A t \in TaskIds : ram[i][t] = NotHeld => ram'[i][t] = NotHeld
    /\ \A t \in refused' : t \in refused \/ (status[t] # "unused" /\ "log" \in req[t])

(* What a handler that is not concerned owes a task is what it owed before. *)
LEMMA OwesStill ==
    ASSUME IInv, OneOutcome, Asked, [Next]_vars, NEW w \in Workers, NEW t \in TaskIds,
           t \in thread'[w].tasks, SameDuty(w),
           thread[w].pc = "r_effect" => effects'[t] = effects[t],
           thread[w].pc \in Storing => \A i \in Items : Fresh(i, t) => Fresh(i, t)'
    PROVE  Owes(w, t)'
<1>1. CASE thread'[w].pc \notin Storing \cup {"r_effect"}
  BY <1>1 DEF Owes, Storing
<1>2. CASE /\ thread'[w].pc = thread[w].pc /\ thread'[w].tasks = thread[w].tasks
           /\ thread'[w].want = thread[w].want /\ thread[w].pc \in Storing \cup {"r_effect"}
  <2>1. Owes(w, t)
    BY <1>2 DEF Asked, Owing
  <2> QED
    BY <1>2, <2>1, RowsSettle DEF Owes, Items, Storing
<1> QED
  BY <1>1, <1>2 DEF SameDuty

(* Handlers without new duties stay alone with those they have.             *)
LEMMA AloneStill ==
    ASSUME Asked,
           \A w \in Workers :
              /\ thread'[w].pc \in Storing =>
                    thread[w].pc \in Storing /\ thread'[w].tasks = thread[w].tasks
              /\ thread'[w].pc = "r_effect" =>
                    thread[w].pc = "r_effect" /\ thread'[w].tasks = thread[w].tasks
    PROVE  Alone'
  BY DEF Asked, Alone

(* Rows that move on take nothing of what was promised with them.           *)
LEMMA GoodsStill ==
    ASSUME IInv, IInv', OneOutcome, Asked, [Next]_vars, StillGoods
    PROVE  Paid' /\ EffectOnce' /\ HandedOutOnce' /\ RefusedIsQueued'
<1>1. Paid'
  BY RowsSettle DEF Asked, Paid, StillGoods
<1>2. EffectOnce'
  <2> SUFFICES ASSUME NEW t \in TaskIds
               PROVE  effects'[t] <= 1 /\ (effects'[t] = 1 => "ssh" \in req'[t] /\ ran'[t] = 1)
    BY DEF EffectOnce
  <2>1. effects'[t] = effects[t]
    BY DEF StillGoods
  <2>2. effects[t] <= 1 /\ (effects[t] = 1 => "ssh" \in req[t] /\ ran[t] = 1)
    BY DEF Asked, EffectOnce
  <2>3. effects[t] = 1 => status[t] # "unused"
    BY DEF Asked, Paid
  <2> QED
    BY <2>1, <2>2, <2>3, RowsSettle
<1>3. HandedOutOnce'
  <2> SUFFICES ASSUME NEW t \in TaskIds, NEW i \in Items
               PROVE  /\ i \in attached'[t] => i \in req'[t] /\ ram'[i][t] = NotHeld
                      /\ ram'[i][t] # NotHeld => i \in req'[t] /\ status'[t] # "unused"
    BY DEF HandedOutOnce
  <2>1. /\ i \in attached[t] => i \in req[t] /\ ram[i][t] = NotHeld
        /\ ram[i][t] # NotHeld => i \in req[t] /\ status[t] # "unused"
    BY DEF Asked, HandedOutOnce
  <2>2. i \in attached[t] => status[t] # "unused"
    BY DEF Asked, Paid
  <2>3. attached'[t] = attached[t] /\ (ram[i][t] = NotHeld => ram'[i][t] = NotHeld)
    BY DEF StillGoods
  <2> QED
    BY <2>1, <2>2, <2>3, RowsSettle
<1>4. RefusedIsQueued'
  <2>1. \A t \in refused' : t \in TaskIds /\ status[t] # "unused" /\ "log" \in req[t]
    BY DEF Asked, RefusedIsQueued, StillGoods, IInv, TypeOK
  <2> QED
    BY <2>1, RowsSettle DEF RefusedIsQueued
<1> QED
  BY <1>1, <1>2, <1>3, <1>4

(* A step that moves rows and handlers only.                                *)
LEMMA AskedStill ==
    ASSUME IInv, IInv', OneOutcome, Asked, [Next]_vars, StillGoods, \A w \in Workers : SameDuty(w)
    PROVE  Asked'
<1>1. \A w \in Workers : thread'[w].tasks \subseteq TaskIds
  BY DEF IInv, TypeOK, Handlers
<1>2. Owing'
  <2> SUFFICES ASSUME NEW w \in Workers, NEW t \in TaskIds, t \in thread'[w].tasks
               PROVE  Owes(w, t)'
    BY <1>1 DEF Owing
  <2>1. \A i \in Items : Fresh(i, t) => Fresh(i, t)'
    BY DEF Fresh, StillGoods
  <2> QED
    BY <2>1, OwesStill DEF StillGoods
<1>3. Alone'
  BY AloneStill DEF SameDuty, Storing
<1> QED
  BY <1>2, <1>3, GoodsStill DEF Asked

(* Nothing but the handler moved on: nobody else has a new duty.            *)
LEMMA OthersSame ==
    ASSUME IInv, NEW w \in Workers, NEW x, thread' = [thread EXCEPT ![w] = x]
    PROVE  /\ thread'[w] = x
           /\ \A v \in Workers : v # w => thread'[v] = thread[v] /\ SameDuty(v)
  BY DEF IInv, TypeOK, SameDuty

(* A queueing handler before its row is written, and at its end; a poll     *)
(* before it takes the items; a result before it is submitted.              *)
LEMMA AskedReads ==
    ASSUME IInv, IInv', OneOutcome, Asked, [Next]_vars, NEW w \in Workers,
           \/ \E h \in Hosts, r \in Requests : QueueRequest(w, h, r)
           \/ QueueExists(w) \/ QueueLog(w)
           \/ PollVerify(w) \/ PollQuarantine(w) \/ PollClaim(w)
           \/ ResultVerify(w) \/ ResultOwner(w)
           \/ \E h \in Hosts : StartPoll(h, w)
    PROVE  Asked'
<1>1. \E x : thread' = [thread EXCEPT ![w] = x] /\ x.pc \notin Storing \cup {"r_effect"}
  <2>1. \A pc \in {"q_insert", "p_quarantine", "p_claim", "r_owner", "r_submit"} :
          [thread[w] EXCEPT !.pc = pc].pc = pc
    BY DEF IInv, TypeOK, Handlers
  <2>2. IdleHandler.pc = "idle"
    BY DEF IdleHandler
  <2>3. CASE Finish(w)
    BY <2>2, <2>3 DEF Finish, Storing
  <2>4. CASE \E pc \in {"q_insert", "p_quarantine", "p_claim", "r_owner", "r_submit"} : Goto(w, pc)
    BY <2>1, <2>4 DEF Goto, Storing
  <2>5. CASE \E h \in Hosts, r \in Requests : QueueRequest(w, h, r)
    BY <2>5 DEF QueueRequest, Begin, Storing
  <2>6. CASE \E h \in Hosts : StartPoll(h, w)
    BY <2>6 DEF StartPoll, Begin, Storing
  <2>7. CASE PollClaim(w)
    <3> DEFINE x == [thread[w] EXCEPT !.pc = "p_become", !.tasks = Claimable(thread[w].host)]
    <3>1. x.pc = "p_become"
      BY DEF IInv, TypeOK, Handlers
    <3>2. thread' = [thread EXCEPT ![w] = x]
      BY <2>7 DEF PollClaim, GotoWith
    <3> QED
      BY <3>1, <3>2 DEF Storing
  <2> QED
    BY <2>3, <2>4, <2>5, <2>6, <2>7
    DEF QueueExists, QueueLog, PollVerify, PollQuarantine, ResultVerify, ResultOwner
<1>2. \A v \in Workers : SameDuty(v)
  BY <1>1, OthersSame DEF SameDuty
<1>3. StillGoods
  <2>1. CASE QueueLog(w)
    <3>1. \A t \in thread[w].tasks : status[t] # "unused" /\ req[t] = thread[w].want
      BY <2>1 DEF QueueLog, Asked, Owing, Owes, Storing
    <3> QED
      BY <2>1, <3>1 DEF QueueLog, StillGoods
  <2>2. CASE ~QueueLog(w)
    BY <2>2 DEF StillGoods, QueueRequest, QueueExists, PollVerify, PollQuarantine, PollClaim,
       ResultVerify, ResultOwner, StartPoll, hist
  <2> QED
    BY <2>1, <2>2
<1> QED
  BY <1>2, <1>3, AskedStill

(* The agents, the reclaim loop, the disturbances and time.                 *)
LEMMA AskedElsewhere ==
    ASSUME IInv, IInv', OneOutcome, Asked, [Next]_vars,
           \/ UNCHANGED vars
           \/ \E h \in Hosts :
                 \/ AgentStep(h) \/ DeleteAgent(h) \/ EnrollAgain(h) \/ RevokeAgent(h)
                 \/ RestoreAgent(h) \/ Quarantine(h) \/ Resume(h) \/ AgentRestart(h)
                 \/ \E w \in Workers : PostResult(h, w)
           \/ Reclaim \/ KeyOutage \/ KeyBack \/ BackendRestart \/ Tick
    PROVE  Asked'
<1>1. StillGoods
  <2>1. attached' = attached /\ effects' = effects /\ refused' = refused
    BY DEF vars, hist, AgentStep, RunTask, CommandEnds, GiveUp, DeleteAgent, EnrollAgain,
       RevokeAgent, RestoreAgent, Quarantine, Resume, AgentRestart, PostResult, Reclaim,
       ReclaimSelect, ReclaimApply, KeyOutage, KeyBack, BackendRestart, Tick
  <2>2. \/ ram' = ram
        \/ ram' = [i \in Items |-> [t \in TaskIds |-> NotHeld]]
        \/ ram' = [i \in Items |-> [t \in TaskIds |->
                    IF ram[i][t] = NotHeld THEN NotHeld ELSE Older(ram[i][t], BecomeTTL + 1)]]
    BY DEF vars, AgentStep, RunTask, CommandEnds, GiveUp, DeleteAgent, EnrollAgain,
       RevokeAgent, RestoreAgent, Quarantine, Resume, AgentRestart, PostResult, Reclaim,
       ReclaimSelect, ReclaimApply, KeyOutage, KeyBack, BackendRestart, Tick
  <2> QED
    BY <2>1, <2>2 DEF StillGoods
<1>2. \A v \in Workers : SameDuty(v)
  <2>1. ASSUME NEW h \in Hosts PROVE \A v \in Workers : /\ Abandon(h)[v].pc = thread[v].pc
                                                        /\ Abandon(h)[v].tasks = thread[v].tasks
                                                        /\ Abandon(h)[v].want = thread[v].want
    BY DEF Abandon, IInv, TypeOK, Handlers
  <2>2. CASE \E h \in Hosts : GiveUp(h) \/ AgentRestart(h)
    BY <2>1, <2>2 DEF GiveUp, AgentRestart, SameDuty
  <2>3. ASSUME NEW h \in Hosts, NEW w \in Workers, PostResult(h, w)
        PROVE  \A v \in Workers : SameDuty(v)
    <3> DEFINE x == [pc |-> "r_verify", host |-> h, tasks |-> {Current(h)}, want |-> {},
                     live |-> TRUE]
    <3>1. thread' = [Abandon(h) EXCEPT ![w] = x] /\ x.pc = "r_verify"
      BY <2>3 DEF PostResult
    <3> HIDE DEF x
    <3>2. \A v \in Workers : thread'[v] = IF v = w THEN x ELSE Abandon(h)[v]
      BY <3>1 DEF Abandon
    <3> QED
      BY <2>1, <3>1, <3>2 DEF SameDuty, Storing
  <2>4. CASE BackendRestart
    BY <2>4 DEF BackendRestart, IdleHandler, SameDuty, Storing
  <2>5. \/ thread' = thread \/ BackendRestart
        \/ \E h \in Hosts : GiveUp(h) \/ AgentRestart(h) \/ \E w \in Workers : PostResult(h, w)
    BY DEF vars, AgentStep, RunTask, CommandEnds, DeleteAgent, EnrollAgain,
       RevokeAgent, RestoreAgent, Quarantine, Resume, Reclaim,
       ReclaimSelect, ReclaimApply, KeyOutage, KeyBack, Tick
  <2>6. CASE thread' = thread
    BY <2>6 DEF SameDuty
  <2> QED
    BY <2>2, <2>3, <2>4, <2>5, <2>6
<1> QED
  BY <1>1, <1>2, AskedStill

(* queue_agent_task commits the row: from here on its items are owed.       *)
LEMMA AskedInsert ==
    ASSUME IInv, IInv', OneOutcome, Asked, [Next]_vars, NEW w \in Workers, QueueInsert(w)
    PROVE  Asked'
<1> DEFINE n == NextId
           x == [thread[w] EXCEPT !.pc = "q_become", !.tasks = {n}]
<1>1. n \in TaskIds /\ status[n] = "unused"
  BY NextIdIsUnused DEF QueueInsert, Unused
<1>2. thread' = [thread EXCEPT ![w] = x]
  BY DEF QueueInsert, GotoWith
<1>3. x.pc = "q_become" /\ x.tasks = {n} /\ x.want = thread[w].want
  BY DEF IInv, TypeOK, Handlers
<1>4. /\ thread'[w] = x
      /\ \A v \in Workers : v # w => thread'[v] = thread[v] /\ SameDuty(v)
  BY <1>2, OthersSame
<1>5. /\ status'[n] = "pending" /\ req'[n] = thread[w].want /\ ram' = ram
      /\ attached' = attached /\ effects' = effects /\ refused' = refused
  BY <1>1 DEF QueueInsert, IInv, TypeOK, hist
<1>6. \A i \in Items : Fresh(i, n)
  BY <1>1 DEF Asked, HandedOutOnce, Paid, Fresh
<1> HIDE DEF n, x
<1>7. Owing'
  <2>1. \A t \in thread'[w].tasks : Owes(w, t)'
    BY <1>3, <1>4, <1>5, <1>6 DEF Owes, Fresh, Items
  <2>2. ASSUME NEW v \in Workers, v # w, NEW t \in thread'[v].tasks PROVE Owes(v, t)'
    <3>1. t \in TaskIds
      BY DEF IInv, TypeOK, Handlers
    <3> QED
      BY <1>4, <1>5, <2>2, <3>1, OwesStill DEF Fresh
  <2> QED
    BY <2>1, <2>2 DEF Owing
<1>8. Alone'
  <2>1. \A v \in Workers : v # w /\ thread[v].pc \in Storing => n \notin thread[v].tasks
    BY <1>1 DEF Asked, Owing, Owes
  <2> QED
    BY <1>3, <1>4, <2>1 DEF Asked, Alone, Storing
<1>9. StillGoods
  BY <1>5 DEF StillGoods
<1> QED
  BY <1>7, <1>8, <1>9, GoodsStill DEF Asked

(* _store_become and _store_want_root: an item is stored once, for a task   *)
(* that asked for it.                                                       *)
LEMMA AskedStore ==
    ASSUME IInv, IInv', OneOutcome, Asked, [Next]_vars, NEW w \in Workers,
           QueueStoreBecome(w) \/ QueueStoreRoot(w)
    PROVE  Asked'
<1> DEFINE item == IF QueueStoreBecome(w) THEN "password" ELSE "root"
           next == IF QueueStoreBecome(w) THEN "q_root" ELSE "q_log"
           x == [thread[w] EXCEPT !.pc = next]
<1>1. /\ item \in Items /\ Store(w, item) /\ thread' = [thread EXCEPT ![w] = x]
      /\ \/ thread[w].pc = "q_become" /\ item = "password" /\ next = "q_root"
         \/ thread[w].pc = "q_root" /\ item = "root" /\ next = "q_log"
  BY DEF QueueStoreBecome, QueueStoreRoot, Goto, Items
<1>2. x.pc = next /\ x.tasks = thread[w].tasks /\ x.want = thread[w].want
  BY DEF IInv, TypeOK, Handlers
<1>3. /\ status' = status /\ req' = req
      /\ attached' = attached /\ effects' = effects /\ refused' = refused
  BY DEF QueueStoreBecome, QueueStoreRoot, hist, db
<1> HIDE DEF item, next, x
<1>4. /\ thread'[w] = x
      /\ \A v \in Workers : v # w => thread'[v] = thread[v] /\ SameDuty(v)
  BY <1>1, OthersSame
<1>5. \A t \in TaskIds : \A i \in Items :
        \/ ram[i][t] = NotHeld => ram'[i][t] = NotHeld
        \/ t \in thread[w].tasks /\ i = item /\ i \in thread[w].want
  BY <1>1, BoundsAssumption DEF Store, Sweep, IInv, TypeOK, NotHeld
<1>6. \A v \in Workers : v # w /\ thread[v].pc \in Storing
         => thread[v].tasks \cap thread[w].tasks = {}
  BY <1>1 DEF Asked, Alone, Storing
<1>7. Owing'
  <2>1. ASSUME NEW t \in thread'[w].tasks PROVE Owes(w, t)'
    <3>1. t \in TaskIds /\ t \in thread[w].tasks
      BY <1>2, <1>4 DEF IInv, TypeOK, Handlers
    <3>2. Owes(w, t)
      BY <3>1 DEF Asked, Owing
    <3> QED
      BY <1>1, <1>2, <1>3, <1>4, <1>5, <3>1, <3>2 DEF Owes, Fresh, Storing, Items
  <2>2. ASSUME NEW v \in Workers, v # w, NEW t \in thread'[v].tasks PROVE Owes(v, t)'
    <3>1. t \in TaskIds /\ t \in thread[v].tasks
      BY <1>4, <2>2 DEF IInv, TypeOK, Handlers
    <3>2. thread[v].pc \in Storing => \A i \in Items : Fresh(i, t) => Fresh(i, t)'
      BY <1>3, <1>5, <1>6, <2>2, <3>1 DEF Fresh
    <3> QED
      BY <1>3, <1>4, <2>2, <3>1, <3>2, OwesStill
  <2> QED
    BY <2>1, <2>2 DEF Owing
<1>8. Alone'
  <2>1. thread[w].pc \in Storing /\ next \in Storing
    BY <1>1 DEF Storing
  <2>2. \A v \in Workers :
              /\ thread'[v].pc \in Storing =>
                    thread[v].pc \in Storing /\ thread'[v].tasks = thread[v].tasks
              /\ thread'[v].pc = "r_effect" =>
                    thread[v].pc = "r_effect" /\ thread'[v].tasks = thread[v].tasks
    BY <1>2, <1>4, <2>1 DEF Storing
  <2> QED
    BY <2>2, AloneStill
<1>9. HandedOutOnce'
  <2> SUFFICES ASSUME NEW t \in TaskIds, NEW i \in Items
               PROVE  /\ i \in attached[t] => i \in req[t] /\ ram'[i][t] = NotHeld
                      /\ ram'[i][t] # NotHeld => i \in req[t] /\ status[t] # "unused"
    BY <1>3 DEF HandedOutOnce
  <2>1. /\ i \in attached[t] => i \in req[t] /\ ram[i][t] = NotHeld
        /\ ram[i][t] # NotHeld => i \in req[t] /\ status[t] # "unused"
    BY DEF Asked, HandedOutOnce
  <2>2. CASE t \in thread[w].tasks /\ i = item /\ i \in thread[w].want
    <3>1. Owes(w, t)
      BY <2>2 DEF Asked, Owing
    <3>2. i \notin attached[t] /\ status[t] # "unused" /\ req[t] = thread[w].want
      BY <1>1, <2>2, <3>1 DEF Owes, Fresh, Storing
    <3> QED
      BY <2>2, <3>2
  <2>3. CASE ~(t \in thread[w].tasks /\ i = item /\ i \in thread[w].want)
    BY <1>5, <2>1, <2>3
  <2> QED
    BY <2>2, <2>3
<1>10. Paid' /\ EffectOnce' /\ RefusedIsQueued'
  <2>1. ran' = ran
    BY DEF QueueStoreBecome, QueueStoreRoot, hist
  <2> QED
    BY <1>3, <2>1 DEF Asked, Paid, EffectOnce, RefusedIsQueued
<1> QED
  BY <1>7, <1>8, <1>9, <1>10 DEF Asked

(* _take_become and _take_want_root: what goes out leaves the store.        *)
LEMMA AskedTake ==
    ASSUME IInv, IInv', OneOutcome, Asked, [Next]_vars, NEW w \in Workers,
           PollTakeBecome(w) \/ PollTakeRoot(w)
    PROVE  Asked'
<1>1. PICK item \in Items : Take(w, item)
  BY DEF PollTakeBecome, PollTakeRoot, Items
<1>2. /\ status' = status /\ req' = req /\ effects' = effects /\ refused' = refused
      /\ ran' = ran
  BY DEF PollTakeBecome, PollTakeRoot, db
<1>3. \A t \in TaskIds : \A i \in Items :
        \/ /\ i \in attached'[t] <=> i \in attached[t]
           /\ ram'[i][t] = ram[i][t]
        \/ /\ i \in attached'[t] => i \in attached[t] \/ ram[i][t] # NotHeld
           /\ ram'[i][t] = NotHeld
  BY <1>1 DEF Take, IInv, TypeOK
<1>4. \A t \in TaskIds : attached'[t] \subseteq Items
  BY DEF IInv, TypeOK
<1>5. \A v \in Workers : SameDuty(v)
  <2>1. [thread[w] EXCEPT !.pc = "p_root"].pc = "p_root" /\ IdleHandler.pc = "idle"
    BY DEF IInv, TypeOK, Handlers, IdleHandler
  <2>2. \E x : thread' = [thread EXCEPT ![w] = x] /\ x.pc \notin Storing \cup {"r_effect"}
    BY <2>1 DEF PollTakeBecome, PollTakeRoot, Goto, Finish, Storing
  <2> QED
    BY <2>2, OthersSame DEF SameDuty
<1>6. \A t \in TaskIds : \A i \in Items :
        /\ i \in attached[t] => i \in req[t] /\ ram[i][t] = NotHeld
        /\ ram[i][t] # NotHeld => i \in req[t] /\ status[t] # "unused"
  BY DEF Asked, HandedOutOnce
<1>7. Owing'
  <2> SUFFICES ASSUME NEW v \in Workers, NEW t \in thread'[v].tasks PROVE Owes(v, t)'
    BY DEF Owing
  <2>1. t \in TaskIds
    BY DEF IInv, TypeOK, Handlers
  <2>2. \A i \in Items : Fresh(i, t) => Fresh(i, t)'
    BY <1>3, <2>1 DEF Fresh
  <2> QED
    BY <1>2, <1>5, <2>1, <2>2, OwesStill
<1>8. Alone'
  BY <1>5, AloneStill DEF SameDuty, Storing
<1>9. HandedOutOnce'
  BY <1>2, <1>3, <1>6 DEF HandedOutOnce
<1>10. Paid' /\ EffectOnce' /\ RefusedIsQueued'
  <2>1. \A t \in TaskIds : attached'[t] # {} => status[t] # "unused"
    <3> SUFFICES ASSUME NEW t \in TaskIds, NEW i \in attached'[t] PROVE status[t] # "unused"
      OBVIOUS
    <3>1. i \in Items /\ (i \in attached[t] \/ ram[i][t] # NotHeld)
      BY <1>3, <1>4
    <3> QED
      BY <1>6, <3>1 DEF Asked, Paid
  <2> QED
    BY <1>2, <2>1 DEF Asked, Paid, EffectOnce, RefusedIsQueued
<1> QED
  BY <1>7, <1>8, <1>9, <1>10 DEF Asked

(* submit_task_result: only the handler whose result was applied goes on.   *)
LEMMA AskedSubmit ==
    ASSUME IInv, IInv', OneOutcome, Asked, [Next]_vars, NEW w \in Workers, ResultSubmit(w)
    PROVE  Asked'
<1>1. PICK u \in TaskIds : thread[w].tasks = {u}
  BY DEF ResultSubmit, ResultPCs, IInv, OneWait
<1>2. StillGoods
  BY DEF ResultSubmit, StillGoods, hist
<1>3. CASE ~Applies(u)
  <2>1. thread' = [thread EXCEPT ![w] = IdleHandler]
    BY <1>1, <1>3 DEF ResultSubmit, Finish
  <2>2. \A v \in Workers : SameDuty(v)
    BY <2>1, OthersSame DEF SameDuty, IdleHandler, Storing
  <2> QED
    BY <1>2, <2>2, AskedStill
<1>4. CASE Applies(u)
  <2> DEFINE x == [thread[w] EXCEPT !.pc = "r_effect"]
  <2>1. /\ status[u] = "dispatched" /\ status'[u] = "done"
        /\ thread' = [thread EXCEPT ![w] = x]
    BY <1>1, <1>4 DEF ResultSubmit, Applies, Goto, IInv, TypeOK
  <2>2. x.pc = "r_effect" /\ x.tasks = {u}
    BY <1>1 DEF IInv, TypeOK, Handlers
  <2> HIDE DEF x
  <2>3. /\ thread'[w] = x
        /\ \A v \in Workers : v # w => thread'[v] = thread[v] /\ SameDuty(v)
    BY <2>1, OthersSame
  <2>4. effects'[u] = 0
    BY <1>2, <2>1 DEF StillGoods, Asked, Paid
  <2>5. Owing'
    <3>1. ASSUME NEW t \in thread'[w].tasks PROVE Owes(w, t)'
      BY <2>1, <2>2, <2>3, <2>4 DEF Owes, Storing
    <3>2. ASSUME NEW v \in Workers, v # w, NEW t \in thread'[v].tasks PROVE Owes(v, t)'
      <4>1. t \in TaskIds
        BY DEF IInv, TypeOK, Handlers
      <4> QED
        BY <1>2, <2>3, <3>2, <4>1, OwesStill DEF StillGoods, Fresh
    <3> QED
      BY <3>1, <3>2 DEF Owing
  <2>6. Alone'
    <3>1. \A v \in Workers : thread[v].pc = "r_effect" => u \notin thread[v].tasks
      BY <2>1 DEF Asked, Owing, Owes
    <3> QED
      BY <2>2, <2>3, <3>1 DEF Asked, Alone, Storing
  <2> QED
    BY <1>2, <2>5, <2>6, GoodsStill DEF Asked
<1> QED
  BY <1>3, <1>4

(* _consume_ssh_enable_result, by the one handler that owes it.             *)
LEMMA AskedEffect ==
    ASSUME IInv, IInv', OneOutcome, Asked, [Next]_vars, NEW w \in Workers, ResultEffect(w)
    PROVE  Asked'
<1>1. PICK u \in TaskIds : thread[w].tasks = {u} /\ ran[u] = 1
  BY DEF ResultEffect, ResultPCs, IInv, OneWait
<1>2. thread[w].pc = "r_effect" /\ status[u] \in {"done", "removed"} /\ effects[u] = 0
  BY <1>1 DEF ResultEffect, Asked, Owing, Owes
<1>3. /\ status' = status /\ req' = req /\ ram' = ram /\ ran' = ran
      /\ attached' = attached /\ refused' = refused
      /\ thread' = [thread EXCEPT ![w] = IdleHandler]
  BY DEF ResultEffect, db, Finish
<1>4. /\ \A t \in TaskIds : t # u => effects'[t] = effects[t]
      /\ effects'[u] = 0 \/ (effects'[u] = 1 /\ "ssh" \in req[u])
  BY <1>1, <1>2 DEF ResultEffect
<1>5. \A v \in Workers : SameDuty(v)
  BY <1>3, OthersSame DEF SameDuty, IdleHandler, Storing
<1>6. /\ thread'[w] = IdleHandler
      /\ \A v \in Workers : v # w => thread'[v] = thread[v]
  BY <1>3, OthersSame
<1>7. Owing'
  <2> SUFFICES ASSUME NEW v \in Workers, NEW t \in thread'[v].tasks PROVE Owes(v, t)'
    BY DEF Owing
  <2>1. t \in TaskIds
    BY DEF IInv, TypeOK, Handlers
  <2>2. v # w
    BY <1>6 DEF IdleHandler
  <2>3. thread[v].pc = "r_effect" => effects'[t] = effects[t]
    BY <1>1, <1>2, <1>4, <1>6, <2>1, <2>2 DEF Asked, Alone
  <2> QED
    BY <1>3, <1>5, <2>1, <2>3, OwesStill DEF Fresh
<1>8. Alone'
  BY <1>5, AloneStill DEF SameDuty, Storing
<1>9. EffectOnce'
  BY <1>1, <1>3, <1>4 DEF Asked, EffectOnce
<1>10. Paid' /\ HandedOutOnce' /\ RefusedIsQueued'
  BY <1>2, <1>3, <1>4 DEF Asked, Paid, HandedOutOnce, RefusedIsQueued
<1> QED
  BY <1>7, <1>8, <1>9, <1>10 DEF Asked

LEMMA AskedNext == IInv /\ IInv' /\ OneOutcome /\ Asked /\ [Next]_vars => Asked'
  BY AskedReads, AskedElsewhere, AskedInsert, AskedStore, AskedTake, AskedSubmit, AskedEffect
  DEF Next, QueueStep, PollStep, ResultStep

LEMMA AskedInit == Init => Asked
<1> SUFFICES ASSUME Init PROVE Asked
  OBVIOUS
<1>1. \A w \in Workers : thread[w].tasks = {} /\ thread[w].pc = "idle"
  BY DEF Init, IdleHandler
<1>2. Owing /\ Alone
  BY <1>1 DEF Owing, Alone
<1>3. Paid /\ EffectOnce /\ HandedOutOnce /\ RefusedIsQueued
  BY DEF Init, Paid, EffectOnce, HandedOutOnce, RefusedIsQueued
<1> QED
  BY <1>2, <1>3 DEF Asked

(* What a request asked for is done once, to its own task: the RAM-held     *)
(* items go out once and only where they were asked for, the effect of an   *)
(* applied result happens once, a task has one holder and its agent one     *)
(* wait, and a caller who was refused has left its command in the queue.    *)
THEOREM DoneOnce == Spec => []AskedIsDoneOnce
<1>1. IInv /\ Asked => AskedIsDoneOnce
  BY DEF IInv, Asked, AskedIsDoneOnce
<1>2. Init => IInv /\ OneOutcome /\ Asked
  BY InvInit, OutcomeInit, AskedInit
<1>3. IInv /\ OneOutcome /\ Asked /\ [Next]_vars => (IInv /\ OneOutcome /\ Asked)'
  BY InvNext, OutcomeNext, AskedNext
<1> QED
  BY <1>1, <1>2, <1>3, PTL DEF Spec
=============================================================================
