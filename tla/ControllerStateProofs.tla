------------------------ MODULE ControllerStateProofs ------------------------
(***************************************************************************)
(* Theorems about what the controller keeps on its disk: the audit chain,   *)
(* for every number of writers and rows, every retention window, and both   *)
(* settings of SYSIBLE_AUDIT_REQUIRED; the master key, for every source of  *)
(* it and every number of scopes; its backups, for every number of writes,  *)
(* restores and faults; its certificate, for every number of identities and *)
(* of requests that regenerate it; the download portal, for every number of *)
(* credentials, processes and ports; and the relay, for every number of     *)
(* bastions and of save requests.                                           *)
(***************************************************************************)
EXTENDS MCControllerState, WellFoundedInduction, FiniteSetTheorems, TLAPS

-----------------------------------------------------------------------------
(* The audit chain.                                                         *)

(* Only the holder of the lock is between its query and its trim, so what   *)
(* it has read as the tail still is the tail when it inserts.               *)
Serialized ==
    /\ \A w \in Workers : thread[w].pc \in LockedPCs => lock = w
    /\ \A w \in Workers : thread[w].pc = "l_insert" => thread[w].prev = lastId
    /\ \A w \in Workers : thread[w].pc \in {"l_trim", "l_bump"} => thread[w].id \in 1..lastId

(* Every row was chained to the one with the id before it, and in a strict  *)
(* deployment with a key.                                                   *)
Chained ==
    /\ \A j \in 1..lastId : rows[j].prev = j - 1
    /\ \A j \in 1..lastId : j \notin edited => rows[j].intact
    /\ \A j \in edited : ~rows[j].intact
    /\ strict => \A j \in 1..lastId : rows[j].keyed
    /\ strict => \A w \in Workers : thread[w].pc \in {"l_lock", "l_read", "l_insert"} =>
                                       thread[w].keyed

(* The table is what was inserted but for a trimmed beginning and the rows  *)
(* that were lost; its last row is the last one inserted.                   *)
TableTail ==
    /\ kept \subseteq 1..lastId /\ edited \subseteq 1..lastId /\ lost \subseteq 1..lastId
    /\ lost \cap kept = {}
    /\ lastId > 0 => lastId \in kept
    /\ \A i \in kept : \A d \in 1..lastId : i < d => d \in kept \cup lost
    /\ head <= lastId

IInv == TypeOK /\ Serialized /\ Chained /\ TableTail /\ RecentRowsKept

PCs == {"idle"} \cup WritePCs \cup VerifyPCs

(* Changing some fields of a handler's record leaves it a handler's record. *)
LEMMA HandlerFields ==
    ASSUME NEW r \in Handlers
    PROVE  /\ \A p \in PCs : [r EXCEPT !.pc = p] \in Handlers
           /\ \A p \in PCs, n \in Hashes : [r EXCEPT !.pc = p, !.prev = n] \in Handlers
           /\ \A p \in PCs, n \in Hashes : [r EXCEPT !.pc = p, !.id = n] \in Handlers
<1>1. ASSUME NEW p \in PCs PROVE [r EXCEPT !.pc = p] \in Handlers
  BY <1>1 DEF Handlers, PCs
<1>2. ASSUME NEW q \in Handlers, NEW n \in Hashes
      PROVE  [q EXCEPT !.prev = n] \in Handlers /\ [q EXCEPT !.id = n] \in Handlers
  BY <1>2 DEF Handlers
<1>3. ASSUME NEW p \in PCs, NEW n \in Hashes
      PROVE  /\ [r EXCEPT !.pc = p, !.prev = n] = [[r EXCEPT !.pc = p] EXCEPT !.prev = n]
             /\ [r EXCEPT !.pc = p, !.id = n] = [[r EXCEPT !.pc = p] EXCEPT !.id = n]
  OBVIOUS
<1>4. ASSUME NEW p \in PCs, NEW n \in Hashes
      PROVE  /\ [r EXCEPT !.pc = p, !.prev = n] \in Handlers
             /\ [r EXCEPT !.pc = p, !.id = n] \in Handlers
  <2> DEFINE q == [r EXCEPT !.pc = p]
  <2>1. q \in Handlers
    BY <1>1
  <2>2. /\ [r EXCEPT !.pc = p, !.prev = n] = [q EXCEPT !.prev = n]
        /\ [r EXCEPT !.pc = p, !.id = n] = [q EXCEPT !.id = n]
    BY <1>3
  <2> HIDE DEF q
  <2> QED
    BY <1>2, <2>1, <2>2
<1> QED
  BY <1>1, <1>4

(* A handler that goes to its next step keeps its type.                     *)
LEMMA GotoType ==
    ASSUME TypeOK, NEW w \in Workers, NEW p \in PCs, Goto(w, p)
    PROVE  thread' \in [Workers -> Handlers]
<1>1. thread[w] \in Handlers
  BY DEF TypeOK
<1>2. thread' = [thread EXCEPT ![w] = [thread[w] EXCEPT !.pc = p]]
  BY DEF Goto
<1> QED
  BY <1>1, <1>2, HandlerFields DEF TypeOK

(* An idle handler is well typed.                                           *)
LEMMA IdleType == IdleHandler \in Handlers
BY AuditAssumption DEF IdleHandler, Handlers, Hashes

(* A handler about to write is well typed.                                  *)
LEMMA LogType ==
    ASSUME NEW k \in BOOLEAN
    PROVE  [pc |-> "l_lock", keyed |-> k, prev |-> 0, id |-> 0, sound |-> FALSE] \in Handlers
BY AuditAssumption DEF Handlers, Hashes, WritePCs

(* The initial state satisfies the inductive invariant.                     *)
LEMMA InvInit == Init => IInv
<1> SUFFICES ASSUME Init PROVE IInv
  OBVIOUS
<1> USE AuditAssumption
<1>1. TypeOK
  <2>1. rows \in [Ids -> Rows]
    BY DEF Init, Rows, Hashes
  <2>2. thread \in [Workers -> Handlers]
    BY IdleType DEF Init
  <2> QED
    BY <2>1, <2>2 DEF Init, TypeOK, Hashes
<1>2. Serialized
  BY DEF Init, Serialized, IdleHandler, LockedPCs
<1>3. Chained /\ TableTail /\ RecentRowsKept
  BY DEF Init, Chained, TableTail, RecentRowsKept, IdleHandler
<1> QED
  BY <1>1, <1>2, <1>3 DEF IInv

(* Every step preserves the types.                                          *)
LEMMA TypeNext == TypeOK /\ [Next]_vars => TypeOK'
<1> SUFFICES ASSUME TypeOK, [Next]_vars PROVE TypeOK'
  OBVIOUS
<1> USE AuditAssumption DEF TypeOK
<1>0. CASE UNCHANGED vars
  BY <1>0 DEF vars
<1>1. ASSUME NEW w \in Workers, Log(w) PROVE TypeOK'
  BY <1>1, LogType DEF Log
<1>2. ASSUME NEW w \in Workers, LogLock(w) PROVE TypeOK'
  BY <1>2, GotoType DEF LogLock, Acquire, PCs, WritePCs
<1>3. ASSUME NEW w \in Workers, LogRead(w) PROVE TypeOK'
  <2>1. thread[w] \in Handlers
    OBVIOUS
  <2>2. ASSUME NEW i \in Hashes
        PROVE  [thread[w] EXCEPT !.pc = "l_insert", !.prev = i] \in Handlers
    BY <2>1, HandlerFields DEF PCs, WritePCs
  <2> QED
    BY <1>3, <2>2 DEF LogRead
<1>4. ASSUME NEW w \in Workers, LogInsert(w) PROVE TypeOK'
  <2>1. lastId + 1 \in Ids /\ lastId + 1 \in Hashes
    BY <1>4 DEF LogInsert, Ids, Hashes
  <2>2. [prev |-> thread[w].prev, keyed |-> thread[w].keyed, intact |-> TRUE] \in Rows
    BY DEF Handlers, Rows
  <2>3. thread' \in [Workers -> Handlers]
    <3>1. thread[w] \in Handlers
      OBVIOUS
    <3>2. [thread[w] EXCEPT !.pc = "l_trim", !.id = lastId + 1] \in Handlers
      BY <2>1, <3>1, HandlerFields DEF PCs, WritePCs
    <3> QED
      BY <1>4, <3>2 DEF LogInsert
  <2> QED
    BY <1>4, <2>1, <2>2, <2>3 DEF LogInsert
<1>5. ASSUME NEW w \in Workers, LogTrim(w) PROVE TypeOK'
  BY <1>5, GotoType DEF LogTrim, PCs, WritePCs
<1>6. ASSUME NEW w \in Workers, LogBump(w) PROVE TypeOK'
  BY <1>6, IdleType DEF LogBump, Bumped, Finish, Handlers
<1>7. ASSUME NEW w \in Workers, LogBumpFails(w) PROVE TypeOK'
  BY <1>7, IdleType DEF LogBumpFails, Fault, Finish
<1>8. ASSUME NEW w \in Workers, VerifyRead(w) PROVE TypeOK'
  <2>1. PICK i \in Hashes : thread' = [thread EXCEPT ![w] =
                [pc |-> "v_key", keyed |-> \E j \in kept : rows[j].keyed, prev |-> 0,
                 id |-> i, sound |-> Walk(kept)]]
    BY <1>8 DEF VerifyRead
  <2>2. (\E j \in kept : rows[j].keyed) \in BOOLEAN /\ Walk(kept) \in BOOLEAN
    BY Zenon DEF Walk
  <2>3. thread' \in [Workers -> Handlers]
    BY <2>1, <2>2 DEF Handlers, VerifyPCs, Hashes
  <2> QED
    BY <1>8, <2>3 DEF VerifyRead
<1>9. ASSUME NEW w \in Workers, VerifyKey(w) PROVE TypeOK'
  <2>1. Goto(w, "v_head") => thread' \in [Workers -> Handlers]
    BY GotoType DEF PCs, VerifyPCs
  <2>2. Finish(w) => thread' \in [Workers -> Handlers]
    BY IdleType DEF Finish
  <2> QED
    BY <1>9, <2>1, <2>2 DEF VerifyKey
<1>10. ASSUME NEW w \in Workers, VerifyHead(w) PROVE TypeOK'
  BY <1>10, IdleType DEF VerifyHead, Finish
<1>11. ASSUME NEW b \in BOOLEAN, KeyChanges(b) PROVE TypeOK'
  BY <1>11 DEF KeyChanges
<1>12. ASSUME NEW i \in Ids, EditRow(i) PROVE TypeOK'
  <2>1. [rows[i] EXCEPT !.intact = FALSE] \in Rows
    BY DEF Rows
  <2>2. rows' = [rows EXCEPT ![i] = [rows[i] EXCEPT !.intact = FALSE]]
    BY <1>12 DEF EditRow
  <2> QED
    BY <1>12, <2>1, <2>2 DEF EditRow, Fault
<1>13. ASSUME NEW i \in Ids, LoseRow(i) PROVE TypeOK'
  BY <1>13 DEF LoseRow, Fault
<1>14. CASE BackendRestart
  BY <1>14, IdleType DEF BackendRestart, Fault
<1> QED
  BY <1>0, <1>1, <1>2, <1>3, <1>4, <1>5, <1>6, <1>7, <1>8, <1>9, <1>10, <1>11,
     <1>12, <1>13, <1>14 DEF Next

(* Between its query and its trim a writer is alone, so the tail it chains  *)
(* its row to is the tail.                                                  *)
LEMMA SerializedNext == IInv /\ [Next]_vars => Serialized'
<1> SUFFICES ASSUME IInv, [Next]_vars PROVE Serialized'
  OBVIOUS
<1> USE AuditAssumption DEF IInv, TypeOK, Serialized, LockedPCs
<1>0. CASE UNCHANGED vars
  BY <1>0 DEF vars
<1>1. ASSUME NEW w \in Workers, Log(w) PROVE Serialized'
  BY <1>1 DEF Log
<1>2. ASSUME NEW w \in Workers, LogLock(w) PROVE Serialized'
  BY <1>2 DEF LogLock, Acquire, Goto, Handlers
<1>3. ASSUME NEW w \in Workers, LogRead(w) PROVE Serialized'
  <2>1. \A i \in Hashes : IsTail(i, kept) => i = lastId
    BY DEF TableTail, IsTail, Hashes, Ids
  <2> QED
    BY <1>3, <2>1 DEF LogRead, Handlers
<1>4. ASSUME NEW w \in Workers, LogInsert(w) PROVE Serialized'
  BY <1>4 DEF LogInsert, Handlers, Hashes
<1>5. ASSUME NEW w \in Workers, LogTrim(w) PROVE Serialized'
  BY <1>5 DEF LogTrim, Goto, Handlers
<1>6. ASSUME NEW w \in Workers, LogBump(w) \/ LogBumpFails(w) PROVE Serialized'
  BY <1>6 DEF LogBump, LogBumpFails, Finish, IdleHandler
<1>8. ASSUME NEW w \in Workers, VerifyRead(w) PROVE Serialized'
  BY <1>8 DEF VerifyRead
<1>9. ASSUME NEW w \in Workers, VerifyKey(w) \/ VerifyHead(w) PROVE Serialized'
  BY <1>9 DEF VerifyKey, VerifyHead, Goto, Finish, IdleHandler, Handlers
<1>10. ASSUME NEW b \in BOOLEAN, KeyChanges(b) PROVE Serialized'
  BY <1>10 DEF KeyChanges
<1>11. ASSUME NEW i \in Ids, EditRow(i) \/ LoseRow(i) PROVE Serialized'
  BY <1>11 DEF EditRow, LoseRow
<1>12. CASE BackendRestart
  BY <1>12 DEF BackendRestart, IdleHandler
<1> QED
  BY <1>0, <1>1, <1>2, <1>3, <1>4, <1>5, <1>6, <1>8, <1>9, <1>10, <1>11, <1>12 DEF Next

(* Every row is chained to the one before it, with a key if need be.        *)
LEMMA ChainedNext == IInv /\ [Next]_vars => Chained'
<1> SUFFICES ASSUME IInv, [Next]_vars PROVE Chained'
  OBVIOUS
<1> USE AuditAssumption DEF IInv, TypeOK, Chained
<1>0. CASE UNCHANGED vars
  BY <1>0 DEF vars
<1>1. ASSUME NEW w \in Workers, Log(w) PROVE Chained'
  BY <1>1 DEF Log
<1>2. ASSUME NEW w \in Workers, LogLock(w) PROVE Chained'
  BY <1>2 DEF LogLock, Goto, Handlers
<1>3. ASSUME NEW w \in Workers, LogRead(w) PROVE Chained'
  BY <1>3 DEF LogRead, Handlers
<1>4. ASSUME NEW w \in Workers, LogInsert(w) PROVE Chained'
  <2>1. lastId \in Nat /\ lastId + 1 \in Ids /\ lastId + 1 \notin edited
    BY <1>4 DEF LogInsert, TableTail, Ids, Hashes
  <2>2. \A j \in 1..(lastId + 1) : j \in Ids /\ (j \in 1..lastId \/ j = lastId + 1)
    BY <2>1 DEF Ids, Hashes
  <2>3. \A j \in 1..lastId : rows'[j] = rows[j]
    BY <1>4, <2>1 DEF LogInsert, Ids, Hashes
  <2>4. /\ rows'[lastId + 1].prev = lastId
        /\ rows'[lastId + 1].keyed = thread[w].keyed
        /\ rows'[lastId + 1].intact
    BY <1>4, <2>1 DEF LogInsert, Serialized
  <2>5. lastId' = lastId + 1 /\ edited' = edited /\ strict' = strict
    BY <1>4 DEF LogInsert
  <2>6. \A j \in edited : ~rows'[j].intact
    BY <2>3 DEF TableTail
  <2>7. strict => /\ thread[w].keyed
                  /\ \A v \in Workers : thread'[v].pc \in {"l_lock", "l_read", "l_insert"} =>
                                             thread'[v].keyed
    BY <1>4 DEF LogInsert, Handlers
  <2> QED
    BY <2>1, <2>2, <2>3, <2>4, <2>5, <2>6, <2>7
<1>5. ASSUME NEW w \in Workers, LogTrim(w) PROVE Chained'
  BY <1>5 DEF LogTrim, Goto, Handlers
<1>6. ASSUME NEW w \in Workers, LogBump(w) \/ LogBumpFails(w) PROVE Chained'
  BY <1>6 DEF LogBump, LogBumpFails, Finish, IdleHandler
<1>8. ASSUME NEW w \in Workers, VerifyRead(w) PROVE Chained'
  BY <1>8 DEF VerifyRead
<1>9. ASSUME NEW w \in Workers, VerifyKey(w) \/ VerifyHead(w) PROVE Chained'
  BY <1>9 DEF VerifyKey, VerifyHead, Goto, Finish, IdleHandler, Handlers
<1>10. ASSUME NEW b \in BOOLEAN, KeyChanges(b) PROVE Chained'
  BY <1>10 DEF KeyChanges
<1>11. ASSUME NEW i \in Ids, LoseRow(i) PROVE Chained'
  BY <1>11 DEF LoseRow
<1>12. ASSUME NEW i \in Ids, EditRow(i) PROVE Chained'
  <2>1. \A j \in Ids : /\ rows'[j].prev = rows[j].prev /\ rows'[j].keyed = rows[j].keyed
                       /\ rows'[j].intact = IF j = i THEN FALSE ELSE rows[j].intact
    BY <1>12 DEF EditRow, Rows
  <2> QED
    BY <1>12, <2>1 DEF EditRow, Ids, Hashes
<1>13. CASE BackendRestart
  BY <1>13 DEF BackendRestart, IdleHandler
<1> QED
  BY <1>0, <1>1, <1>2, <1>3, <1>4, <1>5, <1>6, <1>8, <1>9, <1>10, <1>11, <1>12, <1>13
     DEF Next

(* Trimming takes rows from the beginning only, and never the last one.     *)
LEMMA TailNext == IInv /\ [Next]_vars => TableTail' /\ RecentRowsKept'
<1> SUFFICES ASSUME IInv, [Next]_vars PROVE TableTail' /\ RecentRowsKept'
  OBVIOUS
<1> USE AuditAssumption DEF IInv, TypeOK, TableTail, RecentRowsKept
<1>0. CASE UNCHANGED <<kept, lastId, head, edited, lost>>
  BY <1>0
<1>1. ASSUME NEW w \in Workers, LogInsert(w) PROVE TableTail' /\ RecentRowsKept'
  <2>1. lastId \in Nat /\ head \in Nat /\ lastId' = lastId + 1 /\ kept' = kept \cup {lastId + 1}
    BY <1>1 DEF LogInsert, Hashes
  <2>2. UNCHANGED <<head, edited, lost>>
    BY <1>1 DEF LogInsert
  <2>3. lost \subseteq 1..lastId
    OBVIOUS
  <2> QED
    BY <2>1, <2>2, <2>3
<1>2. ASSUME NEW w \in Workers, LogTrim(w) PROVE TableTail' /\ RecentRowsKept'
  <2>1. thread[w].id \in 1..lastId /\ lastId \in Nat
    BY <1>2 DEF LogTrim, Serialized, Hashes
  <2>2. kept' = {i \in kept : MaxRows > 0 => i > thread[w].id - MaxRows}
    BY <1>2 DEF LogTrim, InWindow
  <2>3. UNCHANGED <<lastId, head, edited, lost>>
    BY <1>2 DEF LogTrim
  <2>4. \A i \in 1..lastId : (MaxRows > 0 => lastId < i + MaxRows) =>
                              (MaxRows > 0 => i > thread[w].id - MaxRows)
    BY <2>1
  <2>5. RecentRowsKept'
    BY <2>2, <2>3, <2>4
  <2>6. lastId > 0 => lastId \in kept'
    BY <2>1, <2>2
  <2>7. \A i \in kept' : \A d \in 1..lastId : i < d => d \in kept' \cup lost
    BY <2>1, <2>2
  <2> QED
    BY <2>2, <2>3, <2>5, <2>6, <2>7
<1>3. ASSUME NEW w \in Workers, LogBump(w) PROVE TableTail' /\ RecentRowsKept'
  BY <1>3 DEF LogBump, Bumped, Serialized
<1>4. ASSUME NEW i \in Ids, LoseRow(i) PROVE TableTail' /\ RecentRowsKept'
  BY <1>4 DEF LoseRow, Ids, Hashes
<1>5. ASSUME NEW i \in Ids, EditRow(i) PROVE TableTail' /\ RecentRowsKept'
  BY <1>5 DEF EditRow
<1> QED
  BY <1>0, <1>1, <1>2, <1>3, <1>4, <1>5 DEF Next, vars, Log, LogLock, LogRead, LogBumpFails,
     VerifyRead, VerifyKey, VerifyHead, KeyChanges, BackendRestart

(* The inductive invariant is preserved.                                    *)
LEMMA InvNext == IInv /\ [Next]_vars => IInv'
BY TypeNext, SerializedNext, ChainedNext, TailNext DEF IInv

(* The inductive invariant holds in every reachable state.                  *)
THEOREM Invariance == Spec => []IInv
BY InvInit, InvNext, PTL DEF Spec

(* Type correctness of the audit chain.                                     *)
THEOREM TypeCorrect == Spec => []TypeOK
<1>1. IInv => TypeOK
  BY DEF IInv
<1> QED
  BY <1>1, Invariance, PTL

(* In a table that only this program has written, rows that are neighbours  *)
(* have neighbouring ids, and each is chained to the other.                 *)
LEMMA InvVerifies == IInv => ChainVerifies
<1> SUFFICES ASSUME IInv, strict, edited = {}, lost = {} PROVE Walk(kept)
  BY DEF ChainVerifies
<1> USE AuditAssumption DEF IInv, TypeOK, TableTail
<1>1. kept \subseteq 1..lastId /\ lastId \in Nat
  BY DEF Hashes
<1>2. Linked(kept)
  <2> SUFFICES ASSUME NEW i \in kept, NEW j \in kept, i < j,
                      \A k \in kept : ~(i < k /\ k < j)
               PROVE  rows[j].prev = i
    BY DEF Linked
  <2>1. j - 1 \in 1..lastId /\ i <= j - 1
    BY <1>1
  <2>2. j - 1 = i
    BY <1>1, <2>1
  <2> QED
    BY <1>1, <2>2 DEF Chained
<1>3. \A j \in kept : rows[j].intact /\ rows[j].keyed
  BY <1>1 DEF Chained
<1> QED
  BY <1>2, <1>3 DEF Walk, StaysKeyed

(* No interleaving of writers, no crash and no trimming breaks the chain:   *)
(* an untouched table verifies at every instant.                            *)
THEOREM UntouchedChainVerifies == Spec => []ChainVerifies
BY InvVerifies, Invariance, PTL

(* A non-empty set of naturals has a least element.                         *)
LEMMA LeastNat ==
    ASSUME NEW S \in SUBSET Nat, S # {}
    PROVE  \E x \in S : \A u \in S : x <= u
<1>1. IsWellFoundedOn(OpToRel(<, Nat), Nat)
  BY NatLessThanWellFounded
<1>2. PICK t \in S : \A u \in S : ~(<<u, t>> \in OpToRel(<, Nat))
  BY <1>1, WFMin
<1>3. \A u \in S : ~(u < t)
  BY <1>2 DEF OpToRel
<1> QED
  BY <1>3

(* The first retained row after a gap is not chained to the retained row    *)
(* before it.                                                               *)
LEMMA GapBreaksLinks ==
    ASSUME IInv, NEW i \in kept, NEW j \in kept, NEW d \in lost, i < d, d < j
    PROVE  ~Linked(kept)
<1>1. /\ kept \subseteq 1..lastId /\ lost \subseteq 1..lastId /\ lastId \in Nat
      /\ d \notin kept
  BY AuditAssumption DEF IInv, TypeOK, TableTail, Hashes
<1>2. \E x \in kept : d < x /\ \A u \in kept : d < u => x <= u
  <2> DEFINE S == {u \in kept : d < u}
  <2>1. S \in SUBSET Nat
    <3>1. kept \subseteq Nat
      BY <1>1
    <3> QED
      BY <3>1
  <2>2. j \in S
    OBVIOUS
  <2> HIDE DEF S
  <2>3. \E x \in S : \A u \in S : x <= u
    BY <2>1, <2>2, LeastNat
  <2> QED
    BY <2>3 DEF S
<1>3. \E y \in kept : y < d /\ \A u \in kept : u < d => u <= y
  <2> DEFINE S == {n \in Nat : d - n \in kept /\ d - n < d}
  <2>1. S \in SUBSET Nat
    OBVIOUS
  <2>2. \A u \in kept : u < d => d - u \in S
    BY <1>1
  <2>3. S # {}
    BY <2>2
  <2> HIDE DEF S
  <2>4. \E x \in S : \A u \in S : x <= u
    BY <2>1, <2>3, LeastNat
  <2>5. PICK x \in S : \A u \in S : x <= u
    BY <2>4
  <2>6. d - x \in kept /\ d - x < d /\ x \in Nat
    BY <2>5 DEF S
  <2>7. \A u \in kept : u < d => u <= d - x
    BY <1>1, <2>2, <2>5, <2>6
  <2> QED
    BY <2>6, <2>7
<1>4. PICK x \in kept : d < x /\ \A u \in kept : d < u => x <= u
  BY <1>2
<1>5. PICK y \in kept : y < d /\ \A u \in kept : u < d => u <= y
  BY <1>3
<1>6. \A k \in kept : ~(y < k /\ k < x)
  BY <1>1, <1>4, <1>5
<1>7. rows[x].prev = x - 1 /\ x - 1 # y
  BY <1>1, <1>4, <1>5 DEF IInv, Chained
<1> QED
  BY <1>1, <1>4, <1>5, <1>6, <1>7 DEF Linked

(* The invariant makes damage visible to the walk.                          *)
LEMMA InvReports == IInv => DamageIsReported
<1> SUFFICES ASSUME IInv PROVE DamageIsReported
  OBVIOUS
<1>1. edited \cap kept # {} => ~Walk(kept)
  BY DEF IInv, Chained, Walk
<1>2. (\E i, j \in kept, d \in lost : i < d /\ d < j) => ~Walk(kept)
  BY GapBreaksLinks DEF Walk
<1> QED
  BY <1>1, <1>2 DEF DamageIsReported

(* A retained row that was changed, or a gap between retained rows, is      *)
(* always found by the walk, however many rows were appended since.         *)
THEOREM DamageIsFound == Spec => []DamageIsReported
BY InvReports, Invariance, PTL

(* At no instant is the high-water mark beyond the table's last row.        *)
THEOREM MarkStaysBehind == Spec => []MarkBehindTail
<1>1. IInv => MarkBehindTail
  <2> SUFFICES ASSUME IInv, head > 0 PROVE \E i \in kept : head <= i
    BY DEF MarkBehindTail
  <2>1. head \in Nat /\ lastId \in Nat /\ head <= lastId
    BY AuditAssumption DEF IInv, TypeOK, TableTail, Hashes
  <2> QED
    BY <2>1 DEF IInv, TableTail
<1> QED
  BY <1>1, Invariance, PTL

(* Retention never takes one of the latest MaxRows rows.                    *)
THEOREM RecentRowsStay == Spec => []RecentRowsKept
<1>1. IInv => RecentRowsKept
  BY DEF IInv
<1> QED
  BY <1>1, Invariance, PTL

(* The high-water mark never goes back, in whatever order writers move it.  *)
THEOREM MarkNeverGoesBack == Spec => MarkAdvances
<1>1. IInv /\ [Next]_vars => [head' >= head]_vars
  <2> SUFFICES ASSUME IInv, [Next]_vars PROVE head' >= head
    OBVIOUS
  <2>1. head \in Int
    BY AuditAssumption DEF IInv, TypeOK, Hashes
  <2>2. ASSUME NEW w \in Workers, LogBump(w) PROVE head' >= head
    BY <2>1, <2>2, AuditAssumption
       DEF LogBump, Bumped, IInv, Serialized, TypeOK, Hashes
  <2>3. CASE UNCHANGED head
    BY <2>1, <2>3
  <2> QED
    BY <2>2, <2>3 DEF Next, vars, Log, LogLock, LogRead, LogInsert, LogTrim, LogBumpFails,
       VerifyRead, VerifyKey, VerifyHead, KeyChanges, BackendRestart, EditRow, LoseRow
<1> QED
  BY <1>1, Invariance, PTL DEF Spec, MarkAdvances

----------------------------------------------------------------------
(* The master key.                                                          *)

(* The key that the processes are to have.                                  *)
Master == IF source = "file" THEN keyFile ELSE source

(* Who has a key has the master key, and what was sealed was sealed with it *)
(* or with the console's own; a file is created once, and written once.     *)
OneOrigin ==
    /\ \A p \in Processes : cached[p] \in {"none", "empty", Master}
    /\ chain \in {"new", Master}
    /\ \A p \in Processes : doing[p] = "write key" => source = "file" /\ keyFile = "empty"
    /\ \A p, q \in Processes : doing[p] = "write key" /\ doing[q] = "write key" => p = q
    /\ \A s \in Scopes : saved[s] # Nothing =>
          IF saved[s].derived THEN saved[s].from = Master
          ELSE sudoKey = Wrote("console") /\ saved[s].from = sudoKey

CustodyInv == CustodyTypeOK /\ OneOrigin

SealForms == {Nothing} \cup [derived : BOOLEAN, from : Keys \ {"empty"}]

LEMMA CustodySound == CustodyInv => SecretsSurvive
<1> SUFFICES ASSUME CustodyInv
             PROVE  OneMasterKey /\ StoredIsReadable
  BY DEF CustodyInv, SecretsSurvive
<1>1. OneMasterKey
  <2> DEFINE K == ({cached[p] : p \in Processes} \cup {chain}) \ {"none", "empty", "new"}
  <2>1. K \in SUBSET {Master}
    BY DEF CustodyInv, OneOrigin
  <2>2. IsFiniteSet({Master}) /\ Cardinality({Master}) = 1
    BY FS_Singleton
  <2>3. Cardinality(K) <= 1
    BY <2>1, <2>2, FS_Subset, FS_CardinalityType
  <2> QED
    BY <2>3 DEF OneMasterKey
<1>2. StoredIsReadable
  <2> SUFFICES ASSUME NEW s \in Scopes, saved[s] # Nothing,
                      ~(saved[s].derived /\ ~Usable("console"))
               PROVE  saved[s] \in ReadKeys
    BY DEF StoredIsReadable
  <2>1. saved[s] \in [derived : BOOLEAN, from : Keys \ {"empty"}]
    BY DEF CustodyInv, CustodyTypeOK
  <2>2. CASE saved[s].derived
    <3>1. cached["console"] = Master /\ saved[s].from = Master /\ Usable("console")
      BY <2>2 DEF CustodyInv, OneOrigin, Usable, Processes
    <3>2. saved[s] = [derived |-> TRUE, from |-> cached["console"]]
      BY <2>1, <2>2, <3>1
    <3> QED
      BY <3>1, <3>2 DEF ReadKeys
  <2>3. CASE ~saved[s].derived
    <3>1. sudoKey = Wrote("console") /\ saved[s].from = sudoKey
      BY <2>3 DEF CustodyInv, OneOrigin
    <3>2. saved[s] = [derived |-> FALSE, from |-> sudoKey]
      BY <2>1, <2>3, <3>1
    <3>3. sudoKey \in Keys \ {"empty"}
      BY <2>1, <3>1
    <3> QED
      BY <3>2, <3>3 DEF ReadKeys
  <2> QED
    BY <2>2, <2>3
<1> QED
  BY <1>1, <1>2

LEMMA CustodyTypes ==
    ASSUME CustodyInv, [CustodyNext]_keyVars
    PROVE  CustodyTypeOK'
<1>o. Outage => outages' \in 0..MaxOutages
  <2>1. outages \in 0..MaxOutages
    BY DEF CustodyInv, CustodyTypeOK
  <2> QED
    BY <2>1, CustodyBound DEF Outage
<1> USE CustodyBound DEF CustodyInv, CustodyTypeOK
<1>k. /\ \A p \in Processes : Wrote(p) \in Files /\ Wrote(p) \in Keys \ {"empty"}
      /\ Sources \ {"file"} \subseteq Keys
      /\ Wrote("console") \in Files \ {Wrote("backend")} /\ "console" \in Processes
      /\ Files \ {"absent"} \subseteq Keys /\ "empty" \in Files \ {Wrote("backend")}
  BY DEF Wrote, Files, Keys, Sources, Processes
<1>s. /\ \A s \in Scopes, k \in Keys \ {"empty"}, d \in BOOLEAN :
             [saved EXCEPT ![s] = [derived |-> d, from |-> k]] \in [Scopes -> SealForms]
      /\ \A s \in Scopes : [saved EXCEPT ![s] = Nothing] \in [Scopes -> SealForms]
  BY DEF SealForms
<1>1. ASSUME NEW p \in Processes, FromSource(p) PROVE CustodyTypeOK'
  BY <1>1, <1>k DEF FromSource, Cache, Sources
<1>2. ASSUME NEW p \in Processes, CreateKey(p) PROVE CustodyTypeOK'
  BY <1>2, <1>k DEF CreateKey, Then
<1>3. ASSUME NEW p \in Processes, WriteKey(p) PROVE CustodyTypeOK'
  BY <1>3, <1>k DEF WriteKey, Then, Cache
<1>4. ASSUME NEW p \in Processes, ReadKey(p) PROVE CustodyTypeOK'
  BY <1>4, <1>k DEF ReadKey, Cache
<1>5. ASSUME NEW p \in Processes, ProcessRestart(p) PROVE CustodyTypeOK'
  BY <1>5, <1>o DEF ProcessRestart, Cache, Then
<1>6. ASSUME NEW s \in Scopes, SetDerived(s) PROVE CustodyTypeOK'
  <2>1. cached["console"] \in Keys \ {"empty"}
    BY <1>6, <1>k DEF SetDerived, Usable
  <2> QED
    BY <1>6, <1>s, <2>1 DEF SetDerived, Save, SealForms
<1>7. ASSUME NEW s \in Scopes, WriteSudoKey(s) PROVE CustodyTypeOK'
  BY <1>7, <1>k, <1>s DEF WriteSudoKey, Save, Then, SealForms
<1>8. ASSUME NEW s \in Scopes, SetLegacy(s) PROVE CustodyTypeOK'
  BY <1>8, <1>k, <1>s DEF SetLegacy, Save, SealForms
<1>9. ASSUME NEW s \in Scopes, ClearScope(s) PROVE CustodyTypeOK'
  BY <1>9, <1>s DEF ClearScope, Save, SealForms
<1>10. CASE CreateSudoKey
  BY <1>10, <1>k DEF CreateSudoKey, Then
<1>11. CASE AppendKeyed
  BY <1>11 DEF AppendKeyed, Keyed, Usable, Processes
<1>12. CASE CommandFails
  BY <1>12, <1>o DEF CommandFails
<1>13. CASE CommandAnswers
  BY <1>13 DEF CommandAnswers
<1>14. CASE UNCHANGED keyVars
  BY <1>14 DEF keyVars
<1> QED
  BY <1>1, <1>2, <1>3, <1>4, <1>5, <1>6, <1>7, <1>8, <1>9, <1>10, <1>11, <1>12, <1>13, <1>14
     DEF CustodyNext

LEMMA OriginKept ==
    ASSUME CustodyInv, [CustodyNext]_keyVars
    PROVE  OneOrigin'
<1> USE DEF CustodyInv, OneOrigin, Master
<1>t. /\ cached \in [Processes -> Keys \cup {"none"}] /\ saved \in [Scopes -> SealForms]
      /\ doing \in [Processes -> {"idle", "write key", "write sudo key"}]
      /\ "absent" \notin Keys /\ chain \in {"new"} \cup (Keys \ {"empty"})
      /\ \A p \in Processes : Wrote(p) \notin {"absent", "empty", "none", "new"}
      /\ "console" \in Processes /\ "backend" \in Processes
      /\ \A s \in Scopes : saved[s] # Nothing => saved[s].from \in Keys \ {"empty"}
  BY DEF CustodyTypeOK, SealForms, Keys, Files, Wrote, Processes
<1>1. ASSUME NEW p \in Processes, FromSource(p) PROVE OneOrigin'
  BY <1>1, <1>t DEF FromSource, Cache
<1>2. ASSUME NEW p \in Processes, CreateKey(p) PROVE OneOrigin'
  BY ZenonT(30), <1>2, <1>t DEF CreateKey, MayCreate, Then
<1>3. ASSUME NEW p \in Processes, WriteKey(p) PROVE OneOrigin'
  BY <1>3, <1>t DEF WriteKey, Cache, Then
<1>4. ASSUME NEW p \in Processes, ReadKey(p) PROVE OneOrigin'
  BY <1>4, <1>t DEF ReadKey, Cache
<1>5. ASSUME NEW p \in Processes, ProcessRestart(p) PROVE OneOrigin'
  BY <1>5, <1>t DEF ProcessRestart, Cache, Then
<1>6. ASSUME NEW s \in Scopes, SetDerived(s) PROVE OneOrigin'
  BY <1>6, <1>t DEF SetDerived, Save, Usable
<1>7. ASSUME NEW s \in Scopes, WriteSudoKey(s) PROVE OneOrigin'
  BY <1>7, <1>t DEF WriteSudoKey, Save, Then
<1>8. ASSUME NEW s \in Scopes, SetLegacy(s) PROVE OneOrigin'
  BY <1>8, <1>t DEF SetLegacy, Save
<1>9. ASSUME NEW s \in Scopes, ClearScope(s) PROVE OneOrigin'
  BY <1>9, <1>t DEF ClearScope, Save
<1>10. CASE CreateSudoKey
  BY <1>10, <1>t DEF CreateSudoKey, Then
<1>11. CASE AppendKeyed
  BY <1>11, <1>t DEF AppendKeyed, Keyed, Usable
<1>12. CASE CommandFails
  BY <1>12 DEF CommandFails
<1>13. CASE CommandAnswers
  BY <1>13 DEF CommandAnswers
<1>14. CASE UNCHANGED keyVars
  BY <1>14 DEF keyVars
<1> QED
  BY <1>1, <1>2, <1>3, <1>4, <1>5, <1>6, <1>7, <1>8, <1>9, <1>10, <1>11, <1>12, <1>13, <1>14
     DEF CustodyNext

LEMMA CustodyKept == CustodySpec => []CustodyInv
<1>1. CustodyInit => CustodyInv
  BY CustodyBound
     DEF CustodyInit, CustodyInv, CustodyTypeOK, OneOrigin, Processes, Files, Wrote, Nothing
<1>2. CustodyInv /\ [CustodyNext]_keyVars => CustodyInv'
  BY CustodyTypes, OriginKept DEF CustodyInv
<1> QED
  BY <1>1, <1>2, PTL DEF CustodySpec

----------------------------------------------------------------------
(* Backup and restore.                                                      *)

(* A file carries no number that has not been given out.                    *)
Stamps == [of : 0..3, no : 0..counts.versions]
FileSets == [PieceSet -> Stamps]
Backups == [at : 0..5, files : FileSets, whole : BOOLEAN, sanitize : BOOLEAN]
Archives == [files : FileSets, sound : BOOLEAN, whole : BOOLEAN]
Counts == [versions : 0..MaxVersions, restores : Nat, harm : Nat]

SnapshotForms ==
    /\ counts \in Counts
    /\ box \in FileSets /\ log \in Stamps /\ reissue \in Stamps
    /\ power \in {"up", "stopped", "refused"}
    /\ backup \in Backups
    /\ archive \in Archives
    /\ restoring \in 0..4
    /\ causes \subseteq {"cut short", "halves", "old log"}

(* FileForms of one controller, its certificate but for a reissue under way.    *)
OfOne(files) ==
    files["db"].of # 0 =>
        /\ files["vault"].of = files["db"].of
        /\ files["crt"].of # 0
AbsentIsAbsent(files) == files["db"].of = 0 => files["db"] = Absent

(* What a controller that runs has, and what keeps it from being changed    *)
(* under a backup or a restore.                                             *)
Running ==
    /\ power = "up" => box["db"].of # 0 /\ log = Absent
    /\ reissue # Absent => power = "up" /\ box["key"] = reissue /\ reissue.of = 1
    /\ backup.at # 0 => power = "up" /\ causes = {}
    /\ restoring # 0 => power = "stopped" /\ archive.sound /\ archive.files["db"].of # 0
    /\ AbsentIsAbsent(box) /\ AbsentIsAbsent(archive.files) /\ AbsentIsAbsent(backup.files)

(* A box that nothing keeps from running whole starts.                      *)
BoxIsWhole ==
    causes = {} =>
        /\ OfOne(box)
        /\ box["db"].of # 0 /\ reissue = Absent => box["key"] = box["crt"]
        /\ log \in {Absent, box["db"]}
        /\ power # "refused"

(* What a backup has copied is what the box still has.                      *)
BackupIsWhole ==
    backup.at # 0 /\ backup.whole =>
        /\ ~backup.sanitize /\ reissue = Absent
        /\ backup.at > 1 => backup.files["db"].of = box["db"].of
        /\ backup.at > 2 => backup.files["crt"] = box["crt"]
        /\ backup.at > 3 => backup.files["key"] = box["key"]
        /\ backup.at > 4 => backup.files["vault"] = box["vault"]

ArchiveIsWhole ==
    archive.whole /\ archive.sound =>
        /\ OfOne(archive.files)
        /\ archive.files["db"].of # 0 => archive.files["key"] = archive.files["crt"]

(* What a restore has copied is what the archive has.                       *)
RestoreIsOn ==
    restoring # 0 /\ archive.whole =>
        /\ restoring > 1 => box["db"] = archive.files["db"]
        /\ restoring > 2 => box["crt"] = archive.files["crt"]
        /\ restoring > 3 => box["key"] = archive.files["key"]

SnapshotInv ==
    SnapshotForms /\ Running /\ BoxIsWhole /\ BackupIsWhole /\ ArchiveIsWhole /\ RestoreIsOn

Rest == Running /\ BoxIsWhole /\ BackupIsWhole /\ ArchiveIsWhole /\ RestoreIsOn

LEMMA Versions ==
    ASSUME counts \in Counts
    PROVE  counts.versions \in Nat /\ counts.versions \in 0..MaxVersions
<1>1. MaxVersions \in Nat
  BY SnapshotBounds
<1>2. counts.versions \in 0..MaxVersions
  BY <1>1 DEF Counts
<1> QED
  BY <1>1, <1>2

LEMMA Typed ==
    ASSUME SnapshotForms
    PROVE  /\ counts \in Counts /\ counts.versions \in Nat
           /\ backup \in Backups /\ archive \in Archives
           /\ box \in FileSets /\ log \in Stamps /\ reissue \in Stamps
           /\ power \in {"up", "stopped", "refused"}
           /\ backup.at \in 0..5 /\ backup.files \in FileSets
           /\ backup.whole \in BOOLEAN /\ backup.sanitize \in BOOLEAN
           /\ archive.files \in FileSets /\ archive.sound \in BOOLEAN
           /\ archive.whole \in BOOLEAN /\ restoring \in 0..4
<1>1. /\ counts \in Counts /\ box \in FileSets /\ log \in Stamps /\ reissue \in Stamps
      /\ power \in {"up", "stopped", "refused"} /\ restoring \in 0..4
  BY DEF SnapshotForms
<1>2. backup \in Backups
  BY DEF SnapshotForms
<1>3. archive \in Archives
  BY DEF SnapshotForms
<1>4. /\ backup.at \in 0..5 /\ backup.files \in FileSets
      /\ backup.whole \in BOOLEAN /\ backup.sanitize \in BOOLEAN
  BY <1>2 DEF Backups
<1>5. archive.files \in FileSets /\ archive.sound \in BOOLEAN /\ archive.whole \in BOOLEAN
  BY <1>3 DEF Archives
<1> QED
  BY <1>1, <1>2, <1>3, <1>4, <1>5, Versions

LEMMA SnapshotSound == SnapshotInv => RestoreIsWhole
<1> SUFFICES ASSUME SnapshotInv
             PROVE  SnapshotTypeOK /\ RestoredRunsWhole
  BY DEF RestoreIsWhole
<1>1. Stamps \subseteq [of : 0..3, no : 0..MaxVersions]
  <2>1. counts.versions \in 0..MaxVersions
    BY Versions DEF SnapshotInv, SnapshotForms
  <2> QED
    BY <2>1, SnapshotBounds DEF Stamps
<1>2. Len(Pieces) = 4
  BY DEF Pieces
<1>3. /\ {box, archive.files, backup.files} \subseteq FileSets
      /\ power \in {"up", "stopped", "refused"}
      /\ causes \subseteq {"cut short", "halves", "old log"}
      /\ backup.at \in 0..5 /\ restoring \in 0..4
  BY Typed DEF SnapshotInv, SnapshotForms
<1>4. \A p \in PieceSet : {box[p], archive.files[p], backup.files[p]} \subseteq Stamps
  BY <1>3 DEF FileSets
<1>5. SnapshotTypeOK
  <2>1. \A p \in PieceSet : {box[p], archive.files[p], backup.files[p]}
                                \subseteq [of : 0..3, no : 0..MaxVersions]
    BY <1>1, <1>4
  <2>2. backup.at \in 0..(Len(Pieces) + 1) /\ restoring \in 0..Len(Pieces)
    <3>1. backup.at \in 0..5 /\ restoring \in 0..4
      BY <1>3
    <3> QED
      BY <1>2, <3>1
  <2> QED
    BY <1>3, <2>1, <2>2 DEF SnapshotTypeOK
<1>6. RestoredRunsWhole
  BY DEF SnapshotInv, Running, BoxIsWhole, OfOne, RestoredRunsWhole
<1> QED
  BY <1>5, <1>6

LEMMA PiecesAre ==
    /\ Len(Pieces) = 4
    /\ Pieces[1] = "db" /\ Pieces[2] = "crt" /\ Pieces[3] = "key" /\ Pieces[4] = "vault"
    /\ \A i \in 1..4 : Pieces[i] \in PieceSet
BY DEF Pieces, PieceSet

LEMMA FileForms ==
    /\ counts.versions \in Nat => /\ \A c \in 0..3 : FreshBox(c) \in FileSets
                                 /\ Absent \in Stamps
    /\ \A files \in FileSets, p \in PieceSet : files[p] \in Stamps
    /\ \A f \in Stamps : f.of # 0 => f # Absent
    /\ \A f \in Stamps : f.of \in 0..3 /\ f.no \in 0..counts.versions
<1>1. counts.versions \in Nat => 0 \in 0..counts.versions /\ \A n \in 0..3 : n \in 0..3
  OBVIOUS
<1>2. counts.versions \in Nat => \A c \in 0..3 : [of |-> c, no |-> 0] \in Stamps
  BY <1>1 DEF Stamps
<1> QED
  BY <1>2 DEF FreshBox, FileSets, Stamps, Absent

(* One file of a set is replaced.                                           *)
LEMMA Replaced ==
    ASSUME NEW S, NEW files \in [PieceSet -> S], NEW p \in PieceSet, NEW f \in S
    PROVE  /\ [files EXCEPT ![p] = f] \in [PieceSet -> S]
           /\ [files EXCEPT ![p] = f][p] = f
           /\ \A q \in PieceSet \ {p} : [files EXCEPT ![p] = f][q] = files[q]
  OBVIOUS

LEMMA ReplacedHere ==
    ASSUME NEW files \in FileSets, NEW p \in PieceSet, NEW f \in Stamps
    PROVE  /\ [files EXCEPT ![p] = f] \in FileSets
           /\ [files EXCEPT ![p] = f][p] = f
           /\ \A q \in PieceSet \ {p} : [files EXCEPT ![p] = f][q] = files[q]
BY Replaced DEF FileSets

LEMMA FourPieces == PieceSet = {"db", "crt", "key", "vault"}
BY DEF PieceSet

(* What is of a type stays of it.                                           *)
Grown == /\ Stamps \subseteq Stamps' /\ FileSets \subseteq FileSets'
         /\ Backups \subseteq Backups' /\ Archives \subseteq Archives'

LEMMA Growing == Stamps \subseteq Stamps' => Grown
<1> SUFFICES ASSUME Stamps \subseteq Stamps'
             PROVE  Grown
  OBVIOUS
<1>1. FileSets \subseteq FileSets'
  BY DEF FileSets
<1>2. Backups \subseteq Backups'
  BY <1>1 DEF Backups
<1>3. Archives \subseteq Archives'
  BY <1>1 DEF Archives
<1> QED
  BY <1>1, <1>2, <1>3 DEF Grown

(* Counting an event gives out a number at most.                            *)
LEMMA Counted ==
    ASSUME SnapshotForms, NEW what \in {"versions", "restores", "harm"}, NEW limit,
           limit = MaxVersions \/ what # "versions", Count(what, limit)
    PROVE  /\ counts' \in Counts
           /\ counts'.versions = counts.versions + (IF what = "versions" THEN 1 ELSE 0)
           /\ Grown
<1>1. counts \in Counts
  BY DEF SnapshotForms
<1>2. counts' = [counts EXCEPT ![what] = @ + 1] /\ counts[what] < limit
  BY DEF Count
<1>3. CASE what = "versions"
  <2>1. /\ counts'.versions = counts.versions + 1
        /\ counts' \in Counts
    BY <1>1, <1>2, <1>3, SnapshotBounds DEF Counts
  <2>2. Stamps \subseteq Stamps'
    BY <1>1, <2>1, Versions DEF Stamps
  <2> QED
    BY <1>3, <2>1, <2>2, Growing
<1>4. CASE what # "versions"
  <2>1. /\ counts'.versions = counts.versions
        /\ counts' \in Counts
    BY <1>1, <1>2, <1>4 DEF Counts
  <2>2. Stamps' = Stamps
    BY <2>1 DEF Stamps
  <2> QED
    BY <1>1, <1>4, <2>1, <2>2, Versions, Growing
<1> QED
  BY <1>3, <1>4

LEMMA SameStamps ==
    counts' = counts => /\ Stamps' = Stamps /\ FileSets' = FileSets
                        /\ Backups' = Backups /\ Archives' = Archives /\ Grown
BY DEF Stamps, FileSets, Backups, Archives, Grown

LEMMA SnapWriteDb ==
    ASSUME SnapshotForms, Rest, WriteDb
    PROVE  SnapshotForms' /\ Rest'
<1>a. /\ counts' \in Counts
      /\ counts'.versions = counts.versions + 1
      /\ Grown
  BY Counted DEF WriteDb
<1>b. box' \in FileSets' /\ box'["db"].of = box["db"].of
      /\ \A p \in {"crt", "key", "vault"} : box'[p] = box[p]
  <2>1. /\ "db" \in PieceSet /\ box["db"] \in Stamps /\ counts.versions \in Nat
        /\ box["db"].no + 1 \in 0..counts'.versions
    BY <1>a, Typed, FileForms DEF PieceSet
  <2>2. [box["db"] EXCEPT !.no = @ + 1] \in Stamps'
    BY Typed, <2>1 DEF Stamps
  <2>3. box' = [box EXCEPT !["db"] = [box["db"] EXCEPT !.no = @ + 1]]
    BY DEF WriteDb
  <2>4. /\ box' \in FileSets' /\ box'["db"] = [box["db"] EXCEPT !.no = @ + 1]
        /\ \A q \in PieceSet \ {"db"} : box'[q] = box[q]
    <3> DEFINE f == [box["db"] EXCEPT !.no = @ + 1]
    <3>1. box \in FileSets
      BY Typed
    <3>2. f \in Stamps' /\ box' = [box EXCEPT !["db"] = f]
      BY <2>2, <2>3
    <3> HIDE DEF f
    <3>3. /\ box' \in FileSets' /\ box'["db"] = f
          /\ \A q \in PieceSet \ {"db"} : box'[q] = box[q]
      <4>1. box \in [PieceSet -> Stamps'] /\ "db" \in PieceSet
        BY <1>a, <2>1, <3>1 DEF Grown, FileSets
      <4>2. /\ box' \in [PieceSet -> Stamps'] /\ box'["db"] = f
            /\ \A q \in PieceSet \ {"db"} : box'[q] = box[q]
        BY <3>2, <4>1
      <4> QED
        BY <4>2 DEF FileSets
    <3> QED
      BY <3>3 DEF f
  <2>5. box'["db"].of = box["db"].of
    BY <2>1, <2>4 DEF Stamps
  <2> QED
    BY <2>4, <2>5, FourPieces
<1>1. SnapshotForms'
  BY Typed, <1>a, <1>b DEF WriteDb, SnapshotForms, Grown
<1>2. Running'
  BY Typed, <1>a, <1>b, FileForms DEF WriteDb, Rest, Running, AbsentIsAbsent
<1>3. BoxIsWhole'
  BY Typed, <1>a, <1>b, FileForms DEF WriteDb, Rest, Running, BoxIsWhole, OfOne, AbsentIsAbsent
<1>4. BackupIsWhole'
  BY Typed, <1>a, <1>b, FileForms DEF WriteDb, Rest, Running, BackupIsWhole
<1>5. ArchiveIsWhole'
  BY Typed, <1>a, <1>b, FileForms DEF WriteDb, Rest, Running, ArchiveIsWhole, OfOne
<1>6. RestoreIsOn'
  BY Typed, <1>a, <1>b, FileForms DEF WriteDb, Rest, Running, RestoreIsOn
<1> QED
  BY <1>1, <1>2, <1>3, <1>4, <1>5, <1>6 DEF Rest

LEMMA SnapReissueKey ==
    ASSUME SnapshotForms, Rest, ReissueKey
    PROVE  SnapshotForms' /\ Rest'
<1>c. /\ backup' \in Backups /\ backup'.at = backup.at /\ backup'.files = backup.files
      /\ backup.at # 0 => ~backup'.whole
  BY Typed DEF ReissueKey, Backups
<1>a. /\ counts' \in Counts
      /\ counts'.versions = counts.versions + 1
      /\ Grown
  BY Counted DEF ReissueKey
<1>b. /\ reissue' \in Stamps' /\ reissue'.of = 1 /\ box' \in FileSets' /\ box'["key"] = reissue'
      /\ \A p \in {"crt", "db", "vault"} : box'[p] = box[p]
  <2>2. reissue' \in Stamps' /\ reissue'.of = 1
    BY <1>a, Typed DEF ReissueKey, Stamps
  <2>3. box' = [box EXCEPT !["key"] = reissue'] /\ "key" \in PieceSet
    BY FourPieces DEF ReissueKey
  <2>4. /\ box' \in FileSets' /\ box'["key"] = reissue'
        /\ \A q \in PieceSet \ {"key"} : box'[q] = box[q]
    <3>1. box \in FileSets
      BY Typed
    <3> QED
      <4>1. box \in [PieceSet -> Stamps']
        BY <1>a, <3>1 DEF Grown, FileSets
      <4>2. /\ box' \in [PieceSet -> Stamps'] /\ box'["key"] = reissue'
            /\ \A q \in PieceSet \ {"key"} : box'[q] = box[q]
        BY <2>2, <2>3, <4>1
      <4> QED
        BY <4>2 DEF FileSets
  <2> QED
    BY <1>a, <2>2, <2>3, <2>4, FourPieces
<1>1. SnapshotForms'
  BY Typed, <1>a, <1>b, <1>c DEF ReissueKey, SnapshotForms, Grown
<1>2. Running'
  BY Typed, <1>a, <1>b, <1>c, FileForms DEF ReissueKey, Rest, Running, AbsentIsAbsent
<1>3. BoxIsWhole'
  BY Typed, <1>a, <1>b, <1>c, FileForms
     DEF ReissueKey, Rest, Running, BoxIsWhole, OfOne, AbsentIsAbsent
<1>4. BackupIsWhole'
  BY Typed, <1>a, <1>b, <1>c, FileForms DEF ReissueKey, Rest, Running, BackupIsWhole
<1>5. ArchiveIsWhole'
  BY Typed, <1>a, <1>b, <1>c, FileForms DEF ReissueKey, Rest, Running, ArchiveIsWhole, OfOne
<1>6. RestoreIsOn'
  BY Typed, <1>a, <1>b, <1>c, FileForms DEF ReissueKey, Rest, Running, RestoreIsOn
<1> QED
  BY <1>1, <1>2, <1>3, <1>4, <1>5, <1>6 DEF Rest

LEMMA SnapReissueCrt ==
    ASSUME SnapshotForms, Rest, ReissueCrt
    PROVE  SnapshotForms' /\ Rest'
<1>a. /\ Absent \in Stamps /\ box' \in FileSets /\ box'["crt"] = reissue
      /\ \A p \in {"key", "db", "vault"} : box'[p] = box[p]
  <2>2. Absent \in Stamps
    BY Typed DEF Absent, Stamps
  <2>3. box' = [box EXCEPT !["crt"] = reissue] /\ "crt" \in PieceSet
    BY FourPieces DEF ReissueCrt
  <2>4. /\ box' \in FileSets /\ box'["crt"] = reissue
        /\ \A q \in PieceSet \ {"crt"} : box'[q] = box[q]
    <3>1. box \in FileSets /\ reissue \in Stamps
      BY Typed
    <3> QED
      BY <2>3, <3>1 DEF FileSets
  <2> QED
    BY <2>2, <2>3, <2>4, FourPieces
<1>1. SnapshotForms'
  BY Typed, <1>a, SameStamps DEF ReissueCrt, SnapshotForms, Grown
<1>2. Running'
  BY Typed, <1>a, FileForms DEF ReissueCrt, Rest, Running, AbsentIsAbsent
<1>3. BoxIsWhole'
  BY Typed, <1>a, FileForms DEF ReissueCrt, Rest, Running, BoxIsWhole, OfOne, AbsentIsAbsent
<1>4. BackupIsWhole'
  BY Typed, <1>a, FileForms DEF ReissueCrt, Rest, Running, BackupIsWhole
<1>5. ArchiveIsWhole'
  BY Typed, <1>a, FileForms DEF ReissueCrt, Rest, Running, ArchiveIsWhole, OfOne
<1>6. RestoreIsOn'
  BY Typed, <1>a, FileForms DEF ReissueCrt, Rest, Running, RestoreIsOn
<1> QED
  BY <1>1, <1>2, <1>3, <1>4, <1>5, <1>6 DEF Rest

LEMMA SnapStop ==
    ASSUME SnapshotForms, Rest, StopController
    PROVE  SnapshotForms' /\ Rest'
<1>a. /\ counts' \in Counts
      /\ Grown
  <2>1. CASE Count("harm", MaxHarm)
    BY <2>1, Counted
  <2>2. CASE UNCHANGED counts
    BY <2>2, Typed, SameStamps
  <2> QED
    BY <2>1, <2>2 DEF StopController
<1>b. log' \in Stamps'
  <2>1. Absent \in Stamps /\ box["db"] \in Stamps
    BY Typed, FileForms, FourPieces
  <2> QED
    BY <1>a, <2>1 DEF StopController, Grown
<1>1. SnapshotForms'
  BY Typed, <1>a, <1>b DEF StopController, SnapshotForms, Grown
<1>2. Running'
  BY Typed, <1>a, <1>b, FileForms DEF StopController, Rest, Running, AbsentIsAbsent
<1>3. BoxIsWhole'
  BY Typed, <1>a, <1>b, FileForms
     DEF StopController, Rest, Running, BoxIsWhole, OfOne, AbsentIsAbsent
<1>4. BackupIsWhole'
  BY Typed, <1>a, <1>b, FileForms DEF StopController, Rest, Running, BackupIsWhole
<1>5. ArchiveIsWhole'
  BY Typed, <1>a, <1>b, FileForms DEF StopController, Rest, Running, ArchiveIsWhole, OfOne
<1>6. RestoreIsOn'
  BY Typed, <1>a, <1>b, FileForms DEF StopController, Rest, Running, RestoreIsOn
<1> QED
  BY <1>1, <1>2, <1>3, <1>4, <1>5, <1>6 DEF Rest

LEMMA SnapNewBox ==
    ASSUME SnapshotForms, Rest, NewBox
    PROVE  SnapshotForms' /\ Rest'
<1>a. /\ Absent \in Stamps /\ box' \in FileSets
      /\ \/ box'["db"] = Absent
         \/ /\ box'["db"].of = 2 /\ box'["vault"].of = 2 /\ box'["crt"].of = 2
            /\ box'["key"] = box'["crt"]
      /\ Absent.of = 0
  <2>2. Absent \in Stamps /\ FreshBox(0) \in FileSets /\ FreshBox(2) \in FileSets
    BY Typed, FileForms DEF Absent, Stamps
  <2> QED
    BY <2>2 DEF NewBox, FreshBox, PieceSet, Absent
<1>1. SnapshotForms'
  BY Typed, <1>a, SameStamps DEF NewBox, SnapshotForms, Grown
<1>2. Running'
  BY Typed, <1>a, FileForms DEF NewBox, Rest, Running, AbsentIsAbsent
<1>3. BoxIsWhole'
  BY Typed, <1>a, FileForms DEF NewBox, Rest, Running, BoxIsWhole, OfOne, AbsentIsAbsent
<1>4. BackupIsWhole'
  BY Typed, <1>a, FileForms DEF NewBox, Rest, Running, BackupIsWhole
<1>5. ArchiveIsWhole'
  BY Typed, <1>a, FileForms DEF NewBox, Rest, Running, ArchiveIsWhole, OfOne
<1>6. RestoreIsOn'
  BY Typed, <1>a, FileForms DEF NewBox, Rest, Running, RestoreIsOn
<1> QED
  BY <1>1, <1>2, <1>3, <1>4, <1>5, <1>6 DEF Rest

LEMMA SnapStart ==
    ASSUME SnapshotForms, Rest, StartController
    PROVE  SnapshotForms' /\ Rest'
<1>a. /\ Absent \in Stamps /\ box' \in FileSets /\ Absent.of = 0
      /\ \A p \in {"crt", "key", "db"} : box'[p] = box[p]
      /\ box["vault"] # Absent => box' = box
  <2>1. counts.versions \in Nat /\ box["vault"] \in Stamps /\ "vault" \in PieceSet
    BY Typed, FileForms, FourPieces
  <2>2. [box["vault"] EXCEPT !.of = 3] \in Stamps /\ Absent \in Stamps
    BY Typed, <2>1 DEF Stamps, Absent
  <2>3. \/ box' = box /\ box["vault"] # Absent
        \/ /\ box' = [box EXCEPT !["vault"] = [box["vault"] EXCEPT !.of = 3]]
           /\ box["vault"] = Absent
    BY DEF StartController
  <2> QED
    BY <2>1, <2>2, <2>3, Typed, ReplacedHere, FourPieces DEF Absent
<1>b. causes = {} => box' = box /\ power' = "up"
  <2> SUFFICES ASSUME causes = {} PROVE box' = box /\ power' = "up"
    OBVIOUS
  <2>1. box["db"].of # 0 /\ reissue = Absent
    BY DEF StartController, Rest, Running, AbsentIsAbsent
  <2> QED
    BY <1>a, <2>1 DEF StartController, Rest, BoxIsWhole, OfOne
<1>1. SnapshotForms'
  BY Typed, <1>a, <1>b, SameStamps DEF StartController, SnapshotForms, Grown
<1>2. Running'
  BY Typed, <1>a, <1>b, FileForms DEF StartController, Rest, Running, AbsentIsAbsent
<1>3. BoxIsWhole'
  BY Typed, <1>a, <1>b, FileForms
     DEF StartController, Rest, Running, BoxIsWhole, OfOne, AbsentIsAbsent
<1>4. BackupIsWhole'
  BY Typed, <1>a, <1>b, FileForms DEF StartController, Rest, Running, BackupIsWhole
<1>5. ArchiveIsWhole'
  BY Typed, <1>a, <1>b, FileForms DEF StartController, Rest, Running, ArchiveIsWhole, OfOne
<1>6. RestoreIsOn'
  BY Typed, <1>a, <1>b, FileForms DEF StartController, Rest, Running, RestoreIsOn
<1> QED
  BY <1>1, <1>2, <1>3, <1>4, <1>5, <1>6 DEF Rest

LEMMA SnapBegin ==
    ASSUME SnapshotForms, Rest, BeginBackup
    PROVE  SnapshotForms' /\ Rest'
<1>a. /\ FreshBox(0) \in FileSets /\ FreshBox(0)["db"] = Absent
      /\ backup' \in Backups
      /\ backup'.at = 1 /\ backup'.files = FreshBox(0)
      /\ backup'.whole => reissue = Absent /\ ~backup'.sanitize
  <2>2. FreshBox(0) \in FileSets /\ FreshBox(0)["db"] = Absent
    BY Typed, FileForms DEF FreshBox, PieceSet, Absent
  <2>3. PICK sanitize \in BOOLEAN :
           backup' = [at |-> 1, files |-> FreshBox(0),
                      whole |-> reissue = Absent /\ ~sanitize, sanitize |-> sanitize]
    BY DEF BeginBackup
  <2>4. backup' \in Backups
    BY <2>2, <2>3 DEF Backups
  <2> QED
    BY <2>2, <2>3, <2>4
<1>1. SnapshotForms'
  BY Typed, <1>a, SameStamps DEF BeginBackup, SnapshotForms, Grown
<1>2. Running'
  BY Typed, <1>a, FileForms DEF BeginBackup, Rest, Running, AbsentIsAbsent
<1>3. BoxIsWhole'
  BY Typed, <1>a, FileForms DEF BeginBackup, Rest, Running, BoxIsWhole, OfOne, AbsentIsAbsent
<1>4. BackupIsWhole'
  BY Typed, <1>a, FileForms DEF BeginBackup, Rest, Running, BackupIsWhole
<1>5. ArchiveIsWhole'
  BY Typed, <1>a, FileForms DEF BeginBackup, Rest, Running, ArchiveIsWhole, OfOne
<1>6. RestoreIsOn'
  BY Typed, <1>a, FileForms DEF BeginBackup, Rest, Running, RestoreIsOn
<1> QED
  BY <1>1, <1>2, <1>3, <1>4, <1>5, <1>6 DEF Rest

LEMMA SnapCopyOut ==
    ASSUME SnapshotForms, Rest, CopyOut
    PROVE  SnapshotForms' /\ Rest'
<1>a. /\ backup.at \in 1..4 /\ Pieces[backup.at] \in PieceSet
      /\ Taken(Pieces[backup.at]) \in Stamps
      /\ Taken(Pieces[backup.at]) \in {Absent, box[Pieces[backup.at]]}
      /\ ~backup.sanitize => Taken(Pieces[backup.at]) = box[Pieces[backup.at]]
  <2>1. counts.versions \in Nat /\ backup.at \in 1..4
    BY Typed, PiecesAre DEF CopyOut
  <2>2. Pieces[backup.at] \in PieceSet
    BY <2>1, PiecesAre
  <2>3. Absent \in Stamps /\ box[Pieces[backup.at]] \in Stamps
    BY Typed, <2>1, <2>2 DEF Absent, Stamps, FileSets
  <2> QED
    BY <2>1, <2>2, <2>3 DEF Taken
<1>b. /\ backup' \in Backups
      /\ backup'.at = backup.at + 1 /\ backup'.whole = backup.whole
      /\ backup'.sanitize = backup.sanitize
      /\ backup'.files = [backup.files EXCEPT ![Pieces[backup.at]] = Taken(Pieces[backup.at])]
  <2>1. backup' = [backup EXCEPT !.at = backup.at + 1,
                                 !.files = [backup.files EXCEPT ![Pieces[backup.at]] =
                                                Taken(Pieces[backup.at])]]
    BY DEF CopyOut
  <2>2. [backup.files EXCEPT ![Pieces[backup.at]] = Taken(Pieces[backup.at])] \in FileSets
    BY <1>a, Typed, ReplacedHere
  <2>3. backup.at + 1 \in 0..5
    BY <1>a
  <2>4. /\ backup' \in Backups
        /\ backup'.at = backup.at + 1 /\ backup'.whole = backup.whole
        /\ backup'.sanitize = backup.sanitize
    BY Typed, <2>1, <2>2, <2>3 DEF Backups
  <2> QED
    BY Typed, <2>1, <2>4 DEF Backups
<1>c. \A q \in PieceSet :
        backup'.files[q] = IF q = Pieces[backup.at] THEN Taken(Pieces[backup.at])
                                                    ELSE backup.files[q]
  BY Typed, <1>a, <1>b, ReplacedHere
<1>d. UNCHANGED <<box, log, power, reissue, archive, restoring, counts, causes>>
  BY DEF CopyOut
<1>e. backup'.at # 0 /\ backup.at # 0
  BY <1>a, <1>b
<1>1. SnapshotForms'
  BY Typed, <1>b, <1>d, SameStamps DEF SnapshotForms
<1>2. Running'
  <2>1. AbsentIsAbsent(backup'.files)
    <3>1. backup'.files["db"] \in {Absent, box["db"], backup.files["db"]}
      BY <1>a, <1>c, FourPieces, PiecesAre
    <3> QED
      BY <3>1 DEF Rest, Running, AbsentIsAbsent
  <2> QED
    BY <1>d, <1>e, <2>1 DEF Rest, Running
<1>3. BoxIsWhole'
  BY <1>d DEF Rest, BoxIsWhole
<1>4. BackupIsWhole'
  <2> SUFFICES ASSUME backup.whole
               PROVE  /\ ~backup.sanitize /\ reissue = Absent
                      /\ backup.at > 0 => backup'.files["db"].of = box["db"].of
                      /\ backup.at > 1 => backup'.files["crt"] = box["crt"]
                      /\ backup.at > 2 => backup'.files["key"] = box["key"]
                      /\ backup.at > 3 => backup'.files["vault"] = box["vault"]
    BY <1>a, <1>b, <1>d DEF BackupIsWhole
  <2>1. /\ ~backup.sanitize /\ reissue = Absent
        /\ backup.at > 1 => backup.files["db"].of = box["db"].of
        /\ backup.at > 2 => backup.files["crt"] = box["crt"]
        /\ backup.at > 3 => backup.files["key"] = box["key"]
    BY <1>e DEF Rest, BackupIsWhole
  <2>2. Taken(Pieces[backup.at]) = box[Pieces[backup.at]]
    BY <1>a, <2>1
  <2>3. CASE backup.at = 1
    BY <1>c, <2>1, <2>2, <2>3, PiecesAre, FourPieces
  <2>4. CASE backup.at = 2
    BY <1>c, <2>1, <2>2, <2>4, PiecesAre, FourPieces
  <2>5. CASE backup.at = 3
    BY <1>c, <2>1, <2>2, <2>5, PiecesAre, FourPieces
  <2>6. CASE backup.at = 4
    BY <1>c, <2>1, <2>2, <2>6, PiecesAre, FourPieces
  <2> QED
    BY <1>a, <2>3, <2>4, <2>5, <2>6
<1>5. ArchiveIsWhole' /\ RestoreIsOn'
  BY <1>d DEF Rest, ArchiveIsWhole, RestoreIsOn
<1> QED
  BY <1>1, <1>2, <1>3, <1>4, <1>5 DEF Rest

LEMMA SnapWriteArchive ==
    ASSUME SnapshotForms, Rest, WriteArchive
    PROVE  SnapshotForms' /\ Rest'
<1>a. /\ NoBackup \in Backups
      /\ NoBackup.at = 0 /\ NoBackup.files["db"] = Absent
  <2>2. FreshBox(0) \in FileSets /\ FreshBox(0)["db"] = Absent
    BY Typed, FileForms DEF FreshBox, PieceSet, Absent
  <2> QED
    BY <2>2 DEF NoBackup, Backups
<1>b. /\ backup.at = 5
      /\ archive' \in Archives
      /\ archive'.files = backup.files /\ archive'.sound /\ archive'.whole = backup.whole
  BY Typed, PiecesAre DEF WriteArchive, Archives
<1>1. SnapshotForms'
  BY Typed, <1>a, <1>b, SameStamps DEF WriteArchive, SnapshotForms, Grown
<1>2. Running'
  BY Typed, <1>a, <1>b, FileForms DEF WriteArchive, Rest, Running, AbsentIsAbsent
<1>3. BoxIsWhole'
  BY Typed, <1>a, <1>b, FileForms
     DEF WriteArchive, Rest, Running, BoxIsWhole, OfOne, AbsentIsAbsent
<1>4. BackupIsWhole'
  BY Typed, <1>a, <1>b, FileForms DEF WriteArchive, Rest, Running, BackupIsWhole
<1>5. ArchiveIsWhole'
  BY Typed, <1>a, <1>b, FileForms
     DEF WriteArchive, Rest, Running, BoxIsWhole, BackupIsWhole, ArchiveIsWhole, OfOne
<1>6. RestoreIsOn'
  BY Typed, <1>a, <1>b, FileForms DEF WriteArchive, Rest, Running, RestoreIsOn
<1> QED
  BY <1>1, <1>2, <1>3, <1>4, <1>5, <1>6 DEF Rest

LEMMA SnapDecay ==
    ASSUME SnapshotForms, Rest, Decay
    PROVE  SnapshotForms' /\ Rest'
<1>a. /\ counts' \in Counts
      /\ Grown
  BY Counted DEF Decay
<1>b. /\ archive' \in Archives
      /\ ~archive'.sound /\ archive'.files["db"].of = 3
  <2>1. archive.files \in FileSets /\ "db" \in PieceSet /\ archive.files["db"] \in Stamps
    BY Typed, FileForms, FourPieces
  <2>2. [archive.files["db"] EXCEPT !.of = 3] \in Stamps
    BY Typed, <2>1 DEF Stamps
  <2>3. archive' = [archive EXCEPT !.sound = FALSE,
                       !.files = [archive.files EXCEPT !["db"] = [archive.files["db"] EXCEPT !.of = 3]]]
    BY DEF Decay
  <2> QED
    BY Typed, <2>1, <2>2, <2>3 DEF FileSets, Stamps, Archives
<1>1. SnapshotForms'
  BY Typed, <1>a, <1>b DEF Decay, SnapshotForms, Grown
<1>2. Running'
  BY Typed, <1>a, <1>b, FileForms DEF Decay, Rest, Running, AbsentIsAbsent
<1>3. BoxIsWhole'
  BY Typed, <1>a, <1>b, FileForms DEF Decay, Rest, Running, BoxIsWhole, OfOne, AbsentIsAbsent
<1>4. BackupIsWhole'
  BY Typed, <1>a, <1>b, FileForms DEF Decay, Rest, Running, BackupIsWhole
<1>5. ArchiveIsWhole'
  BY Typed, <1>a, <1>b, FileForms DEF Decay, Rest, Running, ArchiveIsWhole, OfOne
<1>6. RestoreIsOn'
  BY Typed, <1>a, <1>b, FileForms DEF Decay, Rest, Running, RestoreIsOn
<1> QED
  BY <1>1, <1>2, <1>3, <1>4, <1>5, <1>6 DEF Rest

LEMMA SnapBeginRestore ==
    ASSUME SnapshotForms, Rest, NEW force \in BOOLEAN, BeginRestore(force)
    PROVE  SnapshotForms' /\ Rest'
<1>a. /\ counts' \in Counts
      /\ Grown
  BY Counted DEF BeginRestore
<1>b. restoring' \in 0..4
  BY DEF BeginRestore
<1>1. SnapshotForms'
  BY Typed, <1>a, <1>b, <1>b DEF BeginRestore, Accepted, SnapshotForms, Grown
<1>2. Running'
  BY Typed, <1>a, <1>b, FileForms DEF BeginRestore, Accepted, Rest, Running, AbsentIsAbsent
<1>3. BoxIsWhole'
  BY Typed, <1>a, <1>b, FileForms
     DEF BeginRestore, Accepted, Rest, Running, BoxIsWhole, OfOne, AbsentIsAbsent
<1>4. BackupIsWhole'
  BY Typed, <1>a, <1>b, FileForms DEF BeginRestore, Accepted, Rest, Running, BackupIsWhole
<1>5. ArchiveIsWhole'
  BY Typed, <1>a, <1>b, FileForms
     DEF BeginRestore, Accepted, Rest, Running, ArchiveIsWhole, OfOne
<1>6. RestoreIsOn'
  BY Typed, <1>a, <1>b, FileForms DEF BeginRestore, Accepted, Rest, Running, RestoreIsOn
<1> QED
  BY <1>1, <1>2, <1>3, <1>4, <1>5, <1>6 DEF Rest

LEMMA SnapCopyBack ==
    ASSUME SnapshotForms, Rest, CopyBack
    PROVE  SnapshotForms' /\ Rest'
<1>a. /\ restoring \in 1..4 /\ Pieces[restoring] \in PieceSet
      /\ restoring' = IF restoring = 4 THEN 0 ELSE restoring + 1
      /\ archive.files[Pieces[restoring]] \in Stamps
  <2>1. restoring \in 1..4
    BY Typed, PiecesAre DEF CopyBack
  <2>2. Pieces[restoring] \in PieceSet
    BY <2>1, PiecesAre
  <2> QED
    BY Typed, <2>1, <2>2, PiecesAre DEF CopyBack, Following, FileSets
<1>b. /\ box' \in FileSets
      /\ \A p \in PieceSet : p # Pieces[restoring] => box'[p] = box[p]
      /\ archive.files[Pieces[restoring]].of # 0
            => box'[Pieces[restoring]] = archive.files[Pieces[restoring]]
      /\ box'[Pieces[restoring]] \in {box[Pieces[restoring]], archive.files[Pieces[restoring]]}
  BY <1>a, Typed, FileForms DEF CopyBack, FileSets
<1>c. /\ restoring < 4 => causes' # {}
      /\ restoring = 4 /\ causes' = {} => archive.whole /\ log = Absent
      /\ causes' \subseteq {"cut short", "halves", "old log"}
  <2>1. restoring \in 0..4 /\ Len(Pieces) = 4
    BY Typed, PiecesAre
  <2> QED
    BY <2>1 DEF CopyBack
<1>d. /\ power = "stopped" /\ reissue = Absent /\ archive.sound /\ backup.at = 0
      /\ archive.files["db"].of # 0
  BY <1>a DEF Rest, Running
<1>e. archive.whole => /\ archive.files["vault"].of = archive.files["db"].of
                      /\ archive.files["crt"].of # 0
                      /\ archive.files["key"] = archive.files["crt"]
  BY <1>d DEF Rest, ArchiveIsWhole, OfOne
<1>f. UNCHANGED <<log, power, reissue, backup, archive, counts>>
  BY DEF CopyBack
<1>1. SnapshotForms'
  <2>1. restoring' \in 0..4
    BY <1>a
  <2> QED
    BY <1>b, <1>c, <1>f, <2>1, SameStamps DEF SnapshotForms
<1>2. Running'
  <2>1. AbsentIsAbsent(box')
    BY <1>a, <1>b, <1>d, PiecesAre DEF Rest, Running, AbsentIsAbsent, PieceSet
  <2> QED
    BY <1>a, <1>d, <1>f, <2>1 DEF Rest, Running, AbsentIsAbsent
<1>3. RestoreIsOn'
  <2>1. ASSUME archive.whole, restoring < 4
        PROVE  /\ box'["db"] = archive.files["db"]
               /\ restoring > 1 => box'["crt"] = archive.files["crt"]
               /\ restoring > 2 => box'["key"] = archive.files["key"]
    BY <1>a, <1>b, <1>d, <1>e, <2>1, PiecesAre DEF Rest, RestoreIsOn, PieceSet
  <2> QED
    BY <1>a, <1>f, <2>1 DEF RestoreIsOn
<1>4. BoxIsWhole'
  <2> SUFFICES ASSUME causes' = {}
               PROVE  /\ OfOne(box') /\ box'["key"] = box'["crt"] /\ log = Absent
    BY <1>d, <1>f DEF BoxIsWhole, OfOne
  <2>1. restoring = 4 /\ archive.whole /\ log = Absent
    BY <1>a, <1>c
  <2>2. /\ box["db"] = archive.files["db"] /\ box["crt"] = archive.files["crt"]
        /\ box["key"] = archive.files["key"]
    BY <2>1 DEF Rest, RestoreIsOn
  <2>3. /\ box'["db"] = box["db"] /\ box'["crt"] = box["crt"] /\ box'["key"] = box["key"]
        /\ box'["vault"] = archive.files["vault"]
    BY <1>b, <1>d, <1>e, <2>1, PiecesAre DEF PieceSet
  <2> QED
    BY <1>e, <2>1, <2>2, <2>3 DEF OfOne
<1>5. BackupIsWhole' /\ ArchiveIsWhole'
  BY <1>d, <1>f DEF Rest, BackupIsWhole, ArchiveIsWhole, OfOne
<1> QED
  BY <1>1, <1>2, <1>3, <1>4, <1>5 DEF Rest

LEMMA SnapKilled ==
    ASSUME SnapshotForms, Rest, RestoreKilled
    PROVE  SnapshotForms' /\ Rest'
<1>a. /\ counts' \in Counts
      /\ Grown
  BY Counted DEF RestoreKilled
<1>b. restoring' \in 0..4
  BY DEF RestoreKilled
<1>1. SnapshotForms'
  BY Typed, <1>a, <1>b, <1>b DEF RestoreKilled, SnapshotForms, Grown
<1>2. Running'
  BY Typed, <1>a, <1>b, FileForms DEF RestoreKilled, Rest, Running, AbsentIsAbsent
<1>3. BoxIsWhole'
  BY Typed, <1>a, <1>b, FileForms
     DEF RestoreKilled, Rest, Running, BoxIsWhole, OfOne, AbsentIsAbsent
<1>4. BackupIsWhole'
  BY Typed, <1>a, <1>b, FileForms DEF RestoreKilled, Rest, Running, BackupIsWhole
<1>5. ArchiveIsWhole'
  BY Typed, <1>a, <1>b, FileForms DEF RestoreKilled, Rest, Running, ArchiveIsWhole, OfOne
<1>6. RestoreIsOn'
  BY Typed, <1>a, <1>b, FileForms DEF RestoreKilled, Rest, Running, RestoreIsOn
<1> QED
  BY <1>1, <1>2, <1>3, <1>4, <1>5, <1>6 DEF Rest

LEMMA SnapshotStarts == SnapshotInit => SnapshotForms /\ Rest
<1> SUFFICES ASSUME SnapshotInit
             PROVE  SnapshotForms /\ Rest
  OBVIOUS
<1>1. counts = [versions |-> 0, restores |-> 0, harm |-> 0] /\ counts \in Counts
  BY SnapshotBounds DEF SnapshotInit, Counts
<1>2. FreshBox(0) \in FileSets /\ FreshBox(1) \in FileSets /\ Absent \in Stamps
  BY <1>1, FileForms DEF Absent, Stamps
<1>3. SnapshotForms
  BY <1>1, <1>2 DEF SnapshotInit, SnapshotForms, NoBackup, NoArchive, Backups, Archives
<1>4. Rest
  BY DEF SnapshotInit, Rest, Running, BoxIsWhole, BackupIsWhole, ArchiveIsWhole, RestoreIsOn,
         OfOne, AbsentIsAbsent, NoBackup, NoArchive, FreshBox, PieceSet, Absent
<1> QED
  BY <1>3, <1>4

LEMMA SnapshotKept == SnapshotSpec => []SnapshotInv
<1>1. (SnapshotForms /\ Rest) <=> SnapshotInv
  BY DEF Rest, SnapshotInv
<1>2. SnapshotInv /\ [SnapshotNext]_snapshotVars => SnapshotInv'
  <2> SUFFICES ASSUME SnapshotForms, Rest, [SnapshotNext]_snapshotVars
               PROVE  SnapshotForms' /\ Rest'
    BY DEF Rest, SnapshotInv
  <2>1. CASE UNCHANGED snapshotVars
    BY ZenonT(30), <2>1, SameStamps
       DEF snapshotVars, SnapshotForms, Rest, Running, BoxIsWhole, BackupIsWhole,
          ArchiveIsWhole, RestoreIsOn, OfOne, AbsentIsAbsent
  <2> QED
    BY <2>1, SnapWriteDb, SnapReissueKey, SnapReissueCrt, SnapStop, SnapNewBox, SnapStart,
       SnapBegin, SnapCopyOut, SnapWriteArchive, SnapDecay, SnapBeginRestore, SnapCopyBack,
       SnapKilled DEF SnapshotNext
<1> QED
  BY <1>1, <1>2, SnapshotStarts, PTL DEF SnapshotSpec

----------------------------------------------------------------------
(* The controller's certificate.                                            *)

FileNames == {"key", "crt", "trust"}
Issued == 1..Len(identities)
Anchors == 0..Len(identities)
(* The identities that were imported, and the anchor of each.               *)
Imports == {i \in Issued : Imported(i)}
Anchored == [i \in Issued |-> Anchor(i)]
Identities == [imported : BOOLEAN, names : SUBSET NetAddresses]
TlsConfigs == [ip : NetAddresses, mode : {"ip", "all"}]
TlsWorks == [at : 0..Last, mine : Anchors, read : Anchors, goal : TlsConfigs \cup {<<>>}]

TlsForms ==
    /\ identities \in Seq(Identities)
    /\ certFiles \in [FileNames -> Anchors]
    /\ certFiles["key"] # 0 /\ certFiles["crt"] # 0
    /\ certTmp \in [FileNames -> Anchors \cup {NoFile}]
    /\ served \in Anchors /\ agentPin \in Anchors
    /\ config \in TlsConfigs /\ network \in NetAddresses
    /\ works \in [Signers -> TlsWorks]
    /\ spoiled \in BOOLEAN

(* A work under way has an identity, and has looked before it issued one    *)
(* that is not imported; a temporary certificate is that of a work that is  *)
(* about to put one in place.                                               *)
Looked ==
    /\ certTmp["key"] # 0 /\ certTmp["crt"] # 0
    /\ \A w \in Signers : works[w].at # 0 => works[w].goal \in TlsConfigs
    /\ \A w \in Signers : InFiles(w) =>
           /\ works[w].mine \in Issued /\ works[w].read \in Issued
           /\ works[w].read \in Imports => works[w].mine \in Imports
    /\ certTmp["crt"] # NoFile /\ (\E w \in Signers : works[w].at = 4) =>
           \E v \in Signers : works[v].at = 4 /\ works[v].mine = certTmp["crt"]

(* How far a writer that is alone has come.                                 *)
Together(files) == Mate(files) /\ files["trust"] = Anchored[files["crt"]]

OneWriter ==
    ~spoiled =>
        /\ served # 0
        /\ \A w, o \in Signers : InFiles(w) /\ InFiles(o) => w = o
        /\ (\A w \in Signers : ~InFiles(w)) => Together(certFiles)
        /\ \A w \in Signers : works[w].at \in {1, 2} => Together(certFiles)
        /\ \A w \in Signers : works[w].at \in {3, 4} => certFiles["key"] = works[w].mine
        /\ \A w \in Signers : works[w].at \in {5, 6} =>
               certFiles["key"] = works[w].mine /\ certFiles["crt"] = works[w].mine
        /\ \A w \in Signers : works[w].at = 2 => certTmp["key"] = works[w].mine
        /\ \A w \in Signers : works[w].at = 4 => certTmp["crt"] = works[w].mine
        /\ \A w \in Signers : works[w].at = 6 => certTmp["trust"] = Anchored[works[w].mine]

TlsInv == TlsForms /\ Looked /\ OneWriter

LEMMA Places ==
    /\ FileAt(1) = "key" /\ FileAt(2) = "key" /\ FileAt(3) = "crt" /\ FileAt(4) = "crt"
    /\ FileAt(5) = "trust" /\ FileAt(6) = "trust"
    /\ Filling(1) /\ ~Filling(2) /\ Filling(3) /\ ~Filling(4) /\ Filling(5) /\ ~Filling(6)
    /\ Last = 7
<1>1. /\ (1 + 1) \div 2 = 1 /\ (2 + 1) \div 2 = 1 /\ (3 + 1) \div 2 = 2 /\ (4 + 1) \div 2 = 2
      /\ (5 + 1) \div 2 = 3 /\ (6 + 1) \div 2 = 3
      /\ 1 % 2 = 1 /\ 2 % 2 = 0 /\ 3 % 2 = 1 /\ 4 % 2 = 0 /\ 5 % 2 = 1 /\ 6 % 2 = 0
  OBVIOUS
<1>2. /\ WriteOrder[1] = "key" /\ WriteOrder[2] = "crt" /\ WriteOrder[3] = "trust"
  BY DEF WriteOrder
<1> QED
  BY <1>1, <1>2 DEF FileAt, Filling, Last

(* What the types say of a work and of the numbers of identities.           *)
LEMMA TlsTyped ==
    ASSUME TlsForms
    PROVE  /\ Len(identities) \in Nat
           /\ \A i \in Issued : i \in Anchors /\ i # 0 /\ i # NoFile /\ Anchored[i] \in Anchors
           /\ \A i \in Anchors : i # 0 => i \in Issued
           /\ \A i \in Anchors : i # NoFile
           /\ 0 \in Anchors
           /\ certFiles["key"] \in Issued /\ certFiles["crt"] \in Issued
           /\ "crt" \in FileNames /\ "key" \in FileNames /\ "trust" \in FileNames
           /\ \A w \in Signers : /\ works[w] \in TlsWorks /\ works[w].at \in 0..7
                                 /\ works[w].mine \in Anchors /\ works[w].read \in Anchors
                                 /\ InFiles(w) <=> works[w].at \in 1..6
<1>1. Len(identities) \in Nat
  BY DEF TlsForms
<1>2. \A i \in Issued : i \in Anchors /\ i # 0 /\ i # NoFile /\ Anchored[i] \in Anchors
  BY <1>1 DEF Issued, Anchors, NoFile, Anchor, Anchored
<1>3. /\ \A i \in Anchors : (i # 0 => i \in Issued) /\ i # NoFile
      /\ 0 \in Anchors
  BY <1>1 DEF Issued, Anchors, NoFile
<1>4. certFiles["key"] \in Issued /\ certFiles["crt"] \in Issued
  BY <1>3 DEF TlsForms, FileNames
<1>5. \A w \in Signers : works[w] \in TlsWorks
  BY DEF TlsForms
<1>6. \A w \in Signers : /\ works[w].at \in 0..7
                         /\ works[w].mine \in Anchors /\ works[w].read \in Anchors
  BY <1>5, Places DEF TlsWorks
<1>7. \A w \in Signers : InFiles(w) <=> works[w].at \in 1..6
  BY Places DEF InFiles
<1> QED
  BY <1>1, <1>2, <1>3, <1>4, <1>5, <1>6, <1>7 DEF FileNames

(* One work moves, and no other.                                            *)
LEMMA WorkMoves ==
    ASSUME TlsForms, NEW w \in Signers, NEW f, f \in TlsWorks', TlsWorks \subseteq TlsWorks',
           works' = [works EXCEPT ![w] = f]
    PROVE  /\ works' \in [Signers -> TlsWorks']
           /\ works'[w] = f
           /\ \A o \in Signers \ {w} : works'[o] = works[o]
<1>1. works \in [Signers -> TlsWorks']
  BY DEF TlsForms
<1> QED
  BY <1>1

LEMMA SameIdentities ==
    identities' = identities =>
        /\ TlsWorks' = TlsWorks /\ Anchors' = Anchors /\ Issued' = Issued
        /\ Imports' = Imports /\ Anchored' = Anchored
BY DEF TlsWorks, Anchors, Issued, Imports, Imported, Anchored, Anchor

LEMMA WorkRests ==
    ASSUME TlsForms
    PROVE  AtRest \in TlsWorks /\ AtRest.at = 0
<1>1. 0 \in Anchors /\ 0 \in 0..Last
  BY TlsTyped, Places
<1> QED
  BY <1>1 DEF AtRest, TlsWorks

(* A work goes on to its next place.                                        *)
LEMMA WorkGoesOn ==
    ASSUME TlsForms, NEW w \in Signers, InFiles(w), identities' = identities,
           works' = [works EXCEPT ![w].at = @ + 1]
    PROVE  /\ works' \in [Signers -> TlsWorks']
           /\ works'[w].at = works[w].at + 1 /\ works'[w].mine = works[w].mine
           /\ works'[w].read = works[w].read /\ works'[w].goal = works[w].goal
           /\ \A o \in Signers \ {w} : works'[o] = works[o]
<1> DEFINE f == [works[w] EXCEPT !.at = @ + 1]
<1>1. works[w].at + 1 \in 0..Last /\ works[w] \in TlsWorks
  <2>1. works[w].at \in 1..6 /\ works[w] \in TlsWorks
    BY TlsTyped
  <2> QED
    BY <2>1, Places
<1>2. /\ f \in TlsWorks /\ f.at = works[w].at + 1 /\ f.mine = works[w].mine
      /\ f.read = works[w].read /\ f.goal = works[w].goal
  BY <1>1 DEF TlsWorks
<1>3. works' = [works EXCEPT ![w] = f]
  OBVIOUS
<1> HIDE DEF f
<1> QED
  BY <1>2, <1>3, WorkMoves, SameIdentities

(* An identity is issued: what was issued before keeps its number.          *)
LEMMA IdentityIssued ==
    ASSUME TlsForms, NEW imported \in BOOLEAN, NEW names \in SUBSET NetAddresses,
           Issue(imported, names)
    PROVE  /\ identities' \in Seq(Identities)
           /\ Len(identities) + 1 \in Issued' /\ Anchors \subseteq Anchors'
           /\ Issued \subseteq Issued' /\ TlsWorks \subseteq TlsWorks'
           /\ \A i \in Issued : (i \in Imports <=> i \in Imports') /\ Anchored'[i] = Anchored[i]
           /\ (Len(identities) + 1 \in Imports' <=> imported)
<1> DEFINE new == [imported |-> imported, names |-> names]
<1>1. new \in Identities /\ new.imported = imported
  BY DEF Identities
<1>2. identities' = Append(identities, new) /\ identities \in Seq(Identities)
  BY DEF Issue, TlsForms
<1> HIDE DEF new
<1>3. /\ identities' \in Seq(Identities) /\ Len(identities') = Len(identities) + 1
      /\ \A i \in 1..Len(identities) : identities'[i] = identities[i]
      /\ identities'[Len(identities) + 1] = new
  BY <1>1, <1>2
<1>4. Len(identities) \in Nat
  BY <1>2
<1>5. /\ Len(identities) + 1 \in Issued' /\ Anchors \subseteq Anchors'
      /\ Issued \subseteq Issued'
  BY <1>3, <1>4 DEF Issued, Anchors
<1>6. \A i \in Issued : (i \in Imports <=> i \in Imports') /\ Anchored'[i] = Anchored[i]
  BY <1>3, <1>5 DEF Issued, Imports, Imported, Anchored, Anchor
<1>7. (Len(identities) + 1 \in Imports' <=> imported)
  BY <1>1, <1>3, <1>5 DEF Imports, Imported
<1>8. TlsWorks \subseteq TlsWorks'
  BY <1>5 DEF TlsWorks
<1> QED
  BY <1>3, <1>5, <1>6, <1>7, <1>8

(* A writer begins: it has looked, and it is alone or the files may be      *)
(* spoiled.                                                                 *)
LEMMA WriterEnters ==
    ASSUME TlsInv, NEW w \in Signers, works[w] = AtRest, served # 0,
           NEW imported \in BOOLEAN, NEW names \in SUBSET NetAddresses,
           Issue(imported, names), imported \/ MayRegenerate,
           NEW goal \in TlsConfigs,
           works' = [works EXCEPT ![w] = [at |-> 1, mine |-> Len(identities) + 1,
                                          read |-> certFiles["crt"], goal |-> goal]],
           spoiled' = (spoiled \/ \E o \in Signers \ {w} : InFiles(o)),
           UNCHANGED <<certFiles, certTmp, served, config, network, agentPin>>
    PROVE  TlsInv'
<1> DEFINE f == [at |-> 1, mine |-> Len(identities) + 1,
                 read |-> certFiles["crt"], goal |-> goal]
<1>i. TlsForms
  BY DEF TlsInv
<1>1. /\ identities' \in Seq(Identities)
      /\ Len(identities) + 1 \in Issued' /\ Anchors \subseteq Anchors'
      /\ Issued \subseteq Issued' /\ TlsWorks \subseteq TlsWorks'
      /\ \A i \in Issued : (i \in Imports <=> i \in Imports') /\ Anchored'[i] = Anchored[i]
      /\ (Len(identities) + 1 \in Imports' <=> imported)
  BY <1>i, IdentityIssued
<1>2. /\ f \in TlsWorks' /\ f.at = 1 /\ f.mine = Len(identities) + 1
      /\ f.read = certFiles["crt"] /\ f.goal = goal
  <2>1. 1 \in 0..Last /\ certFiles["crt"] \in Anchors
    BY <1>i, TlsTyped, Places
  <2>2. Len(identities) + 1 \in Anchors'
    BY <1>1 DEF Issued, Anchors
  <2> QED
    BY <1>1, <2>1, <2>2 DEF TlsWorks
<1>3. works' = [works EXCEPT ![w] = f]
  OBVIOUS
<1> HIDE DEF f
<1>4. /\ works' \in [Signers -> TlsWorks'] /\ works'[w] = f
      /\ \A o \in Signers \ {w} : works'[o] = works[o]
  BY <1>i, <1>1, <1>2, <1>3, WorkMoves
<1>5. TlsForms'
  BY <1>i, <1>1, <1>4 DEF TlsForms
<1>6. /\ InFiles(w)' /\ ~InFiles(w)
      /\ \A o \in Signers \ {w} : InFiles(o)' <=> InFiles(o)
  BY <1>i, <1>2, <1>4, Places, WorkRests DEF InFiles
<1>7. certFiles["crt"] \in Issued
  BY <1>i, TlsTyped
<1>8. Looked'
  <2>1. certTmp'["key"] # 0 /\ certTmp'["crt"] # 0
    BY DEF TlsInv, Looked
  <2>2. \A o \in Signers : works'[o].at # 0 => works'[o].goal \in TlsConfigs
    BY <1>2, <1>4 DEF TlsInv, Looked
  <2>3. \A o \in Signers : InFiles(o)' =>
           /\ works'[o].mine \in Issued' /\ works'[o].read \in Issued'
           /\ works'[o].read \in Imports' => works'[o].mine \in Imports'
    <3>1. ASSUME NEW o \in Signers \ {w}, InFiles(o)'
          PROVE  /\ works'[o].mine \in Issued' /\ works'[o].read \in Issued'
                 /\ works'[o].read \in Imports' => works'[o].mine \in Imports'
      BY <1>1, <1>4, <1>6, <3>1 DEF TlsInv, Looked
    <3>2. /\ works'[w].mine \in Issued' /\ works'[w].read \in Issued'
          /\ works'[w].read \in Imports' => works'[w].mine \in Imports'
      BY <1>1, <1>2, <1>4, <1>7 DEF MayRegenerate, Imports
    <3> QED
      BY <3>1, <3>2
  <2>4. certTmp'["crt"] # NoFile /\ (\E o \in Signers : works'[o].at = 4) =>
           \E v \in Signers : works'[v].at = 4 /\ works'[v].mine = certTmp'["crt"]
    <3>1. \A o \in Signers : works'[o].at = 4 <=> works[o].at = 4
      BY <1>i, <1>2, <1>4, WorkRests
    <3>2. \A o \in Signers : works'[o].at = 4 => works'[o].mine = works[o].mine
      BY <1>2, <1>4
    <3> QED
      BY <3>1, <3>2 DEF TlsInv, Looked
  <2> QED
    BY <2>1, <2>2, <2>3, <2>4 DEF Looked
<1>9. OneWriter'
  <2> SUFFICES ASSUME ~spoiled'
               PROVE  OneWriter'
    BY DEF OneWriter
  <2>1. ~spoiled /\ \A o \in Signers : ~InFiles(o)
    BY <1>6
  <2>2. Together(certFiles) /\ served # 0
    BY <2>1 DEF TlsInv, OneWriter
  <2>3. Together(certFiles)'
    BY <1>1, <1>7, <2>2 DEF Together, Mate
  <2>4. \A o \in Signers : works'[o].at \in 1..6 => o = w /\ works'[o].at = 1
    BY <1>2, <1>4, <1>i, <2>1, TlsTyped
  <2>5. \A o \in Signers : InFiles(o)' => o = w
    BY <1>6, <2>1
  <2> QED
    BY <1>6, <2>2, <2>3, <2>4, <2>5 DEF OneWriter
<1> QED
  BY <1>5, <1>8, <1>9 DEF TlsInv

(* What a writer puts into a file is a number a file may have.              *)
LEMMA Contents ==
    ASSUME TlsInv, NEW w \in Signers, InFiles(w), NEW file \in FileNames
    PROVE  /\ works[w].mine \in Issued
           /\ Content(file, works[w].mine) \in Anchors
           /\ file # "trust" => Content(file, works[w].mine) = works[w].mine
           /\ file = "trust" => Content(file, works[w].mine) = Anchored[works[w].mine]
<1>1. works[w].mine \in Issued
  BY DEF TlsInv, Looked
<1> QED
  BY <1>1, TlsTyped DEF Content, TlsInv, Anchored

LEMMA FileFilled ==
    ASSUME TlsInv, NEW w \in Signers, Fill(w)
    PROVE  TlsInv'
<1> DEFINE file == FileAt(works[w].at)
<1>i. TlsForms
  BY DEF TlsInv
<1>u. UNCHANGED <<certFiles, identities, spoiled, served, config, network, agentPin>>
  BY DEF Fill
<1>1. works[w].at \in {1, 3, 5} /\ InFiles(w)
  <2>1. works[w].at \in 1..6 /\ Filling(works[w].at) /\ InFiles(w)
    BY <1>i, TlsTyped DEF Fill
  <2> QED
    BY <2>1, Places
<1>2. /\ file \in FileNames
      /\ works[w].at = 1 <=> file = "key"
      /\ works[w].at = 3 <=> file = "crt"
      /\ works[w].at = 5 <=> file = "trust"
  BY <1>1, Places DEF FileNames
<1>3. certTmp' = [certTmp EXCEPT ![file] = Content(file, works[w].mine)]
  BY DEF Fill
<1> HIDE DEF file
<1>4. /\ works[w].mine \in Issued
      /\ Content(file, works[w].mine) \in Anchors
      /\ file # "trust" => Content(file, works[w].mine) = works[w].mine
      /\ file = "trust" => Content(file, works[w].mine) = Anchored[works[w].mine]
  BY <1>1, <1>2, Contents
<1>5. /\ certTmp' \in [FileNames -> Anchors \cup {NoFile}]
      /\ certTmp'[file] = Content(file, works[w].mine)
      /\ \A g \in FileNames \ {file} : certTmp'[g] = certTmp[g]
  BY <1>i, <1>2, <1>3, <1>4 DEF TlsForms
<1>6. /\ works' \in [Signers -> TlsWorks']
      /\ works'[w].at = works[w].at + 1 /\ works'[w].mine = works[w].mine
      /\ works'[w].read = works[w].read /\ works'[w].goal = works[w].goal
      /\ \A o \in Signers \ {w} : works'[o] = works[o]
  BY <1>i, <1>1, <1>u, WorkGoesOn DEF Fill
<1>s. /\ Anchors' = Anchors /\ Issued' = Issued
      /\ Imports' = Imports /\ Anchored' = Anchored
  BY <1>u, SameIdentities
<1>7. TlsForms'
  BY <1>i, <1>u, <1>5, <1>6, <1>s DEF TlsForms
<1>8. /\ \A o \in Signers : InFiles(o)' <=> InFiles(o)
      /\ works'[w].at \in {2, 4, 6}
  BY <1>1, <1>6, Places DEF InFiles
<1>9. Looked'
  <2>1. certTmp'["key"] # 0 /\ certTmp'["crt"] # 0
    BY <1>i, <1>2, <1>4, <1>5, TlsTyped DEF TlsInv, Looked, FileNames
  <2>2. \A o \in Signers : works'[o].at # 0 => works'[o].goal \in TlsConfigs
    BY <1>1, <1>6 DEF TlsInv, Looked
  <2>3. \A o \in Signers : works'[o].mine = works[o].mine /\ works'[o].read = works[o].read
    BY <1>6
  <2>4. \A o \in Signers : InFiles(o)' =>
           /\ works'[o].mine \in Issued' /\ works'[o].read \in Issued'
           /\ works'[o].read \in Imports' => works'[o].mine \in Imports'
    BY <1>8, <1>s, <2>3 DEF TlsInv, Looked
  <2>5. certTmp'["crt"] # NoFile /\ (\E o \in Signers : works'[o].at = 4) =>
           \E v \in Signers : works'[v].at = 4 /\ works'[v].mine = certTmp'["crt"]
    <3>1. CASE works[w].at = 3
      BY <1>2, <1>4, <1>5, <1>6, <3>1
    <3>2. CASE works[w].at # 3
      <4>1. certTmp'["crt"] = certTmp["crt"]
        BY <1>2, <1>5, <3>2 DEF FileNames
      <4>2. \A o \in Signers : works'[o].at = 4 <=> works[o].at = 4
        BY <1>1, <1>6, <3>2
      <4> QED
        BY <2>3, <4>1, <4>2 DEF TlsInv, Looked
    <3> QED
      BY <3>1, <3>2
  <2> QED
    BY <2>1, <2>2, <2>4, <2>5 DEF Looked
<1>10. OneWriter'
  <2> SUFFICES ASSUME ~spoiled'
               PROVE  OneWriter'
    BY DEF OneWriter
  <2>1. /\ ~spoiled /\ served # 0
        /\ \A o \in Signers : InFiles(o) => o = w
    BY <1>1, <1>u DEF TlsInv, OneWriter
  <2>2. \A o \in Signers : works'[o].at \in 1..6 => o = w
    BY <1>i, <1>6, <2>1, TlsTyped
  <2>3. CASE works[w].at = 1
    <3>1. Together(certFiles) /\ certTmp'["key"] = works'[w].mine /\ works'[w].at = 2
      BY <1>2, <1>4, <1>5, <1>6, <2>1, <2>3 DEF TlsInv, OneWriter
    <3>2. Together(certFiles)'
      BY <1>s, <1>u, <3>1 DEF Together, Mate
    <3> QED
      BY <1>1, <1>8, <1>u, <2>1, <2>2, <3>1, <3>2 DEF OneWriter
  <2>4. CASE works[w].at = 3
    <3>1. /\ certFiles'["key"] = works'[w].mine /\ works'[w].at = 4
          /\ certTmp'["crt"] = works'[w].mine
      BY <1>2, <1>4, <1>5, <1>6, <1>u, <2>1, <2>4 DEF TlsInv, OneWriter
    <3> QED
      BY <1>1, <1>8, <1>u, <2>1, <2>2, <3>1 DEF OneWriter
  <2>5. CASE works[w].at = 5
    <3>1. /\ certFiles'["key"] = works'[w].mine /\ works'[w].at = 6
          /\ certFiles'["crt"] = works'[w].mine
          /\ certTmp'["trust"] = Anchored'[works'[w].mine]
      BY <1>2, <1>4, <1>5, <1>6, <1>s, <1>u, <2>1, <2>5 DEF TlsInv, OneWriter
    <3> QED
      BY <1>1, <1>8, <1>u, <2>1, <2>2, <3>1 DEF OneWriter
  <2> QED
    BY <1>1, <2>3, <2>4, <2>5
<1> QED
  BY <1>7, <1>9, <1>10 DEF TlsInv

(* A writer whose temporary file was renamed away gives up: it was not      *)
(* alone.                                                                   *)
LEMMA WriterGivesUp ==
    ASSUME TlsInv, NEW w \in Signers, PutInPlace(w),
           certTmp[FileAt(works[w].at)] = NoFile
    PROVE  TlsInv'
<1>i. TlsForms
  BY DEF TlsInv
<1>u. UNCHANGED <<certFiles, certTmp, identities, spoiled, served, config, network, agentPin>>
  BY DEF PutInPlace
<1>1. works[w].at \in {2, 4, 6} /\ InFiles(w)
  <2>1. works[w].at \in 1..6 /\ ~Filling(works[w].at) /\ InFiles(w)
    BY <1>i, TlsTyped DEF PutInPlace
  <2> QED
    BY <2>1, Places
<1>2. works' = [works EXCEPT ![w] = AtRest]
  BY DEF PutInPlace
<1>s. /\ TlsWorks' = TlsWorks /\ Anchors' = Anchors /\ Issued' = Issued
      /\ Imports' = Imports /\ Anchored' = Anchored
  BY <1>u, SameIdentities
<1>3. /\ works' \in [Signers -> TlsWorks'] /\ works'[w].at = 0
      /\ \A o \in Signers \ {w} : works'[o] = works[o]
  BY <1>i, <1>2, <1>s, WorkMoves, WorkRests
<1>4. spoiled
  <2>1. works[w].mine \in Issued
    BY <1>1 DEF TlsInv, Looked
  <2>2. works[w].mine # NoFile /\ Anchored[works[w].mine] # NoFile
    BY <1>i, <2>1, TlsTyped
  <2>3. ~spoiled => certTmp[FileAt(works[w].at)] \in {works[w].mine, Anchored[works[w].mine]}
    BY <1>1, Places DEF TlsInv, OneWriter
  <2> QED
    BY <2>2, <2>3
<1>5. TlsForms'
  BY <1>i, <1>u, <1>3, <1>s DEF TlsForms
<1>6. Looked'
  <2>1. works[w].at = 4 => certTmp["crt"] = NoFile
    BY Places
  <2>2. \A o \in Signers : InFiles(o)' => InFiles(o) /\ o # w
    BY <1>3, Places DEF InFiles
  <2> QED
    BY <1>u, <1>s, <1>3, <2>1, <2>2 DEF TlsInv, Looked
<1>7. OneWriter'
  BY <1>4, <1>u DEF OneWriter
<1> QED
  BY <1>5, <1>6, <1>7 DEF TlsInv

(* A file is put in place.                                                  *)
LEMMA FileReplaced ==
    ASSUME TlsInv, NEW w \in Signers, PutInPlace(w),
           certTmp[FileAt(works[w].at)] # NoFile
    PROVE  TlsInv'
<1> DEFINE file == FileAt(works[w].at)
<1>i. TlsForms
  BY DEF TlsInv
<1>u. UNCHANGED <<identities, spoiled, served, config, network, agentPin>>
  BY DEF PutInPlace
<1>1. works[w].at \in {2, 4, 6} /\ InFiles(w)
  <2>1. works[w].at \in 1..6 /\ ~Filling(works[w].at) /\ InFiles(w)
    BY <1>i, TlsTyped DEF PutInPlace
  <2> QED
    BY <2>1, Places
<1>2. /\ file \in FileNames
      /\ works[w].at = 2 <=> file = "key"
      /\ works[w].at = 4 <=> file = "crt"
      /\ works[w].at = 6 <=> file = "trust"
  BY <1>1, Places DEF FileNames
<1>3. /\ certFiles' = [certFiles EXCEPT ![file] = certTmp[file]]
      /\ certTmp' = [certTmp EXCEPT ![file] = NoFile]
      /\ works' = [works EXCEPT ![w].at = @ + 1]
      /\ certTmp[file] # NoFile
  BY DEF PutInPlace
<1> HIDE DEF file
<1>4. certTmp[file] \in Anchors /\ (file # "trust" => certTmp[file] # 0)
  BY <1>i, <1>2, <1>3 DEF TlsForms, TlsInv, Looked, FileNames
<1>5. /\ certTmp' \in [FileNames -> Anchors \cup {NoFile}] /\ certTmp'[file] = NoFile
      /\ \A g \in FileNames \ {file} : certTmp'[g] = certTmp[g]
      /\ certFiles' \in [FileNames -> Anchors] /\ certFiles'[file] = certTmp[file]
      /\ \A g \in FileNames \ {file} : certFiles'[g] = certFiles[g]
  BY <1>i, <1>2, <1>3, <1>4 DEF TlsForms
<1>6. /\ works' \in [Signers -> TlsWorks']
      /\ works'[w].at = works[w].at + 1 /\ works'[w].mine = works[w].mine
      /\ works'[w].read = works[w].read /\ works'[w].goal = works[w].goal
      /\ \A o \in Signers \ {w} : works'[o] = works[o]
  BY <1>i, <1>1, <1>3, <1>u, WorkGoesOn
<1>s. /\ Anchors' = Anchors /\ Issued' = Issued
      /\ Imports' = Imports /\ Anchored' = Anchored
  BY <1>u, SameIdentities
<1>7. TlsForms'
  <2>1. certFiles'["key"] # 0 /\ certFiles'["crt"] # 0
    BY <1>i, <1>2, <1>4, <1>5 DEF TlsForms, FileNames
  <2> QED
    BY <1>i, <1>u, <1>5, <1>6, <1>s, <2>1 DEF TlsForms
<1>8. /\ \A o \in Signers : InFiles(o)' => InFiles(o)
      /\ works'[w].at \in {3, 5, 7}
  BY <1>1, <1>6, Places DEF InFiles
<1>9. Looked'
  <2>1. certTmp'["key"] # 0 /\ certTmp'["crt"] # 0
    BY <1>i, <1>5, TlsTyped DEF TlsInv, Looked, FileNames, NoFile
  <2>2. \A o \in Signers : works'[o].at # 0 => works'[o].goal \in TlsConfigs
    BY <1>1, <1>6 DEF TlsInv, Looked
  <2>3. \A o \in Signers : works'[o].mine = works[o].mine /\ works'[o].read = works[o].read
    BY <1>6
  <2>4. \A o \in Signers : InFiles(o)' =>
           /\ works'[o].mine \in Issued' /\ works'[o].read \in Issued'
           /\ works'[o].read \in Imports' => works'[o].mine \in Imports'
    BY <1>8, <1>s, <2>3 DEF TlsInv, Looked
  <2>5. certTmp'["crt"] # NoFile /\ (\E o \in Signers : works'[o].at = 4) =>
           \E v \in Signers : works'[v].at = 4 /\ works'[v].mine = certTmp'["crt"]
    <3>1. CASE works[w].at = 4
      BY <1>2, <1>5, <3>1
    <3>2. CASE works[w].at # 4
      <4>1. certTmp'["crt"] = certTmp["crt"]
        BY <1>2, <1>5, <3>2 DEF FileNames
      <4>2. \A o \in Signers : works'[o].at = 4 <=> works[o].at = 4
        BY <1>1, <1>6, <3>2
      <4> QED
        BY <2>3, <4>1, <4>2 DEF TlsInv, Looked
    <3> QED
      BY <3>1, <3>2
  <2> QED
    BY <2>1, <2>2, <2>4, <2>5 DEF Looked
<1>10. OneWriter'
  <2> SUFFICES ASSUME ~spoiled'
               PROVE  OneWriter'
    BY DEF OneWriter
  <2>1. /\ ~spoiled /\ served # 0
        /\ \A o \in Signers : InFiles(o) => o = w
    BY <1>1, <1>u DEF TlsInv, OneWriter
  <2>2. \A o \in Signers : works'[o].at \in 1..6 => o = w
    BY <1>i, <1>1, <1>6, <2>1, TlsTyped
  <2>3. CASE works[w].at = 2
    <3>1. certFiles'["key"] = works'[w].mine /\ works'[w].at = 3 /\ InFiles(w)'
      BY <1>2, <1>5, <1>6, <2>1, <2>3, Places DEF TlsInv, OneWriter, InFiles
    <3> QED
      BY <1>8, <1>u, <2>1, <2>2, <3>1 DEF OneWriter
  <2>4. CASE works[w].at = 4
    <3>1. /\ certFiles'["key"] = works'[w].mine /\ certFiles'["crt"] = works'[w].mine
          /\ works'[w].at = 5 /\ InFiles(w)'
      BY <1>2, <1>5, <1>6, <2>1, <2>4, Places DEF TlsInv, OneWriter, InFiles, FileNames
    <3> QED
      BY <1>8, <1>u, <2>1, <2>2, <3>1 DEF OneWriter
  <2>5. CASE works[w].at = 6
    <3>1. /\ certFiles'["key"] = works'[w].mine /\ certFiles'["crt"] = works'[w].mine
          /\ certFiles'["trust"] = Anchored[works'[w].mine]
          /\ works'[w].at = 7
      BY <1>2, <1>5, <1>6, <2>1, <2>5 DEF TlsInv, OneWriter, FileNames
    <3>2. Together(certFiles)'
      BY <1>s, <3>1 DEF Together, Mate
    <3>3. \A o \in Signers : works'[o].at \notin 1..6 /\ ~InFiles(o)'
      BY <1>8, <2>1, <2>2, <3>1, Places DEF InFiles
    <3> QED
      BY <1>u, <2>1, <3>2, <3>3 DEF OneWriter
  <2> QED
    BY <1>1, <2>3, <2>4, <2>5
<1> QED
  BY <1>7, <1>9, <1>10 DEF TlsInv

(* A caller does what it does last; its files were in place before.         *)
LEMMA WorkEnds ==
    ASSUME TlsInv, NEW w \in Signers, works[w].at = Last, works' = [works EXCEPT ![w] = AtRest],
           UNCHANGED <<filesVars, served, network>>,
           config' \in TlsConfigs, agentPin' \in Anchors
    PROVE  TlsInv'
<1>i. TlsForms
  BY DEF TlsInv
<1>s. /\ TlsWorks' = TlsWorks /\ Anchors' = Anchors /\ Issued' = Issued
      /\ Imports' = Imports /\ Anchored' = Anchored
  BY SameIdentities DEF filesVars
<1>1. /\ works' \in [Signers -> TlsWorks'] /\ works'[w].at = 0 /\ works[w].at = 7
      /\ \A o \in Signers \ {w} : works'[o] = works[o]
  BY <1>i, <1>s, WorkMoves, WorkRests, Places
<1>2. \A o \in Signers : InFiles(o)' <=> InFiles(o)
  BY <1>1, Places DEF InFiles
<1>3. TlsForms'
  BY <1>i, <1>1, <1>s DEF TlsForms, filesVars
<1>4. Looked'
  <2>1. \A o \in Signers : works'[o].at = 4 <=> works[o].at = 4
    BY <1>1
  <2>2. \A o \in Signers : works'[o].at # 0 => works'[o] = works[o]
    BY <1>1
  <2>3. \A o \in Signers : InFiles(o)' => works'[o] = works[o] /\ InFiles(o)
    BY <1>2, <2>2 DEF InFiles
  <2>4. certTmp' = certTmp
    BY DEF filesVars
  <2>5. \A o \in Signers : works'[o].at # 0 => works'[o].goal \in TlsConfigs
    BY <2>2 DEF TlsInv, Looked
  <2>6. \A o \in Signers : InFiles(o)' =>
           /\ works'[o].mine \in Issued' /\ works'[o].read \in Issued'
           /\ works'[o].read \in Imports' => works'[o].mine \in Imports'
    BY <1>s, <2>3 DEF TlsInv, Looked
  <2>7. certTmp'["crt"] # NoFile /\ (\E o \in Signers : works'[o].at = 4) =>
           \E v \in Signers : works'[v].at = 4 /\ works'[v].mine = certTmp'["crt"]
    BY <2>1, <2>2, <2>4 DEF TlsInv, Looked
  <2> QED
    BY <2>4, <2>5, <2>6, <2>7 DEF TlsInv, Looked
<1>5. Together(certFiles)' <=> Together(certFiles)
  BY <1>s DEF Together, Mate, filesVars
<1>6. OneWriter'
  BY <1>1, <1>2, <1>5, <1>s DEF TlsInv, OneWriter, filesVars
<1> QED
  BY <1>3, <1>4, <1>6 DEF TlsInv

(* The process starts again, over whatever files it finds.                  *)
LEMMA TlsBegun ==
    ASSUME TlsInv, Begun
    PROVE  TlsInv'
<1>i. TlsForms
  BY DEF TlsInv
<1>s. /\ TlsWorks' = TlsWorks /\ Anchors' = Anchors /\ Issued' = Issued
      /\ Imports' = Imports /\ Anchored' = Anchored
  BY SameIdentities DEF Begun
<1>1. works' \in [Signers -> TlsWorks'] /\ \A w \in Signers : works'[w].at = 0
  BY <1>i, <1>s, WorkRests DEF Begun
<1>2. served' \in Anchors /\ (Mate(certFiles) => served' # 0)
  BY <1>i, TlsTyped DEF Begun, Loaded
<1>3. TlsForms'
  BY <1>i, <1>1, <1>2, <1>s DEF TlsForms, Begun
<1>4. \A w \in Signers : ~InFiles(w)'
  BY <1>1, Places DEF InFiles
<1>5. Looked'
  BY <1>1, <1>4, <1>s DEF TlsInv, Looked, Begun
<1>6. OneWriter'
  <2> SUFFICES ASSUME ~spoiled'
               PROVE  OneWriter'
    BY DEF OneWriter
  <2>1. Together(certFiles)
    BY DEF TlsInv, OneWriter, Begun
  <2>2. Together(certFiles)'
    BY <1>s, <2>1 DEF Together, Mate, Begun
  <2> QED
    BY <1>1, <1>2, <1>4, <2>1, <2>2 DEF OneWriter, Together
<1> QED
  BY <1>3, <1>5, <1>6 DEF TlsInv

(* Nothing of the files or of the works moves.                              *)
LEMMA TlsElsewhere ==
    ASSUME TlsInv, UNCHANGED <<filesVars, served, works>>,
           config' \in TlsConfigs, network' \in NetAddresses, agentPin' \in Anchors
    PROVE  TlsInv'
<1>s. /\ TlsWorks' = TlsWorks /\ Anchors' = Anchors /\ Issued' = Issued
      /\ Imports' = Imports /\ Anchored' = Anchored
  BY SameIdentities DEF filesVars
<1>1. TlsForms'
  BY <1>s DEF TlsInv, TlsForms, filesVars
<1>2. Looked' /\ OneWriter'
  BY <1>s DEF TlsInv, Looked, OneWriter, InFiles, Together, Mate, filesVars
<1> QED
  BY <1>1, <1>2 DEF TlsInv

LEMMA TlsStays ==
    ASSUME TlsInv, [TlsNext]_tlsVars
    PROVE  TlsInv'
<1>i. TlsForms
  BY DEF TlsInv
<1>c. config \in TlsConfigs /\ network \in NetAddresses /\ agentPin \in Anchors
  BY <1>i DEF TlsForms
<1>r. "import" \in Signers /\ "watch" \in Signers /\ Regenerations \subseteq Signers
  BY DEF Signers
<1>1. CASE Import
  <2>1. PICK a \in NetAddresses : Issue(TRUE, {a})
    BY <1>1 DEF Import
  <2> QED
    BY <1>1, <1>c, <1>r, <2>1, WriterEnters DEF Import, Enters
<1>2. ASSUME NEW r \in Regenerations, Regenerate(r) PROVE TlsInv'
  <2>1. {config.ip, network} \in SUBSET NetAddresses
    BY <1>c DEF TlsConfigs
  <2> QED
    BY <1>2, <1>c, <1>r, <2>1, WriterEnters DEF Regenerate, Enters
<1>3. CASE Heal
  <2> DEFINE goal == [config EXCEPT !.ip = network]
  <2>1. goal \in TlsConfigs
    BY <1>c DEF TlsConfigs
  <2>2. CASE MayRegenerate
    <3>1. ~InFiles("watch")
      BY <1>3, <1>i, WorkRests, Places DEF Heal, InFiles
    <3>2. spoiled' = (spoiled \/ \E o \in Signers \ {"watch"} : InFiles(o))
      BY <1>3, <2>2, <3>1 DEF Heal
    <3>3. {network} \in SUBSET NetAddresses
      BY <1>c
    <3> QED
      BY <1>3, <1>r, <2>1, <2>2, <3>2, <3>3, WriterEnters DEF Heal
  <2>3. CASE ~MayRegenerate
    <3> DEFINE f == [AtRest EXCEPT !.at = Last, !.goal = goal]
    <3>1. /\ works' = [works EXCEPT !["watch"] = f]
          /\ UNCHANGED <<filesVars, served, config, network, agentPin>>
      BY <1>3, <2>3 DEF Heal, filesVars
    <3> HIDE DEF goal
    <3>2. f \in TlsWorks /\ f.at = 7 /\ f.goal = goal
      <4>1. 0 \in Anchors /\ Last \in 0..Last /\ Last = 7
        BY <1>i, TlsTyped, Places
      <4> QED
        BY <2>1, <4>1 DEF AtRest, TlsWorks
    <3> HIDE DEF f
    <3>s. /\ TlsWorks' = TlsWorks /\ Anchors' = Anchors /\ Issued' = Issued
          /\ Imports' = Imports /\ Anchored' = Anchored
      BY <3>1, SameIdentities DEF filesVars
    <3>3. /\ works' \in [Signers -> TlsWorks'] /\ works'["watch"] = f
          /\ \A o \in Signers \ {"watch"} : works'[o] = works[o]
      BY <1>i, <1>r, <3>1, <3>2, <3>s, WorkMoves
    <3>4. works["watch"].at = 0
      BY <1>3, <1>i, WorkRests DEF Heal
    <3>5. \A o \in Signers : InFiles(o)' <=> InFiles(o)
      BY <3>2, <3>3, <3>4, Places DEF InFiles
    <3>6. TlsForms'
      BY <1>i, <3>1, <3>3, <3>s DEF TlsForms, filesVars
    <3>7. Looked'
      <4>1. \A o \in Signers : works'[o].at = 4 <=> works[o].at = 4
        BY <3>2, <3>3, <3>4
      <4>2. \A o \in Signers \ {"watch"} : works'[o] = works[o]
        BY <3>3
      <4>3. \A o \in Signers : InFiles(o)' => works'[o] = works[o] /\ InFiles(o)
        BY <3>2, <3>3, <3>5, Places DEF InFiles
      <4>4. certTmp' = certTmp
        BY <3>1 DEF filesVars
      <4>5. \A o \in Signers : works'[o].at # 0 => works'[o].goal \in TlsConfigs
        BY <2>1, <3>2, <3>3, <4>2 DEF TlsInv, Looked
      <4>6. \A o \in Signers : InFiles(o)' =>
               /\ works'[o].mine \in Issued' /\ works'[o].read \in Issued'
               /\ works'[o].read \in Imports' => works'[o].mine \in Imports'
        BY <3>s, <4>3 DEF TlsInv, Looked
      <4>7. \A o \in Signers : works'[o].at = 4 => works'[o].mine = works[o].mine
        BY <3>2, <3>3, <4>2
      <4>8. certTmp'["crt"] # NoFile /\ (\E o \in Signers : works'[o].at = 4) =>
               \E v \in Signers : works'[v].at = 4 /\ works'[v].mine = certTmp'["crt"]
        BY <4>1, <4>7, <4>4 DEF TlsInv, Looked
      <4> QED
        BY <4>4, <4>5, <4>6, <4>8 DEF TlsInv, Looked
    <3>8. Together(certFiles)' <=> Together(certFiles)
      BY <3>1, <3>s DEF Together, Mate, filesVars
    <3>9. OneWriter'
      BY <3>1, <3>2, <3>3, <3>4, <3>5, <3>8, <3>s DEF TlsInv, OneWriter, filesVars
    <3> QED
      BY <3>6, <3>7, <3>9 DEF TlsInv
  <2> QED
    BY <2>2, <2>3
<1>4. ASSUME NEW w \in Signers, TlsStep(w) PROVE TlsInv'
  <2>1. CASE FinishWrite(w)
    <3>1. agentPin' \in Anchors
      BY <1>c, <1>i, <2>1, TlsTyped DEF FinishWrite, Retrusted
    <3> QED
      BY <1>c, <2>1, <3>1, WorkEnds DEF FinishWrite
  <2> QED
    BY <1>4, <2>1, FileFilled, FileReplaced, WriterGivesUp DEF TlsStep
<1>5. CASE AdvertiseNew
  <2>1. works["watch"].goal \in TlsConfigs
    BY <1>5, <1>r, Places DEF AdvertiseNew, TlsInv, Looked
  <2> QED
    BY <1>5, <1>c, <1>r, <2>1, WorkEnds DEF AdvertiseNew
<1>6. CASE RestartBackend \/ Crash
  BY <1>6, TlsBegun DEF RestartBackend, Crash
<1>7. CASE RestartAsked \/ NetworkMoves
  BY <1>7, <1>c, TlsElsewhere DEF RestartAsked, NetworkMoves
<1>8. CASE SaveConfig
  <2>1. config' \in TlsConfigs
    BY <1>8 DEF SaveConfig, TlsConfigs
  <2> QED
    BY <1>8, <1>c, <2>1, TlsElsewhere DEF SaveConfig
<1>9. CASE UNCHANGED tlsVars
  BY <1>9, <1>c, TlsElsewhere DEF tlsVars, filesVars
<1> QED
  BY <1>1, <1>2, <1>3, <1>4, <1>5, <1>6, <1>7, <1>8, <1>9 DEF TlsNext

LEMMA TlsStarts == TlsInit => TlsInv
<1> SUFFICES ASSUME TlsInit
             PROVE  TlsInv
  OBVIOUS
<1>1. PICK a \in NetAddresses, imported \in BOOLEAN :
        /\ identities = <<[imported |-> imported, names |-> {a}]>>
        /\ certFiles = [f \in FileNames |-> IF f = "trust" /\ imported THEN 0 ELSE 1]
        /\ certTmp = [f \in FileNames |-> NoFile]
        /\ served = 1 /\ restarting = FALSE
        /\ works = [w \in Signers |-> AtRest]
        /\ config = [ip |-> a, mode |-> "ip"]
        /\ network = a
        /\ agentPin = IF imported THEN 0 ELSE 1
        /\ spoiled = FALSE
  BY DEF TlsInit, FileNames
<1> DEFINE first == [imported |-> imported, names |-> {a}]
<1>2. first \in Identities /\ first.imported = imported /\ identities = <<first>>
  BY <1>1 DEF Identities
<1> HIDE DEF first
<1>3. /\ identities \in Seq(Identities) /\ Len(identities) = 1
      /\ identities[1] = first
  BY <1>2
<1>4. 1 \in Issued /\ 0 \in Anchors /\ 1 \in Anchors
  BY <1>3 DEF Issued, Anchors
<1>5. AtRest \in TlsWorks /\ AtRest.at = 0
  <2>1. 0 \in 0..Last
    BY Places
  <2> QED
    BY <1>4, <2>1 DEF AtRest, TlsWorks
<1>6. works \in [Signers -> TlsWorks] /\ \A w \in Signers : works[w].at = 0 /\ ~InFiles(w)
  BY <1>1, <1>5, Places DEF InFiles
<1>7. certFiles \in [FileNames -> Anchors] /\ certFiles["key"] = 1 /\ certFiles["crt"] = 1
      /\ certFiles["trust"] = IF imported THEN 0 ELSE 1
  BY <1>1, <1>4 DEF FileNames
<1>8. config \in TlsConfigs
  BY <1>1 DEF TlsConfigs
<1>9. TlsForms
  <2>1. certTmp \in [FileNames -> Anchors \cup {NoFile}]
    BY <1>1
  <2>2. /\ served \in Anchors /\ agentPin \in Anchors
        /\ network \in NetAddresses /\ spoiled \in BOOLEAN
    BY <1>1, <1>4
  <2>3. certFiles["key"] # 0 /\ certFiles["crt"] # 0
    BY <1>7
  <2> QED
    BY <1>3, <1>6, <1>7, <1>8, <2>1, <2>2, <2>3 DEF TlsForms
<1>10. Looked
  BY <1>1, <1>6 DEF Looked, FileNames, NoFile
<1>11. Anchored[1] = IF imported THEN 0 ELSE 1
  BY <1>2, <1>3, <1>4 DEF Anchored, Anchor, Imported
<1>12. OneWriter
  BY <1>1, <1>6, <1>7, <1>11 DEF OneWriter, Together, Mate
<1> QED
  BY <1>9, <1>10, <1>12 DEF TlsInv

LEMMA TlsSound == TlsInv => TlsTypeOK /\ FilesBelongTogether
<1> SUFFICES ASSUME TlsInv
             PROVE  TlsTypeOK /\ FilesBelongTogether
  OBVIOUS
<1>i. TlsForms
  BY DEF TlsInv
<1>1. \A i \in 1..Len(identities) :
        identities[i] \in [imported : BOOLEAN, names : SUBSET NetAddresses]
  <2>1. identities \in Seq(Identities)
    BY <1>i DEF TlsForms
  <2>2. \A i \in 1..Len(identities) : identities[i] \in Identities
    BY <2>1
  <2> QED
    BY <2>2 DEF Identities
<1>2. Anchors \cup {NoFile} \subseteq NoFile..Len(identities)
  BY <1>i, TlsTyped DEF Anchors, NoFile
<1>3. certTmp \in [{"key", "crt", "trust"} -> NoFile..Len(identities)]
  BY <1>i, <1>2 DEF TlsForms, FileNames
<1>4. /\ certFiles \in [{"key", "crt", "trust"} -> 0..Len(identities)]
      /\ {certFiles["key"], certFiles["crt"]} \subseteq 1..Len(identities)
      /\ served \in 0..Len(identities) /\ agentPin \in 0..Len(identities)
      /\ config \in [ip : NetAddresses, mode : {"ip", "all"}]
  BY <1>i, TlsTyped DEF TlsForms, FileNames, Anchors, Issued, TlsConfigs
<1>5. \A w \in Signers : works[w].at \in 0..Last
  BY <1>i, TlsTyped, Places
<1>6. TlsTypeOK
  BY <1>1, <1>3, <1>4, <1>5 DEF TlsTypeOK
<1>7. Anchored[certFiles["crt"]] = Anchor(certFiles["crt"])
  BY <1>i, TlsTyped DEF Anchored
<1>8. FilesBelongTogether
  BY <1>7 DEF TlsInv, OneWriter, FilesBelongTogether, Together
<1> QED
  BY <1>6, <1>8

(* A certificate gives way only to that of a writer that had looked.        *)
LEMMA GivesWayTo ==
    ASSUME TlsInv, [TlsNext]_tlsVars,
           Imported(certFiles["crt"]), ~Imported(certFiles'["crt"])
    PROVE  \E w \in Signers : /\ works[w].mine = certFiles'["crt"]
                              /\ works[w].read # certFiles["crt"]
<1>i. TlsForms
  BY DEF TlsInv
<1>1. certFiles'["crt"] # certFiles["crt"]
  OBVIOUS
<1>2. PICK w \in Signers : PutInPlace(w) /\ certFiles' # certFiles
  BY <1>1 DEF TlsNext, tlsVars, filesVars, TlsStep, Import, Heal, AdvertiseNew, Regenerate, Fill,
              FinishWrite, RestartAsked, RestartBackend, Crash, Begun, SaveConfig, NetworkMoves
<1>3. works[w].at \in {2, 4, 6}
  <2>1. works[w].at \in 1..6 /\ ~Filling(works[w].at)
    BY <1>2, <1>i, TlsTyped DEF PutInPlace
  <2> QED
    BY <2>1, Places
<1>4. /\ certTmp[FileAt(works[w].at)] # NoFile
      /\ certFiles' = [certFiles EXCEPT ![FileAt(works[w].at)] = certTmp[FileAt(works[w].at)]]
  BY <1>2 DEF PutInPlace
<1>5. works[w].at = 4 /\ certTmp["crt"] # NoFile /\ certFiles'["crt"] = certTmp["crt"]
  <2>1. certFiles \in [FileNames -> Anchors] /\ "crt" \in FileNames
    BY <1>i, TlsTyped DEF TlsForms
  <2> QED
    BY <1>1, <1>3, <1>4, <2>1, Places
<1>6. PICK v \in Signers : works[v].at = 4 /\ works[v].mine = certTmp["crt"]
  BY <1>5 DEF TlsInv, Looked
<1>7. /\ works[v].mine \in Issued /\ works[v].read \in Issued
      /\ works[v].read \in Imports => works[v].mine \in Imports
  BY <1>i, <1>6, TlsTyped DEF TlsInv, Looked
<1>8. certFiles["crt"] \in Imports /\ works[v].mine \notin Imports
  BY <1>5, <1>6, <1>i, TlsTyped DEF Imports
<1> QED
  BY <1>5, <1>6, <1>7, <1>8

LEMMA TlsKept == TlsInit /\ [][TlsNext]_tlsVars => CertificateStands
<1>1. TlsInv /\ [TlsNext]_tlsVars =>
        [Imported(certFiles["crt"]) /\ ~Imported(certFiles'["crt"])
            => \E w \in Signers : /\ works[w].mine = certFiles'["crt"]
                                  /\ works[w].read # certFiles["crt"]]_tlsVars
  BY GivesWayTo
<1>2. TlsInv /\ [TlsNext]_tlsVars => TlsInv'
  BY TlsStays
<1> QED
  BY <1>1, <1>2, TlsStarts, TlsSound, PTL DEF CertificateStands, ImportedStands

----------------------------------------------------------------------
(* The download portal.                                                     *)

CallNames == {"start", "start again", "stop"}
BusyCalls == [at : {"clean", "spawn", "wait", "kill", "grace"}, pid : 0..MaxProcesses]
PortalRows == [under : 1..MaxPasswords, raced : BOOLEAN]
PortalLogins == [at : {"verifying"}, under : 1..MaxPasswords, right : BOOLEAN]
PortalStates == {"booting", "up", "ending"}
PortalProcesses == [id : PIds, port : Ports, state : PortalStates]

AccountForms ==
    /\ issued \in 0..MaxPasswords /\ account \in 0..issued
    /\ sessions \subseteq PortalRows
    /\ login \in {Quiet} \cup PortalLogins
    /\ strikes \in 0..Strikes /\ (login # Quiet => strikes < Strikes)
    /\ change \in {Quiet, [at |-> "stored"]}
    /\ logins \in 0..MaxLogins

ProcessForms ==
    /\ processes \subseteq PortalProcesses
    /\ spawned \in 0..MaxProcesses /\ pidFile \in 0..spawned
    /\ calls \in [CallNames -> {Quiet} \cup BusyCalls]
    /\ confPort \in Ports

(* While calls are made one at a time, the only process there is is the one *)
(* of the pid file, and the one that the call under way is about.           *)
OneProcess ==
    ~tangled =>
        /\ \A c, d \in CallNames : calls[c] # Quiet /\ calls[d] # Quiet => c = d
        /\ \A p \in processes : p.id = pidFile
        /\ \A c \in CallNames : calls[c].at \in {"clean", "spawn"} => processes = {}
        /\ \A c \in CallNames : calls[c].at \in {"wait", "kill", "grace"} =>
                                    \A p \in processes : p.id = calls[c].pid

PortalInv == AccountForms /\ SessionsAreCurrent /\ ProcessForms /\ OneProcess

LEMMA PortalNumbers ==
    {Strikes, MaxPasswords, MaxProcesses, MaxLogins} \subseteq Nat
BY PortalBounds

LEMMA PortalSound == PortalInv => PortalIsTracked
<1> SUFFICES ASSUME PortalInv
             PROVE  PortalTypeOK /\ ServingIsTracked
  BY DEF PortalInv, PortalIsTracked
<1>1. /\ login.at \in {"none", "verifying"} /\ change.at \in {"none", "stored"}
  BY DEF PortalInv, AccountForms, PortalLogins, Quiet
<1>2. calls \in [CallNames -> {Quiet} \cup BusyCalls]
  BY DEF PortalInv, ProcessForms
<1>3. DOMAIN calls = CallNames
  BY <1>2
<1>4. \A c \in CallNames : calls[c].at \in {"none", "clean", "spawn", "wait", "kill", "grace"}
  BY <1>2 DEF BusyCalls, Quiet
<1>5. PortalTypeOK
  BY <1>1, <1>3, <1>4
     DEF PortalInv, AccountForms, ProcessForms, PortalTypeOK, PortalRows, PortalProcesses,
         PortalStates
<1>6. ServingIsTracked
  BY DEF PortalInv, OneProcess, ServingIsTracked, Serving
<1> QED
  BY <1>5, <1>6

(* What login handles, when it handles one, and what it inserts.            *)
LEMMA LoginUnderWay ==
    ASSUME AccountForms, login.at = "verifying"
    PROVE  login \in PortalLogins /\ login # Quiet /\ Row \in PortalRows
<1>1. login # Quiet
  BY DEF Quiet
<1>2. login \in PortalLogins
  BY <1>1 DEF AccountForms
<1>3. login.under \in 1..MaxPasswords
  BY <1>2 DEF PortalLogins
<1>4. (account # login.under \/ change # Quiet) \in BOOLEAN
  OBVIOUS
<1> QED
  BY <1>1, <1>2, <1>3, <1>4 DEF Row, PortalRows

(* A login, a session's end, or a credentials route.                        *)
AccountStep ==
    \/ LoginReads \/ LoginRefused \/ LoginAdmits \/ LockRunsOut \/ EndSession
    \/ SetCredentials \/ RemoveCredentials \/ EndSessions \/ ControllerStops

LEMMA AccountKept ==
    ASSUME AccountForms, SessionsAreCurrent, AccountStep
    PROVE  AccountForms' /\ SessionsAreCurrent' /\ UNCHANGED processVars
<1>n. /\ Strikes \in Nat /\ MaxPasswords \in Nat /\ MaxLogins \in Nat
  BY PortalNumbers
<1>q. Quiet # [at |-> "stored"] /\ Quiet.at = "none"
  BY DEF Quiet
<1>1. CASE LoginReads
  <2>1. account \in 1..MaxPasswords /\ strikes < Strikes
    BY <1>1, <1>n DEF LoginReads, AccountForms
  <2>2. login' \in PortalLogins
    BY <1>1, <2>1 DEF LoginReads, PortalLogins
  <2>3. logins' \in 0..MaxLogins
    BY <1>1, <1>n DEF LoginReads, AccountForms
  <2> QED
    BY <1>1, <2>1, <2>2, <2>3 DEF LoginReads, AccountForms, SessionsAreCurrent
<1>2. CASE LoginRefused
  <2>1. login # Quiet
    BY <1>2, LoginUnderWay DEF LoginRefused
  <2>2. strikes' \in 0..Strikes
    BY <1>2, <1>n, <2>1 DEF LoginRefused, AccountForms
  <2> QED
    BY <1>2, <2>2 DEF LoginRefused, AccountForms, SessionsAreCurrent
<1>3. CASE LoginAdmits
  <2>1. Row \in PortalRows
    BY <1>3, LoginUnderWay DEF LoginAdmits
  <2>2. 0 \in 0..Strikes
    BY <1>n
  <2>3. AccountForms' /\ UNCHANGED processVars
    BY <1>3, <2>1, <2>2 DEF LoginAdmits, AccountForms
  <2>4. change = Quiet => Row.under = account \/ Row.raced
    BY DEF Row
  <2> QED
    BY <1>3, <2>3, <2>4 DEF LoginAdmits, SessionsAreCurrent
<1>4. CASE LockRunsOut
  BY <1>4, <1>n DEF LockRunsOut, AccountForms, SessionsAreCurrent
<1>5. CASE EndSession
  BY <1>5 DEF EndSession, AccountForms, SessionsAreCurrent
<1>6. CASE SetCredentials
  BY <1>6, <1>n, <1>q DEF SetCredentials, AccountForms, SessionsAreCurrent
<1>7. CASE RemoveCredentials
  BY <1>7, <1>n, <1>q DEF RemoveCredentials, AccountForms, SessionsAreCurrent
<1>8. CASE EndSessions
  BY <1>8 DEF EndSessions, KeptSessions, AccountForms, SessionsAreCurrent
<1>9. CASE ControllerStops
  <2>1. \A s \in sessions : /\ [s EXCEPT !.raced = TRUE] \in PortalRows
                            /\ [s EXCEPT !.raced = TRUE].raced
    BY DEF AccountForms, PortalRows
  <2> QED
    BY <1>9, <2>1 DEF ControllerStops, AccountForms, SessionsAreCurrent
<1> QED
  BY <1>1, <1>2, <1>3, <1>4, <1>5, <1>6, <1>7, <1>8, <1>9 DEF AccountStep

(* What a call is, by where it is.                                          *)
LEMMA CallUnderWay ==
    ASSUME ProcessForms
    PROVE  /\ DOMAIN calls = CallNames /\ "stop" \in CallNames
           /\ \A c \in CallNames : calls[c].at # "none" <=> calls[c] # Quiet
           /\ \A c \in CallNames : calls[c].at # "none" => calls[c] \in BusyCalls
           /\ \A f \in BusyCalls : f.at # "none" /\ f # Quiet /\ f.pid \in 0..MaxProcesses
           /\ Quiet.at = "none"
<1>1. calls \in [CallNames -> {Quiet} \cup BusyCalls]
  BY DEF ProcessForms
<1>2. /\ Quiet.at = "none"
      /\ \A f \in BusyCalls : f.at # "none" /\ f.pid \in 0..MaxProcesses
  BY DEF Quiet, BusyCalls
<1>3. \A f \in BusyCalls : f # Quiet
  BY <1>2
<1>4. \A c \in CallNames : calls[c] = Quiet \/ calls[c] \in BusyCalls
  BY <1>1
<1> QED
  BY <1>1, <1>2, <1>3, <1>4 DEF CallNames

(* One call moves: only it, to what it moves to.                            *)
LEMMA CallMoves ==
    ASSUME ProcessForms, NEW c \in CallNames, NEW f, f \in BusyCalls \/ f = Quiet,
           calls' = [calls EXCEPT ![c] = f]
    PROVE  /\ calls' \in [CallNames -> {Quiet} \cup BusyCalls]
           /\ calls'[c] = f
           /\ \A d \in CallNames \ {c} : calls'[d] = calls[d]
<1>1. calls \in [CallNames -> {Quiet} \cup BusyCalls]
  BY DEF ProcessForms
<1> QED
  BY <1>1

LEMMA CallStep ==
    ASSUME ProcessForms, NEW c \in CallNames, calls[c].at # "none",
           NEW at \in {"spawn", "grace"}, calls' = [calls EXCEPT ![c].at = at]
    PROVE  /\ calls' \in [CallNames -> {Quiet} \cup BusyCalls]
           /\ calls'[c] \in BusyCalls /\ calls'[c].at = at /\ calls'[c].pid = calls[c].pid
           /\ \A d \in CallNames \ {c} : calls'[d] = calls[d]
<1> DEFINE f == [calls[c] EXCEPT !.at = at]
<1>1. calls[c] \in BusyCalls
  BY CallUnderWay
<1>2. f \in BusyCalls /\ f.at = at /\ f.pid = calls[c].pid
  BY <1>1 DEF BusyCalls
<1>3. calls' = [calls EXCEPT ![c] = f]
  OBVIOUS
<1> HIDE DEF f
<1> QED
  BY <1>2, <1>3, CallMoves

(* A step of a call, of a process, or of the page that shows them.          *)
ProcessStep ==
    \/ \E c \in DOMAIN calls : Call(c)
    \/ Clean \/ Spawn \/ Boot \/ StartEnds \/ Kill \/ ProcessExits \/ StopEnds \/ SetPort

LEMMA ProcessKept ==
    ASSUME ProcessForms, OneProcess, ProcessStep
    PROVE  ProcessForms' /\ OneProcess'
<1>n. MaxProcesses \in Nat /\ 0 \in 0..MaxProcesses /\ pidFile \in 0..MaxProcesses
      /\ spawned \in Nat
  BY PortalNumbers DEF ProcessForms
<1>c. DOMAIN calls = CallNames
  BY CallUnderWay
<1>1. ASSUME NEW c \in CallNames, Call(c) PROVE ProcessForms' /\ OneProcess'
  <2> DEFINE f == [at |-> IF c = "stop" THEN "kill" ELSE "clean", pid |-> pidFile]
  <2>1. /\ f \in BusyCalls /\ f.pid = pidFile
        /\ f.at = IF c = "stop" THEN "kill" ELSE "clean"
    BY <1>n DEF BusyCalls
  <2>2. calls' = [calls EXCEPT ![c] = f]
    BY <1>1 DEF Call
  <2> HIDE DEF f
  <2>3. /\ calls' \in [CallNames -> {Quiet} \cup BusyCalls] /\ calls'[c] = f
        /\ \A d \in CallNames \ {c} : calls'[d] = calls[d]
    BY <2>1, <2>2, CallMoves
  <2>4. ProcessForms'
    BY <1>1, <2>3 DEF Call, ProcessForms
  <2>5. ASSUME ~tangled'
        PROVE  ~tangled /\ \A d \in CallNames \ {c} : calls[d] = Quiet /\ calls'[d] = Quiet
    BY <1>1, <1>c, <2>3, <2>5 DEF Call, Others
  <2>6. ~Live(pidFile) /\ ~tangled => processes = {}
    BY DEF OneProcess, Live
  <2>7. OneProcess'
    BY <1>1, <2>1, <2>3, <2>5, <2>6, CallUnderWay DEF Call, Begins, OneProcess
  <2> QED
    BY <2>4, <2>7
<1>2. ASSUME NEW c \in CallNames, calls[c].at = "clean", pidFile' = 0,
             calls' = [calls EXCEPT ![c].at = "spawn"],
             UNCHANGED <<processes, spawned, confPort, tangled>>
      PROVE  ProcessForms' /\ OneProcess'
  <2>1. /\ calls' \in [CallNames -> {Quiet} \cup BusyCalls] /\ calls'[c].at = "spawn"
        /\ \A d \in CallNames \ {c} : calls'[d] = calls[d]
    BY <1>2, CallStep
  <2>2. ProcessForms'
    BY <1>2, <1>n, <2>1 DEF ProcessForms
  <2>3. OneProcess'
    BY <1>2, <2>1, CallUnderWay DEF OneProcess
  <2> QED
    BY <2>2, <2>3
<1>3. ASSUME ~Live(pidFile), pidFile' = 0,
             UNCHANGED <<processes, spawned, calls, confPort, tangled>>
      PROVE  ProcessForms' /\ OneProcess'
  <2>1. ProcessForms'
    BY <1>3, <1>n DEF ProcessForms
  <2>2. OneProcess'
    BY <1>3 DEF OneProcess, Live
  <2> QED
    BY <2>1, <2>2
<1>4. ASSUME NEW c \in CallNames, calls[c].at = "spawn", spawned < MaxProcesses,
             spawned' = spawned + 1, pidFile' = spawned',
             processes' = processes \cup
                 {[id |-> spawned', port |-> confPort, state |-> "booting"]},
             calls' = [calls EXCEPT ![c] = [at |-> "wait", pid |-> spawned']],
             UNCHANGED <<confPort, tangled>>
      PROVE  ProcessForms' /\ OneProcess'
  <2> DEFINE f == [at |-> "wait", pid |-> spawned']
             p == [id |-> spawned', port |-> confPort, state |-> "booting"]
  <2>1. spawned' \in 1..MaxProcesses
    BY <1>4, <1>n DEF ProcessForms
  <2>2. f \in BusyCalls /\ f.at = "wait" /\ f.pid = spawned'
    BY <2>1, <1>n DEF BusyCalls
  <2>3. p \in PortalProcesses /\ p.id = spawned'
    BY <2>1 DEF PortalProcesses, PIds, PortalStates, ProcessForms
  <2>4. calls' = [calls EXCEPT ![c] = f] /\ processes' = processes \cup {p}
    BY <1>4
  <2> HIDE DEF f, p
  <2>5. /\ calls' \in [CallNames -> {Quiet} \cup BusyCalls] /\ calls'[c] = f
        /\ \A d \in CallNames \ {c} : calls'[d] = calls[d]
    BY <2>2, <2>4, CallMoves
  <2>6. ProcessForms'
    BY <1>4, <1>n, <2>1, <2>3, <2>4, <2>5 DEF ProcessForms
  <2>7. OneProcess'
    BY <1>4, <2>2, <2>3, <2>4, <2>5, CallUnderWay DEF OneProcess
  <2> QED
    BY <2>6, <2>7
<1>5. CASE Boot
  <2>1. PICK p \in processes :
            \/ processes' = (processes \ {p}) \cup {[p EXCEPT !.state = "up"]}
            \/ processes' = processes \ {p}
    BY <1>5 DEF Boot
  <2>2. [p EXCEPT !.state = "up"] \in PortalProcesses /\ [p EXCEPT !.state = "up"].id = p.id
    BY DEF ProcessForms, PortalProcesses, PortalStates
  <2>3. ProcessForms'
    BY <1>5, <2>1, <2>2 DEF Boot, ProcessForms
  <2>4. OneProcess'
    <3>1. \A q \in processes' : \E r \in processes : q.id = r.id
      BY <2>1, <2>2
    <3>2. UNCHANGED <<pidFile, calls, tangled>>
      BY <1>5 DEF Boot
    <3> QED
      BY <3>1, <3>2 DEF OneProcess
  <2> QED
    BY <2>3, <2>4
<1>6. ASSUME NEW c \in CallNames, calls[c].at = "wait",
             \/ UNCHANGED pidFile
             \/ ~Live(calls[c].pid) /\ pidFile' = 0,
             calls' = [calls EXCEPT ![c] = Quiet],
             UNCHANGED <<processes, spawned, confPort, tangled>>
      PROVE  ProcessForms' /\ OneProcess'
  <2>1. /\ calls' \in [CallNames -> {Quiet} \cup BusyCalls] /\ calls'[c] = Quiet
        /\ \A d \in CallNames \ {c} : calls'[d] = calls[d]
    BY <1>6, CallMoves
  <2>2. ProcessForms'
    BY <1>6, <1>n, <2>1 DEF ProcessForms
  <2>3. OneProcess'
    BY <1>6, <2>1, CallUnderWay DEF OneProcess, Live
  <2> QED
    BY <2>2, <2>3
<1>7. CASE Kill
  <2>1. /\ calls' \in [CallNames -> {Quiet} \cup BusyCalls]
        /\ calls'["stop"].at = "grace" /\ calls'["stop"].pid = calls["stop"].pid
        /\ calls'["stop"] # Quiet /\ calls["stop"] # Quiet
        /\ \A d \in CallNames \ {"stop"} : calls'[d] = calls[d]
    BY <1>7, CallStep, CallUnderWay DEF Kill
  <2>2. \A p \in processes : /\ [p EXCEPT !.state = "ending"] \in PortalProcesses
                             /\ [p EXCEPT !.state = "ending"].id = p.id
    BY DEF ProcessForms, PortalProcesses, PortalStates
  <2>3. ProcessForms'
    BY <1>7, <2>1, <2>2 DEF Kill, ProcessForms
  <2>4. OneProcess'
    <3>1. \A q \in processes' : \E r \in processes : q.id = r.id
      BY <1>7, <2>2 DEF Kill
    <3>2. UNCHANGED <<pidFile, tangled>>
      BY <1>7 DEF Kill
    <3>3. \A c \in CallNames \ {"stop"} : ~tangled => calls[c] = Quiet
      BY <2>1, CallUnderWay DEF OneProcess
    <3>4. ~tangled => \A p \in processes : p.id = calls["stop"].pid
      BY <1>7, CallUnderWay DEF Kill, OneProcess
    <3> QED
      BY <2>1, <3>1, <3>2, <3>3, <3>4, CallUnderWay DEF OneProcess
  <2> QED
    BY <2>3, <2>4
<1>8. CASE ProcessExits
  BY <1>8 DEF ProcessExits, ProcessForms, OneProcess
<1>9. CASE StopEnds
  <2>1. /\ calls' \in [CallNames -> {Quiet} \cup BusyCalls] /\ calls'["stop"] = Quiet
        /\ \A d \in CallNames \ {"stop"} : calls'[d] = calls[d]
    BY <1>9, CallMoves, CallUnderWay DEF StopEnds
  <2>2. ProcessForms'
    BY <1>9, <1>n, <2>1 DEF StopEnds, ProcessForms
  <2>3. OneProcess'
    BY <1>9, <2>1, CallUnderWay DEF StopEnds, OneProcess, Live
  <2> QED
    BY <2>2, <2>3
<1>10. CASE SetPort
  BY <1>10 DEF SetPort, ProcessForms, OneProcess
<1>11. CASE Clean
  BY <1>11, <1>c, <1>2, <1>3 DEF Clean
<1>12. CASE Spawn
  BY <1>12, <1>c, <1>4 DEF Spawn
<1>13. CASE StartEnds
  BY <1>13, <1>c, <1>6 DEF StartEnds
<1> QED
  BY <1>1, <1>c, <1>5, <1>7, <1>8, <1>9, <1>10, <1>11, <1>12, <1>13 DEF ProcessStep

LEMMA PortalStarts == PortalInit => PortalInv
<1> SUFFICES ASSUME PortalInit
             PROVE  PortalInv
  OBVIOUS
<1>1. AccountForms /\ SessionsAreCurrent
  <2>1. 0 \in 0..MaxPasswords /\ 0 \in 0..Strikes /\ 0 \in 0..MaxLogins /\ 0 \in 0..0
    BY PortalNumbers
  <2> QED
    BY <2>1 DEF PortalInit, AccountForms, SessionsAreCurrent
<1>2. calls \in [CallNames -> {Quiet} \cup BusyCalls] /\ \A c \in CallNames : calls[c] = Quiet
  BY DEF PortalInit, CallNames
<1>3. ProcessForms
  <2>1. 0 \in 0..MaxProcesses /\ 0 \in 0..0
    BY PortalNumbers
  <2> QED
    BY <1>2, <2>1 DEF PortalInit, ProcessForms
<1>4. OneProcess
  BY <1>2, <1>3, CallUnderWay DEF PortalInit, OneProcess
<1> QED
  BY <1>1, <1>3, <1>4 DEF PortalInv

LEMMA PortalKept == PortalSpec => []PortalInv
<1>1. PortalInv /\ [PortalNext]_portalVars => PortalInv'
  <2> SUFFICES ASSUME PortalInv, [PortalNext]_portalVars
               PROVE  PortalInv'
    OBVIOUS
  <2>1. CASE AccountStep
    <3>1. UNCHANGED processVars
      BY <2>1, AccountKept DEF PortalInv
    <3>2. ProcessForms' /\ OneProcess'
      BY <3>1 DEF processVars, PortalInv, ProcessForms, OneProcess
    <3> QED
      BY <2>1, <3>2, AccountKept DEF PortalInv
  <2>2. CASE ProcessStep
    <3>1. AccountForms' /\ SessionsAreCurrent'
      <4>1. \/ UNCHANGED accountVars
            \/ /\ login' = Quiet /\ strikes' = 0
               /\ UNCHANGED <<account, issued, sessions, change, logins>>
        BY <2>2 DEF ProcessStep, Call, Clean, Spawn, Boot, StartEnds, Kill, ProcessExits,
                    StopEnds, SetPort
      <4>2. 0 \in 0..Strikes
        BY PortalNumbers
      <4> QED
        BY <4>1, <4>2 DEF accountVars, PortalInv, AccountForms, SessionsAreCurrent
    <3> QED
      BY <2>2, <3>1, ProcessKept DEF PortalInv
  <2>3. CASE UNCHANGED portalVars
    BY <2>3 DEF portalVars, accountVars, processVars, PortalInv, AccountForms, ProcessForms,
                SessionsAreCurrent, OneProcess
  <2> QED
    BY <2>1, <2>2, <2>3 DEF PortalNext, AccountStep, ProcessStep
<1> QED
  BY <1>1, PortalStarts, PTL DEF PortalSpec

----------------------------------------------------------------------
(* The relay.                                                               *)

RelayRows == [host : Hops, user : RelayUsers]
NewPosts == [merged : RelayRows, fields : SUBSET {"host", "user"}]
Posts == NewPosts \cup {NoRow}
SavePoints == {"none", "store", "look", "create", "public", "remove", "keygen", "answer"}
Saves == [at : SavePoints, post : Posts, key : 0..minted]

RelayForms ==
    /\ stored \in RelayRows
    /\ minted \in 0..MaxKeys /\ priv \in 0..minted /\ pub \in 0..minted
    /\ shown \subseteq 1..minted
    /\ savers \in [Savers -> Saves]

(* What is stored, or is about to be, was validated as a whole.             *)
Validated ==
    /\ Works(stored)
    /\ \A s \in Savers : savers[s].at = "store" =>
           savers[s].post \in NewPosts /\ Works(savers[s].post.merged)

(* Until two requests mint at once, whoever mints finds no key but its own. *)
OneKey ==
    ~jostled =>
        /\ \A s, o \in Savers : Minting(s) /\ Minting(o) => s = o
        /\ \A s \in Savers : savers[s].at \notin {"remove", "keygen"}
        /\ \A s \in Savers : savers[s].at = "create" => priv = 0 /\ pub = 0 /\ savers[s].key # 0
        /\ \A s \in Savers : savers[s].at = "public" =>
                                 priv = savers[s].key /\ pub = 0 /\ savers[s].key # 0

RelayInv == RelayForms /\ Validated /\ ShownIsInUse /\ OneKey

LEMMA RelaySound == RelayInv => RelayIsInForce
<1> SUFFICES ASSUME RelayInv
             PROVE  RelayTypeOK /\ NeverQuietlyAround
  BY DEF RelayInv, RelayIsInForce
<1>1. \A s \in Savers : savers[s].key \in 0..minted
  BY DEF RelayInv, RelayForms, Saves
<1>2. RelayTypeOK
  BY <1>1 DEF RelayInv, RelayForms, RelayTypeOK, RelayRows
<1>3. NeverQuietlyAround
  BY DEF RelayInv, RelayForms, Validated, NeverQuietlyAround, Effective, Hop, Works, RelayRows
<1> QED
  BY <1>2, <1>3

(* One request moves, and no other.                                         *)
LEMMA SaverMoves ==
    ASSUME RelayForms, NEW s \in Savers, NEW f, f \in Saves', Saves \subseteq Saves',
           savers' = [savers EXCEPT ![s] = f]
    PROVE  /\ savers' \in [Savers -> Saves']
           /\ savers'[s] = f
           /\ \A o \in Savers \ {s} : savers'[o] = savers[o]
<1>1. savers \in [Savers -> Saves']
  BY DEF RelayForms
<1> QED
  BY <1>1

LEMMA SameSaves == minted' = minted => Saves' = Saves
BY DEF Saves

LEMMA MoreSaves ==
    ASSUME RelayForms, minted' = minted + 1
    PROVE  /\ Saves \subseteq Saves' /\ 0..minted \subseteq 0..minted'
           /\ 1..minted \subseteq 1..minted'
<1>1. minted \in Nat
  BY RelayBounds DEF RelayForms
<1>2. 0..minted \subseteq 0..minted' /\ 1..minted \subseteq 1..minted'
  BY <1>1
<1> QED
  BY <1>2 DEF Saves

(* A request goes on to its next point.                                     *)
LEMMA SaverGoesOn ==
    ASSUME RelayForms, NEW s \in Savers, NEW at \in SavePoints, minted' = minted,
           savers' = [savers EXCEPT ![s].at = at]
    PROVE  /\ savers' \in [Savers -> Saves']
           /\ savers'[s].at = at /\ savers'[s].key = savers[s].key
           /\ savers'[s].post = savers[s].post
           /\ \A o \in Savers \ {s} : savers'[o] = savers[o]
<1> DEFINE f == [savers[s] EXCEPT !.at = at]
<1>1. savers[s] \in Saves
  BY DEF RelayForms
<1>2. f \in Saves /\ f.at = at /\ f.key = savers[s].key /\ f.post = savers[s].post
  BY <1>1 DEF Saves
<1>3. savers' = [savers EXCEPT ![s] = f]
  OBVIOUS
<1> HIDE DEF f
<1> QED
  BY <1>2, <1>3, SaverMoves, SameSaves

LEMMA RelayStep ==
    ASSUME RelayInv, [RelayNext]_relayVars
    PROVE  RelayInv'
<1>n. /\ MaxKeys \in Nat /\ minted \in Nat /\ 0 \in 0..minted
  BY RelayBounds DEF RelayInv, RelayForms
<1>i. RelayForms
  BY DEF RelayInv
<1>p. PublicKey \in 0..minted /\ (~jostled => PublicKey = priv)
  BY DEF PublicKey, RelayInv, RelayForms, ShownIsInUse
<1>r. NoRow \in RelayRows /\ Works(NoRow)
  BY DEF NoRow, RelayRows, Works, Hops, RelayUsers
<1>s. NotSaving \in Saves /\ NotSaving.at = "none"
  BY <1>n DEF NotSaving, Saves, Posts, SavePoints
<1>1. ASSUME NEW s \in Savers, BeginSave(s) PROVE RelayInv'
  <2>1. PICK fields \in SUBSET {"host", "user"}, h \in Hops, u \in RelayUsers :
           savers' = [savers EXCEPT ![s] =
             [at |-> IF Works(Lay(Effective(stored), fields, [host |-> h, user |-> u]))
                        THEN "store" ELSE "none",
              post |-> [merged |-> Lay(Effective(stored), fields, [host |-> h, user |-> u]),
                        fields |-> fields], key |-> 0]]
    BY <1>1 DEF BeginSave
  <2> DEFINE merged == Lay(Effective(stored), fields, [host |-> h, user |-> u])
             post == [merged |-> merged, fields |-> fields]
             f == [at |-> IF Works(merged) THEN "store" ELSE "none", post |-> post, key |-> 0]
  <2>2. merged \in RelayRows
    BY RelayBounds DEF Lay, Effective, RelayInv, RelayForms, RelayRows, Hops
  <2> HIDE DEF merged
  <2>3. post \in NewPosts /\ post.merged = merged
    BY <2>2 DEF NewPosts
  <2> HIDE DEF post
  <2>4. /\ f \in Saves /\ f.at \in {"store", "none"} /\ f.post = post
        /\ f.at = "store" => Works(merged)
    BY <2>3, <1>n DEF Saves, Posts, SavePoints
  <2>5. savers' = [savers EXCEPT ![s] = f]
    BY <2>1 DEF merged, post
  <2> HIDE DEF f
  <2>6. UNCHANGED <<stored, priv, pub, shown, minted, jostled>>
    BY <1>1 DEF BeginSave
  <2>7. /\ savers' \in [Savers -> Saves'] /\ savers'[s] = f
        /\ \A o \in Savers \ {s} : savers'[o] = savers[o]
    BY <1>i, <2>4, <2>5, <2>6, SaverMoves, SameSaves
  <2>8. RelayForms'
    BY <1>i, <2>6, <2>7 DEF RelayForms
  <2>9. Validated'
    BY <2>3, <2>4, <2>6, <2>7 DEF RelayInv, Validated
  <2>10. ShownIsInUse' /\ OneKey'
    BY <2>4, <2>6, <2>7 DEF RelayInv, ShownIsInUse, OneKey, Minting
  <2> QED
    BY <2>8, <2>9, <2>10 DEF RelayInv
<1>2. ASSUME NEW s \in Savers, StoreRow(s) PROVE RelayInv'
  <2>1. UNCHANGED <<priv, pub, shown, minted, savings, jostled>>
    BY <1>2 DEF StoreRow
  <2>2. /\ savers' \in [Savers -> Saves'] /\ savers'[s].at = "look"
        /\ \A o \in Savers \ {s} : savers'[o] = savers[o]
    BY <1>2, <1>i, <2>1, SaverGoesOn DEF StoreRow, SavePoints
  <2>3. stored' \in RelayRows /\ Works(stored')
    BY <1>2 DEF StoreRow, RowOf, RelayInv, Validated, NewPosts
  <2>4. RelayForms'
    BY <1>i, <2>1, <2>2, <2>3 DEF RelayForms
  <2>5. Validated'
    BY <2>2, <2>3 DEF RelayInv, Validated
  <2>6. ShownIsInUse' /\ OneKey'
    BY <1>2, <2>1, <2>2 DEF RelayInv, ShownIsInUse, OneKey, Minting
  <2> QED
    BY <2>4, <2>5, <2>6 DEF RelayInv
<1>3. ASSUME NEW s \in Savers, LookForKey(s), Present PROVE RelayInv'
  <2>1. UNCHANGED <<stored, priv, pub, shown, minted, savings, jostled>>
    BY <1>3 DEF LookForKey
  <2>2. /\ savers' \in [Savers -> Saves'] /\ savers'[s].at = "answer"
        /\ \A o \in Savers \ {s} : savers'[o] = savers[o]
    BY <1>3, <1>i, <2>1, SaverGoesOn DEF LookForKey, SavePoints
  <2>3. RelayForms'
    BY <1>i, <2>1, <2>2 DEF RelayForms
  <2>4. Validated' /\ ShownIsInUse' /\ OneKey'
    BY <2>1, <2>2 DEF RelayInv, Validated, ShownIsInUse, OneKey, Minting
  <2> QED
    BY <2>3, <2>4 DEF RelayInv
<1>4. ASSUME NEW s \in Savers, LookForKey(s), ~Present PROVE RelayInv'
  <2> DEFINE f == [savers[s] EXCEPT !.at = "create", !.key = minted + 1]
  <2>1. /\ UNCHANGED <<stored, priv, pub, shown, savings>>
        /\ minted < MaxKeys /\ minted' = minted + 1 /\ savers' = [savers EXCEPT ![s] = f]
        /\ jostled' = (jostled \/ \E o \in Savers : Minting(o))
    BY <1>4 DEF LookForKey
  <2>2. minted' \in 0..MaxKeys /\ minted + 1 \in 0..minted' /\ minted + 1 # 0
    BY <1>n, <2>1
  <2>3. Saves \subseteq Saves' /\ 0..minted \subseteq 0..minted' /\ 1..minted \subseteq 1..minted'
    BY <1>i, <2>1, MoreSaves
  <2>4. f \in Saves' /\ f.at = "create" /\ f.key # 0
    <3>1. savers[s] \in Saves'
      BY <1>i, <2>3 DEF RelayForms
    <3> QED
      BY <3>1, <2>2 DEF Saves, SavePoints
  <2> HIDE DEF f
  <2>5. /\ savers' \in [Savers -> Saves'] /\ savers'[s] = f
        /\ \A o \in Savers \ {s} : savers'[o] = savers[o]
    BY <1>i, <2>1, <2>3, <2>4, SaverMoves
  <2>6. RelayForms'
    BY <1>i, <2>1, <2>2, <2>3, <2>5 DEF RelayForms
  <2>7. Validated'
    BY <2>1, <2>4, <2>5 DEF RelayInv, Validated
  <2>8. priv = 0 /\ pub = 0
    BY <1>4 DEF Present
  <2>9. ShownIsInUse' /\ OneKey'
    BY <2>1, <2>4, <2>5, <2>8 DEF RelayInv, ShownIsInUse, OneKey, Minting
  <2> QED
    BY <2>6, <2>7, <2>9 DEF RelayInv
<1>5. ASSUME NEW s \in Savers, CreatePriv(s) PROVE RelayInv'
  <2>1. UNCHANGED <<stored, pub, shown, minted, savings, jostled>>
    BY <1>5 DEF CreatePriv
  <2>2. /\ savers' \in [Savers -> Saves'] /\ savers'[s].key = savers[s].key
        /\ savers'[s].at = IF priv = 0 THEN "public" ELSE "remove"
        /\ \A o \in Savers \ {s} : savers'[o] = savers[o]
    <3>1. (IF priv = 0 THEN "public" ELSE "remove") \in SavePoints
      BY DEF SavePoints
    <3> QED
      BY <1>5, <1>i, <2>1, <3>1, SaverGoesOn DEF CreatePriv
  <2>3. savers[s].key \in 0..minted /\ priv' \in {priv, savers[s].key}
    BY <1>5, <1>i DEF CreatePriv, RelayForms, Saves
  <2>4. RelayForms'
    BY <1>i, <2>1, <2>2, <2>3 DEF RelayForms
  <2>5. Validated'
    BY <2>1, <2>2 DEF RelayInv, Validated
  <2>6. ~jostled => shown = {}
    BY <1>5, <1>i DEF CreatePriv, RelayInv, RelayForms, ShownIsInUse, OneKey
  <2>7. ShownIsInUse' /\ OneKey'
    BY <1>5, <2>1, <2>2, <2>6 DEF CreatePriv, RelayInv, ShownIsInUse, OneKey, Minting
  <2> QED
    BY <2>4, <2>5, <2>7 DEF RelayInv
<1>6. ASSUME NEW s \in Savers, CreatePub(s) PROVE RelayInv'
  <2>1. UNCHANGED <<stored, priv, shown, minted, savings, jostled>>
    BY <1>6 DEF CreatePub
  <2>2. /\ savers' \in [Savers -> Saves'] /\ savers'[s].key = savers[s].key
        /\ savers'[s].at = IF pub = 0 THEN "answer" ELSE "remove"
        /\ \A o \in Savers \ {s} : savers'[o] = savers[o]
    <3>1. (IF pub = 0 THEN "answer" ELSE "remove") \in SavePoints
      BY DEF SavePoints
    <3> QED
      BY <1>6, <1>i, <2>1, <3>1, SaverGoesOn DEF CreatePub
  <2>3. savers[s].key \in 0..minted /\ pub' \in {pub, savers[s].key}
    BY <1>6, <1>i DEF CreatePub, RelayForms, Saves
  <2>4. RelayForms'
    BY <1>i, <2>1, <2>2, <2>3 DEF RelayForms
  <2>5. Validated'
    BY <2>1, <2>2 DEF RelayInv, Validated
  <2>6. ShownIsInUse' /\ OneKey'
    BY <1>6, <2>1, <2>2 DEF CreatePub, RelayInv, ShownIsInUse, OneKey, Minting
  <2> QED
    BY <2>4, <2>5, <2>6 DEF RelayInv
<1>7. ASSUME NEW s \in Savers, RemoveKey(s) PROVE RelayInv'
  <2>1. UNCHANGED <<stored, pub, shown, minted, savings, jostled>> /\ priv' = 0 /\ jostled
    BY <1>7 DEF RemoveKey, RelayInv, OneKey
  <2>2. /\ savers' \in [Savers -> Saves'] /\ savers'[s].at = "keygen"
        /\ \A o \in Savers \ {s} : savers'[o] = savers[o]
    BY <1>7, <1>i, <2>1, SaverGoesOn DEF RemoveKey, SavePoints
  <2>3. RelayForms'
    BY <1>i, <1>n, <2>1, <2>2 DEF RelayForms
  <2>4. Validated' /\ ShownIsInUse' /\ OneKey'
    BY <2>1, <2>2 DEF RelayInv, Validated, ShownIsInUse, OneKey
  <2> QED
    BY <2>3, <2>4 DEF RelayInv
<1>8. ASSUME NEW s \in Savers, SshKeygen(s) PROVE RelayInv'
  <2>1. UNCHANGED <<stored, shown, savings, jostled>> /\ jostled
    BY <1>8 DEF SshKeygen, RelayInv, OneKey
  <2>2. /\ minted' \in 0..MaxKeys /\ 1..minted \subseteq 1..minted'
        /\ priv' \in 0..minted' /\ pub' \in 0..minted'
        /\ Saves \subseteq Saves'
    <3>1. CASE UNCHANGED <<priv, pub, minted>>
      BY <1>i, <3>1, SameSaves DEF RelayForms
    <3>2. CASE minted < MaxKeys /\ minted' = minted + 1 /\ priv' = minted + 1 /\ pub' = minted + 1
      BY <1>i, <1>n, <3>2, MoreSaves
    <3> QED
      BY <1>8, <3>1, <3>2 DEF SshKeygen
  <2> DEFINE f == [savers[s] EXCEPT !.at = "answer"]
  <2>3. f \in Saves' /\ f.at = "answer"
    <3>1. savers[s] \in Saves'
      BY <1>i, <2>2 DEF RelayForms
    <3> QED
      BY <3>1 DEF Saves, SavePoints
  <2>4. savers' = [savers EXCEPT ![s] = f]
    BY <1>8 DEF SshKeygen
  <2> HIDE DEF f
  <2>5. /\ savers' \in [Savers -> Saves'] /\ savers'[s] = f
        /\ \A o \in Savers \ {s} : savers'[o] = savers[o]
    BY <1>i, <2>2, <2>3, <2>4, SaverMoves
  <2>6. RelayForms'
    BY <1>i, <2>1, <2>2, <2>5 DEF RelayForms
  <2>7. Validated' /\ ShownIsInUse' /\ OneKey'
    BY <2>1, <2>3, <2>5 DEF RelayInv, Validated, ShownIsInUse, OneKey
  <2> QED
    BY <2>6, <2>7 DEF RelayInv
<1>9. ASSUME NEW s \in Savers, AnswerSave(s) PROVE RelayInv'
  <2>1. /\ UNCHANGED <<stored, priv, pub, minted, savings, jostled>>
        /\ shown' = shown \cup ({PublicKey} \ {0})
        /\ savers' = [savers EXCEPT ![s] = NotSaving]
    BY <1>9 DEF AnswerSave
  <2>2. /\ savers' \in [Savers -> Saves'] /\ savers'[s].at = "none"
        /\ \A o \in Savers \ {s} : savers'[o] = savers[o]
    BY <1>i, <1>s, <2>1, SaverMoves, SameSaves
  <2>3. shown' \subseteq 1..minted
    BY <1>i, <1>n, <1>p, <2>1 DEF RelayForms
  <2>4. RelayForms'
    BY <1>i, <2>1, <2>2, <2>3 DEF RelayForms
  <2>5. Validated' /\ ShownIsInUse' /\ OneKey'
    BY <1>p, <2>1, <2>2 DEF RelayInv, Validated, ShownIsInUse, OneKey, Minting
  <2> QED
    BY <2>4, <2>5 DEF RelayInv
<1>10. CASE ShowRelay
  <2>1. /\ UNCHANGED <<stored, priv, pub, minted, savings, jostled, savers>>
        /\ shown' = shown \cup ({PublicKey} \ {0})
    BY <1>10 DEF ShowRelay
  <2>2. shown' \subseteq 1..minted
    BY <1>i, <1>n, <1>p, <2>1 DEF RelayForms
  <2>3. RelayForms'
    BY <1>i, <2>1, <2>2, SameSaves DEF RelayForms
  <2>4. Validated' /\ ShownIsInUse' /\ OneKey'
    BY <1>p, <2>1 DEF RelayInv, Validated, ShownIsInUse, OneKey, Minting
  <2> QED
    BY <2>3, <2>4 DEF RelayInv
<1>11. CASE ControllerDies
  <2>1. /\ UNCHANGED <<stored, priv, pub, shown, minted, savings>>
        /\ savers' = [s \in Savers |-> NotSaving] /\ (~jostled' => ~jostled)
    BY <1>11 DEF ControllerDies
  <2>2. savers' \in [Savers -> Saves'] /\ \A s \in Savers : savers'[s].at = "none"
    BY <1>s, <2>1, SameSaves
  <2>3. RelayForms'
    BY <1>i, <2>1, <2>2 DEF RelayForms
  <2>4. Validated' /\ ShownIsInUse' /\ OneKey'
    BY <2>1, <2>2 DEF RelayInv, Validated, ShownIsInUse, OneKey, Minting
  <2> QED
    BY <2>3, <2>4 DEF RelayInv
<1>12. CASE UNCHANGED relayVars
  BY <1>12, SameSaves
     DEF relayVars, RelayInv, RelayForms, Validated, ShownIsInUse, OneKey, Minting
<1> QED
  BY <1>1, <1>2, <1>3, <1>4, <1>5, <1>6, <1>7, <1>8, <1>9, <1>10, <1>11, <1>12 DEF RelayNext

LEMMA RelayKept == RelaySpec => []RelayInv
<1>1. RelayInit => RelayInv
  <2> SUFFICES ASSUME RelayInit
               PROVE  RelayInv
    OBVIOUS
  <2>1. 0 \in 0..MaxKeys /\ 0 \in 0..0
    BY RelayBounds
  <2>2. NoRow \in RelayRows /\ Works(NoRow)
    BY DEF NoRow, RelayRows, Works, Hops, RelayUsers
  <2>3. NotSaving \in Saves /\ NotSaving.at = "none"
    BY <2>1 DEF RelayInit, NotSaving, Saves, Posts, SavePoints
  <2>4. RelayForms
    BY <2>1, <2>2, <2>3 DEF RelayInit, RelayForms
  <2>5. Validated /\ ShownIsInUse /\ OneKey
    BY <2>2, <2>3 DEF RelayInit, Validated, ShownIsInUse, OneKey, Minting
  <2> QED
    BY <2>4, <2>5 DEF RelayInv
<1> QED
  BY <1>1, RelayStep, PTL DEF RelaySpec

-----------------------------------------------------------------------------
(* A behaviour of the controller's state is one of each component, for the  *)
(* components that are not followed do not move.                            *)
LEMMA FollowsEach ==
    StateSpec => /\ CustodySpec /\ SnapshotSpec /\ PortalSpec /\ RelaySpec
                 /\ TlsInit /\ [][TlsNext]_tlsVars
<1>1. StateInit => CustodyInit /\ SnapshotInit /\ TlsInit /\ PortalInit /\ RelayInit
  BY DEF StateInit
<1>2. [StateNext]_stateVars =>
        /\ [CustodyNext]_keyVars /\ [SnapshotNext]_snapshotVars /\ [TlsNext]_tlsVars
        /\ [PortalNext]_portalVars /\ [RelayNext]_relayVars
  BY DEF StateNext, stateVars
<1> QED
  BY <1>1, <1>2, PTL
     DEF StateSpec, CustodySpec, SnapshotSpec, PortalSpec, RelaySpec

(* In whatever order the two processes create, read and lose the master key *)
(* (_load_or_create_key, SYSIBLE_SECRET_KEY, the key command), there is one *)
(* key and the vault can read what it stored; and a controller started on a *)
(* restored box, when nothing cut the restore short or mixed its files, has *)
(* the database, certificate, key and vault of one controller.              *)
THEOREM StateStaysReadable == StateSpec => []StateIsReadable
<1>1. CustodyInv /\ SnapshotInv => StateIsReadable
  BY CustodySound, SnapshotSound DEF StateIsReadable
<1> QED
  BY <1>1, FollowsEach, CustodyKept, SnapshotKept, PTL

(* Once a credentials route has answered, a session of the portal left was  *)
(* issued under the credentials in force or by a login that overlapped it;  *)
(* the process that serves is the one the pid file names while start() and  *)
(* stop() are called one at a time; and a host that opted in is dialled     *)
(* through the stored bastion, with the key the operators were shown.       *)
THEOREM DoorsStayAsConfigured == StateSpec => []DoorsAsConfigured
<1>1. PortalInv /\ RelayInv => DoorsAsConfigured
  BY PortalSound, RelaySound DEF DoorsAsConfigured
<1> QED
  BY <1>1, FollowsEach, PortalKept, RelayKept, PTL

(* Without a death in the middle of the three files and without two writers *)
(* at once (tls_manager, self_address), key, certificate and trust anchor   *)
(* belong together and the backend comes up on them; and an imported        *)
(* certificate gives way to a self-signed one only if it was imported after *)
(* the regeneration had looked.                                             *)
THEOREM CertificateAlwaysStands == StateSpec => CertificateStands
BY FollowsEach, TlsKept, PTL
=============================================================================
