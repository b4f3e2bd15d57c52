----------------------------- MODULE AuditChain -----------------------------
(***************************************************************************)
(* The tamper-evident audit chain: activity_log (trimmed to a number of     *)
(* rows) or admin_audit_log (MaxRows = 0: never trimmed), its high-water    *)
(* mark in audit_chain_head, the writers, and the verification.             *)
(*                                                                         *)
(* A row's entry_hash covers the row and the hash of the row before it.     *)
(* Ids are AUTOINCREMENT and no two rows ever get the same hash, so a hash  *)
(* is modelled by the id of the row it was made for (0: the genesis value), *)
(* and a digest that can no longer be recomputed by intact = FALSE.         *)
(*                                                                         *)
(* One step is one committed transaction, one query, or one access to the   *)
(* lock or to the key; a writer holds the lock from its query to its trim   *)
(* and moves the mark after that.                                           *)
(***************************************************************************)
EXTENDS Integers, FiniteSets

CONSTANTS
    Workers,    \* threads of the backend's pool
    None,       \* nobody holds the lock
    MaxRows,    \* _ACTIVITY_LOG_MAX_ROWS; 0: keep everything
    MaxId,      \* bound: rows ever appended
    MaxFaults   \* bound: damage, lost marks and restarts

ASSUME AuditAssumption ==
    /\ None \notin Workers
    /\ MaxRows \in Nat /\ MaxId \in Nat /\ MaxFaults \in Nat

Ids    == 1..MaxId
Hashes == 0..MaxId

VARIABLES
    rows,      \* what was inserted under each id
    kept,      \* ids of the rows that are in the table
    lastId,    \* the AUTOINCREMENT counter
    head,      \* audit_chain_head.last_id; 0: there is no mark
    strict,    \* SYSIBLE_AUDIT_REQUIRED, the choice of a deployment
    key,       \* can the HMAC key be resolved right now
    lock,      \* who holds _ACTIVITY_LOCK / _ADMIN_AUDIT_LOCK
    thread,    \* what each pool thread is doing
    verdict,   \* the latest answer of verify_*_chain
    edited,    \* history: rows whose content was changed outside the program
    lost,      \* history: rows that were deleted outside the program
    faults     \* bound: faults so far

vars == <<rows, kept, lastId, head, strict, key, lock, thread, verdict, edited, lost, faults>>

Rows == [prev : Hashes, keyed : BOOLEAN, intact : BOOLEAN]
WritePCs  == {"l_lock", "l_read", "l_insert", "l_trim", "l_bump"}
LockedPCs == {"l_read", "l_insert", "l_trim"}
VerifyPCs == {"v_key", "v_head"}
(* keyed: of the row to write, or whether any row that was read is keyed;    *)
(* id: the row just written, or the last row read; sound: the walk's result.*)
Handlers == [pc : {"idle"} \cup WritePCs \cup VerifyPCs, keyed : BOOLEAN,
             prev : Hashes, id : Hashes, sound : BOOLEAN]
IdleHandler == [pc |-> "idle", keyed |-> FALSE, prev |-> 0, id |-> 0, sound |-> FALSE]

TypeOK ==
    /\ rows \in [Ids -> Rows]
    /\ kept \in SUBSET Ids
    /\ lastId \in Hashes /\ head \in Hashes
    /\ strict \in BOOLEAN /\ key \in BOOLEAN
    /\ lock \in Workers \cup {None}
    /\ thread \in [Workers -> Handlers]
    /\ verdict \in {"none", "ok", "broken", "truncated"}
    /\ edited \in SUBSET Ids /\ lost \in SUBSET Ids
    /\ faults \in Nat

Init ==
    /\ rows = [i \in Ids |-> [prev |-> 0, keyed |-> FALSE, intact |-> TRUE]]
    /\ kept = {}
    /\ lastId = 0 /\ head = 0
    /\ strict \in BOOLEAN
    /\ key = TRUE
    /\ lock = None
    /\ thread = [w \in Workers |-> IdleHandler]
    /\ verdict = "none"
    /\ edited = {} /\ lost = {}
    /\ faults = 0

Goto(w, pc) == thread' = [thread EXCEPT ![w].pc = pc]
Finish(w)   == thread' = [thread EXCEPT ![w] = IdleHandler]
Fault       == faults < MaxFaults /\ faults' = faults + 1

(* ORDER BY id DESC LIMIT 1, or rows[-1]["id"] if rows else 0.              *)
IsTail(i, S) == \/ S = {} /\ i = 0
                \/ i \in S /\ \A j \in S : j <= i

-----------------------------------------------------------------------------
(* log_activity, log_admin_audit.                                           *)

(* AuditKeyUnavailable: without the key nothing is written, unless the      *)
(* deployment has opted out.  The key is looked up before the lock is taken.*)
(* Bound: no more writers than row ids are left.                            *)
Writers == {w \in Workers : thread[w].pc \in {"l_lock", "l_read", "l_insert"}}
Log(w) ==
    /\ thread[w].pc = "idle"
    /\ key \/ ~strict
    /\ lastId + Cardinality(Writers) < MaxId
    /\ thread' = [thread EXCEPT ![w] = [pc |-> "l_lock", keyed |-> key, prev |-> 0,
                                        id |-> 0, sound |-> FALSE]]
    /\ UNCHANGED <<strict, rows, kept, lastId, head, key, lock, verdict, edited, lost, faults>>

(* Mutant: writers are not serialized.                                      *)
MutAcquire(w) == lock' = w
Acquire(w) == lock = None /\ lock' = w

LogLock(w) ==
    /\ thread[w].pc = "l_lock"
    /\ Acquire(w)
    /\ Goto(w, "l_read")
    /\ UNCHANGED <<strict, rows, kept, lastId, head, key, verdict, edited, lost, faults>>

LogRead(w) ==
    /\ thread[w].pc = "l_read"
    /\ \E i \in Hashes :
          /\ IsTail(i, kept)
          /\ thread' = [thread EXCEPT ![w] = [@ EXCEPT !.pc = "l_insert", !.prev = i]]
    /\ UNCHANGED <<strict, rows, kept, lastId, head, key, lock, verdict, edited, lost, faults>>

LogInsert(w) ==
    /\ thread[w].pc = "l_insert"
    /\ lastId < MaxId
    /\ lastId' = lastId + 1
    /\ rows' = [rows EXCEPT ![lastId + 1] =
                  [prev |-> thread[w].prev, keyed |-> thread[w].keyed, intact |-> TRUE]]
    /\ kept' = kept \cup {lastId + 1}
    /\ thread' = [thread EXCEPT ![w] = [@ EXCEPT !.pc = "l_trim", !.id = lastId + 1]]
    /\ UNCHANGED <<strict, head, key, lock, verdict, edited, lost, faults>>

(* Mutant: one row too many falls out of the window.                        *)
MutInWindow(i, id) == MaxRows > 0 => i > id - MaxRows + 1
InWindow(i, id) == MaxRows > 0 => i > id - MaxRows

LogTrim(w) ==
    /\ thread[w].pc = "l_trim"
    /\ kept' = {i \in kept : InWindow(i, thread[w].id)}
    /\ lock' = None
    /\ Goto(w, "l_bump")
    /\ UNCHANGED <<strict, rows, lastId, head, key, verdict, edited, lost, faults>>

(* Mutants: the mark is set, not advanced; it is the next id; it is NULL.   *)
MutBumped(id) == id
MutBumpedNext(id) == IF head <= id THEN id + 1 ELSE head
MutBumpedNull(id) == None
(* _bump_chain_head: UPDATE ... WHERE last_id <= ?.                         *)
Bumped(id) == IF head <= id THEN id ELSE head

LogBump(w) ==
    /\ thread[w].pc = "l_bump"
    /\ head' = Bumped(thread[w].id)
    /\ Finish(w)
    /\ UNCHANGED <<strict, rows, kept, lastId, key, lock, verdict, edited, lost, faults>>

(* The mark is best-effort: whatever goes wrong with it is swallowed.       *)
LogBumpFails(w) ==
    /\ Fault
    /\ thread[w].pc = "l_bump"
    /\ Finish(w)
    /\ UNCHANGED <<strict, rows, kept, lastId, head, key, lock, verdict, edited, lost>>

-----------------------------------------------------------------------------
(* verify_activity_chain, verify_admin_audit_chain.                         *)

(* The walk in id order, without the key: each row continues the one before *)
(* it, its digest can be recomputed, and a keyed row has only keyed ones    *)
(* after it.                                                                *)
Linked(S) == \A i, j \in S : i < j /\ (\A k \in S : ~(i < k /\ k < j)) => rows[j].prev = i
StaysKeyed(S) == \A i, j \in S : i < j /\ rows[i].keyed => rows[j].keyed

(* Mutant: the digests are not recomputed.                                  *)
MutWalk(S) == Linked(S) /\ StaysKeyed(S)
Walk(S) == Linked(S) /\ StaysKeyed(S) /\ \A j \in S : rows[j].intact

VerifyRead(w) ==
    /\ thread[w].pc = "idle"
    /\ \E i \in Hashes :
          /\ IsTail(i, kept)
          /\ thread' = [thread EXCEPT ![w] =
                [pc |-> "v_key", keyed |-> \E j \in kept : rows[j].keyed, prev |-> 0,
                 id |-> i, sound |-> Walk(kept)]]
    /\ UNCHANGED <<strict, rows, kept, lastId, head, key, lock, verdict, edited, lost, faults>>

(* A keyed row cannot be recomputed without the key.                        *)
VerifyKey(w) ==
    /\ thread[w].pc = "v_key"
    /\ \/ /\ thread[w].sound /\ (thread[w].keyed => key)
          /\ Goto(w, "v_head")
          /\ UNCHANGED verdict
       \/ /\ ~thread[w].sound \/ (thread[w].keyed /\ ~key)
          /\ Finish(w)
          /\ verdict' = "broken"
    /\ UNCHANGED <<strict, rows, kept, lastId, head, key, lock, edited, lost, faults>>

(* Only now is the mark read.                                               *)
VerifyHead(w) ==
    /\ thread[w].pc = "v_head"
    /\ verdict' = IF head > thread[w].id THEN "truncated" ELSE "ok"
    /\ Finish(w)
    /\ UNCHANGED <<strict, rows, kept, lastId, head, key, lock, edited, lost, faults>>

-----------------------------------------------------------------------------
(* The surroundings.                                                        *)

KeyChanges(b) ==
    /\ key # b
    /\ key' = b
    /\ UNCHANGED <<strict, rows, kept, lastId, head, lock, thread, verdict, edited, lost, faults>>

BackendRestart ==
    /\ Fault
    /\ thread' = [w \in Workers |-> IdleHandler]
    /\ lock' = None
    /\ UNCHANGED <<strict, rows, kept, lastId, head, key, verdict, edited, lost>>

(* A retained row is changed, or one that is not the last is deleted, by    *)
(* something other than this program.                                       *)
EditRow(i) ==
    /\ Fault
    /\ i \in kept
    /\ rows' = [rows EXCEPT ![i].intact = FALSE]
    /\ edited' = edited \cup {i}
    /\ UNCHANGED <<strict, kept, lastId, head, key, lock, thread, verdict, lost>>

LoseRow(i) ==
    /\ Fault
    /\ i \in kept /\ \E j \in kept : i < j
    /\ kept' = kept \ {i}
    /\ lost' = lost \cup {i}
    /\ UNCHANGED <<strict, rows, lastId, head, key, lock, thread, verdict, edited>>

-----------------------------------------------------------------------------
Next ==
    \/ \E w \in Workers :
          \/ Log(w) \/ LogLock(w) \/ LogRead(w) \/ LogInsert(w) \/ LogTrim(w)
          \/ LogBump(w) \/ LogBumpFails(w)
          \/ VerifyRead(w) \/ VerifyKey(w) \/ VerifyHead(w)
    \/ \E b \in BOOLEAN : KeyChanges(b)
    \/ \E i \in Ids : EditRow(i) \/ LoseRow(i)
    \/ BackendRestart

Spec == Init /\ [][Next]_vars

-----------------------------------------------------------------------------
(* "The writes are serialized under a lock so concurrent writers can't fork *)
(* the chain": whatever writers overlap, are killed half way, or trim, a    *)
(* table nothing else has touched passes the walk at every instant.         *)
ChainVerifies == strict /\ edited = {} /\ lost = {} => Walk(kept)

(* "editing ... or deleting a retained row breaks the chain": as long as a  *)
(* changed row is retained, or rows on both sides of a deleted one are, the *)
(* walk fails, whatever has been appended since.                            *)
DamageIsReported ==
    /\ edited \cap kept # {} => ~Walk(kept)
    /\ (\E i, j \in kept, d \in lost : i < d /\ d < j) => ~Walk(kept)

(* "a stale mark can only under-report": at no instant is the mark beyond   *)
(* the last row of the table, although it is moved after the lock is left,  *)
(* in any order, or not at all.                                             *)
MarkBehindTail == head > 0 => \E i \in kept : head <= i

(* "Trimming the OLDEST rows": the latest MaxRows rows are all still there. *)
RecentRowsKept ==
    \A i \in 1..lastId : (MaxRows > 0 => lastId < i + MaxRows) => i \in kept \cup lost

(* "The mark only ADVANCES".                                                *)
MarkAdvances == [][head' >= head]_vars

-----------------------------------------------------------------------------
(* What the code's comments say of it, and the code does not do.            *)

(* "a missing/behind mark never raises a false alarm": rows are reported as *)
(* truncated only if some were deleted.  (The mark is read after the rows,  *)
(* and a writer may append and move it in between.)                         *)
NoFalseTruncation == verdict = "truncated" => lost # {}
=============================================================================
