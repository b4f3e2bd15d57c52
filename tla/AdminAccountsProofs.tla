------------------------ MODULE AdminAccountsProofs ------------------------
(***************************************************************************)
(* Proofs about AdminAccounts, for any administrators, sessions, workers    *)
(* and roles, and any number of passwords, restarts and sign-ins.           *)
(*                                                                         *)
(* SessionsEnd is not inductive: a session whose role does not fit does not *)
(* resolve, and resolves again when the role is given back.  The invariant  *)
(* says the same of every stored session, whether it resolves or not.       *)
(*                                                                         *)
(* LockoutNeedsOverlap is not inductive either: a write trusts the count    *)
(* its guard has made.  SuperuserKept says that while nothing overlaps, the *)
(* guard's answer still holds when the write comes.                         *)
(***************************************************************************)
EXTENDS AdminAccounts, FiniteSetTheorems, TLAPS

(* A row that is absent has no password: what is inserted later is new.     *)
AbsentRows == \A u \in Users : ~Exists(u) => admins[u].password = Unusable

(* A session that will not, or not yet, be dropped for what has changed.    *)
Excused(t) == \/ tokens[t].late
              \/ tokens[t].user \in unswept
              \/ \E w \in Workers : tokens[t].user \in Sweeping(w)

Mismatch(t) == /\ Stored(t)
               /\ tokens[t].password # Unusable
               /\ tokens[t].password # admins[tokens[t].user].password

StoredSessions == \A t \in Tokens : Mismatch(t) => Excused(t)

(* Whatever a request does after its gate it does to an administrator, and  *)
(* what it writes as a role is one.                                         *)
Regrading == {"g_guard", "g_write", "o_insert", "o_adopt", "o_sync"}
Named == \A w \in Workers :
            /\ thread[w].pc \notin {"idle", "gated"} => thread[w].user \in Users
            /\ thread[w].pc = "c_rename" => thread[w].to \in Users
            /\ thread[w].pc \in Regrading => thread[w].role \in Roles

IInv == TypeOK /\ Named /\ AbsentRows /\ StoredSessions

-----------------------------------------------------------------------------
(* Types.                                                                   *)

(* The idle record, no row and no token are well typed.                     *)
LEMMA Blanks == /\ Idle \in Handlers
                /\ NoAdmin \in AdminRows
                /\ NoToken \in TokenRows
  BY AdminAssumption DEF Idle, Handlers, PCs, NoAdmin, AdminRows, NoToken, TokenRows, Passwords,
     Unusable

(* The records handlers start with.                                         *)
LEMMA RequestTypes ==
    ASSUME NEW pc \in PCs, NEW u \in Users \cup {None}, NEW r \in Roles \cup {None},
           NEW p \in Passwords, NEW n \in Passwords, NEW b \in BOOLEAN,
           NEW to \in Users \cup {None}
    PROVE  [pc |-> pc, user |-> u, role |-> r, old |-> p, new |-> n, must |-> b, to |-> to]
             \in Handlers
  BY DEF Handlers

(* add_administrator and update_administrator_password keep the table's type.*)
LEMMA TableTypes ==
    ASSUME TypeOK, NEW u \in Users, NEW r \in Roles, NEW p \in Passwords,
           NEW b \in BOOLEAN, NEW c \in BOOLEAN
    PROVE  /\ NewRow(r, p, b, c) \in AdminRows
           /\ Inserted(u, NewRow(r, p, b, c)) \in [Users -> AdminRows]
           /\ WithPassword(u, p, b) \in [Users -> AdminRows]
           /\ Regraded(u, NewRow(r, p, b, c)) \in [Users -> AdminRows]
<1>1. NewRow(r, p, b, c) \in AdminRows
  BY DEF NewRow, AdminRows
<1>2. WithPassword(u, p, b) \in [Users -> AdminRows]
  BY ZenonT(30) DEF WithPassword, TypeOK, AdminRows
<1> QED
  BY <1>1, <1>2 DEF Inserted, Regraded, TypeOK

(* A handler that only moves on stays well typed.                           *)
LEMMA MoveTypes ==
    ASSUME TypeOK, NEW w \in Workers, NEW pc \in PCs
    PROVE  /\ Goto(w, pc) => thread' \in [Workers -> Handlers]
           /\ Finish(w) => thread' \in [Workers -> Handlers]
           /\ DropNext(w) => thread' \in [Workers -> Handlers]
           /\ \A h \in Handlers : Become(w, h) => thread' \in [Workers -> Handlers]
<1>1. \A h \in Handlers : Become(w, h) => thread' \in [Workers -> Handlers]
  BY DEF Become, TypeOK
<1>2. thread[w] \in Handlers
  BY DEF TypeOK
<1>3. [thread[w] EXCEPT !.pc = pc] \in Handlers
  BY <1>2 DEF Handlers
<1>4. "drop" \in PCs
  BY DEF PCs
<1>5. [Idle EXCEPT !.pc = "drop", !.user = thread[w].user, !.to = thread[w].to] \in Handlers
  BY <1>2, <1>4, Blanks DEF Handlers
<1> QED
  BY <1>1, <1>3, <1>5, Blanks DEF Goto, Finish, DropNext

(* Writing the roster keeps the histories' types.                           *)
LEMMA RosterTypes ==
    ASSUME TypeOK, NEW w \in Workers, NEW table \in [Users -> AdminRows], Roster(w, table)
    PROVE  admins' \in [Users -> AdminRows] /\ founded' \in BOOLEAN /\ contested' \in BOOLEAN
  BY DEF TypeOK, Roster, Overlaps, Regrades

LEMMA ChooseType == TypeOK /\ Choose => chosen' \in Passwords
  BY AdminAssumption DEF TypeOK, Choose, Passwords

LEMMA EventType == TypeOK /\ Event => events' \in Nat
  BY DEF TypeOK, Event

LEMMA WithoutType == TypeOK => \A u : Without(u) \in [Tokens -> TokenRows]
  BY Blanks DEF TypeOK, Without

LEMMA UnsettleType ==
    ASSUME TypeOK, NEW u \in Users, NEW b, Unsettle(u, b)
    PROVE  unswept' \in SUBSET Users
  BY DEF TypeOK, Unsettle

(* Requests that only read: the handler's record is all that changes.       *)
LEMMA TypeRequest ==
    ASSUME TypeOK, NEW w \in Workers, Request(w)
    PROVE  TypeOK'
<1>1. CASE Gate(w)
  <2>1. [Idle EXCEPT !.pc = "gated"] \in Handlers
    BY Blanks DEF Handlers, PCs
  <2> QED
    BY <1>1, <2>1, MoveTypes DEF Gate, TypeOK, hist, PCs
<1>2. ASSUME NEW u \in Users, SetupCount(w, u) PROVE TypeOK'
  <2>1. chosen' \in Passwords
    BY <1>2, ChooseType DEF SetupCount
  <2>2. [Idle EXCEPT !.pc = "s_insert", !.user = u, !.role = "superuser", !.old = chosen']
          \in Handlers
    BY <2>1, Blanks DEF Handlers, PCs, Minting, Section, Roles
  <2> QED
    BY <1>2, <2>1, <2>2, MoveTypes DEF SetupCount, TypeOK, hist, PCs
<1>3. ASSUME NEW u \in Users, LoginVerify(w, u) PROVE TypeOK'
  <2>1. admins[u] \in AdminRows
    BY DEF TypeOK
  <2>2. [Idle EXCEPT !.pc = IF admins[u].legacy THEN "l_rehash" ELSE "mint",
                     !.user = u, !.role = admins[u].role, !.old = admins[u].password,
                     !.must = admins[u].legacy /\ admins[u].must] \in Handlers
    BY ZenonT(30), <2>1, Blanks DEF Handlers, PCs, Minting, AdminRows
  <2> QED
    BY <1>3, <2>2, MoveTypes DEF LoginVerify, TypeOK, hist, PCs
<1>4. ASSUME NEW u \in Users, RemoveLookup(w, u) PROVE TypeOK'
  <2>1. [Idle EXCEPT !.user = u, !.pc = IF admins[u].role = "superuser" THEN "r_guard_super"
                                        ELSE "r_guard"] \in Handlers
    BY Blanks DEF Handlers, PCs, Section
  <2> QED
    BY <1>4, <2>1, MoveTypes DEF RemoveLookup, TypeOK, hist, PCs
<1>5. ASSUME NEW u \in Users, ResetLookup(w, u) PROVE TypeOK'
  <2>1. chosen' \in Passwords
    BY <1>5, ChooseType DEF ResetLookup
  <2>2. [Idle EXCEPT !.pc = "p_write", !.user = u, !.new = chosen'] \in Handlers
    BY <2>1, Blanks DEF Handlers, PCs
  <2> QED
    BY <1>5, <2>1, <2>2, MoveTypes DEF ResetLookup, TypeOK, hist, PCs
<1>6. ASSUME NEW u \in Users, ResetAdminLookup(w, u) PROVE TypeOK'
  <2>1. chosen' \in Passwords /\ events' \in Nat
    BY <1>6, ChooseType, EventType DEF ResetAdminLookup
  <2>2. [Idle EXCEPT !.pc = IF Exists(u) THEN "k_update" ELSE "k_insert",
                     !.user = u, !.new = chosen'] \in Handlers
    BY <2>1, Blanks DEF Handlers, PCs
  <2> QED
    BY <1>6, <2>1, <2>2, MoveTypes DEF ResetAdminLookup, TypeOK, hist, PCs
<1>7. ASSUME NEW u \in Users, NEW r \in Roles, Add(w, u, r) PROVE TypeOK'
  <2>1. chosen' \in Passwords
    BY <1>7, ChooseType DEF Add
  <2>2. Inserted(u, NewRow(r, chosen', TRUE, FALSE)) \in [Users -> AdminRows]
    BY <2>1, TableTypes
  <2>3. admins' \in [Users -> AdminRows] /\ founded' \in BOOLEAN /\ contested' \in BOOLEAN
    BY <1>7, <2>2, RosterTypes DEF Add
  <2> QED
    BY <1>7, <2>1, <2>3, MoveTypes DEF Add, TypeOK, PCs
<1>8. ASSUME NEW u \in Users, NEW r \in Roles, RoleLookup(w, u, r) PROVE TypeOK'
  <2>1. [Idle EXCEPT !.user = u, !.role = r,
           !.pc = IF admins[u].role = "superuser" THEN "g_guard" ELSE "g_write"] \in Handlers
    BY Blanks DEF Handlers, PCs, Section
  <2> QED
    BY <1>8, <2>1, MoveTypes DEF RoleLookup, TypeOK, hist, PCs
<1>9. ASSUME NEW u \in Users, NEW r \in Roles, SsoLookup(w, u, r) PROVE TypeOK'
  <2>1. [Idle EXCEPT !.user = u, !.role = r,
           !.pc = IF ~Exists(u) THEN "o_insert" ELSE IF ~admins[u].sso THEN "o_adopt"
                  ELSE IF admins[u].role # r THEN "o_sync" ELSE "mint"] \in Handlers
    BY Blanks DEF Handlers, PCs, Minting
  <2>2. events' \in Nat
    BY <1>9, EventType DEF SsoLookup
  <2> QED
    BY <1>9, <2>1, <2>2, MoveTypes DEF SsoLookup, TypeOK, hist, PCs
<1>10. ASSUME NEW u \in Users, NEW to \in Users \cup {None}, NEW b \in BOOLEAN,
              CredentialsVerify(w, u, to, b)
       PROVE  TypeOK'
  <2>1. chosen' \in Passwords
    BY <1>10, ChooseType DEF CredentialsVerify, TypeOK
  <2>2. [Idle EXCEPT !.pc = IF to = None THEN "c_password" ELSE "c_rename",
                     !.user = u, !.to = to, !.new = IF b THEN chosen' ELSE Unusable] \in Handlers
    BY <2>1, Blanks DEF Handlers, PCs, Idle
  <2> QED
    BY <1>10, <2>1, <2>2, MoveTypes DEF CredentialsVerify, TypeOK, hist, PCs
<1> QED
  BY <1>1, <1>2, <1>3, <1>4, <1>5, <1>6, <1>7, <1>8, <1>9, <1>10 DEF Request

(* The steps a request takes after that.                                    *)
LEMMA TypeStep ==
    ASSUME TypeOK, Named, NEW w \in Workers, Step(w)
    PROVE  TypeOK'
<1> DEFINE h == thread[w]
<1>h. h \in Handlers
  BY DEF TypeOK
<1>u. h.pc \notin {"idle", "gated"} => h.user \in Users
  BY DEF Named
<1>1. CASE SetupInsert(w)
  <2>1. h.user \in Users /\ h.old \in Passwords /\ "superuser" \in Roles
    BY <1>1, <1>h, <1>u DEF SetupInsert, Handlers, Roles
  <2>2. Inserted(h.user, NewRow("superuser", h.old, FALSE, FALSE)) \in [Users -> AdminRows]
    BY <2>1, TableTypes
  <2>3. admins' \in [Users -> AdminRows] /\ founded' \in BOOLEAN /\ contested' \in BOOLEAN
    BY <1>1, <2>2, RosterTypes DEF SetupInsert
  <2> QED
    BY <1>1, <2>3, MoveTypes DEF SetupInsert, TypeOK, PCs, Minting
<1>2. CASE LoginRehash(w)
  <2>1. h.user \in Users /\ h.old \in Passwords /\ h.must \in BOOLEAN
    BY <1>2, <1>h, <1>u DEF LoginRehash, Handlers
  <2>2. admins' \in [Users -> AdminRows]
    BY <1>2, <2>1, TableTypes DEF LoginRehash, Roles
  <2>3. unswept' \in SUBSET Users
    BY <1>2, <2>1, UnsettleType DEF LoginRehash
  <2>4. [h EXCEPT !.pc = "mint", !.must = FALSE] \in Handlers
    BY <1>h DEF Handlers, PCs, Minting
  <2> QED
    BY <1>2, <2>2, <2>3, <2>4, MoveTypes DEF LoginRehash, TypeOK, PCs
<1>3. CASE RehashFails(w)
  <2>1. [h EXCEPT !.pc = "mint", !.must = FALSE] \in Handlers
    BY <1>h DEF Handlers, PCs, Minting
  <2> QED
    BY <1>3, <2>1, MoveTypes DEF RehashFails, TypeOK, PCs, hist
<1>4. ASSUME NEW t \in Tokens, Mint(w, t) PROVE TypeOK'
  <2>1. [user |-> h.user, role |-> h.role, password |-> h.old,
         late |-> admins[h.user].password # h.old] \in TokenRows
    BY <1>h DEF Handlers, TokenRows
  <2>2. tokens' \in [Tokens -> TokenRows]
    BY <1>4, <2>1 DEF Mint, TypeOK
  <2> QED
    BY <1>4, <2>2, MoveTypes DEF Mint, TypeOK, PCs, hist
<1>5. CASE MintFails(w) \/ GatedRefused(w)
  BY <1>5, MoveTypes DEF MintFails, GatedRefused, TypeOK, PCs, hist
<1>6. CASE RemoveGuard(w) \/ RoleGuard(w)
  BY <1>6, MoveTypes DEF RemoveGuard, RoleGuard, TypeOK, PCs, Section, hist
<1>7. CASE RemoveDelete(w)
  <2>1. [admins EXCEPT ![h.user] = NoAdmin] \in [Users -> AdminRows]
    BY Blanks DEF TypeOK
  <2>2. admins' \in [Users -> AdminRows] /\ founded' \in BOOLEAN /\ contested' \in BOOLEAN
    BY <1>7, <2>1, RosterTypes DEF RemoveDelete
  <2> QED
    BY <1>7, <2>2, MoveTypes, WithoutType DEF RemoveDelete, TypeOK, PCs
<1>8. CASE RoleWrite(w)
  <2>1. h.role \in Roles \cup {None}
    BY <1>h DEF Handlers
  <2>2. [admins EXCEPT ![h.user].role = h.role] \in [Users -> AdminRows]
    BY <2>1 DEF TypeOK, AdminRows
  <2>3. (IF Exists(h.user) THEN [admins EXCEPT ![h.user].role = h.role] ELSE admins)
          \in [Users -> AdminRows]
    BY <2>2 DEF TypeOK
  <2>4. admins' \in [Users -> AdminRows] /\ founded' \in BOOLEAN /\ contested' \in BOOLEAN
    BY <1>8, <2>3, RosterTypes DEF RoleWrite
  <2> QED
    BY <1>8, <2>4, MoveTypes DEF RoleWrite, TypeOK, PCs
<1>9. CASE ResetWrite(w)
  <2>1. h.user \in Users /\ h.new \in Passwords
    BY <1>9, <1>h, <1>u DEF ResetWrite, Handlers
  <2>2. admins' \in [Users -> AdminRows]
    BY <1>9, <2>1, TableTypes DEF ResetWrite, Roles
  <2> QED
    BY <1>9, <2>2, MoveTypes DEF ResetWrite, TypeOK, PCs, hist
<1>10. CASE DropTokens(w)
  <2>1. [h EXCEPT !.user = h.to, !.to = None] \in Handlers
    BY <1>h DEF Handlers
  <2>2. thread' \in [Workers -> Handlers]
    BY <1>10, <2>1, MoveTypes DEF DropTokens, PCs
  <2> QED
    BY <1>10, <2>2, WithoutType DEF DropTokens, TypeOK
<1>11. CASE CredentialsRename(w)
  <2>1. admins[h.user] \in AdminRows
    BY <1>11, <1>u DEF CredentialsRename, TypeOK
  <2>2. [admins EXCEPT ![h.to] = admins[h.user], ![h.user] = NoAdmin] \in [Users -> AdminRows]
    BY <2>1, Blanks DEF TypeOK
  <2>3. (IF Exists(h.user) /\ ~(Exists(h.user) /\ Exists(h.to))
         THEN [admins EXCEPT ![h.to] = admins[h.user], ![h.user] = NoAdmin]
         ELSE admins) \in [Users -> AdminRows]
    BY <2>2 DEF TypeOK
  <2>4. admins' \in [Users -> AdminRows] /\ founded' \in BOOLEAN /\ contested' \in BOOLEAN
    BY <1>11, <2>3, RosterTypes DEF CredentialsRename
  <2> QED
    BY <1>11, <2>4, MoveTypes DEF CredentialsRename, TypeOK, PCs
<1>12. CASE CredentialsPassword(w)
  <2>1. (IF h.to = None THEN h.user ELSE h.to) \in Users /\ h.new \in Passwords
    BY <1>12, <1>h, <1>u DEF CredentialsPassword, Handlers
  <2>2. admins' \in [Users -> AdminRows]
    BY <1>12, <2>1, TableTypes DEF CredentialsPassword, Roles
  <2> QED
    BY <1>12, <2>2, MoveTypes DEF CredentialsPassword, TypeOK, PCs, hist
<1>13. CASE CredentialsRefused(w)
  <2>1. unswept' \in SUBSET Users
    BY <1>13, <1>u, UnsettleType DEF CredentialsRefused
  <2> QED
    BY <1>13, <2>1, MoveTypes DEF CredentialsRefused, TypeOK, PCs
<1>14. CASE SsoInsert(w) \/ SsoAdopt(w)
  <2>1. h.user \in Users /\ h.role \in Roles \cup {None}
    BY <1>14, <1>h, <1>u DEF SsoInsert, SsoAdopt, Handlers
  <2>2. NewRow(h.role, Unusable, FALSE, TRUE) \in AdminRows
    BY <2>1, AdminAssumption DEF NewRow, AdminRows, Passwords, Unusable
  <2>3. /\ Inserted(h.user, NewRow(h.role, Unusable, FALSE, TRUE)) \in [Users -> AdminRows]
        /\ Regraded(h.user, NewRow(h.role, Unusable, FALSE, TRUE)) \in [Users -> AdminRows]
    BY <2>2 DEF Inserted, Regraded, TypeOK
  <2>4. admins' \in [Users -> AdminRows] /\ founded' \in BOOLEAN /\ contested' \in BOOLEAN
    BY <1>14, <2>3, RosterTypes DEF SsoInsert, SsoAdopt
  <2>5. unswept' \in SUBSET Users
    BY <1>14, <2>1, UnsettleType DEF SsoInsert, SsoAdopt, TypeOK
  <2> QED
    BY <1>14, <2>4, <2>5, MoveTypes DEF SsoInsert, SsoAdopt, TypeOK, PCs, Minting
<1>15. CASE SsoSync(w)
  <2>1. h.user \in Users /\ h.role \in Roles \cup {None}
    BY <1>15, <1>h, <1>u DEF SsoSync, Handlers
  <2>2. [admins[h.user] EXCEPT !.role = h.role] \in AdminRows
    BY <2>1 DEF TypeOK, AdminRows
  <2>3. Regraded(h.user, [admins[h.user] EXCEPT !.role = h.role]) \in [Users -> AdminRows]
    BY <2>2 DEF Regraded, TypeOK
  <2>4. admins' \in [Users -> AdminRows] /\ founded' \in BOOLEAN /\ contested' \in BOOLEAN
    BY <1>15, <2>3, RosterTypes DEF SsoSync
  <2> QED
    BY <1>15, <2>4, MoveTypes DEF SsoSync, TypeOK, PCs, Minting
<1>16. CASE ResetAdminUpdate(w)
  <2>1. h.user \in Users /\ h.new \in Passwords
    BY <1>16, <1>h, <1>u DEF ResetAdminUpdate, Handlers
  <2>2. admins' \in [Users -> AdminRows]
    BY <1>16, <2>1, TableTypes DEF ResetAdminUpdate, Roles
  <2>3. unswept' \in SUBSET Users
    BY <1>16, <2>1, UnsettleType DEF ResetAdminUpdate
  <2> QED
    BY <1>16, <2>2, <2>3, MoveTypes DEF ResetAdminUpdate, TypeOK, PCs
<1>17. CASE ResetAdminInsert(w)
  <2>1. h.user \in Users /\ h.new \in Passwords /\ "superuser" \in Roles
    BY <1>17, <1>h, <1>u DEF ResetAdminInsert, Handlers, Roles
  <2>2. Inserted(h.user, NewRow("superuser", h.new, TRUE, FALSE)) \in [Users -> AdminRows]
    BY <2>1, TableTypes
  <2>3. admins' \in [Users -> AdminRows] /\ founded' \in BOOLEAN /\ contested' \in BOOLEAN
    BY <1>17, <2>2, RosterTypes DEF ResetAdminInsert
  <2> QED
    BY <1>17, <2>3, MoveTypes DEF ResetAdminInsert, TypeOK, PCs
<1> QED
  BY <1>1, <1>2, <1>3, <1>4, <1>5, <1>6, <1>7, <1>8, <1>9, <1>10, <1>11, <1>12, <1>13, <1>14,
     <1>15, <1>16, <1>17 DEF Step

LEMMA SweepingTypes == TypeOK /\ Named => \A w \in Workers : Sweeping(w) \subseteq Users
  BY DEF Sweeping, TypeOK, Named, Handlers

LEMMA TypeRest ==
    ASSUME TypeOK, Named,
           \/ \E t \in Tokens : EndSession(t)
           \/ \E b \in BOOLEAN : Restart(b)
           \/ UNCHANGED vars
    PROVE  TypeOK'
<1>1. ASSUME NEW t \in Tokens, EndSession(t) PROVE TypeOK'
  BY <1>1, Blanks DEF EndSession, TypeOK, hist
<1>2. ASSUME NEW b \in BOOLEAN, Restart(b) PROVE TypeOK'
  <2>1. unswept' \in SUBSET Users
    BY <1>2, SweepingTypes DEF Restart, TypeOK
  <2>2. admins' \in [Users -> AdminRows]
    BY <1>2 DEF Restart, TypeOK, AdminRows, Exists
  <2>3. events' \in Nat /\ thread' \in [Workers -> Handlers]
    BY <1>2, EventType, Blanks DEF Restart
  <2> QED
    BY <1>2, <2>1, <2>2, <2>3 DEF Restart, TypeOK
<1> QED
  BY <1>1, <1>2 DEF TypeOK, vars, hist

-----------------------------------------------------------------------------
(* What a request is doing, and to whom.                                    *)

(* A handler's new record has to be a named one; the others keep theirs.    *)
LEMMA NamedBecome ==
    ASSUME TypeOK, Named, NEW w \in Workers, NEW r, Become(w, r),
           r.pc \notin {"idle", "gated"} => r.user \in Users,
           r.pc = "c_rename" => r.to \in Users,
           r.pc \in Regrading => r.role \in Roles
    PROVE  Named'
  BY DEF Become, Named, TypeOK

(* Moving on keeps the name and the role.                                   *)
LEMMA NamedGoto ==
    ASSUME TypeOK, Named, NEW w \in Workers, NEW pc, Goto(w, pc),
           thread[w].pc \notin {"idle", "gated"}, pc # "c_rename",
           pc \in Regrading => thread[w].role \in Roles
    PROVE  Named'
<1>1. thread[w] \in Handlers
  BY DEF TypeOK
<1>2. thread[w].user \in Users
  BY DEF Named
<1>3. [thread[w] EXCEPT !.pc = pc].user \in Users /\ [thread[w] EXCEPT !.pc = pc].pc = pc
      /\ [thread[w] EXCEPT !.pc = pc].role = thread[w].role
  BY <1>1, <1>2 DEF Handlers
<1> QED
  BY <1>3, NamedBecome DEF Goto

LEMMA NamedFinish ==
    ASSUME TypeOK, Named, NEW w \in Workers, Finish(w)
    PROVE  Named'
  BY NamedBecome DEF Finish, Idle, Regrading

LEMMA NamedDrop ==
    ASSUME TypeOK, Named, NEW w \in Workers, DropNext(w),
           thread[w].pc \notin {"idle", "gated"}
    PROVE  Named'
<1>1. thread[w].user \in Users
  BY DEF Named
<1> QED
  BY <1>1, NamedBecome DEF DropNext, Idle, Regrading

LEMMA NamedRequest ==
    ASSUME TypeOK, Named, NEW w \in Workers, Request(w)
    PROVE  Named'
<1>1. CASE Gate(w)
  BY <1>1, NamedBecome DEF Gate, Idle, Regrading
<1>2. ASSUME NEW u \in Users, SetupCount(w, u) PROVE Named'
  BY <1>2, NamedBecome DEF SetupCount, Idle, Regrading
<1>3. ASSUME NEW u \in Users, LoginVerify(w, u) PROVE Named'
  BY <1>3, NamedBecome DEF LoginVerify, Idle, Regrading
<1>4. ASSUME NEW u \in Users, RemoveLookup(w, u) PROVE Named'
  BY <1>4, NamedBecome DEF RemoveLookup, Idle, Regrading
<1>5. ASSUME NEW u \in Users, ResetLookup(w, u) PROVE Named'
  BY <1>5, NamedBecome DEF ResetLookup, Idle, Regrading
<1>6. ASSUME NEW u \in Users, ResetAdminLookup(w, u) PROVE Named'
  BY <1>6, NamedBecome DEF ResetAdminLookup, Idle, Regrading
<1>7. ASSUME NEW u \in Users, NEW r \in Roles, Add(w, u, r) PROVE Named'
  BY <1>7, NamedFinish DEF Add
<1>8. ASSUME NEW u \in Users, NEW r \in Roles, RoleLookup(w, u, r) PROVE Named'
  BY <1>8, NamedBecome DEF RoleLookup, Idle, Regrading
<1>9. ASSUME NEW u \in Users, NEW r \in Roles, SsoLookup(w, u, r) PROVE Named'
  BY <1>9, NamedBecome DEF SsoLookup, Idle, Regrading
<1>10. ASSUME NEW u \in Users, NEW to \in Users \cup {None}, NEW b \in BOOLEAN,
              CredentialsVerify(w, u, to, b)
       PROVE  Named'
  BY <1>10, NamedBecome DEF CredentialsVerify, Idle, Regrading
<1> QED
  BY <1>1, <1>2, <1>3, <1>4, <1>5, <1>6, <1>7, <1>8, <1>9, <1>10 DEF Request

LEMMA NamedStep ==
    ASSUME TypeOK, Named, NEW w \in Workers, Step(w)
    PROVE  Named'
<1> DEFINE h == thread[w]
<1>h. h \in Handlers
  BY DEF TypeOK
<1>1. CASE SetupInsert(w) \/ SsoInsert(w) \/ SsoAdopt(w) \/ SsoSync(w)
  BY <1>1, NamedGoto, NamedFinish DEF SetupInsert, SsoInsert, SsoAdopt, SsoSync, Regrading
<1>2. CASE LoginRehash(w) \/ RehashFails(w)
  <2>1. h.user \in Users
    BY <1>2 DEF LoginRehash, RehashFails, Named
  <2>2. [h EXCEPT !.pc = "mint", !.must = FALSE].user = h.user
        /\ [h EXCEPT !.pc = "mint", !.must = FALSE].pc = "mint"
    BY <1>h DEF Handlers
  <2> QED
    BY <1>2, <2>1, <2>2, NamedBecome DEF LoginRehash, RehashFails, Regrading
<1>3. CASE \/ \E t \in Tokens : Mint(w, t)
           \/ MintFails(w) \/ GatedRefused(w) \/ RemoveDelete(w) \/ CredentialsRefused(w)
           \/ ResetAdminUpdate(w) \/ ResetAdminInsert(w)
  BY <1>3, NamedFinish DEF Mint, MintFails, GatedRefused, RemoveDelete, CredentialsRefused,
     ResetAdminUpdate, ResetAdminInsert
<1>4. CASE RemoveGuard(w)
  BY <1>4, NamedGoto, NamedFinish DEF RemoveGuard, Regrading
<1>5. CASE RoleGuard(w)
  <2>1. h.role \in Roles
    BY <1>5 DEF RoleGuard, Named, Regrading
  <2> QED
    BY <1>5, <2>1, NamedGoto, NamedFinish DEF RoleGuard
<1>6. CASE RoleWrite(w) \/ ResetWrite(w) \/ CredentialsPassword(w)
  BY <1>6, NamedDrop DEF RoleWrite, ResetWrite, CredentialsPassword
<1>7. CASE DropTokens(w)
  <2>1. CASE h.to = None
    BY <1>7, <2>1, NamedFinish DEF DropTokens
  <2>2. CASE h.to # None
    <3>1. h.to \in Users
      BY <1>h, <2>2 DEF Handlers
    <3>2. [h EXCEPT !.user = h.to, !.to = None].user = h.to
          /\ [h EXCEPT !.user = h.to, !.to = None].pc = "drop"
      BY <1>7, <1>h DEF Handlers, DropTokens
    <3> QED
      BY <1>7, <2>2, <3>1, <3>2, NamedBecome DEF DropTokens, Regrading
  <2> QED
    BY <2>1, <2>2
<1>8. CASE CredentialsRename(w)
  BY <1>8, NamedGoto, NamedFinish, NamedDrop DEF CredentialsRename, Regrading
<1> QED
  BY <1>1, <1>2, <1>3, <1>4, <1>5, <1>6, <1>7, <1>8 DEF Step

LEMMA NamedRest ==
    ASSUME TypeOK, Named,
           \/ \E t \in Tokens : EndSession(t)
           \/ \E b \in BOOLEAN : Restart(b)
           \/ UNCHANGED vars
    PROVE  Named'
  BY DEF EndSession, Restart, Named, Idle, Regrading, vars

-----------------------------------------------------------------------------
(* Absent rows.                                                             *)

(* Every table a step writes has only proper rows beside the absent ones.   *)
LEMMA AbsentTables ==
    ASSUME TypeOK, AbsentRows, NEW u \in Users
    PROVE  /\ \A row : row.role \in Roles /\ admins' = Inserted(u, row) => AbsentRows'
           /\ \A row : row.role \in Roles /\ admins' = Regraded(u, row) => AbsentRows'
           /\ \A p, b : admins' = WithPassword(u, p, b) => AbsentRows'
           /\ \A r \in Roles : admins' = [admins EXCEPT ![u].role = r] => AbsentRows'
           /\ admins' = admins => AbsentRows'
<1>1. \A r \in Roles : r # None
  BY AdminAssumption DEF Roles
<1>2. ASSUME NEW p, NEW b, admins' = WithPassword(u, p, b) PROVE AbsentRows'
  BY <1>2 DEF AbsentRows, WithPassword, Exists, TypeOK, AdminRows
<1>3. ASSUME NEW r \in Roles, admins' = [admins EXCEPT ![u].role = r] PROVE AbsentRows'
  BY <1>1, <1>3 DEF AbsentRows, Exists, TypeOK, AdminRows
<1> QED
  BY <1>1, <1>2, <1>3 DEF AbsentRows, Inserted, Regraded, Exists, TypeOK

LEMMA AbsentNew ==
    ASSUME TypeOK, AbsentRows, NEW u \in Users, NEW r \in Roles, NEW p, NEW b, NEW c,
           NEW w, \/ Roster(w, Inserted(u, NewRow(r, p, b, c)))
                  \/ Roster(w, Regraded(u, NewRow(r, p, b, c)))
    PROVE  AbsentRows'
<1>1. NewRow(r, p, b, c).role \in Roles
  BY DEF NewRow
<1> QED
  BY <1>1, AbsentTables DEF Roster

LEMMA AbsentStep ==
    ASSUME TypeOK, Named, AbsentRows, NEW w \in Workers, Step(w) \/ Request(w)
    PROVE  AbsentRows'
<1> DEFINE h == thread[w]
<1>h. h \in Handlers
  BY DEF TypeOK
<1>u. h.pc \notin {"idle", "gated"} => h.user \in Users
  BY DEF Named
<1>s. "superuser" \in Roles
  BY DEF Roles
<1>1. CASE SetupInsert(w) \/ ResetAdminInsert(w)
  BY <1>1, <1>u, <1>s, AbsentNew DEF SetupInsert, ResetAdminInsert
<1>2. CASE SsoInsert(w) \/ SsoAdopt(w)
  <2>1. h.role \in Roles
    BY <1>2 DEF SsoInsert, SsoAdopt, Named, Regrading
  <2> QED
    BY <1>2, <1>u, <2>1, AbsentNew DEF SsoInsert, SsoAdopt
<1>3. CASE SsoSync(w)
  <2>1. h.role \in Roles /\ h.user \in Users
    BY <1>3, <1>u DEF SsoSync, Named, Regrading
  <2>2. [admins[h.user] EXCEPT !.role = h.role].role = h.role
    BY <2>1 DEF TypeOK, AdminRows
  <2> QED
    BY <1>3, <2>1, <2>2, AbsentTables DEF SsoSync, Roster
<1>4. CASE LoginRehash(w) \/ ResetWrite(w) \/ ResetAdminUpdate(w)
  BY <1>4, <1>u, AbsentTables DEF LoginRehash, ResetWrite, ResetAdminUpdate
<1>5. CASE CredentialsPassword(w)
  <2>1. (IF h.to = None THEN h.user ELSE h.to) \in Users
    BY <1>5, <1>h, <1>u DEF CredentialsPassword, Handlers
  <2> QED
    BY <1>5, <2>1, AbsentTables DEF CredentialsPassword
<1>6. CASE RoleWrite(w)
  <2>1. h.role \in Roles /\ h.user \in Users
    BY <1>6, <1>u DEF RoleWrite, Named, Regrading
  <2> QED
    BY <1>6, <2>1, AbsentTables DEF RoleWrite, Roster
<1>7. CASE RemoveDelete(w)
  BY <1>7, <1>u DEF RemoveDelete, Roster, AbsentRows, Exists, TypeOK, NoAdmin
<1>8. CASE CredentialsRename(w)
  <2>1. h.user \in Users /\ h.to \in Users
    BY <1>8, <1>u DEF CredentialsRename, Named
  <2>2. ASSUME admins' = [admins EXCEPT ![h.to] = admins[h.user], ![h.user] = NoAdmin]
        PROVE  AbsentRows'
    BY <2>1, <2>2 DEF AbsentRows, Exists, TypeOK, NoAdmin
  <2> QED
    BY <1>8, <2>1, <2>2, AbsentTables DEF CredentialsRename, Roster
<1>9. ASSUME NEW u \in Users, NEW r \in Roles, Add(w, u, r) PROVE AbsentRows'
  BY <1>9, AbsentNew DEF Add
<1>10. CASE admins' = admins
  BY <1>10 DEF AbsentRows, Exists
<1>11. CASE Request(w)
  BY <1>9, <1>10, <1>11 DEF Request, Gate, SetupCount, LoginVerify, RemoveLookup, ResetLookup,
     ResetAdminLookup, RoleLookup, SsoLookup, CredentialsVerify
<1>12. CASE Step(w)
  BY <1>1, <1>2, <1>3, <1>4, <1>5, <1>6, <1>7, <1>8, <1>10, <1>12
     DEF Step, RehashFails, Mint, MintFails, GatedRefused, RemoveGuard, RoleGuard, DropTokens,
         CredentialsRefused
<1> QED
  BY <1>11, <1>12

LEMMA AbsentRest ==
    ASSUME TypeOK, AbsentRows,
           \/ \E t \in Tokens : EndSession(t)
           \/ \E b \in BOOLEAN : Restart(b)
           \/ UNCHANGED vars
    PROVE  AbsentRows'
<1>1. ASSUME NEW b \in BOOLEAN, Restart(b) PROVE AbsentRows'
  <2>1. ASSUME NEW u \in Users
        PROVE  admins'[u].role = admins[u].role /\ admins'[u].password = admins[u].password
    <3>1. admins[u] \in AdminRows
      BY DEF TypeOK
    <3> QED
      BY <1>1, <3>1 DEF Restart, AdminRows
  <2> QED
    BY <2>1 DEF AbsentRows, Exists
<1> QED
  BY <1>1 DEF EndSession, AbsentRows, Exists, vars

-----------------------------------------------------------------------------
(* Sessions.                                                                *)

(* An excuse holds on for a session that stays, if what excuses it does.    *)
LEMMA Kept ==
    ASSUME TypeOK, StoredSessions, NEW t \in Tokens,
           tokens'[t] = tokens[t],
           Mismatch(t)' => Mismatch(t),
           tokens[t].user \in unswept => tokens[t].user \in unswept',
           \A w \in Workers : tokens[t].user \in Sweeping(w) =>
              tokens[t].user \in unswept' \/ \E o \in Workers : tokens[t].user \in Sweeping(o)'
    PROVE  Mismatch(t)' => Excused(t)'
  BY DEF StoredSessions, Excused

(* A session that is not there needs no excuse.                             *)
LEMMA Gone ==
    ASSUME NEW t \in Tokens, tokens'[t] = NoToken
    PROVE  ~Mismatch(t)'
  BY DEF Mismatch, Stored, NoToken

(* Nobody else's sweep is touched, and w has none to do.                    *)
LEMMA OthersSweep ==
    ASSUME TypeOK, NEW w \in Workers, NEW r, Become(w, r)
    PROVE  /\ \A o \in Workers \ {w} : Sweeping(o)' = Sweeping(o)
           /\ thread[w].pc \notin {"drop", "c_password"} =>
                \A o \in Workers : Sweeping(o) \subseteq Sweeping(o)'
<1>1. \A o \in Workers \ {w} : thread'[o] = thread[o]
  BY DEF Become, TypeOK
<1>2. \A o \in Workers \ {w} : Sweeping(o)' = Sweeping(o)
  BY <1>1 DEF Sweeping
<1>3. thread[w].pc \notin {"drop", "c_password"} => Sweeping(w) = {}
  BY DEF Sweeping
<1> QED
  BY <1>2, <1>3

(* A step of a worker with nothing to sweep that leaves sessions alone and  *)
(* puts none of them out of date.                                           *)
LEMMA Quiet ==
    ASSUME TypeOK, StoredSessions, NEW w \in Workers, NEW r, Become(w, r),
           thread[w].pc \notin {"drop", "c_password"},
           tokens' = tokens, unswept \subseteq unswept',
           \A t \in Tokens : Mismatch(t)' => Mismatch(t) \/ Excused(t)'
    PROVE  StoredSessions'
<1> SUFFICES ASSUME NEW t \in Tokens, Mismatch(t)', Mismatch(t) PROVE Excused(t)'
  BY DEF StoredSessions
<1>1. \A o \in Workers : Sweeping(o) \subseteq Sweeping(o)'
  BY OthersSweep
<1> QED
  BY <1>1, Kept

(* The table is the same, or has a new row where there was none.            *)
LEMMA SameMismatch ==
    ASSUME TypeOK, AbsentRows, NEW u \in Users, NEW row, tokens' = tokens,
           admins' = admins \/ admins' = Inserted(u, row)
    PROVE  \A t \in Tokens : Mismatch(t)' => Mismatch(t)
<1> SUFFICES ASSUME NEW t \in Tokens, Mismatch(t)' PROVE Mismatch(t)
  OBVIOUS
<1>1. tokens[t].user \in Users
  BY DEF Mismatch, Stored, TypeOK, TokenRows
<1>2. CASE admins' = admins
  BY <1>2 DEF Mismatch, Stored
<1>3. CASE admins' = Inserted(u, row) /\ ~Exists(u) /\ tokens[t].user = u
  BY <1>3 DEF Mismatch, Stored, AbsentRows
<1>4. CASE admins' = Inserted(u, row) /\ (Exists(u) \/ tokens[t].user # u)
  BY <1>1, <1>4 DEF Mismatch, Stored, Inserted, TypeOK
<1> QED
  BY <1>2, <1>3, <1>4

(* A new password puts only the sessions of that name out of date.          *)
LEMMA PasswordMismatch ==
    ASSUME TypeOK, NEW u \in Users, NEW p, NEW b, tokens' = tokens,
           admins' = WithPassword(u, p, b)
    PROVE  \A t \in Tokens : Mismatch(t)' =>
              \/ Mismatch(t)
              \/ tokens'[t].user = u /\ Exists(u) /\ admins[u].password # p
<1> SUFFICES ASSUME NEW t \in Tokens, Mismatch(t)', ~Mismatch(t)
             PROVE  tokens'[t].user = u /\ Exists(u) /\ admins[u].password # p
  OBVIOUS
<1>1. tokens[t].user \in Users
  BY DEF Mismatch, Stored, TypeOK, TokenRows
<1>2. admins'[tokens[t].user].password # admins[tokens[t].user].password
  BY DEF Mismatch, Stored
<1>3. Exists(u) /\ tokens[t].user = u
  BY <1>1, <1>2 DEF WithPassword, TypeOK
<1>4. admins'[u].password = p
  BY <1>3 DEF WithPassword, TypeOK, AdminRows
<1> QED
  BY <1>2, <1>3, <1>4

(* Nothing but the worker's own record changes.                             *)
LEMMA QuietRead ==
    ASSUME TypeOK, StoredSessions, NEW w \in Workers, NEW r, Become(w, r),
           thread[w].pc \notin {"drop", "c_password"},
           tokens' = tokens, unswept' = unswept, admins' = admins
    PROVE  StoredSessions'
<1>1. \A t \in Tokens : Mismatch(t)' => Mismatch(t)
  BY DEF Mismatch, Stored
<1> QED
  BY <1>1, Quiet

(* An account is added, or the name is taken.                               *)
LEMMA QuietInsert ==
    ASSUME TypeOK, AbsentRows, StoredSessions, NEW w \in Workers, NEW r, Become(w, r),
           thread[w].pc \notin {"drop", "c_password"},
           tokens' = tokens, unswept' = unswept,
           NEW u \in Users, NEW row, admins' = Inserted(u, row)
    PROVE  StoredSessions'
<1>1. \A t \in Tokens : Mismatch(t)' => Mismatch(t)
  BY SameMismatch
<1> QED
  BY <1>1, Quiet

LEMMA SessionRequest ==
    ASSUME TypeOK, AbsentRows, StoredSessions, NEW w \in Workers, Request(w)
    PROVE  StoredSessions'
<1>1. ASSUME NEW r, Become(w, r), thread[w].pc \in {"idle", "gated"},
             UNCHANGED <<admins, tokens, unswept>>
      PROVE  StoredSessions'
  BY <1>1, QuietRead
<1>2. CASE Gate(w)
  BY <1>1, <1>2 DEF Gate, Free, hist
<1>3. ASSUME NEW u \in Users, SetupCount(w, u) PROVE StoredSessions'
  BY <1>1, <1>3 DEF SetupCount, Free, hist
<1>4. ASSUME NEW u \in Users, LoginVerify(w, u) PROVE StoredSessions'
  BY <1>1, <1>4 DEF LoginVerify, Free, hist
<1>5. ASSUME NEW u \in Users, RemoveLookup(w, u) PROVE StoredSessions'
  BY <1>1, <1>5 DEF RemoveLookup, hist
<1>6. ASSUME NEW u \in Users, ResetLookup(w, u) PROVE StoredSessions'
  BY <1>1, <1>6 DEF ResetLookup, hist
<1>7. ASSUME NEW u \in Users, ResetAdminLookup(w, u) PROVE StoredSessions'
  BY <1>1, <1>7 DEF ResetAdminLookup, Free, hist
<1>8. ASSUME NEW u \in Users, NEW role \in Roles, Add(w, u, role) PROVE StoredSessions'
  BY <1>8, QuietInsert DEF Add, Roster, Finish
<1>9. ASSUME NEW u \in Users, NEW role \in Roles, RoleLookup(w, u, role) PROVE StoredSessions'
  BY <1>1, <1>9 DEF RoleLookup, hist
<1>10. ASSUME NEW u \in Users, NEW role \in Roles, SsoLookup(w, u, role) PROVE StoredSessions'
  BY <1>1, <1>10 DEF SsoLookup, Free, hist
<1>11. ASSUME NEW u \in Users, NEW to \in Users \cup {None}, NEW b \in BOOLEAN,
              CredentialsVerify(w, u, to, b)
       PROVE  StoredSessions'
  BY <1>1, <1>11 DEF CredentialsVerify, Free, hist
<1> QED
  BY <1>2, <1>3, <1>4, <1>5, <1>6, <1>7, <1>8, <1>9, <1>10, <1>11 DEF Request

(* A step that leaves the sessions alone and hands on what w had to sweep.  *)
LEMMA HandedOn ==
    ASSUME TypeOK, StoredSessions, NEW w \in Workers, NEW r, Become(w, r),
           tokens' = tokens, unswept \subseteq unswept',
           Sweeping(w) \subseteq Sweeping(w)' \cup unswept',
           \A t \in Tokens : Mismatch(t)' => Mismatch(t) \/ Excused(t)'
    PROVE  StoredSessions'
<1> SUFFICES ASSUME NEW t \in Tokens, Mismatch(t)', Mismatch(t) PROVE Excused(t)'
  BY DEF StoredSessions
<1>1. \A o \in Workers : Sweeping(o) \subseteq Sweeping(o)' \cup unswept'
  BY OthersSweep
<1> QED
  BY <1>1, Kept

(* A password is written, and its sessions are recorded as left in place    *)
(* unless nothing is there to change.                                       *)
LEMMA PasswordRecorded ==
    ASSUME TypeOK, StoredSessions, NEW w \in Workers, NEW r, Become(w, r),
           thread[w].pc \notin {"drop", "c_password"}, tokens' = tokens,
           NEW u \in Users, NEW p, NEW b, admins' = WithPassword(u, p, b),
           NEW c, Unsettle(u, c), Exists(u) /\ admins[u].password # p => c
    PROVE  StoredSessions'
<1>1. unswept \subseteq unswept'
  BY DEF Unsettle
<1>2. \A t \in Tokens : Mismatch(t)' => Mismatch(t) \/ Excused(t)'
  BY PasswordMismatch DEF Unsettle, Excused
<1> QED
  BY <1>1, <1>2, Quiet

(* After DropNext the worker is about to drop the sessions of both names.   *)
LEMMA DropSweeps ==
    ASSUME TypeOK, NEW w \in Workers, DropNext(w)
    PROVE  Sweeping(w)' = {thread[w].user, thread[w].to} \ {None}
<1> DEFINE r == [Idle EXCEPT !.pc = "drop", !.user = thread[w].user, !.to = thread[w].to]
<1>1. thread'[w] = r
  BY DEF DropNext, Become, TypeOK
<1>2. r.pc = "drop" /\ r.user = thread[w].user /\ r.to = thread[w].to
  BY DEF Idle
<1> QED
  BY <1>1, <1>2 DEF Sweeping

(* A password is written by a worker that drops the name's sessions next.   *)
LEMMA PasswordDropped ==
    ASSUME TypeOK, StoredSessions, NEW w \in Workers, DropNext(w),
           thread[w].pc \in {"p_write", "c_password"}, thread[w].user \in Users,
           UNCHANGED <<tokens, unswept>>,
           NEW u \in {thread[w].user, thread[w].to} \ {None}, u \in Users,
           NEW p, NEW b, admins' = WithPassword(u, p, b)
    PROVE  StoredSessions'
<1>1. Sweeping(w)' = {thread[w].user, thread[w].to} \ {None}
  BY DropSweeps
<1>2. Sweeping(w) \subseteq Sweeping(w)'
  BY <1>1, AdminAssumption DEF Sweeping
<1>3. \A t \in Tokens : Mismatch(t)' => Mismatch(t) \/ Excused(t)'
  BY <1>1, PasswordMismatch DEF Excused
<1> QED
  BY <1>2, <1>3, HandedOn DEF DropNext

(* A rename: the old name's sessions are this worker's to drop; the new     *)
(* name had no account, so its sessions were out of date before.            *)
LEMMA RenamedMismatch ==
    ASSUME TypeOK, AbsentRows, NEW u \in Users, NEW to \in Users, ~Exists(to),
           tokens' = tokens,
           admins' = [admins EXCEPT ![to] = admins[u], ![u] = NoAdmin]
    PROVE  \A t \in Tokens : Mismatch(t)' => Mismatch(t) \/ tokens[t].user = u
<1> SUFFICES ASSUME NEW t \in Tokens, Mismatch(t)', tokens[t].user # u
             PROVE  Mismatch(t)
  OBVIOUS
<1>1. tokens[t].user \in Users
  BY DEF Mismatch, Stored, TypeOK, TokenRows
<1>2. CASE tokens[t].user = to
  BY <1>2 DEF Mismatch, Stored, AbsentRows
<1>3. CASE tokens[t].user # to
  BY <1>1, <1>3 DEF Mismatch, Stored, TypeOK
<1> QED
  BY <1>2, <1>3

(* Sessions of u are dropped, and with them what was still to sweep of u.   *)
LEMMA DroppedSessions ==
    ASSUME TypeOK, StoredSessions, NEW w \in Workers, NEW r, Become(w, r),
           NEW u \in Users, tokens' = Without(u), unswept' = unswept \ {u},
           Sweeping(w) \subseteq Sweeping(w)' \cup {u},
           \A v \in Users \ {u} : admins'[v].password = admins[v].password
    PROVE  StoredSessions'
<1> SUFFICES ASSUME NEW t \in Tokens PROVE Mismatch(t)' => Excused(t)'
  BY DEF StoredSessions
<1>1. CASE tokens[t].user = u
  BY <1>1, Gone DEF Without
<1>2. CASE tokens[t].user # u
  <2>1. tokens'[t] = tokens[t]
    BY <1>2 DEF Without
  <2>2. Mismatch(t)' => Mismatch(t)
    BY <1>2, <2>1 DEF Mismatch, Stored, TypeOK, TokenRows
  <2>3. \A o \in Workers : tokens[t].user \in Sweeping(o) => tokens[t].user \in Sweeping(o)'
    BY <1>2, OthersSweep
  <2> QED
    BY <1>2, <2>1, <2>2, <2>3, Kept
<1> QED
  BY <1>1, <1>2

LEMMA SessionMint ==
    ASSUME TypeOK, Named, StoredSessions, NEW w \in Workers, NEW s \in Tokens, Mint(w, s)
    PROVE  StoredSessions'
<1> SUFFICES ASSUME NEW t \in Tokens PROVE Mismatch(t)' => Excused(t)'
  BY DEF StoredSessions
<1>1. CASE t = s
  <2>1. /\ tokens'[t].late = (admins[thread[w].user].password # thread[w].old)
        /\ tokens'[t].user = thread[w].user /\ tokens'[t].password = thread[w].old
    BY <1>1 DEF Mint, TypeOK
  <2> QED
    BY <2>1 DEF Mint, Mismatch, Excused
<1>2. CASE t # s
  <2>1. tokens'[t] = tokens[t]
    BY <1>2 DEF Mint, TypeOK
  <2>2. Mismatch(t)' => Mismatch(t)
    BY <2>1 DEF Mismatch, Stored, Mint
  <2>3. \A o \in Workers : Sweeping(o) \subseteq Sweeping(o)'
    BY OthersSweep DEF Mint, Finish
  <2> QED
    BY <2>1, <2>2, <2>3, Kept DEF Mint, hist
<1> QED
  BY <1>1, <1>2

LEMMA SessionStep ==
    ASSUME TypeOK, Named, AbsentRows, StoredSessions, NEW w \in Workers, Step(w)
    PROVE  StoredSessions'
<1> DEFINE h == thread[w]
<1>h. h \in Handlers
  BY DEF TypeOK
<1>u. h.pc \notin {"idle", "gated"} => h.user \in Users
  BY DEF Named
<1>r. ASSUME NEW r, Become(w, r), h.pc \notin {"drop", "c_password"},
             UNCHANGED <<admins, tokens, unswept>>
      PROVE  StoredSessions'
  BY <1>r, QuietRead
<1>1. CASE SetupInsert(w) \/ SsoInsert(w) \/ ResetAdminInsert(w)
  <2>1. PICK r : Become(w, r)
    BY <1>1 DEF SetupInsert, SsoInsert, ResetAdminInsert, Finish, Goto
  <2>2. PICK row : admins' = Inserted(h.user, row)
    BY <1>1 DEF SetupInsert, SsoInsert, ResetAdminInsert, Roster
  <2> QED
    BY <1>1, <1>u, <2>1, <2>2, QuietInsert DEF SetupInsert, SsoInsert, ResetAdminInsert
<1>2. CASE RehashFails(w)
  BY <1>2, <1>r DEF RehashFails, hist
<1>3. CASE MintFails(w)
  BY <1>3, <1>r DEF MintFails, hist, Finish
<1>4. CASE GatedRefused(w)
  BY <1>4, <1>r DEF GatedRefused, hist, Finish
<1>5. CASE RemoveGuard(w)
  BY <1>5, <1>r DEF RemoveGuard, hist, Finish, Goto
<1>6. CASE RoleGuard(w)
  BY <1>6, <1>r DEF RoleGuard, hist, Finish, Goto
<1>7. CASE LoginRehash(w)
  BY <1>7, <1>u, PasswordRecorded DEF LoginRehash
<1>8. CASE ResetAdminUpdate(w)
  BY <1>8, <1>u, PasswordRecorded DEF ResetAdminUpdate, Finish
<1>9. ASSUME NEW t \in Tokens, Mint(w, t) PROVE StoredSessions'
  BY <1>9, SessionMint
<1>10. CASE ResetWrite(w)
  <2>1. h.user \in {h.user, h.to} \ {None} /\ h.user \in Users
    BY <1>10, <1>u, AdminAssumption DEF ResetWrite
  <2> QED
    BY <1>10, <2>1, PasswordDropped DEF ResetWrite, hist
<1>11. CASE CredentialsPassword(w)
  <2>1. /\ (IF h.to = None THEN h.user ELSE h.to) \in {h.user, h.to} \ {None}
        /\ (IF h.to = None THEN h.user ELSE h.to) \in Users /\ h.user \in Users
    BY <1>11, <1>h, <1>u, AdminAssumption DEF CredentialsPassword, Handlers
  <2> QED
    BY <1>11, <2>1, PasswordDropped DEF CredentialsPassword, hist
<1>12. CASE CredentialsRefused(w)
  <2>1. tokens' = tokens /\ \A t \in Tokens : Mismatch(t)' => Mismatch(t)
    BY <1>12 DEF CredentialsRefused, Mismatch, Stored
  <2>2. unswept \subseteq unswept' /\ Sweeping(w) \subseteq unswept'
    BY <1>12 DEF CredentialsRefused, Unsettle, Sweeping
  <2> QED
    BY <1>12, <2>1, <2>2, HandedOn DEF CredentialsRefused, Finish
<1>13. CASE RemoveDelete(w)
  <2>1. \A v \in Users \ {h.user} : admins'[v].password = admins[v].password
    BY <1>13 DEF RemoveDelete, Roster, TypeOK
  <2>2. Sweeping(w) = {}
    BY <1>13 DEF RemoveDelete, Sweeping
  <2> QED
    BY <1>13, <1>u, <2>1, <2>2, DroppedSessions DEF RemoveDelete, Finish
<1>14. CASE DropTokens(w)
  <2>1. PICK r : Become(w, r)
    BY <1>14 DEF DropTokens, Finish
  <2>2. Sweeping(w) \subseteq Sweeping(w)' \cup {h.user}
    <3>1. CASE h.to = None
      BY <1>14, <3>1 DEF DropTokens, Sweeping
    <3>2. CASE h.to # None
      <4>1. thread'[w] = [h EXCEPT !.user = h.to, !.to = None]
        BY <1>14, <3>2 DEF DropTokens, Become, TypeOK
      <4>2. thread'[w].pc = "drop" /\ thread'[w].user = h.to
        BY <1>14, <1>h, <4>1 DEF DropTokens, Handlers
      <4> QED
        BY <1>14, <4>2 DEF DropTokens, Sweeping
    <3> QED
      BY <3>1, <3>2
  <2> QED
    BY <1>14, <1>u, <2>1, <2>2, DroppedSessions DEF DropTokens
<1>15. CASE RoleWrite(w) \/ SsoSync(w)
  <2>1. PICK r : Become(w, r)
    BY <1>15 DEF RoleWrite, SsoSync, DropNext, Goto
  <2>2. \A v \in Users : admins'[v].password = admins[v].password
    BY <1>15 DEF RoleWrite, SsoSync, Roster, Regraded, TypeOK, AdminRows
  <2>3. tokens' = tokens /\ \A t \in Tokens : Mismatch(t)' => Mismatch(t)
    BY <1>15, <2>2 DEF RoleWrite, SsoSync, Mismatch, Stored, TypeOK, TokenRows
  <2> QED
    BY <1>15, <2>1, <2>3, Quiet DEF RoleWrite, SsoSync
<1>16. CASE SsoAdopt(w)
  <2>1. unswept \subseteq unswept' /\ tokens' = tokens
    BY <1>16 DEF SsoAdopt, Unsettle
  <2>2. ASSUME NEW t \in Tokens, Mismatch(t)', ~Mismatch(t) PROVE Excused(t)'
    <3>1. tokens[t].user \in Users
      BY <2>1, <2>2 DEF Mismatch, Stored, TypeOK, TokenRows
    <3>2. tokens[t].user = h.user /\ Exists(h.user)
      BY <1>16, <2>1, <2>2, <3>1 DEF SsoAdopt, Roster, Regraded, Mismatch, Stored, TypeOK
    <3> QED
      BY <1>16, <2>1, <3>2 DEF SsoAdopt, Unsettle, Excused
  <2> QED
    BY <1>16, <2>1, <2>2, Quiet DEF SsoAdopt, Goto
<1>17. CASE CredentialsRename(w)
  <2>1. PICK r : Become(w, r)
    BY <1>17 DEF CredentialsRename, DropNext, Finish, Goto
  <2>2. h.user \in Users /\ h.to \in Users /\ h.pc = "c_rename"
    BY <1>17, <1>u DEF CredentialsRename, Named
  <2>3. CASE admins' = admins
    BY <1>17, <1>r, <2>1, <2>2, <2>3 DEF CredentialsRename
  <2>4. CASE /\ ~Exists(h.to)
             /\ admins' = [admins EXCEPT ![h.to] = admins[h.user], ![h.user] = NoAdmin]
    <3>1. h.user \in Sweeping(w)'
      <4>1. CASE DropNext(w)
        BY <2>2, <4>1, DropSweeps, AdminAssumption
      <4>2. CASE Goto(w, "c_password")
        <5>1. thread'[w].pc = "c_password" /\ thread'[w].user = h.user /\ thread'[w].to = h.to
          BY <1>h, <4>2 DEF Goto, Become, TypeOK, Handlers
        <5> QED
          BY <2>2, <5>1, AdminAssumption DEF Sweeping
      <4> QED
        BY <1>17, <2>4, <4>1, <4>2 DEF CredentialsRename
    <3>2. \A t \in Tokens : Mismatch(t)' => Mismatch(t) \/ Excused(t)'
      BY <1>17, <2>2, <2>4, <3>1, RenamedMismatch DEF CredentialsRename, Excused
    <3> QED
      BY <1>17, <2>1, <2>2, <3>2, Quiet DEF CredentialsRename
  <2> QED
    BY <1>17, <2>3, <2>4 DEF CredentialsRename, Roster
<1> QED
  BY <1>1, <1>2, <1>3, <1>4, <1>5, <1>6, <1>7, <1>8, <1>9, <1>10, <1>11, <1>12, <1>13, <1>14,
     <1>15, <1>16, <1>17 DEF Step

LEMMA SessionRest ==
    ASSUME TypeOK, StoredSessions,
           \/ \E t \in Tokens : EndSession(t)
           \/ \E b \in BOOLEAN : Restart(b)
           \/ UNCHANGED vars
    PROVE  StoredSessions'
<1>1. ASSUME NEW s \in Tokens, EndSession(s) PROVE StoredSessions'
  <2> SUFFICES ASSUME NEW t \in Tokens PROVE Mismatch(t)' => Excused(t)'
    BY DEF StoredSessions
  <2>1. CASE t = s
    BY <1>1, <2>1, Gone DEF EndSession, TypeOK
  <2>2. CASE t # s
    <3>1. tokens'[t] = tokens[t]
      BY <1>1, <2>2 DEF EndSession, TypeOK
    <3> QED
      BY <1>1, <3>1, Kept DEF EndSession, hist, Mismatch, Stored, Sweeping
  <2> QED
    BY <2>1, <2>2
<1>2. ASSUME NEW b \in BOOLEAN, Restart(b) PROVE StoredSessions'
  <2> SUFFICES ASSUME NEW t \in Tokens, Mismatch(t)' PROVE Excused(t)'
    BY DEF StoredSessions
  <2>1. tokens'[t] = tokens[t] /\ tokens[t].user \in Users
    BY <1>2 DEF Restart, Mismatch, Stored, TypeOK, TokenRows
  <2>2. admins'[tokens[t].user].password = admins[tokens[t].user].password
    BY <1>2, <2>1 DEF Restart, TypeOK, AdminRows
  <2>3. Mismatch(t)' => Mismatch(t)
    BY <2>1, <2>2 DEF Mismatch, Stored
  <2>4. unswept \subseteq unswept' /\ \A o \in Workers : Sweeping(o) \subseteq unswept'
    BY <1>2 DEF Restart
  <2> QED
    BY <2>1, <2>3, <2>4, Kept
<1>3. CASE UNCHANGED vars
  BY <1>3 DEF vars, hist, StoredSessions, Excused, Mismatch, Stored, Sweeping
<1> QED
  BY <1>1, <1>2, <1>3

-----------------------------------------------------------------------------
(* The last superuser.  Until a check and a write have overlapped, what a   *)
(* guard has found is still so when the write comes: another superuser is   *)
(* left.  (Without a founder there is none to keep.)                        *)

AnotherLeft(u) == \E v \in Superusers : v # u

GuardHolds(w) ==
    /\ thread[w].pc = "r_guard" => thread[w].user \notin Superusers
    /\ thread[w].pc \in {"r_delete", "g_write"} /\ founded => AnotherLeft(thread[w].user)

SuperuserKept ==
    ~contested => (founded => Superusers # {}) /\ \A w \in Workers : GuardHolds(w)

(* What a count above one means: whoever is meant, another is left.         *)
LEMMA SparedLeaves == Spared => \A u \in Users : AnotherLeft(u)
<1> SUFFICES ASSUME Spared, NEW u \in Users, ~AnotherLeft(u) PROVE FALSE
  OBVIOUS
<1>1. Superusers \subseteq {u}
  BY DEF AnotherLeft
<1>2. Superusers = {} \/ Superusers = {u}
  BY <1>1
<1>3. Cardinality(Superusers) = 0 \/ Cardinality(Superusers) = 1
  BY <1>2, FS_EmptySet, FS_Singleton
<1> QED
  BY <1>3 DEF Spared

(* A step that writes no role keeps what the guards of the others found.    *)
LEMMA RolesKept ==
    ASSUME SuperuserKept, NEW w \in Workers, NEW r, thread \in [Workers -> Handlers],
           Become(w, r), UNCHANGED <<founded, contested>>,
           \A u \in Users : admins'[u].role = admins[u].role,
           ~contested => GuardHolds(w)'
    PROVE  SuperuserKept'
<1> SUFFICES ASSUME ~contested PROVE SuperuserKept'
  BY DEF SuperuserKept
<1>1. Superusers' = Superusers
  BY DEF Superusers
<1>2. ASSUME NEW o \in Workers PROVE GuardHolds(o)'
  <2>1. CASE o = w
    BY <2>1
  <2>2. CASE o # w
    <3>1. thread'[o] = thread[o]
      BY <2>2 DEF Become
    <3>2. GuardHolds(o)
      BY DEF SuperuserKept
    <3> QED
      BY <1>1, <3>1, <3>2 DEF GuardHolds, AnotherLeft
  <2> QED
    BY <2>1, <2>2
<1> QED
  BY <1>1, <1>2 DEF SuperuserKept

(* The common case: the worker that moves is not past a guard afterwards.   *)
LEMMA RolesKeptOutside ==
    ASSUME SuperuserKept, NEW w \in Workers, NEW r, thread \in [Workers -> Handlers],
           Become(w, r), UNCHANGED <<founded, contested>>,
           \A u \in Users : admins'[u].role = admins[u].role,
           r.pc \notin {"r_guard", "r_delete", "g_write"}
    PROVE  SuperuserKept'
<1>1. thread'[w] = r
  BY DEF Become
<1>2. GuardHolds(w)'
  BY <1>1 DEF GuardHolds
<1> QED
  BY <1>2, RolesKept

LEMMA SamePassword ==
    ASSUME TypeOK, NEW u \in Users, NEW p, NEW b, admins' = WithPassword(u, p, b)
    PROVE  \A v \in Users : admins'[v].role = admins[v].role
  BY DEF WithPassword, TypeOK, AdminRows

(* Where a worker goes after a write of the roster is outside the checks.   *)
Leaves(w) == \E r : Become(w, r) /\ r.pc \notin Section

LEMMA LeavingMoves ==
    ASSUME TypeOK, NEW w \in Workers
    PROVE  /\ Finish(w) => Leaves(w)
           /\ DropNext(w) => Leaves(w)
           /\ Goto(w, "mint") => Leaves(w)
           /\ Goto(w, "c_password") => Leaves(w)
<1>1. thread[w] \in Handlers
  BY DEF TypeOK
<1>2. Idle.pc \notin Section
  BY DEF Idle, Section
<1>3. [Idle EXCEPT !.pc = "drop", !.user = thread[w].user, !.to = thread[w].to].pc
        \notin Section
  BY DEF Idle, Section
<1>4. \A pc \in {"mint", "c_password"} : [thread[w] EXCEPT !.pc = pc].pc \notin Section
  BY <1>1 DEF Handlers, Section
<1>5. Finish(w) => Leaves(w)
  BY <1>2, Zenon DEF Finish, Leaves
<1>6. DropNext(w) => Leaves(w)
  BY <1>3, Zenon DEF DropNext, Leaves
<1>7. \A pc \in {"mint", "c_password"} : Goto(w, pc) => Leaves(w)
  BY <1>4, Zenon DEF Goto, Leaves
<1> QED
  BY <1>5, <1>6, <1>7

(* A write of the roster that leaves a superuser where there was one: it    *)
(* overlaps no other worker's check, or the roster is contested.            *)
LEMMA RosterKept ==
    ASSUME SuperuserKept, NEW w \in Workers, NEW r, thread \in [Workers -> Handlers],
           Become(w, r), r.pc \notin Section, NEW table, Roster(w, table),
           ~contested' => (founded => Superusers' # {})
    PROVE  SuperuserKept'
<1> SUFFICES ASSUME ~contested' PROVE SuperuserKept'
  BY DEF SuperuserKept
<1>1. ASSUME NEW o \in Workers PROVE GuardHolds(o)'
  <2>1. CASE o = w
    BY <2>1 DEF GuardHolds, Become, Section
  <2>2. CASE o # w
    <3>1. thread[o].pc \notin Section
      BY <2>2 DEF Roster, Overlaps
    <3>2. thread'[o] = thread[o]
      BY <2>2 DEF Become
    <3> QED
      BY <3>1, <3>2 DEF GuardHolds, Section
  <2> QED
    BY <2>1, <2>2
<1>2. founded' => Superusers' # {}
  BY DEF Roster, Superusers
<1> QED
  BY <1>1, <1>2 DEF SuperuserKept

(* add_administrator never takes a role away.                               *)
LEMMA InsertKept ==
    ASSUME SuperuserKept, TypeOK, NEW w \in Workers, NEW r, Become(w, r), r.pc \notin Section,
           NEW u \in Users, NEW row, Roster(w, Inserted(u, row))
    PROVE  SuperuserKept'
<1>1. contested => contested'
  BY DEF Roster
<1>2. Superusers \subseteq Superusers'
  BY AdminAssumption DEF Superusers, Roster, Inserted, Exists, TypeOK
<1> QED
  BY <1>1, <1>2, RosterKept DEF SuperuserKept, TypeOK

(* The requests: what a lookup finds is so while nobody else writes.        *)
LEMMA KeptRequest ==
    ASSUME SuperuserKept, TypeOK, NEW w \in Workers, Request(w)
    PROVE  SuperuserKept'
<1>t. thread \in [Workers -> Handlers]
  BY DEF TypeOK
<1>r. ASSUME NEW r, Become(w, r), r.pc \notin {"r_guard", "r_delete", "g_write"},
             UNCHANGED <<admins, founded, contested>>
      PROVE  SuperuserKept'
  BY <1>r, <1>t, RolesKeptOutside
<1>1. CASE Gate(w)
  BY <1>1, <1>r DEF Gate, hist, Idle
<1>2. ASSUME NEW u \in Users, SetupCount(w, u) PROVE SuperuserKept'
  BY <1>2, <1>r DEF SetupCount, hist, Idle
<1>3. ASSUME NEW u \in Users, LoginVerify(w, u) PROVE SuperuserKept'
  BY <1>3, <1>r DEF LoginVerify, hist, Idle
<1>4. ASSUME NEW u \in Users, RemoveLookup(w, u) PROVE SuperuserKept'
  <2> DEFINE r == [Idle EXCEPT !.user = u, !.pc = IF admins[u].role = "superuser"
                                                  THEN "r_guard_super" ELSE "r_guard"]
  <2>1. Become(w, r) /\ UNCHANGED <<admins, founded, contested>>
    BY <1>4 DEF RemoveLookup, hist
  <2>2. thread'[w] = r
    BY <1>t, <2>1 DEF Become
  <2>3. /\ thread'[w].user = u
        /\ thread'[w].pc = IF admins[u].role = "superuser" THEN "r_guard_super" ELSE "r_guard"
    BY <2>2 DEF Idle
  <2>4. GuardHolds(w)'
    BY <2>1, <2>3 DEF GuardHolds, Superusers
  <2> HIDE DEF r
  <2> QED
    BY <1>t, <2>1, <2>4, RolesKept
<1>5. ASSUME NEW u \in Users, ResetLookup(w, u) PROVE SuperuserKept'
  BY <1>5, <1>r DEF ResetLookup, hist, Idle
<1>6. ASSUME NEW u \in Users, ResetAdminLookup(w, u) PROVE SuperuserKept'
  BY <1>6, <1>r DEF ResetAdminLookup, hist, Idle
<1>7. ASSUME NEW u \in Users, NEW role \in Roles, RoleLookup(w, u, role) PROVE SuperuserKept'
  <2> DEFINE r == [Idle EXCEPT !.user = u, !.role = role,
                     !.pc = IF admins[u].role = "superuser" THEN "g_guard" ELSE "g_write"]
  <2>1. Become(w, r) /\ UNCHANGED <<admins, founded, contested>>
    BY <1>7 DEF RoleLookup, hist
  <2>2. thread'[w] = r
    BY <1>t, <2>1 DEF Become
  <2>3. /\ thread'[w].user = u
        /\ thread'[w].pc = IF admins[u].role = "superuser" THEN "g_guard" ELSE "g_write"
    BY <2>2 DEF Idle
  <2>4. ~contested => GuardHolds(w)'
    BY <2>1, <2>3 DEF GuardHolds, AnotherLeft, Superusers, SuperuserKept
  <2> HIDE DEF r
  <2> QED
    BY <1>t, <2>1, <2>4, RolesKept
<1>8. ASSUME NEW u \in Users, NEW role \in Roles, SsoLookup(w, u, role) PROVE SuperuserKept'
  BY <1>8, <1>r DEF SsoLookup, hist, Idle
<1>9. ASSUME NEW u \in Users, NEW to \in Users \cup {None}, NEW b \in BOOLEAN,
             CredentialsVerify(w, u, to, b)
      PROVE  SuperuserKept'
  BY <1>9, <1>r DEF CredentialsVerify, hist, Idle
<1>10. ASSUME NEW u \in Users, NEW role \in Roles, Add(w, u, role) PROVE SuperuserKept'
  <2>1. Idle.pc \notin Section
    BY DEF Idle, Section
  <2> QED
    BY <1>10, <2>1, InsertKept DEF Add, Finish
<1> QED
  BY <1>1, <1>2, <1>3, <1>4, <1>5, <1>6, <1>7, <1>8, <1>9, <1>10 DEF Request

(* The guards: what they let through is so.                                 *)
LEMMA KeptGuard ==
    ASSUME SuperuserKept, TypeOK, Named, NEW w \in Workers, RemoveGuard(w) \/ RoleGuard(w)
    PROVE  SuperuserKept'
<1> DEFINE h == thread[w]
<1>h. h \in Handlers
  BY DEF TypeOK
<1>u. h.user \in Users
  BY DEF RemoveGuard, RoleGuard, Named
<1>t. thread \in [Workers -> Handlers]
  BY DEF TypeOK
<1>e. UNCHANGED <<admins, founded, contested>>
  BY DEF RemoveGuard, RoleGuard, hist
<1>1. CASE Finish(w)
  BY <1>1, <1>e, <1>t, RolesKeptOutside DEF Finish, Idle
<1>2. ASSUME NEW pc \in {"r_delete", "g_write"}, Goto(w, pc),
             ~contested => (founded => AnotherLeft(h.user))
      PROVE  SuperuserKept'
  <2>1. thread'[w] = [h EXCEPT !.pc = pc]
    BY <1>2 DEF Goto, Become, TypeOK
  <2>2. thread'[w].pc = pc /\ thread'[w].user = h.user
    BY <1>h, <2>1 DEF Handlers
  <2>3. ~contested => GuardHolds(w)'
    BY <1>2, <1>e, <2>2 DEF GuardHolds, AnotherLeft, Superusers
  <2> QED
    BY <1>2, <1>e, <1>t, <2>3, RolesKept DEF Goto
<1>3. CASE RemoveGuard(w)
  <2>1. CASE h.pc = "r_guard_super" /\ Goto(w, "r_delete")
    BY <1>2, <1>3, <1>u, <2>1, SparedLeaves, <1>1 DEF RemoveGuard
  <2>2. CASE h.pc = "r_guard" /\ Goto(w, "r_delete")
    <3>1. ~contested => (founded => AnotherLeft(h.user))
      BY <2>2 DEF SuperuserKept, GuardHolds, AnotherLeft
    <3> QED
      BY <1>2, <2>2, <3>1
  <2> QED
    BY <1>1, <1>3, <2>1, <2>2 DEF RemoveGuard
<1>4. CASE RoleGuard(w)
  BY <1>1, <1>2, <1>4, <1>u, SparedLeaves DEF RoleGuard
<1> QED
  BY <1>3, <1>4

(* The writes that take a role away: a deletion and a change of role.       *)
LEMMA KeptRemoval ==
    ASSUME SuperuserKept, TypeOK, Named, NEW w \in Workers, RemoveDelete(w) \/ RoleWrite(w)
    PROVE  SuperuserKept'
<1> DEFINE u == thread[w].user
<1>u. u \in Users
  BY DEF RemoveDelete, RoleWrite, Named
<1>1. PICK r : Become(w, r) /\ r.pc \notin Section
  BY LeavingMoves DEF RemoveDelete, RoleWrite, Leaves
<1>2. PICK table : Roster(w, table) /\ \A v \in Users \ {u} : table[v] = admins[v]
  BY ZenonT(30) DEF RemoveDelete, RoleWrite, TypeOK
<1>3. ~contested' /\ founded => Superusers' # {}
  <2> SUFFICES ASSUME ~contested', founded PROVE Superusers' # {}
    OBVIOUS
  <2>1. ~contested
    BY <1>2 DEF Roster
  <2>2. AnotherLeft(u)
    BY <2>1 DEF SuperuserKept, GuardHolds, RemoveDelete, RoleWrite
  <2> QED
    BY <1>2, <2>2 DEF AnotherLeft, Superusers, Roster
<1> QED
  BY <1>1, <1>2, <1>3, RosterKept DEF TypeOK

(* A rename moves the superuser with the rest of the row.                   *)
LEMMA KeptRename ==
    ASSUME SuperuserKept, TypeOK, Named, NEW w \in Workers, CredentialsRename(w)
    PROVE  SuperuserKept'
<1> DEFINE h == thread[w]
           table == IF Exists(h.user) /\ ~(Exists(h.user) /\ Exists(h.to))
                    THEN [admins EXCEPT ![h.to] = admins[h.user], ![h.user] = NoAdmin]
                    ELSE admins
<1>h. h \in Handlers /\ h.user \in Users /\ h.to \in Users
  BY DEF TypeOK, CredentialsRename, Named
<1>1. Roster(w, table)
  BY DEF CredentialsRename
<1>2. PICK r : Become(w, r) /\ r.pc \notin Section
  BY LeavingMoves DEF CredentialsRename, Leaves
<1>3. Superusers # {} => Superusers' # {}
  <2>1. admins' = table
    BY <1>1 DEF Roster
  <2>2. CASE Exists(h.user) /\ ~Exists(h.to)
    <3>1. admins' = [admins EXCEPT ![h.to] = admins[h.user], ![h.user] = NoAdmin]
      BY <2>1, <2>2
    <3>2. h.user # h.to
      BY <2>2
    <3>3. ASSUME NEW v \in Superusers PROVE Superusers' # {}
      <4>1. CASE v = h.user
        BY <1>h, <3>1, <3>2, <3>3, <4>1 DEF Superusers, TypeOK
      <4>2. CASE v # h.user
        <5>1. v # h.to
          BY <2>2, <3>3, AdminAssumption DEF Superusers, Exists
        <5> QED
          BY <1>h, <3>1, <3>3, <4>2, <5>1 DEF Superusers, TypeOK
      <4> QED
        BY <4>1, <4>2
    <3> QED
      BY <3>3
  <2>3. CASE ~(Exists(h.user) /\ ~Exists(h.to))
    BY <2>1, <2>3 DEF Superusers
  <2> QED
    BY <2>2, <2>3
<1>4. contested => contested'
  BY <1>1 DEF Roster
<1> HIDE DEF table
<1> QED
  BY <1>1, <1>2, <1>3, <1>4, RosterKept DEF SuperuserKept, TypeOK

(* Single sign-on: a role it takes from a superuser contests the roster.    *)
LEMMA KeptRegrade ==
    ASSUME SuperuserKept, TypeOK, NEW w \in Workers, SsoAdopt(w) \/ SsoSync(w)
    PROVE  SuperuserKept'
<1>1. PICK table : Roster(w, table)
  BY DEF SsoAdopt, SsoSync
<1>2. ~contested' => \A u \in Superusers : table[u].role = "superuser"
  BY <1>1 DEF Roster, Regrades, SsoAdopt, SsoSync
<1>3. ~contested' => Superusers \subseteq Superusers'
  BY <1>1, <1>2 DEF Roster, Superusers
<1>4. contested => contested'
  BY <1>1 DEF Roster
<1>5. PICK r : Become(w, r) /\ r.pc \notin Section
  BY LeavingMoves DEF SsoAdopt, SsoSync, Leaves
<1> QED
  BY <1>1, <1>3, <1>4, <1>5, RosterKept DEF SuperuserKept, TypeOK

LEMMA KeptStep ==
    ASSUME SuperuserKept, TypeOK, Named, NEW w \in Workers, Step(w)
    PROVE  SuperuserKept'
<1> DEFINE h == thread[w]
<1>h. h \in Handlers
  BY DEF TypeOK
<1>u. h.pc \notin {"idle", "gated"} => h.user \in Users
  BY DEF Named
<1>t. thread \in [Workers -> Handlers]
  BY DEF TypeOK
<1>r. ASSUME NEW r, Become(w, r), r.pc \notin {"r_guard", "r_delete", "g_write"},
             UNCHANGED <<founded, contested>>,
             \A v \in Users : admins'[v].role = admins[v].role
      PROVE  SuperuserKept'
  BY <1>r, <1>t, RolesKeptOutside
<1>1. CASE SetupInsert(w) \/ SsoInsert(w) \/ ResetAdminInsert(w)
  <2>1. PICK r : Become(w, r) /\ r.pc \notin Section
    BY <1>1, LeavingMoves DEF SetupInsert, SsoInsert, ResetAdminInsert, Leaves
  <2>2. PICK row : Roster(w, Inserted(h.user, row))
    BY <1>1 DEF SetupInsert, SsoInsert, ResetAdminInsert
  <2> QED
    BY <1>1, <1>u, <2>1, <2>2, InsertKept DEF SetupInsert, SsoInsert, ResetAdminInsert
<1>2. CASE LoginRehash(w) \/ RehashFails(w)
  <2> DEFINE r == [h EXCEPT !.pc = "mint", !.must = FALSE]
  <2>1. r.pc = "mint"
    BY <1>h DEF Handlers
  <2>2. Become(w, r) /\ UNCHANGED <<founded, contested>>
    BY <1>2 DEF LoginRehash, RehashFails, hist
  <2>3. \A v \in Users : admins'[v].role = admins[v].role
    BY <1>2, <1>u, SamePassword DEF LoginRehash, RehashFails
  <2> QED
    BY <1>r, <2>1, <2>2, <2>3
<1>3. CASE (\E t \in Tokens : Mint(w, t)) \/ MintFails(w) \/ GatedRefused(w)
  BY <1>3, <1>r DEF Mint, MintFails, GatedRefused, hist, Finish, Idle
<1>4. CASE CredentialsRefused(w)
  BY <1>4, <1>r DEF CredentialsRefused, Finish, Idle
<1>5. CASE ResetWrite(w) \/ CredentialsPassword(w)
  <2>1. (IF h.to = None THEN h.user ELSE h.to) \in Users
    BY <1>5, <1>h, <1>u DEF ResetWrite, CredentialsPassword, Handlers
  <2>2. \A v \in Users : admins'[v].role = admins[v].role
    BY <1>5, <1>u, <2>1, SamePassword DEF ResetWrite, CredentialsPassword
  <2>3. DropNext(w) /\ UNCHANGED <<founded, contested>>
    BY <1>5 DEF ResetWrite, CredentialsPassword, hist
  <2> QED
    BY <1>r, <2>2, <2>3 DEF DropNext, Idle
<1>6. CASE ResetAdminUpdate(w)
  <2>1. \A v \in Users : admins'[v].role = admins[v].role
    BY <1>6, <1>u, SamePassword DEF ResetAdminUpdate
  <2> QED
    BY <1>6, <1>r, <2>1 DEF ResetAdminUpdate, Finish, Idle
<1>7. CASE DropTokens(w)
  <2> DEFINE r == [h EXCEPT !.user = h.to, !.to = None]
  <2>1. r.pc = "drop"
    BY <1>7, <1>h DEF DropTokens, Handlers
  <2>2. CASE Become(w, r)
    BY <1>7, <1>r, <2>1, <2>2 DEF DropTokens
  <2>3. CASE Finish(w)
    BY <1>7, <1>r, <2>3 DEF DropTokens, Finish, Idle
  <2> QED
    BY <1>7, <2>2, <2>3 DEF DropTokens
<1> QED
  BY <1>1, <1>2, <1>3, <1>4, <1>5, <1>6, <1>7, KeptGuard, KeptRemoval, KeptRename, KeptRegrade
  DEF Step

LEMMA KeptRest ==
    ASSUME SuperuserKept, TypeOK,
           \/ \E t \in Tokens : EndSession(t)
           \/ \E b \in BOOLEAN : Restart(b)
           \/ UNCHANGED vars
    PROVE  SuperuserKept'
<1>1. CASE (\E t \in Tokens : EndSession(t)) \/ UNCHANGED vars
  BY <1>1 DEF EndSession, vars, hist, SuperuserKept, GuardHolds, AnotherLeft, Superusers
<1>2. ASSUME NEW b \in BOOLEAN, Restart(b) PROVE SuperuserKept'
  <2>1. Superusers' = Superusers
    BY <1>2 DEF Restart, Superusers, TypeOK, AdminRows
  <2>2. \A w \in Workers : thread'[w].pc = "idle"
    BY <1>2 DEF Restart, Idle
  <2> QED
    BY <1>2, <2>1, <2>2 DEF Restart, SuperuserKept, GuardHolds
<1> QED
  BY <1>1, <1>2

-----------------------------------------------------------------------------
(* The theorems.                                                            *)

LEMMA IInvInit == Init => IInv
<1> SUFFICES ASSUME Init PROVE IInv
  OBVIOUS
<1>1. TypeOK
  <2>1. 0 \in Passwords
    BY AdminAssumption DEF Passwords
  <2> QED
    BY <2>1, Blanks DEF Init, TypeOK
<1>2. Named
  BY DEF Init, Named, Idle, Regrading
<1>3. AbsentRows
  BY DEF Init, AbsentRows, NoAdmin
<1>4. StoredSessions
  BY DEF Init, StoredSessions, Mismatch, Stored, NoToken
<1> QED
  BY <1>1, <1>2, <1>3, <1>4 DEF IInv

LEMMA IInvStep == IInv /\ [Next]_vars => IInv'
<1> SUFFICES ASSUME IInv, [Next]_vars PROVE IInv'
  OBVIOUS
<1> USE DEF IInv
<1>1. ASSUME NEW w \in Workers, Step(w) PROVE IInv'
  BY <1>1, TypeStep, NamedStep, AbsentStep, SessionStep
<1>2. ASSUME NEW w \in Workers, Request(w) PROVE IInv'
  BY <1>2, TypeRequest, NamedRequest, AbsentStep, SessionRequest
<1>3. CASE \/ \E t \in Tokens : EndSession(t)
           \/ \E b \in BOOLEAN : Restart(b)
           \/ UNCHANGED vars
  BY <1>3, TypeRest, NamedRest, AbsentRest, SessionRest
<1> QED
  BY <1>1, <1>2, <1>3 DEF Next

(* A session that resolves is stored: what holds of the stored ones holds   *)
(* of those that outlive their password.                                    *)
LEMMA IInvSessions == IInv => SessionsEnd
  BY AdminAssumption DEF IInv, StoredSessions, SessionsEnd, Outlived, Resolves, Mismatch, Excused

LEMMA Invariant == Spec => []IInv
  BY IInvInit, IInvStep, PTL DEF Spec

(* The three tables and the request handlers' locals keep their types in    *)
(* every reachable state.                                                   *)
THEOREM TypeCorrect == Spec => []TypeOK
<1>1. IInv => TypeOK
  BY DEF IInv
<1> QED
  BY <1>1, Invariant, PTL

(* A session granted for a password the account no longer has is still      *)
(* accepted only while delete_admin_tokens_for_user is pending for it, or   *)
(* its login overlapped the change, or the change was made on one of the    *)
(* paths that never reach delete_admin_tokens_for_user.                     *)
THEOREM SessionsEndWithTheirPassword == Spec => []SessionsEnd
  BY IInvSessions, Invariant, PTL

(* delete_administrator and set_administrator_role refuse to take the last  *)
(* superuser away, and the check and the write are transactions of their    *)
(* own: with any number of requests under way, an installation that has had *)
(* a superuser is without one only after some write of the roster has       *)
(* fallen inside another request's check, or SLOP has regraded one.         *)
THEOREM LastSuperuserStays == Spec => []LockoutNeedsOverlap
<1>1. Init => SuperuserKept
  BY DEF Init, SuperuserKept, GuardHolds, Idle
<1>2. IInv /\ SuperuserKept /\ [Next]_vars => SuperuserKept'
  BY KeptStep, KeptRequest, KeptRest DEF IInv, Next
<1>3. SuperuserKept => LockoutNeedsOverlap
  BY DEF SuperuserKept, LockoutNeedsOverlap
<1> QED
  BY <1>1, <1>2, <1>3, Invariant, PTL DEF Spec

=============================================================================
