--------------------------- MODULE AdminAccounts ---------------------------
(***************************************************************************)
(* Administrator accounts and their login tokens: first-run setup, login,   *)
(* the superuser's operations on accounts, self-service credentials, SLOP   *)
(* single sign-on, and the reset-admin command.                             *)
(*                                                                         *)
(* Nothing locks these tables: every handler reads in one transaction and   *)
(* writes in the next.  One step is one database access.  Two reads are one *)
(* step where the later one decides alone, and require_superuser is one:    *)
(* what it lets through between its two reads it would also let through     *)
(* before the first.                                                        *)
(*                                                                         *)
(* A password is the number of its choice; a session (a token) remembers    *)
(* the password that was verified for it.  A token whose 12 hours are over  *)
(* can no longer be told from one that is not there.  Seat caps are left    *)
(* out: edition.ROLE_LIMITS is empty.                                       *)
(***************************************************************************)
EXTENDS Integers, FiniteSets

CONSTANTS
    Users,         \* administrator names
    Tokens,        \* bound: login tokens stored at a time
    Workers,       \* pool threads of the backend, and command-line processes
    OtherRoles,    \* sysadmin, auditor
    None,          \* no role, no user
    Sso,           \* is SYSIBLE_SSO_SHARED_SECRET set?
    MaxPasswords,  \* bound: passwords ever chosen
    MaxEvents      \* bound: restarts, SLOP sign-ins and reset-admin commands

ASSUME AdminAssumption ==
    /\ None \notin Users \cup OtherRoles \cup {"superuser"}
    /\ "superuser" \notin OtherRoles
    /\ IsFiniteSet(Users) /\ IsFiniteSet(Tokens) /\ IsFiniteSet(Workers)
    /\ Sso \in BOOLEAN /\ MaxPasswords \in Nat /\ MaxEvents \in Nat

Roles     == {"superuser"} \cup OtherRoles
Unusable  == 0                   \* the random password of an SSO account
Passwords == 0..MaxPasswords

VARIABLES
    admins,      \* the administrators table
    tokens,      \* the admin_tokens table, and what each was verified with
    thread,      \* what each worker is doing
    chosen,      \* passwords chosen so far
    founded,     \* history: there has been a superuser
    contested,   \* history: the roster was written inside another's check, or
                 \* SLOP has taken the superuser role from an account
    unswept,     \* history: names whose sessions a change has left in place
    events       \* bound: those so far

hist == <<founded, contested, unswept>>
vars == <<admins, tokens, thread, chosen, hist, events>>

-----------------------------------------------------------------------------
(* must: must_change_password; sso: created_by='sso'; legacy: the hash is   *)
(* below the current PBKDF2 cost.  An absent row has role None.             *)
AdminRows == [role : Roles \cup {None}, password : Passwords, must : BOOLEAN,
              sso : BOOLEAN, legacy : BOOLEAN]
NoAdmin   == [role |-> None, password |-> Unusable, must |-> FALSE, sso |-> FALSE,
              legacy |-> FALSE]

(* password: the one verified at login (Unusable: none, SLOP vouched);      *)
(* late: it was no longer the account's when the token was stored.          *)
TokenRows == [user : Users \cup {None}, role : Roles \cup {None},
              password : Passwords, late : BOOLEAN]
NoToken   == [user |-> None, role |-> None, password |-> Unusable, late |-> FALSE]

Minting == {"s_insert", "l_rehash", "mint", "o_insert", "o_adopt", "o_sync"}
Section == {"s_insert", "r_guard", "r_guard_super", "r_delete", "g_guard", "g_write"}
PCs == {"idle", "gated", "c_rename", "c_password", "p_write", "k_update", "k_insert",
        "drop"} \cup Minting \cup Section
(* old: the password verified; new: the password chosen; to: the new name.  *)
Handlers == [pc : PCs,
             user : Users \cup {None}, role : Roles \cup {None},
             old : Passwords, new : Passwords, must : BOOLEAN,
             to : Users \cup {None}]
Idle == [pc |-> "idle", user |-> None, role |-> None, old |-> Unusable,
         new |-> Unusable, must |-> FALSE, to |-> None]

TypeOK ==
    /\ admins \in [Users -> AdminRows]
    /\ tokens \in [Tokens -> TokenRows]
    /\ thread \in [Workers -> Handlers]
    /\ chosen \in Passwords
    /\ founded \in BOOLEAN /\ contested \in BOOLEAN
    /\ unswept \in SUBSET Users
    /\ events \in Nat

Init ==
    /\ admins = [u \in Users |-> NoAdmin]
    /\ tokens = [t \in Tokens |-> NoToken]
    /\ thread = [w \in Workers |-> Idle]
    /\ chosen = 0
    /\ founded = FALSE /\ contested = FALSE
    /\ unswept = {}
    /\ events = 0

-----------------------------------------------------------------------------
Exists(u)   == admins[u].role # None
Accounts    == {u \in Users : Exists(u)}
Superusers  == {u \in Users : admins[u].role = "superuser"}
Stored(t)   == tokens[t].user # None

(* resolve_admin_token: the account is there and still has that role.       *)
Resolves(t) == Stored(t) /\ tokens[t].role = admins[tokens[t].user].role

(* require_superuser: a superuser's token without a temporary password, or  *)
(* none at all while there is no administrator.                             *)
Authorized ==
    \/ Accounts = {}
    \/ \E t \in Tokens : /\ Resolves(t)
                         /\ tokens[t].role = "superuser"
                         /\ ~admins[tokens[t].user].must

Free(w) == thread[w].pc = "idle"
Become(w, h)  == thread' = [thread EXCEPT ![w] = h]
Goto(w, pc)   == Become(w, [thread[w] EXCEPT !.pc = pc])
Finish(w)     == Become(w, Idle)
DropNext(w)   == Become(w, [Idle EXCEPT !.pc = "drop", !.user = thread[w].user,
                                        !.to = thread[w].to])

(* Bound: a handler that will store a token starts only with a free slot.   *)
SlotLeft == Cardinality({t \in Tokens : Stored(t)})
          + Cardinality({w \in Workers : thread[w].pc \in Minting}) < Cardinality(Tokens)
(* Bound: the request brings a password nobody has used before.             *)
Choose == chosen < MaxPasswords /\ chosen' = chosen + 1
Event  == events < MaxEvents /\ events' = events + 1

(* A write to the roster, by w.                                             *)
Overlaps(w) == \E o \in Workers \ {w} : thread[o].pc \in Section
Regrades(w, table) == /\ thread[w].pc \in {"o_adopt", "o_sync"}
                      /\ \E u \in Superusers : table[u].role # "superuser"
Roster(w, table) ==
    /\ admins' = table
    /\ founded' = (founded \/ \E u \in Users : table[u].role = "superuser")
    /\ contested' = (contested \/ Overlaps(w) \/ Regrades(w, table))

(* add_administrator: nothing happens if the name is taken.                 *)
Inserted(u, row) == IF Exists(u) THEN admins ELSE [admins EXCEPT ![u] = row]
(* Mutant: SLOP's name of the role is stored.                               *)
MutNewRow(role, password, must, sso) ==
    [role |-> IF sso /\ role = "sysadmin" THEN "operator" ELSE role,
     password |-> password, must |-> must, sso |-> sso, legacy |-> FALSE]
NewRow(role, password, must, sso) ==
    [role |-> role, password |-> password, must |-> must, sso |-> sso, legacy |-> FALSE]

(* update_administrator_password: nothing happens if there is no such row.  *)
WithPassword(u, password, must) ==
    IF Exists(u) THEN [admins EXCEPT ![u].password = password, ![u].must = must,
                                     ![u].legacy = FALSE]
    ELSE admins
(* The sessions of u are not dropped, although its password has changed.    *)
Unsettle(u, changed) == unswept' = IF changed THEN unswept \cup {u} ELSE unswept

(* Mutant: only the tokens that would be refused anyway are deleted.        *)
MutWithout(u) == [t \in Tokens |-> IF tokens[t].user = u /\ ~Resolves(t) THEN NoToken
                                   ELSE tokens[t]]
(* delete_admin_tokens_for_user.                                            *)
Without(u) == [t \in Tokens |-> IF tokens[t].user = u THEN NoToken ELSE tokens[t]]

-----------------------------------------------------------------------------
(* First-run setup and login.                                               *)

SetupCount(w, u) ==
    /\ Free(w)
    /\ Accounts = {}
    /\ SlotLeft
    /\ Choose
    /\ Become(w, [Idle EXCEPT !.pc = "s_insert", !.user = u, !.role = "superuser",
                              !.old = chosen'])
    /\ UNCHANGED <<admins, tokens, hist, events>>

SetupInsert(w) ==
    LET h == thread[w]
    IN  /\ h.pc = "s_insert"
        /\ Roster(w, Inserted(h.user, NewRow("superuser", h.old, FALSE, FALSE)))
        /\ IF Exists(h.user) THEN Finish(w) ELSE Goto(w, "mint")
        /\ UNCHANGED <<tokens, chosen, unswept, events>>

(* The row is read, and the password verified against what was read.  (must *)
(* is kept for the rehash alone.)                                           *)
LoginVerify(w, u) ==
    /\ Free(w)
    /\ Exists(u)
    /\ admins[u].password # Unusable
    /\ SlotLeft
    /\ Become(w, [Idle EXCEPT !.pc = IF admins[u].legacy THEN "l_rehash" ELSE "mint",
                              !.user = u, !.role = admins[u].role,
                              !.old = admins[u].password,
                              !.must = admins[u].legacy /\ admins[u].must])
    /\ UNCHANGED <<admins, tokens, chosen, hist, events>>

(* The password just verified is stored again at the current cost, whatever *)
(* the row holds by now.                                                    *)
LoginRehash(w) ==
    LET h == thread[w]
    IN  /\ h.pc = "l_rehash"
        /\ admins' = WithPassword(h.user, h.old, h.must)
        /\ Unsettle(h.user, Exists(h.user) /\ admins[h.user].password # h.old)
        /\ Become(w, [h EXCEPT !.pc = "mint", !.must = FALSE])
        /\ UNCHANGED <<tokens, chosen, founded, contested, events>>

(* An exception in the rehash is swallowed, and the login goes on.          *)
RehashFails(w) ==
    /\ thread[w].pc = "l_rehash"
    /\ Become(w, [thread[w] EXCEPT !.pc = "mint", !.must = FALSE])
    /\ UNCHANGED <<admins, tokens, chosen, hist, events>>

(* create_admin_token, with the role and the name read before.              *)
Mint(w, t) ==
    LET h == thread[w]
    IN  /\ h.pc = "mint"
        /\ ~Stored(t)
        /\ tokens' = [tokens EXCEPT ![t] =
                        [user |-> h.user, role |-> h.role, password |-> h.old,
                         late |-> admins[h.user].password # h.old]]
        /\ Finish(w)
        /\ UNCHANGED <<admins, chosen, hist, events>>

(* log_admin_audit or create_admin_token raises: no token, and an account   *)
(* that setup has just added stays.                                         *)
MintFails(w) ==
    /\ thread[w].pc = "mint"
    /\ Finish(w)
    /\ UNCHANGED <<admins, tokens, chosen, hist, events>>

(* admin_logout; or the twelve hours are over; or resolve_admin_token finds *)
(* the token stale and deletes it.                                          *)
EndSession(t) ==
    /\ Stored(t)
    /\ tokens' = [tokens EXCEPT ![t] = NoToken]
    /\ UNCHANGED <<admins, thread, chosen, hist, events>>

-----------------------------------------------------------------------------
(* A superuser's operations on accounts.                                    *)

(* The dependency require_superuser lets the request through.               *)
Gate(w) ==
    /\ Free(w)
    /\ Authorized
    /\ Become(w, [Idle EXCEPT !.pc = "gated"])
    /\ UNCHANGED <<admins, tokens, chosen, hist, events>>

Add(w, u, role) ==
    /\ thread[w].pc = "gated"
    /\ Choose
    /\ Roster(w, Inserted(u, NewRow(role, chosen', TRUE, FALSE)))
    /\ Finish(w)
    /\ UNCHANGED <<tokens, unswept, events>>

(* 404, or a refused body.                                                  *)
GatedRefused(w) ==
    /\ thread[w].pc = "gated"
    /\ Finish(w)
    /\ UNCHANGED <<admins, tokens, chosen, hist, events>>

RemoveLookup(w, u) ==
    /\ thread[w].pc = "gated"
    /\ Exists(u)
    /\ Become(w, [Idle EXCEPT !.user = u,
                    !.pc = IF admins[u].role = "superuser" THEN "r_guard_super"
                           ELSE "r_guard"])
    /\ UNCHANGED <<admins, tokens, chosen, hist, events>>

(* Mutant: the guard lets the last superuser through.                       *)
MutSpared == Cardinality(Superusers) >= 1
(* The count the two guards make: another superuser is left.                *)
Spared == Cardinality(Superusers) > 1

RemoveGuard(w) ==
    /\ thread[w].pc \in {"r_guard", "r_guard_super"}
    /\ IF /\ Cardinality(Accounts) > 1
          /\ thread[w].pc = "r_guard_super" => Spared
       THEN Goto(w, "r_delete") ELSE Finish(w)
    /\ UNCHANGED <<admins, tokens, chosen, hist, events>>

(* remove_administrator: the row and its tokens in one transaction.         *)
RemoveDelete(w) ==
    LET u == thread[w].user
    IN  /\ thread[w].pc = "r_delete"
        /\ Roster(w, [admins EXCEPT ![u] = NoAdmin])
        /\ tokens' = Without(u)
        /\ unswept' = unswept \ {u}
        /\ Finish(w)
        /\ UNCHANGED <<chosen, events>>

RoleLookup(w, u, role) ==
    /\ thread[w].pc = "gated"
    /\ Exists(u)
    /\ role # admins[u].role
    /\ Become(w, [Idle EXCEPT !.user = u, !.role = role,
                    !.pc = IF admins[u].role = "superuser" THEN "g_guard" ELSE "g_write"])
    /\ UNCHANGED <<admins, tokens, chosen, hist, events>>

RoleGuard(w) ==
    /\ thread[w].pc = "g_guard"
    /\ IF Spared THEN Goto(w, "g_write") ELSE Finish(w)
    /\ UNCHANGED <<admins, tokens, chosen, hist, events>>

RoleWrite(w) ==
    LET h == thread[w]
    IN  /\ h.pc = "g_write"
        /\ Roster(w, IF Exists(h.user) THEN [admins EXCEPT ![h.user].role = h.role]
                     ELSE admins)
        /\ DropNext(w)
        /\ UNCHANGED <<tokens, chosen, unswept, events>>

ResetLookup(w, u) ==
    /\ thread[w].pc = "gated"
    /\ Exists(u)
    /\ Choose
    /\ Become(w, [Idle EXCEPT !.pc = "p_write", !.user = u, !.new = chosen'])
    /\ UNCHANGED <<admins, tokens, hist, events>>

ResetWrite(w) ==
    LET h == thread[w]
    IN  /\ h.pc = "p_write"
        /\ admins' = WithPassword(h.user, h.new, TRUE)
        /\ DropNext(w)
        /\ UNCHANGED <<tokens, chosen, hist, events>>

(* delete_admin_tokens_for_user: of the old name, then of the new one.      *)
DropTokens(w) ==
    LET h == thread[w]
    IN  /\ h.pc = "drop"
        /\ tokens' = Without(h.user)
        /\ unswept' = unswept \ {h.user}
        /\ IF h.to = None THEN Finish(w)
           ELSE Become(w, [h EXCEPT !.user = h.to, !.to = None])
        /\ UNCHANGED <<admins, chosen, founded, contested, events>>

-----------------------------------------------------------------------------
(* Self-service: change_admin_credentials, and force_admin_password_change, *)
(* which is the same without a new name.                                    *)

(* A new name, a new password, or both; the current password is verified.   *)
CredentialsVerify(w, u, to, password) ==
    /\ Free(w)
    /\ Exists(u)
    /\ admins[u].password # Unusable
    /\ to # u
    /\ \/ password /\ Choose
       \/ ~password /\ to # None /\ UNCHANGED chosen
    /\ Become(w, [Idle EXCEPT !.pc = IF to = None THEN "c_password" ELSE "c_rename",
                              !.user = u, !.to = to,
                              !.new = IF password THEN chosen' ELSE Unusable])
    /\ UNCHANGED <<admins, tokens, hist, events>>

CredentialsRename(w) ==
    LET h == thread[w]
        taken == Exists(h.user) /\ Exists(h.to)
    IN  /\ h.pc = "c_rename"
        /\ Roster(w, IF Exists(h.user) /\ ~taken
                     THEN [admins EXCEPT ![h.to] = admins[h.user], ![h.user] = NoAdmin]
                     ELSE admins)
        /\ IF taken THEN Finish(w)
           ELSE IF h.new = Unusable THEN DropNext(w) ELSE Goto(w, "c_password")
        /\ UNCHANGED <<tokens, chosen, unswept, events>>

CredentialsPassword(w) ==
    LET h == thread[w]
    IN  /\ h.pc = "c_password"
        /\ admins' = WithPassword(IF h.to = None THEN h.user ELSE h.to, h.new, FALSE)
        /\ DropNext(w)
        /\ UNCHANGED <<tokens, chosen, hist, events>>

(* The new password does not satisfy the policy: 400, and a new name stays. *)
CredentialsRefused(w) ==
    LET h == thread[w]
    IN  /\ h.pc = "c_password"
        /\ Unsettle(h.user, h.to # None)
        /\ Finish(w)
        /\ UNCHANGED <<admins, tokens, chosen, founded, contested, events>>

-----------------------------------------------------------------------------
(* Single sign-on: admin_sso_provision and ensure_sso_account.              *)

SsoLookup(w, u, role) ==
    /\ Sso
    /\ Free(w)
    /\ SlotLeft
    /\ Event
    /\ Become(w, [Idle EXCEPT !.user = u, !.role = role,
                    !.pc = IF ~Exists(u) THEN "o_insert"
                           ELSE IF ~admins[u].sso THEN "o_adopt"
                           ELSE IF admins[u].role # role THEN "o_sync"
                           ELSE "mint"])
    /\ UNCHANGED <<admins, tokens, chosen, hist>>

SsoInsert(w) ==
    LET h == thread[w]
    IN  /\ h.pc = "o_insert"
        /\ Roster(w, Inserted(h.user, NewRow(h.role, Unusable, FALSE, TRUE)))
        /\ Goto(w, "mint")
        /\ UNCHANGED <<tokens, chosen, unswept, events>>

(* SLOP's role replaces the local one, and the last superuser is not spared.*)
Regraded(u, row) == IF Exists(u) THEN [admins EXCEPT ![u] = row] ELSE admins

(* adopt_administrator_for_sso: the sessions of the local account stay.     *)
SsoAdopt(w) ==
    LET h == thread[w]
    IN  /\ h.pc = "o_adopt"
        /\ Roster(w, Regraded(h.user, NewRow(h.role, Unusable, FALSE, TRUE)))
        /\ Goto(w, "mint")
        /\ Unsettle(h.user, Exists(h.user))
        /\ UNCHANGED <<tokens, chosen, events>>

SsoSync(w) ==
    LET h == thread[w]
    IN  /\ h.pc = "o_sync"
        /\ Roster(w, Regraded(h.user, [admins[h.user] EXCEPT !.role = h.role]))
        /\ Goto(w, "mint")
        /\ UNCHANGED <<tokens, chosen, unswept, events>>

-----------------------------------------------------------------------------
(* sysible_controller reset-admin, a process of its own on the host.        *)
ResetAdminLookup(w, u) ==
    /\ Free(w)
    /\ Event
    /\ Choose
    /\ Become(w, [Idle EXCEPT !.pc = IF Exists(u) THEN "k_update" ELSE "k_insert",
                              !.user = u, !.new = chosen'])
    /\ UNCHANGED <<admins, tokens, hist>>

ResetAdminUpdate(w) ==
    LET h == thread[w]
    IN  /\ h.pc = "k_update"
        /\ admins' = WithPassword(h.user, h.new, TRUE)
        /\ Unsettle(h.user, Exists(h.user))
        /\ Finish(w)
        /\ UNCHANGED <<tokens, chosen, founded, contested, events>>

ResetAdminInsert(w) ==
    LET h == thread[w]
    IN  /\ h.pc = "k_insert"
        /\ Roster(w, Inserted(h.user, NewRow("superuser", h.new, TRUE, FALSE)))
        /\ Finish(w)
        /\ UNCHANGED <<tokens, chosen, unswept, events>>

(* Names whose sessions w has put out of date and not yet dropped.          *)
Sweeping(w) ==
    LET h == thread[w]
    IN  CASE h.pc = "drop"       -> {h.user, h.to} \ {None}
          [] h.pc = "c_password" -> IF h.to = None THEN {} ELSE {h.user}
          [] OTHER -> {}

(* The backend restarts, with a release that may raise the PBKDF2 cost: the *)
(* requests under way are gone, and what they had committed stays.          *)
Restart(upgrade) ==
    /\ Event
    /\ thread' = [w \in Workers |-> Idle]
    /\ unswept' = unswept \cup UNION {Sweeping(w) : w \in Workers}
    /\ admins' = [u \in Users |->
                    [admins[u] EXCEPT !.legacy = @ \/ (upgrade /\ Exists(u))]]
    /\ UNCHANGED <<tokens, chosen, founded, contested>>

-----------------------------------------------------------------------------
Step(w) ==
    \/ SetupInsert(w) \/ LoginRehash(w) \/ RehashFails(w) \/ \E t \in Tokens : Mint(w, t)
    \/ MintFails(w) \/ GatedRefused(w) \/ RemoveGuard(w) \/ RemoveDelete(w)
    \/ RoleGuard(w) \/ RoleWrite(w) \/ ResetWrite(w) \/ DropTokens(w)
    \/ CredentialsRename(w) \/ CredentialsPassword(w) \/ CredentialsRefused(w)
    \/ SsoInsert(w) \/ SsoAdopt(w) \/ SsoSync(w)
    \/ ResetAdminUpdate(w) \/ ResetAdminInsert(w)

Request(w) ==
    \/ Gate(w)
    \/ \E u \in Users :
        \/ SetupCount(w, u) \/ LoginVerify(w, u) \/ RemoveLookup(w, u)
        \/ ResetLookup(w, u) \/ ResetAdminLookup(w, u)
        \/ \E role \in Roles : Add(w, u, role) \/ RoleLookup(w, u, role)
                                \/ SsoLookup(w, u, role)
        \/ \E to \in Users \cup {None}, password \in BOOLEAN :
              CredentialsVerify(w, u, to, password)

Next ==
    \/ \E w \in Workers : Step(w) \/ Request(w)
    \/ \E t \in Tokens : EndSession(t)
    \/ \E upgrade \in BOOLEAN : Restart(upgrade)

Spec == Init /\ [][Next]_vars

-----------------------------------------------------------------------------

(* The last superuser can only be lost when an account is written while     *)
(* another request is between its check and its write, or to SLOP.          *)
LockoutNeedsOverlap ==
    founded /\ Superusers = {} => contested

(* A session of u that was granted for a password u no longer has.          *)
Outlived(t) == /\ Resolves(t)
               /\ tokens[t].password # Unusable
               /\ tokens[t].password # admins[tokens[t].user].password

(* A session survives a change of password, or serves a later account of    *)
(* the same name, only if it is about to be dropped, if its login was under *)
(* way during the change, or if the change went by a path that does not     *)
(* drop sessions.                                                           *)
SessionsEnd ==
    \A t \in Tokens : Outlived(t) =>
        \/ tokens[t].late
        \/ tokens[t].user \in unswept
        \/ \E w \in Workers : tokens[t].user \in Sweeping(w)
=============================================================================
