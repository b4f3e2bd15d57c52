--------------------------- MODULE ConsoleSession ---------------------------
(***************************************************************************)
(* The web console's sessions.  A session is nothing but a signed cookie    *)
(* that holds an encrypted controller token: each request works on the copy *)
(* it came with, and its answer writes that copy back to the browser,       *)
(* whatever other answers have written meanwhile.  The console learns that  *)
(* a token is no longer good only by asking the controller, at most once in *)
(* a Ttl.  Under single sign-on (sso) the gateway vouches for the browser.  *)
(*                                                                         *)
(* One step is one call of the controller.  A grant stands for an admin     *)
(* token; the role a session holds is its grant's, as the controller gave   *)
(* it.  A change of user name is a change of credentials that keeps the     *)
(* password.  Times are kept as ages, in ticks, and an age of Ttl stands    *)
(* for every longer one.                                                    *)
(***************************************************************************)
EXTENDS Integers, FiniteSets

CONSTANTS
    People,        \* administrator names
    Tabs,      \* requests of one browser under way at a time
    MaxGrants,     \* bound: tokens issued
    Ttl,           \* _SESSION_REVAL_TTL, in ticks
    MaxTrouble     \* bound: changes of accounts, calls that are not answered

ASSUME ConsoleBounds ==
    /\ MaxGrants \in Nat /\ Ttl \in Nat \ {0} /\ MaxTrouble \in Nat
    /\ IsFiniteSet(People) /\ "nobody" \notin People

VARIABLES
    sso,         \* sso_only(): the gateway owns identity
    gateway,     \* whom the gateway vouches for in this browser
    accounts,    \* the administrators, at the controller
    grants,      \* the controller's tokens
    cookie,      \* what the browser holds
    request,     \* the requests under way
    trouble

sessionVars == <<sso, gateway, accounts, grants, cookie, request, trouble>>

Nobody == "nobody"
Powers == {"superuser", "auditor"}
Ages   == 0..Ttl
Older(age) == IF age < Ttl THEN age + 1 ELSE Ttl

(* flag: must_change_password; asked: how long ago _reval_at is.            *)
NoSession == [user |-> Nobody, grant |-> 0, flag |-> FALSE, asked |-> Ttl]
Sessions  == [user : People \cup {Nobody}, grant : 0..MaxGrants, flag : BOOLEAN, asked : Ages]
NoIdentity == [user |-> Nobody, role |-> "auditor"]
Vouched    == [user : People, role : {"superuser", "unheard of"}] \cup {NoIdentity}
Identities == [user : People, role : Powers] \cup {NoIdentity}
(* change is the kind whose gate is require_login itself.                   *)
Kinds == {"login", "logout", "me", "probe", "write", "admin", "change"}
(* had: the request came with a session.                                    *)
NoRequest == [pc |-> "free", kind |-> "me", session |-> NoSession, had |-> FALSE,
              ident |-> NoIdentity]

SessionTypeOK ==
    /\ sso \in BOOLEAN /\ gateway \in Vouched
    /\ accounts \in [People -> [role : Powers \cup {"gone"}, must : BOOLEAN,
                                calm : Ages]]
    /\ grants \in [1..MaxGrants -> [user : People \cup {Nobody}, role : Powers,
                                    live : BOOLEAN, seen : Ages]]
    /\ cookie \in Sessions
    /\ request \in [Tabs -> [pc : {"free", "ensure", "gate", "work", "reply"},
                                 kind : Kinds, session : Sessions, had : BOOLEAN,
                                 ident : Identities]]
    /\ trouble \in 0..MaxTrouble

(* seen: how long ago the grant was good; calm: how long ago the account's  *)
(* password was not a temporary one.                                        *)
SessionInit ==
    /\ sso \in BOOLEAN
    /\ gateway = NoIdentity
    /\ accounts = [u \in People |-> [role |-> "superuser", must |-> FALSE, calm |-> 0]]
    /\ grants = [g \in 1..MaxGrants |-> [user |-> Nobody, role |-> "auditor",
                                         live |-> FALSE, seen |-> Ttl]]
    /\ cookie = NoSession
    /\ request = [r \in Tabs |-> NoRequest]
    /\ trouble = 0

Trouble == trouble < MaxTrouble /\ trouble' = trouble + 1
(* What a request has come with no longer matters when it only answers.     *)
Proceeds(r, pc, session) ==
    LET q == request[r]
    IN  request' = [request EXCEPT ![r] =
          [pc |-> pc, session |-> session, had |-> q.had,
           ident |-> IF pc = "gate" THEN q.ident ELSE NoIdentity,
           kind  |-> IF pc = "gate" \/ (pc = "work" /\ q.kind = "change")
                     THEN q.kind ELSE "me"]]
Unused == {g \in 1..MaxGrants : grants[g].user = Nobody}
Lowest(S) == CHOOSE g \in S : \A h \in S : g <= h
Role(s) == grants[s.grant].role

(* The session a login, a setup or a provision begins with: the old one is  *)
(* cleared, _reval_at with it.                                              *)
NewSession(u, g, flag) ==
    [user |-> u, grant |-> g, flag |-> flag, asked |-> Ttl]
Issue(g, u, role) ==
    [grants EXCEPT ![g] = [user |-> u, role |-> role, live |-> TRUE, seen |-> 0]]
Dropped(table, u) == [g \in 1..MaxGrants |->
    IF table[g].user = u THEN [table[g] EXCEPT !.live = FALSE] ELSE table[g]]

-----------------------------------------------------------------------------
(* _sso_identity: a role the console does not know is an auditor's.         *)
Identity(v) ==
    [user |-> v.user, role |-> IF v.role = "superuser" THEN "superuser" ELSE "auditor"]

(* A request arrives, through the gateway or at the console's own port.     *)
Arrive(r, kind, ident) ==
    /\ request[r].pc = "free"
    /\ ident \in {NoIdentity, Identity(gateway)} /\ (~sso => ident = NoIdentity)
    /\ request' = [request EXCEPT ![r] =
         [pc |-> IF kind \in {"login", "logout"} THEN "work"
                 ELSE IF ident = NoIdentity THEN "gate" ELSE "ensure",
          kind |-> kind, session |-> cookie, had |-> cookie # NoSession, ident |-> ident]]
    /\ UNCHANGED <<sso, gateway, accounts, grants, cookie, trouble>>

(* _ensure_sso_session.                                                     *)
Reusable(s, ident) == s.user = ident.user /\ Role(s) = ident.role
Reuse(r) ==
    /\ request[r].pc = "ensure"
    /\ Reusable(request[r].session, request[r].ident)
    /\ Proceeds(r, "gate", request[r].session)
    /\ UNCHANGED <<sso, gateway, accounts, grants, cookie, trouble>>
Provision(r) ==
    LET q == request[r]
        u == q.ident.user
        g == Lowest(Unused)
    IN  /\ q.pc = "ensure" /\ ~Reusable(q.session, q.ident) /\ Unused # {}
        /\ accounts' = [accounts EXCEPT ![u].role = q.ident.role]
        /\ grants' = [(IF accounts[u].role = q.ident.role THEN grants ELSE Dropped(grants, u))
                        EXCEPT ![g] = Issue(g, u, q.ident.role)[g]]
        /\ Proceeds(r, "gate", NewSession(u, g, FALSE))
        /\ UNCHANGED <<sso, gateway, cookie, trouble>>
(* "on a provisioning failure the session is left as-is".                   *)
ProvisionFails(r) ==
    /\ request[r].pc = "ensure" /\ ~Reusable(request[r].session, request[r].ident)
    /\ Trouble
    /\ Proceeds(r, "gate", request[r].session)
    /\ UNCHANGED <<sso, gateway, accounts, grants, cookie>>

(* Mutant: no gate asks for the gateway.                                    *)
MutNeedsGateway(q) == FALSE
(* _require_gateway_when_sso, which auth_verify does not call.              *)
NeedsGateway(q) == sso /\ q.ident = NoIdentity /\ q.kind # "probe"
Refuse(r, session) == Proceeds(r, "reply", session) /\ UNCHANGED trouble

(* Mutant: a call that was not answered counts as a check.                  *)
MutKept(s) == [s EXCEPT !.asked = 0]
(* "transport/other error -> keep the session".                             *)
Kept(s) == s
Checked(s) == [s EXCEPT !.asked = 0]

(* require_operator and require_superuser_session, after the session holds. *)
Allowed(q, s) ==
    /\ q.kind = "write" => Role(s) # "auditor" /\ ~s.flag
    /\ q.kind = "admin" => Role(s) = "superuser" /\ ~s.flag
Onward(r, s) == Proceeds(r, IF Allowed(request[r], s) THEN "work" ELSE "reply", s)

(* The gates: require_login and its kin, /api/me, auth_verify.              *)
Gate(r) ==
    LET q == request[r]
        s == q.session
    IN  /\ q.pc = "gate"
        /\ \/ NeedsGateway(q) /\ Refuse(r, NoSession)
           \/ ~NeedsGateway(q) /\ s.user = Nobody /\ Refuse(r, s)
           \/ /\ ~NeedsGateway(q) /\ s.user # Nobody
              /\ IF q.kind \in {"me", "probe"} \/ s.asked < Ttl
                 THEN Onward(r, s) /\ UNCHANGED trouble
                 ELSE \/ grants[s.grant].live /\ Onward(r, Checked(s))
                         /\ UNCHANGED trouble
                      \/ ~grants[s.grant].live /\ Refuse(r, NoSession)
                      \/ Trouble /\ Onward(r, Kept(s))
        /\ UNCHANGED <<sso, gateway, accounts, grants, cookie>>

-----------------------------------------------------------------------------
(* The work behind the gate.                                                *)

(* login; the first-run setup leaves the same session behind.               *)
Login(r, u) ==
    /\ request[r].pc = "work" /\ request[r].kind = "login"
    /\ ~sso /\ accounts[u].role # "gone" /\ Unused # {}
    /\ LET g == Lowest(Unused)
       IN  /\ grants' = Issue(g, u, accounts[u].role)
           /\ Proceeds(r, "reply", NewSession(u, g, accounts[u].must))
    /\ UNCHANGED <<sso, gateway, accounts, cookie, trouble>>
(* The token is revoked if the controller answers.                          *)
Logout(r) ==
    LET s == request[r].session
    IN  /\ request[r].pc = "work" /\ request[r].kind = "logout"
        /\ IF s.grant = 0 THEN UNCHANGED <<grants, trouble>>
           ELSE \/ grants' = [grants EXCEPT ![s.grant].live = FALSE] /\ UNCHANGED trouble
                \/ Trouble /\ UNCHANGED grants
        /\ Proceeds(r, "reply", NoSession)
        /\ UNCHANGED <<sso, gateway, accounts, cookie>>

(* Mutant: a new name lifts the gate as well.                               *)
MutFlagAfter(s, password) == FALSE
(* "ONLY when a new password was actually set".                             *)
FlagAfter(s, password) == s.flag /\ ~password
(* change_credentials: the controller drops every token of the account.     *)
Change(r, password) ==
    LET s == request[r].session
        u == grants[s.grant].user
    IN  /\ request[r].pc = "work" /\ request[r].kind = "change"
        /\ grants[s.grant].live
        /\ accounts' = IF password
                       THEN [accounts EXCEPT ![u] = [@ EXCEPT !.must = FALSE, !.calm = 0]]
                       ELSE accounts
        /\ grants' = Dropped(grants, u)
        /\ Proceeds(r, "reply", [s EXCEPT !.flag = FlagAfter(s, password)])
        /\ UNCHANGED <<sso, gateway, cookie, trouble>>
(* The answer of a request that was refused, of one that has done its work, *)
(* and of a login or a change of credentials that the controller refused.   *)
(* SessionMiddleware: a session is written back by every answer, and a      *)
(* session that has become empty is deleted in the browser.                 *)
Reply(r) ==
    LET q == request[r]
    IN  /\ q.pc = "reply" \/ (q.pc = "work" /\ q.kind # "logout")
        /\ cookie' = IF q.session # NoSession \/ q.had THEN q.session ELSE cookie
        /\ request' = [request EXCEPT ![r] = NoRequest]
        /\ UNCHANGED <<sso, gateway, accounts, grants, trouble>>

-----------------------------------------------------------------------------
(* Elsewhere.                                                               *)

(* A superuser removes the account, changes its role or resets its password:*)
(* its tokens are good no longer.                                           *)
AccountChange(u, row) ==
    /\ Trouble /\ accounts[u].role # "gone"
    /\ row \in [role : Powers \cup {"gone"}, must : BOOLEAN, calm : {accounts[u].calm}]
    /\ \/ row.role # accounts[u].role /\ row.must = accounts[u].must
       \/ row.role = accounts[u].role /\ row.must
    /\ accounts' = [accounts EXCEPT ![u] = row]
    /\ grants' = Dropped(grants, u)
    /\ UNCHANGED <<sso, gateway, cookie, request>>

(* Sign-in, sign-out, another user or another role at the gateway.          *)
GatewayChange(v) ==
    /\ sso /\ v # gateway
    /\ gateway' = v
    /\ UNCHANGED <<sso, accounts, grants, cookie, request, trouble>>

TimePasses ==
    /\ grants' = [g \in 1..MaxGrants |->
                    IF grants[g].live THEN grants[g]
                    ELSE [grants[g] EXCEPT !.seen = Older(@)]]
    /\ accounts' = [u \in People |->
                      IF accounts[u].must THEN [accounts[u] EXCEPT !.calm = Older(@)]
                      ELSE accounts[u]]
    /\ cookie' = [cookie EXCEPT !.asked = Older(@)]
    /\ request' = [r \in Tabs |-> [request[r] EXCEPT !.session.asked = Older(@)]]
    /\ UNCHANGED <<sso, gateway, trouble>>

SessionNext ==
    \/ \E r \in Tabs :
        \/ \E kind \in Kinds, ident \in {NoIdentity, Identity(gateway)} : Arrive(r, kind, ident)
        \/ Reuse(r) \/ Provision(r) \/ ProvisionFails(r) \/ Gate(r)
        \/ Logout(r) \/ Reply(r)
        \/ \E u \in People : Login(r, u)
        \/ \E password \in BOOLEAN : Change(r, password)
    \/ \E u \in People, role \in Powers \cup {"gone"}, must \in BOOLEAN :
          AccountChange(u, [role |-> role, must |-> must, calm |-> accounts[u].calm])
    \/ \E v \in Vouched : GatewayChange(v)
    \/ TimePasses

SessionSpec == SessionInit /\ [][SessionNext]_sessionVars

-----------------------------------------------------------------------------
LetThrough(r) == request[r].pc = "gate" /\ request'[r].pc = "work"
(* _revalidate_session could not ask.                                       *)
Excused(r) ==
    LET s == request[r].session
    IN  s.asked = Ttl /\ request'[r].session.asked = Ttl

(* "A DEMOTED or REMOVED admin's still-signed cookie stops working within   *)
(* the TTL", whatever stale answers do to the cookie: who is let through    *)
(* was entitled to it less than a Ttl ago.                                  *)
RevokedWithinTtl == [][\A r \in Tabs :
    LetThrough(r) /\ request[r].kind \notin {"me", "probe"} /\ ~Excused(r) =>
        LET g == grants[request'[r].session.grant]
        IN  /\ g.seen < Ttl
            /\ request[r].kind = "write" => g.role # "auditor"
            /\ request[r].kind = "admin" => g.role = "superuser"]_sessionVars

(* A temporary password must be changed before anything is written: an      *)
(* account that writes had a password of its own choice less than a Ttl ago.*)
TemporaryIsGated == [][\A r \in Tabs :
    LetThrough(r) /\ request[r].kind \in {"write", "admin"} /\ ~Excused(r) /\ ~sso =>
        accounts[grants[request'[r].session.grant].user].calm < Ttl]_sessionVars

(* "The gateway is the ONLY way in": under single sign-on a cookie alone    *)
(* opens nothing.                                                           *)
SsoNeedsGateway == [][\A r \in Tabs :
    sso /\ LetThrough(r) /\ request[r].kind # "probe" =>
        request[r].ident # NoIdentity]_sessionVars

(* Who may act through the console, whatever its tabs, the gateway and the  *)
(* controller do meanwhile.                                                 *)
SessionsAreGated ==
    []SessionTypeOK /\ RevokedWithinTtl /\ TemporaryIsGated /\ SsoNeedsGateway
=============================================================================
