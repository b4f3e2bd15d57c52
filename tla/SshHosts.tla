------------------------------ MODULE SshHosts ------------------------------
(***************************************************************************)
(* Sysible Connect's inventory (remote_routes.py): the SSH records of       *)
(* hosts.json, the host keys pinned on first use in known_hosts, and the    *)
(* "Agent + SSH" shadow records that an agent's answer to the ssh_enable    *)
(* command creates (app.py, SYSIBLE_AGENT_SSH_TERMINAL=1).                  *)
(*                                                                         *)
(* hosts.json is read, changed and written under _HOSTS_LOCK: one step.     *)
(* What is looked up before the lock, and known_hosts, which has none, are  *)
(* steps of their own.  paramiko is external: a client reads known_hosts    *)
(* when it is made, and a save reads it once more, merges and writes it.    *)
(***************************************************************************)
EXTENDS Integers, FiniteSets

CONSTANTS
    HostNames, Addresses, HostKeys,
    Peers,       \* agents: host_ids
    Requests,    \* handlers that may run at the same time
    Null,        \* no record, no key, no value
    MaxRequests, \* bound: requests of operators
    MaxMoves     \* bound: what agents and machines do by themselves

ASSUME SshBounds ==
    /\ MaxRequests \in Nat /\ MaxMoves \in Nat
    /\ Null \notin HostNames \cup Addresses \cup HostKeys

VARIABLES
    hosts,     \* hosts.json
    pins,      \* known_hosts
    shows,     \* address -> the key the machine there presents
    known,     \* peer -> its machine's hostname, which does not change
    peers,     \* agents table: name and address as reported
    sshState,  \* agent_ssh_state.json
    sshTask,   \* peer -> "none", "queued", "done" (TaskQueue), "lost"
    req,       \* request -> handler
    forgotten, \* history: addresses whose pin was dropped since they were last trusted
    trusted,   \* history: address -> the key last accepted there
    crossed,   \* history: two requests had known_hosts in hand at once
    requests, moves

sshVars == <<hosts, pins, shows, known, peers, sshState, sshTask, req, forgotten, trusted, crossed,
             requests, moves>>

Rec(ip, by) == [ip |-> ip, by |-> by, during |-> FALSE]
NoRec   == Rec(Null, "nobody")
NoPeer  == [name |-> Null, ip |-> Null]
Settled == [status |-> "none", name |-> Null, ip |-> Null]
Pins    == [Addresses -> HostKeys \cup {Null}]
NoPins  == [i \in Addresses |-> Null]
Rested  == [pc |-> "idle", peer |-> Null, name |-> Null, ips |-> {}, view |-> NoPins,
            late |-> FALSE, status |-> "none"]
Handles == [pc : {"idle", "connect", "merge", "write", "record", "drop", "forget", "unpin",
                  "state", "queue", "pending", "register", "settle"},
            peer : Peers \cup {Null}, name : HostNames \cup {Null}, ips : SUBSET Addresses,
            view : Pins, late : BOOLEAN, status : {"none", "enabled", "missing", "error"}]

SshTypeOK ==
    /\ hosts \in [HostNames -> [ip : Addresses \cup {Null}, by : {"nobody", "operator", "agent"},
                                during : BOOLEAN]]
    /\ pins \in Pins /\ trusted \in Pins
    /\ shows \in [Addresses -> HostKeys]
    /\ known \in [Peers -> HostNames]
    /\ peers \in [Peers -> [name : HostNames \cup {Null}, ip : Addresses \cup {Null}]]
    /\ sshState \in [Peers -> [status : {"none", "pending", "enabled", "missing", "error"},
                               name : HostNames \cup {Null}, ip : Addresses \cup {Null}]]
    /\ sshTask \in [Peers -> {"none", "queued", "done", "lost"}]
    /\ req \in [Requests -> Handles]
    /\ forgotten \subseteq Addresses /\ crossed \in BOOLEAN
    /\ requests \in 0..MaxRequests /\ moves \in 0..MaxMoves

SshInit ==
    /\ hosts = [n \in HostNames |-> NoRec]
    /\ pins = NoPins /\ trusted = NoPins
    /\ \E k \in HostKeys : shows = [i \in Addresses |-> k]
    /\ known \in [Peers -> HostNames] /\ peers = [a \in Peers |-> NoPeer]
    /\ sshState = [a \in Peers |-> Settled]
    /\ sshTask = [a \in Peers |-> "none"]
    /\ req = [r \in Requests |-> Rested]
    /\ forgotten = {} /\ crossed = FALSE /\ requests = 0 /\ moves = 0

-----------------------------------------------------------------------------
world == <<shows, known, peers>>
trust == <<forgotten, trusted, crossed>>
shadow == <<sshState, sshTask>>
bounds == <<requests, moves>>

Asked  == requests < MaxRequests /\ requests' = requests + 1 /\ UNCHANGED moves
Moved  == moves < MaxMoves /\ moves' = moves + 1 /\ UNCHANGED requests
To(r, h)  == req' = [req EXCEPT ![r] = h]
Goes(r, pc) == req' = [req EXCEPT ![r].pc = pc]
Over(r)   == req' = [req EXCEPT ![r] = Rested]
Ip(r)     == CHOOSE i \in req[r].ips : TRUE

(* Another request is between its reading of known_hosts and its writing.   *)
Crossing(r) == \E q \in Requests \ {r} : req[q].pc \in {"connect", "merge", "write", "unpin"}

(* _ip_owner                                                                *)
Owned(ip, n) ==
    \/ \E m \in HostNames \ {n} : hosts[m].ip = ip
    \/ \E a \in Peers : peers[a].ip = ip /\ peers[a].name # n

(* A record is written: whoever has looked at the address before is late.   *)
Put(r, n, h, next) ==
    /\ hosts' = [hosts EXCEPT ![n] = h]
    /\ req' = [q \in Requests |->
                 IF q = r THEN next
                 ELSE IF req[q].pc \in {"connect", "merge", "write", "record"}
                         /\ req[q].ips = {h.ip} /\ req[q].name # n
                 THEN [req[q] EXCEPT !.late = TRUE] ELSE req[q]]

-----------------------------------------------------------------------------
(* enroll_ssh and add_host: look the address up; connect, pin; record.      *)
Enroll(r, n, ip, pc) ==
    /\ req[r].pc = "idle" /\ pc \in {"connect", "record"} /\ Asked
    /\ ~Owned(ip, n)
    /\ To(r, [Rested EXCEPT !.pc = pc, !.name = n, !.ips = {ip}, !.view = pins])
    /\ crossed' = (crossed \/ (pc = "connect" /\ Crossing(r)))
    /\ UNCHANGED <<hosts, pins, world, shadow, forgotten, trusted>>

(* The host key is compared with the pin the client has read, or pinned.    *)
(* Mutant: any key is accepted, as with AutoAddPolicy.                      *)
MutMeets(view, ip) == TRUE
Meets(view, ip) == view[ip] \in {Null, shows[ip]}
Connect(r) ==
    /\ req[r].pc = "connect"
    /\ LET ip == Ip(r) IN
       IF Meets(req[r].view, ip)
       THEN /\ To(r, [req[r] EXCEPT !.pc = IF req[r].view[ip] = Null THEN "merge" ELSE "record",
                                     !.view[ip] = shows[ip]])
            /\ trusted' = [trusted EXCEPT ![ip] = shows[ip]]
            /\ forgotten' = forgotten \ {ip}
       ELSE Over(r) /\ UNCHANGED <<trusted, forgotten>>       \* 409
    /\ UNCHANGED <<hosts, pins, world, shadow, crossed, bounds>>

Fails(r) ==           \* unreachable, wrong password
    /\ req[r].pc = "connect" /\ Over(r)
    /\ UNCHANGED <<hosts, pins, world, shadow, trust, bounds>>

(* save_host_keys                                                           *)
Merge(r) ==
    /\ req[r].pc = "merge"
    /\ To(r, [req[r] EXCEPT !.pc = "write", !.view =
                [i \in Addresses |-> IF req[r].view[i] # Null THEN req[r].view[i] ELSE pins[i]]])
    /\ UNCHANGED <<hosts, pins, world, shadow, trust, bounds>>
Write(r) ==
    /\ req[r].pc \in {"write", "unpin"}
    /\ pins' = req[r].view
    /\ IF req[r].pc = "write" THEN Goes(r, "record")
       ELSE IF req[r].ips = {} THEN Over(r) ELSE Goes(r, "forget")
    /\ UNCHANGED <<hosts, world, shadow, trust, bounds>>

Attempting == \/ \E a \in Peers : sshTask[a] = "queued"
              \/ \E q \in Requests : req[q].pc \in {"queue", "pending", "register"}
Record(r) ==
    /\ req[r].pc = "record"
    /\ LET q == req[r]
           h == [Rec(Ip(r), "operator") EXCEPT
                   !.during = Attempting]
       IN Put(r, q.name, h, Rested)
    /\ UNCHANGED <<pins, world, shadow, trust, bounds>>

-----------------------------------------------------------------------------
(* delete_host, delete_all_hosts: the records, then their pins.             *)
Delete(r, ns) ==
    /\ req[r].pc = "idle" /\ Asked
    /\ hosts' = [n \in HostNames |-> IF n \in ns THEN NoRec ELSE hosts[n]]
    /\ LET ips == {hosts[n].ip : n \in ns} \ {Null} IN
       IF ips = {} THEN UNCHANGED req
       ELSE To(r, [Rested EXCEPT !.pc = "forget", !.ips = ips])
    /\ UNCHANGED <<pins, world, shadow, trust>>

(* _forget_known_host                                                       *)
MutUnpinned(ip) == pins
Unpinned(ip) == [pins EXCEPT ![ip] = Null]
Forget(r) ==
    /\ req[r].pc = "forget"
    /\ \E ip \in req[r].ips :
         /\ To(r, [req[r] EXCEPT !.pc = "unpin", !.ips = @ \ {ip}, !.view = Unpinned(ip)])
         /\ forgotten' = forgotten \cup {ip}
    /\ crossed' = (crossed \/ Crossing(r))
    /\ UNCHANGED <<hosts, pins, world, shadow, trusted, bounds>>

-----------------------------------------------------------------------------
(* An agent enrolls (again), or moves to another address and says so.       *)
PeerEnrolls(r, a, ip) ==
    /\ req[r].pc = "idle" /\ Moved
    /\ peers' = [peers EXCEPT ![a] = [name |-> known[a], ip |-> ip]]
    /\ To(r, [Rested EXCEPT !.pc = "queue", !.peer = a, !.name = known[a], !.ips = {ip}])
    /\ UNCHANGED <<hosts, pins, shows, known, shadow, trust>>

Heartbeat(r, a, ip) ==
    /\ req[r].pc = "idle" /\ peers[a] # NoPeer
    /\ IF peers[a].ip = ip THEN UNCHANGED bounds ELSE Moved
    /\ peers' = [peers EXCEPT ![a].ip = ip]
    /\ IF sshState[a].status = "none"
       THEN To(r, [Rested EXCEPT !.pc = "queue", !.peer = a, !.name = peers[a].name, !.ips = {ip}])
       ELSE peers[a].ip # ip /\ UNCHANGED req
    /\ UNCHANGED <<hosts, pins, shows, known, shadow, trust>>

Settle(a, status) == sshState' = [sshState EXCEPT ![a] = [Settled EXCEPT !.status = status]]

(* _maybe_enroll_agent_ssh: the task is queued before the state is saved.   *)
Attempt(r) ==
    /\ req[r].pc = "queue"
    /\ LET a == req[r].peer IN
       IF hosts[req[r].name] # NoRec
       THEN Settle(a, "enabled") /\ Over(r) /\ UNCHANGED sshTask
       ELSE /\ sshTask' = [sshTask EXCEPT ![a] = IF peers[a] = NoPeer THEN "lost" ELSE "queued"]
            /\ Goes(r, "pending") /\ UNCHANGED sshState
    /\ UNCHANGED <<hosts, pins, world, trust, bounds>>
Pending(r) ==
    /\ req[r].pc = "pending"
    /\ sshState' = [sshState EXCEPT ![req[r].peer] =
                      [status |-> "pending", name |-> req[r].name, ip |-> Ip(r)]]
    /\ Over(r)
    /\ UNCHANGED <<hosts, pins, world, sshTask, trust, bounds>>

(* _consume_ssh_enable_result, for a host that runs sshd and one that does  *)
(* not: the state is read first.                                            *)
Answer(r, a, up) ==
    /\ req[r].pc = "idle" /\ sshTask[a] = "queued"
    /\ sshTask' = [sshTask EXCEPT ![a] = "done"]
    /\ LET who == IF sshState[a].name # Null THEN [name |-> sshState[a].name, ip |-> sshState[a].ip]
                  ELSE peers[a]
       IN IF up /\ who # NoPeer
          THEN To(r, [Rested EXCEPT !.pc = "register", !.peer = a, !.name = who.name, !.ips = {who.ip}])
          ELSE To(r, [Rested EXCEPT !.pc = "settle", !.peer = a,
                                    !.status = IF up THEN "error" ELSE "missing"])
    /\ UNCHANGED <<hosts, pins, world, sshState, trust, bounds>>

(* register_agent_ssh_host: only an address no other record has.            *)
MutFree(n, ip) == TRUE
Free(n, ip) == \A m \in HostNames \ {n} : hosts[m].ip # ip
Register(r) ==
    /\ req[r].pc = "register"
    /\ LET q == req[r]
           settle(s) == [Rested EXCEPT !.pc = "settle", !.peer = q.peer, !.status = s]
       IN IF Free(q.name, Ip(r))
          THEN Put(r, q.name, Rec(Ip(r), "agent"), settle("enabled"))
          ELSE To(r, settle("error")) /\ UNCHANGED hosts
    /\ UNCHANGED <<pins, world, shadow, trust, bounds>>
SettleState(r) ==
    /\ req[r].pc = "settle"
    /\ Settle(req[r].peer, req[r].status) /\ Over(r)
    /\ UNCHANGED <<hosts, pins, world, sshTask, trust, bounds>>

(* remove_agent, self_disenroll: its queue goes with it; then the record    *)
(* that has both its name and its address.                                  *)
DeletePeer(r, a) ==
    /\ req[r].pc = "idle" /\ peers[a] # NoPeer
    /\ peers' = [peers EXCEPT ![a] = NoPeer]
    /\ sshTask' = [sshTask EXCEPT ![a] = IF @ = "queued" THEN "lost" ELSE @]
    /\ To(r, [Rested EXCEPT !.pc = "drop", !.name = peers[a].name, !.ips = {peers[a].ip}])
    /\ UNCHANGED <<hosts, pins, shows, known, sshState, trust, bounds>>
MutBelongs(n, q) == n = q.name \/ hosts[n].ip \in q.ips
Belongs(n, q) == n = q.name /\ hosts[n].ip \in q.ips
Drop(r) ==
    /\ req[r].pc = "drop"
    /\ LET gone == {n \in HostNames : hosts[n] # NoRec /\ Belongs(n, req[r])} IN
       /\ hosts' = [n \in HostNames |-> IF n \in gone THEN NoRec ELSE hosts[n]]
       /\ IF gone = {} THEN Over(r)
          ELSE To(r, [req[r] EXCEPT !.pc = "forget", !.ips = {hosts[n].ip : n \in gone}])
    /\ UNCHANGED <<pins, world, shadow, trust, bounds>>

(* A machine is rebuilt, or another one answers at its address.             *)
Rebuild(ip) ==
    /\ Moved
    /\ \E k \in HostKeys : k # shows[ip] /\ shows' = [shows EXCEPT ![ip] = k]
    /\ UNCHANGED <<hosts, pins, known, peers, shadow, req, trust>>

-----------------------------------------------------------------------------
SshStep(r) ==
    \/ Connect(r) \/ Fails(r) \/ Merge(r) \/ Write(r) \/ Record(r) \/ Forget(r)
    \/ Attempt(r) \/ Pending(r) \/ Register(r) \/ SettleState(r) \/ Drop(r)
SshNext ==
    \/ \E r \in Requests :
         \/ SshStep(r)
         \/ \E n \in HostNames, ip \in Addresses :
              \E pc \in {"connect", "record"} : Enroll(r, n, ip, pc)
         \/ \E n \in HostNames : Delete(r, {n})
         \/ Delete(r, HostNames)
         \/ \E a \in Peers :
              \/ DeletePeer(r, a)
              \/ \E ip \in Addresses : PeerEnrolls(r, a, ip) \/ Heartbeat(r, a, ip)
              \/ \E up \in BOOLEAN : Answer(r, a, up)
    \/ \E ip \in Addresses : Rebuild(ip)
SshSpec == SshInit /\ [][SshNext]_sshVars

-----------------------------------------------------------------------------
(* Two records of one address (_ip_owner: "impossible to enroll the same    *)
(* physical machine twice") come only from a request that looked the        *)
(* address up before the other record was written.                          *)
TwiceOnlyByOverlap ==
    [][\A n, m \in HostNames :
         (n # m /\ hosts'[n].ip = hosts'[m].ip /\ hosts'[n].ip # Null /\ hosts[n] # hosts'[n])
            => \E r \in Requests : req[r].pc = "record" /\ req[r].late]_sshVars

(* An agent's report never takes, moves or removes the record an operator   *)
(* made (register_agent_ssh_host's security note): not of another name, and *)
(* one of its own name only when the operator made it while the agent's     *)
(* attempt was under way, or the agent is (or was) at that very address.    *)
OperatorRecordStands ==
    [][\A n \in HostNames :
         hosts[n].by = "operator" /\ hosts'[n] # hosts[n] =>
            \/ hosts'[n].by = "operator"
            \/ requests' # requests                                  \* deleted by an operator
            \/ hosts[n].during \/ hosts'[n].ip = hosts[n].ip
            \/ \E r \in Requests : req[r].pc = "drop" /\ req[r].name = n
                                    /\ hosts[n].ip \in req[r].ips]_sshVars

(* A key that differs from the one last accepted at an address is accepted  *)
(* only when the pin was dropped on purpose, unless two requests have had   *)
(* known_hosts in their hands at the same time.                             *)
ChangedKeyIsRefused ==
    [][\A i \in Addresses :
         trusted[i] # Null /\ trusted'[i] # trusted[i] => i \in forgotten \/ crossed]_sshVars

(* A forgotten pin does not come back (delete_host: "so a rebuilt box can   *)
(* re-enroll") but through a client that had read it before.                *)
ForgottenIsFree ==
    \A i \in Addresses :
       (\A r \in Requests : req[r].pc = "idle") /\ ~crossed /\ i \in forgotten => pins[i] = Null

(* The records of the SSH hosts and the pins of their keys, whoever writes  *)
(* them at the same time.                                                   *)
HostRecordsStand ==
    /\ [](SshTypeOK /\ ForgottenIsFree)
    /\ TwiceOnlyByOverlap /\ OperatorRecordStands /\ ChangedKeyIsRefused
=============================================================================
