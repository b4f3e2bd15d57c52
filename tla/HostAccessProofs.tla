-------------------------- MODULE HostAccessProofs --------------------------
(***************************************************************************)
(* Proofs about MCHostAccess, for any number of hosts, addresses, keys,     *)
(* peers and requests, for any number of tabs, tokens and ticks, and for    *)
(* any number of clients, threads and failures.                             *)
(*                                                                         *)
(* Sessions: a cookie may be an old copy, so nothing can be said of what it *)
(* holds but this: the session was asked about no later than its token was  *)
(* good, and where its holder may write, the account's password was its own *)
(* as long as the token was good.  Hosts: two requests can have known_hosts *)
(* in hand at once and then undo each other; the invariant says what the    *)
(* pins are until that has happened, and which reports are late.  Logins:   *)
(* what was let through fits the console's count, a wrong guess is no       *)
(* younger than its mark there, and the row has every failure until two are *)
(* counted at once.                                                         *)
(*                                                                         *)
(* A component is followed or rests: either way its step is a step of its   *)
(* own or none, and what its own specification keeps, the whole keeps.      *)
(***************************************************************************)
EXTENDS MCHostAccess, FiniteSetTheorems, WellFoundedInduction, TLAPS

-----------------------------------------------------------------------------
(* The records of the SSH hosts.                                            *)

InHand == {"connect", "merge", "write", "unpin"}

(* Whose name and address a report, an attempt or a request is about.       *)
NamesKnown ==
    /\ \A a \in Peers :
          /\ peers[a] # NoPeer => peers[a].name = known[a] /\ peers[a].ip \in Addresses
          /\ sshState[a].name # Null =>
                sshState[a].name = known[a] /\ sshState[a].ip \in Addresses
    /\ \A r \in Requests :
          /\ req[r].pc \in {"connect", "merge", "write", "record"} =>
                req[r].name \in HostNames /\ \E i \in Addresses : req[r].ips = {i}
          /\ req[r].pc \in {"queue", "pending", "register"} =>
                /\ req[r].peer \in Peers /\ req[r].name = known[req[r].peer]
                /\ \E i \in Addresses : req[r].ips = {i}
          /\ req[r].pc = "settle" => req[r].peer \in Peers

(* A request that looked an address up is late once another record has it.  *)
LateIsMarked ==
    \A r \in Requests, m \in HostNames :
        /\ req[r].pc \in {"connect", "merge", "write", "record"}
        /\ m # req[r].name /\ hosts[m].ip \in req[r].ips
        => req[r].late

(* What an operator recorded under an agent's name while its attempt to     *)
(* register is on its way was recorded during it.                           *)
OperatorIsDuring ==
    \A a \in Peers :
        /\ \/ sshTask[a] = "queued"
           \/ \E r \in Requests : req[r].pc = "register" /\ req[r].peer = a
        /\ hosts[known[a]].by = "operator"
        => hosts[known[a]].during

(* Until two requests cross: one has known_hosts in hand, and what it holds *)
(* is what is there, but for the address it is about.                       *)
OneInHand ==
    ~crossed =>
        /\ \A r, q \in Requests : req[r].pc \in InHand /\ req[q].pc \in InHand => r = q
        /\ \A r \in Requests :
              /\ req[r].pc = "connect" => req[r].view = pins
              /\ req[r].pc \in {"merge", "write"} =>
                    \A i \in Addresses :
                       \/ req[r].view[i] = pins[i] /\ i \notin req[r].ips
                       \/ /\ req[r].view[i] = trusted[i] /\ trusted[i] # Null
                          /\ req[r].ips = {i} /\ i \notin forgotten
              /\ req[r].pc = "unpin" =>
                    \A i \in Addresses :
                       \/ req[r].view[i] = pins[i]
                       \/ req[r].view[i] = Null /\ i \in forgotten

(* Until then, what was accepted is pinned or about to be, and what was     *)
(* forgotten is not, or is about not to be.                                 *)
PinsAreTrue ==
    ~crossed =>
        \A i \in Addresses :
            /\ i \notin forgotten /\ trusted[i] # Null =>
                  \/ pins[i] = trusted[i]
                  \/ \E r \in Requests : req[r].pc \in {"merge", "write"} /\ req[r].ips = {i}
            /\ i \in forgotten =>
                  \/ pins[i] = Null
                  \/ \E r \in Requests : req[r].pc = "unpin" /\ req[r].view[i] = Null

SshInv == SshTypeOK /\ NamesKnown /\ LateIsMarked /\ OperatorIsDuring /\ OneInHand /\ PinsAreTrue

HostRecs  == [ip : Addresses \cup {Null}, by : {"nobody", "operator", "agent"}, during : BOOLEAN]
PeerRecs  == [name : HostNames \cup {Null}, ip : Addresses \cup {Null}]
StateRecs == [status : {"none", "pending", "enabled", "missing", "error"},
              name : HostNames \cup {Null}, ip : Addresses \cup {Null}]
Lookers   == {"connect", "merge", "write", "record"}
Attempts  == {"queue", "pending", "register"}

LEMMA SshTypes ==
    SshTypeOK <=> /\ hosts \in [HostNames -> HostRecs]
                  /\ pins \in Pins /\ trusted \in Pins
                  /\ shows \in [Addresses -> HostKeys] /\ known \in [Peers -> HostNames]
                  /\ peers \in [Peers -> PeerRecs] /\ sshState \in [Peers -> StateRecs]
                  /\ sshTask \in [Peers -> {"none", "queued", "done", "lost"}]
                  /\ req \in [Requests -> Handles]
                  /\ forgotten \in SUBSET Addresses /\ crossed \in BOOLEAN
                  /\ requests \in 0..MaxRequests /\ moves \in 0..MaxMoves
  BY DEF SshTypeOK, HostRecs, PeerRecs, StateRecs

LEMMA SshTypesNext ==
    /\ hosts' \in [HostNames -> HostRecs]
    /\ pins' \in Pins /\ trusted' \in Pins
    /\ shows' \in [Addresses -> HostKeys] /\ known' \in [Peers -> HostNames]
    /\ peers' \in [Peers -> PeerRecs] /\ sshState' \in [Peers -> StateRecs]
    /\ sshTask' \in [Peers -> {"none", "queued", "done", "lost"}]
    /\ req' \in [Requests -> Handles]
    /\ forgotten' \in SUBSET Addresses /\ crossed' \in BOOLEAN
    /\ requests' \in 0..MaxRequests /\ moves' \in 0..MaxMoves
    => SshTypeOK'
  BY DEF SshTypeOK, HostRecs, PeerRecs, StateRecs

LEMMA SshCounts ==
    ASSUME requests \in 0..MaxRequests, moves \in 0..MaxMoves,
           Asked \/ Moved \/ UNCHANGED bounds
    PROVE  requests' \in 0..MaxRequests /\ moves' \in 0..MaxMoves
<1>1. MaxRequests \in Nat /\ MaxMoves \in Nat
  BY SshBounds
<1> QED
  BY <1>1 DEF Asked, Moved, bounds

(* One handler moves.                                                       *)
LEMMA RequestMoves ==
    ASSUME NEW r \in Requests, req \in [Requests -> Handles]
    PROVE  /\ \A h \in Handles :
                 To(r, h) => /\ req' \in [Requests -> Handles] /\ req'[r] = h
                             /\ \A q \in Requests \ {r} : req'[q] = req[q]
           /\ Over(r) => /\ req' \in [Requests -> Handles] /\ req'[r] = Rested
                         /\ \A q \in Requests \ {r} : req'[q] = req[q]
           /\ \A pc \in {"record", "forget", "pending"} :
                 Goes(r, pc) =>
                    /\ req' \in [Requests -> Handles]
                    /\ req'[r].pc = pc /\ req'[r].peer = req[r].peer
                    /\ req'[r].name = req[r].name /\ req'[r].ips = req[r].ips
                    /\ req'[r].view = req[r].view /\ req'[r].late = req[r].late
                    /\ \A q \in Requests \ {r} : req'[q] = req[q]
<1>1. Rested \in Handles
  BY DEF Rested, Handles, NoPins, Pins
<1>2. \A h \in Handles :
         To(r, h) => /\ req' \in [Requests -> Handles] /\ req'[r] = h
                     /\ \A q \in Requests \ {r} : req'[q] = req[q]
  BY DEF To
<1>3. Over(r) => To(r, Rested)
  BY DEF Over, To
<1>4. ASSUME NEW pc \in {"record", "forget", "pending"}, Goes(r, pc)
      PROVE  /\ req' \in [Requests -> Handles]
             /\ req'[r].pc = pc /\ req'[r].peer = req[r].peer
             /\ req'[r].name = req[r].name /\ req'[r].ips = req[r].ips
             /\ req'[r].view = req[r].view /\ req'[r].late = req[r].late
             /\ \A q \in Requests \ {r} : req'[q] = req[q]
  <2>1. req[r] \in Handles
    OBVIOUS
  <2>2. req' = [req EXCEPT ![r] = [req[r] EXCEPT !.pc = pc]]
    BY <1>4 DEF Goes
  <2> DEFINE h == [req[r] EXCEPT !.pc = pc]
  <2>3. /\ h \in Handles /\ h.pc = pc /\ h.peer = req[r].peer /\ h.name = req[r].name
        /\ h.ips = req[r].ips /\ h.view = req[r].view /\ h.late = req[r].late
    BY <1>4, <2>1 DEF Handles
  <2> HIDE DEF h
  <2>4. req' = [req EXCEPT ![r] = h]
    BY <2>2 DEF h
  <2> QED
    BY <2>3, <2>4
<1> QED
  BY <1>1, <1>2, <1>3, <1>4

(* What is untouched stays.                                                 *)
LEMMA NamesStay ==
    ASSUME NamesKnown, UNCHANGED <<peers, sshState, known>>,
           \A q \in Requests :
              /\ req'[q].pc \in Lookers =>
                    \/ /\ req[q].pc \in Lookers
                       /\ req'[q].name = req[q].name /\ req'[q].ips = req[q].ips
                    \/ req'[q].name \in HostNames /\ \E i \in Addresses : req'[q].ips = {i}
              /\ req'[q].pc \in Attempts =>
                    /\ req[q].pc \in Attempts /\ req'[q].peer = req[q].peer
                    /\ req'[q].name = req[q].name /\ req'[q].ips = req[q].ips
              /\ req'[q].pc = "settle" =>
                    req'[q].peer \in Peers \/ (req[q].pc = "settle" /\ req'[q].peer = req[q].peer)
    PROVE  NamesKnown'
  BY DEF NamesKnown, Lookers, Attempts

LEMMA LateStays ==
    ASSUME LateIsMarked, UNCHANGED hosts,
           \A q \in Requests :
              req'[q].pc \in Lookers =>
                 /\ req[q].pc \in Lookers /\ (req[q].late => req'[q].late)
                 /\ req'[q].name = req[q].name /\ req'[q].ips = req[q].ips
    PROVE  LateIsMarked'
  BY DEF LateIsMarked, Lookers

LEMMA DuringStays ==
    ASSUME OperatorIsDuring, UNCHANGED <<hosts, known>>,
           \A a \in Peers : sshTask'[a] = "queued" => sshTask[a] = "queued",
           \A q \in Requests :
              req'[q].pc = "register" => req[q].pc = "register" /\ req'[q].peer = req[q].peer
    PROVE  OperatorIsDuring'
  BY DEF OperatorIsDuring

LEMMA HandStays ==
    ASSUME OneInHand, PinsAreTrue, UNCHANGED <<pins, trusted, forgotten, crossed>>,
           \A q \in Requests :
              req'[q].pc \in InHand \/ req[q].pc \in {"merge", "write", "unpin"} =>
                 /\ req'[q].pc = req[q].pc
                 /\ req'[q].view = req[q].view /\ req'[q].ips = req[q].ips
    PROVE  OneInHand' /\ PinsAreTrue'
<1>1. OneInHand'
  BY DEF OneInHand, InHand
<1>2. PinsAreTrue'
  BY DEF PinsAreTrue, InHand
<1> QED
  BY <1>1, <1>2

(* The three action properties, as one step.                                *)
TwiceStep ==
    \A n, m \in HostNames :
       (n # m /\ hosts'[n].ip = hosts'[m].ip /\ hosts'[n].ip # Null /\ hosts[n] # hosts'[n])
          => \E r \in Requests : req[r].pc = "record" /\ req[r].late
OperatorStep ==
    \A n \in HostNames :
       hosts[n].by = "operator" /\ hosts'[n] # hosts[n] =>
          \/ hosts'[n].by = "operator"
          \/ requests' # requests
          \/ hosts[n].during \/ hosts'[n].ip = hosts[n].ip
          \/ \E r \in Requests : req[r].pc = "drop" /\ req[r].name = n
                                  /\ hosts[n].ip \in req[r].ips
KeyStep ==
    \A i \in Addresses :
       trusted[i] # Null /\ trusted'[i] # trusted[i] => i \in forgotten \/ crossed
SshStepHolds == SshInv' /\ TwiceStep /\ OperatorStep /\ KeyStep

LEMMA SshStarts == SshInit => SshInv
<1> SUFFICES ASSUME SshInit PROVE SshInv
  OBVIOUS
<1>1. MaxRequests \in Nat /\ MaxMoves \in Nat
  BY SshBounds
<1>2. SshTypeOK
  <2>1. NoRec \in HostRecs
    BY DEF NoRec, Rec, HostRecs
  <2>2. NoPeer \in PeerRecs /\ Settled \in StateRecs
    BY DEF NoPeer, Settled, PeerRecs, StateRecs
  <2>3. NoPins \in Pins
    BY DEF NoPins, Pins
  <2>4. Rested \in Handles
    BY <2>3 DEF Rested, Handles
  <2>5. shows \in [Addresses -> HostKeys]
    BY DEF SshInit
  <2>6. /\ hosts \in [HostNames -> HostRecs] /\ req \in [Requests -> Handles]
        /\ peers \in [Peers -> PeerRecs] /\ sshState \in [Peers -> StateRecs]
        /\ sshTask \in [Peers -> {"none", "queued", "done", "lost"}]
    BY <2>1, <2>2, <2>4 DEF SshInit
  <2>7. /\ forgotten \in SUBSET Addresses /\ crossed \in BOOLEAN
        /\ pins \in Pins /\ trusted \in Pins /\ known \in [Peers -> HostNames]
    BY <2>3 DEF SshInit
  <2>8. requests \in 0..MaxRequests /\ moves \in 0..MaxMoves
    BY <1>1 DEF SshInit
  <2> QED
    BY <2>5, <2>6, <2>7, <2>8, SshTypes
<1>3. NamesKnown
  BY DEF SshInit, NamesKnown, NoPeer, Settled, Rested
<1>4. LateIsMarked /\ OperatorIsDuring
  BY DEF SshInit, LateIsMarked, OperatorIsDuring, Rested
<1>5. OneInHand
  BY DEF SshInit, OneInHand, InHand, Rested
<1>6. PinsAreTrue
  BY DEF SshInit, PinsAreTrue, NoPins
<1> QED
  BY <1>2, <1>3, <1>4, <1>5, <1>6 DEF SshInv

LEMMA SshHolds ==
    SshInv => /\ SshTypeOK /\ NamesKnown /\ LateIsMarked /\ OperatorIsDuring
              /\ OneInHand /\ PinsAreTrue
              /\ req \in [Requests -> Handles] /\ pins \in Pins /\ trusted \in Pins
              /\ hosts \in [HostNames -> HostRecs]
  BY SshTypes DEF SshInv

LEMMA NothingRecorded == UNCHANGED hosts => TwiceStep /\ OperatorStep
  BY DEF TwiceStep, OperatorStep

LEMMA NothingTrusted == UNCHANGED trusted => KeyStep
  BY DEF KeyStep

LEMMA OneAddress ==
    ASSUME NEW r \in Requests, NamesKnown, req[r].pc \in Lookers \cup Attempts
    PROVE  Ip(r) \in Addresses /\ req[r].ips = {Ip(r)}
<1>1. PICK i \in Addresses : req[r].ips = {i}
  BY DEF NamesKnown, Lookers, Attempts
<1> QED
  BY <1>1 DEF Ip

LEMMA RestedFields ==
    /\ Rested \in Handles /\ Rested.pc = "idle" /\ Rested.ips = {}
    /\ NoPins \in Pins
  BY DEF Rested, Handles, NoPins, Pins

(* known_hosts in the hands of the requests.                                *)
LEMMA EnrollSafe ==
    ASSUME SshInv, NEW r \in Requests, NEW n \in HostNames, NEW ip \in Addresses,
           NEW pc \in {"connect", "record"}, Enroll(r, n, ip, pc)
    PROVE  SshStepHolds
<1>1. /\ SshTypeOK /\ NamesKnown /\ LateIsMarked /\ OperatorIsDuring /\ OneInHand /\ PinsAreTrue
      /\ req \in [Requests -> Handles] /\ pins \in Pins
  BY SshHolds
<1> DEFINE h == [Rested EXCEPT !.pc = pc, !.name = n, !.ips = {ip}, !.view = pins]
<1>2. /\ h \in Handles /\ h.pc = pc /\ h.name = n /\ h.ips = {ip} /\ h.view = pins
  BY <1>1 DEF Rested, Handles
<1>3. To(r, h)
  BY DEF Enroll
<1> HIDE DEF h
<1>4. /\ req' \in [Requests -> Handles]
      /\ req'[r].pc = pc /\ req'[r].name = n /\ req'[r].ips = {ip} /\ req'[r].view = pins
      /\ \A q \in Requests \ {r} : req'[q] = req[q]
  BY <1>1, <1>2, <1>3, RequestMoves
<1>5. /\ req[r].pc = "idle" /\ ~Owned(ip, n) /\ Asked
      /\ crossed' = (crossed \/ (pc = "connect" /\ Crossing(r)))
      /\ UNCHANGED <<hosts, pins, shows, known, peers, sshState, sshTask, forgotten, trusted>>
  BY DEF Enroll, world, shadow
<1>6. SshTypeOK'
  <2>1. requests' \in 0..MaxRequests /\ moves' \in 0..MaxMoves
    BY <1>1, <1>5, SshCounts, SshTypes
  <2>2. crossed' \in BOOLEAN
    BY <1>1, <1>5, SshTypes
  <2> QED
    BY <1>1, <1>4, <1>5, <2>1, <2>2, SshTypes, SshTypesNext
<1>7. NamesKnown'
  BY <1>1, <1>4, <1>5, NamesStay DEF Lookers, Attempts
<1>8. LateIsMarked'
  <2>1. \A m \in HostNames : m # n => hosts[m].ip # ip
    BY <1>5 DEF Owned
  <2> QED
    BY <1>1, <1>4, <1>5, <2>1 DEF LateIsMarked
<1>9. OperatorIsDuring'
  BY <1>1, <1>4, <1>5, DuringStays
<1>10. OneInHand' /\ PinsAreTrue'
  <2>c. crossed \in BOOLEAN
    BY <1>1, SshTypes
  <2>1. CASE pc = "record"
    <3>1. crossed' = crossed
      BY <1>5, <2>c, <2>1
    <3> QED
      BY <1>1, <1>4, <1>5, <2>1, <3>1, HandStays DEF InHand
  <2>2. CASE pc = "connect" /\ Crossing(r)
    BY <1>5, <2>2 DEF OneInHand, PinsAreTrue
  <2>3. CASE pc = "connect" /\ ~Crossing(r)
    <3>1. \A q \in Requests \ {r} : req[q].pc \notin InHand
      BY <2>3 DEF Crossing, InHand
    <3>2. crossed' = crossed
      BY <1>5, <2>c, <2>3
    <3>3. \A q \in Requests : req'[q].pc \in InHand => q = r
      BY <1>4, <3>1
    <3>4. OneInHand'
      BY <1>4, <1>5, <2>3, <3>3 DEF OneInHand, InHand
    <3>5. \A q \in Requests : req[q].pc \notin InHand
      BY <1>5, <3>1 DEF InHand
    <3>6. PinsAreTrue'
      BY <1>1, <1>5, <3>2, <3>5 DEF PinsAreTrue, InHand
    <3> QED
      BY <3>4, <3>6
  <2> QED
    BY <2>1, <2>2, <2>3
<1> QED
  BY <1>5, <1>6, <1>7, <1>8, <1>9, <1>10, NothingRecorded, NothingTrusted
     DEF SshInv, SshStepHolds

LEMMA ConnectSafe ==
    ASSUME SshInv, NEW r \in Requests, Connect(r)
    PROVE  SshStepHolds
<1>1. /\ SshTypeOK /\ NamesKnown /\ LateIsMarked /\ OperatorIsDuring /\ OneInHand /\ PinsAreTrue
      /\ req \in [Requests -> Handles] /\ pins \in Pins /\ trusted \in Pins
      /\ req[r] \in Handles
  BY SshHolds
<1>2. /\ req[r].pc = "connect"
      /\ UNCHANGED <<hosts, pins, shows, known, peers, sshState, sshTask, crossed,
                     requests, moves>>
  BY DEF Connect, world, shadow, bounds
<1> DEFINE ip == Ip(r)
<1>3. ip \in Addresses /\ req[r].ips = {ip}
  BY <1>1, <1>2, OneAddress DEF Lookers
<1>k. shows \in [Addresses -> HostKeys] /\ forgotten \in SUBSET Addresses /\ Null \notin HostKeys
  BY <1>1, SshTypes, SshBounds
<1>4. CASE Meets(req[r].view, ip)
  <2> DEFINE pc == IF req[r].view[ip] = Null THEN "merge" ELSE "record"
             view == [req[r].view EXCEPT ![ip] = shows[ip]]
             h == [req[r] EXCEPT !.pc = pc, !.view[ip] = shows[ip]]
  <2>1. To(r, h) /\ trusted' = [trusted EXCEPT ![ip] = shows[ip]] /\ forgotten' = forgotten \ {ip}
    BY <1>4 DEF Connect
  <2>2. view \in Pins /\ req[r].view \in Pins
    BY <1>1, <1>3, <1>k DEF Handles, Pins
  <2>3. h = [req[r] EXCEPT !.pc = pc, !.view = view]
    OBVIOUS
  <2>p. pc \in {"merge", "record"} /\ (pc = "merge" <=> req[r].view[ip] = Null)
    OBVIOUS
  <2>v. view[ip] = shows[ip] /\ \A i \in Addresses \ {ip} : view[i] = req[r].view[i]
    BY <1>3, <2>2 DEF Pins
  <2> HIDE DEF pc, view
  <2>4. /\ h \in Handles /\ h.pc = pc /\ h.name = req[r].name /\ h.ips = req[r].ips
        /\ h.view = view /\ h.late = req[r].late /\ h.peer = req[r].peer
    BY <1>1, <2>2, <2>3, <2>p DEF Handles
  <2> HIDE DEF h
  <2>5. /\ req' \in [Requests -> Handles]
        /\ req'[r].pc = pc /\ req'[r].name = req[r].name /\ req'[r].ips = req[r].ips
        /\ req'[r].view = view /\ req'[r].late = req[r].late /\ req'[r].peer = req[r].peer
        /\ \A q \in Requests \ {r} : req'[q] = req[q]
    BY <1>1, <2>1, <2>4, RequestMoves
  <2> HIDE DEF ip
  <2>t. /\ trusted' \in Pins /\ trusted'[ip] = shows[ip]
        /\ \A i \in Addresses \ {ip} : trusted'[i] = trusted[i]
    BY <1>1, <1>3, <1>k, <2>1 DEF Pins
  <2>6. SshTypeOK'
    BY <1>1, <1>2, <1>k, <2>1, <2>5, <2>t, SshTypes, SshTypesNext
  <2>7. NamesKnown'
    BY <1>1, <1>2, <2>5, <2>p, NamesStay DEF Lookers, Attempts
  <2>8. LateIsMarked'
    BY <1>1, <1>2, <2>5, <2>p, LateStays DEF Lookers
  <2>9. OperatorIsDuring'
    BY <1>1, <1>2, <2>5, <2>p, DuringStays
  <2>10. ASSUME ~crossed
         PROVE  /\ req[r].view = pins
                /\ \A q \in Requests \ {r} : req[q].pc \notin InHand
                /\ ip \notin forgotten /\ trusted[ip] # Null => pins[ip] = trusted[ip]
    <3>1. req[r].view = pins /\ \A q \in Requests \ {r} : req[q].pc \notin InHand
      BY <1>1, <1>2, <2>10 DEF OneInHand, InHand
    <3>2. \A q \in Requests : req[q].pc \notin {"merge", "write", "unpin"}
      BY <1>2, <3>1 DEF InHand
    <3>3. ip \notin forgotten /\ trusted[ip] # Null => pins[ip] = trusted[ip]
      BY <1>1, <1>3, <2>10, <3>2 DEF PinsAreTrue
    <3> QED
      BY <3>1, <3>3
  <2>11. KeyStep
    <3>1. ASSUME ~crossed, ip \notin forgotten, trusted[ip] # Null PROVE trusted'[ip] = trusted[ip]
      BY <1>4, <2>10, <2>t, <3>1 DEF Meets
    <3> QED
      BY <2>t, <3>1 DEF KeyStep
  <2>12. ASSUME ~crossed PROVE OneInHand' /\ PinsAreTrue'
    <3>1. \A q \in Requests : req'[q].pc \in InHand => q = r
      BY <2>5, <2>10, <2>12
    <3>2. OneInHand'
      <4>1. \A i \in Addresses :
               \/ req'[r].view[i] = pins'[i] /\ i \notin req'[r].ips
               \/ /\ req'[r].view[i] = trusted'[i] /\ trusted'[i] # Null
                  /\ req'[r].ips = {i} /\ i \notin forgotten'
        BY <1>2, <1>3, <1>k, <2>1, <2>5, <2>10, <2>12, <2>t, <2>v
      <4> QED
        BY <2>5, <2>p, <3>1, <4>1 DEF OneInHand, InHand
    <3>3. PinsAreTrue'
      <4>1. \A i \in Addresses \ {ip} :
               /\ i \in forgotten' <=> i \in forgotten
               /\ trusted'[i] = trusted[i] /\ pins'[i] = pins[i]
        BY <1>2, <2>1, <2>t
      <4>2. \A q \in Requests : req[q].pc \notin {"merge", "write", "unpin"}
        BY <1>2, <2>10, <2>12 DEF InHand
      <4>3. \A i \in Addresses :
               /\ i \notin forgotten /\ trusted[i] # Null => pins[i] = trusted[i]
               /\ i \in forgotten => pins[i] = Null
        BY <1>1, <2>12, <4>2 DEF PinsAreTrue
      <4>4. ip \notin forgotten'
        BY <2>1
      <4>5. \/ pins'[ip] = trusted'[ip]
            \/ req'[r].pc \in {"merge", "write"} /\ req'[r].ips = {ip}
        <5>1. CASE req[r].view[ip] = Null
          BY <1>3, <2>5, <2>p, <5>1
        <5>2. CASE req[r].view[ip] # Null
          BY <1>2, <1>4, <2>10, <2>12, <2>t, <5>2 DEF Meets
        <5> QED
          BY <5>1, <5>2
      <4>6. ASSUME NEW i \in Addresses
            PROVE  /\ i \notin forgotten' /\ trusted'[i] # Null =>
                         \/ pins'[i] = trusted'[i]
                         \/ \E q \in Requests :
                               req'[q].pc \in {"merge", "write"} /\ req'[q].ips = {i}
                   /\ i \in forgotten' => pins'[i] = Null
        <5>1. CASE i = ip
          BY <4>4, <4>5, <5>1
        <5>2. CASE i # ip
          BY <4>1, <4>3, <5>2
        <5> QED
          BY <5>1, <5>2
      <4> QED
        BY <4>6 DEF PinsAreTrue
    <3> QED
      BY <3>2, <3>3
  <2>13. CASE crossed
    BY <1>2, <2>6, <2>7, <2>8, <2>9, <2>11, <2>13, NothingRecorded
       DEF SshInv, SshStepHolds, OneInHand, PinsAreTrue
  <2> QED
    BY <1>2, <2>6, <2>7, <2>8, <2>9, <2>11, <2>12, <2>13, NothingRecorded
       DEF SshInv, SshStepHolds
<1>5. CASE Over(r) /\ UNCHANGED <<trusted, forgotten>>
  <2>1. /\ req' \in [Requests -> Handles] /\ req'[r] = Rested
        /\ \A q \in Requests \ {r} : req'[q] = req[q]
    BY <1>1, <1>5, RequestMoves
  <2>2. SshTypeOK'
    BY <1>1, <1>2, <1>5, <2>1, SshTypes, SshTypesNext
  <2>3. NamesKnown' /\ LateIsMarked' /\ OperatorIsDuring'
    BY <1>1, <1>2, <2>1, NamesStay, LateStays, DuringStays, RestedFields DEF Lookers, Attempts
  <2>4. OneInHand' /\ PinsAreTrue'
    BY <1>1, <1>2, <1>5, <2>1, HandStays, RestedFields DEF InHand
  <2> QED
    BY <1>2, <1>5, <2>2, <2>3, <2>4, NothingRecorded, NothingTrusted DEF SshInv, SshStepHolds
<1> QED
  BY <1>4, <1>5 DEF Connect

(* A handler whose step leaves records and pins alone, and which then has   *)
(* neither in hand.                                                         *)
LEMMA PutDown ==
    ASSUME SshInv, NEW r \in Requests, SshTypeOK',
           UNCHANGED <<hosts, pins, shows, known, peers, sshState, sshTask, forgotten, trusted,
                       crossed>>,
           \A q \in Requests \ {r} : req'[q] = req[q],
           req[r].pc \notin {"merge", "write", "unpin"},
           req'[r].pc \notin InHand \cup Lookers \cup Attempts,
           req'[r].pc = "settle" => req'[r].peer \in Peers
    PROVE  SshStepHolds
<1>1. NamesKnown' /\ LateIsMarked' /\ OperatorIsDuring'
  BY SshHolds, NamesStay, LateStays, DuringStays DEF Lookers, Attempts
<1>2. OneInHand' /\ PinsAreTrue'
  BY SshHolds, HandStays
<1> QED
  BY <1>1, <1>2, NothingRecorded, NothingTrusted DEF SshInv, SshStepHolds

LEMMA FailsSafe ==
    ASSUME SshInv, NEW r \in Requests, Fails(r)
    PROVE  SshStepHolds
<1>1. /\ SshTypeOK /\ req \in [Requests -> Handles]
      /\ req[r].pc = "connect" /\ Over(r)
      /\ UNCHANGED <<hosts, pins, shows, known, peers, sshState, sshTask, forgotten, trusted,
                     crossed, requests, moves>>
  BY SshHolds DEF Fails, world, shadow, trust, bounds
<1>2. /\ req' \in [Requests -> Handles] /\ req'[r] = Rested
      /\ \A q \in Requests \ {r} : req'[q] = req[q]
  BY <1>1, RequestMoves
<1>3. SshTypeOK'
  BY <1>1, <1>2, SshTypes, SshTypesNext
<1> QED
  BY <1>1, <1>2, <1>3, PutDown, RestedFields DEF InHand, Lookers, Attempts

LEMMA MergeSafe ==
    ASSUME SshInv, NEW r \in Requests, Merge(r)
    PROVE  SshStepHolds
<1>1. /\ SshTypeOK /\ NamesKnown /\ LateIsMarked /\ OperatorIsDuring /\ OneInHand /\ PinsAreTrue
      /\ req \in [Requests -> Handles] /\ pins \in Pins /\ req[r] \in Handles
  BY SshHolds
<1>2. /\ req[r].pc = "merge"
      /\ UNCHANGED <<hosts, pins, shows, known, peers, sshState, sshTask, forgotten, trusted,
                     crossed, requests, moves>>
  BY DEF Merge, world, shadow, trust, bounds
<1> DEFINE view == [i \in Addresses |-> IF req[r].view[i] # Null THEN req[r].view[i] ELSE pins[i]]
           h    == [req[r] EXCEPT !.pc = "write", !.view = view]
<1>3. To(r, h)
  BY DEF Merge
<1>4. view \in Pins
  <2>1. req[r].view \in Pins
    BY <1>1 DEF Handles
  <2> QED
    BY <1>1, <2>1 DEF Pins
<1>v. \A i \in Addresses : view[i] = req[r].view[i] \/ (req[r].view[i] = Null /\ view[i] = pins[i])
  OBVIOUS
<1> HIDE DEF view
<1>5. /\ h \in Handles /\ h.pc = "write" /\ h.name = req[r].name /\ h.ips = req[r].ips
      /\ h.view = view /\ h.late = req[r].late
  BY <1>1, <1>4 DEF Handles
<1> HIDE DEF h
<1>6. /\ req' \in [Requests -> Handles]
      /\ req'[r].pc = "write" /\ req'[r].name = req[r].name /\ req'[r].ips = req[r].ips
      /\ req'[r].view = view /\ req'[r].late = req[r].late
      /\ \A q \in Requests \ {r} : req'[q] = req[q]
  BY <1>1, <1>3, <1>5, RequestMoves
<1>7. SshTypeOK'
  BY <1>1, <1>2, <1>6, SshTypes, SshTypesNext
<1>8. NamesKnown' /\ LateIsMarked' /\ OperatorIsDuring'
  BY <1>1, <1>2, <1>6, NamesStay, LateStays, DuringStays DEF Lookers, Attempts
<1>9. CASE crossed
  BY <1>2, <1>7, <1>8, <1>9, NothingRecorded, NothingTrusted
     DEF SshInv, SshStepHolds, OneInHand, PinsAreTrue
<1>10. CASE ~crossed
  <2>1. \A q \in Requests \ {r} : req[q].pc \notin InHand
    BY <1>1, <1>2, <1>10 DEF OneInHand, InHand
  <2>2. \A i \in Addresses :
           \/ req[r].view[i] = pins[i] /\ i \notin req[r].ips
           \/ /\ req[r].view[i] = trusted[i] /\ trusted[i] # Null
              /\ req[r].ips = {i} /\ i \notin forgotten
    BY <1>1, <1>2, <1>10 DEF OneInHand
  <2>3. ASSUME NEW i \in Addresses
        PROVE  \/ view[i] = pins[i] /\ i \notin req[r].ips
               \/ /\ view[i] = trusted[i] /\ trusted[i] # Null
                  /\ req[r].ips = {i} /\ i \notin forgotten
    <3>1. CASE req[r].view[i] = pins[i] /\ i \notin req[r].ips
      BY <1>v, <3>1
    <3>2. CASE /\ req[r].view[i] = trusted[i] /\ trusted[i] # Null
               /\ req[r].ips = {i} /\ i \notin forgotten
      BY <1>v, <3>2
    <3> QED
      BY <2>2, <3>1, <3>2
  <2>4. OneInHand'
    BY <1>2, <1>6, <1>10, <2>1, <2>3 DEF OneInHand, InHand
  <2>5. PinsAreTrue'
    BY <1>1, <1>2, <1>6, <1>10, <2>1 DEF PinsAreTrue, InHand
  <2> QED
    BY <1>2, <1>7, <1>8, <2>4, <2>5, NothingRecorded, NothingTrusted
       DEF SshInv, SshStepHolds
<1> QED
  BY <1>9, <1>10

LEMMA WriteSafe ==
    ASSUME SshInv, NEW r \in Requests, Write(r)
    PROVE  SshStepHolds
<1>1. /\ SshTypeOK /\ NamesKnown /\ LateIsMarked /\ OperatorIsDuring /\ OneInHand /\ PinsAreTrue
      /\ req \in [Requests -> Handles] /\ pins \in Pins /\ req[r] \in Handles
  BY SshHolds
<1>2. /\ req[r].pc \in {"write", "unpin"} /\ pins' = req[r].view
      /\ UNCHANGED <<hosts, shows, known, peers, sshState, sshTask, forgotten, trusted,
                     crossed, requests, moves>>
  BY DEF Write, world, shadow, trust, bounds
<1>3. /\ req' \in [Requests -> Handles]
      /\ req[r].pc = "write" => /\ req'[r].pc = "record" /\ req'[r].name = req[r].name
                                /\ req'[r].ips = req[r].ips /\ req'[r].late = req[r].late
      /\ req[r].pc = "unpin" => req'[r].pc \in {"idle", "forget"}
      /\ \A q \in Requests \ {r} : req'[q] = req[q]
  <2>1. CASE req[r].pc = "write"
    <3>1. Goes(r, "record")
      BY <2>1 DEF Write
    <3> QED
      BY <1>1, <2>1, <3>1, RequestMoves
  <2>2. CASE req[r].pc = "unpin"
    <3>1. Over(r) \/ Goes(r, "forget")
      BY <2>2 DEF Write
    <3> QED
      BY <1>1, <2>2, <3>1, RequestMoves, RestedFields
  <2> QED
    BY <1>2, <2>1, <2>2
<1>4. SshTypeOK'
  <2>1. req[r].view \in Pins
    BY <1>1 DEF Handles
  <2> QED
    BY <1>1, <1>2, <1>3, <2>1, SshTypes, SshTypesNext
<1>5. NamesKnown' /\ LateIsMarked' /\ OperatorIsDuring'
  BY <1>1, <1>2, <1>3, NamesStay, LateStays, DuringStays DEF Lookers, Attempts
<1>6. CASE crossed
  BY <1>2, <1>4, <1>5, <1>6, NothingRecorded, NothingTrusted
     DEF SshInv, SshStepHolds, OneInHand, PinsAreTrue
<1>7. CASE ~crossed
  <2>1. \A q \in Requests \ {r} : req[q].pc \notin InHand
    BY <1>1, <1>2, <1>7 DEF OneInHand, InHand
  <2>2. \A q \in Requests : req'[q].pc \notin InHand
    BY <1>2, <1>3, <2>1 DEF InHand
  <2>3. OneInHand'
    BY <2>2 DEF OneInHand, InHand
  <2>4. ASSUME NEW i \in Addresses
        PROVE  /\ i \notin forgotten /\ trusted[i] # Null => pins'[i] = trusted[i]
               /\ i \in forgotten => pins'[i] = Null
    <3>1. CASE req[r].pc = "write"
      <4>1. \A q \in Requests : req[q].pc # "unpin"
        BY <2>1, <3>1 DEF InHand
      <4>2. \/ req[r].view[i] = pins[i] /\ i \notin req[r].ips
            \/ /\ req[r].view[i] = trusted[i] /\ trusted[i] # Null
               /\ req[r].ips = {i} /\ i \notin forgotten
        BY <1>1, <1>7, <3>1 DEF OneInHand
      <4>3. CASE req[r].view[i] = pins[i] /\ i \notin req[r].ips
        <5>1. \A q \in Requests : ~(req[q].pc \in {"merge", "write"} /\ req[q].ips = {i})
          BY <2>1, <4>3 DEF InHand
        <5> QED
          BY <1>1, <1>2, <1>7, <4>1, <4>3, <5>1 DEF PinsAreTrue
      <4> QED
        BY <1>2, <4>2, <4>3
    <3>2. CASE req[r].pc = "unpin"
      <4>1. \A q \in Requests : req[q].pc \notin {"merge", "write"}
        BY <2>1, <3>2 DEF InHand
      <4>2. req[r].view[i] = pins[i] \/ (req[r].view[i] = Null /\ i \in forgotten)
        BY <1>1, <1>7, <3>2 DEF OneInHand
      <4>3. i \notin forgotten /\ trusted[i] # Null => pins[i] = trusted[i]
        BY <1>1, <1>7, <4>1 DEF PinsAreTrue
      <4>4. i \in forgotten => pins[i] = Null \/ req[r].view[i] = Null
        BY <1>1, <1>7, <2>1 DEF PinsAreTrue, InHand
      <4> QED
        BY <1>2, <4>2, <4>3, <4>4
    <3> QED
      BY <1>2, <3>1, <3>2
  <2>5. PinsAreTrue'
    BY <1>2, <2>4 DEF PinsAreTrue
  <2> QED
    BY <1>2, <1>4, <1>5, <2>3, <2>5, NothingRecorded, NothingTrusted
       DEF SshInv, SshStepHolds
<1> QED
  BY <1>6, <1>7

LEMMA ForgetSafe ==
    ASSUME SshInv, NEW r \in Requests, Forget(r)
    PROVE  SshStepHolds
<1>1. /\ SshTypeOK /\ NamesKnown /\ LateIsMarked /\ OperatorIsDuring /\ OneInHand /\ PinsAreTrue
      /\ req \in [Requests -> Handles] /\ pins \in Pins /\ req[r] \in Handles
  BY SshHolds
<1>2. /\ req[r].pc = "forget" /\ crossed' = (crossed \/ Crossing(r))
      /\ UNCHANGED <<hosts, pins, shows, known, peers, sshState, sshTask, trusted,
                     requests, moves>>
  BY DEF Forget, world, shadow, bounds
<1>3. PICK ip \in req[r].ips :
         /\ To(r, [req[r] EXCEPT !.pc = "unpin", !.ips = @ \ {ip}, !.view = Unpinned(ip)])
         /\ forgotten' = forgotten \cup {ip}
  BY DEF Forget
<1> DEFINE h == [req[r] EXCEPT !.pc = "unpin", !.ips = @ \ {ip}, !.view = Unpinned(ip)]
<1>4. ip \in Addresses
  BY <1>1 DEF Handles
<1>5. /\ Unpinned(ip) \in Pins /\ Unpinned(ip)[ip] = Null
      /\ \A i \in Addresses \ {ip} : Unpinned(ip)[i] = pins[i]
  BY <1>1, <1>4 DEF Unpinned, Pins
<1>6. h \in Handles /\ h.pc = "unpin" /\ h.view = Unpinned(ip)
  BY <1>1, <1>5 DEF Handles
<1>7. To(r, h)
  BY <1>3
<1> HIDE DEF h
<1>8. /\ req' \in [Requests -> Handles] /\ req'[r].pc = "unpin" /\ req'[r].view = Unpinned(ip)
      /\ \A q \in Requests \ {r} : req'[q] = req[q]
  BY <1>1, <1>6, <1>7, RequestMoves
<1>c. crossed \in BOOLEAN
  BY <1>1, SshTypes
<1>9. SshTypeOK'
  <2>1. crossed' \in BOOLEAN /\ forgotten' \in SUBSET Addresses
    BY <1>1, <1>2, <1>3, <1>4, SshTypes
  <2> QED
    BY <1>1, <1>2, <1>8, <2>1, SshTypes, SshTypesNext
<1>10. NamesKnown' /\ LateIsMarked' /\ OperatorIsDuring'
  BY <1>1, <1>2, <1>8, NamesStay, LateStays, DuringStays DEF Lookers, Attempts
<1>11. CASE crossed \/ Crossing(r)
  BY <1>2, <1>9, <1>10, <1>11, NothingRecorded, NothingTrusted
     DEF SshInv, SshStepHolds, OneInHand, PinsAreTrue
<1>12. CASE ~crossed /\ ~Crossing(r)
  <2>1. \A q \in Requests : req[q].pc \notin InHand
    BY <1>2, <1>12 DEF Crossing, InHand
  <2>2. \A q \in Requests : req'[q].pc \in InHand => q = r
    BY <1>8, <2>1
  <2>3. OneInHand'
    BY <1>2, <1>3, <1>5, <1>8, <2>2 DEF OneInHand, InHand
  <2>4. ASSUME NEW i \in Addresses
        PROVE  /\ i \notin forgotten /\ trusted[i] # Null => pins[i] = trusted[i]
               /\ i \in forgotten => pins[i] = Null
    BY <1>1, <1>12, <2>1 DEF PinsAreTrue, InHand
  <2>5. PinsAreTrue'
    BY <1>2, <1>3, <1>5, <1>8, <2>4 DEF PinsAreTrue
  <2> QED
    BY <1>2, <1>9, <1>10, <2>3, <2>5, NothingRecorded, NothingTrusted
       DEF SshInv, SshStepHolds
<1> QED
  BY <1>11, <1>12

(* A record is written.                                                     *)
LEMMA PutMoves ==
    ASSUME NEW r \in Requests, NEW n \in HostNames, NEW h \in HostRecs, NEW next \in Handles,
           req \in [Requests -> Handles], hosts \in [HostNames -> HostRecs],
           Put(r, n, h, next)
    PROVE  /\ req' \in [Requests -> Handles] /\ hosts' \in [HostNames -> HostRecs]
           /\ hosts'[n] = h /\ \A m \in HostNames \ {n} : hosts'[m] = hosts[m]
           /\ req'[r] = next
           /\ \A q \in Requests \ {r} :
                 /\ req'[q].pc = req[q].pc /\ req'[q].peer = req[q].peer
                 /\ req'[q].name = req[q].name /\ req'[q].ips = req[q].ips
                 /\ req'[q].view = req[q].view
                 /\ req[q].late => req'[q].late
                 /\ req[q].pc \in Lookers /\ req[q].ips = {h.ip} /\ req[q].name # n => req'[q].late
<1>1. hosts' = [hosts EXCEPT ![n] = h]
  BY DEF Put
<1>2. /\ hosts' \in [HostNames -> HostRecs] /\ hosts'[n] = h
      /\ \A m \in HostNames \ {n} : hosts'[m] = hosts[m]
  BY <1>1
<1>3. \A q \in Requests :
         LET marked == req[q].pc \in Lookers /\ req[q].ips = {h.ip} /\ req[q].name # n IN
         req'[q] = IF q = r THEN next
                   ELSE IF marked THEN [req[q] EXCEPT !.late = TRUE] ELSE req[q]
  BY DEF Put, Lookers
<1>4. DOMAIN req' = Requests /\ req' = [q \in Requests |-> req'[q]]
  BY DEF Put
<1>5. req'[r] = next
  BY <1>3
<1>6. ASSUME NEW q \in Requests \ {r}
      PROVE  /\ req'[q] \in Handles
             /\ req'[q].pc = req[q].pc /\ req'[q].peer = req[q].peer
             /\ req'[q].name = req[q].name /\ req'[q].ips = req[q].ips
             /\ req'[q].view = req[q].view
             /\ req[q].late => req'[q].late
             /\ req[q].pc \in Lookers /\ req[q].ips = {h.ip} /\ req[q].name # n => req'[q].late
  <2>1. req[q] \in Handles
    OBVIOUS
  <2>2. CASE req[q].pc \in Lookers /\ req[q].ips = {h.ip} /\ req[q].name # n
    <3>1. req'[q] = [req[q] EXCEPT !.late = TRUE]
      BY <1>3, <2>2
    <3> QED
      BY <2>1, <3>1 DEF Handles
  <2>3. CASE ~(req[q].pc \in Lookers /\ req[q].ips = {h.ip} /\ req[q].name # n)
    <3>1. req'[q] = req[q]
      BY <1>3, <2>3
    <3> QED
      BY <2>1, <2>3, <3>1
  <2> QED
    BY <2>2, <2>3
<1>7. req' \in [Requests -> Handles]
  BY <1>4, <1>5, <1>6
<1> QED
  BY <1>2, <1>5, <1>6, <1>7

(* What both writers of a record leave standing; next is neither about an   *)
(* address nor about to register.                                           *)
LEMMA PutKeeps ==
    ASSUME SshInv, NEW r \in Requests, NEW n \in HostNames, NEW h \in HostRecs,
           NEW next \in Handles, Put(r, n, h, next),
           next.pc \in {"idle", "settle"}, next.pc = "settle" => next.peer \in Peers,
           req[r].pc \in {"record", "register"}, h.ip \in Addresses,
           UNCHANGED <<pins, shows, known, peers, sshState, sshTask, forgotten, trusted,
                       crossed, requests, moves>>
    PROVE  SshTypeOK' /\ NamesKnown' /\ LateIsMarked' /\ OneInHand' /\ PinsAreTrue' /\ KeyStep
<1>1. /\ SshTypeOK /\ NamesKnown /\ LateIsMarked /\ OperatorIsDuring /\ OneInHand /\ PinsAreTrue
      /\ req \in [Requests -> Handles] /\ hosts \in [HostNames -> HostRecs]
  BY SshHolds
<1>2. /\ req' \in [Requests -> Handles] /\ hosts' \in [HostNames -> HostRecs]
      /\ hosts'[n] = h /\ \A m \in HostNames \ {n} : hosts'[m] = hosts[m]
      /\ req'[r] = next
      /\ \A q \in Requests \ {r} :
            /\ req'[q].pc = req[q].pc /\ req'[q].peer = req[q].peer
            /\ req'[q].name = req[q].name /\ req'[q].ips = req[q].ips
            /\ req'[q].view = req[q].view
            /\ req[q].late => req'[q].late
            /\ req[q].pc \in Lookers /\ req[q].ips = {h.ip} /\ req[q].name # n => req'[q].late
  BY <1>1, PutMoves
<1>3. SshTypeOK'
  BY <1>1, <1>2, SshTypes, SshTypesNext
<1>4. NamesKnown'
  BY <1>1, <1>2, NamesStay DEF Lookers, Attempts
<1>5. LateIsMarked'
  <2> SUFFICES ASSUME NEW q \in Requests, NEW m \in HostNames, req'[q].pc \in Lookers,
                      m # req'[q].name, hosts'[m].ip \in req'[q].ips
               PROVE  req'[q].late
    BY DEF LateIsMarked, Lookers
  <2>1. q # r
    BY <1>2 DEF Lookers
  <2>2. req[q].pc \in Lookers /\ m # req[q].name /\ hosts'[m].ip \in req[q].ips
    BY <1>2, <2>1
  <2>3. CASE m = n
    <3>1. \E i \in Addresses : req[q].ips = {i}
      BY <1>1, <2>2 DEF NamesKnown, Lookers
    <3>2. req[q].ips = {h.ip}
      BY <1>2, <2>2, <2>3, <3>1
    <3> QED
      BY <1>2, <2>1, <2>2, <2>3, <3>2
  <2>4. CASE m # n
    <3>1. req[q].late
      BY <1>1, <1>2, <2>2, <2>4 DEF LateIsMarked, Lookers
    <3> QED
      BY <1>2, <2>1, <3>1
  <2> QED
    BY <2>3, <2>4
<1>6. OneInHand' /\ PinsAreTrue'
  BY <1>1, <1>2, HandStays DEF InHand
<1> QED
  BY <1>3, <1>4, <1>5, <1>6, NothingTrusted

LEMMA RecordSafe ==
    ASSUME SshInv, NEW r \in Requests, Record(r)
    PROVE  SshStepHolds
<1>1. /\ SshTypeOK /\ NamesKnown /\ LateIsMarked /\ OperatorIsDuring
      /\ req \in [Requests -> Handles] /\ hosts \in [HostNames -> HostRecs]
  BY SshHolds
<1>2. /\ req[r].pc = "record"
      /\ UNCHANGED <<pins, shows, known, peers, sshState, sshTask, forgotten, trusted,
                     crossed, requests, moves>>
  BY DEF Record, world, shadow, trust, bounds
<1> DEFINE n  == req[r].name
           ip == Ip(r)
           h  == [Rec(ip, "operator") EXCEPT !.during = Attempting]
<1>3. Put(r, n, h, Rested)
  BY DEF Record
<1>4. n \in HostNames /\ ip \in Addresses /\ req[r].ips = {ip}
  BY <1>1, <1>2, OneAddress DEF NamesKnown, Lookers
<1>5. h \in HostRecs /\ h.ip = ip /\ h.by = "operator" /\ h.during = Attempting
  <2>1. Attempting \in BOOLEAN
    BY DEF Attempting
  <2> QED
    BY <1>4, <2>1 DEF Rec, HostRecs
<1> HIDE DEF h
<1>6. SshTypeOK' /\ NamesKnown' /\ LateIsMarked' /\ OneInHand' /\ PinsAreTrue' /\ KeyStep
  <2>1. Rested \in Handles /\ Rested.pc = "idle"
    BY RestedFields
  <2> QED
    BY <1>2, <1>3, <1>4, <1>5, <2>1, PutKeeps
<1>7. /\ hosts'[n] = h /\ \A m \in HostNames \ {n} : hosts'[m] = hosts[m]
      /\ req'[r] = Rested
      /\ \A q \in Requests \ {r} : req'[q].pc = req[q].pc /\ req'[q].peer = req[q].peer
  BY <1>1, <1>3, <1>4, <1>5, RestedFields, PutMoves
<1>8. OperatorIsDuring'
  <2> SUFFICES ASSUME NEW a \in Peers,
                      \/ sshTask'[a] = "queued"
                      \/ \E q \in Requests : req'[q].pc = "register" /\ req'[q].peer = a,
                      hosts'[known'[a]].by = "operator"
               PROVE  hosts'[known'[a]].during
    BY DEF OperatorIsDuring
  <2>1. \/ sshTask[a] = "queued"
        \/ \E q \in Requests : req[q].pc = "register" /\ req[q].peer = a
    BY <1>2, <1>7, RestedFields
  <2>2. known[a] \in HostNames
    BY <1>1, SshTypes
  <2>3. CASE known[a] = n
    BY <1>2, <1>5, <1>7, <2>1, <2>3 DEF Attempting
  <2>4. CASE known[a] # n
    BY <1>1, <1>2, <1>7, <2>1, <2>2, <2>4 DEF OperatorIsDuring
  <2> QED
    BY <2>3, <2>4
<1>9. TwiceStep
  <2> SUFFICES ASSUME NEW k \in HostNames, NEW m \in HostNames, k # m,
                      hosts'[k].ip = hosts'[m].ip, hosts[k] # hosts'[k]
               PROVE  req[r].late
    BY <1>2 DEF TwiceStep
  <2>1. k = n
    BY <1>7
  <2>2. hosts[m].ip = ip
    BY <1>5, <1>7, <2>1
  <2> QED
    BY <1>1, <1>2, <1>4, <2>1, <2>2 DEF LateIsMarked
<1>10. OperatorStep
  BY <1>5, <1>7 DEF OperatorStep
<1> QED
  BY <1>6, <1>8, <1>9, <1>10 DEF SshInv, SshStepHolds

LEMMA RegisterSafe ==
    ASSUME SshInv, NEW r \in Requests, Register(r)
    PROVE  SshStepHolds
<1>1. /\ SshTypeOK /\ NamesKnown /\ LateIsMarked /\ OperatorIsDuring /\ OneInHand /\ PinsAreTrue
      /\ req \in [Requests -> Handles] /\ hosts \in [HostNames -> HostRecs]
  BY SshHolds
<1>2. /\ req[r].pc = "register"
      /\ UNCHANGED <<pins, shows, known, peers, sshState, sshTask, forgotten, trusted,
                     crossed, requests, moves>>
  BY DEF Register, world, shadow, trust, bounds
<1> DEFINE n  == req[r].name
           ip == Ip(r)
           a  == req[r].peer
           settle(s) == [Rested EXCEPT !.pc = "settle", !.peer = a, !.status = s]
<1>3. a \in Peers /\ n = known[a] /\ n \in HostNames /\ ip \in Addresses
  <2>1. a \in Peers /\ n = known[a]
    BY <1>1, <1>2 DEF NamesKnown
  <2>2. ip \in Addresses
    BY <1>1, <1>2, OneAddress DEF Attempts
  <2> QED
    BY <1>1, <2>1, <2>2, SshTypes
<1>4. \A s \in {"enabled", "error"} :
         settle(s) \in Handles /\ settle(s).pc = "settle" /\ settle(s).peer = a
  BY <1>3 DEF Rested, Handles, NoPins, Pins
<1>5. \/ Free(n, ip) /\ Put(r, n, Rec(ip, "agent"), settle("enabled"))
      \/ To(r, settle("error")) /\ UNCHANGED hosts
  BY DEF Register
<1> HIDE DEF settle
<1>6. CASE Free(n, ip) /\ Put(r, n, Rec(ip, "agent"), settle("enabled"))
  <2>1. Rec(ip, "agent") \in HostRecs /\ Rec(ip, "agent").ip = ip /\ Rec(ip, "agent").by = "agent"
    BY <1>3 DEF Rec, HostRecs
  <2>2. SshTypeOK' /\ NamesKnown' /\ LateIsMarked' /\ OneInHand' /\ PinsAreTrue' /\ KeyStep
    <3>1. /\ settle("enabled") \in Handles /\ settle("enabled").pc = "settle"
          /\ settle("enabled").peer \in Peers
      BY <1>3, <1>4
    <3> HIDE DEF n, ip, a
    <3> QED
      BY <1>2, <1>3, <1>6, <2>1, <3>1, PutKeeps
  <2>3. /\ hosts'[n].ip = ip /\ hosts'[n].by = "agent"
        /\ \A m \in HostNames \ {n} : hosts'[m] = hosts[m]
        /\ req'[r].pc = "settle"
        /\ \A q \in Requests \ {r} : req'[q].pc = req[q].pc /\ req'[q].peer = req[q].peer
    <3>1. settle("enabled") \in Handles /\ settle("enabled").pc = "settle"
      BY <1>4
    <3> HIDE DEF n, ip
    <3> QED
      BY <1>1, <1>3, <1>6, <2>1, <3>1, PutMoves
  <2>4. OperatorIsDuring'
    <3> SUFFICES ASSUME NEW b \in Peers,
                        \/ sshTask'[b] = "queued"
                        \/ \E q \in Requests : req'[q].pc = "register" /\ req'[q].peer = b,
                        hosts'[known'[b]].by = "operator"
                 PROVE  hosts'[known'[b]].during
      BY DEF OperatorIsDuring
    <3>1. known[b] \in HostNames \ {n}
      BY <1>1, <1>2, <2>3, SshTypes
    <3>2. \/ sshTask[b] = "queued"
          \/ \E q \in Requests : req[q].pc = "register" /\ req[q].peer = b
      BY <1>2, <2>3
    <3> QED
      BY <1>1, <1>2, <2>3, <3>1, <3>2 DEF OperatorIsDuring
  <2>5. TwiceStep
    <3> SUFFICES ASSUME NEW k \in HostNames, NEW m \in HostNames, k # m,
                        hosts'[k].ip = hosts'[m].ip, hosts[k] # hosts'[k]
                 PROVE  FALSE
      BY DEF TwiceStep
    <3>1. k = n /\ hosts[m].ip = ip
      BY <2>3
    <3> QED
      BY <1>6, <3>1 DEF Free
  <2>6. OperatorStep
    <3> SUFFICES ASSUME NEW k \in HostNames, hosts[k].by = "operator", hosts'[k] # hosts[k]
                 PROVE  hosts[k].during
      BY DEF OperatorStep
    <3>1. k = known[a]
      BY <1>3, <2>3
    <3> QED
      BY <1>1, <1>2, <1>3, <3>1 DEF OperatorIsDuring
  <2> QED
    BY <2>2, <2>4, <2>5, <2>6 DEF SshInv, SshStepHolds
<1>7. CASE To(r, settle("error")) /\ UNCHANGED hosts
  <2>1. /\ settle("error") \in Handles /\ settle("error").pc = "settle"
        /\ settle("error").peer \in Peers
    BY <1>3, <1>4
  <2>2. /\ req' \in [Requests -> Handles] /\ req'[r] = settle("error")
        /\ \A q \in Requests \ {r} : req'[q] = req[q]
    BY <1>1, <1>7, <2>1, RequestMoves
  <2>3. SshTypeOK'
    BY <1>1, <1>2, <1>7, <2>2, SshTypes, SshTypesNext
  <2> QED
    BY <1>2, <1>7, <2>1, <2>2, <2>3, PutDown DEF InHand, Lookers, Attempts
<1> QED
  BY <1>5, <1>6, <1>7

(* Records are dropped: those of a set of names.                            *)
LEMMA DropKeeps ==
    ASSUME SshInv, NEW r \in Requests, NEW gone \in SUBSET HostNames,
           hosts' = [n \in HostNames |-> IF n \in gone THEN NoRec ELSE hosts[n]],
           req' \in [Requests -> Handles], \A q \in Requests \ {r} : req'[q] = req[q],
           req[r].pc \in {"idle", "drop"}, req'[r].pc \in {"idle", "forget"},
           UNCHANGED <<pins, shows, known, peers, sshState, sshTask, forgotten, trusted, crossed>>,
           requests' \in 0..MaxRequests, moves' \in 0..MaxMoves
    PROVE  SshInv' /\ TwiceStep /\ KeyStep /\ \A n \in HostNames : hosts'[n] # hosts[n] => n \in gone
<1>1. /\ SshTypeOK /\ NamesKnown /\ LateIsMarked /\ OperatorIsDuring /\ OneInHand /\ PinsAreTrue
      /\ req \in [Requests -> Handles] /\ hosts \in [HostNames -> HostRecs]
  BY SshHolds
<1>2. NoRec \in HostRecs /\ NoRec.ip = Null /\ NoRec.by = "nobody" /\ Null \notin Addresses
  BY SshBounds DEF NoRec, Rec, HostRecs
<1>3. /\ hosts' \in [HostNames -> HostRecs]
      /\ \A n \in HostNames : hosts'[n] = NoRec \/ (hosts'[n] = hosts[n] /\ n \notin gone)
      /\ \A n \in HostNames : hosts'[n] # hosts[n] => n \in gone /\ hosts'[n] = NoRec
  BY <1>1, <1>2
<1>4. SshTypeOK'
  BY <1>1, <1>3, SshTypes, SshTypesNext
<1>5. NamesKnown'
  BY <1>1, NamesStay DEF Lookers, Attempts
<1>6. LateIsMarked'
  <2> SUFFICES ASSUME NEW q \in Requests, NEW m \in HostNames, req'[q].pc \in Lookers,
                      m # req'[q].name, hosts'[m].ip \in req'[q].ips
               PROVE  req'[q].late
    BY DEF LateIsMarked, Lookers
  <2>1. req'[q] = req[q]
    BY DEF Lookers
  <2>2. req[q].ips \subseteq Addresses
    BY <1>1 DEF Handles
  <2>3. hosts'[m] = hosts[m]
    BY <1>2, <1>3, <2>1, <2>2
  <2> QED
    BY <1>1, <2>1, <2>3 DEF LateIsMarked, Lookers
<1>7. OperatorIsDuring'
  <2> SUFFICES ASSUME NEW a \in Peers,
                      \/ sshTask'[a] = "queued"
                      \/ \E q \in Requests : req'[q].pc = "register" /\ req'[q].peer = a,
                      hosts'[known'[a]].by = "operator"
               PROVE  hosts'[known'[a]].during
    BY DEF OperatorIsDuring
  <2>1. known[a] \in HostNames
    BY <1>1, SshTypes
  <2>2. hosts'[known[a]] = hosts[known[a]]
    BY <1>2, <1>3, <2>1
  <2> QED
    BY <1>1, <2>2 DEF OperatorIsDuring
<1>8. OneInHand' /\ PinsAreTrue'
  BY <1>1, HandStays DEF InHand
<1>9. TwiceStep
  BY <1>2, <1>3 DEF TwiceStep
<1> QED
  BY <1>3, <1>4, <1>5, <1>6, <1>7, <1>8, <1>9, NothingTrusted DEF SshInv

LEMMA DeleteSafe ==
    ASSUME SshInv, NEW r \in Requests, NEW ns \in SUBSET HostNames, Delete(r, ns)
    PROVE  SshStepHolds
<1>1. /\ SshTypeOK /\ req \in [Requests -> Handles] /\ hosts \in [HostNames -> HostRecs]
  BY SshHolds
<1>2. /\ req[r].pc = "idle" /\ Asked
      /\ hosts' = [n \in HostNames |-> IF n \in ns THEN NoRec ELSE hosts[n]]
      /\ UNCHANGED <<pins, shows, known, peers, sshState, sshTask, forgotten, trusted, crossed>>
  BY DEF Delete, world, shadow, trust
<1>3. requests' \in 0..MaxRequests /\ moves' \in 0..MaxMoves /\ requests' # requests
  <2>1. requests' \in 0..MaxRequests /\ moves' \in 0..MaxMoves
    BY <1>1, <1>2, SshCounts, SshTypes
  <2>2. requests \in 0..MaxRequests
    BY <1>1, SshTypes
  <2> QED
    BY <1>2, <2>1, <2>2 DEF Asked
<1> DEFINE ips == {hosts[n].ip : n \in ns} \ {Null}
           h   == [Rested EXCEPT !.pc = "forget", !.ips = ips]
<1>4. UNCHANGED req \/ To(r, h)
  BY DEF Delete
<1>5. ips \in SUBSET Addresses
  BY <1>1 DEF HostRecs
<1> HIDE DEF ips
<1>6. h \in Handles /\ h.pc = "forget"
  BY <1>5 DEF Rested, Handles, NoPins, Pins
<1> HIDE DEF h
<1>7. /\ req' \in [Requests -> Handles] /\ req'[r].pc \in {"idle", "forget"}
      /\ \A q \in Requests \ {r} : req'[q] = req[q]
  <2>1. CASE UNCHANGED req
    BY <1>1, <1>2, <2>1
  <2>2. CASE To(r, h)
    BY <1>1, <1>6, <2>2, RequestMoves
  <2> QED
    BY <1>4, <2>1, <2>2
<1>8. SshInv' /\ TwiceStep /\ KeyStep
  BY <1>2, <1>3, <1>7, DropKeeps
<1>9. OperatorStep
  BY <1>3 DEF OperatorStep
<1> QED
  BY <1>8, <1>9 DEF SshStepHolds

LEMMA DropSafe ==
    ASSUME SshInv, NEW r \in Requests, Drop(r)
    PROVE  SshStepHolds
<1>1. /\ SshTypeOK /\ req \in [Requests -> Handles] /\ hosts \in [HostNames -> HostRecs]
      /\ req[r] \in Handles
  BY SshHolds
<1> DEFINE gone == {n \in HostNames : hosts[n] # NoRec /\ Belongs(n, req[r])}
           ips  == {hosts[n].ip : n \in gone}
           h    == [req[r] EXCEPT !.pc = "forget", !.ips = ips]
<1>2. /\ req[r].pc = "drop"
      /\ hosts' = [n \in HostNames |-> IF n \in gone THEN NoRec ELSE hosts[n]]
      /\ Over(r) \/ To(r, h)
      /\ UNCHANGED <<pins, shows, known, peers, sshState, sshTask, forgotten, trusted, crossed,
                     requests, moves>>
  BY DEF Drop, world, shadow, trust, bounds
<1>3. \A n \in gone : n = req[r].name /\ hosts[n].ip \in req[r].ips
  BY DEF Belongs
<1>4. gone \in SUBSET HostNames
  OBVIOUS
<1> HIDE DEF gone
<1>5. ips \in SUBSET Addresses
  <2>1. req[r].ips \subseteq Addresses
    BY <1>1 DEF Handles
  <2> QED
    BY <1>3, <2>1
<1> HIDE DEF ips
<1>6. h \in Handles /\ h.pc = "forget"
  BY <1>1, <1>5 DEF Handles
<1> HIDE DEF h
<1>7. /\ req' \in [Requests -> Handles] /\ req'[r].pc \in {"idle", "forget"}
      /\ \A q \in Requests \ {r} : req'[q] = req[q]
  <2>1. CASE Over(r)
    BY <1>1, <2>1, RequestMoves, RestedFields
  <2>2. CASE To(r, h)
    BY <1>1, <1>6, <2>2, RequestMoves
  <2> QED
    BY <1>2, <2>1, <2>2
<1>8. requests' \in 0..MaxRequests /\ moves' \in 0..MaxMoves
  BY <1>1, <1>2, SshTypes
<1>9. SshInv' /\ TwiceStep /\ KeyStep /\ \A n \in HostNames : hosts'[n] # hosts[n] => n \in gone
  BY <1>2, <1>4, <1>7, <1>8, DropKeeps
<1>10. OperatorStep
  BY <1>2, <1>3, <1>9 DEF OperatorStep
<1> QED
  BY <1>9, <1>10 DEF SshStepHolds

(* Steps about agents, which leave records and pins alone.                  *)
LEMMA AgentStep ==
    ASSUME SshInv, NEW r \in Requests, SshTypeOK', NamesKnown', OperatorIsDuring',
           UNCHANGED <<hosts, pins, forgotten, trusted, crossed>>,
           \A q \in Requests \ {r} : req'[q] = req[q],
           req[r].pc \notin {"merge", "write", "unpin"},
           req'[r].pc \notin InHand \cup Lookers
    PROVE  SshStepHolds
<1>1. LateIsMarked'
  BY SshHolds, LateStays DEF Lookers
<1>2. OneInHand' /\ PinsAreTrue'
  BY SshHolds, HandStays
<1> QED
  BY <1>1, <1>2, NothingRecorded, NothingTrusted DEF SshInv, SshStepHolds

(* The table of agents changes; one of them is to be attempted, or none is. *)
LEMMA AgentsNamed ==
    ASSUME NamesKnown, NEW r \in Requests, NEW a \in Peers,
           known \in [Peers -> HostNames],
           UNCHANGED <<sshState, known>>,
           \A b \in Peers \ {a} : peers'[b] = peers[b],
           peers'[a] # NoPeer => peers'[a].name = known[a] /\ peers'[a].ip \in Addresses,
           \A q \in Requests \ {r} : req'[q] = req[q],
           \/ req' = req
           \/ req'[r].pc \notin Lookers \cup Attempts \cup {"settle"}
           \/ /\ req'[r].pc \in Attempts
              /\ req'[r].peer = a /\ req'[r].name = known[a]
              /\ \E i \in Addresses : req'[r].ips = {i}
    PROVE  NamesKnown'
<1>1. /\ \A b \in Peers :
            peers'[b] # NoPeer => peers'[b].name = known[b] /\ peers'[b].ip \in Addresses
  BY DEF NamesKnown
<1>2. \A b \in Peers :
         sshState'[b].name # Null => sshState'[b].name = known'[b] /\ sshState'[b].ip \in Addresses
  BY DEF NamesKnown
<1>3. ASSUME NEW q \in Requests
      PROVE  /\ req'[q].pc \in Lookers =>
                   req'[q].name \in HostNames /\ \E i \in Addresses : req'[q].ips = {i}
             /\ req'[q].pc \in Attempts =>
                   /\ req'[q].peer \in Peers /\ req'[q].name = known'[req'[q].peer]
                   /\ \E i \in Addresses : req'[q].ips = {i}
             /\ req'[q].pc = "settle" => req'[q].peer \in Peers
  <2>1. CASE req'[q] = req[q]
    BY <2>1 DEF NamesKnown, Lookers, Attempts
  <2>2. CASE q = r /\ req'[r].pc \notin Lookers \cup Attempts \cup {"settle"}
    BY <2>2
  <2>3. CASE /\ q = r /\ req'[r].pc \in Attempts
             /\ req'[r].peer = a /\ req'[r].name = known[a]
             /\ \E i \in Addresses : req'[r].ips = {i}
    BY <2>3 DEF Lookers, Attempts
  <2> QED
    BY <2>1, <2>2, <2>3
<1> QED
  BY <1>1, <1>2, <1>3 DEF NamesKnown, Lookers, Attempts

LEMMA PeerTypes ==
    ASSUME NEW a \in Peers, peers \in [Peers -> PeerRecs]
    PROVE  /\ NoPeer \in PeerRecs /\ peers[a] \in PeerRecs
           /\ \A p \in PeerRecs :
                 peers' = [peers EXCEPT ![a] = p] =>
                    /\ peers' \in [Peers -> PeerRecs] /\ peers'[a] = p
                    /\ \A b \in Peers \ {a} : peers'[b] = peers[b]
  BY DEF NoPeer, PeerRecs

LEMMA PeerEnrollsSafe ==
    ASSUME SshInv, NEW r \in Requests, NEW a \in Peers, NEW ip \in Addresses,
           PeerEnrolls(r, a, ip)
    PROVE  SshStepHolds
<1>1. /\ SshTypeOK /\ NamesKnown /\ OperatorIsDuring /\ req \in [Requests -> Handles]
      /\ known \in [Peers -> HostNames] /\ peers \in [Peers -> PeerRecs]
  BY SshHolds, SshTypes
<1> DEFINE h == [Rested EXCEPT !.pc = "queue", !.peer = a, !.name = known[a], !.ips = {ip}]
           p == [name |-> known[a], ip |-> ip]
<1>2. /\ req[r].pc = "idle" /\ Moved /\ To(r, h) /\ peers' = [peers EXCEPT ![a] = p]
      /\ UNCHANGED <<hosts, pins, shows, known, sshState, sshTask, forgotten, trusted, crossed>>
  BY DEF PeerEnrolls, shadow, trust
<1>3. h \in Handles /\ h.pc = "queue" /\ h.peer = a /\ h.name = known[a] /\ h.ips = {ip}
  <2>1. known[a] \in HostNames
    BY <1>1
  <2> QED
    BY <2>1 DEF Rested, Handles, NoPins, Pins
<1>4. p \in PeerRecs /\ p.name = known[a] /\ p.ip = ip
  BY <1>1 DEF PeerRecs
<1> HIDE DEF h, p
<1>5. /\ req' \in [Requests -> Handles] /\ req'[r] = h
      /\ \A q \in Requests \ {r} : req'[q] = req[q]
  BY <1>1, <1>2, <1>3, RequestMoves
<1>6. /\ peers' \in [Peers -> PeerRecs] /\ peers'[a] = p
      /\ \A b \in Peers \ {a} : peers'[b] = peers[b]
  BY <1>1, <1>2, <1>4, PeerTypes
<1>7. SshTypeOK'
  <2>1. requests' \in 0..MaxRequests /\ moves' \in 0..MaxMoves
    BY <1>1, <1>2, SshCounts, SshTypes
  <2> QED
    BY <1>1, <1>2, <1>5, <1>6, <2>1, SshTypes, SshTypesNext
<1>8. NamesKnown'
  BY <1>1, <1>2, <1>3, <1>4, <1>5, <1>6, AgentsNamed DEF Attempts
<1>9. OperatorIsDuring'
  BY <1>1, <1>2, <1>3, <1>5, DuringStays
<1> QED
  BY <1>2, <1>3, <1>5, <1>7, <1>8, <1>9, AgentStep DEF InHand, Lookers

LEMMA SshHeartbeatSafe ==
    ASSUME SshInv, NEW r \in Requests, NEW a \in Peers, NEW ip \in Addresses,
           Heartbeat(r, a, ip)
    PROVE  SshStepHolds
<1>1. /\ SshTypeOK /\ NamesKnown /\ OperatorIsDuring /\ req \in [Requests -> Handles]
      /\ known \in [Peers -> HostNames] /\ peers \in [Peers -> PeerRecs]
  BY SshHolds, SshTypes
<1> DEFINE h == [Rested EXCEPT !.pc = "queue", !.peer = a, !.name = peers[a].name, !.ips = {ip}]
           p == [peers[a] EXCEPT !.ip = ip]
<1>2. /\ req[r].pc = "idle" /\ peers[a] # NoPeer /\ (Moved \/ UNCHANGED bounds)
      /\ To(r, h) \/ UNCHANGED req
      /\ peers' = [peers EXCEPT ![a] = p]
      /\ UNCHANGED <<hosts, pins, shows, known, sshState, sshTask, forgotten, trusted, crossed>>
  BY DEF Heartbeat, shadow, trust
<1>n. peers[a].name = known[a]
  BY <1>1, <1>2 DEF NamesKnown
<1>3. h \in Handles /\ h.pc = "queue" /\ h.peer = a /\ h.name = known[a] /\ h.ips = {ip}
  <2>1. known[a] \in HostNames
    BY <1>1
  <2> QED
    BY <1>n, <2>1 DEF Rested, Handles, NoPins, Pins
<1>4. p \in PeerRecs /\ p.name = known[a] /\ p.ip = ip
  BY <1>1, <1>n DEF PeerRecs
<1> HIDE DEF h, p
<1>5. /\ req' \in [Requests -> Handles] /\ (req'[r] = h \/ req' = req)
      /\ \A q \in Requests \ {r} : req'[q] = req[q]
  BY <1>1, <1>2, <1>3, RequestMoves
<1>6. /\ peers' \in [Peers -> PeerRecs] /\ peers'[a] = p
      /\ \A b \in Peers \ {a} : peers'[b] = peers[b]
  BY <1>1, <1>2, <1>4, PeerTypes
<1>7. SshTypeOK'
  <2>1. requests' \in 0..MaxRequests /\ moves' \in 0..MaxMoves
    BY <1>1, <1>2, SshCounts, SshTypes
  <2> QED
    BY <1>1, <1>2, <1>5, <1>6, <2>1, SshTypes, SshTypesNext
<1>8. NamesKnown'
  BY <1>1, <1>2, <1>3, <1>4, <1>5, <1>6, AgentsNamed DEF Attempts
<1>9. OperatorIsDuring'
  BY <1>1, <1>2, <1>3, <1>5, DuringStays
<1> QED
  BY <1>2, <1>3, <1>5, <1>7, <1>8, <1>9, AgentStep DEF InHand, Lookers

LEMMA DeletePeerSafe ==
    ASSUME SshInv, NEW r \in Requests, NEW a \in Peers, DeletePeer(r, a)
    PROVE  SshStepHolds
<1>1. /\ SshTypeOK /\ NamesKnown /\ OperatorIsDuring /\ req \in [Requests -> Handles]
      /\ known \in [Peers -> HostNames] /\ peers \in [Peers -> PeerRecs]
      /\ sshTask \in [Peers -> {"none", "queued", "done", "lost"}]
  BY SshHolds, SshTypes
<1> DEFINE h == [Rested EXCEPT !.pc = "drop", !.name = peers[a].name, !.ips = {peers[a].ip}]
<1>2. /\ req[r].pc = "idle" /\ peers[a] # NoPeer
      /\ To(r, h) /\ peers' = [peers EXCEPT ![a] = NoPeer]
      /\ sshTask' = [sshTask EXCEPT ![a] = IF @ = "queued" THEN "lost" ELSE @]
      /\ UNCHANGED <<hosts, pins, shows, known, sshState, forgotten, trusted, crossed,
                     requests, moves>>
  BY DEF DeletePeer, trust, bounds
<1>3. h \in Handles /\ h.pc = "drop"
  <2>1. peers[a].name \in HostNames /\ peers[a].ip \in Addresses
    BY <1>1, <1>2 DEF NamesKnown
  <2> QED
    BY <2>1 DEF Rested, Handles, NoPins, Pins
<1> HIDE DEF h
<1>5. /\ req' \in [Requests -> Handles] /\ req'[r] = h
      /\ \A q \in Requests \ {r} : req'[q] = req[q]
  BY <1>1, <1>2, <1>3, RequestMoves
<1>6. /\ peers' \in [Peers -> PeerRecs] /\ peers'[a] = NoPeer
      /\ \A b \in Peers \ {a} : peers'[b] = peers[b]
  BY <1>1, <1>2, PeerTypes
<1>t. /\ sshTask' \in [Peers -> {"none", "queued", "done", "lost"}]
      /\ \A b \in Peers : sshTask'[b] = "queued" => sshTask[b] = "queued"
  BY <1>1, <1>2
<1>7. SshTypeOK'
  BY <1>1, <1>2, <1>5, <1>6, <1>t, SshTypes, SshTypesNext
<1>8. NamesKnown'
  BY <1>1, <1>2, <1>3, <1>5, <1>6, AgentsNamed DEF Lookers, Attempts
<1>9. OperatorIsDuring'
  BY <1>1, <1>2, <1>3, <1>5, <1>t, DuringStays
<1> QED
  BY <1>2, <1>3, <1>5, <1>7, <1>8, <1>9, AgentStep DEF InHand, Lookers

(* The state of one agent's attempt is written.                             *)
LEMMA StateMoves ==
    ASSUME NEW a \in Peers, NEW s \in StateRecs, sshState \in [Peers -> StateRecs],
           sshState' = [sshState EXCEPT ![a] = s]
    PROVE  /\ sshState' \in [Peers -> StateRecs] /\ sshState'[a] = s
           /\ \A b \in Peers \ {a} : sshState'[b] = sshState[b]
  OBVIOUS

LEMMA StatesNamed ==
    ASSUME NamesKnown, NEW r \in Requests, NEW a \in Peers, UNCHANGED <<peers, known>>,
           \A b \in Peers \ {a} : sshState'[b] = sshState[b],
           sshState'[a].name # Null =>
              sshState'[a].name = known[a] /\ sshState'[a].ip \in Addresses,
           \A q \in Requests \ {r} : req'[q] = req[q],
           req'[r].pc \notin Lookers \cup Attempts \cup {"settle"}
    PROVE  NamesKnown'
<1>1. \A b \in Peers :
         sshState'[b].name # Null => sshState'[b].name = known[b] /\ sshState'[b].ip \in Addresses
  BY DEF NamesKnown
<1>2. \A q \in Requests : req'[q] = req[q] \/ req'[q].pc \notin Lookers \cup Attempts \cup {"settle"}
  OBVIOUS
<1> QED
  BY <1>1, <1>2 DEF NamesKnown, Lookers, Attempts

LEMMA AttemptSafe ==
    ASSUME SshInv, NEW r \in Requests, Attempt(r)
    PROVE  SshStepHolds
<1>1. /\ SshTypeOK /\ NamesKnown /\ OperatorIsDuring /\ req \in [Requests -> Handles]
      /\ known \in [Peers -> HostNames] /\ sshState \in [Peers -> StateRecs]
      /\ sshTask \in [Peers -> {"none", "queued", "done", "lost"}]
  BY SshHolds, SshTypes
<1>2. /\ req[r].pc = "queue"
      /\ UNCHANGED <<hosts, pins, shows, known, peers, forgotten, trusted, crossed,
                     requests, moves>>
  BY DEF Attempt, world, trust, bounds
<1> DEFINE a == req[r].peer
<1>3. a \in Peers /\ req[r].name = known[a]
  BY <1>1, <1>2 DEF NamesKnown
<1>4. CASE hosts[req[r].name] # NoRec
  <2> DEFINE s == [Settled EXCEPT !.status = "enabled"]
  <2>1. sshState' = [sshState EXCEPT ![a] = s] /\ Over(r) /\ UNCHANGED sshTask
    BY <1>4 DEF Attempt, Settle
  <2>2. s \in StateRecs /\ s.name = Null
    BY DEF Settled, StateRecs
  <2> HIDE DEF s
  <2>3. /\ sshState' \in [Peers -> StateRecs] /\ sshState'[a] = s
        /\ \A b \in Peers \ {a} : sshState'[b] = sshState[b]
    BY <1>1, <1>3, <2>1, <2>2, StateMoves
  <2>4. /\ req' \in [Requests -> Handles] /\ req'[r] = Rested
        /\ \A q \in Requests \ {r} : req'[q] = req[q]
    BY <1>1, <2>1, RequestMoves
  <2>5. SshTypeOK'
    BY <1>1, <1>2, <2>1, <2>3, <2>4, SshTypes, SshTypesNext
  <2>6. NamesKnown'
    BY <1>1, <1>2, <1>3, <2>2, <2>3, <2>4, StatesNamed, RestedFields DEF Lookers, Attempts
  <2>7. OperatorIsDuring'
    BY <1>1, <1>2, <2>1, <2>4, DuringStays, RestedFields
  <2> QED
    BY <1>2, <2>4, <2>5, <2>6, <2>7, AgentStep, RestedFields DEF InHand, Lookers
<1>5. CASE hosts[req[r].name] = NoRec
  <2>1. /\ sshTask' = [sshTask EXCEPT ![a] = IF peers[a] = NoPeer THEN "lost" ELSE "queued"]
        /\ Goes(r, "pending") /\ UNCHANGED sshState
    BY <1>5 DEF Attempt
  <2>2. /\ req' \in [Requests -> Handles]
        /\ req'[r].pc = "pending" /\ req'[r].peer = req[r].peer
        /\ req'[r].name = req[r].name /\ req'[r].ips = req[r].ips
        /\ \A q \in Requests \ {r} : req'[q] = req[q]
    BY <1>1, <2>1, RequestMoves
  <2>3. /\ sshTask' \in [Peers -> {"none", "queued", "done", "lost"}]
        /\ \A b \in Peers \ {a} : sshTask'[b] = sshTask[b]
    BY <1>1, <1>3, <2>1
  <2>4. SshTypeOK'
    BY <1>1, <1>2, <2>1, <2>2, <2>3, SshTypes, SshTypesNext
  <2>5. NamesKnown'
    BY <1>1, <1>2, <2>1, <2>2, NamesStay DEF Lookers, Attempts
  <2>6. OperatorIsDuring'
    <3> SUFFICES ASSUME NEW b \in Peers,
                        \/ sshTask'[b] = "queued"
                        \/ \E q \in Requests : req'[q].pc = "register" /\ req'[q].peer = b,
                        hosts'[known'[b]].by = "operator"
                 PROVE  hosts'[known'[b]].during
      BY DEF OperatorIsDuring
    <3>1. NoRec.by # "operator"
      BY DEF NoRec, Rec
    <3>2. b # a
      BY <1>2, <1>3, <1>5, <3>1
    <3>3. \/ sshTask[b] = "queued"
          \/ \E q \in Requests : req[q].pc = "register" /\ req[q].peer = b
      BY <2>2, <2>3, <3>2
    <3> QED
      BY <1>1, <1>2, <3>3 DEF OperatorIsDuring
  <2> QED
    BY <1>2, <2>2, <2>4, <2>5, <2>6, AgentStep DEF InHand, Lookers
<1> QED
  BY <1>4, <1>5

LEMMA PendingSafe ==
    ASSUME SshInv, NEW r \in Requests, Pending(r)
    PROVE  SshStepHolds
<1>1. /\ SshTypeOK /\ NamesKnown /\ OperatorIsDuring /\ req \in [Requests -> Handles]
      /\ known \in [Peers -> HostNames] /\ sshState \in [Peers -> StateRecs]
  BY SshHolds, SshTypes
<1> DEFINE a == req[r].peer
           s == [status |-> "pending", name |-> req[r].name, ip |-> Ip(r)]
<1>2. /\ req[r].pc = "pending" /\ Over(r) /\ sshState' = [sshState EXCEPT ![a] = s]
      /\ UNCHANGED <<hosts, pins, shows, known, peers, sshTask, forgotten, trusted, crossed,
                     requests, moves>>
  BY DEF Pending, world, trust, bounds
<1>3. a \in Peers /\ req[r].name = known[a] /\ Ip(r) \in Addresses
  BY <1>1, <1>2, OneAddress DEF NamesKnown, Attempts
<1>4. s \in StateRecs /\ s.name = known[a] /\ s.ip \in Addresses
  BY <1>1, <1>3 DEF StateRecs
<1> HIDE DEF s
<1>5. /\ sshState' \in [Peers -> StateRecs] /\ sshState'[a] = s
      /\ \A b \in Peers \ {a} : sshState'[b] = sshState[b]
  BY <1>1, <1>2, <1>3, <1>4, StateMoves
<1>6. /\ req' \in [Requests -> Handles] /\ req'[r] = Rested
      /\ \A q \in Requests \ {r} : req'[q] = req[q]
  BY <1>1, <1>2, RequestMoves
<1>7. SshTypeOK'
  BY <1>1, <1>2, <1>5, <1>6, SshTypes, SshTypesNext
<1>8. NamesKnown'
  BY <1>1, <1>2, <1>3, <1>4, <1>5, <1>6, StatesNamed, RestedFields DEF Lookers, Attempts
<1>9. OperatorIsDuring'
  BY <1>1, <1>2, <1>6, DuringStays, RestedFields
<1> QED
  BY <1>2, <1>6, <1>7, <1>8, <1>9, AgentStep, RestedFields DEF InHand, Lookers

LEMMA SettleStateSafe ==
    ASSUME SshInv, NEW r \in Requests, SettleState(r)
    PROVE  SshStepHolds
<1>1. /\ SshTypeOK /\ NamesKnown /\ OperatorIsDuring /\ req \in [Requests -> Handles]
      /\ known \in [Peers -> HostNames] /\ sshState \in [Peers -> StateRecs]
      /\ req[r] \in Handles
  BY SshHolds, SshTypes
<1> DEFINE a == req[r].peer
           s == [Settled EXCEPT !.status = req[r].status]
<1>2. /\ req[r].pc = "settle" /\ Over(r) /\ sshState' = [sshState EXCEPT ![a] = s]
      /\ UNCHANGED <<hosts, pins, shows, known, peers, sshTask, forgotten, trusted, crossed,
                     requests, moves>>
  BY DEF SettleState, Settle, world, trust, bounds
<1>3. a \in Peers
  BY <1>1, <1>2 DEF NamesKnown
<1>4. s \in StateRecs /\ s.name = Null
  BY <1>1 DEF Settled, StateRecs, Handles
<1> HIDE DEF s
<1>5. /\ sshState' \in [Peers -> StateRecs] /\ sshState'[a] = s
      /\ \A b \in Peers \ {a} : sshState'[b] = sshState[b]
  BY <1>1, <1>2, <1>3, <1>4, StateMoves
<1>6. /\ req' \in [Requests -> Handles] /\ req'[r] = Rested
      /\ \A q \in Requests \ {r} : req'[q] = req[q]
  BY <1>1, <1>2, RequestMoves
<1>7. SshTypeOK'
  BY <1>1, <1>2, <1>5, <1>6, SshTypes, SshTypesNext
<1>8. NamesKnown'
  BY <1>1, <1>2, <1>3, <1>4, <1>5, <1>6, StatesNamed, RestedFields DEF Lookers, Attempts
<1>9. OperatorIsDuring'
  BY <1>1, <1>2, <1>6, DuringStays, RestedFields
<1> QED
  BY <1>2, <1>6, <1>7, <1>8, <1>9, AgentStep, RestedFields DEF InHand, Lookers

LEMMA AnswerSafe ==
    ASSUME SshInv, NEW r \in Requests, NEW a \in Peers, NEW on \in BOOLEAN, Answer(r, a, on)
    PROVE  SshStepHolds
<1>1. /\ SshTypeOK /\ NamesKnown /\ OperatorIsDuring /\ req \in [Requests -> Handles]
      /\ known \in [Peers -> HostNames] /\ sshState \in [Peers -> StateRecs]
      /\ peers \in [Peers -> PeerRecs]
      /\ sshTask \in [Peers -> {"none", "queued", "done", "lost"}]
  BY SshHolds, SshTypes
<1> DEFINE who == IF sshState[a].name # Null
                  THEN [name |-> sshState[a].name, ip |-> sshState[a].ip] ELSE peers[a]
           up(n, i) == [Rested EXCEPT !.pc = "register", !.peer = a, !.name = n, !.ips = {i}]
           settle(s) == [Rested EXCEPT !.pc = "settle", !.peer = a, !.status = s]
<1>2. /\ req[r].pc = "idle" /\ sshTask[a] = "queued"
      /\ sshTask' = [sshTask EXCEPT ![a] = "done"]
      /\ \/ who # NoPeer /\ To(r, up(who.name, who.ip))
         \/ \E s \in {"error", "missing"} : To(r, settle(s))
      /\ UNCHANGED <<hosts, pins, shows, known, peers, sshState, forgotten, trusted, crossed,
                     requests, moves>>
  BY DEF Answer, world, trust, bounds
<1>3. who # NoPeer => who.name = known[a] /\ who.ip \in Addresses
  BY <1>1 DEF NamesKnown
<1>4. \A i \in Addresses :
         LET h == up(known[a], i) IN
         h \in Handles /\ h.pc = "register" /\ h.peer = a /\ h.name = known[a] /\ h.ips = {i}
  BY <1>1 DEF Rested, Handles, NoPins, Pins
<1>5. \A s \in {"error", "missing"} :
         settle(s) \in Handles /\ settle(s).pc = "settle" /\ settle(s).peer = a
  BY DEF Rested, Handles, NoPins, Pins
<1> HIDE DEF who, up, settle
<1>6. /\ req' \in [Requests -> Handles]
      /\ req'[r].peer = a
      /\ \/ /\ req'[r].pc = "register" /\ req'[r].name = known[a]
            /\ \E i \in Addresses : req'[r].ips = {i}
         \/ req'[r].pc = "settle"
      /\ \A q \in Requests \ {r} : req'[q] = req[q]
  <2>1. CASE who # NoPeer /\ To(r, up(who.name, who.ip))
    BY <1>1, <1>3, <1>4, <2>1, RequestMoves
  <2>2. CASE \E s \in {"error", "missing"} : To(r, settle(s))
    BY <1>1, <1>5, <2>2, RequestMoves
  <2> QED
    BY <1>2, <2>1, <2>2
<1>7. /\ sshTask' \in [Peers -> {"none", "queued", "done", "lost"}]
      /\ \A b \in Peers : sshTask'[b] = "queued" => sshTask[b] = "queued"
  BY <1>1, <1>2
<1>8. SshTypeOK'
  BY <1>1, <1>2, <1>6, <1>7, SshTypes, SshTypesNext
<1>9. NamesKnown'
  <2>1. ASSUME NEW q \in Requests
        PROVE  /\ req'[q].pc \in Lookers =>
                     req'[q].name \in HostNames /\ \E i \in Addresses : req'[q].ips = {i}
               /\ req'[q].pc \in Attempts =>
                     /\ req'[q].peer \in Peers /\ req'[q].name = known'[req'[q].peer]
                     /\ \E i \in Addresses : req'[q].ips = {i}
               /\ req'[q].pc = "settle" => req'[q].peer \in Peers
    <3>1. CASE q = r
      BY <1>2, <1>6, <3>1 DEF Lookers, Attempts
    <3>2. CASE q # r
      BY <1>1, <1>2, <1>6, <3>2 DEF NamesKnown, Lookers, Attempts
    <3> QED
      BY <3>1, <3>2
  <2>2. \A b \in Peers :
           /\ peers'[b] # NoPeer => peers'[b].name = known'[b] /\ peers'[b].ip \in Addresses
           /\ sshState'[b].name # Null =>
                 sshState'[b].name = known'[b] /\ sshState'[b].ip \in Addresses
    BY <1>1, <1>2 DEF NamesKnown
  <2> QED
    BY <2>1, <2>2 DEF NamesKnown, Lookers, Attempts
<1>10. OperatorIsDuring'
  <2> SUFFICES ASSUME NEW b \in Peers,
                      \/ sshTask'[b] = "queued"
                      \/ \E q \in Requests : req'[q].pc = "register" /\ req'[q].peer = b,
                      hosts'[known'[b]].by = "operator"
               PROVE  hosts'[known'[b]].during
    BY DEF OperatorIsDuring
  <2>1. \/ sshTask[b] = "queued"
        \/ \E q \in Requests : req[q].pc = "register" /\ req[q].peer = b
    BY <1>2, <1>6, <1>7
  <2> QED
    BY <1>1, <1>2, <2>1 DEF OperatorIsDuring
<1> QED
  BY <1>2, <1>6, <1>8, <1>9, <1>10, AgentStep DEF InHand, Lookers

LEMMA RebuildSafe ==
    ASSUME SshInv, NEW ip \in Addresses, Rebuild(ip)
    PROVE  SshStepHolds
<1>1. /\ SshTypeOK /\ NamesKnown /\ LateIsMarked /\ OperatorIsDuring /\ OneInHand /\ PinsAreTrue
      /\ shows \in [Addresses -> HostKeys]
  BY SshHolds, SshTypes
<1>2. /\ Moved /\ \E k \in HostKeys : shows' = [shows EXCEPT ![ip] = k]
      /\ UNCHANGED <<hosts, pins, known, peers, sshState, sshTask, req, forgotten, trusted, crossed>>
  BY DEF Rebuild, shadow, trust
<1>3. SshTypeOK'
  <2>1. requests' \in 0..MaxRequests /\ moves' \in 0..MaxMoves
    BY <1>1, <1>2, SshCounts, SshTypes
  <2>2. shows' \in [Addresses -> HostKeys]
    BY <1>1, <1>2
  <2> QED
    BY <1>1, <1>2, <2>1, <2>2, SshTypes, SshTypesNext
<1>4. NamesKnown' /\ LateIsMarked' /\ OperatorIsDuring'
  BY <1>1, <1>2 DEF NamesKnown, LateIsMarked, OperatorIsDuring
<1>5. OneInHand' /\ PinsAreTrue'
  BY <1>1, <1>2 DEF OneInHand, PinsAreTrue
<1> QED
  BY <1>2, <1>3, <1>4, <1>5, NothingRecorded, NothingTrusted DEF SshInv, SshStepHolds

LEMMA SshStepSafe == SshInv /\ [SshNext]_sshVars => SshStepHolds
<1> SUFFICES ASSUME SshInv, [SshNext]_sshVars PROVE SshStepHolds
  OBVIOUS
<1>1. CASE UNCHANGED sshVars
  <2>1. /\ SshTypeOK /\ NamesKnown /\ LateIsMarked /\ OperatorIsDuring /\ OneInHand /\ PinsAreTrue
    BY SshHolds
  <2>2. SshTypeOK'
    BY <1>1, <2>1 DEF SshTypeOK, sshVars
  <2>3. NamesKnown' /\ LateIsMarked' /\ OperatorIsDuring' /\ OneInHand' /\ PinsAreTrue'
    BY <1>1, <2>1 DEF sshVars, NamesKnown, LateIsMarked, OperatorIsDuring, OneInHand, PinsAreTrue
  <2> QED
    BY <1>1, <2>2, <2>3, NothingRecorded, NothingTrusted DEF SshInv, SshStepHolds, sshVars
<1>2. CASE SshNext
  <2>1. ASSUME NEW r \in Requests, SshStep(r) PROVE SshStepHolds
    BY <2>1, ConnectSafe, FailsSafe, MergeSafe, WriteSafe, RecordSafe, ForgetSafe, AttemptSafe,
       PendingSafe, RegisterSafe, SettleStateSafe, DropSafe DEF SshStep
  <2>2. ASSUME NEW r \in Requests, NEW n \in HostNames, NEW ip \in Addresses,
               NEW pc \in {"connect", "record"}, Enroll(r, n, ip, pc)
        PROVE  SshStepHolds
    BY <2>2, EnrollSafe
  <2>3. ASSUME NEW r \in Requests,
               (\E n \in HostNames : Delete(r, {n})) \/ Delete(r, HostNames)
        PROVE  SshStepHolds
    BY <2>3, DeleteSafe
  <2>4. ASSUME NEW r \in Requests, NEW a \in Peers,
               \/ DeletePeer(r, a)
               \/ \E ip \in Addresses : PeerEnrolls(r, a, ip) \/ Heartbeat(r, a, ip)
               \/ \E on \in BOOLEAN : Answer(r, a, on)
        PROVE  SshStepHolds
    BY <2>4, DeletePeerSafe, PeerEnrollsSafe, SshHeartbeatSafe, AnswerSafe
  <2> QED
    BY <1>2, <2>1, <2>2, <2>3, <2>4, RebuildSafe DEF SshNext
<1> QED
  BY <1>1, <1>2

LEMMA ForgottenFollows == SshInv => SshTypeOK /\ ForgottenIsFree
  BY DEF SshInv, PinsAreTrue, ForgottenIsFree

-----------------------------------------------------------------------------
(* The sessions of the console.                                             *)

(* A session someone holds has a grant that was given; it was asked about   *)
(* no later than it was good; and where its holder may write, its account   *)
(* had no temporary password as long as the grant was good.                 *)
Held(s) ==
    /\ s.user # Nobody => s.grant # 0
    /\ s.grant # 0 =>
          /\ grants[s.grant].user # Nobody
          /\ grants[s.grant].seen <= s.asked
          /\ ~sso /\ ~s.flag =>
                /\ accounts[grants[s.grant].user].calm <= grants[s.grant].seen
                /\ accounts[grants[s.grant].user].must => ~grants[s.grant].live

GrantsAreTrue == \A g \in 1..MaxGrants : grants[g].live => grants[g].seen = 0
CalmIsTrue    == \A u \in People : ~accounts[u].must => accounts[u].calm = 0

(* Nobody is vouched for without a gateway, and work behind the gate has a  *)
(* session.                                                                 *)
WayIn(q) ==
    /\ ~sso => q.ident = NoIdentity
    /\ q.pc = "ensure" => q.ident # NoIdentity
    /\ q.pc = "work" /\ q.kind = "change" => q.session.grant # 0

SessionInv ==
    /\ SessionTypeOK /\ GrantsAreTrue /\ CalmIsTrue /\ Held(cookie)
    /\ \A r \in Tabs : Held(request[r].session) /\ WayIn(request[r])

-----------------------------------------------------------------------------
(* Helpers.                                                                 *)

TabRecs == [pc : {"free", "ensure", "gate", "work", "reply"},
            kind : Kinds, session : Sessions, had : BOOLEAN, ident : Identities]
Grants   == [user : People \cup {Nobody}, role : Powers, live : BOOLEAN, seen : Ages]
Accounts == [role : Powers \cup {"gone"}, must : BOOLEAN, calm : Ages]

LEMMA AgesAreNumbers ==
    /\ Ttl \in Nat /\ Ttl > 0 /\ MaxGrants \in Nat
    /\ \A age \in Ages : age \in Nat /\ age <= Ttl /\ Older(age) \in Ages /\ age <= Older(age)
    /\ \A a, b \in Ages : a <= b => Older(a) <= Older(b) /\ a <= Older(b)
    /\ \A age \in Ages : Older(age) \in Nat
    /\ 0 \in Ages /\ Ttl \in Ages
  BY ConsoleBounds DEF Ages, Older

LEMMA SessionTypes ==
  ASSUME SessionTypeOK
  PROVE  /\ sso \in BOOLEAN /\ gateway \in Vouched /\ trouble \in 0..MaxTrouble
         /\ cookie \in Sessions
         /\ accounts \in [People -> Accounts]
         /\ grants \in [1..MaxGrants -> Grants]
         /\ request \in [Tabs -> TabRecs]
  BY DEF SessionTypeOK, TabRecs, Grants, Accounts

LEMMA SessionTypesNext ==
  ASSUME sso' \in BOOLEAN, gateway' \in Vouched, trouble' \in 0..MaxTrouble,
         cookie' \in Sessions,
         accounts' \in [People -> Accounts],
         grants' \in [1..MaxGrants -> Grants],
         request' \in [Tabs -> TabRecs]
  PROVE  SessionTypeOK'
  BY DEF SessionTypeOK, TabRecs, Grants, Accounts

LEMMA SessionFields ==
  ASSUME NEW s \in Sessions
  PROVE  /\ s.user \in People \cup {Nobody} /\ s.grant \in 0..MaxGrants
         /\ s.flag \in BOOLEAN /\ s.asked \in Ages
         /\ s.grant # 0 => s.grant \in 1..MaxGrants
  <1>1. /\ s.user \in People \cup {Nobody} /\ s.grant \in 0..MaxGrants
        /\ s.flag \in BOOLEAN /\ s.asked \in Ages
    BY DEF Sessions
  <1> QED BY <1>1, AgesAreNumbers

LEMMA NothingIsASession == NoSession \in Sessions /\ NoIdentity \in Identities
  BY AgesAreNumbers DEF NoSession, Sessions, NoIdentity, Identities, Powers

LEMMA RequestFields ==
  ASSUME SessionTypeOK, NEW r \in Tabs
  PROVE  /\ request[r].session \in Sessions /\ request[r].kind \in Kinds
         /\ request[r].had \in BOOLEAN /\ request[r].ident \in Identities
         /\ request[r].pc \in {"free", "ensure", "gate", "work", "reply"}
         /\ request[r] \in TabRecs
  BY SessionTypes DEF TabRecs

LEMMA GrantFields ==
  ASSUME SessionTypeOK, NEW g \in 1..MaxGrants
  PROVE  /\ grants[g] \in Grants
         /\ grants[g].user \in People \cup {Nobody} /\ grants[g].role \in Powers
         /\ grants[g].live \in BOOLEAN /\ grants[g].seen \in Ages
  BY SessionTypes DEF Grants

LEMMA AccountFields ==
  ASSUME SessionTypeOK, NEW u \in People
  PROVE  /\ accounts[u] \in Accounts
         /\ accounts[u].role \in Powers \cup {"gone"}
         /\ accounts[u].must \in BOOLEAN /\ accounts[u].calm \in Ages
  BY SessionTypes DEF Accounts

(* The token a login is given is one nobody held.                           *)
LEMMA LowestIsUnused ==
  ASSUME Unused # {}
  PROVE  Lowest(Unused) \in Unused
  <1>1. PICK g \in Unused : \A h \in Unused : <<h, g>> \notin OpToRel(<, Nat)
    <2>1. Unused \subseteq Nat
      BY AgesAreNumbers DEF Unused
    <2> QED BY <2>1, NatLessThanWellFounded, WFMin, Zenon
  <1>2. Unused \subseteq Nat
    BY AgesAreNumbers DEF Unused
  <1>3. \A h \in Unused : ~(h < g)
    BY <1>1, <1>2 DEF OpToRel
  <1>4. \A h \in Unused : g <= h
    BY <1>2, <1>3
  <1> QED BY <1>4 DEF Lowest

LEMMA ProceedsTo ==
  ASSUME SessionTypeOK, NEW r \in Tabs,
         NEW pc \in {"gate", "work", "reply"}, NEW session \in Sessions,
         Proceeds(r, pc, session)
  PROVE  /\ request' \in [Tabs -> TabRecs]
         /\ \A q \in Tabs : q # r => request'[q] = request[q]
         /\ request'[r].pc = pc /\ request'[r].session = session
         /\ request'[r].ident = (IF pc = "gate" THEN request[r].ident ELSE NoIdentity)
         /\ request'[r].kind = (IF pc = "gate" \/ (pc = "work" /\ request[r].kind = "change")
                                THEN request[r].kind ELSE "me")
  <1> DEFINE ident == IF pc = "gate" THEN request[r].ident ELSE NoIdentity
             kind  == IF pc = "gate" \/ (pc = "work" /\ request[r].kind = "change")
                      THEN request[r].kind ELSE "me"
  <1>t. request \in [Tabs -> TabRecs]
    BY SessionTypes
  <1>k. ident \in Identities /\ kind \in Kinds
    BY RequestFields, NothingIsASession DEF Kinds
  <1>p. request' = [request EXCEPT ![r] = [pc |-> pc, session |-> session,
                      had |-> request[r].had, ident |-> ident, kind |-> kind]]
    BY DEF Proceeds
  <1>d. ident = (IF pc = "gate" THEN request[r].ident ELSE NoIdentity)
    OBVIOUS
  <1>e. kind = (IF pc = "gate" \/ (pc = "work" /\ request[r].kind = "change")
                THEN request[r].kind ELSE "me")
    OBVIOUS
  <1> HIDE DEF ident, kind
  <1>1. request' \in [Tabs -> TabRecs]
    BY <1>t, <1>k, <1>p, RequestFields DEF TabRecs
  <1>2. /\ request'[r].pc = pc /\ request'[r].session = session
        /\ request'[r].ident = ident /\ request'[r].kind = kind
    BY <1>t, <1>k, <1>p DEF TabRecs
  <1>3. \A q \in Tabs : q # r => request'[q] = request[q]
    BY <1>t, <1>p
  <1> QED BY <1>1, <1>2, <1>3, <1>d, <1>e

-----------------------------------------------------------------------------
(* How each step keeps what is held.                                        *)

(* Held, of a session after the step.                                       *)
HeldNext(s) ==
    /\ s.user # Nobody => s.grant # 0
    /\ s.grant # 0 =>
          /\ grants'[s.grant].user # Nobody
          /\ grants'[s.grant].seen <= s.asked
          /\ ~sso' /\ ~s.flag =>
                /\ accounts'[grants'[s.grant].user].calm <= grants'[s.grant].seen
                /\ accounts'[grants'[s.grant].user].must => ~grants'[s.grant].live

(* A token that was given keeps its holder and its age and never comes      *)
(* alive again; an account keeps a password of its own choice, or loses     *)
(* every token.                                                             *)
Carries ==
    /\ sso' = sso
    /\ \A g \in 1..MaxGrants : grants[g].user # Nobody =>
          /\ grants'[g].user = grants[g].user /\ grants'[g].seen = grants[g].seen
          /\ grants'[g].live => grants[g].live
    /\ \A u \in People :
          /\ accounts'[u].calm <= accounts[u].calm
          /\ accounts'[u].must => \/ accounts[u].must
                                  \/ \A g \in 1..MaxGrants : grants[g].user = u => ~grants'[g].live

LEMMA HeldCarries ==
  ASSUME SessionTypeOK, Carries, NEW s \in Sessions, Held(s),
         \A u \in People : accounts'[u].calm \in Ages
  PROVE  HeldNext(s)
  <1>s. s.grant # 0 => s.grant \in 1..MaxGrants
    BY SessionFields
  <1>1. CASE s.grant = 0
    BY <1>1 DEF Held, HeldNext
  <1>2. CASE s.grant # 0
    <2> DEFINE g == s.grant
               u == grants[g].user
    <2>1. g \in 1..MaxGrants /\ u # Nobody
      BY <1>2, <1>s DEF Held
    <2>2. u \in People /\ grants[g].seen \in Nat /\ accounts[u].calm \in Nat
      BY <2>1, GrantFields, AccountFields, AgesAreNumbers
    <2>3. /\ grants'[g].user = u /\ grants'[g].seen = grants[g].seen
          /\ grants'[g].live => grants[g].live
      BY <2>1 DEF Carries
    <2>4. /\ accounts'[u].calm <= accounts[u].calm /\ accounts'[u].calm \in Nat
          /\ accounts'[u].must => accounts[u].must \/ ~grants'[g].live
      BY <2>1, <2>2, AgesAreNumbers DEF Carries
    <2>5. /\ grants[g].seen <= s.asked
          /\ ~sso /\ ~s.flag => /\ accounts[u].calm <= grants[g].seen
                                /\ accounts[u].must => ~grants[g].live
      BY <1>2 DEF Held
    <2>6. sso' = sso
      BY DEF Carries
    <2> HIDE DEF g
    <2>7. ~sso' /\ ~s.flag => /\ accounts'[u].calm <= grants'[g].seen
                              /\ accounts'[u].must => ~grants'[g].live
      BY <2>2, <2>3, <2>4, <2>5, <2>6
    <2>8. s.user # Nobody => s.grant # 0
      BY DEF Held
    <2> QED BY <2>1, <2>3, <2>5, <2>7, <2>8 DEF HeldNext, g
  <1> QED BY <1>1, <1>2

LEMMA NothingIsHeld == HeldNext(NoSession)
  BY DEF HeldNext, NoSession

(* What a step that keeps what is held establishes.                         *)
LEMMA InvNext ==
  ASSUME SessionTypeOK', GrantsAreTrue', CalmIsTrue', HeldNext(cookie'),
         \A r \in Tabs : HeldNext(request'[r].session) /\ WayIn(request[r])'
  PROVE  SessionInv'
  <1>1. Held(cookie)'
    BY DEF Held, HeldNext
  <1>2. \A r \in Tabs : Held(request[r].session)'
    BY DEF Held, HeldNext
  <1> QED BY <1>1, <1>2 DEF SessionInv

(* Steps that change neither an account nor a token.                        *)
LEMMA NothingMoves ==
  ASSUME SessionInv, UNCHANGED <<sso, accounts, grants>>
  PROVE  /\ \A s \in Sessions : Held(s) => HeldNext(s)
         /\ GrantsAreTrue' /\ CalmIsTrue'
         /\ sso' \in BOOLEAN
         /\ grants' \in [1..MaxGrants -> Grants] /\ accounts' \in [People -> Accounts]
  <1>1. \A s \in Sessions : Held(s) => HeldNext(s)
    BY DEF Held, HeldNext
  <1>2. GrantsAreTrue' /\ CalmIsTrue'
    BY DEF GrantsAreTrue, CalmIsTrue, SessionInv
  <1>3. /\ sso' \in BOOLEAN
        /\ grants' \in [1..MaxGrants -> Grants] /\ accounts' \in [People -> Accounts]
    BY SessionTypes DEF SessionInv
  <1> QED BY <1>1, <1>2, <1>3

(* What a request's own step leaves of the others.                          *)
LEMMA OthersKeep ==
  ASSUME SessionInv, NEW r \in Tabs, sso' = sso,
         \A s \in Sessions : Held(s) => HeldNext(s),
         \A q \in Tabs : q # r => request'[q] = request[q],
         HeldNext(request'[r].session), WayIn(request[r])'
  PROVE  \A q \in Tabs : HeldNext(request'[q].session) /\ WayIn(request[q])'
  <1>1. ASSUME NEW q \in Tabs, q # r
        PROVE  HeldNext(request'[q].session) /\ WayIn(request[q])'
    <2>1. Held(request[q].session) /\ WayIn(request[q]) /\ request[q].session \in Sessions
      BY RequestFields DEF SessionInv
    <2>2. request'[q] = request[q]
      BY <1>1
    <2> QED BY <2>1, <2>2 DEF WayIn
  <1> QED BY <1>1

(* A request that goes on, nothing else moving.                             *)
LEMMA GoesOn ==
  ASSUME SessionInv, NEW r \in Tabs,
         NEW pc \in {"gate", "work", "reply"}, NEW session \in Sessions, Held(session),
         Proceeds(r, pc, session),
         pc = "work" /\ request[r].kind = "change" => session.grant # 0,
         UNCHANGED <<sso, gateway, accounts, grants, cookie>>,
         trouble' \in 0..MaxTrouble
  PROVE  SessionInv'
  <1>t. SessionTypeOK
    BY DEF SessionInv
  <1>p. /\ request' \in [Tabs -> TabRecs]
        /\ \A q \in Tabs : q # r => request'[q] = request[q]
        /\ request'[r].pc = pc /\ request'[r].session = session
        /\ request'[r].ident = (IF pc = "gate" THEN request[r].ident ELSE NoIdentity)
        /\ request'[r].kind = (IF pc = "gate" \/ (pc = "work" /\ request[r].kind = "change")
                               THEN request[r].kind ELSE "me")
    BY <1>t, ProceedsTo
  <1>n. /\ \A s \in Sessions : Held(s) => HeldNext(s)
        /\ GrantsAreTrue' /\ CalmIsTrue' /\ sso' \in BOOLEAN
        /\ grants' \in [1..MaxGrants -> Grants] /\ accounts' \in [People -> Accounts]
    BY NothingMoves
  <1>1. SessionTypeOK'
    <2>1. cookie' \in Sessions /\ gateway' \in Vouched
      BY <1>t, SessionTypes
    <2> QED BY <1>p, <1>n, <2>1, SessionTypesNext
  <1>2. HeldNext(cookie')
    <2>1. cookie \in Sessions /\ Held(cookie) /\ cookie' = cookie
      BY <1>t, SessionTypes DEF SessionInv
    <2> QED BY <1>n, <2>1
  <1>3. HeldNext(request'[r].session)
    BY <1>n, <1>p
  <1>4. WayIn(request[r])'
    <2>1. ~sso => request[r].ident = NoIdentity
      BY DEF SessionInv, WayIn
    <2>2. ~sso' => request'[r].ident = NoIdentity
      BY <1>p, <2>1
    <2>3. request'[r].pc # "ensure"
      BY <1>p
    <2>4. request'[r].pc = "work" /\ request'[r].kind = "change" => request'[r].session.grant # 0
      BY <1>p
    <2> QED BY <2>2, <2>3, <2>4 DEF WayIn
  <1>5. \A q \in Tabs : HeldNext(request'[q].session) /\ WayIn(request[q])'
    <2>1. sso' = sso /\ \A q \in Tabs : q # r => request'[q] = request[q]
      BY <1>p
    <2>2. \A s \in Sessions : Held(s) => HeldNext(s)
      BY <1>n
    <2> QED BY <1>3, <1>4, <2>1, <2>2, OthersKeep
  <1> QED BY <1>1, <1>n, <1>2, <1>5, InvNext

-----------------------------------------------------------------------------
(* The steps.                                                               *)

LEMMA IdentityKnown ==
  ASSUME NEW v \in Vouched
  PROVE  Identity(v) \in Identities
  <1>1. CASE v = NoIdentity
    <2>1. v.user = Nobody /\ v.role = "auditor"
      BY <1>1 DEF NoIdentity
    <2>2. Identity(v) = NoIdentity
      BY <2>1 DEF Identity, NoIdentity
    <2> QED BY <2>2 DEF Identities
  <1>2. CASE v \in [user : People, role : {"superuser", "unheard of"}]
    <2>1. v.user \in People
      BY <1>2
    <2>2. Identity(v) \in [user : People, role : Powers]
      BY <2>1 DEF Identity, Powers
    <2> QED BY <2>2 DEF Identities
  <1> QED BY <1>1, <1>2 DEF Vouched

LEMMA ArriveKeeps ==
  ASSUME SessionInv, NEW r \in Tabs, NEW kind \in Kinds, NEW ident, Arrive(r, kind, ident)
  PROVE  SessionInv'
  <1>t. SessionTypeOK
    BY DEF SessionInv
  <1>i. ident \in Identities
    BY <1>t, SessionTypes, IdentityKnown, NothingIsASession DEF Arrive
  <1> DEFINE pc  == IF kind \in {"login", "logout"} THEN "work"
                    ELSE IF ident = NoIdentity THEN "gate" ELSE "ensure"
             now == [pc |-> pc, kind |-> kind, session |-> cookie,
                     had |-> (cookie # NoSession), ident |-> ident]
  <1>c. cookie \in Sessions /\ Held(cookie)
    BY <1>t, SessionTypes DEF SessionInv
  <1>p. /\ pc \in {"gate", "work", "ensure"}
        /\ pc = "ensure" => ident # NoIdentity
        /\ pc = "work" => kind # "change"
    OBVIOUS
  <1>1. request' = [request EXCEPT ![r] = now]
    BY DEF Arrive
  <1> HIDE DEF pc
  <1>2. now \in TabRecs
    BY <1>c, <1>i, <1>p DEF TabRecs
  <1>3. now.pc = pc /\ now.kind = kind /\ now.session = cookie /\ now.ident = ident
    OBVIOUS
  <1> HIDE DEF now
  <1>4. /\ request' \in [Tabs -> TabRecs] /\ request'[r] = now
        /\ \A q \in Tabs : q # r => request'[q] = request[q]
    BY <1>1, <1>2, <1>t, SessionTypes
  <1>u. UNCHANGED <<sso, gateway, accounts, grants, cookie, trouble>>
    BY DEF Arrive
  <1>n. /\ \A s \in Sessions : Held(s) => HeldNext(s)
        /\ GrantsAreTrue' /\ CalmIsTrue' /\ sso' \in BOOLEAN
        /\ grants' \in [1..MaxGrants -> Grants] /\ accounts' \in [People -> Accounts]
    BY <1>u, NothingMoves
  <1>5. SessionTypeOK'
    BY <1>t, <1>u, <1>n, <1>4, SessionTypes, SessionTypesNext
  <1>6. HeldNext(cookie') /\ HeldNext(request'[r].session)
    BY <1>c, <1>n, <1>u, <1>3, <1>4
  <1>7. WayIn(request[r])'
    <2>1. ~sso' => ident = NoIdentity
      BY <1>u DEF Arrive
    <2> QED BY <2>1, <1>3, <1>4, <1>p DEF WayIn
  <1>8. \A q \in Tabs : HeldNext(request'[q].session) /\ WayIn(request[q])'
    BY <1>4, <1>6, <1>7, <1>n, <1>u, OthersKeep
  <1> QED BY <1>5, <1>6, <1>8, <1>n, InvNext

LEMMA ReuseKeeps ==
  ASSUME SessionInv, NEW r \in Tabs, Reuse(r) \/ ProvisionFails(r)
  PROVE  SessionInv'
  <1>t. SessionTypeOK
    BY DEF SessionInv
  <1>1. request[r].session \in Sessions /\ Held(request[r].session)
    BY <1>t, RequestFields DEF SessionInv
  <1>2. trouble' \in 0..MaxTrouble
    BY <1>t, SessionTypes, ConsoleBounds DEF Reuse, ProvisionFails, Trouble
  <1>3. /\ Proceeds(r, "gate", request[r].session)
        /\ UNCHANGED <<sso, gateway, accounts, grants, cookie>>
    BY DEF Reuse, ProvisionFails
  <1> QED BY <1>1, <1>2, <1>3, GoesOn

LEMMA HeldForms ==
  ASSUME SessionTypeOK
  PROVE  /\ NoSession \in Sessions /\ Held(NoSession)
         /\ \A s \in Sessions :
               /\ Kept(s) \in Sessions /\ Checked(s) \in Sessions
               /\ Held(s) => Held(Kept(s))
               /\ Checked(s).grant = s.grant /\ Checked(s).flag = s.flag
               /\ Checked(s).user = s.user /\ Checked(s).asked = 0
               /\ Kept(s).grant = s.grant /\ Kept(s).flag = s.flag /\ Kept(s).asked = s.asked
  <1>1. NoSession \in Sessions /\ Held(NoSession)
    BY NothingIsASession DEF Held, NoSession
  <1>2. ASSUME NEW s \in Sessions
        PROVE  /\ Checked(s) \in Sessions
               /\ Checked(s).grant = s.grant /\ Checked(s).flag = s.flag
               /\ Checked(s).user = s.user /\ Checked(s).asked = 0
    <2>1. 0 \in Ages
      BY AgesAreNumbers
    <2> QED BY <2>1 DEF Checked, Sessions
  <1> QED BY <1>1, <1>2 DEF Kept

(* A token found good has been good until now.                              *)
LEMMA CheckedIsHeld ==
  ASSUME SessionInv, NEW s \in Sessions, Held(s), s.user # Nobody, grants[s.grant].live
  PROVE  Held(Checked(s))
  <1>1. s.grant # 0 /\ s.grant \in 1..MaxGrants
    BY SessionFields DEF Held
  <1>2. grants[s.grant].seen = 0
    BY <1>1 DEF SessionInv, GrantsAreTrue
  <1>3. /\ Checked(s).grant = s.grant /\ Checked(s).flag = s.flag
        /\ Checked(s).user = s.user /\ Checked(s).asked = 0
    BY HeldForms DEF SessionInv
  <1> QED BY <1>1, <1>2, <1>3 DEF Held

(* Where the gate leads, and with which session.                            *)
LEMMA GateLeads ==
  ASSUME SessionInv, NEW r \in Tabs, Gate(r)
  PROVE  \E pc \in {"work", "reply"}, s \in Sessions :
            /\ Proceeds(r, pc, s) /\ Held(s)
            /\ trouble' \in 0..MaxTrouble
            /\ pc = "work" =>
                  LET q == request[r]
                  IN  /\ ~NeedsGateway(q) /\ s.grant # 0 /\ Allowed(q, s)
                      /\ s.grant = q.session.grant /\ s.flag = q.session.flag
                      /\ \/ q.kind \in {"me", "probe"} \/ q.session.asked < Ttl
                         \/ grants[s.grant].live
                         \/ s.asked = Ttl /\ q.session.asked = Ttl
  <1> DEFINE q == request[r]
             s == q.session
  <1>t. SessionTypeOK
    BY DEF SessionInv
  <1>s. s \in Sessions /\ Held(s) /\ s.asked \in Ages
    BY <1>t, RequestFields, SessionFields DEF SessionInv
  <1>k. trouble \in 0..MaxTrouble /\ (Trouble => trouble' \in 0..MaxTrouble)
    BY <1>t, SessionTypes, ConsoleBounds DEF Trouble
  <1>f. /\ NoSession \in Sessions /\ Held(NoSession)
        /\ Kept(s) \in Sessions /\ Checked(s) \in Sessions /\ Held(Kept(s))
        /\ Checked(s).grant = s.grant /\ Checked(s).flag = s.flag
        /\ Kept(s).grant = s.grant /\ Kept(s).flag = s.flag /\ Kept(s).asked = s.asked
    BY <1>t, <1>s, HeldForms
  <1> HIDE DEF s
  <1>1. CASE Refuse(r, NoSession)
    BY <1>1, <1>f, <1>k DEF Refuse
  <1>2. CASE Refuse(r, s)
    BY <1>2, <1>s, <1>k DEF Refuse
  <1>g. s.user # Nobody => s.grant # 0
    BY <1>s DEF Held
  <1>3. CASE /\ ~NeedsGateway(q) /\ s.user # Nobody
             /\ q.kind \in {"me", "probe"} \/ s.asked < Ttl
             /\ Onward(r, s) /\ UNCHANGED trouble
    <2>1. CASE Allowed(q, s)
      BY <1>3, <2>1, <1>s, <1>k, <1>g DEF Onward, s
    <2>2. CASE ~Allowed(q, s)
      BY <1>3, <2>2, <1>s, <1>k DEF Onward, s
    <2> QED BY <2>1, <2>2
  <1>4. CASE /\ ~NeedsGateway(q) /\ s.user # Nobody
             /\ grants[s.grant].live /\ Onward(r, Checked(s)) /\ UNCHANGED trouble
    <2>h. Held(Checked(s))
      BY <1>4, <1>s, CheckedIsHeld
    <2>1. CASE Allowed(q, Checked(s))
      BY <1>4, <2>1, <2>h, <1>s, <1>f, <1>k, <1>g DEF Onward, s
    <2>2. CASE ~Allowed(q, Checked(s))
      BY <1>4, <2>2, <2>h, <1>f, <1>k DEF Onward, s
    <2> QED BY <2>1, <2>2
  <1>5. CASE /\ ~NeedsGateway(q) /\ s.user # Nobody /\ ~(s.asked < Ttl)
             /\ Trouble /\ Onward(r, Kept(s))
    <2>r. s.asked \in Nat /\ s.asked <= Ttl /\ Ttl \in Nat
      BY <1>s, AgesAreNumbers
    <2>b. ~(s.asked < Ttl)
      BY <1>5
    <2>a. s.asked = Ttl
      BY <2>r, <2>b
    <2>1. CASE Allowed(q, Kept(s))
      BY <1>5, <2>1, <2>a, <1>s, <1>f, <1>k, <1>g DEF Onward, s
    <2>2. CASE ~Allowed(q, Kept(s))
      BY <1>5, <2>2, <1>f, <1>k DEF Onward, s
    <2> QED BY <2>1, <2>2
  <1> QED BY <1>1, <1>2, <1>3, <1>4, <1>5 DEF Gate, s

LEMMA GateKeeps ==
  ASSUME SessionInv, NEW r \in Tabs, Gate(r)
  PROVE  SessionInv'
  <1>1. PICK pc \in {"work", "reply"}, s \in Sessions :
            /\ Proceeds(r, pc, s) /\ Held(s) /\ trouble' \in 0..MaxTrouble
            /\ pc = "work" => s.grant # 0
    BY GateLeads
  <1>2. UNCHANGED <<sso, gateway, accounts, grants, cookie>>
    BY DEF Gate
  <1> QED BY <1>1, <1>2, GoesOn

(* Tokens dropped, and what a step that only drops them leaves.             *)
LEMMA DroppedForms ==
  ASSUME SessionTypeOK, NEW u
  PROVE  /\ Dropped(grants, u) \in [1..MaxGrants -> Grants]
         /\ \A g \in 1..MaxGrants :
               /\ Dropped(grants, u)[g].user = grants[g].user
               /\ Dropped(grants, u)[g].seen = grants[g].seen
               /\ Dropped(grants, u)[g].role = grants[g].role
               /\ Dropped(grants, u)[g].live => grants[g].live
               /\ grants[g].user = u => ~Dropped(grants, u)[g].live
  <1>1. ASSUME NEW g \in 1..MaxGrants
        PROVE  LET d == IF grants[g].user = u THEN [grants[g] EXCEPT !.live = FALSE]
                        ELSE grants[g]
               IN  /\ d \in Grants /\ d.user = grants[g].user /\ d.seen = grants[g].seen
                   /\ d.role = grants[g].role /\ (d.live => grants[g].live)
                   /\ grants[g].user = u => ~d.live
    <2>1. grants[g] \in Grants
      BY GrantFields
    <2> QED BY <2>1 DEF Grants
  <1> QED BY <1>1 DEF Dropped

LEMMA IssueForms ==
  ASSUME SessionTypeOK, NEW g \in 1..MaxGrants, NEW u \in People, NEW role \in Powers
  PROVE  /\ [user |-> u, role |-> role, live |-> TRUE, seen |-> 0] \in Grants
         /\ Issue(g, u, role) \in [1..MaxGrants -> Grants]
         /\ Issue(g, u, role)[g] = [user |-> u, role |-> role, live |-> TRUE, seen |-> 0]
         /\ \A h \in 1..MaxGrants : h # g => Issue(g, u, role)[h] = grants[h]
  <1>1. [user |-> u, role |-> role, live |-> TRUE, seen |-> 0] \in Grants
    BY AgesAreNumbers DEF Grants
  <1>2. grants \in [1..MaxGrants -> Grants]
    BY SessionTypes
  <1> QED BY <1>1, <1>2 DEF Issue

(* The end of a step of request r that moves accounts and tokens.           *)
LEMMA StepEnds ==
  ASSUME SessionInv, NEW r \in Tabs, Carries,
         NEW pc \in {"gate", "work", "reply"}, NEW session \in Sessions, HeldNext(session),
         Proceeds(r, pc, session),
         pc = "work" => request[r].kind # "change",
         UNCHANGED <<sso, gateway, cookie>>, trouble' \in 0..MaxTrouble,
         grants' \in [1..MaxGrants -> Grants], accounts' \in [People -> Accounts],
         GrantsAreTrue', CalmIsTrue'
  PROVE  SessionInv'
  <1>t. SessionTypeOK
    BY DEF SessionInv
  <1>p. /\ request' \in [Tabs -> TabRecs]
        /\ \A q \in Tabs : q # r => request'[q] = request[q]
        /\ request'[r].pc = pc /\ request'[r].session = session
        /\ request'[r].ident = (IF pc = "gate" THEN request[r].ident ELSE NoIdentity)
        /\ request'[r].kind = (IF pc = "gate" \/ (pc = "work" /\ request[r].kind = "change")
                               THEN request[r].kind ELSE "me")
    BY <1>t, ProceedsTo
  <1>1. SessionTypeOK'
    BY <1>t, <1>p, SessionTypes, SessionTypesNext
  <1>c. \A u \in People : accounts'[u].calm \in Ages
    BY DEF Accounts
  <1>2. \A s \in Sessions : Held(s) => HeldNext(s)
    BY <1>t, <1>c, HeldCarries
  <1>3. HeldNext(cookie')
    <2>1. cookie \in Sessions /\ Held(cookie) /\ cookie' = cookie
      BY <1>t, SessionTypes DEF SessionInv
    <2> QED BY <1>2, <2>1
  <1>4. WayIn(request[r])'
    <2>1. ~sso => request[r].ident = NoIdentity
      BY DEF SessionInv, WayIn
    <2>2. ~sso' => request'[r].ident = NoIdentity
      BY <1>p, <2>1
    <2>3. request'[r].pc # "ensure"
      BY <1>p
    <2>4. ~(request'[r].pc = "work" /\ request'[r].kind = "change")
      BY <1>p
    <2> QED BY <2>2, <2>3, <2>4 DEF WayIn
  <1>5. \A q \in Tabs : HeldNext(request'[q].session) /\ WayIn(request[q])'
    BY <1>p, <1>2, <1>4, OthersKeep
  <1> QED BY <1>1, <1>3, <1>5, InvNext

LEMMA LoginKeeps ==
  ASSUME SessionInv, NEW r \in Tabs, NEW u \in People, Login(r, u)
  PROVE  SessionInv'
  <1> DEFINE g == Lowest(Unused)
             new == NewSession(u, g, accounts[u].must)
  <1>t. SessionTypeOK
    BY DEF SessionInv
  <1>a. accounts[u].role \in Powers /\ accounts[u].must \in BOOLEAN
    BY <1>t, AccountFields DEF Login
  <1>g. g \in 1..MaxGrants /\ grants[g].user = Nobody
    BY LowestIsUnused DEF Login, Unused
  <1>1. /\ grants' = Issue(g, u, accounts[u].role)
        /\ Proceeds(r, "reply", new)
        /\ UNCHANGED <<sso, gateway, accounts, cookie, trouble>> /\ ~sso
    BY DEF Login
  <1>n. new \in Sessions
    <2>1. Ttl \in Ages /\ g \in 0..MaxGrants
      BY <1>g, AgesAreNumbers
    <2> QED BY <1>a, <2>1 DEF NewSession, Sessions
  <1>f. new.user = u /\ new.grant = g /\ new.flag = accounts[u].must /\ new.asked = Ttl
    BY DEF NewSession
  <1> HIDE DEF g, new
  <1>2. /\ grants' \in [1..MaxGrants -> Grants]
        /\ grants'[g] = [user |-> u, role |-> accounts[u].role, live |-> TRUE, seen |-> 0]
        /\ \A h \in 1..MaxGrants : h # g => grants'[h] = grants[h]
    BY <1>t, <1>a, <1>g, <1>1, IssueForms
  <1>3. GrantsAreTrue'
    BY <1>2 DEF GrantsAreTrue, SessionInv
  <1>4. CalmIsTrue' /\ accounts' \in [People -> Accounts]
    BY <1>t, <1>1, SessionTypes DEF CalmIsTrue, SessionInv
  <1>5. Carries
    <2>1. \A h \in 1..MaxGrants : grants[h].user # Nobody => grants'[h] = grants[h]
      BY <1>2, <1>g
    <2>2. \A v \in People : accounts'[v] = accounts[v] /\ accounts[v].calm \in Nat
      BY <1>t, <1>1, AccountFields, AgesAreNumbers
    <2> QED BY <2>1, <2>2, <1>1 DEF Carries
  <1>6. HeldNext(new)
    <2>1. ~accounts[u].must => accounts[u].calm = 0
      BY DEF CalmIsTrue, SessionInv
    <2>2. u # Nobody /\ g # 0 /\ 0 <= Ttl /\ 0 <= 0
      BY <1>g, ConsoleBounds, AgesAreNumbers DEF Nobody
    <2>3. accounts' = accounts /\ ~sso'
      BY <1>1
    <2> QED BY <1>2, <1>f, <2>1, <2>2, <2>3 DEF HeldNext
  <1>7. trouble' \in 0..MaxTrouble
    BY <1>t, <1>1, SessionTypes
  <1> QED BY <1>1, <1>n, <1>2, <1>3, <1>4, <1>5, <1>6, <1>7, StepEnds

LEMMA LogoutKeeps ==
  ASSUME SessionInv, NEW r \in Tabs, Logout(r)
  PROVE  SessionInv'
  <1> DEFINE s == request[r].session
  <1>t. SessionTypeOK
    BY DEF SessionInv
  <1>s. s \in Sessions /\ (s.grant # 0 => s.grant \in 1..MaxGrants)
    BY <1>t, RequestFields, SessionFields
  <1>1. Proceeds(r, "reply", NoSession) /\ UNCHANGED <<sso, gateway, accounts, cookie>>
    BY DEF Logout
  <1>2. trouble' \in 0..MaxTrouble
    BY <1>t, SessionTypes, ConsoleBounds DEF Logout, Trouble
  <1>3. /\ grants' \in [1..MaxGrants -> Grants]
        /\ \A g \in 1..MaxGrants :
              /\ grants'[g].user = grants[g].user /\ grants'[g].seen = grants[g].seen
              /\ grants'[g].live => grants[g].live
    <2>g. grants \in [1..MaxGrants -> Grants]
      BY <1>t, SessionTypes
    <2>1. CASE grants' = grants
      BY <2>g, <2>1
    <2>2. CASE s.grant # 0 /\ grants' = [grants EXCEPT ![s.grant].live = FALSE]
      BY <1>s, <2>g, <2>2 DEF Grants
    <2> QED BY <2>1, <2>2 DEF Logout
  <1>4. GrantsAreTrue'
    BY <1>3 DEF GrantsAreTrue, SessionInv
  <1>5. CalmIsTrue' /\ accounts' \in [People -> Accounts]
    BY <1>t, <1>1, SessionTypes DEF CalmIsTrue, SessionInv
  <1>6. Carries
    <2>2. \A v \in People : accounts'[v] = accounts[v] /\ accounts[v].calm \in Nat
      BY <1>t, <1>1, AccountFields, AgesAreNumbers
    <2> QED BY <2>2, <1>1, <1>3 DEF Carries
  <1>7. NoSession \in Sessions /\ HeldNext(NoSession)
    BY NothingIsASession, NothingIsHeld
  <1> QED BY <1>1, <1>2, <1>3, <1>4, <1>5, <1>6, <1>7, StepEnds

LEMMA ProvisionKeeps ==
  ASSUME SessionInv, NEW r \in Tabs, Provision(r)
  PROVE  SessionInv'
  <1> DEFINE u == request[r].ident.user
             role == request[r].ident.role
             g == Lowest(Unused)
             new == NewSession(u, g, FALSE)
             base == IF accounts[u].role = role THEN grants ELSE Dropped(grants, u)
  <1>t. SessionTypeOK
    BY DEF SessionInv
  <1>i. request[r].ident # NoIdentity /\ sso
    BY DEF SessionInv, WayIn, Provision
  <1>a. u \in People /\ role \in Powers
    BY <1>t, <1>i, RequestFields DEF Identities
  <1>g. g \in 1..MaxGrants /\ grants[g].user = Nobody
    BY LowestIsUnused DEF Provision, Unused
  <1>1. /\ grants' = [base EXCEPT ![g] = Issue(g, u, role)[g]]
        /\ accounts' = [accounts EXCEPT ![u].role = role]
        /\ Proceeds(r, "gate", new)
        /\ UNCHANGED <<sso, gateway, cookie, trouble>>
    BY DEF Provision
  <1>n. new \in Sessions
    <2>1. Ttl \in Ages /\ g \in 0..MaxGrants
      BY <1>g, AgesAreNumbers
    <2> QED BY <1>a, <2>1 DEF NewSession, Sessions
  <1>f. new.user = u /\ new.grant = g /\ new.asked = Ttl
    BY DEF NewSession
  <1>b. /\ base \in [1..MaxGrants -> Grants]
        /\ \A h \in 1..MaxGrants :
              /\ base[h].user = grants[h].user /\ base[h].seen = grants[h].seen
              /\ base[h].live => grants[h].live
    <2>1. CASE base = grants
      BY <1>t, <2>1, SessionTypes
    <2>2. CASE base = Dropped(grants, u)
      BY <1>t, <2>2, DroppedForms
    <2> QED BY <2>1, <2>2
  <1> HIDE DEF g, new, base, u, role
  <1>j. /\ [user |-> u, role |-> role, live |-> TRUE, seen |-> 0] \in Grants
        /\ Issue(g, u, role)[g] = [user |-> u, role |-> role, live |-> TRUE, seen |-> 0]
    BY <1>t, <1>a, <1>g, IssueForms
  <1>2. /\ grants' \in [1..MaxGrants -> Grants]
        /\ grants'[g] = [user |-> u, role |-> role, live |-> TRUE, seen |-> 0]
        /\ \A h \in 1..MaxGrants : h # g => grants'[h] = base[h]
    BY <1>1, <1>b, <1>g, <1>j
  <1>3. GrantsAreTrue'
    <2>1. ASSUME NEW h \in 1..MaxGrants, h # g, grants'[h].live
          PROVE  grants'[h].seen = 0
      <3>1. base[h].live /\ grants'[h] = base[h]
        BY <1>2, <2>1
      <3>2. grants[h].live /\ grants'[h].seen = grants[h].seen
        BY <3>1, <1>b
      <3> QED BY <3>2 DEF SessionInv, GrantsAreTrue
    <2>2. grants'[g].seen = 0
      BY <1>2
    <2> QED BY <2>1, <2>2 DEF GrantsAreTrue
  <1>4. /\ accounts' \in [People -> Accounts]
        /\ \A v \in People : accounts'[v].must = accounts[v].must
                             /\ accounts'[v].calm = accounts[v].calm
    <2>1. accounts \in [People -> Accounts]
      BY <1>t, SessionTypes
    <2> QED BY <1>1, <1>a, <2>1 DEF Accounts
  <1>5. CalmIsTrue'
    BY <1>4 DEF CalmIsTrue, SessionInv
  <1>6. Carries
    <2>1. ASSUME NEW h \in 1..MaxGrants, grants[h].user # Nobody
          PROVE  /\ grants'[h].user = grants[h].user /\ grants'[h].seen = grants[h].seen
                 /\ grants'[h].live => grants[h].live
      BY <2>1, <1>2, <1>b, <1>g
    <2>c. \A v \in People : accounts[v].calm \in Nat
      BY <1>t, AccountFields, AgesAreNumbers
    <2>2. \A v \in People : accounts'[v].calm <= accounts[v].calm
                            /\ (accounts'[v].must => accounts[v].must)
      BY <1>4, <2>c
    <2> QED BY <2>1, <2>2, <1>1 DEF Carries
  <1>7. HeldNext(new)
    <2>2. u # Nobody /\ g # 0 /\ 0 <= Ttl
      BY <1>g, <1>a, ConsoleBounds, AgesAreNumbers DEF Nobody
    <2>3. sso'
      BY <1>1, <1>i
    <2> QED BY <1>2, <1>f, <2>2, <2>3 DEF HeldNext
  <1>8. trouble' \in 0..MaxTrouble
    BY <1>t, <1>1, SessionTypes
  <1> QED BY <1>1, <1>n, <1>2, <1>3, <1>4, <1>5, <1>6, <1>7, <1>8, StepEnds

LEMMA ChangeKeeps ==
  ASSUME SessionInv, NEW r \in Tabs, NEW password \in BOOLEAN, Change(r, password)
  PROVE  SessionInv'
  <1> DEFINE s == request[r].session
             u == grants[s.grant].user
             new == [s EXCEPT !.flag = FlagAfter(s, password)]
  <1>t. SessionTypeOK
    BY DEF SessionInv
  <1>s. s \in Sessions /\ Held(s) /\ s.grant # 0 /\ s.grant \in 1..MaxGrants
    BY <1>t, RequestFields, SessionFields DEF SessionInv, WayIn, Change
  <1>a. u \in People
    BY <1>t, <1>s, GrantFields DEF Held
  <1>1. /\ accounts' = IF password
                       THEN [accounts EXCEPT ![u] = [accounts[u] EXCEPT !.must = FALSE,
                                                                        !.calm = 0]]
                       ELSE accounts
        /\ grants' = Dropped(grants, u)
        /\ Proceeds(r, "reply", new)
        /\ UNCHANGED <<sso, gateway, cookie, trouble>>
    BY DEF Change
  <1>n. /\ new \in Sessions
        /\ new.user = s.user /\ new.grant = s.grant /\ new.asked = s.asked
        /\ new.flag = (s.flag /\ ~password)
    BY <1>s DEF Sessions, FlagAfter
  <1> HIDE DEF new, u, s
  <1>2. /\ grants' \in [1..MaxGrants -> Grants]
        /\ \A h \in 1..MaxGrants :
              /\ grants'[h].user = grants[h].user /\ grants'[h].seen = grants[h].seen
              /\ grants'[h].live => grants[h].live
              /\ grants[h].user = u => ~grants'[h].live
    BY <1>t, <1>1, DroppedForms
  <1>3. GrantsAreTrue'
    BY <1>2 DEF GrantsAreTrue, SessionInv
  <1>4. /\ accounts' \in [People -> Accounts]
        /\ \A v \in People : /\ accounts'[v].calm = accounts[v].calm \/ accounts'[v].calm = 0
                             /\ accounts'[v].must => accounts[v].must
                             /\ ~accounts'[v].must => accounts'[v].calm = 0
        /\ password => accounts'[u].calm = 0
    <2>1. accounts \in [People -> Accounts] /\ 0 \in Ages
      BY <1>t, SessionTypes, AgesAreNumbers
    <2>2. \A v \in People : ~accounts[v].must => accounts[v].calm = 0
      BY DEF SessionInv, CalmIsTrue
    <2>3. CASE password
      <3>1. accounts' = [accounts EXCEPT ![u] = [accounts[u] EXCEPT !.must = FALSE, !.calm = 0]]
        BY <1>1, <2>3
      <3>2. accounts' \in [People -> Accounts]
        BY <1>a, <2>1, <3>1 DEF Accounts
      <3>3. ~accounts'[u].must /\ accounts'[u].calm = 0
        BY <1>a, <2>1, <3>1 DEF Accounts
      <3>4. \A v \in People : v # u => accounts'[v] = accounts[v]
        BY <2>1, <3>1
      <3> QED BY <2>2, <3>2, <3>3, <3>4
    <2>4. CASE ~password
      BY <1>1, <2>1, <2>2, <2>4
    <2> QED BY <2>3, <2>4
  <1>5. CalmIsTrue'
    BY <1>4 DEF CalmIsTrue
  <1>6. Carries
    <2>c. \A v \in People : accounts[v].calm \in Nat
      BY <1>t, AccountFields, AgesAreNumbers
    <2>2. \A v \in People : accounts'[v].calm <= accounts[v].calm
      BY <1>4, <2>c
    <2> QED BY <2>2, <1>1, <1>2, <1>4 DEF Carries
  <1>7. HeldNext(new)
    <2>c. \A v \in People : accounts'[v].calm \in Ages
      BY <1>4 DEF Accounts
    <2>1. HeldNext(s)
      BY <1>t, <1>6, <1>s, <2>c, HeldCarries
    <2>2. ~sso' /\ ~new.flag => accounts'[u].calm <= grants[s.grant].seen
      <3>1. CASE password
        <4>1. accounts'[u].calm = 0
          BY <1>4, <3>1
        <4>2. grants[s.grant].seen \in Nat
          BY <1>t, <1>s, GrantFields, AgesAreNumbers
        <4> QED BY <4>1, <4>2
      <3>2. CASE ~password
        <4>1. grants'[s.grant].user = u /\ grants'[s.grant].seen = grants[s.grant].seen
          BY <1>2, <1>s DEF u
        <4>2. ~new.flag => ~s.flag
          BY <1>n, <3>2
        <4> QED BY <2>1, <4>1, <4>2, <1>s DEF HeldNext
      <3> QED BY <3>1, <3>2
    <2>3. /\ grants'[s.grant].user = u /\ grants'[s.grant].seen = grants[s.grant].seen
          /\ ~grants'[s.grant].live
      BY <1>2, <1>s DEF u
    <2> QED BY <2>1, <2>2, <2>3, <1>n, <1>s DEF HeldNext
  <1>8. trouble' \in 0..MaxTrouble
    BY <1>t, <1>1, SessionTypes
  <1> QED BY <1>1, <1>n, <1>2, <1>3, <1>4, <1>5, <1>6, <1>7, <1>8, StepEnds

LEMMA ReplyKeeps ==
  ASSUME SessionInv, NEW r \in Tabs, Reply(r)
  PROVE  SessionInv'
  <1>t. SessionTypeOK
    BY DEF SessionInv
  <1>u. UNCHANGED <<sso, gateway, accounts, grants, trouble>>
    BY DEF Reply
  <1>n. /\ \A s \in Sessions : Held(s) => HeldNext(s)
        /\ GrantsAreTrue' /\ CalmIsTrue' /\ sso' \in BOOLEAN
        /\ grants' \in [1..MaxGrants -> Grants] /\ accounts' \in [People -> Accounts]
    BY <1>u, NothingMoves
  <1>c. cookie' \in Sessions /\ HeldNext(cookie')
    <2>1. /\ cookie \in Sessions /\ Held(cookie)
          /\ request[r].session \in Sessions /\ Held(request[r].session)
      BY <1>t, SessionTypes, RequestFields DEF SessionInv
    <2>2. cookie' = cookie \/ cookie' = request[r].session
      BY DEF Reply
    <2> QED BY <2>1, <2>2, <1>n
  <1>f. /\ NoRequest \in TabRecs /\ NoRequest.session = NoSession
        /\ NoRequest.ident = NoIdentity /\ NoRequest.pc = "free"
    BY NothingIsASession DEF NoRequest, TabRecs, Kinds
  <1>1. /\ request' \in [Tabs -> TabRecs] /\ request'[r] = NoRequest
        /\ \A q \in Tabs : q # r => request'[q] = request[q]
    BY <1>t, <1>f, SessionTypes DEF Reply
  <1>2. SessionTypeOK'
    BY <1>t, <1>u, <1>c, <1>n, <1>1, SessionTypes, SessionTypesNext
  <1>3. HeldNext(request'[r].session) /\ WayIn(request[r])'
    BY <1>1, <1>f, NothingIsHeld DEF WayIn
  <1>4. \A q \in Tabs : HeldNext(request'[q].session) /\ WayIn(request[q])'
    BY <1>1, <1>3, <1>n, <1>u, OthersKeep
  <1> QED BY <1>2, <1>c, <1>4, <1>n, InvNext

LEMMA AccountChangeKeeps ==
  ASSUME SessionInv, NEW u \in People, NEW role \in Powers \cup {"gone"}, NEW must \in BOOLEAN,
         AccountChange(u, [role |-> role, must |-> must, calm |-> accounts[u].calm])
  PROVE  SessionInv'
  <1> DEFINE new == [role |-> role, must |-> must, calm |-> accounts[u].calm]
  <1>t. SessionTypeOK
    BY DEF SessionInv
  <1>f. new.role = role /\ new.must = must /\ new.calm = accounts[u].calm
    OBVIOUS
  <1>r. new \in Accounts
    BY <1>t, AccountFields DEF Accounts
  <1>1. /\ accounts' = [accounts EXCEPT ![u] = new]
        /\ grants' = Dropped(grants, u)
        /\ UNCHANGED <<sso, gateway, cookie, request>>
        /\ trouble < MaxTrouble /\ trouble' = trouble + 1
    BY DEF AccountChange, Trouble
  <1>m. must = accounts[u].must \/ must
    BY DEF AccountChange
  <1> HIDE DEF new
  <1>2. /\ grants' \in [1..MaxGrants -> Grants]
        /\ \A h \in 1..MaxGrants :
              /\ grants'[h].user = grants[h].user /\ grants'[h].seen = grants[h].seen
              /\ grants'[h].live => grants[h].live
              /\ grants[h].user = u => ~grants'[h].live
    BY <1>t, <1>1, DroppedForms
  <1>3. GrantsAreTrue'
    BY <1>2 DEF GrantsAreTrue, SessionInv
  <1>4. /\ accounts' \in [People -> Accounts]
        /\ accounts'[u] = new
        /\ \A v \in People : v # u => accounts'[v] = accounts[v]
    BY <1>t, <1>1, <1>r, SessionTypes
  <1>5. CalmIsTrue'
    <2>1. \A v \in People : ~accounts[v].must => accounts[v].calm = 0
      BY DEF CalmIsTrue, SessionInv
    <2>2. ~accounts'[u].must => accounts'[u].calm = 0
      BY <1>4, <1>f, <1>m, <2>1
    <2> QED BY <1>4, <2>1, <2>2 DEF CalmIsTrue
  <1>6. Carries
    <2>c. \A v \in People : accounts[v].calm \in Nat
      BY <1>t, AccountFields, AgesAreNumbers
    <2>1. ASSUME NEW v \in People
          PROVE  /\ accounts'[v].calm <= accounts[v].calm
                 /\ accounts'[v].must => \/ accounts[v].must
                       \/ \A g \in 1..MaxGrants : grants[g].user = v => ~grants'[g].live
      <3>1. CASE v = u
        BY <1>2, <1>4, <1>f, <2>c, <3>1
      <3>2. CASE v # u
        BY <1>4, <2>c, <3>2
      <3> QED BY <3>1, <3>2
    <2> QED BY <2>1, <1>1, <1>2 DEF Carries
  <1>c. \A v \in People : accounts'[v].calm \in Ages
    BY <1>4 DEF Accounts
  <1>7. \A s \in Sessions : Held(s) => HeldNext(s)
    BY <1>t, <1>6, <1>c, HeldCarries
  <1>8. HeldNext(cookie')
    <2>1. cookie \in Sessions /\ Held(cookie) /\ cookie' = cookie
      BY <1>t, <1>1, SessionTypes DEF SessionInv
    <2> QED BY <1>7, <2>1
  <1>9. \A r \in Tabs : HeldNext(request'[r].session) /\ WayIn(request[r])'
    <2>1. ASSUME NEW r \in Tabs
          PROVE  HeldNext(request'[r].session) /\ WayIn(request[r])'
      <3>1. Held(request[r].session) /\ WayIn(request[r]) /\ request[r].session \in Sessions
        BY <1>t, RequestFields DEF SessionInv
      <3> QED BY <3>1, <1>1, <1>7 DEF WayIn
    <2> QED BY <2>1
  <1>10. SessionTypeOK'
    <2>1. trouble' \in 0..MaxTrouble
      BY <1>t, <1>1, SessionTypes, ConsoleBounds
    <2> QED BY <1>t, <1>1, <1>2, <1>4, <2>1, SessionTypes, SessionTypesNext
  <1> QED BY <1>10, <1>3, <1>5, <1>8, <1>9, InvNext

LEMMA GatewayChangeKeeps ==
  ASSUME SessionInv, UNCHANGED <<sso, accounts, grants, cookie, request, trouble>>,
         gateway' \in Vouched
  PROVE  SessionInv'
  <1>t. SessionTypeOK
    BY DEF SessionInv
  <1>1. SessionTypeOK'
    BY <1>t, SessionTypes, SessionTypesNext
  <1>2. GrantsAreTrue' /\ CalmIsTrue' /\ Held(cookie)'
    BY DEF SessionInv, GrantsAreTrue, CalmIsTrue, Held
  <1>3. \A r \in Tabs : Held(request[r].session)' /\ WayIn(request[r])'
    BY DEF SessionInv, Held, WayIn
  <1> QED BY <1>1, <1>2, <1>3 DEF SessionInv

(* Every age grows alike.                                                   *)
LEMMA TimeKeeps ==
  ASSUME SessionInv, TimePasses
  PROVE  SessionInv'
  <1> DEFINE Grown(s) == [s EXCEPT !.asked = Older(@)]
  <1>t. SessionTypeOK
    BY DEF SessionInv
  <1>u. UNCHANGED <<sso, gateway, trouble>>
    BY DEF TimePasses
  <1>1. \A g \in 1..MaxGrants :
           /\ grants'[g] \in Grants
           /\ grants'[g].user = grants[g].user /\ grants'[g].live = grants[g].live
           /\ grants[g].live => grants'[g].seen = grants[g].seen
           /\ ~grants[g].live => grants'[g].seen = Older(grants[g].seen)
    <2>1. ASSUME NEW g \in 1..MaxGrants
          PROVE  LET d == IF grants[g].live THEN grants[g]
                          ELSE [grants[g] EXCEPT !.seen = Older(@)]
                 IN  /\ d \in Grants /\ d.user = grants[g].user /\ d.live = grants[g].live
                     /\ grants[g].live => d.seen = grants[g].seen
                     /\ ~grants[g].live => d.seen = Older(grants[g].seen)
      <3>1. grants[g] \in Grants /\ Older(grants[g].seen) \in Ages
        BY <1>t, GrantFields, AgesAreNumbers
      <3> QED BY <3>1 DEF Grants
    <2> QED BY <2>1 DEF TimePasses
  <1>2. \A v \in People :
           /\ accounts'[v] \in Accounts
           /\ accounts'[v].must = accounts[v].must
           /\ accounts[v].must => accounts'[v].calm = Older(accounts[v].calm)
           /\ ~accounts[v].must => accounts'[v].calm = accounts[v].calm
    <2>1. ASSUME NEW v \in People
          PROVE  LET d == IF accounts[v].must THEN [accounts[v] EXCEPT !.calm = Older(@)]
                          ELSE accounts[v]
                 IN  /\ d \in Accounts /\ d.must = accounts[v].must
                     /\ accounts[v].must => d.calm = Older(accounts[v].calm)
                     /\ ~accounts[v].must => d.calm = accounts[v].calm
      <3>1. accounts[v] \in Accounts /\ Older(accounts[v].calm) \in Ages
        BY <1>t, AccountFields, AgesAreNumbers
      <3> QED BY <3>1 DEF Accounts
    <2> QED BY <2>1 DEF TimePasses
  <1>3. ASSUME NEW s \in Sessions
        PROVE  /\ Grown(s) \in Sessions /\ Grown(s).user = s.user /\ Grown(s).grant = s.grant
               /\ Grown(s).flag = s.flag /\ Grown(s).asked = Older(s.asked)
    <2>1. Older(s.asked) \in Ages
      BY SessionFields, AgesAreNumbers
    <2> QED BY <2>1 DEF Sessions
  <1>4. cookie' = Grown(cookie)
    BY DEF TimePasses
  <1>5. \A r \in Tabs :
           /\ request'[r] \in TabRecs /\ request'[r].session = Grown(request[r].session)
           /\ request'[r].pc = request[r].pc /\ request'[r].kind = request[r].kind
           /\ request'[r].ident = request[r].ident
    <2>1. ASSUME NEW r \in Tabs
          PROVE  LET q == [request[r] EXCEPT !.session = Grown(request[r].session)]
                 IN  /\ q \in TabRecs /\ q.session = Grown(request[r].session)
                     /\ q.pc = request[r].pc /\ q.kind = request[r].kind
                     /\ q.ident = request[r].ident
      <3>1. request[r] \in TabRecs /\ Grown(request[r].session) \in Sessions
        BY <1>t, <1>3, RequestFields
      <3> HIDE DEF Grown
      <3> QED BY <3>1 DEF TabRecs
    <2>2. ASSUME NEW r \in Tabs
          PROVE  request'[r] = [request[r] EXCEPT !.session = Grown(request[r].session)]
      <3>1. request'[r] = [request[r] EXCEPT !.session.asked = Older(request[r].session.asked)]
        BY DEF TimePasses
      <3> QED BY <3>1
    <2> QED BY <2>1, <2>2
  <1>6. ASSUME NEW s \in Sessions, Held(s)
        PROVE  HeldNext(Grown(s))
    <2>1. CASE s.grant = 0
      BY <1>3, <1>6, <2>1 DEF Held, HeldNext
    <2>2. CASE s.grant # 0
      <3> DEFINE g == s.grant
                 v == grants[g].user
      <3>1. /\ g \in 1..MaxGrants /\ v \in People /\ v # Nobody
            /\ grants[g].seen \in Ages /\ accounts[v].calm \in Ages /\ s.asked \in Ages
            /\ grants[g].seen <= s.asked
        BY <1>t, <1>6, <2>2, SessionFields, GrantFields, AccountFields DEF Held
      <3>2. ~sso /\ ~s.flag => /\ accounts[v].calm <= grants[g].seen
                               /\ accounts[v].must => ~grants[g].live
        BY <1>6, <2>2 DEF Held
      <3>3. grants'[g].user = v /\ grants'[g].live = grants[g].live
        BY <1>1, <3>1
      <3>4. \A a, b \in Ages : /\ a <= b => Older(a) <= Older(b) /\ a <= Older(b)
                               /\ a \in Nat /\ Older(a) \in Nat
        BY AgesAreNumbers
      <3>5. grants'[g].seen <= Older(s.asked)
        BY <1>1, <3>1, <3>4
      <3>6. ~accounts[v].must => accounts[v].calm = 0
        BY <3>1 DEF SessionInv, CalmIsTrue
      <3>7. ~sso /\ ~s.flag => /\ accounts'[v].calm <= grants'[g].seen
                               /\ accounts'[v].must => ~grants'[g].live
        <4>1. CASE accounts[v].must
          BY <1>1, <1>2, <3>1, <3>2, <3>4, <4>1
        <4>2. CASE ~accounts[v].must
          <5>1. accounts'[v].calm = 0 /\ ~accounts'[v].must
            BY <1>2, <3>1, <3>6, <4>2
          <5>2. grants'[g].seen \in Nat
            BY <1>1, <3>1, AgesAreNumbers DEF Grants
          <5> QED BY <5>1, <5>2
        <4> QED BY <4>1, <4>2
      <3> HIDE DEF g, v
      <3>8. /\ Grown(s).grant = g /\ Grown(s).flag = s.flag /\ Grown(s).asked = Older(s.asked)
            /\ g # 0
        BY <1>3, <2>2 DEF g
      <3> QED BY <3>1, <3>3, <3>5, <3>7, <3>8, <1>u DEF HeldNext
    <2> QED BY <2>1, <2>2
  <1> HIDE DEF Grown
  <1>7. GrantsAreTrue'
    BY <1>1 DEF GrantsAreTrue, SessionInv
  <1>8. CalmIsTrue'
    BY <1>2 DEF CalmIsTrue, SessionInv
  <1>9. cookie' \in Sessions /\ HeldNext(cookie')
    <2>1. cookie \in Sessions /\ Held(cookie)
      BY <1>t, SessionTypes DEF SessionInv
    <2> QED BY <2>1, <1>3, <1>4, <1>6
  <1>10. \A r \in Tabs : HeldNext(request'[r].session) /\ WayIn(request[r])'
    <2>1. ASSUME NEW r \in Tabs
          PROVE  HeldNext(request'[r].session) /\ WayIn(request[r])'
      <3>1. Held(request[r].session) /\ WayIn(request[r]) /\ request[r].session \in Sessions
        BY <1>t, RequestFields DEF SessionInv
      <3>2. request'[r].session.grant = request[r].session.grant
        BY <3>1, <1>3, <1>5
      <3>3. WayIn(request[r])'
        BY <3>1, <3>2, <1>5, <1>u DEF WayIn
      <3> QED BY <3>1, <3>3, <1>5, <1>6
    <2> QED BY <2>1
  <1>11. SessionTypeOK'
    <2>1. grants' \in [1..MaxGrants -> Grants]
      <3>1. grants' = [g \in 1..MaxGrants |-> grants'[g]]
        BY DEF TimePasses
      <3> QED BY <3>1, <1>1
    <2>2. accounts' \in [People -> Accounts]
      <3>1. accounts' = [v \in People |-> accounts'[v]]
        BY DEF TimePasses
      <3> QED BY <3>1, <1>2
    <2>3. request' \in [Tabs -> TabRecs]
      <3>1. request' = [r \in Tabs |-> request'[r]]
        BY DEF TimePasses
      <3> QED BY <3>1, <1>5
    <2> QED BY <2>1, <2>2, <2>3, <1>t, <1>u, <1>9, SessionTypes, SessionTypesNext
  <1> QED BY <1>7, <1>8, <1>9, <1>10, <1>11, InvNext

-----------------------------------------------------------------------------
(* What a gate lets through.                                                *)

(* Only a gate lets a request through.                                      *)
LEMMA OnlyTheGate ==
  ASSUME SessionInv, [SessionNext]_sessionVars, NEW r \in Tabs, LetThrough(r)
  PROVE  Gate(r)
  <1>t. SessionTypeOK /\ request \in [Tabs -> TabRecs]
    BY SessionTypes DEF SessionInv
  <1>0. request[r].pc = "gate" /\ request'[r].pc = "work"
    BY DEF LetThrough
  <1>1. ASSUME NEW q \in Tabs, q # r, NEW x, request' = [request EXCEPT ![q] = x]
        PROVE  FALSE
    BY <1>0, <1>1, <1>t
  <1>2. ASSUME NEW q \in Tabs, NEW pc \in {"gate", "work", "reply"}, NEW s, Proceeds(q, pc, s), q # r
        PROVE  FALSE
    BY <1>1, <1>2 DEF Proceeds
  <1>3. ASSUME request' = request
        PROVE  FALSE
    BY <1>0, <1>3
  <1>4. CASE UNCHANGED sessionVars
    BY <1>3, <1>4 DEF sessionVars
  <1>5. ASSUME NEW q \in Tabs, NEW kind \in Kinds, NEW ident, Arrive(q, kind, ident)
        PROVE  FALSE
    <2>1. q = r
      BY <1>1, <1>5 DEF Arrive
    <2> QED BY <2>1, <1>0, <1>5 DEF Arrive
  <1>6. ASSUME NEW q \in Tabs, Reuse(q) \/ Provision(q) \/ ProvisionFails(q)
        PROVE  FALSE
    <2>1. request[q].pc = "ensure"
      BY <1>6 DEF Reuse, Provision, ProvisionFails
    <2>2. \E s : Proceeds(q, "gate", s)
      BY <1>6 DEF Reuse, Provision, ProvisionFails
    <2> QED BY <2>1, <2>2, <1>0, <1>2
  <1>7. ASSUME NEW q \in Tabs, Logout(q)
        PROVE  FALSE
    <2>1. request[q].pc = "work" /\ \E s : Proceeds(q, "reply", s)
      BY <1>7 DEF Logout
    <2> QED BY <2>1, <1>0, <1>2
  <1>8. ASSUME NEW q \in Tabs, NEW u \in People, Login(q, u)
        PROVE  FALSE
    <2>1. request[q].pc = "work" /\ \E s : Proceeds(q, "reply", s)
      BY <1>8 DEF Login
    <2> QED BY <2>1, <1>0, <1>2
  <1>9. ASSUME NEW q \in Tabs, NEW password \in BOOLEAN, Change(q, password)
        PROVE  FALSE
    <2>1. request[q].pc = "work" /\ \E s : Proceeds(q, "reply", s)
      BY <1>9 DEF Change
    <2> QED BY <2>1, <1>0, <1>2
  <1>10. ASSUME NEW q \in Tabs, Reply(q)
         PROVE  FALSE
    <2>1. q = r
      BY <1>1, <1>10 DEF Reply
    <2> QED BY <2>1, <1>0, <1>10 DEF Reply
  <1>11. ASSUME NEW u, NEW new, AccountChange(u, new)
         PROVE  FALSE
    BY <1>3, <1>11 DEF AccountChange
  <1>12. ASSUME NEW v \in Vouched, GatewayChange(v)
         PROVE  FALSE
    BY <1>3, <1>12 DEF GatewayChange
  <1>13. ASSUME TimePasses
         PROVE  FALSE
    <2>1. request'[r].pc = request[r].pc
      BY <1>13, <1>t DEF TimePasses, TabRecs
    <2> QED BY <2>1, <1>0
  <1>14. ASSUME NEW q \in Tabs, Gate(q)
         PROVE  q = r
    <2>1. \E pc \in {"work", "reply"} : \E s : Proceeds(q, pc, s)
      BY <1>14, GateLeads
    <2> QED BY <2>1, <1>2
  <1> QED BY <1>4, <1>5, <1>6, <1>7, <1>8, <1>9, <1>10, <1>11, <1>12, <1>13, <1>14
          DEF SessionNext

RevokedStep == \A r \in Tabs :
    LetThrough(r) /\ request[r].kind \notin {"me", "probe"} /\ ~Excused(r) =>
        LET g == grants[request'[r].session.grant]
        IN  /\ g.seen < Ttl
            /\ request[r].kind = "write" => g.role # "auditor"
            /\ request[r].kind = "admin" => g.role = "superuser"
TemporaryStep == \A r \in Tabs :
    LetThrough(r) /\ request[r].kind \in {"write", "admin"} /\ ~Excused(r) /\ ~sso =>
        accounts[grants[request'[r].session.grant].user].calm < Ttl
GatewayStep == \A r \in Tabs :
    sso /\ LetThrough(r) /\ request[r].kind # "probe" => request[r].ident # NoIdentity

(* Whom a gate let through was good, and without a temporary password,      *)
(* less than a Ttl ago.                                                     *)
LEMMA ThroughTheGate ==
  ASSUME SessionInv, [SessionNext]_sessionVars, NEW r \in Tabs, LetThrough(r)
  PROVE  LET q == request[r]
             g == request'[r].session.grant
         IN  /\ ~NeedsGateway(q)
             /\ q.kind = "write" => grants[g].role # "auditor"
             /\ q.kind = "admin" => grants[g].role = "superuser"
             /\ q.kind \notin {"me", "probe"} /\ ~Excused(r) =>
                   /\ grants[g].seen < Ttl
                   /\ ~sso /\ q.kind \in {"write", "admin"} => accounts[grants[g].user].calm < Ttl
  <1>t. SessionTypeOK
    BY DEF SessionInv
  <1>0. request'[r].pc = "work"
    BY DEF LetThrough
  <1>1. PICK pc \in {"work", "reply"}, s \in Sessions :
            /\ Proceeds(r, pc, s) /\ Held(s)
            /\ pc = "work" =>
                  LET q == request[r]
                  IN  /\ ~NeedsGateway(q) /\ s.grant # 0 /\ Allowed(q, s)
                      /\ s.grant = q.session.grant /\ s.flag = q.session.flag
                      /\ \/ q.kind \in {"me", "probe"} \/ q.session.asked < Ttl
                         \/ grants[s.grant].live
                         \/ s.asked = Ttl /\ q.session.asked = Ttl
    BY OnlyTheGate, GateLeads
  <1>2. request'[r].pc = pc /\ request'[r].session = s
    BY <1>t, <1>1, ProceedsTo
  <1> DEFINE q == request[r]
             g == s.grant
  <1>3. /\ ~NeedsGateway(q) /\ Allowed(q, s) /\ g # 0
        /\ g = q.session.grant /\ s.flag = q.session.flag
        /\ \/ q.kind \in {"me", "probe"} \/ q.session.asked < Ttl
           \/ grants[g].live
           \/ s.asked = Ttl /\ q.session.asked = Ttl
    BY <1>0, <1>1, <1>2
  <1>4. /\ g \in 1..MaxGrants /\ grants[g].seen \in Ages
        /\ grants[g].user \in People /\ accounts[grants[g].user].calm \in Ages
        /\ q.session \in Sessions /\ Held(q.session) /\ q.session.asked \in Ages
    BY <1>t, <1>1, <1>3, SessionFields, GrantFields, AccountFields, RequestFields
       DEF Held, SessionInv
  <1>5. ASSUME q.kind \notin {"me", "probe"}, ~Excused(r)
        PROVE  grants[g].seen < Ttl
    <2>n. /\ Ttl \in Nat /\ Ttl > 0 /\ grants[g].seen \in Nat /\ q.session.asked \in Nat
      BY <1>4, AgesAreNumbers
    <2>1. CASE q.session.asked < Ttl
      <3>1. grants[g].seen <= q.session.asked
        BY <1>3, <1>4 DEF Held
      <3> QED BY <2>n, <2>1, <3>1
    <2>2. CASE grants[g].live
      <3>1. grants[g].seen = 0
        BY <1>4, <2>2 DEF SessionInv, GrantsAreTrue
      <3> QED BY <2>n, <3>1
    <2>3. CASE s.asked = Ttl /\ q.session.asked = Ttl
      BY <1>2, <1>5, <2>3 DEF Excused
    <2> QED BY <1>3, <1>5, <2>1, <2>2, <2>3
  <1>6. ASSUME q.kind \in {"write", "admin"}, ~Excused(r), ~sso
        PROVE  accounts[grants[g].user].calm < Ttl
    <2>1. grants[g].seen < Ttl
      BY <1>5, <1>6
    <2>2. ~s.flag
      BY <1>3, <1>6 DEF Allowed
    <2>3. accounts[grants[g].user].calm <= grants[g].seen
      BY <1>1, <1>3, <1>6, <2>2 DEF Held
    <2>4. /\ Ttl \in Nat /\ grants[g].seen \in Nat /\ accounts[grants[g].user].calm \in Nat
      BY <1>4, AgesAreNumbers
    <2> QED BY <2>1, <2>3, <2>4
  <1>7. /\ q.kind = "write" => grants[g].role # "auditor"
        /\ q.kind = "admin" => grants[g].role = "superuser"
    BY <1>3 DEF Allowed, Role
  <1> QED BY <1>2, <1>3, <1>5, <1>6, <1>7

LEMMA GatedStep ==
  ASSUME SessionInv, [SessionNext]_sessionVars
  PROVE  RevokedStep /\ TemporaryStep /\ GatewayStep
  <1>1. RevokedStep
    BY ThroughTheGate DEF RevokedStep
  <1>2. TemporaryStep
    BY ThroughTheGate DEF TemporaryStep
  <1>3. GatewayStep
    BY ThroughTheGate DEF GatewayStep, NeedsGateway
  <1> QED BY <1>1, <1>2, <1>3

LEMMA SessionKeeps ==
  ASSUME SessionInv, [SessionNext]_sessionVars
  PROVE  SessionInv'
  <1>1. CASE UNCHANGED sessionVars
    <2>1. UNCHANGED <<sso, gateway, accounts, grants, cookie, request, trouble>>
      BY <1>1 DEF sessionVars
    <2>2. gateway' \in Vouched
      BY <2>1, SessionTypes DEF SessionInv
    <2> QED BY <2>1, <2>2, GatewayChangeKeeps
  <1>2. ASSUME NEW r \in Tabs, NEW kind \in Kinds,
               NEW ident \in {NoIdentity, Identity(gateway)}, Arrive(r, kind, ident)
        PROVE  SessionInv'
    BY <1>2, ArriveKeeps
  <1>3. ASSUME NEW r \in Tabs,
               Reuse(r) \/ Provision(r) \/ ProvisionFails(r) \/ Gate(r) \/ Logout(r) \/ Reply(r)
        PROVE  SessionInv'
    BY <1>3, ReuseKeeps, ProvisionKeeps, GateKeeps, LogoutKeeps, ReplyKeeps
  <1>4. ASSUME NEW r \in Tabs, NEW u \in People, Login(r, u)
        PROVE  SessionInv'
    BY <1>4, LoginKeeps
  <1>5. ASSUME NEW r \in Tabs, NEW password \in BOOLEAN, Change(r, password)
        PROVE  SessionInv'
    BY <1>5, ChangeKeeps
  <1>6. ASSUME NEW u \in People, NEW role \in Powers \cup {"gone"}, NEW must \in BOOLEAN,
               AccountChange(u, [role |-> role, must |-> must, calm |-> accounts[u].calm])
        PROVE  SessionInv'
    BY <1>6, AccountChangeKeeps
  <1>7. ASSUME NEW v \in Vouched, GatewayChange(v)
        PROVE  SessionInv'
    <2>1. UNCHANGED <<sso, accounts, grants, cookie, request, trouble>> /\ gateway' \in Vouched
      BY <1>7 DEF GatewayChange
    <2> QED BY <2>1, GatewayChangeKeeps
  <1>8. CASE TimePasses
    BY <1>8, TimeKeeps
  <1> QED BY <1>1, <1>2, <1>3, <1>4, <1>5, <1>6, <1>7, <1>8 DEF SessionNext

LEMMA SessionStarts ==
  ASSUME SessionInit
  PROVE  SessionInv
  <1>a. 0 \in Ages /\ Ttl \in Ages /\ 0 \in 0..MaxTrouble
    BY AgesAreNumbers, ConsoleBounds
  <1>f. /\ NoRequest \in TabRecs /\ NoRequest.session = NoSession
        /\ NoRequest.ident = NoIdentity /\ NoRequest.pc = "free"
    BY NothingIsASession DEF NoRequest, TabRecs, Kinds
  <1>1. SessionTypeOK
    <2>1. accounts \in [People -> Accounts]
      BY <1>a DEF SessionInit, Accounts, Powers
    <2>2. grants \in [1..MaxGrants -> Grants]
      BY <1>a DEF SessionInit, Grants, Powers
    <2>3. request \in [Tabs -> TabRecs]
      BY <1>f DEF SessionInit
    <2>4. /\ sso \in BOOLEAN /\ gateway \in Vouched /\ cookie \in Sessions
          /\ trouble \in 0..MaxTrouble
      BY <1>a, NothingIsASession DEF SessionInit, Vouched
    <2> QED BY <2>1, <2>2, <2>3, <2>4 DEF SessionTypeOK, Accounts, Grants, TabRecs
  <1>2. GrantsAreTrue
    BY DEF SessionInit, GrantsAreTrue
  <1>3. CalmIsTrue
    BY DEF SessionInit, CalmIsTrue
  <1>4. Held(NoSession)
    BY DEF Held, NoSession
  <1>5. \A r \in Tabs : request[r] = NoRequest
    BY DEF SessionInit
  <1>6. \A r \in Tabs : Held(request[r].session) /\ WayIn(request[r])
    BY <1>4, <1>5, <1>f DEF WayIn
  <1> QED BY <1>1, <1>2, <1>3, <1>4, <1>6 DEF SessionInv, SessionInit
-----------------------------------------------------------------------------
(* How many failures a count has.                                           *)

FailureCounts == [1..Window -> Nat]
Failures(c) == UNION {{a} \X (1..c[a]) : a \in 1..Window}
(* The failures that are no more than k old.                                *)
Upto(c, k) == [a \in 1..Window |-> IF a <= k THEN c[a] ELSE 0]

LEMMA ThrottleNumbers ==
    /\ Window \in Nat \ {0} /\ Lockout \in Nat \ {0} /\ MaxFails \in Nat \ {0}
    /\ MaxPerAddress \in Nat \ {0} /\ MaxGlobal \in Nat \ {0}
  BY ThrottleBounds

LEMMA CountIsFunction ==
    ASSUME NEW c \in FailureCounts
    PROVE  c = [a \in 1..Window |-> c[a]] /\ \A a \in 1..Window : c[a] \in Nat
  BY DEF FailureCounts

LEMMA FailureIsIn ==
    ASSUME NEW c \in FailureCounts, NEW a, NEW n
    PROVE  <<a, n>> \in Failures(c) <=> a \in 1..Window /\ n \in 1..c[a]
  BY DEF Failures

LEMMA FailureIsPair ==
    ASSUME NEW c \in FailureCounts, NEW m \in Failures(c)
    PROVE  m = <<m[1], m[2]>> /\ m[1] \in 1..Window /\ m[2] \in 1..c[m[1]]
  BY DEF Failures

LEMMA FailuresFinite ==
    ASSUME NEW c \in FailureCounts
    PROVE  /\ IsFiniteSet(Failures(c)) /\ AllOf(c) = Cardinality(Failures(c))
           /\ AllOf(c) \in Nat
<1> DEFINE Of(a) == {a} \X (1..c[a])
           Each == {Of(a) : a \in 1..Window}
           f == [a \in 1..Window |-> Of(a)]
<1>1. \A a \in 1..Window : IsFiniteSet(Of(a))
  <2> TAKE a \in 1..Window
  <2>1. c[a] \in Int /\ 1 \in Int
    BY DEF FailureCounts
  <2>2. IsFiniteSet(1..c[a])
    BY <2>1, FS_Interval
  <2> QED
    BY <2>2, FS_Singleton, FS_Product
<1>2. IsFiniteSet(1..Window)
  BY ThrottleNumbers, FS_Interval
<1>3. f \in Surjection(1..Window, Each)
  BY DEF Surjection
<1>4. IsFiniteSet(Each)
  BY <1>2, <1>3, FS_Surjection
<1>5. IsFiniteSet(UNION Each)
  BY <1>1, <1>4, FS_UNION
<1>6. UNION Each = Failures(c)
  BY DEF Failures
<1> QED
  BY <1>5, <1>6, FS_CardinalityType DEF AllOf, Failures

LEMMA FewerFailures ==
    ASSUME NEW c \in FailureCounts, NEW d \in FailureCounts,
           \A a \in 1..Window : c[a] <= d[a]
    PROVE  AllOf(c) <= AllOf(d)
<1>1. Failures(c) \subseteq Failures(d)
  <2> SUFFICES ASSUME NEW m \in Failures(c) PROVE m \in Failures(d)
    OBVIOUS
  <2>1. m = <<m[1], m[2]>> /\ m[1] \in 1..Window /\ m[2] \in 1..c[m[1]]
    BY FailureIsPair
  <2>2. c[m[1]] \in Nat /\ d[m[1]] \in Nat /\ c[m[1]] <= d[m[1]]
    BY <2>1 DEF FailureCounts
  <2>3. m[2] \in 1..d[m[1]]
    BY <2>1, <2>2
  <2>4. <<m[1], m[2]>> \in Failures(d)
    BY <2>1, <2>3, FailureIsIn
  <2> QED
    BY <2>1, <2>4
<1> QED
  BY <1>1, FailuresFinite, FS_Subset

LEMMA OneAgeIsFewer ==
    ASSUME NEW c \in FailureCounts, NEW a \in 1..Window
    PROVE  c[a] <= AllOf(c)
<1> DEFINE f == [n \in 1..c[a] |-> <<a, n>>]
<1>1. c[a] \in Nat
  BY DEF FailureCounts
<1>2. f \in Injection(1..c[a], Failures(c))
  BY FailureIsIn DEF Injection, IsInjective
<1>3. Cardinality(1..c[a]) <= Cardinality(Failures(c))
  BY <1>2, FailuresFinite, FS_Injection
<1>4. Cardinality(1..c[a]) = c[a]
  BY <1>1, FS_Interval
<1> QED
  BY <1>3, <1>4, FailuresFinite

LEMMA NoFailuresCount == NoFailures \in FailureCounts /\ AllOf(NoFailures) = 0
<1>1. NoFailures \in FailureCounts
  BY DEF NoFailures, FailureCounts
<1>2. Failures(NoFailures) = {}
  BY DEF Failures, NoFailures
<1> QED
  BY <1>1, <1>2, FailuresFinite, FS_EmptySet

LEMMA OneMoreCounts ==
    ASSUME NEW c \in FailureCounts
    PROVE  OneMore(c) \in FailureCounts /\ AllOf(OneMore(c)) = AllOf(c) + 1
<1> DEFINE n == c[1] + 1
<1>1. 1 \in 1..Window /\ c[1] \in Nat /\ \A a \in 1..Window : c[a] \in Nat
  BY ThrottleNumbers DEF FailureCounts
<1>2. OneMore(c) \in FailureCounts
  BY <1>1 DEF OneMore, FailureCounts
<1>3. OneMore(c)[1] = n /\ \A a \in 1..Window : a # 1 => OneMore(c)[a] = c[a]
  BY <1>1 DEF OneMore, FailureCounts
<1>4. ASSUME NEW m \in Failures(OneMore(c)) PROVE m \in Failures(c) \cup {<<1, n>>}
  <2>1. m = <<m[1], m[2]>> /\ m[1] \in 1..Window /\ m[2] \in 1..OneMore(c)[m[1]]
    BY <1>2, <1>4, FailureIsPair
  <2>2. m[2] \in 1..c[m[1]] \/ (m[1] = 1 /\ m[2] = n)
    <3>1. CASE m[1] = 1
      BY <3>1, <2>1, <1>3, <1>1
    <3>2. CASE m[1] # 1
      BY <3>2, <2>1, <1>3
    <3> QED
      BY <3>1, <3>2
  <2>3. m[2] \in 1..c[m[1]] => <<m[1], m[2]>> \in Failures(c)
    BY <2>1, FailureIsIn
  <2> QED
    BY <2>1, <2>2, <2>3
<1>5. ASSUME NEW m \in Failures(c) PROVE m \in Failures(OneMore(c))
  <2>1. m = <<m[1], m[2]>> /\ m[1] \in 1..Window /\ m[2] \in 1..c[m[1]]
    BY <1>5, FailureIsPair
  <2>2. m[2] \in 1..OneMore(c)[m[1]]
    BY <2>1, <1>1, <1>3
  <2>3. <<m[1], m[2]>> \in Failures(OneMore(c))
    BY <2>1, <2>2, <1>2, FailureIsIn
  <2> QED
    BY <2>1, <2>3
<1>6. <<1, n>> \in Failures(OneMore(c)) /\ <<1, n>> \notin Failures(c)
  <2>1. n \in 1..OneMore(c)[1] /\ n \notin 1..c[1]
    BY <1>1, <1>3
  <2> QED
    BY <2>1, <1>1, <1>2, FailureIsIn
<1>7. Failures(OneMore(c)) = Failures(c) \cup {<<1, n>>}
  BY <1>4, <1>5, <1>6
<1> QED
  BY <1>2, <1>6, <1>7, FailuresFinite, FS_AddElement

LEMMA AgedCounts ==
    ASSUME NEW c \in FailureCounts
    PROVE  /\ Aged(c) \in FailureCounts /\ AllOf(Aged(c)) <= AllOf(c)
           /\ c[Window] = 0 => AllOf(Aged(c)) = AllOf(c)
<1>1. Aged(c) \in FailureCounts
  BY ThrottleNumbers DEF Aged, FailureCounts
<1>2. Aged(c)[1] = 0 /\ \A a \in 1..Window : a # 1 => a - 1 \in 1..Window /\ Aged(c)[a] = c[a - 1]
  BY ThrottleNumbers DEF Aged
<1> DEFINE f == [m \in Failures(Aged(c)) |-> <<m[1] - 1, m[2]>>]
<1>3. ASSUME NEW m \in Failures(Aged(c))
      PROVE  /\ m = <<m[1], m[2]>> /\ m[1] \in 1..Window /\ m[1] # 1
             /\ f[m] = <<m[1] - 1, m[2]>> /\ f[m] \in Failures(c)
  <2>1. m = <<m[1], m[2]>> /\ m[1] \in 1..Window /\ m[2] \in 1..Aged(c)[m[1]]
    BY <1>1, <1>3, FailureIsPair
  <2>2. m[1] # 1
    BY <2>1, <1>2
  <2>3. m[1] - 1 \in 1..Window /\ m[2] \in 1..c[m[1] - 1]
    BY <2>1, <2>2, <1>2
  <2>4. <<m[1] - 1, m[2]>> \in Failures(c)
    BY <2>3, FailureIsIn
  <2> QED
    BY <2>1, <2>2, <2>4, <1>3
<1>4. ASSUME NEW m \in Failures(Aged(c)), NEW q \in Failures(Aged(c)), f[m] = f[q]
      PROVE  m = q
  <2>1. m[1] - 1 = q[1] - 1 /\ m[2] = q[2]
    BY <1>3, <1>4
  <2>2. m[1] \in Int /\ q[1] \in Int
    BY <1>3, <1>4
  <2>3. m[1] = q[1]
    BY <2>1, <2>2
  <2> QED
    BY <2>1, <2>3, <1>3, <1>4
<1>5. f \in Injection(Failures(Aged(c)), Failures(c))
  BY <1>3, <1>4 DEF Injection, IsInjective
<1>6. /\ AllOf(Aged(c)) <= AllOf(c)
      /\ f \in Surjection(Failures(Aged(c)), Failures(c)) => AllOf(Aged(c)) = AllOf(c)
  BY <1>1, <1>5, FailuresFinite, FS_Injection
<1>7. ASSUME c[Window] = 0 PROVE f \in Surjection(Failures(Aged(c)), Failures(c))
  <2>1. ASSUME NEW q \in Failures(c) PROVE \E m \in Failures(Aged(c)) : f[m] = q
    <3>1. q = <<q[1], q[2]>> /\ q[1] \in 1..Window /\ q[2] \in 1..c[q[1]]
      BY <2>1, FailureIsPair
    <3>2. q[1] # Window
      BY <3>1, <1>7
    <3>3. q[1] + 1 \in 1..Window /\ q[1] + 1 # 1 /\ (q[1] + 1) - 1 = q[1]
      BY <3>1, <3>2, ThrottleNumbers
    <3>4. q[2] \in 1..Aged(c)[q[1] + 1]
      BY <3>1, <3>3, <1>2
    <3>5. <<q[1] + 1, q[2]>> \in Failures(Aged(c))
      BY <3>3, <3>4, <1>1, FailureIsIn
    <3>6. f[<<q[1] + 1, q[2]>>] = <<q[1], q[2]>>
      BY <3>3, <3>5
    <3> QED
      BY <3>1, <3>5, <3>6
  <2>2. f \in [Failures(Aged(c)) -> Failures(c)]
    BY <1>3
  <2> QED
    BY <2>1, <2>2 DEF Surjection
<1> QED
  BY <1>1, <1>6, <1>7

(* The young ones among one more, and among those that have grown older.    *)
LEMMA UptoCounts ==
    ASSUME NEW c \in FailureCounts
    PROVE  /\ \A k \in 0..Window : Upto(c, k) \in FailureCounts
           /\ Upto(c, 0) = NoFailures /\ Upto(c, Window) = c
<1>1. \A a \in 1..Window : a \in Nat /\ a <= Window /\ ~(a <= 0)
  BY ThrottleNumbers
<1>2. \A k \in 0..Window : Upto(c, k) \in FailureCounts
  BY DEF Upto, FailureCounts
<1>3. Upto(c, 0) = NoFailures
  BY <1>1 DEF Upto, NoFailures
<1>4. c = [a \in 1..Window |-> c[a]]
  BY DEF FailureCounts
<1>5. Upto(c, Window) = c
  BY <1>1, <1>4 DEF Upto
<1> QED
  BY <1>2, <1>3, <1>5

LEMMA UptoOneMore ==
    ASSUME NEW c \in FailureCounts, NEW k \in 1..Window
    PROVE  AllOf(Upto(OneMore(c), k)) = AllOf(Upto(c, k)) + 1
<1>1. OneMore(c) \in FailureCounts /\ Upto(c, k) \in FailureCounts
  BY OneMoreCounts, UptoCounts
<1>2. Upto(OneMore(c), k) = OneMore(Upto(c, k))
  <2>1. 1 \in 1..Window /\ 1 <= k
    BY ThrottleNumbers
  <2>2. \A a \in 1..Window : Upto(OneMore(c), k)[a] = OneMore(Upto(c, k))[a]
    BY <2>1 DEF Upto, OneMore, FailureCounts
  <2>3. /\ Upto(OneMore(c), k) = [a \in 1..Window |-> Upto(OneMore(c), k)[a]]
        /\ OneMore(Upto(c, k)) = [a \in 1..Window |-> OneMore(Upto(c, k))[a]]
    <3>1. OneMore(Upto(c, k)) \in FailureCounts /\ Upto(OneMore(c), k) \in FailureCounts
      BY <1>1, OneMoreCounts, UptoCounts
    <3> QED
      BY <3>1, CountIsFunction
  <2> QED
    BY <2>2, <2>3
<1> QED
  BY <1>1, <1>2, OneMoreCounts

LEMMA UptoAged ==
    ASSUME NEW c \in FailureCounts, NEW k \in 1..Window
    PROVE  AllOf(Upto(Aged(c), k)) = AllOf(Upto(c, k - 1))
<1> DEFINE d == Upto(c, k - 1)
<1>1. k - 1 \in 0..Window /\ Window \in 1..Window /\ ~(Window <= k - 1)
  BY ThrottleNumbers
<1>2. d \in FailureCounts /\ d[Window] = 0
  BY <1>1, UptoCounts DEF Upto
<1>3. Upto(Aged(c), k) = Aged(d)
  <2>1. \A a \in 1..Window : Upto(Aged(c), k)[a] = Aged(d)[a]
    <3> TAKE a \in 1..Window
    <3>1. CASE a = 1
      BY <3>1, ThrottleNumbers DEF Upto, Aged
    <3>2. CASE a # 1
      <4>1. a - 1 \in 1..Window /\ (a <= k <=> a - 1 <= k - 1)
        BY <3>2, ThrottleNumbers
      <4> QED
        BY <3>2, <4>1 DEF Upto, Aged
    <3> QED
      BY <3>1, <3>2
  <2>2. /\ Upto(Aged(c), k) = [a \in 1..Window |-> Upto(Aged(c), k)[a]]
        /\ Aged(d) = [a \in 1..Window |-> Aged(d)[a]]
    BY DEF Upto, Aged
  <2> QED
    BY <2>1, <2>2
<1> QED
  BY <1>2, <1>3, AgedCounts

-----------------------------------------------------------------------------
(* The two throttles.                                                       *)

(* Requests that the console has let through and has not counted; and those *)
(* of them whose password was wrong.                                        *)
Flying == {"sent", "verify", "count", "write", "note"}
Owed   == {"count", "write", "note"}
Stage(pcs) == {t \in Threads : attempt[t].from # Direct /\ attempt[t].pc \in pcs}

AttemptRecs == [pc : {"idle", "sent", "verify", "count", "write", "note", "welcome"},
                from : Clients \cup {Direct},
                read : [fails : FailureCounts, locked : 0..Lockout]]
ThrottleTypes ==
    /\ row \in [fails : FailureCounts, locked : 0..Lockout]
    /\ byAddress \in [Clients -> FailureCounts] /\ global \in FailureCounts
    /\ attempt \in [Threads -> AttemptRecs]
    /\ wrong \in FailureCounts /\ guesses \in FailureCounts /\ overlapped \in BOOLEAN

(* What was let through fits: the last one was admitted below the limit.    *)
AdmittedFit == AllOf(global) + Cardinality(Stage(Flying)) <= MaxGlobal - 1 + Cardinality(Threads)
(* A guess is older than its mark in the console's count.                   *)
GuessesNoted ==
    \A k \in 0..Window :
        AllOf(Upto(guesses, k)) <= AllOf(Upto(global, k)) + Cardinality(Stage(Owed))
AddressesShare == \A i \in Clients, a \in 1..Window : byAddress[i][a] <= global[a]
NotesHaveAddress ==
    \A t \in Threads : attempt[t].pc \in {"note", "welcome"} => attempt[t].from # Direct

(* The row, and every copy of it that is about to be written over it.       *)
BelowLimit ==
    /\ AllOf(row.fails) < MaxFails
    /\ \A t \in Threads : attempt[t].pc = "write" => AllOf(attempt[t].read.fails) < MaxFails
(* While failures are counted one at a time the row has them all.           *)
RowHasAll ==
    /\ AllOf(wrong) <= MaxFails
    /\ ~overlapped =>
          /\ \A a \in 1..Window : wrong[a] <= row.fails[a]
          /\ \A t, o \in Threads : attempt[t].pc = "write" /\ attempt[o].pc = "write" => t = o
          /\ \A t \in Threads : attempt[t].pc = "write" => attempt[t].read = row

ConsoleCounts == AdmittedFit /\ GuessesNoted /\ AddressesShare /\ NotesHaveAddress
ThrottleInv   == ThrottleTypes /\ ConsoleCounts /\ BelowLimit /\ RowHasAll

LEMMA ThreadsCounted ==
    ASSUME NEW pcs
    PROVE  /\ IsFiniteSet(Threads) /\ Cardinality(Threads) \in Nat
           /\ IsFiniteSet(Stage(pcs)) /\ Cardinality(Stage(pcs)) \in Nat
           /\ Cardinality(Stage(pcs)) <= Cardinality(Threads)
           /\ \A t \in Threads \ Stage(pcs) : Cardinality(Stage(pcs)) <= Cardinality(Threads) - 1
<1>1. IsFiniteSet(Threads) /\ Stage(pcs) \subseteq Threads
  BY ThrottleBounds DEF Stage
<1>2. /\ IsFiniteSet(Stage(pcs)) /\ Cardinality(Stage(pcs)) \in Nat /\ Cardinality(Threads) \in Nat
      /\ Cardinality(Stage(pcs)) <= Cardinality(Threads)
  BY <1>1, FS_Subset, FS_CardinalityType
<1>3. ASSUME NEW t \in Threads \ Stage(pcs)
      PROVE  Cardinality(Stage(pcs)) <= Cardinality(Threads) - 1
  <2>1. IsFiniteSet(Threads \ {t}) /\ Cardinality(Threads \ {t}) = Cardinality(Threads) - 1
    BY <1>1, FS_RemoveElement
  <2>2. Stage(pcs) \subseteq Threads \ {t}
    BY <1>1, <1>3
  <2> QED
    BY <2>1, <2>2, FS_Subset
<1> QED
  BY <1>1, <1>2, <1>3

(* One thread goes on: what it adds to those at some stages, or takes away. *)
In(x, pcs) == x.from # Direct /\ x.pc \in pcs
LEMMA ThreadGoesOn ==
    ASSUME ThrottleTypes, NEW t \in Threads, NEW x \in AttemptRecs, NEW pcs,
           attempt' = [attempt EXCEPT ![t] = x]
    PROVE  /\ attempt' \in [Threads -> AttemptRecs]
           /\ attempt'[t] = x /\ \A o \in Threads : o # t => attempt'[o] = attempt[o]
           /\ In(x, pcs) /\ In(attempt[t], pcs) =>
                 Cardinality(Stage(pcs)') = Cardinality(Stage(pcs))
           /\ ~In(x, pcs) /\ ~In(attempt[t], pcs) =>
                 Cardinality(Stage(pcs)') = Cardinality(Stage(pcs))
           /\ In(x, pcs) /\ ~In(attempt[t], pcs) =>
                 Cardinality(Stage(pcs)') = Cardinality(Stage(pcs)) + 1
           /\ ~In(x, pcs) /\ In(attempt[t], pcs) =>
                 Cardinality(Stage(pcs)') = Cardinality(Stage(pcs)) - 1
<1>1. /\ attempt' \in [Threads -> AttemptRecs]
      /\ attempt'[t] = x /\ \A o \in Threads : o # t => attempt'[o] = attempt[o]
  BY DEF ThrottleTypes
<1>2. t \in Stage(pcs) <=> In(attempt[t], pcs)
  BY DEF Stage, In
<1>3. In(x, pcs) => Stage(pcs)' = Stage(pcs) \cup {t}
  BY <1>1 DEF Stage, In
<1>4. ~In(x, pcs) => Stage(pcs)' = Stage(pcs) \ {t}
  BY <1>1 DEF Stage, In
<1>5. IsFiniteSet(Stage(pcs))
  BY ThreadsCounted
<1>6. /\ Cardinality(Stage(pcs) \cup {t}) = IF t \in Stage(pcs) THEN Cardinality(Stage(pcs))
                                            ELSE Cardinality(Stage(pcs)) + 1
      /\ Cardinality(Stage(pcs) \ {t}) = IF t \in Stage(pcs) THEN Cardinality(Stage(pcs)) - 1
                                         ELSE Cardinality(Stage(pcs))
  BY <1>5, FS_AddElement, FS_RemoveElement
<1> QED
  BY <1>1, <1>2, <1>3, <1>4, <1>6

LEMMA RestingRecord ==
    /\ Resting \in AttemptRecs /\ Resting.pc = "idle" /\ Resting.from = Direct
    /\ NoRow \in [fails : FailureCounts, locked : 0..Lockout] /\ AllOf(NoRow.fails) < MaxFails
<1>1. 0 \in 0..Lockout /\ AllOf(NoFailures) < MaxFails
  BY ThrottleNumbers, NoFailuresCount
<1> QED
  BY <1>1, NoFailuresCount DEF Resting, NoRow, AttemptRecs

(* A step that touches none of the console's counts.                        *)
LEMMA ConsoleStays ==
    ASSUME ThrottleTypes, ConsoleCounts, NEW t \in Threads, NEW x \in AttemptRecs,
           attempt' = [attempt EXCEPT ![t] = x], UNCHANGED <<byAddress, global, guesses>>,
           x.pc \in {"note", "welcome"} => x.from # Direct,
           In(x, Flying) => In(attempt[t], Flying), In(attempt[t], Owed) => In(x, Owed)
    PROVE  ConsoleCounts'
<1>1. /\ Cardinality(Stage(Flying)') <= Cardinality(Stage(Flying))
      /\ Cardinality(Stage(Owed)') >= Cardinality(Stage(Owed))
      /\ Cardinality(Stage(Flying)') \in Nat /\ Cardinality(Stage(Owed)') \in Nat
      /\ Cardinality(Stage(Flying)) \in Nat /\ Cardinality(Stage(Owed)) \in Nat
      /\ Cardinality(Threads) \in Nat
  <2>1. /\ Cardinality(Stage(Flying)) \in Nat /\ Cardinality(Stage(Owed)) \in Nat
        /\ Cardinality(Threads) \in Nat
    BY ThreadsCounted
  <2>2. \/ Cardinality(Stage(Flying)') = Cardinality(Stage(Flying))
        \/ /\ ~In(x, Flying) /\ In(attempt[t], Flying)
           /\ Cardinality(Stage(Flying)') = Cardinality(Stage(Flying)) - 1
    BY ThreadGoesOn
  <2>3. \/ Cardinality(Stage(Owed)') = Cardinality(Stage(Owed))
        \/ Cardinality(Stage(Owed)') = Cardinality(Stage(Owed)) + 1
    BY ThreadGoesOn
  <2>4. Stage(Flying)' \subseteq Threads /\ IsFiniteSet(Threads)
    BY ThreadsCounted DEF Stage
  <2>5. Cardinality(Stage(Flying)') \in Nat
    BY <2>4, FS_Subset, FS_CardinalityType
  <2> QED
    BY <2>1, <2>2, <2>3, <2>5
<1>2. AdmittedFit'
  <2>1. AllOf(global) \in Nat /\ MaxGlobal \in Nat
    BY FailuresFinite, ThrottleNumbers DEF ThrottleTypes
  <2>2. AllOf(global)' = AllOf(global)
    OBVIOUS
  <2> QED
    BY <1>1, <2>1, <2>2 DEF AdmittedFit, ConsoleCounts
<1>3. GuessesNoted'
  <2> SUFFICES ASSUME NEW k \in 0..Window
               PROVE  AllOf(Upto(guesses, k)) <= AllOf(Upto(global, k)) + Cardinality(Stage(Owed)')
    BY DEF GuessesNoted
  <2>1. AllOf(Upto(guesses, k)) \in Nat /\ AllOf(Upto(global, k)) \in Nat
    BY FailuresFinite, UptoCounts DEF ThrottleTypes
  <2> QED
    BY <1>1, <2>1 DEF GuessesNoted, ConsoleCounts
<1>4. AddressesShare' /\ NotesHaveAddress'
  BY ThreadGoesOn DEF ConsoleCounts, AddressesShare, NotesHaveAddress
<1> QED
  BY <1>2, <1>3, <1>4 DEF ConsoleCounts

(* A step that touches neither the row nor a copy of it.                    *)
LEMMA RowStays ==
    ASSUME ThrottleTypes, BelowLimit, RowHasAll, NEW t \in Threads, NEW x \in AttemptRecs,
           attempt' = [attempt EXCEPT ![t] = x], UNCHANGED <<row, wrong, overlapped>>,
           x.pc # "write"
    PROVE  BelowLimit' /\ RowHasAll'
<1>1. /\ attempt'[t].pc # "write"
      /\ \A o \in Threads : o # t => attempt'[o] = attempt[o]
  BY ThreadGoesOn
<1>2. AllOf(row.fails)' = AllOf(row.fails) /\ AllOf(wrong)' = AllOf(wrong)
  OBVIOUS
<1> QED
  BY <1>1, <1>2 DEF BelowLimit, RowHasAll

LEMMA QuietThread ==
    ASSUME ThrottleInv, NEW t \in Threads, NEW x \in AttemptRecs,
           attempt' = [attempt EXCEPT ![t] = x],
           UNCHANGED <<row, byAddress, global, wrong, guesses, overlapped>>,
           x.pc \in {"note", "welcome"} => x.from # Direct, x.pc # "write",
           In(x, Flying) => In(attempt[t], Flying), In(attempt[t], Owed) => In(x, Owed)
    PROVE  ThrottleInv'
<1>1. ThrottleTypes'
  BY ThreadGoesOn DEF ThrottleInv, ThrottleTypes
<1>2. ConsoleCounts'
  BY ConsoleStays DEF ThrottleInv
<1>3. BelowLimit' /\ RowHasAll'
  BY RowStays DEF ThrottleInv
<1> QED
  BY <1>1, <1>2, <1>3 DEF ThrottleInv

LEMMA TryKeeps ==
    ASSUME ThrottleInv, NEW t \in Threads, NEW i \in Clients, Try(t, i)
    PROVE  ThrottleInv'
<1> DEFINE x == [Resting EXCEPT !.pc = "sent", !.from = i]
<1>1. /\ attempt[t].pc = "idle" /\ AllOf(global) < MaxGlobal
      /\ attempt' = [attempt EXCEPT ![t] = x]
      /\ UNCHANGED <<row, byAddress, global, wrong, guesses, overlapped>>
  BY DEF Try, Admits
<1>2. x \in AttemptRecs /\ x.pc = "sent"
  BY RestingRecord DEF AttemptRecs
<1> HIDE DEF x
<1>3. ThrottleTypes /\ ConsoleCounts /\ BelowLimit /\ RowHasAll
  BY DEF ThrottleInv
<1>4. ThrottleTypes'
  BY <1>1, <1>2, <1>3, ThreadGoesOn DEF ThrottleTypes
<1>5. BelowLimit' /\ RowHasAll'
  BY <1>1, <1>2, <1>3, RowStays
<1>6. /\ ~In(attempt[t], Flying) /\ ~In(attempt[t], Owed) /\ ~In(x, Owed)
      /\ t \in Threads \ Stage(Flying)
  BY <1>1, <1>2 DEF In, Flying, Owed, Stage
<1>7. Cardinality(Stage(Owed)') = Cardinality(Stage(Owed))
  BY <1>1, <1>2, <1>3, <1>6, ThreadGoesOn
<1>8. AdmittedFit'
  <2>1. /\ Cardinality(Threads) \in Nat /\ Cardinality(Stage(Flying)) \in Nat
        /\ Cardinality(Stage(Flying)) <= Cardinality(Threads) - 1
    BY <1>6, ThreadsCounted
  <2>2. \/ Cardinality(Stage(Flying)') = Cardinality(Stage(Flying))
        \/ Cardinality(Stage(Flying)') = Cardinality(Stage(Flying)) + 1
    BY <1>1, <1>2, <1>3, <1>6, ThreadGoesOn
  <2>3. AllOf(global) \in Nat /\ MaxGlobal \in Nat
    BY <1>3, FailuresFinite, ThrottleNumbers DEF ThrottleTypes
  <2>4. AllOf(global)' = AllOf(global)
    BY <1>1
  <2> QED
    BY <1>1, <2>1, <2>2, <2>3, <2>4 DEF AdmittedFit
<1>9. GuessesNoted'
  BY <1>1, <1>3, <1>7 DEF ConsoleCounts, GuessesNoted
<1>10. AddressesShare' /\ NotesHaveAddress'
  BY <1>1, <1>2, <1>3, ThreadGoesOn DEF ConsoleCounts, AddressesShare, NotesHaveAddress
<1> QED
  BY <1>4, <1>5, <1>8, <1>9, <1>10 DEF ThrottleInv, ConsoleCounts

LEMMA TryDirectKeeps ==
    ASSUME ThrottleInv, NEW t \in Threads, TryDirect(t)
    PROVE  ThrottleInv'
<1> DEFINE x == [Resting EXCEPT !.pc = "sent"]
<1>1. /\ attempt[t].pc = "idle" /\ attempt' = [attempt EXCEPT ![t] = x]
      /\ UNCHANGED <<row, byAddress, global, wrong, guesses, overlapped>>
  BY DEF TryDirect
<1>2. x \in AttemptRecs /\ x.pc = "sent" /\ x.from = Direct
  BY RestingRecord DEF AttemptRecs
<1> HIDE DEF x
<1> QED
  BY <1>1, <1>2, QuietThread DEF In, Owed

LEMMA AskKeeps ==
    ASSUME ThrottleInv, NEW t \in Threads, Ask(t)
    PROVE  ThrottleInv'
<1>1. /\ attempt[t].pc = "sent" /\ attempt[t] \in AttemptRecs
      /\ UNCHANGED <<row, byAddress, global, wrong, guesses, overlapped>>
  BY DEF Ask, ThrottleInv, ThrottleTypes
<1>2. CASE row.locked = 0
  <2> DEFINE x == [attempt[t] EXCEPT !.pc = "verify"]
  <2>1. attempt' = [attempt EXCEPT ![t] = x]
    BY <1>2 DEF Ask, At
  <2>2. x \in AttemptRecs /\ x.pc = "verify" /\ x.from = attempt[t].from
    BY <1>1 DEF AttemptRecs
  <2> HIDE DEF x
  <2> QED
    BY <1>1, <2>1, <2>2, QuietThread DEF In, Owed, Flying
<1>3. CASE row.locked # 0
  <2>1. attempt' = [attempt EXCEPT ![t] = Resting]
    BY <1>3 DEF Ask, Rest
  <2> QED
    BY <1>1, <2>1, RestingRecord, QuietThread DEF In, Owed
<1> QED
  BY <1>2, <1>3

LEMMA RightKeeps ==
    ASSUME ThrottleInv, NEW t \in Threads, Right(t)
    PROVE  ThrottleInv'
<1>1. ThrottleTypes /\ ConsoleCounts /\ BelowLimit /\ RowHasAll
  BY DEF ThrottleInv
<1>2. /\ attempt[t].pc = "verify" /\ attempt[t] \in AttemptRecs
      /\ row' = NoRow /\ wrong' = NoFailures
      /\ overlapped' = (\E o \in Threads \ {t} : attempt[o].pc = "write")
      /\ UNCHANGED <<byAddress, global, guesses>>
  BY <1>1 DEF Right, ThrottleTypes
<1>3. PICK x \in AttemptRecs :
        /\ attempt' = [attempt EXCEPT ![t] = x]
        /\ x.from \in {Direct, attempt[t].from}
        /\ x.pc \in {"idle", "welcome"} /\ (x.pc = "welcome" => x.from # Direct)
  <2>1. CASE attempt[t].from = Direct
    BY <2>1, RestingRecord DEF Right, Rest
  <2>2. CASE attempt[t].from # Direct
    <3>1. attempt' = [attempt EXCEPT ![t] = [attempt[t] EXCEPT !.pc = "welcome"]]
      BY <2>2 DEF Right, At
    <3>2. [attempt[t] EXCEPT !.pc = "welcome"] \in AttemptRecs
      BY <1>2 DEF AttemptRecs
    <3> QED
      BY <3>1, <3>2, <2>2, <1>2 DEF AttemptRecs
  <2> QED
    BY <2>1, <2>2
<1>4. /\ attempt' \in [Threads -> AttemptRecs] /\ attempt'[t] = x
      /\ \A o \in Threads : o # t => attempt'[o] = attempt[o]
  BY <1>1, <1>3, ThreadGoesOn
<1>5. ConsoleCounts'
  BY <1>1, <1>2, <1>3, ConsoleStays DEF In, Flying, Owed
<1>6. ThrottleTypes'
  BY <1>1, <1>2, <1>4, RestingRecord, NoFailuresCount DEF ThrottleTypes
<1>7. BelowLimit'
  <2>1. AllOf(row'.fails) < MaxFails
    BY <1>2, RestingRecord
  <2> QED
    BY <2>1, <1>1, <1>3, <1>4 DEF BelowLimit
<1>8. RowHasAll'
  <2>1. AllOf(wrong') <= MaxFails
    BY <1>2, NoFailuresCount, ThrottleNumbers
  <2>2. \A a \in 1..Window : wrong'[a] <= row'.fails[a]
    BY <1>2 DEF NoRow, NoFailures
  <2>3. ~overlapped' => \A o \in Threads : attempt'[o].pc # "write"
    BY <1>2, <1>3, <1>4
  <2> QED
    BY <2>1, <2>2, <2>3 DEF RowHasAll
<1> QED
  BY <1>5, <1>6, <1>7, <1>8 DEF ThrottleInv

LEMMA WrongKeeps ==
    ASSUME ThrottleInv, NEW t \in Threads, Wrong(t)
    PROVE  ThrottleInv'
<1> DEFINE x == [attempt[t] EXCEPT !.pc = "count"]
<1>1. ThrottleTypes /\ ConsoleCounts /\ BelowLimit /\ RowHasAll
  BY DEF ThrottleInv
<1>2. /\ attempt[t].pc = "verify" /\ attempt[t] \in AttemptRecs
      /\ attempt' = [attempt EXCEPT ![t] = x]
      /\ guesses' = IF attempt[t].from = Direct THEN guesses ELSE OneMore(guesses)
      /\ UNCHANGED <<row, byAddress, global, wrong, overlapped>>
  BY <1>1 DEF Wrong, At, ThrottleTypes
<1>3. x \in AttemptRecs /\ x.pc = "count" /\ x.from = attempt[t].from
  BY <1>2 DEF AttemptRecs
<1> HIDE DEF x
<1>4. CASE attempt[t].from = Direct
  BY <1>2, <1>3, <1>4, QuietThread DEF In, Owed, Flying
<1>5. CASE attempt[t].from # Direct
  <2>1. guesses' = OneMore(guesses) /\ guesses \in FailureCounts /\ global \in FailureCounts
    BY <1>1, <1>2, <1>5 DEF ThrottleTypes
  <2>2. In(x, Flying) /\ In(attempt[t], Flying) /\ In(x, Owed) /\ ~In(attempt[t], Owed)
    BY <1>2, <1>3, <1>5 DEF In, Flying, Owed
  <2>3. /\ Cardinality(Stage(Flying)') = Cardinality(Stage(Flying))
        /\ Cardinality(Stage(Owed)') = Cardinality(Stage(Owed)) + 1
    BY <1>1, <1>2, <1>3, <2>2, ThreadGoesOn
  <2>4. ThrottleTypes'
    BY <1>1, <1>2, <1>3, <2>1, OneMoreCounts, ThreadGoesOn DEF ThrottleTypes
  <2>5. BelowLimit' /\ RowHasAll'
    BY <1>1, <1>2, <1>3, RowStays
  <2>6. AdmittedFit' /\ AddressesShare'
    BY <1>1, <1>2, <2>3 DEF ConsoleCounts, AdmittedFit, AddressesShare
  <2>7. NotesHaveAddress'
    BY <1>1, <1>2, <1>3, ThreadGoesOn DEF ConsoleCounts, NotesHaveAddress
  <2>8. GuessesNoted'
    <3> SUFFICES ASSUME NEW k \in 0..Window
                 PROVE  AllOf(Upto(guesses', k)) <= AllOf(Upto(global, k)) + Cardinality(Stage(Owed)')
      BY <1>2 DEF GuessesNoted
    <3>1. /\ AllOf(Upto(guesses, k)) \in Nat /\ AllOf(Upto(global, k)) \in Nat
          /\ Cardinality(Stage(Owed)) \in Nat
      BY <2>1, FailuresFinite, UptoCounts, ThreadsCounted
    <3>2. AllOf(Upto(guesses, k)) <= AllOf(Upto(global, k)) + Cardinality(Stage(Owed))
      BY <1>1 DEF ConsoleCounts, GuessesNoted
    <3>3. CASE k = 0
      <4>1. AllOf(Upto(guesses', k)) = AllOf(Upto(guesses, k))
        BY <3>3, <2>1, UptoCounts, OneMoreCounts
      <4> QED
        BY <4>1, <3>1, <3>2, <2>3
    <3>4. CASE k # 0
      <4>1. k \in 1..Window
        BY <3>4, ThrottleNumbers
      <4>2. AllOf(Upto(guesses', k)) = AllOf(Upto(guesses, k)) + 1
        BY <4>1, <2>1, UptoOneMore
      <4> QED
        BY <4>2, <3>1, <3>2, <2>3
    <3> QED
      BY <3>3, <3>4
  <2> QED
    BY <2>4, <2>5, <2>6, <2>7, <2>8 DEF ThrottleInv, ConsoleCounts
<1> QED
  BY <1>4, <1>5

LEMMA ReadRowKeeps ==
    ASSUME ThrottleInv, NEW t \in Threads, ReadRow(t)
    PROVE  ThrottleInv'
<1> DEFINE x == [attempt[t] EXCEPT !.pc = "write", !.read = row]
<1>1. ThrottleTypes /\ ConsoleCounts /\ BelowLimit /\ RowHasAll
  BY DEF ThrottleInv
<1>2. /\ attempt[t].pc = "count" /\ attempt[t] \in AttemptRecs
      /\ attempt' = [attempt EXCEPT ![t] = x]
      /\ overlapped' = (overlapped \/ \E o \in Threads \ {t} : attempt[o].pc = "write")
      /\ UNCHANGED <<row, byAddress, global, wrong, guesses>>
  BY <1>1 DEF ReadRow, ThrottleTypes
<1>3. x \in AttemptRecs /\ x.pc = "write" /\ x.from = attempt[t].from /\ x.read = row
  BY <1>1, <1>2 DEF AttemptRecs, ThrottleTypes
<1> HIDE DEF x
<1>4. /\ attempt' \in [Threads -> AttemptRecs] /\ attempt'[t] = x
      /\ \A o \in Threads : o # t => attempt'[o] = attempt[o]
  BY <1>1, <1>2, <1>3, ThreadGoesOn
<1>5. ConsoleCounts'
  BY <1>1, <1>2, <1>3, ConsoleStays DEF In, Flying, Owed
<1>6. ThrottleTypes'
  BY <1>1, <1>2, <1>4 DEF ThrottleTypes
<1>7. BelowLimit'
  <2>1. AllOf(row'.fails) < MaxFails
    BY <1>1, <1>2 DEF BelowLimit
  <2> QED
    BY <2>1, <1>1, <1>2, <1>3, <1>4 DEF BelowLimit
<1>8. RowHasAll'
  <2>1. AllOf(wrong') <= MaxFails
    BY <1>1, <1>2 DEF RowHasAll
  <2>2. ~overlapped' => ~overlapped /\ \A o \in Threads : o # t => attempt'[o].pc # "write"
    BY <1>2, <1>4
  <2> QED
    BY <2>1, <2>2, <1>1, <1>2, <1>3, <1>4 DEF RowHasAll
<1> QED
  BY <1>5, <1>6, <1>7, <1>8 DEF ThrottleInv

(* What a thread does next after the failure was counted, or was not.       *)
LEMMA AfterFailureGoes ==
    ASSUME ThrottleTypes, ConsoleCounts, NEW t \in Threads,
           attempt[t].pc \in {"count", "write"}, AfterFailure(t),
           UNCHANGED <<byAddress, global, guesses>>
    PROVE  /\ attempt' \in [Threads -> AttemptRecs] /\ attempt'[t].pc # "write"
           /\ \A o \in Threads : o # t => attempt'[o] = attempt[o]
           /\ ConsoleCounts'
<1>1. attempt[t] \in AttemptRecs
  BY DEF ThrottleTypes
<1>2. CASE attempt[t].from = Direct
  <2>1. attempt' = [attempt EXCEPT ![t] = Resting]
    BY <1>2 DEF AfterFailure, Rest
  <2>2. ConsoleCounts'
    BY <1>2, <2>1, RestingRecord, ConsoleStays DEF In, Flying, Owed
  <2> QED
    BY <2>1, <2>2, RestingRecord, ThreadGoesOn
<1>3. CASE attempt[t].from # Direct
  <2> DEFINE x == [Resting EXCEPT !.pc = "note", !.from = attempt[t].from]
  <2>1. attempt' = [attempt EXCEPT ![t] = x]
    BY <1>3 DEF AfterFailure
  <2>2. x \in AttemptRecs /\ x.pc = "note" /\ x.from = attempt[t].from
    BY <1>1, RestingRecord DEF AttemptRecs
  <2> HIDE DEF x
  <2>3. ConsoleCounts'
    BY <1>3, <2>1, <2>2, ConsoleStays DEF In, Flying, Owed
  <2> QED
    BY <2>1, <2>2, <2>3, ThreadGoesOn
<1> QED
  BY <1>2, <1>3

LEMMA CountFailsKeeps ==
    ASSUME ThrottleInv, NEW t \in Threads, CountFails(t)
    PROVE  ThrottleInv'
<1>1. ThrottleTypes /\ ConsoleCounts /\ BelowLimit /\ RowHasAll
  BY DEF ThrottleInv
<1>2. /\ attempt[t].pc \in {"count", "write"} /\ AfterFailure(t) /\ overlapped' = TRUE
      /\ UNCHANGED <<row, byAddress, global, wrong, guesses>>
  BY DEF CountFails
<1>3. /\ attempt' \in [Threads -> AttemptRecs] /\ attempt'[t].pc # "write"
      /\ \A o \in Threads : o # t => attempt'[o] = attempt[o]
      /\ ConsoleCounts'
  BY <1>1, <1>2, AfterFailureGoes
<1>4. ThrottleTypes'
  BY <1>1, <1>2, <1>3 DEF ThrottleTypes
<1>5. BelowLimit'
  <2>1. AllOf(row'.fails) < MaxFails
    BY <1>1, <1>2 DEF BelowLimit
  <2> QED
    BY <2>1, <1>1, <1>3 DEF BelowLimit
<1>6. RowHasAll'
  <2>1. AllOf(wrong') <= MaxFails
    BY <1>1, <1>2 DEF RowHasAll
  <2> QED
    BY <2>1, <1>2 DEF RowHasAll
<1> QED
  BY <1>3, <1>4, <1>5, <1>6 DEF ThrottleInv

LEMMA WriteRowKeeps ==
    ASSUME ThrottleInv, NEW t \in Threads, WriteRow(t)
    PROVE  ThrottleInv'
<1> DEFINE read == attempt[t].read
<1>1. ThrottleTypes /\ ConsoleCounts /\ BelowLimit /\ RowHasAll
  BY DEF ThrottleInv
<1>2. /\ attempt[t].pc = "write" /\ AfterFailure(t) /\ row' = Counted(read)
      /\ wrong' = IF row'.locked = Lockout THEN NoFailures
                  ELSE IF AllOf(wrong) = MaxFails THEN wrong ELSE OneMore(wrong)
      /\ UNCHANGED <<byAddress, global, guesses, overlapped>>
  BY DEF WriteRow
<1>3. /\ attempt' \in [Threads -> AttemptRecs] /\ attempt'[t].pc # "write"
      /\ \A o \in Threads : o # t => attempt'[o] = attempt[o]
      /\ ConsoleCounts'
  BY <1>1, <1>2, AfterFailureGoes
<1>4. /\ read.fails \in FailureCounts /\ read.locked \in 0..Lockout
      /\ AllOf(read.fails) < MaxFails /\ AllOf(read.fails) \in Nat /\ MaxFails \in Nat
      /\ wrong \in FailureCounts /\ AllOf(wrong) \in Nat /\ AllOf(wrong) <= MaxFails
  <2>1. read.fails \in FailureCounts /\ read.locked \in 0..Lockout
    BY <1>1 DEF ThrottleTypes, AttemptRecs
  <2>2. AllOf(read.fails) < MaxFails
    BY <1>1, <1>2 DEF BelowLimit
  <2>3. wrong \in FailureCounts /\ AllOf(wrong) <= MaxFails
    BY <1>1 DEF ThrottleTypes, RowHasAll
  <2> QED
    BY <2>1, <2>2, <2>3, FailuresFinite, ThrottleNumbers
<1> HIDE DEF read
<1>5. \/ /\ row' = [fails |-> NoFailures, locked |-> Lockout]
      \/ /\ row' = [fails |-> OneMore(read.fails), locked |-> read.locked]
         /\ AllOf(read.fails) + 1 < MaxFails
  BY <1>2, <1>4 DEF Counted
<1>6. /\ row' \in [fails : FailureCounts, locked : 0..Lockout]
      /\ AllOf(row'.fails) < MaxFails
  <2>1. CASE row' = [fails |-> NoFailures, locked |-> Lockout]
    <3>1. Lockout \in 0..Lockout /\ AllOf(NoFailures) < MaxFails
      BY ThrottleNumbers, NoFailuresCount
    <3> QED
      BY <2>1, <3>1, NoFailuresCount
  <2>2. CASE /\ row' = [fails |-> OneMore(read.fails), locked |-> read.locked]
             /\ AllOf(read.fails) + 1 < MaxFails
    BY <2>2, <1>4, OneMoreCounts
  <2> QED
    BY <1>5, <2>1, <2>2
<1>7. wrong' \in FailureCounts /\ AllOf(wrong') <= MaxFails
  <2>1. CASE wrong' = NoFailures
    BY <2>1, NoFailuresCount, ThrottleNumbers
  <2>2. CASE wrong' = wrong
    BY <2>2, <1>4
  <2>3. CASE wrong' = OneMore(wrong) /\ AllOf(wrong) # MaxFails
    BY <2>3, <1>4, OneMoreCounts
  <2> QED
    BY <1>2, <2>1, <2>2, <2>3
<1>8. ThrottleTypes'
  BY <1>1, <1>2, <1>3, <1>6, <1>7 DEF ThrottleTypes
<1>9. BelowLimit'
  BY <1>1, <1>3, <1>6 DEF BelowLimit
<1>10. ASSUME ~overlapped'
       PROVE  /\ \A a \in 1..Window : wrong'[a] <= row'.fails[a]
              /\ \A o \in Threads : attempt'[o].pc # "write"
  <2>1. /\ \A a \in 1..Window : wrong[a] <= row.fails[a]
        /\ \A o \in Threads : attempt[o].pc = "write" => o = t
        /\ read = row
    BY <1>1, <1>2, <1>10 DEF RowHasAll, read
  <2>2. \A o \in Threads : attempt'[o].pc # "write"
    BY <1>3, <2>1
  <2>3. CASE row'.locked = Lockout
    <3>1. wrong' = NoFailures /\ row'.fails \in FailureCounts
      BY <1>2, <1>6, <2>3
    <3>2. \A a \in 1..Window : row'.fails[a] \in Nat
      BY <3>1, CountIsFunction
    <3>3. \A a \in 1..Window : wrong'[a] = 0
      BY <3>1 DEF NoFailures
    <3> QED
      BY <2>2, <3>2, <3>3
  <2>4. CASE row'.locked # Lockout
    <3>1. row'.fails = OneMore(row.fails)
      BY <1>5, <2>1, <2>4
    <3>2. row.fails \in FailureCounts /\ \A a \in 1..Window : wrong[a] \in Nat /\ row.fails[a] \in Nat
      <4>1. row.fails \in FailureCounts
        BY <1>4, <2>1
      <4> QED
        BY <4>1, <1>4, CountIsFunction
    <3>3. AllOf(wrong) <= AllOf(row.fails)
      BY <1>4, <2>1, <3>2, FewerFailures
    <3>4. AllOf(wrong) # MaxFails
      BY <1>4, <2>1, <3>3
    <3>5. wrong' = OneMore(wrong)
      BY <1>2, <2>4, <3>4
    <3>6. ASSUME NEW a \in 1..Window PROVE OneMore(wrong)[a] <= OneMore(row.fails)[a]
      <4>1. /\ OneMore(wrong)[a] = IF a = 1 THEN wrong[1] + 1 ELSE wrong[a]
            /\ OneMore(row.fails)[a] = IF a = 1 THEN row.fails[1] + 1 ELSE row.fails[a]
        BY <1>4, <3>2 DEF OneMore, FailureCounts
      <4>2. wrong[a] <= row.fails[a] /\ wrong[a] \in Nat /\ row.fails[a] \in Nat
        BY <2>1, <3>2
      <4> QED
        BY <4>1, <4>2
    <3> QED
      BY <2>2, <3>1, <3>5, <3>6
  <2> QED
    BY <2>3, <2>4
<1>11. RowHasAll'
  BY <1>7, <1>10 DEF RowHasAll
<1> QED
  BY <1>3, <1>8, <1>9, <1>11 DEF ThrottleInv

LEMMA NoteKeeps ==
    ASSUME ThrottleInv, NEW t \in Threads, Note(t)
    PROVE  ThrottleInv'
<1> DEFINE i == attempt[t].from
<1>1. ThrottleTypes /\ ConsoleCounts /\ BelowLimit /\ RowHasAll
  BY DEF ThrottleInv
<1>2. /\ attempt[t].pc = "note" /\ attempt[t] \in AttemptRecs
      /\ byAddress' = [byAddress EXCEPT ![i] = OneMore(@)]
      /\ global' = OneMore(global) /\ attempt' = [attempt EXCEPT ![t] = Resting]
      /\ UNCHANGED <<row, wrong, guesses, overlapped>>
  BY <1>1 DEF Note, Rest, ThrottleTypes
<1>3. i # Direct /\ i \in Clients
  BY <1>1, <1>2 DEF ConsoleCounts, NotesHaveAddress, AttemptRecs
<1>4. /\ byAddress \in [Clients -> FailureCounts] /\ global \in FailureCounts
      /\ guesses \in FailureCounts
  BY <1>1 DEF ThrottleTypes
<1>5. /\ byAddress'[i] = OneMore(byAddress[i]) /\ byAddress[i] \in FailureCounts
      /\ \A j \in Clients : j # i => byAddress'[j] = byAddress[j]
      /\ byAddress' \in [Clients -> FailureCounts]
  <2>1. OneMore(byAddress[i]) \in FailureCounts
    BY <1>3, <1>4, OneMoreCounts
  <2> QED
    BY <1>2, <1>3, <1>4, <2>1
<1> HIDE DEF i
<1>6. /\ attempt' \in [Threads -> AttemptRecs] /\ attempt'[t] = Resting
      /\ \A o \in Threads : o # t => attempt'[o] = attempt[o]
      /\ Cardinality(Stage(Flying)') = Cardinality(Stage(Flying)) - 1
      /\ Cardinality(Stage(Owed)') = Cardinality(Stage(Owed)) - 1
  <2>1. /\ ~In(Resting, Flying) /\ In(attempt[t], Flying)
        /\ ~In(Resting, Owed) /\ In(attempt[t], Owed)
    BY <1>2, <1>3, RestingRecord DEF In, Flying, Owed, i
  <2> QED
    BY <1>1, <1>2, <2>1, RestingRecord, ThreadGoesOn
<1>7. ThrottleTypes'
  BY <1>1, <1>2, <1>5, <1>6, OneMoreCounts DEF ThrottleTypes
<1>8. BelowLimit' /\ RowHasAll'
  BY <1>1, <1>2, RestingRecord, RowStays
<1>9. AdmittedFit'
  <2>1. /\ AllOf(global') = AllOf(global) + 1 /\ AllOf(global) \in Nat
        /\ Cardinality(Stage(Flying)) \in Nat
    BY <1>2, <1>4, OneMoreCounts, FailuresFinite, ThreadsCounted
  <2>2. AllOf(global) + Cardinality(Stage(Flying)) <= MaxGlobal - 1 + Cardinality(Threads)
    BY <1>1 DEF ConsoleCounts, AdmittedFit
  <2>3. MaxGlobal \in Nat /\ Cardinality(Threads) \in Nat
    BY ThrottleNumbers, ThreadsCounted
  <2>4. AllOf(global') + Cardinality(Stage(Flying)') = AllOf(global) + Cardinality(Stage(Flying))
    BY <1>6, <2>1
  <2> QED
    BY <2>2, <2>3, <2>4 DEF AdmittedFit
<1>10. GuessesNoted'
  <2> SUFFICES ASSUME NEW k \in 0..Window
               PROVE  AllOf(Upto(guesses, k)) <= AllOf(Upto(global', k)) + Cardinality(Stage(Owed)')
    BY <1>2 DEF GuessesNoted
  <2>1. /\ AllOf(Upto(guesses, k)) \in Nat /\ AllOf(Upto(global, k)) \in Nat
        /\ Cardinality(Stage(Owed)) \in Nat /\ Cardinality(Stage(Owed)') \in Nat
    <3>1. Stage(Owed)' \subseteq Threads /\ IsFiniteSet(Threads)
      BY ThreadsCounted DEF Stage
    <3>2. Cardinality(Stage(Owed)') \in Nat
      BY <3>1, FS_Subset, FS_CardinalityType
    <3> QED
      BY <1>4, <3>2, FailuresFinite, UptoCounts, ThreadsCounted
  <2>2. AllOf(Upto(guesses, k)) <= AllOf(Upto(global, k)) + Cardinality(Stage(Owed))
    BY <1>1 DEF ConsoleCounts, GuessesNoted
  <2>3. CASE k = 0
    <3>1. AllOf(Upto(guesses, k)) = 0 /\ AllOf(Upto(global', k)) = 0
      BY <1>2, <1>4, <2>3, UptoCounts, OneMoreCounts, NoFailuresCount
    <3> QED
      BY <3>1, <2>1
  <2>4. CASE k # 0
    <3>1. k \in 1..Window
      BY <2>4, ThrottleNumbers
    <3>2. AllOf(Upto(global', k)) = AllOf(Upto(global, k)) + 1
      BY <3>1, <1>2, <1>4, UptoOneMore
    <3> QED
      BY <3>2, <1>6, <2>1, <2>2
  <2> QED
    BY <2>3, <2>4
<1>11. AddressesShare'
  <2> SUFFICES ASSUME NEW j \in Clients, NEW a \in 1..Window
               PROVE  byAddress'[j][a] <= OneMore(global)[a]
    BY <1>2 DEF AddressesShare
  <2>1. /\ byAddress[j][a] <= global[a] /\ byAddress[j][a] \in Nat /\ global[a] \in Nat
    <3>1. byAddress[j][a] <= global[a]
      BY <1>1 DEF ConsoleCounts, AddressesShare
    <3>2. byAddress[j] \in FailureCounts
      BY <1>4
    <3> QED
      BY <3>1, <3>2, <1>4, CountIsFunction
  <2>2. /\ OneMore(global)[a] = IF a = 1 THEN global[1] + 1 ELSE global[a]
        /\ OneMore(byAddress[i])[a] = IF a = 1 THEN byAddress[i][1] + 1 ELSE byAddress[i][a]
    BY <1>4, <1>5 DEF OneMore, FailureCounts
  <2>3. CASE j = i
    BY <2>1, <2>2, <2>3, <1>5
  <2>4. CASE j # i
    BY <2>1, <2>2, <2>4, <1>5
  <2> QED
    BY <2>3, <2>4
<1>12. NotesHaveAddress'
  BY <1>1, <1>6, RestingRecord DEF ConsoleCounts, NotesHaveAddress
<1> QED
  BY <1>7, <1>8, <1>9, <1>10, <1>11, <1>12 DEF ThrottleInv, ConsoleCounts

LEMMA WelcomeKeeps ==
    ASSUME ThrottleInv, NEW t \in Threads, Welcome(t)
    PROVE  ThrottleInv'
<1> DEFINE i == attempt[t].from
<1>1. ThrottleTypes /\ ConsoleCounts /\ BelowLimit /\ RowHasAll
  BY DEF ThrottleInv
<1>2. /\ attempt[t].pc = "welcome" /\ attempt[t] \in AttemptRecs
      /\ byAddress' = [byAddress EXCEPT ![i] = NoFailures]
      /\ global' = global /\ attempt' = [attempt EXCEPT ![t] = Resting]
      /\ UNCHANGED <<row, wrong, guesses, overlapped>>
  BY <1>1 DEF Welcome, Rest, GlobalAfter, ThrottleTypes
<1>3. /\ attempt' \in [Threads -> AttemptRecs] /\ attempt'[t] = Resting
      /\ \A o \in Threads : o # t => attempt'[o] = attempt[o]
      /\ Cardinality(Stage(Flying)') = Cardinality(Stage(Flying))
      /\ Cardinality(Stage(Owed)') = Cardinality(Stage(Owed))
  <2>1. /\ ~In(Resting, Flying) /\ ~In(attempt[t], Flying)
        /\ ~In(Resting, Owed) /\ ~In(attempt[t], Owed)
    BY <1>2, RestingRecord DEF In, Flying, Owed
  <2> QED
    BY <1>1, <1>2, <2>1, RestingRecord, ThreadGoesOn
<1>4. /\ byAddress \in [Clients -> FailureCounts] /\ global \in FailureCounts
      /\ byAddress' \in [Clients -> FailureCounts]
      /\ \A j \in Clients : byAddress'[j] = byAddress[j] \/ byAddress'[j] = NoFailures
  BY <1>1, <1>2, NoFailuresCount DEF ThrottleTypes
<1>5. ThrottleTypes'
  BY <1>1, <1>2, <1>3, <1>4 DEF ThrottleTypes
<1>6. BelowLimit' /\ RowHasAll'
  BY <1>1, <1>2, RestingRecord, RowStays
<1>7. AdmittedFit' /\ GuessesNoted'
  BY <1>1, <1>2, <1>3 DEF ConsoleCounts, AdmittedFit, GuessesNoted
<1>8. AddressesShare'
  <2> SUFFICES ASSUME NEW j \in Clients, NEW a \in 1..Window
               PROVE  byAddress'[j][a] <= global[a]
    BY <1>2 DEF AddressesShare
  <2>1. byAddress[j][a] <= global[a] /\ global[a] \in Nat /\ NoFailures[a] = 0
    BY <1>1, <1>4, CountIsFunction DEF ConsoleCounts, AddressesShare, NoFailures
  <2> QED
    BY <2>1, <1>4
<1>9. NotesHaveAddress'
  BY <1>1, <1>3, RestingRecord DEF ConsoleCounts, NotesHaveAddress
<1> QED
  BY <1>5, <1>6, <1>7, <1>8, <1>9 DEF ThrottleInv, ConsoleCounts

LEMMA AgedRows ==
    ASSUME NEW r \in [fails : FailureCounts, locked : 0..Lockout]
    PROVE  /\ AgedRow(r) \in [fails : FailureCounts, locked : 0..Lockout]
           /\ AllOf(AgedRow(r).fails) <= AllOf(r.fails)
           /\ AllOf(AgedRow(r).fails) \in Nat /\ AllOf(r.fails) \in Nat
<1>1. Aged(r.fails) \in FailureCounts /\ AllOf(Aged(r.fails)) <= AllOf(r.fails)
  BY AgedCounts
<1>2. Left(r.locked) \in 0..Lockout
  BY ThrottleNumbers DEF Left
<1>3. AllOf(Aged(r.fails)) \in Nat /\ AllOf(r.fails) \in Nat
  BY <1>1, FailuresFinite
<1> QED
  BY <1>1, <1>2, <1>3 DEF AgedRow

(* Older and fewer at each age stay fewer.                                  *)
LEMMA AgedFewer ==
    ASSUME NEW c \in FailureCounts, NEW d \in FailureCounts,
           \A a \in 1..Window : c[a] <= d[a]
    PROVE  \A a \in 1..Window : Aged(c)[a] <= Aged(d)[a]
<1> TAKE a \in 1..Window
<1>1. CASE a = 1
  BY <1>1 DEF Aged
<1>2. CASE a # 1
  <2>1. a - 1 \in 1..Window
    BY <1>2, ThrottleNumbers
  <2> QED
    BY <1>2, <2>1 DEF Aged
<1> QED
  BY <1>1, <1>2

LEMMA MinuteKeeps ==
    ASSUME ThrottleInv, Minute
    PROVE  ThrottleInv'
<1>1. ThrottleTypes /\ ConsoleCounts /\ BelowLimit /\ RowHasAll
  BY DEF ThrottleInv
<1>2. /\ row' = AgedRow(row) /\ global' = Aged(global)
      /\ byAddress' = [i \in Clients |-> Aged(byAddress[i])]
      /\ wrong' = Aged(wrong) /\ guesses' = Aged(guesses) /\ overlapped' = overlapped
      /\ attempt' = [t \in Threads |-> [attempt[t] EXCEPT !.read = AgedRow(attempt[t].read)]]
  BY DEF Minute
<1>3. /\ row \in [fails : FailureCounts, locked : 0..Lockout]
      /\ byAddress \in [Clients -> FailureCounts] /\ global \in FailureCounts
      /\ wrong \in FailureCounts /\ guesses \in FailureCounts
      /\ \A t \in Threads : attempt[t] \in AttemptRecs
  BY <1>1 DEF ThrottleTypes
<1>4. \A t \in Threads : attempt[t].read \in [fails : FailureCounts, locked : 0..Lockout]
  BY <1>3 DEF AttemptRecs
<1>5. \A t \in Threads :
         /\ attempt'[t] \in AttemptRecs /\ attempt'[t].pc = attempt[t].pc
         /\ attempt'[t].from = attempt[t].from
         /\ attempt'[t].read = AgedRow(attempt[t].read)
  <2> TAKE t \in Threads
  <2>1. AgedRow(attempt[t].read) \in [fails : FailureCounts, locked : 0..Lockout]
    BY <1>4, AgedRows
  <2> QED
    BY <1>2, <1>3, <2>1 DEF AttemptRecs
<1>6. /\ Aged(global) \in FailureCounts /\ Aged(wrong) \in FailureCounts
      /\ Aged(guesses) \in FailureCounts
      /\ \A i \in Clients : Aged(byAddress[i]) \in FailureCounts
  BY <1>3, AgedCounts
<1>7. AgedRow(row) \in [fails : FailureCounts, locked : 0..Lockout]
  BY <1>3, AgedRows
<1>8. ThrottleTypes'
  <2>1. attempt' \in [Threads -> AttemptRecs]
    BY <1>2, <1>5
  <2> QED
    BY <1>1, <1>2, <1>6, <1>7, <2>1 DEF ThrottleTypes
<1>9. Stage(Flying)' = Stage(Flying) /\ Stage(Owed)' = Stage(Owed)
  BY <1>5 DEF Stage
<1>10. AdmittedFit'
  <2>1. AllOf(global') <= AllOf(global) /\ AllOf(global) \in Nat /\ AllOf(global') \in Nat
    BY <1>2, <1>3, <1>6, AgedCounts, FailuresFinite
  <2>2. AllOf(global) + Cardinality(Stage(Flying)) <= MaxGlobal - 1 + Cardinality(Threads)
    BY <1>1 DEF ConsoleCounts, AdmittedFit
  <2>3. MaxGlobal \in Nat /\ Cardinality(Threads) \in Nat /\ Cardinality(Stage(Flying)) \in Nat
    BY ThrottleNumbers, ThreadsCounted
  <2>4. Cardinality(Stage(Flying)') = Cardinality(Stage(Flying))
    BY <1>9
  <2> QED
    BY <2>1, <2>2, <2>3, <2>4 DEF AdmittedFit
<1>11. GuessesNoted'
  <2> SUFFICES ASSUME NEW k \in 0..Window
               PROVE  AllOf(Upto(Aged(guesses), k))
                        <= AllOf(Upto(Aged(global), k)) + Cardinality(Stage(Owed))
    BY <1>2, <1>9 DEF GuessesNoted
  <2>1. Cardinality(Stage(Owed)) \in Nat
    BY ThreadsCounted
  <2>2. CASE k = 0
    <3>1. AllOf(Upto(Aged(guesses), k)) = 0 /\ AllOf(Upto(Aged(global), k)) = 0
      BY <1>6, <2>2, UptoCounts, NoFailuresCount
    <3> QED
      BY <2>1, <3>1
  <2>3. CASE k # 0
    <3>1. k \in 1..Window /\ k - 1 \in 0..Window
      BY <2>3, ThrottleNumbers
    <3>2. /\ AllOf(Upto(Aged(guesses), k)) = AllOf(Upto(guesses, k - 1))
          /\ AllOf(Upto(Aged(global), k)) = AllOf(Upto(global, k - 1))
      BY <3>1, <1>3, UptoAged
    <3>3. AllOf(Upto(guesses, k - 1)) <= AllOf(Upto(global, k - 1)) + Cardinality(Stage(Owed))
      BY <1>1, <3>1 DEF ConsoleCounts, GuessesNoted
    <3> QED
      BY <3>2, <3>3
  <2> QED
    BY <2>2, <2>3
<1>12. AddressesShare'
  <2>1. ASSUME NEW i \in Clients PROVE \A a \in 1..Window : byAddress'[i][a] <= global'[a]
    <3>1. byAddress[i] \in FailureCounts /\ \A a \in 1..Window : byAddress[i][a] <= global[a]
      BY <1>1, <1>3 DEF ConsoleCounts, AddressesShare
    <3>2. byAddress'[i] = Aged(byAddress[i])
      BY <1>2
    <3> QED
      BY <3>1, <3>2, <1>2, <1>3, AgedFewer
  <2> QED
    BY <2>1 DEF AddressesShare
<1>13. NotesHaveAddress'
  BY <1>1, <1>5 DEF ConsoleCounts, NotesHaveAddress
<1>14. BelowLimit'
  <2>1. AllOf(row'.fails) < MaxFails
    BY <1>1, <1>2, <1>3, AgedRows, ThrottleNumbers DEF BelowLimit
  <2>2. ASSUME NEW t \in Threads, attempt'[t].pc = "write"
        PROVE  AllOf(attempt'[t].read.fails) < MaxFails
    <3>1. AllOf(attempt[t].read.fails) < MaxFails
      BY <1>1, <1>5, <2>2 DEF BelowLimit
    <3>2. /\ AllOf(AgedRow(attempt[t].read).fails) <= AllOf(attempt[t].read.fails)
          /\ AllOf(AgedRow(attempt[t].read).fails) \in Nat /\ AllOf(attempt[t].read.fails) \in Nat
      BY <1>4, AgedRows
    <3> QED
      BY <1>5, <3>1, <3>2, ThrottleNumbers
  <2> QED
    BY <2>1, <2>2 DEF BelowLimit
<1>15. RowHasAll'
  <2>1. AllOf(wrong') <= MaxFails
    <3>1. AllOf(Aged(wrong)) <= AllOf(wrong) /\ AllOf(wrong) \in Nat /\ AllOf(Aged(wrong)) \in Nat
      BY <1>3, <1>6, AgedCounts, FailuresFinite
    <3> QED
      BY <3>1, <1>1, <1>2, ThrottleNumbers DEF RowHasAll
  <2>2. ASSUME ~overlapped' PROVE \A a \in 1..Window : wrong'[a] <= row'.fails[a]
    <3>1. row.fails \in FailureCounts /\ \A a \in 1..Window : wrong[a] <= row.fails[a]
      BY <1>1, <1>2, <1>3, <2>2 DEF RowHasAll
    <3>2. row'.fails = Aged(row.fails)
      BY <1>2 DEF AgedRow
    <3> QED
      BY <3>1, <3>2, <1>2, <1>3, AgedFewer
  <2>3. ASSUME ~overlapped'
        PROVE  /\ \A t, o \in Threads : attempt'[t].pc = "write" /\ attempt'[o].pc = "write" => t = o
               /\ \A t \in Threads : attempt'[t].pc = "write" => attempt'[t].read = row'
    <3>1. /\ ~overlapped /\ row' = AgedRow(row)
          /\ \A t \in Threads : /\ attempt'[t].pc = attempt[t].pc
                                /\ attempt'[t].read = AgedRow(attempt[t].read)
      BY <1>2, <1>5, <2>3
    <3>2. /\ \A t, o \in Threads : attempt[t].pc = "write" /\ attempt[o].pc = "write" => t = o
          /\ \A t \in Threads : attempt[t].pc = "write" => attempt[t].read = row
      BY <1>1, <3>1 DEF RowHasAll
    <3> QED
      BY <3>1, <3>2, Zenon
  <2> QED
    BY <2>1, <2>2, <2>3 DEF RowHasAll
<1> QED
  BY <1>8, <1>10, <1>11, <1>12, <1>13, <1>14, <1>15 DEF ThrottleInv, ConsoleCounts

LEMMA ThrottleStarts == ThrottleInit => ThrottleInv
<1> SUFFICES ASSUME ThrottleInit PROVE ThrottleInv
  OBVIOUS
<1>1. /\ row = NoRow /\ byAddress = [i \in Clients |-> NoFailures] /\ global = NoFailures
      /\ attempt = [t \in Threads |-> Resting] /\ wrong = NoFailures /\ guesses = NoFailures
      /\ overlapped = FALSE
  BY DEF ThrottleInit
<1>2. /\ NoFailures \in FailureCounts /\ AllOf(NoFailures) = 0
      /\ \A a \in 1..Window : NoFailures[a] = 0
  BY NoFailuresCount DEF NoFailures
<1>3. ThrottleTypes
  BY <1>1, <1>2, RestingRecord DEF ThrottleTypes
<1>4. AdmittedFit
  <2>1. Stage(Flying) = {}
    BY <1>1, RestingRecord DEF Stage
  <2>2. IsFiniteSet(Threads) /\ Cardinality(Threads) \in Nat /\ MaxGlobal \in Nat \ {0}
    BY ThreadsCounted, ThrottleNumbers
  <2> QED
    BY <1>1, <1>2, <2>1, <2>2, FS_EmptySet DEF AdmittedFit
<1>5. GuessesNoted
  <2> SUFFICES ASSUME NEW k \in 0..Window
               PROVE  AllOf(Upto(NoFailures, k)) <= AllOf(Upto(NoFailures, k)) + Cardinality(Stage(Owed))
    BY <1>1 DEF GuessesNoted
  <2>1. AllOf(Upto(NoFailures, k)) \in Nat /\ Cardinality(Stage(Owed)) \in Nat
    BY <1>2, UptoCounts, FailuresFinite, ThreadsCounted
  <2> QED
    BY <2>1
<1>6. AddressesShare /\ NotesHaveAddress
  BY <1>1, <1>2, RestingRecord DEF AddressesShare, NotesHaveAddress
<1>7. BelowLimit
  BY <1>1, RestingRecord DEF BelowLimit
<1>8. RowHasAll
  <2>1. NoRow.fails = NoFailures
    BY DEF NoRow
  <2> QED
    BY <2>1, <1>1, <1>2, RestingRecord, ThrottleNumbers DEF RowHasAll
<1> QED
  BY <1>3, <1>4, <1>5, <1>6, <1>7, <1>8 DEF ThrottleInv, ConsoleCounts

LEMMA ThrottleStepKeeps == ThrottleInv /\ [ThrottleNext]_throttleVars => ThrottleInv'
<1> SUFFICES ASSUME ThrottleInv, [ThrottleNext]_throttleVars PROVE ThrottleInv'
  OBVIOUS
<1>1. CASE UNCHANGED throttleVars
  <2>1. ThrottleTypes' /\ AdmittedFit' /\ GuessesNoted' /\ AddressesShare' /\ NotesHaveAddress'
    BY <1>1 DEF throttleVars, ThrottleInv, ConsoleCounts, ThrottleTypes, AdmittedFit,
       GuessesNoted, AddressesShare, NotesHaveAddress, Stage
  <2>2. BelowLimit' /\ RowHasAll'
    BY <1>1 DEF throttleVars, ThrottleInv, BelowLimit, RowHasAll
  <2> QED
    BY <2>1, <2>2 DEF ThrottleInv, ConsoleCounts
<1>2. CASE ThrottleNext
  BY <1>2, TryKeeps, TryDirectKeeps, AskKeeps, RightKeeps, WrongKeeps, ReadRowKeeps,
     WriteRowKeeps, CountFailsKeeps, NoteKeeps, WelcomeKeeps, MinuteKeeps DEF ThrottleNext
<1> QED
  BY <1>1, <1>2

LEMMA ThrottleFollows == ThrottleInv => GuessingIsSlowed
<1> SUFFICES ASSUME ThrottleInv PROVE GuessingIsSlowed
  OBVIOUS
<1>1. ThrottleTypes /\ AdmittedFit /\ GuessesNoted /\ AddressesShare /\ BelowLimit /\ RowHasAll
  BY DEF ThrottleInv, ConsoleCounts
<1>2. /\ row \in [fails : FailureCounts, locked : 0..Lockout]
      /\ byAddress \in [Clients -> FailureCounts] /\ global \in FailureCounts
      /\ wrong \in FailureCounts /\ guesses \in FailureCounts
      /\ attempt \in [Threads -> AttemptRecs]
  BY <1>1 DEF ThrottleTypes
<1>3. /\ Cardinality(Threads) \in Nat /\ Cardinality(Stage(Flying)) \in Nat
      /\ Cardinality(Stage(Owed)) \in Nat /\ Cardinality(Stage(Owed)) <= Cardinality(Stage(Flying))
      /\ MaxGlobal \in Nat /\ MaxFails \in Nat
  <2>1. Stage(Owed) \subseteq Stage(Flying)
    BY DEF Stage, Owed, Flying
  <2> QED
    BY <2>1, ThreadsCounted, FS_Subset, ThrottleNumbers
<1>4. AllOf(global) \in Nat /\ AllOf(guesses) \in Nat /\ AllOf(wrong) \in Nat /\ AllOf(row.fails) \in Nat
  BY <1>2, FailuresFinite
<1>5. AllOf(guesses) <= AllOf(global) + Cardinality(Stage(Owed))
  <2>1. Window \in 0..Window
    BY ThrottleNumbers
  <2> QED
    BY <1>1, <1>2, <2>1, UptoCounts DEF GuessesNoted
<1>6. AllOf(global) + Cardinality(Stage(Flying)) <= MaxGlobal - 1 + Cardinality(Threads)
  BY <1>1 DEF AdmittedFit
<1>7. GuessesBounded
  BY <1>3, <1>4, <1>5, <1>6 DEF GuessesBounded
<1>8. LocksWithoutOverlap
  <2> SUFFICES ASSUME ~overlapped PROVE AllOf(wrong) < MaxFails
    BY DEF LocksWithoutOverlap
  <2>1. AllOf(wrong) <= AllOf(row.fails)
    <3>1. row.fails \in FailureCounts /\ \A a \in 1..Window : wrong[a] <= row.fails[a]
      BY <1>1, <1>2 DEF RowHasAll
    <3> QED
      BY <3>1, <1>2, FewerFailures
  <2>2. AllOf(row.fails) < MaxFails
    BY <1>1 DEF BelowLimit
  <2> QED
    BY <2>1, <2>2, <1>3, <1>4
<1>9. /\ global \in Counts(Most) /\ guesses \in Counts(Most)
      /\ byAddress \in [Clients -> Counts(Most)]
  <2>1. Most \in Nat /\ AllOf(global) <= Most /\ AllOf(guesses) <= Most
    BY <1>3, <1>4, <1>6, <1>7 DEF Most, GuessesBounded
  <2>2. ASSUME NEW a \in 1..Window
        PROVE  global[a] \in 0..Most /\ guesses[a] \in 0..Most
    <3>1. /\ global[a] <= AllOf(global) /\ guesses[a] <= AllOf(guesses)
          /\ global[a] \in Nat /\ guesses[a] \in Nat
      BY <1>2, OneAgeIsFewer, CountIsFunction
    <3> QED
      BY <3>1, <2>1, <1>4
  <2>3. ASSUME NEW i \in Clients, NEW a \in 1..Window PROVE byAddress[i][a] \in 0..Most
    <3>1. byAddress[i][a] <= global[a] /\ byAddress[i] \in FailureCounts
      BY <1>1, <1>2 DEF AddressesShare
    <3>2. byAddress[i][a] \in Nat
      BY <3>1, CountIsFunction
    <3> QED
      BY <3>1, <3>2, <2>1, <2>2
  <2>4. global \in Counts(Most) /\ guesses \in Counts(Most)
    BY <1>2, <2>2 DEF Counts, FailureCounts
  <2>5. \A i \in Clients : byAddress[i] \in Counts(Most)
    BY <1>2, <2>3 DEF Counts, FailureCounts
  <2> QED
    BY <1>2, <2>4, <2>5
<1>10. row \in [fails : Counts(MaxFails), locked : 0..Lockout]
  <2>1. row.fails \in FailureCounts /\ AllOf(row.fails) < MaxFails
    BY <1>1, <1>2 DEF BelowLimit
  <2>2. ASSUME NEW a \in 1..Window PROVE row.fails[a] \in 0..MaxFails
    <3>1. row.fails[a] <= AllOf(row.fails) /\ row.fails[a] \in Nat
      BY <2>1, OneAgeIsFewer, CountIsFunction
    <3> QED
      BY <3>1, <2>1, <1>3, <1>4
  <2>3. row.fails \in Counts(MaxFails)
    BY <2>1, <2>2 DEF Counts, FailureCounts
  <2> QED
    BY <1>2, <2>3
<1>11. AllOf(wrong) \in 0..MaxFails
  BY <1>1, <1>3, <1>4 DEF RowHasAll
<1>12. \A t \in Threads :
          /\ attempt[t].pc \in {"idle", "sent", "verify", "count", "write", "note", "welcome"}
          /\ attempt[t].from \in Clients \cup {Direct}
  BY <1>2 DEF AttemptRecs
<1>13. ThrottleTypeOK
  BY <1>1, <1>9, <1>10, <1>11, <1>12 DEF ThrottleTypeOK, ThrottleTypes
<1> QED
  BY <1>7, <1>8, <1>13 DEF GuessingIsSlowed


-----------------------------------------------------------------------------
(* The whole.                                                               *)

(* The records of the hosts stand: no name is recorded twice but by two     *)
(* requests that overlap, an operator's record is not taken over by an      *)
(* agent's report, a changed host key is refused, and the pin that          *)
(* delete_host forgot does not come back (save_hosts,                       *)
(* register_agent_ssh_host, _PinOnFirstUse and _forget_known_host).         *)
THEOREM RecordsStand == AccessSpec => HostRecordsStand
<1>1. AccessInit => SshInv
  BY SshStarts DEF AccessInit
<1>2. SshInv /\ [AccessNext]_accessVars => SshInv' /\ TwiceStep /\ OperatorStep /\ KeyStep
  <2>1. [AccessNext]_accessVars => [SshNext]_sshVars
    BY DEF AccessNext, accessVars
  <2> QED
    BY <2>1, SshStepSafe DEF SshStepHolds
<1>3. SshInv => SshTypeOK /\ ForgottenIsFree
  BY ForgottenFollows
<1>4. TwiceStep => [\A n, m \in HostNames :
         (n # m /\ hosts'[n].ip = hosts'[m].ip /\ hosts'[n].ip # Null /\ hosts[n] # hosts'[n])
            => \E r \in Requests : req[r].pc = "record" /\ req[r].late]_sshVars
  BY DEF TwiceStep
<1>5. OperatorStep => [\A n \in HostNames :
         hosts[n].by = "operator" /\ hosts'[n] # hosts[n] =>
            \/ hosts'[n].by = "operator"
            \/ requests' # requests
            \/ hosts[n].during \/ hosts'[n].ip = hosts[n].ip
            \/ \E r \in Requests : req[r].pc = "drop" /\ req[r].name = n
                                    /\ hosts[n].ip \in req[r].ips]_sshVars
  BY DEF OperatorStep
<1>6. KeyStep => [\A i \in Addresses :
         trusted[i] # Null /\ trusted'[i] # trusted[i] => i \in forgotten \/ crossed]_sshVars
  BY DEF KeyStep
<1> QED
  BY <1>1, <1>2, <1>3, <1>4, <1>5, <1>6, PTL
     DEF AccessSpec, HostRecordsStand, TwiceOnlyByOverlap, OperatorRecordStands,
         ChangedKeyIsRefused

(* Who may act through the console: whoever require_login and its kin let   *)
(* through was entitled to it less than a Ttl ago, unless the controller    *)
(* could not be asked; without single sign-on nobody writes on a temporary  *)
(* password; and with it a cookie alone opens nothing                       *)
(* (_revalidate_session, require_operator, _require_gateway_when_sso).      *)
THEOREM SessionsStand == AccessSpec => SessionsAreGated
<1>1. AccessInit => SessionInv
  BY SessionStarts DEF AccessInit
<1>2. SessionInv /\ [AccessNext]_accessVars
        => SessionInv' /\ RevokedStep /\ TemporaryStep /\ GatewayStep
  <2>1. [AccessNext]_accessVars => [SessionNext]_sessionVars
    BY DEF AccessNext, accessVars
  <2> QED
    BY <2>1, SessionKeeps, GatedStep
<1>3. SessionInv => SessionTypeOK
  BY DEF SessionInv
<1>4. RevokedStep => [\A r \in Tabs :
         LetThrough(r) /\ request[r].kind \notin {"me", "probe"} /\ ~Excused(r) =>
             LET g == grants[request'[r].session.grant]
             IN  /\ g.seen < Ttl
                 /\ request[r].kind = "write" => g.role # "auditor"
                 /\ request[r].kind = "admin" => g.role = "superuser"]_sessionVars
  BY DEF RevokedStep
<1>5. TemporaryStep => [\A r \in Tabs :
         LetThrough(r) /\ request[r].kind \in {"write", "admin"} /\ ~Excused(r) /\ ~sso =>
             accounts[grants[request'[r].session.grant].user].calm < Ttl]_sessionVars
  BY DEF TemporaryStep
<1>6. GatewayStep => [\A r \in Tabs :
         sso /\ LetThrough(r) /\ request[r].kind # "probe" =>
             request[r].ident # NoIdentity]_sessionVars
  BY DEF GatewayStep
<1> QED
  BY <1>1, <1>2, <1>3, <1>4, <1>5, <1>6, PTL
     DEF AccessSpec, SessionsAreGated, RevokedWithinTtl, TemporaryIsGated, SsoNeedsGateway

(* However many clients and names are tried and however requests overlap,   *)
(* the wrong passwords the console passes on in a window exceed             *)
(* _LOGIN_GLOBAL_MAX by less than the requests it serves; and as long as    *)
(* failures are counted one at a time, MaxFails of them lock the name       *)
(* (_throttle_check, login_throttle_record_failure).                        *)
THEOREM GuessersAreSlowed == AccessSpec => []GuessingIsSlowed
<1>1. AccessInit => ThrottleInv
  BY ThrottleStarts DEF AccessInit
<1>2. ThrottleInv /\ [AccessNext]_accessVars => ThrottleInv'
  <2>1. [AccessNext]_accessVars => [ThrottleNext]_throttleVars
    BY DEF AccessNext, accessVars
  <2> QED
    BY <2>1, ThrottleStepKeeps
<1>3. ThrottleInv => GuessingIsSlowed
  BY ThrottleFollows
<1> QED
  BY <1>1, <1>2, <1>3, PTL DEF AccessSpec
=============================================================================
