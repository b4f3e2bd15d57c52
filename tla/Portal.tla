------------------------------- MODULE Portal -------------------------------
(***************************************************************************)
(* The download portal: a process of its own on its own port that the      *)
(* controller starts and stops by a pid file (backend/portal_manager.py),  *)
(* with one shared login whose sessions are rows of the controller's       *)
(* database (backend/portal_app.py, portal_auth.py, db.py).  The portal's  *)
(* handlers are async functions that never await between their first line  *)
(* and their last, so one login runs at a time; the controller's routes    *)
(* run in another process, between any two of its statements.              *)
(***************************************************************************)
EXTENDS Naturals, FiniteSets

CONSTANTS Ports,          \* ports the console may set
          Strikes,        \* failed logins before an address is locked out
          MaxPasswords,   \* bound: credentials ever set
          MaxProcesses,   \* bound: portal processes ever started
          MaxLogins       \* bound: logins tried

ASSUME PortalBounds ==
    /\ Ports # {}
    /\ Strikes \in Nat \ {0}
    /\ {MaxPasswords, MaxProcesses, MaxLogins} \subseteq Nat

VARIABLES account,        \* the credentials in force, numbered; 0: none
          issued,         \* credentials set so far
          sessions,       \* the rows of portal_sessions
          login,          \* the login the portal handles
          strikes,        \* failures since the last success or lock
          change,         \* the credentials request of the controller
          processes,      \* portal processes that live
          spawned,        \* processes started so far
          pidFile,        \* run/portal.pid; 0: no file
          calls,          \* the start and stop calls that run
          confPort,       \* the port the console has set
          logins,         \* logins tried
          tangled         \* two calls overlapped, or a stop did not wait

accountVars == <<account, issued, sessions, login, strikes, change, logins>>
processVars == <<processes, spawned, pidFile, calls, confPort, tangled>>
portalVars == <<accountVars, processVars>>

Quiet == [at |-> "none"]

PIds == 1..MaxProcesses

Live(id) == \E p \in processes : p.id = id

Serving == {p \in processes : p.state = "up"}

PortalInit ==
    /\ account = 0 /\ issued = 0
    /\ sessions = {}
    /\ login = Quiet
    /\ strikes = 0
    /\ change = Quiet
    /\ processes = {} /\ spawned = 0
    /\ pidFile = 0
    /\ calls = [c \in {"start", "start again", "stop"} |-> Quiet]
    /\ confPort \in Ports
    /\ logins = 0
    /\ tangled = FALSE

-----------------------------------------------------------------------------
(* Login.  The handler reads the credentials, spends its time in PBKDF2,    *)
(* and then inserts the session; every step of it is the portal's, the      *)
(* database is not.  A lock ends by its own time.                            *)

LoginReads ==
    /\ Serving # {} /\ login = Quiet /\ logins < MaxLogins
    /\ strikes < Strikes /\ account # 0
    /\ \E right \in BOOLEAN :
        login' = [at |-> "verifying", under |-> account, right |-> right]
    /\ logins' = logins + 1
    /\ UNCHANGED <<account, issued, sessions, strikes, change, processVars>>

LoginRefused ==
    /\ login.at = "verifying" /\ ~login.right
    /\ strikes' = strikes + 1
    /\ login' = Quiet
    /\ UNCHANGED <<account, issued, sessions, change, logins, processVars>>

\* create_session inserts whatever has become of the credentials meanwhile;
\* raced remembers that they were not the ones the password was checked with.
Row == [under |-> login.under,
        raced |-> account # login.under \/ change # Quiet]

LoginAdmits ==
    /\ login.at = "verifying" /\ login.right
    /\ sessions' = sessions \cup {Row}
    /\ strikes' = 0
    /\ login' = Quiet
    /\ UNCHANGED <<account, issued, change, logins, processVars>>

\* The lock ends, or the failures are more than fifteen minutes old.
LockRunsOut ==
    /\ strikes > 0
    /\ strikes' = 0
    /\ UNCHANGED <<account, issued, sessions, login, change, logins, processVars>>

\* A logout, a revocation from the console, or two hours, after which the next
\* look at it (validate_session, or the purge of the console's list) deletes it.
EndSession ==
    \E s \in sessions :
        /\ sessions' = sessions \ {s}
        /\ UNCHANGED <<account, issued, login, strikes, change, logins, processVars>>

-----------------------------------------------------------------------------
(* The controller's credentials routes: the row first, the sessions next.   *)

SetCredentials ==
    /\ change = Quiet /\ issued < MaxPasswords
    /\ issued' = issued + 1
    /\ account' = issued'
    /\ change' = [at |-> "stored"]
    /\ UNCHANGED <<sessions, login, strikes, logins, processVars>>

RemoveCredentials ==
    /\ change = Quiet /\ account # 0
    /\ account' = 0
    /\ change' = [at |-> "stored"]
    /\ UNCHANGED <<issued, sessions, login, strikes, logins, processVars>>

MutKeptSessions == IF account = 0 THEN sessions ELSE {}

\* delete_all_portal_sessions.
KeptSessions == {}

EndSessions ==
    /\ change.at = "stored"
    /\ sessions' = KeptSessions
    /\ change' = Quiet
    /\ UNCHANGED <<account, issued, login, strikes, logins, processVars>>

\* The controller stops between the two statements: nobody ends the sessions.
ControllerStops ==
    /\ change.at = "stored"
    /\ sessions' = {[s EXCEPT !.raced = TRUE] : s \in sessions}
    /\ change' = Quiet
    /\ UNCHANGED <<account, issued, login, strikes, logins, processVars>>

-----------------------------------------------------------------------------
(* The process.  start() looks at the pid file, removes it when its process *)
(* is dead, spawns, writes the file, and waits up to five seconds.          *)

MutBegins(c) == c \in {"start", "start again"}

\* start() returns at once when the pid file names a live process.
Begins(c) == c \in {"start", "start again"} /\ ~Live(pidFile)

Others(c) == \E d \in DOMAIN calls \ {c} : calls[d] # Quiet

Call(c) ==
    /\ calls[c] = Quiet /\ spawned < MaxProcesses
    /\ Begins(c) \/ (c = "stop" /\ Live(pidFile))
    /\ calls' = [calls EXCEPT ![c] = [at |-> IF c = "stop" THEN "kill" ELSE "clean",
                                      pid |-> pidFile]]
    /\ tangled' = (tangled \/ Others(c))
    /\ UNCHANGED <<accountVars, processes, spawned, pidFile, confPort>>

\* status() of a start, or of the page, finds no live process: the files go.
Clean ==
    \/ \E c \in DOMAIN calls :
        /\ calls[c].at = "clean"
        /\ pidFile' = 0
        /\ calls' = [calls EXCEPT ![c].at = "spawn"]
        /\ UNCHANGED <<accountVars, processes, spawned, confPort, tangled>>
    \/ /\ pidFile # 0 /\ ~Live(pidFile)
       /\ pidFile' = 0
       /\ UNCHANGED <<accountVars, processes, spawned, calls, confPort, tangled>>

Spawn ==
    \E c \in DOMAIN calls :
        /\ calls[c].at = "spawn" /\ spawned < MaxProcesses
        /\ spawned' = spawned + 1
        /\ processes' = processes \cup
               {[id |-> spawned', port |-> confPort, state |-> "booting"]}
        /\ pidFile' = spawned'
        /\ calls' = [calls EXCEPT ![c] = [at |-> "wait", pid |-> spawned']]
        /\ UNCHANGED <<accountVars, confPort, tangled>>

\* uvicorn binds its port, or finds it taken (or its certificate unreadable)
\* and exits.
Boot ==
    \E p \in processes :
        /\ p.state = "booting"
        /\ \/ /\ ~\E q \in processes \ {p} : q.port = p.port /\ q.state # "booting"
              /\ processes' = (processes \ {p}) \cup {[p EXCEPT !.state = "up"]}
           \/ processes' = processes \ {p}
        /\ UNCHANGED <<accountVars, spawned, pidFile, calls, confPort, tangled>>

\* The wait ends: somebody answers on the port (its own process or not), the
\* spawned process has exited and both files go, or it is only slow.
StartEnds ==
    \E c \in DOMAIN calls :
        /\ calls[c].at = "wait"
        /\ \/ Live(calls[c].pid) /\ UNCHANGED pidFile
           \/ /\ ~Live(calls[c].pid)
              /\ pidFile' = 0
           \/ Serving # {} /\ UNCHANGED pidFile
        /\ calls' = [calls EXCEPT ![c] = Quiet]
        /\ UNCHANGED <<accountVars, processes, spawned, confPort, tangled>>

Kill ==
    /\ calls["stop"].at = "kill"
    /\ processes' = {IF p.id = calls["stop"].pid THEN [p EXCEPT !.state = "ending"] ELSE p :
                         p \in processes}
    /\ calls' = [calls EXCEPT !["stop"].at = "grace"]
    /\ UNCHANGED <<accountVars, spawned, pidFile, confPort, tangled>>

\* A process goes: the one told to, or any (it crashes).  Its throttle and the
\* login it was handling go with it.
ProcessExits ==
    \E p \in processes :
        /\ processes' = processes \ {p}
        /\ IF p.state = "booting" THEN UNCHANGED accountVars
           ELSE /\ login' = Quiet /\ strikes' = 0
                /\ UNCHANGED <<account, issued, sessions, change, logins>>
        /\ UNCHANGED <<spawned, pidFile, calls, confPort, tangled>>

\* stop() waits two seconds, then removes the file, exited or not.
StopEnds ==
    /\ calls["stop"].at = "grace"
    /\ pidFile' = 0
    /\ tangled' = (tangled \/ Live(calls["stop"].pid))
    /\ calls' = [calls EXCEPT !["stop"] = Quiet]
    /\ UNCHANGED <<accountVars, processes, spawned, confPort>>

SetPort ==
    \E port \in Ports \ {confPort} :
        /\ confPort' = port
        /\ UNCHANGED <<accountVars, processes, spawned, pidFile, calls, tangled>>

PortalNext ==
    \/ LoginReads \/ LoginRefused \/ LoginAdmits \/ LockRunsOut
    \/ EndSession
    \/ SetCredentials \/ RemoveCredentials \/ EndSessions \/ ControllerStops
    \/ \E c \in DOMAIN calls : Call(c)
    \/ Clean \/ Spawn \/ Boot \/ StartEnds
    \/ Kill \/ ProcessExits \/ StopEnds \/ SetPort

PortalSpec == PortalInit /\ [][PortalNext]_portalVars

-----------------------------------------------------------------------------

PortalTypeOK ==
    /\ account \in 0..issued /\ issued \in 0..MaxPasswords
    /\ sessions \subseteq [under : 1..MaxPasswords, raced : BOOLEAN]
    /\ login.at \in {"none", "verifying"}
    /\ strikes \in 0..Strikes
    /\ change.at \in {"none", "stored"}
    /\ processes \subseteq [id : PIds, port : Ports, state : {"booting", "up", "ending"}]
    /\ pidFile \in 0..spawned /\ spawned \in 0..MaxProcesses
    /\ \A c \in DOMAIN calls :
           calls[c].at \in {"none", "clean", "spawn", "wait", "kill", "grace"}
    /\ confPort \in Ports
    /\ logins \in 0..MaxLogins

\* Once a credentials route has answered, every session left was issued
\* under the credentials in force, unless the login that issued it overlapped
\* the route, or the controller stopped in the middle of it: an operator whose
\* password was reset or removed is out.
SessionsAreCurrent ==
    change = Quiet => \A s \in sessions : s.under = account \/ s.raced

\* "The portal should not be reachable at all while stopped": when no call is
\* running, a process that serves is the one the pid file names, so Stop can
\* end it and Status shows it - as long as calls were made one at a time and no
\* stop gave up on a process that had not gone.
ServingIsTracked ==
    (~tangled /\ \A c \in DOMAIN calls : calls[c] = Quiet)
        => \A p \in Serving : p.id = pidFile

\* Who may be logged in to the portal, and which process serves it.
PortalIsTracked == PortalTypeOK /\ SessionsAreCurrent /\ ServingIsTracked
=============================================================================
