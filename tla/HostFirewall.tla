---------------------------- MODULE HostFirewall ----------------------------
(***************************************************************************)
(* The firewall commands the console sends to a managed host                *)
(* (client/_api_firewall.py): firewalld and ufw side by side, and the raw    *)
(* nftables / iptables rules with their persistence.                        *)
(*                                                                         *)
(* A command is a shell script; the agent runs one at a time.  It is a       *)
(* sequence of steps: calls of a tool, each of which may fail, and the host  *)
(* may go down between two of them.  A step either decides the exit code    *)
(* of the script (gates) or is followed by `|| true'.                       *)
(***************************************************************************)
EXTENDS Integers, Sequences

CONSTANTS MaxFailures    \* bound: calls that fail, and reboots

ASSUME FailuresAreBounded == MaxFailures \in Nat

VARIABLES
    fwd,        \* firewalld: installed, running, enabled at boot, open ports
                \* (in force / permanent)
    ufw,        \* ufw: installed, its unit active and enabled, ENABLED in
                \* ufw.conf, in force, allowed ports, default policies, and
                \* whether the way out to the controller is allowed
    raw,        \* the raw rules: 1 when the operator's are live, in the boot
                \* file, and is that file loaded at boot
    isController, serving,  \* is this host the controller, and do its ports
                            \* answer (its container may be down)
    frontEnd,   \* bound: a host is administered through its front ends, or
                \* through raw rules
    job,        \* the script that runs, or the last one, with its outcome
    beside,     \* history: firewalld was brought up by installing its package,
                \* or ufw by `turn on' on a host where firewalld starts at boot
    failures

fwVars == <<fwd, ufw, raw, isController, serving, frontEnd, job, beside, failures>>

Ports   == {"ssh", "api"}              \* sshd's, and the agents' on the controller
Enables == {"turn on", "firewalld on", "ufw on"}
RawOps  == {"add raw", "save nft", "save iptables", "flush raw"}
Ops     == RawOps \cup Enables \cup {"turn off", "firewalld off", "ufw off", "allow", "close",
           "install firewalld", "install ufw", "ufw reset", "deny out", "deny in",
           "reload"}
Calls   == {"start", "stop", "keep", "reload", "diag", "allow", "enable", "unit on",
            "disable", "unit off", "way out", "open", "open ufw", "shut", "shut ufw",
            "package", "ufw package", "reset", "deny out", "deny in", "add", "flush",
            "write", "load", "nothing"}
Call(c)  == [call |-> c, gates |-> TRUE]
Quiet(c) == [call |-> c, gates |-> FALSE]

FwTypeOK ==
    /\ fwd \in [inst : BOOLEAN, run : BOOLEAN, boot : BOOLEAN,
                live : SUBSET Ports, perm : SUBSET Ports]
    /\ ufw \in [inst : BOOLEAN, unit : BOOLEAN, boot : BOOLEAN, conf : BOOLEAN,
                on : BOOLEAN, allow : SUBSET Ports, deniesIn : BOOLEAN,
                deniesOut : BOOLEAN, wayOut : BOOLEAN]
    /\ raw \in [live : 0..1, file : 0..1, boot : BOOLEAN]
    /\ isController \in BOOLEAN /\ serving \in BOOLEAN /\ frontEnd \in BOOLEAN /\ beside \in BOOLEAN
    /\ job \in [op : Ops \cup {"none"}, on : {"firewalld", "ufw", "none"},
                todo : Seq([call : Calls, gates : BOOLEAN]), port : Ports,
                end : {"running", "ok", "failed"}, quiet : BOOLEAN,
                before : SUBSET Ports, reach : BOOLEAN]
    /\ failures \in 0..MaxFailures

-----------------------------------------------------------------------------
(* What the packets see.                                                    *)
Passes(p)  == /\ fwd.run => p \in fwd.live
              /\ ufw.on /\ ufw.deniesIn => p \in ufw.allow
ReachesOut == ~(ufw.on /\ ufw.deniesOut /\ ~ufw.wayOut)

(* _fw_live, _fw_pick: the backend a command that names none is meant for.  *)
FwLive(b) == CASE b = "firewalld" -> fwd.inst /\ fwd.run
               [] b = "ufw"       -> ufw.inst /\ (ufw.unit \/ ufw.on)
Pick == CASE FwLive("firewalld")             -> "firewalld"
          [] ~FwLive("firewalld") /\ FwLive("ufw") -> "ufw"
          [] ~FwLive("firewalld") /\ ~FwLive("ufw") ->
               IF fwd.boot THEN "firewalld" ELSE IF ufw.boot THEN "ufw"
               ELSE IF fwd.inst THEN "firewalld" ELSE IF ufw.inst THEN "ufw" ELSE "none"

(* _NOT_WHILE_UFW, _NOT_WHILE_FIREWALLD: in charge is running, or set to    *)
(* start at boot.                                                           *)
UfwInCharge == ufw.inst /\ (ufw.on \/ ufw.boot)
FwdInCharge == fwd.run \/ fwd.boot

(* The ports this host is managed through.                                  *)
Managed == {p \in Ports : p = "api" => isController}

(* _sysible_keep_open: sshd's port; Sysible's own where it answers; and the *)
(* controller's, answering or not, on the host the agent is told to call.   *)
MutKeepOpen == {"ssh"} \cup (IF isController /\ serving THEN {"api"} ELSE {})
KeepOpen == {"ssh"} \cup (IF isController THEN {"api"} ELSE {})

(* The scripts.  firewall-cmd needs the daemon, so firewalld is started     *)
(* first and its ports follow; ufw stages rules while it is off.            *)
StartFwd == <<Call("start"), Quiet("keep"), Quiet("reload")>>
StartUfw == <<Quiet("allow"), Quiet("way out"), Call("enable")>>

Script(op, b, permanent) ==
    CASE op = "turn on"  /\ b = "firewalld" -> StartFwd
      [] op = "turn on"  /\ b = "ufw"       -> Append(StartUfw, Quiet("unit on"))
      [] op = "firewalld on"                -> Append(StartFwd, Call("diag"))
      [] op = "ufw on"                      -> Append(StartUfw, Call("unit on"))
      [] op = "turn off" /\ b = "none"      -> <<Call("nothing")>>
      [] (op = "turn off" /\ b = "firewalld") \/ op = "firewalld off" -> <<Call("stop")>>
      [] (op = "turn off" /\ b = "ufw") \/ op = "ufw off" -> <<Call("disable"), Quiet("unit off")>>
      [] op = "allow" /\ b = "firewalld" -> <<Call("open")>> \o
                                            (IF permanent THEN <<Call("reload")>> ELSE << >>)
      [] op = "close" /\ b = "firewalld" -> <<Call("shut")>> \o
                                            (IF permanent THEN <<Call("reload")>> ELSE << >>)
      [] op = "allow" /\ b = "ufw" -> <<Call("open ufw")>>
      [] op = "close" /\ b = "ufw" -> <<Call("shut ufw")>>
      [] op = "install firewalld"  -> <<Call("package"), Quiet("start"), Call("diag")>>
      [] op = "install ufw"        -> <<Call("ufw package")>>
      [] op = "ufw reset"          -> <<Call("reset")>>
      [] op \in {"deny out", "deny in", "reload"} -> <<Call(op)>>
      [] op = "add raw"            -> <<Call("add")>>
      [] op = "flush raw"          -> <<Call("flush")>>
      [] op \in {"save nft", "save iptables"} -> <<Call("write"), Call("load")>>

(* The refusals at the head of a script.                                    *)
MutRefuses(op, b) ==
    \/ op = "firewalld on" /\ ~fwd.inst
    \/ op = "ufw on" /\ (~ufw.inst \/ FwdInCharge)
    \/ op \in {"turn on", "allow", "close"} /\ b = "none"
    \/ op = "firewalld off" /\ ~fwd.inst
    \/ op \in {"ufw off", "ufw reset", "deny in", "deny out"} /\ ~ufw.inst
Refuses(op, b) ==
    \/ op = "firewalld on" /\ (~fwd.inst \/ UfwInCharge)
    \/ op = "ufw on" /\ (~ufw.inst \/ FwdInCharge)
    \/ op \in {"turn on", "allow", "close"} /\ b = "none"
    \/ op = "firewalld off" /\ ~fwd.inst
    \/ op \in {"ufw off", "ufw reset", "deny in", "deny out"} /\ ~ufw.inst

-----------------------------------------------------------------------------
NoJob == [op |-> "none", on |-> "none", todo |-> << >>, port |-> "ssh", end |-> "failed",
          quiet |-> FALSE, before |-> {}, reach |-> FALSE]

FwInit ==
    /\ \E on \in SUBSET {"firewalld", "ufw"}, p \in SUBSET {"ssh"} :
         /\ fwd = [inst |-> "firewalld" \in on, run |-> FALSE, boot |-> FALSE,
                   live |-> {}, perm |-> p]
         /\ ufw = [inst |-> "ufw" \in on, unit |-> FALSE, boot |-> FALSE, conf |-> FALSE,
                   on |-> FALSE, allow |-> {}, deniesIn |-> TRUE, deniesOut |-> FALSE,
                   wayOut |-> FALSE]
    /\ raw = [live |-> 0, file |-> 0, boot |-> FALSE]
    /\ isController \in BOOLEAN /\ serving \in BOOLEAN /\ frontEnd \in BOOLEAN
    /\ job = NoJob /\ beside = FALSE /\ failures = 0

Targets(op) ==
    CASE op \in {"turn on", "turn off"} -> {Pick}
      [] op \in {"allow", "close"} -> {Pick} \cup (IF fwd.inst THEN {"firewalld"} ELSE {})
                                            \cup (IF ufw.inst THEN {"ufw"} ELSE {})
      [] op \in {"ufw on", "ufw off", "install ufw", "ufw reset", "deny out", "deny in"} -> {"ufw"}
      [] op \in {"firewalld on", "firewalld off", "install firewalld", "reload"} -> {"firewalld"}
      [] OTHER -> {"none"}

(* An operator's command reaches the host.  The per-backend tabs name the   *)
(* backend, the common ones pick it; a port is opened on one of them.       *)
Command(op, port, permanent) ==
    /\ job.end # "running"
    /\ frontEnd <=> op \notin RawOps
    /\ \E b \in Targets(op) :
         job' = IF Refuses(op, b)
                THEN NoJob
                ELSE [op |-> op, on |-> b, todo |-> Script(op, b, permanent),
                      port |-> port, end |-> "running", quiet |-> FALSE,
                      before |-> {p \in Managed : Passes(p)}, reach |-> ReachesOut]
    /\ UNCHANGED <<fwd, ufw, raw, isController, serving, frontEnd, beside, failures>>

Installed(f) == [f EXCEPT !.inst = TRUE]
Opened(f, p, permanent) ==
    IF permanent THEN [f EXCEPT !.perm = @ \cup {p}] ELSE [f EXCEPT !.live = @ \cup {p}]
Shut(f, p, permanent) ==
    IF permanent THEN [f EXCEPT !.perm = @ \ {p}] ELSE [f EXCEPT !.live = @ \ {p}]
Permanent == Len(job.todo) > 1       \* the call is followed by its reload

(* What a call does when it succeeds.  Calls that need the daemon or the    *)
(* package fail without it (CanDo).                                         *)
Does(c) ==
    /\ fwd' = CASE c = "package" -> Installed(fwd)
                [] c = "start"   -> [fwd EXCEPT !.boot = TRUE, !.run = TRUE,
                                                !.live = IF fwd.run THEN @ ELSE fwd.perm]
                [] c = "stop"    -> [fwd EXCEPT !.boot = FALSE, !.run = FALSE, !.live = {}]
                [] c = "keep"    -> [fwd EXCEPT !.perm = @ \cup KeepOpen]
                [] c = "reload"  -> [fwd EXCEPT !.live = fwd.perm]
                [] c = "open"    -> Opened(fwd, job.port, Permanent)
                [] c = "shut"    -> Shut(fwd, job.port, Permanent)
                [] OTHER -> fwd
    /\ ufw' = CASE c = "ufw package" -> Installed(ufw)
                [] c = "allow"    -> [ufw EXCEPT !.allow = @ \cup KeepOpen]
                [] c = "way out"  -> [ufw EXCEPT !.wayOut = TRUE]
                [] c = "enable"   -> [ufw EXCEPT !.conf = TRUE, !.on = TRUE]
                [] c = "unit on"  -> [ufw EXCEPT !.boot = TRUE]
                [] c = "disable"  -> [ufw EXCEPT !.conf = FALSE, !.on = FALSE]
                [] c = "unit off" -> [ufw EXCEPT !.boot = FALSE]
                [] c = "open ufw" -> [ufw EXCEPT !.allow = @ \cup {job.port}]
                [] c = "shut ufw" -> [ufw EXCEPT !.allow = @ \ {job.port}]
                [] c = "reset"    -> [ufw EXCEPT !.conf = FALSE, !.on = FALSE, !.allow = {},
                                         !.deniesIn = TRUE, !.deniesOut = FALSE, !.wayOut = FALSE]
                [] c = "deny out" -> [ufw EXCEPT !.deniesOut = TRUE]
                [] c = "deny in"  -> [ufw EXCEPT !.deniesIn = TRUE]
                [] OTHER -> ufw
    /\ raw' = CASE c = "add"   -> [raw EXCEPT !.live = 1]
                [] c = "flush" -> [raw EXCEPT !.live = 0]
                [] c = "write" -> [raw EXCEPT !.file = raw.live]
                [] c = "load"  -> [raw EXCEPT !.boot = TRUE]
                [] OTHER -> raw
    /\ beside' = (beside \/ (c = "start" /\ job.op = "install firewalld")
                         \/ (c = "enable" /\ job.op = "turn on" /\ FwdInCharge))

CanDo(c) ==
    /\ c \in {"keep", "reload", "open", "shut", "diag"} => fwd.run
    /\ c = "start" => fwd.inst
    /\ c = "stop"  => fwd.inst

(* The next call of the script.  A failure ends it when the call gates the  *)
(* exit code; otherwise the script goes on and nobody hears of it.  The     *)
(* loops over ports may fail half-way.                                      *)
MutGates(s) == s.gates /\ s.call # "unit on"
Gates(s) == s.gates
Then(ok) ==
    LET s == Head(job.todo)
        end == ~ok /\ Gates(s)
    IN job' = IF end THEN NoJob
              ELSE [job EXCEPT !.todo = Tail(@), !.quiet = @ \/ ~ok,
                               !.end = IF Len(job.todo) = 1 THEN "ok" ELSE "running"]

Step ==
    /\ job.end = "running"
    /\ CanDo(Head(job.todo).call)
    /\ Does(Head(job.todo).call)
    /\ Then(TRUE)
    /\ UNCHANGED <<isController, serving, frontEnd, failures>>

StepFails ==
    /\ job.end = "running"
    /\ IF CanDo(Head(job.todo).call)
       THEN failures < MaxFailures /\ failures' = failures + 1
       ELSE UNCHANGED failures
    /\ Then(FALSE)
    /\ fwd' \in {fwd} \cup (IF Head(job.todo).call = "start" /\ fwd.inst   \* enabled,
                            THEN {[fwd EXCEPT !.boot = TRUE]} ELSE {})     \* not started
    /\ beside' = (beside \/ (fwd' # fwd /\ job.op = "install firewalld"))
    /\ UNCHANGED <<ufw, raw, isController, serving, frontEnd>>

(* The host restarts: what is enabled comes up with its permanent rules,    *)
(* and the script is gone.                                                  *)
Booted(r) == [r EXCEPT !.live = IF r.boot THEN r.file ELSE 0]
HostReboots ==
    /\ failures < MaxFailures /\ failures' = failures + 1
    /\ fwd' = [fwd EXCEPT !.run = fwd.boot, !.live = IF fwd.boot THEN fwd.perm ELSE {}]
    /\ ufw' = [ufw EXCEPT !.unit = ufw.boot, !.on = ufw.boot /\ ufw.conf]
    /\ raw' = Booted(raw)
    /\ job' = NoJob
    /\ UNCHANGED <<isController, serving, frontEnd, beside>>

FwNext ==
    \/ \E op \in Ops \ {"allow", "close"} : Command(op, "ssh", TRUE)
    \/ \E op \in {"allow", "close"}, p \in Ports, permanent \in BOOLEAN : Command(op, p, permanent)
    \/ Step \/ StepFails \/ HostReboots

FwSpec == FwInit /\ [][FwNext]_fwVars

-----------------------------------------------------------------------------
(* firewalld and ufw are in charge of one host together only in two ways:   *)
(* the firewalld package was installed from the console, which starts it    *)
(* without looking for ufw (cmd_install_firewalld), or `turn on' has taken  *)
(* for live a ufw that was turned off and whose unit stays active until the *)
(* next boot, while firewalld is down but enabled.  Every other enabling    *)
(* refuses, or stays with the one it finds.                                 *)
OneFrontEnd == FwdInCharge /\ UfwInCharge => beside

(* Enabling a firewall does not cut the host off: a port the console manages *)
(* it through, and the way out to its controller, that were open when the   *)
(* command began are open when it reports success, whichever backend, and   *)
(* whether or not the controller's container is up; with ufw they stay open *)
(* all the way.  Only a call that failed behind `|| true' excuses it.       *)
Cut == ~(job.before \subseteq {p \in Ports : Passes(p)}) \/ (job.reach /\ ~ReachesOut)
EnableKeepsAccess ==
    job.op \in Enables /\ ~job.quiet /\ (job.end = "ok" \/ (job.end = "running" /\ job.on = "ufw"))
        => ~Cut

(* A command that reports success has done what it says, for now and for    *)
(* the next start of the host.                                              *)
SuccessIsReal ==
    job.end = "ok" =>
        /\ job.op \in Enables /\ job.on = "firewalld" => fwd.run /\ fwd.boot
        /\ job.op = "ufw on" => ufw.on /\ ufw.conf /\ ufw.boot
        /\ job.op \in {"turn off", "firewalld off", "ufw off"} =>
               /\ job.on = "firewalld" => ~FwdInCharge
               /\ job.on = "ufw" => ~ufw.on /\ ~ufw.conf
        /\ job.op \in {"save nft", "save iptables"} => Booted(raw).live = raw.live

(* What a firewall command leaves behind, whichever steps of it fail.       *)
FirewallIsSound == FwTypeOK /\ OneFrontEnd /\ EnableKeepsAccess /\ SuccessIsReal
=============================================================================
