------------------------------- MODULE Alerts -------------------------------
(***************************************************************************)
(* Fleet alerting (webgui/alerts.py and the loop in webgui/server.py).     *)
(*                                                                         *)
(* One JSON file holds the configuration an operator edits AND the         *)
(* "fire once" state the loop keeps: the keys <<host, rule>> that are      *)
(* firing.  Every five minutes the loop loads the file, lists and probes   *)
(* the hosts, evaluates the rules, writes the new state into a fresh copy  *)
(* of the file, and then sends one message with what is new and what is    *)
(* resolved.  Operators save whole forms they loaded earlier.              *)
(*                                                                         *)
(* Rules are represented by one of each way a rule gets its datum: "disk"  *)
(* (measured by the probe), "flag" (from the posture cache), "offline",    *)
(* and "custom" (a command run on every host, mode present).               *)
(***************************************************************************)
EXTENDS Naturals, FiniteSets

CONSTANTS AlertHosts,   \* listed hosts, each with an agent
          Forms,        \* browser forms that operators have open
          MaxVersion,   \* versions of the custom rules
          MaxPosts,     \* forms posted
          MaxTurns,     \* changes of a host's condition
          MaxUpsets     \* failed reads, failed sends, crashes of the console

ASSUME AlertBounds == {MaxVersion, MaxPosts, MaxTurns, MaxUpsets} \subseteq Nat

VARIABLES condition, \* what is true of each host
          conf,      \* the configuration in the file
          firingKeys,\* the state in the file
          evaluator, \* the loop
          form,      \* the forms
          authored,  \* custom rules some superuser saved
          told,      \* keys reported as NEW and not yet as RESOLVED
          posts,     \* forms posted so far
          turns,     \* changes of condition so far
          upsets     \* upsets so far

alertVars == <<condition, conf, firingKeys, evaluator, form, authored, told, posts, turns, upsets>>

AlertKeys == AlertHosts \X {"offline", "disk", "flag", "custom"}
Healthy == [online |-> TRUE, disk |-> FALSE, flag |-> FALSE, match |-> FALSE]
FirstConf == [channel |-> TRUE, disk |-> TRUE, custom |-> 0]
Sleeping == [at |-> "asleep"]
NoForm == [at |-> "closed"]

AlertInit == /\ condition = [h \in AlertHosts |-> Healthy]
             /\ conf = FirstConf
             /\ firingKeys = {}
             /\ evaluator = Sleeping
             /\ form = [f \in Forms |-> NoForm]
             /\ authored = {0}
             /\ told = {}
             /\ posts = 0 /\ turns = 0
             /\ upsets = 0

Upset == upsets < MaxUpsets /\ upsets' = upsets + 1

----------------------------------------------------------------------------
HostTurns(h) == \E what \in {"online", "disk", "flag", "match"} :
  /\ turns < MaxTurns /\ turns' = turns + 1
  /\ condition' = [condition EXCEPT ![h][what] = ~@]
  /\ UNCHANGED <<conf, firingKeys, evaluator, form, authored, told, posts, upsets>>

(* GET /api/alerts fills a form; POST saves it.  alerts_set compares the
   custom rules of a sysadmin's form with the stored ones, and set_config then
   writes the form over a copy of the file it loads under the lock. *)
OpenForm(f, role) ==
  /\ form[f] = NoForm
  /\ form' = [form EXCEPT ![f] = [at |-> "open", role |-> role, conf |-> conf]]
  /\ UNCHANGED <<condition, conf, firingKeys, evaluator, authored, told, posts, turns, upsets>>

(* What an operator may post of an open form: the form as it was loaded, or one
   change of it. *)
EditsOf(c) == {c} \cup {[c EXCEPT ![what] = ~c[what]] : what \in {"channel", "disk"}}
                 \cup {[c EXCEPT !.custom = v] : v \in 0..MaxVersion}

MutMayPost(f, new) == form[f].role = "superuser" \/ new.custom # 0
MayPost(f, new) == form[f].role = "superuser" \/ new.custom = conf.custom

PostForm(f) ==
  /\ form[f].at = "open" /\ posts < MaxPosts
  /\ posts' = posts + 1
  /\ \E new \in EditsOf(form[f].conf) :
       form' = [form EXCEPT ![f] = IF MayPost(f, new)
                                   THEN [at |-> "checked", role |-> form[f].role, conf |-> new]
                                   ELSE NoForm]
  /\ UNCHANGED <<condition, conf, firingKeys, evaluator, authored, told, turns, upsets>>

SaveForm(f) ==
  /\ form[f].at = "checked"
  /\ conf' = form[f].conf
  /\ authored' = IF form[f].role = "superuser" THEN authored \cup {form[f].conf.custom}
                 ELSE authored
  /\ form' = [form EXCEPT ![f] = NoForm]
  /\ UNCHANGED <<condition, firingKeys, evaluator, told, posts, turns, upsets>>

----------------------------------------------------------------------------
(* The loop.  Each step is a point where an operator may come between. *)
CycleDue == conf.channel
WakeUp ==
  /\ evaluator = Sleeping /\ CycleDue
  /\ evaluator' = [at |-> "loaded", conf |-> conf, prev |-> firingKeys]
  /\ UNCHANGED <<condition, conf, firingKeys, form, authored, told, posts, turns, upsets>>

(* evaluate_rules and _eval_custom_rules over the hosts that were listed: a
   host whose agent is silent has no measurement, so only "offline" and what
   is cached can fire for it. *)
Fires(h, rule, cfg) ==
  \/ rule = "offline" /\ ~condition[h].online
  \/ rule = "disk" /\ cfg.disk /\ condition[h].online /\ condition[h].disk
  \/ rule = "flag" /\ condition[h].flag
  \/ rule = "custom" /\ cfg.custom # 0 /\ condition[h].online /\ condition[h].match
Measured(listed, cfg) == {k \in AlertKeys : k[1] \in listed /\ Fires(k[1], k[2], cfg)}

(* list_merged_hosts answers a failed read with an empty list. *)
Gathered(listed) ==
  evaluator' = [at |-> "gathered", conf |-> evaluator.conf, prev |-> evaluator.prev,
                now |-> Measured(listed, evaluator.conf)]
Gather ==
  /\ evaluator.at = "loaded"
  /\ \/ Gathered(AlertHosts) /\ UNCHANGED upsets
     \/ Gathered({}) /\ Upset
  /\ UNCHANGED <<condition, conf, firingKeys, form, authored, told, posts, turns>>

(* diff_state: the state is written into a fresh copy of the file, and before
   anything is sent. *)
MutWritten == evaluator.conf
Written == conf
SaveState ==
  /\ evaluator.at = "gathered"
  /\ firingKeys' = evaluator.now
  /\ conf' = Written
  /\ evaluator' = [evaluator EXCEPT !.at = "saved"]
  /\ UNCHANGED <<condition, form, authored, told, posts, turns, upsets>>

(* notify swallows the failure of a channel. *)
New == evaluator.now \ evaluator.prev
MutResolved == {}
Resolved == evaluator.prev \ evaluator.now
Notify ==
  /\ evaluator.at = "saved"
  /\ evaluator' = Sleeping
  /\ \/ told' = (told \cup New) \ Resolved /\ UNCHANGED upsets
     \/ New \cup Resolved # {} /\ Upset /\ UNCHANGED told
  /\ UNCHANGED <<condition, conf, firingKeys, form, authored, posts, turns>>

(* The console process dies: the loop's cycle and the open requests with it. *)
ConsoleDies ==
  /\ evaluator # Sleeping
  /\ Upset
  /\ evaluator' = Sleeping
  /\ form' = [f \in Forms |-> IF form[f].at = "checked" THEN NoForm ELSE form[f]]
  /\ UNCHANGED <<condition, conf, firingKeys, authored, told, posts, turns>>

EvaluateCycle == WakeUp \/ Gather \/ SaveState \/ Notify

AlertNext ==
  \/ \E h \in AlertHosts : HostTurns(h)
  \/ \E f \in Forms : \/ \E role \in {"superuser", "sysadmin"} : OpenForm(f, role)
                      \/ PostForm(f) \/ SaveForm(f)
  \/ WakeUp \/ Gather \/ SaveState \/ Notify \/ ConsoleDies

(* A daemon thread that sleeps between cycles and catches everything. *)
AlertSpec == AlertInit /\ [][AlertNext]_alertVars /\ WF_alertVars(EvaluateCycle)

----------------------------------------------------------------------------
(* The types; the loop's snapshot is there when it is awake. *)
AlertTypeOK ==
  /\ condition \in [AlertHosts -> [online : BOOLEAN, disk : BOOLEAN,
                                   flag : BOOLEAN, match : BOOLEAN]]
  /\ conf \in [channel : BOOLEAN, disk : BOOLEAN, custom : 0..MaxVersion]
  /\ firingKeys \subseteq AlertKeys /\ told \subseteq AlertKeys
  /\ authored \subseteq 0..MaxVersion
  /\ evaluator.at \in {"asleep", "loaded", "gathered", "saved"}
  /\ evaluator # Sleeping => /\ evaluator.prev \subseteq AlertKeys
                             /\ evaluator.conf \in [channel : {TRUE}, disk : BOOLEAN,
                                                    custom : 0..MaxVersion]
  /\ posts \in 0..MaxPosts /\ turns \in 0..MaxTurns /\ upsets \in 0..MaxUpsets

(* Fire once, resolve once: while no message or cycle was lost, what the
   operators have been told is what the file says is firing, whatever they
   saved in between. *)
ToldIsRemembered == (evaluator = Sleeping /\ upsets = 0) => told = firingKeys

(* The custom rules that run as root on every host are always ones that some
   superuser saved, whoever re-saves the form (alerts_set). *)
RulesAreAuthored == conf.custom \in authored

(* A cycle of the loop never changes what an operator saved while it was
   probing (diff_state: "so the background alerts loop can't clobber a
   concurrent operator rule/SMTP edit"). *)
EditsOutliveTheCycle == [][(evaluator.at = "gathered" /\ evaluator'.at = "saved") => conf' = conf]_alertVars

(* What the operators hear and what they saved: each message once, root's
   rules from a superuser only, and no edit undone by the loop. *)
AlertsAreTrue == [](AlertTypeOK /\ ToldIsRemembered /\ RulesAreAuthored) /\ EditsOutliveTheCycle
=============================================================================
