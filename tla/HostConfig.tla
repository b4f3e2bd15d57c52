----------------------------- MODULE HostConfig -----------------------------
(***************************************************************************)
(* The scripts of src/client that edit a host's configuration files: each  *)
(* is a fixed chain of shell steps, some joined with && and some with ;    *)
(* that the host runs as one task.  A family is one file with the script   *)
(* that changes it.  A file's content is abstracted to the edit it carries *)
(* and to whether the program that reads it accepts it.                    *)
(*                                                                         *)
(*   sshd      cp .bak ; strip ; append ; sshd -t, and reload or restore   *)
(*   netplan   cp .bak.<now> ; write ; netplan generate, and apply or      *)
(*             put back the newest backup                                  *)
(*   chrony    cp .bak && edit && append && restart                        *)
(*   fstab     refuse an existing entry, else cp .bak.<now> && append      *)
(*   sudoers   write a temporary file && visudo -c && mv                   *)
(*   logindefs cp .bak ; edit ; say that it is updated                     *)
(***************************************************************************)
EXTENDS Naturals, Sequences

CONSTANTS MaxEdits,       \* bound: scripts run
          MaxMishaps      \* bound: steps that fail, scripts cut, reboots

ASSUME ConfigBounds == MaxEdits \in Nat /\ MaxMishaps \in Nat

VARIABLES conf,           \* the file of each family
          backups,        \* its backup copies, oldest first
          inForce,        \* the content the running service has read
          script,         \* the script that runs, or Resting
          verdict,        \* how the last script ended
          spoiled,        \* families a restore could not mend, or a cut left
          edits,          \* scripts started
          failed          \* mishaps spent

hcVars == <<conf, backups, inForce, script, verdict, spoiled, edits, failed>>

Families == {"sshd", "netplan", "chrony", "fstab", "sudoers", "logindefs"}

Content == [edit : 0..MaxEdits, good : BOOLEAN]

Original == [edit |-> 0, good |-> TRUE]

NothingRuns == [family |-> "none"]

\* The steps of each script before the program that reads the file is asked
\* or told.  netplan and sudoers write whole files of Sysible's own; the
\* others strip the old line and append the new one.
Writing(f) ==
    CASE f = "sshd"      -> <<"save", "strip", "append", "check">>
      [] f = "netplan"   -> <<"save", "append", "check", "load">>
      [] f = "chrony"    -> <<"save", "strip", "append", "load">>
      [] f = "fstab"     -> <<"save", "append">>
      [] f = "sudoers"   -> <<"stage", "check", "install">>
      [] f = "logindefs" -> <<"save", "append">>

MutGated(f) == IF f = "chrony" THEN {"load"}
               ELSE IF f = "sudoers" THEN {"stage", "install"} ELSE {}

\* The steps of the family's script that are joined with && or stand last:
\* a failure of one is the exit status of the script.
Gated(f) ==
    CASE f = "sshd"      -> {}
      [] f = "netplan"   -> {"load"}
      [] f = "chrony"    -> {"save", "strip", "append", "load"}
      [] f = "fstab"     -> {"save", "append"}
      [] f = "sudoers"   -> {"stage", "install"}
      [] f = "logindefs" -> {}

Busy == script # NothingRuns

\* The script ends: what the task reports, and the content it was to leave.
Ends(how) ==
    /\ script' = NothingRuns
    /\ verdict' = [family |-> script.family, how |-> how, new |-> script.new,
                   before |-> script.before, saved |-> script.saved]

-----------------------------------------------------------------------------

ConfigInit ==
    /\ conf = [f \in Families |-> Original]
    /\ backups = [f \in Families |-> <<>>]
    /\ inForce = [f \in Families |-> Original]
    /\ script = NothingRuns
    /\ verdict = [family |-> "none"]
    /\ spoiled = {}
    /\ edits = 0
    /\ failed = 0

\* An operator sends a script with a value.  fstab is refused when the mount
\* point has an entry already.  chrony and login.defs take values their
\* builder has checked; the others take text the program may not accept.
StartScript(f) ==
    /\ ~Busy /\ edits < MaxEdits
    /\ \E good \in BOOLEAN :
        /\ f \in {"chrony", "logindefs"} => good
        /\ f = "fstab" => conf[f] = Original
        /\ script' = [family |-> f, at |-> 1, saved |-> FALSE, before |-> conf[f],
                      stripped |-> FALSE, new |-> [edit |-> edits + 1, good |-> good]]
    /\ edits' = edits + 1
    /\ UNCHANGED <<conf, backups, inForce, verdict, spoiled, failed>>

\* The step the script is at.
Doing == Writing(script.family)[script.at]

\* What follows a step: the next one, or the end with exit status 0.
NextLine(s) ==
    IF s.at < Len(Writing(s.family))
    THEN script' = [s EXCEPT !.at = @ + 1] /\ UNCHANGED verdict
    ELSE Ends("ok")

\* cp FILE FILE.bak overwrites the only copy; netplan and fstab keep every
\* copy under its time.  netplan has nothing to copy before its first file.
BackedUp(f) ==
    IF f \in {"netplan", "fstab"} THEN Append(backups[f], conf[f]) ELSE <<conf[f]>>

SaveCopy ==
    /\ Busy /\ Doing = "save"
    /\ LET f == script.family IN
        /\ backups' = IF f = "netplan" /\ conf[f].edit = 0 THEN backups
                      ELSE [backups EXCEPT ![f] = BackedUp(f)]
        /\ NextLine([script EXCEPT !.saved = TRUE])
    /\ UNCHANGED <<conf, inForce, spoiled, edits, failed>>

\* sed deletes the old line, then printf appends the new one.
Strip ==
    /\ Busy /\ Doing = "strip"
    /\ conf' = [conf EXCEPT ![script.family] = [edit |-> 0, good |-> @.good]]
    /\ NextLine([script EXCEPT !.stripped = TRUE])
    /\ UNCHANGED <<backups, inForce, spoiled, edits, failed>>

\* sshd obeys the first line of a keyword: one that was not stripped wins.
Written(f) ==
    IF f = "sshd" /\ ~script.stripped
    THEN [edit |-> conf[f].edit, good |-> conf[f].good /\ script.new.good]
    ELSE script.new

WriteFile ==
    /\ Busy /\ Doing = "append"
    /\ conf' = [conf EXCEPT ![script.family] = Written(script.family)]
    /\ NextLine(script)
    /\ UNCHANGED <<backups, inForce, spoiled, edits, failed>>

\* visudo reads the temporary file, and mv puts it in place in one step.
StageCopy ==
    /\ Busy /\ Doing = "stage"
    /\ NextLine(script)
    /\ UNCHANGED <<conf, backups, inForce, spoiled, edits, failed>>

Install ==
    /\ Busy /\ Doing = "install"
    /\ conf' = [conf EXCEPT !["sudoers"] = script.new]
    /\ inForce' = [inForce EXCEPT !["sudoers"] = script.new]
    /\ NextLine(script)
    /\ UNCHANGED <<backups, spoiled, edits, failed>>

\* What the program is asked about: the file, or the temporary one.
AskedFor == IF script.family = "sudoers" THEN script.new ELSE conf[script.family]

MutAccepts == AskedFor.good \/ script.family = "sshd"

Accepts == AskedFor.good

\* The program accepts the file.  sshd is reloaded when the button asks for
\* it, and a reload that fails is a line of text in a script that exits 0.
CheckPasses ==
    /\ Busy /\ Doing = "check" /\ Accepts
    /\ NextLine(script)
    /\ \/ /\ script.family = "sshd"
          /\ inForce' = [inForce EXCEPT !["sshd"] = conf["sshd"]]
       \/ UNCHANGED inForce
    /\ UNCHANGED <<conf, backups, spoiled, edits, failed>>

\* cmd_sshd_reload: asks first, too.
ReloadSshd ==
    /\ ~Busy /\ conf["sshd"].good /\ inForce["sshd"] # conf["sshd"]
    /\ inForce' = [inForce EXCEPT !["sshd"] = conf["sshd"]]
    /\ UNCHANGED <<conf, backups, script, verdict, spoiled, edits, failed>>

MutRestored(f) ==
    IF backups[f] = <<>> THEN Original ELSE backups[f][1]

\* The file put back: sshd's copy; netplan's newest, or no file at all.
Restored(f) ==
    IF backups[f] = <<>> THEN Original ELSE backups[f][Len(backups[f])]

Unspent(f) ==
    IF f = "netplan" /\ backups[f] # <<>>
    THEN SubSeq(backups[f], 1, Len(backups[f]) - 1) ELSE backups[f]

\* The program refuses: the script puts the copy back and exits 1.  Without a
\* copy, or when cp fails again, sshd's refused file stays where it is.
CheckFails ==
    /\ Busy /\ Doing = "check" /\ ~Accepts
    /\ LET f == script.family IN
        \/ /\ f # "sshd" \/ backups[f] # <<>>
           /\ Ends("refused")
           /\ conf' = IF f = "sudoers" THEN conf ELSE [conf EXCEPT ![f] = Restored(f)]
           /\ backups' = [backups EXCEPT ![f] = Unspent(f)]
           /\ UNCHANGED <<spoiled, failed>>
        \/ /\ f = "sshd"
           /\ \/ backups[f] = <<>> /\ UNCHANGED failed
              \/ backups[f] # <<>> /\ failed < MaxMishaps /\ failed' = failed + 1
           /\ Ends("stranded")
           /\ spoiled' = spoiled \cup {f}
           /\ UNCHANGED <<conf, backups>>
    /\ UNCHANGED <<inForce, edits>>

\* netplan apply and systemctl restart make the service read the file.
LoadFile ==
    /\ Busy /\ Doing = "load"
    /\ inForce' = [inForce EXCEPT ![script.family] = conf[script.family]]
    /\ NextLine(script)
    /\ UNCHANGED <<conf, backups, spoiled, edits, failed>>

\* A step fails (no privilege, a full disk): a gated one is the end of the
\* script, any other is passed over.
LineFails ==
    /\ Busy /\ Doing # "check" /\ failed < MaxMishaps
    /\ failed' = failed + 1
    /\ IF Doing \in Gated(script.family) THEN Ends("failed") ELSE NextLine(script)
    /\ UNCHANGED <<conf, backups, inForce, spoiled, edits>>

\* The host goes down, or the agent's time limit kills the shell: the script
\* stops where it is.  Every service reads its file when the host boots.
CutShort ==
    /\ Busy /\ failed < MaxMishaps
    /\ failed' = failed + 1
    /\ Ends("cut")
    /\ spoiled' = IF script.family = "sudoers" THEN spoiled
                  ELSE spoiled \cup {script.family}
    /\ inForce' = conf
    /\ UNCHANGED <<conf, backups, edits>>

ConfigNext ==
    \/ \E f \in Families : StartScript(f)
    \/ SaveCopy \/ Strip \/ WriteFile \/ StageCopy \/ Install
    \/ CheckPasses \/ CheckFails \/ LoadFile \/ ReloadSshd
    \/ LineFails \/ CutShort

ConfigSpec == ConfigInit /\ [][ConfigNext]_hcVars

-----------------------------------------------------------------------------

ConfigTypeOK ==
    /\ conf \in [Families -> Content]
    /\ inForce \in [Families -> Content]
    /\ \A f \in Families : backups[f] \in Seq(Content)
    /\ script.family \in Families \cup {"none"}
    /\ Busy => script.at \in 1..Len(Writing(script.family))
    /\ spoiled \subseteq Families
    /\ edits \in 0..MaxEdits
    /\ failed \in 0..MaxMishaps

-----------------------------------------------------------------------------

\* The script's own promise: "a typo can't lock out SSH access", "a bad config
\* can't be left in place to break the next boot".  When the copy was made and
\* the program refused the new file, the file is exactly what it was, however
\* many edits and copies came before.
RefusedIsRestored ==
    (~Busy /\ verdict.family # "none") =>
        (verdict.how = "refused" /\ verdict.saved
            => conf[verdict.family] = verdict.before)

\* At rest no file that a script asks its program about is one the program
\* refuses, and no service runs on one, whatever steps failed before: only a
\* script cut short, or one that cannot put sshd's copy back, leaves one.
\* sudoers stays sound even then.
AcceptableAtRest ==
    ~Busy => \A f \in {"sshd", "netplan", "sudoers"} :
                 (conf[f].good /\ inForce[f].good) \/ f \in spoiled

\* A script of && steps that reports success did its work: the file is the new
\* one, and chrony and sudo go by it.  (The ; chains of sshd, netplan and
\* login.defs promise no such thing.)
DoneIsDone ==
    (~Busy /\ verdict.family \in {"chrony", "sudoers", "fstab"} /\ verdict.how = "ok")
        => /\ conf[verdict.family] = verdict.new
           /\ verdict.family # "fstab" => inForce[verdict.family] = verdict.new

\* What a script that edits a configuration leaves behind, wherever it fails.
ConfigIsSound == ConfigTypeOK /\ RefusedIsRestored /\ AcceptableAtRest /\ DoneIsDone
=============================================================================
