-------------------------- MODULE HostScriptProofs --------------------------
(***************************************************************************)
(* Proofs about the scripts that the controller runs on a host, for any     *)
(* number of edits, commands, ports and failures.                           *)
(*                                                                         *)
(* HostConfig: what each step of a script has done to its file and to the   *)
(* copies beside it.  Elevation: which runs a command has had, each with    *)
(* its privilege and only after the refusal that allows it.  HostFirewall:  *)
(* what is left of a script, whose calls it has still to make, fixes what   *)
(* the ports and the boot settings are now.                                 *)
(***************************************************************************)
EXTENDS MCHostChannels, SequenceTheorems, TLAPS

-----------------------------------------------------------------------------
(* The scripts that edit a configuration.                                   *)

Asking == {"sshd", "netplan", "sudoers"}   \* families whose program is asked

RunningScripts == [family : Families, at : 1..4, saved : BOOLEAN, before : Content,
            stripped : BOOLEAN, new : Content]

(* What a script carries.                                                   *)
ScriptForm ==
    /\ script \in RunningScripts \cup {NothingRuns}
    /\ Busy => script.new.edit # 0
    /\ backups \in [Families -> Seq(Content)]

(* A script's copy is of the file it found: no step before the copy touches *)
(* the file, and none after it the copy.                                    *)
CopiedBefore ==
    Busy =>
        /\ script.family \in {"sshd", "netplan"} /\ script.at = 1
              => ~script.saved /\ conf[script.family] = script.before
        /\ script.family = "sshd" /\ script.saved => backups["sshd"] = <<script.before>>
        /\ script.family = "netplan" /\ script.saved =>
              \/ script.before = Original /\ backups["netplan"] = <<>>
              \/ /\ backups["netplan"] # <<>>
                 /\ backups["netplan"][Len(backups["netplan"])] = script.before
        /\ script.family = "sudoers" => ~script.saved

(* netplan has copies from its first file on.                               *)
NoFileNoCopy ==
    /\ conf["netplan"].edit = 0 => conf["netplan"] = Original /\ backups["netplan"] = <<>>
    /\ \A i \in 1..Len(backups["netplan"]) : backups["netplan"][i].edit # 0

(* Outside a script, and in one up to its check, what the services read and *)
(* what the copies hold is acceptable.                                      *)
GoodCopies ==
    \A f \in Asking \ spoiled :
        /\ inForce[f].good
        /\ \A i \in 1..Len(backups[f]) : backups[f][i].good
        /\ conf[f].good \/ (Busy /\ script.family = f /\ f # "sudoers" /\ script.at \in 2..4)
        /\ Busy /\ script.family = f =>
              /\ f = "netplan" /\ script.at = 4 => conf[f].good
              /\ f = "sshd" /\ script.at = 2 => conf[f].good
              /\ f = "netplan" /\ script.at = 2 => conf[f].good
              /\ f = "sudoers" /\ script.at = 3 => script.new.good

(* A chain of && is where it is because every step before it was done.      *)
ChainDone ==
    Busy => (script.family = "chrony" /\ script.at = 4 => conf["chrony"] = script.new)

ConfigInv == ConfigIsSound /\ ScriptForm /\ CopiedBefore /\ NoFileNoCopy /\ GoodCopies /\ ChainDone

(* The n-th of the l steps of family f's script is d.                       *)
Place(f, n, d, l) ==
    \/ /\ f = "sshd" /\ l = 4
       /\ \/ n = 1 /\ d = "save"
          \/ n = 2 /\ d = "strip"
          \/ n = 3 /\ d = "append"
          \/ n = 4 /\ d = "check"
    \/ /\ f = "netplan" /\ l = 4
       /\ \/ n = 1 /\ d = "save"
          \/ n = 2 /\ d = "append"
          \/ n = 3 /\ d = "check"
          \/ n = 4 /\ d = "load"
    \/ /\ f = "chrony" /\ l = 4
       /\ \/ n = 1 /\ d = "save"
          \/ n = 2 /\ d = "strip"
          \/ n = 3 /\ d = "append"
          \/ n = 4 /\ d = "load"
    \/ /\ f = "fstab" /\ l = 2
       /\ \/ n = 1 /\ d = "save"
          \/ n = 2 /\ d = "append"
    \/ /\ f = "sudoers" /\ l = 3
       /\ \/ n = 1 /\ d = "stage"
          \/ n = 2 /\ d = "check"
          \/ n = 3 /\ d = "install"
    \/ /\ f = "logindefs" /\ l = 2
       /\ \/ n = 1 /\ d = "save"
          \/ n = 2 /\ d = "append"

LEMMA Lines ==
    ASSUME NEW f \in Families, NEW n \in 1..Len(Writing(f))
    PROVE  Place(f, n, Writing(f)[n], Len(Writing(f)))
<1>1. CASE f = "sshd"
  <2>1. Writing(f) = <<"save", "strip", "append", "check">>
    BY <1>1 DEF Writing
  <2>2. Len(Writing(f)) = 4
    BY <2>1
  <2>3. \/ n = 1 /\ Writing(f)[n] = "save"
        \/ n = 2 /\ Writing(f)[n] = "strip"
        \/ n = 3 /\ Writing(f)[n] = "append"
        \/ n = 4 /\ Writing(f)[n] = "check"
    BY <2>1
  <2> QED
    BY <1>1, <2>2, <2>3 DEF Place
<1>2. CASE f = "netplan"
  <2>1. Writing(f) = <<"save", "append", "check", "load">>
    BY <1>2 DEF Writing
  <2>2. Len(Writing(f)) = 4
    BY <2>1
  <2>3. \/ n = 1 /\ Writing(f)[n] = "save"
        \/ n = 2 /\ Writing(f)[n] = "append"
        \/ n = 3 /\ Writing(f)[n] = "check"
        \/ n = 4 /\ Writing(f)[n] = "load"
    BY <2>1
  <2> QED
    BY <1>2, <2>2, <2>3 DEF Place
<1>3. CASE f = "chrony"
  <2>1. Writing(f) = <<"save", "strip", "append", "load">>
    BY <1>3 DEF Writing
  <2>2. Len(Writing(f)) = 4
    BY <2>1
  <2>3. \/ n = 1 /\ Writing(f)[n] = "save"
        \/ n = 2 /\ Writing(f)[n] = "strip"
        \/ n = 3 /\ Writing(f)[n] = "append"
        \/ n = 4 /\ Writing(f)[n] = "load"
    BY <2>1
  <2> QED
    BY <1>3, <2>2, <2>3 DEF Place
<1>4. CASE f = "fstab"
  <2>1. Writing(f) = <<"save", "append">>
    BY <1>4 DEF Writing
  <2>2. Len(Writing(f)) = 2
    BY <2>1
  <2>3. \/ n = 1 /\ Writing(f)[n] = "save"
        \/ n = 2 /\ Writing(f)[n] = "append"
    BY <2>1
  <2> QED
    BY <1>4, <2>2, <2>3 DEF Place
<1>5. CASE f = "sudoers"
  <2>1. Writing(f) = <<"stage", "check", "install">>
    BY <1>5 DEF Writing
  <2>2. Len(Writing(f)) = 3
    BY <2>1
  <2>3. \/ n = 1 /\ Writing(f)[n] = "stage"
        \/ n = 2 /\ Writing(f)[n] = "check"
        \/ n = 3 /\ Writing(f)[n] = "install"
    BY <2>1
  <2> QED
    BY <1>5, <2>2, <2>3 DEF Place
<1>6. CASE f = "logindefs"
  <2>1. Writing(f) = <<"save", "append">>
    BY <1>6 DEF Writing
  <2>2. Len(Writing(f)) = 2
    BY <2>1
  <2>3. \/ n = 1 /\ Writing(f)[n] = "save"
        \/ n = 2 /\ Writing(f)[n] = "append"
    BY <2>1
  <2> QED
    BY <1>6, <2>2, <2>3 DEF Place
<1> QED
  BY <1>1, <1>2, <1>3, <1>4, <1>5, <1>6 DEF Families

(* Where the script is, by what it does next.                               *)
LEMMA DoingIs ==
    ASSUME Busy, ScriptForm, ConfigTypeOK
    PROVE  /\ script.family \in Families /\ script.at \in 1..4
           /\ Doing \in {"save", "strip", "append", "check", "load", "stage", "install"}
           /\ Doing = "save" => script.family # "sudoers" /\ script.at = 1
           /\ Doing = "strip" => script.family \in {"sshd", "chrony"} /\ script.at = 2
           /\ Doing = "append" =>
                 \/ script.family \in {"sshd", "chrony"} /\ script.at = 3
                 \/ script.family \in {"netplan", "fstab", "logindefs"} /\ script.at = 2
           /\ Doing = "check" =>
                 \/ script.family = "sshd" /\ script.at = 4
                 \/ script.family = "netplan" /\ script.at = 3
                 \/ script.family = "sudoers" /\ script.at = 2
           /\ Doing = "load" => script.family \in {"netplan", "chrony"} /\ script.at = 4
           /\ Doing = "stage" => script.family = "sudoers" /\ script.at = 1
           /\ Doing = "install" => script.family = "sudoers" /\ script.at = 3
<1>1. /\ script \in RunningScripts
      /\ script.at \in 1..Len(Writing(script.family))
  BY DEF Busy, ScriptForm, ConfigTypeOK
<1>2. Place(script.family, script.at, Doing, Len(Writing(script.family)))
  BY <1>1, Lines DEF Doing, RunningScripts
<1> QED
  BY <1>1, <1>2 DEF Place, RunningScripts

(* The last step of a script.                                               *)
AtEnd ==
    \/ script.family \in {"sshd", "netplan", "chrony"} /\ script.at = 4
    \/ script.family \in {"fstab", "logindefs"} /\ script.at = 2
    \/ script.family = "sudoers" /\ script.at = 3

(* A step that is not the last leads to the next; the last ends the script. *)
LEMMA LineMoves ==
    ASSUME Busy, ScriptForm, ConfigTypeOK, NEW s, NextLine(s),
           s \in {script, [script EXCEPT !.saved = TRUE], [script EXCEPT !.stripped = TRUE]}
    PROVE  \/ /\ script' = NothingRuns
              /\ verdict' = [family |-> script.family, how |-> "ok", new |-> script.new,
                             before |-> script.before, saved |-> script.saved]
              /\ AtEnd
           \/ /\ ~AtEnd
              /\ script' = [s EXCEPT !.at = script.at + 1] /\ verdict' = verdict
              /\ script'.at = script.at + 1 /\ script'.at \in 1..Len(Writing(script.family))
              /\ script'.at \in 2..4 /\ script' # NothingRuns
              /\ script'.family = script.family /\ script'.new = script.new
              /\ script'.before = script.before /\ script'.saved = s.saved
              /\ script' \in RunningScripts
<1>1. /\ script \in RunningScripts
      /\ script.at \in 1..Len(Writing(script.family))
  BY DEF Busy, ScriptForm, ConfigTypeOK
<1>2. Place(script.family, script.at, Doing, Len(Writing(script.family)))
  BY <1>1, Lines DEF Doing, RunningScripts
<1>3. /\ s \in RunningScripts
      /\ s.family = script.family /\ s.at = script.at /\ s.new = script.new
      /\ s.before = script.before
  BY <1>1 DEF RunningScripts
<1>4. CASE s.at < Len(Writing(s.family))
  <2>1. script' = [s EXCEPT !.at = s.at + 1] /\ verdict' = verdict
    BY <1>4 DEF NextLine
  <2>2. script.at + 1 \in 2..4 /\ script.at + 1 \in 1..Len(Writing(script.family))
    <3>1. script.at < Len(Writing(script.family)) /\ script.at \in 1..4
      BY <1>1, <1>3, <1>4 DEF RunningScripts
    <3>2. Len(Writing(script.family)) \in 2..4
      BY <1>2 DEF Place
    <3>3. ASSUME NEW a \in 1..4, NEW l \in 2..4, a < l
          PROVE  a + 1 \in 2..4 /\ a + 1 \in 1..l
      BY <3>3
    <3> QED
      BY <3>1, <3>2, <3>3
  <2>3. script' # NothingRuns
    BY <1>3, <2>1, <2>2 DEF NothingRuns, Families, RunningScripts
  <2>6. ~AtEnd
    <3>1. script.at < Len(Writing(script.family)) /\ script.at \in 1..4
      BY <1>1, <1>3, <1>4 DEF RunningScripts
    <3>2. script.at # Len(Writing(script.family))
      BY <1>2, <3>1 DEF Place
    <3>3. ASSUME NEW f, NEW n, NEW d, NEW l, Place(f, n, d, l),
                 \/ f \in {"sshd", "netplan", "chrony"} /\ n = 4
                 \/ f \in {"fstab", "logindefs"} /\ n = 2
                 \/ f = "sudoers" /\ n = 3
          PROVE  n = l
      BY <3>3 DEF Place
    <3> QED
      BY <1>2, <3>2, <3>3 DEF AtEnd
  <2> DEFINE n == script.at + 1
  <2>4. n \in 1..4
    BY <2>2
  <2> HIDE DEF n
  <2>5. /\ script' \in RunningScripts /\ script'.at = n /\ script'.family = s.family
        /\ script'.new = s.new /\ script'.before = s.before /\ script'.saved = s.saved
    <3>1. script' = [s EXCEPT !.at = n]
      BY <1>3, <2>1 DEF n
    <3> QED
      BY <1>3, <2>4, <3>1 DEF RunningScripts
  <2> QED
    BY <1>3, <2>1, <2>2, <2>3, <2>5, <2>6 DEF n
<1>5. CASE ~(s.at < Len(Writing(s.family)))
  <2>1. Ends("ok")
    BY <1>5 DEF NextLine
  <2>2. /\ ~(script.at < Len(Writing(script.family))) /\ script.at \in 1..4
        /\ Len(Writing(script.family)) \in Nat
    BY <1>1, <1>2, <1>3, <1>5 DEF Place, RunningScripts
  <2>3. script.at = Len(Writing(script.family))
    <3>1. script.at \in 1..Len(Writing(script.family))
      BY <1>1
    <3> QED
      BY <2>2, <3>1
  <2>4. AtEnd
    BY <1>2, <2>3 DEF Place, AtEnd
  <2> QED
    BY <2>1, <2>4 DEF Ends
<1> QED
  BY <1>4, <1>5

(* How a step leaves the script: ended, or at the next line of it.          *)
Ended(how) ==
    /\ ~Busy' /\ verdict'.family = script.family /\ verdict'.how = how
    /\ verdict'.new = script.new /\ verdict'.before = script.before
    /\ verdict'.saved = script.saved

Advanced(saved) ==
    /\ Busy' /\ verdict' = verdict
    /\ script'.family = script.family /\ script'.at = script.at + 1 /\ script'.at \in 2..4
    /\ script'.new = script.new /\ script'.before = script.before /\ script'.saved = saved

LEMMA EndsFields == \A how : Ends(how) => Ended(how)
  BY DEF Ends, Ended, Busy

LEMMA Advances ==
    ASSUME Busy, ScriptForm, ConfigTypeOK
    PROVE  /\ NextLine(script) => (AtEnd /\ Ended("ok")) \/ (~AtEnd /\ Advanced(script.saved))
           /\ NextLine([script EXCEPT !.saved = TRUE])
                => (AtEnd /\ Ended("ok")) \/ (~AtEnd /\ Advanced(TRUE))
           /\ NextLine([script EXCEPT !.stripped = TRUE])
                => (AtEnd /\ Ended("ok")) \/ (~AtEnd /\ Advanced(script.saved))
<1>1. script \in RunningScripts
  BY DEF Busy, ScriptForm
<1>2. /\ [script EXCEPT !.saved = TRUE].saved = TRUE
      /\ [script EXCEPT !.stripped = TRUE].saved = script.saved
  BY <1>1 DEF RunningScripts
<1>3. ASSUME NEW s, NextLine(s),
             s \in {script, [script EXCEPT !.saved = TRUE], [script EXCEPT !.stripped = TRUE]}
      PROVE  (AtEnd /\ Ended("ok")) \/ (~AtEnd /\ Advanced(s.saved))
  BY <1>3, LineMoves DEF Ended, Advanced, Busy
<1> QED
  BY <1>2, <1>3

LEMMA ContentSet ==
    /\ Original \in Content
    /\ \A c \in Content : [edit |-> 0, good |-> c.good] \in Content
    /\ \A c, d \in Content : [edit |-> c.edit, good |-> c.good /\ d.good] \in Content
    /\ \A c \in Content : c.edit \in Nat /\ c.good \in BOOLEAN
  BY ConfigBounds DEF Original, Content

LEMMA ConfigForm ==
    ASSUME conf' \in [Families -> Content], inForce' \in [Families -> Content],
           backups' \in [Families -> Seq(Content)],
           script' # NothingRuns => /\ script' \in RunningScripts /\ script'.new.edit # 0
                                    /\ script'.at \in 1..Len(Writing(script'.family)),
           script' \in RunningScripts \cup {NothingRuns},
           spoiled' \subseteq Families, edits' \in 0..MaxEdits, failed' \in 0..MaxMishaps
    PROVE  ConfigTypeOK' /\ ScriptForm'
<1>1. script'.family \in Families \cup {"none"}
  BY DEF RunningScripts, NothingRuns
<1>2. script' = NothingRuns => ~Busy'
  BY DEF Busy
<1> QED
  BY <1>1 DEF ConfigTypeOK, ScriptForm, Busy

LEMMA FormKept ==
    ASSUME ConfigTypeOK, ScriptForm, [ConfigNext]_hcVars
    PROVE  ConfigTypeOK' /\ ScriptForm'
<1> USE ConfigBounds
<1>o. /\ conf \in [Families -> Content] /\ inForce \in [Families -> Content]
      /\ backups \in [Families -> Seq(Content)]
      /\ spoiled \subseteq Families /\ edits \in 0..MaxEdits /\ failed \in 0..MaxMishaps
  BY DEF ConfigTypeOK, ScriptForm
<1>s. /\ script \in RunningScripts \cup {NothingRuns}
      /\ Busy => /\ script \in RunningScripts /\ script.new.edit # 0
                 /\ script.at \in 1..Len(Writing(script.family))
                 /\ script.family \in Families
                 /\ script.new \in Content /\ script.before \in Content
      /\ ~Busy => script = NothingRuns
  <2>1. Busy <=> script # NothingRuns
    BY DEF Busy
  <2> QED
    BY <2>1 DEF ConfigTypeOK, ScriptForm, RunningScripts
<1>n. ASSUME Busy, NEW t, NextLine(t),
             t \in {script, [script EXCEPT !.saved = TRUE], [script EXCEPT !.stripped = TRUE]}
      PROVE  /\ script' # NothingRuns => /\ script' \in RunningScripts /\ script'.new.edit # 0
                                         /\ script'.at \in 1..Len(Writing(script'.family))
             /\ script' \in RunningScripts \cup {NothingRuns}
  BY <1>n, <1>s, LineMoves
<1>e. ASSUME NEW how, Ends(how) PROVE script' = NothingRuns
  BY <1>e DEF Ends
<1>k. ASSUME script' = script
      PROVE  /\ script' # NothingRuns => /\ script' \in RunningScripts /\ script'.new.edit # 0
                                         /\ script'.at \in 1..Len(Writing(script'.family))
             /\ script' \in RunningScripts \cup {NothingRuns}
  BY <1>k, <1>s DEF Busy
<1>u. CASE UNCHANGED hcVars
  BY <1>u, <1>o, <1>k, ConfigForm DEF hcVars
<1>1. CASE \E f \in Families : StartScript(f)
  <2> PICK f \in Families : StartScript(f)
    BY <1>1
  <2>1. PICK good \in BOOLEAN :
          script' = [family |-> f, at |-> 1, saved |-> FALSE, before |-> conf[f],
                     stripped |-> FALSE, new |-> [edit |-> edits + 1, good |-> good]]
    BY DEF StartScript
  <2>2. edits < MaxEdits /\ edits' = edits + 1
    BY DEF StartScript
  <2>3. edits + 1 \in 0..MaxEdits /\ edits + 1 # 0
    BY <2>2, <1>o
  <2> DEFINE new == [edit |-> edits + 1, good |-> good]
  <2>4. new \in Content /\ new.edit # 0
    BY <2>3 DEF Content
  <2> HIDE DEF new
  <2>5. conf[f] \in Content
    BY <1>o
  <2>6. script' = [family |-> f, at |-> 1, saved |-> FALSE, before |-> conf[f],
                   stripped |-> FALSE, new |-> new]
    BY <2>1 DEF new
  <2>7. script' \in RunningScripts /\ script'.new.edit # 0 /\ script'.at = 1 /\ script'.family = f
    BY <2>4, <2>5, <2>6 DEF RunningScripts
  <2>8. 1 \in 1..Len(Writing(f))
    BY DEF Writing, Families
  <2> QED
    BY <2>2, <2>3, <2>7, <2>8, <1>o, ConfigForm DEF StartScript
<1>2. CASE SaveCopy
  <2> DEFINE f == script.family
  <2>1. f \in Families /\ conf[f] \in Content /\ backups[f] \in Seq(Content)
    BY <1>2, <1>o, <1>s DEF SaveCopy
  <2>2. BackedUp(f) \in Seq(Content)
    BY <2>1 DEF BackedUp
  <2>3. backups' \in [Families -> Seq(Content)]
    BY <1>2, <1>o, <2>2 DEF SaveCopy
  <2> QED
    BY <1>2, <2>3, <1>n, <1>o, ConfigForm DEF SaveCopy
<1>3. CASE Strip
  <2>1. conf' \in [Families -> Content]
    BY <1>3, <1>o, ContentSet DEF Strip
  <2> QED
    BY <1>3, <2>1, <1>n, <1>o, ConfigForm DEF Strip
<1>4. CASE WriteFile
  <2>1. Written(script.family) \in Content
    BY <1>4, <1>o, <1>s, ContentSet DEF WriteFile, Written
  <2>2. conf' \in [Families -> Content]
    BY <1>4, <1>o, <2>1 DEF WriteFile
  <2> QED
    BY <1>4, <2>2, <1>n, <1>o, ConfigForm DEF WriteFile
<1>5. CASE StageCopy
  BY <1>5, <1>n, <1>o, ConfigForm DEF StageCopy
<1>6. CASE Install
  BY <1>6, <1>n, <1>o, <1>s, ConfigForm DEF Install
<1>7. CASE CheckPasses
  <2>1. inForce' \in [Families -> Content]
    BY <1>7, <1>o DEF CheckPasses, Families
  <2> QED
    BY <1>7, <2>1, <1>n, <1>o, ConfigForm DEF CheckPasses
<1>8. CASE CheckFails
  <2> DEFINE f == script.family
  <2>1. f \in Families /\ backups[f] \in Seq(Content)
    BY <1>8, <1>o, <1>s DEF CheckFails
  <2>2. Restored(f) \in Content /\ Unspent(f) \in Seq(Content)
    <3>1. ASSUME backups[f] # <<>>
          PROVE  /\ Len(backups[f]) \in 1..Len(backups[f])
                 /\ backups[f][Len(backups[f])] \in Content
                 /\ SubSeq(backups[f], 1, Len(backups[f]) - 1) \in Seq(Content)
      BY <2>1, <3>1
    <3> QED
      BY <2>1, <3>1, ContentSet DEF Restored, Unspent
  <2>3. conf' \in [Families -> Content] /\ backups' \in [Families -> Seq(Content)]
    BY <1>8, <1>o, <2>1, <2>2 DEF CheckFails
  <2>4. script' = NothingRuns
    BY <1>8, <1>e DEF CheckFails
  <2>5. spoiled' \subseteq Families /\ failed' \in 0..MaxMishaps
    BY <1>8, <1>o, <2>1 DEF CheckFails
  <2> QED
    BY <1>8, <2>3, <2>4, <2>5, <1>o, ConfigForm DEF CheckFails
<1>9. CASE LoadFile
  <2>1. inForce' \in [Families -> Content]
    BY <1>9, <1>o, <1>s DEF LoadFile
  <2> QED
    BY <1>9, <2>1, <1>n, <1>o, ConfigForm DEF LoadFile
<1>10. CASE ReloadSshd
  BY <1>10, <1>k, <1>o, ConfigForm DEF ReloadSshd, Families
<1>11. CASE LineFails
  <2>1. failed' \in 0..MaxMishaps
    BY <1>11, <1>o DEF LineFails
  <2>2. script' = NothingRuns \/ NextLine(script)
    BY <1>11, <1>e DEF LineFails
  <2> QED
    BY <1>11, <2>1, <2>2, <1>n, <1>o, ConfigForm DEF LineFails
<1>12. CASE CutShort
  <2>1. failed' \in 0..MaxMishaps
    BY <1>12, <1>o DEF CutShort
  <2>2. spoiled' \subseteq Families
    BY <1>12, <1>o, <1>s DEF CutShort
  <2> QED
    BY <1>12, <2>1, <2>2, <1>e, <1>o, ConfigForm DEF CutShort
<1> QED
  BY <1>u, <1>1, <1>2, <1>3, <1>4, <1>5, <1>6, <1>7, <1>8, <1>9, <1>10, <1>11, <1>12
     DEF ConfigNext

ConfigRest == /\ RefusedIsRestored /\ AcceptableAtRest /\ DoneIsDone
              /\ CopiedBefore /\ NoFileNoCopy /\ GoodCopies /\ ChainDone

(* What each step is to the script: it starts one, advances it or ends it.  *)
LEMMA StartStep ==
    ASSUME ConfigTypeOK, ScriptForm, NEW f \in Families, StartScript(f)
    PROVE  /\ ~Busy /\ Busy' /\ script'.family = f /\ script'.at = 1
           /\ ~script'.saved /\ script'.before = conf[f]
  BY DEF StartScript, Busy, NothingRuns, Families

LEMMA SaveStep ==
    ASSUME ConfigTypeOK, ScriptForm, SaveCopy
    PROVE  /\ Busy /\ Advanced(TRUE) /\ script.at = 1
           /\ script.family \in Families \ {"sudoers"}
<1>1. Busy /\ Doing = "save" /\ NextLine([script EXCEPT !.saved = TRUE])
  BY DEF SaveCopy
<1>2. script.family \in Families \ {"sudoers"} /\ script.at = 1
  BY <1>1, DoingIs
<1>3. ~AtEnd
  BY <1>2 DEF AtEnd
<1> QED
  BY <1>1, <1>2, <1>3, Advances

LEMMA StripStep ==
    ASSUME ConfigTypeOK, ScriptForm, Strip
    PROVE  /\ Busy /\ Advanced(script.saved) /\ script.at = 2
           /\ script.family \in {"sshd", "chrony"}
  BY DoingIs, Advances DEF Strip, AtEnd

LEMMA WriteStep ==
    ASSUME ConfigTypeOK, ScriptForm, WriteFile
    PROVE  /\ Busy
           /\ \/ /\ script.at = 3 /\ script.family \in {"sshd", "chrony"}
                 /\ Advanced(script.saved)
              \/ script.at = 2 /\ script.family = "netplan" /\ Advanced(script.saved)
              \/ script.at = 2 /\ script.family \in {"fstab", "logindefs"} /\ Ended("ok")
  BY DoingIs, Advances DEF WriteFile, AtEnd

LEMMA StageStep ==
    ASSUME ConfigTypeOK, ScriptForm, StageCopy
    PROVE  /\ Busy /\ Advanced(script.saved) /\ script.at = 1
           /\ script.family = "sudoers"
  BY DoingIs, Advances DEF StageCopy, AtEnd

LEMMA InstallStep ==
    ASSUME ConfigTypeOK, ScriptForm, Install
    PROVE  Busy /\ Ended("ok") /\ script.at = 3 /\ script.family = "sudoers"
  BY DoingIs, Advances DEF Install, AtEnd

LEMMA PassStep ==
    ASSUME ConfigTypeOK, ScriptForm, CheckPasses
    PROVE  /\ Busy
           /\ \/ script.at = 4 /\ script.family = "sshd" /\ Ended("ok")
              \/ script.at = 3 /\ script.family = "netplan" /\ Advanced(script.saved)
              \/ script.at = 2 /\ script.family = "sudoers" /\ Advanced(script.saved)
  BY DoingIs, Advances DEF CheckPasses, AtEnd

LEMMA RefuseStep ==
    ASSUME ConfigTypeOK, ScriptForm, CheckFails
    PROVE  /\ Busy
           /\ \/ Ended("stranded") /\ script.family = "sshd" /\ script.at = 4
              \/ /\ Ended("refused")
                 /\ \/ script.at = 4 /\ script.family = "sshd" /\ backups["sshd"] # <<>>
                    \/ script.at = 3 /\ script.family = "netplan"
                    \/ script.at = 2 /\ script.family = "sudoers"
  BY DoingIs, EndsFields DEF CheckFails

LEMMA RefuseEffects ==
    ASSUME ConfigTypeOK, ScriptForm, CheckFails
    PROVE  /\ UNCHANGED <<inForce, edits>>
           /\ \/ /\ script.family = "sshd" /\ spoiled' = spoiled \cup {"sshd"}
                 /\ UNCHANGED <<conf, backups>> /\ Ended("stranded")
              \/ /\ Ended("refused") /\ UNCHANGED spoiled
                 /\ script.family = "sudoers" => UNCHANGED conf
                 /\ script.family # "sudoers" =>
                       conf' = [conf EXCEPT ![script.family] = Restored(script.family)]
                 /\ backups' = [backups EXCEPT ![script.family] = Unspent(script.family)]
                 /\ script.family = "sshd" => backups["sshd"] # <<>>
  BY EndsFields DEF CheckFails

LEMMA LoadStep ==
    ASSUME ConfigTypeOK, ScriptForm, LoadFile
    PROVE  /\ Busy /\ Ended("ok") /\ script.at = 4
           /\ script.family \in {"netplan", "chrony"}
  BY DoingIs, Advances DEF LoadFile, AtEnd

LEMMA FailStep ==
    ASSUME ConfigTypeOK, ScriptForm, LineFails
    PROVE  /\ Busy
           /\ \/ /\ Ended("failed") /\ script.family # "sshd"
                 /\ script.family = "netplan" => script.at = 4
              \/ Ended("ok") /\ script.family = "logindefs"
              \/ /\ Advanced(script.saved) /\ script.family \in {"sshd", "netplan", "logindefs"}
                 /\ script.family = "netplan" => script.at \in 1..2
                 /\ script.family = "sshd" => script.at \in 1..3
<1>1. Busy /\ Doing # "check"
  BY DEF LineFails
<1>2. CASE Doing \in Gated(script.family) /\ Ends("failed")
  <2>1. script.family # "sshd" /\ (script.family = "netplan" => script.at = 4)
    BY <1>1, <1>2, DoingIs DEF Gated
  <2> QED
    BY <1>1, <1>2, <2>1, EndsFields
<1>3. CASE Doing \notin Gated(script.family) /\ NextLine(script)
  <2>1. script.family \in {"sshd", "netplan", "logindefs"}
    BY <1>1, <1>3, DoingIs DEF Gated, Families
  <2>2. /\ script.family = "netplan" => script.at \in 1..2
        /\ script.family = "sshd" => script.at \in 1..3
    BY <1>1, <1>3, <2>1, DoingIs DEF Gated
  <2> QED
    BY <1>1, <1>3, <2>1, <2>2, Advances DEF AtEnd
<1> QED
  BY <1>2, <1>3 DEF LineFails

LEMMA CutStep ==
    ASSUME ConfigTypeOK, ScriptForm, CutShort
    PROVE  Busy /\ Ended("cut")
  BY EndsFields DEF CutShort


LEMMA RefusedKept ==
    ASSUME ConfigTypeOK, ScriptForm, ConfigTypeOK', ScriptForm', ConfigRest, [ConfigNext]_hcVars
    PROVE  RefusedIsRestored'
<1>p. RefusedIsRestored /\ CopiedBefore
  BY DEF ConfigRest
<1>o. /\ conf \in [Families -> Content] /\ inForce \in [Families -> Content]
      /\ backups \in [Families -> Seq(Content)] /\ spoiled \subseteq Families
  BY DEF ConfigTypeOK, ScriptForm
<1>1. CASE \E f \in Families : StartScript(f)
  BY <1>1, <1>p, <1>o, StartStep DEF StartScript, RefusedIsRestored, CopiedBefore, Ended, Advanced
<1>2. CASE SaveCopy
  BY <1>2, <1>p, <1>o, SaveStep DEF SaveCopy, BackedUp, RefusedIsRestored, CopiedBefore, Ended, Advanced
<1>3. CASE Strip
  BY <1>3, <1>p, <1>o, StripStep DEF Strip, RefusedIsRestored, CopiedBefore, Ended, Advanced
<1>4. CASE WriteFile
  BY <1>4, <1>p, <1>o, WriteStep DEF WriteFile, Written, RefusedIsRestored, CopiedBefore, Ended, Advanced
<1>5. CASE StageCopy
  BY <1>5, <1>p, <1>o, StageStep DEF StageCopy, RefusedIsRestored, CopiedBefore, Ended, Advanced
<1>6. CASE Install
  BY <1>6, <1>p, <1>o, InstallStep DEF Install, RefusedIsRestored, CopiedBefore, Ended, Advanced
<1>7. CASE CheckPasses
  BY <1>7, <1>p, <1>o, PassStep DEF CheckPasses, Accepts, AskedFor, RefusedIsRestored, CopiedBefore, Ended, Advanced
<1>8. CASE CheckFails
  <2>1. CASE Ended("stranded")
    BY <2>1 DEF Ended, RefusedIsRestored
  <2>2. CASE Ended("refused") /\ script.family = "sudoers"
    BY <1>8, <2>2, <1>p, RefuseStep DEF Ended, RefusedIsRestored, CopiedBefore
  <2>3. CASE Ended("refused") /\ script.family \in {"sshd", "netplan"}
    <3>1. conf' = [conf EXCEPT ![script.family] = Restored(script.family)]
      BY <1>8, <2>3, RefuseEffects DEF Ended
    <3>2. conf'[script.family] = Restored(script.family)
      BY <2>3, <3>1, <1>o DEF Families
    <3>3. script.saved => Restored(script.family) = script.before
      <4>1. backups["sshd"] = <<script.before>> =>
               backups["sshd"] # <<>> /\ backups["sshd"][Len(backups["sshd"])] = script.before
        OBVIOUS
      <4> QED
        BY <1>8, <2>3, <4>1, <1>p, RefuseStep DEF CopiedBefore, Restored
    <3> QED
      BY <2>3, <3>2, <3>3 DEF Ended, RefusedIsRestored
  <2> QED
    BY <1>8, <2>1, <2>2, <2>3, RefuseStep
<1>9. CASE LoadFile
  BY <1>9, <1>p, <1>o, LoadStep DEF LoadFile, RefusedIsRestored, CopiedBefore, Ended, Advanced
<1>10. CASE ReloadSshd
  BY <1>10, <1>p, <1>o DEF ReloadSshd, Busy, RefusedIsRestored, CopiedBefore, Ended, Advanced
<1>11. CASE LineFails
  BY <1>11, <1>p, <1>o, FailStep DEF LineFails, RefusedIsRestored, CopiedBefore, Ended, Advanced
<1>12. CASE CutShort
  BY <1>12, <1>p, <1>o, CutStep DEF CutShort, RefusedIsRestored, CopiedBefore, Ended, Advanced
<1>u. CASE UNCHANGED hcVars
  BY <1>u, <1>p DEF hcVars, Busy, RefusedIsRestored, CopiedBefore
<1> QED
  BY <1>u, <1>1, <1>2, <1>3, <1>4, <1>5, <1>6, <1>7, <1>8, <1>9, <1>10, <1>11, <1>12 DEF ConfigNext

LEMMA ChainKept ==
    ASSUME ConfigTypeOK, ScriptForm, ConfigTypeOK', ScriptForm', ConfigRest, [ConfigNext]_hcVars
    PROVE  ChainDone' /\ DoneIsDone'
<1>p. ChainDone /\ DoneIsDone
  BY DEF ConfigRest
<1>o. /\ conf \in [Families -> Content] /\ inForce \in [Families -> Content]
      /\ backups \in [Families -> Seq(Content)] /\ spoiled \subseteq Families
  BY DEF ConfigTypeOK, ScriptForm
<1>1. CASE \E f \in Families : StartScript(f)
  BY <1>1, <1>p, <1>o, StartStep DEF StartScript, ChainDone, DoneIsDone, Ended, Advanced
<1>2. CASE SaveCopy
  BY <1>2, <1>p, <1>o, SaveStep DEF SaveCopy, BackedUp, ChainDone, DoneIsDone, Ended, Advanced
<1>3. CASE Strip
  BY <1>3, <1>p, <1>o, StripStep DEF Strip, ChainDone, DoneIsDone, Ended, Advanced
<1>4. CASE WriteFile
  <2>1. script.family \in Families
    BY <1>4, WriteStep DEF Families
  <2>2. conf' = [conf EXCEPT ![script.family] = Written(script.family)]
    BY <1>4 DEF WriteFile
  <2>3. conf'[script.family] = Written(script.family)
    BY <2>1, <2>2, <1>o
  <2>4. script.family # "sshd" => conf'[script.family] = script.new
    BY <2>3 DEF Written
  <2> QED
    BY <1>4, <2>4, WriteStep DEF Ended, Advanced, ChainDone, DoneIsDone
<1>5. CASE StageCopy
  BY <1>5, <1>p, <1>o, StageStep DEF StageCopy, ChainDone, DoneIsDone, Ended, Advanced
<1>6. CASE Install
  <2>1. conf'["sudoers"] = script.new /\ inForce'["sudoers"] = script.new
    BY <1>6, <1>o DEF Install, Families
  <2> QED
    BY <1>6, <2>1, InstallStep DEF Ended, ChainDone, DoneIsDone
<1>7. CASE CheckPasses
  BY <1>7, <1>p, <1>o, PassStep DEF CheckPasses, Accepts, AskedFor, ChainDone, DoneIsDone, Ended, Advanced
<1>8. CASE CheckFails
  BY <1>8, <1>p, <1>o, RefuseStep DEF CheckFails, Accepts, AskedFor, Restored, Unspent, ChainDone, DoneIsDone, Ended, Advanced
<1>9. CASE LoadFile
  <2>1. UNCHANGED conf /\ inForce'[script.family] = conf[script.family]
    BY <1>9, <1>o, LoadStep DEF LoadFile, Families
  <2> QED
    BY <1>9, <2>1, <1>p, LoadStep DEF Ended, ChainDone, DoneIsDone
<1>10. CASE ReloadSshd
  BY <1>10, <1>p, <1>o DEF ReloadSshd, Busy, ChainDone, DoneIsDone, Ended, Advanced
<1>11. CASE LineFails
  BY <1>11, <1>p, <1>o, FailStep DEF LineFails, ChainDone, DoneIsDone, Ended, Advanced
<1>12. CASE CutShort
  BY <1>12, <1>p, <1>o, CutStep DEF CutShort, ChainDone, DoneIsDone, Ended, Advanced
<1>u. CASE UNCHANGED hcVars
  BY <1>u, <1>p DEF hcVars, Busy, ChainDone, DoneIsDone
<1> QED
  BY <1>u, <1>1, <1>2, <1>3, <1>4, <1>5, <1>6, <1>7, <1>8, <1>9, <1>10, <1>11, <1>12 DEF ConfigNext

LEMMA NoFileNoCopyKept ==
    ASSUME ConfigTypeOK, ScriptForm, ConfigTypeOK', ScriptForm', ConfigRest, [ConfigNext]_hcVars
    PROVE  NoFileNoCopy'
<1>p. CopiedBefore /\ NoFileNoCopy
  BY DEF ConfigRest
<1>o. /\ conf \in [Families -> Content] /\ inForce \in [Families -> Content]
      /\ backups \in [Families -> Seq(Content)] /\ spoiled \subseteq Families
  BY DEF ConfigTypeOK, ScriptForm
<1>1. CASE \E f \in Families : StartScript(f)
  BY <1>1, <1>p, <1>o, StartStep DEF StartScript, NoFileNoCopy, Ended, Advanced
<1>2. CASE SaveCopy
  BY <1>2, <1>p, <1>o, SaveStep DEF SaveCopy, BackedUp, NoFileNoCopy, Ended, Advanced
<1>3. CASE Strip
  BY <1>3, <1>p, <1>o, StripStep DEF Strip, NoFileNoCopy, Ended, Advanced
<1>4. CASE WriteFile
  <2>1. UNCHANGED backups /\ conf' = [conf EXCEPT ![script.family] = Written(script.family)]
    BY <1>4 DEF WriteFile
  <2>2. script.family = "netplan" => conf'["netplan"] = script.new /\ script.new.edit # 0
    BY <1>4, <2>1, <1>o, WriteStep DEF Written, ScriptForm, Families
  <2>3. script.family # "netplan" => conf'["netplan"] = conf["netplan"]
    BY <2>1, <1>o DEF Families
  <2> QED
    BY <2>1, <2>2, <2>3, <1>p DEF NoFileNoCopy
<1>5. CASE StageCopy
  BY <1>5, <1>p, <1>o, StageStep DEF StageCopy, NoFileNoCopy, Ended, Advanced
<1>6. CASE Install
  BY <1>6, <1>p, <1>o, InstallStep DEF Install, NoFileNoCopy, Ended, Advanced
<1>7. CASE CheckPasses
  BY <1>7, <1>p, <1>o, PassStep DEF CheckPasses, Accepts, AskedFor, NoFileNoCopy, Ended, Advanced
<1>8. CASE CheckFails
  <2> DEFINE s == backups["netplan"]
  <2>1. CASE UNCHANGED <<conf, backups>>
    BY <2>1, <1>p DEF NoFileNoCopy
  <2>2. CASE script.family # "netplan"
    <3>1. conf'["netplan"] = conf["netplan"] /\ backups'["netplan"] = backups["netplan"]
      BY <1>8, <2>2, <1>o, RefuseEffects DEF Families
    <3> QED
      BY <3>1, <1>p DEF NoFileNoCopy
  <2>3. CASE Ended("refused") /\ script.family = "netplan"
    <3>1. /\ conf' = [conf EXCEPT !["netplan"] = Restored("netplan")]
          /\ backups' = [backups EXCEPT !["netplan"] = Unspent("netplan")]
      BY <1>8, <2>3, RefuseEffects DEF Ended
    <3>2. conf'["netplan"] = Restored("netplan") /\ backups'["netplan"] = Unspent("netplan")
      BY <3>1, <1>o DEF Families
    <3>3. CASE s = <<>>
      BY <3>2, <3>3 DEF Restored, Unspent, NoFileNoCopy, Original
    <3>4. CASE s # <<>>
      <4>1. s \in Seq(Content) /\ \A i \in 1..Len(s) : s[i].edit # 0
        BY <1>o, <1>p DEF Families, NoFileNoCopy
      <4>2. Len(s) \in 1..Len(s)
        BY <3>4, <4>1
      <4>3. /\ Len(SubSeq(s, 1, Len(s) - 1)) = Len(s) - 1
            /\ \A i \in 1..(Len(s) - 1) : i \in 1..Len(s) /\ SubSeq(s, 1, Len(s) - 1)[i] = s[i]
        BY <4>1, <4>2
      <4>4. Restored("netplan").edit # 0
        BY <3>4, <4>1, <4>2 DEF Restored
      <4>5. Unspent("netplan") = SubSeq(s, 1, Len(s) - 1)
        BY <3>4 DEF Unspent
      <4>6. \A i \in 1..Len(Unspent("netplan")) : Unspent("netplan")[i].edit # 0
        BY <4>1, <4>3, <4>5
      <4> QED
        BY <3>2, <4>4, <4>6 DEF NoFileNoCopy
    <3> QED
      BY <3>3, <3>4
  <2> QED
    BY <1>8, <2>1, <2>2, <2>3, RefuseEffects
<1>9. CASE LoadFile
  BY <1>9, <1>p, <1>o, LoadStep DEF LoadFile, NoFileNoCopy, Ended, Advanced
<1>10. CASE ReloadSshd
  BY <1>10, <1>p, <1>o DEF ReloadSshd, Busy, NoFileNoCopy, Ended, Advanced
<1>11. CASE LineFails
  BY <1>11, <1>p, <1>o, FailStep DEF LineFails, NoFileNoCopy, Ended, Advanced
<1>12. CASE CutShort
  BY <1>12, <1>p, <1>o, CutStep DEF CutShort, NoFileNoCopy, Ended, Advanced
<1>u. CASE UNCHANGED hcVars
  BY <1>u, <1>p DEF hcVars, Busy, NoFileNoCopy
<1> QED
  BY <1>u, <1>1, <1>2, <1>3, <1>4, <1>5, <1>6, <1>7, <1>8, <1>9, <1>10, <1>11, <1>12 DEF ConfigNext

LEMMA CopiedBeforeKept ==
    ASSUME ConfigTypeOK, ScriptForm, ConfigTypeOK', ScriptForm', ConfigRest, [ConfigNext]_hcVars
    PROVE  CopiedBefore'
<1>p. CopiedBefore /\ NoFileNoCopy
  BY DEF ConfigRest
<1>o. /\ conf \in [Families -> Content] /\ inForce \in [Families -> Content]
      /\ backups \in [Families -> Seq(Content)] /\ spoiled \subseteq Families
  BY DEF ConfigTypeOK, ScriptForm
<1>1. CASE \E f \in Families : StartScript(f)
  BY <1>1, <1>p, <1>o, StartStep DEF StartScript, CopiedBefore, NoFileNoCopy, Ended, Advanced
<1>2. CASE SaveCopy
  <2> DEFINE f == script.family
             s == backups["netplan"]
  <2>1. Busy /\ Busy' /\ Advanced(TRUE) /\ f \in Families \ {"sudoers"} /\ script.at = 1
    BY <1>2, SaveStep DEF Advanced
  <2>2. f \in {"sshd", "netplan"} => conf[f] = script.before
    BY <2>1, <1>p DEF CopiedBefore
  <2>3. f = "sshd" => backups'["sshd"] = <<script.before>>
    BY <1>2, <2>1, <2>2, <1>o DEF SaveCopy, BackedUp
  <2>4. CASE f = "netplan" /\ conf[f].edit = 0
    <3>1. script.before = Original /\ backups'["netplan"] = <<>>
      BY <1>2, <2>2, <2>4, <1>p DEF SaveCopy, NoFileNoCopy
    <3> QED
      BY <2>1, <2>4, <3>1 DEF Advanced, CopiedBefore
  <2>5. CASE f = "netplan" /\ conf[f].edit # 0
    <3>1. backups'["netplan"] = Append(s, script.before)
      BY <1>2, <2>1, <2>2, <2>5, <1>o DEF SaveCopy, BackedUp
    <3>2. s \in Seq(Content) /\ script.before \in Content
      BY <2>1, <2>2, <2>5, <1>o
    <3>3. /\ Append(s, script.before) # <<>>
          /\ Append(s, script.before)[Len(Append(s, script.before))] = script.before
      BY <3>2
    <3> QED
      BY <2>1, <2>5, <3>1, <3>3 DEF Advanced, CopiedBefore
  <2>6. CASE f # "netplan"
    BY <2>1, <2>3, <2>6 DEF Advanced, CopiedBefore
  <2> QED
    BY <2>4, <2>5, <2>6
<1>3. CASE Strip
  BY <1>3, <1>p, <1>o, StripStep DEF Strip, CopiedBefore, NoFileNoCopy, Ended, Advanced
<1>4. CASE WriteFile
  BY <1>4, <1>p, <1>o, WriteStep DEF WriteFile, Written, CopiedBefore, NoFileNoCopy, Ended, Advanced
<1>5. CASE StageCopy
  BY <1>5, <1>p, <1>o, StageStep DEF StageCopy, CopiedBefore, NoFileNoCopy, Ended, Advanced
<1>6. CASE Install
  BY <1>6, <1>p, <1>o, InstallStep DEF Install, CopiedBefore, NoFileNoCopy, Ended, Advanced
<1>7. CASE CheckPasses
  BY <1>7, <1>p, <1>o, PassStep DEF CheckPasses, Accepts, AskedFor, CopiedBefore, NoFileNoCopy, Ended, Advanced
<1>8. CASE CheckFails
  BY <1>8, <1>p, <1>o, RefuseStep DEF CheckFails, Accepts, AskedFor, Restored, Unspent, CopiedBefore, NoFileNoCopy, Ended, Advanced
<1>9. CASE LoadFile
  BY <1>9, <1>p, <1>o, LoadStep DEF LoadFile, CopiedBefore, NoFileNoCopy, Ended, Advanced
<1>10. CASE ReloadSshd
  BY <1>10, <1>p, <1>o DEF ReloadSshd, Busy, CopiedBefore, NoFileNoCopy, Ended, Advanced
<1>11. CASE LineFails
  BY <1>11, <1>p, <1>o, FailStep DEF LineFails, CopiedBefore, NoFileNoCopy, Ended, Advanced
<1>12. CASE CutShort
  BY <1>12, <1>p, <1>o, CutStep DEF CutShort, CopiedBefore, NoFileNoCopy, Ended, Advanced
<1>u. CASE UNCHANGED hcVars
  BY <1>u, <1>p DEF hcVars, Busy, CopiedBefore, NoFileNoCopy
<1> QED
  BY <1>u, <1>1, <1>2, <1>3, <1>4, <1>5, <1>6, <1>7, <1>8, <1>9, <1>10, <1>11, <1>12 DEF ConfigNext

LEMMA GoodKept ==
    ASSUME ConfigTypeOK, ScriptForm, ConfigTypeOK', ScriptForm', ConfigRest, [ConfigNext]_hcVars
    PROVE  GoodCopies'
<1>p. GoodCopies
  BY DEF ConfigRest
<1>o. /\ conf \in [Families -> Content] /\ inForce \in [Families -> Content]
      /\ backups \in [Families -> Seq(Content)] /\ spoiled \subseteq Families
  BY DEF ConfigTypeOK, ScriptForm
<1>1. CASE \E f \in Families : StartScript(f)
  BY <1>1, <1>p, <1>o, StartStep DEF StartScript, GoodCopies, Asking, Ended, Advanced
<1>2. CASE SaveCopy
  <2>0. /\ Busy /\ Busy' /\ script.at = 1 /\ script'.at = 2 /\ script'.family = script.family
        /\ UNCHANGED <<conf, inForce, spoiled>> /\ script.family \in Families \ {"sudoers"}
    BY <1>2, SaveStep DEF SaveCopy, Advanced
  <2> SUFFICES ASSUME NEW f \in Asking \ spoiled'
               PROVE  /\ inForce'[f].good /\ conf'[f].good
                      /\ \A i \in 1..Len(backups'[f]) : backups'[f][i].good
    BY <2>0 DEF GoodCopies, Asking
  <2>1. /\ inForce[f].good /\ conf[f].good /\ \A i \in 1..Len(backups[f]) : backups[f][i].good
        /\ f \in Families
    BY <2>0, <1>p DEF GoodCopies, Asking, Families
  <2>2. conf[f] \in Content /\ backups[f] \in Seq(Content)
    BY <2>1, <1>o
  <2>3. \/ backups'[f] = backups[f]
        \/ backups'[f] = Append(backups[f], conf[f])
        \/ backups'[f] = <<conf[f]>>
    BY <1>2, <2>1, <1>o DEF SaveCopy, BackedUp
  <2>4. /\ \A i \in 1..Len(<<conf[f]>>) : <<conf[f]>>[i] = conf[f]
        /\ \A i \in 1..Len(Append(backups[f], conf[f])) :
              \/ Append(backups[f], conf[f])[i] = conf[f]
              \/ i \in 1..Len(backups[f]) /\ Append(backups[f], conf[f])[i] = backups[f][i]
    BY <2>2
  <2> QED
    BY <2>0, <2>1, <2>3, <2>4
<1>3. CASE Strip
  BY <1>3, <1>p, <1>o, StripStep DEF Strip, GoodCopies, Asking, Ended, Advanced
<1>4. CASE WriteFile
  BY <1>4, <1>p, <1>o, WriteStep DEF WriteFile, Written, GoodCopies, Asking, Ended, Advanced
<1>5. CASE StageCopy
  BY <1>5, <1>p, <1>o, StageStep DEF StageCopy, GoodCopies, Asking, Ended, Advanced
<1>6. CASE Install
  BY <1>6, <1>p, <1>o, InstallStep DEF Install, GoodCopies, Asking, Ended, Advanced
<1>7. CASE CheckPasses
  <2>0. /\ UNCHANGED <<conf, backups, spoiled>>
        /\ \A f \in Families : f # "sshd" => inForce'[f] = inForce[f]
        /\ inForce'["sshd"] \in {inForce["sshd"], conf["sshd"]}
        /\ script.family = "sudoers" => script.new.good
        /\ script.family # "sudoers" => conf[script.family].good
    BY <1>7, <1>o DEF CheckPasses, Accepts, AskedFor, Families
  <2>1. \A f \in Asking \ spoiled' : inForce'[f].good /\ (f # script.family => conf'[f].good)
    BY <1>p, <2>0 DEF GoodCopies, Asking, Families
  <2>2. CASE script.at = 4 /\ script.family = "sshd" /\ Ended("ok")
    BY <2>0, <2>1, <2>2, <1>p DEF GoodCopies, Ended
  <2>3. CASE script.at = 3 /\ script.family = "netplan" /\ Advanced(script.saved)
    BY <2>0, <2>1, <2>3, <1>p DEF GoodCopies, Advanced
  <2>4. CASE script.at = 2 /\ script.family = "sudoers" /\ Advanced(script.saved)
    BY <2>0, <2>1, <2>4, <1>p DEF GoodCopies, Advanced
  <2> QED
    BY <1>7, <2>2, <2>3, <2>4, PassStep
<1>8. CASE CheckFails
  <2> SUFFICES ASSUME NEW f \in Asking \ spoiled'
               PROVE  /\ inForce'[f].good /\ conf'[f].good /\ ~Busy'
                      /\ \A i \in 1..Len(backups'[f]) : backups'[f][i].good
    BY <1>8, RefuseStep DEF GoodCopies, Ended
  <2>0. /\ ~Busy' /\ Busy /\ inForce' = inForce /\ f \notin spoiled /\ f \in Families
        /\ backups[f] \in Seq(Content)
    BY <1>8, <1>o, RefuseStep, RefuseEffects DEF Ended, Asking, Families
  <2>1. /\ inForce[f].good /\ \A i \in 1..Len(backups[f]) : backups[f][i].good
        /\ f # script.family \/ f = "sudoers" => conf[f].good
    BY <2>0, <1>p DEF GoodCopies
  <2> DEFINE s == backups[f]
  <2>2. CASE f # script.family
    <3>1. conf'[f] = conf[f] /\ backups'[f] = backups[f]
      BY <1>8, <2>0, <2>2, <1>o, RefuseEffects
    <3> QED
      BY <2>0, <2>1, <2>2, <3>1
  <2>3. CASE f = script.family
    <3>1. /\ script.family = "sudoers" => UNCHANGED conf
          /\ script.family # "sudoers" =>
                conf' = [conf EXCEPT ![script.family] = Restored(script.family)]
          /\ backups' = [backups EXCEPT ![script.family] = Unspent(script.family)]
          /\ script.family = "sshd" => backups["sshd"] # <<>>
      BY <1>8, <2>3, RefuseEffects
    <3>2. /\ f = "sudoers" => conf'[f].good
          /\ f # "sudoers" => conf'[f] = Restored(f)
          /\ backups'[f] = Unspent(f)
      BY <2>0, <2>1, <2>3, <3>1, <1>o
    <3>3. CASE s = <<>>
      BY <2>0, <2>1, <3>2, <3>3 DEF Restored, Unspent, Original
    <3>4. CASE s # <<>>
      <4>1. Len(s) \in 1..Len(s)
        BY <2>0, <3>4
      <4>2. /\ Len(SubSeq(s, 1, Len(s) - 1)) = Len(s) - 1
            /\ \A i \in 1..(Len(s) - 1) : i \in 1..Len(s) /\ SubSeq(s, 1, Len(s) - 1)[i] = s[i]
        BY <2>0, <4>1
      <4>3. Restored(f).good
        BY <2>1, <3>4, <4>1 DEF Restored
      <4>4. Unspent(f) = s \/ Unspent(f) = SubSeq(s, 1, Len(s) - 1)
        BY DEF Unspent
      <4>5. \A i \in 1..Len(Unspent(f)) : Unspent(f)[i].good
        BY <2>1, <4>2, <4>4
      <4> QED
        BY <2>0, <2>1, <3>2, <4>3, <4>5
    <3> QED
      BY <3>3, <3>4
  <2> QED
    BY <2>2, <2>3
<1>9. CASE LoadFile
  BY <1>9, <1>p, <1>o, LoadStep DEF LoadFile, GoodCopies, Asking, Ended, Advanced
<1>10. CASE ReloadSshd
  BY <1>10, <1>p, <1>o DEF ReloadSshd, Busy, GoodCopies, Asking, Ended, Advanced
<1>11. CASE LineFails
  BY <1>11, <1>p, <1>o, FailStep DEF LineFails, GoodCopies, Asking, Ended, Advanced
<1>12. CASE CutShort
  BY <1>12, <1>p, <1>o, CutStep DEF CutShort, GoodCopies, Asking, Ended, Advanced
<1>u. CASE UNCHANGED hcVars
  BY <1>u, <1>p DEF hcVars, Busy, GoodCopies, Asking
<1> QED
  BY <1>u, <1>1, <1>2, <1>3, <1>4, <1>5, <1>6, <1>7, <1>8, <1>9, <1>10, <1>11, <1>12 DEF ConfigNext

LEMMA ConfigKept == ConfigSpec => []ConfigInv
<1>1. ConfigInit => ConfigInv
  <2> SUFFICES ASSUME ConfigInit PROVE ConfigInv
    OBVIOUS
  <2>1. ConfigTypeOK /\ ScriptForm
    <3>1. Original \in Content /\ script \notin RunningScripts
      BY ContentSet DEF ConfigInit, NothingRuns, RunningScripts, Families
    <3> QED
      BY <3>1, ConfigBounds DEF ConfigInit, ConfigTypeOK, ScriptForm, Busy, NothingRuns
  <2>2. ConfigRest
    BY DEF ConfigInit, ConfigRest, RefusedIsRestored, AcceptableAtRest, DoneIsDone, CopiedBefore,
           NoFileNoCopy, GoodCopies, ChainDone, Busy, Original, Asking, Families
  <2> QED
    BY <2>1, <2>2 DEF ConfigInv, ConfigIsSound, ConfigRest
<1>2. ConfigInv /\ [ConfigNext]_hcVars => ConfigInv'
  <2> SUFFICES ASSUME ConfigTypeOK, ScriptForm, ConfigRest, [ConfigNext]_hcVars PROVE ConfigInv'
    BY DEF ConfigInv, ConfigIsSound, ConfigRest
  <2>1. ConfigTypeOK' /\ ScriptForm'
    BY FormKept
  <2>2. /\ RefusedIsRestored' /\ ChainDone' /\ DoneIsDone' /\ NoFileNoCopy' /\ CopiedBefore'
        /\ GoodCopies'
    BY <2>1, RefusedKept, ChainKept, NoFileNoCopyKept, CopiedBeforeKept, GoodKept
  <2>3. AcceptableAtRest'
    BY <2>2 DEF GoodCopies, AcceptableAtRest, Asking
  <2> QED
    BY <2>1, <2>2, <2>3 DEF ConfigInv, ConfigIsSound
<1> QED
  BY <1>1, <1>2, PTL DEF ConfigSpec

-----------------------------------------------------------------------------
(* The privilege of a command.                                              *)

Words == {"own", "denied", "sudo"}
Runs  == [code : {0, 1, 255}, said : SUBSET Words, root : BOOLEAN]

(* A command's first run is as root if it is nobody's, or promised root.    *)
RootFirst == ~command.attributed \/ command.wantRoot

CommandForm ==
    /\ \E n \in 1..MaxSteps : command.script \in [1..n -> {"any", "rooted"}]
    /\ command.prints \in Words
    /\ command.attributed \in BOOLEAN /\ command.wantRoot \in BOOLEAN
    /\ command.wantRoot => command.via = "agent"
    /\ ended \in Seq(Runs)
    /\ attempt \in [going : BOOLEAN, root : BOOLEAN, step : 1..MaxSteps, said : SUBSET Words]
    /\ verdictSent.given \in BOOLEAN /\ verdictSent.code \in {0, 1, 126, 255, 504}
    /\ ownFailures \in 0..MaxOwnFailures

(* The run with a privilege may be under way, or be next: the first run has *)
(* its own privilege, and a second one, with the other, is due only after a *)
(* refusal, as a user or by sudo.                                           *)
Turn(who) ==
    /\ Len(ended) <= 1
    /\ Len(ended) = 0 => (who = "root" <=> RootFirst)
    /\ Len(ended) = 1 => /\ who = "root" <=> ~RootFirst
                         /\ ended[1].said \cap {"denied", "sudo"} # {}

(* The privilege of a run.                                                  *)
As(run) == IF run.root THEN "root" ELSE "user"

RunsInTurn ==
    /\ Len(ended) <= 2
    /\ attempt.going => attempt.step \in DOMAIN command.script /\ Turn(As(attempt))
    /\ ~attempt.going => attempt = NotRunning
    /\ Len(ended) >= 1 => (ended[1].root <=> RootFirst)
    /\ Len(ended) = 2 => /\ ended[2].root <=> ~RootFirst
                         /\ ended[1].said \cap {"denied", "sudo"} # {}

(* A step takes effect in its turn, once for each privilege.                *)
HasRun(who) == \E i \in 1..Len(ended) : As(ended[i]) = who

InTurn(s, who) ==
    HasRun(who) \/ (attempt.going /\ As(attempt) = who /\ s < attempt.step)

EffectsInTurn ==
    /\ effects \in [DOMAIN command.script -> [user : 0..1, root : 0..1]]
    /\ \A s \in DOMAIN command.script :
          /\ effects[s].user = 1 => InTurn(s, "user")
          /\ effects[s].root = 1 => InTurn(s, "root")

(* Root is not denied anything.                                             *)
NotDenied(who, said) ==
    command.via = "agent" /\ command.prints # "denied" /\ who = "root" => "denied" \notin said

RootIsNotDenied ==
    /\ NotDenied(As(attempt), attempt.said)
    /\ \A i \in 1..Len(ended) : NotDenied(As(ended[i]), ended[i].said)

ElevationInv ==
    CommandForm /\ RunsInTurn /\ EffectsInTurn /\ RootIsNotDenied /\ UnprivilegedIsSaid

LEMMA FewRuns ==
    ASSUME NEW n \in Nat
    PROVE  /\ n <= 1 /\ n # 0 => n = 1
           /\ n <= 2 /\ n # 0 /\ n # 1 => n = 2
           /\ \A i, j \in 1..n : n <= 2 /\ i # j => n = 2
  OBVIOUS

LEMMA ElevationSound == ElevationInv => ElevationIsSound
<1> SUFFICES ASSUME ElevationInv
             PROVE  ElevationIsSound
  OBVIOUS
<1>1. ended \in Seq(Runs) /\ Len(ended) \in Nat
  BY DEF ElevationInv, CommandForm
<1>2. \A i \in 1..Len(ended) : ended[i].root \in BOOLEAN
  <2>1. \A i \in 1..Len(ended) : ended[i] \in Runs
    BY <1>1
  <2> QED
    BY <2>1 DEF Runs
<1>n. Len(ended) \in Nat
  BY <1>1
<1>3. Len(ended) = 2 => ended[1].root # ended[2].root
  BY <1>1, <1>2 DEF ElevationInv, RunsInTurn
<1>4. effects \in [DOMAIN command.script -> [user : Nat, root : Nat]]
  <2>1. [user : 0..1, root : 0..1] \subseteq [user : Nat, root : Nat]
    OBVIOUS
  <2> QED
    BY <2>1 DEF ElevationInv, EffectsInTurn
<1>5. ElevationTypeOK
  BY <1>3, <1>4 DEF ElevationTypeOK, ElevationInv, CommandForm, RunsInTurn, Words
<1>6. TwiceOnlyForPrivilege
  <2> SUFFICES ASSUME NEW s \in DOMAIN effects
               PROVE  /\ effects[s].user <= 1 /\ effects[s].root <= 1
                      /\ effects[s].user + effects[s].root = 2
                           => ended[1].said \cap {"denied", "sudo"} # {}
    BY DEF TwiceOnlyForPrivilege
  <2>1. s \in DOMAIN command.script /\ effects[s] \in [user : 0..1, root : 0..1]
    BY DEF ElevationInv, EffectsInTurn
  <2>2. effects[s].user \in 0..1 /\ effects[s].root \in 0..1
    BY <2>1
  <2>3. ASSUME effects[s].user = 1, effects[s].root = 1
        PROVE  ended[1].said \cap {"denied", "sudo"} # {}
    <3>1. InTurn(s, "user") /\ InTurn(s, "root")
      BY <2>1, <2>3 DEF ElevationInv, EffectsInTurn
    <3>2. CASE HasRun("user") /\ HasRun("root")
      <4>1. PICK i \in 1..Len(ended) : As(ended[i]) = "user"
        BY <3>2 DEF HasRun
      <4>2. PICK j \in 1..Len(ended) : As(ended[j]) = "root"
        BY <3>2 DEF HasRun
      <4>3. i # j
        BY <4>1, <4>2
      <4>4. Len(ended) <= 2
        BY DEF ElevationInv, RunsInTurn
      <4>5. Len(ended) = 2
        BY <1>n, <4>3, <4>4, FewRuns
      <4> QED
        BY <4>5 DEF ElevationInv, RunsInTurn
    <3>3. CASE ~(HasRun("user") /\ HasRun("root"))
      <4>1. attempt.going /\ (HasRun("user") \/ HasRun("root"))
        BY <3>1, <3>3 DEF InTurn
      <4>2. Len(ended) # 0
        BY <1>1, <4>1 DEF HasRun
      <4>3. Turn(As(attempt))
        BY <4>1 DEF ElevationInv, RunsInTurn
      <4>4. Len(ended) <= 1
        BY <4>3 DEF Turn
      <4>5. Len(ended) = 1
        BY <1>n, <4>2, <4>4, FewRuns
      <4> QED
        BY <4>3, <4>5 DEF Turn
    <3> QED
      BY <3>2, <3>3
  <2> QED
    BY <2>2, <2>3
<1> QED
  BY <1>5, <1>6 DEF ElevationIsSound, ElevationInv

(* What a step does to the runs: one starts, one ends, one goes on to its   *)
(* next step, or the controller is told.                                    *)
Starts(who) ==
    /\ ~attempt.going /\ who \in {"user", "root"} /\ Turn(who)
    /\ attempt' = [going |-> TRUE, root |-> who = "root", step |-> 1, said |-> {}]
    /\ UNCHANGED <<ended, effects, verdictSent>>

EndsWith(run) ==
    /\ run \in Runs /\ Turn(As(run)) /\ NotDenied(As(run), run.said)
    /\ attempt.going => As(run) = As(attempt)
    /\ ended' = Append(ended, run) /\ attempt' = NotRunning
    /\ UNCHANGED verdictSent

GoesOn(words) ==
    /\ attempt.going /\ attempt.step # Len(command.script)
    /\ words \in SUBSET Words /\ NotDenied(As(attempt), words)
    /\ attempt' = [attempt EXCEPT !.step = @ + 1, !.said = @ \cup words]
    /\ UNCHANGED <<ended, verdictSent>>

TakesEffect ==
    /\ attempt.going
    /\ effects' = [effects EXCEPT ![attempt.step][As(attempt)] = @ + 1]

Tells ==
    /\ UNCHANGED <<attempt, ended, effects>>
    /\ verdictSent'.given = TRUE /\ verdictSent'.code \in {0, 1, 126, 255, 504}
    /\ UnprivilegedIsSaid'

ElevationRest == command' = command /\ ownFailures' \in 0..MaxOwnFailures

LEMMA ScriptIs ==
    ASSUME CommandForm
    PROVE  /\ Len(command.script) \in 1..MaxSteps
           /\ DOMAIN command.script = 1..Len(command.script)
<1>1. PICK n \in 1..MaxSteps : command.script \in [1..n -> {"any", "rooted"}]
  BY DEF CommandForm
<1>2. Len(command.script) = n
  BY <1>1
<1> QED
  BY <1>1, <1>2

LEMMA AfterRun ==
    ASSUME ElevationInv, attempt.going, NEW code \in {0, 1, 255}, NEW words \in SUBSET Words,
           RunOver(code, words), NotDenied(As(attempt), words), UNCHANGED verdictSent
    PROVE  \E run \in Runs : EndsWith(run)
<1> DEFINE run == [code |-> code, said |-> words, root |-> attempt.root]
<1>1. attempt.root \in BOOLEAN
  BY DEF ElevationInv, CommandForm
<1>2. run \in Runs /\ As(run) = As(attempt)
  BY <1>1 DEF Runs, As
<1>3. Turn(As(run))
  BY <1>2 DEF ElevationInv, RunsInTurn
<1>4. EndsWith(run)
  BY <1>2, <1>3 DEF EndsWith, RunOver
<1> QED
  BY <1>2, <1>4

(* A move of a script ends the run or goes on.                              *)
LEMMA AfterMove ==
    ASSUME ElevationInv, attempt.going, NEW words \in SUBSET Words, Moves(words),
           NotDenied(As(attempt), words), UNCHANGED verdictSent
    PROVE  (\E run \in Runs : EndsWith(run)) \/ GoesOn(words)
<1>1. attempt.said \cup words \in SUBSET Words /\ NotDenied(As(attempt), attempt.said \cup words)
  BY DEF ElevationInv, CommandForm, RootIsNotDenied, NotDenied
<1>2. CASE attempt.step = Len(command.script)
  <2>1. RunOver(0, attempt.said \cup words)
    BY <1>2 DEF Moves
  <2> QED
    BY <1>1, <2>1, AfterRun
<1>3. CASE attempt.step # Len(command.script)
  BY <1>3 DEF Moves, GoesOn
<1> QED
  BY <1>2, <1>3

LEMMA AfterStumble ==
    ASSUME ElevationInv, attempt.going, NEW words \in SUBSET Words, Stumbles(words),
           NotDenied(As(attempt), words), UNCHANGED verdictSent
    PROVE  (\E run \in Runs : EndsWith(run)) \/ GoesOn(words)
<1>1. CASE command.soft
  <2>1. Moves(words)
    BY <1>1 DEF Stumbles
  <2> QED
    BY <2>1, AfterMove
<1>2. CASE ~command.soft
  <2>1. attempt.said \cup words \in SUBSET Words
        /\ NotDenied(As(attempt), attempt.said \cup words)
    BY DEF ElevationInv, CommandForm, RootIsNotDenied, NotDenied
  <2>2. RunOver(1, attempt.said \cup words)
    BY <1>2 DEF Stumbles
  <2> QED
    BY <2>1, <2>2, AfterRun
<1> QED
  BY <1>1, <1>2

LEMMA AfterLaunch ==
    ASSUME ElevationInv, ~attempt.going, NEW who \in {"user", "root"}, Turn(who),
           Launch(who = "root")
    PROVE  Starts(who) /\ ElevationRest
<1>1. attempt' = [going |-> TRUE, root |-> who = "root", step |-> 1, said |-> {}]
  BY DEF Launch, NotRunning
<1> QED
  BY <1>1 DEF Launch, Starts, ElevationRest, ElevationInv, CommandForm

LEMMA AfterElevated ==
    ASSUME ElevationInv, ~attempt.going, Turn("root"), Elevated
    PROVE  ElevationRest /\ (Starts("root") \/ (UNCHANGED effects /\ \E run \in Runs : EndsWith(run)))
<1>1. CASE SudoAllows
  <2>1. Launch("root" = "root")
    BY <1>1 DEF Elevated, Launch
  <2> QED
    BY <2>1, AfterLaunch
<1>2. CASE ~SudoAllows
  <2> DEFINE run == [code |-> 1, said |-> {"sudo"}, root |-> TRUE]
  <2>1. TurnedAway
    BY <1>2 DEF Elevated
  <2>2. run \in Runs /\ As(run) = "root"
    BY DEF Runs, Words, As
  <2>3. attempt' = NotRunning
    BY <2>1 DEF TurnedAway, ElevationInv, RunsInTurn
  <2>4. NotDenied("root", run.said)
    BY DEF NotDenied
  <2>5. EndsWith(run)
    BY <2>1, <2>2, <2>3, <2>4 DEF EndsWith, TurnedAway
  <2>6. ElevationRest /\ UNCHANGED effects
    BY <2>1 DEF TurnedAway, ElevationRest, ElevationInv, CommandForm
  <2> QED
    BY <2>2, <2>5, <2>6
<1> QED
  BY <1>1, <1>2

(* Every step is one of the four.                                           *)
ElevationStep ==
    \/ \E who \in {"user", "root"} : Starts(who)
    \/ (UNCHANGED effects \/ TakesEffect) /\ \E run \in Runs : EndsWith(run)
    \/ (UNCHANGED effects \/ TakesEffect) /\ \E words \in SUBSET Words : GoesOn(words)
    \/ Tells

LEMMA FirstRunForm ==
    ASSUME ElevationInv, FirstRun
    PROVE  ElevationRest /\ ElevationStep
<1>1. ~attempt.going /\ Len(ended) = 0
  BY DEF FirstRun, BetweenRuns
<1>2. Turn(IF RootFirst THEN "root" ELSE "user")
  BY <1>1 DEF Turn
<1>3. CASE ~command.attributed
  <2>1. Launch("root" = "root") /\ Turn("root")
    BY <1>2, <1>3 DEF FirstRun, Launch, RootFirst
  <2> QED
    BY <1>1, <2>1, AfterLaunch DEF ElevationStep
<1>4. CASE command.attributed /\ command.wantRoot
  <2>1. Elevated /\ Turn("root")
    BY <1>2, <1>4 DEF FirstRun, RootFirst
  <2> QED
    BY <1>1, <2>1, AfterElevated DEF ElevationStep
<1>5. CASE command.attributed /\ ~command.wantRoot
  <2>1. Launch("user" = "root") /\ Turn("user")
    BY <1>2, <1>5 DEF FirstRun, Launch, RootFirst
  <2> QED
    BY <1>1, <2>1, AfterLaunch DEF ElevationStep
<1> QED
  BY <1>3, <1>4, <1>5

LEMMA SecondRunForm ==
    ASSUME ElevationInv, SecondRun
    PROVE  ElevationRest /\ ElevationStep
<1>1. ~attempt.going /\ Len(ended) = 1 /\ command.attributed
  BY DEF SecondRun, BetweenRuns, RunAgain
<1>2. ended[1].said \cap {"denied", "sudo"} # {}
  <2>1. "sudo" \in ended[1].said => ended[1].said \cap {"denied", "sudo"} # {}
    OBVIOUS
  <2> QED
    BY <2>1 DEF SecondRun, RunAgain, SudoRefused, LooksPrivileged
<1>3. CASE command.wantRoot
  <2>1. Launch("user" = "root")
    BY <1>3 DEF SecondRun, Launch
  <2>2. Turn("user")
    BY <1>1, <1>2, <1>3 DEF RootFirst, Turn
  <2> QED
    BY <1>1, <2>1, <2>2, AfterLaunch DEF ElevationStep
<1>4. CASE ~command.wantRoot
  <2>1. Elevated /\ Turn("root")
    BY <1>1, <1>2, <1>4 DEF SecondRun, RootFirst, Turn
  <2> QED
    BY <1>1, <2>1, AfterElevated DEF ElevationStep
<1> QED
  BY <1>3, <1>4

LEMMA StepWorksForm ==
    ASSUME ElevationInv, StepWorks
    PROVE  ElevationRest /\ ElevationStep
<1>1. attempt.going /\ Moves({}) /\ UNCHANGED verdictSent /\ ElevationRest
  BY DEF StepWorks, ElevationRest, ElevationInv, CommandForm
<1>2. {} \in SUBSET Words /\ NotDenied(As(attempt), {})
  BY DEF NotDenied
<1>3. TakesEffect
  BY DEF StepWorks, TakesEffect, As
<1> QED
  BY <1>1, <1>2, <1>3, AfterMove DEF ElevationStep

LEMMA StepDeniedForm ==
    ASSUME ElevationInv, StepDenied
    PROVE  ElevationRest /\ ElevationStep
<1>1. /\ attempt.going /\ Stumbles({"denied"}) /\ UNCHANGED <<verdictSent, effects>>
      /\ ElevationRest
  BY DEF StepDenied, ElevationRest, ElevationInv, CommandForm
<1>2. {"denied"} \in SUBSET Words /\ NotDenied(As(attempt), {"denied"})
  BY DEF NotDenied, StepDenied, Denied, As, Words
<1> QED
  BY <1>1, <1>2, AfterStumble DEF ElevationStep

LEMMA OwnFailureForm ==
    ASSUME ElevationInv, OwnFailure
    PROVE  ElevationRest /\ ElevationStep
<1>1. /\ attempt.going /\ Stumbles({command.prints}) /\ UNCHANGED <<verdictSent, effects>>
      /\ command' = command
  BY DEF OwnFailure
<1>2. {command.prints} \in SUBSET Words /\ NotDenied(As(attempt), {command.prints})
  BY DEF NotDenied, ElevationInv, CommandForm
<1>3. ownFailures' \in 0..MaxOwnFailures
  BY ElevationBounds DEF OwnFailure, ElevationInv, CommandForm
<1> QED
  BY <1>1, <1>2, <1>3, AfterStumble DEF ElevationStep, ElevationRest

LEMMA ConnectionRefusedForm ==
    ASSUME ElevationInv, ConnectionRefused
    PROVE  ElevationRest /\ ElevationStep
<1>1. /\ attempt.going /\ RunOver(255, {"denied"}) /\ UNCHANGED <<verdictSent, effects>>
      /\ command' = command
  BY DEF ConnectionRefused
<1>2. {"denied"} \in SUBSET Words /\ NotDenied(As(attempt), {"denied"})
  BY DEF NotDenied, ConnectionRefused, Words
<1>3. ownFailures' \in 0..MaxOwnFailures
  BY ElevationBounds DEF ConnectionRefused, ElevationInv, CommandForm
<1> QED
  BY <1>1, <1>2, <1>3, AfterRun DEF ElevationStep, ElevationRest

(* What is reported is the last run, which was denied something only if it  *)
(* was the fallback of a command that was promised root.                    *)
LEMMA ReportRunForm ==
    ASSUME ElevationInv, ReportRun
    PROVE  ElevationRest /\ ElevationStep
<1> DEFINE run == ended[Len(ended)]
<1>1. ended \in Seq(Runs) /\ ended # <<>>
  BY DEF ElevationInv, CommandForm, ReportRun
<1>2. Len(ended) \in Nat /\ Len(ended) # 0 /\ Len(ended) \in 1..Len(ended)
  BY <1>1
<1>3. run \in Runs
  BY <1>1, <1>2
<1>4. /\ verdictSent'.given = TRUE /\ verdictSent'.code = run.code
      /\ verdictSent'.said = run.said /\ verdictSent'.note = Note(run)
  BY DEF ReportRun, Tell
<1>5. run.code \in {0, 1, 126, 255, 504}
  BY <1>3 DEF Runs
<1>6. command' = command /\ ElevationRest /\ UNCHANGED <<attempt, ended, effects>>
  BY DEF ReportRun, ElevationRest, ElevationInv, CommandForm
<1>7. ASSUME command.wantRoot, "denied" \in run.said, command.prints # "denied"
      PROVE  Len(ended) = 2
  <2>1. NotDenied(As(run), run.said) /\ command.via = "agent"
    BY <1>2, <1>7 DEF ElevationInv, RootIsNotDenied, CommandForm
  <2>2. ~run.root
    BY <1>7, <2>1 DEF NotDenied, As
  <2>3. Len(ended) # 1
    BY <1>2, <1>7, <2>2 DEF ElevationInv, RunsInTurn, RootFirst
  <2>4. Len(ended) <= 2
    BY DEF ElevationInv, RunsInTurn
  <2> QED
    BY <1>2, <2>3, <2>4, FewRuns
<1>8. UnprivilegedIsSaid'
  <2>1. SUFFICES ASSUME command.wantRoot, "denied" \in run.said, command.prints # "denied"
                 PROVE  verdictSent'.note
    BY <1>4, <1>6 DEF UnprivilegedIsSaid
  <2> QED
    BY <1>4, <1>7, <2>1 DEF Note
<1>9. Tells
  BY <1>4, <1>5, <1>6, <1>8 DEF Tells
<1> QED
  BY <1>6, <1>9 DEF ElevationStep

LEMMA NoAccountForm ==
    ASSUME ElevationInv, NoAccount
    PROVE  ElevationRest /\ ElevationStep
<1>1. /\ verdictSent'.given = TRUE /\ verdictSent'.code = 126 /\ verdictSent'.said = {"own"}
  BY DEF NoAccount, Untold
<1>2. command' = command /\ ElevationRest /\ UNCHANGED <<attempt, ended, effects>>
  BY DEF NoAccount, ElevationRest, ElevationInv, CommandForm
<1>3. UnprivilegedIsSaid'
  BY <1>1, <1>2 DEF UnprivilegedIsSaid
<1> QED
  BY <1>1, <1>2, <1>3 DEF ElevationStep, Tells

LEMMA TimeOutForm ==
    ASSUME ElevationInv, TimeOut
    PROVE  ElevationRest /\ ElevationStep
<1>1. attempt.going /\ command' = command /\ ElevationRest /\ UNCHANGED effects
  BY DEF TimeOut, ElevationRest, ElevationInv, CommandForm
<1>2. CASE RunOver(1, {"own"}) /\ UNCHANGED verdictSent
  <2>1. {"own"} \in SUBSET Words /\ NotDenied(As(attempt), {"own"})
    BY DEF NotDenied, Words
  <2> QED
    BY <1>1, <1>2, <2>1, AfterRun DEF ElevationStep
<1>3. CASE /\ command.via = "ssh" /\ UNCHANGED <<attempt, ended>>
           /\ verdictSent' = [Untold EXCEPT !.given = TRUE, !.code = 504]
  <2>1. verdictSent'.given = TRUE /\ verdictSent'.code = 504 /\ verdictSent'.said = {}
    BY <1>3 DEF Untold
  <2>2. UnprivilegedIsSaid'
    BY <2>1 DEF UnprivilegedIsSaid
  <2> QED
    BY <1>1, <1>3, <2>1, <2>2 DEF ElevationStep, Tells
<1> QED
  BY <1>2, <1>3 DEF TimeOut

LEMMA EveryElevationStep ==
    ASSUME ElevationInv, ElevationNext
    PROVE  ElevationRest /\ ElevationStep
  BY FirstRunForm, SecondRunForm, StepWorksForm, StepDeniedForm, OwnFailureForm,
     ConnectionRefusedForm, ReportRunForm, NoAccountForm, TimeOutForm DEF ElevationNext

(* The conjuncts of the invariant, one by one.                              *)
LEMMA CommandFormKept ==
    ASSUME ElevationInv, ElevationRest, ElevationStep
    PROVE  CommandForm'
<1>1. /\ (\E n \in 1..MaxSteps : command'.script \in [1..n -> {"any", "rooted"}])
      /\ command'.prints \in Words
      /\ command'.attributed \in BOOLEAN /\ command'.wantRoot \in BOOLEAN
      /\ command'.wantRoot => command'.via = "agent"
      /\ ownFailures' \in 0..MaxOwnFailures
  BY DEF ElevationInv, CommandForm, ElevationRest
<1>2. CommandForm
  BY DEF ElevationInv
<1>3. CASE \E who \in {"user", "root"} : Starts(who)
  <2>1. attempt' \in [going : BOOLEAN, root : BOOLEAN, step : 1..MaxSteps, said : SUBSET Words]
    <3>1. PICK who \in {"user", "root"} : Starts(who)
      BY <1>3
    <3>2. 1 \in 1..MaxSteps
      BY ElevationBounds
    <3>3. \A r \in BOOLEAN : [going |-> TRUE, root |-> r, step |-> 1, said |-> {}]
             \in [going : BOOLEAN, root : BOOLEAN, step : 1..MaxSteps, said : SUBSET Words]
      BY <3>2
    <3>4. CASE who = "root"
      <4>1. attempt' = [going |-> TRUE, root |-> TRUE, step |-> 1, said |-> {}]
        BY <3>1, <3>4 DEF Starts
      <4> QED
        BY <3>3, <4>1
    <3>5. CASE who # "root"
      <4>1. attempt' = [going |-> TRUE, root |-> FALSE, step |-> 1, said |-> {}]
        BY <3>1, <3>5 DEF Starts
      <4> QED
        BY <3>3, <4>1
    <3> QED
      BY <3>4, <3>5
  <2>2. UNCHANGED <<ended, verdictSent>>
    BY <1>3 DEF Starts
  <2> QED
    BY <1>1, <1>2, <2>1, <2>2 DEF CommandForm
<1>4. CASE \E run \in Runs : EndsWith(run)
  <2>1. attempt' \in [going : BOOLEAN, root : BOOLEAN, step : 1..MaxSteps, said : SUBSET Words]
    BY <1>4, ElevationBounds DEF EndsWith, NotRunning
  <2>2. ended' \in Seq(Runs)
    BY <1>2, <1>4 DEF CommandForm, EndsWith
  <2> QED
    BY <1>1, <1>2, <1>4, <2>1, <2>2 DEF CommandForm, EndsWith
<1>5. CASE \E words \in SUBSET Words : GoesOn(words)
  <2>1. attempt.step + 1 \in 1..MaxSteps
    <3>1. attempt.step \in 1..Len(command.script) /\ attempt.step # Len(command.script)
      BY <1>5, <1>2, ScriptIs DEF GoesOn, ElevationInv, RunsInTurn
    <3> QED
      BY <3>1, <1>2, ScriptIs, ElevationBounds
  <2>2. attempt' \in [going : BOOLEAN, root : BOOLEAN, step : 1..MaxSteps, said : SUBSET Words]
    <3>1. PICK words \in SUBSET Words : GoesOn(words)
      BY <1>5
    <3>2. attempt.said \cup words \in SUBSET Words
      BY <1>2 DEF CommandForm
    <3> QED
      BY <1>2, <2>1, <3>1, <3>2 DEF GoesOn, CommandForm
  <2> QED
    BY <1>1, <1>2, <1>5, <2>2 DEF CommandForm, GoesOn
<1>6. CASE Tells
  BY <1>1, <1>2, <1>6 DEF CommandForm, Tells
<1> QED
  BY <1>3, <1>4, <1>5, <1>6 DEF ElevationStep

LEMMA RunsStayInTurn ==
    ASSUME ElevationInv, ElevationRest, ElevationStep
    PROVE  RunsInTurn'
<1>1. RunsInTurn /\ ended \in Seq(Runs) /\ Len(ended) \in Nat
  BY DEF ElevationInv, CommandForm
<1>2. command' = command /\ (RootFirst' <=> RootFirst)
  BY DEF ElevationRest, RootFirst
<1>3. CASE \E who \in {"user", "root"} : Starts(who)
  <2>1. PICK who \in {"user", "root"} : Starts(who)
    BY <1>3
  <2>2. ended' = ended /\ Turn(who) /\ (As(attempt))' = who /\ attempt'.step = 1
    BY <2>1 DEF Starts, As
  <2>3. attempt'.going
    BY <2>1 DEF Starts
  <2>4. Turn(As(attempt))'
    BY <1>2, <2>2 DEF Turn
  <2>5. 1 \in DOMAIN command.script
    BY ScriptIs DEF ElevationInv
  <2> QED
    BY <1>1, <1>2, <2>2, <2>3, <2>4, <2>5 DEF RunsInTurn
<1>4. CASE \E run \in Runs : EndsWith(run)
  <2>1. PICK run \in Runs : EndsWith(run)
    BY <1>4
  <2>2. ended' = Append(ended, run) /\ attempt' = NotRunning /\ ~attempt'.going /\ Turn(As(run))
    BY <2>1 DEF EndsWith, NotRunning
  <2>3. /\ Len(ended') = Len(ended) + 1 /\ ended'[Len(ended) + 1] = run
        /\ \A i \in 1..Len(ended) : ended'[i] = ended[i]
    BY <1>1, <2>2
  <2>4. run.root <=> As(run) = "root"
    BY DEF As, Runs
  <2>5. CASE Len(ended) = 0
    BY <1>1, <1>2, <2>2, <2>3, <2>4, <2>5 DEF RunsInTurn, Turn
  <2>6. CASE Len(ended) = 1
    BY <1>1, <1>2, <2>2, <2>3, <2>4, <2>6 DEF RunsInTurn, Turn
  <2>7. Len(ended) = 0 \/ Len(ended) = 1
    BY <1>1, <2>2, FewRuns DEF Turn
  <2> QED
    BY <2>5, <2>6, <2>7
<1>5. CASE \E words \in SUBSET Words : GoesOn(words)
  <2>1. /\ attempt.going /\ attempt'.going /\ ended' = ended /\ (As(attempt))' = As(attempt)
        /\ attempt'.step = attempt.step + 1 /\ attempt.step # Len(command.script)
    BY <1>5 DEF GoesOn, ElevationInv, CommandForm, As
  <2>2. attempt.step + 1 \in DOMAIN command.script
    <3>1. attempt.step \in 1..Len(command.script)
      BY <1>1, <2>1, ScriptIs DEF ElevationInv, RunsInTurn
    <3> QED
      BY <2>1, <3>1, ScriptIs DEF ElevationInv
  <2>3. Turn(As(attempt))'
    BY <1>1, <1>2, <2>1 DEF RunsInTurn, Turn
  <2> QED
    BY <1>1, <1>2, <2>1, <2>2, <2>3 DEF RunsInTurn
<1>6. CASE Tells
  <2>1. UNCHANGED <<attempt, ended>> /\ (As(attempt))' = As(attempt)
    BY <1>6 DEF Tells, As
  <2>2. attempt.going => Turn(As(attempt))'
    BY <1>1, <1>2, <2>1 DEF RunsInTurn, Turn
  <2> QED
    BY <1>1, <1>2, <2>1, <2>2 DEF RunsInTurn
<1> QED
  BY <1>3, <1>4, <1>5, <1>6 DEF ElevationStep

LEMMA RootStaysNotDenied ==
    ASSUME ElevationInv, ElevationRest, ElevationStep
    PROVE  RootIsNotDenied'
<1>1. RootIsNotDenied /\ ended \in Seq(Runs) /\ Len(ended) \in Nat
  BY DEF ElevationInv, CommandForm
<1>2. command' = command
  BY DEF ElevationRest
<1>3. CASE \E who \in {"user", "root"} : Starts(who)
  <2>1. ended' = ended /\ attempt'.said = {}
    BY <1>3 DEF Starts
  <2> QED
    BY <1>1, <1>2, <2>1 DEF RootIsNotDenied, NotDenied, As
<1>4. CASE \E run \in Runs : EndsWith(run)
  <2>1. PICK run \in Runs : EndsWith(run)
    BY <1>4
  <2>2. ended' = Append(ended, run) /\ attempt'.said = {} /\ NotDenied(As(run), run.said)
    BY <2>1 DEF EndsWith, NotRunning
  <2>3. \A i \in 1..Len(ended') :
           NotDenied(As(ended'[i]), ended'[i].said)
    <3>1. \A i \in 1..Len(ended') :
             (i \in 1..Len(ended) /\ ended'[i] = ended[i]) \/ ended'[i] = run
      BY <1>1, <2>2
    <3> QED
      BY <1>1, <2>2, <3>1 DEF RootIsNotDenied
  <2> QED
    BY <1>2, <2>2, <2>3 DEF RootIsNotDenied, NotDenied, As
<1>5. CASE \E words \in SUBSET Words : GoesOn(words)
  <2>1. PICK words \in SUBSET Words : GoesOn(words)
    BY <1>5
  <2>2. /\ ended' = ended /\ (As(attempt))' = As(attempt)
        /\ attempt'.said = attempt.said \cup words /\ NotDenied(As(attempt), words)
    BY <2>1 DEF GoesOn, ElevationInv, CommandForm, As
  <2> QED
    BY <1>1, <1>2, <2>2 DEF RootIsNotDenied, NotDenied, As
<1>6. CASE Tells
  BY <1>1, <1>2, <1>6 DEF Tells, RootIsNotDenied, NotDenied, As
<1> QED
  BY <1>3, <1>4, <1>5, <1>6 DEF ElevationStep

LEMMA UnprivilegedStaysSaid ==
    ASSUME ElevationInv, ElevationRest, ElevationStep
    PROVE  UnprivilegedIsSaid'
<1>1. verdictSent' = verdictSent \/ UnprivilegedIsSaid'
  BY DEF ElevationStep, Starts, EndsWith, GoesOn, Tells
<1> QED
  BY <1>1 DEF ElevationInv, UnprivilegedIsSaid, ElevationRest

(* The step that a run is at has not taken effect under its privilege.      *)
LEMMA NotYet ==
    ASSUME ElevationInv, attempt.going
    PROVE  ~InTurn(attempt.step, As(attempt))
<1>1. ended \in Seq(Runs) /\ RunsInTurn /\ Turn(As(attempt)) /\ attempt.step \in Nat
  BY ElevationBounds DEF ElevationInv, RunsInTurn, CommandForm
<1>2. Len(ended) \in Nat
  BY <1>1
<1>3. ASSUME NEW i \in 1..Len(ended), As(ended[i]) = As(attempt)
      PROVE  FALSE
  <2>1. Len(ended) <= 1
    BY <1>1 DEF Turn
  <2>2. i = 1 /\ Len(ended) = 1
    BY <1>2, <1>3, <2>1
  <2>3. As(attempt) = "root" <=> ~RootFirst
    BY <1>1, <2>2 DEF Turn
  <2>4. ended[1].root <=> RootFirst
    BY <1>1, <2>2 DEF RunsInTurn
  <2>5. As(ended[1]) = "root" <=> RootFirst
    BY <2>4 DEF As
  <2> QED
    BY <1>3, <2>2, <2>3, <2>5
<1> QED
  BY <1>1, <1>3 DEF InTurn, HasRun

(* A run that ends or goes on has its step, and those before, behind it.    *)
LEMMA TurnPasses ==
    ASSUME ElevationInv, NEW s \in Nat, NEW who,
           (\E run \in Runs : EndsWith(run)) \/ (\E words \in SUBSET Words : GoesOn(words)),
           InTurn(s, who) \/ (attempt.going /\ who = As(attempt) /\ s = attempt.step)
    PROVE  InTurn(s, who)'
<1>1. ended \in Seq(Runs) /\ attempt.step \in Nat
  BY ElevationBounds DEF ElevationInv, CommandForm
<1>2. CASE \E run \in Runs : EndsWith(run)
  <2>1. PICK run \in Runs : EndsWith(run)
    BY <1>2
  <2>2. ended' = Append(ended, run) /\ (attempt.going => As(run) = As(attempt))
    BY <2>1 DEF EndsWith
  <2>3. /\ \A i \in 1..Len(ended) : i \in 1..Len(ended') /\ ended'[i] = ended[i]
        /\ Len(ended) + 1 \in 1..Len(ended') /\ ended'[Len(ended) + 1] = run
    BY <1>1, <2>2
  <2>4. CASE HasRun(who)
    BY <2>3, <2>4 DEF HasRun, InTurn, As
  <2>5. CASE attempt.going /\ As(attempt) = who
    <3>1. As(ended'[Len(ended) + 1]) = who
      BY <2>2, <2>3, <2>5
    <3> QED
      BY <2>3, <3>1 DEF HasRun, InTurn, As
  <2> QED
    BY <2>4, <2>5 DEF InTurn
<1>3. CASE \E words \in SUBSET Words : GoesOn(words)
  <2>1. /\ ended' = ended /\ attempt.going /\ attempt'.going /\ attempt'.root = attempt.root
        /\ attempt'.step = attempt.step + 1
    BY ZenonT(30), <1>3 DEF GoesOn, ElevationInv, CommandForm
  <2>2. CASE HasRun(who)
    BY <2>1, <2>2 DEF HasRun, InTurn, As
  <2>3. CASE As(attempt) = who /\ (s < attempt.step \/ s = attempt.step)
    <3>1. s < attempt'.step
      BY <1>1, <2>1, <2>3
    <3> QED
      BY <2>1, <2>3, <3>1 DEF InTurn, As
  <2> QED
    BY <2>1, <2>2, <2>3 DEF InTurn
<1> QED
  BY <1>2, <1>3

(* An effect is added where there was none.                                 *)
LEMMA EffectAdded ==
    ASSUME ElevationInv, TakesEffect
    PROVE  /\ effects' \in [DOMAIN command.script -> [user : 0..1, root : 0..1]]
           /\ \A s \in DOMAIN command.script :
                 /\ \/ effects'[s].user = effects[s].user
                    \/ As(attempt) = "user" /\ s = attempt.step
                 /\ \/ effects'[s].root = effects[s].root
                    \/ As(attempt) = "root" /\ s = attempt.step
<1>1. /\ attempt.going /\ attempt.step \in DOMAIN command.script
      /\ effects \in [DOMAIN command.script -> [user : 0..1, root : 0..1]]
  BY DEF TakesEffect, ElevationInv, RunsInTurn, EffectsInTurn
<1>2. ~InTurn(attempt.step, As(attempt))
  BY <1>1, NotYet
<1>3. CASE As(attempt) = "user"
  <2>1. effects[attempt.step].user = 0
    BY <1>1, <1>2, <1>3 DEF ElevationInv, EffectsInTurn
  <2>2. effects' = [effects EXCEPT ![attempt.step]["user"] = @ + 1]
    BY <1>3 DEF TakesEffect
  <2>3. /\ effects' = [s \in DOMAIN effects |-> effects'[s]]
        /\ \A s \in DOMAIN effects : s # attempt.step => effects'[s] = effects[s]
        /\ effects'[attempt.step] = [effects[attempt.step] EXCEPT !.user = @ + 1]
    BY <1>1, <2>2
  <2>4. effects'[attempt.step] = [user |-> 1, root |-> effects[attempt.step].root]
    BY <1>1, <2>1, <2>3
  <2>5. effects[attempt.step] \in [user : 0..1, root : 0..1]
    BY <1>1
  <2>6. /\ effects'[attempt.step] \in [user : 0..1, root : 0..1]
        /\ effects'[attempt.step].root = effects[attempt.step].root
    BY <2>4, <2>5
  <2>7. \A s \in DOMAIN effects : effects'[s] \in [user : 0..1, root : 0..1]
    BY <1>1, <2>3, <2>6
  <2>8. effects' \in [DOMAIN command.script -> [user : 0..1, root : 0..1]]
    BY <1>1, <2>3, <2>7
  <2> QED
    BY <1>1, <1>3, <2>3, <2>6, <2>8
<1>4. CASE As(attempt) = "root"
  <2>1. effects[attempt.step].root = 0
    BY <1>1, <1>2, <1>4 DEF ElevationInv, EffectsInTurn
  <2>2. effects' = [effects EXCEPT ![attempt.step]["root"] = @ + 1]
    BY <1>4 DEF TakesEffect
  <2>3. /\ effects' = [s \in DOMAIN effects |-> effects'[s]]
        /\ \A s \in DOMAIN effects : s # attempt.step => effects'[s] = effects[s]
        /\ effects'[attempt.step] = [effects[attempt.step] EXCEPT !.root = @ + 1]
    BY <1>1, <2>2
  <2>4. effects'[attempt.step] = [user |-> effects[attempt.step].user, root |-> 1]
    BY <1>1, <2>1, <2>3
  <2>5. effects[attempt.step] \in [user : 0..1, root : 0..1]
    BY <1>1
  <2>6. /\ effects'[attempt.step] \in [user : 0..1, root : 0..1]
        /\ effects'[attempt.step].user = effects[attempt.step].user
    BY <2>4, <2>5
  <2>7. \A s \in DOMAIN effects : effects'[s] \in [user : 0..1, root : 0..1]
    BY <1>1, <2>3, <2>6
  <2>8. effects' \in [DOMAIN command.script -> [user : 0..1, root : 0..1]]
    BY <1>1, <2>3, <2>7
  <2> QED
    BY <1>1, <1>4, <2>3, <2>6, <2>8
<1> QED
  BY <1>3, <1>4 DEF As

LEMMA EffectsStayInTurn ==
    ASSUME ElevationInv, ElevationRest, ElevationStep
    PROVE  EffectsInTurn'
<1>1. command' = command /\ EffectsInTurn /\ CommandForm
  BY DEF ElevationRest, ElevationInv
<1>2. DOMAIN command.script \subseteq Nat
  BY <1>1, ScriptIs
<1>3. CASE (\E who \in {"user", "root"} : Starts(who)) \/ Tells
  <2>1. /\ effects' = effects /\ ended' = ended
        /\ attempt' = attempt \/ ~attempt.going
    BY <1>3 DEF Starts, Tells
  <2>2. \A s, who : InTurn(s, who) => InTurn(s, who)'
    BY <2>1 DEF InTurn, HasRun, As
  <2> QED
    BY <1>1, <2>1, <2>2 DEF EffectsInTurn
<1>4. CASE /\ (\E run \in Runs : EndsWith(run)) \/ (\E words \in SUBSET Words : GoesOn(words))
           /\ UNCHANGED effects
  <2>1. \A s \in DOMAIN command.script : \A who : InTurn(s, who) => InTurn(s, who)'
    BY <1>2, <1>4, TurnPasses
  <2> QED
    BY <1>1, <1>4, <2>1 DEF EffectsInTurn
<1>5. CASE /\ (\E run \in Runs : EndsWith(run)) \/ (\E words \in SUBSET Words : GoesOn(words))
           /\ TakesEffect
  <2>1. \A s \in DOMAIN command.script : \A who :
            InTurn(s, who) \/ (who = As(attempt) /\ s = attempt.step) => InTurn(s, who)'
    BY <1>2, <1>5, TurnPasses DEF TakesEffect
  <2>2. ASSUME NEW s \in DOMAIN command.script
        PROVE  /\ effects'[s].user = 1 => InTurn(s, "user")'
               /\ effects'[s].root = 1 => InTurn(s, "root")'
    <3>1. /\ effects[s].user = 1 => InTurn(s, "user")
          /\ effects[s].root = 1 => InTurn(s, "root")
      BY <1>1 DEF EffectsInTurn
    <3> QED
      BY <1>5, <2>1, <3>1, EffectAdded
  <2> QED
    BY <1>1, <1>5, <2>2, EffectAdded DEF EffectsInTurn
<1> QED
  BY <1>3, <1>4, <1>5 DEF ElevationStep

LEMMA ElevationStarts == ElevationInit => ElevationInv
<1> SUFFICES ASSUME ElevationInit
             PROVE  ElevationInv
  OBVIOUS
<1>1. /\ command.script \in Scripts /\ command.prints \in Words
      /\ command.attributed \in BOOLEAN /\ command.wantRoot \in BOOLEAN
      /\ command.wantRoot => command.via = "agent"
      /\ attempt = NotRunning /\ ended = <<>> /\ verdictSent = Untold /\ ownFailures = 0
      /\ effects = [s \in DOMAIN command.script |-> [user |-> 0, root |-> 0]]
  BY DEF ElevationInit, Words
<1>2. CommandForm
  <2>1. \E n \in 1..MaxSteps : command.script \in [1..n -> {"any", "rooted"}]
    BY <1>1 DEF Scripts
  <2>2. attempt \in [going : BOOLEAN, root : BOOLEAN, step : 1..MaxSteps, said : SUBSET Words]
    <3>1. 1 \in 1..MaxSteps
      BY ElevationBounds
    <3> QED
      BY <1>1, <3>1 DEF NotRunning
  <2>3. verdictSent.given = FALSE /\ verdictSent.code = 0
    BY <1>1 DEF Untold
  <2>4. ended \in Seq(Runs) /\ ownFailures \in 0..MaxOwnFailures
    BY <1>1, ElevationBounds
  <2> QED
    BY <1>1, <2>1, <2>2, <2>3, <2>4 DEF CommandForm
<1>3. RunsInTurn
  BY <1>1 DEF RunsInTurn, NotRunning
<1>4. EffectsInTurn
  BY <1>1 DEF EffectsInTurn
<1>5. RootIsNotDenied
  BY <1>1 DEF RootIsNotDenied, NotDenied, NotRunning
<1>6. UnprivilegedIsSaid
  BY <1>1 DEF UnprivilegedIsSaid, Untold
<1> QED
  BY <1>2, <1>3, <1>4, <1>5, <1>6 DEF ElevationInv

LEMMA ElevationKept == ElevationSpec => []ElevationInv
<1>1. ElevationInv /\ [ElevationNext]_elevationVars => ElevationInv'
  <2> SUFFICES ASSUME ElevationInv, [ElevationNext]_elevationVars
               PROVE  ElevationInv'
    OBVIOUS
  <2>1. CASE ElevationNext
    BY <2>1, EveryElevationStep, CommandFormKept, RunsStayInTurn, EffectsStayInTurn,
       RootStaysNotDenied, UnprivilegedStaysSaid DEF ElevationInv
  <2>2. CASE UNCHANGED elevationVars
    BY <2>2 DEF elevationVars, ElevationInv, CommandForm, RunsInTurn, Turn, RootFirst,
                EffectsInTurn, InTurn, HasRun, As, RootIsNotDenied, NotDenied, UnprivilegedIsSaid
  <2> QED
    BY <2>1, <2>2
<1> QED
  BY ElevationStarts, <1>1, PTL DEF ElevationSpec

-----------------------------------------------------------------------------
(* The firewalls of a host.                                                 *)

FwdForms  == [inst : BOOLEAN, run : BOOLEAN, boot : BOOLEAN,
              live : SUBSET Ports, perm : SUBSET Ports]
UfwForms  == [inst : BOOLEAN, unit : BOOLEAN, boot : BOOLEAN, conf : BOOLEAN,
              on : BOOLEAN, allow : SUBSET Ports, deniesIn : BOOLEAN,
              deniesOut : BOOLEAN, wayOut : BOOLEAN]
RawForms  == [live : 0..1, file : 0..1, boot : BOOLEAN]
CallForms == [call : Calls, gates : BOOLEAN]
JobForms  == [op : Ops \cup {"none"}, on : {"firewalld", "ufw", "none"},
              todo : Seq(CallForms), port : Ports,
              end : {"running", "ok", "failed"}, quiet : BOOLEAN,
              before : SUBSET Ports, reach : BOOLEAN]

(* What is left of a script, at each of its calls.                          *)
FwdDiag   == {<<Call("diag")>>}
FwdReload == {<<Quiet("reload")>>, <<Quiet("reload"), Call("diag")>>}
FwdKeep   == {<<Quiet("keep"), Quiet("reload")>>,
              <<Quiet("keep"), Quiet("reload"), Call("diag")>>}
FwdStart  == {StartFwd, <<Call("start"), Quiet("keep"), Quiet("reload"), Call("diag")>>}

UnitOn(op)    == IF op = "ufw on" THEN Call("unit on") ELSE Quiet("unit on")
UfwUnit(op)   == <<UnitOn(op)>>
UfwEnable(op) == <<Call("enable"), UnitOn(op)>>
UfwWayOut(op) == <<Quiet("way out"), Call("enable"), UnitOn(op)>>
UfwAllow(op)  == <<Quiet("allow"), Quiet("way out"), Call("enable"), UnitOn(op)>>

UnitOff  == <<Quiet("unit off")>>
Disable  == <<Call("disable"), Quiet("unit off")>>
Load     == <<Call("load")>>
Write    == <<Call("write"), Call("load")>>

Running == job.end = "running"

TurnsOn(b)  == job.op \in Enables /\ job.on = b
TurnsOff(b) == job.op \in {"turn off", "firewalld off", "ufw off"} /\ job.on = b
Saves       == job.op \in {"save nft", "save iptables"}

(* The calls of every other command.                                        *)
Plain(op) == Calls \ (IF op = "install firewalld" THEN {"enable", "unit on"}
                      ELSE {"start", "enable", "unit on"})

ScriptLeft ==
    Running =>
        /\ job.todo # << >>
        /\ TurnsOn("firewalld") => job.todo \in FwdStart \cup FwdKeep \cup FwdReload \cup FwdDiag
        /\ TurnsOn("ufw") => job.todo \in {UfwAllow(job.op), UfwWayOut(job.op), UfwEnable(job.op),
                                           UfwUnit(job.op)}
        /\ TurnsOff("firewalld") => job.todo = <<Call("stop")>>
        /\ TurnsOff("ufw") => job.todo \in {Disable, UnitOff}
        /\ Saves => job.todo \in {Write, Load}
        /\ job.op \notin Enables =>
               \A i \in 1..Len(job.todo) : job.todo[i].call \in Plain(job.op)

JobIs ==
    /\ job.op \in Enables => job.on \in {"firewalld", "ufw"}
    /\ job.op = "firewalld on" => job.on = "firewalld"
    /\ job.op = "ufw on" => job.on = "ufw"
    /\ job.op \in Enables => job.before \subseteq KeepOpen

(* What runs, or starts at boot, is installed.                              *)
Installs ==
    /\ fwd.run \/ fwd.boot => fwd.inst
    /\ ufw.on \/ ufw.boot => ufw.inst

(* The ports that ufw alone lets through.                                   *)
UfwPasses == {p \in Ports : ufw.on /\ ufw.deniesIn => p \in ufw.allow}

(* Turning on firewalld, call by call.                                      *)
FwdTurning ==
    TurnsOn("firewalld") =>
        /\ Running \/ job.end = "ok" =>
              /\ job.before \subseteq UfwPasses
              /\ job.reach => ReachesOut
              /\ (Running /\ job.todo \in FwdStart) \/ (fwd.run /\ fwd.boot)
        /\ Running =>
              /\ job.todo \in FwdStart /\ UfwInCharge => FwdInCharge
              /\ ~job.quiet /\ job.todo \in FwdReload \cup FwdDiag => job.before \subseteq fwd.perm
              /\ ~job.quiet /\ job.todo \in FwdDiag => job.before \subseteq fwd.live
        /\ job.end = "ok" /\ ~job.quiet => job.before \subseteq fwd.live

(* Turning on ufw, call by call.                                            *)
UfwTurning ==
    TurnsOn("ufw") /\ (Running \/ job.end = "ok") =>
        /\ ufw.inst
        /\ Running /\ job.op = "ufw on" => ~FwdInCharge
        /\ ~job.quiet => ~Cut
        /\ Running /\ ~job.quiet /\ job.todo # UfwAllow(job.op) => KeepOpen \subseteq ufw.allow
        /\ Running /\ ~job.quiet /\ job.todo \in {UfwEnable(job.op), UfwUnit(job.op)} => ufw.wayOut
        /\ Running /\ job.todo = UfwUnit(job.op) => ufw.on /\ ufw.conf
        /\ job.end = "ok" /\ job.op = "ufw on" => ufw.on /\ ufw.conf /\ ufw.boot

(* Turning off, and saving raw rules.                                       *)
Turned ==
    /\ TurnsOff("firewalld") /\ job.end = "ok" => ~FwdInCharge
    /\ TurnsOff("ufw") /\ (job.end = "ok" \/ (Running /\ job.todo = UnitOff))
          => ~ufw.on /\ ~ufw.conf
    /\ Saves /\ Running /\ job.todo = Load => raw.file = raw.live
    /\ Saves /\ job.end = "ok" => raw.boot /\ raw.file = raw.live

FwInv == FwTypeOK /\ OneFrontEnd /\ ScriptLeft /\ JobIs /\ Installs /\ FwdTurning /\ UfwTurning
         /\ Turned

(* A call changes one thing.                                                *)
LEMMA UfwAfter ==
    ASSUME ufw \in UfwForms, job.port \in Ports, NEW c \in Calls, Does(c)
    PROVE  /\ ufw' \in UfwForms
           /\ ufw'.inst <=> ufw.inst \/ c = "ufw package"
           /\ ufw'.boot <=> c = "unit on" \/ (ufw.boot /\ c # "unit off")
           /\ ufw'.on   <=> c = "enable" \/ (ufw.on /\ c \notin {"disable", "reset"})
           /\ ufw'.conf <=> c = "enable" \/ (ufw.conf /\ c \notin {"disable", "reset"})
           /\ c = "allow" => ufw'.allow = ufw.allow \cup KeepOpen
           /\ c \notin {"allow", "open ufw", "shut ufw", "reset"} => ufw'.allow = ufw.allow
           /\ c \notin {"reset", "deny in"} => (ufw'.deniesIn <=> ufw.deniesIn)
           /\ c \notin {"reset", "deny out"} => (ufw'.deniesOut <=> ufw.deniesOut)
           /\ c # "reset" => (ufw'.wayOut <=> ufw.wayOut \/ c = "way out")
<1>0. KeepOpen \subseteq Ports
  BY DEF KeepOpen, Ports
<1>1. CASE c = "ufw package"
  <2>1. ufw' = [ufw EXCEPT !.inst = TRUE]
    BY <1>1 DEF Does, Installed
  <2> QED
    BY <1>1, <2>1 DEF UfwForms
<1>2. CASE c = "allow"
  <2>1. ufw' = [ufw EXCEPT !.allow = @ \cup KeepOpen]
    BY <1>2 DEF Does
  <2> QED
    BY <1>0, <1>2, <2>1 DEF UfwForms
<1>3. CASE c = "way out"
  <2>1. ufw' = [ufw EXCEPT !.wayOut = TRUE]
    BY <1>3 DEF Does
  <2> QED
    BY <1>3, <2>1 DEF UfwForms
<1>4. CASE c = "enable"
  <2>1. ufw' = [ufw EXCEPT !.conf = TRUE, !.on = TRUE]
    BY <1>4 DEF Does
  <2> QED
    BY <1>4, <2>1 DEF UfwForms
<1>5. CASE c = "unit on"
  <2>1. ufw' = [ufw EXCEPT !.boot = TRUE]
    BY <1>5 DEF Does
  <2> QED
    BY <1>5, <2>1 DEF UfwForms
<1>6. CASE c = "disable"
  <2>1. ufw' = [ufw EXCEPT !.conf = FALSE, !.on = FALSE]
    BY <1>6 DEF Does
  <2> QED
    BY <1>6, <2>1 DEF UfwForms
<1>7. CASE c = "unit off"
  <2>1. ufw' = [ufw EXCEPT !.boot = FALSE]
    BY <1>7 DEF Does
  <2> QED
    BY <1>7, <2>1 DEF UfwForms
<1>8. CASE c = "open ufw"
  <2>1. ufw' = [ufw EXCEPT !.allow = @ \cup {job.port}]
    BY <1>8 DEF Does
  <2> QED
    BY <1>8, <2>1 DEF UfwForms
<1>9. CASE c = "shut ufw"
  <2>1. ufw' = [ufw EXCEPT !.allow = @ \ {job.port}]
    BY <1>9 DEF Does
  <2> QED
    BY <1>9, <2>1 DEF UfwForms
<1>10. CASE c = "reset"
  <2>1. ufw' = [ufw EXCEPT !.conf = FALSE, !.on = FALSE, !.allow = {},
                           !.deniesIn = TRUE, !.deniesOut = FALSE, !.wayOut = FALSE]
    BY <1>10 DEF Does
  <2> QED
    BY <1>10, <2>1 DEF UfwForms
<1>11. CASE c = "deny out"
  <2>1. ufw' = [ufw EXCEPT !.deniesOut = TRUE]
    BY <1>11 DEF Does
  <2> QED
    BY <1>11, <2>1 DEF UfwForms
<1>12. CASE c = "deny in"
  <2>1. ufw' = [ufw EXCEPT !.deniesIn = TRUE]
    BY <1>12 DEF Does
  <2> QED
    BY <1>12, <2>1 DEF UfwForms
<1>13. CASE c \in {"start", "stop", "keep", "reload", "diag", "open", "shut", "package",
                   "add", "flush", "write", "load", "nothing"}
  <2>1. ufw' = ufw
    BY <1>13 DEF Does
  <2> QED
    BY <1>13, <2>1
<1> QED
  BY <1>1, <1>2, <1>3, <1>4, <1>5, <1>6, <1>7, <1>8, <1>9, <1>10, <1>11, <1>12, <1>13 DEF Calls

LEMMA FwdAfter ==
    ASSUME fwd \in FwdForms, job.port \in Ports, NEW c \in Calls, Does(c)
    PROVE  /\ fwd' \in FwdForms
           /\ fwd'.inst <=> fwd.inst \/ c = "package"
           /\ fwd'.run  <=> c = "start" \/ (fwd.run /\ c # "stop")
           /\ fwd'.boot <=> c = "start" \/ (fwd.boot /\ c # "stop")
           /\ c \notin {"keep", "open", "shut"} => fwd'.perm = fwd.perm
           /\ c = "keep" => fwd'.perm = fwd.perm \cup KeepOpen
           /\ c \in {"keep", "diag"} => fwd'.live = fwd.live
           /\ c = "reload" => fwd'.live = fwd.perm
           /\ c \notin {"package", "start", "stop", "keep", "reload", "open", "shut"} => fwd' = fwd
<1>0. KeepOpen \subseteq Ports
  BY DEF KeepOpen, Ports
<1>1. CASE c = "package"
  <2>1. fwd' = [fwd EXCEPT !.inst = TRUE]
    BY <1>1 DEF Does, Installed
  <2> QED
    BY <1>1, <2>1 DEF FwdForms
<1>2. CASE c = "start"
  <2>1. PICK l \in {fwd.live, fwd.perm} :
           fwd' = [fwd EXCEPT !.boot = TRUE, !.run = TRUE, !.live = l]
    BY <1>2 DEF Does
  <2> QED
    BY <1>2, <2>1 DEF FwdForms
<1>3. CASE c = "stop"
  <2>1. fwd' = [fwd EXCEPT !.boot = FALSE, !.run = FALSE, !.live = {}]
    BY <1>3 DEF Does
  <2> QED
    BY <1>3, <2>1 DEF FwdForms
<1>4. CASE c = "keep"
  <2>1. fwd' = [fwd EXCEPT !.perm = @ \cup KeepOpen]
    BY <1>4 DEF Does
  <2> QED
    BY <1>0, <1>4, <2>1 DEF FwdForms
<1>5. CASE c = "reload"
  <2>1. fwd' = [fwd EXCEPT !.live = fwd.perm]
    BY <1>5 DEF Does
  <2> QED
    BY <1>5, <2>1 DEF FwdForms
<1>6. CASE c = "open"
  <2>1. \/ fwd' = [fwd EXCEPT !.perm = @ \cup {job.port}]
        \/ fwd' = [fwd EXCEPT !.live = @ \cup {job.port}]
    BY <1>6 DEF Does, Opened
  <2> QED
    BY <1>6, <2>1 DEF FwdForms
<1>7. CASE c = "shut"
  <2>1. \/ fwd' = [fwd EXCEPT !.perm = @ \ {job.port}]
        \/ fwd' = [fwd EXCEPT !.live = @ \ {job.port}]
    BY <1>7 DEF Does, Shut
  <2> QED
    BY <1>7, <2>1 DEF FwdForms
<1>8. CASE c \in Calls \ {"package", "start", "stop", "keep", "reload", "open", "shut"}
  <2>1. fwd' = fwd
    BY <1>8 DEF Does
  <2> QED
    BY <1>8, <2>1
<1> QED
  BY <1>1, <1>2, <1>3, <1>4, <1>5, <1>6, <1>7, <1>8

LEMMA RawAfter ==
    ASSUME raw \in RawForms, NEW c \in Calls, Does(c)
    PROVE  /\ raw' \in RawForms
           /\ c = "write" => raw'.file = raw.live /\ raw'.live = raw.live
           /\ c = "load" => raw'.boot /\ raw'.file = raw.file /\ raw'.live = raw.live
<1>1. CASE c = "add"
  BY <1>1 DEF Does, RawForms
<1>2. CASE c = "flush"
  BY <1>2 DEF Does, RawForms
<1>3. CASE c = "write"
  BY <1>3 DEF Does, RawForms
<1>4. CASE c = "load"
  BY <1>4 DEF Does, RawForms
<1>5. CASE c \in Calls \ {"add", "flush", "write", "load"}
  <2>1. raw' = raw
    BY <1>5 DEF Does
  <2> QED
    BY <1>5, <2>1
<1> QED
  BY <1>1, <1>2, <1>3, <1>4, <1>5


LEMMA Shorter1 ==
    ASSUME NEW a
    PROVE  Head(<<a>>) = a /\ Len(<<a>>) = 1
  OBVIOUS

LEMMA Shorter2 ==
    ASSUME NEW a, NEW b
    PROVE  Head(<<a, b>>) = a /\ Len(<<a, b>>) # 1 /\ Tail(<<a, b>>) = <<b>>
  OBVIOUS

LEMMA Shorter3 ==
    ASSUME NEW a, NEW b, NEW c
    PROVE  Head(<<a, b, c>>) = a /\ Len(<<a, b, c>>) # 1 /\ Tail(<<a, b, c>>) = <<b, c>>
  OBVIOUS

LEMMA Shorter4 ==
    ASSUME NEW a, NEW b, NEW c, NEW d
    PROVE  /\ Head(<<a, b, c, d>>) = a /\ Len(<<a, b, c, d>>) # 1
           /\ Tail(<<a, b, c, d>>) = <<b, c, d>>
  OBVIOUS

(* The scripts, call by call.                                               *)
LEMMA FwdCalls ==
    ASSUME NEW todo
    PROVE  /\ todo \in FwdStart => /\ Head(todo) = Call("start") /\ Len(todo) # 1
                                   /\ Tail(todo) \in FwdKeep
           /\ todo \in FwdKeep => /\ Head(todo) = Quiet("keep") /\ Len(todo) # 1
                                  /\ Tail(todo) \in FwdReload
           /\ todo \in FwdReload => /\ Head(todo) = Quiet("reload")
                                    /\ Len(todo) = 1 \/ Tail(todo) \in FwdDiag
           /\ todo \in FwdDiag => Head(todo) = Call("diag") /\ Len(todo) = 1
<1> DEFINE s == Call("start") k == Quiet("keep") r == Quiet("reload") d == Call("diag")
<1>1. ASSUME todo \in FwdStart
      PROVE  Head(todo) = s /\ Len(todo) # 1 /\ Tail(todo) \in FwdKeep
  <2>1. todo = <<s, k, r>> \/ todo = <<s, k, r, d>>
    BY <1>1 DEF FwdStart, StartFwd
  <2>2. <<k, r>> \in FwdKeep /\ <<k, r, d>> \in FwdKeep
    BY DEF FwdKeep
  <2>3. CASE todo = <<s, k, r>>
    BY <2>2, <2>3, Shorter3, Zenon
  <2>4. CASE todo = <<s, k, r, d>>
    <3>1. /\ Head(<<s, k, r, d>>) = s /\ Len(<<s, k, r, d>>) # 1
          /\ Tail(<<s, k, r, d>>) = <<k, r, d>>
      BY Shorter4
    <3> QED
      BY <2>2, <2>4, <3>1, Zenon
  <2> QED
    BY <2>1, <2>3, <2>4
<1>2. ASSUME todo \in FwdKeep
      PROVE  Head(todo) = k /\ Len(todo) # 1 /\ Tail(todo) \in FwdReload
  <2>1. todo = <<k, r>> \/ todo = <<k, r, d>>
    BY <1>2 DEF FwdKeep
  <2>2. <<r>> \in FwdReload /\ <<r, d>> \in FwdReload
    BY DEF FwdReload
  <2>3. CASE todo = <<k, r>>
    <3>1. Head(<<k, r>>) = k /\ Len(<<k, r>>) # 1 /\ Tail(<<k, r>>) = <<r>>
      BY Shorter2, Zenon
    <3> QED
      BY <2>2, <2>3, <3>1, Zenon
  <2>4. CASE todo = <<k, r, d>>
    BY <2>2, <2>4, Shorter3, Zenon
  <2> QED
    BY <2>1, <2>3, <2>4
<1>3. ASSUME todo \in FwdReload
      PROVE  Head(todo) = r /\ (Len(todo) = 1 \/ Tail(todo) \in FwdDiag)
  <2>1. todo = <<r>> \/ todo = <<r, d>>
    BY <1>3 DEF FwdReload
  <2>2. <<d>> \in FwdDiag
    BY DEF FwdDiag
  <2>3. CASE todo = <<r>>
    BY <2>3, Shorter1, Zenon
  <2>4. CASE todo = <<r, d>>
    BY <2>2, <2>4, Shorter2, Zenon
  <2> QED
    BY <2>1, <2>3, <2>4
<1>4. ASSUME todo \in FwdDiag
      PROVE  Head(todo) = d /\ Len(todo) = 1
  BY <1>4, Shorter1 DEF FwdDiag
<1> QED
  BY <1>1, <1>2, <1>3, <1>4

LEMMA UfwCalls ==
    ASSUME NEW op
    PROVE  /\ Head(UfwAllow(op)) = Quiet("allow") /\ Len(UfwAllow(op)) # 1
           /\ Tail(UfwAllow(op)) = UfwWayOut(op)
           /\ Head(UfwWayOut(op)) = Quiet("way out") /\ Len(UfwWayOut(op)) # 1
           /\ Tail(UfwWayOut(op)) = UfwEnable(op)
           /\ Head(UfwEnable(op)) = Call("enable") /\ Len(UfwEnable(op)) # 1
           /\ Tail(UfwEnable(op)) = UfwUnit(op)
           /\ Head(UfwUnit(op)) = UnitOn(op) /\ Len(UfwUnit(op)) = 1
<1>1. /\ Head(UfwAllow(op)) = Quiet("allow") /\ Len(UfwAllow(op)) # 1
      /\ Tail(UfwAllow(op)) = UfwWayOut(op)
  <2> DEFINE a == Quiet("allow") w == Quiet("way out") e == Call("enable") u == UnitOn(op)
  <2>1. /\ Head(<<a, w, e, u>>) = a /\ Len(<<a, w, e, u>>) # 1
        /\ Tail(<<a, w, e, u>>) = <<w, e, u>>
    <3> HIDE DEF a, w, e, u
    <3> QED
      BY Shorter4
  <2> QED
    BY <2>1, Zenon DEF UfwAllow, UfwWayOut
<1>2. /\ Head(UfwWayOut(op)) = Quiet("way out") /\ Len(UfwWayOut(op)) # 1
      /\ Tail(UfwWayOut(op)) = UfwEnable(op)
  BY Shorter3 DEF UfwWayOut, UfwEnable
<1>3. /\ Head(UfwEnable(op)) = Call("enable") /\ Len(UfwEnable(op)) # 1
      /\ Tail(UfwEnable(op)) = UfwUnit(op)
  BY Shorter2 DEF UfwEnable, UfwUnit
<1>4. Head(UfwUnit(op)) = UnitOn(op) /\ Len(UfwUnit(op)) = 1
  BY Shorter1 DEF UfwUnit
<1> QED
  BY <1>1, <1>2, <1>3, <1>4

LEMMA OtherCalls ==
    /\ Head(Disable) = Call("disable") /\ Len(Disable) # 1 /\ Tail(Disable) = UnitOff
    /\ Head(UnitOff) = Quiet("unit off") /\ Len(UnitOff) = 1
    /\ Head(Write) = Call("write") /\ Len(Write) # 1 /\ Tail(Write) = Load
    /\ Head(Load) = Call("load") /\ Len(Load) = 1
    /\ Head(<<Call("stop")>>) = Call("stop") /\ Len(<<Call("stop")>>) = 1
<1>1. /\ Head(Disable) = Call("disable") /\ Len(Disable) # 1 /\ Tail(Disable) = UnitOff
  BY Shorter2, Zenon DEF Disable, UnitOff
<1>2. /\ Head(UnitOff) = Quiet("unit off") /\ Len(UnitOff) = 1
      /\ Head(Load) = Call("load") /\ Len(Load) = 1
      /\ Head(<<Call("stop")>>) = Call("stop") /\ Len(<<Call("stop")>>) = 1
  BY Shorter1, Zenon DEF UnitOff, Load
<1>3. Head(Write) = Call("write") /\ Len(Write) # 1 /\ Tail(Write) = Load
  BY Shorter2, Zenon DEF Write, Load
<1> QED
  BY <1>1, <1>2, <1>3

LEMMA CallFields ==
    ASSUME NEW c
    PROVE  Call(c).call = c /\ Call(c).gates /\ Quiet(c).call = c /\ ~Quiet(c).gates
  BY DEF Call, Quiet

LEMMA UfwCallFields ==
    ASSUME NEW op
    PROVE  /\ Head(UfwAllow(op)).call = "allow" /\ Head(UfwWayOut(op)).call = "way out"
           /\ Head(UfwEnable(op)).call = "enable" /\ Head(UfwUnit(op)).call = "unit on"
           /\ Head(UfwEnable(op)).gates
           /\ op = "ufw on" => Head(UfwUnit(op)).gates
<1>1. UnitOn(op).call = "unit on" /\ (op = "ufw on" => UnitOn(op).gates)
  BY CallFields DEF UnitOn
<1>2. /\ Head(UfwAllow(op)) = Quiet("allow") /\ Head(UfwWayOut(op)) = Quiet("way out")
      /\ Head(UfwEnable(op)) = Call("enable") /\ Head(UfwUnit(op)) = UnitOn(op)
  BY UfwCalls
<1> QED
  BY <1>1, <1>2, CallFields

LEMMA OtherCallFields ==
    /\ Head(Disable).call = "disable" /\ Head(Disable).gates
    /\ Head(UnitOff).call = "unit off"
    /\ Head(Write).call = "write" /\ Head(Write).gates
    /\ Head(Load).call = "load" /\ Head(Load).gates
    /\ Head(<<Call("stop")>>).call = "stop" /\ Head(<<Call("stop")>>).gates
<1>1. /\ Head(Disable) = Call("disable") /\ Head(UnitOff) = Quiet("unit off")
      /\ Head(Write) = Call("write") /\ Head(Load) = Call("load")
      /\ Head(<<Call("stop")>>) = Call("stop")
  BY OtherCalls
<1> QED
  BY <1>1, CallFields

(* The call under way.                                                      *)
Now == Head(job.todo)

LEMMA NowIs ==
    ASSUME FwTypeOK, ScriptLeft, Running
    PROVE  /\ job.todo \in Seq(CallForms) /\ job.todo # << >>
           /\ Now \in CallForms /\ Now.call \in Calls /\ Now = job.todo[1]
           /\ Len(job.todo) \in Nat \ {0}
           /\ Tail(job.todo) \in Seq(CallForms)
           /\ Len(job.todo) # 1 => Tail(job.todo) # << >>
           /\ \A i \in 1..Len(Tail(job.todo)) : i + 1 \in 1..Len(job.todo)
                                               /\ Tail(job.todo)[i] = job.todo[i + 1]
<1>1. job.todo \in Seq(CallForms) /\ job.todo # << >>
  BY DEF FwTypeOK, ScriptLeft, CallForms
<1>2. Now \in CallForms /\ Now = job.todo[1] /\ Len(job.todo) \in Nat \ {0}
  BY <1>1 DEF Now
<1>3. /\ Tail(job.todo) \in Seq(CallForms) /\ Len(Tail(job.todo)) = Len(job.todo) - 1
      /\ \A i \in 1..Len(Tail(job.todo)) : i + 1 \in 1..Len(job.todo)
                                          /\ Tail(job.todo)[i] = job.todo[i + 1]
  BY <1>1
<1>4. Now.call \in Calls
  BY <1>2 DEF CallForms
<1>5. Len(job.todo) # 1 => Tail(job.todo) # << >>
  <2>1. Len(job.todo) # 1 => Len(Tail(job.todo)) # 0
    BY <1>2, <1>3
  <2> QED
    BY <2>1
<1> QED
  BY <1>1, <1>2, <1>3, <1>4, <1>5

(* After a call that ends the script for its failure, and after any other.  *)
GivesUp == job' = NoJob

Proceeds ==
    /\ job'.op = job.op /\ job'.on = job.on /\ job'.port = job.port
    /\ job'.before = job.before /\ job'.reach = job.reach /\ job'.todo = Tail(job.todo)
    /\ IF Len(job.todo) = 1 THEN job'.end = "ok" ELSE job'.end = "running"
    /\ job' \in JobForms

LEMMA StepForm ==
    ASSUME FwTypeOK, ScriptLeft, Step
    PROVE  /\ Running /\ Does(Now.call) /\ CanDo(Now.call)
           /\ Proceeds /\ job'.quiet = job.quiet
           /\ UNCHANGED <<isController, serving, frontEnd, failures>>
<1>1. /\ Running /\ Does(Now.call) /\ CanDo(Now.call) /\ job \in JobForms
      /\ job' = [job EXCEPT !.todo = Tail(@), !.quiet = @ \/ ~TRUE,
                            !.end = IF Len(job.todo) = 1 THEN "ok" ELSE "running"]
      /\ UNCHANGED <<isController, serving, frontEnd, failures>>
  BY DEF Step, Then, Running, Now, FwTypeOK, JobForms, CallForms
<1>2. Tail(job.todo) \in Seq(CallForms)
  BY <1>1, NowIs
<1>3. (job.quiet \/ ~TRUE) = job.quiet
  BY <1>1 DEF JobForms
<1>4. job' = [job EXCEPT !.todo = Tail(@), !.quiet = job.quiet,
                         !.end = IF Len(job.todo) = 1 THEN "ok" ELSE "running"]
  BY <1>1, <1>3
<1>5. Proceeds /\ job'.quiet = job.quiet
  <2>1. CASE Len(job.todo) = 1
    BY <1>1, <1>2, <1>4, <2>1 DEF Proceeds, JobForms
  <2>2. CASE Len(job.todo) # 1
    BY <1>1, <1>2, <1>4, <2>2 DEF Proceeds, JobForms
  <2> QED
    BY <2>1, <2>2
<1> QED
  BY <1>1, <1>5

LEMMA StepFailsForm ==
    ASSUME FwTypeOK, ScriptLeft, StepFails
    PROVE  /\ Running
           /\ \/ Now.gates /\ GivesUp
              \/ ~Now.gates /\ Proceeds /\ job'.quiet
           /\ \/ fwd' = fwd
              \/ Now.call = "start" /\ fwd.inst /\ fwd' = [fwd EXCEPT !.boot = TRUE]
           /\ beside' = (beside \/ (fwd' # fwd /\ job.op = "install firewalld"))
           /\ UNCHANGED <<ufw, raw, isController, serving, frontEnd>>
           /\ failures' \in 0..MaxFailures
<1>1. /\ Running /\ job \in JobForms
      /\ job' = IF ~FALSE /\ Now.gates THEN NoJob
                ELSE [job EXCEPT !.todo = Tail(@), !.quiet = @ \/ ~FALSE,
                                 !.end = IF Len(job.todo) = 1 THEN "ok" ELSE "running"]
  BY DEF StepFails, Then, Gates, Running, Now, FwTypeOK, JobForms, CallForms
<1>2. /\ \/ fwd' = fwd
         \/ Now.call = "start" /\ fwd.inst /\ fwd' = [fwd EXCEPT !.boot = TRUE]
      /\ beside' = (beside \/ (fwd' # fwd /\ job.op = "install firewalld"))
      /\ UNCHANGED <<ufw, raw, isController, serving, frontEnd>>
  BY DEF StepFails, Now
<1>3. failures' \in 0..MaxFailures
  <2>1. failures \in 0..MaxFailures /\ MaxFailures \in Nat
    BY FailuresAreBounded DEF FwTypeOK
  <2>2. (failures < MaxFailures /\ failures' = failures + 1) \/ failures' = failures
    BY DEF StepFails
  <2> QED
    BY <2>1, <2>2
<1>4. Tail(job.todo) \in Seq(CallForms)
  BY <1>1, NowIs
<1>5. CASE Now.gates
  BY <1>1, <1>2, <1>3, <1>5 DEF GivesUp
<1>6. CASE ~Now.gates
  <2>1. (job.quiet \/ ~FALSE) = TRUE
    OBVIOUS
  <2>2. job' = [job EXCEPT !.todo = Tail(@), !.quiet = TRUE,
                           !.end = IF Len(job.todo) = 1 THEN "ok" ELSE "running"]
    BY <1>1, <1>6, <2>1
  <2>3. Proceeds /\ job'.quiet
    <3>1. CASE Len(job.todo) = 1
      BY <1>1, <1>4, <2>2, <3>1 DEF Proceeds, JobForms
    <3>2. CASE Len(job.todo) # 1
      BY <1>1, <1>4, <2>2, <3>2 DEF Proceeds, JobForms
    <3> QED
      BY <3>1, <3>2
  <2> QED
    BY <1>1, <1>2, <1>3, <1>6, <2>3
<1> QED
  BY <1>5, <1>6


LEMMA Forms ==
    FwTypeOK <=> /\ fwd \in FwdForms /\ ufw \in UfwForms /\ raw \in RawForms /\ job \in JobForms
                 /\ isController \in BOOLEAN /\ serving \in BOOLEAN /\ frontEnd \in BOOLEAN
                 /\ beside \in BOOLEAN /\ failures \in 0..MaxFailures
  BY DEF FwTypeOK, FwdForms, UfwForms, RawForms, JobForms, CallForms

LEMMA NothingIsRun ==
    ASSUME GivesUp
    PROVE  job'.op = "none" /\ job'.end = "failed" /\ job'.on = "none" /\ ~job'.quiet /\ job' \in JobForms
<1>1. << >> \in Seq(CallForms)
  OBVIOUS
<1> QED
  BY <1>1 DEF GivesUp, NoJob, JobForms, Ports

(* firewalld is started, and ufw enabled, only where their scripts say so.  *)
LEMMA NowFits ==
    ASSUME FwInv, Running
    PROVE  /\ Now.call = "start" => \/ job.op = "install firewalld"
                                    \/ TurnsOn("firewalld") /\ job.todo \in FwdStart
           /\ Now.call = "enable" => TurnsOn("ufw") /\ job.todo = UfwEnable(job.op)
           /\ Now.call = "unit on" => TurnsOn("ufw") /\ job.todo = UfwUnit(job.op)
<1>1. ScriptLeft /\ JobIs /\ FwTypeOK
  BY DEF FwInv
<1>2. CASE job.op \notin Enables
  <2>1. Now.call \in Plain(job.op)
    <3>1. 1 \in 1..Len(job.todo) /\ Now = job.todo[1]
      BY <1>1, NowIs
    <3> QED
      BY <1>1, <1>2, <3>1 DEF ScriptLeft
  <2> QED
    BY <2>1 DEF Plain
<1>3. CASE TurnsOn("firewalld")
  <2>1. job.todo \in FwdStart \cup FwdKeep \cup FwdReload \cup FwdDiag
    BY <1>1, <1>3 DEF ScriptLeft
  <2>2. \/ job.todo \in FwdStart
        \/ Now \in {Quiet("keep"), Quiet("reload"), Call("diag")}
    BY <2>1, FwdCalls DEF Now
  <2>3. job.todo \in FwdStart \/ Now.call \in {"keep", "reload", "diag"}
    BY <2>2, CallFields
  <2>4. job.todo \in FwdStart => Now.call = "start"
    BY FwdCalls, CallFields DEF Now
  <2> QED
    BY <1>3, <2>3, <2>4
<1>4. CASE TurnsOn("ufw")
  <2>1. job.todo \in {UfwAllow(job.op), UfwWayOut(job.op), UfwEnable(job.op), UfwUnit(job.op)}
    BY <1>1, <1>4 DEF ScriptLeft
  <2>2. /\ job.todo = UfwAllow(job.op) => Now.call = "allow"
        /\ job.todo = UfwWayOut(job.op) => Now.call = "way out"
        /\ job.todo = UfwEnable(job.op) => Now.call = "enable"
        /\ job.todo = UfwUnit(job.op) => Now.call = "unit on"
    BY UfwCallFields DEF Now
  <2> QED
    BY <1>4, <2>1, <2>2
<1> QED
  BY <1>1, <1>2, <1>3, <1>4 DEF JobIs, TurnsOn

(* What is in charge of the host, after a call.                             *)
LEMMA StepKeepsHost ==
    ASSUME FwInv, Step
    PROVE  FwTypeOK' /\ Installs' /\ OneFrontEnd'
<1>1. FwTypeOK /\ ScriptLeft /\ Installs /\ OneFrontEnd /\ JobIs
  BY DEF FwInv
<1>2. /\ Running /\ Does(Now.call) /\ CanDo(Now.call) /\ Proceeds /\ Now.call \in Calls
      /\ UNCHANGED <<isController, serving, frontEnd, failures>>
  BY <1>1, StepForm, NowIs
<1>3. job.port \in Ports /\ beside \in BOOLEAN
  BY <1>1, Forms DEF JobForms
<1>4. /\ fwd' \in FwdForms
      /\ fwd'.inst <=> fwd.inst \/ Now.call = "package"
      /\ fwd'.run  <=> Now.call = "start" \/ (fwd.run /\ Now.call # "stop")
      /\ fwd'.boot <=> Now.call = "start" \/ (fwd.boot /\ Now.call # "stop")
  BY <1>1, <1>2, <1>3, Forms, FwdAfter
<1>5. /\ ufw' \in UfwForms
      /\ ufw'.inst <=> ufw.inst \/ Now.call = "ufw package"
      /\ ufw'.boot <=> Now.call = "unit on" \/ (ufw.boot /\ Now.call # "unit off")
      /\ ufw'.on   <=> Now.call = "enable" \/ (ufw.on /\ Now.call \notin {"disable", "reset"})
  BY <1>1, <1>2, <1>3, Forms, UfwAfter
<1>6. raw' \in RawForms
  BY <1>1, <1>2, Forms, RawAfter
<1>7. /\ beside' = (beside \/ (Now.call = "start" /\ job.op = "install firewalld")
                          \/ (Now.call = "enable" /\ job.op = "turn on" /\ FwdInCharge))
  BY <1>2 DEF Does
<1>8. beside' \in BOOLEAN /\ (beside => beside')
  BY <1>7, <1>3
<1>9. FwTypeOK'
  <2>1. /\ isController' \in BOOLEAN /\ serving' \in BOOLEAN /\ frontEnd' \in BOOLEAN
        /\ failures' \in 0..MaxFailures /\ job' \in JobForms
    BY <1>1, <1>2, Forms DEF Proceeds
  <2> QED
    BY <1>4, <1>5, <1>6, <1>8, <2>1 DEF FwTypeOK, FwdForms, UfwForms, RawForms, JobForms, CallForms
<1>10. Now.call \in {"enable", "unit on"} => ufw.inst
  BY <1>2, NowFits DEF FwInv, UfwTurning
<1>11. Installs'
  BY <1>1, <1>2, <1>4, <1>5, <1>10 DEF Installs, CanDo
<1>12. ASSUME Now.call = "start", FwdInCharge', UfwInCharge'
       PROVE  beside'
  <2>1. UfwInCharge
    BY <1>5, <1>12 DEF UfwInCharge
  <2>2. CASE job.op = "install firewalld"
    BY <1>7, <1>12, <2>2
  <2>3. CASE TurnsOn("firewalld") /\ job.todo \in FwdStart
    <3>1. FwdInCharge
      BY <1>2, <2>1, <2>3 DEF FwInv, FwdTurning
    <3> QED
      BY <1>1, <1>8, <2>1, <3>1 DEF OneFrontEnd
  <2> QED
    BY <1>2, <1>12, <2>2, <2>3, NowFits
<1>13. ASSUME Now.call = "enable", FwdInCharge', UfwInCharge'
       PROVE  beside'
  <2>1. FwdInCharge
    BY <1>4, <1>13 DEF FwdInCharge
  <2>2. TurnsOn("ufw") /\ job.op # "firewalld on"
    BY <1>1, <1>2, <1>13, NowFits DEF JobIs, TurnsOn
  <2>3. job.op # "ufw on"
    BY <1>2, <2>1, <2>2 DEF FwInv, UfwTurning
  <2>4. job.op = "turn on"
    BY <2>2, <2>3 DEF TurnsOn, Enables
  <2> QED
    BY <1>7, <1>13, <2>1, <2>4
<1>14. ASSUME Now.call \notin {"start", "enable"}, FwdInCharge', UfwInCharge'
       PROVE  beside'
  <2>1. FwdInCharge
    BY <1>4, <1>14 DEF FwdInCharge
  <2>2. Now.call = "unit on" => ufw.on /\ ufw.inst
    BY <1>2, NowFits DEF FwInv, UfwTurning
  <2>3. UfwInCharge
    BY <1>1, <1>5, <1>14, <2>2 DEF UfwInCharge, Installs
  <2> QED
    BY <1>1, <1>8, <2>1, <2>3 DEF OneFrontEnd
<1> QED
  BY <1>9, <1>11, <1>12, <1>13, <1>14 DEF OneFrontEnd

LEMMA FailureKeepsHost ==
    ASSUME FwInv, StepFails
    PROVE  FwTypeOK' /\ Installs' /\ OneFrontEnd'
<1>1. FwTypeOK /\ ScriptLeft /\ Installs /\ OneFrontEnd /\ JobIs
  BY DEF FwInv
<1>2. /\ Running
      /\ GivesUp \/ Proceeds
      /\ \/ fwd' = fwd
         \/ Now.call = "start" /\ fwd.inst /\ fwd' = [fwd EXCEPT !.boot = TRUE]
      /\ beside' = (beside \/ (fwd' # fwd /\ job.op = "install firewalld"))
      /\ UNCHANGED <<ufw, raw, isController, serving, frontEnd>>
      /\ failures' \in 0..MaxFailures
  BY <1>1, StepFailsForm
<1>3. job' \in JobForms
  BY <1>2, NothingIsRun DEF Proceeds
<1>4. fwd \in FwdForms /\ ufw \in UfwForms /\ beside \in BOOLEAN
  BY <1>1, Forms
<1>5. beside' \in BOOLEAN /\ (beside => beside')
  BY <1>2, <1>4
<1>6. fwd' \in FwdForms
  BY <1>2, <1>4 DEF FwdForms
<1>7. FwTypeOK'
  <2>1. /\ ufw' \in UfwForms /\ raw' \in RawForms /\ isController' \in BOOLEAN
        /\ serving' \in BOOLEAN /\ frontEnd' \in BOOLEAN
    BY <1>1, <1>2, Forms
  <2> QED
    BY <1>2, <1>3, <1>5, <1>6, <2>1 DEF FwTypeOK, FwdForms, UfwForms, RawForms, JobForms, CallForms
<1>8. CASE fwd' = fwd
  BY <1>1, <1>2, <1>5, <1>7, <1>8 DEF Installs, OneFrontEnd, FwdInCharge, UfwInCharge
<1>9. CASE fwd' # fwd
  <2>1. Now.call = "start" /\ fwd.inst /\ fwd'.boot /\ fwd'.inst
    BY <1>2, <1>4, <1>9 DEF FwdForms
  <2>2. Installs'
    BY <1>1, <1>2, <2>1 DEF Installs
  <2>3. CASE job.op = "install firewalld"
    BY <1>2, <1>7, <1>9, <2>2, <2>3 DEF OneFrontEnd
  <2>4. CASE TurnsOn("firewalld") /\ job.todo \in FwdStart
    <3>1. UfwInCharge => FwdInCharge
      BY <1>2, <2>4 DEF FwInv, FwdTurning
    <3>2. UfwInCharge' => UfwInCharge
      BY <1>2 DEF UfwInCharge
    <3> QED
      BY <1>1, <1>5, <1>7, <2>2, <3>1, <3>2 DEF OneFrontEnd
  <2> QED
    BY <1>2, <2>1, <2>3, <2>4, NowFits
<1> QED
  BY <1>8, <1>9


(* What is left of a script after its call.                                 *)
LEMMA ScriptGoesOn ==
    ASSUME FwInv, Running, Proceeds, isController' = isController
    PROVE  ScriptLeft' /\ JobIs'
<1>1. ScriptLeft /\ JobIs /\ FwTypeOK
  BY DEF FwInv
<1>2. /\ job'.op = job.op /\ job'.on = job.on /\ job'.before = job.before
      /\ job'.todo = Tail(job.todo)
  BY DEF Proceeds
<1>3. JobIs'
  BY <1>1, <1>2 DEF JobIs, KeepOpen
<1>4. CASE Len(job.todo) = 1
  BY <1>3, <1>4 DEF Proceeds, ScriptLeft, Running
<1>5. CASE Len(job.todo) # 1
  <2>1. job'.todo # << >>
    BY <1>1, <1>2, <1>5, NowIs
  <2>2. ASSUME TurnsOn("firewalld")
        PROVE  job'.todo \in FwdStart \cup FwdKeep \cup FwdReload \cup FwdDiag
    <3>1. job.todo \in FwdStart \cup FwdKeep \cup FwdReload \cup FwdDiag
      BY <1>1, <2>2 DEF ScriptLeft
    <3> QED
      BY <1>2, <1>5, <3>1, FwdCalls
  <2>3. ASSUME TurnsOn("ufw")
        PROVE  job'.todo \in {UfwAllow(job.op), UfwWayOut(job.op), UfwEnable(job.op), UfwUnit(job.op)}
    <3>1. job.todo \in {UfwAllow(job.op), UfwWayOut(job.op), UfwEnable(job.op), UfwUnit(job.op)}
      BY <1>1, <2>3 DEF ScriptLeft
    <3> QED
      BY <1>2, <1>5, <3>1, UfwCalls
  <2>4. ~TurnsOff("firewalld")
    BY <1>1, <1>5, OtherCalls DEF ScriptLeft
  <2>5. TurnsOff("ufw") => job'.todo \in {Disable, UnitOff}
    BY <1>1, <1>2, <1>5, OtherCalls DEF ScriptLeft
  <2>6. Saves => job'.todo \in {Write, Load}
    BY <1>1, <1>2, <1>5, OtherCalls DEF ScriptLeft
  <2>7. job.op \notin Enables =>
           \A i \in 1..Len(job'.todo) : job'.todo[i].call \in Plain(job.op)
    BY <1>1, <1>2, NowIs DEF ScriptLeft
  <2>8. ScriptLeft'
    BY <1>2, <2>1, <2>2, <2>3, <2>4, <2>5, <2>6, <2>7
       DEF ScriptLeft, TurnsOn, TurnsOff, Saves
  <2> QED
    BY <1>3, <2>8
<1> QED
  BY <1>4, <1>5

LEMMA NothingLeft ==
    ASSUME GivesUp
    PROVE  ScriptLeft' /\ JobIs' /\ FwdTurning' /\ UfwTurning' /\ Turned'
<1>1. job'.op = "none" /\ job'.end = "failed"
  BY NothingIsRun
<1>2. job'.op \notin Enables \cup {"ufw on", "firewalld on", "save nft", "save iptables",
                                  "turn off", "firewalld off", "ufw off"}
  BY <1>1 DEF Enables
<1> QED
  BY <1>1, <1>2 DEF ScriptLeft, JobIs, FwdTurning, UfwTurning, Turned, Running, TurnsOn, TurnsOff,
                    Saves

(* Turning on firewalld, which touches nothing of ufw.                      *)
LEMMA FwdStepTurns ==
    ASSUME FwInv, Step
    PROVE  FwdTurning'
<1> SUFFICES ASSUME TurnsOn("firewalld")'
             PROVE  FwdTurning'
  BY DEF FwdTurning
<1>1. FwTypeOK /\ ScriptLeft /\ JobIs /\ FwdTurning
  BY DEF FwInv
<1>2. /\ Running /\ Does(Now.call) /\ Proceeds /\ job'.quiet = job.quiet /\ Now.call \in Calls
      /\ isController' = isController
  BY <1>1, StepForm, NowIs
<1>3. /\ TurnsOn("firewalld") /\ job'.before = job.before /\ job'.reach = job.reach
      /\ job'.todo = Tail(job.todo)
  BY <1>2 DEF Proceeds, TurnsOn
<1>4. job.todo \in FwdStart \cup FwdKeep \cup FwdReload \cup FwdDiag
  BY <1>1, <1>2, <1>3 DEF ScriptLeft
<1>5. Now \in {Call("start"), Quiet("keep"), Quiet("reload"), Call("diag")}
  BY <1>4, FwdCalls DEF Now
<1>6. Now.call \in {"start", "keep", "reload", "diag"}
  BY <1>5, CallFields
<1>7. ufw' = ufw
  BY <1>2, <1>6 DEF Does
<1>8. /\ job'.before \subseteq UfwPasses'
      /\ job'.reach => ReachesOut'
  BY <1>1, <1>2, <1>3, <1>7 DEF FwdTurning, UfwPasses, ReachesOut
<1>9. /\ fwd'.run  <=> Now.call = "start" \/ (fwd.run /\ Now.call # "stop")
      /\ fwd'.boot <=> Now.call = "start" \/ (fwd.boot /\ Now.call # "stop")
      /\ Now.call \notin {"keep", "open", "shut"} => fwd'.perm = fwd.perm
      /\ Now.call = "keep" => fwd'.perm = fwd.perm \cup KeepOpen
      /\ Now.call \in {"keep", "diag"} => fwd'.live = fwd.live
      /\ Now.call = "reload" => fwd'.live = fwd.perm
  BY <1>1, <1>2, Forms, FwdAfter DEF JobForms
<1>10. fwd'.run /\ fwd'.boot
  <2>1. job.todo \in FwdStart => Now.call = "start"
    BY FwdCalls, CallFields DEF Now
  <2>2. job.todo \notin FwdStart => fwd.run /\ fwd.boot
    BY <1>1, <1>2, <1>3 DEF FwdTurning
  <2> QED
    BY <1>6, <1>9, <2>1, <2>2
<1>11. job.before \subseteq KeepOpen
  BY <1>1, <1>3 DEF JobIs, TurnsOn
<1>12. ASSUME job.todo \in FwdStart
       PROVE  FwdTurning'
  <2>1. job'.end = "running" /\ job'.todo \in FwdKeep
    BY <1>2, <1>3, <1>12, FwdCalls DEF Proceeds
  <2>2. job'.todo \notin FwdStart \cup FwdReload \cup FwdDiag
    <3>1. Head(job'.todo).call = "keep"
      BY <2>1, FwdCalls, CallFields
    <3> QED
      BY <3>1, FwdCalls, CallFields
  <2> QED
    BY <1>8, <1>10, <2>1, <2>2 DEF FwdTurning, Running
<1>13. ASSUME job.todo \in FwdKeep
       PROVE  FwdTurning'
  <2>1. job'.end = "running" /\ job'.todo \in FwdReload /\ Now.call = "keep"
    BY <1>2, <1>3, <1>13, FwdCalls, CallFields DEF Proceeds, Now
  <2>2. job'.todo \notin FwdStart \cup FwdDiag
    <3>1. Head(job'.todo).call = "reload"
      BY <2>1, FwdCalls, CallFields
    <3> QED
      BY <3>1, FwdCalls, CallFields
  <2>3. job'.before \subseteq fwd'.perm
    BY <1>3, <1>9, <1>11, <2>1
  <2> QED
    BY <1>8, <1>10, <2>1, <2>2, <2>3 DEF FwdTurning, Running
<1>14. ASSUME job.todo \in FwdReload
       PROVE  FwdTurning'
  <2>1. Now.call = "reload"
    BY <1>14, FwdCalls, CallFields DEF Now
  <2>2. ~job.quiet => job.before \subseteq fwd.perm
    BY <1>1, <1>2, <1>3, <1>14 DEF FwdTurning
  <2>3. ~job'.quiet => job'.before \subseteq fwd'.perm /\ job'.before \subseteq fwd'.live
    BY <1>2, <1>3, <1>9, <2>1, <2>2
  <2>4. job'.end = "ok" \/ (job'.end = "running" /\ job'.todo \in FwdDiag)
    BY <1>2, <1>3, <1>14, FwdCalls DEF Proceeds
  <2>5. job'.todo \in FwdDiag => job'.todo \notin FwdStart
    BY FwdCalls, CallFields
  <2> QED
    BY <1>8, <1>10, <2>3, <2>4, <2>5 DEF FwdTurning, Running
<1>15. ASSUME job.todo \in FwdDiag
       PROVE  FwdTurning'
  <2>1. Now.call = "diag" /\ job'.end = "ok"
    BY <1>2, <1>15, FwdCalls, CallFields DEF Now, Proceeds
  <2>2. ~job.quiet => job.before \subseteq fwd.live
    BY <1>1, <1>2, <1>3, <1>15 DEF FwdTurning
  <2>3. ~job'.quiet => job'.before \subseteq fwd'.live
    BY <1>2, <1>3, <1>9, <2>1, <2>2
  <2> QED
    BY <1>8, <1>10, <2>1, <2>3 DEF FwdTurning, Running
<1> QED
  BY <1>4, <1>12, <1>13, <1>14, <1>15

LEMMA FwdFailureTurns ==
    ASSUME FwInv, StepFails
    PROVE  FwdTurning'
<1>1. FwTypeOK /\ ScriptLeft /\ JobIs /\ FwdTurning
  BY DEF FwInv
<1>2. CASE GivesUp
  BY <1>2, NothingLeft
<1>3. CASE ~Now.gates /\ Proceeds /\ job'.quiet
  <2> SUFFICES ASSUME TurnsOn("firewalld")'
               PROVE  FwdTurning'
    BY DEF FwdTurning
  <2>1. /\ Running /\ UNCHANGED ufw
        /\ fwd' = fwd \/ Now.call = "start"
    BY <1>1, StepFailsForm
  <2>2. /\ TurnsOn("firewalld") /\ job'.before = job.before /\ job'.reach = job.reach
        /\ job'.todo = Tail(job.todo)
    BY <1>3 DEF Proceeds, TurnsOn
  <2>3. job.todo \in FwdStart \cup FwdKeep \cup FwdReload \cup FwdDiag
    BY <1>1, <2>1, <2>2 DEF ScriptLeft
  <2>4. job.todo \in FwdKeep \cup FwdReload
    BY <1>3, <2>3, FwdCalls, CallFields DEF Now
  <2>5. Now.call # "start"
    BY <2>4, FwdCalls, CallFields DEF Now
  <2>6. fwd' = fwd /\ fwd.run /\ fwd.boot
    <3>1. job.todo \notin FwdStart
      BY <2>5, FwdCalls, CallFields DEF Now
    <3> QED
      BY <1>1, <2>1, <2>2, <2>5, <3>1 DEF FwdTurning
  <2>7. /\ job'.before \subseteq UfwPasses'
        /\ job'.reach => ReachesOut'
    BY <1>1, <2>1, <2>2 DEF FwdTurning, UfwPasses, ReachesOut
  <2>8. job'.end = "running" => job'.todo \notin FwdStart
    <3>1. job'.end = "running" => job'.todo \in FwdReload \cup FwdDiag
      BY <1>3, <2>2, <2>4, FwdCalls DEF Proceeds
    <3> QED
      BY <3>1, FwdCalls, CallFields
  <2> QED
    BY <1>3, <2>6, <2>7, <2>8 DEF FwdTurning, Running
<1> QED
  BY <1>1, <1>2, <1>3, StepFailsForm


(* Turning on ufw, which touches nothing of firewalld.                      *)
LEMMA UfwScript ==
    ASSUME FwInv, Running, TurnsOn("ufw")
    PROVE  /\ job.todo \in {UfwAllow(job.op), UfwWayOut(job.op), UfwEnable(job.op), UfwUnit(job.op)}
           /\ job.todo = UfwAllow(job.op) <=> Now.call = "allow"
           /\ job.todo = UfwWayOut(job.op) <=> Now.call = "way out"
           /\ job.todo = UfwEnable(job.op) <=> Now.call = "enable"
           /\ job.todo = UfwUnit(job.op) <=> Now.call = "unit on"
           /\ job.op # "firewalld on"
<1>1. job.todo \in {UfwAllow(job.op), UfwWayOut(job.op), UfwEnable(job.op), UfwUnit(job.op)}
  BY DEF FwInv, ScriptLeft
<1>2. /\ job.todo = UfwAllow(job.op) => Now.call = "allow"
      /\ job.todo = UfwWayOut(job.op) => Now.call = "way out"
      /\ job.todo = UfwEnable(job.op) => Now.call = "enable"
      /\ job.todo = UfwUnit(job.op) => Now.call = "unit on"
  BY UfwCallFields DEF Now
<1>3. job.op # "firewalld on"
  BY DEF FwInv, JobIs, TurnsOn
<1> QED
  BY <1>1, <1>2, <1>3

(* Where the script goes from each call.                                    *)
LEMMA UfwProceeds ==
    ASSUME FwInv, Running, TurnsOn("ufw"), Proceeds
    PROVE  /\ Now.call = "allow" => job'.end = "running" /\ job'.todo = UfwWayOut(job.op)
           /\ Now.call = "way out" => job'.end = "running" /\ job'.todo = UfwEnable(job.op)
           /\ Now.call = "enable" => job'.end = "running" /\ job'.todo = UfwUnit(job.op)
           /\ Now.call = "unit on" => job'.end = "ok"
           /\ UfwWayOut(job.op) \notin {UfwAllow(job.op), UfwEnable(job.op), UfwUnit(job.op)}
           /\ UfwEnable(job.op) \notin {UfwAllow(job.op), UfwUnit(job.op)}
           /\ UfwUnit(job.op) # UfwAllow(job.op)
  BY ZenonT(30), UfwScript, UfwCalls, UfwCallFields DEF Proceeds

LEMMA UfwStepTurns ==
    ASSUME FwInv, Step
    PROVE  UfwTurning'
<1> SUFFICES ASSUME TurnsOn("ufw")'
             PROVE  UfwTurning'
  BY DEF UfwTurning
<1>1. FwTypeOK /\ ScriptLeft /\ JobIs /\ UfwTurning
  BY DEF FwInv
<1>2. /\ Running /\ Does(Now.call) /\ Proceeds /\ job'.quiet = job.quiet /\ Now.call \in Calls
      /\ isController' = isController
  BY <1>1, StepForm, NowIs
<1>3. /\ TurnsOn("ufw") /\ job'.before = job.before /\ job'.reach = job.reach
      /\ job'.op = job.op /\ job'.todo = Tail(job.todo)
  BY <1>2 DEF Proceeds, TurnsOn
<1>4. Now.call \in {"allow", "way out", "enable", "unit on"}
  BY <1>2, <1>3, UfwScript
<1>5. fwd' = fwd /\ (FwdInCharge' <=> FwdInCharge)
  BY <1>2, <1>4 DEF Does, FwdInCharge
<1>6. /\ ufw'.inst <=> ufw.inst
      /\ ufw'.boot <=> Now.call = "unit on" \/ ufw.boot
      /\ ufw'.on   <=> Now.call = "enable" \/ ufw.on
      /\ ufw'.conf <=> Now.call = "enable" \/ ufw.conf
      /\ Now.call = "allow" => ufw'.allow = ufw.allow \cup KeepOpen
      /\ Now.call # "allow" => ufw'.allow = ufw.allow
      /\ ufw'.deniesIn <=> ufw.deniesIn
      /\ ufw'.deniesOut <=> ufw.deniesOut
      /\ ufw'.wayOut <=> ufw.wayOut \/ Now.call = "way out"
  BY <1>1, <1>2, <1>4, Forms, UfwAfter DEF JobForms
<1>7. /\ ufw.inst /\ (job.op = "ufw on" => ~FwdInCharge)
      /\ ~job.quiet => ~Cut
      /\ ~job.quiet /\ job.todo # UfwAllow(job.op) => KeepOpen \subseteq ufw.allow
      /\ ~job.quiet /\ job.todo \in {UfwEnable(job.op), UfwUnit(job.op)} => ufw.wayOut
      /\ job.todo = UfwUnit(job.op) => ufw.on /\ ufw.conf
  BY <1>1, <1>2, <1>3 DEF UfwTurning
<1>8. job.before \subseteq KeepOpen /\ KeepOpen' = KeepOpen
  BY <1>1, <1>2, <1>3 DEF JobIs, TurnsOn, KeepOpen
<1>9. ufw.allow \subseteq ufw'.allow
  BY <1>6
<1>10. ASSUME ~job.quiet
       PROVE  ~Cut'
  <2>1. /\ job.before \subseteq {p \in Ports : Passes(p)}
        /\ job.reach => ReachesOut
    BY <1>7, <1>10 DEF Cut
  <2>2. ASSUME NEW p \in Ports, p \in job.before
        PROVE  Passes(p)'
    <3>1. Passes(p)
      BY <2>1, <2>2
    <3>2. CASE Now.call = "enable"
      <4>1. p \in ufw.allow
        <5>1. job.todo # UfwAllow(job.op)
          BY <1>2, <1>3, <3>2, UfwScript
        <5> QED
          BY <1>7, <1>8, <1>10, <2>2, <5>1
      <4> QED
        BY <1>5, <1>9, <3>1, <4>1 DEF Passes
    <3>3. CASE Now.call # "enable"
      BY <1>5, <1>6, <1>9, <3>1, <3>3 DEF Passes
    <3> QED
      BY <3>2, <3>3
  <2>3. ASSUME job.reach
        PROVE  ReachesOut'
    <3>1. Now.call = "enable" => ufw.wayOut
      BY <1>2, <1>3, <1>7, <1>10, UfwScript
    <3> QED
      BY <1>6, <2>1, <2>3, <3>1 DEF ReachesOut
  <2>4. job'.before \subseteq {p \in Ports : Passes(p)'}
    BY <1>3, <2>1, <2>2
  <2> QED
    BY <1>3, <2>3, <2>4 DEF Cut
<1>11. /\ Now.call = "allow" => job'.end = "running" /\ job'.todo = UfwWayOut(job.op)
       /\ Now.call = "way out" => job'.end = "running" /\ job'.todo = UfwEnable(job.op)
       /\ Now.call = "enable" => job'.end = "running" /\ job'.todo = UfwUnit(job.op)
       /\ Now.call = "unit on" => job'.end = "ok"
       /\ UfwWayOut(job.op) \notin {UfwAllow(job.op), UfwEnable(job.op), UfwUnit(job.op)}
       /\ UfwEnable(job.op) \notin {UfwAllow(job.op), UfwUnit(job.op)}
       /\ UfwUnit(job.op) # UfwAllow(job.op)
  BY <1>2, <1>3, UfwProceeds
<1>12. ~job'.quiet => KeepOpen' \subseteq ufw'.allow
  <2>1. Now.call # "allow" => job.todo # UfwAllow(job.op)
    BY <1>2, <1>3, UfwScript
  <2> QED
    BY <1>2, <1>6, <1>7, <1>8, <2>1
<1>13. ~job'.quiet /\ Now.call # "allow" => ufw'.wayOut
  <2>1. Now.call \in {"enable", "unit on"} => job.todo \in {UfwEnable(job.op), UfwUnit(job.op)}
    BY <1>2, <1>3, UfwScript
  <2> QED
    BY <1>2, <1>4, <1>6, <1>7, <2>1
<1>14. Now.call \in {"enable", "unit on"} => ufw'.on /\ ufw'.conf
  <2>1. Now.call = "unit on" => job.todo = UfwUnit(job.op)
    BY <1>2, <1>3, UfwScript
  <2> QED
    BY <1>6, <1>7, <2>1
<1>15. Now.call = "unit on" => ufw'.boot
  BY <1>6
<1>16. /\ job'.end = "running" /\ ~job'.quiet /\ job'.todo \in {UfwEnable(job.op), UfwUnit(job.op)}
              => ufw'.wayOut
       /\ job'.end = "running" /\ job'.todo = UfwUnit(job.op) => ufw'.on /\ ufw'.conf
       /\ job'.end = "ok" => ufw'.on /\ ufw'.conf /\ ufw'.boot
  <2>1. CASE Now.call = "allow"
    BY <1>11, <2>1
  <2>2. CASE Now.call = "way out"
    BY <1>11, <1>13, <2>2
  <2>3. CASE Now.call = "enable"
    BY <1>11, <1>13, <1>14, <2>3
  <2>4. CASE Now.call = "unit on"
    BY <1>11, <1>14, <1>15, <2>4
  <2> QED
    BY <1>4, <2>1, <2>2, <2>3, <2>4
<1> QED
  BY <1>2, <1>3, <1>5, <1>6, <1>7, <1>10, <1>12, <1>16 DEF UfwTurning, Running

LEMMA UfwFailureTurns ==
    ASSUME FwInv, StepFails
    PROVE  UfwTurning'
<1>1. FwTypeOK /\ ScriptLeft /\ JobIs /\ UfwTurning
  BY DEF FwInv
<1>2. CASE GivesUp
  BY <1>2, NothingLeft
<1>3. CASE ~Now.gates /\ Proceeds /\ job'.quiet
  <2> SUFFICES ASSUME TurnsOn("ufw")'
               PROVE  UfwTurning'
    BY DEF UfwTurning
  <2>1. /\ Running /\ UNCHANGED ufw
        /\ fwd' = fwd \/ Now.call = "start"
    BY <1>1, StepFailsForm
  <2>2. TurnsOn("ufw") /\ job'.op = job.op
    BY <1>3 DEF Proceeds, TurnsOn
  <2>3. Now.call \in {"allow", "way out", "enable", "unit on"}
    BY <2>1, <2>2, UfwScript
  <2>4. Now.call # "enable"
    BY <1>3, <2>1, <2>2, UfwScript, UfwCallFields DEF Now
  <2>5. fwd' = fwd /\ (FwdInCharge' <=> FwdInCharge)
    BY <2>1, <2>3 DEF FwdInCharge
  <2>6. ufw.inst /\ (job.op = "ufw on" => ~FwdInCharge)
    BY <1>1, <2>1, <2>2 DEF UfwTurning
  <2>7. Now.call = "unit on" => job.op # "ufw on"
    BY <1>3, <2>1, <2>2, UfwScript, UfwCallFields DEF Now
  <2>8. job'.end = "running" => job'.todo # UfwUnit(job.op)
    BY <1>3, <2>1, <2>2, <2>3, <2>4, UfwProceeds
  <2>9. job'.end = "ok" => job.op # "ufw on"
    <3>1. job'.end = "ok" => Now.call = "unit on"
      BY <1>3, <2>1, <2>2, <2>3, <2>4, UfwProceeds
    <3> QED
      BY <2>7, <3>1
  <2> QED
    BY <1>3, <2>1, <2>2, <2>5, <2>6, <2>8, <2>9 DEF UfwTurning, Running
<1> QED
  BY <1>1, <1>2, <1>3, StepFailsForm

(* Turning off, and saving raw rules.                                       *)
LEMMA StepTurns ==
    ASSUME FwInv, Step
    PROVE  Turned'
<1>1. FwTypeOK /\ ScriptLeft /\ JobIs /\ Turned
  BY DEF FwInv
<1>2. /\ Running /\ Does(Now.call) /\ Proceeds /\ Now.call \in Calls
  BY <1>1, StepForm, NowIs
<1>3. /\ job'.op = job.op /\ job'.on = job.on /\ job'.todo = Tail(job.todo)
      /\ Len(job.todo) # 1 => job'.end = "running"
  BY <1>2 DEF Proceeds
<1>4. ASSUME TurnsOff("firewalld")
      PROVE  ~FwdInCharge'
  <2>1. Now.call = "stop"
    BY <1>1, <1>2, <1>4, OtherCallFields DEF ScriptLeft, Now
  <2> QED
    BY <1>1, <1>2, <2>1, Forms, FwdAfter DEF JobForms, FwdInCharge
<1>5. ASSUME TurnsOff("ufw")
      PROVE  ~ufw'.on /\ ~ufw'.conf
  <2>1. job.todo = Disable \/ job.todo = UnitOff
    BY <1>1, <1>2, <1>5 DEF ScriptLeft
  <2>2. Now.call = "disable" \/ (Now.call = "unit off" /\ ~ufw.on /\ ~ufw.conf)
    BY <1>1, <1>2, <1>5, <2>1, OtherCallFields DEF Now, Turned
  <2> QED
    BY <1>1, <1>2, <2>2, Forms, UfwAfter DEF JobForms
<1>6. ASSUME Saves
      PROVE  /\ job'.end = "running" => raw'.file = raw'.live
             /\ job'.end = "ok" => raw'.boot /\ raw'.file = raw'.live
  <2>1. job.todo = Write \/ job.todo = Load
    BY <1>1, <1>2, <1>6 DEF ScriptLeft
  <2>2. CASE job.todo = Write
    <3>1. Now.call = "write" /\ job'.end = "running"
      BY <1>3, <2>2, OtherCalls, OtherCallFields DEF Now
    <3> QED
      BY <1>1, <1>2, <3>1, Forms, RawAfter
  <2>3. CASE job.todo = Load
    <3>1. Now.call = "load" /\ raw.file = raw.live
      BY <1>1, <1>2, <1>6, <2>3, OtherCallFields DEF Now, Turned
    <3> QED
      BY <1>1, <1>2, <3>1, Forms, RawAfter
  <2> QED
    BY <2>1, <2>2, <2>3
<1> QED
  BY <1>3, <1>4, <1>5, <1>6 DEF Turned, TurnsOff, Saves, Running

LEMMA FailureTurns ==
    ASSUME FwInv, StepFails
    PROVE  Turned'
<1>1. FwTypeOK /\ ScriptLeft /\ JobIs /\ Turned
  BY DEF FwInv
<1>2. CASE GivesUp
  BY <1>2, NothingLeft
<1>3. CASE ~Now.gates /\ Proceeds
  <2>1. /\ Running /\ UNCHANGED <<ufw, raw>>
        /\ job'.op = job.op /\ job'.on = job.on /\ job'.todo = Tail(job.todo)
    BY <1>1, <1>3, StepFailsForm DEF Proceeds
  <2>2. ~TurnsOff("firewalld") /\ ~Saves
    <3>1. job.todo \notin {<<Call("stop")>>, Write, Load}
      BY <1>3, OtherCallFields DEF Now
    <3> QED
      BY <1>1, <2>1, <3>1 DEF ScriptLeft
  <2>3. TurnsOff("ufw") => ~ufw.on /\ ~ufw.conf
    <3>1. job.todo # Disable
      BY <1>3, OtherCallFields DEF Now
    <3>2. TurnsOff("ufw") => job.todo = UnitOff
      BY <1>1, <2>1, <3>1 DEF ScriptLeft
    <3> QED
      BY <1>1, <2>1, <3>2 DEF Turned
  <2> QED
    BY <2>1, <2>2, <2>3 DEF Turned, TurnsOff, Saves
<1> QED
  BY <1>1, <1>2, <1>3, StepFailsForm


(* The scripts as they are sent.                                            *)
LEMMA Listed1 ==
    ASSUME NEW S, NEW a \in CallForms, a.call \in S
    PROVE  /\ <<a>> \in Seq(CallForms) /\ <<a>> # << >>
           /\ \A i \in 1..Len(<<a>>) : <<a>>[i].call \in S
  OBVIOUS

LEMMA Listed2 ==
    ASSUME NEW S, NEW a \in CallForms, NEW b \in CallForms, a.call \in S, b.call \in S
    PROVE  /\ <<a, b>> \in Seq(CallForms) /\ <<a, b>> # << >>
           /\ \A i \in 1..Len(<<a, b>>) : <<a, b>>[i].call \in S
  OBVIOUS

LEMMA Listed3 ==
    ASSUME NEW S, NEW a \in CallForms, NEW b \in CallForms, NEW c \in CallForms,
           a.call \in S, b.call \in S, c.call \in S
    PROVE  /\ <<a, b, c>> \in Seq(CallForms) /\ <<a, b, c>> # << >>
           /\ \A i \in 1..Len(<<a, b, c>>) : <<a, b, c>>[i].call \in S
  OBVIOUS

LEMMA Listed4 ==
    ASSUME NEW a \in CallForms, NEW b \in CallForms, NEW c \in CallForms, NEW d \in CallForms
    PROVE  <<a, b, c, d>> \in Seq(CallForms) /\ <<a, b, c, d>> # << >>
  OBVIOUS

LEMMA Appended ==
    ASSUME NEW a, NEW b, NEW c, NEW d
    PROVE  Append(<<a, b, c>>, d) = <<a, b, c, d>>
<1> DEFINE S == {a, b, c, d} s == <<a, b, c>> t == <<a, b, c, d>>
<1>1. s \in Seq(S) /\ t \in Seq(S) /\ d \in S
  OBVIOUS
<1>2. Append(s, d) \in Seq(S) /\ Len(Append(s, d)) = 4
  BY <1>1
<1>3. \A i \in 1..4 : Append(s, d)[i] = t[i]
  <2>1. Append(s, d)[4] = d
    BY <1>1
  <2>2. Append(s, d)[1] = a /\ Append(s, d)[2] = b /\ Append(s, d)[3] = c
    BY <1>1
  <2>3. t[1] = a /\ t[2] = b /\ t[3] = c /\ t[4] = d /\ 1..4 = {1, 2, 3, 4}
    OBVIOUS
  <2> QED
    BY <2>1, <2>2, <2>3
<1>4. Len(t) = 4
  OBVIOUS
<1> DEFINE u == Append(s, d)
<1>5. u \in Seq(S) /\ t \in Seq(S) /\ Len(u) = Len(t) /\ \A i \in 1..Len(u) : u[i] = t[i]
  BY <1>1, <1>2, <1>3, <1>4
<1>6. u = t
  <2> HIDE DEF S, t, u
  <2> QED
    BY <1>5, SeqEqual
<1> QED
  BY <1>6

LEMMA Joined ==
    ASSUME NEW a, NEW b
    PROVE  <<a>> \o <<b>> = <<a, b>>
<1> DEFINE S == {a, b} s == <<a>> t == <<a, b>>
<1>1. s \in Seq(S) /\ t \in Seq(S) /\ <<b>> \in Seq(S)
  OBVIOUS
<1>2. s \o <<b>> \in Seq(S) /\ Len(s \o <<b>>) = 2
  BY <1>1
<1>3. \A i \in 1..2 : (s \o <<b>>)[i] = t[i]
  BY <1>1
<1>4. Len(t) = 2
  OBVIOUS
<1> DEFINE u == s \o <<b>>
<1>5. u \in Seq(S) /\ t \in Seq(S) /\ Len(u) = Len(t) /\ \A i \in 1..Len(u) : u[i] = t[i]
  BY <1>1, <1>2, <1>3, <1>4
<1>6. u = t
  <2> HIDE DEF S, t, u
  <2> QED
    BY <1>5, SeqEqual
<1> QED
  BY <1>6

LEMMA JoinedToNothing ==
    ASSUME NEW a
    PROVE  <<a>> \o << >> = <<a>>
  OBVIOUS

LEMMA CallsAreCalls ==
    ASSUME NEW c \in Calls
    PROVE  Call(c) \in CallForms /\ Quiet(c) \in CallForms
  BY DEF Call, Quiet, CallForms

(* Turning on.                                                              *)
LEMMA ScriptsOn ==
    ASSUME NEW permanent \in BOOLEAN
    PROVE  /\ Script("turn on", "firewalld", permanent) \in FwdStart
           /\ Script("firewalld on", "firewalld", permanent) \in FwdStart
           /\ Script("turn on", "ufw", permanent) = UfwAllow("turn on")
           /\ Script("ufw on", "ufw", permanent) = UfwAllow("ufw on")
<1>1. Script("turn on", "firewalld", permanent) = StartFwd
  BY DEF Script
<1>2. Script("firewalld on", "firewalld", permanent) = Append(StartFwd, Call("diag"))
  BY DEF Script
<1>3. Script("turn on", "ufw", permanent) = Append(StartUfw, Quiet("unit on"))
  BY DEF Script
<1>4. Script("ufw on", "ufw", permanent) = Append(StartUfw, Call("unit on"))
  BY DEF Script
<1>5. Append(StartFwd, Call("diag"))
        = <<Call("start"), Quiet("keep"), Quiet("reload"), Call("diag")>>
  BY Appended, Zenon DEF StartFwd
<1>6. Append(StartUfw, Quiet("unit on")) = UfwAllow("turn on")
  BY Appended, Zenon DEF StartUfw, UfwAllow, UnitOn
<1>7. Append(StartUfw, Call("unit on")) = UfwAllow("ufw on")
  BY Appended, Zenon DEF StartUfw, UfwAllow, UnitOn
<1> QED
  BY <1>1, <1>2, <1>3, <1>4, <1>5, <1>6, <1>7, Zenon DEF FwdStart

LEMMA StartsAreScripts ==
    /\ FwdStart \subseteq Seq(CallForms) \ {<< >>}
    /\ \A op : UfwAllow(op) \in Seq(CallForms) \ {<< >>}
<1>1. /\ Call("start") \in CallForms /\ Quiet("keep") \in CallForms
      /\ Quiet("reload") \in CallForms /\ Call("diag") \in CallForms
      /\ Quiet("allow") \in CallForms /\ Quiet("way out") \in CallForms
      /\ Call("enable") \in CallForms
      /\ \A op : UnitOn(op) \in CallForms
  BY CallsAreCalls DEF UnitOn, Calls
<1>2. StartFwd \in Seq(CallForms) \ {<< >>}
  <2>1. \A s, k, r \in CallForms : <<s, k, r>> \in Seq(CallForms) \ {<< >>}
    OBVIOUS
  <2> QED
    BY <1>1, <2>1 DEF StartFwd
<1>3. <<Call("start"), Quiet("keep"), Quiet("reload"), Call("diag")>>
        \in Seq(CallForms) \ {<< >>}
  BY <1>1, Listed4
<1>4. \A op : UfwAllow(op) \in Seq(CallForms) \ {<< >>}
  BY <1>1, Listed4 DEF UfwAllow
<1> QED
  BY <1>2, <1>3, <1>4 DEF FwdStart

(* The others.                                                              *)
LEMMA OtherScripts ==
    ASSUME NEW permanent \in BOOLEAN, NEW op \in Ops \ Enables, NEW b \in {"firewalld", "ufw", "none"},
           op \in {"allow", "close", "firewalld off", "ufw off"} => b # "none",
           op = "firewalld off" => b = "firewalld", op = "ufw off" => b = "ufw"
    PROVE  /\ Script(op, b, permanent) \in Seq(CallForms)
           /\ Script(op, b, permanent) # << >>
           /\ \A i \in 1..Len(Script(op, b, permanent)) :
                 Script(op, b, permanent)[i].call \in Plain(op)
           /\ op \in {"turn off", "firewalld off", "ufw off"} /\ b = "firewalld" =>
                 Script(op, b, permanent) = <<Call("stop")>>
           /\ op \in {"turn off", "firewalld off", "ufw off"} /\ b = "ufw" =>
                 Script(op, b, permanent) = Disable
           /\ op \in {"save nft", "save iptables"} => Script(op, b, permanent) = Write
<1> DEFINE s == Script(op, b, permanent)
           Fits(t) == t \in Seq(CallForms) /\ t # << >> /\ \A i \in 1..Len(t) : t[i].call \in Plain(op)
<1>1. \A c \in Calls : Call(c) \in CallForms /\ Call(c).call = c
                       /\ Quiet(c) \in CallForms /\ Quiet(c).call = c
  BY CallsAreCalls, CallFields
<1>2. ASSUME NEW c \in Plain(op)
      PROVE  Fits(<<Call(c)>>)
  <2>1. Call(c) \in CallForms /\ Call(c).call \in Plain(op)
    BY <1>1, <1>2 DEF Plain
  <2> QED
    BY <2>1, Listed1
<1>3. ASSUME NEW c \in Plain(op), NEW d \in Plain(op)
      PROVE  Fits(<<Call(c), Call(d)>>) /\ Fits(<<Call(c), Quiet(d)>>)
  <2>1. /\ Call(c) \in CallForms /\ Call(c).call \in Plain(op)
        /\ Call(d) \in CallForms /\ Call(d).call \in Plain(op)
        /\ Quiet(d) \in CallForms /\ Quiet(d).call \in Plain(op)
    BY <1>1, <1>3 DEF Plain
  <2>2. Fits(<<Call(c), Call(d)>>)
    BY <2>1, Listed2
  <2>3. Fits(<<Call(c), Quiet(d)>>)
    BY <2>1, Listed2
  <2> QED
    BY <2>2, <2>3
<1>4. Calls \ {"start", "enable", "unit on"} \subseteq Plain(op)
  BY DEF Plain
<1>5. CASE op \in {"turn off", "firewalld off", "ufw off"} /\ b = "firewalld"
  <2>1. s = <<Call("stop")>>
    BY <1>5 DEF Script
  <2> QED
    BY <1>2, <1>4, <1>5, <2>1 DEF Calls
<1>6. CASE op \in {"turn off", "firewalld off", "ufw off"} /\ b = "ufw"
  <2>1. s = Disable
    BY <1>6 DEF Script, Disable
  <2> QED
    BY <1>3, <1>4, <1>6, <2>1 DEF Calls, Disable
<1>7. CASE op \in {"turn off", "firewalld off", "ufw off"} /\ b = "none"
  <2>1. s = <<Call("nothing")>>
    BY <1>7 DEF Script
  <2> QED
    BY <1>2, <1>4, <1>7, <2>1 DEF Calls
<1>8. CASE op \in {"save nft", "save iptables"}
  <2>1. s = Write
    BY <1>8 DEF Script, Write
  <2> QED
    BY <1>3, <1>4, <1>8, <2>1 DEF Calls, Write
<1>9. CASE op \in {"allow", "close"} /\ b = "firewalld"
  <2>1. PICK c \in {"open", "shut"} :
           s = <<Call(c)>> \o (IF permanent THEN <<Call("reload")>> ELSE << >>)
    BY <1>9 DEF Script
  <2>2. s = <<Call(c), Call("reload")>> \/ s = <<Call(c)>>
    BY <2>1, Joined, JoinedToNothing
  <2>3. c \in Plain(op) /\ "reload" \in Plain(op)
    BY <1>4 DEF Calls
  <2> QED
    BY <1>2, <1>3, <1>9, <2>2, <2>3
<1>10. CASE op \in {"allow", "close"} /\ b = "ufw"
  <2>1. PICK c \in {"open ufw", "shut ufw"} : s = <<Call(c)>>
    BY <1>10 DEF Script
  <2> QED
    BY <1>2, <1>4, <1>10, <2>1 DEF Calls
<1>11. CASE op = "install firewalld"
  <2>1. s = <<Call("package"), Quiet("start"), Call("diag")>>
    BY <1>11 DEF Script
  <2>2. {"package", "start", "diag"} \subseteq Plain(op)
    BY <1>11 DEF Plain, Calls
  <2>3. /\ Call("package") \in CallForms /\ Quiet("start") \in CallForms /\ Call("diag") \in CallForms
        /\ Call("package").call \in Plain(op) /\ Quiet("start").call \in Plain(op)
        /\ Call("diag").call \in Plain(op)
    BY <1>1, <2>2 DEF Calls
  <2>4. Fits(<<Call("package"), Quiet("start"), Call("diag")>>)
    BY <2>3, Listed3
  <2> QED
    BY <1>11, <2>1, <2>4
<1>12. CASE op \in {"install ufw", "ufw reset", "deny out", "deny in", "reload", "add raw", "flush raw"}
  <2>1. PICK c \in {"ufw package", "reset", "deny out", "deny in", "reload", "add", "flush"} :
           s = <<Call(c)>>
    BY <1>12 DEF Script
  <2> QED
    BY <1>2, <1>4, <1>12, <2>1 DEF Calls
<1>13. op \in {"turn off", "firewalld off", "ufw off", "save nft", "save iptables", "allow", "close",
               "install firewalld", "install ufw", "ufw reset", "deny out", "deny in", "reload",
               "add raw", "flush raw"}
  BY DEF Ops, Enables, RawOps
<1> QED
  BY <1>5, <1>6, <1>7, <1>8, <1>9, <1>10, <1>11, <1>12, <1>13


(* The backend a command is for.                                            *)
LEMMA PickIs ==
    ASSUME FwTypeOK
    PROVE  /\ Pick \in {"firewalld", "ufw", "none"}
           /\ Pick = "firewalld" => FwdInCharge \/ ~UfwInCharge
           /\ Pick = "ufw" /\ Installs => ufw.inst
<1>1. CASE FwLive("firewalld")
  BY <1>1 DEF Pick, FwLive, FwdInCharge
<1>2. CASE ~FwLive("firewalld") /\ FwLive("ufw")
  BY <1>2 DEF Pick, FwLive
<1>3. CASE ~FwLive("firewalld") /\ ~FwLive("ufw")
  <2>1. Pick = IF fwd.boot THEN "firewalld" ELSE IF ufw.boot THEN "ufw"
               ELSE IF fwd.inst THEN "firewalld" ELSE IF ufw.inst THEN "ufw" ELSE "none"
    BY <1>3 DEF Pick
  <2>2. ufw.inst => ~ufw.on
    BY <1>3 DEF FwLive
  <2> QED
    BY <2>1, <2>2 DEF FwdInCharge, UfwInCharge, Installs
<1> QED
  BY <1>1, <1>2, <1>3

LEMMA TargetsAre ==
    ASSUME FwTypeOK, Installs, NEW op \in Ops, NEW b \in Targets(op), ~Refuses(op, b)
    PROVE  /\ b \in {"firewalld", "ufw", "none"}
           /\ op \in {"turn on", "allow", "close", "firewalld on", "ufw on", "firewalld off", "ufw off"}
                 => b # "none"
           /\ op \in {"firewalld on", "firewalld off"} => b = "firewalld"
           /\ op \in {"ufw on", "ufw off"} => b = "ufw"
           /\ op \in Enables /\ b = "firewalld" => FwdInCharge \/ ~UfwInCharge
           /\ op \in Enables /\ b = "ufw" => ufw.inst
           /\ op = "ufw on" => ~FwdInCharge
<1>1. CASE op = "turn on"
  <2>1. b = Pick /\ b # "none"
    BY <1>1 DEF Targets, Refuses
  <2> QED
    BY <1>1, <2>1, PickIs
<1>2. CASE op = "turn off"
  <2>1. b = Pick
    BY <1>2 DEF Targets
  <2> QED
    BY <1>2, <2>1, PickIs DEF Enables
<1>3. CASE op \in {"allow", "close"}
  <2>1. b \in {Pick, "firewalld", "ufw"} /\ b # "none"
    BY <1>3 DEF Targets, Refuses
  <2> QED
    BY <1>3, <2>1, PickIs DEF Enables
<1>4. CASE op \in {"ufw on", "ufw off", "install ufw", "ufw reset", "deny out", "deny in"}
  <2>1. b = "ufw" /\ (op = "ufw on" => ufw.inst /\ ~FwdInCharge)
    BY <1>4 DEF Targets, Refuses
  <2> QED
    BY <1>4, <2>1 DEF Enables
<1>5. CASE op \in {"firewalld on", "firewalld off", "install firewalld", "reload"}
  <2>1. b = "firewalld" /\ (op = "firewalld on" => ~UfwInCharge)
    BY <1>5 DEF Targets, Refuses
  <2> QED
    BY <1>5, <2>1 DEF Enables
<1>6. CASE op \in RawOps
  <2>1. b = "none"
    BY <1>6 DEF Targets, RawOps
  <2> QED
    BY <1>6, <2>1 DEF Enables, RawOps
<1> QED
  BY <1>1, <1>2, <1>3, <1>4, <1>5, <1>6 DEF Ops, Enables

(* A script that is sent finds the host as its turning needs it.            *)
LEMMA Sent ==
    ASSUME FwInv, NEW op \in Ops, NEW port \in Ports, NEW permanent \in BOOLEAN,
           NEW b \in Targets(op), ~Refuses(op, b),
           UNCHANGED <<fwd, ufw, raw, isController, serving, frontEnd, beside, failures>>,
           job' = [op |-> op, on |-> b, todo |-> Script(op, b, permanent),
                   port |-> port, end |-> "running", quiet |-> FALSE,
                   before |-> {p \in Managed : Passes(p)}, reach |-> ReachesOut]
    PROVE  FwInv'
<1>1. FwTypeOK /\ Installs /\ OneFrontEnd
  BY DEF FwInv
<1>2. /\ b \in {"firewalld", "ufw", "none"}
      /\ op \in {"turn on", "allow", "close", "firewalld on", "ufw on", "firewalld off", "ufw off"}
            => b # "none"
      /\ op \in {"firewalld on", "firewalld off"} => b = "firewalld"
      /\ op \in {"ufw on", "ufw off"} => b = "ufw"
      /\ op \in Enables /\ b = "firewalld" => FwdInCharge \/ ~UfwInCharge
      /\ op \in Enables /\ b = "ufw" => ufw.inst
      /\ op = "ufw on" => ~FwdInCharge
  BY <1>1, TargetsAre
<1> DEFINE s == Script(op, b, permanent)
<1>3. ASSUME op \in Enables
      PROVE  /\ b = "firewalld" => s \in FwdStart
             /\ b = "ufw" => s = UfwAllow(op)
             /\ b # "none" /\ s \in Seq(CallForms) /\ s # << >>
  <2>1. b # "none" /\ op \in {"turn on", "firewalld on", "ufw on"}
    BY <1>2, <1>3 DEF Enables
  <2>2. b = "firewalld" => s \in FwdStart
    BY <1>2, <2>1, ScriptsOn
  <2>3. b = "ufw" => s = UfwAllow(op)
    BY <1>2, <2>1, ScriptsOn
  <2> QED
    BY <1>2, <2>1, <2>2, <2>3, StartsAreScripts
<1>4. ASSUME op \notin Enables
      PROVE  /\ s \in Seq(CallForms) /\ s # << >>
             /\ \A i \in 1..Len(s) : s[i].call \in Plain(op)
             /\ op \in {"turn off", "firewalld off", "ufw off"} /\ b = "firewalld" =>
                   s = <<Call("stop")>>
             /\ op \in {"turn off", "firewalld off", "ufw off"} /\ b = "ufw" => s = Disable
             /\ op \in {"save nft", "save iptables"} => s = Write
  BY <1>2, <1>4, OtherScripts
<1>5. /\ job'.op = op /\ job'.on = b /\ job'.todo = s /\ job'.end = "running" /\ ~job'.quiet
      /\ job'.before = {p \in Managed : Passes(p)} /\ job'.reach = ReachesOut
  OBVIOUS
<1>6. {p \in Managed : Passes(p)} \subseteq Ports /\ {p \in Managed : Passes(p)} \subseteq KeepOpen
  BY DEF Managed, KeepOpen, Ports
<1>7. ReachesOut \in BOOLEAN
  BY DEF ReachesOut
<1>8. job' \in JobForms
  <2>1. s \in Seq(CallForms)
    BY <1>3, <1>4
  <2>2. ASSUME NEW t \in Seq(CallForms), NEW before \in SUBSET Ports, NEW reach \in BOOLEAN
        PROVE  [op |-> op, on |-> b, todo |-> t, port |-> port, end |-> "running",
                quiet |-> FALSE, before |-> before, reach |-> reach] \in JobForms
    BY <1>2 DEF JobForms
  <2> QED
    BY <1>6, <1>7, <2>1, <2>2, Zenon
<1>9. FwTypeOK' /\ Installs' /\ OneFrontEnd'
  <2>1. /\ fwd' \in FwdForms /\ ufw' \in UfwForms /\ raw' \in RawForms /\ job' \in JobForms
        /\ isController' \in BOOLEAN /\ serving' \in BOOLEAN /\ frontEnd' \in BOOLEAN
        /\ beside' \in BOOLEAN /\ failures' \in 0..MaxFailures
    BY <1>1, <1>8, Forms
  <2>2. FwTypeOK'
    BY <2>1 DEF FwTypeOK, FwdForms, UfwForms, RawForms, JobForms, CallForms
  <2> QED
    BY <1>1, <2>2 DEF Installs, OneFrontEnd, FwdInCharge, UfwInCharge
<1>10. JobIs'
  <2>1. KeepOpen' = KeepOpen
    BY DEF KeepOpen
  <2> QED
    BY <1>2, <1>3, <1>5, <1>6, <2>1 DEF JobIs
<1>11. ScriptLeft'
  <2>1. ~(op \in Enables /\ op \in {"turn off", "firewalld off", "ufw off", "save nft", "save iptables"})
    BY DEF Enables
  <2> QED
    BY <1>3, <1>4, <1>5, <2>1 DEF ScriptLeft, TurnsOn, TurnsOff, Saves, Running
<1>12. /\ (\A p : Passes(p)' <=> Passes(p)) /\ (ReachesOut' <=> ReachesOut)
       /\ (FwdInCharge' <=> FwdInCharge) /\ (UfwInCharge' <=> UfwInCharge)
  BY DEF Passes, ReachesOut, FwdInCharge, UfwInCharge
<1>13. FwdTurning'
  <2> SUFFICES ASSUME TurnsOn("firewalld")'
               PROVE  FwdTurning'
    BY DEF FwdTurning
  <2>1. s \in FwdStart /\ (UfwInCharge => FwdInCharge)
    BY <1>2, <1>3, <1>5 DEF TurnsOn
  <2>2. s \notin FwdReload \cup FwdDiag
    BY <2>1, FwdCalls, CallFields
  <2>3. job'.before \subseteq UfwPasses'
    BY <1>5, <1>6 DEF UfwPasses, Passes
  <2> QED
    BY <1>5, <1>12, <2>1, <2>2, <2>3 DEF FwdTurning, Running
<1>14. UfwTurning'
  <2> SUFFICES ASSUME TurnsOn("ufw")'
               PROVE  UfwTurning'
    BY DEF UfwTurning
  <2>1. s = UfwAllow(op) /\ ufw.inst /\ (op = "ufw on" => ~FwdInCharge)
    BY <1>2, <1>3, <1>5 DEF TurnsOn
  <2>2. UfwAllow(op) \notin {UfwEnable(op), UfwUnit(op)}
    BY UfwCallFields
  <2>3. ~Cut'
    <3>1. job'.before \subseteq {p \in Ports : Passes(p)'}
      BY <1>5, <1>6, <1>12
    <3> QED
      BY <1>5, <1>12, <3>1 DEF Cut
  <2> QED
    BY <1>5, <1>12, <2>1, <2>2, <2>3 DEF UfwTurning, Running
<1>15. Turned'
  <2>1. Disable # UnitOff /\ Write # Load
    BY OtherCallFields
  <2>2. ~(op \in Enables /\ op \in {"turn off", "firewalld off", "ufw off", "save nft", "save iptables"})
    BY DEF Enables
  <2> QED
    BY <1>4, <1>5, <2>1, <2>2 DEF Turned, TurnsOff, Saves, Running
<1> QED
  BY <1>9, <1>10, <1>11, <1>13, <1>14, <1>15 DEF FwInv

LEMMA CommandKeeps ==
    ASSUME FwInv, NEW op \in Ops, NEW port \in Ports, NEW permanent \in BOOLEAN,
           Command(op, port, permanent)
    PROVE  FwInv'
<1>1. UNCHANGED <<fwd, ufw, raw, isController, serving, frontEnd, beside, failures>>
  BY DEF Command
<1>2. PICK b \in Targets(op) :
         job' = IF Refuses(op, b) THEN NoJob
                ELSE [op |-> op, on |-> b, todo |-> Script(op, b, permanent),
                      port |-> port, end |-> "running", quiet |-> FALSE,
                      before |-> {p \in Managed : Passes(p)}, reach |-> ReachesOut]
  BY DEF Command
<1>3. CASE Refuses(op, b)
  <2>1. GivesUp
    BY <1>2, <1>3 DEF GivesUp
  <2>2. FwTypeOK'
    <3>1. /\ fwd' \in FwdForms /\ ufw' \in UfwForms /\ raw' \in RawForms /\ job' \in JobForms
          /\ isController' \in BOOLEAN /\ serving' \in BOOLEAN /\ frontEnd' \in BOOLEAN
          /\ beside' \in BOOLEAN /\ failures' \in 0..MaxFailures
      BY <1>1, <2>1, Forms, NothingIsRun DEF FwInv
    <3> QED
      BY <3>1 DEF FwTypeOK, FwdForms, UfwForms, RawForms, JobForms, CallForms
  <2>3. Installs' /\ OneFrontEnd'
    BY <1>1 DEF FwInv, Installs, OneFrontEnd, FwdInCharge, UfwInCharge
  <2> QED
    BY <2>1, <2>2, <2>3, NothingLeft DEF FwInv
<1>4. CASE ~Refuses(op, b)
  BY <1>1, <1>2, <1>4, Sent
<1> QED
  BY <1>3, <1>4

LEMMA RebootKeeps ==
    ASSUME FwInv, HostReboots
    PROVE  FwInv'
<1>1. /\ GivesUp /\ failures' \in 0..MaxFailures
      /\ UNCHANGED <<isController, serving, frontEnd, beside>>
      /\ fwd' = [fwd EXCEPT !.run = fwd.boot, !.live = IF fwd.boot THEN fwd.perm ELSE {}]
      /\ ufw' = [ufw EXCEPT !.unit = ufw.boot, !.on = ufw.boot /\ ufw.conf]
      /\ raw' = [raw EXCEPT !.live = IF raw.boot THEN raw.file ELSE 0]
  <2>1. failures \in 0..MaxFailures /\ MaxFailures \in Nat
    BY FailuresAreBounded DEF FwInv, FwTypeOK
  <2>2. failures < MaxFailures /\ failures' = failures + 1
    BY DEF HostReboots
  <2>3. failures' \in 0..MaxFailures
    BY <2>1, <2>2
  <2> QED
    BY <2>3 DEF HostReboots, GivesUp, Booted
<1>2. fwd \in FwdForms /\ ufw \in UfwForms /\ raw \in RawForms /\ Installs /\ OneFrontEnd
  BY Forms DEF FwInv
<1>3. fwd' \in FwdForms /\ (fwd'.run <=> fwd.boot) /\ (fwd'.boot <=> fwd.boot) /\ (fwd'.inst <=> fwd.inst)
  <2>1. PICK l \in {fwd.perm, {}} : fwd' = [fwd EXCEPT !.run = fwd.boot, !.live = l]
    BY <1>1
  <2> QED
    BY <1>2, <2>1 DEF FwdForms
<1>4. ufw' \in UfwForms /\ (ufw'.on => ufw.boot) /\ (ufw'.boot <=> ufw.boot) /\ (ufw'.inst <=> ufw.inst)
  <2>1. PICK o \in BOOLEAN : /\ ufw' = [ufw EXCEPT !.unit = ufw.boot, !.on = o]
                             /\ o => ufw.boot
    BY <1>1
  <2> QED
    BY <1>2, <2>1 DEF UfwForms
<1>5. raw' \in RawForms
  BY <1>1, <1>2 DEF RawForms
<1>6. FwTypeOK'
  <2>1. /\ isController' \in BOOLEAN /\ serving' \in BOOLEAN /\ frontEnd' \in BOOLEAN
        /\ beside' \in BOOLEAN /\ job' \in JobForms
    BY <1>1, Forms, NothingIsRun DEF FwInv
  <2> QED
    BY <1>1, <1>3, <1>4, <1>5, <2>1 DEF FwTypeOK, FwdForms, UfwForms, RawForms, JobForms, CallForms
<1>7. Installs' /\ OneFrontEnd'
  BY <1>1, <1>2, <1>3, <1>4 DEF Installs, OneFrontEnd, FwdInCharge, UfwInCharge
<1> QED
  BY <1>1, <1>6, <1>7, NothingLeft DEF FwInv


LEMMA FwStarts == FwInit => FwInv
<1> SUFFICES ASSUME FwInit
             PROVE  FwInv
  OBVIOUS
<1>1. PICK on \in SUBSET {"firewalld", "ufw"}, p \in SUBSET {"ssh"} :
         /\ fwd = [inst |-> "firewalld" \in on, run |-> FALSE, boot |-> FALSE,
                   live |-> {}, perm |-> p]
         /\ ufw = [inst |-> "ufw" \in on, unit |-> FALSE, boot |-> FALSE, conf |-> FALSE,
                   on |-> FALSE, allow |-> {}, deniesIn |-> TRUE, deniesOut |-> FALSE,
                   wayOut |-> FALSE]
  BY DEF FwInit
<1>2. /\ raw = [live |-> 0, file |-> 0, boot |-> FALSE]
      /\ isController \in BOOLEAN /\ serving \in BOOLEAN /\ frontEnd \in BOOLEAN
      /\ job = NoJob /\ beside = FALSE /\ failures = 0
  BY DEF FwInit
<1>3. job.op = "none" /\ job.end = "failed" /\ job \in JobForms
  <2>1. << >> \in Seq(CallForms)
    OBVIOUS
  <2> QED
    BY <1>2, <2>1 DEF NoJob, JobForms, Ports
<1>4. fwd \in FwdForms /\ ~fwd.run /\ ~fwd.boot
  <2>1. \A i \in BOOLEAN : [inst |-> i, run |-> FALSE, boot |-> FALSE, live |-> {}, perm |-> p]
                               \in FwdForms
    BY DEF FwdForms, Ports
  <2>2. PICK i \in BOOLEAN :
           fwd = [inst |-> i, run |-> FALSE, boot |-> FALSE, live |-> {}, perm |-> p]
    <3>1. ("firewalld" \in on) \in BOOLEAN
      OBVIOUS
    <3> QED
      BY <1>1, <3>1, Zenon
  <2> QED
    BY <2>1, <2>2
<1>5. ufw \in UfwForms /\ ~ufw.on /\ ~ufw.boot
  <2>1. PICK i \in BOOLEAN :
           ufw = [inst |-> i, unit |-> FALSE, boot |-> FALSE, conf |-> FALSE,
                  on |-> FALSE, allow |-> {}, deniesIn |-> TRUE, deniesOut |-> FALSE,
                  wayOut |-> FALSE]
    <3>1. ("ufw" \in on) \in BOOLEAN
      OBVIOUS
    <3> QED
      BY <1>1, <3>1, Zenon
  <2> QED
    BY <2>1 DEF UfwForms
<1>6. FwTypeOK
  <2>1. raw \in RawForms /\ failures \in 0..MaxFailures
    BY <1>2, FailuresAreBounded DEF RawForms
  <2> QED
    BY <1>2, <1>3, <1>4, <1>5, <2>1 DEF FwTypeOK, FwdForms, UfwForms, RawForms, JobForms, CallForms
<1>7. Installs /\ OneFrontEnd
  BY <1>4, <1>5 DEF Installs, OneFrontEnd, FwdInCharge, UfwInCharge
<1>8. job.op \notin Enables \cup {"ufw on", "firewalld on", "save nft", "save iptables",
                                 "turn off", "firewalld off", "ufw off"}
  BY <1>3 DEF Enables
<1>9. ScriptLeft /\ JobIs /\ FwdTurning /\ UfwTurning /\ Turned
  BY <1>3, <1>8 DEF ScriptLeft, JobIs, FwdTurning, UfwTurning, Turned, Running, TurnsOn, TurnsOff,
                    Saves
<1> QED
  BY <1>6, <1>7, <1>9 DEF FwInv

LEMMA FwStep ==
    ASSUME FwInv, FwNext
    PROVE  FwInv'
<1>1. CASE \E op \in Ops, port \in Ports, permanent \in BOOLEAN : Command(op, port, permanent)
  BY <1>1, CommandKeeps
<1>2. CASE Step
  <2>1. Running /\ Proceeds /\ isController' = isController
    BY <1>2, StepForm DEF FwInv
  <2> QED
    BY <1>2, <2>1, StepKeepsHost, ScriptGoesOn, FwdStepTurns, UfwStepTurns, StepTurns DEF FwInv
<1>3. CASE StepFails
  <2>1. Running /\ isController' = isController /\ (GivesUp \/ Proceeds)
    BY <1>3, StepFailsForm DEF FwInv
  <2>2. ScriptLeft' /\ JobIs'
    BY <2>1, NothingLeft, ScriptGoesOn
  <2> QED
    BY <1>3, <2>2, FailureKeepsHost, FwdFailureTurns, UfwFailureTurns, FailureTurns DEF FwInv
<1>4. CASE HostReboots
  BY <1>4, RebootKeeps
<1>5. \/ \E op \in Ops, port \in Ports, permanent \in BOOLEAN : Command(op, port, permanent)
      \/ Step \/ StepFails \/ HostReboots
  <2>1. "ssh" \in Ports /\ TRUE \in BOOLEAN /\ {"allow", "close"} \subseteq Ops
    BY DEF Ports, Ops
  <2> QED
    BY <2>1, Zenon DEF FwNext
<1> QED
  BY <1>1, <1>2, <1>3, <1>4, <1>5

LEMMA FwSound == FwInv => FirewallIsSound
<1> SUFFICES ASSUME FwInv
             PROVE  FirewallIsSound
  OBVIOUS
<1>1. EnableKeepsAccess
  <2> SUFFICES ASSUME job.op \in Enables, ~job.quiet,
                      job.end = "ok" \/ (job.end = "running" /\ job.on = "ufw")
               PROVE  ~Cut
    BY DEF EnableKeepsAccess
  <2>1. CASE TurnsOn("firewalld")
    <3>1. /\ job.before \subseteq UfwPasses /\ (job.reach => ReachesOut)
          /\ job.before \subseteq fwd.live
      BY <2>1 DEF FwInv, FwdTurning, TurnsOn
    <3> QED
      BY <3>1 DEF Cut, Passes, UfwPasses
  <2>2. CASE TurnsOn("ufw")
    BY <2>2 DEF FwInv, UfwTurning, Running
  <2> QED
    BY <2>1, <2>2 DEF FwInv, JobIs, TurnsOn
<1>2. SuccessIsReal
  <2> SUFFICES ASSUME job.end = "ok"
               PROVE  SuccessIsReal
    BY DEF SuccessIsReal
  <2>1. job.op \in Enables /\ job.on = "firewalld" => fwd.run /\ fwd.boot
    BY DEF FwInv, FwdTurning, TurnsOn, Running
  <2>2. job.op = "ufw on" => ufw.on /\ ufw.conf /\ ufw.boot
    BY DEF FwInv, UfwTurning, JobIs, TurnsOn, Enables
  <2>3. job.op \in {"turn off", "firewalld off", "ufw off"} =>
           /\ job.on = "firewalld" => ~FwdInCharge
           /\ job.on = "ufw" => ~ufw.on /\ ~ufw.conf
    BY DEF FwInv, Turned, TurnsOff
  <2>4. job.op \in {"save nft", "save iptables"} => Booted(raw).live = raw.live
    <3>1. raw \in RawForms /\ (Saves => raw.boot /\ raw.file = raw.live)
      BY Forms DEF FwInv, Turned
    <3> QED
      BY <3>1 DEF Booted, RawForms, Saves
  <2> QED
    BY <2>1, <2>2, <2>3, <2>4 DEF SuccessIsReal
<1> QED
  BY <1>1, <1>2 DEF FwInv, FirewallIsSound

LEMMA FirewallKept == FwSpec => []FwInv
<1>1. FwInv /\ [FwNext]_fwVars => FwInv'
  <2> SUFFICES ASSUME FwInv, [FwNext]_fwVars
               PROVE  FwInv'
    OBVIOUS
  <2>1. CASE FwNext
    BY <2>1, FwStep
  <2>2. CASE UNCHANGED fwVars
    <3>1. FwTypeOK' /\ Installs' /\ OneFrontEnd'
      BY <2>2 DEF fwVars, FwInv, FwTypeOK, Installs, OneFrontEnd, FwdInCharge, UfwInCharge
    <3>2. ScriptLeft' /\ JobIs'
      BY <2>2 DEF fwVars, FwInv, ScriptLeft, JobIs, KeepOpen, Running, TurnsOn, TurnsOff, Saves
    <3>3. FwdTurning'
      BY <2>2 DEF fwVars, FwInv, FwdTurning, TurnsOn, Running, UfwPasses, ReachesOut, UfwInCharge,
                  FwdInCharge
    <3>4. UfwTurning'
      <4>1. (Cut' <=> Cut) /\ (TurnsOn("ufw")' <=> TurnsOn("ufw")) /\ KeepOpen' = KeepOpen
            /\ (FwdInCharge' <=> FwdInCharge) /\ (Running' <=> Running)
        BY <2>2 DEF fwVars, Cut, Passes, ReachesOut, TurnsOn, KeepOpen, FwdInCharge, Running
      <4> QED
        BY <2>2, <4>1 DEF fwVars, FwInv, UfwTurning
    <3>5. Turned'
      BY <2>2 DEF fwVars, FwInv, Turned, FwdInCharge, TurnsOff, Saves, Running
    <3> QED
      BY <3>1, <3>2, <3>3, <3>4, <3>5 DEF FwInv
  <2> QED
    BY <2>1, <2>2
<1> QED
  BY FwStarts, <1>1, PTL DEF FwSpec

(* A run that follows one part of a host goes by that part's specification. *)
LEMMA ScriptsFollowed == ChannelsSpec => ConfigSpec /\ ElevationSpec /\ FwSpec
<1>1. ChannelsInit => ConfigInit /\ ElevationInit /\ FwInit
  BY DEF ChannelsInit
<1>2. [ChannelsNext]_channelVars =>
        [ConfigNext]_hcVars /\ [ElevationNext]_elevationVars /\ [FwNext]_fwVars
  BY DEF ChannelsNext, channelVars
<1> QED
  BY <1>1, <1>2, PTL DEF ChannelsSpec, ConfigSpec, ElevationSpec, FwSpec

(* A configuration edited, a command run and a firewall changed at once, in *)
(* any order of their steps.                                                *)
LEMMA ScriptsAtOnce == ConfigSpec /\ ElevationSpec /\ FwSpec => []ScriptsAreSound
<1>1. ConfigInv /\ ElevationInv /\ FwInv => ScriptsAreSound
  BY ElevationSound, FwSound DEF ConfigInv, ScriptsAreSound
<1> QED
  BY ConfigKept, ElevationKept, FirewallKept, <1>1, PTL

(* Of the scripts the console builds (the configuration editors and the     *)
(* firewall panels of the host page) and of the privilege a command gets    *)
(* (_run_as_user, exec_remote).  A new configuration its program refused is *)
(* undone, and at rest no file is one its program refuses; a chain that     *)
(* says it worked did.  A command repeated with the other privilege had     *)
(* been refused one, and root's denial is never passed off as root's own    *)
(* result.  Two front ends do not run one firewall, turning one on keeps    *)
(* the ports in use and the way out, and a success is real.                 *)
THEOREM ScriptsStaySound == ChannelsSpec => []ScriptsAreSound
BY ScriptsFollowed, ScriptsAtOnce, PTL

=============================================================================
