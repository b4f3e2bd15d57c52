----------------------------- MODULE KeyCustody -----------------------------
(***************************************************************************)
(* The controller's master key and the web console's sudo passwords.  Two   *)
(* processes, the backend and the web console, resolve the master key for   *)
(* themselves and keep it: from the environment, from a command, or from    *)
(* the file the first of them creates.  The console seals passwords with a  *)
(* key derived from it, or, while there is none, with a key of its own in a *)
(* file; the backend keys the audit chain with it.                          *)
(*                                                                         *)
(* A key is named after where it comes from.  A file is created in one step *)
(* and written in the next, and another process may read it in between.     *)
(***************************************************************************)
EXTENDS Integers, FiniteSets

CONSTANTS
    Scopes,       \* scopes a sudo password is stored for
    MaxOutages    \* bound: outages of the key command, restarts

ASSUME CustodyBound == MaxOutages \in Nat

VARIABLES
    source,       \* where the installation takes its master key from
    command,      \* does the key command answer?
    keyFile,      \* controller_secret.key
    sudoKey,      \* webgui_sudo.key
    cached,       \* process -> _cached_key
    doing,        \* process -> what it is in the middle of
    saved,        \* webgui_sudo.json: scope -> the key it was sealed under
    chain,        \* what the last row of the audit chain was keyed with
    outages

keyVars == <<source, command, keyFile, sudoKey, cached, doing, saved, chain, outages>>

Processes == {"backend", "console"}
Sources   == {"env", "command", "file"}
Wrote(p)  == IF p = "backend" THEN "made by backend" ELSE "made by console"
Files     == {"absent", "empty"} \cup {Wrote(p) : p \in Processes}
Keys      == {"env", "command"} \cup (Files \ {"absent"})
Nothing   == [derived |-> FALSE, from |-> "absent"]

CustodyTypeOK ==
    /\ source \in Sources /\ command \in BOOLEAN
    /\ keyFile \in Files /\ sudoKey \in Files \ {Wrote("backend")}
    /\ cached \in [Processes -> Keys \cup {"none"}]
    /\ doing \in [Processes -> {"idle", "write key", "write sudo key"}]
    /\ saved \in [Scopes -> {Nothing} \cup [derived : BOOLEAN, from : Keys \ {"empty"}]]
    /\ chain \in {"new"} \cup (Keys \ {"empty"})
    /\ outages \in 0..MaxOutages

CustodyInit ==
    /\ source \in Sources /\ command \in BOOLEAN
    /\ keyFile = "absent" /\ sudoKey = "absent"
    /\ cached = [p \in Processes |-> "none"]
    /\ doing = [p \in Processes |-> "idle"]
    /\ saved = [s \in Scopes |-> Nothing]
    /\ chain = "new" /\ outages = 0

Free(p) == doing[p] = "idle"
Cache(p, k) == cached' = [cached EXCEPT ![p] = k]
Then(p, what) == doing' = [doing EXCEPT ![p] = what]

-----------------------------------------------------------------------------
(* _load_or_create_key, which every use of the key begins with.             *)

FromSource(p) ==
    /\ Free(p) /\ cached[p] = "none"
    /\ source = "env" \/ (source = "command" /\ command)
    /\ Cache(p, source)
    /\ UNCHANGED <<source, command, keyFile, sudoKey, doing, saved, chain, outages>>

(* Mutant: the file is opened without O_EXCL.                               *)
MutMayCreate == keyFile \in Files
MayCreate == keyFile = "absent"
CreateKey(p) ==
    /\ Free(p) /\ cached[p] = "none" /\ source = "file"
    /\ MayCreate
    /\ keyFile' = "empty"
    /\ Then(p, "write key")
    /\ UNCHANGED <<source, command, sudoKey, cached, saved, chain, outages>>
WriteKey(p) ==
    /\ doing[p] = "write key"
    /\ keyFile' = Wrote(p)
    /\ Cache(p, Wrote(p))
    /\ Then(p, "idle")
    /\ UNCHANGED <<source, command, sudoKey, saved, chain, outages>>
(* FileExistsError: whatever the file holds is the key.                     *)
ReadKey(p) ==
    /\ Free(p) /\ cached[p] = "none" /\ source = "file" /\ keyFile # "absent"
    /\ Cache(p, keyFile)
    /\ UNCHANGED <<source, command, keyFile, sudoKey, doing, saved, chain, outages>>

(* A use has resolved what there is to resolve.                             *)
Asked(p) == Free(p) /\ (cached[p] # "none" \/ (source = "command" /\ ~command))
Usable(p) == cached[p] \notin {"none", "empty"}

-----------------------------------------------------------------------------
(* The console's store.                                                     *)

Save(s, key) == saved' = [saved EXCEPT ![s] = key]

SetDerived(s) ==
    /\ Asked("console") /\ Usable("console")
    /\ Save(s, [derived |-> TRUE, from |-> cached["console"]])
    /\ UNCHANGED <<source, command, keyFile, sudoKey, cached, doing, chain, outages>>

(* _legacy_key(create=True).                                                *)
CreateSudoKey ==
    /\ Asked("console") /\ ~Usable("console") /\ sudoKey = "absent"
    /\ sudoKey' = "empty"
    /\ Then("console", "write sudo key")
    /\ UNCHANGED <<source, command, keyFile, cached, saved, chain, outages>>
WriteSudoKey(s) ==
    /\ doing["console"] = "write sudo key"
    /\ sudoKey' = Wrote("console")
    /\ Save(s, [derived |-> FALSE, from |-> Wrote("console")])
    /\ Then("console", "idle")
    /\ UNCHANGED <<source, command, keyFile, cached, chain, outages>>
(* With an empty file there is no key, and nothing is stored.               *)
SetLegacy(s) ==
    /\ Asked("console") /\ ~Usable("console") /\ sudoKey = Wrote("console")
    /\ Save(s, [derived |-> FALSE, from |-> sudoKey])
    /\ UNCHANGED <<source, command, keyFile, sudoKey, cached, doing, chain, outages>>

ClearScope(s) ==
    /\ saved[s] # Nothing
    /\ Save(s, Nothing)
    /\ UNCHANGED <<source, command, keyFile, sudoKey, cached, doing, chain, outages>>

(* Mutant: only the key for new writes is tried.                            *)
MutReadKeys ==
    IF Usable("console") THEN {[derived |-> TRUE, from |-> cached["console"]]}
    ELSE {[derived |-> FALSE, from |-> sudoKey]}
(* _read_keys: "Reads try the derived key AND the legacy file key".         *)
ReadKeys ==
    (IF Usable("console") THEN {[derived |-> TRUE, from |-> cached["console"]]} ELSE {})
        \cup (IF sudoKey \in Keys \ {"empty"} THEN {[derived |-> FALSE, from |-> sudoKey]}
              ELSE {})

-----------------------------------------------------------------------------
(* The backend's chain, of a deployment that requires keyed rows.           *)

Keyed(p) == Usable(p)
AppendKeyed ==
    /\ Asked("backend") /\ Keyed("backend")
    /\ chain' = cached["backend"]
    /\ UNCHANGED <<source, command, keyFile, sudoKey, cached, doing, saved, outages>>

-----------------------------------------------------------------------------
Outage == outages < MaxOutages /\ outages' = outages + 1
CommandFails ==
    /\ Outage /\ source = "command" /\ command' = FALSE /\ command
    /\ UNCHANGED <<source, keyFile, sudoKey, cached, doing, saved, chain>>
CommandAnswers ==
    /\ ~command /\ command' = TRUE
    /\ UNCHANGED <<source, keyFile, sudoKey, cached, doing, saved, chain, outages>>
(* A process starts again, and what it was about to write stays unwritten.  *)
ProcessRestart(p) ==
    /\ Outage
    /\ Cache(p, "none")
    /\ Then(p, "idle")
    /\ UNCHANGED <<source, command, keyFile, sudoKey, saved, chain>>

CustodyNext ==
    \/ \E p \in Processes : \/ FromSource(p) \/ CreateKey(p) \/ WriteKey(p) \/ ReadKey(p)
                            \/ ProcessRestart(p)
    \/ \E s \in Scopes : SetDerived(s) \/ WriteSudoKey(s) \/ SetLegacy(s) \/ ClearScope(s)
    \/ CreateSudoKey \/ AppendKeyed \/ CommandFails \/ CommandAnswers

CustodySpec == CustodyInit /\ [][CustodyNext]_keyVars

-----------------------------------------------------------------------------
(* There is one master key: the processes that have one have the same, and  *)
(* the rows of the audit chain were keyed with it, so either process can    *)
(* verify what the other wrote, whoever created the file and whoever was    *)
(* restarted in between.                                                    *)
OneMasterKey ==
    Cardinality(({cached[p] : p \in Processes} \cup {chain}) \ {"none", "empty", "new"}) <= 1

(* "Passwords written before the master key existed keep decrypting": what  *)
(* the console has stored it can read, unless it is without a master key it *)
(* had then.                                                                *)
StoredIsReadable ==
    \A s \in Scopes : saved[s] # Nothing =>
        saved[s] \in ReadKeys \/ (saved[s].derived /\ ~Usable("console"))

(* The master key and what is encrypted under it.                           *)
SecretsSurvive == CustodyTypeOK /\ OneMasterKey /\ StoredIsReadable
=============================================================================
