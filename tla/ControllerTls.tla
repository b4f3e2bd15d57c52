--------------------------- MODULE ControllerTls ---------------------------
(***************************************************************************)
(* The controller's TLS identity and the address it advertises.  Three     *)
(* files (server.key, server.crt, trust.crt) are each replaced atomically, *)
(* one after the other, by an import, by a regeneration or by the loop     *)
(* that moves the controller onto a new address (backend/tls_manager.py,   *)
(* backend/self_address.py, the routes of backend/app.py); uvicorn reads   *)
(* them only when the process starts.                                      *)
(***************************************************************************)
EXTENDS Integers, Sequences, FiniteSets

CONSTANTS NetAddresses,     \* addresses the controller may be reached at
          Regenerations,    \* regenerate requests the server may run at once
          MaxIdentities,    \* bound: identities ever issued
          MaxSaves,         \* bound: saves of the controller's address
          MaxMoves,         \* bound: changes of the network's address
          MaxCrashes        \* bound: deaths of the process

ASSUME TlsBounds ==
    /\ NetAddresses # {} /\ IsFiniteSet(Regenerations)
    /\ {MaxIdentities, MaxSaves, MaxMoves, MaxCrashes} \subseteq Nat

VARIABLES certFiles,    \* the identity in key and crt; the anchor in trust
          certTmp,      \* what the temporary file of each holds; None: no file
          identities,   \* every identity issued: imported or not, its names
          served,       \* the identity the process loaded; 0: it is down
          restarting,   \* a restart is scheduled
          works,        \* what the import, the requests and the loop are at
          config,       \* the advertised address and the address mode
          network,      \* the address the world reaches the controller at
          agentPin,     \* the anchor the controller's own agent has pinned
          spoiled,      \* files were left half way, or two writers overlapped
          tally         \* saves, moves and crashes so far

filesVars == <<certFiles, certTmp, identities, spoiled>>
tlsVars == <<filesVars, served, restarting, works, config, network,
             agentPin, tally>>

Signers == {"import", "watch"} \cup Regenerations

\* The files in the order both installers write them, and the work's places:
\* fill and replace each of the three, then what the caller does last.
WriteOrder == <<"key", "crt", "trust">>
Last == 7
FileAt(at) == WriteOrder[(at + 1) \div 2]
Filling(at) == at % 2 = 1
InFiles(w) == works[w].at \in 1..(Last - 1)

NoFile == -1
AtRest == [at |-> 0, mine |-> 0, read |-> 0, goal |-> <<>>]

Imported(i) == identities[i].imported

\* trust.crt: the issuing chain (0) of an imported leaf, a self-signed leaf itself.
Anchor(i) == IF Imported(i) THEN 0 ELSE i

MutPinned(file, i) == i

\* What an installer writes into each file.
Content(file, i) == IF file = "trust" THEN Anchor(i) ELSE i

Mate(files) == files["key"] = files["crt"]

TlsInit ==
    \E a \in NetAddresses, imported \in BOOLEAN :
        /\ identities = <<[imported |-> imported, names |-> {a}]>>
        /\ certFiles = [f \in {"key", "crt", "trust"} |->
                          IF f = "trust" /\ imported THEN 0 ELSE 1]
        /\ certTmp = [f \in {"key", "crt", "trust"} |-> NoFile]
        /\ served = 1 /\ restarting = FALSE
        /\ works = [w \in Signers |-> AtRest]
        /\ config = [ip |-> a, mode |-> "ip"]
        /\ network = a
        /\ agentPin = IF imported THEN 0 ELSE 1
        /\ spoiled = FALSE
        /\ tally = [saves |-> 0, moves |-> 0, crashes |-> 0]

-----------------------------------------------------------------------------
(* The beginning of each work: what it reads, and the identity it issues.   *)

Issue(imported, names) ==
    /\ Len(identities) < MaxIdentities
    /\ identities' = Append(identities, [imported |-> imported, names |-> names])

Enters(w) ==
    /\ works' = [works EXCEPT ![w] = [at |-> 1, mine |-> Len(identities) + 1,
                                      read |-> certFiles["crt"],
                                      goal |-> config]]
    /\ spoiled' = (spoiled \/ \E o \in Signers \ {w} : InFiles(o))

\* An upload that validates: the key is the certificate's own.
Import ==
    /\ served # 0 /\ works["import"] = AtRest
    /\ \E a \in NetAddresses : Issue(TRUE, {a})
    /\ Enters("import")
    /\ UNCHANGED <<certFiles, certTmp, served, restarting, config, network,
                   agentPin, tally>>

MutMayRegenerate == TRUE

MayRegenerate == ~Imported(certFiles["crt"])

\* The route covers the saved address and the ones the box answers at now.
Regenerate(r) ==
    /\ served # 0 /\ works[r] = AtRest
    /\ MayRegenerate
    /\ Issue(FALSE, {config.ip, network})
    /\ Enters(r)
    /\ UNCHANGED <<certFiles, certTmp, served, restarting, config, network,
                   agentPin, tally>>

\* The loop's round: silent at the advertised address, answered elsewhere.
Drifted == config.mode = "ip" /\ config.ip # network

Heal ==
    /\ served # 0 /\ works["watch"] = AtRest /\ Drifted
    /\ LET goal == [config EXCEPT !.ip = network] IN
       IF MayRegenerate
       THEN /\ Issue(FALSE, {network})
            /\ works' = [works EXCEPT !["watch"] =
                  [at |-> 1, mine |-> Len(identities) + 1,
                   read |-> certFiles["crt"], goal |-> goal]]
            /\ spoiled' = (spoiled \/ \E o \in Signers : InFiles(o))
       ELSE /\ works' = [works EXCEPT !["watch"] =
                  [AtRest EXCEPT !.at = Last, !.goal = goal]]
            /\ UNCHANGED <<identities, spoiled>>
    /\ UNCHANGED <<certFiles, certTmp, served, restarting, config, network,
                   agentPin, tally>>

-----------------------------------------------------------------------------
(* _atomic_write: every writer of a file uses the same temporary name.       *)

Fill(w) ==
    /\ InFiles(w) /\ Filling(works[w].at)
    /\ LET file == FileAt(works[w].at) IN
       certTmp' = [certTmp EXCEPT ![file] = Content(file, works[w].mine)]
    /\ works' = [works EXCEPT ![w].at = @ + 1]
    /\ UNCHANGED <<certFiles, identities, spoiled, served, restarting, config,
                   network, agentPin, tally>>

\* os.replace: the other writer of the same name may have renamed it away,
\* and then the request ends with an error and no restart.
PutInPlace(w) ==
    /\ InFiles(w) /\ ~Filling(works[w].at)
    /\ LET file == FileAt(works[w].at) IN
       IF certTmp[file] = NoFile
       THEN /\ works' = [works EXCEPT ![w] = AtRest]
            /\ UNCHANGED <<certFiles, certTmp>>
       ELSE /\ certFiles' = [certFiles EXCEPT ![file] = certTmp[file]]
            /\ certTmp' = [certTmp EXCEPT ![file] = NoFile]
            /\ works' = [works EXCEPT ![w].at = @ + 1]
    /\ UNCHANGED <<identities, spoiled, served, restarting, config, network,
                   agentPin, tally>>

-----------------------------------------------------------------------------
(* What each caller does last.                                              *)

\* refresh_local_agent_trust copies whatever server.crt is now; an import
\* leaves the agent's pin alone.
Retrusted(w) == IF w \in Regenerations THEN certFiles["crt"] ELSE agentPin

FinishWrite(w) ==
    /\ works[w].at = Last /\ w # "watch"
    /\ agentPin' = Retrusted(w)
    /\ restarting' = TRUE
    /\ works' = [works EXCEPT ![w] = AtRest]
    /\ UNCHANGED <<filesVars, served, config, network, tally>>

\* heal writes back the configuration it has read, and restarts nothing.
AdvertiseNew ==
    /\ works["watch"].at = Last
    /\ config' = works["watch"].goal
    /\ works' = [works EXCEPT !["watch"] = AtRest]
    /\ UNCHANGED <<filesVars, served, restarting, network, agentPin, tally>>

RestartAsked ==
    /\ served # 0 /\ ~restarting
    /\ restarting' = TRUE
    /\ UNCHANGED <<filesVars, served, works, config, network, agentPin, tally>>

SaveConfig ==
    /\ served # 0 /\ tally.saves < MaxSaves
    /\ \E a \in NetAddresses, mode \in {"ip", "all"} :
        config' = [ip |-> a, mode |-> mode]
    /\ tally' = [tally EXCEPT !.saves = @ + 1]
    /\ UNCHANGED <<filesVars, served, restarting, works, network, agentPin>>

NetworkMoves ==
    /\ tally.moves < MaxMoves
    /\ network' \in NetAddresses \ {network}
    /\ tally' = [tally EXCEPT !.moves = @ + 1]
    /\ UNCHANGED <<filesVars, served, restarting, works, config, agentPin>>

\* A key that is not the certificate's fails the start of uvicorn.
Loaded(files) == IF Mate(files) THEN files["crt"] ELSE 0

\* Threads of the old process are gone; what they had written stays.
Begun ==
    /\ served' = Loaded(certFiles)
    /\ restarting' = FALSE
    /\ spoiled' = (spoiled \/ \E w \in Signers : InFiles(w))
    /\ works' = [w \in Signers |-> AtRest]
    /\ UNCHANGED <<certFiles, certTmp, identities, config, network, agentPin>>

\* A stop waits for the requests in flight; the watch loop is a daemon thread.
RestartBackend ==
    /\ restarting
    /\ \A w \in Signers \ {"watch"} : works[w] = AtRest
    /\ Begun /\ UNCHANGED tally

Crash ==
    /\ served # 0 /\ tally.crashes < MaxCrashes
    /\ Begun
    /\ tally' = [tally EXCEPT !.crashes = @ + 1]

TlsStep(w) == Fill(w) \/ PutInPlace(w) \/ FinishWrite(w)

TlsNext ==
    \/ Import \/ Heal \/ AdvertiseNew
    \/ \E r \in Regenerations : Regenerate(r)
    \/ \E w \in Signers : TlsStep(w)
    \/ RestartAsked \/ RestartBackend \/ Crash
    \/ SaveConfig \/ NetworkMoves

\* A request runs to its end, and a scheduled restart happens.
TlsSpec ==
    /\ TlsInit /\ [][TlsNext]_tlsVars
    /\ \A w \in Signers : WF_tlsVars(TlsStep(w))
    /\ WF_tlsVars(AdvertiseNew) /\ SF_tlsVars(RestartBackend)

-----------------------------------------------------------------------------
(* Properties                                                              *)

\* Type correctness: files, temporary files, works, configuration.
TlsTypeOK ==
    /\ certFiles \in [{"key", "crt", "trust"} -> 0..Len(identities)]
    /\ {certFiles["key"], certFiles["crt"]} \subseteq 1..Len(identities)
    /\ certTmp \in [{"key", "crt", "trust"} -> NoFile..Len(identities)]
    /\ \A i \in 1..Len(identities) :
         identities[i] \in [imported : BOOLEAN, names : SUBSET NetAddresses]
    /\ served \in 0..Len(identities) /\ agentPin \in 0..Len(identities)
    /\ config \in [ip : NetAddresses, mode : {"ip", "all"}]
    /\ \A w \in Signers : works[w].at \in 0..Last

\* Without a death in the middle of the files and without two writers at
\* once, the backend always comes up, and between two works the three files
\* belong together: the key is the certificate's, and what new agents are
\* given to pin verifies it (tls_manager: key, then certificate, then trust).
FilesBelongTogether ==
    ~spoiled =>
      /\ served # 0
      /\ (\A w \in Signers : ~InFiles(w)) =>
            Mate(certFiles) /\ certFiles["trust"] = Anchor(certFiles["crt"])

\* An imported certificate gives way to a self-signed one only if its import
\* finished after the regeneration had looked ("NEVER regenerate over an
\* imported PKI cert"; the look and the write are apart).
ImportedStands ==
    [][Imported(certFiles["crt"]) /\ ~Imported(certFiles'["crt"])
         => \E w \in Signers : /\ works[w].mine = certFiles'["crt"]
                               /\ works[w].read # certFiles["crt"]]_tlsVars

\* The controller's certificate: its files, and whose certificate it is.
CertificateStands == [](TlsTypeOK /\ FilesBelongTogether) /\ ImportedStands
=============================================================================
