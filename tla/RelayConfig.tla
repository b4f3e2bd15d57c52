---------------------------- MODULE RelayConfig ----------------------------
(***************************************************************************)
(* The bastion the controller reaches hosts through (backend/relay.py,     *)
(* relay_keys.py, the relay routes of backend/app.py): what is stored, with *)
(* the environment beneath it, the key that is minted on first use, and    *)
(* which way a host is dialled.                                            *)
(***************************************************************************)
EXTENDS Naturals, FiniteSets

CONSTANTS Bastions,      \* addresses of bastions
          EnvHost,       \* SYSIBLE_RELAY_HOST: a bastion, or NoHost
          NoHost,        \* a blank relay host
          Savers,        \* save requests the server may run at once
          MaxSavings,    \* bound: saves begun
          MaxKeys        \* bound: keys ever minted

ASSUME RelayBounds ==
    /\ NoHost \notin Bastions /\ EnvHost \in Bastions \cup {NoHost}
    /\ {MaxSavings, MaxKeys} \subseteq Nat

VARIABLES stored,      \* the row of relay_config
          priv, pub,   \* the key at the identity's path and beside it; 0: none
          savers,      \* the save requests
          shown,       \* the public keys operators were given to authorize
          minted,      \* keys minted so far
          savings,     \* saves begun so far
          jostled      \* two requests minted at once, or one died minting

relayVars == <<stored, priv, pub, savers, shown, minted, savings, jostled>>

Hops == Bastions \cup {NoHost}
RelayUsers == {"default", "spaced"}

\* A row: saved or not, the host, and whether the user forms a valid hop.
NoRow == [host |-> NoHost, user |-> "default"]

\* pick: a field that is blank in the row falls through to the environment.
Effective(row) == [row EXCEPT !.host = IF @ = NoHost THEN EnvHost ELSE @]

\* validate_config: a blank host is off, and then the user is not looked at.
Works(c) == c.host = NoHost \/ c.user = "default"

NotSaving == [at |-> "none", post |-> NoRow, key |-> 0]
Minting(s) == savers[s].at \in {"create", "public", "remove", "keygen"}

RelayInit ==
    /\ stored = NoRow
    /\ priv = 0 /\ pub = 0
    /\ savers = [s \in Savers |-> NotSaving]
    /\ shown = {}
    /\ minted = 0 /\ savings = 0 /\ jostled = FALSE

-----------------------------------------------------------------------------
(* save_config: the effective configuration is read, the fields given are   *)
(* laid over it, the whole is validated, and the whole is stored.           *)

\* The post-apply view.
Lay(c, fields, post) ==
    [f \in {"host", "user"} |-> IF f \in fields THEN post[f] ELSE c[f]]

BeginSave(s) ==
    /\ savers[s].at = "none" /\ savings < MaxSavings
    /\ savings' = savings + 1
    /\ \E fields \in SUBSET {"host", "user"}, h \in Hops, u \in RelayUsers :
        /\ fields # {}
        /\ LET merged == Lay(Effective(stored), fields, [host |-> h, user |-> u]) IN
           savers' = [savers EXCEPT ![s] =
             [at |-> IF Works(merged) THEN "store" ELSE "none",
              post |-> [merged |-> merged, fields |-> fields], key |-> 0]]
    /\ UNCHANGED <<stored, priv, pub, shown, minted, jostled>>

MutRowOf(post) == Lay(stored, post.fields, post.merged)

\* set_relay_config writes every column of the view that was validated.
RowOf(post) == post.merged

\* ... and ensure_identity looks for the key or its public half.
StoreRow(s) ==
    /\ savers[s].at = "store"
    /\ stored' = RowOf(savers[s].post)
    /\ savers' = [savers EXCEPT ![s].at = "look"]
    /\ UNCHANGED <<priv, pub, shown, minted, savings, jostled>>

MutPresent == FALSE

Present == priv # 0 \/ pub # 0

LookForKey(s) ==
    /\ savers[s].at = "look"
    /\ IF Present
       THEN /\ savers' = [savers EXCEPT ![s].at = "answer"]
            /\ UNCHANGED <<minted, jostled>>
       ELSE /\ minted < MaxKeys /\ minted' = minted + 1
            /\ savers' = [savers EXCEPT ![s].at = "create", ![s].key = minted + 1]
            /\ jostled' = (jostled \/ \E o \in Savers : Minting(o))
    /\ UNCHANGED <<stored, priv, pub, shown, savings>>

\* O_EXCL; whoever loses goes to the ssh-keygen fallback.
CreatePriv(s) ==
    /\ savers[s].at = "create"
    /\ priv' = IF priv = 0 THEN savers[s].key ELSE priv
    /\ savers' = [savers EXCEPT ![s].at = IF priv = 0 THEN "public" ELSE "remove"]
    /\ UNCHANGED <<stored, pub, shown, minted, savings, jostled>>

CreatePub(s) ==
    /\ savers[s].at = "public"
    /\ pub' = IF pub = 0 THEN savers[s].key ELSE pub
    /\ savers' = [savers EXCEPT ![s].at = IF pub = 0 THEN "answer" ELSE "remove"]
    /\ UNCHANGED <<stored, priv, shown, minted, savings, jostled>>

\* The fallback removes the key that is there, and ssh-keygen writes both.
RemoveKey(s) ==
    /\ savers[s].at = "remove"
    /\ priv' = 0
    /\ savers' = [savers EXCEPT ![s].at = "keygen"]
    /\ UNCHANGED <<stored, pub, shown, minted, savings, jostled>>

SshKeygen(s) ==
    /\ savers[s].at = "keygen"
    /\ IF priv = 0 /\ minted < MaxKeys
       THEN priv' = minted + 1 /\ pub' = minted + 1 /\ minted' = minted + 1
       ELSE UNCHANGED <<priv, pub, minted>>
    /\ savers' = [savers EXCEPT ![s].at = "answer"]
    /\ UNCHANGED <<stored, shown, savings, jostled>>

\* public_key: the .pub file, or else the half derived from the private key.
PublicKey == IF pub # 0 THEN pub ELSE priv

AnswerSave(s) ==
    /\ savers[s].at = "answer"
    /\ shown' = shown \cup ({PublicKey} \ {0})
    /\ savers' = [savers EXCEPT ![s] = NotSaving]
    /\ UNCHANGED <<stored, priv, pub, minted, savings, jostled>>

ShowRelay ==
    /\ shown' = shown \cup ({PublicKey} \ {0})
    /\ UNCHANGED <<stored, priv, pub, savers, minted, savings, jostled>>

ControllerDies ==
    /\ \E s \in Savers : savers[s].at # "none"
    /\ jostled' = (jostled \/ \E s \in Savers : savers[s].at \in {"remove", "keygen"})
    /\ savers' = [s \in Savers |-> NotSaving]
    /\ UNCHANGED <<stored, priv, pub, shown, minted, savings>>

-----------------------------------------------------------------------------
(* resolve_ssh_proxy for a host that opted in or matches the allowlist; it  *)
(* never raises: what does not form a hop is a direct connection.           *)

Hop(c) == IF c.host # NoHost /\ Works(c) THEN c.host ELSE NoHost

RelayNext ==
    \/ \E s \in Savers :
        \/ BeginSave(s) \/ StoreRow(s) \/ LookForKey(s) \/ CreatePriv(s)
        \/ CreatePub(s) \/ RemoveKey(s) \/ SshKeygen(s) \/ AnswerSave(s)
    \/ ShowRelay \/ ControllerDies

RelaySpec == RelayInit /\ [][RelayNext]_relayVars

-----------------------------------------------------------------------------
(* Properties                                                              *)

\* Type correctness of the row, the key files and the requests.
RelayTypeOK ==
    /\ stored \in [host : Hops, user : RelayUsers]
    /\ {priv, pub} \subseteq 0..minted /\ minted \in 0..MaxKeys
    /\ shown \subseteq 1..minted
    /\ \A s \in Savers : savers[s].key \in 0..minted

\* However two saves interleave, a host that opted in is dialled through the
\* bastion in force, and never quietly round it: what is stored has been
\* validated as a whole.  (A blank host stored over one the environment names
\* is the exception: it was validated as "off".)
NeverQuietlyAround ==
    stored.host # NoHost \/ EnvHost = NoHost
      => Hop(Effective(stored)) = Effective(stored).host

\* Every public key an operator was given to authorize is the key in use, as
\* long as no two requests minted at once and none died in the fallback
\* ("Never regenerates an existing key - a bastion has already authorized the
\* public half").
ShownIsInUse ==
    ~jostled => shown \subseteq {priv} /\ (pub # 0 => pub = priv)

\* How hosts are dialled, and with which key.
RelayIsInForce == RelayTypeOK /\ NeverQuietlyAround /\ ShownIsInUse
=============================================================================
