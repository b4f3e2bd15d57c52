--------------------------- MODULE LoginThrottle ---------------------------
(***************************************************************************)
(* Failed logins are counted twice: by the web console, in memory, per      *)
(* client address and for all addresses together; and by the backend, in    *)
(* the login_throttle table, per user name.  The console checks its counts  *)
(* before it asks the backend and adds to them after the answer; the        *)
(* backend reads the row, and then writes what it makes of what it read.    *)
(* Nothing keeps two requests apart.                                        *)
(*                                                                         *)
(* One user name and a few addresses.  A count of failures is kept by age:  *)
(* failures[a] of them are a ticks old, and those older than the window are *)
(* forgotten.  The console and the backend have the same window here.       *)
(***************************************************************************)
EXTENDS Integers, FiniteSets

CONSTANTS
    Threads,        \* requests served at a time
    Clients,      \* client addresses of the console
    Window,         \* of both counts, in ticks
    Lockout,        \* how long the backend locks a name
    MaxFails,       \* _ADMIN_LOGIN_MAX_FAILURES
    MaxPerAddress,  \* _LOGIN_MAX_ATTEMPTS
    MaxGlobal       \* _LOGIN_GLOBAL_MAX, not 0

ASSUME ThrottleBounds ==
    /\ IsFiniteSet(Threads)
    /\ {Window, Lockout, MaxFails, MaxPerAddress, MaxGlobal} \subseteq Nat \ {0}

VARIABLES
    row,        \* the login_throttle row: failures by age, ticks still locked
    byAddress,  \* the console's _login_attempts: address -> failures by age
    global,     \* the console's _login_global: failures by age
    attempt,    \* what each thread is doing
    wrong,      \* history: wrong passwords recorded for the name, by age, since
                \* the last right one or the last lockout
    guesses,    \* history: wrong passwords tried through the console, by age
    overlapped  \* history: a count was lost to an overlap or an error

throttleVars == <<row, byAddress, global, attempt, wrong, guesses, overlapped>>

(* A failure is its age and its number among those of that age.             *)
AllOf(count) == Cardinality(UNION {{a} \X (1..count[a]) : a \in 1..Window})
NoFailures   == [a \in 1..Window |-> 0]
OneMore(count) == [count EXCEPT ![1] = @ + 1]
Aged(count)    == [a \in 1..Window |-> IF a = 1 THEN 0 ELSE count[a - 1]]

NoRow  == [fails |-> NoFailures, locked |-> 0]
Direct == "direct"      \* not by the console: /auth/api-key
Resting == [pc |-> "idle", from |-> Direct, read |-> NoRow]

Most == 2 * (Cardinality(Threads) + MaxGlobal)
Counts(n) == [1..Window -> 0..n]
ThrottleTypeOK ==
    /\ row \in [fails : Counts(MaxFails), locked : 0..Lockout]
    /\ byAddress \in [Clients -> Counts(Most)] /\ global \in Counts(Most)
    /\ guesses \in Counts(Most)
    /\ \A t \in Threads : /\ attempt[t].pc \in {"idle", "sent", "verify", "count", "write",
                                                "note", "welcome"}
                          /\ attempt[t].from \in Clients \cup {Direct}
    /\ AllOf(wrong) \in 0..MaxFails /\ overlapped \in BOOLEAN

ThrottleInit ==
    /\ row = NoRow
    /\ byAddress = [i \in Clients |-> NoFailures]
    /\ global = NoFailures
    /\ attempt = [t \in Threads |-> Resting]
    /\ wrong = NoFailures /\ guesses = NoFailures
    /\ overlapped = FALSE

At(t, pc) == attempt' = [attempt EXCEPT ![t] = [@ EXCEPT !.pc = pc]]
Rest(t)   == attempt' = [attempt EXCEPT ![t] = Resting]

-----------------------------------------------------------------------------
(* Mutant: one more is let through.                                         *)
MutAdmits(i) == AllOf(byAddress[i]) <= MaxPerAddress /\ AllOf(global) <= MaxGlobal
(* _throttle_check.                                                         *)
Admits(i) == AllOf(byAddress[i]) < MaxPerAddress /\ AllOf(global) < MaxGlobal
Try(t, i) ==
    /\ attempt[t].pc = "idle" /\ Admits(i)
    /\ attempt' = [attempt EXCEPT ![t] = [Resting EXCEPT !.pc = "sent", !.from = i]]
    /\ UNCHANGED <<row, byAddress, global, wrong, guesses, overlapped>>
TryDirect(t) ==
    /\ attempt[t].pc = "idle"
    /\ attempt' = [attempt EXCEPT ![t] = [Resting EXCEPT !.pc = "sent"]]
    /\ UNCHANGED <<row, byAddress, global, wrong, guesses, overlapped>>

(* login_throttle_locked_for; a 429 is not counted by the console.          *)
Ask(t) ==
    /\ attempt[t].pc = "sent"
    /\ IF row.locked = 0 THEN At(t, "verify") ELSE Rest(t)
    /\ UNCHANGED <<row, byAddress, global, wrong, guesses, overlapped>>

(* The password is right: login_throttle_clear.                             *)
Right(t) ==
    /\ attempt[t].pc = "verify"
    /\ row' = NoRow
    /\ wrong' = NoFailures
    /\ overlapped' = (\E o \in Threads \ {t} : attempt[o].pc = "write")
    /\ IF attempt[t].from = Direct THEN Rest(t) ELSE At(t, "welcome")
    /\ UNCHANGED <<byAddress, global, guesses>>
Wrong(t) ==
    /\ attempt[t].pc = "verify"
    /\ At(t, "count")
    /\ guesses' = IF attempt[t].from = Direct THEN guesses ELSE OneMore(guesses)
    /\ UNCHANGED <<row, byAddress, global, wrong, overlapped>>

(* login_throttle_record_failure, first half.                               *)
ReadRow(t) ==
    /\ attempt[t].pc = "count"
    /\ attempt' = [attempt EXCEPT ![t] = [@ EXCEPT !.pc = "write", !.read = row]]
    /\ overlapped' = (overlapped \/ \E o \in Threads \ {t} : attempt[o].pc = "write")
    /\ UNCHANGED <<row, byAddress, global, wrong, guesses>>
(* Mutant: the lock is set one failure late.                                *)
MutCounted(read) ==
    IF AllOf(read.fails) + 1 > MaxFails THEN [fails |-> NoFailures, locked |-> Lockout]
    ELSE [fails |-> OneMore(read.fails), locked |-> read.locked]
Counted(read) ==
    IF AllOf(read.fails) + 1 >= MaxFails THEN [fails |-> NoFailures, locked |-> Lockout]
    ELSE [fails |-> OneMore(read.fails), locked |-> read.locked]
AfterFailure(t) ==
    IF attempt[t].from = Direct THEN Rest(t)
    ELSE attempt' = [attempt EXCEPT ![t] = [Resting EXCEPT !.pc = "note", !.from = attempt[t].from]]
WriteRow(t) ==
    /\ attempt[t].pc = "write"
    /\ row' = Counted(attempt[t].read)
    /\ wrong' = IF row'.locked = Lockout THEN NoFailures
                ELSE IF AllOf(wrong) = MaxFails THEN wrong ELSE OneMore(wrong)
    /\ AfterFailure(t)
    /\ UNCHANGED <<byAddress, global, guesses, overlapped>>
(* "database is locked" is swallowed, and the failure not counted.          *)
CountFails(t) ==
    /\ attempt[t].pc \in {"count", "write"}
    /\ overlapped' = TRUE
    /\ AfterFailure(t)
    /\ UNCHANGED <<row, byAddress, global, wrong, guesses>>

(* _throttle_record_failure.                                                *)
Note(t) ==
    /\ attempt[t].pc = "note"
    /\ byAddress' = [byAddress EXCEPT ![attempt[t].from] = OneMore(@)]
    /\ global' = OneMore(global)
    /\ Rest(t)
    /\ UNCHANGED <<row, wrong, guesses, overlapped>>
(* "clear on success": of that address.                                     *)
GlobalAfter == global
Welcome(t) ==
    /\ attempt[t].pc = "welcome"
    /\ byAddress' = [byAddress EXCEPT ![attempt[t].from] = NoFailures]
    /\ global' = GlobalAfter
    /\ Rest(t)
    /\ UNCHANGED <<row, wrong, guesses, overlapped>>

(* What login_throttle_locked_for returns.                                  *)
Left(ticks) == IF ticks > 0 THEN ticks - 1 ELSE 0
AgedRow(r)  == [fails |-> Aged(r.fails), locked |-> Left(r.locked)]
Minute ==
    /\ row' = AgedRow(row)
    /\ byAddress' = [i \in Clients |-> Aged(byAddress[i])]
    /\ global' = Aged(global)
    /\ attempt' = [t \in Threads |-> [attempt[t] EXCEPT !.read = AgedRow(@)]]
    /\ wrong' = Aged(wrong) /\ guesses' = Aged(guesses)
    /\ UNCHANGED overlapped

ThrottleNext ==
    \/ \E t \in Threads : \/ \E i \in Clients : Try(t, i)
                          \/ TryDirect(t) \/ Ask(t) \/ Right(t) \/ Wrong(t) \/ ReadRow(t)
                          \/ WriteRow(t) \/ CountFails(t) \/ Note(t) \/ Welcome(t)
    \/ Minute

ThrottleSpec == ThrottleInit /\ [][ThrottleNext]_throttleVars

-----------------------------------------------------------------------------
(* Whatever is tried from how many addresses, for however many names, and   *)
(* however the requests overlap: the wrong passwords the console passes on  *)
(* in any window exceed _LOGIN_GLOBAL_MAX at most by the requests it was    *)
(* serving, and a success in between does not make room for more.           *)
GuessesBounded == AllOf(guesses) <= MaxGlobal + Cardinality(Threads) - 1

(* The backend's lockout: MaxFails wrong passwords for a name within the    *)
(* window lock it, provided that no two failures were counted at the same   *)
(* time and none was dropped.                                               *)
LocksWithoutOverlap == ~overlapped => AllOf(wrong) < MaxFails

(* What a guesser of passwords is up against.                               *)
GuessingIsSlowed == ThrottleTypeOK /\ GuessesBounded /\ LocksWithoutOverlap
=============================================================================
