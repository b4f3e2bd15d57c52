----------------------------- MODULE FleetCache -----------------------------
(***************************************************************************)
(* The web console's fleet caches (server.py: fleet_health, fleet_posture,  *)
(* fleet_updates, the priming loop and the scheduled scans).  The three are *)
(* one design: a cached sweep is served while it is younger than its time   *)
(* to live and covers the hosts enrolled now; otherwise one thread at a     *)
(* time probes the fleet and stores what it found.  A scheduled scan probes *)
(* without the lock and merges its result under it.                         *)
(*                                                                         *)
(* A reading is the time at which it was taken.  Every request, round of    *)
(* the priming loop and scheduled scan is a task, numbered in the order in  *)
(* which they start.                                                        *)
(***************************************************************************)
EXTENDS Integers, FiniteSets

CONSTANTS
    FleetHosts,   \* host ids
    CacheTtl,     \* _HEALTH_TTL, _POSTURE_TTL, _UPDATES_TTL
    MemoTtl,      \* _FLEET_IDS_TTL
    StoreMaxAge,  \* _HEALTH_STORE_MAX_AGE (0 for the caches that always probe)
    MaxTasks,     \* bound: tasks
    MaxClock,     \* bound: time
    MaxTrouble    \* bound: enrollments, removals and outages

ASSUME CacheBounds ==
    /\ IsFiniteSet(FleetHosts)
    /\ {CacheTtl, MemoTtl, StoreMaxAge, MaxTasks, MaxClock, MaxTrouble} \subseteq Nat

VARIABLES
    now,        \* the clock
    enrolled,   \* hosts the controller lists
    since,      \* host -> when it was last enrolled or removed
    answers,    \* does the controller answer?
    idsMemo,       \* _FLEET_IDS_CACHE
    cached,     \* host -> reading (-1: not in the cache); _*_CACHE["hosts"]
    stamp,      \* _*_CACHE["ts"]; -1 before the first sweep
    probes,      \* task -> what it does; "probe" holds the lock
    lastSweep,  \* history: when the last sweep under the lock began
    late,       \* history: hosts whose reading was merged by a scan that had begun
                \* before the last sweep, or before the stamp
    trouble     \* rosters changed, outages

fleetVars == <<now, enrolled, since, answers, idsMemo, cached, stamp, probes, lastSweep, late, trouble>>

TaskIds == 1..MaxTasks
Never   == -1 - MemoTtl
Readings == [FleetHosts -> -1..MaxClock]
Absent  == [h \in FleetHosts |-> -1]
Listed(r) == {h \in FleetHosts : r[h] # -1}
Kinds   == {"load", "refresh", "prime", "full", "scan"}
Blank   == [kind |-> "load", at |-> "unborn", came |-> 0, knows |-> FALSE, ids |-> {},
            list |-> {}, start |-> 0]

FleetTypeOK ==
    /\ now \in 0..MaxClock /\ enrolled \subseteq FleetHosts
    /\ since \in [FleetHosts -> Never..MaxClock] /\ answers \in BOOLEAN
    /\ idsMemo \in [ids : SUBSET FleetHosts, at : -1..MaxClock]
    /\ cached \in Readings /\ stamp \in -1..MaxClock
    /\ probes \in [TaskIds -> [kind : Kinds,
                   at : {"unborn", "lock", "probe", "merge", "hit", "done", "failed"},
                   came : 0..MaxClock, knows : BOOLEAN, ids : SUBSET FleetHosts,
                   list : SUBSET FleetHosts, start : 0..MaxClock]]
    /\ lastSweep \in -1..MaxClock /\ late \subseteq FleetHosts /\ trouble \in 0..MaxTrouble

FleetInit ==
    /\ now = 0 /\ enrolled \in SUBSET FleetHosts /\ since = [h \in FleetHosts |-> Never]
    /\ answers = TRUE
    /\ idsMemo = [ids |-> {}, at |-> -1]
    /\ cached = Absent /\ stamp = -1
    /\ probes = [t \in TaskIds |-> Blank]
    /\ lastSweep = -1 /\ late = {} /\ trouble = 0

-----------------------------------------------------------------------------
Becomes(t, r) == probes' = [probes EXCEPT ![t] = r]
EndsProbe(t, how)  == Becomes(t, [Blank EXCEPT !.at = how])
Unlocked      == \A t \in TaskIds : probes[t].at # "probe"

(* _cache_covers: what the cache holds is exactly the fleet; taken for      *)
(* granted when the controller could not be asked.                          *)
MutCovers(knows, ids) == TRUE
Covers(knows, ids) == knows => Listed(cached) = ids

(* _fresh                                                                   *)
MutFresh(kind, knows, ids) ==
    /\ kind \in {"load", "refresh"}
    /\ stamp # -1 /\ now - stamp < CacheTtl
    /\ Covers(knows, ids)
Fresh(kind, knows, ids) ==
    /\ kind = "load"
    /\ stamp # -1 /\ now - stamp < CacheTtl
    /\ Covers(knows, ids)

(* _fleet_ids_or_none                                                       *)
Remembered == idsMemo.at # -1 /\ now - idsMemo.at < MemoTtl
NextTask(t) == probes[t].at = "unborn" /\ \A u \in TaskIds : u < t => probes[u].at # "unborn"

Knows == Remembered \/ answers
Ids   == IF Remembered THEN idsMemo.ids ELSE IF answers THEN enrolled ELSE {}

(* A dashboard load arrives: it asks for the ids of the fleet, then looks   *)
(* at the cache without the lock.                                           *)
Load(t) ==
    /\ NextTask(t)
    /\ idsMemo' = IF Remembered \/ ~answers THEN idsMemo ELSE [ids |-> enrolled, at |-> now]
    /\ IF Fresh("load", Knows, Ids)
       THEN EndsProbe(t, "hit")
       ELSE Becomes(t, [Blank EXCEPT !.at = "lock", !.came = now, !.knows = Knows, !.ids = Ids])
    /\ UNCHANGED <<now, enrolled, since, answers, cached, stamp, lastSweep, late, trouble>>

(* ?refresh=1, and a round of the priming loop: neither looks first.        *)
Demand(t, kind) ==
    /\ NextTask(t)
    /\ Becomes(t, [Blank EXCEPT !.kind = kind, !.at = "lock", !.came = now])
    /\ UNCHANGED <<now, enrolled, since, answers, idsMemo, cached, stamp, lastSweep, late, trouble>>

(* Inside the lock: look again (the priming loop does not), else list the   *)
(* hosts; the time stamp is taken before the probes.                        *)
MutSecondLook(q) == FALSE
SecondLook(q) == Fresh(q.kind, q.knows, q.ids)
Lock(t) ==
    /\ probes[t].at = "lock" /\ Unlocked
    /\ LET q == probes[t] IN
       IF SecondLook(q)
       THEN EndsProbe(t, "hit") /\ UNCHANGED lastSweep
       ELSE IF answers
       THEN /\ Becomes(t, [q EXCEPT !.at = "probe", !.list = enrolled, !.start = now])
            /\ lastSweep' = now
       ELSE EndsProbe(t, "failed") /\ UNCHANGED lastSweep          \* 502
    /\ UNCHANGED <<now, enrolled, since, answers, idsMemo, cached, stamp, late, trouble>>

(* What the probes of a task may bring: the host answers some time after    *)
(* they began, or, without ?refresh, has sent a recent enough reading with  *)
(* its heartbeat.                                                           *)
Live(kind) == kind # "load" /\ kind # "prime"
Found(q) ==
    LET oldest == IF Live(q.kind) THEN q.start ELSE q.start - StoreMaxAge
    IN {r \in [FleetHosts -> {-1} \cup {w \in 0..now : w >= oldest}] : Listed(r) = q.list}

(* The sweep replaces the cache and answers with what it found.             *)
Store(t) ==
    /\ probes[t].at = "probe"
    /\ cached' \in Found(probes[t])
    /\ stamp' = probes[t].start /\ late' = {}
    /\ EndsProbe(t, "done")
    /\ UNCHANGED <<now, enrolled, since, answers, idsMemo, lastSweep, trouble>>

(* A scheduled scan, of the whole fleet or of the hosts it names, probes    *)
(* without the lock and merges.  Only a full one sets the time stamp.       *)
Scan(t, some) ==
    /\ NextTask(t) /\ answers
    /\ some \subseteq enrolled /\ some # {}
    /\ \E kind \in {"full", "scan"} :
         /\ kind = "full" => some = enrolled
         /\ Becomes(t, [Blank EXCEPT !.kind = kind, !.at = "merge", !.list = some, !.start = now])
    /\ UNCHANGED <<now, enrolled, since, answers, idsMemo, cached, stamp, lastSweep, late, trouble>>

MutStamped(q) == q.start
Stamped(q) == IF q.kind = "full" THEN q.start ELSE stamp
Merge(t) ==
    /\ probes[t].at = "merge" /\ Unlocked
    /\ \E r \in Found(probes[t]) :
         cached' = [h \in FleetHosts |-> IF r[h] # -1 THEN r[h] ELSE cached[h]]
    /\ stamp' = Stamped(probes[t])
    /\ late' = IF probes[t].start < stamp \/ probes[t].start < lastSweep
               THEN late \cup probes[t].list ELSE late \ probes[t].list
    /\ EndsProbe(t, "done")
    /\ UNCHANGED <<now, enrolled, since, answers, idsMemo, lastSweep, trouble>>

-----------------------------------------------------------------------------
Troubled == trouble < MaxTrouble /\ trouble' = trouble + 1

Roster(h) ==
    /\ Troubled
    /\ enrolled' = IF h \in enrolled THEN enrolled \ {h} ELSE enrolled \cup {h}
    /\ since' = [since EXCEPT ![h] = now]
    /\ UNCHANGED <<now, answers, idsMemo, cached, stamp, probes, lastSweep, late>>

Outage ==
    /\ IF answers THEN Troubled ELSE UNCHANGED trouble
    /\ answers' = ~answers
    /\ UNCHANGED <<now, enrolled, since, idsMemo, cached, stamp, probes, lastSweep, late>>

ClockTicks ==
    /\ now < MaxClock /\ now' = now + 1
    /\ UNCHANGED <<enrolled, since, answers, idsMemo, cached, stamp, probes, lastSweep, late, trouble>>

FleetNext ==
    \/ \E t \in TaskIds :
         \/ Load(t) \/ Lock(t) \/ Store(t) \/ Merge(t)
         \/ \E kind \in {"refresh", "prime"} : Demand(t, kind)
         \/ \E some \in SUBSET FleetHosts : Scan(t, some)
    \/ \E h \in FleetHosts : Roster(h)
    \/ Outage \/ ClockTicks

FleetSpec == FleetInit /\ [][FleetNext]_fleetVars

-----------------------------------------------------------------------------
(* The step in which a load is answered from the cache, when it came, and   *)
(* whether it knew the fleet.                                               *)
Hit(t)  == probes[t].at # "hit" /\ probes'[t].at = "hit"
Came(t) == IF probes[t].at = "unborn" THEN now ELSE probes[t].came
Knew(t) == IF probes[t].at = "unborn" THEN Knows ELSE probes[t].knows

(* An answer from the cache shows the fleet as it is: a host that was       *)
(* enrolled, or removed, longer than the memo's life before the request     *)
(* came is in it, or is not (the Update Hosts page that went on showing     *)
(* three hosts, _fleet_ids_or_none).                                        *)
ServedCoversFleet ==
    [][\A t \in TaskIds : Hit(t) /\ Knew(t) =>
         \A h \in FleetHosts : since[h] + MemoTtl < Came(t) =>
            (h \in enrolled <=> cached[h] # -1)]_fleetVars

(* A reading served from the cache is at most as old as the time to live    *)
(* (and the heartbeat's age) allow, except that a scan which was slower     *)
(* than a later sweep puts its older readings over the newer ones, and that *)
(* the old reading of a host that was removed and came back is kept by a    *)
(* full scan that did not list it, which sets the time stamp.               *)
ServedIsRecent ==
    [][\A t \in TaskIds : Hit(t) =>
         \A h \in FleetHosts : cached[h] # -1 /\ since[h] = Never /\ h \notin late
            => now - cached[h] < CacheTtl + StoreMaxAge]_fleetVars

(* A refresh shows nothing that was measured before it was asked for.       *)
RefreshIsLive ==
    [][\A t \in TaskIds : probes[t].kind = "refresh" /\ probes'[t].at \in {"done", "hit"} =>
         \A h \in FleetHosts : cached'[h] # -1 => cached'[h] >= probes[t].came]_fleetVars

(* A burst of loads makes one sweep: a load begins another one only when    *)
(* the last is older than the time to live, the fleet has changed since     *)
(* shortly before the last sweep or before the load came, or a scan has     *)
(* merged later than the sweep what it had measured before.                 *)
BurstSweepsOnce ==
    [][\A t \in TaskIds :
         probes[t].kind = "load" /\ probes'[t].at = "probe" /\ probes[t].at = "lock" =>
            \/ lastSweep = -1 \/ now - lastSweep >= CacheTtl
            \/ \E h \in FleetHosts : \/ since[h] + MemoTtl >= lastSweep
                                     \/ since[h] + MemoTtl >= probes[t].came
            \/ stamp < lastSweep \/ late # {}]_fleetVars

(* What the console shows from its caches is the fleet, and recent; and the *)
(* caches do what they are for.                                             *)
CacheIsTrue ==
    []FleetTypeOK /\ ServedCoversFleet /\ ServedIsRecent /\ RefreshIsLive /\ BurstSweepsOnce
=============================================================================
