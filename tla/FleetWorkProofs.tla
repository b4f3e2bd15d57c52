-------------------------- MODULE FleetWorkProofs --------------------------
(***************************************************************************)
(* Proofs about MCFleetWork and the components it composes, for any fleet,  *)
(* any number of requests, runs, jobs, forms and tasks, any times to live   *)
(* and any number of things that go wrong.                                  *)
(*                                                                         *)
(* Rolling: the rules speak of the pool; the run decides by its book.  The  *)
(* invariant says how far the book and the pool are apart: never by more    *)
(* than the members lost otherwise, and never in the members a batch has    *)
(* not taken.  Dispatch: an order works on lists read at three moments; the *)
(* invariant says what each of them still shares with the page its target   *)
(* was picked from, and what each line of its report stands for.            *)
(* Schedules: what the loop has listed was due when it looked, and what was *)
(* started of a job is neither stored nor in hand again.  Alerts: what has  *)
(* been told is the state in the file but between its two writes.  Caches:  *)
(* what a task holds is the fleet as it was when the task took it, and only *)
(* one task sweeps.  Desired state: what has not run is to be run, a second *)
(* run is that of a first one, and the counts are those of the first.       *)
(*                                                                         *)
(* A component is followed or rests: either way its step is a step of its   *)
(* own or none, and what its own specification keeps, the whole keeps.      *)
(***************************************************************************)
EXTENDS MCFleetWork, FiniteSetTheorems, SequenceTheorems, TLAPS

-----------------------------------------------------------------------------
(* Rolling runs.                                                            *)

(* The members of the first g batches, and of the one under way.            *)
Before(g) == {h \in Members : h <= g * MaxUnavailable}
InBatch   == Batch(roll.batch)

(* Where the run is: what it has left to do, what it has drained, and what  *)
(* it has put back again.                                                   *)
Shape ==
    /\ roll.out \subseteq InBatch
    /\ roll.batch = 0 => acted = {} /\ leftDrained = {}
    /\ At("preflight") => /\ roll.batch = 0 /\ rolled = {} /\ roll.out = {}
                          /\ inRotation = Members
    /\ roll.phase \in {"drain", "act", "settle", "health", "undrain"} =>
          roll.batch > 0 /\ roll.todo # {}
    /\ At("drain") => roll.out \cup roll.todo = InBatch
    /\ roll.phase \in {"act", "settle", "health", "undrain"} =>
          roll.out = InBatch /\ roll.todo \subseteq roll.out
    /\ roll.phase \in {"drain", "act", "settle", "health"} => rolled = Before(roll.batch - 1)
    /\ At("undrain") => rolled = Before(roll.batch - 1) \cup (roll.out \ roll.todo)
    /\ At("batch") => rolled = Before(roll.batch)
    /\ roll.end = "ok" => rolled = Members /\ At("end")

(* Whom the action was tried on, and who has passed the check.              *)
Tried ==
    /\ acted \subseteq rolled \cup roll.out
    /\ roll.phase \in {"batch", "drain"} => acted \subseteq rolled
    /\ At("health")  => roll.out \ roll.todo \subseteq up \cap proven
    /\ At("undrain") => roll.todo \subseteq up \cap proven

(* Who is out of rotation, and who cannot be in it.                         *)
Rotation ==
    /\ roll.phase \in {"drain", "act", "settle", "health"} =>
          Members \ inRotation \subseteq roll.out \cup losses
    /\ At("undrain") => Members \ inRotation \subseteq roll.todo \cup losses
    /\ At("batch")   => Members \ inRotation \subseteq losses
    /\ At("back")    => Members \ inRotation \subseteq roll.todo \cup faulty \cup losses
    /\ At("end")     => Members \ inRotation \subseteq faulty \cup losses
    /\ roll.phase \in {"drain", "act"} => roll.out \cap inRotation = {}

(* The book against the pool.                                               *)
Book ==
    /\ healthyNow \subseteq (up \cap inRotation) \cup losses
    /\ (leftDrained \ losses) = (Members \ inRotation) \ losses
    /\ roll.phase \in {"act", "settle", "health"} => healthyNow \cap roll.out = {}
    /\ At("drain") => healthyNow \cap roll.out = {}
    /\ At("undrain") => healthyNow \cap roll.todo = {}
    /\ roll.batch > 0 => Cardinality(healthyNow \ InBatch) >= MinHealthy

RollInv == RollingTypeOK /\ Shape /\ Tried /\ Rotation /\ Book /\ FailedStaysOut

-----------------------------------------------------------------------------
(* The order of the members, and the batches.                               *)

LEMMA MembersFinite == Members \subseteq Nat /\ IsFiniteSet(Members)
  BY RollingBounds, FS_Interval DEF Members

(* The run takes the first member of what is left.                          *)
LEMMA FirstIsOne ==
    ASSUME NEW S \in SUBSET Members, S # {}
    PROVE  First(S) \in S
<1>1. S \subseteq Nat
  BY MembersFinite
<1>2. PICK h \in S : \A i \in S : ~(<<i, h>> \in OpToRel(<, Nat))
  BY <1>1, WFMin, NatLessThanWellFounded, Zenon
<1>3. \A i \in S : ~(i < h)
  BY <1>1, <1>2 DEF OpToRel
<1>4. \A i \in S : h <= i
  BY <1>1, <1>3
<1> QED
  BY <1>4 DEF First

(* One batch after the other, and none twice.                               *)
LEMMA Batches ==
    ASSUME NEW g \in Nat
    PROVE  /\ Batch(g) \subseteq Members /\ Batch(g + 1) \subseteq Members
           /\ Before(g + 1) = Before(g) \cup Batch(g + 1)
           /\ Before(g) \cap Batch(g + 1) = {}
           /\ Before(0) = {}
           /\ Batch(g + 1) = {} => Before(g) = Members
           /\ Batch(g + 1) # {} => g + 1 \in 0..PoolSize
<1>1. PICK m : m = g * MaxUnavailable
  OBVIOUS
<1>2. m \in Nat /\ (g + 1) * MaxUnavailable = m + MaxUnavailable /\ m >= g
  BY <1>1, RollingBounds DEF PoolIsValid
<1>3. (g + 1) - 1 = g
  OBVIOUS
<1>4. Batch(g + 1) = {h \in Members : m < h /\ h <= m + MaxUnavailable}
  BY <1>1, <1>2, <1>3 DEF Batch
<1>5. /\ Before(g) = {h \in Members : h <= m}
      /\ Before(g + 1) = {h \in Members : h <= m + MaxUnavailable}
  BY <1>1, <1>2 DEF Before
<1>6. Batch(g) \subseteq Members /\ Batch(g + 1) \subseteq Members
  BY DEF Batch
<1>7. Before(g + 1) = Before(g) \cup Batch(g + 1) /\ Before(g) \cap Batch(g + 1) = {}
  <2>1. ASSUME NEW h \in Members
        PROVE  /\ h <= m + MaxUnavailable <=> h <= m \/ (m < h /\ h <= m + MaxUnavailable)
               /\ ~(h <= m /\ m < h)
    BY <1>2, MembersFinite, RollingBounds
  <2> QED
    BY <1>4, <1>5, <2>1
<1>8. Before(0) = {}
  BY RollingBounds DEF Before, Members
<1>9. ASSUME Batch(g + 1) = {} PROVE Before(g) = Members
  <2>1. m + 1 \notin Members
    BY <1>2, <1>4, <1>9, RollingBounds DEF PoolIsValid
  <2>2. \A h \in Members : h <= m
    BY <1>2, <2>1, RollingBounds DEF Members
  <2> QED
    BY <1>5, <2>2
<1>10. ASSUME Batch(g + 1) # {} PROVE g + 1 \in 0..PoolSize
  BY <1>2, <1>4, <1>10, RollingBounds DEF Members
<1> QED
  BY <1>6, <1>7, <1>8, <1>9, <1>10

(* A batch is no longer than max_unavailable.                               *)
LEMMA BatchSize ==
    ASSUME NEW g \in Nat, NEW S \in SUBSET Batch(g)
    PROVE  Cardinality(S) <= MaxUnavailable
<1>1. PICK m : m = (g - 1) * MaxUnavailable
  OBVIOUS
<1>2. m \in Int /\ g * MaxUnavailable = m + MaxUnavailable
  BY <1>1, RollingBounds
<1>3. S \subseteq (m + 1)..(m + MaxUnavailable)
  BY <1>1, <1>2, MembersFinite DEF Batch
<1>4. /\ IsFiniteSet((m + 1)..(m + MaxUnavailable))
      /\ Cardinality((m + 1)..(m + MaxUnavailable)) = MaxUnavailable
  BY <1>2, RollingBounds, FS_Interval DEF PoolIsValid
<1>5. Cardinality(S) <= Cardinality((m + 1)..(m + MaxUnavailable))
  BY <1>3, <1>4, FS_Subset
<1> QED
  BY <1>4, <1>5

(* Counting sets of members.                                                *)
LEMMA Counting ==
    ASSUME NEW S \in SUBSET Members, NEW T \in SUBSET S
    PROVE  /\ IsFiniteSet(S) /\ IsFiniteSet(T)
           /\ Cardinality(S) \in Nat /\ Cardinality(T) \in Nat
           /\ Cardinality(T) <= Cardinality(S)
           /\ Cardinality(S \ T) = Cardinality(S) - Cardinality(T)
<1>1. IsFiniteSet(S)
  BY MembersFinite, FS_Subset
<1>2. IsFiniteSet(T) /\ Cardinality(T) <= Cardinality(S)
  BY <1>1, FS_Subset
<1>3. S \cap T = T
  OBVIOUS
<1>4. Cardinality(S \ T) = Cardinality(S) - Cardinality(S \cap T)
  BY <1>1, FS_Difference
<1> QED
  BY <1>1, <1>2, <1>3, <1>4, FS_CardinalityType

-----------------------------------------------------------------------------
(* The steps, as they change the run's own record.                          *)

LEMMA DoneRoll ==
    ASSUME RollingTypeOK, NEW h \in roll.todo, NEW next \in Phases, Done(h, next)
    PROVE  /\ roll'.batch = roll.batch /\ roll'.out = roll.out /\ roll'.end = roll.end
           /\ \/ roll.todo = {h} /\ roll'.phase = next /\ roll'.todo = roll.out
              \/ /\ roll.todo # {h} /\ roll'.phase = roll.phase
                 /\ roll'.todo = roll.todo \ {h} /\ roll'.todo # {}
           /\ roll' \in [phase : Phases, batch : 0..PoolSize, todo : SUBSET Members,
                         out : SUBSET Members, end : Ends]
  BY DEF RollingTypeOK, Done

LEMMA BailRoll ==
    ASSUME RollingTypeOK, NEW blamed, NEW e \in Ends, Bail(blamed, e)
    PROVE  /\ roll'.batch = roll.batch /\ roll'.out = roll.out /\ roll'.end = e
           /\ roll'.phase = "back" /\ roll'.todo = roll.out \ blamed
           /\ roll' \in [phase : Phases, batch : 0..PoolSize, todo : SUBSET Members,
                         out : SUBSET Members, end : Ends]
  BY DEF RollingTypeOK, Bail, ToPutBack, Phases

LEMMA EndRoll ==
    ASSUME RollingTypeOK, NEW e \in Ends, EndWith(e)
    PROVE  /\ roll'.batch = roll.batch /\ roll'.out = roll.out /\ roll'.end = e
           /\ roll'.phase = "end" /\ roll'.todo = roll.todo
           /\ roll' \in [phase : Phases, batch : 0..PoolSize, todo : SUBSET Members,
                         out : SUBSET Members, end : Ends]
  BY DEF RollingTypeOK, EndWith, Phases

(* The floor the book keeps under a batch that is under way.                *)
LEMMA FloorKept ==
    ASSUME RollInv, roll'.batch = roll.batch, healthyNow' \subseteq Members,
           healthyNow \ InBatch \subseteq healthyNow'
    PROVE  roll'.batch > 0 => Cardinality(healthyNow' \ InBatch') >= MinHealthy
<1> SUFFICES ASSUME roll.batch > 0
             PROVE  Cardinality(healthyNow' \ InBatch) >= MinHealthy
  BY DEF InBatch, Batch
<1>1. Cardinality(healthyNow \ InBatch) >= MinHealthy
  BY DEF RollInv, Book
<1>2. /\ Cardinality(healthyNow \ InBatch) \in Nat
      /\ Cardinality(healthyNow' \ InBatch) \in Nat
      /\ Cardinality(healthyNow \ InBatch) <= Cardinality(healthyNow' \ InBatch)
  BY Counting
<1> QED
  BY <1>1, <1>2, RollingBounds

LEMMA KeptPreflight ==
    ASSUME RollInv, Preflight
    PROVE  RollInv'
<1>1. PICK gone \in {{}} \cup {{h} : h \in up} :
        /\ \A h \in gone : Lose(h)
        /\ gone = {} => UNCHANGED losses
        /\ healthyNow' = up \ gone
        /\ IF healthyNow' = {} \/ (healthyNow' # Members /\ ~degraded)
           THEN EndWith("refused") ELSE Enter("batch", {})
  BY DEF Preflight
<1>2. losses' \subseteq Members /\ losses \subseteq losses' /\ gone \subseteq losses'
  <2>1. CASE gone = {}
    BY <1>1, <2>1 DEF RollInv, RollingTypeOK
  <2>2. ASSUME NEW h \in up, gone = {h}
        PROVE  losses' \subseteq Members /\ losses \subseteq losses' /\ gone \subseteq losses'
    <3>1. Lose(h)
      BY <1>1, <2>2
    <3> QED
      BY <2>2, <3>1 DEF Lose, RollInv, RollingTypeOK
  <2> QED
    BY <2>1, <2>2
<1>3. /\ roll'.batch = 0 /\ roll'.out = {} /\ roll'.phase \in {"batch", "end"}
      /\ roll'.end # "ok"
      /\ roll' \in [phase : Phases, batch : 0..PoolSize, todo : SUBSET Members,
                    out : SUBSET Members, end : Ends]
  <2>1. roll.batch = 0 /\ roll.out = {} /\ roll.end # "ok"
    BY DEF RollInv, Shape, Preflight, At
  <2>2. CASE EndWith("refused")
    BY <2>1, <2>2, EndRoll DEF RollInv, Ends
  <2>3. CASE Enter("batch", {})
    BY <2>1, <2>3 DEF RollInv, RollingTypeOK, Enter, Phases
  <2> QED
    BY <1>1, <2>2, <2>3
<1>4. RollingTypeOK'
  BY <1>1, <1>2, <1>3 DEF RollInv, RollingTypeOK, Preflight, book, rollHist
<1>5. Shape'
  BY <1>3, Batches DEF RollInv, Shape, Preflight, At, book, rollHist
<1>6. Tried' /\ Rotation' /\ FailedStaysOut'
  BY <1>2, <1>3 DEF RollInv, Shape, Tried, Rotation, FailedStaysOut, Preflight, At, rollHist
<1>7. Book'
  BY <1>1, <1>2, <1>3 DEF RollInv, RollingTypeOK, Shape, Book, Preflight, At, book
<1> QED
  BY <1>4, <1>5, <1>6, <1>7 DEF RollInv

LEMMA KeptNextBatch ==
    ASSUME RollInv, NextBatch
    PROVE  RollInv'
<1> DEFINE batch == Batch(roll.batch + 1)
<1>b. roll.batch \in Nat /\ batch \subseteq Members
  BY Batches DEF RollInv, RollingTypeOK
<1>u. UNCHANGED <<up, inRotation, healthyNow, leftDrained, rolled, degraded, cancelAsked,
                  acted, proven, faulty, losses>>
  BY DEF NextBatch, book, rollHist
<1>1. ASSUME NEW e \in {"ok", "cancelled", "failed"}, EndWith(e), e = "ok" => batch = {}
      PROVE  RollInv'
  <2>1. /\ roll'.batch = roll.batch /\ roll'.out = roll.out /\ roll'.end = e
        /\ roll'.phase = "end"
        /\ roll' \in [phase : Phases, batch : 0..PoolSize, todo : SUBSET Members,
                      out : SUBSET Members, end : Ends]
    BY <1>1, EndRoll DEF RollInv, Ends
  <2>2. RollingTypeOK'
    BY <1>u, <2>1 DEF RollInv, RollingTypeOK
  <2>3. InBatch' = InBatch
    BY <2>1 DEF InBatch, Batch
  <2>4. e = "ok" => rolled = Members
    BY <1>1, <1>b, Batches DEF RollInv, Shape, NextBatch, At
  <2>5. Shape'
    BY <1>u, <2>1, <2>3, <2>4 DEF RollInv, Shape, At
  <2>6. Tried' /\ Rotation' /\ FailedStaysOut'
    BY <1>u, <2>1 DEF RollInv, Tried, Rotation, FailedStaysOut, NextBatch, At
  <2>7. Book'
    BY <1>u, <2>1, <2>3 DEF RollInv, Book, At
  <2> QED
    BY <2>2, <2>5, <2>6, <2>7 DEF RollInv
<1>2. CASE /\ batch # {} /\ FloorHolds(batch \cap healthyNow)
           /\ roll' = [roll EXCEPT !.phase = "drain", !.batch = @ + 1, !.todo = batch,
                                   !.out = {}]
  <2>1. /\ roll'.batch = roll.batch + 1 /\ roll'.out = {} /\ roll'.end = roll.end
        /\ roll'.phase = "drain" /\ roll'.todo = batch
        /\ roll' \in [phase : Phases, batch : 0..PoolSize, todo : SUBSET Members,
                      out : SUBSET Members, end : Ends]
    BY <1>b, <1>2, Batches DEF RollInv, RollingTypeOK, Phases
  <2>2. RollingTypeOK'
    BY <1>u, <2>1 DEF RollInv, RollingTypeOK
  <2>3. InBatch' = batch /\ roll'.batch - 1 = roll.batch
    BY <1>b, <2>1 DEF InBatch, Batch
  <2>4. Shape'
    BY <1>b, <1>u, <1>2, <2>1, <2>3 DEF RollInv, Shape, At, NextBatch, Before
  <2>5. Tried' /\ Rotation' /\ FailedStaysOut'
    BY <1>u, <2>1 DEF RollInv, Shape, Tried, Rotation, FailedStaysOut, NextBatch, At
  <2>6. Cardinality(healthyNow \ batch) >= MinHealthy
    <3>1. healthyNow \subseteq Members /\ healthyNow \ batch = healthyNow \ (batch \cap healthyNow)
      BY DEF RollInv, RollingTypeOK
    <3>2. Cardinality(healthyNow \ batch)
            = Cardinality(healthyNow) - Cardinality(batch \cap healthyNow)
      BY <3>1, Counting
    <3> QED
      BY <1>2, <3>2 DEF FloorHolds
  <2>7. Book'
    BY <1>u, <2>1, <2>3, <2>6 DEF RollInv, Book, At
  <2> QED
    BY <2>2, <2>4, <2>5, <2>7 DEF RollInv
<1> QED
  BY <1>1, <1>2 DEF NextBatch

(* A member is told to leave; whether or not the call then fails.           *)
LEMMA KeptDrain ==
    ASSUME RollInv, Drain
    PROVE  RollInv'
<1> DEFINE h == First(roll.todo)
<1>h. h \in roll.todo /\ h \in Members /\ h \in InBatch
  BY FirstIsOne DEF RollInv, RollingTypeOK, Shape, Drain, At
<1>u. UNCHANGED <<up, rolled, degraded, cancelAsked, acted, proven, faulty>> /\ At("drain")
  BY DEF Drain, rollHist
<1> HIDE DEF h
<1>1. CASE /\ inRotation' = inRotation \ {h}
           /\ healthyNow' = healthyNow \ {h}
           /\ leftDrained' = leftDrained \cup {h}
           /\ roll' = IF roll.todo = {h}
                      THEN [roll EXCEPT !.phase = "act", !.out = @ \cup {h},
                                        !.todo = roll.out \cup {h}]
                      ELSE [roll EXCEPT !.out = @ \cup {h}, !.todo = @ \ {h}]
           /\ UNCHANGED losses
  <2>1. /\ roll'.batch = roll.batch /\ roll'.out = roll.out \cup {h} /\ roll'.end = roll.end
        /\ \/ roll.todo = {h} /\ roll'.phase = "act" /\ roll'.todo = roll.out \cup {h}
           \/ /\ roll.todo # {h} /\ roll'.phase = "drain" /\ roll'.todo = roll.todo \ {h}
              /\ roll'.todo # {}
        /\ roll' \in [phase : Phases, batch : 0..PoolSize, todo : SUBSET Members,
                      out : SUBSET Members, end : Ends]
    BY <1>1, <1>h, <1>u DEF RollInv, RollingTypeOK, Phases, At
  <2>2. RollingTypeOK'
    BY <1>1, <1>h, <1>u, <2>1 DEF RollInv, RollingTypeOK
  <2>3. InBatch' = InBatch /\ Before(roll.batch - 1)' = Before(roll.batch - 1)
    BY <2>1 DEF InBatch, Batch, Before
  <2>4. Shape'
    BY <1>h, <1>u, <1>1, <2>1, <2>3 DEF RollInv, Shape, At
  <2>5. Tried' /\ Rotation' /\ FailedStaysOut'
    BY <1>u, <1>1, <2>1 DEF RollInv, Tried, Rotation, FailedStaysOut, At
  <2>6. roll'.batch > 0 => Cardinality(healthyNow' \ InBatch') >= MinHealthy
    BY <1>h, <1>1, <2>1, FloorKept DEF RollInv, RollingTypeOK
  <2>7. Book'
    BY <1>h, <1>u, <1>1, <2>1, <2>6 DEF RollInv, RollingTypeOK, Book, At
  <2> QED
    BY <2>2, <2>4, <2>5, <2>7 DEF RollInv
<1>2. CASE /\ Lose(h)
           /\ inRotation' \in {inRotation, inRotation \ {h}}
           /\ Bail({}, "failed")
           /\ UNCHANGED <<healthyNow, leftDrained>>
  <2>1. /\ roll'.batch = roll.batch /\ roll'.out = roll.out /\ roll'.end = "failed"
        /\ roll'.phase = "back" /\ roll'.todo = roll.out
        /\ roll' \in [phase : Phases, batch : 0..PoolSize, todo : SUBSET Members,
                      out : SUBSET Members, end : Ends]
    BY <1>2, BailRoll DEF RollInv, Ends
  <2>2. losses' = losses \cup {h}
    BY <1>2 DEF Lose
  <2>3. RollingTypeOK'
    BY <1>2, <1>h, <1>u, <2>1, <2>2 DEF RollInv, RollingTypeOK
  <2>4. InBatch' = InBatch
    BY <2>1 DEF InBatch, Batch
  <2>5. Shape'
    BY <1>u, <1>2, <2>1, <2>4 DEF RollInv, Shape, At
  <2>6. Tried' /\ Rotation' /\ FailedStaysOut'
    BY <1>u, <1>2, <2>1, <2>2 DEF RollInv, Tried, Rotation, FailedStaysOut, At
  <2>7. Book'
    BY <1>h, <1>u, <1>2, <2>1, <2>2, <2>4 DEF RollInv, RollingTypeOK, Book, At
  <2> QED
    BY <2>3, <2>5, <2>6, <2>7 DEF RollInv
<1> QED
  BY <1>1, <1>2 DEF Drain, h

(* bail() from a phase whose batch is out, blaming h or nobody.             *)
LEMMA KeptBail ==
    ASSUME RollInv, roll.phase \in {"act", "settle", "health", "undrain"},
           NEW blamed \in SUBSET (faulty' \cup losses'),
           NEW e \in {"failed", "cancelled"}, Bail(blamed, e),
           UNCHANGED <<healthyNow, leftDrained, rolled, degraded, cancelAsked>>,
           acted \subseteq acted', acted' \subseteq acted \cup roll.out,
           proven' = proven, faulty \subseteq faulty', losses \subseteq losses',
           faulty' \subseteq Members, losses' \subseteq Members,
           up' \subseteq Members, up \subseteq up' \cup roll.todo,
           inRotation' \subseteq Members,
           inRotation \subseteq inRotation', inRotation' \subseteq inRotation \cup losses',
           (acted' \ acted) \cap inRotation' \subseteq losses'
    PROVE  RollInv'
<1>1. /\ roll'.batch = roll.batch /\ roll'.out = roll.out /\ roll'.end = e
      /\ roll'.phase = "back" /\ roll'.todo = roll.out \ blamed
      /\ roll' \in [phase : Phases, batch : 0..PoolSize, todo : SUBSET Members,
                    out : SUBSET Members, end : Ends]
  BY BailRoll DEF RollInv, Ends
<1>2. RollingTypeOK'
  BY <1>1 DEF RollInv, RollingTypeOK
<1>3. InBatch' = InBatch
  BY <1>1 DEF InBatch, Batch
<1>4. Shape'
  BY <1>1, <1>3 DEF RollInv, Shape, At
<1>5. Tried'
  BY <1>1 DEF RollInv, Tried, At
<1>6. Rotation'
  BY <1>1 DEF RollInv, Shape, Rotation, At
<1>7. FailedStaysOut'
  BY DEF RollInv, FailedStaysOut
<1>8. Book'
  BY <1>1, <1>3 DEF RollInv, RollingTypeOK, Shape, Book, At
<1> QED
  BY <1>2, <1>4, <1>5, <1>6, <1>7, <1>8 DEF RollInv

(* The phases in which the batch is acted on, waited for and checked.       *)
LEMMA KeptAct ==
    ASSUME RollInv, Act
    PROVE  RollInv'
<1> DEFINE h == First(roll.todo)
<1>h. h \in roll.todo /\ h \in Members /\ h \in roll.out
  BY FirstIsOne DEF RollInv, RollingTypeOK, Shape, Act, At
<1>u. UNCHANGED <<inRotation, healthyNow, leftDrained, rolled, degraded, cancelAsked, proven,
                  losses>> /\ At("act")
  BY DEF Act, book
<1> HIDE DEF h
<1>1. CASE Bail({}, "cancelled") /\ UNCHANGED <<up, acted, faulty>>
  BY <1>1, <1>u, KeptBail DEF RollInv, RollingTypeOK, At
<1>2. ASSUME acted' = acted \cup {h}, up' \in {up \cup {h}, up \ {h}}
      PROVE  Bail({h}, "failed") /\ faulty' = faulty \cup {h} => RollInv'
  <2>1. h \notin inRotation
    BY <1>h, <1>u DEF RollInv, Rotation, At
  <2> QED
    BY <1>2, <1>h, <1>u, <2>1, KeptBail DEF RollInv, RollingTypeOK, At
<1>3. CASE acted' = acted \cup {h} /\ up' \in {up \cup {h}, up \ {h}}
           /\ Done(h, "settle") /\ faulty' = faulty
  <2>1. /\ roll'.batch = roll.batch /\ roll'.out = roll.out /\ roll'.end = roll.end
        /\ \/ roll.todo = {h} /\ roll'.phase = "settle" /\ roll'.todo = roll.out
           \/ /\ roll'.phase = "act" /\ roll'.todo = roll.todo \ {h} /\ roll'.todo # {}
        /\ roll' \in [phase : Phases, batch : 0..PoolSize, todo : SUBSET Members,
                      out : SUBSET Members, end : Ends]
    BY <1>3, <1>h, <1>u, DoneRoll DEF RollInv, Phases, At
  <2>2. RollingTypeOK'
    BY <1>h, <1>3, <1>u, <2>1 DEF RollInv, RollingTypeOK
  <2>3. InBatch' = InBatch /\ Before(roll.batch - 1)' = Before(roll.batch - 1)
    BY <2>1 DEF InBatch, Batch, Before
  <2>4. Shape'
    BY <1>h, <1>u, <1>3, <2>1, <2>3 DEF RollInv, Shape, At
  <2>5. Tried' /\ Rotation' /\ FailedStaysOut'
    BY <1>h, <1>u, <1>3, <2>1 DEF RollInv, Tried, Rotation, FailedStaysOut, At
  <2>6. Book'
    BY <1>h, <1>u, <1>3, <2>1, <2>3 DEF RollInv, RollingTypeOK, Book, At
  <2> QED
    BY <2>2, <2>4, <2>5, <2>6 DEF RollInv
<1> QED
  BY <1>1, <1>2, <1>3 DEF Act, h

LEMMA KeptSettle ==
    ASSUME RollInv, Settle
    PROVE  RollInv'
<1> DEFINE h == First(roll.todo)
<1>h. h \in roll.todo /\ h \in Members /\ h \in roll.out
  BY FirstIsOne DEF RollInv, RollingTypeOK, Shape, Settle, At
<1>u. UNCHANGED <<up, inRotation, healthyNow, leftDrained, rolled, degraded, cancelAsked,
                  acted, proven, losses>> /\ At("settle")
  BY DEF Settle, book
<1> HIDE DEF h
<1>1. CASE Bail({h}, "failed") /\ faulty' = faulty \cup {h}
  BY <1>1, <1>h, <1>u, KeptBail DEF RollInv, RollingTypeOK, At
<1>2. CASE Done(h, "health") /\ faulty' = faulty
  <2>1. /\ roll'.batch = roll.batch /\ roll'.out = roll.out /\ roll'.end = roll.end
        /\ \/ roll.todo = {h} /\ roll'.phase = "health" /\ roll'.todo = roll.out
           \/ /\ roll'.phase = "settle" /\ roll'.todo = roll.todo \ {h} /\ roll'.todo # {}
        /\ roll' \in [phase : Phases, batch : 0..PoolSize, todo : SUBSET Members,
                      out : SUBSET Members, end : Ends]
    BY <1>2, <1>h, <1>u, DoneRoll DEF RollInv, Phases, At
  <2>2. RollingTypeOK'
    BY <1>2, <1>u, <2>1 DEF RollInv, RollingTypeOK
  <2>3. InBatch' = InBatch /\ Before(roll.batch - 1)' = Before(roll.batch - 1)
    BY <2>1 DEF InBatch, Batch, Before
  <2>4. Shape'
    BY <1>h, <1>u, <2>1, <2>3 DEF RollInv, Shape, At
  <2>5. Tried' /\ Rotation' /\ FailedStaysOut'
    BY <1>2, <1>u, <2>1 DEF RollInv, Tried, Rotation, FailedStaysOut, At
  <2>6. Book'
    BY <1>u, <2>1, <2>3 DEF RollInv, Book, At
  <2> QED
    BY <2>2, <2>4, <2>5, <2>6 DEF RollInv
<1> QED
  BY <1>1, <1>2 DEF Settle, h

LEMMA KeptHealth ==
    ASSUME RollInv, Health
    PROVE  RollInv'
<1> DEFINE h == First(roll.todo)
<1>h. h \in roll.todo /\ h \in Members /\ h \in roll.out
  BY FirstIsOne DEF RollInv, RollingTypeOK, Shape, Health, At
<1>u. UNCHANGED <<up, inRotation, healthyNow, leftDrained, rolled, degraded, cancelAsked,
                  acted, losses>> /\ At("health")
  BY DEF Health, book
<1> HIDE DEF h
<1>1. CASE Bail({h}, "failed") /\ faulty' = faulty \cup {h} /\ proven' = proven
  BY <1>1, <1>h, <1>u, KeptBail DEF RollInv, RollingTypeOK, At
<1>2. CASE h \in up /\ Done(h, "undrain") /\ proven' = proven \cup {h} /\ faulty' = faulty
  <2>1. /\ roll'.batch = roll.batch /\ roll'.out = roll.out /\ roll'.end = roll.end
        /\ \/ roll.todo = {h} /\ roll'.phase = "undrain" /\ roll'.todo = roll.out
           \/ /\ roll'.phase = "health" /\ roll'.todo = roll.todo \ {h} /\ roll'.todo # {}
        /\ roll' \in [phase : Phases, batch : 0..PoolSize, todo : SUBSET Members,
                      out : SUBSET Members, end : Ends]
    BY <1>2, <1>h, <1>u, DoneRoll DEF RollInv, Phases, At
  <2>2. RollingTypeOK'
    BY <1>h, <1>2, <1>u, <2>1 DEF RollInv, RollingTypeOK
  <2>3. InBatch' = InBatch /\ Before(roll.batch - 1)' = Before(roll.batch - 1)
    BY <2>1 DEF InBatch, Batch, Before
  <2>4. Shape'
    BY <1>h, <1>u, <2>1, <2>3 DEF RollInv, Shape, At
  <2>5. Tried' /\ Rotation' /\ FailedStaysOut'
    BY <1>2, <1>u, <2>1 DEF RollInv, Tried, Rotation, FailedStaysOut, At
  <2>6. Book'
    BY <1>u, <2>1, <2>3 DEF RollInv, Book, At
  <2> QED
    BY <2>2, <2>4, <2>5, <2>6 DEF RollInv
<1>3. {h} \cap up = IF h \in up THEN {h} ELSE {}
  OBVIOUS
<1> QED
  BY <1>1, <1>2, <1>3 DEF Health, Fit, h

(* The batch is put back, a member at a time; rule 4 if that fails.         *)
LEMMA KeptUndrain ==
    ASSUME RollInv, Undrain
    PROVE  RollInv'
<1> DEFINE h == First(roll.todo)
<1>h. h \in roll.todo /\ h \in Members /\ h \in roll.out /\ h \in up \cap proven
  BY FirstIsOne DEF RollInv, RollingTypeOK, Shape, Tried, Undrain, At
<1>u. UNCHANGED <<up, degraded, cancelAsked, acted, proven>> /\ At("undrain")
  BY DEF Undrain
<1> HIDE DEF h
<1>1. CASE /\ Lose(h)
           /\ inRotation' \in {inRotation, inRotation \cup {h}}
           /\ faulty' = faulty \cup {h}
           /\ Bail({h}, "failed")
           /\ UNCHANGED <<leftDrained, healthyNow, rolled>>
  <2>1. losses' = losses \cup {h}
    BY <1>1 DEF Lose
  <2> QED
    BY <1>1, <1>h, <1>u, <2>1, KeptBail DEF RollInv, RollingTypeOK, At
<1>2. CASE /\ inRotation' = inRotation \cup {h}
           /\ leftDrained' = leftDrained \ {h}
           /\ healthyNow' = healthyNow \cup {h}
           /\ rolled' = rolled \cup {h}
           /\ Done(h, "batch")
           /\ UNCHANGED <<faulty, losses>>
  <2>1. /\ roll'.batch = roll.batch /\ roll'.out = roll.out /\ roll'.end = roll.end
        /\ \/ roll.todo = {h} /\ roll'.phase = "batch" /\ roll'.todo = roll.out
           \/ /\ roll'.phase = "undrain" /\ roll'.todo = roll.todo \ {h} /\ roll'.todo # {}
        /\ roll' \in [phase : Phases, batch : 0..PoolSize, todo : SUBSET Members,
                      out : SUBSET Members, end : Ends]
    BY <1>2, <1>h, <1>u, DoneRoll DEF RollInv, Phases, At
  <2>2. RollingTypeOK'
    BY <1>h, <1>2, <1>u, <2>1 DEF RollInv, RollingTypeOK
  <2>3. InBatch' = InBatch /\ Before(roll.batch - 1)' = Before(roll.batch - 1)
    BY <2>1 DEF InBatch, Batch, Before
  <2>4. roll'.phase = "batch" => rolled' = Before(roll'.batch)
    <3>1. SUFFICES ASSUME roll'.phase = "batch" PROVE rolled' = Before(roll.batch)
      BY <2>1
    <3>2. rolled' = Before(roll.batch - 1) \cup roll.out /\ roll.out = Batch(roll.batch)
      BY <1>h, <1>2, <1>u, <2>1, <3>1 DEF RollInv, Shape, InBatch, At
    <3>3. roll.batch - 1 \in Nat /\ (roll.batch - 1) + 1 = roll.batch
      BY <1>u DEF RollInv, Shape, RollingTypeOK, At
    <3>4. Before(roll.batch) = Before(roll.batch - 1) \cup Batch(roll.batch)
      BY <3>3, Batches
    <3> QED
      BY <3>2, <3>4
  <2>5. Shape'
    BY <1>h, <1>u, <1>2, <2>1, <2>3, <2>4 DEF RollInv, Shape, At
  <2>6. Tried' /\ Rotation' /\ FailedStaysOut'
    BY <1>h, <1>2, <1>u, <2>1 DEF RollInv, Shape, Tried, Rotation, FailedStaysOut, At
  <2>7. roll'.batch > 0 => Cardinality(healthyNow' \ InBatch') >= MinHealthy
    BY <1>h, <1>2, <2>1, FloorKept DEF RollInv, RollingTypeOK
  <2>8. Book'
    BY <1>h, <1>2, <1>u, <2>1, <2>7 DEF RollInv, RollingTypeOK, Book, At
  <2> QED
    BY <2>2, <2>5, <2>6, <2>8 DEF RollInv
<1> QED
  BY <1>1, <1>2 DEF Undrain, h

LEMMA KeptPutBack ==
    ASSUME RollInv, PutBack
    PROVE  RollInv'
<1>u. UNCHANGED <<up, rolled, degraded, cancelAsked, acted>> /\ At("back")
  BY DEF PutBack
<1>1. CASE /\ roll.todo = {} /\ roll' = [roll EXCEPT !.phase = "end"]
           /\ UNCHANGED <<inRotation, leftDrained, healthyNow, proven, faulty, losses>>
  <2>1. /\ roll'.batch = roll.batch /\ roll'.out = roll.out /\ roll'.end = roll.end
        /\ roll'.phase = "end" /\ roll'.todo = {}
        /\ roll' \in [phase : Phases, batch : 0..PoolSize, todo : SUBSET Members,
                      out : SUBSET Members, end : Ends]
    BY <1>1 DEF RollInv, RollingTypeOK, Phases
  <2>2. RollingTypeOK'
    BY <1>1, <1>u, <2>1 DEF RollInv, RollingTypeOK
  <2>3. InBatch' = InBatch
    BY <2>1 DEF InBatch, Batch
  <2>4. Shape'
    BY <1>1, <1>u, <2>1, <2>3 DEF RollInv, Shape, At
  <2>5. Tried' /\ Rotation' /\ FailedStaysOut'
    BY <1>1, <1>u, <2>1 DEF RollInv, Tried, Rotation, FailedStaysOut, At
  <2>6. Book'
    BY <1>1, <1>u, <2>1, <2>3 DEF RollInv, Book, At
  <2> QED
    BY <2>2, <2>4, <2>5, <2>6 DEF RollInv
<1>2. ASSUME NEW h \in roll.todo, Enter("back", roll.todo \ {h}),
             h \in Members,
             \/ /\ h \in up
                /\ inRotation' = inRotation \cup {h}
                /\ leftDrained' = leftDrained \ {h}
                /\ healthyNow' = healthyNow \cup {h}
                /\ proven' = proven \cup {h}
                /\ UNCHANGED <<faulty, losses>>
             \/ /\ h \notin up
                /\ faulty' = faulty \cup {h}
                /\ UNCHANGED <<inRotation, leftDrained, healthyNow, proven, losses>>
             \/ /\ h \in up /\ losses' = losses \cup {h}
                /\ inRotation' \in {inRotation, inRotation \cup {h}}
                /\ proven' = proven \cup {h} /\ faulty' = faulty \cup {h}
                /\ UNCHANGED <<leftDrained, healthyNow>>
      PROVE  RollInv'
  <2>1. /\ roll'.batch = roll.batch /\ roll'.out = roll.out /\ roll'.end = roll.end
        /\ roll'.phase = "back" /\ roll'.todo = roll.todo \ {h}
        /\ roll' \in [phase : Phases, batch : 0..PoolSize, todo : SUBSET Members,
                      out : SUBSET Members, end : Ends]
    BY <1>2 DEF RollInv, RollingTypeOK, Phases, Enter
  <2>2. RollingTypeOK'
    BY <1>2, <1>u, <2>1 DEF RollInv, RollingTypeOK
  <2>3. InBatch' = InBatch
    BY <2>1 DEF InBatch, Batch
  <2>4. Shape'
    BY <1>2, <1>u, <2>1, <2>3 DEF RollInv, Shape, At
  <2>5. Tried' /\ Rotation' /\ FailedStaysOut'
    BY <1>2, <1>u, <2>1 DEF RollInv, Tried, Rotation, FailedStaysOut, At
  <2>6. roll'.batch > 0 => Cardinality(healthyNow' \ InBatch') >= MinHealthy
    BY <1>2, <2>1, FloorKept DEF RollInv, RollingTypeOK
  <2>7. Book'
    BY <1>2, <1>u, <2>1, <2>6 DEF RollInv, RollingTypeOK, Book, At
  <2> QED
    BY <2>2, <2>4, <2>5, <2>7 DEF RollInv
<1>3. roll.todo # {} => First(roll.todo) \in roll.todo /\ First(roll.todo) \in Members
  BY FirstIsOne DEF RollInv, RollingTypeOK
<1> QED
  BY <1>1, <1>2, <1>3 DEF PutBack, Out, Lose

(* A member the run has not in hand goes down by itself.                    *)
LEMMA KeptFailure ==
    ASSUME RollInv, NEW h \in Members, MemberFails(h)
    PROVE  RollInv'
<1>u. /\ UNCHANGED <<inRotation, roll, healthyNow, leftDrained, rolled, degraded, cancelAsked,
                     acted, proven, faulty>>
      /\ h \notin roll.out \ rolled /\ losses' = losses \cup {h} /\ up' = up \ {h}
  BY DEF MemberFails, Lose, book, rollHist
<1>1. At("health") => roll.out \cap rolled = {}
  <2> SUFFICES ASSUME At("health") PROVE roll.out \cap rolled = {}
    OBVIOUS
  <2>1. roll.out = Batch(roll.batch) /\ rolled = Before(roll.batch - 1)
    BY DEF RollInv, Shape, InBatch, At
  <2>2. roll.batch - 1 \in Nat /\ (roll.batch - 1) + 1 = roll.batch
    BY DEF RollInv, Shape, RollingTypeOK, At
  <2> QED
    BY <2>1, <2>2, Batches
<1>2. At("undrain") => roll.todo \cap rolled = {} /\ roll.todo \subseteq roll.out
  <2> SUFFICES ASSUME At("undrain")
               PROVE  roll.todo \cap rolled = {} /\ roll.todo \subseteq roll.out
    OBVIOUS
  <2>1. /\ roll.out = Batch(roll.batch) /\ roll.todo \subseteq roll.out
        /\ rolled = Before(roll.batch - 1) \cup (roll.out \ roll.todo)
    BY DEF RollInv, Shape, InBatch, At
  <2>2. roll.batch - 1 \in Nat /\ (roll.batch - 1) + 1 = roll.batch
    BY DEF RollInv, Shape, RollingTypeOK, At
  <2>3. Before(roll.batch - 1) \cap Batch(roll.batch) = {}
    BY <2>2, Batches
  <2> QED
    BY <2>1, <2>3
<1>3. RollingTypeOK'
  BY <1>u DEF RollInv, RollingTypeOK
<1>4. Shape'
  BY <1>u DEF RollInv, Shape, At, InBatch
<1>5. Tried'
  BY <1>1, <1>2, <1>u DEF RollInv, Tried, At
<1>6. Rotation' /\ FailedStaysOut'
  BY <1>u DEF RollInv, Rotation, FailedStaysOut, At
<1>7. Book'
  BY <1>u DEF RollInv, Book, At, InBatch
<1> QED
  BY <1>3, <1>4, <1>5, <1>6, <1>7 DEF RollInv

-----------------------------------------------------------------------------
(* The theorem.                                                             *)

LEMMA RollInvInit == RollingInit => RollInv
<1> SUFFICES ASSUME RollingInit PROVE RollInv
  OBVIOUS
<1>1. RollingTypeOK
  <2>1. 0 \in 0..PoolSize /\ "preflight" \in Phases /\ "running" \in Ends
    BY RollingBounds DEF Phases, Ends
  <2>2. roll \in [phase : Phases, batch : 0..PoolSize, todo : SUBSET Members,
                 out : SUBSET Members, end : Ends]
    BY <2>1 DEF RollingInit
  <2> QED
    BY <2>2 DEF RollingInit, RollingTypeOK
<1>2. Shape /\ Tried /\ Rotation /\ Book /\ FailedStaysOut
  BY DEF RollingInit, Shape, Tried, Rotation, Book, FailedStaysOut, At
<1> QED
  BY <1>1, <1>2 DEF RollInv

LEMMA RollInvStep == RollInv /\ [RollingNext]_rollVars => RollInv'
<1> SUFFICES ASSUME RollInv, [RollingNext]_rollVars PROVE RollInv'
  OBVIOUS
<1>1. CASE CancelRun \/ UNCHANGED rollVars
  <2>1. /\ UNCHANGED <<up, inRotation, roll, healthyNow, leftDrained, rolled, degraded,
                       acted, proven, faulty, losses>>
        /\ cancelAsked' \in BOOLEAN
    BY <1>1 DEF CancelRun, rollVars, book, rollHist, RollInv, RollingTypeOK
  <2>2. RollingTypeOK'
    BY <2>1 DEF RollInv, RollingTypeOK
  <2>3. Shape' /\ Tried'
    BY <2>1 DEF RollInv, Shape, Tried, At, InBatch
  <2>4. Rotation' /\ FailedStaysOut'
    BY <2>1 DEF RollInv, Rotation, FailedStaysOut, At
  <2>5. Book'
    BY <2>1 DEF RollInv, Book, At, InBatch
  <2> QED
    BY <2>2, <2>3, <2>4, <2>5 DEF RollInv
<1> QED
  BY <1>1, KeptPreflight, KeptNextBatch, KeptDrain, KeptAct, KeptSettle, KeptHealth,
     KeptUndrain, KeptPutBack, KeptFailure DEF RollingNext, RollStep

(* Rule 1 from the book: who is healthy by it is serving or was lost.       *)
LEMMA FloorHeld == RollInv => ServingFloor
<1> SUFFICES ASSUME RollInv, roll.batch # 0
             PROVE  Cardinality(inRotation \cap up) + Cardinality(losses) >= MinHealthy
  BY DEF RollInv, Shape, ServingFloor
<1> DEFINE serving == inRotation \cap up
<1>1. roll.batch > 0 /\ serving \subseteq Members /\ losses \subseteq Members
  BY DEF RollInv, RollingTypeOK
<1>2. Cardinality(healthyNow \ InBatch) >= MinHealthy
  BY <1>1 DEF RollInv, Book
<1>3. healthyNow \ InBatch \subseteq serving \cup losses /\ serving \cup losses \subseteq Members
  BY <1>1 DEF RollInv, Book
<1>4. /\ Cardinality(healthyNow \ InBatch) <= Cardinality(serving \cup losses)
      /\ Cardinality(healthyNow \ InBatch) \in Nat /\ Cardinality(serving \cup losses) \in Nat
  BY <1>3, Counting
<1>5. /\ IsFiniteSet(serving) /\ IsFiniteSet(losses) /\ IsFiniteSet(serving \cap losses)
      /\ Cardinality(serving) \in Nat /\ Cardinality(losses) \in Nat
      /\ Cardinality(serving \cap losses) \in Nat
  BY <1>1, Counting
<1>6. Cardinality(serving \cup losses)
        = Cardinality(serving) + Cardinality(losses) - Cardinality(serving \cap losses)
  BY <1>5, FS_Union
<1> HIDE DEF serving
<1>7. Cardinality(serving) + Cardinality(losses) >= MinHealthy
  BY <1>2, <1>4, <1>5, <1>6, RollingBounds
<1> QED
  BY <1>7 DEF serving

LEMMA RollInvSafe == RollInv => RollingIsSafe
<1> SUFFICES ASSUME RollInv PROVE RollingIsSafe
  OBVIOUS
<1>1. OneBatchHurt
  <2>1. acted \ rolled \subseteq roll.out
    BY DEF RollInv, Tried
  <2>2. roll.batch \in Nat /\ roll.out \in SUBSET Batch(roll.batch)
    BY DEF RollInv, RollingTypeOK, Shape, InBatch
  <2> QED
    BY <2>1, <2>2, BatchSize DEF OneBatchHurt
<1>2. OutForAReason /\ ReportIsTrue
  BY DEF RollInv, Shape, Rotation, Book, OutForAReason, ReportIsTrue, At
<1> QED
  BY <1>1, <1>2, FloorHeld DEF RollInv, RollingIsSafe

(* rolling.run, whatever call fails, whoever goes down and whenever it is   *)
(* cancelled: never fewer than min_healthy serving but for members lost     *)
(* otherwise; one batch hurt at the most; nobody the action was tried on in *)
(* rotation unchecked; nobody left out who did not fail; a true report.     *)
THEOREM RunsSafely == RollingSpec => []RollingIsSafe
<1>1. RollingInit => RollInv
  BY RollInvInit
<1>2. RollInv /\ [RollingNext]_rollVars => RollInv'
  BY RollInvStep
<1>3. RollInv => RollingIsSafe
  BY RollInvSafe
<1> QED
  BY <1>1, <1>2, <1>3, PTL DEF RollingSpec

-----------------------------------------------------------------------------
(* Dispatch from the console.                                               *)

AgentRecords == [label : RowNames, ip : RowIps, quarantined : BOOLEAN]
Fleets       == UNION {[S -> AgentRecords] : S \in SUBSET AgentIds}
NameLists    == [RowNames -> RowIps \cup {0}]

-----------------------------------------------------------------------------
(* The merged list.                                                         *)

Named(ags, n)      == {a \in DOMAIN ags : ags[a].label = n}
Joined(ags, names) == {n \in Ssh(names) : Named(ags, n) # {}}

LEMMA LeastIsOne ==
    ASSUME NEW S \in SUBSET Nat, S # {}
    PROVE  Least(S) \in S
<1>1. PICK h \in S : \A i \in S : ~(<<i, h>> \in OpToRel(<, Nat))
  BY WFMin, NatLessThanWellFounded, Zenon
<1>2. \A i \in S : ~(i < h)
  BY <1>1 DEF OpToRel
<1>3. \A i \in S : h <= i
  BY <1>2
<1> QED
  BY <1>3 DEF Least

LEMMA FleetTypes ==
    ASSUME NEW ags \in Fleets
    PROVE  /\ DOMAIN ags \subseteq AgentIds /\ DOMAIN ags \subseteq Nat
           /\ \A a \in DOMAIN ags : ags[a] \in AgentRecords /\ a # 0
           /\ \A n : Named(ags, n) # {} => Least(Named(ags, n)) \in Named(ags, n)
<1>1. PICK S \in SUBSET AgentIds : ags \in [S -> AgentRecords]
  BY DEF Fleets
<1>2. /\ DOMAIN ags \subseteq AgentIds /\ DOMAIN ags \subseteq Nat
      /\ \A a \in DOMAIN ags : ags[a] \in AgentRecords /\ a # 0
  BY <1>1, DispatchBounds DEF AgentIds
<1>3. \A n : Named(ags, n) \in SUBSET Nat
  BY <1>2 DEF Named
<1> QED
  BY <1>2, <1>3, LeastIsOne

(* The three kinds of rows.                                                 *)
LEMMA MergedRows ==
    ASSUME NEW ags, NEW names, NEW row
    PROVE  row \in Merged(ags, names) <=>
             \/ \E n \in Joined(ags, names) : row = MergedRow(Least(Named(ags, n)), n)
             \/ \E a \in DOMAIN ags : /\ \A n \in Joined(ags, names) : a # Least(Named(ags, n))
                                      /\ row = AgentRow(a)
             \/ \E n \in Ssh(names) \ Joined(ags, names) : row = SshRow(n)
  BY DEF Merged, Named, Joined

(* What a row's id says of it.                                              *)
LEMMA RowIds ==
    /\ \A a, n : /\ MergedRow(a, n).id = <<"name", n>>
                 /\ MergedRow(a, n).agent = a /\ MergedRow(a, n).ssh = n
    /\ \A a : /\ AgentRow(a).id = <<"host", a>>
              /\ AgentRow(a).agent = a /\ AgentRow(a).ssh = 0
    /\ \A n : /\ SshRow(n).id = <<"name", n>>
              /\ SshRow(n).agent = 0 /\ SshRow(n).ssh = n
  BY DEF MergedRow, AgentRow, SshRow

LEMMA RowFacts ==
    ASSUME NEW row \in Rows
    PROVE  /\ row.agent \in AgentIds \cup {0}
           /\ \/ /\ row.id = <<"host", row.agent>> /\ row.id[1] = "host"
                 /\ row.id[2] = row.agent /\ row.agent # 0 /\ row.ssh = 0
              \/ /\ row.id = <<"name", row.ssh>> /\ row.id[1] = "name"
                 /\ row.id[2] = row.ssh /\ row.ssh \in RowNames
<1>1. ASSUME NEW a \in AgentIds, row = AgentRow(a)
      PROVE  /\ row.agent \in AgentIds \cup {0}
             /\ row.id = <<"host", row.agent>> /\ row.id[1] = "host"
             /\ row.id[2] = row.agent /\ row.agent # 0 /\ row.ssh = 0
  BY <1>1, DispatchBounds DEF AgentRow, AgentIds
<1>2. ASSUME NEW n \in RowNames, row = SshRow(n)
      PROVE  /\ row.agent \in AgentIds \cup {0}
             /\ row.id = <<"name", row.ssh>> /\ row.id[1] = "name"
             /\ row.id[2] = row.ssh /\ row.ssh \in RowNames
  BY <1>2 DEF SshRow
<1>3. ASSUME NEW a \in AgentIds, NEW n \in RowNames, row = MergedRow(a, n)
      PROVE  /\ row.agent \in AgentIds \cup {0}
             /\ row.id = <<"name", row.ssh>> /\ row.id[1] = "name"
             /\ row.id[2] = row.ssh /\ row.ssh \in RowNames
  BY <1>3 DEF MergedRow
<1> QED
  BY <1>1, <1>2, <1>3 DEF Rows

(* An agent is in one row, ids are unique, and every SSH record is in a row.*)
LEMMA MergedList ==
    ASSUME NEW ags \in Fleets, NEW names \in NameLists
    PROVE  /\ Merged(ags, names) \subseteq Rows
           /\ \A a \in DOMAIN ags : \E row \in Merged(ags, names) : row.agent = a
           /\ \A r, s \in Merged(ags, names) : r.agent = s.agent /\ r.agent # 0 => r = s
           /\ \A r, s \in Merged(ags, names) : r.id = s.id => r = s
           /\ \A n \in Ssh(names) : \E row \in Merged(ags, names) : row.ssh = n
<1> DEFINE rows == Merged(ags, names)
           J == Joined(ags, names)
           L(n) == Least(Named(ags, n))
<1>j. \A n \in J : L(n) \in DOMAIN ags /\ ags[L(n)].label = n /\ n \in RowNames /\ n \in Ssh(names)
  BY FleetTypes DEF Joined, Named, Ssh
<1>s. Ssh(names) \subseteq RowNames
  BY DEF Ssh
<1>1. rows \subseteq Rows
  BY <1>j, <1>s, MergedRows, FleetTypes DEF Rows
<1>2. \A a \in DOMAIN ags : \E row \in rows : row.agent = a
  <2> SUFFICES ASSUME NEW a \in DOMAIN ags PROVE \E row \in rows : row.agent = a
    OBVIOUS
  <2>1. ASSUME NEW n \in J, a = L(n) PROVE \E row \in rows : row.agent = a
    <3>1. MergedRow(L(n), n) \in rows
      BY MergedRows
    <3> QED
      BY <2>1, <3>1, RowIds
  <2>2. CASE \A n \in J : a # L(n)
    <3>1. AgentRow(a) \in rows
      BY <2>2, MergedRows
    <3> QED
      BY <3>1, RowIds
  <2> QED
    BY <2>1, <2>2
<1>3. ASSUME NEW r \in rows
      PROVE  \/ \E n \in J : r = MergedRow(L(n), n)
             \/ \E a \in DOMAIN ags : (\A n \in J : a # L(n)) /\ r = AgentRow(a)
             \/ \E n \in Ssh(names) \ J : r = SshRow(n)
  BY MergedRows
<1>4. ASSUME NEW r \in rows, NEW s \in rows, r.agent = s.agent, r.agent # 0 PROVE r = s
  <2>1. ASSUME NEW n \in J, r = MergedRow(L(n), n) PROVE r = s
    <3>1. ASSUME NEW m \in J, s = MergedRow(L(m), m) PROVE r = s
      BY <1>4, <1>j, <2>1, <3>1, RowIds
    <3> QED
      BY <1>3, <1>4, <2>1, <3>1, RowIds
  <2>2. ASSUME NEW a \in DOMAIN ags, \A n \in J : a # L(n), r = AgentRow(a) PROVE r = s
    BY <1>3, <1>4, <2>2, RowIds
  <2> QED
    BY <1>3, <1>4, <2>1, <2>2, RowIds
<1>5. ASSUME NEW r \in rows, NEW s \in rows, r.id = s.id PROVE r = s
  <2>t. \A x, y, u, v : <<x, y>> = <<u, v>> => x = u /\ y = v
    OBVIOUS
  <2>1. ASSUME NEW a \in DOMAIN ags, r = AgentRow(a) PROVE r = s
    BY <1>3, <1>5, <2>1, <2>t, RowIds
  <2>2. ASSUME NEW n \in J, r = MergedRow(L(n), n) PROVE r = s
    BY <1>3, <1>5, <2>2, <2>t, RowIds
  <2>3. ASSUME NEW n \in Ssh(names) \ J, r = SshRow(n) PROVE r = s
    BY <1>3, <1>5, <2>3, <2>t, RowIds
  <2> QED
    BY <1>3, <2>1, <2>2, <2>3
<1>6. \A n \in Ssh(names) : \E row \in rows : row.ssh = n
  <2> SUFFICES ASSUME NEW n \in Ssh(names) PROVE \E row \in rows : row.ssh = n
    OBVIOUS
  <2>1. CASE n \in J
    <3>1. MergedRow(L(n), n) \in rows
      BY <2>1, MergedRows
    <3> QED
      BY <3>1, RowIds
  <2>2. CASE n \notin J
    <3>1. SshRow(n) \in rows
      BY <2>2, MergedRows
    <3> QED
      BY <3>1, RowIds
  <2> QED
    BY <2>1, <2>2
<1> QED
  BY <1>1, <1>2, <1>4, <1>5, <1>6

(* _dedupe_same_ip takes no row of an agent away, and for every SSH row it  *)
(* takes away one at the same address stays.                                *)
ListedRight(ags, names) ==
    LET rows == HostList(ags, names)
    IN  /\ \A a \in DOMAIN ags : Cardinality({r \in rows : r.agent = a}) = 1
        /\ \A r, s \in rows : r.id = s.id => r = s
        /\ \A n \in Ssh(names) : \/ \E r \in rows : r.ssh = n
                                 \/ \E r \in rows : RowIp(r, ags, names) = names[n]

LEMMA ListIsComplete ==
    ASSUME NEW ags \in Fleets, NEW names \in NameLists
    PROVE  HostList(ags, names) \subseteq Rows /\ ListedRight(ags, names)
<1> DEFINE all == Merged(ags, names)
           rows == HostList(ags, names)
           ip(r) == RowIp(r, ags, names)
<1>1. /\ rows \subseteq all
      /\ \A r \in all : r.agent # 0 => r \in rows
  BY DEF HostList, Folded, Twin
<1>2. ASSUME NEW a \in DOMAIN ags PROVE Cardinality({r \in rows : r.agent = a}) = 1
  <2>1. PICK row \in all : row.agent = a
    BY MergedList
  <2>2. a # 0
    BY FleetTypes
  <2>3. {r \in rows : r.agent = a} = {row}
    BY <1>1, <2>1, <2>2, MergedList
  <2> QED
    BY <2>3, FS_Singleton
<1>3. \A r, s \in rows : r.id = s.id => r = s
  BY <1>1, MergedList
<1>4. ASSUME NEW n \in Ssh(names), ~\E r \in rows : r.ssh = n
      PROVE  \E r \in rows : ip(r) = names[n]
  <2>1. PICK row \in all : row.ssh = n
    BY MergedList
  <2>2. row \notin rows /\ row.agent = 0
    BY <1>1, <1>4, <2>1
  <2>3. ip(row) = names[n]
    BY <2>1, <2>2 DEF RowIp
  <2>4. ASSUME NEW other \in all, other.agent # 0, ip(other) = ip(row)
        PROVE  \E r \in rows : ip(r) = names[n]
    BY <1>1, <2>3, <2>4
  <2>5. CASE ~\E other \in all : other.agent # 0 /\ ip(other) = ip(row)
    <3> DEFINE x == CHOOSE y \in all : y.agent = 0 /\ ip(y) = ip(row)
    <3>1. x \in all /\ x.agent = 0 /\ ip(x) = ip(row)
      BY <2>2
    <3>2. ~Folded(x, all, ags, names)
      BY <2>5, <3>1 DEF Folded
    <3>3. (CHOOSE y \in all : y.agent = 0 /\ ip(y) = ip(x)) = x
      BY <3>1
    <3>4. ~Twin(x, all, ags, names)
      BY <3>3 DEF Twin
    <3>5. x \in rows
      BY <3>1, <3>2, <3>4 DEF HostList
    <3> QED
      BY <2>3, <3>1, <3>5
  <2> QED
    BY <2>4, <2>5
<1>5. rows \subseteq Rows
  BY <1>1, MergedList
<1> QED
  BY <1>2, <1>3, <1>4, <1>5 DEF ListedRight

-----------------------------------------------------------------------------
(* The requests.                                                            *)

OrderKinds    == {"tool", "all", "upload", "install"}
OrderPhases   == {"asked", "agents read", "chosen", "polling", "over"}
Outcomes == {"none", "ok", "failed", "error", "timeout", "refused", "not found"}
ResultStatuses == {"queued", "running", "done", "failed"}
OrderRecords == [phase : OrderPhases, kind : OrderKinds, shown : Rows, ags : Fleets, row : Rows,
                 outcome : Outcomes, status : ResultStatuses]

Connection(row) == IF row.agent # 0 THEN <<"agent", row.agent>> ELSE <<"ssh", row.ssh>>
Places      == {<<"none">>} \cup {Connection(row) : row \in Rows}
TaskRecords == [at : Places, state : {"none", "pending", "zero", "other"}]

Types ==
    /\ agents \in Fleets
    /\ sshNames \in NameLists
    /\ order \in [Orders -> {NoOrder} \cup OrderRecords]
    /\ tasks \in [Orders -> TaskRecords]

(* Nothing reaches a host before the row is chosen, and what does goes to   *)
(* the chosen row's connection; the row has the id that was picked.         *)
Tracked(r) ==
    /\ order[r].phase \in {"none", "asked", "agents read", "chosen"} => tasks[r] = NoTask
    /\ order[r].phase \in {"chosen", "polling"} => order[r].status = "running"
    /\ tasks[r] # NoTask => tasks[r].at = Connection(order[r].row)
    /\ order[r].phase \in {"chosen", "polling"} \/ tasks[r] # NoTask =>
          order[r].kind = "all" \/ order[r].row.id = order[r].shown.id

(* The last answer is what the task had come to when it was given.          *)
RightlyAnswered(r) ==
    order[r].phase = "over" =>
       /\ order[r].outcome = "ok" => tasks[r].state = "zero"
       /\ order[r].outcome = "failed" => tasks[r].state = "other"
       /\ order[r].outcome \in {"refused", "not found"} => tasks[r] = NoTask
       /\ order[r].status = "done" <=> order[r].outcome = "ok"
       /\ order[r].status = "running" => order[r].outcome = "error"

DispInv == Types /\ \A r \in Orders : Tracked(r) /\ RightlyAnswered(r)

(* A step of one request leaves the others as they were.                    *)
LEMMA Others ==
    ASSUME DispInv, NEW r \in Orders, NEW o, NEW t,
           o \in {NoOrder} \cup OrderRecords, t \in TaskRecords,
           order' = [order EXCEPT ![r] = o], tasks' = [tasks EXCEPT ![r] = t],
           UNCHANGED <<agents, sshNames>>,
           Tracked(r)', RightlyAnswered(r)'
    PROVE  DispInv'
<1>1. Types'
  BY DEF DispInv, Types
<1>2. ASSUME NEW q \in Orders, q # r PROVE Tracked(q)' /\ RightlyAnswered(q)'
  <2>1. order'[q] = order[q] /\ tasks'[q] = tasks[q]
    BY <1>2 DEF DispInv, Types
  <2>2. Tracked(q)'
    BY <2>1 DEF DispInv, Tracked
  <2>3. RightlyAnswered(q)'
    BY <2>1 DEF DispInv, RightlyAnswered
  <2> QED
    BY <2>2, <2>3
<1> QED
  BY <1>1, <1>2 DEF DispInv

(* The same where the request only moves on.                                *)
LEMMA OthersMoved ==
    ASSUME DispInv, NEW r \in Orders, NEW o \in {NoOrder} \cup OrderRecords,
           order' = [order EXCEPT ![r] = o], UNCHANGED <<agents, sshNames, tasks>>,
           Tracked(r)', RightlyAnswered(r)'
    PROVE  DispInv'
<1>1. tasks[r] \in TaskRecords /\ tasks' = [tasks EXCEPT ![r] = tasks[r]]
  BY DEF DispInv, Types
<1> QED
  BY <1>1, Others

LEMMA Blanks == NoOrder.phase = "none" /\ NoTask \in TaskRecords /\ NoTask.state = "none"
                /\ NoAgents \in Fleets /\ NoNames \in NameLists
<1>1. NoAgents \in [{} -> AgentRecords]
  BY DEF NoAgents
<1>2. NoAgents \in Fleets
  BY <1>1 DEF Fleets
<1> QED
  BY <1>2 DEF NoOrder, NoTask, TaskRecords, Places, NoNames, NameLists

LEMMA StartedOrder ==
    ASSUME DispInv, NEW r \in Orders, order[r].phase # "none"
    PROVE  order[r] \in OrderRecords
  BY Blanks DEF DispInv, Types

(* A request ends, and what it answers is so.                               *)
LEMMA OrderEnds ==
    ASSUME DispInv, NEW r \in Orders, order[r].phase # "none",
           NEW oc \in Outcomes, NEW st \in ResultStatuses, FinishOrder(r, oc, st),
           NEW t \in TaskRecords, tasks' = [tasks EXCEPT ![r] = t],
           UNCHANGED <<agents, sshNames>>,
           t # NoTask => /\ t.at = Connection(order[r].row)
                         /\ order[r].kind = "all" \/ order[r].row.id = order[r].shown.id,
           oc = "ok" => t.state = "zero", oc = "failed" => t.state = "other",
           oc \in {"refused", "not found"} => t = NoTask,
           st = "done" <=> oc = "ok", st = "running" => oc = "error"
    PROVE  DispInv'
<1> DEFINE o == [order[r] EXCEPT !.phase = "over", !.outcome = oc, !.status = st,
                                 !.ags = NoAgents]
<1>0. order[r] \in OrderRecords
  BY StartedOrder
<1>t. o \in OrderRecords
  BY <1>0, Blanks DEF OrderRecords, OrderPhases
<1>1. /\ o.phase = "over" /\ o.outcome = oc /\ o.status = st
      /\ o.row = order[r].row /\ o.kind = order[r].kind /\ o.shown = order[r].shown
  BY <1>0 DEF OrderRecords
<1>e. order' = [order EXCEPT ![r] = o]
  BY DEF FinishOrder, DispInv, Types
<1> HIDE DEF o
<1>2. order'[r] = o /\ tasks'[r] = t
  BY <1>e DEF DispInv, Types
<1>3. Tracked(r)'
  BY <1>1, <1>2 DEF Tracked, Connection
<1>4. RightlyAnswered(r)'
  BY <1>1, <1>2 DEF RightlyAnswered
<1> QED
  BY <1>t, <1>e, <1>3, <1>4, Others

(* ... with the task as it was.                                             *)
LEMMA EndsQuietly ==
    ASSUME DispInv, NEW r \in Orders, order[r].phase # "none",
           NEW oc \in Outcomes, NEW st \in ResultStatuses, FinishOrder(r, oc, st),
           UNCHANGED <<agents, sshNames, tasks>>,
           oc = "ok" => tasks[r].state = "zero", oc = "failed" => tasks[r].state = "other",
           oc \in {"refused", "not found"} => tasks[r] = NoTask,
           st = "done" <=> oc = "ok", st = "running" => oc = "error"
    PROVE  DispInv'
<1>1. tasks[r] \in TaskRecords /\ tasks' = [tasks EXCEPT ![r] = tasks[r]]
  BY DEF DispInv, Types
<1>2. tasks[r] # NoTask => /\ tasks[r].at = Connection(order[r].row)
                           /\ order[r].kind = "all" \/ order[r].row.id = order[r].shown.id
  BY DEF DispInv, Tracked
<1> QED
  BY <1>1, <1>2, OrderEnds

LEMMA KeptPick ==
    ASSUME DispInv, NEW r \in Orders, NEW kind \in OrderKinds, NEW row, PickRow(r, kind, row)
    PROVE  DispInv'
<1> DEFINE o == [phase |-> "asked", kind |-> kind, shown |-> row, ags |-> NoAgents,
                 row |-> row, outcome |-> "none", status |-> "queued"]
<1>1. row \in Rows
  BY ListIsComplete DEF PickRow, DispInv, Types
<1>2. o \in OrderRecords
  BY <1>1, Blanks DEF OrderRecords, OrderPhases, Outcomes, ResultStatuses
<1>3. order' = [order EXCEPT ![r] = o] /\ UNCHANGED <<agents, sshNames, tasks>>
  BY DEF PickRow
<1>4. order'[r] = o /\ tasks'[r] = NoTask
  BY <1>3 DEF DispInv, Types, Tracked, PickRow
<1>5. Tracked(r)' /\ RightlyAnswered(r)'
  BY <1>4 DEF Tracked, RightlyAnswered
<1> QED
  BY <1>2, <1>3, <1>5, OthersMoved

LEMMA KeptRead ==
    ASSUME DispInv, NEW r \in Orders, ReadAgents(r)
    PROVE  DispInv'
<1>1. order[r] \in OrderRecords /\ tasks[r] = NoTask
  BY StartedOrder DEF ReadAgents, DispInv, Tracked
<1>2. ASSUME NEW o \in OrderRecords, o.phase = "agents read", order' = [order EXCEPT ![r] = o]
      PROVE  DispInv'
  <2>1. order'[r] = o /\ tasks'[r] = NoTask
    BY <1>1, <1>2 DEF DispInv, Types, ReadAgents
  <2>2. Tracked(r)' /\ RightlyAnswered(r)'
    BY <1>2, <2>1 DEF Tracked, RightlyAnswered
  <2> QED
    BY <1>2, <2>2, OthersMoved DEF ReadAgents
<1>3. CASE order' = [order EXCEPT ![r].phase = "agents read", ![r].ags = agents]
  <2> DEFINE o == [order[r] EXCEPT !.phase = "agents read", !.ags = agents]
  <2>1. o \in OrderRecords /\ o.phase = "agents read"
    BY <1>1 DEF OrderRecords, OrderPhases, DispInv, Types
  <2>2. order' = [order EXCEPT ![r] = o]
    BY <1>3 DEF DispInv, Types
  <2> QED
    BY <1>2, <2>1, <2>2
<1>4. CASE order' = [order EXCEPT ![r].phase = "agents read"]
  <2> DEFINE o == [order[r] EXCEPT !.phase = "agents read"]
  <2>1. o \in OrderRecords /\ o.phase = "agents read"
    BY <1>1 DEF OrderRecords, OrderPhases
  <2>2. order' = [order EXCEPT ![r] = o]
    BY <1>4 DEF DispInv, Types
  <2> QED
    BY <1>2, <2>1, <2>2
<1> QED
  BY <1>3, <1>4 DEF ReadAgents

(* The picked id is looked up again: whatever has become of the list, the   *)
(* row found has that id.                                                   *)
LEMMA KeptResolve ==
    ASSUME DispInv, NEW r \in Orders, Resolve(r)
    PROVE  DispInv'
<1>1. order[r] \in OrderRecords /\ tasks[r] = NoTask /\ order[r].phase # "none"
  BY StartedOrder DEF Resolve, DispInv, Tracked
<1>2. PICK names \in {sshNames, NoNames} :
        LET rows == Looked(r, HostList(order[r].ags, names))
            id == order[r].shown.id
        IN  \/ \E row \in rows :
                 IF Spared(r, row) THEN FinishOrder(r, "refused", "failed")
                 ELSE Start(r, row)
            \/ /\ rows = {} /\ order[r].kind = "upload" /\ id[1] = "name"
               /\ Start(r, SshRow(id[2]))
            \/ /\ rows = {} /\ ~(order[r].kind = "upload" /\ id[1] = "name")
               /\ FinishOrder(r, "not found", "failed")
  BY Zenon DEF Resolve
<1>3. HostList(order[r].ags, names) \subseteq Rows
  BY <1>1, Blanks, ListIsComplete DEF DispInv, Types, OrderRecords
<1>4. ASSUME NEW row \in Rows, Start(r, row),
             order[r].kind = "all" \/ row.id = order[r].shown.id
      PROVE  DispInv'
  <2> DEFINE o == [order[r] EXCEPT !.phase = "chosen", !.row = row, !.status = "running"]
  <2>1. o \in OrderRecords
    BY <1>1 DEF OrderRecords, OrderPhases, ResultStatuses
  <2>2. /\ o.phase = "chosen" /\ o.row = row /\ o.status = "running"
        /\ o.kind = order[r].kind /\ o.shown = order[r].shown
    BY <1>1 DEF OrderRecords
  <2>3. order' = [order EXCEPT ![r] = o] /\ UNCHANGED <<agents, sshNames, tasks>>
    BY <1>4 DEF Start, Resolve, DispInv, Types
  <2>4. order'[r] = o /\ tasks'[r] = NoTask
    BY <1>1, <2>3 DEF DispInv, Types
  <2> HIDE DEF o
  <2>5. Tracked(r)' /\ RightlyAnswered(r)'
    BY <1>4, <2>2, <2>4 DEF Tracked, RightlyAnswered
  <2> QED
    BY <2>1, <2>3, <2>5, OthersMoved
<1>5. ASSUME NEW oc \in {"refused", "not found"}, FinishOrder(r, oc, "failed") PROVE DispInv'
  BY <1>1, <1>5, EndsQuietly DEF Outcomes, ResultStatuses, Resolve
<1>6. ASSUME NEW row \in Looked(r, HostList(order[r].ags, names)), Start(r, row) PROVE DispInv'
  BY <1>3, <1>4, <1>6 DEF Looked
<1>7. ASSUME order[r].shown.id[1] = "name", Start(r, SshRow(order[r].shown.id[2])) PROVE DispInv'
  <2>1. order[r].shown \in Rows
    BY <1>1 DEF OrderRecords
  <2>2. /\ order[r].shown.id = <<"name", order[r].shown.id[2]>>
        /\ order[r].shown.id[2] \in RowNames
    BY <1>7, <2>1, RowFacts
  <2>3. SshRow(order[r].shown.id[2]) \in Rows
    BY <2>2 DEF Rows
  <2>4. SshRow(order[r].shown.id[2]).id = order[r].shown.id
    BY <2>2, RowIds
  <2> QED
    BY <1>4, <1>7, <2>3, <2>4
<1> QED
  BY <1>2, <1>5, <1>6, <1>7

(* Over SSH: the command is at the chosen connection, and what is reported  *)
(* is its exit, or an error.                                                *)
LEMMA KeptSsh ==
    ASSUME DispInv, NEW r \in Orders, RunOverSsh(r)
    PROVE  DispInv'
<1> DEFINE n == order[r].row.ssh
           t(code) == [at |-> <<"ssh", n>>, state |-> code]
<1>1. order[r] \in OrderRecords /\ order[r].phase # "none" /\ order[r].phase = "chosen"
  BY StartedOrder DEF RunOverSsh
<1>2. /\ order[r].row \in Rows /\ Connection(order[r].row) = <<"ssh", n>>
      /\ order[r].kind = "all" \/ order[r].row.id = order[r].shown.id
  BY <1>1 DEF OrderRecords, Connection, RunOverSsh, DispInv, Tracked
<1>3. CASE sshNames[n] = 0
  BY <1>1, <1>3, EndsQuietly DEF RunOverSsh, Outcomes, ResultStatuses
<1>4. ASSUME NEW code \in {"zero", "other"}, tasks' = [tasks EXCEPT ![r] = t(code)],
             \/ FinishOrder(r, IF code = "zero" THEN "ok" ELSE "failed",
                               IF code = "zero" THEN "done" ELSE "failed")
             \/ FinishOrder(r, "error", "failed")
      PROVE  DispInv'
  <2>1. /\ t(code) \in TaskRecords /\ t(code).state = code
        /\ t(code).at = Connection(order[r].row)
    BY <1>2 DEF TaskRecords, Places
  <2>2. t(code) # NoTask
    BY <1>4, <2>1, Blanks
  <2>3. UNCHANGED <<agents, sshNames>>
    BY DEF RunOverSsh
  <2> HIDE DEF t
  <2>4. CASE FinishOrder(r, "error", "failed")
    BY <1>1, <1>2, <1>4, <2>1, <2>3, <2>4, OrderEnds DEF Outcomes, ResultStatuses
  <2>5. CASE code = "zero" /\ FinishOrder(r, "ok", "done")
    BY <1>1, <1>2, <1>4, <2>1, <2>3, <2>5, OrderEnds DEF Outcomes, ResultStatuses
  <2>6. CASE code = "other" /\ FinishOrder(r, "failed", "failed")
    BY <1>1, <1>2, <1>4, <2>1, <2>3, <2>6, OrderEnds DEF Outcomes, ResultStatuses
  <2> QED
    BY <1>4, <2>4, <2>5, <2>6
<1> QED
  BY <1>3, <1>4 DEF RunOverSsh

LEMMA KeptRefusal ==
    ASSUME DispInv, NEW r \in Orders, RefuseInstall(r)
    PROVE  DispInv'
<1>1. order[r].phase # "none" /\ tasks[r] = NoTask
  BY DEF RefuseInstall, DispInv, Tracked
<1> QED
  BY <1>1, EndsQuietly DEF RefuseInstall, Outcomes, ResultStatuses

(* Through the queue: the task is the chosen agent's, whether or not the    *)
(* answer of the queue arrives.                                             *)
LEMMA KeptQueue ==
    ASSUME DispInv, NEW r \in Orders, QueueTask(r)
    PROVE  DispInv'
<1> DEFINE a == order[r].row.agent
           t == Queued(a)
<1>1. order[r] \in OrderRecords /\ order[r].phase # "none" /\ order[r].phase = "chosen"
  BY StartedOrder DEF QueueTask
<1>2. /\ order[r].row \in Rows /\ Connection(order[r].row) = <<"agent", a>>
      /\ order[r].kind = "all" \/ order[r].row.id = order[r].shown.id
      /\ order[r].status = "running"
  BY <1>1 DEF OrderRecords, Connection, QueueTask, DispInv, Tracked
<1>3. /\ t \in TaskRecords /\ t.state = "pending" /\ t.at = Connection(order[r].row)
  BY <1>2 DEF TaskRecords, Places, Queued
<1>u. UNCHANGED <<agents, sshNames>>
  BY DEF QueueTask
<1>4. CASE FinishOrder(r, "error", "failed") /\ UNCHANGED tasks
  BY <1>1, <1>4, <1>u, EndsQuietly DEF Outcomes, ResultStatuses
<1>5. CASE FinishOrder(r, "error", "failed") /\ tasks' = [tasks EXCEPT ![r] = t]
  <2> HIDE DEF t
  <2> QED
    BY <1>1, <1>2, <1>3, <1>5, <1>u, OrderEnds DEF Outcomes, ResultStatuses
<1>6. CASE /\ tasks' = [tasks EXCEPT ![r] = t]
           /\ order' = [order EXCEPT ![r].phase = "polling", ![r].ags = NoAgents]
  <2> DEFINE o == [order[r] EXCEPT !.phase = "polling", !.ags = NoAgents]
  <2>1. o \in OrderRecords
    BY <1>1, Blanks DEF OrderRecords, OrderPhases
  <2>2. /\ o.phase = "polling" /\ o.row = order[r].row /\ o.status = "running"
        /\ o.kind = order[r].kind /\ o.shown = order[r].shown
    BY <1>1, <1>2 DEF OrderRecords
  <2>3. order' = [order EXCEPT ![r] = o]
    BY <1>6 DEF DispInv, Types
  <2> HIDE DEF o, t
  <2>4. order'[r] = o /\ tasks'[r] = t
    BY <1>6, <2>3 DEF DispInv, Types
  <2>5. Tracked(r)' /\ RightlyAnswered(r)'
    BY <1>2, <1>3, <2>2, <2>4 DEF Tracked, RightlyAnswered, Connection
  <2> QED
    BY <1>3, <1>6, <1>u, <2>1, <2>3, <2>5, Others
<1> QED
  BY <1>4, <1>5, <1>6 DEF QueueTask

(* The agent runs a pending task, of which nothing but an error or a        *)
(* timeout can have been reported.                                          *)
LEMMA KeptRun ==
    ASSUME DispInv, NEW r \in Orders, AgentRuns(r)
    PROVE  DispInv'
<1>1. PICK code \in {"zero", "other"} : tasks' = [tasks EXCEPT ![r].state = code]
  BY DEF AgentRuns
<1> DEFINE t == [tasks[r] EXCEPT !.state = code]
<1>2. /\ order[r] \in {NoOrder} \cup OrderRecords /\ order' = [order EXCEPT ![r] = order[r]]
      /\ UNCHANGED <<agents, sshNames, order>>
  BY DEF AgentRuns, DispInv, Types
<1>3. /\ tasks[r] \in TaskRecords /\ t \in TaskRecords /\ tasks' = [tasks EXCEPT ![r] = t]
      /\ t.at = tasks[r].at
  BY <1>1 DEF DispInv, Types, TaskRecords
<1>4. tasks[r].state = "pending" /\ tasks[r] # NoTask
  BY Blanks DEF AgentRuns
<1> HIDE DEF t
<1>5. tasks'[r] = t /\ order'[r] = order[r]
  BY <1>2, <1>3 DEF DispInv, Types
<1>6. Tracked(r)'
  BY <1>3, <1>4, <1>5 DEF DispInv, Tracked, Connection
<1>7. RightlyAnswered(r)'
  BY <1>4, <1>5 DEF DispInv, RightlyAnswered
<1> QED
  BY <1>2, <1>3, <1>6, <1>7, Others

LEMMA KeptPoll ==
    ASSUME DispInv, NEW r \in Orders, PollSees(r) \/ PollRaises(r) \/ GiveUp(r)
    PROVE  DispInv'
<1>1. order[r].phase # "none" /\ order[r].status = "running"
  BY DEF PollSees, PollRaises, GiveUp, DispInv, Tracked
<1>2. CASE PollSees(r)
  <2>1. CASE tasks[r].state = "other"
    BY <1>1, <1>2, <2>1, EndsQuietly DEF PollSees, Outcomes, ResultStatuses
  <2>2. CASE tasks[r].state = "zero"
    BY <1>1, <1>2, <2>2, EndsQuietly DEF PollSees, Outcomes, ResultStatuses
  <2> QED
    BY <1>2, <2>1, <2>2 DEF PollSees, Reported
<1>3. CASE PollRaises(r)
  BY <1>1, <1>3, EndsQuietly DEF PollRaises, Outcomes, ResultStatuses
<1>4. CASE GiveUp(r)
  BY <1>1, <1>4, EndsQuietly DEF GiveUp, Outcomes, ResultStatuses
<1> QED
  BY <1>2, <1>3, <1>4

LEMMA KeptFleet ==
    ASSUME DispInv, FleetChanges
    PROVE  DispInv'
<1>u. UNCHANGED <<order, tasks>>
  BY DEF FleetChanges
<1>0. PICK S \in SUBSET AgentIds : agents \in [S -> AgentRecords]
  BY DEF DispInv, Types, Fleets
<1>n. sshNames \in NameLists
  BY DEF DispInv, Types
<1>1. ASSUME NEW a \in AgentIds, NEW n \in RowNames, NEW i \in RowIps, Enrolled(a, n, i)
      PROVE  agents' \in Fleets /\ sshNames' \in NameLists
  <2> DEFINE new == [label |-> n, ip |-> i, quarantined |-> FALSE]
  <2>1. new \in AgentRecords
    BY DEF AgentRecords
  <2>2. agents' \in [S \cup {a} -> AgentRecords] /\ S \cup {a} \in SUBSET AgentIds
    BY <1>0, <1>1, <2>1 DEF Enrolled
  <2> QED
    BY <1>1, <1>n, <2>2 DEF Enrolled, Fleets
<1>2. ASSUME NEW a \in DOMAIN agents, Removed(a)
      PROVE  agents' \in Fleets /\ sshNames' \in NameLists
  <2>1. agents' \in [S \ {a} -> AgentRecords] /\ S \ {a} \in SUBSET AgentIds
    BY <1>0, <1>2 DEF Removed
  <2> QED
    BY <1>2, <1>n, <2>1 DEF Removed, Fleets
<1>3. ASSUME NEW a \in DOMAIN agents, QuarantineFlips(a)
      PROVE  agents' \in Fleets /\ sshNames' \in NameLists
  <2> DEFINE new == [agents[a] EXCEPT !.quarantined = ~@]
  <2>1. new \in AgentRecords
    BY <1>0 DEF AgentRecords
  <2>2. agents' = [agents EXCEPT ![a] = new]
    BY <1>0, <1>3 DEF QuarantineFlips
  <2>3. agents' \in [S -> AgentRecords]
    BY <1>0, <2>1, <2>2
  <2> QED
    BY <1>3, <1>n, <2>3 DEF QuarantineFlips, Fleets
<1>4. ASSUME NEW n \in RowNames, NEW i \in RowIps \cup {0}, SshRecorded(n, i)
      PROVE  agents' \in Fleets /\ sshNames' \in NameLists
  BY <1>4, <1>n DEF SshRecorded, NameLists, DispInv, Types
<1>5. agents' \in Fleets /\ sshNames' \in NameLists
  BY <1>1, <1>2, <1>3, <1>4, Zenon DEF FleetChanges
<1>6. Types'
  BY <1>u, <1>5 DEF DispInv, Types
<1>7. \A r \in Orders : Tracked(r)' /\ RightlyAnswered(r)'
  BY <1>u DEF DispInv, Tracked, RightlyAnswered
<1> QED
  BY <1>6, <1>7 DEF DispInv

-----------------------------------------------------------------------------
(* The theorem.                                                             *)

LEMMA InitHolds == DispatchInit => DispInv
<1> SUFFICES ASSUME DispatchInit PROVE DispInv
  OBVIOUS
<1>1. Types
  <2>1. NoAgents \in Fleets /\ NoNames \in NameLists /\ NoTask \in TaskRecords
    BY Blanks
  <2> QED
    BY <2>1 DEF DispatchInit, Types
<1>2. ASSUME NEW r \in Orders PROVE Tracked(r) /\ RightlyAnswered(r)
  <2>1. order[r].phase = "none" /\ tasks[r] = NoTask
    BY Blanks DEF DispatchInit
  <2> QED
    BY <2>1 DEF Tracked, RightlyAnswered
<1> QED
  BY <1>1, <1>2 DEF DispInv

LEMMA StepKeeps == DispInv /\ [DispatchNext]_dispVars => DispInv'
<1> SUFFICES ASSUME DispInv, [DispatchNext]_dispVars PROVE DispInv'
  OBVIOUS
<1>1. CASE UNCHANGED dispVars
  BY <1>1 DEF dispVars, DispInv, Types, Tracked, RightlyAnswered
<1>2. CASE FleetChanges
  BY <1>2, KeptFleet
<1>3. ASSUME NEW r \in Orders, NEW kind \in OrderKinds, NEW row \in HostList(agents, sshNames),
             PickRow(r, kind, row)
      PROVE  DispInv'
  BY <1>3, KeptPick
<1>4. ASSUME NEW r \in Orders, OrderStep(r) \/ AgentRuns(r)
      PROVE  DispInv'
  BY <1>4, KeptRead, KeptResolve, KeptSsh, KeptRefusal, KeptQueue, KeptPoll, KeptRun
     DEF OrderStep
<1> QED
  BY <1>1, <1>2, <1>3, <1>4, Zenon DEF DispatchNext, OrderStep, OrderKinds

(* A task is at the connection of a row with the picked id, which is that   *)
(* of the picked agent or of a record of the picked name.                   *)
LEMMA WhereAsked ==
    ASSUME DispInv, NEW r \in Orders, tasks[r] # NoTask, order[r].kind # "all"
    PROVE  IF order[r].shown.id[1] = "host"
           THEN tasks[r].at = <<"agent", order[r].shown.id[2]>>
           ELSE order[r].row.ssh = order[r].shown.id[2]
<1>1. /\ order[r].phase # "none" /\ order[r].row.id = order[r].shown.id
      /\ tasks[r].at = Connection(order[r].row)
  BY DEF DispInv, Tracked
<1>2. order[r].row \in Rows
  BY <1>1, StartedOrder DEF OrderRecords
<1>3. CASE order[r].row.id[1] = "host"
  BY <1>1, <1>2, <1>3, RowFacts DEF Connection
<1>4. CASE order[r].row.id[1] # "host"
  BY <1>1, <1>2, <1>4, RowFacts
<1> QED
  BY <1>1, <1>3, <1>4

LEMMA IsTrue == DispInv => DispatchIsTrue
<1> SUFFICES ASSUME DispInv PROVE DispatchIsTrue
  OBVIOUS
<1>1. DispatchTypeOK
  <2>1. DOMAIN agents \subseteq AgentIds /\ \A a \in DOMAIN agents : agents[a] \in AgentRecords
    BY FleetTypes DEF DispInv, Types
  <2>2. ASSUME NEW r \in Orders, order[r] # NoOrder
        PROVE  /\ order[r].phase \in OrderPhases /\ order[r].row \in Rows /\ order[r].shown \in Rows
               /\ order[r].status \in ResultStatuses /\ order[r].outcome \in Outcomes
    BY <2>2 DEF DispInv, Types, OrderRecords
  <2>3. ASSUME NEW r \in Orders
        PROVE  /\ tasks[r].state \in {"none", "pending", "zero", "other"}
               /\ tasks[r] # NoTask => tasks[r].at = Connection(order[r].row)
    BY DEF DispInv, Types, TaskRecords, Tracked
  <2>4. sshNames \in [RowNames -> RowIps \cup {0}]
    BY DEF DispInv, Types, NameLists
  <2> QED
    BY <2>1, <2>2, <2>3, <2>4
       DEF DispatchTypeOK, AgentRecords, OrderPhases, ResultStatuses, Outcomes, Connection
<1>2. EveryHostIsListed
  BY ListIsComplete DEF ListedRight, EveryHostIsListed, DispInv, Types
<1>3. RunsWhereAsked
  BY WhereAsked DEF RunsWhereAsked
<1>4. ReportedIsTrue
  BY DEF ReportedIsTrue, DispInv, RightlyAnswered
<1> QED
  BY <1>1, <1>2, <1>3, <1>4 DEF DispatchIsTrue

(* From the page to the report: list_merged_hosts offers every enrolled     *)
(* agent in exactly one row, with ids that are unique and no SSH record     *)
(* lost; a command for a picked row runs on that agent, or on a connection  *)
(* of that name, or nowhere, whatever is enrolled, recorded or removed      *)
(* between the page and run_on_entry and whichever read of the lists fails; *)
(* and what _dispatch_one and the install job report is what the task came  *)
(* to.                                                                      *)
THEOREM DispatchesTruly == DispatchSpec => []DispatchIsTrue
<1>1. DispatchSpec => []DispInv
  BY InitHolds, StepKeeps, PTL DEF DispatchSpec
<1> QED
  BY <1>1, IsTrue, PTL


-----------------------------------------------------------------------------
(* Schedules: the clocks.                                                   *)

LEMMA SchedNumbers ==
    /\ Period \in Nat \ {0} /\ DueAt \in 0..(Period - 1) /\ SchedHosts \in Nat \ {0}
    /\ ShiftAt \in Nat /\ MaxShift \in Nat
    /\ MaxTime \in Nat /\ MaxEdits \in Nat /\ MaxMishaps \in Nat /\ WeeklyJobs \subseteq Jobs
  BY ScheduleBounds

LEMMA PeriodStart ==
    ASSUME NEW w \in Int, NEW p \in Nat \ {0}
    PROVE  w % p \in 0..(p - 1)
  BY SMT

LEMMA PeriodsGrow ==
    ASSUME NEW a \in Int, NEW b \in Int, a <= b, NEW p \in Nat \ {0}
    PROVE  a * p <= b * p
  BY SMT

(* Who is past the start of a period has the end of it before him.          *)
LEMMA PeriodEnd ==
    ASSUME NEW w \in Int, NEW k \in Int, NEW p \in Nat \ {0}, k * p <= w
    PROVE  (k + 1) * p <= w - (w % p) + p
<1> DEFINE q == w \div p
<1>1. q \in Int /\ w = p * q + (w % p) /\ w % p \in 0..(p - 1)
  BY SMT
<1> HIDE DEF q
<1>2. k <= q
  <2>1. SUFFICES ASSUME q + 1 <= k PROVE FALSE
    BY <1>1
  <2>2. (q + 1) * p <= k * p
    BY <2>1, <1>1, PeriodsGrow
  <2>3. (q + 1) * p = p * q + p
    BY <1>1
  <2> QED
    BY <1>1, <2>2, <2>3
<1>3. k * p <= q * p
  BY <1>1, <1>2, PeriodsGrow
<1>4. (k + 1) * p = k * p + p /\ q * p = p * q /\ k * p \in Int /\ p * q \in Int
  BY <1>1
<1> QED
  BY <1>1, <1>3, <1>4

(* The first moment whose wall clock is the one asked for is what Instant   *)
(* answers, or the second one when it is asked for.                         *)
NoFold(j, t) == j \in WeeklyJobs /\ shift < 0 /\ ShiftAt <= t

LEMMA InstantAhead ==
    ASSUME NEW t \in 0..MaxTime, shift \in {-MaxShift, MaxShift}, NEW w \in Int,
           w > Wall(t), w <= Wall(t) + Period, NEW second \in BOOLEAN,
           MaxShift <= ShiftAt, ~second => ~Second(t) \/ w >= ShiftAt,
           second => Second(t)
    PROVE  Instant(w, second) \in Times /\ Instant(w, second) > t
<1>0. t < ShiftAt \/ t >= ShiftAt
  BY SchedNumbers
<1>1. CASE t < ShiftAt
  BY <1>1, SchedNumbers DEF Instant, Wall, Lower, Times, Second
<1>2. CASE t >= ShiftAt
  BY <1>2, SchedNumbers DEF Instant, Wall, Lower, Times, Second
<1> QED
  BY <1>0, <1>1, <1>2, Zenon

LEMMA InstantSomewhere ==
    ASSUME NEW t \in 0..MaxTime, shift \in {-MaxShift, MaxShift}, NEW w \in Int,
           w > Wall(t), w <= Wall(t) + Period, MaxShift <= ShiftAt
    PROVE  Instant(w, FALSE) \in Times
<1>0. t < ShiftAt \/ t >= ShiftAt
  BY SchedNumbers
<1>1. CASE t < ShiftAt
  BY <1>1, SchedNumbers DEF Instant, Wall, Lower, Times
<1>2. CASE t >= ShiftAt
  BY <1>2, SchedNumbers DEF Instant, Wall, Lower, Times
<1> QED
  BY <1>0, <1>1, <1>2, Zenon

(* compute_next_run is after the present but for a weekly job whose wall    *)
(* clock is shown the second time.                                          *)
LEMMA NextRunAhead ==
    ASSUME NEW j \in Jobs, NEW t \in 0..MaxTime, shift \in {-MaxShift, MaxShift}
    PROVE  /\ NextRun(j, t) \in Times
           /\ NextRun(j, t) > t \/ NoFold(j, t)
<1> DEFINE w == Wall(t)
           p == w % Period
           nxt == (w - p) + DueAt
<1>1. PICK k \in 0..ShiftAt : k * Period <= ShiftAt - MaxShift /\ ShiftAt <= (k + 1) * Period
  BY ShiftWithinPeriod
<1>2. k \in Int /\ k * Period \in Int /\ k * Period >= 0 /\ (k + 1) * Period \in Int
  BY <1>1, SchedNumbers
<1>3. MaxShift <= ShiftAt
  BY <1>1, <1>2, SchedNumbers
<1>4. w \in Int
  BY SchedNumbers DEF Wall
<1>5. p \in 0..(Period - 1)
  BY <1>4, SchedNumbers, PeriodStart
<1>6. nxt \in Int /\ nxt <= w + Period - 1 /\ nxt + Period > w
  BY <1>4, <1>5, SchedNumbers
<1>7. Second(t) => w \in Int /\ w >= ShiftAt - MaxShift /\ ShiftAt <= t /\ shift < 0
  BY SchedNumbers DEF Second, Wall
<1>8. Second(t) => nxt + Period >= ShiftAt
  <2> SUFFICES ASSUME Second(t) PROVE nxt + Period >= ShiftAt
    OBVIOUS
  <2>1. k * Period <= w
    BY <1>1, <1>2, <1>4, <1>7, SchedNumbers
  <2>2. (k + 1) * Period <= w - p + Period
    BY <2>1, <1>2, <1>4, SchedNumbers, PeriodEnd
  <2> QED
    BY <2>2, <1>1, <1>2, <1>4, <1>5, SchedNumbers
<1>9. NextRun(j, t) = IF nxt <= w THEN Instant(nxt + Period, FALSE)
                      ELSE Instant(nxt, Second(t) /\ j \notin WeeklyJobs)
  BY DEF NextRun
<1> HIDE DEF nxt, w
<1>10. CASE nxt <= w
  <2>1. nxt + Period \in Int /\ nxt + Period > w /\ nxt + Period <= w + Period
    BY <1>4, <1>6, <1>10, SchedNumbers
  <2>2. Instant(nxt + Period, FALSE) \in Times /\ Instant(nxt + Period, FALSE) > t
    BY <2>1, <1>3, <1>8, InstantAhead DEF w
  <2> QED
    BY <2>2, <1>9, <1>10
<1>11. CASE nxt > w
  <2>0. nxt \in Int /\ nxt > w /\ nxt <= w + Period /\ ~(nxt <= w)
    BY <1>4, <1>6, <1>11, SchedNumbers
  <2>1. CASE j \in WeeklyJobs /\ Second(t)
    <3>1. NextRun(j, t) = Instant(nxt, FALSE)
      BY <1>9, <2>0, <2>1
    <3>2. Instant(nxt, FALSE) \in Times
      BY <2>0, <1>3, InstantSomewhere DEF w
    <3> QED
      BY <3>1, <3>2, <2>1, <1>7 DEF NoFold
  <2>2. CASE ~(j \in WeeklyJobs /\ Second(t))
    <3>1. CASE Second(t)
      <4>1. NextRun(j, t) = Instant(nxt, TRUE)
        BY <1>9, <2>0, <2>2, <3>1
      <4> QED
        BY <4>1, <2>0, <1>3, <3>1, InstantAhead DEF w
    <3>2. CASE ~Second(t)
      <4>1. NextRun(j, t) = Instant(nxt, FALSE)
        BY <1>9, <2>0, <3>2
      <4> QED
        BY <4>1, <2>0, <1>3, <3>2, InstantAhead DEF w
    <3> QED
      BY <3>1, <3>2
  <2> QED
    BY <2>1, <2>2
<1> QED
  BY <1>4, <1>6, <1>10, <1>11

-----------------------------------------------------------------------------
(* Schedules: the loop and the requests.                                    *)

JobRecords == [there : BOOLEAN, enabled : BOOLEAN, version : 0..MaxEdits,
               next : Times, status : Statuses]
Dues       == [job : Jobs, version : 0..MaxEdits, due : Times]

(* A run has handled the targets that are no longer to come.                *)
Counted(r) == r.good + r.hosts <= SchedHosts /\ (r.pc = "run" => r.job \in Jobs)

(* What the loop has listed was due when it looked, each job once.          *)
ListedOnce ==
    /\ \A s \in loop.left : s.due <= clock
    /\ \A s, q \in loop.left : s.job = q.job => s = q

(* What was started of a job is past, and neither stored nor in hand again. *)
StartedOnce(j) ==
    NoFold(j, clock) \/ /\ \A x \in started[j] : x <= clock /\ x < schedules[j].next
                        /\ \A s \in loop.left : s.job = j => s.due \notin started[j]

SchedInv ==
    /\ SchedTypeOK /\ Counted(loop) /\ Counted(runNow) /\ ListedOnce
    /\ (\A j \in Jobs : StartedOnce(j)) /\ OncePerOccurrence

EditStep ==
    \A j \in Jobs : /\ ~schedules[j].there => ~schedules'[j].there
                    /\ schedules'[j].version # schedules[j].version => edits' # edits
DropStep ==
    \A j \in Jobs : Due(j) /\ schedules'[j].next # schedules[j].next =>
                       schedules[j].next \in started'[j] \cup missed'[j]
StatusStep ==
    \A j \in Jobs :
       LET status == schedules'[j].status
           runs   == {r \in {loop, runNow} : r.pc = "run" /\ r.job = j /\ r.hosts = 0}
       IN  status # schedules[j].status =>
             \E r \in runs : /\ status = "ok" => r.good = SchedHosts
                             /\ status = "partial" => r.good # 0
SchedStepHolds == SchedInv' /\ EditStep /\ DropStep /\ StatusStep

LEMMA SchedTypes ==
    ASSUME SchedTypeOK
    PROVE  /\ clock \in 0..MaxTime /\ clock \in Nat /\ shift \in {-MaxShift, MaxShift}
           /\ schedules \in [Jobs -> JobRecords]
           /\ loop \in Runs /\ runNow \in Runs /\ loop.left \subseteq Dues
           /\ started \in [Jobs -> SUBSET Times] /\ twice \subseteq Jobs
           /\ missed \in [Jobs -> SUBSET Times]
           /\ edits \in 0..MaxEdits /\ mishaps \in 0..MaxMishaps
  BY SchedNumbers DEF SchedTypeOK, JobRecords, Dues, Runs

LEMMA SchedTypesNext ==
    ASSUME clock' \in 0..MaxTime, shift' \in {-MaxShift, MaxShift},
           schedules' \in [Jobs -> JobRecords], loop' \in Runs, runNow' \in Runs,
           started' \in [Jobs -> SUBSET Times], twice' \subseteq Jobs,
           missed' \in [Jobs -> SUBSET Times], edits' \in 0..MaxEdits, mishaps' \in 0..MaxMishaps
    PROVE  SchedTypeOK'
  BY DEF SchedTypeOK, JobRecords

LEMMA IdleRun ==
    /\ NoRun \in Runs /\ Counted(NoRun) /\ NoRun.left = {} /\ NoRun.pc = "idle"
    /\ 0 \in Times /\ 0 \in 0..MaxEdits /\ 0 \in 0..SchedHosts
<1>1. 0 \in Times /\ 0 \in 0..MaxEdits /\ 0 \in 0..SchedHosts
  BY SchedNumbers DEF Times
<1>2. NoRun \in Runs
  BY <1>1 DEF NoRun, Runs
<1>3. Counted(NoRun) /\ NoRun.left = {} /\ NoRun.pc = "idle"
  BY SchedNumbers DEF Counted, NoRun
<1> QED
  BY <1>1, <1>2, <1>3

LEMMA MishapCount ==
    ASSUME SchedTypeOK, Mishap \/ UNCHANGED mishaps
    PROVE  mishaps' \in 0..MaxMishaps
  BY SchedNumbers DEF SchedTypeOK, Mishap

LEMMA EditCount ==
    ASSUME SchedTypeOK, Edit
    PROVE  edits' \in 0..MaxEdits /\ edits' # edits /\ edits + 1 \in 0..MaxEdits
  BY SchedNumbers DEF SchedTypeOK, Edit

(* A job that is written anew, or not, is started at most once more.        *)
LEMMA OnceKept ==
    ASSUME SchedInv, clock' = clock, shift' = shift, started' = started, twice' = twice,
           loop'.left \subseteq loop.left,
           \A j \in Jobs : schedules'[j].next \in {schedules[j].next, NextRun(j, clock)}
    PROVE  ListedOnce' /\ (\A j \in Jobs : StartedOnce(j)') /\ OncePerOccurrence'
<1>1. ListedOnce' /\ OncePerOccurrence'
  BY DEF SchedInv, ListedOnce, OncePerOccurrence
<1>2. ASSUME NEW j \in Jobs PROVE StartedOnce(j)'
  <2>1. NextRun(j, clock) > clock \/ NoFold(j, clock)
    BY SchedTypes, NextRunAhead DEF SchedInv
  <2>2. NextRun(j, clock) \in Nat /\ clock \in Nat
    BY SchedTypes, NextRunAhead, SchedNumbers DEF SchedInv, Times
  <2>3. StartedOnce(j) /\ started[j] \subseteq Nat
    BY SchedTypes, SchedNumbers DEF SchedInv, Times
  <2>4. NoFold(j, clock)' <=> NoFold(j, clock)
    BY DEF NoFold
  <2>5. CASE NoFold(j, clock)
    BY <2>4, <2>5 DEF StartedOnce
  <2>6. CASE ~NoFold(j, clock)
    <3>1. \A x \in started[j] : x <= clock /\ x < schedules'[j].next
      BY <2>1, <2>2, <2>3, <2>6 DEF StartedOnce
    <3> QED
      BY <3>1, <2>3, <2>6 DEF StartedOnce
  <2> QED
    BY <2>5, <2>6
<1> QED
  BY <1>1, <1>2

LEMMA GivenUp ==
    ASSUME SchedInv, NEW j \in Jobs, GivesUp(j), started' = started,
           \A i \in Jobs : i # j => schedules'[i].next = schedules[i].next
    PROVE  DropStep /\ missed' \in [Jobs -> SUBSET Times]
<1>1. schedules[j].next \in Times /\ missed \in [Jobs -> SUBSET Times]
  BY SchedTypes DEF SchedInv, JobRecords
<1> QED
  BY <1>1 DEF GivesUp, DropStep

LEMMA LoopLists ==
    ASSUME SchedInv, ListDue
    PROVE  SchedStepHolds
<1> DEFINE due == {i \in Jobs : Due(i)}
           snap(j) == [job |-> j, version |-> schedules[j].version, due |-> schedules[j].next]
<1>1. /\ loop'.pc = "advance" /\ loop'.left = {snap(j) : j \in due}
      /\ loop'.good = 0 /\ loop'.hosts = 0
  BY DEF ListDue, NoRun
<1>2. \A j \in Jobs : snap(j) \in Dues
  BY SchedTypes DEF SchedInv, JobRecords, Dues
<1>3. loop' \in Runs
  <2>1. {snap(j) : j \in due} \subseteq Dues
    BY <1>2
  <2> HIDE DEF snap, due
  <2> QED
    BY <2>1, <1>1, IdleRun DEF ListDue, NoRun, Runs, Dues, snap, due
<1>4. SchedTypeOK'
  BY <1>3, SchedTypes, SchedTypesNext DEF SchedInv, ListDue, schedHist
<1>5. Counted(loop)' /\ Counted(runNow)'
  BY <1>1, SchedNumbers DEF SchedInv, Counted, ListDue
<1>6. ListedOnce'
  BY <1>1 DEF ListedOnce, ListDue, Due
<1>7. ASSUME NEW j \in Jobs PROVE StartedOnce(j)'
  <2>1. StartedOnce(j) /\ started[j] \subseteq Nat /\ schedules[j].next \in Nat
    BY SchedTypes, SchedNumbers DEF SchedInv, Times, JobRecords
  <2>2. schedules[j].next \notin started[j] \/ NoFold(j, clock)
    BY <2>1 DEF StartedOnce
  <2> QED
    BY <1>1, <2>1, <2>2 DEF StartedOnce, ListDue, schedHist, NoFold
<1>8. OncePerOccurrence'
  BY DEF SchedInv, OncePerOccurrence, ListDue, schedHist
<1>9. EditStep /\ DropStep /\ StatusStep
  BY DEF ListDue, EditStep, DropStep, StatusStep
<1> QED
  BY <1>4, <1>5, <1>6, <1>7, <1>8, <1>9 DEF SchedStepHolds, SchedInv

LEMMA NextInLine ==
    ASSUME NEW left, left \subseteq Dues
    PROVE  NextOf(left) \in Runs /\ Counted(NextOf(left)) /\ NextOf(left).left = left
           /\ NextOf(left).pc # "run"
<1>1. NextOf(left) \in Runs
  BY IdleRun DEF NextOf, NoRun, Runs, Dues
<1>2. Counted(NextOf(left)) /\ NextOf(left).left = left /\ NextOf(left).pc # "run"
  BY SchedNumbers DEF NextOf, NoRun, Counted
<1> QED
  BY <1>1, <1>2

LEMMA RunBegun ==
    ASSUME NEW left, left \subseteq Dues, NEW s \in Dues
    PROVE  Begin(s, left) \in Runs /\ Counted(Begin(s, left)) /\ Begin(s, left).left = left
           /\ Begin(s, left).pc = "run"
<1>1. s.job \in Jobs /\ s.version \in 0..MaxEdits /\ s.due \in Times
  BY DEF Dues
<1>2. /\ Begin(s, left).pc = "run" /\ Begin(s, left).left = left
      /\ Begin(s, left).job = s.job /\ Begin(s, left).good = 0
      /\ Begin(s, left).hosts = SchedHosts
  BY DEF Begin, NoRun
<1>3. SchedHosts \in 0..SchedHosts /\ 0 \in 0..SchedHosts
  BY SchedNumbers
<1>4. Begin(s, left) \in Runs
  BY <1>1, <1>3 DEF Begin, NoRun, Runs, Dues
<1>5. Counted(Begin(s, left))
  BY <1>1, <1>2, SchedNumbers DEF Counted
<1> QED
  BY <1>2, <1>4, <1>5

(* A job's next_run is moved, and no other field but its status.            *)
LEMMA NextMoved ==
    ASSUME SchedInv, NEW j \in Jobs
    PROVE  /\ NextRun(j, clock) \in Times
           /\ [schedules EXCEPT ![j].next = NextRun(j, clock)] \in [Jobs -> JobRecords]
<1>1. NextRun(j, clock) \in Times
  BY SchedTypes, NextRunAhead DEF SchedInv
<1> QED
  BY <1>1, SchedTypes DEF SchedInv, JobRecords

LEMMA LoopAdvances ==
    ASSUME SchedInv, Advance
    PROVE  SchedStepHolds
<1>0. PICK s \in loop.left :
         LET j    == s.job
             left == loop.left \ {s}
             Begun(next) ==
                /\ loop' = next
                /\ IF next.pc = "run"
                   THEN /\ started' = [started EXCEPT ![j] = @ \cup {s.due}]
                        /\ twice' = IF s.due \in started[j] THEN twice \cup {j} ELSE twice
                   ELSE UNCHANGED <<started, twice>>
         IN \/ /\ schedules[j].there
               /\ schedules' = [schedules EXCEPT ![j].next = NextRun(j, clock)]
               /\ Begun(Begin(s, left))
               /\ missed' = IF Due(j) /\ schedules[j].next # s.due
                            THEN [missed EXCEPT ![j] = @ \cup {schedules[j].next}]
                            ELSE missed
               /\ UNCHANGED mishaps
            \/ /\ schedules[j].there /\ Mishap
               /\ Begun(Unsaved(s, left))
               /\ UNCHANGED <<schedules, missed>>
            \/ /\ ~schedules[j].there
               /\ loop' = NextOf(left)
               /\ UNCHANGED <<schedules, started, twice, missed, mishaps>>
  BY DEF Advance
<1> DEFINE j == s.job
           left == loop.left \ {s}
<1>1. /\ s \in Dues /\ j \in Jobs /\ s.due \in Times /\ left \subseteq Dues
      /\ left \subseteq loop.left
  BY SchedTypes DEF SchedInv, Dues
<1>2. UNCHANGED <<clock, shift, runNow, edits>>
  BY DEF Advance
<1>3. CASE /\ schedules[j].there
           /\ schedules' = [schedules EXCEPT ![j].next = NextRun(j, clock)]
           /\ loop' = Begin(s, left)
           /\ started' = [started EXCEPT ![j] = @ \cup {s.due}]
           /\ twice' = IF s.due \in started[j] THEN twice \cup {j} ELSE twice
           /\ missed' = IF Due(j) /\ schedules[j].next # s.due
                        THEN [missed EXCEPT ![j] = @ \cup {schedules[j].next}]
                        ELSE missed
           /\ UNCHANGED mishaps
  <2>1. loop' \in Runs /\ Counted(loop)' /\ loop'.left = left
    BY <1>1, <1>3, RunBegun DEF Counted
  <2>2. schedules' \in [Jobs -> JobRecords]
    BY <1>1, <1>3, NextMoved
  <2>3. schedules[j].next \in Times
    BY <1>1, SchedTypes DEF SchedInv, JobRecords
  <2>4. /\ started' \in [Jobs -> SUBSET Times] /\ twice' \subseteq Jobs
        /\ missed' \in [Jobs -> SUBSET Times]
    BY <1>1, <1>3, <2>3, SchedTypes DEF SchedInv
  <2>5. SchedTypeOK'
    BY <1>2, <1>3, <2>1, <2>2, <2>4, SchedTypes, SchedTypesNext DEF SchedInv
  <2>6. ListedOnce' /\ Counted(runNow)'
    BY <1>1, <1>2, <2>1 DEF SchedInv, ListedOnce, Counted
  <2>7. ASSUME NEW i \in Jobs PROVE StartedOnce(i)'
    <3>1. CASE i # j
      <4>1. schedules'[i] = schedules[i] /\ started'[i] = started[i]
        BY <1>3, <3>1, SchedTypes DEF SchedInv
      <4> QED
        BY <4>1, <1>1, <1>2, <2>1 DEF SchedInv, StartedOnce, NoFold
    <3>2. CASE i = j
      <4>1. schedules'[j].next = NextRun(j, clock) /\ started'[j] = started[j] \cup {s.due}
        BY <1>1, <1>3, SchedTypes DEF SchedInv, JobRecords
      <4>2. s.due <= clock /\ \A q \in left : q.job # j
        BY <1>1 DEF SchedInv, ListedOnce
      <4>3. NextRun(j, clock) > clock \/ NoFold(j, clock)
        BY <1>1, SchedTypes, NextRunAhead DEF SchedInv
      <4>4. NextRun(j, clock) \in Nat /\ clock \in Nat /\ s.due \in Nat /\ started[j] \subseteq Nat
        <5>1. Times \subseteq Nat
          BY SchedNumbers DEF Times
        <5>2. NextRun(j, clock) \in Times /\ started[j] \subseteq Times /\ clock \in Nat
          BY <1>1, NextMoved, SchedTypes DEF SchedInv
        <5> QED
          BY <1>1, <5>1, <5>2
      <4>5. CASE NoFold(j, clock)
        BY <4>5, <1>2, <3>2 DEF StartedOnce, NoFold
      <4>6. CASE ~NoFold(j, clock)
        <5>1. \A x \in started[j] : x <= clock
          BY <1>1, <4>6 DEF SchedInv, StartedOnce
        <5>2. \A x \in started'[j] : x <= clock /\ x < schedules'[j].next
          BY <5>1, <4>1, <4>2, <4>3, <4>4, <4>6
        <5> QED
          BY <5>2, <4>2, <1>2, <2>1, <3>2 DEF StartedOnce
      <4> QED
        BY <4>5, <4>6
    <3> QED
      BY <3>1, <3>2
  <2>8. OncePerOccurrence'
    <3>1. s.due \in started[j] => NoFold(j, clock)
      BY <1>1 DEF SchedInv, StartedOnce
    <3> QED
      BY <1>2, <1>3, <3>1 DEF SchedInv, OncePerOccurrence, NoFold
  <2>9. EditStep /\ StatusStep
    BY <1>1, <1>3, SchedTypes DEF SchedInv, EditStep, StatusStep, JobRecords
  <2>10. DropStep
    <3> SUFFICES ASSUME NEW i \in Jobs, Due(i), schedules'[i].next # schedules[i].next
                 PROVE  schedules[i].next \in started'[i] \cup missed'[i]
      BY DEF DropStep
    <3>1. i = j
      BY <1>3, SchedTypes DEF SchedInv
    <3> QED
      BY <1>1, <1>3, <3>1, SchedTypes DEF SchedInv
  <2> QED
    BY <2>1, <2>5, <2>6, <2>7, <2>8, <2>9, <2>10 DEF SchedStepHolds, SchedInv
<1>4. CASE /\ loop' = NextOf(left) /\ (Mishap \/ UNCHANGED mishaps)
           /\ UNCHANGED <<schedules, started, twice, missed>>
  <2>1. loop' \in Runs /\ Counted(loop)' /\ loop'.left = left
    BY <1>1, <1>4, NextInLine DEF Counted
  <2>2. SchedTypeOK'
    BY <1>2, <1>4, <2>1, MishapCount, SchedTypes, SchedTypesNext DEF SchedInv
  <2>3. ListedOnce' /\ (\A i \in Jobs : StartedOnce(i)') /\ OncePerOccurrence'
    BY <1>1, <1>2, <1>4, <2>1, OnceKept
  <2>4. EditStep /\ DropStep /\ StatusStep /\ Counted(runNow)'
    BY <1>2, <1>4 DEF EditStep, DropStep, StatusStep, SchedInv, Counted
  <2> QED
    BY <2>1, <2>2, <2>3, <2>4 DEF SchedStepHolds, SchedInv
<1>5. Begin(s, left).pc = "run" /\ NextOf(left).pc # "run"
  BY <1>1, RunBegun, NextInLine
<1> QED
  BY <1>0, <1>3, <1>4, <1>5 DEF Unsaved

(* A run at one of its targets counts it, or comes to its end.              *)
LEMMA HostCounted ==
    ASSUME NEW r \in Runs, Counted(r), AtHost(r), NEW q \in Answered(r) \cup Raised(r)
    PROVE  q \in Runs /\ Counted(q) /\ q.left = r.left
<1>1. r.hosts \in Nat /\ r.good \in Nat /\ r.hosts > 0 /\ r.good + r.hosts <= SchedHosts
  BY SchedNumbers DEF Runs, Counted, AtHost
<1>2. r.hosts - 1 \in 0..SchedHosts /\ r.good + 1 \in 0..SchedHosts /\ r.good + 0 \in 0..SchedHosts
      /\ 0 \in 0..SchedHosts
  BY <1>1, SchedNumbers
<1>3. CASE q \in Answered(r)
  <2> PICK did \in {0, 1} : q = [r EXCEPT !.hosts = @ - 1, !.good = @ + did]
    BY <1>3 DEF Answered
  <2>1. r.good + did \in 0..SchedHosts /\ r.good + did \in Int /\ did <= 1
    BY <1>2
  <2>2. /\ q.pc = r.pc /\ q.left = r.left /\ q.job = r.job /\ q.version = r.version
        /\ q.due = r.due /\ q.hosts = r.hosts - 1 /\ q.good = r.good + did
        /\ q.raised = r.raised
    BY DEF Runs
  <2>3. q \in Runs
    BY <1>2, <2>1 DEF Runs
  <2> QED
    BY <1>1, <2>1, <2>2, <2>3, SchedNumbers DEF Counted
<1>4. CASE q \in Raised(r)
  <2>1. q = [r EXCEPT !.hosts = 0, !.raised = TRUE]
    BY <1>4 DEF Raised
  <2>2. q.pc = r.pc /\ q.left = r.left /\ q.job = r.job /\ q.hosts = 0 /\ q.good = r.good
    BY <2>1 DEF Runs
  <2>3. q \in Runs
    BY <1>2, <2>1 DEF Runs
  <2> QED
    BY <1>1, <2>2, <2>3, SchedNumbers DEF Counted
<1> QED
  BY <1>3, <1>4

LEMMA HostsHandled ==
    ASSUME SchedInv, LoopRunsHost \/ RunNowHost
    PROVE  SchedStepHolds
<1>1. loop' \in Runs /\ Counted(loop)' /\ loop'.left \subseteq loop.left
  <2>1. CASE LoopRunsHost
    <3>1. loop' \in Answered(loop) \cup Raised(loop) /\ AtHost(loop)
      BY <2>1 DEF LoopRunsHost
    <3> QED
      BY <3>1, HostCounted, SchedTypes DEF SchedInv, Counted
  <2>2. CASE RunNowHost
    BY <2>2, SchedTypes DEF RunNowHost, SchedInv, Counted
  <2> QED
    BY <2>1, <2>2
<1>2. runNow' \in Runs /\ Counted(runNow)'
  <2>1. CASE LoopRunsHost
    BY <2>1, SchedTypes DEF LoopRunsHost, SchedInv, Counted
  <2>2. CASE RunNowHost
    <3>1. (runNow' \in Answered(runNow) \cup Raised(runNow) /\ AtHost(runNow)) \/ runNow' = NoRun
      BY <2>2 DEF RunNowHost
    <3> QED
      BY <3>1, IdleRun, HostCounted, SchedTypes DEF SchedInv, Counted
  <2> QED
    BY <2>1, <2>2
<1>3. /\ UNCHANGED <<clock, shift, schedules, schedHist, edits>>
      /\ Mishap \/ UNCHANGED mishaps
  BY DEF LoopRunsHost, RunNowHost
<1>4. SchedTypeOK'
  BY <1>1, <1>2, <1>3, MishapCount, SchedTypes, SchedTypesNext DEF SchedInv, schedHist
<1>5. ListedOnce' /\ (\A j \in Jobs : StartedOnce(j)') /\ OncePerOccurrence'
  BY <1>1, <1>3, OnceKept DEF schedHist
<1>6. EditStep /\ DropStep /\ StatusStep
  BY <1>3 DEF EditStep, DropStep, StatusStep
<1> QED
  BY <1>1, <1>2, <1>4, <1>5, <1>6 DEF SchedStepHolds, SchedInv

(* record_run writes the status of the run, and moves next_run.             *)
LEMMA RunRecorded ==
    ASSUME SchedInv, NEW r \in {loop, runNow}, Record(r), loop' \in Runs, Counted(loop)',
           loop'.left \subseteq loop.left, runNow' \in Runs, Counted(runNow)'
    PROVE  SchedStepHolds
<1>1. r.job \in Jobs /\ r.pc = "run" /\ r.hosts = 0
  BY DEF Record, SchedInv, Counted
<1>2. /\ UNCHANGED <<clock, shift, started, twice, edits>>
      /\ Mishap \/ UNCHANGED mishaps
  BY DEF Record
<1>3. CASE UNCHANGED <<schedules, missed>>
  <2>1. SchedTypeOK'
    BY <1>2, <1>3, MishapCount, SchedTypes, SchedTypesNext DEF SchedInv
  <2>2. ListedOnce' /\ (\A j \in Jobs : StartedOnce(j)') /\ OncePerOccurrence'
    BY <1>2, <1>3, OnceKept
  <2>3. EditStep /\ DropStep /\ StatusStep
    BY <1>3 DEF EditStep, DropStep, StatusStep
  <2> QED
    BY <2>1, <2>2, <2>3 DEF SchedStepHolds, SchedInv
<1>4. CASE schedules' = Recorded(r) /\ GivesUp(r.job)
  <2>0. VerdictOf(r) \in Statuses
    BY DEF VerdictOf, Statuses
  <2>1. NextRun(r.job, clock) \in Times
    BY <1>1, NextMoved
  <2>2. schedules' \in [Jobs -> JobRecords]
    BY <1>1, <1>4, <2>0, <2>1, SchedTypes DEF SchedInv, Recorded, JobRecords
  <2>3. \A i \in Jobs : /\ i # r.job => schedules'[i] = schedules[i]
                        /\ schedules'[i].there = schedules[i].there
                        /\ schedules'[i].version = schedules[i].version
                        /\ schedules'[i].next \in {schedules[i].next, NextRun(i, clock)}
                        /\ schedules'[i].status \in {schedules[i].status, VerdictOf(r)}
    BY <1>1, <1>4, SchedTypes DEF SchedInv, Recorded, JobRecords
  <2>4. DropStep /\ missed' \in [Jobs -> SUBSET Times]
    BY <1>1, <1>2, <1>4, <2>3, GivenUp
  <2>5. SchedTypeOK'
    BY <1>2, <2>2, <2>4, MishapCount, SchedTypes, SchedTypesNext DEF SchedInv
  <2>6. ListedOnce' /\ (\A j \in Jobs : StartedOnce(j)') /\ OncePerOccurrence'
    BY <1>2, <2>3, OnceKept
  <2>7. EditStep
    BY <2>3 DEF EditStep
  <2>8. StatusStep
    <3> SUFFICES ASSUME NEW j \in Jobs, schedules'[j].status # schedules[j].status
                 PROVE  \E q \in {p \in {loop, runNow} : p.pc = "run" /\ p.job = j /\ p.hosts = 0} :
                          /\ schedules'[j].status = "ok" => q.good = SchedHosts
                          /\ schedules'[j].status = "partial" => q.good # 0
      BY DEF StatusStep
    <3>1. j = r.job /\ schedules'[j].status = VerdictOf(r)
      BY <2>3
    <3>2. /\ VerdictOf(r) = "ok" => r.good = SchedHosts
          /\ VerdictOf(r) = "partial" => r.good # 0
      BY DEF VerdictOf
    <3> QED
      BY <1>1, <3>1, <3>2
  <2> QED
    BY <2>4, <2>5, <2>6, <2>7, <2>8 DEF SchedStepHolds, SchedInv
<1> QED
  BY <1>3, <1>4 DEF Record

LEMMA RunsRecord ==
    ASSUME SchedInv, LoopRecords \/ RunNowRecords
    PROVE  SchedStepHolds
<1>1. CASE LoopRecords
  <2>1. loop' \in Runs /\ Counted(loop)' /\ loop'.left = loop.left
    BY <1>1, NextInLine, SchedTypes DEF SchedInv, LoopRecords, Counted
  <2>2. runNow' \in Runs /\ Counted(runNow)'
    BY <1>1, SchedTypes DEF SchedInv, LoopRecords, Counted
  <2> QED
    BY <1>1, <2>1, <2>2, RunRecorded DEF LoopRecords
<1>2. CASE RunNowRecords
  <2>1. loop' \in Runs /\ Counted(loop)' /\ loop'.left = loop.left
    BY <1>2, SchedTypes DEF SchedInv, RunNowRecords, Counted
  <2>2. runNow' \in Runs /\ Counted(runNow)'
    BY <1>2, IdleRun DEF RunNowRecords, Counted
  <2> QED
    BY <1>2, <2>1, <2>2, RunRecorded DEF RunNowRecords
<1> QED
  BY <1>1, <1>2

LEMMA JobsEdited ==
    ASSUME SchedInv, NEW j \in Jobs,
           (\E enabled \in BOOLEAN : UpdateJob(j, enabled)) \/ DeleteJob(j)
    PROVE  SchedStepHolds
<1>1. /\ UNCHANGED <<clock, shift, loop, runNow, started, twice, mishaps>>
      /\ Edit /\ GivesUp(j) /\ schedules[j].there
  BY DEF UpdateJob, DeleteJob
<1>2. edits' \in 0..MaxEdits /\ edits' # edits /\ edits + 1 \in 0..MaxEdits
  BY <1>1, EditCount DEF SchedInv
<1>3. NextRun(j, clock) \in Times
  BY NextMoved
<1>4. /\ schedules' \in [Jobs -> JobRecords]
      /\ \A i \in Jobs : /\ i # j => schedules'[i] = schedules[i]
                         /\ schedules'[i].status = schedules[i].status
                         /\ schedules'[i].next \in {schedules[i].next, NextRun(i, clock)}
  <2>1. CASE \E enabled \in BOOLEAN : UpdateJob(j, enabled)
    <3> PICK enabled \in BOOLEAN : UpdateJob(j, enabled)
      BY <2>1
    <3> QED
      BY <1>2, <1>3, SchedTypes DEF SchedInv, UpdateJob, JobRecords
  <2>2. CASE DeleteJob(j)
    BY <2>2, SchedTypes DEF SchedInv, DeleteJob, JobRecords
  <2> QED
    BY <2>1, <2>2
<1>5. DropStep /\ missed' \in [Jobs -> SUBSET Times]
  BY <1>1, <1>4, GivenUp
<1>6. SchedTypeOK'
  BY <1>1, <1>2, <1>4, <1>5, SchedTypes, SchedTypesNext DEF SchedInv
<1>7. ListedOnce' /\ (\A i \in Jobs : StartedOnce(i)') /\ OncePerOccurrence'
  BY <1>1, <1>4, OnceKept
<1>8. EditStep
  BY <1>1, <1>2, <1>4 DEF EditStep
<1>9. StatusStep /\ Counted(loop)' /\ Counted(runNow)'
  BY <1>1, <1>4 DEF StatusStep, SchedInv, Counted
<1> QED
  BY <1>5, <1>6, <1>7, <1>8, <1>9 DEF SchedStepHolds, SchedInv

LEMMA RunNowBegins ==
    ASSUME SchedInv, NEW j \in Jobs, RunNow(j)
    PROVE  SchedStepHolds
<1>1. /\ UNCHANGED <<clock, shift, schedules, loop, schedHist, mishaps>> /\ Edit
      /\ runNow' = Begin([job |-> j, version |-> schedules[j].version, due |-> 0], {})
  BY DEF RunNow
<1>2. [job |-> j, version |-> schedules[j].version, due |-> 0] \in Dues
  BY SchedTypes, IdleRun DEF SchedInv, JobRecords, Dues
<1>3. runNow' \in Runs /\ Counted(runNow)'
  BY <1>1, <1>2, RunBegun DEF Counted
<1>4. SchedTypeOK'
  BY <1>1, <1>3, EditCount, SchedTypes, SchedTypesNext DEF SchedInv, schedHist
<1>5. ListedOnce' /\ (\A i \in Jobs : StartedOnce(i)') /\ OncePerOccurrence'
  BY <1>1, OnceKept DEF schedHist
<1>6. EditStep /\ DropStep /\ StatusStep /\ Counted(loop)'
  BY <1>1 DEF EditStep, DropStep, StatusStep, SchedInv, Counted
<1> QED
  BY <1>3, <1>4, <1>5, <1>6 DEF SchedStepHolds, SchedInv

LEMMA RestartsForget ==
    ASSUME SchedInv, ConsoleRestart
    PROVE  SchedStepHolds
<1>1. /\ UNCHANGED <<clock, shift, schedules, schedHist, edits>> /\ Mishap
      /\ loop' = NoRun /\ runNow' = NoRun
  BY DEF ConsoleRestart
<1>2. loop' \in Runs /\ runNow' \in Runs /\ Counted(loop)' /\ Counted(runNow)' /\ loop'.left = {}
  BY <1>1, IdleRun DEF Counted
<1>3. SchedTypeOK'
  BY <1>1, <1>2, MishapCount, SchedTypes, SchedTypesNext DEF SchedInv, schedHist
<1>4. ListedOnce' /\ (\A i \in Jobs : StartedOnce(i)') /\ OncePerOccurrence'
  BY <1>1, <1>2, OnceKept DEF schedHist
<1>5. EditStep /\ DropStep /\ StatusStep
  BY <1>1 DEF EditStep, DropStep, StatusStep
<1> QED
  BY <1>2, <1>3, <1>4, <1>5 DEF SchedStepHolds, SchedInv

LEMMA ClockMoves ==
    ASSUME SchedInv, TimeGoesOn
    PROVE  SchedStepHolds
<1>1. /\ UNCHANGED <<shift, schedules, loop, runNow, schedHist, edits, mishaps>>
      /\ clock' = clock + 1 /\ clock' \in 0..MaxTime /\ clock \in Nat
  BY SchedTypes, SchedNumbers DEF SchedInv, TimeGoesOn
<1>2. SchedTypeOK'
  BY <1>1, SchedTypes, SchedTypesNext DEF SchedInv, schedHist
<1>3. \A s \in loop.left : s.due \in Nat
  BY SchedTypes, SchedNumbers DEF SchedInv, Dues, Times
<1>4. ListedOnce'
  BY <1>1, <1>3 DEF SchedInv, ListedOnce
<1>5. ASSUME NEW j \in Jobs PROVE StartedOnce(j)'
  <2>1. NoFold(j, clock) => NoFold(j, clock)'
    BY <1>1, SchedNumbers DEF NoFold
  <2>2. started[j] \subseteq Nat
    BY SchedTypes, SchedNumbers DEF SchedInv, Times
  <2>3. StartedOnce(j)
    BY DEF SchedInv
  <2>4. ASSUME NEW x \in started[j], x <= clock PROVE x <= clock'
    BY <1>1, <2>2, <2>4
  <2> QED
    BY <1>1, <2>1, <2>3, <2>4 DEF StartedOnce, schedHist
<1>6. OncePerOccurrence'
  BY <1>1, SchedNumbers DEF SchedInv, OncePerOccurrence, schedHist
<1>7. EditStep /\ DropStep /\ StatusStep /\ Counted(loop)' /\ Counted(runNow)'
  BY <1>1 DEF EditStep, DropStep, StatusStep, SchedInv, Counted
<1> QED
  BY <1>2, <1>4, <1>5, <1>6, <1>7 DEF SchedStepHolds, SchedInv

LEMMA SchedStarts == SchedInit => SchedInv
<1> SUFFICES ASSUME SchedInit PROVE SchedInv
  OBVIOUS
<1>1. clock = 0 /\ 0 \in 0..MaxTime /\ 0 \in 0..MaxEdits /\ 0 \in 0..MaxMishaps
      /\ shift \in {-MaxShift, MaxShift}
  BY SchedNumbers DEF SchedInit
<1>2. \A j \in Jobs : NextRun(j, 0) \in Times
  BY <1>1, NextRunAhead
<1>3. SchedTypeOK
  BY <1>1, <1>2, IdleRun DEF SchedInit, SchedTypeOK, Statuses
<1>4. Counted(loop) /\ Counted(runNow) /\ ListedOnce
  BY IdleRun DEF SchedInit, ListedOnce
<1>5. (\A j \in Jobs : StartedOnce(j)) /\ OncePerOccurrence
  BY IdleRun DEF SchedInit, StartedOnce, OncePerOccurrence
<1> QED
  BY <1>3, <1>4, <1>5 DEF SchedInv

LEMMA SchedStepSafe == SchedInv /\ [SchedNext]_schedVars => SchedStepHolds
<1> SUFFICES ASSUME SchedInv, [SchedNext]_schedVars PROVE SchedStepHolds
  OBVIOUS
<1>1. CASE UNCHANGED schedVars
  <2>1. SchedInv'
    BY <1>1 DEF schedVars, schedHist, SchedInv, SchedTypeOK, Counted, ListedOnce, StartedOnce,
                NoFold, OncePerOccurrence
  <2>2. EditStep /\ DropStep /\ StatusStep
    BY <1>1 DEF schedVars, EditStep, DropStep, StatusStep
  <2> QED
    BY <2>1, <2>2 DEF SchedStepHolds
<1>2. CASE SchedNext
  BY <1>2, LoopLists, LoopAdvances, HostsHandled, RunsRecord, JobsEdited, RunNowBegins,
     RestartsForget, ClockMoves DEF SchedNext, LoopStep
<1> QED
  BY <1>1, <1>2

-----------------------------------------------------------------------------
(* Alerts.                                                                  *)

AlertConfs == [channel : BOOLEAN, disk : BOOLEAN, custom : 0..MaxVersion]
Snapshots  == [channel : {TRUE}, disk : BOOLEAN, custom : 0..MaxVersion]
FormStates == {NoForm} \cup [at : {"open", "checked"}, role : {"superuser", "sysadmin"},
                             conf : AlertConfs]
LoopStates ==
    {Sleeping} \cup [at : {"loaded"}, conf : Snapshots, prev : SUBSET AlertKeys]
    \cup [at : {"gathered", "saved"}, conf : Snapshots, prev : SUBSET AlertKeys,
          now : SUBSET AlertKeys]

(* A sysadmin's form that was let through holds rules that some superuser   *)
(* saved, and the file does at all times.                                   *)
FormsAreAuthored ==
    /\ conf.custom \in authored
    /\ \A f \in Forms : form[f].at = "checked" /\ form[f].role # "superuser" =>
                           form[f].conf.custom \in authored

(* The state of the file is what has been told, but while the loop has      *)
(* written the new one and not sent it.                                     *)
ToldSoFar ==
    upsets = 0 =>
        /\ evaluator.at # "saved" => told = firingKeys
        /\ evaluator.at \in {"loaded", "gathered"} => evaluator.prev = firingKeys
        /\ evaluator.at = "saved" => told = evaluator.prev /\ firingKeys = evaluator.now

AlertTypes == AlertTypeOK /\ form \in [Forms -> FormStates] /\ evaluator \in LoopStates
AlertInv   == AlertTypes /\ FormsAreAuthored /\ ToldSoFar
EditsStep  == evaluator.at = "gathered" /\ evaluator'.at = "saved" => conf' = conf

LEMMA AlertNumbers ==
    /\ MaxVersion \in Nat /\ MaxPosts \in Nat /\ MaxTurns \in Nat /\ MaxUpsets \in Nat
  BY AlertBounds

LEMMA AlertStarts == AlertInit => AlertInv
<1> SUFFICES ASSUME AlertInit PROVE AlertInv
  OBVIOUS
<1>0. /\ 0 \in 0..MaxVersion /\ 0 \in 0..MaxPosts
      /\ 0 \in 0..MaxTurns /\ 0 \in 0..MaxUpsets
  BY AlertNumbers
<1>1. AlertTypes
  BY <1>0 DEF AlertInit, AlertTypes, AlertTypeOK, FormStates, LoopStates, Healthy, FirstConf,
              Sleeping
<1>2. FormsAreAuthored
  BY DEF AlertInit, FormsAreAuthored, FirstConf, NoForm
<1>3. ToldSoFar
  BY DEF AlertInit, ToldSoFar, Sleeping
<1> QED
  BY <1>1, <1>2, <1>3 DEF AlertInv

LEMMA AlertTurns ==
    ASSUME AlertInv, NEW h \in AlertHosts, HostTurns(h)
    PROVE  AlertInv' /\ EditsStep
<1>1. AlertTypes'
  <2> PICK what \in {"online", "disk", "flag", "match"} :
         condition' = [condition EXCEPT ![h][what] = ~@]
    BY DEF HostTurns
  <2>1. condition[h] \in [online : BOOLEAN, disk : BOOLEAN, flag : BOOLEAN, match : BOOLEAN]
    BY DEF AlertInv, AlertTypes, AlertTypeOK
  <2>2. [condition[h] EXCEPT ![what] = ~@]
           \in [online : BOOLEAN, disk : BOOLEAN, flag : BOOLEAN, match : BOOLEAN]
    <3>1. CASE what = "online"
      BY <2>1, <3>1
    <3>2. CASE what = "disk"
      BY <2>1, <3>2
    <3>3. CASE what = "flag"
      BY <2>1, <3>3
    <3>4. CASE what = "match"
      BY <2>1, <3>4
    <3> QED
      BY <3>1, <3>2, <3>3, <3>4
  <2>3. condition' = [condition EXCEPT ![h] = [condition[h] EXCEPT ![what] = ~@]]
    OBVIOUS
  <2>4. condition' \in [AlertHosts -> [online : BOOLEAN, disk : BOOLEAN,
                                        flag : BOOLEAN, match : BOOLEAN]]
    BY <2>2, <2>3 DEF AlertInv, AlertTypes, AlertTypeOK
  <2>5. turns' \in 0..MaxTurns
    BY AlertNumbers DEF HostTurns, AlertInv, AlertTypes, AlertTypeOK
  <2> QED
    BY <2>4, <2>5 DEF HostTurns, AlertInv, AlertTypes, AlertTypeOK
<1>2. FormsAreAuthored' /\ ToldSoFar' /\ EditsStep
  BY DEF HostTurns, AlertInv, FormsAreAuthored, ToldSoFar, EditsStep
<1> QED
  BY <1>1, <1>2 DEF AlertInv

LEMMA AlertForms ==
    ASSUME AlertInv, NEW f \in Forms,
           \/ \E role \in {"superuser", "sysadmin"} : OpenForm(f, role)
           \/ PostForm(f) \/ SaveForm(f)
    PROVE  AlertInv' /\ EditsStep
<1> USE DEF AlertInv, AlertTypes
<1>0. conf \in AlertConfs
  BY DEF AlertTypeOK, AlertConfs
<1>1. CASE \E role \in {"superuser", "sysadmin"} : OpenForm(f, role)
  <2> PICK role \in {"superuser", "sysadmin"} : OpenForm(f, role)
    BY <1>1
  <2>1. [at |-> "open", role |-> role, conf |-> conf] \in FormStates
    BY <1>0 DEF FormStates
  <2>2. form' \in [Forms -> FormStates]
    BY <2>1 DEF OpenForm
  <2>3. AlertTypes'
    BY <2>2 DEF OpenForm, AlertTypeOK
  <2>4. FormsAreAuthored'
    BY DEF OpenForm, FormsAreAuthored
  <2>5. ToldSoFar' /\ EditsStep
    BY DEF OpenForm, ToldSoFar, EditsStep
  <2> QED
    BY <2>3, <2>4, <2>5
<1>2. CASE PostForm(f)
  <2>0. form[f] \in [at : {"open", "checked"}, role : {"superuser", "sysadmin"},
                     conf : AlertConfs]
    BY <1>2 DEF PostForm, FormStates, NoForm
  <2> PICK new \in EditsOf(form[f].conf) :
         form' = [form EXCEPT ![f] =
                    IF MayPost(f, new)
                    THEN [at |-> "checked", role |-> form[f].role, conf |-> new]
                    ELSE NoForm]
    BY <1>2 DEF PostForm
  <2>1. new \in AlertConfs
    <3> DEFINE c == form[f].conf
    <3>1. c \in AlertConfs
      BY <2>0
    <3> HIDE DEF c
    <3>2. \A what \in {"channel", "disk"} : [c EXCEPT ![what] = ~c[what]] \in AlertConfs
      BY <3>1 DEF AlertConfs
    <3>3. \A v \in 0..MaxVersion : [c EXCEPT !.custom = v] \in AlertConfs
      BY <3>1 DEF AlertConfs
    <3>4. EditsOf(c) \subseteq AlertConfs
      BY <3>1, <3>2, <3>3, Zenon DEF EditsOf
    <3> QED
      BY <3>4 DEF c
  <2>2. /\ [at |-> "checked", role |-> form[f].role, conf |-> new] \in FormStates
        /\ NoForm \in FormStates
    BY <2>0, <2>1 DEF FormStates
  <2>3. form' \in [Forms -> FormStates]
    BY <2>2
  <2>4. AlertTypes'
    <3>1. posts' \in 0..MaxPosts
      BY <1>2, AlertNumbers DEF PostForm, AlertTypeOK
    <3> QED
      BY <1>2, <2>3, <3>1 DEF PostForm, AlertTypeOK
  <2>5. FormsAreAuthored'
    BY <1>2 DEF PostForm, FormsAreAuthored, MayPost, NoForm
  <2>6. ToldSoFar' /\ EditsStep
    BY <1>2 DEF PostForm, ToldSoFar, EditsStep
  <2> QED
    BY <2>4, <2>5, <2>6
<1>3. CASE SaveForm(f)
  <2>0. form[f] \in [at : {"open", "checked"}, role : {"superuser", "sysadmin"},
                     conf : AlertConfs]
    BY <1>3 DEF SaveForm, FormStates, NoForm
  <2>1. conf' \in AlertConfs /\ authored' \subseteq 0..MaxVersion /\ authored \subseteq authored'
    BY <1>3, <2>0 DEF SaveForm, AlertConfs, AlertTypeOK
  <2>2. form' \in [Forms -> FormStates]
    BY <1>3 DEF SaveForm, FormStates
  <2>3. AlertTypes'
    BY <1>3, <2>1, <2>2 DEF SaveForm, AlertTypeOK, AlertConfs
  <2>4. FormsAreAuthored'
    BY <1>3, <2>1 DEF SaveForm, FormsAreAuthored, NoForm
  <2>5. ToldSoFar'
    BY <1>3 DEF SaveForm, ToldSoFar
  <2>6. EditsStep
    BY <1>3 DEF SaveForm, EditsStep
  <2> QED
    BY <2>3, <2>4, <2>5, <2>6
<1> QED
  BY <1>1, <1>2, <1>3

LEMMA LoopReads ==
    ASSUME AlertInv, WakeUp \/ Gather
    PROVE  AlertInv' /\ EditsStep
<1> USE DEF AlertInv, AlertTypes
<1>1. CASE WakeUp
  <2>1. [at |-> "loaded", conf |-> conf, prev |-> firingKeys] \in LoopStates
    BY <1>1 DEF WakeUp, CycleDue, AlertTypeOK, LoopStates, Snapshots
  <2>2. AlertTypes'
    BY <1>1, <2>1 DEF WakeUp, CycleDue, AlertTypeOK, LoopStates
  <2>3. FormsAreAuthored' /\ ToldSoFar' /\ EditsStep
    BY <1>1 DEF WakeUp, FormsAreAuthored, ToldSoFar, EditsStep, Sleeping
  <2> QED
    BY <2>2, <2>3
<1>2. CASE Gather
  <2>0. evaluator \in [at : {"loaded"}, conf : Snapshots, prev : SUBSET AlertKeys]
    BY <1>2 DEF Gather, LoopStates, Sleeping
  <2>1. \A l : Measured(l, evaluator.conf) \in SUBSET AlertKeys
    BY DEF Measured
  <2> PICK l \in {AlertHosts, {}} : Gathered(l) /\ (Upset \/ UNCHANGED upsets)
    BY <1>2 DEF Gather
  <2>2. evaluator' \in [at : {"gathered"}, conf : Snapshots, prev : SUBSET AlertKeys,
                         now : SUBSET AlertKeys]
        /\ evaluator'.at = "gathered" /\ evaluator'.prev = evaluator.prev
    BY <2>0, <2>1 DEF Gathered
  <2>3. evaluator' \in LoopStates
    BY <2>2 DEF LoopStates
  <2>4. upsets' \in 0..MaxUpsets /\ (upsets' = 0 => upsets = 0)
    BY AlertNumbers DEF Upset, AlertTypeOK
  <2>5. AlertTypes'
    BY <1>2, <2>2, <2>3, <2>4 DEF Gather, AlertTypeOK, Snapshots
  <2>6. FormsAreAuthored' /\ EditsStep
    BY <1>2, <2>2 DEF Gather, FormsAreAuthored, EditsStep
  <2>7. ToldSoFar'
    BY <1>2, <2>0, <2>2, <2>4 DEF Gather, ToldSoFar
  <2> QED
    BY <2>5, <2>6, <2>7
<1> QED
  BY <1>1, <1>2

LEMMA LoopTells ==
    ASSUME AlertInv, SaveState \/ Notify \/ ConsoleDies
    PROVE  AlertInv' /\ EditsStep
<1> USE DEF AlertInv, AlertTypes
<1>1. CASE SaveState
  <2>0. evaluator \in [at : {"gathered", "saved"}, conf : Snapshots,
                       prev : SUBSET AlertKeys, now : SUBSET AlertKeys]
    BY <1>1 DEF SaveState, LoopStates, Sleeping
  <2>1. /\ evaluator' \in [at : {"gathered", "saved"}, conf : Snapshots,
                           prev : SUBSET AlertKeys, now : SUBSET AlertKeys]
        /\ evaluator'.at = "saved" /\ evaluator'.prev = evaluator.prev
        /\ evaluator'.now = evaluator.now
    BY <1>1, <2>0 DEF SaveState
  <2>2. evaluator' \in LoopStates
    BY <2>1 DEF LoopStates
  <2>3. AlertTypes'
    BY <1>1, <2>0, <2>1, <2>2 DEF SaveState, AlertTypeOK, Snapshots, Written
  <2>4. FormsAreAuthored' /\ EditsStep
    BY <1>1 DEF SaveState, FormsAreAuthored, EditsStep, Written
  <2>5. ToldSoFar'
    BY <1>1, <2>1 DEF SaveState, ToldSoFar
  <2> QED
    BY <2>3, <2>4, <2>5
<1>2. CASE Notify
  <2>0. evaluator \in [at : {"gathered", "saved"}, conf : Snapshots,
                       prev : SUBSET AlertKeys, now : SUBSET AlertKeys]
    BY <1>2 DEF Notify, LoopStates, Sleeping
  <2>1. upsets' \in 0..MaxUpsets /\ (upsets' = 0 => upsets = 0 /\ told' = (told \cup New) \ Resolved)
    BY <1>2, AlertNumbers DEF Notify, Upset, AlertTypeOK
  <2>2. told' \subseteq AlertKeys
    BY <1>2, <2>0 DEF Notify, New, AlertTypeOK
  <2>3. AlertTypes'
    BY <1>2, <2>1, <2>2 DEF Notify, AlertTypeOK, LoopStates, Sleeping
  <2>4. FormsAreAuthored' /\ EditsStep
    BY <1>2 DEF Notify, FormsAreAuthored, EditsStep
  <2>5. ToldSoFar'
    BY <1>2, <2>0, <2>1 DEF Notify, ToldSoFar, Sleeping, New, Resolved
  <2> QED
    BY <2>3, <2>4, <2>5
<1>3. CASE ConsoleDies
  <2>1. form' \in [Forms -> FormStates]
    BY <1>3 DEF ConsoleDies, FormStates
  <2>2. upsets' \in 0..MaxUpsets /\ upsets' # 0
    BY <1>3, AlertNumbers DEF ConsoleDies, Upset, AlertTypeOK
  <2>3. AlertTypes'
    BY <1>3, <2>1, <2>2 DEF ConsoleDies, AlertTypeOK, LoopStates, Sleeping
  <2>4. FormsAreAuthored'
    BY <1>3 DEF ConsoleDies, FormsAreAuthored, NoForm
  <2>5. ToldSoFar' /\ EditsStep
    BY <1>3, <2>2 DEF ConsoleDies, ToldSoFar, EditsStep, Sleeping
  <2> QED
    BY <2>3, <2>4, <2>5
<1> QED
  BY <1>1, <1>2, <1>3

LEMMA AlertStepSafe == AlertInv /\ [AlertNext]_alertVars => AlertInv' /\ EditsStep
<1> SUFFICES ASSUME AlertInv, [AlertNext]_alertVars PROVE AlertInv' /\ EditsStep
  OBVIOUS
<1>1. CASE UNCHANGED alertVars
  BY <1>1 DEF alertVars, AlertInv, AlertTypes, AlertTypeOK, FormsAreAuthored, ToldSoFar, EditsStep
<1>2. CASE AlertNext
  BY <1>2, AlertTurns, AlertForms, LoopReads, LoopTells DEF AlertNext
<1> QED
  BY <1>1, <1>2

LEMMA AlertsFollow == AlertInv => AlertTypeOK /\ ToldIsRemembered /\ RulesAreAuthored
  BY DEF AlertInv, AlertTypes, ToldSoFar, FormsAreAuthored, ToldIsRemembered,
         RulesAreAuthored, Sleeping

-----------------------------------------------------------------------------
(* The fleet caches.                                                        *)

(* The fleet has not changed at h since then.                               *)
Same(h, ids) == h \in ids <=> h \in enrolled

(* What a task holds: ids of the fleet as it was when it came, a list of it *)
(* as it was when its probes began.                                         *)
TrueTask(q) ==
    /\ q.came <= now /\ q.start <= now
    /\ q.at = "lock" /\ q.knows =>
          \A h \in FleetHosts : since[h] + MemoTtl < q.came => Same(h, q.ids)
    /\ q.at \in {"lock", "probe"} => q.kind \in {"load", "refresh", "prime"}
    /\ q.at = "probe" =>
          /\ q.start = lastSweep /\ q.came <= q.start
          /\ \A h \in FleetHosts : since[h] < q.start => Same(h, q.list)
    /\ q.at = "merge" =>
          /\ q.kind \in {"scan", "full"}
          /\ \A h \in FleetHosts : since[h] < q.start =>
                /\ h \in q.list => h \in enrolled
                /\ q.kind = "full" => Same(h, q.list)
    /\ q.kind = "refresh" => q.at \in {"lock", "probe"}

OneSweeps == \A t, u \in TaskIds : probes[t].at = "probe" /\ probes[u].at = "probe" => t = u

MemoIsTrue ==
    /\ idsMemo.at <= now
    /\ idsMemo.at # -1 => \A h \in FleetHosts : since[h] < idsMemo.at => Same(h, idsMemo.ids)

(* A reading is no older than the time stamp says, but the exempt ones; and *)
(* while nobody sweeps, the cache covers the fleet of the last sweep.       *)
ReadingsAreTrue ==
    \A h \in FleetHosts :
        /\ cached[h] # -1 /\ since[h] = Never => h \in enrolled
        /\ cached[h] # -1 /\ since[h] = Never /\ h \notin late => cached[h] >= stamp - StoreMaxAge
        /\ Unlocked /\ lastSweep # -1 /\ since[h] < lastSweep /\ h \notin late =>
              (cached[h] # -1 <=> h \in enrolled)

PastIsPast == lastSweep <= now /\ \A h \in FleetHosts : since[h] <= now

CacheInv ==
    /\ FleetTypeOK /\ PastIsPast /\ (\A t \in TaskIds : TrueTask(probes[t])) /\ OneSweeps
    /\ MemoIsTrue /\ ReadingsAreTrue

TaskStages  == {"unborn", "lock", "probe", "merge", "hit", "done", "failed"}
TaskReports == [kind : Kinds, at : TaskStages, came : 0..MaxClock, knows : BOOLEAN,
                ids : SUBSET FleetHosts, list : SUBSET FleetHosts, start : 0..MaxClock]

CoverStep ==
    \A t \in TaskIds : Hit(t) /\ Knew(t) =>
       \A h \in FleetHosts : since[h] + MemoTtl < Came(t) => (h \in enrolled <=> cached[h] # -1)
RecentStep ==
    \A t \in TaskIds : Hit(t) =>
       \A h \in FleetHosts : cached[h] # -1 /\ since[h] = Never /\ h \notin late
          => now - cached[h] < CacheTtl + StoreMaxAge
LiveStep ==
    \A t \in TaskIds : probes[t].kind = "refresh" /\ probes'[t].at \in {"done", "hit"} =>
       \A h \in FleetHosts : cached'[h] # -1 => cached'[h] >= probes[t].came
BurstStep ==
    \A t \in TaskIds :
       probes[t].kind = "load" /\ probes'[t].at = "probe" /\ probes[t].at = "lock" =>
          \/ lastSweep = -1 \/ now - lastSweep >= CacheTtl
          \/ \E h \in FleetHosts : \/ since[h] + MemoTtl >= lastSweep
                                   \/ since[h] + MemoTtl >= probes[t].came
          \/ stamp < lastSweep \/ late # {}
ServeStep     == CoverStep /\ RecentStep /\ LiveStep /\ BurstStep
CacheStepHolds == CacheInv' /\ ServeStep

LEMMA CacheNumbers ==
    CacheTtl \in Nat /\ MemoTtl \in Nat /\ StoreMaxAge \in Nat /\ MaxTasks \in Nat
    /\ MaxClock \in Nat /\ MaxTrouble \in Nat
  BY CacheBounds

LEMMA CacheTypes ==
    ASSUME FleetTypeOK
    PROVE  /\ now \in 0..MaxClock /\ now \in Nat /\ enrolled \subseteq FleetHosts
           /\ since \in [FleetHosts -> Never..MaxClock] /\ answers \in BOOLEAN
           /\ \A h \in FleetHosts : since[h] \in Int /\ cached[h] \in Int
           /\ idsMemo.ids \subseteq FleetHosts /\ idsMemo.at \in -1..MaxClock /\ idsMemo.at \in Int
           /\ cached \in Readings /\ stamp \in -1..MaxClock /\ stamp \in Int
           /\ probes \in [TaskIds -> TaskReports]
           /\ \A t \in TaskIds : probes[t].came \in Nat /\ probes[t].start \in Nat
           /\ lastSweep \in -1..MaxClock /\ lastSweep \in Int /\ late \subseteq FleetHosts
           /\ trouble \in 0..MaxTrouble
<1>1. Never \in Int
  BY CacheNumbers DEF Never
<1>2. probes \in [TaskIds -> TaskReports]
  BY DEF FleetTypeOK, TaskReports, TaskStages
<1>3. \A t \in TaskIds : probes[t].came \in Nat /\ probes[t].start \in Nat
  BY <1>2, CacheNumbers DEF TaskReports
<1> QED
  BY <1>1, <1>2, <1>3, CacheNumbers DEF FleetTypeOK, Readings

LEMMA CacheTypesNext ==
    ASSUME now' \in 0..MaxClock, enrolled' \subseteq FleetHosts,
           since' \in [FleetHosts -> Never..MaxClock], answers' \in BOOLEAN,
           idsMemo' \in [ids : SUBSET FleetHosts, at : -1..MaxClock],
           cached' \in Readings, stamp' \in -1..MaxClock, probes' \in [TaskIds -> TaskReports],
           lastSweep' \in -1..MaxClock, late' \subseteq FleetHosts, trouble' \in 0..MaxTrouble
    PROVE  FleetTypeOK'
  BY DEF FleetTypeOK, TaskReports, TaskStages

(* A task that has come to its end.                                         *)
LEMMA TaskEnded ==
    ASSUME FleetTypeOK, NEW t \in TaskIds, NEW how \in {"hit", "done", "failed"}, EndsProbe(t, how)
    PROVE  /\ probes' \in [TaskIds -> TaskReports]
           /\ probes'[t].at = how /\ probes'[t].kind = "load"
           /\ probes'[t].came = 0 /\ probes'[t].start = 0
           /\ \A u \in TaskIds : u # t => probes'[u] = probes[u]
<1>1. 0 \in 0..MaxClock
  BY CacheNumbers
<1>2. [Blank EXCEPT !.at = how] \in TaskReports
  BY <1>1 DEF Blank, TaskReports, TaskStages, Kinds
<1>3. probes' = [probes EXCEPT ![t] = [Blank EXCEPT !.at = how]]
  BY DEF EndsProbe, Becomes
<1> QED
  BY <1>2, <1>3, CacheTypes DEF Blank

LEMMA EndIsTrue ==
    ASSUME NEW t \in TaskIds, probes'[t].at \in {"hit", "done", "failed"},
           probes'[t].kind = "load", probes'[t].came = 0, probes'[t].start = 0, now' \in Nat
    PROVE  TrueTask(probes[t])'
  BY DEF TrueTask

(* The tasks that do not move, when the fleet does not either.              *)
LEMMA OthersStay ==
    ASSUME CacheInv, NEW u \in TaskIds, probes'[u] = probes[u],
           UNCHANGED <<now, enrolled, since>>, UNCHANGED lastSweep \/ probes[u].at # "probe"
    PROVE  TrueTask(probes[u])'
  BY DEF CacheInv, TrueTask, Same

(* A cache that is fresh shows the fleet that the task knows, and recently. *)
LEMMA FreshIsTrue ==
    ASSUME CacheInv, stamp # -1, now - stamp < CacheTtl
    PROVE  \A h \in FleetHosts : cached[h] # -1 /\ since[h] = Never /\ h \notin late
              => now - cached[h] < CacheTtl + StoreMaxAge
<1> SUFFICES ASSUME NEW h \in FleetHosts, cached[h] # -1, since[h] = Never, h \notin late
             PROVE  now - cached[h] < CacheTtl + StoreMaxAge
  OBVIOUS
<1>1. cached[h] >= stamp - StoreMaxAge
  BY DEF CacheInv, ReadingsAreTrue
<1>2. cached[h] \in Int /\ stamp \in Int /\ now \in Int
  BY CacheTypes DEF CacheInv
<1> QED
  BY <1>1, <1>2, CacheNumbers

LEMMA KnownIds ==
    ASSUME CacheInv, Knows
    PROVE  \A h \in FleetHosts : since[h] + MemoTtl < now => Same(h, Ids)
<1> SUFFICES ASSUME NEW h \in FleetHosts, since[h] + MemoTtl < now PROVE Same(h, Ids)
  OBVIOUS
<1>1. CASE Remembered
  <2>1. since[h] < idsMemo.at
    BY <1>1, CacheTypes, CacheNumbers DEF CacheInv, Remembered
  <2> QED
    BY <1>1, <2>1 DEF CacheInv, MemoIsTrue, Ids, Remembered
<1>2. CASE ~Remembered
  BY <1>2 DEF Ids, Knows, Same
<1> QED
  BY <1>1, <1>2

LEMMA LoadServed ==
    ASSUME CacheInv, NEW t \in TaskIds, Load(t)
    PROVE  CacheStepHolds
<1>0. /\ UNCHANGED <<now, enrolled, since, answers, cached, stamp, lastSweep, late, trouble>>
      /\ idsMemo' = IF Remembered \/ ~answers THEN idsMemo ELSE [ids |-> enrolled, at |-> now]
      /\ probes[t].at = "unborn"
  BY DEF Load, NextTask
<1> DEFINE waits == [Blank EXCEPT !.at = "lock", !.came = now, !.knows = Knows, !.ids = Ids]
<1>1. \/ EndsProbe(t, "hit") /\ Fresh("load", Knows, Ids)
      \/ Becomes(t, waits)
  BY DEF Load
<1>2. Ids \subseteq FleetHosts /\ Knows \in BOOLEAN
  BY CacheTypes DEF CacheInv, Ids, Knows, Remembered
<1>3. waits \in TaskReports
  <2>1. 0 \in 0..MaxClock
    BY CacheNumbers
  <2> QED
    BY <1>2, <2>1, CacheTypes DEF CacheInv, Blank, TaskReports, TaskStages, Kinds
<1>4. /\ waits.at = "lock" /\ waits.came = now /\ (waits.knows <=> Knows) /\ waits.ids = Ids
      /\ waits.kind = "load" /\ waits.start = 0
  BY DEF Blank
<1>5. Becomes(t, waits) =>
        /\ probes' \in [TaskIds -> TaskReports] /\ probes'[t] = waits
        /\ \A u \in TaskIds : u # t => probes'[u] = probes[u]
  BY <1>3, CacheTypes DEF CacheInv, Becomes
<1>6. EndsProbe(t, "hit") =>
        /\ probes' \in [TaskIds -> TaskReports]
        /\ probes'[t].at = "hit" /\ probes'[t].kind = "load"
        /\ probes'[t].came = 0 /\ probes'[t].start = 0
        /\ \A u \in TaskIds : u # t => probes'[u] = probes[u]
  BY TaskEnded DEF CacheInv
<1>7. /\ probes' \in [TaskIds -> TaskReports] /\ probes'[t].at \in {"hit", "lock"}
      /\ \A u \in TaskIds : u # t => probes'[u] = probes[u]
  BY <1>1, <1>4, <1>5, <1>6
<1> HIDE DEF waits
<1>8. idsMemo' \in [ids : SUBSET FleetHosts, at : -1..MaxClock]
  BY <1>0, CacheTypes, CacheNumbers DEF CacheInv, FleetTypeOK
<1>9. FleetTypeOK'
  BY <1>0, <1>7, <1>8, CacheTypes, CacheTypesNext DEF CacheInv, FleetTypeOK
<1>10. TrueTask(probes[t])'
  <2>1. CASE EndsProbe(t, "hit")
    BY <1>0, <1>6, <2>1, EndIsTrue, CacheTypes DEF CacheInv
  <2>2. CASE Becomes(t, waits)
    <3>1. Knows => \A h \in FleetHosts : since[h] + MemoTtl < now => Same(h, Ids)
      BY KnownIds
    <3>2. /\ probes'[t].at = "lock" /\ probes'[t].came = now /\ (probes'[t].knows => Knows)
          /\ probes'[t].ids = Ids /\ probes'[t].kind = "load" /\ probes'[t].start = 0
      BY <1>4, <1>5, <2>2
    <3>3. now \in Nat /\ now' = now /\ enrolled' = enrolled /\ since' = since
      BY <1>0, CacheTypes DEF CacheInv
    <3> QED
      BY <3>1, <3>2, <3>3 DEF TrueTask, Same
  <2> QED
    BY <1>1, <2>1, <2>2
<1>11. \A u \in TaskIds : TrueTask(probes[u])'
  BY <1>0, <1>7, <1>10, OthersStay
<1>12. OneSweeps' /\ PastIsPast'
  BY <1>0, <1>7 DEF CacheInv, OneSweeps, PastIsPast
<1>13. MemoIsTrue'
  <2>1. CASE idsMemo' = idsMemo
    BY <1>0, <2>1 DEF CacheInv, MemoIsTrue, Same
  <2>2. CASE idsMemo' = [ids |-> enrolled, at |-> now]
    BY <1>0, <2>2, CacheTypes DEF CacheInv, MemoIsTrue, Same
  <2> QED
    BY <1>0, <2>1, <2>2
<1>14. ReadingsAreTrue'
  BY <1>0, <1>7 DEF CacheInv, ReadingsAreTrue, Unlocked
<1>15. CoverStep /\ RecentStep
  <2>1. ASSUME NEW u \in TaskIds, Hit(u)
        PROVE  u = t /\ Fresh("load", Knows, Ids)
    BY <1>1, <1>4, <1>5, <1>7, <2>1 DEF Hit
  <2>2. Hit(t) => stamp # -1 /\ now - stamp < CacheTtl /\ (Knows => Listed(cached) = Ids)
    BY <2>1 DEF Fresh, Covers
  <2>3. Came(t) = now /\ (Knew(t) <=> Knows)
    BY <1>0 DEF Came, Knew
  <2>4. RecentStep
    BY <2>1, <2>2, FreshIsTrue DEF RecentStep
  <2>5. CoverStep
    <3> SUFFICES ASSUME Hit(t), Knows, NEW h \in FleetHosts, since[h] + MemoTtl < now
                 PROVE  h \in enrolled <=> cached[h] # -1
      BY <2>1, <2>3 DEF CoverStep
    <3>1. Same(h, Ids)
      BY KnownIds
    <3> QED
      BY <2>2, <3>1 DEF Same, Listed
  <2> QED
    BY <2>4, <2>5
<1>16. LiveStep /\ BurstStep
  <2>1. \A u \in TaskIds : probes[u].kind = "refresh" => probes[u].at \in {"lock", "probe"}
    BY DEF CacheInv, TrueTask
  <2> QED
    BY <1>0, <1>7, <2>1 DEF LiveStep, BurstStep
<1> QED
  BY <1>9, <1>11, <1>12, <1>13, <1>14, <1>15, <1>16 DEF CacheStepHolds, ServeStep, CacheInv

LEMMA OnDemand ==
    ASSUME CacheInv, NEW t \in TaskIds, NEW kind \in {"refresh", "prime"}, Demand(t, kind)
    PROVE  CacheStepHolds
<1>0. /\ UNCHANGED <<now, enrolled, since, answers, idsMemo, cached, stamp, lastSweep, late, trouble>>
      /\ probes[t].at = "unborn"
  BY DEF Demand, NextTask
<1> DEFINE waits == [Blank EXCEPT !.kind = kind, !.at = "lock", !.came = now]
<1>1. waits \in TaskReports
  <2>1. 0 \in 0..MaxClock
    BY CacheNumbers
  <2> QED
    BY <2>1, CacheTypes DEF CacheInv, Blank, TaskReports, TaskStages, Kinds
<1>2. /\ probes' \in [TaskIds -> TaskReports] /\ probes'[t] = waits
      /\ \A u \in TaskIds : u # t => probes'[u] = probes[u]
  BY <1>1, CacheTypes DEF CacheInv, Demand, Becomes
<1>3. /\ probes'[t].at = "lock" /\ probes'[t].came = now /\ ~probes'[t].knows
      /\ probes'[t].kind = kind /\ probes'[t].start = 0
  BY <1>2 DEF Blank
<1> HIDE DEF waits
<1>4. FleetTypeOK'
  BY <1>0, <1>2, CacheTypes, CacheTypesNext DEF CacheInv, FleetTypeOK
<1>5. TrueTask(probes[t])'
  <2>1. now \in Nat /\ now' = now
    BY <1>0, CacheTypes DEF CacheInv
  <2> QED
    BY <1>3, <2>1 DEF TrueTask
<1>6. \A u \in TaskIds : TrueTask(probes[u])'
  BY <1>0, <1>2, <1>5, OthersStay
<1>7. OneSweeps' /\ PastIsPast' /\ MemoIsTrue' /\ ReadingsAreTrue'
  BY <1>0, <1>2, <1>3 DEF CacheInv, OneSweeps, PastIsPast, MemoIsTrue, Same, ReadingsAreTrue,
                         Unlocked
<1>8. CoverStep /\ RecentStep
  BY <1>2, <1>3 DEF CoverStep, RecentStep, Hit
<1>9. LiveStep /\ BurstStep
  <2>1. \A u \in TaskIds : probes[u].kind = "refresh" => probes[u].at \in {"lock", "probe"}
    BY DEF CacheInv, TrueTask
  <2> QED
    BY <1>0, <1>2, <1>3, <2>1 DEF LiveStep, BurstStep
<1> QED
  BY <1>4, <1>6, <1>7, <1>8, <1>9 DEF CacheStepHolds, ServeStep, CacheInv

(* A load sweeps again within the life of the last sweep only for a reason. *)
LEMMA SweepHasReason ==
    ASSUME CacheInv, NEW t \in TaskIds, probes[t].at = "lock", probes[t].kind = "load",
           Unlocked, ~SecondLook(probes[t])
    PROVE  \/ lastSweep = -1 \/ now - lastSweep >= CacheTtl
           \/ \E h \in FleetHosts : \/ since[h] + MemoTtl >= lastSweep
                                    \/ since[h] + MemoTtl >= probes[t].came
           \/ stamp < lastSweep \/ late # {}
<1> SUFFICES ASSUME lastSweep # -1, ~(now - lastSweep >= CacheTtl), ~(stamp < lastSweep), late = {},
                    \A h \in FleetHosts : /\ ~(since[h] + MemoTtl >= lastSweep)
                                          /\ ~(since[h] + MemoTtl >= probes[t].came)
             PROVE  FALSE
  OBVIOUS
<1>1. /\ now \in Int /\ stamp \in Int /\ lastSweep \in Int /\ lastSweep >= -1
      /\ probes[t].came \in Int /\ \A h \in FleetHosts : since[h] \in Int
      /\ probes[t] \in TaskReports
  BY CacheTypes DEF CacheInv
<1>2. stamp # -1 /\ now - stamp < CacheTtl
  BY <1>1, CacheNumbers
<1>3. probes[t].knows /\ Listed(cached) # probes[t].ids
  BY <1>1, <1>2 DEF SecondLook, Fresh, Covers, TaskReports
<1>4. ASSUME NEW h \in FleetHosts
      PROVE  h \in probes[t].ids <=> h \in enrolled
  <2>1. since[h] + MemoTtl < probes[t].came
    BY <1>1, CacheNumbers
  <2> QED
    BY <1>3, <2>1 DEF CacheInv, TrueTask, Same
<1>5. ASSUME NEW h \in FleetHosts
      PROVE  cached[h] # -1 <=> h \in enrolled
  <2>1. since[h] < lastSweep
    BY <1>1, CacheNumbers
  <2> QED
    BY <2>1 DEF CacheInv, ReadingsAreTrue
<1>6. probes[t].ids \subseteq FleetHosts
  BY <1>1 DEF TaskReports
<1> QED
  BY <1>3, <1>4, <1>5, <1>6 DEF Listed

LEMMA LockTaken ==
    ASSUME CacheInv, NEW t \in TaskIds, Lock(t)
    PROVE  CacheStepHolds
<1>0. /\ UNCHANGED <<now, enrolled, since, answers, idsMemo, cached, stamp, late, trouble>>
      /\ probes[t].at = "lock" /\ Unlocked
  BY DEF Lock
<1>1. /\ probes[t] \in TaskReports /\ probes[t].kind \in {"load", "refresh", "prime"}
      /\ probes[t].came <= now /\ now \in Nat /\ now \in 0..MaxClock
      /\ enrolled \subseteq FleetHosts /\ lastSweep \in -1..MaxClock
  BY <1>0, CacheTypes DEF CacheInv, TrueTask
<1> DEFINE sweeps == [probes[t] EXCEPT !.at = "probe", !.list = enrolled, !.start = now]
<1>2. \/ SecondLook(probes[t]) /\ EndsProbe(t, "hit") /\ UNCHANGED lastSweep
      \/ ~SecondLook(probes[t]) /\ Becomes(t, sweeps) /\ lastSweep' = now
      \/ ~SecondLook(probes[t]) /\ EndsProbe(t, "failed") /\ UNCHANGED lastSweep
  BY DEF Lock
<1>3. sweeps \in TaskReports
  BY <1>1 DEF TaskReports, TaskStages
<1>4. /\ sweeps.at = "probe" /\ sweeps.list = enrolled /\ sweeps.start = now
      /\ sweeps.kind = probes[t].kind /\ sweeps.came = probes[t].came
  BY <1>1 DEF TaskReports
<1>5. ASSUME Becomes(t, sweeps)
      PROVE  /\ probes' \in [TaskIds -> TaskReports] /\ probes'[t] = sweeps
             /\ \A u \in TaskIds : u # t => probes'[u] = probes[u]
  BY <1>3, <1>5, CacheTypes DEF CacheInv, Becomes
<1> HIDE DEF sweeps
<1>6. CASE Becomes(t, sweeps) /\ lastSweep' = now /\ ~SecondLook(probes[t])
  <2>0. /\ probes'[t].at = "probe" /\ probes'[t].list = enrolled /\ probes'[t].start = now
        /\ probes'[t].kind = probes[t].kind /\ probes'[t].came = probes[t].came
        /\ \A u \in TaskIds : u # t => probes'[u] = probes[u]
        /\ probes' \in [TaskIds -> TaskReports]
    BY <1>4, <1>5, <1>6
  <2>1. FleetTypeOK'
    BY <1>0, <1>1, <1>6, <2>0, CacheTypes, CacheTypesNext DEF CacheInv, FleetTypeOK
  <2>2. TrueTask(probes[t])'
    BY <1>0, <1>1, <1>6, <2>0 DEF TrueTask, Same
  <2>3. \A u \in TaskIds : TrueTask(probes[u])'
    BY <1>0, <2>0, <2>2, OthersStay DEF Unlocked
  <2>4. OneSweeps'
    BY <1>0, <2>0 DEF OneSweeps, Unlocked
  <2>5. PastIsPast' /\ MemoIsTrue'
    BY <1>0, <1>1, <1>6 DEF CacheInv, PastIsPast, MemoIsTrue, Same
  <2>6. ReadingsAreTrue'
    <3>1. ~Unlocked'
      BY <2>0 DEF Unlocked
    <3> QED
      BY <1>0, <3>1 DEF CacheInv, ReadingsAreTrue
  <2>7. CoverStep /\ RecentStep /\ LiveStep
    <3>1. \A u \in TaskIds : probes[u].kind = "refresh" => probes[u].at \in {"lock", "probe"}
      BY DEF CacheInv, TrueTask
    <3> QED
      BY <2>0, <3>1 DEF CoverStep, RecentStep, LiveStep, Hit
  <2>8. BurstStep
    <3> SUFFICES ASSUME NEW u \in TaskIds, probes[u].kind = "load", probes'[u].at = "probe",
                        probes[u].at = "lock"
                 PROVE  \/ lastSweep = -1 \/ now - lastSweep >= CacheTtl
                        \/ \E h \in FleetHosts : \/ since[h] + MemoTtl >= lastSweep
                                                 \/ since[h] + MemoTtl >= probes[u].came
                        \/ stamp < lastSweep \/ late # {}
      BY DEF BurstStep
    <3>1. u = t
      BY <2>0
    <3> QED
      BY <1>0, <1>6, <3>1, SweepHasReason
  <2> QED
    BY <2>1, <2>3, <2>4, <2>5, <2>6, <2>7, <2>8 DEF CacheStepHolds, ServeStep, CacheInv
<1>7. CASE /\ UNCHANGED lastSweep
           /\ (EndsProbe(t, "hit") /\ SecondLook(probes[t])) \/ EndsProbe(t, "failed")
  <2>0. /\ probes' \in [TaskIds -> TaskReports]
        /\ probes'[t].at \in {"hit", "failed"} /\ probes'[t].kind = "load"
        /\ probes'[t].came = 0 /\ probes'[t].start = 0
        /\ probes'[t].at = "hit" => SecondLook(probes[t])
        /\ \A u \in TaskIds : u # t => probes'[u] = probes[u]
    <3>1. CASE EndsProbe(t, "hit") /\ SecondLook(probes[t])
      BY <3>1, TaskEnded DEF CacheInv
    <3>2. CASE EndsProbe(t, "failed")
      BY <3>2, TaskEnded DEF CacheInv
    <3> QED
      BY <1>7, <3>1, <3>2
  <2>1. FleetTypeOK'
    BY <1>0, <1>1, <1>7, <2>0, CacheTypes, CacheTypesNext DEF CacheInv, FleetTypeOK
  <2>2. TrueTask(probes[t])'
    BY <1>0, <1>1, <2>0, EndIsTrue
  <2>3. \A u \in TaskIds : TrueTask(probes[u])'
    BY <1>0, <1>7, <2>0, <2>2, OthersStay
  <2>4. OneSweeps' /\ PastIsPast' /\ MemoIsTrue'
    BY <1>0, <1>7, <2>0 DEF CacheInv, OneSweeps, PastIsPast, MemoIsTrue, Same
  <2>5. ReadingsAreTrue'
    BY <1>0, <1>7, <2>0 DEF CacheInv, ReadingsAreTrue, Unlocked
  <2>6. ASSUME NEW u \in TaskIds, Hit(u)
        PROVE  /\ u = t /\ stamp # -1 /\ now - stamp < CacheTtl
               /\ probes[t].knows => Listed(cached) = probes[t].ids
    BY <2>0, <2>6 DEF Hit, SecondLook, Fresh, Covers
  <2>7. RecentStep
    BY <2>6, FreshIsTrue DEF RecentStep
  <2>8. CoverStep
    <3> SUFFICES ASSUME Hit(t), Knew(t), NEW h \in FleetHosts, since[h] + MemoTtl < Came(t)
                 PROVE  h \in enrolled <=> cached[h] # -1
      BY <2>6 DEF CoverStep
    <3>1. probes[t].knows /\ since[h] + MemoTtl < probes[t].came
      BY <1>0 DEF Knew, Came
    <3>2. Same(h, probes[t].ids)
      BY <1>0, <3>1 DEF CacheInv, TrueTask
    <3> QED
      BY <2>6, <3>1, <3>2 DEF Same, Listed
  <2>9. LiveStep /\ BurstStep
    <3>1. \A u \in TaskIds : probes[u].kind = "refresh" => probes[u].at \in {"lock", "probe"}
      BY DEF CacheInv, TrueTask
    <3>2. probes'[t].at = "hit" => probes[t].kind # "refresh"
      BY <2>0 DEF SecondLook, Fresh
    <3> QED
      BY <1>0, <2>0, <3>1, <3>2 DEF LiveStep, BurstStep
  <2> QED
    BY <2>1, <2>3, <2>4, <2>5, <2>7, <2>8, <2>9 DEF CacheStepHolds, ServeStep, CacheInv
<1> QED
  BY <1>2, <1>6, <1>7

(* What the probes of a task bring: a reading of every host on its list,    *)
(* not older than it may be.                                                *)
LEMMA FoundFacts ==
    ASSUME FleetTypeOK, NEW q \in TaskReports, NEW r \in Found(q)
    PROVE  /\ r \in Readings
           /\ \A h \in FleetHosts :
                 /\ r[h] # -1 <=> h \in q.list
                 /\ r[h] # -1 => /\ r[h] \in Int
                                 /\ r[h] >= q.start - StoreMaxAge
                                 /\ Live(q.kind) => r[h] >= q.start
<1>1. now \in Nat /\ now \in 0..MaxClock /\ q.list \subseteq FleetHosts /\ q.start \in Nat
  BY CacheTypes, CacheNumbers DEF TaskReports
<1> DEFINE oldest == IF Live(q.kind) THEN q.start ELSE q.start - StoreMaxAge
<1>2. /\ r \in [FleetHosts -> {-1} \cup {w \in 0..now : w >= oldest}]
      /\ Listed(r) = q.list
  BY DEF Found
<1>3. oldest \in Int /\ oldest >= q.start - StoreMaxAge /\ (Live(q.kind) => oldest = q.start)
  BY <1>1, CacheNumbers
<1> HIDE DEF oldest
<1>4. r \in Readings
  <2>1. {-1} \cup {w \in 0..now : w >= oldest} \subseteq -1..MaxClock
    BY <1>1, CacheNumbers
  <2> QED
    BY <1>2, <2>1 DEF Readings
<1>5. ASSUME NEW h \in FleetHosts
      PROVE  /\ r[h] # -1 <=> h \in q.list
             /\ r[h] # -1 => r[h] \in Int /\ r[h] >= oldest
  BY <1>1, <1>2 DEF Listed
<1>6. q.start - StoreMaxAge \in Int
  BY <1>1, CacheNumbers
<1> QED
  BY <1>1, <1>3, <1>4, <1>5, <1>6

LEMMA SweepStored ==
    ASSUME CacheInv, NEW t \in TaskIds, Store(t)
    PROVE  CacheStepHolds
<1>0. /\ UNCHANGED <<now, enrolled, since, answers, idsMemo, lastSweep, trouble>>
      /\ probes[t].at = "probe" /\ cached' \in Found(probes[t])
      /\ stamp' = probes[t].start /\ late' = {} /\ EndsProbe(t, "done")
  BY DEF Store
<1>1. /\ probes[t] \in TaskReports /\ probes[t].start = lastSweep /\ probes[t].came <= probes[t].start
      /\ \A h \in FleetHosts : since[h] < probes[t].start => Same(h, probes[t].list)
      /\ probes[t].start \in 0..MaxClock /\ probes[t].start \in Nat /\ probes[t].came \in Nat
      /\ now \in Nat
  BY <1>0, CacheTypes, CacheNumbers DEF CacheInv, TrueTask, TaskReports
<1>2. /\ probes' \in [TaskIds -> TaskReports]
      /\ probes'[t].at = "done" /\ probes'[t].kind = "load"
      /\ probes'[t].came = 0 /\ probes'[t].start = 0
      /\ \A u \in TaskIds : u # t => probes'[u] = probes[u]
  BY <1>0, TaskEnded DEF CacheInv
<1>3. /\ cached' \in Readings
      /\ \A h \in FleetHosts :
            /\ cached'[h] # -1 <=> h \in probes[t].list
            /\ cached'[h] # -1 => /\ cached'[h] \in Int
                                  /\ cached'[h] >= probes[t].start - StoreMaxAge
                                  /\ Live(probes[t].kind) => cached'[h] >= probes[t].start
  BY <1>0, <1>1, FoundFacts DEF CacheInv
<1>4. FleetTypeOK'
  <2>1. stamp' \in -1..MaxClock
    BY <1>0, <1>1
  <2> QED
    BY <1>0, <1>2, <1>3, <2>1, CacheTypes, CacheTypesNext DEF CacheInv, FleetTypeOK
<1>5. \A u \in TaskIds : TrueTask(probes[u])'
  <2>1. TrueTask(probes[t])'
    BY <1>0, <1>1, <1>2, EndIsTrue
  <2> QED
    BY <1>0, <1>2, <2>1, OthersStay
<1>6. OneSweeps' /\ PastIsPast' /\ MemoIsTrue'
  BY <1>0, <1>2 DEF CacheInv, OneSweeps, PastIsPast, MemoIsTrue, Same
<1>7. ReadingsAreTrue'
  <2> SUFFICES ASSUME NEW h \in FleetHosts
               PROVE  /\ cached'[h] # -1 /\ since[h] = Never => h \in enrolled
                      /\ cached'[h] # -1 => cached'[h] >= stamp' - StoreMaxAge
                      /\ since[h] < lastSweep => (cached'[h] # -1 <=> h \in enrolled)
    BY <1>0 DEF ReadingsAreTrue
  <2>1. Never < probes[t].start
    BY <1>1, CacheNumbers DEF Never
  <2> QED
    BY <1>0, <1>1, <1>3, <2>1 DEF Same
<1>8. CoverStep /\ RecentStep /\ BurstStep
  BY <1>0, <1>2 DEF CoverStep, RecentStep, BurstStep, Hit
<1>9. LiveStep
  <2> SUFFICES ASSUME NEW u \in TaskIds, probes[u].kind = "refresh", probes'[u].at \in {"done", "hit"},
                      NEW h \in FleetHosts, cached'[h] # -1
               PROVE  cached'[h] >= probes[u].came
    BY DEF LiveStep
  <2>1. u = t
    <3>1. probes[u].at \in {"lock", "probe"}
      BY DEF CacheInv, TrueTask
    <3> QED
      BY <1>2, <3>1
  <2>2. cached'[h] >= probes[t].start /\ cached'[h] \in Int
    BY <1>3, <2>1 DEF Live
  <2> QED
    BY <1>1, <2>1, <2>2
<1> QED
  BY <1>4, <1>5, <1>6, <1>7, <1>8, <1>9 DEF CacheStepHolds, ServeStep, CacheInv

LEMMA ScanBegun ==
    ASSUME CacheInv, NEW t \in TaskIds, NEW some \in SUBSET FleetHosts, Scan(t, some)
    PROVE  CacheStepHolds
<1>0. /\ UNCHANGED <<now, enrolled, since, answers, idsMemo, cached, stamp, lastSweep, late, trouble>>
      /\ probes[t].at = "unborn" /\ some \subseteq enrolled
  BY DEF Scan, NextTask
<1>p. PICK kind \in {"full", "scan"} :
       /\ kind = "full" => some = enrolled
       /\ Becomes(t, [Blank EXCEPT !.kind = kind, !.at = "merge", !.list = some, !.start = now])
  BY DEF Scan
<1> DEFINE scans == [Blank EXCEPT !.kind = kind, !.at = "merge", !.list = some, !.start = now]
<1>1. scans \in TaskReports
  <2>1. 0 \in 0..MaxClock
    BY CacheNumbers
  <2> QED
    BY <2>1, CacheTypes DEF CacheInv, Blank, TaskReports, TaskStages, Kinds
<1>2. /\ probes' \in [TaskIds -> TaskReports] /\ probes'[t] = scans
      /\ \A u \in TaskIds : u # t => probes'[u] = probes[u]
  BY <1>p, <1>1, CacheTypes DEF CacheInv, Becomes
<1>3. /\ probes'[t].at = "merge" /\ probes'[t].came = 0 /\ probes'[t].start = now
      /\ probes'[t].kind = kind /\ probes'[t].list = some
  BY <1>2 DEF Blank
<1> HIDE DEF scans
<1>4. FleetTypeOK'
  BY <1>0, <1>2, CacheTypes, CacheTypesNext DEF CacheInv, FleetTypeOK
<1>5. TrueTask(probes[t])'
  <2>1. now \in Nat /\ now' = now /\ enrolled' = enrolled
    BY <1>0, CacheTypes DEF CacheInv
  <2> QED
    BY <1>0, <1>p, <1>3, <2>1 DEF TrueTask, Same
<1>6. \A u \in TaskIds : TrueTask(probes[u])'
  BY <1>0, <1>2, <1>5, OthersStay
<1>7. OneSweeps' /\ PastIsPast' /\ MemoIsTrue' /\ ReadingsAreTrue'
  BY <1>0, <1>2, <1>3 DEF CacheInv, OneSweeps, PastIsPast, MemoIsTrue, Same, ReadingsAreTrue,
                         Unlocked
<1>8. CoverStep /\ RecentStep
  BY <1>2, <1>3 DEF CoverStep, RecentStep, Hit
<1>9. LiveStep /\ BurstStep
  <2>1. \A u \in TaskIds : probes[u].kind = "refresh" => probes[u].at \in {"lock", "probe"}
    BY DEF CacheInv, TrueTask
  <2> QED
    BY <1>0, <1>2, <1>3, <2>1 DEF LiveStep, BurstStep
<1> QED
  BY <1>4, <1>6, <1>7, <1>8, <1>9 DEF CacheStepHolds, ServeStep, CacheInv

LEMMA ScanMerged ==
    ASSUME CacheInv, NEW t \in TaskIds, Merge(t)
    PROVE  CacheStepHolds
<1>0. /\ UNCHANGED <<now, enrolled, since, answers, idsMemo, lastSweep, trouble>>
      /\ probes[t].at = "merge" /\ Unlocked /\ stamp' = Stamped(probes[t]) /\ EndsProbe(t, "done")
      /\ late' = IF probes[t].start < stamp \/ probes[t].start < lastSweep
                 THEN late \cup probes[t].list ELSE late \ probes[t].list
  BY DEF Merge
<1>p. PICK r \in Found(probes[t]) :
       cached' = [h \in FleetHosts |-> IF r[h] # -1 THEN r[h] ELSE cached[h]]
  BY DEF Merge
<1>1. /\ probes[t] \in TaskReports /\ probes[t].kind \in {"scan", "full"}
      /\ \A h \in FleetHosts : since[h] < probes[t].start =>
            /\ h \in probes[t].list => h \in enrolled
            /\ probes[t].kind = "full" => (h \in probes[t].list <=> h \in enrolled)
      /\ probes[t].start \in 0..MaxClock /\ probes[t].start \in Nat /\ now \in Nat
      /\ probes[t].list \subseteq FleetHosts
  BY <1>0, CacheTypes, CacheNumbers DEF CacheInv, TrueTask, TaskReports, Same
<1>2. /\ probes' \in [TaskIds -> TaskReports]
      /\ probes'[t].at = "done" /\ probes'[t].kind = "load"
      /\ probes'[t].came = 0 /\ probes'[t].start = 0
      /\ \A u \in TaskIds : u # t => probes'[u] = probes[u]
  BY <1>0, TaskEnded DEF CacheInv
<1>3. /\ r \in Readings
      /\ \A h \in FleetHosts :
            /\ r[h] # -1 <=> h \in probes[t].list
            /\ r[h] # -1 => r[h] \in Int /\ r[h] >= probes[t].start
  BY <1>1, FoundFacts DEF CacheInv, Live
<1>4. /\ cached' \in Readings
      /\ \A h \in FleetHosts :
            /\ h \in probes[t].list => /\ cached'[h] # -1 /\ cached'[h] \in Int
                                       /\ cached'[h] >= probes[t].start
            /\ h \notin probes[t].list => cached'[h] = cached[h]
  BY <1>p, <1>3, CacheTypes DEF CacheInv, Readings
<1>5. FleetTypeOK'
  <2>1. stamp' \in -1..MaxClock
    BY <1>0, <1>1, CacheTypes DEF CacheInv, Stamped
  <2>2. late' \subseteq FleetHosts
    BY <1>0, <1>1, CacheTypes DEF CacheInv
  <2> QED
    BY <1>0, <1>2, <1>4, <2>1, <2>2, CacheTypes, CacheTypesNext DEF CacheInv, FleetTypeOK
<1>6. \A u \in TaskIds : TrueTask(probes[u])'
  <2>1. TrueTask(probes[t])'
    BY <1>0, <1>1, <1>2, EndIsTrue
  <2> QED
    BY <1>0, <1>2, <2>1, OthersStay
<1>7. OneSweeps' /\ PastIsPast' /\ MemoIsTrue'
  BY <1>0, <1>2 DEF CacheInv, OneSweeps, PastIsPast, MemoIsTrue, Same
<1>8. ReadingsAreTrue'
  <2> SUFFICES ASSUME NEW h \in FleetHosts
               PROVE  /\ cached'[h] # -1 /\ since[h] = Never => h \in enrolled
                      /\ cached'[h] # -1 /\ since[h] = Never /\ h \notin late' =>
                            cached'[h] >= stamp' - StoreMaxAge
                      /\ lastSweep # -1 /\ since[h] < lastSweep /\ h \notin late' =>
                            (cached'[h] # -1 <=> h \in enrolled)
    BY <1>0 DEF ReadingsAreTrue
  <2>0. /\ Never < probes[t].start
        /\ since[h] \in Int /\ stamp \in Int /\ lastSweep \in Int /\ cached[h] \in Int
        /\ stamp' = stamp \/ (stamp' = probes[t].start /\ probes[t].kind = "full")
    BY <1>0, <1>1, CacheTypes, CacheNumbers DEF CacheInv, Never, Stamped
  <2>1. CASE h \in probes[t].list
    <3>1. h \notin late' => probes[t].start >= stamp /\ probes[t].start >= lastSweep
      BY <1>0, <1>1, <2>0, <2>1
    <3>2. since[h] = Never => h \in enrolled
      BY <1>1, <2>0, <2>1
    <3>3. h \notin late' => cached'[h] >= stamp' - StoreMaxAge
      BY <1>1, <1>4, <2>0, <2>1, <3>1, CacheNumbers
    <3>4. h \notin late' /\ since[h] < lastSweep => h \in enrolled
      BY <1>1, <2>0, <2>1, <3>1
    <3> QED
      BY <1>4, <2>1, <3>2, <3>3, <3>4
  <2>2. CASE h \notin probes[t].list
    <3>1. /\ cached'[h] = cached[h] /\ (h \in late' <=> h \in late)
      BY <1>0, <1>4, <2>2
    <3>2. /\ cached[h] # -1 /\ since[h] = Never => h \in enrolled
          /\ cached[h] # -1 /\ since[h] = Never /\ h \notin late => cached[h] >= stamp - StoreMaxAge
          /\ lastSweep # -1 /\ since[h] < lastSweep /\ h \notin late =>
                (cached[h] # -1 <=> h \in enrolled)
      BY <1>0 DEF CacheInv, ReadingsAreTrue
    <3>3. cached[h] # -1 /\ since[h] = Never => stamp' = stamp
      BY <1>1, <2>0, <2>2, <3>2
    <3> QED
      BY <3>1, <3>2, <3>3
  <2> QED
    BY <2>1, <2>2
<1>9. CoverStep /\ RecentStep /\ BurstStep
  BY <1>0, <1>2 DEF CoverStep, RecentStep, BurstStep, Hit
<1>10. LiveStep
  <2>1. \A u \in TaskIds : probes[u].kind = "refresh" => probes[u].at \in {"lock", "probe"}
    BY DEF CacheInv, TrueTask
  <2> QED
    BY <1>0, <1>2, <2>1 DEF LiveStep
<1> QED
  BY <1>5, <1>6, <1>7, <1>8, <1>9, <1>10 DEF CacheStepHolds, ServeStep, CacheInv

LEMMA TroubleCount ==
    ASSUME FleetTypeOK, Troubled \/ UNCHANGED trouble
    PROVE  trouble' \in 0..MaxTrouble
  BY CacheTypes, CacheNumbers DEF Troubled

LEMMA QuietSteps ==
    ASSUME CacheInv, UNCHANGED probes
    PROVE  ServeStep
<1>1. \A u \in TaskIds : probes[u].kind = "refresh" => probes[u].at \in {"lock", "probe"}
  BY DEF CacheInv, TrueTask
<1> QED
  BY <1>1 DEF ServeStep, CoverStep, RecentStep, LiveStep, BurstStep, Hit

LEMMA RosterChanged ==
    ASSUME CacheInv, NEW h \in FleetHosts, Roster(h)
    PROVE  CacheStepHolds
<1>0. /\ UNCHANGED <<now, answers, idsMemo, cached, stamp, probes, lastSweep, late>> /\ Troubled
      /\ enrolled' = IF h \in enrolled THEN enrolled \ {h} ELSE enrolled \cup {h}
      /\ since' = [since EXCEPT ![h] = now]
  BY DEF Roster
<1>1. /\ since' \in [FleetHosts -> Never..MaxClock] /\ now \in Nat
      /\ since'[h] = now /\ enrolled' \subseteq FleetHosts
      /\ \A i \in FleetHosts : i # h => since'[i] = since[i] /\ (i \in enrolled' <=> i \in enrolled)
  <2>1. now \in Never..MaxClock
    BY CacheTypes, CacheNumbers DEF CacheInv, Never
  <2> QED
    BY <1>0, <2>1, CacheTypes DEF CacheInv
<1>2. FleetTypeOK'
  BY <1>0, <1>1, TroubleCount, CacheTypes, CacheTypesNext DEF CacheInv, FleetTypeOK
<1>3. PastIsPast' /\ OneSweeps'
  BY <1>0, <1>1 DEF CacheInv, PastIsPast, OneSweeps
<1>4. ASSUME NEW u \in TaskIds PROVE TrueTask(probes[u])'
  <2>1. /\ TrueTask(probes[u]) /\ probes[u].came \in Nat /\ probes[u].start \in Nat
        /\ probes[u].came <= now /\ probes[u].start <= now
    BY CacheTypes DEF CacheInv, TrueTask
  <2>2. ~(now + MemoTtl < probes[u].came) /\ ~(now < probes[u].start)
    BY <1>1, <2>1, CacheNumbers
  <2> QED
    BY <1>0, <1>1, <2>1, <2>2 DEF TrueTask, Same
<1>5. MemoIsTrue'
  <2>1. ~(now < idsMemo.at)
    BY <1>1, CacheTypes DEF CacheInv, MemoIsTrue
  <2> QED
    BY <1>0, <1>1, <2>1 DEF CacheInv, MemoIsTrue, Same
<1>6. ReadingsAreTrue'
  <2>1. ~(now < lastSweep) /\ now # Never
    BY <1>1, CacheTypes, CacheNumbers DEF CacheInv, PastIsPast, Never
  <2> QED
    BY <1>0, <1>1, <2>1 DEF CacheInv, ReadingsAreTrue, Unlocked
<1> QED
  BY <1>0, <1>2, <1>3, <1>4, <1>5, <1>6, QuietSteps DEF CacheStepHolds, CacheInv

LEMMA OutageComes ==
    ASSUME CacheInv, Outage
    PROVE  CacheStepHolds
<1>0. /\ UNCHANGED <<now, enrolled, since, idsMemo, cached, stamp, probes, lastSweep, late>>
      /\ Troubled \/ UNCHANGED trouble
      /\ answers' \in BOOLEAN
  BY DEF Outage
<1>1. FleetTypeOK'
  BY <1>0, TroubleCount, CacheTypes, CacheTypesNext DEF CacheInv, FleetTypeOK
<1>2. PastIsPast' /\ OneSweeps' /\ MemoIsTrue' /\ ReadingsAreTrue'
  BY <1>0 DEF CacheInv, PastIsPast, OneSweeps, MemoIsTrue, Same, ReadingsAreTrue, Unlocked
<1>3. \A u \in TaskIds : TrueTask(probes[u])'
  BY <1>0, OthersStay
<1> QED
  BY <1>0, <1>1, <1>2, <1>3, QuietSteps DEF CacheStepHolds, CacheInv

LEMMA CacheClock ==
    ASSUME CacheInv, ClockTicks
    PROVE  CacheStepHolds
<1>0. /\ UNCHANGED <<enrolled, since, answers, idsMemo, cached, stamp, probes, lastSweep, late,
                     trouble>>
      /\ now' = now + 1 /\ now' \in 0..MaxClock /\ now \in Nat
  BY CacheTypes, CacheNumbers DEF CacheInv, ClockTicks
<1>1. FleetTypeOK'
  BY <1>0, CacheTypes, CacheTypesNext DEF CacheInv, FleetTypeOK
<1>2. \A x \in Int : x <= now => x <= now'
  BY <1>0
<1>3. PastIsPast' /\ MemoIsTrue'
  BY <1>0, <1>2, CacheTypes DEF CacheInv, PastIsPast, MemoIsTrue, Same
<1>4. OneSweeps' /\ ReadingsAreTrue'
  BY <1>0 DEF CacheInv, OneSweeps, ReadingsAreTrue, Unlocked
<1>5. ASSUME NEW u \in TaskIds PROVE TrueTask(probes[u])'
  <2>1. TrueTask(probes[u]) /\ probes[u].came \in Int /\ probes[u].start \in Int
    BY CacheTypes DEF CacheInv
  <2> QED
    BY <1>0, <1>2, <2>1 DEF TrueTask, Same
<1> QED
  BY <1>0, <1>1, <1>3, <1>4, <1>5, QuietSteps DEF CacheStepHolds, CacheInv

LEMMA CacheStarts == FleetInit => CacheInv
<1> SUFFICES ASSUME FleetInit PROVE CacheInv
  OBVIOUS
<1>1. /\ 0 \in 0..MaxClock /\ -1 \in -1..MaxClock /\ 0 \in 0..MaxTrouble /\ Never \in Never..MaxClock
      /\ Never <= 0 /\ Never \in Int
  BY CacheNumbers DEF Never
<1>2. Blank \in TaskReports
  BY <1>1 DEF Blank, TaskReports, TaskStages, Kinds
<1>3. FleetTypeOK
  <2>1. probes \in [TaskIds -> TaskReports] /\ cached \in Readings
    BY <1>1, <1>2 DEF FleetInit, Absent, Readings
  <2>2. since \in [FleetHosts -> Never..MaxClock] /\ enrolled \subseteq FleetHosts
    BY <1>1 DEF FleetInit
  <2>3. idsMemo \in [ids : SUBSET FleetHosts, at : -1..MaxClock]
    BY <1>1 DEF FleetInit
  <2> QED
    BY <1>1, <2>1, <2>2, <2>3 DEF FleetInit, FleetTypeOK, TaskReports, TaskStages
<1>4. PastIsPast /\ MemoIsTrue
  BY <1>1 DEF FleetInit, PastIsPast, MemoIsTrue
<1>5. (\A t \in TaskIds : TrueTask(probes[t])) /\ OneSweeps
  BY DEF FleetInit, TrueTask, OneSweeps, Blank
<1>6. ReadingsAreTrue
  BY DEF FleetInit, ReadingsAreTrue, Absent
<1> QED
  BY <1>3, <1>4, <1>5, <1>6 DEF CacheInv

LEMMA CacheStepSafe == CacheInv /\ [FleetNext]_fleetVars => CacheStepHolds
<1> SUFFICES ASSUME CacheInv, [FleetNext]_fleetVars PROVE CacheStepHolds
  OBVIOUS
<1>1. CASE UNCHANGED fleetVars
  <2>1. FleetTypeOK' /\ PastIsPast' /\ OneSweeps' /\ MemoIsTrue' /\ ReadingsAreTrue'
    BY <1>1 DEF fleetVars, CacheInv, FleetTypeOK, PastIsPast, OneSweeps, MemoIsTrue, Same,
                ReadingsAreTrue, Unlocked
  <2>2. \A u \in TaskIds : TrueTask(probes[u])'
    BY <1>1, OthersStay DEF fleetVars
  <2> QED
    BY <1>1, <2>1, <2>2, QuietSteps DEF fleetVars, CacheStepHolds, CacheInv
<1>2. CASE FleetNext
  BY <1>2, LoadServed, LockTaken, SweepStored, ScanMerged, OnDemand, ScanBegun, RosterChanged,
     OutageComes, CacheClock DEF FleetNext
<1> QED
  BY <1>1, <1>2

-----------------------------------------------------------------------------
(* The desired-state cycle.                                                 *)

RunRecs   == [host : Managed, state : States, again : BOOLEAN, ran : 0..1]
CycleRecs == [at : {"none", "ask", "run", "act", "reapply", "done", "raised"},
              left : Seq(Managed), todo : Seq(Nat), run : Nat, fired : Seq(Actions),
              reapplied : BOOLEAN, preview : BOOLEAN]
Ledgers   == [applied : Nat, failed : Nat, skipped : Nat]
BaselineTypes ==
    /\ declared \in [Managed -> SUBSET States]
    /\ handed \in Seq(RunRecs) /\ Len(handed) <= MaxRuns
    /\ cycle \in CycleRecs /\ cycle.run \in 0..Len(handed)
    /\ ledger \in Ledgers

(* The runs of the cycle itself, and those that are over.                   *)
Firsts == {r \in 1..Len(handed) : ~handed[r].again}
Over   == {r \in Firsts : handed[r].ran = 1}
Twins(r, q) == handed[r].host = handed[q].host /\ handed[r].state = handed[q].state

(* Each state of a host is run first once: while it is to come, nothing of  *)
(* its host is.                                                             *)
RunFirstOnce ==
    /\ \A i, j \in 1..Len(cycle.left) : cycle.left[i] = cycle.left[j] => i = j
    /\ \A r, q \in Firsts : Twins(r, q) => r = q
    /\ \A r \in Firsts, i \in 1..Len(cycle.left) : cycle.left[i] # handed[r].host

(* What is to be run of the host in hand is what has not run.               *)
ToBeRun ==
    /\ \A i \in 1..Len(cycle.todo) : cycle.todo[i] \in Firsts /\ handed[cycle.todo[i]].ran = 0
    /\ \A i, j \in 1..Len(cycle.todo) : cycle.todo[i] = cycle.todo[j] => i = j
    /\ \A r \in Firsts : handed[r].ran = 0 => \E i \in 1..Len(cycle.todo) : cycle.todo[i] = r
    /\ cycle.at \notin {"run", "act", "reapply"} => cycle.todo = <<>>
    /\ cycle.at = "done" => cycle.left = <<>>

Carrying == cycle.at \in {"act", "reapply"}
CarriesOut ==
    /\ Carrying => cycle.run \in Over
    /\ cycle.at = "reapply" => cycle.reapplied /\ ~cycle.preview

(* A second run is that of a first one whose actions have been carried out  *)
(* as far as a reapply, and there is no third.                              *)
SecondHasFirst ==
    /\ \A r \in 1..Len(handed) : handed[r].again => ~cycle.preview
    /\ \A r \in 1..Len(handed) : handed[r].again /\ handed[r].ran = 1 =>
          \E f \in Over : /\ Twins(f, r)
                          /\ Carrying /\ f = cycle.run => cycle.reapplied /\ cycle.at = "act"
    /\ \A r, q \in 1..Len(handed) :
          /\ handed[r].again /\ handed[q].again /\ handed[r].ran = 1 /\ handed[q].ran = 1
          /\ Twins(r, q)
          => r = q

Untouched == {h \in Managed : /\ \A i \in 1..Len(cycle.left) : cycle.left[i] # h
                              /\ \A r \in Firsts : handed[r].host # h}
LedgerIsTrue ==
    /\ ledger.applied + ledger.failed = Cardinality(Over)
    /\ cycle.at \notin {"none", "raised"} => ledger.skipped = Cardinality(Untouched)

NothingYet == cycle.at = "none" => handed = <<>> /\ ledger = FreshLedger

BaselineInv ==
    /\ BaselineTypes /\ RunFirstOnce /\ ToBeRun /\ CarriesOut /\ SecondHasFirst
    /\ LedgerIsTrue /\ NothingYet

LEMMA BaselineNumbers == MaxRuns \in Nat /\ IsFiniteSet(Managed) /\ IsFiniteSet(States)
  BY BaselineBounds

LEMMA SetAsList ==
    ASSUME NEW S, IsFiniteSet(S)
    PROVE  /\ SetToSeq(S) \in Seq(S) /\ Len(SetToSeq(S)) = Cardinality(S)
           /\ \A i, j \in 1..Cardinality(S) : SetToSeq(S)[i] = SetToSeq(S)[j] => i = j
           /\ \A x \in S : \E i \in 1..Cardinality(S) : SetToSeq(S)[i] = x
<1> DEFINE n == Cardinality(S)
<1>1. n \in Nat /\ ExistsBijection(1..n, S)
  BY FS_CardinalityType
<1>2. \E f \in [1..n -> S] : IsInjective(f)
  BY <1>1 DEF ExistsBijection, Bijection, Injection
<1>3. SetToSeq(S) \in [1..n -> S] /\ IsInjective(SetToSeq(S))
  BY <1>2 DEF SetToSeq
<1>4. SetToSeq(S) \in Seq(S) /\ Len(SetToSeq(S)) = n
  BY <1>1, <1>3
<1>5. SetToSeq(S) \in Injection(1..n, S)
  BY <1>3 DEF Injection
<1>6. IsFiniteSet(1..n) /\ Cardinality(1..n) = n
  BY <1>1, FS_Interval
<1>7. SetToSeq(S) \in Surjection(1..n, S)
  BY <1>5, <1>6, FS_Injection
<1> QED
  BY <1>3, <1>4, <1>7 DEF IsInjective, Surjection

LEMMA AtMostOne ==
    ASSUME NEW S, \A x, y \in S : x = y
    PROVE  IsFiniteSet(S) /\ Cardinality(S) \in Nat /\ Cardinality(S) <= 1
<1>1. CASE S = {}
  BY <1>1, FS_EmptySet
<1>2. CASE S # {}
  <2>1. PICK x : x \in S
    BY <1>2
  <2>2. S = {x}
    BY <2>1
  <2> QED
    BY <2>2, FS_Singleton
<1> QED
  BY <1>1, <1>2

LEMMA TailOf ==
    ASSUME NEW S, NEW s \in Seq(S), s # <<>>
    PROVE  /\ Head(s) = s[1] /\ Head(s) \in S /\ Len(s) \in Nat /\ 1 \in 1..Len(s)
           /\ Tail(s) \in Seq(S) /\ Len(Tail(s)) = Len(s) - 1
           /\ \A i \in 1..Len(Tail(s)) : Tail(s)[i] = s[i + 1] /\ i + 1 \in 1..Len(s)
           /\ \A i \in 1..Len(s) : i # 1 => i - 1 \in 1..Len(Tail(s)) /\ Tail(s)[i - 1] = s[i]
<1>1. Len(s) \in Nat /\ Len(s) # 0
  OBVIOUS
<1>2. Head(s) = s[1] /\ Head(s) \in S /\ Tail(s) \in Seq(S) /\ Len(Tail(s)) = Len(s) - 1
  BY <1>1
<1>3. \A i \in 1..Len(Tail(s)) : Tail(s)[i] = s[i + 1] /\ i + 1 \in 1..Len(s)
  BY <1>1, <1>2
<1>4. \A i \in 1..Len(s) : i # 1 => i - 1 \in 1..Len(Tail(s)) /\ Tail(s)[i - 1] = s[i]
  <2> SUFFICES ASSUME NEW i \in 1..Len(s), i # 1
               PROVE  i - 1 \in 1..Len(Tail(s)) /\ Tail(s)[i - 1] = s[i]
    OBVIOUS
  <2>1. i - 1 \in 1..Len(Tail(s)) /\ (i - 1) + 1 = i
    BY <1>1, <1>2
  <2> QED
    BY <2>1, <1>3
<1> QED
  BY <1>1, <1>2, <1>3, <1>4

(* What desired() hands out.                                                *)
LEMMA HandedOut ==
    ASSUME BaselineTypes, NEW h \in Managed, NEW again \in BOOLEAN
    PROVE  LET runs == Desired(h, again)
               n    == Cardinality(declared[h])
           IN  /\ n \in Nat /\ (declared[h] # {} => n # 0)
               /\ Len(handed) \in Nat /\ runs \in Seq(RunRecs) /\ Len(runs) = Len(handed) + n
               /\ \A r \in 1..Len(handed) : runs[r] = handed[r]
               /\ \A r \in Len(handed) + 1..Len(runs) :
                     /\ runs[r].host = h /\ runs[r].again = again /\ runs[r].ran = 0
                     /\ \A q \in Len(handed) + 1..Len(runs) : runs[r].state = runs[q].state => r = q
               /\ Numbers(h) = [i \in 1..n |-> Len(handed) + i]
<1> DEFINE list == SetToSeq(declared[h])
           n    == Cardinality(declared[h])
           new(b) == [i \in 1..Len(list) |-> [host |-> h, state |-> list[i], again |-> b, ran |-> 0]]
<1>1. IsFiniteSet(declared[h]) /\ declared[h] \subseteq States
  BY BaselineNumbers, FS_Subset DEF BaselineTypes
<1>2. n \in Nat /\ (declared[h] # {} => n # 0)
  BY <1>1, FS_CardinalityType, FS_EmptySet
<1>3. /\ list \in Seq(declared[h]) /\ Len(list) = n
      /\ \A i, j \in 1..n : list[i] = list[j] => i = j
  BY <1>1, SetAsList
<1>4. \A i \in 1..n : list[i] \in States
  BY <1>1, <1>3
<1> HIDE DEF list, n
<1>5. ASSUME NEW b \in BOOLEAN
      PROVE  /\ new(b) \in Seq(RunRecs) /\ Len(new(b)) = n
             /\ \A i \in 1..n : new(b)[i] = [host |-> h, state |-> list[i], again |-> b, ran |-> 0]
  <2>1. \A i \in 1..n : [host |-> h, state |-> list[i], again |-> b, ran |-> 0] \in RunRecs
    BY <1>4 DEF RunRecs
  <2>2. new(b) = [i \in 1..n |-> [host |-> h, state |-> list[i], again |-> b, ran |-> 0]]
    BY <1>3, Zenon
  <2> HIDE DEF new
  <2>3. new(b) \in [1..n -> RunRecs]
    BY <2>1, <2>2
  <2>4. \A i \in 1..n : new(b)[i] = [host |-> h, state |-> list[i], again |-> b, ran |-> 0]
    BY <2>2, Zenon
  <2> QED
    BY <1>2, <2>3, <2>4
<1>6. \A b : Desired(h, b) = handed \o new(b)
  BY DEF Desired, list
<1>7. handed \in Seq(RunRecs) /\ Len(handed) \in Nat
  BY DEF BaselineTypes
<1> HIDE DEF new
<1>8. ASSUME NEW b \in BOOLEAN
      PROVE  /\ Desired(h, b) \in Seq(RunRecs) /\ Len(Desired(h, b)) = Len(handed) + n
             /\ \A r \in 1..Len(handed) : Desired(h, b)[r] = handed[r]
             /\ \A i \in 1..n : Desired(h, b)[Len(handed) + i] = new(b)[i]
  <2>1. new(b) \in Seq(RunRecs) /\ Len(new(b)) = n
    BY <1>5
  <2>2. /\ handed \o new(b) \in Seq(RunRecs) /\ Len(handed \o new(b)) = Len(handed) + n
        /\ \A r \in 1..Len(handed) + n :
              (handed \o new(b))[r] = IF r <= Len(handed) THEN handed[r] ELSE new(b)[r - Len(handed)]
    BY <1>7, <2>1, ConcatProperties
  <2>3. \A r \in 1..Len(handed) : (handed \o new(b))[r] = handed[r]
    BY <1>2, <1>7, <2>2
  <2>4. \A i \in 1..n : (handed \o new(b))[Len(handed) + i] = new(b)[i]
    <3> TAKE i \in 1..n
    <3>1. Len(handed) + i \in 1..Len(handed) + n /\ ~(Len(handed) + i <= Len(handed))
          /\ (Len(handed) + i) - Len(handed) = i
      BY <1>2, <1>7
    <3> QED
      BY <2>2, <3>1
  <2> QED
    BY <1>6, <2>2, <2>3, <2>4
<1> DEFINE runs == Desired(h, again)
<1>9. ASSUME NEW r \in Len(handed) + 1..Len(handed) + n
      PROVE  /\ r - Len(handed) \in 1..n
             /\ runs[r].host = h /\ runs[r].state = list[r - Len(handed)]
             /\ runs[r].again = again /\ runs[r].ran = 0
  <2> DEFINE e == [host |-> h, state |-> list[r - Len(handed)], again |-> again, ran |-> 0]
  <2>1. r - Len(handed) \in 1..n /\ Len(handed) + (r - Len(handed)) = r
    BY <1>2, <1>7
  <2>2. runs[Len(handed) + (r - Len(handed))] = new(again)[r - Len(handed)]
    BY <2>1, <1>8, Zenon
  <2>3. new(again)[r - Len(handed)] = e
    BY <2>1, <1>5, Zenon
  <2>4. runs[r] = e
    BY <2>1, <2>2, <2>3, Zenon
  <2>5. e.host = h /\ e.state = list[r - Len(handed)] /\ e.ran = 0
    OBVIOUS
  <2>6. e.again = again
    BY Zenon
  <2> HIDE DEF e
  <2> QED
    BY <2>1, <2>4, <2>5, <2>6, Zenon
<1>10. ASSUME NEW r \in Len(handed) + 1..Len(handed) + n, NEW q \in Len(handed) + 1..Len(handed) + n,
              runs[r].state = runs[q].state
       PROVE  r = q
  <2>1. /\ runs[r].state = list[r - Len(handed)] /\ r - Len(handed) \in 1..n
        /\ runs[q].state = list[q - Len(handed)] /\ q - Len(handed) \in 1..n
    BY <1>9, Zenon
  <2>2. r - Len(handed) = q - Len(handed)
    BY <1>3, <1>10, <2>1
  <2>3. r \in Int /\ q \in Int
    BY <1>2, <1>7
  <2> QED
    BY <2>2, <2>3, <1>7
<1>11. Numbers(h) = [i \in 1..n |-> Len(handed) + i]
  <2>1. FALSE \in BOOLEAN
    OBVIOUS
  <2>2. Len(Desired(h, FALSE)) = Len(handed) + n
    BY <2>1, <1>8, Zenon
  <2>3. (Len(handed) + n) - Len(handed) = n
    BY <1>2, <1>7
  <2>4. Len(Desired(h, FALSE)) - Len(handed) = n
    BY <2>2, <2>3, Zenon
  <2> QED
    BY <2>4, Zenon DEF Numbers
<1>12. runs \in Seq(RunRecs) /\ Len(runs) = Len(handed) + n
       /\ \A r \in 1..Len(handed) : runs[r] = handed[r]
  BY <1>8, Zenon
<1> HIDE DEF runs
<1>13. \A r \in Len(handed) + 1..Len(runs) :
          /\ runs[r].host = h /\ runs[r].again = again /\ runs[r].ran = 0
          /\ \A q \in Len(handed) + 1..Len(runs) : runs[r].state = runs[q].state => r = q
  BY <1>9, <1>10, <1>12, Zenon
<1> QED
  BY <1>2, <1>7, <1>11, <1>12, <1>13, Zenon DEF n, runs

LEMMA BaselineStarts == BaselineInit => BaselineInv
<1> SUFFICES ASSUME BaselineInit PROVE BaselineInv
  OBVIOUS
<1>1. /\ handed = <<>> /\ Len(handed) = 0 /\ ledger = FreshLedger
      /\ cycle = NoCycle /\ cycle.at = "none" /\ cycle.left = <<>> /\ cycle.todo = <<>>
      /\ cycle.run = 0 /\ cycle.fired = <<>> /\ cycle.preview = FALSE /\ cycle.reapplied = FALSE
      /\ Len(cycle.left) = 0 /\ Len(cycle.todo) = 0
  BY DEF BaselineInit, NoCycle
<1>2. Firsts = {} /\ Over = {}
  BY <1>1 DEF Firsts, Over
<1>3. BaselineTypes
  <2>1. handed \in Seq(RunRecs) /\ Len(handed) <= MaxRuns
    BY <1>1, BaselineNumbers
  <2>2. cycle \in CycleRecs
    BY <1>1 DEF CycleRecs, NoCycle
  <2>3. ledger \in Ledgers
    BY <1>1 DEF Ledgers, FreshLedger
  <2> QED
    BY <1>1, <2>1, <2>2, <2>3 DEF BaselineInit, BaselineTypes
<1>4. LedgerIsTrue
  BY <1>1, <1>2, FS_EmptySet DEF LedgerIsTrue, FreshLedger
<1>5. RunFirstOnce /\ ToBeRun
  BY <1>1, <1>2 DEF RunFirstOnce, ToBeRun
<1>6. CarriesOut
  BY <1>1 DEF CarriesOut, Carrying
<1>7. SecondHasFirst
  BY <1>1 DEF SecondHasFirst
<1> QED
  BY <1>1, <1>3, <1>4, <1>5, <1>6, <1>7 DEF BaselineInv, NothingYet

(* A step that hands out and runs nothing, and counts nothing.              *)
LEMMA QuietStep ==
    ASSUME BaselineInv, handed' = handed, ledger' = ledger,
           declared' \in [Managed -> SUBSET States],
           cycle' \in CycleRecs,
           cycle'.left = cycle.left, cycle'.todo = cycle.todo,
           cycle'.run = cycle.run, cycle'.preview = cycle.preview,
           cycle'.at \in {"none", "raised"} <=> cycle.at \in {"none", "raised"},
           cycle'.at = "none" => cycle.at = "none",
           cycle'.at \notin {"run", "act", "reapply"} => cycle.todo = <<>>,
           cycle'.at = "done" => cycle.left = <<>>,
           cycle'.at \in {"act", "reapply"} =>
              /\ cycle.at \in {"act", "reapply"}
              /\ cycle.reapplied /\ cycle.at = "act" => cycle'.reapplied /\ cycle'.at = "act",
           cycle'.at = "reapply" => cycle'.reapplied /\ ~cycle.preview
    PROVE  BaselineInv'
<1> USE DEF BaselineInv
<1>1. Firsts' = Firsts /\ Over' = Over /\ Untouched' = Untouched
  BY DEF Firsts, Over, Untouched
<1>2. \A r, q : Twins(r, q)' <=> Twins(r, q)
  BY DEF Twins
<1>3. BaselineTypes'
  BY DEF BaselineTypes
<1>4. RunFirstOnce'
  BY <1>1, <1>2 DEF RunFirstOnce, Twins
<1>5. ToBeRun'
  BY <1>1 DEF ToBeRun
<1>6. CarriesOut'
  BY <1>1 DEF CarriesOut, Carrying
<1>7. SecondHasFirst'
  <2>1. \A r \in 1..Len(handed') : handed'[r].again => ~cycle'.preview
    BY DEF SecondHasFirst
  <2>2. ASSUME NEW r \in 1..Len(handed'), handed'[r].again, handed'[r].ran = 1
        PROVE  \E f \in Over' : /\ Twins(f, r)'
                                /\ Carrying' /\ f = cycle'.run => cycle'.reapplied /\ cycle'.at = "act"
    <3>1. PICK f \in Over : /\ Twins(f, r)
                            /\ Carrying /\ f = cycle.run => cycle.reapplied /\ cycle.at = "act"
      BY <2>2 DEF SecondHasFirst
    <3>2. f \in Over' /\ Twins(f, r)'
      BY <1>1, <1>2, <3>1
    <3>3. Carrying' /\ f = cycle'.run => cycle'.reapplied /\ cycle'.at = "act"
      BY <3>1 DEF Carrying
    <3> QED
      BY <3>2, <3>3
  <2>3. \A r, q \in 1..Len(handed') :
          /\ handed'[r].again /\ handed'[q].again /\ handed'[r].ran = 1 /\ handed'[q].ran = 1
          /\ Twins(r, q)'
          => r = q
    BY <1>2 DEF SecondHasFirst
  <2> QED
    BY <2>1, <2>2, <2>3 DEF SecondHasFirst
<1>8. LedgerIsTrue'
  BY <1>1 DEF LedgerIsTrue
<1>9. NothingYet'
  BY DEF NothingYet
<1> QED
  BY <1>3, <1>4, <1>5, <1>6, <1>7, <1>8, <1>9

(* The steps that only move the cycle on, and an operator's edit.           *)
LEMMA MovesOn ==
    ASSUME BaselineInv, \/ Unassign \/ NextHost \/ EndCycle \/ ActOnHost \/ ActsDone
                        \/ UNCHANGED baselineVars
    PROVE  BaselineInv'
<1>1. cycle \in CycleRecs /\ declared \in [Managed -> SUBSET States]
  BY DEF BaselineInv, BaselineTypes
<1>2. /\ cycle.at \notin {"run", "act", "reapply"} => cycle.todo = <<>>
      /\ cycle.at = "done" => cycle.left = <<>>
      /\ cycle.at = "reapply" => cycle.reapplied /\ ~cycle.preview
  BY DEF BaselineInv, ToBeRun, CarriesOut
<1>3. CASE Unassign
  <2>1. declared' \in [Managed -> SUBSET States]
    BY <1>1, <1>3 DEF Unassign
  <2> QED
    BY <1>1, <1>2, <1>3, <2>1, QuietStep DEF Unassign
<1>4. CASE UNCHANGED baselineVars
  BY <1>1, <1>2, <1>4, QuietStep DEF baselineVars
<1>5. CASE NextHost
  <2>1. /\ cycle' \in CycleRecs /\ cycle'.at = "ask" /\ cycle'.left = cycle.left
        /\ cycle'.todo = cycle.todo /\ cycle'.run = cycle.run /\ cycle'.preview = cycle.preview
    BY <1>1, <1>5 DEF NextHost, CycleRecs
  <2> QED
    BY <1>1, <1>2, <1>5, <2>1, QuietStep DEF NextHost
<1>6. CASE EndCycle
  <2>1. /\ cycle' \in CycleRecs /\ cycle'.at = "done" /\ cycle'.left = cycle.left
        /\ cycle'.todo = cycle.todo /\ cycle'.run = cycle.run /\ cycle'.preview = cycle.preview
    BY <1>1, <1>6 DEF EndCycle, CycleRecs
  <2> QED
    BY <1>1, <1>2, <1>6, <2>1, QuietStep DEF EndCycle
<1>7. CASE ActsDone
  <2>1. /\ cycle' \in CycleRecs /\ cycle'.at = "run" /\ cycle'.left = cycle.left
        /\ cycle'.todo = cycle.todo /\ cycle'.run = cycle.run /\ cycle'.preview = cycle.preview
    BY <1>1, <1>7 DEF ActsDone, CycleRecs
  <2> QED
    BY <1>1, <1>2, <1>7, <2>1, QuietStep DEF ActsDone
<1>8. CASE ActOnHost
  <2> DEFINE further == Head(cycle.fired) = "reapply" /\ ~NoReapply
  <2>1. cycle.fired \in Seq(Actions) /\ Tail(cycle.fired) \in Seq(Actions)
    BY <1>1, <1>8, TailOf DEF ActOnHost, CycleRecs
  <2>2. cycle' = [cycle EXCEPT !.fired = Tail(@),
                               !.at = IF further THEN "reapply" ELSE "act",
                               !.reapplied = @ \/ further]
    BY <1>8 DEF ActOnHost
  <2>3. further => ~cycle.preview /\ ~cycle.reapplied
    BY DEF NoReapply
  <2> HIDE DEF further
  <2>4. CASE further
    <3>1. cycle' = [cycle EXCEPT !.fired = Tail(@), !.at = "reapply", !.reapplied = TRUE]
      BY <1>1, <2>2, <2>4 DEF CycleRecs
    <3>2. /\ cycle' \in CycleRecs /\ cycle'.at = "reapply" /\ cycle'.left = cycle.left
          /\ cycle'.todo = cycle.todo /\ cycle'.run = cycle.run /\ cycle'.preview = cycle.preview
          /\ cycle'.reapplied
      BY <1>1, <2>1, <3>1 DEF CycleRecs
    <3> QED
      BY <1>1, <1>2, <1>8, <2>3, <2>4, <3>2, QuietStep DEF ActOnHost
  <2>5. CASE ~further
    <3>1. cycle' = [cycle EXCEPT !.fired = Tail(@), !.at = "act"]
      BY <1>1, <2>2, <2>5 DEF CycleRecs
    <3>2. /\ cycle' \in CycleRecs /\ cycle'.at = "act" /\ cycle'.left = cycle.left
          /\ cycle'.todo = cycle.todo /\ cycle'.run = cycle.run /\ cycle'.preview = cycle.preview
          /\ cycle'.reapplied = cycle.reapplied
      BY <1>1, <2>1, <3>1 DEF CycleRecs
    <3> QED
      BY <1>1, <1>2, <1>8, <3>2, QuietStep DEF ActOnHost
  <2> QED
    BY <2>4, <2>5
<1> QED
  BY <1>3, <1>4, <1>5, <1>6, <1>7, <1>8

LEMMA BeginsClean ==
    ASSUME BaselineInv, BeginCycle
    PROVE  BaselineInv'
<1> DEFINE list == SetToSeq(Managed)
<1>1. /\ handed = <<>> /\ Len(handed) = 0 /\ ledger = FreshLedger
      /\ handed' = handed /\ ledger' = ledger /\ declared' = declared
  BY DEF BeginCycle, BaselineInv, NothingYet
<1>2. PICK preview \in BOOLEAN :
        cycle' = [NoCycle EXCEPT !.at = "ask", !.left = SetToSeq(Managed), !.preview = preview]
  BY DEF BeginCycle
<1>3. /\ list \in Seq(Managed) /\ Len(list) = Cardinality(Managed)
      /\ \A i, j \in 1..Len(list) : list[i] = list[j] => i = j
      /\ \A h \in Managed : \E i \in 1..Len(list) : list[i] = h
  BY SetAsList, BaselineNumbers
<1> HIDE DEF list
<1>4. /\ cycle' \in CycleRecs /\ cycle'.at = "ask" /\ cycle'.left = list /\ cycle'.todo = <<>>
      /\ cycle'.run = 0 /\ Len(cycle'.todo) = 0
  <2>1. cycle' = [at |-> "ask", left |-> list, todo |-> <<>>, run |-> 0, fired |-> <<>>,
                  reapplied |-> FALSE, preview |-> preview]
    <3>1. NoCycle = [at |-> "none", left |-> <<>>, todo |-> <<>>, run |-> 0, fired |-> <<>>,
                     reapplied |-> FALSE, preview |-> FALSE]
      BY Zenon DEF NoCycle
    <3>2. CASE preview = TRUE
      BY <1>2, <3>1, <3>2 DEF list
    <3>3. CASE preview = FALSE
      BY <1>2, <3>1, <3>3 DEF list
    <3> QED
      BY <3>2, <3>3
  <2> QED
    BY <1>3, <2>1, SMTT(30) DEF CycleRecs
<1>5. Firsts' = {} /\ Over' = {} /\ Untouched' = {}
  <2>1. Firsts' = {} /\ Over' = {}
    BY <1>1 DEF Firsts, Over
  <2>2. ASSUME NEW h \in Managed, h \in Untouched' PROVE FALSE
    <3>1. PICK i \in 1..Len(list) : list[i] = h
      BY <1>3
    <3> QED
      BY <1>4, <2>2, <3>1 DEF Untouched
  <2>3. Untouched' \subseteq Managed
    BY DEF Untouched
  <2> QED
    BY <2>1, <2>2, <2>3
<1>6. BaselineTypes'
  BY <1>1, <1>4 DEF BaselineTypes, BaselineInv
<1>7. RunFirstOnce' /\ ToBeRun'
  BY <1>3, <1>4, <1>5 DEF RunFirstOnce, ToBeRun
<1>8. CarriesOut'
  BY <1>4 DEF CarriesOut, Carrying
<1>9. SecondHasFirst'
  BY <1>1 DEF SecondHasFirst
<1>10. LedgerIsTrue'
  BY <1>1, <1>5, FS_EmptySet DEF LedgerIsTrue, FreshLedger
<1>11. NothingYet'
  BY <1>4 DEF NothingYet
<1> QED
  BY <1>6, <1>7, <1>8, <1>9, <1>10, <1>11 DEF BaselineInv

(* Asking about a host that has nothing declared, or when Baseline is away. *)
LEMMA AsksInVain ==
    ASSUME BaselineInv, cycle.at = "ask", cycle.left # <<>>, handed' = handed, declared' = declared,
           \/ cycle' = [NoCycle EXCEPT !.at = "raised"] /\ ledger' = ledger
           \/ /\ declared[Head(cycle.left)] = {}
              /\ ledger' = [ledger EXCEPT !.skipped = @ + 1]
              /\ cycle' = [cycle EXCEPT !.left = Tail(@)]
    PROVE  BaselineInv'
<1> USE DEF BaselineInv
<1>1. /\ cycle \in CycleRecs /\ cycle.left \in Seq(Managed) /\ ledger \in Ledgers
      /\ cycle.todo = <<>> /\ Len(cycle.todo) = 0
      /\ handed \in Seq(RunRecs) /\ Len(handed) \in Nat
  BY DEF BaselineTypes, CycleRecs, ToBeRun
<1>2. Firsts' = Firsts /\ Over' = Over
  BY DEF Firsts, Over
<1>3. \A r, q : Twins(r, q)' <=> Twins(r, q)
  BY DEF Twins
<1>4. CASE cycle' = [NoCycle EXCEPT !.at = "raised"] /\ ledger' = ledger
  <2>1. /\ cycle'.at = "raised" /\ cycle'.left = <<>> /\ cycle'.todo = <<>> /\ cycle'.run = 0
        /\ cycle'.fired = <<>> /\ cycle'.reapplied = FALSE /\ cycle'.preview = FALSE
        /\ Len(cycle'.left) = 0
    BY <1>4 DEF NoCycle
  <2>10. cycle' \in CycleRecs
    <3>1. NoCycle = [at |-> "none", left |-> <<>>, todo |-> <<>>, run |-> 0, fired |-> <<>>,
                     reapplied |-> FALSE, preview |-> FALSE]
      BY Zenon DEF NoCycle
    <3>2. cycle' = [NoCycle EXCEPT !.at = "raised"]
      BY <1>4, Zenon
    <3>3. cycle' = [at |-> "raised", left |-> <<>>, todo |-> <<>>, run |-> 0, fired |-> <<>>,
                    reapplied |-> FALSE, preview |-> FALSE]
      BY <3>1, <3>2
    <3> QED
      BY <3>3 DEF CycleRecs
  <2>2. BaselineTypes'
    BY <1>1, <1>4, <2>1, <2>10 DEF BaselineTypes
  <2>3. RunFirstOnce'
    BY <1>2, <1>3, <2>1 DEF RunFirstOnce, Twins
  <2>4. ToBeRun'
    BY <1>1, <1>2, <2>1 DEF ToBeRun
  <2>5. CarriesOut'
    BY <2>1 DEF CarriesOut, Carrying
  <2>6. SecondHasFirst'
    <3>1. ASSUME NEW r \in 1..Len(handed'), handed'[r].again, handed'[r].ran = 1
          PROVE  \E f \in Over' : /\ Twins(f, r)'
                                  /\ Carrying' /\ f = cycle'.run => cycle'.reapplied /\ cycle'.at = "act"
      <4>1. PICK f \in Over : Twins(f, r)
        BY <3>1 DEF SecondHasFirst
      <4>2. f \in Over' /\ Twins(f, r)' /\ ~Carrying'
        BY <1>2, <1>3, <2>1, <4>1 DEF Carrying
      <4> QED
        BY <4>2
    <3>2. \A r, q \in 1..Len(handed') :
            /\ handed'[r].again /\ handed'[q].again /\ handed'[r].ran = 1 /\ handed'[q].ran = 1
            /\ Twins(r, q)'
            => r = q
      BY <1>3 DEF SecondHasFirst
    <3> QED
      BY <2>1, <3>1, <3>2 DEF SecondHasFirst
  <2>7. LedgerIsTrue' /\ NothingYet'
    BY <1>2, <1>4, <2>1 DEF LedgerIsTrue, NothingYet
  <2> QED
    BY <2>2, <2>3, <2>4, <2>5, <2>6, <2>7
<1>5. CASE /\ ledger' = [ledger EXCEPT !.skipped = @ + 1]
           /\ cycle' = [cycle EXCEPT !.left = Tail(@)]
  <2> DEFINE h == Head(cycle.left)
  <2>1. /\ h \in Managed /\ h = cycle.left[1] /\ Tail(cycle.left) \in Seq(Managed)
        /\ 1 \in 1..Len(cycle.left) /\ Len(cycle.left) \in Nat
        /\ \A i \in 1..Len(Tail(cycle.left)) :
              Tail(cycle.left)[i] = cycle.left[i + 1] /\ i + 1 \in 1..Len(cycle.left)
        /\ \A i \in 1..Len(cycle.left) :
              i # 1 => i - 1 \in 1..Len(Tail(cycle.left)) /\ Tail(cycle.left)[i - 1] = cycle.left[i]
    BY <1>1, TailOf
  <2>2. /\ cycle' \in CycleRecs /\ cycle'.at = "ask" /\ cycle'.left = Tail(cycle.left)
        /\ cycle'.todo = <<>> /\ cycle'.run = cycle.run /\ cycle'.preview = cycle.preview
    BY <1>1, <1>5, <2>1 DEF CycleRecs
  <2>3. ledger' \in Ledgers /\ ledger'.applied = ledger.applied /\ ledger'.failed = ledger.failed
        /\ ledger'.skipped = ledger.skipped + 1
    BY <1>1, <1>5 DEF Ledgers
  <2> HIDE DEF h
  <2>4. \A i \in 1..Len(Tail(cycle.left)) : Tail(cycle.left)[i] # h
    BY <2>1 DEF RunFirstOnce
  <2>5. BaselineTypes'
    BY <1>1, <2>2, <2>3 DEF BaselineTypes
  <2>6. RunFirstOnce'
    <3>1. \A i, j \in 1..Len(cycle'.left) : cycle'.left[i] = cycle'.left[j] => i = j
      <4> SUFFICES ASSUME NEW i \in 1..Len(Tail(cycle.left)), NEW j \in 1..Len(Tail(cycle.left)),
                          Tail(cycle.left)[i] = Tail(cycle.left)[j]
                   PROVE  i = j
        BY <2>2
      <4>1. i + 1 = j + 1
        BY <2>1 DEF RunFirstOnce
      <4> QED
        BY <4>1
    <3>2. \A r \in Firsts', i \in 1..Len(cycle'.left) : cycle'.left[i] # handed'[r].host
      BY <1>2, <2>1, <2>2 DEF RunFirstOnce
    <3>3. \A r, q \in Firsts' : Twins(r, q)' => r = q
      BY <1>2, <1>3 DEF RunFirstOnce
    <3> QED
      BY <3>1, <3>2, <3>3 DEF RunFirstOnce
  <2>7. ToBeRun'
    BY <1>1, <1>2, <2>2 DEF ToBeRun
  <2>8. CarriesOut'
    BY <2>2 DEF CarriesOut, Carrying
  <2>9. SecondHasFirst'
    <3>1. ASSUME NEW r \in 1..Len(handed'), handed'[r].again, handed'[r].ran = 1
          PROVE  \E f \in Over' : /\ Twins(f, r)'
                                  /\ Carrying' /\ f = cycle'.run => cycle'.reapplied /\ cycle'.at = "act"
      <4>1. PICK f \in Over : Twins(f, r)
        BY <3>1 DEF SecondHasFirst
      <4>2. f \in Over' /\ Twins(f, r)' /\ ~Carrying'
        BY <1>2, <1>3, <2>2, <4>1 DEF Carrying
      <4> QED
        BY <4>2
    <3>2. \A r, q \in 1..Len(handed') :
            /\ handed'[r].again /\ handed'[q].again /\ handed'[r].ran = 1 /\ handed'[q].ran = 1
            /\ Twins(r, q)'
            => r = q
      BY <1>3 DEF SecondHasFirst
    <3>3. \A r \in 1..Len(handed') : handed'[r].again => ~cycle'.preview
      BY <2>2 DEF SecondHasFirst
    <3> QED
      BY <3>1, <3>2, <3>3 DEF SecondHasFirst
  <2>10. Untouched' = Untouched \union {h} /\ h \notin Untouched
    <3>1. h \notin Untouched
      BY <2>1 DEF Untouched
    <3>2. h \in Untouched'
      BY <1>2, <2>1, <2>2, <2>4 DEF Untouched, RunFirstOnce
    <3>3. ASSUME NEW x \in Managed, x # h
          PROVE  x \in Untouched <=> x \in Untouched'
      <4>1. (\A i \in 1..Len(cycle.left) : cycle.left[i] # x)
              <=> \A i \in 1..Len(Tail(cycle.left)) : Tail(cycle.left)[i] # x
        BY <2>1, <3>3
      <4> QED
        BY <1>2, <2>2, <4>1 DEF Untouched
    <3>4. Untouched \subseteq Managed /\ Untouched' \subseteq Managed
      BY DEF Untouched
    <3> QED
      BY <2>1, <3>1, <3>2, <3>3, <3>4
  <2>11. LedgerIsTrue'
    <3>1. IsFiniteSet(Untouched)
      BY BaselineNumbers, FS_Subset DEF Untouched
    <3>2. Cardinality(Untouched') = Cardinality(Untouched) + 1
      BY <2>10, <3>1, FS_AddElement
    <3> QED
      BY <1>2, <2>2, <2>3, <3>2 DEF LedgerIsTrue
  <2>12. NothingYet'
    BY <2>2 DEF NothingYet
  <2> QED
    BY <2>5, <2>6, <2>7, <2>8, <2>9, <2>11, <2>12
<1> QED
  BY <1>4, <1>5

(* Asking about a host with states: a run of each is handed out.            *)
FreshRuns(runs, h, n) ==
    /\ n \in Nat /\ n # 0 /\ runs \in Seq(RunRecs)
    /\ Len(runs) = Len(handed) + n /\ Len(runs) <= MaxRuns
    /\ \A r \in 1..Len(handed) : runs[r] = handed[r]
    /\ \A r \in Len(handed) + 1..Len(runs) :
          /\ runs[r].host = h /\ ~runs[r].again /\ runs[r].ran = 0
          /\ \A q \in Len(handed) + 1..Len(runs) : runs[r].state = runs[q].state => r = q

LEMMA RunsHandedOut ==
    ASSUME BaselineInv, cycle.at = "ask", cycle.left # <<>>, declared' = declared, ledger' = ledger,
           NEW h, h = Head(cycle.left), NEW n, NEW runs, FreshRuns(runs, h, n), handed' = runs,
           cycle' = [cycle EXCEPT !.left = Tail(@), !.todo = [i \in 1..n |-> Len(handed) + i],
                                  !.at = "run"]
    PROVE  BaselineInv'
<1> USE DEF BaselineInv
<1> DEFINE len == Len(handed)
           list == [i \in 1..n |-> len + i]
<1>1. /\ cycle \in CycleRecs /\ cycle.left \in Seq(Managed) /\ ledger \in Ledgers
      /\ cycle.todo = <<>> /\ Len(cycle.todo) = 0
      /\ handed \in Seq(RunRecs) /\ len \in Nat
  BY DEF BaselineTypes, CycleRecs, ToBeRun
<1>2. /\ h \in Managed /\ h = cycle.left[1] /\ Tail(cycle.left) \in Seq(Managed)
      /\ 1 \in 1..Len(cycle.left) /\ Len(cycle.left) \in Nat
      /\ \A i \in 1..Len(Tail(cycle.left)) :
            Tail(cycle.left)[i] = cycle.left[i + 1] /\ i + 1 \in 1..Len(cycle.left)
      /\ \A i \in 1..Len(cycle.left) :
            i # 1 => i - 1 \in 1..Len(Tail(cycle.left)) /\ Tail(cycle.left)[i - 1] = cycle.left[i]
  BY <1>1, TailOf
<1>3. /\ n \in Nat /\ n # 0 /\ len \in Nat
      /\ handed' \in Seq(RunRecs) /\ Len(handed') = len + n
      /\ \A r \in 1..len : handed'[r] = handed[r]
      /\ \A r \in len + 1..Len(handed') :
            /\ handed'[r].host = h /\ ~handed'[r].again /\ handed'[r].ran = 0
            /\ \A q \in len + 1..Len(handed') : handed'[r].state = handed'[q].state => r = q
  BY <1>1 DEF FreshRuns
<1>4. Len(handed') <= MaxRuns
  BY DEF FreshRuns
<1>5. cycle' = [cycle EXCEPT !.left = Tail(@), !.todo = list, !.at = "run"]
  BY Zenon
<1>6. /\ list \in Seq(Nat) /\ Len(list) = n /\ \A i \in 1..n : list[i] = len + i
  <2>1. \A i \in 1..n : len + i \in Nat
    BY <1>3
  <2>2. list \in [1..n -> Nat] /\ \A i \in 1..n : list[i] = len + i
    BY <2>1
  <2> HIDE DEF list
  <2> QED
    BY <1>3, <2>2
<1> HIDE DEF len, list
<1>8. /\ cycle' \in CycleRecs /\ cycle'.at = "run" /\ cycle'.left = Tail(cycle.left)
      /\ cycle'.todo = list /\ cycle'.run = cycle.run /\ cycle'.preview = cycle.preview
  BY <1>1, <1>2, <1>6, <1>5 DEF CycleRecs
<1>9. 1..Len(handed') = 1..len \union (len + 1..Len(handed'))
  BY <1>3
<1>10. \A r \in len + 1..Len(handed') : r \notin 1..len /\ r \in 1..Len(handed')
  BY <1>3
<1>11. \A r \in 1..Len(handed) : r \in 1..len
  BY DEF len
<1>12. Firsts' = Firsts \union (len + 1..Len(handed')) /\ Firsts \subseteq 1..len
  <2>1. Firsts = {r \in 1..len : ~handed[r].again} /\ Firsts' = {r \in 1..Len(handed') : ~handed'[r].again}
    BY DEF Firsts, len
  <2>2. \A r \in 1..len : r \in Firsts <=> r \in Firsts'
    BY <1>3, <1>9, <2>1
  <2>3. \A r \in len + 1..Len(handed') : r \in Firsts' /\ r \notin Firsts
    BY <1>3, <1>10, <2>1
  <2>4. Firsts' \subseteq 1..Len(handed') /\ Firsts \subseteq 1..len
    BY <2>1
  <2> QED
    BY <1>9, <2>2, <2>3, <2>4
<1>13. Over' = Over /\ Over \subseteq Firsts
  <2>1. Over' = {r \in Firsts' : handed'[r].ran = 1} /\ Over = {r \in Firsts : handed[r].ran = 1}
    BY DEF Over
  <2>2. \A r \in len + 1..Len(handed') : handed'[r].ran # 1
    BY <1>3
  <2> QED
    BY <1>3, <1>12, <2>1, <2>2
<1>14. \A r, q \in 1..len : Twins(r, q)' <=> Twins(r, q)
  BY <1>3 DEF Twins
<1>15. ASSUME NEW r \in Firsts PROVE handed[r].host # h /\ handed[r].ran # 0
  <2>1. cycle.left[1] # handed[r].host
    BY <1>2 DEF RunFirstOnce
  <2>2. handed[r].ran # 0
    BY <1>1 DEF ToBeRun
  <2> QED
    BY <1>2, <2>1, <2>2
<1>16. BaselineTypes'
  <2>1. cycle'.run \in 0..Len(handed')
    BY <1>3, <1>8 DEF BaselineTypes, len
  <2> QED
    BY <1>1, <1>3, <1>4, <1>8, <2>1 DEF BaselineTypes
<1>17. RunFirstOnce'
  <2>1. \A i, j \in 1..Len(cycle'.left) : cycle'.left[i] = cycle'.left[j] => i = j
    <3> SUFFICES ASSUME NEW i \in 1..Len(Tail(cycle.left)), NEW j \in 1..Len(Tail(cycle.left)),
                        Tail(cycle.left)[i] = Tail(cycle.left)[j]
                 PROVE  i = j
      BY <1>8
    <3>1. i + 1 = j + 1
      BY <1>2 DEF RunFirstOnce
    <3> QED
      BY <3>1
  <2>2. ASSUME NEW i \in 1..Len(Tail(cycle.left)) PROVE Tail(cycle.left)[i] # h
    <3>1. i + 1 \in 1..Len(cycle.left) /\ i + 1 # 1 /\ Tail(cycle.left)[i] = cycle.left[i + 1]
      BY <1>2
    <3>2. cycle.left[i + 1] # cycle.left[1]
      BY <1>2, <3>1 DEF RunFirstOnce
    <3> QED
      BY <1>2, <3>1, <3>2
  <2>3. \A r \in Firsts, i \in 1..Len(Tail(cycle.left)) : Tail(cycle.left)[i] # handed[r].host
    BY <1>2 DEF RunFirstOnce
  <2>4. ASSUME NEW r \in Firsts', NEW i \in 1..Len(cycle'.left)
        PROVE  cycle'.left[i] # handed'[r].host
    <3>1. CASE r \in Firsts
      BY <1>3, <1>8, <1>12, <2>3, <3>1
    <3>2. CASE r \in len + 1..Len(handed')
      BY <1>3, <1>8, <2>2, <3>2
    <3> QED
      BY <1>12, <3>1, <3>2
  <2>5. ASSUME NEW r \in Firsts', NEW q \in Firsts', Twins(r, q)'
        PROVE  r = q
    <3>1. handed'[r].host = handed'[q].host /\ handed'[r].state = handed'[q].state
      BY <2>5 DEF Twins
    <3>2. CASE r \in Firsts /\ q \in Firsts
      BY <1>12, <1>14, <2>5, <3>2 DEF RunFirstOnce
    <3>3. CASE r \in len + 1..Len(handed') /\ q \in len + 1..Len(handed')
      BY <1>3, <3>1, <3>3
    <3>4. CASE r \in Firsts /\ q \in len + 1..Len(handed')
      BY <1>3, <1>12, <1>15, <3>1, <3>4
    <3>5. CASE r \in len + 1..Len(handed') /\ q \in Firsts
      BY <1>3, <1>12, <1>15, <3>1, <3>5
    <3> QED
      BY <1>12, <3>2, <3>3, <3>4, <3>5
  <2> QED
    BY <2>1, <2>4, <2>5 DEF RunFirstOnce
<1>18. ToBeRun'
  <2>1. \A i \in 1..Len(cycle'.todo) : cycle'.todo[i] \in Firsts' /\ handed'[cycle'.todo[i]].ran = 0
    <3> SUFFICES ASSUME NEW i \in 1..n PROVE len + i \in Firsts' /\ handed'[len + i].ran = 0
      BY <1>6, <1>8
    <3>1. len + i \in len + 1..Len(handed')
      BY <1>3
    <3> QED
      BY <1>3, <1>12, <3>1
  <2>2. \A i, j \in 1..Len(cycle'.todo) : cycle'.todo[i] = cycle'.todo[j] => i = j
    BY <1>3, <1>6, <1>8
  <2>3. ASSUME NEW r \in Firsts', handed'[r].ran = 0
        PROVE  \E i \in 1..Len(cycle'.todo) : cycle'.todo[i] = r
    <3>1. r \in len + 1..Len(handed')
      BY <1>3, <1>12, <1>15, <2>3
    <3>2. r - len \in 1..n /\ len + (r - len) = r
      BY <1>3, <3>1
    <3> QED
      BY <1>6, <1>8, <3>2
  <2> QED
    BY <1>8, <2>1, <2>2, <2>3 DEF ToBeRun
<1>19. CarriesOut'
  BY <1>8 DEF CarriesOut, Carrying
<1>20. \A r \in 1..Len(handed') : handed'[r].again => r \in 1..len /\ handed[r] = handed'[r]
  BY <1>3, <1>9
<1>21. SecondHasFirst'
  <2>1. ASSUME NEW r \in 1..Len(handed'), handed'[r].again, handed'[r].ran = 1
        PROVE  \E f \in Over' : /\ Twins(f, r)'
                                /\ Carrying' /\ f = cycle'.run => cycle'.reapplied /\ cycle'.at = "act"
    <3>1. r \in 1..len /\ handed[r].again /\ handed[r].ran = 1
      BY <1>20, <2>1
    <3>2. PICK f \in Over : Twins(f, r)
      BY <3>1 DEF SecondHasFirst, len
    <3>3. f \in Over' /\ Twins(f, r)' /\ ~Carrying'
      BY <1>8, <1>12, <1>13, <1>14, <3>1, <3>2 DEF Carrying
    <3> QED
      BY <3>3
  <2>2. ASSUME NEW r \in 1..Len(handed'), NEW q \in 1..Len(handed'),
               handed'[r].again, handed'[q].again, handed'[r].ran = 1, handed'[q].ran = 1,
               Twins(r, q)'
        PROVE  r = q
    <3>1. /\ r \in 1..len /\ handed[r].again /\ handed[r].ran = 1
          /\ q \in 1..len /\ handed[q].again /\ handed[q].ran = 1
      BY <1>20, <2>2
    <3>2. Twins(r, q)
      BY <1>14, <2>2, <3>1
    <3> QED
      BY <3>1, <3>2 DEF SecondHasFirst, len
  <2>3. ASSUME NEW r \in 1..Len(handed'), handed'[r].again PROVE ~cycle'.preview
    <3>1. r \in 1..len /\ handed[r].again
      BY <1>20, <2>3
    <3> QED
      BY <1>8, <3>1 DEF SecondHasFirst, len
  <2> QED
    BY <2>1, <2>2, <2>3 DEF SecondHasFirst
<1>22. Untouched' = Untouched
  <2>1. ASSUME NEW x \in Managed
        PROVE  x \in Untouched <=> x \in Untouched'
    <3>1. x \in Untouched <=> /\ \A i \in 1..Len(cycle.left) : cycle.left[i] # x
                              /\ \A r \in Firsts : handed[r].host # x
      BY DEF Untouched
    <3>2. x \in Untouched' <=> /\ \A i \in 1..Len(Tail(cycle.left)) : Tail(cycle.left)[i] # x
                               /\ \A r \in Firsts' : handed'[r].host # x
      BY <1>8 DEF Untouched
    <3>3. (\A i \in 1..Len(cycle.left) : cycle.left[i] # x)
            <=> x # h /\ \A i \in 1..Len(Tail(cycle.left)) : Tail(cycle.left)[i] # x
      BY <1>2
    <3>4. (\A r \in Firsts' : handed'[r].host # x) <=> x # h /\ \A r \in Firsts : handed[r].host # x
      <4>1. len + 1 \in len + 1..Len(handed')
        BY <1>3
      <4> QED
        BY <1>3, <1>12, <4>1
    <3> QED
      BY <3>1, <3>2, <3>3, <3>4
  <2>2. Untouched \subseteq Managed /\ Untouched' \subseteq Managed
    BY DEF Untouched
  <2> QED
    BY <2>1, <2>2
<1>23. LedgerIsTrue' /\ NothingYet'
  BY <1>8, <1>13, <1>22 DEF LedgerIsTrue, NothingYet
<1> QED
  BY <1>16, <1>17, <1>18, <1>19, <1>21, <1>23

LEMMA AsksForRuns ==
    ASSUME BaselineInv, cycle.at = "ask", cycle.left # <<>>, declared' = declared, ledger' = ledger,
           NEW h \in Managed, h = Head(cycle.left), declared[h] # {}, Room(h),
           handed' = Desired(h, FALSE),
           cycle' = [cycle EXCEPT !.left = Tail(@), !.todo = Numbers(h), !.at = "run"]
    PROVE  BaselineInv'
<1> DEFINE n == Cardinality(declared[h])
           runs == Desired(h, FALSE)
<1>1. BaselineTypes /\ FALSE \in BOOLEAN
  BY DEF BaselineInv
<1>2. /\ n \in Nat /\ (declared[h] # {} => n # 0)
      /\ runs \in Seq(RunRecs) /\ Len(runs) = Len(handed) + n
      /\ \A r \in 1..Len(handed) : runs[r] = handed[r]
      /\ \A r \in Len(handed) + 1..Len(runs) :
            /\ runs[r].host = h /\ runs[r].again = FALSE /\ runs[r].ran = 0
            /\ \A q \in Len(handed) + 1..Len(runs) : runs[r].state = runs[q].state => r = q
      /\ Numbers(h) = [i \in 1..n |-> Len(handed) + i]
  BY <1>1, HandedOut, Zenon
<1>3. Len(runs) <= MaxRuns
  BY Zenon DEF Room
<1>4. cycle' = [cycle EXCEPT !.left = Tail(@), !.todo = [i \in 1..n |-> Len(handed) + i],
                             !.at = "run"]
  BY <1>2, Zenon
<1>5. handed' = runs
  OBVIOUS
<1> HIDE DEF n, runs
<1>6. \A r \in Len(handed) + 1..Len(runs) :
         /\ runs[r].host = h /\ ~runs[r].again /\ runs[r].ran = 0
         /\ \A q \in Len(handed) + 1..Len(runs) : runs[r].state = runs[q].state => r = q
  BY <1>2, Zenon
<1>7. n # 0
  BY <1>2, Zenon
<1>8. FreshRuns(runs, h, n)
  BY <1>2, <1>3, <1>6, <1>7, Zenon DEF FreshRuns
<1> QED
  BY <1>4, <1>5, <1>8, RunsHandedOut, Zenon

(* Running a state first, and handing its output back.                      *)
LEMMA RunsOneFirst ==
    ASSUME BaselineInv, RunAndReport
    PROVE  BaselineInv'
<1> USE DEF BaselineInv
<1> DEFINE r == Head(cycle.todo)
<1>1. /\ cycle \in CycleRecs /\ cycle.todo \in Seq(Nat) /\ ledger \in Ledgers
      /\ handed \in Seq(RunRecs) /\ Len(handed) \in Nat
      /\ cycle.at = "run" /\ cycle.todo # <<>> /\ declared' = declared
  <2>1. cycle.at = "run" /\ cycle.todo # <<>> /\ declared' = declared
    BY DEF RunAndReport
  <2> QED
    BY <2>1 DEF BaselineTypes, CycleRecs
<1>2. /\ r = cycle.todo[1] /\ Tail(cycle.todo) \in Seq(Nat)
      /\ 1 \in 1..Len(cycle.todo) /\ Len(cycle.todo) \in Nat
      /\ \A i \in 1..Len(Tail(cycle.todo)) :
            Tail(cycle.todo)[i] = cycle.todo[i + 1] /\ i + 1 \in 1..Len(cycle.todo)
      /\ \A i \in 1..Len(cycle.todo) :
            i # 1 => i - 1 \in 1..Len(Tail(cycle.todo)) /\ Tail(cycle.todo)[i - 1] = cycle.todo[i]
  BY <1>1, TailOf
<1>3. r \in Firsts /\ handed[r].ran = 0
  BY <1>2 DEF ToBeRun
<1>4. r \in 1..Len(handed) /\ ~handed[r].again /\ handed[r] \in RunRecs
  BY <1>1, <1>3 DEF Firsts
<1>5. handed' = [handed EXCEPT ![r].ran = @ + 1]
  BY DEF RunAndReport
<1>6. \E ok \in BOOLEAN : ledger' = Verdict(ok)
  BY DEF RunAndReport
<1>7. \/ cycle' = [cycle EXCEPT !.todo = Tail(@)]
      \/ \E fired \in FiredLists :
            cycle' = [cycle EXCEPT !.todo = Tail(@), !.run = r, !.at = "act",
                                   !.fired = fired, !.reapplied = FALSE]
  BY DEF RunAndReport
<1> HIDE DEF r
<1>8. /\ cycle' \in CycleRecs /\ cycle'.left = cycle.left /\ cycle'.todo = Tail(cycle.todo)
      /\ cycle'.preview = cycle.preview
      /\ \/ cycle'.at = "run" /\ cycle'.run = cycle.run
         \/ cycle'.at = "act" /\ cycle'.run = r
  <2>1. CASE cycle' = [cycle EXCEPT !.todo = Tail(@)]
    BY <1>1, <1>2, <2>1 DEF CycleRecs
  <2>2. ASSUME NEW fired \in FiredLists,
               cycle' = [cycle EXCEPT !.todo = Tail(@), !.run = r, !.at = "act",
                                      !.fired = fired, !.reapplied = FALSE]
        PROVE  /\ cycle' \in CycleRecs /\ cycle'.left = cycle.left /\ cycle'.todo = Tail(cycle.todo)
               /\ cycle'.preview = cycle.preview /\ cycle'.at = "act" /\ cycle'.run = r
    <3>1. fired \in Seq(Actions)
      BY BaselineNumbers DEF FiredLists
    <3>2. r \in Nat
      BY <1>4
    <3> QED
      BY <1>1, <1>2, <2>2, <3>1, <3>2 DEF CycleRecs
  <2> QED
    BY <1>7, <2>1, <2>2
<1>9. /\ ledger' \in Ledgers /\ ledger'.skipped = ledger.skipped
      /\ ledger'.applied + ledger'.failed = ledger.applied + ledger.failed + 1
  <2>1. \/ ledger' = [ledger EXCEPT !.applied = @ + 1]
        \/ ledger' = [ledger EXCEPT !.failed = @ + 1]
    BY <1>6 DEF Verdict
  <2>2. ledger.applied \in Nat /\ ledger.failed \in Nat
    BY <1>1 DEF Ledgers
  <2>3. ledger.skipped \in Nat
    BY <1>1 DEF Ledgers
  <2>4. CASE ledger' = [ledger EXCEPT !.applied = @ + 1]
    <3>1. /\ ledger'.applied = ledger.applied + 1 /\ ledger'.failed = ledger.failed
          /\ ledger'.skipped = ledger.skipped /\ ledger' \in Ledgers
      BY <1>1, <2>2, <2>4 DEF Ledgers
    <3> QED
      BY <2>2, <3>1
  <2>5. CASE ledger' = [ledger EXCEPT !.failed = @ + 1]
    <3>1. /\ ledger'.applied = ledger.applied /\ ledger'.failed = ledger.failed + 1
          /\ ledger'.skipped = ledger.skipped /\ ledger' \in Ledgers
      BY <1>1, <2>2, <2>5 DEF Ledgers
    <3> QED
      BY <2>2, <3>1
  <2> QED
    BY <2>1, <2>4, <2>5
<1>10. /\ handed' \in Seq(RunRecs) /\ Len(handed') = Len(handed)
       /\ \A q \in 1..Len(handed) : q # r => handed'[q] = handed[q]
       /\ handed'[r].ran = 1 /\ ~handed'[r].again
       /\ handed'[r].host = handed[r].host /\ handed'[r].state = handed[r].state
  <2> DEFINE rec == [handed[r] EXCEPT !.ran = @ + 1]
  <2>1. /\ rec \in RunRecs /\ rec.ran = 1 /\ ~rec.again
        /\ rec.host = handed[r].host /\ rec.state = handed[r].state
    BY <1>3, <1>4 DEF RunRecs
  <2>2. handed' = [handed EXCEPT ![r] = rec]
    BY <1>5, Zenon
  <2> HIDE DEF rec
  <2>3. handed' \in Seq(RunRecs) /\ Len(handed') = Len(handed)
    BY <1>1, <1>4, <2>1, <2>2
  <2>4. handed'[r] = rec /\ \A q \in 1..Len(handed) : q # r => handed'[q] = handed[q]
    BY <1>1, <1>4, <2>2
  <2> QED
    BY <2>1, <2>3, <2>4
<1> HIDE DEF RunRecs
<1>11. \A q \in 1..Len(handed) : /\ handed'[q].again <=> handed[q].again
                                 /\ handed'[q].host = handed[q].host
                                 /\ handed'[q].state = handed[q].state
  BY <1>4, <1>10
<1>12. Firsts' = Firsts /\ Firsts \subseteq 1..Len(handed)
  BY <1>10, <1>11 DEF Firsts
<1>13. Over' = Over \union {r} /\ r \notin Over
  <2>1. Over' = {q \in Firsts : handed'[q].ran = 1}
    BY <1>12 DEF Over
  <2>2. \A q \in Firsts : q # r => handed'[q] = handed[q]
    BY <1>10, <1>12
  <2> QED
    BY <1>3, <1>10, <2>1, <2>2 DEF Over
<1>14. \A p, q \in 1..Len(handed) : Twins(p, q)' <=> Twins(p, q)
  BY <1>11 DEF Twins
<1>15. BaselineTypes'
  <2>1. cycle'.run \in 0..Len(handed')
    BY <1>1, <1>4, <1>8, <1>10 DEF BaselineTypes
  <2> QED
    BY <1>1, <1>8, <1>9, <1>10, <2>1 DEF BaselineTypes
<1>16. RunFirstOnce'
  <2>1. \A p, q \in Firsts' : Twins(p, q)' => p = q
    BY <1>12, <1>14 DEF RunFirstOnce
  <2>2. \A p \in Firsts', i \in 1..Len(cycle'.left) : cycle'.left[i] # handed'[p].host
    BY <1>8, <1>11, <1>12 DEF RunFirstOnce
  <2> QED
    BY <1>8, <2>1, <2>2 DEF RunFirstOnce
<1>17. ToBeRun'
  <2>1. ASSUME NEW i \in 1..Len(Tail(cycle.todo))
        PROVE  /\ Tail(cycle.todo)[i] \in Firsts' /\ handed'[Tail(cycle.todo)[i]].ran = 0
               /\ \A j \in 1..Len(Tail(cycle.todo)) : Tail(cycle.todo)[i] = Tail(cycle.todo)[j] => i = j
    <3>1. i + 1 \in 1..Len(cycle.todo) /\ i + 1 # 1 /\ Tail(cycle.todo)[i] = cycle.todo[i + 1]
      BY <1>2
    <3>2. cycle.todo[i + 1] # r /\ cycle.todo[i + 1] \in Firsts /\ handed[cycle.todo[i + 1]].ran = 0
      BY <1>2, <3>1 DEF ToBeRun
    <3>3. handed'[cycle.todo[i + 1]] = handed[cycle.todo[i + 1]]
      BY <1>10, <1>12, <3>2
    <3>4. ASSUME NEW j \in 1..Len(Tail(cycle.todo)), Tail(cycle.todo)[i] = Tail(cycle.todo)[j]
          PROVE  i = j
      <4>1. i + 1 = j + 1
        BY <1>2, <3>4 DEF ToBeRun
      <4> QED
        BY <4>1
    <3> QED
      BY <1>12, <3>1, <3>2, <3>3, <3>4
  <2>2. ASSUME NEW q \in Firsts', handed'[q].ran = 0
        PROVE  \E i \in 1..Len(Tail(cycle.todo)) : Tail(cycle.todo)[i] = q
    <3>1. q \in Firsts /\ q # r /\ handed[q].ran = 0
      BY <1>10, <1>12, <2>2
    <3>2. PICK i \in 1..Len(cycle.todo) : cycle.todo[i] = q
      BY <3>1 DEF ToBeRun
    <3>3. i # 1
      BY <1>2, <3>1, <3>2
    <3>4. i - 1 \in 1..Len(Tail(cycle.todo)) /\ Tail(cycle.todo)[i - 1] = q
      BY <1>2, <3>2, <3>3
    <3> QED
      BY <3>4
  <2> QED
    BY <1>8, <2>1, <2>2 DEF ToBeRun
<1>18. CarriesOut'
  BY <1>8, <1>13 DEF CarriesOut, Carrying
<1>19. SecondHasFirst'
  <2>1. ASSUME NEW q \in 1..Len(handed'), handed'[q].again, handed'[q].ran = 1
        PROVE  \E f \in Over' : /\ Twins(f, q)'
                                /\ Carrying' /\ f = cycle'.run => cycle'.reapplied /\ cycle'.at = "act"
    <3>1. q \in 1..Len(handed) /\ handed[q].again /\ handed[q].ran = 1
      BY <1>10, <2>1
    <3>2. PICK f \in Over : Twins(f, q)
      BY <3>1 DEF SecondHasFirst
    <3>3. f # r /\ f \in Over' /\ f \in 1..Len(handed)
      BY <1>12, <1>13, <3>2 DEF Over
    <3>4. Twins(f, q)'
      BY <1>14, <3>1, <3>2, <3>3
    <3>5. ~(Carrying' /\ f = cycle'.run)
      BY <1>8, <3>3 DEF Carrying
    <3> QED
      BY <3>3, <3>4, <3>5
  <2>2. ASSUME NEW p \in 1..Len(handed'), NEW q \in 1..Len(handed'),
               handed'[p].again, handed'[q].again, handed'[p].ran = 1, handed'[q].ran = 1,
               Twins(p, q)'
        PROVE  p = q
    <3>1. /\ p \in 1..Len(handed) /\ handed[p].again /\ handed[p].ran = 1
          /\ q \in 1..Len(handed) /\ handed[q].again /\ handed[q].ran = 1
      BY <1>10, <2>2
    <3>2. Twins(p, q)
      BY <1>14, <2>2, <3>1
    <3> QED
      BY <3>1, <3>2 DEF SecondHasFirst
  <2>3. \A q \in 1..Len(handed') : handed'[q].again => ~cycle'.preview
    BY <1>8, <1>10, <1>11 DEF SecondHasFirst
  <2> QED
    BY <2>1, <2>2, <2>3 DEF SecondHasFirst
<1>20. Untouched' = Untouched
  BY <1>8, <1>11, <1>12 DEF Untouched
<1>21. LedgerIsTrue'
  <2>0. 1 \in Int /\ Len(handed) \in Int
    BY <1>1
  <2>1. IsFiniteSet(1..Len(handed))
    BY <2>0, FS_Interval, Zenon
  <2>2. IsFiniteSet(Over)
    BY <1>12, <2>1, FS_Subset DEF Over
  <2>3. Cardinality(Over') = Cardinality(Over) + 1
    BY <1>13, <2>2, FS_AddElement
  <2> QED
    BY <1>1, <1>8, <1>9, <1>20, <2>3 DEF LedgerIsTrue
<1>22. NothingYet'
  BY <1>8 DEF NothingYet
<1> QED
  BY <1>15, <1>16, <1>17, <1>18, <1>19, <1>21, <1>22

(* The runs a reapply is handed, of which at most one is run.               *)
SecondRuns(runs) ==
    /\ runs \in Seq(RunRecs) /\ Len(runs) <= MaxRuns /\ Len(runs) >= Len(handed)
    /\ \A r \in 1..Len(handed) : runs[r] = handed[r]
    /\ \A r \in Len(handed) + 1..Len(runs) :
          /\ runs[r].again
          /\ runs[r].ran = 1 =>
                /\ runs[r].host = handed[cycle.run].host
                /\ runs[r].state = handed[cycle.run].state
                /\ \A q \in Len(handed) + 1..Len(runs) : runs[q].ran = 1 => q = r

LEMMA ReappliesOnce ==
    ASSUME BaselineInv, cycle.at = "reapply", declared' = declared, ledger' = ledger,
           NEW runs, SecondRuns(runs), handed' = runs,
           cycle' = [cycle EXCEPT !.at = "act"]
    PROVE  BaselineInv'
<1> USE DEF BaselineInv
<1> DEFINE len == Len(handed)
<1>1. /\ cycle \in CycleRecs /\ ledger \in Ledgers /\ handed \in Seq(RunRecs) /\ len \in Nat
      /\ cycle.run \in Over /\ cycle.reapplied /\ ~cycle.preview
  BY DEF BaselineTypes, CarriesOut, Carrying
<1>2. /\ cycle' \in CycleRecs /\ cycle'.left = cycle.left /\ cycle'.todo = cycle.todo
      /\ cycle'.preview = cycle.preview /\ cycle'.at = "act" /\ cycle'.run = cycle.run
      /\ cycle'.reapplied
  BY <1>1 DEF CycleRecs
<1>3. /\ handed' \in Seq(RunRecs) /\ Len(handed') \in Nat /\ Len(handed') >= len
      /\ Len(handed') <= MaxRuns
      /\ \A r \in 1..len : handed'[r] = handed[r]
      /\ \A r \in len + 1..Len(handed') :
          /\ handed'[r].again
          /\ handed'[r].ran = 1 =>
                /\ handed'[r].host = handed[cycle.run].host
                /\ handed'[r].state = handed[cycle.run].state
                /\ \A q \in len + 1..Len(handed') : handed'[q].ran = 1 => q = r
  BY DEF SecondRuns
<1>4. Over \subseteq Firsts /\ Firsts \subseteq 1..len
  BY DEF Over, Firsts
<1> HIDE DEF len
<1>5. /\ 1..Len(handed') = 1..len \union (len + 1..Len(handed'))
      /\ \A r \in 1..len : r \in 1..Len(handed')
  BY <1>1, <1>3
<1>6. Firsts' = Firsts
  <2>1. Firsts = {r \in 1..len : ~handed[r].again} /\ Firsts' = {r \in 1..Len(handed') : ~handed'[r].again}
    BY DEF Firsts, len
  <2> QED
    BY <1>3, <1>5, <2>1
<1>7. Over' = Over
  BY <1>3, <1>4, <1>6 DEF Over
<1>8. \A p, q \in 1..len : Twins(p, q)' <=> Twins(p, q)
  BY <1>3 DEF Twins
<1>9. \A p, q \in 1..len : Twins(p, q) <=> /\ handed[p].host = handed[q].host
                                           /\ handed[p].state = handed[q].state
  BY DEF Twins
<1>10. BaselineTypes'
  <2>1. cycle'.run \in 0..Len(handed')
    BY <1>1, <1>2, <1>3 DEF BaselineTypes, len
  <2> QED
    BY <1>1, <1>2, <1>3, <2>1 DEF BaselineTypes
<1>11. RunFirstOnce'
  <2>1. \A p, q \in Firsts' : Twins(p, q)' => p = q
    BY <1>4, <1>6, <1>8 DEF RunFirstOnce
  <2>2. \A p \in Firsts', i \in 1..Len(cycle'.left) : cycle'.left[i] # handed'[p].host
    BY <1>2, <1>3, <1>4, <1>6 DEF RunFirstOnce
  <2> QED
    BY <1>2, <2>1, <2>2 DEF RunFirstOnce
<1>12. ToBeRun'
  <2>1. \A r \in Firsts : handed'[r] = handed[r]
    BY <1>3, <1>4
  <2> QED
    BY <1>2, <1>6, <2>1 DEF ToBeRun
<1>13. CarriesOut'
  BY <1>1, <1>2, <1>7 DEF CarriesOut, Carrying
<1>14. \A q \in 1..len : handed[q].again /\ handed[q].ran = 1 => ~Twins(cycle.run, q)
  <2> SUFFICES ASSUME NEW q \in 1..len, handed[q].again, handed[q].ran = 1, Twins(cycle.run, q)
               PROVE  FALSE
    OBVIOUS
  <2>1. PICK f \in Over : /\ Twins(f, q)
                          /\ Carrying /\ f = cycle.run => cycle.reapplied /\ cycle.at = "act"
    BY DEF SecondHasFirst, len
  <2>2. f # cycle.run
    BY <2>1 DEF Carrying
  <2>3. Twins(f, cycle.run)
    BY <2>1 DEF Twins
  <2> QED
    BY <1>1, <1>4, <2>1, <2>2, <2>3 DEF RunFirstOnce
<1>15. SecondHasFirst'
  <2>1. ASSUME NEW q \in 1..Len(handed'), handed'[q].again, handed'[q].ran = 1
        PROVE  \E f \in Over' : /\ Twins(f, q)'
                                /\ Carrying' /\ f = cycle'.run => cycle'.reapplied /\ cycle'.at = "act"
    <3>1. CASE q \in 1..len
      <4>1. handed[q].again /\ handed[q].ran = 1
        BY <1>3, <2>1, <3>1
      <4>2. PICK f \in Over : Twins(f, q)
        BY <3>1, <4>1 DEF SecondHasFirst, len
      <4>3. f \in Over' /\ Twins(f, q)'
        BY <1>4, <1>7, <1>8, <3>1, <4>2
      <4> QED
        BY <1>2, <4>3
    <3>2. CASE q \in len + 1..Len(handed')
      <4>1. cycle.run \in Over' /\ cycle.run \in 1..len
        BY <1>1, <1>4, <1>7
      <4>2. Twins(cycle.run, q)'
        BY <1>2, <1>3, <2>1, <3>2, <4>1 DEF Twins
      <4> QED
        BY <1>2, <4>1, <4>2
    <3> QED
      BY <1>5, <3>1, <3>2
  <2>2. ASSUME NEW p \in 1..Len(handed'), NEW q \in 1..Len(handed'),
               handed'[p].again, handed'[q].again, handed'[p].ran = 1, handed'[q].ran = 1,
               Twins(p, q)'
        PROVE  p = q
    <3>0. handed'[p].host = handed'[q].host /\ handed'[p].state = handed'[q].state
      BY <2>2 DEF Twins
    <3>1. CASE p \in 1..len /\ q \in 1..len
      <4>1. handed[p].again /\ handed[p].ran = 1 /\ handed[q].again /\ handed[q].ran = 1
        BY <1>3, <2>2, <3>1
      <4>2. Twins(p, q)
        BY <1>8, <2>2, <3>1
      <4> QED
        BY <3>1, <4>1, <4>2 DEF SecondHasFirst, len
    <3>2. CASE p \in len + 1..Len(handed') /\ q \in len + 1..Len(handed')
      BY <1>3, <2>2, <3>2
    <3>3. ASSUME NEW a \in 1..len, NEW b \in len + 1..Len(handed'),
                 handed'[a].again, handed'[a].ran = 1, handed'[b].ran = 1,
                 handed'[a].host = handed'[b].host, handed'[a].state = handed'[b].state
          PROVE  FALSE
      <4>1. handed'[b].host = handed[cycle.run].host /\ handed'[b].state = handed[cycle.run].state
        BY <1>3, <3>3
      <4>2. handed'[a] = handed[a]
        BY <1>3
      <4>3. Twins(cycle.run, a) /\ handed[a].again /\ handed[a].ran = 1
        BY <3>3, <4>1, <4>2 DEF Twins
      <4> QED
        BY <1>14, <4>3
    <3>4. CASE p \in 1..len /\ q \in len + 1..Len(handed')
      BY <2>2, <3>0, <3>3, <3>4
    <3>5. CASE p \in len + 1..Len(handed') /\ q \in 1..len
      BY <2>2, <3>0, <3>3, <3>5
    <3> QED
      BY <1>5, <3>1, <3>2, <3>4, <3>5
  <2>3. \A q \in 1..Len(handed') : handed'[q].again => ~cycle'.preview
    BY <1>1, <1>2
  <2> QED
    BY <2>1, <2>2, <2>3 DEF SecondHasFirst
<1>16. Untouched' = Untouched
  <2>1. \A r \in Firsts : handed'[r] = handed[r]
    BY <1>3, <1>4
  <2> QED
    BY <1>2, <1>6, <2>1 DEF Untouched
<1>17. LedgerIsTrue' /\ NothingYet'
  BY <1>2, <1>7, <1>16 DEF LedgerIsTrue, NothingYet
<1> QED
  BY <1>10, <1>11, <1>12, <1>13, <1>15, <1>17

(* Asking again about the host, for the state's second run.                 *)
LEMMA AsksAgain ==
    ASSUME BaselineInv, cycle.at = "reapply", Room(handed[cycle.run].host)
    PROVE  LET runs == Desired(handed[cycle.run].host, TRUE)
           IN  /\ runs \in Seq(RunRecs) /\ Len(runs) <= MaxRuns /\ Len(runs) >= Len(handed)
               /\ Len(runs) \in Nat
               /\ \A r \in 1..Len(handed) : runs[r] = handed[r]
               /\ \A r \in Len(handed) + 1..Len(runs) :
                     /\ runs[r].again /\ runs[r].ran = 0
                     /\ runs[r].host = handed[cycle.run].host
<1> DEFINE h == handed[cycle.run].host
           n == Cardinality(declared[h])
           runs == Desired(h, TRUE)
           trial == Desired(h, FALSE)
<1>1. BaselineTypes /\ TRUE \in BOOLEAN /\ FALSE \in BOOLEAN
  BY DEF BaselineInv
<1>2. h \in Managed
  <2>1. cycle.run \in 1..Len(handed)
    BY DEF BaselineInv, CarriesOut, Carrying, Over, Firsts
  <2>2. handed[cycle.run] \in RunRecs
    BY <1>1, <2>1 DEF BaselineTypes
  <2> QED
    BY <2>2 DEF RunRecs
<1> HIDE DEF h
<1>3. Len(trial) = Len(handed) + n
  BY <1>1, <1>2, HandedOut, Zenon
<1>4. Len(trial) <= MaxRuns
  BY Zenon DEF Room, h
<1>5. /\ n \in Nat /\ Len(handed) \in Nat /\ runs \in Seq(RunRecs) /\ Len(runs) = Len(handed) + n
      /\ \A r \in 1..Len(handed) : runs[r] = handed[r]
      /\ \A r \in Len(handed) + 1..Len(runs) :
            runs[r].host = h /\ runs[r].again = TRUE /\ runs[r].ran = 0
  BY <1>1, <1>2, HandedOut, Zenon
<1> HIDE DEF n, runs, trial
<1>6. \A r \in Len(handed) + 1..Len(runs) : runs[r].host = h /\ runs[r].again /\ runs[r].ran = 0
  BY <1>5, Zenon
<1>7. Len(runs) <= MaxRuns /\ Len(runs) >= Len(handed) /\ Len(runs) \in Nat
  BY <1>3, <1>4, <1>5
<1> QED
  BY <1>5, <1>6, <1>7, Zenon DEF h, runs

LEMMA ReappliesSoundly ==
    ASSUME BaselineInv, Reapply
    PROVE  BaselineInv'
<1> DEFINE runs == Desired(handed[cycle.run].host, TRUE)
<1>1. /\ cycle.at = "reapply" /\ declared' = declared /\ ledger' = ledger
      /\ cycle' = [cycle EXCEPT !.at = "act"]
      /\ \/ handed' = handed
         \/ handed' = runs /\ Again(runs) = {} /\ Room(handed[cycle.run].host)
         \/ /\ Room(handed[cycle.run].host)
            /\ \E n \in Again(runs) : handed' = [runs EXCEPT ![n].ran = @ + 1]
  BY Zenon DEF Reapply, GoesOn, Unassigned
<1>2. CASE handed' = handed
  <2>1. cycle \in CycleRecs /\ declared' \in [Managed -> SUBSET States]
    BY <1>1 DEF BaselineInv, BaselineTypes
  <2>2. /\ cycle' \in CycleRecs /\ cycle'.left = cycle.left /\ cycle'.todo = cycle.todo
        /\ cycle'.run = cycle.run /\ cycle'.preview = cycle.preview /\ cycle'.at = "act"
    BY <1>1, <2>1 DEF CycleRecs
  <2> QED
    BY <1>1, <1>2, <2>1, <2>2, QuietStep
<1>3. CASE Room(handed[cycle.run].host)
  <2>1. /\ runs \in Seq(RunRecs) /\ Len(runs) <= MaxRuns /\ Len(runs) >= Len(handed)
        /\ Len(runs) \in Nat
        /\ \A r \in 1..Len(handed) : runs[r] = handed[r]
        /\ \A r \in Len(handed) + 1..Len(runs) :
              /\ runs[r].again /\ runs[r].ran = 0
              /\ runs[r].host = handed[cycle.run].host
    BY <1>1, <1>3, AsksAgain, Zenon
  <2> HIDE DEF runs
  <2>2. CASE handed' = runs
    <3>1. SecondRuns(runs)
      BY <2>1 DEF SecondRuns
    <3> QED
      BY <1>1, <2>2, <3>1, ReappliesOnce
  <2>3. ASSUME NEW n \in Again(runs), handed' = [runs EXCEPT ![n].ran = @ + 1]
        PROVE  BaselineInv'
    <3> DEFINE rec == [runs[n] EXCEPT !.ran = @ + 1]
               made == [runs EXCEPT ![n] = rec]
    <3>1. handed' = made
      BY <2>3, Zenon
    <3>2. n \in Len(handed) + 1..Len(runs) /\ runs[n].state = handed[cycle.run].state
      BY DEF Again
    <3>3. Len(handed) \in Nat
      BY DEF BaselineInv, BaselineTypes
    <3>4. n \in 1..Len(runs) /\ n \notin 1..Len(handed)
      BY <2>1, <3>2, <3>3
    <3>5. runs[n] \in RunRecs
      BY <2>1, <3>4
    <3>6. /\ rec \in RunRecs /\ rec.ran = 1 /\ rec.again
          /\ rec.host = runs[n].host /\ rec.state = runs[n].state
      BY <2>1, <3>2, <3>5 DEF RunRecs
    <3> HIDE DEF rec
    <3>7. /\ made \in Seq(RunRecs) /\ Len(made) = Len(runs) /\ made[n] = rec
          /\ \A r \in 1..Len(runs) : r # n => made[r] = runs[r]
      BY <2>1, <3>4, <3>6
    <3> HIDE DEF made
    <3>8. \A r \in Len(handed) + 1..Len(runs) : r \in 1..Len(runs)
      BY <3>3
    <3>9. \A r \in 1..Len(handed) : r \in 1..Len(runs) /\ r # n
      BY <2>1, <3>3, <3>4
    <3>10. SecondRuns(made)
      <4>1. \A r \in 1..Len(handed) : made[r] = handed[r]
        BY <2>1, <3>7, <3>9
      <4>2. \A r \in Len(handed) + 1..Len(made) : made[r].again /\ (made[r].ran = 1 => r = n)
        BY <2>1, <3>6, <3>7, <3>8
      <4>3. made[n].host = handed[cycle.run].host /\ made[n].state = handed[cycle.run].state
        BY <2>1, <3>2, <3>6, <3>7
      <4>4. Len(made) <= MaxRuns /\ Len(made) >= Len(handed) /\ made \in Seq(RunRecs)
        BY <2>1, <3>7
      <4> QED
        BY <4>1, <4>2, <4>3, <4>4 DEF SecondRuns
    <3> QED
      BY <1>1, <3>1, <3>10, ReappliesOnce
  <2> QED
    BY <1>1, <1>2, <2>2, <2>3
<1> QED
  BY <1>1, <1>2, <1>3

LEMMA AsksSoundly ==
    ASSUME BaselineInv, Ask
    PROVE  BaselineInv'
<1> DEFINE h == Head(cycle.left)
<1>1. cycle.at = "ask" /\ cycle.left # <<>> /\ declared' = declared
  BY DEF Ask
<1>2. \/ /\ handed' = handed /\ ledger' = ledger /\ cycle' = [NoCycle EXCEPT !.at = "raised"]
      \/ /\ declared[h] = {} /\ handed' = handed
         /\ ledger' = [ledger EXCEPT !.skipped = @ + 1]
         /\ cycle' = [cycle EXCEPT !.left = Tail(@)]
      \/ /\ declared[h] # {} /\ Room(h) /\ handed' = Desired(h, FALSE) /\ ledger' = ledger
         /\ cycle' = [cycle EXCEPT !.left = Tail(@), !.todo = Numbers(h), !.at = "run"]
  BY Zenon DEF Ask
<1>3. h \in Managed
  <2>1. cycle.left \in Seq(Managed)
    BY DEF BaselineInv, BaselineTypes, CycleRecs
  <2> QED
    BY <1>1, <2>1, TailOf
<1>4. CASE handed' = handed /\ ledger' = ledger /\ cycle' = [NoCycle EXCEPT !.at = "raised"]
  BY <1>1, <1>4, AsksInVain, Zenon
<1>5. CASE /\ declared[h] = {} /\ handed' = handed
           /\ ledger' = [ledger EXCEPT !.skipped = @ + 1]
           /\ cycle' = [cycle EXCEPT !.left = Tail(@)]
  BY <1>1, <1>5, AsksInVain, Zenon
<1>6. CASE /\ declared[h] # {} /\ Room(h) /\ handed' = Desired(h, FALSE) /\ ledger' = ledger
           /\ cycle' = [cycle EXCEPT !.left = Tail(@), !.todo = Numbers(h), !.at = "run"]
  BY <1>1, <1>3, <1>6, AsksForRuns, Zenon
<1> QED
  BY <1>2, <1>4, <1>5, <1>6, Zenon

LEMMA BaselineStep == BaselineInv /\ [BaselineNext]_baselineVars => BaselineInv'
<1> SUFFICES ASSUME BaselineInv, [BaselineNext]_baselineVars PROVE BaselineInv'
  OBVIOUS
<1>1. CASE Unassign \/ NextHost \/ EndCycle \/ ActOnHost \/ ActsDone \/ UNCHANGED baselineVars
  BY <1>1, MovesOn
<1>2. CASE BeginCycle
  BY <1>2, BeginsClean
<1>3. CASE Ask
  BY <1>3, AsksSoundly
<1>4. CASE RunAndReport
  BY <1>4, RunsOneFirst
<1>5. CASE Reapply
  BY <1>5, ReappliesSoundly
<1> QED
  BY <1>1, <1>2, <1>3, <1>4, <1>5 DEF BaselineNext, CycleStep

LEMMA BaselineFollows == BaselineInv => BaselineIsKept
<1> SUFFICES ASSUME BaselineInv PROVE BaselineIsKept
  OBVIOUS
<1> USE DEF BaselineInv
<1>1. /\ handed \in Seq(RunRecs) /\ Len(handed) \in Nat /\ Len(handed) <= MaxRuns
      /\ cycle \in CycleRecs /\ cycle.run \in 0..Len(handed)
      /\ declared \in [Managed -> SUBSET States]
  BY DEF BaselineTypes
<1>2. \A r \in 1..Len(handed) : /\ handed[r] \in RunRecs
                                /\ handed[r].state \in States /\ handed[r].ran \in 0..1
  <2> SUFFICES ASSUME NEW r \in 1..Len(handed)
               PROVE  handed[r] \in RunRecs /\ handed[r].state \in States /\ handed[r].ran \in 0..1
    OBVIOUS
  <2>1. handed[r] \in RunRecs
    BY <1>1
  <2> QED
    BY <2>1 DEF RunRecs
<1>3. BaselineTypeOK
  <2>1. cycle.at \in {"none", "ask", "run", "act", "reapply", "done", "raised"}
    BY <1>1 DEF CycleRecs
  <2> QED
    BY <1>1, <1>2, <2>1 DEF BaselineTypeOK
<1>4. AtMostOneReapply
  <2> SUFFICES ASSUME NEW h \in Managed, NEW s \in States
               PROVE  Cardinality({r \in 1..Len(handed) :
                        handed[r].host = h /\ handed[r].state = s /\ handed[r].ran > 0})
                          <= IF cycle.preview THEN 1 ELSE 2
    BY DEF AtMostOneReapply
  <2> DEFINE F == {r \in Firsts : handed[r].host = h /\ handed[r].state = s /\ handed[r].ran > 0}
             A == {r \in 1..Len(handed) : /\ handed[r].again
                                          /\ handed[r].host = h /\ handed[r].state = s
                                          /\ handed[r].ran > 0}
             B == {r \in 1..Len(handed) :
                     handed[r].host = h /\ handed[r].state = s /\ handed[r].ran > 0}
  <2>1. B = F \union A
    BY DEF Firsts
  <2>2. \A r, q \in F : r = q
    BY DEF RunFirstOnce, Twins
  <2>3. \A r \in A : handed[r].ran = 1
    BY <1>2
  <2>4. \A r, q \in A : r = q
    BY <2>3 DEF SecondHasFirst, Twins
  <2>5. cycle.preview => A = {}
    BY DEF SecondHasFirst
  <2> HIDE DEF F, A, B
  <2>6. IsFiniteSet(F) /\ Cardinality(F) \in Nat /\ Cardinality(F) <= 1
    BY <2>2, AtMostOne
  <2>7. IsFiniteSet(A) /\ Cardinality(A) \in Nat /\ Cardinality(A) <= 1
    BY <2>4, AtMostOne
  <2>8. Cardinality(B) <= 2 /\ (cycle.preview => Cardinality(B) <= 1)
    <3>1. Cardinality(B) = Cardinality(F) + Cardinality(A) - Cardinality(F \intersect A)
      BY <2>1, <2>6, <2>7, FS_Union
    <3>2. Cardinality(F \intersect A) \in Nat
      BY <2>6, FS_Intersection, FS_CardinalityType
    <3>3. cycle.preview => Cardinality(A) = 0
      BY <2>5, FS_EmptySet
    <3> QED
      BY <2>6, <2>7, <3>1, <3>2, <3>3
  <2> QED
    BY <2>8 DEF B
<1>5. CountsAddUp
  <2> SUFFICES ASSUME cycle.at = "done"
               PROVE  /\ \A r \in Firsts : handed[r].ran = 1
                      /\ ledger.applied + ledger.failed = Cardinality(Firsts)
                      /\ ledger.skipped
                           = Cardinality({h \in Managed : \A r \in Firsts : handed[r].host # h})
    BY Zenon DEF CountsAddUp, Firsts
  <2>1. cycle.todo = <<>> /\ cycle.left = <<>> /\ Len(cycle.todo) = 0 /\ Len(cycle.left) = 0
    BY DEF ToBeRun
  <2>2. \A r \in Firsts : handed[r].ran = 1
    <3> SUFFICES ASSUME NEW r \in Firsts PROVE handed[r].ran = 1
      OBVIOUS
    <3>1. handed[r].ran # 0
      BY <2>1 DEF ToBeRun
    <3>2. r \in 1..Len(handed)
      BY DEF Firsts
    <3> QED
      BY <1>2, <3>1, <3>2
  <2>3. Over = Firsts
    BY <2>2 DEF Over
  <2>4. Untouched = {h \in Managed : \A r \in Firsts : handed[r].host # h}
    BY <2>1 DEF Untouched
  <2> QED
    BY <2>2, <2>3, <2>4 DEF LedgerIsTrue
<1> QED
  BY <1>3, <1>4, <1>5 DEF BaselineIsKept

-----------------------------------------------------------------------------
(* The whole.                                                               *)

(* What the background loop and the requests do with the schedules: no      *)
(* deletion is undone and no edit lost, each occurrence is started once or  *)
(* given up in one of the named ways, and "ok" and "partial" are recorded   *)
(* of runs that were so (schedules._loop, update, delete and run_now).      *)
THEOREM SchedulesStand == WorkSpec => ScheduleIsKept
<1>1. WorkInit => SchedInv
  BY SchedStarts DEF WorkInit
<1>2. SchedInv /\ [WorkNext]_workVars => SchedInv' /\ EditStep /\ DropStep /\ StatusStep
  <2>1. [WorkNext]_workVars => [SchedNext]_schedVars
    BY DEF WorkNext, workVars
  <2> QED
    BY <2>1, SchedStepSafe DEF SchedStepHolds
<1>3. SchedInv => SchedTypeOK /\ OncePerOccurrence
  BY DEF SchedInv
<1>4. EditStep => [\A j \in Jobs :
         /\ ~schedules[j].there => ~schedules'[j].there
         /\ schedules'[j].version # schedules[j].version => edits' # edits]_schedVars
  BY DEF EditStep
<1>5. DropStep => [\A j \in Jobs :
         Due(j) /\ schedules'[j].next # schedules[j].next =>
             schedules[j].next \in started'[j] \cup missed'[j]]_schedVars
  BY DEF DropStep
<1>6. StatusStep => [\A j \in Jobs :
         LET status == schedules'[j].status
             runs   == {r \in {loop, runNow} : r.pc = "run" /\ r.job = j /\ r.hosts = 0}
         IN  status # schedules[j].status =>
               \E r \in runs : /\ status = "ok" => r.good = SchedHosts
                               /\ status = "partial" => r.good # 0]_schedVars
  BY DEF StatusStep
<1> QED
  BY <1>1, <1>2, <1>3, <1>4, <1>5, <1>6, PTL
     DEF WorkSpec, ScheduleIsKept, EditsSurvive, NoneIsDropped, StatusIsTrue

(* The evaluator and the operators' forms: each message is sent once unless *)
(* the console dies between saving and sending, the file holds no custom    *)
(* rule but a superuser's, and the loop undoes no edit that was saved while *)
(* it evaluated (alerts.evaluate_once, save_config and _persist_firing).    *)
THEOREM AlertsStand == WorkSpec => AlertsAreTrue
<1>1. WorkInit => AlertInv
  BY AlertStarts DEF WorkInit
<1>2. AlertInv /\ [WorkNext]_workVars => AlertInv' /\ EditsStep
  <2>1. [WorkNext]_workVars => [AlertNext]_alertVars
    BY DEF WorkNext, workVars
  <2> QED
    BY <2>1, AlertStepSafe
<1>3. AlertInv => AlertTypeOK /\ ToldIsRemembered /\ RulesAreAuthored
  BY AlertsFollow
<1>4. EditsStep => [(evaluator.at = "gathered" /\ evaluator'.at = "saved")
                       => conf' = conf]_alertVars
  BY DEF EditsStep
<1> QED
  BY <1>1, <1>2, <1>3, <1>4, PTL DEF WorkSpec, AlertsAreTrue, EditsOutliveTheCycle

(* The caches of the fleet's state: what is served covers the fleet as it   *)
(* was shortly before the request, is no older than the times to live, and  *)
(* a refresh shows nothing older than itself; a burst of loads makes one    *)
(* sweep (load_fleet_cached, _fresh_memo and merge_live_results).           *)
THEOREM CachesStand == WorkSpec => CacheIsTrue
<1>1. WorkInit => CacheInv
  BY CacheStarts DEF WorkInit
<1>2. CacheInv /\ [WorkNext]_workVars
        => CacheInv' /\ CoverStep /\ RecentStep /\ LiveStep /\ BurstStep
  <2>1. [WorkNext]_workVars => [FleetNext]_fleetVars
    BY DEF WorkNext, workVars
  <2> QED
    BY <2>1, CacheStepSafe DEF CacheStepHolds, ServeStep
<1>3. CacheInv => FleetTypeOK
  BY DEF CacheInv
<1>4. CoverStep => [\A t \in TaskIds : Hit(t) /\ Knew(t) =>
         \A h \in FleetHosts : since[h] + MemoTtl < Came(t) =>
            (h \in enrolled <=> cached[h] # -1)]_fleetVars
  BY DEF CoverStep
<1>5. RecentStep => [\A t \in TaskIds : Hit(t) =>
         \A h \in FleetHosts : cached[h] # -1 /\ since[h] = Never /\ h \notin late
            => now - cached[h] < CacheTtl + StoreMaxAge]_fleetVars
  BY DEF RecentStep
<1>6. LiveStep => [\A t \in TaskIds :
         probes[t].kind = "refresh" /\ probes'[t].at \in {"done", "hit"} =>
            \A h \in FleetHosts : cached'[h] # -1 => cached'[h] >= probes[t].came]_fleetVars
  BY DEF LiveStep
<1>7. BurstStep => [\A t \in TaskIds :
         probes[t].kind = "load" /\ probes'[t].at = "probe" /\ probes[t].at = "lock" =>
            \/ lastSweep = -1 \/ now - lastSweep >= CacheTtl
            \/ \E h \in FleetHosts : \/ since[h] + MemoTtl >= lastSweep
                                     \/ since[h] + MemoTtl >= probes[t].came
            \/ stamp < lastSweep \/ late # {}]_fleetVars
  BY DEF BurstStep
<1> QED
  BY <1>1, <1>2, <1>3, <1>4, <1>5, <1>6, <1>7, PTL
     DEF WorkSpec, CacheIsTrue, ServedCoversFleet, ServedIsRecent, RefreshIsLive, BurstSweepsOnce

(* A desired-state cycle runs each declared state once and at most once     *)
(* more for its rules, never more than once in a preview, and its answer    *)
(* counts the first runs and the hosts it passed over                       *)
(* (_run_baseline_cycle and _carry_out_baseline_actions).                   *)
THEOREM BaselinesStand == WorkSpec => []BaselineIsKept
<1>1. WorkInit => BaselineInv
  BY BaselineStarts DEF WorkInit
<1>2. BaselineInv /\ [WorkNext]_workVars => BaselineInv'
  <2>1. [WorkNext]_workVars => [BaselineNext]_baselineVars
    BY DEF WorkNext, workVars, baselineVars
  <2> QED
    BY <2>1, BaselineStep
<1>3. BaselineInv => BaselineIsKept
  BY BaselineFollows
<1> QED
  BY <1>1, <1>2, <1>3, PTL DEF WorkSpec
=============================================================================
