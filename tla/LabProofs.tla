------------------------------ MODULE LabProofs ------------------------------
(***************************************************************************)
(* Proofs about the prompt lab, for any parameters.                        *)
(*                                                                         *)
(* LabBatches: WorkIsWithinLimits and ResultsStay.  Neither is inductive:  *)
(* that a finished run rests needs the open batches to be all that has     *)
(* work left (Waiting, Watched), and that a batch ends with nothing queued *)
(* needs its list to hold all that waits (Listed).                         *)
(*                                                                         *)
(* LabActivation: LiveSettingsAreExplained.  That the activations' shifts  *)
(* add up needs that nothing is activated before the database is seeded    *)
(* (NothingBeforeTheSeed), and what a sum over the log becomes when the    *)
(* log grows and when one of its entries is reverted (SumOfMore,           *)
(* SumOfChanged).                                                          *)
(*                                                                         *)
(* LabChoices, with LabEvidence: ReportIsFair, IndependentOfDetails,       *)
(* ChoicesAreFair and ChoicesAreKept.  What shares a slug and a version is *)
(* one scenario only if versions are never given twice while it is there   *)
(* (VersionsTellApart); a reading that is held against a candidate has to  *)
(* be one that an attempt still remembers (ReadingsAreKept); and two       *)
(* replies answer one situation because a result is always of its          *)
(* scenario's words (Grounded).                                            *)
(***************************************************************************)
EXTENDS LabBatches, LabActivation, LabChoices, FiniteSetTheorems, SequenceTheorems,
        WellFoundedInduction, TLAPS

\* A set of natural numbers that is not empty has a least element.
LEMMA LeastNat ==
    ASSUME NEW S \in SUBSET Nat, S # {}
    PROVE  \E m \in S : \A n \in S : m <= n
<1>1. PICK m \in S : \A n \in S : <<n, m>> \notin OpToRel(<, Nat)
  BY NatLessThanWellFounded, WFMin
<1>2. \A n \in S : ~(n < m)
  BY <1>1 DEF OpToRel
<1> QED BY <1>2

\* A batch that was not submitted has nothing.
FreshBatches ==
    \A b \in Batches : batch[b] = "none" =>
        /\ job[b] = "none" /\ todo[b] = {}
        /\ \A a \in Attempts : a[1] = b => attempt[a] = "none" /\ runner[a] = "none"

\* What waits is stopped with its batch.
Waiting == \A a \in Attempts : attempt[a] = "queued" => batch[a[1]] \in Open

\* Somebody will start, or skip, what waits.
Listed ==
    ~stopping =>
        \A a \in Attempts :
            /\ attempt[a] = "interrupted" => job[a[1]] = "none"
            /\ attempt[a] = "queued" =>
                   \/ job[a[1]] = "new"
                   \/ job[a[1]] \in {"ready", "waiting"} /\ a[2] \in todo[a[1]]
                   \/ job[a[1]] = "gathering" /\ exhausted[a[1]]

\* What runs unhindered is stopped with its batch.
Watched ==
    \A a \in Attempts :
        attempt[a] = "running" /\ runner[a] \in {"new", "running"} => batch[a[1]] \in Open

\* The attempts that hold a slot, counted.
Holders == {a \in Attempts : runner[a] # "none"}

SlotsSuffice == Cardinality(Holders) <= active

HoldersRun == \A a \in Attempts : runner[a] # "none" => attempt[a] \in {"running", "none"}

Inv ==
    /\ TypeOK /\ WithinBudget /\ SlotsSuffice /\ HoldersRun /\ FinishedRunsRest
    /\ FreshBatches /\ Waiting /\ Listed /\ Watched

USE DEF rows, jobs, runners, process

-----------------------------------------------------------------------------
(* Pairs, sizes and prefixes *)

LEMMA Pairs ==
    /\ \A a \in Attempts : a[1] \in Batches /\ a[2] \in Scenarios /\ a = <<a[1], a[2]>>
    /\ \A b \in Batches, s \in Scenarios : <<b, s>> \in Attempts
    /\ \A b \in Batches, S \in SUBSET Scenarios : \A a \in Attempts :
           a \in {b} \X S <=> a[1] = b /\ a[2] \in S
BY DEF Attempts

LEMMA FiniteAttempts == IsFiniteSet(Attempts)
BY LabAssumption, FS_Product DEF Attempts

\* What changes a size and what does not.
LEMMA Sizes ==
    ASSUME TypeOK
    PROVE  /\ IsFiniteSet(started) /\ Cardinality(started) \in Nat
           /\ IsFiniteSet(Holders) /\ Cardinality(Holders) \in Nat
<1>1. started \subseteq Attempts /\ Holders \subseteq Attempts
  BY DEF TypeOK, Holders
<1> QED BY <1>1, FiniteAttempts, FS_Subset, FS_CardinalityType

\* A set of numbers that is not empty has a greatest one.
LEMMA GreatestOf ==
    ASSUME NEW S \in SUBSET Nat, IsFiniteSet(S), S # {}
    PROVE  \E m \in S : \A x \in S : x <= m
<1> DEFINE Above(m) == {x \in S : m < x}
           Counts == {Cardinality(Above(m)) : m \in S}
<1>1. \A m \in S : IsFiniteSet(Above(m)) /\ Cardinality(Above(m)) \in Nat
  BY FS_Subset, FS_CardinalityType
<1>2. Counts \in SUBSET Nat /\ Counts # {}
  BY <1>1
<1>3. PICK m \in S : \A x \in S : Cardinality(Above(m)) <= Cardinality(Above(x))
  <2>1. PICK k \in Counts : \A n \in Counts : k <= n
    BY <1>2, LeastNat
  <2> QED BY <2>1
<1>4. ASSUME NEW x \in S, m < x PROVE FALSE
  <2>0. \A u \in S : u \in Nat
    OBVIOUS
  <2>1. Above(x) \subseteq Above(m) /\ x \in Above(m) /\ x \notin Above(x)
    <3>1. x \in Above(m) /\ x \notin Above(x)
      BY <1>4, <2>0
    <3>2. ASSUME NEW u \in S, x < u PROVE m < u
      BY <1>4, <2>0, <3>2
    <3> QED BY <3>1, <3>2
  <2>2. Above(x) # Above(m)
    BY <2>1
  <2>3. Cardinality(Above(x)) < Cardinality(Above(m))
    <3> HIDE DEF Above
    <3> QED BY <1>1, <2>1, <2>2, FS_Subset
  <2>4. Cardinality(Above(m)) <= Cardinality(Above(x))
    BY <1>3
  <2>5. Cardinality(Above(m)) \in Nat /\ Cardinality(Above(x)) \in Nat
    BY <1>1
  <2> HIDE DEF Above
  <2> QED BY <2>3, <2>4, <2>5
<1>5. \A x \in S : x <= m
  BY <1>4
<1> QED BY <1>5

\* The first n of S are n at most, come before the others, and are all of S if
\* it has no more.
LEMMA FirstOfFacts ==
    ASSUME NEW S \in SUBSET Scenarios, NEW n \in Nat
    PROVE  /\ FirstOf(S, n) \subseteq S
           /\ IsFiniteSet(FirstOf(S, n)) /\ Cardinality(FirstOf(S, n)) \in Nat
           /\ Cardinality(FirstOf(S, n)) <= n
           /\ \A s \in S, t \in FirstOf(S, n) : s \notin FirstOf(S, n) => t < s
           /\ n = Cardinality(S) => FirstOf(S, n) = S
           /\ n = 0 => FirstOf(S, n) = {}
<1> DEFINE F == FirstOf(S, n)
           Below(s) == {t \in S : t < s}
<1>1. S \in SUBSET Nat /\ IsFiniteSet(S) /\ Cardinality(S) \in Nat
  BY LabAssumption, FS_Subset, FS_CardinalityType
<1>2. F \subseteq S /\ IsFiniteSet(F) /\ Cardinality(F) \in Nat
  BY <1>1, FS_Subset, FS_CardinalityType DEF FirstOf
<1>3. \A s \in S : IsFiniteSet(Below(s)) /\ Cardinality(Below(s)) \in Nat
  BY <1>1, FS_Subset, FS_CardinalityType
<1>4. \A s \in S : s \in F <=> Cardinality(Below(s)) < n
  BY DEF FirstOf
<1>5. ASSUME NEW s \in S, NEW t \in F, s \notin F PROVE t < s
  <2> SUFFICES ASSUME ~(t < s) PROVE FALSE
    OBVIOUS
  <2>0. \A u \in S : u \in Nat
    BY <1>1
  <2>1. Below(s) \subseteq Below(t)
    <3>1. s <= t /\ s \in Nat /\ t \in Nat
      <4> HIDE DEF F
      <4> QED BY <1>2, <2>0
    <3>2. ASSUME NEW u \in S, u < s PROVE u < t
      BY <2>0, <3>1, <3>2
    <3> QED BY <3>2
  <2>2. Cardinality(Below(s)) <= Cardinality(Below(t))
    <3> HIDE DEF Below
    <3> QED BY <1>2, <1>3, <2>1, FS_Subset
  <2>3. t \in S /\ Cardinality(Below(t)) < n /\ ~(Cardinality(Below(s)) < n)
    <3> HIDE DEF F, Below
    <3> QED BY <1>2, <1>4, <1>5
  <2> HIDE DEF Below, F
  <2> QED BY <1>3, <2>2, <2>3
<1>6. ASSUME n = Cardinality(S) PROVE F = S
  <2>1. ASSUME NEW s \in S PROVE Cardinality(Below(s)) < n
    <3>1. Below(s) \subseteq S /\ s \notin Below(s) /\ s \in S
      BY <1>1
    <3>2. Below(s) # S
      BY <3>1
    <3>3. IsFiniteSet(Below(s)) /\ Cardinality(Below(s)) \in Nat
      BY <1>3
    <3> HIDE DEF Below
    <3>4. Cardinality(Below(s)) <= Cardinality(S) /\ Cardinality(Below(s)) # Cardinality(S)
      BY <1>1, <3>1, <3>2, FS_Subset
    <3> QED BY <1>1, <1>6, <3>3, <3>4
  <2> QED BY <1>2, <1>4, <2>1
<1>7. Cardinality(F) <= n
  <2>1. CASE F = {}
    <3>1. Cardinality(F) = 0
      BY <2>1, FS_EmptySet
    <3> QED BY <3>1
  <2>2. CASE F # {}
    <3>1. PICK m \in F : \A x \in F : x <= m
      <4> HIDE DEF F
      <4> QED BY <1>1, <1>2, <2>2, GreatestOf
    <3>2. F \ {m} \subseteq Below(m)
      <4> HIDE DEF F
      <4> QED BY <1>1, <1>2, <3>1
    <3>3. Cardinality(F \ {m}) = Cardinality(F) - 1
      <4> HIDE DEF F
      <4> QED BY <1>2, <3>1, FS_RemoveElement
    <3>4. Cardinality(F \ {m}) <= Cardinality(Below(m))
      <4> HIDE DEF F, Below
      <4> QED BY <1>2, <1>3, <3>1, <3>2, FS_Subset
    <3>5. Cardinality(Below(m)) < n /\ Cardinality(Below(m)) \in Nat
      <4> HIDE DEF F, Below
      <4> QED BY <1>2, <1>3, <1>4, <3>1
    <3> HIDE DEF F, Below
    <3> QED BY <1>2, <3>3, <3>4, <3>5
  <2> QED BY <2>1, <2>2
<1>8. ASSUME n = 0 PROVE F = {}
  <2> HIDE DEF F, Below
  <2> QED BY <1>2, <1>3, <1>4, <1>8
<1> QED BY <1>2, <1>5, <1>6, <1>7, <1>8

\* n attempts of a batch are n more at most.
LEMMA Joined ==
    ASSUME NEW T, IsFiniteSet(T), NEW b \in Batches, NEW S, IsFiniteSet(S)
    PROVE  /\ IsFiniteSet(T \cup {b} \X S)
           /\ Cardinality(T \cup {b} \X S) \in Nat
           /\ Cardinality(T \cup {b} \X S) <= Cardinality(T) + Cardinality(S)
<1> DEFINE P == {b} \X S
<1>1. IsFiniteSet({b}) /\ Cardinality({b}) = 1
  BY FS_Singleton
<1>2. IsFiniteSet(P) /\ Cardinality(P) = Cardinality({b}) * Cardinality(S)
  BY <1>1, FS_Product
<1>3. Cardinality(S) \in Nat /\ Cardinality(T) \in Nat
  BY FS_CardinalityType
<1>4. Cardinality(P) = Cardinality(S)
  <2> HIDE DEF P
  <2> QED BY <1>1, <1>2, <1>3
<1> HIDE DEF P
<1>5. /\ IsFiniteSet(T \cup P)
      /\ Cardinality(T \cup P) = Cardinality(T) + Cardinality(P) - Cardinality(T \cap P)
  BY <1>2, FS_Union
<1>6. Cardinality(T \cap P) \in Nat /\ Cardinality(T \cup P) \in Nat
  BY <1>2, <1>5, FS_Intersection, FS_CardinalityType
<1>7. Cardinality(T \cup P) <= Cardinality(T) + Cardinality(S)
  BY <1>3, <1>4, <1>5, <1>6
<1> QED BY <1>5, <1>6, <1>7 DEF P

-----------------------------------------------------------------------------
(* What an action does to the slots *)

\* Nobody takes a slot.
LEMMA NobodyTakes ==
    ASSUME TypeOK, SlotsSuffice, Holders' \subseteq Holders, active' = active
    PROVE  SlotsSuffice'
<1>1. IsFiniteSet(Holders) /\ Cardinality(Holders) \in Nat /\ active \in Nat
  BY Sizes, LabAssumption DEF TypeOK
<1>2. Cardinality(Holders') \in Nat /\ Cardinality(Holders') <= Cardinality(Holders)
  BY <1>1, FS_Subset, FS_CardinalityType
<1>3. Cardinality(Holders') <= active
  BY <1>1, <1>2 DEF SlotsSuffice
<1> QED BY <1>3 DEF SlotsSuffice

\* One gives its slot back.
LEMMA OneGives ==
    ASSUME TypeOK, SlotsSuffice, NEW a \in Attempts, runner[a] # "none",
           active' = active - 1, runner' = [runner EXCEPT ![a] = "none"]
    PROVE  SlotsSuffice' /\ active' \in 0 .. Parallel
<1>1. IsFiniteSet(Holders) /\ Cardinality(Holders) \in Nat /\ active \in 0 .. Parallel
  BY Sizes DEF TypeOK
<1>2. a \in Holders /\ Holders' = Holders \ {a}
  BY DEF TypeOK, Holders
<1>3. Cardinality(Holders') = Cardinality(Holders) - 1
  BY <1>1, <1>2, FS_RemoveElement
<1>4. Cardinality(Holders') \in Nat
  BY <1>1, <1>2, FS_Subset, FS_CardinalityType
<1>5. Cardinality(Holders) <= active
  BY DEF SlotsSuffice
<1>6. Cardinality(Holders') <= active' /\ active' \in 0 .. Parallel
  BY <1>1, <1>3, <1>4, <1>5, LabAssumption
<1> QED BY <1>6 DEF SlotsSuffice

\* Fewer starts are within the budget, too.
LEMMA FewerStarts ==
    ASSUME TypeOK, WithinBudget, started' \subseteq started
    PROVE  WithinBudget'
<1>1. IsFiniteSet(started) /\ Cardinality(started) \in Nat
  BY Sizes
<1>2. Cardinality(started') \in Nat /\ Cardinality(started') <= Cardinality(started)
  BY <1>1, FS_Subset, FS_CardinalityType
<1>3. Cardinality(started) <= Budget /\ Budget \in Nat
  BY LabAssumption DEF WithinBudget
<1>4. Cardinality(started') <= Budget
  BY <1>1, <1>2, <1>3
<1> QED BY <1>4 DEF WithinBudget

\* Task.cancel() gives no slot away.
LEMMA StoppedFacts ==
    ASSUME TypeOK, NEW A
    PROVE  /\ Stopped(A) \in [Attempts -> {"none", "new", "running", "stopping"}]
           /\ \A a \in Attempts :
                  /\ runner[a] = "none" => Stopped(A)[a] = "none"
                  /\ a \in A => Stopped(A)[a] \in {"none", "stopping"}
                  /\ a \notin A => Stopped(A)[a] = runner[a]
BY DEF TypeOK, Stopped

-----------------------------------------------------------------------------
(* One lemma for each action *)

LEMMA InvInit == Init => Inv
<1> SUFFICES ASSUME Init PROVE Inv
  OBVIOUS
<1>0. usedUp \in BOOLEAN /\ stopping \in BOOLEAN /\ exhausted \in [Batches -> BOOLEAN]
  BY Zenon DEF Init
<1>1. TypeOK
  BY <1>0, LabAssumption DEF Init, TypeOK, Idle
<1>2. Holders = {} /\ started = {} /\ Cardinality({}) = 0
  BY FS_EmptySet DEF Init, Holders, Idle
<1>3. WithinBudget /\ SlotsSuffice
  BY <1>2, LabAssumption DEF Init, WithinBudget, SlotsSuffice
<1>4. HoldersRun /\ FinishedRunsRest
  BY DEF Init, HoldersRun, FinishedRunsRest, Idle
<1>5. FreshBatches /\ Waiting /\ Listed /\ Watched
  BY DEF Init, FreshBatches, Waiting, Listed, Watched, Idle
<1> QED BY <1>1, <1>3, <1>4, <1>5 DEF Inv

LEMMA UseUpKeeps ==
    ASSUME Inv, UseUp
    PROVE  Inv'
<1>1. TypeOK'
  BY Pairs, LabAssumption DEF Inv, TypeOK, UseUp
<1>2. WithinBudget'
  BY FewerStarts DEF Inv, UseUp
<1>3. SlotsSuffice'
  BY NobodyTakes DEF Inv, TypeOK, Holders, UseUp
<1>4. HoldersRun'
  BY Pairs DEF Inv, TypeOK, HoldersRun, FreshBatches, UseUp
<1>5. FinishedRunsRest'
  BY Pairs DEF Inv, TypeOK, HoldersRun, FinishedRunsRest, Waiting, Watched, UseUp
<1>6. FreshBatches'
  BY Pairs DEF Inv, TypeOK, FreshBatches, UseUp
<1>7. Waiting'
  BY Pairs DEF Inv, TypeOK, Waiting, Listed, Open, UseUp
<1>8. Listed'
  BY Pairs DEF Inv, TypeOK, FreshBatches, Listed, HoldersRun, UseUp
<1>9. Watched'
  BY Pairs DEF Inv, TypeOK, Watched, FreshBatches, HoldersRun, Open, UseUp
<1> QED
  BY <1>1, <1>2, <1>3, <1>4, <1>5, <1>6, <1>7, <1>8, <1>9 DEF Inv

LEMMA SubmitKeeps ==
    ASSUME Inv, NEW b \in Batches, Submit(b)
    PROVE  Inv'
<1>1. TypeOK'
  BY Pairs, LabAssumption DEF Inv, TypeOK, Submit
<1>2. WithinBudget'
  BY FewerStarts DEF Inv, Submit
<1>3. SlotsSuffice'
  BY NobodyTakes DEF Inv, TypeOK, Holders, Submit
<1>4. HoldersRun'
  BY Pairs DEF Inv, TypeOK, HoldersRun, FreshBatches, Submit
<1>5. FinishedRunsRest'
  BY Pairs DEF Inv, TypeOK, HoldersRun, FinishedRunsRest, Waiting, Watched, Submit
<1>6. FreshBatches'
  BY Pairs DEF Inv, TypeOK, FreshBatches, Submit
<1>7. Waiting'
  BY Pairs DEF Inv, TypeOK, Waiting, Listed, Open, Submit
<1>8. Listed'
  BY Pairs DEF Inv, TypeOK, FreshBatches, Listed, HoldersRun, Submit
<1>9. Watched'
  BY Pairs DEF Inv, TypeOK, Watched, FreshBatches, HoldersRun, Open, Submit
<1> QED
  BY <1>1, <1>2, <1>3, <1>4, <1>5, <1>6, <1>7, <1>8, <1>9 DEF Inv

LEMMA BatchBeginsKeeps ==
    ASSUME Inv, NEW b \in Batches, BatchBegins(b)
    PROVE  Inv'
<1>1. TypeOK'
  BY Pairs, LabAssumption DEF Inv, TypeOK, BatchBegins
<1>2. WithinBudget'
  BY FewerStarts DEF Inv, BatchBegins
<1>3. SlotsSuffice'
  BY NobodyTakes DEF Inv, TypeOK, Holders, BatchBegins
<1>4. HoldersRun'
  BY Pairs DEF Inv, TypeOK, HoldersRun, FreshBatches, BatchBegins
<1>5. FinishedRunsRest'
  BY Pairs DEF Inv, TypeOK, HoldersRun, FinishedRunsRest, Waiting, Watched,
     BatchBegins
<1>6. FreshBatches'
  BY Pairs DEF Inv, TypeOK, FreshBatches, BatchBegins
<1>7. Waiting'
  BY Pairs DEF Inv, TypeOK, Waiting, Listed, Open, BatchBegins
<1>8. Listed'
  BY Pairs DEF Inv, TypeOK, FreshBatches, Listed, HoldersRun, BatchBegins
<1>9. Watched'
  BY Pairs DEF Inv, TypeOK, Watched, FreshBatches, HoldersRun, Open, BatchBegins
<1> QED
  BY <1>1, <1>2, <1>3, <1>4, <1>5, <1>6, <1>7, <1>8, <1>9 DEF Inv

LEMMA BatchEndsKeeps ==
    ASSUME Inv, NEW b \in Batches, BatchEnds(b)
    PROVE  Inv'
<1>1. TypeOK'
  <2>1. attempt' \in [Attempts -> {"none", "queued", "running", "interrupted"} \cup Ended]
    BY Pairs DEF Inv, TypeOK, BatchEnds, Of, Ended
  <2>2. started' \subseteq {x \in Attempts : attempt'[x] # "none"}
    BY Pairs DEF Inv, TypeOK, BatchEnds, Of
  <2>3. job' \in [Batches -> {"none", "new", "ready", "waiting", "gathering"}]
    BY DEF Inv, TypeOK, BatchEnds, Of
  <2>4. runner' \in [Attempts -> {"none", "new", "running", "stopping"}]
    BY DEF Inv, TypeOK, BatchEnds, Of
  <2>5. batch' \in [Batches ->
                {"none", "queued", "running", "done", "cancelled", "interrupted",
                 "budget_exhausted"}]
    BY DEF Inv, TypeOK, BatchEnds, Of
  <2>6. exhausted' \in [Batches -> BOOLEAN]
    BY Zenon DEF BatchEnds, Inv, TypeOK
  <2> QED
    BY <2>1, <2>2, <2>3, <2>4, <2>5, <2>6 DEF Inv, TypeOK, BatchEnds, Of
<1>2. WithinBudget'
  BY FewerStarts DEF Inv, BatchEnds, Of
<1>3. SlotsSuffice'
  BY NobodyTakes DEF Inv, TypeOK, Holders, BatchEnds, Of
<1>4. HoldersRun'
  BY Pairs DEF Inv, TypeOK, HoldersRun, FreshBatches, BatchEnds, Of
<1>5. FinishedRunsRest'
  BY Pairs DEF Inv, TypeOK, HoldersRun, FinishedRunsRest, Waiting, Watched,
     BatchEnds, Of
<1>6. FreshBatches'
  BY Pairs DEF Inv, TypeOK, FreshBatches, BatchEnds, Of
<1>7. Waiting'
  BY Pairs DEF Inv, TypeOK, Waiting, Listed, Open, BatchEnds, Of
<1>8. Listed'
  BY Pairs DEF Inv, TypeOK, FreshBatches, Listed, HoldersRun, BatchEnds, Of
<1>9. Watched'
  BY Pairs DEF Inv, TypeOK, Watched, FreshBatches, HoldersRun, Open, BatchEnds, Of
<1> QED
  BY <1>1, <1>2, <1>3, <1>4, <1>5, <1>6, <1>7, <1>8, <1>9 DEF Inv

LEMMA AttemptBeginsKeeps ==
    ASSUME Inv, NEW a \in Attempts, AttemptBegins(a)
    PROVE  Inv'
<1>0. active' \in 0 .. Parallel /\ SlotsSuffice'
  <2>1. CASE runner' = [runner EXCEPT ![a] = "running"] /\ UNCHANGED <<attempt, active, job>>
    <3>1. Holders' \subseteq Holders
      BY <2>1 DEF Inv, TypeOK, Holders, AttemptBegins
    <3>2. active' \in 0 .. Parallel
      BY <2>1 DEF Inv, TypeOK
    <3> QED BY <2>1, <3>1, <3>2, NobodyTakes DEF Inv
  <2>2. CASE Mark(a, "skipped") /\ Release(a)
    BY <2>2, OneGives DEF Inv, Release, AttemptBegins
  <2> QED BY <2>1, <2>2 DEF AttemptBegins
<1>1. TypeOK'
  <2>1. attempt' \in [Attempts -> {"none", "queued", "running", "interrupted"} \cup Ended]
    BY <1>0, Pairs DEF Inv, TypeOK, AttemptBegins, Release, Mark, Ended
  <2>2. started' \subseteq {x \in Attempts : attempt'[x] # "none"}
    BY <1>0, Pairs DEF Inv, TypeOK, AttemptBegins, Release, Mark
  <2>3. job' \in [Batches -> {"none", "new", "ready", "waiting", "gathering"}]
    BY <1>0 DEF Inv, TypeOK, AttemptBegins, Release, Mark
  <2>4. runner' \in [Attempts -> {"none", "new", "running", "stopping"}]
    BY <1>0 DEF Inv, TypeOK, AttemptBegins, Release, Mark
  <2>5. batch' \in [Batches ->
                {"none", "queued", "running", "done", "cancelled", "interrupted",
                 "budget_exhausted"}]
    BY <1>0 DEF Inv, TypeOK, AttemptBegins, Release, Mark
  <2> QED
    BY <1>0, <2>1, <2>2, <2>3, <2>4, <2>5 DEF Inv, TypeOK, AttemptBegins, Release,
       Mark
<1>2. WithinBudget'
  BY <1>0, FewerStarts DEF Inv, AttemptBegins, Release, Mark
<1>3. SlotsSuffice'
  BY <1>0
<1>4. HoldersRun'
  BY <1>0, Pairs DEF Inv, TypeOK, HoldersRun, FreshBatches, AttemptBegins, Release, Mark
<1>5. FinishedRunsRest'
  BY <1>0, Pairs DEF Inv, TypeOK, HoldersRun, FinishedRunsRest, Waiting, Watched,
     AttemptBegins, Release, Mark
<1>6. FreshBatches'
  BY <1>0, Pairs DEF Inv, TypeOK, FreshBatches, AttemptBegins, Release, Mark
<1>7. Waiting'
  BY <1>0, Pairs DEF Inv, TypeOK, Waiting, Listed, Open, AttemptBegins, Release,
     Mark
<1>8. Listed'
  BY <1>0, Pairs DEF Inv, TypeOK, FreshBatches, Listed, HoldersRun, AttemptBegins, Release,
     Mark
<1>9. Watched'
  BY <1>0, Pairs DEF Inv, TypeOK, Watched, FreshBatches, HoldersRun, Open, AttemptBegins,
     Release, Mark
<1> QED
  BY <1>1, <1>2, <1>3, <1>4, <1>5, <1>6, <1>7, <1>8, <1>9 DEF Inv

LEMMA AttemptEndsKeeps ==
    ASSUME Inv, NEW a \in Attempts, AttemptEnds(a)
    PROVE  Inv'
<1>0. active' \in 0 .. Parallel /\ SlotsSuffice'
  BY OneGives DEF Inv, AttemptEnds, Release
<1>1. TypeOK'
  <2>1. attempt' \in [Attempts -> {"none", "queued", "running", "interrupted"} \cup Ended]
    BY <1>0, Pairs DEF Inv, TypeOK, AttemptEnds, Release, Mark, Ended
  <2>2. started' \subseteq {x \in Attempts : attempt'[x] # "none"}
    BY <1>0, Pairs DEF Inv, TypeOK, AttemptEnds, Release, Mark
  <2>3. job' \in [Batches -> {"none", "new", "ready", "waiting", "gathering"}]
    BY <1>0 DEF Inv, TypeOK, AttemptEnds, Release, Mark
  <2>4. runner' \in [Attempts -> {"none", "new", "running", "stopping"}]
    BY <1>0 DEF Inv, TypeOK, AttemptEnds, Release, Mark
  <2>5. batch' \in [Batches ->
                {"none", "queued", "running", "done", "cancelled", "interrupted",
                 "budget_exhausted"}]
    BY <1>0 DEF Inv, TypeOK, AttemptEnds, Release, Mark
  <2> QED
    BY <1>0, <2>1, <2>2, <2>3, <2>4, <2>5 DEF Inv, TypeOK, AttemptEnds, Release,
       Mark
<1>2. WithinBudget'
  BY <1>0, FewerStarts DEF Inv, AttemptEnds, Release, Mark
<1>3. SlotsSuffice'
  BY <1>0
<1>4. HoldersRun'
  BY <1>0, Pairs DEF Inv, TypeOK, HoldersRun, FreshBatches, AttemptEnds, Release, Mark
<1>5. FinishedRunsRest'
  BY <1>0, Pairs DEF Inv, TypeOK, HoldersRun, FinishedRunsRest, Waiting, Watched,
     AttemptEnds, Release, Mark
<1>6. FreshBatches'
  BY <1>0, Pairs DEF Inv, TypeOK, FreshBatches, AttemptEnds, Release, Mark
<1>7. Waiting'
  BY <1>0, Pairs DEF Inv, TypeOK, Waiting, Listed, Open, AttemptEnds, Release, Mark
<1>8. Listed'
  BY <1>0, Pairs DEF Inv, TypeOK, FreshBatches, Listed, HoldersRun, AttemptEnds, Release,
     Mark
<1>9. Watched'
  BY <1>0, Pairs DEF Inv, TypeOK, Watched, FreshBatches, HoldersRun, Open, AttemptEnds,
     Release, Mark
<1> QED
  BY <1>1, <1>2, <1>3, <1>4, <1>5, <1>6, <1>7, <1>8, <1>9 DEF Inv

LEMMA AttemptStopsKeeps ==
    ASSUME Inv, NEW a \in Attempts, AttemptStops(a)
    PROVE  Inv'
<1>0. active' \in 0 .. Parallel /\ SlotsSuffice'
  BY OneGives DEF Inv, AttemptStops, Release
<1>1. TypeOK'
  <2>1. attempt' \in [Attempts -> {"none", "queued", "running", "interrupted"} \cup Ended]
    BY <1>0, Pairs DEF Inv, TypeOK, AttemptStops, Release, Mark, Ended
  <2>2. started' \subseteq {x \in Attempts : attempt'[x] # "none"}
    BY <1>0, Pairs DEF Inv, TypeOK, AttemptStops, Release, Mark
  <2>3. job' \in [Batches -> {"none", "new", "ready", "waiting", "gathering"}]
    BY <1>0 DEF Inv, TypeOK, AttemptStops, Release, Mark
  <2>4. runner' \in [Attempts -> {"none", "new", "running", "stopping"}]
    BY <1>0 DEF Inv, TypeOK, AttemptStops, Release, Mark
  <2>5. batch' \in [Batches ->
                {"none", "queued", "running", "done", "cancelled", "interrupted",
                 "budget_exhausted"}]
    BY <1>0 DEF Inv, TypeOK, AttemptStops, Release, Mark
  <2> QED
    BY <1>0, <2>1, <2>2, <2>3, <2>4, <2>5 DEF Inv, TypeOK, AttemptStops, Release,
       Mark
<1>2. WithinBudget'
  BY <1>0, FewerStarts DEF Inv, AttemptStops, Release, Mark
<1>3. SlotsSuffice'
  BY <1>0
<1>4. HoldersRun'
  BY <1>0, Pairs DEF Inv, TypeOK, HoldersRun, FreshBatches, AttemptStops, Release, Mark
<1>5. FinishedRunsRest'
  BY <1>0, Pairs DEF Inv, TypeOK, HoldersRun, FinishedRunsRest, Waiting, Watched,
     AttemptStops, Release, Mark
<1>6. FreshBatches'
  BY <1>0, Pairs DEF Inv, TypeOK, FreshBatches, AttemptStops, Release, Mark
<1>7. Waiting'
  BY <1>0, Pairs DEF Inv, TypeOK, Waiting, Listed, Open, AttemptStops, Release, Mark
<1>8. Listed'
  BY <1>0, Pairs DEF Inv, TypeOK, FreshBatches, Listed, HoldersRun, AttemptStops, Release,
     Mark
<1>9. Watched'
  BY <1>0, Pairs DEF Inv, TypeOK, Watched, FreshBatches, HoldersRun, Open, AttemptStops,
     Release, Mark
<1> QED
  BY <1>1, <1>2, <1>3, <1>4, <1>5, <1>6, <1>7, <1>8, <1>9 DEF Inv

LEMMA CancelBatchKeeps ==
    ASSUME Inv, NEW b \in Batches, CancelBatch(b)
    PROVE  Inv'
<1> DEFINE A == {x \in {b} \X Scenarios : attempt[x] = "running"}
           toStop == Stopped(A)
<1>0. /\ runner' = toStop
      /\ toStop \in [Attempts -> {"none", "new", "running", "stopping"}]
      /\ \A x \in Attempts :
             /\ runner[x] = "none" => toStop[x] = "none"
             /\ x \in A => toStop[x] \in {"none", "stopping"}
             /\ x \notin A => toStop[x] = runner[x]
  BY StoppedFacts DEF Inv, CancelBatch, CancelAll
<1> HIDE DEF toStop
<1>1. TypeOK'
  <2>1. attempt' \in [Attempts -> {"none", "queued", "running", "interrupted"} \cup Ended]
    BY <1>0, Pairs DEF Inv, TypeOK, CancelBatch, CancelAll, Open, Ended
  <2>2. started' \subseteq {x \in Attempts : attempt'[x] # "none"}
    BY <1>0, Pairs DEF Inv, TypeOK, CancelBatch, CancelAll, Open
  <2>3. job' \in [Batches -> {"none", "new", "ready", "waiting", "gathering"}]
    BY <1>0 DEF Inv, TypeOK, CancelBatch, CancelAll, Open
  <2>4. runner' \in [Attempts -> {"none", "new", "running", "stopping"}]
    BY <1>0 DEF Inv, TypeOK, CancelBatch, CancelAll, Open
  <2>5. batch' \in [Batches ->
                {"none", "queued", "running", "done", "cancelled", "interrupted",
                 "budget_exhausted"}]
    BY <1>0 DEF Inv, TypeOK, CancelBatch, CancelAll, Open
  <2>6. cancelled' \subseteq Attempts
    BY Pairs DEF Inv, TypeOK, Attempts, CancelBatch, CancelAll, Open
  <2> QED
    BY <1>0, <2>1, <2>2, <2>3, <2>4, <2>5, <2>6 DEF Inv, TypeOK, CancelBatch,
       CancelAll, Open
<1>2. WithinBudget'
  BY <1>0, FewerStarts DEF Inv, CancelBatch, CancelAll, Open
<1>3. SlotsSuffice'
  <2>1. Holders' \subseteq Holders /\ active' = active
    BY <1>0 DEF CancelBatch, Holders
  <2> QED BY <2>1, NobodyTakes DEF Inv
<1>4. HoldersRun'
  BY <1>0, Pairs DEF Inv, TypeOK, HoldersRun, FreshBatches, CancelBatch, CancelAll, Open
<1>5. FinishedRunsRest'
  BY <1>0, Pairs DEF Inv, TypeOK, HoldersRun, FinishedRunsRest, Waiting, Watched,
     CancelBatch, CancelAll, Open
<1>6. FreshBatches'
  <2>1. job' = job /\ todo' = todo
    BY DEF CancelBatch
  <2>2. ASSUME NEW c \in Batches, batch'[c] = "none"
        PROVE  batch[c] = "none"
    BY <2>2 DEF Inv, TypeOK, CancelBatch, CancelAll, Open
  <2>3. ASSUME NEW x \in Attempts, attempt[x] = "none", runner[x] = "none"
        PROVE  attempt'[x] = "none" /\ runner'[x] = "none"
    BY <1>0, <2>3 DEF Inv, TypeOK, CancelBatch, CancelAll, Open
  <2> QED BY <2>1, <2>2, <2>3 DEF Inv, FreshBatches
<1>7. Waiting'
  BY <1>0, Pairs DEF Inv, TypeOK, Waiting, Listed, Open, CancelBatch, CancelAll
<1>8. Listed'
  BY <1>0, Pairs DEF Inv, TypeOK, FreshBatches, Listed, HoldersRun, CancelBatch, CancelAll,
     Open
<1>9. Watched'
  BY <1>0, Pairs DEF Inv, TypeOK, Watched, FreshBatches, HoldersRun, Open, CancelBatch,
     CancelAll
<1> QED
  BY <1>1, <1>2, <1>3, <1>4, <1>5, <1>6, <1>7, <1>8, <1>9 DEF Inv

LEMMA StopRunKeeps ==
    ASSUME Inv, StopRun
    PROVE  Inv'
<1> DEFINE A == {x \in OpenBatches \X Scenarios : attempt[x] = "running"}
           toStop == Stopped(A)
<1>0. /\ runner' = toStop
      /\ toStop \in [Attempts -> {"none", "new", "running", "stopping"}]
      /\ \A x \in Attempts :
             /\ runner[x] = "none" => toStop[x] = "none"
             /\ x \in A => toStop[x] \in {"none", "stopping"}
             /\ x \notin A => toStop[x] = runner[x]
  BY StoppedFacts DEF Inv, StopRun, CancelAll
<1> HIDE DEF toStop
<1>1. TypeOK'
  <2>1. attempt' \in [Attempts -> {"none", "queued", "running", "interrupted"} \cup Ended]
    BY <1>0, Pairs DEF Inv, TypeOK, StopRun, CancelAll, OpenBatches, Open, Ended
  <2>2. started' \subseteq {x \in Attempts : attempt'[x] # "none"}
    BY <1>0, Pairs DEF Inv, TypeOK, StopRun, CancelAll, OpenBatches, Open
  <2>3. job' \in [Batches -> {"none", "new", "ready", "waiting", "gathering"}]
    BY <1>0 DEF Inv, TypeOK, StopRun, CancelAll, OpenBatches, Open
  <2>4. runner' \in [Attempts -> {"none", "new", "running", "stopping"}]
    BY <1>0 DEF Inv, TypeOK, StopRun, CancelAll, OpenBatches, Open
  <2>5. batch' \in [Batches ->
                {"none", "queued", "running", "done", "cancelled", "interrupted",
                 "budget_exhausted"}]
    BY <1>0 DEF Inv, TypeOK, StopRun, CancelAll, OpenBatches, Open
  <2>6. cancelled' \subseteq Attempts
    BY Pairs DEF Inv, TypeOK, Attempts, StopRun, CancelAll, OpenBatches, Open
  <2> QED
    BY <1>0, <2>1, <2>2, <2>3, <2>4, <2>5, <2>6 DEF Inv, TypeOK, StopRun, CancelAll,
       OpenBatches, Open
<1>2. WithinBudget'
  BY <1>0, FewerStarts DEF Inv, StopRun, CancelAll, OpenBatches, Open
<1>3. SlotsSuffice'
  <2>1. Holders' \subseteq Holders /\ active' = active
    BY <1>0 DEF StopRun, Holders
  <2> QED BY <2>1, NobodyTakes DEF Inv
<1>4. HoldersRun'
  BY <1>0, Pairs DEF Inv, TypeOK, HoldersRun, FreshBatches, StopRun, CancelAll,
     OpenBatches, Open
<1>5. FinishedRunsRest'
  BY <1>0, Pairs DEF Inv, TypeOK, HoldersRun, FinishedRunsRest, Waiting, Watched,
     StopRun, CancelAll, OpenBatches, Open
<1>6. FreshBatches'
  <2>1. job' = job /\ todo' = todo
    BY DEF StopRun
  <2>2. ASSUME NEW c \in Batches, batch'[c] = "none"
        PROVE  batch[c] = "none"
    BY <2>2 DEF Inv, TypeOK, StopRun, CancelAll, OpenBatches, Open
  <2>3. ASSUME NEW x \in Attempts, attempt[x] = "none", runner[x] = "none"
        PROVE  attempt'[x] = "none" /\ runner'[x] = "none"
    BY <1>0, <2>3 DEF Inv, TypeOK, StopRun, CancelAll, OpenBatches, Open
  <2> QED BY <2>1, <2>2, <2>3 DEF Inv, FreshBatches
<1>7. Waiting'
  BY <1>0, Pairs DEF Inv, TypeOK, Waiting, Listed, Open, StopRun, CancelAll,
     OpenBatches
<1>8. Listed'
  BY <1>0, Pairs DEF Inv, TypeOK, FreshBatches, Listed, HoldersRun, StopRun, CancelAll,
     OpenBatches, Open
<1>9. Watched'
  BY <1>0, Pairs DEF Inv, TypeOK, Watched, FreshBatches, HoldersRun, Open, StopRun,
     CancelAll, OpenBatches
<1> QED
  BY <1>1, <1>2, <1>3, <1>4, <1>5, <1>6, <1>7, <1>8, <1>9 DEF Inv

LEMMA ResumeKeeps ==
    ASSUME Inv, NEW b \in Batches, Resume(b)
    PROVE  Inv'
<1>1. TypeOK'
  BY Pairs, LabAssumption DEF Inv, TypeOK, Resume, Resumable, Of, Open
<1>2. WithinBudget'
  BY FewerStarts DEF Inv, Resume, Resumable, Of, Open
<1>3. SlotsSuffice'
  BY NobodyTakes DEF Inv, TypeOK, Holders, Resume, Resumable, Of, Open
<1>4. HoldersRun'
  BY Pairs DEF Inv, TypeOK, HoldersRun, FreshBatches, Resume, Resumable, Of, Open
<1>5. FinishedRunsRest'
  BY Pairs DEF Inv, TypeOK, HoldersRun, FinishedRunsRest, Waiting, Watched, Resume,
     Resumable, Of, Open
<1>6. FreshBatches'
  BY Pairs DEF Inv, TypeOK, FreshBatches, Resume, Resumable, Of, Open
<1>7. Waiting'
  BY Pairs DEF Inv, TypeOK, Waiting, Listed, Open, Resume, Resumable, Of
<1>8. Listed'
  BY Pairs DEF Inv, TypeOK, FreshBatches, Listed, HoldersRun, Resume, Resumable, Of, Open
<1>9. Watched'
  BY Pairs DEF Inv, TypeOK, Watched, FreshBatches, HoldersRun, Open, Resume, Resumable, Of
<1> QED
  BY <1>1, <1>2, <1>3, <1>4, <1>5, <1>6, <1>7, <1>8, <1>9 DEF Inv

LEMMA CompareKeeps ==
    ASSUME Inv, NEW s \in Scenarios, Compare(s)
    PROVE  Inv'
<1>1. TypeOK'
  BY Pairs, LabAssumption DEF Inv, TypeOK, Compare
<1>2. WithinBudget'
  BY FewerStarts DEF Inv, Compare
<1>3. SlotsSuffice'
  BY NobodyTakes DEF Inv, TypeOK, Holders, Compare
<1>4. HoldersRun'
  BY Pairs DEF Inv, TypeOK, HoldersRun, FreshBatches, Compare
<1>5. FinishedRunsRest'
  BY Pairs DEF Inv, TypeOK, HoldersRun, FinishedRunsRest, Waiting, Watched, Compare
<1>6. FreshBatches'
  BY Pairs DEF Inv, TypeOK, FreshBatches, Compare
<1>7. Waiting'
  BY Pairs DEF Inv, TypeOK, Waiting, Listed, Open, Compare
<1>8. Listed'
  BY Pairs DEF Inv, TypeOK, FreshBatches, Listed, HoldersRun, Compare
<1>9. Watched'
  BY Pairs DEF Inv, TypeOK, Watched, FreshBatches, HoldersRun, Open, Compare
<1> QED
  BY <1>1, <1>2, <1>3, <1>4, <1>5, <1>6, <1>7, <1>8, <1>9 DEF Inv

LEMMA AnswerKeeps ==
    ASSUME Inv, Answer
    PROVE  Inv'
<1>1. TypeOK'
  BY Pairs, LabAssumption DEF Inv, TypeOK, Answer
<1>2. WithinBudget'
  BY FewerStarts DEF Inv, Answer
<1>3. SlotsSuffice'
  BY NobodyTakes DEF Inv, TypeOK, Holders, Answer
<1>4. HoldersRun'
  BY Pairs DEF Inv, TypeOK, HoldersRun, FreshBatches, Answer
<1>5. FinishedRunsRest'
  BY Pairs DEF Inv, TypeOK, HoldersRun, FinishedRunsRest, Waiting, Watched, Answer
<1>6. FreshBatches'
  BY Pairs DEF Inv, TypeOK, FreshBatches, Answer
<1>7. Waiting'
  BY Pairs DEF Inv, TypeOK, Waiting, Listed, Open, Answer
<1>8. Listed'
  BY Pairs DEF Inv, TypeOK, FreshBatches, Listed, HoldersRun, Answer
<1>9. Watched'
  BY Pairs DEF Inv, TypeOK, Watched, FreshBatches, HoldersRun, Open, Answer
<1> QED
  BY <1>1, <1>2, <1>3, <1>4, <1>5, <1>6, <1>7, <1>8, <1>9 DEF Inv

LEMMA DeleteScenarioKeeps ==
    ASSUME Inv, NEW s \in Scenarios, DeleteScenario(s)
    PROVE  Inv'
<1>1. TypeOK'
  BY Pairs, LabAssumption DEF Inv, TypeOK, DeleteScenario
<1>2. WithinBudget'
  BY FewerStarts DEF Inv, DeleteScenario
<1>3. SlotsSuffice'
  BY NobodyTakes DEF Inv, TypeOK, Holders, DeleteScenario
<1>4. HoldersRun'
  BY Pairs DEF Inv, TypeOK, HoldersRun, FreshBatches, DeleteScenario
<1>5. FinishedRunsRest'
  BY Pairs DEF Inv, TypeOK, HoldersRun, FinishedRunsRest, Waiting, Watched,
     DeleteScenario
<1>6. FreshBatches'
  BY Pairs DEF Inv, TypeOK, FreshBatches, DeleteScenario
<1>7. Waiting'
  BY Pairs DEF Inv, TypeOK, Waiting, Listed, Open, DeleteScenario
<1>8. Listed'
  BY Pairs DEF Inv, TypeOK, FreshBatches, Listed, HoldersRun, DeleteScenario
<1>9. Watched'
  BY Pairs DEF Inv, TypeOK, Watched, FreshBatches, HoldersRun, Open, DeleteScenario
<1> QED
  BY <1>1, <1>2, <1>3, <1>4, <1>5, <1>6, <1>7, <1>8, <1>9 DEF Inv

LEMMA ShutdownKeeps ==
    ASSUME Inv, Shutdown
    PROVE  Inv'
<1> DEFINE A == Attempts
           toStop == Stopped(A)
<1>0. /\ runner' = toStop
      /\ toStop \in [Attempts -> {"none", "new", "running", "stopping"}]
      /\ \A x \in Attempts :
             /\ runner[x] = "none" => toStop[x] = "none"
             /\ x \in A => toStop[x] \in {"none", "stopping"}
             /\ x \notin A => toStop[x] = runner[x]
  BY StoppedFacts DEF Inv, Shutdown
<1> HIDE DEF toStop
<1>1. TypeOK'
  <2>1. stopping' \in BOOLEAN
    BY Zenon DEF Shutdown
  <2> QED BY <1>0, <2>1 DEF Inv, TypeOK, Shutdown
<1>2. WithinBudget'
  BY <1>0, FewerStarts DEF Inv, Shutdown
<1>3. SlotsSuffice'
  <2>1. Holders' \subseteq Holders /\ active' = active
    BY <1>0 DEF Shutdown, Holders
  <2> QED BY <2>1, NobodyTakes DEF Inv
<1>4. HoldersRun'
  BY <1>0, Pairs DEF Inv, TypeOK, HoldersRun, FreshBatches, Shutdown
<1>5. FinishedRunsRest'
  BY <1>0, Pairs DEF Inv, TypeOK, HoldersRun, FinishedRunsRest, Waiting, Watched,
     Shutdown
<1>6. FreshBatches'
  BY <1>0, Pairs DEF Inv, TypeOK, FreshBatches, Shutdown
<1>7. Waiting'
  BY <1>0, Pairs DEF Inv, TypeOK, Waiting, Listed, Open, Shutdown
<1>8. Listed'
  BY <1>0, Pairs DEF Inv, TypeOK, FreshBatches, Listed, HoldersRun, Shutdown
<1>9. Watched'
  BY <1>0, Pairs DEF Inv, TypeOK, Watched, FreshBatches, HoldersRun, Open, Shutdown
<1> QED
  BY <1>1, <1>2, <1>3, <1>4, <1>5, <1>6, <1>7, <1>8, <1>9 DEF Inv

LEMMA RestartKeeps ==
    ASSUME Inv, Restart
    PROVE  Inv'
<1>1. TypeOK'
  <2>1. stopping' \in BOOLEAN /\ exhausted' \in [Batches -> BOOLEAN]
    BY Zenon DEF Restart
  <2> QED BY <2>1, LabAssumption DEF Inv, TypeOK, Restart, Interrupted, Idle
<1>2. WithinBudget'
  BY FewerStarts DEF Inv, Restart, Interrupted, Idle
<1>3. SlotsSuffice'
  <2>1. Holders' = {} /\ active' = 0 /\ Cardinality({}) = 0
    BY FS_EmptySet DEF Restart, Holders, Idle
  <2> QED BY <2>1 DEF SlotsSuffice
<1>4. HoldersRun'
  BY Pairs DEF Inv, TypeOK, HoldersRun, FreshBatches, Restart, Interrupted, Idle
<1>5. FinishedRunsRest'
  BY Pairs DEF Inv, TypeOK, HoldersRun, FinishedRunsRest, Waiting, Watched, Restart,
     Interrupted, Idle
<1>6. FreshBatches'
  BY Pairs DEF Inv, TypeOK, FreshBatches, Restart, Interrupted, Idle
<1>7. Waiting'
  BY Pairs DEF Inv, TypeOK, Waiting, Listed, Open, Restart, Interrupted, Idle
<1>8. Listed'
  BY Pairs DEF Inv, TypeOK, FreshBatches, Listed, HoldersRun, Restart, Interrupted, Idle
<1>9. Watched'
  BY Pairs DEF Inv, TypeOK, Watched, FreshBatches, HoldersRun, Open, Restart, Interrupted,
     Idle
<1> QED
  BY <1>1, <1>2, <1>3, <1>4, <1>5, <1>6, <1>7, <1>8, <1>9 DEF Inv

\* The batch's loop starts what the slots and the budget allow.
LEMMA StartAttemptsKeeps ==
    ASSUME Inv, NEW b \in Batches, StartAttempts(b)
    PROVE  Inv'
<1> DEFINE ready == Startable(b)
           n    == AtMost(Cardinality(ready), AtMost(Free, Room))
           new  == FirstOf(ready, n)
           rest == {s \in todo[b] : \A t \in new : t < s}
           through == n < Free /\ (n = Cardinality(ready) \/ n = Room)
<1>1. /\ ready \in SUBSET Scenarios /\ ready \subseteq todo[b]
      /\ \A s \in Scenarios : s \in ready <=> s \in todo[b] /\ attempt[<<b, s>>] = "queued"
  BY DEF Inv, TypeOK, Startable
<1>2. IsFiniteSet(ready) /\ Cardinality(ready) \in Nat
  <2> HIDE DEF ready
  <2> QED BY <1>1, LabAssumption, FS_Subset, FS_CardinalityType
<1>3. Free \in Nat /\ Free = Parallel - active /\ active \in Nat /\ Parallel \in Nat
  BY LabAssumption DEF Inv, TypeOK, Free
<1>4. Room \in Nat /\ (run # "active" => Room = 0) /\ Room <= Budget - Cardinality(started)
  BY Sizes, LabAssumption DEF Inv, TypeOK, WithinBudget, Room, Used
<1>5. /\ n \in Nat /\ n <= Cardinality(ready) /\ n <= Free /\ n <= Room
      /\ n < Cardinality(ready) /\ n # Room => n = Free
  <2> HIDE DEF ready
  <2> QED BY <1>2, <1>3, <1>4 DEF AtMost
<1>6. /\ new \subseteq ready /\ IsFiniteSet(new) /\ Cardinality(new) \in Nat
      /\ Cardinality(new) <= n
      /\ \A s \in ready, t \in new : s \notin new => t < s
      /\ n = Cardinality(ready) => new = ready
      /\ n = 0 => new = {}
  <2> HIDE DEF ready, n
  <2> QED BY <1>1, <1>5, FirstOfFacts
<1>7. /\ attempt' = [a \in Attempts |-> IF a \in {b} \X new THEN "running" ELSE attempt[a]]
      /\ started' = started \cup {b} \X new
      /\ runner' = [a \in Attempts |-> IF a \in {b} \X new THEN "new" ELSE runner[a]]
      /\ cancelled' = cancelled \ {b} \X new
      /\ active' = active + n
      /\ job' = [job EXCEPT ![b] = IF through \/ rest = {} THEN "gathering" ELSE "waiting"]
      /\ todo' = [todo EXCEPT ![b] = IF through THEN {} ELSE rest]
      /\ exhausted' = [exhausted EXCEPT ![b] = through /\ n < Cardinality(ready)]
      /\ job[b] = "ready"
      /\ UNCHANGED <<run, usedUp, comparison, batch, stopping, restarts>>
  BY DEF StartAttempts
<1>8. rest \subseteq todo[b] /\ \A s \in ready : s \notin new => s \in rest
  <2> HIDE DEF ready, n, new
  <2> QED BY <1>1, <1>6
<1>9. through => n = Cardinality(ready) \/ (n < Cardinality(ready) /\ n = Room)
  <2> HIDE DEF ready, n
  <2> QED BY <1>2, <1>5
<1>10. \A s \in new : s \in Scenarios /\ attempt[<<b, s>>] = "queued"
  <2> HIDE DEF ready, new
  <2> QED BY <1>1, <1>6
<1> DEFINE over == through /\ n < Cardinality(ready)
           next == IF through \/ rest = {} THEN "gathering" ELSE "waiting"
           left == IF through THEN {} ELSE rest
<1>11. /\ job' = [job EXCEPT ![b] = next] /\ todo' = [todo EXCEPT ![b] = left]
       /\ exhausted' = [exhausted EXCEPT ![b] = over]
       /\ next \in {"gathering", "waiting"} /\ left \subseteq todo[b] /\ over \in BOOLEAN
  BY <1>7, <1>8
\* What it leaves queued is in the list, or it has found the budget used up.
<1>12. ASSUME NEW s \in ready, s \notin new
       PROVE  (next = "waiting" /\ s \in left) \/ (next = "gathering" /\ over)
  <2>1. s \in rest /\ n # Cardinality(ready)
    <3> HIDE DEF ready, n, new, rest
    <3> QED BY <1>6, <1>8, <1>12
  <2>2. CASE through
    <3>1. n < Cardinality(ready)
      BY <1>9, <2>1, <2>2
    <3> QED BY <2>2, <3>1
  <2>3. CASE ~through
    <3>1. rest # {}
      <4> HIDE DEF rest
      <4> QED BY <2>1
    <3>2. next = "waiting" /\ left = rest
      <4> HIDE DEF rest, through
      <4> QED BY <2>3, <3>1, Zenon
    <3> HIDE DEF rest, through, next, left, over
    <3> QED BY <2>1, <3>2
  <2> QED BY <2>2, <2>3
<1> HIDE DEF ready, n, new, rest, through, over, next, left
<1>13. \A a \in Attempts :
           /\ a[1] = b /\ a[2] \in new => attempt'[a] = "running" /\ runner'[a] = "new"
           /\ ~(a[1] = b /\ a[2] \in new) =>
                  attempt'[a] = attempt[a] /\ runner'[a] = runner[a]
  <2>1. new \in SUBSET Scenarios
    BY <1>10
  <2> QED BY <1>7, <2>1, Pairs
<1>14. Cardinality(started') <= Budget
  <2>1. Cardinality(started) \in Nat /\ IsFiniteSet(started)
    BY Sizes DEF Inv
  <2>2. /\ Cardinality(started') \in Nat
        /\ Cardinality(started') <= Cardinality(started) + Cardinality(new)
    BY <1>6, <1>7, <2>1, Joined
  <2> QED BY <1>4, <1>5, <1>6, <2>1, <2>2, LabAssumption
<1>15. SlotsSuffice'
  <2>1. Holders' \subseteq Holders \cup {b} \X new
    BY <1>7 DEF Holders
  <2>2. Cardinality(Holders) \in Nat /\ IsFiniteSet(Holders)
    BY Sizes DEF Inv
  <2> DEFINE most == Holders \cup {b} \X new
  <2>3. /\ IsFiniteSet(most) /\ Cardinality(most) \in Nat
        /\ Cardinality(most) <= Cardinality(Holders) + Cardinality(new)
    BY <1>6, <2>2, Joined
  <2> HIDE DEF most
  <2>4. Cardinality(Holders') \in Nat /\ Cardinality(Holders') <= Cardinality(most)
    BY <2>1, <2>3, FS_Subset, FS_CardinalityType DEF most
  <2>5. Cardinality(Holders) <= active
    BY DEF Inv, SlotsSuffice
  <2>6. Cardinality(Holders') <= active'
    BY <1>3, <1>5, <1>6, <1>7, <2>2, <2>3, <2>4, <2>5
  <2> QED BY <2>6 DEF SlotsSuffice
<1>16. TypeOK'
  <2>1. attempt' \in [Attempts -> {"none", "queued", "running", "interrupted"} \cup Ended]
    BY <1>7 DEF Inv, TypeOK
  <2>2. started' \subseteq {x \in Attempts : attempt'[x] # "none"}
    <3>1. \A x \in started : x \in Attempts /\ attempt[x] # "none"
      BY DEF Inv, TypeOK
    <3>2. \A x \in {b} \X new : x \in Attempts /\ attempt'[x] = "running"
      BY <1>7, <1>10, Pairs
    <3>3. \A x \in started : attempt'[x] # "none"
      BY <1>7, <3>1
    <3> QED BY <1>7, <3>1, <3>2, <3>3
  <2>3. runner' \in [Attempts -> {"none", "new", "running", "stopping"}]
    BY <1>7 DEF Inv, TypeOK
  <2>4. active' \in 0 .. Parallel
    BY <1>3, <1>5, <1>7
  <2>5. exhausted' \in [Batches -> BOOLEAN]
    BY <1>11, Zenon DEF Inv, TypeOK
  <2>6. todo' \in [Batches -> SUBSET Scenarios]
    BY <1>11 DEF Inv, TypeOK
  <2>7. job' \in [Batches -> {"none", "new", "ready", "waiting", "gathering"}]
    BY <1>11 DEF Inv, TypeOK
  <2>8. cancelled' \subseteq Attempts
    BY <1>7 DEF Inv, TypeOK
  <2> QED BY <1>7, <2>1, <2>2, <2>3, <2>4, <2>5, <2>6, <2>7, <2>8 DEF Inv, TypeOK
<1>17. WithinBudget'
  BY <1>14 DEF WithinBudget
<1>18. HoldersRun'
  BY <1>13 DEF Inv, HoldersRun
<1>19. FinishedRunsRest'
  <2>1. run = "finished" => new = {}
    BY <1>4, <1>5, <1>6
  <2> QED BY <1>7, <1>13, <2>1 DEF Inv, FinishedRunsRest
<1>20. FreshBatches'
  <2>1. batch[b] # "none"
    BY <1>7 DEF Inv, FreshBatches
  <2> QED BY <1>7, <1>11, <1>13, <2>1 DEF Inv, TypeOK, FreshBatches
<1>21. Waiting'
  BY <1>7, <1>13 DEF Inv, Waiting
<1>22. Listed'
  <2> SUFFICES ASSUME ~stopping, NEW a \in Attempts
               PROVE  /\ attempt'[a] = "interrupted" => job'[a[1]] = "none"
                      /\ attempt'[a] = "queued" =>
                             \/ job'[a[1]] = "new"
                             \/ job'[a[1]] \in {"ready", "waiting"} /\ a[2] \in todo'[a[1]]
                             \/ job'[a[1]] = "gathering" /\ exhausted'[a[1]]
    BY <1>7 DEF Listed
  <2>1. CASE a[1] # b
    BY <1>11, <1>13, <2>1, Pairs DEF Inv, TypeOK, Listed
  <2>2. CASE a[1] = b
    <3>1. attempt[a] # "interrupted" /\ attempt'[a] # "interrupted"
      BY <1>7, <1>13, <2>2 DEF Inv, Listed
    <3>2. ASSUME attempt'[a] = "queued"
          PROVE  a[2] \in ready /\ a[2] \notin new
      BY <1>1, <1>7, <1>13, <2>2, <3>2, Pairs DEF Inv, Listed
    <3>3. job'[b] = next /\ todo'[b] = left /\ exhausted'[b] = over
      BY <1>11 DEF Inv, TypeOK
    <3> QED BY <1>12, <2>2, <3>1, <3>2, <3>3
  <2> QED BY <2>1, <2>2
<1>23. Watched'
  BY <1>7, <1>10, <1>13, Pairs DEF Inv, Watched, Waiting
<1> QED
  BY <1>15, <1>16, <1>17, <1>18, <1>19, <1>20, <1>21, <1>22, <1>23 DEF Inv

-----------------------------------------------------------------------------
(* Theorems *)

LEMMA Step == ASSUME Inv, Next PROVE Inv'
<1>1. ASSUME NEW b \in Batches, Submit(b) \/ BatchStep(b) \/ CancelBatch(b) \/ Resume(b)
      PROVE  Inv'
  BY <1>1, SubmitKeeps, BatchBeginsKeeps, StartAttemptsKeeps, BatchEndsKeeps,
     CancelBatchKeeps, ResumeKeeps DEF BatchStep
<1>2. ASSUME NEW a \in Attempts, AttemptStep(a)
      PROVE  Inv'
  BY <1>2, AttemptBeginsKeeps, AttemptEndsKeeps, AttemptStopsKeeps DEF AttemptStep
<1>3. ASSUME NEW s \in Scenarios, Compare(s) \/ DeleteScenario(s)
      PROVE  Inv'
  BY <1>3, CompareKeeps, DeleteScenarioKeeps
<1>4. CASE UseUp \/ StopRun \/ Answer \/ Shutdown \/ Restart
  BY <1>4, UseUpKeeps, StopRunKeeps, AnswerKeeps, ShutdownKeeps, RestartKeeps
<1> QED BY <1>1, <1>2, <1>3, <1>4 DEF Next

LEMMA Stutter == ASSUME Inv, UNCHANGED vars PROVE Inv'
<1>1. Holders' = Holders /\ TypeOK'
  BY DEF Inv, vars, Holders, TypeOK
<1>2. WithinBudget' /\ SlotsSuffice'
  BY <1>1 DEF Inv, vars, WithinBudget, SlotsSuffice
<1>3. HoldersRun' /\ FinishedRunsRest'
  BY DEF Inv, vars, HoldersRun, FinishedRunsRest
<1>4. FreshBatches' /\ Waiting' /\ Listed' /\ Watched'
  BY DEF Inv, vars, FreshBatches, Waiting, Listed, Watched
<1> QED BY <1>1, <1>2, <1>3, <1>4 DEF Inv

\* The inductive invariant holds in every state of the executor.
THEOREM Invariance == Spec => []Inv
<1>1. Inv /\ [Next]_vars => Inv'
  BY Step, Stutter
<1> QED BY <1>1, InvInit, PTL DEF Spec

\* However batches are submitted, cancelled, resumed, stopped and restarted,
\* what runs was started within the budget and holds a slot, and nothing of a
\* finished run waits.
THEOREM LimitsKept == Spec => []WorkIsWithinLimits
<1>1. Inv => WorkIsWithinLimits
  BY DEF Inv, WorkIsWithinLimits, SlotsSuffice, Holders, HoldersRun, RunnersHaveSlots
<1> QED BY <1>1, Invariance, PTL

\* What an action does to the attempts that are over.
LEMMA OverStays ==
    ASSUME Inv, [Next]_vars, NEW a \in Attempts, attempt[a] \in Ended
    PROVE  attempt'[a] \in {attempt[a], "none"}
<1>1. attempt[a] \notin {"none", "queued", "running", "interrupted"} /\ runner[a] = "none"
  BY DEF Inv, HoldersRun, Ended, TypeOK
<1>2. ASSUME NEW b \in Batches, Submit(b) \/ BatchStep(b) \/ CancelBatch(b) \/ Resume(b)
      PROVE  attempt'[a] \in {attempt[a], "none"}
  <2>1. CASE Submit(b)
    <3>1. a[1] # b
      BY <1>1, <2>1 DEF Inv, FreshBatches, Submit
    <3> QED BY <2>1, <3>1 DEF Submit, Inv, TypeOK
  <2>2. CASE BatchBegins(b) \/ BatchEnds(b)
    BY <1>1, <2>2 DEF BatchBegins, BatchEnds, Inv, TypeOK
  <2>3. CASE StartAttempts(b)
    <3> DEFINE ready == Startable(b)
               new == FirstOf(ready, AtMost(Cardinality(ready), AtMost(Free, Room)))
    <3>1. new \subseteq ready
      BY DEF FirstOf
    <3>2. attempt' = [x \in Attempts |-> IF x \in {b} \X new THEN "running" ELSE attempt[x]]
      BY <2>3 DEF StartAttempts
    <3>3. a \notin {b} \X new
      <4> HIDE DEF new
      <4> QED BY <1>1, <3>1 DEF Startable
    <3> HIDE DEF new
    <3> QED BY <3>2, <3>3
  <2>4. CASE CancelBatch(b)
    BY <1>1, <2>4 DEF CancelBatch, CancelAll
  <2>5. CASE Resume(b)
    BY <1>1, <2>5 DEF Resume, Resumable
  <2> QED BY <1>2, <2>1, <2>2, <2>3, <2>4, <2>5 DEF BatchStep
<1>3. ASSUME NEW x \in Attempts, AttemptStep(x)
      PROVE  attempt'[a] \in {attempt[a], "none"}
  BY <1>1, <1>3 DEF AttemptStep, AttemptBegins, AttemptEnds, AttemptStops, Mark, Inv, TypeOK
<1>4. ASSUME NEW s \in Scenarios, Compare(s) \/ DeleteScenario(s)
      PROVE  attempt'[a] \in {attempt[a], "none"}
  BY <1>4 DEF Compare, DeleteScenario
<1>5. CASE UseUp \/ StopRun \/ Answer \/ Shutdown \/ Restart \/ UNCHANGED vars
  BY <1>1, <1>5 DEF UseUp, StopRun, CancelAll, Answer, Shutdown, Restart, Interrupted, vars
<1> QED BY <1>2, <1>3, <1>4, <1>5 DEF Next

\* A result is not taken back by a cancellation, a resumption or a restart.
THEOREM ResultsKept == Spec => ResultsStay
<1>1. Inv /\ [Next]_vars =>
          [\A a \in Attempts : attempt[a] \in Ended => attempt'[a] \in {attempt[a], "none"}]_vars
  BY OverStays
<1> QED BY <1>1, Invariance, PTL DEF Spec, ResultsStay

-----------------------------------------------------------------------------
(* Sums *)

\* The partial sums of a sequence of numbers
PartialSums(g, t, n) == g = [m \in 0 .. n |-> IF m = 0 THEN 0 ELSE g[m - 1] + t[m]]

LEMMA PartialSumsExist ==
    ASSUME NEW t, NEW n \in Nat
    PROVE  \E g : PartialSums(g, t, n)
<1> DEFINE S == {m \in Nat : ~\E g : PartialSums(g, t, m)}
<1>1. \E g : PartialSums(g, t, 0)
  <2> DEFINE g == [m \in 0 .. 0 |-> 0]
  <2>1. PartialSums(g, t, 0)
    BY DEF PartialSums
  <2> QED BY <2>1
<1>2. ASSUME NEW m \in Nat, NEW g, PartialSums(g, t, m)
      PROVE  \E h : PartialSums(h, t, m + 1)
  <2> DEFINE h == [k \in 0 .. m + 1 |-> IF k = m + 1 THEN g[m] + t[m + 1] ELSE g[k]]
  <2>1. ASSUME NEW k \in 0 .. m + 1
        PROVE  h[k] = IF k = 0 THEN 0 ELSE h[k - 1] + t[k]
    <3>1. CASE k = m + 1
      <4>1. k - 1 = m /\ m \in 0 .. m + 1 /\ m # m + 1 /\ k # 0
        BY <3>1
      <4> QED BY <3>1, <4>1
    <3>2. CASE k # m + 1
      <4>1. k \in 0 .. m /\ (k # 0 => k - 1 \in 0 .. m + 1 /\ k - 1 # m + 1)
        BY <3>2
      <4>2. g[k] = IF k = 0 THEN 0 ELSE g[k - 1] + t[k]
        BY <1>2, <4>1 DEF PartialSums
      <4> QED BY <3>2, <4>1, <4>2
    <3> QED BY <3>1, <3>2
  <2>2. h = [k \in 0 .. m + 1 |-> h[k]]
    OBVIOUS
  <2> HIDE DEF h
  <2>3. h = [k \in 0 .. m + 1 |-> IF k = 0 THEN 0 ELSE h[k - 1] + t[k]]
    BY <2>1, <2>2
  <2> QED BY <2>3 DEF PartialSums
<1>3. S = {}
  <2> SUFFICES ASSUME S # {} PROVE FALSE
    OBVIOUS
  <2>1. PICK m \in S : \A k \in S : m <= k
    <3>1. S \in SUBSET Nat
      OBVIOUS
    <3> HIDE DEF S
    <3> QED BY <3>1, LeastNat
  <2>2. m \in Nat /\ m # 0
    BY <1>1
  <2>3. m - 1 \in Nat /\ m - 1 \notin S /\ (m - 1) + 1 = m
    BY <2>1, <2>2
  <2>4. \E g : PartialSums(g, t, m - 1)
    BY <2>3
  <2>5. \E h : PartialSums(h, t, m)
    BY <1>2, <2>3, <2>4
  <2> QED BY <2>1, <2>5
<1> QED BY <1>3

LEMMA SumIsPartial ==
    ASSUME NEW t, Len(t) \in Nat
    PROVE  \E g : PartialSums(g, t, Len(t)) /\ SumOf(t) = g[Len(t)]
<1> DEFINE sum[n \in 0 .. Len(t)] == IF n = 0 THEN 0 ELSE sum[n - 1] + t[n]
<1>1. sum = CHOOSE f : f = [n \in 0 .. Len(t) |-> IF n = 0 THEN 0 ELSE f[n - 1] + t[n]]
  BY Zenon
<1>2. SumOf(t) = sum[Len(t)]
  BY Zenon DEF SumOf
<1> HIDE DEF sum
<1>3. \E f : f = [n \in 0 .. Len(t) |-> IF n = 0 THEN 0 ELSE f[n - 1] + t[n]]
  <2>1. \E f : PartialSums(f, t, Len(t))
    BY PartialSumsExist
  <2> QED BY <2>1, Zenon DEF PartialSums
<1>4. sum = [n \in 0 .. Len(t) |-> IF n = 0 THEN 0 ELSE sum[n - 1] + t[n]]
  BY <1>1, <1>3, Zenon
<1> QED BY <1>2, <1>4, Zenon DEF PartialSums

\* Sequences that are the same up to n, but perhaps in one place
SameBut(t, u, n, i) == \A j \in 1 .. n : j # i => u[j] = t[j]

\* Sequences that differ in one place have sums that differ by as much.
LEMMA SumsDiffer ==
    ASSUME NEW n \in Nat, NEW t \in [1 .. n -> Int], NEW u \in [1 .. n -> Int],
           NEW g, NEW h, PartialSums(g, t, n), PartialSums(h, u, n),
           NEW i \in 1 .. n + 1, SameBut(t, u, n, i)
    PROVE  /\ g[n] \in Int /\ h[n] \in Int
           /\ i <= n => h[n] = g[n] + (u[i] - t[i])
           /\ i > n => h[n] = g[n]
<1> DEFINE Good(m) == /\ g[m] \in Int /\ h[m] \in Int
                      /\ h[m] = IF i <= m THEN g[m] + (u[i] - t[i]) ELSE g[m]
           S == {m \in 0 .. n : ~Good(m)}
<1>0. \A j \in 1 .. n : j # i => u[j] = t[j]
  BY DEF SameBut
<1>1. \A m \in 0 .. n : /\ g[m] = IF m = 0 THEN 0 ELSE g[m - 1] + t[m]
                        /\ h[m] = IF m = 0 THEN 0 ELSE h[m - 1] + u[m]
  BY DEF PartialSums
<1>2. Good(0)
  BY <1>1
<1>3. ASSUME NEW m \in 1 .. n, Good(m - 1) PROVE Good(m)
  <2>1. g[m] = g[m - 1] + t[m] /\ h[m] = h[m - 1] + u[m] /\ t[m] \in Int /\ u[m] \in Int
    BY <1>1
  <2>2. CASE m < i
    BY <1>0, <1>3, <2>1, <2>2
  <2>3. CASE m = i
    BY <1>3, <2>1, <2>3
  <2>4. CASE m > i
    <3>1. i \in 1 .. n /\ t[i] \in Int /\ u[i] \in Int /\ u[m] = t[m]
      BY <1>0, <2>4
    <3>2. i <= m - 1 /\ i <= m
      BY <2>4
    <3>3. g[m - 1] \in Int /\ h[m - 1] = g[m - 1] + (u[i] - t[i])
      BY <1>3, <3>2
    <3>4. g[m] \in Int /\ h[m] \in Int /\ h[m] = g[m] + (u[i] - t[i])
      BY <2>1, <3>1, <3>3
    <3> QED BY <3>2, <3>4
  <2> QED BY <2>2, <2>3, <2>4
<1>4. S = {}
  <2> SUFFICES ASSUME S # {} PROVE FALSE
    OBVIOUS
  <2>1. PICK m \in S : \A k \in S : m <= k
    <3>1. S \in SUBSET Nat
      OBVIOUS
    <3> HIDE DEF S
    <3> QED BY <3>1, LeastNat
  <2> HIDE DEF Good
  <2>2. m \in 1 .. n /\ m - 1 \in 0 .. n /\ ~(m <= m - 1)
    BY <1>2, <2>1
  <2>3. Good(m - 1)
    BY <2>1, <2>2
  <2> QED BY <1>3, <2>1, <2>2, <2>3
<1> HIDE DEF Good
<1>5. Good(n)
  BY <1>4
<1> QED BY <1>5 DEF Good

LEMMA SumOfNothing == SumOf(<< >>) = 0
<1>1. Len(<< >>) = 0
  OBVIOUS
<1>2. PICK g : PartialSums(g, << >>, 0) /\ SumOf(<< >>) = g[0]
  BY <1>1, SumIsPartial
<1> QED BY <1>2 DEF PartialSums

\* One number more
LEMMA SumOfMore ==
    ASSUME NEW n \in Nat, NEW t \in [1 .. n -> Int], NEW u \in [1 .. n + 1 -> Int],
           \A j \in 1 .. n : u[j] = t[j]
    PROVE  SumOf(t) \in Int /\ SumOf(u) = SumOf(t) + u[n + 1]
<1>1. Len(t) = n /\ Len(u) = n + 1 /\ n + 1 \in Nat
  OBVIOUS
<1>2. PICK g : PartialSums(g, t, n) /\ SumOf(t) = g[n]
  BY <1>1, SumIsPartial
<1>3. PICK h : PartialSums(h, u, n + 1) /\ SumOf(u) = h[n + 1]
  BY <1>1, SumIsPartial
<1> DEFINE h0 == [m \in 0 .. n |-> h[m]]
           u0 == [j \in 1 .. n |-> u[j]]
<1>4. \A m \in 0 .. n + 1 : h[m] = IF m = 0 THEN 0 ELSE h[m - 1] + u[m]
  BY <1>3 DEF PartialSums
<1>5. PartialSums(h0, u0, n)
  <2>1. ASSUME NEW m \in 0 .. n PROVE h0[m] = IF m = 0 THEN 0 ELSE h0[m - 1] + u0[m]
    BY <1>4
  <2>2. h0 = [m \in 0 .. n |-> h0[m]]
    OBVIOUS
  <2> HIDE DEF h0, u0
  <2> QED BY <2>1, <2>2 DEF PartialSums
<1>6. u0 \in [1 .. n -> Int] /\ n + 1 \in 1 .. n + 1 /\ \A j \in 1 .. n : u0[j] = t[j]
  OBVIOUS
<1>7. g[n] \in Int /\ h0[n] = g[n]
  <2>1. SameBut(t, u0, n, n + 1) /\ n + 1 > n
    BY <1>6 DEF SameBut
  <2> HIDE DEF h0, u0
  <2> QED BY <1>2, <1>5, <1>6, <2>1, SumsDiffer
<1>8. h[n + 1] = h[n] + u[n + 1] /\ h0[n] = h[n]
  BY <1>4
<1> QED BY <1>2, <1>3, <1>7, <1>8

\* One number is another
LEMMA SumOfChanged ==
    ASSUME NEW n \in Nat, NEW t \in [1 .. n -> Int], NEW u \in [1 .. n -> Int],
           NEW i \in 1 .. n, \A j \in 1 .. n : j # i => u[j] = t[j]
    PROVE  SumOf(t) \in Int /\ SumOf(u) = SumOf(t) + (u[i] - t[i])
<1>1. Len(t) = n /\ Len(u) = n
  OBVIOUS
<1>2. PICK g : PartialSums(g, t, n) /\ SumOf(t) = g[n]
  BY <1>1, SumIsPartial
<1>3. PICK h : PartialSums(h, u, n) /\ SumOf(u) = h[n]
  BY <1>1, SumIsPartial
<1>4. i \in 1 .. n + 1 /\ i <= n
  OBVIOUS
<1>5. SameBut(t, u, n, i)
  BY DEF SameBut
<1>6. g[n] \in Int /\ h[n] = g[n] + (u[i] - t[i])
  BY <1>2, <1>3, <1>4, <1>5, SumsDiffer
<1> QED BY <1>2, <1>3, <1>6

-----------------------------------------------------------------------------
(* Settings *)

LEMMA ConstantTypes ==
    /\ \A v \in 0 .. MaxVersion : \A k \in Keys :
          /\ Accepts[v][k] \subseteq Values
          /\ Default[v][k] \in Values
          /\ Default[v][k] \in Accepts[v][k]
    /\ Values \subseteq Nat /\ NoRow \notin Values
    /\ DOMAIN Seed \subseteq Keys
    /\ Default[0] \in [Keys -> Values] /\ 0 \in 0 .. MaxVersion
    /\ MaxOthers \in Nat
<1>1. Accepts \in [0 .. MaxVersion -> [Keys -> SUBSET Values]]
      /\ Default \in [0 .. MaxVersion -> [Keys -> Values]]
      /\ \A v \in 0 .. MaxVersion, k \in Keys : Default[v][k] \in Accepts[v][k]
  BY SettingsAssumption
<1>2. Values \subseteq Nat /\ MaxVersion \in Nat /\ MaxOthers \in Nat /\ DOMAIN Seed \subseteq Keys
  BY SettingsAssumption
<1>3. ASSUME NEW v \in 0 .. MaxVersion, NEW k \in Keys
      PROVE  Accepts[v][k] \subseteq Values /\ Default[v][k] \in Values
             /\ Default[v][k] \in Accepts[v][k]
  <2>1. Accepts[v] \in [Keys -> SUBSET Values] /\ Default[v] \in [Keys -> Values]
    BY <1>1
  <2> QED BY <1>1, <2>1
<1>4. 0 \in 0 .. MaxVersion /\ NoRow \notin Values
  BY <1>2 DEF NoRow
<1> QED BY <1>1, <1>2, <1>3, <1>4

\* Rows of the table, reloaded
LEMMA ReloadedTypes ==
    ASSUME NEW table, NEW v \in 0 .. MaxVersion
    PROVE  Reloaded(table, v) \in [Keys -> Values]
<1>1. ASSUME NEW k \in Keys
      PROVE  (IF table[k] \in Accepts[v][k] THEN table[k] ELSE Default[v][k]) \in Values
  BY ConstantTypes
<1> QED BY <1>1 DEF Reloaded

\* The part of the state the settings are
StoredOK ==
    /\ stored \in [Keys -> Row]
    /\ live \in [Keys -> Values]
    /\ last \in [Keys -> {NoEntry} \cup [old : Row, new : Row]]

\* Rows that are stored: the values in memory and the history follow.
LEMMA StoreEffect ==
    ASSUME StoredOK, LiveIsExplained, version \in 0 .. MaxVersion,
           NEW K \in SUBSET Keys, NEW table \in [K -> Row], Store(table)
    PROVE  /\ StoredOK' /\ live' = Reloaded(stored', version)
           /\ \A k \in Keys : last'[k] # NoEntry => last'[k].new = stored'[k]
           /\ \A k \in Keys \ K : live'[k] = live[k]
           /\ \A k \in K : stored'[k] = table[k]
<1>1. DOMAIN table = K /\ \A k \in K : table[k] \in Row
  OBVIOUS
<1>2. /\ stored \in [Keys -> Row] /\ live = Reloaded(stored, version)
      /\ last \in [Keys -> {NoEntry} \cup [old : Row, new : Row]]
      /\ \A k \in Keys : last[k] # NoEntry => last[k].new = stored[k]
  BY DEF StoredOK, LiveIsExplained
<1>3. /\ stored' = [k \in Keys |-> IF k \in K THEN table[k] ELSE stored[k]]
      /\ live' = Reloaded(stored', version)
  BY <1>1 DEF Store, Over
<1>4. /\ stored' \in [Keys -> Row]
      /\ \A k \in K : stored'[k] = table[k]
      /\ \A k \in Keys \ K : stored'[k] = stored[k]
  BY <1>1, <1>2, <1>3
<1>5. live' \in [Keys -> Values]
  BY <1>3, ReloadedTypes
<1>6. ASSUME NEW k \in Keys \ K PROVE live'[k] = live[k]
  BY <1>2, <1>3, <1>4 DEF Reloaded
<1>7. PICK changed \in SUBSET K :
        /\ \A k \in K : k \in changed <=> table[k] # stored[k]
        /\ last' = [k \in Keys |-> IF k \in changed THEN Entry(k, table[k]) ELSE last[k]]
  <2>1. last' = [k \in Keys |-> IF k \in {j \in DOMAIN table : table[j] # stored[j]}
                                THEN Entry(k, table[k]) ELSE last[k]]
    BY DEF Store
  <2>2. {j \in DOMAIN table : table[j] # stored[j]} \in SUBSET K
    BY <1>1
  <2> QED BY <1>1, <2>1, <2>2
<1>8. ASSUME NEW k \in Keys
      PROVE  /\ last'[k] \in {NoEntry} \cup [old : Row, new : Row]
             /\ last'[k] # NoEntry => last'[k].new = stored'[k]
  <2>1. CASE k \in changed
    <3>1. last'[k] = [old |-> stored[k], new |-> table[k]] /\ k \in K
      BY <1>7, <2>1 DEF Entry
    <3>2. stored[k] \in Row /\ table[k] \in Row
      BY <1>1, <1>2, <3>1
    <3>3. last'[k].new = stored'[k]
      BY <1>4, <3>1
    <3> QED BY <3>1, <3>2, <3>3
  <2>2. CASE k \notin changed
    <3>1. last'[k] = last[k] /\ stored'[k] = stored[k]
      BY <1>4, <1>7, <2>2
    <3> QED BY <1>2, <3>1
  <2> QED BY <2>1, <2>2
<1>9. last' \in [Keys -> {NoEntry} \cup [old : Row, new : Row]]
  <2>1. \A k \in Keys : last'[k] \in {NoEntry} \cup [old : Row, new : Row]
    BY <1>8
  <2>2. last' = [k \in Keys |-> last'[k]]
    BY <1>7
  <2> QED BY <2>1, <2>2
<1>10. StoredOK'
  BY <1>4, <1>5, <1>9 DEF StoredOK
<1> QED BY <1>3, <1>4, <1>6, <1>8, <1>10

\* Values that are set are the values in memory, and no other changes.
LEMMA SetManyEffect ==
    ASSUME StoredOK, LiveIsExplained, version \in 0 .. MaxVersion,
           NEW values, DOMAIN values \subseteq Keys, SetMany(values)
    PROVE  /\ StoredOK' /\ live' = Reloaded(stored', version)
           /\ \A k \in Keys : last'[k] # NoEntry => last'[k].new = stored'[k]
           /\ \A k \in Keys \ DOMAIN values : live'[k] = live[k]
           /\ \A k \in DOMAIN values : values[k] \in Values /\ live'[k] = values[k]
<1> DEFINE K == DOMAIN values
           table == [k \in K |-> RowOf(k, values[k])]
<1>1. Store(table) /\ K \in SUBSET Keys
  BY DEF SetMany
<1>2. \A k \in K : values[k] \in Accepts[version][k] /\ values[k] \in Values
  BY <1>1, ConstantTypes DEF SetMany, Valid
<1>3. \A k \in K : table[k] = IF values[k] = Default[version][k] THEN NoRow ELSE values[k]
  BY DEF RowOf
<1>4. table \in [K -> Row]
  <2>1. \A k \in K : RowOf(k, values[k]) \in Row
    BY <1>2 DEF RowOf, Row
  <2> QED BY <2>1
<1> HIDE DEF table
<1> HIDE DEF K
<1>5. /\ StoredOK' /\ live' = Reloaded(stored', version)
      /\ \A k \in Keys : last'[k] # NoEntry => last'[k].new = stored'[k]
      /\ \A k \in Keys \ K : live'[k] = live[k]
      /\ \A k \in K : stored'[k] = table[k]
  BY <1>1, <1>4, StoreEffect
<1>6. ASSUME NEW k \in K PROVE live'[k] = values[k]
  <2>1. k \in Keys
    BY <1>1
  <2>2. live'[k] = IF table[k] \in Accepts[version][k] THEN table[k] ELSE Default[version][k]
    BY <1>5, <2>1 DEF Reloaded
  <2>3. Accepts[version][k] \subseteq Values /\ NoRow \notin Values
    BY <2>1, ConstantTypes
  <2> QED BY <1>2, <1>3, <2>2, <2>3
<1> QED BY <1>2, <1>5, <1>6 DEF K

-----------------------------------------------------------------------------
(* Activation *)

\* Nothing is activated, and nobody else has changed a setting, before the
\* database is seeded.
NothingBeforeTheSeed ==
    /\ seeded <=> Up
    /\ ~Up => others = {} /\ activations = << >>

ActivationInv ==
    /\ ActivationTypeOK
    /\ LiveIsExplained
    /\ NothingBeforeTheSeed
    /\ RevertsAddUp

LEMMA StoredPart == ActivationTypeOK => StoredOK /\ version \in 0 .. MaxVersion
BY DEF ActivationTypeOK, SettingsTypeOK, StoredOK

\* An activation's settings are settings, with values before and after.
LEMMA ActivationParts ==
    ASSUME NEW a \in Activation, DOMAIN a.applied = DOMAIN a.previous
    PROVE  /\ DOMAIN a.applied \subseteq Keys
           /\ a.reverted \in BOOLEAN
           /\ \A k \in DOMAIN a.applied : a.applied[k] \in Nat /\ a.previous[k] \in Nat
<1>1. a.applied \in Changes(Scope) /\ a.previous \in Changes(Scope) /\ a.reverted \in BOOLEAN
  BY DEF Activation
<1>2. PICK K \in SUBSET Scope : a.applied \in [K -> Values]
  BY <1>1 DEF Changes
<1>3. PICK L \in SUBSET Scope : a.previous \in [L -> Values]
  BY <1>1 DEF Changes
<1>4. DOMAIN a.applied = K /\ K = L
  BY <1>2, <1>3
<1>5. K \subseteq Keys
  BY <1>2, ActivationAssumption DEF Scope
<1> QED BY <1>1, <1>2, <1>3, <1>4, <1>5, ConstantTypes

LEMMA AddedIsInt ==
    ASSUME NEW a \in Activation, DOMAIN a.applied = DOMAIN a.previous, NEW k
    PROVE  Added(a, k) \in Int
<1>1. CASE ~a.reverted /\ k \in DOMAIN a.applied
  <2>1. a.applied[k] \in Nat /\ a.previous[k] \in Nat
    BY <1>1, ActivationParts
  <2> QED BY <1>1, <2>1 DEF Added
<1>2. CASE ~(~a.reverted /\ k \in DOMAIN a.applied)
  BY <1>2 DEF Added
<1> QED BY <1>1, <1>2

\* What each activation adds to a setting
AddedBy(log, k) == [i \in 1 .. Len(log) |-> Added(log[i], k)]

LEMMA AddedTypes ==
    ASSUME ActivationTypeOK, NEW k
    PROVE  /\ Len(activations) \in Nat
           /\ AddedBy(activations, k) \in [1 .. Len(activations) -> Int]
           /\ \A i \in 1 .. Len(activations) :
                 /\ activations[i] \in Activation
                 /\ DOMAIN activations[i].applied = DOMAIN activations[i].previous
           /\ DOMAIN activations = 1 .. Len(activations)
           /\ Shift(k) = SumOf(AddedBy(activations, k))
<1>1. /\ activations \in Seq(Activation)
      /\ \A i \in DOMAIN activations : DOMAIN activations[i].applied = DOMAIN activations[i].previous
  BY DEF ActivationTypeOK
<1>2. Len(activations) \in Nat /\ DOMAIN activations = 1 .. Len(activations)
      /\ \A i \in 1 .. Len(activations) : activations[i] \in Activation
  BY <1>1
<1>3. \A i \in 1 .. Len(activations) : Added(activations[i], k) \in Int
  BY <1>1, <1>2, AddedIsInt
<1> QED BY <1>1, <1>2, <1>3 DEF Shift, AddedBy

LEMMA ShiftIsInt ==
    ASSUME ActivationTypeOK, NEW k
    PROVE  Shift(k) \in Int
<1> DEFINE n == Len(activations)
           t == AddedBy(activations, k)
           u == [j \in 1 .. n + 1 |-> IF j <= n THEN t[j] ELSE 0]
<1>1. n \in Nat /\ t \in [1 .. n -> Int] /\ Shift(k) = SumOf(t)
  BY AddedTypes
<1>2. \A j \in 1 .. n : t[j] \in Int
  BY <1>1
<1> HIDE DEF n, t
<1>3. u \in [1 .. n + 1 -> Int]
  BY <1>1, <1>2
<1>4. \A j \in 1 .. n : u[j] = t[j]
  BY <1>1
<1> HIDE DEF u
<1> QED BY <1>1, <1>3, <1>4, SumOfMore

\* An activation more adds what it adds.
LEMMA ShiftOfActivation ==
    ASSUME ActivationTypeOK, NEW k, NEW a \in Activation,
           DOMAIN a.applied = DOMAIN a.previous,
           activations' = Append(activations, a)
    PROVE  Shift(k)' = Shift(k) + Added(a, k)
<1> DEFINE n == Len(activations)
           t == AddedBy(activations, k)
           u == AddedBy(activations', k)
<1>1. n \in Nat /\ t \in [1 .. n -> Int] /\ Shift(k) = SumOf(t) /\ activations \in Seq(Activation)
  BY AddedTypes DEF ActivationTypeOK
<1>2. /\ Len(activations') = n + 1 /\ activations'[n + 1] = a
      /\ \A j \in 1 .. n : activations'[j] = activations[j]
  BY <1>1
<1>3. Added(a, k) \in Int
  BY AddedIsInt
<1>4. ASSUME NEW j \in 1 .. n PROVE u[j] = t[j]
  BY <1>1, <1>2 DEF AddedBy
<1>5. u[n + 1] = Added(a, k)
  BY <1>1, <1>2 DEF AddedBy
<1>6. u \in [1 .. n + 1 -> Int]
  <2>1. u = [j \in 1 .. n + 1 |-> Added(activations'[j], k)]
    BY <1>2 DEF AddedBy
  <2>2. ASSUME NEW j \in 1 .. n + 1 PROVE u[j] \in Int
    <3>1. CASE j \in 1 .. n
      BY <1>1, <1>4, <3>1
    <3>2. CASE j \notin 1 .. n
      <4>1. j = n + 1
        BY <1>1, <3>2
      <4> QED BY <1>3, <1>5, <4>1
    <3> QED BY <3>1, <3>2
  <2> QED BY <2>1, <2>2
<1>7. Shift(k)' = SumOf(u)
  BY DEF Shift, AddedBy
<1> HIDE DEF n, t, u
<1>8. SumOf(u) = SumOf(t) + u[n + 1]
  BY <1>1, <1>4, <1>6, SumOfMore
<1> QED BY <1>1, <1>5, <1>7, <1>8

\* A revert takes out what its activation had added.
LEMMA ShiftOfRevert ==
    ASSUME ActivationTypeOK, NEW k, NEW i \in DOMAIN activations, ~activations[i].reverted,
           activations' = [activations EXCEPT ![i].reverted = TRUE]
    PROVE  Shift(k)' = Shift(k) - Added(activations[i], k)
<1> DEFINE n == Len(activations)
           t == AddedBy(activations, k)
           u == AddedBy(activations', k)
<1>1. /\ n \in Nat /\ t \in [1 .. n -> Int] /\ Shift(k) = SumOf(t)
      /\ activations \in Seq(Activation) /\ i \in 1 .. n
      /\ \A j \in 1 .. n : activations[j] \in Activation
  BY AddedTypes DEF ActivationTypeOK
<1>2. /\ Len(activations') = n
      /\ \A j \in 1 .. n : j # i => activations'[j] = activations[j]
      /\ activations'[i].reverted
  <2>1. activations[i] \in [applied : Changes(Scope), previous : Changes(Scope),
                            reverted : BOOLEAN]
    BY <1>1 DEF Activation
  <2> QED BY <1>1, <2>1
<1>3. ASSUME NEW j \in 1 .. n, j # i PROVE u[j] = t[j]
  BY <1>1, <1>2, <1>3 DEF AddedBy
<1>4. u[i] = 0
  <2>1. Added(activations'[i], k) = 0
    BY <1>2 DEF Added
  <2> QED BY <1>1, <1>2, <2>1 DEF AddedBy
<1>5. t[i] = Added(activations[i], k) /\ t[i] \in Int
  BY <1>1 DEF AddedBy
<1>6. u \in [1 .. n -> Int]
  <2>1. u = [j \in 1 .. n |-> Added(activations'[j], k)]
    BY <1>2 DEF AddedBy
  <2>2. ASSUME NEW j \in 1 .. n PROVE u[j] \in Int
    <3>1. CASE j = i
      BY <1>4, <3>1
    <3>2. CASE j # i
      BY <1>1, <1>3, <3>2
    <3> QED BY <3>1, <3>2
  <2> QED BY <2>1, <2>2
<1>7. Shift(k)' = SumOf(u)
  BY DEF Shift, AddedBy
<1> HIDE DEF n, t, u
<1>8. SumOf(t) \in Int /\ SumOf(u) = SumOf(t) + (u[i] - t[i])
  BY <1>1, <1>3, <1>6, SumOfChanged
<1> QED BY <1>1, <1>4, <1>5, <1>7, <1>8

-----------------------------------------------------------------------------
(* Steps *)

LEMMA ActivationInitInv == ActivationInit => ActivationInv
<1> SUFFICES ASSUME ActivationInit PROVE ActivationInv
  OBVIOUS
<1>1. /\ version = 0 /\ stored = [k \in Keys |-> NoRow] /\ live = Default[0]
      /\ last = [k \in Keys |-> NoEntry] /\ toSeed = DOMAIN Seed /\ first = Default[0]
      /\ others = {} /\ changes = 0 /\ activations = << >>
      /\ seeded = (DOMAIN Seed = {})
      /\ labRuns = [r \in Runs |-> NoRun] /\ candidates = [r \in Runs |-> << >>]
  BY DEF ActivationInit, SettingsInit
<1>2. SettingsTypeOK
  <2>1. stored \in [Keys -> Row] /\ last \in [Keys -> {NoEntry} \cup [old : Row, new : Row]]
    BY <1>1 DEF Row
  <2>2. version \in 0 .. MaxVersion /\ live \in [Keys -> Values] /\ first \in [Keys -> Values]
        /\ 0 \in 0 .. MaxOthers
    BY <1>1, ConstantTypes
  <2> QED BY <1>1, <2>1, <2>2 DEF SettingsTypeOK
<1>3. ActivationTypeOK
  <2>1. candidates \in [Runs -> Seq(Candidate)] /\ \A r \in Runs : Len(candidates[r]) <= MaxCandidates
    <3>1. Len(<< >>) <= MaxCandidates /\ << >> \in Seq(Candidate)
      BY ActivationAssumption
    <3> QED BY <1>1, <3>1
  <2>2. labRuns \in [Runs -> {NoRun} \cup [baseline : [Keys -> Values], model : [ModelKeys -> Values]]]
    BY <1>1
  <2>3. activations \in Seq(Activation)
        /\ \A i \in DOMAIN activations : DOMAIN activations[i].applied = DOMAIN activations[i].previous
    BY <1>1
  <2> QED BY <1>2, <2>1, <2>2, <2>3 DEF ActivationTypeOK
<1>4. LiveIsExplained
  <2>1. ASSUME NEW k \in Keys
        PROVE  (IF stored[k] \in Accepts[0][k] THEN stored[k] ELSE Default[0][k]) = live[k]
    <3>1. stored[k] \notin Accepts[0][k]
      BY <1>1, ConstantTypes
    <3> QED BY <1>1, <3>1
  <2>2. live = [k \in Keys |-> live[k]]
    BY <1>1, ConstantTypes
  <2>3. live = Reloaded(stored, version)
    BY <1>1, <2>1, <2>2 DEF Reloaded
  <2> QED BY <1>1, <2>3 DEF LiveIsExplained
<1>5. NothingBeforeTheSeed
  BY <1>1 DEF NothingBeforeTheSeed, Up
<1>6. RevertsAddUp
  <2> SUFFICES ASSUME NEW k \in Keys PROVE live[k] = first[k] + Shift(k)
    BY DEF RevertsAddUp
  <2>1. AddedBy(activations, k) = << >>
    BY <1>1 DEF AddedBy
  <2>2. Shift(k) = 0
    BY <1>3, <2>1, AddedTypes, SumOfNothing
  <2>3. first[k] \in Nat /\ live[k] = first[k]
    BY <1>1, ConstantTypes
  <2> QED BY <2>2, <2>3
<1> QED BY <1>3, <1>4, <1>5, <1>6 DEF ActivationInv

\* A step of the settings alone, or one whose activations are given: what is
\* left to show of the types.
LEMMA SettingsStepTypes ==
    ASSUME ActivationTypeOK, StoredOK', version' \in 0 .. MaxVersion, seeded' \in BOOLEAN,
           toSeed' \subseteq DOMAIN Seed, first' \in [Keys -> Values], others' \subseteq Keys,
           changes' \in 0 .. MaxOthers, UNCHANGED <<labRuns, candidates>>,
           activations' \in Seq(Activation),
           \A i \in DOMAIN activations' :
              DOMAIN activations'[i].applied = DOMAIN activations'[i].previous
    PROVE  ActivationTypeOK'
<1>1. SettingsTypeOK'
  BY DEF StoredOK, SettingsTypeOK
<1>2. labRuns' = labRuns /\ candidates' = candidates
  OBVIOUS
<1> QED BY <1>1, <1>2 DEF ActivationTypeOK

\* The owner's changes, and a restart: what they change is somebody else's.
LEMMA OthersStep ==
    ASSUME ActivationInv, Up, Up', StoredOK', live' = Reloaded(stored', version'),
           \A k \in Keys : last'[k] # NoEntry => last'[k].new = stored'[k],
           version' \in 0 .. MaxVersion, changes' \in 0 .. MaxOthers, Others,
           UNCHANGED <<seeded, first, lab>>
    PROVE  ActivationInv'
<1>1. /\ ActivationTypeOK /\ seeded /\ seeded' = seeded /\ first' = first
      /\ activations' = activations /\ labRuns' = labRuns /\ candidates' = candidates
      /\ toSeed = {} /\ toSeed' = {}
  BY DEF ActivationInv, NothingBeforeTheSeed, Up, lab
<1>2. others' = others \cup {k \in Keys : live'[k] # live[k]}
  BY <1>1 DEF Others
<1>3. ActivationTypeOK'
  <2>1. /\ seeded' \in BOOLEAN /\ first' \in [Keys -> Values] /\ others' \subseteq Keys
        /\ toSeed' \subseteq DOMAIN Seed
    BY <1>1, <1>2 DEF ActivationTypeOK, SettingsTypeOK
  <2>2. activations' \in Seq(Activation)
        /\ \A i \in DOMAIN activations' :
              DOMAIN activations'[i].applied = DOMAIN activations'[i].previous
    BY <1>1 DEF ActivationTypeOK
  <2> QED BY <1>1, <2>1, <2>2, SettingsStepTypes
<1>4. LiveIsExplained'
  BY DEF LiveIsExplained
<1>5. NothingBeforeTheSeed'
  BY <1>1 DEF NothingBeforeTheSeed
<1>6. RevertsAddUp'
  <2> SUFFICES ASSUME NEW k \in Keys, k \notin others'
               PROVE  live'[k] = first'[k] + Shift(k)'
    BY DEF RevertsAddUp
  <2>1. k \notin others /\ live'[k] = live[k]
    BY <1>2
  <2>2. Shift(k)' = Shift(k)
    BY <1>1 DEF Shift
  <2>3. live[k] = first[k] + Shift(k)
    BY <2>1 DEF ActivationInv, RevertsAddUp
  <2> QED BY <1>1, <2>1, <2>2, <2>3
<1> QED BY <1>3, <1>4, <1>5, <1>6 DEF ActivationInv

LEMMA SeedOneStep ==
    ASSUME ActivationInv, NEW k \in DOMAIN Seed, SeedOne(k), UNCHANGED lab
    PROVE  ActivationInv'
<1>1. /\ ActivationTypeOK /\ StoredOK /\ LiveIsExplained /\ version \in 0 .. MaxVersion
      /\ others = {} /\ activations = << >> /\ ~Up
  BY StoredPart DEF ActivationInv, NothingBeforeTheSeed, SeedOne, Up
<1>2. /\ k \in toSeed /\ toSeed' = toSeed \ {k} /\ seeded' = (toSeed' = {}) /\ first' = live'
      /\ version' = version /\ others' = others /\ changes' = changes
      /\ activations' = activations /\ labRuns' = labRuns /\ candidates' = candidates
  BY DEF SeedOne, lab
<1>3. StoredOK' /\ live' = Reloaded(stored', version)
      /\ \A j \in Keys : last'[j] # NoEntry => last'[j].new = stored'[j]
  <2>1. CASE Valid(k, Seed[k])
    <3>1. SetMany(Only(k, Seed[k]))
      BY <2>1 DEF SeedOne
    <3>2. DOMAIN Only(k, Seed[k]) \subseteq Keys
      BY ConstantTypes DEF Only
    <3> QED BY <1>1, <3>1, <3>2, SetManyEffect
  <2>2. CASE ~Valid(k, Seed[k])
    <3>1. stored' = stored /\ live' = live /\ last' = last
      BY <2>2 DEF SeedOne
    <3> QED BY <1>1, <3>1 DEF StoredOK, LiveIsExplained
  <2> QED BY <2>1, <2>2
<1>4. ActivationTypeOK'
  <2>1. /\ toSeed' \subseteq DOMAIN Seed /\ seeded' \in BOOLEAN /\ first' \in [Keys -> Values]
        /\ others' \subseteq Keys /\ changes' \in 0 .. MaxOthers
    BY <1>1, <1>2, <1>3 DEF ActivationTypeOK, SettingsTypeOK, StoredOK
  <2>2. activations' \in Seq(Activation)
        /\ \A i \in DOMAIN activations' :
              DOMAIN activations'[i].applied = DOMAIN activations'[i].previous
    BY <1>1, <1>2 DEF ActivationTypeOK
  <2> QED BY <1>1, <1>2, <1>3, <2>1, <2>2, SettingsStepTypes
<1>5. LiveIsExplained'
  BY <1>2, <1>3 DEF LiveIsExplained
<1>6. NothingBeforeTheSeed'
  BY <1>1, <1>2 DEF NothingBeforeTheSeed, Up
<1>7. RevertsAddUp'
  <2> SUFFICES ASSUME NEW j \in Keys PROVE live'[j] = first'[j] + Shift(j)'
    BY DEF RevertsAddUp
  <2>1. Shift(j) = 0
    <3>1. AddedBy(activations, j) = << >>
      BY <1>1 DEF AddedBy
    <3> QED BY <1>1, <3>1, AddedTypes, SumOfNothing
  <2>2. Shift(j)' = Shift(j)
    BY <1>2 DEF Shift
  <2>3. live'[j] \in Nat
    BY <1>3, ConstantTypes DEF StoredOK
  <2> QED BY <1>2, <2>1, <2>2, <2>3
<1> QED BY <1>4, <1>5, <1>6, <1>7 DEF ActivationInv

LEMMA PageStep ==
    ASSUME ActivationInv, PageNext, UNCHANGED lab
    PROVE  ActivationInv'
<1>1. PICK k \in Keys : SaveSetting(k) \/ ResetSetting(k) \/ RevertSetting(k)
  BY DEF PageNext
<1>2. /\ Up /\ changes < MaxOthers /\ changes' = changes + 1 /\ Others
      /\ version' = version /\ seeded' = seeded /\ toSeed' = toSeed /\ first' = first
  BY <1>1 DEF SaveSetting, ResetSetting, RevertSetting
<1>3. ActivationTypeOK /\ StoredOK /\ LiveIsExplained /\ version \in 0 .. MaxVersion
      /\ changes \in 0 .. MaxOthers /\ MaxOthers \in Nat
  BY StoredPart, ConstantTypes DEF ActivationInv, ActivationTypeOK, SettingsTypeOK
<1>4. \/ \E value : SetMany(Only(k, value))
      \/ Store(Only(k, NoRow))
  BY <1>1 DEF SaveSetting, ResetSetting, RevertSetting
<1>5. StoredOK' /\ live' = Reloaded(stored', version)
      /\ \A j \in Keys : last'[j] # NoEntry => last'[j].new = stored'[j]
  <2>1. CASE Store(Only(k, NoRow))
    <3>1. Only(k, NoRow) \in [{k} -> Row] /\ {k} \in SUBSET Keys
      BY DEF Only, Row
    <3> QED BY <1>3, <2>1, <3>1, StoreEffect
  <2>2. ASSUME NEW value, SetMany(Only(k, value))
        PROVE  StoredOK' /\ live' = Reloaded(stored', version)
               /\ \A j \in Keys : last'[j] # NoEntry => last'[j].new = stored'[j]
    <3>1. DOMAIN Only(k, value) \subseteq Keys
      BY DEF Only
    <3> QED BY <1>3, <2>2, <3>1, SetManyEffect
  <2> QED BY <1>4, <2>1, <2>2
<1>6. Up' /\ version' \in 0 .. MaxVersion /\ changes' \in 0 .. MaxOthers
  BY <1>2, <1>3 DEF Up
<1> QED BY <1>2, <1>5, <1>6, OthersStep

LEMMA RestartSettingsStep ==
    ASSUME ActivationInv, RestartSettings, UNCHANGED lab
    PROVE  ActivationInv'
<1>1. ActivationTypeOK /\ StoredOK /\ LiveIsExplained /\ version \in 0 .. MaxVersion
      /\ changes \in 0 .. MaxOthers /\ NothingBeforeTheSeed
      /\ seeded \in BOOLEAN /\ toSeed \subseteq DOMAIN Seed /\ first \in [Keys -> Values]
  BY StoredPart DEF ActivationInv, ActivationTypeOK, SettingsTypeOK
<1>2. /\ version' \in 0 .. MaxVersion /\ toSeed' = (IF seeded THEN {} ELSE DOMAIN Seed)
      /\ live' = Reloaded(stored, version') /\ Others
      /\ stored' = stored /\ last' = last /\ seeded' = seeded /\ first' = first
      /\ changes' = changes
      /\ labRuns' = labRuns /\ candidates' = candidates /\ activations' = activations
  BY DEF RestartSettings, LeftToSeed, lab
<1>3. StoredOK' /\ \A j \in Keys : last'[j] # NoEntry => last'[j].new = stored'[j]
  <2>1. live' \in [Keys -> Values]
    BY <1>2, ReloadedTypes
  <2> QED BY <1>1, <1>2, <2>1 DEF StoredOK, LiveIsExplained
<1>4. CASE seeded
  <2>1. Up /\ Up'
    BY <1>1, <1>2, <1>4 DEF NothingBeforeTheSeed, Up
  <2> QED BY <1>1, <1>2, <1>3, <2>1, OthersStep
<1>5. CASE ~seeded
  <2>1. /\ ~Up /\ others = {} /\ activations = << >> /\ toSeed' = DOMAIN Seed /\ ~Up'
    BY <1>1, <1>2, <1>5 DEF NothingBeforeTheSeed, Up
  <2>2. others' = {}
    BY <1>5, <2>1, <1>2 DEF Others
  <2>3. ActivationTypeOK'
    <3>1. /\ others' \subseteq Keys /\ toSeed' \subseteq DOMAIN Seed
          /\ activations' \in Seq(Activation)
          /\ \A i \in DOMAIN activations' :
                DOMAIN activations'[i].applied = DOMAIN activations'[i].previous
      BY <1>1, <1>2, <2>1, <2>2 DEF ActivationTypeOK
    <3> QED BY <1>1, <1>2, <1>3, <3>1, SettingsStepTypes
  <2>4. LiveIsExplained'
    BY <1>2, <1>3 DEF LiveIsExplained
  <2>5. NothingBeforeTheSeed'
    BY <1>2, <1>5, <2>1, <2>2 DEF NothingBeforeTheSeed
  <2>6. RevertsAddUp'
    BY <2>1 DEF RevertsAddUp
  <2> QED BY <2>3, <2>4, <2>5, <2>6 DEF ActivationInv
<1> QED BY <1>1, <1>4, <1>5

\* Runs and candidates change no setting and no activation.
LEMMA RunsStep ==
    ASSUME ActivationInv, UNCHANGED settings, activations' = activations, ActivationTypeOK'
    PROVE  ActivationInv'
<1>1. /\ version' = version /\ stored' = stored /\ live' = live /\ last' = last
      /\ seeded' = seeded /\ toSeed' = toSeed /\ first' = first /\ others' = others
  BY DEF settings
<1>2. LiveIsExplained'
  BY <1>1 DEF ActivationInv, LiveIsExplained, Reloaded
<1>3. NothingBeforeTheSeed'
  BY <1>1 DEF ActivationInv, NothingBeforeTheSeed, Up
<1>4. RevertsAddUp'
  BY <1>1 DEF ActivationInv, RevertsAddUp, Shift, Up
<1> QED BY <1>2, <1>3, <1>4 DEF ActivationInv

LEMMA SettingsTypesStay ==
    ASSUME SettingsTypeOK, UNCHANGED settings
    PROVE  SettingsTypeOK'
BY DEF SettingsTypeOK, settings

LEMMA StartRunStep ==
    ASSUME ActivationInv, NEW r \in Runs, StartRun(r)
    PROVE  ActivationInv'
<1>1. ActivationTypeOK /\ UNCHANGED settings /\ candidates' = candidates /\ activations' = activations
  BY DEF ActivationInv, StartRun
<1>2. PICK model \in [ModelKeys -> Values] :
        labRuns' = [labRuns EXCEPT ![r] = [baseline |-> live, model |-> model]]
  BY DEF StartRun
<1>3. live \in [Keys -> Values]
  BY <1>1 DEF ActivationTypeOK, SettingsTypeOK
<1>4. labRuns' \in [Runs -> {NoRun} \cup [baseline : [Keys -> Values], model : [ModelKeys -> Values]]]
  BY <1>1, <1>2, <1>3 DEF ActivationTypeOK
<1>5. ActivationTypeOK'
  BY <1>1, <1>4, SettingsTypesStay DEF ActivationTypeOK
<1> QED BY <1>1, <1>5, RunsStep

LEMMA AddCandidateStep ==
    ASSUME ActivationInv, NEW r \in Runs, AddCandidate(r)
    PROVE  ActivationInv'
<1>1. /\ ActivationTypeOK /\ UNCHANGED settings /\ labRuns' = labRuns /\ activations' = activations
      /\ Len(candidates[r]) < MaxCandidates
  BY DEF ActivationInv, AddCandidate
<1>2. PICK parent \in 0 .. Len(candidates[r]), K \in SUBSET Tunable \ {{}} :
        \E changed \in [K -> Values] :
           candidates' = [candidates EXCEPT ![r] =
                             Append(@, [parent |-> parent, changes |-> changed])]
  BY DEF AddCandidate
<1>3. PICK changed \in [K -> Values] :
        candidates' = [candidates EXCEPT ![r] =
                          Append(@, [parent |-> parent, changes |-> changed])]
  BY <1>2
<1> DEFINE made == [parent |-> parent, changes |-> changed]
<1>4. candidates \in [Runs -> Seq(Candidate)] /\ candidates[r] \in Seq(Candidate)
      /\ \A q \in Runs : Len(candidates[q]) <= MaxCandidates
  BY <1>1 DEF ActivationTypeOK
<1>5. made \in Candidate
  <2>1. parent \in 0 .. MaxCandidates
    BY <1>1, <1>4, ActivationAssumption
  <2>2. changed \in Changes(Tunable)
    BY DEF Changes
  <2> QED BY <2>1, <2>2 DEF Candidate
<1>6. candidates' = [candidates EXCEPT ![r] = Append(candidates[r], made)]
  BY <1>3
<1> HIDE DEF made
<1>7. Append(candidates[r], made) \in Seq(Candidate)
      /\ Len(Append(candidates[r], made)) <= MaxCandidates
  BY <1>1, <1>4, <1>5, ActivationAssumption
<1>8. candidates' \in [Runs -> Seq(Candidate)] /\ \A q \in Runs : Len(candidates'[q]) <= MaxCandidates
  BY <1>4, <1>6, <1>7
<1>9. ActivationTypeOK'
  BY <1>1, <1>8, SettingsTypesStay DEF ActivationTypeOK
<1> QED BY <1>1, <1>9, RunsStep

\* What the lab writes: its log says so, or its keys count as somebody else's.
LEMMA LabWrites ==
    ASSUME ActivationInv, Up, NEW values, DOMAIN values \subseteq Keys, SetMany(values),
           UNCHANGED <<version, seeded, toSeed, first, changes, labRuns, candidates>>,
           others' \subseteq Keys,
           activations' \in Seq(Activation),
           \A i \in DOMAIN activations' :
              DOMAIN activations'[i].applied = DOMAIN activations'[i].previous,
           \A k \in Keys \ others' :
              k \notin others /\ live'[k] - live[k] = Shift(k)' - Shift(k)
    PROVE  ActivationInv'
<1>1. /\ ActivationTypeOK /\ StoredOK /\ LiveIsExplained /\ version \in 0 .. MaxVersion
      /\ version' = version /\ seeded' = seeded /\ toSeed' = toSeed /\ first' = first
      /\ changes' = changes /\ labRuns' = labRuns /\ candidates' = candidates
  BY StoredPart DEF ActivationInv
<1>2. /\ StoredOK' /\ live' = Reloaded(stored', version)
      /\ \A k \in Keys : last'[k] # NoEntry => last'[k].new = stored'[k]
  BY <1>1, SetManyEffect
<1>3. ActivationTypeOK'
  <2>1. /\ version' \in 0 .. MaxVersion /\ seeded' \in BOOLEAN /\ toSeed' \subseteq DOMAIN Seed
        /\ first' \in [Keys -> Values] /\ changes' \in 0 .. MaxOthers
    BY <1>1 DEF ActivationTypeOK, SettingsTypeOK
  <2> QED BY <1>1, <1>2, <2>1, SettingsStepTypes
<1>4. LiveIsExplained'
  BY <1>1, <1>2 DEF LiveIsExplained
<1>5. NothingBeforeTheSeed'
  BY <1>1 DEF ActivationInv, NothingBeforeTheSeed, Up
<1>6. RevertsAddUp'
  <2> SUFFICES ASSUME NEW k \in Keys, k \notin others'
               PROVE  live'[k] = first'[k] + Shift(k)'
    BY DEF RevertsAddUp
  <2>1. live[k] = first[k] + Shift(k)
    BY DEF ActivationInv, RevertsAddUp
  <2>2. live[k] \in Nat /\ live'[k] \in Nat /\ first[k] \in Nat
    <3>1. live[k] \in Values /\ live'[k] \in Values /\ first[k] \in Values
      BY <1>1, <1>2 DEF ActivationTypeOK, SettingsTypeOK, StoredOK
    <3> QED BY <3>1, ConstantTypes
  <2>3. Shift(k) \in Int /\ Shift(k)' \in Int
    <3>1. Shift(k) \in Int
      BY <1>1, ShiftIsInt
    <3>2. (ActivationTypeOK => Shift(k) \in Int)'
      BY ShiftIsInt, PTL
    <3> QED BY <1>3, <3>1, <3>2
  <2>4. live'[k] - live[k] = Shift(k)' - Shift(k)
    OBVIOUS
  <2>5. PICK s \in Int, z \in Int : s = Shift(k) /\ z = Shift(k)'
    BY <2>3
  <2>6. PICK l \in Int, m \in Int, f \in Int : l = live[k] /\ m = live'[k] /\ f = first[k]
    BY <2>2
  <2>7. l = f + s
    BY <2>1, <2>5, <2>6
  <2>8. m - l = z - s
    BY <2>4, <2>5, <2>6
  <2>9. m = f + z
    BY <2>7, <2>8
  <2>10. first'[k] = f
    BY <1>1, <2>6
  <2> QED BY <2>5, <2>6, <2>9, <2>10
<1> QED BY <1>3, <1>4, <1>5, <1>6 DEF ActivationInv

LEMMA ActivateStep ==
    ASSUME ActivationInv, NEW r \in Runs, NEW c, NEW mode, Activate(r, c, mode)
    PROVE  ActivationInv'
<1>1. PICK apply : apply = Apply(r, c, mode)
  OBVIOUS
<1> DEFINE record == [applied |-> apply, previous |-> Replaced(r, apply), reverted |-> FALSE]
<1>2. /\ Up /\ SetMany(apply)
      /\ \/ activations' = Append(activations, record) /\ UNCHANGED others
         \/ others' = others \cup DOMAIN apply /\ UNCHANGED activations
      /\ UNCHANGED <<version, seeded, toSeed, first, changes, labRuns, candidates>>
  BY <1>1 DEF Activate
<1>3. ActivationTypeOK /\ StoredOK /\ LiveIsExplained /\ version \in 0 .. MaxVersion
      /\ others \subseteq Keys
  BY StoredPart DEF ActivationInv, ActivationTypeOK, SettingsTypeOK
<1>4. DOMAIN apply \in SUBSET Scope /\ Scope \subseteq Keys
      /\ apply = [k \in DOMAIN apply |-> apply[k]]
  <2>1. PICK wanted \in SUBSET Scope :
          apply = [k \in {j \in wanted : live[j] # Effective(r, c)[j]} |-> Effective(r, c)[k]]
    <3>1. apply = [k \in {j \in (IF mode = "full" THEN Scope
                                 ELSE {k \in Scope : Effective(r, c)[k] # labRuns[r].baseline[k]})
                          : live[j] # Effective(r, c)[j]} |-> Effective(r, c)[k]]
      BY <1>1 DEF Apply
    <3>2. (IF mode = "full" THEN Scope
           ELSE {k \in Scope : Effective(r, c)[k] # labRuns[r].baseline[k]}) \in SUBSET Scope
      OBVIOUS
    <3> QED BY <3>1, <3>2
  <2>2. Scope \subseteq Keys
    BY ActivationAssumption DEF Scope
  <2> QED BY <2>1, <2>2
<1>5. /\ \A k \in Keys \ DOMAIN apply : live'[k] = live[k]
      /\ \A k \in DOMAIN apply : apply[k] \in Values /\ live'[k] = apply[k]
      /\ StoredOK'
  BY <1>2, <1>3, <1>4, SetManyEffect
<1>6. live \in [Keys -> Values] /\ live' \in [Keys -> Values]
  BY <1>3, <1>5 DEF StoredOK
<1>7. CASE others' = others \cup DOMAIN apply /\ UNCHANGED activations
  <2>1. ASSUME NEW k \in Keys \ others'
        PROVE  k \notin others /\ live'[k] - live[k] = Shift(k)' - Shift(k)
    <3>1. k \notin others /\ live'[k] = live[k] /\ live[k] \in Nat
      BY <1>5, <1>6, <1>7, ConstantTypes
    <3>2. Shift(k)' = Shift(k) /\ Shift(k) \in Int
      BY <1>3, <1>7, ShiftIsInt DEF Shift
    <3>3. PICK s \in Int : s = Shift(k)
      BY <3>2
    <3>4. live'[k] - live[k] = 0 /\ s - s = 0
      BY <3>1, <3>3
    <3> QED BY <3>1, <3>2, <3>3, <3>4
  <2>2. others' \subseteq Keys
    BY <1>3, <1>4, <1>7
  <2>3. activations' \in Seq(Activation)
        /\ \A i \in DOMAIN activations' :
              DOMAIN activations'[i].applied = DOMAIN activations'[i].previous
    BY <1>3, <1>7 DEF ActivationTypeOK
  <2>4. DOMAIN apply \subseteq Keys
    BY <1>4
  <2> QED BY <1>2, <2>1, <2>2, <2>3, <2>4, LabWrites
<1>8. CASE activations' = Append(activations, record) /\ UNCHANGED others
  <2>1. record \in Activation /\ DOMAIN record.applied = DOMAIN record.previous
    <3>1. apply \in Changes(Scope)
      BY <1>4, <1>5 DEF Changes
    <3>2. Replaced(r, apply) \in [DOMAIN apply -> Values]
      BY <1>4, <1>6 DEF Replaced
    <3>3. Replaced(r, apply) \in Changes(Scope) /\ DOMAIN Replaced(r, apply) = DOMAIN apply
      BY <1>4, <3>2 DEF Changes
    <3> QED BY <3>1, <3>3 DEF Activation
  <2>2. \A k \in DOMAIN apply : Added(record, k) = apply[k] - live[k]
    BY DEF Added, Replaced
  <2>3. \A k : k \notin DOMAIN apply => Added(record, k) = 0
    BY DEF Added
  <2> HIDE DEF record
  <2>4. ASSUME NEW k \in Keys \ others'
        PROVE  k \notin others /\ live'[k] - live[k] = Shift(k)' - Shift(k)
    <3>1. PICK s \in Int : s = Shift(k)
      BY <1>3, ShiftIsInt
    <3>2. PICK d \in Int : d = Added(record, k)
      BY <2>1, AddedIsInt
    <3>3. Shift(k)' = s + d
      BY <1>3, <1>8, <2>1, <3>1, <3>2, ShiftOfActivation
    <3>4. live[k] \in Nat /\ live'[k] \in Nat /\ k \notin others
      BY <1>6, <1>8, ConstantTypes
    <3>5. live'[k] - live[k] = d
      <4>1. CASE k \in DOMAIN apply
        BY <1>5, <2>2, <3>2, <4>1
      <4>2. CASE k \notin DOMAIN apply
        <5>1. live'[k] = live[k] /\ d = 0
          BY <1>5, <2>3, <3>2, <4>2
        <5> QED BY <3>4, <5>1
      <4> QED BY <4>1, <4>2
    <3>6. (s + d) - s = d
      OBVIOUS
    <3> QED BY <3>1, <3>3, <3>4, <3>5, <3>6
  <2>5. activations' \in Seq(Activation)
        /\ \A i \in DOMAIN activations' :
              DOMAIN activations'[i].applied = DOMAIN activations'[i].previous
    <3>1. activations \in Seq(Activation)
          /\ \A i \in DOMAIN activations :
                DOMAIN activations[i].applied = DOMAIN activations[i].previous
      BY <1>3 DEF ActivationTypeOK
    <3>2. activations' \in Seq(Activation) /\ Len(activations') = Len(activations) + 1
      BY <1>8, <2>1, <3>1
    <3>3. ASSUME NEW i \in DOMAIN activations'
          PROVE  DOMAIN activations'[i].applied = DOMAIN activations'[i].previous
      <4>1. CASE i = Len(activations) + 1
        <5>1. activations'[i] = record
          BY <1>8, <3>1, <4>1
        <5> QED BY <2>1, <5>1
      <4>2. CASE i # Len(activations) + 1
        <5>1. i \in DOMAIN activations /\ activations'[i] = activations[i]
          BY <1>8, <3>1, <3>2, <4>2
        <5> QED BY <3>1, <5>1
      <4> QED BY <4>1, <4>2
    <3> QED BY <3>2, <3>3
  <2>6. others' \subseteq Keys /\ DOMAIN apply \subseteq Keys
    BY <1>3, <1>4, <1>8
  <2> QED BY <1>2, <2>4, <2>5, <2>6, LabWrites
<1> QED BY <1>2, <1>7, <1>8

LEMMA RevertStep ==
    ASSUME ActivationInv, NEW i \in DOMAIN activations, Revert(i)
    PROVE  ActivationInv'
<1>1. PICK a : a = activations[i]
  OBVIOUS
<1>2. /\ Up /\ ~a.reverted /\ SetMany(a.previous)
      /\ \A k \in DOMAIN a.applied : live[k] = a.applied[k]
      /\ \/ activations' = [activations EXCEPT ![i].reverted = TRUE] /\ UNCHANGED others
         \/ others' = others \cup DOMAIN a.previous /\ UNCHANGED activations
      /\ UNCHANGED <<version, seeded, toSeed, first, changes, labRuns, candidates>>
  BY <1>1 DEF Revert, StillApplied
<1>3. ActivationTypeOK /\ StoredOK /\ LiveIsExplained /\ version \in 0 .. MaxVersion
      /\ others \subseteq Keys /\ activations \in Seq(Activation)
      /\ \A j \in DOMAIN activations :
            DOMAIN activations[j].applied = DOMAIN activations[j].previous
  BY StoredPart DEF ActivationInv, ActivationTypeOK, SettingsTypeOK
<1>4. a \in Activation /\ DOMAIN a.applied = DOMAIN a.previous /\ DOMAIN a.applied \subseteq Keys
      /\ \A k \in DOMAIN a.applied : a.applied[k] \in Nat /\ a.previous[k] \in Nat
  <2>1. a \in Activation /\ DOMAIN a.applied = DOMAIN a.previous
    BY <1>1, <1>3
  <2> QED BY <2>1, ActivationParts
<1>5. /\ \A k \in Keys \ DOMAIN a.applied : live'[k] = live[k]
      /\ \A k \in DOMAIN a.applied : live'[k] = a.previous[k]
      /\ StoredOK'
  <2>1. DOMAIN a.previous \subseteq Keys
    BY <1>4
  <2>2. /\ \A k \in Keys \ DOMAIN a.previous : live'[k] = live[k]
        /\ \A k \in DOMAIN a.previous : live'[k] = a.previous[k]
        /\ StoredOK'
    BY <1>2, <1>3, <2>1, SetManyEffect
  <2> QED BY <1>4, <2>2
<1>6. live \in [Keys -> Values] /\ live' \in [Keys -> Values]
  BY <1>3, <1>5 DEF StoredOK
<1>7. CASE others' = others \cup DOMAIN a.previous /\ UNCHANGED activations
  <2>1. ASSUME NEW k \in Keys \ others'
        PROVE  k \notin others /\ live'[k] - live[k] = Shift(k)' - Shift(k)
    <3>1. k \notin others /\ live'[k] = live[k] /\ live[k] \in Nat
      BY <1>4, <1>5, <1>6, <1>7, ConstantTypes
    <3>2. Shift(k)' = Shift(k) /\ Shift(k) \in Int
      BY <1>3, <1>7, ShiftIsInt DEF Shift
    <3>3. PICK s \in Int : s = Shift(k)
      BY <3>2
    <3>4. live'[k] - live[k] = 0 /\ s - s = 0
      BY <3>1, <3>3
    <3> QED BY <3>1, <3>2, <3>3, <3>4
  <2>2. others' \subseteq Keys /\ DOMAIN a.previous \subseteq Keys
    BY <1>3, <1>4, <1>7
  <2>3. activations' \in Seq(Activation)
        /\ \A j \in DOMAIN activations' :
              DOMAIN activations'[j].applied = DOMAIN activations'[j].previous
    BY <1>3, <1>7
  <2> QED BY <1>2, <2>1, <2>2, <2>3, LabWrites
<1>8. CASE activations' = [activations EXCEPT ![i].reverted = TRUE] /\ UNCHANGED others
  <2>1. ASSUME NEW k \in Keys \ others'
        PROVE  k \notin others /\ live'[k] - live[k] = Shift(k)' - Shift(k)
    <3>1. PICK s \in Int : s = Shift(k)
      BY <1>3, ShiftIsInt
    <3>2. PICK d \in Int : d = Added(a, k)
      BY <1>4, AddedIsInt
    <3>3. Shift(k)' = s - d
      BY <1>1, <1>2, <1>3, <1>8, <3>1, <3>2, ShiftOfRevert
    <3>4. live[k] \in Nat /\ live'[k] \in Nat /\ k \notin others
      BY <1>6, <1>8, ConstantTypes
    <3>5. live'[k] - live[k] = 0 - d
      <4>1. CASE k \in DOMAIN a.applied
        <5>1. d = a.applied[k] - a.previous[k]
          BY <1>2, <3>2, <4>1 DEF Added
        <5>2. live[k] = a.applied[k] /\ live'[k] = a.previous[k]
              /\ a.applied[k] \in Nat /\ a.previous[k] \in Nat
          BY <1>2, <1>4, <1>5, <4>1
        <5> QED BY <5>1, <5>2
      <4>2. CASE k \notin DOMAIN a.applied
        <5>1. live'[k] = live[k] /\ d = 0
          BY <1>5, <3>2, <4>2 DEF Added
        <5> QED BY <3>4, <5>1
      <4> QED BY <4>1, <4>2
    <3>6. (s - d) - s = 0 - d
      OBVIOUS
    <3> QED BY <3>1, <3>3, <3>4, <3>5, <3>6
  <2>2. others' \subseteq Keys /\ DOMAIN a.previous \subseteq Keys
    BY <1>3, <1>4, <1>8
  <2>3. activations' \in Seq(Activation)
        /\ \A j \in DOMAIN activations' :
              DOMAIN activations'[j].applied = DOMAIN activations'[j].previous
    <3>1. [a EXCEPT !.reverted = TRUE] \in Activation
          /\ [a EXCEPT !.reverted = TRUE].applied = a.applied
          /\ [a EXCEPT !.reverted = TRUE].previous = a.previous
      BY <1>4 DEF Activation
    <3>2. activations' = [activations EXCEPT ![i] = [a EXCEPT !.reverted = TRUE]]
      BY <1>1, <1>8
    <3>3. PICK b \in Activation : /\ activations' = [activations EXCEPT ![i] = b]
                                  /\ b.applied = a.applied /\ b.previous = a.previous
      BY <3>1, <3>2
    <3>4. activations' \in Seq(Activation) /\ DOMAIN activations' = DOMAIN activations
      BY <1>3, <3>3
    <3>5. ASSUME NEW j \in DOMAIN activations
          PROVE  DOMAIN activations'[j].applied = DOMAIN activations'[j].previous
      <4>1. CASE j = i
        <5>1. activations'[j] = b
          BY <3>3, <4>1
        <5> QED BY <1>4, <3>3, <5>1
      <4>2. CASE j # i
        <5>1. activations'[j] = activations[j]
          BY <3>3, <4>2
        <5> QED BY <1>3, <5>1
      <4> QED BY <4>1, <4>2
    <3> QED BY <3>4, <3>5
  <2> QED BY <1>2, <2>1, <2>2, <2>3, LabWrites
<1> QED BY <1>2, <1>7, <1>8

LEMMA ActivationStutters ==
    ActivationInv /\ UNCHANGED activationVars => ActivationInv'
<1> SUFFICES ASSUME ActivationInv, UNCHANGED activationVars PROVE ActivationInv'
  OBVIOUS
<1>1. UNCHANGED settings /\ labRuns' = labRuns /\ candidates' = candidates
      /\ activations' = activations
  BY DEF activationVars, lab
<1>2. ActivationTypeOK'
  BY <1>1, SettingsTypesStay DEF ActivationInv, ActivationTypeOK
<1> QED BY <1>1, <1>2, RunsStep

\* The live settings are what the seed, the owner and the recorded activations
\* made of them, for any settings, values, versions of the code, runs and
\* candidates: LiveSettingsAreExplained, which the run lab checks.
THEOREM LabLeavesItsMark == ActivationSpec => []LiveSettingsAreExplained
<1>1. ActivationInv /\ [ActivationNext]_activationVars => ActivationInv'
  <2> SUFFICES ASSUME ActivationInv, [ActivationNext]_activationVars PROVE ActivationInv'
    OBVIOUS
  <2>1. ASSUME NEW k \in DOMAIN Seed, SeedOne(k), UNCHANGED lab PROVE ActivationInv'
    BY <2>1, SeedOneStep
  <2>2. ASSUME PageNext, UNCHANGED lab PROVE ActivationInv'
    BY <2>2, PageStep
  <2>3. ASSUME RestartSettings, UNCHANGED lab PROVE ActivationInv'
    BY <2>3, RestartSettingsStep
  <2>4. ASSUME NEW r \in Runs, StartRun(r) PROVE ActivationInv'
    BY <2>4, StartRunStep
  <2>5. ASSUME NEW r \in Runs, AddCandidate(r) PROVE ActivationInv'
    BY <2>5, AddCandidateStep
  <2>6. ASSUME NEW r \in Runs, NEW c \in 0 .. MaxCandidates, NEW mode \in {"changes", "full"},
               Activate(r, c, mode)
        PROVE  ActivationInv'
    BY <2>6, ActivateStep
  <2>7. ASSUME NEW i \in DOMAIN activations, Revert(i) PROVE ActivationInv'
    BY <2>7, RevertStep
  <2>8. CASE UNCHANGED activationVars
    BY <2>8, ActivationStutters
  <2> QED BY <2>1, <2>2, <2>3, <2>4, <2>5, <2>6, <2>7, <2>8 DEF ActivationNext
<1>2. ActivationInv => LiveSettingsAreExplained
  BY DEF ActivationInv, LiveSettingsAreExplained, SeedComesFirst, NothingBeforeTheSeed
<1> QED BY <1>1, <1>2, ActivationInitInv, PTL DEF ActivationSpec

-----------------------------------------------------------------------------
(* What a run knows and the owner chooses: the invariant *)

\* What the variables hold.
AttemptRow ==
    [scenario : Nat, candidate : Nat, continues : Nat,
     status : {"queued", "done", "cancelled", "deleted"},
     viewed : {NoTime} \cup Nat, result : Results \cup {"none"}, ran : Bodies \cup {"none"}]
LabTyped ==
    /\ runStatus \in RunStatus
    /\ now \in 0 .. MaxTime
    /\ scenarios \in Seq(Scenario)
    /\ validation \in ScenarioSet
    /\ madeAt \in Seq(CandidateTime)
    /\ attempts \in Seq(AttemptRow)
    /\ rubrics \in Seq(Rubrics)
    /\ judgments \subseteq Judgment
    /\ readAt \in [detail : [Slugs -> {NoTime} \cup Nat], overview : [Slugs -> {NoTime} \cup Nat]]

Presented == {<<body, n, [t \in 1 .. turn - 1 |-> r.answers[t]]>> :
                 body \in Bodies, n \in Nat, r \in Results, turn \in 1 .. 2}
ComparisonRow ==
    [mapping : [Labels -> Nat], turn : 1 .. 2,
     status : {"pending", "answered", "withdrawn", "deleted"},
     revealed : BOOLEAN, choices : Seq(Labels \cup Other), situation : Presented]

\* A version is given once while its scenario is there.
VersionsTellApart ==
    /\ \A i \in ScenarioIds : scenarios[i].version <= Len(scenarios)
    /\ \A i, k \in ScenarioIds :
          scenarios[i].slug = scenarios[k].slug /\ scenarios[i].version = scenarios[k].version => i = k

\* An attempt names a scenario, one that is there while the attempt is; a result
\* is of the scenario's body, and none is read before it is there.
Grounded ==
    \A i \in DOMAIN attempts :
        /\ attempts[i].scenario \in DOMAIN scenarios
        /\ attempts[i].continues <= Len(attempts)
        /\ attempts[i].viewed <= now
        /\ attempts[i].status = "queued" => attempts[i].viewed = NoTime
        /\ i \in AttemptIds => attempts[i].scenario \in ScenarioIds
        /\ i \in Done => /\ attempts[i].result \in Results
                         /\ attempts[i].ran = scenarios[attempts[i].scenario].body

\* The first reading of a scenario's details is one that an attempt remembers.
ReadingsAreKept ==
    /\ \A i \in Done : attempts[i].viewed # NoTime => readAt.detail[SlugOf(i)] # NoTime
    /\ runStatus # "deleted" =>
          \A s \in Slugs : readAt.detail[s] # NoTime =>
              \E i \in Done : SlugOf(i) = s /\ attempts[i].viewed = readAt.detail[s]
    /\ runStatus = "deleted" => ~validation.made

\* A judgment is of an attempt that is there, by the rubric it names.
JudgedByARubric ==
    \A j \in judgments :
        /\ j.attempt \in AttemptIds
        /\ j.version <= Len(rubrics) /\ j.criterion \in rubrics[j.version]

\* A comparison's replies are of one scenario, and stay what they were while it
\* is there.
SameSituation(c) ==
    /\ attempts[c.mapping["A"]].scenario = attempts[c.mapping["B"]].scenario
    /\ \A label \in Labels :
          LET i == c.mapping[label]
          IN  i \in Done /\ c.situation = <<attempts[i].ran, attempts[i].continues, Before(i, c.turn)>>
ComparisonsHold ==
    /\ comparisons \in Seq(ComparisonRow)
    /\ told \subseteq DOMAIN comparisons
    /\ \A c \in DOMAIN comparisons :
          /\ ComparisonOK(comparisons[c])
          /\ c \in Comparisons =>
                /\ SameSituation(comparisons[c])
                /\ (comparisons[c].choices # << >>) <=> (comparisons[c].status = "answered")

LabInv ==
    /\ LabTyped /\ VersionsTellApart /\ Grounded /\ ReadingsAreKept
    /\ JudgedByARubric /\ ComparisonsHold
\* What most steps leave as it is.
ScenariosStand == \A i \in DOMAIN scenarios : i \in DOMAIN scenarios' /\ scenarios'[i] = scenarios[i]
AttemptsStand ==
    /\ \A i \in DOMAIN attempts : i \in DOMAIN attempts'
    /\ \A i \in Done : /\ i \in Done'
                       /\ attempts'[i].scenario = attempts[i].scenario
                       /\ attempts'[i].continues = attempts[i].continues
                       /\ attempts'[i].result = attempts[i].result
                       /\ attempts'[i].ran = attempts[i].ran

LEMMA RowTypes ==
    ASSUME LabTyped
    PROVE  /\ Len(scenarios) \in Nat /\ DOMAIN scenarios = 1 .. Len(scenarios)
           /\ Len(attempts) \in Nat /\ DOMAIN attempts = 1 .. Len(attempts)
           /\ \A i \in DOMAIN scenarios : scenarios[i] \in Scenario
           /\ \A i \in DOMAIN attempts : attempts[i] \in AttemptRow
BY DEF LabTyped

LEMMA VersionsStay ==
    ASSUME VersionsTellApart, UNCHANGED scenarios
    PROVE  VersionsTellApart'
BY DEF VersionsTellApart, ScenarioIds

LEMMA GroundedStays ==
    ASSUME LabTyped, LabTyped', Grounded, UNCHANGED attempts, ScenariosStand, now <= now'
    PROVE  Grounded'
<1>1. now \in Nat /\ now' \in Nat
  BY EvidenceAssumption DEF LabTyped
<1>2. \A i \in DOMAIN attempts : attempts[i].viewed \in {NoTime} \cup Nat
  BY RowTypes DEF AttemptRow
<1> QED BY <1>1, <1>2 DEF Grounded, ScenariosStand, ScenarioIds, AttemptIds, Done, NoTime

LEMMA ReadingsStay ==
    ASSUME LabTyped, Grounded, ReadingsAreKept, UNCHANGED <<attempts, readAt>>, ScenariosStand,
           runStatus = "deleted" => runStatus' = "deleted",
           runStatus' = "deleted" => ~validation'.made
    PROVE  ReadingsAreKept'
<1>1. Done' = Done /\ \A i \in Done : SlugOf(i)' = SlugOf(i)
  BY DEF Done, AttemptIds, SlugOf, Grounded, ScenariosStand
<1> QED BY <1>1 DEF ReadingsAreKept

LEMMA JudgedStays ==
    ASSUME JudgedByARubric, UNCHANGED <<attempts, rubrics, judgments>>
    PROVE  JudgedByARubric'
BY DEF JudgedByARubric, AttemptIds

LEMMA SituationStays ==
    ASSUME AttemptsStand, NEW c, SameSituation(c)
    PROVE  SameSituation(c)'
<1>1. \A turn : \A i \in Done : Before(i, turn)' = Before(i, turn)
  BY DEF AttemptsStand, Before
<1>2. PICK i, k : i = c.mapping["A"] /\ k = c.mapping["B"]
  OBVIOUS
<1>3. i \in Done /\ k \in Done /\ attempts[i].scenario = attempts[k].scenario
  BY <1>2 DEF SameSituation, Labels
<1>4. attempts'[i].scenario = attempts'[k].scenario
  BY <1>3 DEF AttemptsStand
<1>5. ASSUME NEW label \in Labels, NEW j, j = c.mapping[label]
      PROVE  j \in Done' /\ c.situation = <<attempts'[j].ran, attempts'[j].continues, Before(j, c.turn)'>>
  <2>1. j \in Done /\ c.situation = <<attempts[j].ran, attempts[j].continues, Before(j, c.turn)>>
    BY <1>5 DEF SameSituation
  <2> QED BY <2>1, <1>1 DEF AttemptsStand
<1> QED BY <1>2, <1>4, <1>5 DEF SameSituation

LEMMA ComparisonsStay ==
    ASSUME ComparisonsHold, UNCHANGED choiceVars, AttemptsStand
    PROVE  ComparisonsHold'
<1>1. Comparisons' = Comparisons /\ comparisons' = comparisons /\ told' = told
  BY DEF choiceVars, Comparisons
<1>2. \A c : ComparisonOK(c) => ComparisonOK(c)'
  BY DEF ComparisonOK, AttemptsStand
<1>3. \A c : SameSituation(c) => SameSituation(c)'
  BY SituationStays
<1> QED BY <1>1, <1>2, <1>3 DEF ComparisonsHold

LEMMA AttemptsUnchanged ==
    ASSUME UNCHANGED attempts
    PROVE  AttemptsStand
BY DEF AttemptsStand, Done, AttemptIds

LEMMA ScenariosUnchanged ==
    ASSUME UNCHANGED scenarios
    PROVE  ScenariosStand
BY DEF ScenariosStand

-----------------------------------------------------------------------------
(* Versions *)

\* Of the versions that are there one is the latest, and the next one is later.
LEMMA LatestFacts ==
    ASSUME LabTyped, VersionsTellApart, NEW slug \in Slugs
    PROVE  /\ VersionsOf(slug) # {} => Latest(slug) \in VersionsOf(slug)
           /\ NextVersion(slug) \in Nat \ {0}
           /\ NextVersion(slug) <= Len(scenarios) + 1
           /\ \A i \in VersionsOf(slug) : scenarios[i].version < NextVersion(slug)
<1> DEFINE Given == {scenarios[i].version : i \in VersionsOf(slug)}
           Numbers == {0} \cup Given
           Above == {n \in Nat : \A v \in Numbers : v <= n}
<1>1. /\ Len(scenarios) \in Nat
      /\ \A i \in VersionsOf(slug) :
            scenarios[i].version \in Nat \ {0} /\ scenarios[i].version <= Len(scenarios)
  BY RowTypes DEF VersionsOf, ScenarioIds, Scenario, VersionsTellApart
<1>2. \A v \in Numbers : v \in Nat /\ v <= Len(scenarios)
  BY <1>1
<1>3. Above \in SUBSET Nat /\ Len(scenarios) \in Above
  BY <1>1, <1>2
<1>4. PICK m \in Above : \A n \in Above : m <= n
  BY <1>3, LeastNat
<1>5. m \in Nat /\ \A v \in Numbers : v <= m
  BY <1>4
<1>6. m <= Len(scenarios)
  BY <1>3, <1>4
<1>7. m \in Numbers
  <2>1. ASSUME m \notin Numbers PROVE FALSE
    <3>1. m # 0
      BY <2>1
    <3>2. \A v \in Numbers : v <= m - 1
      BY <1>2, <1>5, <2>1
    <3>3. m - 1 \in Nat
      BY <1>5, <3>1
    <3>4. m - 1 \in Above
      BY <3>2, <3>3
    <3> QED BY <1>4, <1>5, <3>4
  <2> QED BY <2>1
<1>8. ASSUME VersionsOf(slug) # {} PROVE Latest(slug) \in VersionsOf(slug)
  <2>1. PICK j : j \in VersionsOf(slug) /\ scenarios[j].version = m
    <3>1. PICK k : k \in VersionsOf(slug)
      BY <1>8
    <3>2. scenarios[k].version \in Numbers
      BY <3>1
    <3>3. scenarios[k].version \in Nat \ {0} /\ scenarios[k].version <= m
      BY <1>1, <1>5, <3>1, <3>2
    <3>4. m # 0
      BY <1>5, <3>3
    <3>5. m \in Given
      BY <1>7, <3>4
    <3> QED BY <3>5
  <2>2. \A i \in VersionsOf(slug) : scenarios[i].version <= scenarios[j].version
    BY <1>5, <2>1
  <2> HIDE DEF Numbers, Above, Given
  <2> QED BY <2>1, <2>2 DEF Latest
<1>9. Max(Numbers) \in Numbers /\ \A v \in Numbers : Max(Numbers) >= v
  <2>1. \A v \in Numbers : m >= v
    BY <1>2, <1>5
  <2> HIDE DEF Numbers, Above, Given
  <2> QED BY <1>7, <2>1 DEF Max
<1>10. Max(Numbers) \in Nat /\ Max(Numbers) <= Len(scenarios)
  BY <1>2, <1>9
<1>11. NextVersion(slug) = Max(Numbers) + 1
  BY DEF NextVersion
<1>12. ASSUME NEW i \in VersionsOf(slug) PROVE scenarios[i].version < NextVersion(slug)
  <2>1. scenarios[i].version \in Numbers
    OBVIOUS
  <2>2. scenarios[i].version \in Nat /\ Max(Numbers) >= scenarios[i].version
    BY <1>2, <1>9, <2>1
  <2> HIDE DEF Numbers
  <2> QED BY <1>10, <1>11, <2>2
<1>13. NextVersion(slug) \in Nat \ {0} /\ NextVersion(slug) <= Len(scenarios) + 1
  <2> HIDE DEF Numbers
  <2> QED BY <1>1, <1>10, <1>11
<1> HIDE DEF Numbers, Above, Given
<1> QED BY <1>8, <1>12, <1>13

LEMMA AddScenarioKeeps ==
    ASSUME LabInv, NEW slug \in Slugs, NEW body \in Bodies, AddScenario(slug, body),
           UNCHANGED choiceVars
    PROVE  LabInv'
<1> DEFINE row == [there |-> TRUE, slug |-> slug, body |-> body, version |-> NextVersion(slug)]
<1>0. LabTyped /\ VersionsTellApart /\ Grounded /\ ReadingsAreKept /\ JudgedByARubric /\ ComparisonsHold
  BY DEF LabInv
<1>1. /\ NextVersion(slug) \in Nat \ {0} /\ NextVersion(slug) <= Len(scenarios) + 1
      /\ \A i \in VersionsOf(slug) : scenarios[i].version < NextVersion(slug)
  BY <1>0, LatestFacts
<1>2. /\ Len(scenarios) \in Nat /\ DOMAIN scenarios = 1 .. Len(scenarios)
      /\ scenarios \in Seq(Scenario)
      /\ \A i \in DOMAIN scenarios : scenarios[i].version \in Nat
  BY <1>0, RowTypes DEF LabTyped, Scenario
<1>3. row \in Scenario
  BY <1>1 DEF Scenario
<1>4. scenarios' = Append(scenarios, row)
  BY DEF AddScenario
<1>5. UNCHANGED <<runStatus, now, validation, madeAt, attempts, rubrics, judgments, readAt>>
  BY DEF AddScenario
<1>6. /\ scenarios' \in Seq(Scenario) /\ Len(scenarios') = Len(scenarios) + 1
      /\ DOMAIN scenarios' = 1 .. Len(scenarios) + 1
      /\ scenarios'[Len(scenarios) + 1] = row
      /\ \A i \in DOMAIN scenarios : scenarios'[i] = scenarios[i]
  <2> HIDE DEF row
  <2> QED BY <1>2, <1>3, <1>4
<1>7. LabTyped'
  BY <1>0, <1>5, <1>6 DEF LabTyped
<1>8. VersionsTellApart'
  <2>0. \A i \in ScenarioIds' : i # Len(scenarios) + 1 => i \in ScenarioIds /\ scenarios'[i] = scenarios[i]
    BY <1>2, <1>6 DEF ScenarioIds
  <2>1. ASSUME NEW i \in ScenarioIds' PROVE scenarios'[i].version <= Len(scenarios')
    <3>1. CASE i = Len(scenarios) + 1
      BY <1>1, <1>6, <3>1
    <3>2. CASE i # Len(scenarios) + 1
      <4>1. i \in ScenarioIds /\ scenarios'[i] = scenarios[i]
        BY <2>0, <3>2
      <4>2. scenarios[i].version <= Len(scenarios) /\ scenarios[i].version \in Nat
        BY <1>0, <1>2, <4>1 DEF VersionsTellApart, ScenarioIds
      <4> QED BY <4>1, <4>2, <1>2, <1>6
    <3> QED BY <3>1, <3>2
  <2>2. ASSUME NEW i \in ScenarioIds', i # Len(scenarios) + 1, scenarios'[i].slug = slug
        PROVE  scenarios'[i].version < NextVersion(slug) /\ scenarios'[i].version \in Nat
    <3>1. i \in VersionsOf(slug) /\ scenarios'[i] = scenarios[i] /\ i \in DOMAIN scenarios
      BY <2>0, <2>2 DEF VersionsOf, ScenarioIds
    <3> QED BY <3>1, <1>1, <1>2
  <2>3. ASSUME NEW i \in ScenarioIds', NEW k \in ScenarioIds',
               scenarios'[i].slug = scenarios'[k].slug, scenarios'[i].version = scenarios'[k].version
        PROVE  i = k
    <3>1. CASE i = Len(scenarios) + 1 /\ k # Len(scenarios) + 1
      <4>1. scenarios'[i].slug = slug /\ scenarios'[i].version = NextVersion(slug)
        BY <1>6, <3>1
      <4> QED BY <4>1, <2>2, <2>3, <3>1, <1>1
    <3>2. CASE i # Len(scenarios) + 1 /\ k = Len(scenarios) + 1
      <4>1. scenarios'[k].slug = slug /\ scenarios'[k].version = NextVersion(slug)
        BY <1>6, <3>2
      <4> QED BY <4>1, <2>2, <2>3, <3>2, <1>1
    <3>3. CASE i # Len(scenarios) + 1 /\ k # Len(scenarios) + 1
      <4>1. i \in ScenarioIds /\ k \in ScenarioIds /\ scenarios'[i] = scenarios[i] /\ scenarios'[k] = scenarios[k]
        BY <2>0, <3>3
      <4> QED BY <4>1, <2>3, <1>0 DEF VersionsTellApart
    <3> QED BY <3>1, <3>2, <3>3
  <2> QED BY <2>1, <2>3 DEF VersionsTellApart
<1>9. ScenariosStand /\ AttemptsStand
  BY <1>2, <1>5, <1>6, AttemptsUnchanged DEF ScenariosStand
<1>10. Grounded'
  <2>1. now <= now'
    BY <1>0, <1>5, EvidenceAssumption DEF LabTyped
  <2> QED BY <1>0, <1>5, <1>7, <1>9, <2>1, GroundedStays
<1>11. ReadingsAreKept'
  <2>1. runStatus' = "deleted" => ~validation'.made
    BY <1>0, <1>5 DEF ReadingsAreKept
  <2> QED BY <1>0, <1>5, <1>9, <2>1, ReadingsStay
<1>12. JudgedByARubric' /\ ComparisonsHold'
  BY <1>0, <1>5, <1>9, JudgedStays, ComparisonsStay
<1> QED BY <1>7, <1>8, <1>10, <1>11, <1>12 DEF LabInv

LEMMA InvParts ==
    ASSUME LabInv
    PROVE  LabTyped /\ VersionsTellApart /\ Grounded /\ ReadingsAreKept /\ JudgedByARubric /\ ComparisonsHold
BY DEF LabInv

\* A step that leaves scenarios and attempts alone.
LEMMA QuietKeeps ==
    ASSUME LabInv, LabTyped', JudgedByARubric', now <= now',
           UNCHANGED <<runStatus, scenarios, attempts, readAt, choiceVars>>,
           runStatus = "deleted" => ~validation'.made
    PROVE  LabInv'
<1>1. LabTyped /\ VersionsTellApart /\ Grounded /\ ReadingsAreKept /\ JudgedByARubric /\ ComparisonsHold
  BY InvParts
<1>2. ScenariosStand /\ AttemptsStand
  BY AttemptsUnchanged, ScenariosUnchanged
<1>3. VersionsTellApart' /\ Grounded' /\ ReadingsAreKept' /\ ComparisonsHold'
  BY <1>1, <1>2, VersionsStay, GroundedStays, ReadingsStay, ComparisonsStay
<1> QED BY <1>3 DEF LabInv

LEMMA NowIsNumber == LabTyped => now \in Nat
BY EvidenceAssumption DEF LabTyped

LEMMA TickKeeps ==
    ASSUME LabInv, Tick, UNCHANGED choiceVars
    PROVE  LabInv'
<1>1. now \in Nat /\ MaxTime \in Nat /\ now' = now + 1 /\ now' \in 0 .. MaxTime
  BY InvParts, EvidenceAssumption, NowIsNumber DEF Tick, LabTyped
<1>2. LabTyped'
  BY <1>1, InvParts DEF LabTyped, Tick
<1>3. JudgedByARubric'
  BY InvParts, JudgedStays DEF Tick
<1>4. runStatus = "deleted" => ~validation'.made
  BY InvParts DEF ReadingsAreKept, Tick
<1> QED BY <1>1, <1>2, <1>3, <1>4, QuietKeeps DEF Tick

LEMMA AddSetKeeps ==
    ASSUME LabInv, NEW items \in SUBSET Slugs, AddSet(items), UNCHANGED choiceVars
    PROVE  LabInv'
<1>1. validation' \in ScenarioSet
  BY DEF AddSet, ScenarioSet
<1>2. LabTyped'
  BY <1>1, InvParts DEF LabTyped, AddSet
<1>3. JudgedByARubric'
  BY InvParts, JudgedStays DEF AddSet
<1> QED BY <1>2, <1>3, QuietKeeps, InvParts, NowIsNumber DEF AddSet

LEMMA ChangeSetKeeps ==
    ASSUME LabInv, NEW add \in SUBSET Slugs, NEW remove \in SUBSET Slugs, NEW reason \in BOOLEAN,
           ChangeSet(add, remove, reason), UNCHANGED choiceVars
    PROVE  LabInv'
<1>1. validation \in ScenarioSet
  BY InvParts DEF LabTyped
<1>2. validation' \in ScenarioSet
  BY <1>1 DEF ChangeSet, ScenarioSet
<1>3. LabTyped'
  BY <1>2, InvParts DEF LabTyped, ChangeSet
<1>4. JudgedByARubric'
  BY InvParts, JudgedStays DEF ChangeSet
<1> QED BY <1>3, <1>4, QuietKeeps, InvParts, NowIsNumber DEF ChangeSet

LEMMA MakeCandidateKeeps ==
    ASSUME LabInv, MakeCandidate, UNCHANGED choiceVars
    PROVE  LabInv'
<1>1. madeAt' \in Seq(CandidateTime)
  BY InvParts DEF LabTyped, MakeCandidate, CandidateTime
<1>2. LabTyped'
  BY <1>1, InvParts DEF LabTyped, MakeCandidate
<1>3. JudgedByARubric'
  BY InvParts, JudgedStays DEF MakeCandidate
<1>4. runStatus = "deleted" => ~validation'.made
  BY DEF MakeCandidate
<1> QED BY <1>2, <1>3, <1>4, QuietKeeps, InvParts, NowIsNumber DEF MakeCandidate

LEMMA SetRubricKeeps ==
    ASSUME LabInv, NEW criteria \in Rubrics, NEW reason \in BOOLEAN,
           SetRubric(criteria, reason), UNCHANGED choiceVars
    PROVE  LabInv'
<1>1. rubrics \in Seq(Rubrics) /\ rubrics' = Append(rubrics, criteria)
  BY InvParts DEF LabTyped, SetRubric
<1>2. /\ rubrics' \in Seq(Rubrics) /\ Len(rubrics) \in Nat /\ Len(rubrics') = Len(rubrics) + 1
      /\ \A v \in 1 .. Len(rubrics) : rubrics'[v] = rubrics[v]
  BY <1>1
<1>3. LabTyped'
  BY <1>2, InvParts DEF LabTyped, SetRubric
<1>4. JudgedByARubric'
  <2>1. attempts' = attempts /\ judgments' = judgments
    BY DEF SetRubric
  <2>2. ASSUME NEW j \in judgments
        PROVE  j.attempt \in AttemptIds /\ j.version <= Len(rubrics') /\ j.criterion \in rubrics'[j.version]
    <3>1. j.version \in Nat \ {0}
      BY InvParts DEF LabTyped, Judgment
    <3>2. j.attempt \in AttemptIds /\ j.version <= Len(rubrics) /\ j.criterion \in rubrics[j.version]
      BY InvParts DEF JudgedByARubric
    <3> QED BY <3>1, <3>2, <1>2
  <2> QED BY <2>1, <2>2 DEF JudgedByARubric, AttemptIds
<1>5. runStatus = "deleted" => ~validation'.made
  BY DEF SetRubric
<1> QED BY <1>3, <1>4, <1>5, QuietKeeps, InvParts, NowIsNumber DEF SetRubric

LEMMA AddJudgmentKeeps ==
    ASSUME LabInv, NEW i \in DOMAIN attempts, NEW criterion \in Criteria,
           AddJudgment(i, criterion), UNCHANGED choiceVars
    PROVE  LabInv'
<1> DEFINE row == [attempt |-> i, criterion |-> criterion, version |-> Len(rubrics)]
<1>1. rubrics \in Seq(Rubrics) /\ rubrics # << >> /\ judgments' = judgments \cup {row}
  BY InvParts DEF LabTyped, AddJudgment
<1>2. Len(rubrics) \in Nat \ {0}
  BY <1>1
<1>3. i \in Nat \ {0} /\ i \in AttemptIds
  BY RowTypes, InvParts DEF AddJudgment, Done
<1>4. row \in Judgment
  BY <1>2, <1>3 DEF Judgment
<1>5. LabTyped'
  <2> HIDE DEF row
  <2> QED BY <1>1, <1>4, InvParts DEF LabTyped, AddJudgment
<1>6. JudgedByARubric'
  <2>1. rubrics' = rubrics /\ attempts' = attempts
    BY DEF AddJudgment
  <2>2. \A j \in judgments : /\ j.attempt \in AttemptIds
                             /\ j.version <= Len(rubrics) /\ j.criterion \in rubrics[j.version]
    BY InvParts DEF JudgedByARubric
  <2>3. row.attempt \in AttemptIds /\ row.version <= Len(rubrics) /\ row.criterion \in rubrics[row.version]
    BY <1>2, <1>3 DEF AddJudgment
  <2>4. AttemptIds' = AttemptIds
    BY <2>1 DEF AttemptIds
  <2> HIDE DEF row
  <2> QED BY <1>1, <2>1, <2>2, <2>3, <2>4 DEF JudgedByARubric
<1>7. runStatus = "deleted" => ~validation'.made
  BY InvParts DEF AddJudgment, ReadingsAreKept
<1> QED BY <1>5, <1>6, <1>7, QuietKeeps, InvParts, NowIsNumber DEF AddJudgment

-----------------------------------------------------------------------------
(* Attempts *)

LEMMA JudgedStaysToo ==
    ASSUME JudgedByARubric, AttemptIds \subseteq AttemptIds', UNCHANGED <<rubrics, judgments>>
    PROVE  JudgedByARubric'
BY DEF JudgedByARubric

LEMMA SubmitAttemptKeeps ==
    ASSUME LabInv, NEW slug \in Slugs, NEW candidate \in {Baseline} \cup DOMAIN madeAt,
           NEW previous \in {0} \cup DOMAIN attempts, SubmitAttempt(slug, candidate, previous),
           UNCHANGED choiceVars
    PROVE  LabInv'
<1> DEFINE row == [scenario |-> Latest(slug), candidate |-> candidate, continues |-> previous,
                   status |-> "queued", viewed |-> NoTime, result |-> "none", ran |-> "none"]
           n == Len(attempts) + 1
<1>0. LabTyped /\ VersionsTellApart /\ Grounded /\ ReadingsAreKept /\ JudgedByARubric /\ ComparisonsHold
  BY InvParts
<1>1. Latest(slug) \in VersionsOf(slug)
  BY <1>0, LatestFacts DEF SubmitAttempt
<1>2. Latest(slug) \in ScenarioIds /\ Latest(slug) \in DOMAIN scenarios /\ Latest(slug) \in Nat
  BY <1>0, <1>1, RowTypes DEF VersionsOf, ScenarioIds
<1>3. /\ attempts \in Seq(AttemptRow) /\ Len(attempts) \in Nat /\ DOMAIN attempts = 1 .. Len(attempts)
      /\ candidate \in Nat /\ previous \in Nat /\ previous <= Len(attempts)
  BY <1>0, RowTypes DEF LabTyped, Baseline
<1>4. row \in AttemptRow
  BY <1>2, <1>3 DEF AttemptRow
<1>5. attempts' = Append(attempts, row)
  BY DEF SubmitAttempt
<1>6. UNCHANGED <<runStatus, now, scenarios, validation, madeAt, rubrics, judgments, readAt>>
  BY DEF SubmitAttempt
<1>7. /\ attempts' \in Seq(AttemptRow) /\ Len(attempts') = n /\ DOMAIN attempts' = 1 .. n
      /\ attempts'[n] = row /\ \A i \in DOMAIN attempts : attempts'[i] = attempts[i]
      /\ n \notin DOMAIN attempts /\ n \in DOMAIN attempts'
      /\ DOMAIN attempts' = DOMAIN attempts \cup {n}
  <2> HIDE DEF row
  <2> QED BY <1>3, <1>4, <1>5
<1>8. row.status = "queued" /\ row.scenario = Latest(slug) /\ row.viewed = NoTime /\ row.continues = previous
  OBVIOUS
<1> HIDE DEF row, n
<1>9. LabTyped'
  BY <1>0, <1>6, <1>7 DEF LabTyped
<1>10. AttemptIds' = AttemptIds \cup {n} /\ Done' = Done
  BY <1>7, <1>8 DEF AttemptIds, Done
<1>11. AttemptsStand /\ ScenariosStand
  BY <1>6, <1>7, <1>10, ScenariosUnchanged DEF AttemptsStand, Done, AttemptIds
<1>12. VersionsTellApart' /\ ComparisonsHold'
  BY <1>0, <1>6, <1>11, VersionsStay, ComparisonsStay
<1>13. JudgedByARubric'
  BY <1>0, <1>6, <1>10, JudgedStaysToo
<1>14. Grounded'
  <2>0. now \in Nat /\ now' = now /\ scenarios' = scenarios /\ ScenarioIds' = ScenarioIds
    BY <1>0, <1>6, NowIsNumber DEF ScenarioIds
  <2>1. ASSUME NEW i \in DOMAIN attempts', i # n
        PROVE  /\ i \in DOMAIN attempts /\ attempts'[i] = attempts[i]
               /\ attempts[i].continues \in Nat /\ attempts[i].continues <= Len(attempts)
    BY <1>0, <1>3, <1>7, <2>1, RowTypes DEF Grounded, AttemptRow
  <2>2. ASSUME NEW i \in DOMAIN attempts'
        PROVE  /\ attempts'[i].scenario \in DOMAIN scenarios
               /\ attempts'[i].continues <= Len(attempts')
               /\ attempts'[i].viewed <= now
               /\ attempts'[i].status = "queued" => attempts'[i].viewed = NoTime
               /\ i \in AttemptIds' => attempts'[i].scenario \in ScenarioIds
               /\ i \in Done' => /\ attempts'[i].result \in Results
                                 /\ attempts'[i].ran = scenarios[attempts'[i].scenario].body
    <3>1. CASE i = n
      <4>1. i \notin Done'
        BY <3>1, <1>7, <1>8 DEF Done
      <4>2. previous <= Len(attempts')
        BY <1>3, <1>7 DEF n
      <4> QED BY <3>1, <4>1, <4>2, <1>2, <1>7, <1>8, <2>0 DEF NoTime
    <3>2. CASE i # n
      <4>1. i \in DOMAIN attempts /\ attempts'[i] = attempts[i]
        BY <2>1, <3>2
      <4>2. attempts'[i].continues <= Len(attempts')
        BY <2>1, <3>2, <1>3, <1>7 DEF n
      <4>3. (i \in AttemptIds' <=> i \in AttemptIds) /\ (i \in Done' <=> i \in Done)
        BY <1>10, <3>2
      <4> QED BY <4>1, <4>2, <4>3, <1>0 DEF Grounded
    <3> QED BY <3>1, <3>2
  <2> QED BY <2>0, <2>2 DEF Grounded
<1>15. ReadingsAreKept'
  <2>1. \A i \in Done : attempts'[i] = attempts[i] /\ SlugOf(i)' = SlugOf(i)
    BY <1>6, <1>7 DEF Done, AttemptIds, SlugOf
  <2> QED BY <1>0, <1>6, <1>10, <2>1 DEF ReadingsAreKept
<1> QED BY <1>9, <1>12, <1>13, <1>14, <1>15 DEF LabInv

LEMMA AttemptRunsKeeps ==
    ASSUME LabInv, NEW i \in DOMAIN attempts, NEW result \in Results, AttemptRuns(i, result),
           UNCHANGED choiceVars
    PROVE  LabInv'
<1>0. LabTyped /\ VersionsTellApart /\ Grounded /\ ReadingsAreKept /\ JudgedByARubric /\ ComparisonsHold
  BY InvParts
<1>1. UNCHANGED <<runStatus, now, scenarios, validation, madeAt, rubrics, judgments, readAt>>
  BY DEF AttemptRuns
<1>2. attempts \in Seq(AttemptRow) /\ attempts[i] \in AttemptRow /\ attempts[i].status = "queued"
  BY <1>0, RowTypes DEF LabTyped, AttemptRuns
<1>3. PICK body : body = scenarios[attempts[i].scenario].body
  OBVIOUS
<1>4. body \in Bodies
  BY <1>0, <1>3, RowTypes DEF Grounded, Scenario
<1>5. PICK row : row = [attempts[i] EXCEPT !.status = "done", !.result = result, !.ran = body]
  OBVIOUS
<1>6. /\ row \in AttemptRow /\ row.scenario = attempts[i].scenario /\ row.viewed = attempts[i].viewed
      /\ row.continues = attempts[i].continues /\ row.status = "done" /\ row.result = result /\ row.ran = body
  BY <1>2, <1>4, <1>5 DEF AttemptRow
<1>7. attempts' = [attempts EXCEPT ![i] = row]
  BY <1>2, <1>3, <1>5 DEF AttemptRuns, AttemptRow
<1>8. /\ attempts' \in Seq(AttemptRow) /\ DOMAIN attempts' = DOMAIN attempts /\ Len(attempts') = Len(attempts)
      /\ attempts'[i] = row /\ \A k \in DOMAIN attempts : k # i => attempts'[k] = attempts[k]
  BY <1>2, <1>6, <1>7
<1>9. LabTyped'
  BY <1>0, <1>1, <1>8 DEF LabTyped
<1>10. AttemptIds' = AttemptIds /\ Done' = Done \cup {i} /\ i \notin Done
  BY <1>2, <1>6, <1>8 DEF AttemptIds, Done
<1>11. AttemptsStand /\ ScenariosStand
  BY <1>1, <1>8, <1>10, ScenariosUnchanged DEF AttemptsStand, Done, AttemptIds
<1>12. VersionsTellApart' /\ ComparisonsHold'
  BY <1>0, <1>1, <1>11, VersionsStay, ComparisonsStay
<1>13. JudgedByARubric'
  BY <1>0, <1>1, <1>10, JudgedStaysToo
<1>14. Grounded'
  <2>0. now' = now /\ scenarios' = scenarios /\ ScenarioIds' = ScenarioIds
    BY <1>1 DEF ScenarioIds
  <2>1. ASSUME NEW k \in DOMAIN attempts'
        PROVE  /\ attempts'[k].scenario \in DOMAIN scenarios
               /\ attempts'[k].continues <= Len(attempts')
               /\ attempts'[k].viewed <= now
               /\ attempts'[k].status = "queued" => attempts'[k].viewed = NoTime
               /\ k \in AttemptIds' => attempts'[k].scenario \in ScenarioIds
               /\ k \in Done' => /\ attempts'[k].result \in Results
                                 /\ attempts'[k].ran = scenarios[attempts'[k].scenario].body
    <3>1. CASE k = i
      BY <3>1, <1>0, <1>3, <1>6, <1>8, <1>10 DEF Grounded
    <3>2. CASE k # i
      BY <3>2, <1>0, <1>8, <1>10 DEF Grounded
    <3> QED BY <3>1, <3>2
  <2> QED BY <2>0, <2>1 DEF Grounded
<1>15. ReadingsAreKept'
  <2>1. \A k \in DOMAIN attempts : attempts'[k].viewed = attempts[k].viewed /\ SlugOf(k)' = SlugOf(k)
    BY <1>1, <1>6, <1>8 DEF SlugOf
  <2>2. \A k \in Done : k \in DOMAIN attempts
    BY DEF Done, AttemptIds
  <2>3. attempts[i].viewed = NoTime
    BY <1>0, <1>2 DEF Grounded
  <2> QED BY <1>0, <1>1, <1>10, <2>1, <2>2, <2>3 DEF ReadingsAreKept
<1> QED BY <1>9, <1>12, <1>13, <1>14, <1>15 DEF LabInv

LEMMA ReadAttemptKeeps ==
    ASSUME LabInv, NEW i \in DOMAIN attempts, ReadAttempt(i), UNCHANGED choiceVars
    PROVE  LabInv'
<1>0. LabTyped /\ VersionsTellApart /\ Grounded /\ ReadingsAreKept /\ JudgedByARubric /\ ComparisonsHold
  BY InvParts
<1>1. UNCHANGED <<runStatus, now, scenarios, validation, madeAt, rubrics, judgments>> /\ i \in Done
  BY DEF ReadAttempt
<1>2. attempts \in Seq(AttemptRow) /\ attempts[i] \in AttemptRow /\ attempts[i].status = "done"
  BY <1>0, <1>1, RowTypes DEF LabTyped, Done
<1>3. PICK at, s : at = Viewed(attempts[i].viewed) /\ s = SlugOf(i)
  OBVIOUS
<1>4. now \in Nat /\ at \in Nat /\ at <= now /\ at # NoTime
  BY <1>0, <1>2, <1>3, NowIsNumber DEF Viewed, NoTime, AttemptRow, Grounded
<1>5. s \in Slugs
  BY <1>0, <1>3, RowTypes DEF Grounded, Scenario, SlugOf
<1>6. PICK row : row = [attempts[i] EXCEPT !.viewed = at]
  OBVIOUS
<1>7. /\ row \in AttemptRow /\ row.scenario = attempts[i].scenario /\ row.viewed = at
      /\ row.continues = attempts[i].continues /\ row.status = "done"
      /\ row.result = attempts[i].result /\ row.ran = attempts[i].ran
  BY <1>2, <1>4, <1>6 DEF AttemptRow
<1>8. attempts' = [attempts EXCEPT ![i] = row]
  BY <1>2, <1>3, <1>6 DEF ReadAttempt
<1>9. /\ attempts' \in Seq(AttemptRow) /\ DOMAIN attempts' = DOMAIN attempts /\ Len(attempts') = Len(attempts)
      /\ attempts'[i] = row /\ \A k \in DOMAIN attempts : k # i => attempts'[k] = attempts[k]
  BY <1>2, <1>7, <1>8
<1>10. PICK mark : mark = IF readAt.detail[s] = NoTime THEN now ELSE readAt.detail[s]
  OBVIOUS
<1>11. /\ readAt' \in [detail : [Slugs -> {NoTime} \cup Nat], overview : [Slugs -> {NoTime} \cup Nat]]
       /\ readAt'.detail[s] = mark /\ mark # NoTime
       /\ \A t \in Slugs : t # s => readAt'.detail[t] = readAt.detail[t]
  <2>1. PICK times : times = FirstRead(readAt.detail, {s})
    OBVIOUS
  <2>2. mark \in Nat /\ mark # NoTime
    BY <1>0, <1>4, <1>5, <1>10 DEF LabTyped, NoTime
  <2>3. readAt \in [detail : [Slugs -> {NoTime} \cup Nat], overview : [Slugs -> {NoTime} \cup Nat]]
    BY <1>0 DEF LabTyped
  <2>4. /\ times \in [Slugs -> {NoTime} \cup Nat] /\ times[s] = mark
        /\ \A t \in Slugs : t # s => times[t] = readAt.detail[t]
    BY <1>4, <1>5, <1>10, <2>1, <2>3 DEF FirstRead
  <2>5. readAt' = [readAt EXCEPT !.detail = times]
    BY <1>3, <2>1 DEF ReadAttempt
  <2> QED BY <2>2, <2>3, <2>4, <2>5
<1>12. LabTyped'
  BY <1>0, <1>1, <1>9, <1>11 DEF LabTyped
<1>13. AttemptIds' = AttemptIds /\ Done' = Done
  BY <1>2, <1>7, <1>9 DEF AttemptIds, Done
<1>14. AttemptsStand /\ ScenariosStand
  BY <1>1, <1>7, <1>9, <1>13, ScenariosUnchanged DEF AttemptsStand, Done, AttemptIds
<1>15. VersionsTellApart' /\ ComparisonsHold'
  BY <1>0, <1>1, <1>14, VersionsStay, ComparisonsStay
<1>16. JudgedByARubric'
  BY <1>0, <1>1, <1>13, JudgedStaysToo
<1>17. Grounded'
  <2>0. now' = now /\ scenarios' = scenarios /\ ScenarioIds' = ScenarioIds
    BY <1>1 DEF ScenarioIds
  <2>1. ASSUME NEW k \in DOMAIN attempts'
        PROVE  /\ attempts'[k].scenario \in DOMAIN scenarios
               /\ attempts'[k].continues <= Len(attempts')
               /\ attempts'[k].viewed <= now
               /\ attempts'[k].status = "queued" => attempts'[k].viewed = NoTime
               /\ k \in AttemptIds' => attempts'[k].scenario \in ScenarioIds
               /\ k \in Done' => /\ attempts'[k].result \in Results
                                 /\ attempts'[k].ran = scenarios[attempts'[k].scenario].body
    <3>1. CASE k = i
      BY <3>1, <1>0, <1>1, <1>4, <1>7, <1>9, <1>13 DEF Grounded
    <3>2. CASE k # i
      BY <3>2, <1>0, <1>9, <1>13 DEF Grounded
    <3> QED BY <3>1, <3>2
  <2> QED BY <2>0, <2>1 DEF Grounded
<1>18. ReadingsAreKept'
  <2>1. \A k \in DOMAIN attempts : SlugOf(k)' = SlugOf(k)
    BY <1>1, <1>7, <1>9 DEF SlugOf
  <2>2. \A k \in Done : k \in DOMAIN attempts /\ SlugOf(k) \in Slugs
    BY <1>0, RowTypes DEF Done, AttemptIds, Grounded, Scenario, SlugOf
  <2>3. ASSUME NEW k \in Done, attempts'[k].viewed # NoTime PROVE readAt'.detail[SlugOf(k)] # NoTime
    <3>1. CASE SlugOf(k) = s
      BY <3>1, <1>11
    <3>2. CASE SlugOf(k) # s
      <4>1. k # i
        BY <3>2, <1>3
      <4>2. attempts[k].viewed # NoTime
        BY <4>1, <2>2, <2>3, <1>9
      <4> QED BY <4>2, <3>2, <2>2, <1>0, <1>11 DEF ReadingsAreKept
    <3> QED BY <3>1, <3>2
  <2>4. ASSUME runStatus # "deleted", NEW t \in Slugs, readAt'.detail[t] # NoTime
        PROVE  \E k \in Done : SlugOf(k) = t /\ attempts'[k].viewed = readAt'.detail[t]
    <3>1. CASE readAt.detail[t] = NoTime
      <4>1. t = s /\ readAt'.detail[t] = now
        BY <3>1, <2>4, <1>10, <1>11
      <4>2. attempts[i].viewed = NoTime
        BY <4>1, <3>1, <1>0, <1>1, <1>3 DEF ReadingsAreKept
      <4>3. at = now
        BY <4>2, <1>3 DEF Viewed
      <4> QED BY <4>1, <4>3, <1>1, <1>3, <1>7, <1>9
    <3>2. CASE readAt.detail[t] # NoTime
      <4>1. PICK k \in Done : SlugOf(k) = t /\ attempts[k].viewed = readAt.detail[t]
        BY <3>2, <2>4, <1>0 DEF ReadingsAreKept
      <4>2. readAt'.detail[t] = readAt.detail[t]
        BY <3>2, <1>10, <1>11
      <4>3. attempts'[k].viewed = attempts[k].viewed
        <5>1. CASE k = i
          BY <5>1, <4>1, <3>2, <1>3, <1>7, <1>9 DEF Viewed
        <5>2. CASE k # i
          BY <5>2, <4>1, <2>2, <1>9
        <5> QED BY <5>1, <5>2
      <4> QED BY <4>1, <4>2, <4>3
    <3> QED BY <3>1, <3>2
  <2>5. \A k \in Done : SlugOf(k)' = SlugOf(k)
    BY <2>1, <2>2
  <2>6. runStatus' = runStatus /\ (runStatus = "deleted" => ~validation'.made)
    BY <1>0, <1>1 DEF ReadingsAreKept
  <2> QED BY <1>13, <2>3, <2>4, <2>5, <2>6 DEF ReadingsAreKept
<1> QED BY <1>12, <1>15, <1>16, <1>17, <1>18 DEF LabInv

\* An overview is read, of which no attempt knows.
LEMMA ReadOverviewKeeps ==
    ASSUME LabInv, NEW A \in SUBSET Done, ReadOverview(A), UNCHANGED choiceVars
    PROVE  LabInv'
<1>0. LabTyped /\ VersionsTellApart /\ Grounded /\ ReadingsAreKept /\ JudgedByARubric /\ ComparisonsHold
  BY InvParts
<1>1. UNCHANGED <<runStatus, now, scenarios, validation, madeAt, attempts, rubrics, judgments>>
  BY DEF ReadOverview
<1>2. PICK times : times = FirstRead(readAt.overview, {SlugOf(i) : i \in A})
  OBVIOUS
<1>3. readAt' = [readAt EXCEPT !.overview = times]
  BY <1>2 DEF ReadOverview
<1>4. readAt \in [detail : [Slugs -> {NoTime} \cup Nat], overview : [Slugs -> {NoTime} \cup Nat]]
  BY <1>0 DEF LabTyped
<1>5. now \in Nat
  BY <1>0, NowIsNumber
<1>6. times \in [Slugs -> {NoTime} \cup Nat]
  BY <1>2, <1>4, <1>5 DEF FirstRead
<1>7. /\ readAt' \in [detail : [Slugs -> {NoTime} \cup Nat], overview : [Slugs -> {NoTime} \cup Nat]]
      /\ readAt'.detail = readAt.detail
  BY <1>3, <1>4, <1>6
<1>8. LabTyped'
  BY <1>0, <1>1, <1>7 DEF LabTyped
<1>9. AttemptsStand /\ ScenariosStand /\ now <= now'
  BY <1>1, <1>5, AttemptsUnchanged, ScenariosUnchanged
<1>10. VersionsTellApart' /\ ComparisonsHold' /\ JudgedByARubric' /\ Grounded'
  BY <1>0, <1>1, <1>8, <1>9, VersionsStay, ComparisonsStay, JudgedStays, GroundedStays
<1>11. Done' = Done /\ \A i \in Done : SlugOf(i)' = SlugOf(i)
  BY <1>1 DEF Done, AttemptIds, SlugOf
<1>12. ReadingsAreKept'
  BY <1>0, <1>1, <1>7, <1>11 DEF ReadingsAreKept
<1> QED BY <1>8, <1>10, <1>12 DEF LabInv

\* Comparisons that are withdrawn or deleted.
LEMMA WithoutKeeps ==
    ASSUME ComparisonsHold, NEW gone \in SUBSET Comparisons, NEW status \in {"withdrawn", "deleted"},
           Without(gone, status), UNCHANGED told, status = "withdrawn" => gone \subseteq Pending,
           \A i \in DOMAIN attempts : i \in DOMAIN attempts',
           \A c \in Comparisons : \/ c \in gone /\ status = "deleted"
                                  \/ \A d : SameSituation(d) /\ d = comparisons[c] => SameSituation(d)'
    PROVE  ComparisonsHold'
<1>1. /\ DOMAIN comparisons' = DOMAIN comparisons
      /\ \A c \in gone : c \in DOMAIN comparisons /\ comparisons'[c] = [comparisons[c] EXCEPT !.status = status]
      /\ \A c \in DOMAIN comparisons : c \notin gone => comparisons'[c] = comparisons[c]
  BY DEF Without, Comparisons
<1>2. told' \subseteq DOMAIN comparisons'
  BY <1>1 DEF ComparisonsHold
<1>3. ASSUME NEW c \in DOMAIN comparisons'
      PROVE  /\ ComparisonOK(comparisons[c])'
             /\ c \in Comparisons' =>
                   /\ SameSituation(comparisons[c])'
                   /\ (comparisons'[c].choices # << >>) <=> (comparisons'[c].status = "answered")
  <2>0. PICK was, row : was = comparisons[c] /\ row = comparisons'[c]
    OBVIOUS
  <2>1. ComparisonOK(was) /\ was \in ComparisonRow
    BY <1>1, <1>3, <2>0 DEF ComparisonsHold
  <2>2. c \in gone => row = [was EXCEPT !.status = status]
    BY <1>1, <2>0
  <2>3. c \notin gone => row = was
    BY <1>1, <1>3, <2>0
  <2>4. /\ row.mapping = was.mapping /\ row.turn = was.turn /\ row.situation = was.situation
        /\ row.revealed = was.revealed /\ row.choices = was.choices
        /\ c \notin gone => row.status = was.status
        /\ c \in gone => row.status = status
    BY <2>1, <2>2, <2>3 DEF ComparisonRow
  <2>5. ComparisonOK(row)'
    BY <2>1, <2>4 DEF ComparisonOK
  <2>6. ASSUME c \in Comparisons' PROVE c \in Comparisons /\ ~(c \in gone /\ status = "deleted")
    BY <2>6, <1>1, <2>0, <2>4 DEF Comparisons
  <2>7. ASSUME c \in Comparisons' PROVE SameSituation(row)'
    <3>1. SameSituation(was)
      BY <1>1, <1>3, <2>0, <2>6, <2>7 DEF ComparisonsHold
    <3>2. SameSituation(was)'
      BY <2>0, <2>6, <2>7, <3>1
    <3>3. (SameSituation(was) => SameSituation(row))'
      BY <2>4 DEF SameSituation
    <3> QED BY <3>2, <3>3
  <2>8. ASSUME c \in Comparisons'
        PROVE  (row.choices # << >>) <=> (row.status = "answered")
    <3>1. (was.choices # << >>) <=> (was.status = "answered")
      BY <1>1, <1>3, <2>0, <2>6, <2>8 DEF ComparisonsHold
    <3>2. c \in gone => was.status = "pending" /\ status = "withdrawn"
      BY <2>0, <2>6, <2>8 DEF Pending
    <3> QED BY <3>1, <3>2, <2>4
  <2> QED BY <2>0, <2>5, <2>7, <2>8
<1>4. comparisons' \in Seq(ComparisonRow)
  <2>1. comparisons \in Seq(ComparisonRow) /\ DOMAIN comparisons = 1 .. Len(comparisons) /\ Len(comparisons) \in Nat
    BY DEF ComparisonsHold
  <2>2. ASSUME NEW c \in DOMAIN comparisons PROVE comparisons'[c] \in ComparisonRow
    <3>1. PICK was : was = comparisons[c] /\ was \in ComparisonRow
      BY <2>1
    <3>2. CASE c \in gone
      BY <1>1, <3>1, <3>2 DEF ComparisonRow
    <3>3. CASE c \notin gone
      BY <1>1, <3>1, <3>3
    <3> QED BY <3>2, <3>3
  <2>3. comparisons' = [c \in 1 .. Len(comparisons) |-> comparisons'[c]]
    BY <2>1 DEF Without
  <2> QED BY <2>1, <2>2, <2>3
<1> QED BY <1>2, <1>3, <1>4 DEF ComparisonsHold

LEMMA EndRunKeeps ==
    ASSUME LabInv, EndRun, Without(Pending, "withdrawn"), UNCHANGED told
    PROVE  LabInv'
<1>0. LabTyped /\ VersionsTellApart /\ Grounded /\ ReadingsAreKept /\ JudgedByARubric /\ ComparisonsHold
  BY InvParts
<1>1. /\ UNCHANGED <<now, scenarios, validation, madeAt, rubrics, judgments, readAt>>
      /\ runStatus = "active" /\ runStatus' = "finished"
  BY DEF EndRun
<1>2. /\ attempts \in Seq(AttemptRow) /\ Len(attempts) \in Nat /\ DOMAIN attempts = 1 .. Len(attempts)
      /\ \A i \in DOMAIN attempts : attempts[i] \in AttemptRow
  BY <1>0, RowTypes DEF LabTyped
<1>3. /\ DOMAIN attempts' = DOMAIN attempts
      /\ \A i \in DOMAIN attempts :
            IF attempts[i].status = "queued" THEN attempts'[i] = [attempts[i] EXCEPT !.status = "cancelled"]
            ELSE attempts'[i] = attempts[i]
  BY DEF EndRun
<1>4. ASSUME NEW i \in DOMAIN attempts
      PROVE  /\ attempts'[i] \in AttemptRow /\ attempts'[i].scenario = attempts[i].scenario
             /\ attempts'[i].viewed = attempts[i].viewed /\ attempts'[i].continues = attempts[i].continues
             /\ attempts'[i].result = attempts[i].result /\ attempts'[i].ran = attempts[i].ran
             /\ attempts'[i].status # "queued"
             /\ attempts[i].status = "queued" => attempts'[i].status = "cancelled"
             /\ attempts[i].status # "queued" => attempts'[i].status = attempts[i].status
  <2>1. PICK was, row : was = attempts[i] /\ row = attempts'[i]
    OBVIOUS
  <2>2. was \in AttemptRow
    BY <1>2, <2>1
  <2>3. CASE was.status = "queued"
    <3>1. row = [was EXCEPT !.status = "cancelled"]
      BY <1>3, <2>1, <2>3
    <3> QED BY <2>1, <2>2, <2>3, <3>1 DEF AttemptRow
  <2>4. CASE was.status # "queued"
    BY <1>3, <2>1, <2>2, <2>4
  <2> QED BY <2>3, <2>4
<1>5. attempts' \in Seq(AttemptRow) /\ Len(attempts') = Len(attempts)
  <2>1. attempts' = [i \in 1 .. Len(attempts) |-> attempts'[i]]
    BY <1>2 DEF EndRun
  <2> QED BY <1>2, <1>4, <2>1
<1>6. LabTyped'
  BY <1>0, <1>1, <1>5 DEF LabTyped, RunStatus
<1>7. AttemptIds' = AttemptIds /\ Done' = Done
  BY <1>3, <1>4 DEF AttemptIds, Done
<1>8. AttemptsStand /\ ScenariosStand
  BY <1>1, <1>3, <1>4, <1>7, ScenariosUnchanged DEF AttemptsStand, Done, AttemptIds
<1>9. VersionsTellApart'
  BY <1>0, <1>1, VersionsStay
<1>10. ComparisonsHold'
  <2>1. Pending \in SUBSET Comparisons
    BY DEF Pending
  <2>2. \A i \in DOMAIN attempts : i \in DOMAIN attempts'
    BY <1>3
  <2>3. \A c \in Comparisons : \A d : SameSituation(d) /\ d = comparisons[c] => SameSituation(d)'
    BY <1>8, SituationStays
  <2>4. PICK gone, status : gone = Pending /\ status = "withdrawn"
    OBVIOUS
  <2>5. Without(gone, status)
    BY <2>4
  <2> QED BY <1>0, <2>1, <2>2, <2>3, <2>4, <2>5, WithoutKeeps
<1>11. JudgedByARubric'
  BY <1>0, <1>1, <1>7, JudgedStaysToo
<1>12. Grounded'
  <2>0. now' = now /\ scenarios' = scenarios /\ ScenarioIds' = ScenarioIds
    BY <1>1 DEF ScenarioIds
  <2> QED BY <2>0, <1>0, <1>3, <1>4, <1>5, <1>7 DEF Grounded
<1>13. ReadingsAreKept'
  <2>1. \A i \in Done : attempts'[i].viewed = attempts[i].viewed /\ SlugOf(i)' = SlugOf(i)
    BY <1>1, <1>4 DEF SlugOf, Done, AttemptIds
  <2> QED BY <1>0, <1>1, <1>7, <2>1 DEF ReadingsAreKept
<1> QED BY <1>6, <1>9, <1>10, <1>11, <1>12, <1>13 DEF LabInv

LEMMA GoneRow ==
    ASSUME NEW row \in AttemptRow
    PROVE  /\ Gone(row) \in AttemptRow /\ Gone(row).scenario = row.scenario
           /\ Gone(row).continues = row.continues /\ Gone(row).status = "deleted"
           /\ Gone(row).viewed = NoTime
BY DEF Gone, AttemptRow

LEMMA CleanupKeeps ==
    ASSUME LabInv, Cleanup, Without(Comparisons, "deleted"), UNCHANGED told
    PROVE  LabInv'
<1>0. LabTyped /\ VersionsTellApart /\ Grounded /\ ReadingsAreKept /\ JudgedByARubric /\ ComparisonsHold
  BY InvParts
<1>1. /\ UNCHANGED <<now, scenarios, readAt>>
      /\ runStatus' = "deleted" /\ judgments' = {} /\ rubrics' = << >> /\ madeAt' = << >>
      /\ validation' = [made |-> FALSE, items |-> {}, moved |-> FALSE]
  BY DEF Cleanup
<1>2. /\ attempts \in Seq(AttemptRow) /\ Len(attempts) \in Nat /\ DOMAIN attempts = 1 .. Len(attempts)
      /\ \A i \in DOMAIN attempts : attempts[i] \in AttemptRow
  BY <1>0, RowTypes DEF LabTyped
<1>3. /\ DOMAIN attempts' = DOMAIN attempts
      /\ \A i \in DOMAIN attempts : attempts'[i] = Gone(attempts[i])
  BY DEF Cleanup
<1>4. \A i \in DOMAIN attempts :
         /\ attempts'[i] \in AttemptRow /\ attempts'[i].scenario = attempts[i].scenario
         /\ attempts'[i].continues = attempts[i].continues /\ attempts'[i].status = "deleted"
         /\ attempts'[i].viewed = NoTime
  BY <1>2, <1>3, GoneRow
<1>5. attempts' \in Seq(AttemptRow) /\ Len(attempts') = Len(attempts)
  <2>1. attempts' = [i \in 1 .. Len(attempts) |-> attempts'[i]]
    BY <1>2 DEF Cleanup
  <2> QED BY <1>2, <1>4, <2>1
<1>6. LabTyped'
  <2>1. validation' \in ScenarioSet
    BY <1>1 DEF ScenarioSet
  <2> QED BY <1>0, <1>1, <1>5, <2>1 DEF LabTyped, RunStatus
<1>7. AttemptIds' = {} /\ Done' = {}
  BY <1>3, <1>4 DEF AttemptIds, Done
<1>8. VersionsTellApart'
  BY <1>0, <1>1, VersionsStay
<1>9. ComparisonsHold'
  <2>1. PICK gone, status : gone = Comparisons /\ status = "deleted"
    OBVIOUS
  <2>2. Without(gone, status)
    BY <2>1
  <2> QED BY <1>0, <1>3, <2>1, <2>2, WithoutKeeps
<1>10. JudgedByARubric'
  BY <1>1 DEF JudgedByARubric
<1>11. Grounded'
  <2>1. now \in Nat /\ now' = now
    BY <1>0, <1>1, NowIsNumber
  <2> QED BY <2>1, <1>0, <1>1, <1>3, <1>4, <1>5, <1>7 DEF Grounded, NoTime
<1>12. ReadingsAreKept'
  BY <1>1, <1>7 DEF ReadingsAreKept
<1> QED BY <1>6, <1>8, <1>9, <1>10, <1>11, <1>12 DEF LabInv

LEMMA DropScenarioKeeps ==
    ASSUME LabInv, NEW slug \in Slugs, DropScenario(slug),
           Without(ComparisonsOf(slug), "deleted"), UNCHANGED told
    PROVE  LabInv'
<1>0. LabTyped /\ VersionsTellApart /\ Grounded /\ ReadingsAreKept /\ JudgedByARubric /\ ComparisonsHold
  BY InvParts
<1>1. UNCHANGED <<runStatus, now, madeAt, rubrics>>
  BY DEF DropScenario
<1>2. /\ attempts \in Seq(AttemptRow) /\ Len(attempts) \in Nat /\ DOMAIN attempts = 1 .. Len(attempts)
      /\ scenarios \in Seq(Scenario) /\ Len(scenarios) \in Nat /\ DOMAIN scenarios = 1 .. Len(scenarios)
      /\ \A i \in DOMAIN attempts : attempts[i] \in AttemptRow
      /\ \A i \in DOMAIN scenarios : scenarios[i] \in Scenario
  BY <1>0, RowTypes DEF LabTyped
\* The scenario's rows are not there any more, the others are what they were.
<1>3. /\ DOMAIN scenarios' = DOMAIN scenarios
      /\ \A i \in DOMAIN scenarios :
            /\ scenarios'[i] \in Scenario /\ scenarios'[i].slug = scenarios[i].slug
            /\ scenarios'[i].body = scenarios[i].body /\ scenarios'[i].version = scenarios[i].version
            /\ scenarios'[i].there <=> scenarios[i].there /\ scenarios[i].slug # slug
  <2>1. DOMAIN scenarios' = DOMAIN scenarios
    BY DEF DropScenario
  <2>2. ASSUME NEW i \in DOMAIN scenarios
        PROVE  /\ scenarios'[i] \in Scenario /\ scenarios'[i].slug = scenarios[i].slug
               /\ scenarios'[i].body = scenarios[i].body /\ scenarios'[i].version = scenarios[i].version
               /\ scenarios'[i].there <=> scenarios[i].there /\ scenarios[i].slug # slug
    <3>1. PICK was, row : was = scenarios[i] /\ row = scenarios'[i]
      OBVIOUS
    <3>2. was \in Scenario
      BY <1>2, <3>1
    <3>3. CASE i \in VersionsOf(slug)
      <4>1. row = [was EXCEPT !.there = FALSE] /\ was.slug = slug
        BY <3>1, <3>3 DEF DropScenario, VersionsOf
      <4> QED BY <4>1, <3>1, <3>2 DEF Scenario
    <3>4. CASE i \notin VersionsOf(slug)
      <4>1. row = was /\ ~(was.there /\ was.slug = slug)
        BY <3>1, <3>4 DEF DropScenario, VersionsOf, ScenarioIds
      <4> QED BY <4>1, <3>1, <3>2 DEF Scenario
    <3> QED BY <3>3, <3>4
  <2> QED BY <2>1, <2>2
<1>4. scenarios' \in Seq(Scenario) /\ Len(scenarios') = Len(scenarios)
  <2>1. scenarios' = [i \in 1 .. Len(scenarios) |-> scenarios'[i]]
    BY <1>2 DEF DropScenario
  <2> QED BY <1>2, <1>3, <2>1
<1>5. /\ ScenarioIds' \subseteq ScenarioIds
      /\ \A i \in ScenarioIds : i \in ScenarioIds' <=> scenarios[i].slug # slug
  BY <1>3 DEF ScenarioIds
<1>6. VersionsTellApart'
  <2>1. \A i \in ScenarioIds' : /\ i \in ScenarioIds
                                /\ scenarios'[i].slug = scenarios[i].slug
                                /\ scenarios'[i].version = scenarios[i].version
    BY <1>3, <1>5 DEF ScenarioIds
  <2> QED BY <2>1, <1>0, <1>4 DEF VersionsTellApart
\* So are the attempts.
<1>7. /\ DOMAIN attempts' = DOMAIN attempts
      /\ \A i \in DOMAIN attempts :
            /\ i \in Ran(slug) => attempts'[i] = Gone(attempts[i])
            /\ i \notin Ran(slug) => attempts'[i] = attempts[i]
  BY DEF DropScenario
<1>8. \A i \in DOMAIN attempts :
         /\ attempts'[i] \in AttemptRow /\ attempts'[i].scenario = attempts[i].scenario
         /\ attempts'[i].continues = attempts[i].continues
         /\ i \in Ran(slug) => attempts'[i].status = "deleted" /\ attempts'[i].viewed = NoTime
  BY <1>2, <1>7, GoneRow
<1>9. attempts' \in Seq(AttemptRow) /\ Len(attempts') = Len(attempts)
  <2>1. attempts' = [i \in 1 .. Len(attempts) |-> attempts'[i]]
    BY <1>2 DEF DropScenario
  <2> QED BY <1>2, <1>8, <2>1
<1>10. /\ AttemptIds' = AttemptIds \ Ran(slug) /\ Done' = Done \ Ran(slug)
       /\ Ran(slug) \subseteq AttemptIds
  BY <1>7, <1>8 DEF AttemptIds, Done, Ran
<1>11. \A i \in DOMAIN attempts : SlugOf(i)' = SlugOf(i) /\ (i \in AttemptIds => (i \in Ran(slug) <=> SlugOf(i) = slug))
  BY <1>0, <1>3, <1>8 DEF SlugOf, Ran, Grounded
<1>12. /\ readAt' \in [detail : [Slugs -> {NoTime} \cup Nat], overview : [Slugs -> {NoTime} \cup Nat]]
       /\ readAt'.detail[slug] = NoTime
       /\ \A s \in Slugs : s # slug => readAt'.detail[s] = readAt.detail[s]
  <2>1. readAt' = [readAt EXCEPT !.detail[slug] = NoTime, !.overview[slug] = NoTime]
    BY DEF DropScenario
  <2> QED BY <2>1, <1>0 DEF LabTyped
<1>13. LabTyped'
  <2>1. validation' \in ScenarioSet /\ (validation'.made <=> validation.made)
    BY <1>0 DEF LabTyped, DropScenario, ScenarioSet
  <2>2. judgments' \subseteq Judgment
    BY <1>0 DEF LabTyped, DropScenario
  <2> QED BY <1>0, <1>1, <1>4, <1>9, <1>12, <2>1, <2>2 DEF LabTyped
<1>14. Grounded'
  <2>1. now' = now /\ now \in Nat
    BY <1>0, <1>1, NowIsNumber
  <2>2. ASSUME NEW i \in DOMAIN attempts'
        PROVE  /\ attempts'[i].scenario \in DOMAIN scenarios'
               /\ attempts'[i].continues <= Len(attempts')
               /\ attempts'[i].viewed <= now
               /\ attempts'[i].status = "queued" => attempts'[i].viewed = NoTime
               /\ i \in AttemptIds' => attempts'[i].scenario \in ScenarioIds'
               /\ i \in Done' => /\ attempts'[i].result \in Results
                                 /\ attempts'[i].ran = scenarios'[attempts'[i].scenario].body
    <3>1. CASE i \in Ran(slug)
      BY <3>1, <2>1, <2>2, <1>0, <1>3, <1>7, <1>8, <1>9, <1>10 DEF Grounded, NoTime
    <3>2. CASE i \notin Ran(slug)
      <4>1. i \in DOMAIN attempts /\ attempts'[i] = attempts[i]
        BY <3>2, <2>2, <1>7
      <4>2. i \in AttemptIds => attempts[i].scenario \in ScenarioIds'
        <5>1. ASSUME i \in AttemptIds PROVE attempts[i].scenario \in ScenarioIds /\ scenarios[attempts[i].scenario].slug # slug
          BY <5>1, <4>1, <3>2, <1>0, <1>11 DEF Grounded, SlugOf
        <5> QED BY <5>1, <1>5
      <4> QED BY <4>1, <4>2, <2>1, <1>0, <1>3, <1>9, <1>10 DEF Grounded
    <3> QED BY <3>1, <3>2
  <2> QED BY <2>1, <2>2 DEF Grounded
<1>15. ReadingsAreKept'
  <2>1. \A i \in Done : i \in DOMAIN attempts /\ i \in AttemptIds /\ SlugOf(i) \in Slugs
    BY <1>0, <1>2 DEF Done, AttemptIds, SlugOf, Grounded, Scenario
  <2>2. ASSUME NEW i \in Done', attempts'[i].viewed # NoTime PROVE readAt'.detail[SlugOf(i)] # NoTime
    <3>1. i \in Done /\ i \notin Ran(slug) /\ attempts'[i] = attempts[i] /\ SlugOf(i) # slug
      BY <2>1, <2>2, <1>7, <1>10, <1>11
    <3> QED BY <3>1, <2>1, <2>2, <1>0, <1>12 DEF ReadingsAreKept
  <2>3. ASSUME runStatus # "deleted", NEW s \in Slugs, readAt'.detail[s] # NoTime
        PROVE  \E i \in Done' : SlugOf(i) = s /\ attempts'[i].viewed = readAt'.detail[s]
    <3>1. s # slug /\ readAt.detail[s] # NoTime /\ readAt'.detail[s] = readAt.detail[s]
      BY <2>3, <1>12
    <3>2. PICK i \in Done : SlugOf(i) = s /\ attempts[i].viewed = readAt.detail[s]
      BY <2>3, <3>1, <1>0 DEF ReadingsAreKept
    <3>3. i \notin Ran(slug) /\ attempts'[i] = attempts[i]
      BY <3>1, <3>2, <2>1, <1>7, <1>11
    <3> QED BY <3>1, <3>2, <3>3, <1>10
  <2>4. \A i \in Done' : SlugOf(i)' = SlugOf(i)
    BY <2>1, <1>10, <1>11
  <2>5. runStatus' # "deleted" /\ runStatus # "deleted"
    BY DEF DropScenario
  <2> QED BY <2>2, <2>3, <2>4, <2>5 DEF ReadingsAreKept
<1>16. JudgedByARubric'
  <2>1. judgments' = {j \in judgments : j.attempt \notin Ran(slug)}
    BY DEF DropScenario
  <2> QED BY <2>1, <1>0, <1>1, <1>10 DEF JudgedByARubric
<1>17. ComparisonsHold'
  <2>1. PICK gone, status : gone = ComparisonsOf(slug) /\ status = "deleted"
    OBVIOUS
  <2>2. Without(gone, status) /\ gone \in SUBSET Comparisons
    BY <2>1 DEF ComparisonsOf
  <2>3. ASSUME NEW c \in Comparisons, c \notin gone, NEW d, SameSituation(d), d = comparisons[c]
        PROVE  SameSituation(d)'
    <3>1. PICK i, k : i = d.mapping["A"] /\ k = d.mapping["B"]
      OBVIOUS
    <3>2. i \in Done /\ k \in Done /\ attempts[i].scenario = attempts[k].scenario
      BY <2>3, <3>1 DEF SameSituation, Labels
    <3>3. SlugOf(i) # slug /\ SlugOf(k) # slug
      <4>1. SlugOf(i) # slug
        BY <2>1, <2>3, <3>1 DEF ComparisonsOf
      <4> QED BY <4>1, <3>2 DEF SlugOf
    <3>4. \A j \in {i, k} : j \in Done /\ j \in Done' /\ attempts'[j] = attempts[j]
      BY <3>2, <3>3, <1>7, <1>10, <1>11 DEF Done, AttemptIds
    <3>5. \A j \in {i, k} : \A turn : Before(j, turn)' = Before(j, turn)
      BY <3>4 DEF Before
    <3>6. \A label \in Labels : d.mapping[label] \in {i, k}
      BY <3>1 DEF Labels
    <3>7. ASSUME NEW label \in Labels, NEW j, j = d.mapping[label]
          PROVE  j \in Done' /\ d.situation = <<attempts'[j].ran, attempts'[j].continues, Before(j, d.turn)'>>
      <4>1. j \in Done /\ d.situation = <<attempts[j].ran, attempts[j].continues, Before(j, d.turn)>>
        BY <3>7, <2>3 DEF SameSituation
      <4> QED BY <4>1, <3>4, <3>5, <3>6, <3>7
    <3> QED BY <3>1, <3>2, <3>4, <3>7 DEF SameSituation
  <2> QED BY <1>0, <1>7, <2>1, <2>2, <2>3, WithoutKeeps
<1> QED BY <1>6, <1>13, <1>14, <1>15, <1>16, <1>17 DEF LabInv

-----------------------------------------------------------------------------
(* Choices *)

LEMMA EvidenceStays ==
    ASSUME LabInv, UNCHANGED evidenceVars
    PROVE  /\ LabTyped' /\ VersionsTellApart' /\ Grounded' /\ ReadingsAreKept' /\ JudgedByARubric'
           /\ Done' = Done /\ AttemptsStand
<1>1. LabTyped /\ VersionsTellApart /\ Grounded /\ ReadingsAreKept /\ JudgedByARubric
  BY InvParts
<1>2. UNCHANGED <<runStatus, now, scenarios, validation, madeAt, attempts, rubrics, judgments, readAt>>
  BY DEF evidenceVars
<1>3. LabTyped'
  BY <1>1, <1>2 DEF LabTyped
<1>4. ScenariosStand /\ AttemptsStand
  BY <1>2, AttemptsUnchanged, ScenariosUnchanged
<1>5. now <= now'
  BY <1>1, <1>2, NowIsNumber
<1>6. VersionsTellApart' /\ Grounded' /\ JudgedByARubric'
  BY <1>1, <1>2, <1>3, <1>4, <1>5, VersionsStay, GroundedStays, JudgedStays
<1>7. ReadingsAreKept'
  <2>1. runStatus' = "deleted" => ~validation'.made
    BY <1>1, <1>2 DEF ReadingsAreKept
  <2> QED BY <1>1, <1>2, <1>4, <2>1, ReadingsStay
<1>8. Done' = Done
  BY <1>2 DEF Done, AttemptIds
<1> QED BY <1>3, <1>4, <1>6, <1>7, <1>8

LEMMA ComparisonTypes ==
    ASSUME ComparisonsHold
    PROVE  /\ comparisons \in Seq(ComparisonRow)
           /\ Len(comparisons) \in Nat /\ DOMAIN comparisons = 1 .. Len(comparisons)
           /\ \A c \in DOMAIN comparisons : comparisons[c] \in ComparisonRow /\ ComparisonOK(comparisons[c])
BY DEF ComparisonsHold

\* Another row for a comparison that presents the same.
LEMMA OneComparison ==
    ASSUME LabInv, UNCHANGED evidenceVars, NEW c \in Comparisons, NEW row \in ComparisonRow,
           comparisons' = [comparisons EXCEPT ![c] = row],
           row.mapping = comparisons[c].mapping, row.turn = comparisons[c].turn,
           row.situation = comparisons[c].situation,
           row.status # "deleted", Len(row.choices) <= MaxChoices,
           row.choices # << >> <=> row.status = "answered",
           told' \subseteq told \cup DOMAIN comparisons
    PROVE  LabInv'
<1>1. /\ LabTyped' /\ VersionsTellApart' /\ Grounded' /\ ReadingsAreKept' /\ JudgedByARubric'
      /\ Done' = Done /\ AttemptsStand
  BY EvidenceStays
<1>2. ComparisonsHold
  BY InvParts
<1>3. /\ comparisons \in Seq(ComparisonRow) /\ c \in DOMAIN comparisons
      /\ \A d \in DOMAIN comparisons : comparisons[d] \in ComparisonRow /\ ComparisonOK(comparisons[d])
  BY <1>2, ComparisonTypes DEF Comparisons
<1>4. /\ comparisons' \in Seq(ComparisonRow) /\ DOMAIN comparisons' = DOMAIN comparisons
      /\ comparisons'[c] = row
      /\ \A d \in DOMAIN comparisons : d # c => comparisons'[d] = comparisons[d]
  BY <1>3
<1>5. told' \subseteq DOMAIN comparisons'
  BY <1>2, <1>3, <1>4 DEF ComparisonsHold
<1>6. /\ ComparisonOK(row)' /\ SameSituation(row)'
  <2>1. PICK was : was = comparisons[c]
    OBVIOUS
  <2>2. ComparisonOK(was) /\ SameSituation(was)
    BY <1>2, <1>3, <2>1 DEF ComparisonsHold
  <2>3. SameSituation(was)'
    BY <1>1, <2>2, SituationStays
  <2>4. row.mapping \in [Labels -> DOMAIN attempts']
    BY <1>1, <2>1, <2>2 DEF ComparisonOK, evidenceVars
  <2>5. ComparisonOK(row)'
    BY <2>4 DEF ComparisonOK, ComparisonRow
  <2>6. (SameSituation(was) => SameSituation(row))'
    BY <2>1 DEF SameSituation
  <2> QED BY <2>3, <2>5, <2>6
<1>7. ASSUME NEW d \in DOMAIN comparisons', d # c
      PROVE  /\ ComparisonOK(comparisons[d])'
             /\ d \in Comparisons' =>
                   /\ SameSituation(comparisons[d])'
                   /\ (comparisons'[d].choices # << >>) <=> (comparisons'[d].status = "answered")
  <2>1. PICK was : was = comparisons[d]
    OBVIOUS
  <2>2. comparisons'[d] = was /\ d \in DOMAIN comparisons
    BY <1>4, <1>7, <2>1
  <2>3. ComparisonOK(was)'
    <3>1. ComparisonOK(was)
      BY <1>3, <2>1, <2>2
    <3> QED BY <3>1 DEF ComparisonOK, evidenceVars
  <2>4. ASSUME d \in Comparisons'
        PROVE  /\ SameSituation(was)'
               /\ (was.choices # << >>) <=> (was.status = "answered")
    <3>1. d \in Comparisons
      BY <2>1, <2>2, <2>4 DEF Comparisons
    <3>2. /\ SameSituation(was)
          /\ (was.choices # << >>) <=> (was.status = "answered")
      BY <1>2, <2>1, <2>2, <3>1 DEF ComparisonsHold
    <3> QED BY <3>2, <1>1, <1>7, SituationStays
  <2> QED BY <2>2, <2>3, <2>4
<1>8. ComparisonsHold'
  <2>1. ASSUME NEW d \in DOMAIN comparisons'
        PROVE  /\ ComparisonOK(comparisons[d])'
               /\ d \in Comparisons' =>
                     /\ SameSituation(comparisons[d])'
                     /\ (comparisons'[d].choices # << >>) <=> (comparisons'[d].status = "answered")
    <3>1. CASE d = c
      BY <3>1, <1>4, <1>6
    <3>2. CASE d # c
      BY <3>2, <2>1, <1>7
    <3> QED BY <3>1, <3>2
  <2> QED BY <2>1, <1>4, <1>5 DEF ComparisonsHold
<1> QED BY <1>1, <1>8 DEF LabInv

LEMMA PendingFacts ==
    ASSUME LabInv, NEW c \in Pending
    PROVE  /\ c \in Comparisons /\ c \in DOMAIN comparisons /\ comparisons[c] \in ComparisonRow
           /\ comparisons[c].status = "pending" /\ comparisons[c].choices = << >>
<1>1. c \in Comparisons /\ c \in DOMAIN comparisons /\ comparisons[c].status = "pending"
  BY DEF Pending, Comparisons
<1> QED BY <1>1, InvParts, ComparisonTypes DEF ComparisonsHold

LEMMA CreateKeeps ==
    ASSUME LabInv, NEW i \in DOMAIN attempts, NEW k \in DOMAIN attempts, NEW turn \in 1 .. 2,
           Create(i, k, turn)
    PROVE  LabInv'
<1>1. /\ LabTyped' /\ VersionsTellApart' /\ Grounded' /\ ReadingsAreKept' /\ JudgedByARubric'
      /\ Done' = Done /\ AttemptsStand
  BY EvidenceStays DEF Create
<1>2. LabTyped /\ Grounded /\ ComparisonsHold
  BY InvParts
<1>3. /\ i \in Done /\ k \in Done /\ Comparable(i, k, turn)
      /\ i \in Nat /\ k \in Nat /\ UNCHANGED evidenceVars /\ told' = told /\ attempts' = attempts
  BY <1>2, RowTypes DEF Create, evidenceVars
<1>4. PICK shown : shown = <<attempts[i].ran, attempts[i].continues, Before(i, turn)>>
  OBVIOUS
<1>5. shown \in Presented
  <2>1. attempts[i] \in AttemptRow /\ attempts[i].result \in Results
    BY <1>2, <1>3, RowTypes DEF Grounded
  <2>2. attempts[i].ran \in Bodies
    BY <1>2, <1>3, RowTypes DEF Grounded, Scenario
  <2>3. attempts[i].continues \in Nat
    BY <2>1 DEF AttemptRow
  <2>4. Before(i, turn) = [t \in 1 .. turn - 1 |-> attempts[i].result.answers[t]]
    BY DEF Before
  <2> QED BY <1>4, <2>1, <2>2, <2>3, <2>4 DEF Presented
<1>6. PICK row : row = [mapping |-> [A |-> i, B |-> k], turn |-> turn, status |-> "pending",
                        revealed |-> FALSE, choices |-> << >>, situation |-> shown]
  OBVIOUS
<1>7. /\ row.mapping["A"] = i /\ row.mapping["B"] = k /\ row.mapping \in [Labels -> {i, k}]
      /\ row.turn = turn /\ row.status = "pending" /\ row.choices = << >> /\ row.situation = shown
  BY <1>6 DEF Labels
<1>8. row \in ComparisonRow
  <2>1. row.mapping \in [Labels -> Nat]
    BY <1>3, <1>7
  <2> QED BY <1>5, <1>6, <1>7, <2>1 DEF ComparisonRow
<1>9. PICK n : n = Len(comparisons) + 1
  OBVIOUS
<1>10. comparisons' = Append(comparisons, row)
  BY <1>4, <1>6 DEF Create
<1>11. /\ comparisons \in Seq(ComparisonRow) /\ DOMAIN comparisons = 1 .. Len(comparisons)
       /\ Len(comparisons) \in Nat
  BY <1>2, ComparisonTypes
<1>12. /\ comparisons' \in Seq(ComparisonRow) /\ comparisons'[n] = row
       /\ DOMAIN comparisons' = DOMAIN comparisons \cup {n} /\ n \notin DOMAIN comparisons
       /\ \A c \in DOMAIN comparisons : comparisons'[c] = comparisons[c]
  BY <1>8, <1>9, <1>10, <1>11
<1>13. ComparisonOK(row)'
  <2>1. row.mapping \in [Labels -> DOMAIN attempts']
    BY <1>3, <1>7
  <2>2. row.choices \in Seq(Labels \cup Other) /\ Len(row.choices) <= MaxChoices
    BY <1>7, ChoicesAssumption
  <2> QED BY <1>8, <2>1, <2>2 DEF ComparisonOK, ComparisonRow
<1>14. SameSituation(row)'
  <2>1. attempts[k].ran = attempts[i].ran
    BY <1>2, <1>3 DEF Grounded, Comparable, Done, AttemptIds
  <2>2. attempts[k].continues = attempts[i].continues /\ attempts[i].scenario = attempts[k].scenario
    BY <1>3 DEF Comparable
  <2>3. Before(k, turn) = Before(i, turn)
    BY <1>3 DEF Comparable, Before
  <2>4. SameSituation(row)
    BY <1>3, <1>4, <1>7, <2>1, <2>2, <2>3 DEF SameSituation, Labels
  <2> QED BY <1>1, <2>4, SituationStays
<1>15. ASSUME NEW c \in DOMAIN comparisons'
       PROVE  /\ ComparisonOK(comparisons[c])'
              /\ c \in Comparisons' =>
                    /\ SameSituation(comparisons[c])'
                    /\ (comparisons'[c].choices # << >>) <=> (comparisons'[c].status = "answered")
  <2>1. CASE c = n
    BY <2>1, <1>7, <1>12, <1>13, <1>14
  <2>2. CASE c # n
    <3>1. PICK was : was = comparisons[c] /\ was = comparisons'[c] /\ c \in DOMAIN comparisons
      BY <2>2, <1>12, <1>15
    <3>2. ComparisonOK(was)'
      <4>1. ComparisonOK(was)
        BY <1>2, <3>1 DEF ComparisonsHold
      <4> QED BY <4>1, <1>3 DEF ComparisonOK
    <3>3. c \in Comparisons' => c \in Comparisons
      BY <3>1 DEF Comparisons
    <3>4. c \in Comparisons => /\ SameSituation(was)
                               /\ (was.choices # << >>) <=> (was.status = "answered")
      BY <1>2, <3>1 DEF ComparisonsHold
    <3>5. SameSituation(was) => SameSituation(was)'
      BY <1>1, SituationStays
    <3> QED BY <1>3, <3>1, <3>2, <3>3, <3>4, <3>5
  <2> QED BY <2>1, <2>2
<1>16. told' \subseteq DOMAIN comparisons'
  BY <1>2, <1>3, <1>12 DEF ComparisonsHold
<1>17. ComparisonsHold'
  BY <1>12, <1>15, <1>16 DEF ComparisonsHold
<1> QED BY <1>1, <1>17 DEF LabInv

LEMMA ChoicesStutter ==
    ASSUME LabInv, UNCHANGED <<evidenceVars, comparisons>>, told' \subseteq told \cup DOMAIN comparisons
    PROVE  LabInv'
<1>1. /\ LabTyped' /\ VersionsTellApart' /\ Grounded' /\ ReadingsAreKept' /\ JudgedByARubric'
      /\ Done' = Done /\ AttemptsStand
  BY EvidenceStays
<1>2. /\ \A c : ComparisonOK(c) => ComparisonOK(c)'
      /\ \A c : SameSituation(c) => SameSituation(c)'
  BY <1>1, SituationStays DEF ComparisonOK, AttemptsStand
<1>3. Comparisons' = Comparisons /\ comparisons' = comparisons
  BY DEF Comparisons
<1>4. ComparisonsHold'
  BY <1>2, <1>3, InvParts DEF ComparisonsHold
<1> QED BY <1>1, <1>4 DEF LabInv

LEMMA ViewKeeps ==
    ASSUME LabInv, NEW c \in DOMAIN comparisons, NEW reveal \in BOOLEAN, View(c, reveal)
    PROVE  LabInv'
<1>0. UNCHANGED evidenceVars /\ told' \subseteq told \cup DOMAIN comparisons
  BY DEF View, Tell, Pending, Comparisons
<1>1. CASE c \notin Pending
  BY <1>0, <1>1, ChoicesStutter DEF View
<1>2. CASE c \in Pending
  <2>1. PICK was, shows : was = comparisons[c] /\ shows = RevealedNow(comparisons[c].revealed, reveal)
    OBVIOUS
  <2>2. /\ c \in Comparisons /\ was \in ComparisonRow /\ was.status = "pending" /\ was.choices = << >>
    BY <1>2, <2>1, PendingFacts
  <2>3. shows \in BOOLEAN
    BY <2>1, <2>2 DEF RevealedNow, ComparisonRow
  <2>4. PICK row : row = [was EXCEPT !.revealed = shows]
    OBVIOUS
  <2>5. /\ row \in ComparisonRow /\ row.mapping = was.mapping /\ row.turn = was.turn
        /\ row.situation = was.situation /\ row.status = was.status /\ row.choices = was.choices
        /\ row.revealed = shows
    BY <2>2, <2>3, <2>4 DEF ComparisonRow
  <2>6. comparisons' = [comparisons EXCEPT ![c] = row]
    BY <1>2, <2>1, <2>4 DEF View
  <2>7. Len(row.choices) <= MaxChoices
    BY <2>2, <2>5, ChoicesAssumption
  <2> QED BY <1>0, <2>1, <2>2, <2>3, <2>5, <2>6, <2>7, OneComparison
<1> QED BY <1>1, <1>2

LEMMA ShowRepliesKeeps ==
    ASSUME LabInv, ShowReplies
    PROVE  LabInv'
BY ChoicesStutter DEF ShowReplies, Tell, Pending, Comparisons

LEMMA AnswerComparisonKeeps ==
    ASSUME LabInv, NEW c \in DOMAIN comparisons, NEW choice \in Labels \cup Other,
           AnswerComparison(c, choice)
    PROVE  LabInv'
<1>0. UNCHANGED evidenceVars /\ told' = told /\ c \in Pending
  BY DEF AnswerComparison
<1>1. PICK was : was = comparisons[c]
  OBVIOUS
<1>2. /\ c \in Comparisons /\ was \in ComparisonRow /\ was.status = "pending" /\ was.choices = << >>
  BY <1>0, <1>1, PendingFacts
<1>3. PICK choices : choices = Append(was.choices, choice)
  OBVIOUS
<1>4. choices \in Seq(Labels \cup Other) /\ Len(choices) = 1 /\ choices # << >>
  BY <1>2, <1>3
<1>5. PICK row : row = [was EXCEPT !.status = "answered", !.choices = choices]
  OBVIOUS
<1>6. /\ row \in ComparisonRow /\ row.mapping = was.mapping /\ row.turn = was.turn
      /\ row.situation = was.situation /\ row.status = "answered" /\ row.choices = choices
      /\ row.revealed = was.revealed
  BY <1>2, <1>4, <1>5 DEF ComparisonRow
<1>7. comparisons' = [comparisons EXCEPT ![c] = row]
  BY <1>1, <1>2, <1>3, <1>5 DEF AnswerComparison, ComparisonRow
<1>8. Len(row.choices) <= MaxChoices
  <2>1. 1 <= MaxChoices
    BY ChoicesAssumption
  <2>2. row.choices = choices
    BY <1>6
  <2> QED BY <1>4, <2>1, <2>2
<1> QED BY <1>0, <1>1, <1>2, <1>4, <1>6, <1>7, <1>8, OneComparison

LEMMA CorrectKeeps ==
    ASSUME LabInv, NEW c \in DOMAIN comparisons, NEW choice \in Labels \cup Other,
           Correct(c, choice)
    PROVE  LabInv'
<1>0. UNCHANGED evidenceVars /\ told' = told /\ c \in Comparisons
  BY DEF Correct
<1>1. PICK was : was = comparisons[c]
  OBVIOUS
<1>2. /\ was \in ComparisonRow /\ was.status = "answered" /\ Len(was.choices) < MaxChoices
  <2>1. was \in ComparisonRow
    BY <1>1, InvParts, ComparisonTypes
  <2> QED BY <1>1, <2>1 DEF Correct
<1>3. PICK choices : choices = Corrected(was.choices, choice)
  OBVIOUS
<1>4. choices \in Seq(Labels \cup Other) /\ Len(choices) <= MaxChoices /\ choices # << >>
  <2>1. was.choices \in Seq(Labels \cup Other)
    BY <1>2 DEF ComparisonRow
  <2> QED BY <1>2, <1>3, <2>1, ChoicesAssumption DEF Corrected
<1>5. PICK row : row = [was EXCEPT !.choices = choices]
  OBVIOUS
<1>6. /\ row \in ComparisonRow /\ row.mapping = was.mapping /\ row.turn = was.turn
      /\ row.situation = was.situation /\ row.status = "answered" /\ row.choices = choices
      /\ row.revealed = was.revealed
  BY <1>2, <1>4, <1>5 DEF ComparisonRow
<1>7. comparisons' = [comparisons EXCEPT ![c] = row]
  BY <1>1, <1>2, <1>3, <1>5 DEF Correct
<1> QED BY <1>0, <1>1, <1>2, <1>4, <1>6, <1>7, OneComparison

LEMMA WithdrawKeeps ==
    ASSUME LabInv, NEW c \in DOMAIN comparisons, Withdraw(c)
    PROVE  LabInv'
<1>0. UNCHANGED evidenceVars /\ told' = told /\ c \in Pending
  BY DEF Withdraw
<1>1. PICK was : was = comparisons[c]
  OBVIOUS
<1>2. /\ c \in Comparisons /\ was \in ComparisonRow /\ was.choices = << >>
  BY <1>0, <1>1, PendingFacts
<1>3. PICK row : row = [was EXCEPT !.status = "withdrawn"]
  OBVIOUS
<1>4. /\ row \in ComparisonRow /\ row.mapping = was.mapping /\ row.turn = was.turn
      /\ row.situation = was.situation /\ row.status = "withdrawn" /\ row.choices = << >>
      /\ row.revealed = was.revealed
  BY <1>2, <1>3 DEF ComparisonRow
<1>5. comparisons' = [comparisons EXCEPT ![c] = row]
  BY <1>1, <1>3 DEF Withdraw
<1>6. Len(row.choices) <= MaxChoices
  BY <1>4, ChoicesAssumption
<1> QED BY <1>0, <1>1, <1>2, <1>4, <1>5, <1>6, OneComparison

LEMMA LabInvInit == ChoicesInit => LabInv
<1> SUFFICES ASSUME ChoicesInit PROVE LabInv
  OBVIOUS
<1>1. /\ runStatus = "active" /\ now = 0 /\ scenarios = << >> /\ attempts = << >> /\ madeAt = << >>
      /\ rubrics = << >> /\ judgments = {} /\ comparisons = << >> /\ told = {}
      /\ validation = [made |-> FALSE, items |-> {}, moved |-> FALSE]
      /\ readAt = [detail |-> [s \in Slugs |-> NoTime], overview |-> [s \in Slugs |-> NoTime]]
  BY DEF ChoicesInit, EvidenceInit
<1>2. DOMAIN scenarios = {} /\ DOMAIN attempts = {} /\ DOMAIN comparisons = {}
  BY <1>1
<1>3. LabTyped
  <2>1. scenarios \in Seq(Scenario) /\ attempts \in Seq(AttemptRow) /\ madeAt \in Seq(CandidateTime)
        /\ rubrics \in Seq(Rubrics)
    BY <1>1
  <2>2. now \in 0 .. MaxTime /\ runStatus \in RunStatus /\ validation \in ScenarioSet
    BY <1>1, EvidenceAssumption DEF RunStatus, ScenarioSet
  <2>3. /\ readAt \in [detail : [Slugs -> {NoTime} \cup Nat], overview : [Slugs -> {NoTime} \cup Nat]]
        /\ judgments \subseteq Judgment
    BY <1>1
  <2> QED BY <2>1, <2>2, <2>3 DEF LabTyped
<1>4. ScenarioIds = {} /\ AttemptIds = {} /\ Done = {} /\ Comparisons = {}
  BY <1>2 DEF ScenarioIds, AttemptIds, Done, Comparisons
<1>5. VersionsTellApart /\ Grounded /\ JudgedByARubric
  BY <1>1, <1>2, <1>4 DEF VersionsTellApart, Grounded, JudgedByARubric
<1>6. ReadingsAreKept
  BY <1>1, <1>4 DEF ReadingsAreKept
<1>7. ComparisonsHold
  <2>1. comparisons \in Seq(ComparisonRow)
    BY <1>1
  <2> QED BY <2>1, <1>1, <1>2 DEF ComparisonsHold
<1> QED BY <1>3, <1>5, <1>6, <1>7 DEF LabInv

LEMMA EvidenceKeeps == ASSUME LabInv, Evidence PROVE LabInv'
<1>1. CASE EndRun /\ Without(Pending, "withdrawn") /\ UNCHANGED told
  BY <1>1, EndRunKeeps
<1>2. CASE Cleanup /\ Without(Comparisons, "deleted") /\ UNCHANGED told
  BY <1>2, CleanupKeeps
<1>3. CASE \E slug \in Slugs : /\ DropScenario(slug)
                               /\ Without(ComparisonsOf(slug), "deleted") /\ UNCHANGED told
  BY <1>3, DropScenarioKeeps
<1>4. CASE Tick /\ UNCHANGED choiceVars
  BY <1>4, TickKeeps
<1>5. CASE /\ \E slug \in Slugs, body \in Bodies : AddScenario(slug, body)
           /\ UNCHANGED choiceVars
  BY <1>5, AddScenarioKeeps
<1>6. CASE (\E items \in SUBSET Slugs : AddSet(items)) /\ UNCHANGED choiceVars
  BY <1>6, AddSetKeeps
<1>7. CASE /\ \E add, remove \in SUBSET Slugs, reason \in BOOLEAN : ChangeSet(add, remove, reason)
           /\ UNCHANGED choiceVars
  BY <1>7, ChangeSetKeeps
<1>8. CASE MakeCandidate /\ UNCHANGED choiceVars
  BY <1>8, MakeCandidateKeeps
<1>9. CASE /\ \E slug \in Slugs, candidate \in {Baseline} \cup DOMAIN madeAt,
                 previous \in {0} \cup DOMAIN attempts : SubmitAttempt(slug, candidate, previous)
           /\ UNCHANGED choiceVars
  BY <1>9, SubmitAttemptKeeps
<1>10. CASE /\ \E i \in DOMAIN attempts, result \in Results : AttemptRuns(i, result)
            /\ UNCHANGED choiceVars
  BY <1>10, AttemptRunsKeeps
<1>11. CASE (\E i \in DOMAIN attempts : ReadAttempt(i)) /\ UNCHANGED choiceVars
  BY <1>11, ReadAttemptKeeps
<1>14. CASE (\E A \in SUBSET Done : ReadOverview(A)) /\ UNCHANGED choiceVars
  BY <1>14, ReadOverviewKeeps
<1>12. CASE /\ \E criteria \in Rubrics, reason \in BOOLEAN : SetRubric(criteria, reason)
            /\ UNCHANGED choiceVars
  BY <1>12, SetRubricKeeps
<1>13. CASE /\ \E i \in DOMAIN attempts, criterion \in Criteria : AddJudgment(i, criterion)
            /\ UNCHANGED choiceVars
  BY <1>13, AddJudgmentKeeps
<1> QED BY <1>1, <1>2, <1>3, <1>4, <1>5, <1>6, <1>7, <1>8, <1>9, <1>10, <1>11, <1>12, <1>13,
           <1>14 DEF Evidence

LEMMA ChoosesKeeps == ASSUME LabInv, Chooses PROVE LabInv'
<1>1. CASE \E i, k \in DOMAIN attempts, turn \in 1 .. 2 : Create(i, k, turn)
  BY <1>1, CreateKeeps
<1>2. CASE \E c \in DOMAIN comparisons, reveal \in BOOLEAN : View(c, reveal)
  BY <1>2, ViewKeeps
<1>3. CASE ShowReplies
  BY <1>3, ShowRepliesKeeps
<1>4. CASE \E c \in DOMAIN comparisons, choice \in Labels \cup Other : AnswerComparison(c, choice)
  BY <1>4, AnswerComparisonKeeps
<1>5. CASE \E c \in DOMAIN comparisons, choice \in Labels \cup Other : Correct(c, choice)
  BY <1>5, CorrectKeeps
<1>6. CASE \E c \in DOMAIN comparisons : Withdraw(c)
  BY <1>6, WithdrawKeeps
<1> QED BY <1>1, <1>2, <1>3, <1>4, <1>5, <1>6 DEF Chooses

\* Every step of the evidence and of the choices keeps what a run knows in
\* order (service.py, preferences.py, db/lab.py).
THEOREM EvidenceIsSound == LabSpec => []LabInv
<1>1. ChoicesInit => LabInv
  BY LabInvInit
<1>2. LabInv /\ [LabNext]_labVars => LabInv'
  <2> SUFFICES ASSUME LabInv, [LabNext]_labVars PROVE LabInv'
    OBVIOUS
  <2>1. CASE LabNext
    BY <2>1, EvidenceKeeps, ChoosesKeeps DEF LabNext
  <2>2. CASE UNCHANGED labVars
    BY <2>2, ChoicesStutter DEF labVars, choiceVars
  <2> QED BY <2>1, <2>2
<1> QED BY <1>1, <1>2, PTL DEF LabSpec

LEMMA TypesFollow == LabInv => ChoicesTypeOK
<1> SUFFICES ASSUME LabInv PROVE ChoicesTypeOK
  OBVIOUS
<1>1. LabTyped /\ Grounded /\ JudgedByARubric /\ ComparisonsHold
  BY InvParts
<1>2. ASSUME NEW i \in DOMAIN attempts PROVE AttemptOK(attempts[i])
  <2>1. attempts[i] \in AttemptRow /\ now \in 0 .. MaxTime /\ Len(attempts) \in Nat
    BY <1>1, RowTypes DEF LabTyped
  <2>2. attempts[i].viewed \in {NoTime} \cup 0 .. MaxTime
    BY <1>1, <2>1, EvidenceAssumption DEF Grounded, AttemptRow, NoTime
  <2>3. attempts[i].status = "done" => attempts[i].result \in Results /\ attempts[i].ran \in Bodies
    <3>1. attempts[i].status = "done" => i \in Done
      BY DEF Done, AttemptIds
    <3> QED BY <3>1, <1>1, RowTypes DEF Grounded, Scenario
  <2>4. attempts[i].continues \in 0 .. Len(attempts) /\ attempts[i].scenario \in DOMAIN scenarios
    BY <1>1, <2>1 DEF Grounded, AttemptRow
  <2> QED BY <2>1, <2>2, <2>3, <2>4 DEF AttemptOK, AttemptRow
<1>3. /\ \A i \in DOMAIN scenarios : scenarios[i] \in Scenario
      /\ \A c \in DOMAIN madeAt : madeAt[c] \in CandidateTime
      /\ runStatus \in RunStatus /\ now \in 0 .. MaxTime /\ validation \in ScenarioSet
  BY <1>1 DEF LabTyped
<1>4. \A j \in judgments : j \in Judgment /\ j.attempt \in DOMAIN attempts
  BY <1>1 DEF LabTyped, JudgedByARubric, AttemptIds
<1>5. EvidenceTypeOK
  BY <1>2, <1>3, <1>4 DEF EvidenceTypeOK
<1>6. \A c \in DOMAIN comparisons : ComparisonOK(comparisons[c])
  BY <1>1 DEF ComparisonsHold
<1> QED BY <1>5, <1>6 DEF ChoicesTypeOK

LEMMA RowsFollow == LabInv => RowsAreOfOneSituation
<1> SUFFICES ASSUME LabInv PROVE RowsAreOfOneSituation
  OBVIOUS
<1>1. LabTyped /\ VersionsTellApart /\ Grounded /\ JudgedByARubric
  BY InvParts
<1>2. ASSUME NEW i \in Done, NEW k \in Done, Situation(i) = Situation(k)
      PROVE  attempts[i].ran = attempts[k].ran /\ attempts[i].continues = attempts[k].continues
  <2>1. /\ i \in AttemptIds /\ k \in AttemptIds /\ i \in DOMAIN attempts /\ k \in DOMAIN attempts
    BY DEF Done, AttemptIds
  <2>2. attempts[i].scenario \in ScenarioIds /\ attempts[k].scenario \in ScenarioIds
    BY <1>1, <2>1 DEF Grounded
  <2>3. attempts[i].scenario = attempts[k].scenario
    BY <1>1, <1>2, <2>2 DEF Situation, SlugOf, VersionsTellApart
  <2> QED BY <1>1, <1>2, <2>1, <2>3 DEF Situation, Grounded
<1>3. \A i \in AttemptIds : attempts[i].scenario \in ScenarioIds
  BY <1>1 DEF Grounded, AttemptIds
<1>4. \A j \in judgments : j.attempt \in AttemptIds
  BY <1>1 DEF JudgedByARubric
<1> QED BY <1>2, <1>3, <1>4 DEF RowsAreOfOneSituation

\* What was checked is what was decided: an attempt that came to nothing is in
\* no count.
LEMMA DifferencesFollow == LabInv => DifferencesAreTheModels
<1> SUFFICES ASSUME LabInv PROVE DifferencesAreTheModels
  OBVIOUS
<1> DEFINE decided == {i \in Done : attempts[i].result.outcome # "error"}
<1>1. \A i \in Done : attempts[i].result.outcome \in Outcomes /\ i \in Selected /\ i \in AttemptIds
  <2>1. \A i \in Done : attempts[i].result \in Results
    BY InvParts DEF Grounded, Done, AttemptIds
  <2> QED BY <2>1, EvidenceAssumption DEF Done, Selected
<1>2. \A row, config : Checked(Selected, row, config) = Checked(decided, row, config)
  <2>1. \A i \in Selected : attempts[i].status = "done" => i \in Done
    BY DEF Selected, Done
  <2> QED BY <1>1, <2>1 DEF Checked, Outcomes
<1>3. \A row, config : Passed(Selected, row, config) = Passed(decided, row, config)
  BY <1>2 DEF Passed
<1>4. decided \subseteq Selected
  BY <1>1
<1>5. ASSUME NEW row, NEW config, Cardinality(Checked(decided, row, config)) > 0
      PROVE  row \in Rows(decided) /\ config \in Configurations(decided)
  <2>1. Checked(decided, row, config) # {}
    <3>1. PICK S : S = Checked(decided, row, config)
      OBVIOUS
    <3>2. Cardinality({}) = 0 /\ Cardinality(S) > 0
      BY <1>5, <3>1, FS_EmptySet
    <3>3. S # {}
      BY <3>2
    <3> QED BY <3>1, <3>3
  <2>2. PICK i \in decided : Situation(i) = row /\ attempts[i].candidate = config
    BY <2>1 DEF Checked
  <2> QED BY <2>2 DEF Rows, Configurations
<1>6. Rows(decided) \subseteq Rows(Selected) /\ Configurations(decided) \subseteq Configurations(Selected)
  BY <1>4 DEF Rows, Configurations
<1>7. \A row, config, than : Worse(Selected, row, config, than) <=> Worse(decided, row, config, than)
  BY <1>2, <1>3 DEF Worse
<1>8. ASSUME NEW row, NEW config, NEW than, Worse(decided, row, config, than)
      PROVE  /\ row \in Rows(decided) /\ config \in Configurations(decided)
             /\ than \in Configurations(decided)
  BY <1>5, <1>8 DEF Worse
<1> HIDE DEF decided
<1>9. ASSUME Reference(decided) = Reference(Selected)
      PROVE  Regressions(Selected) = Regressions(decided) /\ Improvements(Selected) = Improvements(decided)
  <2>1. PICK reference : reference = Reference(Selected) /\ reference = Reference(decided)
    BY <1>9
  <2>2. /\ Compared(Selected) = Rows(Selected) \X (Configurations(Selected) \ {reference})
        /\ Compared(decided) = Rows(decided) \X (Configurations(decided) \ {reference})
    BY <2>1 DEF Compared
  <2>3. Compared(decided) \subseteq Compared(Selected)
    BY <2>2, <1>6
  <2>4. ASSUME NEW d \in Compared(Selected),
               Worse(decided, d[1], d[2], reference) \/ Worse(decided, d[1], reference, d[2])
        PROVE  d \in Compared(decided)
    <3>1. d[1] \in Rows(decided) /\ d[2] \in Configurations(decided)
      BY <1>8, <2>4
    <3>2. d = <<d[1], d[2]>> /\ d[2] # reference
      BY <2>2
    <3> QED BY <2>2, <3>1, <3>2
  <2>5. Regressions(Selected) = Regressions(decided)
    BY <1>7, <2>1, <2>3, <2>4 DEF Regressions
  <2>6. Improvements(Selected) = Improvements(decided)
    BY <1>7, <2>1, <2>3, <2>4 DEF Improvements
  <2> QED BY <2>5, <2>6
<1> QED BY <1>9 DEF DifferencesAreTheModels, decided


LEMMA RubricFollows == LabInv => CountedByTheRubric
<1> SUFFICES ASSUME LabInv PROVE CountedByTheRubric
  OBVIOUS
<1>1. rubrics \in Seq(Rubrics) /\ Len(rubrics) \in Nat
  BY InvParts DEF LabTyped
<1>2. ASSUME NEW j \in Fresh PROVE rubrics # << >> /\ j.criterion \in rubrics[Len(rubrics)]
  <2>1. j \in judgments /\ j.version >= Len(rubrics)
    BY DEF Fresh
  <2>2. j.version \in Nat \ {0} /\ j.version <= Len(rubrics) /\ j.criterion \in rubrics[j.version]
    BY <2>1, InvParts DEF LabTyped, Judgment, JudgedByARubric
  <2>3. j.version = Len(rubrics) /\ Len(rubrics) # 0
    BY <1>1, <2>1, <2>2
  <2> QED BY <1>1, <2>2, <2>3
<1> QED BY <1>2 DEF CountedByTheRubric

-----------------------------------------------------------------------------
(* What is shown of the comparisons that wait *)

\* No reply is in two comparisons that wait, and a comparison of which was told
\* who gave which reply was revealed, or shares a reply with one that has ended.
Blind ==
    /\ \A c, d \in Pending : c # d => Mapped(c) \cap Mapped(d) = {}
    /\ \A c \in Comparisons : c \in told => comparisons[c].revealed \/ ComparedBefore(c)

\* What every step but a new comparison leaves of the comparisons, and what a new
\* one leaves of the others.
RowStays(c) ==
    /\ comparisons'[c].mapping = comparisons[c].mapping
    /\ comparisons[c].revealed => comparisons'[c].revealed
    /\ comparisons[c].status # "pending" => comparisons'[c].status # "pending"
    /\ comparisons[c].status = "deleted" => comparisons'[c].status = "deleted"
RowsStay == \A c \in DOMAIN comparisons : c \in DOMAIN comparisons' /\ RowStays(c)

LEMMA ComparedStays ==
    ASSUME RowsStay, NEW c \in DOMAIN comparisons, ComparedBefore(c)
    PROVE  ComparedBefore(c)'
<1>1. PICK d \in DOMAIN comparisons \ {c} :
          comparisons[d].status # "pending" /\ Mapped(d) \cap Mapped(c) # {}
  BY DEF ComparedBefore
<1>2. Mapped(d)' = Mapped(d) /\ Mapped(c)' = Mapped(c)
  BY DEF RowsStay, RowStays, Mapped
<1>3. d \in DOMAIN comparisons' \ {c} /\ comparisons'[d].status # "pending"
  BY <1>1 DEF RowsStay, RowStays
<1> QED BY <1>1, <1>2, <1>3 DEF ComparedBefore

\* Steps that make no comparison.
LEMMA BlindStays ==
    ASSUME Blind, RowsStay, told \subseteq DOMAIN comparisons,
           DOMAIN comparisons' = DOMAIN comparisons,
           \A c \in told' \ told : c \in DOMAIN comparisons /\ (comparisons'[c].revealed \/ ComparedBefore(c))
    PROVE  Blind'
<1>1. \A c \in DOMAIN comparisons : Mapped(c)' = Mapped(c)
  BY DEF RowsStay, RowStays, Mapped
<1>2. \A c \in Pending' : c \in Pending /\ c \in DOMAIN comparisons
  BY DEF RowsStay, RowStays, Pending, Comparisons
<1>3. ASSUME NEW c \in Pending', NEW d \in Pending', c # d
      PROVE  (Mapped(c) \cap Mapped(d) = {})'
  BY <1>1, <1>2, <1>3 DEF Blind
<1>4. ASSUME NEW c \in Comparisons', c \in told'
      PROVE  comparisons'[c].revealed \/ ComparedBefore(c)'
  <2>1. c \in DOMAIN comparisons /\ c \in Comparisons
    BY <1>4 DEF RowsStay, RowStays, Comparisons
  <2>2. CASE c \in told
    BY <2>1, <2>2, ComparedStays DEF Blind, RowsStay, RowStays
  <2>3. CASE c \notin told
    BY <1>4, <2>1, <2>3, ComparedStays
  <2> QED BY <2>2, <2>3
<1> QED BY <1>3, <1>4 DEF Blind

\* What is told is told of comparisons that wait.
LEMMA TellFacts ==
    ASSUME NEW replies, Tell(replies)
    PROVE  \A c \in told' \ told : c \in Pending /\ Mapped(c) \cap replies # {}
BY DEF Tell

LEMMA RowChanged ==
    ASSUME LabInv, NEW c \in DOMAIN comparisons, NEW row \in ComparisonRow,
           comparisons' = [comparisons EXCEPT ![c] = row],
           row.mapping = comparisons[c].mapping,
           comparisons[c].revealed => row.revealed,
           comparisons[c].status # "pending" => row.status # "pending",
           comparisons[c].status # "deleted"
    PROVE  RowsStay /\ DOMAIN comparisons' = DOMAIN comparisons /\ comparisons'[c] = row
<1>1. comparisons \in Seq(ComparisonRow)
  BY InvParts DEF ComparisonsHold
<1>2. DOMAIN comparisons' = DOMAIN comparisons /\ comparisons'[c] = row
  BY <1>1
<1>3. \A d \in DOMAIN comparisons : d # c => comparisons'[d] = comparisons[d]
  BY <1>1
<1>4. ASSUME NEW d \in DOMAIN comparisons PROVE RowStays(d)
  <2>1. CASE d = c
    BY <1>2, <2>1 DEF RowStays
  <2>2. CASE d # c
    BY <1>3, <2>2 DEF RowStays
  <2> QED BY <2>1, <2>2
<1> QED BY <1>2, <1>4 DEF RowsStay

LEMMA ViewIsBlind ==
    ASSUME LabInv, Blind, NEW c \in DOMAIN comparisons, NEW reveal \in BOOLEAN, View(c, reveal)
    PROVE  Blind'
<1>0. c \in Comparisons /\ told \subseteq DOMAIN comparisons
  BY InvParts DEF View, ComparisonsHold
<1>1. CASE c \in Closed
  <2>1. comparisons' = comparisons /\ Tell(Mapped(c)) /\ c \notin Pending
    BY <1>1 DEF View, Closed
  <2>2. RowsStay /\ DOMAIN comparisons' = DOMAIN comparisons
    BY <2>1 DEF RowsStay, RowStays
  <2>3. comparisons[c].status # "pending"
    BY <1>0, <2>1 DEF Pending
  <2>4. ASSUME NEW d \in told' \ told PROVE d \in DOMAIN comparisons /\ ComparedBefore(d)
    <3>1. d \in Pending /\ Mapped(d) \cap Mapped(c) # {}
      BY <2>1, <2>4, TellFacts
    <3>2. d # c /\ d \in DOMAIN comparisons
      BY <2>1, <3>1 DEF Pending, Comparisons
    <3> QED BY <2>3, <3>1, <3>2 DEF ComparedBefore
  <2> QED BY <1>0, <2>2, <2>4, BlindStays
<1>2. CASE c \in Pending
  <2>1. PICK was, row : was = comparisons[c] /\ row = [was EXCEPT !.revealed = RevealedNow(was.revealed, reveal)]
    OBVIOUS
  <2>2. was \in ComparisonRow /\ was.status = "pending"
    BY <1>2, <2>1, PendingFacts
  <2>3. /\ row \in ComparisonRow /\ row.mapping = was.mapping /\ row.status = was.status
        /\ row.revealed <=> was.revealed \/ reveal
    BY <2>1, <2>2 DEF ComparisonRow, RevealedNow
  <2>4. comparisons' = [comparisons EXCEPT ![c] = row]
    BY <1>2, <2>1 DEF View
  <2>5. RowsStay /\ DOMAIN comparisons' = DOMAIN comparisons /\ comparisons'[c] = row
    BY <2>1, <2>2, <2>3, <2>4, RowChanged
  <2>6. ASSUME NEW d \in told' \ told PROVE d \in DOMAIN comparisons /\ comparisons'[d].revealed
    <3>1. reveal /\ Tell(Mapped(c))
      BY <1>2, <2>6 DEF View, Closed
    <3>2. d \in Pending /\ Mapped(d) \cap Mapped(c) # {}
      BY <2>6, <3>1, TellFacts
    <3>3. d = c
      BY <1>2, <3>2 DEF Blind
    <3> QED BY <2>3, <2>5, <3>1, <3>3
  <2> QED BY <1>0, <2>5, <2>6, BlindStays
<1> QED BY <1>0, <1>1, <1>2 DEF Closed

LEMMA ShowRepliesIsBlind ==
    ASSUME LabInv, Blind, ShowReplies
    PROVE  Blind'
<1>1. told \subseteq DOMAIN comparisons
  BY InvParts DEF ComparisonsHold
<1>2. RowsStay /\ DOMAIN comparisons' = DOMAIN comparisons
  BY DEF ShowReplies, RowsStay, RowStays
<1>3. ASSUME NEW d \in told' \ told PROVE d \in DOMAIN comparisons /\ ComparedBefore(d)
  <2>1. d \in Pending /\ Mapped(d) \cap ((Done \ Hidden) \cup UNION {Mapped(c) : c \in Closed}) # {}
    BY <1>3, TellFacts DEF ShowReplies
  <2>2. Mapped(d) \subseteq Hidden
    BY <2>1 DEF Hidden
  <2>3. PICK c \in Closed : Mapped(c) \cap Mapped(d) # {}
    BY <2>1, <2>2
  <2>4. c \in DOMAIN comparisons /\ c # d /\ comparisons[c].status # "pending"
    BY <2>1, <2>3 DEF Closed, Pending, Comparisons
  <2>5. d \in DOMAIN comparisons
    BY <2>1 DEF Pending, Comparisons
  <2> QED BY <2>3, <2>4, <2>5 DEF ComparedBefore
<1> QED BY <1>1, <1>2, <1>3, BlindStays

\* A new comparison is of replies that no other one that waits is about.
LEMMA CreateIsBlind ==
    ASSUME LabInv, Blind, NEW i \in DOMAIN attempts, NEW k \in DOMAIN attempts, NEW turn \in 1 .. 2,
           Create(i, k, turn)
    PROVE  Blind'
<1>1. PICK row : row = [mapping |-> [A |-> i, B |-> k], turn |-> turn, status |-> "pending",
                        revealed |-> FALSE, choices |-> << >>,
                        situation |-> <<attempts[i].ran, attempts[i].continues, Before(i, turn)>>]
  OBVIOUS
<1>2. PICK n : n = Len(comparisons) + 1
  OBVIOUS
<1>3. /\ comparisons' = Append(comparisons, row) /\ told' = told /\ {i, k} \cap Hidden = {}
      /\ told \subseteq DOMAIN comparisons
      /\ Len(comparisons) \in Nat /\ DOMAIN comparisons = 1 .. Len(comparisons)
  BY <1>1, InvParts, ComparisonTypes DEF Create, ComparisonsHold
<1>4. /\ DOMAIN comparisons' = DOMAIN comparisons \cup {n} /\ n \notin DOMAIN comparisons
      /\ comparisons'[n] = row /\ \A c \in DOMAIN comparisons : comparisons'[c] = comparisons[c]
  BY <1>2, <1>3
<1>5. RowsStay
  BY <1>4 DEF RowsStay, RowStays
<1>6. \A c \in DOMAIN comparisons : Mapped(c)' = Mapped(c)
  BY <1>4 DEF Mapped
<1>7. Mapped(n)' = {i, k}
  <2>1. comparisons'[n].mapping["A"] = i /\ comparisons'[n].mapping["B"] = k
    BY <1>1, <1>4
  <2> QED BY <2>1 DEF Mapped, Labels
<1>8. \A c \in Pending' : c = n \/ (c \in Pending /\ c \in DOMAIN comparisons)
  BY <1>4 DEF Pending, Comparisons
<1>9. \A c \in Pending : Mapped(c) \cap {i, k} = {}
  BY <1>3 DEF Hidden
<1>10. ASSUME NEW c \in Pending', NEW d \in Pending', c # d
       PROVE  (Mapped(c) \cap Mapped(d) = {})'
  <2>1. CASE c # n /\ d # n
    BY <1>6, <1>8, <1>10, <2>1 DEF Blind
  <2>2. CASE c = n
    BY <1>6, <1>7, <1>8, <1>9, <1>10, <2>2
  <2>3. CASE d = n
    BY <1>6, <1>7, <1>8, <1>9, <1>10, <2>3
  <2> QED BY <2>1, <2>2, <2>3
<1>11. ASSUME NEW c \in Comparisons', c \in told'
       PROVE  comparisons'[c].revealed \/ ComparedBefore(c)'
  <2>1. c \in DOMAIN comparisons /\ comparisons'[c] = comparisons[c] /\ c \in told
    BY <1>3, <1>4, <1>11
  <2>2. c \in Comparisons
    BY <1>11, <2>1 DEF Comparisons
  <2> QED BY <1>5, <2>1, <2>2, ComparedStays DEF Blind
<1> QED BY <1>10, <1>11 DEF Blind

LEMMA AnswersAreBlind ==
    ASSUME LabInv, Blind, NEW c \in DOMAIN comparisons, NEW choice \in Labels \cup Other,
           AnswerComparison(c, choice) \/ Correct(c, choice) \/ Withdraw(c)
    PROVE  Blind'
<1>1. told' = told /\ told \subseteq DOMAIN comparisons
  BY InvParts DEF AnswerComparison, Correct, Withdraw, ComparisonsHold
<1>2. comparisons \in Seq(ComparisonRow)
  BY InvParts DEF ComparisonsHold
<1>3. PICK was : was = comparisons[c] /\ was \in ComparisonRow
  BY <1>2
<1>4. PICK row : /\ comparisons' = [comparisons EXCEPT ![c] = row]
                 /\ row.mapping = was.mapping /\ row.revealed = was.revealed
                 /\ was.status # "deleted" /\ (was.status # "pending" => row.status # "pending")
  <2>1. CASE AnswerComparison(c, choice)
    <3>1. PICK more : more = Append(was.choices, choice)
      OBVIOUS
    <3>2. PICK row : row = [was EXCEPT !.status = "answered", !.choices = more]
      OBVIOUS
    <3>3. comparisons' = [comparisons EXCEPT ![c] = row]
      BY <1>3, <2>1, <3>1, <3>2 DEF AnswerComparison, ComparisonRow
    <3>4. was.status = "pending"
      BY <1>3, <2>1 DEF AnswerComparison, Pending
    <3>5. row.mapping = was.mapping /\ row.revealed = was.revealed /\ row.status = "answered"
      BY <1>3, <3>2 DEF ComparisonRow
    <3>6. was.status # "deleted" /\ (was.status = "pending" => row.status # "pending")
      BY <3>4, <3>5
    <3> QED BY <3>3, <3>5, <3>6, Zenon
  <2>2. CASE Correct(c, choice)
    <3>1. PICK row : row = [was EXCEPT !.choices = Corrected(was.choices, choice)]
      OBVIOUS
    <3>2. comparisons' = [comparisons EXCEPT ![c] = row]
      BY <1>3, <2>2, <3>1 DEF Correct
    <3>3. was.status = "answered"
      BY <1>3, <2>2 DEF Correct
    <3>4. row.mapping = was.mapping /\ row.revealed = was.revealed /\ row.status = was.status
      BY <1>3, <3>1 DEF ComparisonRow
    <3>5. was.status # "deleted" /\ (was.status = "pending" => row.status # "pending")
      BY <3>3
    <3> QED BY <3>2, <3>4, <3>5, Zenon
  <2>3. CASE Withdraw(c)
    <3>1. PICK row : row = [was EXCEPT !.status = "withdrawn"]
      OBVIOUS
    <3>2. comparisons' = [comparisons EXCEPT ![c] = row]
      BY <1>3, <2>3, <3>1 DEF Withdraw
    <3>3. was.status = "pending"
      BY <1>3, <2>3 DEF Withdraw, Pending
    <3> QED BY <1>3, <3>1, <3>2, <3>3 DEF ComparisonRow
  <2> QED BY <2>1, <2>2, <2>3
<1>5. /\ DOMAIN comparisons' = DOMAIN comparisons /\ comparisons'[c] = row
      /\ \A d \in DOMAIN comparisons : d # c => comparisons'[d] = comparisons[d]
  BY <1>2, <1>4
<1>6. ASSUME NEW d \in DOMAIN comparisons PROVE RowStays(d)
  <2>1. CASE d = c
    BY <1>3, <1>4, <1>5, <2>1 DEF RowStays
  <2>2. CASE d # c
    BY <1>5, <2>2 DEF RowStays
  <2> QED BY <2>1, <2>2
<1>7. RowsStay
  BY <1>5, <1>6 DEF RowsStay
<1> QED BY <1>1, <1>5, <1>7, BlindStays

LEMMA WithoutIsBlind ==
    ASSUME LabInv, Blind, NEW gone \in SUBSET Comparisons, NEW status \in {"withdrawn", "deleted"},
           Without(gone, status), UNCHANGED told
    PROVE  Blind'
<1>1. /\ DOMAIN comparisons' = DOMAIN comparisons
      /\ \A c \in gone : comparisons'[c] = [comparisons[c] EXCEPT !.status = status]
      /\ \A c \in DOMAIN comparisons : c \notin gone => comparisons'[c] = comparisons[c]
  BY DEF Without, Comparisons
<1>2. told \subseteq DOMAIN comparisons /\ comparisons \in Seq(ComparisonRow)
  BY InvParts DEF ComparisonsHold
<1>3. ASSUME NEW c \in DOMAIN comparisons PROVE RowStays(c)
  <2>1. PICK was : was = comparisons[c] /\ was \in ComparisonRow
    BY <1>2
  <2>2. CASE c \in gone
    <3>1. comparisons'[c] = [was EXCEPT !.status = status] /\ was.status # "deleted"
      BY <1>1, <2>1, <2>2 DEF Comparisons
    <3> QED BY <2>1, <3>1 DEF RowStays, ComparisonRow
  <2>3. CASE c \notin gone
    BY <1>1, <2>3 DEF RowStays
  <2> QED BY <2>2, <2>3
<1>4. RowsStay
  BY <1>1, <1>3 DEF RowsStay
<1> QED BY <1>1, <1>2, <1>4, BlindStays

\* While a comparison waits nothing tells which configuration gave one of its
\* replies, unless it is revealed or one of them was compared before
\* (hidden_attempts(), create(), view()).
THEOREM ShownBlindly == LabSpec => []Blind
<1>1. ChoicesInit => Blind
  BY DEF ChoicesInit, Blind, Pending, Comparisons
<1>2. LabInv /\ Blind /\ [LabNext]_labVars => Blind'
  <2> SUFFICES ASSUME LabInv, Blind, [LabNext]_labVars PROVE Blind'
    OBVIOUS
  <2>1. CASE Evidence
    <3>1. CASE Without(Pending, "withdrawn") /\ UNCHANGED told
      <4>1. PICK gone, status : gone = Pending /\ status = "withdrawn"
        OBVIOUS
      <4>2. Without(gone, status) /\ gone \in SUBSET Comparisons
        BY <3>1, <4>1 DEF Pending
      <4> QED BY <3>1, <4>1, <4>2, WithoutIsBlind
    <3>2. CASE Without(Comparisons, "deleted") /\ UNCHANGED told
      <4>1. PICK gone, status : gone = Comparisons /\ status = "deleted"
        OBVIOUS
      <4>2. Without(gone, status) /\ gone \in SUBSET Comparisons
        BY <3>2, <4>1
      <4> QED BY <3>2, <4>1, <4>2, WithoutIsBlind
    <3>3. CASE \E slug \in Slugs : Without(ComparisonsOf(slug), "deleted") /\ UNCHANGED told
      <4>1. PICK slug \in Slugs : Without(ComparisonsOf(slug), "deleted") /\ UNCHANGED told
        BY <3>3
      <4>2. PICK gone, status : gone = ComparisonsOf(slug) /\ status = "deleted"
        OBVIOUS
      <4>3. Without(gone, status) /\ gone \in SUBSET Comparisons
        BY <4>1, <4>2 DEF ComparisonsOf
      <4> QED BY <4>1, <4>2, <4>3, WithoutIsBlind
    <3>4. CASE UNCHANGED choiceVars
      <4>1. comparisons' = comparisons /\ told' = told /\ told \subseteq DOMAIN comparisons
        BY <3>4, InvParts DEF choiceVars, ComparisonsHold
      <4>2. RowsStay
        BY <4>1 DEF RowsStay, RowStays
      <4> QED BY <4>1, <4>2, BlindStays
    <3> QED BY <2>1, <3>1, <3>2, <3>3, <3>4 DEF Evidence
  <2>2. CASE Chooses
    <3>1. CASE \E i, k \in DOMAIN attempts, turn \in 1 .. 2 : Create(i, k, turn)
      BY <3>1, CreateIsBlind
    <3>2. CASE \E c \in DOMAIN comparisons, reveal \in BOOLEAN : View(c, reveal)
      BY <3>2, ViewIsBlind
    <3>3. CASE ShowReplies
      BY <3>3, ShowRepliesIsBlind
    <3>4. CASE \E c \in DOMAIN comparisons, choice \in Labels \cup Other :
                   AnswerComparison(c, choice) \/ Correct(c, choice)
      BY <3>4, AnswersAreBlind
    <3>5. CASE \E c \in DOMAIN comparisons : Withdraw(c)
      <4>1. "A" \in Labels \cup Other
        BY DEF Labels
      <4> QED BY <3>5, <4>1, AnswersAreBlind
    <3> QED BY <2>2, <3>1, <3>2, <3>3, <3>4, <3>5 DEF Chooses
  <2>3. CASE UNCHANGED labVars
    <3>1. comparisons' = comparisons /\ told' = told /\ told \subseteq DOMAIN comparisons
      BY <2>3, InvParts DEF labVars, choiceVars, ComparisonsHold
    <3>2. RowsStay
      BY <3>1 DEF RowsStay, RowStays
    <3> QED BY <3>1, <3>2, BlindStays
  <2> QED BY <2>1, <2>2, <2>3 DEF LabNext
<1> QED BY <1>1, <1>2, EvidenceIsSound, PTL DEF LabSpec

LEMMA FairnessFollows == LabInv /\ Blind => ChoicesAreFair
<1> SUFFICES ASSUME LabInv, Blind PROVE ChoicesAreFair
  OBVIOUS
<1>1. ComparisonsHold
  BY InvParts
<1>2. ASSUME NEW c \in Comparisons
      PROVE  /\ (comparisons[c].choices # << >>) <=> (comparisons[c].status = "answered")
             /\ SameSituation(comparisons[c])
  BY <1>1 DEF ComparisonsHold, Comparisons
<1>3. BlindOrLogged
  BY <1>2 DEF BlindOrLogged, Blind
<1>4. RepliesShareTheSituation
  <2>1. ASSUME NEW c \in Comparisons, NEW i \in Mapped(c)
        PROVE  /\ i \in Done
               /\ comparisons[c].situation =
                     <<attempts[i].ran, attempts[i].continues, Before(i, comparisons[c].turn)>>
    <3>1. PICK label \in Labels : i = comparisons[c].mapping[label]
      BY <2>1 DEF Mapped
    <3> QED BY <1>2, <3>1 DEF SameSituation
  <2> QED BY <2>1 DEF RepliesShareTheSituation
<1> QED BY <1>3, <1>4 DEF ChoicesAreFair

LEMMA IndependenceFollows == LabInv => IndependentOfDetails
<1> SUFFICES ASSUME LabInv, Independent, NEW s \in validation.items, readAt.detail[s] # NoTime,
                    NEW c \in DOMAIN madeAt
             PROVE  ~(madeAt[c] > readAt.detail[s])
  BY DEF IndependentOfDetails, ReadBefore
<1>1. LabTyped /\ ReadingsAreKept
  BY InvParts
<1>2. validation.made /\ MadeAfterSeen = {}
  BY DEF Independent
<1>3. s \in Slugs /\ readAt.detail[s] \in Nat
  BY <1>1 DEF LabTyped, ScenarioSet
<1>4. PICK i \in Done : SlugOf(i) = s /\ attempts[i].viewed = readAt.detail[s]
  BY <1>1, <1>2, <1>3 DEF ReadingsAreKept
<1>5. i \in OnValidation
  BY <1>4 DEF OnValidation
<1>6. readAt.detail[s] \in Seen
  BY <1>3, <1>4, <1>5 DEF Seen, NoTime
<1>7. Seen \in SUBSET Nat
  <2>1. \A k \in Done : attempts[k].viewed \in {NoTime} \cup Nat
    BY <1>1, RowTypes DEF Done, AttemptIds, AttemptRow
  <2> QED BY <2>1 DEF Seen, OnValidation
<1>8. PICK m \in Seen : \A n \in Seen : m <= n
  BY <1>6, <1>7, LeastNat
<1>9. Min(Seen) \in Seen /\ \A n \in Seen : Min(Seen) <= n
  <2>1. PICK S : S = Seen
    OBVIOUS
  <2>2. m \in S /\ \A n \in S : m <= n
    BY <1>8, <2>1
  <2>3. Min(S) \in S /\ \A n \in S : Min(S) <= n
    BY <2>2 DEF Min
  <2> QED BY <2>1, <2>3
<1>10. madeAt[c] \in Nat
  BY <1>1, EvidenceAssumption DEF LabTyped, CandidateTime
<1>11. ~(madeAt[c] > Min(Seen))
  BY <1>2, <1>6 DEF MadeAfterSeen
<1>12. Min(Seen) \in Nat /\ Min(Seen) <= readAt.detail[s]
  BY <1>6, <1>7, <1>9
<1> QED BY <1>3, <1>10, <1>11, <1>12

\* What a report of the lab says is fair: what is counted is of one situation,
\* what differs is the models' doing, and what judges is what was agreed
\* (report.py, compare(), _judgment_summary()).
THEOREM ReportsAreFair == LabSpec => []ReportIsFair
<1>1. LabInv => ReportIsFair
  BY TypesFollow, RowsFollow, DifferencesFollow, RubricFollows DEF ReportIsFair
<1> QED BY <1>1, EvidenceIsSound, PTL

\* A validation set that is called independent evidence was not tuned on with
\* the details of its attempts (validation_status(), attempt_detail()).
THEOREM IndependenceIsTrue == LabSpec => []IndependentOfDetails
BY EvidenceIsSound, IndependenceFollows, PTL

\* The owner chooses blindly, between replies to the situation that is shown
\* (preferences.py).
THEOREM OwnersChooseFairly == LabSpec => []ChoicesAreFair
BY EvidenceIsSound, ShownBlindly, FairnessFollows, PTL

-----------------------------------------------------------------------------
(* What the owner chose *)

KeptChoice(c) ==
    c \in Comparisons' =>
        /\ Len(comparisons[c].choices) <= Len(comparisons'[c].choices)
        /\ \A n \in DOMAIN comparisons[c].choices :
              comparisons'[c].choices[n] = comparisons[c].choices[n]
        /\ comparisons[c].status \in {"answered", "withdrawn"} =>
              comparisons'[c].status = comparisons[c].status

LEMMA ChoicesTyped ==
    ASSUME LabInv, NEW c \in Comparisons
    PROVE  /\ comparisons \in Seq(ComparisonRow)
           /\ c \in DOMAIN comparisons /\ comparisons[c] \in ComparisonRow
           /\ comparisons[c].choices \in Seq(Labels \cup Other)
           /\ Len(comparisons[c].choices) \in Nat
           /\ DOMAIN comparisons[c].choices = 1 .. Len(comparisons[c].choices)
<1>1. c \in DOMAIN comparisons /\ comparisons \in Seq(ComparisonRow) /\ comparisons[c] \in ComparisonRow
  BY InvParts, ComparisonTypes DEF Comparisons
<1>2. PICK choices : choices = comparisons[c].choices
  OBVIOUS
<1>3. choices \in Seq(Labels \cup Other)
  BY <1>1, <1>2 DEF ComparisonRow
<1> QED BY <1>1, <1>2, <1>3

LEMMA SameChoice ==
    ASSUME LabInv, NEW c \in Comparisons, comparisons'[c].choices = comparisons[c].choices,
           comparisons[c].status \in {"answered", "withdrawn"} =>
              comparisons'[c].status = comparisons[c].status
    PROVE  KeptChoice(c)
BY ChoicesTyped DEF KeptChoice

\* Comparisons that a step withdraws or deletes keep their choices.
LEMMA WithoutKeepsChoices ==
    ASSUME LabInv, NEW gone \in SUBSET Comparisons, NEW status \in {"withdrawn", "deleted"},
           Without(gone, status), status = "withdrawn" => gone \subseteq Pending,
           NEW c \in Comparisons
    PROVE  KeptChoice(c)
<1>1. PICK was, row : was = comparisons[c] /\ row = comparisons'[c]
  OBVIOUS
<1>2. was \in ComparisonRow /\ c \in DOMAIN comparisons
  BY <1>1, ChoicesTyped
<1>3. CASE c \in gone
  <2>1. row = [was EXCEPT !.status = status]
    BY <1>1, <1>2, <1>3 DEF Without
  <2>2. row.choices = was.choices /\ row.status = status
    BY <1>2, <2>1 DEF ComparisonRow
  <2>3. CASE status = "deleted"
    BY <1>1, <2>2, <2>3 DEF KeptChoice, Comparisons
  <2>4. CASE status = "withdrawn"
    BY <1>1, <1>3, <2>2, <2>4, SameChoice DEF Pending
  <2> QED BY <2>3, <2>4
<1>4. CASE c \notin gone
  <2>1. row = was
    BY <1>1, <1>2, <1>4 DEF Without
  <2> QED BY <1>1, <2>1, SameChoice
<1> QED BY <1>3, <1>4

LEMMA ChoiceStands ==
    ASSUME LabInv, LabNext, NEW c \in Comparisons
    PROVE  KeptChoice(c)
<1>0. PICK was : was = comparisons[c]
  OBVIOUS
<1>1. c \in DOMAIN comparisons /\ was \in ComparisonRow /\ comparisons \in Seq(ComparisonRow)
  BY <1>0, ChoicesTyped
<1>2. CASE UNCHANGED comparisons
  BY <1>2, SameChoice
<1>3. CASE \E gone \in SUBSET Comparisons, status \in {"withdrawn", "deleted"} :
              Without(gone, status) /\ (status = "withdrawn" => gone \subseteq Pending)
  BY <1>3, WithoutKeepsChoices
<1>4. CASE Evidence
  <2>1. CASE EndRun /\ Without(Pending, "withdrawn") /\ UNCHANGED told
    <3>1. Pending \in SUBSET Comparisons
      BY DEF Pending
    <3> QED BY <1>3, <2>1, <3>1
  <2>2. CASE Cleanup /\ Without(Comparisons, "deleted") /\ UNCHANGED told
    BY <1>3, <2>2
  <2>3. CASE \E slug \in Slugs : /\ DropScenario(slug)
                                 /\ Without(ComparisonsOf(slug), "deleted") /\ UNCHANGED told
    <3>1. PICK slug \in Slugs : Without(ComparisonsOf(slug), "deleted")
      BY <2>3
    <3>2. ComparisonsOf(slug) \in SUBSET Comparisons
      BY DEF ComparisonsOf
    <3> QED BY <1>3, <3>1, <3>2
  <2>4. CASE UNCHANGED choiceVars
    BY <1>2, <2>4 DEF choiceVars
  <2> QED BY <1>4, <2>1, <2>2, <2>3, <2>4 DEF Evidence
<1>5. CASE \E i, k \in DOMAIN attempts, turn \in 1 .. 2 : Create(i, k, turn)
  <2>1. PICK row : comparisons' = Append(comparisons, row)
    BY <1>5 DEF Create
  <2>2. comparisons'[c] = comparisons[c]
    BY <1>1, <2>1
  <2> QED BY <2>2, SameChoice
<1>6. CASE \E d \in DOMAIN comparisons, reveal \in BOOLEAN : View(d, reveal)
  <2>1. PICK d \in DOMAIN comparisons, reveal \in BOOLEAN : View(d, reveal)
    BY <1>6
  <2>2. CASE d = c /\ d \in Pending
    <3>1. PICK shows : shows = RevealedNow(comparisons[d].revealed, reveal)
      OBVIOUS
    <3>2. comparisons'[c] = [was EXCEPT !.revealed = shows]
      BY <1>0, <1>1, <2>1, <2>2, <3>1 DEF View
    <3>3. comparisons'[c].choices = was.choices /\ comparisons'[c].status = was.status
      BY <1>1, <3>2 DEF ComparisonRow
    <3> QED BY <1>0, <3>3, SameChoice
  <2>3. CASE ~(d = c /\ d \in Pending)
    <3>1. comparisons'[c] = comparisons[c]
      BY <1>1, <2>1, <2>3 DEF View
    <3> QED BY <3>1, SameChoice
  <2> QED BY <2>2, <2>3
<1>7. CASE ShowReplies
  BY <1>2, <1>7 DEF ShowReplies
<1>8. CASE \E d \in DOMAIN comparisons, choice \in Labels \cup Other :
              AnswerComparison(d, choice) \/ Correct(d, choice)
  <2>1. PICK d \in DOMAIN comparisons, choice \in Labels \cup Other :
            AnswerComparison(d, choice) \/ Correct(d, choice)
    BY <1>8
  <2>2. CASE d # c
    <3>1. comparisons'[c] = comparisons[c]
      BY <1>1, <2>1, <2>2 DEF AnswerComparison, Correct
    <3> QED BY <3>1, SameChoice
  <2>3. CASE d = c
    <3>1. PICK before, after : before = was.choices /\ after = Append(was.choices, choice)
      OBVIOUS
    <3>2. before \in Seq(Labels \cup Other)
      BY <1>1, <3>1 DEF ComparisonRow
    <3>3. Len(before) <= Len(after) /\ \A n \in DOMAIN before : after[n] = before[n]
      BY <3>1, <3>2
    <3>4. /\ comparisons'[c].choices = after
          /\ was.status = "answered" => comparisons'[c].status = "answered"
          /\ was.status \in {"answered", "pending"}
      <4>1. CASE AnswerComparison(d, choice)
        <5>1. comparisons'[c] = [was EXCEPT !.status = "answered", !.choices = after]
          BY <1>0, <1>1, <2>3, <3>1, <4>1 DEF AnswerComparison
        <5> QED BY <1>0, <1>1, <2>3, <4>1, <5>1 DEF AnswerComparison, Pending, ComparisonRow
      <4>2. CASE Correct(d, choice)
        <5>1. comparisons'[c] = [was EXCEPT !.choices = after] /\ was.status = "answered"
          BY <1>0, <1>1, <2>3, <3>1, <4>2 DEF Correct, Corrected
        <5> QED BY <1>1, <5>1 DEF ComparisonRow
      <4> QED BY <2>1, <4>1, <4>2
    <3> QED BY <1>0, <3>1, <3>3, <3>4 DEF KeptChoice
  <2> QED BY <2>2, <2>3
<1>9. CASE \E d \in DOMAIN comparisons : Withdraw(d)
  <2>1. PICK d \in DOMAIN comparisons : Withdraw(d)
    BY <1>9
  <2>2. CASE d # c
    <3>1. comparisons'[c] = comparisons[c]
      BY <1>1, <2>1, <2>2 DEF Withdraw
    <3> QED BY <3>1, SameChoice
  <2>3. CASE d = c
    <3>1. comparisons'[c] = [was EXCEPT !.status = "withdrawn"] /\ was.status = "pending"
      BY <1>0, <1>1, <2>1, <2>3 DEF Withdraw, Pending
    <3>2. comparisons'[c].choices = was.choices
      BY <1>1, <3>1 DEF ComparisonRow
    <3> QED BY <1>0, <3>1, <3>2, SameChoice
  <2> QED BY <2>2, <2>3
<1> QED BY <1>4, <1>5, <1>6, <1>7, <1>8, <1>9 DEF LabNext, Chooses

\* What the owner chose is kept, corrections beside it (answer(), correct()).
THEOREM OwnersChoicesStay == LabSpec => ChoicesAreKept
<1>1. LabInv /\ [LabNext]_labVars =>
         [\A c \in Comparisons : c \in Comparisons' =>
             /\ Len(comparisons[c].choices) <= Len(comparisons'[c].choices)
             /\ \A n \in DOMAIN comparisons[c].choices :
                   comparisons'[c].choices[n] = comparisons[c].choices[n]
             /\ comparisons[c].status \in {"answered", "withdrawn"} =>
                   comparisons'[c].status = comparisons[c].status]_labVars
  BY ChoiceStands DEF KeptChoice
<1> QED BY <1>1, EvidenceIsSound, PTL DEF LabSpec, ChoicesAreKept
=============================================================================
