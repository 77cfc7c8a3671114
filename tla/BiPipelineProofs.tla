---------------------------- MODULE BiPipelineProofs ----------------------------
(***************************************************************************)
(* Theorems about BiPipeline for every set of articles, customers and      *)
(* labels, every time and any number of faults: its types, that no article *)
(* is skipped, that cooldowns are respected across runs that end early,    *)
(* that labels are counted once, and that what was announced is on disk.   *)
(***************************************************************************)
EXTENDS BiPipeline, TLAPS, FiniteSetTheorems, SequenceTheorems, WellFoundedInduction

--------------------------------------------------------------------------------
(***************************************************************************)
(* Greatest elements and finite sets.                                      *)
(***************************************************************************)

\* The greater of two numbers.
LEMMA MaxOfTwo ==
    ASSUME NEW a \in Int, NEW b \in Int
    PROVE  /\ Max({a, b}) \in {a, b}
           /\ Max({a, b}) >= a /\ Max({a, b}) >= b
<1> DEFINE S == {a, b}
<1>1. \E x \in S : \A y \in S : x >= y
  <2>1. CASE a >= b
    BY <2>1
  <2>2. CASE b >= a
    BY <2>2
  <2> QED
    BY <2>1, <2>2
<1>2. Max(S) \in S /\ \A y \in S : Max(S) >= y
  BY <1>1 DEF Max
<1> QED
  BY <1>2

\* A number of a set above all others is its maximum.
LEMMA MaxIs ==
    ASSUME NEW S \in SUBSET Int, NEW m \in S, \A x \in S : x <= m
    PROVE  Max(S) = m
<1>1. \E x \in S : \A y \in S : x >= y
  OBVIOUS
<1>2. Max(S) \in S /\ \A y \in S : Max(S) >= y
  BY <1>1 DEF Max
<1>3. Max(S) \in Int /\ m \in Int
  BY <1>2
<1> QED
  BY <1>2, <1>3

\* The image of a finite set under a function is finite.
LEMMA ImageFinite ==
    ASSUME NEW S, IsFiniteSet(S), NEW f, DOMAIN f = S
    PROVE  IsFiniteSet({f[x] : x \in S})
<1> DEFINE T == {f[x] : x \in S}
           g == [x \in S |-> f[x]]
<1>1. g \in Surjection(S, T)
  BY DEF Surjection
<1> QED
  BY <1>1, FS_Surjection

\* A finite set of numbers that has members has a greatest one.
LEMMA GreatestExists ==
    ASSUME NEW S \in SUBSET Nat, IsFiniteSet(S), S # {}
    PROVE  Max(S) \in S /\ \A y \in S : y <= Max(S)
<1> DEFINE Above(x) == {y \in S : y > x}
           Counts == {Cardinality(Above(x)) : x \in S}
<1>1. ASSUME NEW x \in S
      PROVE  IsFiniteSet(Above(x)) /\ Cardinality(Above(x)) \in Nat
  BY FS_Subset, FS_CardinalityType
<1>2. Counts \subseteq Nat /\ Counts # {}
  BY <1>1
<1>3. PICK n \in Counts : \A k \in Counts : ~(<<k, n>> \in OpToRel(<, Nat))
  <2> HIDE DEF Counts
  <2> QED
    BY <1>2, NatLessThanWellFounded, WFMin
<1>4. PICK x \in S : n = Cardinality(Above(x))
  OBVIOUS
<1>5. ASSUME NEW y \in S
      PROVE  y <= x
  <2> SUFFICES ASSUME y > x
               PROVE  FALSE
    OBVIOUS
  <2>0. y \in Above(x) /\ y \notin Above(y)
    BY <1>5
  <2>1. Above(y) \subseteq Above(x) /\ Above(x) # Above(y)
    <3>1. \A z \in S : z > y => z > x
      BY <1>5
    <3> QED
      BY <2>0, <3>1
  <2> HIDE DEF Above
  <2>2. Cardinality(Above(y)) <= Cardinality(Above(x))
        /\ Cardinality(Above(y)) # Cardinality(Above(x))
    BY <2>1, <1>1, FS_Subset
  <2>3. Cardinality(Above(y)) < n /\ Cardinality(Above(y)) \in Nat /\ n \in Nat
    BY <2>2, <1>1, <1>4, <1>5
  <2>4. Cardinality(Above(y)) \in Counts
    BY <1>5
  <2> QED
    BY <2>3, <2>4, <1>3 DEF OpToRel
<1>6. \E z \in S : \A y \in S : z >= y
  BY <1>5
<1>7. Max(S) \in S /\ \A y \in S : Max(S) >= y
  BY <1>6 DEF Max
<1> QED
  BY <1>7

--------------------------------------------------------------------------------
(***************************************************************************)
(* Sequences.                                                              *)
(***************************************************************************)

\* A subset of the places of a sequence has a number of members.
LEMMA PlacesCounted ==
    ASSUME NEW s \in Seq(Labels), NEW T \in SUBSET (1 .. Len(s))
    PROVE  IsFiniteSet(T) /\ Cardinality(T) \in Nat
<1>1. IsFiniteSet(1 .. Len(s))
  <2>1. Len(s) \in Int
    OBVIOUS
  <2> QED
    BY <2>1, FS_Interval
<1> QED
  BY <1>1, FS_Subset, FS_CardinalityType

\* Counting the first lines and then the rest is counting all of them.
LEMMA CountedTwice ==
    ASSUME NEW s \in Seq(Labels), NEW d \in Nat, d <= Len(s), NEW l \in Labels
    PROVE  Cardinality({i \in DOMAIN SubSeq(s, 1, d) : SubSeq(s, 1, d)[i] = l})
           + Cardinality({i \in DOMAIN SubSeq(s, d + 1, Len(s)) : SubSeq(s, d + 1, Len(s))[i] = l})
           = Cardinality({i \in DOMAIN s : s[i] = l})
<1> DEFINE n == Len(s)
           A == {i \in 1 .. d : s[i] = l}
           B == {i \in d + 1 .. n : s[i] = l}
           C == {j \in 1 .. n - d : s[d + j] = l}
           f == [j \in C |-> d + j]
<1>0. n \in Nat /\ DOMAIN s = 1 .. n
  BY LenProperties
<1>1. {i \in DOMAIN SubSeq(s, 1, d) : SubSeq(s, 1, d)[i] = l} = A
  BY <1>0
<1>2. {i \in DOMAIN SubSeq(s, d + 1, n) : SubSeq(s, d + 1, n)[i] = l} = C
  <2>1. DOMAIN SubSeq(s, d + 1, n) = 1 .. n - d
    BY <1>0
  <2>2. \A j \in 1 .. n - d : SubSeq(s, d + 1, n)[j] = s[d + j]
    BY <1>0
  <2> QED
    BY <2>1, <2>2
<1>3. IsFiniteSet(A) /\ IsFiniteSet(B) /\ IsFiniteSet(C)
      /\ Cardinality(A) \in Nat /\ Cardinality(B) \in Nat /\ Cardinality(C) \in Nat
  <2>1. A \subseteq 1 .. n /\ B \subseteq 1 .. n /\ C \subseteq 1 .. n
    BY <1>0
  <2> HIDE DEF A, B, C
  <2> QED
    BY <2>1, PlacesCounted
<1>4. Cardinality(B) = Cardinality(C)
  <2>1. f \in Bijection(C, B)
    <3>1. f \in [C -> B]
      BY <1>0
    <3>2. \A i \in B : \E j \in C : f[j] = i
      <4> TAKE i \in B
      <4>1. i - d \in C /\ f[i - d] = i
        BY <1>0
      <4> QED
        BY <4>1
    <3>3. \A i, j \in C : f[i] = f[j] => i = j
      BY <1>0
    <3> QED
      BY <3>1, <3>2, <3>3 DEF Bijection, Injection, Surjection, IsInjective
  <2> QED
    BY <2>1, <1>3, FS_Bijection DEF ExistsBijection
<1>5. {i \in DOMAIN s : s[i] = l} = A \cup B /\ A \cap B = {}
  BY <1>0
<1>6. Cardinality(A \cup B) = Cardinality(A) + Cardinality(B)
  <2> HIDE DEF A, B
  <2>1. Cardinality(A \cup B) = Cardinality(A) + Cardinality(B) - Cardinality(A \cap B)
    BY <1>3, FS_Union
  <2>2. Cardinality(A \cap B) = 0
    BY <1>5, FS_EmptySet
  <2> QED
    BY <2>1, <2>2, <1>3
<1> QED
  <2> HIDE DEF A, B, C, n
  <2> QED
    BY <1>1, <1>2, <1>3, <1>4, <1>5, <1>6 DEF n

--------------------------------------------------------------------------------
(***************************************************************************)
(* The state file.                                                         *)
(***************************************************************************)

\* The keys of the state.
LEMMA StateKeys ==
    DOMAIN EmptyState = {"seen", "cursor", "alerted", "lastAlert", "stories", "labelled",
                         "stats", "scores", "memory", "sources", "gaps"}
BY DEF EmptyState

\* A file without labels counts none.
LEMMA NoLabelsCounted ==
    ASSUME NEW stats \in [Labels -> Nat], NEW s, DOMAIN s = {}
    PROVE  Counted(stats, s) = stats
<1>1. \A l \in Labels : {i \in DOMAIN s : s[i] = l} = {}
  OBVIOUS
<1>2. \A l \in Labels : stats[l] + 0 = stats[l]
  OBVIOUS
<1> QED
  BY <1>1, <1>2, FS_EmptySet DEF Counted

\* The counts are numbers.
LEMMA CountedType ==
    ASSUME NEW stats \in [Labels -> Nat], NEW s \in Seq(Labels)
    PROVE  Counted(stats, s) \in [Labels -> Nat]
<1>1. ASSUME NEW l \in Labels
      PROVE  Cardinality({i \in DOMAIN s : s[i] = l}) \in Nat
  <2>1. {i \in DOMAIN s : s[i] = l} \subseteq 1 .. Len(s)
    OBVIOUS
  <2> QED
    BY <2>1, PlacesCounted
<1> QED
  BY <1>1 DEF Counted

\* Counting the new lines on top of the old ones counts all.
LEMMA CountedOn ==
    ASSUME NEW s \in Seq(Labels), NEW d \in Nat, d <= Len(s)
    PROVE  Counted(Counted(EmptyState.stats, SubSeq(s, 1, d)), SubSeq(s, d + 1, Len(s)))
               = Counted(EmptyState.stats, SubSeq(s, 1, Len(s)))
<1>1. SubSeq(s, 1, Len(s)) = s
  OBVIOUS
<1>2. EmptyState.stats = [l \in Labels |-> 0]
  BY DEF EmptyState
<1>3. ASSUME NEW l \in Labels
      PROVE  /\ Cardinality({i \in DOMAIN SubSeq(s, 1, d) : SubSeq(s, 1, d)[i] = l}) \in Nat
             /\ Cardinality({i \in DOMAIN SubSeq(s, d + 1, Len(s)) :
                                SubSeq(s, d + 1, Len(s))[i] = l}) \in Nat
             /\ Cardinality({i \in DOMAIN s : s[i] = l}) \in Nat
  <2>1. SubSeq(s, 1, d) \in Seq(Labels) /\ SubSeq(s, d + 1, Len(s)) \in Seq(Labels)
    OBVIOUS
  <2>2. ASSUME NEW q \in Seq(Labels)
        PROVE  Cardinality({i \in DOMAIN q : q[i] = l}) \in Nat
    <3>1. {i \in DOMAIN q : q[i] = l} \subseteq 1 .. Len(q)
      OBVIOUS
    <3> QED
      BY <3>1, PlacesCounted
  <2> QED
    BY <2>1, <2>2
<1>4. ASSUME NEW l \in Labels
      PROVE  Counted(Counted(EmptyState.stats, SubSeq(s, 1, d)), SubSeq(s, d + 1, Len(s)))[l]
               = Counted(EmptyState.stats, s)[l]
  <2> DEFINE Count(q) == Cardinality({i \in DOMAIN q : q[i] = l})
  <2>1. ASSUME NEW f, NEW q
        PROVE  Counted(f, q)[l] = f[l] + Count(q)
    BY DEF Counted
  <2>2. Count(SubSeq(s, 1, d)) + Count(SubSeq(s, d + 1, Len(s))) = Count(s)
    BY CountedTwice
  <2>3. Count(SubSeq(s, 1, d)) \in Nat /\ Count(SubSeq(s, d + 1, Len(s))) \in Nat
        /\ Count(s) \in Nat
    BY <1>3
  <2> HIDE DEF Count
  <2>4. EmptyState.stats[l] = 0
    BY <1>2
  <2>5. Counted(EmptyState.stats, s)[l] = Count(s)
    BY <2>1, <2>3, <2>4
  <2>6. Counted(EmptyState.stats, SubSeq(s, 1, d))[l] = Count(SubSeq(s, 1, d))
    BY <2>1, <2>3, <2>4
  <2> QED
    BY <2>1, <2>2, <2>5, <2>6
<1>5. ASSUME NEW f, NEW q
      PROVE  Counted(f, q) = [l \in Labels |-> Counted(f, q)[l]]
  BY DEF Counted
<1> QED
  <2> DEFINE all == Counted(EmptyState.stats, s)
             on == Counted(Counted(EmptyState.stats, SubSeq(s, 1, d)), SubSeq(s, d + 1, Len(s)))
  <2>1. all = [l \in Labels |-> all[l]] /\ on = [l \in Labels |-> on[l]]
    BY <1>5
  <2>2. \A l \in Labels : on[l] = all[l]
    BY <1>4
  <2> HIDE DEF all, on
  <2>3. on = all
    BY <2>1, <2>2
  <2> QED
    BY <2>3, <1>1 DEF on, all

\* The state a program starts with has its type.
LEMMA EmptyStateType == IsState(EmptyState)
BY DEF IsState, EmptyState, NoCounts

\* The invariant holds at first.
LEMMA InitInv ==
    ASSUME Init
    PROVE  IInv
<1> USE DEF Init
<1>1. TypeOK
  <2>1. clock \in 1 .. MaxClock /\ faults \in 0 .. MaxFaults
    BY BoundsAssumption
  <2>2. IsState(disk) /\ IsState(mem)
    BY EmptyStateType
  <2>3. IsFiniteSet(routed)
    BY FS_EmptySet
  <2>4. posted \in [Keys -> Nat] /\ promised \in [Keys -> Nat] /\ received \in [Articles -> Nat]
    OBVIOUS
  <2>5. labels \in Seq(Labels)
    OBVIOUS
  <2>6. jumped \in BOOLEAN
    BY Zenon
  <2> QED
    BY <2>1, <2>2, <2>3, <2>4, <2>5, <2>6 DEF TypeOK
<1>2. Times /\ Cursors /\ NothingSkipped /\ FetchComplete
  BY DEF Times, Cursors, NothingSkipped, FetchComplete, Running, Fetched, Arrived, EmptyState
<1>3. CooldownKept
  BY DEF CooldownKept, Remembers, Running
<1>4. AlertsNew /\ GuessesNeverAlert /\ ReportIsNewest /\ AnnouncedIsOnDisk
  BY DEF AlertsNew, GuessesNeverAlert, ReportIsNewest, AnnouncedIsOnDisk, Alerts, Running
<1>5. LabelsCountedOnce
  <2>1. EmptyState.labelled = 0 /\ EmptyState.stats \in [Labels -> Nat]
    BY DEF EmptyState
  <2>2. DOMAIN SubSeq(labels, 1, 0) = {}
    OBVIOUS
  <2>3. Len(labels) = 0
    OBVIOUS
  <2>4. Counted(EmptyState.stats, SubSeq(labels, 1, 0)) = EmptyState.stats
    BY <2>1, <2>2, NoLabelsCounted
  <2> QED
    BY <2>1, <2>3, <2>4 DEF LabelsCountedOnce
<1>6. LabelsOfRun
  BY DEF LabelsOfRun, Running
<1> QED
  BY <1>1, <1>2, <1>3, <1>4, <1>5, <1>6 DEF IInv

--------------------------------------------------------------------------------
(***************************************************************************)
(* The world, faults and steps that change nothing.                        *)
(***************************************************************************)

\* A step that changes nothing.
LEMMA StutterInv ==
    ASSUME IInv, UNCHANGED vars
    PROVE  IInv'
<1> USE DEF vars, world, run, history
<1>1. TypeOK' /\ Times' /\ Cursors'
  BY DEF IInv, TypeOK, Times, Cursors, Running
<1>2. NothingSkipped' /\ FetchComplete' /\ CooldownKept'
  BY DEF IInv, NothingSkipped, FetchComplete, CooldownKept, Remembers, Arrived, Fetched, Running
<1>3. AlertsNew' /\ GuessesNeverAlert' /\ ReportIsNewest' /\ AnnouncedIsOnDisk'
  BY DEF IInv, AlertsNew, GuessesNeverAlert, ReportIsNewest, AnnouncedIsOnDisk, Alerts,
         Running, Fetched
<1>4. LabelsCountedOnce' /\ LabelsOfRun'
  BY DEF IInv, LabelsCountedOnce, LabelsOfRun, Running
<1> QED
  BY <1>1, <1>2, <1>3, <1>4 DEF IInv

\* A run that ends leaves what it did in memory, which nobody reads again.
LEMMA EndsInv ==
    ASSUME IInv, NEW fault, NEW at, Ends(fault, at)
    PROVE  IInv'
<1> USE DEF Ends, world, run, history
<1>1. TypeOK' /\ Times' /\ Cursors'
  <2>1. TypeOK
    BY DEF IInv
  <2>2. faults' \in 0 .. MaxFaults
    BY <2>1, BoundsAssumption DEF TypeOK
  <2> QED
    BY <2>1, <2>2 DEF IInv, TypeOK, Times, Cursors, Running
<1>2. NothingSkipped' /\ FetchComplete' /\ CooldownKept'
  BY DEF IInv, NothingSkipped, FetchComplete, CooldownKept, Remembers, Arrived, Fetched, Running
<1>3. AlertsNew' /\ GuessesNeverAlert' /\ ReportIsNewest' /\ AnnouncedIsOnDisk'
  BY DEF IInv, AlertsNew, GuessesNeverAlert, ReportIsNewest, AnnouncedIsOnDisk, Alerts,
         Running, Fetched
<1>4. LabelsCountedOnce' /\ LabelsOfRun'
  BY DEF IInv, LabelsCountedOnce, LabelsOfRun, Running
<1> QED
  BY <1>1, <1>2, <1>3, <1>4 DEF IInv

\* An article comes to the reader.
LEMMA ArriveInv ==
    ASSUME IInv, Arrive
    PROVE  IInv'
<1> USE DEF Arrive, world, run, history
<1>0. PICK a \in Articles : received[a] = 0 /\ received' = [received EXCEPT ![a] = clock]
  OBVIOUS
<1>1. /\ TypeOK
      /\ clock \in Nat /\ clock > 0 /\ now0 \in Nat /\ now0 <= clock
      /\ received \in [Articles -> Nat]
      /\ \A b \in Articles : received'[b] = IF b = a THEN clock ELSE received[b]
  BY <1>0 DEF IInv, TypeOK, Times
<1>2. TypeOK' /\ Times' /\ Cursors'
  BY <1>1 DEF IInv, TypeOK, Times, Cursors, Running
<1>3. NothingSkipped'
  BY <1>1, BoundsAssumption DEF IInv, TypeOK, IsState, NothingSkipped, Cursors, Arrived
<1>4. FetchComplete'
  BY <1>1 DEF IInv, FetchComplete, Arrived, Fetched
<1>5. CooldownKept'
  BY DEF IInv, CooldownKept, Remembers, Running
<1>6. AlertsNew' /\ GuessesNeverAlert' /\ ReportIsNewest' /\ AnnouncedIsOnDisk'
  BY DEF IInv, AlertsNew, GuessesNeverAlert, ReportIsNewest, AnnouncedIsOnDisk, Alerts,
         Running, Fetched
<1>7. LabelsCountedOnce' /\ LabelsOfRun'
  BY DEF IInv, LabelsCountedOnce, LabelsOfRun, Running
<1> QED
  BY <1>2, <1>3, <1>4, <1>5, <1>6, <1>7 DEF IInv

\* Somebody labels an alert: the lines before stay as they are.
LEMMA GiveFeedbackInv ==
    ASSUME IInv, GiveFeedback
    PROVE  IInv'
<1> USE DEF GiveFeedback, world, run, history
<1>0. PICK l \in Labels : labels' = Append(labels, l)
  OBVIOUS
<1>1. /\ TypeOK /\ labels \in Seq(Labels)
      /\ labels' \in Seq(Labels) /\ Len(labels') = Len(labels) + 1
      /\ disk.labelled \in Nat /\ mem.labelled \in Nat
  <2>1. TypeOK /\ labels \in Seq(Labels)
    BY DEF IInv, TypeOK
  <2>2. disk.labelled \in Nat /\ mem.labelled \in Nat
    BY <2>1 DEF TypeOK, IsState
  <2>3. labels' \in Seq(Labels) /\ Len(labels') = Len(labels) + 1
    BY <1>0, <2>1, AppendProperties
  <2> QED
    BY <2>1, <2>2, <2>3
<1>2. ASSUME NEW n \in Nat, n <= Len(labels)
      PROVE  SubSeq(labels', 1, n) = SubSeq(labels, 1, n) /\ n <= Len(labels')
  <2> DEFINE s == SubSeq(labels, 1, n)
             t == SubSeq(labels', 1, n)
  <2>1. \A i \in 1 .. n : labels'[i] = labels[i]
    BY <1>0, <1>1, <1>2
  <2>2. /\ s \in Seq(Labels) /\ Len(s) = n /\ \A i \in 1 .. n : s[i] = labels[i]
        /\ t \in Seq(Labels) /\ Len(t) = n /\ \A i \in 1 .. n : t[i] = labels'[i]
    BY <1>1, <1>2
  <2> HIDE DEF s, t
  <2>3. s = t
    BY <2>1, <2>2, SeqEqual
  <2> QED
    BY <2>3, <1>1, <1>2 DEF s, t
<1>3. TypeOK' /\ Times' /\ Cursors'
  BY <1>1 DEF IInv, TypeOK, Times, Cursors, Running
<1>4. NothingSkipped' /\ FetchComplete' /\ CooldownKept'
  BY DEF IInv, NothingSkipped, FetchComplete, CooldownKept, Remembers, Arrived, Fetched, Running
<1>5. AlertsNew' /\ GuessesNeverAlert' /\ ReportIsNewest' /\ AnnouncedIsOnDisk'
  BY DEF IInv, AlertsNew, GuessesNeverAlert, ReportIsNewest, AnnouncedIsOnDisk, Alerts,
         Running, Fetched
<1>6. LabelsCountedOnce' /\ LabelsOfRun'
  BY <1>1, <1>2 DEF IInv, LabelsCountedOnce, LabelsOfRun, Running
<1> QED
  BY <1>3, <1>4, <1>5, <1>6 DEF IInv

\* Time passes.
LEMMA TickInv ==
    ASSUME IInv, Tick
    PROVE  IInv'
<1> USE DEF Tick, world, run, history
<1>1. /\ TypeOK /\ clock \in Nat /\ clock' = clock + 1 /\ clock' \in 1 .. MaxClock
      /\ now0 \in Nat /\ received \in [Articles -> Nat]
      /\ promised \in [Keys -> Nat] /\ disk.alerted \in [Keys -> Nat]
  BY BoundsAssumption DEF IInv, TypeOK, IsState
<1>2. TypeOK'
  BY <1>1 DEF TypeOK
<1>3. Times' /\ Cursors'
  BY <1>1 DEF IInv, TypeOK, IsState, Times, Cursors, Running
<1>4. NothingSkipped' /\ FetchComplete'
  BY DEF IInv, NothingSkipped, FetchComplete, Arrived, Fetched
<1>5. CooldownKept'
  BY <1>1, BoundsAssumption DEF IInv, CooldownKept, Remembers, Running
<1>6. AlertsNew' /\ GuessesNeverAlert' /\ ReportIsNewest' /\ AnnouncedIsOnDisk'
  BY DEF IInv, AlertsNew, GuessesNeverAlert, ReportIsNewest, AnnouncedIsOnDisk, Alerts,
         Running, Fetched
<1>7. LabelsCountedOnce' /\ LabelsOfRun'
  BY DEF IInv, LabelsCountedOnce, LabelsOfRun, Running
<1> QED
  BY <1>2, <1>3, <1>4, <1>5, <1>6, <1>7 DEF IInv

--------------------------------------------------------------------------------
(***************************************************************************)
(* The steps of a run.                                                     *)
(***************************************************************************)

\* Cleaning up the alert history keeps its type and what still cools.
LEMMA RecentKeeps ==
    ASSUME NEW alerted \in [Keys -> Nat], NEW now \in Nat, NEW later \in Nat, now <= later,
           promised \in [Keys -> Nat], Remembers(alerted, now)
    PROVE  Recent(alerted, now) \in [Keys -> Nat] /\ Remembers(Recent(alerted, now), later)
<1>1. Recent(alerted, now) \in [Keys -> Nat]
  BY DEF Recent
<1>2. ASSUME NEW k \in Keys
      PROVE  \/ promised[k] = 0
             \/ Recent(alerted, now)[k] >= promised[k]
             \/ later - promised[k] >= Cooldown
  BY BoundsAssumption DEF Remembers, Recent
<1> QED
  BY <1>1, <1>2 DEF Remembers

\* A run begins with what the state file remembers, its labels brought up to
\* date.
LEMMA StartInv ==
    ASSUME IInv, Start
    PROVE  IInv'
<1> USE DEF Start, world, run, history
<1>1. /\ TypeOK /\ labels \in Seq(Labels) /\ Len(labels) \in Nat /\ clock \in Nat /\ clock > 0
      /\ promised \in [Keys -> Nat]
  BY DEF IInv, TypeOK
<1>2. /\ IsState(disk) /\ disk.alerted \in [Keys -> Nat] /\ disk.labelled \in Nat
      /\ disk.stats \in [Labels -> Nat] /\ disk.cursor \in Nat
  BY <1>1 DEF TypeOK, IsState
<1>3. /\ disk.labelled <= Len(labels)
      /\ disk.stats = Counted(EmptyState.stats, SubSeq(labels, 1, disk.labelled))
  BY DEF IInv, LabelsCountedOnce
<1>4. /\ Max({disk.labelled, Len(labels)}) = Len(labels)
  <2>1. disk.labelled \in Int /\ Len(labels) \in Int
    BY <1>1, <1>2
  <2>2. Max({disk.labelled, Len(labels)}) \in {disk.labelled, Len(labels)}
        /\ Max({disk.labelled, Len(labels)}) >= Len(labels)
    BY <2>1, MaxOfTwo
  <2> QED
    BY <2>1, <2>2, <1>3
<1>5. /\ DOMAIN mem' = DOMAIN EmptyState
      /\ mem'.alerted = Recent(disk.alerted, clock)
      /\ mem'.stats = Counted(disk.stats, NewLines)
      /\ mem'.labelled = Len(labels)
      /\ mem'.seen = disk.seen /\ mem'.cursor = disk.cursor /\ mem'.lastAlert = disk.lastAlert
      /\ mem'.stories = disk.stories /\ mem'.scores = disk.scores /\ mem'.gaps = disk.gaps
      /\ mem'.memory = disk.memory /\ mem'.sources = disk.sources
  BY <1>2, <1>4, StateKeys DEF IsState
<1>6. NewLines \in Seq(Labels)
  BY <1>1, <1>2 DEF NewLines
<1>7. Recent(disk.alerted, clock) \in [Keys -> Nat]
      /\ Remembers(Recent(disk.alerted, clock), clock)
  <2>1. Remembers(disk.alerted, clock)
    BY DEF IInv, CooldownKept
  <2>2. clock <= clock
    BY <1>1
  <2> QED
    BY <1>1, <1>2, <2>1, <2>2, RecentKeeps
<1>8. Counted(disk.stats, NewLines) \in [Labels -> Nat]
  BY <1>2, <1>6, CountedType
<1>9. TypeOK'
  <2>1. IsState(mem)'
    BY <1>1, <1>2, <1>5, <1>7, <1>8 DEF IsState
  <2>2. IsFiniteSet(routed')
    BY FS_EmptySet
  <2> QED
    BY <1>1, <2>1, <2>2 DEF TypeOK
<1>10. Times' /\ Cursors'
  BY <1>1, <1>5 DEF IInv, Times, Cursors, Running
<1>11. NothingSkipped' /\ FetchComplete'
  BY DEF IInv, NothingSkipped, FetchComplete, Arrived, Fetched
<1>12. CooldownKept'
  BY <1>5, <1>7 DEF IInv, CooldownKept, Remembers
<1>13. AlertsNew' /\ GuessesNeverAlert' /\ ReportIsNewest' /\ AnnouncedIsOnDisk'
  BY DEF AlertsNew, GuessesNeverAlert, ReportIsNewest, AnnouncedIsOnDisk, Alerts
<1>14. LabelsCountedOnce'
  BY DEF IInv, LabelsCountedOnce
<1>15. LabelsOfRun'
  <2>1. Counted(disk.stats, NewLines) = Counted(EmptyState.stats, SubSeq(labels, 1, Len(labels)))
    BY <1>1, <1>2, <1>3, CountedOn DEF NewLines
  <2> QED
    BY <2>1, <1>1, <1>5 DEF LabelsOfRun
<1> QED
  BY <1>9, <1>10, <1>11, <1>12, <1>13, <1>14, <1>15 DEF IInv

\* The fetch looks at everything since the cursor: what it does not ask for was
\* there before the last run that saved, or is too old.
LEMMA FetchInv ==
    ASSUME IInv, Fetch
    PROVE  IInv'
<1> USE DEF Fetch, world, run, history
<1> DEFINE listed == {a \in Arrived : received[a] >= Since}
<1>1. /\ TypeOK /\ clock \in Nat /\ disk.cursor \in Nat /\ mem.cursor = disk.cursor
      /\ received \in [Articles -> Nat]
  BY DEF IInv, TypeOK, IsState, Cursors, Running
<1>2. /\ got' \subseteq listed
      /\ left' = (listed \ got') \cup {a \in Arrived : received[a] < clock - Lookback}
  <2>1. PICK page \in SUBSET listed : got' = {a \in page : Kept(a, page)}
    OBVIOUS
  <2> QED
    BY <2>1
<1>3. listed \subseteq Articles /\ Arrived \subseteq Articles
  BY DEF Arrived
<1>4. TypeOK'
  BY <1>1, <1>2, <1>3 DEF TypeOK
<1>5. Times' /\ Cursors'
  BY DEF IInv, Times, Cursors, Running
<1>6. NothingSkipped'
  BY DEF IInv, NothingSkipped, Arrived
<1>7. FetchComplete'
  <2> SUFFICES ASSUME NEW a \in Arrived, ~jumped, a \notin got', a \notin left', a \notin judged
               PROVE  FALSE
    BY DEF FetchComplete, Arrived
  <2> DEFINE low == clock - Lookback
             back == IF mem.cursor = 0 THEN 0 ELSE mem.cursor - Grace
  <2>1. low \in Int /\ back \in Int /\ received[a] \in Nat
    BY <1>1, BoundsAssumption DEF Arrived
  <2>2. Since \in {low, back} /\ Since \in Int
    <3> HIDE DEF low, back
    <3>1. Max({low, back}) \in {low, back}
      BY <2>1, MaxOfTwo
    <3> QED
      BY <3>1, <2>1 DEF Since, low, back
  <2>3. a \notin listed /\ ~(received[a] < low)
    BY <1>2
  <2>4. received[a] < Since
    BY <2>1, <2>2, <2>3
  <2>5. received[a] < back
    <3> HIDE DEF low, back
    <3> QED
      BY <2>1, <2>2, <2>3, <2>4
  <2>6. received[a] < disk.cursor - Grace
    BY <2>1, <2>5, <1>1
  <2> QED
    BY <2>1, <2>6, <1>1, BoundsAssumption DEF IInv, NothingSkipped, Arrived
<1>8. CooldownKept'
  BY DEF IInv, CooldownKept, Remembers, Running
<1>9. AlertsNew' /\ GuessesNeverAlert' /\ ReportIsNewest' /\ AnnouncedIsOnDisk'
  BY DEF IInv, AlertsNew, GuessesNeverAlert, ReportIsNewest, AnnouncedIsOnDisk, Alerts,
         Running, Fetched
<1>10. LabelsCountedOnce' /\ LabelsOfRun'
  BY DEF IInv, LabelsCountedOnce, LabelsOfRun, Running
<1> QED
  BY <1>4, <1>5, <1>6, <1>7, <1>8, <1>9, <1>10 DEF IInv

\* What an event is, whether the AI answered or not.
LEMMA ExtractedType ==
    ASSUME NEW a \in Articles, NEW e \in Extracted(a)
    PROVE  /\ e.type \in Types /\ StoryOf(a, e) \in Stories /\ e.ai \in BOOLEAN
           /\ e.ai \/ e.conf = 42
<1>1. CASE e \in Answers
  <2>1. e \in Event /\ e.ai
    BY <1>1, EventsAssumption
  <2>2. e.type \in Types /\ e.summary \in Summaries /\ e.ai \in BOOLEAN
    BY <2>1 DEF Event
  <2> QED
    BY <2>1, <2>2, ArticlesAssumption DEF StoryOf
<1>2. CASE e = Heuristic(a)
  <2>1. e.type \in Types /\ e.summary \in Summaries /\ e.ai = FALSE /\ e.conf = 42
    BY <1>2, EventsAssumption DEF Heuristic
  <2> QED
    BY <2>1, ArticlesAssumption DEF StoryOf
<1> QED
  BY <1>1, <1>2 DEF Extracted

\* Where an item goes: an alert is sure enough and does not cool.
LEMMA RouteIs ==
    ASSUME NEW c, NEW a, NEW e, NEW score
    PROVE  /\ Route(c, a, e, score) \in Lists \cup {"none"}
           /\ Route(c, a, e, score) = "alert" =>
                 e.conf >= 50 /\ ~Cooling(<<c, StoryOf(a, e), e.type>>)
BY DEF Route, Lists

\* What the analysis of an article does to the lists and to the state.
Analysis(a, st, ty, ai, list) ==
    /\ \A c \in Customers : list[c] = "alert" => ai /\ ~Cooling(<<c, st, ty>>)
    /\ queue' = queue \ {a}
    /\ routed' = routed \cup
          {[customer |-> c, article |-> a, story |-> st, type |-> ty,
            list |-> list[c], ai |-> ai] : c \in {d \in Customers : list[d] # "none"}}
    /\ IsState(mem)'
    /\ mem'.alerted = [k \in Keys |->
          IF k[2] = st /\ k[3] = ty /\ list[k[1]] = "alert" THEN now0 ELSE mem.alerted[k]]
    /\ mem'.cursor = mem.cursor /\ mem'.labelled = mem.labelled /\ mem'.stats = mem.stats

\* Every step Analyse is one of these.
LEMMA AnalyseStep ==
    ASSUME TypeOK, Analyse
    PROVE  \E a \in queue, st \in Stories, ty \in Types, ai \in BOOLEAN,
              list \in [Customers -> Lists \cup {"none"}] : Analysis(a, st, ty, ai, list)
<1>1. PICK a \in queue : \E text \in Enriched, e \in Extracted(a) :
          \E score \in {[c \in Customers |-> Score(c, a, text, e, mem)]} :
             File(a, e, score, [c \in Customers |-> Route(c, a, e, score[c])])
  BY DEF Analyse
<1>2. PICK e \in Extracted(a) : \E score :
          File(a, e, score, [c \in Customers |-> Route(c, a, e, score[c])])
  BY <1>1
<1>2a. PICK score : File(a, e, score, [c \in Customers |-> Route(c, a, e, score[c])])
  BY <1>2
<1> DEFINE list == [c \in Customers |-> Route(c, a, e, score[c])]
           st == StoryOf(a, e)
           ty == e.type
           fresh == [k \in Keys |-> IF k[2] = st /\ k[3] = ty /\ list[k[1]] = "alert"
                                      THEN now0 ELSE mem.alerted[k]]
<1>3. /\ queue' = queue \ {a}
      /\ routed' = routed \cup
            {[customer |-> c, article |-> a, story |-> st, type |-> ty,
              list |-> list[c], ai |-> e.ai] : c \in {d \in Customers : list[d] # "none"}}
      /\ mem' = [mem EXCEPT
            !.stories[<<ty, st>>] = @ + 1,
            !.scores = [c \in Customers |-> Append(@[c], score[c])],
            !.alerted = [k \in Keys |-> IF k[2] = st /\ k[3] = ty /\ list[k[1]] = "alert"
                                          THEN now0 ELSE @[k]]]
  BY <1>2a DEF File
<1>4. a \in Articles
  BY DEF TypeOK
<1>5. st \in Stories /\ ty \in Types /\ e.ai \in BOOLEAN /\ (e.ai \/ e.conf = 42)
  BY <1>4, ExtractedType
<1>6. list \in [Customers -> Lists \cup {"none"}]
  BY RouteIs
<1>7. ASSUME NEW c \in Customers, list[c] = "alert"
      PROVE  e.ai /\ ~Cooling(<<c, st, ty>>)
  <2>1. e.conf >= 50 /\ ~Cooling(<<c, st, ty>>)
    BY <1>7, RouteIs
  <2> QED
    BY <2>1, <1>5
<1> HIDE DEF list, st, ty
<1>8. /\ DOMAIN mem = DOMAIN EmptyState /\ now0 \in Nat
      /\ mem.stories \in [Types \X Stories -> Nat] /\ mem.alerted \in [Keys -> Nat]
      /\ IsState(mem)
  BY DEF TypeOK, IsState
<1>9. /\ DOMAIN mem' = DOMAIN EmptyState
      /\ mem'.alerted = fresh
      /\ mem'.stories = [mem.stories EXCEPT ![<<ty, st>>] = @ + 1]
      /\ DOMAIN mem'.scores = Customers
      /\ mem'.seen = mem.seen /\ mem'.cursor = mem.cursor /\ mem'.lastAlert = mem.lastAlert
      /\ mem'.labelled = mem.labelled /\ mem'.stats = mem.stats /\ mem'.gaps = mem.gaps
      /\ mem'.memory = mem.memory /\ mem'.sources = mem.sources
  BY <1>3, <1>8, StateKeys
<1>10. fresh \in [Keys -> Nat]
  BY <1>8
<1>11. [mem.stories EXCEPT ![<<ty, st>>] = @ + 1] \in [Types \X Stories -> Nat]
  BY <1>8, <1>5
<1>12. IsState(mem)'
  BY <1>8, <1>9, <1>10, <1>11 DEF IsState
<1> HIDE DEF fresh
<1>13. \A c \in Customers : list[c] = "alert" => e.ai /\ ~Cooling(<<c, st, ty>>)
  BY <1>7
<1>14. Analysis(a, st, ty, e.ai, list)
  BY <1>3, <1>9, <1>12, <1>13 DEF Analysis, fresh
<1> QED
  BY <1>5, <1>6, <1>14

\* A new alert was not cooling, and one of the same run would be.
LEMMA AnalyseInv ==
    ASSUME IInv, Analyse
    PROVE  IInv'
<1> USE DEF Analyse, world, run, history
<1>1. /\ TypeOK /\ IsState(mem) /\ mem.alerted \in [Keys -> Nat] /\ now0 \in Nat /\ now0 > 0
      /\ promised \in [Keys -> Nat] /\ routed \subseteq Items /\ IsFiniteSet(routed)
      /\ Remembers(mem.alerted, now0)
  BY DEF IInv, TypeOK, IsState, Times, CooldownKept, Running
<1>2. PICK a \in queue, st \in Stories, ty \in Types, ai \in BOOLEAN,
           list \in [Customers -> Lists \cup {"none"}] : Analysis(a, st, ty, ai, list)
  BY <1>1, AnalyseStep
<1> DEFINE told == {d \in Customers : list[d] # "none"}
           item == [c \in told |-> [customer |-> c, article |-> a, story |-> st, type |-> ty,
                                    list |-> list[c], ai |-> ai]]
           new == {item[c] : c \in told}
<1>3. routed' = routed \cup new /\ queue' \subseteq queue /\ a \in Articles
  <2>1. queue' = queue \ {a}
    BY <1>2 DEF Analysis
  <2>2. a \in Articles
    BY <1>1 DEF TypeOK
  <2>3. new = {[customer |-> c, article |-> a, story |-> st, type |-> ty,
                list |-> list[c], ai |-> ai] : c \in told}
    OBVIOUS
  <2>4. routed' = routed \cup {[customer |-> c, article |-> a, story |-> st, type |-> ty,
                               list |-> list[c], ai |-> ai] : c \in told}
    BY <1>2 DEF Analysis
  <2> QED
    BY <2>1, <2>2, <2>3, <2>4
<1>4. new \subseteq Items /\ IsFiniteSet(new)
  <2>1. \A c \in told : item[c] \in Items
    BY <1>2, <1>3 DEF Items
  <2>2. IsFiniteSet(told)
    BY ArticlesAssumption, FS_Subset
  <2>3. DOMAIN item = told
    OBVIOUS
  <2> HIDE DEF told, item
  <2> QED
    BY <2>1, <2>2, <2>3, ImageFinite
<1>5. ASSUME NEW i \in Alerts'
      PROVE  \/ i \in Alerts
             \/ \E c \in told : i = item[c] /\ list[c] = "alert" /\ KeyOf(i) = <<c, st, ty>>
  <2>1. i \in routed' /\ i.list = "alert"
    BY <1>5 DEF Alerts
  <2>2. CASE i \in routed
    BY <2>1, <2>2 DEF Alerts
  <2>3. CASE i \in new
    <3>1. PICK c \in told : i = item[c]
      BY <2>3
    <3>2. i.list = list[c] /\ KeyOf(i) = <<c, st, ty>>
      BY <3>1 DEF KeyOf
    <3> QED
      BY <2>1, <3>1, <3>2
  <2> QED
    BY <2>1, <2>2, <2>3, <1>3
<1>6. ASSUME NEW c \in told, list[c] = "alert"
      PROVE  /\ ai /\ <<c, st, ty>> \in Keys
             /\ mem'.alerted[<<c, st, ty>>] = now0
             /\ \/ mem.alerted[<<c, st, ty>>] = 0
                \/ now0 - mem.alerted[<<c, st, ty>>] >= Cooldown
  <2>1. ai /\ ~Cooling(<<c, st, ty>>) /\ <<c, st, ty>> \in Keys
    BY <1>2, <1>6 DEF Analysis, Keys
  <2>2. mem'.alerted[<<c, st, ty>>] = now0
    BY <1>2, <1>6, <2>1 DEF Analysis
  <2>3. mem.alerted[<<c, st, ty>>] \in Nat
    BY <1>1, <2>1
  <2> QED
    BY <2>1, <2>2, <2>3, <1>1, BoundsAssumption DEF Cooling
<1>7. ASSUME NEW i \in Alerts
      PROVE  /\ KeyOf(i) \in Keys /\ mem.alerted[KeyOf(i)] = now0 /\ mem'.alerted[KeyOf(i)] = now0
             /\ i.ai
             /\ promised[KeyOf(i)] = 0 \/ now0 - promised[KeyOf(i)] >= Cooldown
             /\ \A j \in Alerts : KeyOf(i) = KeyOf(j) => i = j
  <2>1. KeyOf(i) \in Keys
    BY <1>1 DEF Alerts, KeyOf, Items, Keys
  <2>2. /\ mem.alerted[KeyOf(i)] = now0 /\ i.ai
        /\ promised[KeyOf(i)] = 0 \/ now0 - promised[KeyOf(i)] >= Cooldown
        /\ \A j \in Alerts : KeyOf(i) = KeyOf(j) => i = j
    BY DEF IInv, AlertsNew, GuessesNeverAlert, Running
  <2>3. mem'.alerted[KeyOf(i)] \in {now0, mem.alerted[KeyOf(i)]}
    BY <1>2, <2>1 DEF Analysis
  <2> QED
    BY <2>1, <2>2, <2>3
<1>8. TypeOK'
  <2>1. routed' \subseteq Items /\ IsFiniteSet(routed')
    <3> HIDE DEF new
    <3> QED
      BY <1>1, <1>3, <1>4, FS_Union
  <2>2. IsState(mem)'
    BY <1>2 DEF Analysis
  <2>3. queue' \subseteq got
    BY <1>1, <1>3 DEF TypeOK
  <2> QED
    BY <1>1, <2>1, <2>2, <2>3 DEF TypeOK
<1>9. Times' /\ Cursors'
  BY <1>2 DEF IInv, Times, Cursors, Running, Analysis
<1>10. NothingSkipped' /\ FetchComplete'
  BY DEF IInv, NothingSkipped, FetchComplete, Arrived, Fetched
<1>11. CooldownKept'
  <2>1. ASSUME NEW k \in Keys
        PROVE  \/ promised[k] = 0 \/ mem'.alerted[k] >= promised[k]
               \/ now0 - promised[k] >= Cooldown
    <3>1. CASE mem'.alerted[k] = mem.alerted[k]
      BY <3>1, <1>1 DEF Remembers
    <3>2. CASE mem'.alerted[k] # mem.alerted[k]
      <4>1. k[2] = st /\ k[3] = ty /\ list[k[1]] = "alert" /\ mem'.alerted[k] = now0
        BY <3>2, <1>2 DEF Analysis
      <4>2. k = <<k[1], st, ty>> /\ k[1] \in told
        BY <4>1 DEF Keys
      <4>3. mem.alerted[k] = 0 \/ now0 - mem.alerted[k] >= Cooldown
        BY <4>1, <4>2, <1>6
      <4> QED
        BY <4>1, <4>3, <1>1, BoundsAssumption DEF Remembers
    <3> QED
      BY <3>1, <3>2
  <2> QED
    BY <2>1 DEF IInv, CooldownKept, Remembers
<1>12. AlertsNew' /\ GuessesNeverAlert'
  <2>1. sent = {}
    BY DEF IInv, ReportIsNewest
  <2>2. ASSUME NEW i \in Alerts'
        PROVE  /\ mem'.alerted[KeyOf(i)] = now0 /\ i.ai
               /\ promised[KeyOf(i)] = 0 \/ now0 - promised[KeyOf(i)] >= Cooldown
               /\ \A j \in Alerts' : KeyOf(i) = KeyOf(j) => i = j
    <3>1. CASE i \in Alerts
      <4>1. ASSUME NEW j \in Alerts', j \notin Alerts
            PROVE  KeyOf(j) # KeyOf(i)
        <5>1. PICK c \in told : list[c] = "alert" /\ KeyOf(j) = <<c, st, ty>>
          BY <4>1, <1>5
        <5>2. \/ mem.alerted[KeyOf(j)] = 0
              \/ now0 - mem.alerted[KeyOf(j)] >= Cooldown
          BY <5>1, <1>6
        <5>3. mem.alerted[KeyOf(i)] = now0
          BY <3>1, <1>7
        <5> QED
          BY <5>2, <5>3, <1>1, BoundsAssumption
      <4> QED
        BY <3>1, <4>1, <1>7
    <3>2. CASE i \notin Alerts
      <4>1. PICK c \in told : i = item[c] /\ list[c] = "alert" /\ KeyOf(i) = <<c, st, ty>>
        BY <3>2, <1>5
      <4>2. /\ <<c, st, ty>> \in Keys /\ ai /\ mem'.alerted[KeyOf(i)] = now0
            /\ mem.alerted[KeyOf(i)] = 0 \/ now0 - mem.alerted[KeyOf(i)] >= Cooldown
        BY <4>1, <1>6
      <4>3. promised[KeyOf(i)] = 0 \/ now0 - promised[KeyOf(i)] >= Cooldown
        BY <4>1, <4>2, <1>1, BoundsAssumption DEF Remembers
      <4>4. i.ai
        BY <4>1, <4>2
      <4>5. ASSUME NEW j \in Alerts', KeyOf(i) = KeyOf(j)
            PROVE  i = j
        <5>1. CASE j \in Alerts
          BY <5>1, <4>5, <4>2, <1>1, <1>7, BoundsAssumption
        <5>2. CASE j \notin Alerts
          <6>1. PICK d \in told : j = item[d] /\ list[d] = "alert" /\ KeyOf(j) = <<d, st, ty>>
            BY <5>2, <1>5
          <6> QED
            BY <6>1, <4>1, <4>5
        <5> QED
          BY <5>1, <5>2
      <4> QED
        BY <4>2, <4>3, <4>4, <4>5
    <3> QED
      BY <3>1, <3>2
  <2>3. AlertsNew'
    BY <2>1, <2>2 DEF AlertsNew, Fetched
  <2> QED
    BY <2>2, <2>3 DEF GuessesNeverAlert
<1>13. ReportIsNewest' /\ AnnouncedIsOnDisk'
  BY DEF IInv, ReportIsNewest, AnnouncedIsOnDisk
<1>14. LabelsCountedOnce' /\ LabelsOfRun'
  BY <1>2 DEF IInv, LabelsCountedOnce, LabelsOfRun, Running, Analysis
<1> QED
  BY <1>8, <1>9, <1>10, <1>11, <1>12, <1>13, <1>14 DEF IInv

\* The report is the newest, and says what the run found.
LEMMA ReportInv ==
    ASSUME IInv, Report
    PROVE  IInv'
<1> USE DEF Report, world, run, history
<1>1. /\ TypeOK /\ IsState(mem) /\ clock \in Nat /\ sent = {}
      /\ routed \subseteq Items /\ mem.lastAlert \in [Customers -> Nat]
  <2>1. TypeOK /\ IsState(mem) /\ clock \in Nat /\ routed \subseteq Items
    BY DEF IInv, TypeOK
  <2>2. mem.lastAlert \in [Customers -> Nat]
    BY <2>1 DEF IsState
  <2>3. sent = {}
    BY DEF IInv, ReportIsNewest
  <2> QED
    BY <2>1, <2>2, <2>3
<1>2. /\ DOMAIN mem' = DOMAIN EmptyState
      /\ mem'.lastAlert = LastAlerts /\ mem'.gaps = Gaps(LastAlerts)
      /\ mem'.seen = mem.seen /\ mem'.cursor = mem.cursor /\ mem'.alerted = mem.alerted
      /\ mem'.stories = mem.stories /\ mem'.labelled = mem.labelled /\ mem'.stats = mem.stats
      /\ mem'.scores = mem.scores /\ mem'.memory = mem.memory /\ mem'.sources = mem.sources
  BY <1>1, StateKeys DEF IsState
<1>3. LastAlerts \in [Customers -> Nat] /\ Gaps(LastAlerts) \subseteq Customers
  BY <1>1 DEF LastAlerts, Gaps
<1>4. Alerts \subseteq Items /\ \A o \in outputs : o.at \in Nat /\ o.at <= clock
  BY <1>1 DEF IInv, Alerts, TypeOK, Times
<1>5. \A o \in outputs' : o \in outputs \/ (o.at = clock /\ o.alerts = Alerts)
  <2>1. outputs' \subseteq outputs \cup {[at |-> clock, alerts |-> Alerts]}
    BY DEF Written
  <2> QED
    BY <2>1
<1>6. TypeOK'
  <2>1. IsState(mem)'
    BY <1>1, <1>2, <1>3 DEF IsState
  <2>2. \A o \in outputs' : o.at \in Nat /\ o.alerts \subseteq Items
    BY <1>1, <1>4, <1>5 DEF TypeOK
  <2> QED
    BY <1>1, <2>1, <2>2 DEF TypeOK
<1>7. Times' /\ Cursors'
  BY <1>1, <1>2, <1>4, <1>5 DEF IInv, Times, Cursors, Running
<1>8. NothingSkipped' /\ FetchComplete'
  BY DEF IInv, NothingSkipped, FetchComplete, Arrived, Fetched
<1>9. CooldownKept'
  BY <1>2 DEF IInv, CooldownKept, Remembers, Running
<1>10. AlertsNew' /\ GuessesNeverAlert'
  BY <1>2 DEF IInv, AlertsNew, GuessesNeverAlert, Alerts, Running, Fetched
<1>11. ReportIsNewest'
  <2> DEFINE o == [at |-> clock, alerts |-> Alerts]
  <2>1. o \in outputs' /\ o.alerts = Alerts' /\ \A p \in outputs' : p.at <= o.at
    BY <1>1, <1>4, <1>5 DEF Written, Alerts
  <2> QED
    BY <2>1 DEF ReportIsNewest
<1>12. AnnouncedIsOnDisk'
  BY <1>1 DEF AnnouncedIsOnDisk
<1>13. LabelsCountedOnce' /\ LabelsOfRun'
  BY <1>2 DEF IInv, LabelsCountedOnce, LabelsOfRun, Running
<1> QED
  BY <1>6, <1>7, <1>8, <1>9, <1>10, <1>11, <1>12, <1>13 DEF IInv

\* The webhook carries alerts only, and they are in the report.
LEMMA WebhookInv ==
    ASSUME IInv, Webhook
    PROVE  IInv'
<1> USE DEF Webhook, world, run, history
<1>1. /\ TypeOK /\ now0 \in Nat /\ posted \in [Keys -> Nat] /\ routed \subseteq Items
      /\ faults \in 0 .. MaxFaults
  BY DEF IInv, TypeOK
<1>2. sent' \subseteq Alerts
  BY DEF IsTop
<1>3. faults' \in 0 .. MaxFaults
  BY <1>1, BoundsAssumption
<1>4. TypeOK'
  <2>1. sent' \subseteq Items
    BY <1>1, <1>2 DEF Alerts
  <2>2. posted' \in [Keys -> Nat]
    BY <1>1
  <2> QED
    BY <1>1, <1>3, <2>1, <2>2 DEF TypeOK
<1>5. Times' /\ Cursors'
  BY DEF IInv, Times, Cursors, Running
<1>6. NothingSkipped' /\ FetchComplete'
  BY DEF IInv, NothingSkipped, FetchComplete, Arrived, Fetched
<1>7. CooldownKept'
  BY DEF IInv, CooldownKept, Remembers, Running
<1>8. AlertsNew' /\ GuessesNeverAlert'
  BY <1>2 DEF IInv, AlertsNew, GuessesNeverAlert, Alerts, Running, Fetched
<1>9. PICK o \in outputs : o.alerts = Alerts /\ \A p \in outputs : p.at <= o.at
  BY DEF IInv, ReportIsNewest
<1>10. ReportIsNewest' /\ AnnouncedIsOnDisk'
  BY <1>2, <1>9 DEF ReportIsNewest, AnnouncedIsOnDisk, Alerts
<1>11. LabelsCountedOnce' /\ LabelsOfRun'
  BY DEF IInv, LabelsCountedOnce, LabelsOfRun, Running
<1> QED
  BY <1>4, <1>5, <1>6, <1>7, <1>8, <1>10, <1>11 DEF IInv

\* Pruning leaves the newest report.
LEMMA HooksInv ==
    ASSUME IInv, Hooks
    PROVE  IInv'
<1> USE DEF Hooks, world, run, history
<1>1. TypeOK /\ outputs' \subseteq outputs
  BY DEF IInv, Pruned
<1>2. PICK o \in outputs : o.alerts = Alerts /\ \A p \in outputs : p.at <= o.at
  BY DEF IInv, ReportIsNewest
<1>3. o \in outputs'
  <2>1. {p \in outputs : p.at > o.at} = {}
    BY <1>1, <1>2 DEF TypeOK
  <2> QED
    BY <2>1, <1>2, FS_EmptySet, BoundsAssumption DEF Pruned
<1>4. TypeOK' /\ Times' /\ Cursors'
  BY <1>1 DEF IInv, TypeOK, Times, Cursors, Running
<1>5. NothingSkipped' /\ FetchComplete' /\ CooldownKept'
  BY DEF IInv, NothingSkipped, FetchComplete, CooldownKept, Remembers, Arrived, Fetched, Running
<1>6. AlertsNew' /\ GuessesNeverAlert'
  BY DEF IInv, AlertsNew, GuessesNeverAlert, Alerts, Running, Fetched
<1>7. ReportIsNewest' /\ AnnouncedIsOnDisk'
  <2>1. sent \subseteq Alerts
    BY DEF IInv, AlertsNew
  <2> QED
    BY <2>1, <1>1, <1>2, <1>3 DEF ReportIsNewest, AnnouncedIsOnDisk, Alerts
<1>8. LabelsCountedOnce' /\ LabelsOfRun'
  BY DEF IInv, LabelsCountedOnce, LabelsOfRun, Running
<1> QED
  BY <1>4, <1>5, <1>6, <1>7, <1>8 DEF IInv

\* Metrics go out of the program.
LEMMA MetricsInv ==
    ASSUME IInv, Metrics
    PROVE  IInv'
<1> USE DEF Metrics, world, run, history
<1>1. TypeOK' /\ Times' /\ Cursors'
  BY DEF IInv, TypeOK, Times, Cursors, Running
<1>2. NothingSkipped' /\ FetchComplete' /\ CooldownKept'
  BY DEF IInv, NothingSkipped, FetchComplete, CooldownKept, Remembers, Arrived, Fetched, Running
<1>3. AlertsNew' /\ GuessesNeverAlert' /\ ReportIsNewest' /\ AnnouncedIsOnDisk'
  BY DEF IInv, AlertsNew, GuessesNeverAlert, ReportIsNewest, AnnouncedIsOnDisk, Alerts,
         Running, Fetched
<1>4. LabelsCountedOnce' /\ LabelsOfRun'
  BY DEF IInv, LabelsCountedOnce, LabelsOfRun, Running
<1> QED
  BY <1>1, <1>2, <1>3, <1>4 DEF IInv

\* What seen_ids becomes is again a sequence of articles.
LEMMA MergedType ==
    ASSUME NEW seen \in Seq(Articles), NEW new \in Seq(Articles)
    PROVE  Merged(seen, new) \in Seq(Articles)
<1> DEFINE all == seen \o new
<1>1. all \in Seq(Articles)
  BY ConcatProperties
<1>2. CASE Len(all) > KeepSeen
  <2>1. KeepSeen \in Nat /\ Len(all) \in Nat /\ Len(all) - KeepSeen + 1 \in 1 .. Len(all) + 1
    BY <1>1, <1>2, BoundsAssumption
  <2>2. \A i \in Len(all) - KeepSeen + 1 .. Len(all) : all[i] \in Articles
    BY <1>1, <2>1
  <2> HIDE DEF all
  <2>3. SubSeq(all, Len(all) - KeepSeen + 1, Len(all)) \in Seq(Articles)
    BY <2>1, <2>2, SubSeqProperties
  <2> QED
    BY <2>3, <1>2 DEF Merged, all
<1> QED
  BY <1>1, <1>2 DEF Merged

\* The cursor a run saves: its own start, the old one if it fetched nothing, or
\* a date in the future.
LEMMA CursorIs ==
    ASSUME TypeOK, mem.cursor \in Nat
    PROVE  /\ Cursor \in Nat
           /\ got = {} => Cursor = mem.cursor
           /\ got # {} => \/ Cursor = now0
                          \/ \E a \in got : Published[a] > now0
<1> DEFINE other == IF got = {} THEN mem.cursor ELSE now0
           dates == {Published[a] : a \in got}
           all == dates \cup {other}
<1>1. got \subseteq Articles /\ now0 \in Nat /\ other \in Nat
  BY DEF TypeOK
<1>2. all \subseteq Nat /\ all # {}
  BY <1>1, ArticlesAssumption
<1>3. IsFiniteSet(all)
  <2>1. IsFiniteSet(got)
    BY <1>1, ArticlesAssumption, FS_Subset
  <2>2. IsFiniteSet({[a \in got |-> Published[a]][b] : b \in got})
    BY <2>1, ImageFinite
  <2>3. {[a \in got |-> Published[a]][b] : b \in got} = dates
    OBVIOUS
  <2>4. IsFiniteSet(dates)
    BY <2>2, <2>3
  <2> HIDE DEF dates, other
  <2> QED
    BY <2>4, FS_Singleton, FS_Union
<1>4. Cursor = Max(all)
  BY DEF Cursor
<1>5. Max(all) \in all
  <2> HIDE DEF all
  <2> QED
    BY <1>2, <1>3, GreatestExists
<1>6. ASSUME \A a \in got : ~(Published[a] > now0), got # {}
      PROVE  Cursor = now0
  <2>1. all \in SUBSET Int /\ now0 \in all /\ \A x \in all : x <= now0
    BY <1>1, <1>2, <1>6, ArticlesAssumption
  <2> HIDE DEF all
  <2> QED
    BY <2>1, <1>4, MaxIs
<1>7. got = {} => all = {mem.cursor}
  OBVIOUS
<1> QED
  BY <1>2, <1>4, <1>5, <1>6, <1>7

\* What a run saves: the cooldowns of its alerts, the labels it counted, and a
\* cursor before which nothing is missing.
LEMMA SaveInv ==
    ASSUME IInv, Save
    PROVE  IInv'
<1> USE DEF Save, world, run, history
<1>1. TypeOK /\ IsState(mem)
  BY DEF IInv, TypeOK
<1>2. /\ clock \in Nat /\ now0 \in Nat /\ now0 <= clock /\ got \subseteq Articles
      /\ received \in [Articles -> Nat] /\ promised \in [Keys -> Nat] /\ left \subseteq Articles
      /\ judged \subseteq Articles /\ routed \subseteq Items /\ IsFiniteSet(routed)
      /\ now0 > 0
  BY <1>1 DEF IInv, TypeOK, Times, Running
<1>3. /\ mem.cursor \in Nat /\ mem.alerted \in [Keys -> Nat] /\ mem.seen \in Seq(Articles)
      /\ mem.sources \in [Domains -> [Lists -> Nat]] /\ DOMAIN mem = DOMAIN EmptyState
      /\ mem.cursor = disk.cursor
  BY <1>1 DEF IInv, IsState, Cursors, Running
<1>4. PICK new \in [1 .. Cardinality(Analysed) -> Analysed] :
          disk' = [mem EXCEPT
                !.seen = Merged(@, new),
                !.cursor = Cursor,
                !.alerted = Recent(@, now0),
                !.memory = [c \in Customers |->
                    {<<i.type, i.story>> : i \in {j \in routed : j.customer = c}}],
                !.sources = Rated(@)]
  OBVIOUS
<1>5. /\ DOMAIN disk' = DOMAIN EmptyState
      /\ disk'.seen = Merged(mem.seen, new) /\ disk'.cursor = Cursor
      /\ disk'.alerted = Recent(mem.alerted, now0)
      /\ disk'.memory = [c \in Customers |->
             {<<i.type, i.story>> : i \in {j \in routed : j.customer = c}}]
      /\ disk'.sources = Rated(mem.sources)
      /\ disk'.lastAlert = mem.lastAlert /\ disk'.stories = mem.stories
      /\ disk'.labelled = mem.labelled /\ disk'.stats = mem.stats
      /\ disk'.scores = mem.scores /\ disk'.gaps = mem.gaps
  BY <1>3, <1>4, StateKeys
<1>6. new \in Seq(Articles)
  <2>1. Analysed \subseteq Articles /\ IsFiniteSet(Analysed)
    BY <1>2, ArticlesAssumption, FS_Subset DEF Analysed
  <2>2. Cardinality(Analysed) \in Nat
    BY <2>1, FS_CardinalityType
  <2> QED
    BY <2>1, <2>2
<1>7. /\ Cursor \in Nat /\ (got = {} => Cursor = mem.cursor)
      /\ (got # {} => Cursor = now0 \/ \E a \in got : Published[a] > now0)
  BY <1>1, <1>3, CursorIs
<1>8. jumped' \/ (~jumped /\ Cursor \in {now0, disk.cursor} /\ (got # {} => Cursor = now0))
  BY <1>3, <1>7
<1>9. Rated(mem.sources) \in [Domains -> [Lists -> Nat]]
  <2> DEFINE Count(l, d) == Cardinality({i \in routed : i.list = l /\ Domain[i.article] = d})
  <2>1. ASSUME NEW l, NEW d
        PROVE  Count(l, d) \in Nat
    BY <1>2, FS_Subset, FS_CardinalityType
  <2>2. Rated(mem.sources) = [d \in Domains |-> [l \in Lists |-> mem.sources[d][l] + Count(l, d)]]
    BY DEF Rated
  <2> HIDE DEF Count
  <2> QED
    BY <2>1, <2>2, <1>3
<1>10. [c \in Customers |-> {<<i.type, i.story>> : i \in {j \in routed : j.customer = c}}]
          \in [Customers -> SUBSET (Types \X Stories)]
  BY <1>2 DEF Items
<1>11. Recent(mem.alerted, now0) \in [Keys -> Nat]
  BY <1>3 DEF Recent
<1>12. promised' \in [Keys -> Nat]
  BY <1>2
<1>13. TypeOK'
  <2>1. IsState(disk)'
    BY <1>1, <1>3, <1>5, <1>6, <1>7, <1>9, <1>10, <1>11, MergedType DEF IsState
  <2>2. judged' \subseteq Articles
    BY <1>2
  <2>3. jumped' \in BOOLEAN
    BY <1>1 DEF TypeOK
  <2> QED
    BY <1>1, <1>12, <2>1, <2>2, <2>3 DEF TypeOK
<1>14. Times' /\ Cursors'
  BY <1>2, <1>5, <1>8 DEF IInv, Times, Cursors, Running
<1>15. NothingSkipped'
  <2> SUFFICES ASSUME ~jumped', NEW a \in Arrived, a \notin judged'
               PROVE  received[a] >= Cursor - Grace
    BY <1>5 DEF NothingSkipped, Arrived
  <2>1. received[a] >= now0
    BY <1>8 DEF IInv, FetchComplete, Fetched
  <2>2. received[a] >= disk.cursor - Grace
    BY <1>8 DEF IInv, NothingSkipped
  <2> QED
    BY <2>1, <2>2, <1>2, <1>8, BoundsAssumption DEF Arrived
<1>16. FetchComplete'
  BY DEF FetchComplete, Fetched
<1>17. CooldownKept'
  <2>1. ASSUME NEW k \in Keys
        PROVE  /\ promised'[k] <= clock
               /\ \/ promised'[k] = 0 \/ Recent(mem.alerted, now0)[k] >= promised'[k]
                  \/ clock - promised'[k] >= Cooldown
    <3>1. CASE \E i \in sent : KeyOf(i) = k
      <4>1. promised'[k] = now0 /\ mem.alerted[k] = now0
        BY <3>1, <1>2 DEF IInv, AlertsNew, Running
      <4>2. now0 \in Nat /\ ~(now0 - now0 > 6 * Cooldown)
        BY <1>2, BoundsAssumption
      <4>3. Recent(mem.alerted, now0)[k] = now0
        BY <4>1, <4>2 DEF Recent
      <4> QED
        BY <4>1, <4>3, <1>2
    <3>2. CASE ~\E i \in sent : KeyOf(i) = k
      <4>1. promised'[k] = promised[k] /\ promised[k] <= clock
        BY <3>2, <1>2 DEF IInv, CooldownKept
      <4>2. Remembers(mem.alerted, now0)
        BY DEF IInv, CooldownKept, Running
      <4>3. Remembers(Recent(mem.alerted, now0), clock)
        BY <1>2, <1>3, <4>2, RecentKeeps
      <4> QED
        BY <4>1, <4>3 DEF Remembers
    <3> QED
      BY <3>1, <3>2
  <2> QED
    BY <2>1, <1>5 DEF CooldownKept, Remembers, Running
<1>18. AlertsNew' /\ GuessesNeverAlert' /\ ReportIsNewest' /\ AnnouncedIsOnDisk'
  BY DEF IInv, AlertsNew, GuessesNeverAlert, ReportIsNewest, AnnouncedIsOnDisk, Alerts,
         Running, Fetched
<1>19. LabelsCountedOnce' /\ LabelsOfRun'
  BY <1>5 DEF IInv, LabelsCountedOnce, LabelsOfRun, Running
<1> QED
  BY <1>13, <1>14, <1>15, <1>16, <1>17, <1>18, <1>19 DEF IInv

--------------------------------------------------------------------------------
(***************************************************************************)
(* The theorems.                                                           *)
(***************************************************************************)

\* Every step keeps the invariant.
LEMMA NextInv ==
    ASSUME IInv, [Next]_vars
    PROVE  IInv'
<1>1. CASE Run
  BY <1>1, StartInv, FetchInv, AnalyseInv, ReportInv, WebhookInv, HooksInv, MetricsInv, SaveInv
     DEF Run
<1>2. CASE Fault
  BY <1>2, EndsInv DEF Fault, Killed, FetchFails, InfluxGone
<1>3. CASE Arrive \/ GiveFeedback \/ Tick
  BY <1>3, ArriveInv, GiveFeedbackInv, TickInv
<1>4. CASE UNCHANGED vars
  BY <1>4, StutterInv
<1> QED
  BY <1>1, <1>2, <1>3, <1>4 DEF Next

\* What holds in every state of the pipeline.
THEOREM PipelineInvariant == Spec => []IInv
<1>1. Init => IInv
  BY InitInv
<1>2. IInv /\ [Next]_vars => IInv'
  BY NextInv
<1> QED
  BY <1>1, <1>2, PTL DEF Spec

\* No article falls between two runs, whatever ends them: a run that saved has
\* judged it, or the next fetch asks for it.
THEOREM NoArticleSkipped == Spec => []NothingSkipped
<1>1. IInv => NothingSkipped
  BY DEF IInv
<1> QED
  BY <1>1, PipelineInvariant, PTL

\* Every line of the labels file is counted once, guesses never become alerts,
\* and what the webhook announced is in a report on disk.
THEOREM PipelineSafe == Spec => []Safe
<1>1. IInv => Safe
  BY DEF IInv, Safe
<1> QED
  BY <1>1, PipelineInvariant, PTL

\* Only the webhook of a run delivers alerts, and none that a saved run
\* delivered less than a cooldown before.
THEOREM CooldownRespected == Spec => RespectsCooldown
<1> DEFINE Respected(i) ==
              /\ promised[KeyOf(i)] = 0 \/ now0 - promised[KeyOf(i)] >= Cooldown
              /\ \A j \in sent' : KeyOf(i) = KeyOf(j) => i = j
<1>1. ASSUME IInv, [Next]_vars
      PROVE  [\A i \in sent' \ sent : Respected(i)]_vars
  <2>1. CASE Webhook
    <3>1. sent' \subseteq Alerts
      BY <2>1 DEF Webhook, IsTop
    <3> QED
      BY <3>1, <2>1, <1>1 DEF IInv, AlertsNew, Webhook, Running
  <2>2. CASE ~Webhook
    <3>1. sent' \subseteq sent
      BY <2>2, <1>1 DEF Next, Run, Start, Fetch, Analyse, Report, Hooks, Metrics, Save,
         Fault, Killed, FetchFails, InfluxGone, Ends, Arrive, GiveFeedback, Tick,
         vars, run, world, history
    <3> QED
      BY <3>1
  <2> QED
    BY <2>1, <2>2
<1> QED
  BY <1>1, PipelineInvariant, PTL DEF Spec, RespectsCooldown
================================================================================
