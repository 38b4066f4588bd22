-------------------------- MODULE MetricsSinkProofs --------------------------
(***************************************************************************)
(* The gate and the trends tool on every metric table, for any tenants,    *)
(* values, thresholds, windows and bounds.                                 *)
(*                                                                         *)
(* An average is a sum over a set, defined by recursion.  What such a sum  *)
(* is for every set is shown by induction on the number of its elements;   *)
(* the induction is over a set of numbers, which needs no operator.        *)
(***************************************************************************)
EXTENDS MetricsSink, FiniteSetTheorems, WellFoundedInduction, NaturalsInduction, TLAPS

LEMMA LeastNumber ==
  ASSUME NEW T, T \subseteq Nat, T # {}
  PROVE  \E x \in T : \A y \in T : x <= y
<1> DEFINE R == OpToRel(<, Nat)
<1>1. IsWellFoundedOn(R, Nat)
  BY NatLessThanWellFounded, Zenon
<1>2. \A x, y \in Nat : <<y, x>> \in R <=> y < x
  BY Zenon DEF OpToRel
<1> HIDE DEF R
<1>3. PICK x \in T : \A y \in T : ~(<<y, x>> \in R)
  BY <1>1, WFMin, Zenon
<1>4. \A y \in T : ~(y < x)
  BY <1>2, <1>3
<1>5. QED
  BY <1>4

\* Induction over the natural numbers, for a set of them.
LEMMA NatSetInduction ==
  ASSUME NEW S, 0 \in S, \A n \in Nat : n \in S => n + 1 \in S
  PROVE  Nat \subseteq S
<1> SUFFICES ASSUME Nat \ S # {}
             PROVE  FALSE
  OBVIOUS
<1>1. PICK x \in Nat \ S : \A y \in Nat \ S : x <= y
  BY LeastNumber
<1>2. x # 0 /\ x - 1 \in Nat /\ x - 1 \notin Nat \ S
  BY <1>1
<1>3. QED
  BY <1>1, <1>2

-----------------------------------------------------------------------------
\* The sum of the values of some rows, and the recursion that defines it.
ValueSum(table, S) == MapThenSumSet(LAMBDA i : table[i].value, S)

Pick(s) == CHOOSE i \in s : TRUE

Recursion(f, table, s) ==
  IF s = {} THEN 0 ELSE table[Pick(s)].value + f[s \ {Pick(s)}]

IsSum(f, table, S) == f = [s \in SUBSET S |-> Recursion(f, table, s)]

AllIntegers(table, S) == \A i \in S : table[i].value \in Int

\* The subsets with at most n elements.
UpTo(S, n) == {s \in SUBSET S : Cardinality(s) <= n}

LEMMA PickRemoves ==
  ASSUME NEW S, IsFiniteSet(S), NEW s \in SUBSET S, s # {}
  PROVE  /\ Pick(s) \in s
         /\ s \ {Pick(s)} \in SUBSET S
         /\ Cardinality(s) \in Nat
         /\ Cardinality(s \ {Pick(s)}) = Cardinality(s) - 1
<1>1. IsFiniteSet(s)
  BY FS_Subset
<1>2. Pick(s) \in s
  BY DEF Pick
<1>3. QED
  BY <1>1, <1>2, FS_RemoveElement, FS_CardinalityType

\* The recursion has a solution on every finite set.
LEMMA SumExists ==
  ASSUME NEW table, NEW S, IsFiniteSet(S), AllIntegers(table, S)
  PROVE  \E f \in [SUBSET S -> Int] : IsSum(f, table, S)
<1> DEFINE Solves(f, n) == \A s \in UpTo(S, n) : f[s] = Recursion(f, table, s)
           Done == {n \in Nat : \E f \in [UpTo(S, n) -> Int] : Solves(f, n)}
<1>0. \A s \in SUBSET S : Cardinality(s) \in Nat /\ IsFiniteSet(s)
  BY FS_Subset, FS_CardinalityType
<1>1. 0 \in Done
  <2>1. \A s \in UpTo(S, 0) : s = {}
    <3>1. \A s \in SUBSET S : Cardinality(s) = 0 => s = {}
      BY <1>0, FS_EmptySet
    <3>2. QED
      BY <1>0, <3>1 DEF UpTo
  <2>2. [s \in UpTo(S, 0) |-> 0] \in [UpTo(S, 0) -> Int]
    OBVIOUS
  <2>3. Solves([s \in UpTo(S, 0) |-> 0], 0)
    BY <2>1 DEF Recursion
  <2>4. QED
    BY <2>2, <2>3
<1>2. ASSUME NEW n \in Nat, n \in Done
      PROVE  n + 1 \in Done
  <2>1. PICK f \in [UpTo(S, n) -> Int] : Solves(f, n)
    BY <1>2
  <2> DEFINE g == [s \in UpTo(S, n + 1) |-> Recursion(f, table, s)]
  <2>2. ASSUME NEW s \in UpTo(S, n + 1), s # {}
        PROVE  /\ s \ {Pick(s)} \in UpTo(S, n)
               /\ s \ {Pick(s)} \in UpTo(S, n + 1)
               /\ table[Pick(s)].value \in Int
    BY <2>2, PickRemoves DEF UpTo, AllIntegers
  <2>3. g \in [UpTo(S, n + 1) -> Int]
    <3> SUFFICES ASSUME NEW s \in UpTo(S, n + 1)
                 PROVE  Recursion(f, table, s) \in Int
      OBVIOUS
    <3>1. QED
      BY <2>1, <2>2 DEF Recursion
  <2>4. \A s \in UpTo(S, n) : s \in UpTo(S, n + 1) /\ g[s] = f[s]
    BY <1>0, <2>1 DEF UpTo
  <2>5. Solves(g, n + 1)
    <3> SUFFICES ASSUME NEW s \in UpTo(S, n + 1)
                 PROVE  g[s] = Recursion(g, table, s)
      OBVIOUS
    <3>1. g[s] = Recursion(f, table, s)
      OBVIOUS
    <3>2. s # {} => f[s \ {Pick(s)}] = g[s \ {Pick(s)}]
      BY <2>2, <2>4
    <3> HIDE DEF g
    <3>3. QED
      BY <3>1, <3>2 DEF Recursion
  <2> HIDE DEF g
  <2>6. QED
    BY <2>3, <2>5
<1> HIDE DEF Done
<1>3. Nat \subseteq Done
  BY <1>1, <1>2, NatSetInduction
<1> USE DEF Done
<1>4. PICK f \in [UpTo(S, Cardinality(S)) -> Int] : Solves(f, Cardinality(S))
  BY <1>0, <1>3
<1>5. UpTo(S, Cardinality(S)) = SUBSET S
  BY FS_Subset DEF UpTo
<1>6. QED
  BY <1>4, <1>5 DEF IsSum

LEMMA SumIsRecursive ==
  ASSUME NEW table, NEW S, IsFiniteSet(S), AllIntegers(table, S)
  PROVE  \E f : IsSum(f, table, S) /\ ValueSum(table, S) = f[S]
<1> DEFINE f == CHOOSE g : IsSum(g, table, S)
<1>1. IsSum(f, table, S)
  BY SumExists
<1>2. ValueSum(table, S) = f[S]
  BY DEF ValueSum, MapThenSumSet, MapThenFoldSet, IsSum, Recursion, Pick
<1> HIDE DEF f
<1>3. QED
  BY <1>1, <1>2

(***************************************************************************)
(* What a sum is, by induction on the number of its terms.                 *)
(***************************************************************************)
LEMMA SumStep ==
  ASSUME NEW table, NEW S, IsFiniteSet(S), AllIntegers(table, S),
         NEW f, IsSum(f, table, S), NEW n \in Nat, NEW s \in UpTo(S, n + 1)
  PROVE  \/ s = {} /\ f[s] = 0
         \/ \E i \in s : /\ s \ {i} \in UpTo(S, n)
                         /\ table[i].value \in Int
                         /\ f[s] = table[i].value + f[s \ {i}]
<1>1. s \in SUBSET S /\ f[s] = Recursion(f, table, s)
  BY DEF IsSum, UpTo
<1>2. CASE s = {}
  BY <1>1, <1>2 DEF Recursion
<1>3. CASE s # {}
  <2>1. /\ Pick(s) \in s
        /\ s \ {Pick(s)} \in UpTo(S, n)
    BY <1>1, <1>3, PickRemoves DEF UpTo
  <2>2. table[Pick(s)].value \in Int
    BY <1>1, <2>1 DEF AllIntegers
  <2>3. f[s] = table[Pick(s)].value + f[s \ {Pick(s)}]
    BY <1>1, <1>3 DEF Recursion
  <2>4. QED
    BY <2>1, <2>2, <2>3
<1>4. QED
  BY <1>2, <1>3

LEMMA UpToZero ==
  ASSUME NEW S, IsFiniteSet(S)
  PROVE  UpTo(S, 0) = {{}}
<1>1. \A s \in SUBSET S : IsFiniteSet(s) /\ Cardinality(s) \in Nat
  BY FS_Subset, FS_CardinalityType
<1>2. \A s \in SUBSET S : Cardinality(s) = 0 <=> s = {}
  BY <1>1, FS_EmptySet
<1>3. QED
  BY <1>1, <1>2 DEF UpTo

LEMMA UpToAll ==
  ASSUME NEW S, IsFiniteSet(S)
  PROVE  Cardinality(S) \in Nat /\ S \in UpTo(S, Cardinality(S))
  BY FS_CardinalityType DEF UpTo

LEMMA EmptySum ==
  ASSUME NEW table, NEW S, NEW f, IsSum(f, table, S)
  PROVE  f[{}] = 0
  BY DEF IsSum, Recursion

LEMMA SumType ==
  ASSUME NEW table, NEW S, IsFiniteSet(S), AllIntegers(table, S)
  PROVE  ValueSum(table, S) \in Int
<1>1. PICK f : IsSum(f, table, S) /\ ValueSum(table, S) = f[S]
  BY SumIsRecursive
<1> DEFINE Done == {n \in Nat : \A s \in UpTo(S, n) : f[s] \in Int}
<1>2. 0 \in Done
  BY <1>1, UpToZero, EmptySum, SMTT(30)
<1>3. ASSUME NEW n \in Nat, n \in Done
      PROVE  n + 1 \in Done
  <2> SUFFICES ASSUME NEW s \in UpTo(S, n + 1)
               PROVE  f[s] \in Int
    OBVIOUS
  <2>1. \A r \in UpTo(S, n) : f[r] \in Int
    BY <1>3
  <2>2. \/ s = {} /\ f[s] = 0
       \/ \E i \in s : /\ s \ {i} \in UpTo(S, n)
                       /\ table[i].value \in Int
                       /\ f[s] = table[i].value + f[s \ {i}]
    BY <1>1, SumStep, SMTT(30)
  <2>3. ASSUME NEW i \in s, s \ {i} \in UpTo(S, n), table[i].value \in Int,
               f[s] = table[i].value + f[s \ {i}]
        PROVE  f[s] \in Int
    <3>1. f[s \ {i}] \in Int
      BY <2>1, <2>3
    <3>2. QED
      BY <2>3, <3>1
  <2>4. s = {} /\ f[s] = 0 => f[s] \in Int
    OBVIOUS
  <2>5. QED
    BY <2>2, <2>3, <2>4, Zenon
<1> HIDE DEF Done
<1>4. Nat \subseteq Done
  BY <1>2, <1>3, NatSetInduction
<1>5. QED
  BY <1>1, <1>4, UpToAll DEF Done

\* Terms that are not negative do not cancel out.
LEMMA SumOfNonNegatives ==
  ASSUME NEW table, NEW S, IsFiniteSet(S), AllIntegers(table, S),
         \A i \in S : table[i].value >= 0
  PROVE  /\ ValueSum(table, S) >= 0
         /\ ValueSum(table, S) = 0 <=> \A i \in S : table[i].value = 0
<1>1. PICK f : IsSum(f, table, S) /\ ValueSum(table, S) = f[S]
  BY SumIsRecursive
<1> DEFINE Zero(s)    == \A i \in s : table[i].value = 0
           Adds(s)    == f[s] \in Nat /\ (f[s] = 0 <=> Zero(s))
           Done       == {n \in Nat : \A s \in UpTo(S, n) : Adds(s)}
<1>2. 0 \in Done
  <2>1. f[{}] = 0 /\ Zero({})
    BY <1>1, EmptySum
  <2>2. QED
    BY <2>1, UpToZero
<1>3. ASSUME NEW n \in Nat, n \in Done
      PROVE  n + 1 \in Done
  <2> SUFFICES ASSUME NEW s \in UpTo(S, n + 1)
               PROVE  Adds(s)
    OBVIOUS
  <2>1. \A r \in UpTo(S, n) : Adds(r)
    BY <1>3
  <2>2. CASE s = {} /\ f[s] = 0
    BY <2>2
  <2>3. ASSUME NEW i \in s, s \ {i} \in UpTo(S, n), table[i].value \in Int,
               f[s] = table[i].value + f[s \ {i}]
        PROVE  Adds(s)
    <3>1. Adds(s \ {i})
      BY <2>1, <2>3
    <3>2. table[i].value \in Nat
      BY <2>3 DEF UpTo
    <3>3. Zero(s) <=> table[i].value = 0 /\ Zero(s \ {i})
      OBVIOUS
    <3> HIDE DEF Zero
    <3>4. QED
      BY <2>3, <3>1, <3>2, <3>3
  <2>4. \/ s = {} /\ f[s] = 0
       \/ \E i \in s : /\ s \ {i} \in UpTo(S, n)
                       /\ table[i].value \in Int
                       /\ f[s] = table[i].value + f[s \ {i}]
    BY <1>1, SumStep
  <2> HIDE DEF Adds
  <2>5. QED
    BY <2>2, <2>3, <2>4
<1> HIDE DEF Done
<1>4. Nat \subseteq Done
  BY <1>2, <1>3, NatSetInduction
<1>5. Adds(S)
  BY <1>4, UpToAll DEF Done
<1>6. QED
  BY <1>1, <1>5

\* A sum is a matter of its terms.
LEMMA SumOfSame ==
  ASSUME NEW table, NEW other, NEW S, IsFiniteSet(S), AllIntegers(table, S),
         \A i \in S : other[i].value = table[i].value
  PROVE  ValueSum(other, S) = ValueSum(table, S)
<1>1. PICK f : IsSum(f, table, S) /\ ValueSum(table, S) = f[S]
  BY SumIsRecursive
<1>2. PICK g : IsSum(g, other, S) /\ ValueSum(other, S) = g[S]
  BY SumIsRecursive DEF AllIntegers
<1> DEFINE Done == {n \in Nat : \A s \in UpTo(S, n) : g[s] = f[s]}
<1>3. 0 \in Done
  BY <1>1, <1>2, UpToZero, EmptySum
<1>4. ASSUME NEW n \in Nat, n \in Done
      PROVE  n + 1 \in Done
  <2> SUFFICES ASSUME NEW s \in UpTo(S, n + 1)
               PROVE  g[s] = f[s]
    OBVIOUS
  <2>1. f[s] = Recursion(f, table, s) /\ g[s] = Recursion(g, other, s)
    BY <1>1, <1>2 DEF IsSum, UpTo
  <2>2. CASE s = {}
    BY <2>1, <2>2 DEF Recursion
  <2>3. CASE s # {}
    <3>1. Pick(s) \in S /\ s \ {Pick(s)} \in UpTo(S, n)
      BY <2>3, PickRemoves DEF UpTo
    <3>2. g[s \ {Pick(s)}] = f[s \ {Pick(s)}]
      BY <1>4, <3>1
    <3>3. QED
      BY <2>1, <2>3, <3>1, <3>2 DEF Recursion
  <2>4. QED
    BY <2>2, <2>3
<1> HIDE DEF Done
<1>5. Nat \subseteq Done
  BY <1>3, <1>4, NatSetInduction
<1>6. QED
  BY <1>1, <1>2, <1>5, UpToAll DEF Done

-----------------------------------------------------------------------------
(***************************************************************************)
(* The averages of a table whose rows are measurements.                    *)
(***************************************************************************)
Row == [dbname : DbNames, sys_id : SysIds, time : Int, value : Values]

SinkInv == rows \in Seq(Row) /\ now \in Int

NumericOf(table, indices) == {i \in indices : Numeric(table[i])}

LEMMA InvInit == Init => SinkInv
  BY DEF Init, SinkInv

LEMMA InvNext == SinkInv /\ [Next]_vars => SinkInv'
<1> SUFFICES ASSUME SinkInv, [Next]_vars
             PROVE  SinkInv'
  OBVIOUS
<1>1. ASSUME NEW d \in DbNames, NEW s \in SysIds, NEW v \in Values, Collect(d, s, v)
      PROVE  SinkInv'
  <2>1. [dbname |-> d, sys_id |-> s, time |-> now, value |-> v] \in Row
    BY DEF Row, SinkInv
  <2>2. QED
    BY <1>1, <2>1 DEF Collect, SinkInv
<1>2. CASE HourPasses
  BY <1>2 DEF HourPasses, SinkInv
<1>3. CASE UNCHANGED vars
  BY <1>3 DEF vars, SinkInv
<1>4. QED
  BY <1>1, <1>2, <1>3 DEF Next

LEMMA NumericRows ==
  ASSUME NEW table \in Seq(Row), NEW indices, indices \subseteq DOMAIN table
  PROVE  /\ IsFiniteSet(NumericOf(table, indices))
         /\ AllIntegers(table, NumericOf(table, indices))
<1>1. IsFiniteSet(1..Len(table)) /\ DOMAIN table = 1..Len(table)
  BY FS_Interval
<1>2. IsFiniteSet(NumericOf(table, indices))
  BY <1>1, FS_Subset DEF NumericOf
<1>3. ASSUME NEW i \in indices, Numeric(table[i])
      PROVE  table[i].value \in Int
  <2>1. table[i] \in Row
    OBVIOUS
  <2>2. table[i].value \in Values \ {Absent, Text}
    BY <1>3, <2>1 DEF Row, Numeric
  <2>3. QED
    BY <2>2, SinkAssumption
<1>4. QED
  BY <1>2, <1>3 DEF AllIntegers, NumericOf

LEMMA AverageFacts ==
  ASSUME NEW table \in Seq(Row), NEW indices, indices \subseteq DOMAIN table
  PROVE  /\ Average(table, indices).sum = ValueSum(table, NumericOf(table, indices))
         /\ Average(table, indices).sum \in Int
         /\ Average(table, indices).count \in Nat \ {0}
         /\ NumericOf(table, indices) = {} => Average(table, indices) = [sum |-> 0, count |-> 1]
<1> DEFINE numeric == NumericOf(table, indices)
<1>1. IsFiniteSet(numeric) /\ AllIntegers(table, numeric)
  BY NumericRows
<1>2. Average(table, indices) =
        IF numeric = {} THEN [sum |-> 0, count |-> 1]
        ELSE [sum |-> ValueSum(table, numeric), count |-> Cardinality(numeric)]
  BY DEF Average, NumericOf, ValueSum
<1>3. ValueSum(table, numeric) \in Int
  BY <1>1, SumType
<1> HIDE DEF numeric
<1>4. numeric = {} => ValueSum(table, numeric) = 0
  BY <1>1, SumOfNonNegatives
<1>5. numeric # {} => Cardinality(numeric) \in Nat \ {0}
  BY <1>1, FS_CardinalityType, FS_EmptySet
<1>6. CASE numeric = {}
  BY <1>2, <1>4, <1>6 DEF numeric
<1>7. CASE numeric # {}
  BY <1>2, <1>3, <1>5, <1>7 DEF numeric
<1>8. QED
  BY <1>6, <1>7

\* An average is a matter of the rows it is taken over.
LEMMA AverageOfSame ==
  ASSUME NEW table \in Seq(Row), NEW other, NEW indices, indices \subseteq DOMAIN table,
         \A i \in indices : other[i] = table[i]
  PROVE  Average(other, indices) = Average(table, indices)
<1>1. NumericOf(other, indices) = NumericOf(table, indices)
  BY DEF NumericOf
<1>2. ValueSum(other, NumericOf(table, indices)) = ValueSum(table, NumericOf(table, indices))
  <2>1. \A i \in NumericOf(table, indices) : other[i].value = table[i].value
    BY DEF NumericOf
  <2>2. QED
    BY <2>1, NumericRows, SumOfSame
<1>3. /\ Average(table, indices) =
           IF NumericOf(table, indices) = {} THEN [sum |-> 0, count |-> 1]
           ELSE [sum   |-> ValueSum(table, NumericOf(table, indices)),
                 count |-> Cardinality(NumericOf(table, indices))]
      /\ Average(other, indices) =
           IF NumericOf(other, indices) = {} THEN [sum |-> 0, count |-> 1]
           ELSE [sum   |-> ValueSum(other, NumericOf(other, indices)),
                 count |-> Cardinality(NumericOf(other, indices))]
  BY DEF Average, NumericOf, ValueSum
<1>4. QED
  BY <1>1, <1>2, <1>3

\* A reading that is no error is made of two averages, and the rows of the
\* hour are rows of the day.
Day(d, s)  == Scope(rows, d, s, now - BaselineWindow)
Hour(d, s) == {i \in Day(d, s) : rows[i].time >= now - CurrentWindow}

LEMMA ReadingFacts ==
  ASSUME SinkInv, NEW d \in DbNames, NEW s \in SysIds
  PROVE  /\ Hour(d, s) \subseteq Day(d, s) /\ Day(d, s) \subseteq DOMAIN rows
         /\ Reading(d, s) = IF \E i \in Day(d, s) : rows[i].value = Text THEN QueryError
                            ELSE [error    |-> FALSE,
                                  current  |-> Average(rows, Hour(d, s)),
                                  baseline |-> Average(rows, Day(d, s))]
  BY DEF Day, Hour, Scope, Reading, FetchMetricBaseline

LEMMA ReadingIsAverages ==
  ASSUME SinkInv, NEW d \in DbNames, NEW s \in SysIds, ~Reading(d, s).error
  PROVE  Reading(d, s) = [error    |-> FALSE,
                          current  |-> Average(rows, Hour(d, s)),
                          baseline |-> Average(rows, Day(d, s))]
  BY ReadingFacts DEF QueryError

\* What is zero over a day of measurements that are not negative is zero over
\* its last hour.
LEMMA ZeroDayHasZeroHour ==
  ASSUME SinkInv, NEW d \in DbNames, NEW s \in SysIds, NonNegative(d, s),
         Average(rows, Day(d, s)).sum = 0
  PROVE  Average(rows, Hour(d, s)).sum = 0
<1> DEFINE day == NumericOf(rows, Day(d, s))
           hour == NumericOf(rows, Hour(d, s))
<1>0. rows \in Seq(Row)
  BY DEF SinkInv
<1>1. hour \subseteq day
  BY ReadingFacts DEF NumericOf
<1>2. /\ IsFiniteSet(day) /\ AllIntegers(rows, day)
      /\ IsFiniteSet(hour) /\ AllIntegers(rows, hour)
  BY <1>0, ReadingFacts, NumericRows
<1>3. /\ Average(rows, Day(d, s)).sum = ValueSum(rows, day)
      /\ Average(rows, Hour(d, s)).sum = ValueSum(rows, hour)
  BY <1>0, ReadingFacts, AverageFacts
<1>4. ASSUME NEW i \in day
      PROVE  rows[i].value >= 0
  <2>1. i \in DOMAIN rows /\ rows[i].dbname = d /\ rows[i].sys_id = s
    BY DEF NumericOf, Day, Scope
  <2>2. rows[i].value \in Values \ {Absent, Text}
    <3>1. rows[i] \in Row
      BY <1>0, <2>1
    <3>2. Numeric(rows[i])
      BY <1>4 DEF NumericOf
    <3>3. QED
      BY <3>1, <3>2 DEF Numeric, Row
  <2>3. ~(rows[i].value < 0)
    BY <2>1, <2>2 DEF NonNegative, Measured
  <2>4. rows[i].value \in Int
    BY <2>2, SinkAssumption
  <2>5. QED
    BY <2>3, <2>4
<1> HIDE DEF day, hour
<1>5. \A i \in day : rows[i].value = 0
  BY <1>2, <1>3, <1>4, SumOfNonNegatives
<1>6. \A i \in hour : rows[i].value = 0
  BY <1>1, <1>5
<1>7. \A i \in hour : rows[i].value >= 0
  BY <1>6
<1>8. QED
  BY <1>2, <1>3, <1>6, <1>7, SumOfNonNegatives

-----------------------------------------------------------------------------
LEMMA Invariance == Spec => []SinkInv
  BY InvInit, InvNext, PTL DEF Spec

\* The gate skips a cycle exactly when the tool would report a deviation below
\* the threshold, although they treat a zero baseline differently
\* (watch.go:192-199, trends.go:91-102).
THEOREM GateAgreesWithTool == Spec => []GateMatchesTool
<1>1. SinkInv => GateMatchesTool
  <2> SUFFICES ASSUME SinkInv, NEW d \in DbNames, NEW s \in SysIds, NEW t \in Thresholds,
                      NonNegative(d, s), ~Reading(d, s).error
               PROVE  Skips(Reading(d, s), t) <=> ChangeBelow(ReportedChange(Reading(d, s)), t)
    BY DEF GateMatchesTool
  <2> DEFINE current  == Average(rows, Hour(d, s))
             baseline == Average(rows, Day(d, s))
  <2>1. Reading(d, s) = [error |-> FALSE, current |-> current, baseline |-> baseline]
    BY ReadingIsAverages
  <2>2. baseline.sum = 0 => current.sum = 0
    BY ZeroDayHasZeroHour
  <2>3. t \in Int
    BY SinkAssumption
  <2> HIDE DEF current, baseline
  <2>4. CASE baseline.sum # 0
    BY <2>1, <2>4 DEF Skips, ReportedChange
  <2>5. CASE baseline.sum = 0
    <3>1. Skips(Reading(d, s), t) <=> 0 < t
      BY <2>1, <2>2, <2>5 DEF Skips
    <3>2. ReportedChange(Reading(d, s)) = [num |-> 0, den |-> 1]
      BY <2>1, <2>5 DEF ReportedChange
    <3>3. ChangeBelow(ReportedChange(Reading(d, s)), t) <=> 0 < t
      BY <2>3, <3>2 DEF ChangeBelow, Abs
    <3>4. QED
      BY <3>1, <3>3
  <2>6. QED
    BY <2>4, <2>5
<1>2. QED
  BY <1>1, Invariance, PTL

\* Silence of a collector is a drop by exactly 100% to the gate, but no
\* deviation at all on a day that averages 0 or is empty (query.go:157,
\* watch.go:192-213).
THEOREM SilenceIsReadAsZero == Spec => []SilenceReadsAsZero
<1>1. SinkInv => SilenceReadsAsZero
  <2> SUFFICES ASSUME SinkInv, NEW d \in DbNames, NEW s \in SysIds, NEW t \in Thresholds,
                      ~Reading(d, s).error,
                      \A i \in Scope(rows, d, s, now - CurrentWindow) : ~Numeric(rows[i])
               PROVE  Skips(Reading(d, s), t)
                        <=> IF Reading(d, s).baseline.sum = 0 THEN 0 < t ELSE 100 < t
    BY DEF SilenceReadsAsZero
  <2> DEFINE current  == Average(rows, Hour(d, s))
             baseline == Average(rows, Day(d, s))
  <2>1. Reading(d, s) = [error |-> FALSE, current |-> current, baseline |-> baseline]
    BY ReadingIsAverages
  <2>2. NumericOf(rows, Hour(d, s)) = {}
    BY DEF NumericOf, Hour, Day, Scope
  <2>3. current = [sum |-> 0, count |-> 1]
    BY <2>2, ReadingFacts, AverageFacts DEF SinkInv
  <2>4. baseline.sum \in Int /\ baseline.count \in Nat
    BY ReadingFacts, AverageFacts DEF SinkInv
  <2>5. t \in Int
    BY SinkAssumption
  <2> HIDE DEF current, baseline
  <2>6. CASE baseline.sum = 0
    BY <2>1, <2>3, <2>6 DEF Skips
  <2>7. CASE baseline.sum # 0
    <3> DEFINE drop == Abs(baseline.sum)
    <3>1. Change(Reading(d, s)) = [num |-> -baseline.sum, den |-> baseline.sum]
      BY <2>1, <2>3, <2>4 DEF Change
    <3>2. Abs(-baseline.sum) = drop /\ drop \in Nat /\ drop # 0
      BY <2>4, <2>7 DEF Abs
    <3>3. ChangeBelow(Change(Reading(d, s)), t) <=> drop * 100 < t * drop
      BY <3>1, <3>2 DEF ChangeBelow
    <3> HIDE DEF drop
    <3>4. drop * 100 < t * drop <=> 100 < t
      <4>1. t <= 100 => ~(drop * 100 < t * drop)
        BY <2>5, <3>2
      <4>2. 100 < t => drop * 100 < t * drop
        BY <2>5, <3>2
      <4>3. QED
        BY <2>5, <4>1, <4>2
    <3>5. QED
      BY <2>1, <2>7, <3>3, <3>4 DEF Skips
  <2>8. QED
    BY <2>6, <2>7
<1>2. QED
  BY <1>1, Invariance, PTL

\* No measurement of one tenant, good or bad, changes a reading of another
\* (query.go:34-42 and 155-163).
THEOREM TenantsAreIsolated == Spec => TenantsIsolated
<1> DEFINE Isolated == \A d \in DbNames, s \in SysIds :
                         NoneStored(d, s) /\ now' = now => Reading(d, s)' = Reading(d, s)
<1>1. SinkInv /\ [Next]_vars => [Isolated]_vars
  <2> SUFFICES ASSUME SinkInv, Next, NEW d \in DbNames, NEW s \in SysIds,
                      NoneStored(d, s), now' = now
               PROVE  Reading(d, s)' = Reading(d, s)
    BY DEF vars
  <2>1. ~HourPasses
    BY DEF HourPasses, SinkInv
  <2>2. PICK cd \in DbNames, cs \in SysIds, v \in Values : Collect(cd, cs, v)
    BY <2>1 DEF Next
  <2> DEFINE row == [dbname |-> cd, sys_id |-> cs, time |-> now, value |-> v]
             n   == Len(rows) + 1
  <2>3. /\ rows \in Seq(Row)
        /\ rows' = Append(rows, row)
    BY <2>2 DEF Collect, SinkInv
  <2> HIDE DEF row
  <2>4. /\ DOMAIN rows' = DOMAIN rows \cup {n}
        /\ n \notin DOMAIN rows
        /\ rows'[n] = row
        /\ \A i \in DOMAIN rows : rows'[i] = rows[i]
    BY <2>3
  <2>5. rows'[n].dbname # d \/ rows'[n].sys_id # s
    BY <2>4 DEF NoneStored
  <2> HIDE DEF n
  <2>6. Day(d, s)' = Day(d, s)
    BY <2>4, <2>5 DEF Day, Scope
  <2>7. Hour(d, s)' = Hour(d, s)
    BY <2>4, <2>6, ReadingFacts DEF Hour
  <2>8. /\ Average(rows', Hour(d, s)) = Average(rows, Hour(d, s))
        /\ Average(rows', Day(d, s)) = Average(rows, Day(d, s))
    <3>1. \A i \in Day(d, s) : rows'[i] = rows[i]
      BY <2>4, ReadingFacts
    <3>2. \A i \in Hour(d, s) : rows'[i] = rows[i]
      BY <3>1, ReadingFacts
    <3>3. QED
      BY <2>3, <3>1, <3>2, ReadingFacts, AverageOfSame
  <2>9. (\E i \in Day(d, s) : rows'[i].value = Text) <=> \E i \in Day(d, s) : rows[i].value = Text
    BY <2>4, ReadingFacts
  <2>10. Reading(d, s)' = IF \E i \in Day(d, s)' : rows'[i].value = Text THEN QueryError
                          ELSE [error    |-> FALSE,
                                current  |-> Average(rows', Hour(d, s)'),
                                baseline |-> Average(rows', Day(d, s)')]
    BY DEF Day, Hour, Reading, FetchMetricBaseline
  <2>11. QED
    BY <2>6, <2>7, <2>8, <2>9, <2>10, ReadingFacts
<1>2. QED
  BY <1>1, Invariance, PTL DEF Spec, TenantsIsolated
=============================================================================
