---------------------------- MODULE TwoRunsProofs ---------------------------
(***************************************************************************)
(* Theorems about Compare, for any two traces and any options; and about   *)
(* TwoRuns, for any program, any number of threads, any implementations    *)
(* and any order in which the threads write their rows.                    *)
(***************************************************************************)
EXTENDS TwoRunsInv, FiniteSetTheorems, WellFoundedInduction, TLAPS

\* A set of rows of a trace is finite, and no larger than the trace.
LEMMA RowsFinite ==
  ASSUME NEW trace \in Seq(Line), NEW S \in SUBSET KeptAt(trace)
  PROVE  /\ IsFiniteSet(S)
         /\ Cardinality(S) \in Nat
         /\ Cardinality(S) <= Len(trace)
  <1>1. S \in SUBSET (1 .. Len(trace))
    BY DEF KeptAt
  <1>2. Len(trace) \in Nat
    OBVIOUS
  <1>3. /\ IsFiniteSet(1 .. Len(trace))
        /\ Cardinality(1 .. Len(trace)) = Len(trace)
    BY <1>2, FS_Interval
  <1>4. QED
    BY <1>1, <1>3, FS_Subset, FS_CardinalityType

\* A kept row is a row of its own key, and its key is one of AllKeys.
LEMMA OwnKey ==
  ASSUME NEW trace \in Seq(Line), NEW i \in KeptAt(trace)
  PROVE  /\ i \in RowsOf(trace, KeyOf(trace[i]))
         /\ KeyOf(trace[i]) \in AllKeys
         /\ trace[i].output \in OutputHashes
         /\ i \in Nat
  <1>1. i \in KeptAt(trace) /\ i \in 1 .. Len(trace)
    BY DEF KeptAt
  <1>2. trace[i] \in Line
    BY <1>1
  <1>3. QED
    BY <1>1, <1>2 DEF RowsOf, KeyOf, AllKeys, Line

LEMMA RowsOfFinite ==
  ASSUME NEW trace \in Seq(Line), NEW key
  PROVE  /\ RowsOf(trace, key) \subseteq KeptAt(trace)
         /\ IsFiniteSet(RowsOf(trace, key))
         /\ Cardinality(RowsOf(trace, key)) \in Nat
         /\ Cardinality(RowsOf(trace, key)) <= Len(trace)
  <1>1. RowsOf(trace, key) \in SUBSET KeptAt(trace)
    BY DEF RowsOf
  <1>2. QED
    BY <1>1, RowsFinite

\* A row is one of the 1 .. Cardinality(RowsOf) rows of its key ...
LEMMA OccurrenceRange ==
  ASSUME NEW trace \in Seq(Line), NEW i \in KeptAt(trace)
  PROVE  Occurrence(trace, i) \in
           1 .. Cardinality(RowsOf(trace, KeyOf(trace[i])))
  <1> DEFINE rows == RowsOf(trace, KeyOf(trace[i]))
             upto == {j \in rows : j <= i}
  <1>1. i \in upto
    BY OwnKey
  <1>2. IsFiniteSet(rows) /\ Cardinality(rows) \in Nat
    BY RowsOfFinite
  <1>3. upto \in SUBSET rows
    OBVIOUS
  <1> HIDE DEF rows
  <1>4. /\ IsFiniteSet(upto)
        /\ Cardinality(upto) \in Nat
        /\ Cardinality(upto) <= Cardinality(rows)
    BY <1>2, <1>3, FS_Subset, FS_CardinalityType
  <1>5. Cardinality(upto) # 0
    BY <1>1, <1>4, FS_EmptySet
  <1>6. Occurrence(trace, i) = Cardinality(upto)
    BY DEF Occurrence, rows
  <1> HIDE DEF upto
  <1>7. Cardinality(upto) \in 1 .. Cardinality(rows)
    BY <1>2, <1>4, <1>5
  <1>8. QED
    BY <1>6, <1>7 DEF rows

\* ... a later row a later one ...
LEMMA OccurrenceGrows ==
  ASSUME NEW trace \in Seq(Line),
         NEW i \in KeptAt(trace), NEW j \in KeptAt(trace),
         KeyOf(trace[i]) = KeyOf(trace[j]), i < j
  PROVE  Occurrence(trace, i) < Occurrence(trace, j)
  <1> DEFINE rows == RowsOf(trace, KeyOf(trace[j]))
             before == {k \in rows : k <= i}
             upto == {k \in rows : k <= j}
  <1>1. IsFiniteSet(rows) /\ rows \subseteq Nat
    BY RowsOfFinite, OwnKey
  <1>2. j \in upto /\ i \in Nat /\ j \in Nat
    BY OwnKey
  <1> HIDE DEF rows
  <1>3. before \subseteq upto /\ j \notin before
    <2>1. \A k \in rows : k <= i => k <= j
      BY <1>1, <1>2
    <2>2. ~(j <= i)
      BY <1>2
    <2>3. QED
      BY <2>1, <2>2
  <1>4. IsFiniteSet(upto)
    BY <1>1, FS_Subset
  <1>5. /\ Cardinality(before) <= Cardinality(upto)
        /\ Cardinality(before) # Cardinality(upto)
        /\ Cardinality(before) \in Nat /\ Cardinality(upto) \in Nat
    BY <1>2, <1>3, <1>4, FS_Subset, FS_CardinalityType
  <1>6. /\ Occurrence(trace, i) = Cardinality(before)
        /\ Occurrence(trace, j) = Cardinality(upto)
    BY DEF Occurrence, rows
  <1> HIDE DEF before, upto
  <1>7. QED
    BY <1>5, <1>6

\* ... so that key and occurrence tell rows apart.
LEMMA OccurrenceInjective ==
  ASSUME NEW trace \in Seq(Line),
         NEW i \in KeptAt(trace), NEW j \in KeptAt(trace),
         KeyOf(trace[i]) = KeyOf(trace[j]),
         Occurrence(trace, i) = Occurrence(trace, j)
  PROVE  i = j
  <1>1. i \in Nat /\ j \in Nat
    BY OwnKey
  <1>2. Occurrence(trace, i) \in Int
    BY OccurrenceRange
  <1>3. ~(i < j) /\ ~(j < i)
    BY <1>2, OccurrenceGrows
  <1>4. QED
    BY <1>1, <1>3

\* There is an n-th output only up to the number of rows, and only of a key
\* that the trace has.
LEMMA NthOutputRange ==
  ASSUME NEW trace \in Seq(Line), NEW key, NEW n,
         NthOutput(trace, key, n) # {}
  PROVE  /\ n \in 1 .. Cardinality(RowsOf(trace, key))
         /\ key \in KeysOf(trace)
  <1>1. PICK i \in RowsOf(trace, key) : Occurrence(trace, i) = n
    BY DEF NthOutput
  <1>2. i \in KeptAt(trace) /\ KeyOf(trace[i]) = key
    BY DEF RowsOf
  <1>3. QED
    BY <1>1, <1>2, OccurrenceRange DEF KeysOf

\* There is a row for every occurrence up to their number.
LEMMA EveryOccurrence ==
  ASSUME NEW trace \in Seq(Line), NEW key,
         NEW n \in 1 .. Cardinality(RowsOf(trace, key))
  PROVE  \E i \in RowsOf(trace, key) : Occurrence(trace, i) = n
  <1> DEFINE R == RowsOf(trace, key)
             m == Cardinality(R)
             nth == [i \in R |-> Occurrence(trace, i)]
  <1>1. IsFiniteSet(R) /\ m \in Nat
    BY RowsOfFinite
  <1>2. \A i \in R : i \in KeptAt(trace) /\ KeyOf(trace[i]) = key
    BY DEF RowsOf
  <1>3. \A i \in R : Occurrence(trace, i) \in 1 .. m
    BY <1>2, OccurrenceRange
  <1>4. \A i, j \in R : Occurrence(trace, i) = Occurrence(trace, j) => i = j
    BY <1>2, OccurrenceInjective
  <1> HIDE DEF R
  <1>5. nth \in Injection(R, 1 .. m)
    BY <1>3, <1>4 DEF Injection, IsInjective
  <1>6. IsFiniteSet(1 .. m) /\ Cardinality(1 .. m) = m
    BY <1>1, FS_Interval
  <1>7. nth \in Surjection(R, 1 .. m)
    BY <1>5, <1>6, FS_Injection
  <1>8. QED
    BY <1>7 DEF Surjection, R
-----------------------------------------------------------------------------
(***************************************************************************)
(* The pairing of rows.  OutputList is defined by recursion over a trace:  *)
(* there is a function that satisfies the recursion, and after n lines its *)
(* list has the outputs of the rows up to n, each at its occurrence.       *)
(***************************************************************************)

\* Every number of a set of numbers is reached from the least one.
LEMMA LeastOf ==
  ASSUME NEW S \in SUBSET Nat, S # {}
  PROVE  \E n \in S : \A m \in S : n <= m
  <1>1. PICK n \in S : \A m \in S : <<m, n>> \notin OpToRel(<, Nat)
    BY NatLessThanWellFounded, WFMin
  <1>2. ASSUME NEW x \in Nat, NEW y \in Nat, x < y
        PROVE  <<x, y>> \in OpToRel(<, Nat)
    <2> DEFINE p == <<x, y>>
    <2>1. p \in Nat \X Nat /\ p[1] < p[2]
      BY <1>2
    <2> HIDE DEF p
    <2>2. p \in OpToRel(<, Nat)
      BY <2>1, Zenon DEF OpToRel
    <2>3. QED
      BY <2>2 DEF p
  <1>3. \A m \in S : ~(m < n)
    BY <1>1, <1>2
  <1>4. QED
    BY <1>3

Lists(trace, key, m, f) ==
  f = [n \in 0 .. m |->
         IF n = 0 THEN <<>>
         ELSE IF Kept(trace[n]) /\ KeyOf(trace[n]) = key
              THEN Append(f[n - 1], trace[n].output)
         ELSE f[n - 1]]

LEMMA ListsAt ==
  ASSUME NEW trace \in Seq(Line), NEW key, NEW m \in 0 .. Len(trace), NEW f,
         Lists(trace, key, m, f)
  PROVE  /\ f[0] = <<>>
         /\ \A n \in 1 .. m :
              /\ n \in RowsOf(trace, key) =>
                   f[n] = Append(f[n - 1], trace[n].output)
              /\ n \notin RowsOf(trace, key) => f[n] = f[n - 1]
  <1>1. m \in Nat /\ Len(trace) \in Nat
    OBVIOUS
  <1>2. ASSUME NEW n \in 0 .. m
        PROVE  f[n] = IF n = 0 THEN <<>>
                      ELSE IF Kept(trace[n]) /\ KeyOf(trace[n]) = key
                           THEN Append(f[n - 1], trace[n].output)
                      ELSE f[n - 1]
    BY DEF Lists
  <1>3. ASSUME NEW n \in 1 .. m
        PROVE  /\ n \in 0 .. m /\ n # 0
               /\ n \in RowsOf(trace, key)
                    <=> Kept(trace[n]) /\ KeyOf(trace[n]) = key
    <2>1. n \in 0 .. m /\ n # 0 /\ n \in DOMAIN trace
      BY <1>1
    <2>2. QED
      BY <2>1, Zenon DEF RowsOf, KeptAt
  <1>4. 0 \in 0 .. m
    BY <1>1
  <1>5. f[0] = <<>>
    BY <1>2, <1>4
  <1>6. ASSUME NEW n \in 1 .. m
        PROVE  /\ n \in RowsOf(trace, key) =>
                    f[n] = Append(f[n - 1], trace[n].output)
               /\ n \notin RowsOf(trace, key) => f[n] = f[n - 1]
    BY <1>2, <1>3
  <1>7. QED
    BY <1>5, <1>6

LEMMA ListsExist ==
  ASSUME NEW trace, NEW key, NEW m \in Nat
  PROVE  \E f : Lists(trace, key, m, f)
  <1> DEFINE Bad == {k \in Nat : ~ \E f : Lists(trace, key, k, f)}
             Then(g, n) == IF Kept(trace[n]) /\ KeyOf(trace[n]) = key
                           THEN Append(g[n - 1], trace[n].output)
                           ELSE g[n - 1]
  <1>1. SUFFICES ASSUME Bad # {} PROVE FALSE
    OBVIOUS
  <1>2. PICK k \in Bad : \A n \in Bad : k <= n
    <2>1. Bad \in SUBSET Nat
      OBVIOUS
    <2> HIDE DEF Bad
    <2>2. QED
      BY <1>1, <2>1, LeastOf
  <1>3. k \in Nat /\ ~ \E f : Lists(trace, key, k, f)
    OBVIOUS
  <1>4. k # 0
    <2>1. Lists(trace, key, 0, [n \in 0 .. 0 |-> <<>>])
      BY DEF Lists
    <2>2. QED
      BY <1>3, <2>1
  <1>5. PICK g : Lists(trace, key, k - 1, g)
    <2>1. k - 1 \in Nat /\ k - 1 \notin Bad
      BY <1>2, <1>3, <1>4
    <2>2. QED
      BY <2>1
  <1> DEFINE f == [n \in 0 .. k |-> IF n = k THEN Then(g, n) ELSE g[n]]
  <1>6. \A n \in 0 .. k - 1 : g[n] = IF n = 0 THEN <<>> ELSE Then(g, n)
    BY <1>5 DEF Lists
  <1>7. \A n \in 0 .. k : f[n] = IF n = 0 THEN <<>> ELSE Then(f, n)
    <2>1. \A n \in 1 .. k : f[n - 1] = g[n - 1]
      BY <1>3
    <2>2. \A n \in 0 .. k - 1 : f[n] = g[n]
      BY <1>3
    <2>3. f[k] = Then(g, k)
      BY <1>3
    <2> HIDE DEF f
    <2>4. \A n \in 1 .. k : Then(f, n) = Then(g, n)
      BY <2>1
    <2> HIDE DEF Then
    <2>5. QED
      BY <1>3, <1>4, <1>6, <2>2, <2>3, <2>4
  <1>8. f = [n \in 0 .. k |-> f[n]]
    OBVIOUS
  <1> HIDE DEF f
  <1>9. f = [n \in 0 .. k |-> IF n = 0 THEN <<>> ELSE Then(f, n)]
    BY <1>7, <1>8
  <1>10. Lists(trace, key, k, f)
    BY <1>9, Zenon DEF Lists
  <1>11. QED
    BY <1>3, <1>10

LEMMA OutputListIs ==
  ASSUME NEW trace \in Seq(Line), NEW key
  PROVE  \E f : /\ Lists(trace, key, Len(trace), f)
                /\ OutputList(trace, key) = f[Len(trace)]
  <1> DEFINE D(f) == Lists(trace, key, Len(trace), f)
  <1>1. OutputList(trace, key) = (CHOOSE f : D(f))[Len(trace)]
    BY Zenon DEF OutputList, Lists
  <1>2. D(CHOOSE f : D(f))
    <2>1. Len(trace) \in Nat
      OBVIOUS
    <2>2. \E f : D(f)
      BY <2>1, ListsExist
    <2> HIDE DEF D
    <2>3. QED
      BY <2>2
  <1>3. QED
    BY <1>1, <1>2

\* The rows of a key among the first n lines.
RowsUpTo(trace, key, n) == {i \in RowsOf(trace, key) : i <= n}

LEMMA RowsUpToFinite ==
  ASSUME NEW trace \in Seq(Line), NEW key, NEW n
  PROVE  /\ IsFiniteSet(RowsUpTo(trace, key, n))
         /\ Cardinality(RowsUpTo(trace, key, n)) \in Nat
  <1>1. RowsUpTo(trace, key, n) \in SUBSET KeptAt(trace)
    BY DEF RowsUpTo, RowsOf
  <1>2. QED
    BY <1>1, RowsFinite

\* A row is the last one of the rows up to it.
LEMMA OccurrenceIs ==
  ASSUME NEW trace \in Seq(Line), NEW key, NEW i \in RowsOf(trace, key)
  PROVE  Occurrence(trace, i) = Cardinality(RowsUpTo(trace, key, i))
  <1>1. KeyOf(trace[i]) = key
    BY DEF RowsOf
  <1>2. QED
    BY <1>1 DEF Occurrence, RowsUpTo

LEMMA RowsUpToGrow ==
  ASSUME NEW trace \in Seq(Line), NEW key, NEW n \in 1 .. Len(trace)
  PROVE  /\ n \notin RowsUpTo(trace, key, n - 1)
         /\ n \in RowsOf(trace, key) =>
              /\ RowsUpTo(trace, key, n) = RowsUpTo(trace, key, n - 1) \cup {n}
              /\ Cardinality(RowsUpTo(trace, key, n))
                   = Cardinality(RowsUpTo(trace, key, n - 1)) + 1
         /\ n \notin RowsOf(trace, key) =>
              RowsUpTo(trace, key, n) = RowsUpTo(trace, key, n - 1)
  <1>1. \A i \in RowsOf(trace, key) : i \in Nat
    BY OwnKey, RowsOfFinite
  <1>2. n \in Nat
    OBVIOUS
  <1>3. n \notin RowsUpTo(trace, key, n - 1)
    BY <1>2 DEF RowsUpTo
  <1>4. \A i \in RowsOf(trace, key) : i <= n <=> i <= n - 1 \/ i = n
    BY <1>1, <1>2
  <1>5. n \notin RowsOf(trace, key) =>
          RowsUpTo(trace, key, n) = RowsUpTo(trace, key, n - 1)
    BY <1>4 DEF RowsUpTo
  <1>6. n \in RowsOf(trace, key) =>
          RowsUpTo(trace, key, n) = RowsUpTo(trace, key, n - 1) \cup {n}
    BY <1>4, <1>2 DEF RowsUpTo
  <1>7. n \in RowsOf(trace, key) =>
          Cardinality(RowsUpTo(trace, key, n))
            = Cardinality(RowsUpTo(trace, key, n - 1)) + 1
    BY <1>3, <1>6, RowsUpToFinite, FS_AddElement
  <1>8. QED
    BY <1>3, <1>5, <1>6, <1>7

\* A list with the outputs of these rows, each at its occurrence.
ListOf(trace, key, n, list) ==
  /\ list \in Seq(OutputHashes)
  /\ Len(list) = Cardinality(RowsUpTo(trace, key, n))
  /\ \A i \in RowsUpTo(trace, key, n) :
       list[Occurrence(trace, i)] = trace[i].output

LEMMA ListGrows ==
  ASSUME NEW trace \in Seq(Line), NEW key, NEW n \in 1 .. Len(trace),
         n \in RowsOf(trace, key),
         NEW list, ListOf(trace, key, n - 1, list)
  PROVE  ListOf(trace, key, n, Append(list, trace[n].output))
  <1> DEFINE o == trace[n].output
             then == Append(list, o)
             before == Cardinality(RowsUpTo(trace, key, n - 1))
  <1>1. o \in OutputHashes /\ list \in Seq(OutputHashes) /\ Len(list) = before
    BY OwnKey, RowsOfFinite DEF ListOf
  <1>2. /\ RowsUpTo(trace, key, n) = RowsUpTo(trace, key, n - 1) \cup {n}
        /\ Cardinality(RowsUpTo(trace, key, n)) = before + 1
    BY RowsUpToGrow
  <1>3. before \in Nat
    BY RowsUpToFinite
  <1> HIDE DEF before, o
  <1>4. /\ then \in Seq(OutputHashes) /\ Len(then) = before + 1
        /\ then[before + 1] = o
        /\ \A k \in 1 .. before : then[k] = list[k]
    BY <1>1, <1>3
  <1> HIDE DEF then
  <1>5. then[Occurrence(trace, n)] = o
    BY <1>2, <1>4, OccurrenceIs
  <1>6. ASSUME NEW i \in RowsUpTo(trace, key, n - 1)
        PROVE  then[Occurrence(trace, i)] = trace[i].output
    <2>1. i \in RowsOf(trace, key) /\ i <= n - 1
      BY DEF RowsUpTo
    <2>2. i \in KeptAt(trace) /\ n \in KeptAt(trace)
          /\ KeyOf(trace[i]) = KeyOf(trace[n]) /\ i \in Nat /\ n \in Nat
      BY <2>1, OwnKey DEF RowsOf
    <2>3. i < n
      BY <2>1, <2>2
    <2>4. Occurrence(trace, i) < Occurrence(trace, n)
      BY <2>2, <2>3, OccurrenceGrows
    <2>5. Occurrence(trace, n) = before + 1
      BY <1>2, OccurrenceIs
    <2>6. Occurrence(trace, i) \in Nat \ {0}
      BY <2>2, OccurrenceRange, RowsOfFinite
    <2>7. Occurrence(trace, i) \in 1 .. before
      BY <1>3, <2>4, <2>5, <2>6
    <2>8. list[Occurrence(trace, i)] = trace[i].output
      BY DEF ListOf
    <2>9. QED
      BY <1>4, <2>7, <2>8
  <1>7. QED
    BY <1>2, <1>4, <1>5, <1>6 DEF ListOf, then, o

LEMMA ListsAreOfRows ==
  ASSUME NEW trace \in Seq(Line), NEW key, NEW m \in 0 .. Len(trace), NEW f,
         Lists(trace, key, m, f)
  PROVE  ListOf(trace, key, m, f[m])
  <1> DEFINE Bad == {k \in 0 .. m : ~ListOf(trace, key, k, f[k])}
  <1>1. SUFFICES ASSUME Bad # {} PROVE FALSE
    OBVIOUS
  <1>2. Len(trace) \in Nat /\ m \in Nat /\ m <= Len(trace)
    OBVIOUS
  <1> HIDE DEF Bad
  <1>3. f[0] = <<>>
    BY ListsAt
  <1>4. ASSUME NEW k \in 1 .. m, k \in RowsOf(trace, key)
        PROVE  f[k] = Append(f[k - 1], trace[k].output)
    BY <1>4, ListsAt
  <1>5. ASSUME NEW k \in 1 .. m, k \notin RowsOf(trace, key)
        PROVE  f[k] = f[k - 1]
    BY <1>5, ListsAt
  <1> USE DEF Bad
  <1>6. PICK n \in Bad : \A k \in Bad : n <= k
    <2>1. Bad \in SUBSET Nat
      BY <1>2
    <2> HIDE DEF Bad
    <2>2. QED
      BY <1>1, <2>1, LeastOf
  <1>7. n \in 0 .. m /\ ~ListOf(trace, key, n, f[n])
    OBVIOUS
  <1>8. n # 0
    <2>1. RowsUpTo(trace, key, 0) = {}
      <3>1. \A i \in RowsOf(trace, key) : i \in 1 .. Len(trace)
        BY DEF RowsOf, KeptAt
      <3>2. \A i \in RowsOf(trace, key) : ~(i <= 0)
        BY <1>2, <3>1
      <3>3. QED
        BY <3>2 DEF RowsUpTo
    <2>2. Cardinality({}) = 0 /\ <<>> \in Seq(OutputHashes) /\ Len(<<>>) = 0
      BY FS_EmptySet
    <2>3. ListOf(trace, key, 0, f[0])
      BY <1>3, <2>1, <2>2 DEF ListOf
    <2>4. QED
      BY <1>7, <2>3
  <1>9. /\ n \in 1 .. m /\ n \in 1 .. Len(trace)
        /\ n - 1 \in 0 .. m /\ n - 1 < n
    BY <1>2, <1>7, <1>8
  <1>10. ListOf(trace, key, n - 1, f[n - 1])
    BY <1>6, <1>9
  <1>11. CASE n \in RowsOf(trace, key)
    <2>1. f[n] = Append(f[n - 1], trace[n].output)
      BY <1>9, <1>11, <1>4
    <2> HIDE DEF Bad
    <2>2. QED
      BY <1>7, <1>9, <1>10, <1>11, <2>1, ListGrows
  <1>12. CASE n \notin RowsOf(trace, key)
    <2>1. f[n] = f[n - 1]
      BY <1>9, <1>12, <1>5
    <2>2. RowsUpTo(trace, key, n) = RowsUpTo(trace, key, n - 1)
      BY <1>9, <1>12, RowsUpToGrow
    <2>3. QED
      BY <1>7, <1>10, <2>1, <2>2 DEF ListOf
  <1>13. QED
    BY <1>11, <1>12

\* The n-th row of a key is the n-th of its list, in any trace.
LEMMA RowsAreListed ==
  ASSUME NEW trace \in Seq(Line), NEW key
  PROVE  ListExact(trace, key)
  <1> DEFINE list == OutputList(trace, key)
             m == Cardinality(RowsOf(trace, key))
  <1>1. /\ Len(list) = m
        /\ \A i \in RowsOf(trace, key) :
             list[Occurrence(trace, i)] = trace[i].output
    <2>1. PICK f : Lists(trace, key, Len(trace), f) /\ list = f[Len(trace)]
      BY OutputListIs
    <2>2. Len(trace) \in 0 .. Len(trace)
      OBVIOUS
    <2> HIDE DEF list
    <2>3. ListOf(trace, key, Len(trace), list)
      BY <2>1, <2>2, ListsAreOfRows
    <2>4. RowsUpTo(trace, key, Len(trace)) = RowsOf(trace, key)
      <3>1. \A i \in RowsOf(trace, key) : i \in 1 .. Len(trace)
        BY DEF RowsOf, KeptAt
      <3>2. \A i \in RowsOf(trace, key) : i <= Len(trace)
        BY <3>1
      <3>3. QED
        BY <3>2 DEF RowsUpTo
    <2>5. QED
      BY <2>3, <2>4 DEF ListOf
  <1>2. m \in Nat /\ Len(trace) \in Nat
    BY RowsOfFinite
  <1> HIDE DEF list
  <1>3. ASSUME NEW n \in 1 .. Len(trace) + 1, n <= m
        PROVE  NthOutput(trace, key, n) = {list[n]}
    <2>1. n \in 1 .. m
      BY <1>2, <1>3
    <2>2. PICK i \in RowsOf(trace, key) : Occurrence(trace, i) = n
      BY <2>1, EveryOccurrence
    <2>3. ASSUME NEW j \in RowsOf(trace, key), Occurrence(trace, j) = n
          PROVE  j = i
      <3>1. /\ i \in KeptAt(trace) /\ j \in KeptAt(trace)
            /\ KeyOf(trace[i]) = KeyOf(trace[j])
        BY DEF RowsOf
      <3>2. QED
        BY <2>2, <2>3, <3>1, OccurrenceInjective
    <2>4. {j \in RowsOf(trace, key) : Occurrence(trace, j) = n} = {i}
      BY <2>2, <2>3
    <2>5. trace[i].output = list[n]
      BY <1>1, <2>2
    <2>6. QED
      BY <2>4, <2>5 DEF NthOutput
  <1>4. ASSUME NEW n \in 1 .. Len(trace) + 1, ~(n <= m)
        PROVE  NthOutput(trace, key, n) = {}
    <2>1. n \notin 1 .. m
      BY <1>2, <1>4
    <2>2. QED
      BY <2>1, NthOutputRange
  <1>5. ListExact(trace, key) <=>
          \A n \in 1 .. Len(trace) + 1 :
            NthOutput(trace, key, n) = IF n <= Len(list) THEN {list[n]} ELSE {}
    BY Zenon DEF ListExact, list
  <1>6. QED
    BY <1>1, <1>3, <1>4, <1>5
-----------------------------------------------------------------------------
\* MostRows is the larger of the two numbers of rows.
LEMMA MostRowsBounds ==
  ASSUME TypeOK, NEW key
  PROVE  /\ MostRows(key) \in 0 .. Len(left) + Len(right)
         /\ Cardinality(RowsOf(left, key)) <= MostRows(key)
         /\ Cardinality(RowsOf(right, key)) <= MostRows(key)
  <1>1. /\ left \in Seq(Line) /\ right \in Seq(Line)
        /\ Len(left) \in Nat /\ Len(right) \in Nat
    BY DEF TypeOK
  <1>2. /\ Cardinality(RowsOf(left, key)) \in 0 .. Len(left)
        /\ Cardinality(RowsOf(right, key)) \in 0 .. Len(right)
    BY <1>1, RowsOfFinite
  <1>3. QED
    BY <1>1, <1>2 DEF MostRows

\* The occurrences compared are all that could differ.
LEMMA ComparedIsEnough ==
  ASSUME TypeOK, NEW key
  PROVE  /\ DifferingAt(key) = {} <=> SameOutputs(key)
         /\ DifferingAt(key) = {} =>
              \A n : NthOutput(left, key, n) = NthOutput(right, key, n)
  <1>1. left \in Seq(Line) /\ right \in Seq(Line)
    BY DEF TypeOK
  <1>2. ASSUME DifferingAt(key) = {}, NEW n
        PROVE  NthOutput(left, key, n) = NthOutput(right, key, n)
    <2>1. CASE n \in 1 .. MostRows(key)
      BY <1>2, <2>1 DEF DifferingAt
    <2>2. CASE n \notin 1 .. MostRows(key)
      <3>1. /\ n \notin 1 .. Cardinality(RowsOf(left, key))
            /\ n \notin 1 .. Cardinality(RowsOf(right, key))
        BY <1>1, <2>2, MostRowsBounds, RowsOfFinite
      <3>2. NthOutput(left, key, n) = {} /\ NthOutput(right, key, n) = {}
        BY <1>1, <3>1, NthOutputRange
      <3>3. QED
        BY <3>2
    <2>3. QED
      BY <2>1, <2>2
  <1>3. ASSUME SameOutputs(key)
        PROVE  DifferingAt(key) = {}
    <2>1. 1 .. MostRows(key) \subseteq 1 .. Len(left) + Len(right)
      <3>1. Len(left) + Len(right) \in Nat
        BY <1>1
      <3>2. QED
        BY <3>1, MostRowsBounds
    <2>2. QED
      BY <1>3, <2>1 DEF DifferingAt, SameOutputs
  <1>4. QED
    BY <1>2, <1>3 DEF SameOutputs

LEMMA DifferingFinite ==
  ASSUME TypeOK, NEW key
  PROVE  /\ Cardinality(DifferingAt(key)) \in Nat
         /\ Cardinality(DifferingAt(key)) = 0 <=> DifferingAt(key) = {}
  <1>1. IsFiniteSet(1 .. MostRows(key))
    BY MostRowsBounds, FS_Interval
  <1>2. IsFiniteSet(DifferingAt(key))
    BY <1>1, FS_Subset DEF DifferingAt
  <1>3. QED
    BY <1>2, FS_CardinalityType, FS_EmptySet

\* A key with a difference is a key of one of the traces, and those are keys.
LEMMA DifferingIsKey ==
  ASSUME TypeOK, NEW key, DifferingAt(key) # {}
  PROVE  key \in Keys
  <1>1. left \in Seq(Line) /\ right \in Seq(Line)
    BY DEF TypeOK
  <1>2. PICK n : NthOutput(left, key, n) # NthOutput(right, key, n)
    BY DEF DifferingAt
  <1>3. NthOutput(left, key, n) # {} \/ NthOutput(right, key, n) # {}
    BY <1>2
  <1>4. QED
    BY <1>1, <1>3, NthOutputRange DEF Keys

LEMMA KeysFinite ==
  ASSUME NEW trace \in Seq(Line)
  PROVE  IsFiniteSet(KeysOf(trace)) /\ KeysOf(trace) \subseteq AllKeys
  <1> DEFINE key == [i \in KeptAt(trace) |-> KeyOf(trace[i])]
  <1>1. key \in Surjection(KeptAt(trace), KeysOf(trace))
    BY DEF Surjection, KeysOf
  <1>2. IsFiniteSet(KeptAt(trace))
    BY RowsFinite
  <1> HIDE DEF key
  <1>3. IsFiniteSet(KeysOf(trace))
    BY <1>1, <1>2, FS_Surjection
  <1>4. KeysOf(trace) \subseteq AllKeys
    BY OwnKey DEF KeysOf
  <1>5. QED
    BY <1>3, <1>4

LEMMA AllKeysFinite ==
  ASSUME TypeOK
  PROVE  /\ IsFiniteSet(Keys) /\ Keys \subseteq AllKeys
         /\ \A S \in SUBSET Keys : IsFiniteSet(S) /\ Cardinality(S) \in Nat
  <1>1. left \in Seq(Line) /\ right \in Seq(Line)
    BY DEF TypeOK
  <1>2. IsFiniteSet(Keys) /\ Keys \subseteq AllKeys
    BY <1>1, KeysFinite, FS_Union DEF Keys
  <1>3. QED
    BY <1>2, FS_Subset, FS_CardinalityType
-----------------------------------------------------------------------------
(***************************************************************************)
(* Rows of the same occurrence of the same key belong together: traces     *)
(* whose occurrences agree have the same number of rows of every kind.     *)
(***************************************************************************)

\* The rows with one of these keys and one of these outputs.
RowsWith(trace, keys, outputs) ==
  {i \in KeptAt(trace) :
     KeyOf(trace[i]) \in keys /\ trace[i].output \in outputs}

LEMMA MatchingRows ==
  ASSUME NEW l \in Seq(Line), NEW r \in Seq(Line), NEW keys, NEW outputs,
         \A key \in keys : \A n : NthOutput(l, key, n) = NthOutput(r, key, n)
  PROVE  Cardinality(RowsWith(l, keys, outputs))
           <= Cardinality(RowsWith(r, keys, outputs))
  <1> DEFINE L == RowsWith(l, keys, outputs)
             R == RowsWith(r, keys, outputs)
             Matches(i, j) == /\ Occurrence(r, j) = Occurrence(l, i)
                              /\ r[j].output = l[i].output
             partner(i) == CHOOSE j \in RowsOf(r, KeyOf(l[i])) : Matches(i, j)
             match == [i \in L |-> partner(i)]
  <1>1. ASSUME NEW i \in L
        PROVE  /\ partner(i) \in R
               /\ KeyOf(r[partner(i)]) = KeyOf(l[i])
               /\ Occurrence(r, partner(i)) = Occurrence(l, i)
    <2>1. /\ i \in KeptAt(l) /\ KeyOf(l[i]) \in keys
          /\ l[i].output \in outputs
      BY DEF RowsWith
    <2>2. l[i].output \in NthOutput(l, KeyOf(l[i]), Occurrence(l, i))
      BY <2>1, OwnKey DEF NthOutput
    <2>3. l[i].output \in NthOutput(r, KeyOf(l[i]), Occurrence(l, i))
      BY <2>1, <2>2
    <2>4. \E j \in RowsOf(r, KeyOf(l[i])) : Matches(i, j)
      BY <2>3 DEF NthOutput
    <2>5. partner(i) \in RowsOf(r, KeyOf(l[i])) /\ Matches(i, partner(i))
      BY <2>4
    <2> HIDE DEF partner
    <2>6. partner(i) \in KeptAt(r) /\ KeyOf(r[partner(i)]) = KeyOf(l[i])
      BY <2>5 DEF RowsOf
    <2>7. QED
      BY <2>1, <2>5, <2>6 DEF RowsWith
  <1>2. ASSUME NEW i \in L, NEW j \in L, partner(i) = partner(j)
        PROVE  i = j
    <2>1. KeyOf(l[i]) = KeyOf(l[j]) /\ Occurrence(l, i) = Occurrence(l, j)
      BY <1>1, <1>2
    <2>2. i \in KeptAt(l) /\ j \in KeptAt(l)
      BY DEF RowsWith
    <2>3. QED
      BY <2>1, <2>2, OccurrenceInjective
  <1> HIDE DEF partner
  <1>3. match \in Injection(L, R)
    BY <1>1, <1>2 DEF Injection, IsInjective
  <1>4. IsFiniteSet(R)
    BY RowsFinite DEF RowsWith
  <1> HIDE DEF match, L, R
  <1>5. Cardinality(L) <= Cardinality(R)
    BY <1>3, <1>4, FS_Injection
  <1>6. QED
    BY <1>5 DEF L, R

LEMMA SameNumberOfRows ==
  ASSUME TypeOK, NEW keys, NEW outputs,
         \A key \in keys : DifferingAt(key) = {}
  PROVE  Cardinality(RowsWith(left, keys, outputs))
           = Cardinality(RowsWith(right, keys, outputs))
  <1>1. left \in Seq(Line) /\ right \in Seq(Line)
    BY DEF TypeOK
  <1>2. \A key \in keys : \A n :
          NthOutput(left, key, n) = NthOutput(right, key, n)
    BY ComparedIsEnough
  <1>3. /\ Cardinality(RowsWith(left, keys, outputs))
             <= Cardinality(RowsWith(right, keys, outputs))
        /\ Cardinality(RowsWith(right, keys, outputs))
             <= Cardinality(RowsWith(left, keys, outputs))
    BY <1>1, <1>2, MatchingRows
  <1>4. /\ Cardinality(RowsWith(left, keys, outputs)) \in Nat
        /\ Cardinality(RowsWith(right, keys, outputs)) \in Nat
    BY <1>1, RowsFinite DEF RowsWith
  <1>5. QED
    BY <1>3, <1>4

\* compare_counts finds nothing where the occurrences agree ...
LEMMA CountsAgree ==
  ASSUME TypeOK, SameTraces
  PROVE  ~CountsDiffer
  <1>1. \A key \in AllKeys : DifferingAt(key) = {}
    BY ComparedIsEnough DEF SameTraces
  <1>2. ASSUME NEW f \in Functions, NEW trace \in Seq(Line)
        PROVE  CountOf(trace, f)
                 = Cardinality(RowsWith(trace, {f} \X InputHashes, OutputHashes))
    <2>1. \A i \in KeptAt(trace) : trace[i] \in Line
      BY DEF KeptAt
    <2>2. {i \in KeptAt(trace) : trace[i].fn = f}
            = RowsWith(trace, {f} \X InputHashes, OutputHashes)
      BY <2>1 DEF RowsWith, KeyOf, Line
    <2>3. QED
      BY <2>2 DEF CountOf
  <1>3. left \in Seq(Line) /\ right \in Seq(Line)
    BY DEF TypeOK
  <1>4. ASSUME NEW f \in Functions
        PROVE  CountOf(left, f) = CountOf(right, f)
    <2>1. {f} \X InputHashes \subseteq AllKeys
      BY DEF AllKeys
    <2>2. \A key \in {f} \X InputHashes : DifferingAt(key) = {}
      BY <1>1, <2>1
    <2>3. QED
      BY <1>2, <1>3, <2>2, SameNumberOfRows
  <1>5. QED
    BY <1>4 DEF CountsDiffer

\* ... and compare_pairs finds nothing for a key whose occurrences agree.
LEMMA OutputsAgree ==
  ASSUME TypeOK, NEW key, DifferingAt(key) = {}
  PROVE  ~OutputsDiffer(key)
  <1>1. ASSUME NEW trace, NEW o
        PROVE  OutputCount(trace, key, o)
                 = Cardinality(RowsWith(trace, {key}, {o}))
    <2>1. {i \in RowsOf(trace, key) : trace[i].output = o}
            = RowsWith(trace, {key}, {o})
      BY DEF RowsOf, RowsWith
    <2>2. QED
      BY <2>1 DEF OutputCount
  <1>2. ASSUME NEW o
        PROVE  OutputCount(left, key, o) = OutputCount(right, key, o)
    <2>1. \A k \in {key} : DifferingAt(k) = {}
      OBVIOUS
    <2>2. Cardinality(RowsWith(left, {key}, {o}))
            = Cardinality(RowsWith(right, {key}, {o}))
      BY <2>1, SameNumberOfRows
    <2>3. QED
      BY <1>1, <2>2
  <1>3. QED
    BY <1>2 DEF OutputsDiffer

\* An output of a key that only one trace has was seen more often there.
LEMMA MissingDiffers ==
  ASSUME TypeOK, NEW key \in Keys, key \notin KeysOf(left) \cap KeysOf(right)
  PROVE  OutputsDiffer(key)
  <1>1. left \in Seq(Line) /\ right \in Seq(Line)
    BY DEF TypeOK
  <1>2. ASSUME NEW l \in Seq(Line), NEW r \in Seq(Line),
               key \in KeysOf(l), key \notin KeysOf(r)
        PROVE  \E o \in OutputHashes :
                 OutputCount(l, key, o) # OutputCount(r, key, o)
    <2>1. PICK i \in KeptAt(l) : KeyOf(l[i]) = key
      BY <1>2 DEF KeysOf
    <2> DEFINE o == l[i].output
               seen == {j \in RowsOf(l, key) : l[j].output = o}
    <2>2. i \in seen /\ o \in OutputHashes
      <3>1. i \in RowsOf(l, KeyOf(l[i])) /\ l[i].output \in OutputHashes
        BY <2>1, OwnKey
      <3>2. QED
        BY <2>1, <3>1
    <2>3. IsFiniteSet(seen)
      <3>1. IsFiniteSet(RowsOf(l, key)) /\ seen \in SUBSET RowsOf(l, key)
        BY RowsOfFinite
      <3>2. QED
        BY <3>1, FS_Subset
    <2>4. Cardinality(seen) # 0
      BY <2>2, <2>3, FS_EmptySet
    <2>5. {j \in RowsOf(r, key) : r[j].output = o} = {}
      BY <1>2 DEF RowsOf, KeysOf
    <2>6. OutputCount(l, key, o) # 0 /\ OutputCount(r, key, o) = 0
      BY <2>4, <2>5, FS_EmptySet DEF OutputCount
    <2>7. QED
      BY <2>2, <2>6
  <1>3. QED
    BY <1>1, <1>2 DEF Keys, OutputsDiffer
-----------------------------------------------------------------------------
(***************************************************************************)
(* What the traces and the options say does not change.                    *)
(***************************************************************************)
LEMMA Frame ==
  ASSUME UNCHANGED inputVars
  PROVE  /\ Keys' = Keys
         /\ \A key : DifferingAt(key)' = DifferingAt(key)
         /\ \A key : OutputsDiffer(key)' <=> OutputsDiffer(key)
         /\ SameTraces' <=> SameTraces
  BY DEF inputVars, Keys, KeysOf, KeptAt, Kept, KeyOf, RowsOf, Occurrence,
         NthOutput, MostRows, DifferingAt, OutputCount, OutputsDiffer,
         SameOutputs, SameTraces
-----------------------------------------------------------------------------
LEMMA TypingInit == Init => TypeOK
  BY CompareAssumption DEF Init, TypeOK, Options

Tally == [missing : Nat, mismatched : Nat]

\* Counting for a function changes its tally, lists it and lists no other.
LEMMA TallyMissing ==
  ASSUME TypeOK, NEW f \in Functions,
         by_function' = [by_function EXCEPT ![f].missing = @ + 1]
  PROVE  /\ by_function' \in [Functions -> Tally]
         /\ \A g \in Functions : Listed(g)' <=> Listed(g) \/ g = f
  <1>1. by_function \in [Functions -> Tally]
    BY DEF TypeOK, Tally
  <1> DEFINE new == [by_function[f] EXCEPT !.missing = @ + 1]
  <1>2. /\ new \in Tally
        /\ new.missing = by_function[f].missing + 1
        /\ new.mismatched = by_function[f].mismatched
    BY <1>1 DEF Tally
  <1>3. by_function' = [by_function EXCEPT ![f] = new]
    OBVIOUS
  <1> HIDE DEF new
  <1>4. by_function' \in [Functions -> Tally]
    BY <1>1, <1>2, <1>3
  <1>5. \A g \in Functions :
          /\ by_function[g].missing \in Nat
          /\ by_function[g].mismatched \in Nat
    BY <1>1 DEF Tally
  <1>6. ASSUME NEW g \in Functions
        PROVE  Listed(g)' <=> Listed(g) \/ g = f
    <2>1. by_function'[g] = IF g = f THEN new ELSE by_function[g]
      BY <1>1, <1>3
    <2>2. QED
      BY <1>2, <1>5, <2>1 DEF Listed
  <1>7. QED
    BY <1>4, <1>6

LEMMA TallyMismatched ==
  ASSUME TypeOK, NEW f \in Functions,
         by_function' = [by_function EXCEPT ![f].mismatched = @ + 1]
  PROVE  /\ by_function' \in [Functions -> Tally]
         /\ \A g \in Functions : Listed(g)' <=> Listed(g) \/ g = f
  <1>1. by_function \in [Functions -> Tally]
    BY DEF TypeOK, Tally
  <1> DEFINE new == [by_function[f] EXCEPT !.mismatched = @ + 1]
  <1>2. /\ new \in Tally
        /\ new.mismatched = by_function[f].mismatched + 1
        /\ new.missing = by_function[f].missing
    BY <1>1 DEF Tally
  <1>3. by_function' = [by_function EXCEPT ![f] = new]
    OBVIOUS
  <1> HIDE DEF new
  <1>4. by_function' \in [Functions -> Tally]
    BY <1>1, <1>2, <1>3
  <1>5. \A g \in Functions :
          /\ by_function[g].missing \in Nat
          /\ by_function[g].mismatched \in Nat
    BY <1>1 DEF Tally
  <1>6. ASSUME NEW g \in Functions
        PROVE  Listed(g)' <=> Listed(g) \/ g = f
    <2>1. by_function'[g] = IF g = f THEN new ELSE by_function[g]
      BY <1>1, <1>3
    <2>2. QED
      BY <1>2, <1>5, <2>1 DEF Listed
  <1>7. QED
    BY <1>4, <1>6

LEMMA TypingStep ==
  ASSUME TypeOK, [Next]_vars
  PROVE  TypeOK'
  <1> USE DEF TypeOK, inputVars, tallies
  <1>1. CASE ReadFails
    BY <1>1 DEF ReadFails
  <1>2. CASE ReadAndCount
    <2>1. KeysOf(left) \cup KeysOf(right) \subseteq AllKeys
      BY KeysFinite
    <2>2. QED
      BY <1>2, <2>1 DEF ReadAndCount
  <1>3. ASSUME NEW key \in AllKeys, CompareOccurrences(key)
        PROVE  TypeOK'
    <2>1. Cardinality(DifferingAt(key)) \in Nat
      BY DifferingFinite
    <2>2. options.first \in Nat
      BY DEF Options
    <2>3. PrintedAfter(Cardinality(DifferingAt(key))) \in Nat
      BY <2>1, <2>2 DEF PrintedAfter
    <2>4. QED
      BY <1>3, <2>1, <2>3 DEF CompareOccurrences
  <1>4. CASE EndOccurrences
    <2>1. KeysOf(left) \cup KeysOf(right) \subseteq AllKeys
      BY KeysFinite
    <2>2. QED
      BY <1>4, <2>1 DEF EndOccurrences
  <1>5. ASSUME NEW key \in AllKeys, ComparePairs(key)
        PROVE  TypeOK'
    <2>1. key[1] \in Functions
      BY DEF AllKeys
    <2>2. CASE MissingPair(key)
      <3>1. by_function' \in [Functions -> Tally]
        BY <2>1, <2>2, TallyMissing DEF MissingPair
      <3>2. QED
        BY <2>2, <3>1 DEF MissingPair, Tally
    <2>3. CASE MismatchedPair(key)
      <3>1. by_function' \in [Functions -> Tally]
        BY <2>1, <2>3, TallyMismatched DEF MismatchedPair
      <3>2. QED
        BY <2>3, <3>1 DEF MismatchedPair, Tally
    <2>4. CASE EqualPair(key)
      BY <2>4 DEF EqualPair
    <2>5. QED
      BY <1>5, <2>2, <2>3, <2>4 DEF ComparePairs
  <1>6. CASE EndPairs
    BY <1>6 DEF EndPairs
  <1>7. CASE UNCHANGED vars
    <2>1. /\ options' = options /\ left' = left /\ right' = right
          /\ pc' = pc /\ todo' = todo /\ differences' = differences
          /\ printed' = printed /\ missing' = missing
          /\ mismatched' = mismatched /\ by_function' = by_function
          /\ status' = status
      BY <1>7 DEF vars
    <2>2. QED
      BY <2>1
  <1>8. QED
    BY <1>1, <1>2, <1>3, <1>4, <1>5, <1>6, <1>7 DEF Next, Exited

\* Next changes no input.
LEMMA InputsStay ==
  ASSUME [Next]_vars
  PROVE  UNCHANGED inputVars
  BY DEF Next, vars, ReadFails, ReadAndCount, CompareOccurrences, ComparePairs,
         EndOccurrences, MissingPair, MismatchedPair, EqualPair, EndPairs, Exited

-----------------------------------------------------------------------------
(***************************************************************************)
(* The invariant, action by action.                                        *)
(***************************************************************************)
LEMMA InvInit == Init => CInv
  <1> SUFFICES ASSUME Init PROVE CInv
    OBVIOUS
  <1>1. TypeOK
    BY TypingInit
  <1>2. /\ pc = "read" /\ todo = {} /\ status = 0
        /\ differences = 0 /\ printed = 0 /\ missing = 0 /\ mismatched = 0
    BY DEF Init
  <1>3. Differing(OccurrencesSeen) = {} /\ Unequal(PairsSeen) = {}
    BY <1>2 DEF Differing, OccurrencesSeen, Unequal, PairsSeen
  <1>4. \A f \in Functions : ~Listed(f)
    BY DEF Init, Listed
  <1>5. DifferencesInv /\ PairsInv /\ StatusInv
    BY <1>2, <1>3, <1>4, FS_EmptySet DEF DifferencesInv, PairsInv, StatusInv
  <1>6. PrintedInv
    BY <1>1, <1>2 DEF PrintedInv, TypeOK, Options
  <1>7. QED
    BY <1>1, <1>2, <1>5, <1>6 DEF CInv

LEMMA InvReadFails ==
  ASSUME CInv, ReadFails
  PROVE  CInv'
  <1>1. TypeOK' /\ UNCHANGED inputVars
    BY TypingStep, InputsStay DEF CInv, Next
  <1>2. /\ pc = "read" /\ pc' = "done" /\ status' = 2 /\ todo' = todo
        /\ UNCHANGED tallies
    BY DEF ReadFails
  <1>3. PrintedInv'
    BY <1>1, <1>2 DEF CInv, PrintedInv, tallies, inputVars
  <1>4. QED
    BY <1>1, <1>2, <1>3, Frame DEF CInv

\* A difference keeps the traces from being the same.
LEMMA DifferentTraces ==
  ASSUME TypeOK, NEW key \in Keys, DifferingAt(key) # {}
  PROVE  ~SameTraces
  BY ComparedIsEnough, AllKeysFinite DEF SameTraces

\* Differing and Unequal, of one more key.
LEMMA OneMoreDiffering ==
  ASSUME TypeOK, NEW S \in SUBSET Keys, NEW key \in Keys
  PROVE  /\ Cardinality(Differing(S)) \in Nat
         /\ Cardinality(Differing(S \cup {key})) \in Nat
         /\ DifferingAt(key) = {} => Differing(S \cup {key}) = Differing(S)
         /\ DifferingAt(key) # {} =>
              /\ key \in Differing(S \cup {key})
              /\ Cardinality(Differing(S \cup {key}))
                   <= Cardinality(Differing(S)) + 1
  <1>1. /\ IsFiniteSet(Differing(S)) /\ Cardinality(Differing(S)) \in Nat
        /\ Cardinality(Differing(S \cup {key})) \in Nat
    <2>1. Differing(S) \in SUBSET Keys /\ Differing(S \cup {key}) \in SUBSET Keys
      BY DEF Differing
    <2>2. QED
      BY <2>1, AllKeysFinite
  <1>2. DifferingAt(key) = {} => Differing(S \cup {key}) = Differing(S)
    BY DEF Differing
  <1>3. DifferingAt(key) # {} =>
          Differing(S \cup {key}) = Differing(S) \cup {key}
    BY DEF Differing
  <1>4. Cardinality(Differing(S) \cup {key})
          = IF key \in Differing(S) THEN Cardinality(Differing(S))
            ELSE Cardinality(Differing(S)) + 1
    BY <1>1, FS_AddElement
  <1>5. Cardinality(Differing(S) \cup {key}) <= Cardinality(Differing(S)) + 1
    BY <1>1, <1>4
  <1>6. QED
    BY <1>1, <1>2, <1>3, <1>5

LEMMA OneMoreUnequal ==
  ASSUME TypeOK, NEW S \in SUBSET Keys, NEW key \in Keys \ S
  PROVE  /\ Cardinality(Unequal(S)) \in Nat
         /\ ~OutputsDiffer(key) => Unequal(S \cup {key}) = Unequal(S)
         /\ OutputsDiffer(key) =>
              /\ Unequal(S \cup {key}) = Unequal(S) \cup {key}
              /\ Cardinality(Unequal(S \cup {key}))
                   = Cardinality(Unequal(S)) + 1
  <1>1. IsFiniteSet(Unequal(S)) /\ Cardinality(Unequal(S)) \in Nat
    <2>1. Unequal(S) \in SUBSET Keys
      BY DEF Unequal
    <2>2. QED
      BY <2>1, AllKeysFinite
  <1>2. ~OutputsDiffer(key) => Unequal(S \cup {key}) = Unequal(S)
    BY DEF Unequal
  <1>3. OutputsDiffer(key) => Unequal(S \cup {key}) = Unequal(S) \cup {key}
    BY DEF Unequal
  <1>4. key \notin Unequal(S)
    BY DEF Unequal
  <1>5. QED
    BY <1>1, <1>2, <1>3, <1>4, FS_AddElement

\* The state functions of the invariant see what the frame keeps.
LEMMA FrameSets ==
  ASSUME UNCHANGED inputVars, NEW S
  PROVE  Differing(S)' = Differing(S) /\ Unequal(S)' = Unequal(S)
  BY Frame DEF Differing, Unequal

LEMMA InvReadAndCount ==
  ASSUME CInv, ReadAndCount
  PROVE  CInv'
  <1>1. /\ TypeOK /\ TypeOK' /\ UNCHANGED inputVars
    BY TypingStep, InputsStay DEF CInv, Next
  <1>2. /\ pc = "read" /\ pc' = "occurrences" /\ todo' = Keys /\ status = 0
        /\ status' = IF CountsDiffer THEN 1 ELSE status
        /\ differences' = differences /\ printed' = printed
        /\ missing' = missing /\ mismatched' = mismatched
        /\ by_function' = by_function
    BY DEF CInv, ReadAndCount, Keys, tallies
  <1>3. Keys' = Keys /\ (SameTraces' <=> SameTraces)
    BY <1>1, Frame
  <1>4. /\ OccurrencesSeen = {} /\ PairsSeen = {}
        /\ OccurrencesSeen' = {} /\ PairsSeen' = {}
    BY <1>2, <1>3 DEF OccurrencesSeen, PairsSeen
  <1>5. /\ Differing(OccurrencesSeen)' = Differing(OccurrencesSeen)
        /\ Unequal(PairsSeen)' = Unequal(PairsSeen)
    BY <1>4 DEF Differing, Unequal
  <1>6. DifferencesInv'
    BY <1>2, <1>5 DEF CInv, DifferencesInv
  <1>7. PairsInv'
    BY <1>2, <1>5 DEF CInv, PairsInv, Listed
  <1>8. StatusInv'
    BY <1>1, <1>2, <1>3, CountsAgree DEF StatusInv
  <1>9. PrintedInv'
    BY <1>1, <1>2 DEF CInv, PrintedInv, inputVars
  <1>10. QED
    BY <1>1, <1>2, <1>3, <1>6, <1>7, <1>8, <1>9 DEF CInv

LEMMA InvCompareOccurrences ==
  ASSUME CInv, NEW key \in AllKeys, CompareOccurrences(key)
  PROVE  CInv'
  <1> DEFINE new == Cardinality(DifferingAt(key))
             S == Keys \ todo
  <1>1. /\ TypeOK /\ TypeOK' /\ UNCHANGED inputVars
    BY TypingStep, InputsStay DEF CInv, Next
  <1>2. /\ pc = "occurrences" /\ pc' = pc
        /\ key \in todo /\ todo' = todo \ {key} /\ status' = status
        /\ differences' = differences + new
        /\ printed' = PrintedAfter(new)
        /\ missing' = missing /\ mismatched' = mismatched
        /\ by_function' = by_function
    BY DEF CompareOccurrences
  <1>3. Keys' = Keys /\ (SameTraces' <=> SameTraces)
    BY <1>1, Frame
  <1>4. key \in Keys /\ todo' \subseteq Keys' /\ status # 2
    BY <1>2, <1>3 DEF CInv
  <1>5. new \in Nat /\ (new = 0 <=> DifferingAt(key) = {})
    BY <1>1, DifferingFinite
  <1>6. /\ OccurrencesSeen = S /\ OccurrencesSeen' = S \cup {key}
        /\ PairsSeen = {} /\ PairsSeen' = {}
    BY <1>2, <1>3, <1>4 DEF OccurrencesSeen, PairsSeen
  <1>7. Differing(OccurrencesSeen)' = Differing(S \cup {key})
    BY <1>1, <1>6, FrameSets
  <1>8. DifferencesInv'
    <2>1. /\ Cardinality(Differing(S)) <= differences
          /\ differences > 0 => Differing(S) # {}
      BY <1>4, <1>6 DEF CInv, DifferencesInv
    <2>2. differences \in Nat
      BY <1>1 DEF TypeOK
    <2> HIDE DEF new
    <2>3. CASE DifferingAt(key) = {}
      <3>1. Differing(S \cup {key}) = Differing(S)
        BY <1>1, <1>4, <2>3, OneMoreDiffering
      <3>2. QED
        BY <1>2, <1>5, <1>7, <2>1, <2>2, <2>3, <3>1 DEF DifferencesInv
    <2>4. CASE DifferingAt(key) # {}
      <3>1. /\ key \in Differing(S \cup {key})
            /\ Cardinality(Differing(S \cup {key}))
                 <= Cardinality(Differing(S)) + 1
            /\ Cardinality(Differing(S)) \in Nat
            /\ Cardinality(Differing(S \cup {key})) \in Nat
        BY <1>1, <1>4, <2>4, OneMoreDiffering
      <3>2. Cardinality(Differing(S \cup {key})) <= differences + new
        BY <1>5, <2>1, <2>2, <2>4, <3>1
      <3>3. QED
        BY <1>2, <1>7, <3>1, <3>2 DEF DifferencesInv
    <2>5. QED
      BY <2>3, <2>4
  <1>9. PairsInv'
    <2>1. Unequal(PairsSeen)' = Unequal(PairsSeen)
      BY <1>6 DEF Unequal
    <2>2. QED
      BY <1>2, <1>4, <2>1 DEF CInv, PairsInv, Listed
  <1>10. StatusInv'
    BY <1>2, <1>3, <1>4 DEF CInv, StatusInv
  <1>11. PrintedInv'
    <2>1. options' = options
      BY <1>1 DEF inputVars
    <2>2. options.first \in Nat /\ printed \in Nat /\ differences \in Nat
      BY <1>1 DEF TypeOK, Options
    <2>3. PrintedInv
      BY DEF CInv
    <2> HIDE DEF new
    <2>4. QED
      BY <1>2, <1>5, <2>1, <2>2, <2>3 DEF PrintedInv, PrintedAfter
  <1>12. QED
    BY <1>1, <1>2, <1>3, <1>4, <1>8, <1>9, <1>10, <1>11 DEF CInv

LEMMA InvEndOccurrences ==
  ASSUME CInv, EndOccurrences
  PROVE  CInv'
  <1>1. /\ TypeOK /\ TypeOK' /\ UNCHANGED inputVars
    BY TypingStep, InputsStay DEF CInv, Next
  <1>2. /\ pc = "occurrences" /\ pc' = "pairs" /\ todo = {} /\ todo' = Keys
        /\ status' = IF differences # 0 THEN 1 ELSE status
        /\ differences' = differences /\ printed' = printed
        /\ missing' = missing /\ mismatched' = mismatched
        /\ by_function' = by_function
    BY DEF EndOccurrences, Keys, tallies
  <1>3. Keys' = Keys /\ (SameTraces' <=> SameTraces)
    BY <1>1, Frame
  <1>4. /\ OccurrencesSeen = Keys /\ OccurrencesSeen' = Keys
        /\ PairsSeen = {} /\ PairsSeen' = {}
    BY <1>2, <1>3 DEF OccurrencesSeen, PairsSeen
  <1>5. /\ Differing(OccurrencesSeen)' = Differing(OccurrencesSeen)
        /\ Unequal(PairsSeen)' = Unequal(PairsSeen)
    BY <1>1, <1>4, FrameSets
  <1>6. status # 2 /\ DifferencesInv /\ PairsInv /\ StatusInv
    BY <1>2 DEF CInv
  <1>7. DifferencesInv'
    BY <1>2, <1>5, <1>6 DEF DifferencesInv
  <1>8. PairsInv'
    BY <1>2, <1>5, <1>6 DEF PairsInv, Listed
  <1>9. StatusInv'
    <2>1. ASSUME differences # 0 PROVE ~SameTraces
      <3>1. Differing(Keys) # {}
        BY <1>1, <1>4, <1>6, <2>1 DEF DifferencesInv, TypeOK
      <3>2. PICK key \in Keys : DifferingAt(key) # {}
        BY <3>1 DEF Differing
      <3>3. QED
        BY <1>1, <3>2, DifferentTraces
    <2>2. QED
      BY <1>2, <1>3, <1>6, <2>1 DEF StatusInv
  <1>10. PrintedInv'
    BY <1>1, <1>2 DEF CInv, PrintedInv, inputVars
  <1>11. QED
    BY <1>1, <1>2, <1>3, <1>6, <1>7, <1>8, <1>9, <1>10 DEF CInv

\* compare_pairs counts a key, or not.
LEMMA InvComparePairs ==
  ASSUME CInv, NEW key \in AllKeys, ComparePairs(key)
  PROVE  CInv'
  <1> DEFINE S == Keys \ todo
  <1>1. /\ TypeOK /\ TypeOK' /\ UNCHANGED inputVars
    BY TypingStep, InputsStay DEF CInv, Next
  <1>2. /\ pc = "pairs" /\ pc' = pc
        /\ key \in todo /\ todo' = todo \ {key} /\ status' = status
        /\ differences' = differences /\ printed' = printed
    BY DEF ComparePairs, MissingPair, MismatchedPair, EqualPair, tallies
  <1>3. Keys' = Keys /\ (SameTraces' <=> SameTraces)
    BY <1>1, Frame
  <1>4. key \in Keys \ S /\ todo' \subseteq Keys' /\ status # 2
    BY <1>2, <1>3 DEF CInv
  <1>5. /\ OccurrencesSeen = Keys /\ OccurrencesSeen' = Keys
        /\ PairsSeen = S /\ PairsSeen' = S \cup {key}
    BY <1>2, <1>3, <1>4 DEF OccurrencesSeen, PairsSeen
  <1>6. /\ Differing(OccurrencesSeen)' = Differing(OccurrencesSeen)
        /\ Unequal(PairsSeen)' = Unequal(S \cup {key})
    BY <1>1, <1>5, FrameSets
  <1>7. DifferencesInv /\ PairsInv /\ StatusInv
    BY <1>4 DEF CInv
  <1>8. DifferencesInv'
    BY <1>2, <1>6, <1>7 DEF DifferencesInv
  <1>9. PairsInv'
    <2>1. /\ missing \in Nat /\ mismatched \in Nat /\ key[1] \in Functions
          /\ Cardinality(Unequal(S)) \in Nat
      BY <1>1, <1>4, OneMoreUnequal DEF TypeOK, AllKeys
    <2>2. CASE OutputsDiffer(key)
      <3>1. /\ Unequal(S \cup {key}) = Unequal(S) \cup {key}
            /\ Cardinality(Unequal(S \cup {key}))
                 = Cardinality(Unequal(S)) + 1
        BY <1>1, <1>4, <2>2, OneMoreUnequal
      <3>2. /\ missing' + mismatched' = missing + mismatched + 1
            /\ \A f \in Functions : Listed(f)' <=> Listed(f) \/ f = key[1]
        <4>1. CASE MissingPair(key)
          <5>1. missing' + mismatched' = missing + mismatched + 1
            BY <2>1, <4>1 DEF MissingPair
          <5>2. \A f \in Functions : Listed(f)' <=> Listed(f) \/ f = key[1]
            BY <1>1, <2>1, <4>1, TallyMissing DEF MissingPair
          <5>3. QED
            BY <5>1, <5>2
        <4>2. CASE MismatchedPair(key)
          <5>1. missing' + mismatched' = missing + mismatched + 1
            BY <2>1, <4>2 DEF MismatchedPair
          <5>2. \A f \in Functions : Listed(f)' <=> Listed(f) \/ f = key[1]
            BY <1>1, <2>1, <4>2, TallyMismatched DEF MismatchedPair
          <5>3. QED
            BY <5>1, <5>2
        <4>3. QED
          BY <2>2, <4>1, <4>2 DEF ComparePairs, EqualPair
      <3>3. missing' + mismatched' = Cardinality(Unequal(PairsSeen)')
        BY <1>5, <1>6, <1>7, <2>1, <3>1, <3>2 DEF PairsInv
      <3>4. \A f \in Functions :
              Listed(f)' <=> \E k \in Unequal(S \cup {key}) : k[1] = f
        BY <1>5, <1>7, <3>1, <3>2 DEF PairsInv
      <3>5. QED
        BY <1>6, <3>3, <3>4 DEF PairsInv
    <2>3. CASE ~OutputsDiffer(key)
      <3>1. EqualPair(key)
        BY <1>1, <1>4, <2>3, MissingDiffers
           DEF ComparePairs, MissingPair, MismatchedPair
      <3>2. /\ missing' = missing /\ mismatched' = mismatched
            /\ by_function' = by_function
        BY <3>1 DEF EqualPair, tallies
      <3>3. Unequal(S \cup {key}) = Unequal(S)
        BY <1>1, <1>4, <2>3, OneMoreUnequal
      <3>4. QED
        BY <1>5, <1>6, <1>7, <3>2, <3>3 DEF PairsInv, Listed
    <2>4. QED
      BY <2>2, <2>3
  <1>10. StatusInv'
    BY <1>2, <1>3, <1>7 DEF StatusInv
  <1>11. PrintedInv'
    BY <1>1, <1>2 DEF CInv, PrintedInv, inputVars
  <1>12. QED
    BY <1>1, <1>2, <1>3, <1>4, <1>8, <1>9, <1>10, <1>11 DEF CInv

LEMMA InvEndPairs ==
  ASSUME CInv, EndPairs
  PROVE  CInv'
  <1>1. /\ TypeOK /\ TypeOK' /\ UNCHANGED inputVars
    BY TypingStep, InputsStay DEF CInv, Next
  <1>2. /\ pc = "pairs" /\ pc' = "done" /\ todo = {} /\ todo' = {}
        /\ status' = IF missing + mismatched # 0 THEN 1 ELSE status
        /\ differences' = differences /\ printed' = printed
        /\ missing' = missing /\ mismatched' = mismatched
        /\ by_function' = by_function
    BY DEF EndPairs, tallies
  <1>3. Keys' = Keys /\ (SameTraces' <=> SameTraces)
    BY <1>1, Frame
  <1>4. /\ OccurrencesSeen = Keys /\ OccurrencesSeen' = Keys
        /\ PairsSeen = Keys /\ PairsSeen' = Keys
    BY <1>2, <1>3 DEF OccurrencesSeen, PairsSeen
  <1>5. /\ Differing(OccurrencesSeen)' = Differing(OccurrencesSeen)
        /\ Unequal(PairsSeen)' = Unequal(PairsSeen)
    BY <1>1, <1>4, FrameSets
  <1>6. status # 2 /\ DifferencesInv /\ PairsInv /\ StatusInv
    BY <1>2 DEF CInv
  <1>7. DifferencesInv'
    BY <1>2, <1>5, <1>6 DEF DifferencesInv
  <1>8. PairsInv'
    BY <1>2, <1>5, <1>6 DEF PairsInv, Listed
  <1>9. StatusInv'
    <2>1. ASSUME missing + mismatched # 0 PROVE ~SameTraces
      <3>1. Unequal(Keys) # {}
        BY <1>4, <1>6, <2>1, FS_EmptySet DEF PairsInv
      <3>2. PICK key \in Keys : OutputsDiffer(key)
        BY <3>1 DEF Unequal
      <3>3. DifferingAt(key) # {}
        BY <1>1, <3>2, OutputsAgree
      <3>4. QED
        BY <1>1, <3>3, DifferentTraces
    <2>2. QED
      BY <1>2, <1>3, <1>6, <2>1 DEF StatusInv
  <1>10. PrintedInv'
    BY <1>1, <1>2 DEF CInv, PrintedInv, inputVars
  <1>11. QED
    BY <1>1, <1>2, <1>3, <1>6, <1>7, <1>8, <1>9, <1>10 DEF CInv

LEMMA InvStutter ==
  ASSUME CInv, UNCHANGED vars
  PROVE  CInv'
  <1>1. /\ TypeOK' /\ UNCHANGED inputVars
    BY TypingStep, InputsStay DEF CInv
  <1>2. /\ pc' = pc /\ todo' = todo /\ differences' = differences
        /\ printed' = printed /\ missing' = missing
        /\ mismatched' = mismatched /\ by_function' = by_function
        /\ status' = status
    BY DEF vars, tallies
  <1>3. Keys' = Keys /\ (SameTraces' <=> SameTraces)
    BY <1>1, Frame
  <1>4. OccurrencesSeen' = OccurrencesSeen /\ PairsSeen' = PairsSeen
    BY <1>2, <1>3 DEF OccurrencesSeen, PairsSeen
  <1>5. /\ Differing(OccurrencesSeen)' = Differing(OccurrencesSeen)
        /\ Unequal(PairsSeen)' = Unequal(PairsSeen)
    BY <1>1, <1>4, FrameSets
  <1>6. status # 2 => DifferencesInv' /\ PairsInv' /\ StatusInv'
    BY <1>2, <1>3, <1>5
       DEF CInv, DifferencesInv, PairsInv, StatusInv, Listed
  <1>7. PrintedInv'
    BY <1>1, <1>2 DEF CInv, PrintedInv, inputVars
  <1>8. QED
    BY <1>1, <1>2, <1>3, <1>6, <1>7 DEF CInv

LEMMA InvStep ==
  ASSUME CInv, [Next]_vars
  PROVE  CInv'
  <1>1. CASE UNCHANGED vars
    BY <1>1, InvStutter
  <1>2. CASE Next
    <2>1. ASSUME NEW key \in AllKeys,
                 CompareOccurrences(key) \/ ComparePairs(key)
          PROVE  CInv'
      BY <2>1, InvCompareOccurrences, InvComparePairs
    <2>2. CASE Exited
      BY <2>2, InvStutter DEF Exited
    <2>3. QED
      BY <1>2, <2>1, <2>2, InvReadFails, InvReadAndCount, InvEndOccurrences,
         InvEndPairs DEF Next
  <1>3. QED
    BY <1>1, <1>2

(***************************************************************************)
(* CInv is an invariant of the comparator: what it has counted and decided *)
(* is right for the keys it has come to, in whatever order it comes to     *)
(* them.                                                                   *)
(***************************************************************************)
THEOREM Invariance == Spec => []CInv
  BY InvInit, InvStep, PTL DEF Spec

\* The comparator keeps its types, for any traces and options.
THEOREM CompareTyping == Spec => []TypeOK
  <1>1. CInv => TypeOK
    BY DEF CInv
  <1>2. QED
    BY <1>1, Invariance, PTL

-----------------------------------------------------------------------------
LEMMA ReportingNow == CInv => DivergenceReported
  <1> SUFFICES ASSUME CInv, pc = "done", ~SameTraces, status = 0
               PROVE  FALSE
    BY DEF DivergenceReported
  <1>1. TypeOK /\ DifferencesInv /\ StatusInv /\ OccurrencesSeen = Keys
    BY DEF CInv, OccurrencesSeen
  <1>2. PICK key \in AllKeys : DifferingAt(key) # {}
    BY <1>1, ComparedIsEnough DEF SameTraces
  <1>3. key \in Differing(Keys)
    BY <1>1, <1>2, DifferingIsKey DEF Differing
  <1>4. Cardinality(Differing(Keys)) # 0 /\ Cardinality(Differing(Keys)) \in Nat
    <2>1. Differing(Keys) \in SUBSET Keys
      BY DEF Differing
    <2>2. QED
      BY <1>1, <1>3, <2>1, AllKeysFinite, FS_EmptySet
  <1>5. differences # 0
    BY <1>1, <1>4 DEF DifferencesInv, TypeOK
  <1>6. QED
    BY <1>1, <1>5 DEF StatusInv

(***************************************************************************)
(* Nothing goes unreported: main's exit status                             *)
(* (src/src/bin/tracehash-compare.rs:62) is not 0 when the traces differ   *)
(* in the outputs of some input.                                           *)
(***************************************************************************)
THEOREM Reporting == Spec => []DivergenceReported
  BY Invariance, ReportingNow, PTL

LEMMA NoFalseAlarmNow == CInv => EqualTracesPass
  BY DEF CInv, StatusInv, EqualTracesPass, Compared, TypeOK

(***************************************************************************)
(* No false alarm: compare_counts and compare_pairs                        *)
(* (src/src/bin/tracehash-compare.rs:36, :45) find nothing, and the exit   *)
(* status is 0, where the occurrences agree.                               *)
(***************************************************************************)
THEOREM NoFalseAlarm == Spec => []EqualTracesPass
  BY Invariance, NoFalseAlarmNow, PTL

LEMMA ListingNow == CInv => ListedFunctionsDiffer
  <1> SUFFICES ASSUME CInv, Compared, NEW f \in Functions
               PROVE  Listed(f) <=> \E input \in InputHashes :
                                      OutputsDiffer(<<f, input>>)
    BY DEF ListedFunctionsDiffer
  <1>1. TypeOK /\ PairsInv /\ PairsSeen = Keys
    BY DEF CInv, Compared, PairsSeen
  <1>2. Keys \subseteq AllKeys
    BY <1>1, AllKeysFinite
  <1>3. \A key : OutputsDiffer(key) => key \in Keys
    BY <1>1, OutputsAgree, DifferingIsKey
  <1>4. Listed(f) <=> \E key \in Keys : OutputsDiffer(key) /\ key[1] = f
    BY <1>1 DEF PairsInv, Unequal
  <1>5. ASSUME NEW key \in Keys, OutputsDiffer(key), key[1] = f
        PROVE  \E input \in InputHashes : OutputsDiffer(<<f, input>>)
    <2>1. key[2] \in InputHashes /\ key = <<f, key[2]>>
      BY <1>2, <1>5 DEF AllKeys
    <2>2. OutputsDiffer(<<f, key[2]>>)
      BY <1>5, <2>1
    <2>3. QED
      BY <2>1, <2>2
  <1>6. ASSUME NEW input \in InputHashes, OutputsDiffer(<<f, input>>)
        PROVE  \E key \in Keys : OutputsDiffer(key) /\ key[1] = f
    <2>1. <<f, input>> \in Keys
      BY <1>3, <1>6
    <2>2. <<f, input>>[1] = f
      OBVIOUS
    <2>3. QED
      BY <1>6, <2>1, <2>2
  <1>7. QED
    BY <1>4, <1>5, <1>6

(***************************************************************************)
(* The list of pair differences (src/src/bin/tracehash-compare.rs:401) has *)
(* the functions with unequal outputs for some input, and no others.       *)
(***************************************************************************)
THEOREM Listing == Spec => []ListedFunctionsDiffer
  BY Invariance, ListingNow, PTL

LEMMA PairingNow == CInv => OccurrencesExact
  <1>1. CInv => left \in Seq(Line) /\ right \in Seq(Line)
    BY DEF CInv, TypeOK
  <1>2. QED
    BY <1>1, RowsAreListed DEF OccurrencesExact

(***************************************************************************)
(* Numbering the rows of a key pairs them as the lists that occurrence_map *)
(* (src/src/bin/tracehash-compare.rs:311) builds do, for any trace.        *)
(***************************************************************************)
THEOREM Pairing == Spec => []OccurrencesExact
  BY Invariance, PairingNow, PTL

LEMMA SummaryNow == CInv => SummaryConsistent
  <1> SUFFICES ASSUME CInv PROVE SummaryConsistent
    OBVIOUS
  <1>1. ASSUME Compared PROVE missing + mismatched <= differences
    <2>1. /\ TypeOK /\ PairsInv /\ DifferencesInv
          /\ PairsSeen = Keys /\ OccurrencesSeen = Keys
      BY <1>1 DEF CInv, Compared, PairsSeen, OccurrencesSeen
    <2>2. Unequal(Keys) \subseteq Differing(Keys)
      BY <2>1, OutputsAgree DEF Unequal, Differing
    <2>3. IsFiniteSet(Differing(Keys))
      <3>1. Differing(Keys) \in SUBSET Keys
        BY DEF Differing
      <3>2. QED
        BY <2>1, <3>1, AllKeysFinite
    <2>4. /\ Cardinality(Unequal(Keys)) <= Cardinality(Differing(Keys))
          /\ Cardinality(Unequal(Keys)) \in Nat
          /\ Cardinality(Differing(Keys)) \in Nat
      BY <2>2, <2>3, FS_Subset, FS_CardinalityType
    <2>5. differences \in Nat
      BY <2>1 DEF TypeOK
    <2>6. QED
      BY <2>1, <2>4, <2>5 DEF PairsInv, DifferencesInv
  <1>2. QED
    BY <1>1 DEF CInv, PrintedInv, SummaryConsistent

(***************************************************************************)
(* The summary is consistent: compare_occurrences has counted what         *)
(* compare_pairs counts, and `differences - printed'                       *)
(* (src/src/bin/tracehash-compare.rs:303) does not underflow.              *)
(***************************************************************************)
THEOREM SummaryConsistency == Spec => []SummaryConsistent
  BY Invariance, SummaryNow, PTL
-----------------------------------------------------------------------------
(***************************************************************************)
(* From here on the traces compared are those of two runs.                 *)
(***************************************************************************)
\* There is an output for each call of the program.
Answering(impl) ==
  /\ impl \in [Threads -> Seq(OutputHashes)]
  /\ \A t \in Threads : Len(program[t]) <= Len(impl[t])

LEMMA ProgramType ==
  ASSUME RunsTypeOK
  PROVE  /\ program \in [Threads -> Seq(AllKeys)]
         /\ Answering(impl_left) /\ Answering(impl_right)
         /\ done_left \in [Threads -> Nat] /\ done_right \in [Threads -> Nat]
         /\ \A t \in Threads : /\ done_left[t] <= Len(program[t])
                               /\ done_right[t] <= Len(program[t])
         /\ left \in Seq(Line) /\ right \in Seq(Line)
  <1>1. NoProgram \in [Threads -> Seq(AllKeys)]
    BY DEF NoProgram
  <1>2. program \in [Threads -> Seq(AllKeys)]
    BY <1>1, TwoRunsAssumption DEF RunsTypeOK
  <1>3. ASSUME NEW impl \in Implementations
        PROVE  Answering(impl)
    <2>1. impl \in [Threads -> Seq(OutputHashes)]
      BY TwoRunsAssumption
    <2>2. ASSUME NEW t \in Threads
          PROVE  Len(program[t]) <= Len(impl[t])
      <3>1. CASE program \in Programs
        BY <3>1, TwoRunsAssumption
      <3>2. CASE program = NoProgram
        <4>1. Len(impl[t]) \in Nat
          BY <2>1
        <4>2. Len(program[t]) = 0
          BY <3>2 DEF NoProgram
        <4>3. QED
          BY <4>1, <4>2
      <3>3. QED
        BY <3>1, <3>2 DEF RunsTypeOK
    <2>3. QED
      BY <2>1, <2>2 DEF Answering
  <1>4. QED
    BY <1>2, <1>3 DEF RunsTypeOK, TypeOK

\* The calls finished, one by one.
LEMMA DoneIs ==
  ASSUME NEW finished \in [Threads -> Nat]
  PROVE  /\ \A ti \in CallsDone(finished) :
              /\ ti[1] \in Threads /\ ti[2] \in 1 .. finished[ti[1]]
              /\ ti = <<ti[1], ti[2]>>
         /\ \A t \in Threads : \A i \in 1 .. finished[t] :
              <<t, i>> \in CallsDone(finished)
  BY DEF CallsDone

LEMMA RowsSayingFinite ==
  ASSUME NEW trace \in Seq(Line), NEW key, NEW o
  PROVE  /\ IsFiniteSet(RowsSaying(trace, key, o))
         /\ Cardinality(RowsSaying(trace, key, o)) \in Nat
  <1>1. RowsSaying(trace, key, o) \subseteq 1 .. Len(trace)
    BY DEF RowsSaying
  <1>2. IsFiniteSet(1 .. Len(trace))
    BY FS_Interval
  <1>3. QED
    BY <1>1, <1>2, FS_Subset, FS_CardinalityType

LEMMA CallsWithFinite ==
  ASSUME NEW impl, NEW finished, NEW key, NEW o,
         IsFiniteSet(CallsDone(finished))
  PROVE  /\ IsFiniteSet(CallsWith(impl, finished, key, o))
         /\ Cardinality(CallsWith(impl, finished, key, o)) \in Nat
  <1>1. CallsWith(impl, finished, key, o) \subseteq CallsDone(finished)
    BY DEF CallsWith
  <1>2. QED
    BY <1>1, FS_Subset, FS_CardinalityType
-----------------------------------------------------------------------------
(***************************************************************************)
(* A recording: a thread finishes its next call and writes its row.        *)
(***************************************************************************)
LEMMA RowOfType ==
  ASSUME RunsTypeOK, NEW impl, Answering(impl),
         NEW finished \in [Threads -> Nat], NEW t \in Threads,
         finished[t] < Len(program[t])
  PROVE  /\ NextRow(impl, finished, t) \in Line
         /\ NextRow(impl, finished, t).whole = TRUE
         /\ KeyOf(NextRow(impl, finished, t)) = program[t][finished[t] + 1]
         /\ NextRow(impl, finished, t).output = impl[t][finished[t] + 1]
  <1> DEFINE key == program[t][finished[t] + 1]
             out == impl[t][finished[t] + 1]
  <1>1. program[t] \in Seq(AllKeys) /\ finished[t] \in Nat
    BY ProgramType
  <1>2. key \in AllKeys
    BY <1>1
  <1>3. NextRow(impl, finished, t)
          = [fn |-> key[1], input |-> key[2], output |-> out, whole |-> TRUE]
    BY DEF NextRow
  <1>4. out \in OutputHashes
    <2>1. impl[t] \in Seq(OutputHashes) /\ Len(program[t]) <= Len(impl[t])
      BY DEF Answering
    <2>2. Len(program[t]) \in Nat /\ Len(impl[t]) \in Nat
      BY <1>1, <2>1
    <2>3. finished[t] + 1 \in 1 .. Len(impl[t])
      BY <1>1, <2>1, <2>2
    <2>4. QED
      BY <2>1, <2>3
  <1> HIDE DEF key, out
  <1>5. /\ key[1] \in Functions /\ key[2] \in InputHashes
        /\ key = <<key[1], key[2]>>
    BY <1>2 DEF AllKeys
  <1>6. QED
    BY <1>3, <1>4, <1>5 DEF Line, KeyOf, key, out

LEMMA OneMoreCall ==
  ASSUME NEW finished \in [Threads -> Nat], NEW t \in Threads
  PROVE  LET n == finished[t] + 1
         IN  /\ CallsDone([finished EXCEPT ![t] = @ + 1])
                  = CallsDone(finished) \cup {<<t, n>>}
             /\ <<t, n>> \notin CallsDone(finished)
  <1> DEFINE n == finished[t] + 1
             then == [finished EXCEPT ![t] = @ + 1]
  <1>1. then \in [Threads -> Nat] /\ n \in Nat
    OBVIOUS
  <1>2. \A u \in Threads : then[u] = IF u = t THEN n ELSE finished[u]
    OBVIOUS
  <1>3. 1 .. n = 1 .. finished[t] \cup {n} /\ n \notin 1 .. finished[t]
    BY <1>1
  <1> HIDE DEF then, n
  <1>4. ASSUME NEW ti \in CallsDone(then)
        PROVE  ti \in CallsDone(finished) \cup {<<t, n>>}
    <2>1. /\ ti[1] \in Threads /\ ti[2] \in 1 .. then[ti[1]]
          /\ ti = <<ti[1], ti[2]>>
      BY <1>1, DoneIs
    <2>2. ti[2] \in 1 .. finished[ti[1]] \/ (ti[1] = t /\ ti[2] = n)
      BY <1>2, <1>3, <2>1
    <2>3. QED
      BY <2>1, <2>2, DoneIs
  <1>5. ASSUME NEW ti \in CallsDone(finished)
        PROVE  ti \in CallsDone(then)
    <2>1. /\ ti[1] \in Threads /\ ti[2] \in 1 .. finished[ti[1]]
          /\ ti = <<ti[1], ti[2]>>
      BY DoneIs
    <2>2. ti[2] \in 1 .. then[ti[1]]
      BY <1>2, <1>3, <2>1
    <2>3. QED
      BY <1>1, <2>1, <2>2, DoneIs
  <1>6. <<t, n>> \in CallsDone(then)
    BY <1>1, <1>2, <1>3, DoneIs
  <1>7. <<t, n>> \notin CallsDone(finished)
    <2>1. <<t, n>>[1] = t /\ <<t, n>>[2] = n
      OBVIOUS
    <2>2. QED
      BY <1>3, <2>1, DoneIs
  <1>8. QED
    BY <1>4, <1>5, <1>6, <1>7 DEF then, n

\* The calls and the lines with a key: finite sets, and how they grow.
LEMMA UpToFinite ==
  ASSUME NEW t \in Threads, program[t] \in Seq(AllKeys),
         NEW trace \in Seq(Line), NEW key, NEW n
  PROVE  /\ IsFiniteSet(CallsUpTo(t, key, n))
         /\ IsFiniteSet(LinesUpTo(trace, key, n))
         /\ Cardinality(CallsUpTo(t, key, n)) \in Nat
         /\ Cardinality(LinesUpTo(trace, key, n)) \in Nat
  <1>1. /\ CallsUpTo(t, key, n) \subseteq 1 .. Len(program[t])
        /\ LinesUpTo(trace, key, n) \subseteq 1 .. Len(trace)
    BY DEF CallsUpTo, CallsOf, LinesUpTo
  <1>2. Len(program[t]) \in Nat /\ Len(trace) \in Nat
    OBVIOUS
  <1>3. IsFiniteSet(1 .. Len(program[t])) /\ IsFiniteSet(1 .. Len(trace))
    BY <1>2, FS_Interval
  <1>4. QED
    BY <1>1, <1>3, FS_Subset, FS_CardinalityType

\* A row that is written is of the next call of the only thread with its key.
LEMMA OrderWritten ==
  ASSUME RunsTypeOK, NEW impl, NEW u \in Threads,
         NEW finished \in [Threads -> Nat], finished[u] < Len(program[u]),
         NEW then, then[u] = finished[u] + 1,
         \A v \in Threads : v # u => then[v] = finished[v],
         NEW trace \in Seq(Line), OrderInv(trace, impl, finished),
         NEW after, Len(after) = Len(trace) + 1,
         DOMAIN after = DOMAIN trace \cup {Len(after)},
         \A i \in DOMAIN trace : after[i] = trace[i],
         KeyOf(after[Len(after)]) = program[u][then[u]],
         after[Len(after)].output = impl[u][then[u]]
  PROVE  OrderInv(after, impl, then)
  <1> SUFFICES ASSUME NEW key \in AllKeys, NEW t \in Threads, OnlyOf(t, key)
               PROVE  /\ Cardinality(LinesUpTo(after, key, Len(after)))
                           = Cardinality(CallsUpTo(t, key, then[t]))
                      /\ \A i \in DOMAIN after : KeyOf(after[i]) = key =>
                           \E c \in CallsUpTo(t, key, then[t]) :
                             /\ impl[t][c] = after[i].output
                             /\ Cardinality(CallsUpTo(t, key, c))
                                  = Cardinality(LinesUpTo(after, key, i))
    BY Zenon DEF OrderInv
  <1> DEFINE m    == finished[u]
             last == Len(after)
             row  == after[last]
  <1>1. /\ m \in Nat /\ m < Len(program[u]) /\ then[u] = m + 1
        /\ last = Len(trace) + 1 /\ DOMAIN after = DOMAIN trace \cup {last}
        /\ after[last] = row /\ \A i \in DOMAIN trace : after[i] = trace[i]
        /\ KeyOf(row) = program[u][m + 1] /\ row.output = impl[u][m + 1]
    OBVIOUS
  <1>2. /\ program[t] \in Seq(AllKeys) /\ program[u] \in Seq(AllKeys)
        /\ (t # u => then[t] = finished[t]) /\ (t = u => finished[t] = m)
    BY ProgramType
  <1>3. /\ Cardinality(LinesUpTo(trace, key, Len(trace)))
             = Cardinality(CallsUpTo(t, key, finished[t]))
        /\ \A i \in DOMAIN trace : KeyOf(trace[i]) = key =>
             \E c \in CallsUpTo(t, key, finished[t]) :
               /\ impl[t][c] = trace[i].output
               /\ Cardinality(CallsUpTo(t, key, c))
                    = Cardinality(LinesUpTo(trace, key, i))
    BY Zenon DEF OrderInv
  <1> HIDE DEF m, last, row
  <1>4. /\ \A i \in DOMAIN trace :
             LinesUpTo(after, key, i) = LinesUpTo(trace, key, i)
        /\ last \notin LinesUpTo(trace, key, Len(trace))
        /\ KeyOf(row) = key =>
             LinesUpTo(after, key, last)
               = LinesUpTo(trace, key, Len(trace)) \cup {last}
        /\ KeyOf(row) # key =>
             LinesUpTo(after, key, last) = LinesUpTo(trace, key, Len(trace))
    <2>1. /\ Len(trace) \in Nat /\ DOMAIN trace = 1 .. Len(trace)
          /\ last = Len(trace) + 1
      BY <1>1
    <2>2. \A i \in DOMAIN trace : /\ ~(last <= i) /\ i <= last /\ i <= Len(trace)
                                  /\ i \in Nat
      BY <2>1
    <2>3. last <= last /\ last \notin DOMAIN trace
      BY <2>1
    <2>4. \A i \in DOMAIN trace : LinesUpTo(after, key, i) = LinesUpTo(trace, key, i)
      BY <1>1, <2>2 DEF LinesUpTo
    <2>5. last \notin LinesUpTo(trace, key, Len(trace))
      BY <2>3 DEF LinesUpTo
    <2>6. LinesUpTo(trace, key, Len(trace)) = {i \in DOMAIN trace : KeyOf(trace[i]) = key}
      BY <2>2 DEF LinesUpTo
    <2>7. LinesUpTo(after, key, last) = {i \in DOMAIN after : KeyOf(after[i]) = key}
      BY <1>1, <2>2, <2>3 DEF LinesUpTo
    <2>8. /\ KeyOf(row) = key =>
               LinesUpTo(after, key, last)
                 = LinesUpTo(trace, key, Len(trace)) \cup {last}
          /\ KeyOf(row) # key =>
               LinesUpTo(after, key, last) = LinesUpTo(trace, key, Len(trace))
      BY <1>1, <2>3, <2>6, <2>7
    <2>9. QED
      BY <2>4, <2>5, <2>8
  <1>5. /\ m + 1 \notin CallsUpTo(u, key, m)
        /\ program[u][m + 1] = key =>
             CallsUpTo(u, key, m + 1) = CallsUpTo(u, key, m) \cup {m + 1}
        /\ program[u][m + 1] # key =>
             CallsUpTo(u, key, m + 1) = CallsUpTo(u, key, m)
    <2>1. Len(program[u]) \in Nat /\ DOMAIN program[u] = 1 .. Len(program[u])
      BY <1>2
    <2>2. m + 1 \in DOMAIN program[u] /\ ~(m + 1 <= m)
      BY <1>1, <2>1
    <2>3. \A c \in DOMAIN program[u] : c <= m + 1 <=> c <= m \/ c = m + 1
      BY <1>1, <2>1
    <2>4. QED
      BY <2>2, <2>3 DEF CallsUpTo, CallsOf
  <1>6. CASE KeyOf(row) = key
    <2>1. m + 1 \in CallsOf(u, key)
      <3>1. Len(program[u]) \in Nat /\ DOMAIN program[u] = 1 .. Len(program[u])
        BY <1>2
      <3>2. m + 1 \in DOMAIN program[u]
        BY <1>1, <3>1
      <3>3. program[u][m + 1] = key
        BY <1>1, <1>6
      <3>4. QED
        BY <3>2, <3>3 DEF CallsOf
    <2>2. t = u
      BY <2>1 DEF OnlyOf
    <2> DEFINE R == LinesUpTo(trace, key, Len(trace))
               C == CallsUpTo(t, key, m)
    <2>3. /\ IsFiniteSet(R) /\ IsFiniteSet(C)
          /\ Cardinality(R) = Cardinality(C)
      <3>1. finished[t] = m
        BY <1>2, <2>2
      <3>2. \A n : /\ IsFiniteSet(CallsUpTo(t, key, n))
                   /\ IsFiniteSet(LinesUpTo(trace, key, n))
        BY <1>2, UpToFinite
      <3>3. QED
        BY <1>3, <3>1, <3>2
    <2>4. /\ LinesUpTo(after, key, last) = R \cup {last} /\ last \notin R
          /\ CallsUpTo(t, key, m + 1) = C \cup {m + 1} /\ m + 1 \notin C
      <3>1. program[u][m + 1] = key
        BY <1>1, <1>6
      <3>2. CallsUpTo(t, key, m + 1) = C \cup {m + 1} /\ m + 1 \notin C
        BY <1>5, <2>2, <3>1
      <3>3. QED
        BY <1>4, <1>6, <3>2
    <2>5. Cardinality(LinesUpTo(after, key, last))
            = Cardinality(CallsUpTo(t, key, m + 1))
      <3> HIDE DEF R, C
      <3>1. /\ Cardinality(R \cup {last}) = Cardinality(R) + 1
            /\ Cardinality(C \cup {m + 1}) = Cardinality(C) + 1
        BY <2>3, <2>4, FS_AddElement
      <3>2. QED
        BY <2>3, <2>4, <3>1
    <2>6. then[t] = m + 1 /\ finished[t] = m
      BY <1>1, <1>2, <2>2
    <2>7. ASSUME NEW i \in DOMAIN after, KeyOf(after[i]) = key
          PROVE  \E c \in CallsUpTo(t, key, then[t]) :
                   /\ impl[t][c] = after[i].output
                   /\ Cardinality(CallsUpTo(t, key, c))
                        = Cardinality(LinesUpTo(after, key, i))
      <3>1. CASE i = last
        <4>1. m + 1 \in CallsUpTo(t, key, then[t])
          BY <2>4, <2>6
        <4>2. impl[t][m + 1] = after[i].output
          BY <1>1, <2>2, <3>1
        <4>3. QED
          BY <2>5, <3>1, <4>1, <4>2
      <3>2. CASE i \in DOMAIN trace
        <4>1. PICK c \in C : /\ impl[t][c] = trace[i].output
                             /\ Cardinality(CallsUpTo(t, key, c))
                                  = Cardinality(LinesUpTo(trace, key, i))
          BY <1>1, <1>3, <2>6, <2>7, <3>2
        <4>2. c \in CallsUpTo(t, key, then[t])
          BY <2>4, <2>6
        <4>3. QED
          BY <1>1, <1>4, <3>2, <4>1, <4>2
      <3>3. QED
        BY <1>1, <3>1, <3>2
    <2>8. QED
      BY <1>1, <2>5, <2>6, <2>7
  <1>7. CASE KeyOf(row) # key
    <2>1. CallsUpTo(t, key, then[t]) = CallsUpTo(t, key, finished[t])
      <3>1. program[u][m + 1] # key
        BY <1>1, <1>7
      <3>2. CallsUpTo(u, key, m + 1) = CallsUpTo(u, key, m)
        BY <1>5, <3>1
      <3>3. CASE t = u
        <4>1. then[t] = m + 1 /\ finished[t] = m
          BY <1>1, <1>2, <3>3
        <4>2. QED
          BY <3>2, <3>3, <4>1
      <3>4. CASE t # u
        BY <1>2, <3>4
      <3>5. QED
        BY <3>3, <3>4
    <2>2. LinesUpTo(after, key, last) = LinesUpTo(trace, key, Len(trace))
      BY <1>4, <1>7
    <2>3. \A i \in DOMAIN after : KeyOf(after[i]) = key => i \in DOMAIN trace
      BY <1>1, <1>7
    <2>4. QED
      BY <1>1, <1>3, <1>4, <2>1, <2>2, <2>3
  <1>8. QED
    BY <1>6, <1>7

LEMMA RowWritten ==
  ASSUME RunsTypeOK, NEW impl, Answering(impl),
         NEW finished \in [Threads -> Nat], NEW t \in Threads,
         finished[t] < Len(program[t]),
         NEW trace \in Seq(Line), RecordingInv(trace, impl, finished)
  PROVE  RecordingInv(Append(trace, NextRow(impl, finished, t)), impl,
                      [finished EXCEPT ![t] = @ + 1])
  <1> DEFINE row == NextRow(impl, finished, t)
             n == finished[t] + 1
             k == program[t][n]
             after == Append(trace, row)
             then == [finished EXCEPT ![t] = @ + 1]
             last == Len(trace) + 1
             call == <<t, n>>
  <1>1. /\ row \in Line /\ row.whole = TRUE /\ KeyOf(row) = k
        /\ row.output = impl[t][n]
    <2> HIDE DEF row, k, n
    <2>1. /\ row = NextRow(impl, finished, t) /\ n = finished[t] + 1
          /\ k = program[t][finished[t] + 1]
      BY DEF row, k, n
    <2>2. QED
      BY <2>1, RowOfType
  <1> HIDE DEF row
  <1>2. /\ after \in Seq(Line) /\ Len(after) = Len(trace) + 1
        /\ DOMAIN after = DOMAIN trace \cup {last} /\ last \notin DOMAIN trace
        /\ after[last] = row /\ \A i \in DOMAIN trace : after[i] = trace[i]
        /\ Len(trace) \in Nat
    BY <1>1
  <1>3. /\ CallsDone(then) = CallsDone(finished) \cup {call}
        /\ call \notin CallsDone(finished)
    BY OneMoreCall
  <1> HIDE DEF after, then, last, k
  <1>4. \A i \in DOMAIN after : after[i].whole
    BY <1>1, <1>2 DEF RecordingInv
  <1>5. /\ IsFiniteSet(CallsDone(then))
        /\ Cardinality(CallsDone(then)) = Len(after)
    <2> DEFINE C == CallsDone(finished)
    <2>1. IsFiniteSet(C) /\ Cardinality(C) = Len(trace) /\ call \notin C
      BY <1>3 DEF RecordingInv
    <2> HIDE DEF call, C
    <2>2. /\ IsFiniteSet(C \cup {call})
          /\ Cardinality(C \cup {call}) = Cardinality(C) + 1
      BY <2>1, FS_AddElement
    <2>3. CallsDone(then) = C \cup {call}
      BY <1>3 DEF C
    <2>4. QED
      BY <1>2, <2>1, <2>2, <2>3
  <1>6. ASSUME NEW key \in AllKeys, NEW o \in OutputHashes
        PROVE  Cardinality(RowsSaying(after, key, o))
                 = Cardinality(CallsWith(impl, then, key, o))
    <2> DEFINE R == RowsSaying(trace, key, o)
               C == CallsWith(impl, finished, key, o)
    <2>1. /\ IsFiniteSet(R) /\ IsFiniteSet(C) /\ Cardinality(R) = Cardinality(C)
          /\ Cardinality(R) \in Nat
      BY RowsSayingFinite, CallsWithFinite DEF RecordingInv
    <2>2. last \notin R /\ call \notin C
      BY <1>2, <1>3 DEF RowsSaying, CallsWith
    <2>3. call[1] = t /\ call[2] = n
      OBVIOUS
    <2> HIDE DEF call
    <2>4. CASE k = key /\ impl[t][n] = o
      <3>1. RowsSaying(after, key, o) = R \cup {last}
        BY <1>1, <1>2, <2>4 DEF RowsSaying
      <3>2. CallsWith(impl, then, key, o) = C \cup {call}
        BY <1>3, <2>3, <2>4 DEF CallsWith, k
      <3> HIDE DEF R, C
      <3>3. QED
        <4>1. /\ Cardinality(R \cup {last}) = Cardinality(R) + 1
              /\ Cardinality(C \cup {call}) = Cardinality(C) + 1
          BY <2>1, <2>2, FS_AddElement
        <4>2. QED
          BY <2>1, <3>1, <3>2, <4>1
    <2>5. CASE ~(k = key /\ impl[t][n] = o)
      <3>1. RowsSaying(after, key, o) = R
        BY <1>1, <1>2, <2>5 DEF RowsSaying
      <3>2. CallsWith(impl, then, key, o) = C
        BY <1>3, <2>3, <2>5 DEF CallsWith, k
      <3>3. QED
        BY <2>1, <3>1, <3>2
    <2>6. QED
      BY <2>4, <2>5
  <1>7. OrderInv(after, impl, then)
    <2>1. OrderInv(trace, impl, finished)
      BY DEF RecordingInv
    <2>2. /\ then[t] = n /\ n = finished[t] + 1 /\ k = program[t][n]
          /\ \A v \in Threads : v # t => then[v] = finished[v]
      BY DEF k, then
    <2>3. Len(after) = Len(trace) + 1 /\ Len(after) = last
      BY <1>2 DEF last
    <2> HIDE DEF n
    <2>4. /\ KeyOf(after[Len(after)]) = program[t][then[t]]
          /\ after[Len(after)].output = impl[t][then[t]]
      BY <1>1, <1>2, <2>2, <2>3
    <2>5. /\ then[t] = finished[t] + 1
          /\ DOMAIN after = DOMAIN trace \cup {Len(after)}
          /\ \A i \in DOMAIN trace : after[i] = trace[i]
      BY <1>2, <2>2, <2>3
    <2>6. QED
      BY <2>1, <2>2, <2>3, <2>4, <2>5, OrderWritten
  <1>8. RecordingInv(after, impl, then)
    BY <1>4, <1>5, <1>6, <1>7 DEF RecordingInv
  <1>9. QED
    BY <1>8 DEF after, then, row

-----------------------------------------------------------------------------
(***************************************************************************)
(* Two whole recordings of a program have the same inputs.                 *)
(***************************************************************************)
LEMMA SomeRow ==
  ASSUME NEW trace \in Seq(Line), NEW impl, NEW finished,
         RecordingInv(trace, impl, finished),
         NEW key \in AllKeys, NEW o \in OutputHashes
  PROVE  RowsSaying(trace, key, o) = {} <=> CallsWith(impl, finished, key, o) = {}
  <1>1. /\ IsFiniteSet(RowsSaying(trace, key, o))
        /\ IsFiniteSet(CallsWith(impl, finished, key, o))
    BY RowsSayingFinite, CallsWithFinite DEF RecordingInv
  <1>2. Cardinality(RowsSaying(trace, key, o))
          = Cardinality(CallsWith(impl, finished, key, o))
    BY DEF RecordingInv
  <1>3. QED
    BY <1>1, <1>2, FS_EmptySet

\* A row of a recording is a row of some thread's call with that key ...
LEMMA CallOfRow ==
  ASSUME NEW trace \in Seq(Line), NEW impl, NEW finished \in [Threads -> Nat],
         RecordingInv(trace, impl, finished), NEW i \in DOMAIN trace
  PROVE  /\ KeyOf(trace[i]) \in AllKeys
         /\ trace[i].output \in OutputHashes
         /\ CallsWith(impl, finished, KeyOf(trace[i]), trace[i].output) # {}
  <1>1. trace[i] \in Line
    OBVIOUS
  <1>2. KeyOf(trace[i]) \in AllKeys /\ trace[i].output \in OutputHashes
    BY <1>1 DEF Line, KeyOf, AllKeys
  <1>3. i \in RowsSaying(trace, KeyOf(trace[i]), trace[i].output)
    BY DEF RowsSaying
  <1>4. QED
    BY <1>2, <1>3, SomeRow

LEMMA CallKey ==
  ASSUME NEW impl, NEW finished \in [Threads -> Nat], NEW key, NEW o,
         NEW ti \in CallsWith(impl, finished, key, o)
  PROVE  /\ ti[1] \in Threads /\ ti[2] \in 1 .. finished[ti[1]]
         /\ program[ti[1]][ti[2]] = key
  BY DoneIs DEF CallsWith

LEMMA CallOutput ==
  ASSUME NEW impl, NEW finished \in [Threads -> Nat], NEW key, NEW o,
         NEW ti \in CallsWith(impl, finished, key, o)
  PROVE  impl[ti[1]][ti[2]] = o
  BY DEF CallsWith

\* ... and a call has a row.
LEMMA RowOfCall ==
  ASSUME NEW trace \in Seq(Line), NEW finished \in [Threads -> Nat],
         NEW impl, Answering(impl),
         \A u \in Threads : /\ Len(program[u]) \in Nat
                            /\ finished[u] <= Len(program[u]),
         RecordingInv(trace, impl, finished), NEW key \in AllKeys,
         NEW t \in Threads, NEW n \in 1 .. finished[t], program[t][n] = key
  PROVE  \E i \in DOMAIN trace : KeyOf(trace[i]) = key /\ trace[i].whole
  <1> DEFINE o == impl[t][n]
             call == <<t, n>>
  <1>1. call \in CallsDone(finished) /\ call[1] = t /\ call[2] = n
    BY DoneIs
  <1>2. o \in OutputHashes
    <2>1. impl[t] \in Seq(OutputHashes) /\ Len(program[t]) <= Len(impl[t])
      BY DEF Answering
    <2>2. Len(impl[t]) \in Nat /\ finished[t] \in Nat
      BY <2>1
    <2>3. n \in 1 .. Len(impl[t])
      BY <2>1, <2>2
    <2>4. QED
      BY <2>1, <2>3
  <1>3. call \in CallsWith(impl, finished, key, o)
    BY <1>1 DEF CallsWith
  <1>4. PICK i \in RowsSaying(trace, key, o) : TRUE
    BY <1>2, <1>3, SomeRow
  <1>5. QED
    BY <1>4 DEF RowsSaying, RecordingInv

LEMMA SameKeys ==
  ASSUME RunsTypeOK, Recorded,
         RecordingInv(left, impl_left, done_left),
         RecordingInv(right, impl_right, done_right)
  PROVE  KeysOf(left) = KeysOf(right)
  <1>1. \A t \in Threads : done_left[t] = done_right[t]
    BY DEF Recorded
  <1>2. ASSUME NEW l \in Seq(Line), NEW r \in Seq(Line), NEW impl,
               NEW finished \in [Threads -> Nat], NEW other, Answering(other),
               \A t \in Threads : finished[t] <= Len(program[t]),
               RecordingInv(l, impl, finished), RecordingInv(r, other, finished)
        PROVE  KeysOf(l) \subseteq KeysOf(r)
    <2> SUFFICES ASSUME NEW i \in KeptAt(l) PROVE KeyOf(l[i]) \in KeysOf(r)
      BY DEF KeysOf
    <2> DEFINE key == KeyOf(l[i])
    <2>1. i \in DOMAIN l /\ Kept(l[i])
      BY DEF KeptAt
    <2>2. /\ key \in AllKeys
          /\ CallsWith(impl, finished, key, l[i].output) # {}
      BY <1>2, <2>1, CallOfRow
    <2>3. PICK ti \in CallsWith(impl, finished, key, l[i].output) : TRUE
      BY <2>2
    <2>4. /\ ti[1] \in Threads /\ ti[2] \in 1 .. finished[ti[1]]
          /\ program[ti[1]][ti[2]] = key
      BY CallKey
    <2>5. PICK j \in DOMAIN r : KeyOf(r[j]) = key /\ r[j].whole
      <3>1. \A u \in Threads : Len(program[u]) \in Nat
        BY ProgramType
      <3>2. QED
        BY <1>2, <2>2, <2>4, <3>1, RowOfCall
    <2>6. r[j].fn = l[i].fn
      BY <2>5 DEF KeyOf
    <2>7. j \in KeptAt(r)
      BY <2>1, <2>5, <2>6 DEF KeptAt, Kept
    <2>8. QED
      BY <2>5, <2>7 DEF KeysOf
  <1>3. done_left = done_right
    BY <1>1, ProgramType
  <1>4. /\ RecordingInv(left, impl_left, done_left)
        /\ RecordingInv(right, impl_right, done_left)
    BY <1>3
  <1>5. KeysOf(left) \subseteq KeysOf(right) /\ KeysOf(right) \subseteq KeysOf(left)
    BY <1>2, <1>4, ProgramType
  <1>6. QED
    BY <1>5
-----------------------------------------------------------------------------
(***************************************************************************)
(* The invariant, action by action.                                        *)
(***************************************************************************)
\* A recording after a step is one of the program that the step leaves alone.
LEMMA RecordingsThen ==
  ASSUME program' = program
  PROVE  /\ RecordingInv(left, impl_left, done_left)'
              <=> RecordingInv(left', impl_left', done_left')
         /\ RecordingInv(right, impl_right, done_right)'
              <=> RecordingInv(right', impl_right', done_right')
  <1>1. /\ CallsDone(done_left)' = CallsDone(done_left')
        /\ CallsDone(done_right)' = CallsDone(done_right')
    BY DEF CallsDone
  <1>2. \A key, o :
          /\ CallsWith(impl_left, done_left, key, o)'
               = CallsWith(impl_left', done_left', key, o)
          /\ CallsWith(impl_right, done_right, key, o)'
               = CallsWith(impl_right', done_right', key, o)
    BY <1>1 DEF CallsWith
  <1>3. \A key, o :
          /\ RowsSaying(left, key, o)' = RowsSaying(left', key, o)
          /\ RowsSaying(right, key, o)' = RowsSaying(right', key, o)
    BY DEF RowsSaying, KeyOf
  <1>4. /\ \A t, key, n :
             CallsUpTo(t, key, n)' = CallsUpTo(t, key, n)
        /\ \A t, key : OnlyOf(t, key)' <=> OnlyOf(t, key)
    BY DEF CallsUpTo, CallsOf, OnlyOf
  <1>5. /\ OrderInv(left, impl_left, done_left)'
             <=> OrderInv(left', impl_left', done_left')
        /\ OrderInv(right, impl_right, done_right)'
             <=> OrderInv(right', impl_right', done_right')
    <2>1. /\ \A key, n : LinesUpTo(left, key, n)' = LinesUpTo(left', key, n)
          /\ \A key, n : LinesUpTo(right, key, n)' = LinesUpTo(right', key, n)
      BY DEF LinesUpTo, KeyOf
    <2>2. /\ \A i : KeyOf(left[i])' = KeyOf(left'[i])
          /\ \A i : KeyOf(right[i])' = KeyOf(right'[i])
      BY DEF KeyOf
    <2>3. OrderInv(left, impl_left, done_left)'
            <=> OrderInv(left', impl_left', done_left')
      BY <1>4, <2>1, <2>2 DEF OrderInv
    <2>4. OrderInv(right, impl_right, done_right)'
            <=> OrderInv(right', impl_right', done_right')
      BY <1>4, <2>1, <2>2 DEF OrderInv
    <2>5. QED
      BY <2>3, <2>4
  <1>6. QED
    BY <1>1, <1>2, <1>3, <1>5 DEF RecordingInv

\* While nothing is compared, Compare's invariant holds of any traces.
LEMMA ReadingInv ==
  ASSUME CInv, pc = "read", left' \in Seq(Line), right' \in Seq(Line),
         UNCHANGED <<options, pc, todo, tallies, status>>
  PROVE  CInv'
  <1>1. /\ pc' = "read" /\ todo' = {} /\ status' = 0 /\ options' = options
        /\ differences' = differences /\ printed' = printed
        /\ missing' = missing /\ mismatched' = mismatched
        /\ by_function' = by_function
    BY DEF CInv, tallies
  <1>2. TypeOK'
    BY <1>1 DEF CInv, TypeOK
  <1>3. /\ OccurrencesSeen = {} /\ PairsSeen = {}
        /\ OccurrencesSeen' = {} /\ PairsSeen' = {}
    BY <1>1 DEF OccurrencesSeen, PairsSeen
  <1>4. /\ Differing(OccurrencesSeen) = {} /\ Unequal(PairsSeen) = {}
        /\ Differing(OccurrencesSeen)' = {} /\ Unequal(PairsSeen)' = {}
    BY <1>3 DEF Differing, Unequal
  <1>5. status # 2 /\ DifferencesInv /\ PairsInv /\ PrintedInv
    BY DEF CInv
  <1>6. DifferencesInv' /\ PairsInv' /\ StatusInv' /\ PrintedInv'
    BY <1>1, <1>4, <1>5
       DEF DifferencesInv, PairsInv, StatusInv, PrintedInv, Listed
  <1>7. QED
    BY <1>1, <1>2, <1>6 DEF CInv

LEMMA NextFinishLeft ==
  ASSUME RInv, NEW t \in Threads, FinishLeft(t)
  PROVE  RInv'
  <1>1. /\ RunsTypeOK /\ CInv /\ ProgramInv
        /\ done_left[t] < Len(program[t])
    BY DEF RInv, FinishLeft
  <1> DEFINE row == NextRow(impl_left, done_left, t)
             then == [done_left EXCEPT ![t] = @ + 1]
  <1>2. /\ left' = Append(left, row) /\ done_left' = then
        /\ right' = right /\ done_right' = done_right
        /\ program' = program /\ impl_left' = impl_left
        /\ impl_right' = impl_right
        /\ UNCHANGED <<options, pc, todo, tallies, status>>
    BY DEF FinishLeft, programVars
  <1>3. /\ done_left \in [Threads -> Nat] /\ program[t] \in Seq(AllKeys)
        /\ Answering(impl_left)
        /\ left \in Seq(Line) /\ right \in Seq(Line)
    BY <1>1, ProgramType
  <1>4. row \in Line
    BY <1>1, <1>3, RowOfType
  <1>5. /\ then \in [Threads -> Nat] /\ then[t] <= Len(program[t])
        /\ \A u \in Threads : u # t => then[u] = done_left[u]
        /\ then[t] # done_left[t]
    BY <1>1, <1>3
  <1> HIDE DEF row, then
  <1>6. pc = "read"
    <2>1. done_left[t] # Len(program[t])
      BY <1>1, <1>3
    <2>2. QED
      BY <2>1 DEF RInv, Recorded
  <1>7. CInv'
    BY <1>1, <1>2, <1>3, <1>4, <1>6, ReadingInv
  <1>8. RunsTypeOK'
    BY <1>1, <1>2, <1>5, <1>7 DEF RunsTypeOK, CInv
  <1>9. ProgramInv'
    <2>1. ASSUME program # NoProgram
          PROVE  /\ RecordingInv(left, impl_left, done_left)'
                 /\ RecordingInv(right, impl_right, done_right)'
      <3>1. RecordingInv(left', impl_left, done_left')
        BY <1>1, <1>2, <1>3, <2>1, RowWritten DEF ProgramInv, row, then
      <3>2. RecordingInv(right', impl_right, done_right')
        BY <1>1, <1>2, <2>1 DEF ProgramInv
      <3>3. QED
        BY <1>2, <3>1, <3>2, RecordingsThen
    <2>2. missing' = missing /\ by_function' = by_function
      BY <1>2 DEF tallies
    <2>3. QED
      BY <1>1, <1>2, <2>1, <2>2 DEF ProgramInv, NoProgram
  <1>10. pc' = "read"
    BY <1>2, <1>6
  <1>11. QED
    BY <1>7, <1>8, <1>9, <1>10 DEF RInv

LEMMA NextFinishRight ==
  ASSUME RInv, NEW t \in Threads, FinishRight(t)
  PROVE  RInv'
  <1>1. /\ RunsTypeOK /\ CInv /\ ProgramInv
        /\ done_right[t] < Len(program[t])
    BY DEF RInv, FinishRight
  <1> DEFINE row == NextRow(impl_right, done_right, t)
             then == [done_right EXCEPT ![t] = @ + 1]
  <1>2. /\ right' = Append(right, row) /\ done_right' = then
        /\ left' = left /\ done_left' = done_left
        /\ program' = program /\ impl_right' = impl_right
        /\ impl_left' = impl_left
        /\ UNCHANGED <<options, pc, todo, tallies, status>>
    BY DEF FinishRight, programVars
  <1>3. /\ done_right \in [Threads -> Nat] /\ program[t] \in Seq(AllKeys)
        /\ Answering(impl_right)
        /\ right \in Seq(Line) /\ left \in Seq(Line)
    BY <1>1, ProgramType
  <1>4. row \in Line
    BY <1>1, <1>3, RowOfType
  <1>5. /\ then \in [Threads -> Nat] /\ then[t] <= Len(program[t])
        /\ \A u \in Threads : u # t => then[u] = done_right[u]
        /\ then[t] # done_right[t]
    BY <1>1, <1>3
  <1> HIDE DEF row, then
  <1>6. pc = "read"
    <2>1. done_right[t] # Len(program[t])
      BY <1>1, <1>3
    <2>2. QED
      BY <2>1 DEF RInv, Recorded
  <1>7. CInv'
    BY <1>1, <1>2, <1>3, <1>4, <1>6, ReadingInv
  <1>8. RunsTypeOK'
    BY <1>1, <1>2, <1>5, <1>7 DEF RunsTypeOK, CInv
  <1>9. ProgramInv'
    <2>1. ASSUME program # NoProgram
          PROVE  /\ RecordingInv(right, impl_right, done_right)'
                 /\ RecordingInv(left, impl_left, done_left)'
      <3>1. RecordingInv(right', impl_right, done_right')
        BY <1>1, <1>2, <1>3, <2>1, RowWritten DEF ProgramInv, row, then
      <3>2. RecordingInv(left', impl_left, done_left')
        BY <1>1, <1>2, <2>1 DEF ProgramInv
      <3>3. QED
        BY <1>2, <3>1, <3>2, RecordingsThen
    <2>2. missing' = missing /\ by_function' = by_function
      BY <1>2 DEF tallies
    <2>3. QED
      BY <1>1, <1>2, <2>1, <2>2 DEF ProgramInv, NoProgram
  <1>10. pc' = "read"
    BY <1>2, <1>6
  <1>11. QED
    BY <1>7, <1>8, <1>9, <1>10 DEF RInv

\* main reads the files once they are written; what it counts it counts right.
LEMMA NextCompares ==
  ASSUME RInv, Recorded, Next, UNCHANGED runVars
  PROVE  RInv'
  <1>1. /\ RunsTypeOK /\ CInv /\ ProgramInv
    BY DEF RInv
  <1>2. CInv'
    BY <1>1, InvStep
  <1>3. /\ left' = left /\ right' = right /\ options' = options
        /\ program' = program /\ impl_left' = impl_left
        /\ impl_right' = impl_right
        /\ done_left' = done_left /\ done_right' = done_right
    BY InputsStay DEF inputVars, runVars, programVars
  <1>4. RunsTypeOK' /\ Recorded'
    BY <1>1, <1>2, <1>3 DEF RunsTypeOK, CInv, Recorded, NoProgram
  <1>5. ProgramInv'
    <2>1. SUFFICES ASSUME program # NoProgram
          PROVE  /\ RecordingInv(left, impl_left, done_left)'
                 /\ RecordingInv(right, impl_right, done_right)'
                 /\ missing' = 0
                 /\ \A f \in Functions : by_function'[f].missing = 0
      BY <1>3 DEF ProgramInv, NoProgram
    <2>2. /\ RecordingInv(left, impl_left, done_left)
          /\ RecordingInv(right, impl_right, done_right)
          /\ missing = 0 /\ \A f \in Functions : by_function[f].missing = 0
      BY <1>1, <2>1 DEF ProgramInv
    <2>3. /\ RecordingInv(left, impl_left, done_left)'
          /\ RecordingInv(right, impl_right, done_right)'
      BY <1>3, <2>2, RecordingsThen
    <2>4. \A key \in AllKeys : ~MissingPair(key)
      <3>1. KeysOf(left) = KeysOf(right)
        BY <1>1, <2>2, SameKeys
      <3>2. todo \subseteq KeysOf(left) \cap KeysOf(right)
        BY <1>1, <3>1 DEF CInv, Keys
      <3>3. QED
        BY <3>2 DEF MissingPair
    <2>5. missing' = 0 /\ \A f \in Functions : by_function'[f].missing = 0
      <3>1. CASE missing' = missing /\ by_function' = by_function
        BY <2>2, <3>1
      <3>2. ASSUME NEW key \in AllKeys, MismatchedPair(key)
            PROVE  missing' = 0 /\ \A f \in Functions :
                                      by_function'[f].missing = 0
        <4>1. /\ missing' = missing
              /\ by_function' = [by_function EXCEPT ![key[1]].mismatched = @ + 1]
              /\ by_function \in [Functions -> Tally]
          BY <1>1, <3>2 DEF MismatchedPair, CInv, TypeOK, Tally
        <4>2. \A f \in Functions :
                by_function'[f].missing = by_function[f].missing
          BY <4>1 DEF Tally
        <4>3. QED
          BY <2>2, <4>1, <4>2
      <3>3. QED
        BY <2>4, <3>1, <3>2
           DEF Next, ReadFails, ReadAndCount, CompareOccurrences, ComparePairs,
               EqualPair, EndOccurrences, EndPairs, Exited, vars, tallies
    <2>6. QED
      BY <2>3, <2>5
  <1>6. QED
    BY <1>2, <1>4, <1>5 DEF RInv

LEMMA RunsStutter ==
  ASSUME RInv, UNCHANGED <<vars, runVars>>
  PROVE  RInv'
  <1>1. CInv' /\ CInv
    BY InvStutter DEF RInv
  <1>2. /\ left' = left /\ right' = right /\ pc' = pc
        /\ missing' = missing /\ by_function' = by_function
        /\ program' = program /\ impl_left' = impl_left
        /\ impl_right' = impl_right
        /\ done_left' = done_left /\ done_right' = done_right
    BY DEF vars, inputVars, tallies, runVars, programVars
  <1>3. RunsTypeOK' /\ (pc' # "read" => Recorded')
    BY <1>1, <1>2 DEF RInv, RunsTypeOK, CInv, Recorded, NoProgram
  <1>4. ProgramInv'
    BY <1>2, RecordingsThen DEF RInv, ProgramInv, NoProgram
  <1>5. QED
    BY <1>1, <1>3, <1>4 DEF RInv

LEMMA RunsInitially == RunsInit => RInv
  <1> SUFFICES ASSUME RunsInit PROVE RInv
    OBVIOUS
  <1>1. CInv /\ TypeOK
    BY InvInit DEF RunsInit, CInv
  <1>2. RunsTypeOK
    <2>1. (CHOOSE impl \in Implementations : TRUE) \in Implementations
      BY TwoRunsAssumption
    <2>2. program \in [Threads -> Seq(AllKeys)]
      <3>1. NoProgram \in [Threads -> Seq(AllKeys)]
        BY DEF NoProgram
      <3>2. program \in Programs \/ program = NoProgram
        BY DEF RunsInit
      <3>3. QED
        BY <3>1, <3>2, TwoRunsAssumption
    <2>3. \A t \in Threads : Len(program[t]) \in Nat
      BY <2>2
    <2>4. QED
      BY <1>1, <2>1, <2>3 DEF RunsInit, RunsTypeOK
  <1>3. ASSUME program # NoProgram, NEW impl
        PROVE  RecordingInv(<<>>, impl, [t \in Threads |-> 0])
    <2>1. CallsDone([t \in Threads |-> 0]) = {}
      BY DEF CallsDone
    <2>2. \A key, o : /\ RowsSaying(<<>>, key, o) = {}
                      /\ CallsWith(impl, [t \in Threads |-> 0], key, o) = {}
      BY <2>1 DEF RowsSaying, CallsWith
    <2>3. DOMAIN <<>> = {} /\ Len(<<>>) = 0
      OBVIOUS
    <2>4. OrderInv(<<>>, impl, [t \in Threads |-> 0])
      <3>1. ASSUME NEW t \in Threads, NEW key
            PROVE  CallsUpTo(t, key, 0) = {}
        <4>1. \A c \in DOMAIN program[t] : ~(c <= 0)
          BY <1>2, ProgramType
        <4>2. QED
          BY <4>1 DEF CallsUpTo, CallsOf
      <3>2. \A key : LinesUpTo(<<>>, key, 0) = {}
        BY <2>3 DEF LinesUpTo
      <3>3. QED
        BY <2>3, <3>1, <3>2 DEF OrderInv
    <2>5. QED
      BY <2>1, <2>2, <2>3, <2>4, FS_EmptySet DEF RecordingInv
  <1>4. ProgramInv
    BY <1>3 DEF RunsInit, Init, ProgramInv
  <1>5. pc = "read"
    BY DEF RunsInit, Init
  <1>6. QED
    BY <1>1, <1>2, <1>4, <1>5 DEF RInv

(***************************************************************************)
(* RInv is an invariant: the rows of each run are those of its threads'    *)
(* calls (Call::finish, src/src/lib.rs:709), in any order, and the tallies *)
(* of tracehash-compare are right for the keys it has come to.             *)
(***************************************************************************)
THEOREM RunsInvariance == RunsSpec => []RInv
  <1>1. RInv /\ [RunsNext]_<<vars, runVars>> => RInv'
    BY NextFinishLeft, NextFinishRight, NextCompares, RunsStutter DEF RunsNext
  <1>2. QED
    BY <1>1, RunsInitially, PTL DEF RunsSpec
(***************************************************************************)
(* What main (src/src/bin/tracehash-compare.rs:25) promises of any two     *)
(* files it promises of the recordings of two runs, and of any two given   *)
(* files where there is no program.                                        *)
(***************************************************************************)
THEOREM ComparisonOfRuns ==
  RunsSpec => []( /\ DivergenceReported /\ EqualTracesPass
                  /\ ListedFunctionsDiffer /\ SummaryConsistent
                  /\ OccurrencesExact )
  <1>1. RInv => CInv
    BY DEF RInv
  <1>2. QED
    BY <1>1, RunsInvariance, ReportingNow, NoFalseAlarmNow, ListingNow,
       SummaryNow, PairingNow, PTL
-----------------------------------------------------------------------------
(***************************************************************************)
(* What the comparator makes of two whole recordings.                      *)
(***************************************************************************)
LEMMA WholeRecordings ==
  ASSUME RInv, RunsCompared
  PROVE  /\ CInv /\ TypeOK /\ RunsTypeOK /\ Recorded /\ status \in {0, 1}
         /\ done_right = done_left
         /\ RecordingInv(left, impl_left, done_left)
         /\ RecordingInv(right, impl_right, done_left)
         /\ KeysOf(left) = KeysOf(right) /\ Keys = KeysOf(left)
         /\ KeptKeys = KeysOf(left)
         /\ missing = 0 /\ \A f \in Functions : by_function[f].missing = 0
         /\ PairsInv /\ PairsSeen = Keys
  <1>1. /\ CInv /\ TypeOK /\ RunsTypeOK /\ Recorded /\ program # NoProgram
        /\ pc = "done" /\ status # 2
    BY DEF RInv, RunsCompared, Compared, CInv
  <1>2. /\ RecordingInv(left, impl_left, done_left)
        /\ RecordingInv(right, impl_right, done_right)
        /\ missing = 0 /\ \A f \in Functions : by_function[f].missing = 0
    BY <1>1 DEF RInv, ProgramInv
  <1>3. done_right = done_left
    <2>1. \A t \in Threads : done_left[t] = done_right[t]
      BY <1>1 DEF Recorded
    <2>2. QED
      BY <1>1, <2>1, ProgramType
  <1>4. KeysOf(left) = KeysOf(right) /\ KeysOf(left) \subseteq AllKeys
    BY <1>1, <1>2, SameKeys, KeysFinite, ProgramType
  <1>5. Keys = KeysOf(left)
    BY <1>4 DEF Keys
  <1>6. KeptKeys = KeysOf(left)
    BY <1>4 DEF KeptKeys, KeysOf
  <1>7. PairsInv /\ PairsSeen = Keys
    BY <1>1 DEF CInv, PairsSeen
  <1>8. QED
    BY <1>1, <1>2, <1>3, <1>4, <1>5, <1>6, <1>7 DEF TypeOK

\* A kept key is seen with an output as often as calls gave it.
LEMMA OutputsCounted ==
  ASSUME NEW trace \in Seq(Line), NEW impl, NEW finished,
         RecordingInv(trace, impl, finished), NEW key \in KeysOf(trace),
         NEW o \in OutputHashes
  PROVE  OutputCount(trace, key, o)
           = Cardinality(CallsWith(impl, finished, key, o))
  <1>1. PICK j \in KeptAt(trace) : KeyOf(trace[j]) = key
    BY DEF KeysOf
  <1>2. j \in DOMAIN trace /\ Kept(trace[j])
    BY DEF KeptAt
  <1>3. ASSUME NEW i \in DOMAIN trace, KeyOf(trace[i]) = key
        PROVE  i \in RowsOf(trace, key)
    <2>1. trace[i].fn = trace[j].fn
      BY <1>1, <1>3 DEF KeyOf
    <2>2. trace[i].whole
      BY DEF RecordingInv
    <2>3. Kept(trace[i])
      BY <1>2, <2>1, <2>2 DEF Kept
    <2>4. QED
      BY <1>3, <2>3 DEF RowsOf, KeptAt
  <1>4. {i \in RowsOf(trace, key) : trace[i].output = o}
          = RowsSaying(trace, key, o)
    BY <1>3 DEF RowsOf, KeptAt, RowsSaying
  <1>5. key \in AllKeys
    BY KeysFinite
  <1>6. QED
    BY <1>4, <1>5 DEF OutputCount, RecordingInv

\* Where one output is all there is, its number settles the occurrences.
LEMMA SingleOutput ==
  ASSUME TypeOK, NEW key, NEW o,
         \A i \in RowsOf(left, key) : left[i].output = o,
         \A i \in RowsOf(right, key) : right[i].output = o,
         OutputCount(left, key, o) = OutputCount(right, key, o)
  PROVE  DifferingAt(key) = {}
  <1>1. left \in Seq(Line) /\ right \in Seq(Line)
    BY DEF TypeOK
  <1>2. Cardinality(RowsOf(left, key)) = Cardinality(RowsOf(right, key))
    <2>1. /\ {i \in RowsOf(left, key) : left[i].output = o} = RowsOf(left, key)
          /\ {i \in RowsOf(right, key) : right[i].output = o} = RowsOf(right, key)
      OBVIOUS
    <2>2. QED
      BY <2>1 DEF OutputCount
  <1>3. MostRows(key) = Cardinality(RowsOf(left, key))
    BY <1>2 DEF MostRows
  <1>4. ASSUME NEW trace \in Seq(Line), NEW n \in 1 .. Cardinality(RowsOf(trace, key)),
               \A i \in RowsOf(trace, key) : trace[i].output = o
        PROVE  NthOutput(trace, key, n) = {o}
    <2>1. PICK i \in RowsOf(trace, key) : Occurrence(trace, i) = n
      BY EveryOccurrence
    <2>2. QED
      BY <1>4, <2>1 DEF NthOutput
  <1>5. ASSUME NEW n \in 1 .. MostRows(key)
        PROVE  NthOutput(left, key, n) = NthOutput(right, key, n)
    <2>1. NthOutput(left, key, n) = {o}
      BY <1>1, <1>3, <1>4
    <2>2. NthOutput(right, key, n) = {o}
      BY <1>1, <1>2, <1>3, <1>4
    <2>3. QED
      BY <2>1, <2>2
  <1>6. QED
    BY <1>5 DEF DifferingAt

\* A row of a key is one of a call with that key, whose output it has.
LEMMA OutputOfRow ==
  ASSUME NEW trace \in Seq(Line), NEW impl, NEW finished \in [Threads -> Nat],
         RecordingInv(trace, impl, finished), NEW key,
         NEW i \in RowsOf(trace, key)
  PROVE  /\ trace[i].output \in OutputHashes
         /\ \E ti \in CallsWith(impl, finished, key, trace[i].output) : TRUE
  <1>1. i \in DOMAIN trace /\ KeyOf(trace[i]) = key
    BY DEF RowsOf, KeptAt
  <1>2. QED
    BY <1>1, CallOfRow

\* A call that is finished is one of its thread's program.
LEMMA DoneInDomain ==
  ASSUME RunsTypeOK, NEW t \in Threads, NEW c \in 1 .. done_left[t]
  PROVE  c \in DOMAIN program[t]
  <1>1. /\ program[t] \in Seq(AllKeys) /\ done_left[t] \in Nat
        /\ done_left[t] <= Len(program[t])
    BY ProgramType
  <1>2. Len(program[t]) \in Nat /\ DOMAIN program[t] = 1 .. Len(program[t])
    BY <1>1
  <1>3. QED
    BY <1>1, <1>2

LEMMA CalledWith ==
  ASSUME RunsTypeOK, NEW impl, NEW key, NEW o,
         NEW ti \in CallsWith(impl, done_left, key, o)
  PROVE  ti[1] \in Threads /\ ti[2] \in CallsOf(ti[1], key)
  <1>1. /\ ti[1] \in Threads /\ ti[2] \in 1 .. done_left[ti[1]]
        /\ program[ti[1]][ti[2]] = key
    BY ProgramType, CallKey
  <1>2. QED
    BY <1>1, DoneInDomain DEF CallsOf

\* Traces none of whose keys differ are the same, and the exit status is 0.
LEMMA NoDifferenceNoError ==
  ASSUME RInv, RunsCompared, \A key \in KeysOf(left) : DifferingAt(key) = {}
  PROVE  status = 0
  <1>1. /\ CInv /\ TypeOK /\ Keys = KeysOf(left)
    BY WholeRecordings
  <1>2. \A key \in AllKeys : DifferingAt(key) = {}
    BY <1>1, DifferingIsKey
  <1>3. SameTraces
    BY <1>1, <1>2, ComparedIsEnough DEF SameTraces
  <1>4. QED
    BY <1>1, <1>3, NoFalseAlarmNow DEF EqualTracesPass, RunsCompared
-----------------------------------------------------------------------------
(***************************************************************************)
(* Implementations that agree, and whose outputs depend on their inputs    *)
(* only, match (src/README.md:582), in whatever order Call::finish and     *)
(* tracehash_finish wrote the rows of each run's threads.                  *)
(***************************************************************************)
THEOREM AgreeingRuns == RunsSpec => []AgreeingRunsMatch
  <1>1. RInv => AgreeingRunsMatch
    <2> SUFFICES ASSUME RInv, RunsCompared, Pure(impl_left), Pure(impl_right),
                        SameAnswers, NEW key \in KeysOf(left)
                 PROVE  DifferingAt(key) = {}
      BY NoDifferenceNoError DEF AgreeingRunsMatch
    <2>1. /\ TypeOK /\ RunsTypeOK
          /\ RecordingInv(left, impl_left, done_left)
          /\ RecordingInv(right, impl_right, done_left)
          /\ KeysOf(left) = KeysOf(right) /\ KeptKeys = KeysOf(left)
      BY WholeRecordings
    <2>2. /\ left \in Seq(Line) /\ right \in Seq(Line)
          /\ done_left \in [Threads -> Nat]
      BY <2>1, ProgramType
    <2>3. ASSUME NEW impl, NEW p, NEW ti \in CallsWith(impl, done_left, key, p)
          PROVE  /\ ti[1] \in Threads /\ ti[2] \in CallsOf(ti[1], key)
                 /\ impl[ti[1]][ti[2]] = p
      <3>1. ti[1] \in Threads /\ ti[2] \in CallsOf(ti[1], key)
        BY <2>1, <2>2, CalledWith
      <3>2. QED
        BY <2>2, <3>1, CallOutput
    <2>4. PICK i \in RowsOf(left, key) : TRUE
      BY DEF KeysOf, RowsOf
    <2> DEFINE o == left[i].output
    <2>5. PICK ti \in CallsWith(impl_left, done_left, key, o) : TRUE
      BY <2>1, <2>2, OutputOfRow
    <2>6. key \in KeptKeys /\ o \in OutputHashes
      BY <2>1, <2>2, OutputOfRow
    <2>7. ASSUME NEW t \in Threads, NEW c \in CallsOf(t, key)
          PROVE  impl_left[t][c] = o /\ impl_right[t][c] = o
      <3>1. /\ ti[1] \in Threads /\ ti[2] \in CallsOf(ti[1], key)
            /\ impl_left[ti[1]][ti[2]] = o
        BY <2>3, <2>5
      <3>2. impl_left[t][c] = impl_left[ti[1]][ti[2]]
        BY <2>6, <3>1 DEF Pure
      <3>3. impl_left[t][c] = impl_right[t][c]
        BY <2>6 DEF SameAnswers
      <3>4. QED
        BY <3>1, <3>2, <3>3
    <2> HIDE DEF o
    <2>8. \A j \in RowsOf(left, key) : left[j].output = o
      <3> SUFFICES ASSUME NEW j \in RowsOf(left, key)
                   PROVE  left[j].output = o
        OBVIOUS
      <3>1. PICK tj \in CallsWith(impl_left, done_left, key, left[j].output) :
              TRUE
        BY <2>1, <2>2, OutputOfRow
      <3>2. QED
        BY <2>3, <2>7, <3>1
    <2>9. \A j \in RowsOf(right, key) : right[j].output = o
      <3> SUFFICES ASSUME NEW j \in RowsOf(right, key)
                   PROVE  right[j].output = o
        OBVIOUS
      <3>1. PICK tj \in CallsWith(impl_right, done_left, key, right[j].output) :
              TRUE
        BY <2>1, <2>2, OutputOfRow
      <3>2. QED
        BY <2>3, <2>7, <3>1
    <2>10. CallsWith(impl_left, done_left, key, o)
             = CallsWith(impl_right, done_left, key, o)
      <3>1. ASSUME NEW c \in CallsDone(done_left),
                   program[c[1]][c[2]] = key
            PROVE  impl_left[c[1]][c[2]] = o /\ impl_right[c[1]][c[2]] = o
        <4>1. /\ c[1] \in Threads /\ c[2] \in 1 .. done_left[c[1]]
          BY <2>2, DoneIs
        <4>2. c[2] \in CallsOf(c[1], key)
          BY <2>1, <3>1, <4>1, DoneInDomain DEF CallsOf
        <4>3. QED
          BY <2>7, <4>1, <4>2
      <3>2. QED
        BY <3>1 DEF CallsWith
    <2>11. OutputCount(left, key, o) = OutputCount(right, key, o)
      BY <2>1, <2>2, <2>6, <2>10, OutputsCounted
    <2>12. QED
      BY <2>1, <2>8, <2>9, <2>11, SingleOutput
  <1>2. QED
    BY <1>1, RunsInvariance, PTL

\* Expected counts the calls that gave the output.
LEMMA ExpectedIs ==
  ASSUME RInv, RunsCompared, NEW impl, NEW key, NEW o
  PROVE  Expected(impl, key, o)
           = Cardinality(CallsWith(impl, done_left, key, o))
  <1>1. /\ RunsTypeOK /\ Recorded
        /\ RecordingInv(left, impl_left, done_left)
    BY WholeRecordings
  <1>2. /\ done_left \in [Threads -> Nat] /\ left \in Seq(Line)
        /\ \A t \in Threads : done_left[t] = Len(program[t])
    BY <1>1, ProgramType DEF Recorded
  <1>3. ASSUME NEW t \in Threads
        PROVE  done_left[t] <= Len(left)
    <2> DEFINE S == 1 .. done_left[t]
               C == CallsDone(done_left)
               number == [i \in S |-> <<t, i>>]
    <2>1. IsFiniteSet(C) /\ Cardinality(C) = Len(left)
      BY <1>1 DEF RecordingInv
    <2>2. \A i \in S : <<t, i>> \in C
      BY <1>2, DoneIs
    <2>3. number \in Injection(S, C)
      <3> HIDE DEF S, C
      <3>1. number \in [S -> C]
        BY <2>2
      <3>2. \A i, j \in S : number[i] = number[j] => i = j
        OBVIOUS
      <3>3. QED
        BY <3>1, <3>2 DEF Injection, IsInjective
    <2>4. Cardinality(S) = done_left[t]
      BY <1>2, FS_Interval
    <2> HIDE DEF S, C, number
    <2>5. Cardinality(S) <= Cardinality(C)
      BY <2>1, <2>3, FS_Injection
    <2>6. QED
      BY <2>1, <2>4, <2>5
  <1> DEFINE all == {<<t, i>> : t \in Threads, i \in 1 .. Len(left)}
             E == {ti \in all : /\ ti[2] <= Len(program[ti[1]])
                                /\ program[ti[1]][ti[2]] = key
                                /\ impl[ti[1]][ti[2]] = o}
             C == CallsWith(impl, done_left, key, o)
  <1>4. ASSUME NEW ti \in E
        PROVE  ti \in C
    <2>1. PICK t \in Threads, i \in 1 .. Len(left) : ti = <<t, i>>
      OBVIOUS
    <2>2. ti[1] = t /\ ti[2] = i /\ i \in 1 .. done_left[t]
      BY <1>2, <2>1
    <2>3. ti \in CallsDone(done_left)
      BY <1>2, <2>1, <2>2, DoneIs
    <2>4. QED
      BY <2>3 DEF CallsWith
  <1>5. ASSUME NEW ti \in C
        PROVE  ti \in E
    <2>1. /\ ti \in CallsDone(done_left)
          /\ program[ti[1]][ti[2]] = key /\ impl[ti[1]][ti[2]] = o
      BY DEF CallsWith
    <2>2. /\ ti[1] \in Threads /\ ti[2] \in 1 .. done_left[ti[1]]
          /\ ti = <<ti[1], ti[2]>>
      BY <1>2, <2>1, DoneIs
    <2>3. ti[2] \in 1 .. Len(left) /\ ti[2] <= Len(program[ti[1]])
      BY <1>2, <1>3, <2>2
    <2>4. ti \in all
      BY <2>2, <2>3
    <2>5. QED
      BY <2>1, <2>3, <2>4
  <1>6. E = C
    BY <1>4, <1>5
  <1>7. Expected(impl, key, o) = Cardinality(E)
    BY DEF Expected
  <1> HIDE DEF E, C
  <1>8. QED
    BY <1>6, <1>7 DEF C

(***************************************************************************)
(* No order of the rows hides a real difference: compare_occurrences       *)
(* (src/src/bin/tracehash-compare.rs:36) sets the exit status, and         *)
(* compare_pairs counts the function among the mismatched ones.            *)
(***************************************************************************)
THEOREM RealDifferences == RunsSpec => []RealDifferenceListed
  <1>1. RInv => RealDifferenceListed
    <2> SUFFICES ASSUME RInv, RunsCompared, NEW key \in KeptKeys,
                        NEW o \in OutputHashes,
                        Expected(impl_left, key, o) # Expected(impl_right, key, o)
                 PROVE  status = 1 /\ by_function[key[1]].mismatched > 0
      BY DEF RealDifferenceListed
    <2>1. /\ CInv /\ TypeOK /\ RunsTypeOK /\ status \in {0, 1}
          /\ RecordingInv(left, impl_left, done_left)
          /\ RecordingInv(right, impl_right, done_left)
          /\ key \in KeysOf(left) /\ key \in KeysOf(right) /\ key \in Keys
          /\ \A f \in Functions : by_function[f].missing = 0
          /\ PairsInv /\ PairsSeen = Keys
      BY WholeRecordings
    <2>2. key \in AllKeys /\ key[1] \in Functions
      BY DEF KeptKeys, AllKeys
    <2>3. OutputCount(left, key, o) # OutputCount(right, key, o)
      BY <2>1, ProgramType, OutputsCounted, ExpectedIs
    <2>4. OutputsDiffer(key)
      BY <2>3 DEF OutputsDiffer
    <2>5. status = 1
      <3>1. ~SameTraces
        BY <2>1, <2>2, <2>4, OutputsAgree, ComparedIsEnough DEF SameTraces
      <3>2. status # 0
        BY <2>1, <3>1, ReportingNow
           DEF DivergenceReported, RunsCompared, Compared
      <3>3. QED
        BY <2>1, <3>2
    <2>6. by_function[key[1]].mismatched > 0
      <3>1. Listed(key[1])
        BY <2>1, <2>2, <2>4 DEF PairsInv, Unequal
      <3>2. /\ by_function[key[1]].missing = 0
            /\ by_function[key[1]].mismatched \in Nat
        BY <2>1, <2>2 DEF TypeOK
      <3>3. QED
        BY <3>1, <3>2 DEF Listed
    <2>7. QED
      BY <2>5, <2>6
  <1>2. QED
    BY <1>1, RunsInvariance, PTL

-----------------------------------------------------------------------------
(***************************************************************************)
(* A key that one thread has to itself: the n-th row is of the n-th call.  *)
(***************************************************************************)
\* Two calls of a thread with one key are not both its n-th.
LEMMA CallNumbersDiffer ==
  ASSUME RunsTypeOK, NEW t \in Threads, NEW key,
         NEW c \in CallsOf(t, key), NEW d \in CallsOf(t, key),
         Cardinality(CallsUpTo(t, key, c)) = Cardinality(CallsUpTo(t, key, d))
  PROVE  c = d
  <1>1. program[t] \in Seq(AllKeys)
    BY ProgramType
  <1>2. \A n : IsFiniteSet(CallsUpTo(t, key, n))
    <2>1. <<>> \in Seq(Line)
      OBVIOUS
    <2>2. QED
      BY <1>1, <2>1, UpToFinite
  <1>3. DOMAIN program[t] = 1 .. Len(program[t]) /\ Len(program[t]) \in Nat
    BY <1>1
  <1>4. ASSUME NEW a \in CallsOf(t, key), NEW b \in CallsOf(t, key), a < b
        PROVE  Cardinality(CallsUpTo(t, key, a)) # Cardinality(CallsUpTo(t, key, b))
    <2>1. a \in Nat /\ b \in Nat
      BY <1>3 DEF CallsOf
    <2>2. /\ \A x \in DOMAIN program[t] : x <= a => x <= b
          /\ ~(b <= a) /\ b <= b
      BY <1>3, <1>4, <2>1
    <2>3. CallsUpTo(t, key, a) \subseteq CallsUpTo(t, key, b)
      BY <2>2 DEF CallsUpTo, CallsOf
    <2>4. b \in CallsUpTo(t, key, b) /\ b \notin CallsUpTo(t, key, a)
      BY <2>2 DEF CallsUpTo
    <2>5. CallsUpTo(t, key, a) # CallsUpTo(t, key, b)
      BY <2>4
    <2>6. QED
      BY <1>2, <2>3, <2>5, FS_Subset
  <1>5. c \in Nat /\ d \in Nat
    BY <1>3 DEF CallsOf
  <1>6. ~(c < d) /\ ~(d < c)
    BY <1>4
  <1>7. QED
    BY <1>5, <1>6

\* In a whole recording the rows of a kept key are numbered like its calls.
LEMMA RowsInOrder ==
  ASSUME RunsTypeOK, NEW trace \in Seq(Line), NEW impl,
         RecordingInv(trace, impl, done_left),
         \A u \in Threads : done_left[u] = Len(program[u]),
         NEW key \in KeysOf(trace), NEW t \in Threads, OnlyOf(t, key)
  PROVE  /\ Cardinality(RowsOf(trace, key)) = Cardinality(CallsOf(t, key))
         /\ \A i \in RowsOf(trace, key) : \E c \in CallsOf(t, key) :
              /\ impl[t][c] = trace[i].output
              /\ Cardinality(CallsUpTo(t, key, c)) = Occurrence(trace, i)
  <1>1. key \in AllKeys
    BY KeysFinite
  <1>2. PICK k \in KeptAt(trace) : KeyOf(trace[k]) = key
    BY DEF KeysOf
  <1>3. ASSUME NEW i \in DOMAIN trace, KeyOf(trace[i]) = key
        PROVE  i \in RowsOf(trace, key)
    <2>1. trace[i].fn = trace[k].fn
      BY <1>2, <1>3 DEF KeyOf
    <2>2. trace[i].whole
      BY DEF RecordingInv
    <2>3. Kept(trace[i])
      BY <1>2, <2>1, <2>2 DEF Kept, KeptAt
    <2>4. QED
      BY <1>3, <2>3 DEF RowsOf, KeptAt
  <1>4. \A i : i \in RowsOf(trace, key) => i \in DOMAIN trace /\ KeyOf(trace[i]) = key
    BY DEF RowsOf, KeptAt
  <1>5. Len(trace) \in Nat /\ DOMAIN trace = 1 .. Len(trace)
    OBVIOUS
  <1>6. \A i \in DOMAIN trace : i <= Len(trace)
    BY <1>5
  <1>7. LinesUpTo(trace, key, Len(trace)) = RowsOf(trace, key)
    BY <1>3, <1>4, <1>6 DEF LinesUpTo
  <1>8. ASSUME NEW i \in RowsOf(trace, key)
        PROVE  Occurrence(trace, i) = Cardinality(LinesUpTo(trace, key, i))
    <2>1. LinesUpTo(trace, key, i) = {j \in RowsOf(trace, key) : j <= i}
      BY <1>3, <1>4 DEF LinesUpTo
    <2>2. KeyOf(trace[i]) = key
      BY <1>4
    <2>3. QED
      BY <2>1, <2>2 DEF Occurrence
  <1>9. CallsUpTo(t, key, done_left[t]) = CallsOf(t, key)
    <2>1. /\ program[t] \in Seq(AllKeys) /\ done_left[t] = Len(program[t])
      BY ProgramType
    <2>2. \A c \in DOMAIN program[t] : c <= done_left[t]
      BY <2>1
    <2>3. QED
      BY <2>2 DEF CallsUpTo, CallsOf
  <1>10. OrderInv(trace, impl, done_left)
    BY DEF RecordingInv
  <1>11. Cardinality(RowsOf(trace, key)) = Cardinality(CallsOf(t, key))
    BY <1>1, <1>7, <1>9, <1>10 DEF OrderInv
  <1>12. ASSUME NEW i \in RowsOf(trace, key)
         PROVE  \E c \in CallsOf(t, key) :
                  /\ impl[t][c] = trace[i].output
                  /\ Cardinality(CallsUpTo(t, key, c)) = Occurrence(trace, i)
    <2>1. i \in DOMAIN trace /\ KeyOf(trace[i]) = key
      BY <1>4
    <2>2. \E c \in CallsUpTo(t, key, done_left[t]) :
            /\ impl[t][c] = trace[i].output
            /\ Cardinality(CallsUpTo(t, key, c))
                 = Cardinality(LinesUpTo(trace, key, i))
      BY <1>1, <1>10, <2>1 DEF OrderInv
    <2>3. QED
      BY <1>8, <1>9, <2>2
  <1>13. QED
    BY <1>11, <1>12

\* The n-th output of the key is that of the n-th call.
LEMMA NthIsCall ==
  ASSUME RunsTypeOK, NEW trace \in Seq(Line), NEW impl,
         RecordingInv(trace, impl, done_left),
         \A u \in Threads : done_left[u] = Len(program[u]),
         NEW key \in KeysOf(trace), NEW t \in Threads, OnlyOf(t, key),
         NEW c \in CallsOf(t, key)
  PROVE  LET n == Cardinality(CallsUpTo(t, key, c))
         IN  /\ n \in 1 .. Cardinality(RowsOf(trace, key))
             /\ NthOutput(trace, key, n) = {impl[t][c]}
  <1> DEFINE n == Cardinality(CallsUpTo(t, key, c))
             m == Cardinality(RowsOf(trace, key))
  <1>1. /\ m = Cardinality(CallsOf(t, key))
        /\ \A i \in RowsOf(trace, key) : \E d \in CallsOf(t, key) :
             /\ impl[t][d] = trace[i].output
             /\ Cardinality(CallsUpTo(t, key, d)) = Occurrence(trace, i)
    BY RowsInOrder
  <1>2. program[t] \in Seq(AllKeys)
    BY ProgramType
  <1>3. n \in 1 .. m
    <2>1. c \in Nat
      BY <1>2 DEF CallsOf
    <2>2. c \in CallsUpTo(t, key, c)
      BY <2>1 DEF CallsUpTo
    <2>3. CallsUpTo(t, key, c) \subseteq CallsOf(t, key)
      BY DEF CallsUpTo
    <2>4. IsFiniteSet(CallsOf(t, key))
      <3>1. CallsOf(t, key) \subseteq 1 .. Len(program[t]) /\ Len(program[t]) \in Nat
        BY <1>2 DEF CallsOf
      <3>2. IsFiniteSet(1 .. Len(program[t]))
        BY <3>1, FS_Interval
      <3>3. QED
        BY <3>1, <3>2, FS_Subset
    <2>5. /\ IsFiniteSet(CallsUpTo(t, key, c))
          /\ n <= Cardinality(CallsOf(t, key))
      BY <2>3, <2>4, FS_Subset
    <2>6. n \in Nat /\ Cardinality(CallsOf(t, key)) \in Nat
      BY <2>4, <2>5, FS_CardinalityType
    <2>7. n # 0
      BY <2>2, <2>5, FS_EmptySet
    <2> HIDE DEF n, m
    <2>8. QED
      BY <1>1, <2>5, <2>6, <2>7 DEF m
  <1> HIDE DEF m
  <1>4. ASSUME NEW i \in RowsOf(trace, key), Occurrence(trace, i) = n
        PROVE  trace[i].output = impl[t][c]
    <2>1. PICK d \in CallsOf(t, key) :
            /\ impl[t][d] = trace[i].output
            /\ Cardinality(CallsUpTo(t, key, d)) = Occurrence(trace, i)
      BY <1>1
    <2>2. d = c
      BY <1>4, <2>1, CallNumbersDiffer
    <2>3. QED
      BY <2>1, <2>2
  <1> HIDE DEF n
  <1>5. PICK i \in RowsOf(trace, key) : Occurrence(trace, i) = n
    BY <1>3, EveryOccurrence DEF m
  <1>6. NthOutput(trace, key, n) = {impl[t][c]}
    BY <1>4, <1>5 DEF NthOutput
  <1>7. QED
    BY <1>3, <1>6 DEF n, m

\* Every number of a row is the number of a call.
LEMMA CallOfNumber ==
  ASSUME RunsTypeOK, NEW trace \in Seq(Line), NEW impl,
         RecordingInv(trace, impl, done_left),
         \A u \in Threads : done_left[u] = Len(program[u]),
         NEW key \in KeysOf(trace), NEW t \in Threads, OnlyOf(t, key),
         NEW n \in 1 .. Cardinality(RowsOf(trace, key))
  PROVE  \E c \in CallsOf(t, key) : Cardinality(CallsUpTo(t, key, c)) = n
  <1>1. PICK i \in RowsOf(trace, key) : Occurrence(trace, i) = n
    BY EveryOccurrence
  <1>2. QED
    BY <1>1, RowsInOrder

(***************************************************************************)
(* Two runs of one program miss no input on either side (compare_pairs,    *)
(* src/src/bin/tracehash-compare.rs:45), and where no input is given to a  *)
(* function by two threads, compare_occurrences                            *)
(* (src/src/bin/tracehash-compare.rs:224) pairs each call's row with that  *)
(* of the same call: the exit status is 0 exactly if every call got the    *)
(* same output, of whatever calls came before.                             *)
(***************************************************************************)
THEOREM CallByCall == RunsSpec => []CallsComparedWithThemselves
  <1>1. RInv => CallsComparedWithThemselves
    <2> SUFFICES ASSUME RInv, RunsCompared
                 PROVE  /\ missing = 0
                        /\ OneThreadAtATime => (status = 0 <=> SameAnswers)
      BY DEF CallsComparedWithThemselves
    <2>1. /\ CInv /\ TypeOK /\ RunsTypeOK /\ Recorded
          /\ RecordingInv(left, impl_left, done_left)
          /\ RecordingInv(right, impl_right, done_left)
          /\ KeysOf(left) = KeysOf(right) /\ KeptKeys = KeysOf(left)
          /\ missing = 0
      BY WholeRecordings
    <2>2. /\ left \in Seq(Line) /\ right \in Seq(Line)
          /\ \A u \in Threads : done_left[u] = Len(program[u])
      BY <2>1, ProgramType DEF Recorded
    <2>3. ASSUME OneThreadAtATime, NEW key \in KeptKeys, NEW t \in Threads,
                 CallsOf(t, key) # {}
          PROVE  OnlyOf(t, key)
      BY <2>3 DEF OneThreadAtATime, OnlyOf
    <2>4. ASSUME OneThreadAtATime, SameAnswers, NEW key \in KeysOf(left)
          PROVE  DifferingAt(key) = {}
      <3>1. PICK t \in Threads : CallsOf(t, key) # {}
        <4>1. PICK i \in RowsOf(left, key) : TRUE
          BY DEF KeysOf, RowsOf
        <4>2. PICK ti \in CallsWith(impl_left, done_left, key, left[i].output) :
                TRUE
          BY <2>1, <2>2, ProgramType, OutputOfRow
        <4>3. QED
          BY <2>1, <4>2, CalledWith
      <3>2. OnlyOf(t, key)
        BY <2>1, <2>3, <2>4, <3>1
      <3>3. ASSUME NEW n \in 1 .. MostRows(key)
            PROVE  NthOutput(left, key, n) = NthOutput(right, key, n)
        <4>1. \/ MostRows(key) = Cardinality(RowsOf(left, key))
              \/ MostRows(key) = Cardinality(RowsOf(right, key))
          BY DEF MostRows
        <4>2. key \in KeysOf(right)
          BY <2>1
        <4>3. PICK c \in CallsOf(t, key) : Cardinality(CallsUpTo(t, key, c)) = n
          BY <2>1, <2>2, <3>2, <4>1, <4>2, CallOfNumber
        <4>4. NthOutput(left, key, n) = {impl_left[t][c]}
          BY <2>1, <2>2, <3>2, <4>3, NthIsCall
        <4>5. NthOutput(right, key, n) = {impl_right[t][c]}
          BY <2>1, <2>2, <3>2, <4>2, <4>3, NthIsCall
        <4>6. impl_left[t][c] = impl_right[t][c]
          BY <2>1, <2>4 DEF SameAnswers
        <4>7. QED
          BY <4>4, <4>5, <4>6
      <3>4. QED
        BY <3>3 DEF DifferingAt
    <2>5. ASSUME OneThreadAtATime, status = 0, NEW key \in KeptKeys,
                 NEW t \in Threads, NEW c \in CallsOf(t, key)
          PROVE  impl_left[t][c] = impl_right[t][c]
      <3>1. SameTraces
        BY <2>1, <2>5, ReportingNow DEF DivergenceReported, RunsCompared, Compared
      <3>2. key \in AllKeys /\ key \in KeysOf(left) /\ key \in KeysOf(right)
        BY <2>1 DEF KeptKeys
      <3>3. OnlyOf(t, key)
        BY <2>3, <2>5
      <3> DEFINE n == Cardinality(CallsUpTo(t, key, c))
      <3>4. /\ n \in 1 .. Cardinality(RowsOf(left, key))
            /\ NthOutput(left, key, n) = {impl_left[t][c]}
        BY <2>1, <2>2, <3>2, <3>3, NthIsCall
      <3>5. NthOutput(right, key, n) = {impl_right[t][c]}
        BY <2>1, <2>2, <3>2, <3>3, NthIsCall
      <3> HIDE DEF n
      <3>6. n \in 1 .. Len(left) + Len(right)
        <4>1. /\ Cardinality(RowsOf(left, key)) <= Len(left)
              /\ Cardinality(RowsOf(left, key)) \in Nat
          BY <2>2, RowsOfFinite
        <4>2. Len(left) \in Nat /\ Len(right) \in Nat
          BY <2>2
        <4>3. QED
          BY <3>4, <4>1, <4>2
      <3>7. NthOutput(left, key, n) = NthOutput(right, key, n)
        BY <3>1, <3>2, <3>6 DEF SameTraces, SameOutputs
      <3>8. QED
        BY <3>4, <3>5, <3>7
    <2>6. ASSUME OneThreadAtATime, SameAnswers
          PROVE  status = 0
      BY <2>4, <2>6, NoDifferenceNoError
    <2>7. QED
      BY <2>1, <2>5, <2>6 DEF SameAnswers
  <1>2. QED
    BY <1>1, RunsInvariance, PTL
=============================================================================
