-------------------------------- MODULE Tables --------------------------------
(***************************************************************************)
(* Facts about tables, sequences of rows, and about what the sessions hold *)
(* in memory.  The proofs about each component rest on them.               *)
(***************************************************************************)
EXTENDS Ledgers, Sequences, SequenceTheorems, FiniteSetTheorems, TLAPS

\* A row added at the end of a table.
LEMMA RowAdded ==
    ASSUME NEW S, NEW table \in Seq(S), NEW row \in S
    PROVE  /\ Append(table, row) \in Seq(S)
           /\ Len(table) \in Nat
           /\ DOMAIN table = 1..Len(table)
           /\ Len(Append(table, row)) = Len(table) + 1
           /\ DOMAIN Append(table, row) = 1..(Len(table) + 1)
           /\ \A i \in DOMAIN table : Append(table, row)[i] = table[i]
           /\ Append(table, row)[Len(table) + 1] = row
BY AppendProperties, LenProperties

\* A row replaced.
LEMMA RowChanged ==
    ASSUME NEW S, NEW table \in Seq(S), NEW i \in DOMAIN table, NEW row \in S
    PROVE  /\ [table EXCEPT ![i] = row] \in Seq(S)
           /\ Len([table EXCEPT ![i] = row]) = Len(table)
           /\ DOMAIN [table EXCEPT ![i] = row] = DOMAIN table
           /\ \A j \in DOMAIN table :
                [table EXCEPT ![i] = row][j] = IF j = i THEN row ELSE table[j]
BY ExceptSeq, LenProperties

\* A change of a row that is not there changes nothing.
LEMMA RowMissing ==
    ASSUME NEW S, NEW table \in Seq(S), NEW i, i \notin DOMAIN table, NEW row
    PROVE  [table EXCEPT ![i] = row] = table
<1>1. table = [j \in DOMAIN table |-> table[j]]
  BY LenProperties
<1> QED BY <1>1

\* A table of the same length.
LEMMA RowsMapped ==
    ASSUME NEW S, NEW n \in Nat, NEW f, f \in [1..n -> S]
    PROVE  f \in Seq(S)
BY IsASeq

\* A row is of its table's type.
LEMMA RowTyped ==
    ASSUME NEW S, NEW table \in Seq(S), NEW i \in DOMAIN table
    PROVE  table[i] \in S
BY ElementOfSeq, LenProperties

\* The rows of a table mapped one by one, when a row is added to it.
LEMMA AddedMapped ==
    ASSUME NEW S, NEW T, NEW table \in Seq(S), NEW row \in S, NEW f \in [S -> T]
    PROVE  [i \in DOMAIN Append(table, row) |-> f[Append(table, row)[i]]]
              = Append([i \in DOMAIN table |-> f[table[i]]], f[row])
<1> DEFINE n == Len(table)
           longer == Append(table, row)
           before == [i \in DOMAIN table |-> f[table[i]]]
           after == [i \in DOMAIN longer |-> f[longer[i]]]
<1>1. /\ n \in Nat /\ DOMAIN table = 1..n
      /\ DOMAIN longer = 1..(n + 1)
      /\ \A i \in DOMAIN table : longer[i] = table[i]
      /\ longer[n + 1] = row
  BY RowAdded
<1>2. before \in Seq(T) /\ Len(before) = n
  <2>1. \A i \in 1..n : table[i] \in S
    BY <1>1, RowTyped
  <2>2. before \in [1..n -> T]
    BY <1>1, <2>1
  <2>3. before \in Seq(T)
    BY <1>1, <2>2, RowsMapped
  <2> QED BY <1>1, <2>2, <2>3, LenProperties
<1>3. f[row] \in T
  OBVIOUS
<1>4. DOMAIN before = DOMAIN table /\ \A i \in DOMAIN table : before[i] = f[table[i]]
  OBVIOUS
<1>5. DOMAIN after = 1..(n + 1) /\ \A i \in 1..(n + 1) : after[i] = f[longer[i]]
  BY <1>1
<1>6. after = [i \in 1..(n + 1) |-> after[i]]
  BY <1>1
<1> HIDE DEF before, after, longer, n
<1>7. /\ DOMAIN Append(before, f[row]) = 1..(n + 1)
      /\ Append(before, f[row]) \in Seq(T)
      /\ \A i \in 1..n : Append(before, f[row])[i] = before[i]
      /\ Append(before, f[row])[n + 1] = f[row]
  <2>1. DOMAIN before = 1..n
    BY <1>1, <1>4
  <2> QED BY <1>2, <1>3, <2>1, RowAdded
<1>8. Append(before, f[row]) = [i \in 1..(n + 1) |-> Append(before, f[row])[i]]
  BY <1>7, LenProperties
<1>9. \A i \in 1..(n + 1) : after[i] = Append(before, f[row])[i]
  <2> TAKE i \in 1..(n + 1)
  <2>1. CASE i = n + 1
    BY <1>1, <1>5, <1>7, <2>1
  <2>2. CASE i # n + 1
    <3>1. i \in 1..n /\ i \in DOMAIN table
      BY <1>1, <2>2
    <3> QED BY <1>1, <1>4, <1>5, <1>7, <3>1
  <2> QED BY <2>1, <2>2
<1> HIDE <1>1, <1>2, <1>3, <1>4, <1>5, <1>7
<1>10. after = Append(before, f[row])
  BY <1>6, <1>8, <1>9
<1> QED BY <1>10 DEF after, before, longer

\* What one session holds in memory is replaced.
LEMMA EntryChanged ==
    ASSUME NEW D, NEW S, NEW f \in [D -> S], NEW d \in D, NEW e \in S
    PROVE  /\ [f EXCEPT ![d] = e] \in [D -> S]
           /\ \A x \in D : [f EXCEPT ![d] = e][x] = IF x = d THEN e ELSE f[x]
OBVIOUS

\* The units of one row.
LEMMA UnitsOfRow ==
    ASSUME NEW x, NEW n \in Nat
    PROVE  IsFiniteSet({x} \X (1..n)) /\ Cardinality({x} \X (1..n)) = n
<1>1. IsFiniteSet(1..n) /\ Cardinality(1..n) = n
  BY FS_Interval
<1>2. IsFiniteSet({x}) /\ Cardinality({x}) = 1
  BY FS_Singleton
<1>3. /\ IsFiniteSet({x} \X (1..n))
      /\ Cardinality({x} \X (1..n)) = Cardinality({x}) * Cardinality(1..n)
  BY <1>1, <1>2, FS_Product
<1>4. 1 * n = n
  OBVIOUS
<1> QED BY <1>1, <1>2, <1>3, <1>4

\* The counts of c and of d are the same but for x, which counts m in c, n in d, and
\* nothing where it is not.
DifferAt(x, c, m, d, n) ==
    /\ x \in DOMAIN c => c[x] = m
    /\ x \notin DOMAIN c => m = 0
    /\ x \in DOMAIN d => d[x] = n
    /\ x \notin DOMAIN d => n = 0
    /\ \A i : i # x => (i \in DOMAIN c <=> i \in DOMAIN d)
    /\ \A i \in DOMAIN c : i # x => d[i] = c[i]

\* One count changed, or a row came or went: the sum changes by as much.
LEMMA TallyChanged ==
    ASSUME NEW c, NEW d, NEW x, NEW m \in Nat, NEW n \in Nat,
           IsFiniteSet(Units(c)), DifferAt(x, c, m, d, n)
    PROVE  /\ IsFiniteSet(Units(d))
           /\ Tally(c) \in Nat
           /\ Tally(d) \in Nat
           /\ Tally(d) - n = Tally(c) - m
<1> USE DEF DifferAt
<1> DEFINE Rest == {u \in Units(c) : u[1] # x}
<1>1. \A u : u \in Units(c) <=> \E i \in DOMAIN c : u \in {i} \X (1..c[i])
  BY DEF Units
<1>2. \A u : u \in Units(d) <=> \E i \in DOMAIN d : u \in {i} \X (1..d[i])
  BY DEF Units
<1>3. 1..0 = {}
  OBVIOUS
<1>4. Units(c) = Rest \cup ({x} \X (1..m))
  BY <1>1, <1>3
<1>5. Units(d) = Rest \cup ({x} \X (1..n))
  BY <1>1, <1>2, <1>3
<1>6. /\ Rest \cap ({x} \X (1..m)) = {}
      /\ Rest \cap ({x} \X (1..n)) = {}
  OBVIOUS
<1>7. IsFiniteSet(Rest)
  <2>1. Rest \subseteq Units(c)
    OBVIOUS
  <2> QED BY <2>1, FS_Subset
<1>8. Cardinality(Rest) \in Nat
  BY <1>7, FS_CardinalityType
<1> HIDE DEF Rest
<1>9. ASSUME NEW k \in Nat, Rest \cap ({x} \X (1..k)) = {}
      PROVE  /\ IsFiniteSet(Rest \cup ({x} \X (1..k)))
             /\ Cardinality(Rest \cup ({x} \X (1..k))) = Cardinality(Rest) + k
  <2>1. IsFiniteSet({x} \X (1..k)) /\ Cardinality({x} \X (1..k)) = k
    BY UnitsOfRow
  <2>2. /\ IsFiniteSet(Rest \cup ({x} \X (1..k)))
        /\ Cardinality(Rest \cup ({x} \X (1..k)))
              = Cardinality(Rest) + Cardinality({x} \X (1..k)) - Cardinality({})
    BY <1>7, <1>9, <2>1, FS_Union
  <2>3. Cardinality({}) = 0
    BY FS_EmptySet
  <2> QED BY <1>8, <2>1, <2>2, <2>3
<1>10. Tally(c) = Cardinality(Rest) + m
  BY <1>4, <1>6, <1>9 DEF Tally
<1>11. IsFiniteSet(Units(d)) /\ Tally(d) = Cardinality(Rest) + n
  BY <1>5, <1>6, <1>9 DEF Tally
<1> QED BY <1>8, <1>10, <1>11

\* No count changed.
LEMMA TallySame ==
    ASSUME NEW c, NEW d, DOMAIN d = DOMAIN c, \A i \in DOMAIN c : d[i] = c[i]
    PROVE  Units(d) = Units(c) /\ Tally(d) = Tally(c)
BY DEF Units, Tally

LEMMA TallyOfNothing ==
    ASSUME NEW c, DOMAIN c = {}
    PROVE  IsFiniteSet(Units(c)) /\ Tally(c) = 0
<1>1. Units(c) = {}
  BY DEF Units
<1> QED BY <1>1, FS_EmptySet DEF Tally

\* As many units as a row counts, of finitely many rows.
LEMMA FiniteColumn ==
    ASSUME NEW c, IsFiniteSet(DOMAIN c), \A i \in DOMAIN c : c[i] \in Nat
    PROVE  IsFiniteSet(Units(c)) /\ Tally(c) \in Nat
<1> DEFINE Row(i) == {i} \X (1..c[i])
           rows == {Row(i) : i \in DOMAIN c}
           f == [i \in DOMAIN c |-> Row(i)]
<1>1. f \in Surjection(DOMAIN c, rows)
  BY DEF Surjection
<1>2. IsFiniteSet(rows)
  BY <1>1, FS_Surjection
<1>3. \A r \in rows : IsFiniteSet(r)
  <2>1. ASSUME NEW i \in DOMAIN c
        PROVE  IsFiniteSet(Row(i))
    BY UnitsOfRow
  <2> QED BY <2>1
<1>4. Units(c) = UNION rows
  BY DEF Units
<1> HIDE DEF rows
<1>5. IsFiniteSet(Units(c))
  BY <1>2, <1>3, <1>4, FS_UNION
<1> QED BY <1>5, FS_CardinalityType DEF Tally

\* A column none of whose rows counts more than the row of another that f takes it to,
\* no two to the same one, adds up to no more.
LEMMA TallyBound ==
    ASSUME NEW c, NEW d, NEW f \in Injection(DOMAIN c, DOMAIN d), IsFiniteSet(Units(d)),
           \A i \in DOMAIN c : c[i] \in Nat /\ d[f[i]] \in Nat /\ c[i] <= d[f[i]]
    PROVE  /\ IsFiniteSet(Units(c))
           /\ Tally(c) \in Nat
           /\ Tally(d) \in Nat
           /\ Tally(c) <= Tally(d)
<1>1. \A u : u \in Units(c) <=> \E i \in DOMAIN c : \E n \in 1..c[i] : u = <<i, n>>
  BY DEF Units
<1>2. \A u : u \in Units(d) <=> \E i \in DOMAIN d : \E n \in 1..d[i] : u = <<i, n>>
  BY DEF Units
<1>3. /\ f \in [DOMAIN c -> DOMAIN d]
      /\ \A i, j \in DOMAIN c : f[i] = f[j] => i = j
  BY DEF Injection, IsInjective
<1> DEFINE g == [u \in Units(c) |-> <<f[u[1]], u[2]>>]
<1>4. g \in [Units(c) -> Units(d)]
  <2>1. ASSUME NEW u \in Units(c)
        PROVE  <<f[u[1]], u[2]>> \in Units(d)
    <3>1. PICK i \in DOMAIN c : \E n \in 1..c[i] : u = <<i, n>>
      BY <1>1
    <3>3. PICK n \in 1..c[i] : u = <<i, n>>
      BY <3>1
    <3>2. f[i] \in DOMAIN d /\ n \in 1..d[f[i]]
      BY <1>3
    <3> QED BY <1>2, <3>2, <3>3
  <2> QED BY <2>1
<1>5. ASSUME NEW u \in Units(c), NEW v \in Units(c), g[u] = g[v]
      PROVE  u = v
  <2>5. PICK i \in DOMAIN c : \E n \in 1..c[i] : u = <<i, n>>
    BY <1>1
  <2>6. PICK j \in DOMAIN c : \E n \in 1..c[j] : v = <<j, n>>
    BY <1>1
  <2>1. PICK n \in 1..c[i] : u = <<i, n>>
    BY <2>5
  <2>2. PICK m \in 1..c[j] : v = <<j, m>>
    BY <2>6
  <2>3. g[u] = <<f[i], n>> /\ g[v] = <<f[j], m>>
    BY <2>1, <2>2
  <2>7. g[u] = g[v]
    BY <1>5
  <2> HIDE DEF g
  <2>4. f[i] = f[j] /\ n = m
    <3>1. <<f[i], n>> = <<f[j], m>>
      BY <2>3, <2>7
    <3> QED BY <3>1
  <2> QED BY <1>3, <2>1, <2>2, <2>4
<1>6. g \in Injection(Units(c), Units(d))
  BY <1>4, <1>5 DEF Injection, IsInjective
<1> QED BY <1>6, FS_Injection, FS_CardinalityType DEF Tally

\* In particular, a column of some of the rows, none of which counts more.
LEMMA TallyOfSome ==
    ASSUME NEW c, NEW d, DOMAIN c \subseteq DOMAIN d, IsFiniteSet(Units(d)),
           \A i \in DOMAIN c : c[i] \in Nat /\ d[i] \in Nat /\ c[i] <= d[i]
    PROVE  /\ IsFiniteSet(Units(c))
           /\ Tally(c) \in Nat
           /\ Tally(d) \in Nat
           /\ Tally(c) <= Tally(d)
<1> DEFINE f == [i \in DOMAIN c |-> i]
<1>1. f \in Injection(DOMAIN c, DOMAIN d)
  BY DEF Injection, IsInjective
<1>2. \A i \in DOMAIN c : f[i] = i
  OBVIOUS
<1> HIDE DEF f
<1> QED BY <1>1, <1>2, TallyBound

\* d is the column c for the rows in S.
IsPart(d, c, S) ==
    /\ \A i : i \in DOMAIN d <=> i \in DOMAIN c /\ i \in S
    /\ \A i \in DOMAIN d : d[i] = c[i]

\* A column is two columns, of the rows in S and of the others.
LEMMA TallySplit ==
    ASSUME NEW c, NEW S, NEW T, NEW a, NEW b, IsFiniteSet(Units(c)),
           IsPart(a, c, S), IsPart(b, c, T),
           \A i \in DOMAIN c : i \in T <=> i \notin S
    PROVE  /\ IsFiniteSet(Units(a)) /\ IsFiniteSet(Units(b))
           /\ Tally(a) \in Nat /\ Tally(b) \in Nat
           /\ Tally(c) = Tally(a) + Tally(b)
<1>1. Units(c) = Units(a) \cup Units(b)
  BY DEF Units, IsPart
<1>2. Units(a) \cap Units(b) = {}
  BY DEF Units, IsPart
<1>3. IsFiniteSet(Units(a)) /\ IsFiniteSet(Units(b))
  BY <1>1, FS_Subset
<1>4. Tally(a) \in Nat /\ Tally(b) \in Nat
  BY <1>3, FS_CardinalityType DEF Tally
<1>5. Cardinality(Units(a) \cup Units(b))
         = Cardinality(Units(a)) + Cardinality(Units(b)) - Cardinality({})
  BY <1>2, <1>3, FS_Union
<1>6. Cardinality({}) = 0
  BY FS_EmptySet
<1> QED BY <1>1, <1>3, <1>4, <1>5, <1>6 DEF Tally

\* Rows that count nothing may be left out.
LEMMA TallyOfCounting ==
    ASSUME NEW c, NEW d, DOMAIN d \subseteq DOMAIN c,
           \A i \in DOMAIN d : d[i] = c[i],
           \A i \in DOMAIN c : i \notin DOMAIN d => c[i] = 0
    PROVE  Tally(c) = Tally(d)
<1>1. \A u : u \in Units(c) <=> \E i \in DOMAIN c : u \in {i} \X (1..c[i])
  BY DEF Units
<1>2. \A u : u \in Units(d) <=> \E i \in DOMAIN d : u \in {i} \X (1..d[i])
  BY DEF Units
<1>3. 1..0 = {}
  OBVIOUS
<1>4. Units(c) = Units(d)
  BY <1>1, <1>2, <1>3
<1> QED BY <1>4 DEF Tally

\* A table has finitely many rows.
LEMMA RowsFinite ==
    ASSUME NEW table, NEW S, table \in Seq(S)
    PROVE  /\ IsFiniteSet(DOMAIN table)
           /\ Cardinality(DOMAIN table) = Len(table)
           /\ Len(table) \in Nat
<1>1. DOMAIN table = 1..Len(table) /\ Len(table) \in Nat
  BY LenProperties
<1>2. IsFiniteSet(1..Len(table)) /\ Cardinality(1..Len(table)) = Len(table)
  BY <1>1, FS_Interval
<1> QED BY <1>1, <1>2

\* Of two kinds of rows that no row is of both, there are no more than rows.
LEMMA DisjointRows ==
    ASSUME NEW D, IsFiniteSet(D), NEW S \in SUBSET D, NEW T \in SUBSET D, S \cap T = {}
    PROVE  /\ IsFiniteSet(S) /\ IsFiniteSet(T)
           /\ Cardinality(S) \in Nat /\ Cardinality(T) \in Nat /\ Cardinality(D) \in Nat
           /\ Cardinality(S \cup T) = Cardinality(S) + Cardinality(T)
           /\ Cardinality(S) + Cardinality(T) <= Cardinality(D)
<1>1. IsFiniteSet(S) /\ IsFiniteSet(T)
  BY FS_Subset
<1>2. /\ Cardinality(S) \in Nat /\ Cardinality(T) \in Nat /\ Cardinality(D) \in Nat
  BY <1>1, FS_CardinalityType
<1>3. Cardinality(S \cup T) = Cardinality(S) + Cardinality(T) - Cardinality({})
  BY <1>1, FS_Union
<1>4. Cardinality({}) = 0
  BY FS_EmptySet
<1>5. S \cup T \in SUBSET D
  OBVIOUS
<1>6. Cardinality(S \cup T) <= Cardinality(D)
  BY <1>5, FS_Subset
<1> QED BY <1>1, <1>2, <1>3, <1>4, <1>6

\* Numbers are well ordered.  (Of as many numbers as there are, each has fewer below it: if none
\* had none, two would have as many.)
LEMMA LeastOfFinite ==
    ASSUME NEW T, T \subseteq Nat, IsFiniteSet(T), T # {}
    PROVE  \E x \in T : \A y \in T : x <= y
<1> DEFINE Below(x) == {y \in T : y < x}
           f == [x \in T |-> Cardinality(Below(x))]
           n == Cardinality(T)
<1>1. n \in Nat /\ n # 0
  BY FS_CardinalityType, FS_EmptySet
<1>2. \A x \in T : IsFiniteSet(Below(x)) /\ f[x] \in Nat /\ f[x] < n
  <2> SUFFICES ASSUME NEW x \in T
               PROVE  IsFiniteSet(Below(x)) /\ f[x] \in Nat /\ f[x] < n
    OBVIOUS
  <2>1. Below(x) \subseteq T /\ Below(x) # T
    BY SMT
  <2> HIDE DEF Below
  <2>2. IsFiniteSet(Below(x)) /\ Cardinality(Below(x)) <= n /\ Cardinality(Below(x)) # n
    BY <2>1, FS_Subset
  <2>3. Cardinality(Below(x)) \in Nat
    BY <2>2, FS_CardinalityType
  <2> QED BY <1>1, <2>2, <2>3
<1>3. \A x, y \in T : x < y => f[x] < f[y]
  <2> SUFFICES ASSUME NEW x \in T, NEW y \in T, x < y PROVE f[x] < f[y]
    OBVIOUS
  <2>1. Below(x) \subseteq Below(y) /\ Below(x) # Below(y)
    <3>1. x \in Below(y) /\ x \notin Below(x)
      OBVIOUS
    <3>2. \A z \in Below(x) : z < x /\ z \in Nat /\ z \in T /\ x \in Nat /\ y \in Nat
      OBVIOUS
    <3>3. \A z \in Below(x) : z \in Below(y)
      BY <3>2
    <3> HIDE DEF Below
    <3> QED BY <3>1, <3>3
  <2>2. IsFiniteSet(Below(y)) /\ f[x] \in Nat /\ f[y] \in Nat
    BY <1>2
  <2> HIDE DEF Below
  <2>3. /\ Cardinality(Below(x)) <= Cardinality(Below(y))
        /\ Cardinality(Below(x)) # Cardinality(Below(y))
    BY <2>1, <2>2, FS_Subset
  <2> QED BY <2>2, <2>3
<1> HIDE DEF f
<1>4. \A x, y \in T : f[x] = f[y] => x = y
  <2> SUFFICES ASSUME NEW x \in T, NEW y \in T, x # y PROVE f[x] # f[y]
    OBVIOUS
  <2>1. f[x] \in Nat /\ f[y] \in Nat /\ x \in Nat /\ y \in Nat
    BY <1>2
  <2>2. (x < y => f[x] < f[y]) /\ (y < x => f[y] < f[x])
    BY <1>3
  <2> QED BY <2>1, <2>2
<1>5. \E x \in T : f[x] = 0
  <2> SUFFICES ASSUME \A x \in T : f[x] # 0 PROVE FALSE
    OBVIOUS
  <2>1. \A x \in T : f[x] \in 1..(n - 1)
    <3> HIDE DEF Below, n
    <3> QED BY <1>1, <1>2
  <2>2. IsFiniteSet(1..(n - 1)) /\ Cardinality(1..(n - 1)) < Cardinality(T)
    <3> HIDE DEF n
    <3>1. 1 \in Int /\ n - 1 \in Int
      BY <1>1
    <3>2. IsFiniteSet(1..(n - 1)) /\ Cardinality(1..(n - 1)) = IF 1 > n - 1 THEN 0 ELSE n - 1 - 1 + 1
      BY <3>1, FS_Interval
    <3> QED BY <1>1, <3>2 DEF n
  <2>3. f \in [T -> 1..(n - 1)]
    BY <2>1 DEF f
  <2> HIDE DEF n
  <2>4. \E x, y \in T : x # y /\ f[x] = f[y]
    BY <2>2, <2>3, FS_PigeonHole
  <2> QED BY <2>4, <1>4
<1>6. PICK x \in T : f[x] = 0
  BY <1>5
<1>7. Below(x) = {}
  <2>1. IsFiniteSet(Below(x)) /\ Cardinality(Below(x)) = 0
    BY <1>2, <1>6 DEF f
  <2> HIDE DEF Below
  <2> QED BY <2>1, FS_EmptySet
<1> QED BY <1>7

LEMMA LeastNumber ==
    ASSUME NEW T, T \subseteq Nat, T # {}
    PROVE  \E x \in T : \A y \in T : x <= y
<1> PICK n \in T : TRUE
  OBVIOUS
<1> DEFINE U == T \cap (0..n)
<1>1. IsFiniteSet(U) /\ U \subseteq Nat /\ n \in U
  <2>1. IsFiniteSet(0..n)
    BY FS_Interval
  <2> QED BY <2>1, FS_Subset
<1>2. PICK x \in U : \A y \in U : x <= y
  <2> HIDE DEF U
  <2> QED BY <1>1, LeastOfFinite
<1> QED BY <1>1, <1>2

\* What holds of 0, and of a number when it holds of the one before, holds of all.
LEMMA Counting ==
    ASSUME NEW T, 0 \in T, \A n \in Nat : n \in T => n + 1 \in T
    PROVE  Nat \subseteq T
<1> SUFFICES ASSUME Nat \ T # {} PROVE FALSE
  OBVIOUS
<1>1. PICK n \in Nat \ T : \A k \in Nat \ T : n <= k
  BY LeastNumber
<1>2. n # 0 /\ n - 1 \in Nat /\ n - 1 \in T
  BY <1>1
<1>3. n - 1 + 1 \in T /\ n - 1 + 1 = n
  BY <1>2
<1> QED BY <1>1, <1>3

\* The same of the numbers up to n.
LEMMA CountingUpTo ==
    ASSUME NEW n \in Nat, NEW T, 0 \in T, \A i \in 1..n : i - 1 \in T => i \in T
    PROVE  0..n \subseteq T
<1> DEFINE U == {i \in Nat : i > n \/ i \in T}
<1>1. 0 \in U
  OBVIOUS
<1>2. \A i \in Nat : i \in U => i + 1 \in U
  <2> SUFFICES ASSUME NEW i \in Nat, i \in U, i + 1 <= n PROVE i + 1 \in T
    OBVIOUS
  <2>1. i + 1 \in 1..n /\ i + 1 - 1 = i /\ i \in T
    OBVIOUS
  <2> QED BY <2>1
<1> HIDE DEF U
<1>3. Nat \subseteq U
  BY <1>1, <1>2, Counting
<1> QED BY <1>3 DEF U
=============================================================================
