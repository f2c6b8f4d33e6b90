--------------------------- MODULE Monitoring_proofs ---------------------------
(***************************************************************************)
(* Proofs about monitoring windows and the choice of primary sources       *)
(* (modules SourceAuthority and Monitoring), for any finite sets of        *)
(* windows and systems and whatever the limits and bounds.                 *)
(***************************************************************************)
EXTENDS Monitoring, WellFoundedInduction, FiniteSetTheorems, SequenceTheorems, TLAPS

-----------------------------------------------------------------------------
(* Finite sets of numbers.  The library's induction theorems cannot be     *)
(* used by these provers, so induction goes by a least counterexample.     *)

\* A set of numbers has a least one.
LEMMA Least ==
    ASSUME NEW S, S \subseteq Nat, S # {}
    PROVE  \E x \in S : \A y \in S : x <= y
<1> DEFINE R == OpToRel(<, Nat)
<1>1. IsWellFoundedOn(R, Nat)
  BY NatLessThanWellFounded
<1>2. \A x, y \in Nat : x < y => <<x, y>> \in R
  BY DEF OpToRel
<1> HIDE DEF R
<1>3. PICK x \in S : \A y \in S : ~ (<<y, x>> \in R)
  BY <1>1, WFMin
<1>4. ASSUME NEW y \in S PROVE x <= y
  <2>1. x \in Nat /\ y \in Nat /\ ~ (y < x)
    BY <1>2, <1>3
  <2> QED
    BY <2>1
<1> QED
  BY <1>4

\* A finite set of numbers is bounded.
LEMMA Bounded ==
    ASSUME NEW S, S \subseteq Nat, IsFiniteSet(S)
    PROVE  \E n \in Nat : \A x \in S : x <= n
<1> DEFINE Unbounded == {T \in SUBSET S : ~ \E n \in Nat : \A x \in T : x <= n}
           R == StrictSubsetOrdering(S)
<1>1. SUFFICES ASSUME Unbounded # {}
               PROVE  FALSE
  OBVIOUS
<1>2. IsWellFoundedOn(R, FiniteSubsetsOf(S))
  BY FS_StrictSubsetOrderingWellFounded
<1>3. Unbounded \subseteq FiniteSubsetsOf(S)
  BY FS_Subset DEF FiniteSubsetsOf
<1>4. PICK T \in Unbounded : \A U \in Unbounded : ~ (<<U, T>> \in R)
  <2> HIDE DEF Unbounded, R
  <2> QED
    BY <1>1, <1>2, <1>3, WFMin
<1>5. PICK x \in T : TRUE
  <2>1. T # {}
    BY <1>4
  <2> QED
    BY <2>1
<1>6. T \ {x} \notin Unbounded
  BY <1>4, <1>5 DEF StrictSubsetOrdering
<1>7. PICK n \in Nat : \A y \in T \ {x} : y <= n
  BY <1>4, <1>6
<1>8. x \in Nat
  BY <1>4, <1>5
<1>9. \A y \in T : y <= n + x
  BY <1>4, <1>7, <1>8
<1>10. n + x \in Nat
  BY <1>8
<1> QED
  BY <1>4, <1>9, <1>10

\* A bounded set of numbers has a greatest one.
LEMMA Greatest ==
    ASSUME NEW S, S \subseteq Nat, S # {}, IsFiniteSet(S)
    PROVE  Max(S) \in S /\ \A x \in S : x <= Max(S)
<1> DEFINE Bounds == {m \in Nat : \A x \in S : x <= m}
<1>1. PICK m \in Bounds : \A b \in Bounds : m <= b
  <2>1. Bounds \subseteq Nat /\ Bounds # {}
    BY Bounded
  <2> HIDE DEF Bounds
  <2> QED
    BY <2>1, Least
<1>2. m \in S
  <2> SUFFICES ASSUME m \notin S
               PROVE  FALSE
    OBVIOUS
  <2>1. \A x \in S : x <= m - 1
    BY <1>1
  <2>2. m - 1 \in Nat
    <3>1. PICK x \in S : TRUE
      OBVIOUS
    <3> QED
      BY <1>1, <2>1, <3>1
  <2>3. m - 1 \in Bounds
    BY <2>1, <2>2
  <2> QED
    BY <1>1, <2>3
<1>3. \E x \in S : \A y \in S : x >= y
  BY <1>1, <1>2
<1> QED
  BY <1>3 DEF Max

\* What a function makes of a finite set is finite.
LEMMA ImageFinite ==
    ASSUME NEW S, IsFiniteSet(S), NEW f, DOMAIN f = S
    PROVE  IsFiniteSet({f[x] : x \in S})
<1> DEFINE g == [x \in S |-> f[x]]
<1>1. g \in Surjection(S, {f[x] : x \in S})
  BY DEF Surjection
<1> QED
  BY <1>1, FS_Surjection

-----------------------------------------------------------------------------
(* The operators of SourceAuthority, for a table whose orders are numbers  *)
(* above zero where there is a row.                                        *)

Ordered(table) ==
    \A k \in Keys : table[k].order \in Nat /\ (table[k] = NoRow <=> table[k].order = 0)

\* The keys are finitely many pairs.
LEMMA KeysFinite ==
    /\ IsFiniteSet(Keys) /\ NoKey \notin Keys
    /\ \A T \in SUBSET Keys : IsFiniteSet(T)
<1>1. IsFiniteSet(Keys)
  BY ReplacesAssumption, FS_Product DEF Keys
<1>2. NoKey \notin Keys
  BY DEF NoKey, Keys
<1> QED
  BY <1>1, <1>2, FS_Subset

\* Whoever comes is behind all that are there.
LEMMA NextIsLast ==
    ASSUME NEW table, Ordered(table), Keys # {}
    PROVE  /\ NextJoinOrder(table) \in Nat \ {0}
           /\ \A k \in Keys : table[k].order < NextJoinOrder(table)
<1> DEFINE f == [k \in Keys |-> table[k].order]
           S == {table[k].order : k \in Keys}
<1>1. IsFiniteSet(S)
  <2>1. IsFiniteSet({f[k] : k \in Keys})
    <3> DOMAIN f = Keys
      OBVIOUS
    <3> HIDE DEF f
    <3> QED
      BY KeysFinite, ImageFinite
  <2> QED
    BY <2>1
<1>2. S \subseteq Nat /\ S # {}
  BY DEF Ordered
<1>3. Max(S) \in S /\ \A x \in S : x <= Max(S)
  <2> HIDE DEF S
  <2> QED
    BY <1>1, <1>2, Greatest
<1>4. Max(S) \in Nat
  BY <1>2, <1>3
<1>5. \A k \in Keys : table[k].order \in S
  OBVIOUS
<1>6. NextJoinOrder(table) = 1 + Max(S)
  BY DEF NextJoinOrder
<1>7. ASSUME NEW k \in Keys PROVE table[k].order <= Max(S)
  BY <1>3, <1>5
<1>8. \A k \in Keys : table[k].order \in Nat
  BY DEF Ordered
<1> HIDE DEF S, f
<1> QED
  BY <1>4, <1>6, <1>7, <1>8

\* The oldest candidate is elected.
LEMMA OldestIsElected ==
    ASSUME NEW table, Ordered(table), NEW keys, NEW s,
           NEW some \in keys \cap ResidentsOf(table, s), some[1] \notin Superseded(keys)
    PROVE  LET elected == PrimaryAmong(table, keys, s)
           IN  /\ elected \in keys \cap ResidentsOf(table, s)
               /\ elected[1] \notin Superseded(keys)
               /\ \A other \in keys \cap ResidentsOf(table, s) :
                    other[1] \notin Superseded(keys) => table[elected].order <= table[other].order
<1> DEFINE candidates == {k \in keys \cap ResidentsOf(table, s) : k[1] \notin Superseded(keys)}
           S == {table[k].order : k \in candidates}
<1>1. candidates \subseteq Keys /\ candidates # {}
  BY DEF ResidentsOf, Residents, Stored
<1>2. PICK n \in S : \A m \in S : n <= m
  <2>1. S \subseteq Nat /\ S # {}
    BY <1>1 DEF Ordered
  <2> HIDE DEF S
  <2> QED
    BY <2>1, Least
<1>3. \E k \in candidates : \A other \in candidates : table[k].order <= table[other].order
  BY <1>2
<1>4. PrimaryAmong(table, keys, s) =
        CHOOSE k \in candidates : \A other \in candidates : table[k].order <= table[other].order
  BY <1>1 DEF PrimaryAmong
<1> HIDE DEF S
<1>5. /\ PrimaryAmong(table, keys, s) \in candidates
      /\ \A other \in candidates : table[PrimaryAmong(table, keys, s)].order <= table[other].order
  <2> HIDE DEF candidates
  <2> QED
    BY <1>3, <1>4
<1> QED
  BY <1>5

\* Among residents there is always one to elect, for who is replaced replaces nobody.
LEMMA ResidentElected ==
    ASSUME NEW table, Ordered(table), NEW s, NEW keys, keys \subseteq ResidentsOf(table, s),
           keys # {}
    PROVE  /\ PrimaryAmong(table, keys, s) \in keys
           /\ PrimaryAmong(table, keys, s) # NoKey
<1>1. keys \subseteq Keys
  BY DEF ResidentsOf, Residents, Stored
<1>2. PICK k \in keys : TRUE
  OBVIOUS
<1>3. \E some \in keys : some[1] \notin Superseded(keys)
  <2>1. CASE k[1] \notin Superseded(keys)
    BY <2>1
  <2>2. CASE k[1] \in Superseded(keys)
    <3>1. PICK j \in keys : k[1] \in Replaces[j[1]]
      BY <2>2 DEF Superseded
    <3>2. Replaces[j[1]] # {} /\ j[1] \in Clients
      BY <1>1, <3>1 DEF Keys
    <3>3. j[1] \notin Superseded(keys)
      <4> SUFFICES ASSUME NEW i \in keys, j[1] \in Replaces[i[1]]
                   PROVE  FALSE
        BY DEF Superseded
      <4> QED
        BY <1>1, <3>2, ReplacesAssumption DEF Keys
    <3> QED
      BY <3>3
  <2> QED
    BY <2>1, <2>2
<1>4. PrimaryAmong(table, keys, s) \in keys
  BY <1>3, OldestIsElected
<1> QED
  BY <1>1, <1>4, KeysFinite

(* The line of the displaced: those who are elected one after the other.   *)

Rest(table, chosen, line, n) ==
    ResidentsOf(table, chosen[2]) \ {line[i] : i \in 1..n - 1}

Elects(table, chosen, line, n) == PrimaryAmong(table, Rest(table, chosen, line, n), chosen[2])

\* A line that may go on: the chosen one has not been elected yet.
Electing(table, chosen, line) ==
    /\ line \in Seq(ResidentsOf(table, chosen[2]))
    /\ \A n \in 1..Len(line) : line[n] = Elects(table, chosen, line, n) /\ line[n] # chosen

\* Nobody is twice in such a line, so that it comes to an end.
LEMMA LineIsInjective ==
    ASSUME NEW table, Ordered(table), NEW chosen, chosen \in ResidentsOf(table, chosen[2]),
           NEW line, Electing(table, chosen, line)
    PROVE  /\ \A n \in 1..Len(line) + 1 :
                /\ chosen \in Rest(table, chosen, line, n)
                /\ Elects(table, chosen, line, n) \in Rest(table, chosen, line, n)
           /\ \A i, j \in 1..Len(line) : line[i] = line[j] => i = j
           /\ Len(line) \in 0..Cardinality(ResidentsOf(table, chosen[2]))
           /\ Cardinality(ResidentsOf(table, chosen[2])) \in Nat
<1> DEFINE residents == ResidentsOf(table, chosen[2])
<1>1. ASSUME NEW n \in 1..Len(line) + 1
      PROVE  /\ chosen \in Rest(table, chosen, line, n)
             /\ Elects(table, chosen, line, n) \in Rest(table, chosen, line, n)
  <2>1. \A i \in 1..n - 1 : line[i] # chosen
    BY DEF Electing
  <2>2. chosen \in Rest(table, chosen, line, n)
    BY <2>1 DEF Rest
  <2>3. Rest(table, chosen, line, n) \subseteq ResidentsOf(table, chosen[2])
    BY DEF Rest
  <2>4. PrimaryAmong(table, Rest(table, chosen, line, n), chosen[2])
            \in Rest(table, chosen, line, n)
    BY <2>2, <2>3, ResidentElected
  <2> QED
    BY <2>2, <2>4 DEF Elects
<1>2. ASSUME NEW i \in 1..Len(line), NEW j \in 1..Len(line), i < j
      PROVE  line[i] # line[j]
  <2>1. Len(line) \in Nat
    BY DEF Electing
  <2>2. i \in 1..j - 1 /\ j \in 1..Len(line) + 1
    BY <1>2, <2>1
  <2>3. line[j] \in Rest(table, chosen, line, j)
    BY <1>1, <2>2 DEF Electing
  <2> QED
    BY <2>2, <2>3 DEF Rest
<1>3. \A i, j \in 1..Len(line) : line[i] = line[j] => i = j
  <2> SUFFICES ASSUME NEW i \in 1..Len(line), NEW j \in 1..Len(line), line[i] = line[j], i # j
               PROVE  FALSE
    OBVIOUS
  <2>1. Len(line) \in Nat
    BY DEF Electing
  <2>2. i < j \/ j < i
    BY <2>1
  <2> QED
    BY <1>2, <2>2
<1>4. IsFiniteSet(residents)
  <2>1. residents \in SUBSET Keys
    BY DEF ResidentsOf, Residents, Stored
  <2> QED
    BY <2>1, KeysFinite
<1>5. Len(line) \in Nat /\ line \in [1..Len(line) -> residents]
  BY DEF Electing
<1>6. line \in Injection(1..Len(line), residents)
  BY <1>3, <1>5 DEF Injection, IsInjective
<1>7. Cardinality(1..Len(line)) <= Cardinality(residents)
  BY <1>4, <1>6, FS_Injection
<1>8. Cardinality(1..Len(line)) = Len(line)
  <2>1. Len(line) \in Int /\ 1 \in Int
    BY <1>5
  <2>2. Cardinality(1..Len(line)) = IF 1 > Len(line) THEN 0 ELSE Len(line) - 1 + 1
    BY <2>1, FS_Interval
  <2> QED
    BY <1>5, <2>2
<1>9. Cardinality(residents) \in Nat
  BY <1>4, FS_CardinalityType
<1>10. Len(line) \in 0..Cardinality(residents)
  BY <1>5, <1>7, <1>8, <1>9
<1> QED
  BY <1>1, <1>3, <1>9, <1>10

\* If it is not the chosen one's turn, the line goes on.
LEMMA LineGoesOn ==
    ASSUME NEW table, Ordered(table), NEW chosen, chosen \in ResidentsOf(table, chosen[2]),
           NEW line, Electing(table, chosen, line),
           Elects(table, chosen, line, Len(line) + 1) # chosen
    PROVE  Electing(table, chosen, Append(line, Elects(table, chosen, line, Len(line) + 1)))
<1> DEFINE next == Elects(table, chosen, line, Len(line) + 1)
           longer == Append(line, next)
<1>1. line \in Seq(ResidentsOf(table, chosen[2])) /\ Len(line) \in Nat
  BY DEF Electing
<1>2. next \in ResidentsOf(table, chosen[2])
  <2>1. next \in Rest(table, chosen, line, Len(line) + 1)
    BY <1>1, LineIsInjective
  <2> HIDE DEF next
  <2> QED
    BY <2>1 DEF Rest
<1> HIDE DEF next
<1>3. /\ longer \in Seq(ResidentsOf(table, chosen[2]))
      /\ Len(longer) = Len(line) + 1
      /\ \A i \in 1..Len(line) : longer[i] = line[i]
      /\ longer[Len(line) + 1] = next
  BY <1>1, <1>2
<1> HIDE DEF longer
<1>4. ASSUME NEW n \in 1..Len(line) + 1
      PROVE  Elects(table, chosen, longer, n) = Elects(table, chosen, line, n)
  <2>1. {longer[i] : i \in 1..n - 1} = {line[i] : i \in 1..n - 1}
    BY <1>1, <1>3
  <2>2. Rest(table, chosen, longer, n) = Rest(table, chosen, line, n)
    BY <2>1 DEF Rest
  <2> QED
    BY <2>2 DEF Elects
<1>5. ASSUME NEW n \in 1..Len(longer)
      PROVE  longer[n] = Elects(table, chosen, longer, n) /\ longer[n] # chosen
  <2>1. CASE n \in 1..Len(line)
    BY <1>1, <1>3, <1>4, <2>1 DEF Electing
  <2>2. CASE n = Len(line) + 1
    BY <1>1, <1>3, <1>4, <2>2 DEF next
  <2> QED
    BY <1>1, <1>3, <2>1, <2>2
<1>6. Electing(table, chosen, longer)
  BY <1>3, <1>5 DEF Electing
<1> QED
  BY <1>6 DEF longer, next

\* The longest line ends before the chosen one: that is who is displaced.
LEMMA DisplacedLine ==
    ASSUME NEW table, Ordered(table), NEW chosen, chosen \in ResidentsOf(table, chosen[2])
    PROVE  LET line == Displaced(table, chosen)
           IN  /\ Electing(table, chosen, line)
               /\ Elects(table, chosen, line, Len(line) + 1) = chosen
<1> DEFINE residents == ResidentsOf(table, chosen[2])
           Lines == {line \in Seq(residents) : Electing(table, chosen, line)}
           size == Cardinality(residents)
           Left == {size - Len(line) : line \in Lines}
<1>1. <<>> \in Lines
  BY DEF Electing
<1>2. \A line \in Lines : Len(line) \in 0..size /\ size \in Nat
  BY LineIsInjective
<1>3. PICK least \in Left : \A n \in Left : least <= n
  <2>1. Left \subseteq Nat
    <3> HIDE DEF Lines, size
    <3> QED
      BY <1>2
  <2>2. Left # {}
    BY <1>1
  <2> HIDE DEF Left
  <2> QED
    BY <2>1, <2>2, Least
<1>4. PICK longest \in Lines : least = size - Len(longest)
  BY <1>3
<1>5. \A line \in Lines : Len(line) <= Len(longest)
  <2> SUFFICES ASSUME NEW line \in Lines
               PROVE  Len(line) <= Len(longest)
    OBVIOUS
  <2>1. size - Len(line) \in Left
    OBVIOUS
  <2>2. Len(line) \in Nat /\ Len(longest) \in Nat /\ size \in Nat
    BY <1>2, <1>4
  <2>3. size - Len(longest) <= size - Len(line)
    BY <1>3, <1>4, <2>1
  <2> HIDE DEF Lines, size, Left
  <2> QED
    BY <2>2, <2>3
<1>6. Elects(table, chosen, longest, Len(longest) + 1) = chosen
  <2> SUFFICES ASSUME Elects(table, chosen, longest, Len(longest) + 1) # chosen
               PROVE  FALSE
    OBVIOUS
  <2> DEFINE longer == Append(longest, Elects(table, chosen, longest, Len(longest) + 1))
  <2>1. Electing(table, chosen, longer)
    BY <1>4, LineGoesOn
  <2>2. longer \in Lines
    BY <2>1 DEF Electing
  <2>3. Len(longer) = Len(longest) + 1 /\ Len(longest) \in Nat
    BY <1>4
  <2> HIDE DEF longer, Lines
  <2> QED
    BY <1>5, <2>2, <2>3
<1> DEFINE Good(line) ==
        /\ \A n \in DOMAIN line :
            /\ line[n] = PrimaryAmong(table, residents \ {line[i] : i \in 1..n - 1}, chosen[2])
            /\ line[n] # chosen
        /\ PrimaryAmong(table, residents \ {line[i] : i \in 1..(Len(line) + 1) - 1}, chosen[2])
             = chosen
<1>7. \A line \in Seq(residents) :
        Good(line) <=> /\ Electing(table, chosen, line)
                       /\ Elects(table, chosen, line, Len(line) + 1) = chosen
  <2> SUFFICES ASSUME NEW line \in Seq(residents)
               PROVE  Good(line) <=> /\ Electing(table, chosen, line)
                                     /\ Elects(table, chosen, line, Len(line) + 1) = chosen
    OBVIOUS
  <2>1. DOMAIN line = 1..Len(line)
    OBVIOUS
  <2> QED
    BY <2>1 DEF Electing, Elects, Rest
<1>8. longest \in SeqOf(residents, size) /\ Good(longest)
  <2>1. Good(longest)
    BY <1>4, <1>6, <1>7
  <2>2. Len(longest) \in 0..size /\ longest \in [1..Len(longest) -> residents]
    BY <1>2, <1>4
  <2> HIDE DEF size
  <2> QED
    BY <2>1, <2>2 DEF SeqOf
<1>9. \A line \in SeqOf(residents, size) : line \in Seq(residents)
  <2> HIDE DEF size
  <2>1. size \in Nat
    BY <1>2, <1>4
  <2> QED
    BY <2>1 DEF SeqOf
<1>10. Displaced(table, chosen) = CHOOSE line \in SeqOf(residents, size) : Good(line)
  BY DEF Displaced
<1>11. Displaced(table, chosen) \in Seq(residents) /\ Good(Displaced(table, chosen))
  <2> HIDE DEF Good, size, residents
  <2> QED
    BY <1>8, <1>9, <1>10
<1> QED
  BY <1>7, <1>11

-----------------------------------------------------------------------------
(* Rows and tables of module Monitoring.                                   *)

RowTables == [Keys -> Rows \cup {NoRow}]

Distinct(table) == \A k, l \in Stored(table) : table[k].order = table[l].order => k = l

\* A row that has changed its place in the queue only.
AsBefore(row, old) ==
    /\ row.stamp = old.stamp /\ row.count = old.count /\ row.left = old.left
    /\ row.cap = old.cap /\ row.age = old.age /\ row.roster = old.roster

\* A row is told from none by its order.
LEMMA RowsAreNoNoRow ==
    \A row \in Rows : row # NoRow /\ row.order \in Nat \ {0}
<1> SUFFICES ASSUME NEW row \in Rows
             PROVE  row # NoRow /\ row.order \in Nat \ {0}
  OBVIOUS
<1>1. row.order \in Nat \ {0}
  BY Zenon DEF Rows
<1>2. NoRow.order = 0
  BY DEF NoRow
<1> QED
  BY <1>1, <1>2

\* A typed table has the orders the lemmas above ask for.
LEMMA TablesAreOrdered ==
    ASSUME NEW table \in RowTables
    PROVE  /\ Ordered(table)
           /\ DOMAIN table = Keys
           /\ \A k \in Stored(table) : k \in Keys /\ table[k] \in Rows
           /\ \A k \in Keys : k \notin Stored(table) => table[k] = NoRow
<1>1. \A k \in Keys : table[k] \in Rows \/ table[k] = NoRow
  BY DEF RowTables
<1>2. NoRow.order = 0
  BY DEF NoRow
<1>3. Ordered(table)
  BY <1>1, <1>2, RowsAreNoNoRow DEF Ordered
<1> QED
  BY <1>1, <1>3 DEF RowTables, Stored

\* A row at another place.
LEMMA ReorderedRow ==
    ASSUME NEW row \in Rows, NEW n \in Nat \ {0}
    PROVE  /\ [row EXCEPT !.order = n] \in Rows
           /\ [row EXCEPT !.order = n].order = n
           /\ AsBefore([row EXCEPT !.order = n], row)
<1>1. [row EXCEPT !.order = n] \in Rows
  BY Zenon DEF Rows
<1>2. [row EXCEPT !.order = n].order = n
  BY Zenon DEF Rows
<1>3. AsBefore([row EXCEPT !.order = n], row)
  BY Zenon DEF Rows, AsBefore
<1> QED
  BY <1>1, <1>2, <1>3

\* Other places in the queue, for some rows of a table.
Reordered(new, table) ==
    /\ new \in RowTables
    /\ Distinct(new)
    /\ \A k \in Keys : table[k] = NoRow <=> new[k] = NoRow
    /\ \A k \in Stored(table) : AsBefore(new[k], table[k])

\* Who is resident does not depend on the places.
LEMMA ReorderedResidents ==
    ASSUME NEW table \in RowTables, NEW new, Reordered(new, table)
    PROVE  Stored(new) = Stored(table) /\ Residents(new) = Residents(table)
<1>1. Stored(new) = Stored(table)
  BY DEF Reordered, Stored
<1>2. \A k \in Stored(table) : new[k].left = table[k].left
  BY DEF Reordered, AsBefore
<1> QED
  BY <1>1, <1>2 DEF Residents

\* A takeover puts the displaced behind all others, each at a place of its own.
LEMMA RequeueReorders ==
    ASSUME NEW table \in RowTables, Distinct(table),
           NEW chosen, chosen \in ResidentsOf(table, chosen[2])
    PROVE  Reordered(Requeue(table, chosen), table)
<1> DEFINE line == Displaced(table, chosen)
           order == NextJoinOrder(table)
           residents == ResidentsOf(table, chosen[2])
           new == Requeue(table, chosen)
           Place(k) == CHOOSE i \in DOMAIN line : line[i] = k
<1>1. /\ Ordered(table) /\ DOMAIN table = Keys
      /\ \A k \in Stored(table) : k \in Keys /\ table[k] \in Rows
  BY TablesAreOrdered
<1>2. residents \subseteq Stored(table) /\ Stored(table) \subseteq Keys
  BY DEF ResidentsOf, Residents, Stored
<1>3. line \in Seq(residents) /\ \A i, j \in 1..Len(line) : line[i] = line[j] => i = j
  <2>1. Electing(table, chosen, line)
    BY <1>1, DisplacedLine
  <2> HIDE DEF line
  <2> QED
    BY <1>1, <2>1, LineIsInjective DEF Electing
<1>4. order \in Nat \ {0} /\ \A k \in Keys : table[k].order < order
  BY <1>1, <1>2, NextIsLast
<1> HIDE DEF line, order, residents
<1>5. DOMAIN line = 1..Len(line) /\ Len(line) \in Nat
  BY <1>3
<1>6. ASSUME NEW k \in Keys, \E i \in DOMAIN line : line[i] = k
      PROVE  /\ Place(k) \in 1..Len(line) /\ line[Place(k)] = k
             /\ k \in Stored(table)
  <2>1. Place(k) \in 1..Len(line) /\ line[Place(k)] = k
    BY <1>5, <1>6
  <2>2. \A i \in 1..Len(line) : line[i] \in residents
    BY <1>3, <1>5
  <2> QED
    BY <1>2, <2>1, <2>2
<1>7. /\ DOMAIN new = Keys
      /\ \A k \in Keys : new[k] = IF \E i \in DOMAIN line : line[i] = k
                                  THEN [table[k] EXCEPT !.order = order - 1 + Place(k)]
                                  ELSE table[k]
  BY DEF Requeue, line, order
<1> HIDE DEF new, Place
<1>8. ASSUME NEW k \in Keys, \E i \in DOMAIN line : line[i] = k
      PROVE  /\ new[k] \in Rows /\ new[k].order = order - 1 + Place(k)
             /\ AsBefore(new[k], table[k])
  <2>1. order - 1 + Place(k) \in Nat \ {0}
    BY <1>4, <1>5, <1>6, <1>8
  <2>2. table[k] \in Rows
    BY <1>1, <1>6, <1>8
  <2>3. new[k] = [table[k] EXCEPT !.order = order - 1 + Place(k)]
    BY <1>7, <1>8
  <2> QED
    BY <2>1, <2>2, <2>3, ReorderedRow
<1>9. new \in RowTables
  <2>1. \A k \in Keys : new[k] \in Rows \cup {NoRow}
    BY <1>7, <1>8 DEF RowTables
  <2>2. new = [k \in Keys |-> new[k]]
    BY <1>7 DEF new, Requeue
  <2> QED
    BY <2>1, <2>2 DEF RowTables
<1>10. \A k \in Keys : table[k] = NoRow <=> new[k] = NoRow
  <2> SUFFICES ASSUME NEW k \in Keys
               PROVE  table[k] = NoRow <=> new[k] = NoRow
    OBVIOUS
  <2>1. CASE \E i \in DOMAIN line : line[i] = k
    BY <1>6, <1>8, <2>1, RowsAreNoNoRow DEF Stored
  <2>2. CASE ~ \E i \in DOMAIN line : line[i] = k
    BY <1>7, <2>2
  <2> QED
    BY <2>1, <2>2
<1>11. ASSUME NEW k \in Stored(table)
       PROVE  AsBefore(new[k], table[k])
  <2>1. CASE \E i \in DOMAIN line : line[i] = k
    BY <1>2, <1>8, <2>1
  <2>2. CASE ~ \E i \in DOMAIN line : line[i] = k
    <3>1. new[k] = table[k]
      BY <1>2, <1>7, <2>2
    <3> QED
      BY <3>1 DEF AsBefore
  <2> QED
    BY <2>1, <2>2
<1>12. ASSUME NEW k \in Keys, NEW l \in Keys, table[k] # NoRow, table[l] # NoRow,
              new[k].order = new[l].order
       PROVE  k = l
  <2> DEFINE Moves(x) == \E i \in DOMAIN line : line[i] = x
  <2>1. \A x \in Keys : Moves(x) => /\ new[x].order = order - 1 + Place(x)
                                    /\ Place(x) \in 1..Len(line) /\ line[Place(x)] = x
    BY <1>6, <1>8
  <2>2. \A x \in Keys : ~Moves(x) => new[x] = table[x]
    BY <1>7
  <2>3. \A x \in Keys : table[x].order \in Nat
    BY <1>1 DEF Ordered
  <2> HIDE DEF Moves
  <2>4. CASE Moves(k) /\ Moves(l)
    <3>1. Place(k) = Place(l)
      BY <1>4, <1>5, <1>12, <2>1, <2>4
    <3> QED
      BY <2>1, <2>4, <3>1
  <2>5. CASE Moves(k) /\ ~Moves(l)
    BY <1>4, <1>5, <1>12, <2>1, <2>2, <2>3, <2>5
  <2>6. CASE ~Moves(k) /\ Moves(l)
    BY <1>4, <1>5, <1>12, <2>1, <2>2, <2>3, <2>6
  <2>7. CASE ~Moves(k) /\ ~Moves(l)
    <3>1. k \in Stored(table) /\ l \in Stored(table)
      BY <1>12 DEF Stored
    <3> QED
      BY <1>12, <2>2, <2>7, <3>1 DEF Distinct
  <2> QED
    BY <2>4, <2>5, <2>6, <2>7
<1>13. Distinct(new)
  BY <1>10, <1>12 DEF Distinct, Stored
<1> QED
  BY <1>9, <1>10, <1>11, <1>13 DEF Reordered, new

\* A takeover by one of some residents changes places only.
LEMMA TakeOverReorders ==
    ASSUME NEW table \in RowTables, Distinct(table), NEW s,
           NEW qualified, qualified \subseteq ResidentsOf(table, s)
    PROVE  Reordered(TakeOver(table, s, qualified), table)
<1>1. CASE qualified = {}
  <2>1. TakeOver(table, s, qualified) = table
    BY <1>1 DEF TakeOver
  <2> QED
    BY <2>1 DEF Reordered, AsBefore
<1>2. CASE qualified # {}
  <2> DEFINE chosen == PrimaryAmong(table, qualified, s)
  <2>1. chosen \in qualified
    BY <1>2, TablesAreOrdered, ResidentElected
  <2>2. TakeOver(table, s, qualified) = Requeue(table, chosen)
    BY <1>2 DEF TakeOver
  <2> HIDE DEF chosen
  <2>3. chosen \in ResidentsOf(table, chosen[2])
    BY <2>1 DEF ResidentsOf
  <2> QED
    BY <2>2, <2>3, RequeueReorders
<1> QED
  BY <1>1, <1>2

\* A table is in the order it is in.
LEMMA ReorderedItself ==
    ASSUME NEW table \in RowTables, Distinct(table)
    PROVE  Reordered(table, table)
BY DEF Reordered, AsBefore

\* Whether or not there is a takeover, only places change.
LEMMA ReconcileReorders ==
    ASSUME NEW table \in RowTables, Distinct(table), NEW s
    PROVE  /\ Reordered(ReconcileMissing(table, s), table)
           /\ Reordered(Reconcile(table, s), table)
<1>1. Reordered(ReconcileMissing(table, s), table)
  BY TakeOverReorders, ReorderedItself DEF ReconcileMissing
<1>2. Reordered(ReconcileTruncated(table, s), table)
  BY TakeOverReorders, ReorderedItself DEF ReconcileTruncated
<1> QED
  BY <1>1, <1>2 DEF Reconcile

-----------------------------------------------------------------------------
(* The invariant.                                                          *)

NotLater(cap, other) ==
    cap.epoch < other.epoch \/ (cap.epoch = other.epoch /\ cap.seq <= other.seq)

\* The samples of a row: of different frames, in their order, of its session so far.
Evident(row) ==
    \A i \in 1..Len(row.roster.samples) :
        /\ row.roster.samples[i].seq <= row.cap.seq
        /\ \A j \in 1..i - 1 : row.roster.samples[j].seq < row.roster.samples[i].seq

InOnePlace(table) == \A k, l \in Residents(table) : k[1] = l[1] => k = l

\* A resident row is of the newest frame of its window.
Newest(table) ==
    \A k \in Residents(table), l \in Stored(table) :
        k[1] = l[1] => NotLater(table[l].cap, table[k].cap)

Sound(table) ==
    /\ table \in RowTables
    /\ Distinct(table)
    /\ InOnePlace(table)
    /\ \A k \in Stored(table) : Evident(table[k])
    /\ Newest(table)

MonitoringInv ==
    /\ Sound(rows)
    /\ warm \in BOOLEAN
    /\ restarts \in 0..MaxRestarts

\* Places in the queue do not matter to the rest.
LEMMA ReorderedIsSound ==
    ASSUME NEW table, Sound(table), NEW new, Reordered(new, table)
    PROVE  Sound(new)
<1>1. table \in RowTables
  BY DEF Sound
<1>2. Stored(new) = Stored(table) /\ Residents(new) = Residents(table)
  BY <1>1, ReorderedResidents
<1>3. \A k \in Stored(table) : /\ new[k].cap = table[k].cap
                              /\ new[k].roster = table[k].roster
  BY DEF Reordered, AsBefore
<1>4. Residents(table) \subseteq Stored(table)
  BY DEF Residents
<1>5. new \in RowTables /\ Distinct(new)
  BY DEF Reordered
<1>6. InOnePlace(new)
  BY <1>2 DEF InOnePlace, Sound
<1>7. \A k \in Stored(new) : Evident(new[k])
  BY <1>2, <1>3 DEF Sound, Evident
<1>8. Newest(new)
  BY <1>2, <1>3, <1>4 DEF Sound, Newest
<1> QED
  BY <1>5, <1>6, <1>7, <1>8 DEF Sound

-----------------------------------------------------------------------------
(* Rows that leave, and rows that change.                                  *)

\* A row that leaves keeps all but its residency and its age.
LEMMA DepartedRow ==
    ASSUME NEW row \in Rows
    PROVE  /\ Departed(row) \in Rows
           /\ Departed(row).order = row.order /\ Departed(row).stamp = row.stamp
           /\ Departed(row).cap = row.cap /\ Departed(row).roster = row.roster
           /\ Departed(row).left = TRUE
<1>1. 0 \in 0..Lease + 1
  BY LimitsAssumption
<1>2. Departed(row) \in Rows
  BY <1>1, Zenon DEF Departed, Rows
<1>3. /\ Departed(row).order = row.order /\ Departed(row).stamp = row.stamp
      /\ Departed(row).cap = row.cap /\ Departed(row).roster = row.roster
      /\ Departed(row).left = TRUE
  BY Zenon DEF Departed, Rows
<1> QED
  BY <1>2, <1>3

\* A table after some rows have left.
SomeDeparted(new, table) ==
    /\ DOMAIN new = Keys /\ new = [k \in Keys |-> new[k]]
    /\ \A k \in Keys : \/ new[k] = table[k]
                       \/ k \in Stored(table) /\ new[k] = Departed(table[k])

\* Departures disturb nothing, and whoever has not left is as before.
LEMMA DepartedIsSound ==
    ASSUME NEW table, Sound(table), NEW new, SomeDeparted(new, table)
    PROVE  /\ Sound(new)
           /\ Stored(new) = Stored(table)
           /\ Residents(new) = {k \in Residents(table) : new[k] = table[k]}
<1>1. table \in RowTables
  BY DEF Sound
<1>2. \A k \in Stored(table) : k \in Keys /\ table[k] \in Rows
  BY <1>1, TablesAreOrdered
<1>3. ASSUME NEW k \in Keys
      PROVE  /\ new[k] \in Rows \cup {NoRow}
             /\ table[k] = NoRow <=> new[k] = NoRow
             /\ table[k] # NoRow =>
                 /\ new[k].order = table[k].order /\ new[k].stamp = table[k].stamp
                 /\ new[k].cap = table[k].cap /\ new[k].roster = table[k].roster
  <2>1. CASE new[k] = table[k]
    BY <1>1, <2>1 DEF RowTables
  <2>2. CASE k \in Stored(table) /\ new[k] = Departed(table[k])
    BY <1>2, <2>2, DepartedRow, RowsAreNoNoRow DEF Stored
  <2> QED
    BY <2>1, <2>2 DEF SomeDeparted
<1>4. new \in RowTables
  BY <1>3 DEF RowTables, SomeDeparted
<1>5. Stored(new) = Stored(table)
  BY <1>3 DEF Stored
<1>6. Residents(new) = {k \in Residents(table) : new[k] = table[k]}
  <2>1. ASSUME NEW k \in Stored(table), ~new[k].left
        PROVE  new[k] = table[k]
    <3>1. CASE new[k] = Departed(table[k])
      BY <1>2, <2>1, <3>1, DepartedRow
    <3> QED
      BY <1>2, <3>1 DEF SomeDeparted
  <2> QED
    BY <1>5, <2>1 DEF Residents
<1>7. \A k \in Stored(table) :
        /\ new[k].order = table[k].order /\ new[k].stamp = table[k].stamp
        /\ new[k].cap = table[k].cap /\ new[k].roster = table[k].roster
  BY <1>2, <1>3 DEF Stored
<1>8. Residents(table) \subseteq Stored(table)
  BY DEF Residents
<1>9. Distinct(new)
  BY <1>5, <1>7 DEF Distinct, Sound
<1>10. InOnePlace(new)
  BY <1>6 DEF InOnePlace, Sound
<1>11. \A k \in Stored(new) : Evident(new[k])
  BY <1>5, <1>7 DEF Sound, Evident
<1>12. Newest(new)
  BY <1>5, <1>6, <1>7, <1>8 DEF Sound, Newest
<1> QED
  BY <1>4, <1>5, <1>6, <1>9, <1>10, <1>11, <1>12 DEF Sound

\* A table some rows of which are forgotten.
SomeForgotten(new, table, gone) ==
    /\ gone \subseteq Stored(table)
    /\ new = [k \in Keys |-> IF k \in gone THEN NoRow ELSE table[k]]

\* What is left after rows were forgotten is as before, and so as sound.
LEMMA ForgottenIsSound ==
    ASSUME NEW table, Sound(table), NEW new, NEW gone, SomeForgotten(new, table, gone)
    PROVE  /\ Sound(new)
           /\ Stored(new) = Stored(table) \ gone
           /\ Residents(new) = Residents(table) \ gone
           /\ \A k \in Stored(new) : new[k] = table[k]
<1>1. table \in RowTables
  BY DEF Sound
<1>2. new \in RowTables
  BY <1>1 DEF SomeForgotten, RowTables
<1>3. Stored(new) = Stored(table) \ gone /\ \A k \in Stored(new) : new[k] = table[k]
  BY DEF SomeForgotten, Stored
<1>4. Residents(new) = Residents(table) \ gone
  BY <1>3 DEF Residents
<1>5. Distinct(new)
  BY <1>3 DEF Distinct, Sound
<1>6. InOnePlace(new)
  BY <1>4 DEF InOnePlace, Sound
<1>7. \A k \in Stored(new) : Evident(new[k])
  BY <1>3 DEF Sound
<1>8. Residents(table) \subseteq Stored(table)
  BY DEF Residents
<1>9. Newest(new)
  BY <1>3, <1>4, <1>8 DEF Sound, Newest
<1> QED
  BY <1>2, <1>3, <1>4, <1>5, <1>6, <1>7, <1>9 DEF Sound

\* A row that takes the place of the one before it, or joins the queue.
LEMMA RowIsSound ==
    ASSUME NEW table, Sound(table), NEW k \in Keys, NEW row \in Rows,
           \/ row.order = NextJoinOrder(table)
           \/ k \in Stored(table) /\ row.order = table[k].order,
           Evident(row),
           \A l \in Residents(table) : l[1] = k[1] => l = k,
           \A l \in Stored(table) : l[1] = k[1] => NotLater(table[l].cap, row.cap)
    PROVE  /\ Sound([table EXCEPT ![k] = row])
           /\ Stored(table) \subseteq Stored([table EXCEPT ![k] = row])
<1> DEFINE new == [table EXCEPT ![k] = row]
<1>1. table \in RowTables /\ Ordered(table)
  BY TablesAreOrdered DEF Sound
<1>2. new \in RowTables
  BY <1>1 DEF RowTables
<1>3. /\ new[k] = row
      /\ \A l \in Keys : l # k => new[l] = table[l]
  BY <1>1 DEF RowTables
<1> HIDE DEF new
<1>4. row # NoRow
  BY RowsAreNoNoRow
<1>5. Stored(new) = Stored(table) \cup {k} /\ Stored(table) \subseteq Keys
  BY <1>3, <1>4 DEF Stored
<1>6. \A l \in Stored(table) : l # k => table[l].order # row.order
  <2>1. CASE row.order = NextJoinOrder(table)
    <3>1. \A l \in Keys : table[l].order \in Nat /\ table[l].order < row.order
      BY <1>1, <2>1, NextIsLast DEF Ordered
    <3> QED
      BY <1>5, <3>1
  <2>2. CASE k \in Stored(table) /\ row.order = table[k].order
    BY <2>2 DEF Sound, Distinct
  <2> QED
    BY <2>1, <2>2
<1>7. Distinct(new)
  <2> SUFFICES ASSUME NEW i \in Stored(new), NEW j \in Stored(new), new[i].order = new[j].order
               PROVE  i = j
    BY DEF Distinct
  <2>1. CASE i # k /\ j # k
    BY <1>3, <1>5, <2>1 DEF Sound, Distinct
  <2>2. CASE i = k /\ j # k
    BY <1>3, <1>5, <1>6, <2>2
  <2>3. CASE i # k /\ j = k
    BY <1>3, <1>5, <1>6, <2>3
  <2> QED
    BY <2>1, <2>2, <2>3
<1>8. \A l \in Residents(new) : l = k \/ l \in Residents(table)
  BY <1>3, <1>5 DEF Residents
<1>9. InOnePlace(new)
  <2> SUFFICES ASSUME NEW i \in Residents(new), NEW j \in Residents(new), i[1] = j[1]
               PROVE  i = j
    BY DEF InOnePlace
  <2> QED
    BY <1>8 DEF Sound, InOnePlace
<1>10. \A l \in Stored(new) : Evident(new[l])
  BY <1>3, <1>5 DEF Sound
<1>11. Newest(new)
  <2> SUFFICES ASSUME NEW i \in Residents(new), NEW j \in Stored(new), i[1] = j[1]
               PROVE  NotLater(new[j].cap, new[i].cap)
    BY DEF Newest
  <2>1. CASE i = k /\ j = k
    <3>1. row.cap \in Captures
      BY Zenon DEF Rows
    <3>2. row.cap.epoch \in Nat /\ row.cap.seq \in Nat
      BY <3>1 DEF Captures
    <3> QED
      BY <1>3, <2>1, <3>2 DEF NotLater
  <2>2. CASE i = k /\ j # k
    BY <1>3, <1>5, <2>2
  <2>3. CASE i # k
    <3>1. i \in Residents(table)
      BY <1>8, <2>3
    <3>2. j # k
      BY <2>3, <3>1
    <3> QED
      BY <1>3, <1>5, <2>3, <3>1, <3>2 DEF Sound, Newest, Residents
  <2> QED
    BY <2>1, <2>2, <2>3
<1> QED
  BY <1>2, <1>5, <1>7, <1>9, <1>10, <1>11 DEF Sound, new
-----------------------------------------------------------------------------
(* What the handlers do to one row.                                        *)

\* The lesser and the greater of two numbers.
LEMMA OfTwo ==
    ASSUME NEW a \in Int, NEW b \in Int
    PROVE  /\ Min({a, b}) = IF a <= b THEN a ELSE b
           /\ Max({a, b}) = IF a >= b THEN a ELSE b
<1>1. \E x \in {a, b} : \A y \in {a, b} : x <= y
  OBVIOUS
<1>2. \E x \in {a, b} : \A y \in {a, b} : x >= y
  OBVIOUS
<1>3. Min({a, b}) \in {a, b} /\ \A y \in {a, b} : Min({a, b}) <= y
  BY <1>1 DEF Min
<1>4. Max({a, b}) \in {a, b} /\ \A y \in {a, b} : Max({a, b}) >= y
  BY <1>2 DEF Max
<1> QED
  BY <1>3, <1>4

Outcome == [seq : Nat, quality : {"complete", "truncated", "unknown"}]

\* The parts of a row that are compared.
LEMMA RowParts ==
    ASSUME NEW row \in Rows
    PROVE  /\ row.cap \in Captures /\ row.roster \in Rosters
           /\ row.cap.epoch \in Nat /\ row.cap.seq \in Nat /\ row.cap.print \in Nat
           /\ row.roster.samples \in Seq(Outcome)
           /\ row.roster.frames \in 0..MissingLimit /\ row.roster.seen \in Nat
           /\ row.roster.since \in 0..Grace /\ row.roster.age \in 0..Lease + 1
           /\ row.stamp \in Nat /\ row.count \in {0, 1} /\ row.age \in 0..Lease + 1
<1>1. /\ row.cap \in Captures /\ row.roster \in Rosters
      /\ row.stamp \in Nat /\ row.count \in {0, 1} /\ row.age \in 0..Lease + 1
  BY Zenon DEF Rows
<1>2. row.cap.epoch \in Nat /\ row.cap.seq \in Nat /\ row.cap.print \in Nat
  BY <1>1 DEF Captures
<1>3. /\ row.roster.samples \in Seq(Outcome)
      /\ row.roster.frames \in 0..MissingLimit /\ row.roster.seen \in Nat
      /\ row.roster.since \in 0..Grace /\ row.roster.age \in 0..Lease + 1
  BY <1>1, Zenon DEF Rosters, Outcome
<1> QED
  BY <1>1, <1>2, <1>3

\* Before any evidence.
LEMMA NoRosterYet == NoRoster \in Rosters /\ NoRoster.samples = <<>>
<1>1. 0 \in 0..Lease + 1 /\ 0 \in 0..Grace /\ 0 \in 0..MissingLimit /\ 0 \in Nat
  BY LimitsAssumption
<1>2. <<>> \in Seq(Outcome)
  OBVIOUS
<1>3. NoRoster \in Rosters
  BY <1>1, <1>2, Zenon DEF NoRoster, Rosters, Outcome
<1>4. NoRoster.samples = <<>>
  BY DEF NoRoster
<1> QED
  BY <1>3, <1>4

\* The wait for a roster: forgotten, ended or counted, never a sample more or less.
LEMMA RosterWaits ==
    ASSUME NEW row \in Rows
    PROVE  /\ RosterWait(row) \in Rosters
           /\ RosterWait(row).samples \in {row.roster.samples, <<>>}
<1> DEFINE usable == row.cap = NoCapture \/ (row.roster.named /\ row.roster.print = row.cap.print)
           roster == row.roster
<1>1. /\ roster \in Rosters /\ row.cap.seq \in Nat /\ roster.seen \in Nat
      /\ roster.frames \in 0..MissingLimit /\ row.count \in {0, 1}
  BY RowParts
<1>2. CASE row.count = 0
  <2>1. RosterWait(row) = NoRoster
    BY <1>2 DEF RosterWait
  <2> QED
    BY <2>1, NoRosterYet
<1>3. CASE row.count > 0 /\ usable
  <2>1. row.count # 0 /\ ~(row.count > 0 /\ ~usable)
    BY <1>1, <1>3
  <2>2. RosterWait(row) =
          [roster EXCEPT !.waiting = FALSE, !.since = 0, !.frames = 0, !.seen = 0]
    BY <1>3, <2>1 DEF RosterWait
  <2>3. 0 \in 0..Grace /\ 0 \in 0..MissingLimit /\ 0 \in Nat
    BY LimitsAssumption
  <2> HIDE DEF roster
  <2>4. [roster EXCEPT !.waiting = FALSE, !.since = 0, !.frames = 0, !.seen = 0] \in Rosters
    BY <1>1, <2>3, Zenon DEF Rosters
  <2>5. [roster EXCEPT !.waiting = FALSE, !.since = 0, !.frames = 0, !.seen = 0].samples
          = roster.samples
    BY <1>1, Zenon DEF Rosters
  <2> QED
    BY <2>2, <2>4, <2>5 DEF roster
<1>4. CASE row.count > 0 /\ ~usable
  <2> DEFINE frames == IF row.cap.seq > roster.seen
                       THEN Min({roster.frames + 1, MissingLimit}) ELSE roster.frames
             seen == Max({roster.seen, row.cap.seq})
  <2>1. row.count # 0 /\ ~(row.count > 0 /\ usable)
    BY <1>1, <1>4
  <2>2. RosterWait(row) =
          [roster EXCEPT !.waiting = TRUE, !.frames = frames, !.seen = seen]
    BY <1>4, <2>1 DEF RosterWait
  <2>3. frames \in 0..MissingLimit /\ seen \in Nat
    <3>1. MissingLimit \in Nat
      BY LimitsAssumption
    <3> HIDE DEF roster
    <3>2. /\ roster.frames + 1 \in Int /\ MissingLimit \in Int
          /\ roster.seen \in Int /\ row.cap.seq \in Int
      BY <1>1, <3>1
    <3>3. Min({roster.frames + 1, MissingLimit}) \in 0..MissingLimit
      BY <1>1, <3>1, <3>2, OfTwo
    <3>4. Max({roster.seen, row.cap.seq}) \in Nat
      BY <1>1, <3>2, OfTwo
    <3> QED
      BY <1>1, <3>3, <3>4
  <2> HIDE DEF roster, frames, seen
  <2>4. [roster EXCEPT !.waiting = TRUE, !.frames = frames, !.seen = seen] \in Rosters
    BY <1>1, <2>3, Zenon DEF Rosters
  <2>5. [roster EXCEPT !.waiting = TRUE, !.frames = frames, !.seen = seen].samples
          = roster.samples
    BY <1>1, Zenon DEF Rosters
  <2> QED
    BY <2>2, <2>4, <2>5 DEF roster
<1> QED
  BY <1>1, <1>2, <1>3, <1>4

\* A row whose wait is brought up to date.
LEMMA WaitedRow ==
    ASSUME NEW row \in Rows, Evident(row)
    PROVE  /\ Waited(row) \in Rows
           /\ Waited(row).order = row.order /\ Waited(row).cap = row.cap
           /\ Waited(row).left = row.left
           /\ Evident(Waited(row))
<1>1. RosterWait(row) \in Rosters /\ RosterWait(row).samples \in {row.roster.samples, <<>>}
  BY RosterWaits
<1>2. Waited(row) = [row EXCEPT !.roster = RosterWait(row)]
  BY DEF Waited
<1> DEFINE roster == RosterWait(row)
<1> HIDE DEF roster
<1>3. roster \in Rosters
  BY <1>1 DEF roster
<1>4. [row EXCEPT !.roster = roster] \in Rows
  BY <1>3, Zenon DEF Rows
<1>5. /\ [row EXCEPT !.roster = roster].order = row.order
      /\ [row EXCEPT !.roster = roster].cap = row.cap
      /\ [row EXCEPT !.roster = roster].left = row.left
      /\ [row EXCEPT !.roster = roster].roster = roster
  BY Zenon DEF Rows
<1>6. Evident(Waited(row))
  <2>1. /\ Waited(row).roster.samples \in {row.roster.samples, <<>>}
        /\ Waited(row).cap = row.cap
    BY <1>1, <1>2, <1>5 DEF roster
  <2> QED
    BY <2>1 DEF Evident
<1> QED
  BY <1>2, <1>4, <1>5, <1>6 DEF roster

\* A row 15 seconds later.
LEMMA OlderRow ==
    ASSUME NEW row \in Rows
    PROVE  /\ Older(row) \in Rows
           /\ Older(row).order = row.order /\ Older(row).cap = row.cap
           /\ Older(row).left = row.left
           /\ Older(row).roster.samples = row.roster.samples
<1> DEFINE age == IF row.left \/ row.cap = NoCapture THEN row.age
                  ELSE Min({row.age + 1, Lease + 1})
           read == IF row.roster.samples = <<>> THEN row.roster.age
                   ELSE Min({row.roster.age + 1, Lease + 1})
           since == IF row.roster.waiting THEN Min({row.roster.since + 1, Grace})
                    ELSE row.roster.since
           roster == [row.roster EXCEPT !.age = read, !.since = since]
<1>1. age \in 0..Lease + 1 /\ read \in 0..Lease + 1 /\ since \in 0..Grace
  <2>1. Lease \in Nat /\ Grace \in Nat
    BY LimitsAssumption
  <2>2. /\ row.age \in 0..Lease + 1 /\ row.roster.age \in 0..Lease + 1
        /\ row.roster.since \in 0..Grace
    BY RowParts
  <2>3. Min({row.age + 1, Lease + 1}) \in 0..Lease + 1
    BY <2>1, <2>2, OfTwo
  <2>4. Min({row.roster.age + 1, Lease + 1}) \in 0..Lease + 1
    BY <2>1, <2>2, OfTwo
  <2>5. Min({row.roster.since + 1, Grace}) \in 0..Grace
    BY <2>1, <2>2, OfTwo
  <2> QED
    BY <2>2, <2>3, <2>4, <2>5
<1>2. Older(row) = [row EXCEPT !.age = age, !.roster = roster]
  <2>1. row.roster \in Rosters
    BY RowParts
  <2> QED
    BY <2>1, Zenon DEF Older, Rows, Rosters
<1> HIDE DEF age, read, since
<1>3. roster \in Rosters /\ roster.samples = row.roster.samples
  <2>1. row.roster \in Rosters
    BY RowParts
  <2>2. roster \in Rosters
    BY <1>1, <2>1, Zenon DEF Rosters
  <2>3. roster.samples = row.roster.samples
    BY <2>1, Zenon DEF Rosters
  <2> QED
    BY <2>2, <2>3
<1> HIDE DEF roster
<1>4. [row EXCEPT !.age = age, !.roster = roster] \in Rows
  BY <1>1, <1>3, Zenon DEF Rows
<1>5. /\ [row EXCEPT !.age = age, !.roster = roster].order = row.order
      /\ [row EXCEPT !.age = age, !.roster = roster].cap = row.cap
      /\ [row EXCEPT !.age = age, !.roster = roster].left = row.left
      /\ [row EXCEPT !.age = age, !.roster = roster].roster = roster
  BY Zenon DEF Rows
<1> QED
  BY <1>2, <1>3, <1>4, <1>5

\* The last outcomes of a row, with one of a later frame.
LEMMA MoreEvidence ==
    ASSUME NEW samples \in Seq(Outcome), NEW new \in Outcome, NEW last \in Nat,
           \A i \in 1..Len(samples) : /\ samples[i].seq <= last
                                      /\ samples[i].seq < new.seq
                                      /\ \A j \in 1..i - 1 : samples[j].seq < samples[i].seq,
           new.seq <= last,
           NEW start \in 1..Len(samples) + 1,
           NEW kept, kept = SubSeq(Append(samples, new), start, Len(samples) + 1)
    PROVE  /\ kept \in Seq(Outcome)
           /\ \A i \in 1..Len(kept) : /\ kept[i].seq <= last
                                      /\ \A j \in 1..i - 1 : kept[j].seq < kept[i].seq
<1> DEFINE all == Append(samples, new)
           size == Len(samples) + 1
<1>1. Len(samples) \in Nat /\ size \in Nat /\ start \in 1..size
  OBVIOUS
<1>2. /\ \A i \in 1..size : all[i] \in Outcome
      /\ \A i \in 1..Len(samples) : all[i] = samples[i]
      /\ all[size] = new
  <2>1. all \in Seq(Outcome) /\ Len(all) = size
    BY AppendProperties
  <2>2. \A i \in 1..Len(samples) : all[i] = samples[i]
    BY AppendProperties
  <2>3. all[size] = new
    BY AppendProperties
  <2> HIDE DEF all
  <2> QED
    BY <2>1, <2>2, <2>3
<1>3. kept = SubSeq(all, start, size)
  OBVIOUS
<1> HIDE DEF all
<1>4. /\ kept \in Seq(Outcome) /\ Len(kept) = size - start + 1
      /\ \A i \in 1..Len(kept) : kept[i] = all[start + i - 1]
  <2>1. \A i \in start..size : all[i] \in Outcome
    BY <1>1, <1>2
  <2>2. start \in Int /\ size \in Int /\ start <= size
    BY <1>1
  <2> HIDE DEF size
  <2>3. /\ SubSeq(all, start, size) \in Seq(Outcome)
        /\ Len(SubSeq(all, start, size)) = IF start <= size THEN size - start + 1 ELSE 0
        /\ \A i \in 1..size - start + 1 : SubSeq(all, start, size)[i] = all[start + i - 1]
    BY <2>1, <2>2, SubSeqProperties
  <2> QED
    BY <1>3, <2>2, <2>3
<1>5. \A i \in 1..size : all[i].seq \in Nat
  BY <1>2 DEF Outcome
<1>6. ASSUME NEW i \in 1..size
      PROVE  /\ all[i].seq <= last
             /\ \A j \in 1..i - 1 : all[j].seq < all[i].seq
  <2>1. CASE i \in 1..Len(samples)
    <3>1. \A j \in 1..i - 1 : all[j] = samples[j]
      BY <1>1, <1>2, <2>1
    <3> QED
      BY <1>2, <2>1, <3>1
  <2>2. CASE i = size
    <3>1. \A j \in 1..i - 1 : j \in 1..Len(samples) /\ all[j] = samples[j]
      BY <1>1, <1>2, <2>2
    <3> QED
      BY <1>2, <2>2, <3>1
  <2> QED
    BY <1>1, <2>1, <2>2
<1>7. ASSUME NEW i \in 1..Len(kept)
      PROVE  /\ kept[i].seq <= last
             /\ \A j \in 1..i - 1 : kept[j].seq < kept[i].seq
  <2>1. start + i - 1 \in 1..size
    BY <1>1, <1>4
  <2>2. /\ all[start + i - 1].seq <= last
        /\ \A j \in 1..start + i - 1 - 1 : all[j].seq < all[start + i - 1].seq
    BY <1>6, <2>1
  <2>3. ASSUME NEW j \in 1..i - 1
        PROVE  kept[j].seq < kept[i].seq
    <3>1. j \in 1..Len(kept) /\ start + j - 1 \in 1..start + i - 1 - 1
      BY <1>1, <1>4
    <3> QED
      BY <1>4, <2>2, <3>1
  <2> QED
    BY <1>4, <2>2, <2>3
<1> QED
  BY <1>4, <1>7

\* An OCR result of a frame the row has not heard of, of its session so far, is evidence.
LEMMA SampledRow ==
    ASSUME NEW row \in Rows, Evident(row),
           NEW u, u.cap \in Captures, u.named \in BOOLEAN, u.quality \in Qualities,
           NewEvidence(row, u.cap), u.cap.seq <= row.cap.seq
    PROVE  /\ Sampled(row, u) \in Rows
           /\ Sampled(row, u).order = row.order /\ Sampled(row, u).cap = row.cap
           /\ Sampled(row, u).left = row.left
           /\ Evident(Sampled(row, u))
<1> DEFINE sample == [seq |-> u.cap.seq,
                      quality |-> IF u.named THEN u.quality ELSE "unknown"]
           all == Append(row.roster.samples, sample)
           start == Max({1, Len(all) - SampleWindow + 1})
           kept == SubSeq(all, start, Len(all))
           print == u.cap.print
           named == u.named
           roster == [row.roster EXCEPT !.samples = kept, !.print = print, !.named = named,
                                        !.age = 0]
           new == [row EXCEPT !.roster = roster]
<1>1. /\ row.roster \in Rosters /\ row.roster.samples \in Seq(Outcome)
      /\ row.cap.seq \in Nat
  BY RowParts
<1>2. u.cap.seq \in Nat /\ print \in Nat
  BY DEF Captures
<1>3. sample \in Outcome /\ sample.seq = u.cap.seq
  <2>1. u.quality \in {"complete", "truncated", "unknown"}
    BY LimitsAssumption
  <2>2. (IF u.named THEN u.quality ELSE "unknown") \in {"complete", "truncated", "unknown"}
    BY <2>1, Zenon
  <2> QED
    BY <1>2, <2>2 DEF Outcome
<1>4. Sampled(row, u) = Waited(new)
  BY DEF Sampled
<1> HIDE DEF sample
<1>5. Len(all) = Len(row.roster.samples) + 1 /\ Len(row.roster.samples) \in Nat
  BY <1>1, <1>3
<1>6. start \in 1..Len(row.roster.samples) + 1
  <2>1. SampleWindow \in Nat \ {0}
    BY LimitsAssumption
  <2> HIDE DEF all
  <2>2. 1 \in Int /\ Len(all) - SampleWindow + 1 \in Int
    BY <1>5, <2>1
  <2>3. start = IF 1 >= Len(all) - SampleWindow + 1 THEN 1 ELSE Len(all) - SampleWindow + 1
    BY <2>2, OfTwo
  <2> HIDE DEF start
  <2> QED
    BY <1>5, <2>1, <2>3
<1>7. kept = SubSeq(Append(row.roster.samples, sample), start, Len(row.roster.samples) + 1)
  BY <1>5
<1>8. \A i \in 1..Len(row.roster.samples) : row.roster.samples[i].seq < sample.seq
  <2>1. DOMAIN row.roster.samples = 1..Len(row.roster.samples)
    BY <1>1
  <2> QED
    BY <1>3, <2>1 DEF NewEvidence
<1> HIDE DEF start, kept, all, print, named
<1>9. /\ kept \in Seq(Outcome)
      /\ \A i \in 1..Len(kept) : /\ kept[i].seq <= row.cap.seq
                                 /\ \A j \in 1..i - 1 : kept[j].seq < kept[i].seq
  <2>1. sample.seq <= row.cap.seq
    BY <1>3
  <2>2. \A i \in 1..Len(row.roster.samples) :
            /\ row.roster.samples[i].seq <= row.cap.seq
            /\ row.roster.samples[i].seq < sample.seq
            /\ \A j \in 1..i - 1 : row.roster.samples[j].seq < row.roster.samples[i].seq
    BY <1>8 DEF Evident
  <2> QED
    BY <1>1, <1>3, <1>6, <1>7, <2>1, <2>2, MoreEvidence
<1>10. roster \in Rosters /\ roster.samples = kept
  <2>1. 0 \in 0..Lease + 1 /\ named \in BOOLEAN
    BY LimitsAssumption DEF named
  <2>2. roster \in Rosters
    BY <1>1, <1>2, <1>9, <2>1, Zenon DEF Rosters, Outcome
  <2>3. roster.samples = kept
    BY <1>1, Zenon DEF Rosters
  <2> QED
    BY <2>2, <2>3
<1> HIDE DEF roster
<1>11. new \in Rows
  BY <1>10, Zenon DEF Rows
<1>12. /\ new.order = row.order /\ new.cap = row.cap /\ new.left = row.left
       /\ new.roster = roster
  BY Zenon DEF Rows
<1>13. Evident(new)
  BY <1>9, <1>10, <1>12 DEF Evident
<1> HIDE DEF new
<1> QED
  BY <1>4, <1>11, <1>12, <1>13, WaitedRow

-----------------------------------------------------------------------------
(* The newest capture and the last stamp of a window.                      *)

\* No frame of a window is later than its latest, which is one of them if there is any.
LEMMA LatestIsNewest ==
    ASSUME rows \in RowTables, NEW c
    PROVE  /\ Latest(c) \in Captures
           /\ \A k \in RowsOf(c) : NotLater(rows[k].cap, Latest(c))
           /\ Latest(c) = NoCapture \/ \E k \in RowsOf(c) : rows[k].cap = Latest(c)
<1> DEFINE captures == {rows[k].cap : k \in RowsOf(c)} \ {NoCapture}
           NoneLater(x) == \A y \in captures : \/ x.epoch > y.epoch
                                               \/ x.epoch = y.epoch /\ x.seq >= y.seq
<1>1. /\ RowsOf(c) \subseteq Keys /\ IsFiniteSet(RowsOf(c))
      /\ \A k \in RowsOf(c) : k \in Stored(rows) /\ rows[k] \in Rows
  <2>1. RowsOf(c) \in SUBSET Keys
    BY DEF RowsOf, Stored
  <2> QED
    BY <2>1, KeysFinite, TablesAreOrdered DEF RowsOf
<1>2. captures \subseteq Captures
  BY <1>1, RowParts
<1>3. \A x \in Captures : x.epoch \in Nat /\ x.seq \in Nat
  BY DEF Captures
<1>4. NoCapture \in Captures
  BY DEF NoCapture, Captures
<1>5. Latest(c) = IF captures = {} THEN NoCapture ELSE CHOOSE x \in captures : NoneLater(x)
  BY DEF Latest
<1>6. ASSUME captures # {}
      PROVE  \E x \in captures : NoneLater(x)
  <2> DEFINE Epochs == {y.epoch : y \in captures}
             Of(e) == {y \in captures : y.epoch = e}
             Seqs(e) == {y.seq : y \in Of(e)}
  <2>1. IsFiniteSet(captures)
    <3> DEFINE f == [k \in RowsOf(c) |-> rows[k].cap]
    <3>1. IsFiniteSet({f[k] : k \in RowsOf(c)})
      <4> DOMAIN f = RowsOf(c)
        OBVIOUS
      <4> HIDE DEF f
      <4> QED
        BY <1>1, ImageFinite
    <3>2. captures \subseteq {f[k] : k \in RowsOf(c)}
      OBVIOUS
    <3> QED
      BY <3>1, <3>2, FS_Subset
  <2> HIDE DEF captures
  <2>2. PICK e \in Epochs : \A x \in Epochs : x <= e
    <3>1. IsFiniteSet(Epochs)
      <4> DEFINE f == [y \in captures |-> y.epoch]
      <4>1. IsFiniteSet({f[y] : y \in captures})
        <5> DOMAIN f = captures
          OBVIOUS
        <5> HIDE DEF f
        <5> QED
          BY <2>1, ImageFinite
      <4> QED
        BY <4>1
    <3>2. Epochs \subseteq Nat /\ Epochs # {}
      BY <1>2, <1>3, <1>6
    <3> HIDE DEF Epochs
    <3> QED
      BY <3>1, <3>2, Greatest
  <2>3. PICK n \in Seqs(e) : \A x \in Seqs(e) : x <= n
    <3>1. IsFiniteSet(Seqs(e))
      <4> DEFINE f == [y \in Of(e) |-> y.seq]
      <4>1. IsFiniteSet(Of(e))
        BY <2>1, FS_Subset
      <4>2. IsFiniteSet({f[y] : y \in Of(e)})
        <5> DOMAIN f = Of(e)
          OBVIOUS
        <5> HIDE DEF f, Of
        <5> QED
          BY <4>1, ImageFinite
      <4> QED
        BY <4>2
    <3>2. Seqs(e) \subseteq Nat /\ Seqs(e) # {}
      BY <1>2, <1>3, <2>2
    <3> HIDE DEF Seqs
    <3> QED
      BY <3>1, <3>2, Greatest
  <2>4. PICK x \in captures : x.epoch = e /\ x.seq = n
    BY <2>3
  <2>5. ASSUME NEW y \in captures
        PROVE  x.epoch > y.epoch \/ (x.epoch = y.epoch /\ x.seq >= y.seq)
    <3>1. y.epoch \in Nat /\ y.seq \in Nat /\ x.epoch \in Nat /\ x.seq \in Nat
      BY <1>2, <1>3
    <3>2. y.epoch <= x.epoch
      BY <2>2, <2>4
    <3>3. y.epoch = x.epoch => y.seq <= x.seq
      BY <2>3, <2>4
    <3> QED
      BY <3>1, <3>2, <3>3
  <2> QED
    BY <2>5
<1>7. CASE captures = {}
  <2>1. Latest(c) = NoCapture
    BY <1>5, <1>7
  <2>2. \A k \in RowsOf(c) : rows[k].cap = NoCapture
    BY <1>7
  <2> QED
    BY <1>4, <2>1, <2>2 DEF NotLater, NoCapture
<1>8. CASE captures # {}
  <2>1. Latest(c) \in captures /\ NoneLater(Latest(c))
    <3> HIDE DEF captures, NoneLater
    <3> QED
      BY <1>5, <1>6, <1>8
  <2>2. Latest(c) \in Captures
    BY <1>2, <2>1
  <2>3. ASSUME NEW k \in RowsOf(c)
        PROVE  NotLater(rows[k].cap, Latest(c))
    <3>1. CASE rows[k].cap = NoCapture
      BY <1>3, <2>2, <3>1 DEF NotLater, NoCapture
    <3>2. CASE rows[k].cap # NoCapture
      <4>1. rows[k].cap \in captures
        BY <3>2
      <4> DEFINE y == rows[k].cap
                 latest == Latest(c)
      <4>2. /\ y \in Captures /\ latest \in Captures
            /\ latest.epoch > y.epoch \/ (latest.epoch = y.epoch /\ latest.seq >= y.seq)
        BY <1>2, <2>1, <4>1
      <4> HIDE DEF y, latest
      <4>3. NotLater(y, latest)
        BY <1>3, <4>2 DEF NotLater
      <4> QED
        BY <4>3 DEF y, latest
    <3> QED
      BY <3>1, <3>2
  <2>4. \E k \in RowsOf(c) : rows[k].cap = Latest(c)
    BY <2>1
  <2> QED
    BY <2>2, <2>3, <2>4
<1> QED
  BY <1>7, <1>8

\* The last stamp of a window is a number.
LEMMA LastStampIsNumber ==
    ASSUME rows \in RowTables, NEW c
    PROVE  LastStamp(c) \in Nat
<1> DEFINE f == [k \in RowsOf(c) |-> rows[k].stamp]
           S == {0} \cup {rows[k].stamp : k \in RowsOf(c)}
<1>1. /\ IsFiniteSet(RowsOf(c))
      /\ \A k \in RowsOf(c) : rows[k] \in Rows
  <2>1. RowsOf(c) \in SUBSET Keys
    BY DEF RowsOf, Stored
  <2> QED
    BY <2>1, KeysFinite, TablesAreOrdered DEF RowsOf
<1>2. S \subseteq Nat /\ S # {}
  BY <1>1, RowParts
<1>3. IsFiniteSet(S)
  <2>1. IsFiniteSet({f[k] : k \in RowsOf(c)})
    <3> DOMAIN f = RowsOf(c)
      OBVIOUS
    <3> HIDE DEF f
    <3> QED
      BY <1>1, ImageFinite
  <2>2. IsFiniteSet({0})
    BY FS_Singleton
  <2>3. {f[k] : k \in RowsOf(c)} = {rows[k].stamp : k \in RowsOf(c)}
    OBVIOUS
  <2> QED
    BY <2>1, <2>2, <2>3, FS_Union
<1> DEFINE last == Max(S)
<1>4. LastStamp(c) = last
  BY DEF LastStamp
<1> HIDE DEF S
<1>5. last \in S
  BY <1>2, <1>3, Greatest
<1> QED
  BY <1>2, <1>4, <1>5

\* Every presence upload, late ones included, is of a frame and a known system.
LEMMA UploadsAreTyped ==
    ASSUME rows \in RowTables, NEW c \in Clients, NEW u \in FreshUploads(c) \cup LateUploads(c)
    PROVE  /\ u.cap \in Captures /\ u.stamp \in Nat /\ u.count \in {0, 1}
           /\ u.system \in Systems /\ (u.status # "active") \in BOOLEAN
<1> DEFINE latest == Latest(c)
<1>1. latest.epoch \in Nat /\ latest.seq \in Nat /\ latest.print \in Nat /\ latest \in Captures
  BY LatestIsNewest DEF Captures
<1>2. NoCapture \in Captures
  BY DEF NoCapture, Captures
<1> HIDE DEF latest
<1>3. CASE u \in FreshUploads(c)
  <2>1. /\ u.stamp = LastStamp(c) + 1 /\ u.cap \in NextCaptures(c)
        /\ u.system \in Systems /\ u.count \in {0, 1}
    BY <1>3 DEF FreshUploads
  <2>2. u.cap \in Captures
    <3> DEFINE First == [epoch |-> latest.epoch + 1, seq |-> 1, print |-> 1]
               Following(p) == [latest EXCEPT !.seq = @ + 1, !.print = p]
    <3>1. First \in Captures
      BY <1>1 DEF Captures
    <3>2. ASSUME NEW p \in Nat
          PROVE  Following(p) \in Captures
      <4> DEFINE seq == latest.seq + 1
      <4>1. seq \in Nat
        BY <1>1
      <4> HIDE DEF seq
      <4>2. [latest EXCEPT !.seq = seq, !.print = p] \in Captures
        BY <1>1, <4>1, Zenon DEF Captures
      <4> QED
        BY <4>2 DEF seq
    <3>3. \/ u.cap = First
          \/ u.cap = latest
          \/ \E p \in {latest.print, latest.seq + 1} : u.cap = Following(p)
          \/ u.cap = NoCapture
      <4> HIDE DEF First, Following
      <4>1. NextCaptures(c) =
              {First} \cup (IF latest = NoCapture THEN {}
                            ELSE {latest} \cup {Following(p) : p \in {latest.print, latest.seq + 1}})
                      \cup (IF latest = NoCapture /\ c \in Legacy THEN {NoCapture} ELSE {})
        BY DEF NextCaptures, First, Following, latest
      <4> QED
        BY <2>1, <4>1
    <3>4. latest.print \in Nat /\ latest.seq + 1 \in Nat
      BY <1>1
    <3> HIDE DEF First, Following
    <3> QED
      BY <1>1, <1>2, <3>1, <3>2, <3>3, <3>4
  <2>3. u.stamp \in Nat
    BY <2>1, LastStampIsNumber
  <2> QED
    BY <2>1, <2>2, <2>3
<1>4. CASE u \in LateUploads(c)
  <2> DEFINE older == [epoch : {latest.epoch}, seq : 1..latest.seq - 1, print : {1}]
                      \cup [epoch : 1..latest.epoch - 1, seq : {1, latest.seq + 1}, print : {1}]
                      \cup {NoCapture}
  <2>1. /\ u.stamp \in 1..MaxStamp[c] /\ u.cap \in older \cup {latest}
        /\ u.system \in Systems /\ u.count \in {0, 1}
    BY <1>4 DEF LateUploads, latest
  <2>2. older \subseteq Captures
    BY <1>1, <1>2 DEF Captures
  <2>3. MaxStamp[c] \in Nat
    BY LimitsAssumption
  <2> HIDE DEF older
  <2> QED
    BY <1>1, <2>1, <2>2, <2>3
<1> QED
  BY <1>3, <1>4

\* So is every OCR result, which is of the latest session of its window.
LEMMA OcrUploadsAreTyped ==
    ASSUME rows \in RowTables, NEW c \in Clients, NEW u \in OcrUploads(c)
    PROVE  /\ u.cap \in Captures /\ u.named \in BOOLEAN /\ u.quality \in Qualities
           /\ u.cap.epoch = Latest(c).epoch /\ u.cap.seq <= Latest(c).seq
<1> DEFINE latest == Latest(c)
           frames == {latest} \cup [epoch : {latest.epoch}, seq : 1..latest.seq - 1,
                                    print : {1, latest.print}]
<1>1. latest.epoch \in Nat /\ latest.seq \in Nat /\ latest.print \in Nat /\ latest \in Captures
  BY LatestIsNewest DEF Captures
<1>2. u.cap \in frames /\ u.named \in BOOLEAN /\ u.quality \in Qualities
  BY Zenon DEF OcrUploads
<1>3. \A cap \in frames : cap \in Captures /\ cap.epoch = latest.epoch /\ cap.seq <= latest.seq
  <2> HIDE DEF latest
  <2> QED
    BY <1>1 DEF Captures
<1> HIDE DEF frames
<1> QED
  BY <1>2, <1>3

-----------------------------------------------------------------------------
(* The handlers.                                                           *)

\* The row an upload leaves keeps the table sound, if the upload is of a frame no
\* earlier than those stored and the window is resident nowhere else.
LEMMA ReportedIsSound ==
    ASSUME NEW table, Sound(table), NEW k \in Keys,
           NEW u, u.cap \in Captures, u.stamp \in Nat, u.count \in {0, 1},
           (u.status # "active") \in BOOLEAN,
           \A l \in Residents(table) : l[1] = k[1] => l = k,
           \A l \in Stored(table) : l[1] = k[1] => NotLater(table[l].cap, u.cap)
    PROVE  /\ Sound([table EXCEPT ![k] = ReportedRow(table, k, u)])
           /\ Stored(table) \subseteq Stored([table EXCEPT ![k] = ReportedRow(table, k, u)])
<1> DEFINE old == table[k]
           sameSession == old # NoRow /\ u.cap # NoCapture /\ old.cap.epoch = u.cap.epoch
           keepsOrder == k \in Residents(table) /\ (u.cap = NoCapture \/ sameSession)
           order == IF keepsOrder THEN old.order ELSE NextJoinOrder(table)
           left == u.status # "active"
           roster == IF sameSession THEN old.roster ELSE NoRoster
           stamp == u.stamp
           count == u.count
           cap == u.cap
           row == [order |-> order, stamp |-> stamp, count |-> count, left |-> left,
                   cap |-> cap, age |-> 0, roster |-> roster]
<1>1. table \in RowTables /\ Ordered(table)
  BY TablesAreOrdered DEF Sound
<1>2. old # NoRow => k \in Stored(table) /\ old \in Rows
  BY <1>1, TablesAreOrdered DEF Stored
<1>3. Residents(table) \subseteq Stored(table)
  BY DEF Residents
<1>4. order = NextJoinOrder(table) \/ (k \in Stored(table) /\ order = table[k].order)
  BY <1>3
<1>5. order \in Nat \ {0}
  <2>1. NextJoinOrder(table) \in Nat \ {0}
    BY <1>1, NextIsLast
  <2>2. k \in Stored(table) => table[k].order \in Nat \ {0}
    BY <1>1, TablesAreOrdered, RowsAreNoNoRow
  <2> QED
    BY <1>4, <2>1, <2>2
<1>6. roster \in Rosters
  BY <1>2, RowParts, NoRosterYet
<1>7. ASSUME NEW i \in 1..Len(roster.samples)
      PROVE  /\ roster.samples[i].seq <= cap.seq
             /\ \A j \in 1..i - 1 : roster.samples[j].seq < roster.samples[i].seq
  <2>1. CASE sameSession
    <3>1. k \in Stored(table) /\ old \in Rows /\ roster = old.roster
      BY <1>2, <2>1
    <3> HIDE DEF roster
    <3>2. Evident(old) /\ NotLater(old.cap, cap)
      BY <3>1 DEF Sound
    <3>3. /\ old.cap.epoch \in Nat /\ old.cap.seq \in Nat /\ cap.epoch \in Nat /\ cap.seq \in Nat
          /\ old.cap.epoch = cap.epoch
      BY <2>1, <3>1, RowParts DEF Captures
    <3>4. old.cap.seq <= cap.seq
      BY <3>2, <3>3 DEF NotLater
    <3>5. roster.samples \in Seq(Outcome)
      BY <3>1, RowParts
    <3>6. roster.samples[i].seq \in Nat
      <4>1. roster.samples[i] \in Outcome
        BY <3>5
      <4> QED
        BY <4>1 DEF Outcome
    <3> QED
      BY <3>1, <3>2, <3>3, <3>4, <3>6 DEF Evident
  <2>2. CASE ~sameSession
    <3>1. roster.samples = <<>>
      BY <2>2, NoRosterYet
    <3> HIDE DEF roster
    <3> QED
      BY <3>1
  <2> QED
    BY <2>1, <2>2
<1>8. ReportedRow(table, k, u) = Waited(row)
  BY DEF ReportedRow
<1>9. left \in BOOLEAN /\ cap \in Captures /\ stamp \in Nat /\ count \in {0, 1}
  OBVIOUS
<1> HIDE DEF order, left, roster, stamp, count, cap
<1>10. row \in Rows
  <2>1. 0 \in 0..Lease + 1
    BY LimitsAssumption
  <2> QED
    BY <1>5, <1>6, <1>9, <2>1, Zenon DEF Rows
<1>11. row.order = order /\ row.cap = cap /\ row.roster = roster
  BY Zenon
<1> HIDE DEF row
<1>12. Evident(row)
  BY <1>7, <1>11 DEF Evident
<1> DEFINE new == Waited(row)
<1>13. new \in Rows /\ new.order = order /\ new.cap = cap /\ Evident(new)
  BY <1>10, <1>11, <1>12, WaitedRow
<1> HIDE DEF new
<1>14. \A l \in Stored(table) : l[1] = k[1] => NotLater(table[l].cap, new.cap)
  BY <1>13 DEF cap
<1>15. /\ Sound([table EXCEPT ![k] = new])
       /\ Stored(table) \subseteq Stored([table EXCEPT ![k] = new])
  BY <1>4, <1>13, <1>14, RowIsSound
<1> QED
  BY <1>8, <1>15 DEF new

\* A window that moves departs everywhere else.
LEMMA MovedIsSound ==
    ASSUME Sound(rows), NEW c \in Clients, NEW s \in Systems
    PROVE  /\ Sound(MovedTo(c, s))
           /\ Stored(MovedTo(c, s)) = Stored(rows)
           /\ \A l \in Stored(rows) : MovedTo(c, s)[l].cap = rows[l].cap
           /\ \A l \in Residents(MovedTo(c, s)) : l[1] = c => l = <<c, s>>
           /\ \A l \in Residents(MovedTo(c, s)) :
                l \in Residents(rows) /\ MovedTo(c, s)[l] = rows[l]
           /\ <<c, s>> \in Residents(rows) => <<c, s>> \in Residents(MovedTo(c, s))
<1> DEFINE new == MovedTo(c, s)
           Leaves(k) == k \in RowsOf(c) /\ k[2] # s
<1>1. rows \in RowTables
  BY DEF Sound
<1>2. /\ DOMAIN new = Keys /\ new = [k \in Keys |-> new[k]]
      /\ \A k \in Keys : new[k] = IF Leaves(k) THEN Departed(rows[k]) ELSE rows[k]
  BY DEF MovedTo
<1>3. \A k \in Keys : Leaves(k) => k \in Stored(rows)
  BY DEF RowsOf
<1> HIDE DEF new
<1>4. SomeDeparted(new, rows)
  BY <1>2, <1>3 DEF SomeDeparted
<1>5. /\ Sound(new) /\ Stored(new) = Stored(rows)
      /\ Residents(new) = {k \in Residents(rows) : new[k] = rows[k]}
  BY <1>4, DepartedIsSound
<1>6. \A k \in Stored(rows) : k \in Keys /\ rows[k] \in Rows
  BY <1>1, TablesAreOrdered
<1>7. \A l \in Stored(rows) : new[l].cap = rows[l].cap
  BY <1>2, <1>6, DepartedRow
<1>8. ASSUME NEW l \in Residents(new), l[1] = c
      PROVE  l = <<c, s>>
  <2>1. l \in Stored(rows) /\ new[l] = rows[l] /\ ~rows[l].left
    BY <1>5 DEF Residents
  <2>2. ~Leaves(l)
    <3> SUFFICES ASSUME Leaves(l)
                 PROVE  FALSE
      OBVIOUS
    <3>1. rows[l] = Departed(rows[l])
      BY <1>2, <1>6, <2>1
    <3>2. Departed(rows[l]).left = TRUE
      BY <1>6, <2>1, DepartedRow
    <3> QED
      BY <2>1, <3>1, <3>2
  <2>3. l[2] = s /\ l \in Keys
    BY <1>6, <1>8, <2>1, <2>2 DEF RowsOf
  <2> QED
    BY <1>8, <2>3 DEF Keys
<1>9. ASSUME <<c, s>> \in Residents(rows)
      PROVE  <<c, s>> \in Residents(new)
  <2>1. <<c, s>> \in Keys /\ ~Leaves(<<c, s>>)
    BY DEF Keys
  <2> QED
    BY <1>2, <1>5, <1>9, <2>1
<1> QED
  BY <1>5, <1>7, <1>8, <1>9 DEF new

\* What capture_is_current lets in is no earlier than what is stored.
LEMMA CurrentIsNotLater ==
    ASSUME rows \in RowTables, NEW c, NEW cap \in Captures, PresenceIsCurrent(c, cap)
    PROVE  \A k \in RowsOf(c) : NotLater(rows[k].cap, cap)
<1> DEFINE latest == Latest(c)
<1>1. /\ latest \in Captures
      /\ \A k \in RowsOf(c) : NotLater(rows[k].cap, latest) /\ rows[k].cap \in Captures
  <2>1. \A k \in RowsOf(c) : rows[k] \in Rows
    BY TablesAreOrdered DEF RowsOf
  <2> QED
    BY <2>1, LatestIsNewest, RowParts
<1>2. latest = NoCapture \/ NotLater(latest, cap)
  BY <1>1 DEF PresenceIsCurrent, NotLater, Captures
<1> HIDE DEF latest
<1>3. \A x \in Captures : x.epoch \in Nat /\ x.seq \in Nat
  BY DEF Captures
<1>4. NotLater(latest, cap)
  BY <1>2, <1>3 DEF NotLater, NoCapture
<1> QED
  BY <1>1, <1>3, <1>4 DEF NotLater

\* A presence upload.
LEMMA PresenceIsSound ==
    ASSUME Sound(rows), NEW c \in Clients, Presence(c)
    PROVE  Sound(rows') /\ Stored(rows) \subseteq Stored(rows')
<1>1. PICK u \in FreshUploads(c) \cup LateUploads(c) :
        LET k == <<c, u.system>>
            moved == MovedTo(c, u.system)
            reported == [moved EXCEPT ![k] = ReportedRow(moved, k, u)]
        IN  /\ PresenceIsCurrent(c, u.cap)
            /\ rows' = IF AlreadyReported(moved[k], u) THEN moved
                       ELSE IF u.count = 0 THEN reported
                       ELSE ReconcileMissing(reported, u.system)
  BY DEF Presence
<1> DEFINE s == u.system
           k == <<c, s>>
           moved == MovedTo(c, s)
           reported == [moved EXCEPT ![k] = ReportedRow(moved, k, u)]
<1>2. rows \in RowTables
  BY DEF Sound
<1>3. /\ u.cap \in Captures /\ u.stamp \in Nat /\ u.count \in {0, 1}
      /\ s \in Systems /\ (u.status # "active") \in BOOLEAN
  BY <1>2, UploadsAreTyped
<1>4. k \in Keys
  BY <1>3 DEF Keys
<1>5. /\ Sound(moved) /\ Stored(moved) = Stored(rows)
      /\ \A l \in Stored(rows) : moved[l].cap = rows[l].cap
      /\ \A l \in Residents(moved) : l[1] = c => l = <<c, s>>
  BY <1>3, MovedIsSound
<1>6. \A l \in RowsOf(c) : NotLater(rows[l].cap, u.cap)
  BY <1>1, <1>2, <1>3, CurrentIsNotLater
<1> HIDE DEF moved, s
<1>7. \A l \in Stored(moved) : l[1] = k[1] => NotLater(moved[l].cap, u.cap)
  BY <1>5, <1>6 DEF RowsOf
<1>8. \A l \in Residents(moved) : l[1] = k[1] => l = k
  BY <1>5
<1> HIDE DEF k
<1>9. Sound(reported) /\ Stored(moved) \subseteq Stored(reported)
  BY <1>3, <1>4, <1>5, <1>7, <1>8, ReportedIsSound
<1>10. rows' = moved \/ rows' = reported \/ rows' = ReconcileMissing(reported, s)
  BY <1>1 DEF moved, k, s
<1> HIDE DEF reported
<1>11. /\ Sound(ReconcileMissing(reported, s))
       /\ Stored(ReconcileMissing(reported, s)) = Stored(reported)
  <2>1. Reordered(ReconcileMissing(reported, s), reported)
    BY <1>9, ReconcileReorders DEF Sound
  <2> QED
    BY <1>9, <2>1, ReorderedIsSound, ReorderedResidents DEF Sound
<1> DEFINE new == rows'
<1>12. new = moved \/ new = reported \/ new = ReconcileMissing(reported, s)
  BY <1>10
<1> HIDE DEF new
<1>13. Sound(new) /\ Stored(rows) \subseteq Stored(new)
  BY <1>5, <1>9, <1>11, <1>12
<1> QED
  BY <1>13 DEF new

\* An OCR result.
LEMMA OcrIsSound ==
    ASSUME Sound(rows), NEW c \in Clients, Ocr(c)
    PROVE  Sound(rows') /\ Stored(rows) \subseteq Stored(rows')
<1>1. PICK s \in Systems, u \in OcrUploads(c) :
        /\ <<c, s>> \in Residents(rows)
        /\ rows' = RecordQuality(MovedTo(c, s), <<c, s>>, u)
  BY DEF Ocr
<1> DEFINE k == <<c, s>>
           moved == MovedTo(c, s)
           table == [moved EXCEPT ![k] = Sampled(@, u)]
<1>2. rows \in RowTables
  BY DEF Sound
<1>3. /\ u.cap \in Captures /\ u.named \in BOOLEAN /\ u.quality \in Qualities
      /\ u.cap.epoch = Latest(c).epoch /\ u.cap.seq <= Latest(c).seq
  BY <1>2, OcrUploadsAreTyped
<1>4. /\ Sound(moved) /\ Stored(moved) = Stored(rows)
      /\ \A l \in Residents(moved) : l[1] = c => l = k
      /\ k \in Residents(moved) /\ moved[k] = rows[k]
  BY <1>1, MovedIsSound
<1>5. k \in Stored(rows) /\ k \in RowsOf(c) /\ k \in Keys /\ rows[k] \in Rows
  <2>1. k \in Stored(rows) /\ k \in RowsOf(c)
    BY <1>1 DEF Residents, RowsOf
  <2> QED
    BY <1>2, <2>1, TablesAreOrdered
<1>6. u.cap.seq <= rows[k].cap.seq
  <2> DEFINE latest == Latest(c)
             cap == rows[k].cap
  <2>1. latest = NoCapture \/ NotLater(latest, cap)
    <3>1. latest = NoCapture \/ \E l \in RowsOf(c) : rows[l].cap = latest
      BY <1>2, LatestIsNewest
    <3>2. \A l \in RowsOf(c) : NotLater(rows[l].cap, cap)
      BY <1>1 DEF Sound, Newest, RowsOf
    <3> QED
      BY <3>1, <3>2
  <2>2. NotLater(cap, latest) /\ latest \in Captures
    BY <1>2, <1>5, LatestIsNewest
  <2>3. /\ cap.seq \in Nat /\ cap.epoch \in Nat
        /\ latest.seq \in Nat /\ latest.epoch \in Nat /\ u.cap.seq \in Nat
    BY <1>3, <1>5, <2>2, RowParts DEF Captures
  <2>4. u.cap.seq <= latest.seq
    BY <1>3
  <2> HIDE DEF latest, cap
  <2>5. u.cap.seq <= cap.seq
    BY <2>1, <2>2, <2>3, <2>4 DEF NotLater, NoCapture
  <2> QED
    BY <2>5 DEF cap
<1> HIDE DEF moved
<1>7. ASSUME NewEvidence(moved[k], u.cap)
      PROVE  Sound(table) /\ Stored(moved) \subseteq Stored(table)
  <2> DEFINE row == Sampled(moved[k], u)
  <2>1. moved[k] \in Rows /\ Evident(moved[k]) /\ k \in Stored(moved)
    BY <1>4, <1>5 DEF Sound
  <2>2. u.cap.seq <= moved[k].cap.seq
    BY <1>4, <1>6
  <2>3. row \in Rows /\ row.order = moved[k].order /\ row.cap = moved[k].cap /\ Evident(row)
    BY <1>3, <1>7, <2>1, <2>2, SampledRow
  <2> HIDE DEF row
  <2>4. \A l \in Stored(moved) : l[1] = k[1] => NotLater(moved[l].cap, row.cap)
    BY <1>4, <2>3 DEF Sound, Newest
  <2>5. \A l \in Residents(moved) : l[1] = k[1] => l = k
    BY <1>4
  <2>6. Sound([moved EXCEPT ![k] = row]) /\ Stored(moved) \subseteq Stored([moved EXCEPT ![k] = row])
    BY <1>4, <1>5, <2>1, <2>3, <2>4, <2>5, RowIsSound
  <2> QED
    BY <2>6 DEF row
<1>8. rows' = moved \/ (NewEvidence(moved[k], u.cap) /\ rows' = Reconcile(table, k[2]))
  BY <1>1 DEF RecordQuality, moved
<1> HIDE DEF table
<1>9. ASSUME Sound(table)
      PROVE  /\ Sound(Reconcile(table, k[2]))
             /\ Stored(Reconcile(table, k[2])) = Stored(table)
  <2>1. Reordered(Reconcile(table, k[2]), table)
    BY <1>9, ReconcileReorders DEF Sound
  <2> QED
    BY <1>9, <2>1, ReorderedIsSound, ReorderedResidents DEF Sound
<1> DEFINE new == rows'
<1>10. new = moved \/ (NewEvidence(moved[k], u.cap) /\ new = Reconcile(table, k[2]))
  BY <1>8
<1> HIDE DEF new
<1>11. Sound(new) /\ Stored(rows) \subseteq Stored(new)
  BY <1>4, <1>7, <1>9, <1>10
<1> QED
  BY <1>11 DEF new

\* A start that forgets rows.
LEMMA RestartIsSound ==
    ASSUME Sound(rows), Restart
    PROVE  /\ Sound(rows')
           /\ Stored(rows) \subseteq Stored(rows') \cup Inactive(rows)
           /\ Residents(rows') \subseteq Residents(rows)
           /\ \A k \in Stored(rows') : rows'[k] = rows[k]
<1>1. PICK gone \in SUBSET Inactive(rows) :
        rows' = [k \in Keys |-> IF k \in gone THEN NoRow ELSE rows[k]]
  BY DEF Restart, RowsRead
<1> DEFINE new == rows'
<1>2. SomeForgotten(new, rows, gone)
  BY <1>1 DEF SomeForgotten, Inactive
<1> HIDE DEF new
<1>3. /\ Sound(new) /\ Stored(new) = Stored(rows) \ gone
      /\ Residents(new) = Residents(rows) \ gone
      /\ \A k \in Stored(new) : new[k] = rows[k]
  BY <1>2, ForgottenIsSound
<1>4. /\ Sound(new)
      /\ Stored(rows) \subseteq Stored(new) \cup Inactive(rows)
      /\ Residents(new) \subseteq Residents(rows)
      /\ \A k \in Stored(new) : new[k] = rows[k]
  BY <1>3
<1> QED
  BY <1>4 DEF new

\* The cleanup.
LEMMA CleanupIsSound ==
    ASSUME Sound(rows), NEW gone, gone \subseteq Residents(rows), Cleanup(gone)
    PROVE  Sound(rows') /\ Stored(rows) \subseteq Stored(rows')
<1> DEFINE new == rows'
           Leaves(k) == k \in gone \/ (k \in Residents(rows) /\ k[1] \in StaleClients)
<1>1. new = [k \in Keys |-> IF Leaves(k) THEN Departed(rows[k]) ELSE rows[k]]
  BY DEF Cleanup
<1>2. \A k \in Keys : Leaves(k) => k \in Stored(rows)
  BY DEF Residents
<1> HIDE DEF new, Leaves
<1>3. SomeDeparted(new, rows)
  BY <1>1, <1>2 DEF SomeDeparted
<1>4. Sound(new) /\ Stored(new) = Stored(rows)
  BY <1>3, DepartedIsSound
<1> QED
  BY <1>4 DEF new

\* The passing of time.
LEMMA TickIsSound ==
    ASSUME Sound(rows), Tick
    PROVE  Sound(rows') /\ Stored(rows) \subseteq Stored(rows')
<1> DEFINE new == rows'
<1>1. new = [k \in Keys |-> IF rows[k] = NoRow THEN NoRow ELSE Older(rows[k])]
  BY DEF Tick
<1> HIDE DEF new
<1>2. rows \in RowTables
  BY DEF Sound
<1>3. \A k \in Stored(rows) : k \in Keys /\ rows[k] \in Rows /\ new[k] = Older(rows[k])
  BY <1>1, <1>2, TablesAreOrdered DEF Stored
<1>4. \A k \in Stored(rows) :
        /\ new[k] \in Rows /\ new[k].order = rows[k].order /\ new[k].cap = rows[k].cap
        /\ new[k].left = rows[k].left /\ new[k].roster.samples = rows[k].roster.samples
  BY <1>3, OlderRow
<1>5. \A k \in Keys : k \notin Stored(rows) => new[k] = NoRow
  BY <1>1 DEF Stored
<1>6. new \in RowTables
  BY <1>1, <1>4, <1>5 DEF RowTables
<1>7. Stored(new) = Stored(rows)
  BY <1>4, <1>5, RowsAreNoNoRow DEF Stored
<1>8. Residents(new) = Residents(rows) /\ Residents(rows) \subseteq Stored(rows)
  BY <1>4, <1>7 DEF Residents
<1>9. Distinct(new)
  BY <1>4, <1>7 DEF Sound, Distinct
<1>10. InOnePlace(new)
  BY <1>8 DEF Sound, InOnePlace
<1>11. \A k \in Stored(new) : Evident(new[k])
  BY <1>4, <1>7 DEF Sound, Evident
<1>12. Newest(new)
  BY <1>4, <1>7, <1>8 DEF Sound, Newest
<1>13. Sound(new)
  BY <1>6, <1>9, <1>10, <1>11, <1>12 DEF Sound
<1> QED
  BY <1>7, <1>13 DEF new

\* A server without rows.
LEMMA InitIsSound == Init => MonitoringInv
<1> SUFFICES ASSUME Init
             PROVE  MonitoringInv
  OBVIOUS
<1>1. rows \in RowTables /\ Stored(rows) = {}
  BY DEF Init, RowTables, Stored
<1>2. Residents(rows) = {}
  BY <1>1 DEF Residents
<1>3. Sound(rows)
  BY <1>1, <1>2 DEF Sound, Distinct, InOnePlace, Newest
<1>4. warm \in BOOLEAN /\ restarts \in 0..MaxRestarts
  BY LimitsAssumption DEF Init
<1> QED
  BY <1>3, <1>4 DEF MonitoringInv

\* Every step keeps the table sound.
LEMMA NextIsSound == MonitoringInv /\ [Next]_vars => MonitoringInv'
<1> SUFFICES ASSUME MonitoringInv, [Next]_vars
             PROVE  MonitoringInv'
  OBVIOUS
<1>1. Sound(rows) /\ warm \in BOOLEAN /\ restarts \in 0..MaxRestarts
  BY DEF MonitoringInv
<1>2. ASSUME NEW c \in Clients, Presence(c)
      PROVE  MonitoringInv'
  <2>1. Sound(rows')
    BY <1>1, <1>2, PresenceIsSound
  <2>2. warm' = warm /\ restarts' = restarts
    BY <1>2 DEF Presence
  <2> QED
    BY <1>1, <2>1, <2>2 DEF MonitoringInv, Sound
<1>3. ASSUME NEW c \in Clients, Ocr(c)
      PROVE  MonitoringInv'
  <2>1. Sound(rows')
    BY <1>1, <1>3, OcrIsSound
  <2>2. warm' = warm /\ restarts' = restarts
    BY <1>3 DEF Ocr
  <2> QED
    BY <1>1, <2>1, <2>2 DEF MonitoringInv
<1>4. ASSUME NEW gone \in SUBSET Residents(rows), Cleanup(gone)
      PROVE  MonitoringInv'
  <2>1. Sound(rows')
    BY <1>1, <1>4, CleanupIsSound
  <2>2. warm' = warm /\ restarts' = restarts
    BY <1>4 DEF Cleanup
  <2> QED
    BY <1>1, <2>1, <2>2 DEF MonitoringInv
<1>5. CASE Restart
  <2>1. Sound(rows') /\ warm' = FALSE
    BY <1>1, <1>5, RestartIsSound DEF Restart
  <2>2. restarts' \in 0..MaxRestarts
    <3>1. MaxRestarts \in Nat
      BY LimitsAssumption
    <3>2. restarts < MaxRestarts /\ restarts' = restarts + 1
      BY <1>5 DEF Restart
    <3> QED
      BY <1>1, <3>1, <3>2
  <2> QED
    BY <1>1, <2>1, <2>2 DEF MonitoringInv
<1>6. CASE WarmUp
  BY <1>1, <1>6 DEF WarmUp, MonitoringInv
<1>7. CASE Tick
  <2>1. Sound(rows')
    BY <1>1, <1>7, TickIsSound
  <2>2. warm' = warm /\ restarts' = restarts
    BY <1>7 DEF Tick
  <2> QED
    BY <1>1, <2>1, <2>2 DEF MonitoringInv
<1>8. CASE UNCHANGED vars
  BY <1>1, <1>8 DEF vars, MonitoringInv
<1> QED
  BY <1>2, <1>3, <1>4, <1>5, <1>6, <1>7, <1>8 DEF Next, WithinTick, Expire

\* The invariant holds in every reachable state.
THEOREM MonitoringInvariant == Spec => []MonitoringInv
<1> QED
  BY InitIsSound, NextIsSound, PTL DEF Spec

\* Rows, the grace of the cleanup and the restarts always have the types the source
\* gives them (presence rows of intel_store.py).
THEOREM MonitoringIsTyped == Spec => []TypeOK
<1>1. MonitoringInv => TypeOK
  BY DEF MonitoringInv, Sound, RowTables, TypeOK
<1> QED
  BY <1>1, MonitoringInvariant, PTL

\* No two rows ever share a join order (next_join_order under the store lock, and the
\* places a takeover gives), so who is primary never depends on how ties are broken.
THEOREM OrdersStayDistinct == Spec => []DistinctOrders
<1>1. MonitoringInv => DistinctOrders
  BY DEF MonitoringInv, Sound, Distinct, DistinctOrders
<1> QED
  BY <1>1, MonitoringInvariant, PTL

\* A window is resident in one system at a time (_transition_ocr_client_system),
\* whatever uploads arrive late or again while it moves.
THEOREM OnePlaceAtATime == Spec => []OnePlace
<1>1. MonitoringInv => OnePlace
  BY DEF MonitoringInv, Sound, InOnePlace, OnePlace
<1> QED
  BY <1>1, MonitoringInvariant, PTL

\* The samples of a row are of different frames of the session the row is in: a retried
\* or late OCR result is no new evidence for a takeover (record_roster_quality).
THEOREM EvidenceIsIndependent == Spec => []IndependentEvidence
<1>1. ASSUME MonitoringInv
      PROVE  IndependentEvidence
  <2>1. \A k \in Stored(rows) : rows[k] \in Rows /\ Evident(rows[k])
    BY <1>1, TablesAreOrdered DEF MonitoringInv, Sound
  <2>2. ASSUME NEW k \in Stored(rows)
        PROVE  DOMAIN rows[k].roster.samples = 1..Len(rows[k].roster.samples)
    <3>1. rows[k].roster.samples \in Seq(Outcome)
      BY <2>1, RowParts
    <3> QED
      BY <3>1
  <2> QED
    BY <2>1, <2>2 DEF IndependentEvidence, Evident
<1> QED
  BY <1>1, MonitoringInvariant, PTL

-----------------------------------------------------------------------------
(* Retirement.                                                             *)

\* What RetirementLasts says of a step and a system.
StaysRetired(s) ==
    LET primary == Primary(rows', s)
        retiring == {k \in Stored(rows) : primary # NoKey /\ primary[1] \in Replaces[k[1]]}
    IN  retiring # {} => restarts' # restarts /\ retiring \subseteq Inactive(rows)

\* The primary is no bare identity that a row retires.
LEMMA PrimaryIsNotSuperseded ==
    ASSUME NEW table, Sound(table), NEW s, Primary(table, s) # NoKey
    PROVE  Primary(table, s)[1] \notin Superseded(Stored(table))
<1>1. Ordered(table)
  BY TablesAreOrdered DEF Sound
<1>2. PICK some \in Stored(table) \cap ResidentsOf(table, s) : some[1] \notin Superseded(Stored(table))
  BY DEF Primary, PrimaryAmong
<1> QED
  BY <1>1, <1>2, OldestIsElected DEF Primary

\* No handler loses a row: an upload marks the rows of the window's other systems as departed and
\* the cleanup those of windows that are gone, a takeover changes orders only, and what a start
\* forgets is inactive.
LEMMA RowsAreKept ==
    ASSUME MonitoringInv, [Next]_vars
    PROVE  \/ Stored(rows) \subseteq Stored(rows')
           \/ restarts' # restarts /\ Stored(rows) \subseteq Stored(rows') \cup Inactive(rows)
<1>1. Sound(rows) /\ restarts \in Nat
  BY LimitsAssumption DEF MonitoringInv
<1>2. ASSUME NEW c \in Clients, Presence(c) \/ Ocr(c)
      PROVE  Stored(rows) \subseteq Stored(rows')
  BY <1>1, <1>2, PresenceIsSound, OcrIsSound
<1>3. ASSUME NEW gone \in SUBSET Residents(rows), Cleanup(gone)
      PROVE  Stored(rows) \subseteq Stored(rows')
  BY <1>1, <1>3, CleanupIsSound
<1>4. CASE Tick
  BY <1>1, <1>4, TickIsSound
<1>5. CASE Restart
  <2>1. restarts' # restarts
    BY <1>1, <1>5 DEF Restart
  <2>2. Stored(rows) \subseteq Stored(rows') \cup Inactive(rows)
    BY <1>1, <1>5, RestartIsSound
  <2> QED
    BY <2>1, <2>2
<1>6. ASSUME rows' = rows
      PROVE  Stored(rows) \subseteq Stored(rows')
  BY <1>6 DEF Stored
<1> QED
  BY <1>2, <1>3, <1>4, <1>5, <1>6 DEF Next, WithinTick, Expire, WarmUp, vars

\* A bare identity stays retired as long as a row of one of its windows is there: no upload, move,
\* stop, expiry or takeover loses the row (RowsAreKept) and with it the primary is another
\* (superseded_parent_clients); a start forgets inactive rows only.
THEOREM RetirementIsKept == Spec => RetirementLasts
<1>1. ASSUME MonitoringInv, MonitoringInv', [Next]_vars, NEW s
      PROVE  StaysRetired(s)
  <2> DEFINE new == rows'
             primary == Primary(new, s)
             retiring == {k \in Stored(rows) : primary # NoKey /\ primary[1] \in Replaces[k[1]]}
  <2>1. Sound(new)
    BY <1>1 DEF MonitoringInv, Sound
  <2>2. ASSUME NEW k \in retiring
        PROVE  k \notin Stored(new)
    <3> HIDE DEF new
    <3>1. primary[1] \notin Superseded(Stored(new))
      BY <2>1, <2>2, PrimaryIsNotSuperseded
    <3> QED
      BY <2>2, <3>1 DEF Superseded
  <2>3. \/ Stored(rows) \subseteq Stored(new)
        \/ restarts' # restarts /\ Stored(rows) \subseteq Stored(new) \cup Inactive(rows)
    BY <1>1, RowsAreKept
  <2>4. StaysRetired(s) <=> (retiring # {} => restarts' # restarts /\ retiring \subseteq Inactive(rows))
    BY DEF StaysRetired
  <2>5. retiring \subseteq Stored(rows)
    OBVIOUS
  <2> HIDE DEF new, retiring
  <2> QED
    BY <2>2, <2>3, <2>4, <2>5
<1>2. MonitoringInv /\ MonitoringInv' /\ [Next]_vars => [\A s \in Systems : StaysRetired(s)]_vars
  BY <1>1
<1>3. Spec => [][\A s \in Systems : StaysRetired(s)]_vars
  BY <1>2, MonitoringInvariant, PTL DEF Spec
<1>4. [][\A s \in Systems : StaysRetired(s)]_vars => RetirementLasts
  BY DEF RetirementLasts, StaysRetired
<1> QED
  BY <1>3, <1>4

-----------------------------------------------------------------------------
(* Takeovers, where no binary reports a bare identity: then the primary is *)
(* the oldest resident.                                                    *)

NoBareIdentities == \A c \in Clients : Replaces[c] = {}

\* Nobody is superseded.
LEMMA NobodySuperseded ==
    ASSUME NoBareIdentities, NEW keys \in SUBSET Keys
    PROVE  Superseded(keys) = {}
BY DEF NoBareIdentities, Superseded, Keys

\* The oldest resident is the primary, and there is one if there is a resident.
LEMMA PrimaryIsOldest ==
    ASSUME NoBareIdentities, NEW table, Ordered(table), NEW s
    PROVE  /\ ResidentsOf(table, s) = {} => Primary(table, s) = NoKey
           /\ ResidentsOf(table, s) # {} =>
                /\ Primary(table, s) # NoKey
                /\ Primary(table, s) \in ResidentsOf(table, s)
                /\ \A other \in ResidentsOf(table, s) :
                     table[Primary(table, s)].order <= table[other].order
<1>1. /\ ResidentsOf(table, s) \subseteq Stored(table)
      /\ Stored(table) \in SUBSET Keys
  BY DEF ResidentsOf, Residents, Stored
<1>2. Superseded(Stored(table)) = {}
  BY <1>1, NobodySuperseded
<1>3. ASSUME ResidentsOf(table, s) = {}
      PROVE  Primary(table, s) = NoKey
  BY <1>3 DEF Primary, PrimaryAmong
<1>4. ASSUME NEW some \in ResidentsOf(table, s)
      PROVE  /\ Primary(table, s) # NoKey
             /\ Primary(table, s) \in ResidentsOf(table, s)
             /\ \A other \in ResidentsOf(table, s) :
                  table[Primary(table, s)].order <= table[other].order
  <2>1. some \in Stored(table) \cap ResidentsOf(table, s) /\ some[1] \notin Superseded(Stored(table))
    BY <1>1, <1>2
  <2> DEFINE elected == PrimaryAmong(table, Stored(table), s)
  <2>2. /\ elected \in Stored(table) \cap ResidentsOf(table, s)
        /\ \A other \in Stored(table) \cap ResidentsOf(table, s) :
             other[1] \notin Superseded(Stored(table)) => table[elected].order <= table[other].order
    BY <2>1, OldestIsElected
  <2>3. elected = Primary(table, s)
    BY DEF Primary
  <2> HIDE DEF elected
  <2>4. elected # NoKey
    BY <1>1, <2>2, KeysFinite
  <2> QED
    BY <1>1, <1>2, <2>2, <2>3, <2>4
<1> QED
  BY <1>3, <1>4

\* Who is older than all other residents is the primary.
LEMMA OldestIsPrimary ==
    ASSUME NoBareIdentities, NEW table, Ordered(table), Distinct(table), NEW s,
           NEW k \in ResidentsOf(table, s),
           \A other \in ResidentsOf(table, s) : table[k].order <= table[other].order
    PROVE  Primary(table, s) = k /\ k # NoKey
<1> DEFINE primary == Primary(table, s)
<1>1. /\ primary \in ResidentsOf(table, s) /\ primary # NoKey
      /\ table[primary].order <= table[k].order
  BY PrimaryIsOldest
<1>2. k \in Stored(table) /\ primary \in Stored(table) /\ Stored(table) \subseteq Keys
  BY <1>1 DEF ResidentsOf, Residents, Stored
<1>3. table[k].order \in Nat /\ table[primary].order \in Nat
  BY <1>2 DEF Ordered
<1> HIDE DEF primary
<1>4. table[primary].order = table[k].order
  BY <1>1, <1>3
<1>5. primary = k
  BY <1>2, <1>4 DEF Distinct
<1> QED
  BY <1>1, <1>5 DEF primary

\* A primary that keeps its place stays, if no resident comes in front of it.
LEMMA PrimaryStays ==
    ASSUME NoBareIdentities, NEW table, Ordered(table), NEW new, Ordered(new), Distinct(new),
           NEW s, NEW old, old = Primary(table, s), old # NoKey,
           old \in ResidentsOf(new, s), new[old].order = table[old].order,
           \A l \in ResidentsOf(new, s) :
              \/ l \in ResidentsOf(table, s) /\ new[l].order = table[l].order
              \/ new[l].order >= table[old].order
    PROVE  Primary(new, s) = old
<1>1. \A l \in ResidentsOf(table, s) : table[old].order <= table[l].order
  BY PrimaryIsOldest
<1>2. old \in Keys /\ table[old].order \in Nat
  BY DEF ResidentsOf, Residents, Stored, Ordered
<1>3. \A l \in ResidentsOf(new, s) : new[l].order \in Nat
  BY DEF ResidentsOf, Residents, Stored, Ordered
<1>4. \A l \in ResidentsOf(new, s) : new[old].order <= new[l].order
  BY <1>1, <1>2, <1>3
<1> QED
  BY <1>4, OldestIsPrimary

\* After a takeover the chosen one is primary, and other systems are as before.
LEMMA RequeueElects ==
    ASSUME NoBareIdentities, NEW table \in RowTables, Distinct(table),
           NEW chosen, chosen \in ResidentsOf(table, chosen[2])
    PROVE  /\ Primary(Requeue(table, chosen), chosen[2]) = chosen /\ chosen # NoKey
           /\ \A k \in Keys : k[2] # chosen[2] => Requeue(table, chosen)[k] = table[k]
<1> DEFINE line == Displaced(table, chosen)
           order == NextJoinOrder(table)
           residents == ResidentsOf(table, chosen[2])
           new == Requeue(table, chosen)
           Place(k) == CHOOSE i \in DOMAIN line : line[i] = k
<1>1. Ordered(table) /\ \A k \in Stored(table) : table[k] \in Rows
  BY TablesAreOrdered
<1>2. residents \subseteq Stored(table) /\ Stored(table) \subseteq Keys
      /\ \A k \in residents : k[2] = chosen[2]
  BY DEF ResidentsOf, Residents, Stored
<1>3. /\ line \in Seq(residents) /\ \A n \in 1..Len(line) : line[n] # chosen
      /\ Elects(table, chosen, line, Len(line) + 1) = chosen
  <2>1. Electing(table, chosen, line) /\ Elects(table, chosen, line, Len(line) + 1) = chosen
    BY <1>1, DisplacedLine
  <2> HIDE DEF line
  <2> QED
    BY <2>1 DEF Electing
<1>4. order \in Nat \ {0} /\ \A k \in Keys : table[k].order < order
  BY <1>1, <1>2, NextIsLast
<1>5. Reordered(new, table)
  BY RequeueReorders
<1>6. /\ Residents(new) = Residents(table) /\ new \in RowTables /\ Distinct(new) /\ Ordered(new)
      /\ ResidentsOf(new, chosen[2]) = residents
  <2>1. Residents(new) = Residents(table) /\ new \in RowTables /\ Distinct(new)
    BY <1>5, ReorderedResidents DEF Reordered
  <2> HIDE DEF new
  <2> QED
    BY <2>1, TablesAreOrdered DEF ResidentsOf
<1> HIDE DEF line, order, residents
<1>7. DOMAIN line = 1..Len(line) /\ Len(line) \in Nat
  BY <1>3
<1>8. \A k \in Keys : new[k] = IF \E i \in DOMAIN line : line[i] = k
                               THEN [table[k] EXCEPT !.order = order - 1 + Place(k)]
                               ELSE table[k]
  BY DEF Requeue, line, order
<1> HIDE DEF new, Place
<1>9. ASSUME NEW k \in Keys, \E i \in DOMAIN line : line[i] = k
      PROVE  /\ Place(k) \in 1..Len(line) /\ k \in residents
             /\ new[k].order = order - 1 + Place(k)
  <2>1. Place(k) \in 1..Len(line) /\ line[Place(k)] = k
    BY <1>7, <1>9 DEF Place
  <2>2. k \in residents /\ table[k] \in Rows
    BY <1>1, <1>2, <1>3, <2>1
  <2>3. order - 1 + Place(k) \in Nat \ {0}
    BY <1>4, <1>7, <2>1
  <2>4. new[k] = [table[k] EXCEPT !.order = order - 1 + Place(k)]
    BY <1>8, <1>9
  <2> QED
    BY <2>1, <2>2, <2>3, <2>4, ReorderedRow
<1>10. ASSUME NEW k \in Keys, k[2] # chosen[2]
       PROVE  new[k] = table[k]
  BY <1>2, <1>8, <1>9, <1>10
<1>11. chosen \in Keys /\ new[chosen] = table[chosen] /\ table[chosen].order \in Nat
  <2>1. chosen \in residents
    BY DEF residents
  <2>2. chosen \in Keys
    BY <1>2, <2>1
  <2> QED
    BY <1>1, <1>3, <1>7, <1>8, <2>2 DEF Ordered
<1> DEFINE rest == Rest(table, chosen, line, Len(line) + 1)
<1>12. /\ rest \subseteq residents /\ chosen \in rest
       /\ \A l \in residents : l \in rest \/ \E i \in DOMAIN line : line[i] = l
  BY <1>3, <1>7 DEF Rest, residents
<1>13. \A other \in rest : table[chosen].order <= table[other].order
  <2>1. /\ chosen \in rest \cap ResidentsOf(table, chosen[2])
        /\ rest \in SUBSET Keys
    BY <1>2, <1>12 DEF residents
  <2>2. Superseded(rest) = {}
    BY <2>1, NobodySuperseded
  <2>3. PrimaryAmong(table, rest, chosen[2]) = chosen
    BY <1>3 DEF Elects
  <2> HIDE DEF rest
  <2>4. \A other \in rest \cap ResidentsOf(table, chosen[2]) :
            table[PrimaryAmong(table, rest, chosen[2])].order <= table[other].order
    <3>1. chosen[1] \notin Superseded(rest) /\ \A other \in rest : other[1] \notin Superseded(rest)
      BY <2>2
    <3> QED
      BY <1>1, <2>1, <3>1, OldestIsElected
  <2> QED
    BY <1>12, <2>3, <2>4 DEF residents
<1> HIDE DEF rest
<1>14. ASSUME NEW other \in residents
       PROVE  new[chosen].order <= new[other].order
  <2>1. CASE \E i \in DOMAIN line : line[i] = other
    <3>1. other \in Keys
      BY <1>2
    <3>2. new[other].order = order - 1 + Place(other) /\ Place(other) \in 1..Len(line)
      BY <1>9, <2>1, <3>1
    <3> QED
      BY <1>4, <1>7, <1>11, <3>2
  <2>2. CASE ~ \E i \in DOMAIN line : line[i] = other
    <3>1. other \in Keys
      BY <1>2
    <3>2. new[other] = table[other] /\ other \in rest
      BY <1>8, <1>12, <2>2, <3>1
    <3> QED
      BY <1>11, <1>13, <3>2
  <2> QED
    BY <2>1, <2>2
<1>15. Primary(new, chosen[2]) = chosen /\ chosen # NoKey
  <2>1. chosen \in ResidentsOf(new, chosen[2])
    BY <1>6 DEF residents
  <2>2. \A other \in ResidentsOf(new, chosen[2]) : new[chosen].order <= new[other].order
    BY <1>6, <1>14
  <2> QED
    BY <1>6, <2>1, <2>2, OldestIsPrimary
<1> QED
  BY <1>10, <1>15 DEF new

\* What demotes or qualifies a window is in its row, wherever the row stands in the queue.
LEMMA ReasonsKeep ==
    ASSUME NEW row, NEW old, AsBefore(row, old)
    PROVE  /\ MissingTooLong(row) <=> MissingTooLong(old)
           /\ TruncatedTooOften(row) <=> TruncatedTooOften(old)
           /\ QualifiedForMissing(row) <=> QualifiedForMissing(old)
           /\ QualifiedForTruncated(row) <=> QualifiedForTruncated(old)
<1>1. /\ row.count = old.count /\ row.cap = old.cap /\ row.age = old.age
      /\ row.roster = old.roster
  BY DEF AsBefore
<1>2. MissingTooLong(row) <=> MissingTooLong(old)
  BY <1>1, Zenon DEF MissingTooLong
<1>3. TruncatedTooOften(row) <=> TruncatedTooOften(old)
  BY <1>1, Zenon DEF TruncatedTooOften, Truncations
<1>4. LastQuality(row) = LastQuality(old) /\ (FreshCapture(row) <=> FreshCapture(old))
  BY <1>1, Zenon DEF LastQuality, FreshCapture
<1>5. ReadsWell(row) <=> ReadsWell(old)
  BY <1>1, <1>4, Zenon DEF ReadsWell
<1>6. QualifiedForMissing(row) <=> QualifiedForMissing(old)
  BY <1>1, <1>4, <1>5, Zenon DEF QualifiedForMissing
<1>7. QualifiedForTruncated(row) <=> QualifiedForTruncated(old)
  BY <1>1, <1>4, <1>5, Zenon DEF QualifiedForTruncated
<1> QED
  BY <1>2, <1>3, <1>6, <1>7

\* A takeover is by one of the qualified.
LEMMA TakeOverElects ==
    ASSUME NoBareIdentities, NEW table \in RowTables, Distinct(table), NEW s,
           NEW qualified, qualified \subseteq ResidentsOf(table, s),
           NEW new, new = TakeOver(table, s, qualified)
    PROVE  /\ \A k \in Keys : k[2] # s => new[k] = table[k]
           /\ \/ qualified = {} /\ new = table
              \/ Primary(new, s) \in qualified /\ Primary(new, s) # NoKey
<1>1. CASE qualified = {}
  BY <1>1 DEF TakeOver
<1>2. CASE qualified # {}
  <2> DEFINE chosen == PrimaryAmong(table, qualified, s)
  <2>1. chosen \in qualified
    BY <1>2, TablesAreOrdered, ResidentElected
  <2>2. new = Requeue(table, chosen)
    BY <1>2 DEF TakeOver
  <2> HIDE DEF chosen
  <2>3. chosen \in ResidentsOf(table, chosen[2]) /\ chosen[2] = s
    BY <2>1 DEF ResidentsOf
  <2> QED
    BY <2>1, <2>2, <2>3, RequeueElects
<1> QED
  BY <1>1, <1>2

\* Who is primary after a reconciliation, and why.
Reconciled(table, new, s) ==
    LET old == Primary(table, s)
        now == Primary(new, s)
    IN  \/ new = table
        \/ /\ now # old /\ now # NoKey
           /\ \/ MissingTooLong(new[old]) /\ QualifiedForMissing(new[now])
              \/ TruncatedTooOften(new[old]) /\ QualifiedForTruncated(new[now])

\* What the step of a takeover gives, for either of the two reasons.
LEMMA TakeOverIsDue ==
    ASSUME NoBareIdentities, NEW table \in RowTables, Distinct(table), NEW s,
           NEW old, old = Primary(table, s), old # NoKey,
           NEW qualified, qualified \subseteq ResidentsOf(table, s) \ {old},
           NEW new, new = TakeOver(table, s, qualified),
           \/ /\ MissingTooLong(table[old])
              /\ \A k \in qualified : QualifiedForMissing(table[k])
           \/ /\ TruncatedTooOften(table[old])
              /\ \A k \in qualified : QualifiedForTruncated(table[k])
    PROVE  /\ Reconciled(table, new, s)
           /\ Reordered(new, table)
           /\ \A k \in Keys : k[2] # s => new[k] = table[k]
           /\ new = table => qualified = {}
<1>1. Reordered(new, table)
  BY TakeOverReorders
<1>2. /\ \A k \in Keys : k[2] # s => new[k] = table[k]
      /\ \/ qualified = {} /\ new = table
         \/ Primary(new, s) \in qualified /\ Primary(new, s) # NoKey
  BY TakeOverElects
<1>3. new = table => qualified = {}
  BY <1>2
<1>4. \A k \in Stored(table) : AsBefore(new[k], table[k])
  BY <1>1 DEF Reordered
<1>5. ResidentsOf(table, s) \subseteq Stored(table)
  BY DEF ResidentsOf, Residents
<1>6. old \in ResidentsOf(table, s)
  BY TablesAreOrdered, PrimaryIsOldest
<1>7. CASE Primary(new, s) \in qualified /\ Primary(new, s) # NoKey
  <2> DEFINE now == Primary(new, s)
  <2>1. now \in qualified /\ now # NoKey /\ now # old
    BY <1>7
  <2> HIDE DEF now
  <2>2. AsBefore(new[old], table[old]) /\ AsBefore(new[now], table[now])
    BY <1>4, <1>5, <1>6, <2>1
  <2>3. \/ MissingTooLong(new[old]) /\ QualifiedForMissing(new[now])
        \/ TruncatedTooOften(new[old]) /\ QualifiedForTruncated(new[now])
    BY <2>1, <2>2, ReasonsKeep
  <2> QED
    BY <1>1, <1>2, <1>3, <2>1, <2>3 DEF Reconciled, now
<1>8. CASE qualified = {} /\ new = table
  BY <1>1, <1>2, <1>8 DEF Reconciled
<1> QED
  BY <1>2, <1>7, <1>8

\* reconcile_missing_roster.
LEMMA MissingIsDue ==
    ASSUME NoBareIdentities, NEW table \in RowTables, Distinct(table), NEW s,
           NEW new, new = ReconcileMissing(table, s)
    PROVE  /\ Reconciled(table, new, s)
           /\ Reordered(new, table)
           /\ \A k \in Keys : k[2] # s => new[k] = table[k]
<1> DEFINE old == Primary(table, s)
           qualified == {k \in ResidentsOf(table, s) \ {old} : QualifiedForMissing(table[k])}
<1>1. CASE new = table
  BY <1>1, ReorderedItself DEF Reconciled
<1>2. CASE old # NoKey /\ MissingTooLong(table[old])
  <2>1. new = TakeOver(table, s, qualified)
    BY <1>2 DEF ReconcileMissing
  <2>2. /\ qualified \subseteq ResidentsOf(table, s) \ {old}
        /\ \A k \in qualified : QualifiedForMissing(table[k])
    OBVIOUS
  <2> HIDE DEF qualified, old
  <2> QED
    BY <1>2, <2>1, <2>2, TakeOverIsDue DEF old
<1> QED
  BY <1>1, <1>2 DEF ReconcileMissing

\* The second half of record_roster_quality.
LEMMA TruncatedIsDue ==
    ASSUME NoBareIdentities, NEW table \in RowTables, Distinct(table), NEW s,
           NEW new, new = ReconcileTruncated(table, s)
    PROVE  /\ Reconciled(table, new, s)
           /\ Reordered(new, table)
           /\ \A k \in Keys : k[2] # s => new[k] = table[k]
           /\ new = table /\ Primary(table, s) # NoKey /\ TruncatedTooOften(table[Primary(table, s)]) =>
                \A k \in ResidentsOf(table, s) \ {Primary(table, s)} :
                    ~QualifiedForTruncated(table[k])
<1> DEFINE old == Primary(table, s)
           qualified == {k \in ResidentsOf(table, s) \ {old} : QualifiedForTruncated(table[k])}
<1>1. CASE ~(old # NoKey /\ TruncatedTooOften(table[old]))
  <2>1. new = table
    BY <1>1 DEF ReconcileTruncated
  <2> QED
    BY <1>1, <2>1, ReorderedItself DEF Reconciled
<1>2. CASE old # NoKey /\ TruncatedTooOften(table[old])
  <2>1. new = TakeOver(table, s, qualified)
    BY <1>2 DEF ReconcileTruncated
  <2>2. /\ qualified \subseteq ResidentsOf(table, s) \ {old}
        /\ \A k \in qualified : QualifiedForTruncated(table[k])
        /\ qualified = {} =>
             \A k \in ResidentsOf(table, s) \ {old} : ~QualifiedForTruncated(table[k])
    OBVIOUS
  <2> HIDE DEF qualified, old
  <2>3. /\ Reconciled(table, new, s) /\ Reordered(new, table)
        /\ \A k \in Keys : k[2] # s => new[k] = table[k]
        /\ new = table => qualified = {}
    BY <1>2, <2>1, <2>2, TakeOverIsDue DEF old
  <2> QED
    BY <2>2, <2>3 DEF old
<1> QED
  BY <1>1, <1>2

\* Both, as after new evidence.
LEMMA ReconcileIsDue ==
    ASSUME NoBareIdentities, NEW table \in RowTables, Distinct(table), NEW s,
           NEW new, new = Reconcile(table, s)
    PROVE  /\ Reconciled(table, new, s)
           /\ Reordered(new, table)
           /\ \A k \in Keys : k[2] # s => new[k] = table[k]
           /\ new = table /\ Primary(table, s) # NoKey /\ TruncatedTooOften(table[Primary(table, s)]) =>
                \A k \in ResidentsOf(table, s) \ {Primary(table, s)} :
                    ~QualifiedForTruncated(table[k])
<1>1. CASE new = ReconcileMissing(table, s) /\ new # table
  BY <1>1, MissingIsDue
<1>2. CASE new = ReconcileTruncated(table, s)
  BY <1>2, TruncatedIsDue
<1> QED
  BY <1>1, <1>2 DEF Reconcile

-----------------------------------------------------------------------------
(* Steps and their takeovers.                                              *)

Proven(s) ==
    LET old == Primary(rows, s)
        new == Primary(rows', s)
    IN  old # NoKey /\ new # old /\ StaysPrimary(old) =>
           \/ new # NoKey /\ MissingTooLong(rows'[old]) /\ QualifiedForMissing(rows'[new])
           \/ new # NoKey /\ TruncatedTooOften(rows'[old]) /\ QualifiedForTruncated(rows'[new])

Demoted(s) ==
    LET old == Primary(rows, s)
        new == Primary(rows', s)
    IN  old # NoKey /\ old = new /\ rows[old].roster.samples # rows'[old].roster.samples
        /\ TruncatedTooOften(rows'[old]) =>
           \A k \in ResidentsOf(rows', s) \ {old} :
               QualifiedForTruncated(rows'[k]) => k[1] \in Superseded(Stored(rows'))

\* Where no resident joins, moves back or gives evidence, nothing is due.
LEMMA NothingDue ==
    ASSUME NoBareIdentities, Sound(rows), Sound(rows'), NEW s,
           \A l \in ResidentsOf(rows', s) :
              /\ l \in ResidentsOf(rows, s) /\ rows'[l].order = rows[l].order
              /\ rows'[l].roster.samples = rows[l].roster.samples
    PROVE  Proven(s) /\ Demoted(s)
<1> DEFINE old == Primary(rows, s)
           now == Primary(rows', s)
<1>1. /\ Ordered(rows) /\ Ordered(rows') /\ Distinct(rows')
  <2> DEFINE new == rows'
  <2>1. Sound(new) /\ Sound(rows)
    OBVIOUS
  <2> HIDE DEF new
  <2>2. Ordered(rows) /\ Ordered(new) /\ Distinct(new)
    BY <2>1, TablesAreOrdered DEF Sound
  <2> QED
    BY <2>2 DEF new
<1>2. old # NoKey => old \in ResidentsOf(rows, s)
  BY <1>1, PrimaryIsOldest
<1>3. ASSUME old # NoKey, StaysPrimary(old)
      PROVE  now = old
  <2>1. old \in ResidentsOf(rows', s)
    BY <1>2, <1>3 DEF StaysPrimary, ResidentsOf
  <2> QED
    BY <1>1, <1>3, <2>1, PrimaryStays
<1>4. ASSUME old # NoKey, old = now
      PROVE  rows[old].roster.samples = rows'[old].roster.samples
  <2>1. now \in ResidentsOf(rows', s)
    <3> DEFINE new == rows'
    <3>1. Ordered(new)
      BY <1>1
    <3> HIDE DEF new
    <3>2. Primary(new, s) # NoKey => Primary(new, s) \in ResidentsOf(new, s)
      BY <3>1, PrimaryIsOldest
    <3> QED
      BY <1>4, <3>2 DEF new
  <2> QED
    BY <1>4, <2>1
<1> HIDE DEF old, now
<1>5. Proven(s)
  BY <1>3 DEF Proven, old, now
<1>6. Demoted(s)
  BY <1>4 DEF Demoted, old, now
<1> QED
  BY <1>5, <1>6

\* A reconciliation of a table in which the primary is still the old one.
LEMMA ReconciliationIsProven ==
    ASSUME NoBareIdentities, NEW table \in RowTables, Distinct(table), NEW s,
           Reordered(rows', table), Reconciled(table, rows', s),
           LET old == Primary(rows, s)
           IN  old # NoKey /\ old \in Residents(table)
               /\ table[old].cap.epoch = rows[old].cap.epoch => Primary(table, s) = old
    PROVE  Proven(s)
<1> DEFINE old == Primary(rows, s)
           now == Primary(rows', s)
<1> SUFFICES ASSUME old # NoKey, now # old, StaysPrimary(old)
             PROVE  \/ now # NoKey /\ MissingTooLong(rows'[old]) /\ QualifiedForMissing(rows'[now])
                    \/ now # NoKey /\ TruncatedTooOften(rows'[old]) /\ QualifiedForTruncated(rows'[now])
  BY DEF Proven
<1>1. Residents(rows') = Residents(table) /\ \A k \in Stored(table) : AsBefore(rows'[k], table[k])
  BY ReorderedResidents DEF Reordered
<1>2. old \in Residents(table) /\ table[old].cap.epoch = rows[old].cap.epoch
  <2>1. old \in Residents(table) /\ rows[old].cap.epoch = rows'[old].cap.epoch
    BY <1>1 DEF StaysPrimary
  <2>2. rows'[old].cap = table[old].cap
    BY <1>1, <2>1 DEF Residents, AsBefore
  <2> QED
    BY <2>1, <2>2
<1>3. Primary(table, s) = old
  BY <1>2
<1> HIDE DEF old
<1> QED
  BY <1>3 DEF Reconciled

\* A window that moves changes nothing where it stays: of what is left there
\* are the rows as they were.
LEMMA MovedRows ==
    ASSUME Sound(rows), NEW c \in Clients, NEW t \in Systems
    PROVE  \A l \in Stored(rows) :
             /\ MovedTo(c, t)[l].order = rows[l].order
             /\ MovedTo(c, t)[l].roster = rows[l].roster
<1> SUFFICES ASSUME NEW l \in Stored(rows)
             PROVE  /\ MovedTo(c, t)[l].order = rows[l].order
                    /\ MovedTo(c, t)[l].roster = rows[l].roster
  OBVIOUS
<1>1. l \in Keys /\ rows[l] \in Rows
  BY TablesAreOrdered DEF Sound
<1>2. MovedTo(c, t)[l] = rows[l] \/ MovedTo(c, t)[l] = Departed(rows[l])
  BY <1>1 DEF MovedTo
<1> QED
  BY <1>1, <1>2, DepartedRow

\* A move alone.
LEMMA MoveIsDue ==
    ASSUME NoBareIdentities, Sound(rows), NEW c \in Clients, NEW t \in Systems,
           rows' = MovedTo(c, t), NEW s
    PROVE  Proven(s) /\ Demoted(s)
<1>1. /\ Sound(MovedTo(c, t))
      /\ \A l \in Residents(MovedTo(c, t)) :
            l \in Residents(rows) /\ MovedTo(c, t)[l] = rows[l]
  BY MovedIsSound
<1>2. \A l \in ResidentsOf(rows', s) : l \in ResidentsOf(rows, s) /\ rows'[l] = rows[l]
  BY <1>1 DEF ResidentsOf
<1> QED
  BY <1>1, <1>2, NothingDue

\* The row an upload leaves: its place, its frame and its evidence.
LEMMA ReportedRowIs ==
    ASSUME NEW table, Sound(table), NEW k \in Keys,
           NEW u, u.cap \in Captures, u.stamp \in Nat, u.count \in {0, 1},
           (u.status # "active") \in BOOLEAN,
           NEW new, new = ReportedRow(table, k, u)
    PROVE  /\ new.cap = u.cap
           /\ \/ new.order = NextJoinOrder(table)
              \/ k \in Residents(table) /\ new.order = table[k].order
           /\ k \in Residents(table) /\ table[k].cap.epoch = u.cap.epoch => new.order = table[k].order
           /\ new.roster.samples = <<>> \/ new.roster.samples = table[k].roster.samples
<1> DEFINE old == table[k]
           sameSession == old # NoRow /\ u.cap # NoCapture /\ old.cap.epoch = u.cap.epoch
           keepsOrder == k \in Residents(table) /\ (u.cap = NoCapture \/ sameSession)
           order == IF keepsOrder THEN old.order ELSE NextJoinOrder(table)
           left == u.status # "active"
           roster == IF sameSession THEN old.roster ELSE NoRoster
           stamp == u.stamp
           count == u.count
           cap == u.cap
           row == [order |-> order, stamp |-> stamp, count |-> count, left |-> left,
                   cap |-> cap, age |-> 0, roster |-> roster]
<1>1. table \in RowTables /\ Ordered(table)
  BY TablesAreOrdered DEF Sound
<1>2. old # NoRow => k \in Stored(table) /\ old \in Rows
  BY <1>1, TablesAreOrdered DEF Stored
<1>3. \A l \in Residents(table) : l \in Stored(table) /\ table[l] # NoRow
  BY DEF Residents, Stored
<1>4. /\ order = NextJoinOrder(table) \/ (k \in Residents(table) /\ order = old.order)
      /\ k \in Residents(table) => k \in Stored(table)
      /\ k \in Residents(table) /\ old.cap.epoch = cap.epoch => order = old.order
  BY <1>3
<1>5. order \in Nat \ {0}
  <2>1. NextJoinOrder(table) \in Nat \ {0}
    BY <1>1, NextIsLast
  <2>2. k \in Stored(table) => table[k].order \in Nat \ {0}
    BY <1>1, TablesAreOrdered, RowsAreNoNoRow
  <2> QED
    BY <1>4, <2>1, <2>2
<1>6. roster \in Rosters /\ (roster.samples = <<>> \/ roster.samples = old.roster.samples)
  BY <1>2, RowParts, NoRosterYet
<1>7. new = Waited(row)
  BY DEF ReportedRow
<1>8. left \in BOOLEAN /\ cap \in Captures /\ stamp \in Nat /\ count \in {0, 1}
  OBVIOUS
<1> HIDE DEF order, left, roster, stamp, count, cap
<1>9. row \in Rows
  <2>1. 0 \in 0..Lease + 1
    BY LimitsAssumption
  <2> QED
    BY <1>5, <1>6, <1>8, <2>1, Zenon DEF Rows
<1>10. row.order = order /\ row.cap = cap /\ row.roster = roster
  BY Zenon
<1> HIDE DEF row
<1>11. RosterWait(row).samples \in {row.roster.samples, <<>>}
  BY <1>9, RosterWaits
<1>12. new.order = order /\ new.cap = cap /\ new.roster = RosterWait(row)
  <2> DEFINE waited == RosterWait(row)
  <2>1. new = [row EXCEPT !.roster = waited]
    BY <1>7 DEF Waited
  <2> HIDE DEF waited
  <2>2. /\ [row EXCEPT !.roster = waited].order = row.order
        /\ [row EXCEPT !.roster = waited].cap = row.cap
        /\ [row EXCEPT !.roster = waited].roster = waited
    BY <1>9, Zenon DEF Rows
  <2> QED
    BY <1>10, <2>1, <2>2 DEF waited
<1>13. new.roster.samples = <<>> \/ new.roster.samples = old.roster.samples
  BY <1>6, <1>10, <1>11, <1>12
<1> QED
  BY <1>4, <1>12, <1>13 DEF cap

\* What an upload of the row k leaves of the table of before: the other rows, every roster but the
\* reported one's, which it may only empty, and the front of the system t.
Kept(table, k, t) ==
    /\ Sound(table)
    /\ \A l \in Stored(rows) : \/ table[l].roster.samples = <<>>
                               \/ table[l].roster.samples = rows[l].roster.samples
    /\ \A l \in Residents(table) \ {k} : l \in Residents(rows) /\ table[l] = rows[l]
    /\ LET old == Primary(rows, t)
       IN  old # NoKey /\ old \in Residents(table)
           /\ table[old].cap.epoch = rows[old].cap.epoch => Primary(table, t) = old

\* What an upload reports changes its own row only, and demotes no primary.
LEMMA ReportKeeps ==
    ASSUME NoBareIdentities, Sound(rows), NEW c \in Clients,
           NEW u \in FreshUploads(c) \cup LateUploads(c), PresenceIsCurrent(c, u.cap)
    PROVE  Kept([MovedTo(c, u.system) EXCEPT
                    ![<<c, u.system>>] = ReportedRow(MovedTo(c, u.system), <<c, u.system>>, u)],
                <<c, u.system>>, u.system)
<1> SUFFICES ASSUME NEW t, t = u.system, NEW k, k = <<c, t>>, NEW moved, moved = MovedTo(c, t),
                    NEW table, table = [moved EXCEPT ![k] = ReportedRow(moved, k, u)]
             PROVE  Kept(table, k, t)
  OBVIOUS
<1>1. rows \in RowTables /\ Ordered(rows)
  BY TablesAreOrdered DEF Sound
<1>2. /\ u.cap \in Captures /\ u.stamp \in Nat /\ u.count \in {0, 1}
      /\ t \in Systems /\ (u.status # "active") \in BOOLEAN
  BY <1>1, UploadsAreTyped
<1>3. k \in Keys
  BY <1>2 DEF Keys
<1>4. /\ Sound(moved) /\ Stored(moved) = Stored(rows)
      /\ \A l \in Stored(rows) : moved[l].cap = rows[l].cap
      /\ \A l \in Residents(moved) : l[1] = c => l = k
      /\ \A l \in Residents(moved) : l \in Residents(rows) /\ moved[l] = rows[l]
      /\ k \in Residents(rows) => k \in Residents(moved)
  BY <1>2, MovedIsSound
<1>5. \A l \in Stored(rows) : moved[l].order = rows[l].order /\ moved[l].roster = rows[l].roster
  BY <1>2, MovedRows
<1>6. \A l \in RowsOf(c) : NotLater(rows[l].cap, u.cap)
  BY <1>1, <1>2, CurrentIsNotLater
<1>7. Sound(table)
  <2>1. \A l \in Stored(moved) : l[1] = k[1] => NotLater(moved[l].cap, u.cap)
    BY <1>4, <1>6 DEF RowsOf
  <2>2. \A l \in Residents(moved) : l[1] = k[1] => l = k
    BY <1>4
  <2> QED
    BY <1>2, <1>3, <1>4, <2>1, <2>2, ReportedIsSound
<1> DEFINE new == ReportedRow(moved, k, u)
<1>8. /\ new.cap = u.cap
      /\ new.order = NextJoinOrder(moved) \/ (k \in Residents(moved) /\ new.order = moved[k].order)
      /\ k \in Residents(moved) /\ moved[k].cap.epoch = u.cap.epoch => new.order = moved[k].order
      /\ new.roster.samples = <<>> \/ new.roster.samples = moved[k].roster.samples
  BY <1>2, <1>3, <1>4, ReportedRowIs
<1> HIDE DEF new
<1>9. moved \in RowTables /\ Ordered(moved) /\ table \in RowTables /\ Ordered(table) /\ Distinct(table)
  BY <1>4, <1>7, TablesAreOrdered DEF Sound
<1>10. table[k] = new /\ \A l \in Keys : l # k => table[l] = moved[l]
  BY <1>3, <1>9 DEF RowTables, new
<1>11. \A l \in Stored(rows) : l \in Keys
  BY DEF Stored
<1>12. ASSUME NEW l \in Stored(rows)
       PROVE  table[l].roster.samples = <<>> \/ table[l].roster.samples = rows[l].roster.samples
  BY <1>5, <1>8, <1>10, <1>11
<1>13. ASSUME NEW l \in Residents(table), l # k
       PROVE  l \in Residents(rows) /\ table[l] = rows[l]
  <2>1. l \in Keys /\ table[l] = moved[l] /\ table[l] # NoRow /\ ~table[l].left
    BY <1>10, <1>13 DEF Residents, Stored
  <2>2. l \in Residents(moved)
    BY <2>1 DEF Residents, Stored
  <2> QED
    BY <1>4, <2>1, <2>2
<1>14. ASSUME NEW old, old = Primary(rows, t), old # NoKey, old \in Residents(table),
              table[old].cap.epoch = rows[old].cap.epoch
       PROVE  Primary(table, t) = old
  <2>1. old \in ResidentsOf(rows, t)
    BY <1>1, <1>14, PrimaryIsOldest
  <2>2. old \in ResidentsOf(table, t) /\ old \in Stored(rows) /\ old \in Residents(rows) /\ old \in Keys
    BY <1>11, <1>14, <2>1 DEF ResidentsOf, Residents
  <2>3. table[old].order = rows[old].order
    <3>1. CASE old = k
      <4>1. k \in Residents(moved) /\ moved[k] = rows[k]
        BY <1>4, <2>2, <3>1
      <4>2. new.cap.epoch = rows[k].cap.epoch
        BY <1>10, <1>14, <3>1
      <4> QED
        BY <1>8, <1>10, <3>1, <4>1, <4>2
    <3>2. CASE old # k
      BY <1>13, <1>14, <3>2
    <3> QED
      BY <3>1, <3>2
  <2>4. ASSUME NEW l \in ResidentsOf(table, t)
        PROVE  \/ l \in ResidentsOf(rows, t) /\ table[l].order = rows[l].order
               \/ table[l].order >= rows[old].order
    <3>1. l \in Residents(table) /\ l[2] = t /\ l \in Keys
      BY DEF ResidentsOf, Residents, Stored
    <3>2. CASE l # k
      BY <1>13, <3>1, <3>2 DEF ResidentsOf
    <3>3. CASE l = k /\ new.order = NextJoinOrder(moved)
      <4>1. moved[old].order < NextJoinOrder(moved) /\ NextJoinOrder(moved) \in Nat
        BY <1>9, <2>2, NextIsLast
      <4>2. moved[old].order \in Nat /\ moved[old].order = rows[old].order
        BY <1>5, <1>9, <2>2 DEF Ordered
      <4> QED
        BY <1>10, <3>3, <4>1, <4>2
    <3>4. CASE l = k /\ k \in Residents(moved) /\ new.order = moved[k].order
      BY <1>4, <1>10, <3>1, <3>4 DEF ResidentsOf
    <3> QED
      BY <1>8, <3>2, <3>3, <3>4
  <2>5. \A l \in ResidentsOf(table, t) :
           \/ l \in ResidentsOf(rows, t) /\ table[l].order = rows[l].order
           \/ table[l].order >= rows[old].order
    BY <2>4
  <2>6. old \in ResidentsOf(table, t)
    BY <2>2
  <2>7. \A l \in ResidentsOf(table, t) : table[old].order <= table[l].order
    <3>1. \A l \in ResidentsOf(rows, t) : rows[old].order <= rows[l].order
      BY <1>1, <1>14, <2>1, PrimaryIsOldest
    <3>2. /\ rows[old].order \in Nat
          /\ \A l \in ResidentsOf(table, t) : table[l].order \in Nat
      BY <1>1, <1>9, <2>2 DEF Ordered, ResidentsOf, Residents, Stored
    <3> QED
      BY <2>3, <2>5, <3>1, <3>2
  <2> QED
    BY <1>9, <2>6, <2>7, OldestIsPrimary
<1> QED
  BY <1>7, <1>12, <1>13, <1>14 DEF Kept

\* No outcome is too many of them.
LEMMA NoSamplesNoTruncation ==
    ASSUME NEW row, row.roster.samples = <<>>
    PROVE  ~TruncatedTooOften(row)
<1>1. Truncations(row) = 0
  <2>1. {i \in DOMAIN row.roster.samples : row.roster.samples[i].quality = "truncated"} = {}
    <3>1. DOMAIN row.roster.samples = {}
      OBVIOUS
    <3> QED
      BY <3>1
  <2> QED
    BY <2>1, FS_EmptySet DEF Truncations
<1>2. TruncatedLimit \in Nat \ {0}
  BY LimitsAssumption
<1> QED
  BY <1>1, <1>2 DEF TruncatedTooOften

\* A presence upload.
LEMMA PresenceIsDue ==
    ASSUME NoBareIdentities, Sound(rows), Sound(rows'), NEW c \in Clients, Presence(c), NEW s
    PROVE  Proven(s) /\ Demoted(s)
<1>1. PICK u \in FreshUploads(c) \cup LateUploads(c) :
        LET k == <<c, u.system>>
            moved == MovedTo(c, u.system)
            reported == [moved EXCEPT ![k] = ReportedRow(moved, k, u)]
        IN  /\ PresenceIsCurrent(c, u.cap)
            /\ rows' = IF AlreadyReported(moved[k], u) THEN moved
                       ELSE IF u.count = 0 THEN reported
                       ELSE ReconcileMissing(reported, u.system)
  BY DEF Presence
<1> DEFINE t == u.system
           k == <<c, t>>
           moved == MovedTo(c, t)
           table == [moved EXCEPT ![k] = ReportedRow(moved, k, u)]
<1>2. rows' = moved \/ rows' = table \/ rows' = ReconcileMissing(table, t)
  BY <1>1
<1>3. /\ t \in Systems /\ k \in Keys /\ Sound(table)
      /\ \A l \in Stored(rows) : \/ table[l].roster.samples = <<>>
                                 \/ table[l].roster.samples = rows[l].roster.samples
      /\ \A l \in Residents(table) \ {k} : l \in Residents(rows) /\ table[l] = rows[l]
      /\ LET old == Primary(rows, t)
         IN  old # NoKey /\ old \in Residents(table)
             /\ table[old].cap.epoch = rows[old].cap.epoch => Primary(table, t) = old
  <2>1. PresenceIsCurrent(c, u.cap)
    BY <1>1
  <2>2. Kept([MovedTo(c, u.system) EXCEPT
                 ![<<c, u.system>>] = ReportedRow(MovedTo(c, u.system), <<c, u.system>>, u)],
             <<c, u.system>>, u.system)
    BY <2>1, ReportKeeps
  <2>3. Kept(table, k, t)
    BY <2>2
  <2>4. t \in Systems
    <3>1. rows \in RowTables
      BY DEF Sound
    <3> QED
      BY <3>1, UploadsAreTyped
  <2>5. k \in Keys
    BY <2>4 DEF Keys
  <2> HIDE DEF t, k, moved, table
  <2> QED
    BY <2>3, <2>4, <2>5 DEF Kept
<1>4. CASE rows' = moved
  BY <1>3, <1>4, MoveIsDue
<1>5. k[2] = t
  OBVIOUS
<1> HIDE DEF t, k, moved, table
<1>6. table \in RowTables /\ Distinct(table)
  BY <1>3 DEF Sound
<1>7. ASSUME rows' = table \/ rows' = ReconcileMissing(table, t)
      PROVE  /\ Reordered(rows', table) /\ Reconciled(table, rows', t)
             /\ \A l \in Keys : l[2] # t => rows'[l] = table[l]
  <2>1. CASE rows' = table
    BY <1>6, <2>1, ReorderedItself DEF Reconciled
  <2>2. CASE rows' = ReconcileMissing(table, t)
    BY <1>6, <2>2, MissingIsDue
  <2> QED
    BY <1>7, <2>1, <2>2
<1>8. CASE rows' # moved /\ s # t
  <2>1. /\ Residents(rows') = Residents(table)
        /\ \A l \in Keys : l[2] # t => rows'[l] = table[l]
    BY <1>2, <1>6, <1>7, <1>8, ReorderedResidents
  <2>2. \A l \in ResidentsOf(rows', s) : l \in Residents(table) /\ l[2] = s /\ l \in Keys
    BY <2>1 DEF ResidentsOf, Residents, Stored
  <2>3. \A l \in ResidentsOf(rows', s) : l \in ResidentsOf(rows, s) /\ rows'[l] = rows[l]
    BY <1>3, <1>5, <1>8, <2>1, <2>2 DEF ResidentsOf
  <2> QED
    BY <2>3, NothingDue
<1>9. CASE rows' # moved /\ s = t
  <2>1. Reordered(rows', table) /\ Reconciled(table, rows', s)
    BY <1>2, <1>7, <1>9
  <2>2. Proven(s)
    BY <1>3, <1>6, <1>9, <2>1, ReconciliationIsProven
  <2>3. Demoted(s)
    <3> DEFINE old == Primary(rows, s)
    <3> SUFFICES ASSUME old # NoKey, rows[old].roster.samples # rows'[old].roster.samples,
                        TruncatedTooOften(rows'[old]), old = Primary(rows', s)
                 PROVE  FALSE
      BY DEF Demoted
    <3>1. old \in Stored(rows) /\ old \in Keys
      <4>1. Ordered(rows)
        BY TablesAreOrdered DEF Sound
      <4>2. old \in ResidentsOf(rows, s)
        BY <4>1, PrimaryIsOldest
      <4> QED
        BY <4>2 DEF ResidentsOf, Residents, Stored
    <3>2. old \in Stored(rows')
      <4> DEFINE new == rows'
      <4>1. Sound(new) /\ old = Primary(new, s)
        OBVIOUS
      <4> HIDE DEF new, old
      <4>2. Ordered(new)
        BY <4>1, TablesAreOrdered DEF Sound
      <4>3. old \in ResidentsOf(new, s)
        BY <4>1, <4>2, PrimaryIsOldest DEF old
      <4> QED
        BY <4>3 DEF ResidentsOf, Residents, new
    <3> HIDE DEF old
    <3>3. old \in Stored(table)
      BY <1>6, <2>1, <3>2, ReorderedResidents
    <3>4. rows'[old].roster = table[old].roster
      BY <2>1, <3>3 DEF Reordered, AsBefore
    <3>5. rows'[old].roster.samples = <<>>
      BY <1>3, <3>1, <3>4
    <3> QED
      BY <3>5, NoSamplesNoTruncation
  <2> QED
    BY <2>2, <2>3
<1> QED
  BY <1>4, <1>8, <1>9

\* The cleanup and the passing of time.
LEMMA CleanupIsDue ==
    ASSUME NoBareIdentities, Sound(rows), Sound(rows'),
           NEW gone, gone \subseteq Residents(rows), Cleanup(gone), NEW s
    PROVE  Proven(s) /\ Demoted(s)
<1> DEFINE new == rows'
           Leaves(k) == k \in gone \/ (k \in Residents(rows) /\ k[1] \in StaleClients)
<1>1. new = [k \in Keys |-> IF Leaves(k) THEN Departed(rows[k]) ELSE rows[k]]
  BY DEF Cleanup
<1>2. \A k \in Keys : Leaves(k) => k \in Stored(rows)
  BY DEF Residents
<1> HIDE DEF new, Leaves
<1>3. SomeDeparted(new, rows)
  BY <1>1, <1>2 DEF SomeDeparted
<1>4. Residents(new) = {k \in Residents(rows) : new[k] = rows[k]}
  BY <1>3, DepartedIsSound
<1>5. \A l \in ResidentsOf(rows', s) : l \in ResidentsOf(rows, s) /\ rows'[l] = rows[l]
  BY <1>4 DEF ResidentsOf, new
<1> QED
  BY <1>5, NothingDue

\* The passing of a tick: every window grows older, and none changes its place or its samples.
LEMMA TickIsDue ==
    ASSUME NoBareIdentities, Sound(rows), Sound(rows'), Tick, NEW s
    PROVE  Proven(s) /\ Demoted(s)
<1> DEFINE new == rows'
<1>1. new = [k \in Keys |-> IF rows[k] = NoRow THEN NoRow ELSE Older(rows[k])]
  BY DEF Tick
<1> HIDE DEF new
<1>2. rows \in RowTables
  BY DEF Sound
<1>3. \A k \in Stored(rows) : k \in Keys /\ rows[k] \in Rows /\ new[k] = Older(rows[k])
  BY <1>1, <1>2, TablesAreOrdered DEF Stored
<1>4. \A k \in Stored(rows) :
        /\ new[k].order = rows[k].order /\ new[k].left = rows[k].left
        /\ new[k].roster.samples = rows[k].roster.samples
  BY <1>3, OlderRow
<1>5. \A k \in Keys : k \notin Stored(rows) => new[k] = NoRow
  BY <1>1 DEF Stored
<1>6. \A l \in ResidentsOf(new, s) : l \in Stored(rows) /\ ~new[l].left /\ l[2] = s
  BY <1>5 DEF ResidentsOf, Residents, Stored
<1>7. \A l \in ResidentsOf(new, s) :
        /\ l \in ResidentsOf(rows, s) /\ new[l].order = rows[l].order
        /\ new[l].roster.samples = rows[l].roster.samples
  BY <1>4, <1>6 DEF ResidentsOf, Residents
<1> QED
  BY <1>7, NothingDue DEF new

\* A current OCR result is of no later frame than its window's resident row.
LEMMA OcrIsOfTheRow ==
    ASSUME Sound(rows), NEW c \in Clients, NEW k \in Residents(rows), k[1] = c,
           NEW u \in OcrUploads(c)
    PROVE  u.cap.seq <= rows[k].cap.seq
<1>1. rows \in RowTables
  BY DEF Sound
<1>2. k \in Stored(rows) /\ k \in RowsOf(c) /\ k \in Keys /\ rows[k] \in Rows
  <2>1. k \in Stored(rows) /\ k \in RowsOf(c)
    BY DEF Residents, RowsOf
  <2> QED
    BY <1>1, <2>1, TablesAreOrdered
<1>3. u.cap \in Captures /\ u.cap.epoch = Latest(c).epoch /\ u.cap.seq <= Latest(c).seq
  BY <1>1, OcrUploadsAreTyped
<1> DEFINE latest == Latest(c)
           cap == rows[k].cap
<1>4. latest = NoCapture \/ NotLater(latest, cap)
  <2>1. latest = NoCapture \/ \E l \in RowsOf(c) : rows[l].cap = latest
    BY <1>1, LatestIsNewest
  <2>2. \A l \in RowsOf(c) : NotLater(rows[l].cap, cap)
    BY DEF Sound, Newest, RowsOf
  <2> QED
    BY <2>1, <2>2
<1>5. NotLater(cap, latest) /\ latest \in Captures
  BY <1>1, <1>2, LatestIsNewest
<1>6. /\ cap.seq \in Nat /\ cap.epoch \in Nat
      /\ latest.seq \in Nat /\ latest.epoch \in Nat /\ u.cap.seq \in Nat
  BY <1>2, <1>3, <1>5, RowParts DEF Captures
<1>7. u.cap.seq <= latest.seq
  BY <1>3
<1> HIDE DEF latest, cap
<1>8. u.cap.seq <= cap.seq
  BY <1>4, <1>5, <1>6, <1>7 DEF NotLater, NoCapture
<1> QED
  BY <1>8 DEF cap

\* An OCR result.
LEMMA OcrIsDue ==
    ASSUME NoBareIdentities, Sound(rows), Sound(rows'), NEW c \in Clients, Ocr(c), NEW s
    PROVE  Proven(s) /\ Demoted(s)
<1>1. PICK t \in Systems, u \in OcrUploads(c) :
        /\ <<c, t>> \in Residents(rows)
        /\ rows' = RecordQuality(MovedTo(c, t), <<c, t>>, u)
  BY DEF Ocr
<1> DEFINE k == <<c, t>>
           moved == MovedTo(c, t)
           row == Sampled(moved[k], u)
           table == [moved EXCEPT ![k] = row]
<1>2. /\ Sound(moved) /\ Stored(moved) = Stored(rows)
      /\ \A l \in Residents(moved) : l \in Residents(rows) /\ moved[l] = rows[l]
      /\ k \in Residents(moved) /\ moved[k] = rows[k]
  BY <1>1, MovedIsSound
<1>3. CASE rows' = moved
  BY <1>3, MoveIsDue
<1>4. rows' = moved \/ (NewEvidence(moved[k], u.cap) /\ rows' = Reconcile(table, t))
  BY <1>1 DEF RecordQuality
<1>5. CASE NewEvidence(moved[k], u.cap) /\ rows' = Reconcile(table, t)
  <2>1. /\ row \in Rows /\ row.order = moved[k].order /\ row.cap = moved[k].cap
        /\ row.left = moved[k].left /\ Evident(row)
    <3>1. /\ u.cap \in Captures /\ u.named \in BOOLEAN /\ u.quality \in Qualities
          /\ u.cap.epoch = Latest(c).epoch /\ u.cap.seq <= Latest(c).seq
      BY OcrUploadsAreTyped DEF Sound
    <3>2. moved[k] \in Rows /\ Evident(moved[k])
      BY <1>2, TablesAreOrdered DEF Sound, Residents
    <3>3. u.cap.seq <= moved[k].cap.seq
      BY <1>1, <1>2, <3>1, OcrIsOfTheRow
    <3> QED
      BY <1>5, <3>1, <3>2, <3>3, SampledRow
  <2>2. k[2] = t /\ k \in Keys
    BY DEF Keys
  <2> HIDE DEF row, moved, k
  <2>3. moved \in RowTables /\ Ordered(moved) /\ Distinct(moved)
    BY <1>2, TablesAreOrdered DEF Sound
  <2>4. /\ table \in RowTables /\ table[k] = row
        /\ \A l \in Keys : l # k => table[l] = moved[l]
    BY <2>1, <2>2, <2>3 DEF RowTables
  <2> HIDE DEF table
  <2>5. /\ \A l \in Keys : table[l].order = moved[l].order
        /\ Stored(table) = Stored(moved) /\ Residents(table) = Residents(moved)
    <3>1. \A l \in Keys : table[l].order = moved[l].order
      BY <2>1, <2>4
    <3>2. k \in Stored(moved) /\ ~moved[k].left /\ row # NoRow
      BY <1>2, <2>1, RowsAreNoNoRow DEF Residents
    <3>3. Stored(table) = Stored(moved)
      BY <2>4, <3>2 DEF Stored
    <3>4. \A l \in Stored(moved) : l \in Keys
      BY DEF Stored
    <3>5. Residents(table) = Residents(moved)
      BY <2>1, <2>4, <3>2, <3>3, <3>4 DEF Residents
    <3> QED
      BY <3>1, <3>3, <3>5
  <2>6. Distinct(table) /\ Ordered(table)
    <3>1. \A l \in Stored(moved) : l \in Keys
      BY DEF Stored
    <3>2. Distinct(table)
      BY <2>3, <2>5, <3>1 DEF Distinct
    <3> QED
      BY <2>4, <3>2, TablesAreOrdered
  <2>7. /\ Reconciled(table, rows', t) /\ Reordered(rows', table)
        /\ \A l \in Keys : l[2] # t => rows'[l] = table[l]
        /\ rows' = table /\ Primary(table, t) # NoKey
             /\ TruncatedTooOften(table[Primary(table, t)]) =>
                \A l \in ResidentsOf(table, t) \ {Primary(table, t)} :
                    ~QualifiedForTruncated(table[l])
    BY <1>5, <2>4, <2>6, ReconcileIsDue
  <2>8. Residents(rows') = Residents(table)
    BY <2>4, <2>7, ReorderedResidents
  <2>9. \A l \in Residents(table) :
          /\ l \in Keys /\ l \in Residents(rows) /\ table[l].order = rows[l].order
          /\ l # k => table[l] = rows[l]
    <3>1. \A l \in Residents(moved) : l \in Keys
      BY DEF Residents, Stored
    <3> QED
      BY <1>2, <2>4, <2>5, <3>1
  <2>10. CASE s # t
    <3>1. \A l \in ResidentsOf(rows', s) :
             l \in Residents(table) /\ l[2] = s /\ l # k /\ rows'[l] = table[l]
      BY <2>2, <2>7, <2>8, <2>9, <2>10 DEF ResidentsOf
    <3>2. \A l \in ResidentsOf(rows', s) : l \in ResidentsOf(rows, s) /\ rows'[l] = rows[l]
      BY <2>9, <3>1 DEF ResidentsOf
    <3> QED
      BY <3>2, NothingDue
  <2>11. CASE s = t
    <3> DEFINE old == Primary(rows, s)
    <3>1. Ordered(rows)
      BY TablesAreOrdered DEF Sound
    <3>2. ASSUME old # NoKey, old \in Residents(table)
          PROVE  Primary(table, s) = old
      <4>1. old \in ResidentsOf(rows, s)
        BY <3>1, <3>2, PrimaryIsOldest
      <4>2. old \in ResidentsOf(table, s) /\ table[old].order = rows[old].order
        BY <2>9, <3>2, <4>1 DEF ResidentsOf
      <4>3. \A l \in ResidentsOf(table, s) :
               l \in ResidentsOf(rows, s) /\ table[l].order = rows[l].order
        BY <2>9 DEF ResidentsOf
      <4> HIDE DEF old
      <4> QED
        BY <2>6, <3>1, <3>2, <4>2, <4>3, PrimaryStays DEF old
    <3>3. Proven(s)
      BY <2>4, <2>6, <2>7, <2>11, <3>2, ReconciliationIsProven
    <3>4. Demoted(s)
      <4> SUFFICES ASSUME old # NoKey, TruncatedTooOften(rows'[old]), old = Primary(rows', s)
                   PROVE  \A l \in ResidentsOf(rows', s) \ {old} :
                             ~QualifiedForTruncated(rows'[l])
        BY DEF Demoted
      <4>1. old \in Residents(rows')
        <5> DEFINE new == rows'
        <5>1. Sound(new) /\ old = Primary(new, s)
          OBVIOUS
        <5> HIDE DEF new, old
        <5>2. Ordered(new)
          BY <5>1, TablesAreOrdered DEF Sound
        <5>3. old \in ResidentsOf(new, s)
          BY <5>1, <5>2, PrimaryIsOldest DEF old
        <5> QED
          BY <5>3 DEF ResidentsOf, new
      <4>2. Primary(table, s) = old
        BY <2>8, <3>2, <4>1
      <4> HIDE DEF old
      <4>3. rows' = table
        BY <2>7, <2>11, <4>2 DEF Reconciled
      <4> QED
        BY <2>7, <2>11, <4>2, <4>3
    <3> QED
      BY <3>3, <3>4
  <2> QED
    BY <2>10, <2>11
<1> QED
  BY <1>3, <1>4, <1>5

\* Every step changes the primary when it has to and only then.
LEMMA StepsAreDue ==
    ASSUME NoBareIdentities, MonitoringInv, MonitoringInv', [Next]_vars, NEW s \in Systems
    PROVE  vars' = vars \/ (Proven(s) /\ Demoted(s))
<1>1. Sound(rows) /\ Sound(rows')
  BY DEF MonitoringInv, Sound
<1>2. ASSUME rows' = rows
      PROVE  Proven(s) /\ Demoted(s)
  BY <1>1, <1>2, NothingDue DEF ResidentsOf
<1>3. ASSUME NEW c \in Clients, Presence(c) \/ Ocr(c)
      PROVE  Proven(s) /\ Demoted(s)
  BY <1>1, <1>3, PresenceIsDue, OcrIsDue
<1>4. ASSUME NEW gone \in SUBSET Residents(rows), Cleanup(gone)
      PROVE  Proven(s) /\ Demoted(s)
  BY <1>1, <1>4, CleanupIsDue
<1>5. CASE Tick
  BY <1>1, <1>5, TickIsDue
<1>6. CASE Restart
  <2>1. /\ Residents(rows') \subseteq Residents(rows)
        /\ \A k \in Stored(rows') : rows'[k] = rows[k]
    BY <1>1, <1>6, RestartIsSound
  <2>2. \A l \in ResidentsOf(rows', s) : l \in ResidentsOf(rows, s) /\ rows'[l] = rows[l]
    BY <2>1 DEF ResidentsOf, Residents
  <2> QED
    BY <1>1, <2>2, NothingDue
<1>7. CASE WarmUp
  BY <1>2, <1>7 DEF WarmUp
<1> QED
  BY <1>3, <1>4, <1>5, <1>6, <1>7 DEF Next, WithinTick, Expire

\* Where all binaries report windows, a primary that stays is replaced only for a reason
\* of its own roster and by a standby proven good for it, and new evidence that it is truncated
\* too often leaves it primary beside no qualified standby (intel_store.py 1999).
THEOREM TakeoversStayDue == ASSUME NoBareIdentities PROVE Spec => TakeoversAreDue
<1>1. MonitoringInv /\ MonitoringInv' /\ [Next]_vars => [\A s \in Systems : Proven(s)]_vars
  BY StepsAreDue
<1>2. MonitoringInv /\ MonitoringInv' /\ [Next]_vars => [\A s \in Systems : Demoted(s)]_vars
  BY StepsAreDue
<1>3. Spec => [][\A s \in Systems : Proven(s)]_vars
  BY <1>1, MonitoringInvariant, PTL DEF Spec
<1>4. Spec => [][\A s \in Systems : Demoted(s)]_vars
  BY <1>2, MonitoringInvariant, PTL DEF Spec
<1>5. [][\A s \in Systems : Proven(s)]_vars => OnlyProvenTakeovers
  BY DEF OnlyProvenTakeovers, Proven
<1>6. [][\A s \in Systems : Demoted(s)]_vars => TruncationDemotes
  BY DEF TruncationDemotes, Demoted
<1> QED
  BY <1>3, <1>4, <1>5, <1>6 DEF TakeoversAreDue

==============================================================================
