--------------------------- MODULE ListQueriesProofs ---------------------------
(***************************************************************************)
(* Facts about the operators of ListQueries: how many pages a list has and *)
(* what is on each, and that sorting shows every chosen item exactly once, *)
(* in order.                                                               *)
(***************************************************************************)
EXTENDS ListQueries, FunctionTheorems, FiniteSetTheorems, SequenceTheorems, TLAPS

-----------------------------------------------------------------------------
(* Pages.                                                                  *)

LEMMA LimitFacts ==
  /\ None \notin Int /\ None # Broken
  /\ \A limit \in PageLimits : limit \in Nat \ {0}
  /\ DefaultLimit \in PageLimits
BY ListAssumption

\* A page exists if there is a record before it ends: ceil(total / limit).
LEMMA PagesOfTotal ==
  ASSUME NEW total \in Nat, NEW limit \in Nat \ {0}
  PROVE  /\ TotalPages(total, limit) \in Nat
         /\ \A page \in Nat \ {0} :
              page <= TotalPages(total, limit) <=> (page - 1) * limit < total
<1> DEFINE q == (total + limit - 1) \div limit
<1>1. q \in Nat /\ q * limit <= total + limit - 1 /\ total + limit - 1 < (q + 1) * limit
  <2>1. total + limit - 1 \in Nat
    OBVIOUS
  <2>2. \A a \in Nat : a \div limit \in Nat /\ (a \div limit) * limit <= a
                       /\ a < (a \div limit + 1) * limit
    OBVIOUS
  <2>3. QED BY <2>1, <2>2
<1> HIDE DEF q
<1>2. ASSUME NEW page \in Nat \ {0}, page <= q
      PROVE  (page - 1) * limit < total
  <2>1. page * limit <= q * limit
    BY <1>1, <1>2
  <2>2. (page - 1) * limit = page * limit - limit /\ page * limit \in Int /\ q * limit \in Int
    BY <1>1
  <2>3. QED BY <1>1, <2>1, <2>2
<1>3. ASSUME NEW page \in Nat \ {0}, ~ (page <= q)
      PROVE  ~ ((page - 1) * limit < total)
  <2>1. page - 1 >= q
    BY <1>1, <1>3
  <2>2. (page - 1) * limit >= q * limit
    BY <1>1, <2>1
  <2>3. (q + 1) * limit = q * limit + limit /\ (page - 1) * limit \in Int /\ q * limit \in Int
    BY <1>1
  <2>4. QED BY <1>1, <2>2, <2>3
<1>4. QED BY <1>1, <1>2, <1>3 DEF TotalPages, q

\* items are those of s that follow the first "before", limit of them at most.
Holds(items, s, S, before, limit) ==
  /\ before \in Nat
  /\ items \in Seq(S)
  /\ Len(items) = IF Len(s) <= before THEN 0
                  ELSE IF before + limit < Len(s) THEN limit
                  ELSE Len(s) - before
  /\ \A k \in 1 .. Len(items) :
       before + k \in 1 .. Len(s) /\ items[k] = s[before + k]

\* What is on a page: the items after those of the pages before it.
LEMMA PageHolds ==
  ASSUME NEW S, NEW s \in Seq(S), NEW page \in Nat \ {0}, NEW limit \in Nat \ {0}
  PROVE  Holds(PaginateOffsetItems(s, page, limit), s, S, (page - 1) * limit, limit)
<1> DEFINE before == (page - 1) * limit
           last == IF page * limit < Len(s) THEN page * limit ELSE Len(s)
<1>1. before \in Nat /\ page * limit = before + limit
  OBVIOUS
<1>2. Len(s) \in Nat /\ \A i \in 1 .. Len(s) : s[i] \in S
  BY LenProperties, ElementOfSeq
<1>3. last = IF before + limit < Len(s) THEN before + limit ELSE Len(s)
  BY <1>1
<1> HIDE DEF before, last
<1>4. last \in Int /\ last <= Len(s)
  BY <1>1, <1>2, <1>3
<1>5. \A i \in before + 1 .. last : s[i] \in S
  BY <1>1, <1>2, <1>4
<1> DEFINE items == SubSeq(s, before + 1, last)
<1>6. /\ items \in Seq(S)
      /\ Len(items) = IF before + 1 <= last THEN last - (before + 1) + 1 ELSE 0
      /\ \A i \in 1 .. last - (before + 1) + 1 : items[i] = s[before + 1 + i - 1]
  BY <1>1, <1>4, <1>5, SubSeqProperties
<1> HIDE DEF items
<1>7. Len(items) = IF Len(s) <= before THEN 0
                   ELSE IF before + limit < Len(s) THEN limit ELSE Len(s) - before
  BY <1>1, <1>2, <1>3, <1>6
<1>8. ASSUME NEW k \in 1 .. Len(items)
      PROVE  before + k \in 1 .. Len(s) /\ items[k] = s[before + k]
  <2>1. before + k <= last /\ k \in 1 .. last - (before + 1) + 1
    BY <1>1, <1>4, <1>6
  <2>2. before + 1 + k - 1 = before + k
    BY <1>1
  <2>3. QED BY <1>1, <1>2, <1>4, <1>6, <2>1, <2>2
<1>9. items = PaginateOffsetItems(s, page, limit)
  BY DEF items, before, last, PaginateOffsetItems
<1>10. Holds(items, s, S, before, limit)
  BY <1>1, <1>6, <1>7, <1>8 DEF Holds
<1>11. QED BY <1>9, <1>10 DEF before

\* The same, spelled out.
LEMMA PageContents ==
  ASSUME NEW S, NEW s \in Seq(S), NEW page \in Nat \ {0}, NEW limit \in Nat \ {0}
  PROVE  LET items == PaginateOffsetItems(s, page, limit)
             before == (page - 1) * limit
         IN  /\ before \in Nat
             /\ items \in Seq(S)
             /\ Len(items) = IF Len(s) <= before THEN 0
                             ELSE IF before + limit < Len(s) THEN limit
                             ELSE Len(s) - before
             /\ \A k \in 1 .. Len(items) :
                  before + k \in 1 .. Len(s) /\ items[k] = s[before + k]
<1>1. Holds(PaginateOffsetItems(s, page, limit), s, S, (page - 1) * limit, limit)
  BY PageHolds
<1>2. QED BY <1>1 DEF Holds

\* Every item is on a page that exists.
LEMMA PlaceOnPage ==
  ASSUME NEW S, NEW s \in Seq(S), NEW limit \in Nat \ {0}, NEW p \in 1 .. Len(s)
  PROVE  \E page \in 1 .. TotalPages(Len(s), limit) :
           LET items == PaginateOffsetItems(s, page, limit)
           IN  \E k \in 1 .. Len(items) : items[k] = s[p]
<1> DEFINE q == (p - 1) \div limit
           page == q + 1
           k == p - q * limit
           items == PaginateOffsetItems(s, page, limit)
<1>1. Len(s) \in Nat
  BY LenProperties
<1>2. q \in Nat /\ q * limit <= p - 1 /\ p - 1 < (q + 1) * limit
  <2>1. p - 1 \in Nat
    BY <1>1
  <2>2. \A a \in Nat : a \div limit \in Nat /\ (a \div limit) * limit <= a
                       /\ a < (a \div limit + 1) * limit
    OBVIOUS
  <2>3. QED BY <2>1, <2>2
<1> HIDE DEF q
<1>3. page \in Nat \ {0} /\ (page - 1) * limit = q * limit /\ q * limit \in Nat
  BY <1>2
<1>4. page \in 1 .. TotalPages(Len(s), limit)
  <2>1. (page - 1) * limit < Len(s)
    BY <1>1, <1>2, <1>3
  <2>2. /\ TotalPages(Len(s), limit) \in Nat
        /\ page <= TotalPages(Len(s), limit)
    BY <1>1, <1>3, <2>1, PagesOfTotal
  <2>3. QED BY <1>3, <2>2
<1> HIDE DEF page
<1>5. /\ Len(items) = IF Len(s) <= q * limit THEN 0
                      ELSE IF q * limit + limit < Len(s) THEN limit
                      ELSE Len(s) - q * limit
      /\ \A l \in 1 .. Len(items) : items[l] = s[q * limit + l]
  <2> DEFINE before == q * limit
  <2>1. before = (page - 1) * limit
    BY <1>3
  <2> HIDE DEF before
  <2>2. items = PaginateOffsetItems(s, page, limit)
    OBVIOUS
  <2> HIDE DEF items
  <2>3. /\ Len(items) = IF Len(s) <= before THEN 0
                        ELSE IF before + limit < Len(s) THEN limit
                        ELSE Len(s) - before
        /\ \A l \in 1 .. Len(items) : items[l] = s[before + l]
    <3>1. Holds(PaginateOffsetItems(s, page, limit), s, S, (page - 1) * limit, limit)
      BY <1>3, PageHolds
    <3>2. Holds(items, s, S, before, limit)
      BY <3>1, <2>1, <2>2, Zenon
    <3>3. QED BY <3>2 DEF Holds
  <2>4. QED BY <2>3 DEF before
<1> HIDE DEF items
<1>6. (q + 1) * limit = q * limit + limit
  BY <1>2
<1>7. k \in 1 .. Len(items) /\ q * limit + k = p
  <2> DEFINE before == q * limit
  <2>1. before \in Nat /\ before <= p - 1 /\ p - 1 < before + limit
    BY <1>2, <1>3, <1>6
  <2>2. Len(items) = IF Len(s) <= before THEN 0
                     ELSE IF before + limit < Len(s) THEN limit ELSE Len(s) - before
    BY <1>5
  <2>3. k = p - before
    OBVIOUS
  <2> HIDE DEF before, k
  <2>4. k \in 1 .. Len(items) /\ before + k = p
    BY <1>1, <2>1, <2>2, <2>3
  <2>5. QED BY <2>4 DEF before
<1>8. items[k] = s[p]
  BY <1>5, <1>7
<1>9. QED BY <1>4, <1>7, <1>8 DEF items

\* The items of the pages, one page after the other, are in the order of the
\* list.
LEMMA PagesInOrder ==
  ASSUME NEW S, NEW s \in Seq(S), NEW limit \in Nat \ {0},
         NEW m \in Nat \ {0}, NEW n \in Nat \ {0},
         NEW k \in 1 .. Len(PaginateOffsetItems(s, m, limit)),
         NEW l \in 1 .. Len(PaginateOffsetItems(s, n, limit)),
         m < n \/ (m = n /\ k < l)
  PROVE  (m - 1) * limit + k < (n - 1) * limit + l
<1> DEFINE before == (m - 1) * limit
           after == (n - 1) * limit
           count == Len(PaginateOffsetItems(s, m, limit))
           items == PaginateOffsetItems(s, m, limit)
<1>1. /\ before \in Nat /\ after \in Nat /\ Len(s) \in Nat
      /\ count = IF Len(s) <= before THEN 0
                 ELSE IF before + limit < Len(s) THEN limit ELSE Len(s) - before
  <2>1. after \in Nat /\ Len(s) \in Nat /\ limit \in Nat /\ m \in Nat \ {0}
    BY LenProperties
  <2>2. before = (m - 1) * limit /\ items = PaginateOffsetItems(s, m, limit)
        /\ count = Len(items)
    OBVIOUS
  <2> HIDE DEF before, after, count, items
  <2>3. /\ before \in Nat
        /\ Len(items) = IF Len(s) <= before THEN 0
                        ELSE IF before + limit < Len(s) THEN limit
                        ELSE Len(s) - before
    <3>1. Holds(PaginateOffsetItems(s, m, limit), s, S, (m - 1) * limit, limit)
      BY PageHolds
    <3>2. Holds(items, s, S, before, limit)
      BY <3>1, <2>2, Zenon
    <3>3. QED BY <3>2 DEF Holds
  <2>4. QED BY <2>1, <2>2, <2>3
<1>2. l \in Nat \ {0}
  <2>1. PaginateOffsetItems(s, n, limit) \in Seq(S)
    BY PageContents
  <2>2. QED BY <2>1, LenProperties
<1> HIDE DEF count
<1>3. k \in Nat /\ k <= limit
  <2> HIDE DEF before
  <2>1. count \in Nat /\ count <= limit
    BY <1>1
  <2>2. k \in 1 .. count
    BY DEF count
  <2>3. QED BY <2>1, <2>2
<1>4. CASE m < n
  <2>1. before + limit <= after
    <3>1. m <= n - 1
      BY <1>4
    <3>2. m * limit <= (n - 1) * limit
      BY <3>1
    <3>3. (m - 1) * limit + limit = m * limit
      OBVIOUS
    <3>4. QED BY <3>2, <3>3
  <2> HIDE DEF before, after
  <2>2. before + k < after + l
    BY <1>1, <1>2, <1>3, <2>1
  <2>3. QED BY <2>2 DEF before, after
<1>5. CASE m = n /\ k < l
  <2>1. before = after
    BY <1>5
  <2> HIDE DEF before, after
  <2>2. before + k < after + l
    BY <1>1, <1>2, <1>3, <1>5, <2>1
  <2>3. QED BY <2>2 DEF before, after
<1>6. QED BY <1>4, <1>5

LEMMA PaginationType ==
  ASSUME NEW total \in Nat, NEW page \in Nat \ {0}, NEW limit \in PageLimits,
         NEW count \in Nat
  PROVE  BuildOffsetPagination(total, page, limit, count) \in OffsetPagination
<1>1. TotalPages(total, limit) \in Nat
  BY PagesOfTotal, LimitFacts
<1>2. page > 1 => page - 1 \in Nat \ {0}
  OBVIOUS
<1>3. page + 1 \in Nat \ {0}
  OBVIOUS
<1>4. QED BY <1>1, <1>2, <1>3 DEF BuildOffsetPagination, OffsetPagination, Optional

-----------------------------------------------------------------------------
(* Sorting.                                                                *)

\* A comparison that sorts: what it does not tell apart is of one rank.
WeakOrder(chosen, compared) ==
  /\ \A i, j \in chosen : << i, j >> \in compared => << j, i >> \notin compared
  /\ \A i, j, k \in chosen :
       << i, j >> \notin compared /\ << j, k >> \notin compared
       => << i, k >> \notin compared

Below(chosen, compared, i) == { j \in chosen : ComesBefore(compared, j, i) }

RankOf(chosen, compared) ==
  [i \in chosen |-> Cardinality(Below(chosen, compared, i))]

\* With ties broken by position the order is total.
LEMMA ComesBeforeIsTotal ==
  ASSUME NEW chosen \in SUBSET Nat, NEW compared, WeakOrder(chosen, compared)
  PROVE  /\ \A i \in chosen : ~ ComesBefore(compared, i, i)
         /\ \A i, j \in chosen :
              i # j => ComesBefore(compared, i, j) \/ ComesBefore(compared, j, i)
         /\ \A i, j, k \in chosen :
              ComesBefore(compared, i, j) /\ ComesBefore(compared, j, k)
              => ComesBefore(compared, i, k)
<1>1. \A i \in chosen : ~ ComesBefore(compared, i, i)
  BY DEF WeakOrder, ComesBefore
<1>2. \A i, j \in chosen :
        i # j => ComesBefore(compared, i, j) \/ ComesBefore(compared, j, i)
  BY DEF ComesBefore
<1>3. ASSUME NEW i \in chosen, NEW j \in chosen, NEW k \in chosen,
             ComesBefore(compared, i, j), ComesBefore(compared, j, k)
      PROVE  ComesBefore(compared, i, k)
  <2>1. << j, i >> \notin compared /\ << k, j >> \notin compared
    BY <1>3 DEF WeakOrder, ComesBefore
  <2>2. << k, i >> \notin compared
    BY <2>1 DEF WeakOrder
  <2>3. << i, j >> \in compared => << i, k >> \in compared
    BY <2>1 DEF WeakOrder
  <2>4. << j, k >> \in compared => << i, k >> \in compared
    BY <2>1 DEF WeakOrder
  <2>5. CASE i < j /\ j < k
    BY <2>2, <2>5 DEF ComesBefore
  <2>6. QED BY <1>3, <2>2, <2>3, <2>4, <2>5 DEF ComesBefore
<1>4. QED BY <1>1, <1>2, <1>3

\* What comes before has fewer before it.
LEMMA RankGrows ==
  ASSUME NEW chosen \in SUBSET Nat, IsFiniteSet(chosen), NEW compared,
         WeakOrder(chosen, compared),
         NEW i \in chosen, NEW j \in chosen, ComesBefore(compared, i, j)
  PROVE  RankOf(chosen, compared)[i] < RankOf(chosen, compared)[j]
<1> DEFINE A == Below(chosen, compared, i)
           B == Below(chosen, compared, j)
<1>1. A \subseteq B /\ i \in B /\ i \notin A /\ B \subseteq chosen
  BY ComesBeforeIsTotal DEF Below
<1>2. IsFiniteSet(B)
  BY <1>1, FS_Subset
<1>3. /\ IsFiniteSet(A)
      /\ Cardinality(A) <= Cardinality(B)
      /\ Cardinality(B) = Cardinality(A) => B = A
  <2> HIDE DEF A, B
  <2>1. A \in SUBSET B
    BY <1>1
  <2>2. QED BY <1>2, <2>1, FS_Subset
<1>4. Cardinality(A) # Cardinality(B)
  BY <1>1, <1>3
<1>5. Cardinality(A) \in Nat /\ Cardinality(B) \in Nat
  BY <1>2, <1>3, FS_CardinalityType
<1>6. QED BY <1>3, <1>4, <1>5 DEF RankOf

LEMMA RankIsBijection ==
  ASSUME NEW chosen \in SUBSET Nat, IsFiniteSet(chosen), NEW compared,
         WeakOrder(chosen, compared)
  PROVE  RankOf(chosen, compared)
           \in Bijection(chosen, 0 .. Cardinality(chosen) - 1)
<1> DEFINE n == Cardinality(chosen)
           rank == RankOf(chosen, compared)
<1>1. n \in Nat
  BY FS_CardinalityType
<1>2. rank \in [chosen -> 0 .. n - 1]
  <2>1. ASSUME NEW i \in chosen
        PROVE  Cardinality(Below(chosen, compared, i)) \in 0 .. n - 1
    <3> DEFINE A == Below(chosen, compared, i)
    <3>1. A \in SUBSET (chosen \ {i})
      BY ComesBeforeIsTotal DEF Below
    <3>2. IsFiniteSet(chosen \ {i}) /\ Cardinality(chosen \ {i}) = n - 1
      BY FS_RemoveElement
    <3> HIDE DEF A
    <3>3. IsFiniteSet(A) /\ Cardinality(A) <= n - 1
      BY <3>1, <3>2, FS_Subset
    <3>4. Cardinality(A) \in Nat
      BY <3>3, FS_CardinalityType
    <3>5. QED BY <1>1, <3>3, <3>4 DEF A
  <2>2. QED BY <2>1 DEF RankOf
<1>3. \A i, j \in chosen : rank[i] = rank[j] => i = j
  <2>1. SUFFICES ASSUME NEW i \in chosen, NEW j \in chosen, i # j
                 PROVE  rank[i] # rank[j]
    OBVIOUS
  <2>2. rank[i] \in Int /\ rank[j] \in Int
    BY <1>1, <1>2
  <2>3. CASE ComesBefore(compared, i, j)
    BY <2>2, <2>3, RankGrows
  <2>4. CASE ComesBefore(compared, j, i)
    BY <2>2, <2>4, RankGrows
  <2>5. QED BY <2>1, <2>3, <2>4, ComesBeforeIsTotal
<1>4. rank \in Injection(chosen, 0 .. n - 1)
  <2> HIDE DEF rank
  <2>1. QED BY <1>2, <1>3, Fun_IsInj
<1>5. IsFiniteSet(0 .. n - 1) /\ Cardinality(0 .. n - 1) = n
  <2>1. 0 \in Int /\ n - 1 \in Int
    BY <1>1
  <2>2. QED BY <1>1, <2>1, FS_Interval
<1>6. rank \in Surjection(chosen, 0 .. n - 1)
  <2> HIDE DEF rank
  <2>1. QED BY <1>4, <1>5, FS_Injection DEF n
<1>7. QED BY <1>4, <1>6 DEF Bijection

\* Sorting puts every chosen position at one place, and places in order.
LEMMA SortedPositions ==
  ASSUME NEW chosen \in SUBSET Nat, IsFiniteSet(chosen), NEW compared,
         WeakOrder(chosen, compared)
  PROVE  LET n == Cardinality(chosen)
             At(k) == SortedTo(chosen, compared, k)
         IN  /\ n \in Nat
             /\ \A k \in 1 .. n : At(k) \in chosen /\ RankOf(chosen, compared)[At(k)] = k - 1
             /\ \A i \in chosen : \E k \in 1 .. n : At(k) = i
             /\ \A k, l \in 1 .. n : k < l => ComesBefore(compared, At(k), At(l))
<1> DEFINE n == Cardinality(chosen)
           rank == RankOf(chosen, compared)
           At(k) == SortedTo(chosen, compared, k)
<1>1. n \in Nat
  BY FS_CardinalityType
<1>2. /\ rank \in [chosen -> 0 .. n - 1]
      /\ \A i, j \in chosen : rank[i] = rank[j] => i = j
      /\ \A r \in 0 .. n - 1 : \E i \in chosen : rank[i] = r
  <2>1. rank \in Bijection(chosen, 0 .. n - 1)
    BY RankIsBijection
  <2> HIDE DEF rank, n
  <2>2. QED BY <2>1 DEF Bijection, Injection, Surjection, IsInjective
<1>3. ASSUME NEW k \in 1 .. n
      PROVE  At(k) \in chosen /\ rank[At(k)] = k - 1
  <2>1. k - 1 \in 0 .. n - 1
    BY <1>1
  <2>2. PICK i \in chosen : rank[i] = k - 1
    BY <1>2, <2>1
  <2>3. Cardinality({ j \in chosen : ComesBefore(compared, j, i) }) = k - 1
    BY <2>2 DEF RankOf, Below
  <2>4. /\ At(k) \in chosen
        /\ Cardinality({ j \in chosen : ComesBefore(compared, j, At(k)) }) = k - 1
    BY <2>3 DEF SortedTo
  <2>5. QED BY <2>4 DEF RankOf, Below
<1>4. ASSUME NEW i \in chosen
      PROVE  \E k \in 1 .. n : At(k) = i
  <2>1. rank[i] + 1 \in 1 .. n
    BY <1>1, <1>2
  <2>2. rank[At(rank[i] + 1)] = rank[i] /\ At(rank[i] + 1) \in chosen
    BY <1>1, <1>2, <1>3, <2>1
  <2>3. At(rank[i] + 1) = i
    BY <1>2, <2>2
  <2>4. QED BY <2>1, <2>3
<1>5. ASSUME NEW k \in 1 .. n, NEW l \in 1 .. n, k < l
      PROVE  ComesBefore(compared, At(k), At(l))
  <2>1. At(k) \in chosen /\ At(l) \in chosen /\ rank[At(k)] = k - 1 /\ rank[At(l)] = l - 1
    BY <1>3
  <2>2. ~ ComesBefore(compared, At(l), At(k))
    <3>1. k - 1 \in Int /\ l - 1 \in Int /\ k - 1 < l - 1
      BY <1>1, <1>5
    <3>2. SUFFICES ASSUME ComesBefore(compared, At(l), At(k)) PROVE FALSE
      OBVIOUS
    <3>3. rank[At(l)] < rank[At(k)]
      BY <2>1, <3>2, RankGrows
    <3>4. QED BY <2>1, <3>1, <3>3
  <2>3. At(k) # At(l)
    <3>1. k - 1 # l - 1
      BY <1>1, <1>5
    <3>2. QED BY <2>1, <3>1
  <2>4. QED BY <2>1, <2>2, <2>3, ComesBeforeIsTotal
<1>6. QED BY <1>1, <1>3, <1>4, <1>5

\* There is one way to put all of the chosen positions in order.
LEMMA SortedOneWay ==
  ASSUME NEW chosen \in SUBSET Nat, IsFiniteSet(chosen), NEW compared,
         WeakOrder(chosen, compared),
         NEW f \in [1 .. Cardinality(chosen) -> chosen],
         \A k, l \in 1 .. Cardinality(chosen) :
           k < l => ComesBefore(compared, f[k], f[l])
  PROVE  \A k \in 1 .. Cardinality(chosen) : f[k] = SortedTo(chosen, compared, k)
<1> DEFINE n == Cardinality(chosen)
           rank == RankOf(chosen, compared)
<1>1. n \in Nat
  BY FS_CardinalityType
<1>2. \A k, l \in 1 .. n : f[k] = f[l] => k = l
  <2>1. ASSUME NEW k \in 1 .. n, NEW l \in 1 .. n, k < l PROVE f[k] # f[l]
    <3>1. ComesBefore(compared, f[k], f[l]) /\ f[k] \in chosen
      BY <2>1
    <3>2. QED BY <3>1, ComesBeforeIsTotal
  <2>2. QED BY <1>1, <2>1
<1>3. \A i \in chosen : \E k \in 1 .. n : f[k] = i
  <2>1. f \in Injection(1 .. n, chosen)
    BY <1>2, Fun_IsInj
  <2>2. Cardinality(1 .. n) = n
    <3>1. 1 \in Int /\ n \in Int /\ (1 > n => n = 0)
      BY <1>1
    <3>2. QED BY <1>1, <3>1, FS_Interval
  <2>3. f \in Surjection(1 .. n, chosen)
    BY <2>1, <2>2, FS_Injection
  <2>4. QED BY <2>3 DEF Surjection
<1>4. ASSUME NEW k \in 1 .. n
      PROVE  f[k] \in chosen /\ rank[f[k]] = k - 1
  <2> DEFINE B == Below(chosen, compared, f[k])
             g == [m \in 1 .. k - 1 |-> f[m]]
  <2>1. \A m \in 1 .. k - 1 : m \in 1 .. n /\ m < k
    BY <1>1
  <2>2. g \in [1 .. k - 1 -> B]
    BY <2>1 DEF Below
  <2>3. \A a, b \in 1 .. k - 1 : g[a] = g[b] => a = b
    BY <1>2, <2>1
  <2>4. \A t \in B : \E m \in 1 .. k - 1 : g[m] = t
    <3>1. ASSUME NEW t \in B PROVE \E m \in 1 .. k - 1 : g[m] = t
      <4>1. t \in chosen /\ ComesBefore(compared, t, f[k]) /\ f[k] \in chosen
        BY <3>1 DEF Below
      <4>2. PICK m \in 1 .. n : f[m] = t
        BY <1>3, <4>1
      <4>3. m # k /\ ~ (k < m)
        <5>1. ~ ComesBefore(compared, f[k], t)
          BY <4>1, ComesBeforeIsTotal
        <5>2. m # k
          BY <4>1, <4>2, <5>1
        <5>3. QED BY <4>2, <5>1, <5>2
      <4>4. m \in 1 .. k - 1
        BY <1>1, <4>3
      <4>5. QED BY <4>2, <4>4
    <3>2. QED BY <3>1
  <2>5. ExistsBijection(1 .. k - 1, B)
    <3> HIDE DEF g, B
    <3>1. g \in Bijection(1 .. k - 1, B)
      BY <2>2, <2>3, <2>4, Fun_IsBij
    <3>2. QED BY <3>1, Fun_ExistsBij
  <2>6. Cardinality(B) = k - 1
    <3>1. k - 1 \in Nat
      BY <1>1
    <3> HIDE DEF B
    <3>2. QED BY <2>5, <3>1, FS_CountingElements
  <2>7. QED BY <2>6 DEF RankOf
<1>5. ASSUME NEW k \in 1 .. n
      PROVE  f[k] = SortedTo(chosen, compared, k)
  <2>1. /\ SortedTo(chosen, compared, k) \in chosen
        /\ rank[SortedTo(chosen, compared, k)] = k - 1
    BY SortedPositions
  <2>2. rank \in Bijection(chosen, 0 .. n - 1)
    BY RankIsBijection
  <2>3. \A i, j \in chosen : rank[i] = rank[j] => i = j
    <3> HIDE DEF rank, n
    <3>1. QED BY <2>2, Fun_BijectionProperties
  <2>4. QED BY <1>4, <2>1, <2>3
<1>6. QED BY <1>5

-----------------------------------------------------------------------------
(* Lists.                                                                  *)

LEMMA ChosenIsFinite ==
  ASSUME NEW S, NEW items \in Seq(S), NEW chosen \in SUBSET (DOMAIN items)
  PROVE  /\ chosen \in SUBSET Nat
         /\ IsFiniteSet(chosen)
         /\ Cardinality(chosen) \in Nat
<1>1. Len(items) \in Nat /\ DOMAIN items = 1 .. Len(items)
  BY LenProperties
<1>2. IsFiniteSet(1 .. Len(items))
  BY <1>1, FS_Interval
<1>3. IsFiniteSet(chosen)
  BY <1>1, <1>2, FS_Subset
<1>4. QED BY <1>1, <1>3, FS_CardinalityType

LEMMA ElementsOfSeq ==
  ASSUME NEW S, NEW items \in Seq(S)
  PROVE  \A i \in DOMAIN items : items[i] \in S
BY LenProperties, ElementOfSeq

\* Sorting by a number, and by a second one among those with the same, up or
\* down.
NumberOrder(compared, D, key, tie, order) ==
  /\ key \in [D -> Int] /\ tie \in [D -> Int]
  /\ \A i, j \in D :
       << i, j >> \in compared
       <=> IF order = "asc"
             THEN key[i] < key[j] \/ (key[i] = key[j] /\ tie[i] < tie[j])
             ELSE key[j] < key[i] \/ (key[j] = key[i] /\ tie[j] < tie[i])

LEMMA NumbersSort ==
  ASSUME NEW D, NEW chosen \in SUBSET D, NEW compared, NEW order, NEW key, NEW tie,
         NumberOrder(compared, D, key, tie, order)
  PROVE  WeakOrder(chosen, compared)
<1>1. \A i \in chosen : i \in D /\ key[i] \in Int /\ tie[i] \in Int
  BY DEF NumberOrder
<1>2. CASE order = "asc"
  <2>1. \A i, j \in chosen :
          << i, j >> \in compared
          <=> key[i] < key[j] \/ (key[i] = key[j] /\ tie[i] < tie[j])
    BY <1>1, <1>2 DEF NumberOrder
  <2>2. QED BY <1>1, <2>1 DEF WeakOrder
<1>3. CASE order # "asc"
  <2>1. \A i, j \in chosen :
          << i, j >> \in compared
          <=> key[j] < key[i] \/ (key[j] = key[i] /\ tie[j] < tie[i])
    BY <1>1, <1>3 DEF NumberOrder
  <2>2. QED BY <1>1, <2>1 DEF WeakOrder
<1>4. QED BY <1>2, <1>3

\* A sequence made of the items at the places of some positions.
LEMMA ListOfPlaces ==
  ASSUME NEW S, NEW items \in Seq(S), NEW n \in Nat, NEW f \in [1 .. n -> DOMAIN items]
  PROVE  LET s == [k \in 1 .. n |-> items[f[k]]]
         IN  s \in Seq(S) /\ Len(s) = n /\ DOMAIN s = 1 .. n
<1> DEFINE s == [k \in 1 .. n |-> items[f[k]]]
<1>1. \A k \in 1 .. n : items[f[k]] \in S
  BY LenProperties, ElementOfSeq
<1>2. s \in [1 .. n -> S]
  BY <1>1
<1> HIDE DEF s
<1>3. s \in Seq(S)
  BY <1>2, SeqDef
<1>4. DOMAIN s = 1 .. n /\ DOMAIN s = 1 .. Len(s) /\ Len(s) \in Nat
  BY <1>2, <1>3, LenProperties
<1>5. QED BY <1>3, <1>4 DEF s

-----------------------------------------------------------------------------
(* Lists in the opposite order.                                            *)

Backwards(s) == [i \in DOMAIN s |-> s[Len(s) + 1 - i]]

\* Where the items at some positions of a list of n are in the opposite order.
Opposite(n, chosen) == { i \in 1 .. n : n + 1 - i \in chosen }

LEMMA BackwardsFacts ==
  ASSUME NEW S, NEW s \in Seq(S)
  PROVE  /\ Backwards(s) \in Seq(S)
         /\ Len(s) \in Nat /\ DOMAIN s = 1 .. Len(s)
         /\ Len(Backwards(s)) = Len(s) /\ DOMAIN Backwards(s) = 1 .. Len(s)
         /\ \A i \in 1 .. Len(s) : /\ Len(s) + 1 - i \in 1 .. Len(s)
                                   /\ Len(s) + 1 - (Len(s) + 1 - i) = i
                                   /\ Backwards(s)[i] = s[Len(s) + 1 - i]
<1> DEFINE n == Len(s)
           t == Backwards(s)
<1>1. n \in Nat /\ DOMAIN s = 1 .. n /\ \A i \in 1 .. n : s[i] \in S
  BY LenProperties, ElementOfSeq
<1>2. \A i \in 1 .. n : n + 1 - i \in 1 .. n /\ n + 1 - (n + 1 - i) = i
  BY <1>1
<1>3. t = [i \in 1 .. n |-> s[n + 1 - i]]
  BY <1>1 DEF Backwards
<1> HIDE DEF t, n
<1>4. t \in [1 .. n -> S]
  BY <1>1, <1>2, <1>3
<1>5. t \in Seq(S)
  BY <1>1, <1>4, SeqDef
<1>6. DOMAIN t = 1 .. n /\ DOMAIN t = 1 .. Len(t) /\ Len(t) \in Nat
  BY <1>4, <1>5, LenProperties
<1>7. Len(t) = n
  BY <1>1, <1>6
<1>8. \A i \in 1 .. n : t[i] = s[n + 1 - i]
  BY <1>3
<1>9. QED BY <1>1, <1>2, <1>5, <1>6, <1>7, <1>8 DEF t, n

LEMMA OppositeCounts ==
  ASSUME NEW n \in Nat, NEW chosen \in SUBSET (1 .. n)
  PROVE  /\ Opposite(n, chosen) \in SUBSET (1 .. n)
         /\ \A i \in chosen : n + 1 - i \in Opposite(n, chosen)
         /\ IsFiniteSet(chosen) /\ IsFiniteSet(Opposite(n, chosen))
         /\ Cardinality(Opposite(n, chosen)) = Cardinality(chosen)
<1> DEFINE other == Opposite(n, chosen)
           f == [i \in chosen |-> n + 1 - i]
<1>1. \A i \in 1 .. n : n + 1 - i \in 1 .. n /\ n + 1 - (n + 1 - i) = i
  OBVIOUS
<1>2. other \in SUBSET (1 .. n)
  BY DEF Opposite
<1>3. \A i \in chosen : n + 1 - i \in other
  BY <1>1 DEF Opposite
<1>4. \A i \in other : n + 1 - i \in chosen
  BY DEF Opposite
<1> HIDE DEF other
<1>5. f \in [chosen -> other]
  BY <1>3
<1>6. \A i, j \in chosen : f[i] = f[j] => i = j
  <2>1. ASSUME NEW i \in chosen, NEW j \in chosen, f[i] = f[j] PROVE i = j
    <3>1. n + 1 - i = n + 1 - j /\ i \in Int /\ j \in Int
      BY <2>1
    <3>2. QED BY <3>1
  <2>2. QED BY <2>1
<1>7. \A j \in other : \E i \in chosen : f[i] = j
  <2>1. ASSUME NEW j \in other PROVE \E i \in chosen : f[i] = j
    <3>1. n + 1 - j \in chosen /\ n + 1 - (n + 1 - j) = j
      BY <1>1, <1>2, <1>4
    <3>2. f[n + 1 - j] = n + 1 - (n + 1 - j)
      BY <3>1
    <3>3. QED BY <3>1, <3>2
  <2>2. QED BY <2>1
<1> HIDE DEF f
<1>8. f \in Bijection(chosen, other)
  BY <1>5, <1>6, <1>7, Fun_IsBij
<1>9. IsFiniteSet(1 .. n)
  BY FS_Interval
<1>10. IsFiniteSet(chosen) /\ IsFiniteSet(other)
  BY <1>2, <1>9, FS_Subset
<1>11. Cardinality(other) = Cardinality(chosen)
  BY <1>8, <1>10, Fun_ExistsBij, FS_Bijection
<1>12. QED BY <1>2, <1>3, <1>10, <1>11 DEF other

\* A comparison that tells all of the chosen items apart.
TellsApart(chosen, compared) ==
  \A i, j \in chosen : i # j => << i, j >> \in compared \/ << j, i >> \in compared

\* The same comparison of the items in the opposite order.
SameComparison(n, compared, other) ==
  \A i, j \in 1 .. n :
    << i, j >> \in other <=> << n + 1 - i, n + 1 - j >> \in compared

\* A comparison that tells the items apart sorts them into one list, whatever
\* order they are in.
LEMMA ArrangedBackwards ==
  ASSUME NEW S, NEW s \in Seq(S), NEW chosen \in SUBSET (DOMAIN s),
         NEW compared, NEW other, SameComparison(Len(s), compared, other),
         WeakOrder(chosen, compared), TellsApart(chosen, compared)
  PROVE  Arranged(Backwards(s), Opposite(Len(s), chosen), other)
           = Arranged(s, chosen, compared)
<1> DEFINE n == Len(s)
           t == Backwards(s)
           turned == Opposite(n, chosen)
           N == Cardinality(chosen)
           P(k) == SortedTo(chosen, compared, k)
           f == [k \in 1 .. N |-> n + 1 - P(k)]
<1>1. /\ n \in Nat /\ DOMAIN s = 1 .. n
      /\ \A i \in 1 .. n : n + 1 - i \in 1 .. n /\ n + 1 - (n + 1 - i) = i
                           /\ t[i] = s[n + 1 - i]
  BY BackwardsFacts
<1> HIDE DEF n
<1>2. chosen \in SUBSET (1 .. n)
  BY <1>1
<1>3. /\ turned \in SUBSET (1 .. n) /\ \A i \in chosen : n + 1 - i \in turned
      /\ IsFiniteSet(chosen) /\ IsFiniteSet(turned) /\ Cardinality(turned) = N
  BY <1>1, <1>2, OppositeCounts
<1>4. \A i \in turned : n + 1 - i \in chosen
  BY DEF Opposite
<1> HIDE DEF turned, t
<1>5. chosen \in SUBSET Nat /\ turned \in SUBSET Nat
  BY <1>1, <1>2, <1>3
<1>6. /\ N \in Nat
      /\ \A k \in 1 .. N : P(k) \in chosen
      /\ \A k, l \in 1 .. N : k < l => ComesBefore(compared, P(k), P(l))
  BY <1>3, <1>5, SortedPositions
<1>7. \A i, j \in turned :
        << i, j >> \in other <=> << n + 1 - i, n + 1 - j >> \in compared
  BY <1>3 DEF SameComparison, n
<1>8. WeakOrder(turned, other)
  <2>1. ASSUME NEW i \in turned, NEW j \in turned, << i, j >> \in other
        PROVE  << j, i >> \notin other
    <3>1. n + 1 - i \in chosen /\ n + 1 - j \in chosen
      BY <1>4
    <3>2. QED BY <1>7, <2>1, <3>1 DEF WeakOrder
  <2>2. ASSUME NEW i \in turned, NEW j \in turned, NEW k \in turned,
               << i, j >> \notin other, << j, k >> \notin other
        PROVE  << i, k >> \notin other
    <3>1. n + 1 - i \in chosen /\ n + 1 - j \in chosen /\ n + 1 - k \in chosen
      BY <1>4
    <3>2. /\ << n + 1 - i, n + 1 - j >> \notin compared
          /\ << n + 1 - j, n + 1 - k >> \notin compared
      BY <1>7, <2>2
    <3>3. << n + 1 - i, n + 1 - k >> \notin compared
      BY <3>1, <3>2 DEF WeakOrder
    <3>4. QED BY <1>7, <3>3
  <2>3. QED BY <2>1, <2>2 DEF WeakOrder
<1> HIDE DEF N, P
<1>9. f \in [1 .. N -> turned]
  BY <1>3, <1>6
<1>10. ASSUME NEW k \in 1 .. N, NEW l \in 1 .. N, k < l
       PROVE  ComesBefore(other, f[k], f[l])
  <2>1. P(k) \in chosen /\ P(l) \in chosen /\ ComesBefore(compared, P(k), P(l))
    BY <1>6, <1>10
  <2>2. P(k) # P(l)
    BY <1>3, <1>5, <2>1, ComesBeforeIsTotal
  <2>3. << P(k), P(l) >> \in compared
    BY <2>1, <2>2 DEF ComesBefore, TellsApart
  <2>4. n + 1 - f[k] = P(k) /\ n + 1 - f[l] = P(l) /\ f[k] \in turned /\ f[l] \in turned
    BY <1>1, <1>2, <1>9, <2>1
  <2>5. << f[k], f[l] >> \in other
    BY <1>7, <2>3, <2>4
  <2>6. QED BY <2>5 DEF ComesBefore
<1>11. \A k \in 1 .. N : f[k] = SortedTo(turned, other, k)
  <2> HIDE DEF f
  <2>1. f \in [1 .. Cardinality(turned) -> turned]
    BY <1>3, <1>9
  <2>2. \A k, l \in 1 .. Cardinality(turned) : k < l => ComesBefore(other, f[k], f[l])
    BY <1>3, <1>10
  <2>3. \A k \in 1 .. Cardinality(turned) : f[k] = SortedTo(turned, other, k)
    BY <1>3, <1>5, <1>8, <2>1, <2>2, SortedOneWay
  <2>4. QED BY <1>3, <2>3
<1>12. \A k \in 1 .. N : t[SortedTo(turned, other, k)] = s[P(k)]
  <2>1. ASSUME NEW k \in 1 .. N PROVE t[SortedTo(turned, other, k)] = s[P(k)]
    <3>1. P(k) \in 1 .. n /\ f[k] = n + 1 - P(k)
      BY <1>2, <1>6
    <3>2. f[k] \in 1 .. n /\ n + 1 - f[k] = P(k)
      BY <1>1, <3>1
    <3>3. t[f[k]] = s[P(k)]
      BY <1>1, <3>2
    <3>4. QED BY <1>11, <3>3
  <2>2. QED BY <2>1
<1>13. /\ Arranged(t, turned, other) = [k \in 1 .. N |-> t[SortedTo(turned, other, k)]]
       /\ Arranged(s, chosen, compared) = [k \in 1 .. N |-> s[P(k)]]
  BY <1>3 DEF Arranged, N, P
<1>14. Arranged(t, turned, other) = Arranged(s, chosen, compared)
  BY <1>12, <1>13
<1>15. QED BY <1>14 DEF t, turned, n

===============================================================================
