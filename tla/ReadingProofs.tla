--------------------------- MODULE ReadingProofs ---------------------------
(***************************************************************************)
(* Proofs about listings that are read in several requests while they are  *)
(* written to, for any Pages, rights, page sizes, writes and feeds.        *)
(*                                                                         *)
(* What both readers rest on is that a keyset condition cuts an ordered    *)
(* listing in two.  The order is a set of pairs R here, so that the        *)
(* lemmas serve both orders: in Ordered(S, R) the element with n - 1       *)
(* others before it comes n-th.                                            *)
(***************************************************************************)
EXTENDS Retrieval, AdminFeeds, FiniteSetTheorems, TLAPS

Earlier(S, R, x) == {y \in S : <<y, x>> \in R}

Ordered(S, R) ==
    [n \in 1 .. Cardinality(S) |->
        CHOOSE x \in S : Cardinality(Earlier(S, R, x)) = n - 1]

TotalOrder(R, S) ==
    /\ \A x \in S : <<x, x>> \notin R
    /\ \A x, y, z \in S : <<x, y>> \in R /\ <<y, z>> \in R => <<x, z>> \in R
    /\ \A x, y \in S : x = y \/ <<x, y>> \in R \/ <<y, x>> \in R

Ascending(f, R) == \A i, j \in DOMAIN f : i < j => <<f[i], f[j]>> \in R

\* Fewer elements come before an earlier element.
LEMMA FewerBeforeEarlier ==
    ASSUME NEW S, NEW R, IsFiniteSet(S), TotalOrder(R, S),
           NEW x \in S, NEW y \in S, <<x, y>> \in R
    PROVE  Cardinality(Earlier(S, R, x)) < Cardinality(Earlier(S, R, y))
<1>1. Earlier(S, R, x) \subseteq Earlier(S, R, y) /\ x \in Earlier(S, R, y)
    BY DEF Earlier, TotalOrder
<1>2. x \notin Earlier(S, R, x)
    BY DEF Earlier, TotalOrder
<1>3. IsFiniteSet(Earlier(S, R, x)) /\ IsFiniteSet(Earlier(S, R, y))
    BY FS_Subset DEF Earlier
<1>4. /\ Cardinality(Earlier(S, R, x)) <= Cardinality(Earlier(S, R, y))
      /\ Cardinality(Earlier(S, R, x)) # Cardinality(Earlier(S, R, y))
    BY <1>1, <1>2, <1>3, FS_Subset
<1>5. /\ Cardinality(Earlier(S, R, x)) \in Nat
      /\ Cardinality(Earlier(S, R, y)) \in Nat
    BY <1>3, FS_CardinalityType
<1>6. QED
    BY <1>4, <1>5

\* Every number below the cardinality counts the elements before exactly one.
LEMMA CountsAreTaken ==
    ASSUME NEW S, NEW R, IsFiniteSet(S), TotalOrder(R, S)
    PROVE  /\ \A x \in S : Cardinality(Earlier(S, R, x)) \in 0 .. Cardinality(S) - 1
           /\ \A n \in 0 .. Cardinality(S) - 1 :
                \E x \in S : Cardinality(Earlier(S, R, x)) = n
           /\ \A x, y \in S :
                Cardinality(Earlier(S, R, x)) = Cardinality(Earlier(S, R, y)) => x = y
<1> DEFINE count == [x \in S |-> Cardinality(Earlier(S, R, x))]
           numbers == 0 .. Cardinality(S) - 1
<1>1. Cardinality(S) \in Nat
    BY FS_CardinalityType
<1>2. ASSUME NEW x \in S
      PROVE  Cardinality(Earlier(S, R, x)) \in numbers
    <2>1. Earlier(S, R, x) \in SUBSET S /\ x \notin Earlier(S, R, x)
        BY DEF Earlier, TotalOrder
    <2>2. /\ IsFiniteSet(Earlier(S, R, x))
          /\ Cardinality(Earlier(S, R, x)) <= Cardinality(S)
          /\ Cardinality(Earlier(S, R, x)) # Cardinality(S)
        BY <2>1, FS_Subset
    <2>3. Cardinality(Earlier(S, R, x)) \in Nat
        BY <2>2, FS_CardinalityType
    <2>4. QED
        BY <2>2, <2>3, <1>1
<1>3. ASSUME NEW x \in S, NEW y \in S,
             Cardinality(Earlier(S, R, x)) = Cardinality(Earlier(S, R, y))
      PROVE  x = y
    <2>1. ~ <<x, y>> \in R /\ ~ <<y, x>> \in R
        BY <1>2, <1>3, FewerBeforeEarlier
    <2>2. QED
        BY <2>1 DEF TotalOrder
<1>4. count \in Injection(S, numbers)
    BY <1>2, <1>3 DEF Injection, IsInjective
<1>5. IsFiniteSet(numbers) /\ Cardinality(numbers) = Cardinality(S)
    BY <1>1, FS_Interval
<1>6. count \in Surjection(S, numbers)
    BY <1>4, <1>5, FS_Injection
<1>7. \A n \in numbers : \E x \in S : count[x] = n
    BY <1>6 DEF Surjection
<1>8. QED
    BY <1>2, <1>3, <1>7

\* The listing holds every element once, in order.
LEMMA OrderedListing ==
    ASSUME NEW S, NEW R, IsFiniteSet(S), TotalOrder(R, S)
    PROVE  /\ Cardinality(S) \in Nat
           /\ Ordered(S, R) \in Seq(S)
           /\ Len(Ordered(S, R)) = Cardinality(S)
           /\ DOMAIN Ordered(S, R) = 1 .. Cardinality(S)
           /\ \A n \in 1 .. Cardinality(S) : Ordered(S, R)[n] \in S
           /\ \A x \in S : \E n \in 1 .. Cardinality(S) : Ordered(S, R)[n] = x
           /\ \A i, j \in 1 .. Cardinality(S) :
                i < j => <<Ordered(S, R)[i], Ordered(S, R)[j]>> \in R
           /\ \A n \in 1 .. Cardinality(S) :
                Cardinality(Earlier(S, R, Ordered(S, R)[n])) = n - 1
<1>1. Cardinality(S) \in Nat
    BY FS_CardinalityType
<1>2. ASSUME NEW n \in 1 .. Cardinality(S)
      PROVE  /\ Ordered(S, R)[n] \in S
             /\ Cardinality(Earlier(S, R, Ordered(S, R)[n])) = n - 1
    <2>1. n - 1 \in 0 .. Cardinality(S) - 1
        BY <1>1
    <2>2. \E x \in S : Cardinality(Earlier(S, R, x)) = n - 1
        BY <2>1, CountsAreTaken
    <2>3. Ordered(S, R)[n] = CHOOSE x \in S : Cardinality(Earlier(S, R, x)) = n - 1
        BY DEF Ordered
    <2>4. QED
        BY <2>2, <2>3
<1>3. Ordered(S, R) \in [1 .. Cardinality(S) -> S]
    BY <1>2 DEF Ordered
<1>4. Ordered(S, R) \in Seq(S) /\ Len(Ordered(S, R)) = Cardinality(S)
    BY <1>1, <1>3
<1>5. ASSUME NEW x \in S
      PROVE  \E n \in 1 .. Cardinality(S) : Ordered(S, R)[n] = x
    <2>1. PICK n \in 1 .. Cardinality(S) : Cardinality(Earlier(S, R, x)) = n - 1
        <3>1. Cardinality(Earlier(S, R, x)) \in 0 .. Cardinality(S) - 1
            BY CountsAreTaken
        <3>2. /\ Cardinality(Earlier(S, R, x)) + 1 \in 1 .. Cardinality(S)
              /\ Cardinality(Earlier(S, R, x)) = (Cardinality(Earlier(S, R, x)) + 1) - 1
            BY <3>1, <1>1
        <3>3. QED
            BY <3>2
    <2>2. Cardinality(Earlier(S, R, Ordered(S, R)[n])) = Cardinality(Earlier(S, R, x))
        BY <2>1, <1>2
    <2>3. QED
        BY <2>2, <1>2, CountsAreTaken
<1>6. ASSUME NEW i \in 1 .. Cardinality(S), NEW j \in 1 .. Cardinality(S), i < j
      PROVE  <<Ordered(S, R)[i], Ordered(S, R)[j]>> \in R
    <2> DEFINE x == Ordered(S, R)[i]
               y == Ordered(S, R)[j]
    <2>1. x \in S /\ y \in S
        BY <1>2
    <2>2. Cardinality(Earlier(S, R, x)) < Cardinality(Earlier(S, R, y))
        BY <1>2, <1>6, <1>1
    <2> HIDE DEF x, y
    <2>3. Cardinality(Earlier(S, R, x)) \in Nat /\ Cardinality(Earlier(S, R, y)) \in Nat
        BY <2>1, <1>1, CountsAreTaken
    <2>4. x # y /\ ~ <<y, x>> \in R
        BY <2>1, <2>2, <2>3, FewerBeforeEarlier
    <2>5. <<x, y>> \in R
        BY <2>1, <2>4 DEF TotalOrder
    <2>6. QED
        BY <2>5 DEF x, y
<1>7. DOMAIN Ordered(S, R) = 1 .. Cardinality(S)
    BY DEF Ordered
<1>8. QED
    BY <1>1, <1>2, <1>4, <1>5, <1>6, <1>7

\* There is no other ascending sequence of all elements.
LEMMA OrderedUnique ==
    ASSUME NEW S, NEW R, IsFiniteSet(S), TotalOrder(R, S),
           NEW m \in Nat, NEW f \in [1 .. m -> S], Ascending(f, R),
           \A x \in S : \E i \in 1 .. m : f[i] = x
    PROVE  m = Cardinality(S) /\ f = Ordered(S, R)
<1>1. ASSUME NEW i \in 1 .. m, NEW j \in 1 .. m, f[i] = f[j]
      PROVE  i = j
    <2>1. f[i] \in S /\ <<f[i], f[i]>> \notin R
        BY DEF TotalOrder
    <2>2. ~ i < j /\ ~ j < i
        BY <2>1, <1>1 DEF Ascending
    <2>3. QED
        BY <2>2
<1>2. Cardinality(S) = m
    <2>1. f \in Bijection(1 .. m, S)
        BY <1>1 DEF Bijection, Injection, Surjection, IsInjective
    <2>2. QED
        BY <2>1, FS_CountingElements DEF ExistsBijection
<1>3. ASSUME NEW i \in 1 .. m
      PROVE  f[i] = Ordered(S, R)[i]
    <2> DEFINE T == Earlier(S, R, f[i])
               g == [j \in 1 .. i - 1 |-> f[j]]
    <2>1. i - 1 \in Nat
        OBVIOUS
    <2>2. ASSUME NEW j \in 1 .. i - 1
          PROVE  g[j] \in T
        BY DEF Earlier, Ascending
    <2>3. ASSUME NEW x \in T
          PROVE  \E j \in 1 .. i - 1 : g[j] = x
        <3>1. x \in S /\ <<x, f[i]>> \in R
            BY DEF Earlier
        <3>2. PICK j \in 1 .. m : f[j] = x
            BY <3>1
        <3>3. ~ i < j /\ i # j
            BY <3>1, <3>2 DEF TotalOrder, Ascending
        <3>4. j \in 1 .. i - 1
            BY <3>3
        <3>5. QED
            BY <3>2, <3>4
    <2>4. g \in Bijection(1 .. i - 1, T)
        <3>1. g \in [1 .. i - 1 -> T]
            BY <2>2
        <3>2. \A j, k \in 1 .. i - 1 : g[j] = g[k] => j = k
            BY <1>1
        <3>3. QED
            BY <3>1, <3>2, <2>3 DEF Bijection, Injection, Surjection, IsInjective
    <2>5. Cardinality(T) = i - 1
        BY <2>1, <2>4, FS_CountingElements DEF ExistsBijection
    <2>6. /\ Ordered(S, R)[i] \in S
          /\ Cardinality(Earlier(S, R, Ordered(S, R)[i])) = i - 1
        BY <1>2, OrderedListing
    <2>7. QED
        BY <2>5, <2>6, CountsAreTaken
<1>4. Ordered(S, R) = [i \in 1 .. m |-> Ordered(S, R)[i]]
    BY <1>2 DEF Ordered
<1>5. f = [i \in 1 .. m |-> f[i]]
    OBVIOUS
<1>6. QED
    BY <1>2, <1>3, <1>4, <1>5

\* What lies after the n-th element is the listing from there on.
LEMMA RestOfListing ==
    ASSUME NEW S, NEW R, IsFiniteSet(S), TotalOrder(R, S),
           NEW n \in 1 .. Cardinality(S)
    PROVE  LET T == {x \in S : <<Ordered(S, R)[n], x>> \in R}
           IN  /\ Cardinality(T) = Cardinality(S) - n
               /\ Ordered(T, R) = [i \in 1 .. Cardinality(S) - n |-> Ordered(S, R)[n + i]]
<1> DEFINE T == {x \in S : <<Ordered(S, R)[n], x>> \in R}
           m == Cardinality(S) - n
           f == [i \in 1 .. m |-> Ordered(S, R)[n + i]]
<1>1. /\ Cardinality(S) \in Nat
      /\ DOMAIN Ordered(S, R) = 1 .. Cardinality(S)
      /\ \A i \in 1 .. Cardinality(S) : Ordered(S, R)[i] \in S
      /\ \A i, j \in 1 .. Cardinality(S) : i < j => <<Ordered(S, R)[i], Ordered(S, R)[j]>> \in R
      /\ \A x \in S : \E i \in 1 .. Cardinality(S) : Ordered(S, R)[i] = x
    BY OrderedListing
<1>2. m \in Nat /\ \A i \in 1 .. m : n + i \in 1 .. Cardinality(S) /\ n < n + i
    BY <1>1
<1>3. f \in [1 .. m -> T]
    BY <1>1, <1>2
<1>4. Ascending(f, R)
    BY <1>1, <1>2 DEF Ascending
<1>5. ASSUME NEW x \in T
      PROVE  \E i \in 1 .. m : f[i] = x
    <2>1. PICK k \in 1 .. Cardinality(S) : Ordered(S, R)[k] = x
        BY <1>1
    <2>2. n < k
        <3>1. <<Ordered(S, R)[n], Ordered(S, R)[k]>> \in R
            BY <2>1
        <3>2. n # k /\ ~ k < n
            BY <1>1, <3>1 DEF TotalOrder
        <3>3. QED
            BY <3>2
    <2>3. k - n \in 1 .. m /\ n + (k - n) = k
        BY <1>1, <2>2
    <2>4. f[k - n] = x
        BY <2>1, <2>3
    <2>5. QED
        BY <2>3, <2>4
<1>6. IsFiniteSet(T) /\ TotalOrder(R, T)
    BY FS_Subset DEF TotalOrder
<1> HIDE DEF T, m, f
<1>7. m = Cardinality(T) /\ f = Ordered(T, R)
    BY <1>2, <1>3, <1>4, <1>5, <1>6, OrderedUnique
<1>8. QED
    BY <1>7 DEF T, m, f

-----------------------------------------------------------------------------
(* One answer                                                              *)

Holds(f, x) == \E i \in DOMAIN f : f[i] = x

\* shown is what an answer may show of rest: its first elements, and all of
\* them unless there are more.
Cut(shown, more, rest, R) ==
    /\ shown \in Seq(rest) /\ Ascending(shown, R)
    /\ more => /\ Len(shown) # 0
               /\ \A x \in rest : Holds(shown, x) \/ <<shown[Len(shown)], x>> \in R
    /\ ~more => \A x \in rest : Holds(shown, x)

\* The first elements of a listing, as many as an answer holds.
LEMMA LimitCuts ==
    ASSUME NEW S, NEW R, IsFiniteSet(S), TotalOrder(R, S), NEW limit \in Nat \ {0},
           NEW shown,
           shown = SubSeq(Ordered(S, R), 1, IF Cardinality(S) < limit THEN Cardinality(S)
                                            ELSE limit)
    PROVE  Cut(shown, Cardinality(S) > limit, S, R)
<1> DEFINE all == Ordered(S, R)
           m == IF Cardinality(S) < limit THEN Cardinality(S) ELSE limit
<1>1. /\ Cardinality(S) \in Nat
      /\ DOMAIN all = 1 .. Cardinality(S)
      /\ \A i \in 1 .. Cardinality(S) : all[i] \in S
      /\ \A i, j \in 1 .. Cardinality(S) : i < j => <<all[i], all[j]>> \in R
      /\ \A x \in S : \E i \in 1 .. Cardinality(S) : all[i] = x
      /\ all \in Seq(S) /\ Len(all) = Cardinality(S)
    BY OrderedListing
<1> HIDE DEF all
<1>2. /\ m \in Nat /\ 1 .. m \subseteq 1 .. Cardinality(S)
      /\ Cardinality(S) > limit => m = limit
      /\ ~ Cardinality(S) > limit => m = Cardinality(S)
    BY <1>1
<1> HIDE DEF m
<1>3. shown \in Seq(S) /\ Len(shown) = m /\ \A i \in 1 .. m : shown[i] = all[i]
    <2>1. shown = SubSeq(all, 1, m)
        BY DEF all, m
    <2>2. shown = [i \in 1 .. m |-> all[i]]
        BY <2>1, <1>1, <1>2
    <2>3. QED
        BY <2>2, <1>1, <1>2
<1>4. DOMAIN shown = 1 .. m
    BY <1>3
<1>5. Ascending(shown, R)
    BY <1>1, <1>2, <1>3, <1>4 DEF Ascending
<1>6. ASSUME Cardinality(S) > limit, NEW x \in S
      PROVE  Holds(shown, x) \/ <<shown[m], x>> \in R
    <2>1. PICK i \in 1 .. Cardinality(S) : all[i] = x
        BY <1>1
    <2>2. CASE i \in 1 .. m
        BY <2>1, <2>2, <1>3, <1>4 DEF Holds
    <2>3. CASE i \notin 1 .. m
        <3>1. m \in 1 .. m /\ m < i
            BY <2>3, <1>2, <1>6
        <3>2. QED
            BY <3>1, <2>1, <1>1, <1>2, <1>3
    <2>4. QED
        BY <2>2, <2>3
<1>7. ASSUME ~ Cardinality(S) > limit, NEW x \in S
      PROVE  Holds(shown, x)
    BY <1>1, <1>2, <1>3, <1>4, <1>7 DEF Holds
<1>8. QED
    BY <1>2, <1>3, <1>5, <1>6, <1>7 DEF Cut

LEMMA Concatenation ==
    ASSUME NEW K, NEW s \in Seq(K), NEW t \in Seq(K)
    PROVE  /\ s \o t \in Seq(K) /\ Len(s \o t) = Len(s) + Len(t)
           /\ \A i \in 1 .. Len(s) : (s \o t)[i] = s[i]
           /\ \A i \in 1 .. Len(t) : (s \o t)[Len(s) + i] = t[i]
OBVIOUS

\* An answer continues the walk: what was shown so far stays in order, and
\* what is left of the listing is still ahead.
LEMMA WalkGoesOn ==
    ASSUME NEW K, NEW R, TotalOrder(R, K),
           NEW got \in Seq(K), Ascending(got, R),
           NEW rest, rest \subseteq K,
           Len(got) # 0 => \A x \in rest : <<got[Len(got)], x>> \in R,
           NEW shown \in Seq(rest), Ascending(shown, R)
    PROVE  /\ got \o shown \in Seq(K)
           /\ Ascending(got \o shown, R)
           /\ \A x : Holds(got, x) \/ Holds(shown, x) => Holds(got \o shown, x)
           /\ Len(shown) # 0 =>
                      /\ Len(got \o shown) # 0
                      /\ shown[Len(shown)] = (got \o shown)[Len(got \o shown)]
                      /\ shown[Len(shown)] \in K
<1> DEFINE n == Len(got)
           m == Len(shown)
           both == got \o shown
<1>1. shown \in Seq(K) /\ shown \in Seq(rest)
    OBVIOUS
<1>2. /\ n \in Nat /\ m \in Nat /\ DOMAIN got = 1 .. n /\ DOMAIN shown = 1 .. m
      /\ both \in Seq(K) /\ Len(both) = n + m /\ DOMAIN both = 1 .. n + m
      /\ \A i \in 1 .. n : both[i] = got[i]
      /\ \A i \in 1 .. m : both[n + i] = shown[i]
    BY <1>1
<1>3. \A i \in 1 .. m : shown[i] \in rest
    BY <1>1
<1> HIDE DEF n, m, both
<1>4. \A i \in n + 1 .. n + m : i - n \in 1 .. m /\ both[i] = shown[i - n]
    <2>1. ASSUME NEW i \in n + 1 .. n + m
          PROVE  i - n \in 1 .. m /\ n + (i - n) = i
        BY <1>2
    <2>2. QED
        BY <2>1, <1>2
<1>5. ASSUME NEW i \in 1 .. n + m, NEW j \in 1 .. n + m, i < j
      PROVE  <<both[i], both[j]>> \in R
    <2>1. CASE j <= n
        <3>1. i \in DOMAIN got /\ j \in DOMAIN got
            BY <2>1, <1>2, <1>5
        <3>2. QED
            BY <3>1, <1>2, <1>5 DEF Ascending
    <2>2. CASE i > n
        <3>1. i \in n + 1 .. n + m /\ j \in n + 1 .. n + m /\ i - n < j - n
            BY <2>2, <1>2, <1>5
        <3>2. <<shown[i - n], shown[j - n]>> \in R
            BY <3>1, <1>2, <1>4 DEF Ascending
        <3>3. QED
            BY <3>1, <3>2, <1>4
    <2>3. CASE i <= n /\ j > n
        <3>1. j \in n + 1 .. n + m /\ i \in 1 .. n /\ n \in 1 .. n /\ n # 0
            BY <2>3, <1>2
        <3>2. both[j] \in rest
            BY <3>1, <1>3, <1>4
        <3>3. <<got[n], both[j]>> \in R
            BY <3>1, <3>2 DEF n
        <3>4. i = n \/ <<got[i], got[n]>> \in R
            <4>1. i \in DOMAIN got /\ n \in DOMAIN got /\ (i = n \/ i < n)
                BY <3>1, <1>2
            <4>2. QED
                BY <4>1 DEF Ascending
        <3>5. got[i] \in K /\ got[n] \in K /\ both[j] \in K
            BY <3>1, <3>2, <1>2
        <3>6. <<got[i], both[j]>> \in R
            BY <3>3, <3>4, <3>5 DEF TotalOrder
        <3>7. QED
            BY <3>1, <3>6, <1>2
    <2>4. QED
        BY <2>1, <2>2, <2>3, <1>2
<1>6. Ascending(both, R)
    BY <1>2, <1>5 DEF Ascending
<1>7. ASSUME NEW x, Holds(got, x) \/ Holds(shown, x)
      PROVE  Holds(both, x)
    <2>1. CASE Holds(got, x)
        <3>1. PICK i \in 1 .. n : got[i] = x
            BY <2>1, <1>2 DEF Holds
        <3>2. i \in 1 .. n + m
            BY <1>2
        <3>3. QED
            BY <3>1, <3>2, <1>2 DEF Holds
    <2>2. CASE Holds(shown, x)
        <3>1. PICK i \in 1 .. m : shown[i] = x
            BY <2>2, <1>2 DEF Holds
        <3>2. n + i \in 1 .. n + m
            BY <1>2
        <3>3. QED
            BY <3>1, <3>2, <1>2 DEF Holds
    <2>3. QED
        BY <1>7, <2>1, <2>2
<1>8. ASSUME m # 0
      PROVE  /\ Len(both) # 0 /\ shown[m] = both[Len(both)] /\ shown[m] \in K
    <2>1. m \in 1 .. m /\ n + m # 0
        BY <1>8, <1>2
    <2>2. QED
        BY <2>1, <1>2, <1>3
<1>9. QED
    BY <1>2, <1>6, <1>7, <1>8 DEF n, m, both

-----------------------------------------------------------------------------
(* Listings of Pages and Sections                                          *)

KeyOrder == {pair \in Keys \X Keys : Precedes(pair[1], pair[2])}

LEMMA KeysOrdered == TotalOrder(KeyOrder, Keys)
<1>1. \A x, y \in Keys : <<x, y>> \in KeyOrder <=> Precedes(x, y)
    BY DEF KeyOrder
<1>2. \A x \in Keys : x[1] \in Nat /\ x[2] \in Nat /\ x = <<x[1], x[2]>>
    BY DEF Keys
<1>3. \A x \in Keys : ~ Precedes(x, x)
    BY <1>2 DEF Precedes
<1>4. \A x, y, z \in Keys : Precedes(x, y) /\ Precedes(y, z) => Precedes(x, z)
    BY <1>2 DEF Precedes
<1>5. \A x, y \in Keys : x = y \/ Precedes(x, y) \/ Precedes(y, x)
    BY <1>2 DEF Precedes
<1>6. QED
    BY <1>1, <1>3, <1>4, <1>5 DEF TotalOrder

\* The model's listing is the listing in this order.
LEMMA InOrderIsOrdered ==
    ASSUME NEW S, S \subseteq Keys, IsFiniteSet(S)
    PROVE  TotalOrder(KeyOrder, S) /\ InOrder(S) = Ordered(S, KeyOrder)
<1>1. TotalOrder(KeyOrder, S)
    BY KeysOrdered DEF TotalOrder
<1>2. ASSUME NEW i \in S
      PROVE  {j \in S : Precedes(j, i)} = Earlier(S, KeyOrder, i)
    BY DEF Earlier, KeyOrder
<1>3. ASSUME NEW n \in 1 .. Cardinality(S)
      PROVE  (CHOOSE i \in S : Cardinality({j \in S : Precedes(j, i)}) = n - 1)
             = Ordered(S, KeyOrder)[n]
    <2> DEFINE c == CHOOSE i \in S : Cardinality({j \in S : Precedes(j, i)}) = n - 1
    <2>1. /\ Ordered(S, KeyOrder)[n] \in S
          /\ Cardinality(Earlier(S, KeyOrder, Ordered(S, KeyOrder)[n])) = n - 1
        BY <1>1, OrderedListing
    <2>2. \E i \in S : Cardinality({j \in S : Precedes(j, i)}) = n - 1
        BY <2>1, <1>2
    <2>3. c \in S /\ Cardinality({j \in S : Precedes(j, c)}) = n - 1
        BY <2>2
    <2> HIDE DEF c
    <2>4. Cardinality(Earlier(S, KeyOrder, c)) = n - 1
        BY <2>3, <1>2
    <2>5. c = Ordered(S, KeyOrder)[n]
        BY <1>1, <2>1, <2>3, <2>4, CountsAreTaken
    <2>6. QED
        BY <2>5 DEF c
<1>4. InOrder(S) = [n \in 1 .. Cardinality(S) |-> Ordered(S, KeyOrder)[n]]
    BY <1>3 DEF InOrder
<1>5. Ordered(S, KeyOrder) = [n \in 1 .. Cardinality(S) |-> Ordered(S, KeyOrder)[n]]
    BY DEF Ordered
<1>6. QED
    BY <1>1, <1>4, <1>5

PageRows == [place: Sections, occurred: Nat, deleted: Nat, rev: Nat, match: BOOLEAN]

Ranked == Keys \X Nat \X Sections

RetrievalTypes ==
    /\ rows \in [Pages -> {Absent} \cup PageRows]
    /\ mode \in {"legacy", "library"}
    /\ queryable \in SUBSET Sections /\ readable \in BOOLEAN
    /\ version \in Nat
    /\ request \in {NoCursor} \cup [version: Nat]
    /\ pass \in [route: Routes, limit: Limits,
                 status: {"fresh", "open", "complete", "refused"},
                 cursor: {NoCursor} \cup [binding: Bindings, key: Keys],
                 got: Seq(Keys), stayed: SUBSET Keys, first: Seq(Ranked)]

\* What the walk's listing holds now.
Present == Items(pass.route, pass.limit)

\* The image of a finite set.
LEMMA ImageFinite ==
    ASSUME NEW X, IsFiniteSet(X), NEW f, DOMAIN f = X
    PROVE  IsFiniteSet({f[x] : x \in X})
<1> DEFINE T == {f[x] : x \in X}
           g == [x \in X |-> f[x]]
<1>1. g \in Surjection(X, T)
    BY DEF Surjection
<1>2. QED
    BY <1>1, FS_Surjection

\* Every listing is a finite set of keys.
LEMMA ListingsFinite ==
    ASSUME RetrievalTypes, NEW route \in Routes, NEW n \in Nat
    PROVE  Items(route, n) \subseteq Keys /\ IsFiniteSet(Items(route, n))
<1>1. /\ Pages \subseteq Nat /\ Sections \subseteq Nat
      /\ IsFiniteSet(Pages) /\ IsFiniteSet(Sections) /\ Watched \in Pages
    BY RetrievalConstants
<1>2. \A p \in Pages : rows[p] # Absent => rows[p] \in PageRows
    BY DEF RetrievalTypes
<1>3. \A p \in Pages : rows[p] # Absent =>
        rows[p].occurred \in Nat /\ rows[p].deleted \in Nat /\ rows[p].rev \in Nat
    BY <1>2 DEF PageRows
<1>4. SectionItems \subseteq Keys /\ IsFiniteSet(SectionItems)
    <2> DEFINE X == IF mode = "legacy" THEN queryable ELSE Sections
               f == [s \in X |-> <<0, s>>]
    <2>1. X \subseteq Sections
        BY DEF RetrievalTypes
    <2>2. SectionItems = {<<0, s>> : s \in X}
        BY DEF SectionItems
    <2> HIDE DEF X
    <2>3. IsFiniteSet(X)
        BY <1>1, <2>1, FS_Subset
    <2>4. IsFiniteSet({f[s] : s \in X})
        BY <2>3, ImageFinite
    <2>5. SectionItems \subseteq Keys /\ SectionItems = {f[s] : s \in X}
        BY <1>1, <2>1, <2>2 DEF Keys
    <2>6. QED
        BY <2>4, <2>5
<1>5. PageItems \subseteq Keys /\ IsFiniteSet(PageItems)
    <2> DEFINE X == {q \in Pages : InHere(q)}
               f == [p \in X |-> <<0, p>>]
    <2>1. X \subseteq Pages /\ IsFiniteSet(X)
        BY <1>1, FS_Subset
    <2>2. IsFiniteSet({f[p] : p \in X})
        BY <2>1, ImageFinite
    <2>3. PageItems = {f[p] : p \in X}
        BY DEF PageItems
    <2>4. PageItems \subseteq Keys
        BY <1>1 DEF PageItems, Keys
    <2>5. QED
        BY <2>2, <2>3, <2>4
<1>6. BookItems \subseteq Keys /\ IsFiniteSet(BookItems)
    <2> DEFINE X == {q \in Pages : InHere(q)}
               f == [p \in X |-> <<rows[p].occurred, p>>]
    <2>1. X \subseteq Pages /\ IsFiniteSet(X)
        BY <1>1, FS_Subset
    <2>2. IsFiniteSet({f[p] : p \in X})
        BY <2>1, ImageFinite
    <2>3. BookItems = {f[p] : p \in X}
        BY DEF BookItems
    <2>4. BookItems \subseteq Keys
        BY <1>1, <1>3 DEF BookItems, Keys, InHere, IsLive
    <2>5. QED
        BY <2>2, <2>3, <2>4
<1>7. TrashItems \subseteq Keys /\ IsFiniteSet(TrashItems)
    <2> DEFINE X == {q \in Pages : rows[q] # Absent /\ ~IsLive(q)}
               f == [p \in X |-> <<rows[p].deleted, p>>]
    <2>1. X \subseteq Pages /\ IsFiniteSet(X)
        BY <1>1, FS_Subset
    <2>2. IsFiniteSet({f[p] : p \in X})
        BY <2>1, ImageFinite
    <2>3. TrashItems = {f[p] : p \in X}
        BY DEF TrashItems
    <2>4. TrashItems \subseteq Keys
        BY <1>1, <1>3 DEF TrashItems, Keys
    <2>5. QED
        BY <2>2, <2>3, <2>4
<1>8. SearchItems \subseteq Keys /\ IsFiniteSet(SearchItems)
    <2> DEFINE X == {q \in SearchScope : rows[q].match}
               f == [p \in X |-> <<rows[p].occurred, p>>]
    <2>1. X \subseteq Pages /\ IsFiniteSet(X)
        BY <1>1, FS_Subset DEF SearchScope
    <2>2. IsFiniteSet({f[p] : p \in X})
        BY <2>1, ImageFinite
    <2>3. SearchItems = {f[p] : p \in X}
        BY DEF SearchItems
    <2>4. SearchItems \subseteq Keys
        BY <1>1, <1>3 DEF SearchItems, SearchScope, Keys, IsLive
    <2>5. QED
        BY <2>2, <2>3, <2>4
<1>9. /\ HistoryItems \subseteq Keys /\ IsFiniteSet(HistoryItems)
      /\ PreviewItems \subseteq Keys /\ IsFiniteSet(PreviewItems)
    <2> DEFINE X == 1 .. rows[Watched].rev
               f == [i \in X |-> <<i, 0>>]
               all == {<<i, 0>> : i \in X}
    <2>1. HistoryItems \in {{}, all} /\ PreviewItems \in {{}, all}
        BY DEF HistoryItems, PreviewItems
    <2>2. CASE rows[Watched] = Absent
        <3>1. HistoryItems = {} /\ PreviewItems = {}
            BY <2>2 DEF HistoryItems, PreviewItems, InHere, IsLive
        <3>2. QED
            BY <3>1, FS_EmptySet
    <2>3. CASE rows[Watched] # Absent
        <3>1. rows[Watched].rev \in Nat
            BY <2>3, <1>1, <1>3
        <3>2. IsFiniteSet(X)
            BY <3>1, FS_Interval
        <3>3. IsFiniteSet({f[i] : i \in X})
            BY <3>2, ImageFinite
        <3>4. all = {f[i] : i \in X}
            OBVIOUS
        <3>5. all \subseteq Keys
            BY <3>1 DEF Keys
        <3>6. QED
            BY <2>1, <3>3, <3>4, <3>5, FS_EmptySet
    <2>4. QED
        BY <2>2, <2>3
<1>10. /\ CurrentItems \subseteq Keys /\ IsFiniteSet(CurrentItems)
       /\ LocatedItems \subseteq Keys /\ IsFiniteSet(LocatedItems)
       /\ RevisionItems(n) \subseteq Keys /\ IsFiniteSet(RevisionItems(n))
       /\ FileItems(n) \subseteq Keys /\ IsFiniteSet(FileItems(n))
    <2>1. \A x : IsFiniteSet({x}) /\ IsFiniteSet({})
        BY FS_Singleton, FS_EmptySet
    <2>2. /\ CurrentItems \in {{}, {<<rows[Watched].rev, Watched>>}}
          /\ LocatedItems \in {{}, {<<rows[Watched].rev, Watched>>}}
          /\ RevisionItems(n) \in {{}, {<<n, Watched>>}}
          /\ FileItems(n) \in {{}, {<<n, Watched>>}}
        BY DEF CurrentItems, LocatedItems, RevisionItems, FileItems
    <2>3. rows[Watched] = Absent => CurrentItems = {} /\ LocatedItems = {}
        BY DEF CurrentItems, LocatedItems, InHere, IsLive
    <2>4. rows[Watched] # Absent => <<rows[Watched].rev, Watched>> \in Keys
        BY <1>1, <1>3 DEF Keys
    <2>5. <<n, Watched>> \in Keys
        BY <1>1 DEF Keys
    <2>6. QED
        BY <2>1, <2>2, <2>3, <2>4, <2>5
<1>11. route \in {"sections", "pages", "library", "search", "book", "trash", "history",
                  "preview", "current", "locate", "revision", "file"}
    BY RetrievalConstants
<1>12. QED
    BY <1>4, <1>5, <1>6, <1>7, <1>8, <1>9, <1>10, <1>11 DEF Items

-----------------------------------------------------------------------------
(* A walk through a listing                                                *)

\* The routes whose answer is one entry at most, without a cursor.
Single == {"current", "locate", "revision", "file"}

\* The routes whose cursor is the bare last key.
Bare == Console \cup {"history"}

\* Where the walk stands: what was shown is in order, and what has stayed in
\* the listing was shown or lies beyond the cursor.
WalkOK ==
    /\ Ascending(pass.got, KeyOrder)
    /\ pass.status = "fresh" => pass.cursor = NoCursor /\ pass.got = << >>
    /\ pass.status = "open" =>
        /\ pass.cursor # NoCursor
        /\ Len(pass.got) # 0 /\ pass.cursor.key = pass.got[Len(pass.got)]
        /\ pass.stayed \subseteq Present
        /\ \A x \in pass.stayed : Holds(pass.got, x) \/ <<pass.cursor.key, x>> \in KeyOrder
        /\ pass.route \notin Single
        /\ pass.route \in Bare => pass.cursor.binding = NoCursor
    /\ pass.status = "complete" => \A x \in pass.stayed : Holds(pass.got, x)

\* A search shows the beginning of the ranking of its first answer, and its
\* cursor is bound to that ranking.
SearchOK ==
    pass.route = "search" /\ pass.status \in {"open", "complete"} =>
        /\ Len(pass.got) <= Len(pass.first)
        /\ \A i \in 1 .. Len(pass.got) : pass.got[i] = pass.first[i][1]
        /\ pass.status = "open" => pass.cursor.binding \in [version: Nat, limit: Limits,
                grants: (SUBSET Sections) \X BOOLEAN, ranking: {pass.first}]
        /\ pass.status = "complete" => Len(pass.got) = Len(pass.first)

\* The inductive invariant of a walk.
RetrievalInv == RetrievalTypes /\ WalkOK /\ SearchOK

\* The ranking has one entry per result.
LEMMA RankingListsResults ==
    ASSUME RetrievalTypes
    PROVE  /\ SearchItems \subseteq Keys /\ IsFiniteSet(SearchItems)
           /\ Cardinality(SearchItems) \in Nat
           /\ Ranking \in Seq(Ranked) /\ Len(Ranking) = Cardinality(SearchItems)
           /\ \A i \in 1 .. Cardinality(SearchItems) :
                Ranking[i][1] = Ordered(SearchItems, KeyOrder)[i]
<1> DEFINE N == Cardinality(SearchItems)
           all == Ordered(SearchItems, KeyOrder)
<1>1. SearchItems \subseteq Keys /\ IsFiniteSet(SearchItems)
    <2> DEFINE X == {q \in SearchScope : rows[q].match}
               f == [p \in X |-> <<rows[p].occurred, p>>]
    <2>1. Pages \subseteq Nat /\ IsFiniteSet(Pages)
        BY RetrievalConstants
    <2>2. X \subseteq Pages /\ IsFiniteSet(X)
        BY <2>1, FS_Subset DEF SearchScope
    <2>3. IsFiniteSet({f[p] : p \in X})
        BY <2>2, ImageFinite
    <2>4. SearchItems = {f[p] : p \in X}
        BY DEF SearchItems
    <2>5. SearchItems \subseteq Keys
        BY <2>1 DEF SearchItems, SearchScope, Keys, IsLive, RetrievalTypes, PageRows
    <2>6. QED
        BY <2>3, <2>4, <2>5
<1>2. InOrder(SearchItems) = all /\ TotalOrder(KeyOrder, SearchItems)
    BY <1>1, InOrderIsOrdered
<1>3. N \in Nat /\ \A i \in 1 .. N : all[i] \in SearchItems
    BY <1>1, <1>2, OrderedListing
<1>4. \A x \in SearchItems : /\ x \in Keys /\ rows[x[2]].rev \in Nat
                             /\ rows[x[2]].place \in Sections
    <2>1. \A q \in SearchScope : rows[q] \in PageRows
        BY DEF SearchScope, IsLive, RetrievalTypes
    <2>2. \A x \in SearchItems : x[2] \in SearchScope
        BY DEF SearchItems
    <2>3. QED
        BY <1>1, <2>1, <2>2 DEF PageRows
<1>5. Ranking = [i \in 1 .. N |-> <<all[i], rows[all[i][2]].rev, rows[all[i][2]].place>>]
    BY <1>2 DEF Ranking
<1> HIDE DEF N, all
<1>6. /\ Ranking \in [1 .. N -> Ranked]
      /\ \A i \in 1 .. N : Ranking[i][1] = all[i]
    BY <1>3, <1>4, <1>5 DEF Ranked
<1>7. Ranking \in Seq(Ranked) /\ Len(Ranking) = N
    BY <1>3, <1>6
<1>8. QED
    BY <1>1, <1>3, <1>6, <1>7 DEF N, all

\* A read transaction leaves the listing as it is.
LEMMA PresentSame ==
    ASSUME ReadOnly, pass'.route = pass.route, pass'.limit = pass.limit
    PROVE  Present' = Present
<1>1. /\ SectionItems' = SectionItems /\ PageItems' = PageItems /\ BookItems' = BookItems
      /\ TrashItems' = TrashItems /\ SearchItems' = SearchItems
      /\ HistoryItems' = HistoryItems /\ PreviewItems' = PreviewItems
      /\ CurrentItems' = CurrentItems /\ LocatedItems' = LocatedItems
    BY DEF ReadOnly, SectionItems, PageItems, BookItems, TrashItems, SearchItems, HistoryItems,
           PreviewItems, CurrentItems, LocatedItems, InHere, IsLive, SearchScope
<1>2. /\ RevisionItems(pass.limit)' = RevisionItems(pass.limit)
      /\ FileItems(pass.limit)' = FileItems(pass.limit)
    BY DEF ReadOnly, RevisionItems, FileItems, InHere, IsLive, Verified
<1>3. QED
    BY <1>1, <1>2 DEF Present, Items

\* What the reader asks for next, and where the answer starts.
After == IF pass.status = "fresh" THEN NoCursor ELSE pass.cursor.key

LEMMA PresentFinite ==
    ASSUME RetrievalTypes
    PROVE  Present \subseteq Keys /\ IsFiniteSet(Present)
<1>1. pass.route \in Routes /\ pass.limit \in Nat
    BY RetrievalConstants DEF RetrievalTypes
<1>2. QED
    BY <1>1, ListingsFinite DEF Present

\* What an answer leaves of the walk.
LEMMA AnswerFields ==
    ASSUME RetrievalTypes, NEW items, NEW after, NEW limit, NEW binding,
           Answer(items, after, limit, binding)
    PROVE  LET shown == Shown(items, after, limit)
               more == More(items, after, limit)
           IN  /\ pass'.route = pass.route /\ pass'.limit = pass.limit
               /\ pass'.got = pass.got \o shown
               /\ pass'.status = IF more THEN "open" ELSE "complete"
               /\ pass'.cursor = IF more THEN [binding |-> binding, key |-> shown[Len(shown)]]
                                 ELSE NoCursor
               /\ pass'.stayed = IF pass.status = "fresh" THEN items ELSE pass.stayed
               /\ pass'.first = IF pass.status = "fresh" THEN Ranking ELSE pass.first
               /\ DOMAIN pass' = DOMAIN pass
               /\ pass' = [route |-> pass'.route, limit |-> pass'.limit,
                           status |-> pass'.status, cursor |-> pass'.cursor,
                           got |-> pass'.got, stayed |-> pass'.stayed, first |-> pass'.first]
BY DEF Answer, Encode, RetrievalTypes

\* An answer is a cut of what lies beyond the cursor.
LEMMA AnswerCuts ==
    ASSUME RetrievalTypes, NEW after, NEW limit \in Nat \ {0}
    PROVE  LET rest == {i \in Present : Beyond(after, i)}
           IN  /\ Cardinality(rest) \in Nat
               /\ Shown(Present, after, limit) =
                    SubSeq(Ordered(rest, KeyOrder), 1,
                           IF Cardinality(rest) < limit THEN Cardinality(rest) ELSE limit)
               /\ Cut(Shown(Present, after, limit), More(Present, after, limit), rest, KeyOrder)
<1> DEFINE rest == {i \in Present : Beyond(after, i)}
<1>1. rest \subseteq Keys /\ IsFiniteSet(rest)
    BY PresentFinite, FS_Subset
<1>2. More(Present, after, limit) = (Cardinality(rest) > limit)
    BY DEF More
<1>3. Shown(Present, after, limit) =
        SubSeq(InOrder(rest), 1, IF Len(InOrder(rest)) < limit THEN Len(InOrder(rest)) ELSE limit)
    BY DEF Shown
<1> HIDE DEF rest
<1>4. TotalOrder(KeyOrder, rest) /\ InOrder(rest) = Ordered(rest, KeyOrder)
    BY <1>1, InOrderIsOrdered
<1>5. Len(InOrder(rest)) = Cardinality(rest) /\ Cardinality(rest) \in Nat
    BY <1>1, <1>4, OrderedListing
<1>6. Shown(Present, after, limit) =
        SubSeq(Ordered(rest, KeyOrder), 1,
               IF Cardinality(rest) < limit THEN Cardinality(rest) ELSE limit)
    BY <1>3, <1>4, <1>5
<1>7. Cut(Shown(Present, after, limit), Cardinality(rest) > limit, rest, KeyOrder)
    BY <1>1, <1>4, <1>6, LimitCuts
<1>8. QED
    BY <1>2, <1>5, <1>6, <1>7 DEF rest

\* An answer to a request that starts where the walk stands.
LEMMA AnswerKeepsWalk ==
    ASSUME RetrievalInv, pass.status \in {"fresh", "open"},
           NEW limit \in Nat \ {0}, NEW binding \in Bindings,
           pass.route \in Bare => binding = NoCursor,
           pass.route \in Single => limit = 1 /\ Cardinality(Present) <= 1,
           NEW after, after = After,
           Answer(Present, after, limit, binding), ReadOnly
    PROVE  RetrievalTypes' /\ WalkOK'
<1> DEFINE rest == {i \in Present : Beyond(after, i)}
           shown == Shown(Present, after, limit)
           more == More(Present, after, limit)
<1>1. RetrievalTypes /\ WalkOK
    BY DEF RetrievalInv
<1>2. Present \subseteq Keys /\ IsFiniteSet(Present)
    BY <1>1, PresentFinite
<1>3. /\ pass'.route = pass.route /\ pass'.limit = pass.limit
      /\ pass'.got = pass.got \o shown
      /\ pass'.status = IF more THEN "open" ELSE "complete"
      /\ pass'.cursor = IF more THEN [binding |-> binding, key |-> shown[Len(shown)]]
                        ELSE NoCursor
      /\ pass'.stayed = IF pass.status = "fresh" THEN Present ELSE pass.stayed
      /\ pass'.first = IF pass.status = "fresh" THEN Ranking ELSE pass.first
      /\ pass' = [route |-> pass'.route, limit |-> pass'.limit,
                  status |-> pass'.status, cursor |-> pass'.cursor,
                  got |-> pass'.got, stayed |-> pass'.stayed, first |-> pass'.first]
    BY <1>1, AnswerFields
<1>4. Cut(shown, more, rest, KeyOrder)
    BY <1>1, AnswerCuts
<1>5. Present' = Present
    BY <1>3, PresentSame
<1>6. /\ pass.route \in Routes /\ pass.limit \in Limits /\ pass.got \in Seq(Keys)
      /\ pass.stayed \subseteq Keys /\ pass.first \in Seq(Ranked)
      /\ pass.cursor # NoCursor => pass.cursor \in [binding: Bindings, key: Keys]
    BY <1>1 DEF RetrievalTypes
<1>7. /\ pass.status = "fresh" => Len(pass.got) = 0 /\ rest = Present
      /\ Len(pass.got) # 0 => \A x \in rest : <<pass.got[Len(pass.got)], x>> \in KeyOrder
      /\ \A x \in pass'.stayed : x \in Present /\ (Holds(pass.got, x) \/ x \in rest)
    <2>1. CASE pass.status = "fresh"
        <3>1. after = NoCursor /\ pass.got = << >>
            BY <1>1, <2>1 DEF WalkOK, After
        <3>2. rest = Present
            BY <3>1 DEF Beyond
        <3>3. pass'.stayed = Present
            BY <1>3, <2>1
        <3>4. QED
            BY <3>1, <3>2, <3>3, <2>1
    <2>2. CASE pass.status = "open"
        <3>1. /\ after = pass.cursor.key /\ after = pass.got[Len(pass.got)] /\ after \in Keys
              /\ Len(pass.got) # 0
            BY <1>1, <1>6, <2>2 DEF WalkOK, After
        <3>2. after # NoCursor
            BY <3>1, NoCursorAssumption
        <3>3. \A x \in Present : x \in rest <=> <<after, x>> \in KeyOrder
            BY <1>2, <3>1, <3>2 DEF Beyond, KeyOrder
        <3>4. pass'.stayed = pass.stayed
            BY <1>3, <2>2
        <3>5. \A x \in pass.stayed : x \in Present
                 /\ (Holds(pass.got, x) \/ <<pass.cursor.key, x>> \in KeyOrder)
            BY <1>1, <2>2 DEF WalkOK
        <3>6. QED
            BY <2>2, <3>1, <3>3, <3>4, <3>5
    <2>3. QED
        BY <2>1, <2>2
<1>8. /\ pass'.got \in Seq(Keys) /\ Ascending(pass'.got, KeyOrder)
      /\ \A x : Holds(pass.got, x) \/ Holds(shown, x) => Holds(pass'.got, x)
      /\ more => /\ Len(pass'.got) # 0 /\ shown[Len(shown)] = pass'.got[Len(pass'.got)]
                 /\ shown[Len(shown)] \in Keys
    <2>1. Ascending(pass.got, KeyOrder) /\ rest \subseteq Keys
        BY <1>1, <1>2 DEF WalkOK
    <2>2. /\ pass.got \in Seq(Keys)
          /\ Len(pass.got) # 0 => \A x \in rest : <<pass.got[Len(pass.got)], x>> \in KeyOrder
        BY <1>6, <1>7
    <2> DEFINE got == pass.got
    <2> HIDE DEF rest, shown, more, got
    <2>3. /\ got \o shown \in Seq(Keys) /\ Ascending(got \o shown, KeyOrder)
          /\ \A x : Holds(got, x) \/ Holds(shown, x) => Holds(got \o shown, x)
          /\ Len(shown) # 0 =>
                     /\ Len(got \o shown) # 0
                     /\ shown[Len(shown)] = (got \o shown)[Len(got \o shown)]
                     /\ shown[Len(shown)] \in Keys
        <3>1. /\ got \in Seq(Keys) /\ Ascending(got, KeyOrder)
              /\ Len(got) # 0 => \A x \in rest : <<got[Len(got)], x>> \in KeyOrder
            BY <2>1, <2>2 DEF got
        <3>2. shown \in Seq(rest) /\ Ascending(shown, KeyOrder)
            BY <1>4 DEF Cut
        <3>3. QED
            BY <2>1, <3>1, <3>2, KeysOrdered, WalkGoesOn
    <2>4. more => Len(shown) # 0
        BY <1>4 DEF Cut
    <2>5. QED
        BY <2>3, <2>4, <1>3 DEF got
<1>9. more => pass'.cursor \in [binding: Bindings, key: Keys] /\ pass'.cursor # NoCursor
    BY <1>3, <1>8, NoCursorAssumption
<1>10. pass.route \in Single => ~more
    <2>1. ASSUME pass.route \in Single
          PROVE  ~more
        <3>1. pass.status = "fresh"
            BY <1>1, <2>1 DEF WalkOK
        <3>2. rest = Present /\ Cardinality(Present) <= 1 /\ Cardinality(Present) \in Nat
            BY <1>2, <1>7, <2>1, <3>1, FS_CardinalityType
        <3>3. more <=> Cardinality(rest) > limit
            BY DEF More
        <3> HIDE DEF rest, more
        <3>4. QED
            BY <2>1, <3>2, <3>3
    <2>2. QED
        BY <2>1
<1> HIDE DEF rest, shown, more
<1>11. RetrievalTypes'
    <2>1. pass'.stayed \subseteq Keys
        BY <1>2, <1>3, <1>6
    <2>2. pass'.first \in Seq(Ranked)
        BY <1>1, <1>3, <1>6, RankingListsResults
    <2>3. pass'.status \in {"open", "complete"} /\ pass'.cursor \in {NoCursor} \cup [binding: Bindings, key: Keys]
        BY <1>3, <1>9
    <2>4. pass' \in [route: Routes, limit: Limits,
                 status: {"fresh", "open", "complete", "refused"},
                 cursor: {NoCursor} \cup [binding: Bindings, key: Keys],
                 got: Seq(Keys), stayed: SUBSET Keys, first: Seq(Ranked)]
        BY <1>3, <1>6, <1>8, <2>1, <2>2, <2>3
    <2>5. request' = NoCursor
        BY DEF Answer
    <2>6. QED
        BY <1>1, <2>4, <2>5 DEF RetrievalTypes, ReadOnly
<1>12. WalkOK'
    <2>1. ASSUME more
          PROVE  /\ pass'.cursor # NoCursor
                 /\ Len(pass'.got) # 0 /\ pass'.cursor.key = pass'.got[Len(pass'.got)]
                 /\ pass'.stayed \subseteq Present'
                 /\ \A x \in pass'.stayed :
                        Holds(pass'.got, x) \/ <<pass'.cursor.key, x>> \in KeyOrder
                 /\ pass'.route \notin Single
                 /\ pass'.route \in Bare => pass'.cursor.binding = NoCursor
        <3>1. pass'.cursor = [binding |-> binding, key |-> shown[Len(shown)]]
            BY <1>3, <2>1
        <3>2. \A x \in rest : Holds(shown, x) \/ <<shown[Len(shown)], x>> \in KeyOrder
            BY <1>4, <2>1 DEF Cut
        <3>3. pass'.cursor.key = shown[Len(shown)] /\ pass'.cursor.binding = binding
            BY <3>1
        <3>4. \A x \in pass'.stayed :
                Holds(pass'.got, x) \/ <<pass'.cursor.key, x>> \in KeyOrder
            BY <1>7, <1>8, <3>2, <3>3
        <3>5. QED
            BY <1>3, <1>5, <1>7, <1>8, <1>9, <1>10, <2>1, <3>3, <3>4
    <2>2. ASSUME ~more, NEW x \in pass'.stayed
          PROVE  Holds(pass'.got, x)
        <3>1. \A y \in rest : Holds(shown, y)
            BY <1>4, <2>2 DEF Cut
        <3>2. QED
            BY <1>7, <1>8, <2>2, <3>1
    <2>3. /\ pass'.status \in {"open", "complete"}
          /\ pass'.status = "open" <=> more
        BY <1>3
    <2>4. QED
        BY <1>8, <2>1, <2>2, <2>3 DEF WalkOK
<1>13. QED
    BY <1>11, <1>12

\* A search answer continues the ranking of the first one.
LEMMA AnswerKeepsRanking ==
    ASSUME RetrievalInv, pass.status \in {"fresh", "open"}, pass.route = "search",
           NEW limit \in Nat \ {0}, NEW after, after = After,
           pass.status = "open" => pass.cursor.binding = SearchBinding(limit),
           Answer(Present, after, limit, SearchBinding(limit)), ReadOnly,
           limit \in Limits
    PROVE  SearchOK'
<1> DEFINE N == Cardinality(SearchItems)
           all == Ordered(SearchItems, KeyOrder)
           n == Len(pass.got)
           rest == {i \in Present : Beyond(after, i)}
           shown == Shown(Present, after, limit)
           more == More(Present, after, limit)
           m == IF Cardinality(rest) < limit THEN Cardinality(rest) ELSE limit
<1>1. RetrievalTypes /\ WalkOK /\ SearchOK
    BY DEF RetrievalInv
<1>2. Present = SearchItems
    BY DEF Present, Items
<1>3. /\ SearchItems \subseteq Keys /\ IsFiniteSet(SearchItems) /\ N \in Nat
      /\ TotalOrder(KeyOrder, SearchItems)
      /\ Ranking \in Seq(Ranked) /\ Len(Ranking) = N
      /\ \A i \in 1 .. N : Ranking[i][1] = all[i]
    BY <1>1, RankingListsResults, InOrderIsOrdered
<1>4. /\ all \in Seq(SearchItems) /\ Len(all) = N /\ DOMAIN all = 1 .. N
      /\ \A i \in 1 .. N : all[i] \in SearchItems
    BY <1>3, OrderedListing
<1>5. /\ pass'.route = pass.route /\ pass'.limit = pass.limit
      /\ pass'.got = pass.got \o shown
      /\ pass'.status = IF more THEN "open" ELSE "complete"
      /\ pass'.cursor = IF more THEN [binding |-> SearchBinding(limit), key |-> shown[Len(shown)]]
                        ELSE NoCursor
      /\ pass'.first = IF pass.status = "fresh" THEN Ranking ELSE pass.first
    BY <1>1, AnswerFields
<1>6. /\ Cardinality(rest) \in Nat
      /\ shown = SubSeq(Ordered(rest, KeyOrder), 1, m)
      /\ more <=> Cardinality(rest) > limit
    BY <1>1, AnswerCuts DEF More
<1>7. pass.got \in Seq(Keys) /\ n \in Nat
    BY <1>1 DEF RetrievalTypes
<1>8. /\ n <= N /\ pass'.first = Ranking
      /\ \A i \in 1 .. n : pass.got[i] = all[i]
      /\ Cardinality(rest) = N - n
      /\ Ordered(rest, KeyOrder) = [i \in 1 .. N - n |-> all[n + i]]
    <2>1. CASE pass.status = "fresh"
        <3>1. after = NoCursor /\ pass.got = << >> /\ n = 0
            BY <1>1, <2>1 DEF WalkOK, After
        <3>2. rest = SearchItems
            BY <1>2, <3>1 DEF Beyond
        <3>3. all = [i \in 1 .. N |-> all[i]]
            BY DEF Ordered
        <3> HIDE DEF n, m, shown, more
        <3>4. Ordered(rest, KeyOrder) = all /\ Cardinality(rest) = N
            BY <3>2
        <3> HIDE DEF rest, all, N
        <3>5. \A i \in 1 .. N - n : n + i = i
            BY <3>1, <1>3
        <3>6. pass'.first = Ranking
            BY <1>5, <2>1
        <3>7. N - n = N /\ Ordered(rest, KeyOrder) = [i \in 1 .. N - n |-> all[n + i]]
            BY <1>3, <3>1, <3>4, <3>3, <3>5
        <3>8. QED
            BY <1>3, <3>1, <3>4, <3>6, <3>7
    <2>2. CASE pass.status = "open"
        <3>1. /\ n <= Len(pass.first) /\ n # 0
              /\ \A i \in 1 .. n : pass.got[i] = pass.first[i][1]
              /\ pass.cursor.binding \in [version: Nat, limit: Limits,
                    grants: (SUBSET Sections) \X BOOLEAN, ranking: {pass.first}]
              /\ after = pass.cursor.key /\ after = pass.got[n]
              /\ pass.cursor \in [binding: Bindings, key: Keys]
            BY <1>1, <2>2 DEF SearchOK, WalkOK, After, RetrievalTypes
        <3>2. pass.cursor.binding.ranking = pass.first /\ pass.cursor.binding = SearchBinding(limit)
            BY <3>1, <2>2
        <3>3. pass.first = Ranking
            BY <3>2 DEF SearchBinding
        <3>4. n <= N /\ n \in 1 .. N /\ \A i \in 1 .. n : pass.got[i] = all[i]
            BY <3>1, <3>3, <1>3, <1>7
        <3>5. after = all[n] /\ after \in Keys /\ after # NoCursor
            BY <3>1, <3>4, <1>7, NoCursorAssumption
        <3>6. rest = {x \in SearchItems : <<all[n], x>> \in KeyOrder}
            BY <1>2, <1>3, <3>5 DEF Beyond, KeyOrder
        <3>7. /\ Cardinality(rest) = N - n
              /\ Ordered(rest, KeyOrder) = [i \in 1 .. N - n |-> all[n + i]]
            <4> HIDE DEF n
            <4>1. LET T == {x \in SearchItems : <<Ordered(SearchItems, KeyOrder)[n], x>> \in KeyOrder}
                  IN  /\ Cardinality(T) = Cardinality(SearchItems) - n
                      /\ Ordered(T, KeyOrder) = [i \in 1 .. Cardinality(SearchItems) - n |->
                                                   Ordered(SearchItems, KeyOrder)[n + i]]
                BY <1>3, <3>4, RestOfListing
            <4> HIDE DEF rest
            <4>2. QED
                BY <4>1, <3>6
        <3>8. pass'.first = Ranking
            BY <1>5, <2>2, <3>3
        <3>9. QED
            BY <3>4, <3>7, <3>8
    <2>3. QED
        BY <2>1, <2>2
<1> HIDE DEF rest, shown, more, N, all, n
<1>9. m \in Nat /\ n + m <= N /\ m <= N - n /\ (~more => n + m = N)
    <2>1. /\ n \in Nat /\ N \in Nat /\ n <= N /\ Cardinality(rest) = N - n
          /\ more <=> Cardinality(rest) > limit
        BY <1>3, <1>6, <1>7, <1>8 DEF n
    <2>2. QED
        BY <2>1
<1> HIDE DEF m
<1>10. shown = [i \in 1 .. m |-> all[n + i]]
    <2>1. Ordered(rest, KeyOrder) \in Seq(SearchItems) /\ Len(Ordered(rest, KeyOrder)) = N - n
        <3>1. \A i \in 1 .. N - n : n + i \in 1 .. N
            BY <1>3, <1>7, <1>8
        <3>2. \A i \in 1 .. N - n : all[n + i] \in SearchItems
            BY <3>1, <1>4
        <3>3. N - n \in Nat
            BY <1>3, <1>7, <1>8
        <3>4. QED
            BY <3>2, <3>3, <1>8
    <2>2. \A i \in 1 .. m : i \in 1 .. N - n
        BY <1>3, <1>7, <1>9
    <2>3. SubSeq(Ordered(rest, KeyOrder), 1, m) = [i \in 1 .. m |-> Ordered(rest, KeyOrder)[i]]
        BY <2>1, <1>9
    <2>4. \A i \in 1 .. m : Ordered(rest, KeyOrder)[i] = all[n + i]
        BY <2>2, <1>8
    <2>5. QED
        BY <1>6, <2>3, <2>4
<1>11. shown \in Seq(Keys) /\ Len(shown) = m /\ \A i \in 1 .. m : shown[i] = all[n + i]
    <2>1. \A i \in 1 .. m : n + i \in 1 .. N
        BY <1>3, <1>7, <1>9
    <2>2. \A i \in 1 .. m : all[n + i] \in Keys
        BY <2>1, <1>3, <1>4
    <2>3. QED
        BY <1>9, <1>10, <2>2
<1>12. /\ Len(pass'.got) = n + m
       /\ \A i \in 1 .. n + m : pass'.got[i] = all[i]
    <2>1. /\ Len(pass'.got) = n + m
          /\ \A i \in 1 .. n : pass'.got[i] = pass.got[i]
          /\ \A i \in 1 .. m : pass'.got[n + i] = shown[i]
        <3> DEFINE got == pass.got
        <3>1. got \in Seq(Keys) /\ shown \in Seq(Keys)
            BY <1>7, <1>11
        <3> HIDE DEF got
        <3>2. /\ Len(got \o shown) = Len(got) + Len(shown)
              /\ \A i \in 1 .. Len(got) : (got \o shown)[i] = got[i]
              /\ \A i \in 1 .. Len(shown) : (got \o shown)[Len(got) + i] = shown[i]
            BY <3>1, Concatenation
        <3>3. pass'.got = pass.got \o shown /\ Len(shown) = m
            BY <1>5, <1>11
        <3>4. QED
            BY <3>2, <3>3 DEF n, got
    <2>2. ASSUME NEW i \in 1 .. n + m
          PROVE  pass'.got[i] = all[i]
        <3>1. CASE i <= n
            BY <2>1, <3>1, <1>7, <1>8
        <3>2. CASE i > n
            <4>1. i - n \in 1 .. m /\ n + (i - n) = i
                BY <3>2, <1>7, <1>9
            <4>2. QED
                BY <4>1, <2>1, <1>11
        <3>3. QED
            BY <3>1, <3>2, <1>7
    <2>3. QED
        BY <2>1, <2>2
<1>13. more => pass'.cursor.binding \in [version: Nat, limit: Limits,
                grants: (SUBSET Sections) \X BOOLEAN, ranking: {pass'.first}]
    <2>1. SearchBinding(limit) \in [version: Nat, limit: Limits,
                grants: (SUBSET Sections) \X BOOLEAN, ranking: {Ranking}]
        BY <1>1 DEF SearchBinding, RetrievalTypes
    <2>2. QED
        BY <1>5, <1>8, <2>1
<1>14. \A i \in 1 .. n + m : pass'.got[i] = pass'.first[i][1]
    <2>1. \A i \in 1 .. n + m : i \in 1 .. N
        BY <1>3, <1>7, <1>9
    <2>2. QED
        BY <2>1, <1>3, <1>8, <1>12
<1>15. QED
    BY <1>3, <1>5, <1>8, <1>9, <1>12, <1>13, <1>14 DEF SearchOK

-----------------------------------------------------------------------------
(* Requests                                                                *)

LEMMA RefuseKeeps ==
    ASSUME RetrievalInv, Refuse, ReadOnly
    PROVE  RetrievalInv'
<1>1. /\ pass'.status = "refused" /\ pass'.got = pass.got /\ pass'.cursor = pass.cursor
      /\ pass' \in [route: Routes, limit: Limits,
                 status: {"fresh", "open", "complete", "refused"},
                 cursor: {NoCursor} \cup [binding: Bindings, key: Keys],
                 got: Seq(Keys), stayed: SUBSET Keys, first: Seq(Ranked)]
    BY DEF Refuse, RetrievalInv, RetrievalTypes
<1>2. RetrievalTypes'
    BY <1>1 DEF Refuse, ReadOnly, RetrievalInv, RetrievalTypes
<1>3. WalkOK' /\ SearchOK'
    BY <1>1 DEF RetrievalInv, WalkOK, SearchOK
<1>4. QED
    BY <1>2, <1>3 DEF RetrievalInv

\* A cursor that is accepted starts the answer where the walk stands.
LEMMA DecodeIsAfter ==
    ASSUME RetrievalInv, pass.status \in {"fresh", "open"}, NEW binding,
           \/ Decode(pass.cursor, binding) # Refused
           \/ pass.route \in Bare /\ binding = NoCursor
    PROVE  /\ Decode(pass.cursor, binding) = After
           /\ pass.status = "open" => pass.cursor.binding = binding
<1>1. CASE pass.status = "fresh"
    BY <1>1 DEF RetrievalInv, WalkOK, Decode, After
<1>2. CASE pass.status = "open"
    <2>1. pass.cursor # NoCursor /\ (pass.route \in Bare => pass.cursor.binding = NoCursor)
        BY <1>2 DEF RetrievalInv, WalkOK
    <2>2. QED
        BY <1>2, <2>1 DEF Decode, After
<1>3. QED
    BY <1>1, <1>2

\* Of the routes for one entry.
LEMMA SinglesAreShort ==
    ASSUME pass.route \in Single
    PROVE  Cardinality(Present) <= 1
<1>1. \E x : Present \in {{}, {x}}
    BY DEF Present, Items, Single, CurrentItems, LocatedItems, RevisionItems, FileItems
<1>2. PICK x : Present \in {{}, {x}}
    BY <1>1
<1>3. Cardinality({x}) = 1 /\ Cardinality({}) = 0
    BY FS_Singleton, FS_EmptySet
<1>4. QED
    BY <1>2, <1>3

\* A request is refused, or answered from where the walk stands.
Answered ==
    \/ Refuse
    \/ \E limit \in Nat \ {0}, binding \in Bindings, after \in {After} :
        /\ pass.route \in Bare => binding = NoCursor
        /\ pass.route \in Single => limit = 1
        /\ pass.route = "search" =>
            /\ binding = SearchBinding(limit) /\ limit \in Limits
            /\ pass.status = "open" => pass.cursor.binding = binding
        /\ Answer(Present, after, limit, binding)

LEMMA AnsweredKeeps ==
    ASSUME RetrievalInv, pass.status \in {"fresh", "open"}, Answered, ReadOnly
    PROVE  RetrievalInv'
<1>1. CASE Refuse
    BY <1>1, RefuseKeeps
<1>2. ASSUME NEW limit \in Nat \ {0}, NEW binding \in Bindings, NEW after \in {After},
             pass.route \in Bare => binding = NoCursor,
             pass.route \in Single => limit = 1,
             pass.route = "search" =>
                /\ binding = SearchBinding(limit) /\ limit \in Limits
                /\ pass.status = "open" => pass.cursor.binding = binding,
             Answer(Present, after, limit, binding)
      PROVE  RetrievalInv'
    <2>1. RetrievalTypes' /\ WalkOK'
        BY <1>2, AnswerKeepsWalk, SinglesAreShort
    <2>2. CASE pass.route = "search"
        <3>1. SearchOK'
            BY <1>2, <2>2, AnswerKeepsRanking
        <3>2. QED
            BY <2>1, <3>1 DEF RetrievalInv
    <2>3. CASE pass.route # "search"
        <3>1. pass'.route = pass.route
            BY <1>2, AnswerFields DEF RetrievalInv
        <3>2. SearchOK'
            BY <2>3, <3>1 DEF SearchOK
        <3>3. QED
            BY <2>1, <3>2 DEF RetrievalInv
    <2>4. QED
        BY <2>2, <2>3
<1>3. QED
    BY <1>1, <1>2 DEF Answered

\* Every read transaction is such a step.
LEMMA ReadersAnswer ==
    ASSUME RetrievalInv, Readers
    PROVE  /\ ReadOnly
           /\ \/ UNCHANGED pass /\ request' = [version |-> version]
              \/ pass.status \in {"fresh", "open"} /\ Answered
<1>1. /\ pass.limit \in Limits /\ pass.limit \in Nat \ {0} /\ version \in Nat
      /\ request # NoCursor => request.version \in Nat
      /\ AdminLimit \in Nat \ {0}
    BY RetrievalConstants DEF RetrievalInv, RetrievalTypes
<1>2. CASE Authenticate
    BY <1>2 DEF Authenticate, Answered
<1>3. CASE ListSections
    <2> DEFINE binding == ContextBinding(pass.limit)
               after == Decode(pass.cursor, binding)
    <2>1. Present = SectionItems /\ pass.route \notin Bare \cup Single \cup {"search"}
        BY <1>3 DEF ListSections, Asked, Present, Items, Bare, Console, Single
    <2>2. binding \in Bindings
        BY <1>1, <1>3 DEF ListSections, Asked, ContextBinding, Bindings
    <2>3. after # Refused => after = After
        BY <1>3, DecodeIsAfter DEF ListSections, Asked
    <2> HIDE DEF binding, after
    <2>4. Refuse \/ (after # Refused /\ Answer(Present, after, pass.limit, binding))
        BY <1>3, <2>1 DEF ListSections, binding, after
    <2>5. QED
        BY <1>1, <1>3, <2>1, <2>2, <2>3, <2>4 DEF ListSections, Asked, Answered
<1>4. CASE ListPages
    <2> DEFINE binding == ContextBinding(pass.limit)
               after == Decode(pass.cursor, binding)
    <2>1. Present = PageItems /\ pass.route \notin Bare \cup Single \cup {"search"}
        BY <1>4 DEF ListPages, Asked, Present, Items, Bare, Console, Single
    <2>2. binding \in Bindings
        BY <1>1, <1>4 DEF ListPages, Asked, ContextBinding, Bindings
    <2>3. after # Refused => after = After
        BY <1>4, DecodeIsAfter DEF ListPages, Asked
    <2> HIDE DEF binding, after
    <2>4. Refuse \/ (after # Refused /\ Answer(Present, after, pass.limit, binding))
        BY <1>4, <2>1 DEF ListPages, binding, after
    <2>5. QED
        BY <1>1, <1>4, <2>1, <2>2, <2>3, <2>4 DEF ListPages, Asked, Answered
<1>5. CASE ListLibraryPages
    <2> DEFINE binding == LibraryBinding(pass.limit)
               after == Decode(pass.cursor, binding)
    <2>1. Present = PageItems /\ pass.route \notin Bare \cup Single \cup {"search"}
        BY <1>5 DEF ListLibraryPages, Asked, Present, Items, Bare, Console, Single
    <2>2. binding \in Bindings
        <3>1. /\ mode \in {"legacy", "library"}
              /\ (IF mode = "legacy" THEN Here \in queryable ELSE readable) \in BOOLEAN
            <4>1. mode \in {"legacy", "library"} /\ readable \in BOOLEAN
                BY DEF RetrievalInv, RetrievalTypes
            <4>2. (Here \in queryable) \in BOOLEAN
                OBVIOUS
            <4>3. CASE mode = "legacy"
                BY <4>1, <4>2, <4>3, Zenon
            <4>4. CASE mode # "legacy"
                BY <4>1, <4>4, Zenon
            <4>5. QED
                BY <4>3, <4>4
        <3>2. QED
            BY <1>1, <3>1 DEF LibraryBinding, Bindings
    <2>3. after # Refused => after = After
        BY <1>5, DecodeIsAfter DEF ListLibraryPages, Asked
    <2> HIDE DEF binding, after
    <2>4. Refuse \/ (after # Refused /\ Answer(Present, after, pass.limit, binding))
        BY <1>5, <2>1 DEF ListLibraryPages, binding, after
    <2>5. QED
        BY <1>1, <1>5, <2>1, <2>2, <2>3, <2>4 DEF ListLibraryPages, Asked, Answered
<1>6. CASE SearchPages
    <2> DEFINE binding == SearchBinding(pass.limit)
               after == Decode(pass.cursor, binding)
    <2>1. Present = SearchItems /\ pass.route \notin Bare \cup Single
        BY <1>6 DEF SearchPages, Asked, Present, Items, Bare, Console, Single
    <2>2. binding \in Bindings
        <3>1. Ranking \in Seq(Ranked) /\ queryable \in SUBSET Sections /\ readable \in BOOLEAN
            BY RankingListsResults DEF RetrievalInv, RetrievalTypes
        <3>2. QED
            BY <1>1, <3>1 DEF SearchBinding, Bindings, Ranked
    <2>3. after # Refused => after = After /\ (pass.status = "open" => pass.cursor.binding = binding)
        BY <1>6, DecodeIsAfter DEF SearchPages, Asked
    <2>4. binding = SearchBinding(pass.limit)
        OBVIOUS
    <2> HIDE DEF binding, after
    <2>5. Refuse \/ (after # Refused /\ Answer(Present, after, pass.limit, binding))
        BY <1>6, <2>1 DEF SearchPages, binding, after
    <2>6. QED
        BY <1>1, <1>6, <2>1, <2>2, <2>3, <2>4, <2>5 DEF SearchPages, Asked, Answered
<1>7. NoCursor \in Bindings
    BY DEF Bindings
<1>8. CASE BookPage
    <2>1. Present = BookItems /\ pass.route \in Bare /\ pass.route \notin Single \cup {"search"}
        BY <1>8 DEF BookPage, Asked, Present, Items, Bare, Console, Single
    <2>2. Decode(pass.cursor, NoCursor) = After
        BY <1>8, <2>1, DecodeIsAfter DEF BookPage, Asked
    <2>3. Refuse \/ Answer(Present, After, AdminLimit, NoCursor)
        BY <1>8, <2>1, <2>2 DEF BookPage
    <2>4. QED
        BY <1>1, <1>7, <1>8, <2>1, <2>3 DEF BookPage, Asked, Answered
<1>9. CASE ListTrash
    <2>1. Present = TrashItems /\ pass.route \in Bare /\ pass.route \notin Single \cup {"search"}
        BY <1>9 DEF ListTrash, Asked, Present, Items, Bare, Console, Single
    <2>2. Decode(pass.cursor, NoCursor) = After
        BY <1>9, <2>1, DecodeIsAfter DEF ListTrash, Asked
    <2>3. Refuse \/ Answer(Present, After, AdminLimit, NoCursor)
        BY <1>9, <2>1, <2>2 DEF ListTrash
    <2>4. QED
        BY <1>1, <1>7, <1>9, <2>1, <2>3 DEF ListTrash, Asked, Answered
<1>10. CASE ListRevisions
    <2>1. Present = HistoryItems /\ pass.route \in Bare /\ pass.route \notin Single \cup {"search"}
        BY <1>10 DEF ListRevisions, Asked, Present, Items, Bare, Console, Single
    <2>2. Decode(pass.cursor, NoCursor) = After
        BY <1>10, <2>1, DecodeIsAfter DEF ListRevisions, Asked
    <2>3. Refuse \/ Answer(Present, After, pass.limit, NoCursor)
        BY <1>10, <2>1, <2>2 DEF ListRevisions
    <2>4. QED
        BY <1>1, <1>7, <1>10, <2>1, <2>3 DEF ListRevisions, Asked, Answered
<1>11. CASE PagePreview
    <2>1. Present = PreviewItems /\ pass.route \in Bare /\ pass.route \notin Single \cup {"search"}
        BY <1>11 DEF PagePreview, Asked, Present, Items, Bare, Console, Single
    <2>2. Decode(pass.cursor, NoCursor) = After
        BY <1>11, <2>1, DecodeIsAfter DEF PagePreview, Asked
    <2>3. Refuse \/ Answer(Present, After, AdminLimit, NoCursor)
        BY <1>11, <2>1, <2>2 DEF PagePreview
    <2>4. QED
        BY <1>1, <1>7, <1>11, <2>1, <2>3 DEF PagePreview, Asked, Answered
<1>12. ASSUME pass.route \in Single, pass.status \in {"fresh", "open"},
              Refuse \/ Answer(Present, NoCursor, 1, NoCursor)
       PROVE  Answered
    <2>1. After = NoCursor
        BY <1>12 DEF RetrievalInv, WalkOK, After
    <2>2. pass.route # "search" /\ (pass.route \in Bare => NoCursor = NoCursor)
        BY <1>12 DEF Single
    <2>3. 1 \in Nat \ {0}
        OBVIOUS
    <2>4. QED
        BY <1>7, <1>12, <2>1, <2>2, <2>3 DEF Answered
<1>13. CASE ReadCurrent
    <2>1. Present = CurrentItems /\ pass.route \in Single
        BY <1>13 DEF ReadCurrent, Asked, Present, Items, Single
    <2>2. QED
        BY <1>12, <1>13, <2>1 DEF ReadCurrent, Asked
<1>14. CASE LocatePage
    <2>1. Present = LocatedItems /\ pass.route \in Single
        BY <1>14 DEF LocatePage, Asked, Present, Items, Single
    <2>2. QED
        BY <1>12, <1>14, <2>1 DEF LocatePage, Asked
<1>15. CASE ReadRevision
    <2>1. Present = RevisionItems(pass.limit) /\ pass.route \in Single
        BY <1>15 DEF ReadRevision, Asked, Present, Items, Single
    <2>2. QED
        BY <1>12, <1>15, <2>1 DEF ReadRevision, Asked
<1>16. CASE ReadFile
    <2>1. Present = FileItems(pass.limit) /\ pass.route \in Single
        BY <1>16 DEF ReadFile, Asked, Present, Items, Single
    <2>2. QED
        BY <1>12, <1>16, <2>1 DEF ReadFile, Asked
<1>17. QED
    BY <1>2, <1>3, <1>4, <1>5, <1>6, <1>8, <1>9, <1>10, <1>11, <1>13, <1>14, <1>15, <1>16
       DEF Readers

LEMMA ReadersKeep ==
    ASSUME RetrievalInv, Readers
    PROVE  RetrievalInv'
<1>1. CASE UNCHANGED pass /\ request' = [version |-> version]
    <2>1. ReadOnly
        BY ReadersAnswer
    <2>2. Present' = Present
        BY <1>1, <2>1, PresentSame
    <2>3. QED
        BY <1>1, <2>1, <2>2 DEF ReadOnly, RetrievalInv, RetrievalTypes, WalkOK, SearchOK
<1>2. CASE pass.status \in {"fresh", "open"} /\ Answered
    BY <1>2, ReadersAnswer, AnsweredKeeps
<1>3. QED
    BY <1>1, <1>2, ReadersAnswer

-----------------------------------------------------------------------------
(* Writers                                                                 *)

\* A write cuts what has stayed to what is still listed.
LEMMA KeepKeeps ==
    ASSUME RetrievalInv, Keep
    PROVE  /\ pass' \in [route: Routes, limit: Limits,
                 status: {"fresh", "open", "complete", "refused"},
                 cursor: {NoCursor} \cup [binding: Bindings, key: Keys],
                 got: Seq(Keys), stayed: SUBSET Keys, first: Seq(Ranked)]
           /\ WalkOK' /\ SearchOK'
<1>1. PICK route \in {pass.route}, n \in {pass.limit} :
        pass' = [pass EXCEPT !.stayed = @ \cap Items(route, n)']
    BY DEF Keep
<1>2. /\ pass'.route = pass.route /\ pass'.limit = pass.limit /\ pass'.got = pass.got
      /\ pass'.status = pass.status /\ pass'.cursor = pass.cursor /\ pass'.first = pass.first
      /\ pass'.stayed = pass.stayed \cap Items(route, n)'
      /\ pass' = [route |-> pass'.route, limit |-> pass'.limit,
                  status |-> pass'.status, cursor |-> pass'.cursor,
                  got |-> pass'.got, stayed |-> pass'.stayed, first |-> pass'.first]
    BY <1>1 DEF RetrievalInv, RetrievalTypes
<1>3. Present' = Items(route, n)'
    BY <1>2 DEF Present, Items, RevisionItems, FileItems
<1>4. pass'.stayed \subseteq pass.stayed /\ pass'.stayed \subseteq Present'
    BY <1>2, <1>3
<1>5. pass' \in [route: Routes, limit: Limits,
                 status: {"fresh", "open", "complete", "refused"},
                 cursor: {NoCursor} \cup [binding: Bindings, key: Keys],
                 got: Seq(Keys), stayed: SUBSET Keys, first: Seq(Ranked)]
    <2>1. /\ pass.route \in Routes /\ pass.limit \in Limits
          /\ pass.status \in {"fresh", "open", "complete", "refused"}
          /\ pass.cursor \in {NoCursor} \cup [binding: Bindings, key: Keys]
          /\ pass.got \in Seq(Keys) /\ pass.stayed \in SUBSET Keys
          /\ pass.first \in Seq(Ranked)
        BY DEF RetrievalInv, RetrievalTypes
    <2>2. QED
        BY <2>1, <1>2, <1>4
<1>6. WalkOK'
    BY <1>2, <1>4 DEF RetrievalInv, WalkOK
<1>7. SearchOK'
    BY <1>2 DEF RetrievalInv, SearchOK
<1>8. QED
    BY <1>5, <1>6, <1>7

\* A write to a Page.
LEMMA WriteKeeps ==
    ASSUME RetrievalInv, NEW p \in Pages, NEW row \in PageRows, Write(p, row)
    PROVE  RetrievalInv'
<1>1. rows' \in [Pages -> {Absent} \cup PageRows]
    BY DEF RetrievalInv, RetrievalTypes, Write
<1>2. QED
    BY <1>1, KeepKeeps DEF RetrievalInv, RetrievalTypes, Write

LEMMA WritersKeep ==
    ASSUME RetrievalInv, Writers
    PROVE  RetrievalInv'
<1>1. Here \in Sections /\ Stamps \subseteq Nat
    BY RetrievalConstants
<1>2. ASSUME NEW p \in Pages, IsLive(p)
      PROVE  /\ rows[p] \in PageRows
             /\ rows[p].place \in Sections /\ rows[p].occurred \in Nat
             /\ rows[p].deleted \in Nat /\ rows[p].rev \in Nat /\ rows[p].match \in BOOLEAN
    <2>1. rows[p] \in PageRows
        BY <1>2 DEF IsLive, RetrievalInv, RetrievalTypes
    <2>2. QED
        BY <2>1 DEF PageRows
<1>3. ASSUME NEW p \in Pages, CreatePage(p)
      PROVE  RetrievalInv'
    <2>1. PICK at \in Stamps, m \in BOOLEAN :
            Write(p, [place |-> Here, occurred |-> at, deleted |-> 0, rev |-> 1, match |-> m])
        BY <1>3 DEF CreatePage
    <2>2. [place |-> Here, occurred |-> at, deleted |-> 0, rev |-> 1, match |-> m] \in PageRows
        BY <1>1 DEF PageRows
    <2>3. QED
        BY <2>1, <2>2, WriteKeeps
<1>4. ASSUME NEW p \in Pages, RevisePage(p)
      PROVE  RetrievalInv'
    <2>1. PICK m \in BOOLEAN : Write(p, [rows[p] EXCEPT !.rev = @ + 1, !.match = m])
        BY <1>4 DEF RevisePage
    <2>2. [rows[p] EXCEPT !.rev = @ + 1, !.match = m] \in PageRows
        <3>1. rows[p] \in PageRows
            BY <1>2, <1>4 DEF RevisePage
        <3>2. [rows[p] EXCEPT !.rev = @ + 1] \in PageRows
            BY <3>1 DEF PageRows
        <3>3. [rows[p] EXCEPT !.rev = @ + 1, !.match = m] =
                [[rows[p] EXCEPT !.rev = @ + 1] EXCEPT !.match = m]
            BY <3>1 DEF PageRows
        <3>4. [[rows[p] EXCEPT !.rev = @ + 1] EXCEPT !.match = m] \in PageRows
            BY <3>2 DEF PageRows
        <3>5. QED
            BY <3>3, <3>4
    <2>3. QED
        BY <2>1, <2>2, WriteKeeps
<1>5. ASSUME NEW p \in Pages, MovePage(p)
      PROVE  RetrievalInv'
    <2>1. PICK s \in Sections : Write(p, [rows[p] EXCEPT !.place = s])
        BY <1>5 DEF MovePage
    <2>2. [rows[p] EXCEPT !.place = s] \in PageRows
        BY <1>2, <1>5 DEF MovePage, PageRows
    <2>3. QED
        BY <2>1, <2>2, WriteKeeps
<1>6. ASSUME NEW p \in Pages, CorrectOccurrence(p)
      PROVE  RetrievalInv'
    <2>1. PICK at \in Stamps : Write(p, [rows[p] EXCEPT !.occurred = at])
        BY <1>6 DEF CorrectOccurrence
    <2>2. [rows[p] EXCEPT !.occurred = at] \in PageRows
        BY <1>1, <1>2, <1>6 DEF CorrectOccurrence, PageRows
    <2>3. QED
        BY <2>1, <2>2, WriteKeeps
<1>7. ASSUME NEW p \in Pages, DeletePage(p)
      PROVE  RetrievalInv'
    <2>1. PICK at \in Stamps : Write(p, [rows[p] EXCEPT !.deleted = at])
        BY <1>7 DEF DeletePage
    <2>2. [rows[p] EXCEPT !.deleted = at] \in PageRows
        BY <1>1, <1>2, <1>7 DEF DeletePage, PageRows
    <2>3. QED
        BY <2>1, <2>2, WriteKeeps
<1>8. ASSUME NEW p \in Pages, RestorePage(p)
      PROVE  RetrievalInv'
    <2>1. rows[p] \in PageRows
        BY <1>8 DEF RestorePage, RetrievalInv, RetrievalTypes
    <2>2. [rows[p] EXCEPT !.deleted = 0] \in PageRows
        BY <2>1 DEF PageRows
    <2>3. QED
        BY <1>8, <2>2, WriteKeeps DEF RestorePage
<1>9. ASSUME NEW s \in Sections, ChangeSectionGrant(s)
      PROVE  RetrievalInv'
    BY <1>9, KeepKeeps DEF ChangeSectionGrant, RetrievalInv, RetrievalTypes
<1>10. CASE ChangeLibraryGrant
    <2>1. readable' \in BOOLEAN
        BY <1>10 DEF ChangeLibraryGrant, RetrievalInv, RetrievalTypes
    <2>2. QED
        BY <1>10, <2>1, KeepKeeps DEF ChangeLibraryGrant, RetrievalInv, RetrievalTypes
<1>11. ASSUME UNCHANGED <<rows, mode, queryable, readable, version, request, pass>>
       PROVE  RetrievalInv'
    <2>1. Present' = Present
        BY <1>11 DEF Present, Items, SectionItems, PageItems, BookItems, TrashItems, SearchItems,
           HistoryItems, PreviewItems, CurrentItems, LocatedItems, RevisionItems, FileItems,
           Verified, InHere, IsLive, SearchScope
    <2>2. QED
        BY <1>11, <2>1 DEF RetrievalInv, RetrievalTypes, WalkOK, SearchOK
<1>12. CASE EndCredential \/ EndSession
    BY <1>11, <1>12 DEF EndCredential, EndSession
<1>13. QED
    BY <1>3, <1>4, <1>5, <1>6, <1>7, <1>8, <1>9, <1>10, <1>12 DEF Writers

LEMMA RetrievalStep ==
    ASSUME RetrievalInv, [RetrievalNext]_retrievalVars
    PROVE  RetrievalInv'
<1>1. CASE RetrievalNext
    BY <1>1, ReadersKeep, WritersKeep DEF RetrievalNext
<1>2. CASE UNCHANGED retrievalVars
    <2>1. Present' = Present
        BY <1>2 DEF retrievalVars, Present, Items, SectionItems, PageItems, BookItems, TrashItems,
           SearchItems, HistoryItems, PreviewItems, CurrentItems, LocatedItems, RevisionItems,
           FileItems, Verified, InHere, IsLive, SearchScope
    <2>2. QED
        BY <1>2, <2>1 DEF retrievalVars, RetrievalInv, RetrievalTypes, WalkOK, SearchOK
<1>3. QED
    BY <1>1, <1>2

LEMMA RetrievalStart ==
    ASSUME RetrievalInit
    PROVE  RetrievalInv
<1>1. Here \in Sections /\ Stamps \subseteq Nat /\ MaxRevision - 1 \in Nat
    BY RetrievalConstants
<1>2. rows \in [Pages -> {Absent} \cup PageRows]
    <2>1. /\ {Here} \subseteq Sections /\ {0} \subseteq Nat /\ {1} \subseteq Nat
          /\ {MaxRevision - 1} \subseteq Nat /\ {TRUE} \subseteq BOOLEAN
        BY <1>1
    <2>2. /\ [place: {Here}, occurred: Stamps, deleted: {0}, rev: {MaxRevision - 1},
              match: {TRUE}] \subseteq PageRows
          /\ [place: {Here}, occurred: {1}, deleted: Stamps, rev: {1}, match: {TRUE}]
                \subseteq PageRows
        BY <1>1, <2>1 DEF PageRows
    <2>3. QED
        BY <2>2 DEF RetrievalInit
<1>3. readable \in BOOLEAN
    BY DEF RetrievalInit
<1>4. RetrievalTypes
    <2>1. /\ mode \in {"legacy", "library"} /\ queryable \in SUBSET Sections
          /\ version \in Nat /\ request = NoCursor
        BY DEF RetrievalInit
    <2>2. << >> \in Seq(Keys) /\ << >> \in Seq(Ranked)
        OBVIOUS
    <2>3. pass \in [route: Routes, limit: Limits, status: {"fresh"}, cursor: {NoCursor},
                    got: {<< >>}, stayed: {{}}, first: {<< >>}]
        BY DEF RetrievalInit
    <2>4. pass \in [route: Routes, limit: Limits,
                 status: {"fresh", "open", "complete", "refused"},
                 cursor: {NoCursor} \cup [binding: Bindings, key: Keys],
                 got: Seq(Keys), stayed: SUBSET Keys, first: Seq(Ranked)]
        BY <2>2, <2>3
    <2>5. QED
        BY <1>2, <1>3, <2>1, <2>4 DEF RetrievalTypes
<1>5. /\ pass.status = "fresh" /\ pass.cursor = NoCursor /\ pass.got = << >>
    BY DEF RetrievalInit
<1>6. WalkOK /\ SearchOK
    BY <1>5 DEF WalkOK, SearchOK, Ascending
<1>7. QED
    BY <1>4, <1>6 DEF RetrievalInv

LEMMA RetrievalInvariant == RetrievalSpec => []RetrievalInv
BY RetrievalStart, RetrievalStep, PTL DEF RetrievalSpec

-----------------------------------------------------------------------------

\* What is in order is shown once.
LEMMA TimesInOrder ==
    ASSUME NEW K, NEW R, TotalOrder(R, K), NEW f \in Seq(K), Ascending(f, R), NEW x
    PROVE  LET times == Cardinality({i \in DOMAIN f : f[i] = x})
           IN  times <= 1 /\ (Holds(f, x) => times = 1)
<1> DEFINE T == {i \in DOMAIN f : f[i] = x}
<1>1. DOMAIN f = 1 .. Len(f) /\ Len(f) \in Nat /\ \A i \in 1 .. Len(f) : f[i] \in K
    OBVIOUS
<1>2. \A i, j \in T : i = j
    <2>1. SUFFICES ASSUME NEW i \in T, NEW j \in T, i < j
                   PROVE  FALSE
        BY <1>1
    <2>2. <<x, x>> \in R /\ x \in K
        BY <1>1, <2>1 DEF Ascending
    <2>3. QED
        BY <2>2 DEF TotalOrder
<1>3. T = {} \/ \E i : T = {i}
    BY <1>2
<1>4. Cardinality({}) = 0 /\ \A i : Cardinality({i}) = 1
    BY FS_EmptySet, FS_Singleton
<1>5. Holds(f, x) => T # {}
    BY DEF Holds
<1> HIDE DEF T
<1>6. Cardinality(T) <= 1 /\ (Holds(f, x) => Cardinality(T) = 1)
    <2>1. CASE T = {}
        BY <1>4, <1>5, <2>1
    <2>2. CASE \E i : T = {i}
        <3>1. Cardinality(T) = 1
            BY <1>4, <2>2
        <3>2. QED
            BY <3>1
    <2>3. QED
        BY <1>3, <2>1, <2>2
<1>7. QED
    BY <1>6 DEF T

\* Whatever is written between the requests, an entry that stays in the listing
\* under its key is shown once: the keyset conditions of
\* retrieval/repository.py, admin/read_model.py and file_set_read.py neither
\* skip nor repeat a row.
THEOREM ListingsNeitherSkipNorRepeat == RetrievalSpec => []ListedExactlyOnce
<1>1. ASSUME RetrievalInv
      PROVE  ListedExactlyOnce
    <2>1. /\ pass.got \in Seq(Keys) /\ Ascending(pass.got, KeyOrder)
          /\ pass.status = "complete" => \A x \in pass.stayed : Holds(pass.got, x)
        BY <1>1 DEF RetrievalInv, RetrievalTypes, WalkOK
    <2>2. ASSUME NEW x
          PROVE  Times(x) <= 1 /\ (Holds(pass.got, x) => Times(x) = 1)
        BY <2>1, KeysOrdered, TimesInOrder DEF Times
    <2>3. QED
        BY <2>1, <2>2 DEF ListedExactlyOnce
<1>2. QED
    BY <1>1, RetrievalInvariant, PTL

\* The answers of one search are consecutive parts of the ranking that its first
\* answer was cut from (search/service_v2.py _cursor_binding).
THEOREM SearchesWalkOneRanking == RetrievalSpec => []SearchWalksOneRanking
<1>1. ASSUME RetrievalInv
      PROVE  SearchWalksOneRanking
    <2>1. SUFFICES ASSUME pass.route = "search", pass.status \in {"open", "complete"}
                   PROVE  /\ Len(pass.got) <= Len(pass.first)
                          /\ pass.got = [i \in DOMAIN pass.got |-> pass.first[i][1]]
                          /\ pass.status = "complete" => Len(pass.got) = Len(pass.first)
        BY DEF SearchWalksOneRanking
    <2>2. /\ Len(pass.got) <= Len(pass.first)
          /\ \A i \in 1 .. Len(pass.got) : pass.got[i] = pass.first[i][1]
          /\ pass.status = "complete" => Len(pass.got) = Len(pass.first)
        BY <1>1, <2>1 DEF RetrievalInv, SearchOK
    <2>3. DOMAIN pass.got = 1 .. Len(pass.got) /\ pass.got = [i \in DOMAIN pass.got |-> pass.got[i]]
        BY <1>1 DEF RetrievalInv, RetrievalTypes
    <2>4. [i \in DOMAIN pass.got |-> pass.got[i]] = [i \in DOMAIN pass.got |-> pass.first[i][1]]
        BY <2>2, <2>3
    <2>5. QED
        BY <2>2, <2>3, <2>4
<1>2. QED
    BY <1>1, RetrievalInvariant, PTL

\* An answer adds nothing unless the listing holds something.
LEMMA SomethingListed ==
    ASSUME RetrievalTypes, NEW after, NEW limit \in Nat \ {0}, NEW binding,
           Answer(Present, after, limit, binding), Len(pass'.got) > Len(pass.got)
    PROVE  Present # {}
<1> DEFINE rest == {i \in Present : Beyond(after, i)}
           shown == Shown(Present, after, limit)
           got == pass.got
<1>1. Cut(shown, More(Present, after, limit), rest, KeyOrder)
    BY AnswerCuts
<1>2. pass'.got = got \o shown
    BY AnswerFields
<1>3. shown \in Seq(rest) /\ got \in Seq(Keys)
    BY <1>1 DEF Cut, RetrievalTypes
<1>4. Len(got \o shown) > Len(got)
    BY <1>2
<1>5. rest \subseteq Present
    OBVIOUS
<1> HIDE DEF rest, shown, got
<1>6. shown \in Seq(Present \cup Keys) /\ got \in Seq(Present \cup Keys)
    BY <1>3, <1>5
<1>7. Len(got \o shown) = Len(got) + Len(shown)
    BY <1>6, Concatenation
<1>8. Len(shown) \in Nat /\ Len(got) \in Nat
    BY <1>3
<1>9. 1 \in 1 .. Len(shown)
    BY <1>4, <1>7, <1>8
<1>10. shown[1] \in rest
    BY <1>3, <1>9
<1>11. QED
    BY <1>5, <1>10

\* Who is admitted to an answer of the walk's route.
Admitted ==
    CASE pass.route \in Console -> session
      [] pass.route = "sections" -> live
      [] pass.route = "search" -> live /\ (queryable # {} \/ readable)
      [] pass.route = "locate" -> live /\ (rows[Watched].place \in queryable \/ readable)
      [] OTHER -> live /\ (Here \in queryable \/ readable)

LEMMA AnswersAdmitted ==
    ASSUME RetrievalInv, RetrievalNext, Len(pass'.got) > Len(pass.got)
    PROVE  Admitted
<1>1. RetrievalTypes /\ pass.got \in Seq(Keys) /\ pass.limit \in Nat \ {0} /\ Len(pass.got) \in Nat
    <2>1. RetrievalTypes /\ pass.got \in Seq(Keys) /\ pass.limit \in Limits
        BY DEF RetrievalInv, RetrievalTypes
    <2>2. pass.limit \in Nat \ {0}
        BY <2>1, RetrievalConstants
    <2>3. Len(pass.got) \in Nat
        BY <2>1
    <2>4. QED
        BY <2>1, <2>2, <2>3
<1>2. pass'.got # pass.got
    BY <1>1
<1>3. ~ Refuse
    BY <1>1, <1>2 DEF Refuse, RetrievalTypes
<1>4. ~ Keep /\ ~ UNCHANGED pass
    BY <1>1, <1>2 DEF Keep, RetrievalTypes
<1>5. CASE Writers
    BY <1>4, <1>5 DEF Writers, CreatePage, RevisePage, MovePage, CorrectOccurrence, DeletePage,
        RestorePage, Write, ChangeSectionGrant, ChangeLibraryGrant, EndCredential, EndSession
<1>6. CASE Authenticate
    BY <1>3, <1>4, <1>6 DEF Authenticate
<1>7. CASE ListSections
    BY <1>3, <1>7 DEF ListSections, Asked, MayListSections, RequireCurrentAgent, Admitted, Console
<1>8. CASE ListPages
    BY <1>3, <1>8 DEF ListPages, Asked, MayListPages, RequireCurrentAgent, RequireAction,
        Admitted, Console
<1>9. CASE ListLibraryPages
    BY <1>3, <1>9 DEF ListLibraryPages, Asked, RequireLibrarySection, RequireCurrentAgent,
        RequireAction, Admitted, Console
<1>10. CASE SearchPages
    <2>1. pass.route = "search" /\ live
        BY <1>3, <1>10 DEF SearchPages, Asked, RequireCurrentAgent
    <2>2. Present = SearchItems
        BY <2>1 DEF Present, Items
    <2>3. \E after, binding : Answer(Present, after, pass.limit, binding)
        BY <1>3, <1>10, <2>2 DEF SearchPages
    <2>4. SearchItems # {}
        BY <1>1, <2>2, <2>3, SomethingListed
    <2>5. queryable # {} \/ readable
        BY <2>4 DEF SearchItems, SearchScope
    <2>6. QED
        BY <2>1, <2>5 DEF Admitted, Console
<1>11. CASE BookPage
    BY <1>3, <1>11 DEF BookPage, Asked, BrowserRead, Admitted, Console
<1>12. CASE ListTrash
    BY <1>3, <1>12 DEF ListTrash, Asked, BrowserRead, Admitted, Console
<1>13. CASE ListRevisions
    BY <1>3, <1>13 DEF ListRevisions, Asked, VisiblePage, RequireCurrentAgent, RequireAction,
        Admitted, Console
<1>14. CASE ReadCurrent
    BY <1>3, <1>14 DEF ReadCurrent, Asked, VisiblePage, RequireCurrentAgent, RequireAction,
        Admitted, Console
<1>15. CASE LocatePage
    BY <1>3, <1>15 DEF LocatePage, Asked, MayLocate, RequireCurrentAgent, Admitted, Console
<1>16. CASE ReadRevision
    BY <1>3, <1>16 DEF ReadRevision, Asked, VisiblePage, RequireCurrentAgent, RequireAction,
        Admitted, Console
<1>17. CASE PagePreview
    BY <1>3, <1>17 DEF PagePreview, Asked, BrowserRead, Admitted, Console
<1>18. CASE ReadFile
    BY <1>3, <1>18 DEF ReadFile, Asked, BrowserRead, Admitted, Console
<1>19. QED
    BY <1>5, <1>6, <1>7, <1>8, <1>9, <1>10, <1>11, <1>12, <1>13, <1>14, <1>15, <1>16, <1>17, <1>18
       DEF RetrievalNext, Readers

\* No answer reaches a caller that lost its token, its session or its rights
\* before the read snapshot of the answer (_perform_read,
\* _require_current_agent, BrowserAuth.read).
THEOREM AnswersReachOnlyTheAdmitted == RetrievalSpec => AnswersOnlyTheAdmitted
<1>1. RetrievalInv /\ [RetrievalNext]_retrievalVars
        => [Len(pass'.got) > Len(pass.got) =>
              CASE pass.route \in Console -> session
                [] pass.route = "sections" -> live
                [] pass.route = "search" -> live /\ (queryable # {} \/ readable)
                [] pass.route = "locate" -> live /\ (rows[Watched].place \in queryable \/ readable)
                [] OTHER -> live /\ (Here \in queryable \/ readable)]_retrievalVars
    BY AnswersAdmitted DEF Admitted
<1>2. QED
    BY <1>1, RetrievalInvariant, PTL DEF RetrievalSpec, AnswersOnlyTheAdmitted

-----------------------------------------------------------------------------
(* The administrator's feeds                                               *)

FeedOrder == {pair \in Entries \X Entries : Newer(pair[1], pair[2])}

LEMMA EntriesOrdered == TotalOrder(FeedOrder, Entries)
<1>1. \A x, y \in Entries : <<x, y>> \in FeedOrder <=> Newer(x, y)
    BY DEF FeedOrder
<1>2. \A x \in Entries : /\ x[1] \in Nat /\ x[2] \in Nat /\ x[3] \in Nat
                         /\ x = <<x[1], x[2], x[3]>>
    BY DEF Entries
<1>3. \A x \in Entries : ~ Newer(x, x)
    BY <1>2 DEF Newer
<1>4. \A x, y, z \in Entries : Newer(x, y) /\ Newer(y, z) => Newer(x, z)
    BY <1>2 DEF Newer
<1>5. \A x, y \in Entries : x = y \/ Newer(x, y) \/ Newer(y, x)
    BY <1>2 DEF Newer
<1>6. QED
    BY <1>1, <1>3, <1>4, <1>5 DEF TotalOrder

LEMMA NewestFirstIsOrdered ==
    ASSUME NEW S, S \subseteq Entries, IsFiniteSet(S)
    PROVE  TotalOrder(FeedOrder, S) /\ NewestFirst(S) = Ordered(S, FeedOrder)
<1>1. TotalOrder(FeedOrder, S)
    BY EntriesOrdered DEF TotalOrder
<1>2. ASSUME NEW i \in S
      PROVE  {j \in S : Newer(j, i)} = Earlier(S, FeedOrder, i)
    BY DEF Earlier, FeedOrder
<1>3. ASSUME NEW n \in 1 .. Cardinality(S)
      PROVE  (CHOOSE i \in S : Cardinality({j \in S : Newer(j, i)}) = n - 1)
             = Ordered(S, FeedOrder)[n]
    <2> DEFINE c == CHOOSE i \in S : Cardinality({j \in S : Newer(j, i)}) = n - 1
    <2>1. /\ Ordered(S, FeedOrder)[n] \in S
          /\ Cardinality(Earlier(S, FeedOrder, Ordered(S, FeedOrder)[n])) = n - 1
        BY <1>1, OrderedListing
    <2>2. \E i \in S : Cardinality({j \in S : Newer(j, i)}) = n - 1
        BY <2>1, <1>2
    <2>3. c \in S /\ Cardinality({j \in S : Newer(j, c)}) = n - 1
        BY <2>2
    <2> HIDE DEF c
    <2>4. Cardinality(Earlier(S, FeedOrder, c)) = n - 1
        BY <2>3, <1>2
    <2>5. c = Ordered(S, FeedOrder)[n]
        BY <1>1, <2>1, <2>3, <2>4, CountsAreTaken
    <2>6. QED
        BY <2>5 DEF c
<1>4. NewestFirst(S) = [n \in 1 .. Cardinality(S) |-> Ordered(S, FeedOrder)[n]]
    BY <1>3 DEF NewestFirst
<1>5. Ordered(S, FeedOrder) = [n \in 1 .. Cardinality(S) |-> Ordered(S, FeedOrder)[n]]
    BY DEF Ordered
<1>6. QED
    BY <1>1, <1>4, <1>5

\* The first n of a feed's entries, and what they leave out.
LEMMA FirstEntries ==
    ASSUME NEW S, S \subseteq Entries, IsFiniteSet(S), NEW n \in Nat \ {0}
    PROVE  /\ Cut(First(n, S), Cardinality(S) > n, S, FeedOrder)
           /\ Len(First(n, S)) \in Nat /\ Len(First(n, S)) <= n
           /\ Len(First(n, S)) = IF Cardinality(S) < n THEN Cardinality(S) ELSE n
           /\ \A i \in 1 .. Len(First(n, S)) :
                Cardinality(Earlier(S, FeedOrder, First(n, S)[i])) = i - 1
<1> DEFINE all == Ordered(S, FeedOrder)
           m == IF Cardinality(S) < n THEN Cardinality(S) ELSE n
<1>1. TotalOrder(FeedOrder, S) /\ NewestFirst(S) = all
    BY NewestFirstIsOrdered
<1>2. /\ Cardinality(S) \in Nat /\ all \in Seq(S) /\ Len(all) = Cardinality(S)
      /\ \A i \in 1 .. Cardinality(S) : Cardinality(Earlier(S, FeedOrder, all[i])) = i - 1
    BY <1>1, OrderedListing
<1> HIDE DEF all
<1>3. First(n, S) = SubSeq(all, 1, m)
    BY <1>1, <1>2 DEF First
<1>4. Cut(First(n, S), Cardinality(S) > n, S, FeedOrder)
    BY <1>1, <1>3, LimitCuts DEF all
<1>5. /\ m \in Nat /\ m <= n /\ 1 .. m \subseteq 1 .. Cardinality(S)
    BY <1>2
<1>6. Len(First(n, S)) = m /\ \A i \in 1 .. m : First(n, S)[i] = all[i]
    BY <1>2, <1>3, <1>5
<1>7. QED
    BY <1>2, <1>4, <1>5, <1>6 DEF m

\* One entry more than is shown tells whether there are more.  Here U stands for
\* what was merged of S; what was left out of it lies behind all it gave.
LEMMA FeedCut ==
    ASSUME NEW S, S \subseteq Entries, IsFiniteSet(S), NEW U \in SUBSET S,
           NEW page \in Nat \ {0}, NEW entries, entries = First(page + 1, U),
           \A x \in S \ U : /\ Len(entries) = page + 1
                            /\ \A i \in 1 .. page + 1 : <<entries[i], x>> \in FeedOrder,
           NEW shown,
           shown = SubSeq(entries, 1, IF Len(entries) < page THEN Len(entries) ELSE page)
    PROVE  Cut(shown, Len(entries) > page, S, FeedOrder)
<1> DEFINE m == IF Len(entries) < page THEN Len(entries) ELSE page
<1>1. U \subseteq Entries /\ IsFiniteSet(U) /\ page + 1 \in Nat \ {0}
    BY FS_Subset
<1>2. Cardinality(U) \in Nat
    BY <1>1, FS_CardinalityType
<1>3. /\ Cut(entries, Cardinality(U) > page + 1, U, FeedOrder)
      /\ Len(entries) = IF Cardinality(U) < page + 1 THEN Cardinality(U) ELSE page + 1
    BY <1>1, FirstEntries
<1>4. /\ entries \in Seq(S) /\ Len(entries) \in Nat /\ DOMAIN entries = 1 .. Len(entries)
      /\ \A i \in 1 .. Len(entries) : entries[i] \in Entries
      /\ \A i, j \in 1 .. Len(entries) : i < j => <<entries[i], entries[j]>> \in FeedOrder
    <2>1. entries \in Seq(U) /\ Ascending(entries, FeedOrder)
        BY <1>3 DEF Cut
    <2>2. DOMAIN entries = 1 .. Len(entries) /\ Len(entries) \in Nat
          /\ \A i \in 1 .. Len(entries) : entries[i] \in U
        BY <2>1
    <2>3. entries \in Seq(S)
        BY <2>1
    <2>4. \A i, j \in 1 .. Len(entries) : i < j => <<entries[i], entries[j]>> \in FeedOrder
        BY <2>1, <2>2 DEF Ascending
    <2>5. QED
        BY <1>1, <2>2, <2>3, <2>4
<1>5. m \in Nat /\ 1 .. m \subseteq 1 .. Len(entries) /\ shown = SubSeq(entries, 1, m)
    BY <1>4
<1>6. /\ Len(entries) > page => m = page /\ Len(entries) = page + 1
      /\ ~ Len(entries) > page => m = Len(entries)
    BY <1>2, <1>3, <1>4
<1> HIDE DEF m
<1>7. shown \in Seq(S) /\ Len(shown) = m /\ \A i \in 1 .. m : shown[i] = entries[i]
    BY <1>4, <1>5
<1>8. DOMAIN shown = 1 .. m
    BY <1>7
<1>9. Ascending(shown, FeedOrder)
    BY <1>4, <1>5, <1>7, <1>8 DEF Ascending
<1>10. ASSUME NEW x \in S, Len(entries) > page
       PROVE  Holds(shown, x) \/ <<shown[m], x>> \in FeedOrder
    <2>1. m = page /\ page \in 1 .. Len(entries) /\ page + 1 \in 1 .. Len(entries)
          /\ Len(entries) = page + 1 /\ shown[m] = entries[page]
        BY <1>6, <1>7, <1>10
    <2>2. CASE x \notin U
        BY <2>1, <2>2
    <2>3. CASE Holds(entries, x)
        <3>1. PICK i \in 1 .. page + 1 : entries[i] = x
            BY <1>4, <2>1, <2>3 DEF Holds
        <3>2. CASE i = page + 1
            BY <3>1, <3>2, <2>1, <1>4
        <3>3. CASE i # page + 1
            <4>1. i \in 1 .. m
                BY <3>1, <3>3, <2>1
            <4>2. QED
                BY <3>1, <4>1, <1>7, <1>8 DEF Holds
        <3>4. QED
            BY <3>2, <3>3
    <2>4. CASE x \in U /\ ~ Holds(entries, x)
        <3>1. <<entries[page + 1], x>> \in FeedOrder
            BY <1>3, <2>1, <2>4 DEF Cut
        <3>2. <<entries[page], entries[page + 1]>> \in FeedOrder
            BY <1>4, <2>1
        <3>3. entries[page] \in Entries /\ entries[page + 1] \in Entries /\ x \in Entries
            BY <1>4, <2>1
        <3>4. <<entries[page], x>> \in FeedOrder
            BY <3>1, <3>2, <3>3, EntriesOrdered DEF TotalOrder
        <3>5. QED
            BY <2>1, <3>4
    <2>5. QED
        BY <2>2, <2>3, <2>4
<1>11. ASSUME NEW x \in S, ~ Len(entries) > page
       PROVE  Holds(shown, x)
    <2>1. x \in U
        BY <1>4, <1>11
    <2>2. ~ Cardinality(U) > page + 1
        BY <1>2, <1>3, <1>4, <1>11
    <2>3. Holds(entries, x)
        BY <1>3, <2>1, <2>2 DEF Cut
    <2>4. QED
        BY <1>4, <1>6, <1>7, <1>8, <1>11, <2>3 DEF Holds
<1>12. Len(entries) > page => Len(shown) # 0
    BY <1>6, <1>7
<1>13. QED
    BY <1>7, <1>9, <1>10, <1>11, <1>12 DEF Cut

\* What the n newest of two streams leave out lies behind the n newest of both.
LEMMA MergeLeavesTheRest ==
    ASSUME NEW A, A \subseteq Entries, IsFiniteSet(A), NEW n \in Nat \ {0},
           NEW U, U \subseteq Entries, IsFiniteSet(U), Range(First(n, A)) \subseteq U,
           NEW x \in A, x \notin U
    PROVE  /\ Len(First(n, U)) = n
           /\ \A i \in 1 .. n : <<First(n, U)[i], x>> \in FeedOrder
<1> DEFINE F == First(n, A)
           G == First(n, U)
<1>1. /\ Cut(F, Cardinality(A) > n, A, FeedOrder)
      /\ Len(F) = IF Cardinality(A) < n THEN Cardinality(A) ELSE n
      /\ Cardinality(A) \in Nat
    BY FirstEntries, FS_CardinalityType
<1>2. /\ Cut(G, Cardinality(U) > n, U, FeedOrder)
      /\ Len(G) = IF Cardinality(U) < n THEN Cardinality(U) ELSE n
      /\ Cardinality(U) \in Nat
      /\ \A i \in 1 .. Len(G) : Cardinality(Earlier(U, FeedOrder, G[i])) = i - 1
    BY FirstEntries, FS_CardinalityType
<1>3. \A i \in DOMAIN F : F[i] \in U
    BY DEF Range
<1> HIDE DEF F, G
<1>4. ~ Holds(F, x)
    BY <1>3 DEF Holds
<1>5. Cardinality(A) > n /\ Len(F) = n /\ <<F[n], x>> \in FeedOrder
    <2>1. Cardinality(A) > n
        BY <1>1, <1>4 DEF Cut
    <2>2. QED
        BY <1>1, <1>4, <2>1 DEF Cut
<1>6. /\ DOMAIN F = 1 .. n /\ n \in 1 .. n
      /\ \A i \in 1 .. n : F[i] \in Entries /\ F[i] \in U
      /\ \A i, j \in 1 .. n : i < j => <<F[i], F[j]>> \in FeedOrder
    <2>1. F \in Seq(A) /\ Ascending(F, FeedOrder)
        BY <1>1 DEF Cut
    <2>2. DOMAIN F = 1 .. n
        BY <2>1, <1>5
    <2>3. \A i, j \in 1 .. n : i < j => <<F[i], F[j]>> \in FeedOrder
        BY <2>1, <2>2 DEF Ascending
    <2>4. \A i \in 1 .. n : F[i] \in Entries /\ F[i] \in U
        BY <1>3, <2>2
    <2>5. QED
        BY <2>2, <2>3, <2>4
<1>7. \A i \in 1 .. n : <<F[i], x>> \in FeedOrder
    <2>1. SUFFICES ASSUME NEW i \in 1 .. n
                   PROVE  <<F[i], x>> \in FeedOrder
        OBVIOUS
    <2>2. i = n \/ <<F[i], F[n]>> \in FeedOrder
        BY <1>6
    <2>3. F[i] \in Entries /\ F[n] \in Entries /\ x \in Entries
        BY <1>6
    <2>4. QED
        BY <1>5, <2>2, <2>3, EntriesOrdered DEF TotalOrder
<1>8. \A i, j \in 1 .. n : F[i] = F[j] => i = j
    <2>1. SUFFICES ASSUME NEW i \in 1 .. n, NEW j \in 1 .. n, F[i] = F[j], i < j
                   PROVE  FALSE
        OBVIOUS
    <2>2. <<F[i], F[i]>> \in FeedOrder /\ F[i] \in Entries
        BY <1>6, <2>1
    <2>3. QED
        BY <2>2, EntriesOrdered DEF TotalOrder
<1>9. IsFiniteSet(1 .. n) /\ Cardinality(1 .. n) = n
    BY FS_Interval
\* n elements fit in what holds F.
<1>10. ASSUME NEW T, IsFiniteSet(T), \A i \in 1 .. n : F[i] \in T
       PROVE  n <= Cardinality(T)
    <2> DEFINE f == [i \in 1 .. n |-> F[i]]
    <2>1. f \in Injection(1 .. n, T)
        BY <1>8, <1>10 DEF Injection, IsInjective
    <2>2. QED
        BY <1>9, <1>10, <2>1, FS_Injection
<1>11. Len(G) = n
    <2>1. n <= Cardinality(U)
        BY <1>6, <1>10
    <2>2. QED
        BY <1>2, <2>1
<1>12. ASSUME NEW i \in 1 .. n
       PROVE  <<G[i], x>> \in FeedOrder
    <2>1. G[i] \in U /\ G[i] \in Entries
        BY <1>2, <1>11 DEF Cut
    <2>2. G[i] # x
        BY <2>1
    <2>3. ASSUME <<x, G[i]>> \in FeedOrder
          PROVE  FALSE
        <3> DEFINE T == Earlier(U, FeedOrder, G[i])
        <3>1. \A j \in 1 .. n : F[j] \in T
            BY <1>6, <1>7, <2>1, <2>3, EntriesOrdered DEF TotalOrder, Earlier
        <3>2. IsFiniteSet(T)
            BY FS_Subset DEF Earlier
        <3>3. Cardinality(T) = i - 1
            BY <1>2, <1>11
        <3>4. n <= i - 1
            BY <3>1, <3>2, <3>3, <1>10
        <3>5. QED
            BY <3>4
    <2>4. QED
        BY <2>1, <2>2, <2>3, EntriesOrdered DEF TotalOrder
<1>13. QED
    BY <1>11, <1>12 DEF G

FeedTypes ==
    /\ audits \subseteq Entries /\ IsFiniteSet(audits)
    /\ \A e \in audits : e[3] \in {1, 2}
    /\ log \subseteq Entries /\ IsFiniteSet(log)
    /\ retained \in Nat /\ login \in Nat
    /\ walk \in [feed: {"activity", "actor", "requests"},
                 status: {"fresh", "open", "complete", "refused"},
                 cursor: {NoPosition} \cup [at: Entries, login: Nat],
                 got: Seq(Entries), stayed: SUBSET Entries]

\* Where the walk stands, as for the other listings.
FeedWalkOK ==
    /\ Ascending(walk.got, FeedOrder)
    /\ walk.status = "fresh" => walk.cursor = NoPosition /\ walk.got = << >>
    /\ walk.status = "open" =>
        /\ walk.cursor # NoPosition
        /\ Len(walk.got) # 0 /\ walk.cursor.at = walk.got[Len(walk.got)]
        /\ walk.stayed \subseteq Visible(walk.feed)
        /\ \A x \in walk.stayed : Holds(walk.got, x) \/ <<walk.cursor.at, x>> \in FeedOrder
    /\ walk.status = "complete" => \A x \in walk.stayed : Holds(walk.got, x)

\* The inductive invariant of the feeds.
FeedInv == FeedTypes /\ FeedWalkOK

\* What lies beyond the cursor.
Rest == {e \in Visible(walk.feed) : Before = NoPosition \/ Newer(Before, e)}

LEMMA FeedFinite ==
    ASSUME FeedTypes
    PROVE  Visible(walk.feed) \subseteq Entries /\ IsFiniteSet(Visible(walk.feed))
<1>1. walk.feed \in {"activity", "actor", "requests"}
    BY DEF FeedTypes
<1>2. Visible(walk.feed) \in SUBSET audits \/ Visible(walk.feed) \in SUBSET log
    BY <1>1 DEF Visible
<1>3. QED
    BY <1>2, FS_Subset DEF FeedTypes

\* The position asked for is none, or that of the last entry shown.
LEMMA BeforeIsLast ==
    ASSUME FeedInv, Reading
    PROVE  /\ walk.status = "fresh" => Before = NoPosition /\ Len(walk.got) = 0
           /\ walk.status = "open" =>
                /\ Before # NoPosition /\ Before \in Entries
                /\ Before = walk.cursor.at /\ Before = walk.got[Len(walk.got)]
<1>1. CASE walk.status = "fresh"
    BY <1>1 DEF FeedInv, FeedWalkOK, Before
<1>2. CASE walk.status = "open"
    <2>1. walk.cursor # NoPosition /\ walk.cursor \in [at: Entries, login: Nat]
        BY <1>2 DEF FeedInv, FeedTypes, FeedWalkOK
    <2>2. Before = walk.cursor.at /\ Before \in Entries
        BY <2>1 DEF Before
    <2>3. Before # NoPosition
        BY <2>2, NoPositionAssumption
    <2>4. QED
        BY <1>2, <2>2, <2>3 DEF FeedInv, FeedWalkOK
<1>3. QED
    BY <1>1, <1>2 DEF Reading

\* An answer that cuts what lies beyond the cursor.
LEMMA ShowKeeps ==
    ASSUME FeedInv, Reading, NEW entries, Show(entries),
           Cut(SubSeq(entries, 1, IF Len(entries) < PageSize THEN Len(entries) ELSE PageSize),
               Len(entries) > PageSize, Rest, FeedOrder),
           UNCHANGED <<audits, log, retained, login>>
    PROVE  FeedInv'
<1> DEFINE shown == SubSeq(entries, 1, IF Len(entries) < PageSize THEN Len(entries) ELSE PageSize)
           more == Len(entries) > PageSize
           got == walk.got
<1>1. /\ walk.feed \in {"activity", "actor", "requests"} /\ got \in Seq(Entries)
      /\ walk.stayed \subseteq Entries /\ Ascending(got, FeedOrder) /\ login \in Nat
    BY DEF FeedInv, FeedTypes, FeedWalkOK
<1>2. Visible(walk.feed) \subseteq Entries /\ Rest \subseteq Visible(walk.feed)
    BY FeedFinite DEF FeedInv, Rest
<1>3. /\ walk'.feed = walk.feed /\ walk'.got = got \o shown
      /\ walk'.status = IF more THEN "open" ELSE "complete"
      /\ walk'.cursor = IF more THEN [at |-> shown[Len(shown)], login |-> login] ELSE NoPosition
      /\ walk'.stayed = IF walk.status = "fresh" THEN Visible(walk.feed) ELSE walk.stayed
      /\ walk' = [feed |-> walk'.feed, status |-> walk'.status, cursor |-> walk'.cursor,
                  got |-> walk'.got, stayed |-> walk'.stayed]
    BY DEF Show, FeedInv, FeedTypes
<1>4. Visible(walk.feed)' = Visible(walk.feed)
    BY <1>3 DEF Visible
<1>5. /\ Len(got) # 0 => \A x \in Rest : <<got[Len(got)], x>> \in FeedOrder
      /\ \A x \in walk'.stayed : x \in Visible(walk.feed) /\ (Holds(got, x) \/ x \in Rest)
    <2>1. CASE walk.status = "fresh"
        <3>1. Before = NoPosition /\ Len(got) = 0
            BY <2>1, BeforeIsLast
        <3>2. Rest = Visible(walk.feed)
            BY <3>1 DEF Rest
        <3>3. QED
            BY <1>3, <2>1, <3>1, <3>2
    <2>2. CASE walk.status = "open"
        <3>1. /\ Before # NoPosition /\ Before \in Entries
              /\ Before = walk.cursor.at /\ Before = got[Len(got)]
            BY <2>2, BeforeIsLast
        <3>2. \A x \in Visible(walk.feed) : x \in Rest <=> <<Before, x>> \in FeedOrder
            BY <1>2, <3>1 DEF Rest, FeedOrder
        <3>3. walk'.stayed = walk.stayed
            BY <1>3, <2>2
        <3>4. \A x \in walk.stayed : x \in Visible(walk.feed)
                /\ (Holds(got, x) \/ <<walk.cursor.at, x>> \in FeedOrder)
            BY <2>2 DEF FeedInv, FeedWalkOK
        <3>5. QED
            BY <1>2, <3>1, <3>2, <3>3, <3>4
    <2>3. QED
        BY <2>1, <2>2 DEF Reading
<1>6. /\ Cut(shown, more, Rest, FeedOrder)
      /\ shown \in Seq(Rest) /\ Ascending(shown, FeedOrder)
      /\ more => Len(shown) # 0
    BY DEF Cut
<1> HIDE DEF shown, more, got
<1>7. /\ got \o shown \in Seq(Entries) /\ Ascending(got \o shown, FeedOrder)
      /\ \A x : Holds(got, x) \/ Holds(shown, x) => Holds(got \o shown, x)
      /\ Len(shown) # 0 => /\ Len(got \o shown) # 0
                           /\ shown[Len(shown)] = (got \o shown)[Len(got \o shown)]
                           /\ shown[Len(shown)] \in Entries
    <2>1. Rest \subseteq Entries
        BY <1>2
    <2>2. QED
        BY <2>1, <1>1, <1>5, <1>6, EntriesOrdered, WalkGoesOn
<1>8. more => walk'.cursor \in [at: Entries, login: Nat] /\ walk'.cursor # NoPosition
    BY <1>1, <1>3, <1>6, <1>7, NoPositionAssumption
<1>9. FeedTypes'
    <2>1. walk'.stayed \subseteq Entries
        BY <1>1, <1>2, <1>3
    <2>2. walk'.status \in {"open", "complete"}
          /\ walk'.cursor \in {NoPosition} \cup [at: Entries, login: Nat]
        BY <1>3, <1>8
    <2>3. walk' \in [feed: {"activity", "actor", "requests"},
                 status: {"fresh", "open", "complete", "refused"},
                 cursor: {NoPosition} \cup [at: Entries, login: Nat],
                 got: Seq(Entries), stayed: SUBSET Entries]
        BY <1>1, <1>3, <1>7, <2>1, <2>2
    <2>4. QED
        BY <2>3 DEF FeedInv, FeedTypes
<1>10. FeedWalkOK'
    <2>1. ASSUME more
          PROVE  /\ walk'.cursor # NoPosition
                 /\ Len(walk'.got) # 0 /\ walk'.cursor.at = walk'.got[Len(walk'.got)]
                 /\ walk'.stayed \subseteq Visible(walk.feed)'
                 /\ \A x \in walk'.stayed :
                        Holds(walk'.got, x) \/ <<walk'.cursor.at, x>> \in FeedOrder
        <3>1. walk'.cursor = [at |-> shown[Len(shown)], login |-> login]
            BY <1>3, <2>1
        <3>2. \A x \in Rest : Holds(shown, x) \/ <<shown[Len(shown)], x>> \in FeedOrder
            BY <1>6, <2>1 DEF Cut
        <3>3. walk'.cursor.at = shown[Len(shown)]
            BY <3>1
        <3>4. \A x \in walk'.stayed :
                Holds(walk'.got, x) \/ <<walk'.cursor.at, x>> \in FeedOrder
            BY <1>3, <1>5, <1>7, <3>2, <3>3
        <3>5. QED
            BY <1>3, <1>4, <1>5, <1>6, <1>7, <1>8, <2>1, <3>3, <3>4
    <2>2. ASSUME ~more, NEW x \in walk'.stayed
          PROVE  Holds(walk'.got, x)
        <3>1. \A y \in Rest : Holds(shown, y)
            BY <1>6, <2>2 DEF Cut
        <3>2. QED
            BY <1>3, <1>5, <1>7, <2>2, <3>1
    <2>3. /\ walk'.status \in {"open", "complete"}
          /\ walk'.status = "open" <=> more
        BY <1>3
    <2>4. Ascending(walk'.got, FeedOrder)
        BY <1>3, <1>7
    <2>5. QED
        BY <2>1, <2>2, <2>3, <2>4 DEF FeedWalkOK
<1>11. QED
    BY <1>9, <1>10 DEF FeedInv

\* The merged streams are cut like the whole feed.
LEMMA ActivityCuts ==
    ASSUME FeedInv, Reading, walk.feed \in {"activity", "actor"}
    PROVE  LET entries == ActivityEntries(PageSize + 1, Before, walk.feed = "actor")
           IN  Cut(SubSeq(entries, 1, IF Len(entries) < PageSize THEN Len(entries) ELSE PageSize),
                   Len(entries) > PageSize, Rest, FeedOrder)
<1> DEFINE n == PageSize + 1
           actor == walk.feed = "actor"
           A == {e \in audits : e[3] = 1 /\ ActivityBefore(e, Before)}
           B == IF actor THEN {} ELSE {e \in audits : e[3] = 2 /\ ActivityBefore(e, Before)}
           UA == AgentEntries(n, Before)
           UB == MasterEntries(n, Before, actor)
           U == UA \cup UB
           entries == ActivityEntries(n, Before, actor)
<1>1. PageSize \in Nat \ {0} /\ n \in Nat \ {0}
    BY FeedConstants
<1>2. /\ audits \subseteq Entries /\ IsFiniteSet(audits) /\ \A e \in audits : e[3] \in {1, 2}
    BY DEF FeedInv, FeedTypes
<1>3. /\ A \subseteq Entries /\ IsFiniteSet(A) /\ B \subseteq Entries /\ IsFiniteSet(B)
    <2>1. A \in SUBSET audits /\ B \in SUBSET audits
        OBVIOUS
    <2>2. QED
        BY <1>2, <2>1, FS_Subset
<1>4. Rest = A \cup B
    <2>1. Before = NoPosition \/ Before \in Entries
        BY BeforeIsLast DEF Reading
    <2>2. ASSUME NEW e \in audits
          PROVE  ActivityBefore(e, Before) <=> Before = NoPosition \/ Newer(Before, e)
        <3>1. CASE Before = NoPosition
            BY <3>1 DEF ActivityBefore
        <3>2. CASE Before # NoPosition
            <4>1. /\ e[1] \in Nat /\ e[2] \in Nat /\ e[3] \in Nat
                  /\ Before[1] \in Nat /\ Before[2] \in Nat /\ Before[3] \in Nat
                BY <1>2, <2>1, <3>2 DEF Entries
            <4>2. QED
                BY <3>2, <4>1 DEF ActivityBefore, Newer
        <3>3. QED
            BY <3>1, <3>2
    <2>3. CASE actor
        <3>1. Visible(walk.feed) = {e \in audits : e[3] = 1}
            BY <2>3 DEF Visible
        <3>2. QED
            BY <2>2, <2>3, <3>1 DEF Rest
    <2>4. CASE ~actor
        <3>1. Visible(walk.feed) = audits
            BY <2>4 DEF Visible
        <3>2. QED
            BY <1>2, <2>2, <2>4, <3>1 DEF Rest
    <2>5. QED
        BY <2>3, <2>4
<1>5. UA = Range(First(n, A)) /\ entries = First(n, U)
    BY DEF AgentEntries, ActivityEntries
<1>6. UB = Range(First(n, B)) \/ (UB = {} /\ B = {})
    BY DEF MasterEntries
<1> HIDE DEF A, B, UA, UB, n, entries
<1>7. UA \subseteq A /\ UB \subseteq B
    <2>1. ASSUME NEW S, S \subseteq Entries, IsFiniteSet(S)
          PROVE  Range(First(n, S)) \subseteq S
        <3>1. First(n, S) \in Seq(S)
            BY <1>1, <2>1, FirstEntries DEF Cut
        <3>2. QED
            BY <3>1 DEF Range
    <2>2. QED
        BY <1>3, <1>5, <1>6, <2>1
<1>8. /\ U \in SUBSET Rest /\ Rest \subseteq Entries /\ IsFiniteSet(Rest)
      /\ U \subseteq Entries /\ IsFiniteSet(U)
    <2>1. Rest \subseteq audits
        BY <1>3, <1>4 DEF A, B
    <2>2. U \in SUBSET Rest /\ Rest \in SUBSET audits
        BY <1>4, <1>7, <2>1
    <2>3. QED
        BY <1>2, <2>2, FS_Subset
<1>9. ASSUME NEW x \in Rest \ U
      PROVE  Len(entries) = n /\ \A i \in 1 .. n : <<entries[i], x>> \in FeedOrder
    <2>1. CASE x \in A
        BY <1>1, <1>3, <1>5, <1>8, <1>9, <2>1, MergeLeavesTheRest
    <2>2. CASE x \in B
        <3>1. UB = Range(First(n, B))
            BY <1>6, <2>2
        <3>2. QED
            BY <1>1, <1>3, <1>5, <1>8, <1>9, <2>2, <3>1, MergeLeavesTheRest
    <2>3. QED
        BY <1>4, <1>9, <2>1, <2>2
<1>10. Cut(SubSeq(entries, 1, IF Len(entries) < PageSize THEN Len(entries) ELSE PageSize),
           Len(entries) > PageSize, Rest, FeedOrder)
    BY <1>1, <1>5, <1>8, <1>9, FeedCut DEF n
<1>11. QED
    BY <1>10 DEF entries, n

\* The request log's condition and limit cut its rows.
LEMMA RequestLogCuts ==
    ASSUME FeedInv, Reading, walk.feed = "requests"
    PROVE  LET entries == LogEntries(PageSize + 1, Before)
           IN  Cut(SubSeq(entries, 1, IF Len(entries) < PageSize THEN Len(entries) ELSE PageSize),
                   Len(entries) > PageSize, Rest, FeedOrder)
<1> DEFINE entries == LogEntries(PageSize + 1, Before)
<1>1. PageSize \in Nat \ {0}
    BY FeedConstants
<1>2. Rest = {e \in log : e[1] >= retained /\ (Before = NoPosition \/ Newer(Before, e))}
    BY DEF Rest, Visible
<1>3. entries = First(PageSize + 1, Rest)
    BY <1>2 DEF LogEntries
<1>4. Rest \subseteq Entries /\ IsFiniteSet(Rest)
    <2>1. Rest \in SUBSET log
        BY <1>2
    <2>2. QED
        BY <2>1, FS_Subset DEF FeedInv, FeedTypes
<1> HIDE DEF entries
<1>5. Cut(SubSeq(entries, 1, IF Len(entries) < PageSize THEN Len(entries) ELSE PageSize),
          Len(entries) > PageSize, Rest, FeedOrder)
    BY <1>1, <1>3, <1>4, FeedCut
<1>6. QED
    BY <1>5 DEF entries

\* What changes during a walk only takes entries out of what was there all along.
LEMMA KeepWalkKeeps ==
    ASSUME FeedInv, KeepWalk,
           audits' \subseteq Entries /\ IsFiniteSet(audits'),
           \A e \in audits' : e[3] \in {1, 2},
           log' \subseteq Entries /\ IsFiniteSet(log'),
           retained' \in Nat /\ login' \in Nat
    PROVE  FeedInv'
<1>1. PICK feed \in {walk.feed} : walk' = [walk EXCEPT !.stayed = @ \cap Visible(feed)']
    BY DEF KeepWalk
<1>2. walk' = [walk EXCEPT !.stayed = @ \cap Visible(feed)']
    BY <1>1
<1>3. walk \in [feed: {"activity", "actor", "requests"},
                status: {"fresh", "open", "complete", "refused"},
                cursor: {NoPosition} \cup [at: Entries, login: Nat],
                got: Seq(Entries), stayed: SUBSET Entries]
    BY DEF FeedInv, FeedTypes
<1>4. /\ walk'.feed = walk.feed /\ walk'.status = walk.status /\ walk'.cursor = walk.cursor
      /\ walk'.got = walk.got /\ walk'.stayed = walk.stayed \cap Visible(feed)'
      /\ walk' = [feed |-> walk'.feed, status |-> walk'.status, cursor |-> walk'.cursor,
                  got |-> walk'.got, stayed |-> walk'.stayed]
    BY <1>2, <1>3
<1>5. walk'.stayed \subseteq walk.stayed /\ walk'.stayed \subseteq Visible(walk.feed)'
    <2>1. feed = walk.feed
        OBVIOUS
    <2>2. Visible(walk.feed)' = Visible(feed)'
        BY <2>1, <1>4 DEF Visible
    <2>3. QED
        BY <1>4, <2>2
<1>6. FeedTypes'
    <2>1. walk'.stayed \in SUBSET Entries
        BY <1>3, <1>5
    <2>2. walk' \in [feed: {"activity", "actor", "requests"},
                status: {"fresh", "open", "complete", "refused"},
                cursor: {NoPosition} \cup [at: Entries, login: Nat],
                got: Seq(Entries), stayed: SUBSET Entries]
        BY <1>3, <1>4, <2>1
    <2>3. QED
        BY <2>2 DEF FeedTypes
<1>7. FeedWalkOK'
    BY <1>4, <1>5 DEF FeedInv, FeedWalkOK
<1>8. QED
    BY <1>6, <1>7 DEF FeedInv

LEMMA FeedStep == FeedInv /\ [FeedNext]_feedVars => FeedInv'
<1> SUFFICES ASSUME FeedInv, [FeedNext]_feedVars
             PROVE  FeedInv'
    OBVIOUS
<1>1. /\ audits \subseteq Entries /\ IsFiniteSet(audits) /\ \A e \in audits : e[3] \in {1, 2}
      /\ log \subseteq Entries /\ IsFiniteSet(log) /\ Cardinality(log) \in Nat
      /\ retained \in Nat /\ login \in Nat
    BY FS_CardinalityType DEF FeedInv, FeedTypes
<1>2. CASE ActivityPage
    BY <1>2, ActivityCuts, ShowKeeps DEF ActivityPage
<1>3. CASE RequestLogPage
    <2>1. CASE BoundToSession
        BY <1>3, <2>1, RequestLogCuts, ShowKeeps DEF RequestLogPage
    <2>2. CASE ~BoundToSession
        <3>1. walk' = [walk EXCEPT !.status = "refused"]
            BY <1>3, <2>2 DEF RequestLogPage
        <3>2. walk \in [feed: {"activity", "actor", "requests"},
                status: {"fresh", "open", "complete", "refused"},
                cursor: {NoPosition} \cup [at: Entries, login: Nat],
                got: Seq(Entries), stayed: SUBSET Entries]
            BY DEF FeedInv, FeedTypes
        <3>3. walk' \in [feed: {"activity", "actor", "requests"},
                status: {"fresh", "open", "complete", "refused"},
                cursor: {NoPosition} \cup [at: Entries, login: Nat],
                got: Seq(Entries), stayed: SUBSET Entries]
              /\ walk'.status = "refused" /\ walk'.got = walk.got
            BY <3>1, <3>2
        <3>4. FeedTypes'
            BY <1>1, <1>3, <3>3 DEF RequestLogPage, FeedTypes
        <3>5. FeedWalkOK'
            BY <3>3 DEF FeedInv, FeedWalkOK
        <3>6. QED
            BY <3>4, <3>5 DEF FeedInv
    <2>3. QED
        BY <2>1, <2>2
<1>4. CASE Audit
    <2>1. PICK at \in Instants, id \in Ids, source \in {1, 2} :
            audits' = audits \cup {<<at, id, source>>}
        BY <1>4 DEF Audit
    <2>2. at \in Nat /\ id \in Nat /\ source \in Nat
        BY FeedConstants
    <2>3. <<at, id, source>> \in Entries
        BY <2>2 DEF Entries
    <2>4. audits' \subseteq Entries /\ IsFiniteSet(audits')
        BY <1>1, <2>1, <2>3, FS_AddElement
    <2>5. \A e \in audits' : e[3] \in {1, 2}
        BY <1>1, <2>1
    <2>6. QED
        BY <1>1, <1>4, <2>4, <2>5, KeepWalkKeeps DEF Audit
<1>5. CASE LogRequest
    <2>1. PICK at \in Instants : log' = log \cup {<<at, Cardinality(log) + 1, 0>>}
        BY <1>5 DEF LogRequest
    <2>2. <<at, Cardinality(log) + 1, 0>> \in Entries
        BY <1>1, FeedConstants DEF Entries
    <2>3. log' \subseteq Entries /\ IsFiniteSet(log')
        BY <1>1, <2>1, <2>2, FS_AddElement
    <2>4. QED
        BY <1>1, <1>5, <2>3, KeepWalkKeeps DEF LogRequest
<1>6. CASE Age
    BY <1>1, <1>6, KeepWalkKeeps DEF Age
<1>7. CASE SignInAgain
    <2>1. login' \in Nat /\ UNCHANGED <<audits, log, retained, walk>>
        BY <1>1, <1>7 DEF SignInAgain
    <2>2. QED
        BY <2>1 DEF FeedInv, FeedTypes, FeedWalkOK, Visible
<1>8. CASE UNCHANGED feedVars
    BY <1>8 DEF feedVars, FeedInv, FeedTypes, FeedWalkOK, Visible
<1>9. QED
    BY <1>2, <1>3, <1>4, <1>5, <1>6, <1>7, <1>8 DEF FeedNext

LEMMA FeedStart == FeedInit => FeedInv
<1> SUFFICES ASSUME FeedInit
             PROVE  FeedInv
    OBVIOUS
<1>1. /\ audits = {} /\ log = {} /\ retained = 1 /\ login = 1
      /\ walk \in [feed: {"activity", "actor", "requests"}, status: {"fresh"},
                   cursor: {NoPosition}, got: {<< >>}, stayed: {{}}]
    BY DEF FeedInit
<1>2. /\ walk.feed \in {"activity", "actor", "requests"} /\ walk.status = "fresh"
      /\ walk.cursor = NoPosition /\ walk.got = << >> /\ walk.stayed = {}
      /\ walk = [feed |-> walk.feed, status |-> walk.status, cursor |-> walk.cursor,
                 got |-> walk.got, stayed |-> walk.stayed]
    BY <1>1
<1>3. << >> \in Seq(Entries) /\ {} \in SUBSET Entries
    OBVIOUS
<1>4. walk \in [feed: {"activity", "actor", "requests"},
                status: {"fresh", "open", "complete", "refused"},
                cursor: {NoPosition} \cup [at: Entries, login: Nat],
                got: Seq(Entries), stayed: SUBSET Entries]
    BY <1>2, <1>3
<1>5. FeedTypes
    BY <1>1, <1>4, FS_EmptySet DEF FeedTypes
<1>6. Ascending(walk.got, FeedOrder)
    BY <1>2 DEF Ascending
<1>7. FeedWalkOK
    BY <1>2, <1>6 DEF FeedWalkOK
<1>8. QED
    BY <1>5, <1>7 DEF FeedInv

\* A merged feed shows every entry that could be shown at every moment of a walk
\* at most once, and exactly once when the walk reaches the end
\* (_content_activity_entries, request_log_page).
THEOREM FeedsNeitherSkipNorRepeat == FeedSpec => []FeedListedExactlyOnce
<1>1. FeedInv => FeedListedExactlyOnce
    <2> SUFFICES ASSUME FeedInv, NEW e \in walk.stayed
                 PROVE  LET times == Cardinality({i \in DOMAIN walk.got : walk.got[i] = e})
                        IN  /\ times <= 1
                            /\ walk.status = "complete" => times = 1
        BY DEF FeedListedExactlyOnce
    <2>1. walk.got \in Seq(Entries) /\ Ascending(walk.got, FeedOrder)
        BY DEF FeedInv, FeedTypes, FeedWalkOK
    <2>2. walk.status = "complete" => Holds(walk.got, e)
        BY DEF FeedInv, FeedWalkOK
    <2>3. QED
        BY <2>1, <2>2, EntriesOrdered, TimesInOrder
<1>2. QED
    BY <1>1, FeedStart, FeedStep, PTL DEF FeedSpec
=============================================================================
