--------------------------- MODULE AnswerPathProofs ---------------------------
(***************************************************************************)
(* What holds of rankings and answers for every corpus, every retrieval    *)
(* variant, every identifier and every draft, and of the measures for      *)
(* every discount, every set of documents and every sample.                *)
(***************************************************************************)
EXTENDS AnswerPath, FiniteSetTheorems, WellFoundedInduction, TLAPS

-----------------------------------------------------------------------------
(* Orders.  The place of a member of a finite set in a strict order is the *)
(* number of members before it, so InOrder finds exactly one for each.     *)
StrictOrder(S, R) ==
  /\ \A d \in S : <<d, d>> \notin R
  /\ \A d, e \in S : d # e => <<d, e>> \in R \/ <<e, d>> \in R
  /\ \A d, e, f \in S : <<d, e>> \in R /\ <<e, f>> \in R => <<d, f>> \in R

Preceding(S, R, d) == {e \in S : <<e, d>> \in R}
Rank(S, R, d) == Cardinality(Preceding(S, R, d)) + 1

LEMMA RankBounds ==
  ASSUME NEW S, IsFiniteSet(S), NEW R, StrictOrder(S, R)
  PROVE  /\ Cardinality(S) \in Nat
         /\ \A d \in S : Rank(S, R, d) \in 1..Cardinality(S)
         /\ \A d, e \in S : <<d, e>> \in R => Rank(S, R, d) < Rank(S, R, e)
<1>1. \A d \in S : /\ Preceding(S, R, d) \in SUBSET S /\ d \notin Preceding(S, R, d)
                   /\ IsFiniteSet(Preceding(S, R, d))
  BY FS_Subset DEF Preceding, StrictOrder
<1>2. Cardinality(S) \in Nat /\ \A d \in S : Cardinality(Preceding(S, R, d)) \in Nat
  BY <1>1, FS_CardinalityType
<1>3. ASSUME NEW d \in S
      PROVE  Cardinality(Preceding(S, R, d)) < Cardinality(S)
  <2>1. Preceding(S, R, d) # S
    BY <1>1
  <2>2. Cardinality(Preceding(S, R, d)) # Cardinality(S)
    BY <1>1, <2>1, FS_Subset
  <2>3. Cardinality(Preceding(S, R, d)) <= Cardinality(S)
    BY <1>1, FS_Subset
  <2> QED
    BY <1>2, <2>2, <2>3
<1>4. ASSUME NEW d \in S, NEW e \in S, <<d, e>> \in R
      PROVE  Cardinality(Preceding(S, R, d)) < Cardinality(Preceding(S, R, e))
  <2>1. Preceding(S, R, d) \in SUBSET Preceding(S, R, e)
    BY <1>4 DEF Preceding, StrictOrder
  <2>2. d \in Preceding(S, R, e) /\ d \notin Preceding(S, R, d)
    BY <1>1, <1>4 DEF Preceding
  <2>3. Cardinality(Preceding(S, R, d)) # Cardinality(Preceding(S, R, e))
    BY <1>1, <2>1, <2>2, FS_Subset
  <2>4. Cardinality(Preceding(S, R, d)) <= Cardinality(Preceding(S, R, e))
    BY <1>1, <2>1, FS_Subset
  <2> QED
    BY <1>2, <2>3, <2>4
<1> QED
  BY <1>2, <1>3, <1>4 DEF Rank

LEMMA EveryRankTaken ==
  ASSUME NEW S, IsFiniteSet(S), NEW R, StrictOrder(S, R), NEW i \in 1..Cardinality(S)
  PROVE  \E d \in S : Rank(S, R, d) = i
<1> DEFINE n == Cardinality(S)
           f == [d \in S |-> Rank(S, R, d)]
<1>1. n \in Nat /\ IsFiniteSet(1..n) /\ Cardinality(1..n) = n
  BY RankBounds, FS_Interval
<1>2. f \in Injection(S, 1..n)
  <2>1. f \in [S -> 1..n]
    BY RankBounds
  <2>2. ASSUME NEW d \in S, NEW e \in S, Rank(S, R, d) = Rank(S, R, e)
        PROVE  d = e
    <3>1. <<d, e>> \notin R /\ <<e, d>> \notin R
      BY <1>1, <2>2, RankBounds
    <3> QED
      BY <3>1 DEF StrictOrder
  <2> QED
    BY <2>1, <2>2 DEF Injection, IsInjective
<1>3. f \in Surjection(S, 1..n)
  BY <1>1, <1>2, FS_Injection
<1> QED
  BY <1>3 DEF Surjection

LEMMA FunctionIsSeq ==
  ASSUME NEW D, NEW n \in Nat, NEW s \in [1..n -> D]
  PROVE  s \in Seq(D) /\ Len(s) = n /\ DOMAIN s = 1..n
OBVIOUS

(* InOrder lists every member once, the earlier ones first. *)
LEMMA InOrderSorts ==
  ASSUME NEW S, IsFiniteSet(S), NEW R, StrictOrder(S, R)
  PROVE  LET s == InOrder(S, R) IN
         /\ s \in Seq(S) /\ Len(s) = Cardinality(S) /\ IsInjective(s) /\ Range(s) = S
         /\ \A d \in S : Rank(S, R, d) \in DOMAIN s /\ s[Rank(S, R, d)] = d
         /\ \A i \in DOMAIN s : Rank(S, R, s[i]) = i
         /\ \A i, j \in DOMAIN s : i < j => <<s[i], s[j]>> \in R
<1> DEFINE s == InOrder(S, R)
           n == Cardinality(S)
<1>1. n \in Nat
  BY RankBounds
<1>2. s = [i \in 1..n |-> CHOOSE d \in S : Cardinality(Preceding(S, R, d)) = i - 1]
  BY DEF InOrder, Preceding
<1>3. ASSUME NEW i \in 1..n
      PROVE  s[i] \in S /\ Rank(S, R, s[i]) = i
  <2>1. PICK d \in S : Rank(S, R, d) = i
    BY EveryRankTaken
  <2>2. \A e \in S : Cardinality(Preceding(S, R, e)) \in Nat
    BY FS_Subset, FS_CardinalityType DEF Preceding
  <2>3. Cardinality(Preceding(S, R, d)) = i - 1
    BY <1>1, <2>1, <2>2 DEF Rank
  <2> HIDE DEF s
  <2>4. s[i] \in S /\ Cardinality(Preceding(S, R, s[i])) = i - 1
    BY <1>2, <2>3
  <2> QED
    BY <1>1, <2>2, <2>4 DEF Rank
<1>4. s \in Seq(S) /\ Len(s) = n /\ DOMAIN s = 1..n
  <2>1. s \in [1..n -> S]
    BY <1>2, <1>3
  <2> HIDE DEF s, n
  <2> QED
    BY <1>1, <2>1, FunctionIsSeq
<1>5. IsInjective(s)
  BY <1>3, <1>4 DEF IsInjective
<1>6. ASSUME NEW d \in S
      PROVE  Rank(S, R, d) \in 1..n /\ s[Rank(S, R, d)] = d
  <2>1. Rank(S, R, d) \in 1..n
    BY RankBounds
  <2>2. Rank(S, R, s[Rank(S, R, d)]) = Rank(S, R, d) /\ s[Rank(S, R, d)] \in S
    BY <1>3, <2>1
  <2>3. \A e \in S : Rank(S, R, e) = Rank(S, R, d) => e = d
    <3> SUFFICES ASSUME NEW e \in S, Rank(S, R, e) = Rank(S, R, d)
                 PROVE  e = d
      OBVIOUS
    <3>1. <<d, e>> \notin R /\ <<e, d>> \notin R
      BY <1>1, RankBounds
    <3> QED
      BY <3>1 DEF StrictOrder
  <2> QED
    BY <2>1, <2>2, <2>3
<1>7. Range(s) = S
  BY <1>3, <1>4, <1>6 DEF Range
<1>8. ASSUME NEW i \in 1..n, NEW j \in 1..n, i < j
      PROVE  <<s[i], s[j]>> \in R
  <2>1. s[i] \in S /\ s[j] \in S /\ Rank(S, R, s[i]) = i /\ Rank(S, R, s[j]) = j
    BY <1>3
  <2>2. s[i] # s[j] /\ <<s[j], s[i]>> \notin R
    BY <1>1, <1>8, <2>1, RankBounds
  <2> QED
    BY <2>1, <2>2 DEF StrictOrder
<1> QED
  BY <1>3, <1>4, <1>5, <1>6, <1>7, <1>8

-----------------------------------------------------------------------------
(* Fractions with positive denominators are ordered as numbers are. *)
Fraction == Int \X (Nat \ {0})

LEMMA ScaledOrder ==
  ASSUME NEW a \in Int, NEW b \in Int, NEW c \in Nat \ {0}
  PROVE  (a <= b) <=> (a * c <= b * c)
OBVIOUS

LEMMA AtMostOrder ==
  ASSUME NEW x \in Fraction, NEW y \in Fraction, NEW z \in Fraction
  PROVE  /\ AtMost(x, y) \/ AtMost(y, x)
         /\ Below(x, y) <=> ~AtMost(y, x)
         /\ Equals(x, y) <=> (AtMost(x, y) /\ AtMost(y, x))
         /\ AtMost(x, y) /\ AtMost(y, z) => AtMost(x, z)
<1> DEFINE a == x[1]  b == x[2]  c == y[1]  d == y[2]  e == z[1]  f == z[2]
<1>1. a \in Int /\ c \in Int /\ e \in Int /\ b \in Nat \ {0} /\ d \in Nat \ {0} /\ f \in Nat \ {0}
  BY DEF Fraction
<1>2. /\ a * d \in Int /\ c * b \in Int /\ c * f \in Int /\ e * d \in Int
      /\ a * f \in Int /\ e * b \in Int
  BY <1>1
<1>3. ASSUME a * d <= c * b, c * f <= e * d
      PROVE  a * f <= e * b
  <2> HIDE DEF a, b, c, d, e, f
  <2>1. (a * d) * f <= (c * b) * f
    BY <1>1, <1>2, <1>3, ScaledOrder
  <2>2. (c * f) * b <= (e * d) * b
    BY <1>1, <1>2, <1>3, ScaledOrder
  <2>3. (a * d) * f = (a * f) * d /\ (e * d) * b = (e * b) * d /\ (c * b) * f = (c * f) * b
    BY <1>1
  <2>4. (a * f) * d \in Int /\ (e * b) * d \in Int /\ (c * b) * f \in Int
    BY <1>1
  <2>5. (a * f) * d <= (e * b) * d
    BY <2>1, <2>2, <2>3, <2>4
  <2> QED
    BY <1>1, <1>2, <2>5, ScaledOrder
<1> QED
  BY <1>1, <1>2, <1>3 DEF AtMost, Below, Equals

LEMMA PlusFacts ==
  ASSUME NEW x \in Fraction, NEW y \in Fraction
  PROVE  Plus(x, y) \in Fraction /\ Plus(x, y) = Plus(y, x)
<1>1. x[1] \in Int /\ y[1] \in Int /\ x[2] \in Nat \ {0} /\ y[2] \in Nat \ {0}
  BY DEF Fraction
<1>2. x[2] * y[2] \in Nat \ {0} /\ x[1] * y[2] \in Int /\ y[1] * x[2] \in Int
  BY <1>1
<1>3. x[2] * y[2] = y[2] * x[2]
  BY <1>1
<1> QED
  BY <1>2, <1>3 DEF Plus, Fraction

LEMMA PlusBelow ==
  ASSUME NEW x \in Fraction, NEW y \in Fraction, NEW u \in Fraction, NEW v \in Fraction,
         Below(x, u), Below(y, v)
  PROVE  Below(Plus(x, y), Plus(u, v))
<1> DEFINE a == x[1]  b == x[2]  c == y[1]  d == y[2]
           e == u[1]  f == u[2]  g == v[1]  h == v[2]
<1>1. /\ a \in Int /\ c \in Int /\ e \in Int /\ g \in Int
      /\ b \in Nat \ {0} /\ d \in Nat \ {0} /\ f \in Nat \ {0} /\ h \in Nat \ {0}
  BY DEF Fraction
<1>2. a * f < e * b /\ c * h < g * d
  BY DEF Below
<1> HIDE DEF a, b, c, d, e, f, g, h
<1>3. a * f \in Int /\ e * b \in Int /\ c * h \in Int /\ g * d \in Int
      /\ d * h \in Nat \ {0} /\ b * f \in Nat \ {0}
  BY <1>1
<1>4. (a * f) * (d * h) < (e * b) * (d * h)
  BY <1>2, <1>3, ScaledOrder
<1>5. (c * h) * (b * f) < (g * d) * (b * f)
  BY <1>2, <1>3, ScaledOrder
<1>6. (a * d + c * b) * (f * h) = (a * f) * (d * h) + (c * h) * (b * f)
  BY <1>1
<1>7. (e * h + g * f) * (b * d) = (e * b) * (d * h) + (g * d) * (b * f)
  BY <1>1
<1>8. /\ (a * f) * (d * h) \in Int /\ (e * b) * (d * h) \in Int
      /\ (c * h) * (b * f) \in Int /\ (g * d) * (b * f) \in Int
  BY <1>3
<1>9. (a * d + c * b) * (f * h) < (e * h + g * f) * (b * d)
  BY <1>4, <1>5, <1>6, <1>7, <1>8
<1> QED
  BY <1>9 DEF Below, Plus, a, b, c, d, e, f, g, h

-----------------------------------------------------------------------------
(* Lists without repetition. *)
Listing(s) == s \in Seq(Docs) /\ IsInjective(s)

LEMMA PlaceOf ==
  ASSUME NEW s, Listing(s)
  PROVE  /\ Len(s) \in Nat /\ DOMAIN s = 1..Len(s)
         /\ \A d \in Range(s) : Place(s, d) \in 1..Len(s) /\ s[Place(s, d)] = d /\ d \in Docs
         /\ \A i \in 1..Len(s) : s[i] \in Range(s) /\ Place(s, s[i]) = i
<1>1. Len(s) \in Nat /\ DOMAIN s = 1..Len(s) /\ \A i \in 1..Len(s) : s[i] \in Docs
  BY DEF Listing
<1>2. ASSUME NEW d \in Range(s)
      PROVE  Place(s, d) \in 1..Len(s) /\ s[Place(s, d)] = d
  <2>1. \E i \in DOMAIN s : s[i] = d
    BY DEF Range
  <2> QED
    BY <1>1, <2>1 DEF Place
<1>3. ASSUME NEW i \in 1..Len(s)
      PROVE  s[i] \in Range(s) /\ Place(s, s[i]) = i
  <2>1. s[i] \in Range(s)
    BY <1>1 DEF Range
  <2> QED
    BY <1>1, <1>2, <2>1 DEF Listing, IsInjective
<1> QED
  BY <1>1, <1>2, <1>3

LEMMA Counting ==
  ASSUME NEW n \in Nat
  PROVE  IsFiniteSet(1..n) /\ Cardinality(1..n) = n
BY FS_Interval

LEMMA ListingSize ==
  ASSUME NEW s, Listing(s)
  PROVE  IsFiniteSet(Range(s)) /\ Cardinality(Range(s)) = Len(s) /\ Range(s) \subseteq Docs
<1>1. Len(s) \in Nat /\ DOMAIN s = 1..Len(s) /\ Range(s) \subseteq Docs
  BY PlaceOf
<1>2. s \in Surjection(1..Len(s), Range(s))
  BY <1>1 DEF Listing, Surjection, Range
<1>3. s \in Injection(1..Len(s), Range(s))
  BY <1>1, <1>2 DEF Listing, Surjection, Injection
<1>4. IsFiniteSet(1..Len(s)) /\ Cardinality(1..Len(s)) = Len(s)
  BY <1>1, Counting
<1>5. IsFiniteSet(Range(s)) /\ Cardinality(Range(s)) = Cardinality(1..Len(s))
  BY <1>2, <1>3, <1>4, FS_Surjection
<1> QED
  BY <1>1, <1>4, <1>5

LEMMA RankingLists ==
  ASSUME NEW k, NEW s \in Rankings(k)
  PROVE  Listing(s) /\ Len(s) <= k
<1>1. PICK n \in 0..Cardinality(Docs) : s \in [1..n -> Docs]
  BY DEF Rankings
<1>2. n \in Nat
  BY CorpusAssumption, FS_CardinalityType
<1>3. s \in Seq(Docs) /\ Len(s) = n /\ DOMAIN s = 1..n
  BY <1>1, <1>2
<1>4. s \in Surjection(1..n, Range(s)) /\ Cardinality(Range(s)) = n
  BY <1>3 DEF Rankings, Surjection, Range
<1>5. s \in Injection(1..n, Range(s))
  BY <1>2, <1>4, FS_Interval, FS_Surjection
<1> QED
  BY <1>3, <1>5 DEF Listing, Injection, Rankings

LEMMA FirstOf ==
  ASSUME NEW s, Listing(s), NEW n \in Nat
  PROVE  LET m == IF n < Len(s) THEN n ELSE Len(s) IN
         /\ Listing(First(s, n)) /\ Len(First(s, n)) = m
         /\ \A i \in 1..m : First(s, n)[i] = s[i]
         /\ Range(First(s, n)) = {d \in Range(s) : Place(s, d) <= n}
<1> DEFINE m == IF n < Len(s) THEN n ELSE Len(s)
           t == First(s, n)
<1>1. Len(s) \in Nat /\ m \in 0..Len(s) /\ m <= n
  BY PlaceOf
<1>2. t \in Seq(Docs) /\ Len(t) = m /\ DOMAIN t = 1..m /\ \A i \in 1..m : t[i] = s[i]
  BY <1>1 DEF First, Listing
<1>3. \A i \in 1..m : i \in DOMAIN s /\ Place(s, s[i]) = i /\ s[i] \in Range(s)
  BY <1>1, PlaceOf
<1>4. IsInjective(t)
  BY <1>2, <1>3 DEF IsInjective
<1>5. ASSUME NEW d \in Range(t)
      PROVE  d \in Range(s) /\ Place(s, d) <= n
  <2>1. PICK i \in 1..m : d = t[i]
    BY <1>2 DEF Range
  <2> QED
    BY <1>1, <1>2, <1>3, <2>1
<1>6. ASSUME NEW d \in Range(s), Place(s, d) <= n
      PROVE  d \in Range(t)
  <2>1. Place(s, d) \in 1..m /\ s[Place(s, d)] = d
    BY <1>1, <1>6, PlaceOf
  <2>2. t[Place(s, d)] = d /\ Place(s, d) \in DOMAIN t
    BY <1>2, <2>1
  <2> QED
    BY <2>2 DEF Range
<1> QED
  BY <1>2, <1>4, <1>5, <1>6 DEF Listing

-----------------------------------------------------------------------------
(* Reciprocal rank fusion. *)
FusedOrder(sparse, dense, k) ==
  LET found == Range(sparse) \cup Range(dense)
      score(d) == Score(sparse, dense, k, d)
  IN {p \in found \X found : \/ Below(score(p[2]), score(p[1]))
                             \/ Equals(score(p[2]), score(p[1])) /\ p[1] < p[2]}

LEMMA ShareFacts ==
  ASSUME NEW s, Listing(s), NEW k \in Nat
  PROVE  /\ \A d : Share(s, d, k) \in Fraction
         /\ \A d, e : Preferred(s, d, e) => Below(Share(s, e, k), Share(s, d, k))
<1>1. \A d \in Range(s) : Place(s, d) \in Nat \ {0}
  BY PlaceOf
<1>2. \A d \in Range(s) : Share(s, d, k) = <<1, k + Place(s, d)>> /\ k + Place(s, d) \in Nat \ {0}
  BY <1>1 DEF Share
<1>3. \A d : d \notin Range(s) => Share(s, d, k) = <<0, 1>>
  BY DEF Share, Zero
<1>4. \A d : Share(s, d, k) \in Fraction
  BY <1>2, <1>3 DEF Fraction
<1>5. ASSUME NEW d, NEW e, Preferred(s, d, e)
      PROVE  Below(Share(s, e, k), Share(s, d, k))
  <2>1. d \in Range(s) /\ Share(s, d, k) = <<1, k + Place(s, d)>>
    BY <1>2, <1>5 DEF Preferred
  <2>2. CASE e \in Range(s)
    BY <1>1, <1>2, <1>5, <2>1, <2>2 DEF Preferred, Below
  <2>3. CASE e \notin Range(s)
    BY <1>2, <1>3, <2>1, <2>3 DEF Below
  <2> QED
    BY <2>2, <2>3
<1> QED
  BY <1>4, <1>5

LEMMA ScoreFacts ==
  ASSUME NEW sparse, NEW dense, Listing(sparse), Listing(dense), NEW k \in Nat
  PROVE  /\ \A d : Score(sparse, dense, k, d) \in Fraction
         /\ \A d : Score(sparse, dense, k, d) = Score(dense, sparse, k, d)
         /\ \A d, e : Preferred(sparse, d, e) /\ Preferred(dense, d, e)
              => Below(Score(sparse, dense, k, e), Score(sparse, dense, k, d))
<1>1. \A d : Share(sparse, d, k) \in Fraction /\ Share(dense, d, k) \in Fraction
  BY ShareFacts
<1> QED
  BY <1>1, ShareFacts, PlusFacts, PlusBelow DEF Score

LEMMA FusedOrderStrict ==
  ASSUME NEW sparse, NEW dense, Listing(sparse), Listing(dense), NEW k \in Nat
  PROVE  StrictOrder(Range(sparse) \cup Range(dense), FusedOrder(sparse, dense, k))
<1> DEFINE found == Range(sparse) \cup Range(dense)
           score(d) == Score(sparse, dense, k, d)
           R == FusedOrder(sparse, dense, k)
<1>1. \A d \in found : d \in Nat /\ score(d) \in Fraction
  BY PlaceOf, ScoreFacts, CorpusAssumption
<1>2. \A d, e \in found :
        <<d, e>> \in R <=> \/ Below(score(e), score(d))
                           \/ Equals(score(e), score(d)) /\ d < e
  BY DEF FusedOrder
<1>3. \A d, e \in found :
        /\ Below(score(e), score(d)) <=> ~AtMost(score(d), score(e))
        /\ Equals(score(e), score(d)) <=> AtMost(score(e), score(d)) /\ AtMost(score(d), score(e))
        /\ AtMost(score(d), score(e)) \/ AtMost(score(e), score(d))
  BY <1>1, AtMostOrder
<1>4. \A d, e, f \in found :
        AtMost(score(d), score(e)) /\ AtMost(score(e), score(f)) => AtMost(score(d), score(f))
  BY <1>1, AtMostOrder
<1> HIDE DEF R, found, score
<1>5. \A d, e \in found :
        <<d, e>> \in R <=> \/ ~AtMost(score(d), score(e))
                           \/ AtMost(score(e), score(d)) /\ d < e
  BY <1>2, <1>3
<1>6. \A d \in found : <<d, d>> \notin R
  BY <1>1, <1>3, <1>5
<1>7. \A d, e \in found : d # e => <<d, e>> \in R \/ <<e, d>> \in R
  BY <1>1, <1>3, <1>5
<1>8. \A d, e, f \in found : <<d, e>> \in R /\ <<e, f>> \in R => <<d, f>> \in R
  BY <1>1, <1>3, <1>4, <1>5
<1> QED
  BY <1>6, <1>7, <1>8 DEF StrictOrder, R, found

LEMMA FusedFacts ==
  ASSUME NEW sparse, NEW dense, Listing(sparse), Listing(dense), NEW k \in Nat
  PROVE  LET fused == Fused(sparse, dense, k)
             found == Range(sparse) \cup Range(dense)
         IN /\ Listing(fused) /\ Range(fused) = found
            /\ fused = Fused(dense, sparse, k)
            /\ \A d, e \in found :
                 Preferred(sparse, d, e) /\ Preferred(dense, d, e)
                   => Place(fused, d) < Place(fused, e)
<1> DEFINE found == Range(sparse) \cup Range(dense)
           R == FusedOrder(sparse, dense, k)
           fused == Fused(sparse, dense, k)
<1>1. IsFiniteSet(found) /\ found \subseteq Docs
  BY ListingSize, FS_Union
<1>2. StrictOrder(found, R)
  BY FusedOrderStrict
<1>3. fused = InOrder(found, R)
  BY DEF Fused, FusedOrder
<1>4. Fused(dense, sparse, k) = InOrder(found, R)
  <2>1. FusedOrder(dense, sparse, k) = R
    BY ScoreFacts DEF FusedOrder
  <2>2. Range(dense) \cup Range(sparse) = found
    OBVIOUS
  <2>3. Fused(dense, sparse, k) = InOrder(Range(dense) \cup Range(sparse), FusedOrder(dense, sparse, k))
    BY DEF Fused, FusedOrder
  <2> QED
    BY <2>1, <2>2, <2>3
<1> HIDE DEF found, R, fused
<1>5. fused \in Seq(found) /\ IsInjective(fused) /\ Range(fused) = found
  BY <1>1, <1>2, <1>3, InOrderSorts
<1>6. Listing(fused)
  BY <1>1, <1>5 DEF Listing
<1>7. ASSUME NEW d \in found, NEW e \in found, Preferred(sparse, d, e), Preferred(dense, d, e)
      PROVE  Place(fused, d) < Place(fused, e)
  <2>1. <<d, e>> \in R /\ <<e, d>> \notin R /\ d # e
    <3>1. Below(Score(sparse, dense, k, e), Score(sparse, dense, k, d))
      BY <1>7, ScoreFacts
    <3>2. <<d, e>> \in R
      BY <3>1 DEF FusedOrder, found, R
    <3> QED
      BY <1>2, <3>2 DEF StrictOrder
  <2>2. \A i, j \in DOMAIN fused : i < j => <<fused[i], fused[j]>> \in R
    BY <1>1, <1>2, <1>3, InOrderSorts
  <2>3. /\ Place(fused, d) \in DOMAIN fused /\ fused[Place(fused, d)] = d
        /\ Place(fused, e) \in DOMAIN fused /\ fused[Place(fused, e)] = e
        /\ Place(fused, d) \in Int /\ Place(fused, e) \in Int
    <3>1. /\ DOMAIN fused = 1..Len(fused) /\ Len(fused) \in Nat
          /\ \A x \in Range(fused) : Place(fused, x) \in 1..Len(fused) /\ fused[Place(fused, x)] = x
      BY <1>6, PlaceOf
    <3>2. d \in Range(fused) /\ e \in Range(fused)
      BY <1>5
    <3> QED
      BY <3>1, <3>2
  <2>4. ~(Place(fused, e) < Place(fused, d))
    BY <2>1, <2>2, <2>3
  <2>5. Place(fused, e) # Place(fused, d)
    BY <2>1, <2>3
  <2> QED
    BY <2>3, <2>4, <2>5
<1> QED
  BY <1>3, <1>4, <1>5, <1>6, <1>7 DEF found, fused

-----------------------------------------------------------------------------
(* Reranking. *)
RerankedOrder(candidates, score) ==
  {p \in Range(candidates) \X Range(candidates) :
     \/ score[p[1]] > score[p[2]]
     \/ score[p[1]] = score[p[2]] /\ Place(candidates, p[1]) < Place(candidates, p[2])}

LEMMA RerankedFacts ==
  ASSUME NEW s, Listing(s), NEW score \in [Docs -> Int]
  PROVE  LET ranked == Reranked(s, score) IN
         /\ Listing(ranked) /\ Len(ranked) = Len(s) /\ Range(ranked) = Range(s)
         /\ \A d, e \in Range(s) :
              Place(ranked, d) < Place(ranked, e) => score[d] >= score[e]
<1> DEFINE R == RerankedOrder(s, score)
           S == Range(s)
           ranked == Reranked(s, score)
<1>1. IsFiniteSet(S) /\ Cardinality(S) = Len(s) /\ S \subseteq Docs
  BY ListingSize
<1>2. \A d \in S : score[d] \in Int /\ Place(s, d) \in Nat
  BY <1>1, PlaceOf
<1>3. \A d, e \in S : Place(s, d) = Place(s, e) => d = e
  BY PlaceOf
<1>4. \A d, e \in S :
        <<d, e>> \in R <=> \/ score[d] > score[e]
                           \/ score[d] = score[e] /\ Place(s, d) < Place(s, e)
  BY DEF RerankedOrder
<1>5. StrictOrder(S, R)
  <2> HIDE DEF R, S
  <2> QED
    BY <1>2, <1>3, <1>4 DEF StrictOrder
<1>6. ranked = InOrder(S, R)
  BY DEF Reranked, RerankedOrder
<1> HIDE DEF R, S, ranked
<1>7. /\ ranked \in Seq(S) /\ IsInjective(ranked) /\ Range(ranked) = S
      /\ Len(ranked) = Len(s)
      /\ \A i, j \in DOMAIN ranked : i < j => <<ranked[i], ranked[j]>> \in R
  BY <1>1, <1>5, <1>6, InOrderSorts
<1>8. Listing(ranked)
  BY <1>1, <1>7 DEF Listing
<1>9. ASSUME NEW d \in S, NEW e \in S, Place(ranked, d) < Place(ranked, e)
      PROVE  score[d] >= score[e]
  <2>1. /\ Place(ranked, d) \in DOMAIN ranked /\ ranked[Place(ranked, d)] = d
        /\ Place(ranked, e) \in DOMAIN ranked /\ ranked[Place(ranked, e)] = e
    BY <1>7, <1>8, PlaceOf
  <2>2. <<d, e>> \in R
    BY <1>7, <1>9, <2>1
  <2> QED
    BY <1>2, <1>4, <2>2
<1> QED
  BY <1>7, <1>8, <1>9 DEF ranked, S

(* Those that are not promoted keep their order, and those below the       *)
(* candidates their place: as many are before them as were promoted.       *)
LEMMA RestFacts ==
  ASSUME NEW hits, Listing(hits), NEW taken \in SUBSET Range(hits)
  PROVE  LET rest == Range(hits) \ taken
             above == {p \in rest \X rest : Place(hits, p[1]) < Place(hits, p[2])}
             tail == InOrder(rest, above)
             q == Cardinality(taken)
         IN /\ q \in 0..Len(hits)
            /\ tail \in Seq(rest) /\ Len(tail) = Len(hits) - q /\ IsInjective(tail)
            /\ Range(tail) = rest
            /\ \A i \in 1..Len(hits) :
                 (\A d \in taken : Place(hits, d) < i) /\ hits[i] \notin taken
                   => i - q \in 1..Len(tail) /\ tail[i - q] = hits[i]
<1> DEFINE rest == Range(hits) \ taken
           above == {p \in rest \X rest : Place(hits, p[1]) < Place(hits, p[2])}
           tail == InOrder(rest, above)
           q == Cardinality(taken)
           n == Len(hits)
<1>1. /\ n \in Nat /\ IsFiniteSet(Range(hits)) /\ Cardinality(Range(hits)) = n
      /\ IsFiniteSet(taken) /\ q \in Nat /\ q <= n
  BY ListingSize, PlaceOf, FS_Subset, FS_CardinalityType
<1>2. IsFiniteSet(rest) /\ Cardinality(rest) = n - q
  <2>1. Range(hits) \cap taken = taken
    OBVIOUS
  <2>2. /\ IsFiniteSet(rest)
        /\ Cardinality(rest) = Cardinality(Range(hits)) - Cardinality(Range(hits) \cap taken)
    BY <1>1, FS_Difference
  <2> QED
    BY <1>1, <2>1, <2>2
<1>3. StrictOrder(rest, above)
  <2>1. \A d \in rest : Place(hits, d) \in Nat /\ hits[Place(hits, d)] = d
    <3>1. rest \subseteq Range(hits)
      OBVIOUS
    <3>2. \A d \in Range(hits) : Place(hits, d) \in 1..Len(hits) /\ hits[Place(hits, d)] = d
      BY PlaceOf
    <3> HIDE DEF rest
    <3> QED
      BY <1>1, <3>1, <3>2
  <2>2. \A d, e \in rest : Place(hits, d) = Place(hits, e) => d = e
    <3> HIDE DEF rest
    <3> QED
      BY <2>1
  <2>3. \A d, e \in rest : <<d, e>> \in above <=> Place(hits, d) < Place(hits, e)
    OBVIOUS
  <2> HIDE DEF rest, above
  <2> QED
    BY <2>1, <2>2, <2>3 DEF StrictOrder
<1>4. /\ tail \in Seq(rest) /\ Len(tail) = n - q /\ IsInjective(tail) /\ Range(tail) = rest
      /\ \A d \in rest : Rank(rest, above, d) \in DOMAIN tail /\ tail[Rank(rest, above, d)] = d
  <2> HIDE DEF rest, above
  <2> QED
    BY <1>2, <1>3, InOrderSorts
<1>5. ASSUME NEW i \in 1..n, \A d \in taken : Place(hits, d) < i, hits[i] \notin taken
      PROVE  i - q \in 1..Len(tail) /\ tail[i - q] = hits[i]
  <2> DEFINE front == {hits[j] : j \in 1..(i - 1)}
  <2>1. hits[i] \in rest /\ Place(hits, hits[i]) = i
    BY <1>5, PlaceOf
  <2>2. IsFiniteSet(front) /\ Cardinality(front) = i - 1
    <3>1. Listing(First(hits, i - 1)) /\ Len(First(hits, i - 1)) = i - 1
      BY <1>1, FirstOf
    <3>2. \A j \in 1..(i - 1) : First(hits, i - 1)[j] = hits[j]
      BY <1>1, FirstOf
    <3>3. Range(First(hits, i - 1)) = front
      <4>1. DOMAIN First(hits, i - 1) = 1..(i - 1)
        BY <3>1, PlaceOf
      <4> QED
        BY <3>2, <4>1 DEF Range
    <3> QED
      BY <3>1, <3>3, ListingSize
  <2>3. taken \subseteq front
    <3> SUFFICES ASSUME NEW d \in taken
                 PROVE  d \in front
      OBVIOUS
    <3>1. Place(hits, d) \in 1..(i - 1) /\ hits[Place(hits, d)] = d
      BY <1>1, <1>5, PlaceOf
    <3> QED
      BY <3>1
  <2>4. Preceding(rest, above, hits[i]) = front \ taken
    <3>1. \A d \in rest : d \in Preceding(rest, above, hits[i]) <=> Place(hits, d) < i
      BY <2>1 DEF Preceding
    <3>2. \A d \in rest : Place(hits, d) < i <=> d \in front
      BY <1>1, PlaceOf
    <3>3. Preceding(rest, above, hits[i]) \subseteq rest
      BY DEF Preceding
    <3>4. front \subseteq Range(hits)
      BY <1>1, PlaceOf
    <3> QED
      BY <3>1, <3>2, <3>3, <3>4
  <2>5. Cardinality(front \ taken) = i - 1 - q
    <3>1. front \cap taken = taken
      BY <2>3
    <3> HIDE DEF front
    <3>2. Cardinality(front \ taken) = Cardinality(front) - Cardinality(front \cap taken)
      BY <2>2, FS_Difference
    <3> QED
      BY <2>2, <3>1, <3>2
  <2>6. Rank(rest, above, hits[i]) = i - q
    <3>1. Rank(rest, above, hits[i]) = (i - 1 - q) + 1
      BY <2>4, <2>5 DEF Rank
    <3>2. i \in Int /\ q \in Int
      BY <1>1
    <3> HIDE DEF rest, above, q, n
    <3> QED
      BY <3>1, <3>2
  <2>7. DOMAIN tail = 1..Len(tail)
    BY <1>4
  <2> QED
    BY <1>4, <2>1, <2>6, <2>7
<1> HIDE DEF rest, above, tail, q, n
<1>6. q \in 0..n
  BY <1>1
<1> QED
  BY <1>4, <1>5, <1>6 DEF rest, above, tail, q, n

LEMMA ConcatListing ==
  ASSUME NEW s, NEW t, Listing(s), Listing(t), Range(s) \cap Range(t) = {}
  PROVE  /\ Listing(s \o t) /\ Len(s \o t) = Len(s) + Len(t)
         /\ Range(s \o t) = Range(s) \cup Range(t)
         /\ \A i \in 1..Len(s) : (s \o t)[i] = s[i]
         /\ \A i \in 1..Len(t) : (s \o t)[Len(s) + i] = t[i]
<1> DEFINE r == s \o t
           m == Len(s)
           n == Len(t)
<1>1. /\ m \in Nat /\ n \in Nat /\ DOMAIN s = 1..m /\ DOMAIN t = 1..n
      /\ s \in Seq(Docs) /\ t \in Seq(Docs)
  BY PlaceOf DEF Listing
<1>2. r \in Seq(Docs) /\ Len(r) = m + n /\ DOMAIN r = 1..(m + n)
  BY <1>1
<1>3. \A i \in 1..(m + n) : r[i] = IF i <= m THEN s[i] ELSE t[i - m]
  BY <1>1
<1>4. \A i \in 1..m : r[i] = s[i]
  BY <1>1, <1>3
<1>5. ASSUME NEW i \in 1..n
      PROVE  r[m + i] = t[i]
  <2>1. m + i \in 1..(m + n) /\ ~(m + i <= m) /\ m + i - m = i
    BY <1>1
  <2> QED
    BY <1>3, <2>1
<1>6. \A i \in 1..(m + n) : i <= m \/ i - m \in 1..n
  BY <1>1
<1> HIDE DEF r, m, n
<1>7. Range(r) = Range(s) \cup Range(t)
  <2>1. ASSUME NEW d \in Range(r)
        PROVE  d \in Range(s) \cup Range(t)
    <3>1. PICK i \in 1..(m + n) : d = r[i]
      BY <1>2 DEF Range
    <3> QED
      BY <1>1, <1>3, <1>6, <3>1 DEF Range
  <2>2. ASSUME NEW d \in Range(s)
        PROVE  d \in Range(r)
    <3>1. PICK i \in 1..m : d = s[i]
      BY <1>1 DEF Range
    <3>2. i \in DOMAIN r /\ r[i] = d
      BY <1>1, <1>2, <1>4, <3>1
    <3> QED
      BY <3>2 DEF Range
  <2>3. ASSUME NEW d \in Range(t)
        PROVE  d \in Range(r)
    <3>1. PICK i \in 1..n : d = t[i]
      BY <1>1 DEF Range
    <3>2. m + i \in DOMAIN r /\ r[m + i] = d
      BY <1>1, <1>2, <1>5, <3>1
    <3> QED
      BY <3>2 DEF Range
  <2> QED
    BY <2>1, <2>2, <2>3
<1>8. IsInjective(r)
  <2> SUFFICES ASSUME NEW i \in 1..(m + n), NEW j \in 1..(m + n), r[i] = r[j]
               PROVE  i = j
    BY <1>2 DEF IsInjective
  <2>1. CASE i <= m /\ j <= m
    BY <1>1, <1>3, <2>1 DEF Listing, IsInjective
  <2>2. CASE ~(i <= m) /\ ~(j <= m)
    <3>1. t[i - m] = t[j - m] /\ i - m \in 1..n /\ j - m \in 1..n
      BY <1>3, <1>6, <2>2
    <3>2. i - m = j - m
      BY <1>1, <3>1 DEF Listing, IsInjective
    <3> QED
      BY <1>1, <3>2
  <2>3. CASE i <= m /\ ~(j <= m)
    <3>1. s[i] = t[j - m] /\ i \in 1..m /\ j - m \in 1..n
      BY <1>1, <1>3, <1>6, <2>3
    <3> QED
      BY <1>1, <3>1 DEF Range
  <2>4. CASE ~(i <= m) /\ j <= m
    <3>1. s[j] = t[i - m] /\ j \in 1..m /\ i - m \in 1..n
      BY <1>1, <1>3, <1>6, <2>4
    <3> QED
      BY <1>1, <3>1 DEF Range
  <2> QED
    BY <2>1, <2>2, <2>3, <2>4
<1> QED
  BY <1>2, <1>4, <1>5, <1>7, <1>8 DEF Listing, r, m, n

(* The list that reranking returns: no document is lost, doubled or moved  *)
(* below the candidates, and the promoted are the best of them, in order.  *)
LEMMA PromotedFacts ==
  ASSUME NEW hits, Listing(hits), NEW v, v.candidates \in Nat, v.keep \in Nat,
         v.keep <= v.candidates, NEW score \in [Docs -> Int]
  PROVE  LET after == Promoted(hits, v, score) IN
         /\ Listing(after) /\ Len(after) = Len(hits) /\ Range(after) = Range(hits)
         /\ \A i \in DOMAIN after : i > v.candidates => after[i] = hits[i]
         /\ \A i, j \in DOMAIN after :
              i <= v.keep /\ i < j /\ Place(hits, after[j]) <= v.candidates
                => score[after[i]] >= score[after[j]]
<1> DEFINE n == Len(hits)
           c == v.candidates
           k == v.keep
           tops == First(hits, c)
           ranked == Reranked(tops, score)
           promoted == First(ranked, k)
           taken == Range(promoted)
           q == Len(promoted)
           rest == Range(hits) \ taken
           above == {p \in rest \X rest : Place(hits, p[1]) < Place(hits, p[2])}
           tail == InOrder(rest, above)
           after == promoted \o tail
<1>0. c \in Nat /\ k \in Nat /\ k <= c
  OBVIOUS
<1>1. after = Promoted(hits, v, score)
  BY DEF Promoted
<1>2. /\ Listing(tops) /\ Len(tops) = (IF c < n THEN c ELSE n)
      /\ Range(tops) = {d \in Range(hits) : Place(hits, d) <= c}
  BY <1>0, FirstOf
<1>3. /\ Listing(ranked) /\ Len(ranked) = Len(tops) /\ Range(ranked) = Range(tops)
      /\ \A d, e \in Range(tops) : Place(ranked, d) < Place(ranked, e) => score[d] >= score[e]
  <2> HIDE DEF tops
  <2> QED
    BY <1>2, RerankedFacts
<1>4. /\ Listing(promoted) /\ q = (IF k < Len(ranked) THEN k ELSE Len(ranked))
      /\ \A i \in 1..q : promoted[i] = ranked[i]
      /\ taken = {d \in Range(ranked) : Place(ranked, d) <= k}
  <2> HIDE DEF ranked
  <2>1. LET m == IF k < Len(ranked) THEN k ELSE Len(ranked) IN
        /\ Listing(promoted) /\ q = m
        /\ \A i \in 1..m : promoted[i] = ranked[i]
        /\ taken = {d \in Range(ranked) : Place(ranked, d) <= k}
    BY <1>0, <1>3, FirstOf
  <2> HIDE DEF promoted, q, taken
  <2> QED
    BY <2>1
<1>5. n \in Nat /\ q \in Nat /\ q <= k /\ q <= n /\ (q < k => q = n \/ c < k)
  <2>1. n \in Nat
    BY PlaceOf
  <2> HIDE DEF n, q, tops, ranked
  <2> QED
    BY <1>0, <1>2, <1>3, <1>4, <2>1
<1>6. taken \in SUBSET Range(hits) /\ Cardinality(taken) = q
  <2>1. taken \subseteq Range(hits)
    BY <1>2, <1>3, <1>4
  <2> HIDE DEF promoted
  <2> QED
    BY <1>4, <2>1, ListingSize
<1>7. /\ tail \in Seq(rest) /\ Len(tail) = n - q /\ IsInjective(tail) /\ Range(tail) = rest
      /\ \A i \in 1..n :
           (\A d \in taken : Place(hits, d) < i) /\ hits[i] \notin taken
             => i - q \in 1..Len(tail) /\ tail[i - q] = hits[i]
  <2> HIDE DEF taken
  <2>1. LET t == InOrder(rest, above)
            m == Cardinality(taken)
        IN /\ t \in Seq(rest) /\ Len(t) = n - m /\ IsInjective(t) /\ Range(t) = rest
           /\ \A i \in 1..n :
                (\A d \in taken : Place(hits, d) < i) /\ hits[i] \notin taken
                  => i - m \in 1..Len(t) /\ t[i - m] = hits[i]
    BY <1>6, RestFacts
  <2> HIDE DEF n, q, rest, above
  <2> QED
    BY <1>6, <2>1
<1> HIDE DEF n, c, k, tops, ranked, promoted, taken, q, above, tail
<1>8. Listing(tail)
  BY <1>7, ListingSize DEF Listing
<1>9. taken \cap Range(tail) = {} /\ taken \cup Range(tail) = Range(hits)
  BY <1>6, <1>7
<1>10. /\ Listing(after) /\ Len(after) = n /\ Range(after) = Range(hits)
       /\ \A i \in 1..q : after[i] = promoted[i]
       /\ \A i \in 1..(n - q) : after[q + i] = tail[i]
  <2>1. /\ Listing(after) /\ Len(after) = q + Len(tail)
        /\ Range(after) = taken \cup Range(tail)
        /\ \A i \in 1..q : after[i] = promoted[i]
        /\ \A i \in 1..Len(tail) : after[q + i] = tail[i]
    BY <1>4, <1>8, <1>9, ConcatListing DEF taken, q
  <2>2. q + (n - q) = n
    BY <1>5
  <2> HIDE DEF after
  <2> QED
    BY <1>7, <1>9, <2>1, <2>2
<1>11. DOMAIN after = 1..n
  BY <1>10, PlaceOf
<1> HIDE DEF after
<1>12. ASSUME NEW i \in 1..n, i > c
       PROVE  after[i] = hits[i]
  <2>1. \A d \in taken : Place(hits, d) < i
    <3>1. \A d \in taken : Place(hits, d) \in Nat /\ Place(hits, d) <= c
      BY <1>2, <1>3, <1>4, PlaceOf
    <3> QED
      BY <1>0, <1>12, <3>1 DEF c
  <2>2. Place(hits, hits[i]) = i
    BY PlaceOf DEF n
  <2>3. hits[i] \notin taken
    BY <1>5, <2>1, <2>2
  <2>4. i - q \in 1..Len(tail) /\ tail[i - q] = hits[i]
    BY <1>7, <2>1, <2>3
  <2>5. i - q \in 1..(n - q) /\ q + (i - q) = i
    BY <1>5, <1>7, <2>4
  <2> QED
    BY <1>10, <2>4, <2>5
<1>13. ASSUME NEW i \in 1..n, NEW j \in 1..n, i <= k, i < j, Place(hits, after[j]) <= c
       PROVE  score[after[i]] >= score[after[j]]
  <2>1. i \in 1..q
    <3>1. i < n /\ ~(c < k)
      BY <1>0, <1>5, <1>13
    <3> QED
      BY <1>0, <1>5, <1>13, <3>1
  <2>2. after[j] \in Range(hits)
    BY <1>10, <1>11 DEF Range
  <2>3. after[j] \in Range(ranked)
    BY <1>2, <1>3, <1>13, <2>2
  <2>4. after[i] = ranked[i] /\ i \in 1..Len(ranked)
    <3>1. Len(ranked) \in Nat
      BY <1>3, PlaceOf
    <3> QED
      BY <1>4, <1>5, <1>10, <2>1, <3>1
  <2>5. Place(ranked, after[i]) = i /\ after[i] \in Range(ranked)
    BY <1>3, <2>4, PlaceOf
  <2>6. Place(ranked, after[j]) > i
    <3>1. CASE j \in 1..q
      <4>1. after[j] = ranked[j] /\ j \in 1..Len(ranked)
        <5>1. Len(ranked) \in Nat
          BY <1>3, PlaceOf
        <5> QED
          BY <1>4, <1>5, <1>10, <3>1, <5>1
      <4>2. Place(ranked, after[j]) = j
        BY <1>3, <4>1, PlaceOf
      <4> QED
        BY <1>13, <4>2
    <3>2. CASE j \notin 1..q
      <4>1. j - q \in 1..(n - q) /\ q + (j - q) = j
        BY <1>5, <3>2
      <4>2. after[j] = tail[j - q] /\ j - q \in 1..Len(tail)
        BY <1>7, <1>10, <4>1
      <4>3. after[j] \in Range(tail)
        BY <1>8, <4>2, PlaceOf
      <4>4. after[j] \notin taken
        BY <1>9, <4>3
      <4>5. ~(Place(ranked, after[j]) <= k)
        BY <1>4, <2>3, <4>4
      <4>6. Place(ranked, after[j]) \in Nat /\ k \in Nat
        BY <1>0, <1>3, <2>3, PlaceOf DEF k
      <4> QED
        BY <1>13, <4>5, <4>6
    <3> QED
      BY <3>1, <3>2
  <2> QED
    BY <1>3, <2>3, <2>5, <2>6
<1> QED
  BY <1>1, <1>10, <1>11, <1>12, <1>13 DEF Listing, n, c, k

LEMMA EveryVariantRanksSoundly ==
  ASSUME NEW v \in [sparse : Nat, dense : Nat, fusion : Nat, candidates : Nat, keep : Nat],
         ValidVariant(v)
  PROVE  RanksSoundly(v)
<1>0. /\ v.sparse \in Nat /\ v.dense \in Nat /\ v.fusion \in Nat
      /\ v.candidates \in Nat /\ v.keep \in Nat /\ v.keep <= v.candidates
  BY DEF ValidVariant
<1> SUFFICES ASSUME NEW sparse \in Rankings(v.sparse), NEW dense \in Rankings(v.dense)
             PROVE  LET before == Retrieved(v, sparse, dense)
                        found == Range(sparse) \cup Range(dense)
                    IN
                    /\ Range(before) = found
                    /\ v.fusion > 0 =>
                         /\ before = Fused(dense, sparse, v.fusion)
                         /\ \A d, e \in found :
                              d # e /\ Preferred(sparse, d, e) /\ Preferred(dense, d, e)
                                => Place(before, d) < Place(before, e)
                    /\ \A score \in [Docs -> 0..1], k \in 1..Cardinality(Docs) :
                         LET after == Returned(v, sparse, dense, score, k)
                             below(i) == found \ {after[j] : j \in 1..i}
                         IN
                         /\ Len(after) = IF k < Len(before) THEN k ELSE Len(before)
                         /\ IsInjective(after) /\ Range(after) \subseteq found
                         /\ k >= Len(before) => Range(after) = found
                         /\ \A i \in DOMAIN after : i > v.candidates => after[i] = before[i]
                         /\ \A i \in DOMAIN after : \A d \in below(i) :
                              i <= v.keep /\ Place(before, d) <= v.candidates
                                => score[after[i]] >= score[d]
  BY DEF RanksSoundly
<1> DEFINE before == Retrieved(v, sparse, dense)
           found == Range(sparse) \cup Range(dense)
<1>1. Listing(sparse) /\ Listing(dense) /\ Len(sparse) <= v.sparse /\ Len(dense) <= v.dense
  BY RankingLists
<1>2. Listing(before) /\ Range(before) = found
  <2>1. CASE v.fusion > 0
    <3>1. before = Fused(sparse, dense, v.fusion)
      BY <2>1 DEF Retrieved
    <3>2. Listing(Fused(sparse, dense, v.fusion)) /\ Range(Fused(sparse, dense, v.fusion)) = found
      BY <1>0, <1>1, FusedFacts
    <3> HIDE DEF before, found
    <3> QED
      BY <3>1, <3>2
  <2>2. CASE ~(v.fusion > 0)
    <3>1. sparse = <<>> \/ dense = <<>>
      <4>1. v.sparse = 0 \/ v.dense = 0
        BY <1>0, <2>2 DEF ValidVariant
      <4>2. Len(sparse) \in Nat /\ Len(dense) \in Nat
        BY <1>1, PlaceOf
      <4>3. Len(sparse) = 0 \/ Len(dense) = 0
        BY <1>0, <1>1, <4>1, <4>2
      <4> QED
        BY <1>1, <4>3 DEF Listing
    <3>2. \A s : s = <<>> => Range(s) = {}
      BY DEF Range
    <3>3. before = IF sparse # <<>> THEN sparse ELSE dense
      BY <2>2 DEF Retrieved
    <3> QED
      BY <1>1, <3>1, <3>2, <3>3
  <2> QED
    BY <2>1, <2>2
<1>3. ASSUME v.fusion > 0
      PROVE  /\ before = Fused(dense, sparse, v.fusion)
             /\ \A d, e \in found :
                  d # e /\ Preferred(sparse, d, e) /\ Preferred(dense, d, e)
                    => Place(before, d) < Place(before, e)
  <2>1. before = Fused(sparse, dense, v.fusion)
    BY <1>3 DEF Retrieved
  <2> QED
    BY <1>0, <1>1, <2>1, FusedFacts
<1>4. ASSUME NEW score \in [Docs -> 0..1]
      PROVE  LET after == Ordered(v, sparse, dense, score) IN
             /\ Listing(after) /\ Len(after) = Len(before) /\ Range(after) = found
             /\ \A i \in DOMAIN after : i > v.candidates => after[i] = before[i]
             /\ \A i, j \in DOMAIN after :
                  i <= v.keep /\ i < j /\ Place(before, after[j]) <= v.candidates
                    => score[after[i]] >= score[after[j]]
  <2> HIDE DEF before, found
  <2>1. CASE v.candidates > 0
    <3>1. Ordered(v, sparse, dense, score) = Promoted(before, v, score)
      BY <2>1 DEF Ordered, before
    <3>2. score \in [Docs -> Int]
      OBVIOUS
    <3> QED
      BY <1>0, <1>2, <3>1, <3>2, PromotedFacts
  <2>2. CASE ~(v.candidates > 0)
    <3>1. Ordered(v, sparse, dense, score) = before /\ v.keep = 0
      BY <1>0, <2>2 DEF Ordered, before
    <3>2. DOMAIN before = 1..Len(before) /\ Len(before) \in Nat
      BY <1>2, PlaceOf
    <3>3. \A i \in DOMAIN before : ~(i <= v.keep)
      BY <3>1, <3>2
    <3> QED
      BY <1>2, <3>1, <3>3
  <2> QED
    BY <2>1, <2>2
<1>5. ASSUME NEW score \in [Docs -> 0..1], NEW k \in 1..Cardinality(Docs)
      PROVE  LET after == Returned(v, sparse, dense, score, k)
                 below(i) == found \ {after[j] : j \in 1..i}
             IN
             /\ Len(after) = IF k < Len(before) THEN k ELSE Len(before)
             /\ IsInjective(after) /\ Range(after) \subseteq found
             /\ k >= Len(before) => Range(after) = found
             /\ \A i \in DOMAIN after : i > v.candidates => after[i] = before[i]
             /\ \A i \in DOMAIN after : \A d \in below(i) :
                  i <= v.keep /\ Place(before, d) <= v.candidates
                    => score[after[i]] >= score[d]
  <2> DEFINE all == Ordered(v, sparse, dense, score)
             after == Returned(v, sparse, dense, score, k)
             m == IF k < Len(all) THEN k ELSE Len(all)
  <2> HIDE DEF before, found
  <2>1. /\ Listing(all) /\ Len(all) = Len(before) /\ Range(all) = found
        /\ \A i \in DOMAIN all : i > v.candidates => all[i] = before[i]
        /\ \A i, j \in DOMAIN all :
             i <= v.keep /\ i < j /\ Place(before, all[j]) <= v.candidates
               => score[all[i]] >= score[all[j]]
    BY <1>4
  <2>2. k \in Nat /\ after = First(all, k)
    BY DEF Returned
  <2> HIDE DEF all, after
  <2>3. /\ Listing(after) /\ Len(after) = m
        /\ \A i \in 1..m : after[i] = all[i]
        /\ Range(after) = {d \in Range(all) : Place(all, d) <= k}
    BY <2>1, <2>2, FirstOf
  <2>4. /\ Len(all) \in Nat /\ DOMAIN all = 1..Len(all) /\ DOMAIN after = 1..m
        /\ m \in Nat /\ m <= Len(all) /\ DOMAIN after \subseteq DOMAIN all
    BY <2>1, <2>2, <2>3, PlaceOf
  <2>5. \A d \in Range(all) : Place(all, d) \in 1..Len(all) /\ all[Place(all, d)] = d
    BY <2>1, PlaceOf
  <2>6. k >= Len(before) => Range(after) = found
    BY <2>1, <2>2, <2>3, <2>4, <2>5
  <2>7. ASSUME NEW i \in DOMAIN after, NEW d \in found \ {after[j] : j \in 1..i},
               i <= v.keep, Place(before, d) <= v.candidates
        PROVE  score[after[i]] >= score[d]
    <3> DEFINE j == Place(all, d)
    <3>1. j \in DOMAIN all /\ all[j] = d
      BY <2>1, <2>4, <2>5
    <3>2. ~(j <= i)
      <4> SUFFICES ASSUME j <= i PROVE FALSE
        OBVIOUS
      <4>1. j \in 1..i /\ j \in 1..m
        BY <2>4, <3>1
      <4>2. after[j] = d
        BY <2>3, <3>1, <4>1
      <4> QED
        BY <4>1, <4>2
    <3>3. i < j
      BY <2>4, <3>1, <3>2
    <3>4. after[i] = all[i] /\ i \in DOMAIN all
      BY <2>3, <2>4
    <3> HIDE DEF j
    <3> QED
      BY <2>1, <2>7, <3>1, <3>3, <3>4
  <2>8. \A i \in DOMAIN after : i > v.candidates => after[i] = before[i]
    BY <2>1, <2>3, <2>4
  <2>9. IsInjective(after) /\ Range(after) \subseteq found
    BY <2>1, <2>3 DEF Listing
  <2> QED
    BY <2>1, <2>3, <2>6, <2>7, <2>8, <2>9 DEF after
<1> QED
  BY <1>2, <1>3, <1>5

-----------------------------------------------------------------------------
(* The subject of a behaviour is chosen at its start and stays. *)
SubjectInv == SomeSubject \/ subject = NoSubject

LEMMA SubjectStays == ASpec => []SubjectInv
<1>1. AInit => SubjectInv
  BY DEF AInit, SubjectInv
<1>2. SubjectInv /\ [ANext]_<<vars, subject>> => SubjectInv'
  BY DEF ANext, SubjectInv, SomeSubject, Subject
<1> QED
  BY <1>1, <1>2, PTL DEF ASpec

LEMMA SubjectInputs ==
  ASSUME SubjectInv
  PROVE  /\ Tried("variant") => subject.input \in Variants /\ ValidVariant(subject.input)
         /\ Tried("draft") => subject.input \in Drafts
         /\ Tried("failure") => subject.input \in FailedOutcomes
BY DEF SubjectInv, SomeSubject, Subject, NoSubject, Tried

(* Whatever the stages of a variant find and a reranker scores, the search *)
(* returns the documents found, each once and none lost but to the k asked *)
(* for, a fusion that respects what both stages prefer and does not depend *)
(* on their order, and a reranked list whose head is sorted, over what was *)
(* cut off as well, and whose tail is untouched                            *)
(* (RetrievalPipeline.search, reciprocal_rank_fusion).                     *)
THEOREM EveryRankingIsSound == ASpec => []RankingIsSound
<1>1. SubjectInv => RankingIsSound
  <2> SUFFICES ASSUME SubjectInv, Tried("variant")
               PROVE  RanksSoundly(subject.input)
    BY DEF RankingIsSound
  <2>1. subject.input \in Variants /\ ValidVariant(subject.input)
    BY SubjectInputs
  <2> QED
    BY <2>1, VariantsAssumption, EveryVariantRanksSoundly
<1> QED
  BY <1>1, SubjectStays, PTL

-----------------------------------------------------------------------------
(* the CitedAnswers a provider may return with identifiers from a set *)
AnyDraft(ids) == [citations : Seq(ids), inline : SUBSET ids, abstained : BOOLEAN]

LEMMA Citing ==
  ASSUME NEW ids, NEW draft \in AnyDraft(ids)
  PROVE  (Cites(draft) = {}) <=> (draft.citations = <<>>)
<1>1. draft.citations \in Seq(ids)
  BY DEF AnyDraft
<1>2. CASE draft.citations = <<>>
  BY <1>2 DEF Cites
<1>3. CASE draft.citations # <<>>
  <2>1. 1 \in DOMAIN draft.citations
    BY <1>1, <1>3
  <2>2. draft.citations[1] \in Cites(draft)
    BY <2>1 DEF Cites
  <2> QED
    BY <2>2, <1>3
<1> QED
  BY <1>2, <1>3

(* Whatever the provider returns, and however it fails, the answer made of *)
(* it is accepted by its contract: no answer that was paid for is lost on  *)
(* its way back (CitedAnswerer.answer, AnswerResponse.validate_outcome).   *)
THEOREM AnswersAreAccepted ==
  ASSUME NEW ids, NEW draft \in AnyDraft(ids), NEW contexts,
         Report(draft, contexts) # NoReport
  PROVE  /\ Accepted(Answer(draft, contexts))
         /\ \A outcome \in FailedOutcomes : Accepted(FailedAnswer(outcome))
<1> DEFINE report == Report(draft, contexts)
           answer == Answer(draft, contexts)
<1>0. \A outcome \in FailedOutcomes : Accepted(FailedAnswer(outcome))
  BY DEF FailedOutcomes, FailedAnswer, Accepted, GeneratedOutcomes
<1> SUFFICES Accepted(answer)
  BY <1>0
<1>1. /\ answer.outcome = OutcomeOf(draft, report) /\ answer.report = report
      /\ answer.error = FALSE /\ answer.abstained = draft.abstained
      /\ answer.citations = draft.citations
  BY DEF Answer
<1>2. draft.abstained \in BOOLEAN
  BY DEF AnyDraft
<1>3. CASE HasErrors(report)
  <2>1. answer.outcome = "citation_error"
    BY <1>1, <1>3 DEF OutcomeOf
  <2> QED
    BY <1>1, <1>3, <2>1 DEF Accepted, GeneratedOutcomes
<1>4. CASE ~HasErrors(report) /\ draft.abstained
  <2>1. answer.outcome = "abstained"
    BY <1>1, <1>4 DEF OutcomeOf
  <2>2. draft.citations = <<>>
    <3>1. ~report.on_abstention
      BY <1>4 DEF HasErrors
    <3> QED
      BY <3>1, <1>4 DEF Report
  <2> QED
    BY <1>1, <1>4, <2>1, <2>2 DEF Accepted, GeneratedOutcomes
<1>5. CASE ~HasErrors(report) /\ ~draft.abstained
  <2>1. answer.outcome = "ok"
    BY <1>1, <1>5 DEF OutcomeOf
  <2>2. draft.citations # <<>>
    <3>1. ~report.missing_required
      BY <1>5 DEF HasErrors
    <3> QED
      BY <3>1, <1>5 DEF Report
  <2> QED
    BY <1>1, <1>5, <2>1, <2>2 DEF Accepted, GeneratedOutcomes
<1> QED
  BY <1>3, <1>4, <1>5

(* An answer called "ok" cites, and cites only passages it was given that  *)
(* its text refers to, none of them twice (validate_citations).            *)
THEOREM OkIsGrounded ==
  ASSUME NEW ids, NEW draft \in AnyDraft(ids), NEW contexts,
         Answer(draft, contexts).outcome = "ok"
  PROVE  Grounded(draft, contexts) /\ CitesTwice(draft) = {}
<1> DEFINE report == Report(draft, contexts)
<1>1. OutcomeOf(draft, report) = "ok"
  BY DEF Answer
<1>2. ~HasErrors(report) /\ ~draft.abstained
  BY <1>1 DEF OutcomeOf
<1>3. /\ Cites(draft) \ contexts = {} /\ CitesTwice(draft) = {}
      /\ Cites(draft) \ draft.inline = {}
  BY <1>2 DEF HasErrors, Report
<1>4. draft.citations # <<>>
  BY <1>2 DEF HasErrors, Report
<1> QED
  BY <1>2, <1>3, <1>4, Citing DEF Grounded

LEMMA DraftsAreAny == Drafts \subseteq AnyDraft(Identifiers)
<1>1. \A n \in 0..2 : [1..n -> Identifiers] \subseteq Seq(Identifiers)
  OBVIOUS
<1> QED
  BY <1>1 DEF Drafts, AnyDraft

LEMMA ReportDiffers ==
  ASSUME NEW draft \in Drafts, NEW contexts
  PROVE  Report(draft, contexts) # NoReport
<1>1. draft.citations \in Seq(Identifiers) /\ draft.abstained \in BOOLEAN
  BY DraftsAreAny DEF AnyDraft
<1>2. Cites(draft) \subseteq Identifiers /\ CitesTwice(draft) \subseteq Identifiers
  BY <1>1 DEF Cites, CitesTwice
<1>3. Report(draft, contexts) \in
        [unknown : SUBSET Identifiers, duplicates : SUBSET Identifiers,
         missing_inline : SUBSET Identifiers, missing_required : BOOLEAN,
         on_abstention : BOOLEAN]
  <2>1. (draft.abstained /\ draft.citations # <<>>) \in BOOLEAN
        /\ (~draft.abstained /\ draft.citations = <<>>) \in BOOLEAN
    BY <1>1
  <2> QED
    BY <1>2, <2>1 DEF Report
<1> QED
  BY <1>3, AnswerAssumption

LEMMA EveryDraftAnswersSoundly ==
  ASSUME NEW draft \in Drafts
  PROVE  AnswersSoundly(draft)
<1> SUFFICES ASSUME NEW contexts \in SUBSET Identifiers
             PROVE  LET answer == Answer(draft, contexts) IN
                    /\ Accepted(answer)
                    /\ answer.outcome = "ok" => Grounded(draft, contexts)
                    /\ answer.outcome = "abstained" => draft.abstained /\ Cites(draft) = {}
                    /\ CitationValidity(answer) = (answer.outcome \in {"ok", "abstained"})
                    /\ \A relevant \in SUBSET Identifiers :
                         Between(ContextPrecision(contexts, relevant), Zero, One)
  BY DEF AnswersSoundly
<1> DEFINE report == Report(draft, contexts)
           answer == Answer(draft, contexts)
<1>1. draft \in AnyDraft(Identifiers)
  BY DraftsAreAny
<1>2. /\ answer.outcome = OutcomeOf(draft, report) /\ answer.report = report
      /\ report # NoReport
  BY ReportDiffers DEF Answer
<1>3. Accepted(answer)
  BY <1>1, <1>2, AnswersAreAccepted
<1>4. answer.outcome = "ok" => Grounded(draft, contexts)
  BY <1>1, OkIsGrounded
<1>5. answer.outcome = "abstained" => draft.abstained /\ Cites(draft) = {}
  <2> SUFFICES ASSUME answer.outcome = "abstained"
               PROVE  draft.abstained /\ Cites(draft) = {}
    OBVIOUS
  <2>1. ~HasErrors(report) /\ draft.abstained
    BY <1>2 DEF OutcomeOf
  <2>2. draft.citations = <<>>
    BY <2>1 DEF HasErrors, Report
  <2> QED
    BY <1>1, <2>1, <2>2, Citing
<1>6. CitationValidity(answer) = (answer.outcome \in {"ok", "abstained"})
  BY <1>2 DEF CitationValidity, OutcomeOf
<1>7. ASSUME NEW relevant \in SUBSET Identifiers
      PROVE  Between(ContextPrecision(contexts, relevant), Zero, One)
  <2> DEFINE both == Cardinality(relevant \cap contexts)
             all == Cardinality(contexts)
  <2>1. both \in Nat /\ all \in Nat /\ both <= all
    <3>1. IsFiniteSet(contexts)
      BY AnswerAssumption, FS_Subset
    <3>2. relevant \cap contexts \in SUBSET contexts
      OBVIOUS
    <3> QED
      BY <3>1, <3>2, FS_Subset, FS_CardinalityType
  <2> HIDE DEF both, all
  <2>2. Between(Ratio(both, all, Zero), Zero, One)
    BY <2>1 DEF Ratio, Between, AtMost, Zero, One
  <2> QED
    BY <2>2 DEF ContextPrecision, both, all
<1> QED
  BY <1>3, <1>4, <1>5, <1>6, <1>7

(* No answer that was paid for is lost to its contract, and what it says   *)
(* of itself is true: "ok" is grounded, "abstained" cites nothing, and the *)
(* citation score is given to these two only                               *)
(* (CitedAnswerer.answer, validate_outcome, compute_answer_metrics).       *)
THEOREM EveryAnswerIsSound == ASpec => []AnswersAreSound
<1>1. \A outcome \in FailedOutcomes : FailsSoundly(outcome)
  BY DEF FailsSoundly, FailedOutcomes, FailedAnswer, Accepted, GeneratedOutcomes, CitationValidity
<1>2. SubjectInv => AnswersAreSound
  BY <1>1, SubjectInputs, EveryDraftAnswersSoundly DEF AnswersAreSound
<1> QED
  BY <1>2, SubjectStays, PTL

-----------------------------------------------------------------------------
(* Induction, by sets in place of predicates; sums, by induction.          *)
LEMMA Smallest ==
  ASSUME NEW T \in SUBSET Nat, T # {}
  PROVE  \E m \in T : \A n \in T : m <= n
<1> DEFINE R == {ss \in Nat \X Nat : ss[1] < ss[2]}
<1>1. IsWellFoundedOn(R, Nat)
  BY NatLessThanWellFounded DEF OpToRel
<1>2. PICK m \in T : \A y \in T : <<y, m>> \notin R
  BY <1>1, WFMin
<1>3. \A y \in T : ~(y < m)
  BY <1>2
<1> QED
  BY <1>3

LEMMA Induction ==
  ASSUME NEW S \in SUBSET Nat, 0 \in S, \A n \in S : n + 1 \in S
  PROVE  S = Nat
<1> SUFFICES ASSUME S # Nat PROVE FALSE
  OBVIOUS
<1>1. PICK m \in Nat \ S : \A n \in Nat \ S : m <= n
  BY Smallest
<1>2. m - 1 \in Nat /\ m - 1 \in S
  BY <1>1
<1> QED
  BY <1>1, <1>2

(* the running sums of h *)
Sums(g, h, D) == g = [i \in D |-> IF i = 0 THEN 0 ELSE g[i - 1] + h[i]]

LEMMA SumsExist ==
  ASSUME NEW h, NEW n \in Nat
  PROVE  \E g : Sums(g, h, 0..n)
<1> DEFINE S == {m \in Nat : \E g : Sums(g, h, 0..m)}
<1>1. 0 \in S
  <2>1. Sums([i \in 0..0 |-> 0], h, 0..0)
    BY DEF Sums
  <2> QED
    BY <2>1
<1>2. ASSUME NEW m \in S PROVE m + 1 \in S
  <2>1. PICK g : Sums(g, h, 0..m)
    OBVIOUS
  <2> DEFINE e == [i \in 0..(m + 1) |-> IF i = m + 1 THEN g[m] + h[m + 1] ELSE g[i]]
  <2>2. \A i \in 0..(m + 1) : e[i] = IF i = 0 THEN 0 ELSE e[i - 1] + h[i]
    <3> SUFFICES ASSUME NEW i \in 0..(m + 1) PROVE e[i] = IF i = 0 THEN 0 ELSE e[i - 1] + h[i]
      OBVIOUS
    <3>1. CASE i = m + 1
      <4>1. i - 1 = m /\ m \in 0..(m + 1) /\ m # m + 1 /\ i # 0
        BY <3>1
      <4>2. e[i] = g[m] + h[i] /\ e[m] = g[m]
        BY <3>1, <4>1
      <4> QED
        BY <4>1, <4>2
    <3>2. CASE i # m + 1
      <4>1. i \in 0..m
        BY <3>2
      <4>2. e[i] = g[i] /\ (i # 0 => e[i - 1] = g[i - 1])
        BY <4>1
      <4>3. g[i] = IF i = 0 THEN 0 ELSE g[i - 1] + h[i]
        BY <2>1, <4>1 DEF Sums
      <4> QED
        BY <4>2, <4>3
    <3> QED
      BY <3>1, <3>2
  <2>3. Sums(e, h, 0..(m + 1))
    BY <2>2 DEF Sums
  <2> QED
    BY <2>3
<1>3. S = Nat
  <2> HIDE DEF S
  <2>1. S \in SUBSET Nat
    BY DEF S
  <2> QED
    BY <1>1, <1>2, <2>1, Induction
<1> QED
  BY <1>3

LEMMA SumsAgree ==
  ASSUME NEW g, NEW h, NEW n \in Nat, Sums(g, h, 0..n),
         NEW e, NEW f, NEW D, 0..n \subseteq D, Sums(e, f, D),
         \A i \in 1..n : h[i] = f[i]
  PROVE  \A i \in 0..n : g[i] = e[i]
<1> DEFINE S == {m \in Nat : m <= n => g[m] = e[m]}
<1>1. 0 \in S
  BY DEF Sums
<1>2. ASSUME NEW m \in S PROVE m + 1 \in S
  <2> SUFFICES ASSUME m + 1 <= n PROVE g[m + 1] = e[m + 1]
    OBVIOUS
  <2>1. m \in Nat /\ m + 1 \in 0..n /\ m + 1 \in D /\ m + 1 \in 1..n /\ m + 1 # 0 /\ (m + 1) - 1 = m
        /\ g[m] = e[m]
    OBVIOUS
  <2>2. g[m + 1] = g[(m + 1) - 1] + h[m + 1]
    BY <2>1 DEF Sums
  <2>3. e[m + 1] = e[(m + 1) - 1] + f[m + 1]
    BY <2>1 DEF Sums
  <2> QED
    BY <2>1, <2>2, <2>3
<1>3. S = Nat
  <2> HIDE DEF S
  <2>1. S \in SUBSET Nat
    BY DEF S
  <2> QED
    BY <1>1, <1>2, <2>1, Induction
<1> QED
  BY <1>3

Part(h) == [n \in Nat |-> (CHOOSE g : Sums(g, h, 0..n))[n]]

LEMMA PartIsSum ==
  ASSUME NEW h \in [Nat -> Int]
  PROVE  /\ Part(h) \in [Nat -> Int] /\ Part(h)[0] = 0
         /\ \A n \in Nat : Part(h)[n + 1] = Part(h)[n] + h[n + 1]
<1> DEFINE to(n) == CHOOSE g : Sums(g, h, 0..n)
<1>1. \A n \in Nat : Sums(to(n), h, 0..n)
  BY SumsExist
<1> HIDE DEF to
<1>2. \A n \in Nat : Part(h)[n] = to(n)[n]
  BY DEF Part, to
<1>3. Part(h)[0] = 0
  BY <1>1, <1>2 DEF Sums
<1>4. ASSUME NEW n \in Nat PROVE Part(h)[n + 1] = Part(h)[n] + h[n + 1]
  <2>1. Sums(to(n), h, 0..n) /\ Sums(to(n + 1), h, 0..(n + 1)) /\ 0..n \subseteq 0..(n + 1)
    BY <1>1
  <2>2. \A i \in 0..n : to(n)[i] = to(n + 1)[i]
    BY <2>1, SumsAgree
  <2>3. n + 1 \in 0..(n + 1) /\ n + 1 # 0 /\ (n + 1) - 1 = n /\ n \in 0..n
    OBVIOUS
  <2>4. to(n + 1)[n + 1] = to(n + 1)[(n + 1) - 1] + h[n + 1]
    BY <2>1, <2>3 DEF Sums
  <2> QED
    BY <1>2, <2>2, <2>3, <2>4
<1>5. \A n \in Nat : Part(h)[n] \in Int
  <2> DEFINE S == {n \in Nat : Part(h)[n] \in Int}
  <2>1. 0 \in S /\ \A n \in S : n + 1 \in S
    BY <1>3, <1>4
  <2>2. S \in SUBSET Nat
    OBVIOUS
  <2>3. S = Nat
    <3> HIDE DEF S
    <3> QED
      BY <2>1, <2>2, Induction
  <2> QED
    BY <2>3
<1>6. Part(h) \in [Nat -> Int]
  BY <1>5 DEF Part
<1> QED
  BY <1>3, <1>4, <1>6

LEMMA SumOfIsPart ==
  ASSUME NEW values, NEW n \in Nat, Len(values) = n, NEW h \in [Nat -> Int],
         \A i \in 1..n : h[i] = values[i]
  PROVE  SumOf(values) = Part(h)[n]
<1> DEFINE upto[m \in 0..n] == IF m = 0 THEN 0 ELSE upto[m - 1] + values[m]
<1>1. SumOf(values) = upto[n]
  BY DEF SumOf
<1>2. Sums(upto, values, 0..n)
  BY SumsExist DEF Sums
<1>3. Sums(Part(h), h, Nat)
  <2>1. /\ Part(h) = [i \in Nat |-> Part(h)[i]]
        /\ \A i \in Nat : Part(h)[i] = IF i = 0 THEN 0 ELSE Part(h)[i - 1] + h[i]
    <3>1. ASSUME NEW i \in Nat PROVE Part(h)[i] = IF i = 0 THEN 0 ELSE Part(h)[i - 1] + h[i]
      <4>1. i # 0 => i - 1 \in Nat /\ (i - 1) + 1 = i
        OBVIOUS
      <4>2. i # 0 => Part(h)[(i - 1) + 1] = Part(h)[i - 1] + h[(i - 1) + 1]
        BY <4>1, PartIsSum
      <4> QED
        BY <4>1, <4>2, PartIsSum
    <3>2. Part(h) = [i \in Nat |-> Part(h)[i]]
      BY PartIsSum
    <3> QED
      BY <3>1, <3>2
  <2> QED
    BY <2>1 DEF Sums
<1> HIDE DEF upto
<1>4. \A i \in 0..n : upto[i] = Part(h)[i]
  BY <1>2, <1>3, SumsAgree
<1> QED
  BY <1>1, <1>4

LEMMA PartGrows ==
  ASSUME NEW h \in [Nat -> Int], NEW g \in [Nat -> Int], NEW n \in Nat,
         \A i \in 1..n : h[i] <= g[i]
  PROVE  Part(h)[n] <= Part(g)[n]
<1> DEFINE S == {m \in Nat : m <= n => Part(h)[m] <= Part(g)[m]}
<1>1. 0 \in S
  BY PartIsSum
<1>2. ASSUME NEW m \in S PROVE m + 1 \in S
  <2> SUFFICES ASSUME m + 1 <= n PROVE Part(h)[m + 1] <= Part(g)[m + 1]
    OBVIOUS
  <2>1. m \in Nat /\ m + 1 \in 1..n /\ Part(h)[m] <= Part(g)[m] /\ h[m + 1] <= g[m + 1]
    OBVIOUS
  <2>2. /\ Part(h)[m + 1] = Part(h)[m] + h[m + 1] /\ Part(g)[m + 1] = Part(g)[m] + g[m + 1]
        /\ Part(h)[m] \in Int /\ Part(g)[m] \in Int /\ h[m + 1] \in Int /\ g[m + 1] \in Int
    BY <2>1, PartIsSum
  <2> QED
    BY <2>1, <2>2
<1>3. S = Nat
  <2> HIDE DEF S
  <2>1. S \in SUBSET Nat
    BY DEF S
  <2> QED
    BY <1>1, <1>2, <2>1, Induction
<1> QED
  BY <1>3

LEMMA PartOfConstant ==
  ASSUME NEW c \in Int, NEW n \in Nat
  PROVE  Part([i \in Nat |-> c])[n] = n * c
<1> DEFINE h == [i \in Nat |-> c]
           S == {m \in Nat : Part(h)[m] = m * c}
<1>1. 0 \in S
  <2>1. 0 * c = 0
    OBVIOUS
  <2> QED
    BY <2>1, PartIsSum
<1>2. ASSUME NEW m \in S PROVE m + 1 \in S
  <2>1. m \in Nat /\ Part(h)[m] = m * c /\ h[m + 1] = c /\ h \in [Nat -> Int]
    OBVIOUS
  <2>2. Part(h)[m + 1] = Part(h)[m] + h[m + 1]
    BY <2>1, PartIsSum
  <2>3. (m + 1) * c = m * c + c
    BY <2>1
  <2> QED
    BY <2>1, <2>2, <2>3
<1>3. S = Nat
  <2> HIDE DEF S
  <2>1. S \in SUBSET Nat
    BY DEF S
  <2> QED
    BY <1>1, <1>2, <2>1, Induction
<1> QED
  BY <1>3

(* g is h but for what it has at k *)
Changes(h, g, k) == \A i \in Nat \ {k} : g[i] = h[i]

LEMMA PartChanges ==
  ASSUME NEW h \in [Nat -> Int], NEW g \in [Nat -> Int], NEW k \in Nat \ {0},
         Changes(h, g, k), NEW n \in Nat
  PROVE  Part(g)[n] = Part(h)[n] + IF k <= n THEN g[k] - h[k] ELSE 0
<1> DEFINE v == g[k]
<1>0. v \in Int /\ \A i \in Nat : g[i] = IF i = k THEN v ELSE h[i]
  BY DEF Changes
<1> HIDE DEF v
<1> DEFINE S == {m \in Nat : Part(g)[m] = Part(h)[m] + IF k <= m THEN v - h[k] ELSE 0}
<1>1. 0 \in S
  BY <1>0, PartIsSum
<1>2. ASSUME NEW m \in S PROVE m + 1 \in S
  <2>1. m \in Nat /\ Part(g)[m] = Part(h)[m] + IF k <= m THEN v - h[k] ELSE 0
    OBVIOUS
  <2>2. /\ Part(h)[m + 1] = Part(h)[m] + h[m + 1] /\ Part(g)[m + 1] = Part(g)[m] + g[m + 1]
        /\ Part(h)[m] \in Int /\ Part(g)[m] \in Int /\ h[m + 1] \in Int /\ g[m + 1] \in Int
        /\ h[k] \in Int /\ v \in Int
    BY <1>0, <2>1, PartIsSum
  <2>3. g[m + 1] = IF k = m + 1 THEN v ELSE h[m + 1]
    BY <1>0, <2>1
  <2>4. Part(g)[m + 1] = Part(h)[m + 1] + IF k <= m + 1 THEN v - h[k] ELSE 0
    BY <2>1, <2>2, <2>3
  <2> QED
    BY <2>1, <2>4
<1>3. S = Nat
  <2> HIDE DEF S
  <2>1. S \in SUBSET Nat
    BY DEF S
  <2> QED
    BY <1>1, <1>2, <2>1, Induction
<1> QED
  BY <1>3 DEF v

-----------------------------------------------------------------------------
(* Usage and cost (TokenUsage, PricingTable.calculate_cost). *)
LEMMA CostOfTokens ==
  ASSUME NEW u \in [input : Nat, output : Nat, cached : Nat, written : Nat], ValidUsage(u),
         NEW price \in [input : Nat, output : Nat, cached : Nat, written : Nat]
  PROVE  /\ Cost(u, price) \in Int /\ Cost(u, price) >= 0
         /\ \A w \in [input : Nat, output : Nat, cached : Nat, written : Nat] :
              ValidUsage(w) =>
                /\ ValidUsage(Combined(u, w))
                /\ Cost(Combined(u, w), price) = Cost(u, price) + Cost(w, price)
<1>1. \A x, y, z \in Int : (x + y) * z = x * z + y * z
  OBVIOUS
<1>2. \A x, z \in Nat : x * z \in Nat
  OBVIOUS
<1>3. \A w \in [input : Nat, output : Nat, cached : Nat, written : Nat] :
        ValidUsage(w) => /\ w.input - w.cached - w.written \in Nat
                         /\ w.output \in Nat /\ w.cached \in Nat /\ w.written \in Nat
  BY DEF ValidUsage
<1>4. /\ price.input \in Nat /\ price.output \in Nat /\ price.cached \in Nat
      /\ price.written \in Nat
  OBVIOUS
<1>5. Cost(u, price) \in Int /\ Cost(u, price) >= 0
  <2>1. /\ (u.input - u.cached - u.written) * price.input \in Nat
        /\ u.cached * price.cached \in Nat /\ u.written * price.written \in Nat
        /\ u.output * price.output \in Nat
    BY <1>2, <1>3, <1>4
  <2> QED
    BY <2>1 DEF Cost
<1>6. ASSUME NEW w \in [input : Nat, output : Nat, cached : Nat, written : Nat], ValidUsage(w)
      PROVE  /\ ValidUsage(Combined(u, w))
             /\ Cost(Combined(u, w), price) = Cost(u, price) + Cost(w, price)
  <2> DEFINE c == Combined(u, w)
  <2>1. /\ c.input = u.input + w.input /\ c.output = u.output + w.output
        /\ c.cached = u.cached + w.cached /\ c.written = u.written + w.written
    BY DEF Combined
  <2>2. /\ u.input \in Nat /\ u.output \in Nat /\ u.cached \in Nat /\ u.written \in Nat
        /\ w.input \in Nat /\ w.output \in Nat /\ w.cached \in Nat /\ w.written \in Nat
    OBVIOUS
  <2> HIDE DEF c
  <2>3. ValidUsage(c)
    BY <1>6, <2>1, <2>2 DEF ValidUsage
  <2>4. c.input - c.cached - c.written
          = (u.input - u.cached - u.written) + (w.input - w.cached - w.written)
    BY <2>1, <2>2
  <2>5. /\ (c.input - c.cached - c.written) * price.input
             = (u.input - u.cached - u.written) * price.input
                 + (w.input - w.cached - w.written) * price.input
        /\ c.cached * price.cached = u.cached * price.cached + w.cached * price.cached
        /\ c.written * price.written = u.written * price.written + w.written * price.written
        /\ c.output * price.output = u.output * price.output + w.output * price.output
    <3>1. u.input - u.cached - u.written \in Int /\ w.input - w.cached - w.written \in Int
      BY <2>2
    <3> QED
      BY <1>1, <1>4, <2>1, <2>2, <2>4, <3>1
  <2>6. /\ (u.input - u.cached - u.written) * price.input \in Nat
        /\ (w.input - w.cached - w.written) * price.input \in Nat
        /\ u.cached * price.cached \in Nat /\ w.cached * price.cached \in Nat
        /\ u.written * price.written \in Nat /\ w.written * price.written \in Nat
        /\ u.output * price.output \in Nat /\ w.output * price.output \in Nat
    BY <1>2, <1>3, <1>4, <1>6, <2>2
  <2>7. Cost(c, price) = Cost(u, price) + Cost(w, price)
    BY <2>5, <2>6 DEF Cost
  <2> QED
    BY <2>3, <2>7 DEF c
<1> QED
  BY <1>5, <1>6

LEMMA SpendAlwaysAdds ==
  ASSUME NEW u \in Usages
  PROVE  SpendAdds(u)
<1>1. \A w \in Usages : w \in [input : Nat, output : Nat, cached : Nat, written : Nat]
                        /\ ValidUsage(w)
  BY DEF Usages
<1>2. \A price \in [input : {2}, output : {3}, cached : 0..2, written : {3}] :
        price \in [input : Nat, output : Nat, cached : Nat, written : Nat]
  OBVIOUS
<1> QED
  BY <1>1, <1>2, CostOfTokens DEF SpendAdds

-----------------------------------------------------------------------------
(* Labels (macro_f1). *)
LEMMA PlusWhole ==
  ASSUME NEW x \in Fraction, NEW y \in Fraction, NEW a \in Int, NEW b \in Int
  PROVE  /\ AtMost(x, <<a, 1>>) /\ AtMost(y, <<b, 1>>) => AtMost(Plus(x, y), <<a + b, 1>>)
         /\ AtMost(<<a, 1>>, x) /\ AtMost(<<b, 1>>, y) => AtMost(<<a + b, 1>>, Plus(x, y))
<1> DEFINE p == x[1]  q == x[2]  r == y[1]  s == y[2]
<1>1. p \in Int /\ r \in Int /\ q \in Nat \ {0} /\ s \in Nat \ {0}
  BY DEF Fraction
<1>2. /\ AtMost(x, <<a, 1>>) <=> p <= a * q
      /\ AtMost(y, <<b, 1>>) <=> r <= b * s
      /\ AtMost(<<a, 1>>, x) <=> a * q <= p
      /\ AtMost(<<b, 1>>, y) <=> b * s <= r
  BY <1>1 DEF AtMost
<1>3. /\ AtMost(Plus(x, y), <<a + b, 1>>) <=> p * s + r * q <= (a + b) * (q * s)
      /\ AtMost(<<a + b, 1>>, Plus(x, y)) <=> (a + b) * (q * s) <= p * s + r * q
  <2>1. p * s + r * q \in Int
    BY <1>1
  <2> QED
    BY <2>1 DEF AtMost, Plus
<1> HIDE DEF p, q, r, s
<1>4. (a + b) * (q * s) = (a * q) * s + (b * s) * q
  BY <1>1
<1>5. p * s \in Int /\ r * q \in Int /\ a * q \in Int /\ b * s \in Int
      /\ (a * q) * s \in Int /\ (b * s) * q \in Int
  BY <1>1
<1>6. /\ p <= a * q <=> p * s <= (a * q) * s
      /\ r <= b * s <=> r * q <= (b * s) * q
      /\ a * q <= p <=> (a * q) * s <= p * s
      /\ b * s <= r <=> (b * s) * q <= r * q
  BY <1>1, <1>5, ScaledOrder
<1> QED
  BY <1>2, <1>3, <1>4, <1>5, <1>6

Has(S, x) == IF x \in S THEN 1 ELSE 0

LEMMA F1Facts ==
  ASSUME NEW n \in Nat, NEW gold \in [1..n -> Labels],
         NEW predicted \in [1..n -> Labels \cup {NoLabel}], NEW label \in Labels
  PROVE  /\ F1(label, gold, predicted) \in Fraction
         /\ AtMost(<<0, 1>>, F1(label, gold, predicted))
         /\ AtMost(F1(label, gold, predicted), <<Has(Range(gold), label), 1>>)
         /\ AtMost(<<Has(Range(gold), label), 1>>, F1(label, gold, gold))
<1> DEFINE both(p) == {i \in DOMAIN gold : gold[i] = label /\ p[i] = label}
           one(p) == {i \in DOMAIN gold : (gold[i] = label) # (p[i] = label)}
           e == Has(Range(gold), label)
<1>1. ASSUME NEW p
      PROVE  /\ Cardinality(both(p)) \in Nat /\ Cardinality(one(p)) \in Nat
             /\ IsFiniteSet(both(p)) /\ IsFiniteSet(one(p))
  <2>1. IsFiniteSet(1..n) /\ both(p) \in SUBSET (1..n) /\ one(p) \in SUBSET (1..n)
    BY Counting
  <2> QED
    BY <2>1, FS_Subset, FS_CardinalityType
<1>2. ASSUME NEW p
      PROVE  F1(label, gold, p)
               = IF 2 * Cardinality(both(p)) + Cardinality(one(p)) = 0 THEN <<0, 1>>
                 ELSE <<2 * Cardinality(both(p)),
                        2 * Cardinality(both(p)) + Cardinality(one(p))>>
  BY DEF F1, Ratio, Zero
<1>3. label \notin Range(gold) => \A p : both(p) = {}
  BY DEF Range
<1>4. Cardinality({}) = 0
  BY FS_EmptySet
<1>5. one(gold) = {}
  OBVIOUS
<1>6. label \in Range(gold) => Cardinality(both(gold)) # 0
  <2>1. label \in Range(gold) => both(gold) # {}
    BY DEF Range
  <2> QED
    BY <1>1, <2>1, FS_EmptySet
<1>7. e \in {0, 1} /\ (e = 1 <=> label \in Range(gold))
  BY DEF Has
<1> HIDE DEF both, one, e
<1>8. ASSUME NEW p
      PROVE  /\ F1(label, gold, p) \in Fraction
             /\ AtMost(<<0, 1>>, F1(label, gold, p))
             /\ AtMost(F1(label, gold, p), <<e, 1>>)
  <2> DEFINE b == Cardinality(both(p))  o == Cardinality(one(p))
  <2>1. b \in Nat /\ o \in Nat /\ (e = 0 => b = 0)
    <3>1. e = 0 => both(p) = {}
      BY <1>3, <1>7
    <3> QED
      BY <1>1, <1>4, <3>1
  <2>2. F1(label, gold, p) = IF 2 * b + o = 0 THEN <<0, 1>> ELSE <<2 * b, 2 * b + o>>
    BY <1>2
  <2> HIDE DEF b, o
  <2>3. CASE 2 * b + o = 0
    BY <1>7, <2>2, <2>3 DEF Fraction, AtMost
  <2>4. CASE 2 * b + o # 0
    <3>1. 2 * b \in Nat /\ 2 * b + o \in Nat \ {0} /\ 2 * b <= 2 * b + o
      BY <2>1, <2>4
    <3>2. /\ AtMost(<<0, 1>>, F1(label, gold, p)) <=> 0 * (2 * b + o) <= (2 * b) * 1
          /\ AtMost(F1(label, gold, p), <<e, 1>>) <=> (2 * b) * 1 <= e * (2 * b + o)
      BY <2>2, <2>4 DEF AtMost
    <3>3. F1(label, gold, p) \in Fraction
      BY <2>2, <2>4, <3>1 DEF Fraction
    <3>4. 0 * (2 * b + o) = 0 /\ (2 * b) * 1 = 2 * b /\ 1 * (2 * b + o) = 2 * b + o
      BY <3>1
    <3>5. (2 * b) * 1 <= e * (2 * b + o)
      <4>1. CASE e = 0
        BY <2>1, <3>4, <4>1
      <4>2. CASE e = 1
        BY <3>1, <3>4, <4>2
      <4> QED
        BY <1>7, <4>1, <4>2
    <3> QED
      BY <3>1, <3>2, <3>3, <3>4, <3>5
  <2> QED
    BY <2>3, <2>4
<1>9. AtMost(<<e, 1>>, F1(label, gold, gold))
  <2> DEFINE b == Cardinality(both(gold))
  <2>1. b \in Nat /\ Cardinality(one(gold)) = 0 /\ (e = 1 => b # 0)
    BY <1>1, <1>4, <1>5, <1>6, <1>7
  <2>2. F1(label, gold, gold) = IF 2 * b + 0 = 0 THEN <<0, 1>> ELSE <<2 * b, 2 * b + 0>>
    BY <1>2, <2>1
  <2> HIDE DEF b
  <2>3. CASE e = 0
    BY <1>8, <2>3
  <2>4. CASE e = 1
    <3>1. 2 * b + 0 # 0 /\ 2 * b + 0 = 2 * b /\ 2 * b \in Nat
      BY <2>1, <2>4
    <3> QED
      BY <2>2, <2>4, <3>1 DEF AtMost
  <2> QED
    BY <1>7, <2>3, <2>4
<1> QED
  BY <1>8, <1>9 DEF e

LEMMA LabelCount ==
  ASSUME NEW S \in SUBSET Labels
  PROVE  Cardinality(S) = Has(S, "SUPPORT") + (Has(S, "CONTRADICT") + Has(S, "NOT_ENOUGH_INFO"))
<1> DEFINE T == S \ {"SUPPORT"}
           U == T \ {"CONTRADICT"}
           V == U \ {"NOT_ENOUGH_INFO"}
<1>1. IsFiniteSet(Labels)
  <2>2. IsFiniteSet({"SUPPORT"} \cup {"CONTRADICT"})
    BY FS_Singleton, FS_AddElement
  <2>3. Labels = ({"SUPPORT"} \cup {"CONTRADICT"}) \cup {"NOT_ENOUGH_INFO"}
    BY DEF Labels
  <2> QED
    BY <2>2, <2>3, FS_AddElement
<1>2. IsFiniteSet(S) /\ IsFiniteSet(T) /\ IsFiniteSet(U)
  BY <1>1, FS_Subset
<1>3. V = {} /\ Cardinality(V) = 0
  BY FS_EmptySet DEF Labels
<1>4. /\ Cardinality(S) \in Nat /\ Cardinality(T) \in Nat /\ Cardinality(U) \in Nat
  BY <1>2, FS_CardinalityType
<1>5. /\ Cardinality(T) = Cardinality(S) - Has(S, "SUPPORT")
      /\ Cardinality(U) = Cardinality(T) - Has(T, "CONTRADICT")
      /\ Cardinality(V) = Cardinality(U) - Has(U, "NOT_ENOUGH_INFO")
  <2>1. ASSUME NEW A, IsFiniteSet(A), Cardinality(A) \in Nat, NEW x
        PROVE  Cardinality(A \ {x}) = Cardinality(A) - Has(A, x)
    BY <2>1, FS_RemoveElement DEF Has
  <2> QED
    BY <1>2, <1>4, <2>1
<1>6. Has(T, "CONTRADICT") = Has(S, "CONTRADICT") /\ Has(U, "NOT_ENOUGH_INFO") = Has(S, "NOT_ENOUGH_INFO")
  BY DEF Has
<1>7. \A x : Has(S, x) \in {0, 1}
  BY DEF Has
<1> HIDE DEF T, U, V
<1> QED
  BY <1>3, <1>4, <1>5, <1>6, <1>7

LEMMA MacroF1Facts ==
  ASSUME NEW n \in Nat, NEW gold \in [1..n -> Labels],
         NEW predicted \in [1..n -> Labels \cup {NoLabel}]
  PROVE  /\ AtMost(Zero, MacroF1(gold, predicted))
         /\ AtMost(MacroF1(gold, predicted), <<Cardinality(Range(gold)), 3>>)
         /\ Equals(MacroF1(gold, gold), <<Cardinality(Range(gold)), 3>>)
<1> DEFINE m == Cardinality(Range(gold))
           Sum3(p) == Plus(F1("SUPPORT", gold, p),
                           Plus(F1("CONTRADICT", gold, p), F1("NOT_ENOUGH_INFO", gold, p)))
           E(l) == Has(Range(gold), l)
<1>1. /\ m = E("SUPPORT") + (E("CONTRADICT") + E("NOT_ENOUGH_INFO"))
      /\ \A l : E(l) \in {0, 1}
  <2>1. Range(gold) \in SUBSET Labels
    BY DEF Range
  <2> QED
    BY <2>1, LabelCount DEF Has
<1>2. {"SUPPORT", "CONTRADICT", "NOT_ENOUGH_INFO"} \subseteq Labels
  BY DEF Labels
<1>3. gold \in [1..n -> Labels \cup {NoLabel}]
  OBVIOUS
<1> HIDE DEF m, E
<1>4. ASSUME NEW p \in [1..n -> Labels \cup {NoLabel}]
      PROVE  Sum3(p) \in Fraction /\ AtMost(<<0, 1>>, Sum3(p)) /\ AtMost(Sum3(p), <<m, 1>>)
  <2> DEFINE a == F1("SUPPORT", gold, p)
             b == F1("CONTRADICT", gold, p)
             c == F1("NOT_ENOUGH_INFO", gold, p)
  <2>1. \A l \in Labels : /\ F1(l, gold, p) \in Fraction
                          /\ AtMost(<<0, 1>>, F1(l, gold, p))
                          /\ AtMost(F1(l, gold, p), <<E(l), 1>>)
    BY F1Facts DEF E
  <2>2. /\ a \in Fraction /\ AtMost(<<0, 1>>, a) /\ AtMost(a, <<E("SUPPORT"), 1>>)
        /\ b \in Fraction /\ AtMost(<<0, 1>>, b) /\ AtMost(b, <<E("CONTRADICT"), 1>>)
        /\ c \in Fraction /\ AtMost(<<0, 1>>, c) /\ AtMost(c, <<E("NOT_ENOUGH_INFO"), 1>>)
    BY <1>2, <2>1
  <2> HIDE DEF a, b, c
  <2>3. ASSUME NEW x \in Fraction, NEW y \in Fraction, NEW j \in Int, NEW k \in Int,
               AtMost(<<0, 1>>, x), AtMost(<<0, 1>>, y), AtMost(x, <<j, 1>>), AtMost(y, <<k, 1>>)
        PROVE  /\ Plus(x, y) \in Fraction /\ AtMost(<<0, 1>>, Plus(x, y))
               /\ AtMost(Plus(x, y), <<j + k, 1>>)
    <3>1. Plus(x, y) \in Fraction
      BY PlusFacts
    <3>2. AtMost(Plus(x, y), <<j + k, 1>>)
      BY <2>3, PlusWhole
    <3>3. 0 \in Int /\ 0 + 0 = 0
      OBVIOUS
    <3>4. AtMost(<<0 + 0, 1>>, Plus(x, y))
      BY <2>3, <3>3, PlusWhole
    <3> QED
      BY <3>1, <3>2, <3>3, <3>4
  <2>4. /\ E("SUPPORT") \in Int /\ E("CONTRADICT") \in Int /\ E("NOT_ENOUGH_INFO") \in Int
        /\ E("CONTRADICT") + E("NOT_ENOUGH_INFO") \in Int
    BY <1>1
  <2>5. /\ Plus(b, c) \in Fraction /\ AtMost(<<0, 1>>, Plus(b, c))
        /\ AtMost(Plus(b, c), <<E("CONTRADICT") + E("NOT_ENOUGH_INFO"), 1>>)
    BY <2>2, <2>3, <2>4
  <2>6. /\ Plus(a, Plus(b, c)) \in Fraction /\ AtMost(<<0, 1>>, Plus(a, Plus(b, c)))
        /\ AtMost(Plus(a, Plus(b, c)), <<E("SUPPORT") + (E("CONTRADICT") + E("NOT_ENOUGH_INFO")), 1>>)
    BY <2>2, <2>3, <2>4, <2>5
  <2> QED
    BY <1>1, <2>6 DEF a, b, c
<1>5. AtMost(<<m, 1>>, Sum3(gold))
  <2> DEFINE a == F1("SUPPORT", gold, gold)
             b == F1("CONTRADICT", gold, gold)
             c == F1("NOT_ENOUGH_INFO", gold, gold)
  <2>1. \A l \in Labels : F1(l, gold, gold) \in Fraction /\ AtMost(<<E(l), 1>>, F1(l, gold, gold))
    BY <1>3, F1Facts DEF E
  <2>2. /\ a \in Fraction /\ AtMost(<<E("SUPPORT"), 1>>, a)
        /\ b \in Fraction /\ AtMost(<<E("CONTRADICT"), 1>>, b)
        /\ c \in Fraction /\ AtMost(<<E("NOT_ENOUGH_INFO"), 1>>, c)
    BY <1>2, <2>1
  <2> HIDE DEF a, b, c
  <2>3. Plus(b, c) \in Fraction /\ AtMost(<<E("CONTRADICT") + E("NOT_ENOUGH_INFO"), 1>>, Plus(b, c))
    BY <1>1, <2>2, PlusFacts, PlusWhole
  <2>4. AtMost(<<E("SUPPORT") + (E("CONTRADICT") + E("NOT_ENOUGH_INFO")), 1>>, Plus(a, Plus(b, c)))
    BY <1>1, <2>2, <2>3, PlusWhole
  <2> QED
    BY <1>1, <2>4 DEF a, b, c
<1>6. \A p : MacroF1(gold, p) = Times(<<1, 3>>, Sum3(p))
  BY DEF MacroF1
<1>7. m \in Int
  BY <1>1
<1> HIDE DEF Sum3
<1>8. ASSUME NEW x \in Fraction
      PROVE  /\ AtMost(<<0, 1>>, x) => AtMost(Zero, Times(<<1, 3>>, x))
             /\ AtMost(x, <<m, 1>>) => AtMost(Times(<<1, 3>>, x), <<m, 3>>)
             /\ AtMost(<<m, 1>>, x) => AtMost(<<m, 3>>, Times(<<1, 3>>, x))
  <2>1. x[1] \in Int /\ x[2] \in Nat \ {0} /\ m * x[2] \in Int
    BY <1>7 DEF Fraction
  <2>2. m * (3 * x[2]) = 3 * (m * x[2]) /\ (1 * x[1]) * 3 = 3 * x[1]
    BY <1>7, <2>1
  <2> QED
    BY <2>1, <2>2 DEF AtMost, Times, Zero
<1>9. Times(<<1, 3>>, Sum3(gold)) \in Fraction /\ <<m, 3>> \in Fraction
  <2>1. Sum3(gold)[1] \in Int /\ Sum3(gold)[2] \in Nat \ {0}
    BY <1>3, <1>4 DEF Fraction
  <2> QED
    BY <1>7, <2>1 DEF Times, Fraction
<1>10. Equals(Times(<<1, 3>>, Sum3(gold)), <<m, 3>>)
  <2>1. AtMost(Times(<<1, 3>>, Sum3(gold)), <<m, 3>>) /\ AtMost(<<m, 3>>, Times(<<1, 3>>, Sum3(gold)))
    BY <1>3, <1>4, <1>5, <1>8
  <2> QED
    BY <1>9, <2>1, AtMostOrder
<1> QED
  BY <1>3, <1>4, <1>6, <1>8, <1>10 DEF m

LEMMA LabelsAlwaysScored ==
  ASSUME NEW n \in Nat, NEW gold \in [1..n -> Labels]
  PROVE  LabelsScored(gold)
<1>1. gold \in [1..n -> Labels \cup {NoLabel}] /\ DOMAIN gold = 1..n
  OBVIOUS
<1> QED
  BY <1>1, MacroF1Facts DEF LabelsScored, Between

-----------------------------------------------------------------------------
(* Agreement (cohens_kappa).  With n labels, of which a judge says yes to  *)
(* a and the other to b, agreement by chance is Chance(n, a, b) of n * n.  *)
Chance(n, a, b) == a * b + (n - a) * (n - b)

LEMMA ChanceBounds ==
  ASSUME NEW n \in Nat \ {0}, NEW a \in 0..n, NEW b \in 0..n, NEW c \in 0..n,
         a + b - n <= c, n - a - b <= c
  PROVE  /\ Chance(n, a, b) \in Int /\ Chance(n, a, b) = Chance(n, b, a)
         /\ Chance(n, a, b) <= n * n
         /\ 2 * Chance(n, a, b) <= n * n + c * n
<1> DEFINE r == n - a - b
           E == Chance(n, a, b)
<1>1. n \in Int /\ a \in Int /\ b \in Int /\ c \in Int /\ r \in Int /\ c >= 0 /\ n >= 0
  OBVIOUS
<1>2. E \in Int /\ E = Chance(n, b, a)
  <2>1. a * b = b * a /\ (n - a) * (n - b) = (n - b) * (n - a)
    BY <1>1
  <2> QED
    BY <1>1, <2>1 DEF Chance
<1>3. E <= n * n
  <2>1. n * n - E = a * (n - b) + b * (n - a)
    BY <1>1 DEF Chance
  <2>2. a * (n - b) >= 0 /\ b * (n - a) >= 0
    <3>1. a >= 0 /\ n - b >= 0 /\ b >= 0 /\ n - a >= 0
      OBVIOUS
    <3> QED
      BY <1>1, <3>1
  <2>3. n * n \in Int /\ a * (n - b) \in Int /\ b * (n - a) \in Int
    BY <1>1
  <2> QED
    BY <1>2, <2>1, <2>2, <2>3
<1>4. r * r <= c * n
  <2>1. CASE r >= 0
    <3>1. r <= c /\ r <= n
      BY <1>1
    <3>2. r * r <= c * r /\ c * r <= c * n
      BY <1>1, <2>1, <3>1
    <3> QED
      BY <1>1, <3>2
  <2>2. CASE r < 0
    <3> DEFINE t == a + b - n
    <3>1. t \in Int /\ t >= 0 /\ t <= c /\ t <= n /\ r = 0 - t
      BY <1>1, <2>2
    <3> HIDE DEF t
    <3>2. t * t <= c * t /\ c * t <= c * n
      BY <1>1, <3>1
    <3>3. r * r = t * t
      BY <3>1
    <3> QED
      BY <1>1, <3>1, <3>2, <3>3
  <2> QED
    BY <1>1, <2>1, <2>2
<1>5. 2 * E + (a - b) * (a - b) = n * n + r * r
  BY <1>1 DEF Chance
<1>6. (a - b) * (a - b) >= 0 /\ (a - b) * (a - b) \in Int /\ n * n \in Int /\ r * r \in Int
      /\ c * n \in Int
  BY <1>1
<1> HIDE DEF E, r
<1>7. 2 * E <= n * n + c * n
  BY <1>2, <1>4, <1>5, <1>6
<1> QED
  BY <1>2, <1>3, <1>7 DEF E

(* kappa, as a fraction of the counts *)
KappaOf(n, a, b, c) ==
  LET agreed == <<c, n>>
      h == <<a, n>>
      j == <<b, n>>
      expected == Plus(Times(h, j), Times(Minus(One, h), Minus(One, j)))
      left == Minus(One, expected)
  IN IF left[1] = 0 THEN IF Equals(agreed, One) THEN One ELSE Zero
     ELSE Times(Minus(agreed, expected), <<left[2], left[1]>>)

LEMMA KappaReduced ==
  ASSUME NEW n \in Nat \ {0}, NEW a \in 0..n, NEW b \in 0..n, NEW c \in 0..n,
         Chance(n, a, b) <= n * n
  PROVE  LET E == Chance(n, a, b) IN
         IF E = n * n THEN KappaOf(n, a, b, c) = IF c = n THEN One ELSE Zero
         ELSE \E m \in Nat \ {0} : KappaOf(n, a, b, c) = <<m * (c * n - E), m * (n * n - E)>>
<1> DEFINE E == Chance(n, a, b)
           N == n * n
           expected == Plus(Times(<<a, n>>, <<b, n>>),
                            Times(Minus(One, <<a, n>>), Minus(One, <<b, n>>)))
           left == Minus(One, expected)
<1>1. n \in Int /\ a \in Int /\ b \in Int /\ c \in Int /\ n # 0
  OBVIOUS
<1>2. N \in Nat \ {0} /\ E \in Int /\ a * b \in Int /\ (n - a) * (n - b) \in Int
  BY <1>1 DEF Chance
<1>3. expected = <<E * N, N * N>>
  <2>1. expected = <<(a * b) * ((1 * n) * (1 * n)) + ((1 * n - a * 1) * (1 * n - b * 1)) * (n * n),
                     (n * n) * ((1 * n) * (1 * n))>>
    BY DEF Plus, Times, Minus, One
  <2>2. 1 * n = n /\ a * 1 = a /\ b * 1 = b
    BY <1>1
  <2>3. (a * b) * N + ((n - a) * (n - b)) * N = E * N
    BY <1>1, <1>2 DEF Chance
  <2> QED
    BY <2>1, <2>2, <2>3
<1> HIDE DEF expected
<1>4. left = <<N * N - E * N, N * N>>
  <2>1. 1 * (N * N) = N * N /\ (E * N) * 1 = E * N
    BY <1>2
  <2> QED
    BY <1>3, <2>1 DEF Minus, One
<1>5. Minus(<<c, n>>, expected) = <<c * (N * N) - (E * N) * n, n * (N * N)>>
  BY <1>3 DEF Minus
<1>6. N * N - E * N = N * (N - E)
  BY <1>2
<1>7. KappaOf(n, a, b, c) = IF left[1] = 0 THEN IF Equals(<<c, n>>, One) THEN One ELSE Zero
                            ELSE Times(Minus(<<c, n>>, expected), <<left[2], left[1]>>)
  BY DEF KappaOf, left, expected
<1>8. left[1] = 0 <=> E = N
  <2>1. N - E \in Int
    BY <1>2
  <2>2. N * (N - E) = 0 <=> N - E = 0
    BY <1>2, <2>1
  <2> QED
    BY <1>2, <1>4, <1>6, <2>2
<1>9. CASE E = N
  <2>1. Equals(<<c, n>>, One) <=> c = n
    BY <1>1 DEF Equals, One
  <2> QED
    BY <1>7, <1>8, <1>9, <2>1
<1>10. CASE E # N
  <2> DEFINE m == (n * (N * N)) * N
  <2>1. m \in Nat \ {0}
    <3>1. N * N \in Nat \ {0}
      BY <1>2
    <3>2. n * (N * N) \in Nat \ {0}
      BY <3>1
    <3> QED
      BY <1>2, <3>2
  <2>2. KappaOf(n, a, b, c)
          = <<(c * (N * N) - (E * N) * n) * (N * N), (n * (N * N)) * (N * N - E * N)>>
    BY <1>4, <1>5, <1>7, <1>8, <1>10 DEF Times
  <2>3. (n * (N * N)) * (N * N - E * N) = m * (N - E)
    BY <1>1, <1>2
  <2>4. (c * (N * N) - (E * N) * n) * (N * N) = m * (c * n - E)
    <3>1. c * (N * N) = (n * N) * (c * n)
      BY <1>1, <1>2
    <3>2. (E * N) * n = (n * N) * E
      BY <1>1, <1>2
    <3> DEFINE q == c * n
               p == n * N
    <3>3. q \in Int /\ p \in Int
      BY <1>1, <1>2
    <3> HIDE DEF q, p
    <3>4. (p * q - p * E) * (N * N) = ((p * N) * N) * (q - E)
      <4> HIDE DEF E, N
      <4> QED
        BY <1>2, <3>3
    <3>5. (p * N) * N = m
      <4> HIDE DEF N
      <4> QED
        BY <1>1, <1>2 DEF p
    <3> QED
      BY <3>1, <3>2, <3>4, <3>5 DEF p, q
  <2> HIDE DEF m
  <2>5. KappaOf(n, a, b, c) = <<m * (c * n - E), m * (n * n - E)>>
    BY <2>2, <2>3, <2>4
  <2> QED
    BY <1>10, <2>1, <2>5
<1> QED
  BY <1>9, <1>10

LEMMA KappaBounds ==
  ASSUME NEW n \in Nat \ {0}, NEW a \in 0..n, NEW b \in 0..n, NEW c \in 0..n,
         a + b - n <= c, n - a - b <= c
  PROVE  /\ AtMost(<<-1, 1>>, KappaOf(n, a, b, c)) /\ AtMost(KappaOf(n, a, b, c), One)
         /\ Equals(KappaOf(n, a, b, c), KappaOf(n, b, a, c))
         /\ c = n => Equals(KappaOf(n, a, b, c), One)
<1> DEFINE E == Chance(n, a, b)
<1>1. /\ E \in Int /\ E = Chance(n, b, a) /\ E <= n * n /\ 2 * E <= n * n + c * n
      /\ n * n \in Int /\ c * n \in Int /\ c * n <= n * n
  <2>1. n * n \in Int /\ c * n \in Int /\ c * n <= n * n
    OBVIOUS
  <2> QED
    BY <2>1, ChanceBounds
<1>2. Chance(n, b, a) = E /\ Chance(n, b, a) <= n * n
  BY <1>1
<1> HIDE DEF E
<1>3. CASE E = n * n
  <2>1. KappaOf(n, a, b, c) = (IF c = n THEN One ELSE Zero) /\ KappaOf(n, b, a, c) = (IF c = n THEN One ELSE Zero)
    BY <1>1, <1>3, KappaReduced DEF E
  <2> QED
    BY <2>1 DEF AtMost, Equals, One, Zero
<1>4. CASE E # n * n
  <2>1. PICK m \in Nat \ {0} : KappaOf(n, a, b, c) = <<m * (c * n - E), m * (n * n - E)>>
    BY <1>1, <1>4, KappaReduced DEF E
  <2>2. PICK k \in Nat \ {0} : KappaOf(n, b, a, c) = <<k * (c * n - E), k * (n * n - E)>>
    <3>1. LET F == Chance(n, b, a) IN
          IF F = n * n THEN KappaOf(n, b, a, c) = IF c = n THEN One ELSE Zero
          ELSE \E k \in Nat \ {0} : KappaOf(n, b, a, c) = <<k * (c * n - F), k * (n * n - F)>>
      BY <1>2, KappaReduced
    <3> QED
      BY <1>2, <1>4, <3>1
  <2> DEFINE p == c * n - E
             q == n * n - E
  <2>3. p \in Int /\ q \in Nat \ {0} /\ p <= q /\ 0 - q <= p /\ (c = n => p = q)
    BY <1>1, <1>4
  <2>4. KappaOf(n, a, b, c) = <<m * p, m * q>> /\ KappaOf(n, b, a, c) = <<k * p, k * q>>
    BY <2>1, <2>2
  <2> HIDE DEF p, q
  <2>5. m * p \in Int /\ m * q \in Int /\ k * p \in Int /\ k * q \in Int
    BY <2>3
  <2>6. m * p <= m * q /\ -1 * (m * q) <= m * p
    <3>1. p * m <= q * m /\ (0 - q) * m <= p * m
      BY <2>3, ScaledOrder
    <3>2. p * m = m * p /\ q * m = m * q /\ (0 - q) * m = -1 * (m * q)
      BY <2>3
    <3> QED
      BY <3>1, <3>2
  <2>7. (m * p) * (k * q) = (k * p) * (m * q)
    BY <2>3
  <2>8. (m * p) * 1 = m * p /\ 1 * (m * q) = m * q
    BY <2>5
  <2>9. AtMost(<<-1, 1>>, <<m * p, m * q>>) /\ AtMost(<<m * p, m * q>>, One)
    <3> DEFINE t == m * p
               u == m * q
    <3>1. t \in Int /\ u \in Int /\ t <= u /\ -1 * u <= t
      BY <2>5, <2>6
    <3> HIDE DEF t, u
    <3>2. AtMost(<<-1, 1>>, <<t, u>>) /\ AtMost(<<t, u>>, One)
      BY <3>1 DEF AtMost, One
    <3> QED
      BY <3>2 DEF t, u
  <2>10. Equals(<<m * p, m * q>>, <<k * p, k * q>>)
    BY <2>7 DEF Equals
  <2>11. c = n => Equals(<<m * p, m * q>>, One)
    BY <2>3, <2>8 DEF Equals, One
  <2> QED
    BY <2>4, <2>9, <2>10, <2>11
<1> QED
  BY <1>3, <1>4

(* Two judges agree at least where both say yes, and where both say no. *)
LEMMA AgreementCount ==
  ASSUME NEW n \in Nat, NEW human \in [1..n -> BOOLEAN], NEW judge \in [1..n -> BOOLEAN]
  PROVE  LET a == Cardinality({i \in 1..n : human[i]})
             b == Cardinality({i \in 1..n : judge[i]})
             c == Cardinality({i \in 1..n : human[i] = judge[i]})
         IN /\ a \in 0..n /\ b \in 0..n /\ c \in 0..n
            /\ a + b - n <= c /\ n - a - b <= c
<1> DEFINE A == {i \in 1..n : human[i]}
           B == {i \in 1..n : judge[i]}
           C == {i \in 1..n : human[i] = judge[i]}
<1>1. IsFiniteSet(1..n) /\ Cardinality(1..n) = n
  BY Counting
<1>2. A \cap B \subseteq C /\ (1..n) \ (A \cup B) \subseteq C
  BY Zenon
<1>3. A \in SUBSET (1..n) /\ B \in SUBSET (1..n) /\ C \in SUBSET (1..n)
  OBVIOUS
<1> HIDE DEF A, B, C
<1>4. ASSUME NEW X \in SUBSET (1..n)
      PROVE  IsFiniteSet(X) /\ Cardinality(X) \in 0..n
  <2>1. IsFiniteSet(X) /\ Cardinality(X) <= Cardinality(1..n)
    BY <1>1, FS_Subset
  <2> QED
    BY <1>1, <2>1, FS_CardinalityType
<1>5. ASSUME NEW X \in SUBSET C
      PROVE  Cardinality(X) <= Cardinality(C)
  BY <1>3, <1>4, FS_Subset
<1>6. Cardinality(A \cup B) = Cardinality(A) + Cardinality(B) - Cardinality(A \cap B)
  BY <1>3, <1>4, FS_Union
<1>7. Cardinality((1..n) \ (A \cup B)) = n - Cardinality(A \cup B)
  <2>1. (1..n) \cap (A \cup B) = A \cup B
    <3>1. A \subseteq 1..n /\ B \subseteq 1..n
      BY <1>3
    <3> QED
      BY <3>1, Zenon
  <2>2. IsFiniteSet(A \cup B)
    BY <1>3, <1>4, FS_Union
  <2>3. Cardinality((1..n) \ (A \cup B))
          = Cardinality(1..n) - Cardinality((1..n) \cap (A \cup B))
    BY <1>1, <2>2, FS_Difference
  <2> QED
    BY <1>1, <2>1, <2>3
<1>8. /\ Cardinality(A) \in 0..n /\ Cardinality(B) \in 0..n /\ Cardinality(C) \in 0..n
      /\ Cardinality(A \cup B) \in 0..n /\ Cardinality(A \cap B) \in 0..n
  <2>1. A \cup B \in SUBSET (1..n) /\ A \cap B \in SUBSET (1..n)
    BY <1>3
  <2> QED
    BY <1>3, <1>4, <2>1
<1>9. /\ Cardinality(A \cap B) <= Cardinality(C)
      /\ Cardinality((1..n) \ (A \cup B)) <= Cardinality(C)
  BY <1>2, <1>5
<1>10. /\ Cardinality(A) + Cardinality(B) - n <= Cardinality(C)
       /\ n - Cardinality(A) - Cardinality(B) <= Cardinality(C)
  BY <1>6, <1>7, <1>8, <1>9
<1> QED
  BY <1>8, <1>10 DEF A, B, C

LEMMA AgreementAlwaysScored ==
  ASSUME NEW n \in Nat \ {0}, NEW human \in [1..n -> BOOLEAN]
  PROVE  AgreementScored(human)
<1> DEFINE yes(f) == Cardinality({i \in 1..n : f[i]})
           same(f, g) == Cardinality({i \in 1..n : f[i] = g[i]})
<1>1. ASSUME NEW f \in [1..n -> BOOLEAN], NEW g \in [1..n -> BOOLEAN]
      PROVE  Kappa(f, g) = KappaOf(n, yes(f), yes(g), same(f, g))
  <2>1. DOMAIN f = 1..n /\ DOMAIN g = 1..n /\ Len(f) = n /\ Len(g) = n
    BY FunctionIsSeq
  <2>2. Share1(f) = <<yes(f), n>> /\ Share1(g) = <<yes(g), n>>
    BY <2>1 DEF Share1
  <2>3. Cardinality({i \in DOMAIN f : f[i] = g[i]}) = same(f, g)
    BY <2>1
  <2> HIDE DEF yes, same
  <2> QED
    BY <2>1, <2>2, <2>3 DEF Kappa, KappaOf
<1>2. ASSUME NEW f \in [1..n -> BOOLEAN], NEW g \in [1..n -> BOOLEAN]
      PROVE  /\ yes(f) \in 0..n /\ yes(g) \in 0..n /\ same(f, g) \in 0..n
             /\ yes(f) + yes(g) - n <= same(f, g) /\ n - yes(f) - yes(g) <= same(f, g)
  BY AgreementCount
<1>3. ASSUME NEW f, NEW g
      PROVE  same(f, g) = same(g, f)
  <2>1. {i \in 1..n : f[i] = g[i]} = {i \in 1..n : g[i] = f[i]}
    BY Zenon
  <2> QED
    BY <2>1
<1>4. same(human, human) = n
  <2>1. {i \in 1..n : human[i] = human[i]} = 1..n
    BY Zenon
  <2> QED
    BY <2>1, Counting
<1> HIDE DEF yes, same
<1>5. ASSUME NEW judge \in [1..n -> BOOLEAN]
      PROVE  /\ AtMost(<<-1, 1>>, Kappa(human, judge)) /\ AtMost(Kappa(human, judge), One)
             /\ Equals(Kappa(human, judge), Kappa(judge, human))
  <2> DEFINE a == yes(human)
             b == yes(judge)
             c == same(human, judge)
  <2>1. a \in 0..n /\ b \in 0..n /\ c \in 0..n /\ a + b - n <= c /\ n - a - b <= c
    BY <1>2
  <2>2. Kappa(human, judge) = KappaOf(n, a, b, c)
    BY <1>1
  <2>3. Kappa(judge, human) = KappaOf(n, b, a, c)
    BY <1>1, <1>3
  <2> HIDE DEF a, b, c
  <2>4. /\ AtMost(<<-1, 1>>, KappaOf(n, a, b, c)) /\ AtMost(KappaOf(n, a, b, c), One)
        /\ Equals(KappaOf(n, a, b, c), KappaOf(n, b, a, c))
    BY <2>1, KappaBounds
  <2> QED
    BY <2>2, <2>3, <2>4
<1>6. Equals(Kappa(human, human), One)
  <2> DEFINE a == yes(human)
  <2>1. a \in 0..n /\ a + a - n <= n /\ n - a - a <= n
    BY <1>2, <1>4
  <2>2. Kappa(human, human) = KappaOf(n, a, a, n)
    BY <1>1, <1>4
  <2> HIDE DEF a
  <2>3. n \in 0..n
    OBVIOUS
  <2>4. Equals(KappaOf(n, a, a, n), One)
    BY <2>1, <2>3, KappaBounds
  <2> QED
    BY <2>2, <2>4
<1>7. DOMAIN human = 1..n
  OBVIOUS
<1> QED
  BY <1>5, <1>6, <1>7 DEF AgreementScored, Between

-----------------------------------------------------------------------------
(* Reports.  A row is told by its query and its variant when no two rows   *)
(* have both the same, so that rows are counted by pairs.                  *)
Pair(r) == <<r.query, r.variant>>
Pairs(rows) == {Pair(r) : r \in rows}

LEMMA RowsAreFinite ==
  ASSUME NEW rows \in RowSets
  PROVE  IsFiniteSet(rows) /\ \A r \in rows : r.query \in RowQueries /\ r.variant \in RowVariants
<1> DEFINE T == (RowQueries \X RowVariants) \X RowKinds
           f == [r \in rows |-> <<<<r.query, r.variant>>, r.kind>>]
<1>1. \A r \in rows : r \in [query : RowQueries, variant : RowVariants, kind : RowKinds]
  BY DEF RowSets
<1>2. f \in [rows -> T]
  BY <1>1
<1>3. \A r, s \in rows : f[r] = f[s] => r = s
  BY <1>1
<1>4. f \in Injection(rows, T)
  <2> HIDE DEF f
  <2> QED
    BY <1>2, <1>3 DEF Injection, IsInjective
<1>5. IsFiniteSet(T)
  <2>1. IsFiniteSet(RowKinds)
    <3>1. RowKinds = ({"first"} \cup {"second"}) \cup ({"foreign"} \cup {"unscored"})
      BY DEF RowKinds
    <3>2. IsFiniteSet({"first"} \cup {"second"}) /\ IsFiniteSet({"foreign"} \cup {"unscored"})
      BY FS_Singleton, FS_Union
    <3> QED
      BY <3>1, <3>2, FS_Union
  <2>2. IsFiniteSet(RowQueries \X RowVariants)
    BY ReportingAssumption, FS_Product
  <2> QED
    BY <2>1, <2>2, FS_Product
<1>6. IsFiniteSet(rows)
  BY <1>4, <1>5, FS_Injection
<1> QED
  BY <1>1, <1>6

LEMMA PairsCount ==
  ASSUME NEW rows \in RowSets
  PROVE  /\ IsFiniteSet(Pairs(rows))
         /\ Cardinality(Pairs(rows)) = Cardinality(rows)
              <=> \A r, s \in rows : r.query = s.query /\ r.variant = s.variant => r = s
<1> DEFINE f == [r \in rows |-> Pair(r)]
<1>1. f \in Surjection(rows, Pairs(rows))
  BY DEF Surjection, Pairs
<1>2. IsFiniteSet(rows)
  BY RowsAreFinite
<1>3. /\ IsFiniteSet(Pairs(rows))
      /\ Cardinality(Pairs(rows)) = Cardinality(rows) <=> f \in Injection(rows, Pairs(rows))
  BY <1>1, <1>2, FS_Surjection
<1>4. f \in Injection(rows, Pairs(rows)) <=> \A r, s \in rows : f[r] = f[s] => r = s
  <2>1. f \in [rows -> Pairs(rows)]
    BY <1>1 DEF Surjection
  <2> HIDE DEF f
  <2> QED
    BY <2>1 DEF Injection, IsInjective
<1>5. \A r, s \in rows : f[r] = f[s] <=> r.query = s.query /\ r.variant = s.variant
  BY DEF Pair
<1> QED
  BY <1>3, <1>4, <1>5

LEMMA WholeIsReportable ==
  ASSUME NEW rows \in RowSets, NEW variants \in (SUBSET RowVariants) \ {{}},
         NEW queries \in (SUBSET RowQueries) \ {{}}, NEW total,
         Pairs(rows) = queries \X variants, Cardinality(rows) = total,
         total = Cardinality(queries) * Cardinality(variants),
         \A r \in rows : r.kind \in {"first", "second"}
  PROVE  Reportable(rows, variants, total)
<1>1. IsFiniteSet(queries) /\ IsFiniteSet(variants) /\ IsFiniteSet(rows)
  BY ReportingAssumption, RowsAreFinite, FS_Subset
<1>2. Cardinality(queries) \in Nat /\ Cardinality(variants) \in Nat \ {0}
  BY <1>1, FS_CardinalityType, FS_EmptySet
<1>3. \A r \in rows : r.query \in queries /\ r.variant \in variants
  <2>1. \A r \in rows : Pair(r) \in queries \X variants
    BY DEF Pairs
  <2> QED
    BY <2>1 DEF Pair
<1>4. \A q \in queries, v \in variants : \E r \in rows : r.query = q /\ r.variant = v
  <2> SUFFICES ASSUME NEW q \in queries, NEW v \in variants
               PROVE  \E r \in rows : r.query = q /\ r.variant = v
    OBVIOUS
  <2>1. <<q, v>> \in Pairs(rows)
    OBVIOUS
  <2> QED
    BY <2>1 DEF Pairs, Pair
<1>5. rows # {}
  <2>1. PICK q \in queries, v \in variants : TRUE
    OBVIOUS
  <2> QED
    BY <1>4, <2>1
<1>6. \A r, s \in rows : r.query = s.query /\ r.variant = s.variant => r = s
  <2>1. Cardinality(Pairs(rows)) = Cardinality(rows)
    BY <1>1, FS_Product
  <2> QED
    BY <2>1, PairsCount
<1>7. ASSUME NEW v \in variants
      PROVE  QueriesOf(rows, v) = queries /\ Cardinality(RowsOf(rows, v)) = Cardinality(queries)
  <2>1. QueriesOf(rows, v) = queries
    BY <1>3, <1>4 DEF QueriesOf, RowsOf
  <2> DEFINE f == [r \in RowsOf(rows, v) |-> r.query]
  <2>2. f \in Surjection(RowsOf(rows, v), queries)
    BY <2>1 DEF Surjection, QueriesOf
  <2>3. \A r, s \in RowsOf(rows, v) : f[r] = f[s] => r = s
    BY <1>6 DEF RowsOf
  <2>4. IsFiniteSet(RowsOf(rows, v))
    BY <1>1, FS_Subset DEF RowsOf
  <2> HIDE DEF f
  <2>5. f \in Injection(RowsOf(rows, v), queries)
    BY <2>2, <2>3 DEF Surjection, Injection, IsInjective
  <2> QED
    BY <2>1, <2>2, <2>4, <2>5, FS_Surjection
<1>8. total \div Cardinality(variants) = Cardinality(queries)
  <2> DEFINE q == Cardinality(queries)
             v == Cardinality(variants)
  <2> HIDE DEF q, v
  <2>1. q \in Nat /\ v \in Nat \ {0} => (q * v) \div v = q
    OBVIOUS
  <2> QED
    BY <1>2, <2>1 DEF q, v
<1> QED
  BY <1>3, <1>5, <1>6, <1>7, <1>8 DEF Reportable

LEMMA ReportableIsWhole ==
  ASSUME NEW rows \in RowSets, NEW variants \in (SUBSET RowVariants) \ {{}}, NEW total,
         Reportable(rows, variants, total)
  PROVE  \E queries \in (SUBSET RowQueries) \ {{}} :
           /\ Pairs(rows) = queries \X variants
           /\ total = Cardinality(queries) * Cardinality(variants)
<1>1. /\ rows # {} /\ Cardinality(rows) = total
      /\ \A r \in rows : r.variant \in variants
      /\ \A r, s \in rows : r.query = s.query /\ r.variant = s.variant => r = s
      /\ \A v, w \in variants : QueriesOf(rows, v) = QueriesOf(rows, w)
  BY DEF Reportable
<1>2. PICK some \in variants : TRUE
  OBVIOUS
<1> DEFINE queries == QueriesOf(rows, some)
<1>3. \A v \in variants : QueriesOf(rows, v) = queries
  BY <1>1
<1>4. queries \subseteq RowQueries
  BY RowsAreFinite DEF QueriesOf, RowsOf
<1>5. \A r \in rows : r.query \in queries
  <2> SUFFICES ASSUME NEW r \in rows PROVE r.query \in queries
    OBVIOUS
  <2>1. r.query \in QueriesOf(rows, r.variant)
    BY DEF QueriesOf, RowsOf
  <2> QED
    BY <1>1, <1>3, <2>1
<1>6. \A q \in queries, v \in variants : \E r \in rows : r.query = q /\ r.variant = v
  <2> SUFFICES ASSUME NEW q \in queries, NEW v \in variants
               PROVE  \E r \in rows : r.query = q /\ r.variant = v
    OBVIOUS
  <2>1. q \in QueriesOf(rows, v)
    BY <1>3
  <2> QED
    BY <2>1 DEF QueriesOf, RowsOf
<1> HIDE DEF queries
<1>7. Pairs(rows) = queries \X variants
  <2>1. ASSUME NEW p \in Pairs(rows) PROVE p \in queries \X variants
    BY <1>1, <1>5 DEF Pairs, Pair
  <2>2. ASSUME NEW p \in queries \X variants PROVE p \in Pairs(rows)
    <3>1. PICK r \in rows : r.query = p[1] /\ r.variant = p[2]
      BY <1>6
    <3>2. p = Pair(r)
      BY <3>1 DEF Pair
    <3> QED
      BY <3>2 DEF Pairs
  <2> QED
    BY <2>1, <2>2
<1>8. IsFiniteSet(queries) /\ IsFiniteSet(variants)
  BY <1>4, ReportingAssumption, FS_Subset
<1>9. Cardinality(Pairs(rows)) = Cardinality(queries) * Cardinality(variants)
  BY <1>7, <1>8, FS_Product
<1>10. Cardinality(Pairs(rows)) = Cardinality(rows)
  BY <1>1, PairsCount
<1>11. queries # {}
  BY <1>1, <1>5
<1> QED
  BY <1>1, <1>4, <1>7, <1>9, <1>10, <1>11

LEMMA EveryReportIsWhole ==
  ASSUME NEW rows \in RowSets
  PROVE  ReportsWholeRuns(rows)
<1>1. Pairs(rows) = {<<r.query, r.variant>> : r \in rows}
  BY DEF Pairs, Pair
<1> SUFFICES ASSUME NEW variants \in (SUBSET RowVariants) \ {{}},
                    NEW total \in 0..(Cardinality(rows) + 1)
             PROVE  Reportable(rows, variants, total) <=>
                      /\ Cardinality(rows) = total
                      /\ \A r \in rows : r.kind \in {"first", "second"}
                      /\ \E queries \in (SUBSET RowQueries) \ {{}} :
                           /\ Pairs(rows) = queries \X variants
                           /\ total = Cardinality(queries) * Cardinality(variants)
  BY <1>1 DEF ReportsWholeRuns
<1>2. ASSUME Reportable(rows, variants, total)
      PROVE  Cardinality(rows) = total /\ \A r \in rows : r.kind \in {"first", "second"}
  <2>1. \A r \in rows : r.kind \in RowKinds
    BY DEF RowSets
  <2> QED
    BY <1>2, <2>1 DEF Reportable, RowKinds
<1> QED
  BY <1>2, WholeIsReportable, ReportableIsWhole

-----------------------------------------------------------------------------
(* Order statistics: the bounds of a finite set of integers, and where the *)
(* values of a function are in its sorted sequence.                        *)
Bounded(X) == /\ \E x \in X : \A y \in X : x <= y
              /\ \E x \in X : \A y \in X : y <= x

LEMMA FiniteIsBounded ==
  ASSUME NEW S \in SUBSET Int, IsFiniteSet(S), S # {}
  PROVE  Bounded(S)
<1> DEFINE T == {n \in Nat : \A X \in SUBSET S : Cardinality(X) = n + 1 => Bounded(X)}
<1>0. \A X \in SUBSET S : IsFiniteSet(X) /\ Cardinality(X) \in Nat
  BY FS_Subset, FS_CardinalityType
<1>1. 0 \in T
  <2> SUFFICES ASSUME NEW X \in SUBSET S, Cardinality(X) = 1 PROVE Bounded(X)
    OBVIOUS
  <2>1. PICK x : X = {x}
    BY <1>0, FS_Singleton
  <2>2. x \in Int /\ x <= x
    BY <2>1
  <2> QED
    BY <2>1, <2>2 DEF Bounded
<1>2. ASSUME NEW n \in T PROVE n + 1 \in T
  <2> SUFFICES ASSUME NEW X \in SUBSET S, Cardinality(X) = (n + 1) + 1 PROVE Bounded(X)
    OBVIOUS
  <2>0. n \in Nat /\ \A Y \in SUBSET S : Cardinality(Y) = n + 1 => Bounded(Y)
    OBVIOUS
  <2>1. X # {}
    BY <2>0, FS_EmptySet
  <2>2. PICK x \in X : TRUE
    BY <2>1
  <2>3. Cardinality(X \ {x}) = Cardinality(X) - 1
    BY <1>0, FS_RemoveElement
  <2>4. Bounded(X \ {x})
    BY <2>0, <2>3
  <2>5. PICK low \in X \ {x} : \A y \in X \ {x} : low <= y
    BY <2>4 DEF Bounded
  <2>6. PICK high \in X \ {x} : \A y \in X \ {x} : y <= high
    BY <2>4 DEF Bounded
  <2>7. X \subseteq Int
    OBVIOUS
  <2>8. \E l \in {x, low} : \A y \in X : l <= y
    BY <2>5, <2>7
  <2>9. \E h \in {x, high} : \A y \in X : y <= h
    BY <2>6, <2>7
  <2> QED
    BY <2>2, <2>5, <2>6, <2>8, <2>9 DEF Bounded
<1>3. T = Nat
  <2> HIDE DEF T
  <2>1. T \in SUBSET Nat
    BY DEF T
  <2> QED
    BY <1>1, <1>2, <2>1, Induction
<1>4. Cardinality(S) - 1 \in Nat /\ (Cardinality(S) - 1) + 1 = Cardinality(S)
  BY <1>0, FS_EmptySet
<1>5. Cardinality(S) - 1 \in T
  BY <1>3, <1>4
<1> QED
  BY <1>4, <1>5

LEMMA MinAndMax ==
  ASSUME NEW S \in SUBSET Int, IsFiniteSet(S), S # {}
  PROVE  /\ Min(S) \in S /\ \A y \in S : Min(S) <= y
         /\ Max(S) \in S /\ \A y \in S : y <= Max(S)
<1>1. Bounded(S)
  BY FiniteIsBounded
<1>2. \E x \in S : \A y \in S : x >= y
  BY <1>1 DEF Bounded
<1>3. Max(S) \in S /\ \A y \in S : Max(S) >= y
  BY <1>2 DEF Max
<1> QED
  BY <1>1, <1>3 DEF Bounded, Min

UpTo(v, x) == Cardinality({j \in DOMAIN v : v[j] <= x})

LEMMA RangeBounds ==
  ASSUME NEW D, IsFiniteSet(D), D # {}, NEW v \in [D -> Int]
  PROVE  /\ IsFiniteSet(Range(v)) /\ Range(v) \in SUBSET Int /\ Range(v) # {}
         /\ Min(Range(v)) \in Range(v) /\ Max(Range(v)) \in Range(v)
         /\ \A j \in D : Min(Range(v)) <= v[j] /\ v[j] <= Max(Range(v))
<1>1. v \in Surjection(D, Range(v)) /\ Range(v) # {} /\ Range(v) \in SUBSET Int
  BY DEF Surjection, Range
<1>2. IsFiniteSet(Range(v))
  BY <1>1, FS_Surjection
<1>3. \A j \in D : v[j] \in Range(v)
  BY DEF Range
<1> QED
  BY <1>1, <1>2, <1>3, MinAndMax

LEMMA SortedFacts ==
  ASSUME NEW D, IsFiniteSet(D), NEW v \in [D -> Int]
  PROVE  LET n == Cardinality(D) IN
         /\ n \in Nat /\ Sorted(v) \in [1..n -> Range(v)]
         /\ \A i, j \in 1..n : i <= j => Sorted(v)[i] <= Sorted(v)[j]
         /\ \A i \in 1..n, x \in Int : Sorted(v)[i] <= x <=> UpTo(v, x) >= i
<1> DEFINE n == Cardinality(D)
           above(i) == {x \in Range(v) : UpTo(v, x) >= i}
<1>1. n \in Nat /\ DOMAIN v = D
  BY FS_CardinalityType
<1>2. \A x : IsFiniteSet({j \in D : v[j] <= x}) /\ UpTo(v, x) \in Nat
  <2> TAKE x
  <2>1. {j \in D : v[j] <= x} \in SUBSET D
    OBVIOUS
  <2> HIDE DEF n
  <2> QED
    BY <1>1, <2>1, FS_Subset, FS_CardinalityType DEF UpTo
<1>11. \A x : UpTo(v, x) \in Nat
  BY <1>2
<1>3. \A x, y \in Int : x <= y => UpTo(v, x) <= UpTo(v, y)
  <2> SUFFICES ASSUME NEW x \in Int, NEW y \in Int, x <= y
               PROVE  UpTo(v, x) <= UpTo(v, y)
    OBVIOUS
  <2>1. {j \in D : v[j] <= x} \in SUBSET {j \in D : v[j] <= y}
    OBVIOUS
  <2> QED
    BY <1>1, <1>2, <2>1, FS_Subset DEF UpTo
<1>4. Sorted(v) = [i \in 1..n |-> Min(above(i))]
  BY <1>1 DEF Sorted, UpTo
<1>5. \A i : above(i) \in SUBSET Range(v) /\ \A x : x \in above(i) <=> x \in Range(v) /\ UpTo(v, x) >= i
  OBVIOUS
<1> HIDE DEF above
<1>6. ASSUME NEW i \in 1..n
      PROVE  /\ above(i) # {} /\ Range(v) \in SUBSET Int
             /\ Min(above(i)) \in Range(v) /\ UpTo(v, Min(above(i))) >= i
             /\ \A x \in Range(v) : UpTo(v, x) >= i => Min(above(i)) <= x
  <2>1. D # {}
    BY <1>1, FS_EmptySet
  <2>2. /\ IsFiniteSet(Range(v)) /\ Range(v) \in SUBSET Int /\ Max(Range(v)) \in Range(v)
        /\ \A j \in D : v[j] <= Max(Range(v))
    BY <2>1, RangeBounds
  <2>3. {j \in D : v[j] <= Max(Range(v))} = D
    BY <2>2
  <2>4. UpTo(v, Max(Range(v))) = n
    BY <1>1, <2>3 DEF UpTo
  <2>5. Max(Range(v)) \in above(i)
    BY <1>1, <1>5, <2>2, <2>4
  <2>6. IsFiniteSet(above(i)) /\ above(i) \in SUBSET Int
    BY <1>5, <2>2, FS_Subset
  <2>7. Min(above(i)) \in above(i) /\ \A y \in above(i) : Min(above(i)) <= y
    BY <2>5, <2>6, MinAndMax
  <2> QED
    BY <1>5, <2>2, <2>5, <2>7
<1>7. Sorted(v) \in [1..n -> Range(v)]
  BY <1>4, <1>6
<1>8. \A i \in 1..n : Sorted(v)[i] = Min(above(i))
  BY <1>4
<1>9. ASSUME NEW i \in 1..n, NEW x \in Int
      PROVE  Sorted(v)[i] <= x <=> UpTo(v, x) >= i
  <2>1. ASSUME Sorted(v)[i] <= x PROVE UpTo(v, x) >= i
    <3>1. Sorted(v)[i] \in Int /\ UpTo(v, Sorted(v)[i]) >= i
      BY <1>6, <1>8
    <3>2. UpTo(v, Sorted(v)[i]) <= UpTo(v, x)
      BY <1>3, <2>1, <3>1
    <3>3. i \in Int /\ UpTo(v, Sorted(v)[i]) \in Nat /\ UpTo(v, x) \in Nat
      BY <1>11
    <3> QED
      BY <3>1, <3>2, <3>3
  <2>2. ASSUME UpTo(v, x) >= i PROVE Sorted(v)[i] <= x
    <3> DEFINE J == {j \in D : v[j] <= x}
               Y == {y \in Range(v) : y <= x}
    <3>1. D # {}
      BY <1>1, FS_EmptySet
    <3>2. IsFiniteSet(Range(v)) /\ Range(v) \in SUBSET Int
      BY <3>1, RangeBounds
    <3>3. J # {}
      <4>1. Cardinality(J) >= i
        BY <1>1, <2>2 DEF UpTo
      <4> QED
        BY <1>1, <4>1, FS_EmptySet
    <3>4. Y # {} /\ Y \in SUBSET Int /\ IsFiniteSet(Y)
      <4>1. PICK j \in J : TRUE
        BY <3>3
      <4>2. v[j] \in Y
        BY <1>1, <4>1 DEF Range
      <4> QED
        BY <3>2, <4>2, FS_Subset
    <3> DEFINE m == Max(Y)
    <3>5. m \in Y /\ \A y \in Y : y <= m
      BY <3>4, MinAndMax
    <3> HIDE DEF m
    <3>6. m \in Range(v) /\ m <= x /\ m \in Int
      BY <3>4, <3>5
    <3>7. J \in SUBSET {j \in D : v[j] <= m}
      <4> SUFFICES ASSUME NEW j \in J PROVE v[j] <= m
        OBVIOUS
      <4>1. v[j] \in Y
        BY <1>1 DEF Range
      <4> QED
        BY <3>5, <4>1
    <3>8. UpTo(v, x) <= UpTo(v, m)
      BY <1>1, <1>2, <3>7, FS_Subset DEF UpTo
    <3>9. UpTo(v, m) >= i
      <4>1. i \in Int /\ UpTo(v, m) \in Nat /\ UpTo(v, x) \in Nat
        BY <1>11
      <4> QED
        BY <2>2, <3>8, <4>1
    <3>10. Sorted(v)[i] <= m
      BY <1>6, <1>8, <3>6, <3>9
    <3>11. Sorted(v)[i] \in Int
      BY <1>6, <1>8
    <3> QED
      BY <3>6, <3>10, <3>11
  <2> QED
    BY <2>1, <2>2
<1>10. ASSUME NEW i \in 1..n, NEW j \in 1..n, i <= j
       PROVE  Sorted(v)[i] <= Sorted(v)[j]
  <2>1. Sorted(v)[j] \in Int /\ UpTo(v, Sorted(v)[j]) >= j /\ UpTo(v, Sorted(v)[j]) \in Nat
    BY <1>2, <1>6, <1>8
  <2>2. UpTo(v, Sorted(v)[j]) >= i
    BY <1>1, <1>10, <2>1
  <2> QED
    BY <1>9, <2>1, <2>2
<1> QED
  BY <1>1, <1>7, <1>9, <1>10

-----------------------------------------------------------------------------
(* Comparisons (_percentile, _paired_bootstrap_difference). *)
SumOfDraw(differences, draw) == SumOf([i \in DOMAIN draw |-> differences[draw[i]]])

LEMMA SumsAreBounded ==
  ASSUME NEW n \in Nat, NEW low \in Int, NEW high \in Int,
         NEW values \in [1..n -> Int], \A i \in 1..n : low <= values[i] /\ values[i] <= high
  PROVE  SumOf(values) \in Int /\ n * low <= SumOf(values) /\ SumOf(values) <= n * high
<1> DEFINE h == [i \in Nat |-> IF i \in 1..n THEN values[i] ELSE 0]
           l == [i \in Nat |-> low]
           u == [i \in Nat |-> high]
<1>1. h \in [Nat -> Int] /\ l \in [Nat -> Int] /\ u \in [Nat -> Int]
  OBVIOUS
<1>2. \A i \in 1..n : i \in Nat /\ h[i] = values[i] /\ l[i] = low /\ u[i] = high
  OBVIOUS
<1>3. Part(l)[n] = n * low /\ Part(u)[n] = n * high
  BY PartOfConstant
<1> HIDE DEF h, l, u
<1>4. Len(values) = n
  BY FunctionIsSeq
<1>5. SumOf(values) = Part(h)[n]
  <2>1. \A i \in 1..n : h[i] = values[i]
    BY <1>2
  <2>2. h \in [Nat -> Int]
    BY <1>1
  <2> QED
    BY <1>4, <2>1, <2>2, SumOfIsPart
<1>6. Part(l)[n] <= Part(h)[n] /\ Part(h)[n] <= Part(u)[n]
  BY <1>1, <1>2, PartGrows
<1>7. Part(h)[n] \in Int
  BY <1>1, PartIsSum
<1> QED
  BY <1>3, <1>5, <1>6, <1>7

(* the value between two neighbours of a rising sequence, in thousandths *)
Scaled(x) == x * 1000
Weights == 0..999
Mixed(x, y, w) == x * (1000 - w) + y * w

LEMMA MixedBounds ==
  ASSUME NEW x \in Int, NEW y \in Int, x <= y, NEW w \in Weights
  PROVE  /\ Mixed(x, y, w) \in Int
         /\ Scaled(x) <= Mixed(x, y, w) /\ Mixed(x, y, w) <= Scaled(y)
<1> DEFINE k == y - x
<1>1. k \in Nat /\ w \in Int /\ 0 <= w /\ w <= 1000
  BY DEF Weights
<1>2. x * (1000 - w) + y * w = x * 1000 + (y - x) * w
  BY DEF Weights
<1> HIDE DEF k
<1>3. 0 <= k * w /\ k * w <= k * 1000 /\ k * w \in Int
  BY <1>1
<1> QED
  BY <1>2, <1>3 DEF Mixed, Scaled, k

LEMMA MixedGrows ==
  ASSUME NEW x \in Int, NEW y \in Int, x <= y, NEW w \in Weights, NEW z \in Weights, w <= z
  PROVE  Mixed(x, y, w) <= Mixed(x, y, z)
<1> DEFINE k == y - x
<1>1. k \in Nat /\ w \in Int /\ z \in Int
  BY DEF Weights
<1>2. /\ x * (1000 - w) + y * w = x * 1000 + (y - x) * w
      /\ x * (1000 - z) + y * z = x * 1000 + (y - x) * z
  BY <1>1
<1> HIDE DEF k
<1>3. k * w <= k * z /\ k * w \in Int /\ k * z \in Int
  <2>1. k = 0 => k * w = 0 /\ k * z = 0
    BY <1>1
  <2>2. k # 0 => w * k <= z * k
    BY <1>1, ScaledOrder
  <2>3. k * w = w * k /\ k * z = z * k /\ k * w \in Int /\ k * z \in Int
    BY <1>1
  <2> QED
    BY <2>1, <2>2, <2>3
<1> QED
  BY <1>2, <1>3 DEF Mixed, k

LEMMA Interpolated ==
  ASSUME NEW x \in Int, NEW y \in Int, NEW u \in Int, NEW v \in Int, NEW w \in Weights,
         NEW z \in Weights, x <= y, u <= v, y <= u \/ (x = u /\ y = v /\ w <= z)
  PROVE  /\ Mixed(x, y, w) \in Int /\ Mixed(u, v, z) \in Int
         /\ Scaled(x) <= Mixed(x, y, w) /\ Mixed(x, y, w) <= Mixed(u, v, z)
         /\ Mixed(u, v, z) <= Scaled(v)
<1>1. Mixed(x, y, w) \in Int /\ Scaled(x) <= Mixed(x, y, w) /\ Mixed(x, y, w) <= Scaled(y)
  BY MixedBounds, Zenon
<1>2. Mixed(u, v, z) \in Int /\ Scaled(u) <= Mixed(u, v, z) /\ Mixed(u, v, z) <= Scaled(v)
  BY MixedBounds, Zenon
<1>3. CASE x = u /\ y = v /\ w <= z
  <2>1. Mixed(x, y, w) <= Mixed(x, y, z)
    BY <1>3, MixedGrows, Zenon
  <2> QED
    BY <1>1, <1>2, <1>3, <2>1
<1>4. CASE y <= u
  <2>1. Scaled(y) <= Scaled(u) /\ Scaled(y) \in Int /\ Scaled(u) \in Int
    BY <1>4 DEF Scaled
  <2> QED
    BY <1>1, <1>2, <2>1
<1> QED
  BY <1>3, <1>4

Lower(n, t) == ((n - 1) * t) \div 1000
Upper(n, t) == IF Lower(n, t) + 1 < n THEN Lower(n, t) + 1 ELSE n - 1
Weight(n, t) == (n - 1) * t - 1000 * Lower(n, t)

Quantiles == {25, 975}

LEMMA Positions ==
  ASSUME NEW n \in Nat \ {0}, NEW t \in Quantiles
  PROVE  /\ Lower(n, t) \in 0..(n - 1) /\ Weight(n, t) \in Weights
         /\ Upper(n, t) \in 0..(n - 1) /\ Lower(n, t) <= Upper(n, t)
BY DEF Lower, Upper, Weight, Weights, Quantiles

LEMMA PositionsRise ==
  ASSUME NEW n \in Nat \ {0}
  PROVE  \/ Upper(n, 25) <= Lower(n, 975)
         \/ /\ Lower(n, 25) = Lower(n, 975) /\ Upper(n, 25) = Upper(n, 975)
            /\ Weight(n, 25) <= Weight(n, 975)
BY DEF Lower, Upper, Weight

Interpolates(values, low, high) ==
  \E p, q \in Int :
    /\ Percentile(values, 25) = <<p, 1000>> /\ Percentile(values, 975) = <<q, 1000>>
    /\ low * 1000 <= p /\ p <= q /\ q <= high * 1000

LEMMA PercentileFacts ==
  ASSUME NEW n \in Nat \ {0}, NEW values \in [1..n -> Int], NEW low \in Int, NEW high \in Int,
         \A i \in 1..n : low <= values[i] /\ values[i] <= high
  PROVE  Interpolates(values, low, high)
<1> DEFINE s == Sorted(values)
<1>1. Len(values) = n
  BY FunctionIsSeq
<1>2. \A t : Percentile(values, t)
              = <<Mixed(s[Lower(n, t) + 1], s[Upper(n, t) + 1], Weight(n, t)), 1000>>
  BY <1>1 DEF Percentile, Lower, Upper, Weight, Mixed
<1>3. /\ \A i \in 1..n : s[i] \in Int /\ low <= s[i] /\ s[i] <= high
      /\ \A i, j \in 1..n : i <= j => s[i] <= s[j]
  <2>1. IsFiniteSet(1..n) /\ Cardinality(1..n) = n
    BY Counting
  <2>2. /\ Sorted(values) \in [1..n -> Range(values)]
        /\ \A i, j \in 1..n : i <= j => Sorted(values)[i] <= Sorted(values)[j]
    BY <2>1, SortedFacts
  <2>3. \A x \in Range(values) : x \in Int /\ low <= x /\ x <= high
    BY DEF Range
  <2> QED
    BY <2>2, <2>3
<1> HIDE DEF s
<1> DEFINE l == Lower(n, 25) + 1  u == Upper(n, 25) + 1  w == Weight(n, 25)
           k == Lower(n, 975) + 1  v == Upper(n, 975) + 1  z == Weight(n, 975)
           p == Mixed(s[l], s[u], w)
           q == Mixed(s[k], s[v], z)
<1>4. Percentile(values, 25) = <<p, 1000>> /\ Percentile(values, 975) = <<q, 1000>>
  BY <1>2 DEF l, u, w, k, v, z
<1>5. /\ l \in 1..n /\ u \in 1..n /\ k \in 1..n /\ v \in 1..n
      /\ w \in Weights /\ z \in Weights /\ l <= u /\ k <= v
      /\ u <= k \/ (l = k /\ u = v /\ w <= z)
  <2>1. \A t \in Quantiles : /\ Lower(n, t) \in 0..(n - 1) /\ Weight(n, t) \in Weights
                            /\ Upper(n, t) \in 0..(n - 1) /\ Lower(n, t) <= Upper(n, t)
    BY Positions
  <2>7. 25 \in Quantiles /\ 975 \in Quantiles
    BY DEF Quantiles
  <2>2. /\ l \in 1..n /\ u \in 1..n /\ w \in Weights /\ l <= u
    <3>1. /\ Lower(n, 25) \in 0..(n - 1) /\ Weight(n, 25) \in Weights
          /\ Upper(n, 25) \in 0..(n - 1) /\ Lower(n, 25) <= Upper(n, 25)
      BY <2>1, <2>7
    <3> QED
      BY <3>1
  <2>3. /\ k \in 1..n /\ v \in 1..n /\ z \in Weights /\ k <= v
    <3>1. /\ Lower(n, 975) \in 0..(n - 1) /\ Weight(n, 975) \in Weights
          /\ Upper(n, 975) \in 0..(n - 1) /\ Lower(n, 975) <= Upper(n, 975)
      BY <2>1, <2>7
    <3> QED
      BY <3>1
  <2>4. \/ Upper(n, 25) <= Lower(n, 975)
        \/ /\ Lower(n, 25) = Lower(n, 975) /\ Upper(n, 25) = Upper(n, 975)
           /\ Weight(n, 25) <= Weight(n, 975)
    BY PositionsRise
  <2>5. /\ Upper(n, 25) \in Int /\ Lower(n, 975) \in Int
    BY <2>1, <2>7
  <2>6. u <= k \/ (l = k /\ u = v /\ w <= z)
    BY <2>4, <2>5
  <2> QED
    BY <2>2, <2>3, <2>6
<1> HIDE DEF l, u, w, k, v, z
<1>6. /\ s[l] \in Int /\ s[u] \in Int /\ s[k] \in Int /\ s[v] \in Int
      /\ low <= s[l] /\ s[l] <= s[u] /\ s[k] <= s[v] /\ s[v] <= high
      /\ s[u] <= s[k] \/ (s[l] = s[k] /\ s[u] = s[v] /\ w <= z)
  BY <1>3, <1>5
<1>7. /\ p \in Int /\ q \in Int /\ Scaled(s[l]) <= p /\ p <= q /\ q <= Scaled(s[v])
  <2> DEFINE a == s[l]  b == s[u]  c == s[k]  d == s[v]
  <2>1. /\ a \in Int /\ b \in Int /\ c \in Int /\ d \in Int /\ w \in Weights /\ z \in Weights
        /\ a <= b /\ c <= d /\ (b <= c \/ (a = c /\ b = d /\ w <= z))
    BY <1>5, <1>6
  <2> HIDE DEF a, b, c, d
  <2>2. /\ Mixed(a, b, w) \in Int /\ Mixed(c, d, z) \in Int
        /\ Scaled(a) <= Mixed(a, b, w) /\ Mixed(a, b, w) <= Mixed(c, d, z)
        /\ Mixed(c, d, z) <= Scaled(d)
    BY <2>1, Interpolated
  <2> QED
    BY <2>2 DEF a, b, c, d
<1> HIDE DEF p, q
<1>8. low * 1000 <= p /\ q <= high * 1000
  <2> DEFINE c == s[l]  d == s[v]
  <2>1. /\ c \in Int /\ d \in Int /\ low <= c /\ d <= high
        /\ Scaled(c) <= p /\ q <= Scaled(d) /\ p \in Int /\ q \in Int
    BY <1>6, <1>7
  <2> HIDE DEF c, d
  <2> QED
    BY <2>1 DEF Scaled
<1> QED
  BY <1>4, <1>7, <1>8 DEF Interpolates

LEMMA EveryComparisonIsFair ==
  ASSUME NEW n \in Nat \ {0}, NEW differences \in [1..n -> Int]
  PROVE  ComparesFairly(differences)
<1> SUFFICES ASSUME NEW draws \in [1..Resamples -> [1..n -> 1..n]]
             PROVE  LET interval == Interval(differences, draws)
                        lowest == n * Min(Range(differences))
                        highest == n * Max(Range(differences))
                    IN
                    /\ Between(interval[1], <<lowest, 1>>, interval[2])
                    /\ AtMost(interval[2], <<highest, 1>>)
                    /\ lowest > 0 \/ highest < 0 => Significant(interval)
                    /\ Range(differences) = {0} => ~Significant(interval)
  <2>1. DOMAIN differences = 1..n /\ Len(differences) = n
    BY FunctionIsSeq
  <2> QED
    BY <2>1 DEF ComparesFairly
<1> DEFINE a == Min(Range(differences))
           b == Max(Range(differences))
           interval == Interval(differences, draws)
<1>1. DOMAIN differences = 1..n /\ Len(differences) = n /\ 1 \in 1..n
  BY FunctionIsSeq
<1>2. /\ a \in Range(differences) /\ b \in Range(differences) /\ a \in Int /\ b \in Int
      /\ \A j \in 1..n : a <= differences[j] /\ differences[j] <= b
  <2>1. IsFiniteSet(1..n) /\ 1..n # {}
    BY <1>1, Counting
  <2> QED
    BY <2>1, RangeBounds
<1>3. Range(differences) = {0} => a = 0 /\ b = 0
  BY <1>2
<1> HIDE DEF a, b
<1>4. \E p, q \in Int, m \in {1, 1000} :
        /\ interval = <<<<p, m>>, <<q, m>>>>
        /\ (n * a) * m <= p /\ p <= q /\ q <= (n * b) * m
  <2>1. CASE n = 1
    <3>1. interval = <<<<differences[1], 1>>, <<differences[1], 1>>>>
      BY <1>1, <2>1 DEF Interval
    <3>2. differences[1] \in Int /\ a <= differences[1] /\ differences[1] <= b
      BY <1>1, <1>2
    <3>3. (n * a) * 1 = a /\ (n * b) * 1 = b
      BY <1>2, <2>1
    <3>4. (n * a) * 1 <= differences[1] /\ differences[1] <= differences[1] /\ differences[1] <= (n * b) * 1
      BY <1>2, <3>2, <3>3
    <3> QED
      BY <3>1, <3>2, <3>4
  <2>2. CASE n # 1
    <3> DEFINE sums == [k \in 1..Resamples |-> SumOfDraw(differences, draws[k])]
    <3>1. interval = <<Percentile(sums, 25), Percentile(sums, 975)>>
      BY <1>1, <2>2 DEF Interval, SumOfDraw
    <3>2. \A k \in 1..Resamples : /\ sums[k] \in Int
                                  /\ n * a <= sums[k] /\ sums[k] <= n * b
      <4> SUFFICES ASSUME NEW k \in 1..Resamples
                   PROVE  LET x == SumOfDraw(differences, draws[k])
                          IN x \in Int /\ n * a <= x /\ x <= n * b
        OBVIOUS
      <4> DEFINE values == [i \in 1..n |-> differences[draws[k][i]]]
      <4>1. draws[k] \in [1..n -> 1..n]
        OBVIOUS
      <4>2. /\ values \in [1..n -> Int]
            /\ \A i \in 1..n : a <= values[i] /\ values[i] <= b
        BY <1>2, <4>1
      <4>3. SumOfDraw(differences, draws[k]) = SumOf(values)
        BY <4>1 DEF SumOfDraw
      <4> HIDE DEF values
      <4>4. SumOf(values) \in Int /\ n * a <= SumOf(values) /\ SumOf(values) <= n * b
        BY <1>2, <4>2, SumsAreBounded
      <4> QED
        BY <4>3, <4>4
    <3>3. n * a \in Int /\ n * b \in Int
      BY <1>2
    <3>4. Resamples \in Nat \ {0}
      BY ReportingAssumption
    <3>5. sums \in [1..Resamples -> Int]
      BY <3>2
    <3> DEFINE low == n * a
               high == n * b
    <3> HIDE DEF sums, low, high
    <3>7. /\ low \in Int /\ high \in Int
          /\ \A k \in 1..Resamples : low <= sums[k] /\ sums[k] <= high
      BY <3>2, <3>3 DEF low, high
    <3>6. Interpolates(sums, low, high)
      BY <3>4, <3>5, <3>7, PercentileFacts
    <3> QED
      BY <3>1, <3>6 DEF low, high, Interpolates
  <2> QED
    BY <2>1, <2>2
<1>5. PICK p \in Int, q \in Int, m \in {1, 1000} :
        /\ interval = <<<<p, m>>, <<q, m>>>>
        /\ (n * a) * m <= p /\ p <= q /\ q <= (n * b) * m
  BY <1>4
<1> HIDE DEF interval
<1> DEFINE lowest == n * a
           highest == n * b
<1>6. lowest \in Int /\ highest \in Int /\ (a = 0 => lowest = 0) /\ (b = 0 => highest = 0)
  BY <1>2
<1>7. lowest * m <= p /\ q <= highest * m
  BY <1>5
<1> HIDE DEF lowest, highest
<1>8. /\ Between(interval[1], <<lowest, 1>>, interval[2])
      /\ AtMost(interval[2], <<highest, 1>>)
  <2>1. p * m <= q * m
    BY <1>5
  <2> QED
    BY <1>5, <1>6, <1>7, <2>1 DEF Between, AtMost
<1>9. Significant(interval) <=> 0 < p \/ q < 0
  BY <1>5 DEF Significant, Below, Zero
<1>10. /\ lowest > 0 => p > 0
       /\ highest < 0 => q < 0
       /\ lowest = 0 => p >= 0
       /\ highest = 0 => q <= 0
  BY <1>5, <1>6, <1>7
<1> QED
  BY <1>3, <1>5, <1>6, <1>8, <1>9, <1>10 DEF lowest, highest, a, b, interval

-----------------------------------------------------------------------------
(* Retrieval metrics.  First sums again: of a sum, of terms that are not   *)
(* negative, of zeros and ones, and of terms of which two change.          *)
LEMMA PartAdds ==
  ASSUME NEW h \in [Nat -> Int], NEW g \in [Nat -> Int], NEW e \in [Nat -> Int],
         \A i \in Nat : e[i] = h[i] + g[i], NEW n \in Nat
  PROVE  Part(e)[n] = Part(h)[n] + Part(g)[n]
<1> DEFINE S == {m \in Nat : Part(e)[m] = Part(h)[m] + Part(g)[m]}
<1>1. 0 \in S
  BY PartIsSum
<1>2. ASSUME NEW m \in S PROVE m + 1 \in S
  <2>1. m \in Nat /\ m + 1 \in Nat /\ Part(e)[m] = Part(h)[m] + Part(g)[m]
    OBVIOUS
  <2>2. /\ Part(h)[m + 1] = Part(h)[m] + h[m + 1] /\ Part(g)[m + 1] = Part(g)[m] + g[m + 1]
        /\ Part(e)[m + 1] = Part(e)[m] + e[m + 1]
        /\ Part(h)[m] \in Int /\ Part(g)[m] \in Int
    BY <2>1, PartIsSum
  <2>3. h[m + 1] \in Int /\ g[m + 1] \in Int /\ e[m + 1] = h[m + 1] + g[m + 1]
    BY <2>1
  <2> QED
    BY <2>1, <2>2, <2>3
<1>3. S = Nat
  <2> HIDE DEF S
  <2>1. S \in SUBSET Nat
    BY DEF S
  <2> QED
    BY <1>1, <1>2, <2>1, Induction
<1> QED
  BY <1>3

LEMMA PartRises ==
  ASSUME NEW h \in [Nat -> Nat]
  PROVE  /\ \A n \in Nat : Part(h)[n] \in Nat
         /\ \A m, n \in Nat : m <= n => Part(h)[m] <= Part(h)[n]
<1>0. h \in [Nat -> Int]
  OBVIOUS
<1>1. ASSUME NEW m \in Nat
      PROVE  \A n \in Nat : m <= n => Part(h)[m] <= Part(h)[n]
  <2> DEFINE S == {n \in Nat : m <= n => Part(h)[m] <= Part(h)[n]}
  <2>1. 0 \in S
    <3>1. m <= 0 => m = 0
      OBVIOUS
    <3>2. Part(h)[0] <= Part(h)[0]
      BY <1>0, PartIsSum
    <3> QED
      BY <3>1, <3>2
  <2>2. ASSUME NEW n \in S PROVE n + 1 \in S
    <3> SUFFICES ASSUME m <= n + 1 PROVE Part(h)[m] <= Part(h)[n + 1]
      OBVIOUS
    <3>1. n \in Nat /\ n + 1 \in Nat /\ (m <= n => Part(h)[m] <= Part(h)[n])
      OBVIOUS
    <3>2. /\ Part(h)[n + 1] = Part(h)[n] + h[n + 1]
          /\ Part(h)[n] \in Int /\ Part(h)[m] \in Int
      BY <1>0, <3>1, PartIsSum
    <3>3. h[n + 1] \in Nat
      BY <3>1
    <3> QED
      BY <3>1, <3>2, <3>3
  <2>3. S = Nat
    <3> HIDE DEF S
    <3>1. S \in SUBSET Nat
      BY DEF S
    <3> QED
      BY <2>1, <2>2, <3>1, Induction
  <2> QED
    BY <2>3
<1>2. ASSUME NEW n \in Nat PROVE Part(h)[n] \in Nat
  <2>1. Part(h)[0] <= Part(h)[n]
    BY <1>1
  <2> QED
    BY <1>0, <2>1, PartIsSum
<1> QED
  BY <1>1, <1>2

LEMMA PartStays ==
  ASSUME NEW h \in [Nat -> Int], NEW m \in Nat, NEW n \in Nat, m <= n,
         \A i \in Nat : m < i => h[i] = 0
  PROVE  Part(h)[n] = Part(h)[m]
<1> DEFINE S == {k \in Nat : m <= k => Part(h)[k] = Part(h)[m]}
<1>1. 0 \in S
  OBVIOUS
<1>2. ASSUME NEW k \in S PROVE k + 1 \in S
  <2> SUFFICES ASSUME m <= k + 1 PROVE Part(h)[k + 1] = Part(h)[m]
    OBVIOUS
  <2>1. k \in Nat /\ k + 1 \in Nat /\ (m <= k => Part(h)[k] = Part(h)[m])
    OBVIOUS
  <2>2. Part(h)[k + 1] = Part(h)[k] + h[k + 1] /\ Part(h)[k] \in Int
    BY <2>1, PartIsSum
  <2>3. m <= k => h[k + 1] = 0
    BY <2>1
  <2> QED
    BY <2>1, <2>2, <2>3
<1>3. S = Nat
  <2> HIDE DEF S
  <2>1. S \in SUBSET Nat
    BY DEF S
  <2> QED
    BY <1>1, <1>2, <2>1, Induction
<1> QED
  BY <1>3

LEMMA PartCounts ==
  ASSUME NEW b \in [Nat -> {0, 1}], NEW n \in Nat
  PROVE  /\ IsFiniteSet({i \in 1..n : b[i] = 1})
         /\ Part(b)[n] = Cardinality({i \in 1..n : b[i] = 1})
<1> DEFINE ones(m) == {i \in 1..m : b[i] = 1}
           S == {m \in Nat : IsFiniteSet(ones(m)) /\ Part(b)[m] = Cardinality(ones(m))}
<1>0. b \in [Nat -> Int]
  OBVIOUS
<1>1. 0 \in S
  <2>1. ones(0) = {}
    OBVIOUS
  <2> HIDE DEF ones
  <2> QED
    BY <1>0, <2>1, PartIsSum, FS_EmptySet
<1>2. ASSUME NEW m \in S PROVE m + 1 \in S
  <2>1. m \in Nat /\ m + 1 \in Nat /\ IsFiniteSet(ones(m)) /\ Part(b)[m] = Cardinality(ones(m))
    OBVIOUS
  <2>2. Part(b)[m + 1] = Part(b)[m] + b[m + 1]
    BY <1>0, <2>1, PartIsSum
  <2>3. CASE b[m + 1] = 1
    <3>1. ones(m + 1) = ones(m) \cup {m + 1} /\ (m + 1) \notin ones(m)
      BY <2>1, <2>3
    <3> HIDE DEF ones
    <3>2. IsFiniteSet(ones(m + 1)) /\ Cardinality(ones(m + 1)) = Cardinality(ones(m)) + 1
      BY <2>1, <3>1, FS_AddElement
    <3> QED
      BY <2>1, <2>2, <2>3, <3>2
  <2>4. CASE b[m + 1] # 1
    <3>1. ones(m + 1) = ones(m)
      BY <2>1, <2>4
    <3>2. b[m + 1] = 0
      BY <2>1, <2>4
    <3> HIDE DEF ones
    <3>3. Cardinality(ones(m)) \in Nat
      BY <2>1, FS_CardinalityType
    <3> QED
      BY <2>1, <2>2, <3>1, <3>2, <3>3
  <2> QED
    BY <2>3, <2>4
<1>3. S = Nat
  <2> HIDE DEF S
  <2>1. S \in SUBSET Nat
    BY DEF S
  <2> QED
    BY <1>1, <1>2, <2>1, Induction
<1> QED
  BY <1>3

(* what was at i + 1 moves to i, where nothing was, and may only grow *)
LEMMA MovedUp ==
  ASSUME NEW h \in [Nat -> Nat], NEW g \in [Nat -> Nat], NEW i \in Nat \ {0},
         h[i] = 0, h[i + 1] <= g[i], g[i + 1] = 0,
         \A j \in Nat \ {i, i + 1} : g[j] = h[j],
         NEW n \in Nat
  PROVE  Part(h)[n] <= Part(g)[n]
<1> DEFINE e == [h EXCEPT ![i] = g[i]]
           k == i + 1
<1>1. e \in [Nat -> Int] /\ h \in [Nat -> Int] /\ g \in [Nat -> Int]
  OBVIOUS
<1>2. e[i] = g[i] /\ e[k] = h[k] /\ k \in Nat \ {0} /\ g[i] \in Nat /\ h[k] \in Nat
      /\ h[i] = 0 /\ g[k] = 0 /\ h[k] <= g[i]
  OBVIOUS
<1>3. Changes(h, e, i) /\ Changes(e, g, k)
  BY DEF Changes
<1>4. k <= n => i <= n
  OBVIOUS
<1> HIDE DEF e, k
<1>5. Part(e)[n] = Part(h)[n] + IF i <= n THEN e[i] - h[i] ELSE 0
  BY <1>1, <1>3, PartChanges
<1>6. Part(g)[n] = Part(e)[n] + IF k <= n THEN g[k] - e[k] ELSE 0
  BY <1>1, <1>2, <1>3, PartChanges
<1>7. Part(h)[n] \in Int
  BY <1>1, PartIsSum
<1> QED
  BY <1>2, <1>4, <1>5, <1>6, <1>7

-----------------------------------------------------------------------------
(* The discounted sum of grades, level by level: a level is 1 where the    *)
(* grade is at least v, and grades are the sum of their levels.  Wherever  *)
(* the ones of a level are, they earn most at the front, where the         *)
(* discount is greatest.                                                   *)
Discounts == [i \in Nat |-> IF i \in DOMAIN Discount THEN Discount[i] ELSE 0]
Weighted(h) == [i \in Nat |-> h[i] * Discounts[i]]
Level(h, v) == [i \in Nat |-> IF h[i] >= v THEN 1 ELSE 0]
Cap(h, v) == [i \in Nat |-> IF h[i] <= v THEN h[i] ELSE v]
Prefix(b, p) == \A i \in Nat \ {0} : b[i] = IF i <= p THEN 1 ELSE 0

LEMMA DiscountIs ==
  /\ Len(Discount) \in Nat /\ DOMAIN Discount = 1..Len(Discount)
  /\ \A i \in DOMAIN Discount : Discount[i] \in Nat \ {0}
BY MeasuresAssumption

LEMMA DiscountsFall ==
  /\ Discounts \in [Nat -> Nat]
  /\ \A i, j \in Nat \ {0} : i <= j => Discounts[j] <= Discounts[i]
<1>1. /\ Len(Discount) \in Nat /\ DOMAIN Discount = 1..Len(Discount)
      /\ \A i \in DOMAIN Discount : Discount[i] \in Nat
  BY DiscountIs
<1>2. Discounts \in [Nat -> Nat]
  BY <1>1 DEF Discounts
<1>3. ASSUME NEW i \in Nat \ {0}, NEW j \in Nat \ {0}, i <= j
      PROVE  Discounts[j] <= Discounts[i]
  <2>1. CASE j \notin DOMAIN Discount
    BY <1>2, <2>1 DEF Discounts
  <2>2. CASE j \in DOMAIN Discount /\ i = j
    BY <1>2, <2>2
  <2>3. CASE j \in DOMAIN Discount /\ i # j
    <3>1. i \in DOMAIN Discount /\ i < j
      BY <1>1, <1>3, <2>3
    <3>2. Discount[i] >= Discount[j]
      BY <2>3, <3>1, MeasuresAssumption
    <3> QED
      BY <1>1, <2>3, <3>1, <3>2 DEF Discounts
  <2> QED
    BY <2>1, <2>2, <2>3
<1> QED
  BY <1>2, <1>3

LEMMA WeightedType ==
  ASSUME NEW h \in [Nat -> Nat]
  PROVE  Weighted(h) \in [Nat -> Nat]
<1> SUFFICES ASSUME NEW i \in Nat PROVE h[i] * Discounts[i] \in Nat
  BY DEF Weighted
<1>1. h[i] \in Nat /\ Discounts[i] \in Nat
  BY DiscountsFall
<1> QED
  BY <1>1

(* what a run of ones from the front earns up to n *)
Shorter(p, n) == IF p <= n THEN p ELSE n

LEMMA LevelGain ==
  ASSUME NEW b \in [Nat -> {0, 1}], NEW n \in Nat
  PROVE  /\ Part(b)[n] \in 0..n
         /\ Part(Weighted(b))[n] <= Part(Discounts)[Part(b)[n]]
<1> DEFINE w == Weighted(b)
           d == Discounts
           S == {m \in Nat : Part(b)[m] \in 0..m /\ Part(w)[m] <= Part(d)[Part(b)[m]]}
<1>0. /\ b \in [Nat -> Int] /\ w \in [Nat -> Int] /\ d \in [Nat -> Int]
      /\ \A i \in Nat : w[i] = IF b[i] = 1 THEN d[i] ELSE 0
  <2>1. b \in [Nat -> Nat]
    OBVIOUS
  <2>2. Discounts \in [Nat -> Nat] /\ Weighted(b) \in [Nat -> Nat]
    BY <2>1, DiscountsFall, WeightedType
  <2>3. ASSUME NEW i \in Nat PROVE Weighted(b)[i] = IF b[i] = 1 THEN Discounts[i] ELSE 0
    <3>1. Weighted(b)[i] = b[i] * Discounts[i] /\ b[i] \in {0, 1} /\ Discounts[i] \in Nat
      BY <2>2 DEF Weighted
    <3>2. 0 * Discounts[i] = 0 /\ 1 * Discounts[i] = Discounts[i]
      BY <3>1
    <3> QED
      BY <3>1, <3>2
  <2> QED
    BY <2>1, <2>2, <2>3
<1>1. \A i, j \in Nat \ {0} : i <= j => d[j] <= d[i]
  BY DiscountsFall
<1> HIDE DEF w, d
<1>2. 0 \in S
  BY <1>0, PartIsSum
<1>3. ASSUME NEW m \in S PROVE m + 1 \in S
  <2> DEFINE p == Part(b)[m]
  <2>1. /\ m \in Nat /\ m + 1 \in Nat /\ p \in 0..m /\ p \in Nat /\ Part(w)[m] <= Part(d)[p]
    OBVIOUS
  <2>2. Part(b)[m + 1] = p + b[m + 1] /\ Part(w)[m + 1] = Part(w)[m] + w[m + 1]
    BY <1>0, <2>1, PartIsSum
  <2> HIDE DEF p
  <2>3. Part(w)[m] \in Int /\ Part(d)[p] \in Int /\ Part(d)[p + 1] = Part(d)[p] + d[p + 1]
    BY <1>0, <2>1, PartIsSum
  <2>4. CASE b[m + 1] = 1
    <3>1. w[m + 1] = d[m + 1] /\ d[m + 1] \in Int /\ d[p + 1] \in Int
      BY <1>0, <2>1, <2>4
    <3>2. d[m + 1] <= d[p + 1]
      BY <1>1, <2>1
    <3>3. Part(b)[m + 1] = p + 1 /\ Part(w)[m + 1] <= Part(d)[p + 1]
      BY <2>1, <2>2, <2>3, <2>4, <3>1, <3>2
    <3> QED
      BY <2>1, <3>3
  <2>5. CASE b[m + 1] # 1
    <3>1. w[m + 1] = 0 /\ b[m + 1] = 0
      BY <1>0, <2>1, <2>5
    <3>2. Part(b)[m + 1] = p /\ Part(w)[m + 1] <= Part(d)[p]
      BY <2>1, <2>2, <2>3, <3>1
    <3> QED
      BY <2>1, <3>2
  <2> QED
    BY <2>4, <2>5
<1>4. S = Nat
  <2> HIDE DEF S
  <2>1. S \in SUBSET Nat
    BY DEF S
  <2> QED
    BY <1>2, <1>3, <2>1, Induction
<1> QED
  BY <1>4 DEF w, d

LEMMA PrefixGain ==
  ASSUME NEW b \in [Nat -> {0, 1}], NEW p \in Nat, Prefix(b, p), NEW n \in Nat
  PROVE  /\ Part(b)[n] = Shorter(p, n)
         /\ Part(Weighted(b))[n] = Part(Discounts)[Shorter(p, n)]
<1> DEFINE w == Weighted(b)
           d == Discounts
           S == {m \in Nat : /\ Part(b)[m] = Shorter(p, m)
                             /\ Part(w)[m] = Part(d)[Shorter(p, m)]}
<1>0. /\ b \in [Nat -> Int] /\ w \in [Nat -> Int] /\ d \in [Nat -> Int]
      /\ \A i \in Nat \ {0} : w[i] = IF i <= p THEN d[i] ELSE 0
  <2>1. b \in [Nat -> Nat]
    OBVIOUS
  <2>2. Discounts \in [Nat -> Nat] /\ Weighted(b) \in [Nat -> Nat]
    BY <2>1, DiscountsFall, WeightedType
  <2>3. ASSUME NEW i \in Nat \ {0} PROVE Weighted(b)[i] = IF i <= p THEN Discounts[i] ELSE 0
    <3>1. /\ Weighted(b)[i] = b[i] * Discounts[i] /\ Discounts[i] \in Nat
          /\ b[i] = IF i <= p THEN 1 ELSE 0
      BY <2>2 DEF Weighted, Prefix
    <3>2. 0 * Discounts[i] = 0 /\ 1 * Discounts[i] = Discounts[i]
      BY <3>1
    <3> QED
      BY <3>1, <3>2
  <2> QED
    BY <2>1, <2>2, <2>3
<1> HIDE DEF w, d
<1>1. 0 \in S
  <2>1. Shorter(p, 0) = 0
    BY DEF Shorter
  <2> QED
    BY <1>0, <2>1, PartIsSum
<1>2. ASSUME NEW m \in S PROVE m + 1 \in S
  <2>1. /\ m \in Nat /\ m + 1 \in Nat \ {0} /\ Part(b)[m] = Shorter(p, m)
        /\ Part(w)[m] = Part(d)[Shorter(p, m)]
    OBVIOUS
  <2>2. /\ Part(b)[m + 1] = Part(b)[m] + b[m + 1] /\ Part(w)[m + 1] = Part(w)[m] + w[m + 1]
        /\ Part(d)[m + 1] = Part(d)[m] + d[m + 1]
        /\ Part(b)[m] \in Int /\ Part(w)[m] \in Int
    BY <1>0, <2>1, PartIsSum
  <2>3. CASE m + 1 <= p
    <3>1. Shorter(p, m + 1) = m + 1 /\ Shorter(p, m) = m
      BY <2>1, <2>3 DEF Shorter
    <3>2. b[m + 1] = 1 /\ w[m + 1] = d[m + 1]
      BY <1>0, <2>1, <2>3 DEF Prefix
    <3> QED
      BY <2>1, <2>2, <3>1, <3>2
  <2>4. CASE ~(m + 1 <= p)
    <3>1. Shorter(p, m + 1) = p /\ Shorter(p, m) = p
      BY <2>1, <2>4 DEF Shorter
    <3>2. b[m + 1] = 0 /\ w[m + 1] = 0
      BY <1>0, <2>1, <2>4 DEF Prefix
    <3>3. Part(b)[m + 1] = Part(b)[m] /\ Part(w)[m + 1] = Part(w)[m]
      BY <2>2, <3>2
    <3> QED
      BY <2>1, <3>1, <3>3
  <2> QED
    BY <2>3, <2>4
<1>3. S = Nat
  <2> HIDE DEF S
  <2>1. S \in SUBSET Nat
    BY DEF S
  <2> QED
    BY <1>1, <1>2, <2>1, Induction
<1> QED
  BY <1>3 DEF w, d

LEMMA CapGrows ==
  ASSUME NEW h \in [Nat -> Nat], NEW v \in Nat, NEW n \in Nat
  PROVE  /\ Part(Weighted(Cap(h, v + 1)))[n]
              = Part(Weighted(Cap(h, v)))[n] + Part(Weighted(Level(h, v + 1)))[n]
         /\ Part(Weighted(Cap(h, v)))[n] \in Int /\ Part(Weighted(Level(h, v + 1)))[n] \in Int
<1>1. /\ Cap(h, v) \in [Nat -> Nat] /\ Cap(h, v + 1) \in [Nat -> Nat]
      /\ Level(h, v + 1) \in [Nat -> Nat]
  BY DEF Cap, Level
<1>2. /\ Weighted(Cap(h, v)) \in [Nat -> Int] /\ Weighted(Cap(h, v + 1)) \in [Nat -> Int]
      /\ Weighted(Level(h, v + 1)) \in [Nat -> Int]
  BY <1>1, WeightedType
<1>3. ASSUME NEW i \in Nat
      PROVE  Weighted(Cap(h, v + 1))[i] = Weighted(Cap(h, v))[i] + Weighted(Level(h, v + 1))[i]
  <2> DEFINE a == Cap(h, v)[i]
             l == Level(h, v + 1)[i]
             d == Discounts[i]
  <2>1. Cap(h, v + 1)[i] = a + l
    BY DEF Cap, Level
  <2>2. a \in Nat /\ l \in Nat /\ d \in Nat
    BY <1>1, DiscountsFall
  <2>3. /\ Weighted(Cap(h, v + 1))[i] = Cap(h, v + 1)[i] * d
        /\ Weighted(Cap(h, v))[i] = a * d /\ Weighted(Level(h, v + 1))[i] = l * d
    BY DEF Weighted
  <2> HIDE DEF a, l, d
  <2>4. (a + l) * d = a * d + l * d
    BY <2>2
  <2> QED
    BY <2>1, <2>3, <2>4
<1>4. Part(Weighted(Cap(h, v + 1)))[n]
        = Part(Weighted(Cap(h, v)))[n] + Part(Weighted(Level(h, v + 1)))[n]
  <2> DEFINE e == Weighted(Cap(h, v + 1))
             c == Weighted(Cap(h, v))
             l == Weighted(Level(h, v + 1))
  <2>1. e \in [Nat -> Int] /\ c \in [Nat -> Int] /\ l \in [Nat -> Int]
        /\ \A i \in Nat : e[i] = c[i] + l[i]
    BY <1>2, <1>3
  <2> HIDE DEF e, c, l
  <2>2. Part(e)[n] = Part(c)[n] + Part(l)[n]
    BY <2>1, PartAdds
  <2> QED
    BY <2>2 DEF e, c, l
<1> QED
  BY <1>2, <1>4, PartIsSum

LEMMA LevelByLevel ==
  ASSUME NEW h \in [Nat -> Nat], NEW t \in [Nat -> Nat], NEW n \in Nat, NEW top \in Nat,
         \A i \in Nat : h[i] <= top /\ t[i] <= top,
         \A v \in Nat \ {0} : Part(Weighted(Level(h, v)))[n] <= Part(Weighted(Level(t, v)))[n]
  PROVE  Part(Weighted(h))[n] <= Part(Weighted(t))[n]
<1> DEFINE S == {v \in Nat : Part(Weighted(Cap(h, v)))[n] <= Part(Weighted(Cap(t, v)))[n]}
<1>1. 0 \in S
  <2>1. \A g \in [Nat -> Nat] : Cap(g, 0) = [i \in Nat |-> 0]
    BY DEF Cap
  <2>2. Cap(h, 0) = Cap(t, 0)
    BY <2>1
  <2>3. Part(Weighted(Cap(h, 0)))[n] \in Int
    BY CapGrows
  <2> QED
    BY <2>2, <2>3
<1>2. ASSUME NEW v \in S PROVE v + 1 \in S
  <2>1. v \in Nat /\ v + 1 \in Nat \ {0}
        /\ Part(Weighted(Cap(h, v)))[n] <= Part(Weighted(Cap(t, v)))[n]
    OBVIOUS
  <2>2. Part(Weighted(Level(h, v + 1)))[n] <= Part(Weighted(Level(t, v + 1)))[n]
    BY <2>1
  <2>3. \A g \in [Nat -> Nat] :
          /\ Part(Weighted(Cap(g, v + 1)))[n]
               = Part(Weighted(Cap(g, v)))[n] + Part(Weighted(Level(g, v + 1)))[n]
          /\ Part(Weighted(Cap(g, v)))[n] \in Int /\ Part(Weighted(Level(g, v + 1)))[n] \in Int
    BY <2>1, CapGrows
  <2>4. Part(Weighted(Cap(h, v + 1)))[n] <= Part(Weighted(Cap(t, v + 1)))[n]
    BY <2>1, <2>2, <2>3
  <2> QED
    BY <2>1, <2>4
<1>3. S = Nat
  <2> HIDE DEF S
  <2>1. S \in SUBSET Nat
    BY DEF S
  <2> QED
    BY <1>1, <1>2, <2>1, Induction
<1>4. Cap(h, top) = h /\ Cap(t, top) = t
  BY DEF Cap
<1>5. Part(Weighted(Cap(h, top)))[n] <= Part(Weighted(Cap(t, top)))[n]
  BY <1>3
<1> QED
  BY <1>4, <1>5

(* what is at most a number of ones at every level is at most the grades   *)
(* that have so many at the front                                          *)
LEMMA FallingEarnsMost ==
  ASSUME NEW h \in [Nat -> Nat], NEW t \in [Nat -> Nat], NEW n \in Nat, NEW top \in Nat,
         \A i \in Nat : h[i] <= top /\ t[i] <= top,
         NEW size \in [Nat \ {0} -> Nat],
         \A v \in Nat \ {0} : Prefix(Level(t, v), size[v]) /\ Part(Level(h, v))[n] <= size[v]
  PROVE  Part(Weighted(h))[n] <= Part(Weighted(t))[n]
<1>1. ASSUME NEW v \in Nat \ {0}
      PROVE  Part(Weighted(Level(h, v)))[n] <= Part(Weighted(Level(t, v)))[n]
  <2> DEFINE p == size[v]
             q == Part(Level(h, v))[n]
  <2>1. Level(h, v) \in [Nat -> {0, 1}] /\ Level(t, v) \in [Nat -> {0, 1}]
    BY DEF Level
  <2>2. p \in Nat /\ Prefix(Level(t, v), p) /\ q <= p
    OBVIOUS
  <2> HIDE DEF p
  <2>3. q \in 0..n /\ Part(Weighted(Level(h, v)))[n] <= Part(Discounts)[q]
    BY <2>1, LevelGain
  <2>4. Part(Weighted(Level(t, v)))[n] = Part(Discounts)[Shorter(p, n)]
    BY <2>1, <2>2, PrefixGain
  <2> HIDE DEF q
  <2>5. q \in Nat /\ Shorter(p, n) \in Nat /\ q <= Shorter(p, n)
    BY <2>2, <2>3 DEF Shorter
  <2>6. /\ Part(Discounts)[q] <= Part(Discounts)[Shorter(p, n)]
        /\ Part(Discounts)[q] \in Nat /\ Part(Discounts)[Shorter(p, n)] \in Nat
    BY <2>5, DiscountsFall, PartRises
  <2>7. Part(Weighted(Level(h, v)))[n] \in Int
    <3>1. Weighted(Level(h, v)) \in [Nat -> Int]
      <4>1. Level(h, v) \in [Nat -> Nat]
        BY DEF Level
      <4>2. Weighted(Level(h, v)) \in [Nat -> Nat]
        BY <4>1, WeightedType
      <4> QED
        BY <4>2
    <3> QED
      BY <3>1, PartIsSum
  <2> QED
    BY <2>3, <2>4, <2>6, <2>7
<1> QED
  BY <1>1, LevelByLevel

-----------------------------------------------------------------------------
(* The grades of a ranking, position by position, and those of the ideal.  *)
GradeOf(g, d) == IF d \in DOMAIN g THEN g[d] ELSE 0
Grading(s, g) == [i \in Nat |-> IF i \in DOMAIN s THEN GradeOf(g, s[i]) ELSE 0]
IdealGrading(g) == [i \in Nat |-> IF i \in DOMAIN Ideal(g) THEN Ideal(g)[i] ELSE 0]
GradedAbove(g, v) == {d \in Relevant(g) : g[d] >= v}
SizeAbove(g) == [v \in Nat \ {0} |-> Cardinality(GradedAbove(g, v))]

LEMMA GradesAre ==
  ASSUME NEW g \in Grades
  PROVE  /\ MaxGrade \in Nat /\ \A d \in DOMAIN g : g[d] \in Nat /\ g[d] <= MaxGrade
         /\ Relevant(g) \subseteq DOMAIN g
         /\ IsFiniteSet(Relevant(g)) /\ Cardinality(Relevant(g)) \in Nat
         /\ \A v \in Nat \ {0} : IsFiniteSet(GradedAbove(g, v))
         /\ SizeAbove(g) \in [Nat \ {0} -> Nat]
         /\ SizeAbove(g)[1] = Cardinality(Relevant(g))
<1>1. PICK D \in SUBSET Passages : g \in [D -> 0..MaxGrade]
  BY DEF Grades
<1>2. MaxGrade \in Nat /\ IsFiniteSet(Passages)
  BY MeasuresAssumption
<1>3. \A d \in DOMAIN g : g[d] \in Nat /\ g[d] <= MaxGrade
  BY <1>1, <1>2
<1>4. Relevant(g) \in SUBSET Passages /\ Relevant(g) \subseteq DOMAIN g
  BY <1>1 DEF Relevant
<1>5. IsFiniteSet(Relevant(g)) /\ Cardinality(Relevant(g)) \in Nat
  BY <1>2, <1>4, FS_Subset, FS_CardinalityType
<1>6. \A v \in Nat \ {0} : IsFiniteSet(GradedAbove(g, v)) /\ Cardinality(GradedAbove(g, v)) \in Nat
  <2> TAKE v \in Nat \ {0}
  <2>1. GradedAbove(g, v) \in SUBSET Relevant(g)
    BY DEF GradedAbove
  <2> QED
    BY <1>5, <2>1, FS_Subset, FS_CardinalityType
<1>7. GradedAbove(g, 1) = Relevant(g)
  BY <1>3, <1>4 DEF GradedAbove, Relevant
<1> QED
  BY <1>2, <1>3, <1>4, <1>5, <1>6, <1>7 DEF SizeAbove

LEMMA RankingIs ==
  ASSUME NEW s \in PassageRankings
  PROVE  /\ Len(s) \in Nat /\ DOMAIN s = 1..Len(s) /\ s \in [1..Len(s) -> Passages]
         /\ \A i, j \in 1..Len(s) : s[i] = s[j] => i = j
<1>1. PICK n \in 0..Cardinality(Passages) : s \in [1..n -> Passages]
  BY DEF PassageRankings
<1>2. n \in Nat
  OBVIOUS
<1>3. Len(s) = n /\ DOMAIN s = 1..n
  BY <1>1, <1>2, FunctionIsSeq
<1> QED
  BY <1>1, <1>2, <1>3 DEF PassageRankings, IsInjective

LEMMA GradingIs ==
  ASSUME NEW s \in PassageRankings, NEW g \in Grades
  PROVE  /\ Grading(s, g) \in [Nat -> Nat] /\ \A i \in Nat : Grading(s, g)[i] <= MaxGrade
         /\ \A i \in Nat : Grading(s, g)[i] # 0 <=> i \in 1..Len(s) /\ s[i] \in Relevant(g)
         /\ \A i \in 1..Len(s) : s[i] \in DOMAIN g => Grading(s, g)[i] = g[s[i]]
<1>1. \A i \in Nat : Grading(s, g)[i] = IF i \in DOMAIN s THEN GradeOf(g, s[i]) ELSE 0
  BY DEF Grading
<1>2. \A d : /\ GradeOf(g, d) \in Nat /\ GradeOf(g, d) <= MaxGrade
             /\ GradeOf(g, d) # 0 <=> d \in Relevant(g)
  <2> TAKE d
  <2>1. /\ MaxGrade \in Nat
        /\ d \in DOMAIN g => g[d] \in Nat /\ g[d] <= MaxGrade
    BY GradesAre
  <2>2. CASE d \in DOMAIN g
    BY <2>1, <2>2 DEF GradeOf, Relevant
  <2>3. CASE d \notin DOMAIN g
    BY <2>1, <2>3 DEF GradeOf, Relevant
  <2> QED
    BY <2>2, <2>3
<1>3. DOMAIN s = 1..Len(s) /\ 1..Len(s) \subseteq Nat
  BY RankingIs
<1>4. MaxGrade \in Nat
  BY GradesAre
<1>5. Grading(s, g) \in [Nat -> Nat]
  BY <1>2 DEF Grading
<1>6. \A i \in 1..Len(s) : s[i] \in DOMAIN g => Grading(s, g)[i] = g[s[i]]
  BY <1>1, <1>3 DEF GradeOf
<1>7. ASSUME NEW i \in Nat
      PROVE  /\ Grading(s, g)[i] <= MaxGrade
             /\ Grading(s, g)[i] # 0 <=> i \in 1..Len(s) /\ s[i] \in Relevant(g)
  <2>1. CASE i \in 1..Len(s)
    <3>1. Grading(s, g)[i] = GradeOf(g, s[i])
      BY <1>1, <1>3, <2>1
    <3> QED
      BY <1>2, <2>1, <3>1
  <2>2. CASE i \notin 1..Len(s)
    <3>1. Grading(s, g)[i] = 0
      BY <1>1, <1>3, <2>2
    <3> QED
      BY <1>4, <2>2, <3>1
  <2> QED
    BY <2>1, <2>2
<1> QED
  BY <1>5, <1>6, <1>7

(* the positions up to n that hold at least v, by their documents *)
LEMMA LevelFits ==
  ASSUME NEW s \in PassageRankings, NEW g \in Grades, NEW v \in Nat \ {0}, NEW n \in Nat
  PROVE  Part(Level(Grading(s, g), v))[n] <= SizeAbove(g)[v]
<1> DEFINE b == Level(Grading(s, g), v)
           J == {i \in 1..n : b[i] = 1}
           f == [i \in J |-> s[i]]
<1>1. b \in [Nat -> {0, 1}] /\ \A i \in Nat : b[i] = 1 <=> Grading(s, g)[i] >= v
  BY DEF Level
<1>2. Part(b)[n] = Cardinality(J)
  BY <1>1, PartCounts
<1>3. \A i \in J : i \in 1..Len(s) /\ s[i] \in GradedAbove(g, v)
  <2> SUFFICES ASSUME NEW i \in J PROVE i \in 1..Len(s) /\ s[i] \in GradedAbove(g, v)
    OBVIOUS
  <2>5. i \in Nat /\ b[i] = 1
    OBVIOUS
  <2>6. Grading(s, g)[i] \in Nat
    BY <2>5, GradingIs
  <2>1. i \in Nat /\ Grading(s, g)[i] >= v /\ Grading(s, g)[i] \in Nat
    BY <1>1, <2>5, <2>6
  <2>4. Grading(s, g)[i] # 0
    BY <2>1
  <2>2. i \in 1..Len(s) /\ s[i] \in Relevant(g)
    BY <2>1, <2>4, GradingIs
  <2>7. s[i] \in DOMAIN g
    BY <2>2 DEF Relevant
  <2>3. Grading(s, g)[i] = g[s[i]]
    BY <2>2, <2>7, GradingIs
  <2> QED
    BY <2>1, <2>2, <2>3 DEF GradedAbove
<1> HIDE DEF J
<1>4. f \in [J -> GradedAbove(g, v)] /\ \A i, j \in J : f[i] = f[j] => i = j
  BY <1>3, RankingIs
<1> HIDE DEF f
<1>5. f \in Injection(J, GradedAbove(g, v))
  BY <1>4 DEF Injection, IsInjective
<1>6. Cardinality(J) <= Cardinality(GradedAbove(g, v))
  BY <1>5, FS_Injection, GradesAre
<1> QED
  BY <1>2, <1>6 DEF SizeAbove

LEMMA IdealIs ==
  ASSUME NEW g \in Grades
  PROVE  LET k == Cardinality(Relevant(g)) IN
         /\ Ideal(g) \in [1..k -> Nat]
         /\ IdealGrading(g) \in [Nat -> Nat] /\ \A i \in Nat : IdealGrading(g)[i] <= MaxGrade
         /\ \A v \in Nat \ {0} : Prefix(Level(IdealGrading(g), v), SizeAbove(g)[v])
<1> DEFINE R == Relevant(g)
           k == Cardinality(R)
           f == [d \in R |-> g[d]]
           t == Sorted(f)
<1>1. /\ k \in Nat /\ IsFiniteSet(R)
      /\ \A d \in R : g[d] \in Nat /\ g[d] <= MaxGrade /\ f[d] = g[d]
  BY GradesAre
<1>2. f \in [R -> Int]
  BY <1>1
<1>3. /\ t \in [1..k -> Range(f)]
      /\ \A i \in 1..k, x \in Int : t[i] <= x <=> UpTo(f, x) >= i
  BY <1>1, <1>2, SortedFacts
<1>4. \A x \in Range(f) : x \in Nat /\ x <= MaxGrade
  BY <1>1 DEF Range
<1>5. DOMAIN f = R
  OBVIOUS
<1> HIDE DEF R, f, t
<1>6. \A i \in 1..k : t[i] \in Nat /\ t[i] <= MaxGrade
  BY <1>3, <1>4
<1>7. Len(t) = k
  BY <1>1, <1>3, FunctionIsSeq
<1>8. Ideal(g) = [i \in 1..k |-> t[(k - i) + 1]]
  BY <1>7 DEF Ideal, Reverse, f, t, R
<1>9. /\ Ideal(g) \in [1..k -> Nat] /\ DOMAIN Ideal(g) = 1..k
      /\ \A i \in 1..k : Ideal(g)[i] <= MaxGrade
  <2>1. \A i \in 1..k : (k - i) + 1 \in 1..k
    BY <1>1
  <2> QED
    BY <1>6, <1>8, <2>1
<1>10. /\ IdealGrading(g) \in [Nat -> Nat]
       /\ \A i \in Nat : IdealGrading(g)[i] <= MaxGrade
  BY <1>9, GradesAre DEF IdealGrading
<1>11. ASSUME NEW v \in Nat \ {0}
       PROVE  Prefix(Level(IdealGrading(g), v), SizeAbove(g)[v])
  <2> DEFINE U == {d \in R : f[d] <= v - 1}
  <2>1. GradedAbove(g, v) = R \ U
    BY <1>1 DEF GradedAbove, R
  <2>2. U = {d \in DOMAIN f : f[d] <= v - 1} /\ R \cap U = U
    BY <1>5
  <2>3. Cardinality(R \ U) = Cardinality(R) - Cardinality(U)
    <3> HIDE DEF U
    <3> QED
      BY <1>1, <2>2, FS_Difference
  <2>4. SizeAbove(g)[v] = k - UpTo(f, v - 1)
    BY <2>1, <2>2, <2>3 DEF SizeAbove, UpTo
  <2>5. UpTo(f, v - 1) \in Nat
    <3>1. U \in SUBSET R
      OBVIOUS
    <3> HIDE DEF U
    <3>2. Cardinality(U) \in Nat
      BY <1>1, <3>1, FS_Subset, FS_CardinalityType
    <3> QED
      BY <2>2, <3>2 DEF UpTo
  <2> HIDE DEF U
  <2>6. ASSUME NEW i \in Nat \ {0}
        PROVE  IdealGrading(g)[i] >= v <=> i <= SizeAbove(g)[v]
    <3>1. CASE i <= k
      <4> DEFINE m == (k - i) + 1
      <4>1. m \in 1..k /\ v - 1 \in Int
        BY <1>1, <3>1
      <4>2. IdealGrading(g)[i] = t[m] /\ t[m] \in Nat
        BY <1>1, <1>6, <1>8, <1>9, <3>1, <4>1 DEF IdealGrading
      <4>3. t[m] <= v - 1 <=> UpTo(f, v - 1) >= m
        BY <1>3, <4>1
      <4> QED
        BY <1>1, <2>4, <2>5, <4>2, <4>3
    <3>2. CASE i > k
      <4>1. IdealGrading(g)[i] = 0
        BY <1>1, <1>9, <3>2 DEF IdealGrading
      <4> QED
        BY <1>1, <2>4, <2>5, <3>2, <4>1
    <3> QED
      BY <1>1, <3>1, <3>2
  <2> QED
    BY <2>6 DEF Prefix, Level
<1> QED
  BY <1>9, <1>10, <1>11 DEF R

LEMMA FrontIsCounted ==
  ASSUME NEW n \in Nat, NEW J \in SUBSET (1..n), \A i \in J : \A j \in 1..i : j \in J
  PROVE  \A i \in Nat \ {0} : i \in J <=> i <= Cardinality(J)
<1>1. IsFiniteSet(J) /\ Cardinality(J) \in Nat
  BY Counting, FS_Subset, FS_CardinalityType
<1> TAKE i \in Nat \ {0}
<1>2. ASSUME i \in J PROVE i <= Cardinality(J)
  <2>1. 1..i \in SUBSET J
    BY <1>2
  <2> QED
    BY <1>1, <2>1, Counting, FS_Subset
<1>3. ASSUME i \notin J PROVE Cardinality(J) < i
  <2>1. J \in SUBSET (1..(i - 1))
    <3> SUFFICES ASSUME NEW j \in J PROVE j < i
      OBVIOUS
    <3>1. j >= i => i \in 1..j
      OBVIOUS
    <3> QED
      BY <1>3, <3>1
  <2>2. i - 1 \in Nat
    OBVIOUS
  <2>4. IsFiniteSet(1..(i - 1)) /\ Cardinality(1..(i - 1)) = i - 1
    BY <2>2, Counting
  <2>3. Cardinality(J) <= i - 1
    BY <2>1, <2>4, FS_Subset
  <2> QED
    BY <1>1, <2>3
<1> QED
  BY <1>1, <1>2, <1>3

LEMMA BestIsIdeal ==
  ASSUME NEW best \in PassageRankings, NEW g \in Grades, Descending(best, g), NEW v \in Nat \ {0}
  PROVE  Prefix(Level(Grading(best, g), v), SizeAbove(g)[v])
<1> DEFINE n == Len(best)
           J == {i \in 1..n : g[best[i]] >= v}
           f == [i \in J |-> best[i]]
<1>1. /\ n \in Nat /\ DOMAIN best = 1..n
      /\ \A i, j \in 1..n : best[i] = best[j] => i = j
  BY RankingIs
<1>2. \A i \in 1..n : best[i] \in DOMAIN g /\ g[best[i]] \in Nat
  <2>1. Range(best) = DOMAIN g
    BY DEF Descending
  <2>2. \A i \in 1..n : best[i] \in Range(best)
    BY <1>1 DEF Range
  <2> QED
    BY <2>1, <2>2, GradesAre
<1>3. \A i, j \in 1..n : i < j => g[best[i]] >= g[best[j]]
  BY <1>1 DEF Descending
<1>4. \A i \in J : \A j \in 1..i : j \in J
  <2> SUFFICES ASSUME NEW i \in J, NEW j \in 1..i, i # j PROVE j \in J
    OBVIOUS
  <2>1. j \in 1..n /\ i \in 1..n /\ j < i /\ g[best[i]] >= v
    BY <1>1
  <2>2. g[best[j]] >= g[best[i]] /\ g[best[j]] \in Nat /\ g[best[i]] \in Nat
    BY <1>2, <1>3, <2>1
  <2> QED
    BY <2>1, <2>2
<1>5. J \in SUBSET (1..n)
  OBVIOUS
<1>6. Cardinality(J) = SizeAbove(g)[v]
  <2>1. \A i \in J : best[i] \in GradedAbove(g, v)
    BY <1>2 DEF GradedAbove, Relevant
  <2>2. \A d \in GradedAbove(g, v) : \E i \in J : best[i] = d
    <3> SUFFICES ASSUME NEW d \in GradedAbove(g, v) PROVE \E i \in J : best[i] = d
      OBVIOUS
    <3>1. d \in Range(best) /\ g[d] >= v
      BY GradesAre DEF Descending, GradedAbove
    <3> QED
      BY <1>1, <3>1 DEF Range
  <2>3. \A i, j \in J : best[i] = best[j] => i = j
    BY <1>1
  <2> HIDE DEF J
  <2>4. /\ f \in [J -> GradedAbove(g, v)] /\ \A i \in J : f[i] = best[i]
    BY <2>1
  <2> HIDE DEF f
  <2>5. f \in Surjection(J, GradedAbove(g, v))
    BY <2>2, <2>4 DEF Surjection
  <2>6. f \in Injection(J, GradedAbove(g, v))
    BY <2>3, <2>4 DEF Injection, IsInjective
  <2>7. IsFiniteSet(J)
    BY <1>1, <1>5, Counting, FS_Subset
  <2> QED
    BY <2>5, <2>6, <2>7, FS_Surjection DEF SizeAbove
<1>7. \A i \in Nat : Grading(best, g)[i] >= v <=> i \in J
  <2> SUFFICES ASSUME NEW i \in Nat PROVE Grading(best, g)[i] >= v <=> i \in J
    OBVIOUS
  <2>1. CASE i \in 1..n
    BY <1>2, <2>1, GradingIs
  <2>2. CASE i \notin 1..n
    <3>1. Grading(best, g)[i] = 0
      BY <2>2, GradingIs
    <3> QED
      BY <2>2, <3>1
  <2> QED
    BY <2>1, <2>2
<1> HIDE DEF J, n
<1>8. \A i \in Nat \ {0} : i \in J <=> i <= Cardinality(J)
  BY <1>1, <1>4, <1>5, FrontIsCounted
<1> QED
  BY <1>6, <1>7, <1>8 DEF Prefix, Level

-----------------------------------------------------------------------------
(* The metrics, from the grades position by position. *)
Gained(h, c) == Part(Weighted(h))[c]
Found(s, g, c) == Part(Level(Grading(s, g), 1))[c]
Hits(s, g, c) == {i \in 1..c : Grading(s, g)[i] # 0}
FirstHit(H) == IF H = {} THEN Zero ELSE <<1, Min(H)>>

Lists(q, n) == n \in Nat /\ q \in [1..n -> Range(q)]

LEMMA ShorterIs ==
  ASSUME NEW c \in Nat, NEW n \in Nat
  PROVE  /\ Shorter(c, n) \in Nat /\ Shorter(c, n) <= n /\ Shorter(c, n) <= c
         /\ c <= n => Shorter(c, n) = c
         /\ ~(c <= n) => Shorter(c, n) = n
         /\ \A i : i \in 1..Shorter(c, n) <=> i \in 1..c /\ i \in 1..n
BY DEF Shorter

LEMMA TopIs ==
  ASSUME NEW q, NEW n, Lists(q, n), NEW c \in Nat
  PROVE  /\ Top(q, c) = [i \in 1..Shorter(c, n) |-> q[i]]
         /\ DOMAIN Top(q, c) = 1..Shorter(c, n)
         /\ \A i \in 1..Shorter(c, n) : Top(q, c)[i] = q[i]
<1> DEFINE m == Shorter(c, n)
           t == Top(q, c)
           X == Range(q)
<1>0. n \in Nat /\ q \in [1..n -> X]
  BY DEF Lists
<1> HIDE DEF X
<1>1. m \in 0..n /\ m <= c /\ m = IF c < n THEN c ELSE n
  BY <1>0 DEF Shorter
<1>2. q \in Seq(X) /\ Len(q) = n
  BY <1>0, FunctionIsSeq
<1>3. t = SubSeq(q, 1, m)
  BY <1>1, <1>2 DEF Top
<1> HIDE DEF m, t
<1>4. t \in Seq(X) /\ Len(t) = m /\ DOMAIN t = 1..m /\ \A i \in 1..m : t[i] = q[i]
  BY <1>1, <1>2, <1>3
<1>5. t = [i \in 1..m |-> q[i]]
  BY <1>4
<1> QED
  BY <1>4, <1>5 DEF m, t

LEMMA ProductIsNat ==
  ASSUME NEW x \in Nat, NEW y \in Nat
  PROVE  x * y \in Nat
OBVIOUS

LEMMA PositiveProduct ==
  ASSUME NEW x \in Nat \ {0}, NEW y \in Nat \ {0}
  PROVE  x * y \in Nat \ {0}
OBVIOUS

SumsAlike(values, n, h) == Len(values) = n /\ \A i \in 1..n : h[i] = values[i]

LEMMA SumOfAlike ==
  ASSUME NEW values, NEW n \in Nat, NEW h \in [Nat -> Int], SumsAlike(values, n, h)
  PROVE  SumOf(values) = Part(h)[n]
BY SumOfIsPart DEF SumsAlike

ZeroBeyond(h, m) == \A i \in Nat : m < i => h[i] = 0

LEMMA PartStaysBeyond ==
  ASSUME NEW h \in [Nat -> Int], NEW m \in Nat, NEW n \in Nat, m <= n, ZeroBeyond(h, m)
  PROVE  Part(h)[n] = Part(h)[m]
BY PartStays DEF ZeroBeyond

LEMMA GainOfTop ==
  ASSUME NEW n \in Nat, NEW q \in [1..n -> Nat], NEW h \in [Nat -> Nat],
         \A i \in Nat : h[i] = IF i \in 1..n THEN q[i] ELSE 0,
         NEW c \in DOMAIN Discount
  PROVE  Gain(Top(q, c)) = Gained(h, c)
<1> DEFINE m == Shorter(c, n)
           t == Top(q, c)
           values == [i \in DOMAIN t |-> t[i] * Discount[i]]
           w == Weighted(h)
<1>1. /\ Len(Discount) \in Nat /\ DOMAIN Discount = 1..Len(Discount)
      /\ \A i \in DOMAIN Discount : Discount[i] \in Nat
  BY DiscountIs
<1>2. c \in Nat /\ c \in 1..Len(Discount)
  BY <1>1
<1>3. /\ m \in Nat /\ m <= n /\ m <= c /\ (c <= n => m = c) /\ (~(c <= n) => m = n)
      /\ DOMAIN t = 1..m /\ \A i \in 1..m : t[i] = q[i]
  <2>1. Lists(q, n)
    BY DEF Lists, Range
  <2>2. m \in Nat /\ m <= n /\ m <= c /\ (c <= n => m = c) /\ (~(c <= n) => m = n)
    BY <1>2, ShorterIs
  <2>3. DOMAIN t = 1..m /\ \A i \in 1..m : t[i] = q[i]
    BY <1>2, <2>1, TopIs
  <2> QED
    BY <2>2, <2>3
<1>4. w \in [Nat -> Nat] /\ \A i \in Nat : w[i] = h[i] * Discounts[i]
  BY WeightedType DEF Weighted
<1>5. \A i \in 1..m : w[i] = values[i]
  <2> SUFFICES ASSUME NEW i \in 1..m PROVE w[i] = values[i]
    OBVIOUS
  <2>1. i \in Nat /\ i \in 1..n /\ i \in DOMAIN Discount /\ i \in DOMAIN t
    BY <1>1, <1>2, <1>3
  <2>2. h[i] = t[i] /\ Discounts[i] = Discount[i]
    BY <1>3, <2>1 DEF Discounts
  <2> HIDE DEF t, w
  <2>3. values[i] = t[i] * Discount[i]
    BY <2>1
  <2> QED
    BY <1>4, <2>1, <2>2, <2>3
<1>6. Gain(t) = SumOf(values)
  BY DEF Gain
<1> HIDE DEF m, t, w
<1>7. Len(values) = m
  <2>1. values = [i \in 1..m |-> t[i] * Discount[i]]
    BY <1>3
  <2>2. \A i \in 1..m : t[i] * Discount[i] \in Nat
    <3> SUFFICES ASSUME NEW i \in 1..m PROVE t[i] * Discount[i] \in Nat
      OBVIOUS
    <3> HIDE DEF values
    <3>3. m \in Nat /\ m <= n /\ m <= c
      BY <1>3
    <3>4. i \in 1..n /\ i \in 1..Len(Discount)
      BY <1>1, <1>2, <3>3
    <3>1. t[i] = q[i] /\ i \in DOMAIN Discount
      BY <1>1, <1>3, <3>4
    <3>5. q[i] \in Nat
      BY <3>4
    <3>2. t[i] \in Nat /\ Discount[i] \in Nat
      BY <1>1, <3>1, <3>5
    <3> QED
      BY <3>2, ProductIsNat
  <2> HIDE DEF values
  <2>3. values \in [1..m -> Nat]
    BY <2>1, <2>2
  <2> QED
    BY <1>3, <2>3, FunctionIsSeq
<1> HIDE DEF values
<1>11. w \in [Nat -> Nat]
  BY <1>4
<1>8. w \in [Nat -> Int]
  BY <1>11
<1>9. SumOf(values) = Part(w)[m]
  <2>1. m \in Nat
    BY <1>3
  <2>2. SumsAlike(values, m, w)
    BY <1>5, <1>7 DEF SumsAlike
  <2> QED
    BY <1>8, <2>1, <2>2, SumOfAlike
<1>10. Part(w)[c] = Part(w)[m]
  <2>1. CASE c <= n
    BY <1>3, <2>1
  <2>2. CASE ~(c <= n)
    <3>1. \A i \in Nat : m < i => w[i] = 0
      <4> SUFFICES ASSUME NEW i \in Nat, m < i PROVE w[i] = 0
        OBVIOUS
      <4>3. i \notin 1..n
        BY <1>3, <2>2
      <4>1. h[i] = 0 /\ Discounts[i] \in Nat
        BY <4>3, DiscountsFall
      <4>2. 0 * Discounts[i] = 0
        BY <4>1
      <4> QED
        BY <1>4, <4>1, <4>2
    <3>2. m \in Nat /\ m <= c
      BY <1>3
    <3>3. ZeroBeyond(w, m)
      BY <3>1 DEF ZeroBeyond
    <3> QED
      BY <1>2, <1>8, <3>2, <3>3, PartStaysBeyond
  <2> QED
    BY <2>1, <2>2
<1> QED
  BY <1>6, <1>9, <1>10 DEF Gained, t, w

LEMMA NdcgIs ==
  ASSUME NEW s \in PassageRankings, NEW g \in Grades, NEW c \in DOMAIN Discount
  PROVE  Ndcg(s, g, c) = Ratio(Gained(Grading(s, g), c), Gained(IdealGrading(g), c), Zero)
<1> DEFINE n == Len(s)
           k == Cardinality(Relevant(g))
           q == [i \in 1..n |-> GradeOf(g, s[i])]
<1>0. c \in Nat
  BY DiscountIs
<1>1. n \in Nat /\ DOMAIN s = 1..n /\ s \in [1..n -> Passages]
  BY RankingIs
<1>2. Grading(s, g) \in [Nat -> Nat]
      /\ \A i \in Nat : Grading(s, g)[i] = IF i \in 1..n THEN GradeOf(g, s[i]) ELSE 0
  BY <1>1, GradingIs DEF Grading
<1>3. q \in [1..n -> Nat] /\ \A i \in Nat : Grading(s, g)[i] = IF i \in 1..n THEN q[i] ELSE 0
  BY <1>2
<1>4. Observed(Top(s, c), g) = Top(q, c)
  <2> DEFINE m == Shorter(c, n)
             t == Top(s, c)
             u == Top(q, c)
  <2>8. Lists(s, n)
    BY <1>1 DEF Lists, Range
  <2>1. DOMAIN t = 1..m /\ \A i \in 1..m : t[i] = s[i]
    BY <1>0, <2>8, TopIs
  <2>6. Lists(q, n)
    BY <1>1, <1>3 DEF Lists, Range
  <2>7. u = [i \in 1..m |-> q[i]]
    <3> HIDE DEF q, n
    <3> QED
      BY <1>0, <2>6, TopIs
  <2>2. \A i \in 1..m : i \in 1..n
    BY <1>0, <1>1, ShorterIs
  <2>4. \A i \in 1..m : GradeOf(g, t[i]) = q[i]
    BY <2>1, <2>2
  <2> HIDE DEF t, u, m, q
  <2>3. Observed(t, g) = [i \in 1..m |-> GradeOf(g, t[i])]
    BY <2>1 DEF Observed, GradeOf
  <2>5. Observed(t, g) = u
    BY <2>3, <2>4, <2>7
  <2> QED
    BY <2>5 DEF t, u
<1>5. Gain(Top(q, c)) = Gained(Grading(s, g), c)
  <2> HIDE DEF q, n
  <2> QED
    BY <1>1, <1>2, <1>3, GainOfTop
<1>6. Gain(Top(Ideal(g), c)) = Gained(IdealGrading(g), c)
  <2>1. k \in Nat /\ Ideal(g) \in [1..k -> Nat] /\ IdealGrading(g) \in [Nat -> Nat]
    BY GradesAre, IdealIs
  <2>2. \A i \in Nat : IdealGrading(g)[i] = IF i \in 1..k THEN Ideal(g)[i] ELSE 0
    BY <2>1 DEF IdealGrading
  <2> HIDE DEF k
  <2> QED
    BY <2>1, <2>2, GainOfTop
<1> QED
  BY <1>4, <1>5, <1>6 DEF Ndcg

LEMMA HitsAre ==
  ASSUME NEW s \in PassageRankings, NEW g \in Grades, NEW c \in Nat
  PROVE  /\ Found(s, g, c) \in 0..c
         /\ Recall(s, g, c) = Ratio(Found(s, g, c), Cardinality(Relevant(g)), Zero)
         /\ ReciprocalRank(s, g, c) = FirstHit(Hits(s, g, c))
<1> DEFINE n == Len(s)
           m == Shorter(c, n)
           t == Top(s, c)
           b == Level(Grading(s, g), 1)
           H == Hits(s, g, c)
           R == Relevant(g)
           f == [i \in H |-> s[i]]
<1>1. /\ n \in Nat /\ DOMAIN s = 1..n /\ s \in [1..n -> Passages]
      /\ \A i, j \in 1..n : s[i] = s[j] => i = j
  BY RankingIs
<1>2. DOMAIN t = 1..m /\ \A i \in 1..m : t[i] = s[i]
  <2>1. Lists(s, n)
    BY <1>1 DEF Lists, Range
  <2> QED
    BY <2>1, TopIs
<1>3. \A i : i \in 1..m <=> i \in 1..c /\ i \in 1..n
  BY <1>1, ShorterIs
<1>4. \A i \in 1..c : Grading(s, g)[i] # 0 <=> i \in 1..n /\ s[i] \in R
  <2> TAKE i \in 1..c
  <2>1. i \in Nat
    OBVIOUS
  <2> QED
    BY <2>1, GradingIs
<1>5. H = {i \in 1..m : s[i] \in R}
  BY <1>3, <1>4 DEF Hits
<1>6. b \in [Nat -> {0, 1}] /\ \A i \in Nat : b[i] = 1 <=> Grading(s, g)[i] # 0
  BY GradingIs DEF Level
<1>7. {i \in 1..c : b[i] = 1} = H
  BY <1>6 DEF Hits
<1>8. IsFiniteSet(H) /\ Found(s, g, c) = Cardinality(H)
  BY <1>6, <1>7, PartCounts DEF Found
<1>9. Found(s, g, c) \in 0..c
  BY <1>6, LevelGain DEF Found
<1>10. Cardinality(Range(t) \cap R) = Cardinality(H)
  <2>1. \A i \in H : i \in 1..n /\ s[i] \in Range(t) \cap R
    BY <1>2, <1>3, <1>5 DEF Range
  <2>2. \A d \in Range(t) \cap R : \E i \in H : s[i] = d
    BY <1>2, <1>5 DEF Range
  <2> HIDE DEF H, t, R
  <2>3. f \in [H -> Range(t) \cap R] /\ \A i \in H : f[i] = s[i]
    BY <2>1
  <2> HIDE DEF f
  <2>4. f \in Surjection(H, Range(t) \cap R)
    BY <2>2, <2>3 DEF Surjection
  <2>5. f \in Injection(H, Range(t) \cap R)
    BY <1>1, <2>1, <2>3 DEF Injection, IsInjective
  <2> QED
    BY <1>8, <2>4, <2>5, FS_Surjection
<1>11. ReciprocalRank(s, g, c) = FirstHit(H)
  BY <1>2, <1>5 DEF ReciprocalRank, FirstHit
<1> QED
  BY <1>8, <1>9, <1>10, <1>11 DEF Recall

LEMMA RatioOrder ==
  ASSUME NEW x \in Nat, NEW y \in Nat, NEW z \in Nat
  PROVE  /\ x <= y => AtMost(Ratio(x, z, Zero), Ratio(y, z, Zero))
         /\ x <= z => AtMost(Zero, Ratio(x, z, Zero)) /\ AtMost(Ratio(x, z, Zero), One)
<1>1. z = 0 => Ratio(x, z, Zero) = <<0, 1>> /\ Ratio(y, z, Zero) = <<0, 1>>
  BY DEF Ratio, Zero
<1>2. z # 0 => Ratio(x, z, Zero) = <<x, z>> /\ Ratio(y, z, Zero) = <<y, z>>
  BY DEF Ratio
<1>3. ASSUME x <= y, z # 0 PROVE x * z <= y * z
  BY <1>3, ScaledOrder
<1>4. 0 * z = 0 /\ x * 1 = x /\ 1 * z = z
  OBVIOUS
<1> QED
  BY <1>1, <1>2, <1>3, <1>4 DEF AtMost, Zero, One

LEMMA FirstHitOrder ==
  ASSUME NEW c \in Nat, NEW X \in SUBSET (1..c), NEW Y \in SUBSET (1..c),
         \A x \in X : \E y \in Y : y <= x
  PROVE  /\ AtMost(FirstHit(X), FirstHit(Y))
         /\ AtMost(Zero, FirstHit(X)) /\ AtMost(FirstHit(X), One)
         /\ 1 \in Y => Equals(FirstHit(Y), One)
<1>1. ASSUME NEW Z \in SUBSET (1..c), Z # {}
      PROVE  /\ Min(Z) \in Z /\ Min(Z) \in Nat \ {0} /\ \A z \in Z : Min(Z) <= z
             /\ FirstHit(Z) = <<1, Min(Z)>>
  <2>3. IsFiniteSet(1..c)
    BY Counting
  <2>1. IsFiniteSet(Z)
    BY <2>3, FS_Subset
  <2>4. Z \in SUBSET Int
    OBVIOUS
  <2>2. Min(Z) \in Z /\ \A z \in Z : Min(Z) <= z
    BY <1>1, <2>1, <2>4, MinAndMax
  <2>5. \A z \in Z : z \in Nat \ {0}
    OBVIOUS
  <2> QED
    BY <1>1, <2>2, <2>5 DEF FirstHit
<1>2. ASSUME NEW Z \in SUBSET (1..c), Z = {}
      PROVE  FirstHit(Z) = <<0, 1>>
  BY <1>2 DEF FirstHit, Zero
<1>3. ASSUME NEW Z \in SUBSET (1..c)
      PROVE  AtMost(Zero, FirstHit(Z)) /\ AtMost(FirstHit(Z), One)
  <2>1. CASE Z = {}
    BY <1>2, <2>1 DEF AtMost, Zero, One
  <2>2. CASE Z # {}
    <3> DEFINE m == Min(Z)
    <3>1. m \in Nat \ {0} /\ FirstHit(Z) = <<1, m>>
      BY <1>1, <2>2
    <3> HIDE DEF m
    <3> QED
      BY <3>1 DEF AtMost, Zero, One
  <2> QED
    BY <2>1, <2>2
<1>4. ASSUME 1 \in Y PROVE Equals(FirstHit(Y), One)
  <2> DEFINE k == Min(Y)
  <2>1. k \in Nat \ {0} /\ k <= 1 /\ FirstHit(Y) = <<1, k>>
    BY <1>1, <1>4
  <2> HIDE DEF k
  <2>2. k = 1
    BY <2>1
  <2> QED
    BY <2>1, <2>2 DEF Equals, One
<1>5. AtMost(FirstHit(X), FirstHit(Y))
  <2>1. X = {} \/ X # {}
    OBVIOUS
  <2>2. CASE X = {}
    <3>1. FirstHit(X) = Zero
      BY <1>2, <2>2 DEF Zero
    <3>2. AtMost(Zero, FirstHit(Y))
      BY <1>3
    <3> QED
      BY <3>1, <3>2
  <2>3. CASE X # {}
    <3> DEFINE m == Min(X)
               k == Min(Y)
    <3>1. m \in X /\ m \in Nat \ {0} /\ FirstHit(X) = <<1, m>>
      BY <1>1, <2>3
    <3>2. PICK y \in Y : y <= m
      BY <3>1
    <3>3. k \in Nat \ {0} /\ FirstHit(Y) = <<1, k>> /\ k <= y /\ y \in Nat
      BY <1>1, <3>2
    <3> HIDE DEF m, k
    <3>4. k <= m
      BY <3>1, <3>2, <3>3
    <3> QED
      BY <3>1, <3>3, <3>4 DEF AtMost
  <2> QED
    BY <2>1, <2>2, <2>3
<1> QED
  BY <1>3, <1>4, <1>5

(* Every retrieval metric, compared between two rankings. *)
Topped(h, t, top) == \A i \in Nat : h[i] <= top /\ t[i] <= top
Fits(h, t, size, n) ==
  \A v \in Nat \ {0} : Prefix(Level(t, v), size[v]) /\ Part(Level(h, v))[n] <= size[v]

LEMMA GainedIs ==
  ASSUME NEW h \in [Nat -> Nat], NEW n \in Nat
  PROVE  Gained(h, n) \in Nat
<1>1. Weighted(h) \in [Nat -> Nat]
  BY WeightedType
<1> QED
  BY <1>1, PartRises DEF Gained

LEMMA FittingGainsMost ==
  ASSUME NEW h \in [Nat -> Nat], NEW t \in [Nat -> Nat], NEW n \in Nat, NEW top \in Nat,
         NEW size \in [Nat \ {0} -> Nat], Topped(h, t, top), Fits(h, t, size, n)
  PROVE  Gained(h, n) <= Gained(t, n)
BY FallingEarnsMost DEF Topped, Fits, Gained

LEMMA IdealGainsMost ==
  ASSUME NEW s \in PassageRankings, NEW g \in Grades, NEW c \in Nat
  PROVE  Gained(Grading(s, g), c) <= Gained(IdealGrading(g), c)
<1> DEFINE h == Grading(s, g)
           t == IdealGrading(g)
           size == SizeAbove(g)
<1>1. h \in [Nat -> Nat] /\ \A i \in Nat : h[i] <= MaxGrade
  BY GradingIs
<1>2. /\ t \in [Nat -> Nat] /\ \A i \in Nat : t[i] <= MaxGrade
      /\ \A v \in Nat \ {0} : Prefix(Level(t, v), size[v])
  BY IdealIs
<1>3. MaxGrade \in Nat /\ size \in [Nat \ {0} -> Nat]
  BY GradesAre
<1>4. \A v \in Nat \ {0} : Part(Level(h, v))[c] <= size[v]
  BY LevelFits
<1> HIDE DEF h, t, size
<1>5. Topped(h, t, MaxGrade)
  BY <1>1, <1>2 DEF Topped
<1>6. Fits(h, t, size, c)
  BY <1>2, <1>4 DEF Fits
<1>7. Gained(h, c) <= Gained(t, c)
  BY <1>1, <1>2, <1>3, <1>5, <1>6, FittingGainsMost
<1> QED
  BY <1>7 DEF h, t

(* a ranking by descending grade is the ideal one, position by position *)
LEMMA BestGainsMost ==
  ASSUME NEW best \in PassageRankings, NEW g \in Grades, Descending(best, g), NEW c \in Nat
  PROVE  Gained(Grading(best, g), c) = Gained(IdealGrading(g), c)
<1> DEFINE h == IdealGrading(g)
           t == Grading(best, g)
           size == SizeAbove(g)
<1>1. t \in [Nat -> Nat] /\ \A i \in Nat : t[i] <= MaxGrade
  BY GradingIs
<1>2. /\ h \in [Nat -> Nat] /\ \A i \in Nat : h[i] <= MaxGrade
      /\ \A v \in Nat \ {0} : Prefix(Level(h, v), size[v])
  BY IdealIs
<1>3. MaxGrade \in Nat /\ size \in [Nat \ {0} -> Nat]
  BY GradesAre
<1>4. \A v \in Nat \ {0} : Prefix(Level(t, v), size[v])
  BY BestIsIdeal
<1>5. Gained(t, c) <= Gained(h, c)
  BY IdealGainsMost
<1> HIDE DEF h, t, size
<1>6. ASSUME NEW v \in Nat \ {0} PROVE Part(Level(h, v))[c] <= size[v]
  <2> DEFINE p == size[v]
  <2>1. Level(h, v) \in [Nat -> {0, 1}]
    BY DEF Level
  <2>3. p \in Nat /\ Prefix(Level(h, v), p)
    BY <1>2, <1>3
  <2> HIDE DEF p
  <2>2. Part(Level(h, v))[c] = Shorter(p, c)
    BY <2>1, <2>3, PrefixGain
  <2>4. Part(Level(h, v))[c] <= p
    BY <2>2, <2>3, ShorterIs
  <2> QED
    BY <2>4 DEF p
<1>7. Topped(h, t, MaxGrade)
  BY <1>1, <1>2 DEF Topped
<1>8. Fits(h, t, size, c)
  BY <1>4, <1>6 DEF Fits
<1>9. Gained(h, c) <= Gained(t, c)
  BY <1>1, <1>2, <1>3, <1>7, <1>8, FittingGainsMost
<1>10. Gained(h, c) \in Nat /\ Gained(t, c) \in Nat
  BY <1>1, <1>2, GainedIs
<1>11. Gained(t, c) = Gained(h, c)
  BY <1>5, <1>9, <1>10
<1> QED
  BY <1>11 DEF h, t

LEMMA FoundIs ==
  ASSUME NEW s \in PassageRankings, NEW g \in Grades, NEW c \in Nat
  PROVE  /\ Found(s, g, c) \in Nat /\ Found(s, g, c) <= Cardinality(Relevant(g))
         /\ Cardinality(Relevant(g)) \in Nat
         /\ Hits(s, g, c) \in SUBSET (1..c)
<1>1. Found(s, g, c) \in 0..c
  BY HitsAre
<1>2. Part(Level(Grading(s, g), 1))[c] <= SizeAbove(g)[1]
  BY LevelFits
<1>3. SizeAbove(g)[1] = Cardinality(Relevant(g)) /\ Cardinality(Relevant(g)) \in Nat
  BY GradesAre
<1> QED
  BY <1>1, <1>2, <1>3 DEF Found, Hits

AllFound(s, r, g, c) ==
  /\ Gained(Grading(s, g), c) <= Gained(Grading(r, g), c)
  /\ Found(s, g, c) <= Found(r, g, c)
  /\ \A x \in Hits(s, g, c) : \E y \in Hits(r, g, c) : y <= x

LEMMA MetricsOrder ==
  ASSUME NEW s \in PassageRankings, NEW r \in PassageRankings, NEW g \in Grades,
         NEW c \in DOMAIN Discount, AllFound(s, r, g, c)
  PROVE  /\ AtMost(Ndcg(s, g, c), Ndcg(r, g, c))
         /\ AtMost(Recall(s, g, c), Recall(r, g, c))
         /\ AtMost(ReciprocalRank(s, g, c), ReciprocalRank(r, g, c))
<1>1. c \in Nat
  BY DiscountIs
<1>2. AtMost(Ndcg(s, g, c), Ndcg(r, g, c))
  <2> DEFINE x == Gained(Grading(s, g), c)
             y == Gained(Grading(r, g), c)
             z == Gained(IdealGrading(g), c)
  <2>1. /\ Grading(s, g) \in [Nat -> Nat] /\ Grading(r, g) \in [Nat -> Nat]
        /\ IdealGrading(g) \in [Nat -> Nat]
    BY GradingIs, IdealIs
  <2>2. x \in Nat /\ y \in Nat /\ z \in Nat
    BY <1>1, <2>1, GainedIs
  <2>3. x <= y
    BY DEF AllFound
  <2>4. Ndcg(s, g, c) = Ratio(x, z, Zero) /\ Ndcg(r, g, c) = Ratio(y, z, Zero)
    BY NdcgIs
  <2> HIDE DEF x, y, z
  <2> QED
    BY <2>2, <2>3, <2>4, RatioOrder
<1>3. AtMost(Recall(s, g, c), Recall(r, g, c))
  <2> DEFINE x == Found(s, g, c)
             y == Found(r, g, c)
             z == Cardinality(Relevant(g))
  <2>1. x \in Nat /\ y \in Nat /\ z \in Nat
    BY <1>1, FoundIs
  <2>2. x <= y
    BY DEF AllFound
  <2>3. Recall(s, g, c) = Ratio(x, z, Zero) /\ Recall(r, g, c) = Ratio(y, z, Zero)
    BY <1>1, HitsAre
  <2> HIDE DEF x, y, z
  <2> QED
    BY <2>1, <2>2, <2>3, RatioOrder
<1>4. AtMost(ReciprocalRank(s, g, c), ReciprocalRank(r, g, c))
  <2> DEFINE X == Hits(s, g, c)
             Y == Hits(r, g, c)
  <2>1. X \in SUBSET (1..c) /\ Y \in SUBSET (1..c)
    BY <1>1, FoundIs
  <2>2. \A x \in X : \E y \in Y : y <= x
    BY DEF AllFound
  <2>3. ReciprocalRank(s, g, c) = FirstHit(X) /\ ReciprocalRank(r, g, c) = FirstHit(Y)
    BY <1>1, HitsAre
  <2> HIDE DEF X, Y
  <2>4. AtMost(FirstHit(X), FirstHit(Y))
    BY <1>1, <2>1, <2>2, FirstHitOrder
  <2> QED
    BY <2>3, <2>4
<1> QED
  BY <1>2, <1>3, <1>4

LEMMA MetricsInRange ==
  ASSUME NEW s \in PassageRankings, NEW g \in Grades, NEW c \in DOMAIN Discount
  PROVE  /\ Between(Ndcg(s, g, c), Zero, One)
         /\ Between(Recall(s, g, c), Zero, One)
         /\ Between(ReciprocalRank(s, g, c), Zero, One)
<1>1. c \in Nat
  BY DiscountIs
<1>2. Between(Ndcg(s, g, c), Zero, One)
  <2> DEFINE x == Gained(Grading(s, g), c)
             z == Gained(IdealGrading(g), c)
  <2>1. Grading(s, g) \in [Nat -> Nat] /\ IdealGrading(g) \in [Nat -> Nat]
    BY GradingIs, IdealIs
  <2>2. x \in Nat /\ z \in Nat
    BY <1>1, <2>1, GainedIs
  <2>3. x <= z
    BY <1>1, IdealGainsMost
  <2>4. Ndcg(s, g, c) = Ratio(x, z, Zero)
    BY NdcgIs
  <2> HIDE DEF x, z
  <2> QED
    BY <2>2, <2>3, <2>4, RatioOrder DEF Between
<1>3. Between(Recall(s, g, c), Zero, One)
  <2> DEFINE x == Found(s, g, c)
             z == Cardinality(Relevant(g))
  <2>1. x \in Nat /\ z \in Nat /\ x <= z
    BY <1>1, FoundIs
  <2>2. Recall(s, g, c) = Ratio(x, z, Zero)
    BY <1>1, HitsAre
  <2> HIDE DEF x, z
  <2> QED
    BY <2>1, <2>2, RatioOrder DEF Between
<1>4. Between(ReciprocalRank(s, g, c), Zero, One)
  <2> DEFINE X == Hits(s, g, c)
  <2>1. X \in SUBSET (1..c)
    BY <1>1, FoundIs
  <2>2. ReciprocalRank(s, g, c) = FirstHit(X)
    BY <1>1, HitsAre
  <2> HIDE DEF X
  <2>3. \A x \in X : \E y \in X : y <= x
    BY <2>1
  <2>4. AtMost(Zero, FirstHit(X)) /\ AtMost(FirstHit(X), One)
    BY <1>1, <2>1, <2>3, FirstHitOrder
  <2> QED
    BY <2>2, <2>4 DEF Between
<1> QED
  BY <1>2, <1>3, <1>4

(* the first place of a ranking by descending grade, when anything is relevant *)
LEMMA BestStartsRelevant ==
  ASSUME NEW best \in PassageRankings, NEW g \in Grades, Descending(best, g),
         Relevant(g) # {}
  PROVE  /\ Cardinality(Relevant(g)) \in Nat \ {0}
         /\ Grading(best, g)[1] \in Nat \ {0}
<1> DEFINE p == SizeAbove(g)[1]
           h == Grading(best, g)
<1>1. p \in Nat /\ p = Cardinality(Relevant(g)) /\ IsFiniteSet(Relevant(g))
  BY GradesAre
<1>2. p # 0
  BY <1>1, FS_EmptySet
<1>3. Prefix(Level(h, 1), p)
  BY BestIsIdeal
<1>4. h \in [Nat -> Nat]
  BY GradingIs
<1> HIDE DEF p, h
<1>5. Level(h, 1)[1] = 1
  BY <1>1, <1>2, <1>3 DEF Prefix
<1>6. h[1] >= 1
  BY <1>5 DEF Level
<1>7. h[1] \in Nat \ {0}
  BY <1>4, <1>6
<1> QED
  BY <1>1, <1>2, <1>7 DEF h

LEMMA BestFindsAll ==
  ASSUME NEW best \in PassageRankings, NEW s \in PassageRankings, NEW g \in Grades,
         Descending(best, g), NEW c \in Nat
  PROVE  AllFound(s, best, g, c)
<1>1. Gained(Grading(s, g), c) <= Gained(Grading(best, g), c)
  <2>1. Gained(Grading(s, g), c) <= Gained(IdealGrading(g), c)
    BY IdealGainsMost
  <2>2. Gained(Grading(best, g), c) = Gained(IdealGrading(g), c)
    BY BestGainsMost
  <2> QED
    BY <2>1, <2>2
<1>2. Found(s, g, c) <= Found(best, g, c)
  <2> DEFINE p == SizeAbove(g)[1]
             b == Level(Grading(best, g), 1)
             x == Found(s, g, c)
  <2>1. p \in Nat /\ p = Cardinality(Relevant(g))
    BY GradesAre
  <2>2. Prefix(b, p)
    BY BestIsIdeal
  <2>3. b \in [Nat -> {0, 1}]
    BY DEF Level
  <2>4. x \in Nat /\ x <= p /\ x <= c
    BY <2>1, FoundIs, HitsAre
  <2>5. Found(best, g, c) = Part(b)[c]
    BY DEF Found
  <2> HIDE DEF p, b, x
  <2>6. Part(b)[c] = Shorter(p, c)
    BY <2>1, <2>2, <2>3, PrefixGain
  <2>7. x <= Part(b)[c]
    BY <2>1, <2>4, <2>6, ShorterIs
  <2> QED
    BY <2>5, <2>7 DEF x
<1>3. ASSUME NEW x \in Hits(s, g, c) PROVE \E y \in Hits(best, g, c) : y <= x
  <2>1. x \in Nat /\ 1 <= x /\ x <= c /\ Grading(s, g)[x] # 0
    BY DEF Hits
  <2>2. Relevant(g) # {}
    BY <2>1, GradingIs
  <2>3. Grading(best, g)[1] # 0
    BY <2>2, BestStartsRelevant
  <2>4. 1 \in Hits(best, g, c)
    BY <2>1, <2>3 DEF Hits
  <2> QED
    BY <2>1, <2>4
<1> QED
  BY <1>1, <1>2, <1>3 DEF AllFound

LEMMA BestScoresOne ==
  ASSUME NEW best \in PassageRankings, NEW g \in Grades, Descending(best, g),
         Relevant(g) # {}, NEW c \in DOMAIN Discount
  PROVE  /\ Equals(Ndcg(best, g, c), One)
         /\ Equals(ReciprocalRank(best, g, c), One)
<1>1. /\ Len(Discount) \in Nat /\ DOMAIN Discount = 1..Len(Discount)
      /\ \A i \in DOMAIN Discount : Discount[i] \in Nat \ {0}
  BY DiscountIs
<1>2. c \in Nat /\ 1 <= c /\ 1 \in DOMAIN Discount
  BY <1>1
<1>3. Grading(best, g) \in [Nat -> Nat] /\ Grading(best, g)[1] \in Nat \ {0}
  BY GradingIs, BestStartsRelevant
<1>4. Equals(Ndcg(best, g, c), One)
  <2> DEFINE h == Grading(best, g)
             w == Weighted(h)
             x == Gained(h, c)
  <2>1. Gained(IdealGrading(g), c) = x
    BY <1>2, BestGainsMost
  <2>2. Ndcg(best, g, c) = Ratio(x, x, Zero)
    BY <2>1, NdcgIs
  <2>3. x \in Nat
    BY <1>2, <1>3, GainedIs
  <2>4. x # 0
    <3>1. w \in [Nat -> Nat]
      BY <1>3, WeightedType
    <3>2. w \in [Nat -> Int]
      BY <3>1
    <3>3. w[1] = h[1] * Discounts[1]
      BY DEF Weighted
    <3>4. Discounts[1] \in Nat \ {0} /\ h[1] \in Nat \ {0}
      BY <1>1, <1>2, <1>3 DEF Discounts
    <3>5. x = Part(w)[c]
      BY DEF Gained
    <3> HIDE DEF x, w, h
    <3>6. w[1] # 0 /\ w[1] \in Nat
      BY <3>1, <3>3, <3>4, PositiveProduct
    <3>7. Part(w)[1] = w[1]
      <4>1. Part(w)[0] = 0 /\ Part(w)[0 + 1] = Part(w)[0] + w[0 + 1]
        BY <3>2, PartIsSum
      <4>2. 0 + 1 = 1
        OBVIOUS
      <4> QED
        BY <3>6, <4>1, <4>2
    <3>8. Part(w)[1] <= Part(w)[c] /\ Part(w)[c] \in Nat
      BY <1>2, <3>1, PartRises
    <3> QED
      BY <3>5, <3>6, <3>7, <3>8
  <2> HIDE DEF x
  <2>5. Ratio(x, x, Zero) = <<x, x>>
    BY <2>4 DEF Ratio
  <2>6. x * 1 = x /\ 1 * x = x
    BY <2>3
  <2> QED
    BY <2>2, <2>5, <2>6 DEF Equals, One
<1>5. Equals(ReciprocalRank(best, g, c), One)
  <2> DEFINE X == Hits(best, g, c)
  <2>1. X \in SUBSET (1..c)
    BY <1>2, FoundIs
  <2>2. ReciprocalRank(best, g, c) = FirstHit(X)
    BY <1>2, HitsAre
  <2>3. 1 \in X
    BY <1>2, <1>3 DEF Hits
  <2> HIDE DEF X
  <2>4. \A x \in X : \E y \in X : y <= x
    BY <2>1
  <2>5. Equals(FirstHit(X), One)
    BY <1>2, <2>1, <2>3, <2>4, FirstHitOrder
  <2> QED
    BY <2>2, <2>5
<1> QED
  BY <1>4, <1>5

(* Moving a relevant document up by one place. *)
LEMMA SwappedIs ==
  ASSUME NEW s \in PassageRankings, NEW i \in 1..(Len(s) - 1)
  PROVE  /\ Swapped(s, i) \in PassageRankings /\ Len(Swapped(s, i)) = Len(s)
         /\ Swapped(s, i)[i] = s[i + 1] /\ Swapped(s, i)[i + 1] = s[i]
         /\ \A j \in 1..Len(s) : j # i /\ j # i + 1 => Swapped(s, i)[j] = s[j]
<1> DEFINE n == Len(s)
           r == Swapped(s, i)
           at(j) == IF j = i THEN i + 1 ELSE IF j = i + 1 THEN i ELSE j
<1>1. PICK m \in 0..Cardinality(Passages) : s \in [1..m -> Passages]
  BY DEF PassageRankings
<1>2. m \in Nat /\ n = m
  BY <1>1, RankingIs, FunctionIsSeq
<1>3. i \in 1..m /\ i + 1 \in 1..m /\ i # i + 1
  BY <1>2
<1>4. r \in [1..m -> Passages]
  BY <1>1, <1>3 DEF Swapped
<1>5. r[i] = s[i + 1] /\ r[i + 1] = s[i] /\ \A j \in 1..m : j # i /\ j # i + 1 => r[j] = s[j]
  BY <1>1, <1>3 DEF Swapped
<1>6. \A j \in 1..m : at(j) \in 1..m /\ r[j] = s[at(j)]
  BY <1>3, <1>5
<1>7. \A j, k \in 1..m : at(j) = at(k) => j = k
  BY <1>3
<1>8. \A j, k \in 1..m : s[j] = s[k] => j = k
  BY <1>2, RankingIs
<1> HIDE DEF r, at
<1>9. IsInjective(r)
  <2>1. DOMAIN r = 1..m
    BY <1>4
  <2> SUFFICES ASSUME NEW j \in 1..m, NEW k \in 1..m, r[j] = r[k] PROVE j = k
    BY <2>1 DEF IsInjective
  <2>2. s[at(j)] = s[at(k)] /\ at(j) \in 1..m /\ at(k) \in 1..m
    BY <1>6
  <2>3. at(j) = at(k)
    BY <1>8, <2>2
  <2> QED
    BY <1>7, <2>3
<1>10. r \in PassageRankings
  BY <1>1, <1>4, <1>9 DEF PassageRankings
<1>11. Len(r) = m
  BY <1>2, <1>4, FunctionIsSeq
<1> QED
  BY <1>2, <1>5, <1>10, <1>11 DEF r

LEMMA SwapFindsMore ==
  ASSUME NEW s \in PassageRankings, NEW g \in Grades, NEW i \in 1..(Len(s) - 1),
         Improvable(s, i, g), NEW c \in Nat
  PROVE  AllFound(s, Swapped(s, i), g, c)
<1> DEFINE n == Len(s)
           r == Swapped(s, i)
           k == i + 1
           h == Grading(s, g)
           e == Grading(r, g)
<1>1. n \in Nat /\ i \in Nat \ {0} /\ i \in 1..n /\ k \in 1..n /\ k \in Nat \ {0} /\ k # i
  BY RankingIs
<1>2. /\ r \in PassageRankings /\ Len(r) = n
      /\ r[i] = s[k] /\ r[k] = s[i] /\ \A j \in 1..n : j # i /\ j # k => r[j] = s[j]
  BY SwappedIs
<1>3. h \in [Nat -> Nat] /\ e \in [Nat -> Nat]
  BY <1>2, GradingIs
<1>4. \A j \in Nat : /\ h[j] = IF j \in 1..n THEN GradeOf(g, s[j]) ELSE 0
                     /\ e[j] = IF j \in 1..n THEN GradeOf(g, r[j]) ELSE 0
  <2>1. DOMAIN s = 1..n /\ DOMAIN r = 1..n
    BY <1>2, RankingIs
  <2> HIDE DEF n, r
  <2> QED
    BY <2>1 DEF Grading
<1>5. h[i] = 0
  BY <1>1, GradingIs DEF Improvable
<1> HIDE DEF n, r, k, h, e
<1>6. e[i] = h[k] /\ e[k] = 0 /\ \A j \in Nat \ {i, k} : e[j] = h[j]
  BY <1>1, <1>2, <1>4, <1>5
<1>7. Gained(h, c) <= Gained(e, c)
  <2> DEFINE u == Weighted(h)
             w == Weighted(e)
  <2>1. u \in [Nat -> Nat] /\ w \in [Nat -> Nat]
    BY <1>3, WeightedType
  <2>2. \A j \in Nat : u[j] = h[j] * Discounts[j] /\ w[j] = e[j] * Discounts[j]
    BY DEF Weighted
  <2> HIDE DEF u, w
  <2>3. /\ Discounts[i] \in Nat /\ Discounts[k] \in Nat /\ Discounts[k] <= Discounts[i]
        /\ h[k] \in Nat
    BY <1>1, <1>3, DiscountsFall DEF k
  <2>4. u[i] = 0 /\ w[k] = 0
    <3>1. 0 * Discounts[i] = 0 /\ 0 * Discounts[k] = 0
      BY <2>3
    <3> QED
      BY <1>1, <1>5, <1>6, <2>2, <3>1
  <2>5. u[k] <= w[i]
    <3>1. u[k] = h[k] * Discounts[k] /\ w[i] = h[k] * Discounts[i]
      BY <1>1, <1>6, <2>2
    <3>2. Discounts[k] * h[k] <= Discounts[i] * h[k]
      BY <2>3, ScaledOrder
    <3>3. Discounts[k] * h[k] = h[k] * Discounts[k] /\ Discounts[i] * h[k] = h[k] * Discounts[i]
      BY <2>3
    <3> QED
      BY <3>1, <3>2, <3>3
  <2>6. \A j \in Nat \ {i, k} : w[j] = u[j]
    BY <1>6, <2>2
  <2>7. Part(u)[c] <= Part(w)[c]
    BY <1>1, <2>1, <2>4, <2>5, <2>6, MovedUp DEF k
  <2> QED
    BY <2>7 DEF Gained, u, w
<1>8. Found(s, g, c) <= Found(r, g, c)
  <2> DEFINE u == Level(h, 1)
             w == Level(e, 1)
  <2>1. u \in [Nat -> Nat] /\ w \in [Nat -> Nat]
    BY DEF Level
  <2>2. \A j \in Nat : /\ u[j] = IF h[j] >= 1 THEN 1 ELSE 0
                       /\ w[j] = IF e[j] >= 1 THEN 1 ELSE 0
    BY DEF Level
  <2>3. Found(s, g, c) = Part(u)[c] /\ Found(r, g, c) = Part(w)[c]
    BY DEF Found, h, e
  <2> HIDE DEF u, w
  <2>4. u[i] = 0 /\ w[k] = 0 /\ u[k] = w[i]
    BY <1>1, <1>5, <1>6, <2>2
  <2>8. u[k] <= w[i]
    BY <1>1, <2>1, <2>4
  <2>5. \A j \in Nat \ {i, k} : w[j] = u[j]
    BY <1>6, <2>2
  <2>6. Part(u)[c] <= Part(w)[c]
    BY <1>1, <2>1, <2>4, <2>5, <2>8, MovedUp DEF k
  <2> QED
    BY <2>3, <2>6
<1>9. ASSUME NEW x \in Hits(s, g, c) PROVE \E y \in Hits(r, g, c) : y <= x
  <2>1. x \in 1..c /\ h[x] # 0
    BY DEF Hits, h
  <2>2. \A y \in 1..c : e[y] # 0 => y \in Hits(r, g, c)
    BY DEF Hits, e
  <2>3. CASE x = k
    <3>1. i \in 1..c /\ i <= x /\ e[i] # 0
      BY <1>1, <1>6, <2>1, <2>3 DEF k
    <3> QED
      BY <2>2, <3>1
  <2>4. CASE x # k
    <3>1. x \in Nat \ {i, k}
      BY <1>5, <2>1, <2>4
    <3>2. e[x] # 0
      BY <1>6, <2>1, <3>1
    <3>3. x <= x
      BY <2>1
    <3> QED
      BY <2>1, <2>2, <3>2, <3>3
  <2> QED
    BY <2>3, <2>4
<1>10. AllFound(s, r, g, c)
  BY <1>7, <1>8, <1>9 DEF AllFound, h, e
<1> QED
  BY <1>10 DEF r

(* What the metrics of a query promise, for whatever grades it has. *)
LEMMA EveryQueryIsScored ==
  ASSUME NEW g \in Grades
  PROVE  RetrievalScored(g)
<1> DEFINE worth(r, c) == <<Ndcg(r, g, c), Recall(r, g, c), ReciprocalRank(r, g, c)>>
           best(s) == s \in PassageRankings /\ Descending(s, g)
<1>1. \A r, c : /\ worth(r, c)[1] = Ndcg(r, g, c) /\ worth(r, c)[2] = Recall(r, g, c)
                /\ worth(r, c)[3] = ReciprocalRank(r, g, c)
  OBVIOUS
<1>2. \A n \in 1..3 : n = 1 \/ n = 2 \/ n = 3
  OBVIOUS
<1> HIDE DEF worth
<1>3. ASSUME NEW c \in DOMAIN Discount, NEW s \in PassageRankings, best(s), Relevant(g) # {}
      PROVE  Equals(worth(s, c)[1], One) /\ Equals(worth(s, c)[3], One)
  BY <1>1, <1>3, BestScoresOne
<1>4. ASSUME NEW c \in DOMAIN Discount, NEW s \in PassageRankings, NEW n \in 1..3
      PROVE  Between(worth(s, c)[n], Zero, One)
  BY <1>1, <1>2, MetricsInRange
<1>5. ASSUME NEW c \in DOMAIN Discount, NEW s \in PassageRankings, NEW r \in PassageRankings,
             AllFound(s, r, g, c), NEW n \in 1..3
      PROVE  AtMost(worth(s, c)[n], worth(r, c)[n])
  BY <1>1, <1>2, <1>5, MetricsOrder
<1>6. ASSUME NEW c \in DOMAIN Discount, NEW s \in PassageRankings, NEW r \in PassageRankings,
             best(r), NEW n \in 1..3
      PROVE  AtMost(worth(s, c)[n], worth(r, c)[n])
  <2>1. c \in Nat
    BY DiscountIs
  <2>2. AllFound(s, r, g, c)
    BY <1>6, <2>1, BestFindsAll
  <2> QED
    BY <1>5, <2>2
<1>7. ASSUME NEW c \in DOMAIN Discount, NEW s \in PassageRankings, NEW i \in 1..(Len(s) - 1),
             Improvable(s, i, g), NEW n \in 1..3
      PROVE  AtMost(worth(s, c)[n], worth(Swapped(s, i), c)[n])
  <2>1. c \in Nat
    BY DiscountIs
  <2>2. AllFound(s, Swapped(s, i), g, c)
    BY <1>7, <2>1, SwapFindsMore
  <2>3. Swapped(s, i) \in PassageRankings
    BY SwappedIs
  <2> QED
    BY <1>5, <2>2, <2>3
<1>8. ASSUME NEW c \in DOMAIN Discount
      PROVE  LET ideal == {s \in PassageRankings : Descending(s, g)} IN
             /\ \A b \in ideal :
                  Relevant(g) # {} => Equals(worth(b, c)[1], One) /\ Equals(worth(b, c)[3], One)
             /\ \A s \in PassageRankings :
                  /\ \A n \in 1..3 : Between(worth(s, c)[n], Zero, One)
                  /\ \A b \in ideal, n \in 1..3 : AtMost(worth(s, c)[n], worth(b, c)[n])
                  /\ \A i \in 1..(Len(s) - 1) :
                       Improvable(s, i, g) =>
                         \A n \in 1..3 : AtMost(worth(s, c)[n], worth(Swapped(s, i), c)[n])
  BY <1>3, <1>4, <1>6, <1>7
<1> QED
  BY <1>8 DEF RetrievalScored, worth

-----------------------------------------------------------------------------
(* The measures of every input. *)
LEMMA MeasuredInputs ==
  ASSUME SubjectInv
  PROVE  /\ Tried("grades") => subject.input \in Grades
         /\ Tried("usage") => subject.input \in Usages
         /\ Tried("rows") => subject.input \in RowSets
         /\ Tried("human") => \E n \in 1..MaxSample : subject.input \in [1..n -> BOOLEAN]
         /\ Tried("gold") => \E n \in 1..MaxSample : subject.input \in [1..n -> Labels]
         /\ Tried("differences") => \E n \in 1..MaxSample : subject.input \in [1..n -> -1..1]
BY DEF SubjectInv, SomeSubject, Subject, NoSubject, Tried

(* However an evaluation is graded, labelled, metered and repeated, its    *)
(* numbers mean what they say: every retrieval metric lies between 0 and 1 *)
(* and a better ranking never scores less, agreement and F1 keep to their  *)
(* ranges, costs add up, only whole runs are reported, and a comparison    *)
(* favours no side (compute_retrieval_metrics, cohens_kappa, macro_f1,     *)
(* calculate_cost, reporting.py).                                          *)
THEOREM EveryMeasureIsSound == ASpec => []MeasuresAreSound
<1>1. SubjectInv /\ Tried("human") => AgreementScored(subject.input)
  <2> SUFFICES ASSUME SubjectInv, Tried("human") PROVE AgreementScored(subject.input)
    OBVIOUS
  <2>1. PICK n \in 1..MaxSample : subject.input \in [1..n -> BOOLEAN]
    BY MeasuredInputs
  <2>2. n \in Nat \ {0}
    OBVIOUS
  <2> QED
    BY <2>1, <2>2, AgreementAlwaysScored
<1>2. SubjectInv /\ Tried("gold") => LabelsScored(subject.input)
  <2> SUFFICES ASSUME SubjectInv, Tried("gold") PROVE LabelsScored(subject.input)
    OBVIOUS
  <2>1. PICK n \in 1..MaxSample : subject.input \in [1..n -> Labels]
    BY MeasuredInputs
  <2>2. n \in Nat
    OBVIOUS
  <2> QED
    BY <2>1, <2>2, LabelsAlwaysScored
<1>3. SubjectInv /\ Tried("differences") => ComparesFairly(subject.input)
  <2> SUFFICES ASSUME SubjectInv, Tried("differences") PROVE ComparesFairly(subject.input)
    OBVIOUS
  <2>1. PICK n \in 1..MaxSample : subject.input \in [1..n -> -1..1]
    BY MeasuredInputs
  <2>2. n \in Nat \ {0} /\ subject.input \in [1..n -> Int]
    BY <2>1
  <2> QED
    BY <2>2, EveryComparisonIsFair
<1>4. SubjectInv => MeasuresAreSound
  BY <1>1, <1>2, <1>3, MeasuredInputs, EveryQueryIsScored, SpendAlwaysAdds, EveryReportIsWhole
     DEF MeasuresAreSound
<1> QED
  BY <1>4, SubjectStays, PTL
=============================================================================
