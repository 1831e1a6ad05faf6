----------------------------- MODULE RankingProofs -----------------------------
(****************************************************************************)
(* Theorems about the orders of Catalog.tla: ranks and pages.  They rest on *)
(* two facts, proved first: fractions are totally preordered by cross       *)
(* multiplication, and in a strict total order of a finite set the places   *)
(* 0, 1, ... are each taken once.                                           *)
(****************************************************************************)
EXTENDS CatalogProofs

------------------------------------------------------------------------------
(* Fractions.                                                               *)

Fraction == [num : Int, den : Nat \ {0}]

(* A product is compared by its other factor.                               *)
LEMMA Products ==
    ASSUME NEW k \in Nat \ {0}, NEW x \in Int, NEW y \in Int
    PROVE  /\ x >= y <=> k * x >= k * y
           /\ k * x \in Int /\ k * y \in Int
<1>1. x >= y => k * x >= k * y
  OBVIOUS
<1>2. y > x => k * y > k * x
  OBVIOUS
<1>3. k * x \in Int /\ k * y \in Int
  OBVIOUS
<1> QED
  BY <1>1, <1>2, <1>3

(* No fraction exceeds one that exceeds it, and not exceeding is transitive.*)
LEMMA FractionOrder ==
    /\ \A v, w \in Fraction : ~ (Exceeds(v, w) /\ Exceeds(w, v))
    /\ \A v, w, u \in Fraction : ~ Exceeds(w, v) /\ ~ Exceeds(u, w) => ~ Exceeds(u, v)
<1>1. ASSUME NEW v \in Fraction, NEW w \in Fraction
      PROVE  ~ (Exceeds(v, w) /\ Exceeds(w, v))
  <2>1. v.num * w.den \in Int /\ w.num * v.den \in Int
    BY DEF Fraction
  <2> QED
    BY <2>1 DEF Exceeds
<1>2. ASSUME NEW v \in Fraction, NEW w \in Fraction, NEW u \in Fraction,
             ~ Exceeds(w, v), ~ Exceeds(u, w)
      PROVE  ~ Exceeds(u, v)
  <2> DEFINE a == v.num  b == v.den  c == w.num  d == w.den  e == u.num  f == u.den
  <2>1. a \in Int /\ c \in Int /\ e \in Int
        /\ b \in Nat \ {0} /\ d \in Nat \ {0} /\ f \in Nat \ {0}
    BY DEF Fraction
  <2>2. a * d >= c * b /\ c * f >= e * d
    BY <1>2, <2>1 DEF Exceeds
  <2> HIDE DEF a, b, c, d, e, f
  <2>3. f * (a * d) >= f * (c * b)
    BY <2>1, <2>2, Products
  <2>4. b * (c * f) >= b * (e * d)
    BY <2>1, <2>2, Products
  <2>5. f * (c * b) = b * (c * f) /\ f * (a * d) = d * (a * f) /\ b * (e * d) = d * (e * b)
    BY <2>1
  <2>6. d * (a * f) >= d * (e * b)
    <3>1. d * (a * f) \in Int /\ d * (e * b) \in Int /\ b * (c * f) \in Int
      BY <2>1
    <3> QED
      BY <2>3, <2>4, <2>5, <3>1
  <2>7. a * f >= e * b
    BY <2>1, <2>6, Products
  <2>8. ~ e * b > a * f
    BY <2>1, <2>7
  <2> QED
    BY <2>8 DEF Exceeds, a, b, e, f
<1> QED
  BY <1>1, <1>2

------------------------------------------------------------------------------
(* Places in an order.                                                      *)

(* The relation R orders S strictly and totally.                            *)
Orders(R, S) ==
    /\ \A a, b \in S : a # b => <<a, b>> \in R \/ <<b, a>> \in R
    /\ \A a \in S : <<a, a>> \notin R
    /\ \A a, b, c \in S : <<a, b>> \in R /\ <<b, c>> \in R => <<a, c>> \in R

(* The place of a in S, from 0.                                             *)
Place(R, S, a) == Cardinality({o \in S : <<o, a>> \in R})

(* What comes first has the smaller place.                                  *)
LEMMA EarlierPlace ==
    ASSUME NEW S, IsFiniteSet(S), NEW R, Orders(R, S),
           NEW a \in S, NEW b \in S, <<a, b>> \in R
    PROVE  Place(R, S, a) < Place(R, S, b)
<1> DEFINE A == {o \in S : <<o, a>> \in R}
           B == {o \in S : <<o, b>> \in R}
<1>1. A \subseteq B /\ a \in B /\ a \notin A
  BY DEF Orders
<1>2. IsFiniteSet(B) /\ IsFiniteSet(A)
  BY FS_Subset
<1>3. Cardinality(A) <= Cardinality(B) /\ Cardinality(A) # Cardinality(B)
  BY <1>1, <1>2, FS_Subset
<1>4. Cardinality(A) \in Nat /\ Cardinality(B) \in Nat
  BY <1>2, FS_CardinalityType
<1> HIDE DEF A, B
<1>5. Cardinality(A) < Cardinality(B)
  BY <1>3, <1>4
<1> QED
  BY <1>5 DEF Place, A, B

(* Each place below the number of elements is that of exactly one of them.  *)
LEMMA Places ==
    ASSUME NEW S, IsFiniteSet(S), NEW R, Orders(R, S)
    PROVE  LET N == Cardinality(S)
           IN  /\ N \in Nat
               /\ [a \in S |-> Place(R, S, a)] \in Bijection(S, 0 .. N - 1)
               /\ \A a, b \in S : <<a, b>> \in R <=> Place(R, S, a) < Place(R, S, b)
<1> DEFINE N == Cardinality(S)
           place == [a \in S |-> Place(R, S, a)]
<1>1. N \in Nat
  BY FS_CardinalityType
<1>2. ASSUME NEW a \in S PROVE Place(R, S, a) \in 0 .. N - 1
  <2> DEFINE A == {o \in S : <<o, a>> \in R}
  <2>1. A \in SUBSET (S \ {a})
    BY DEF Orders
  <2>2. IsFiniteSet(S \ {a}) /\ Cardinality(S \ {a}) = N - 1
    BY FS_RemoveElement
  <2>3. Cardinality(A) \in Nat /\ Cardinality(A) <= N - 1
    BY <2>1, <2>2, FS_Subset, FS_CardinalityType
  <2> HIDE DEF A, N
  <2>4. Cardinality(A) \in 0 .. N - 1
    BY <1>1, <2>3
  <2> QED
    BY <2>4 DEF Place, A
<1>3. ASSUME NEW a \in S, NEW b \in S
      PROVE  <<a, b>> \in R <=> Place(R, S, a) < Place(R, S, b)
  <2>1. Place(R, S, a) \in Int /\ Place(R, S, b) \in Int
    BY <1>1, <1>2
  <2>2. <<a, b>> \in R => Place(R, S, a) < Place(R, S, b)
    BY EarlierPlace
  <2>3. <<b, a>> \in R => Place(R, S, b) < Place(R, S, a)
    BY EarlierPlace
  <2>4. a = b \/ <<a, b>> \in R \/ <<b, a>> \in R
    BY DEF Orders
  <2> QED
    BY <2>1, <2>2, <2>3, <2>4
<1>4. place \in Injection(S, 0 .. N - 1)
  <2>1. \A a, b \in S : a # b => Place(R, S, a) # Place(R, S, b)
    <3>1. SUFFICES ASSUME NEW a \in S, NEW b \in S, a # b
                   PROVE  Place(R, S, a) # Place(R, S, b)
      OBVIOUS
    <3>2. Place(R, S, a) < Place(R, S, b) \/ Place(R, S, b) < Place(R, S, a)
      BY <1>3, <3>1 DEF Orders
    <3>3. Place(R, S, a) \in Int /\ Place(R, S, b) \in Int
      BY <1>1, <1>2
    <3> QED
      BY <3>2, <3>3
  <2>2. \A a \in S : Place(R, S, a) \in 0 .. N - 1
    BY <1>2
  <2> HIDE DEF N
  <2> QED
    BY <2>1, <2>2 DEF Injection, IsInjective
<1>5. place \in Surjection(S, 0 .. N - 1)
  <2>1. IsFiniteSet(0 .. N - 1) /\ Cardinality(0 .. N - 1) = N
    <3>1. IsFiniteSet(0 .. N - 1)
          /\ Cardinality(0 .. N - 1) = IF 0 > N - 1 THEN 0 ELSE N - 1 - 0 + 1
      BY <1>1, FS_Interval
    <3> QED
      BY <1>1, <3>1
  <2> HIDE DEF place
  <2> QED
    BY <1>4, <2>1, FS_Injection
<1>6. place \in Bijection(S, 0 .. N - 1)
  BY <1>4, <1>5 DEF Bijection
<1> QED
  BY <1>1, <1>3, <1>6

(* The elements with places from `offset` on, at most `limit` of them.      *)
LEMMA PageSize ==
    ASSUME NEW S, IsFiniteSet(S), NEW R, Orders(R, S),
           NEW offset \in Nat, NEW limit \in Nat \ {0}
    PROVE  Cardinality({a \in S : Place(R, S, a) \in offset .. offset + limit - 1}) =
             IF offset >= Cardinality(S) THEN 0
             ELSE IF Cardinality(S) - offset < limit THEN Cardinality(S) - offset ELSE limit
<1> DEFINE N == Cardinality(S)
           last == IF N - offset < limit THEN N - 1 ELSE offset + limit - 1
           page == {a \in S : Place(R, S, a) \in offset .. offset + limit - 1}
           place == [a \in page |-> Place(R, S, a)]
<1>1. /\ N \in Nat
      /\ [a \in S |-> Place(R, S, a)] \in Bijection(S, 0 .. N - 1)
  BY Places
<1>2. /\ \A a \in S : Place(R, S, a) \in 0 .. N - 1
      /\ \A a, b \in S : Place(R, S, a) = Place(R, S, b) => a = b
      /\ \A n \in 0 .. N - 1 : \E a \in S : Place(R, S, a) = n
  <2> HIDE DEF N
  <2> QED
    BY <1>1 DEF Bijection, Injection, IsInjective, Surjection
<1>3. last \in Int /\ \A n \in Int :
        n \in offset .. last <=> n \in 0 .. N - 1 /\ n \in offset .. offset + limit - 1
  BY <1>1
<1> HIDE DEF N, last
<1>4. place \in Bijection(page, offset .. last)
  <2>1. \A a \in page : Place(R, S, a) \in offset .. last
    BY <1>2, <1>3
  <2>2. \A n \in offset .. last : \E a \in page : Place(R, S, a) = n
    BY <1>2, <1>3
  <2>3. \A a, b \in page : Place(R, S, a) = Place(R, S, b) => a = b
    BY <1>2
  <2> HIDE DEF page
  <2> QED
    BY <2>1, <2>2, <2>3 DEF Bijection, Injection, IsInjective, Surjection
<1>5. IsFiniteSet(page)
  BY FS_Subset
<1>6. Cardinality(page) = Cardinality(offset .. last)
  <2> HIDE DEF page, place
  <2> QED
    BY <1>4, <1>5, FS_Bijection DEF ExistsBijection
<1>7. Cardinality(offset .. last) = IF offset > last THEN 0 ELSE last - offset + 1
  BY <1>3, FS_Interval
<1> HIDE DEF page
<1>8. Cardinality(page) =
        IF offset >= N THEN 0 ELSE IF N - offset < limit THEN N - offset ELSE limit
  BY <1>1, <1>6, <1>7 DEF last
<1> QED
  BY <1>8 DEF page, N

------------------------------------------------------------------------------
(* The two orders of the catalog.                                           *)

NameOrder == {pair \in Source \X Source : ByName(pair[1], pair[2])}
RankOrder(record) == {pair \in Source \X Source : Ahead(record, pair[1], pair[2])}

(* Names and ids order any sources.                                         *)
LEMMA NamesOrder ==
    ASSUME NEW S \in SUBSET Source
    PROVE  Orders(NameOrder, S)
<1>1. \A a \in S : a \in Source /\ a \in Nat /\ Name[a] \in Nat
  BY CatalogAssumption
<1>2. \A a, b \in S : <<a, b>> \in NameOrder <=> ByName(a, b)
  BY DEF NameOrder
<1>3. \A a, b \in S : a # b => ByName(a, b) \/ ByName(b, a)
  BY <1>1 DEF ByName
<1>4. \A a \in S : ~ ByName(a, a)
  BY <1>1 DEF ByName
<1>5. \A a, b, c \in S : ByName(a, b) /\ ByName(b, c) => ByName(a, c)
  BY <1>1 DEF ByName
<1> QED
  BY <1>2, <1>3, <1>4, <1>5 DEF Orders

(* What Ahead reads of two records and of their sources' names.             *)
LEMMA AheadUnfolds ==
    ASSUME NEW record, NEW a, NEW b
    PROVE  LET x == record[a]  y == record[b]
           IN  Ahead(record, a, b) <=>
                 \/ x.eligible /\ ~ y.eligible
                 \/ /\ x.eligible /\ y.eligible
                    /\ Exceeds(x.value, y.value) \/ (~ Exceeds(y.value, x.value) /\ ByName(a, b))
                 \/ /\ ~ x.eligible /\ ~ y.eligible
                    /\ \/ ReasonPlace[x.reason] < ReasonPlace[y.reason]
                       \/ x.reason = y.reason /\ ByName(a, b)
BY DEF Ahead

(* The reasons have places of their own.                                    *)
LEMMA ReasonPlaces ==
    /\ \A x \in DOMAIN ReasonPlace : ReasonPlace[x] \in Nat
    /\ \A x, y \in DOMAIN ReasonPlace : ReasonPlace[x] = ReasonPlace[y] => x = y
BY DEF ReasonPlace

(* The sort keys of rank_boorus order any sources, whatever the records: no *)
(* two of them tie.                                                         *)
LEMMA RanksOrder ==
    ASSUME NEW S \in SUBSET Source, NEW mode, NEW record,
           \A s \in S : record[s] \in RecordType(mode)
    PROVE  Orders(RankOrder(record), S)
<1> DEFINE ok(s) == record[s].eligible
           v(s) == record[s].value
           n(s) == ReasonPlace[record[s].reason]
           above(a, b) == Exceeds(v(a), v(b))
           ahead(a, b) ==
               \/ ok(a) /\ ~ ok(b)
               \/ ok(a) /\ ok(b) /\ (above(a, b) \/ (~ above(b, a) /\ ByName(a, b)))
               \/ ~ ok(a) /\ ~ ok(b) /\ (n(a) < n(b) \/ (n(a) = n(b) /\ ByName(a, b)))
<1>1. \A s \in S : record[s].reason \in DOMAIN ReasonPlace /\ ok(s) \in BOOLEAN
                   /\ v(s).num \in Int /\ v(s).den \in Nat \ {0}
  BY RecordKinds
<1>2. \A s \in S : n(s) \in Nat
  BY <1>1, ReasonPlaces
<1>3. \A a, b \in S : n(a) = n(b) <=> record[a].reason = record[b].reason
  BY <1>1, ReasonPlaces
<1>4. \A a, b \in S : <<a, b>> \in RankOrder(record) <=> ahead(a, b)
  <2>1. SUFFICES ASSUME NEW a \in S, NEW b \in S
                 PROVE  Ahead(record, a, b) <=> ahead(a, b)
    BY DEF RankOrder
  <2>2. n(a) = n(b) <=> record[a].reason = record[b].reason
    BY <1>3
  <2> QED
    BY <2>2, AheadUnfolds
<1>5. \A a, b \in S : ~ (above(a, b) /\ above(b, a))
  <2>1. SUFFICES ASSUME NEW a \in S, NEW b \in S PROVE ~ (above(a, b) /\ above(b, a))
    OBVIOUS
  <2> DEFINE f(s) == [num |-> v(s).num, den |-> v(s).den]
  <2>2. f(a) \in Fraction /\ f(b) \in Fraction
    BY <1>1 DEF Fraction
  <2>3. ~ (Exceeds(f(a), f(b)) /\ Exceeds(f(b), f(a)))
    BY <2>2, FractionOrder
  <2> QED
    BY <2>3 DEF Exceeds
<1>6. \A a, b, c \in S : ~ above(b, a) /\ ~ above(c, b) => ~ above(c, a)
  <2>1. SUFFICES ASSUME NEW a \in S, NEW b \in S, NEW c \in S, ~ above(b, a), ~ above(c, b)
                 PROVE  ~ above(c, a)
    OBVIOUS
  <2> DEFINE f(s) == [num |-> v(s).num, den |-> v(s).den]
  <2>2. f(a) \in Fraction /\ f(b) \in Fraction /\ f(c) \in Fraction
    BY <1>1 DEF Fraction
  <2>3. ~ Exceeds(f(b), f(a)) /\ ~ Exceeds(f(c), f(b))
    BY <2>1 DEF Exceeds
  <2>4. ~ Exceeds(f(c), f(a))
    BY <2>2, <2>3, FractionOrder
  <2> QED
    BY <2>4 DEF Exceeds
<1>7. /\ \A a, b \in S : a # b => ByName(a, b) \/ ByName(b, a)
      /\ \A a \in S : ~ ByName(a, a)
      /\ \A a, b, c \in S : ByName(a, b) /\ ByName(b, c) => ByName(a, c)
  <2>1. Orders(NameOrder, S) /\ \A a, b \in S : <<a, b>> \in NameOrder <=> ByName(a, b)
    BY NamesOrder DEF NameOrder
  <2> QED
    BY <2>1 DEF Orders
<1> HIDE DEF ok, v, n, above
<1>8. \A a, b \in S : a # b => ahead(a, b) \/ ahead(b, a)
  BY <1>2, <1>5, <1>7
<1>9. \A a \in S : ~ ahead(a, a)
  BY <1>2, <1>5, <1>7
<1>10. ASSUME NEW a \in S, NEW b \in S, NEW c \in S, ahead(a, b), ahead(b, c)
       PROVE  ahead(a, c)
  <2>1. CASE ok(a) /\ ok(b) /\ ok(c)
    <3>1. ~ above(b, a) /\ ~ above(c, b) /\ ~ above(c, a)
      BY <1>5, <1>6, <1>10, <2>1
    <3>2. CASE above(a, c)
      BY <2>1, <3>2
    <3>3. CASE ~ above(a, c)
      <4>1. ~ above(a, b) /\ ~ above(b, c)
        BY <1>6, <3>1, <3>3
      <4> QED
        BY <1>7, <1>10, <2>1, <3>1, <4>1
    <3> QED
      BY <3>2, <3>3
  <2>2. CASE ~ ok(a) /\ ~ ok(b) /\ ~ ok(c)
    BY <1>2, <1>7, <1>10, <2>2
  <2>3. CASE ok(a) /\ ~ ok(c)
    BY <2>3
  <2> QED
    BY <1>10, <2>1, <2>2, <2>3
<1> HIDE DEF ahead
<1> QED
  BY <1>4, <1>8, <1>9, <1>10 DEF Orders

------------------------------------------------------------------------------
(* Ranks.                                                                   *)

(* What a ranking is about: finitely many sources with typed records.       *)
LEMMA RankedSources ==
    ASSUME TypeOK, NEW mode \in Mode, NEW S \in SUBSET shown
    PROVE  /\ IsFiniteSet(S) /\ S \subseteq Source
           /\ \A s \in S : Records(mode)[s] = Record(s, mode)
           /\ \A s \in S : Records(mode)[s] \in RecordType(mode)
           /\ Orders(RankOrder(Records(mode)), S)
<1>1. S \in SUBSET Source /\ IsFiniteSet(S)
  BY CatalogAssumption, FS_Subset DEF TypeOK
<1>2. \A s \in S : Records(mode)[s] = Record(s, mode)
  BY DEF Records
<1>3. \A s \in S : Records(mode)[s] \in RecordType(mode)
  BY <1>2, RecordIsTyped
<1> QED
  BY <1>1, <1>2, <1>3, RanksOrder

(* Ranks are places among the eligible, and indices among the matching.     *)
LEMMA RankIsPlace ==
    ASSUME TypeOK, NEW mode \in Mode, NEW f, NEW s \in shown
    PROVE  LET record == Records(mode)  R == RankOrder(record)
           IN  /\ Rank(record, f, s) = IF record[s].eligible
                                       THEN 1 + Place(R, Eligible(record), s) ELSE 0
               /\ Index(record, f, s) = Place(R, Matching(f), s)
<1> DEFINE record == Records(mode)
           R == RankOrder(record)
<1>1. Eligible(record) \subseteq shown /\ Matching(f) \subseteq shown /\ shown \subseteq Source
  BY DEF Eligible, Records, Matching, TypeOK
<1>2. \A o \in Source : <<o, s>> \in R <=> Ahead(record, o, s)
  BY <1>1 DEF RankOrder
<1> HIDE DEF record, R
<1>3. {o \in Eligible(record) : <<o, s>> \in R} = {o \in Eligible(record) : Ahead(record, o, s)}
  BY <1>1, <1>2
<1>4. {o \in Matching(f) : <<o, s>> \in R} = {o \in Matching(f) : Ahead(record, o, s)}
  BY <1>1, <1>2
<1>5. Rank(record, f, s) = IF record[s].eligible
                           THEN 1 + Place(R, Eligible(record), s) ELSE 0
  BY <1>3 DEF Rank, Place
<1>6. Index(record, f, s) = Place(R, Matching(f), s)
  BY <1>4 DEF Index, Place
<1> QED
  BY <1>5, <1>6 DEF record, R

(* A page as long as the list holds all that matches.                       *)
LEMMA WholeRanking ==
    ASSUME TypeOK, NEW mode \in Mode, NEW f
    PROVE  LET record == Records(mode)
           IN  Ranking(mode, f, Cardinality(Source), 0).items =
                 {[source |-> s, rank |-> Rank(record, f, s),
                   index |-> Index(record, f, s), record |-> record[s]] : s \in Matching(f)}
<1> DEFINE record == Records(mode)
           N == Cardinality(Source)
           M == Cardinality(Matching(f))
           page == {s \in Matching(f) : Index(record, f, s) \in 0 .. 0 + N - 1}
<1>1. Matching(f) \in SUBSET shown
  BY DEF Matching
<1>2. /\ IsFiniteSet(Matching(f)) /\ Matching(f) \subseteq Source
      /\ Orders(RankOrder(record), Matching(f))
  BY <1>1, RankedSources
<1>3. N \in Nat /\ M \in Nat /\ M <= N
  BY <1>2, CatalogAssumption, FS_Subset, FS_CardinalityType
<1>4. \A s \in Matching(f) : Index(record, f, s) \in 0 .. M - 1
  <2>1. [s \in Matching(f) |-> Place(RankOrder(record), Matching(f), s)]
          \in Bijection(Matching(f), 0 .. M - 1)
    BY <1>2, Places
  <2>2. \A s \in Matching(f) : Place(RankOrder(record), Matching(f), s) \in 0 .. M - 1
    <3> HIDE DEF M, record
    <3> QED
      BY <2>1 DEF Bijection, Injection, IsInjective, Surjection
  <2> QED
    BY <1>1, <2>2, RankIsPlace
<1> HIDE DEF N, M, record
<1>5. page = Matching(f)
  BY <1>3, <1>4
<1> HIDE DEF page
<1>6. Ranking(mode, f, Cardinality(Source), 0).items =
        {[source |-> s, rank |-> Rank(record, f, s),
          index |-> Index(record, f, s), record |-> record[s]] : s \in page}
  BY DEF Ranking, page, record, N
<1> QED
  BY <1>5, <1>6 DEF record

(* Ranks 1, 2, ... are given to the eligible, and once each.                *)
LEMMA RanksAreDense ==
    ASSUME TypeOK, NEW mode \in Mode
    PROVE  LET record == Records(mode)
               all == Ranking(mode, NoFilter, Cardinality(Source), 0).items
               ranked == {i \in all : i.rank # 0}
           IN  {i.rank : i \in ranked} = 1 .. Cardinality(ranked)
<1> DEFINE record == Records(mode)
           R == RankOrder(record)
           E == Eligible(record)
           N == Cardinality(E)
           all == Ranking(mode, NoFilter, Cardinality(Source), 0).items
           ranked == {i \in all : i.rank # 0}
           item(s) == [source |-> s, rank |-> Rank(record, NoFilter, s),
                       index |-> Index(record, NoFilter, s), record |-> record[s]]
<1>1. E \in SUBSET shown /\ \A s \in shown : s \in E <=> record[s].eligible
  BY DEF Eligible, Records
<1>2. Matching(NoFilter) = shown
  BY DEF Matching, Matches, NoFilter, TypeOK
<1>3. all = {item(s) : s \in shown}
  BY <1>2, WholeRanking
<1>4. IsFiniteSet(E) /\ Orders(R, E)
  BY <1>1, RankedSources
<1>5. /\ N \in Nat
      /\ [a \in E |-> Place(R, E, a)] \in Bijection(E, 0 .. N - 1)
  BY <1>4, Places
<1>6. /\ \A a \in E : Place(R, E, a) \in 0 .. N - 1
      /\ \A n \in 0 .. N - 1 : \E a \in E : Place(R, E, a) = n
  <2> HIDE DEF N, E, R
  <2> QED
    BY <1>5 DEF Bijection, Injection, IsInjective, Surjection
<1>7. \A s \in shown : Rank(record, NoFilter, s) = IF s \in E THEN 1 + Place(R, E, s) ELSE 0
  BY <1>1, RankIsPlace
<1> HIDE DEF record, R, E, N, all
<1>8. \A s \in shown : item(s).rank # 0 <=> s \in E
  <2>1. \A s \in E : 1 + Place(R, E, s) # 0
    BY <1>6
  <2> QED
    BY <1>7, <2>1
<1>9. ranked = {item(s) : s \in E}
  BY <1>1, <1>3, <1>8
<1>10. {i.rank : i \in ranked} = {1 + Place(R, E, s) : s \in E}
  <2>1. \A s \in E : item(s).rank = 1 + Place(R, E, s)
    BY <1>1, <1>7
  <2> HIDE DEF item, ranked
  <2> QED
    BY <1>9, <2>1
<1>11. {1 + Place(R, E, s) : s \in E} = 1 .. N
  <2>1. \A s \in E : 1 + Place(R, E, s) \in 1 .. N
    BY <1>5, <1>6
  <2>2. ASSUME NEW n \in 1 .. N PROVE \E s \in E : n = 1 + Place(R, E, s)
    <3>1. n - 1 \in 0 .. N - 1
      BY <1>5
    <3>2. PICK s \in E : Place(R, E, s) = n - 1
      BY <1>6, <3>1
    <3> QED
      BY <3>2
  <2> QED
    BY <2>1, <2>2
<1>12. Cardinality(ranked) = N
  <2> DEFINE g == [s \in E |-> item(s)]
  <2>1. \A a, b \in E : item(a) = item(b) => a = b
    <3>1. \A s \in E : item(s).source = s
      OBVIOUS
    <3> QED
      BY <3>1
  <2> HIDE DEF item, ranked
  <2>2. g \in Bijection(E, ranked)
    BY <1>9, <2>1 DEF Bijection, Injection, IsInjective, Surjection
  <2> HIDE DEF g
  <2> QED
    BY <1>4, <2>2, FS_Bijection DEF ExistsBijection, N
<1> QED
  BY <1>10, <1>11, <1>12 DEF all

(* A source's rank is the one that the whole catalog gives it; greater      *)
(* values have smaller ranks, and what has no rank comes after what has.    *)
LEMMA RanksFollowOrder ==
    ASSUME TypeOK, NEW mode \in Mode, NEW f, NEW s \in shown, NEW t \in shown
    PROVE  LET record == Records(mode)
           IN  /\ Rank(record, f, s) = Rank(record, NoFilter, s)
               /\ Rank(record, f, s) \in Nat
               /\ Rank(record, f, s) # 0 /\ Rank(record, f, t) > Rank(record, f, s)
                  => ~ Exceeds(record[t].value, record[s].value) /\ Ahead(record, s, t)
               /\ Rank(record, f, s) # 0 /\ Rank(record, f, t) = 0 => Ahead(record, s, t)
<1> DEFINE record == Records(mode)
           R == RankOrder(record)
           E == Eligible(record)
<1>1. E \in SUBSET shown /\ \A o \in shown : o \in E <=> record[o].eligible
  BY DEF Eligible, Records
<1>2. IsFiniteSet(E) /\ Orders(R, E)
  BY <1>1, RankedSources
<1>3. [a \in E |-> Place(R, E, a)] \in Bijection(E, 0 .. Cardinality(E) - 1)
      /\ \A a, b \in E : <<a, b>> \in R <=> Place(R, E, a) < Place(R, E, b)
  BY <1>2, Places
<1>4. \A a \in E : Place(R, E, a) \in Nat
  <2>1. \A a \in E : Place(R, E, a) \in 0 .. Cardinality(E) - 1
    <3> HIDE DEF R, E
    <3> QED
      BY <1>3 DEF Bijection, Injection, IsInjective, Surjection
  <2> QED
    BY <2>1
<1>5. \A g : \A o \in shown : Rank(record, g, o) = IF o \in E THEN 1 + Place(R, E, o) ELSE 0
  BY <1>1, RankIsPlace
<1>6. \A a, b \in E : <<a, b>> \in R <=> Ahead(record, a, b)
  BY <1>1 DEF RankOrder, TypeOK
<1>7. /\ record[s] \in RecordType(mode) /\ record[t] \in RecordType(mode)
  BY RankedSources
<1> HIDE DEF record, R, E
<1>8. /\ Rank(record, f, s) = Rank(record, NoFilter, s)
      /\ Rank(record, f, s) \in Nat
  BY <1>4, <1>5
<1>9. ASSUME Rank(record, f, s) # 0, Rank(record, f, t) > Rank(record, f, s)
      PROVE  ~ Exceeds(record[t].value, record[s].value) /\ Ahead(record, s, t)
  <2>1. s \in E /\ t \in E /\ Place(R, E, s) < Place(R, E, t)
    BY <1>4, <1>5, <1>9
  <2>2. Ahead(record, s, t) /\ record[s].eligible /\ record[t].eligible
    BY <1>1, <1>3, <1>6, <2>1
  <2>3. ~ (Exceeds(record[s].value, record[t].value) /\ Exceeds(record[t].value, record[s].value))
    <3> DEFINE v == record[s].value
               w == record[t].value
    <3>1. v.num * w.den \in Int /\ w.num * v.den \in Int
      BY <1>7, RecordKinds
    <3> HIDE DEF v, w
    <3>2. ~ (Exceeds(v, w) /\ Exceeds(w, v))
      BY <3>1 DEF Exceeds
    <3> QED
      BY <3>2 DEF v, w
  <2> QED
    BY <2>2, <2>3, AheadUnfolds
<1>10. ASSUME Rank(record, f, s) # 0, Rank(record, f, t) = 0
       PROVE  Ahead(record, s, t)
  <2>1. s \in E /\ t \notin E
    BY <1>4, <1>5, <1>10
  <2> QED
    BY <1>1, <2>1, AheadUnfolds
<1> QED
  BY <1>8, <1>9, <1>10 DEF record

(* Among those that match, what is ahead has the smaller index.             *)
LEMMA IndexFollowsOrder ==
    ASSUME TypeOK, NEW mode \in Mode, NEW f, NEW s \in Matching(f), NEW t \in Matching(f),
           Ahead(Records(mode), s, t)
    PROVE  Index(Records(mode), f, s) < Index(Records(mode), f, t)
<1>1. Matching(f) \in SUBSET shown
  BY DEF Matching
<1>2. /\ IsFiniteSet(Matching(f)) /\ Matching(f) \subseteq Source
      /\ Orders(RankOrder(Records(mode)), Matching(f))
  BY <1>1, RankedSources
<1>3. <<s, t>> \in RankOrder(Records(mode))
  BY <1>2 DEF RankOrder
<1>4. Place(RankOrder(Records(mode)), Matching(f), s) < Place(RankOrder(Records(mode)), Matching(f), t)
  BY <1>2, <1>3, EarlierPlace
<1> QED
  BY <1>1, <1>4, RankIsPlace

(* Ranks are given out in the whole catalog, without gaps or ties, and a    *)
(* filter takes them along in their order.                                  *)
THEOREM RanksOfCatalog == Spec => []RanksAreGlobal
<1>1. ASSUME TypeOK PROVE RanksAreGlobal
  <2>1. SUFFICES ASSUME NEW mode \in Mode
        PROVE  LET Answer(f) == Ranking(mode, f, Cardinality(Source), 0).items
                   all == Answer(NoFilter)
                   ranked == {i \in all : i.rank # 0}
               IN  /\ {i.rank : i \in ranked} = 1 .. Cardinality(ranked)
                   /\ \A i, j \in ranked :
                       i.rank < j.rank => ~ Exceeds(j.record.value, i.record.value)
                   /\ \A f \in Filters :
                       LET items == Answer(f)
                       IN  /\ \A i \in items : \E j \in all :
                               i.source = j.source /\ i.rank = j.rank
                           /\ \A i, j \in items :
                               /\ i.rank # 0 /\ j.rank = 0 => i.index < j.index
                               /\ i.rank # 0 /\ j.rank > i.rank => i.index < j.index
    BY DEF RanksAreGlobal
  <2> DEFINE Answer(f) == Ranking(mode, f, Cardinality(Source), 0).items
             all == Answer(NoFilter)
             ranked == {i \in all : i.rank # 0}
             record == Records(mode)
             item(f, s) == [source |-> s, rank |-> Rank(record, f, s),
                            index |-> Index(record, f, s), record |-> record[s]]
  <2>2. {i.rank : i \in ranked} = 1 .. Cardinality(ranked)
    BY <1>1, RanksAreDense
  <2>3. \A f : Answer(f) = {item(f, s) : s \in Matching(f)}
    BY <1>1, WholeRanking
  <2>4. \A f : Matching(f) \subseteq shown
    BY DEF Matching
  <2>5. Matching(NoFilter) = shown
    BY <1>1 DEF Matching, Matches, NoFilter, TypeOK
  <2>6. \A f : \A s, t \in shown :
          /\ Rank(record, f, s) = Rank(record, NoFilter, s)
          /\ Rank(record, f, s) \in Nat
          /\ Rank(record, f, s) # 0 /\ Rank(record, f, t) > Rank(record, f, s)
             => ~ Exceeds(record[t].value, record[s].value) /\ Ahead(record, s, t)
          /\ Rank(record, f, s) # 0 /\ Rank(record, f, t) = 0 => Ahead(record, s, t)
    BY <1>1, RanksFollowOrder
  <2>7. \A f : \A s, t \in Matching(f) :
          Ahead(record, s, t) => Index(record, f, s) < Index(record, f, t)
    BY <1>1, IndexFollowsOrder
  <2> HIDE DEF Answer, record
  <2>8. \A i, j \in ranked : i.rank < j.rank => ~ Exceeds(j.record.value, i.record.value)
    <3>1. SUFFICES ASSUME NEW i \in ranked, NEW j \in ranked, i.rank < j.rank
                   PROVE  ~ Exceeds(j.record.value, i.record.value)
      OBVIOUS
    <3>2. PICK s \in shown : i = item(NoFilter, s)
      BY <2>3, <2>5
    <3>3. PICK t \in shown : j = item(NoFilter, t)
      BY <2>3, <2>5
    <3>4. Rank(record, NoFilter, s) # 0 /\ Rank(record, NoFilter, t) > Rank(record, NoFilter, s)
      BY <2>6, <3>1, <3>2, <3>3
    <3>5. ~ Exceeds(record[t].value, record[s].value)
      BY <2>6, <3>4
    <3> QED
      BY <3>2, <3>3, <3>5
  <2>9. ASSUME NEW f \in Filters
        PROVE  LET items == Answer(f)
               IN  /\ \A i \in items : \E j \in all :
                       i.source = j.source /\ i.rank = j.rank
                   /\ \A i, j \in items :
                       /\ i.rank # 0 /\ j.rank = 0 => i.index < j.index
                       /\ i.rank # 0 /\ j.rank > i.rank => i.index < j.index
    <3>1. ASSUME NEW i \in Answer(f)
          PROVE  \E j \in all : i.source = j.source /\ i.rank = j.rank
      <4>1. PICK s \in Matching(f) : i = item(f, s)
        BY <2>3
      <4>2. s \in shown /\ item(NoFilter, s) \in all
        BY <2>3, <2>4, <2>5
      <4>3. Rank(record, f, s) = Rank(record, NoFilter, s)
        BY <2>6, <4>2
      <4>4. i.source = item(NoFilter, s).source /\ i.rank = item(NoFilter, s).rank
        BY <4>1, <4>3
      <4> QED
        BY <4>2, <4>4
    <3>2. ASSUME NEW i \in Answer(f), NEW j \in Answer(f), i.rank # 0,
                 j.rank = 0 \/ j.rank > i.rank
          PROVE  i.index < j.index
      <4>1. PICK s \in Matching(f) : i = item(f, s)
        BY <2>3
      <4>2. PICK t \in Matching(f) : j = item(f, t)
        BY <2>3
      <4>3. /\ Rank(record, f, s) # 0
            /\ Rank(record, f, t) = 0 \/ Rank(record, f, t) > Rank(record, f, s)
        BY <3>2, <4>1, <4>2
      <4>4. Ahead(record, s, t)
        BY <2>4, <2>6, <4>3
      <4>5. Index(record, f, s) < Index(record, f, t)
        BY <2>7, <4>4
      <4> QED
        BY <4>1, <4>2, <4>5
    <3> QED
      BY <3>1, <3>2
  <2> QED
    BY <2>2, <2>8, <2>9 DEF Answer
<1> QED
  BY <1>1, TypeCorrectness, PTL

------------------------------------------------------------------------------
(* Pages.                                                                   *)

Offsets == {o \in 0 .. Cardinality(Source) : o % PageLimit = 0}

(* Every place is on a page.                                                *)
LEMMA PageStart ==
    ASSUME NEW p \in Nat, NEW l \in Nat \ {0}
    PROVE  \E o \in Nat : o % l = 0 /\ o <= p /\ p \in o .. o + l - 1
<1>1. \A q \in Nat : (l * q) % l = 0 /\ l * q \in Nat
  OBVIOUS
<1>2. p = l * (p \div l) + (p % l) /\ p \div l \in Nat /\ p % l \in 0 .. l - 1
  OBVIOUS
<1>3. PICK q \in Nat, r \in 0 .. l - 1 : p = l * q + r
  BY <1>2
<1> DEFINE o == l * q
<1>4. o \in Nat /\ o % l = 0 /\ p = o + r
  BY <1>1, <1>3
<1> HIDE DEF o
<1>5. o <= p /\ p \in o .. o + l - 1
  BY <1>4
<1> QED
  BY <1>4, <1>5

(* Pages taken by place hold every element once, and are full but the last. *)
LEMMA PagesByPlace ==
    ASSUME NEW S \in SUBSET Source, NEW R, Orders(R, S),
           NEW pages, \A o \in Offsets :
               pages[o] = {a \in S : Place(R, S, a) \in o .. o + PageLimit - 1}
    PROVE  /\ UNION {pages[o] : o \in Offsets} = S
           /\ \A o \in Offsets :
               Cardinality(pages[o]) =
                   IF o >= Cardinality(S) THEN 0
                   ELSE IF Cardinality(S) - o < PageLimit THEN Cardinality(S) - o ELSE PageLimit
<1>1. IsFiniteSet(Source) /\ PageLimit \in Nat \ {0}
  BY CatalogAssumption
<1>2. IsFiniteSet(S) /\ Cardinality(S) <= Cardinality(Source)
  BY <1>1, FS_Subset
<1>3. Cardinality(S) \in Nat /\ Cardinality(Source) \in Nat
  BY <1>1, <1>2, FS_CardinalityType
<1>4. \A o \in Offsets : o \in Nat
  BY DEF Offsets
<1>5. \A o \in Offsets :
        Cardinality(pages[o]) =
            IF o >= Cardinality(S) THEN 0
            ELSE IF Cardinality(S) - o < PageLimit THEN Cardinality(S) - o ELSE PageLimit
  <2>1. SUFFICES ASSUME NEW o \in Offsets
        PROVE  Cardinality(pages[o]) =
                   IF o >= Cardinality(S) THEN 0
                   ELSE IF Cardinality(S) - o < PageLimit THEN Cardinality(S) - o ELSE PageLimit
    OBVIOUS
  <2>2. Cardinality({a \in S : Place(R, S, a) \in o .. o + PageLimit - 1}) =
            IF o >= Cardinality(S) THEN 0
            ELSE IF Cardinality(S) - o < PageLimit THEN Cardinality(S) - o ELSE PageLimit
    BY <1>1, <1>2, <1>4, PageSize
  <2>3. pages[o] = {a \in S : Place(R, S, a) \in o .. o + PageLimit - 1}
    OBVIOUS
  <2> HIDE DEF Offsets
  <2> QED
    BY <2>2, <2>3, Zenon
<1>6. \A a \in S : Place(R, S, a) \in 0 .. Cardinality(S) - 1
  <2> DEFINE N == Cardinality(S)
  <2>1. [a \in S |-> Place(R, S, a)] \in Bijection(S, 0 .. N - 1)
    BY <1>2, Places
  <2> HIDE DEF N
  <2>2. \A a \in S : Place(R, S, a) \in 0 .. N - 1
    BY <2>1 DEF Bijection, Injection, IsInjective, Surjection
  <2> QED
    BY <2>2 DEF N
<1>7. ASSUME NEW a \in S PROVE \E o \in Offsets : a \in pages[o]
  <2>1. Place(R, S, a) \in Nat /\ Place(R, S, a) < Cardinality(Source)
    BY <1>2, <1>3, <1>6
  <2>2. PICK o \in Nat :
          /\ o % PageLimit = 0 /\ o <= Place(R, S, a)
          /\ Place(R, S, a) \in o .. o + PageLimit - 1
    BY <1>1, <2>1, PageStart
  <2>3. o \in Offsets
    BY <1>3, <2>1, <2>2 DEF Offsets
  <2> QED
    BY <2>2, <2>3
<1>8. \A o \in Offsets : pages[o] \subseteq S
  OBVIOUS
<1>9. UNION {pages[o] : o \in Offsets} = S
  BY <1>7, <1>8
<1> QED
  BY <1>5, <1>9

(* The list, with and without a filter, is paged by name.                   *)
LEMMA ListIsPaged ==
    ASSUME TypeOK, NEW f, NEW o \in Offsets
    PROVE  {i.source : i \in ListBoorus(f, PageLimit, o)} =
             {s \in Matching(f) : Place(NameOrder, Matching(f), s) \in o .. o + PageLimit - 1}
<1> DEFINE listed == IF Active(f) THEN Matching(f) ELSE shown
           index(s) == Cardinality({m \in listed : ByName(m, s)})
           page == {s \in listed : index(s) \in o .. o + PageLimit - 1}
<1>1. listed = Matching(f)
  BY DEF Active, Matching, Matches, TypeOK
<1>2. Matching(f) \subseteq Source
  BY DEF Matching, TypeOK
<1>3. ASSUME NEW s \in Matching(f) PROVE index(s) = Place(NameOrder, Matching(f), s)
  <2>1. {m \in Matching(f) : ByName(m, s)} = {m \in Matching(f) : <<m, s>> \in NameOrder}
    BY <1>2 DEF NameOrder
  <2> QED
    BY <1>1, <2>1 DEF Place
<1>4. ListBoorus(f, PageLimit, o) = {Booru(s, LatestRow(s)) : s \in page}
  BY DEF ListBoorus
<1>5. page = {s \in Matching(f) : Place(NameOrder, Matching(f), s) \in o .. o + PageLimit - 1}
  <2> HIDE DEF listed, index
  <2> QED
    BY <1>1, <1>3
<1>6. \A s \in page : Booru(s, LatestRow(s)).source = s
  BY DEF Booru
<1> HIDE DEF page
<1>7. {i.source : i \in ListBoorus(f, PageLimit, o)} = page
  BY <1>4, <1>6
<1> QED
  BY <1>5, <1>7

(* A ranking is paged by its own order.                                     *)
LEMMA RankingIsPaged ==
    ASSUME TypeOK, NEW f, NEW mode \in Mode, NEW o \in Offsets
    PROVE  LET R == RankOrder(Records(mode))
           IN  {i.source : i \in Ranking(mode, f, PageLimit, o).items} =
                 {s \in Matching(f) : Place(R, Matching(f), s) \in o .. o + PageLimit - 1}
<1> DEFINE record == Records(mode)
           page == {s \in Matching(f) : Index(record, f, s) \in o .. o + PageLimit - 1}
           item(s) == [source |-> s, rank |-> Rank(record, f, s),
                       index |-> Index(record, f, s), record |-> record[s]]
<1>1. Ranking(mode, f, PageLimit, o).items = {item(s) : s \in page}
  BY DEF Ranking
<1>2. Matching(f) \subseteq shown
  BY DEF Matching
<1>3. \A s \in Matching(f) : Index(record, f, s) = Place(RankOrder(record), Matching(f), s)
  BY <1>2, RankIsPlace
<1> HIDE DEF record
<1>4. page = {s \in Matching(f) :
                Place(RankOrder(record), Matching(f), s) \in o .. o + PageLimit - 1}
  BY <1>3
<1>5. \A s \in page : item(s).source = s
  OBVIOUS
<1> HIDE DEF page, item
<1>6. {i.source : i \in Ranking(mode, f, PageLimit, o).items} = page
  BY <1>1, <1>5
<1> QED
  BY <1>4, <1>6 DEF record

(* Pages of the list and of the rankings show each source that matches      *)
(* exactly once, and as many as were announced.                             *)
THEOREM PagesOfCatalog == Spec => []PagesAreComplete
<1>1. ASSUME TypeOK, NEW f \in Filters,
             NEW pages, NEW R, Orders(R, Matching(f)),
             \A o \in Offsets :
                 pages[o] = {s \in Matching(f) :
                               Place(R, Matching(f), s) \in o .. o + PageLimit - 1}
      PROVE  /\ UNION {pages[o] : o \in Offsets} = Matching(f)
             /\ \A o \in Offsets :
                 Cardinality(pages[o]) =
                     IF o >= Cardinality(Matching(f)) THEN 0
                     ELSE IF Cardinality(Matching(f)) - o < PageLimit
                     THEN Cardinality(Matching(f)) - o ELSE PageLimit
  <2> DEFINE S == Matching(f)
  <2>1. S \in SUBSET Source
    BY <1>1 DEF Matching, TypeOK
  <2>2. Orders(R, S)
    BY <1>1
  <2>3. \A o \in Offsets : pages[o] = {s \in S : Place(R, S, s) \in o .. o + PageLimit - 1}
    BY <1>1
  <2> HIDE DEF S
  <2>4. /\ UNION {pages[o] : o \in Offsets} = S
        /\ \A o \in Offsets :
            Cardinality(pages[o]) =
                IF o >= Cardinality(S) THEN 0
                ELSE IF Cardinality(S) - o < PageLimit THEN Cardinality(S) - o ELSE PageLimit
    BY <2>1, <2>2, <2>3, PagesByPlace
  <2> QED
    BY <2>4 DEF S
<1>2. ASSUME TypeOK PROVE PagesAreComplete
  <2> DEFINE Complete(f, pages, total) ==
                 /\ UNION {pages[o] : o \in Offsets} = Matching(f)
                 /\ \A o \in Offsets :
                     Cardinality(pages[o]) =
                         IF o >= total THEN 0
                         ELSE IF total - o < PageLimit THEN total - o ELSE PageLimit
             Listed(f) ==
                 [o \in Offsets |-> {i.source : i \in ListBoorus(f, PageLimit, o)}]
             Ranked(f, mode) ==
                 [o \in Offsets |-> {i.source : i \in Ranking(mode, f, PageLimit, o).items}]
  <2>1. ASSUME NEW f \in Filters PROVE Complete(f, Listed(f), Cardinality(Matching(f)))
    <3>1. Orders(NameOrder, Matching(f))
      BY <1>2, NamesOrder DEF Matching, TypeOK
    <3>2. \A o \in Offsets :
            Listed(f)[o] = {s \in Matching(f) :
                              Place(NameOrder, Matching(f), s) \in o .. o + PageLimit - 1}
      BY <1>2, ListIsPaged
    <3> HIDE DEF Listed
    <3> QED
      BY <1>1, <1>2, <3>1, <3>2
  <2>2. ASSUME NEW f \in Filters, NEW mode \in Mode
        PROVE  Complete(f, Ranked(f, mode), Ranking(mode, f, PageLimit, 0).total)
    <3> DEFINE R == RankOrder(Records(mode))
    <3>1. Orders(R, Matching(f))
      BY <1>2, RankedSources DEF Matching
    <3>2. \A o \in Offsets :
            Ranked(f, mode)[o] = {s \in Matching(f) :
                                    Place(R, Matching(f), s) \in o .. o + PageLimit - 1}
      BY <1>2, RankingIsPaged
    <3>3. Ranking(mode, f, PageLimit, 0).total = Cardinality(Matching(f))
      BY DEF Ranking
    <3> HIDE DEF Ranked, R
    <3> QED
      BY <1>1, <1>2, <3>1, <3>2, <3>3
  <2> QED
    BY <2>1, <2>2 DEF PagesAreComplete, Offsets
<1> QED
  BY <1>2, TypeCorrectness, PTL

==============================================================================
