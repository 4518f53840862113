---------------------------- MODULE MaxBuyProofs ----------------------------
(***************************************************************************)
(* The search for the largest purchase gives the right answer for every    *)
(* pair, every limit and every tax that leaves more than one unit of it.   *)
(***************************************************************************)
EXTENDS MaxBuy, WellFoundedInduction, TLAPS

-----------------------------------------------------------------------------
(* The points that cut the interval.                                       *)

Length == upper - lower

(* Two neighbours are a fifteenth apart, the first of them as any other.   *)
LEMMA PointFacts ==
  ASSUME lower \in Nat, upper \in Nat, lower <= upper
  PROVE  /\ \A i \in 0 .. Parts : Point(i) \in lower .. upper
         /\ Point(0) = lower /\ Point(Parts) = upper
         /\ \A i \in 0 .. Parts - 1 :
              /\ Point(i) <= Point(i + 1)
              /\ Point(i) + Length \div 15 <= Point(i + 1)
              /\ Point(i + 1) <= Point(i) + Length \div 15 + 1
              /\ Length < 15 => Point(i + 1) <= Point(i) + 1
              /\ Point(i + 1) - lower <= (Point(i) - lower) + (Point(1) - lower) + 1
         /\ \A i \in 1 .. Parts : Point(1) <= Point(i)
         /\ Point(1) = lower + Length \div 15
         /\ Point((Parts + 1) \div 3) = lower + Length \div 3
<1> DEFINE G(i) == (Length * i) \div 15
<1>1. Length \in Nat
  BY DEF Length
<1>2. \A i : Point(i) = lower + G(i)
  BY DEF Point, Length, Parts
<1>3. \A i \in 0 .. 15 : Length * i \in Nat /\ Length * i <= Length * 15
  BY <1>1
<1>4. \A i \in 0 .. 14 : Length * (i + 1) = Length * i + Length
  BY <1>1
<1>5. \A i \in 1 .. 15 : Length <= Length * i
  BY <1>1
<1>6. \A a \in Nat : (a + Length) \div 15 \in Nat
                     /\ a \div 15 <= (a + Length) \div 15
                     /\ a \div 15 + Length \div 15 <= (a + Length) \div 15
                     /\ (a + Length) \div 15 <= a \div 15 + Length \div 15 + 1
                     /\ (Length < 15 => (a + Length) \div 15 <= a \div 15 + 1)
  BY <1>1
<1>7. G(0) = 0 /\ G(15) = Length /\ G(1) = Length \div 15 /\ G(5) = Length \div 3
  BY <1>1
<1>8. \A i \in 0 .. 15 : G(i) \in 0 .. Length
  BY <1>1, <1>3
<1>9. \A i \in 1 .. 15 : G(1) <= G(i)
  BY <1>1, <1>3, <1>5
<1>10. \A i \in 0 .. 14 :
         /\ G(i) <= G(i + 1)
         /\ G(i) + Length \div 15 <= G(i + 1)
         /\ G(i + 1) <= G(i) + Length \div 15 + 1
         /\ Length < 15 => G(i + 1) <= G(i) + 1
  BY <1>3, <1>4, <1>6
<1> HIDE DEF G
<1>11. Parts = 15 /\ (Parts + 1) \div 3 = 5
  BY DEF Parts
<1>12. lower \in Int /\ upper = lower + Length /\ 0 \in 0 .. 15
  BY DEF Length
<1>13. \A i \in 0 .. 15 : Point(i) \in lower .. upper
  BY <1>1, <1>2, <1>8, <1>12
<1>14. Point(0) = lower /\ Point(15) = upper
  BY <1>2, <1>7, <1>12
<1>15. Point(1) = lower + Length \div 15 /\ Point(5) = lower + Length \div 3
  BY <1>2, <1>7
<1>16. \A i \in 1 .. 15 : Point(1) <= Point(i)
  <2> SUFFICES ASSUME NEW i \in 1 .. 15 PROVE Point(1) <= Point(i)
    OBVIOUS
  <2>1. G(1) \in Nat /\ G(i) \in Nat /\ G(1) <= G(i)
    BY <1>1, <1>8, <1>9
  <2> QED BY <1>2, <1>12, <2>1
<1>17. \A i \in 0 .. 14 :
         /\ Point(i) <= Point(i + 1)
         /\ Point(i) + Length \div 15 <= Point(i + 1)
         /\ Point(i + 1) <= Point(i) + Length \div 15 + 1
         /\ Length < 15 => Point(i + 1) <= Point(i) + 1
         /\ Point(i + 1) - lower <= (Point(i) - lower) + (Point(1) - lower) + 1
  <2> SUFFICES ASSUME NEW i \in 0 .. 14
               PROVE  /\ Point(i) <= Point(i + 1)
                      /\ Point(i) + Length \div 15 <= Point(i + 1)
                      /\ Point(i + 1) <= Point(i) + Length \div 15 + 1
                      /\ Length < 15 => Point(i + 1) <= Point(i) + 1
                      /\ Point(i + 1) - lower <= (Point(i) - lower) + (Point(1) - lower) + 1
    OBVIOUS
  <2>1. G(i) \in Nat /\ G(i + 1) \in Nat /\ G(1) = Length \div 15 /\ G(1) \in Nat
    BY <1>1, <1>7, <1>8
  <2>2. /\ G(i) <= G(i + 1)
        /\ G(i) + G(1) <= G(i + 1)
        /\ G(i + 1) <= G(i) + G(1) + 1
        /\ Length < 15 => G(i + 1) <= G(i) + 1
    BY <1>7, <1>10
  <2>3. /\ Point(i) = lower + G(i) /\ Point(i + 1) = lower + G(i + 1)
        /\ Point(1) = lower + G(1)
    BY <1>2
  <2> QED BY <1>12, <2>1, <2>2, <2>3
<1> QED BY <1>11, <1>13, <1>14, <1>15, <1>16, <1>17

(* Some point is the last one below an amount that the interval reaches.   *)
LEMMA LastPoint ==
  ASSUME lower \in Nat, upper \in Nat, lower <= upper, NEW amount \in Nat, lower <= amount
  PROVE  \E i \in 0 .. Parts :
           Point(i) <= amount /\ (i < Parts => Point(i + 1) > amount)
<1> DEFINE Above == { i \in 0 .. Parts : Point(i) > amount }
<1>1. Parts = 15 /\ Point(0) = lower /\ \A i \in 0 .. Parts : Point(i) \in Nat
  <2>1. Point(0) = lower /\ \A i \in 0 .. Parts : Point(i) \in lower .. upper
    BY PointFacts
  <2> QED BY <2>1 DEF Parts
<1>2. CASE Above = {}
  <2>1. Point(15) <= amount
    BY <1>1, <1>2
  <2> QED BY <1>1, <2>1
<1>3. CASE Above # {}
  <2>1. Above \in SUBSET Nat
    OBVIOUS
  <2>2. PICK m \in Above : \A n \in Above : ~ (<< n, m >> \in OpToRel(<, Nat))
    BY <1>3, <2>1, NatLessThanWellFounded, WFMin
  <2>3. \A n \in Above : ~ (n < m)
    BY <2>1, <2>2 DEF OpToRel
  <2>4. m \in 1 .. 15 /\ m - 1 \in 0 .. 14 /\ (m - 1) + 1 = m
    <3>1. m \in 0 .. 15 /\ Point(m) > amount
      BY <1>1, <2>2
    <3>2. m # 0
      BY <1>1, <3>1
    <3> QED BY <3>1, <3>2
  <2>5. PICK k \in 0 .. 14 : k = m - 1 /\ k + 1 = m
    BY <2>4
  <2>6. Point(k) <= amount
    BY <1>1, <2>3, <2>4, <2>5
  <2>7. Point(k + 1) = Point(m) /\ Point(m) > amount
    BY <2>2, <2>5
  <2>8. Point(k + 1) > amount
    BY <2>7
  <2> QED BY <1>1, <2>6, <2>8
<1> QED BY <1>2, <1>3

-----------------------------------------------------------------------------
(* What a purchase returns.                                                *)

(* Tokens that are left of an amount.                                      *)
Left(amount) == (amount * (100 - token.tax)) \div 100

(* The tax keeps the order of amounts, and of an amount that leaves more   *)
(* than one unit it leaves something of the half.                          *)
LEMMA TaxFacts ==
  ASSUME token \in Markets
  PROVE  /\ token.balance \in Nat /\ token.limit \in Nat
         /\ 100 - token.tax \in 1 .. 100
         /\ \A x \in Nat : Left(x) \in Nat
         /\ \A x, y \in Nat : x <= y => Left(x) <= Left(y)
         /\ \A x, y \in Nat : y <= 2 * x /\ Left(y) > 1 => Left(x) > 0
<1>1. token.balance \in Nat /\ token.limit \in Nat /\ 100 - token.tax \in 1 .. 100
  BY MaxBuyAssumption
<1> DEFINE c == 100 - token.tax
<1> HIDE DEF c
<1>2. c \in 1 .. 100
  BY <1>1 DEF c
<1>3. \A x \in Nat : x * c \in Nat /\ Left(x) = (x * c) \div 100
  BY <1>2 DEF Left, c
<1>4. \A a \in Nat : a \div 100 \in Nat
  OBVIOUS
<1>5. \A x, y \in Nat : x <= y => Left(x) <= Left(y)
  <2> SUFFICES ASSUME NEW x \in Nat, NEW y \in Nat, x <= y PROVE Left(x) <= Left(y)
    OBVIOUS
  <2>1. x * c <= y * c
    BY <1>2
  <2> QED BY <1>3, <2>1
<1>6. \A x, y \in Nat : y <= 2 * x /\ Left(y) > 1 => Left(x) > 0
  <2> SUFFICES ASSUME NEW x \in Nat, NEW y \in Nat, y <= 2 * x, Left(y) > 1
               PROVE  Left(x) > 0
    OBVIOUS
  <2>1. y * c <= 2 * (x * c)
    BY <1>2
  <2>2. y * c >= 200
    BY <1>3
  <2>3. x * c >= 100
    BY <1>3, <2>1, <2>2
  <2> QED BY <1>3, <2>3
<1> QED BY <1>1, <1>3, <1>4, <1>5, <1>6

(* A token whose largest purchase leaves more than one unit.               *)
Worth == token.balance > 0 /\ Left(Largest) > 1

(* Up to the largest purchase the buyer gets what the tax leaves, above it *)
(* nothing.                                                                *)
LEMMA BoughtFacts ==
  ASSUME token \in Markets, provider = "up", Worth
  PROVE  /\ Largest \in 2 .. token.balance - 1
         /\ \A x \in 1 .. Largest : Bought(x) = Left(x)
         /\ \A x \in Nat : Bought(x) > 0 => x \in 1 .. Largest
         /\ \A x \in Nat : Bought(x) \in Nat
<1>1. /\ token.balance \in Nat \ {0} /\ token.limit \in Nat
      /\ 100 - token.tax \in 1 .. 100
      /\ \A x \in Nat : Left(x) \in Nat
  BY TaxFacts DEF Worth
<1>2. /\ Largest \in Nat /\ Largest <= token.limit /\ Largest <= token.balance - 1
      /\ Largest = token.limit \/ Largest = token.balance - 1
  BY <1>1 DEF Largest
<1>3. Largest >= 2
  <2> DEFINE c == 100 - token.tax
  <2>1. c \in 1 .. 100 /\ Left(0) = (0 * c) \div 100 /\ Left(1) = (1 * c) \div 100
    BY <1>1 DEF Left
  <2> HIDE DEF c
  <2>2. (0 * c) \div 100 <= 1 /\ (1 * c) \div 100 <= 1
    BY <2>1
  <2>3. Largest # 0 /\ Largest # 1
    BY <2>1, <2>2 DEF Worth
  <2> QED BY <1>2, <2>3
<1>4. \A x \in Nat : Bought(x) = IF x \in 1 .. Largest THEN Left(x) ELSE 0
  <2> SUFFICES ASSUME NEW x \in Nat
               PROVE  Bought(x) = IF x \in 1 .. Largest THEN Left(x) ELSE 0
    OBVIOUS
  <2>1. x \in 1 .. Largest <=> (x \in 1 .. token.limit /\ x < token.balance)
    BY <1>1, <1>2
  <2> QED BY <2>1 DEF Bought, Left
<1> QED BY <1>1, <1>2, <1>3, <1>4

-----------------------------------------------------------------------------
(* One round.                                                              *)

(* The last point that can be bought lies above half of the largest        *)
(* purchase, if the points lie close enough; it leaves something then.     *)
LEMMA PurchaseIsSeen ==
  ASSUME token \in Markets, provider = "up", Worth,
         lower \in Nat, upper \in Nat, lower <= Largest, Largest <= upper,
         \/ Length <= 2 * Largest + 1
         \/ lower = 0 /\ Point(1) <= Largest
  PROVE  \E i \in 0 .. Parts : Bought(Point(i)) > 0
<1>1. /\ Largest \in Nat /\ Largest >= 2 /\ Left(Largest) > 1
      /\ \A x \in 1 .. Largest : Bought(x) = Left(x)
      /\ lower <= upper /\ Parts = 15 /\ Length \in Nat
  <2>1. token.balance \in Nat
    BY TaxFacts
  <2> QED BY <2>1, BoughtFacts DEF Worth, Parts, Length
<1>2. PICK i \in 0 .. 15 : Point(i) <= Largest /\ (i < 15 => Point(i + 1) > Largest)
  BY <1>1, LastPoint
<1>3. Point(i) \in Nat /\ Point(i) \in lower .. upper
  <2>1. \A j \in 0 .. 15 : Point(j) \in lower .. upper
    BY <1>1, PointFacts
  <2> QED BY <2>1
<1>4. Largest <= 2 * Point(i)
  <2>1. CASE i = 15
    <3>1. Point(15) = upper
      BY <1>1, PointFacts
    <3> QED BY <1>1, <1>2, <1>3, <2>1, <3>1
  <2>2. CASE i \in 0 .. 14 /\ Length <= 2 * Largest + 1
    <3>1. Point(i + 1) > Largest /\ Point(i + 1) <= Point(i) + Length \div 15 + 1
      BY <1>1, <1>2, <2>2, PointFacts
    <3>2. Point(i + 1) \in Nat
      <4>1. i + 1 \in 0 .. Parts
        BY <1>1, <2>2
      <4> QED BY <1>1, <4>1, PointFacts
    <3>3. 15 * (Length \div 15) <= Length
      BY <1>1
    <3> QED BY <1>1, <1>3, <2>2, <3>1, <3>2, <3>3
  <2>3. CASE i \in 0 .. 14 /\ lower = 0 /\ Point(1) <= Largest
    <3>1. Point(i + 1) > Largest /\ Point(i + 1) - 0 <= (Point(i) - 0) + (Point(1) - 0) + 1
      BY <1>1, <1>2, <2>3, PointFacts
    <3>2. i # 0
      <4>1. ASSUME i = 0 PROVE Point(1) > Largest
        <5>1. i + 1 = 1
          BY <4>1
        <5> QED BY <3>1, <5>1
      <4>2. Point(1) \in Nat
        BY <1>1, PointFacts
      <4> QED BY <1>1, <2>3, <4>1, <4>2
    <3>3. Point(1) <= Point(i) /\ Point(1) \in Nat
      BY <1>1, <2>3, <3>2, PointFacts
    <3>4. Point(i + 1) \in Nat
      <4>1. i + 1 \in 0 .. Parts
        BY <1>1, <2>3
      <4> QED BY <1>1, <4>1, PointFacts
    <3> QED BY <1>1, <1>3, <3>1, <3>3, <3>4
  <2> QED BY <2>1, <2>2, <2>3
<1>5. Left(Point(i)) > 0 /\ Point(i) \in 1 .. Largest
  BY <1>1, <1>2, <1>3, <1>4, TaxFacts
<1> QED BY <1>1, <1>5

NextLower(i) == IF i = 0 THEN lower ELSE LeftIntervalLower(i)
NextUpper(i) == IF i = Parts THEN upper ELSE RightIntervalUpper(i)

(* The best point is the last one that can be bought, and the interval     *)
(* next to it still reaches from there to the largest purchase.            *)
LEMMA BestIsLast ==
  ASSUME token \in Markets, provider = "up", Worth,
         lower \in Nat, upper \in Nat, lower <= upper, Largest <= upper,
         NEW i \in 0 .. Parts, IsBest(i)
  PROVE  /\ Point(i) \in 1 .. Largest
         /\ NextLower(i) \in Nat /\ NextUpper(i) \in Nat
         /\ Largest <= NextUpper(i)
         /\ NextLower(i) <= Point(i) + 1
         /\ NextLower(i) <= Largest \/ NextLower(i) > NextUpper(i)
         /\ NextUpper(i) - NextLower(i) <= Length
         /\ lower = 0 => NextUpper(i) - NextLower(i) <= 2 * Largest + 1
<1>1. /\ Largest \in Nat /\ Parts = 15 /\ Length \in Nat /\ upper = lower + Length
      /\ \A x \in Nat : Bought(x) > 0 => x \in 1 .. Largest
      /\ \A x \in 1 .. Largest : Bought(x) = Left(x)
      /\ \A x, y \in Nat : x <= y => Left(x) <= Left(y)
      /\ \A x \in Nat : Left(x) \in Nat
  <2>1. token.balance \in Nat
    BY TaxFacts
  <2> QED BY <2>1, BoughtFacts, TaxFacts DEF Parts, Length
<1>2. /\ \A j \in 0 .. 15 : Point(j) \in Nat /\ lower <= Point(j) /\ Point(j) <= upper
      /\ Point(0) = lower /\ Point(15) = upper
  <2>1. /\ \A j \in 0 .. 15 : Point(j) \in lower .. upper
        /\ Point(0) = lower /\ Point(15) = upper
    BY <1>1, PointFacts
  <2>2. \A x \in lower .. upper : x \in Nat /\ lower <= x /\ x <= upper
    OBVIOUS
  <2> QED BY <2>1, <2>2
<1>3. Point(i) \in 1 .. Largest
  BY <1>1, <1>2 DEF IsBest
<1>4. ASSUME i < 15 PROVE Point(i + 1) > Largest /\ i + 1 \in 1 .. 15
  <2>1. i + 1 \in i + 1 .. 15 /\ i + 1 \in 0 .. 15 /\ i + 1 \in 1 .. 15 /\ i \in 0 .. 14
    BY <1>1, <1>4
  <2>2. Bought(Point(i + 1)) < Bought(Point(i))
    BY <1>1, <2>1 DEF IsBest
  <2>3. Point(i + 1) \in Nat /\ Point(i) \in Nat /\ Point(i) <= Point(i + 1)
    <3>1. \A j \in 0 .. 14 : Point(j) <= Point(j + 1)
      <4>1. Parts - 1 = 14
        BY DEF Parts
      <4> QED BY <4>1, PointFacts
    <3>2. Point(i) <= Point(i + 1)
      BY <2>1, <3>1
    <3> QED BY <1>2, <2>1, <3>2
  <2>4. ASSUME Point(i + 1) <= Largest PROVE FALSE
    <3>1. Point(i + 1) \in 1 .. Largest
      BY <1>3, <2>3, <2>4
    <3>2. Bought(Point(i)) = Left(Point(i)) /\ Bought(Point(i + 1)) = Left(Point(i + 1))
      BY <1>1, <1>3, <3>1
    <3> QED BY <1>1, <2>2, <2>3, <3>2
  <2> QED BY <1>1, <2>1, <2>3, <2>4
<1>5. ASSUME i # 0
      PROVE  \E k \in 0 .. 14 : k + 1 = i /\ k = i - 1 /\ Point(i - 1) = Point(k)
                                /\ Point(i) = Point(k + 1)
  BY <1>1, <1>5
<1>9. /\ \A j \in 0 .. 14 :
           /\ Point(j) <= Point(j + 1)
           /\ Point(j) + Length \div 15 <= Point(j + 1)
           /\ Point(j + 1) <= Point(j) + Length \div 15 + 1
           /\ Point(j + 1) - lower <= (Point(j) - lower) + (Point(1) - lower) + 1
      /\ \A j \in 1 .. 15 : Point(1) <= Point(j)
  <2>1. Parts - 1 = 14
    BY DEF Parts
  <2> QED BY <1>1, <2>1, PointFacts
<1>6. CASE i = 0
  <2>1. NextLower(i) = lower /\ NextUpper(i) = Point(1) - 1 /\ Point(i) = lower
    BY <1>1, <1>2, <1>6 DEF NextLower, NextUpper, RightIntervalUpper
  <2>2. Point(1) > Largest /\ Point(1) \in Nat /\ Point(1) <= upper
    <3>1. i + 1 = 1 /\ i < 15
      BY <1>6
    <3> QED BY <1>2, <1>4, <3>1
  <2> QED BY <1>1, <1>3, <2>1, <2>2
<1>7. CASE i # 0 /\ i # 15
  <2>1. PICK k \in 0 .. 14 : k + 1 = i /\ Point(i - 1) = Point(k) /\ Point(i) = Point(k + 1)
    BY <1>5, <1>7
  <2>2. i < 15 /\ i \in 1 .. 15 /\ i \in 0 .. 14
    BY <1>1, <1>7
  <2>3. NextLower(i) = Point(k) + 1 /\ NextUpper(i) = Point(i + 1) - 1
    BY <1>1, <1>7, <2>1 DEF NextLower, NextUpper, RightIntervalUpper, LeftIntervalLower
  <2>4. /\ Point(i + 1) > Largest
        /\ Point(i + 1) \in Nat /\ Point(i + 1) <= upper
        /\ Point(k) \in Nat /\ lower <= Point(k)
        /\ Point(i) \in Nat
    BY <1>2, <1>4, <2>1, <2>2
  <2>5. /\ Point(i + 1) <= Point(i) + Length \div 15 + 1
        /\ Point(i + 1) - lower <= (Point(i) - lower) + (Point(1) - lower) + 1
    BY <1>9, <2>2
  <2>6. Point(k) <= Point(i) /\ Point(k) + Length \div 15 <= Point(i)
    BY <1>9, <2>1
  <2>7. Point(1) <= Point(i) /\ Point(1) \in Nat
    BY <1>2, <1>9, <2>2
  <2>8. Length \div 15 \in Nat
    BY <1>1
  <2>9. /\ NextLower(i) \in Nat /\ NextUpper(i) \in Nat
        /\ Largest <= NextUpper(i)
        /\ NextLower(i) <= Point(i) + 1
        /\ NextUpper(i) - NextLower(i) <= Length
    BY <1>1, <1>3, <2>3, <2>4, <2>6
  <2>10. NextLower(i) <= Largest \/ NextLower(i) > NextUpper(i)
    <3>1. CASE Point(k) < Point(i)
      BY <1>1, <1>3, <2>3, <2>4, <3>1
    <3>2. CASE Point(k) = Point(i)
      <4>1. Length \div 15 = 0
        BY <2>4, <2>6, <2>8, <3>2
      <4>2. Point(i + 1) <= Point(i) + 1
        BY <2>4, <2>5, <4>1
      <4> QED BY <2>3, <2>4, <3>2, <4>2
    <3> QED BY <2>4, <2>6, <3>1, <3>2
  <2>11. lower = 0 => NextUpper(i) - NextLower(i) <= 2 * Largest + 1
    BY <1>1, <1>3, <2>3, <2>4, <2>5, <2>7
  <2> QED BY <1>3, <2>9, <2>10, <2>11
<1>8. CASE i = 15
  <2>1. PICK k \in 0 .. 14 : k + 1 = i /\ Point(i - 1) = Point(k) /\ Point(i) = Point(k + 1)
    BY <1>5, <1>8
  <2>2. NextLower(i) = Point(k) + 1 /\ NextUpper(i) = Point(i) /\ upper = Point(i)
    BY <1>1, <1>2, <1>8, <2>1 DEF NextLower, NextUpper, LeftIntervalLower
  <2>3. Point(k) <= Point(i)
    BY <1>9, <2>1
  <2>4. Point(k) \in Nat /\ lower <= Point(k)
    BY <1>2, <2>1
  <2> QED BY <1>1, <1>3, <2>2, <2>3, <2>4
<1> QED BY <1>1, <1>6, <1>7, <1>8

-----------------------------------------------------------------------------
(* The inductive invariant: as long as nothing has been bought the interval *)
(* is zero and a third of the one before, and it always reaches the largest *)
(* purchase; once something has been bought, the rest of the interval lies  *)
(* next to the best purchase so far.                                        *)

(* What the balance has been divided by before each of the ten tries.      *)
Cuts == << 1, 3, 9, 27, 81, 243, 729, 2187, 6561, 19683 >>

Cut(r) == token.balance \div Cuts[r + 1]

Shrinking ==
  /\ round \in 0 .. 9
  /\ lower = 0
  /\ upper = Cut(round)
  /\ Largest <= upper

Narrowing ==
  /\ round \in Nat /\ round >= 1
  /\ lower \in Nat /\ upper \in Nat
  /\ highest \in 1 .. Largest
  /\ Largest <= upper
  /\ lower <= highest + 1
  /\ lower <= Largest \/ lower > upper
  /\ upper - lower <= 2 * Largest + 1

Right ==
  \/ max_tx = NoLimit /\ 10 * Largest >= 9 * token.balance
  \/ max_tx \in 1 .. Largest /\ Largest - max_tx <= Tolerance
  \/ max_tx = 0 /\ Largest <= token.balance \div 295245

MaxBuyInv ==
  /\ token \in Markets
  /\ provider = "up" /\ Worth =>
       \/ phase = "search" /\ Shrinking
       \/ phase = "search" /\ Narrowing
       \/ phase = "done" /\ Right

(* A third of one cut is the next one, none is below the tolerance, and a   *)
(* fifteenth of the last is the smallest amount ever tried.                 *)
LEMMA CutFacts ==
  ASSUME token.balance \in Nat, NEW r \in 0 .. 9
  PROVE  /\ Cut(r) \in Nat
         /\ (token.balance \div 2) \div 1000000 <= Cut(r)
         /\ r < 9 => Cut(r) \div 3 = Cut(r + 1)
         /\ r = 9 => Cut(r) \div 15 = token.balance \div 295245
<1> DEFINE b == token.balance
<1>0. b \in Nat /\ \A q : Cut(q) = b \div Cuts[q + 1]
  BY DEF Cut
<1> HIDE DEF b
<1>1. /\ Cuts[1] = 1 /\ Cuts[2] = 3 /\ Cuts[3] = 9 /\ Cuts[4] = 27 /\ Cuts[5] = 81
      /\ Cuts[6] = 243 /\ Cuts[7] = 729 /\ Cuts[8] = 2187 /\ Cuts[9] = 6561
      /\ Cuts[10] = 19683
  BY DEF Cuts
<1>2. (b \div 2) \div 1000000 = b \div 2000000
  BY <1>0
<1>3. CASE r = 0
  BY <1>0, <1>1, <1>2, <1>3 DEF b
<1>4. CASE r = 1
  BY <1>0, <1>1, <1>2, <1>4 DEF b
<1>5. CASE r = 2
  BY <1>0, <1>1, <1>2, <1>5 DEF b
<1>6. CASE r = 3
  BY <1>0, <1>1, <1>2, <1>6 DEF b
<1>7. CASE r = 4
  BY <1>0, <1>1, <1>2, <1>7 DEF b
<1>8. CASE r = 5
  BY <1>0, <1>1, <1>2, <1>8 DEF b
<1>9. CASE r = 6
  BY <1>0, <1>1, <1>2, <1>9 DEF b
<1>10. CASE r = 7
  BY <1>0, <1>1, <1>2, <1>10 DEF b
<1>11. CASE r = 8
  BY <1>0, <1>1, <1>2, <1>11 DEF b
<1>12. CASE r = 9
  BY <1>0, <1>1, <1>2, <1>12 DEF b
<1> QED
  BY <1>3, <1>4, <1>5, <1>6, <1>7, <1>8, <1>9, <1>10, <1>11, <1>12

(* What the steps need of the market.                                       *)
LEMMA MarketFacts ==
  ASSUME token \in Markets, provider = "up", Worth
  PROVE  /\ token.balance \in Nat \ {0}
         /\ Largest \in Nat /\ Largest >= 2 /\ Largest <= token.balance
         /\ Tolerance \in Nat
<1>1. token.balance \in Nat /\ Largest \in 2 .. token.balance - 1
  BY TaxFacts, BoughtFacts
<1> QED BY <1>1 DEF Worth, Tolerance, Base

-----------------------------------------------------------------------------
(* A round with a purchase, from either kind of interval.                  *)
LEMMA NarrowStep ==
  ASSUME token \in Markets, provider = "up", Worth, phase = "search",
         Shrinking \/ Narrowing, Narrow
  PROVE  phase' = "search" /\ Narrowing'
<1>1. /\ token' = token /\ phase' = phase /\ Largest' = Largest
      /\ Largest \in Nat /\ token.balance \in Nat
  BY MarketFacts DEF Narrow, Largest
<1>2. /\ round \in Nat /\ lower \in Nat /\ upper \in Nat /\ Largest <= upper
      /\ lower = 0 \/ Length <= 2 * Largest + 1
  <2>1. CASE Shrinking
    <3>1. upper \in Nat
      BY <1>1, <2>1, CutFacts DEF Shrinking
    <3> QED BY <2>1, <3>1 DEF Shrinking
  <2>2. CASE Narrowing
    BY <2>2 DEF Narrowing, Length
  <2> QED BY <2>1, <2>2
<1>3. lower <= upper /\ round' \in Nat /\ round' >= 1
  BY <1>2 DEF Narrow, NextRound, Terminates, MaxRounds, Tries
<1>4. PICK i \in 0 .. Parts :
        /\ IsBest(i) /\ highest' = Point(i)
        /\ lower' = NextLower(i) /\ upper' = NextUpper(i)
  BY DEF Narrow, NextLower, NextUpper
<1>5. /\ Point(i) \in 1 .. Largest
      /\ NextLower(i) \in Nat /\ NextUpper(i) \in Nat
      /\ Largest <= NextUpper(i)
      /\ NextLower(i) <= Point(i) + 1
      /\ NextLower(i) <= Largest \/ NextLower(i) > NextUpper(i)
      /\ NextUpper(i) - NextLower(i) <= Length
      /\ lower = 0 => NextUpper(i) - NextLower(i) <= 2 * Largest + 1
  BY <1>2, <1>3, <1>4, BestIsLast
<1>6. upper' - lower' <= 2 * Largest + 1
  BY <1>1, <1>2, <1>4, <1>5 DEF Length
<1> QED BY <1>1, <1>3, <1>4, <1>5, <1>6 DEF Narrowing

(* A round without a purchase: the smallest amount tried is too large, and *)
(* nothing has been bought in an earlier round.                            *)
LEMMA ShrinkStep ==
  ASSUME token \in Markets, provider = "up", Worth, phase = "search",
         Shrinking \/ Narrowing, Shrink
  PROVE  \/ phase' = "search" /\ Shrinking'
         \/ phase' = "done" /\ Right'
<1>1. /\ token' = token /\ Largest' = Largest /\ lower' = lower
      /\ Largest \in Nat /\ token.balance \in Nat
      /\ \A i \in 0 .. Parts : ~ (Bought(Point(i)) > 0)
  <2>1. \A i \in 0 .. Parts : Bought(Point(i)) = 0
    BY DEF Shrink
  <2>2. token' = token /\ lower' = lower
    BY DEF Shrink
  <2> QED BY <2>1, <2>2, MarketFacts DEF Largest
<1>2. ~ Terminates
  BY DEF Shrink, NextRound
<1>3. ASSUME Narrowing PROVE FALSE
  <2>1. /\ lower \in Nat /\ upper \in Nat /\ Largest <= upper
        /\ lower <= Largest /\ Length <= 2 * Largest + 1
    BY <1>1, <1>2, <1>3 DEF Narrowing, Terminates, Length
  <2> QED BY <1>1, <2>1, PurchaseIsSeen
<1>4. Shrinking /\ lower = 0 /\ round \in 0 .. 9 /\ Largest <= upper
  BY <1>3 DEF Shrinking
<1>5. /\ upper = Cut(round) /\ upper \in Nat
  BY <1>1, <1>4, CutFacts DEF Shrinking
<1>6. /\ Point(1) = upper \div 15
      /\ Point((Parts + 1) \div 3) = upper \div 3
  <2>1. Length = upper /\ lower <= upper
    BY <1>4, <1>5 DEF Length
  <2> QED BY <1>4, <1>5, <2>1, PointFacts
<1>7. Largest < upper \div 15
  <2>1. ~ (Point(1) <= Largest)
    BY <1>1, <1>4, <1>5, PurchaseIsSeen
  <2>2. upper \div 15 \in Nat
    BY <1>5
  <2> QED BY <1>1, <1>6, <2>1, <2>2
<1>8. CASE round + 1 = Tries
  <2>1. round = 9 /\ max_tx' = 0 /\ phase' = "done"
    BY <1>4, <1>8 DEF Shrink, Tries
  <2>2. upper \div 15 = token.balance \div 295245
    BY <1>1, <1>5, <2>1, CutFacts
  <2>3. Largest <= token.balance \div 295245
    BY <1>1, <1>5, <1>7, <2>2
  <2> QED BY <1>1, <2>1, <2>3 DEF Right
<1>9. CASE round + 1 # Tries
  <2>1. round \in 0 .. 8 /\ round < 9 /\ phase' = phase /\ upper' = upper \div 3
    BY <1>4, <1>6, <1>9 DEF Shrink, Tries
  <2>2. round' = round + 1 /\ round' \in 0 .. 9 
    BY <2>1 DEF Shrink, NextRound, MaxRounds, Tries
  <2>3. upper' = Cut(round')
    <3>1. Cut(round) \div 3 = Cut(round + 1)
      BY <1>1, <1>4, <2>1, CutFacts
    <3> QED BY <1>5, <2>1, <2>2, <3>1
  <2>4. Cut(round)' = Cut(round')
    BY <1>1 DEF Cut
  <2>5. Largest <= upper'
    BY <1>1, <1>5, <1>7, <2>1
  <2> QED BY <1>1, <1>4, <2>1, <2>2, <2>3, <2>4, <2>5 DEF Shrinking
<1> QED BY <1>8, <1>9

(* The end: what has been bought is next to the largest purchase.          *)
LEMMA FinishStep ==
  ASSUME token \in Markets, provider = "up", Worth, phase = "search",
         Shrinking \/ Narrowing, Finish
  PROVE  phase' = "done" /\ Right'
<1>1. /\ token' = token /\ Largest' = Largest /\ Tolerance' = Tolerance
      /\ Largest \in Nat /\ token.balance \in Nat /\ Tolerance \in Nat
      /\ lower > upper \/ upper - lower < Tolerance
      /\ max_tx' = IF 10 * highest >= 9 * token.balance THEN NoLimit ELSE highest
      /\ phase' = "done"
  BY MarketFacts DEF Finish, Largest, Tolerance, Terminates
<1>2. ASSUME Shrinking PROVE FALSE
  <2>1. /\ lower = 0 /\ upper \in Nat
        /\ (token.balance \div 2) \div 1000000 <= upper
    BY <1>1, <1>2, CutFacts DEF Shrinking
  <2>2. Tolerance <= upper
    BY <2>1 DEF Tolerance, Base
  <2> QED BY <1>1, <2>1, <2>2
<1>3. /\ lower \in Nat /\ upper \in Nat /\ highest \in 1 .. Largest
      /\ Largest <= upper /\ lower <= highest + 1
  BY <1>2 DEF Narrowing
<1>4. Largest - highest <= Tolerance
  BY <1>1, <1>3
<1>5. CASE 10 * highest >= 9 * token.balance
  <2>1. 10 * Largest >= 9 * token.balance
    BY <1>1, <1>3, <1>5
  <2> QED BY <1>1, <1>5, <2>1 DEF Right
<1>6. CASE ~ (10 * highest >= 9 * token.balance)
  BY <1>1, <1>3, <1>4, <1>6 DEF Right
<1> QED BY <1>5, <1>6

(* The invariant holds at first, and every step keeps it: a provider that  *)
(* fails does not come back.                                               *)
LEMMA MaxBuyAlways == MaxBuySpec => []MaxBuyInv
<1>1. MaxBuyInit => MaxBuyInv
  <2> SUFFICES ASSUME MaxBuyInit PROVE MaxBuyInv
    OBVIOUS
  <2>1. token \in Markets /\ phase = "search" /\ provider = "up"
    BY DEF MaxBuyInit
  <2>2. ASSUME Worth PROVE Shrinking
    <3>1. /\ round = 0 /\ lower = 0 /\ upper = token.balance
          /\ token.balance \in Nat /\ Largest <= token.balance
      BY <2>1, <2>2, MarketFacts DEF MaxBuyInit
    <3>2. Cuts[1] = 1
      BY DEF Cuts
    <3>3. Cut(round) = upper
      BY <3>1, <3>2 DEF Cut
    <3> QED BY <3>1, <3>3 DEF Shrinking
  <2> QED BY <2>1, <2>2 DEF MaxBuyInv
<1>2. MaxBuyInv /\ [MaxBuyNext]_max_buy_vars => MaxBuyInv'
  <2> SUFFICES ASSUME MaxBuyInv, [MaxBuyNext]_max_buy_vars PROVE MaxBuyInv'
    OBVIOUS
  <2>1. CASE UNCHANGED max_buy_vars
    BY <2>1 DEF max_buy_vars, MaxBuyInv, Worth, Left, Largest, Shrinking,
       Narrowing, Right, Tolerance, Cut
  <2>2. CASE ProviderFails
    BY <2>2 DEF ProviderFails, MaxBuyInv
  <2>3. CASE SearchStep
    <3>1. /\ token' = token /\ provider' = provider /\ phase = "search"
          /\ Worth' = Worth /\ token \in Markets
      BY <2>3 DEF SearchStep, NoBalance, Narrow, Shrink, Finish, NextRound,
         MaxBuyInv, Worth, Left, Largest
    <3> SUFFICES ASSUME provider = "up", Worth
                 PROVE  \/ phase' = "search" /\ Shrinking'
                        \/ phase' = "search" /\ Narrowing'
                        \/ phase' = "done" /\ Right'
      BY <3>1 DEF MaxBuyInv
    <3>2. Shrinking \/ Narrowing
      BY <3>1 DEF MaxBuyInv
    <3>3. CASE NoBalance
      BY <3>1, <3>3, MarketFacts DEF NoBalance
    <3>4. CASE Narrow
      BY <3>1, <3>2, <3>4, NarrowStep
    <3>5. CASE Shrink
      BY <3>1, <3>2, <3>5, ShrinkStep
    <3>6. CASE Finish
      BY <3>1, <3>2, <3>6, FinishStep
    <3> QED BY <2>3, <3>3, <3>4, <3>5, <3>6 DEF SearchStep
  <2> QED BY <2>1, <2>2, <2>3 DEF MaxBuyNext
<1> QED BY <1>1, <1>2, PTL DEF MaxBuySpec

(* With the provider up, the answer of the search is the largest purchase  *)
(* the token allows, up to the tolerance: for every balance, limit and tax *)
(* that leaves more than one unit of it.                                   *)
THEOREM LargestPurchaseIsFound == MaxBuySpec => []HighestIsFound
<1>1. MaxBuyInv => HighestIsFound
  <2> SUFFICES ASSUME MaxBuyInv, phase = "done", provider = "up", token.balance > 0
               PROVE  \/ Right
                      \/ Bought(Largest) <= 1
    BY DEF HighestIsFound, Right
  <2>1. CASE Worth
    BY <2>1 DEF MaxBuyInv
  <2>2. CASE ~ Worth
    <3>1. /\ token.balance \in Nat /\ token.limit \in Nat
          /\ \A x \in Nat : Left(x) \in Nat
      BY TaxFacts DEF MaxBuyInv
    <3>2. Largest \in Nat
      BY <3>1 DEF Largest
    <3>3. Left(Largest) <= 1
      BY <2>2, <3>1, <3>2 DEF Worth
    <3>4. Bought(Largest) = Left(Largest) \/ Bought(Largest) = 0
      BY DEF Bought, Left
    <3> QED BY <3>1, <3>2, <3>3, <3>4
  <2> QED BY <2>1, <2>2
<1> QED BY <1>1, MaxBuyAlways, PTL

=============================================================================
