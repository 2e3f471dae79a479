-------------------------- MODULE ReserveVaultProofs --------------------------
(***************************************************************************)
(* For every word wide enough for the arithmetic and all basis points: the  *)
(* vault's answers are those of the rule on exact fractions.                *)
(***************************************************************************)
EXTENDS ReserveVault, TLAPS

\* Euclidean division of naturals.
LEMMA DivisionBounds ==
  ASSUME NEW a \in Nat, NEW b \in Nat \ {0}
  PROVE  /\ a \div b \in Nat /\ a % b \in 0..(b - 1)
         /\ a = b * (a \div b) + (a % b)
  BY SMT

\* Rounded up, a quotient is the least bound a product meets.
LEMMA Ceiling ==
  ASSUME NEW a \in Nat, NEW b \in Nat \ {0}, NEW x \in Int
  PROVE  x >= (a + b - 1) \div b <=> x * b >= a
  BY SMT

\* Rounded down, it is the greatest.
LEMMA Floor ==
  ASSUME NEW a \in Nat, NEW b \in Nat \ {0}, NEW x \in Int
  PROVE  x <= a \div b <=> x * b <= a
  BY SMT

\* A share taken of the whole part and of the rest is the share of the sum.
LEMMA Split ==
  ASSUME NEW q \in Nat, NEW r \in Nat, NEW b \in Nat, NEW m \in Nat
  PROVE  (b * q + r) * m = (q * m) * b + r * m
  BY SMT

LEMMA Difference ==
  ASSUME NEW x \in Int, NEW y \in Int, NEW b \in Nat
  PROVE  (x - y) * b = x * b - y * b
  BY SMT

\* The split minimum, rounded up, is what a liquid share is measured against.
LEMMA MinimumLiquidExact ==
  ASSUME NEW total \in Nat, NEW liquid \in Nat
  PROVE  /\ MinimumLiquid(total) \in Nat
         /\ liquid >= MinimumLiquid(total) <=> liquid * BPS >= total * MIN_LIQUID_BPS
<1> DEFINE q == total \div BPS
           r == total % BPS
           m == MIN_LIQUID_BPS
<1>1. BPS \in Nat \ {0} /\ m \in Nat
  BY BasisPointAssumption
<1>2. q \in Nat /\ r \in Nat /\ total = BPS * q + r
  BY <1>1, DivisionBounds
<1> HIDE DEF q, r, m
<1>3. q * m \in Nat /\ r * m \in Nat
  BY <1>1, <1>2
<1>4. liquid - q * m >= (r * m + BPS - 1) \div BPS <=> (liquid - q * m) * BPS >= r * m
  <2> DEFINE a == r * m
             x == liquid - q * m
  <2>1. a \in Nat /\ x \in Int
    BY <1>3
  <2> HIDE DEF a, x
  <2>2. x >= (a + BPS - 1) \div BPS <=> x * BPS >= a
    BY <1>1, <2>1, Ceiling
  <2> QED
    BY <2>2 DEF a, x
<1>5. (liquid - q * m) * BPS = liquid * BPS - (q * m) * BPS
  BY <1>1, <1>3, Difference
<1>6. total * m = (q * m) * BPS + r * m
  BY <1>1, <1>2, Split
<1>7. (r * m + BPS - 1) \div BPS \in Nat
  BY <1>1, <1>3, DivisionBounds
<1>8. MinimumLiquid(total) = q * m + (r * m + BPS - 1) \div BPS
  BY DEF MinimumLiquid, q, r, m
<1>9. (q * m) * BPS \in Nat /\ liquid * BPS \in Nat
  BY <1>1, <1>3
<1> DEFINE qm == q * m
           rm == r * m
           d == (rm + BPS - 1) \div BPS
           qmb == qm * BPS
           lb == liquid * BPS
<1>10. /\ qm \in Nat /\ rm \in Nat /\ d \in Nat /\ qmb \in Nat /\ lb \in Nat
       /\ liquid - qm >= d <=> lb - qmb >= rm
       /\ total * m = qmb + rm /\ MinimumLiquid(total) = qm + d
  BY <1>3, <1>4, <1>5, <1>6, <1>7, <1>8, <1>9
<1> HIDE DEF qm, rm, d, qmb, lb
<1>11. MinimumLiquid(total) \in Nat /\ (liquid >= MinimumLiquid(total) <=> lb >= total * m)
  BY <1>10
<1> QED
  BY <1>11 DEF lb, m

\* The split maximum, rounded down, is what exposure is measured against.
LEMMA MaximumAaveExact ==
  ASSUME NEW total \in Nat, NEW aave \in Nat
  PROVE  /\ MaximumAave(total) \in Nat
         /\ aave <= MaximumAave(total) <=> aave * BPS <= total * MAX_AAVE_BPS
<1> DEFINE q == total \div BPS
           r == total % BPS
           m == MAX_AAVE_BPS
<1>1. BPS \in Nat \ {0} /\ m \in Nat
  BY BasisPointAssumption
<1>2. q \in Nat /\ r \in Nat /\ total = BPS * q + r
  BY <1>1, DivisionBounds
<1> HIDE DEF q, r, m
<1>3. q * m \in Nat /\ r * m \in Nat
  BY <1>1, <1>2
<1>4. aave - q * m <= (r * m) \div BPS <=> (aave - q * m) * BPS <= r * m
  BY <1>1, <1>3, Floor
<1>5. (aave - q * m) * BPS = aave * BPS - (q * m) * BPS
  BY <1>1, <1>3, Difference
<1>6. total * m = (q * m) * BPS + r * m
  BY <1>1, <1>2, Split
<1>7. (r * m) \div BPS \in Nat
  BY <1>1, <1>3, DivisionBounds
<1>8. MaximumAave(total) = q * m + (r * m) \div BPS
  BY DEF MaximumAave, q, r, m
<1>9. (q * m) * BPS \in Nat /\ aave * BPS \in Nat
  BY <1>1, <1>3
<1> DEFINE qm == q * m
           rm == r * m
           d == rm \div BPS
           qmb == qm * BPS
           lb == aave * BPS
<1>10. /\ qm \in Nat /\ rm \in Nat /\ d \in Nat /\ qmb \in Nat /\ lb \in Nat
       /\ aave - qm <= d <=> lb - qmb <= rm
       /\ total * m = qmb + rm /\ MaximumAave(total) = qm + d
  BY <1>3, <1>4, <1>5, <1>6, <1>7, <1>8, <1>9
<1> HIDE DEF qm, rm, d, qmb, lb
<1>11. MaximumAave(total) \in Nat /\ (aave <= MaximumAave(total) <=> lb <= total * m)
  BY <1>10
<1> QED
  BY <1>11 DEF lb, m

\* The two splits never leave a word that holds the backing.
LEMMA NoIntermediateOverflow ==
  ASSUME NEW total \in Words
  PROVE  Intermediates(total) \subseteq Words
<1> DEFINE q == total \div BPS
           r == total % BPS
<1>1. /\ BPS \in Nat \ {0} /\ Word \in Nat /\ total \in Nat /\ total < Word
      /\ BPS * BPS + BPS <= Word
      /\ MIN_LIQUID_BPS \in 0..BPS /\ MAX_AAVE_BPS \in 0..BPS
  BY BasisPointAssumption DEF Words
<1>2. q \in Nat /\ r \in 0..(BPS - 1) /\ total = BPS * q + r
  BY <1>1, DivisionBounds
<1> HIDE DEF q, r
<1>3. ASSUME NEW m \in 0..BPS
      PROVE  /\ q * m \in Nat /\ q * m <= q * BPS /\ q * BPS \in Nat
             /\ r * m \in Nat /\ r * m <= r * BPS /\ r * BPS <= BPS * BPS - BPS
             /\ BPS * BPS \in Nat
  BY <1>1, <1>2
<1>4. q * BPS = BPS * q
  BY <1>1, <1>2
<1>5. ASSUME NEW m \in 0..BPS
      PROVE  q * m \in Words /\ r * m \in Words /\ r * m + BPS - 1 \in Words
  <2> DEFINE qm == q * m
             rm == r * m
             qb == q * BPS
             rb == r * BPS
             bb == BPS * BPS
  <2>1. /\ qm \in Nat /\ qm <= qb /\ qb \in Nat /\ rm \in Nat /\ rm <= rb
        /\ rb <= bb - BPS /\ bb \in Nat /\ total = qb + r /\ bb + BPS <= Word /\ rb \in Nat
    BY <1>1, <1>2, <1>3, <1>4
  <2> HIDE DEF qm, rm, qb, rb, bb
  <2>2. qm \in Words /\ rm \in Words /\ rm + BPS - 1 \in Words
    BY <1>1, <1>2, <2>1 DEF Words
  <2> QED
    BY <2>2 DEF qm, rm
<1>6. MinimumLiquid(total) \in Words
  <2>1. MinimumLiquid(total) \in Nat
         /\ (total >= MinimumLiquid(total) <=> total * BPS >= total * MIN_LIQUID_BPS)
    BY <1>1, MinimumLiquidExact
  <2>2. total * BPS >= total * MIN_LIQUID_BPS
    BY <1>1
  <2>3. total >= MinimumLiquid(total)
    BY <2>1, <2>2
  <2> QED
    BY <1>1, <2>1, <2>3 DEF Words
<1>7. MaximumAave(total) \in Words
  <2> DEFINE M == MaximumAave(total)
  <2>1. /\ M \in Nat
        /\ \A a \in Nat : a <= M <=> a * BPS <= total * MAX_AAVE_BPS
    BY <1>1, MaximumAaveExact
  <2> HIDE DEF M
  <2>2. M * BPS <= total * MAX_AAVE_BPS
    BY <2>1
  <2>3. total * MAX_AAVE_BPS <= total * BPS
    BY <1>1
  <2>4. M <= total
    BY <1>1, <2>1, <2>2, <2>3
  <2> QED
    BY <1>1, <2>1, <2>4 DEF Words, M
<1> QED
  BY <1>1, <1>5, <1>6, <1>7 DEF Intermediates, q, r

------------------------------------------------------------------------------
\* What the vault's views read is always a word or a flag, as the tokens' moves have it.
LEMMA TypeCorrect == Spec => []TypeOK
<1>1. Init => TypeOK
  <2>1. Word > 0
    <3> DEFINE bb == BPS * BPS
    <3>1. bb \in Nat /\ BPS \in Nat \ {0} /\ Word \in Nat /\ bb + BPS <= Word
      BY BasisPointAssumption
    <3> HIDE DEF bb
    <3> QED
      BY <3>1
  <2>2. 0 \in Words
    BY <2>1, BasisPointAssumption DEF Words
  <2> QED
    BY <2>2 DEF Init, TypeOK
<1>2. TypeOK /\ [Next]_vars => TypeOK'
  <2> SUFFICES ASSUME TypeOK, [Next]_vars
               PROVE  TypeOK'
    OBVIOUS
  <2>1. ASSUME NEW n \in Amounts, Transfer(n)
        PROVE  TypeOK'
    BY <2>1 DEF TypeOK, Transfer
  <2>2. ASSUME NEW n \in Amounts, Position(n)
        PROVE  TypeOK'
    BY <2>2 DEF TypeOK, Position
  <2>3. ASSUME NEW n \in Amounts, Issue(n)
        PROVE  TypeOK'
    BY <2>3 DEF TypeOK, Issue
  <2>4. CASE Restrict
    BY <2>4 DEF TypeOK, Restrict
  <2>5. CASE UNCHANGED vars
    BY <2>5 DEF TypeOK, vars
  <2> QED
    BY <2>1, <2>2, <2>3, <2>4, <2>5 DEF Next
<1> QED
  BY <1>1, <1>2, PTL DEF Spec

\* In every typed state the split arithmetic answers as the exact fractions do.
LEMMA TypedAnswers ==
  ASSUME TypeOK
  PROVE  AnswersExactly /\ PanicsOnlyOnBacking
<1> DEFINE total == Usable + aToken
<1>1. /\ Usable \in Words /\ aToken \in Words /\ supply \in Words
      /\ LiquidReserveBalance = Usable
  <2>1. 0 \in Words
    BY BasisPointAssumption DEF Words
  <2>2. idle \in Words /\ aToken \in Words /\ supply \in Words
    BY DEF TypeOK
  <2>3. Usable \in Words
    BY <2>1, <2>2 DEF Usable
  <2> QED
    BY <2>2, <2>3 DEF Usable, LiquidReserveBalance
<1>2. Usable \in Nat /\ aToken \in Nat /\ supply \in Nat /\ total \in Nat
  BY <1>1, BasisPointAssumption DEF Words
<1>3. CASE total \notin Words
  <2>1. Verdict = "Panic"
    BY <1>1, <1>3 DEF Verdict
  <2> QED
    BY <1>3, <2>1 DEF AnswersExactly, PanicsOnlyOnBacking
<1>4. CASE total \in Words
  <2>1. Verdict = ValidateReserveState(total, supply, Usable, aToken)
    BY <1>1, <1>4 DEF Verdict
  <2>2. Intermediates(total) \subseteq Words
    BY <1>4, NoIntermediateOverflow
  <2>3. ~(Usable > total \/ aToken # total - Usable)
    BY <1>2
  <2>4. ASSUME NEW l \in Nat, NEW t \in Nat
        PROVE  /\ MinimumLiquid(t) \in Nat
               /\ l * BPS \in Nat /\ t * MIN_LIQUID_BPS \in Nat
               /\ l < MinimumLiquid(t) <=> l * BPS < t * MIN_LIQUID_BPS
    <3>1. /\ MinimumLiquid(t) \in Nat
          /\ l >= MinimumLiquid(t) <=> l * BPS >= t * MIN_LIQUID_BPS
      BY <2>4, MinimumLiquidExact
    <3>2. l * BPS \in Nat /\ t * MIN_LIQUID_BPS \in Nat
      BY <2>4, BasisPointAssumption
    <3> QED
      BY <3>1, <3>2
  <2>5. ASSUME NEW a \in Nat, NEW t \in Nat
        PROVE  /\ a * BPS \in Nat /\ t * MAX_AAVE_BPS \in Nat
               /\ a > MaximumAave(t) <=> a * BPS > t * MAX_AAVE_BPS
    <3>1. /\ MaximumAave(t) \in Nat
          /\ a <= MaximumAave(t) <=> a * BPS <= t * MAX_AAVE_BPS
      BY <2>5, MaximumAaveExact
    <3>2. a * BPS \in Nat /\ t * MAX_AAVE_BPS \in Nat
      BY <2>5, BasisPointAssumption
    <3> QED
      BY <3>1, <3>2
  <2> DEFINE lb == Usable * BPS
             ab == aToken * BPS
             tl == total * MIN_LIQUID_BPS
             ta == total * MAX_AAVE_BPS
  <2>6. /\ lb \in Nat /\ tl \in Nat /\ ab \in Nat /\ ta \in Nat
        /\ Usable < MinimumLiquid(total) <=> lb < tl
        /\ aToken > MaximumAave(total) <=> ab > ta
    BY <1>2, <2>4, <2>5
  <2>7. ExactVerdict(total, supply, Usable, aToken) =
          CASE total < supply -> "InsufficientBacking"
            [] total >= supply /\ lb < tl -> "InsufficientLiquidUSDC"
            [] total >= supply /\ lb >= tl /\ ab > ta -> "ExcessiveAaveExposure"
            [] OTHER -> "ok"
    BY DEF ExactVerdict
  <2>8. Verdict = IF total < supply THEN "InsufficientBacking"
                  ELSE IF Usable < MinimumLiquid(total) THEN "InsufficientLiquidUSDC"
                  ELSE IF aToken > MaximumAave(total) THEN "ExcessiveAaveExposure"
                  ELSE "ok"
    BY <2>1, <2>2, <2>3 DEF ValidateReserveState
  <2> HIDE DEF lb, ab, tl, ta
  <2>9. Verdict = ExactVerdict(total, supply, Usable, aToken)
    BY <1>2, <2>6, <2>7, <2>8
  <2>10. Verdict # "Panic"
    BY <2>8
  <2> QED
    BY <1>4, <2>9, <2>10 DEF AnswersExactly, PanicsOnlyOnBacking
<1> QED
  BY <1>3, <1>4

\* AnswersExactly, for every word and all basis points the assumption admits.
THEOREM VaultAnswersExactly == Spec => []AnswersExactly
  BY TypeCorrect, TypedAnswers, PTL

\* PanicsOnlyOnBacking: the split keeps every intermediate result inside the word.
THEOREM VaultPanicsOnlyOnBacking == Spec => []PanicsOnlyOnBacking
  BY TypeCorrect, TypedAnswers, PTL

\* A state without usable liquidity fails the rule's liquid share, unless it is empty.
LEMMA NothingLiquid ==
  ASSUME NEW s \in Nat, NEW a \in Nat, ExactVerdict(0 + a, s, 0, a) = "ok"
  PROVE  a = 0 /\ s = 0
<1> DEFINE share == a * MIN_LIQUID_BPS
<1>1. BPS \in Nat /\ MIN_LIQUID_BPS \in Nat \ {0}
  BY BasisPointAssumption
<1>2. share \in Nat /\ (share = 0 => a = 0)
  BY <1>1
<1>3. ~(a < s) /\ ~(0 * BPS < (0 + a) * MIN_LIQUID_BPS)
  BY DEF ExactVerdict
<1>4. 0 * BPS = 0 /\ (0 + a) * MIN_LIQUID_BPS = share
  BY <1>1
<1>5. ~(0 < share)
  BY <1>3, <1>4
<1> HIDE DEF share
<1> QED
  BY <1>2, <1>3, <1>5

\* NothingFromFrozenReserves, for any positive minimum: a paused or blacklisted vault
\* that holds or owes anything is refused, however small the amounts.
THEOREM FrozenReservesRefused == Spec => []NothingFromFrozenReserves
<1>1. TypeOK => NothingFromFrozenReserves
  <2> SUFFICES ASSUME TypeOK, paused \/ blacklisted, Verdict = "ok"
               PROVE  aToken = 0 /\ supply = 0
    BY DEF NothingFromFrozenReserves
  <2>1. aToken \in Nat /\ supply \in Nat /\ Usable = 0
    BY BasisPointAssumption DEF TypeOK, Words, Usable
  <2>2. Usable + aToken \in Words
    BY TypedAnswers DEF PanicsOnlyOnBacking
  <2>3. ExactVerdict(0 + aToken, supply, 0, aToken) = "ok"
    BY <2>1, <2>2, TypedAnswers DEF AnswersExactly
  <2> QED
    BY <2>1, <2>3, NothingLiquid
<1> QED
  BY <1>1, TypeCorrect, PTL
=============================================================================
