----------------------------- MODULE TextProofs ----------------------------
(* Theorems about Rand and PathStrings: the digits of the keys and the     *)
(* characters of the paths, for all constants.                             *)
EXTENDS Rand, PathStrings, NaturalsInduction, WellFoundedInduction,
        SequenceTheorems, TLAPS

\* Every non-empty set of numbers has a least one: a proof by induction is, in
\* this module too, one that no least counterexample exists.
LEMMA SmallestNumber ==
  ASSUME NEW I \in SUBSET Nat, I # {}
  PROVE  \E m \in I : \A i \in I : m <= i
<1>1. PICK m \in I : \A i \in I : ~ (<<i, m>> \in OpToRel(<, Nat))
  BY WFMin, NatLessThanWellFounded
<1>2. \A i \in I : ~ (i < m)
  BY <1>1 DEF OpToRel
<1>. QED BY <1>2

\* The elements of a concatenation.
LEMMA Concatenation ==
  ASSUME NEW S, NEW s \in Seq(S), NEW t \in Seq(S)
  PROVE  /\ s \o t \in Seq(S) /\ Len(s \o t) = Len(s) + Len(t)
         /\ \A i \in 1..Len(s) : (s \o t)[i] = s[i]
         /\ \A i \in 1..Len(t) : (s \o t)[Len(s) + i] = t[i]
<1>1. /\ s \o t \in Seq(S) /\ Len(s \o t) = Len(s) + Len(t)
      /\ \A i \in 1..Len(s) + Len(t) :
            (s \o t)[i] = IF i <= Len(s) THEN s[i] ELSE t[i - Len(s)]
      /\ Len(s) \in Nat /\ Len(t) \in Nat
  BY ConcatProperties
<1>2. \A i \in 1..Len(s) : (s \o t)[i] = s[i]
  BY <1>1
<1>3. \A i \in 1..Len(t) : (s \o t)[Len(s) + i] = t[i]
  <2>. TAKE i \in 1..Len(t)
  <2>1. /\ Len(s) + i \in 1..Len(s) + Len(t) /\ ~ (Len(s) + i <= Len(s))
        /\ (Len(s) + i) - Len(s) = i
    BY <1>1
  <2>. QED BY <1>1, <2>1
<1>. QED BY <1>1, <1>2, <1>3

\* and its two parts.
LEMMA PartsOfConcatenation ==
  ASSUME NEW S, NEW s \in Seq(S), NEW t \in Seq(S)
  PROVE  /\ SubSeq(s \o t, 1, Len(s)) = s
         /\ SubSeq(s \o t, Len(s) + 1, Len(s \o t)) = t
<1>. DEFINE c == s \o t  n == Len(s)  m == Len(t)
<1>1. /\ c \in Seq(S) /\ n \in Nat /\ m \in Nat /\ Len(c) = n + m
      /\ \A i \in 1..n : c[i] = s[i]
      /\ \A i \in 1..m : c[n + i] = t[i]
  BY Concatenation
<1>2. s \in Seq(S) /\ t \in Seq(S) /\ n = Len(s) /\ m = Len(t)
  OBVIOUS
<1>. HIDE DEF c, n, m
<1>3. \A i \in 1..(n + m) : c[i] \in S
  BY <1>1, ElementOfSeq
<1>4. /\ SubSeq(c, 1, n) \in Seq(S)
      /\ Len(SubSeq(c, 1, n)) = IF 1 <= n THEN n - 1 + 1 ELSE 0
      /\ \A i \in 1..(n - 1 + 1) : SubSeq(c, 1, n)[i] = c[1 + i - 1]
  <2>1. 1 \in Int /\ n \in Int /\ \A i \in 1..n : c[i] \in S
    BY <1>1, <1>3
  <2>. QED BY <2>1, SubSeqProperties
<1>5. SubSeq(c, 1, n) = s
  <2>1. Len(SubSeq(c, 1, n)) = n
    BY <1>1, <1>4
  <2>2. \A i \in 1..n : SubSeq(c, 1, n)[i] = s[i]
    <3>1. \A i \in 1..n : i \in 1..(n - 1 + 1) /\ 1 + i - 1 = i
      BY <1>1
    <3>. QED BY <1>1, <1>4, <3>1
  <2>. QED BY <1>2, <1>4, <2>1, <2>2, SeqEqual
<1>. DEFINE r == SubSeq(c, n + 1, n + m)
<1>6. /\ r \in Seq(S)
      /\ Len(r) = IF n + 1 <= n + m THEN (n + m) - (n + 1) + 1 ELSE 0
      /\ \A i \in 1..((n + m) - (n + 1) + 1) : r[i] = c[(n + 1) + i - 1]
  <2>1. n + 1 \in Int /\ n + m \in Int /\ \A i \in (n + 1)..(n + m) : c[i] \in S
    BY <1>1, <1>3
  <2>. QED BY <2>1, SubSeqProperties
<1>7. r = t
  <2>. HIDE DEF r
  <2>1. Len(r) = m
    BY <1>1, <1>6
  <2>2. \A i \in 1..m : r[i] = t[i]
    <3>1. \A i \in 1..m : i \in 1..((n + m) - (n + 1) + 1) /\ (n + 1) + i - 1 = n + i
      BY <1>1
    <3>. QED BY <1>1, <1>6, <3>1
  <2>. QED BY <1>2, <1>6, <2>1, <2>2, SeqEqual
<1>. QED BY <1>1, <1>5, <1>7 DEF c, n, m

----------------------------------------------------------------------------
(* The digits of a number.                                                 *)

Digits == 0..(HEX - 1)
Numeral == Seq(Digits) \ {<< >>}

\* One turn of itoa's loop, on what the further turns f give.
Turn(f, n) == <<n % HEX>> \o (IF n \div HEX > 0 THEN f[n \div HEX] ELSE << >>)

\* What one turn of the loop leaves of its number.
LEMMA Division ==
  ASSUME NEW n \in Nat
  PROVE  /\ n \div HEX \in Nat /\ n % HEX \in Digits
         /\ n = HEX * (n \div HEX) + (n % HEX)
         /\ n > 0 => n \div HEX < n
         /\ n \div HEX <= n
         /\ n \div HEX = 0 => n % HEX = n
<1>1. n \div HEX \in Nat /\ n % HEX \in Digits
  BY RandAssumption DEF Digits
<1>2. n = HEX * (n \div HEX) + (n % HEX)
  BY RandAssumption
<1>3. n > 0 => n \div HEX < n
  BY RandAssumption
<1>4. n \div HEX <= n
  BY RandAssumption
<1>5. n \div HEX = 0 => n % HEX = n
  BY RandAssumption, <1>1, <1>2 DEF Digits
<1>. QED BY <1>1, <1>2, <1>3, <1>4, <1>5

\* A turn on numerals gives a numeral, one digit longer.
LEMMA TurnOfNumerals ==
  ASSUME NEW n \in Nat, NEW f, n \div HEX > 0 => f[n \div HEX] \in Numeral
  PROVE  /\ Turn(f, n) \in Numeral
         /\ n \div HEX > 0 => Len(Turn(f, n)) = Len(f[n \div HEX]) + 1
         /\ n \div HEX = 0 => Turn(f, n) = <<n % HEX>>
<1>1. n % HEX \in Digits /\ n \div HEX \in Nat
  BY Division
<1>. DEFINE d == n % HEX  m == n \div HEX
<1>2. CASE m > 0
  <2>1. f[m] \in Seq(Digits) /\ <<d>> \in Seq(Digits) /\ Len(<<d>>) = 1
    BY <1>1, <1>2 DEF Numeral
  <2>2. Turn(f, n) = <<d>> \o f[m]
    BY <1>2 DEF Turn
  <2>3. /\ <<d>> \o f[m] \in Seq(Digits)
        /\ Len(<<d>> \o f[m]) = Len(<<d>>) + Len(f[m])
    BY <2>1, ConcatProperties
  <2>. HIDE DEF d, m
  <2>4. Len(f[m]) \in Nat /\ Len(f[m]) + 1 # 0
    BY <2>1
  <2>5. Turn(f, n) # << >>
    BY <2>1, <2>2, <2>3, <2>4
  <2>6. Len(Turn(f, n)) = Len(f[m]) + 1
    BY <2>1, <2>2, <2>3, <2>4
  <2>. QED BY <1>2, <2>2, <2>3, <2>5, <2>6 DEF Numeral, m
<1>3. CASE m = 0
  <2>1. Turn(f, n) = <<d>> \o << >>
    <3>1. ~ (n \div HEX > 0)
      BY <1>3
    <3>. QED BY <3>1, Zenon DEF Turn
  <2>2. <<d>> \in Seq(Digits) /\ <<d>> # << >> /\ <<d>> \o << >> = <<d>>
    BY <1>1
  <2>. HIDE DEF d
  <2>. QED BY <1>3, <2>1, <2>2 DEF Numeral, d
<1>. QED BY <1>1, <1>2, <1>3

\* itoa's loop ends: for each number the recursion has a solution up to it, and
LEMMA TurnsEnd ==
  ASSUME NEW k \in Nat
  PROVE  \E f \in [0..k -> Numeral] : \A n \in 0..k : f[n] = Turn(f, n)
<1>. DEFINE Has(m) == \E f \in [0..m -> Numeral] : \A n \in 0..m : f[n] = Turn(f, n)
            Lacking == {m \in Nat : ~ Has(m)}
<1>1. SUFFICES ASSUME Lacking # {}
               PROVE  FALSE
  BY Zenon
<1>2. PICK m \in Lacking : \A l \in Lacking : m <= l
  BY <1>1, SmallestNumber
<1>3. m \in Nat
  BY <1>2
<1>4. PICK g : /\ \A n \in 0..(m-1) : g[n] \in Numeral /\ g[n] = Turn(g, n)
  <2>1. CASE m = 0
    <3>1. \A n \in 0..(m-1) : FALSE
      BY <2>1
    <3>. QED BY <3>1
  <2>2. CASE m # 0
    <3>. HIDE DEF Has
    <3>1. m - 1 \in Nat /\ m - 1 \notin Lacking
      BY <1>2, <1>3, <2>2
    <3>2. Has(m - 1)
      BY <3>1
    <3>3. PICK f \in [0..(m-1) -> Numeral] : \A n \in 0..(m-1) : f[n] = Turn(f, n)
      BY <3>2 DEF Has
    <3>4. \A n \in 0..(m-1) : f[n] \in Numeral
      BY <3>3
    <3>. QED BY <3>3, <3>4
  <2>. QED BY <2>1, <2>2
<1>. DEFINE f == [n \in 0..m |-> IF n = m THEN Turn(g, m) ELSE g[n]]
<1>5. \A n \in 0..m : n \div HEX > 0 =>
         n \div HEX \in 0..(m-1) /\ f[n \div HEX] = g[n \div HEX]
  <2>. TAKE n \in 0..m
  <2>. HAVE n \div HEX > 0
  <2>1. n \in Nat /\ n \div HEX \in Nat /\ n \div HEX <= n /\ (n > 0 => n \div HEX < n)
    BY <1>3, Division
  <2>2. n \div HEX < m
    BY <1>3, <2>1
  <2>3. n \div HEX \in 0..(m-1) /\ n \div HEX \in 0..m /\ n \div HEX # m
    BY <1>3, <2>1, <2>2
  <2>. QED BY <2>3
<1>6. \A n \in 0..m : Turn(f, n) = Turn(g, n)
  <2>. HIDE DEF f
  <2>. QED BY <1>5 DEF Turn
<1>7. Turn(g, m) \in Numeral
  <2>1. m \in 0..m
    BY <1>3
  <2>2. m \div HEX > 0 => g[m \div HEX] \in Numeral
    BY <1>4, <1>5, <2>1
  <2>. QED BY <1>3, <2>2, TurnOfNumerals
<1>8. f \in [0..m -> Numeral]
  BY <1>3, <1>4, <1>7
<1>9. \A n \in 0..m : f[n] = Turn(f, n)
  <2>. TAKE n \in 0..m
  <2>1. f[n] = IF n = m THEN Turn(g, m) ELSE g[n]
    OBVIOUS
  <2>2. n # m => n \in 0..(m-1)
    BY <1>3
  <2>. HIDE DEF f
  <2>. QED BY <1>3, <1>4, <1>6, <2>1, <2>2
<1>10. Has(m)
  <2>. HIDE DEF f
  <2>. QED BY <1>8, <1>9
<1>. QED BY <1>2, <1>10

\* two solutions agree where both are defined.
LEMMA TurnsAgree ==
  ASSUME NEW k \in Nat, NEW f, \A n \in 0..k : f[n] = Turn(f, n),
         NEW g, \A n \in 0..k : g[n] = Turn(g, n)
  PROVE  \A n \in 0..k : f[n] = g[n]
<1>. DEFINE Differ == {n \in 0..k : f[n] # g[n]}
<1>1. SUFFICES ASSUME Differ # {}
               PROVE  FALSE
  OBVIOUS
<1>2. PICK m \in Differ : \A n \in Differ : m <= n
  <2>1. Differ \in SUBSET Nat
    OBVIOUS
  <2>. HIDE DEF Differ
  <2>. QED BY <1>1, <2>1, SmallestNumber
<1>3. m \in 0..k /\ f[m] # g[m] /\ f[m] = Turn(f, m) /\ g[m] = Turn(g, m)
  BY <1>2
<1>4. m \div HEX > 0 => f[m \div HEX] = g[m \div HEX]
  <2>. HAVE m \div HEX > 0
  <2>1. m \div HEX \in Nat /\ m \div HEX <= m /\ (m > 0 => m \div HEX < m)
    BY <1>3, Division
  <2>2. m \div HEX < m
    BY <1>3, <2>1
  <2>3. m \div HEX \in 0..k /\ m \div HEX \notin Differ
    BY <1>2, <1>3, <2>1, <2>2
  <2>. QED BY <2>3
<1>5. Turn(f, m) = Turn(g, m)
  BY <1>4 DEF Turn
<1>. QED BY <1>3, <1>5

\* So the recursion is what it says: every number has its numeral, backwards.
LEMMA BackwardsTurns ==
  ASSUME NEW n \in Nat
  PROVE  backwards[n] \in Numeral /\ backwards[n] = Turn(backwards, n)
<1>. DEFINE Solves(f, k) == f \in [0..k -> Numeral] /\ \A i \in 0..k : f[i] = Turn(f, i)
            upto(k) == CHOOSE f : Solves(f, k)
            b == [k \in Nat |-> upto(k)[k]]
            IsIt(f) == f = [k \in Nat |->
                              <<k % HEX>> \o (IF k \div HEX > 0 THEN f[k \div HEX] ELSE << >>)]
<1>1. \A k \in Nat : Solves(upto(k), k)
  <2>. TAKE k \in Nat
  <2>1. PICK f \in [0..k -> Numeral] : \A i \in 0..k : f[i] = Turn(f, i)
    BY TurnsEnd
  <2>2. Solves(f, k)
    BY <2>1
  <2>. HIDE DEF Solves
  <2>. QED BY <2>2, Zenon
<1>. HIDE DEF upto
<1>2. \A k \in Nat : \A i \in 0..k : upto(k)[i] = b[i]
  <2>. TAKE k \in Nat
  <2>. TAKE i \in 0..k
  <2>1. i \in Nat /\ i \in 0..i /\ (\A j \in 0..i : j \in 0..k)
    OBVIOUS
  <2>2. \A j \in 0..i : upto(k)[j] = Turn(upto(k), j)
    BY <1>1, <2>1
  <2>3. \A j \in 0..i : upto(i)[j] = Turn(upto(i), j)
    BY <1>1, <2>1
  <2>4. upto(k)[i] = upto(i)[i]
    BY <2>1, <2>2, <2>3, TurnsAgree
  <2>5. b[i] = upto(i)[i]
    BY <2>1
  <2>. QED BY <2>4, <2>5
<1>3. \A k \in Nat : b[k] \in Numeral /\ b[k] = Turn(b, k)
  <2>. TAKE k \in Nat
  <2>. HIDE DEF b
  <2>1. k \in 0..k /\ k \div HEX \in 0..k
    BY Division
  <2>2. upto(k)[k] \in Numeral /\ upto(k)[k] = Turn(upto(k), k)
    BY <1>1, <2>1
  <2>3. Turn(upto(k), k) = Turn(b, k)
    BY <1>2, <2>1 DEF Turn
  <2>. QED BY <1>2, <2>1, <2>2, <2>3
<1>4. IsIt(b)
  <2>1. b = [k \in Nat |-> b[k]]
    OBVIOUS
  <2>. HIDE DEF b
  <2>2. \A k \in Nat : b[k] = <<k % HEX>> \o (IF k \div HEX > 0 THEN b[k \div HEX] ELSE << >>)
    BY <1>3 DEF Turn
  <2>. QED BY <2>1, <2>2
<1>5. backwards = CHOOSE f : IsIt(f)
  BY DEF backwards
<1>6. IsIt(backwards)
  <2>. HIDE DEF IsIt
  <2>. QED BY <1>4, <1>5
<1>7. \A k \in Nat : backwards[k] = Turn(backwards, k)
  BY <1>6 DEF Turn
<1>8. backwards[n] = b[n]
  <2>. HIDE DEF b
  <2>1. \A i \in 0..n : b[i] = Turn(b, i)
    BY <1>3
  <2>2. \A i \in 0..n : backwards[i] = Turn(backwards, i)
    BY <1>7
  <2>. QED BY <2>1, <2>2, TurnsAgree
<1>. QED BY <1>3, <1>7, <1>8

LEMMA ReverseGrows ==
  ASSUME NEW S, NEW s \in Seq(S), NEW d \in S
  PROVE  /\ Reverse(s) \in Seq(S) /\ Len(Reverse(s)) = Len(s)
         /\ Reverse(<<d>> \o s) = Append(Reverse(s), d)
<1>1. Reverse(s) \in Seq(S) /\ Len(Reverse(s)) = Len(s)
  BY DEF Reverse
<1>2. \A i \in 1..Len(s) : Reverse(s)[i] = s[(Len(s) - i) + 1]
  BY DEF Reverse
<1>. DEFINE t == <<d>> \o s
<1>3. /\ t \in Seq(S) /\ Len(t) = Len(s) + 1
      /\ \A i \in 1..Len(t) : t[i] = IF i = 1 THEN d ELSE s[i-1]
  OBVIOUS
<1>4. /\ Reverse(t) \in Seq(S) /\ Len(Reverse(t)) = Len(t)
      /\ \A i \in 1..Len(t) : Reverse(t)[i] = t[(Len(t) - i) + 1]
  <2>. HIDE DEF t
  <2>. QED BY <1>3 DEF Reverse
<1>5. /\ Append(Reverse(s), d) \in Seq(S)
      /\ Len(Append(Reverse(s), d)) = Len(s) + 1
      /\ \A i \in 1..Len(s) : Append(Reverse(s), d)[i] = Reverse(s)[i]
      /\ Append(Reverse(s), d)[Len(s) + 1] = d
  BY <1>1, AppendProperties
<1>6. \A i \in 1..Len(Reverse(t)) : Reverse(t)[i] = Append(Reverse(s), d)[i]
  <2>. HIDE DEF t
  <2>. TAKE i \in 1..Len(Reverse(t))
  <2>0. Len(s) \in Nat
    OBVIOUS
  <2>1. i \in 1..Len(t) /\ i \in 1..(Len(s) + 1)
    BY <1>3, <1>4
  <2>2. CASE i = Len(s) + 1
    <3>1. (Len(t) - i) + 1 = 1 /\ 1 \in 1..Len(t)
      BY <1>3, <2>0, <2>2
    <3>. QED BY <1>3, <1>4, <1>5, <2>1, <2>2, <3>1
  <2>3. CASE i # Len(s) + 1
    <3>1. /\ i \in 1..Len(s)
          /\ (Len(t) - i) + 1 \in 1..Len(t) /\ (Len(t) - i) + 1 # 1
          /\ (Len(t) - i) + 1 - 1 = (Len(s) - i) + 1
      BY <1>3, <2>0, <2>1, <2>3
    <3>. QED BY <1>2, <1>3, <1>4, <1>5, <2>1, <3>1
  <2>. QED BY <2>2, <2>3
<1>7. Len(Reverse(t)) = Len(Append(Reverse(s), d))
  <2>. HIDE DEF t
  <2>. QED BY <1>3, <1>4, <1>5
<1>8. Reverse(t) = Append(Reverse(s), d)
  <2>. HIDE DEF t
  <2>. QED BY <1>4, <1>5, <1>6, <1>7, SeqEqual
<1>. QED BY <1>1, <1>8

\* A number has a numeral, to which a turn of the loop adds the last digit.
LEMMA NumeralOf ==
  ASSUME NEW n \in Nat
  PROVE  /\ itoa(n) \in Numeral
         /\ Len(itoa(n)) = Len(backwards[n]) /\ Len(itoa(n)) \in Nat \ {0}
         /\ n \div HEX > 0 => itoa(n) = Append(itoa(n \div HEX), n % HEX)
         /\ n \div HEX = 0 => itoa(n) = <<n>>
<1>. DEFINE m == n \div HEX  d == n % HEX
<1>1. m \in Nat /\ d \in Digits /\ (m = 0 => d = n)
  BY Division
<1>2. backwards[n] \in Seq(Digits) /\ backwards[n] # << >> /\ backwards[n] = Turn(backwards, n)
  BY BackwardsTurns DEF Numeral
<1>3. backwards[m] \in Seq(Digits)
  <2>. HIDE DEF m
  <2>. QED BY <1>1, BackwardsTurns DEF Numeral
<1>4. itoa(n) \in Seq(Digits) /\ Len(itoa(n)) = Len(backwards[n])
  <2>1. itoa(n) = Reverse(backwards[n])
    BY DEF itoa, reverse
  <2>2. Reverse(backwards[n]) \in Seq(Digits) /\ Len(Reverse(backwards[n])) = Len(backwards[n])
    BY <1>1, <1>2, ReverseGrows
  <2>. QED BY <2>1, <2>2
<1>5. Len(itoa(n)) \in Nat \ {0} /\ itoa(n) # << >>
  <2>1. Len(backwards[n]) \in Nat \ {0}
    BY <1>2, EmptySeq
  <2>. QED BY <1>4, <2>1, EmptySeq
<1>6. m > 0 => itoa(n) = Append(itoa(m), d)
  <2>. HAVE m > 0
  <2>1. backwards[n] = <<d>> \o backwards[m]
    BY <1>2, Zenon DEF Turn
  <2>. HIDE DEF m, d
  <2>2. Reverse(<<d>> \o backwards[m]) = Append(Reverse(backwards[m]), d)
    BY <1>1, <1>3, ReverseGrows
  <2>. QED BY <2>1, <2>2 DEF itoa, reverse
<1>7. m = 0 => itoa(n) = <<n>>
  <2>. HAVE m = 0
  <2>1. d \in Seq(Digits) => TRUE
    OBVIOUS
  <2>2. backwards[n] = <<d>> \o << >>
    <3>1. ~ (m > 0)
      OBVIOUS
    <3>. QED BY <1>2, <3>1, Zenon DEF Turn
  <2>. HIDE DEF d
  <2>3. <<d>> \o << >> = <<d>>
    BY <1>1
  <2>4. Reverse(<<d>>) = <<d>>
    BY DEF Reverse
  <2>. QED BY <1>1, <2>2, <2>3, <2>4 DEF itoa, reverse
<1>. QED BY <1>4, <1>5, <1>6, <1>7 DEF Numeral

\* Only 0 begins with a zero: its numeral has one digit.
LEMMA FirstDigit ==
  ASSUME NEW n \in Nat
  PROVE  itoa(n)[1] = 0 => n = 0 /\ Len(itoa(n)) = 1
<1>. DEFINE Zeroes == {k \in Nat : k # 0 /\ itoa(k)[1] = 0}
<1>1. ASSUME Zeroes # {}
      PROVE  FALSE
  <2>1. PICK k \in Zeroes : \A l \in Zeroes : k <= l
    BY <1>1, SmallestNumber
  <2>2. k \in Nat /\ k > 0 /\ itoa(k)[1] = 0
    BY <2>1
  <2>3. k \div HEX \in Nat /\ k \div HEX < k
    BY <2>2, Division
  <2>4. CASE k \div HEX = 0
    <3>1. itoa(k) = <<k>>
      BY <2>2, <2>4, NumeralOf
    <3>2. <<k>>[1] = k
      OBVIOUS
    <3>. QED BY <2>2, <3>1, <3>2
  <2>5. CASE k \div HEX > 0
    <3>. DEFINE j == k \div HEX
    <3>1. itoa(j) \in Seq(Digits) /\ Len(itoa(j)) \in Nat \ {0}
      <4>. HIDE DEF j
      <4>. QED BY <2>3, NumeralOf DEF Numeral, j
    <3>2. itoa(k) = Append(itoa(j), k % HEX) /\ k % HEX \in Digits
      BY <2>2, <2>5, NumeralOf, Division
    <3>3. itoa(k)[1] = itoa(j)[1]
      <4>. HIDE DEF j
      <4>1. 1 \in 1..Len(itoa(j))
        BY <3>1
      <4>. QED BY <3>1, <3>2, <4>1, AppendProperties
    <3>4. j \in Zeroes
      <4>1. itoa(j)[1] = 0 /\ j # 0 /\ j \in Nat
        BY <2>2, <2>3, <2>5, <3>3
      <4>. HIDE DEF j
      <4>. QED BY <4>1
    <3>. QED BY <2>1, <2>2, <2>3, <3>4
  <2>. QED BY <2>3, <2>4, <2>5
<1>2. itoa(0) = <<0>>
  BY NumeralOf, RandAssumption
<1>3. Len(<<0>>) = 1
  OBVIOUS
<1>. QED BY <1>1, <1>2, <1>3

\* A turn of the loop adds a digit.
LEMMA OneDigitMore ==
  ASSUME NEW n \in Nat, n \div HEX > 0
  PROVE  Len(itoa(n)) = Len(itoa(n \div HEX)) + 1
<1>1. n \div HEX \in Nat /\ n % HEX \in Digits
  BY Division
<1>2. itoa(n) = Append(itoa(n \div HEX), n % HEX) /\ itoa(n \div HEX) \in Seq(Digits)
  BY <1>1, NumeralOf DEF Numeral
<1>. QED BY <1>1, <1>2, AppendProperties

\* A greater number has no fewer digits.
LEMMA NoFewerDigits ==
  ASSUME NEW n \in Nat, NEW m \in 0..n
  PROVE  Len(itoa(m)) <= Len(itoa(n))
<1>. DEFINE Wrong == {k \in Nat : \E l \in 0..k : Len(itoa(l)) > Len(itoa(k))}
<1>1. ASSUME Wrong # {}
      PROVE  FALSE
  <2>1. PICK k \in Wrong : \A l \in Wrong : k <= l
    BY <1>1, SmallestNumber
  <2>2. PICK l \in 0..k : Len(itoa(l)) > Len(itoa(k))
    BY <2>1
  <2>. DEFINE kk == k \div HEX  ll == l \div HEX
  <2>3. k \in Nat /\ l \in Nat /\ kk \in Nat /\ ll \in 0..kk /\ (k > 0 => kk < k)
    <3>1. k \in Nat /\ l \in Nat /\ l <= k
      BY <2>1, <2>2
    <3>2. kk \in Nat /\ ll \in Nat /\ (k > 0 => kk < k)
      BY <3>1, Division
    <3>3. ll <= kk
      BY <3>1, RandAssumption
    <3>. QED BY <3>1, <3>2, <3>3
  <2>4. \A i \in Nat : Len(itoa(i)) = IF i \div HEX > 0 THEN Len(itoa(i \div HEX)) + 1 ELSE 1
    <3>. TAKE i \in Nat
    <3>1. i \div HEX \in Nat /\ i % HEX \in Digits
      BY Division
    <3>2. CASE i \div HEX > 0
      BY <3>2, OneDigitMore
    <3>3. CASE i \div HEX = 0
      BY <3>3, NumeralOf
    <3>. QED BY <3>1, <3>2, <3>3
  <2>5. Len(itoa(k)) \in Nat \ {0} /\ Len(itoa(l)) \in Nat \ {0}
        /\ Len(itoa(kk)) \in Nat \ {0} /\ Len(itoa(ll)) \in Nat \ {0}
    <3>1. \A i \in Nat : Len(itoa(i)) \in Nat \ {0}
      BY NumeralOf
    <3>2. kk \in Nat /\ ll \in Nat
      BY <2>3
    <3>. HIDE DEF kk, ll
    <3>. QED BY <2>3, <3>1, <3>2
  <2>6. Len(itoa(k)) = IF kk > 0 THEN Len(itoa(kk)) + 1 ELSE 1
    BY <2>3, <2>4
  <2>7. Len(itoa(l)) = IF ll > 0 THEN Len(itoa(ll)) + 1 ELSE 1
    BY <2>3, <2>4
  <2>. HIDE DEF kk, ll
  <2>8. ll > 0 /\ kk > 0 /\ Len(itoa(ll)) > Len(itoa(kk))
    BY <2>2, <2>3, <2>5, <2>6, <2>7
  <2>9. kk \in Wrong
    BY <2>3, <2>8
  <2>. QED BY <2>1, <2>3, <2>8, <2>9
<1>2. n \notin Wrong /\ Len(itoa(n)) \in Nat /\ Len(itoa(m)) \in Nat
  <2>1. m \in Nat
    OBVIOUS
  <2>2. Len(itoa(n)) \in Nat /\ Len(itoa(m)) \in Nat
    BY <2>1, NumeralOf
  <2>. QED BY <1>1, <2>2
<1>. QED BY <1>2

----------------------------------------------------------------------------
(* The keys.                                                               *)

\* The strengthening of NeverRootId and FitsBuffer2: as long as there have
\* been no digits but zeroes, there has been one to a draw.
DrawsInv ==
  /\ draws \in Seq(0..RAND_MAX) /\ Len(draws) <= Draws
  /\ ret \in Seq(Digits) /\ Len(ret) >= Len(draws)
  /\ longest \in 0..(Width + 1)
  /\ Len(ret) = Len(draws) \/ \E i \in 1..Len(draws) : ret[i] # 0

\* What a turn of get_random_num's loop appends.
LEMMA DrawAppends ==
  ASSUME DrawsInv, NEW t \in 0..RAND_MAX
  PROVE  /\ itoa(t) \in Seq(Digits) /\ Len(itoa(t)) \in 1..Width
         /\ ret \o itoa(t) \in Seq(Digits)
         /\ Len(ret \o itoa(t)) = Len(ret) + Len(itoa(t))
         /\ \A i \in 1..Len(ret) : (ret \o itoa(t))[i] = ret[i]
         /\ \A i \in 1..Len(itoa(t)) : (ret \o itoa(t))[Len(ret) + i] = itoa(t)[i]
         /\ Append(draws, t) \in Seq(0..RAND_MAX) /\ Len(Append(draws, t)) = Len(draws) + 1
         /\ \A i \in 1..Len(draws) : Append(draws, t)[i] = draws[i]
         /\ Append(draws, t)[Len(draws) + 1] = t
<1>1. t \in Nat /\ RAND_MAX \in Nat
  BY RandAssumption
<1>2. itoa(t) \in Seq(Digits) /\ Len(itoa(t)) \in 1..Width
  <2>1. itoa(t) \in Seq(Digits) /\ Len(itoa(t)) \in Nat \ {0}
    BY <1>1, NumeralOf DEF Numeral
  <2>2. Len(itoa(t)) <= Len(itoa(RAND_MAX))
    BY <1>1, NoFewerDigits
  <2>3. Width = Len(itoa(RAND_MAX)) /\ Width \in Nat
    BY <1>1, NumeralOf DEF Width
  <2>. QED BY <2>1, <2>2, <2>3
<1>3. /\ ret \o itoa(t) \in Seq(Digits)
      /\ Len(ret \o itoa(t)) = Len(ret) + Len(itoa(t))
      /\ \A i \in 1..Len(ret) : (ret \o itoa(t))[i] = ret[i]
      /\ \A i \in 1..Len(itoa(t)) : (ret \o itoa(t))[Len(ret) + i] = itoa(t)[i]
  <2>1. ret \in Seq(Digits)
    BY DEF DrawsInv
  <2>. QED BY <1>2, <2>1, Concatenation
<1>4. /\ Append(draws, t) \in Seq(0..RAND_MAX) /\ Len(Append(draws, t)) = Len(draws) + 1
      /\ \A i \in 1..Len(draws) : Append(draws, t)[i] = draws[i]
      /\ Append(draws, t)[Len(draws) + 1] = t
  BY AppendProperties DEF DrawsInv
<1>. QED BY <1>2, <1>3, <1>4

LEMMA DrawsStart == RandInit => DrawsInv
<1>. SUFFICES ASSUME RandInit
              PROVE  DrawsInv
  OBVIOUS
<1>1. Width \in Nat
  BY RandAssumption, NumeralOf DEF Width
<1>. QED BY <1>1, RandAssumption DEF RandInit, DrawsInv

LEMMA DrawsStep == DrawsInv /\ [Draw]_randVars => DrawsInv'
<1>. SUFFICES ASSUME DrawsInv, [Draw]_randVars
              PROVE  DrawsInv'
  OBVIOUS
<1>1. ASSUME Draw
      PROVE  DrawsInv'
  <2>1. Len(draws) < Draws
    BY <1>1 DEF Draw
  <2>2. PICK t \in 0..RAND_MAX :
          /\ draws' = Append(draws, t)
          /\ ret' = ret \o itoa(t)
          /\ longest' = IF Len(itoa(t)) + 1 > longest THEN Len(itoa(t)) + 1 ELSE longest
    BY <1>1 DEF Draw
  <2>3. /\ Len(itoa(t)) \in 1..Width
        /\ ret' \in Seq(Digits)
        /\ Len(ret') = Len(ret) + Len(itoa(t))
        /\ \A i \in 1..Len(ret) : ret'[i] = ret[i]
        /\ \A i \in 1..Len(itoa(t)) : ret'[Len(ret) + i] = itoa(t)[i]
        /\ draws' \in Seq(0..RAND_MAX) /\ Len(draws') = Len(draws) + 1
    BY <2>2, DrawAppends
  <2>4. /\ Width \in Nat /\ Len(ret) \in Nat /\ Len(draws) \in Nat /\ Draws \in Nat
        /\ Len(ret) >= Len(draws) /\ longest \in 0..(Width + 1)
    <3>1. Width \in Nat
      BY RandAssumption, NumeralOf DEF Width
    <3>. QED BY <3>1, RandAssumption DEF DrawsInv
  <2>5. /\ Len(draws') <= Draws /\ Len(ret') >= Len(draws')
        /\ longest' \in 0..(Width + 1)
    BY <2>1, <2>2, <2>3, <2>4
  <2>6. Len(ret') = Len(draws') \/ \E i \in 1..Len(draws') : ret'[i] # 0
    <3>1. CASE \E i \in 1..Len(draws) : ret[i] # 0
      <4>1. PICK i \in 1..Len(draws) : ret[i] # 0
        BY <3>1
      <4>2. i \in 1..Len(draws') /\ i \in 1..Len(ret)
        BY <2>3, <2>4
      <4>3. ret'[i] # 0
        BY <2>3, <4>1, <4>2
      <4>. QED BY <4>2, <4>3
    <3>2. CASE Len(ret) = Len(draws)
      <4>1. CASE itoa(t)[1] = 0
        <5>1. Len(itoa(t)) = 1
          BY <4>1, FirstDigit, RandAssumption
        <5>. QED BY <2>3, <2>4, <3>2, <5>1
      <4>2. CASE itoa(t)[1] # 0
        <5>1. 1 \in 1..Len(itoa(t))
          BY <2>3, <2>4
        <5>2. ret'[Len(ret) + 1] = itoa(t)[1]
          BY <2>3, <5>1
        <5>3. Len(ret) + 1 \in 1..Len(draws')
          BY <2>3, <2>4, <3>2
        <5>. QED BY <4>2, <5>2, <5>3
      <4>. QED BY <4>1, <4>2
    <3>. QED BY <3>1, <3>2 DEF DrawsInv
  <2>. QED BY <2>3, <2>5, <2>6 DEF DrawsInv, Width
<1>2. CASE UNCHANGED randVars
  BY <1>2 DEF randVars, DrawsInv, Width
<1>. QED BY <1>1, <1>2

LEMMA DrawsAlways == RandSpec => []DrawsInv
BY DrawsStart, DrawsStep, PTL DEF RandSpec

\* With fewer draws than the key has digits, at least two of them (get_random_num
\* makes 13 of the 96), the key of a new blob is not the root's.
THEOREM NoKeyIsTheRoots ==
  ASSUME 0 < Draws, Draws < KeyLength
  PROVE  RandSpec => []NeverRootId
<1>1. DrawsInv => NeverRootId
  <2>. SUFFICES ASSUME DrawsInv, Drawn
                PROVE  /\ Key # << >>
                       /\ Len(Key) = KeyLength =>
                            \E i \in 1..(KeyLength - 1) : Key[i] # 0
    BY DEF NeverRootId
  <2>1. /\ ret \in Seq(Digits) /\ Len(ret) \in Nat /\ Len(ret) >= Draws
        /\ Draws \in Nat /\ KeyLength \in Nat /\ Len(draws) = Draws
    BY RandAssumption DEF DrawsInv, Drawn
  <2>. DEFINE n == IF Len(ret) < KeyLength THEN Len(ret) ELSE KeyLength
  <2>2. n \in 1..Len(ret) /\ n \in Nat /\ (n = KeyLength => Len(ret) >= KeyLength)
    BY <2>1
  <2>3. Key = SubSeq(ret, 1, n)
    BY DEF Key
  <2>4. /\ SubSeq(ret, 1, n) \in Seq(Digits)
        /\ Len(SubSeq(ret, 1, n)) = n
        /\ \A i \in 1..n : SubSeq(ret, 1, n)[i] = ret[i]
    <3>. HIDE DEF n
    <3>. QED BY <2>1, <2>2
  <2>. HIDE DEF n
  <2>5. Key # << >>
    BY <2>2, <2>3, <2>4
  <2>6. ASSUME Len(Key) = KeyLength
        PROVE  \E i \in 1..(KeyLength - 1) : Key[i] # 0
    <3>1. n = KeyLength /\ Len(ret) # Len(draws)
      BY <2>1, <2>2, <2>3, <2>4, <2>6
    <3>2. PICK i \in 1..Len(draws) : ret[i] # 0
      BY <3>1 DEF DrawsInv
    <3>3. i \in 1..(KeyLength - 1) /\ i \in 1..n
      BY <2>1, <3>1
    <3>. QED BY <2>3, <2>4, <3>2, <3>3
  <2>. QED BY <2>5, <2>6
<1>. QED BY <1>1, DrawsAlways, PTL

\* A buffer for the greatest number and its NUL is large enough for all.
THEOREM NumbersFit ==
  ASSUME Width < Buffer2
  PROVE  RandSpec => []FitsBuffer2
<1>1. DrawsInv => FitsBuffer2
  <2>1. Width \in Nat /\ Buffer2 \in Nat
    BY RandAssumption, NumeralOf DEF Width
  <2>. QED BY <2>1 DEF DrawsInv, FitsBuffer2
<1>. QED BY <1>1, DrawsAlways, PTL

\* With the numbers of rand.c and of the C library, 16 and 2^31 - 1, the greatest
\* number has eight digits: get_random_num's nine bytes are just enough.
THEOREM NineBytesAreEnough ==
  ASSUME HEX = 16, RAND_MAX = 8*16*16*16*16*16*16*16 - 1, Buffer2 = 9
  PROVE  RandSpec => []FitsBuffer2
<1>1. ASSUME NEW n \in Nat, n > 0, NEW m \in Nat, m = 16*n + 15, NEW k \in Nat,
             Len(itoa(n)) = k
      PROVE  m > 0 /\ Len(itoa(m)) = k + 1
  <2>1. m > 0 /\ m \div HEX = n
    BY <1>1, SMT
  <2>2. m \div HEX > 0
    BY <1>1, <2>1, Zenon
  <2>3. Len(itoa(m)) = Len(itoa(m \div HEX)) + 1
    BY <2>2, OneDigitMore, Zenon
  <2>. QED BY <1>1, <2>1, <2>3, Zenon
<1>. DEFINE a == 16*7 + 15  b == 16*a + 15  c == 16*b + 15  d == 16*c + 15
            e == 16*d + 15  f == 16*e + 15  g == 16*f + 15
<1>2. Len(itoa(7)) = 1
  <2>1. 7 \div HEX = 0
    BY SMT
  <2>2. itoa(7) = <<7>>
    BY <2>1, NumeralOf
  <2>. QED BY <2>2
<1>3. RAND_MAX = g
  BY SMT
<1>4. a \in Nat /\ a > 0 /\ Len(itoa(a)) = 2
  <2>1. a \in Nat /\ a = 16*7 + 15
    BY <1>2, SMT
  <2>. HIDE DEF a
  <2>2. a > 0 /\ Len(itoa(a)) = 1 + 1
    BY <1>1, <1>2, <2>1, 7 \in Nat, 7 > 0, 1 \in Nat, Zenon
  <2>. QED BY <2>1, <2>2
<1>. HIDE DEF a
<1>5. b \in Nat /\ b > 0 /\ Len(itoa(b)) = 3
  <2>1. b \in Nat /\ b = 16*a + 15
    BY <1>4, SMT
  <2>. HIDE DEF b
  <2>2. b > 0 /\ Len(itoa(b)) = 2 + 1
    BY <1>1, <1>4, <2>1, 2 \in Nat, Zenon
  <2>. QED BY <2>1, <2>2
<1>. HIDE DEF b
<1>6. c \in Nat /\ c > 0 /\ Len(itoa(c)) = 4
  <2>1. c \in Nat /\ c = 16*b + 15
    BY <1>5, SMT
  <2>. HIDE DEF c
  <2>2. c > 0 /\ Len(itoa(c)) = 3 + 1
    BY <1>1, <1>5, <2>1, 3 \in Nat, Zenon
  <2>. QED BY <2>1, <2>2
<1>. HIDE DEF c
<1>7. d \in Nat /\ d > 0 /\ Len(itoa(d)) = 5
  <2>1. d \in Nat /\ d = 16*c + 15
    BY <1>6, SMT
  <2>. HIDE DEF d
  <2>2. d > 0 /\ Len(itoa(d)) = 4 + 1
    BY <1>1, <1>6, <2>1, 4 \in Nat, Zenon
  <2>. QED BY <2>1, <2>2
<1>. HIDE DEF d
<1>8. e \in Nat /\ e > 0 /\ Len(itoa(e)) = 6
  <2>1. e \in Nat /\ e = 16*d + 15
    BY <1>7, SMT
  <2>. HIDE DEF e
  <2>2. e > 0 /\ Len(itoa(e)) = 5 + 1
    BY <1>1, <1>7, <2>1, 5 \in Nat, Zenon
  <2>. QED BY <2>1, <2>2
<1>. HIDE DEF e
<1>9. f \in Nat /\ f > 0 /\ Len(itoa(f)) = 7
  <2>1. f \in Nat /\ f = 16*e + 15
    BY <1>8, SMT
  <2>. HIDE DEF f
  <2>2. f > 0 /\ Len(itoa(f)) = 6 + 1
    BY <1>1, <1>8, <2>1, 6 \in Nat, Zenon
  <2>. QED BY <2>1, <2>2
<1>. HIDE DEF f
<1>10. g \in Nat /\ g > 0 /\ Len(itoa(g)) = 8
  <2>1. g \in Nat /\ g = 16*f + 15
    BY <1>9, SMT
  <2>. HIDE DEF g
  <2>2. g > 0 /\ Len(itoa(g)) = 7 + 1
    BY <1>1, <1>9, <2>1, 7 \in Nat, Zenon
  <2>. QED BY <2>1, <2>2
<1>. HIDE DEF g
<1>11. Width < Buffer2
  <2>1. Width = Len(itoa(g))
    BY <1>3, <1>10, NumeralOf DEF Width
  <2>. QED BY <1>10, <2>1
<1>. QED BY <1>11, NumbersFit

----------------------------------------------------------------------------
(* Reading the draws back from a key.                                      *)

\* What f says of the first digits of s.
Values(s, f) == f = [i \in 0..Len(s) |-> IF i = 0 THEN 0 ELSE HEX * f[i-1] + s[i]]

\* The recursion of Value has a solution, which is read off Value;
LEMMA ValuesExist ==
  ASSUME NEW s \in Seq(Nat)
  PROVE  \E f \in [0..Len(s) -> Nat] : Values(s, f)
<1>. DEFINE Has(m) == \E f \in [0..m -> Nat] :
                         \A i \in 0..m : f[i] = IF i = 0 THEN 0 ELSE HEX * f[i-1] + s[i]
            Lacking == {m \in 0..Len(s) : ~ Has(m)}
<1>1. ASSUME Lacking # {}
      PROVE  FALSE
  <2>1. PICK m \in Lacking : \A l \in Lacking : m <= l
    <3>1. Lacking \in SUBSET Nat
      OBVIOUS
    <3>. HIDE DEF Lacking
    <3>. QED BY <1>1, <3>1, SmallestNumber
  <2>2. Has(0)
    <3>. DEFINE f == [i \in 0..0 |-> 0]
    <3>1. f \in [0..0 -> Nat] /\ \A i \in 0..0 : f[i] = IF i = 0 THEN 0 ELSE HEX * f[i-1] + s[i]
      OBVIOUS
    <3>. QED BY <3>1
  <2>3. m \in 1..Len(s) /\ m - 1 \in 0..Len(s) /\ Has(m - 1)
    <3>1. m \in 0..Len(s) /\ ~ Has(m) /\ Len(s) \in Nat
      BY <2>1
    <3>. HIDE DEF Has
    <3>2. m \in 1..Len(s) /\ m - 1 \in 0..Len(s)
      BY <2>2, <3>1
    <3>3. m - 1 \notin Lacking
      BY <2>1, <3>1
    <3>. QED BY <3>2, <3>3
  <2>4. PICK g \in [0..(m-1) -> Nat] :
            \A i \in 0..(m-1) : g[i] = IF i = 0 THEN 0 ELSE HEX * g[i-1] + s[i]
    BY <2>3
  <2>. DEFINE f == [i \in 0..m |-> IF i = m THEN HEX * g[m-1] + s[m] ELSE g[i]]
  <2>5. f \in [0..m -> Nat]
    <3>1. s[m] \in Nat /\ g[m-1] \in Nat /\ HEX \in Nat
      BY <2>3, RandAssumption
    <3>2. \A h, x, d \in Nat : h * x + d \in Nat
      OBVIOUS
    <3>3. HEX * g[m-1] + s[m] \in Nat
      BY <3>1, <3>2, Zenon
    <3>. QED BY <2>3, <3>3
  <2>6. \A i \in 0..m : f[i] = IF i = 0 THEN 0 ELSE HEX * f[i-1] + s[i]
    BY <2>3, <2>4
  <2>7. Has(m)
    BY <2>5, <2>6
  <2>. QED BY <2>1, <2>7
<1>2. Len(s) \in 0..Len(s)
  OBVIOUS
<1>3. Has(Len(s))
  BY <1>1, <1>2
<1>4. PICK f \in [0..Len(s) -> Nat] :
          \A i \in 0..Len(s) : f[i] = IF i = 0 THEN 0 ELSE HEX * f[i-1] + s[i]
  BY <1>3
<1>5. Values(s, f)
  BY <1>4 DEF Values
<1>. QED BY <1>5

LEMMA ValueIsLast ==
  ASSUME NEW s \in Seq(Nat), NEW f, Values(s, f)
  PROVE  Value(s) = f[Len(s)]
<1>. DEFINE v == CHOOSE g : Values(s, g)
            Differ == {i \in 0..Len(s) : v[i] # f[i]}
<1>1. Value(s) = v[Len(s)]
  BY DEF Value, Values
<1>2. Values(s, v)
  <2>. QED BY Zenon
<1>. HIDE DEF v
<1>3. /\ \A i \in 0..Len(s) : v[i] = IF i = 0 THEN 0 ELSE HEX * v[i-1] + s[i]
      /\ \A i \in 0..Len(s) : f[i] = IF i = 0 THEN 0 ELSE HEX * f[i-1] + s[i]
  BY <1>2 DEF Values
<1>4. ASSUME Differ # {}
      PROVE  FALSE
  <2>1. PICK m \in Differ : \A i \in Differ : m <= i
    <3>1. Differ \in SUBSET Nat
      OBVIOUS
    <3>. HIDE DEF Differ
    <3>. QED BY <1>4, <3>1, SmallestNumber
  <2>2. m \in 0..Len(s) /\ m # 0
    BY <1>3, <2>1
  <2>3. m - 1 \in 0..Len(s) /\ m - 1 \notin Differ
    BY <2>1, <2>2
  <2>. QED BY <1>3, <2>1, <2>2, <2>3
<1>. QED BY <1>1, <1>4

\* so that one digit more means HEX times the value and the digit.
LEMMA ValueOfAppend ==
  ASSUME NEW s \in Seq(Nat), NEW d \in Nat
  PROVE  /\ Value(s) \in Nat
         /\ Value(Append(s, d)) = HEX * Value(s) + d
<1>. DEFINE t == Append(s, d)
<1>1. PICK f \in [0..Len(s) -> Nat] : Values(s, f)
  BY ValuesExist
<1>2. PICK g \in [0..Len(t) -> Nat] : Values(t, g)
  <2>1. t \in Seq(Nat)
    OBVIOUS
  <2>. HIDE DEF t
  <2>. QED BY <2>1, ValuesExist
<1>3. /\ t \in Seq(Nat) /\ Len(t) = Len(s) + 1 /\ t[Len(s) + 1] = d
      /\ \A i \in 1..Len(s) : t[i] = s[i]
  BY AppendProperties
<1>4. \A i \in 0..Len(t) : g[i] = IF i = 0 THEN 0 ELSE HEX * g[i-1] + t[i]
  BY <1>2 DEF Values
<1>. HIDE DEF t
<1>5. Value(s) = f[Len(s)] /\ Value(t) = g[Len(t)]
  BY <1>1, <1>2, <1>3, ValueIsLast
<1>. DEFINE h == [i \in 0..Len(s) |-> g[i]]
<1>6. Values(s, h)
  <2>1. \A i \in 0..Len(s) : h[i] = IF i = 0 THEN 0 ELSE HEX * h[i-1] + s[i]
    <3>. TAKE i \in 0..Len(s)
    <3>1. i \in 0..Len(t) /\ (i # 0 => i \in 1..Len(s) /\ i - 1 \in 0..Len(s))
      BY <1>3
    <3>. QED BY <1>3, <1>4, <3>1
  <2>2. h = [i \in 0..Len(s) |-> h[i]]
    OBVIOUS
  <2>. HIDE DEF h
  <2>. QED BY <2>1, <2>2 DEF Values
<1>7. Value(s) = g[Len(s)]
  <2>1. Value(s) = h[Len(s)]
    <3>. HIDE DEF h
    <3>. QED BY <1>6, ValueIsLast
  <2>2. Len(s) \in 0..Len(s)
    OBVIOUS
  <2>. QED BY <2>1, <2>2
<1>8. g[Len(t)] = HEX * g[Len(s)] + d
  <2>1. Len(t) \in 0..Len(t) /\ Len(t) # 0 /\ Len(t) - 1 = Len(s)
    BY <1>3
  <2>. QED BY <1>3, <1>4, <2>1
<1>9. f[Len(s)] \in Nat
  <2>1. Len(s) \in 0..Len(s)
    OBVIOUS
  <2>. QED BY <1>1, <2>1
<1>. QED BY <1>5, <1>7, <1>8, <1>9 DEF t

\* The value of a number's numeral is the number.
LEMMA ValueOfNumeral ==
  ASSUME NEW n \in Nat
  PROVE  Value(itoa(n)) = n
<1>. DEFINE Wrong == {k \in Nat : Value(itoa(k)) # k}
<1>1. \A d \in Nat : Value(<<d>>) = d
  <2>. TAKE d \in Nat
  <2>1. << >> \in Seq(Nat) /\ Append(<< >>, d) = <<d>> /\ Len(<< >>) = 0
    OBVIOUS
  <2>2. PICK f \in [0..Len(<< >>) -> Nat] : Values(<< >>, f)
    BY <2>1, ValuesExist
  <2>3. Value(<< >>) = f[0] /\ f[0] = 0
    <3>1. Value(<< >>) = f[Len(<< >>)]
      BY <2>1, <2>2, ValueIsLast
    <3>2. f[0] = 0
      BY <2>1, <2>2 DEF Values
    <3>. QED BY <2>1, <3>1, <3>2
  <2>4. Value(Append(<< >>, d)) = HEX * Value(<< >>) + d
    BY <2>1, ValueOfAppend
  <2>. QED BY <2>1, <2>3, <2>4, RandAssumption
<1>2. ASSUME Wrong # {}
      PROVE  FALSE
  <2>1. PICK k \in Wrong : \A l \in Wrong : k <= l
    BY <1>2, SmallestNumber
  <2>. DEFINE m == k \div HEX  d == k % HEX
  <2>2. /\ k \in Nat /\ m \in Nat /\ d \in Digits /\ k = HEX * m + d
        /\ (k > 0 => m < k) /\ m <= k /\ (m = 0 => d = k)
    BY <2>1, Division
  <2>3. CASE m = 0
    <3>1. itoa(k) = <<k>>
      BY <2>2, <2>3, NumeralOf
    <3>. QED BY <1>1, <2>1, <2>2, <3>1
  <2>4. CASE m > 0
    <3>1. itoa(k) = Append(itoa(m), d)
      BY <2>2, <2>4, NumeralOf
    <3>. HIDE DEF m, d
    <3>2. itoa(m) \in Seq(Digits)
      BY <2>2, NumeralOf DEF Numeral
    <3>3. itoa(m) \in Seq(Nat) /\ d \in Nat
      BY <2>2, <3>2, RandAssumption DEF Digits
    <3>4. Value(itoa(k)) = HEX * Value(itoa(m)) + d
      BY <3>1, <3>3, ValueOfAppend
    <3>5. m \notin Wrong
      BY <2>1, <2>2, <2>4
    <3>. QED BY <2>1, <2>2, <3>4, <3>5
  <2>. QED BY <2>2, <2>3, <2>4
<1>. QED BY <1>2

\* None of the first j draws is a short one.
FullUpto(j) == \A i \in 1..j : Len(itoa(draws[i])) = Width

\* The strengthening of FullDrawsReadBack: the digits of such draws are where
\* they would be if all had one length.
PlacesInv ==
  /\ FullUpto(Len(draws)) => Len(ret) = Len(draws) * Width
  /\ \A j \in 1..Len(draws) : FullUpto(j) =>
        /\ j * Width <= Len(ret)
        /\ \A q \in 1..Width : ret[(j - 1) * Width + q] = itoa(draws[j])[q]

LEMMA Multiples ==
  ASSUME NEW w \in Nat, NEW j \in Nat \ {0}
  PROVE  /\ j * w \in Nat /\ (j - 1) * w \in Nat /\ (j - 1) * w + w = j * w
         /\ (j + 1) * w = j * w + w
BY SMT

LEMMA PlacesStep ==
  ASSUME DrawsInv, PlacesInv, [Draw]_randVars
  PROVE  PlacesInv'
<1>1. ASSUME Draw
      PROVE  PlacesInv'
  <2>1. PICK t \in 0..RAND_MAX : draws' = Append(draws, t) /\ ret' = ret \o itoa(t)
    BY <1>1 DEF Draw
  <2>0. PICK k \in Nat : k = Len(draws)
    BY DEF DrawsInv
  <2>2. /\ Len(itoa(t)) \in 1..Width
        /\ Len(ret') = Len(ret) + Len(itoa(t))
        /\ \A i \in 1..Len(ret) : ret'[i] = ret[i]
        /\ \A i \in 1..Len(itoa(t)) : ret'[Len(ret) + i] = itoa(t)[i]
        /\ Len(draws') = k + 1
        /\ \A i \in 1..k : draws'[i] = draws[i]
        /\ draws'[k + 1] = t
    BY <2>0, <2>1, DrawAppends
  <2>3. /\ Width \in Nat /\ Len(ret) \in Nat
        /\ k * Width \in Nat /\ (k + 1) * Width = k * Width + Width
    <3>1. Width \in Nat /\ Len(ret) \in Nat
      <4>1. Width \in Nat
        BY RandAssumption, NumeralOf DEF Width
      <4>. QED BY <4>1 DEF DrawsInv
    <3>2. (k + 1) - 1 = k /\ k + 1 \in Nat \ {0}
      BY <3>1
    <3>3. k * Width \in Nat /\ k * Width + Width = (k + 1) * Width
      BY <3>1, <3>2, Multiples
    <3>. QED BY <3>1, <3>3
  <2>4. \A j \in 1..k : FullUpto(j)' => FullUpto(j)
    BY <2>2, <2>3 DEF FullUpto
  <2>5. FullUpto(k + 1)' => FullUpto(k) /\ Len(itoa(t)) = Width
    BY <2>2, <2>3 DEF FullUpto
  <2>6. FullUpto(k) => Len(ret) = k * Width
    BY <2>0 DEF PlacesInv
  <2>7. FullUpto(Len(draws))' => Len(ret') = Len(draws') * Width
    <3>1. FullUpto(Len(draws))' = FullUpto(k + 1)'
      BY <2>2 DEF FullUpto
    <3>. QED BY <2>2, <2>3, <2>5, <2>6, <3>1
  <2>8. ASSUME NEW j \in 1..(k + 1), FullUpto(j)'
        PROVE  /\ j * Width <= Len(ret')
               /\ \A q \in 1..Width : ret'[(j - 1) * Width + q] = itoa(draws'[j])[q]
    <3>1. CASE j = k + 1
      <4>1. Len(ret) = k * Width /\ Len(itoa(t)) = Width /\ j - 1 = k /\ draws'[j] = t
        BY <2>2, <2>3, <2>5, <2>6, <2>8, <3>1
      <4>. QED BY <2>2, <2>3, <3>1, <4>1
    <3>2. CASE j # k + 1
      <4>1. j \in 1..k
        BY <2>3, <3>2
      <4>2. /\ j * Width <= Len(ret)
            /\ \A q \in 1..Width : ret[(j - 1) * Width + q] = itoa(draws[j])[q]
        BY <2>0, <2>4, <2>8, <4>1 DEF PlacesInv
      <4>3. j * Width \in Nat /\ (j - 1) * Width \in Nat /\ (j - 1) * Width + Width = j * Width
        BY <2>3, <4>1, Multiples
      <4>4. \A q \in 1..Width : (j - 1) * Width + q \in 1..Len(ret)
        BY <2>3, <4>2, <4>3
      <4>5. draws'[j] = draws[j]
        BY <2>2, <4>1
      <4>6. j * Width <= Len(ret')
        BY <2>2, <2>3, <4>2, <4>3
      <4>. QED BY <2>2, <4>2, <4>4, <4>5, <4>6
    <3>. QED BY <3>1, <3>2
  <2>. QED BY <2>2, <2>7, <2>8 DEF PlacesInv, FullUpto, Width
<1>2. CASE UNCHANGED randVars
  BY <1>2 DEF randVars, PlacesInv, FullUpto, Width
<1>. QED BY <1>1, <1>2

\* The draws in front of the first short one are the values of the key's
\* digits at their places.
THEOREM DrawsReadBack == RandSpec => []FullDrawsReadBack
<1>1. RandInit => PlacesInv
  <2>. SUFFICES ASSUME RandInit
                PROVE  PlacesInv
    OBVIOUS
  <2>1. Width \in Nat
    BY RandAssumption, NumeralOf DEF Width
  <2>2. Len(draws) = 0 /\ Len(ret) = 0 /\ 0 * Width = 0
    BY <2>1 DEF RandInit
  <2>. QED BY <2>2 DEF PlacesInv
<1>2. DrawsInv /\ PlacesInv /\ [Draw]_randVars => PlacesInv'
  BY PlacesStep
<1>3. DrawsInv /\ PlacesInv => FullDrawsReadBack
  <2>. SUFFICES ASSUME DrawsInv, PlacesInv, Drawn, NEW j \in 1..Draws,
                       j * Width <= KeyLength, FullUpto(j)
                PROVE  Value(SubSeq(Key, (j - 1) * Width + 1, j * Width)) = draws[j]
    BY DEF FullDrawsReadBack, FullUpto
  <2>. DEFINE n == IF Len(ret) < KeyLength THEN Len(ret) ELSE KeyLength
              a == (j - 1) * Width  b == j * Width  num == itoa(draws[j])
              part == SubSeq(Key, a + 1, b)
  <2>1. /\ j \in 1..Len(draws) /\ draws[j] \in Nat
        /\ Width \in Nat /\ KeyLength \in Nat /\ Len(ret) \in Nat /\ ret \in Seq(Digits)
    <3>1. Width \in Nat
      BY RandAssumption, NumeralOf DEF Width
    <3>2. j \in 1..Len(draws) /\ draws \in Seq(0..RAND_MAX)
      BY DEF Drawn, DrawsInv
    <3>3. draws[j] \in 0..RAND_MAX
      BY <3>2, ElementOfSeq
    <3>. QED BY <3>1, <3>2, <3>3, RandAssumption DEF DrawsInv
  <2>2. b <= Len(ret) /\ \A q \in 1..Width : ret[a + q] = num[q]
    BY <2>1 DEF PlacesInv
  <2>3. a \in Nat /\ b \in Nat /\ a + Width = b
    BY <2>1, Multiples
  <2>4. num \in Seq(Digits) /\ Len(num) = Width
    <3>1. Len(num) = Width
      BY <2>1 DEF FullUpto
    <3>2. num \in Seq(Digits)
      BY <2>1, NumeralOf DEF Numeral
    <3>. QED BY <3>1, <3>2
  <2>5. Value(num) = draws[j]
    BY <2>1, ValueOfNumeral
  <2>6. b <= n /\ n \in Nat /\ n <= Len(ret) /\ Key = SubSeq(ret, 1, n)
    <3>1. Key = SubSeq(ret, 1, n)
      BY DEF Key
    <3>2. b <= KeyLength
      OBVIOUS
    <3>. HIDE DEF a, b, num
    <3>. QED BY <2>1, <2>2, <3>1, <3>2
  <2>. HIDE DEF n, a, b, num
  <2>7. /\ Key \in Seq(Digits) /\ Len(Key) = n
        /\ \A i \in 1..n : Key[i] = ret[i]
    BY <2>1, <2>6
  <2>8. \A i \in (a + 1)..b : Key[i] \in Digits
    BY <2>3, <2>6, <2>7, ElementOfSeq
  <2>9. /\ part \in Seq(Digits)
        /\ Len(part) = IF a + 1 <= b THEN b - (a + 1) + 1 ELSE 0
        /\ \A i \in 1..(b - (a + 1) + 1) : part[i] = Key[(a + 1) + i - 1]
    BY <2>3, <2>8, SubSeqProperties
  <2>. HIDE DEF part
  <2>10. b - (a + 1) + 1 = Width /\ Len(part) = Width
    BY <2>1, <2>3, <2>9
  <2>11. \A i \in 1..Len(part) : part[i] = num[i]
    <3>. TAKE i \in 1..Len(part)
    <3>1. i \in 1..Width /\ (a + 1) + i - 1 = a + i /\ a + i \in 1..n
      BY <2>1, <2>3, <2>6, <2>10
    <3>2. part[i] = Key[a + i]
      BY <2>9, <2>10, <3>1
    <3>3. Key[a + i] = ret[a + i] /\ ret[a + i] = num[i]
      BY <2>2, <2>7, <3>1
    <3>. QED BY <3>2, <3>3
  <2>12. part = num
    BY <2>4, <2>9, <2>10, <2>11, SeqEqual
  <2>. QED BY <2>5, <2>12 DEF part, a, b
<1>. QED BY <1>1, <1>2, <1>3, DrawsAlways, PTL DEF RandSpec

----------------------------------------------------------------------------
(* The characters of a path.                                               *)

Chars == Letters \cup {"/"}
Word  == Seq(Letters) \ {<< >>}

LEMMA WordsAreStrings ==
  ASSUME NEW w \in Word
  PROVE  /\ w \in Seq(Letters) /\ w \in Seq(Chars) /\ Len(w) \in Nat \ {0}
         /\ \A i \in 1..Len(w) : w[i] # "/"
<1>1. w \in Seq(Letters) /\ w # << >>
  BY DEF Word
<1>2. w \in Seq(Chars)
  BY <1>1, SeqMonotonic DEF Chars
<1>3. Len(w) \in Nat \ {0}
  BY <1>1, EmptySeq
<1>4. \A i \in 1..Len(w) : w[i] \in Letters
  BY <1>1, ElementOfSeq
<1>. QED BY <1>1, <1>2, <1>3, <1>4, PathStringsAssumption

LEMMA SlashIsString == Slash \in Seq(Chars) /\ Len(Slash) = 1 /\ Slash[1] = "/" /\ Slash # << >>
BY DEF Slash, Chars

LEMMA Associative ==
  ASSUME NEW s \in Seq(Chars), NEW t \in Seq(Chars), NEW u \in Seq(Chars)
  PROVE  (s \o t) \o u = s \o (t \o u)
OBVIOUS

\* What f says of the first names of l.
Joins(l, f) == f = [i \in 0..Len(l) |-> IF i = 0 THEN << >> ELSE f[i-1] \o Slash \o l[i]]

\* The recursion of Join has a solution, which is read off Join;
LEMMA JoinsExist ==
  ASSUME NEW l \in Seq(Word)
  PROVE  \E f \in [0..Len(l) -> Seq(Chars)] : Joins(l, f)
<1>. DEFINE Has(m) == \E f \in [0..m -> Seq(Chars)] :
                         \A i \in 0..m : f[i] = IF i = 0 THEN << >> ELSE f[i-1] \o Slash \o l[i]
            Lacking == {m \in 0..Len(l) : ~ Has(m)}
<1>1. ASSUME Lacking # {}
      PROVE  FALSE
  <2>1. PICK m \in Lacking : \A k \in Lacking : m <= k
    <3>1. Lacking \in SUBSET Nat
      OBVIOUS
    <3>. HIDE DEF Lacking
    <3>. QED BY <1>1, <3>1, SmallestNumber
  <2>2. Has(0)
    <3>. DEFINE f == [i \in 0..0 |-> << >>]
    <3>1. f \in [0..0 -> Seq(Chars)]
      OBVIOUS
    <3>2. \A i \in 0..0 : i = 0 /\ f[i] = << >>
      OBVIOUS
    <3>. HIDE DEF f
    <3>. QED BY <3>1, <3>2
  <2>3. m \in 1..Len(l) /\ m - 1 \in 0..Len(l) /\ Has(m - 1)
    <3>1. m \in 0..Len(l) /\ ~ Has(m) /\ Len(l) \in Nat
      BY <2>1
    <3>. HIDE DEF Has
    <3>2. m \in 1..Len(l) /\ m - 1 \in 0..Len(l)
      BY <2>2, <3>1
    <3>3. m - 1 \notin Lacking
      BY <2>1, <3>1
    <3>. QED BY <3>2, <3>3
  <2>4. PICK g \in [0..(m-1) -> Seq(Chars)] :
            \A i \in 0..(m-1) : g[i] = IF i = 0 THEN << >> ELSE g[i-1] \o Slash \o l[i]
    BY <2>3
  <2>. DEFINE f == [i \in 0..m |-> IF i = m THEN g[m-1] \o Slash \o l[m] ELSE g[i]]
  <2>5. f \in [0..m -> Seq(Chars)]
    <3>1. l[m] \in Seq(Chars) /\ g[m-1] \in Seq(Chars)
      BY <2>3, ElementOfSeq, WordsAreStrings
    <3>2. g[m-1] \o Slash \o l[m] \in Seq(Chars)
      BY <3>1, SlashIsString, ConcatProperties
    <3>. QED BY <2>3, <3>2
  <2>6. \A i \in 0..m : f[i] = IF i = 0 THEN << >> ELSE f[i-1] \o Slash \o l[i]
    <3>0. m \in Nat /\ m # 0 /\ m \in 0..m /\ m - 1 \in 0..m /\ m - 1 # m
      BY <2>3
    <3>1. /\ f[m] = g[m-1] \o Slash \o l[m] /\ f[m-1] = g[m-1]
          /\ \A i \in 0..(m-1) : f[i] = g[i] /\ (i # 0 => i - 1 \in 0..(m-1))
      <4>1. f[m] = g[m-1] \o Slash \o l[m]
        BY <3>0
      <4>2. \A i \in 0..(m-1) : i \in 0..m /\ i # m /\ (i # 0 => i - 1 \in 0..(m-1))
        BY <3>0
      <4>3. \A i \in 0..(m-1) : f[i] = g[i]
        BY <4>2
      <4>. HIDE DEF f
      <4>. QED BY <3>0, <4>1, <4>2, <4>3
    <3>2. \A i \in 0..m : i = m \/ i \in 0..(m-1)
      BY <2>3
    <3>. HIDE DEF f
    <3>. QED BY <2>4, <3>0, <3>1, <3>2
  <2>7. Has(m)
    <3>. HIDE DEF f
    <3>. QED BY <2>5, <2>6
  <2>. QED BY <2>1, <2>7
<1>2. Len(l) \in 0..Len(l)
  OBVIOUS
<1>3. Has(Len(l))
  BY <1>1, <1>2
<1>4. PICK f \in [0..Len(l) -> Seq(Chars)] :
          \A i \in 0..Len(l) : f[i] = IF i = 0 THEN << >> ELSE f[i-1] \o Slash \o l[i]
  BY <1>3
<1>5. Joins(l, f)
  BY <1>4 DEF Joins
<1>. QED BY <1>5

LEMMA JoinIsLast ==
  ASSUME NEW l \in Seq(Word), NEW f, Joins(l, f)
  PROVE  Join(l) = f[Len(l)]
<1>. DEFINE v == CHOOSE g : Joins(l, g)
            Differ == {i \in 0..Len(l) : v[i] # f[i]}
<1>1. Join(l) = v[Len(l)]
  BY DEF Join, Joins
<1>2. Joins(l, v)
  BY Zenon
<1>. HIDE DEF v
<1>3. /\ \A i \in 0..Len(l) : v[i] = IF i = 0 THEN << >> ELSE v[i-1] \o Slash \o l[i]
      /\ \A i \in 0..Len(l) : f[i] = IF i = 0 THEN << >> ELSE f[i-1] \o Slash \o l[i]
  BY <1>2 DEF Joins
<1>4. ASSUME Differ # {}
      PROVE  FALSE
  <2>1. PICK m \in Differ : \A i \in Differ : m <= i
    <3>1. Differ \in SUBSET Nat
      OBVIOUS
    <3>. HIDE DEF Differ
    <3>. QED BY <1>4, <3>1, SmallestNumber
  <2>2. m \in 0..Len(l) /\ m # 0
    BY <1>3, <2>1
  <2>3. m - 1 \in 0..Len(l) /\ m - 1 \notin Differ
    BY <2>1, <2>2
  <2>. QED BY <1>3, <2>1, <2>2, <2>3
<1>. QED BY <1>1, <1>4

LEMMA JoinOfNone == Join(<< >>) = << >>
<1>1. << >> \in Seq(Word) /\ Len(<< >>) = 0
  OBVIOUS
<1>2. PICK f \in [0..Len(<< >>) -> Seq(Chars)] : Joins(<< >>, f)
  BY <1>1, JoinsExist
<1>3. Join(<< >>) = f[Len(<< >>)]
  BY <1>1, <1>2, JoinIsLast
<1>4. f[0] = << >>
  BY <1>1, <1>2 DEF Joins
<1>. QED BY <1>1, <1>3, <1>4

\* so that one name more means a slash and its characters at the end.
LEMMA JoinOfAppend ==
  ASSUME NEW l \in Seq(Word), NEW w \in Word
  PROVE  /\ Join(l) \in Seq(Chars)
         /\ Join(Append(l, w)) = Join(l) \o Slash \o w
<1>. DEFINE t == Append(l, w)
<1>1. PICK f \in [0..Len(l) -> Seq(Chars)] : Joins(l, f)
  BY JoinsExist
<1>2. PICK g \in [0..Len(t) -> Seq(Chars)] : Joins(t, g)
  <2>1. t \in Seq(Word)
    OBVIOUS
  <2>. HIDE DEF t
  <2>. QED BY <2>1, JoinsExist
<1>3. /\ t \in Seq(Word) /\ Len(t) = Len(l) + 1 /\ t[Len(l) + 1] = w
      /\ \A i \in 1..Len(l) : t[i] = l[i]
  BY AppendProperties
<1>4. \A i \in 0..Len(t) : g[i] = IF i = 0 THEN << >> ELSE g[i-1] \o Slash \o t[i]
  BY <1>2 DEF Joins
<1>. HIDE DEF t
<1>5. Join(l) = f[Len(l)] /\ Join(t) = g[Len(t)]
  BY <1>1, <1>2, <1>3, JoinIsLast
<1>. DEFINE h == [i \in 0..Len(l) |-> g[i]]
<1>6. Joins(l, h)
  <2>1. \A i \in 0..Len(l) : h[i] = IF i = 0 THEN << >> ELSE h[i-1] \o Slash \o l[i]
    <3>. TAKE i \in 0..Len(l)
    <3>1. i \in 0..Len(t) /\ (i # 0 => i \in 1..Len(l) /\ i - 1 \in 0..Len(l))
      BY <1>3
    <3>. QED BY <1>3, <1>4, <3>1
  <2>2. h = [i \in 0..Len(l) |-> h[i]]
    OBVIOUS
  <2>. HIDE DEF h
  <2>. QED BY <2>1, <2>2 DEF Joins
<1>7. Join(l) = g[Len(l)]
  <2>1. Join(l) = h[Len(l)]
    <3>. HIDE DEF h
    <3>. QED BY <1>6, JoinIsLast
  <2>2. Len(l) \in 0..Len(l)
    OBVIOUS
  <2>. QED BY <2>1, <2>2
<1>8. g[Len(t)] = g[Len(l)] \o Slash \o w
  <2>1. Len(t) \in 0..Len(t) /\ Len(t) # 0 /\ Len(t) - 1 = Len(l)
    BY <1>3
  <2>. QED BY <1>3, <1>4, <2>1
<1>9. f[Len(l)] \in Seq(Chars)
  <2>1. Len(l) \in 0..Len(l)
    OBVIOUS
  <2>. QED BY <1>1, <2>1
<1>. QED BY <1>5, <1>7, <1>8, <1>9 DEF t

\* A path ends with its last name, and
LEMMA FrontOfNames ==
  ASSUME NEW l \in Seq(Word), l # << >>
  PROVE  /\ Front(l) \in Seq(Word) /\ Last(l) \in Word
         /\ Len(Front(l)) = Len(l) - 1 /\ Len(l) \in Nat \ {0}
         /\ l = Append(Front(l), Last(l))
<1>1. Len(l) \in Nat \ {0}
  BY EmptySeq
<1>2. Last(l) = l[Len(l)] /\ l[Len(l)] \in Word
  BY <1>1, ElementOfSeq DEF Last
<1>3. Front(l) = SubSeq(l, 1, Len(l) - 1)
  BY DEF Front
<1>4. /\ SubSeq(l, 1, Len(l) - 1) \in Seq(Word)
      /\ Len(SubSeq(l, 1, Len(l) - 1)) = Len(l) - 1
      /\ \A i \in 1..(Len(l) - 1) : SubSeq(l, 1, Len(l) - 1)[i] = l[i]
  <2>. DEFINE n == Len(l) - 1
  <2>1. n \in Nat /\ 1 \in Int /\ n \in Int /\ \A i \in 1..n : l[i] \in Word
    BY <1>1, ElementOfSeq
  <2>. HIDE DEF n
  <2>2. /\ SubSeq(l, 1, n) \in Seq(Word)
        /\ Len(SubSeq(l, 1, n)) = IF 1 <= n THEN n - 1 + 1 ELSE 0
        /\ \A i \in 1..(n - 1 + 1) : SubSeq(l, 1, n)[i] = l[1 + i - 1]
    BY <2>1, SubSeqProperties
  <2>3. n - 1 + 1 = n /\ \A i \in 1..n : 1 + i - 1 = i
    BY <2>1
  <2>. QED BY <2>1, <2>2, <2>3 DEF n
<1>. DEFINE a == Append(Front(l), Last(l))
<1>5. /\ a \in Seq(Word) /\ Len(a) = Len(l)
      /\ \A i \in 1..(Len(l) - 1) : a[i] = l[i]
      /\ a[Len(l)] = l[Len(l)]
  <2>1. /\ a \in Seq(Word) /\ Len(a) = Len(Front(l)) + 1
        /\ \A i \in 1..Len(Front(l)) : a[i] = Front(l)[i]
        /\ a[Len(Front(l)) + 1] = Last(l)
    BY <1>2, <1>3, <1>4, AppendProperties
  <2>. HIDE DEF a
  <2>. QED BY <1>1, <1>2, <1>3, <1>4, <2>1
<1>. HIDE DEF a
<1>6. \A i \in 1..Len(l) : i = Len(l) \/ i \in 1..(Len(l) - 1)
  BY <1>1
<1>7. \A i \in 1..Len(l) : a[i] = l[i]
  BY <1>5, <1>6
<1>8. a = l
  BY <1>5, <1>7, SeqEqual
<1>. QED BY <1>1, <1>2, <1>3, <1>4, <1>8 DEF a

LEMMA JoinOfFront ==
  ASSUME NEW l \in Seq(Word), l # << >>
  PROVE  /\ Join(Front(l)) \in Seq(Chars)
         /\ Join(l) = Join(Front(l)) \o Slash \o Last(l)
BY FrontOfNames, JoinOfAppend

\* begins with its first one.
LEMMA JoinOfTail ==
  ASSUME NEW l \in Seq(Word), l # << >>
  PROVE  /\ Head(l) \in Word /\ Tail(l) \in Seq(Word)
         /\ Join(Tail(l)) \in Seq(Chars)
         /\ Join(l) = Slash \o Head(l) \o Join(Tail(l))
<1>. DEFINE Splits(k) == Join(k) = Slash \o Head(k) \o Join(Tail(k))
            Wrong == {n \in Nat : \E k \in Seq(Word) : k # << >> /\ Len(k) = n /\ ~ Splits(k)}
<1>1. ASSUME Wrong # {}
      PROVE  FALSE
  <2>1. PICK n \in Wrong : \A i \in Wrong : n <= i
    BY <1>1, SmallestNumber
  <2>2. PICK k \in Seq(Word) : k # << >> /\ Len(k) = n /\ ~ Splits(k)
    BY <2>1
  <2>. DEFINE f == Front(k)  w == Last(k)
  <2>3. /\ f \in Seq(Word) /\ w \in Word /\ Len(f) = Len(k) - 1 /\ Len(k) \in Nat \ {0}
        /\ k = Append(f, w)
    BY <2>2, FrontOfNames
  <2>4. Join(f) \in Seq(Chars) /\ Join(k) = Join(f) \o Slash \o w
    BY <2>2, JoinOfFront
  <2>. HIDE DEF f, w
  <2>5. w \in Seq(Chars) /\ Slash \in Seq(Chars)
    BY <2>3, WordsAreStrings, SlashIsString
  <2>6. CASE f = << >>
    <3>1. Head(k) = w /\ Tail(k) = << >>
      BY <2>3, <2>6
    <3>2. Join(k) = Slash \o w
      <4>1. << >> \o Slash = Slash
        BY <2>5, ConcatEmptySeq
      <4>. QED BY <2>4, <2>6, <4>1, JoinOfNone
    <3>3. Slash \o w \in Seq(Chars)
      BY <2>5, ConcatProperties
    <3>4. (Slash \o w) \o << >> = Slash \o w
      BY <3>3, ConcatEmptySeq
    <3>5. Splits(k)
      BY <3>1, <3>2, <3>4, JoinOfNone
    <3>. QED BY <2>2, <3>5
  <2>7. CASE f # << >>
    <3>1. Head(f) \in Word /\ Tail(f) \in Seq(Word)
      BY <2>3, <2>7, HeadTailProperties
    <3>2. Head(k) = Head(f) /\ Tail(k) = Append(Tail(f), w)
      BY <2>3, <2>7
    <3>3. Splits(f)
      <4>1. Len(f) \in Nat /\ Len(f) < n
        BY <2>2, <2>3
      <4>2. Len(f) \notin Wrong
        <5>. HIDE DEF Wrong
        <5>1. n \in Nat /\ ~ (n <= Len(f))
          BY <2>2, <2>3, <4>1
        <5>. QED BY <2>1, <5>1
      <4>. HIDE DEF Splits
      <4>. QED BY <2>3, <2>7, <4>1, <4>2
    <3>. DEFINE h == Slash \o Head(f)  r == Join(Tail(f))
    <3>4. h \in Seq(Chars) /\ r \in Seq(Chars)
      <4>1. Head(f) \in Seq(Chars)
        BY <3>1, WordsAreStrings
      <4>2. h \in Seq(Chars)
        BY <2>5, <4>1, ConcatProperties
      <4>3. r \in Seq(Chars)
        BY <2>3, <3>1, JoinOfAppend
      <4>. QED BY <4>2, <4>3
    <3>5. Join(Tail(k)) = r \o Slash \o w
      BY <2>3, <3>1, <3>2, JoinOfAppend
    <3>6. Join(k) = ((h \o r) \o Slash) \o w
      BY <2>4, <3>3
    <3>. HIDE DEF h, r
    <3>7. ((h \o r) \o Slash) \o w = h \o ((r \o Slash) \o w)
      <4>1. (h \o r) \o Slash = h \o (r \o Slash)
        BY <2>5, <3>4, Associative
      <4>2. r \o Slash \in Seq(Chars)
        BY <2>5, <3>4, ConcatProperties
      <4>3. (h \o (r \o Slash)) \o w = h \o ((r \o Slash) \o w)
        BY <2>5, <3>4, <4>2, Associative, ZenonT(30)
      <4>. QED BY <4>1, <4>3
    <3>8. Splits(k)
      BY <3>2, <3>5, <3>6, <3>7 DEF h
    <3>. QED BY <2>2, <3>8
  <2>. QED BY <2>6, <2>7
<1>2. Head(l) \in Word /\ Tail(l) \in Seq(Word) /\ Len(l) \in Nat
  BY HeadTailProperties
<1>3. Splits(l)
  <2>. HIDE DEF Splits
  <2>. QED BY <1>1, <1>2
<1>4. Join(Tail(l)) \in Seq(Chars)
  BY <1>2, JoinOfAppend
<1>. QED BY <1>2, <1>3, <1>4

----------------------------------------------------------------------------
(* The scans over them.                                                    *)

LEMMA MinAndMax ==
  ASSUME NEW I \in SUBSET Nat, NEW m \in I
  PROVE  /\ (\A i \in I : m <= i) => Min(I) = m
         /\ (\A i \in I : i <= m) => Max(I) = m
<1>1. ASSUME \A i \in I : m <= i
      PROVE  Min(I) = m
  <2>1. Min(I) \in I /\ \A i \in I : Min(I) <= i
    BY <1>1 DEF Min
  <2>2. Min(I) <= m /\ m <= Min(I) /\ m \in Nat /\ Min(I) \in Nat
    BY <1>1, <2>1
  <2>. QED BY <2>2
<1>2. ASSUME \A i \in I : i <= m
      PROVE  Max(I) = m
  <2>1. Max(I) \in I /\ \A i \in I : Max(I) >= i
    BY <1>2 DEF Max
  <2>2. Max(I) >= m /\ Max(I) <= m /\ m \in Nat /\ Max(I) \in Nat
    BY <1>2, <2>1
  <2>. QED BY <2>2
<1>. QED BY <1>1, <1>2

\* Two strings and a slash between them, character by character.
LEMMA SlashBetween ==
  ASSUME NEW a \in Seq(Chars), NEW w \in Seq(Chars)
  PROVE  LET s == a \o Slash \o w
         IN  /\ s \in Seq(Chars) /\ Len(s) = Len(a) + 1 + Len(w)
             /\ \A i \in 1..Len(a) : s[i] = a[i]
             /\ s[Len(a) + 1] = "/"
             /\ \A i \in 1..Len(w) : s[Len(a) + 1 + i] = w[i]
<1>. DEFINE b == a \o Slash
<1>1. Slash \in Seq(Chars)
  BY SlashIsString
<1>2. b \in Seq(Chars)
  BY <1>1, Concatenation
<1>3. /\ Len(b) = Len(a) + Len(Slash)
      /\ \A i \in 1..Len(a) : b[i] = a[i]
      /\ \A i \in 1..Len(Slash) : b[Len(a) + i] = Slash[i]
  BY <1>1, Concatenation
<1>. HIDE DEF b
<1>4. /\ b \o w \in Seq(Chars) /\ Len(b \o w) = Len(b) + Len(w)
      /\ \A i \in 1..Len(b) : (b \o w)[i] = b[i]
      /\ \A i \in 1..Len(w) : (b \o w)[Len(b) + i] = w[i]
  BY <1>2, Concatenation
<1>5. /\ Len(a) \in Nat /\ Len(b) = Len(a) + 1 /\ b[Len(a) + 1] = "/"
      /\ \A i \in 1..Len(a) : i \in 1..Len(b)
      /\ Len(a) + 1 \in 1..Len(b)
  BY <1>3, SlashIsString
<1>6. /\ Len(b \o w) = Len(a) + 1 + Len(w)
      /\ \A i \in 1..Len(a) : (b \o w)[i] = a[i]
      /\ (b \o w)[Len(a) + 1] = "/"
      /\ \A i \in 1..Len(w) : (b \o w)[Len(a) + 1 + i] = w[i]
  BY <1>3, <1>4, <1>5
<1>. QED BY <1>4, <1>6 DEF b

\* get_fn_dir takes a path apart at the slash in front of its last name.
LEMMA SplitOfPath ==
  ASSUME NEW a \in Seq(Chars), NEW w \in Word
  PROVE  Split(a \o Slash \o w) =
           [dir |-> a, fn |-> w, used |-> IF a = << >> THEN 2 ELSE Len(a) + 1]
<1>. DEFINE s == a \o Slash \o w
            I == {i \in 1..Len(s) : s[i] = "/"}
            n == Len(a) + 1
<1>1. /\ w \in Seq(Chars) /\ Len(w) \in Nat \ {0} /\ \A i \in 1..Len(w) : w[i] # "/"
      /\ Len(a) \in Nat /\ n \in Nat
  BY WordsAreStrings
<1>2. /\ s \in Seq(Chars) /\ Len(s) = n + Len(w)
      /\ \A i \in 1..Len(a) : s[i] = a[i]
      /\ s[n] = "/"
      /\ \A i \in 1..Len(w) : s[n + i] = w[i]
  BY <1>1, SlashBetween
<1>. HIDE DEF s
<1>3. LastSlash(s) = n
  <2>1. LastSlash(s) = IF I # {} THEN Max(I) ELSE 0
    BY DEF LastSlash, SelectLastInSeq
  <2>2. n \in I
    BY <1>1, <1>2
  <2>3. \A i \in I : i <= n
    <3>. SUFFICES ASSUME NEW i \in 1..Len(s), i > n
                  PROVE  s[i] # "/"
      BY <1>1, <1>2
    <3>1. i - n \in 1..Len(w) /\ n + (i - n) = i
      BY <1>1, <1>2
    <3>2. s[n + (i - n)] = w[i - n] /\ w[i - n] # "/"
      BY <1>1, <1>2, <3>1
    <3>. QED BY <3>1, <3>2
  <2>4. I \in SUBSET Nat
    BY <1>1, <1>2
  <2>. HIDE DEF I, n
  <2>5. Max(I) = n
    BY <2>2, <2>3, <2>4, MinAndMax
  <2>. QED BY <2>1, <2>2, <2>5
<1>4. SubSeq(s, 1, n - 1) = a
  <2>1. Slash \in Seq(Chars)
    BY SlashIsString
  <2>2. s = a \o (Slash \o w) /\ Slash \o w \in Seq(Chars)
    BY <1>1, <2>1, Associative, Concatenation DEF s
  <2>3. SubSeq(a \o (Slash \o w), 1, Len(a)) = a
    BY <2>2, PartsOfConcatenation
  <2>. QED BY <1>1, <2>2, <2>3
<1>5. SubSeq(s, n + 1, Len(s)) = w
  <2>1. Slash \in Seq(Chars) /\ Len(Slash) = 1
    BY SlashIsString
  <2>2. a \o Slash \in Seq(Chars) /\ Len(a \o Slash) = n
    <3>1. Slash \in Seq(Chars)
      BY SlashIsString
    <3>2. a \o Slash \in Seq(Chars) /\ Len(a \o Slash) = Len(a) + Len(Slash)
      BY <3>1, Concatenation
    <3>. QED BY <2>1, <3>2
  <2>3. SubSeq((a \o Slash) \o w, Len(a \o Slash) + 1, Len((a \o Slash) \o w)) = w
    BY <1>1, <2>2, PartsOfConcatenation
  <2>. QED BY <2>2, <2>3 DEF s
<1>6. (IF n = 1 THEN 2 ELSE n) = IF a = << >> THEN 2 ELSE Len(a) + 1
  BY <1>1, EmptySeq
<1>. HIDE DEF n
<1>7. Split(s) = [dir |-> a, fn |-> w, used |-> IF n = 1 THEN 2 ELSE n]
  BY <1>3, <1>4, <1>5 DEF Split
<1>. QED BY <1>6, <1>7 DEF s, n

\* strtok, or get_first_name, reads a name up to the slash behind it;
LEMMA UptoOfWord ==
  ASSUME NEW w \in Word, NEW t \in Seq(Chars), t = << >> \/ t[1] = "/"
  PROVE  Upto(w \o t) = w /\ Behind(w \o t) = t
<1>. DEFINE s == w \o t
            I == {i \in 1..Len(s) : s[i] = "/"}
            i0 == SelectInSeq(s, LAMBDA c : c = "/")
<1>1. w \in Seq(Chars) /\ Len(w) \in Nat \ {0} /\ \A i \in 1..Len(w) : w[i] # "/"
  BY WordsAreStrings
<1>2. /\ s \in Seq(Chars) /\ Len(s) = Len(w) + Len(t) /\ Len(t) \in Nat
      /\ \A i \in 1..Len(w) : s[i] = w[i]
      /\ \A i \in 1..Len(t) : s[Len(w) + i] = t[i]
  BY <1>1, Concatenation
<1>3. /\ SubSeq(s, 1, Len(w)) = w
      /\ SubSeq(s, Len(w) + 1, Len(s)) = t
  BY <1>1, PartsOfConcatenation
<1>4. i0 = IF I # {} THEN Min(I) ELSE 0
  BY DEF SelectInSeq
<1>5. Upto(s) = IF i0 = 0 THEN s ELSE SubSeq(s, 1, i0 - 1)
  BY DEF Upto
<1>6. CASE t = << >>
  <2>1. s = w
    BY <1>1, <1>6
  <2>2. I = {}
    BY <1>1, <2>1
  <2>3. Upto(s) = w
    BY <1>4, <1>5, <2>1, <2>2
  <2>. HIDE DEF s
  <2>. QED BY <1>3, <2>3 DEF Behind, s
<1>7. CASE t # << >>
  <2>. HIDE DEF s
  <2>1. Len(t) # 0 /\ t[1] = "/"
    BY <1>7
  <2>2. Len(w) + 1 \in I
    BY <1>1, <1>2, <2>1
  <2>3. \A i \in I : Len(w) + 1 <= i
    BY <1>1, <1>2
  <2>4. I \in SUBSET Nat
    BY <1>2
  <2>. HIDE DEF I
  <2>5. Min(I) = Len(w) + 1
    BY <2>2, <2>3, <2>4, MinAndMax
  <2>6. i0 = Len(w) + 1 /\ i0 # 0 /\ i0 - 1 = Len(w)
    BY <1>1, <1>4, <2>2, <2>5
  <2>. HIDE DEF i0
  <2>7. Upto(s) = w
    BY <1>3, <1>5, <2>6
  <2>. QED BY <1>3, <2>7 DEF Behind, s
<1>. QED BY <1>6, <1>7

\* and strtok skips the slash in front of it, if it is there.
LEMMA SkipOfWord ==
  ASSUME NEW w \in Word, NEW t \in Seq(Chars)
  PROVE  /\ SkipSlashes(w \o t) = w \o t
         /\ SkipSlashes(Slash \o w \o t) = w \o t
         /\ w \o t \in Seq(Chars) /\ w \o t # << >>
<1>1. /\ w \in Seq(Chars) /\ Len(w) \in Nat \ {0} /\ 1 \in 1..Len(w)
      /\ \A i \in 1..Len(w) : w[i] # "/"
  BY WordsAreStrings
<1>. DEFINE s == w \o t
<1>2. /\ s \in Seq(Chars) /\ Len(s) = Len(w) + Len(t) /\ Len(t) \in Nat
      /\ \A i \in 1..Len(w) : s[i] = w[i]
  BY <1>1, Concatenation
<1>. HIDE DEF s
<1>3. s[1] # "/" /\ 1 \in 1..Len(s) /\ s # << >>
  BY <1>1, <1>2
<1>4. SkipSlashes(s) = s
  <2>. DEFINE I == {i \in 1..Len(s) : s[i] # "/"}
              i0 == SelectInSeq(s, LAMBDA c : c # "/")
  <2>1. 1 \in I /\ I \in SUBSET Nat /\ \A i \in I : 1 <= i
    BY <1>2, <1>3
  <2>2. i0 = IF I # {} THEN Min(I) ELSE 0
    BY DEF SelectInSeq
  <2>3. SkipSlashes(s) = IF i0 = 0 THEN << >> ELSE SubSeq(s, i0, Len(s))
    BY DEF SkipSlashes
  <2>. HIDE DEF I, i0
  <2>4. Min(I) = 1
    BY <2>1, MinAndMax
  <2>5. SubSeq(s, 1, Len(s)) = s
    BY <1>2, SubSeqFull
  <2>. QED BY <2>1, <2>2, <2>3, <2>4, <2>5
<1>5. SkipSlashes(Slash \o s) = s
  <2>. DEFINE u == Slash \o s
              I == {i \in 1..Len(u) : u[i] # "/"}
              i0 == SelectInSeq(u, LAMBDA c : c # "/")
  <2>0. Slash \in Seq(Chars) /\ s \in Seq(Chars)
    BY <1>2, SlashIsString
  <2>1. /\ Len(u) = Len(Slash) + Len(s)
        /\ \A i \in 1..Len(Slash) : u[i] = Slash[i]
        /\ \A i \in 1..Len(s) : u[Len(Slash) + i] = s[i]
    BY <2>0, Concatenation
  <2>2. SubSeq(u, Len(Slash) + 1, Len(u)) = s
    BY <1>2, <2>0, PartsOfConcatenation
  <2>3. i0 = IF I # {} THEN Min(I) ELSE 0
    BY DEF SelectInSeq
  <2>4. SkipSlashes(u) = IF i0 = 0 THEN << >> ELSE SubSeq(u, i0, Len(u))
    BY DEF SkipSlashes
  <2>. HIDE DEF u, i0
  <2>5. Len(u) = 1 + Len(s) /\ u[1] = "/" /\ u[2] = s[1] /\ 2 \in 1..Len(u)
    <3>1. 1 + 1 = 2
      OBVIOUS
    <3>. QED BY <1>2, <1>3, <2>1, <3>1, SlashIsString
  <2>6. 2 \in I /\ I \in SUBSET Nat /\ \A i \in I : 2 <= i
    BY <1>2, <1>3, <2>5
  <2>. HIDE DEF I
  <2>7. Min(I) = 2
    BY <2>6, MinAndMax
  <2>8. SubSeq(u, 2, Len(u)) = s
    BY <2>2, SlashIsString
  <2>. QED BY <2>3, <2>4, <2>6, <2>7, <2>8 DEF u
<1>6. Slash \o w \o t = Slash \o (w \o t)
  <2>1. Slash \in Seq(Chars)
    BY SlashIsString
  <2>. QED BY <1>1, <2>1, Associative
<1>. QED BY <1>2, <1>3, <1>4, <1>5, <1>6 DEF s

LEMMA SkipOfNothing == SkipSlashes(<< >>) = << >>
<1>. DEFINE I == {i \in 1..Len(<< >>) : << >>[i] # "/"}
            i0 == SelectInSeq(<< >>, LAMBDA c : c # "/")
<1>1. I = {}
  OBVIOUS
<1>2. i0 = IF I # {} THEN Min(I) ELSE 0
  BY DEF SelectInSeq
<1>3. SkipSlashes(<< >>) = IF i0 = 0 THEN << >> ELSE SubSeq(<< >>, i0, Len(<< >>))
  BY DEF SkipSlashes
<1>. QED BY <1>1, <1>2, <1>3

\* The path of the names l without its first slash.
Bare(l) == IF l = << >> THEN << >> ELSE Head(l) \o Join(Tail(l))

\* What the scans make of it, one name after the other.
LEMMA ScansOfNames ==
  ASSUME NEW l \in Seq(Word), l # << >>
  PROVE  /\ Head(l) \in Word /\ Tail(l) \in Seq(Word)
         /\ Bare(l) # << >> /\ Bare(l)[1] # "/"
         /\ SkipSlashes(Bare(l)) = Bare(l) /\ SkipSlashes(Join(l)) = Bare(l)
         /\ Upto(Bare(l)) = Head(l)
         /\ (IF Behind(Bare(l)) = << >> THEN << >> ELSE Tail(Behind(Bare(l)))) = Bare(Tail(l))
         /\ Join(l) # << >> /\ Join(l)[1] = "/" /\ Tail(Join(l)) = Bare(l)
<1>1. ASSUME NEW k \in Seq(Word), k # << >>
      PROVE  /\ Bare(k) = Head(k) \o Join(Tail(k))
             /\ Head(k) \in Word /\ Join(Tail(k)) \in Seq(Chars) /\ Tail(k) \in Seq(Word)
             /\ Bare(k) \in Seq(Chars)
             /\ Join(k) = Slash \o Bare(k)
  <2>1. /\ Head(k) \in Word /\ Tail(k) \in Seq(Word) /\ Join(Tail(k)) \in Seq(Chars)
        /\ Join(k) = Slash \o Head(k) \o Join(Tail(k))
    BY <1>1, JoinOfTail
  <2>2. Bare(k) = Head(k) \o Join(Tail(k))
    BY <1>1 DEF Bare
  <2>3. Head(k) \in Seq(Chars) /\ Slash \in Seq(Chars)
    BY <2>1, WordsAreStrings, SlashIsString
  <2>4. (Slash \o Head(k)) \o Join(Tail(k)) = Slash \o (Head(k) \o Join(Tail(k)))
    BY <2>1, <2>3, Associative
  <2>5. Head(k) \o Join(Tail(k)) \in Seq(Chars)
    BY <2>1, <2>3, Concatenation
  <2>. QED BY <2>1, <2>2, <2>4, <2>5
<1>2. ASSUME NEW s \in Seq(Chars)
      PROVE  /\ Slash \o s # << >> /\ (Slash \o s)[1] = "/" /\ Tail(Slash \o s) = s
  <2>1. Slash = <<"/">> /\ "/" \in Chars
    BY DEF Slash, Chars
  <2>2. ASSUME NEW c \in Chars
        PROVE  <<c>> \o s # << >> /\ (<<c>> \o s)[1] = c /\ Tail(<<c>> \o s) = s
    OBVIOUS
  <2>. QED BY <2>1, <2>2
<1>. DEFINE w == Head(l)  t == Join(Tail(l))
<1>3. /\ w \in Word /\ t \in Seq(Chars) /\ Tail(l) \in Seq(Word) /\ Bare(l) = w \o t
      /\ Bare(l) \in Seq(Chars) /\ Join(l) = Slash \o Bare(l) /\ Join(l) = Slash \o w \o t
  BY <1>1, JoinOfTail
<1>4. t = << >> \/ t[1] = "/"
  <2>1. CASE Tail(l) = << >>
    BY <2>1, JoinOfNone
  <2>2. CASE Tail(l) # << >>
    <3>1. Bare(Tail(l)) \in Seq(Chars) /\ t = Slash \o Bare(Tail(l))
      BY <1>1, <1>3, <2>2
    <3>. QED BY <1>2, <3>1
  <2>. QED BY <2>1, <2>2
<1>5. (IF t = << >> THEN << >> ELSE Tail(t)) = Bare(Tail(l))
  <2>1. CASE Tail(l) = << >>
    BY <2>1, JoinOfNone DEF Bare
  <2>2. CASE Tail(l) # << >>
    <3>1. Bare(Tail(l)) \in Seq(Chars) /\ t = Slash \o Bare(Tail(l))
      BY <1>1, <1>3, <2>2
    <3>. QED BY <1>2, <3>1
  <2>. QED BY <2>1, <2>2
<1>. HIDE DEF w, t
<1>6. Upto(Bare(l)) = w /\ Behind(Bare(l)) = t
  BY <1>3, <1>4, UptoOfWord
<1>7. /\ SkipSlashes(Bare(l)) = Bare(l) /\ SkipSlashes(Join(l)) = Bare(l)
      /\ Bare(l) # << >>
  BY <1>3, SkipOfWord
<1>8. Bare(l)[1] # "/"
  <2>1. /\ w \in Seq(Chars) /\ 1 \in 1..Len(w) /\ w[1] # "/"
    <3>1. w \in Seq(Chars) /\ Len(w) \in Nat \ {0} /\ \A i \in 1..Len(w) : w[i] # "/"
      BY <1>3, WordsAreStrings
    <3>. QED BY <3>1
  <2>2. \A i \in 1..Len(w) : (w \o t)[i] = w[i]
    BY <1>3, <2>1, Concatenation
  <2>. QED BY <1>3, <2>1, <2>2
<1>9. Join(l) # << >> /\ Join(l)[1] = "/" /\ Tail(Join(l)) = Bare(l)
  BY <1>2, <1>3
<1>. QED BY <1>3, <1>5, <1>6, <1>7, <1>8, <1>9 DEF w

LEMMA ScansOfNoNames ==
  /\ Bare(<< >>) = << >> /\ SkipSlashes(Bare(<< >>)) = << >>
  /\ SkipSlashes(Join(<< >>)) = Bare(<< >>)
BY SkipOfNothing, JoinOfNone DEF Bare

\* A name moved from the one list to the other.
LEMMA NextOfList ==
  ASSUME NEW S, NEW s \in Seq(S), NEW t \in Seq(S), t # << >>
  PROVE  /\ Append(s, Head(t)) \in Seq(S)
         /\ Append(s, Head(t)) \o Tail(t) = s \o t
OBVIOUS

----------------------------------------------------------------------------
(* The walk along a path.                                                  *)

\* strtok has returned the first names of the directory's path; what it has
\* still to read, slashes skipped, is the path of the others.
TokensAreRead ==
  \E left \in Seq(Word) :
    /\ tokens \in Seq(Word)
    /\ Front(names) = tokens \o left
    /\ SkipSlashes(rest) = Bare(left)

\* get_first_name has returned nothing yet, or a slash and the first names.
FirstsAreRead ==
  \/ firsts = << >> /\ path = Join(names)
  \/ \E done, left \in Seq(Word) :
       firsts = <<Slash>> \o done /\ names = done \o left /\ path = Bare(left)

\* The strengthening of the three properties.
PathInv ==
  /\ names \in Seq(Word) /\ names # << >>
  /\ pc \in {"split", "overrun", "walk", "names"}
  /\ OverrunIffLong
  /\ pc \in {"split", "walk"} => path = Join(names) /\ firsts = << >>
  /\ pc = "split" => tokens = << >>
  /\ pc = "walk" => TokensAreRead /\ fn = Last(names)
  /\ pc = "names" => tokens = Front(names) /\ fn = Last(names) /\ FirstsAreRead

LEMMA PathStart == PathInit => PathInv
<1>. SUFFICES ASSUME PathInit
              PROVE  PathInv
  OBVIOUS
<1>1. names \in Seq(Word) /\ names # << >>
  BY PathStringsAssumption DEF PathInit, Word
<1>. QED BY <1>1 DEF PathInit, PathInv, OverrunIffLong

\* get_fn_dir leaves the names but the last to strtok, or overruns a buffer.
LEMMA SplitKeeps ==
  ASSUME PathInv, get_fn_dir
  PROVE  PathInv'
<1>. DEFINE f == Front(names)  a == Join(f)  w == Last(names)
<1>1. /\ pc = "split" /\ names \in Seq(Word) /\ names # << >>
      /\ path = Join(names) /\ tokens = << >> /\ firsts = << >>
  BY DEF PathInv, get_fn_dir
<1>2. /\ f \in Seq(Word) /\ w \in Word /\ a \in Seq(Chars) /\ path = a \o Slash \o w
  BY <1>1, FrontOfNames, JoinOfFront
<1>3. names' = names /\ tokens' = tokens /\ path' = path /\ firsts' = firsts
  BY DEF get_fn_dir
<1>. DEFINE used == IF a = << >> THEN 2 ELSE Len(a) + 1
<1>4. /\ dir' = a /\ fn' = w /\ rest' = a
      /\ pc' = IF used > MAX_NAME \/ Len(w) + 1 > MAX_NAME THEN "overrun" ELSE "walk"
  <2>1. Split(path) = [dir |-> a, fn |-> w, used |-> used]
    <3>. HIDE DEF a, w
    <3>. QED BY <1>2, SplitOfPath
  <2>2. Split(path).dir = a /\ Split(path).fn = w /\ Split(path).used = used
    <3>. HIDE DEF a, w, used
    <3>. QED BY <2>1
  <2>. HIDE DEF a, w, used
  <2>. QED BY <2>2 DEF get_fn_dir
<1>5. (used > MAX_NAME \/ Len(w) + 1 > MAX_NAME) <=> (Len(a) >= MAX_NAME \/ Len(w) >= MAX_NAME)
  <2>1. Len(w) \in Nat \ {0}
    <3>. HIDE DEF w
    <3>. QED BY <1>2, WordsAreStrings
  <2>2. Len(a) \in Nat /\ MAX_NAME \in Nat /\ (a = << >> => Len(a) = 0)
    <3>. HIDE DEF a
    <3>. QED BY <1>2, PathStringsAssumption
  <2>. HIDE DEF a, w
  <2>. QED BY <2>1, <2>2
<1>. HIDE DEF used
<1>6. pc' \in {"overrun", "walk"} /\ OverrunIffLong'
  <2>1. pc' \in {"overrun", "walk"}
    BY <1>4
  <2>2. pc' = "overrun" <=> (Len(a) >= MAX_NAME \/ Len(w) >= MAX_NAME)
    <3>. HIDE DEF a, w
    <3>. QED BY <1>4, <1>5
  <2>. QED BY <1>3, <2>1, <2>2 DEF OverrunIffLong
<1>7. TokensAreRead'
  <2>1. tokens' \in Seq(Word) /\ f = tokens' \o f
    <3>. HIDE DEF f
    <3>. QED BY <1>1, <1>2, <1>3
  <2>2. SkipSlashes(rest') = Bare(f)
    <3>. HIDE DEF f
    <3>1. CASE f = << >>
      BY <1>4, <3>1, ScansOfNoNames
    <3>2. CASE f # << >>
      BY <1>2, <1>4, <3>2, ScansOfNames
    <3>. QED BY <3>1, <3>2
  <2>. QED BY <1>2, <1>3, <2>1, <2>2 DEF TokensAreRead
<1>. QED BY <1>1, <1>3, <1>4, <1>6, <1>7 DEF PathInv

\* A call of strtok returns the next of them, or has come to the end.
LEMMA StrtokKeeps ==
  ASSUME PathInv, strtok
  PROVE  PathInv'
<1>1. /\ pc = "walk" /\ names \in Seq(Word) /\ names # << >> /\ TokensAreRead
      /\ path = Join(names) /\ firsts = << >> /\ fn = Last(names)
      /\ OverrunIffLong
  BY DEF PathInv, strtok
<1>2. /\ names' = names /\ fn' = fn /\ path' = path /\ firsts' = firsts
  BY DEF strtok
<1>3. PICK left \in Seq(Word) :
        /\ tokens \in Seq(Word)
        /\ Front(names) = tokens \o left
        /\ SkipSlashes(rest) = Bare(left)
  BY <1>1 DEF TokensAreRead
<1>4. CASE left = << >>
  <2>1. Bare(left) = << >> /\ tokens \o left = tokens
    BY <1>3, <1>4, ScansOfNoNames
  <2>2. pc' = "names" /\ rest' = rest /\ tokens' = tokens
    BY <1>3, <2>1 DEF strtok
  <2>3. tokens' = Front(names)'
    BY <1>2, <1>3, <2>1, <2>2
  <2>4. OverrunIffLong'
    BY <1>1, <1>2, <2>2 DEF OverrunIffLong
  <2>. QED BY <1>1, <1>2, <2>2, <2>3, <2>4 DEF PathInv, FirstsAreRead
<1>5. CASE left # << >>
  <2>. DEFINE b == Bare(left)
  <2>1. /\ b # << >> /\ Upto(b) = Head(left) /\ Tail(left) \in Seq(Word) /\ Head(left) \in Word
        /\ (IF Behind(b) = << >> THEN << >> ELSE Tail(Behind(b))) = Bare(Tail(left))
    BY <1>5, ScansOfNames
  <2>2. pc' = pc /\ tokens' = Append(tokens, Head(left)) /\ rest' = Bare(Tail(left))
    <3>. HIDE DEF b
    <3>1. SkipSlashes(rest) = b
      BY <1>3 DEF b
    <3>2. SkipSlashes(rest) # << >> =>
            /\ tokens' = Append(tokens, Upto(SkipSlashes(rest)))
            /\ rest' = IF Behind(SkipSlashes(rest)) = << >> THEN << >>
                       ELSE Tail(Behind(SkipSlashes(rest)))
            /\ pc' = pc
      BY Zenon DEF strtok
    <3>3. /\ tokens' = Append(tokens, Upto(b)) /\ pc' = pc
          /\ rest' = IF Behind(b) = << >> THEN << >> ELSE Tail(Behind(b))
      BY <2>1, <3>1, <3>2
    <3>4. rest' = Bare(Tail(left))
      BY <2>1, <3>3
    <3>. QED BY <2>1, <3>3, <3>4
  <2>3. tokens' \in Seq(Word) /\ tokens' \o Tail(left) = Front(names)'
    <3>1. /\ Append(tokens, Head(left)) \in Seq(Word)
          /\ Append(tokens, Head(left)) \o Tail(left) = tokens \o left
      BY <1>3, <1>5, NextOfList
    <3>. QED BY <1>2, <1>3, <2>2, <3>1
  <2>4. SkipSlashes(rest') = Bare(Tail(left))
    <3>1. CASE Tail(left) = << >>
      BY <2>2, <3>1, ScansOfNoNames
    <3>2. CASE Tail(left) # << >>
      BY <2>1, <2>2, <3>2, ScansOfNames
    <3>. QED BY <3>1, <3>2
  <2>5. TokensAreRead'
    BY <2>1, <2>3, <2>4 DEF TokensAreRead
  <2>6. OverrunIffLong'
    BY <1>1, <1>2, <2>2 DEF OverrunIffLong
  <2>. QED BY <1>1, <1>2, <2>2, <2>5, <2>6 DEF PathInv
<1>. QED BY <1>4, <1>5

\* A call of get_first_name returns the slash at the beginning or the next name.
LEMMA FirstKeeps ==
  ASSUME PathInv, get_first_name
  PROVE  PathInv'
<1>1. /\ pc = "names" /\ names \in Seq(Word) /\ names # << >> /\ path # << >>
      /\ tokens = Front(names) /\ fn = Last(names) /\ FirstsAreRead /\ OverrunIffLong
  BY DEF PathInv, get_first_name
<1>2. /\ names' = names /\ fn' = fn /\ tokens' = tokens /\ pc' = pc
      /\ path' = First(path).left /\ firsts' = Append(firsts, First(path).first)
  BY DEF get_first_name
<1>3. FirstsAreRead'
  <2>1. CASE firsts = << >> /\ path = Join(names)
    <3>1. path[1] = "/" /\ Tail(path) = Bare(names)
      BY <1>1, <2>1, ScansOfNames
    <3>2. First(path) = [first |-> Slash, left |-> Tail(path)]
      BY <3>1 DEF First
    <3>3. path' = Bare(names) /\ firsts' = Append(<< >>, Slash)
      BY <1>2, <2>1, <3>1, <3>2
    <3>4. << >> \in Seq(Word) /\ << >> \o names = names /\ Append(<< >>, Slash) = <<Slash>> \o << >>
      BY <1>1
    <3>. QED BY <1>1, <1>2, <3>3, <3>4 DEF FirstsAreRead
  <2>2. ASSUME NEW done \in Seq(Word), NEW left \in Seq(Word),
               firsts = <<Slash>> \o done, names = done \o left, path = Bare(left)
        PROVE  FirstsAreRead'
    <3>1. left # << >>
      BY <1>1, <2>2, ScansOfNoNames
    <3>2. /\ path[1] # "/" /\ Upto(path) = Head(left)
          /\ Head(left) \in Word /\ Tail(left) \in Seq(Word)
          /\ (IF Behind(path) = << >> THEN << >> ELSE Tail(Behind(path))) = Bare(Tail(left))
      BY <2>2, <3>1, ScansOfNames
    <3>3. First(path).first = Head(left) /\ First(path).left = Bare(Tail(left))
      BY <3>2 DEF First
    <3>4. /\ Append(done, Head(left)) \in Seq(Word)
          /\ Append(done, Head(left)) \o Tail(left) = done \o left
      BY <3>1, NextOfList
    <3>5. Append(<<Slash>> \o done, Head(left)) = <<Slash>> \o Append(done, Head(left))
      <4>1. ASSUME NEW S, NEW c \in S, NEW s \in Seq(S), NEW d \in S
            PROVE  Append(<<c>> \o s, d) = <<c>> \o Append(s, d)
        OBVIOUS
      <4>2. Slash \in Seq(Chars) /\ Head(left) \in Seq(Chars)
        BY <3>2, SlashIsString, WordsAreStrings
      <4>3. done \in Seq(Seq(Chars))
        <5>1. Word \subseteq Seq(Chars)
          BY WordsAreStrings
        <5>. QED BY <5>1, SeqMonotonic
      <4>. QED BY <4>1, <4>2, <4>3
    <3>6. /\ firsts' = <<Slash>> \o Append(done, Head(left))
          /\ names' = Append(done, Head(left)) \o Tail(left)
          /\ path' = Bare(Tail(left))
      BY <1>2, <2>2, <3>3, <3>4, <3>5
    <3>. QED BY <3>2, <3>4, <3>6 DEF FirstsAreRead
  <2>. QED BY <1>1, <2>1, <2>2 DEF FirstsAreRead
<1>4. OverrunIffLong'
  BY <1>1, <1>2 DEF OverrunIffLong
<1>. QED BY <1>1, <1>2, <1>3, <1>4 DEF PathInv

LEMMA PathStep == PathInv /\ [PathNext]_pathVars => PathInv'
<1>. SUFFICES ASSUME PathInv, [PathNext]_pathVars
              PROVE  PathInv'
  OBVIOUS
<1>1. CASE UNCHANGED pathVars
  BY <1>1 DEF pathVars, PathInv, OverrunIffLong, TokensAreRead, FirstsAreRead
<1>. QED BY <1>1, SplitKeeps, StrtokKeeps, FirstKeeps DEF PathNext

LEMMA PathAlways == PathSpec => []PathInv
BY PathStart, PathStep, PTL DEF PathSpec

\* The handlers walk the names of the path but the last, and look that one up.
THEOREM NamesAreWalked == PathSpec => []WalksTheNames
<1>1. PathInv => WalksTheNames
  BY DEF PathInv, WalksTheNames
<1>. QED BY <1>1, PathAlways, PTL

\* get_first_name takes a path apart into a slash and its names.
THEOREM FirstNamesAreRight == PathSpec => []FirstsAreTheNames
<1>1. PathInv => FirstsAreTheNames
  <2>. SUFFICES ASSUME PathInv, pc = "names", path = << >>
                PROVE  firsts = <<Slash>> \o names
    BY DEF FirstsAreTheNames
  <2>1. names \in Seq(Word) /\ names # << >> /\ FirstsAreRead
    BY DEF PathInv
  <2>2. path # Join(names)
    BY <2>1, ScansOfNames
  <2>3. PICK done \in Seq(Word) : \E left \in Seq(Word) :
          firsts = <<Slash>> \o done /\ names = done \o left /\ path = Bare(left)
    BY <2>1, <2>2 DEF FirstsAreRead
  <2>4. PICK left \in Seq(Word) :
          firsts = <<Slash>> \o done /\ names = done \o left /\ path = Bare(left)
    BY <2>3
  <2>5. left = << >>
    BY <2>4, ScansOfNames
  <2>6. done \o << >> = done
    OBVIOUS
  <2>. QED BY <2>4, <2>5, <2>6
<1>. QED BY <1>1, PathAlways, PTL

\* A buffer of get_fn_dir is overrun exactly by a path that is too long.
THEOREM LongPathsOverrun == PathSpec => []OverrunIffLong
<1>1. PathInv => OverrunIffLong
  BY DEF PathInv
<1>. QED BY <1>1, PathAlways, PTL
============================================================================
