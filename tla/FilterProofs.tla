---------------------------- MODULE FilterProofs ----------------------------
(***************************************************************************)
(* What Kept returns, by induction on the length looked at.  Induction is  *)
(* had from the library's fact that finite sets are well founded under     *)
(* strict inclusion: a set of numbers that is not empty has a least one.   *)
(***************************************************************************)
EXTENDS Filter, FiniteSetTheorems, WellFoundedInduction, TLAPS

(* A set of natural numbers has a least element. *)
LEMMA LeastNumber ==
  ASSUME NEW S \in SUBSET Nat, S # {}
  PROVE  \E m \in S : \A k \in S : m <= k
<1> DEFINE T == {1..n : n \in S}
           R == StrictSubsetOrdering(Nat)
<1>1. T \subseteq FiniteSubsetsOf(Nat)
  <2> SUFFICES ASSUME NEW n \in S PROVE 1..n \in FiniteSubsetsOf(Nat)
    OBVIOUS
  <2>1. IsFiniteSet(1..n)
    BY FS_Interval
  <2>2. QED
    BY <2>1 DEF FiniteSubsetsOf
<1>2. IsWellFoundedOn(R, FiniteSubsetsOf(Nat))
  BY FS_StrictSubsetOrderingWellFounded
<1>3. T # {}
  OBVIOUS
<1>4. PICK x \in T : \A y \in T : <<y, x>> \notin R
  <2> HIDE DEF T, R
  <2>1. QED
    BY <1>1, <1>2, <1>3, WFMin
<1>5. PICK m \in S : x = 1..m
  OBVIOUS
<1>6. ASSUME NEW k \in S, k < m PROVE FALSE
  <2>1. 1..k \subseteq 1..m /\ 1..k # 1..m
    <3>1. m \in 1..m /\ m \notin 1..k
      BY <1>6
    <3>2. QED
      BY <1>6, <3>1
  <2>2. 1..k \in SUBSET Nat /\ 1..m \in SUBSET Nat
    OBVIOUS
  <2>3. <<1..k, 1..m>> \in R
    <3> DEFINE ss == <<1..k, 1..m>>
    <3>1. ss \in (SUBSET Nat) \X (SUBSET Nat)
      BY <2>2
    <3>2. ss[1] = 1..k /\ ss[2] = 1..m
      OBVIOUS
    <3> HIDE DEF ss
    <3>3. ss \in StrictSubsetOrdering(Nat)
      BY <2>1, <3>1, <3>2, Zenon DEF StrictSubsetOrdering
    <3>4. QED
      BY <3>3 DEF ss
  <2>4. 1..k \in T
    OBVIOUS
  <2>5. QED
    BY <1>4, <1>5, <2>3, <2>4
<1>7. QED
  BY <1>6

(* The function in Kept, one step further. *)
Step(f, s, S, i) ==
  IF i = 0 THEN <<>>
  ELSE IF s[i] \in S THEN Append(f[i - 1], s[i]) ELSE f[i - 1]

(* There is such a function, so that the CHOOSE behind it finds it. *)
LEMMA KeptExists ==
  ASSUME NEW s, NEW S, NEW N \in Nat
  PROVE  \E f : f = [i \in 0..N |-> Step(f, s, S, i)]
<1> DEFINE Has(n) == \E f : f = [i \in 0..n |-> Step(f, s, S, i)]
           Bad == {n \in Nat : ~Has(n)}
<1> SUFFICES ASSUME Bad # {} PROVE FALSE
  OBVIOUS
<1>1. PICK m \in Bad : \A k \in Bad : m <= k
  <2>1. Bad \in SUBSET Nat
    OBVIOUS
  <2> HIDE DEF Bad
  <2>2. QED
    BY <2>1, LeastNumber
<1>2. Has(0)
  <2> DEFINE f == [i \in 0..0 |-> <<>>]
  <2>1. f = [i \in 0..0 |-> Step(f, s, S, i)]
    BY DEF Step
  <2>2. QED
    BY <2>1
<1>3. m \in Nat /\ m # 0 /\ m - 1 \in Nat /\ ~Has(m)
  <2> HIDE DEF Has
  <2>1. m \in Nat /\ ~Has(m)
    OBVIOUS
  <2>2. m # 0
    BY <1>2, <2>1
  <2>3. QED
    BY <2>1, <2>2
<1>4. Has(m - 1)
  BY <1>1, <1>3
<1>5. PICK g : g = [i \in 0..(m - 1) |-> Step(g, s, S, i)]
  BY <1>4
<1> DEFINE h == [i \in 0..m |-> IF i = m THEN Step(g, s, S, m) ELSE g[i]]
<1>6. ASSUME NEW i \in 0..m PROVE h[i] = Step(h, s, S, i)
  <2>1. i # 0 => h[i - 1] = g[i - 1]
    BY <1>3
  <2>2. Step(h, s, S, i) = Step(g, s, S, i)
    BY <2>1 DEF Step
  <2>3. CASE i = m
    BY <2>2, <2>3
  <2>4. CASE i # m
    <3>1. i \in 0..(m - 1)
      BY <1>3, <2>4
    <3>2. g[i] = Step(g, s, S, i)
      BY <1>5, <3>1
    <3>3. QED
      BY <2>2, <2>4, <3>2
  <2>5. QED
    BY <2>3, <2>4
<1>7. h = [i \in 0..m |-> Step(h, s, S, i)]
  <2> DEFINE e == [i \in 0..m |-> Step(h, s, S, i)]
  <2>1. \A i \in 0..m : h[i] = e[i]
    BY <1>6
  <2>2. QED
    BY <2>1
<1>8. QED
  BY <1>3, <1>7

(* Kept is that function at the end of the sequence. *)
LEMMA KeptStep ==
  ASSUME NEW s, NEW S, Len(s) \in Nat
  PROVE  \E f : /\ \A i \in 0..Len(s) : f[i] = Step(f, s, S, i)
                /\ Kept(s, S) = f[Len(s)]
<1> DEFINE f == CHOOSE f : f = [i \in 0..Len(s) |-> Step(f, s, S, i)]
<1>1. \E g : g = [i \in 0..Len(s) |-> Step(g, s, S, i)]
  BY KeptExists
<1>2. f = [i \in 0..Len(s) |-> Step(f, s, S, i)]
  BY <1>1
<1>3. Kept(s, S) = f[Len(s)]
  BY DEF Kept, Step
<1> HIDE DEF f
<1>4. \A i \in 0..Len(s) : f[i] = Step(f, s, S, i)
  <2> DEFINE e == [i \in 0..Len(s) |-> Step(f, s, S, i)]
  <2>1. \A i \in 0..Len(s) : e[i] = Step(f, s, S, i)
    OBVIOUS
  <2>2. f = e
    BY <1>2
  <2> HIDE DEF e
  <2>3. QED
    BY <2>1, <2>2
<1>5. QED
  BY <1>3, <1>4

(* The result is a sequence of the elements of s that are in S. *)
LEMMA KeptElements ==
  ASSUME NEW T, NEW s \in Seq(T), NEW S
  PROVE  /\ Kept(s, S) \in Seq(T)
         /\ \A i \in DOMAIN Kept(s, S) :
              Kept(s, S)[i] \in S /\ \E k \in DOMAIN s : Kept(s, S)[i] = s[k]
         /\ \A k \in DOMAIN s : s[k] \in S => \E i \in DOMAIN Kept(s, S) : Kept(s, S)[i] = s[k]
<1>1. PICK f : /\ \A i \in 0..Len(s) : f[i] = Step(f, s, S, i)
               /\ Kept(s, S) = f[Len(s)]
  BY KeptStep
<1> DEFINE Good(n) ==
      /\ f[n] \in Seq(T)
      /\ \A i \in DOMAIN f[n] : f[n][i] \in S /\ \E k \in 1..n : f[n][i] = s[k]
      /\ \A k \in 1..n : s[k] \in S => \E i \in DOMAIN f[n] : f[n][i] = s[k]
    Bad == {n \in 0..Len(s) : ~Good(n)}
<1>2. Good(0)
  <2>1. f[0] = <<>>
    BY <1>1 DEF Step
  <2>2. <<>> \in Seq(T) /\ DOMAIN <<>> = {} /\ 1..0 = {}
    OBVIOUS
  <2>3. QED
    BY <2>1, <2>2
<1>3. ASSUME NEW n \in 1..Len(s), Good(n - 1) PROVE Good(n)
  <2>1. /\ n \in 0..Len(s) /\ n # 0 /\ s[n] \in T /\ n - 1 \in 0..Len(s)
        /\ 1..n = 1..(n - 1) \union {n}
    OBVIOUS
  <2>2. CASE s[n] \in S
    <3> DEFINE a == Append(f[n - 1], s[n])
    <3>1. f[n] = a
      BY <1>1, <2>1, <2>2 DEF Step
    <3>2. /\ a \in Seq(T) /\ Len(a) = Len(f[n - 1]) + 1 /\ Len(f[n - 1]) \in Nat
          /\ DOMAIN a = 1..Len(a) /\ DOMAIN f[n - 1] = 1..Len(f[n - 1])
          /\ \A i \in 1..Len(f[n - 1]) : a[i] = f[n - 1][i]
          /\ a[Len(a)] = s[n]
      BY <1>3, <2>1
    <3> HIDE DEF a
    <3>3. ASSUME NEW i \in DOMAIN a PROVE a[i] \in S /\ \E k \in 1..n : a[i] = s[k]
      <4>1. CASE i = Len(a)
        <5>1. a[i] = s[n] /\ n \in 1..n
          BY <2>1, <3>2, <4>1
        <5>2. QED
          BY <2>2, <5>1
      <4>2. CASE i # Len(a)
        <5>1. i \in DOMAIN f[n - 1]
          BY <3>2, <4>2
        <5>2. a[i] = f[n - 1][i]
          BY <3>2, <5>1
        <5>3. f[n - 1][i] \in S /\ \E k \in 1..(n - 1) : f[n - 1][i] = s[k]
          BY <1>3, <5>1
        <5>4. QED
          BY <2>1, <5>2, <5>3
      <4>3. QED
        BY <4>1, <4>2
    <3>4. \A k \in 1..n : s[k] \in S => \E i \in DOMAIN a : a[i] = s[k]
      <4>1. Len(a) \in DOMAIN a
        BY <3>2
      <4>2. ASSUME NEW k \in 1..(n - 1), s[k] \in S
            PROVE  \E i \in DOMAIN a : a[i] = s[k]
        <5>1. PICK i \in DOMAIN f[n - 1] : f[n - 1][i] = s[k]
          BY <1>3, <4>2
        <5>2. i \in DOMAIN a /\ a[i] = s[k]
          BY <3>2, <5>1
        <5>3. QED
          BY <5>2
      <4>3. QED
        BY <2>1, <3>2, <4>1, <4>2
    <3>5. QED
      BY <3>1, <3>2, <3>3, <3>4
  <2>3. CASE s[n] \notin S
    <3>1. f[n] = f[n - 1]
      BY <1>1, <2>1, <2>3 DEF Step
    <3>2. QED
      BY <1>3, <2>1, <2>3, <3>1
  <2>4. QED
    BY <2>2, <2>3
<1> HIDE DEF Good
<1>4. Bad = {}
  <2> SUFFICES ASSUME Bad # {} PROVE FALSE
    OBVIOUS
  <2>1. PICK m \in Bad : \A k \in Bad : m <= k
    <3>1. Bad \in SUBSET Nat
      OBVIOUS
    <3> HIDE DEF Bad
    <3>2. QED
      BY <3>1, LeastNumber
  <2>2. m \in 0..Len(s) /\ ~Good(m)
    OBVIOUS
  <2>3. m # 0
    BY <1>2, <2>2
  <2>4. m \in 1..Len(s) /\ m - 1 \in 0..Len(s)
    BY <2>2, <2>3
  <2>5. Good(m - 1)
    <3>1. m - 1 \notin Bad
      BY <2>1, <2>2
    <3>2. QED
      BY <2>4, <3>1
  <2>6. QED
    BY <1>3, <2>2, <2>4, <2>5
<1>5. Good(Len(s))
  <2>1. Len(s) \in 0..Len(s)
    OBVIOUS
  <2>2. QED
    BY <1>4, <2>1
<1>6. QED
  BY <1>1, <1>5 DEF Good
=============================================================================
