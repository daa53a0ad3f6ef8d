--------------------------- MODULE ApiServer_proof ----------------------------
(***************************************************************************)
(* Proofs about ApiServer and the algorithms it is built from: what the    *)
(* loops over strings, tokens and record sets compute for every input, by  *)
(* induction on the rounds of the loop; what SAP's statement and the       *)
(* import record say for every database and every order; and the           *)
(* properties of the requests that rest on them.                           *)
(***************************************************************************)
EXTENDS ApiServer, FiniteSetTheorems, SequenceTheorems, TLAPS

-----------------------------------------------------------------------------
(* Induction and recursion over the natural numbers, said of sets and      *)
(* functions.                                                              *)

\* A set of natural numbers that is not empty has a least element: their
\* initial segments are well founded.
LEMMA LeastElement ==
  ASSUME NEW T, T \subseteq Nat, T # {}
  PROVE  \E m \in T : \A k \in T : m <= k
<1> DEFINE F == {1..n : n \in T}
           R == StrictSubsetOrdering(Nat)
<1>1. F \subseteq FiniteSubsetsOf(Nat)
  <2>1. ASSUME NEW n \in T
        PROVE  1..n \in SUBSET Nat /\ IsFiniteSet(1..n)
    <3>1. n \in Int /\ 1 \in Int
      OBVIOUS
    <3>2. IsFiniteSet(1..n)
      BY <3>1, FS_Interval
    <3> QED BY <3>2
  <2> QED BY <2>1 DEF FiniteSubsetsOf
<1>2. IsWellFoundedOn(R, FiniteSubsetsOf(Nat))
  BY FS_StrictSubsetOrderingWellFounded
<1>3. \E x \in F : \A y \in F : ~ (<<y, x>> \in R)
  <2> HIDE DEF R
  <2>1. F # {}
    OBVIOUS
  <2> QED BY <1>1, <1>2, <2>1, WFMin
<1>4. PICK m \in T : \A y \in F : ~ (<<y, 1..m>> \in R)
  <2> HIDE DEF R
  <2> QED BY <1>3
<1>5. \A k \in T : m <= k
  <2>1. SUFFICES ASSUME NEW k \in T, k < m PROVE FALSE
    OBVIOUS
  <2>2. 1..k \subseteq 1..m /\ m \in 1..m /\ m \notin 1..k
    BY <2>1
  <2>3. <<1..k, 1..m>> \in R
    BY <2>2 DEF StrictSubsetOrdering
  <2> QED BY <2>3, <1>4
<1> QED BY <1>5

\* What holds of 0, and of n + 1 whenever it holds of n, holds of every n.
LEMMA Induction ==
  ASSUME NEW T, 0 \in T, \A n \in Nat : n \in T => n + 1 \in T
  PROVE  Nat \subseteq T
<1>1. SUFFICES ASSUME Nat \ T # {} PROVE FALSE
  OBVIOUS
<1>2. PICK m \in Nat \ T : \A k \in Nat \ T : m <= k
  <2> DEFINE D == Nat \ T
  <2>1. D \subseteq Nat /\ D # {}
    BY <1>1
  <2>2. \E m \in D : \A k \in D : m <= k
    <3> HIDE DEF D
    <3> QED BY <2>1, LeastElement
  <2> QED BY <2>2
<1>3. m # 0 /\ m - 1 \in Nat /\ (m - 1) + 1 = m
  BY <1>2
<1>4. m - 1 \in T
  BY <1>2, <1>3
<1> QED BY <1>3, <1>4, <1>2

\* g holds the results of the first n rounds of a loop.
Computes(g, n, start, step) ==
  g[0] = start /\ \A k \in 1..n : g[k] = step[k][g[k - 1]]

\* A loop whose rounds stay in S has a function of results.
LEMMA Recursion ==
  ASSUME NEW S, NEW N \in Nat, NEW start \in S, NEW step \in [1..N -> [S -> S]]
  PROVE  \E g \in [0..N -> S] : Computes(g, N, start, step)
<1> DEFINE T == {m \in Nat : m <= N => \E g \in [0..m -> S] : Computes(g, m, start, step)}
<1>1. 0 \in T
  <2> [i \in 0..0 |-> start] \in [0..0 -> S] /\ Computes([i \in 0..0 |-> start], 0, start, step)
    BY DEF Computes
  <2> QED OBVIOUS
<1>2. ASSUME NEW m \in Nat, m \in T
      PROVE  m + 1 \in T
  <2> SUFFICES ASSUME m + 1 <= N
               PROVE  \E g \in [0..(m + 1) -> S] : Computes(g, m + 1, start, step)
    OBVIOUS
  <2>1. PICK g \in [0..m -> S] : Computes(g, m, start, step)
    BY <1>2
  <2> DEFINE h == [i \in 0..(m + 1) |-> IF i <= m THEN g[i] ELSE step[m + 1][g[m]]]
  <2>2. h \in [0..(m + 1) -> S]
    OBVIOUS
  <2>3. Computes(h, m + 1, start, step)
    <3>1. h[0] = start
      BY <2>1 DEF Computes
    <3>2. ASSUME NEW n \in 1..(m + 1)
          PROVE  h[n] = step[n][h[n - 1]]
      <4>1. CASE n <= m
        BY <4>1, <2>1 DEF Computes
      <4>2. CASE n = m + 1
        BY <4>2
      <4> QED BY <4>1, <4>2
    <3> QED BY <3>1, <3>2 DEF Computes
  <2> QED BY <2>2, <2>3
<1>3. N \in T
  <2> HIDE DEF T
  <2> QED BY <1>1, <1>2, Induction
<1> QED BY <1>3

\* The results of a loop are in S when the first is and every round stays in S.
LEMMA LoopStaysIn ==
  ASSUME NEW S, NEW N \in Nat, NEW u, u[0] \in S,
         \A n \in 1..N : u[n - 1] \in S => u[n] \in S
  PROVE  \A n \in 0..N : u[n] \in S
<1> DEFINE T == {k \in Nat : k <= N => u[k] \in S}
<1>1. 0 \in T
  OBVIOUS
<1>2. ASSUME NEW k \in Nat, k \in T
      PROVE  k + 1 \in T
  <2> SUFFICES ASSUME k + 1 <= N PROVE u[k + 1] \in S
    OBVIOUS
  <2>1. k + 1 \in 1..N /\ (k + 1) - 1 = k /\ u[k] \in S
    BY <1>2
  <2> QED BY <2>1
<1>3. Nat \subseteq T
  <2> HIDE DEF T
  <2> QED BY <1>1, <1>2, Induction
<1> QED BY <1>3

\* Functions are the same when they agree on their domain.
LEMMA SameFunction ==
  ASSUME NEW D, NEW f, NEW g, f = [x \in D |-> f[x]], g = [x \in D |-> g[x]],
         \A x \in D : f[x] = g[x]
  PROVE  f = g
OBVIOUS

-----------------------------------------------------------------------------
(* uniqueStrings.                                                          *)

\* The loop of uniqueStrings has a result after every round.
LEMMA UniqueStringsLoop ==
  ASSUME NEW S, NEW values \in Seq(S)
  PROVE  \E out \in [0..Len(values) -> Seq(S)] :
           /\ out[0] = <<>>
           /\ \A n \in 1..Len(values) : out[n] = Kept(out[n - 1], values[n])
           /\ uniqueStrings(values) = out[Len(values)]
<1> DEFINE L == Len(values)
           step == [n \in 1..L |-> [s \in Seq(S) |-> Kept(s, values[n])]]
           Round(o) == [n \in 0..L |-> IF n = 0 THEN <<>> ELSE Kept(o[n - 1], values[n])]
<1>0. L \in Nat /\ <<>> \in Seq(S)
  OBVIOUS
<1>1. step \in [1..L -> [Seq(S) -> Seq(S)]]
  BY DEF Kept
<1>2. PICK g \in [0..L -> Seq(S)] : Computes(g, L, <<>>, step)
  <2> DEFINE Q == Seq(S) e == <<>>
  <2>1. L \in Nat /\ e \in Q /\ step \in [1..L -> [Q -> Q]]
    BY <1>1
  <2>2. \E h \in [0..L -> Q] : Computes(h, L, e, step)
    <3> HIDE DEF step, Q, L, e
    <3> QED BY <2>1, Recursion
  <2> QED BY <2>2
<1>3. Round(g) = g
  <2>1. ASSUME NEW n \in 0..L
        PROVE  g[n] = Round(g)[n]
    <3>1. CASE n = 0
      BY <1>2, <3>1 DEF Computes
    <3>2. CASE n # 0
      <4>1. n \in 1..L /\ g[n - 1] \in Seq(S)
        BY <3>2
      <4>2. g[n] = step[n][g[n - 1]]
        <5> HIDE DEF step, L
        <5> QED BY <1>2, <4>1 DEF Computes
      <4> QED BY <4>1, <4>2, <3>2
    <3> QED BY <3>1, <3>2
  <2> DEFINE h == Round(g) D == 0..L
  <2>2. h = [n \in D |-> h[n]] /\ g = [n \in D |-> g[n]] /\ \A n \in D : h[n] = g[n]
    BY <2>1
  <2> HIDE DEF h, D
  <2>3. h = g
    BY <2>2, SameFunction
  <2> QED BY <2>3 DEF h
<1>4. PICK u : u = Round(u) /\ uniqueStrings(values) = u[L]
  <2> DEFINE u == CHOOSE o : o = Round(o)
  <2>1. uniqueStrings(values) = u[L]
    BY DEF uniqueStrings
  <2> HIDE DEF Round
  <2>2. u = Round(u)
    BY <1>3
  <2> QED BY <2>1, <2>2
<1>5. u[0] = <<>>
  BY <1>4
<1>6. ASSUME NEW n \in 1..L
      PROVE  u[n] = Kept(u[n - 1], values[n])
  BY <1>4
<1>7. u = [n \in 0..L |-> u[n]]
  BY <1>4
<1>8. \A n \in 0..L : u[n] \in Seq(S)
  <2>1. u[0] \in Seq(S)
    BY <1>0, <1>5, Zenon
  <2>2. ASSUME NEW n \in 1..L, u[n - 1] \in Seq(S)
        PROVE  u[n] \in Seq(S)
    <3>1. values[n] \in S
      BY <2>2
    <3>2. Kept(u[n - 1], values[n]) \in Seq(S)
      BY <2>2, <3>1 DEF Kept
    <3> HIDE DEF L
    <3> QED BY <1>6, <2>2, <3>2
  <2> DEFINE Q == Seq(S)
  <2> HIDE DEF L, Q
  <2> QED BY <1>0, <2>1, <2>2, LoopStaysIn DEF Q
<1>9. u \in [0..L -> Seq(S)]
  BY <1>7, <1>8
<1> QED BY <1>4, <1>5, <1>6, <1>9

\* Of strings and blanks uniqueStrings keeps every string once, in the order
\* in which they first came, and no blank; nothing else.
THEOREM UniqueStringsKeepsEachOnce ==
  ASSUME NEW S, NEW values \in Seq(S)
  PROVE  /\ uniqueStrings(values) \in Seq(S)
         /\ Range(uniqueStrings(values)) = Range(values) \ {Blank}
         /\ IsInjective(uniqueStrings(values))
<1> DEFINE L == Len(values)
<1>1. PICK out \in [0..L -> Seq(S)] :
        /\ out[0] = <<>>
        /\ \A n \in 1..L : out[n] = Kept(out[n - 1], values[n])
        /\ uniqueStrings(values) = out[L]
  BY UniqueStringsLoop
<1> DEFINE Each(s, n) ==
      /\ \A i, j \in 1..Len(s) : s[i] = s[j] => i = j
      /\ \A i \in 1..Len(s) : s[i] # Blank
      /\ \A i \in 1..Len(s) : \E k \in 1..n : s[i] = values[k]
      /\ \A k \in 1..n : values[k] = Blank \/ \E i \in 1..Len(s) : s[i] = values[k]
    T == {n \in Nat : n <= L => Each(out[n], n)}
<1>2. 0 \in T
  BY <1>1
<1>3. ASSUME NEW n \in Nat, n \in T
      PROVE  n + 1 \in T
  <2> SUFFICES ASSUME n + 1 <= L PROVE Each(out[n + 1], n + 1)
    OBVIOUS
  <2>1. Each(out[n], n)
    BY <1>3
  <2>2. PICK s \in Seq(S) : s = out[n]
    OBVIOUS
  <2>3. PICK v \in S : v = values[n + 1]
    OBVIOUS
  <2>4. PICK t : t = out[n + 1] /\ t = Kept(s, v)
    <3>1. n + 1 \in 1..L /\ (n + 1) - 1 = n
      OBVIOUS
    <3> QED BY <1>1, <2>2, <2>3, <3>1
  <2>5. CASE v = Blank \/ Contains(s, v)
    <3>1. t = s
      BY <2>4, <2>5 DEF Kept
    <3>2. \A k \in 1..(n + 1) : k \in 1..n \/ k = n + 1
      OBVIOUS
    <3>3. v = Blank \/ \E i \in 1..Len(s) : s[i] = v
      BY <2>5 DEF Contains
    <3> QED BY <2>1, <2>2, <2>3, <2>4, <3>1, <3>2, <3>3
  <2>6. CASE ~(v = Blank \/ Contains(s, v))
    <3>1. t = Append(s, v)
      BY <2>4, <2>6 DEF Kept
    <3>2. /\ Len(t) = Len(s) + 1
          /\ \A i \in 1..Len(t) : (i \in 1..Len(s) /\ t[i] = s[i]) \/ (i = Len(s) + 1 /\ t[i] = v)
          /\ \A i \in 1..Len(s) : i \in 1..Len(t) /\ t[i] = s[i]
          /\ t[Len(s) + 1] = v
      BY <3>1
    <3>3. v # Blank /\ \A i \in 1..Len(s) : s[i] # v
      BY <2>6 DEF Contains
    <3>4. \A i, j \in 1..Len(t) : t[i] = t[j] => i = j
      <4> TAKE i, j \in 1..Len(t)
      <4>1. \A a, b \in 1..Len(s) : s[a] = s[b] => a = b
        BY <2>1, <2>2
      <4>2. CASE i \in 1..Len(s)
        BY <4>1, <4>2, <3>2, <3>3
      <4>3. CASE i = Len(s) + 1
        BY <4>3, <3>2, <3>3
      <4> QED BY <4>2, <4>3, <3>2
    <3>5. \A i \in 1..Len(t) : t[i] # Blank
      <4>1. \A i \in 1..Len(s) : s[i] # Blank
        BY <2>1, <2>2
      <4> QED BY <4>1, <3>2, <3>3
    <3>6. \A i \in 1..Len(t) : \E k \in 1..(n + 1) : t[i] = values[k]
      BY <2>1, <2>2, <2>3, <3>2
    <3>7. \A k \in 1..(n + 1) : values[k] = Blank \/ \E i \in 1..Len(t) : t[i] = values[k]
      <4> TAKE k \in 1..(n + 1)
      <4>1. CASE k \in 1..n
        <5>1. values[k] = Blank \/ \E i \in 1..Len(s) : s[i] = values[k]
          BY <4>1, <2>1, <2>2
        <5> QED BY <5>1, <3>2
      <4>2. CASE k = n + 1
        <5>1. Len(s) + 1 \in 1..Len(t)
          BY <3>2
        <5> QED BY <4>2, <5>1, <3>2, <2>3
      <4> QED BY <4>1, <4>2
    <3>8. Each(t, n + 1)
      BY <3>4, <3>5, <3>6, <3>7
    <3> HIDE DEF Each
    <3> QED BY <2>4, <3>8
  <2> QED BY <2>5, <2>6
<1>4. Each(out[L], L)
  <2>1. Nat \subseteq T
    <3> HIDE DEF T
    <3> QED BY <1>2, <1>3, Induction
  <2> QED BY <2>1
<1>5. PICK u \in Seq(S) : u = uniqueStrings(values) /\ u = out[L]
  BY <1>1
<1>6. DOMAIN u = 1..Len(u) /\ DOMAIN values = 1..L
  OBVIOUS
<1>7. Range(u) = Range(values) \ {Blank}
  <2>1. \A x : x \in Range(u) <=> \E i \in 1..Len(u) : u[i] = x
    BY <1>6 DEF Range
  <2>2. \A x : x \in Range(values) <=> \E k \in 1..L : values[k] = x
    BY <1>6 DEF Range
  <2>3. Each(u, L)
    <3> HIDE DEF Each
    <3> QED BY <1>4, <1>5
  <2>4. ASSUME NEW x
        PROVE  x \in Range(u) <=> x \in Range(values) /\ x # Blank
    <3>1. x \in Range(u) => x \in Range(values) /\ x # Blank
      BY <2>1, <2>2, <2>3, SMTT(30)
    <3>2. x \in Range(values) /\ x # Blank => x \in Range(u)
      BY <2>1, <2>2, <2>3, SMTT(30)
    <3> QED BY <3>1, <3>2
  <2> QED BY <2>4
<1>8. IsInjective(u)
  BY <1>4, <1>5, <1>6 DEF IsInjective
<1> QED BY <1>5, <1>7, <1>8

-----------------------------------------------------------------------------
(* validateReadOnlySQL.                                                    *)

\* The first token is in no literal, and a quote turns a literal on and off.
LEMMA LiteralsTurnAtQuotes ==
  ASSUME NEW q
  PROVE  /\ ~InLiteral(q, 1)
         /\ \A k \in Nat \ {0} :
              InLiteral(q, k + 1) <=> (IF q[k] = "'" THEN ~InLiteral(q, k) ELSE InLiteral(q, k))
<1> DEFINE Q(n) == {j \in 1..n : q[j] = "'"}
<1>1. ASSUME NEW n \in Nat
      PROVE  IsFiniteSet(Q(n)) /\ Cardinality(Q(n)) \in Nat
  <2>1. IsFiniteSet(1..n) /\ Q(n) \in SUBSET (1..n)
    BY FS_Interval
  <2>2. IsFiniteSet(Q(n))
    BY <2>1, FS_Subset
  <2> QED BY <2>2, FS_CardinalityType
<1>2. ~InLiteral(q, 1)
  <2>1. 1 - 1 = 0 /\ Q(0) = {}
    OBVIOUS
  <2>2. Cardinality(Q(0)) = 0
    BY <2>1, FS_EmptySet
  <2> QED BY <2>1, <2>2 DEF InLiteral
<1>3. ASSUME NEW k \in Nat \ {0}
      PROVE  InLiteral(q, k + 1) <=> (IF q[k] = "'" THEN ~InLiteral(q, k) ELSE InLiteral(q, k))
  <2>1. (k + 1) - 1 = k /\ k - 1 \in Nat
    OBVIOUS
  <2>2. InLiteral(q, k + 1) <=> Cardinality(Q(k)) % 2 = 1
    BY <2>1 DEF InLiteral
  <2>3. InLiteral(q, k) <=> Cardinality(Q(k - 1)) % 2 = 1
    BY DEF InLiteral
  <2>4. CASE q[k] = "'"
    <3>1. Q(k) = Q(k - 1) \cup {k} /\ k \notin Q(k - 1)
      BY <2>4
    <3>2. Cardinality(Q(k)) = Cardinality(Q(k - 1)) + 1
      <4> HIDE DEF Q
      <4> QED BY <1>1, <2>1, <3>1, FS_AddElement
    <3>3. PICK c \in Nat : c = Cardinality(Q(k - 1))
      BY <1>1, <2>1
    <3>4. (c + 1) % 2 = 1 <=> ~(c % 2 = 1)
      OBVIOUS
    <3> QED BY <2>2, <2>3, <2>4, <3>2, <3>3, <3>4
  <2>5. CASE q[k] # "'"
    <3>1. Q(k) = Q(k - 1)
      BY <2>5
    <3> QED BY <2>2, <2>3, <2>5, <3>1
  <2> QED BY <2>4, <2>5
<1> QED BY <1>2, <1>3

\* The scan of stripStringLiterals has a state after every token.
LEMMA ScanLoop ==
  ASSUME NEW S, NEW q \in Seq(S)
  PROVE  \E scan \in [0..Len(q) -> [inString : BOOLEAN, skip : BOOLEAN, out : Seq(S)]] :
           /\ scan[0] = [inString |-> FALSE, skip |-> FALSE, out |-> <<>>]
           /\ \A n \in 1..Len(q) : scan[n] = Scanned(scan[n - 1], q, n)
           /\ stripStringLiterals(q) = scan[Len(q)].out
<1> DEFINE L == Len(q)
           States == [inString : BOOLEAN, skip : BOOLEAN, out : Seq(S)]
           start == [inString |-> FALSE, skip |-> FALSE, out |-> <<>>]
           step == [n \in 1..L |-> [s \in States |-> Scanned(s, q, n)]]
           Round(o) == [n \in 0..L |-> IF n = 0 THEN start ELSE Scanned(o[n - 1], q, n)]
<1>0. L \in Nat /\ start \in States
  OBVIOUS
<1>a. ASSUME NEW s \in States, NEW n \in 1..L
      PROVE  Scanned(s, q, n) \in States
  <2>1. Doubled(q, n) \in BOOLEAN /\ q[n] \in S
    BY DEF Doubled
  <2>2. PICK b \in BOOLEAN, k \in BOOLEAN, o \in Seq(S) :
          s = [inString |-> b, skip |-> k, out |-> o]
    OBVIOUS
  <2>3. PICK d \in BOOLEAN, v \in S : d = Doubled(q, n) /\ v = q[n]
    BY <2>1
  <2>4. Append(o, v) \in Seq(S)
    OBVIOUS
  <2> QED BY <2>2, <2>3, <2>4 DEF Scanned
<1>1. step \in [1..L -> [States -> States]]
  <2>1. \A n \in 1..L : q[n] \in S
    OBVIOUS
  <2> HIDE DEF L, States
  <2> QED BY <1>a, <2>1
<1>2. PICK g \in [0..L -> States] : Computes(g, L, start, step)
  <2> HIDE DEF L, States, start, step
  <2> QED BY <1>0, <1>1, Recursion
<1>3. Round(g) = g
  <2>1. ASSUME NEW n \in 0..L
        PROVE  g[n] = Round(g)[n]
    <3> HIDE DEF States, start
    <3>1. CASE n = 0
      BY <1>2, <3>1 DEF Computes
    <3>2. CASE n # 0
      <4>1. n \in 1..L /\ g[n - 1] \in States
        BY <3>2
      <4>2. g[n] = step[n][g[n - 1]]
        <5> HIDE DEF step, L
        <5> QED BY <1>2, <4>1 DEF Computes
      <4> QED BY <4>1, <4>2, <3>2
    <3> QED BY <3>1, <3>2
  <2> DEFINE h == Round(g) D == 0..L
  <2>2. h = [n \in D |-> h[n]] /\ g = [n \in D |-> g[n]] /\ \A n \in D : h[n] = g[n]
    <3> HIDE DEF States, start
    <3> QED BY <2>1
  <2> HIDE DEF h, D
  <2>3. h = g
    BY <2>2, SameFunction
  <2> QED BY <2>3 DEF h
<1>4. PICK u : u = Round(u) /\ stripStringLiterals(q) = u[L].out
  <2> DEFINE u == CHOOSE o : o = Round(o)
  <2>1. stripStringLiterals(q) = u[L].out
    BY DEF stripStringLiterals
  <2> HIDE DEF Round
  <2>2. u = Round(u)
    BY <1>3
  <2> QED BY <2>1, <2>2
<1> HIDE DEF start, States
<1>5. u[0] = start
  BY <1>4
<1>6. ASSUME NEW n \in 1..L
      PROVE  u[n] = Scanned(u[n - 1], q, n)
  BY <1>4
<1>7. u = [n \in 0..L |-> u[n]]
  BY <1>4
<1>8. \A n \in 0..L : u[n] \in States
  <2>1. \A n \in 1..L : q[n] \in S
    OBVIOUS
  <2> HIDE DEF L
  <2>2. \A n \in 1..L : u[n - 1] \in States => u[n] \in States
    BY <1>a, <1>6, <2>1
  <2> QED BY <1>0, <1>5, <2>2, LoopStaysIn
<1>9. u \in [0..L -> States]
  BY <1>7, <1>8
<1> QED BY <1>4, <1>5, <1>6, <1>9 DEF start, States


\* Outside of the literals: neither a quote nor in one.
Outside(q, k) == q[k] # "'" /\ ~InLiteral(q, k)

\* out, with domain D, is the tokens of q at the positions of E that are outside
\* its literals, in their order; and so for the first n tokens.
AtOutside(at, out, D, q, E) ==
  /\ at \in [D -> E]
  /\ \A k \in E : Outside(q, k) <=> \E i \in D : at[i] = k
  /\ \A i, j \in D : i < j => at[i] < at[j]
  /\ \A i \in D : out[i] = q[at[i]]
FirstOutside(out, q, n) == \E at : AtOutside(at, out, DOMAIN out, q, 1..n)

\* What the scan knows after n tokens of q: that it is in a literal, unless it
\* has seen the first of two quotes, and what is outside.
ScanKnows(q, n, st) ==
  /\ InLiteral(q, n + 1) <=> (st.inString /\ ~st.skip)
  /\ st.skip => st.inString /\ q[n + 1] = "'"
  /\ FirstOutside(st.out, q, n)

\* A token that is a quote or in a literal adds nothing.
LEMMA NothingOutside ==
  ASSUME NEW q, NEW n \in Nat, ~Outside(q, n + 1), NEW out,
         FirstOutside(out, q, n)
  PROVE  FirstOutside(out, q, n + 1)
<1>1. PICK D : D = DOMAIN out
  OBVIOUS
<1>2. PICK at : AtOutside(at, out, D, q, 1..n)
  BY <1>1 DEF FirstOutside
<1>3. at \in [D -> 1..n] /\ at \in [D -> 1..(n + 1)]
  BY <1>2 DEF AtOutside
<1>4. ASSUME NEW k \in 1..(n + 1)
      PROVE  Outside(q, k) <=> \E i \in D : at[i] = k
  <2>1. CASE k \in 1..n
    BY <1>2, <2>1 DEF AtOutside
  <2>2. CASE k = n + 1
    <3>1. ~ \E i \in D : at[i] = n + 1
      BY <1>3
    <3> QED BY <2>2, <3>1
  <2> QED BY <2>1, <2>2
<1>5. AtOutside(at, out, D, q, 1..(n + 1))
  BY <1>2, <1>3, <1>4 DEF AtOutside
<1> QED BY <1>1, <1>5 DEF FirstOutside

\* A token outside of the literals is added behind the others.
LEMMA OneMoreOutside ==
  ASSUME NEW S, NEW q, NEW n \in Nat, Outside(q, n + 1), NEW out \in Seq(S), NEW v \in S,
         v = q[n + 1], FirstOutside(out, q, n)
  PROVE  FirstOutside(Append(out, v), q, n + 1)
<1>1. PICK L \in Nat : L = Len(out) /\ DOMAIN out = 1..L
  OBVIOUS
<1>2. PICK t \in Seq(S) : t = Append(out, v)
  BY AppendProperties
<1>3. /\ DOMAIN t = 1..(L + 1)
      /\ t[L + 1] = v /\ \A i \in 1..L : t[i] = out[i]
  BY <1>1, <1>2
<1>4. PICK at : AtOutside(at, out, 1..L, q, 1..n)
  BY <1>1 DEF FirstOutside
<1> DEFINE new == [i \in 1..(L + 1) |-> IF i = L + 1 THEN n + 1 ELSE at[i]]
<1>5. /\ new \in [1..(L + 1) -> 1..(n + 1)]
      /\ new[L + 1] = n + 1 /\ \A i \in 1..L : new[i] = at[i] /\ at[i] \in 1..n
  BY <1>4 DEF AtOutside
<1> HIDE DEF new
<1>6. \A i \in 1..(L + 1) : i \in 1..L \/ i = L + 1
  OBVIOUS
<1>7. ASSUME NEW k \in 1..(n + 1)
      PROVE  Outside(q, k) <=> \E i \in 1..(L + 1) : new[i] = k
  <2>1. CASE k \in 1..n
    <3>1. (\E i \in 1..(L + 1) : new[i] = k) <=> \E i \in 1..L : at[i] = k
      BY <1>5, <1>6, <2>1
    <3> QED BY <1>4, <2>1, <3>1 DEF AtOutside
  <2>2. CASE k = n + 1
    <3>1. new[L + 1] = k /\ L + 1 \in 1..(L + 1)
      BY <1>5, <2>2
    <3> QED BY <2>2, <3>1
  <2> QED BY <2>1, <2>2
<1>8. \A i, j \in 1..(L + 1) : i < j => new[i] < new[j]
  <2>1. ASSUME NEW i \in 1..(L + 1), NEW j \in 1..(L + 1), i < j
        PROVE  new[i] < new[j]
    <3>1. i \in 1..L /\ new[i] = at[i] /\ at[i] \in 1..n
      BY <1>5, <2>1
    <3>2. CASE j = L + 1
      BY <1>5, <3>1, <3>2
    <3>3. CASE j \in 1..L
      BY <1>4, <1>5, <2>1, <3>1, <3>3 DEF AtOutside
    <3> QED BY <1>6, <3>2, <3>3
  <2> QED BY <2>1
<1>9. \A i \in 1..(L + 1) : t[i] = q[new[i]]
  <2>1. \A i \in 1..L : t[i] = q[new[i]]
    BY <1>3, <1>4, <1>5 DEF AtOutside
  <2>2. t[L + 1] = q[new[L + 1]]
    BY <1>3, <1>5
  <2> QED BY <1>6, <2>1, <2>2
<1>10. AtOutside(new, t, 1..(L + 1), q, 1..(n + 1))
  BY <1>5, <1>7, <1>8, <1>9 DEF AtOutside
<1>11. FirstOutside(t, q, n + 1)
  BY <1>3, <1>10 DEF FirstOutside
<1> QED BY <1>2, <1>11

\* One more token is scanned.
LEMMA ScanStep ==
  ASSUME NEW S, NEW q \in Seq(S), NEW n \in Nat, n + 1 <= Len(q),
         NEW st \in [inString : BOOLEAN, skip : BOOLEAN, out : Seq(S)],
         ScanKnows(q, n, st)
  PROVE  ScanKnows(q, n + 1, Scanned(st, q, n + 1))
<1>1. PICK k \in Nat \ {0} : k = n + 1 /\ k \in 1..Len(q)
  OBVIOUS
<1>2. PICK v \in S : v = q[k]
  BY <1>1
<1>3. PICK b \in BOOLEAN, p \in BOOLEAN, s \in Seq(S) :
        st = [inString |-> b, skip |-> p, out |-> s]
  OBVIOUS
<1>4. /\ InLiteral(q, k) <=> (b /\ ~p)
      /\ p => b /\ v = "'"
      /\ FirstOutside(s, q, n)
  BY <1>1, <1>2, <1>3 DEF ScanKnows
<1>5. InLiteral(q, k + 1) <=> (IF v = "'" THEN ~InLiteral(q, k) ELSE InLiteral(q, k))
  BY <1>2, LiteralsTurnAtQuotes
<1>6. PICK d \in BOOLEAN : d = Doubled(q, k) /\ (d => q[k + 1] = "'")
  BY DEF Doubled
<1>7. Outside(q, k) <=> v # "'" /\ ~(b /\ ~p)
  BY <1>2, <1>4 DEF Outside
<1>8. ASSUME ~Outside(q, k)
      PROVE  FirstOutside(s, q, k)
  BY <1>1, <1>4, <1>8, NothingOutside
<1>9. ASSUME NEW c \in BOOLEAN, NEW e \in BOOLEAN, NEW t,
             Scanned(st, q, k) = [inString |-> c, skip |-> e, out |-> t],
             InLiteral(q, k + 1) <=> (c /\ ~e), e => c /\ q[k + 1] = "'", FirstOutside(t, q, k)
      PROVE  ScanKnows(q, k, Scanned(st, q, k))
  BY <1>9 DEF ScanKnows
<1>10. CASE p
  <2>1. Scanned(st, q, k) = [inString |-> b, skip |-> FALSE, out |-> s]
    BY <1>3, <1>10 DEF Scanned
  <2> QED BY <1>1, <1>4, <1>5, <1>7, <1>8, <1>9, <1>10, <2>1
<1>11. CASE ~p /\ b /\ v # "'"
  <2>1. Scanned(st, q, k) = [inString |-> b, skip |-> p, out |-> s]
    BY <1>2, <1>3, <1>11 DEF Scanned
  <2> QED BY <1>1, <1>4, <1>5, <1>7, <1>8, <1>9, <1>11, <2>1
<1>12. CASE ~p /\ b /\ v = "'"
  <2>1. Scanned(st, q, k) = [inString |-> d, skip |-> d, out |-> s]
    BY <1>2, <1>3, <1>6, <1>12 DEF Scanned
  <2> QED BY <1>1, <1>4, <1>5, <1>6, <1>7, <1>8, <1>9, <1>12, <2>1
<1>13. CASE ~p /\ ~b /\ v = "'"
  <2>1. Scanned(st, q, k) = [inString |-> TRUE, skip |-> p, out |-> s]
    BY <1>2, <1>3, <1>13 DEF Scanned
  <2> QED BY <1>1, <1>4, <1>5, <1>7, <1>8, <1>9, <1>13, <2>1
<1>14. CASE ~p /\ ~b /\ v # "'"
  <2>1. Scanned(st, q, k) = [inString |-> b, skip |-> p, out |-> Append(s, v)]
    BY <1>2, <1>3, <1>14 DEF Scanned
  <2>2. FirstOutside(Append(s, v), q, k)
    BY <1>1, <1>2, <1>4, <1>7, <1>14, OneMoreOutside
  <2> QED BY <1>1, <1>4, <1>5, <1>9, <1>14, <2>1, <2>2
<1> QED BY <1>1, <1>10, <1>11, <1>12, <1>13, <1>14

\* For the scanner of stripStringLiterals, which looks ahead for a doubled quote,
\* a token is in a literal when an odd number of quotes stands before it: what it
\* returns is every other token that is not a quote, in their order. (A quote in
\* brackets counts for it like any other.)
THEOREM StrippingKeepsWhatIsOutside ==
  ASSUME NEW S, NEW q \in Seq(S)
  PROVE  stripStringLiterals(q) \in Seq(S) /\ IsOutside(stripStringLiterals(q), q)
<1> DEFINE L == Len(q)
           States == [inString : BOOLEAN, skip : BOOLEAN, out : Seq(S)]
<1>1. PICK scan \in [0..L -> States] :
        /\ scan[0] = [inString |-> FALSE, skip |-> FALSE, out |-> <<>>]
        /\ \A n \in 1..L : scan[n] = Scanned(scan[n - 1], q, n)
        /\ stripStringLiterals(q) = scan[L].out
  BY ScanLoop
<1> DEFINE T == {n \in Nat : n <= L => ScanKnows(q, n, scan[n])}
<1>2. 0 \in T
  <2>1. ~InLiteral(q, 0 + 1)
    BY LiteralsTurnAtQuotes
  <2>2. FirstOutside(<<>>, q, 0)
    <3>1. DOMAIN <<>> = {} /\ 1..0 = {}
      OBVIOUS
    <3>2. AtOutside([i \in {} |-> 0], <<>>, {}, q, {})
      BY DEF AtOutside
    <3> QED BY <3>1, <3>2 DEF FirstOutside
  <2>3. scan[0].inString = FALSE /\ scan[0].skip = FALSE /\ scan[0].out = <<>>
    BY <1>1
  <2>4. ScanKnows(q, 0, scan[0])
    BY <2>1, <2>2, <2>3 DEF ScanKnows
  <2> QED BY <2>4
<1>3. ASSUME NEW n \in Nat, n \in T
      PROVE  n + 1 \in T
  <2> SUFFICES ASSUME n + 1 <= L PROVE ScanKnows(q, n + 1, scan[n + 1])
    OBVIOUS
  <2>1. n + 1 \in 1..L /\ (n + 1) - 1 = n /\ n \in 0..L
    OBVIOUS
  <2>2. scan[n + 1] = Scanned(scan[n], q, n + 1)
    BY <1>1, <2>1
  <2>3. scan[n] \in States /\ ScanKnows(q, n, scan[n])
    <3> HIDE DEF States
    <3> QED BY <1>3, <2>1
  <2> QED BY <2>2, <2>3, ScanStep
<1>4. L \in Nat /\ ScanKnows(q, L, scan[L]) /\ scan[L] \in States
  <2>1. Nat \subseteq T
    <3> HIDE DEF T
    <3> QED BY <1>2, <1>3, Induction
  <2>2. L \in Nat /\ L \in 0..L
    OBVIOUS
  <2> HIDE DEF States
  <2> QED BY <2>1, <2>2
<1>5. PICK s \in Seq(S) : s = stripStringLiterals(q) /\ FirstOutside(s, q, L)
  BY <1>1, <1>4 DEF ScanKnows
<1>6. DOMAIN q = 1..L
  OBVIOUS
<1>7. PICK at : /\ at \in [DOMAIN s -> DOMAIN q]
                /\ AtOutside(at, s, DOMAIN s, q, DOMAIN q)
  <2>1. PICK E : E = DOMAIN q
    OBVIOUS
  <2>2. \E at : AtOutside(at, s, DOMAIN s, q, E)
    <3> HIDE DEF L
    <3> QED BY <1>5, <1>6, <2>1 DEF FirstOutside
  <2>3. \A at : AtOutside(at, s, DOMAIN s, q, E) => at \in [DOMAIN s -> E]
    BY DEF AtOutside
  <2> QED BY <2>1, <2>2, <2>3
<1>8. Range(at) = {k \in DOMAIN q : q[k] # "'" /\ ~InLiteral(q, k)}
  <2>1. \A k : k \in Range(at) <=> \E i \in DOMAIN s : at[i] = k
    BY DEF Range
  <2>2. \A k : k \in Range(at) <=> k \in DOMAIN q /\ Outside(q, k)
    BY <1>7, <2>1 DEF AtOutside
  <2> QED BY <2>2 DEF Outside
<1>9. IsOutside(s, q)
  BY <1>7, <1>8 DEF IsOutside, AtOutside
<1> QED BY <1>5, <1>9

StatementCodes == {"SQL_QUERY_REQUIRED", "SQL_MULTI_STATEMENT", "SQL_COMMENTS_NOT_ALLOWED",
                   "SQL_NOT_READ_ONLY"}

\* The first check that fails is the one that is answered.
LEMMA FirstFailedCheck ==
  ASSUME NEW q
  PROVE  validateReadOnlySQL(q) \in StatementCodes \cup {"OK"}
<1> DEFINE c == Checks(q)
           D == {k \in DOMAIN c : c[k][1]}
<1>1. c[6][1]
  BY Zenon DEF Checks
<1>2. /\ c[1][2] = "SQL_QUERY_REQUIRED"
      /\ c[2][2] = "SQL_MULTI_STATEMENT"
      /\ c[3][2] = "SQL_COMMENTS_NOT_ALLOWED"
      /\ c[4][2] = "SQL_NOT_READ_ONLY"
      /\ c[5][2] = "SQL_NOT_READ_ONLY"
      /\ c[6][2] = "OK"
  BY Zenon DEF Checks
<1>3. DOMAIN c = 1..6
  BY DEF Checks
<1> HIDE DEF c
<1>4. D \subseteq 1..6 /\ 6 \in D
  BY <1>1, <1>3
<1>5. Min(D) \in D
  <2> HIDE DEF D
  <2>1. D \subseteq Nat /\ D # {}
    BY <1>4
  <2>2. \E m \in D : \A k \in D : m <= k
    BY <2>1, LeastElement
  <2> QED BY <2>2 DEF Min
<1>6. validateReadOnlySQL(q) = c[Min(D)][2]
  BY DEF validateReadOnlySQL, c, D
<1> HIDE DEF D
<1>7. PICK m \in 1..6 : m = Min(D)
  BY <1>4, <1>5
<1>8. m = 1 \/ m = 2 \/ m = 3 \/ m = 4 \/ m = 5 \/ m = 6
  OBVIOUS
<1> QED BY <1>2, <1>6, <1>7, <1>8 DEF StatementCodes

-----------------------------------------------------------------------------
(* The rows of record sets.                                                *)

\* total holds the rows of the first sets, of the first two, and so on.
Totals(sets, total) ==
  /\ total \in [0..Len(sets) -> Nat]
  /\ total[0] = 0
  /\ \A n \in 1..Len(sets) : total[n] = total[n - 1] + sets[n]

\* TotalRows adds the sets up one by one.
LEMMA TotalRowsLoop ==
  ASSUME NEW sets \in Seq(Nat)
  PROVE  \E total : Totals(sets, total) /\ TotalRows(sets) = total[Len(sets)]
<1> DEFINE L == Len(sets)
           step == [n \in 1..L |-> [s \in Nat |-> s + sets[n]]]
           Round(o) == [n \in 0..L |-> IF n = 0 THEN 0 ELSE o[n - 1] + sets[n]]
<1>0. L \in Nat /\ 0 \in Nat /\ \A n \in 1..L : sets[n] \in Nat
  OBVIOUS
<1>1. step \in [1..L -> [Nat -> Nat]]
  BY <1>0
<1>2. PICK g \in [0..L -> Nat] : Computes(g, L, 0, step)
  <2> HIDE DEF L, step
  <2> QED BY <1>0, <1>1, Recursion
<1> HIDE DEF L
<1>3. Round(g) = g
  <2>1. ASSUME NEW n \in 0..L
        PROVE  g[n] = Round(g)[n]
    <3>1. CASE n = 0
      BY <1>2, <3>1 DEF Computes
    <3>2. CASE n # 0
      <4>1. n \in 1..L /\ g[n - 1] \in Nat
        BY <1>0, <3>2
      <4>2. g[n] = step[n][g[n - 1]]
        <5> HIDE DEF step, L
        <5> QED BY <1>2, <4>1 DEF Computes
      <4> QED BY <4>1, <4>2, <3>2
    <3> QED BY <3>1, <3>2
  <2> DEFINE h == Round(g) D == 0..L
  <2>2. h = [n \in D |-> h[n]] /\ g = [n \in D |-> g[n]] /\ \A n \in D : h[n] = g[n]
    BY <2>1
  <2> HIDE DEF h, D
  <2>3. h = g
    BY <2>2, SameFunction
  <2> QED BY <2>3 DEF h
<1>4. PICK u : u = Round(u) /\ TotalRows(sets) = u[L]
  <2> DEFINE u == CHOOSE o : o = Round(o)
  <2>1. TotalRows(sets) = u[L]
    BY DEF TotalRows, L
  <2> HIDE DEF Round
  <2>2. u = Round(u)
    BY <1>3
  <2> QED BY <2>1, <2>2
<1>5. u[0] = 0
  BY <1>0, <1>4
<1>6. \A n \in 1..L : u[n] = u[n - 1] + sets[n]
  BY <1>0, <1>4, SMTT(30)
<1>7. u = [n \in 0..L |-> u[n]]
  BY <1>4
<1>8. \A n \in 0..L : u[n] \in Nat
  <2>1. ASSUME NEW n \in 1..L, u[n - 1] \in Nat
        PROVE  u[n] \in Nat
    <3>1. PICK a \in Nat, b \in Nat : a = u[n - 1] /\ b = sets[n]
      BY <1>0, <2>1
    <3>2. u[n] = a + b
      BY <1>6, <3>1
    <3> QED BY <3>2
  <2> QED BY <1>0, <1>5, <2>1, LoopStaysIn
<1>9. Totals(sets, u)
  BY <1>5, <1>6, <1>7, <1>8 DEF Totals, L
<1> QED BY <1>4, <1>9 DEF L

\* A sequence of sets and the first n of it, with as many rows.
LEMMA SameTotals ==
  ASSUME NEW s \in Seq(Nat), NEW t \in Seq(Nat), NEW f, NEW g, Totals(s, f), Totals(t, g),
         NEW N \in Nat, N <= Len(s), N <= Len(t), \A k \in 1..N : s[k] = t[k]
  PROVE  f[N] = g[N]
<1> DEFINE T == {n \in Nat : n <= N => f[n] = g[n]}
<1>1. 0 \in T
  BY DEF Totals
<1>2. ASSUME NEW n \in Nat, n \in T
      PROVE  n + 1 \in T
  <2> SUFFICES ASSUME n + 1 <= N PROVE f[n + 1] = g[n + 1]
    OBVIOUS
  <2>1. n + 1 \in 1..Len(s) /\ n + 1 \in 1..Len(t) /\ n + 1 \in 1..N /\ (n + 1) - 1 = n
    OBVIOUS
  <2>2. f[n + 1] = f[n] + s[n + 1] /\ g[n + 1] = g[n] + t[n + 1]
    BY <2>1 DEF Totals
  <2> QED BY <1>2, <2>1, <2>2
<1>3. Nat \subseteq T
  <2> HIDE DEF T
  <2> QED BY <1>1, <1>2, Induction
<1> QED BY <1>3

\* The totals never fall.
LEMMA TotalsGrow ==
  ASSUME NEW t \in Seq(Nat), NEW g, Totals(t, g), NEW m \in 0..Len(t)
  PROVE  g[m] <= g[Len(t)]
<1> DEFINE T == {n \in Nat : m <= n /\ n <= Len(t) => g[m] <= g[n]}
<1>1. \A n \in 0..Len(t) : g[n] \in Nat
  BY DEF Totals
<1>2. 0 \in T
  <2>1. m <= 0 => m = 0
    OBVIOUS
  <2> QED BY <1>1, <2>1
<1>3. ASSUME NEW n \in Nat, n \in T
      PROVE  n + 1 \in T
  <2> SUFFICES ASSUME m <= n + 1, n + 1 <= Len(t) PROVE g[m] <= g[n + 1]
    OBVIOUS
  <2>1. n + 1 \in 1..Len(t) /\ (n + 1) - 1 = n /\ n \in 0..Len(t) /\ n + 1 \in 0..Len(t)
    OBVIOUS
  <2>2. g[n + 1] = g[n] + t[n + 1] /\ t[n + 1] \in Nat
    BY <2>1 DEF Totals
  <2>3. CASE m = n + 1
    BY <1>1, <2>1, <2>3
  <2>4. CASE m <= n
    BY <1>1, <1>3, <2>1, <2>2, <2>4
  <2> QED BY <2>3, <2>4
<1>4. Nat \subseteq T
  <2> HIDE DEF T
  <2> QED BY <1>2, <1>3, Induction
<1>5. Len(t) \in T
  BY <1>4
<1> QED BY <1>5

\* No set has no rows, and one more set adds its rows.
LEMMA TotalRowsOfMore ==
  ASSUME NEW sets \in Seq(Nat), NEW n \in Nat
  PROVE  /\ TotalRows(sets) \in Nat
         /\ TotalRows(<<>>) = 0
         /\ TotalRows(Append(sets, n)) = TotalRows(sets) + n
<1>1. PICK f : Totals(sets, f) /\ TotalRows(sets) = f[Len(sets)]
  BY TotalRowsLoop
<1>2. PICK e : Totals(<<>>, e) /\ TotalRows(<<>>) = e[Len(<<>>)]
  <2>1. <<>> \in Seq(Nat)
    OBVIOUS
  <2> QED BY <2>1, TotalRowsLoop, Zenon
<1>3. PICK t \in Seq(Nat) : t = Append(sets, n)
  <2>1. Append(sets, n) \in Seq(Nat)
    OBVIOUS
  <2> QED BY <2>1
<1>4. PICK g : Totals(t, g) /\ TotalRows(t) = g[Len(t)]
  BY TotalRowsLoop
<1>5. /\ Len(t) = Len(sets) + 1 /\ Len(sets) \in Nat /\ t[Len(t)] = n
      /\ Len(t) \in 1..Len(t) /\ Len(t) - 1 = Len(sets) /\ Len(sets) <= Len(t)
      /\ \A k \in 1..Len(sets) : sets[k] = t[k]
  BY <1>3
<1>6. f[Len(sets)] = g[Len(sets)]
  BY <1>1, <1>4, <1>5, SameTotals, SMTT(30)
<1>7. g[Len(t)] = g[Len(sets)] + n
  BY <1>4, <1>5 DEF Totals
<1>8. TotalRows(<<>>) = 0
  BY <1>2 DEF Totals
<1>9. TotalRows(sets) \in Nat
  BY <1>1 DEF Totals
<1> QED BY <1>1, <1>3, <1>4, <1>6, <1>7, <1>8, <1>9

\* The first sets of a sequence and the next one have no more rows than all.
LEMMA TotalRowsOfPart ==
  ASSUME NEW s \in Seq(Nat), NEW t \in Seq(Nat), Len(s) < Len(t),
         \A k \in 1..Len(s) : s[k] = t[k]
  PROVE  TotalRows(s) + t[Len(s) + 1] <= TotalRows(t)
<1>1. PICK f : Totals(s, f) /\ TotalRows(s) = f[Len(s)]
  BY TotalRowsLoop
<1>2. PICK g : Totals(t, g) /\ TotalRows(t) = g[Len(t)]
  BY TotalRowsLoop
<1>3. f[Len(s)] = g[Len(s)]
  BY <1>1, <1>2, SameTotals
<1>4. Len(s) + 1 \in 1..Len(t) /\ Len(s) + 1 \in 0..Len(t) /\ (Len(s) + 1) - 1 = Len(s)
  OBVIOUS
<1>5. g[Len(s) + 1] = g[Len(s)] + t[Len(s) + 1]
  BY <1>2, <1>4 DEF Totals
<1>6. g[Len(s) + 1] <= g[Len(t)]
  BY <1>2, <1>4, TotalsGrow
<1> QED BY <1>1, <1>2, <1>3, <1>5, <1>6

-----------------------------------------------------------------------------
(* The inductive invariant.                                                *)

\* A request asks for a connection or reads; then it closes, or is answered.
Reading == {"asking", "running", "inserted", "priced"}
Queries == {"none", "GPRICE_Bulk", "GetOnHandStockForSkus", "sap", "sql"}
Types ==
  /\ load \in Loads
  /\ version \in 0..MaxChanges
  /\ pc \in [Clients -> {"new", "asking", "done"} \cup Running]
  /\ query \in [Clients -> Queries \cup {"account", "rate"}]
  /\ since \in [Clients -> 0..version]
  /\ gone \subseteq Requests
  /\ faults \in 0..MaxFaults
  /\ cut \subseteq Clients /\ failed \subseteq Clients

Pool ==
  /\ IsFiniteSet(conns)
  /\ conns = {c \in Clients : pc[c] \in Running}
  /\ Cardinality(conns) <= MaxOpenConns

\* The row of GETPRICE that r enters for a SKU, priced at a version.
Entry(r, s, at) ==
  [station |-> r, account |-> Ask(r).card, item |-> s, price |-> Price(r, s, at)]

Rows ==
  \A row \in getprice : \E r \in Requests : \E s \in Range(Skus(r)) : \E at \in -1..version :
    row = Entry(r, s, at)

\* What a client has read is a record of these fields.
Gotten(g) ==
  /\ g = [prices |-> g.prices, totals |-> g.totals, sets |-> g.sets, rows |-> g.rows,
          total |-> g.total]
  /\ g.sets \in Seq(Nat) /\ g.rows \in Nat /\ g.total \in Nat

Data ==
  /\ got = [c \in Clients |-> got[c]]
  /\ \A c \in Clients : Gotten(got[c])
  /\ answer = [c \in Clients |-> answer[c]]

\* The place a request is at, the query it makes and the kind of request it is.
Path(r) ==
  /\ query[r] \in Queries
  /\ pc[r] = "new" => query[r] = "none" /\ got[r] = Nothing
  /\ pc[r] \in {"new"} \cup Reading => answer[r] = NoAnswer
  /\ pc[r] \in Reading \cup {"closing"} => query[r] # "none"
  /\ pc[r] \in {"inserted", "priced"} => query[r] = "GPRICE_Bulk"
  /\ pc[r] = "closing" => query[r] = "sql"
  /\ query[r] = "sql" => Ask(r).kind = "sql" /\ validateReadOnlySQL(Ask(r).query) = "OK"
  /\ query[r] \in {"GPRICE_Bulk", "GetOnHandStockForSkus"} =>
       Ask(r).kind = "price" /\ load.erp = "HASAVSHEVET" /\ Skus(r) # <<>>
  /\ query[r] = "sap" => Ask(r).kind = "price" /\ load.erp = "SAP"

WorkerPath ==
  /\ query[Worker] \in {"none", "account", "rate"}
  /\ pc[Worker] \in {"new", "asking", "running", "done"}
  /\ pc[Worker] # "new" => query[Worker] # "none" /\ load.order # NoOrder
  /\ pc[Worker] # "done" => answer[Worker] = NoAnswer

\* sets are the first of the sets r's statement returns.
FirstSets(r, sets) == \A k \in 1..Len(sets) : sets[k] = Sets(r)[k]

\* What a statement has read are whole sets, a part of the one after them, and
\* no more rows than the limit.
SetsSoFar(r, read) ==
  /\ Len(read.sets) < Len(Sets(r)) /\ FirstSets(r, read.sets)
  /\ read.rows <= Sets(r)[Len(read.sets) + 1]
  /\ read.total = TotalRows(read.sets) + read.rows
  /\ read.total <= sqlMaxRows

WholeSets(r, sets) ==
  /\ sets \in Seq(Nat) /\ sets # <<>>
  /\ Len(sets) <= Len(Sets(r)) /\ FirstSets(r, sets)
  /\ TotalRows(sets) <= sqlMaxRows
  /\ Len(sets) = Len(Sets(r)) \/ r \in gone

\* Each code is answered for its reason only.
SqlAnswer(r, says) ==
  /\ says.code \in {"none", "OK", "SQL_ROW_LIMIT", "SQL_TIMEOUT", "DB_ERROR"} \cup StatementCodes
  /\ says.code \in StatementCodes => validateReadOnlySQL(Ask(r).query) # "OK"
  /\ says.code = "OK" => WholeSets(r, says.body)
  /\ says.code = "SQL_ROW_LIMIT" => TotalRows(Sets(r)) > sqlMaxRows
  /\ says.code = "SQL_TIMEOUT" => r \in gone
  /\ says.code = "DB_ERROR" => r \in failed

Statement(r) ==
  Ask(r).kind = "sql" =>
    /\ query[r] = "sql" /\ pc[r] \in {"asking", "running"} => SetsSoFar(r, got[r])
    /\ pc[r] \in {"closing", "done"} => answer[r].code # "none"
    /\ SqlAnswer(r, answer[r])

StationRows(r) == {row \in getprice : row.station = r}
Entries(r, at) == {Entry(r, s, at) : s \in Range(Skus(r))}

\* r's rows in GETPRICE: none before it enters them, then one for each SKU,
\* without a price and then with the prices of one moment of the request.
RowsOfCall(r) ==
  /\ pc[r] = "new" \/ (query[r] = "GPRICE_Bulk" /\ pc[r] \in {"asking", "running"})
       => StationRows(r) = {}
  /\ pc[r] = "inserted" => StationRows(r) = Entries(r, Unset)
  /\ pc[r] = "priced" => \E v \in since[r]..version : StationRows(r) = Entries(r, v)

\* A price for every SKU, read between two versions.
FreshPrices(r, prices, from, to) ==
  /\ DOMAIN prices = Range(Skus(r))
  /\ \A s \in Range(Skus(r)) : \E v \in from..to : prices[s] = Price(r, s, v)

\* A stock for every SKU in each of the first warehouses.
FreshTotal(r, k, entry, from, to) ==
  /\ entry.warehouse = Warehouses(r)[k]
  /\ DOMAIN entry.total = Range(Skus(r))
  /\ \A s \in Range(Skus(r)) : \E v \in from..to :
       entry.total[s] = [of |-> <<Warehouses(r)[k], s>>, at |-> v]

FreshTotals(r, totals, from, to) ==
  /\ Len(totals) \in Nat /\ totals = [k \in 1..Len(totals) |-> totals[k]]
  /\ \A k \in 1..Len(totals) : FreshTotal(r, k, totals[k], from, to)

\* An item says the truth about the k-th SKU.
TrueItem(r, k, item, from, to) ==
  /\ item.sku = Skus(r)[k]
  /\ \E v \in from..to : item.prices = {Price(r, item.sku, v)}
  /\ {s[1] : s \in item.stockByWarehouse} = Range(Warehouses(r))
  /\ \A s \in item.stockByWarehouse :
       s[2].of = <<s[1], item.sku>> /\ s[2].at \in from..to

TrueItems(r, items, from, to) ==
  /\ Len(items) = Len(Skus(r)) /\ DOMAIN items = 1..Len(Skus(r))
  /\ \A k \in 1..Len(Skus(r)) : TrueItem(r, k, items[k], from, to)

Hasavshevet(r) ==
  (Ask(r).kind = "price" /\ load.erp = "HASAVSHEVET" /\ Skus(r) # <<>>) =>
    /\ RowsOfCall(r)
    /\ query[r] \in {"none", "GPRICE_Bulk"} => got[r].totals = <<>>
    /\ query[r] = "GetOnHandStockForSkus" /\ pc[r] \in {"asking", "running"} =>
         /\ FreshPrices(r, got[r].prices, since[r], version)
         /\ FreshTotals(r, got[r].totals, since[r], version)
         /\ Len(got[r].totals) < Len(Warehouses(r))
    /\ answer[r].code = "OK" => TrueItems(r, answer[r].body, since[r], version)

\* Prices that are not asked of Hasavshevet are the rows of SAP's statement.
SapPrices(r) ==
  (Ask(r).kind = "price" /\ load.erp # "HASAVSHEVET" /\ Skus(r) # <<>>
     /\ answer[r].code = "OK") =>
      load.erp = "SAP" /\ answer[r].body = SapRows(load.sap, SapQuery(r))

\* The record of the order in hand, at a rate.
RecordOf(rate) ==
  generateDOC(Header(load.order.number, load.order.account, load.order, rate),
              Moves(load.order))

-----------------------------------------------------------------------------
(* What a request is answered before the database is asked, or what it     *)
(* asks first.                                                             *)

\* What the loads are assumed to be, for a request r.
LEMMA AskedFor ==
  ASSUME load \in Loads, NEW r \in Requests
  PROVE  /\ Ask(r).kind \in {"garbled", "sql", "price"}
         /\ Ask(r).kind = "sql" =>
              /\ Ask(r).query \in Seq(Range(Ask(r).query))
              /\ Sets(r) \in Seq(Nat) /\ Sets(r) # <<>>
         /\ Ask(r).kind = "price" =>
              /\ Ask(r).skus \in Seq(Range(Ask(r).skus))
              /\ Ask(r).warehouses \in Seq(Range(Ask(r).warehouses))
BY LoadsAssumption DEF Ask, Sets

\* A request goes on to the database only as a statement that passed the
\* checks, or for prices of at least one SKU in an ERP that has a price query.
LEMMA FirstQueryFits ==
  ASSUME load \in Loads, NEW r \in Requests, EarlyAnswer(r) = NoAnswer
  PROVE  \/ /\ FirstQuery(r) = "sql"
            /\ Ask(r).kind = "sql" /\ validateReadOnlySQL(Ask(r).query) = "OK"
         \/ /\ FirstQuery(r) = "sap"
            /\ Ask(r).kind = "price" /\ load.erp = "SAP"
         \/ /\ FirstQuery(r) = "GPRICE_Bulk"
            /\ Ask(r).kind = "price" /\ load.erp = "HASAVSHEVET" /\ Skus(r) # <<>>
<1>1. CASE Ask(r).kind = "garbled"
  BY <1>1 DEF EarlyAnswer, Answered, NoAnswer
<1>2. CASE Ask(r).kind = "sql"
  <2>1. FirstQuery(r) = "sql"
    BY <1>2 DEF FirstQuery
  <2>2. validateReadOnlySQL(Ask(r).query) = "OK"
    <3>1. validateReadOnlySQL(Ask(r).query) \in StatementCodes \cup {"OK"}
      BY FirstFailedCheck
    <3>2. validateReadOnlySQL(Ask(r).query) # "none"
      BY <3>1 DEF StatementCodes
    <3> QED BY <1>2, <3>2 DEF EarlyAnswer, Answered, NoAnswer
  <2> QED BY <1>2, <2>1, <2>2
<1>3. CASE Ask(r).kind = "price"
  <2>1. load.erp \in {"SAP", "HASAVSHEVET"} /\ Skus(r) # <<>>
    BY <1>3 DEF EarlyAnswer, Answered, NoAnswer
  <2> QED BY <1>3, <2>1 DEF FirstQuery
<1> QED BY <1>1, <1>2, <1>3, AskedFor

\* What is answered at once is the code of a statement that is refused, or an
\* error or no item at all of a price request: never prices.
LEMMA EarlyAnswerFits ==
  ASSUME load \in Loads, NEW r \in Requests, EarlyAnswer(r) # NoAnswer
  PROVE  /\ Ask(r).kind = "sql" =>
              /\ EarlyAnswer(r).code = validateReadOnlySQL(Ask(r).query)
              /\ EarlyAnswer(r).code \in StatementCodes
         /\ (Ask(r).kind = "price" /\ load.erp = "HASAVSHEVET" /\ Skus(r) # <<>>) =>
              EarlyAnswer(r).code # "OK"
         /\ EarlyAnswer(r) = Answered(EarlyAnswer(r).code, EarlyAnswer(r).body)
<1>1. CASE Ask(r).kind = "garbled"
  BY <1>1 DEF EarlyAnswer, Answered, NoAnswer
<1>2. CASE Ask(r).kind = "sql"
  <2>1. PICK code : code = validateReadOnlySQL(Ask(r).query)
    OBVIOUS
  <2>2. code \in StatementCodes \cup {"OK"}
    BY <2>1, FirstFailedCheck
  <2>3. EarlyAnswer(r) = Answered(code, <<>>) /\ code # "OK"
    BY <1>2, <2>1 DEF EarlyAnswer
  <2> QED BY <1>2, <2>1, <2>2, <2>3 DEF Answered
<1>3. CASE Ask(r).kind = "price"
  <2>1. PICK code : EarlyAnswer(r) = Answered(code, <<>>)
    BY <1>3 DEF EarlyAnswer
  <2>2. load.erp = "HASAVSHEVET" /\ Skus(r) # <<>> => EarlyAnswer(r).code # "OK"
    BY <1>3 DEF EarlyAnswer, Answered, NoAnswer
  <2> QED BY <1>3, <2>1, <2>2 DEF Answered
<1> QED BY <1>1, <1>2, <1>3, AskedFor

-----------------------------------------------------------------------------
(* The types.                                                              *)

\* A step of a request's handler keeps the types.
LEMMA HandlerTypes ==
  ASSUME Types, Data, NEW r \in Requests, Handler(r)
  PROVE  Types'
<1> USE DEF Types, clientVars
<1>0. r \in Clients /\ r \in Requests /\ version \in 0..version
  BY ApiAssumption DEF Clients
<1>1. CASE Receive(r)
  <2>1. version' = version /\ load' = load /\ since' \in [Clients -> 0..version]
    BY <1>0, <1>1 DEF Receive
  <2>2. CASE EarlyAnswer(r) = NoAnswer
    <3>1. FirstQuery(r) \in Queries
      BY <2>2, FirstQueryFits DEF Queries
    <3> QED BY <1>0, <1>1, <2>1, <2>2, <3>1 DEF Receive, AsksFor
  <2>3. CASE EarlyAnswer(r) # NoAnswer
    BY <1>0, <1>1, <2>1, <2>3 DEF Receive, Answers
  <2> QED BY <2>2, <2>3
<1>2. CASE BreaksOff(r)
  BY <1>0, <1>2 DEF BreaksOff, Answers
<1>3. CASE BulkInserts(r)
  BY <1>0, <1>3 DEF BulkInserts, Running
<1>4. CASE GPRICE(r)
  BY <1>0, <1>4 DEF GPRICE, Running
<1>5. CASE BulkReturns(r)
  BY <1>0, <1>5 DEF BulkReturns, AsksFor, Queries
<1>6. CASE StockReturns(r)
  BY <1>0, <1>6 DEF StockReturns, AsksFor, Answers
<1>7. CASE SapReturns(r)
  BY <1>0, <1>7 DEF SapReturns, Answers
<1>8. CASE NextRow(r)
  BY <1>8 DEF NextRow
<1>9. CASE RowLimit(r)
  BY <1>0, <1>9 DEF RowLimit, AnswersThenCloses, Running
<1>10. CASE EndOfSet(r)
  BY <1>0, <1>10 DEF EndOfSet, AnswersThenCloses, Running
<1>11. CASE CloseRows(r)
  BY <1>0, <1>11 DEF CloseRows
<1> QED BY <1>1, <1>2, <1>3, <1>4, <1>5, <1>6, <1>7, <1>8, <1>9, <1>10, <1>11 DEF Handler

\* A step of the order worker keeps the types.
LEMMA WorkerTypes ==
  ASSUME Types, WorkerStep
  PROVE  Types'
<1> USE DEF Types, clientVars
<1>0. Worker \in Clients /\ version \in 0..version
  BY ApiAssumption DEF Clients
<1>1. CASE WorkerTakes
  BY <1>0, <1>1 DEF WorkerTakes, AsksFor
<1>2. CASE AccountFound
  BY <1>0, <1>2 DEF AccountFound, AsksFor
<1>3. CASE AccountNotFound
  BY <1>0, <1>3 DEF AccountNotFound, Answers
<1>4. CASE RateReturns
  BY <1>0, <1>4 DEF RateReturns, Writes, Answers
<1> QED BY <1>1, <1>2, <1>3, <1>4 DEF WorkerStep

\* A query fails: its client is answered, whoever it is.
LEMMA FailedQueryAnswers ==
  ASSUME NEW c \in Clients, \A r \in Requests : Path(r), FailedQuery(c)
  PROVE  \E code, body : Answers(c, code, body)
<1>1. CASE query[c] = "account"
  BY <1>1 DEF FailedQuery
<1>2. CASE query[c] = "rate"
  <2> DEFINE doc == RecordOf(NoRate)
  <2>1. c = Worker
    BY <1>2 DEF Clients, Path, Queries
  <2>2. Answers(c, "written", doc)
    BY <1>2, <2>1 DEF FailedQuery, Writes, RecordOf
  <2> HIDE DEF doc
  <2> QED BY <2>2
<1>3. CASE query[c] \notin {"account", "rate"}
  BY <1>3 DEF FailedQuery
<1> QED BY <1>1, <1>2, <1>3

\* The database, the deadlines and the ERP keep the types.
LEMMA DatabaseTypes ==
  ASSUME Types, \A r \in Requests : Path(r),
         Database \/ \E r \in Requests : ContextEnds(r)
  PROVE  Types'
<1> USE DEF Types, clientVars
<1>0. Requests \subseteq Clients
  BY DEF Clients
<1>1. ASSUME NEW r \in Requests, ContextEnds(r)
      PROVE  Types'
  BY <1>0, <1>1 DEF ContextEnds
<1>2. CASE ErpChanges
  <2>1. version \in Nat /\ version' = version + 1 /\ version' \in 0..MaxChanges
    BY <1>2, ApiAssumption DEF ErpChanges
  <2>2. 0..version \subseteq 0..version'
    BY <2>1
  <2>3. since' \in [Clients -> 0..version']
    BY <1>2, <2>2 DEF ErpChanges
  <2> QED BY <1>2, <2>1, <2>3 DEF ErpChanges
<1>3. ASSUME NEW c \in Clients, GetsConnection(c)
      PROVE  Types'
  BY <1>3 DEF GetsConnection, Running
<1>4. ASSUME NEW c \in Clients, DatabaseFails(c),
             UNCHANGED <<load, version, since, gone>>, cut' = cut \/ cut' = cut \cup {c}
      PROVE  Types'
  <2>1. PICK code, body : Answers(c, code, body)
    BY <1>4, FailedQueryAnswers DEF DatabaseFails
  <2>2. faults \in Nat /\ faults' = faults + 1 /\ faults' \in 0..MaxFaults
    BY <1>4, ApiAssumption DEF DatabaseFails
  <2>3. pc' \in [Clients -> {"new", "asking", "done"} \cup Running] /\ query' = query
    BY <2>1 DEF Answers
  <2>4. cut' \subseteq Clients /\ failed' \subseteq Clients
    BY <1>4 DEF DatabaseFails
  <2> QED BY <1>4, <2>2, <2>3, <2>4
<1>5. ASSUME NEW c \in Clients, StatementFails(c) \/ ConnectionLost(c)
      PROVE  Types'
  <2>1. DatabaseFails(c) /\ UNCHANGED <<load, version, since, gone>>
        /\ (cut' = cut \/ cut' = cut \cup {c})
    BY <1>5 DEF StatementFails, ConnectionLost
  <2> QED BY <2>1, <1>4
<1> QED BY <1>1, <1>2, <1>3, <1>5 DEF Database

-----------------------------------------------------------------------------
(* The pool.                                                               *)

\* A client that goes somewhere without a connection leaves its own.
LEMMA PoolAfterClosing ==
  ASSUME Types, Pool, NEW c \in Clients, NEW s, s \notin Running,
         pc' = [pc EXCEPT ![c] = s], Closes(c)
  PROVE  Pool'
<1>1. conns' = conns \ {c}
  BY DEF Closes
<1>2. IsFiniteSet(conns') /\ Cardinality(conns') <= MaxOpenConns
  <2>1. IsFiniteSet(conns \ {c})
        /\ Cardinality(conns \ {c}) = IF c \in conns THEN Cardinality(conns) - 1 ELSE Cardinality(conns)
    BY FS_RemoveElement DEF Pool
  <2>2. Cardinality(conns) \in Nat /\ Cardinality(conns) <= MaxOpenConns /\ MaxOpenConns \in Nat
    BY FS_CardinalityType, ApiAssumption DEF Pool
  <2> QED BY <1>1, <2>1, <2>2
<1>3. conns' = {d \in Clients : pc'[d] \in Running}
  BY <1>1 DEF Pool, Types
<1> QED BY <1>2, <1>3 DEF Pool

\* A client that goes on with its connection, or without one, changes nothing.
LEMMA PoolUnchanged ==
  ASSUME Types, Pool, NEW c \in Clients, conns' = conns,
         pc' = pc \/ \E s : pc' = [pc EXCEPT ![c] = s] /\ (s \in Running <=> pc[c] \in Running)
  PROVE  Pool'
<1>1. conns' = {d \in Clients : pc'[d] \in Running}
  <2>1. CASE pc' = pc
    BY <2>1 DEF Pool
  <2>2. ASSUME NEW s, pc' = [pc EXCEPT ![c] = s], s \in Running <=> pc[c] \in Running
        PROVE  conns' = {d \in Clients : pc'[d] \in Running}
    <3>1. \A d \in Clients : pc'[d] \in Running <=> pc[d] \in Running
      BY <2>2 DEF Types
    <3> QED BY <3>1 DEF Pool
  <2> QED BY <2>1, <2>2
<1> QED BY <1>1 DEF Pool

\* A client that gets a connection finds the pool not full.
LEMMA PoolAfterGetting ==
  ASSUME Types, Pool, NEW c \in Clients, GetsConnection(c)
  PROVE  Pool'
<1>1. conns' = conns \cup {c} /\ pc' = [pc EXCEPT ![c] = "running"]
      /\ Cardinality(conns) < MaxOpenConns
  BY DEF GetsConnection
<1>2. IsFiniteSet(conns') /\ Cardinality(conns') <= MaxOpenConns
  <2>1. IsFiniteSet(conns \cup {c})
        /\ Cardinality(conns \cup {c}) = IF c \in conns THEN Cardinality(conns) ELSE Cardinality(conns) + 1
    BY FS_AddElement DEF Pool
  <2>2. Cardinality(conns) \in Nat /\ MaxOpenConns \in Nat
    BY FS_CardinalityType, ApiAssumption DEF Pool
  <2> QED BY <1>1, <2>1, <2>2
<1>3. conns' = {d \in Clients : pc'[d] \in Running}
  BY <1>1 DEF Pool, Types, Running
<1> QED BY <1>2, <1>3 DEF Pool

\* Every step keeps the pool.
LEMMA PoolStep ==
  ASSUME Types, Pool, \A r \in Requests : Path(r), Next
  PROVE  Pool'
<1>0. Requests \subseteq Clients /\ Worker \in Clients
  BY DEF Clients
<1>1. ASSUME NEW r \in Requests, Handler(r)
      PROVE  Pool'
  <2>1. CASE Receive(r)
    <3>1. PICK s \in {"asking", "done"} : pc' = [pc EXCEPT ![r] = s]
      BY <2>1 DEF Receive, AsksFor, Answers
    <3>2. conns' = conns /\ pc[r] = "new"
      BY <2>1 DEF Receive
    <3> QED BY <1>0, <3>1, <3>2, PoolUnchanged DEF Running
  <2>2. CASE BreaksOff(r)
    BY <1>0, <2>2, PoolAfterClosing DEF BreaksOff, Answers, Running
  <2>3. CASE BulkInserts(r)
    BY <1>0, <2>3, PoolUnchanged DEF BulkInserts, Running
  <2>4. CASE GPRICE(r)
    BY <1>0, <2>4, PoolUnchanged DEF GPRICE, Running
  <2>5. CASE BulkReturns(r)
    BY <1>0, <2>5, PoolAfterClosing DEF BulkReturns, AsksFor, Running
  <2>6. CASE StockReturns(r)
    <3>1. PICK s \in {"asking", "done"} : pc' = [pc EXCEPT ![r] = s]
      BY <2>6 DEF StockReturns, AsksFor, Answers
    <3>2. Closes(r)
      BY <2>6 DEF StockReturns
    <3> QED BY <1>0, <3>1, <3>2, PoolAfterClosing DEF Running
  <2>7. CASE SapReturns(r)
    BY <1>0, <2>7, PoolAfterClosing DEF SapReturns, Answers, Running
  <2>8. CASE NextRow(r)
    BY <1>0, <2>8, PoolUnchanged DEF NextRow
  <2>9. CASE RowLimit(r)
    BY <1>0, <2>9, PoolUnchanged DEF RowLimit, SqlReads, AnswersThenCloses, Running
  <2>10. CASE EndOfSet(r)
    BY <1>0, <2>10, PoolUnchanged DEF EndOfSet, SqlReads, AnswersThenCloses, Running
  <2>11. CASE CloseRows(r)
    BY <1>0, <2>11, PoolAfterClosing DEF CloseRows, Running
  <2> QED BY <1>1, <2>1, <2>2, <2>3, <2>4, <2>5, <2>6, <2>7, <2>8, <2>9, <2>10, <2>11 DEF Handler
<1>2. CASE WorkerStep
  <2>1. CASE WorkerTakes
    <3>1. PICK s \in {"asking", "done"} : pc' = [pc EXCEPT ![Worker] = s]
      BY <2>1 DEF WorkerTakes, AsksFor
    <3>2. conns' = conns /\ pc[Worker] = "new"
      BY <2>1 DEF WorkerTakes
    <3> QED BY <1>0, <3>1, <3>2, PoolUnchanged DEF Running
  <2>2. CASE AccountFound
    BY <1>0, <2>2, PoolAfterClosing DEF AccountFound, AsksFor, Running
  <2>3. CASE AccountNotFound
    BY <1>0, <2>3, PoolAfterClosing DEF AccountNotFound, Answers, Running
  <2>4. CASE RateReturns
    BY <1>0, <2>4, PoolAfterClosing DEF RateReturns, Writes, Answers, Running
  <2> QED BY <1>2, <2>1, <2>2, <2>3, <2>4 DEF WorkerStep
<1>3. ASSUME NEW r \in Requests, ContextEnds(r)
      PROVE  Pool'
  BY <1>0, <1>3, PoolUnchanged DEF ContextEnds, clientVars
<1>4. CASE ErpChanges
  BY <1>0, <1>4, PoolUnchanged DEF ErpChanges, clientVars
<1>5. ASSUME NEW c \in Clients, StatementFails(c) \/ ConnectionLost(c)
      PROVE  Pool'
  <2>1. Closes(c) /\ FailedQuery(c)
    BY <1>5 DEF StatementFails, ConnectionLost, DatabaseFails
  <2>2. PICK code, body : Answers(c, code, body)
    BY <2>1, FailedQueryAnswers
  <2> QED BY <2>1, <2>2, PoolAfterClosing DEF Answers, Running
<1> QED BY <1>1, <1>2, <1>3, <1>4, <1>5, PoolAfterGetting DEF Next, Database

-----------------------------------------------------------------------------
(* The rows of GETPRICE, and what the clients have read.                   *)

\* A row that gets its price.
LEMMA PricedEntry ==
  ASSUME NEW q, NEW s, NEW at, NEW v, NEW row, row = Entry(q, s, at)
  PROVE  [row EXCEPT !.price.at = v] = Entry(q, s, v)
BY DEF Entry, Price

\* Every step keeps the shape of the rows.
LEMMA RowsStep ==
  ASSUME Types, Rows, Next
  PROVE  Rows'
<1> DEFINE Shaped(row, v) ==
      \E r \in Requests : \E s \in Range(Skus(r)) : \E at \in -1..v : row = Entry(r, s, at)
<1>0. load' = load
  BY DEF Next, Handler, Receive, ContextEnds, BreaksOff, BulkInserts, GPRICE, BulkReturns,
         StockReturns, SapReturns, NextRow, RowLimit, EndOfSet, CloseRows, WorkerStep,
         WorkerTakes, AccountFound, AccountNotFound, RateReturns, Database, ErpChanges,
         GetsConnection, StatementFails, ConnectionLost
<1>1. \A r, s, at : Entry(r, s, at)' = Entry(r, s, at) /\ Skus(r)' = Skus(r)
  BY <1>0 DEF Entry, Ask, Price, Skus
<1>2. version \in Nat /\ \A row \in getprice : Shaped(row, version)
  BY ApiAssumption DEF Types, Rows
<1>3. SUFFICES \A row \in getprice' : Shaped(row, version')
  BY <1>1 DEF Rows
<1>4. CASE getprice' \subseteq getprice /\ version' \in Nat /\ version <= version'
  <2>1. -1..version \subseteq -1..version'
    BY <1>2, <1>4
  <2> HIDE DEF Shaped
  <2>2. \A row : Shaped(row, version) => Shaped(row, version')
    BY <2>1 DEF Shaped
  <2> QED BY <1>2, <1>4, <2>2
<1>5. ASSUME NEW r \in Requests, BulkInserts(r)
      PROVE  \A row \in getprice' : Shaped(row, version')
  <2>1. version' = version /\ -1 \in -1..version
    BY <1>2, <1>5 DEF BulkInserts
  <2>2. getprice' = getprice \cup {Entry(r, s, -1) : s \in Range(Skus(r))}
    BY <1>5 DEF BulkInserts, Entry, station, Unset
  <2> QED BY <1>2, <2>1, <2>2
<1>6. ASSUME NEW r \in Requests, GPRICE(r)
      PROVE  \A row \in getprice' : Shaped(row, version')
  <2>1. version' = version
    BY <1>6 DEF GPRICE
  <2>0. version \in Nat
    BY <1>2
  <2>4. version \in -1..version
    BY <2>0
  <2>2. ASSUME NEW row \in getprice
        PROVE  Shaped([row EXCEPT !.price.at = version], version)
    <3>0. PICK q \in Requests : \E s \in Range(Skus(q)) : \E at \in -1..version :
            row = Entry(q, s, at)
      BY <1>2
    <3>1. PICK s \in Range(Skus(q)), at \in -1..version : row = Entry(q, s, at)
      BY <3>0
    <3>2. [row EXCEPT !.price.at = version] = Entry(q, s, version)
      BY <3>1, PricedEntry
    <3> QED BY <2>4, <3>2
  <2>3. \A row \in getprice' : row \in getprice \/
          \E x \in getprice : row = [x EXCEPT !.price.at = version]
    BY <1>6 DEF GPRICE
  <2> HIDE DEF Shaped
  <2> QED BY <1>2, <2>1, <2>2, <2>3
<1>7. \/ \E r \in Requests : BulkInserts(r) \/ GPRICE(r)
      \/ getprice' \subseteq getprice /\ (version' = version \/ version' = version + 1)
  BY DEF Next, Handler, Receive, ContextEnds, BreaksOff, BulkReturns,
         StockReturns, SapReturns, NextRow, RowLimit, EndOfSet, CloseRows, WorkerStep,
         WorkerTakes, AccountFound, AccountNotFound, RateReturns, Database, ErpChanges,
         GetsConnection, StatementFails, ConnectionLost
<1> QED BY <1>2, <1>4, <1>5, <1>6, <1>7

-----------------------------------------------------------------------------
(* What the clients have read.                                             *)

\* The client of a step: everybody else is left alone.
StepOf(c) ==
  \/ c \in Requests /\ (Handler(c) \/ ContextEnds(c))
  \/ c = Worker /\ WorkerStep
  \/ GetsConnection(c) \/ StatementFails(c) \/ ConnectionLost(c)

\* A step is the ERP changing or a client's.
LEMMA SomebodySteps ==
  ASSUME Next
  PROVE  ErpChanges \/ \E c \in Clients : StepOf(c)
BY DEF Next, Database, StepOf, Clients

\* What is read is put into its field.
LEMMA FieldsSet ==
  ASSUME NEW g, Gotten(g), NEW p, NEW sets \in Seq(Nat), NEW h,
         \/ h = [g EXCEPT !.prices = p]
         \/ h = [g EXCEPT !.totals = p]
         \/ h = [g EXCEPT !.rows = @ + 1, !.total = @ + 1]
         \/ h = [g EXCEPT !.sets = sets, !.rows = 0]
  PROVE  Gotten(h)
<1>1. PICK prices, totals, ss, rows, total :
        /\ ss = g.sets /\ ss \in Seq(Nat) /\ rows = g.rows /\ rows \in Nat
        /\ total = g.total /\ total \in Nat
        /\ g = [prices |-> prices, totals |-> totals, sets |-> ss, rows |-> rows,
                total |-> total]
  BY DEF Gotten
<1>2. [g EXCEPT !.prices = p] =
        [prices |-> p, totals |-> totals, sets |-> ss, rows |-> rows, total |-> total]
  BY <1>1
<1>3. [g EXCEPT !.totals = p] =
        [prices |-> prices, totals |-> p, sets |-> ss, rows |-> rows, total |-> total]
  BY <1>1
<1>4. [g EXCEPT !.rows = @ + 1, !.total = @ + 1] =
        [prices |-> prices, totals |-> totals, sets |-> ss, rows |-> rows + 1,
         total |-> total + 1]
  <2>1. PICK i : i = [g EXCEPT !.rows = g.rows + 1]
    OBVIOUS
  <2>2. i = [prices |-> prices, totals |-> totals, sets |-> ss, rows |-> rows + 1,
             total |-> total]
    <3>1. PICK more : more = g.rows + 1 /\ more = rows + 1
      BY <1>1
    <3>2. i = [g EXCEPT !.rows = more]
      BY <2>1, <3>1
    <3>3. i = [prices |-> prices, totals |-> totals, sets |-> ss, rows |-> more,
               total |-> total]
      BY <1>1, <3>2, SMTT(30)
    <3> QED BY <3>1, <3>3
  <2>3. [g EXCEPT !.rows = @ + 1, !.total = @ + 1] = [i EXCEPT !.total = total + 1]
    <3>1. i.total = total
      BY <2>2
    <3> QED BY <2>1, <3>1
  <2>4. [i EXCEPT !.total = total + 1] =
          [prices |-> prices, totals |-> totals, sets |-> ss, rows |-> rows + 1,
           total |-> total + 1]
    BY <2>2
  <2> QED BY <2>3, <2>4
<1>5. [g EXCEPT !.sets = sets, !.rows = 0] =
        [prices |-> prices, totals |-> totals, sets |-> sets, rows |-> 0, total |-> total]
  <2>1. PICK i : i = [g EXCEPT !.sets = sets]
    OBVIOUS
  <2>2. i = [prices |-> prices, totals |-> totals, sets |-> sets, rows |-> rows, total |-> total]
    BY <1>1, <2>1
  <2>3. [g EXCEPT !.sets = sets, !.rows = 0] = [i EXCEPT !.rows = 0]
    BY <2>1
  <2>4. [i EXCEPT !.rows = 0] =
          [prices |-> prices, totals |-> totals, sets |-> sets, rows |-> 0, total |-> total]
    BY <2>2
  <2> QED BY <2>3, <2>4
<1>6. ASSUME NEW a, NEW b, NEW x \in Seq(Nat), NEW n \in Nat, NEW m \in Nat,
             h = [prices |-> a, totals |-> b, sets |-> x, rows |-> n, total |-> m]
      PROVE  Gotten(h)
  BY <1>6 DEF Gotten
<1>7. /\ ss \in Seq(Nat) /\ rows \in Nat /\ total \in Nat
      /\ rows + 1 \in Nat /\ total + 1 \in Nat /\ 0 \in Nat
  BY <1>1
<1>8. CASE h = [g EXCEPT !.prices = p]
  BY <1>2, <1>6, <1>7, <1>8
<1>9. CASE h = [g EXCEPT !.totals = p]
  BY <1>3, <1>6, <1>7, <1>9
<1>10. CASE h = [g EXCEPT !.rows = @ + 1, !.total = @ + 1]
  BY <1>4, <1>6, <1>7, <1>10
<1>11. CASE h = [g EXCEPT !.sets = sets, !.rows = 0]
  BY <1>5, <1>6, <1>7, <1>11
<1> QED BY <1>8, <1>9, <1>10, <1>11

\* What a step puts in place of what a client had read is of the same fields.
LEMMA GotAfter ==
  ASSUME Data, NEW c \in Clients, NEW g, Gotten(g), got' = [got EXCEPT ![c] = g],
         answer' = [d \in Clients |-> answer'[d]]
  PROVE  Data'
<1>1. got' = [d \in Clients |-> got'[d]]
  BY DEF Data
<1>2. \A d \in Clients : got'[d] = got[d] \/ got'[d] = g
  BY DEF Data
<1>3. \A d \in Clients : Gotten(got'[d])
  BY <1>2 DEF Data
<1>4. (\A d \in Clients : Gotten(got[d]))'
  BY <1>3
<1> QED BY <1>1, <1>4 DEF Data

\* Answers stay one for each client.
LEMMA AnswersKept ==
  ASSUME Data, NEW c \in Clients,
         \/ answer' = answer
         \/ \E a : answer' = [answer EXCEPT ![c] = a]
  PROVE  answer' = [d \in Clients |-> answer'[d]]
<1>1. CASE answer' = answer
  BY <1>1 DEF Data
<1>2. ASSUME NEW a, answer' = [answer EXCEPT ![c] = a]
      PROVE  answer' = [d \in Clients |-> answer'[d]]
  BY <1>2 DEF Data
<1> QED BY <1>1, <1>2

\* Every step keeps the fields of what was read.
LEMMA DataStep ==
  ASSUME Types, Data, \A r \in Requests : Path(r), Next
  PROVE  Data'
<1>0. Requests \subseteq Clients /\ Worker \in Clients
  BY DEF Clients
<1>1. ASSUME NEW c \in Clients, got' = got,
             answer' = answer \/ \E a : answer' = [answer EXCEPT ![c] = a]
      PROVE  Data'
  <2>1. answer' = [d \in Clients |-> answer'[d]]
    BY <1>1, AnswersKept
  <2> QED BY <1>1, <2>1 DEF Data
<1>2. ASSUME NEW r \in Requests, NEW h, got' = [got EXCEPT ![r] = h],
             NEW p, NEW sets \in Seq(Nat),
             \/ h = [got[r] EXCEPT !.prices = p]
             \/ h = [got[r] EXCEPT !.totals = p]
             \/ h = [got[r] EXCEPT !.rows = @ + 1, !.total = @ + 1]
             \/ h = [got[r] EXCEPT !.sets = sets, !.rows = 0],
             answer' = answer \/ \E a : answer' = [answer EXCEPT ![r] = a]
      PROVE  Data'
  <2>1. PICK g : g = got[r]
    OBVIOUS
  <2>2. Gotten(g)
    BY <1>0, <2>1 DEF Data
  <2>3. Gotten(h)
    BY <1>2, <2>1, <2>2, FieldsSet
  <2>4. answer' = [d \in Clients |-> answer'[d]]
    BY <1>0, <1>2, AnswersKept
  <2> QED BY <1>0, <1>2, <2>3, <2>4, GotAfter
<1>3. <<>> \in Seq(Nat)
  OBVIOUS
<1>4. ASSUME NEW r \in Requests, BulkReturns(r)
      PROVE  Data'
  <2>1. PICK p : got' = [got EXCEPT ![r].prices = p]
    BY <1>4 DEF BulkReturns
  <2>2. PICK h : h = [got[r] EXCEPT !.prices = p]
    OBVIOUS
  <2>3. got' = [got EXCEPT ![r] = h] /\ answer' = answer
    BY <1>4, <2>1, <2>2 DEF BulkReturns, AsksFor
  <2> QED BY <1>2, <1>3, <2>2, <2>3
<1>5. ASSUME NEW r \in Requests, StockReturns(r)
      PROVE  Data'
  <2>1. PICK p : got' = [got EXCEPT ![r].totals = p]
    BY <1>5 DEF StockReturns
  <2>2. PICK h : h = [got[r] EXCEPT !.totals = p]
    OBVIOUS
  <2>3. got' = [got EXCEPT ![r] = h]
    BY <2>1, <2>2
  <2>4. answer' = answer \/ \E a : answer' = [answer EXCEPT ![r] = a]
    BY <1>5 DEF StockReturns, AsksFor, Answers
  <2> QED BY <1>2, <1>3, <2>2, <2>3, <2>4
<1>6. ASSUME NEW r \in Requests, NextRow(r)
      PROVE  Data'
  <2>1. PICK h : h = [got[r] EXCEPT !.rows = @ + 1, !.total = @ + 1]
    OBVIOUS
  <2>2. got' = [got EXCEPT ![r] = h] /\ answer' = answer
    BY <1>6, <2>1 DEF NextRow
  <2> QED BY <1>2, <1>3, <2>1, <2>2
<1>7. ASSUME NEW r \in Requests, EndOfSet(r)
      PROVE  Data'
  <2>1. PICK sets \in Seq(Nat) : sets = Append(got[r].sets, got[r].rows)
    <3>1. PICK a \in Seq(Nat), n \in Nat : a = got[r].sets /\ n = got[r].rows
      BY <1>0 DEF Data, Gotten
    <3>2. Append(a, n) \in Seq(Nat)
      OBVIOUS
    <3> QED BY <3>1, <3>2
  <2>2. PICK h : h = [got[r] EXCEPT !.sets = sets, !.rows = 0]
    OBVIOUS
  <2>3. got' = [got EXCEPT ![r] = h]
    BY <1>7, <2>1, <2>2 DEF EndOfSet
  <2>4. answer' = answer \/ \E a : answer' = [answer EXCEPT ![r] = a]
    BY <1>7 DEF EndOfSet, AnswersThenCloses
  <2> QED BY <1>2, <2>2, <2>3, <2>4
<1>8. ASSUME NEW r \in Requests, Handler(r)
      PROVE  Data'
  <2>1. \/ BulkReturns(r) \/ StockReturns(r) \/ NextRow(r) \/ EndOfSet(r)
        \/ got' = got /\ (answer' = answer \/ \E a : answer' = [answer EXCEPT ![r] = a])
    BY <1>8 DEF Handler, Receive, BreaksOff, BulkInserts, GPRICE, SapReturns, RowLimit,
         CloseRows, AsksFor, Answers, AnswersThenCloses
  <2> QED BY <1>0, <1>1, <1>4, <1>5, <1>6, <1>7, <2>1
<1>9. ASSUME NEW c \in Clients, StatementFails(c) \/ ConnectionLost(c)
      PROVE  Data'
  <2>1. FailedQuery(c) /\ got' = got
    BY <1>9 DEF StatementFails, ConnectionLost, DatabaseFails
  <2>2. PICK code, body : Answers(c, code, body)
    BY <2>1, FailedQueryAnswers
  <2> QED BY <1>1, <2>1, <2>2 DEF Answers
<1>10. CASE WorkerStep
  <2>1. got' = got /\ (answer' = answer \/ \E a : answer' = [answer EXCEPT ![Worker] = a])
    <3>1. CASE RateReturns
      BY <3>1 DEF RateReturns, Writes, Answers
    <3>2. CASE WorkerTakes \/ AccountFound \/ AccountNotFound
      BY <3>2 DEF WorkerTakes, AccountFound, AccountNotFound, AsksFor, Answers
    <3> QED BY <1>10, <3>1, <3>2 DEF WorkerStep
  <2> QED BY <1>0, <1>1, <2>1
<1>11. ASSUME NEW c \in Clients, GetsConnection(c)
       PROVE  Data'
  BY <1>1, <1>11 DEF GetsConnection
<1>12. ASSUME NEW r \in Requests, ContextEnds(r)
       PROVE  Data'
  BY <1>0, <1>1, <1>12 DEF ContextEnds, clientVars
<1>13. CASE ErpChanges
  BY <1>0, <1>1, <1>13 DEF ErpChanges, clientVars
<1> QED BY <1>8, <1>9, <1>10, <1>11, <1>12, <1>13 DEF Next, Database

-----------------------------------------------------------------------------
(* A step and the other clients.                                           *)

\* Nothing of r changes but its time, its context and its errors.
Unmoved(r) ==
  /\ pc'[r] = pc[r] /\ query'[r] = query[r]
  /\ got'[r] = got[r] /\ answer'[r] = answer[r] /\ since'[r] = since[r]

\* The request, the time that passes, and what is never taken back.
LEMMA NothingTakenBack ==
  ASSUME Types, Next
  PROVE  /\ load' = load
         /\ version \in Nat /\ version' \in Nat /\ version <= version'
         /\ gone \subseteq gone' /\ failed \subseteq failed'
<1>1. load' = load /\ (version' = version \/ version' = version + 1)
  BY DEF Next, Handler, Receive, ContextEnds, BreaksOff, BulkInserts, GPRICE, BulkReturns,
         StockReturns, SapReturns, NextRow, RowLimit, EndOfSet, CloseRows, WorkerStep,
         WorkerTakes, AccountFound, AccountNotFound, RateReturns, Database, ErpChanges,
         GetsConnection, StatementFails, ConnectionLost
<1>2. version \in Nat
  BY ApiAssumption DEF Types
<1>3. gone' = gone \/ \E r \in Requests : gone' = gone \cup {r}
  BY DEF Next, Handler, Receive, ContextEnds, BreaksOff, BulkInserts, GPRICE, BulkReturns,
         StockReturns, SapReturns, NextRow, RowLimit, EndOfSet, CloseRows, WorkerStep,
         WorkerTakes, AccountFound, AccountNotFound, RateReturns, Database, ErpChanges,
         GetsConnection, StatementFails, ConnectionLost
<1>4. failed' = failed \/ \E c \in Clients : failed' = failed \cup {c}
  BY DEF Next, Handler, Receive, ContextEnds, BreaksOff, BulkInserts, GPRICE, BulkReturns,
         StockReturns, SapReturns, NextRow, RowLimit, EndOfSet, CloseRows, WorkerStep,
         WorkerTakes, AccountFound, AccountNotFound, RateReturns, Database, ErpChanges,
         GetsConnection, StatementFails, ConnectionLost, DatabaseFails
<1> QED BY <1>1, <1>2, <1>3, <1>4

\* An update at c leaves r alone.
LEMMA ElsewhereUnmoved ==
  ASSUME Types, Data, NEW c \in Clients, NEW r \in Clients, c # r,
         pc' = pc \/ \E x : pc' = [pc EXCEPT ![c] = x],
         query' = query \/ \E x : query' = [query EXCEPT ![c] = x],
         got' = got \/ \E x : got' = [got EXCEPT ![c] = x],
         answer' = answer \/ \E x : answer' = [answer EXCEPT ![c] = x],
         since' = since \/ \E x : since' = [since EXCEPT ![c] = x]
  PROVE  Unmoved(r)
<1>1. pc'[r] = pc[r]
  BY DEF Types
<1>2. query'[r] = query[r]
  BY DEF Types
<1>3. got'[r] = got[r]
  BY DEF Data
<1>4. answer'[r] = answer[r]
  BY DEF Data
<1>5. since'[r] = since[r]
  BY DEF Types
<1> QED BY <1>1, <1>2, <1>3, <1>4, <1>5 DEF Unmoved

\* A handler's step moves its own request only.
LEMMA HandlerMovesItself ==
  ASSUME Types, Data, NEW c \in Requests, NEW r \in Clients, c # r, Handler(c) \/ ContextEnds(c)
  PROVE  Unmoved(r)
<1> USE DEF AsksFor, Answers, AnswersThenCloses
<1>0. c \in Clients
  BY DEF Clients
<1>1. CASE Receive(c)
  <2>1. /\ \E x : pc' = [pc EXCEPT ![c] = x]
        /\ query' = query \/ \E x : query' = [query EXCEPT ![c] = x]
        /\ answer' = answer \/ \E x : answer' = [answer EXCEPT ![c] = x]
    BY <1>1 DEF Receive
  <2>2. got' = got /\ \E x : since' = [since EXCEPT ![c] = x]
    BY <1>1 DEF Receive
  <2> QED BY <2>1, <2>2, <1>0, ElsewhereUnmoved
<1>2. CASE BreaksOff(c)
  BY <1>2, <1>0, ElsewhereUnmoved DEF BreaksOff
<1>3. CASE BulkInserts(c)
  BY <1>3, <1>0, ElsewhereUnmoved DEF BulkInserts
<1>4. CASE GPRICE(c)
  BY <1>4, <1>0, ElsewhereUnmoved DEF GPRICE
<1>5. CASE BulkReturns(c)
  <2>1. PICK p : got' = [got EXCEPT ![c].prices = p]
    BY <1>5 DEF BulkReturns
  <2>2. \E x : got' = [got EXCEPT ![c] = x]
    BY <2>1
  <2> QED BY <1>5, <2>2, <1>0, ElsewhereUnmoved DEF BulkReturns
<1>6. CASE StockReturns(c)
  <2>1. PICK p : got' = [got EXCEPT ![c].totals = p]
    BY <1>6 DEF StockReturns
  <2>2. \E x : got' = [got EXCEPT ![c] = x]
    BY <2>1
  <2>3. /\ \E x : pc' = [pc EXCEPT ![c] = x]
        /\ query' = query \/ \E x : query' = [query EXCEPT ![c] = x]
        /\ answer' = answer \/ \E x : answer' = [answer EXCEPT ![c] = x]
        /\ since' = since
    BY <1>6 DEF StockReturns
  <2> QED BY <2>2, <2>3, <1>0, ElsewhereUnmoved
<1>7. CASE SapReturns(c)
  BY <1>7, <1>0, ElsewhereUnmoved DEF SapReturns
<1>8. CASE NextRow(c)
  <2>1. \E x : got' = [got EXCEPT ![c] = x]
    BY <1>8 DEF NextRow
  <2> QED BY <1>8, <2>1, <1>0, ElsewhereUnmoved DEF NextRow
<1>9. CASE RowLimit(c)
  BY <1>9, <1>0, ElsewhereUnmoved DEF RowLimit
<1>10. CASE EndOfSet(c)
  <2>1. \E x : got' = [got EXCEPT ![c] = x]
    BY <1>10 DEF EndOfSet
  <2>2. /\ pc' = pc \/ \E x : pc' = [pc EXCEPT ![c] = x]
        /\ answer' = answer \/ \E x : answer' = [answer EXCEPT ![c] = x]
        /\ since' = since /\ query' = query
    BY <1>10 DEF EndOfSet
  <2> QED BY <2>1, <2>2, <1>0, ElsewhereUnmoved
<1>11. CASE CloseRows(c)
  BY <1>11, <1>0, ElsewhereUnmoved DEF CloseRows
<1>12. CASE ContextEnds(c)
  BY <1>12 DEF ContextEnds, clientVars, Unmoved
<1> QED BY <1>1, <1>2, <1>3, <1>4, <1>5, <1>6, <1>7, <1>8, <1>9, <1>10, <1>11, <1>12 DEF Handler

\* The worker's step, and the database's answers to a client.
LEMMA OthersMoveThemselves ==
  ASSUME Types, Data, \A r \in Requests : Path(r), NEW c \in Clients, NEW r \in Clients, c # r,
         \/ c = Worker /\ WorkerStep
         \/ GetsConnection(c) \/ StatementFails(c) \/ ConnectionLost(c)
  PROVE  Unmoved(r)
<1>1. CASE c = Worker /\ WorkerStep
  <2>1. CASE RateReturns
    <3>1. PICK body : Answers(Worker, "written", body)
      BY <2>1 DEF RateReturns, Writes
    <3>2. got' = got /\ since' = since
      BY <2>1 DEF RateReturns
    <3> QED BY <1>1, <3>1, <3>2, ElsewhereUnmoved DEF Answers
  <2>2. CASE WorkerTakes \/ AccountFound \/ AccountNotFound
    BY <1>1, <2>2, ElsewhereUnmoved
       DEF WorkerTakes, AccountFound, AccountNotFound, AsksFor, Answers
  <2> QED BY <1>1, <2>1, <2>2 DEF WorkerStep
<1>2. CASE GetsConnection(c)
  BY <1>2, ElsewhereUnmoved DEF GetsConnection
<1>3. CASE StatementFails(c) \/ ConnectionLost(c)
  <2>1. FailedQuery(c) /\ got' = got /\ since' = since
    BY <1>3 DEF StatementFails, ConnectionLost, DatabaseFails
  <2>2. PICK code, body : Answers(c, code, body)
    BY <2>1, FailedQueryAnswers
  <2> QED BY <2>1, <2>2, ElsewhereUnmoved DEF Answers
<1> QED BY <1>1, <1>2, <1>3

-----------------------------------------------------------------------------
(* Where a client is.                                                      *)

\* Path(r) of a place, a query, what was read and an answer.
OnPath(r, place, asks, read, says) ==
  /\ asks \in Queries
  /\ place = "new" => asks = "none" /\ read = Nothing
  /\ place \in {"new"} \cup Reading => says = NoAnswer
  /\ place \in Reading \cup {"closing"} => asks # "none"
  /\ place \in {"inserted", "priced"} => asks = "GPRICE_Bulk"
  /\ place = "closing" => asks = "sql"
  /\ asks = "sql" => Ask(r).kind = "sql" /\ validateReadOnlySQL(Ask(r).query) = "OK"
  /\ asks \in {"GPRICE_Bulk", "GetOnHandStockForSkus"} =>
       Ask(r).kind = "price" /\ load.erp = "HASAVSHEVET" /\ Skus(r) # <<>>
  /\ asks = "sap" => Ask(r).kind = "price" /\ load.erp = "SAP"

\* Path says its part of where r is now and, after a step, of where r is then.
LEMMA PathIsOnPath ==
  ASSUME NEW r, load' = load
  PROVE  /\ Path(r) <=> OnPath(r, pc[r], query[r], got[r], answer[r])
         /\ Path(r)' <=> OnPath(r, pc'[r], query'[r], got'[r], answer'[r])
<1>1. Path(r) <=> OnPath(r, pc[r], query[r], got[r], answer[r])
  BY DEF Path, OnPath
<1>2. Ask(r)' = Ask(r) /\ Skus(r)' = Skus(r)
  BY DEF Ask, Skus
<1>3. validateReadOnlySQL(Ask(r).query)' = validateReadOnlySQL(Ask(r).query)
  BY <1>2
<1>4. Path(r)' <=> OnPath(r, pc'[r], query'[r], got'[r], answer'[r])
  BY <1>2, <1>3 DEF Path, OnPath
<1> QED BY <1>1, <1>4

\* A request's own steps keep it on its path.
LEMMA OwnPathStep ==
  ASSUME Types, Data, NEW r \in Requests, Path(r), \A q \in Requests : Path(q), load' = load,
         Handler(r) \/ ContextEnds(r) \/ GetsConnection(r) \/ StatementFails(r) \/ ConnectionLost(r)
  PROVE  Path(r)'
<1>0. /\ r \in Clients
      /\ OnPath(r, pc[r], query[r], got[r], answer[r])
      /\ pc = [c \in Clients |-> pc[c]] /\ query = [c \in Clients |-> query[c]]
      /\ answer = [c \in Clients |-> answer[c]] /\ got = [c \in Clients |-> got[c]]
  BY PathIsOnPath DEF Clients, Types, Data
<1>1. SUFFICES OnPath(r, pc'[r], query'[r], got'[r], answer'[r])
  BY PathIsOnPath
<1>2. CASE Receive(r)
  <2>1. CASE EarlyAnswer(r) = NoAnswer
    <3>1. /\ pc'[r] = "asking" /\ query'[r] = FirstQuery(r) /\ answer'[r] = answer[r]
          /\ answer[r] = NoAnswer
      BY <1>0, <1>2, <2>1 DEF Receive, AsksFor, OnPath
    <3>2. load \in Loads
      BY DEF Types
    <3> QED BY <2>1, <3>1, <3>2, FirstQueryFits DEF OnPath, Queries, Reading
  <2>2. CASE EarlyAnswer(r) # NoAnswer
    <3>1. pc'[r] = "done" /\ query'[r] = query[r]
      BY <1>0, <1>2, <2>2 DEF Receive, Answers
    <3> QED BY <1>0, <3>1 DEF OnPath, Reading
  <2> QED BY <2>1, <2>2
<1>3. ASSUME NEW code, NEW body, Answers(r, code, body)
      PROVE  OnPath(r, pc'[r], query'[r], got'[r], answer'[r])
  <2>1. pc'[r] = "done" /\ query'[r] = query[r]
    BY <1>0, <1>3 DEF Answers
  <2> QED BY <1>0, <2>1 DEF OnPath, Reading
<1>4. CASE BulkInserts(r)
  <2>1. /\ pc'[r] = "inserted" /\ query'[r] = query[r] /\ answer'[r] = answer[r]
        /\ pc[r] = "running" /\ query[r] = "GPRICE_Bulk"
    BY <1>0, <1>4 DEF BulkInserts
  <2> QED BY <1>0, <2>1 DEF OnPath, Reading
<1>5. CASE GPRICE(r)
  <2>1. /\ pc'[r] = "priced" /\ query'[r] = query[r] /\ answer'[r] = answer[r]
        /\ pc[r] = "inserted"
    BY <1>0, <1>5 DEF GPRICE
  <2> QED BY <1>0, <2>1 DEF OnPath, Reading
<1>6. CASE BulkReturns(r)
  <2>1. /\ pc'[r] = "asking" /\ query'[r] = "GetOnHandStockForSkus" /\ answer'[r] = answer[r]
        /\ pc[r] = "priced"
    BY <1>0, <1>6 DEF BulkReturns, AsksFor
  <2> QED BY <1>0, <2>1 DEF OnPath, Reading, Queries
<1>7. CASE StockReturns(r)
  <2>1. PICK body : AsksFor(r, query[r]) \/ Answers(r, "OK", body)
    BY <1>7 DEF StockReturns
  <2>2. pc[r] = "running" /\ query[r] = "GetOnHandStockForSkus"
    BY <1>7 DEF StockReturns
  <2>3. CASE AsksFor(r, query[r])
    <3>1. pc'[r] = "asking" /\ query'[r] = query[r] /\ answer'[r] = answer[r]
      BY <1>0, <2>3 DEF AsksFor
    <3> QED BY <1>0, <2>2, <3>1 DEF OnPath, Reading
  <2> QED BY <1>3, <2>1, <2>3
<1>8. CASE NextRow(r)
  <2>1. /\ pc'[r] = pc[r] /\ query'[r] = query[r] /\ answer'[r] = answer[r]
        /\ pc[r] = "running"
    BY <1>8 DEF NextRow, SqlReads
  <2> QED BY <1>0, <2>1 DEF OnPath
<1>9. CASE \E code, body : SqlReads(r) /\ AnswersThenCloses(r, code, body)
  <2>1. /\ pc'[r] = "closing" /\ query'[r] = query[r] /\ query[r] = "sql"
        /\ pc[r] = "running"
    BY <1>0, <1>9 DEF SqlReads, AnswersThenCloses
  <2> QED BY <1>0, <2>1 DEF OnPath, Reading
<1>10. CASE EndOfSet(r) /\ UNCHANGED <<pc, query, answer>>
  <2>1. /\ pc'[r] = pc[r] /\ query'[r] = query[r] /\ answer'[r] = answer[r]
        /\ pc[r] = "running"
    BY <1>10 DEF EndOfSet, SqlReads
  <2> QED BY <1>0, <2>1 DEF OnPath
<1>11. CASE CloseRows(r)
  <2>1. pc'[r] = "done" /\ query'[r] = query[r]
    BY <1>0, <1>11 DEF CloseRows
  <2> QED BY <1>0, <2>1 DEF OnPath, Reading
<1>12. CASE ContextEnds(r)
  BY <1>0, <1>12 DEF ContextEnds, clientVars
<1>13. CASE GetsConnection(r)
  <2>1. /\ pc'[r] = "running" /\ query'[r] = query[r] /\ answer'[r] = answer[r]
        /\ pc[r] = "asking"
    BY <1>0, <1>13 DEF GetsConnection
  <2> QED BY <1>0, <2>1 DEF OnPath, Reading
<1>14. CASE StatementFails(r) \/ ConnectionLost(r)
  <2>1. FailedQuery(r)
    BY <1>14 DEF StatementFails, ConnectionLost, DatabaseFails
  <2>2. PICK code, body : Answers(r, code, body)
    BY <1>0, <2>1, FailedQueryAnswers
  <2> QED BY <1>3, <2>2
<1>15. CASE BreaksOff(r) \/ SapReturns(r)
  <2>1. PICK code, body : Answers(r, code, body)
    BY <1>15 DEF BreaksOff, SapReturns
  <2> QED BY <1>3, <2>1
<1>16. CASE RowLimit(r)
  BY <1>9, <1>16 DEF RowLimit
<1>17. CASE EndOfSet(r)
  BY <1>9, <1>10, <1>17 DEF EndOfSet
<1> QED BY <1>2, <1>4, <1>5, <1>6, <1>7, <1>8, <1>11, <1>12, <1>13, <1>14, <1>15, <1>16, <1>17
        DEF Handler

\* A request that is left alone stays on its path.
LEMMA UnmovedPath ==
  ASSUME NEW r, Path(r), load' = load, Unmoved(r)
  PROVE  Path(r)'
BY PathIsOnPath DEF Unmoved

\* Somebody steps, or the ERP changes and all clients stay.
LEMMA WhoMoves ==
  ASSUME Types, Data, \A r \in Requests : Path(r), Next, NEW r \in Clients
  PROVE  \/ StepOf(r)
         \/ Unmoved(r) /\ \E c \in Clients : c # r /\ StepOf(c)
         \/ Unmoved(r) /\ ErpChanges
<1>1. CASE ErpChanges
  BY <1>1 DEF ErpChanges, clientVars, Unmoved
<1>2. ASSUME NEW c \in Clients, c # r, StepOf(c)
      PROVE  Unmoved(r)
  BY <1>2, HandlerMovesItself, OthersMoveThemselves DEF StepOf
<1> QED BY <1>1, <1>2, SomebodySteps

\* Every step keeps every request on its path.
LEMMA PathStep ==
  ASSUME Types, Data, \A q \in Requests : Path(q), Next, NEW r \in Requests
  PROVE  Path(r)'
<1>1. load' = load /\ r \in Clients /\ r # Worker
  BY NothingTakenBack, ApiAssumption DEF Clients
<1>2. CASE StepOf(r)
  BY <1>1, <1>2, OwnPathStep DEF StepOf
<1>3. CASE Unmoved(r)
  BY <1>1, <1>3, UnmovedPath
<1> QED BY <1>1, <1>2, <1>3, WhoMoves

\* Every step keeps the worker on its path.
LEMMA WorkerPathStep ==
  ASSUME Types, Data, \A q \in Requests : Path(q), WorkerPath, Next
  PROVE  WorkerPath'
<1>0. /\ Worker \in Clients /\ Worker \notin Requests /\ load' = load
      /\ pc = [c \in Clients |-> pc[c]] /\ query = [c \in Clients |-> query[c]]
      /\ answer = [c \in Clients |-> answer[c]]
  BY NothingTakenBack, ApiAssumption DEF Clients, Types, Data
<1>1. CASE Unmoved(Worker)
  BY <1>0, <1>1 DEF WorkerPath, Unmoved
<1>2. ASSUME NEW code, NEW body, Answers(Worker, code, body), pc[Worker] # "new"
      PROVE  WorkerPath'
  <2>1. pc'[Worker] = "done" /\ query'[Worker] = query[Worker]
    BY <1>0, <1>2 DEF Answers
  <2> QED BY <1>0, <1>2, <2>1 DEF WorkerPath
<1>3. CASE WorkerTakes \/ AccountFound
  <2>1. /\ pc'[Worker] = "asking" /\ query'[Worker] \in {"account", "rate"}
        /\ answer'[Worker] = answer[Worker] /\ pc[Worker] # "done"
        /\ pc[Worker] = "new" => load.order # NoOrder
    BY <1>0, <1>3 DEF WorkerTakes, AccountFound, WorkerQueries, AsksFor
  <2> QED BY <1>0, <2>1 DEF WorkerPath
<1>4. CASE AccountNotFound \/ RateReturns
  <2>1. PICK code, body : Answers(Worker, code, body)
    BY <1>4 DEF AccountNotFound, RateReturns, Writes
  <2>2. pc[Worker] # "new"
    BY <1>4 DEF AccountNotFound, RateReturns, WorkerQueries
  <2> QED BY <1>2, <2>1, <2>2
<1>5. CASE GetsConnection(Worker)
  <2>1. /\ pc'[Worker] = "running" /\ query'[Worker] = query[Worker]
        /\ answer'[Worker] = answer[Worker] /\ pc[Worker] = "asking"
    BY <1>0, <1>5 DEF GetsConnection
  <2> QED BY <1>0, <2>1 DEF WorkerPath
<1>6. CASE StatementFails(Worker) \/ ConnectionLost(Worker)
  <2>1. FailedQuery(Worker) /\ pc[Worker] = "running"
    BY <1>6 DEF StatementFails, ConnectionLost, DatabaseFails, WorkerPath
  <2>2. PICK code, body : Answers(Worker, code, body)
    BY <1>0, <2>1, FailedQueryAnswers
  <2>3. pc[Worker] # "new"
    BY <2>1
  <2> QED BY <1>2, <2>2, <2>3
<1>7. StepOf(Worker) =>
        \/ WorkerTakes \/ AccountFound \/ AccountNotFound \/ RateReturns
        \/ GetsConnection(Worker) \/ StatementFails(Worker) \/ ConnectionLost(Worker)
  BY <1>0 DEF StepOf, WorkerStep
<1> QED BY <1>0, <1>1, <1>3, <1>4, <1>5, <1>6, <1>7, WhoMoves

-----------------------------------------------------------------------------
(* The types, the pool and the rows of GETPRICE in every state.            *)

\* Where everybody is and what everybody holds.
Places ==
  /\ Types /\ Pool /\ Rows /\ Data
  /\ \A r \in Requests : Path(r)
  /\ WorkerPath

\* Every step keeps all of it.
LEMMA PlacesStep ==
  ASSUME Places, [Next]_vars
  PROVE  Places'
<1>1. CASE Next
  <2>1. Types'
    BY <1>1, HandlerTypes, WorkerTypes, DatabaseTypes DEF Next, Places
  <2>2. Pool' /\ Rows' /\ Data' /\ WorkerPath'
    BY <1>1, PoolStep, RowsStep, DataStep, WorkerPathStep DEF Places
  <2>3. \A r \in Requests : Path(r)'
    BY <1>1, PathStep DEF Places
  <2> QED BY <2>1, <2>2, <2>3 DEF Places
<1>2. CASE UNCHANGED vars
  <2>1. /\ load' = load /\ version' = version /\ pc' = pc /\ query' = query
        /\ got' = got /\ answer' = answer /\ since' = since /\ gone' = gone
        /\ conns' = conns /\ getprice' = getprice /\ faults' = faults
        /\ cut' = cut /\ failed' = failed
    BY <1>2 DEF vars, clientVars
  <2>2. Types' /\ Pool' /\ Data' /\ WorkerPath'
    BY <2>1 DEF Places, Types, Pool, Data, WorkerPath
  <2>3. Rows'
    BY <2>1 DEF Places, Rows, Entry, Skus, Ask, Price
  <2>4. \A r \in Requests : Path(r)'
    BY <2>1, UnmovedPath DEF Places, Unmoved
  <2> QED BY <2>2, <2>3, <2>4 DEF Places
<1> QED BY <1>1, <1>2

\* It holds when the server starts.
LEMMA PlacesInit ==
  ASSUME Init
  PROVE  Places
<1> USE DEF Init
<1>1. Types
  BY ApiAssumption DEF Types, Queries
<1>2. Pool
  <2>1. IsFiniteSet({}) /\ Cardinality({}) = 0
    BY FS_EmptySet
  <2>2. {c \in Clients : pc[c] \in Running} = {}
    BY DEF Running
  <2> QED BY <2>1, <2>2, ApiAssumption DEF Pool
<1>3. Rows /\ WorkerPath
  BY DEF Rows, WorkerPath, Clients
<1>4. Data
  <2>1. <<>> \in Seq(Nat)
    OBVIOUS
  <2>2. Gotten(Nothing)
    BY <2>1 DEF Gotten, Nothing
  <2> QED BY <2>2 DEF Data
<1>5. ASSUME NEW r \in Requests
      PROVE  Path(r)
  BY DEF Path, Queries, Reading, Clients
<1> QED BY <1>1, <1>2, <1>3, <1>4, <1>5 DEF Places

\* Places holds in every state.
LEMMA PlacesInductive ==
  Spec => []Places
BY PlacesInit, PlacesStep, PTL DEF Spec

\* ApiTypeOK holds in every state: in particular the clients that hold a
\* connection are those at a statement, and they are never more than the pool
\* has, and every row of GETPRICE is one of a request's.
THEOREM ApiTypeCorrect ==
  Spec => []ApiTypeOK
<1>1. ASSUME Places
      PROVE  ApiTypeOK
  <2>1. ASSUME NEW row \in getprice
        PROVE  row.station \in Requests /\ row.price.at \in -1..version
    <3>1. PICK r \in Requests : \E s \in Range(Skus(r)) : \E at \in -1..version :
            row = Entry(r, s, at)
      BY <1>1 DEF Places, Rows
    <3> QED BY <3>1 DEF Entry, Price
  <2>2. query \in [Clients -> {"none", "GPRICE_Bulk", "GetOnHandStockForSkus", "sap", "sql",
                               "account", "rate"}]
    <3>1. Queries \cup {"account", "rate"} =
            {"none", "GPRICE_Bulk", "GetOnHandStockForSkus", "sap", "sql", "account", "rate"}
      BY DEF Queries
    <3> QED BY <1>1, <3>1 DEF Places, Types
  <2> QED BY <1>1, <2>1, <2>2 DEF ApiTypeOK, Places, Types, Pool
<1> QED BY <1>1, PlacesInductive, PTL

-----------------------------------------------------------------------------
(* Whose rows GETPRICE holds.                                              *)

\* A step of another client leaves r's rows in GETPRICE as they are.
LEMMA RowsOfOthers ==
  ASSUME Types, Rows, NEW r \in Requests, NEW c \in Clients, c # r, StepOf(c)
  PROVE  StationRows(r)' = StationRows(r)
<1>1. CASE getprice' = getprice
  BY <1>1 DEF StationRows
<1>2. ASSUME c \in Requests, BulkInserts(c)
      PROVE  StationRows(r)' = StationRows(r)
  <2> DEFINE New == {[station |-> c, account |-> Ask(c).card, item |-> s,
                      price |-> Price(c, s, Unset)] : s \in Range(Skus(c))}
  <2>1. getprice' = getprice \cup New
    BY <1>2 DEF BulkInserts, station
  <2>2. \A row \in New : row.station = c
    OBVIOUS
  <2> HIDE DEF New
  <2> QED BY <2>1, <2>2 DEF StationRows
<1>3. ASSUME c \in Requests, GPRICE(c)
      PROVE  StationRows(r)' = StationRows(r)
  <2>1. ASSUME NEW x \in getprice
        PROVE  [x EXCEPT !.price.at = version].station = x.station
    <3>1. PICK q \in Requests : \E s \in Range(Skus(q)) : \E at \in -1..version :
            x = Entry(q, s, at)
      BY DEF Rows
    <3>2. PICK s \in Range(Skus(q)), at \in -1..version : x = Entry(q, s, at)
      BY <3>1
    <3>3. [x EXCEPT !.price.at = version] = Entry(q, s, version)
      BY <3>2, PricedEntry
    <3> QED BY <3>2, <3>3 DEF Entry
  <2> DEFINE New == {[row EXCEPT !.price.at = version] : row \in {x \in getprice : x.station = c}}
  <2>2. getprice' = {row \in getprice : row.station # c} \cup New
    BY <1>3 DEF GPRICE, station
  <2>3. \A row \in New : row.station = c
    BY <2>1
  <2> HIDE DEF New
  <2> QED BY <2>2, <2>3 DEF StationRows
<1>4. CASE getprice' = {row \in getprice : c = Worker \/ row.station # c}
  BY <1>4 DEF StationRows
<1>5. ASSUME c \in Requests, BulkReturns(c)
      PROVE  StationRows(r)' = StationRows(r)
  <2>1. getprice' = {row \in getprice : row.station # c}
    BY <1>5 DEF BulkReturns, station
  <2> QED BY <2>1 DEF StationRows
<1>6. \/ getprice' = getprice
      \/ c \in Requests /\ (BulkInserts(c) \/ GPRICE(c) \/ BulkReturns(c))
      \/ getprice' = {row \in getprice : c = Worker \/ row.station # c}
  BY DEF StepOf, Handler, Receive, ContextEnds, BreaksOff, StockReturns, SapReturns, NextRow,
         RowLimit, EndOfSet, CloseRows, WorkerStep, WorkerTakes, AccountFound,
         AccountNotFound, RateReturns, GetsConnection, StatementFails, ConnectionLost, station
<1> QED BY <1>1, <1>2, <1>3, <1>4, <1>5, <1>6

\* A row of r is r's own, and a state has the rows its requests have.
LEMMA RowsByStation ==
  ASSUME Rows, NEW row \in getprice
  PROVE  row.station \in Requests /\ row \in StationRows(row.station)
<1>1. PICK r \in Requests : \E s \in Range(Skus(r)) : \E at \in -1..version :
        row = Entry(r, s, at)
  BY DEF Rows
<1> QED BY <1>1 DEF Entry, StationRows

\* LeftoversOnlyWhenCut holds in every state.
THEOREM LeftoversAreOfCutStatements ==
  Spec => []LeftoversOnlyWhenCut
<1>1. ASSUME Init
      PROVE  LeftoversOnlyWhenCut
  BY <1>1 DEF Init, LeftoversOnlyWhenCut
<1>2. ASSUME Places, Places', LeftoversOnlyWhenCut, [Next]_vars
      PROVE  LeftoversOnlyWhenCut'
  <2>1. CASE UNCHANGED vars
    BY <1>2, <2>1 DEF vars, clientVars, LeftoversOnlyWhenCut
  <2>2. CASE Next
    <3>0. Types /\ Data /\ Rows /\ Pool /\ \A r \in Requests : Path(r)
      BY <1>2 DEF Places
    <3>1. cut \subseteq cut'
      BY <2>2 DEF Next, Handler, Receive, ContextEnds, BreaksOff, BulkInserts, GPRICE,
           BulkReturns, StockReturns, SapReturns, NextRow, RowLimit, EndOfSet, CloseRows,
           WorkerStep, WorkerTakes, AccountFound, AccountNotFound, RateReturns, Database,
           ErpChanges, GetsConnection, StatementFails, ConnectionLost
    <3>2. SUFFICES ASSUME NEW row \in getprice', NEW r \in Requests, row.station = r
                   PROVE  r \in cut' \/ pc'[r] \in {"inserted", "priced"}
      <4>1. \A row \in getprice' : row.station \in Requests
        BY <1>2, RowsByStation DEF Places, Rows, Entry
      <4> QED BY <4>1 DEF LeftoversOnlyWhenCut
    <3>3. StationRows(r) # {} => r \in cut \/ pc[r] \in {"inserted", "priced"}
      BY <1>2 DEF StationRows, LeftoversOnlyWhenCut
    <3>4. row \in StationRows(r)'
      BY <3>2 DEF StationRows
    <3>5. r \in Clients
      BY DEF Clients
    <3>6. CASE Unmoved(r) /\ (ErpChanges \/ \E c \in Clients : c # r /\ StepOf(c))
      <4>1. StationRows(r)' = StationRows(r)
        BY <3>0, <3>6, RowsOfOthers DEF ErpChanges, StationRows
      <4> QED BY <3>1, <3>3, <3>4, <3>6, <4>1 DEF Unmoved
    <3>7. CASE StepOf(r)
      <4>1. CASE BulkInserts(r) \/ GPRICE(r)
        BY <3>0, <3>5, <4>1 DEF BulkInserts, GPRICE, Types
      <4>2. CASE BulkReturns(r) \/ StatementFails(r)
        <5>1. r # Worker
          BY ApiAssumption
        <5>2. getprice' = {x \in getprice : x.station # r}
          BY <4>2, <5>1 DEF BulkReturns, StatementFails, station
        <5> QED BY <3>2, <5>2
      <4>3. CASE ConnectionLost(r)
        BY <4>3 DEF ConnectionLost
      <4>4. CASE BreaksOff(r)
        <5>1. getprice' = getprice /\ cut' = cut \cup (conns \cap {r})
          BY <4>4 DEF BreaksOff
        <5>2. r \in cut \/ pc[r] \in {"inserted", "priced"}
          BY <3>2, <3>3, <5>1 DEF StationRows
        <5>3. pc[r] \in {"inserted", "priced"} => r \in conns
          BY <3>0, <3>5 DEF Pool, Running
        <5> QED BY <5>1, <5>2, <5>3
      <4>5. CASE ContextEnds(r)
        BY <3>1, <3>2, <3>3, <4>5 DEF ContextEnds, clientVars, StationRows
      <4>6. ASSUME getprice' = getprice, pc[r] \notin {"inserted", "priced"}
            PROVE  r \in cut'
        BY <3>1, <3>2, <3>3, <4>6 DEF StationRows
      <4>7. \/ BulkInserts(r) \/ GPRICE(r) \/ BulkReturns(r) \/ StatementFails(r)
            \/ ConnectionLost(r) \/ BreaksOff(r) \/ ContextEnds(r)
            \/ getprice' = getprice /\ pc[r] \notin {"inserted", "priced"}
        <5>1. r # Worker
          BY ApiAssumption
        <5> QED BY <3>7, <5>1 DEF StepOf, Handler, Receive, StockReturns, SapReturns, NextRow,
                 RowLimit, EndOfSet, CloseRows, SqlReads, GetsConnection
      <4> QED BY <4>1, <4>2, <4>3, <4>4, <4>5, <4>6, <4>7
    <3> QED BY <2>2, <3>0, <3>5, <3>6, <3>7, WhoMoves
  <2> QED BY <1>2, <2>1, <2>2
<1> QED BY <1>1, <1>2, PlacesInductive, PTL DEF Spec

-----------------------------------------------------------------------------
(* Statements and their answers.                                           *)

\* What is left to show of a statement after a step.
LEMMA StatementAfter ==
  ASSUME NEW r, load' = load, gone \subseteq gone', failed \subseteq failed',
         query'[r] = "sql" /\ pc'[r] \in {"asking", "running"} => SetsSoFar(r, got'[r]),
         pc'[r] \in {"closing", "done"} => answer'[r].code # "none",
         SqlAnswer(r, answer'[r]) \/ (answer'[r].code = "DB_ERROR" /\ r \in failed')
  PROVE  Statement(r)'
<1>1. Ask(r)' = Ask(r) /\ Sets(r)' = Sets(r)
  BY DEF Ask, Sets
<1>2. SetsSoFar(r, got'[r]) => (SetsSoFar(r, got[r]))'
  BY <1>1 DEF SetsSoFar, FirstSets
<1>3. WholeSets(r, answer'[r].body) => (WholeSets(r, answer[r].body))'
  BY <1>1 DEF WholeSets, FirstSets
<1>4. (SqlAnswer(r, answer[r]))'
  <2>1. CASE SqlAnswer(r, answer'[r])
    BY <1>1, <1>3, <2>1 DEF SqlAnswer
  <2>2. CASE answer'[r].code = "DB_ERROR" /\ r \in failed'
    BY <2>2 DEF SqlAnswer, StatementCodes
  <2> QED BY <2>1, <2>2
<1> QED BY <1>1, <1>2, <1>4 DEF Statement

\* A request that is left alone keeps its statement.
LEMMA UnmovedStatement ==
  ASSUME NEW r, Statement(r), load' = load, gone \subseteq gone', failed \subseteq failed',
         Unmoved(r)
  PROVE  Statement(r)'
<1>1. CASE Ask(r).kind = "sql"
  <2>1. SqlAnswer(r, answer'[r])
    BY <1>1 DEF Statement, Unmoved
  <2>2. query'[r] = "sql" /\ pc'[r] \in {"asking", "running"} => SetsSoFar(r, got'[r])
    BY <1>1 DEF Statement, Unmoved
  <2>3. pc'[r] \in {"closing", "done"} => answer'[r].code # "none"
    BY <1>1 DEF Statement, Unmoved
  <2> QED BY <2>1, <2>2, <2>3, StatementAfter
<1>2. CASE Ask(r).kind # "sql"
  BY <1>2 DEF Statement, Ask
<1> QED BY <1>1, <1>2

\* What has been read when nothing has been, one row more, and one set more.
LEMMA SetsRead ==
  ASSUME load \in Loads, NEW r \in Requests, Ask(r).kind = "sql"
  PROVE  /\ SetsSoFar(r, Nothing)
         /\ \A g, h : (/\ Gotten(g) /\ SetsSoFar(r, g)
                       /\ g.rows < Sets(r)[Len(g.sets) + 1] /\ g.total < sqlMaxRows
                       /\ h.sets = g.sets /\ h.rows = g.rows + 1 /\ h.total = g.total + 1)
                      => SetsSoFar(r, h)
<1>0. Sets(r) \in Seq(Nat) /\ Sets(r) # <<>> /\ sqlMaxRows \in Nat
  BY AskedFor, ApiAssumption
<1>1. PICK s \in Seq(Nat) : s = Sets(r)
  BY <1>0
<1>2. SetsSoFar(r, Nothing)
  <2>1. /\ Nothing.sets = <<>> /\ Nothing.rows = 0 /\ Nothing.total = 0
    BY DEF Nothing
  <2>2. Len(<<>>) = 0 /\ 0 < Len(s) /\ s[0 + 1] \in Nat
    BY <1>0, <1>1
  <2>3. TotalRows(<<>>) = 0
    BY <1>1, TotalRowsOfMore
  <2> QED BY <1>0, <1>1, <2>1, <2>2, <2>3 DEF SetsSoFar, FirstSets
<1>3. ASSUME NEW g, NEW h, Gotten(g), SetsSoFar(r, g),
             g.rows < Sets(r)[Len(g.sets) + 1], g.total < sqlMaxRows,
             h.sets = g.sets, h.rows = g.rows + 1, h.total = g.total + 1
      PROVE  SetsSoFar(r, h)
  <2>1. PICK a \in Seq(Nat), n \in Nat, m \in Nat : a = g.sets /\ n = g.rows /\ m = g.total
    BY <1>3 DEF Gotten
  <2>2. PICK t \in Nat : t = TotalRows(a)
    BY TotalRowsOfMore
  <2>3. PICK i \in Nat : i = s[Len(a) + 1]
    <3>1. Len(a) + 1 \in 1..Len(s)
      BY <1>1, <1>3, <2>1 DEF SetsSoFar, FirstSets
    <3> QED BY <3>1
  <2>4. n + 1 <= i /\ m + 1 = t + (n + 1) /\ m + 1 <= sqlMaxRows
    <3>1. m = t + n /\ n < i /\ m < sqlMaxRows
      <4>1. g.rows < s[Len(a) + 1]
        BY <1>1, <1>3, <2>1
      <4>2. g.total = TotalRows(a) + g.rows
        BY <1>3, <2>1 DEF SetsSoFar, FirstSets
      <4> QED BY <1>3, <2>1, <2>2, <2>3, <4>1, <4>2
    <3> QED BY <1>0, <3>1
  <2>5. h.sets = a /\ h.rows = n + 1 /\ h.total = m + 1
    BY <1>3, <2>1
  <2>6. Len(a) < Len(s) /\ \A k \in 1..Len(a) : a[k] = s[k]
    BY <1>1, <1>3, <2>1 DEF SetsSoFar, FirstSets
  <2>7. h.rows <= Sets(r)[Len(h.sets) + 1]
    BY <1>1, <2>3, <2>4, <2>5
  <2>8. h.total = TotalRows(h.sets) + h.rows /\ h.total <= sqlMaxRows
    BY <2>2, <2>4, <2>5
  <2> QED BY <1>1, <2>5, <2>6, <2>7, <2>8 DEF SetsSoFar, FirstSets
<1> QED BY <1>2, <1>3

\* A set that has been read to its end joins the sets before it.
LEMMA SetAdded ==
  ASSUME load \in Loads, NEW r \in Requests, Ask(r).kind = "sql",
         NEW g, Gotten(g), SetsSoFar(r, g), g.rows = Sets(r)[Len(g.sets) + 1],
         NEW sets, sets = Append(g.sets, g.rows)
  PROVE  /\ sets \in Seq(Nat) /\ sets # <<>>
         /\ Len(sets) <= Len(Sets(r)) /\ FirstSets(r, sets)
         /\ TotalRows(sets) = g.total /\ g.total <= sqlMaxRows
<1>0. Sets(r) \in Seq(Nat)
  BY AskedFor
<1>1. PICK s \in Seq(Nat), a \in Seq(Nat), n \in Nat :
        s = Sets(r) /\ a = g.sets /\ n = g.rows
  BY <1>0 DEF Gotten
<1>2. sets = Append(a, n)
  BY <1>1
<1>3. Len(a) < Len(s) /\ n = s[Len(a) + 1] /\ \A k \in 1..Len(a) : a[k] = s[k]
  BY <1>1 DEF SetsSoFar, FirstSets
<1>4. sets \in Seq(Nat) /\ sets # <<>> /\ Len(sets) = Len(a) + 1
  BY <1>2
<1>5. \A k \in 1..Len(sets) : sets[k] = s[k]
  <2>1. ASSUME NEW k \in 1..Len(sets)
        PROVE  sets[k] = s[k]
    <3>1. k \in 1..Len(a) \/ k = Len(a) + 1
      BY <1>4
    <3>2. k \in 1..Len(a) => sets[k] = a[k]
      BY <1>2
    <3>3. k = Len(a) + 1 => sets[k] = n
      BY <1>2
    <3> QED BY <1>3, <3>1, <3>2, <3>3
  <2> QED BY <2>1
<1>6. TotalRows(sets) = TotalRows(a) + n
  BY <1>2, TotalRowsOfMore
<1>7. g.total = TotalRows(g.sets) + g.rows /\ g.total <= sqlMaxRows
  BY DEF SetsSoFar, FirstSets
<1>8. Len(sets) <= Len(s)
  BY <1>3, <1>4
<1> QED BY <1>1, <1>4, <1>5, <1>6, <1>7, <1>8 DEF FirstSets

\* At the limit with a row still to come there are more rows than the limit.
LEMMA LimitPassed ==
  ASSUME load \in Loads, NEW r \in Requests, Ask(r).kind = "sql",
         NEW g, Gotten(g), SetsSoFar(r, g), g.rows < Sets(r)[Len(g.sets) + 1],
         g.total >= sqlMaxRows
  PROVE  TotalRows(Sets(r)) > sqlMaxRows
<1>0. Sets(r) \in Seq(Nat) /\ sqlMaxRows \in Nat
  BY AskedFor, ApiAssumption
<1>1. PICK s \in Seq(Nat), a \in Seq(Nat), n \in Nat :
        s = Sets(r) /\ a = g.sets /\ n = g.rows
  BY <1>0 DEF Gotten
<1>2. Len(a) < Len(s) /\ n < s[Len(a) + 1] /\ \A k \in 1..Len(a) : a[k] = s[k]
  BY <1>1 DEF SetsSoFar, FirstSets
<1>3. TotalRows(a) + s[Len(a) + 1] <= TotalRows(s)
  BY <1>2, TotalRowsOfPart
<1>4. g.total = TotalRows(a) + n
  BY <1>1 DEF SetsSoFar, FirstSets
<1>5. TotalRows(a) \in Nat /\ TotalRows(s) \in Nat
  BY TotalRowsOfMore
<1>6. s[Len(a) + 1] \in Nat
  <2>1. Len(a) + 1 \in 1..Len(s)
    BY <1>2
  <2> QED BY <2>1
<1>7. PICK x \in Nat, y \in Nat, z \in Nat :
        x = TotalRows(a) /\ y = TotalRows(s) /\ z = s[Len(a) + 1]
  BY <1>5, <1>6
<1>8. n < z /\ x + n >= sqlMaxRows
  BY <1>1, <1>2, <1>4, <1>7
<1>9. y > sqlMaxRows
  <2>1. x + z <= y
    BY <1>3, <1>7
  <2>2. PICK most \in Nat : most = sqlMaxRows
    BY <1>0
  <2>3. n < z /\ x + n >= most
    BY <1>8, <2>2
  <2>4. y > most
    BY <2>1, <2>3
  <2> QED BY <2>2, <2>4
<1> QED BY <1>1, <1>7, <1>9

\* A request's own steps answer its statement honestly.
LEMMA OwnStatementStep ==
  ASSUME Types, Data, NEW r \in Requests, Path(r), Statement(r), Ask(r).kind = "sql",
         load' = load, gone \subseteq gone', failed \subseteq failed',
         Handler(r) \/ ContextEnds(r) \/ GetsConnection(r) \/ StatementFails(r) \/ ConnectionLost(r)
  PROVE  Statement(r)'
<1>0. /\ r \in Clients /\ load \in Loads
      /\ pc = [c \in Clients |-> pc[c]] /\ query = [c \in Clients |-> query[c]]
      /\ answer = [c \in Clients |-> answer[c]] /\ got = [c \in Clients |-> got[c]]
      /\ Gotten(got[r])
  BY DEF Clients, Types, Data
<1>1. /\ query[r] = "sql" /\ pc[r] \in {"asking", "running"} => SetsSoFar(r, got[r])
      /\ pc[r] \in {"closing", "done"} => answer[r].code # "none"
      /\ SqlAnswer(r, answer[r])
  BY DEF Statement
<1>2. pc[r] \in Reading => query[r] = "sql" /\ pc[r] \in {"asking", "running"}
  BY DEF Path, Queries, Reading
<1>3. ASSUME NEW place \in {"closing", "done"}, pc'[r] = place, NEW code, NEW body,
             answer'[r] = Answered(code, body), code # "none",
             \/ SqlAnswer(r, Answered(code, body))
             \/ code = "DB_ERROR" /\ r \in failed'
      PROVE  Statement(r)'
  <2>1. answer'[r].code = code
    BY <1>3 DEF Answered
  <2> QED BY <1>3, <2>1, StatementAfter
<1>4. CASE Receive(r)
  <2>1. CASE EarlyAnswer(r) = NoAnswer
    <3>1. pc'[r] = "asking" /\ answer'[r] = answer[r] /\ got'[r] = Nothing
      BY <1>0, <1>4, <2>1 DEF Receive, AsksFor, Path
    <3>2. SetsSoFar(r, Nothing)
      BY <1>0, SetsRead
    <3> QED BY <1>1, <3>1, <3>2, StatementAfter
  <2>2. CASE EarlyAnswer(r) # NoAnswer
    <3>1. PICK code, body : /\ EarlyAnswer(r) = Answered(code, body)
                            /\ code = EarlyAnswer(r).code
      BY <1>0, <2>2, EarlyAnswerFits
    <3>2. code \in StatementCodes /\ code = validateReadOnlySQL(Ask(r).query)
      BY <1>0, <2>2, <3>1, EarlyAnswerFits
    <3>3. code \notin {"none", "OK", "SQL_ROW_LIMIT", "SQL_TIMEOUT", "DB_ERROR"}
      BY <3>2 DEF StatementCodes
    <3>4. pc'[r] = "done" /\ answer'[r] = Answered(code, body)
      <4>1. Answers(r, EarlyAnswer(r).code, EarlyAnswer(r).body)
        BY <1>4, <2>2 DEF Receive
      <4>2. EarlyAnswer(r).body = body
        BY <3>1 DEF Answered
      <4> QED BY <1>0, <3>1, <4>1, <4>2 DEF Answers
    <3>5. SqlAnswer(r, Answered(code, body))
      <4>1. Answered(code, body).code = code
        BY DEF Answered
      <4> QED BY <3>2, <3>3, <4>1 DEF SqlAnswer
    <3> QED BY <1>3, <3>3, <3>4, <3>5
  <2> QED BY <2>1, <2>2
<1>5. CASE BreaksOff(r)
  <2>1. Answers(r, "SQL_TIMEOUT", <<>>) /\ r \in gone
    BY <1>2, <1>5 DEF BreaksOff, ErrorCode, Reading
  <2>2. SqlAnswer(r, Answered("SQL_TIMEOUT", <<>>))
    BY <2>1 DEF SqlAnswer, Answered, StatementCodes
  <2> QED BY <1>0, <1>3, <2>1, <2>2 DEF Answers
<1>6. CASE StatementFails(r) \/ ConnectionLost(r)
  <2>1. FailedQuery(r) /\ pc[r] \in Reading /\ r \in failed'
    BY <1>6 DEF StatementFails, ConnectionLost, DatabaseFails, Reading
  <2>2. query[r] = "sql"
    BY <1>2, <2>1
  <2>3. PICK code \in {"SQL_TIMEOUT", "DB_ERROR"} :
          Answers(r, code, <<>>) /\ (code = "SQL_TIMEOUT" => r \in gone)
    BY <2>1, <2>2 DEF FailedQuery, ErrorCode
  <2>4. code = "SQL_TIMEOUT" => SqlAnswer(r, Answered(code, <<>>))
    BY <2>3 DEF SqlAnswer, Answered, StatementCodes
  <2> QED BY <1>0, <1>3, <2>1, <2>3, <2>4 DEF Answers
<1>7. CASE NextRow(r)
  <2>1. /\ pc'[r] = pc[r] /\ query'[r] = query[r] /\ answer'[r] = answer[r]
        /\ SetsSoFar(r, got[r])
    BY <1>1, <1>7 DEF NextRow, SqlReads
  <2>2. PICK g : g = got[r]
    OBVIOUS
  <2>3. PICK h : h = [g EXCEPT !.rows = @ + 1, !.total = @ + 1]
    OBVIOUS
  <2>4. got'[r] = h
    BY <1>0, <1>7, <2>2, <2>3 DEF NextRow
  <2>5. h.sets = g.sets /\ h.rows = g.rows + 1 /\ h.total = g.total + 1
    BY <1>0, <2>2, <2>3 DEF Gotten
  <2>6. g.rows < Sets(r)[Len(g.sets) + 1] /\ g.total < sqlMaxRows
    BY <1>7, <2>2 DEF NextRow, CurrentSet
  <2>7. SetsSoFar(r, h)
    BY <1>0, <2>1, <2>2, <2>5, <2>6, SetsRead
  <2> QED BY <1>1, <2>1, <2>4, <2>7, StatementAfter
<1>8. CASE RowLimit(r)
  <2>1. SqlReads(r) /\ AnswersThenCloses(r, "SQL_ROW_LIMIT", <<>>)
    BY <1>8 DEF RowLimit
  <2>2. SetsSoFar(r, got[r])
    BY <1>1, <2>1 DEF SqlReads
  <2>3. TotalRows(Sets(r)) > sqlMaxRows
    <3>1. PICK g : g = got[r]
      OBVIOUS
    <3>2. g.rows < Sets(r)[Len(g.sets) + 1] /\ g.total >= sqlMaxRows
      BY <1>8, <3>1 DEF RowLimit, CurrentSet
    <3> QED BY <1>0, <2>2, <3>1, <3>2, LimitPassed
  <2>4. SqlAnswer(r, Answered("SQL_ROW_LIMIT", <<>>))
    BY <2>3 DEF SqlAnswer, Answered, StatementCodes
  <2> QED BY <1>0, <1>3, <2>1, <2>4 DEF AnswersThenCloses
<1>9. CASE EndOfSet(r)
  <2>1. SqlReads(r) /\ SetsSoFar(r, got[r])
    BY <1>1, <1>9 DEF EndOfSet, SqlReads
  <2>2. PICK g : g = got[r]
    OBVIOUS
  <2>3. PICK sets : sets = Append(g.sets, g.rows)
    OBVIOUS
  <2>4. g.rows = Sets(r)[Len(g.sets) + 1]
    BY <1>9, <2>2 DEF EndOfSet, CurrentSet
  <2>5. /\ sets \in Seq(Nat) /\ sets # <<>>
        /\ Len(sets) <= Len(Sets(r)) /\ \A k \in 1..Len(sets) : sets[k] = Sets(r)[k]
        /\ TotalRows(sets) = g.total /\ g.total <= sqlMaxRows
    <3>1. load \in Loads /\ Gotten(g) /\ SetsSoFar(r, g)
      BY <1>0, <2>1, <2>2
    <3>2. FirstSets(r, sets)
      BY <2>3, <2>4, <3>1, SetAdded
    <3>3. sets \in Seq(Nat) /\ sets # <<>> /\ Len(sets) <= Len(Sets(r))
      BY <2>3, <2>4, <3>1, SetAdded
    <3>4. TotalRows(sets) = g.total /\ g.total <= sqlMaxRows
      BY <2>3, <2>4, <3>1, SetAdded
    <3> QED BY <3>2, <3>3, <3>4 DEF FirstSets
  <2>6. CASE Len(sets) < Len(Sets(r)) /\ UNCHANGED <<pc, query, answer>>
    <3>1. PICK h : h = [g EXCEPT !.sets = sets, !.rows = 0]
      OBVIOUS
    <3>2. got'[r] = h
      BY <1>0, <1>9, <2>2, <2>3, <3>1 DEF EndOfSet
    <3>3. h.sets = sets /\ h.rows = 0 /\ h.total = g.total
      BY <1>0, <2>2, <3>1 DEF Gotten
    <3>4. SetsSoFar(r, h)
      <4>1. PICK n \in Nat : n = Sets(r)[Len(sets) + 1]
        <5>1. PICK s \in Seq(Nat) : s = Sets(r)
          BY <1>0, AskedFor
        <5>2. Len(sets) + 1 \in 1..Len(s)
          BY <2>5, <2>6, <5>1
        <5> QED BY <5>1, <5>2
      <4>2. PICK t \in Nat : t = TotalRows(sets)
        BY <2>5, TotalRowsOfMore
      <4>3. t = t + 0 /\ 0 <= n
        OBVIOUS
      <4>4. h.total = TotalRows(h.sets) + h.rows
        BY <2>5, <3>3, <4>2, <4>3
      <4> QED BY <2>5, <2>6, <3>3, <4>1, <4>3, <4>4 DEF SetsSoFar, FirstSets
    <3> QED BY <1>1, <2>6, <3>2, <3>4, StatementAfter
  <2>7. CASE /\ Len(sets) = Len(Sets(r)) \/ r \in gone
             /\ AnswersThenCloses(r, "OK", sets)
    <3>1. WholeSets(r, sets)
      BY <2>5, <2>7 DEF WholeSets, FirstSets
    <3>2. SqlAnswer(r, Answered("OK", sets))
      BY <3>1 DEF SqlAnswer, Answered, StatementCodes
    <3> QED BY <1>0, <1>3, <2>7, <3>2 DEF AnswersThenCloses
  <2> QED BY <1>9, <2>2, <2>3, <2>6, <2>7 DEF EndOfSet
<1>10. CASE CloseRows(r)
  <2>1. /\ pc'[r] = "done" /\ query'[r] = query[r] /\ answer'[r] = answer[r]
        /\ pc[r] = "closing"
    BY <1>0, <1>10 DEF CloseRows
  <2> QED BY <1>1, <2>1, StatementAfter
<1>11. CASE ContextEnds(r)
  BY <1>11, UnmovedStatement DEF ContextEnds, clientVars, Unmoved
<1>12. CASE GetsConnection(r)
  <2>1. /\ pc'[r] = "running" /\ query'[r] = query[r] /\ answer'[r] = answer[r]
        /\ got'[r] = got[r] /\ pc[r] = "asking"
    BY <1>0, <1>12 DEF GetsConnection
  <2> QED BY <1>1, <2>1, StatementAfter
<1>13. ~BulkInserts(r) /\ ~GPRICE(r) /\ ~BulkReturns(r) /\ ~StockReturns(r) /\ ~SapReturns(r)
  BY <1>2 DEF BulkInserts, GPRICE, BulkReturns, StockReturns, SapReturns, Reading
<1> QED BY <1>4, <1>5, <1>6, <1>7, <1>8, <1>9, <1>10, <1>11, <1>12, <1>13 DEF Handler

\* Every step keeps every statement's answer honest.
LEMMA StatementStep ==
  ASSUME Places, Next, NEW r \in Requests, Statement(r)
  PROVE  Statement(r)'
<1>1. Types /\ Data /\ \A q \in Requests : Path(q)
  BY DEF Places
<1>2. load' = load /\ gone \subseteq gone' /\ failed \subseteq failed'
  BY <1>1, NothingTakenBack
<1>3. r \in Clients /\ r # Worker
  BY ApiAssumption DEF Clients
<1>4. CASE Unmoved(r)
  BY <1>2, <1>4, UnmovedStatement
<1>5. CASE StepOf(r)
  <2>1. Handler(r) \/ ContextEnds(r) \/ GetsConnection(r) \/ StatementFails(r) \/ ConnectionLost(r)
    BY <1>3, <1>5 DEF StepOf
  <2>2. CASE Ask(r).kind = "sql"
    BY <1>1, <1>2, <2>1, <2>2, OwnStatementStep
  <2>3. CASE Ask(r).kind # "sql"
    BY <1>2, <2>3 DEF Statement, Ask
  <2> QED BY <2>2, <2>3
<1> QED BY <1>1, <1>3, <1>4, <1>5, WhoMoves

\* SqlAnswersAreHonest holds in every state, whatever the statement, the sets
\* it returns and the row limit: of an answer whose context has ended it says
\* that its record sets are whole, not that they are all.
THEOREM SqlIsAnsweredHonestly ==
  Spec => []SqlAnswersAreHonest
<1> DEFINE Honest == \A r \in Requests : Statement(r)
<1>1. ASSUME Init
      PROVE  Honest
  <2>1. ASSUME NEW r \in Requests
        PROVE  Statement(r)
    BY <1>1, <2>1 DEF Init, Statement, SqlAnswer, NoAnswer, StatementCodes, Clients
  <2> QED BY <2>1
<1>2. ASSUME Places, Honest, [Next]_vars
      PROVE  Honest'
  <2>1. CASE Next
    <3>1. \A r \in Requests : Statement(r)'
      BY <1>2, <2>1, StatementStep
    <3> QED BY <3>1
  <2>2. CASE UNCHANGED vars
    <3>1. \A r \in Requests : Statement(r)'
      BY <1>2, <2>2, UnmovedStatement DEF vars, clientVars, Unmoved
    <3> QED BY <3>1
  <2> QED BY <1>2, <2>1, <2>2
<1>3. ASSUME Places, Honest
      PROVE  SqlAnswersAreHonest
  <2>0. Types
    BY <1>3 DEF Places
  <2> SUFFICES ASSUME NEW r \in Requests, Ask(r).kind = "sql"
               PROVE  LET sets == answer[r].body
                      IN  /\ answer[r].code = "OK" =>
                               /\ IsPrefix(sets, Sets(r)) /\ sets # <<>>
                               /\ TotalRows(sets) <= sqlMaxRows
                               /\ sets = Sets(r) \/ r \in gone
                          /\ answer[r].code = "SQL_ROW_LIMIT" => TotalRows(Sets(r)) > sqlMaxRows
                          /\ answer[r].code = "SQL_TIMEOUT" => r \in gone
                          /\ answer[r].code = "DB_ERROR" => r \in failed
    BY DEF SqlAnswersAreHonest
  <2>1. SqlAnswer(r, answer[r]) /\ (pc[r] \in {"closing", "done"} => answer[r].code # "none")
    BY <1>3 DEF Statement
  <2>2. ASSUME answer[r].code = "OK"
        PROVE  /\ IsPrefix(answer[r].body, Sets(r)) /\ answer[r].body # <<>>
               /\ TotalRows(answer[r].body) <= sqlMaxRows
               /\ answer[r].body = Sets(r) \/ r \in gone
    <3>1. WholeSets(r, answer[r].body)
      BY <2>1, <2>2 DEF SqlAnswer
    <3>2. PICK s \in Seq(Nat), t \in Seq(Nat) : s = answer[r].body /\ t = Sets(r)
      BY <2>0, <3>1, AskedFor DEF WholeSets, FirstSets, Types
    <3>3. Len(s) <= Len(t) /\ \A k \in 1..Len(s) : s[k] = t[k]
      BY <3>1, <3>2 DEF WholeSets, FirstSets
    <3>4. SubSeq(s, 1, Len(s)) = SubSeq(t, 1, Len(s))
      BY <3>3
    <3>5. IsPrefix(s, t)
      BY <3>3, <3>4 DEF IsPrefix
    <3>6. Len(s) = Len(t) => s = t
      <4>1. s = [k \in 1..Len(s) |-> s[k]] /\ t = [k \in 1..Len(t) |-> t[k]]
        OBVIOUS
      <4> QED BY <3>3, <4>1
    <3> QED BY <3>1, <3>2, <3>5, <3>6 DEF WholeSets, FirstSets
  <2> QED BY <2>1, <2>2 DEF SqlAnswer
<1>4. Spec => []Honest
  <2> HIDE DEF Honest
  <2> QED BY <1>1, <1>2, PlacesInductive, PTL DEF Spec
<1> HIDE DEF Honest
<1> QED BY <1>3, <1>4, PlacesInductive, PTL

-----------------------------------------------------------------------------
(* Prices and stocks in Hasavshevet.                                       *)

\* What was fresh stays so while time passes.
LEMMA StillFresh ==
  ASSUME NEW r, NEW from, NEW v \in Int, NEW w \in Int, v <= w, from \in Int
  PROVE  /\ \A p : FreshPrices(r, p, from, v) => FreshPrices(r, p, from, w)
         /\ \A t : FreshTotals(r, t, from, v) => FreshTotals(r, t, from, w)
         /\ \A i : TrueItems(r, i, from, v) => TrueItems(r, i, from, w)
<1>1. from..v \subseteq from..w
  OBVIOUS
<1>2. \A p : FreshPrices(r, p, from, v) => FreshPrices(r, p, from, w)
  BY <1>1 DEF FreshPrices
<1>3. \A k, e : FreshTotal(r, k, e, from, v) => FreshTotal(r, k, e, from, w)
  BY <1>1 DEF FreshTotal
<1>4. \A t : FreshTotals(r, t, from, v) => FreshTotals(r, t, from, w)
  BY <1>3 DEF FreshTotals
<1>5. \A k, i : TrueItem(r, k, i, from, v) => TrueItem(r, k, i, from, w)
  BY <1>1 DEF TrueItem
<1>6. \A i : TrueItems(r, i, from, v) => TrueItems(r, i, from, w)
  BY <1>5 DEF TrueItems
<1> QED BY <1>2, <1>4, <1>6

\* The SKUs and the warehouses of a request; there is a warehouse.
LEMMA SkusAndWarehouses ==
  ASSUME load \in Loads, NEW r \in Requests, Ask(r).kind = "price"
  PROVE  /\ Len(Skus(r)) \in Nat /\ DOMAIN Skus(r) = 1..Len(Skus(r))
         /\ Len(Warehouses(r)) \in Nat /\ DOMAIN Warehouses(r) = 1..Len(Warehouses(r))
         /\ 0 < Len(Warehouses(r))
<1>1. PICK S : Skus(r) \in Seq(S)
  <2>1. PICK S : Ask(r).skus \in Seq(S)
    BY AskedFor
  <2>2. uniqueStrings(Ask(r).skus) \in Seq(S)
    BY <2>1, UniqueStringsKeepsEachOnce
  <2> QED BY <2>2 DEF Skus
<1>2. PICK W : Ask(r).warehouses \in Seq(W)
  BY AskedFor
<1>3. PICK w \in Seq(W) : w = uniqueStrings(Ask(r).warehouses)
  BY <1>2, UniqueStringsKeepsEachOnce
<1>4. CASE w = <<>>
  <2>1. Warehouses(r) = <<"10">>
    BY <1>3, <1>4 DEF Warehouses, stockWarehouses
  <2> QED BY <1>1, <2>1
<1>5. CASE w # <<>>
  <2>1. Warehouses(r) = w
    BY <1>3, <1>5 DEF Warehouses, stockWarehouses
  <2>2. 0 < Len(w) /\ Len(w) \in Nat /\ DOMAIN w = 1..Len(w)
    BY <1>5
  <2> QED BY <1>1, <2>1, <2>2
<1> QED BY <1>4, <1>5

\* Fresh prices, and fresh stocks of all the warehouses, are put together to
\* items that say the truth.
LEMMA MergedItemsAreTrue ==
  ASSUME load \in Loads, NEW r \in Requests, Ask(r).kind = "price",
         NEW from \in Int, NEW to \in Int,
         NEW prices, FreshPrices(r, prices, from, to),
         NEW totals, FreshTotals(r, totals, from, to), Len(totals) = Len(Warehouses(r))
  PROVE  TrueItems(r, mergedItems(Skus(r), prices, totals), from, to)
<1>0. /\ Len(Skus(r)) \in Nat /\ DOMAIN Skus(r) = 1..Len(Skus(r))
      /\ Len(Warehouses(r)) \in Nat /\ DOMAIN Warehouses(r) = 1..Len(Warehouses(r))
      /\ 0 < Len(Warehouses(r))
  BY SkusAndWarehouses
<1> DEFINE L == Len(Skus(r)) W == Len(Warehouses(r))
           item(k) ==
             [sku    |-> Skus(r)[k],
              prices |-> {prices[s] : s \in {Skus(r)[k]} \cap DOMAIN prices},
              stockByWarehouse |->
                {<<totals[n].warehouse, totals[n].total[Skus(r)[k]]>> :
                   n \in {n \in DOMAIN totals : Skus(r)[k] \in DOMAIN totals[n].total}}]
<1>1. PICK items : items = mergedItems(Skus(r), prices, totals)
  OBVIOUS
<1>2. items = [k \in 1..L |-> item(k)]
  BY <1>0, <1>1 DEF mergedItems
<1>3. Len(items) = L /\ DOMAIN items = 1..L
  <2> HIDE DEF item, L
  <2>1. L \in Nat
    BY <1>0 DEF L
  <2> QED BY <1>2, <2>1
<1>4. DOMAIN totals = 1..W /\ \A n \in 1..W : FreshTotal(r, n, totals[n], from, to)
  BY DEF FreshTotals
<1>5. ASSUME NEW k \in 1..L
      PROVE  TrueItem(r, k, item(k), from, to)
  <2>1. PICK sku \in Range(Skus(r)) : sku = Skus(r)[k]
    BY <1>0, <1>5 DEF Range
  <2>2. item(k).sku = sku
    BY <2>1
  <2>3. PICK v \in from..to : prices[sku] = Price(r, sku, v)
    BY <2>1 DEF FreshPrices
  <2>4. item(k).prices = {Price(r, sku, v)}
    <3>1. item(k).prices = {prices[s] : s \in {sku} \cap DOMAIN prices}
      BY <2>1
    <3>2. {sku} \cap DOMAIN prices = {sku}
      BY <2>1 DEF FreshPrices
    <3>3. {prices[s] : s \in {sku}} = {prices[sku]}
      OBVIOUS
    <3> QED BY <2>3, <3>1, <3>2, <3>3
  <2>5. {n \in DOMAIN totals : sku \in DOMAIN totals[n].total} = 1..W
    BY <1>4, <2>1 DEF FreshTotal
  <2>6. item(k).stockByWarehouse = {<<totals[n].warehouse, totals[n].total[sku]>> : n \in 1..W}
    BY <2>1, <2>5
  <2>7. \A n \in 1..W : /\ totals[n].warehouse = Warehouses(r)[n]
                        /\ totals[n].total[sku].of = <<Warehouses(r)[n], sku>>
                        /\ totals[n].total[sku].at \in from..to
    <3>1. ASSUME NEW n \in 1..W
          PROVE  /\ totals[n].warehouse = Warehouses(r)[n]
                 /\ totals[n].total[sku].of = <<Warehouses(r)[n], sku>>
                 /\ totals[n].total[sku].at \in from..to
      <4>1. FreshTotal(r, n, totals[n], from, to)
        BY <1>4
      <4>2. PICK u \in from..to : totals[n].total[sku] = [of |-> <<Warehouses(r)[n], sku>>, at |-> u]
        BY <2>1, <4>1 DEF FreshTotal
      <4> QED BY <4>1, <4>2 DEF FreshTotal
    <3> QED BY <3>1
  <2>8. Range(Warehouses(r)) = {Warehouses(r)[n] : n \in 1..W}
    BY <1>0 DEF Range
  <2> HIDE DEF item, W, L
  <2>9. {s[1] : s \in item(k).stockByWarehouse} = Range(Warehouses(r))
    <3>1. \A s \in item(k).stockByWarehouse : \E n \in 1..W : s[1] = Warehouses(r)[n]
      BY <2>6, <2>7
    <3>2. \A n \in 1..W : \E s \in item(k).stockByWarehouse : s[1] = Warehouses(r)[n]
      <4>1. ASSUME NEW n \in 1..W
            PROVE  \E s \in item(k).stockByWarehouse : s[1] = Warehouses(r)[n]
        <5>1. PICK s : s = <<totals[n].warehouse, totals[n].total[sku]>>
          OBVIOUS
        <5>2. s \in item(k).stockByWarehouse
          BY <2>6, <5>1
        <5>3. s[1] = Warehouses(r)[n]
          BY <2>7, <5>1
        <5> QED BY <5>2, <5>3
      <4> QED BY <4>1
    <3> QED BY <2>8, <3>1, <3>2
  <2>10. \A s \in item(k).stockByWarehouse : s[2].of = <<s[1], sku>> /\ s[2].at \in from..to
    BY <2>6, <2>7
  <2> QED BY <2>1, <2>2, <2>4, <2>9, <2>10 DEF TrueItem
<1> HIDE DEF item
<1>6. \A k \in 1..L : items[k] = item(k)
  BY <1>2
<1> QED BY <1>1, <1>3, <1>5, <1>6 DEF TrueItems

\* What is left to show of a price request after a step.
LEMMA HasavshevetAfter ==
  ASSUME NEW r, load' = load,
         pc'[r] = "new" \/ (query'[r] = "GPRICE_Bulk" /\ pc'[r] \in {"asking", "running"})
           => StationRows(r)' = {},
         pc'[r] = "inserted" => StationRows(r)' = Entries(r, Unset),
         pc'[r] = "priced" => \E v \in since'[r]..version' : StationRows(r)' = Entries(r, v),
         query'[r] \in {"none", "GPRICE_Bulk"} => got'[r].totals = <<>>,
         query'[r] = "GetOnHandStockForSkus" /\ pc'[r] \in {"asking", "running"} =>
           /\ FreshPrices(r, got'[r].prices, since'[r], version')
           /\ FreshTotals(r, got'[r].totals, since'[r], version')
           /\ Len(got'[r].totals) < Len(Warehouses(r)),
         answer'[r].code = "OK" => TrueItems(r, answer'[r].body, since'[r], version')
  PROVE  Hasavshevet(r)'
<1>1. Ask(r)' = Ask(r) /\ Skus(r)' = Skus(r) /\ Warehouses(r)' = Warehouses(r)
  BY DEF Ask, Skus, Warehouses
<1>2. \A s, v : Entry(r, s, v)' = Entry(r, s, v) /\ Price(r, s, v)' = Price(r, s, v)
  BY <1>1 DEF Entry, Price
<1>3. \A v : Entries(r, v)' = Entries(r, v)
  BY <1>1, <1>2 DEF Entries
<1>4. RowsOfCall(r)'
  BY <1>3 DEF RowsOfCall, Unset
<1>5. FreshPrices(r, got'[r].prices, since'[r], version') =>
        (FreshPrices(r, got[r].prices, since[r], version))'
  BY <1>1, <1>2 DEF FreshPrices
<1>6. FreshTotals(r, got'[r].totals, since'[r], version') =>
        (FreshTotals(r, got[r].totals, since[r], version))'
  BY <1>1 DEF FreshTotals, FreshTotal
<1>7. TrueItems(r, answer'[r].body, since'[r], version') =>
        (TrueItems(r, answer[r].body, since[r], version))'
  BY <1>1, <1>2 DEF TrueItems, TrueItem
<1>8. answer'[r].code = "OK" => (TrueItems(r, answer[r].body, since[r], version))'
  BY <1>7
<1>9. query'[r] = "GetOnHandStockForSkus" /\ pc'[r] \in {"asking", "running"} =>
        /\ (FreshPrices(r, got[r].prices, since[r], version))'
        /\ (FreshTotals(r, got[r].totals, since[r], version))'
        /\ Len(got'[r].totals) < Len(Warehouses(r)')
  BY <1>1, <1>5, <1>6
<1> QED BY <1>4, <1>8, <1>9 DEF Hasavshevet

\* A price request of Hasavshevet with something to price.
IsPriced(r) == Ask(r).kind = "price" /\ load.erp = "HASAVSHEVET" /\ Skus(r) # <<>>

\* Of the other requests there is nothing to show.
LEMMA NotPriced ==
  ASSUME NEW r, load' = load, ~IsPriced(r)
  PROVE  Hasavshevet(r)'
BY DEF IsPriced, Hasavshevet, Ask, Skus

\* A request that is left alone keeps its rows and what it read stays fresh.
LEMMA UnmovedHasavshevet ==
  ASSUME Types, NEW r \in Requests, Hasavshevet(r), load' = load,
         version' \in Int, version <= version',
         Unmoved(r), StationRows(r)' = StationRows(r)
  PROVE  Hasavshevet(r)'
<1>0. since[r] \in Int /\ version \in Int
  BY ApiAssumption DEF Types, Clients
<1>1. CASE ~IsPriced(r)
  BY <1>1, NotPriced
<1>2. CASE IsPriced(r)
  <2>1. since[r]..version \subseteq since[r]..version'
    BY <1>0
  <2>2. pc'[r] = pc[r] /\ query'[r] = query[r] /\ got'[r] = got[r] /\ answer'[r] = answer[r]
        /\ since'[r] = since[r]
    BY DEF Unmoved
  <2>3. /\ pc[r] = "new" \/ (query[r] = "GPRICE_Bulk" /\ pc[r] \in {"asking", "running"})
             => StationRows(r)' = {}
        /\ pc[r] = "inserted" => StationRows(r)' = Entries(r, Unset)
        /\ pc[r] = "priced" => \E v \in since[r]..version' : StationRows(r)' = Entries(r, v)
    BY <1>2, <2>1 DEF Hasavshevet, IsPriced, RowsOfCall
  <2>4. query[r] \in {"none", "GPRICE_Bulk"} => got[r].totals = <<>>
    BY <1>2 DEF Hasavshevet, IsPriced
  <2>5. query[r] = "GetOnHandStockForSkus" /\ pc[r] \in {"asking", "running"} =>
          /\ FreshPrices(r, got[r].prices, since[r], version')
          /\ FreshTotals(r, got[r].totals, since[r], version')
          /\ Len(got[r].totals) < Len(Warehouses(r))
    BY <1>0, <1>2, StillFresh DEF Hasavshevet, IsPriced
  <2>6. answer[r].code = "OK" => TrueItems(r, answer[r].body, since[r], version')
    BY <1>0, <1>2, StillFresh DEF Hasavshevet, IsPriced
  <2> QED BY <2>2, <2>3, <2>4, <2>5, <2>6, HasavshevetAfter
<1> QED BY <1>1, <1>2

\* GPRICE_Bulk's three statements: rows are entered, priced and read back.
LEMMA BulkRows ==
  ASSUME NEW r \in Requests
  PROVE  /\ StationRows(r) = {} /\ BulkInserts(r) => StationRows(r)' = Entries(r, Unset)
         /\ StationRows(r) = Entries(r, Unset) /\ GPRICE(r) =>
              StationRows(r)' = Entries(r, version)
         /\ \A v, from, to :
              (v \in from..to /\ StationRows(r) = Entries(r, v) /\ BulkReturns(r)) =>
                \E p : /\ got' = [got EXCEPT ![r].prices = p]
                       /\ FreshPrices(r, p, from, to)
<1>1. ASSUME StationRows(r) = {}, BulkInserts(r)
      PROVE  StationRows(r)' = Entries(r, Unset)
  <2>1. getprice' = getprice \cup Entries(r, Unset)
    BY <1>1 DEF BulkInserts, Entries, Entry, station
  <2>2. \A row \in Entries(r, Unset) : row.station = r
    BY DEF Entries, Entry
  <2> QED BY <1>1, <2>1, <2>2 DEF StationRows
<1>2. ASSUME StationRows(r) = Entries(r, Unset), GPRICE(r)
      PROVE  StationRows(r)' = Entries(r, version)
  <2> DEFINE New == {[row EXCEPT !.price.at = version] : row \in StationRows(r)}
  <2>1. getprice' = {row \in getprice : row.station # r} \cup New
    BY <1>2 DEF GPRICE, station, StationRows
  <2>2. \A s : [Entry(r, s, Unset) EXCEPT !.price.at = version] = Entry(r, s, version)
    <3>1. ASSUME NEW s, NEW row, row = Entry(r, s, Unset)
          PROVE  [row EXCEPT !.price.at = version] = Entry(r, s, version)
      BY <3>1, PricedEntry
    <3> QED BY <3>1
  <2>3. New = Entries(r, version)
    <3>1. \A x \in New : \E s \in Range(Skus(r)) : x = Entry(r, s, version)
      BY <1>2, <2>2 DEF Entries
    <3>2. \A s \in Range(Skus(r)) : Entry(r, s, version) \in New
      BY <1>2, <2>2 DEF Entries
    <3> HIDE DEF New
    <3> QED BY <3>1, <3>2 DEF Entries
  <2>4. \A row \in New : row.station = r
    BY <2>3 DEF Entries, Entry
  <2> HIDE DEF New
  <2>5. StationRows(r)' = New
    BY <2>1, <2>4 DEF StationRows
  <2> QED BY <2>3, <2>5
<1>3. ASSUME NEW v, NEW from, NEW to, v \in from..to,
             StationRows(r) = Entries(r, v), BulkReturns(r)
      PROVE  \E p : got' = [got EXCEPT ![r].prices = p] /\ FreshPrices(r, p, from, to)
  <2>1. \A s, row : row \in Priced(r, s) => row.price = Price(r, s, v)
    <3>1. ASSUME NEW s, NEW row \in Priced(r, s)
          PROVE  row.price = Price(r, s, v)
      <4>1. row \in StationRows(r) /\ row.item = s
        BY DEF Priced, StationRows, station
      <4>2. PICK t \in Range(Skus(r)) : row = Entry(r, t, v)
        BY <1>3, <4>1 DEF Entries
      <4> QED BY <4>1, <4>2 DEF Entry
    <3> QED BY <3>1
  <2>2. \A s \in Range(Skus(r)) : Priced(r, s) # {}
    <3>1. ASSUME NEW s \in Range(Skus(r))
          PROVE  Entry(r, s, v) \in Priced(r, s)
      <4>1. Entry(r, s, v) \in StationRows(r)
        BY <1>3 DEF Entries
      <4> QED BY <4>1 DEF Priced, StationRows, Entry, station
    <3> QED BY <3>1
  <2>3. {s \in Range(Skus(r)) : Priced(r, s) # {}} = Range(Skus(r))
    BY <2>2
  <2>4. PICK kept \in [Range(Skus(r)) -> getprice] :
          /\ \A s \in DOMAIN kept : kept[s] \in Priced(r, s)
          /\ got' = [got EXCEPT ![r].prices = [s \in DOMAIN kept |-> kept[s].price]]
    BY <1>3, <2>3 DEF BulkReturns
  <2>5. PICK p : p = [s \in DOMAIN kept |-> kept[s].price]
    OBVIOUS
  <2>6. DOMAIN p = Range(Skus(r)) /\ \A s \in Range(Skus(r)) : p[s] = Price(r, s, v)
    BY <2>1, <2>4, <2>5
  <2>7. FreshPrices(r, p, from, to)
    BY <1>3, <2>6 DEF FreshPrices
  <2> QED BY <2>4, <2>5, <2>7
<1> QED BY <1>1, <1>2, <1>3

\* The stocks in the k-th warehouse, now.
StockOf(r, k) ==
  [warehouse |-> Warehouses(r)[k],
   total     |-> [s \in Range(Skus(r)) |-> Total(Warehouses(r)[k], s)]]

\* A warehouse more.
LEMMA TotalAdded ==
  ASSUME Types, NEW r \in Requests, NEW totals, NEW from,
         FreshTotals(r, totals, from, version), Len(totals) < Len(Warehouses(r)),
         from \in 0..version, NEW entry, entry = StockOf(r, Len(totals) + 1),
         NEW more, more = Append(totals, entry)
  PROVE  FreshTotals(r, more, from, version) /\ Len(more) = Len(totals) + 1
<1>1. PICK n \in Nat : n = Len(totals)
  BY DEF FreshTotals
<1>2. totals = [k \in 1..n |-> totals[k]]
  BY <1>1 DEF FreshTotals
<1>3. /\ Len(more) = n + 1 /\ more = [k \in 1..(n + 1) |-> more[k]]
      /\ \A k \in 1..n : more[k] = totals[k]
      /\ more[n + 1] = entry
  <2>1. PICK S : totals \in Seq(S) /\ entry \in S
    <3> DEFINE S == {totals[k] : k \in 1..n} \cup {entry}
    <3>1. entry \in S /\ \A k \in 1..n : totals[k] \in S
      OBVIOUS
    <3> HIDE DEF S
    <3>2. totals \in [1..n -> S]
      BY <1>2, <3>1
    <3> QED BY <3>1, <3>2, SeqDef
  <2>2. Len(more) = n + 1 /\ more \in Seq(S)
    BY <1>1, <2>1
  <2> QED BY <1>1, <2>1, <2>2
<1>4. FreshTotal(r, n + 1, entry, from, version)
  <2>1. version \in from..version
    BY ApiAssumption DEF Types
  <2>2. entry.warehouse = Warehouses(r)[n + 1] /\ DOMAIN entry.total = Range(Skus(r))
    BY <1>1 DEF StockOf
  <2>3. \A s \in Range(Skus(r)) :
          entry.total[s] = [of |-> <<Warehouses(r)[n + 1], s>>, at |-> version]
    BY <1>1 DEF StockOf, Total
  <2> QED BY <2>1, <2>2, <2>3 DEF FreshTotal
<1>5. \A k \in 1..(n + 1) : k \in 1..n \/ k = n + 1
  BY <1>1
<1>6. \A k \in 1..(n + 1) : FreshTotal(r, k, more[k], from, version)
  BY <1>1, <1>3, <1>4, <1>5 DEF FreshTotals
<1>7. Len(more) = n + 1 /\ n + 1 \in Nat
  BY <1>1, <1>3
<1>8. more = [k \in 1..Len(more) |-> more[k]]
  BY <1>3
<1> QED BY <1>1, <1>6, <1>7, <1>8 DEF FreshTotals

\* A request's own steps enter, price and read its rows, and read its stocks.
LEMMA OwnHasavshevetStep ==
  ASSUME Types, Data, NEW r \in Requests, Path(r), Hasavshevet(r), IsPriced(r),
         load' = load,
         Handler(r) \/ ContextEnds(r) \/ GetsConnection(r) \/ StatementFails(r) \/ ConnectionLost(r)
  PROVE  Hasavshevet(r)'
<1>a. r \in Clients /\ load \in Loads /\ Ask(r).kind = "price" /\ since[r] \in 0..version
  BY DEF Clients, Types, IsPriced
<1>b. version \in Int /\ version <= version /\ since[r] \in Int
  BY <1>a, ApiAssumption DEF Types
<1>0. /\ r \in Clients /\ load \in Loads /\ Ask(r).kind = "price"
      /\ version \in Int /\ version <= version /\ since[r] \in 0..version
      /\ pc = [c \in Clients |-> pc[c]] /\ query = [c \in Clients |-> query[c]]
      /\ answer = [c \in Clients |-> answer[c]] /\ got = [c \in Clients |-> got[c]]
      /\ Gotten(got[r])
  BY <1>a, <1>b DEF Types, Data
<1>1. /\ RowsOfCall(r)
      /\ query[r] \in {"none", "GPRICE_Bulk"} => got[r].totals = <<>>
      /\ query[r] = "GetOnHandStockForSkus" /\ pc[r] \in {"asking", "running"} =>
           /\ FreshPrices(r, got[r].prices, since[r], version)
           /\ FreshTotals(r, got[r].totals, since[r], version)
           /\ Len(got[r].totals) < Len(Warehouses(r))
      /\ answer[r].code = "OK" => TrueItems(r, answer[r].body, since[r], version)
  BY DEF Hasavshevet, IsPriced
<1>2. /\ query[r] \in {"none", "GPRICE_Bulk", "GetOnHandStockForSkus"}
      /\ pc[r] \in Reading => query[r] # "none"
      /\ pc[r] \in {"inserted", "priced"} => query[r] = "GPRICE_Bulk"
      /\ pc[r] # "closing"
      /\ pc[r] \in {"new"} \cup Reading => answer[r] = NoAnswer
  BY DEF Path, Queries, IsPriced, Reading
<1>3. NoAnswer.code # "OK"
  BY DEF NoAnswer
<1>4. ASSUME NEW code, NEW body, Answers(r, code, body), code # "OK", got' = got
      PROVE  Hasavshevet(r)'
  <2>1. /\ pc'[r] = "done" /\ query'[r] = query[r] /\ got'[r] = got[r]
        /\ answer'[r].code = code
    BY <1>0, <1>4 DEF Answers, Answered
  <2> QED BY <1>1, <1>4, <2>1, HasavshevetAfter
<1>5. CASE Receive(r) /\ EarlyAnswer(r) # NoAnswer
  <2>1. EarlyAnswer(r).code # "OK"
    BY <1>0, <1>5, EarlyAnswerFits DEF IsPriced
  <2>2. Answers(r, EarlyAnswer(r).code, EarlyAnswer(r).body) /\ got' = got
    BY <1>5 DEF Receive
  <2> QED BY <1>4, <2>1, <2>2
<1>5a. CASE Receive(r) /\ EarlyAnswer(r) = NoAnswer
  <2>1. EarlyAnswer(r) = NoAnswer
    BY <1>5a
  <2>2. FirstQuery(r) = "GPRICE_Bulk"
    BY DEF FirstQuery, IsPriced
  <2>3. /\ pc'[r] = "asking" /\ query'[r] = "GPRICE_Bulk" /\ got'[r] = got[r]
        /\ answer'[r] = answer[r] /\ pc[r] = "new" /\ getprice' = getprice
    BY <1>0, <1>5a, <2>1, <2>2 DEF Receive, AsksFor
  <2>4. StationRows(r)' = {}
    BY <1>1, <2>3 DEF RowsOfCall, StationRows
  <2>5. got[r].totals = <<>>
    BY <2>3 DEF Path, Nothing
  <2> QED BY <1>2, <1>3, <2>3, <2>4, <2>5, HasavshevetAfter
<1>6. CASE BreaksOff(r)
  <2>1. Answers(r, "PRICE_STOCK_FAILED", <<>>) /\ got' = got
    BY <1>2, <1>6 DEF BreaksOff, ErrorCode, Reading
  <2> QED BY <1>4, <2>1
<1>7. CASE StatementFails(r) \/ ConnectionLost(r)
  <2>1. FailedQuery(r) /\ pc[r] \in Reading /\ got' = got
    BY <1>7 DEF StatementFails, ConnectionLost, DatabaseFails, Reading
  <2>2. Answers(r, "PRICE_STOCK_FAILED", <<>>)
    BY <1>2, <2>1 DEF FailedQuery, ErrorCode
  <2> QED BY <1>4, <2>1, <2>2
<1>8. CASE BulkInserts(r)
  <2>1. /\ pc'[r] = "inserted" /\ query'[r] = query[r] /\ got'[r] = got[r]
        /\ answer'[r] = answer[r] /\ pc[r] = "running" /\ query[r] = "GPRICE_Bulk"
    BY <1>0, <1>8 DEF BulkInserts
  <2>2. StationRows(r)' = Entries(r, Unset)
    BY <1>1, <1>8, <2>1, BulkRows DEF RowsOfCall
  <2> QED BY <1>1, <1>2, <1>3, <2>1, <2>2, HasavshevetAfter DEF Reading
<1>9. CASE GPRICE(r)
  <2>1. /\ pc'[r] = "priced" /\ query'[r] = query[r] /\ got'[r] = got[r]
        /\ answer'[r] = answer[r] /\ pc[r] = "inserted"
        /\ version' = version /\ since'[r] = since[r]
    BY <1>0, <1>9 DEF GPRICE
  <2>2. StationRows(r)' = Entries(r, version)
    BY <1>1, <1>9, <2>1, BulkRows DEF RowsOfCall
  <2>3. version \in since'[r]..version'
    BY <1>0, <2>1
  <2> QED BY <1>1, <1>2, <1>3, <2>1, <2>2, <2>3, HasavshevetAfter DEF Reading
<1>10. CASE BulkReturns(r)
  <2>1. /\ pc'[r] = "asking" /\ query'[r] = "GetOnHandStockForSkus"
        /\ answer'[r] = answer[r] /\ pc[r] = "priced"
        /\ version' = version /\ since'[r] = since[r]
    BY <1>0, <1>10 DEF BulkReturns, AsksFor
  <2>2. PICK v \in since[r]..version : StationRows(r) = Entries(r, v)
    BY <1>1, <2>1 DEF RowsOfCall
  <2>3. PICK p : got' = [got EXCEPT ![r].prices = p] /\ FreshPrices(r, p, since[r], version)
    BY <1>10, <2>2, BulkRows
  <2>4. got[r].totals = <<>>
    BY <1>1, <1>2, <2>1
  <2>5. got'[r].prices = p /\ got'[r].totals = <<>>
    <3>1. PICK h : h = [got[r] EXCEPT !.prices = p]
      OBVIOUS
    <3>2. got'[r] = h
      BY <1>0, <2>3, <3>1
    <3>3. h.prices = p /\ h.totals = got[r].totals
      BY <1>0, <3>1 DEF Gotten
    <3> QED BY <2>4, <3>2, <3>3
  <2>6. FreshTotals(r, <<>>, since[r], version) /\ Len(<<>>) < Len(Warehouses(r))
    <3>1. 0 < Len(Warehouses(r))
      BY <1>0, SkusAndWarehouses
    <3>2. Len(<<>>) = 0 /\ 1..0 = {} /\ <<>> = [k \in 1..0 |-> <<>>[k]]
      OBVIOUS
    <3> QED BY <3>1, <3>2 DEF FreshTotals
  <2> QED BY <1>2, <1>3, <2>1, <2>3, <2>5, <2>6, HasavshevetAfter DEF Reading
<1>11. CASE StockReturns(r)
  <2>1. /\ version' = version /\ since'[r] = since[r] /\ pc[r] = "running"
        /\ query[r] = "GetOnHandStockForSkus"
    BY <1>11 DEF StockReturns
  <2>2. /\ FreshPrices(r, got[r].prices, since[r], version)
        /\ FreshTotals(r, got[r].totals, since[r], version)
        /\ Len(got[r].totals) < Len(Warehouses(r))
    BY <1>1, <2>1
  <2>3. PICK g : g = got[r]
    OBVIOUS
  <2>4. PICK entry : entry = StockOf(r, Len(g.totals) + 1)
    OBVIOUS
  <2>5. PICK totals : totals = Append(g.totals, entry)
    OBVIOUS
  <2>6. /\ got' = [got EXCEPT ![r].totals = totals]
        /\ IF Len(totals) < Len(Warehouses(r)) THEN AsksFor(r, query[r])
           ELSE Answers(r, "OK", mergedItems(Skus(r), g.prices, totals))
    BY <1>11, <2>3, <2>4, <2>5 DEF StockReturns, StockOf
  <2>7. FreshTotals(r, totals, since[r], version) /\ Len(totals) = Len(g.totals) + 1
    <3>1. FreshTotals(r, g.totals, since[r], version) /\ Len(g.totals) < Len(Warehouses(r))
      BY <2>2, <2>3
    <3>2. since[r] \in 0..version
      BY <1>0
    <3> QED BY <2>4, <2>5, <3>1, <3>2, TotalAdded, ZenonT(60)
  <2>8. got'[r].prices = g.prices /\ got'[r].totals = totals
    <3>1. PICK h : h = [g EXCEPT !.totals = totals]
      OBVIOUS
    <3>2. got'[r] = h
      BY <1>0, <2>3, <2>6, <3>1
    <3>3. h.prices = g.prices /\ h.totals = totals
      BY <1>0, <2>3, <3>1 DEF Gotten
    <3> QED BY <3>2, <3>3
  <2>9. CASE Len(totals) < Len(Warehouses(r))
    <3>1. pc'[r] = "asking" /\ query'[r] = query[r] /\ answer'[r] = answer[r]
      BY <1>0, <2>6, <2>9 DEF AsksFor
    <3> QED BY <1>2, <1>3, <2>1, <2>2, <2>3, <2>7, <2>8, <2>9, <3>1, HasavshevetAfter DEF Reading
  <2>10. CASE ~(Len(totals) < Len(Warehouses(r)))
    <3>1. PICK items : items = mergedItems(Skus(r), g.prices, totals)
      OBVIOUS
    <3>2. /\ pc'[r] = "done" /\ query'[r] = query[r]
          /\ answer'[r] = Answered("OK", items)
      BY <1>0, <2>6, <2>10, <3>1 DEF Answers
    <3>3. Len(totals) = Len(Warehouses(r))
      <4>1. Len(Warehouses(r)) \in Nat /\ Len(g.totals) \in Nat
        BY <1>0, <2>2, <2>3, SkusAndWarehouses DEF FreshTotals
      <4> QED BY <2>2, <2>3, <2>7, <2>10, <4>1
    <3>4. TrueItems(r, items, since[r], version)
      <4>1. FreshPrices(r, g.prices, since[r], version)
        BY <2>2, <2>3
      <4>2. since[r] \in Int
        BY <1>0
      <4> QED BY <1>0, <2>7, <3>1, <3>3, <4>1, <4>2, MergedItemsAreTrue
    <3>5. answer'[r].body = items
      BY <3>2 DEF Answered
    <3> QED BY <2>1, <3>2, <3>4, <3>5, HasavshevetAfter
  <2> QED BY <2>9, <2>10
<1>12. CASE ContextEnds(r)
  <2>1. Unmoved(r) /\ getprice' = getprice /\ version' = version
    BY <1>12 DEF ContextEnds, clientVars, Unmoved
  <2>2. StationRows(r)' = StationRows(r)
    BY <2>1 DEF StationRows
  <2> QED BY <1>0, <2>1, <2>2, UnmovedHasavshevet
<1>13. CASE GetsConnection(r)
  <2>1. /\ pc'[r] = "running" /\ query'[r] = query[r] /\ answer'[r] = answer[r]
        /\ got'[r] = got[r] /\ pc[r] = "asking" /\ getprice' = getprice
        /\ version' = version /\ since'[r] = since[r]
    BY <1>0, <1>13 DEF GetsConnection
  <2>2. query[r] = "GPRICE_Bulk" => StationRows(r)' = {}
    BY <1>1, <2>1 DEF RowsOfCall, StationRows
  <2> QED BY <1>1, <1>2, <1>3, <2>1, <2>2, HasavshevetAfter DEF Reading
<1>14. ~SapReturns(r) /\ ~NextRow(r) /\ ~RowLimit(r) /\ ~EndOfSet(r) /\ ~CloseRows(r)
  BY <1>2 DEF SapReturns, NextRow, RowLimit, EndOfSet, CloseRows, SqlReads
<1> QED BY <1>5, <1>5a, <1>6, <1>7, <1>8, <1>9, <1>10, <1>11, <1>12, <1>13, <1>14 DEF Handler

\* Every step keeps the prices and stocks of every request true and fresh.
LEMMA HasavshevetStep ==
  ASSUME Places, Next, NEW r \in Requests, Hasavshevet(r)
  PROVE  Hasavshevet(r)'
<1>1. Types /\ Data /\ Rows /\ \A q \in Requests : Path(q)
  BY DEF Places
<1>2. load' = load /\ version \in Int /\ version' \in Int /\ version <= version'
  BY <1>1, NothingTakenBack
<1>3. r \in Clients /\ r # Worker
  BY ApiAssumption DEF Clients
<1>4. CASE Unmoved(r) /\ (ErpChanges \/ \E c \in Clients : c # r /\ StepOf(c))
  <2>1. StationRows(r)' = StationRows(r)
    BY <1>1, <1>4, RowsOfOthers DEF ErpChanges, StationRows
  <2> QED BY <1>1, <1>2, <1>4, <2>1, UnmovedHasavshevet
<1>5. CASE StepOf(r)
  <2>1. Handler(r) \/ ContextEnds(r) \/ GetsConnection(r) \/ StatementFails(r) \/ ConnectionLost(r)
    BY <1>3, <1>5 DEF StepOf
  <2>2. CASE IsPriced(r)
    BY <1>1, <1>2, <2>1, <2>2, OwnHasavshevetStep
  <2>3. CASE ~IsPriced(r)
    BY <1>2, <2>3, NotPriced
  <2> QED BY <2>2, <2>3
<1> QED BY <1>1, <1>3, <1>4, <1>5, WhoMoves

\* HasavshevetAnswersAreTrue holds in every state (gprice_bulk.go,
\* onhand_stock_proc.go and mergedItems of hasavshevet/price_stock.go).
THEOREM HasavshevetIsAnsweredRight ==
  Spec => []HasavshevetAnswersAreTrue
<1> DEFINE Right == \A r \in Requests : Hasavshevet(r)
<1>1. ASSUME Init
      PROVE  Right
  <2>1. ASSUME NEW r \in Requests
        PROVE  Hasavshevet(r)
    <3>1. /\ pc[r] = "new" /\ query[r] = "none" /\ got[r].totals = <<>>
          /\ answer[r].code = "none"
      BY <1>1 DEF Init, Clients, Nothing, NoAnswer
    <3>2. StationRows(r) = {}
      BY <1>1 DEF Init, StationRows
    <3> QED BY <3>1, <3>2 DEF Hasavshevet, RowsOfCall
  <2> QED BY <2>1
<1>2. ASSUME Places, Right, [Next]_vars
      PROVE  Right'
  <2>1. CASE Next
    <3>1. \A r \in Requests : Hasavshevet(r)'
      BY <1>2, <2>1, HasavshevetStep
    <3> QED BY <3>1
  <2>2. CASE UNCHANGED vars
    <3>1. ASSUME NEW r \in Requests
          PROVE  Hasavshevet(r)'
      <4>1. Unmoved(r) /\ StationRows(r)' = StationRows(r) /\ load' = load /\ version' = version
        BY <2>2 DEF vars, clientVars, Unmoved, StationRows
      <4>2. Types /\ version \in Int /\ version <= version
        BY <1>2, ApiAssumption DEF Places, Types
      <4> QED BY <1>2, <4>1, <4>2, UnmovedHasavshevet
    <3> QED BY <3>1
  <2> QED BY <1>2, <2>1, <2>2
<1>3. ASSUME Places, Right
      PROVE  HasavshevetAnswersAreTrue
  <2> SUFFICES ASSUME NEW r \in Requests, IsPriced(r), answer[r].code = "OK"
               PROVE  HasavshevetAnswerIsTrue(r)
    BY DEF HasavshevetAnswersAreTrue, IsPriced
  <2>1. PICK items : items = answer[r].body
    OBVIOUS
  <2>2. TrueItems(r, items, since[r], version)
    BY <1>3, <2>1 DEF Hasavshevet, IsPriced
  <2>3. Len(items) = Len(Skus(r)) /\ DOMAIN items = 1..Len(Skus(r))
    BY <2>2 DEF TrueItems
  <2>4. ASSUME NEW k \in DOMAIN items
        PROVE  /\ items[k].sku = Skus(r)[k]
               /\ \E p \in items[k].prices :
                    /\ items[k].prices = {p}
                    /\ p.of = <<Ask(r).card, items[k].sku>>
                    /\ Fresh(r, p)
               /\ {s[1] : s \in items[k].stockByWarehouse} = Range(Warehouses(r))
               /\ \A s \in items[k].stockByWarehouse :
                    s[2].of = <<s[1], items[k].sku>> /\ Fresh(r, s[2])
    <3>1. TrueItem(r, k, items[k], since[r], version)
      BY <2>2, <2>3, <2>4 DEF TrueItems
    <3>2. PICK v \in since[r]..version : items[k].prices = {Price(r, items[k].sku, v)}
      BY <3>1 DEF TrueItem
    <3>3. PICK p : p = Price(r, items[k].sku, v)
      OBVIOUS
    <3>4. p \in items[k].prices /\ items[k].prices = {p}
      BY <3>2, <3>3
    <3>5. p.of = <<Ask(r).card, items[k].sku>> /\ p.at \in since[r]..version
      BY <3>3 DEF Price
    <3>6. Fresh(r, p)
      BY <3>5 DEF Fresh
    <3> QED BY <3>1, <3>4, <3>5, <3>6 DEF TrueItem, Fresh
  <2> QED BY <2>1, <2>3, <2>4 DEF HasavshevetAnswerIsTrue
<1>4. Spec => []Right
  <2> HIDE DEF Right
  <2> QED BY <1>1, <1>2, PlacesInductive, PTL DEF Spec
<1> HIDE DEF Right
<1> QED BY <1>3, <1>4, PlacesInductive, PTL

-----------------------------------------------------------------------------
(* Prices in SAP.                                                          *)

\* An answer that stays, or is no prices, changes nothing.
LEMMA SapPricesAfter ==
  ASSUME NEW r, SapPrices(r), load' = load,
         answer'[r].code = "OK" => answer'[r] = answer[r]
  PROVE  SapPrices(r)'
<1>1. Ask(r)' = Ask(r) /\ Skus(r)' = Skus(r) /\ SapQuery(r)' = SapQuery(r)
  BY DEF Ask, Skus, SapQuery
<1> QED BY <1>1 DEF SapPrices

\* A step answers prices from SAP's statement or not at all.
LEMMA SapPricesStep ==
  ASSUME Places, Next, NEW r \in Requests, SapPrices(r)
  PROVE  SapPrices(r)'
<1>1. Types /\ Data /\ \A q \in Requests : Path(q)
  BY DEF Places
<1>2. /\ load' = load /\ r \in Clients /\ r # Worker /\ load \in Loads
      /\ answer = [c \in Clients |-> answer[c]]
  BY <1>1, NothingTakenBack, ApiAssumption DEF Clients, Types, Data
<1>3. CASE Unmoved(r)
  BY <1>2, <1>3, SapPricesAfter DEF Unmoved
<1>4. CASE ~(Ask(r).kind = "price" /\ load.erp # "HASAVSHEVET" /\ Skus(r) # <<>>)
  BY <1>2, <1>4 DEF SapPrices, Ask, Skus
<1>5. CASE StepOf(r) /\ Ask(r).kind = "price" /\ load.erp # "HASAVSHEVET" /\ Skus(r) # <<>>
  <2>0. Handler(r) \/ ContextEnds(r) \/ GetsConnection(r) \/ StatementFails(r) \/ ConnectionLost(r)
    BY <1>2, <1>5 DEF StepOf
  <2>1. /\ query[r] \in {"none", "sap"} /\ pc[r] \notin {"closing", "inserted", "priced"}
        /\ pc[r] \in Reading => query[r] = "sap"
        /\ query[r] = "sap" => load.erp = "SAP"
    BY <1>1, <1>5 DEF Path, Queries, Reading
  <2>2. ASSUME NEW code, NEW body, Answers(r, code, body), code # "OK"
        PROVE  SapPrices(r)'
    <3>1. answer'[r].code = code
      BY <1>2, <2>2 DEF Answers, Answered
    <3> QED BY <1>2, <2>2, <3>1, SapPricesAfter
  <2>3. CASE Receive(r)
    <3>1. CASE EarlyAnswer(r) = NoAnswer
      <4>1. answer' = answer
        BY <2>3, <3>1 DEF Receive, AsksFor
      <4> QED BY <1>2, <4>1, SapPricesAfter
    <3>2. CASE EarlyAnswer(r) # NoAnswer
      <4>1. EarlyAnswer(r).code # "OK"
        BY <1>5, <3>2 DEF EarlyAnswer, Answered
      <4>2. Answers(r, EarlyAnswer(r).code, EarlyAnswer(r).body)
        BY <2>3, <3>2 DEF Receive
      <4> QED BY <2>2, <4>1, <4>2
    <3> QED BY <3>1, <3>2
  <2>4. CASE BreaksOff(r)
    BY <2>1, <2>2, <2>4 DEF BreaksOff, ErrorCode, Reading
  <2>5. CASE StatementFails(r) \/ ConnectionLost(r)
    <3>1. FailedQuery(r) /\ pc[r] \in Reading
      BY <2>5 DEF StatementFails, ConnectionLost, DatabaseFails, Reading
    <3>2. Answers(r, "PRICE_STOCK_FAILED", <<>>)
      BY <2>1, <3>1 DEF FailedQuery, ErrorCode
    <3> QED BY <2>2, <3>2
  <2>6. CASE SapReturns(r)
    <3>1. PICK rows : rows = SapRows(load.sap, SapQuery(r))
      OBVIOUS
    <3>2. Answers(r, "OK", rows) /\ load.erp = "SAP"
      BY <2>1, <2>6, <3>1 DEF SapReturns
    <3>3. answer'[r].body = rows
      BY <1>2, <3>2 DEF Answers, Answered
    <3>4. SapQuery(r)' = SapQuery(r)
      BY <1>2 DEF SapQuery, Ask, Skus
    <3> QED BY <1>2, <3>1, <3>2, <3>3, <3>4 DEF SapPrices
  <2>7. CASE ContextEnds(r) \/ GetsConnection(r)
    <3>1. answer' = answer
      BY <2>7 DEF ContextEnds, GetsConnection, clientVars
    <3> QED BY <1>2, <3>1, SapPricesAfter
  <2>8. /\ ~BulkInserts(r) /\ ~GPRICE(r) /\ ~BulkReturns(r) /\ ~StockReturns(r)
        /\ ~NextRow(r) /\ ~RowLimit(r) /\ ~EndOfSet(r) /\ ~CloseRows(r)
    <3>1. ~BulkInserts(r) /\ ~GPRICE(r) /\ ~BulkReturns(r)
      BY <2>1 DEF BulkInserts, GPRICE, BulkReturns
    <3>2. ~StockReturns(r)
      BY <2>1 DEF StockReturns
    <3>3. ~SqlReads(r) /\ ~CloseRows(r)
      BY <2>1 DEF SqlReads, CloseRows
    <3> QED BY <3>1, <3>2, <3>3 DEF NextRow, RowLimit, EndOfSet
  <2> QED BY <2>0, <2>3, <2>4, <2>5, <2>6, <2>7, <2>8 DEF Handler
<1> QED BY <1>1, <1>2, <1>3, <1>4, <1>5, WhoMoves

\* SapPrices holds of every request in every state.
LEMMA SapPricesInductive ==
  Spec => [](\A r \in Requests : SapPrices(r))
<1> DEFINE Owing == \A r \in Requests : SapPrices(r)
<1>1. ASSUME Init
      PROVE  Owing
  BY <1>1 DEF Init, SapPrices, NoAnswer, Clients
<1>2. ASSUME Places, Owing, [Next]_vars
      PROVE  Owing'
  <2>1. CASE Next
    <3>1. \A r \in Requests : SapPrices(r)'
      BY <1>2, <2>1, SapPricesStep
    <3> QED BY <3>1
  <2>2. CASE UNCHANGED vars
    <3>1. \A r \in Requests : SapPrices(r)'
      BY <1>2, <2>2, SapPricesAfter DEF vars, clientVars
    <3> QED BY <3>1
  <2> QED BY <1>2, <2>1, <2>2
<1>3. Spec => []Owing
  <2> HIDE DEF Owing
  <2> QED BY <1>1, <1>2, PlacesInductive, PTL DEF Spec
<1> QED BY <1>3

-----------------------------------------------------------------------------
(* The least, the greatest and the order of finite sets of numbers.        *)

\* A finite set of integers that is not empty has a least and a greatest
\* element.
LEMMA Extremes ==
  ASSUME NEW S, S \subseteq Int, IsFiniteSet(S), S # {}
  PROVE  \E low, high \in S : \A k \in S : low <= k /\ k <= high
<1> DEFINE Bounded(X) == \E low, high \in X : \A k \in X : low <= k /\ k <= high
           T == {n \in Nat : \A X \in SUBSET S : Cardinality(X) = n => (X = {} \/ Bounded(X))}
<1>0. ASSUME NEW X \in SUBSET S
      PROVE  IsFiniteSet(X) /\ Cardinality(X) \in Nat
  BY FS_Subset, FS_CardinalityType
<1>1. 0 \in T
  <2>1. \A X \in SUBSET S : Cardinality(X) = 0 => X = {}
    BY <1>0, FS_EmptySet
  <2> HIDE DEF Bounded
  <2> QED BY <2>1
<1>2. ASSUME NEW n \in Nat, n \in T
      PROVE  n + 1 \in T
  <2>1. ASSUME NEW X \in SUBSET S, Cardinality(X) = n + 1, X # {}
        PROVE  Bounded(X)
    <3>1. PICK x \in X : TRUE
      BY <2>1
    <3> DEFINE Y == X \ {x}
    <3>2. Y \in SUBSET S /\ Cardinality(Y) = n
      <4>1. IsFiniteSet(X) /\ x \in X
        BY <1>0, <3>1
      <4>2. Cardinality(Y) = Cardinality(X) - 1
        BY <4>1, FS_RemoveElement
      <4> QED BY <2>1, <4>2
    <3>3. Y = {} \/ Bounded(Y)
      <4> HIDE DEF Y, Bounded
      <4> QED BY <1>2, <3>2
    <3>4. CASE Y = {}
      <4>1. x \in Int /\ X = {x}
        BY <3>1, <3>4
      <4>2. \A k \in X : x <= k /\ k <= x
        BY <4>1
      <4> QED BY <3>1, <4>2
    <3>5. CASE Bounded(Y)
      <4>1. PICK low \in Y, high \in Y : \A k \in Y : low <= k /\ k <= high
        BY <3>5
      <4>2. x \in Int /\ low \in Int /\ high \in Int /\ X \subseteq Int
            /\ low \in X /\ high \in X
        BY <3>1
      <4>3. PICK a \in X, b \in X : a <= low /\ a <= x /\ high <= b /\ x <= b
        <5>1. low <= low /\ x <= x /\ high <= high
          BY <4>2
        <5>2. x <= low \/ low <= x
          BY <4>2
        <5>3. x <= high \/ high <= x
          BY <4>2
        <5> QED BY <3>1, <4>2, <5>1, <5>2, <5>3
      <4>4. ASSUME NEW k \in X
            PROVE  a <= k /\ k <= b
        <5>1. CASE k = x
          BY <4>3, <5>1
        <5>2. CASE k \in Y
          BY <4>1, <4>2, <4>3, <5>2
        <5> QED BY <5>1, <5>2
      <4> HIDE DEF Y
      <4> QED BY <4>4
    <3> QED BY <3>3, <3>4, <3>5
  <2> HIDE DEF Bounded
  <2> QED BY <2>1
<1>3. Cardinality(S) \in T
  <2>1. Cardinality(S) \in Nat
    BY FS_CardinalityType
  <2> HIDE DEF T
  <2> QED BY <1>1, <1>2, <2>1, Induction
<1>4. Bounded(S)
  <2> HIDE DEF Bounded
  <2> QED BY <1>3
<1> QED BY <1>4

\* Min and Max are what they are called.
LEMMA MinAndMax ==
  ASSUME NEW S, S \subseteq Int, IsFiniteSet(S), S # {}
  PROVE  /\ Min(S) \in S /\ \A k \in S : Min(S) <= k
         /\ Max(S) \in S /\ \A k \in S : Max(S) >= k
<1>1. PICK low \in S, high \in S : \A k \in S : low <= k /\ k <= high
  BY Extremes
<1>2. \A k \in S : high >= k
  BY <1>1
<1> QED BY <1>1, <1>2 DEF Min, Max

\* Listed lists every row of a table once.
LEMMA ListedAll ==
  ASSUME NEW S, IsFiniteSet(S)
  PROVE  /\ Cardinality(S) \in Nat
         /\ Listed(S) \in [1..Cardinality(S) -> S]
         /\ \A e \in S : \E n \in 1..Cardinality(S) : Listed(S)[n] = e
<1>1. Cardinality(S) \in Nat /\ Bijection(1..Cardinality(S), S) # {}
  BY FS_CardinalityType DEF ExistsBijection
<1>2. Listed(S) \in Bijection(1..Cardinality(S), S)
  BY <1>1 DEF Listed
<1> QED BY <1>1, <1>2 DEF Bijection, Injection, Surjection

-----------------------------------------------------------------------------
(* The sums and products of BestDiscountPerItem.                           *)

\* The rows of BestDiscountPerItem that have a percentage.
Percentages(R) == IsFiniteSet(R) /\ \A e \in R : e.pct \in Int

\* The percentages of R added up row by row, as SumOf does.
AddsUp(s, R) ==
  /\ s \in [0..Cardinality(R) -> Int] /\ s[0] = 0
  /\ \A n \in 1..Cardinality(R) : s[n] = s[n - 1] + Listed(R)[n].pct

\* SumOf is the last of those sums.
LEMMA SumOfIsReached ==
  ASSUME NEW R, Percentages(R)
  PROVE  \E s : AddsUp(s, R) /\ SumOf(R) = s[Cardinality(R)]
<1> DEFINE N == Cardinality(R)
           l == Listed(R)
           step == [n \in 1..N |-> [x \in Int |-> x + l[n].pct]]
           Round(o) == [n \in 0..N |-> IF n = 0 THEN 0 ELSE o[n - 1] + l[n].pct]
           s == CHOOSE o : o = Round(o)
<1>1. N \in Nat /\ \A n \in 1..N : l[n] \in R
  BY ListedAll DEF Percentages
<1>2. \A n \in 1..N : l[n].pct \in Int
  BY <1>1 DEF Percentages
<1>3. PICK g \in [0..N -> Int] : Computes(g, N, 0, step)
  <2>1. step \in [1..N -> [Int -> Int]]
    BY <1>2
  <2>2. 0 \in Int
    OBVIOUS
  <2> HIDE DEF step, N
  <2> QED BY <1>1, <2>1, <2>2, Recursion
<1>4. ASSUME NEW n \in 1..N
      PROVE  g[n] = g[n - 1] + l[n].pct
  <2>1. n - 1 \in 0..N /\ g[n - 1] \in Int
    BY <1>1, <1>3
  <2>2. g[n] = step[n][g[n - 1]]
    <3> HIDE DEF step, N
    <3> QED BY <1>3 DEF Computes
  <2> HIDE DEF N, l
  <2> QED BY <2>1, <2>2
<1>5. g[0] = 0
  BY <1>3 DEF Computes
<1>6. g = Round(g)
  <2>1. ASSUME NEW n \in 0..N
        PROVE  g[n] = Round(g)[n]
    <3>1. n = 0 \/ n \in 1..N
      BY <1>1
    <3> HIDE DEF N, l
    <3> QED BY <1>4, <1>5, <3>1
  <2> DEFINE h == Round(g) D == 0..N
  <2>2. g = [n \in D |-> g[n]] /\ h = [n \in D |-> h[n]] /\ \A n \in D : g[n] = h[n]
    BY <1>3, <2>1
  <2> HIDE DEF h, D
  <2>3. g = h
    BY <2>2, SameFunction
  <2> QED BY <2>3 DEF h
<1>7. s = Round(s)
  <2> HIDE DEF Round
  <2> QED BY <1>6
<1>8. s[0] = 0 /\ \A n \in 1..N : s[n] = s[n - 1] + l[n].pct
  <2>1. 0 \in 0..N /\ \A n \in 1..N : n \in 0..N /\ n # 0
    BY <1>1
  <2> HIDE DEF s, N, l
  <2> QED BY <1>7, <2>1
<1>9. s \in [0..N -> Int]
  <2>1. s[0] \in Int
    BY <1>8
  <2>2. ASSUME NEW n \in 1..N, s[n - 1] \in Int
        PROVE  s[n] \in Int
    <3> HIDE DEF s, l, N
    <3> QED BY <1>2, <1>8, <2>2
  <2>3. \A n \in 0..N : s[n] \in Int
    <3> HIDE DEF s, l, N
    <3>1. \A n \in 1..N : s[n - 1] \in Int => s[n] \in Int
      BY <2>2
    <3> QED BY <1>1, <2>1, <3>1, LoopStaysIn
  <2>4. s = [n \in 0..N |-> s[n]]
    <3> HIDE DEF s, l, N
    <3> QED BY <1>7
  <2> HIDE DEF s, l, N
  <2> QED BY <2>3, <2>4
<1>10. SumOf(R) = s[N]
  BY DEF SumOf
<1> HIDE DEF s
<1> QED BY <1>8, <1>9, <1>10 DEF AddsUp

\* The average lies between any bounds of the percentages.
LEMMA AverageIsBetween ==
  ASSUME NEW R, Percentages(R), R # {},
         NEW low \in Int, NEW high \in Int, \A e \in R : low <= e.pct /\ e.pct <= high
  PROVE  /\ SumOf(R) \div Cardinality(R) \in Int
         /\ low <= SumOf(R) \div Cardinality(R)
         /\ SumOf(R) \div Cardinality(R) <= high
<1> DEFINE N == Cardinality(R)
           l == Listed(R)
<1>1. N \in Nat /\ N > 0 /\ \A n \in 1..N : l[n] \in R
  <2>1. N \in Nat /\ N # 0
    BY FS_CardinalityType, FS_EmptySet DEF Percentages
  <2>2. \A n \in 1..N : l[n] \in R
    BY ListedAll DEF Percentages
  <2> QED BY <2>1, <2>2
<1>2. PICK s : AddsUp(s, R) /\ SumOf(R) = s[N]
  BY SumOfIsReached
<1> DEFINE T == {k \in Nat : k <= N => (k * low <= s[k] /\ s[k] <= k * high)}
<1>3. 0 \in T
  <2>1. 0 * low = 0 /\ 0 * high = 0 /\ s[0] = 0
    BY <1>2 DEF AddsUp
  <2> QED BY <2>1
<1>4. ASSUME NEW k \in Nat, k \in T
      PROVE  k + 1 \in T
  <2> SUFFICES ASSUME k + 1 <= N
               PROVE  (k + 1) * low <= s[k + 1] /\ s[k + 1] <= (k + 1) * high
    OBVIOUS
  <2>1. k \in 0..N /\ k + 1 \in 1..N /\ (k + 1) - 1 = k
    BY <1>1
  <2>2. s[k] \in Int /\ s[k + 1] = s[k] + l[k + 1].pct
    BY <1>2, <2>1 DEF AddsUp
  <2>3. PICK p \in Int : p = l[k + 1].pct /\ low <= p /\ p <= high
    BY <1>1, <2>1 DEF Percentages
  <2>4. PICK x \in Int : x = s[k] /\ k * low <= x /\ x <= k * high
    BY <1>4, <2>1, <2>2
  <2>5. (k + 1) * low = k * low + low /\ (k + 1) * high = k * high + high
        /\ k * low \in Int /\ k * high \in Int
    OBVIOUS
  <2>6. k * low + low <= x + p /\ x + p <= k * high + high
    BY <2>3, <2>4, <2>5
  <2> QED BY <2>2, <2>3, <2>4, <2>5, <2>6
<1>5. N \in T
  <2> HIDE DEF T
  <2> QED BY <1>1, <1>3, <1>4, Induction
<1>6. PICK x \in Int : x = SumOf(R) /\ N * low <= x /\ x <= N * high
  <2>1. s[N] \in Int
    BY <1>1, <1>2 DEF AddsUp
  <2> QED BY <1>1, <1>2, <1>5, <2>1
<1>7. ASSUME NEW n \in Nat, n > 0, n * low <= x, x <= n * high
      PROVE  x \div n \in Int /\ low <= x \div n /\ x \div n <= high
  <2>1. PICK d \in Int : d = x \div n /\ n * d <= x /\ x < n * d + n
    BY <1>7
  <2>2. d <= high
    <3> SUFFICES ASSUME high < d PROVE FALSE
      OBVIOUS
    <3>1. n * high < n * d
      BY <1>7
    <3> QED BY <1>7, <2>1, <3>1
  <2>3. low <= d
    <3> SUFFICES ASSUME d + 1 <= low PROVE FALSE
      OBVIOUS
    <3>1. n * (d + 1) <= n * low /\ n * (d + 1) = n * d + n
      BY <1>7
    <3> QED BY <1>7, <2>1, <3>1
  <2> QED BY <2>1, <2>2, <2>3
<1> HIDE DEF N
<1>8. x \div N \in Int /\ low <= x \div N /\ x \div N <= high
  BY <1>1, <1>6, <1>7
<1> QED BY <1>6, <1>8 DEF N

\* A sum of percentages is no less than any of them, when none is negative.
LEMMA SumCoversEach ==
  ASSUME NEW R, Percentages(R)
  PROVE  /\ SumOf(R) \in Int
         /\ (\A e \in R : e.pct >= 0) => \A e \in R : SumOf(R) >= e.pct
<1> DEFINE N == Cardinality(R)
           l == Listed(R)
<1>1. /\ N \in Nat
      /\ \A n \in 1..N : l[n] \in R
      /\ \A e \in R : \E n \in 1..N : l[n] = e
  BY ListedAll DEF Percentages
<1>2. PICK s : AddsUp(s, R) /\ SumOf(R) = s[N]
  BY SumOfIsReached
<1>3. SumOf(R) \in Int
  BY <1>1, <1>2 DEF AddsUp
<1>4. ASSUME \A e \in R : e.pct >= 0, NEW e \in R
      PROVE  SumOf(R) >= e.pct
  <2>1. PICK m \in 1..N : l[m] = e
    BY <1>1
  <2> DEFINE T == {k \in Nat : k <= N => (s[k] >= 0 /\ (m <= k => s[k] >= e.pct))}
  <2>2. 0 \in T
    BY <1>2 DEF AddsUp
  <2>3. ASSUME NEW k \in Nat, k \in T
        PROVE  k + 1 \in T
    <3> SUFFICES ASSUME k + 1 <= N
                 PROVE  s[k + 1] >= 0 /\ (m <= k + 1 => s[k + 1] >= e.pct)
      OBVIOUS
    <3>1. k \in 0..N /\ k + 1 \in 1..N /\ (k + 1) - 1 = k
      BY <1>1
    <3>2. s[k + 1] = s[k] + l[k + 1].pct
      BY <1>2, <3>1 DEF AddsUp
    <3>3. PICK p \in Int : p = l[k + 1].pct /\ p >= 0
      BY <1>1, <1>4, <3>1 DEF Percentages
    <3>4. PICK x \in Int : x = s[k] /\ x >= 0 /\ (m <= k => x >= e.pct)
      BY <1>2, <2>3, <3>1 DEF AddsUp
    <3>5. e.pct \in Int /\ (m = k + 1 => p = e.pct)
      BY <2>1, <3>3 DEF Percentages
    <3>6. x + p >= 0 /\ (m <= k => x + p >= e.pct) /\ (m = k + 1 => x + p >= e.pct)
      BY <3>3, <3>4, <3>5
    <3> QED BY <3>2, <3>3, <3>4, <3>6
  <2>4. N \in T
    <3> HIDE DEF T
    <3> QED BY <1>1, <2>2, <2>3, Induction
  <2> QED BY <1>1, <1>2, <2>1, <2>4
<1> QED BY <1>3, <1>4

\* What a discount of a percentage leaves.
Left(x, pct) == (x * (100 - pct)) \div 100

\* What the percentages of R leave of a hundred, row by row, as Mixed does.
Leaves(s, R) ==
  /\ s \in [0..Cardinality(R) -> Int] /\ s[0] = 100
  /\ \A n \in 1..Cardinality(R) : s[n] = Left(s[n - 1], Listed(R)[n].pct)

\* Mixed takes off what the last of them does not leave.
LEMMA MixedIsReached ==
  ASSUME NEW R, Percentages(R), ~ \E e \in R : e.pct >= 100
  PROVE  \E s : Leaves(s, R) /\ Mixed(R) = 100 - s[Cardinality(R)]
<1> DEFINE N == Cardinality(R)
           l == Listed(R)
           step == [n \in 1..N |-> [x \in Int |-> Left(x, l[n].pct)]]
           Round(o) == [n \in 0..N |->
                          IF n = 0 THEN 100 ELSE Left(o[n - 1], l[n].pct)]
           s == CHOOSE o : o = Round(o)
<1>1. N \in Nat /\ \A n \in 1..N : l[n] \in R
  BY ListedAll DEF Percentages
<1>2. \A n \in 1..N : l[n].pct \in Int
  BY <1>1 DEF Percentages
<1>3. ASSUME NEW x \in Int, NEW p \in Int
      PROVE  Left(x, p) \in Int
  <2>1. PICK y \in Int : y = x * (100 - p)
    BY <1>3
  <2> QED BY <2>1 DEF Left
<1>4. PICK g \in [0..N -> Int] : Computes(g, N, 100, step)
  <2>1. step \in [1..N -> [Int -> Int]]
    <3> HIDE DEF N, l
    <3> QED BY <1>2, <1>3
  <2>2. 100 \in Int
    OBVIOUS
  <2> HIDE DEF step, N
  <2> QED BY <1>1, <2>1, <2>2, Recursion
<1>5. ASSUME NEW n \in 1..N
      PROVE  g[n] = Left(g[n - 1], l[n].pct)
  <2>1. n - 1 \in 0..N /\ g[n - 1] \in Int
    BY <1>1, <1>4
  <2>2. g[n] = step[n][g[n - 1]]
    <3> HIDE DEF step, N
    <3> QED BY <1>4 DEF Computes
  <2> HIDE DEF N, l
  <2> QED BY <2>1, <2>2
<1>6. g[0] = 100
  BY <1>4 DEF Computes
<1>7. g = Round(g)
  <2>1. ASSUME NEW n \in 0..N
        PROVE  g[n] = Round(g)[n]
    <3>1. n = 0 \/ n \in 1..N
      BY <1>1
    <3> HIDE DEF N, l
    <3> QED BY <1>5, <1>6, <3>1
  <2> DEFINE h == Round(g) D == 0..N
  <2>2. g = [n \in D |-> g[n]] /\ h = [n \in D |-> h[n]] /\ \A n \in D : g[n] = h[n]
    BY <1>4, <2>1
  <2> HIDE DEF h, D
  <2>3. g = h
    BY <2>2, SameFunction
  <2> QED BY <2>3 DEF h
<1>8. s = Round(s)
  <2> HIDE DEF Round
  <2> QED BY <1>7
<1>9. s[0] = 100 /\ \A n \in 1..N : s[n] = Left(s[n - 1], l[n].pct)
  <2>1. 0 \in 0..N /\ \A n \in 1..N : n \in 0..N /\ n # 0
    BY <1>1
  <2> HIDE DEF s, N, l
  <2> QED BY <1>8, <2>1
<1>10. s \in [0..N -> Int]
  <2>1. s[0] \in Int
    BY <1>9
  <2>2. ASSUME NEW n \in 1..N, s[n - 1] \in Int
        PROVE  s[n] \in Int
    <3> HIDE DEF s, l, N
    <3>1. PICK p \in Int : p = l[n].pct
      BY <1>2
    <3>2. Left(s[n - 1], p) \in Int
      BY <1>3, <2>2
    <3> QED BY <1>9, <3>1, <3>2
  <2>3. \A n \in 0..N : s[n] \in Int
    <3> HIDE DEF s, l, N
    <3>1. \A n \in 1..N : s[n - 1] \in Int => s[n] \in Int
      BY <2>2
    <3> QED BY <1>1, <2>1, <3>1, LoopStaysIn
  <2>4. s = [n \in 0..N |-> s[n]]
    <3> HIDE DEF s, l, N
    <3> QED BY <1>8
  <2> HIDE DEF s, l, N
  <2> QED BY <2>3, <2>4
<1>11. Mixed(R) = 100 - s[N]
  BY DEF Mixed, Left
<1> HIDE DEF s
<1> QED BY <1>9, <1>10, <1>11 DEF Leaves

\* Taking a percentage off what is left of a hundred leaves no less than
\* nothing, no more than there was, and no more than it leaves of a hundred.
LEMMA TakenOff ==
  ASSUME NEW x \in Int, NEW p \in Int, x >= 0, p < 100
  PROVE  /\ Left(x, p) \in Int
         /\ Left(x, p) >= 0
         /\ (x <= 100 /\ p >= 0) => /\ Left(x, p) <= x
                                    /\ Left(x, p) <= 100 - p
<1>1. PICK y \in Int : y = 100 - p /\ y > 0
  OBVIOUS
<1>2. PICK z \in Int : z = x * y /\ z >= 0
  BY <1>1
<1>3. z \div 100 \in Int /\ z \div 100 >= 0
  BY <1>2
<1>4. ASSUME x <= 100, p >= 0
      PROVE  z \div 100 <= x /\ z \div 100 <= y
  <2>1. y <= 100
    BY <1>1, <1>4
  <2>2. x * y <= x * 100
    BY <1>1, <2>1
  <2>3. x * y <= 100 * y
    BY <1>1, <1>4
  <2>4. z <= x * 100 /\ z <= 100 * y
    BY <1>2, <2>2, <2>3
  <2> QED BY <1>1, <1>2, <2>4
<1> QED BY <1>1, <1>2, <1>3, <1>4 DEF Left

\* A mixed discount is at most a hundred, and no less than any of those it
\* mixes, when none is negative.
LEMMA MixedCoversEach ==
  ASSUME NEW R, Percentages(R)
  PROVE  /\ Mixed(R) \in Int /\ Mixed(R) <= 100
         /\ (\A e \in R : e.pct >= 0) => \A e \in R : e.pct <= 100 => Mixed(R) >= e.pct
<1>1. CASE \E e \in R : e.pct >= 100
  <2>1. Mixed(R) = 100
    BY <1>1 DEF Mixed
  <2> QED BY <2>1 DEF Percentages
<1>2. CASE ~ \E e \in R : e.pct >= 100
  <2> DEFINE N == Cardinality(R)
             l == Listed(R)
  <2>1. /\ N \in Nat
        /\ \A n \in 1..N : l[n] \in R
        /\ \A e \in R : \E n \in 1..N : l[n] = e
    BY ListedAll DEF Percentages
  <2>2. PICK s : Leaves(s, R) /\ Mixed(R) = 100 - s[N]
    BY <1>2, MixedIsReached
  <2>3. ASSUME NEW k \in Nat, k + 1 <= N, s[k] >= 0
        PROVE  \E x, p \in Int : /\ x = s[k] /\ x >= 0 /\ p = l[k + 1].pct /\ p < 100
                                 /\ s[k + 1] = Left(x, p)
    <3>1. k \in 0..N /\ k + 1 \in 1..N /\ (k + 1) - 1 = k
      BY <2>1, <2>3
    <3>2. s[k] \in Int /\ s[k + 1] = Left(s[k], l[k + 1].pct)
      BY <2>2, <3>1 DEF Leaves
    <3>3. l[k + 1].pct \in Int /\ l[k + 1].pct < 100
      BY <1>2, <2>1, <3>1 DEF Percentages
    <3> QED BY <2>3, <3>2, <3>3
  <2>4. s[N] \in Int /\ s[N] >= 0
    <3> DEFINE T == {k \in Nat : k <= N => s[k] >= 0}
    <3>1. 0 \in T
      BY <2>2 DEF Leaves
    <3>2. ASSUME NEW k \in Nat, k \in T
          PROVE  k + 1 \in T
      <4> SUFFICES ASSUME k + 1 <= N PROVE s[k + 1] >= 0
        OBVIOUS
      <4>1. s[k] >= 0
        BY <2>1, <3>2
      <4>2. PICK x, p \in Int : x >= 0 /\ p < 100 /\ s[k + 1] = Left(x, p)
        BY <2>3, <4>1
      <4>3. Left(x, p) >= 0
        BY <4>2, TakenOff
      <4> QED BY <4>2, <4>3
    <3>3. N \in T
      <4> HIDE DEF T
      <4> QED BY <2>1, <3>1, <3>2, Induction
    <3> QED BY <2>1, <2>2, <3>3 DEF Leaves
  <2>5. ASSUME \A e \in R : e.pct >= 0, NEW e \in R
        PROVE  Mixed(R) >= e.pct
    <3>1. PICK m \in 1..N : l[m] = e
      BY <2>1
    <3>2. PICK rest \in Int : rest = 100 - e.pct
      BY DEF Percentages
    <3> DEFINE T == {k \in Nat : k <= N =>
                       (s[k] >= 0 /\ s[k] <= 100 /\ (m <= k => s[k] <= rest))}
    <3>3. 0 \in T
      BY <2>2 DEF Leaves
    <3>4. ASSUME NEW k \in Nat, k \in T
          PROVE  k + 1 \in T
      <4> SUFFICES ASSUME k + 1 <= N
                   PROVE  s[k + 1] >= 0 /\ s[k + 1] <= 100 /\ (m <= k + 1 => s[k + 1] <= rest)
        OBVIOUS
      <4>1. s[k] >= 0 /\ s[k] <= 100 /\ (m <= k => s[k] <= rest)
        BY <2>1, <3>4
      <4>2. PICK x, p \in Int : /\ x = s[k] /\ x >= 0 /\ p = l[k + 1].pct /\ p < 100
                                /\ s[k + 1] = Left(x, p)
        BY <2>3, <4>1
      <4>3. k + 1 \in 1..N
        BY <2>1
      <4>4. p >= 0 /\ (m = k + 1 => 100 - p = rest)
        BY <2>1, <2>5, <3>1, <3>2, <4>2, <4>3
      <4>5. PICK z \in Int : z = s[k + 1] /\ z >= 0 /\ z <= x /\ z <= 100 - p
        BY <4>1, <4>2, <4>4, TakenOff
      <4>6. z >= 0 /\ z <= 100 /\ (m <= k + 1 => z <= rest)
        BY <3>2, <4>1, <4>2, <4>4, <4>5
      <4> QED BY <4>5, <4>6
    <3>5. N \in T
      <4> HIDE DEF T
      <4> QED BY <2>1, <3>3, <3>4, Induction
    <3>6. s[N] <= rest
      BY <2>1, <3>1, <3>5
    <3> QED BY <2>2, <2>4, <3>2, <3>6 DEF Percentages
  <2> QED BY <2>2, <2>4, <2>5
<1> QED BY <1>1, <1>2

-----------------------------------------------------------------------------
(* The rules of a customer and the discount they arrive at.                *)

\* The rules of a set that have a percentage.
WithPct(rules) == {e \in rules : e.pct # Null}

\* A finite set of rules as SAP keeps them.
SapRules(rules) ==
  /\ Null \notin Int /\ IsFiniteSet(rules)
  /\ \A e \in rules : e.type \in Range(RuleTypes) /\ e.pct \in Int \cup {Null}

\* The discount of the rules that have a percentage is a number that keeps
\* what the mode promises, and one of theirs where the mode takes one.
LEMMA BestIsPromised ==
  ASSUME NEW mode, NEW rules, SapRules(rules), WithPct(rules) # {}
  PROVE  /\ BestDiscount(mode, rules) \in Int
         /\ Promised(mode, WithPct(rules), BestDiscount(mode, rules))
         /\ mode \in {"H", "L"} => \E e \in WithPct(rules) : e.pct = BestDiscount(mode, rules)
<1> DEFINE R == WithPct(rules)
           P == {e.pct : e \in R}
<1>1. Percentages(R) /\ rules # {} /\ R # {}
  <2>1. R \subseteq rules /\ \A e \in R : e.pct \in Int
    BY DEF WithPct, SapRules
  <2>2. IsFiniteSet(R)
    BY <2>1, FS_Subset DEF SapRules
  <2> HIDE DEF R
  <2> QED BY <2>1, <2>2 DEF Percentages, R
<1>2. P \subseteq Int /\ P # {} /\ IsFiniteSet(P)
  <2>1. P \subseteq Int /\ P # {}
    BY <1>1 DEF Percentages
  <2> DEFINE f == [e \in R |-> e.pct]
  <2>2. f \in Surjection(R, P)
    <3> HIDE DEF R
    <3> QED BY DEF Surjection
  <2>3. IsFiniteSet(P)
    <3> HIDE DEF f, P, R
    <3> QED BY <1>1, <2>2, FS_Surjection DEF Percentages
  <2> QED BY <2>1, <2>3
<1>3. /\ Min(P) \in P /\ \A k \in P : Min(P) <= k
      /\ Max(P) \in P /\ \A k \in P : Max(P) >= k
  <2> HIDE DEF P
  <2> QED BY <1>2, MinAndMax
<1>4. \A e \in R : e.pct \in P
  OBVIOUS
<1>5. /\ mode = "L" => BestDiscount(mode, rules) = Min(P)
      /\ mode = "A" => BestDiscount(mode, rules) = SumOf(R) \div Cardinality(R)
      /\ mode = "S" => BestDiscount(mode, rules) = Min({100, SumOf(R)})
      /\ mode = "M" => BestDiscount(mode, rules) = Mixed(R)
      /\ mode \notin {"L", "A", "S", "M"} => BestDiscount(mode, rules) = Max(P)
  BY <1>1 DEF BestDiscount, WithPct
<1> HIDE DEF P, R
<1>6. CASE mode = "L"
  <2>1. BestDiscount(mode, rules) = Min(P) /\ Min(P) \in Int
    BY <1>2, <1>3, <1>5, <1>6
  <2>2. \A e \in R : Min(P) <= e.pct
    BY <1>3, <1>4
  <2>3. \E e \in R : e.pct = Min(P)
    BY <1>3 DEF P
  <2> QED BY <1>6, <2>1, <2>2, <2>3 DEF Promised, R
<1>7. CASE mode = "A"
  <2>1. \A e \in R : Min(P) <= e.pct /\ e.pct <= Max(P)
    <3>1. \A e \in R : e.pct \in Int /\ Min(P) \in Int /\ Max(P) \in Int
      BY <1>2, <1>3, <1>4
    <3> QED BY <1>3, <1>4, <3>1
  <2>2. PICK best \in Int : /\ best = SumOf(R) \div Cardinality(R)
                            /\ Min(P) <= best /\ best <= Max(P)
    <3>1. Min(P) \in Int /\ Max(P) \in Int
      BY <1>2, <1>3
    <3> QED BY <1>1, <2>1, <3>1, AverageIsBetween
  <2>3. PICK e \in R : e.pct = Min(P)
    BY <1>3 DEF P
  <2>4. PICK o \in R : o.pct = Max(P)
    BY <1>3 DEF P
  <2>5. best <= o.pct /\ best >= e.pct
    BY <1>2, <1>3, <2>2, <2>3, <2>4
  <2>6. BestDiscount(mode, rules) = best
    BY <1>5, <1>7, <2>2
  <2> QED BY <1>7, <2>2, <2>5, <2>6 DEF Promised, R
<1>8. CASE mode = "S"
  <2>1. /\ SumOf(R) \in Int
        /\ (\A e \in R : e.pct >= 0) => \A e \in R : SumOf(R) >= e.pct
    BY <1>1, SumCoversEach
  <2>2. PICK best \in Int : /\ best = BestDiscount(mode, rules) /\ best <= 100
                            /\ best = 100 \/ best = SumOf(R)
    <3> DEFINE S == {100, SumOf(R)}
    <3>1. S \subseteq Int /\ S # {} /\ 100 \in S
      BY <2>1
    <3>2. IsFiniteSet(S)
      <4>1. IsFiniteSet({100}) /\ IsFiniteSet({SumOf(R)})
        BY FS_Singleton
      <4>2. IsFiniteSet({100} \cup {SumOf(R)})
        BY <4>1, FS_Union
      <4> QED BY <4>2
    <3>3. Min(S) \in S /\ Min(S) <= 100
      <4> HIDE DEF S
      <4> QED BY <3>1, <3>2, MinAndMax
    <3> QED BY <1>5, <1>8, <2>1, <3>3
  <2>3. ASSUME \A e \in R : e.pct >= 0, NEW e \in R, e.pct <= 100
        PROVE  best >= e.pct
    BY <2>1, <2>2, <2>3
  <2>4. Promised(mode, R, best)
    BY <1>8, <2>2, <2>3 DEF Promised
  <2> QED BY <1>8, <2>2, <2>4 DEF R
<1>9. CASE mode = "M"
  <2>1. Promised(mode, R, Mixed(R)) /\ Mixed(R) \in Int
    BY <1>1, <1>9, MixedCoversEach DEF Promised
  <2> QED BY <1>5, <1>9, <2>1 DEF R
<1>10. CASE mode \notin {"L", "A", "S", "M"}
  <2>1. BestDiscount(mode, rules) = Max(P) /\ Max(P) \in Int
    BY <1>2, <1>3, <1>5, <1>10
  <2>2. \A e \in R : Max(P) >= e.pct
    BY <1>3, <1>4
  <2>3. \E e \in R : e.pct = Max(P)
    BY <1>3 DEF P
  <2> QED BY <1>10, <2>1, <2>2, <2>3 DEF Promised, R
<1> QED BY <1>6, <1>7, <1>8, <1>9, <1>10

\* Without a NULL among them, the type reported is that of a rule that has the
\* discount of the mode.
LEMMA TypeIsOfBestRule ==
  ASSUME NEW mode \in {"H", "L"}, NEW rules, SapRules(rules), rules # {},
         WithPct(rules) = rules
  PROVE  \E e \in rules : /\ e.type = DiscountRuleType(mode, rules)
                          /\ e.pct = BestDiscount(mode, rules)
<1>1. \A e \in rules : e.pct \in Int /\ e.pct # Null
  BY DEF WithPct, SapRules
<1>2. PICK best \in Int : best = BestDiscount(mode, rules)
  BY BestIsPromised
<1>3. PICK b \in rules : b.pct = best
  BY <1>2, BestIsPromised
<1>4. \A e \in rules : IF mode = "L" THEN best <= e.pct ELSE best >= e.pct
  <2>1. Promised(mode, rules, best)
    BY <1>2, BestIsPromised
  <2> QED BY <2>1 DEF Promised
<1>5. \A e \in rules : Rank(e) \in Nat
  <2> SUFFICES ASSUME NEW e \in rules PROVE Rank(e) \in Nat
    OBVIOUS
  <2>1. \E k \in 1..3 : RuleTypes[k] = e.type
    BY DEF SapRules, Range, RuleTypes
  <2>2. DOMAIN RuleTypes = 1..3
    BY DEF RuleTypes
  <2>3. Rank(e) \in 1..3
    <3> HIDE DEF RuleTypes
    <3> QED BY <2>1, <2>2 DEF Rank
  <2> QED BY <2>3
<1> DEFINE Ranks == {Rank(e) : e \in {e \in rules : e.pct = best}}
<1>6. PICK m \in Ranks : \A k \in Ranks : m <= k
  <2>1. Ranks \subseteq Nat /\ Ranks # {}
    BY <1>3, <1>5
  <2> HIDE DEF Ranks
  <2> QED BY <2>1, LeastElement
<1>7. PICK f \in rules : f.pct = best /\ m = Rank(f)
  BY <1>6
<1>8. ASSUME NEW o \in rules
      PROVE  Sorts(mode, f, o)
  <2>1. CASE o.pct = best
    <3>1. Rank(f) <= Rank(o)
      BY <1>6, <1>7, <2>1
    <3> QED BY <1>7, <2>1, <3>1 DEF Sorts
  <2>2. CASE o.pct # best
    <3>1. IF mode = "L" THEN best < o.pct ELSE best > o.pct
      BY <1>1, <1>4, <2>2
    <3> QED BY <1>1, <1>7, <3>1 DEF Sorts
  <2> QED BY <2>1, <2>2
<1>9. PICK first \in rules :
        /\ DiscountRuleType(mode, rules) = first.type
        /\ \A o \in rules : Sorts(mode, first, o)
  <2>1. \E e \in rules : \A o \in rules : Sorts(mode, e, o)
    BY <1>8
  <2> DEFINE first == CHOOSE e \in rules : \A o \in rules : Sorts(mode, e, o)
  <2>2. first \in rules /\ \A o \in rules : Sorts(mode, first, o)
    BY <2>1
  <2>3. DiscountRuleType(mode, rules) = first.type
    BY DEF DiscountRuleType
  <2> QED BY <2>2, <2>3
<1>10. first.pct = best
  <2>1. Sorts(mode, first, b) /\ first.pct \in Int /\ b.pct = best
    BY <1>1, <1>3, <1>9
  <2>2. first.pct # Null /\ best # Null
    BY <1>1, <2>1
  <2>3. IF mode = "L" THEN best <= first.pct ELSE best >= first.pct
    BY <1>4
  <2> QED BY <2>1, <2>2, <2>3 DEF Sorts
<1> QED BY <1>2, <1>9, <1>10

-----------------------------------------------------------------------------
(* The rows of the final SELECT.                                           *)

\* What the request and the database say of one item, and the rows that the
\* left joins found for it.
Found(db, q, i, special, promo) ==
  /\ Null \notin Int /\ IsSapDatabase(db)
  /\ i \in DOMAIN BasePrice(db, q)
  /\ special \in LeftJoined(SpecialPrice(db, q, i), NoSpecial)
  /\ promo \in LeftJoined(PromoDiscount(db, q, i), NoPromo)

\* The rules of an item, all and with a percentage.
LEMMA RulesOfItem ==
  ASSUME NEW db, NEW q, NEW i, Null \notin Int, IsSapDatabase(db)
  PROVE  /\ SapRules(AllDiscountRules(db, q, i))
         /\ {e \in db.rules : CountsFor(db, q, i, e)} = WithPct(AllDiscountRules(db, q, i))
<1> DEFINE A == AllDiscountRules(db, q, i)
<1>1. A \subseteq db.rules
  BY DEF AllDiscountRules
<1>2. SapRules(A)
  <2>1. IsFiniteSet(A)
    <3> HIDE DEF A
    <3> QED BY <1>1, FS_Subset DEF IsSapDatabase
  <2> HIDE DEF A
  <2> QED BY <1>1, <2>1 DEF IsSapDatabase, SapRules
<1>3. {e \in db.rules : CountsFor(db, q, i, e)} = WithPct(A)
  <2> HIDE DEF A
  <2>1. \A e : CountsFor(db, q, i, e) <=> e \in A /\ e.pct # Null
    BY DEF CountsFor, A
  <2> QED BY <1>1, <2>1 DEF WithPct
<1> QED BY <1>2, <1>3

\* The first source that offers something is one of the five, and none before
\* it offers anything.
LEMMA SourceIsFirst ==
  ASSUME NEW special, NEW best, NEW promo
  PROVE  \E k \in 1..5 :
           /\ PriceSource(special, best, promo) = Sources[k]
           /\ Offers(Sources[k], special, best, promo)
           /\ \A j \in 1..5 : j < k => ~ Offers(Sources[j], special, best, promo)
<1> DEFINE K == {k \in DOMAIN Sources : Offers(Sources[k], special, best, promo)}
<1>1. DOMAIN Sources = 1..5 /\ Sources[5] = "base_price_list"
  BY DEF Sources
<1>2. K \subseteq 1..5 /\ 5 \in K
  <2>1. Offers("base_price_list", special, best, promo)
    BY DEF Offers
  <2>2. 5 \in DOMAIN Sources
    BY <1>1
  <2> QED BY <1>1, <2>1, <2>2
<1>3. PICK m \in K : \A k \in K : m <= k
  <2>1. K \subseteq Nat /\ K # {}
    BY <1>2
  <2> HIDE DEF K
  <2> QED BY <2>1, LeastElement
<1>4. Min(K) \in K /\ \A k \in K : Min(K) <= k
  <2> HIDE DEF K
  <2> QED BY <1>3 DEF Min
<1>5. PriceSource(special, best, promo) = Sources[Min(K)]
  BY DEF PriceSource
<1>6. ASSUME NEW j \in 1..5, j < Min(K)
      PROVE  ~ Offers(Sources[j], special, best, promo)
  <2>1. j \notin K
    BY <1>2, <1>4, <1>6
  <2> QED BY <1>1, <2>1
<1>7. Min(K) \in 1..5 /\ Offers(Sources[Min(K)], special, best, promo)
  BY <1>2, <1>4
<1> HIDE DEF K
<1> QED BY <1>5, <1>6, <1>7

\* The price is explained by the fields of its row.
LEMMA RowIsExplained ==
  ASSUME NEW db, NEW q, NEW i, NEW special, NEW promo
  PROVE  Explained(Row(db, q, i, special, promo))
<1>1. PICK best : best = BestDiscount(BpDiscountMode(db, q), AllDiscountRules(db, q, i))
  OBVIOUS
<1>2. PICK price : price = BasePrice(db, q)[i]
  OBVIOUS
<1>3. PICK k \in 1..5 : /\ PriceSource(special, best, promo) = Sources[k]
                        /\ Offers(Sources[k], special, best, promo)
  BY SourceIsFirst
<1>4. PICK row : row = Row(db, q, i, special, promo)
  OBVIOUS
<1>5. /\ row.source = Sources[k] /\ row.listPrice = price
      /\ row.osppPrice = special.price /\ row.osppDiscount = special.discount
      /\ row.bpGroupDiscount = best /\ row.promoDiscount = promo.pct
      /\ row.final = FinalPrice(Sources[k], price, special, best, promo)
  BY <1>1, <1>2, <1>3, <1>4 DEF Row
<1>6. /\ Sources[1] = "special_price" /\ Sources[2] = "special_discount"
      /\ Sources[3] = "discount_groups" /\ Sources[4] = "promo"
      /\ Sources[5] = "base_price_list"
  BY DEF Sources
<1>7. k = 1 \/ k = 2 \/ k = 3 \/ k = 4 \/ k = 5
  OBVIOUS
<1>8. Explained(row)
  BY <1>3, <1>5, <1>6, <1>7 DEF Explained, FinalPrice, Offers
<1> QED BY <1>4, <1>8

\* The stock of an item is what its scarcest part with a stock on record has.
LEMMA StockIsScarcest ==
  ASSUME NEW db, NEW q, NEW row, Null \notin Int, IsSapDatabase(db),
         row.stock = Stock(db, q, row.sku)
  PROVE  StockOwed(db, q, row)
<1> DEFINE A == AllItemsForStock(db, row.sku)
           D == (A \X {q.warehouse}) \cap DOMAIN db.stock
           held == {db.stock[w] : w \in D}
           has == {c \in A : <<c, q.warehouse>> \in DOMAIN db.stock
                               /\ db.stock[<<c, q.warehouse>>] # Null}
<1>1. D \subseteq DOMAIN db.stock
  OBVIOUS
<1>2. IsFiniteSet(D)
  <2> HIDE DEF D
  <2> QED BY <1>1, FS_Subset DEF IsSapDatabase
<1>3. IsFiniteSet(held)
  <2> DEFINE f == [w \in D |-> db.stock[w]]
  <2>1. f \in Surjection(D, held)
    <3> HIDE DEF D
    <3> QED BY DEF Surjection
  <2> HIDE DEF f, held, D
  <2> QED BY <1>2, <2>1, FS_Surjection
<1>4. held \subseteq Int \cup {Null}
  <2> HIDE DEF D
  <2> QED BY <1>1 DEF IsSapDatabase
<1>5. row.stock = IF Known(held) = {} THEN Null ELSE Min(Known(held))
  BY DEF Stock
<1>6. \A k : k \in Known(held) <=> \E c \in has : k = db.stock[<<c, q.warehouse>>]
  <2>1. \A k : k \in Known(held) <=> \E w \in D : k = db.stock[w] /\ k # Null
    <3> HIDE DEF D
    <3> QED BY DEF Known
  <2>2. ASSUME NEW w \in D
        PROVE  \E c \in A : w = <<c, q.warehouse>> /\ <<c, q.warehouse>> \in DOMAIN db.stock
    <3>1. w \in A \X {q.warehouse} /\ w \in DOMAIN db.stock
      OBVIOUS
    <3> HIDE DEF A, D
    <3>2. PICK c \in A : w = <<c, q.warehouse>>
      BY <3>1
    <3> QED BY <3>1, <3>2
  <2>3. ASSUME NEW c \in A, <<c, q.warehouse>> \in DOMAIN db.stock
        PROVE  <<c, q.warehouse>> \in D
    <3> HIDE DEF A
    <3> QED BY <2>3
  <2>4. ASSUME NEW k \in Known(held)
        PROVE  \E c \in has : k = db.stock[<<c, q.warehouse>>]
    <3>1. PICK w \in D : k = db.stock[w] /\ k # Null
      BY <2>1
    <3>2. PICK c \in A : w = <<c, q.warehouse>> /\ <<c, q.warehouse>> \in DOMAIN db.stock
      BY <2>2
    <3> HIDE DEF A, D, held
    <3> QED BY <3>1, <3>2
  <2>5. ASSUME NEW c \in has
        PROVE  db.stock[<<c, q.warehouse>>] \in Known(held)
    <3>1. c \in A /\ <<c, q.warehouse>> \in DOMAIN db.stock /\ db.stock[<<c, q.warehouse>>] # Null
      OBVIOUS
    <3>2. <<c, q.warehouse>> \in D
      BY <2>3, <3>1
    <3> HIDE DEF A, D, held
    <3> QED BY <2>1, <3>1, <3>2
  <2> HIDE DEF held, has
  <2> QED BY <2>4, <2>5
<1>7. StockOwed(db, q, row) <=>
        IF has = {} THEN row.stock = Null
        ELSE /\ \E c \in has : row.stock = db.stock[<<c, q.warehouse>>]
             /\ \A c \in has : row.stock <= db.stock[<<c, q.warehouse>>]
  BY DEF StockOwed
<1> HIDE DEF held, has, D, A
<1>8. CASE Known(held) = {}
  BY <1>5, <1>6, <1>7, <1>8
<1>9. CASE Known(held) # {}
  <2>1. Known(held) \subseteq Int /\ IsFiniteSet(Known(held))
    <3>1. Known(held) \subseteq held /\ Known(held) \subseteq Int
      BY <1>4 DEF Known
    <3> QED BY <1>3, <3>1, FS_Subset
  <2>2. row.stock \in Known(held) /\ \A k \in Known(held) : row.stock <= k
    BY <1>5, <1>9, <2>1, MinAndMax
  <2>3. has # {}
    BY <1>6, <1>9
  <2> QED BY <1>6, <1>7, <2>2, <2>3
<1> QED BY <1>8, <1>9

\* The cascade of the final SELECT gives every source its turn.
LEMMA SourcesInTurn ==
  ASSUME NEW db, NEW q, NEW i, NEW special, NEW promo, Found(db, q, i, special, promo),
         NEW row, row = Row(db, q, i, special, promo),
         NEW R, R = WithPct(AllDiscountRules(db, q, i))
  PROVE  InTurn(db, q, R, row)
<1>1. PICK best : best = BestDiscount(BpDiscountMode(db, q), AllDiscountRules(db, q, i))
  OBVIOUS
<1>2. PICK k \in 1..5 :
        /\ PriceSource(special, best, promo) = Sources[k]
        /\ Offers(Sources[k], special, best, promo)
        /\ \A j \in 1..5 : j < k => ~ Offers(Sources[j], special, best, promo)
  BY SourceIsFirst
<1>3. /\ row.sku = i /\ row.source = Sources[k]
      /\ row.osppPrice = special.price /\ row.osppDiscount = special.discount
      /\ row.promoDiscount = promo.pct
      /\ Sources[k] = "promo" => row.oedgType = promo.type
  BY <1>1, <1>2 DEF Row
<1>4. /\ Sources[1] = "special_price" /\ Sources[2] = "special_discount"
      /\ Sources[3] = "discount_groups" /\ Sources[4] = "promo"
      /\ Sources[5] = "base_price_list"
  BY DEF Sources
<1>5. k = 1 \/ k = 2 \/ k = 3 \/ k = 4 \/ k = 5
  OBVIOUS
<1>6. /\ Sources[k] = "special_price" => k = 1
      /\ Sources[k] = "special_discount" => k = 2
      /\ Sources[k] = "discount_groups" => k = 3
      /\ Sources[k] = "promo" => k = 4
      /\ Sources[k] = "base_price_list" => k = 5
  BY <1>4, <1>5
<1>7. /\ k > 1 => ~ Offers("special_price", special, best, promo)
      /\ k > 2 => ~ Offers("special_discount", special, best, promo)
      /\ k > 3 => ~ Offers("discount_groups", special, best, promo)
      /\ k > 4 => ~ Offers("promo", special, best, promo)
  <2>1. \A j \in 1..4 : k > j => ~ Offers(Sources[j], special, best, promo)
    <3>1. \A j \in 1..4 : j \in 1..5 /\ (k > j => j < k)
      OBVIOUS
    <3> QED BY <1>2, <3>1
  <2>2. 1 \in 1..4 /\ 2 \in 1..4 /\ 3 \in 1..4 /\ 4 \in 1..4
    OBVIOUS
  <2> QED BY <1>4, <2>1, <2>2
<1>8. /\ k > 1 => (special.price = Null \/ ~(special.price > 0))
      /\ k > 2 => special.discount = Null
      /\ k > 3 => best = Null
      /\ k > 4 => promo.pct = Null
  BY <1>7 DEF Offers
<1>9. ASSUME row.source \in {"special_price", "special_discount"}
      PROVE  \E s \in SpecialPrice(db, q, i) :
               s.price = row.osppPrice /\ s.discount = row.osppDiscount
  <2>1. special.price # Null \/ special.discount # Null
    <3>1. k = 1 \/ k = 2
      BY <1>3, <1>6, <1>9
    <3> QED BY <1>2, <1>4, <3>1 DEF Offers
  <2>2. special # NoSpecial
    BY <2>1 DEF NoSpecial
  <2>3. special \in SpecialPrice(db, q, i)
    BY <2>2 DEF Found, LeftJoined
  <2> QED BY <1>3, <2>3
<1>10. ASSUME row.source \in {"discount_groups", "promo", "base_price_list"},
              SpecialPrice(db, q, i) # {}
       PROVE  \E s \in SpecialPrice(db, q, i) :
                s.discount = Null /\ (s.price = Null \/ s.price <= 0)
  <2>1. k > 1 /\ k > 2
    BY <1>3, <1>6, <1>10
  <2>2. special \in SpecialPrice(db, q, i)
    BY <1>10 DEF Found, LeftJoined
  <2>3. special \in db.specials
    BY <2>2 DEF SpecialPrice
  <2>4. special.price = Null \/ special.price \in Int
    BY <2>3 DEF Found, IsSapDatabase
  <2>5. special.price = Null \/ special.price <= 0
    BY <1>8, <2>1, <2>4
  <2>6. special.discount = Null /\ (special.price = Null \/ special.price <= 0)
    BY <1>8, <2>1, <2>5
  <2> WITNESS special \in SpecialPrice(db, q, i)
  <2> QED BY <2>6
<1>11. ASSUME row.source \in {"promo", "base_price_list"}
       PROVE  R = {}
  <2>1. best = Null
    BY <1>3, <1>6, <1>8, <1>11
  <2> QED BY <1>1, <2>1, RulesOfItem, BestIsPromised DEF Found
<1>12. ASSUME row.source = "promo"
       PROVE  \E e \in PromoDiscount(db, q, i) :
                e.pct = row.promoDiscount /\ e.type = row.oedgType
  <2>1. promo.pct # Null
    <3>1. k = 4
      BY <1>3, <1>6, <1>12
    <3> QED BY <1>2, <1>4, <3>1 DEF Offers
  <2>2. promo # NoPromo
    BY <2>1 DEF NoPromo
  <2>3. promo \in PromoDiscount(db, q, i)
    BY <2>2 DEF Found, LeftJoined
  <2> QED BY <1>3, <1>12, <2>3
<1>13. ASSUME row.source = "base_price_list", PromoDiscount(db, q, i) # {}
       PROVE  \E e \in PromoDiscount(db, q, i) : e.pct = Null
  <2>1. promo.pct = Null
    BY <1>3, <1>6, <1>8, <1>13
  <2>2. promo \in PromoDiscount(db, q, i)
    BY <1>13 DEF Found, LeftJoined
  <2> QED BY <2>1, <2>2
<1> QED BY <1>3, <1>9, <1>10, <1>11, <1>12, <1>13 DEF InTurn

\* What Owed asks of a discount of the groups.
GroupsOwe(db, q, i, R, row) ==
  /\ Promised(BpDiscountMode(db, q), R, row.bpGroupDiscount)
  /\ BpDiscountMode(db, q) \in {"H", "L"} /\ R = AllDiscountRules(db, q, i) =>
       \E e \in R : e.type = row.oedgType /\ e.pct = row.bpGroupDiscount

\* A discount of the groups is what the mode promises, of a rule of the type
\* that the row names.
LEMMA GroupDiscountIsPromised ==
  ASSUME NEW db, NEW q, NEW i, NEW special, NEW promo, Found(db, q, i, special, promo),
         NEW row, row = Row(db, q, i, special, promo), row.source = "discount_groups",
         NEW R, R = WithPct(AllDiscountRules(db, q, i)), R # {}
  PROVE  GroupsOwe(db, q, i, R, row)
<1>1. PICK mode : mode = BpDiscountMode(db, q)
  OBVIOUS
<1>2. PICK rules : rules = AllDiscountRules(db, q, i)
  OBVIOUS
<1>3. row.bpGroupDiscount = BestDiscount(mode, rules)
  BY <1>1, <1>2 DEF Row
<1>4. row.oedgType = DiscountRuleType(mode, rules)
  <2>1. PICK source : source = PriceSource(special, BestDiscount(mode, rules), promo)
    OBVIOUS
  <2>2. source = "discount_groups"
    BY <1>1, <1>2, <2>1 DEF Row
  <2> QED BY <1>1, <1>2, <2>1, <2>2 DEF Row
<1>5. SapRules(rules)
  BY <1>2, RulesOfItem DEF Found
<1>6. Promised(mode, R, BestDiscount(mode, rules))
  BY <1>2, <1>5, BestIsPromised
<1>7. ASSUME mode \in {"H", "L"}, R = rules
      PROVE  \E e \in R : e.type = row.oedgType /\ e.pct = row.bpGroupDiscount
  <2>1. WithPct(rules) = rules /\ rules # {}
    BY <1>2, <1>7
  <2>2. PICK e \in rules : /\ e.type = DiscountRuleType(mode, rules)
                          /\ e.pct = BestDiscount(mode, rules)
    BY <1>5, <1>7, <2>1, TypeIsOfBestRule
  <2> QED BY <1>3, <1>4, <1>7, <2>2
<1> QED BY <1>1, <1>2, <1>3, <1>6, <1>7 DEF GroupsOwe

\* The items with a base price are those on the customer's price list, and the
\* base price is the one it has there.
LEMMA BasePriceIsListed ==
  ASSUME NEW db, NEW q, IsSapDatabase(db)
  PROVE  /\ DOMAIN BasePrice(db, q) = ListPriced(db, q)
         /\ \A i \in DOMAIN BasePrice(db, q) : BasePrice(db, q)[i] \in ListPrices(db, q, i)
<1> DEFINE B == {i \in q.skus \cap DOMAIN db.items :
                   \E c \in Customers(db, q) : <<i, c.list>> \in DOMAIN db.prices}
<1>1. DOMAIN BasePrice(db, q) = B
  BY DEF BasePrice
<1>2. \A i, p : p \in ListPrices(db, q, i) <=>
        \E c \in Customers(db, q) : <<i, c.list>> \in DOMAIN db.prices /\ p = db.prices[<<i, c.list>>]
  BY DEF ListPrices, Customers
<1>3. B = ListPriced(db, q)
  BY <1>2 DEF ListPriced
<1>4. ASSUME NEW i \in B
      PROVE  BasePrice(db, q)[i] \in ListPrices(db, q, i)
  <2>1. PICK c \in Customers(db, q) : <<i, c.list>> \in DOMAIN db.prices
    OBVIOUS
  <2>2. \A d \in Customers(db, q) : d = c
    BY <2>1 DEF Customers, IsSapDatabase
  <2>3. Customer(db, q) = c
    BY <2>1, <2>2 DEF Customer
  <2>4. BasePrice(db, q)[i] = db.prices[<<i, c.list>>]
    BY <2>3 DEF BasePrice
  <2> QED BY <1>2, <2>1, <2>4
<1> QED BY <1>1, <1>3, <1>4

\* Every row that the joins make is what its item owes the reader.
LEMMA RowIsOwed ==
  ASSUME NEW db, NEW q, NEW i, NEW special, NEW promo, Found(db, q, i, special, promo)
  PROVE  Owed(db, q, Row(db, q, i, special, promo))
<1>1. PICK row : row = Row(db, q, i, special, promo)
  OBVIOUS
<1>2. row.sku = i /\ row.stock = Stock(db, q, i) /\ row.listPrice = BasePrice(db, q)[i]
  BY <1>1 DEF Row
<1>3. PICK R : R = WithPct(AllDiscountRules(db, q, i))
  OBVIOUS
<1>4. {e \in db.rules : CountsFor(db, q, row.sku, e)} = R
  BY <1>2, <1>3, RulesOfItem DEF Found
<1>5. /\ row.sku \in ListPriced(db, q) /\ row.listPrice \in ListPrices(db, q, row.sku)
      /\ Explained(row)
  <2>1. i \in ListPriced(db, q) /\ BasePrice(db, q)[i] \in ListPrices(db, q, i)
    BY BasePriceIsListed DEF Found
  <2> QED BY <1>1, <1>2, <2>1, RowIsExplained
<1>6. InTurn(db, q, R, row)
  BY <1>1, <1>3, SourcesInTurn
<1>7. ASSUME row.source = "discount_groups", R # {}
      PROVE  GroupsOwe(db, q, i, R, row)
  BY <1>1, <1>3, <1>7, GroupDiscountIsPromised
<1>8. StockOwed(db, q, row)
  BY <1>2, StockIsScarcest DEF Found
<1>9. Owed(db, q, row)
  BY <1>2, <1>4, <1>5, <1>6, <1>7, <1>8 DEF Owed, GroupsOwe
<1> QED BY <1>1, <1>9

-----------------------------------------------------------------------------
(* The result of the statement.                                            *)

\* A listing of all of S, once each, by item.
Listing(l, n, S) == l \in Bijection(1..n, S) /\ Ordered(l)

\* One more, that no item of the list comes after, can be listed last.
LEMMA ListedLast ==
  ASSUME NEW n \in Nat, NEW Y, NEW l, Listing(l, n, Y), NEW x, x \notin Y, x[1] \in Int,
         \A y \in Y : y[1] \in Int /\ y[1] <= x[1]
  PROVE  \E m : Listing(m, n + 1, Y \cup {x})
<1> DEFINE m == [k \in 1..(n + 1) |-> IF k <= n THEN l[k] ELSE x]
<1>1. /\ l \in [1..n -> Y] /\ \A j, k \in 1..n : l[j] = l[k] => j = k
      /\ \A y \in Y : \E k \in 1..n : l[k] = y
  BY DEF Listing, Bijection, Injection, Surjection, IsInjective
<1>2. \A j, k \in 1..n : j < k => l[j][1] <= l[k][1]
  BY <1>1 DEF Listing, Ordered
<1>3. \A k \in 1..n : k \in 1..(n + 1) /\ m[k] = l[k] /\ l[k] \in Y
  BY <1>1
<1>4. n + 1 \in 1..(n + 1) /\ m[n + 1] = x
  OBVIOUS
<1>5. \A k \in 1..(n + 1) : k \in 1..n \/ k = n + 1
  OBVIOUS
<1>6. m \in [1..(n + 1) -> Y \cup {x}]
  BY <1>1
<1> HIDE DEF m
<1>7. ASSUME NEW j \in 1..(n + 1), NEW k \in 1..(n + 1), m[j] = m[k]
      PROVE  j = k
  BY <1>1, <1>3, <1>4, <1>5, <1>7
<1>8. ASSUME NEW y \in Y \cup {x}
      PROVE  \E k \in 1..(n + 1) : m[k] = y
  BY <1>1, <1>3, <1>4
<1>9. ASSUME NEW j \in 1..(n + 1), NEW k \in 1..(n + 1), j < k
      PROVE  m[j][1] <= m[k][1]
  <2>1. j \in 1..n
    BY <1>9
  <2>2. CASE k \in 1..n
    BY <1>2, <1>3, <1>9, <2>1, <2>2
  <2>3. CASE k = n + 1
    BY <1>3, <1>4, <2>1, <2>3
  <2> QED BY <1>5, <2>2, <2>3
<1>10. DOMAIN m = 1..(n + 1)
  BY <1>6
<1>11. IsInjective(m) /\ Ordered(m)
  BY <1>7, <1>9, <1>10 DEF IsInjective, Ordered
<1>12. Listing(m, n + 1, Y \cup {x})
  BY <1>6, <1>8, <1>11 DEF Listing, Bijection, Injection, Surjection
<1> QED BY <1>12

\* A finite table can be listed by item.
LEMMA ListingExists ==
  ASSUME NEW S, IsFiniteSet(S), \A x \in S : x[1] \in Int
  PROVE  \E l : Listing(l, Cardinality(S), S)
<1> DEFINE T == {n \in Nat : \A X \in SUBSET S : Cardinality(X) = n => \E l : Listing(l, n, X)}
<1>0. ASSUME NEW X \in SUBSET S
      PROVE  IsFiniteSet(X) /\ Cardinality(X) \in Nat
  BY FS_Subset, FS_CardinalityType
<1>1. 0 \in T
  <2> SUFFICES ASSUME NEW X \in SUBSET S, Cardinality(X) = 0
               PROVE  \E l : Listing(l, 0, X)
    OBVIOUS
  <2>1. X = {}
    BY <1>0, FS_EmptySet
  <2> DEFINE l == [k \in 1..0 |-> k]
  <2>2. l \in [1..0 -> {}] /\ DOMAIN l = {}
    OBVIOUS
  <2>3. IsInjective(l) /\ Ordered(l)
    BY <2>2 DEF IsInjective, Ordered
  <2>4. Listing(l, 0, X)
    BY <2>1, <2>2, <2>3 DEF Listing, Bijection, Injection, Surjection
  <2> QED BY <2>4
<1>2. ASSUME NEW n \in Nat, n \in T
      PROVE  n + 1 \in T
  <2> SUFFICES ASSUME NEW X \in SUBSET S, Cardinality(X) = n + 1
               PROVE  \E l : Listing(l, n + 1, X)
    OBVIOUS
  <2> DEFINE keys == {x[1] : x \in X}
  <2>1. keys \subseteq Int /\ keys # {} /\ IsFiniteSet(keys)
    <3>1. X # {}
      <4>1. n + 1 # 0
        OBVIOUS
      <4> QED BY <4>1, FS_EmptySet
    <3> DEFINE f == [x \in X |-> x[1]]
    <3>2. f \in Surjection(X, keys)
      BY DEF Surjection
    <3>3. IsFiniteSet(keys)
      <4> HIDE DEF f, keys
      <4> QED BY <1>0, <3>2, FS_Surjection
    <3> QED BY <3>1, <3>3
  <2>2. PICK high \in keys : \A k \in keys : k <= high
    <3> HIDE DEF keys
    <3> QED BY <2>1, Extremes
  <2>3. PICK x \in X : x[1] = high
    BY <2>2
  <2> DEFINE Y == X \ {x}
  <2>4. \A y \in Y : y[1] \in Int /\ y[1] <= x[1]
    BY <2>2, <2>3
  <2>5. Y \in SUBSET S /\ Cardinality(Y) = n
    <3>1. IsFiniteSet(X) /\ x \in X
      BY <1>0
    <3>2. Cardinality(Y) = Cardinality(X) - 1
      BY <3>1, FS_RemoveElement
    <3> QED BY <3>2
  <2>6. PICK l : Listing(l, n, Y)
    <3> HIDE DEF Y
    <3> QED BY <1>2, <2>5
  <2>7. x \notin Y /\ x[1] \in Int /\ Y \cup {x} = X
    OBVIOUS
  <2> HIDE DEF Y
  <2> QED BY <2>4, <2>6, <2>7, ListedLast
<1>3. Cardinality(S) \in T
  <2>1. Cardinality(S) \in Nat
    BY FS_CardinalityType
  <2> HIDE DEF T
  <2> QED BY <1>1, <1>2, <2>1, Induction
<1> QED BY <1>3

\* The three tables a row is joined from make finitely many rows.
LEMMA JoinIsFinite ==
  ASSUME NEW A, IsFiniteSet(A), NEW B, IsFiniteSet(B), NEW C, IsFiniteSet(C)
  PROVE  IsFiniteSet(A \X B \X C)
<1> DEFINE P == (A \X B) \X C
           f == [p \in P |-> <<p[1][1], p[1][2], p[2]>>]
<1>1. IsFiniteSet(P)
  <2>1. IsFiniteSet(A \X B)
    BY FS_Product
  <2> QED BY <2>1, FS_Product
<1>2. f \in [P -> A \X B \X C]
  OBVIOUS
<1>3. ASSUME NEW a \in A, NEW b \in B, NEW c \in C
      PROVE  \E p \in P : f[p] = <<a, b, c>>
  <2>1. << <<a, b>>, c >> \in P /\ f[<< <<a, b>>, c >>] = <<a, b, c>>
    OBVIOUS
  <2> QED BY <2>1
<1>4. ASSUME NEW t \in A \X B \X C
      PROVE  \E p \in P : f[p] = t
  <2>1. PICK a \in A, b \in B, c \in C : t = <<a, b, c>>
    OBVIOUS
  <2> HIDE DEF f, P
  <2> QED BY <1>3, <2>1
<1>5. f \in Surjection(P, A \X B \X C)
  <2> HIDE DEF f, P
  <2> QED BY <1>2, <1>4 DEF Surjection
<1> HIDE DEF f, P
<1> QED BY <1>1, <1>5, FS_Surjection

\* What the joins of an SAP database make.
LEMMA WhatIsJoined ==
  ASSUME NEW db, NEW q, Null \notin Int, IsSapDatabase(db)
  PROVE  /\ IsFiniteSet(Joined(db, q))
         /\ \A x \in Joined(db, q) : x[1] \in Int /\ Found(db, q, x[1], x[2], x[3])
         /\ \A i \in DOMAIN BasePrice(db, q) : \E x \in Joined(db, q) : x[1] = i
<1> DEFINE S(i) == LeftJoined(SpecialPrice(db, q, i), NoSpecial)
           P(i) == LeftJoined(PromoDiscount(db, q, i), NoPromo)
           D == DOMAIN BasePrice(db, q)
<1>1. D \subseteq DOMAIN db.items
  BY DEF BasePrice
<1>2. \A x : x \in Joined(db, q) <=> \E i \in D : x \in {i} \X S(i) \X P(i)
  BY DEF Joined
<1>3. IsFiniteSet(Joined(db, q))
  <2> DEFINE A == DOMAIN db.items
             B == db.specials \cup {NoSpecial}
             C == db.rules \cup {NoPromo}
  <2>1. Joined(db, q) \subseteq A \X B \X C
    <3>1. ASSUME NEW i
          PROVE  S(i) \subseteq B /\ P(i) \subseteq C
      BY DEF LeftJoined, SpecialPrice, PromoDiscount
    <3> SUFFICES ASSUME NEW x \in Joined(db, q) PROVE x \in A \X B \X C
      OBVIOUS
    <3>2. PICK i \in D : x \in {i} \X S(i) \X P(i)
      BY <1>2
    <3>3. i \in A /\ S(i) \subseteq B /\ P(i) \subseteq C
      BY <1>1, <3>1
    <3> HIDE DEF S, P, D, A, B, C
    <3> QED BY <3>2, <3>3
  <2>2. IsFiniteSet(A \X B \X C)
    <3>1. IsFiniteSet(A) /\ IsFiniteSet(B) /\ IsFiniteSet(C)
      BY FS_AddElement DEF IsSapDatabase
    <3> HIDE DEF A, B, C
    <3> QED BY <3>1, JoinIsFinite
  <2> HIDE DEF A, B, C
  <2> QED BY <2>1, <2>2, FS_Subset
<1>4. ASSUME NEW x \in Joined(db, q)
      PROVE  x[1] \in Int /\ Found(db, q, x[1], x[2], x[3])
  <2>1. PICK i \in D : x \in {i} \X S(i) \X P(i)
    BY <1>2
  <2>2. x[1] = i /\ x[2] \in S(i) /\ x[3] \in P(i)
    <3> HIDE DEF S, P
    <3> QED BY <2>1
  <2>3. i \in Int
    BY <1>1 DEF IsSapDatabase
  <2> QED BY <2>2, <2>3 DEF Found
<1>5. ASSUME NEW i \in D
      PROVE  \E x \in Joined(db, q) : x[1] = i
  <2>1. S(i) # {} /\ P(i) # {}
    BY DEF LeftJoined
  <2>2. PICK s \in S(i), p \in P(i) : TRUE
    BY <2>1
  <2> HIDE DEF S, P, D
  <2>3. <<i, s, p>> \in Joined(db, q)
    BY <1>2, <2>2
  <2> QED BY <2>3
<1> QED BY <1>3, <1>4, <1>5

\* What a reader relies on in the result of SAP's statement.
ResultIsOwed(db, q, rows) ==
  /\ \A k \in DOMAIN rows : Owed(db, q, rows[k])
  /\ \A j, k \in DOMAIN rows : j < k => rows[j].sku <= rows[k].sku
  /\ {rows[k].sku : k \in DOMAIN rows} = ListPriced(db, q)

\* For every SAP database and every request, each row of the result of the
\* one SQL statement is what the price list, special prices, discount groups
\* and promotions owe the customer; the rows come in the order of their item
\* codes, one or more for every SKU asked for that is on the customer's price
\* list and none for any other.
THEOREM SapStatementIsRight ==
  ASSUME NEW db, NEW q, Null \notin Int, IsSapDatabase(db)
  PROVE  ResultIsOwed(db, q, SapRows(db, q))
<1> DEFINE J == Joined(db, q)
           N == Cardinality(J)
           l == CHOOSE l \in Bijection(1..N, J) : Ordered(l)
<1>1. PICK rows : rows = SapRows(db, q)
  OBVIOUS
<1>2. /\ l \in [1..N -> J] /\ Ordered(l)
      /\ \A x \in J : \E k \in 1..N : l[k] = x
  <2>1. \E m \in Bijection(1..N, J) : Ordered(m)
    BY WhatIsJoined, ListingExists DEF Listing
  <2>2. l \in Bijection(1..N, J) /\ Ordered(l)
    BY <2>1
  <2> HIDE DEF l
  <2> QED BY <2>2 DEF Bijection, Surjection
<1>3. rows = [k \in 1..N |-> Row(db, q, l[k][1], l[k][2], l[k][3])]
  BY <1>1 DEF SapRows
<1> HIDE DEF l, N, J
<1>4. DOMAIN rows = 1..N
  BY <1>3
<1>5. ASSUME NEW k \in 1..N
      PROVE  /\ rows[k] = Row(db, q, l[k][1], l[k][2], l[k][3])
             /\ rows[k].sku = l[k][1]
             /\ Found(db, q, l[k][1], l[k][2], l[k][3])
  <2>1. rows[k] = Row(db, q, l[k][1], l[k][2], l[k][3])
    BY <1>3
  <2>2. rows[k].sku = l[k][1]
    BY <2>1 DEF Row
  <2>3. l[k] \in J
    BY <1>2
  <2> QED BY <2>1, <2>2, <2>3, WhatIsJoined DEF J
<1>6. \A k \in DOMAIN rows : Owed(db, q, rows[k])
  <2> SUFFICES ASSUME NEW k \in 1..N PROVE Owed(db, q, rows[k])
    BY <1>4
  <2> QED BY <1>5, RowIsOwed
<1>7. \A j, k \in DOMAIN rows : j < k => rows[j].sku <= rows[k].sku
  <2>1. DOMAIN l = 1..N
    BY <1>2
  <2> QED BY <1>2, <1>4, <1>5, <2>1 DEF Ordered
<1>8. {rows[k].sku : k \in DOMAIN rows} = DOMAIN BasePrice(db, q)
  <2>1. ASSUME NEW k \in 1..N
        PROVE  rows[k].sku \in DOMAIN BasePrice(db, q)
    BY <1>5 DEF Found
  <2>2. ASSUME NEW i \in DOMAIN BasePrice(db, q)
        PROVE  \E k \in 1..N : rows[k].sku = i
    <3>1. PICK x \in J : x[1] = i
      BY WhatIsJoined DEF J
    <3>2. PICK k \in 1..N : l[k] = x
      BY <1>2
    <3> QED BY <1>5, <3>1, <3>2
  <2> QED BY <1>4, <2>1, <2>2
<1>9. ResultIsOwed(db, q, rows)
  BY <1>6, <1>7, <1>8, BasePriceIsListed DEF ResultIsOwed
<1> QED BY <1>1, <1>9

-----------------------------------------------------------------------------
(* SapAnswersAreOwed.                                                      *)

\* SapAnswersAreOwed holds in every state of the server: no interleaving, failure
\* or other request makes anything else of what SAP's statement returns.
THEOREM SapIsAnsweredAsOwed ==
  Spec => []SapAnswersAreOwed
<1>1. ASSUME \A r \in Requests : SapPrices(r), load \in Loads
      PROVE  SapAnswersAreOwed
  <2> SUFFICES ASSUME NEW r \in Requests,
                      Ask(r).kind = "price", load.erp = "SAP", answer[r].code = "OK",
                      Skus(r) # <<>>
               PROVE  ResultIsOwed(load.sap, SapQuery(r), answer[r].body)
    BY DEF SapAnswersAreOwed, ResultIsOwed
  <2>1. answer[r].body = SapRows(load.sap, SapQuery(r))
    BY <1>1 DEF SapPrices
  <2>2. Null \notin Int /\ IsSapDatabase(load.sap)
    BY <1>1, SapAssumption
  <2> QED BY <2>1, <2>2, SapStatementIsRight
<1>2. Spec => [](\A r \in Requests : SapPrices(r))
  BY SapPricesInductive
<1>3. ApiTypeOK => load \in Loads
  BY DEF ApiTypeOK
<1> QED BY <1>1, <1>2, <1>3, ApiTypeCorrect, PTL

-----------------------------------------------------------------------------
(* Where the fields of an import record are.                               *)

\* Every line but the unused one has a width.
LEMMA Widths ==
  \A l \in Lines : imoveInFieldLengths[l] \in Nat /\ (imoveInFieldLengths[l] = 0) = (l = 63)
<1>1. \A i \in 1..86 : WidthOfLines[i] \in Nat /\ (WidthOfLines[i] = 0) = (i = 62)
  BY DEF WidthOfLines
<1>2. ASSUME NEW l \in Lines
      PROVE  /\ l - 1 \in 1..86 /\ (l - 1 = 62) = (l = 63)
             /\ imoveInFieldLengths[l] = WidthOfLines[l - 1]
  <2> HIDE DEF WidthOfLines
  <2> QED BY DEF Lines, imoveInFieldLengths
<1> QED BY <1>1, <1>2

\* What a recursive function over 0..N is, whose values stay in Nat: the one
\* that adds a width at every step.
Sums(f, N, start, width) ==
  /\ f \in [0..N -> Nat] /\ f[0] = start
  /\ \A k \in 1..N : f[k] = f[k - 1] + width[k]

\* There is such a function.
LEMMA SumsExist ==
  ASSUME NEW N \in Nat, NEW start \in Nat, NEW width, \A k \in 1..N : width[k] \in Nat
  PROVE  \E f : Sums(f, N, start, width)
<1> DEFINE step == [n \in 1..N |-> [s \in Nat |-> s + width[n]]]
<1>1. step \in [1..N -> [Nat -> Nat]]
  OBVIOUS
<1>2. PICK g \in [0..N -> Nat] : Computes(g, N, start, step)
  <2> HIDE DEF step
  <2> QED BY <1>1, Recursion
<1>3. ASSUME NEW k \in 1..N
      PROVE  g[k] = g[k - 1] + width[k]
  <2>1. g[k] = step[k][g[k - 1]]
    <3> HIDE DEF step
    <3> QED BY <1>2 DEF Computes
  <2>2. k - 1 \in 0..N /\ g[k - 1] \in Nat
    BY <1>2
  <2> QED BY <2>1, <2>2
<1>4. g[0] = start
  BY <1>2 DEF Computes
<1>5. Sums(g, N, start, width)
  BY <1>3, <1>4 DEF Sums
<1> QED BY <1>5

\* The positions of the PRM, line after line.
LEMMA PrmPositions ==
  /\ PrmPosition[1] = 1
  /\ \A l \in 1..87 : PrmPosition[l] \in Nat
  /\ \A l \in Lines : PrmPosition[l] = PrmPosition[l - 1] + imoveInFieldLengths[l]
<1> DEFINE width == [k \in 1..86 |-> imoveInFieldLengths[k + 1]]
           Round(o) == [l \in 1..87 |->
                          IF l = 1 THEN 1 ELSE o[l - 1] + imoveInFieldLengths[l]]
<1>1. \A k \in 1..86 : width[k] \in Nat
  BY Widths DEF Lines
<1>2. PICK f : Sums(f, 86, 1, width)
  <2> HIDE DEF width
  <2> QED BY <1>1, SumsExist
<1> DEFINE g == [l \in 1..87 |-> f[l - 1]]
<1>3. g = Round(g)
  <2>1. ASSUME NEW l \in 1..87
        PROVE  g[l] = Round(g)[l]
    <3>1. CASE l = 1
      BY <1>2, <3>1 DEF Sums
    <3>2. CASE l # 1
      <4>1. l - 1 \in 1..86 /\ l - 1 \in 1..87 /\ (l - 1) + 1 = l
        BY <3>2
      <4>2. f[l - 1] = f[(l - 1) - 1] + width[l - 1]
        BY <1>2, <4>1 DEF Sums
      <4>3. width[l - 1] = imoveInFieldLengths[l]
        BY <4>1
      <4>4. g[l] = f[l - 1] /\ g[l - 1] = f[(l - 1) - 1]
        BY <4>1
      <4> HIDE DEF g, width
      <4> QED BY <3>2, <4>2, <4>3, <4>4
    <3> QED BY <3>1, <3>2
  <2> DEFINE h == Round(g) D == 1..87
  <2>2. g = [l \in D |-> g[l]] /\ h = [l \in D |-> h[l]]
    OBVIOUS
  <2>3. \A l \in D : g[l] = h[l]
    <3> HIDE DEF g, Round
    <3> QED BY <2>1
  <2> HIDE DEF g, h, D
  <2>4. g = h
    BY <2>2, <2>3, SameFunction
  <2> QED BY <2>4 DEF h
<1>4. PrmPosition = Round(PrmPosition)
  <2>1. PrmPosition = CHOOSE o : o = Round(o)
    BY DEF PrmPosition
  <2> HIDE DEF g, Round
  <2> QED BY <1>3, <2>1
<1>5. /\ PrmPosition[1] = 1
      /\ \A l \in Lines : PrmPosition[l] = PrmPosition[l - 1] + imoveInFieldLengths[l]
  BY <1>4 DEF Lines
<1>6. \A k \in 0..86 : PrmPosition[k + 1] \in Nat
  <2> DEFINE u == [k \in 0..86 |-> PrmPosition[k + 1]]
  <2>1. u[0] \in Nat
    BY <1>5
  <2>2. ASSUME NEW n \in 1..86, u[n - 1] \in Nat
        PROVE  u[n] \in Nat
    <3>1. n + 1 \in Lines /\ (n + 1) - 1 = n /\ n - 1 \in 0..86 /\ (n - 1) + 1 = n
      BY DEF Lines
    <3>2. PrmPosition[n + 1] = PrmPosition[n] + imoveInFieldLengths[n + 1]
      BY <1>5, <3>1
    <3>3. imoveInFieldLengths[n + 1] \in Nat /\ PrmPosition[n] \in Nat
      BY <2>2, <3>1, Widths
    <3> QED BY <3>2, <3>3
  <2>3. \A n \in 0..86 : u[n] \in Nat
    <3> HIDE DEF u
    <3> QED BY <2>1, <2>2, LoopStaysIn
  <2> QED BY <2>3
<1>7. ASSUME NEW l \in 1..87
      PROVE  PrmPosition[l] \in Nat
  <2>1. l - 1 \in 0..86 /\ (l - 1) + 1 = l
    OBVIOUS
  <2> QED BY <1>6, <2>1
<1> QED BY <1>5, <1>7

\* The record ends after byte 2891: the widths added up.
LEMMA RecordLength ==
  PrmPosition[87] = 2892
<1>0. /\ PrmPosition[1] = 1
      /\ \A l \in 2..87 : PrmPosition[l] = PrmPosition[l - 1] + WidthOfLines[l - 1]
  BY PrmPositions DEF Lines, imoveInFieldLengths
<1>1. /\ PrmPosition[2] = 16 /\ PrmPosition[3] = 25 /\ PrmPosition[4] = 27
      /\ PrmPosition[5] = 77 /\ PrmPosition[6] = 127 /\ PrmPosition[7] = 177
      /\ PrmPosition[8] = 186 /\ PrmPosition[9] = 196 /\ PrmPosition[10] = 206
  BY <1>0 DEF WidthOfLines
<1>2. /\ PrmPosition[11] = 215 /\ PrmPosition[12] = 224 /\ PrmPosition[13] = 474
      /\ PrmPosition[14] = 483 /\ PrmPosition[15] = 492 /\ PrmPosition[16] = 493
      /\ PrmPosition[17] = 498 /\ PrmPosition[18] = 503 /\ PrmPosition[19] = 505
  BY <1>0, <1>1 DEF WidthOfLines
<1>3. /\ PrmPosition[20] = 509 /\ PrmPosition[21] = 519 /\ PrmPosition[22] = 539
      /\ PrmPosition[23] = 549 /\ PrmPosition[24] = 559 /\ PrmPosition[25] = 563
      /\ PrmPosition[26] = 568 /\ PrmPosition[27] = 578 /\ PrmPosition[28] = 678
  BY <1>0, <1>2 DEF WidthOfLines
<1>4. /\ PrmPosition[29] = 683 /\ PrmPosition[30] = 689 /\ PrmPosition[31] = 709
      /\ PrmPosition[32] = 714 /\ PrmPosition[33] = 724 /\ PrmPosition[34] = 725
      /\ PrmPosition[35] = 755 /\ PrmPosition[36] = 765 /\ PrmPosition[37] = 1015
  BY <1>0, <1>3 DEF WidthOfLines
<1>5. /\ PrmPosition[38] = 1024 /\ PrmPosition[39] = 1032 /\ PrmPosition[40] = 1042
      /\ PrmPosition[41] = 1062 /\ PrmPosition[42] = 1082 /\ PrmPosition[43] = 1092
      /\ PrmPosition[44] = 1112 /\ PrmPosition[45] = 1162 /\ PrmPosition[46] = 1212
  BY <1>0, <1>4 DEF WidthOfLines
<1>6. /\ PrmPosition[47] = 1262 /\ PrmPosition[48] = 1312 /\ PrmPosition[49] = 1362
      /\ PrmPosition[50] = 1375 /\ PrmPosition[51] = 1388 /\ PrmPosition[52] = 1401
      /\ PrmPosition[53] = 1410 /\ PrmPosition[54] = 1419 /\ PrmPosition[55] = 1428
  BY <1>0, <1>5 DEF WidthOfLines
<1>7. /\ PrmPosition[56] = 1478 /\ PrmPosition[57] = 1528 /\ PrmPosition[58] = 1541
      /\ PrmPosition[59] = 1554 /\ PrmPosition[60] = 1563 /\ PrmPosition[61] = 1572
      /\ PrmPosition[62] = 1622 /\ PrmPosition[63] = 1622 /\ PrmPosition[64] = 1722
  BY <1>0, <1>6 DEF WidthOfLines
<1>8. /\ PrmPosition[65] = 1822 /\ PrmPosition[66] = 1872 /\ PrmPosition[67] = 1880
      /\ PrmPosition[68] = 1980 /\ PrmPosition[69] = 1995 /\ PrmPosition[70] = 2005
      /\ PrmPosition[71] = 2025 /\ PrmPosition[72] = 2034 /\ PrmPosition[73] = 2039
  BY <1>0, <1>7 DEF WidthOfLines
<1>9. /\ PrmPosition[74] = 2289 /\ PrmPosition[75] = 2539 /\ PrmPosition[76] = 2542
      /\ PrmPosition[77] = 2545 /\ PrmPosition[78] = 2550 /\ PrmPosition[79] = 2560
      /\ PrmPosition[80] = 2570 /\ PrmPosition[81] = 2583 /\ PrmPosition[82] = 2596
  BY <1>0, <1>8 DEF WidthOfLines
<1>10. /\ PrmPosition[83] = 2606 /\ PrmPosition[84] = 2616 /\ PrmPosition[85] = 2629
      /\ PrmPosition[86] = 2642 /\ PrmPosition[87] = 2892
  BY <1>0, <1>9 DEF WidthOfLines
<1> QED BY <1>10

\* The fields of a record end where the PRM lets their lines end.
LEMMA DocPositions ==
  /\ \A k \in 1..85 : Written[k] \in Lines \ {63}
  /\ \A k \in 0..85 : DocPosition[k] \in Nat
  /\ \A k \in 1..85 : /\ DocPosition[k - 1] + 1 = PrmPosition[Written[k] - 1]
                      /\ DocPosition[k] = PrmPosition[Written[k]] - 1
<1> DEFINE width == [k \in 1..85 |-> imoveInFieldLengths[Written[k]]]
           Round(o) == [k \in 0..85 |->
                          IF k = 0 THEN 0 ELSE o[k - 1] + imoveInFieldLengths[Written[k]]]
<1>1. \A k \in 1..85 : Written[k] \in Lines \ {63}
  BY DEF Written, Lines
<1>2. \A k \in 1..85 : width[k] \in Nat
  BY <1>1, Widths
<1>3. PICK f : Sums(f, 85, 0, width)
  <2> HIDE DEF width
  <2> QED BY <1>2, SumsExist
<1>4. f = Round(f)
  <2>1. ASSUME NEW k \in 0..85
        PROVE  f[k] = Round(f)[k]
    <3>1. CASE k = 0
      BY <1>3, <3>1 DEF Sums
    <3>2. CASE k # 0
      <4>1. k \in 1..85
        BY <3>2
      <4>2. f[k] = f[k - 1] + width[k]
        <5> HIDE DEF width
        <5> QED BY <1>3, <4>1 DEF Sums
      <4> QED BY <3>2, <4>1, <4>2
    <3> QED BY <3>1, <3>2
  <2> DEFINE h == Round(f) D == 0..85
  <2>2. f = [k \in D |-> f[k]] /\ h = [k \in D |-> h[k]] /\ \A k \in D : f[k] = h[k]
    BY <1>3, <2>1 DEF Sums
  <2> HIDE DEF h, D
  <2>3. f = h
    BY <2>2, SameFunction
  <2> QED BY <2>3 DEF h
<1>5. DocPosition = Round(DocPosition)
  <2>1. DocPosition = CHOOSE o : o = Round(o)
    BY DEF DocPosition
  <2> HIDE DEF Round
  <2> QED BY <1>4, <2>1
<1>6. /\ DocPosition[0] = 0
      /\ \A k \in 1..85 : DocPosition[k] = DocPosition[k - 1] + imoveInFieldLengths[Written[k]]
  <2>1. DocPosition[0] = 0
    BY <1>5
  <2>2. ASSUME NEW k \in 1..85
        PROVE  DocPosition[k] = DocPosition[k - 1] + imoveInFieldLengths[Written[k]]
    <3>1. k \in 0..85 /\ k # 0
      OBVIOUS
    <3> QED BY <1>5, <3>1
  <2> QED BY <2>1, <2>2
<1> DEFINE LineOf(k) == IF k < 62 THEN k + 1 ELSE k + 2
<1>7. \A k \in 1..85 : PrmPosition[Written[k] - 1] = PrmPosition[LineOf(k - 1)]
  <2>1. PrmPosition[63] = PrmPosition[62]
    <3>1. 63 \in Lines /\ 62 \in 1..87 /\ imoveInFieldLengths[63] = 0
      BY Widths DEF Lines
    <3> QED BY <3>1, PrmPositions
  <2> SUFFICES ASSUME NEW k \in 1..85
               PROVE  PrmPosition[Written[k] - 1] = PrmPosition[LineOf(k - 1)]
    OBVIOUS
  <2>2. CASE k = 62
    <3>1. Written[k] - 1 = 63 /\ LineOf(k - 1) = 62
      BY <2>2 DEF Written
    <3> QED BY <2>1, <3>1
  <2>3. CASE k # 62
    <3>1. Written[k] - 1 = LineOf(k - 1)
      BY <2>3 DEF Written
    <3> QED BY <3>1
  <2> QED BY <2>2, <2>3
<1>8. \A k \in 1..85 : LineOf(k) = Written[k]
  BY DEF Written
<1>9. \A k \in 0..85 : DocPosition[k] = PrmPosition[LineOf(k)] - 1
  <2> DEFINE T == {n \in Nat : n <= 85 => DocPosition[n] = PrmPosition[LineOf(n)] - 1}
  <2>1. 0 \in T
    BY <1>6, PrmPositions
  <2>2. ASSUME NEW n \in Nat, n \in T
        PROVE  n + 1 \in T
    <3> SUFFICES ASSUME n + 1 <= 85
                 PROVE  DocPosition[n + 1] = PrmPosition[LineOf(n + 1)] - 1
      OBVIOUS
    <3>1. n + 1 \in 1..85 /\ (n + 1) - 1 = n
      OBVIOUS
    <3>2. PICK l : l = Written[n + 1]
      OBVIOUS
    <3>3. l \in Lines /\ l = LineOf(n + 1) /\ PrmPosition[l - 1] = PrmPosition[LineOf(n)]
      BY <1>1, <1>7, <1>8, <3>1, <3>2
    <3>4. PrmPosition[l] = PrmPosition[l - 1] + imoveInFieldLengths[l]
      BY <3>3, PrmPositions
    <3>5. /\ DocPosition[n + 1] = DocPosition[n] + imoveInFieldLengths[l]
          /\ DocPosition[n] = PrmPosition[LineOf(n)] - 1
      BY <1>6, <2>2, <3>1, <3>2
    <3>6. PrmPosition[l - 1] \in Nat /\ imoveInFieldLengths[l] \in Nat
      BY <3>3, PrmPositions, Widths DEF Lines
    <3> HIDE DEF LineOf
    <3> QED BY <3>3, <3>4, <3>5, <3>6
  <2>3. Nat \subseteq T
    <3> HIDE DEF T
    <3> QED BY <2>1, <2>2, Induction
  <2> QED BY <2>3
<1>10. ASSUME NEW k \in 0..85
       PROVE  DocPosition[k] \in Nat
  <2>1. ASSUME NEW n \in 1..85, DocPosition[n - 1] \in Nat
        PROVE  DocPosition[n] \in Nat
    <3>1. imoveInFieldLengths[Written[n]] \in Nat
      BY <1>1, Widths
    <3> QED BY <1>6, <2>1, <3>1
  <2>2. 0 \in Nat /\ 85 \in Nat /\ DocPosition[0] \in Nat
    BY <1>6
  <2>3. \A n \in 0..85 : DocPosition[n] \in Nat
    <3>1. \A n \in 1..85 : DocPosition[n - 1] \in Nat => DocPosition[n] \in Nat
      BY <2>1
    <3> QED BY <2>2, <3>1, LoopStaysIn
  <2> QED BY <2>3
<1>11. ASSUME NEW k \in 1..85
       PROVE  DocPosition[k - 1] + 1 = PrmPosition[Written[k] - 1]
  <2>1. k - 1 \in 0..85 /\ DocPosition[k - 1] \in Nat
    BY <1>10
  <2>2. DocPosition[k - 1] = PrmPosition[Written[k] - 1] - 1
    BY <1>7, <1>9, <2>1
  <2>3. Written[k] - 1 \in 1..87
    BY <1>1 DEF Lines
  <2>4. PrmPosition[Written[k] - 1] \in Nat
    BY <2>3, PrmPositions
  <2> QED BY <2>1, <2>2, <2>4
<1>12. ASSUME NEW k \in 1..85
       PROVE  DocPosition[k] = PrmPosition[Written[k]] - 1
  <2>1. k \in 0..85
    OBVIOUS
  <2> HIDE DEF LineOf
  <2> QED BY <1>8, <1>9, <2>1
<1> QED BY <1>1, <1>10, <1>11, <1>12

\* The PRM's positions never go back, and grow with every line but the unused.
LEMMA PositionsGrow ==
  ASSUME NEW l \in Lines, NEW m \in Lines \ {63}, l < m
  PROVE  PrmPosition[l] < PrmPosition[m]
<1>1. ASSUME NEW i \in Lines
      PROVE  /\ PrmPosition[i - 1] \in Nat /\ PrmPosition[i] \in Nat
             /\ PrmPosition[i - 1] <= PrmPosition[i]
             /\ i # 63 => PrmPosition[i - 1] < PrmPosition[i]
  <2>1. i - 1 \in 1..87 /\ i \in 1..87
    BY DEF Lines
  <2>2. PrmPosition[i - 1] \in Nat /\ PrmPosition[i] \in Nat
    BY <2>1, PrmPositions
  <2>3. PrmPosition[i] = PrmPosition[i - 1] + imoveInFieldLengths[i]
    BY PrmPositions
  <2>4. imoveInFieldLengths[i] \in Nat /\ (imoveInFieldLengths[i] = 0) = (i = 63)
    BY Widths
  <2> QED BY <2>2, <2>3, <2>4
<1> DEFINE T == {n \in Nat : l + n <= 87 => PrmPosition[l] <= PrmPosition[l + n]}
<1>2. 0 \in T
  BY <1>1 DEF Lines
<1>3. ASSUME NEW n \in Nat, n \in T
      PROVE  n + 1 \in T
  <2> SUFFICES ASSUME l + (n + 1) <= 87
               PROVE  PrmPosition[l] <= PrmPosition[l + (n + 1)]
    OBVIOUS
  <2>1. PICK i : i = l + (n + 1)
    OBVIOUS
  <2>2. i \in Lines /\ i - 1 = l + n /\ l + n <= 87
    BY <2>1 DEF Lines
  <2>3. PrmPosition[l] <= PrmPosition[i - 1]
    BY <1>3, <2>2
  <2>4. PrmPosition[l] \in Nat
    BY <1>1
  <2>5. PrmPosition[l] <= PrmPosition[i]
    BY <1>1, <2>2, <2>3, <2>4
  <2> QED BY <2>1, <2>5
<1>4. Nat \subseteq T
  <2> HIDE DEF T
  <2> QED BY <1>2, <1>3, Induction
<1>5. (m - 1) - l \in Nat /\ l + ((m - 1) - l) = m - 1 /\ m - 1 <= 87
  BY DEF Lines
<1>6. PrmPosition[l] <= PrmPosition[m - 1]
  BY <1>4, <1>5
<1>7. PrmPosition[l] \in Nat /\ PrmPosition[m - 1] < PrmPosition[m]
  BY <1>1
<1>8. PrmPosition[m - 1] \in Nat /\ PrmPosition[m] \in Nat
  BY <1>1
<1> QED BY <1>6, <1>7, <1>8

\* One field of the record fills the bytes that the PRM gives for a line, and
\* it is the field that buildDOCRecord writes for that line.
LEMMA FieldOfLine ==
  ASSUME NEW l \in Lines \ {63}
  PROVE  \E k \in 1..85 : Written[k] = l /\ FieldsAt[l] = {k}
<1>1. PICK k \in 1..85 : Written[k] = l
  <2>1. CASE l < 63
    <3>1. l - 1 \in 1..85 /\ Written[l - 1] = l
      BY <2>1 DEF Written, Lines
    <3> QED BY <3>1
  <2>2. CASE l > 63
    <3>1. l - 2 \in 1..85 /\ Written[l - 2] = l
      BY <2>2 DEF Written, Lines
    <3> QED BY <3>1
  <2> QED BY <2>1, <2>2 DEF Lines
<1>2. generatePRM[l] = <<PrmPosition[l - 1], PrmPosition[l] - 1>>
  <2>1. imoveInFieldLengths[l] # 0
    BY Widths
  <2> QED BY <2>1 DEF generatePRM
<1>3. <<DocPosition[k - 1] + 1, DocPosition[k]>> = generatePRM[l]
  BY <1>1, <1>2, DocPositions
<1>4. ASSUME NEW j \in 1..85, <<DocPosition[j - 1] + 1, DocPosition[j]>> = generatePRM[l]
      PROVE  j = k
  <2>1. PICK i \in Lines \ {63} : i = Written[j]
    BY DocPositions
  <2>2. PrmPosition[i] - 1 = PrmPosition[l] - 1
    BY <1>2, <1>4, <2>1, DocPositions
  <2>3. PrmPosition[i] \in Nat /\ PrmPosition[l] \in Nat
    BY PrmPositions DEF Lines
  <2>4. i = l
    <3>1. CASE i < l
      <4>1. PrmPosition[i] < PrmPosition[l]
        BY <3>1, PositionsGrow
      <4> QED BY <2>2, <2>3, <4>1
    <3>2. CASE l < i
      <4>1. PrmPosition[l] < PrmPosition[i]
        BY <3>2, PositionsGrow
      <4> QED BY <2>2, <2>3, <4>1
    <3> QED BY <3>1, <3>2 DEF Lines
  <2>5. Written[j] = Written[k]
    BY <1>1, <2>1, <2>4
  <2> QED BY <2>5 DEF Written
<1>5. FieldsAt[l] = {k}
  BY <1>3, <1>4 DEF FieldsAt
<1> QED BY <1>1, <1>5

\* So the importer reads at a line what buildDOCRecord was given for it, cut
\* when it is longer than the line is wide.
LEMMA RecordField ==
  ASSUME NEW h, NEW m, NEW l \in Lines \ {63}, NEW field, field = Fields(h, m)[l],
         NEW record, record = buildDOCRecord(h, m), NEW width, width = imoveInFieldLengths[l]
  PROVE  \E k : /\ FieldsAt[l] = {k}
                /\ record[k].text = field.text
                /\ record[k].cut <=> field.len > width
<1>1. PICK k \in 1..85 : Written[k] = l /\ FieldsAt[l] = {k}
  BY FieldOfLine
<1>2. record[k] = padW1255(field, width)
  <2>1. DOMAIN Written = 1..85
    BY DEF Written
  <2> QED BY <1>1, <2>1 DEF buildDOCRecord
<1>3. record[k].text = field.text /\ record[k].cut = (field.len > width)
  BY <1>2 DEF padW1255
<1> QED BY <1>1, <1>3

-----------------------------------------------------------------------------
(* What is in the fields.                                                  *)

\* What is known of the powers of ten without looking at them.
LEMMA PowersOfTen ==
  /\ \A d \in 1..9 : TenTo[d] \in Nat \ {0}
  /\ \A d \in 1..9 : \A e \in 1..9 : d <= e => TenTo[d] <= TenTo[e]
  /\ \A d \in 1..7 : TenTo[d + 2] = 100 * TenTo[d]
<1>1. \A d \in 1..9 : TenTo[d] \in Nat \ {0}
  BY SMT DEF TenTo
<1>2. \A d \in 1..9 : \A e \in 1..9 : d <= e => TenTo[d] <= TenTo[e]
  BY SMT DEF TenTo
<1>3. \A d \in 1..7 : TenTo[d + 2] = 100 * TenTo[d]
  BY SMT DEF TenTo
<1> QED BY <1>1, <1>2, <1>3

\* A number below a power of ten has no more digits than it has noughts.
LEMMA DigitsFit ==
  ASSUME NEW n \in Nat, NEW d \in 1..9, n < TenTo[d]
  PROVE  Digits(n) \in 1..d
<1> DEFINE T == {e \in 1..9 : n < TenTo[e]}
           Is(e) == (e = 1 \/ TenTo[e - 1] <= n) /\ (e = 10 \/ n < TenTo[e])
<1>1. \A e \in 1..9 : TenTo[e] \in Nat
  BY PowersOfTen
<1>2. \A e \in 1..9 : d <= e => TenTo[d] <= TenTo[e]
  BY PowersOfTen
<1>3. PICK m \in T : \A k \in T : m <= k
  <2>1. d \in T /\ T \subseteq Nat
    OBVIOUS
  <2> HIDE DEF T
  <2> QED BY <2>1, LeastElement
<1>4. Is(m) /\ m \in 1..10
  <2>1. CASE m = 1
    BY <2>1
  <2>2. CASE m # 1
    <3>1. m - 1 \in 1..9 /\ m - 1 \notin T
      BY <1>3, <2>2
    <3>2. TenTo[m - 1] <= n
      BY <1>1, <3>1
    <3> QED BY <3>2
  <2> QED BY <2>1, <2>2
<1>5. PICK e : e = Digits(n)
  OBVIOUS
<1>6. e \in 1..10 /\ Is(e)
  <2>1. e = CHOOSE x \in 1..10 : Is(x)
    BY <1>5 DEF Digits
  <2> HIDE DEF Is
  <2> QED BY <1>4, <2>1
<1>7. ~(d < e)
  <2>1. SUFFICES ASSUME d < e PROVE FALSE
    OBVIOUS
  <2>2. e - 1 \in 1..9 /\ d <= e - 1 /\ TenTo[e - 1] <= n
    BY <1>6, <2>1
  <2>3. TenTo[d] \in Nat /\ TenTo[e - 1] \in Nat /\ TenTo[d] <= TenTo[e - 1]
    BY <1>1, <1>2, <2>2
  <2> QED BY <2>2, <2>3
<1> QED BY <1>5, <1>6, <1>7

\* Two digits less before the point.
LEMMA WholePart ==
  ASSUME NEW n \in Nat, NEW d \in 1..7, n < TenTo[d + 2]
  PROVE  n \div 100 \in Nat /\ n \div 100 < TenTo[d]
<1>1. PICK x \in Nat : x = TenTo[d] /\ TenTo[d + 2] = 100 * x
  BY PowersOfTen
<1> QED BY <1>1

\* Numbers that have room in their lines.
LEMMA NumbersFit ==
  /\ \A n \in OfDigits(9) : Decimal(n).len \in 1..9
  /\ \A n \in OfDigits(2) : Decimal(n).len \in 1..2
  /\ \A n \in OfDigits(4) : Fixed(n, 2).len \in 1..5
  /\ \A n \in Amounts : Fixed(n, 2).len \in 1..10
  /\ \A n \in OfDigits(7) : Fixed(n, 4).len \in 1..10
<1>1. ASSUME NEW d \in 1..9, NEW n \in OfDigits(d)
      PROVE  n \in Nat /\ n < TenTo[d]
  <2>1. PICK x \in Nat : x = TenTo[d]
    BY PowersOfTen
  <2> QED BY <2>1 DEF OfDigits
<1>2. ASSUME NEW d \in 1..9, NEW n \in OfDigits(d)
      PROVE  Decimal(n).len \in 1..d
  <2>1. Digits(n) \in 1..d
    BY <1>1, DigitsFit
  <2> QED BY <2>1 DEF Decimal, Text
<1>3. ASSUME NEW n \in Nat, NEW places \in Nat, NEW d \in 1..7, n < TenTo[d + 2]
      PROVE  /\ Fixed(n, places).len \in Int
             /\ 1 <= Fixed(n, places).len /\ Fixed(n, places).len <= (d + 1) + places
  <2>1. Digits(n \div 100) \in 1..d
    <3>1. d \in 1..9
      OBVIOUS
    <3> QED BY <1>3, <3>1, WholePart, DigitsFit
  <2>2. Fixed(n, places).len = 0 + Digits(n \div 100) + 1 + places
    BY DEF Fixed, Text
  <2> QED BY <2>1, <2>2
<1>4. ASSUME NEW n \in OfDigits(4)
      PROVE  Fixed(n, 2).len \in 1..5
  <2>1. PICK d \in 1..7, places \in Nat : d = 2 /\ places = 2
    OBVIOUS
  <2>2. n \in Nat /\ n < TenTo[d + 2]
    BY <1>1, <2>1
  <2>3. /\ Fixed(n, places).len \in Int
        /\ 1 <= Fixed(n, places).len /\ Fixed(n, places).len <= (d + 1) + places
    BY <1>3, <2>2
  <2> QED BY <2>1, <2>3
<1>5. ASSUME NEW n \in OfDigits(7)
      PROVE  Fixed(n, 4).len \in 1..10
  <2>1. PICK d \in 1..7, places \in Nat : d = 5 /\ places = 4
    OBVIOUS
  <2>2. n \in Nat /\ n < TenTo[d + 2]
    BY <1>1, <2>1
  <2>3. /\ Fixed(n, places).len \in Int
        /\ 1 <= Fixed(n, places).len /\ Fixed(n, places).len <= (d + 1) + places
    BY <1>3, <2>2
  <2> QED BY <2>1, <2>3
<1>6. ASSUME NEW n \in Amounts
      PROVE  Fixed(n, 2).len \in 1..10
  <2>1. PICK x \in Nat \ {0}, y \in Nat \ {0} : x = TenTo[8] /\ y = TenTo[9]
    BY PowersOfTen
  <2>2. n \in Int /\ 1 - x <= n /\ n <= y - 1
    BY <2>1 DEF Amounts
  <2>3. CASE n >= 0
    <3>1. PICK d \in 1..7, places \in Nat : d = 7 /\ places = 2
      OBVIOUS
    <3>2. n \in Nat /\ n < TenTo[d + 2]
      BY <2>1, <2>2, <2>3, <3>1
    <3>3. /\ Fixed(n, places).len \in Int
          /\ 1 <= Fixed(n, places).len /\ Fixed(n, places).len <= (d + 1) + places
      BY <1>3, <3>2
    <3> QED BY <3>1, <3>3
  <2>4. CASE n < 0
    <3>1. PICK s \in Nat : s = -n
      BY <2>2, <2>4
    <3>2. s < TenTo[6 + 2]
      BY <2>1, <2>2, <3>1
    <3>3. Digits(s \div 100) \in 1..6
      BY <3>2, WholePart, DigitsFit
    <3>4. Fixed(n, 2).len = 1 + Digits(s \div 100) + 1 + 2
      BY <2>4, <3>1 DEF Fixed, Text
    <3> QED BY <3>3, <3>4
  <2> QED BY <2>2, <2>3, <2>4
<1> QED BY <1>2, <1>4, <1>5, <1>6

\* The widths of the lines that say what was ordered.
LEMMA WidthsOfOrder ==
  /\ imoveInFieldLengths[2] = 15 /\ imoveInFieldLengths[3] = 9 /\ imoveInFieldLengths[4] = 2
  /\ imoveInFieldLengths[8] = 9 /\ imoveInFieldLengths[17] = 5 /\ imoveInFieldLengths[20] = 4
  /\ imoveInFieldLengths[21] = 10 /\ imoveInFieldLengths[22] = 20
  /\ imoveInFieldLengths[23] = 10 /\ imoveInFieldLengths[24] = 10
  /\ imoveInFieldLengths[26] = 5 /\ imoveInFieldLengths[27] = 10
  /\ imoveInFieldLengths[33] = 10 /\ imoveInFieldLengths[11] = 9 /\ imoveInFieldLengths[60] = 9
<1>1. \A l \in Lines : imoveInFieldLengths[l] = WidthOfLines[l - 1]
  BY DEF imoveInFieldLengths
<1>2. {2, 3, 4, 8, 11, 17, 20, 21, 22, 23, 24, 26, 27, 33, 60} \subseteq Lines
  BY DEF Lines
<1> QED BY <1>1, <1>2 DEF WidthOfLines

\* What buildDOCRecord is given for them.
LEMMA FieldsOfOrder ==
  ASSUME NEW h, NEW m
  PROVE  /\ Fields(h, m)[2] = h.AccountKey /\ Fields(h, m)[3] = Decimal(h.MyID)
         /\ Fields(h, m)[4] = Decimal(h.DocumentID) /\ Fields(h, m)[8] = Decimal(h.Asmahta2)
         /\ Fields(h, m)[17] = h.DiscountPrcR /\ Fields(h, m)[20] = h.Currency
         /\ Fields(h, m)[21] = h.Rate /\ Fields(h, m)[22] = m.ItemKey
         /\ Fields(h, m)[23] = m.Quantity /\ Fields(h, m)[24] = m.Price
         /\ Fields(h, m)[26] = m.DiscountPrc /\ Fields(h, m)[27] = h.Rate
         /\ Fields(h, m)[33] = m.Packs
         /\ Fields(h, m)[11] = h.Agent /\ Fields(h, m)[60] = h.HProtect
         /\ Fields(h, m)[25] = h.Currency
<1>1. {2, 3, 4, 8, 11, 17, 20, 21, 22, 23, 24, 26, 27, 33, 60} \subseteq Lines
  BY DEF Lines
<1>2. /\ Fields(h, m)[2] = h.AccountKey /\ Fields(h, m)[3] = Decimal(h.MyID)
      /\ Fields(h, m)[4] = Decimal(h.DocumentID) /\ Fields(h, m)[8] = Decimal(h.Asmahta2)
  BY <1>1 DEF Fields
<1>3. /\ Fields(h, m)[17] = h.DiscountPrcR /\ Fields(h, m)[20] = h.Currency
      /\ Fields(h, m)[21] = h.Rate /\ Fields(h, m)[22] = m.ItemKey
  BY <1>1 DEF Fields
<1>4. /\ Fields(h, m)[23] = m.Quantity /\ Fields(h, m)[24] = m.Price
      /\ Fields(h, m)[26] = m.DiscountPrc /\ Fields(h, m)[27] = h.Rate
      /\ Fields(h, m)[33] = m.Packs
  BY <1>1 DEF Fields
<1>5. Fields(h, m)[11] = h.Agent /\ Fields(h, m)[60] = h.HProtect
  BY <1>1 DEF Fields
<1>6. 25 \in Lines
  BY DEF Lines
<1>7. Fields(h, m)[25] = h.Currency
  BY <1>6 DEF Fields
<1> QED BY <1>2, <1>3, <1>4, <1>5, <1>7

\* The lines to which a key or a code is copied as it stands.
KeyLines == {2, 11, 20, 22, 25, 60}

\* A newline in a record stands in the field of a key or a code that has one,
\* when the texts are cleaned.
LEMMA OnlyKeysBreak ==
  ASSUME NEW h, NEW m,
         ~h.AccountName.breaks, ~h.Address.breaks, ~h.City.breaks, ~h.Phone.breaks,
         ~h.ShortDate.breaks, ~h.DiscountPrcR.breaks, ~h.Rate.breaks, ~h.Remarks.breaks,
         ~m.ItemName.breaks, ~m.Quantity.breaks, ~m.Packs.breaks,
         ~m.Price.breaks, ~m.DiscountPrc.breaks
  PROVE  \A f \in DOMAIN buildDOCRecord(h, m) :
           buildDOCRecord(h, m)[f].breaks =>
             \E l \in KeyLines : f \in FieldsAt[l] /\ Fields(h, m)[l].breaks
<1>1. \A n : ~Decimal(n).breaks
  BY DEF Decimal, Text
<1>2. \A t, n : ~Text(t, n).breaks
  BY DEF Text
<1>3. ~NoText.breaks
  BY DEF NoText, Text
<1>4. ASSUME NEW l \in Lines \ KeyLines
      PROVE  ~Fields(h, m)[l].breaks
  <2>0. l \in Lines /\ l \notin {2, 11, 20, 22, 25, 60}
    BY DEF KeyLines
  <2>1. CASE l \in {5, 6, 7, 9, 10, 35, 36, 17, 21, 27, 37}
    <3>1. Fields(h, m)[l] \in {h.AccountName, h.Address, h.City, h.Phone, h.ShortDate,
                               h.DiscountPrcR, h.Rate, h.Remarks}
      BY <2>0, <2>1 DEF Fields
    <3> QED BY <3>1
  <2>2. CASE l \in {23, 24, 26, 28, 33}
    <3>1. Fields(h, m)[l] \in {m.ItemName, m.Quantity, m.Packs, m.Price, m.DiscountPrc}
      BY <2>0, <2>2 DEF Fields
    <3> QED BY <3>1
  <2>3. CASE l \in {3, 4, 8, 12}
    <3>1. Fields(h, m)[l] \in {Decimal(h.MyID), Decimal(h.DocumentID), Decimal(h.Asmahta2),
                               Decimal(h.WareHouse)}
      BY <2>0, <2>3 DEF Fields
    <3> QED BY <1>1, <3>1
  <2>4. CASE l \in {18, 29, 19, 34}
    <3>1. Fields(h, m)[l] \in {Text("18.00", 5), Text("unit", 3), Text("1", 1), Text("0", 1)}
      BY <2>0, <2>4 DEF Fields
    <3> QED BY <1>2, <3>1
  <2>5. CASE l \notin {5, 6, 7, 9, 10, 35, 36, 17, 21, 27, 37, 23, 24, 26, 28, 33,
                       3, 4, 8, 12, 18, 29, 19, 34}
    <3>1. Fields(h, m)[l] = NoText
      BY <2>0, <2>5 DEF Fields
    <3> QED BY <1>3, <3>1
  <2> QED BY <2>1, <2>2, <2>3, <2>4, <2>5
<1>5. ASSUME NEW f \in DOMAIN buildDOCRecord(h, m), buildDOCRecord(h, m)[f].breaks
      PROVE  \E l \in KeyLines : f \in FieldsAt[l] /\ Fields(h, m)[l].breaks
  <2>1. f \in 1..85 /\ Written[f] \in Lines \ {63}
    BY DEF buildDOCRecord, Written, Lines
  <2>2. PICK l \in Lines \ {63} : l = Written[f]
    BY <2>1
  <2>3. PICK field, width : field = Fields(h, m)[l] /\ width = imoveInFieldLengths[l]
    OBVIOUS
  <2>4. buildDOCRecord(h, m)[f] = padW1255(field, width)
    BY <2>2, <2>3 DEF buildDOCRecord
  <2>5. field.breaks
    <3>1. padW1255(field, width).breaks = field.breaks
      BY DEF padW1255
    <3> QED BY <1>5, <2>4, <3>1
  <2>6. l \in KeyLines
    BY <1>4, <2>3, <2>5
  <2>7. f \in FieldsAt[l]
    <3>1. PICK k \in 1..85 : Written[k] = l /\ FieldsAt[l] = {k}
      BY FieldOfLine
    <3>2. k = f
      BY <2>1, <2>2, <3>1 DEF Written
    <3> QED BY <3>1, <3>2
  <2> QED BY <2>3, <2>5, <2>6, <2>7
<1> QED BY <1>5

\* The header of an order, field by field.
LEMMA HeaderOfOrder ==
  ASSUME NEW number, NEW account, NEW order, NEW rate, NEW h,
         h = Header(number, account, order, rate)
  PROVE  /\ h.AccountKey = account.key /\ h.MyID = number /\ h.Asmahta2 = number
         /\ h.DocumentID = HeaderDocID(order) /\ h.Currency = order.currency
         /\ h.DiscountPrcR = Fixed(HeaderDiscount(order), 2) /\ h.Rate = Fixed(rate, 4)
         /\ h.AccountName = sanitizeField(account.name)
         /\ h.ShortDate = Text(order.created, 10)
         /\ h.Remarks = sanitizeComment(order.comment, 250)
         /\ h.Address = sanitizeField(account.address) /\ h.City = sanitizeField(account.city)
         /\ h.Phone = sanitizeField(account.phone)
         /\ h.Agent = account.agent /\ h.HProtect = account.hprotect
BY DEF Header

\* What stays of a text's line breaks.
LEMMA CleanTexts ==
  /\ \A n, places : ~Fixed(n, places).breaks /\ Fixed(n, places).text = ToString(n)
  /\ \A n : Decimal(n).text = ToString(n)
  /\ \A t, n : ~Text(t, n).breaks
  /\ ~NoText.breaks
BY DEF Fixed, Decimal, Text, NoText

\* sanitizeField leaves no line break, and sanitizeComment neither.
LEMMA Sanitized ==
  ASSUME NEW t
  PROVE  ~sanitizeField(t).breaks /\ \A n : ~sanitizeComment(t, n).breaks
<1>1. PICK s : s = sanitizeField(t)
  OBVIOUS
<1>2. s = [text |-> s.text, len |-> s.len, breaks |-> FALSE]
  BY <1>1 DEF sanitizeField, Text
<1>3. ASSUME NEW n
      PROVE  ~sanitizeComment(t, n).breaks
  <2>1. PICK len : len = Min({s.len, n})
    OBVIOUS
  <2>2. sanitizeComment(t, n) = [s EXCEPT !.len = len]
    BY <1>1, <2>1 DEF sanitizeComment
  <2> QED BY <1>2, <2>2
<1> QED BY <1>1, <1>2, <1>3

\* The importer reads in a row what the order and its line d say.
Conveys(record, number, account, order, d, rate) ==
  /\ Reads(record, 2, account.key.text) /\ (account.key.len \in 0..15 => Whole(record, 2))
  /\ Reads(record, 11, account.agent.text) /\ (account.agent.len \in 0..9 => Whole(record, 11))
  /\ Reads(record, 60, account.hprotect.text)
  /\ account.hprotect.len \in 0..9 => Whole(record, 60)
  /\ Reads(record, 3, ToString(number)) /\ Reads(record, 8, ToString(number))
  /\ number \in OfDigits(9) => Whole(record, 3) /\ Whole(record, 8)
  /\ order.currency.len \in 0..4 => Whole(record, 20)
  /\ order.discount \in OfDigits(4) =>
       Reads(record, 17, ToString(order.discount)) /\ Whole(record, 17)
  /\ \A l \in {21, 27} :
       Reads(record, l, ToString(rate)) /\ (rate \in OfDigits(7) => Whole(record, l))
  /\ Reads(record, 22, d.sku.text) /\ (d.sku.len \in 0..20 => Whole(record, 22))
  /\ Reads(record, 23, ToString(d.quantity)) /\ (d.quantity \in Amounts => Whole(record, 23))
  /\ Reads(record, 24, ToString(d.price)) /\ (d.price \in Amounts => Whole(record, 24))
  /\ Reads(record, 26, ToString(d.discount))
  /\ d.discount \in OfDigits(4) => Whole(record, 26)
  /\ d.packs > 0 =>
       Reads(record, 33, ToString(d.packs)) /\ (d.packs \in Amounts => Whole(record, 33))

\* A row that is built of an order and a line of it conveys them.
LEMMA RowFields ==
  ASSUME NEW number, NEW account, NEW order, NEW rate, NEW d, NEW h, NEW m, NEW record,
         h = Header(number, account, order, rate), record = buildDOCRecord(h, m),
         m.ItemKey = d.sku, m.Quantity = Fixed(d.quantity, 2), m.Price = Fixed(d.price, 2),
         m.DiscountPrc = Fixed(d.discount, 2), d.packs > 0 => m.Packs = Fixed(d.packs, 2)
  PROVE  Conveys(record, number, account, order, d, rate)
<1>1. {2, 3, 4, 8, 11, 17, 20, 21, 22, 23, 24, 26, 27, 33, 60} \subseteq Lines \ {63}
  BY DEF Lines
<1>2. ASSUME NEW l \in {2, 3, 4, 8, 11, 17, 20, 21, 22, 23, 24, 26, 27, 33, 60}, NEW field,
             field = Fields(h, m)[l], NEW width, width = imoveInFieldLengths[l]
      PROVE  \E k : /\ FieldsAt[l] = {k}
                    /\ record[k].text = field.text
                    /\ record[k].cut <=> field.len > width
  BY <1>1, <1>2, RecordField
<1>3. Reads(record, 2, account.key.text) /\ (account.key.len \in 0..15 => Whole(record, 2))
  <2>1. PICK field : field = account.key
    OBVIOUS
  <2>2. field = Fields(h, m)[2]
    BY <2>1, HeaderOfOrder, FieldsOfOrder
  <2>3. PICK k : /\ FieldsAt[2] = {k} /\ record[k].text = field.text
                 /\ record[k].cut <=> field.len > 15
    BY <1>2, <2>2, WidthsOfOrder
  <2> QED BY <2>1, <2>3 DEF Reads, Whole
<1>4. Reads(record, 3, ToString(number)) /\ (number \in OfDigits(9) => Whole(record, 3))
  <2>1. PICK field : field = Decimal(number)
    OBVIOUS
  <2>2. field = Fields(h, m)[3]
    BY <2>1, HeaderOfOrder, FieldsOfOrder
  <2>3. PICK k : /\ FieldsAt[3] = {k} /\ record[k].text = field.text
                 /\ record[k].cut <=> field.len > 9
    BY <1>2, <2>2, WidthsOfOrder
  <2>4. number \in OfDigits(9) => field.len \in 1..9
    BY <2>1, NumbersFit
  <2>5. field.text = ToString(number)
    BY <2>1, CleanTexts
  <2> QED BY <2>3, <2>4, <2>5 DEF Reads, Whole
<1>5. Reads(record, 8, ToString(number)) /\ (number \in OfDigits(9) => Whole(record, 8))
  <2>1. PICK field : field = Decimal(number)
    OBVIOUS
  <2>2. field = Fields(h, m)[8]
    BY <2>1, HeaderOfOrder, FieldsOfOrder
  <2>3. PICK k : /\ FieldsAt[8] = {k} /\ record[k].text = field.text
                 /\ record[k].cut <=> field.len > 9
    BY <1>2, <2>2, WidthsOfOrder
  <2>4. number \in OfDigits(9) => field.len \in 1..9
    BY <2>1, NumbersFit
  <2>5. field.text = ToString(number)
    BY <2>1, CleanTexts
  <2> QED BY <2>3, <2>4, <2>5 DEF Reads, Whole
<1>6. ASSUME order.discount \in OfDigits(4), HeaderDiscount(order) = order.discount
      PROVE  Reads(record, 17, ToString(order.discount)) /\ Whole(record, 17)
  <2>1. PICK field : field = Fixed(order.discount, 2)
    OBVIOUS
  <2>2. field = Fields(h, m)[17]
    BY <2>1, HeaderOfOrder, FieldsOfOrder, <1>6
  <2>3. PICK k : /\ FieldsAt[17] = {k} /\ record[k].text = field.text
                 /\ record[k].cut <=> field.len > 5
    BY <1>2, <2>2, WidthsOfOrder
  <2>4. TRUE => field.len \in 1..5
    BY <1>6, <2>1, NumbersFit
  <2>5. field.text = ToString(order.discount)
    BY <2>1, CleanTexts
  <2> QED BY <2>3, <2>4, <2>5 DEF Reads, Whole
<1>7. Reads(record, 21, ToString(rate)) /\ (rate \in OfDigits(7) => Whole(record, 21))
  <2>1. PICK field : field = Fixed(rate, 4)
    OBVIOUS
  <2>2. field = Fields(h, m)[21]
    BY <2>1, HeaderOfOrder, FieldsOfOrder
  <2>3. PICK k : /\ FieldsAt[21] = {k} /\ record[k].text = field.text
                 /\ record[k].cut <=> field.len > 10
    BY <1>2, <2>2, WidthsOfOrder
  <2>4. rate \in OfDigits(7) => field.len \in 1..10
    BY <2>1, NumbersFit
  <2>5. field.text = ToString(rate)
    BY <2>1, CleanTexts
  <2> QED BY <2>3, <2>4, <2>5 DEF Reads, Whole
<1>8. Reads(record, 27, ToString(rate)) /\ (rate \in OfDigits(7) => Whole(record, 27))
  <2>1. PICK field : field = Fixed(rate, 4)
    OBVIOUS
  <2>2. field = Fields(h, m)[27]
    BY <2>1, HeaderOfOrder, FieldsOfOrder
  <2>3. PICK k : /\ FieldsAt[27] = {k} /\ record[k].text = field.text
                 /\ record[k].cut <=> field.len > 10
    BY <1>2, <2>2, WidthsOfOrder
  <2>4. rate \in OfDigits(7) => field.len \in 1..10
    BY <2>1, NumbersFit
  <2>5. field.text = ToString(rate)
    BY <2>1, CleanTexts
  <2> QED BY <2>3, <2>4, <2>5 DEF Reads, Whole
<1>9. Reads(record, 22, d.sku.text) /\ (d.sku.len \in 0..20 => Whole(record, 22))
  <2>1. PICK field : field = d.sku
    OBVIOUS
  <2>2. field = Fields(h, m)[22]
    BY <2>1, HeaderOfOrder, FieldsOfOrder
  <2>3. PICK k : /\ FieldsAt[22] = {k} /\ record[k].text = field.text
                 /\ record[k].cut <=> field.len > 20
    BY <1>2, <2>2, WidthsOfOrder
  <2> QED BY <2>1, <2>3 DEF Reads, Whole
<1>10. Reads(record, 23, ToString(d.quantity)) /\ (d.quantity \in Amounts => Whole(record, 23))
  <2>1. PICK field : field = Fixed(d.quantity, 2)
    OBVIOUS
  <2>2. field = Fields(h, m)[23]
    BY <2>1, HeaderOfOrder, FieldsOfOrder
  <2>3. PICK k : /\ FieldsAt[23] = {k} /\ record[k].text = field.text
                 /\ record[k].cut <=> field.len > 10
    BY <1>2, <2>2, WidthsOfOrder
  <2>4. d.quantity \in Amounts => field.len \in 1..10
    BY <2>1, NumbersFit
  <2>5. field.text = ToString(d.quantity)
    BY <2>1, CleanTexts
  <2> QED BY <2>3, <2>4, <2>5 DEF Reads, Whole
<1>11. Reads(record, 24, ToString(d.price)) /\ (d.price \in Amounts => Whole(record, 24))
  <2>1. PICK field : field = Fixed(d.price, 2)
    OBVIOUS
  <2>2. field = Fields(h, m)[24]
    BY <2>1, HeaderOfOrder, FieldsOfOrder
  <2>3. PICK k : /\ FieldsAt[24] = {k} /\ record[k].text = field.text
                 /\ record[k].cut <=> field.len > 10
    BY <1>2, <2>2, WidthsOfOrder
  <2>4. d.price \in Amounts => field.len \in 1..10
    BY <2>1, NumbersFit
  <2>5. field.text = ToString(d.price)
    BY <2>1, CleanTexts
  <2> QED BY <2>3, <2>4, <2>5 DEF Reads, Whole
<1>12. Reads(record, 26, ToString(d.discount)) /\ (d.discount \in OfDigits(4) => Whole(record, 26))
  <2>1. PICK field : field = Fixed(d.discount, 2)
    OBVIOUS
  <2>2. field = Fields(h, m)[26]
    BY <2>1, HeaderOfOrder, FieldsOfOrder
  <2>3. PICK k : /\ FieldsAt[26] = {k} /\ record[k].text = field.text
                 /\ record[k].cut <=> field.len > 5
    BY <1>2, <2>2, WidthsOfOrder
  <2>4. d.discount \in OfDigits(4) => field.len \in 1..5
    BY <2>1, NumbersFit
  <2>5. field.text = ToString(d.discount)
    BY <2>1, CleanTexts
  <2> QED BY <2>3, <2>4, <2>5 DEF Reads, Whole
<1>13. ASSUME d.packs > 0
      PROVE  Reads(record, 33, ToString(d.packs)) /\ (d.packs \in Amounts => Whole(record, 33))
  <2>1. PICK field : field = Fixed(d.packs, 2)
    OBVIOUS
  <2>2. field = Fields(h, m)[33]
    BY <2>1, HeaderOfOrder, FieldsOfOrder, <1>13
  <2>3. PICK k : /\ FieldsAt[33] = {k} /\ record[k].text = field.text
                 /\ record[k].cut <=> field.len > 10
    BY <1>2, <2>2, WidthsOfOrder
  <2>4. d.packs \in Amounts => field.len \in 1..10
    BY <2>1, NumbersFit
  <2>5. field.text = ToString(d.packs)
    BY <2>1, CleanTexts
  <2> QED BY <2>3, <2>4, <2>5 DEF Reads, Whole
<1>14. order.currency.len \in 0..4 => Whole(record, 20)
  <2>1. PICK field : field = order.currency
    OBVIOUS
  <2>2. field = Fields(h, m)[20]
    BY <2>1, HeaderOfOrder, FieldsOfOrder
  <2>3. PICK k : /\ FieldsAt[20] = {k} /\ record[k].text = field.text
                 /\ record[k].cut <=> field.len > 4
    BY <1>2, <2>2, WidthsOfOrder
  <2> QED BY <2>1, <2>3 DEF Whole
<1>15. order.discount \in OfDigits(4) => HeaderDiscount(order) = order.discount
  <2> SUFFICES ASSUME order.discount \in OfDigits(4)
               PROVE  HeaderDiscount(order) = order.discount
    OBVIOUS
  <2>1. PICK n : n = order.discount
    OBVIOUS
  <2>2. n \in Int /\ ~(n >= 10000)
    <3>1. TenTo[4] = 10000
      BY SMT DEF TenTo
    <3>2. n \in 0..(TenTo[4] - 1)
      BY <2>1 DEF OfDigits
    <3> QED BY <3>1, <3>2
  <2> QED BY <2>1, <2>2 DEF HeaderDiscount
<1>16. Reads(record, 11, account.agent.text) /\ (account.agent.len \in 0..9 => Whole(record, 11))
  <2>1. PICK field : field = account.agent
    OBVIOUS
  <2>2. field = Fields(h, m)[11]
    BY <2>1, HeaderOfOrder, FieldsOfOrder
  <2>3. PICK k : /\ FieldsAt[11] = {k} /\ record[k].text = field.text
                 /\ record[k].cut <=> field.len > 9
    BY <1>2, <2>2, WidthsOfOrder
  <2> QED BY <2>1, <2>3 DEF Reads, Whole
<1>17. Reads(record, 60, account.hprotect.text) /\ (account.hprotect.len \in 0..9 => Whole(record, 60))
  <2>1. PICK field : field = account.hprotect
    OBVIOUS
  <2>2. field = Fields(h, m)[60]
    BY <2>1, HeaderOfOrder, FieldsOfOrder
  <2>3. PICK k : /\ FieldsAt[60] = {k} /\ record[k].text = field.text
                 /\ record[k].cut <=> field.len > 9
    BY <1>2, <2>2, WidthsOfOrder
  <2> QED BY <2>1, <2>3 DEF Reads, Whole
<1> QED BY <1>3, <1>4, <1>5, <1>6, <1>7, <1>8, <1>9, <1>10, <1>11, <1>12, <1>13, <1>14, <1>15,
           <1>16, <1>17 DEF Conveys

\* The document type of an order is one of four, by its type and currency.
LEMMA DocumentTypes ==
  ASSUME NEW order, order.type \in {"ORDER", "QUOATE", "RETURN"},
         NEW code, code = HeaderDocID(order)
  PROVE  /\ code \in {30, 32, 40, 74}
         /\ (code \in {30, 32}) = (order.type = "ORDER")
         /\ order.type = "ORDER" => (code = 30) = (order.currency.text = Shekel)
<1>1. CASE order.type = "ORDER" /\ order.currency.text = Shekel
  <2>1. code = 30
    BY <1>1 DEF HeaderDocID
  <2> QED BY <1>1, <2>1
<1>2. CASE order.type = "ORDER" /\ order.currency.text # Shekel
  <2>1. code = 32
    BY <1>2 DEF HeaderDocID
  <2> QED BY <1>2, <2>1
<1>3. CASE order.type = "QUOATE"
  <2>1. code = 40
    BY <1>3 DEF HeaderDocID
  <2> QED BY <1>3, <2>1
<1>4. CASE order.type = "RETURN"
  <2>1. code = 74
    BY <1>4 DEF HeaderDocID
  <2> QED BY <1>4, <2>1
<1> QED BY <1>1, <1>2, <1>3, <1>4

\* A row says of which type the order is, and in shekels exactly the type 30.
LEMMA RowType ==
  ASSUME NEW number, NEW account, NEW order, NEW rate, NEW h, NEW m, NEW record,
         h = Header(number, account, order, rate), record = buildDOCRecord(h, m),
         order.type \in {"ORDER", "QUOATE", "RETURN"}
  PROVE  \E code \in {30, 32, 40, 74} :
           /\ Reads(record, 4, ToString(code)) /\ Whole(record, 4)
           /\ (code \in {30, 32}) = (order.type = "ORDER")
           /\ order.type = "ORDER" =>
                ((code = 30) = Reads(record, 20, Shekel))
<1>1. PICK code \in {30, 32, 40, 74} :
        /\ code = HeaderDocID(order)
        /\ (code \in {30, 32}) = (order.type = "ORDER")
        /\ order.type = "ORDER" => (code = 30) = (order.currency.text = Shekel)
  BY DocumentTypes
<1>2. 4 \in Lines \ {63} /\ 20 \in Lines \ {63}
  BY DEF Lines
<1>3. Reads(record, 4, ToString(code)) /\ Whole(record, 4)
  <2>1. PICK field : field = Decimal(code)
    OBVIOUS
  <2>2. field = Fields(h, m)[4]
    BY <1>1, <2>1, HeaderOfOrder, FieldsOfOrder
  <2>3. PICK k : /\ FieldsAt[4] = {k} /\ record[k].text = field.text
                 /\ record[k].cut <=> field.len > 2
    BY <1>2, <2>2, WidthsOfOrder, RecordField
  <2>4. field.len \in 1..2
    <3>1. PICK x : x = TenTo[2]
      OBVIOUS
    <3>2. x = 100
      BY <3>1, SMT DEF TenTo
    <3>3. code \in OfDigits(2)
      BY <3>1, <3>2 DEF OfDigits
    <3> QED BY <2>1, <3>3, NumbersFit
  <2>5. field.text = ToString(code)
    BY <2>1, CleanTexts
  <2> QED BY <2>3, <2>4, <2>5 DEF Reads, Whole
<1>4. Reads(record, 20, Shekel) <=> order.currency.text = Shekel
  <2>1. PICK field : field = order.currency
    OBVIOUS
  <2>2. field = Fields(h, m)[20]
    BY <2>1, HeaderOfOrder, FieldsOfOrder
  <2>3. PICK k : /\ FieldsAt[20] = {k} /\ record[k].text = field.text
                 /\ record[k].cut <=> field.len > 4
    BY <1>2, <2>2, WidthsOfOrder, RecordField
  <2> QED BY <2>1, <2>3 DEF Reads, Whole
<1>5. order.type = "ORDER" =>
        ((code = 30) = Reads(record, 20, Shekel))
  <2>1. SUFFICES ASSUME order.type = "ORDER"
                 PROVE  (code = 30) <=> Reads(record, 20, Shekel)
    BY DEF Reads, Whole
  <2>2. (code = 30) <=> (order.currency.text = Shekel)
    BY <1>1, <2>1
  <2> QED BY <1>4, <2>2
<1> QED BY <1>1, <1>3, <1>5

\* A newline gets into a row only with a key or a code, and only in its field.
LEMMA RowKeepsLine ==
  ASSUME NEW number, NEW account, NEW order, NEW rate, NEW d, NEW h, NEW m, NEW record,
         h = Header(number, account, order, rate), record = buildDOCRecord(h, m),
         m.ItemKey = d.sku, m.ItemName = sanitizeField(d.title),
         m.Quantity = Fixed(d.quantity, 2), m.Price = Fixed(d.price, 2),
         m.DiscountPrc = Fixed(d.discount, 2), m.Packs \in {NoText, Fixed(d.packs, 2)}
  PROVE  \A f \in DOMAIN record : record[f].breaks =>
           \E l \in DOMAIN KeysCopied(account, order, d) :
             f \in FieldsAt[l] /\ KeysCopied(account, order, d)[l].breaks
<1>1. DOMAIN KeysCopied(account, order, d) = KeyLines
  BY DEF KeysCopied, KeyLines
<1>2. \A l \in KeyLines : Fields(h, m)[l] = KeysCopied(account, order, d)[l]
  <2>1. /\ Fields(h, m)[2] = account.key /\ Fields(h, m)[11] = account.agent
        /\ Fields(h, m)[20] = order.currency /\ Fields(h, m)[25] = order.currency
        /\ Fields(h, m)[22] = d.sku /\ Fields(h, m)[60] = account.hprotect
    BY HeaderOfOrder, FieldsOfOrder
  <2> QED BY <2>1 DEF KeysCopied, KeyLines
<1>3. ~h.AccountName.breaks /\ ~h.Remarks.breaks /\ ~m.ItemName.breaks
  BY HeaderOfOrder, Sanitized
<1>4. ~h.Address.breaks /\ ~h.City.breaks /\ ~h.Phone.breaks
  BY HeaderOfOrder, Sanitized
<1>5. ~h.ShortDate.breaks /\ ~h.DiscountPrcR.breaks /\ ~h.Rate.breaks
  BY HeaderOfOrder, CleanTexts
<1>6. ~m.Quantity.breaks /\ ~m.Packs.breaks /\ ~m.Price.breaks /\ ~m.DiscountPrc.breaks
  BY CleanTexts
<1>7. \A f \in DOMAIN record :
        record[f].breaks => \E l \in KeyLines : f \in FieldsAt[l] /\ Fields(h, m)[l].breaks
  BY <1>3, <1>4, <1>5, <1>6, OnlyKeysBreak
<1> QED BY <1>1, <1>2, <1>7

\* Together.
LEMMA RowIsSaid ==
  ASSUME NEW number, NEW account, NEW order, NEW rate, NEW d, NEW h, NEW m, NEW record,
         h = Header(number, account, order, rate), record = buildDOCRecord(h, m),
         m.ItemKey = d.sku, m.ItemName = sanitizeField(d.title),
         m.Quantity = Fixed(d.quantity, 2), m.Price = Fixed(d.price, 2),
         m.DiscountPrc = Fixed(d.discount, 2), m.Packs \in {NoText, Fixed(d.packs, 2)},
         d.packs > 0 => m.Packs = Fixed(d.packs, 2),
         order.type \in {"ORDER", "QUOATE", "RETURN"}
  PROVE  /\ RowSays(record, number, account, order, d)
         /\ \A l \in {21, 27} : Reads(record, l, ToString(rate)) /\ (rate \in OfDigits(7) => Whole(record, l))
<1>1. \A f \in DOMAIN record : record[f].breaks =>
        \E l \in DOMAIN KeysCopied(account, order, d) :
          f \in FieldsAt[l] /\ KeysCopied(account, order, d)[l].breaks
  BY RowKeepsLine
<1>2. Conveys(record, number, account, order, d, rate)
  BY RowFields
<1>3. \E code \in {30, 32, 40, 74} :
        /\ Reads(record, 4, ToString(code)) /\ Whole(record, 4)
        /\ (code \in {30, 32}) = (order.type = "ORDER")
        /\ order.type = "ORDER" =>
             ((code = 30) = Reads(record, 20, Shekel))
  BY RowType
<1> QED BY <1>1, <1>2, <1>3 DEF RowSays, Conveys

\* The DOC of any order that validateOrderRequest lets through says what was
\* ordered, and the rate in both its lines.
THEOREM DocSaysWhatWasOrdered ==
  ASSUME NEW number, NEW account, NEW order, NEW rate,
         order.type \in {"ORDER", "QUOATE", "RETURN"},
         order.details \in Seq(Range(order.details)),
         NEW doc, doc = generateDOC(Header(number, account, order, rate), Moves(order))
  PROVE  /\ SaysWhatWasOrdered(doc, number, account, order)
         /\ \A k \in DOMAIN doc : \A l \in {21, 27} :
              Reads(doc[k], l, ToString(rate)) /\ (rate \in OfDigits(7) => Whole(doc[k], l))
<1>1. PICK h, moves : h = Header(number, account, order, rate) /\ moves = Moves(order)
  OBVIOUS
<1>2. PICK N \in Nat : N = Len(order.details) /\ DOMAIN order.details = 1..N
  OBVIOUS
<1>3. DOMAIN moves = 1..N
  BY <1>1, <1>2 DEF Moves
<1>4. doc = [k \in 1..N |-> buildDOCRecord(h, moves[k])]
  BY <1>1, <1>3 DEF generateDOC
<1>5. Len(doc) = N /\ DOMAIN doc = 1..N
  BY <1>4
<1>6. DocPosition[85] = prmTotalRecordLength
  <2>1. PICK k \in 1..85 : k = 85 /\ Written[k] = 87
    BY DEF Written
  <2>2. DocPosition[k] = PrmPosition[87] - 1
    <3>1. DocPosition[k] = PrmPosition[Written[k]] - 1
      BY DocPositions
    <3> QED BY <2>1, <3>1
  <2>3. DocPosition[85] = 2892 - 1
    <3>1. DocPosition[k] = DocPosition[85]
      BY <2>1
    <3> QED BY <2>2, <3>1, RecordLength
  <2> QED BY <2>3, SMT DEF prmTotalRecordLength
<1>7. ASSUME NEW l \in Lines \ {63}
      PROVE  Cardinality(FieldsAt[l]) = 1
  BY FieldOfLine, FS_Singleton
<1>8. ASSUME NEW k \in 1..N
      PROVE  /\ RowSays(doc[k], number, account, order, order.details[k])
             /\ \A l \in {21, 27} : Reads(doc[k], l, ToString(rate)) /\ (rate \in OfDigits(7) => Whole(doc[k], l))
  <2>1. PICK d, m, record : d = order.details[k] /\ m = moves[k] /\ record = doc[k]
    OBVIOUS
  <2>2. m = [ItemKey |-> d.sku, ItemName |-> sanitizeField(d.title),
             Quantity |-> Fixed(d.quantity, 2),
             Packs |-> IF d.packs > 0 THEN Fixed(d.packs, 2) ELSE NoText,
             Price |-> Fixed(d.price, 2), DiscountPrc |-> Fixed(d.discount, 2)]
    BY <1>1, <1>2, <2>1 DEF Moves
  <2>3. record = buildDOCRecord(h, m)
    BY <1>4, <2>1
  <2>4. /\ RowSays(record, number, account, order, d)
        /\ \A l \in {21, 27} : Reads(record, l, ToString(rate)) /\ (rate \in OfDigits(7) => Whole(record, l))
    <3>1. /\ m.ItemKey = d.sku /\ m.ItemName = sanitizeField(d.title)
          /\ m.Quantity = Fixed(d.quantity, 2) /\ m.Price = Fixed(d.price, 2)
          /\ m.DiscountPrc = Fixed(d.discount, 2)
          /\ m.Packs \in {NoText, Fixed(d.packs, 2)}
          /\ d.packs > 0 => m.Packs = Fixed(d.packs, 2)
      BY <2>2
    <3> QED BY <1>1, <2>3, <3>1, RowIsSaid
  <2> QED BY <2>1, <2>4
<1>9. SaysWhatWasOrdered(doc, number, account, order)
  BY <1>2, <1>5, <1>6, <1>7, <1>8 DEF SaysWhatWasOrdered
<1> QED BY <1>5, <1>8, <1>9

-----------------------------------------------------------------------------
(* The import record and its rate.                                         *)

\* The rate of a record is one the ERP had since the order was taken; 1.0
\* stands only for a currency without a rate or for a lookup that failed.
RateOfTheTime(rate) ==
  \/ \E v \in since[Worker]..version : rate = RateAt(v)
  \/ rate = NoRate /\ (load.order.currency.text \notin Rated \/ Worker \in failed)

\* What the worker writes is the record of the order in hand, at such a rate:
\* ImportCarriesOrder without the bytes at which the record says it.
ImportAtRateOfTheTime ==
  answer[Worker].code = "written" =>
    \E rate : answer[Worker].body = RecordOf(rate) /\ RateOfTheTime(rate)

\* Every step keeps that so.
LEMMA ImportStep ==
  ASSUME Places, Next, ImportAtRateOfTheTime
  PROVE  ImportAtRateOfTheTime'
<1>1. Types /\ Data /\ WorkerPath /\ \A q \in Requests : Path(q)
  BY DEF Places
<1>2. /\ load' = load /\ Worker \in Clients /\ Worker \notin Requests
      /\ version \in Int /\ version' \in Int /\ version <= version'
      /\ failed \subseteq failed'
      /\ answer = [c \in Clients |-> answer[c]] /\ since \in [Clients -> 0..version]
  BY <1>1, NothingTakenBack, ApiAssumption DEF Clients, Data, Types
<1>3. \A rate : RecordOf(rate)' = RecordOf(rate)
  BY <1>2 DEF RecordOf
<1>4. ASSUME answer'[Worker] = answer[Worker], since'[Worker] = since[Worker]
      PROVE  ImportAtRateOfTheTime'
  <2>1. since[Worker]..version \subseteq since'[Worker]..version'
    <3>1. since[Worker] \in Int
      BY <1>2
    <3> QED BY <1>2, <1>4, <3>1
  <2>2. \A rate : RateOfTheTime(rate) => RateOfTheTime(rate)'
    BY <1>2, <2>1 DEF RateOfTheTime
  <2> QED BY <1>3, <1>4, <2>2 DEF ImportAtRateOfTheTime
<1>5. ASSUME NEW code, NEW body, Answers(Worker, code, body), code # "written"
      PROVE  ImportAtRateOfTheTime'
  <2>1. answer'[Worker].code = code
    BY <1>2, <1>5 DEF Answers, Answered
  <2> QED BY <1>5, <2>1 DEF ImportAtRateOfTheTime
<1>6. ASSUME NEW rate, Writes(rate), RateOfTheTime(rate)'
      PROVE  ImportAtRateOfTheTime'
  <2>1. answer'[Worker].body = RecordOf(rate)
    BY <1>2, <1>6 DEF Writes, Answers, Answered, RecordOf
  <2> QED BY <1>3, <1>6, <2>1 DEF ImportAtRateOfTheTime
<1>7. CASE Unmoved(Worker)
  BY <1>4, <1>7 DEF Unmoved
<1>8. CASE WorkerTakes
  <2>1. answer'[Worker].code # "written"
    BY <1>1, <1>8 DEF WorkerTakes, AsksFor, WorkerPath, NoAnswer
  <2> QED BY <2>1 DEF ImportAtRateOfTheTime
<1>9. CASE AccountFound \/ GetsConnection(Worker)
  BY <1>4, <1>9 DEF AccountFound, AsksFor, GetsConnection
<1>10. CASE AccountNotFound
  BY <1>5, <1>10 DEF AccountNotFound
<1>11. CASE RateReturns
  <2>1. Writes(queryRate) /\ version' = version /\ since' = since
    BY <1>11 DEF RateReturns
  <2>2. version' \in since'[Worker]..version'
    <3>1. since[Worker] \in 0..version
      BY <1>2
    <3> QED BY <1>2, <2>1, <3>1
  <2>3. PICK rate : rate = queryRate
    OBVIOUS
  <2>4. CASE load.order.currency.text \in Rated
    <3>1. rate = RateAt(version')
      BY <2>1, <2>3, <2>4 DEF queryRate
    <3>2. RateOfTheTime(rate)'
      BY <2>2, <3>1 DEF RateOfTheTime, RateAt
    <3> QED BY <1>6, <2>1, <2>3, <3>2
  <2>5. CASE load.order.currency.text \notin Rated
    <3>1. rate = NoRate
      BY <2>3, <2>5 DEF queryRate
    <3>2. RateOfTheTime(rate)'
      BY <1>2, <2>5, <3>1 DEF RateOfTheTime
    <3> QED BY <1>6, <2>1, <2>3, <3>2
  <2> QED BY <2>4, <2>5
<1>12. CASE StatementFails(Worker) \/ ConnectionLost(Worker)
  <2>1. FailedQuery(Worker) /\ Worker \in failed' /\ pc[Worker] = "running"
    BY <1>1, <1>12 DEF StatementFails, ConnectionLost, DatabaseFails, WorkerPath
  <2>2. query[Worker] \in {"account", "rate"}
    BY <1>1, <2>1 DEF WorkerPath
  <2>3. CASE query[Worker] = "account"
    BY <1>5, <2>1, <2>3 DEF FailedQuery
  <2>4. CASE query[Worker] = "rate"
    <3>1. Writes(NoRate)
      BY <2>1, <2>4 DEF FailedQuery
    <3>2. RateOfTheTime(NoRate)'
      BY <2>1 DEF RateOfTheTime, NoRate
    <3> QED BY <1>6, <3>1, <3>2
  <2> QED BY <2>2, <2>3, <2>4
<1>13. StepOf(Worker) =>
         \/ WorkerTakes \/ AccountFound \/ AccountNotFound \/ RateReturns
         \/ GetsConnection(Worker) \/ StatementFails(Worker) \/ ConnectionLost(Worker)
  BY <1>2 DEF StepOf, WorkerStep
<1> QED BY <1>1, <1>2, <1>7, <1>8, <1>9, <1>10, <1>11, <1>12, <1>13, WhoMoves

\* The rate of every import record is one the ERP had in the time of the order,
\* or the fallback for a reason.
THEOREM ImportRateIsOfTheTime ==
  Spec => []ImportAtRateOfTheTime
<1>1. ASSUME Init
      PROVE  ImportAtRateOfTheTime
  BY <1>1 DEF Init, ImportAtRateOfTheTime, NoAnswer, Clients
<1>2. ASSUME Places, ImportAtRateOfTheTime, [Next]_vars
      PROVE  ImportAtRateOfTheTime'
  <2>1. CASE Next
    BY <1>2, <2>1, ImportStep
  <2>2. CASE UNCHANGED vars
    <3>1. /\ answer' = answer /\ since' = since /\ version' = version /\ load' = load
          /\ failed' = failed
      BY <2>2 DEF vars, clientVars
    <3> QED BY <1>2, <3>1 DEF ImportAtRateOfTheTime, RateOfTheTime, RecordOf
  <2> QED BY <1>2, <2>1, <2>2
<1> QED BY <1>1, <1>2, PlacesInductive, PTL DEF Spec

\* ImportCarriesOrder holds in every state: every record that the worker writes
\* says what was ordered, at the bytes where the importer looks for it and with
\* a rate of the time, whatever fails or changes meanwhile.
THEOREM ImportsCarryTheirOrders ==
  Spec => []ImportCarriesOrder
<1>1. ASSUME Places, ImportAtRateOfTheTime
      PROVE  ImportCarriesOrder
  <2> SUFFICES ASSUME answer[Worker].code = "written"
               PROVE  LET doc == answer[Worker].body
                      IN  /\ SaysWhatWasOrdered(doc, load.order.number, load.order.account, load.order)
                          /\ \A k \in DOMAIN doc :
                               \/ \E v \in since[Worker]..version : ReadsRate(doc[k], RateAt(v))
                               \/ /\ ReadsRate(doc[k], NoRate)
                                  /\ load.order.currency.text \notin Rated \/ Worker \in failed
    BY DEF ImportCarriesOrder
  <2>1. PICK order : order = load.order
    OBVIOUS
  <2>2. order.type \in {"ORDER", "QUOATE", "RETURN"} /\ order.details \in Seq(Range(order.details))
    <3>1. load \in Loads /\ load.order # NoOrder
      BY <1>1 DEF Places, Types, WorkerPath, NoAnswer
    <3> QED BY <2>1, <3>1, OrdersAssumption
  <2>3. PICK rate : answer[Worker].body = RecordOf(rate) /\ RateOfTheTime(rate)
    BY <1>1 DEF ImportAtRateOfTheTime
  <2>4. PICK doc : doc = answer[Worker].body
    OBVIOUS
  <2>5. PICK number, account : number = order.number /\ account = order.account
    OBVIOUS
  <2>6. doc = generateDOC(Header(number, account, order, rate), Moves(order))
    BY <2>1, <2>3, <2>4, <2>5 DEF RecordOf
  <2>7. /\ SaysWhatWasOrdered(doc, number, account, order)
        /\ \A k \in DOMAIN doc : \A l \in {21, 27} :
             Reads(doc[k], l, ToString(rate)) /\ (rate \in OfDigits(7) => Whole(doc[k], l))
    BY <2>2, <2>6, DocSaysWhatWasOrdered
  <2>8. \A k \in DOMAIN doc : ReadsRate(doc[k], rate)
    BY <2>7 DEF ReadsRate
  <2>9. ASSUME NEW k \in DOMAIN doc
        PROVE  \/ \E v \in since[Worker]..version : ReadsRate(doc[k], RateAt(v))
               \/ /\ ReadsRate(doc[k], NoRate)
                  /\ load.order.currency.text \notin Rated \/ Worker \in failed
    BY <2>3, <2>8 DEF RateOfTheTime
  <2> QED BY <2>1, <2>4, <2>5, <2>7, <2>9
<1> QED BY <1>1, PlacesInductive, ImportRateIsOfTheTime, PTL
=============================================================================
