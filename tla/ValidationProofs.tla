--------------------------- MODULE ValidationProofs ---------------------------
(***************************************************************************)
(* Proofs about the judging of a spec, for any specs, targets, patterns    *)
(* and units.                                                              *)
(*                                                                         *)
(* That valid targets are distinct rests on what trimming a path leaves.   *)
(* That glob_match says what the policy language says goes over the text:  *)
(* a path joined at its slashes has each segment at an offset (Layout), so *)
(* have the tokens of a pattern, and from the last segment to the first    *)
(* the two recursions agree at those offsets (MatchesAreDescribed).  Both  *)
(* are recursive functions: each exists (Recursion), so what is chosen     *)
(* goes step by step, and induction is on intervals (Upwards, Downwards).  *)
(***************************************************************************)
EXTENDS Validation, SequenceTheorems, WellFoundedInduction, NaturalsInduction, TLAPS

-----------------------------------------------------------------------------
(* Induction on an interval, and what is done again and again.             *)

\* The order of the natural numbers, as the library's theorem on least elements
\* takes it.
LEMMA NatOrder == IsWellFoundedOn({p \in Nat \X Nat : p[1] < p[2]}, Nat)
<1>1. OpToRel(<, Nat) = {p \in Nat \X Nat : p[1] < p[2]}
  BY DEF OpToRel
<1> QED
  BY <1>1, NatLessThanWellFounded, Zenon

\* A set of numbers has a smallest one.
LEMMA SmallestIn ==
  ASSUME NEW T \in SUBSET Nat, T # {}
  PROVE  \E x \in T : \A y \in T : x <= y
<1> DEFINE R == {p \in Nat \X Nat : p[1] < p[2]}
<1>1. IsWellFoundedOn(R, Nat)
  BY NatOrder
<1>2. ASSUME NEW x \in Nat, NEW y \in Nat, y < x PROVE <<y, x>> \in R
  BY <1>2
<1> HIDE DEF R
<1>3. PICK x \in T : \A y \in T : <<y, x>> \notin R
  BY <1>1, WFMin
<1>4. ASSUME NEW y \in T PROVE x <= y
  <2>1. ~(y < x)
    BY <1>2, <1>3
  <2> QED
    BY <2>1
<1> QED
  BY <1>4

\* A set of numbers up to n has a largest one: the smallest distance to n.
LEMMA LargestIn ==
  ASSUME NEW n \in Nat, NEW T \in SUBSET (0 .. n), T # {}
  PROVE  \E x \in T : \A y \in T : y <= x
<1> DEFINE D == {n - i : i \in T}
<1>1. D \in SUBSET Nat /\ D # {}
  <2>1. \A i \in T : i \in Int /\ n - i \in Nat
    OBVIOUS
  <2>2. \A d \in D : d \in Nat
    BY <2>1
  <2>3. D # {}
    OBVIOUS
  <2> QED
    BY <2>2, <2>3
<1>2. PICK d \in D : \A e \in D : d <= e
  BY <1>1, SmallestIn
<1>3. PICK x \in T : d = n - x
  OBVIOUS
<1>4. ASSUME NEW y \in T PROVE y <= x
  <2>1. n - x <= n - y
    BY <1>2, <1>3
  <2> QED
    BY <2>1
<1> QED
  BY <1>4

\* Induction on an interval, upwards.
LEMMA Upwards ==
  ASSUME NEW m \in Nat, NEW n \in Nat, NEW P,
         m \in P, \A k \in m .. n - 1 : k \in P => k + 1 \in P
  PROVE  \A k \in m .. n : k \in P
<1> DEFINE T == {k \in m .. n : k \notin P}
<1> SUFFICES ASSUME T # {} PROVE FALSE
  OBVIOUS
<1>1. T \in SUBSET Nat
  OBVIOUS
<1>2. PICK x \in T : \A y \in T : x <= y
  BY <1>1, SmallestIn
<1>3. x \in Nat /\ x > m /\ x <= n
  OBVIOUS
<1>4. x - 1 \in m .. n - 1 /\ x - 1 \notin T
  BY <1>2, <1>3
<1>5. x - 1 \in P
  BY <1>3, <1>4
<1>6. x - 1 + 1 \in P
  BY <1>4, <1>5
<1> QED
  BY <1>3, <1>6

\* And downwards.
LEMMA Downwards ==
  ASSUME NEW m \in Nat, NEW n \in Nat, NEW P,
         n \in P, \A k \in m .. n - 1 : k + 1 \in P => k \in P
  PROVE  \A k \in m .. n : k \in P
<1> DEFINE T == {k \in m .. n : k \notin P}
<1> SUFFICES ASSUME T # {} PROVE FALSE
  OBVIOUS
<1>1. T \in SUBSET (0 .. n)
  OBVIOUS
<1>2. PICK x \in T : \A y \in T : y <= x
  BY <1>1, LargestIn
<1>3. x \in Nat /\ x >= m /\ x < n
  OBVIOUS
<1>4. x \in m .. n - 1 /\ x + 1 \in m .. n /\ x + 1 \notin T
  BY <1>2, <1>3
<1>5. x + 1 \in P
  BY <1>4
<1> QED
  BY <1>4, <1>5

\* From v, step[i] goes to the i-th value.
Iterates(n, V, v, step) ==
  \E m \in [0 .. n -> V] : m[0] = v /\ \A i \in 1 .. n : m[i] = step[i][m[i - 1]]

\* What goes from one value to the next n times exists as a function.
LEMMA Iteration ==
  ASSUME NEW n \in Nat, NEW V, NEW v \in V, NEW step \in [1 .. n -> [V -> V]]
  PROVE  Iterates(n, V, v, step)
<1> DEFINE Good(k, m) == m[0] = v /\ \A i \in 1 .. k : m[i] = step[i][m[i - 1]]
           P == {k \in 0 .. n : \E m \in [0 .. k -> V] : Good(k, m)}
<1>1. 0 \in P
  <2> DEFINE m == [i \in 0 .. 0 |-> v]
  <2>1. m \in [0 .. 0 -> V] /\ Good(0, m)
    OBVIOUS
  <2> HIDE DEF m
  <2>2. 0 \in 0 .. n
    OBVIOUS
  <2> QED
    BY <2>1, <2>2
<1>2. ASSUME NEW k \in 0 .. n - 1, k \in P PROVE k + 1 \in P
  <2>1. PICK m \in [0 .. k -> V] : Good(k, m)
    BY <1>2
  <2> DEFINE w == [i \in 0 .. k + 1 |-> IF i <= k THEN m[i] ELSE step[k + 1][m[k]]]
  <2>2. step[k + 1] \in [V -> V] /\ m[k] \in V
    OBVIOUS
  <2>3. w \in [0 .. k + 1 -> V]
    BY <2>2
  <2>4. \A i \in 0 .. k : w[i] = m[i]
    OBVIOUS
  <2>5. w[k + 1] = step[k + 1][m[k]]
    OBVIOUS
  <2> HIDE DEF w
  <2>6. ASSUME NEW i \in 1 .. k + 1 PROVE w[i] = step[i][w[i - 1]]
    <3>1. CASE i \in 1 .. k
      <4>1. i \in 0 .. k /\ i - 1 \in 0 .. k
        BY <3>1
      <4> QED
        BY <2>1, <2>4, <3>1, <4>1
    <3>2. CASE i = k + 1
      <4>1. i - 1 = k /\ k \in 0 .. k
        BY <3>2
      <4> QED
        BY <2>4, <2>5, <3>2, <4>1
    <3> QED
      BY <3>1, <3>2
  <2>7. w[0] = v
    BY <2>1, <2>4
  <2>8. Good(k + 1, w)
    BY <2>6, <2>7
  <2>9. k + 1 \in 0 .. n
    OBVIOUS
  <2> QED
    BY <2>3, <2>8, <2>9
<1> HIDE DEF P
<1>3. \A k \in 0 .. n : k \in P
  BY <1>1, <1>2, Upwards
<1>4. n \in P
  BY <1>3
<1> QED
  BY <1>4 DEF P, Iterates

-----------------------------------------------------------------------------
(* How pieces lie in the text they are joined to.                          *)

\* The joining of Joined: f is it where f = Join(p, f).
Join(p, f) == [i \in 1 .. Len(p) |->
                 IF i = 1 THEN p[1] ELSE f[i - 1] \o <<Slash>> \o p[i]]

\* Where the pieces of p begin in J.
Layout(p, off, J) ==
  /\ off[1] = 0
  /\ Len(J) = off[Len(p)] + Len(p[Len(p)])
  /\ \A i \in 1 .. Len(p) : /\ off[i] + Len(p[i]) <= Len(J)
                            /\ \A y \in 1 .. Len(p[i]) : J[off[i] + y] = p[i][y]
  /\ \A i \in 1 .. Len(p) - 1 : /\ off[i + 1] = off[i] + Len(p[i]) + 1
                                /\ J[off[i + 1]] = Slash

\* There is a function that joins as Joined does.
LEMMA JoinExists ==
  ASSUME NEW C, Slash \in C, NEW p \in Seq(Seq(C)), p # <<>>
  PROVE  \E f \in [1 .. Len(p) -> Seq(C)] : f = Join(p, f)
<1> DEFINE n == Len(p)
           step == [i \in 1 .. n - 1 |-> [x \in Seq(C) |-> x \o <<Slash>> \o p[i + 1]]]
<1>1. n \in Nat \ {0}
  BY EmptySeq
<1>2. \A i \in 1 .. n : p[i] \in Seq(C)
  OBVIOUS
<1>3. step \in [1 .. n - 1 -> [Seq(C) -> Seq(C)]]
  <2>1. ASSUME NEW i \in 1 .. n - 1, NEW x \in Seq(C)
        PROVE  x \o <<Slash>> \o p[i + 1] \in Seq(C)
    <3>1. <<Slash>> \in Seq(C)
      OBVIOUS
    <3>2. i + 1 \in 1 .. n
      BY <1>1
    <3>3. p[i + 1] \in Seq(C)
      BY <1>2, <3>2
    <3>4. x \o <<Slash>> \in Seq(C)
      BY <3>1, ConcatProperties
    <3> QED
      BY <3>3, <3>4, ConcatProperties
  <2> QED
    BY <2>1
<1>4. \A i \in 1 .. n - 1 : \A x \in Seq(C) : step[i][x] = x \o <<Slash>> \o p[i + 1]
  OBVIOUS
<1> HIDE DEF step
<1>5. p[1] \in Seq(C) /\ n - 1 \in Nat
  BY <1>1, <1>2
<1>6. PICK m \in [0 .. n - 1 -> Seq(C)] :
        m[0] = p[1] /\ \A i \in 1 .. n - 1 : m[i] = step[i][m[i - 1]]
  <2> DEFINE V == Seq(C)
             k == n - 1
             v == p[1]
  <2>1. k \in Nat /\ v \in V /\ step \in [1 .. k -> [V -> V]]
    BY <1>3, <1>5
  <2> HIDE DEF V, k, v, n
  <2>2. Iterates(k, V, v, step)
    BY <2>1, Iteration
  <2> QED
    BY <2>2 DEF V, k, v, n, Iterates
<1> DEFINE f == [i \in 1 .. n |-> m[i - 1]]
<1>7. f \in [1 .. n -> Seq(C)]
  BY <1>1
<1>8. ASSUME NEW i \in 1 .. n
      PROVE  f[i] = IF i = 1 THEN p[1] ELSE f[i - 1] \o <<Slash>> \o p[i]
  <2>1. CASE i = 1
    BY <1>6, <2>1
  <2>2. CASE i # 1
    <3>1. i - 1 \in 1 .. n - 1 /\ i - 2 \in 0 .. n - 1 /\ i - 1 \in 1 .. n /\ i - 1 + 1 = i
      BY <1>1, <2>2
    <3>2. m[i - 1] = step[i - 1][m[i - 1 - 1]] /\ i - 1 - 1 = i - 2
      BY <1>6, <3>1
    <3>3. m[i - 2] \in Seq(C)
      BY <3>1
    <3>4. step[i - 1][m[i - 2]] = m[i - 2] \o <<Slash>> \o p[i]
      BY <1>4, <3>1, <3>3
    <3>5. f[i] = m[i - 1] /\ f[i - 1] = m[i - 2]
      BY <3>1
    <3> QED
      BY <2>2, <3>2, <3>4, <3>5
  <2> QED
    BY <2>1, <2>2
<1> HIDE DEF f
<1>9. f = Join(p, f)
  BY <1>7, <1>8 DEF Join
<1> QED
  BY <1>7, <1>9

\* What f says of a piece follows from what it says of the one before.
Grows(p, f) ==
  /\ DOMAIN f = 1 .. Len(p) /\ f[1] = p[1]
  /\ \A k \in 1 .. Len(p) - 1 : f[k + 1] = f[k] \o <<Slash>> \o p[k + 1]

\* It begins with the first piece and appends a slash and a piece at a time.
LEMMA JoinSteps ==
  ASSUME NEW p, Len(p) \in Nat \ {0}, NEW f, f = Join(p, f)
  PROVE  Grows(p, f)
<1> DEFINE n == Len(p)
<1>0. n \in Nat \ {0}
  OBVIOUS
<1>1. /\ DOMAIN f = 1 .. n
      /\ \A i \in 1 .. n : f[i] = IF i = 1 THEN p[1] ELSE f[i - 1] \o <<Slash>> \o p[i]
  BY DEF Join
<1> HIDE DEF n
<1>2. f[1] = p[1]
  <2>1. 1 \in 1 .. n
    BY <1>0
  <2> QED
    BY <1>1, <2>1
<1>3. ASSUME NEW k \in 1 .. n - 1 PROVE f[k + 1] = f[k] \o <<Slash>> \o p[k + 1]
  <2> DEFINE i == k + 1
  <2>1. i \in 1 .. n /\ i # 1 /\ i - 1 = k
    BY <1>0
  <2> HIDE DEF i
  <2>2. f[i] = f[i - 1] \o <<Slash>> \o p[i]
    BY <1>1, <2>1
  <2>3. f[i] = f[k] \o <<Slash>> \o p[i]
    BY <2>1, <2>2
  <2> QED
    BY <2>3 DEF i
<1> QED
  BY <1>1, <1>2, <1>3 DEF n, Grows

\* The joined text is what such a function ends with: there is but one.
LEMMA JoinedIsJoin ==
  ASSUME NEW C, Slash \in C, NEW p \in Seq(Seq(C)), p # <<>>
  PROVE  \E f \in [1 .. Len(p) -> Seq(C)] : f = Join(p, f) /\ Joined(p) = f[Len(p)]
<1> DEFINE f == CHOOSE f : f = Join(p, f)
<1>1. f = Join(p, f)
  BY JoinExists
<1>2. Joined(p) = f[Len(p)]
  BY Zenon DEF Joined, Join
<1>3. PICK g \in [1 .. Len(p) -> Seq(C)] : g = Join(p, g)
  BY JoinExists
<1> HIDE DEF f
<1>4. Len(p) \in Nat \ {0}
  BY EmptySeq
<1> DEFINE n == Len(p)
<1>5. \A k \in 1 .. n : f[k] = g[k]
  <2> DEFINE P == {i \in 1 .. n : f[i] = g[i]}
  <2>0. f[1] = p[1] /\ \A k \in 1 .. n - 1 : f[k + 1] = f[k] \o <<Slash>> \o p[k + 1]
    <3>1. Grows(p, f)
      BY <1>1, <1>4, JoinSteps
    <3> QED
      BY <3>1 DEF Grows
  <2>1. g[1] = p[1] /\ \A k \in 1 .. n - 1 : g[k + 1] = g[k] \o <<Slash>> \o p[k + 1]
    <3>1. Grows(p, g)
      BY <1>3, <1>4, JoinSteps
    <3> QED
      BY <3>1 DEF Grows
  <2>2. n \in Nat \ {0}
    BY <1>4
  <2> HIDE DEF n
  <2>3. 1 \in P
    BY <2>0, <2>1, <2>2
  <2>4. ASSUME NEW k \in 1 .. n - 1, k \in P PROVE k + 1 \in P
    <3>1. k + 1 \in 1 .. n
      BY <2>2
    <3>2. f[k + 1] = g[k + 1]
      BY <2>0, <2>1, <2>4
    <3> QED
      BY <3>1, <3>2
  <2> HIDE DEF P
  <2>5. \A k \in 1 .. n : k \in P
    BY <2>2, <2>3, <2>4, Upwards
  <2> QED
    BY <2>5 DEF P
<1>6. f = g
  <2>1. DOMAIN f = 1 .. n
    <3>1. Grows(p, f)
      BY <1>1, <1>4, JoinSteps
    <3> QED
      BY <3>1 DEF Grows
  <2>2. f = [i \in 1 .. n |-> f[i]] /\ g = [i \in 1 .. n |-> g[i]]
    BY <1>1, <1>3, <2>1 DEF Join
  <2> HIDE DEF n
  <2> QED
    BY <1>5, <2>2
<1> QED
  BY <1>2, <1>3, <1>6

\* One piece after another, with a slash between them.
LEMMA Between ==
  ASSUME NEW C, Slash \in C, NEW a \in Seq(C), NEW b \in Seq(C)
  PROVE  /\ Len(a \o <<Slash>> \o b) = Len(a) + 1 + Len(b)
         /\ \A x \in 1 .. Len(a) : (a \o <<Slash>> \o b)[x] = a[x]
         /\ (a \o <<Slash>> \o b)[Len(a) + 1] = Slash
         /\ \A y \in 1 .. Len(b) : (a \o <<Slash>> \o b)[Len(a) + 1 + y] = b[y]
<1> DEFINE s == a \o <<Slash>>
           m == Len(a)
           l == Len(b)
<1>1. m \in Nat /\ l \in Nat
  BY LenProperties
<1>2. /\ s \in Seq(C) /\ Len(s) = m + 1 /\ s[m + 1] = Slash
      /\ \A x \in 1 .. m : s[x] = a[x]
  <2>1. <<Slash>> \in Seq(C) /\ Len(<<Slash>>) = 1 /\ <<Slash>>[1] = Slash
    OBVIOUS
  <2>2. /\ s \in Seq(C) /\ Len(s) = m + 1
        /\ \A x \in 1 .. m + 1 : s[x] = IF x <= m THEN a[x] ELSE <<Slash>>[x - m]
    BY <2>1, ConcatProperties
  <2> HIDE DEF s, m
  <2>4. s[m + 1] = Slash
    <3> DEFINE x == m + 1
    <3>1. x \in 1 .. m + 1 /\ ~(x <= m) /\ x - m = 1
      BY <1>1
    <3> HIDE DEF x
    <3>2. s[x] = <<Slash>>[x - m]
      BY <2>2, <3>1
    <3> QED
      BY <2>1, <3>1, <3>2 DEF x
  <2>5. \A x \in 1 .. m : x \in 1 .. m + 1 /\ x <= m
    BY <1>1
  <2> QED
    BY <2>2, <2>4, <2>5
<1>3. /\ Len(s \o b) = Len(s) + Len(b)
      /\ \A x \in 1 .. Len(s) + Len(b) :
           (s \o b)[x] = IF x <= Len(s) THEN s[x] ELSE b[x - Len(s)]
  <2> HIDE DEF s
  <2> QED
    BY <1>2, ConcatProperties
<1> DEFINE u == s \o b
<1>4. /\ Len(u) = m + 1 + l
      /\ \A x \in 1 .. m + 1 + l : u[x] = IF x <= m + 1 THEN s[x] ELSE b[x - (m + 1)]
  BY <1>2, <1>3
<1> HIDE DEF s, m, l, u
<1>5. \A x \in 1 .. m + 1 : x \in 1 .. m + 1 + l /\ u[x] = s[x]
  BY <1>1, <1>4
<1>6. ASSUME NEW y \in 1 .. l PROVE u[m + 1 + y] = b[y]
  <2> DEFINE x == m + 1 + y
  <2>1. x \in 1 .. m + 1 + l /\ ~(x <= m + 1) /\ x - (m + 1) = y
    BY <1>1
  <2> HIDE DEF x
  <2>2. u[x] = b[x - (m + 1)]
    BY <1>4, <2>1
  <2> QED
    BY <2>1, <2>2 DEF x
<1>7. m + 1 \in 1 .. m + 1 /\ \A x \in 1 .. m : x \in 1 .. m + 1
  BY <1>1
<1>8. /\ Len(u) = m + 1 + l /\ \A x \in 1 .. m : u[x] = a[x]
      /\ u[m + 1] = Slash /\ \A y \in 1 .. l : u[m + 1 + y] = b[y]
  BY <1>2, <1>4, <1>5, <1>6, <1>7
<1> QED
  BY <1>8 DEF s, m, l, u

\* Joining loses nothing: every piece stands where its turn is, with a slash between
\* each two.
LEMMA JoinedLayout ==
  ASSUME NEW C, Slash \in C, NEW p \in Seq(Seq(C)), p # <<>>
  PROVE  /\ Joined(p) \in Seq(C)
         /\ \E off \in [1 .. Len(p) -> Nat] : Layout(p, off, Joined(p))
<1>1. PICK f \in [1 .. Len(p) -> Seq(C)] : f = Join(p, f) /\ Joined(p) = f[Len(p)]
  BY JoinedIsJoin
<1> DEFINE n == Len(p)
           J == Joined(p)
           l == [i \in 1 .. n |-> Len(p[i])]
           m == [i \in 1 .. n |-> Len(f[i])]
           off == [i \in 1 .. n |-> m[i] - l[i]]
<1>2. n \in Nat \ {0} /\ J = f[n] /\ f \in [1 .. n -> Seq(C)]
  BY <1>1, EmptySeq
<1>3. \A i \in 1 .. n : p[i] \in Seq(C)
  BY ElementOfSeq
<1>4. f[1] = p[1] /\ \A k \in 1 .. n - 1 : f[k + 1] = f[k] \o <<Slash>> \o p[k + 1]
  <2>1. Grows(p, f)
    BY <1>1, <1>2, JoinSteps
  <2> QED
    BY <2>1 DEF Grows
<1>5. /\ l \in [1 .. n -> Nat] /\ m \in [1 .. n -> Nat] /\ DOMAIN off = 1 .. n
      /\ \A i \in 1 .. n : /\ l[i] = Len(p[i]) /\ m[i] = Len(f[i])
                           /\ off[i] = m[i] - l[i]
  <2>1. \A i \in 1 .. n : Len(p[i]) \in Nat
    BY <1>3, LenProperties
  <2>2. \A i \in 1 .. n : Len(f[i]) \in Nat
    BY <1>2, LenProperties
  <2> HIDE DEF n
  <2> QED
    BY <2>1, <2>2
<1> HIDE DEF n, J, l, m, off
<1>6. ASSUME NEW i \in 1 .. n - 1, NEW h, h = i + 1
      PROVE  /\ i \in 1 .. n /\ h \in 1 .. n /\ m[h] = m[i] + 1 + l[h]
             /\ \A x \in 1 .. m[i] : f[h][x] = f[i][x]
             /\ f[h][m[i] + 1] = Slash
             /\ \A y \in 1 .. l[h] : f[h][m[i] + 1 + y] = p[h][y]
  <2>1. i \in 1 .. n /\ h \in 1 .. n
    BY <1>2, <1>6
  <2> DEFINE a == f[i]
             b == p[h]
  <2>2. f[h] = a \o <<Slash>> \o b
    BY <1>4, <1>6
  <2>3. a \in Seq(C) /\ b \in Seq(C)
    BY <1>2, <1>3, <2>1
  <2>4. Len(a) = m[i] /\ Len(b) = l[h] /\ Len(f[h]) = m[h] /\ m[i] \in Nat /\ l[h] \in Nat
    BY <1>5, <2>1
  <2> HIDE DEF a, b
  <2>5. /\ Len(a \o <<Slash>> \o b) = Len(a) + 1 + Len(b)
        /\ \A x \in 1 .. Len(a) : (a \o <<Slash>> \o b)[x] = a[x]
        /\ (a \o <<Slash>> \o b)[Len(a) + 1] = Slash
        /\ \A y \in 1 .. Len(b) : (a \o <<Slash>> \o b)[Len(a) + 1 + y] = b[y]
    BY <2>3, Between
  <2> QED
    BY <2>1, <2>2, <2>4, <2>5 DEF a, b
<1>7. ASSUME NEW i \in 1 .. n
      PROVE  m[i] <= m[n] /\ \A x \in 1 .. m[i] : J[x] = f[i][x]
  <2> DEFINE P == {k \in i .. n : m[i] <= m[k] /\ \A x \in 1 .. m[i] : f[k][x] = f[i][x]}
  <2>1. i \in P
    BY <1>2, <1>5
  <2>2. ASSUME NEW k \in i .. n - 1, k \in P PROVE k + 1 \in P
    <3> DEFINE h == k + 1
    <3>1. k \in 1 .. n - 1 /\ h \in i .. n /\ h = k + 1
      BY <1>2
    <3> HIDE DEF h
    <3>2. m[h] = m[k] + 1 + l[h] /\ k \in 1 .. n /\ h \in 1 .. n
      BY <1>6, <3>1
    <3>3. m[i] \in Nat /\ m[k] \in Nat /\ l[h] \in Nat
      BY <1>5, <3>2
    <3>4. m[i] <= m[k] /\ \A x \in 1 .. m[i] : f[k][x] = f[i][x]
      BY <2>2
    <3>5. m[i] <= m[h]
      BY <3>2, <3>3, <3>4
    <3>6. ASSUME NEW x \in 1 .. m[i] PROVE f[h][x] = f[i][x]
      <4>1. x \in 1 .. m[k]
        BY <3>3, <3>4
      <4> QED
        BY <1>6, <3>1, <3>4, <4>1
    <3>7. h \in P
      BY <3>1, <3>5, <3>6
    <3> QED
      BY <3>7 DEF h
  <2> HIDE DEF P
  <2>3. i \in Nat /\ n \in Nat /\ n \in i .. n
    BY <1>2
  <2>4. n \in P
    BY <2>1, <2>2, <2>3, Upwards
  <2> QED
    BY <1>2, <2>4 DEF P
<1>8. off[1] = 0 /\ 1 \in 1 .. n /\ n \in 1 .. n
  BY <1>2, <1>4, <1>5
<1>9. ASSUME NEW i \in 1 .. n - 1, NEW h, h = i + 1
      PROVE  h \in 1 .. n /\ off[h] = m[i] + 1 /\ off[i] + l[i] = m[i] /\ m[i] \in Nat
  <2>1. h \in 1 .. n /\ i \in 1 .. n /\ m[h] = m[i] + 1 + l[h]
    BY <1>6, <1>9
  <2>2. /\ off[h] = m[h] - l[h] /\ off[i] = m[i] - l[i]
        /\ m[h] \in Nat /\ m[i] \in Nat /\ l[h] \in Nat /\ l[i] \in Nat
    BY <1>5, <2>1
  <2> QED
    BY <2>1, <2>2
<1>10. ASSUME NEW i \in 1 .. n
       PROVE  /\ off[i] \in Nat /\ off[i] + l[i] = m[i]
              /\ \A y \in 1 .. l[i] : f[i][off[i] + y] = p[i][y]
  <2>1. off[i] + l[i] = m[i]
    BY <1>5
  <2>2. CASE i = 1
    <3>1. \A y \in 1 .. l[i] : off[i] + y = y
      BY <1>5, <1>8, <2>2
    <3> QED
      BY <1>4, <1>8, <2>1, <2>2, <3>1
  <2>3. CASE i # 1
    <3> DEFINE k == i - 1
    <3>1. k \in 1 .. n - 1 /\ i = k + 1
      BY <1>2, <2>3
    <3> HIDE DEF k
    <3>2. off[i] = m[k] + 1 /\ m[k] \in Nat
      BY <1>9, <3>1
    <3>3. \A y \in 1 .. l[i] : f[i][m[k] + 1 + y] = p[i][y]
      BY <1>6, <3>1
    <3> QED
      BY <2>1, <3>2, <3>3
  <2> QED
    BY <2>2, <2>3
<1>11. off \in [1 .. n -> Nat]
  <2>1. \A i \in 1 .. n : off[i] \in Nat
    BY <1>10
  <2>2. off = [i \in 1 .. n |-> off[i]]
    BY DEF off
  <2> QED
    BY <2>1, <2>2
<1>12. J \in Seq(C) /\ Len(J) = m[n]
  BY <1>2, <1>5, <1>8
<1>13. ASSUME NEW i \in 1 .. n
       PROVE  off[i] + l[i] <= Len(J) /\ \A y \in 1 .. l[i] : J[off[i] + y] = p[i][y]
  <2>1. off[i] \in Nat /\ l[i] \in Nat /\ off[i] + l[i] = m[i]
    BY <1>5, <1>10
  <2>2. ASSUME NEW y \in 1 .. l[i] PROVE J[off[i] + y] = p[i][y]
    <3> DEFINE x == off[i] + y
    <3>1. x \in 1 .. m[i]
      BY <2>1
    <3> HIDE DEF x
    <3>2. J[x] = f[i][x]
      BY <1>7, <3>1
    <3>3. f[i][x] = p[i][y]
      BY <1>10 DEF x
    <3> QED
      BY <3>2, <3>3 DEF x
  <2>3. m[i] <= m[n]
    BY <1>7
  <2> QED
    BY <1>12, <2>1, <2>2, <2>3
<1>14. ASSUME NEW i \in 1 .. n - 1
       PROVE  off[i + 1] = off[i] + l[i] + 1 /\ J[off[i + 1]] = Slash
  <2> DEFINE h == i + 1
  <2>1. h = i + 1
    OBVIOUS
  <2> HIDE DEF h
  <2>2. /\ h \in 1 .. n /\ off[h] = m[i] + 1 /\ off[i] + l[i] = m[i] /\ m[i] \in Nat
        /\ m[h] = m[i] + 1 + l[h] /\ f[h][m[i] + 1] = Slash
    BY <1>6, <1>9, <2>1
  <2>3. l[h] \in Nat
    BY <1>5, <2>2
  <2>4. m[i] + 1 \in 1 .. m[h]
    BY <2>2, <2>3
  <2>5. J[m[i] + 1] = Slash
    BY <1>7, <2>2, <2>4
  <2> QED
    BY <2>1, <2>2, <2>5
<1>15. Layout(p, off, Joined(p))
  <2>1. Len(p) = n /\ J = Joined(p) /\ \A i \in 1 .. n : Len(p[i]) = l[i]
    BY <1>5 DEF n, J
  <2>2. off[1] = 0 /\ Len(J) = off[n] + Len(p[n])
    <3>1. off[n] + l[n] = m[n]
      BY <1>8, <1>10
    <3> QED
      BY <1>8, <1>12, <2>1, <3>1
  <2>3. ASSUME NEW i \in 1 .. n
        PROVE  /\ off[i] + Len(p[i]) <= Len(J)
               /\ \A y \in 1 .. Len(p[i]) : J[off[i] + y] = p[i][y]
    BY <1>13, <2>1
  <2>4. ASSUME NEW i \in 1 .. n - 1
        PROVE  /\ off[i + 1] = off[i] + Len(p[i]) + 1
               /\ J[off[i + 1]] = Slash
    <3>1. i \in 1 .. n
      BY <1>2
    <3> QED
      BY <1>14, <2>1, <3>1
  <2> QED
    BY <2>1, <2>2, <2>3, <2>4 DEF Layout
<1> QED
  BY <1>11, <1>12, <1>15 DEF n, J

-----------------------------------------------------------------------------
(* Recursion from the end of a list to its beginning.                      *)

\* From v, for what comes after the last, to the first.
Recurses(n, V, v, step) ==
  \E m \in [1 .. n + 1 -> V] : m[n + 1] = v /\ \A i \in 1 .. n : m[i] = step[i][m[i + 1]]

\* What goes from a value to the next n times backwards exists as a function too.
LEMMA Recursion ==
  ASSUME NEW n \in Nat, NEW V, NEW v \in V, NEW step \in [1 .. n -> [V -> V]]
  PROVE  Recurses(n, V, v, step)
<1> DEFINE back == [i \in 1 .. n |-> step[n + 1 - i]]
<1>1. back \in [1 .. n -> [V -> V]] /\ \A i \in 1 .. n : back[i] = step[n + 1 - i]
  <2>1. \A i \in 1 .. n : n + 1 - i \in 1 .. n
    OBVIOUS
  <2> QED
    BY <2>1
<1> HIDE DEF back
<1>2. Iterates(n, V, v, back)
  BY <1>1, Iteration
<1>3. PICK w \in [0 .. n -> V] : w[0] = v /\ \A i \in 1 .. n : w[i] = back[i][w[i - 1]]
  BY <1>2 DEF Iterates
<1> DEFINE m == [i \in 1 .. n + 1 |-> w[n + 1 - i]]
<1>4. m \in [1 .. n + 1 -> V] /\ \A i \in 1 .. n + 1 : m[i] = w[n + 1 - i]
  <2>1. \A i \in 1 .. n + 1 : n + 1 - i \in 0 .. n
    OBVIOUS
  <2> QED
    BY <2>1
<1> HIDE DEF m
<1>5. m[n + 1] = v
  <2>1. n + 1 \in 1 .. n + 1 /\ n + 1 - (n + 1) = 0
    OBVIOUS
  <2> QED
    BY <1>3, <1>4, <2>1
<1>6. ASSUME NEW i \in 1 .. n PROVE m[i] = step[i][m[i + 1]]
  <2> DEFINE k == n + 1 - i
             h == i + 1
  <2>1. /\ k \in 1 .. n /\ h \in 1 .. n + 1 /\ i \in 1 .. n + 1
        /\ k - 1 = n + 1 - h /\ n + 1 - k = i /\ n + 1 - i = k
    OBVIOUS
  <2> HIDE DEF k, h
  <2>2. m[i] = w[k] /\ m[h] = w[k - 1]
    BY <1>4, <2>1
  <2>3. w[k] = step[i][w[k - 1]]
    BY <1>1, <1>3, <2>1
  <2> QED
    BY <2>2, <2>3 DEF h
<1> QED
  BY <1>4, <1>5, <1>6 DEF Recurses

\* One step of glob_match, when the rest matches or not.
MatchStep(p, path, i, rest) ==
  IF i = Len(p.segments) /\ p.prefix
    THEN IF p.segments[i] = PLUS THEN path[i] # <<>> ELSE IsPrefix(p.segments[i], path[i])
    ELSE /\ MatchesSegment(p.segments[i], path[i])
         /\ IF i < Len(path) THEN i # Len(p.segments) /\ rest ELSE i = Len(p.segments)

\* The loop of glob_match: m is it where m = Matching(p, path, m).
Matching(p, path, m) == [i \in 1 .. Len(p.segments) |-> MatchStep(p, path, i, m[i + 1])]

\* There is a function that is defined as match of GlobMatch is.
LEMMA MatchingExists ==
  ASSUME NEW p, NEW path, Len(p.segments) \in Nat
  PROVE  \E m : m = Matching(p, path, m)
<1> DEFINE n == Len(p.segments)
           step == [i \in 1 .. n |-> [x \in BOOLEAN |-> MatchStep(p, path, i, x)]]
<1>1. step \in [1 .. n -> [BOOLEAN -> BOOLEAN]]
  <2>1. ASSUME NEW i \in 1 .. n, NEW x \in BOOLEAN PROVE MatchStep(p, path, i, x) \in BOOLEAN
    BY DEF MatchStep, MatchesSegment, IsPrefix
  <2> QED
    BY <2>1
<1>2. \A i \in 1 .. n : \A x \in BOOLEAN : step[i][x] = MatchStep(p, path, i, x)
  OBVIOUS
<1>3. n \in Nat /\ TRUE \in BOOLEAN
  OBVIOUS
<1>4. Recurses(n, BOOLEAN, TRUE, step)
  <2> HIDE DEF n, step
  <2> QED
    BY <1>1, <1>3, Recursion
<1> HIDE DEF step
<1>5. PICK w \in [1 .. n + 1 -> BOOLEAN] : \A i \in 1 .. n : w[i] = step[i][w[i + 1]]
  <2> HIDE DEF n
  <2> QED
    BY <1>4 DEF Recurses
<1> DEFINE m == [i \in 1 .. n |-> w[i]]
<1>6. ASSUME NEW i \in 1 .. n PROVE w[i] = MatchStep(p, path, i, m[i + 1])
  <2> DEFINE h == i + 1
  <2>1. h \in 1 .. n + 1 /\ (i # n => h \in 1 .. n)
    BY <1>3
  <2> HIDE DEF h
  <2>2. w[h] \in BOOLEAN /\ w[i] = step[i][w[h]]
    BY <1>5, <2>1 DEF h
  <2>3. w[i] = MatchStep(p, path, i, w[h])
    BY <1>2, <2>2
  <2>4. CASE i = n
    BY <2>3, <2>4 DEF MatchStep
  <2>5. CASE i # n
    <3>1. m[h] = w[h]
      BY <2>1, <2>5
    <3> HIDE DEF m
    <3> QED
      BY <2>3, <3>1 DEF h
  <2> QED
    BY <2>4, <2>5
<1>7. m = Matching(p, path, m)
  <2>1. m = [i \in 1 .. n |-> MatchStep(p, path, i, m[i + 1])]
    BY <1>6
  <2> HIDE DEF m
  <2> QED
    BY <2>1 DEF Matching
<1> QED
  BY <1>7

\* From the i-th segments on, the path matches or does not.
Matches(m, p, path) ==
  \A i \in 1 .. Len(p.segments) : m[i] = MatchStep(p, path, i, m[i + 1])

\* glob_match does one step after the other.
LEMMA GlobMatchSteps ==
  ASSUME NEW p, NEW path, Len(p.segments) \in Nat \ {0}
  PROVE  \E m : Matches(m, p, path) /\ GlobMatch(p, path) = m[1]
<1> DEFINE m == CHOOSE m : m = Matching(p, path, m)
<1>1. m = Matching(p, path, m)
  <2>1. \E w : w = Matching(p, path, w)
    BY MatchingExists
  <2> QED
    BY <2>1
<1>2. GlobMatch(p, path) = m[1]
  BY Zenon DEF GlobMatch, Matching, MatchStep
<1> HIDE DEF m
<1>3. Matches(m, p, path)
  BY <1>1 DEF Matching, Matches
<1> QED
  BY <1>2, <1>3

\* One token of a pattern, when the tokens after it fit where next says.
FitStep(t, s, i, next) ==
  {j \in 1 .. Len(s) + 1 :
     IF t[i] = "rest" THEN TRUE
     ELSE IF t[i] = "some"
       THEN \E k \in next : j < k /\ \A l \in j .. k - 1 : s[l] # Slash
     ELSE j <= Len(s) /\ s[j] = t[i] /\ j + 1 \in next}

\* The fits of Describes: m is it where m = Fitting(t, s, m).
Fitting(t, s, m) ==
  [i \in 1 .. Len(t) + 1 |-> IF i > Len(t) THEN {Len(s) + 1} ELSE FitStep(t, s, i, m[i + 1])]

\* There is a function that is defined as fits of Describes is.
LEMMA FittingExists ==
  ASSUME NEW t, NEW s, Len(t) \in Nat, Len(s) \in Nat
  PROVE  \E m : m = Fitting(t, s, m)
<1> DEFINE n == Len(t)
           V == SUBSET (1 .. Len(s) + 1)
           v == {Len(s) + 1}
           step == [i \in 1 .. n |-> [x \in V |-> FitStep(t, s, i, x)]]
<1>1. step \in [1 .. n -> [V -> V]]
  <2>1. ASSUME NEW i \in 1 .. n, NEW x \in V PROVE FitStep(t, s, i, x) \in V
    BY DEF FitStep
  <2> HIDE DEF V
  <2> QED
    BY <2>1
<1>2. \A i \in 1 .. n : \A x \in V : step[i][x] = FitStep(t, s, i, x)
  OBVIOUS
<1>3. n \in Nat /\ v \in V
  OBVIOUS
<1> HIDE DEF V, v, step
<1>4. Recurses(n, V, v, step)
  <2> HIDE DEF n
  <2> QED
    BY <1>1, <1>3, Recursion
<1>5. PICK w \in [1 .. n + 1 -> V] : w[n + 1] = v /\ \A i \in 1 .. n : w[i] = step[i][w[i + 1]]
  <2> HIDE DEF n
  <2> QED
    BY <1>4 DEF Recurses
<1>6. ASSUME NEW i \in 1 .. n + 1
      PROVE  w[i] = IF i > n THEN v ELSE FitStep(t, s, i, w[i + 1])
  <2>1. CASE i > n
    <3>1. i = n + 1
      BY <1>3, <2>1
    <3> QED
      BY <1>5, <2>1, <3>1
  <2>2. CASE ~(i > n)
    <3> DEFINE h == i + 1
    <3>1. h \in 1 .. n + 1 /\ i \in 1 .. n
      BY <1>3, <2>2
    <3> HIDE DEF h
    <3>2. w[h] \in V /\ w[i] = step[i][w[h]]
      BY <1>5, <3>1 DEF h
    <3> QED
      BY <1>2, <2>2, <3>1, <3>2 DEF h
  <2> QED
    BY <2>1, <2>2
<1>7. w = Fitting(t, s, w)
  <2>1. w = [i \in 1 .. n + 1 |-> w[i]]
    OBVIOUS
  <2>2. w = [i \in 1 .. n + 1 |-> IF i > n THEN v ELSE FitStep(t, s, i, w[i + 1])]
    BY <1>6, <2>1
  <2> QED
    BY <2>2 DEF Fitting, v
<1> QED
  BY <1>7

\* The tokens of a pattern: those of its segments, and that of its *.
Star(p) == IF p.prefix THEN <<"rest">> ELSE <<>>

TokensOf(p) == Joined([i \in 1 .. Len(p.segments) |-> Tokens(p.segments[i])]) \o Star(p)

\* Where the tokens before them may end, by the tokens of t from the i-th on.
Fits(m, t, s) ==
  /\ m[Len(t) + 1] = {Len(s) + 1}
  /\ \A i \in 1 .. Len(t) : m[i] = FitStep(t, s, i, m[i + 1])

\* Describes reads one token after the other, from the last to the first.
LEMMA DescribesSteps ==
  ASSUME NEW p, NEW path, NEW t, t = TokensOf(p), NEW s, s = Joined(path),
         Len(t) \in Nat, Len(s) \in Nat
  PROVE  \E m : Fits(m, t, s) /\ (Describes(p, path) <=> 1 \in m[1])
<1> DEFINE m == CHOOSE m : m = Fitting(t, s, m)
<1>1. m = Fitting(t, s, m)
  <2>1. \E w : w = Fitting(t, s, w)
    BY FittingExists
  <2> QED
    BY <2>1
<1>2. Describes(p, path) <=> 1 \in m[1]
  <2>1. Describes(p, path)
          <=> 1 \in (CHOOSE w : w = Fitting(TokensOf(p), Joined(path), w))[1]
    BY Zenon DEF Describes, TokensOf, Star, Fitting, FitStep
  <2> QED
    BY <2>1, Zenon
<1> HIDE DEF m
<1>3. \A i \in 1 .. Len(t) + 1 :
        m[i] = IF i > Len(t) THEN {Len(s) + 1} ELSE FitStep(t, s, i, m[i + 1])
  BY <1>1 DEF Fitting
<1>4. m[Len(t) + 1] = {Len(s) + 1}
  <2> DEFINE h == Len(t) + 1
  <2>1. h \in 1 .. Len(t) + 1 /\ h > Len(t)
    OBVIOUS
  <2> HIDE DEF h
  <2> QED
    BY <1>3, <2>1 DEF h
<1>5. ASSUME NEW i \in 1 .. Len(t) PROVE m[i] = FitStep(t, s, i, m[i + 1])
  <2>1. i \in 1 .. Len(t) + 1 /\ ~(i > Len(t))
    OBVIOUS
  <2> QED
    BY <1>3, <2>1
<1> QED
  BY <1>2, <1>4, <1>5 DEF Fits

-----------------------------------------------------------------------------
(* A segment of a pattern against one of the path, in the two texts.       *)

\* The characters of a segment, those of DATA named.
Letter == Char \cup {"d", "a", "t"}

\* The segment cur lies in s after the first b characters.
Lies(cur, s, b) ==
  /\ b + Len(cur) <= Len(s)
  /\ \A y \in 1 .. Len(cur) : s[b + y] = cur[y]
  /\ b + Len(cur) < Len(s) => s[b + Len(cur) + 1] = Slash

\* Places where something other than a segment's character comes next.
Borders(ends, s) ==
  /\ ends \subseteq 1 .. Len(s) + 1
  /\ \A k \in ends : k <= Len(s) => s[k] = Slash

\* A run of characters other than a slash ends within the segment.
LEMMA RunsEndInside ==
  ASSUME NEW s, Len(s) \in Nat, NEW b \in Nat, NEW cur \in Seq(Letter), Lies(cur, s, b),
         NEW k \in 1 .. Len(s) + 1
  PROVE  (\A l \in b + 1 .. k - 1 : s[l] # Slash) <=> k <= b + Len(cur) + 1
<1> DEFINE c == Len(cur)
           z == Len(s)
           e == b + c + 1
<1>1. c \in Nat /\ z \in Nat /\ e = b + c + 1 /\ e \in Nat
  BY LenProperties
<1>2. b + c <= z /\ (b + c < z => s[e] = Slash)
  BY DEF Lies
<1>3. ASSUME NEW l \in Int, b + 1 <= l, l <= b + c PROVE s[l] # Slash
  <2> DEFINE y == l - b
  <2>1. y \in 1 .. c /\ b + y = l
    BY <1>1, <1>3
  <2> HIDE DEF y
  <2>2. s[b + y] = cur[y]
    BY <2>1 DEF Lies
  <2>3. cur[y] \in Letter
    BY <2>1, ElementOfSeq
  <2>4. Slash \notin Letter
    BY DEF Letter, Char, Slash
  <2> QED
    BY <2>1, <2>2, <2>3, <2>4
<1> HIDE DEF c, z, e
<1>4. ASSUME \A l \in b + 1 .. k - 1 : s[l] # Slash, ~(k <= e) PROVE FALSE
  <2>1. e \in b + 1 .. k - 1 /\ b + c < z
    BY <1>1, <1>4 DEF z
  <2> QED
    BY <1>2, <1>4, <2>1
<1>5. ASSUME k <= e, NEW l \in b + 1 .. k - 1 PROVE s[l] # Slash
  <2>1. l \in Int /\ b + 1 <= l /\ l <= b + c
    BY <1>1, <1>5
  <2> QED
    BY <1>3, <2>1
<1> QED
  BY <1>4, <1>5 DEF c, e

\* A segment that lies there is left by none of the borders before its end.
LEMMA BordersAreOutside ==
  ASSUME NEW s, Len(s) \in Nat, NEW b \in Nat, NEW cur \in Seq(Letter), Lies(cur, s, b),
         NEW ends, Borders(ends, s), NEW k \in ends, b + 1 <= k
  PROVE  k > b + Len(cur)
<1> SUFFICES ASSUME k <= b + Len(cur) PROVE FALSE
  <2>1. k \in Nat /\ b + Len(cur) \in Nat
    BY LenProperties DEF Borders
  <2> QED
    BY <2>1
<1> DEFINE h == k + 1
<1>1. k \in Nat /\ Len(cur) \in Nat /\ b + Len(cur) <= Len(s)
  BY LenProperties DEF Borders, Lies
<1>2. k <= Len(s) /\ h \in 1 .. Len(s) + 1 /\ h <= b + Len(cur) + 1 /\ k \in b + 1 .. h - 1
  BY <1>1
<1> HIDE DEF h
<1>3. \A l \in b + 1 .. h - 1 : s[l] # Slash
  BY <1>2, RunsEndInside
<1>4. s[k] = Slash
  BY <1>2 DEF Borders
<1> QED
  BY <1>2, <1>3, <1>4

\* The characters of seg stand there exactly if seg begins cur.
LEMMA WordFits ==
  ASSUME NEW s, Len(s) \in Nat, NEW b \in Nat, NEW cur \in Seq(Letter), Lies(cur, s, b),
         NEW seg \in Seq(Char)
  PROVE  (\A y \in 1 .. Len(seg) : b + y <= Len(s) /\ s[b + y] = seg[y])
           <=> IsPrefix(seg, cur)
<1> DEFINE c == Len(cur)
           z == Len(s)
           n == Len(seg)
<1>1. c \in Nat /\ z \in Nat /\ n \in Nat
  BY LenProperties
<1>2. b + c <= z /\ (b + c < z => s[b + c + 1] = Slash) /\ \A y \in 1 .. c : s[b + y] = cur[y]
  BY DEF Lies
<1>3. \A y \in 1 .. n : seg[y] # Slash
  BY ElementOfSeq DEF Char
<1>4. IsPrefix(seg, cur) <=> n <= c /\ \A y \in 1 .. n : seg[y] = cur[y]
  <2>1. CASE n <= c
    <3>1. /\ SubSeq(seg, 1, n) \in Seq(Char) /\ SubSeq(cur, 1, n) \in Seq(Letter)
          /\ Len(SubSeq(seg, 1, n)) = n /\ Len(SubSeq(cur, 1, n)) = n
          /\ \A y \in 1 .. n : SubSeq(seg, 1, n)[y] = seg[y] /\ SubSeq(cur, 1, n)[y] = cur[y]
      BY <1>1, <2>1
    <3> DEFINE u == SubSeq(seg, 1, n)
               v == SubSeq(cur, 1, n)
    <3>2. u = v <=> \A y \in 1 .. n : u[y] = v[y]
      <4>1. u \in Seq(Letter)
        BY <3>1, SeqMonotonic DEF Letter
      <4> HIDE DEF u, v, n
      <4> QED
        BY <3>1, <4>1, SeqEqual DEF u, v
    <3> QED
      BY <2>1, <3>1, <3>2 DEF IsPrefix
  <2> QED
    BY <1>1, <2>1 DEF IsPrefix
<1> HIDE DEF c, z, n
<1>5. ASSUME \A y \in 1 .. n : b + y <= z /\ s[b + y] = seg[y], ~(n <= c) PROVE FALSE
  <2> DEFINE y == c + 1
  <2>1. y \in 1 .. n /\ b + y = b + c + 1
    BY <1>1, <1>5
  <2> HIDE DEF y
  <2>2. b + y <= z /\ s[b + y] = seg[y] /\ seg[y] # Slash
    BY <1>3, <1>5, <2>1
  <2>3. b + c < z
    BY <1>1, <2>1, <2>2
  <2> QED
    BY <1>2, <2>1, <2>2, <2>3
<1>6. ASSUME n <= c, NEW y \in 1 .. n
      PROVE  y \in 1 .. c /\ b + y <= z /\ s[b + y] = cur[y]
  <2>1. y \in 1 .. c /\ b + y <= z
    BY <1>1, <1>2, <1>6
  <2> QED
    BY <1>2, <2>1
<1> QED
  BY <1>4, <1>5, <1>6 DEF n, z

\* Token by token: g[x] is where what comes after the first x tokens fits.
Reads(g, n, z, s, seg) ==
  /\ \A x \in 1 .. n : \A j \in 1 .. z + 1 :
       j \in g[x - 1] <=> j <= z /\ s[j] = seg[x] /\ j + 1 \in g[x]
  /\ \A x \in 0 .. n : g[x] \subseteq 1 .. z + 1

\* The first n characters of seg stand in s after the first b.
Stands(seg, n, z, s, b) == \A y \in 1 .. n : b + y <= z /\ s[b + y] = seg[y]

\* A word of tokens that stand for themselves fits where its characters stand and
\* the rest fits after them.
LEMMA TokensFit ==
  ASSUME NEW z \in Nat, NEW b \in Nat, NEW n \in Nat, NEW s, NEW seg, NEW g,
         Reads(g, n, z, s, seg)
  PROVE  b + 1 \in g[0] <=> Stands(seg, n, z, s, b) /\ b + n + 1 \in g[n]
<1> DEFINE Fit(x) == (\A y \in 1 .. x : b + y <= z /\ s[b + y] = seg[y]) /\ b + x + 1 \in g[x]
           P == {x \in 0 .. n : b + 1 \in g[0] <=> Fit(x)}
<1>0. /\ \A x \in 1 .. n : \A j \in 1 .. z + 1 :
            j \in g[x - 1] <=> j <= z /\ s[j] = seg[x] /\ j + 1 \in g[x]
      /\ \A x \in 0 .. n : g[x] \subseteq 1 .. z + 1
  BY DEF Reads
<1>1. 0 \in P
  <2>1. b + 0 + 1 = b + 1 /\ 1 .. 0 = {} /\ 0 \in 0 .. n
    OBVIOUS
  <2> QED
    BY <2>1
<1>2. ASSUME NEW k \in 0 .. n - 1, k \in P PROVE k + 1 \in P
  <2> DEFINE x == k + 1
             j == b + x
  <2>1. x \in 1 .. n /\ x \in 0 .. n /\ k \in 0 .. n /\ x - 1 = k /\ j = b + k + 1 /\ j \in Nat
        /\ j = b + x /\ 1 .. x = 1 .. k \cup {x} /\ j >= 1
    OBVIOUS
  <2> HIDE DEF x, j
  <2>2. j \in g[k] <=> j <= z /\ s[j] = seg[x] /\ j + 1 \in g[x]
    <3>1. CASE j <= z + 1
      <4>1. j \in 1 .. z + 1
        BY <2>1, <3>1
      <4> QED
        BY <1>0, <2>1, <4>1
    <3>2. CASE ~(j <= z + 1)
      <4>1. j \notin g[k] /\ ~(j <= z)
        BY <1>0, <2>1, <3>2
      <4> QED
        BY <4>1
    <3> QED
      BY <3>1, <3>2
  <2>3. Fit(k) <=> (\A y \in 1 .. k : b + y <= z /\ s[b + y] = seg[y]) /\ j \in g[k]
    BY <2>1
  <2>4. Fit(x) <=> (\A y \in 1 .. x : b + y <= z /\ s[b + y] = seg[y]) /\ j + 1 \in g[x]
    BY <2>1
  <2>5. (\A y \in 1 .. x : b + y <= z /\ s[b + y] = seg[y])
          <=> (\A y \in 1 .. k : b + y <= z /\ s[b + y] = seg[y]) /\ j <= z /\ s[j] = seg[x]
    <3> DEFINE Good(y) == b + y <= z /\ s[b + y] = seg[y]
    <3>1. Good(x) <=> j <= z /\ s[j] = seg[x]
      BY <2>1
    <3> HIDE DEF Good
    <3>2. (\A y \in 1 .. x : Good(y)) <=> (\A y \in 1 .. k : Good(y)) /\ Good(x)
      BY <2>1
    <3> QED
      BY <3>1, <3>2 DEF Good
  <2>6. Fit(k) <=> Fit(x)
    <3> HIDE DEF Fit
    <3> QED
      BY <2>2, <2>3, <2>4, <2>5
  <2> HIDE DEF Fit
  <2>7. x \in P
    BY <1>2, <2>1, <2>6
  <2> QED
    BY <2>7 DEF x
<1> HIDE DEF P
<1>3. n \in P
  <2>1. \A k \in 0 .. n : k \in P
    BY <1>1, <1>2, Upwards
  <2> QED
    BY <2>1
<1> QED
  BY <1>3 DEF P, Stands

-----------------------------------------------------------------------------
(* Segment by segment.                                                     *)

\* The tokens of seg lie in t after the first a.
TokensLie(seg, t, a) ==
  a + Len(Tokens(seg)) <= Len(t) /\ \A y \in 1 .. Len(Tokens(seg)) : t[a + y] = Tokens(seg)[y]

\* Every place is one of the text, or the one after it.
LEMMA FitsType ==
  ASSUME NEW t, NEW s, NEW m, Len(t) \in Nat, Len(s) \in Nat, Fits(m, t, s),
         NEW i \in 1 .. Len(t) + 1
  PROVE  m[i] \subseteq 1 .. Len(s) + 1
<1>1. CASE i = Len(t) + 1
  BY <1>1 DEF Fits
<1>2. CASE i # Len(t) + 1
  <2>1. i \in 1 .. Len(t)
    BY <1>2
  <2>2. m[i] = FitStep(t, s, i, m[i + 1])
    BY <2>1 DEF Fits
  <2> QED
    BY <2>2 DEF FitStep
<1> QED
  BY <1>1, <1>2

\* A + fits what is not empty, and any other segment what it begins, when the rest
\* fits where it ends.
LEMMA SegmentFits ==
  ASSUME NEW t, NEW s, NEW m, Len(t) \in Nat, Len(s) \in Nat, Fits(m, t, s),
         NEW a \in Nat, NEW seg \in Seq(Char), TokensLie(seg, t, a),
         NEW b \in Nat, NEW cur \in Seq(Letter), Lies(cur, s, b),
         NEW ends, ends = m[a + Len(Tokens(seg)) + 1]
  PROVE  b + 1 \in m[a + 1]
           <=> IF seg = PLUS THEN \E k \in ends : b + 1 < k /\ k <= b + Len(cur) + 1
               ELSE IsPrefix(seg, cur) /\ b + Len(seg) + 1 \in ends
<1>1. CASE seg = PLUS
  <2> DEFINE i == a + 1
             j == b + 1
  <2>1. Tokens(seg) = <<"some">>
    BY <1>1 DEF Tokens
  <2>2. Len(Tokens(seg)) = 1 /\ Tokens(seg)[1] = "some"
    BY <2>1
  <2>3. i <= Len(t) /\ t[i] = "some"
    BY <2>2 DEF TokensLie
  <2>4. i \in 1 .. Len(t) /\ i + 1 = a + 1 + 1
    BY <2>3
  <2>5. ends = m[i + 1]
    BY <2>2
  <2>6. b + Len(cur) <= Len(s) /\ Len(cur) \in Nat
    BY LenProperties DEF Lies
  <2>7. j = b + 1 /\ j \in 1 .. Len(s) + 1 /\ j \in Nat
    BY <2>6
  <2>8. ends \subseteq 1 .. Len(s) + 1
    <3>1. i + 1 \in 1 .. Len(t) + 1
      BY <2>4
    <3> QED
      BY <2>5, <3>1, FitsType
  <2> HIDE DEF i, j
  <2>9. m[i] = FitStep(t, s, i, ends)
    BY <2>4, <2>5 DEF Fits
  <2>10. "some" # "rest"
    OBVIOUS
  <2>11. j \in m[i] <=> \E k \in ends : j < k /\ \A l \in j .. k - 1 : s[l] # Slash
    BY <2>3, <2>7, <2>9, <2>10 DEF FitStep
  <2>12. ASSUME NEW k \in ends
         PROVE  (\A l \in j .. k - 1 : s[l] # Slash) <=> k <= b + Len(cur) + 1
    <3>1. k \in 1 .. Len(s) + 1
      BY <2>8
    <3>2. (\A l \in b + 1 .. k - 1 : s[l] # Slash) <=> k <= b + Len(cur) + 1
      BY <3>1, RunsEndInside
    <3> QED
      BY <2>7, <3>2
  <2>13. j \in m[i] <=> \E k \in ends : j < k /\ k <= b + Len(cur) + 1
    BY <2>11, <2>12
  <2> QED
    BY <1>1, <2>13 DEF i, j
<1>2. CASE seg # PLUS
  <2> DEFINE n == Len(seg)
             z == Len(s)
             g == [x \in 0 .. n |-> m[a + x + 1]]
  <2>1. Tokens(seg) = seg
    BY <1>2 DEF Tokens
  <2>2. n \in Nat /\ z \in Nat /\ a + n <= Len(t) /\ \A y \in 1 .. n : t[a + y] = seg[y]
    BY <2>1, LenProperties DEF TokensLie
  <2>3. g[0] = m[a + 1] /\ g[n] = ends /\ \A x \in 0 .. n : g[x] = m[a + x + 1]
    <3>1. a + 0 + 1 = a + 1 /\ 0 \in 0 .. n /\ n \in 0 .. n
      BY <2>2
    <3> QED
      BY <2>1, <3>1
  <2> HIDE DEF g
  <2>4. ASSUME NEW x \in 0 .. n PROVE g[x] \subseteq 1 .. z + 1
    <3> DEFINE i == a + x + 1
    <3>1. i \in 1 .. Len(t) + 1
      BY <2>2
    <3> HIDE DEF i
    <3>2. m[i] \subseteq 1 .. Len(s) + 1
      BY <3>1, FitsType
    <3> QED
      BY <2>3, <3>2 DEF i
  <2>5. ASSUME NEW x \in 1 .. n, NEW j \in 1 .. z + 1
        PROVE  j \in g[x - 1] <=> j <= z /\ s[j] = seg[x] /\ j + 1 \in g[x]
    <3> DEFINE i == a + x
               h == x - 1
    <3>1. i \in 1 .. Len(t) /\ h \in 0 .. n /\ x \in 0 .. n /\ a + h + 1 = i
      BY <2>2
    <3>2. t[i] = seg[x]
      BY <2>2
    <3>3. g[x] = m[i + 1]
      BY <2>3, <3>1
    <3> HIDE DEF i, h
    <3>4. g[h] = m[i]
      BY <2>3, <3>1
    <3>5. seg[x] \in Char
      BY ElementOfSeq
    <3>6. t[i] # "rest" /\ t[i] # "some"
      BY <3>2, <3>5 DEF Char
    <3>7. m[i] = FitStep(t, s, i, g[x])
      BY <3>1, <3>3 DEF Fits
    <3>8. j \in m[i] <=> j <= z /\ s[j] = t[i] /\ j + 1 \in g[x]
      BY <3>6, <3>7 DEF FitStep
    <3> QED
      BY <3>2, <3>4, <3>8 DEF h
  <2> HIDE DEF n, z
  <2>6. b + 1 \in g[0]
          <=> (\A y \in 1 .. n : b + y <= z /\ s[b + y] = seg[y]) /\ b + n + 1 \in g[n]
    <3>1. Reads(g, n, z, s, seg)
      BY <2>4, <2>5 DEF Reads
    <3>2. b + 1 \in g[0] <=> Stands(seg, n, z, s, b) /\ b + n + 1 \in g[n]
      BY <2>2, <3>1, TokensFit
    <3> QED
      BY <3>2 DEF Stands
  <2>7. (\A y \in 1 .. n : b + y <= z /\ s[b + y] = seg[y]) <=> IsPrefix(seg, cur)
    BY WordFits DEF n, z
  <2> QED
    BY <1>2, <2>3, <2>6, <2>7 DEF n
<1> QED
  BY <1>1, <1>2

\* Where what follows begins at a border, a segment fits as it matches.
LEMMA WholeSegmentFits ==
  ASSUME NEW t, NEW s, NEW m, Len(t) \in Nat, Len(s) \in Nat, Fits(m, t, s),
         NEW a \in Nat, NEW seg \in Seq(Char), TokensLie(seg, t, a),
         NEW b \in Nat, NEW cur \in Seq(Letter), Lies(cur, s, b),
         NEW ends, ends = m[a + Len(Tokens(seg)) + 1], Borders(ends, s)
  PROVE  b + 1 \in m[a + 1] <=> MatchesSegment(seg, cur) /\ b + Len(cur) + 1 \in ends
<1> DEFINE c == Len(cur)
           e == b + c + 1
<1>1. c \in Nat /\ e = b + c + 1 /\ e \in Nat /\ (c # 0 <=> cur # <<>>)
  BY LenProperties, EmptySeq
<1>2. ends \subseteq Nat
  BY DEF Borders
<1>3. ASSUME NEW k \in ends, b + 1 <= k PROVE k > b + c
  BY <1>3, BordersAreOutside
<1>4. b + 1 \in m[a + 1]
           <=> IF seg = PLUS THEN \E k \in ends : b + 1 < k /\ k <= e
               ELSE IsPrefix(seg, cur) /\ b + Len(seg) + 1 \in ends
  BY SegmentFits
<1>5. CASE seg = PLUS
  <2> HIDE DEF c, e
  <2>1. ASSUME NEW k \in ends, b + 1 < k, k <= e PROVE k = e
    <3>1. k \in Nat
      BY <1>2
    <3>2. k > b + c
      BY <1>3, <2>1, <3>1
    <3> QED
      BY <1>1, <2>1, <3>1, <3>2
  <2>2. b + 1 < e <=> c # 0
    BY <1>1
  <2>3. (\E k \in ends : b + 1 < k /\ k <= e) <=> c # 0 /\ e \in ends
    <3>1. e <= e
      BY <1>1
    <3> QED
      BY <2>1, <2>2, <3>1
  <2> QED
    BY <1>1, <1>4, <1>5, <2>3 DEF MatchesSegment, e, c
<1>6. CASE seg # PLUS
  <2>1. ASSUME IsPrefix(seg, cur), b + Len(seg) + 1 \in ends PROVE cur = seg
    <3>1. Len(seg) \in Nat /\ Len(seg) <= c
      BY <2>1, LenProperties DEF IsPrefix
    <3> DEFINE k == b + Len(seg) + 1
    <3>2. k \in ends /\ b + 1 <= k
      BY <2>1, <3>1
    <3> HIDE DEF k, c
    <3>3. k > b + c
      BY <1>3, <3>2
    <3>4. Len(seg) = c
      BY <1>1, <3>1, <3>3 DEF k
    <3>5. SubSeq(seg, 1, Len(seg)) = SubSeq(cur, 1, Len(cur))
      BY <2>1, <3>4 DEF IsPrefix, c
    <3>6. SubSeq(seg, 1, Len(seg)) = seg /\ SubSeq(cur, 1, Len(cur)) = cur
      BY SubSeqFull
    <3> QED
      BY <3>5, <3>6
  <2>2. IsPrefix(cur, cur)
    BY <1>1 DEF IsPrefix
  <2> QED
    BY <1>4, <1>6, <2>1, <2>2 DEF MatchesSegment
<1> QED
  BY <1>5, <1>6

\* Before a *, a segment fits where it is the beginning.
LEMMA LastSegmentFits ==
  ASSUME NEW t, NEW s, NEW m, Len(t) \in Nat, Len(s) \in Nat, Fits(m, t, s),
         NEW a \in Nat, NEW seg \in Seq(Char), TokensLie(seg, t, a),
         NEW b \in Nat, NEW cur \in Seq(Letter), Lies(cur, s, b),
         NEW ends, ends = m[a + Len(Tokens(seg)) + 1], ends = 1 .. Len(s) + 1
  PROVE  b + 1 \in m[a + 1] <=> IF seg = PLUS THEN cur # <<>> ELSE IsPrefix(seg, cur)
<1> DEFINE c == Len(cur)
           e == b + c + 1
<1>1. c \in Nat /\ e \in ends /\ e = b + c + 1 /\ (c # 0 <=> cur # <<>>)
  BY LenProperties, EmptySeq DEF Lies
<1>2. b + 1 \in m[a + 1]
           <=> IF seg = PLUS THEN \E k \in ends : b + 1 < k /\ k <= e
               ELSE IsPrefix(seg, cur) /\ b + Len(seg) + 1 \in ends
  BY SegmentFits
<1>3. (\E k \in ends : b + 1 < k /\ k <= e) <=> c # 0
  <2> HIDE DEF c, e
  <2> QED
    BY <1>1
<1>4. ASSUME IsPrefix(seg, cur) PROVE b + Len(seg) + 1 \in ends
  <2>1. Len(seg) \in Nat /\ Len(seg) <= c /\ b + c <= Len(s)
    BY <1>4, LenProperties DEF IsPrefix, Lies
  <2> QED
    BY <1>1, <2>1
<1> QED
  BY <1>1, <1>2, <1>3, <1>4

\* The i-th piece lies at its offset, at the end or before a slash and the next.
Ends(q, off, text, i) ==
  /\ Lies(q[i], text, off[i])
  /\ i = Len(q) => off[i] + Len(q[i]) = Len(text)
  /\ i # Len(q) => /\ off[i + 1] = off[i] + Len(q[i]) + 1
                   /\ off[i] + Len(q[i]) < Len(text)
                   /\ text[off[i + 1]] = Slash

\* So it is with every piece of a layout.
LEMMA LayoutSteps ==
  ASSUME NEW C, NEW q \in Seq(Seq(C)), NEW off \in [1 .. Len(q) -> Nat], NEW text,
         Len(text) \in Nat, Layout(q, off, text), NEW i \in 1 .. Len(q)
  PROVE  Ends(q, off, text, i)
<1> DEFINE n == Len(q)
           z == Len(text)
           l == Len(q[i])
           o == off[i]
<1>1. n \in Nat /\ l \in Nat /\ o \in Nat /\ z \in Nat
  BY LenProperties, ElementOfSeq
<1>2. o + l <= z /\ \A y \in 1 .. l : text[o + y] = q[i][y]
  BY DEF Layout
<1>3. CASE i = n
  <2>1. o + l = z
    BY <1>3 DEF Layout
  <2>2. Lies(q[i], text, off[i])
    BY <1>1, <1>2, <2>1 DEF Lies
  <2> QED
    BY <1>3, <2>1, <2>2 DEF Ends
<1>4. CASE i # n
  <2> DEFINE h == i + 1
  <2>1. i \in 1 .. n - 1 /\ h \in 1 .. n
    BY <1>1, <1>4
  <2>2. off[h] = o + l + 1 /\ text[off[h]] = Slash
    BY <2>1 DEF Layout
  <2>3. o + l < z
    <3>1. off[h] + Len(q[h]) <= z
      BY <2>1 DEF Layout
    <3>2. Len(q[h]) \in Nat
      BY <2>1, LenProperties, ElementOfSeq
    <3> DEFINE u == off[h]
               v == Len(q[h])
    <3>3. u = o + l + 1 /\ u + v <= z /\ v \in Nat
      BY <2>2, <3>1, <3>2
    <3> HIDE DEF l, o, z, u, v
    <3> QED
      BY <1>1, <3>3
  <2>4. text[o + l + 1] = Slash
    BY <2>2
  <2>5. Lies(q[i], text, off[i])
    BY <1>2, <2>4 DEF Lies
  <2> QED
    BY <1>4, <2>2, <2>3, <2>4, <2>5 DEF Ends
<1> QED
  BY <1>3, <1>4

\* A * is one more token.
LEMMA LastToken ==
  ASSUME NEW C, NEW J \in Seq(C), NEW p \in Pattern,
         NEW t, t = J \o Star(p)
  PROVE  /\ Len(t) = IF p.prefix THEN Len(J) + 1 ELSE Len(J)
         /\ Len(t) \in Nat
         /\ \A x \in 1 .. Len(J) : t[x] = J[x]
         /\ p.prefix => t[Len(J) + 1] = "rest"
<1> DEFINE D == C \cup {"rest"}
<1>1. J \in Seq(D) /\ Len(J) \in Nat
  BY SeqMonotonic, LenProperties
<1>2. CASE p.prefix
  <2>1. <<"rest">> \in Seq(D) /\ Len(<<"rest">>) = 1 /\ <<"rest">>[1] = "rest"
    OBVIOUS
  <2>2. t = J \o <<"rest">>
    BY <1>2 DEF Star
  <2>3. /\ Len(t) = Len(J) + 1
        /\ \A x \in 1 .. Len(J) + 1 : t[x] = IF x <= Len(J) THEN J[x] ELSE <<"rest">>[x - Len(J)]
    BY <1>1, <2>1, <2>2, ConcatProperties
  <2> DEFINE x == Len(J) + 1
  <2>4. x \in 1 .. Len(J) + 1 /\ ~(x <= Len(J)) /\ x - Len(J) = 1
    BY <1>1
  <2> HIDE DEF x
  <2>5. t[x] = "rest"
    BY <2>1, <2>3, <2>4
  <2>6. \A y \in 1 .. Len(J) : t[y] = J[y]
    BY <1>1, <2>3
  <2> QED
    BY <1>1, <1>2, <2>3, <2>5, <2>6 DEF x
<1>3. CASE ~p.prefix
  BY <1>1, <1>3, ConcatEmptySeq DEF Star
<1> QED
  BY <1>2, <1>3

\* The tokens of a pattern lie in its text as the characters of a path do in its own.
LEMMA TokensHaveTypes ==
  ASSUME NEW p \in Pattern, NEW q, q = [i \in 1 .. Len(p.segments) |-> Tokens(p.segments[i])]
  PROVE  /\ q \in Seq(Seq(Letter \cup {Slash, "some"})) /\ q # <<>>
         /\ Len(q) = Len(p.segments) /\ Len(q) \in Nat \ {0}
         /\ \A i \in 1 .. Len(q) : /\ q[i] = Tokens(p.segments[i])
                                   /\ p.segments[i] \in Seq(Char)
<1> DEFINE n == Len(p.segments)
           C == Letter \cup {Slash, "some"}
<1>1. p.segments \in Seq(Seq(Char)) /\ p.segments # <<>>
  BY DEF Pattern, Path
<1>2. n \in Nat \ {0} /\ \A i \in 1 .. n : p.segments[i] \in Seq(Char)
  BY <1>1, EmptySeq, LenProperties, ElementOfSeq
<1>3. ASSUME NEW i \in 1 .. n PROVE Tokens(p.segments[i]) \in Seq(C)
  <2>1. <<"some">> \in Seq(C)
    OBVIOUS
  <2>2. p.segments[i] \in Seq(C)
    <3>1. Char \subseteq C
      BY DEF Letter
    <3> HIDE DEF C
    <3> QED
      BY <1>2, <3>1, SeqMonotonic
  <2> QED
    BY <2>1, <2>2 DEF Tokens
<1> HIDE DEF C
<1>4. q \in Seq(Seq(C)) /\ Len(q) = n
  <2> HIDE DEF n
  <2> QED
    BY <1>2, <1>3 DEF n
<1>5. q # <<>>
  BY <1>2, <1>4, EmptySeq
<1> QED
  BY <1>2, <1>4, <1>5 DEF C

\* At x begins what comes after seg, the i-th of n segments of p, in the tokens t.
AfterTokens(t, p, i, n, a, seg, x) ==
  /\ x = a + Len(Tokens(seg)) + 1
  /\ i = n /\ p.prefix => x = Len(t) /\ x \in 1 .. Len(t) /\ t[x] = "rest"
  /\ i = n /\ ~p.prefix => x = Len(t) + 1
  /\ i # n => x \in 1 .. Len(t) /\ t[x] = Slash

\* At e begins what comes after cur, the i-th of k segments, in the text s.
AfterSegment(s, i, k, b, cur, e) ==
  /\ e = b + Len(cur) + 1
  /\ i = k => e = Len(s) + 1
  /\ i # k => e <= Len(s) /\ s[e] = Slash

\* What one step of glob_match comes to, with the places the rest fits for the rest.
StepSays(m, p, seg, cur, i, n, k, x, e) ==
  IF i = n /\ p.prefix
    THEN IF seg = PLUS THEN cur # <<>> ELSE IsPrefix(seg, cur)
    ELSE /\ MatchesSegment(seg, cur)
         /\ IF i < k THEN i # n /\ e + 1 \in m[x + 1] ELSE i = n

\* One step of glob_match, where seg and cur are its segments, x is where what comes
\* after seg begins in the tokens and e where what comes after cur begins in the text.
LEMMA StepFits ==
  ASSUME NEW t, NEW s, NEW m, Len(t) \in Nat, Len(s) \in Nat, Fits(m, t, s),
         NEW n \in Nat, NEW k \in Nat, NEW i \in Nat, i <= n, i <= k, NEW p \in Pattern,
         NEW a \in Nat, NEW seg \in Seq(Char), TokensLie(seg, t, a),
         NEW b \in Nat, NEW cur \in Seq(Letter), Lies(cur, s, b),
         NEW x, AfterTokens(t, p, i, n, a, seg, x),
         NEW e \in Nat, AfterSegment(s, i, k, b, cur, e)
  PROVE  b + 1 \in m[a + 1] <=> StepSays(m, p, seg, cur, i, n, k, x, e)
<1>0. /\ x = a + Len(Tokens(seg)) + 1 /\ e = b + Len(cur) + 1
      /\ i = n /\ p.prefix => x = Len(t) /\ x \in 1 .. Len(t) /\ t[x] = "rest"
      /\ i = n /\ ~p.prefix => x = Len(t) + 1
      /\ i # n => x \in 1 .. Len(t) /\ t[x] = Slash
      /\ i = k => e = Len(s) + 1
      /\ i # k => e <= Len(s) /\ s[e] = Slash
  BY DEF AfterTokens, AfterSegment
<1> DEFINE ends == m[x]
<1>1. ends = m[a + Len(Tokens(seg)) + 1]
  BY <1>0
<1>2. CASE i = n /\ p.prefix
  <2>1. ends = 1 .. Len(s) + 1
    BY <1>0, <1>2 DEF Fits, FitStep
  <2> HIDE DEF ends
  <2>2. b + 1 \in m[a + 1] <=> IF seg = PLUS THEN cur # <<>> ELSE IsPrefix(seg, cur)
    BY <1>1, <2>1, LastSegmentFits
  <2> QED
    BY <1>2, <2>2 DEF StepSays
<1>3. CASE i = n /\ ~p.prefix
  <2>1. ends = {Len(s) + 1}
    BY <1>0, <1>3 DEF Fits
  <2> HIDE DEF ends
  <2>2. Borders(ends, s)
    BY <2>1 DEF Borders
  <2>3. b + 1 \in m[a + 1] <=> MatchesSegment(seg, cur) /\ b + Len(cur) + 1 \in ends
    BY <1>1, <2>2, WholeSegmentFits
  <2>4. e \in ends <=> ~(i < k)
    BY <1>0, <2>1
  <2> QED
    BY <1>0, <1>3, <2>3, <2>4 DEF StepSays
<1>4. CASE i # n
  <2> DEFINE next == m[x + 1]
  <2>1. ends = FitStep(t, s, x, next)
    BY <1>0, <1>4 DEF Fits
  <2>2. Slash # "rest" /\ Slash # "some"
    BY DEF Slash
  <2> HIDE DEF ends, next
  <2>3. ends = {j \in 1 .. Len(s) + 1 : j <= Len(s) /\ s[j] = Slash /\ j + 1 \in next}
    BY <1>0, <1>4, <2>1, <2>2 DEF FitStep
  <2>4. Borders(ends, s)
    BY <2>3 DEF Borders
  <2>5. b + 1 \in m[a + 1] <=> MatchesSegment(seg, cur) /\ b + Len(cur) + 1 \in ends
    BY <1>1, <2>4, WholeSegmentFits
  <2>6. e >= 1
    BY <1>0, LenProperties
  <2>7. e \in ends <=> i < k /\ e + 1 \in next
    <3>1. CASE i = k
      <4>1. ~(e <= Len(s))
        BY <1>0, <3>1
      <4> QED
        BY <2>3, <3>1, <4>1
    <3>2. CASE i # k
      <4>1. i < k /\ e \in 1 .. Len(s) + 1
        BY <1>0, <2>6, <3>2
      <4> QED
        BY <1>0, <2>3, <3>2, <4>1
    <3> QED
      BY <3>1, <3>2
  <2> QED
    BY <1>0, <1>4, <2>5, <2>7 DEF StepSays, next
<1> QED
  BY <1>2, <1>3, <1>4

\* The i-th segment of a pattern, seg, and what comes after it, lie in the tokens t.
SegmentLies(t, p, q, a, i, seg) ==
  \E x : /\ TokensLie(seg, t, a[i])
         /\ AfterTokens(t, p, i, Len(q), a[i], seg, x)
         /\ i # Len(q) => a[i + 1] = x

\* So it is with every segment of a pattern whose pieces have a layout.
LEMMA TokensOfSegment ==
  ASSUME NEW C, NEW q \in Seq(Seq(C)), NEW J \in Seq(C), NEW a \in [1 .. Len(q) -> Nat],
         Layout(q, a, J), NEW p \in Pattern,
         NEW t, t = J \o Star(p),
         NEW i \in 1 .. Len(q), NEW seg, q[i] = Tokens(seg)
  PROVE  SegmentLies(t, p, q, a, i, seg)
<1> DEFINE x == a[i] + Len(Tokens(seg)) + 1
           z == Len(J)
           y == Len(t)
           l == Len(Tokens(seg))
           A == a[i]
<1>1. /\ y = (IF p.prefix THEN z + 1 ELSE z) /\ \A h \in 1 .. z : t[h] = J[h]
      /\ p.prefix => t[z + 1] = "rest"
  BY LastToken
<1>2. z \in Nat /\ l \in Nat /\ A \in Nat /\ y \in Nat
  <2>1. q[i] \in Seq(C)
    BY ElementOfSeq
  <2>2. l \in Nat /\ z \in Nat
    BY <2>1, LenProperties
  <2>3. A \in Nat
    OBVIOUS
  <2> HIDE DEF y, z, l, A
  <2>4. y \in Nat
    BY <1>1, <2>2
  <2> QED
    BY <2>2, <2>3, <2>4
<1>3. Ends(q, a, J, i)
  <2>1. Len(J) \in Nat
    BY <1>2
  <2> QED
    BY <2>1, LayoutSteps
<1>4. /\ A + l <= z /\ \A h \in 1 .. l : J[A + h] = Tokens(seg)[h]
      /\ i = Len(q) => A + l = z
      /\ i # Len(q) => a[i + 1] = A + l + 1 /\ A + l < z /\ J[a[i + 1]] = Slash
  BY <1>3 DEF Ends, Lies
<1>5. x = A + l + 1
  OBVIOUS
<1> HIDE DEF x, z, y, l, A
<1>6. ASSUME NEW h \in 1 .. l PROVE t[A + h] = Tokens(seg)[h]
  <2> DEFINE g == A + h
  <2>1. g \in 1 .. z
    <3>1. A + l <= z
      BY <1>4
    <3> QED
      BY <1>2, <3>1
  <2>2. J[g] = Tokens(seg)[h]
    BY <1>4
  <2> HIDE DEF g
  <2>3. t[g] = J[g]
    BY <1>1, <2>1
  <2> QED
    BY <2>2, <2>3 DEF g
<1>7. A + l <= y
  BY <1>1, <1>2, <1>4
<1>8. TokensLie(seg, t, a[i])
  BY <1>6, <1>7 DEF TokensLie, A, l, y
<1>9. i # Len(q) => x \in 1 .. y /\ t[x] = Slash /\ a[i + 1] = x
  <2> SUFFICES ASSUME i # Len(q) PROVE x \in 1 .. y /\ t[x] = Slash /\ a[i + 1] = x
    OBVIOUS
  <2>1. x \in 1 .. z /\ x \in 1 .. y /\ a[i + 1] = x
    BY <1>1, <1>2, <1>4, <1>5
  <2>2. t[x] = J[x] /\ J[x] = Slash
    BY <1>1, <1>4, <2>1
  <2> QED
    BY <2>1, <2>2
<1>10. i = Len(q) => x = z + 1
  BY <1>4, <1>5
<1>11. p.prefix => y = z + 1 /\ z + 1 \in 1 .. y
  BY <1>1, <1>2
<1>12. AfterTokens(t, p, i, Len(q), a[i], seg, x)
  BY <1>1, <1>5, <1>9, <1>10, <1>11 DEF AfterTokens, y, A, l
<1> QED
  BY <1>8, <1>9, <1>12 DEF SegmentLies

\* glob_match says of a path what the policy language says: it goes segment by segment
\* and treats a last segment before * apart, and loses nothing by it.
LEMMA MatchesAreDescribed ==
  ASSUME NEW p \in Pattern, NEW path \in Seq(Seq(Letter)), path # <<>>
  PROVE  GlobMatch(p, path) <=> Describes(p, path)
<1> DEFINE q == [i \in 1 .. Len(p.segments) |-> Tokens(p.segments[i])]
           C == Letter \cup {Slash, "some"}
           J == Joined(q)
           t == TokensOf(p)
           s == Joined(path)
           n == Len(q)
           k == Len(path)
<1>1. /\ q \in Seq(Seq(C)) /\ q # <<>> /\ n = Len(p.segments) /\ n \in Nat \ {0}
      /\ \A i \in 1 .. n : q[i] = Tokens(p.segments[i]) /\ p.segments[i] \in Seq(Char)
  BY TokensHaveTypes
<1>2. k \in Nat \ {0} /\ \A i \in 1 .. k : path[i] \in Seq(Letter)
  BY EmptySeq, LenProperties, ElementOfSeq
<1>3. path \in Seq(Seq(C)) /\ Slash \in C
  <2>1. Seq(Letter) \subseteq Seq(C)
    <3>1. Letter \subseteq C
      OBVIOUS
    <3> HIDE DEF C
    <3> QED
      BY <3>1, SeqMonotonic
  <2> HIDE DEF C
  <2>2. path \in Seq(Seq(C))
    BY <2>1, SeqMonotonic
  <2> QED
    BY <2>2 DEF C
<1>4. t = J \o Star(p) /\ p.prefix \in BOOLEAN
  BY DEF TokensOf, Pattern
<1> HIDE DEF q, C, J, t, s
<1>5. J \in Seq(C) /\ \E off \in [1 .. n -> Nat] : Layout(q, off, J)
  BY <1>1, <1>3, JoinedLayout DEF J
<1>6. PICK a \in [1 .. n -> Nat] : Layout(q, a, J)
  BY <1>5
<1>7. s \in Seq(C) /\ Len(s) \in Nat /\ \E off \in [1 .. k -> Nat] : Layout(path, off, s)
  BY <1>3, JoinedLayout, LenProperties DEF s
<1>8. PICK b \in [1 .. k -> Nat] : Layout(path, b, s)
  BY <1>7
<1>9. Len(t) \in Nat
  BY <1>4, <1>5, LastToken
<1>10. PICK m : Fits(m, t, s) /\ (Describes(p, path) <=> 1 \in m[1])
  <2>1. \E m : Fits(m, t, s) /\ (Describes(p, path) <=> 1 \in m[1])
    BY <1>7, <1>9, DescribesSteps DEF t, s
  <2> QED
    BY <2>1
<1>11. PICK w : Matches(w, p, path) /\ GlobMatch(p, path) = w[1]
  <2>1. Len(p.segments) \in Nat \ {0}
    BY <1>1
  <2> QED
    BY <2>1, GlobMatchSteps
<1>12. ASSUME NEW i \in 1 .. n, i <= k, NEW h, h = i + 1,
              i < n /\ i < k => (b[h] + 1 \in m[a[h] + 1] <=> w[h])
       PROVE  b[i] + 1 \in m[a[i] + 1] <=> w[i]
  <2> DEFINE seg == p.segments[i]
             cur == path[i]
             A == a[i]
             B == b[i]
             e == B + Len(cur) + 1
  <2>1. seg \in Seq(Char) /\ q[i] = Tokens(seg) /\ A \in Nat /\ i \in Nat /\ i <= n
    <3>1. A \in Nat
      OBVIOUS
    <3>2. seg \in Seq(Char) /\ q[i] = Tokens(seg)
      BY <1>1
    <3>3. i \in Nat /\ i <= n
      BY <1>1
    <3> QED
      BY <3>1, <3>2, <3>3
  <2>2. i \in 1 .. k /\ k \in Nat /\ n \in Nat /\ cur \in Seq(Letter) /\ B \in Nat
    <3>1. i \in 1 .. k
      BY <1>1, <1>2, <1>12
    <3> QED
      BY <1>1, <1>2, <3>1
  <2>3. e = B + Len(cur) + 1 /\ e \in Nat
    BY <2>2, LenProperties
  <2> HIDE DEF e
  <2>4. PICK x : /\ TokensLie(seg, t, A) /\ AfterTokens(t, p, i, n, A, seg, x)
                 /\ i # n => a[h] = x
    <3>1. SegmentLies(t, p, q, a, i, seg)
      <4>1. q \in Seq(Seq(C)) /\ J \in Seq(C) /\ a \in [1 .. Len(q) -> Nat] /\ Layout(q, a, J)
        BY <1>1, <1>5, <1>6
      <4>2. t = J \o Star(p)
        BY <1>4
      <4>3. i \in 1 .. Len(q) /\ q[i] = Tokens(seg)
        BY <2>1
      <4> HIDE DEF seg, n
      <4> QED
        BY <4>1, <4>2, <4>3, TokensOfSegment
    <3> QED
      BY <1>12, <3>1 DEF SegmentLies
  <2>5. Ends(path, b, s, i)
    BY <1>3, <1>7, <1>8, <2>2, LayoutSteps
  <2>6. Lies(cur, s, B) /\ AfterSegment(s, i, k, B, cur, e) /\ (i # k => b[h] = e)
    <3>1. Len(cur) \in Nat
      BY <2>2, LenProperties
    <3>2. /\ Lies(cur, s, B) /\ (i = k => B + Len(cur) = Len(s))
          /\ i # k => b[h] = e /\ B + Len(cur) < Len(s) /\ s[b[h]] = Slash
      BY <1>12, <2>3, <2>5 DEF Ends
    <3> HIDE DEF k, B, cur
    <3>3. i = k => e = Len(s) + 1
      BY <2>3, <3>2
    <3>4. B + Len(cur) < Len(s) => e <= Len(s)
      BY <1>7, <2>2, <2>3, <3>1
    <3> QED
      BY <2>3, <3>2, <3>3, <3>4 DEF AfterSegment
  <2> HIDE DEF n, k, seg, cur, A, B
  <2>7. B + 1 \in m[A + 1] <=> StepSays(m, p, seg, cur, i, n, k, x, e)
    <3>1. Len(t) \in Nat /\ Len(s) \in Nat /\ Fits(m, t, s)
      BY <1>7, <1>9, <1>10
    <3>2. n \in Nat /\ k \in Nat /\ i \in Nat /\ i <= n /\ i <= k
      BY <1>12, <2>1, <2>2
    <3>3. A \in Nat /\ seg \in Seq(Char) /\ TokensLie(seg, t, A)
      BY <2>1, <2>4
    <3>4. B \in Nat /\ cur \in Seq(Letter) /\ Lies(cur, s, B)
      BY <2>2, <2>6
    <3>5. /\ AfterTokens(t, p, i, n, A, seg, x)
          /\ e \in Nat /\ AfterSegment(s, i, k, B, cur, e)
      BY <2>3, <2>4, <2>6
    <3> QED
      BY <3>1, <3>2, <3>3, <3>4, <3>5, StepFits
  <2>8. w[i] = IF i = n /\ p.prefix
                 THEN IF seg = PLUS THEN cur # <<>> ELSE IsPrefix(seg, cur)
                 ELSE /\ MatchesSegment(seg, cur)
                      /\ IF i < k THEN i # n /\ w[h] ELSE i = n
    <3>1. w[i] = MatchStep(p, path, i, w[i + 1])
      BY <1>1, <1>11 DEF Matches, n
    <3> QED
      BY <1>1, <1>12, <3>1 DEF MatchStep, n, k, seg, cur
  <2>9. i # n /\ i < k => (e + 1 \in m[x + 1] <=> w[h])
    <3> SUFFICES ASSUME i # n, i < k PROVE e + 1 \in m[x + 1] <=> w[h]
      OBVIOUS
    <3>1. i < n /\ i # k
      BY <2>1, <2>2
    <3>2. a[h] = x /\ b[h] = e
      BY <2>4, <2>6, <3>1
    <3> QED
      BY <1>12, <3>1, <3>2
  <2> QED
    BY <2>7, <2>8, <2>9 DEF StepSays, A, B
<1> DEFINE last == IF n <= k THEN n ELSE k
           P == {i \in 1 .. last : b[i] + 1 \in m[a[i] + 1] <=> w[i]}
<1>13. last \in Nat \ {0} /\ \A i \in 1 .. last : i \in 1 .. n /\ i <= k
  BY <1>1, <1>2
<1>14. ~(last < n /\ last < k)
  BY <1>1, <1>2
<1> HIDE DEF last
<1>15. last \in P
  <2>1. last \in 1 .. last
    BY <1>13
  <2> QED
    BY <1>12, <1>13, <1>14, <2>1
<1>16. ASSUME NEW i \in 1 .. last - 1, i + 1 \in P PROVE i \in P
  <2> DEFINE h == i + 1
  <2>1. i \in 1 .. last /\ h = i + 1
    BY <1>13
  <2> HIDE DEF h
  <2>2. b[h] + 1 \in m[a[h] + 1] <=> w[h]
    BY <1>16, <2>1
  <2> QED
    BY <1>12, <1>13, <2>1, <2>2
<1>17. 1 \in P
  <2> HIDE DEF P
  <2>1. \A i \in 1 .. last : i \in P
    BY <1>13, <1>15, <1>16, Downwards
  <2> QED
    BY <1>13, <2>1
<1>18. a[1] = 0 /\ b[1] = 0
  BY <1>6, <1>8 DEF Layout
<1>19. b[1] + 1 = 1 /\ a[1] + 1 = 1
  BY <1>18
<1> QED
  BY <1>10, <1>11, <1>17, <1>19

-----------------------------------------------------------------------------
(* The judging of a spec.                                                  *)

\* Only a duration that is left out is read as none.
LEMMA ParsedNumber ==
  ASSUME NEW d \in Text, d # None, Parse(d) # Invalid
  PROVE  Parse(d) \in Nat
<1>1. /\ Parse(d) = d.number * SecondsPer[d.unit]
      /\ d.number # None /\ d.unit \in DOMAIN SecondsPer
  BY DEF Parse
<1>2. d.number \in Nat /\ SecondsPer[d.unit] \in Nat
  BY <1>1, DurationAssumption DEF Text
<1> QED
  BY <1>1, <1>2

\* A segment of a path, or the one that stands between mount and path.
Segment == Seq(Letter)

\* The segments of a path are made of characters.
LEMMA SegmentsOfPaths ==
  ASSUME NEW p \in Path
  PROVE  p \in Seq(Segment) /\ Len(p) \in Nat /\ p # <<>>
<1>1. p \in Seq(Seq(Char)) /\ p # <<>>
  BY DEF Path
<1>2. Seq(Char) \subseteq Segment
  <2>1. Char \subseteq Letter
    BY DEF Letter
  <2> QED
    BY <2>1, SeqMonotonic DEF Segment
<1> QED
  BY <1>1, <1>2, SeqMonotonic, LenProperties

\* A trimmed path is a path still, and one that is a single segment stays as it is
\* (trim_matches).
LEMMA TrimmedPath ==
  ASSUME NEW p \in Path
  PROVE  /\ Trim(p) \in Seq(Segment)
         /\ Len(p) = 1 => Trim(p) = p
<1> DEFINE kept == {i \in 1 .. Len(p) : p[i] # <<>>}
           first == CHOOSE i \in kept : \A j \in kept : i <= j
           last == CHOOSE i \in kept : \A j \in kept : j <= i
<1>1. p \in Seq(Segment) /\ Len(p) \in Nat /\ p # <<>>
  BY SegmentsOfPaths
<1>2. Trim(p) = IF kept = {} THEN <<<<>>>> ELSE SubSeq(p, first, last)
  BY DEF Trim
<1>3. CASE kept = {}
  <2>1. <<>> \in Segment
    BY EmptySeq DEF Segment
  <2>2. Trim(p) = <<<<>>>> /\ Trim(p) \in Seq(Segment)
    BY <1>2, <1>3, <2>1
  <2>3. ASSUME Len(p) = 1 PROVE p = <<<<>>>>
    <3>1. p[1] = <<>>
      BY <1>3, <2>3
    <3> QED
      BY <1>1, <2>1, <2>3, <3>1, SeqEqual
  <2> QED
    BY <2>2, <2>3
<1>4. CASE kept # {}
  <2>1. first \in kept
    <3>1. kept \in SUBSET Nat
      BY <1>1
    <3>2. \E i \in kept : \A j \in kept : i <= j
      BY <1>4, <3>1, SmallestIn
    <3> QED
      BY <3>2
  <2>2. last \in kept
    <3>1. kept \in SUBSET (0 .. Len(p))
      BY <1>1
    <3>2. \E i \in kept : \A j \in kept : j <= i
      BY <1>1, <1>4, <3>1, LargestIn
    <3> QED
      BY <3>2
  <2> HIDE DEF first, last
  <2>3. first \in 1 .. Len(p) /\ last \in 1 .. Len(p)
    BY <2>1, <2>2
  <2>4. \A i \in first .. last : p[i] \in Segment
    BY <1>1, <2>3, ElementOfSeq
  <2>5. SubSeq(p, first, last) \in Seq(Segment)
    BY <1>1, <2>3, <2>4, SubSeqProperties
  <2>6. ASSUME Len(p) = 1 PROVE SubSeq(p, first, last) = p
    <3>1. first = 1 /\ last = Len(p)
      BY <2>3, <2>6
    <3> QED
      BY <1>1, <3>1, SubSeqFull
  <2> QED
    BY <1>2, <1>4, <2>5, <2>6
<1> QED
  BY <1>3, <1>4

\* The path a policy would name tells mount and trimmed path apart, where the mount is
\* a single segment.
LEMMA PolicyPathsDiffer ==
  ASSUME NEW a \in OpenBaoTarget, NEW b \in OpenBaoTarget,
         Len(a.mount) = 1, Len(b.mount) = 1, PolicyPath(a) = PolicyPath(b)
  PROVE  a.mount = b.mount /\ Trim(a.path) = Trim(b.path)
<1>1. /\ a.mount \in Path /\ b.mount \in Path /\ a.path \in Path /\ b.path \in Path
      /\ a.mount \in Seq(Segment) /\ b.mount \in Seq(Segment)
  <2>1. a.mount \in Path /\ b.mount \in Path /\ a.path \in Path /\ b.path \in Path
    BY DEF OpenBaoTarget
  <2> QED
    BY <2>1, SegmentsOfPaths
<1> DEFINE s == Trim(a.path)
           t == Trim(b.path)
           x == a.mount \o <<DATA>>
           y == b.mount \o <<DATA>>
<1>2. s \in Seq(Segment) /\ t \in Seq(Segment)
  BY <1>1, TrimmedPath
<1>3. <<DATA>> \in Seq(Segment) /\ Len(<<DATA>>) = 1 /\ <<DATA>>[1] = DATA
  <2>1. DATA \in Segment
    BY DEF Segment, DATA, Letter
  <2> QED
    BY <2>1
<1>4. /\ x \in Seq(Segment) /\ y \in Seq(Segment) /\ Len(x) = 2 /\ Len(y) = 2
      /\ x[1] = a.mount[1] /\ y[1] = b.mount[1]
      /\ x[2] = DATA /\ y[2] = DATA
  <2>1. /\ x \in Seq(Segment) /\ Len(x) = 2
        /\ x[1] = a.mount[1] /\ x[2] = <<DATA>>[1]
    BY <1>1, <1>3, ConcatProperties
  <2>2. /\ y \in Seq(Segment) /\ Len(y) = 2
        /\ y[1] = b.mount[1] /\ y[2] = <<DATA>>[1]
    BY <1>1, <1>3, ConcatProperties
  <2> QED
    BY <1>3, <2>1, <2>2
<1>5. x \o s = y \o t
  <2>1. Trim(a.mount) = a.mount /\ Trim(b.mount) = b.mount
    BY <1>1, TrimmedPath
  <2> QED
    BY <2>1 DEF PolicyPath
<1> HIDE DEF s, t, x, y
<1>6. a.mount[1] = b.mount[1] /\ x = y
  <2>1. (x \o s)[1] = x[1] /\ (y \o t)[1] = y[1]
    <3>1. Len(s) \in Nat /\ Len(t) \in Nat
      BY <1>2
    <3>2. 1 \in 1 .. Len(x) + Len(s) /\ 1 \in 1 .. Len(y) + Len(t)
      BY <1>4, <3>1
    <3> QED
      BY <1>2, <1>4, <3>2, ConcatProperties
  <2>2. x[1] = y[1]
    BY <1>5, <2>1
  <2>3. \A i \in 1 .. Len(x) : x[i] = y[i]
    BY <1>4, <2>2
  <2> QED
    BY <1>4, <2>2, <2>3, SeqEqual
<1>7. s = t
  BY <1>2, <1>4, <1>5, <1>6, ConcatSimplifications
<1>8. a.mount = b.mount
  BY <1>1, <1>6, SeqEqual
<1> QED
  BY <1>7, <1>8 DEF s, t

\* A spec is what it was when it was read, and its problems are those validate finds.
JudgedInv == /\ spec.rotation \in RotationPolicy
             /\ spec.targets \in Seq(OpenBaoTarget \cup {None})
             /\ allowed \subseteq Pattern
             /\ problems \in {None, Validate(spec, allowed)}

\* That is inductive.
LEMMA JudgedInvariant == ValidationSpec => []JudgedInv
<1>1. ValidationInit => JudgedInv
  BY CasesAssumption DEF ValidationInit, JudgedInv
<1>2. JudgedInv /\ [Judge]_validationVars => JudgedInv'
  BY DEF Judge, JudgedInv, validationVars
<1> QED
  BY <1>1, <1>2, PTL DEF ValidationSpec

\* Of a target with no problem the type is known, the mount is a segment of its own
\* and no target before it is the same.
LEMMA SoundTarget ==
  ASSUME NEW i \in DOMAIN spec.targets, spec.targets[i] \in OpenBaoTarget \cup {None},
         TargetProblems(spec, allowed, i) = {}
  PROVE  /\ spec.targets[i] \in OpenBaoTarget
         /\ Len(spec.targets[i].mount) = 1
         /\ \A j \in 1 .. i - 1 :
              spec.targets[j] # None => Reference(spec.targets[j]) # Reference(spec.targets[i])
<1> DEFINE t == spec.targets[i]
           long == Len(t.mount) > 1
           again == \E j \in 1 .. i - 1 :
                      spec.targets[j] # None /\ Reference(spec.targets[j]) = Reference(t)
<1>1. t # None
  BY DEF TargetProblems
<1>2. t \in OpenBaoTarget
  BY <1>1
<1>3. ~long
  BY <1>1 DEF TargetProblems
<1>4. ~again
  BY <1>1 DEF TargetProblems
<1>5. Len(t.mount) = 1
  <2>1. t.mount \in Path
    BY <1>2 DEF OpenBaoTarget
  <2>2. Len(t.mount) \in Nat \ {0}
    BY <2>1, EmptySeq DEF Path
  <2> DEFINE n == Len(t.mount)
  <2>3. n \in Nat \ {0} /\ ~(n > 1)
    BY <1>3, <2>2
  <2> HIDE DEF n
  <2>4. n = 1
    BY <2>3
  <2> QED
    BY <2>4 DEF n
<1> QED
  BY <1>2, <1>4, <1>5

\* Of any number of targets, however their mounts and paths are written, no two of a
\* valid spec are the same key of the same secret.
THEOREM NoTargetTwice == ValidationSpec => []ValidTargetsAreDistinct
<1>1. ASSUME JudgedInv PROVE ValidTargetsAreDistinct
  <2> SUFFICES ASSUME problems = {},
                      NEW i \in DOMAIN spec.targets, NEW j \in DOMAIN spec.targets, i # j,
                      PolicyPath(spec.targets[i]) = PolicyPath(spec.targets[j]),
                      spec.targets[i].key = spec.targets[j].key
               PROVE  FALSE
    BY DEF ValidTargetsAreDistinct
  <2>1. Validate(spec, allowed) = {}
    BY <1>1, CasesAssumption DEF JudgedInv
  <2>2. TargetProblems(spec, allowed, i) = {} /\ TargetProblems(spec, allowed, j) = {}
    BY <2>1 DEF Validate
  <2>3. /\ spec.targets[i] \in OpenBaoTarget \cup {None}
        /\ spec.targets[j] \in OpenBaoTarget \cup {None}
        /\ i \in Nat \ {0} /\ j \in Nat \ {0}
    BY <1>1, LenProperties, ElementOfSeq DEF JudgedInv
  <2>4. /\ spec.targets[i] \in OpenBaoTarget /\ Len(spec.targets[i].mount) = 1
        /\ spec.targets[j] \in OpenBaoTarget /\ Len(spec.targets[j].mount) = 1
    BY <2>2, <2>3, SoundTarget
  <2>5. Reference(spec.targets[i]) = Reference(spec.targets[j])
    BY <2>4, PolicyPathsDiffer DEF Reference
  <2>6. spec.targets[i] # None /\ spec.targets[j] # None
    BY <2>4, CasesAssumption
  <2>7. CASE i < j
    <3>1. i \in 1 .. j - 1
      BY <2>3, <2>7
    <3> QED
      BY <2>2, <2>3, <2>5, <2>6, <3>1, SoundTarget
  <2>8. CASE j < i
    <3>1. j \in 1 .. i - 1
      BY <2>3, <2>8
    <3> QED
      BY <2>2, <2>3, <2>5, <2>6, <3>1, SoundTarget
  <2> QED
    BY <2>3, <2>7, <2>8
<1> QED
  BY <1>1, JudgedInvariant, PTL

\* Whatever maximum age a valid spec gives, in whatever unit, a key that was rotated
\* gets a deadline no earlier than its rotation, or one no Timestamp can name.
THEOREM ValidAgeIsADeadline == ValidationSpec => []ValidMeansScheduled
<1>1. ASSUME JudgedInv PROVE ValidMeansScheduled
  <2> SUFFICES ASSUME problems = {}, spec.rotation.maxAge # None,
                      NEW at \in 0 .. MAX_TIMESTAMP
               PROVE  LET r == RotateBy(at, spec.rotation)
                      IN IF r = None THEN at + Parse(spec.rotation.maxAge) > MAX_TIMESTAMP
                         ELSE r >= at
    BY DEF ValidMeansScheduled
  <2> DEFINE age == Parse(spec.rotation.maxAge)
  <2>1. Validate(spec, allowed) = {}
    BY <1>1, CasesAssumption DEF JudgedInv
  <2>2. spec.rotation.maxAge \in Text
    BY <1>1 DEF JudgedInv, RotationPolicy
  <2>3. age # Invalid
    <3>1. "maxAge" \in DurationFields
      BY DEF DurationFields
    <3>2. ~(Parse(spec.rotation["maxAge"]) = Invalid)
      BY <2>1, <3>1 DEF Validate
    <3> QED
      BY <3>2
  <2>4. age \in Nat
    BY <2>2, <2>3, ParsedNumber
  <2>5. at \in Nat /\ at # None /\ age \notin {None, Invalid}
    BY <2>3, <2>4, DurationAssumption
  <2>6. RotateBy(at, spec.rotation) = IF at + age > MAX_TIMESTAMP THEN None ELSE at + age
    BY <2>5 DEF RotateBy
  <2> HIDE DEF age
  <2>7. at + age # None /\ at + age >= at
    BY <2>4, <2>5, DurationAssumption
  <2> QED
    BY <2>6, <2>7 DEF age
<1> QED
  BY <1>1, JudgedInvariant, PTL

\* What a policy would name is a path of at least a segment.
LEMMA PolicyPathType ==
  ASSUME NEW t \in OpenBaoTarget
  PROVE  PolicyPath(t) \in Seq(Segment) /\ PolicyPath(t) # <<>>
<1> DEFINE a == Trim(t.mount)
           b == Trim(t.path)
           c == a \o <<DATA>>
<1>1. a \in Seq(Segment) /\ b \in Seq(Segment)
  <2>1. t.mount \in Path /\ t.path \in Path
    BY DEF OpenBaoTarget
  <2> QED
    BY <2>1, TrimmedPath
<1>2. <<DATA>> \in Seq(Segment) /\ Len(<<DATA>>) = 1
  <2>1. DATA \in Segment
    BY DEF Segment, DATA, Letter
  <2> QED
    BY <2>1
<1> HIDE DEF a, b
<1>3. c \in Seq(Segment) /\ Len(c) = Len(a) + 1
  BY <1>1, <1>2, ConcatProperties
<1> HIDE DEF c
<1>4. c \o b \in Seq(Segment) /\ Len(c \o b) = Len(c) + Len(b)
  BY <1>1, <1>3, ConcatProperties
<1>5. Len(a) \in Nat /\ Len(b) \in Nat
  BY <1>1, LenProperties
<1>6. Len(c \o b) # 0
  BY <1>3, <1>4, <1>5
<1>7. c \o b # <<>>
  BY <1>6, EmptySeq
<1> QED
  BY <1>4, <1>7 DEF PolicyPath, a, b, c

\* Whatever the patterns and the paths, however many and however long, a target is
\* turned away for its path exactly if no pattern describes that path in the policy
\* language.
THEOREM PathsAreJudgedByMeaning == ValidationSpec => []GlobMeaning
<1>1. ASSUME JudgedInv PROVE GlobMeaning
  <2> SUFFICES ASSUME problems # None
               PROVE  "not allowed" \in problems <=>
                        \E i \in DOMAIN spec.targets :
                          /\ spec.targets[i] # None
                          /\ ~\E p \in allowed : Describes(p, PolicyPath(spec.targets[i]))
    BY DEF GlobMeaning
  <2>1. problems = Validate(spec, allowed) /\ allowed \subseteq Pattern
    BY <1>1 DEF JudgedInv
  <2>2. "not allowed" \in problems
          <=> \E i \in DOMAIN spec.targets : "not allowed" \in TargetProblems(spec, allowed, i)
    BY <2>1 DEF Validate, DurationFields
  <2>3. ASSUME NEW i \in DOMAIN spec.targets
        PROVE  "not allowed" \in TargetProblems(spec, allowed, i)
                 <=> /\ spec.targets[i] # None
                     /\ ~\E p \in allowed : Describes(p, PolicyPath(spec.targets[i]))
    <3> DEFINE t == spec.targets[i]
               path == PolicyPath(t)
    <3>1. "not allowed" \in TargetProblems(spec, allowed, i)
            <=> t # None /\ ~Allows(allowed, path)
      BY DEF TargetProblems
    <3>2. t \in OpenBaoTarget \cup {None}
      BY <1>1, ElementOfSeq DEF JudgedInv
    <3> HIDE DEF t
    <3>3. ASSUME t # None PROVE path \in Seq(Seq(Letter)) /\ path # <<>>
      BY <3>2, <3>3, PolicyPathType DEF Segment
    <3> HIDE DEF path
    <3>4. ASSUME t # None, NEW p \in allowed PROVE GlobMatch(p, path) <=> Describes(p, path)
      BY <2>1, <3>3, <3>4, MatchesAreDescribed
    <3> QED
      BY <3>1, <3>4 DEF Allows, path, t
  <2> QED
    BY <2>2, <2>3
<1> QED
  BY <1>1, JudgedInvariant, PTL
=============================================================================
