------------------------------ MODULE HmacProofs ------------------------------
(***************************************************************************)
(* Every result of a call is the HMAC of its message, for all messages,    *)
(* widths, depths and lengths of keys that fill their words or are hashed, *)
(* however the processes and the hashes run.                               *)
(***************************************************************************)
EXTENDS Hmac, SequenceTheorems, WellFoundedInduction, TLAPS

-----------------------------------------------------------------------------
(* Induction, and sums *)

\* The sum of the counts before m.
Before(counts, m) == LET sum[k \in 1..m] == IF k = 1 THEN 0 ELSE sum[k - 1] + counts[k - 1]
                     IN  sum[m]

LEMMA LeastElement ==
    ASSUME NEW T, T \subseteq Nat, T # {}
    PROVE  \E x \in T : \A y \in T : x <= y
<1>1. PICK x \in T : \A y \in T : ~ (<<y, x>> \in OpToRel(<, Nat))
  BY NatLessThanWellFounded, WFMin
<1>2. OpToRel(<, Nat) = {ss \in Nat \X Nat : ss[1] < ss[2]}
  BY DEF OpToRel
<1>3. ASSUME NEW y \in T, y < x PROVE <<y, x>> \in OpToRel(<, Nat)
  BY <1>2, <1>3
<1>4. \A y \in T : ~(y < x)
  BY <1>1, <1>3
<1>5. \A y \in T : x <= y
  BY <1>4
<1> QED BY <1>5

LEMMA SetInduction ==
    ASSUME NEW S, 0 \in S, \A n \in Nat : n \in S => n + 1 \in S
    PROVE  Nat \subseteq S
<1> DEFINE T == Nat \ S
<1>1. SUFFICES ASSUME T # {} PROVE FALSE
  OBVIOUS
<1>2. PICK x \in T : \A y \in T : x <= y
  BY <1>1, LeastElement
<1>3. x - 1 \in Nat /\ x - 1 \in S /\ (x - 1) + 1 = x
  BY <1>2
<1> QED BY <1>2, <1>3

\* The function that Before is defined by.
IsBefore(counts, n, f) == f = [k \in 1..n |-> IF k = 1 THEN 0 ELSE f[k - 1] + counts[k - 1]]

LEMMA SumsExist ==
    ASSUME NEW counts, NEW n \in Nat
    PROVE  \E f : IsBefore(counts, n, f)
<1> DEFINE S == {m \in Nat : \E f : IsBefore(counts, m, f)}
<1>1. 0 \in S
  <2>1. IsBefore(counts, 0, [k \in 1..0 |-> 0])
    BY DEF IsBefore
  <2> QED BY <2>1
<1>2. ASSUME NEW m \in Nat, m \in S PROVE m + 1 \in S
  <2>1. PICK f : IsBefore(counts, m, f)
    BY <1>2
  <2> DEFINE c(k) == counts[k]
             g == [k \in 1..m + 1 |-> IF k \in 1..m THEN f[k] ELSE IF k = 1 THEN 0 ELSE f[k - 1] + c(k - 1)]
  <2> HIDE DEF c
  <2>2. \A k \in 1..m : f[k] = IF k = 1 THEN 0 ELSE f[k - 1] + c(k - 1)
    BY <2>1 DEF IsBefore, c
  <2>3. \A k \in 1..m + 1 : g[k] = IF k = 1 THEN 0 ELSE g[k - 1] + c(k - 1)
    <3>1. ASSUME NEW k \in 1..m + 1 PROVE g[k] = IF k = 1 THEN 0 ELSE g[k - 1] + c(k - 1)
      <4>1. CASE k = 1
        BY <2>2, <4>1
      <4>2. CASE k # 1
        <5>1. k - 1 \in 1..m
          BY <4>2
        <5>2. g[k - 1] = f[k - 1]
          BY <5>1
        <5>3. g[k] = f[k - 1] + c(k - 1)
          BY <2>2, <4>2
        <5> QED BY <4>2, <5>2, <5>3
      <4> QED BY <4>1, <4>2
    <3> QED BY <3>1
  <2>4. g = [k \in 1..m + 1 |-> IF k = 1 THEN 0 ELSE g[k - 1] + c(k - 1)]
    <3> DEFINE h == [k \in 1..m + 1 |-> IF k = 1 THEN 0 ELSE g[k - 1] + c(k - 1)]
    <3>1. DOMAIN g = 1..m + 1 /\ g = [k \in 1..m + 1 |-> g[k]]
      OBVIOUS
    <3> HIDE DEF g
    <3> QED BY <2>3, <3>1
  <2>5. IsBefore(counts, m + 1, g)
    BY <2>4 DEF IsBefore, c
  <2> QED BY <2>5
<1> HIDE DEF S
<1>3. Nat \subseteq S
  BY <1>1, <1>2, SetInduction
<1> QED BY <1>3 DEF S

LEMMA SumsAgree ==
    ASSUME NEW counts, NEW n \in Nat, NEW m \in Nat, NEW f, IsBefore(counts, n, f), NEW g, IsBefore(counts, m, g)
    PROVE  \A k \in 1..n : k <= m => f[k] = g[k]
<1> DEFINE c(k) == counts[k]
           S == {k \in Nat : k \in 1..n /\ k <= m => f[k] = g[k]}
<1>1. /\ \A k \in 1..n : f[k] = IF k = 1 THEN 0 ELSE f[k - 1] + c(k - 1)
      /\ \A k \in 1..m : g[k] = IF k = 1 THEN 0 ELSE g[k - 1] + c(k - 1)
  BY DEF IsBefore
<1> HIDE DEF c
<1>2. 0 \in S
  OBVIOUS
<1>3. ASSUME NEW k \in Nat, k \in S PROVE k + 1 \in S
  <2> SUFFICES ASSUME k + 1 \in 1..n, k + 1 <= m PROVE f[k + 1] = g[k + 1]
    OBVIOUS
  <2>1. CASE k = 0
    BY <1>1, <2>1
  <2>2. CASE k # 0
    <3>1. k \in 1..n /\ k \in 1..m /\ f[k] = g[k] /\ k + 1 # 1 /\ (k + 1) - 1 = k /\ k + 1 \in 1..m
      BY <1>3, <2>2
    <3>2. f[k + 1] = f[k] + c(k) /\ g[k + 1] = g[k] + c(k)
      BY <1>1, <3>1
    <3> QED BY <3>1, <3>2
  <2> QED BY <2>1, <2>2
<1> HIDE DEF S
<1>4. Nat \subseteq S
  BY <1>2, <1>3, SetInduction
<1> QED BY <1>4 DEF S

LEMMA BeforeIs ==
    ASSUME NEW counts, NEW n \in Nat \ {0}, NEW m \in Nat, NEW f, IsBefore(counts, m, f), n <= m
    PROVE  Before(counts, n) = f[n]
<1> DEFINE p == CHOOSE sum : sum = [k \in 1..n |-> IF k = 1 THEN 0 ELSE sum[k - 1] + counts[k - 1]]
<1>1. IsBefore(counts, n, p)
  BY SumsExist, Zenon DEF IsBefore
<1>2. Before(counts, n) = p[n]
  BY DEF Before
<1> HIDE DEF p
<1>3. p[n] = f[n]
  BY <1>1, SumsAgree
<1> QED BY <1>2, <1>3

\* The sum grows by one count at a time.
LEMMA BeforeNext ==
    ASSUME NEW counts
    PROVE  /\ Before(counts, 1) = 0
           /\ \A n \in Nat \ {0} : Before(counts, n + 1) = Before(counts, n) + counts[n]
<1>1. Before(counts, 1) = 0
  <2>1. PICK f : IsBefore(counts, 1, f)
    BY SumsExist
  <2>2. f[1] = 0
    BY <2>1 DEF IsBefore
  <2> QED BY <2>1, <2>2, BeforeIs
<1>2. ASSUME NEW n \in Nat \ {0} PROVE Before(counts, n + 1) = Before(counts, n) + counts[n]
  <2>1. PICK f : IsBefore(counts, n + 1, f)
    BY SumsExist
  <2>2. Before(counts, n + 1) = f[n + 1] /\ Before(counts, n) = f[n]
    BY <2>1, BeforeIs
  <2> DEFINE c(k) == counts[k]
  <2>3. \A k \in 1..n + 1 : f[k] = IF k = 1 THEN 0 ELSE f[k - 1] + c(k - 1)
    BY <2>1 DEF IsBefore
  <2> HIDE DEF c
  <2>4. f[n + 1] = f[n] + c(n)
    <3>1. n + 1 \in 1..n + 1 /\ n + 1 # 1 /\ (n + 1) - 1 = n
      OBVIOUS
    <3> QED BY <2>3, <3>1
  <2> QED BY <2>2, <2>4 DEF c
<1> QED BY <1>1, <1>2

\* The sums up to the first n counts, the first of which is 0.
Growing(c, n) ==
    /\ \A m \in 1..n + 1 : Before(c, m) \in Nat
    /\ \A m \in 1..n : Before(c, m + 1) = Before(c, m) + c[m] /\ c[m] \in Nat
    /\ \A m \in 1..n + 1 : \A k \in 1..m : Before(c, k) <= Before(c, m)
    /\ Before(c, 1) = 0

LEMMA SumsGrow ==
    ASSUME NEW n \in Nat, NEW c, \A m \in 1..n : c[m] \in Nat
    PROVE  Growing(c, n)
<1> DEFINE B(m) == Before(c, m)
           S == {m \in Nat : m <= n => \A k \in 1..m + 1 : B(k) \in Nat /\ B(k) <= B(m + 1)}
<1>1. B(1) = 0
  BY BeforeNext
<1>2. \A m \in 1..n : B(m + 1) = B(m) + c[m]
  <2>1. \A m \in 1..n : m \in Nat \ {0}
    OBVIOUS
  <2> QED BY <2>1, BeforeNext
<1> HIDE DEF B
<1>3. 0 \in S
  <2>1. \A k \in 1..0 + 1 : k = 1
    OBVIOUS
  <2> QED BY <1>1, <2>1
<1>4. ASSUME NEW m \in Nat, m \in S PROVE m + 1 \in S
  <2> SUFFICES ASSUME m + 1 <= n, NEW k \in 1..(m + 1) + 1
               PROVE  B(k) \in Nat /\ B(k) <= B((m + 1) + 1)
    OBVIOUS
  <2> DEFINE j == m + 1
  <2>1. \A i0 \in 1..j : B(i0) \in Nat /\ B(i0) <= B(j)
    BY <1>4
  <2>2. j \in 1..n /\ j \in 1..j
    OBVIOUS
  <2> HIDE DEF j
  <2>3. B(j + 1) = B(j) + c[j] /\ c[j] \in Nat /\ B(j) \in Nat
    BY <1>2, <2>1, <2>2
  <2>4. CASE k \in 1..j
    <3>1. B(k) \in Nat /\ B(k) <= B(j)
      BY <2>1, <2>4
    <3>2. B(k) <= B(j + 1)
      BY <2>3, <3>1
    <3> QED BY <3>1, <3>2 DEF j
  <2>5. CASE k = j + 1
    <3>1. B(j + 1) \in Nat
      BY <2>3
    <3> QED BY <2>5, <3>1 DEF j
  <2> QED BY <2>4, <2>5 DEF j
<1> HIDE DEF S
<1>5. Nat \subseteq S
  BY <1>3, <1>4, SetInduction
<1>6. ASSUME NEW m \in 1..n + 1, NEW k \in 1..m PROVE B(k) \in Nat /\ B(k) <= B(m)
  <2>1. m - 1 \in S /\ m - 1 <= n /\ (m - 1) + 1 = m
    BY <1>5
  <2> QED BY <2>1 DEF S
<1>7. \A m \in 1..n + 1 : B(m) \in Nat
  <2>1. \A m \in 1..n + 1 : m \in 1..m
    OBVIOUS
  <2> QED BY <1>6, <2>1
<1> QED BY <1>1, <1>2, <1>6, <1>7 DEF Growing, B

\* A sum that another one does not reach comes later.
LEMMA SumsOrder ==
    ASSUME NEW n \in Nat, NEW c, Growing(c, n), NEW m \in 1..n, NEW k \in 1..n + 1,
           Before(c, m) < Before(c, k)
    PROVE  m < k
<1>1. CASE k <= m
  <2>1. m \in 1..n + 1 /\ k \in 1..m
    BY <1>1
  <2>2. Before(c, k) <= Before(c, m) /\ Before(c, k) \in Nat /\ Before(c, m) \in Nat
    BY <2>1 DEF Growing
  <2> QED BY <2>2
<1> QED BY <1>1

\* The counts a number falls into are found from it.
PlaceOf(c, n, p) == CHOOSE m \in 1..n : Before(c, m) <= p /\ p < Before(c, m + 1)

LEMMA PlaceFound ==
    ASSUME NEW n \in Nat, NEW c, Growing(c, n), NEW m \in 1..n, NEW p \in Nat,
           Before(c, m) <= p, p < Before(c, m + 1)
    PROVE  PlaceOf(c, n, p) = m
<1> DEFINE x == PlaceOf(c, n, p)
<1>1. x \in 1..n /\ Before(c, x) <= p /\ p < Before(c, x + 1)
  BY DEF PlaceOf
<1> HIDE DEF x
<1>2. x + 1 \in 1..n + 1 /\ m + 1 \in 1..n + 1 /\ x \in 1..n + 1 /\ m \in 1..n + 1
  BY <1>1
<1>3. /\ Before(c, x) \in Nat /\ Before(c, m) \in Nat
      /\ Before(c, x + 1) \in Nat /\ Before(c, m + 1) \in Nat
  BY <1>2 DEF Growing
<1>4. x < m + 1
  <2>1. Before(c, x) < Before(c, m + 1)
    BY <1>1, <1>3
  <2> QED BY <1>1, <1>2, <2>1, SumsOrder
<1>5. m < x + 1
  <2>1. Before(c, m) < Before(c, x + 1)
    BY <1>1, <1>3
  <2> QED BY <1>2, <2>1, SumsOrder
<1>6. x = m
  BY <1>1, <1>4, <1>5
<1> QED BY <1>6 DEF x

\* A FIFO to which w items of the stream S were written, and r read.
Window(f, S, r, w) == r \in Nat /\ w \in Nat /\ r <= w /\ f = [k \in 1..w - r |-> S[r + k]]

LEMMA WindowLength ==
    ASSUME NEW f, NEW S, NEW r, NEW w, Window(f, S, r, w)
    PROVE  /\ r \in Nat /\ w \in Nat /\ r <= w
           /\ Len(f) = w - r /\ (f = <<>> <=> r = w)
           /\ \A k \in 1..w - r : f[k] = S[r + k]
<1>1. r \in Nat /\ w \in Nat /\ r <= w /\ f = [k \in 1..w - r |-> S[r + k]]
  BY DEF Window
<1>2. Len(f) = w - r
  BY <1>1
<1>3. f = <<>> <=> r = w
  <2>1. CASE r = w
    <3>1. 1..w - r = {}
      BY <1>1, <2>1
    <3> QED BY <1>1, <2>1, <3>1
  <2>2. CASE r # w
    BY <1>1, <1>2, <2>2
  <2> QED BY <2>1, <2>2
<1> QED BY <1>1, <1>2, <1>3

LEMMA WindowWrite ==
    ASSUME NEW f, NEW S, NEW r, NEW w, Window(f, S, r, w), NEW x, x = S[w + 1]
    PROVE  Window(Append(f, x), S, r, w + 1)
<1> DEFINE T == {S[r + k] : k \in Nat}  g == Append(f, x)
<1>1. r \in Nat /\ w \in Nat /\ r <= w /\ f = [k \in 1..w - r |-> S[r + k]] /\ w - r \in Nat
  BY DEF Window
<1>2. f \in Seq(T) /\ Len(f) = w - r /\ \A k \in 1..w - r : f[k] = S[r + k]
  <2>1. \A k \in 1..w - r : S[r + k] \in T
    <3>1. \A k \in 1..w - r : k \in Nat
      BY <1>1
    <3> QED BY <3>1, Zenon
  <2> HIDE DEF T
  <2>2. \A k \in 1..w - r : f[k] = S[r + k]
    BY <1>1
  <2> DEFINE n == w - r
  <2>3. n \in Nat /\ f \in [1..n -> T]
    BY <1>1, <2>1
  <2> HIDE DEF n
  <2>4. f \in Seq(T) /\ Len(f) = n
    BY <2>3
  <2> QED BY <2>2, <2>4 DEF n
<1>3. x \in T
  <2>1. w - r + 1 \in Nat /\ r + (w - r + 1) = w + 1
    BY <1>1
  <2> QED BY <2>1
<1> HIDE DEF T
<1>4. g \in Seq(T) /\ Len(g) = (w - r) + 1 /\ g[(w - r) + 1] = x /\ \A k \in 1..w - r : g[k] = f[k]
  BY <1>2, <1>3, AppendProperties
<1> HIDE DEF g
<1>5. g = [k \in 1..(w - r) + 1 |-> g[k]]
  BY <1>4
<1>6. ASSUME NEW k \in 1..(w - r) + 1 PROVE g[k] = S[r + k]
  <2>1. CASE k \in 1..w - r
    BY <1>2, <1>4, <2>1
  <2>2. CASE k = (w - r) + 1
    <3>1. r + k = w + 1
      BY <1>1, <2>2
    <3> QED BY <1>4, <2>2, <3>1
  <2> QED BY <1>1, <2>1, <2>2
<1>7. (w - r) + 1 = (w + 1) - r
  BY <1>1
<1>8. g = [k \in 1..(w + 1) - r |-> S[r + k]]
  BY <1>5, <1>6, <1>7
<1> QED BY <1>1, <1>8 DEF Window, g

LEMMA WindowRead ==
    ASSUME NEW f, NEW S, NEW r, NEW w, Window(f, S, r, w), f # <<>>
    PROVE  r < w /\ Head(f) = S[r + 1] /\ Window(Tail(f), S, r + 1, w)
<1> DEFINE T == {S[r + k] : k \in Nat}  g == Tail(f)
<1>1. r \in Nat /\ w \in Nat /\ r <= w /\ f = [k \in 1..w - r |-> S[r + k]] /\ w - r \in Nat
  BY DEF Window
<1>2. r < w
  BY <1>1, WindowLength
<1>3. f \in Seq(T) /\ Len(f) = w - r /\ \A k \in 1..w - r : f[k] = S[r + k]
  <2>1. \A k \in 1..w - r : S[r + k] \in T
    <3>1. \A k \in 1..w - r : k \in Nat
      BY <1>1
    <3> QED BY <3>1, Zenon
  <2> HIDE DEF T
  <2>2. \A k \in 1..w - r : f[k] = S[r + k]
    BY <1>1
  <2> DEFINE n == w - r
  <2>3. n \in Nat /\ f \in [1..n -> T]
    BY <1>1, <2>1
  <2> HIDE DEF n
  <2>4. f \in Seq(T) /\ Len(f) = n
    BY <2>3
  <2> QED BY <2>2, <2>4 DEF n
<1> HIDE DEF T
<1>4. g \in Seq(T) /\ Len(g) = (w - r) - 1 /\ (\A k \in 1..(w - r) - 1 : g[k] = f[k + 1]) /\ Head(f) = f[1]
  BY <1>3, HeadTailProperties
<1> HIDE DEF g
<1>5. g = [k \in 1..(w - r) - 1 |-> g[k]]
  BY <1>4
<1>6. ASSUME NEW k \in 1..(w - r) - 1 PROVE g[k] = S[(r + 1) + k]
  <2>1. k + 1 \in 1..w - r /\ r + (k + 1) = (r + 1) + k
    BY <1>1
  <2> QED BY <1>3, <1>4, <2>1
<1>7. (w - r) - 1 = w - (r + 1)
  BY <1>1
<1>8. g = [k \in 1..w - (r + 1) |-> S[(r + 1) + k]]
  BY <1>5, <1>6, <1>7
<1>9. Head(f) = S[r + 1]
  BY <1>1, <1>2, <1>3, <1>4
<1> QED BY <1>1, <1>2, <1>8, <1>9 DEF Window, g

LEMMA WindowEmpty ==
    ASSUME NEW S, NEW r \in Nat
    PROVE  Window(<<>>, S, r, r)
<1>1. 1..r - r = {}
  OBVIOUS
<1>2. <<>> = [k \in 1..r - r |-> S[r + k]]
  BY <1>1
<1> QED BY <1>2 DEF Window

Joined(V, c, a, b, n, m) ==
    /\ c \in Seq(V) /\ Len(c) = n + m
    /\ \A k \in 1..n + m : c[k] = IF k <= n THEN a[k] ELSE b[k - n]

LEMMA Concat ==
    ASSUME NEW V, NEW a \in Seq(V), NEW b \in Seq(V), NEW n \in Nat, n = Len(a), NEW m \in Nat, m = Len(b)
    PROVE  Joined(V, a \o b, a, b, n, m)
BY ConcatProperties DEF Joined

\* n items written in one go.
LEMMA WindowMore ==
    ASSUME NEW f, NEW S, NEW r, NEW w, Window(f, S, r, w), NEW n \in Nat, NEW s, s = [k \in 1..n |-> S[w + k]]
    PROVE  Window(f \o s, S, r, w + n)
<1> DEFINE V == {S[k] : k \in Nat}  g == f \o s  d == w - r
<1>1. r \in Nat /\ w \in Nat /\ r <= w /\ d \in Nat /\ f = [k \in 1..d |-> S[r + k]]
  BY DEF Window
<1>2. (\A k \in 1..d : S[r + k] \in V) /\ (\A k \in 1..n : S[w + k] \in V)
  <2>1. (\A k \in 1..d : r + k \in Nat) /\ (\A k \in 1..n : w + k \in Nat)
    BY <1>1
  <2> QED BY <2>1, Zenon
<1> HIDE DEF V
<1>3. d = w - r
  OBVIOUS
<1> HIDE DEF d
<1>4. f \in [1..d -> V] /\ s \in [1..n -> V]
  BY <1>1, <1>2
<1>5. f \in Seq(V) /\ Len(f) = d /\ s \in Seq(V) /\ Len(s) = n
  BY <1>1, <1>4
<1>6. Joined(V, g, f, s, d, n)
  BY <1>1, <1>5, Concat
<1> HIDE DEF g
<1>7. g \in Seq(V) /\ Len(g) = d + n /\ \A k \in 1..d + n : g[k] = IF k <= d THEN f[k] ELSE s[k - d]
  BY <1>6 DEF Joined
<1>8. ASSUME NEW k \in 1..d + n PROVE g[k] = S[r + k]
  <2>1. CASE k <= d
    <3>1. k \in 1..d
      BY <1>1, <2>1
    <3> QED BY <1>1, <1>7, <2>1, <3>1
  <2>2. CASE ~(k <= d)
    <3>1. k - d \in 1..n /\ w + (k - d) = r + k
      BY <1>1, <1>3, <2>2
    <3>2. g[k] = s[k - d]
      BY <1>7, <2>2
    <3> QED BY <3>1, <3>2
  <2> QED BY <2>1, <2>2
<1>9. g = [k \in 1..d + n |-> g[k]]
  BY <1>7
<1>10. g = [k \in 1..d + n |-> S[r + k]]
  BY <1>8, <1>9
<1>11. d + n = (w + n) - r /\ w + n \in Nat /\ r <= w + n
  BY <1>1, <1>3
<1> QED BY <1>1, <1>10, <1>11 DEF Window, g

LEMMA WindowNext ==
    ASSUME NEW f, NEW S, NEW r, NEW w, Window(f, S, r, w), f # <<>>, NEW h, h = Head(f), NEW g, g = Tail(f)
    PROVE  r < w /\ h = S[r + 1] /\ Window(g, S, r + 1, w)
<1> QED BY WindowRead
\* n items taken out in one go.
LEMMA WindowDrop ==
    ASSUME NEW f, NEW S, NEW r, NEW w, Window(f, S, r, w), NEW n \in Nat, r + n <= w
    PROVE  Window(SubSeq(f, n + 1, Len(f)), S, r + n, w)
<1>1. r \in Nat /\ w \in Nat /\ r <= w /\ f = [k \in 1..w - r |-> S[r + k]] /\ Len(f) = w - r
  BY WindowLength DEF Window
<1> DEFINE g == SubSeq(f, n + 1, Len(f))
<1>2. g = [k \in 1..(1 + Len(f) - (n + 1)) |-> f[k + (n + 1) - 1]]
  OBVIOUS
<1>3. 1 + Len(f) - (n + 1) = w - (r + n)
  BY <1>1
<1>4. ASSUME NEW k \in 1..w - (r + n) PROVE f[k + (n + 1) - 1] = S[(r + n) + k]
  <2>1. k + (n + 1) - 1 \in 1..w - r /\ r + (k + (n + 1) - 1) = (r + n) + k
    BY <1>1
  <2> QED BY <1>1, <2>1
<1>5. g = [k \in 1..w - (r + n) |-> S[(r + n) + k]]
  BY <1>2, <1>3, <1>4
<1>6. r + n \in Nat
  BY <1>1
<1> QED BY <1>1, <1>5, <1>6 DEF Window

\* The pieces of a stream put together are its beginning.
IsFlattening(s, n, f) == f = [m \in 1..n |-> IF m = 1 THEN s[m] ELSE f[m - 1] \o s[m]]

IsPiece(x, S, a, d) == x = [k \in 1..d |-> S[a + k]]

LEMMA FlatteningsExist ==
    ASSUME NEW s, NEW n \in Nat
    PROVE  \E f : IsFlattening(s, n, f)
<1> DEFINE T == {m \in Nat : \E f : IsFlattening(s, m, f)}
<1>1. 0 \in T
  <2>1. IsFlattening(s, 0, [k \in 1..0 |-> 0])
    BY DEF IsFlattening
  <2> QED BY <2>1
<1>2. ASSUME NEW m \in Nat, m \in T PROVE m + 1 \in T
  <2>1. PICK f : IsFlattening(s, m, f)
    BY <1>2
  <2> DEFINE c(k) == s[k]
             h(a, b) == a \o b
             g == [k \in 1..m + 1 |-> IF k \in 1..m THEN f[k] ELSE IF k = 1 THEN c(k) ELSE h(f[k - 1], c(k))]
  <2> HIDE DEF c, h
  <2>2. \A k \in 1..m : f[k] = IF k = 1 THEN c(k) ELSE h(f[k - 1], c(k))
    BY <2>1 DEF IsFlattening, c, h
  <2>3. \A k \in 1..m + 1 : g[k] = IF k = 1 THEN c(k) ELSE h(g[k - 1], c(k))
    <3>1. ASSUME NEW k \in 1..m + 1 PROVE g[k] = IF k = 1 THEN c(k) ELSE h(g[k - 1], c(k))
      <4>1. CASE k = 1
        BY <2>2, <4>1
      <4>2. CASE k # 1
        <5>1. k - 1 \in 1..m
          BY <4>2
        <5>2. g[k - 1] = f[k - 1]
          BY <5>1
        <5>3. g[k] = h(f[k - 1], c(k))
          BY <2>2, <4>2
        <5> QED BY <4>2, <5>2, <5>3
      <4> QED BY <4>1, <4>2
    <3> QED BY <3>1
  <2>4. g = [k \in 1..m + 1 |-> IF k = 1 THEN c(k) ELSE h(g[k - 1], c(k))]
    <3>1. g = [k \in 1..m + 1 |-> g[k]]
      OBVIOUS
    <3> HIDE DEF g
    <3> QED BY <2>3, <3>1
  <2> HIDE DEF g
  <2>5. IsFlattening(s, m + 1, g)
    BY <2>4 DEF IsFlattening, c, h
  <2> QED BY <2>5
<1> HIDE DEF T
<1>3. n \in T
  BY <1>1, <1>2, SetInduction
<1> QED BY <1>3 DEF T

LEMMA FlatteningIs ==
    ASSUME NEW S, NEW n \in Nat, NEW c, Growing(c, n), NEW s, s = [m \in 1..n |-> s[m]],
           \A m \in 1..n : IsPiece(s[m], S, Before(c, m), c[m])
    PROVE  Window(FlattenSeq(s), S, 0, Before(c, n + 1))
<1>1. Len(s) = n
  OBVIOUS
<1>2. CASE n = 0
  <2>1. s = <<>>
    <3>1. 1..n = {}
      BY <1>2
    <3> QED BY <3>1
  <2>2. FlattenSeq(s) = <<>>
    BY <1>1, <1>2, <2>1 DEF FlattenSeq
  <2>3. Before(c, n + 1) = 0
    BY <1>2 DEF Growing
  <2> QED BY <2>2, <2>3, WindowEmpty
<1>3. CASE n # 0
  <2> DEFINE f == CHOOSE flatten : flatten = [m \in 1..n |-> IF m = 1 THEN s[m] ELSE flatten[m - 1] \o s[m]]
             T == {m \in Nat : m \in 1..n => Window(f[m], S, 0, Before(c, m + 1))}
  <2>1. IsFlattening(s, n, f)
    BY FlatteningsExist, Zenon DEF IsFlattening
  <2>2. FlattenSeq(s) = f[n]
    BY <1>1, <1>3 DEF FlattenSeq
  <2> HIDE DEF f
  <2>3. \A m \in 1..n : f[m] = IF m = 1 THEN s[m] ELSE f[m - 1] \o s[m]
    BY <2>1 DEF IsFlattening
  <2>4. 0 \in T
    OBVIOUS
  <2>5. ASSUME NEW m \in Nat, m \in T PROVE m + 1 \in T
    <3> SUFFICES ASSUME m + 1 \in 1..n PROVE Window(f[m + 1], S, 0, Before(c, (m + 1) + 1))
      OBVIOUS
    <3> DEFINE x == m + 1  b == Before(c, x)  d == c[x]
    <3>1. b \in Nat /\ d \in Nat /\ Before(c, x + 1) = b + d /\ (m = 0 => b = 0)
      BY DEF Growing
    <3>2. IsPiece(s[x], S, b, d)
      OBVIOUS
    <3>3. x \in 1..n /\ x - 1 = m
      OBVIOUS
    <3> HIDE DEF b, d
    <3>4. s[x] = [k \in 1..d |-> S[b + k]]
      BY <3>2 DEF IsPiece
    <3>5. CASE m = 0
      <4>1. f[x] = s[x]
        BY <2>3, <3>3, <3>5
      <4>2. b = 0 /\ b + d = d /\ d = d - 0
        BY <3>1, <3>5
      <4>3. s[x] = [k \in 1..d - 0 |-> S[0 + k]]
        BY <3>4, <4>2
      <4>4. Window(s[x], S, 0, d)
        BY <3>1, <4>3 DEF Window
      <4> QED BY <3>1, <4>1, <4>2, <4>4
    <3>6. CASE m # 0
      <4>1. m \in 1..n /\ Window(f[m], S, 0, b)
        BY <2>5, <3>3, <3>6 DEF b
      <4>2. f[x] = f[m] \o s[x]
        <5>1. x # 1
          BY <3>3, <3>6
        <5> HIDE DEF x
        <5>2. f[x] = f[x - 1] \o s[x]
          BY <2>3, <3>3, <5>1
        <5> QED BY <3>3, <5>2, Zenon
      <4>3. Window(f[m] \o s[x], S, 0, b + d)
        BY <3>1, <3>4, <4>1, WindowMore
      <4> QED BY <3>1, <4>2, <4>3
    <3> QED BY <3>5, <3>6
  <2> HIDE DEF T
  <2>6. n \in T
    BY <2>4, <2>5, SetInduction
  <2>7. n \in 1..n
    BY <1>3
  <2>8. Window(f[n], S, 0, Before(c, n + 1))
    BY <2>6, <2>7 DEF T
  <2> QED BY <2>2, <2>8
<1> QED BY <1>2, <1>3

-----------------------------------------------------------------------------
(* What goes through a unit in a call, of messages of the lengths ls under    *)
(* keys of kl bytes: flags, lengths and words of the messages it hashes, and  *)
(* their digests.                                                             *)

\* A short key fills its words.
IsCall(ls, kl) == ls \in Seq(Nat) /\ kl \in Nat /\ (kl <= blockSize => kl % WordBytes = 0)

PadWords == Words(blockSize)

\* The keys that are hashed.
Hashed(u, ls, kl) == IF u = "key" /\ ~(kl > blockSize) THEN <<>> ELSE ls

\* Byte i of the padded key of message m, and word j of the pad made of it.
KeyAtByte(kl, m, b) == IF b < kl THEN <<"key", m, b>> ELSE Zero
KeyAtWord(kl, m, w) == [b \in 1..WordBytes |-> KeyAtByte(kl, m, w * WordBytes + b - 1)]
KeyDigest(kl, m) == Digest(kl, [j \in 1..Words(kl) |-> KeyAtWord(kl, m, j - 1)])
PadByte(kl, m, i) == IF kl > blockSize
                     THEN IF i <= HashBytes THEN HashByte(KeyDigest(kl, m), i - 1) ELSE Zero
                     ELSE IF i <= kl THEN <<"key", m, i - 1>> ELSE Zero
PadWord(kl, m, mask, j) == [c \in 1..WordBytes |-> <<mask, PadByte(kl, m, (j - 1) * WordBytes + c)>>]

\* The register of a padded key has its first word at the top.
FromTop(b) == (blockSize - b) \div WordBytes
Register(kl, m) ==
    [b \in 1..blockSize |->
        PadByte(kl, m, FromTop(b) * WordBytes + (b - (blockSize - (FromTop(b) + 1) * WordBytes)))]
Pads(kl, mask) == [m \in Nat |-> Xor(Register(kl, m), mask)]
Shifts(reg, i) == [b \in 1..blockSize |-> IF b > i * WordBytes THEN reg[b - i * WordBytes] ELSE Zero]

\* The length of message m of a unit, and its words.
LengthOf(u, ls, kl, m) == IF u = "key" THEN kl
                          ELSE IF u = "msg" THEN ls[m] + blockSize ELSE blockSize + HashBytes
InnerWord(kl, m, j) == IF j <= PadWords THEN PadWord(kl, m, "36", j) ELSE MsgWord(m, j - PadWords - 1)
InnerDigest(ls, kl, m) == Digest(LengthOf("msg", ls, kl, m),
                                 [j \in 1..Words(LengthOf("msg", ls, kl, m)) |-> InnerWord(kl, m, j)])
OuterWord(ls, kl, m, j) == IF j <= PadWords THEN PadWord(kl, m, "5c", j)
                           ELSE HashWord(InnerDigest(ls, kl, m), j - PadWords - 1)
WordOf(u, ls, kl, m, j) == IF u = "key" THEN KeyAtWord(kl, m, j - 1)
                           ELSE IF u = "msg" THEN InnerWord(kl, m, j) ELSE OuterWord(ls, kl, m, j)
DigestOf(u, ls, kl, m) == Digest(LengthOf(u, ls, kl, m),
                                 [j \in 1..Words(LengthOf(u, ls, kl, m)) |-> WordOf(u, ls, kl, m, j)])

\* The streams of a unit, from the first item of the call to the last.
Flags(ls) == [k \in Nat |-> k = Len(ls) + 1]
Lengths(u, ls, kl) == [m \in DOMAIN ls |-> LengthOf(u, ls, kl, m)]
Counts(u, ls, kl) == [m \in DOMAIN ls |-> Words(LengthOf(u, ls, kl, m))]
Start(u, ls, kl, m) == Before(Counts(u, ls, kl), m)
DataAt(u, ls, kl, k, m) == WordOf(u, ls, kl, m, k - Start(u, ls, kl, m))
Data(u, ls, kl) == [k \in Nat |-> DataAt(u, ls, kl, k, PlaceOf(Counts(u, ls, kl), Len(ls), k - 1))]
Digests(u, ls, kl) == [m \in Nat |-> DigestOf(u, ls, kl, m)]
Flights(u, ls, kl) == [m \in Nat |-> IF m = Len(ls) + 1 THEN END ELSE DigestOf(u, ls, kl, m)]

\* The words of the caller's messages before message m.
MsgCounts(ls) == [m \in DOMAIN ls |-> Words(ls[m])]
MsgStart(ls, m) == Before(MsgCounts(ls), m)

-----------------------------------------------------------------------------
(* Where the processes are: t[u] messages are taken in by unit u and o[u]     *)
(* digests put out, r messages are handed on by mergeKopad.  expanded, padded *)
(* and merged count the messages of the others.                               *)

\* expandStrm: what it has written.
XFlags(x, pc) == IF pc = "done" THEN x + 1 ELSE x
XLens(x, pc) == IF pc = "len" THEN x - 1 ELSE x
XAt(lk, x, pc) ==
    /\ x \in 0..Len(lk) /\ pc \in {"e", "len", "done"}
    /\ pc = "len" => x > 0
    /\ pc = "done" => x = Len(lk)

\* kpad: what it has read of the hashed keys, and written.
KFlags(kl, p, pc) == IF ~(kl > blockSize) THEN 1
                     ELSE IF pc \in {"hash", "finish", "done"} THEN p + 1 ELSE p
KHashes(kl, p) == IF kl > blockSize THEN p ELSE 0
KKipads(p, pc) == IF pc = "ipad" THEN p - 1 ELSE p
KKopads(p, pc) == IF pc \in {"ipad", "opad"} THEN p - 1 ELSE p
KPadFlags(p, pc) == IF pc \in {"ipad", "opad", "flag"} THEN p - 1 ELSE IF pc = "done" THEN p + 1 ELSE p
KAt(ls, kl, p, pc, reg) ==
    /\ p \in 0..Len(ls) /\ pc \in {"e", "hash", "ipad", "opad", "flag", "finish", "done"}
    /\ pc = "hash" => p < Len(ls) /\ kl > blockSize
    /\ pc \in {"ipad", "opad", "flag"} => p > 0
    /\ pc \in {"ipad", "opad"} => reg = Register(kl, p)
    /\ pc \in {"finish", "done"} => p = Len(ls)

\* mergeKipad: what it has read, and written.
MPadFlags(m, pc) == IF pc \in {"flag", "len", "finish", "done"} THEN m + 1 ELSE m
MKipads(m, pc) == IF pc = "ipad" THEN m - 1 ELSE m
MKopads(m, pc) == IF pc \in {"ipad", "pad_words", "opad"} THEN m - 1 ELSE m
MFlags(m, pc) == IF pc \in {"len", "done"} THEN m + 1 ELSE m
MKopad2s(m, pc) == IF pc \in {"ipad", "pad_words", "opad", "pass_opad"} THEN m - 1 ELSE m
MData(ls, kl, m, pc, i) ==
    IF pc = "ipad" THEN Start("msg", ls, kl, m)
    ELSE IF pc = "pad_words" THEN Start("msg", ls, kl, m) + i
    ELSE IF pc \in {"opad", "pass_opad"} THEN Start("msg", ls, kl, m) + PadWords
    ELSE IF pc = "msg_words" THEN Start("msg", ls, kl, m) + (PadWords + i)
    ELSE Start("msg", ls, kl, m + 1)
MRead(ls, m, pc, i) ==
    IF pc \in {"ipad", "pad_words", "opad", "pass_opad"} THEN MsgStart(ls, m)
    ELSE IF pc = "msg_words" THEN MsgStart(ls, m) + i ELSE MsgStart(ls, m + 1)
MAt(ls, kl, m, pc, i, ki, ko, read) ==
    /\ m \in 0..Len(ls)
    /\ pc \in {"e", "flag", "finish", "len", "ipad", "pad_words", "opad", "pass_opad", "msg_words", "done"}
    /\ pc \in {"flag", "len"} => m < Len(ls)
    /\ pc \in {"finish", "done"} => m = Len(ls)
    /\ pc \in {"ipad", "pad_words", "opad", "pass_opad", "msg_words"} => m > 0
    /\ pc = "pad_words" => i \in 0..PadWords - 1 /\ ki = Shifts(Pads(kl, "36")[m], i)
    /\ pc \in {"opad", "pass_opad"} => i = 0
    /\ pc = "pass_opad" => ko = Pads(kl, "5c")[m]
    /\ pc = "msg_words" => i \in 0..Words(ls[m])
    /\ read = MRead(ls, m, pc, i)

\* mergeKopad: what it has read, and written.
RFlags(r, pc) == IF pc = "e" THEN r ELSE r + 1
RFlagsOut(r, pc) == IF pc \in {"len", "opad", "hash", "words", "done"} THEN r + 1 ELSE r
RLens(r, pc) == IF pc \in {"opad", "hash", "words"} THEN r + 1 ELSE r
RKopads(r, pc) == IF pc \in {"hash", "words"} THEN r + 1 ELSE r
RHashes(r, pc) == IF pc = "words" THEN r + 1 ELSE r
RData(ls, kl, r, pc, i) == IF pc = "words" THEN Start("res", ls, kl, r + 1) + i ELSE Start("res", ls, kl, r + 1)
RAt(ls, kl, r, pc, i, ko, h) ==
    /\ r \in 0..Len(ls) /\ pc \in {"e", "flag", "len", "opad", "hash", "words", "finish", "done"}
    /\ pc \in {"flag", "len", "opad", "hash", "words"} => r < Len(ls)
    /\ pc \in {"finish", "done"} => r = Len(ls)
    /\ pc = "hash" => ko = Pads(kl, "5c")[r + 1]
    /\ pc = "words" => /\ i \in 0..(PadWords + Words(HashBytes)) - 1
                       /\ ko = Shifts(Pads(kl, "5c")[r + 1], i)
                       /\ h = InnerDigest(ls, kl, r + 1)

\* A unit: what it has taken, and put out.
TFlags(t, pc) == IF pc = "e" THEN t ELSE t + 1
TLens(t, pc) == IF pc = "words" THEN t + 1 ELSE t
TData(u, ls, kl, t, pc, acc) == IF pc = "words" THEN Start(u, ls, kl, t + 1) + Len(acc) ELSE Start(u, ls, kl, t + 1)
TDigests(t, pc) == IF pc = "done" THEN t + 1 ELSE t
TAt(u, ls, kl, t, pc, len, acc) ==
    /\ t \in 0..Len(ls) /\ pc \in {"e", "len", "words", "done"}
    /\ pc \in {"len", "words"} => t < Len(ls)
    /\ pc = "words" => /\ len = LengthOf(u, ls, kl, t + 1)
                       /\ Len(acc) \in 0..Words(len)
                       /\ Window(acc, Data(u, ls, kl), Start(u, ls, kl, t + 1), Start(u, ls, kl, t + 1) + Len(acc))
    /\ pc = "done" => t = Len(ls)
ODigests(o, pc) == IF pc = "done" THEN o + 1 ELSE o
OFlags(o, pc) == IF pc = "flag" THEN o - 1 ELSE IF pc = "done" THEN o + 1 ELSE o
OAt(ls, o, pc) ==
    /\ o \in 0..Len(ls) /\ pc \in {"hash", "flag", "done"}
    /\ pc = "flag" => o > 0
    /\ pc = "done" => o = Len(ls)

\* The words of the keys are read by the hash, or by kpad itself.
KData(ls, kl, p, t, pc, acc) == IF kl > blockSize THEN TData("key", ls, kl, t, pc, acc)
                                ELSE Start("key", ls, kl, p + 1)

\* A function on the units.
OnUnits(f) == f = [u \in Units |-> f[u]]

Formed == /\ OnUnits(fpc) /\ OnUnits(flen) /\ OnUnits(facc) /\ OnUnits(flight) /\ OnUnits(opc)
          /\ OnUnits(eIn) /\ OnUnits(lenIn) /\ OnUnits(dataIn) /\ OnUnits(hashOut) /\ OnUnits(eOut)

\* A unit, with what its surroundings have written (flags, lengths) and read.
UnitFlow(u, ls, kl, t, o, flags, lengths, hashes, eouts) ==
    /\ TAt(u, ls, kl, t, fpc[u], flen[u], facc[u])
    /\ OAt(ls, o, opc[u])
    /\ Window(eIn[u], Flags(ls), TFlags(t, fpc[u]), flags)
    /\ Window(lenIn[u], Lengths(u, ls, kl), TLens(t, fpc[u]), lengths)
    /\ Window(flight[u], Flights(u, ls, kl), ODigests(o, opc[u]), TDigests(t, fpc[u]))
    /\ Window(hashOut[u], Digests(u, ls, kl), hashes, o)
    /\ Window(eOut[u], Flags(ls), eouts, OFlags(o, opc[u]))

\* The units, and their words.
KeyFlow(t, o) ==
    /\ UnitFlow("key", Hashed("key", lens, keyLen), keyLen, t, o, XFlags(expanded, xpc), XLens(expanded, xpc),
                KHashes(keyLen, padded), KFlags(keyLen, padded, kpc))
    /\ Window(dataIn["key"], Data("key", lens, keyLen), KData(lens, keyLen, padded, t, fpc["key"], facc["key"]),
              Start("key", lens, keyLen, Len(lens) + 1))
MsgFlow(t, o, r) ==
    /\ UnitFlow("msg", lens, keyLen, t, o, MFlags(merged, mpc), merged, RHashes(r, rpc), RFlags(r, rpc))
    /\ Window(dataIn["msg"], Data("msg", lens, keyLen), TData("msg", lens, keyLen, t, fpc["msg"], facc["msg"]),
              MData(lens, keyLen, merged, mpc, mi))
ResFlow(t, o, r) ==
    /\ UnitFlow("res", lens, keyLen, t, o, RFlagsOut(r, rpc), RLens(r, rpc), 0, 0)
    /\ Window(dataIn["res"], Data("res", lens, keyLen), TData("res", lens, keyLen, t, fpc["res"], facc["res"]),
              RData(lens, keyLen, r, rpc, ri))

\* The processes between the units, and the streams of the pads.
PadFlow(r) ==
    /\ XAt(Hashed("key", lens, keyLen), expanded, xpc)
    /\ KAt(lens, keyLen, padded, kpc, k1)
    /\ MAt(lens, keyLen, merged, mpc, mi, kipad, mkopad, msgRead)
    /\ RAt(lens, keyLen, r, rpc, ri, kopad, msgHash)
    /\ Window(kipadStrm, Pads(keyLen, "36"), MKipads(merged, mpc), KKipads(padded, kpc))
    /\ Window(kopadStrm, Pads(keyLen, "5c"), MKopads(merged, mpc), KKopads(padded, kpc))
    /\ Window(eKipadStrm, Flags(lens), MPadFlags(merged, mpc), KPadFlags(padded, kpc))
    /\ Window(kopad2Strm, Pads(keyLen, "5c"), RKopads(r, rpc), MKopad2s(merged, mpc))
-----------------------------------------------------------------------------
(* Words and registers *)

LEMMA Quotients ==
    ASSUME NEW b \in Nat \ {0}, NEW q \in Nat, NEW c \in 0..b - 1, NEW n, n = b * q + c
    PROVE  n \div b = q
<1> DEFINE p == n \div b  d == n % b
<1>1. n \in Nat
  OBVIOUS
<1>2. p \in Nat /\ d \in 0..b - 1 /\ n = b * p + d
  BY <1>1
<1> HIDE DEF p, d
<1>3. CASE p < q
  <2>1. b * q >= b * (p + 1)
    BY <1>2, <1>3, SMTT(30)
  <2>2. b * (p + 1) = b * p + b
    BY <1>2
  <2>3. b * p \in Nat /\ b * q \in Nat /\ b * (p + 1) \in Nat
    BY <1>2
  <2> QED BY <1>2, <2>1, <2>2, <2>3
<1>4. CASE q < p
  <2>1. b * p >= b * (q + 1)
    BY <1>2, <1>4, SMTT(30)
  <2>2. b * (q + 1) = b * q + b
    OBVIOUS
  <2>3. b * p \in Nat /\ b * q \in Nat /\ b * (q + 1) \in Nat
    BY <1>2
  <2> QED BY <1>2, <2>1, <2>2, <2>3
<1> QED BY <1>2, <1>3, <1>4 DEF p

LEMMA Division ==
    ASSUME NEW n \in Nat, NEW b \in Nat \ {0}
    PROVE  n \div b \in Nat /\ n % b \in 0..b - 1 /\ n = b * (n \div b) + (n % b)
OBVIOUS

LEMMA Sizes ==
    /\ WordBytes \in Nat \ {0} /\ blockSize \in Nat \ {0} /\ HashBytes \in Nat \ {0} /\ HashBytes <= blockSize
    /\ blockSize % WordBytes = 0 /\ HashBytes % WordBytes = 0
BY HmacAssumption

\* n bytes that fill q words.
LEMMA WholeWords ==
    ASSUME NEW n \in Nat, n % WordBytes = 0
    PROVE  /\ Words(n) \in Nat /\ n = WordBytes * Words(n)
           /\ \A x \in Nat : Words(x) \in Nat /\ Words(x + n) = Words(x) + Words(n)
<1> DEFINE b == WordBytes  q == n \div b
<1>1. b \in Nat \ {0}
  BY Sizes
<1> HIDE DEF b
<1>2. q \in Nat /\ n = b * q
  <2>1. n \div b \in Nat /\ n = b * (n \div b) + (n % b)
    BY <1>1, Division
  <2> QED BY <1>1, <2>1 DEF b
<1> HIDE DEF q
<1>3. ASSUME NEW x \in Nat
      PROVE  Words(x) \in Nat /\ Words(x + n) = Words(x) + q
  <2> DEFINE y == x + b - 1  p == y \div b  d == y % b
  <2>1. y \in Nat
    BY <1>1
  <2> HIDE DEF y
  <2>2. p \in Nat /\ d \in 0..b - 1 /\ y = b * p + d
    BY <1>1, <2>1
  <2> HIDE DEF p, d
  <2>3. x + n + b - 1 = b * (p + q) + d
    <3>1. b * (p + q) = b * p + b * q
      BY <1>1, <1>2, <2>2
    <3>2. x + b - 1 = b * p + d
      BY <2>2 DEF y
    <3>3. b * p \in Nat /\ b * q \in Nat
      BY <1>1, <1>2, <2>2
    <3> QED BY <1>1, <1>2, <2>2, <3>1, <3>2, <3>3
  <2>4. (x + n + b - 1) \div b = p + q
    <3> DEFINE z == x + n + b - 1  v == p + q
    <3>1. v \in Nat
      BY <1>2, <2>2
    <3>2. z = b * v + d
      BY <2>3
    <3> HIDE DEF z, v
    <3>3. z \div b = v
      BY <1>1, <2>2, <3>1, <3>2, Quotients
    <3> QED BY <3>3 DEF z, v
  <2>5. Words(x + n) = p + q /\ Words(x) = p
    BY <2>4 DEF Words, b, p, y
  <2> QED BY <2>2, <2>5
<1>4. Words(n) = q
  <2>1. n + b - 1 = b * q + (b - 1) /\ b - 1 \in 0..b - 1
    BY <1>1, <1>2
  <2>2. (n + b - 1) \div b = q
    BY <1>1, <1>2, <2>1, Quotients
  <2> QED BY <2>2 DEF Words, b
<1> QED BY <1>1, <1>2, <1>3, <1>4 DEF b

LEMMA PadSizes ==
    /\ PadWords \in Nat \ {0} /\ blockSize = WordBytes * PadWords
    /\ Words(HashBytes) \in Nat \ {0} /\ HashBytes = WordBytes * Words(HashBytes)
    /\ \A x \in Nat : Words(x) \in Nat /\ Words(x + blockSize) = Words(x) + PadWords
    /\ Words(blockSize + HashBytes) = PadWords + Words(HashBytes)
<1>1. /\ PadWords \in Nat /\ blockSize = WordBytes * PadWords
      /\ \A x \in Nat : Words(x) \in Nat /\ Words(x + blockSize) = Words(x) + PadWords
  BY Sizes, WholeWords DEF PadWords
<1>2. /\ Words(HashBytes) \in Nat /\ HashBytes = WordBytes * Words(HashBytes)
      /\ \A x \in Nat : Words(x + HashBytes) = Words(x) + Words(HashBytes)
  BY Sizes, WholeWords
<1>3. PadWords # 0 /\ Words(HashBytes) # 0
  BY <1>1, <1>2, Sizes
<1>4. Words(blockSize + HashBytes) = PadWords + Words(HashBytes)
  BY <1>2, Sizes DEF PadWords
<1> QED BY <1>1, <1>2, <1>3, <1>4

\* The place in a register of byte c of the word w below the top.
PlaceIn(w, c) == blockSize - (w + 1) * WordBytes + c

LEMMA PlacesIn ==
    ASSUME NEW w \in 0..PadWords - 1, NEW c \in 1..WordBytes
    PROVE  /\ PlaceIn(w, c) \in 1..blockSize /\ FromTop(PlaceIn(w, c)) = w
           /\ PlaceIn(w, c) - (blockSize - (w + 1) * WordBytes) = c
           /\ w * WordBytes + c \in Nat
<1> DEFINE b == WordBytes  y == b * w
<1>1. b \in Nat \ {0} /\ PadWords \in Nat \ {0} /\ blockSize = b * PadWords /\ blockSize \in Nat
  BY Sizes, PadSizes
<1> HIDE DEF b
<1>2. y \in Nat /\ (w + 1) * b = y + b /\ w * b = y
  BY <1>1
<1>3. y + b <= blockSize
  <2>1. w + 1 <= PadWords /\ w + 1 \in Nat
    BY <1>1
  <2>2. b * (w + 1) <= b * PadWords
    BY <1>1, <2>1, SMTT(30)
  <2>3. b * (w + 1) = y + b
    BY <1>1
  <2> QED BY <1>1, <2>2, <2>3
<1> HIDE DEF y
<1>4. PlaceIn(w, c) = blockSize - (y + b) + c
  BY <1>2 DEF PlaceIn, b
<1>5. PlaceIn(w, c) \in 1..blockSize /\ blockSize - PlaceIn(w, c) = y + (b - c)
  BY <1>1, <1>2, <1>3, <1>4 DEF b
<1>6. (y + (b - c)) \div b = w
  <2>1. b - c \in 0..b - 1 /\ y + (b - c) = b * w + (b - c)
    BY <1>1, <1>2 DEF b, y
  <2> QED BY <1>1, <2>1, Quotients
<1>7. FromTop(PlaceIn(w, c)) = w
  BY <1>5, <1>6 DEF FromTop, b
<1>8. PlaceIn(w, c) - (blockSize - (w + 1) * WordBytes) = c
  BY <1>1, <1>2, <1>4 DEF b
<1>9. w * WordBytes + c \in Nat
  BY <1>1, <1>2 DEF b
<1> QED BY <1>5, <1>7, <1>8, <1>9

\* Each place is one of these.
LEMMA EveryPlace ==
    ASSUME NEW p \in 1..blockSize
    PROVE  \E w \in 0..PadWords - 1, c \in 1..WordBytes : p = PlaceIn(w, c)
<1> DEFINE b == WordBytes  n == blockSize - p  w == n \div b  d == n % b
<1>1. b \in Nat \ {0} /\ PadWords \in Nat \ {0} /\ blockSize = b * PadWords /\ blockSize \in Nat
  BY Sizes, PadSizes
<1> HIDE DEF b
<1>2. n \in Nat /\ n < blockSize
  BY <1>1
<1> HIDE DEF n
<1>3. w \in Nat /\ d \in 0..b - 1 /\ n = b * w + d
  BY <1>1, <1>2
<1> HIDE DEF w, d
<1>4. w < PadWords
  <2>1. CASE w >= PadWords
    <3>1. b * w >= b * PadWords
      BY <1>1, <1>3, <2>1, SMTT(30)
    <3> QED BY <1>1, <1>2, <1>3, <3>1
  <2> QED BY <1>1, <1>3, <2>1
<1>5. b - d \in 1..b
  BY <1>1, <1>3
<1>6. PlaceIn(w, b - d) = p
  <2>1. (w + 1) * b = b * w + b /\ b * w \in Nat
    BY <1>1, <1>3
  <2>2. p = blockSize - n
    BY <1>1 DEF n
  <2> QED BY <1>1, <1>3, <2>1, <2>2 DEF PlaceIn, b
<1> QED BY <1>1, <1>3, <1>4, <1>5, <1>6 DEF b

LEMMA RegisterAt ==
    ASSUME NEW kl, NEW m, NEW w \in 0..PadWords - 1, NEW c \in 1..WordBytes
    PROVE  Register(kl, m)[PlaceIn(w, c)] = PadByte(kl, m, w * WordBytes + c)
<1>1. /\ PlaceIn(w, c) \in 1..blockSize /\ FromTop(PlaceIn(w, c)) = w
      /\ PlaceIn(w, c) - (blockSize - (w + 1) * WordBytes) = c
  BY PlacesIn
<1> DEFINE p == PlaceIn(w, c)
<1>2. Register(kl, m)[p] =
          PadByte(kl, m, FromTop(p) * WordBytes + (p - (blockSize - (FromTop(p) + 1) * WordBytes)))
  BY <1>1 DEF Register
<1> QED BY <1>1, <1>2

\* Two registers with the same words are the same.
IsRegister(reg, kl, m) ==
    /\ reg = [b \in 1..blockSize |-> reg[b]]
    /\ \A w \in 0..PadWords - 1 : \A c \in 1..WordBytes : reg[PlaceIn(w, c)] = PadByte(kl, m, w * WordBytes + c)

LEMMA SameRegister ==
    ASSUME NEW kl, NEW m, NEW reg, IsRegister(reg, kl, m)
    PROVE  reg = Register(kl, m)
<1> USE DEF IsRegister
<1>1. ASSUME NEW p \in 1..blockSize PROVE reg[p] = Register(kl, m)[p]
  <2>1. PICK w \in 0..PadWords - 1, c \in 1..WordBytes : p = PlaceIn(w, c)
    BY EveryPlace
  <2> QED BY <2>1, RegisterAt
<1>2. Register(kl, m) = [b \in 1..blockSize |-> Register(kl, m)[b]]
  BY DEF Register
<1> QED BY <1>1, <1>2

LEMMA TopIs ==
    ASSUME NEW s, s = [b \in 1..blockSize |-> s[b]]
    PROVE  TopWord(s) = [c \in 1..WordBytes |-> s[c + (blockSize - WordBytes + 1) - 1]]
<1> DEFINE a == blockSize - WordBytes + 1  T == {s[b] : b \in 1..blockSize}
<1>1. WordBytes \in Nat \ {0} /\ blockSize \in Nat /\ a \in 1..blockSize
  <2>1. WordBytes <= blockSize
    BY Sizes, PadSizes, SMTT(30)
  <2> QED BY <2>1, Sizes
<1>2. s \in Seq(T) /\ Len(s) = blockSize
  <2>1. \A b \in 1..blockSize : s[b] \in T
    OBVIOUS
  <2> HIDE DEF T
  <2>2. s \in [1..blockSize -> T]
    BY <2>1
  <2> QED BY <1>1, <2>2
<1> HIDE DEF T
<1> DEFINE g == SubSeq(s, a, blockSize)
<1>3. /\ g \in Seq(T) /\ Len(g) = blockSize - a + 1
      /\ \A c \in 1..blockSize - a + 1 : g[c] = s[a + c - 1]
  <2>1. a \in Int /\ blockSize \in Int /\ a <= blockSize
    BY <1>1
  <2>2. \A b \in a..blockSize : s[b] \in T
    BY <1>1, <1>2
  <2> HIDE DEF a
  <2>3. Len(g) = IF a <= blockSize THEN blockSize - a + 1 ELSE 0
    BY <2>1, <2>2, SubSeqProperties
  <2> QED BY <2>1, <2>2, <2>3, SubSeqProperties
<1>4. TopWord(s) = g
  BY DEF TopWord
<1>5. blockSize - a + 1 = WordBytes
  BY <1>1
<1>6. \A c \in 1..WordBytes : a + c - 1 = c + a - 1
  BY <1>1
<1> HIDE DEF g, a
<1>7. g = [c \in 1..WordBytes |-> g[c]]
  BY <1>3, <1>5
<1>8. \A c \in 1..WordBytes : g[c] = s[c + a - 1]
  BY <1>3, <1>5, <1>6
<1>9. g = [c \in 1..WordBytes |-> s[c + a - 1]]
  BY <1>7, <1>8
<1> QED BY <1>4, <1>9 DEF a

\* The word at the top of a pad that was shifted i times is its word i + 1.
LEMMA TopOfPad ==
    ASSUME NEW kl, NEW m \in Nat, NEW mask, NEW i \in 0..PadWords - 1
    PROVE  TopWord(Shifts(Pads(kl, mask)[m], i)) = PadWord(kl, m, mask, i + 1)
<1> DEFINE reg == Pads(kl, mask)[m]  s == Shifts(reg, i)  a == blockSize - WordBytes + 1
<1>1. WordBytes \in Nat \ {0} /\ blockSize \in Nat
  BY Sizes
<1>2. TopWord(s) = [c \in 1..WordBytes |-> s[c + a - 1]]
  <2>1. s = [b \in 1..blockSize |-> s[b]]
    BY DEF Shifts
  <2> HIDE DEF s
  <2> QED BY <2>1, TopIs
<1>3. ASSUME NEW c \in 1..WordBytes
      PROVE  s[c + a - 1] = <<mask, PadByte(kl, m, i * WordBytes + c)>>
  <2>1. PlaceIn(0, c) \in 1..blockSize /\ PlaceIn(0, c) = c + a - 1
    <3>1. 0 \in 0..PadWords - 1
      BY PadSizes
    <3>2. (0 + 1) * WordBytes = WordBytes
      BY <1>1
    <3>3. PlaceIn(0, c) \in 1..blockSize
      BY <3>1, PlacesIn
    <3> QED BY <1>1, <3>2, <3>3 DEF PlaceIn
  <2>2. PlaceIn(i, c) \in 1..blockSize /\ PlaceIn(0, c) - i * WordBytes = PlaceIn(i, c)
    <3>1. (i + 1) * WordBytes = i * WordBytes + WordBytes /\ i * WordBytes \in Nat /\ (0 + 1) * WordBytes = WordBytes
      BY <1>1
    <3>2. PlaceIn(i, c) \in 1..blockSize
      BY PlacesIn
    <3> QED BY <1>1, <3>1, <3>2 DEF PlaceIn
  <2>3. i * WordBytes \in Nat
    BY <1>1
  <2>4. PlaceIn(0, c) > i * WordBytes
    BY <2>1, <2>2, <2>3
  <2>5. s[PlaceIn(0, c)] = reg[PlaceIn(i, c)]
    BY <2>1, <2>2, <2>4 DEF Shifts
  <2>6. reg[PlaceIn(i, c)] = <<mask, Register(kl, m)[PlaceIn(i, c)]>>
    BY <2>2 DEF Pads, Xor
  <2>7. Register(kl, m)[PlaceIn(i, c)] = PadByte(kl, m, i * WordBytes + c)
    BY RegisterAt
  <2> QED BY <2>1, <2>5, <2>6, <2>7
<1>4. (i + 1) - 1 = i
  OBVIOUS
<1>5. PadWord(kl, m, mask, i + 1) = [c \in 1..WordBytes |-> <<mask, PadByte(kl, m, i * WordBytes + c)>>]
  BY <1>4 DEF PadWord
<1> HIDE DEF s, a
<1> QED BY <1>2, <1>3, <1>5 DEF s

LEMMA ShiftOnce ==
    ASSUME NEW reg, NEW i \in Nat
    PROVE  ShiftWord(Shifts(reg, i)) = Shifts(reg, i + 1)
<1> DEFINE b == WordBytes  y == i * b  s == Shifts(reg, i)
<1>1. b \in Nat \ {0} /\ blockSize \in Nat
  BY Sizes
<1> HIDE DEF b
<1>2. y \in Nat /\ (i + 1) * b = y + b
  BY <1>1
<1> HIDE DEF y
<1>3. ASSUME NEW k \in 1..blockSize
      PROVE  (IF k > b THEN s[k - b] ELSE Zero) = IF k > y + b THEN reg[k - (y + b)] ELSE Zero
  <2>1. CASE k > b
    <3>1. k - b \in 1..blockSize
      BY <1>1, <2>1
    <3>2. s[k - b] = IF k - b > y THEN reg[(k - b) - y] ELSE Zero
      BY <3>1 DEF Shifts, y, b
    <3>3. (k - b > y <=> k > y + b) /\ (k - b) - y = k - (y + b)
      BY <1>1, <1>2
    <3> QED BY <2>1, <3>2, <3>3
  <2>2. CASE ~(k > b)
    BY <1>1, <1>2, <2>2
  <2> QED BY <2>1, <2>2
<1> HIDE DEF s
<1>4. ShiftWord(s) = [k \in 1..blockSize |-> IF k > b THEN s[k - b] ELSE Zero]
  BY DEF ShiftWord, b
<1>5. Shifts(reg, i + 1) = [k \in 1..blockSize |-> IF k > y + b THEN reg[k - (y + b)] ELSE Zero]
  BY <1>2 DEF Shifts, b
<1> QED BY <1>3, <1>4, <1>5 DEF s

LEMMA NotShifted ==
    ASSUME NEW kl, NEW m \in Nat, NEW mask
    PROVE  Shifts(Pads(kl, mask)[m], 0) = Pads(kl, mask)[m]
<1> DEFINE reg == Pads(kl, mask)[m]
<1>1. reg = [b \in 1..blockSize |-> reg[b]]
  <2>1. reg = Xor(Register(kl, m), mask)
    BY DEF Pads
  <2> QED BY <2>1 DEF Xor
<1>2. 0 * WordBytes = 0 /\ blockSize \in Nat
  BY Sizes
<1> HIDE DEF reg
<1>3. \A b \in 1..blockSize : b > 0 /\ b - 0 = b
  BY <1>2
<1>4. Shifts(reg, 0) = [b \in 1..blockSize |-> reg[b]]
  BY <1>2, <1>3 DEF Shifts
<1> QED BY <1>1, <1>4 DEF reg

-----------------------------------------------------------------------------
(* The padded key *)

LEMMA LongKeyRegister ==
    ASSUME NEW kl, kl > blockSize, NEW m
    PROVE  LongKeyBlock(KeyDigest(kl, m)) = Register(kl, m)
<1> DEFINE h == KeyDigest(kl, m)  reg == LongKeyBlock(h)
           At(b) == LET w == (blockSize - b) \div WordBytes
                    IN  IF w < HashBytes \div WordBytes
                        THEN HashWord(h, w)[b - (blockSize - (w + 1) * WordBytes)] ELSE Zero
<1>1. reg = [b \in 1..blockSize |-> At(b)]
  BY DEF LongKeyBlock
<1>2. WordBytes \in Nat \ {0} /\ Words(HashBytes) \in Nat /\ HashBytes = WordBytes * Words(HashBytes) /\ HashBytes \in Nat
  BY Sizes, PadSizes
<1>3. HashBytes \div WordBytes = Words(HashBytes)
  <2>1. HashBytes = WordBytes * Words(HashBytes) + 0 /\ 0 \in 0..WordBytes - 1
    BY <1>2
  <2> QED BY <1>2, <2>1, Quotients
<1> HIDE DEF h
<1>4. ASSUME NEW w \in 0..PadWords - 1, NEW c \in 1..WordBytes
      PROVE  reg[PlaceIn(w, c)] = PadByte(kl, m, w * WordBytes + c)
  <2> DEFINE b == PlaceIn(w, c)  n == Words(HashBytes)  y == w * WordBytes
  <2>1. b \in 1..blockSize /\ FromTop(b) = w /\ b - (blockSize - (w + 1) * WordBytes) = c
    BY PlacesIn
  <2>2. reg[b] = At(b)
    BY <1>1, <2>1
  <2>3. At(b) = IF w < n THEN HashWord(h, w)[c] ELSE Zero
    BY <1>3, <2>1 DEF FromTop
  <2>4. y \in Nat /\ WordBytes * w = y
    BY <1>2
  <2>5. w < n <=> y + c <= HashBytes
    <3>1. CASE w < n
      <4>1. WordBytes * (w + 1) <= WordBytes * n
        <5>1. w + 1 <= n /\ w + 1 \in Nat
          BY <1>2, <3>1
        <5> QED BY <1>2, <5>1, SMTT(30)
      <4>2. WordBytes * (w + 1) = y + WordBytes
        BY <1>2
      <4> QED BY <1>2, <2>4, <3>1, <4>1, <4>2
    <3>2. CASE ~(w < n)
      <4>1. WordBytes * w >= WordBytes * n
        BY <1>2, <3>2, SMTT(30)
      <4> QED BY <1>2, <2>4, <3>2, <4>1
    <3> QED BY <3>1, <3>2
  <2>6. PadByte(kl, m, y + c) = IF y + c <= HashBytes THEN HashByte(h, y + c - 1) ELSE Zero
    <3> HIDE DEF y
    <3>1. PadByte(kl, m, y + c) = IF kl > blockSize
                                  THEN IF y + c <= HashBytes THEN HashByte(KeyDigest(kl, m), (y + c) - 1) ELSE Zero
                                  ELSE IF y + c <= kl THEN <<"key", m, (y + c) - 1>> ELSE Zero
      BY DEF PadByte
    <3>2. (y + c) - 1 = y + c - 1
      BY <2>4
    <3> QED BY <3>1, <3>2, Zenon DEF h
  <2>7. HashWord(h, w)[c] = HashByte(h, y + c - 1)
    BY DEF HashWord
  <2> QED BY <2>2, <2>3, <2>5, <2>6, <2>7
<1> HIDE DEF At
<1>5. reg = [b \in 1..blockSize |-> reg[b]]
  BY <1>1
<1> HIDE DEF reg
<1>6. \A w \in 0..PadWords - 1 : \A c \in 1..WordBytes : reg[PlaceIn(w, c)] = PadByte(kl, m, w * WordBytes + c)
  BY <1>4
<1>7. IsRegister(reg, kl, m)
  BY <1>5, <1>6 DEF IsRegister
<1>8. reg = Register(kl, m)
  BY <1>7, SameRegister
<1> QED BY <1>8 DEF reg, h

\* Words entered one after the other, from a block of zeros.
Entered(d, n, f) == f = [w \in 0..n |-> IF w = 0 THEN ZeroBlock ELSE Enter(f[w - 1], d[w])]

LEMMA EnteredExist ==
    ASSUME NEW d, NEW n \in Nat
    PROVE  \E f : Entered(d, n, f)
<1> DEFINE T == {m \in Nat : \E f : Entered(d, m, f)}
           e(a, k) == Enter(a, d[k])
<1>1. 0 \in T
  <2> DEFINE f == [w \in 0..0 |-> ZeroBlock]
  <2>1. \A w \in 0..0 : w = 0
    OBVIOUS
  <2>2. Entered(d, 0, f)
    BY <2>1 DEF Entered
  <2> QED BY <2>2
<1>2. ASSUME NEW m \in Nat, m \in T PROVE m + 1 \in T
  <2>1. PICK f : Entered(d, m, f)
    BY <1>2
  <2> DEFINE g == [k \in 0..m + 1 |-> IF k \in 0..m THEN f[k] ELSE e(f[k - 1], k)]
  <2> HIDE DEF e
  <2>2. \A k \in 0..m : f[k] = IF k = 0 THEN ZeroBlock ELSE e(f[k - 1], k)
    BY <2>1 DEF Entered, e
  <2>3. ASSUME NEW k \in 0..m + 1 PROVE g[k] = IF k = 0 THEN ZeroBlock ELSE e(g[k - 1], k)
    <3>1. CASE k = 0
      BY <2>2, <3>1
    <3>2. CASE k # 0
      <4>1. k - 1 \in 0..m /\ k - 1 \in 0..m + 1
        BY <3>2
      <4>2. g[k - 1] = f[k - 1]
        BY <4>1
      <4>3. g[k] = e(f[k - 1], k)
        BY <2>2, <3>2
      <4> QED BY <3>2, <4>2, <4>3
    <3> QED BY <3>1, <3>2
  <2>4. g = [k \in 0..m + 1 |-> g[k]]
    OBVIOUS
  <2> HIDE DEF g
  <2>5. g = [k \in 0..m + 1 |-> IF k = 0 THEN ZeroBlock ELSE e(g[k - 1], k)]
    BY <2>3, <2>4
  <2>6. Entered(d, m + 1, g)
    BY <2>5 DEF Entered, e
  <2> QED BY <2>6
<1> HIDE DEF T
<1>3. n \in T
  BY <1>1, <1>2, SetInduction
<1> QED BY <1>3 DEF T

\* After n words: word v has been shifted up by those behind it, and below
\* where words enter there is nothing.
Holds(reg, n, kl, m) ==
    /\ reg = [b \in 1..blockSize |-> reg[b]]
    /\ \A b \in 1..blockSize : b <= KeyAt => reg[b] = Zero
    /\ \A v \in 0..n - 1 : \A c \in 1..WordBytes :
           KeyAt + (n - 1 - v) * WordBytes + c <= blockSize
               => reg[KeyAt + (n - 1 - v) * WordBytes + c] = KeyAtByte(kl, m, v * WordBytes + c - 1)

LEMMA EnterHolds ==
    ASSUME NEW reg, NEW n \in Nat, NEW kl, NEW m, Holds(reg, n, kl, m), KeyAt \in Nat
    PROVE  Holds(Enter(reg, KeyAtWord(kl, m, n)), n + 1, kl, m)
<1> DEFINE word == KeyAtWord(kl, m, n)  next == Enter(reg, word)  b0 == WordBytes  a == KeyAt
<1>1. b0 \in Nat \ {0} /\ blockSize \in Nat /\ a \in Nat
  BY Sizes
<1>2. /\ next = [b \in 1..blockSize |-> next[b]]
      /\ \A b \in 1..blockSize : next[b] = IF b - a \in 1..b0 THEN word[b - a] ELSE ShiftWord(reg)[b]
  BY DEF Enter
<1>3. \A b \in 1..blockSize : ShiftWord(reg)[b] = IF b > b0 THEN reg[b - b0] ELSE Zero
  BY DEF ShiftWord
<1> HIDE DEF next, b0, a
<1>4. ASSUME NEW b \in 1..blockSize, b <= a PROVE next[b] = Zero
  <2>1. b - a \notin 1..b0
    BY <1>1, <1>4
  <2>2. CASE b > b0
    <3>1. b - b0 \in 1..blockSize /\ b - b0 <= a
      BY <1>1, <1>4, <2>2
    <3>2. reg[b - b0] = Zero
      BY <3>1 DEF Holds, a
    <3> QED BY <1>2, <1>3, <2>1, <2>2, <3>2
  <2> QED BY <1>2, <1>3, <2>1, <2>2
<1>5. ASSUME NEW v \in 0..(n + 1) - 1, NEW c \in 1..b0, a + ((n + 1) - 1 - v) * b0 + c <= blockSize
      PROVE  next[a + ((n + 1) - 1 - v) * b0 + c] = KeyAtByte(kl, m, v * b0 + c - 1)
  <2> DEFINE b == a + ((n + 1) - 1 - v) * b0 + c
  <2>1. CASE v = n
    <3>1. ((n + 1) - 1 - v) * b0 = 0
      BY <1>1, <2>1
    <3>2. b = a + c /\ b - a = c /\ b \in 1..blockSize
      BY <1>1, <1>5, <3>1
    <3>3. next[b] = word[c]
      BY <1>2, <3>2
    <3>4. word[c] = KeyAtByte(kl, m, n * b0 + c - 1)
      BY DEF KeyAtWord, b0
    <3> QED BY <2>1, <3>3, <3>4
  <2>2. CASE v # n
    <3> DEFINE z == (n - 1 - v) * b0
    <3>1. v \in 0..n - 1 /\ n - 1 - v \in Nat
      BY <2>2
    <3>2. z \in Nat /\ ((n + 1) - 1 - v) * b0 = z + b0
      <4>1. (n + 1) - 1 - v = (n - 1 - v) + 1
        OBVIOUS
      <4> DEFINE q == n - 1 - v
      <4> HIDE DEF q
      <4>2. (q + 1) * b0 = q * b0 + b0 /\ q * b0 \in Nat
        BY <1>1, <3>1 DEF q
      <4> QED BY <4>1, <4>2 DEF q
    <3> HIDE DEF z
    <3>3. b = a + (z + b0) + c /\ b \in 1..blockSize /\ b - b0 = a + z + c /\ b > b0 /\ b - a \notin 1..b0
      BY <1>1, <1>5, <3>2
    <3>4. a + z + c <= blockSize
      BY <1>1, <3>2, <3>3
    <3>5. reg[a + z + c] = KeyAtByte(kl, m, v * b0 + c - 1)
      BY <3>1, <3>4 DEF Holds, a, z, b0
    <3> HIDE DEF b
    <3>6. next[b] = reg[b - b0]
      BY <1>2, <1>3, <3>3
    <3> QED BY <3>3, <3>5, <3>6 DEF b
  <2> QED BY <2>1, <2>2
<1> QED BY <1>2, <1>4, <1>5 DEF Holds, next, a, b0

LEMMA ShortKeyRegister ==
    ASSUME NEW m, IsCall(lens, keyLen), ~(keyLen > blockSize),
           \A w \in 1..Words(keyLen) : dataIn["key"][w] = KeyAtWord(keyLen, m, w - 1)
    PROVE  ShortKeyBlock = Register(keyLen, m)
<1> DEFINE n == Words(keyLen)  d == dataIn["key"]  kl == keyLen
           f == CHOOSE reg : reg = [w \in 0..n |-> IF w = 0 THEN ZeroBlock ELSE Enter(reg[w - 1], d[w])]
           T == {w \in Nat : w <= n => Holds(f[w], w, kl, m)}
<1>1. kl \in Nat /\ kl <= blockSize /\ kl % WordBytes = 0 /\ n \in Nat /\ kl = WordBytes * n
  <2>1. kl \in Nat /\ kl <= blockSize
    BY Sizes DEF IsCall
  <2>2. kl % WordBytes = 0
    BY <2>1 DEF IsCall
  <2> QED BY <2>1, <2>2, WholeWords
<1>2. KeyAt = blockSize - kl /\ KeyAt \in Nat /\ WordBytes \in Nat \ {0} /\ blockSize \in Nat
  BY <1>1, Sizes DEF KeyAt
<1>3. Entered(d, n, f)
  <2>1. \E g : Entered(d, n, g)
    BY <1>1, EnteredExist
  <2> QED BY <2>1, Zenon DEF Entered
<1>4. ShortKeyBlock = f[n]
  BY DEF ShortKeyBlock
<1> HIDE DEF f, n
<1>5. f[0] = ZeroBlock /\ \A w \in 0..n : w # 0 => f[w] = Enter(f[w - 1], d[w])
  BY <1>1, <1>3 DEF Entered
<1>6. 0 \in T
  <2>1. /\ ZeroBlock = [b \in 1..blockSize |-> ZeroBlock[b]]
        /\ \A b \in 1..blockSize : ZeroBlock[b] = Zero
    BY DEF ZeroBlock
  <2>2. 0..0 - 1 = {}
    OBVIOUS
  <2>3. Holds(f[0], 0, kl, m)
    BY <1>5, <2>1, <2>2 DEF Holds
  <2> QED BY <2>3
<1>7. ASSUME NEW w \in Nat, w \in T PROVE w + 1 \in T
  <2> SUFFICES ASSUME w + 1 <= n PROVE Holds(f[w + 1], w + 1, kl, m)
    OBVIOUS
  <2>1. w <= n /\ w + 1 \in 0..n /\ w + 1 \in 1..n /\ w + 1 # 0 /\ (w + 1) - 1 = w
    BY <1>1
  <2>2. f[w + 1] = Enter(f[w], d[w + 1])
    BY <1>5, <2>1
  <2>3. d[w + 1] = KeyAtWord(kl, m, w)
    BY <2>1 DEF n
  <2>4. Holds(f[w], w, kl, m)
    BY <1>7, <2>1
  <2>5. Holds(Enter(f[w], KeyAtWord(kl, m, w)), w + 1, kl, m)
    BY <1>2, <2>4, EnterHolds
  <2> QED BY <2>2, <2>3, <2>5
<1> HIDE DEF T
<1>8. Nat \subseteq T
  BY <1>6, <1>7, SetInduction
<1>9. Holds(f[n], n, kl, m)
  BY <1>1, <1>8 DEF T
<1> DEFINE reg == f[n]
<1>10. ASSUME NEW w \in 0..PadWords - 1, NEW c \in 1..WordBytes
       PROVE  reg[PlaceIn(w, c)] = PadByte(kl, m, w * WordBytes + c)
  <2> DEFINE p == PlaceIn(w, c)  y == w * WordBytes
  <2>1. p \in 1..blockSize
    BY PlacesIn
  <2>2. y \in Nat /\ WordBytes * w = y /\ (w + 1) * WordBytes = y + WordBytes
    BY <1>2
  <2>3. p = blockSize - (y + WordBytes) + c
    BY <2>2 DEF PlaceIn
  <2>4. PadByte(kl, m, y + c) = IF y + c <= kl THEN <<"key", m, y + c - 1>> ELSE Zero
    BY <1>1, <1>2 DEF PadByte
  <2>5. CASE w < n
    <3> DEFINE z == (n - 1 - w) * WordBytes
    <3>1. z = kl - (y + WordBytes) /\ z \in Nat
      <4>1. (n - 1 - w) * WordBytes = WordBytes * n - (WordBytes * w + WordBytes)
        BY <1>1, <1>2
      <4>2. n - 1 - w \in Nat
        BY <1>1, <2>5
      <4>3. z \in Nat
        BY <1>2, <4>2
      <4> QED BY <1>1, <2>2, <4>1, <4>3
    <3> HIDE DEF z
    <3>2. KeyAt + z + c = p
      BY <1>1, <1>2, <2>2, <2>3, <3>1
    <3>3. w \in 0..n - 1
      BY <1>1, <2>5
    <3>4. KeyAt + z + c <= blockSize
      BY <1>2, <2>1, <3>2
    <3>5. reg[KeyAt + z + c] = KeyAtByte(kl, m, w * WordBytes + c - 1)
      BY <1>9, <3>3, <3>4 DEF Holds, z
    <3>6. y + c <= kl /\ y + c - 1 < kl
      BY <1>1, <1>2, <2>2, <3>1
    <3>7. KeyAtByte(kl, m, y + c - 1) = <<"key", m, y + c - 1>>
      BY <3>6 DEF KeyAtByte
    <3> QED BY <2>4, <3>2, <3>5, <3>6, <3>7
  <2>6. CASE ~(w < n)
    <3>1. WordBytes * w >= WordBytes * n
      BY <1>1, <1>2, <2>6, SMTT(30)
    <3>2. y >= kl
      BY <1>1, <2>2, <3>1
    <3>3. p <= KeyAt /\ ~(y + c <= kl)
      BY <1>1, <1>2, <2>2, <2>3, <3>2
    <3>4. reg[p] = Zero
      BY <1>9, <2>1, <3>3 DEF Holds
    <3> QED BY <2>4, <3>3, <3>4
  <2> QED BY <2>5, <2>6
<1>11. reg = [b \in 1..blockSize |-> reg[b]]
  BY <1>9 DEF Holds
<1> HIDE DEF reg
<1>12. \A w \in 0..PadWords - 1 : \A c \in 1..WordBytes : reg[PlaceIn(w, c)] = PadByte(kl, m, w * WordBytes + c)
  BY <1>10
<1>13. IsRegister(reg, kl, m)
  BY <1>11, <1>12 DEF IsRegister
<1>14. reg = Register(kl, m)
  BY <1>13, SameRegister
<1> QED BY <1>4, <1>14 DEF reg

-----------------------------------------------------------------------------
(* The streams of a unit, message by message *)

Counted(u, ls, kl, m) ==
    /\ LengthOf(u, ls, kl, m) \in Nat
    /\ Words(LengthOf(u, ls, kl, m)) \in Nat
    /\ Start(u, ls, kl, m) \in Nat
    /\ Start(u, ls, kl, m + 1) = Start(u, ls, kl, m) + Words(LengthOf(u, ls, kl, m))

LEMMA WordsOfBytes == \A x \in Nat : Words(x) \in Nat
BY PadSizes

LEMMA CountsGrow ==
    ASSUME NEW ls, NEW kl, IsCall(ls, kl), NEW u \in Units
    PROVE  /\ Len(ls) \in Nat /\ DOMAIN ls = 1..Len(ls)
           /\ Growing(Counts(u, ls, kl), Len(ls))
           /\ \A m \in 1..Len(ls) : Counted(u, ls, kl, m)
<1>1. Len(ls) \in Nat /\ DOMAIN ls = 1..Len(ls) /\ kl \in Nat /\ \A m \in 1..Len(ls) : ls[m] \in Nat
  BY DEF IsCall
<1>2. \A m \in 1..Len(ls) : LengthOf(u, ls, kl, m) \in Nat
  BY <1>1, Sizes DEF LengthOf
<1>3. \A m \in 1..Len(ls) : /\ Counts(u, ls, kl)[m] = Words(LengthOf(u, ls, kl, m))
                            /\ Words(LengthOf(u, ls, kl, m)) \in Nat
  BY <1>1, <1>2, WordsOfBytes DEF Counts
<1>4. Growing(Counts(u, ls, kl), Len(ls))
  BY <1>1, <1>3, SumsGrow
<1>5. ASSUME NEW m \in 1..Len(ls) PROVE Counted(u, ls, kl, m)
  <2>1. m \in 1..Len(ls) + 1
    BY <1>1
  <2>2. /\ Start(u, ls, kl, m) \in Nat
        /\ Start(u, ls, kl, m + 1) = Start(u, ls, kl, m) + Counts(u, ls, kl)[m]
    BY <1>4, <2>1 DEF Growing, Start
  <2> QED BY <1>2, <1>3, <2>2 DEF Counted
<1> QED BY <1>1, <1>4, <1>5

LEMMA AtMessage ==
    ASSUME NEW ls, NEW kl, IsCall(ls, kl), NEW u \in Units, NEW k \in 0..Len(ls)
    PROVE  /\ Len(ls) \in Nat /\ Start(u, ls, kl, k + 1) \in Nat
           /\ k < Len(ls) => k + 1 \in 1..Len(ls) /\ Counted(u, ls, kl, k + 1)
<1>1. Growing(Counts(u, ls, kl), Len(ls)) /\ Len(ls) \in Nat
  BY CountsGrow
<1>2. k + 1 \in 1..Len(ls) + 1
  BY <1>1
<1>3. Start(u, ls, kl, k + 1) \in Nat
  BY <1>1, <1>2 DEF Growing, Start
<1>4. ASSUME k < Len(ls) PROVE k + 1 \in 1..Len(ls) /\ Counted(u, ls, kl, k + 1)
  <2>1. k + 1 \in 1..Len(ls)
    BY <1>1, <1>4
  <2> QED BY <2>1, CountsGrow
<1> QED BY <1>1, <1>3, <1>4

\* Word j of message m comes behind the words of the messages before it.
LEMMA DataIs ==
    ASSUME NEW ls, NEW kl, IsCall(ls, kl), NEW u \in Units, NEW m \in 1..Len(ls),
           NEW j \in 1..Words(LengthOf(u, ls, kl, m))
    PROVE  /\ Data(u, ls, kl)[Start(u, ls, kl, m) + j] = WordOf(u, ls, kl, m, j)
           /\ Start(u, ls, kl, m) + j \in Nat
<1> DEFINE C == Words(LengthOf(u, ls, kl, m))  y == Start(u, ls, kl, m)  k == y + j
<1>1. Growing(Counts(u, ls, kl), Len(ls)) /\ Len(ls) \in Nat /\ Counted(u, ls, kl, m)
  BY CountsGrow
<1>2. C \in Nat /\ j \in 1..C /\ y \in Nat /\ Start(u, ls, kl, m + 1) = y + C
  BY <1>1 DEF Counted
<1> HIDE DEF C
<1>3. Before(Counts(u, ls, kl), m) = y /\ Before(Counts(u, ls, kl), m + 1) = y + C
  BY <1>2 DEF Start
<1>4. PlaceOf(Counts(u, ls, kl), Len(ls), k - 1) = m
  <2> DEFINE p == k - 1
  <2> HIDE DEF y
  <2>1. p \in Nat /\ y <= p /\ p < y + C
    BY <1>2
  <2> HIDE DEF p
  <2> QED BY <1>1, <1>3, <2>1, PlaceFound DEF p
<1>5. k \in Nat /\ k - y = j
  <2> HIDE DEF y
  <2> QED BY <1>2
<1>6. Data(u, ls, kl)[k] = DataAt(u, ls, kl, k, PlaceOf(Counts(u, ls, kl), Len(ls), k - 1))
  <2> HIDE DEF k
  <2> QED BY <1>5 DEF Data
<1>7. Data(u, ls, kl)[k] = WordOf(u, ls, kl, m, j)
  BY <1>4, <1>5, <1>6 DEF DataAt
<1> QED BY <1>5, <1>7

\* The words a unit has gathered of a message make its digest.
LEMMA DigestIs ==
    ASSUME NEW ls, NEW kl, IsCall(ls, kl), NEW u \in Units, NEW m \in 1..Len(ls), NEW acc,
           NEW r, r = Start(u, ls, kl, m), NEW w, w = r + Words(LengthOf(u, ls, kl, m)),
           Window(acc, Data(u, ls, kl), r, w)
    PROVE  Digest(LengthOf(u, ls, kl, m), acc) = DigestOf(u, ls, kl, m)
<1> DEFINE n == LengthOf(u, ls, kl, m)  C == Words(n)
<1>1. C \in Nat /\ r \in Nat
  BY CountsGrow DEF Counted
<1>2. \A j \in 1..C : Data(u, ls, kl)[r + j] = WordOf(u, ls, kl, m, j)
  BY DataIs
<1> HIDE DEF C
<1>3. acc = [j \in 1..C |-> Data(u, ls, kl)[r + j]]
  <2>1. w - r = C
    BY <1>1 DEF C
  <2> QED BY <2>1 DEF Window
<1>4. acc = [j \in 1..C |-> WordOf(u, ls, kl, m, j)]
  BY <1>2, <1>3
<1> QED BY <1>4 DEF DigestOf, C

LEMMA NotEnd ==
    ASSUME NEW ls, NEW kl, IsCall(ls, kl), NEW u \in Units, NEW m \in 1..Len(ls)
    PROVE  DigestOf(u, ls, kl, m) # END
<1>1. LengthOf(u, ls, kl, m) \in Nat
  BY CountsGrow DEF Counted
<1>2. DigestOf(u, ls, kl, m).bytes = LengthOf(u, ls, kl, m) /\ END.bytes = -1
  BY DEF DigestOf, Digest, END
<1> QED BY <1>1, <1>2

\* The caller's words, message by message.
LEMMA MsgCountsGrow ==
    ASSUME NEW ls, NEW kl, IsCall(ls, kl)
    PROVE  /\ Len(ls) \in Nat /\ DOMAIN ls = 1..Len(ls) /\ Growing(MsgCounts(ls), Len(ls))
           /\ \A m \in 1..Len(ls) : /\ Words(ls[m]) \in Nat /\ MsgCounts(ls)[m] = Words(ls[m]) /\ MsgStart(ls, m) \in Nat
                                    /\ MsgStart(ls, m + 1) = MsgStart(ls, m) + Words(ls[m])
<1>1. Len(ls) \in Nat /\ DOMAIN ls = 1..Len(ls) /\ \A m \in 1..Len(ls) : ls[m] \in Nat
  BY DEF IsCall
<1>2. \A m \in 1..Len(ls) : MsgCounts(ls)[m] = Words(ls[m]) /\ Words(ls[m]) \in Nat
  BY <1>1, WordsOfBytes DEF MsgCounts
<1>3. Growing(MsgCounts(ls), Len(ls))
  BY <1>1, <1>2, SumsGrow
<1>4. \A m \in 1..Len(ls) : MsgStart(ls, m) \in Nat /\ MsgStart(ls, m + 1) = MsgStart(ls, m) + MsgCounts(ls)[m]
  <2>1. \A m \in 1..Len(ls) : m \in 1..Len(ls) + 1
    BY <1>1
  <2> QED BY <1>3, <2>1 DEF Growing, MsgStart
<1> QED BY <1>1, <1>2, <1>3, <1>4

MsgAt(ls, k, m) == MsgWord(m, k - MsgStart(ls, m) - 1)
MsgItems(ls) == [k \in Nat |-> MsgAt(ls, k, PlaceOf(MsgCounts(ls), Len(ls), k - 1))]

LEMMA MsgItemsAre ==
    ASSUME NEW ls, NEW kl, IsCall(ls, kl), NEW m \in 1..Len(ls), NEW j \in 1..Words(ls[m])
    PROVE  /\ MsgItems(ls)[MsgStart(ls, m) + j] = MsgWord(m, j - 1)
           /\ MsgStart(ls, m) + j \in Nat
<1> DEFINE C == Words(ls[m])  y == MsgStart(ls, m)  k == y + j
<1>1. Growing(MsgCounts(ls), Len(ls)) /\ Len(ls) \in Nat
  BY MsgCountsGrow
<1>2. C \in Nat /\ j \in 1..C /\ y \in Nat /\ MsgStart(ls, m + 1) = y + C
  BY MsgCountsGrow
<1> HIDE DEF C
<1>3. Before(MsgCounts(ls), m) = y /\ Before(MsgCounts(ls), m + 1) = y + C
  BY <1>2 DEF MsgStart
<1>4. PlaceOf(MsgCounts(ls), Len(ls), k - 1) = m
  <2> DEFINE p == k - 1
  <2> HIDE DEF y
  <2>1. p \in Nat /\ y <= p /\ p < y + C
    BY <1>2
  <2> HIDE DEF p
  <2> QED BY <1>1, <1>3, <2>1, PlaceFound DEF p
<1>5. k \in Nat /\ k - y - 1 = j - 1
  <2> HIDE DEF y
  <2> QED BY <1>2
<1>6. MsgItems(ls)[k] = MsgAt(ls, k, PlaceOf(MsgCounts(ls), Len(ls), k - 1))
  <2> HIDE DEF k
  <2> QED BY <1>5 DEF MsgItems
<1>7. MsgItems(ls)[k] = MsgWord(m, j - 1)
  BY <1>4, <1>5, <1>6 DEF MsgAt
<1> QED BY <1>5, <1>7

\* Word j of message m, as mergeKipad reads it.
LEMMA MsgStreamIs ==
    ASSUME IsCall(lens, keyLen), NEW m \in 1..Len(lens), NEW j \in 1..Words(lens[m])
    PROVE  MsgStream[MsgStart(lens, m) + j] = MsgWord(m, j - 1)
<1> DEFINE n == Len(lens)  c == MsgCounts(lens)  S == MsgItems(lens)
           s == [i \in 1..n |-> [w \in 1..Words(lens[i]) |-> MsgWord(i, w - 1)]]
<1>1. n \in Nat /\ DOMAIN lens = 1..n /\ Growing(c, n)
  BY MsgCountsGrow
<1>2. ASSUME NEW i \in 1..n PROVE IsPiece(s[i], S, Before(c, i), c[i])
  <2>1. c[i] = Words(lens[i]) /\ Before(c, i) = MsgStart(lens, i)
    BY MsgCountsGrow DEF MsgStart
  <2>2. \A w \in 1..Words(lens[i]) : S[MsgStart(lens, i) + w] = MsgWord(i, w - 1)
    BY MsgItemsAre
  <2>3. s[i] = [w \in 1..Words(lens[i]) |-> S[MsgStart(lens, i) + w]]
    <3> HIDE DEF S
    <3>1. s[i] = [w \in 1..Words(lens[i]) |-> MsgWord(i, w - 1)]
      OBVIOUS
    <3> HIDE DEF s
    <3> QED BY <2>2, <3>1
  <2> QED BY <2>1, <2>3 DEF IsPiece
<1>3. MsgStream = FlattenSeq(s)
  BY <1>1 DEF MsgStream
<1>4. s = [i \in 1..n |-> s[i]]
  OBVIOUS
<1> HIDE DEF s, S, c, n
<1>5. \A i \in 1..n : IsPiece(s[i], S, Before(c, i), c[i])
  BY <1>2
<1>6. Window(MsgStream, S, 0, Before(c, n + 1))
  BY <1>1, <1>3, <1>4, <1>5, FlatteningIs
<1> DEFINE k == MsgStart(lens, m) + j  W == Before(c, n + 1)
<1>7. k \in 1..W
  <2>1. MsgStart(lens, m) \in Nat /\ MsgStart(lens, m + 1) = MsgStart(lens, m) + Words(lens[m]) /\ Words(lens[m]) \in Nat
    BY MsgCountsGrow
  <2>2. MsgStart(lens, m + 1) <= W /\ W \in Nat
    <3>1. m \in 1..n /\ n + 1 \in 1..n + 1 /\ m + 1 \in 1..n + 1
      BY <1>1 DEF n
    <3> QED BY <1>1, <3>1 DEF Growing, MsgStart, c
  <2> HIDE DEF W
  <2> QED BY <2>1, <2>2
<1>8. S[k] = MsgWord(m, j - 1)
  BY MsgItemsAre DEF S
<1> HIDE DEF k, W
<1>9. MsgStream[k] = S[0 + k]
  <2>1. \A i \in 1..W - 0 : MsgStream[i] = S[0 + i]
    BY <1>6, WindowLength DEF W
  <2>2. W - 0 = W
    BY <1>6, WindowLength DEF W
  <2> QED BY <1>7, <2>1, <2>2
<1> QED BY <1>7, <1>8, <1>9 DEF k

\* The words of the keys, as kpad or the hash reads them.
LEMMA KeyStreamIs ==
    ASSUME IsCall(lens, keyLen)
    PROVE  Window(KeyStream, Data("key", lens, keyLen), 0, Start("key", lens, keyLen, Len(lens) + 1))
<1> DEFINE n == Len(lens)  c == Counts("key", lens, keyLen)  S == Data("key", lens, keyLen)
           s == [i \in 1..n |-> [w \in 1..Words(keyLen) |-> KeyWord(i, w - 1)]]
<1>0. "key" \in Units
  BY DEF Units
<1>1. n \in Nat /\ DOMAIN lens = 1..n /\ Growing(c, n)
  BY <1>0, CountsGrow
<1>2. ASSUME NEW i \in 1..n PROVE IsPiece(s[i], S, Before(c, i), c[i])
  <2>1. LengthOf("key", lens, keyLen, i) = keyLen
    BY DEF LengthOf
  <2>2. c[i] = Words(keyLen) /\ Before(c, i) = Start("key", lens, keyLen, i)
    BY <1>1, <2>1 DEF Counts, Start
  <2>3. \A w \in 1..Words(keyLen) : S[Start("key", lens, keyLen, i) + w] = WordOf("key", lens, keyLen, i, w)
    BY <1>0, <2>1, DataIs
  <2>4. \A w : WordOf("key", lens, keyLen, i, w) = KeyWord(i, w - 1)
    BY DEF WordOf, KeyAtWord, KeyWord, KeyAtByte, KeyByte
  <2>5. s[i] = [w \in 1..Words(keyLen) |-> S[Start("key", lens, keyLen, i) + w]]
    <3> HIDE DEF S
    <3>1. s[i] = [w \in 1..Words(keyLen) |-> KeyWord(i, w - 1)]
      OBVIOUS
    <3> HIDE DEF s
    <3> QED BY <2>3, <2>4, <3>1
  <2> QED BY <2>2, <2>5 DEF IsPiece
<1>3. KeyStream = FlattenSeq(s)
  BY <1>1 DEF KeyStream
<1>4. s = [i \in 1..n |-> s[i]]
  OBVIOUS
<1> HIDE DEF s, S, c, n
<1>5. \A i \in 1..n : IsPiece(s[i], S, Before(c, i), c[i])
  BY <1>2
<1>6. Window(KeyStream, S, 0, Before(c, n + 1))
  BY <1>1, <1>3, <1>4, <1>5, FlatteningIs
<1> QED BY <1>6 DEF S, c, n, Start
-----------------------------------------------------------------------------
(* The words of a pad and a message are those of RFC 2104 *)

LEMMA Together ==
    ASSUME NEW a, NEW b, NEW n \in Nat, NEW k \in Nat, a = [j \in 1..n |-> a[j]], b = [j \in 1..k |-> b[j]]
    PROVE  a \o b = [j \in 1..n + k |-> IF j <= n THEN a[j] ELSE b[j - n]]
<1> DEFINE V == {a[j] : j \in 1..n} \cup {b[j] : j \in 1..k}
<1>1. (\A j \in 1..n : a[j] \in V) /\ (\A j \in 1..k : b[j] \in V)
  OBVIOUS
<1> HIDE DEF V
<1>2. a \in [1..n -> V] /\ b \in [1..k -> V]
  BY <1>1
<1>3. a \in Seq(V) /\ Len(a) = n /\ b \in Seq(V) /\ Len(b) = k
  BY <1>2
<1>4. Joined(V, a \o b, a, b, n, k)
  BY <1>3, Concat
<1> DEFINE c == a \o b
<1> HIDE DEF c
<1>5. c \in Seq(V) /\ Len(c) = n + k /\ \A j \in 1..n + k : c[j] = IF j <= n THEN a[j] ELSE b[j - n]
  BY <1>4 DEF Joined, c
<1>6. c = [j \in 1..n + k |-> c[j]]
  BY <1>5
<1>7. c = [j \in 1..n + k |-> IF j <= n THEN a[j] ELSE b[j - n]]
  BY <1>5, <1>6
<1> QED BY <1>7 DEF c

LEMMA KeyDigestIs ==
    ASSUME NEW m
    PROVE  Digest(keyLen, [w \in 1..Words(keyLen) |-> KeyWord(m, w - 1)]) = KeyDigest(keyLen, m)
BY DEF KeyDigest, KeyAtWord, KeyWord, KeyAtByte, KeyByte

LEMMA PadByteIs ==
    ASSUME NEW m, NEW k \in Nat \ {0}, keyLen \in Nat
    PROVE  (IF k <= Len(Key(m)) THEN Key(m)[k] ELSE Zero) = PadByte(keyLen, m, k)
<1>1. blockSize \in Nat /\ HashBytes \in Nat
  BY Sizes
<1>2. CASE LongKey
  <2> DEFINE h == KeyDigest(keyLen, m)  key == [b \in 1..HashBytes |-> HashByte(h, b - 1)]
  <2>1. Key(m) = key
    BY <1>2, KeyDigestIs DEF Key
  <2>2. Len(key) = HashBytes
    BY <1>1
  <2>3. PadByte(keyLen, m, k) = IF k <= HashBytes THEN HashByte(h, k - 1) ELSE Zero
    BY <1>2 DEF PadByte, LongKey
  <2> HIDE DEF h
  <2> QED BY <1>1, <2>1, <2>2, <2>3
<1>3. CASE ~LongKey
  <2> DEFINE key == [b \in 1..keyLen |-> <<"key", m, b - 1>>]
  <2>1. Key(m) = key
    BY <1>3 DEF Key
  <2>2. Len(key) = keyLen
    OBVIOUS
  <2>3. PadByte(keyLen, m, k) = IF k <= keyLen THEN <<"key", m, k - 1>> ELSE Zero
    BY <1>3 DEF PadByte, LongKey
  <2> QED BY <2>1, <2>2, <2>3
<1> QED BY <1>2, <1>3

LEMMA PadIs ==
    ASSUME NEW m, NEW mask, keyLen \in Nat
    PROVE  Pad(m, mask) = [j \in 1..PadWords |-> PadWord(keyLen, m, mask, j)]
<1> DEFINE At(k) == IF k <= Len(Key(m)) THEN Key(m)[k] ELSE Zero
<1>1. Pad(m, mask) = [j \in 1..PadWords |-> [c \in 1..WordBytes |-> <<mask, At((j - 1) * WordBytes + c)>>]]
  BY DEF Pad, PadWords
<1>2. ASSUME NEW j \in 1..PadWords, NEW c \in 1..WordBytes
      PROVE  At((j - 1) * WordBytes + c) = PadByte(keyLen, m, (j - 1) * WordBytes + c)
  <2> DEFINE k == (j - 1) * WordBytes + c
  <2>1. k \in Nat \ {0}
    <3>1. j - 1 \in Nat /\ WordBytes \in Nat
      BY Sizes
    <3>2. (j - 1) * WordBytes \in Nat
      BY <3>1
    <3> QED BY <3>2
  <2> HIDE DEF k
  <2>2. At(k) = PadByte(keyLen, m, k)
    BY <2>1, PadByteIs
  <2> QED BY <2>2 DEF k
<1> HIDE DEF At
<1>3. ASSUME NEW j \in 1..PadWords
      PROVE  [c \in 1..WordBytes |-> <<mask, At((j - 1) * WordBytes + c)>>] = PadWord(keyLen, m, mask, j)
  BY <1>2 DEF PadWord
<1> QED BY <1>1, <1>3

LEMMA InnerIs ==
    ASSUME IsCall(lens, keyLen), NEW m \in 1..Len(lens)
    PROVE  Inner(m) = InnerDigest(lens, keyLen, m)
<1> DEFINE n == lens[m]  k == Words(n)  a == Pad(m, "36")  b == [w \in 1..k |-> MsgWord(m, w - 1)]
<1>1. n \in Nat /\ k \in Nat /\ keyLen \in Nat /\ PadWords \in Nat /\ blockSize \in Nat
  <2>1. lens[m] \in Nat /\ keyLen \in Nat
    BY DEF IsCall
  <2> HIDE DEF n
  <2>2. n \in Nat
    BY <2>1 DEF n
  <2> QED BY <2>1, <2>2, PadSizes, Sizes
<1>2. Words(n + blockSize) = k + PadWords /\ n + blockSize = blockSize + n
  <2> HIDE DEF n
  <2> QED BY <1>1, PadSizes
<1>3. LengthOf("msg", lens, keyLen, m) = n + blockSize
  BY DEF LengthOf
<1>4. a = [j \in 1..PadWords |-> PadWord(keyLen, m, "36", j)]
  BY <1>1, PadIs
<1>5. Inner(m) = Digest(blockSize + n, a \o b)
  BY DEF Inner
<1>6. b = [w \in 1..k |-> MsgWord(m, w - 1)]
  OBVIOUS
<1>7. InnerDigest(lens, keyLen, m) = Digest(n + blockSize, [j \in 1..Words(n + blockSize) |-> InnerWord(keyLen, m, j)])
  BY <1>3 DEF InnerDigest
<1> HIDE DEF a, b, k, n
<1>8. a = [j \in 1..PadWords |-> a[j]] /\ b = [j \in 1..k |-> b[j]]
  BY <1>4, <1>6
<1>9. a \o b = [j \in 1..PadWords + k |-> IF j <= PadWords THEN a[j] ELSE b[j - PadWords]]
  BY <1>1, <1>8, Together
<1>10. ASSUME NEW j \in 1..PadWords + k
       PROVE  (IF j <= PadWords THEN a[j] ELSE b[j - PadWords]) = InnerWord(keyLen, m, j)
  <2>1. CASE j <= PadWords
    BY <1>4, <2>1 DEF InnerWord
  <2>2. CASE ~(j <= PadWords)
    <3>1. j - PadWords \in 1..k
      BY <1>1, <2>2
    <3> QED BY <1>6, <2>2, <3>1 DEF InnerWord
  <2> QED BY <2>1, <2>2
<1>11. a \o b = [j \in 1..PadWords + k |-> InnerWord(keyLen, m, j)]
  BY <1>9, <1>10
<1>12. PadWords + k = Words(n + blockSize)
  BY <1>1, <1>2
<1> QED BY <1>2, <1>5, <1>7, <1>11, <1>12

LEMMA TagIs ==
    ASSUME IsCall(lens, keyLen), NEW m \in 1..Len(lens)
    PROVE  Tag(m) = DigestOf("res", lens, keyLen, m)
<1> DEFINE n == HashBytes  k == Words(n)  a == Pad(m, "5c")  b == [w \in 1..k |-> HashWord(Inner(m), w - 1)]
           D == DigestOf("res", lens, keyLen, m)
<1>1. k \in Nat /\ keyLen \in Nat /\ PadWords \in Nat
  BY PadSizes DEF IsCall
<1>2. Words(blockSize + n) = PadWords + k
  BY PadSizes
<1>3. LengthOf("res", lens, keyLen, m) = blockSize + n
  BY DEF LengthOf
<1>4. a = [j \in 1..PadWords |-> PadWord(keyLen, m, "5c", j)]
  BY <1>1, PadIs
<1>5. Tag(m) = Digest(blockSize + n, a \o b)
  BY DEF Tag
<1>6. b = [w \in 1..k |-> HashWord(InnerDigest(lens, keyLen, m), w - 1)]
  BY InnerIs
<1>7. D = Digest(blockSize + n, [j \in 1..Words(blockSize + n) |-> OuterWord(lens, keyLen, m, j)])
  BY <1>3 DEF DigestOf, WordOf
<1> HIDE DEF a, b, k, n, D
<1>8. a = [j \in 1..PadWords |-> a[j]] /\ b = [j \in 1..k |-> b[j]]
  BY <1>4, <1>6
<1>9. a \o b = [j \in 1..PadWords + k |-> IF j <= PadWords THEN a[j] ELSE b[j - PadWords]]
  BY <1>1, <1>8, Together
<1>10. ASSUME NEW j \in 1..PadWords + k
       PROVE  (IF j <= PadWords THEN a[j] ELSE b[j - PadWords]) = OuterWord(lens, keyLen, m, j)
  <2>1. CASE j <= PadWords
    BY <1>4, <2>1 DEF OuterWord
  <2>2. CASE ~(j <= PadWords)
    <3>1. j - PadWords \in 1..k
      BY <1>1, <2>2
    <3> QED BY <1>6, <2>2, <3>1 DEF OuterWord
  <2> QED BY <2>1, <2>2
<1>11. a \o b = [j \in 1..PadWords + k |-> OuterWord(lens, keyLen, m, j)]
  BY <1>9, <1>10
<1> QED BY <1>2, <1>5, <1>7, <1>11 DEF D
-----------------------------------------------------------------------------
(* The inductive invariant *)

\* The hash of the keys has nothing to do when they fit into a block.
Unhashed == keyLen > blockSize \/ (xpc = "done" /\ fpc["key"] = "done" /\ opc["key"] = "done")
Kept == IsCall(lens, keyLen) /\ Formed /\ Unhashed
Flow(r, tk, ok, tm, om, tr, os) ==
    PadFlow(r) /\ KeyFlow(tk, ok) /\ MsgFlow(tm, om, r) /\ ResFlow(tr, os, r)
FlowInv == Kept /\ \E r, tk, ok, tm, om, tr, os : Flow(r, tk, ok, tm, om, tr, os)

\* A short key ends with a word.
KeysFillWords == \A k \in KeyLens : k <= blockSize => k % WordBytes = 0

LEMMA UnitsAre == "key" \in Units /\ "msg" \in Units /\ "res" \in Units
BY DEF Units

LEMMA InitKept == ASSUME Init, KeysFillWords PROVE Kept
<1>1. lens \in Seq(Nat)
  <2>1. MsgLens \subseteq Nat /\ MaxMessages \in Nat
    BY HmacAssumption
  <2>2. PICK n \in 0..MaxMessages : lens \in [1..n -> MsgLens]
    BY DEF Init, BoundedSeq, SeqOf
  <2>3. n \in Nat
    BY <2>1
  <2>4. lens = [j \in 1..n |-> lens[j]] /\ \A j \in 1..n : lens[j] \in Nat
    BY <2>1, <2>2
  <2> QED BY <2>3, <2>4
<1>2. keyLen \in Nat /\ (keyLen <= blockSize => keyLen % WordBytes = 0)
  BY HmacAssumption DEF Init, KeysFillWords
<1>3. Formed
  BY DEF Init, Formed, OnUnits
<1>4. Unhashed
  BY UnitsAre DEF Init, Unhashed, LongKey
<1> QED BY <1>1, <1>2, <1>3, <1>4 DEF Kept, IsCall

LEMMA UnitStarts ==
    ASSUME NEW u \in Units, NEW ls, NEW kl, IsCall(ls, kl),
           (fpc[u] = "e" /\ opc[u] = "hash") \/ (fpc[u] = "done" /\ opc[u] = "done" /\ ls = <<>>),
           flight[u] = <<>>, eIn[u] = <<>>, lenIn[u] = <<>>, hashOut[u] = <<>>, eOut[u] = <<>>,
           NEW n \in Nat, n = IF fpc[u] = "done" THEN 1 ELSE 0
    PROVE  UnitFlow(u, ls, kl, 0, 0, n, 0, 0, n)
<1>1. Len(ls) \in Nat /\ (ls = <<>> => Len(ls) = 0)
  BY CountsGrow
<1>2. TFlags(0, fpc[u]) = n /\ TLens(0, fpc[u]) = 0 /\ TDigests(0, fpc[u]) = n
  BY DEF TFlags, TLens, TDigests
<1>3. ODigests(0, opc[u]) = n /\ OFlags(0, opc[u]) = n
  BY DEF ODigests, OFlags
<1>4. TAt(u, ls, kl, 0, fpc[u], flen[u], facc[u])
  BY <1>1 DEF TAt
<1>5. OAt(ls, 0, opc[u])
  BY <1>1 DEF OAt
<1>6. \A S : Window(<<>>, S, 0, 0) /\ Window(<<>>, S, n, n)
  BY WindowEmpty
<1> QED BY <1>2, <1>3, <1>4, <1>5, <1>6 DEF UnitFlow

LEMMA StartIs ==
    ASSUME NEW ls, NEW kl, NEW u
    PROVE  Start(u, ls, kl, 0 + 1) = 0 /\ MsgStart(ls, 0 + 1) = 0
BY BeforeNext DEF Start, MsgStart

LEMMA FlowStarts == ASSUME Init, Kept PROVE Flow(0, 0, 0, 0, 0, 0, 0)
<1>1. IsCall(lens, keyLen) /\ IsCall(<<>>, keyLen) /\ Len(lens) \in Nat /\ Len(<<>>) = 0
  BY DEF Kept, IsCall
<1>2. /\ xpc = (IF LongKey THEN "e" ELSE "done") /\ expanded = 0 /\ kpc = "e" /\ padded = 0
      /\ mpc = "e" /\ merged = 0 /\ mi = 0 /\ msgRead = 0 /\ rpc = "e" /\ ri = 0
      /\ kipadStrm = <<>> /\ kopadStrm = <<>> /\ eKipadStrm = <<>> /\ kopad2Strm = <<>>
  BY DEF Init
<1>3. /\ fpc["key"] = IF LongKey THEN "e" ELSE "done"
      /\ opc["key"] = IF LongKey THEN "hash" ELSE "done"
      /\ fpc["msg"] = "e" /\ opc["msg"] = "hash" /\ fpc["res"] = "e" /\ opc["res"] = "hash"
  BY UnitsAre DEF Init
<1>4. ASSUME NEW u \in Units
      PROVE  /\ flight[u] = <<>> /\ eIn[u] = <<>> /\ lenIn[u] = <<>> /\ hashOut[u] = <<>> /\ eOut[u] = <<>>
             /\ dataIn[u] = IF u = "key" THEN KeyStream ELSE <<>>
  BY DEF Init
<1>5. \A S : Window(<<>>, S, 0, 0)
  BY WindowEmpty
<1>6. \A u : Start(u, lens, keyLen, 0 + 1) = 0 /\ MsgStart(lens, 0 + 1) = 0
  BY StartIs
<1>7. PadFlow(0)
  <2>1. XAt(Hashed("key", lens, keyLen), expanded, xpc)
    BY <1>1, <1>2 DEF XAt, Hashed, LongKey
  <2>2. KAt(lens, keyLen, padded, kpc, k1)
    BY <1>1, <1>2 DEF KAt
  <2>3. MAt(lens, keyLen, merged, mpc, mi, kipad, mkopad, msgRead)
    BY <1>1, <1>2, <1>6 DEF MAt, MRead
  <2>4. RAt(lens, keyLen, 0, rpc, ri, kopad, msgHash)
    BY <1>1, <1>2 DEF RAt
  <2>5. /\ MKipads(merged, mpc) = 0 /\ KKipads(padded, kpc) = 0 /\ MKopads(merged, mpc) = 0
        /\ KKopads(padded, kpc) = 0 /\ MPadFlags(merged, mpc) = 0 /\ KPadFlags(padded, kpc) = 0
        /\ RKopads(0, rpc) = 0 /\ MKopad2s(merged, mpc) = 0
    BY <1>2 DEF MKipads, KKipads, MKopads, KKopads, MPadFlags, KPadFlags, RKopads, MKopad2s
  <2> QED BY <1>2, <1>5, <2>1, <2>2, <2>3, <2>4, <2>5 DEF PadFlow
<1>8. KeyFlow(0, 0)
  <2> DEFINE n == IF fpc["key"] = "done" THEN 1 ELSE 0  ls == Hashed("key", lens, keyLen)
  <2>1. UnitFlow("key", ls, keyLen, 0, 0, n, 0, 0, n)
    <3>1. /\ IsCall(ls, keyLen)
          /\ (fpc["key"] = "e" /\ opc["key"] = "hash") \/ (fpc["key"] = "done" /\ opc["key"] = "done" /\ ls = <<>>)
      BY <1>1, <1>3 DEF Hashed, LongKey
    <3>2. n \in Nat
      OBVIOUS
    <3> HIDE DEF ls
    <3> QED BY <1>4, <3>1, <3>2, UnitsAre, UnitStarts
  <2>2. /\ XFlags(expanded, xpc) = n /\ XLens(expanded, xpc) = 0 /\ KHashes(keyLen, padded) = 0
        /\ KFlags(keyLen, padded, kpc) = n
    BY <1>2, <1>3 DEF XFlags, XLens, KHashes, KFlags, LongKey
  <2>3. KData(lens, keyLen, padded, 0, fpc["key"], facc["key"]) = 0
    BY <1>2, <1>3, <1>6 DEF KData, TData, LongKey
  <2>4. Window(dataIn["key"], Data("key", lens, keyLen), 0, Start("key", lens, keyLen, Len(lens) + 1))
    BY <1>1, <1>4, UnitsAre, KeyStreamIs
  <2> HIDE DEF n, ls
  <2> QED BY <2>1, <2>2, <2>3, <2>4 DEF KeyFlow, ls
<1>9. MsgFlow(0, 0, 0)
  <2>1. UnitFlow("msg", lens, keyLen, 0, 0, 0, 0, 0, 0)
    BY <1>1, <1>3, <1>4, UnitsAre, UnitStarts
  <2>2. MFlags(merged, mpc) = 0 /\ RHashes(0, rpc) = 0 /\ RFlags(0, rpc) = 0
    BY <1>2 DEF MFlags, RHashes, RFlags
  <2>3. TData("msg", lens, keyLen, 0, fpc["msg"], facc["msg"]) = 0 /\ MData(lens, keyLen, merged, mpc, mi) = 0
    BY <1>2, <1>3, <1>6 DEF TData, MData
  <2>4. dataIn["msg"] = <<>>
    BY <1>4, UnitsAre
  <2> QED BY <1>2, <1>5, <2>1, <2>2, <2>3, <2>4 DEF MsgFlow
<1>10. ResFlow(0, 0, 0)
  <2>1. UnitFlow("res", lens, keyLen, 0, 0, 0, 0, 0, 0)
    BY <1>1, <1>3, <1>4, UnitsAre, UnitStarts
  <2>2. RFlagsOut(0, rpc) = 0 /\ RLens(0, rpc) = 0
    BY <1>2 DEF RFlagsOut, RLens
  <2>3. TData("res", lens, keyLen, 0, fpc["res"], facc["res"]) = 0 /\ RData(lens, keyLen, 0, rpc, ri) = 0
    BY <1>2, <1>3, <1>6 DEF TData, RData
  <2>4. dataIn["res"] = <<>>
    BY <1>4, UnitsAre
  <2> QED BY <1>5, <2>1, <2>2, <2>3, <2>4 DEF ResFlow
<1> QED BY <1>7, <1>8, <1>9, <1>10 DEF Flow

\* An item of a family of streams changes, the others stay.
Changed(f, g, u, x) == OnUnits(g) /\ g[u] = x /\ \A v \in Units : v # u => g[v] = f[v]

LEMMA ExceptIs ==
    ASSUME NEW f, OnUnits(f), NEW u \in Units, NEW x
    PROVE  Changed(f, [f EXCEPT ![u] = x], u, x)
BY DEF OnUnits, Changed

Same(u) == UNCHANGED <<fpc[u], flen[u], facc[u], flight[u], opc[u], eIn[u], lenIn[u], dataIn[u],
                       hashOut[u], eOut[u]>>

LEMMA KeyStays ==
    ASSUME NEW t, NEW o, KeyFlow(t, o), Same("key"),
           UNCHANGED <<lens, keyLen, padded, XFlags(expanded, xpc), XLens(expanded, xpc),
                       KFlags(keyLen, padded, kpc)>>
    PROVE  KeyFlow(t, o)'
BY DEF KeyFlow, UnitFlow, Same

LEMMA MsgStays ==
    ASSUME NEW t, NEW o, NEW r, NEW r1, MsgFlow(t, o, r), Same("msg"),
           UNCHANGED <<lens, keyLen, merged, MFlags(merged, mpc), MData(lens, keyLen, merged, mpc, mi)>>,
           RHashes(r1, rpc') = RHashes(r, rpc), RFlags(r1, rpc') = RFlags(r, rpc)
    PROVE  MsgFlow(t, o, r1)'
BY DEF MsgFlow, UnitFlow, Same

LEMMA ResStays ==
    ASSUME NEW t, NEW o, NEW r, NEW r1, ResFlow(t, o, r), Same("res"),
           UNCHANGED <<lens, keyLen>>, RFlagsOut(r1, rpc') = RFlagsOut(r, rpc),
           RLens(r1, rpc') = RLens(r, rpc),
           RData(lens, keyLen, r1, rpc', ri') = RData(lens, keyLen, r, rpc, ri)
    PROVE  ResFlow(t, o, r1)'
BY DEF ResFlow, UnitFlow, Same

\* Flag k is set behind the last message.
LEMMA FlagIs == ASSUME NEW ls, Len(ls) \in Nat, NEW k \in Nat PROVE Flags(ls)[k + 1] = (k = Len(ls))
<1>1. Flags(ls)[k + 1] = (k + 1 = Len(ls) + 1)
  BY DEF Flags
<1>2. (k + 1 = Len(ls) + 1) = (k = Len(ls))
  OBVIOUS
<1> QED BY <1>1, <1>2
-----------------------------------------------------------------------------
(* expandStrm *)

LEMMA ExpandFlagFlow ==
    ASSUME Kept, NEW r, NEW tk, NEW ok, NEW tm, NEW om, NEW tr, NEW os, Flow(r, tk, ok, tm, om, tr, os),
           ExpandFlag
    PROVE  Kept' /\ Flow(r, tk, ok, tm, om, tr, os)'
<1>1. /\ xpc = "e" /\ eIn' = [eIn EXCEPT !["key"] = Append(@, expanded = Len(lens))]
      /\ IF expanded = Len(lens) THEN xpc' = "done" /\ expanded' = expanded ELSE xpc' = "len" /\ expanded' = expanded + 1
  BY DEF ExpandFlag, PutAt
<1>2. UNCHANGED <<keyLen, lens, kpadVars, mergeKipadVars, mergeKopadVars, takeVars,
                  flight, opc, lenIn, dataIn, fOut, padStrms, kopad2Strm>>
  BY DEF ExpandFlag
<1>3. keyLen > blockSize /\ Hashed("key", lens, keyLen) = lens /\ IsCall(lens, keyLen) /\ Formed
  BY <1>1 DEF Kept, Unhashed, Hashed
<1>4. expanded \in 0..Len(lens) /\ Len(lens) \in Nat
  BY <1>3 DEF Flow, PadFlow, XAt, IsCall
<1>5. /\ OnUnits(eIn') /\ eIn'["key"] = Append(eIn["key"], expanded = Len(lens))
      /\ eIn'["msg"] = eIn["msg"] /\ eIn'["res"] = eIn["res"]
  <2>1. OnUnits(eIn)
    BY <1>3 DEF Formed
  <2>2. Changed(eIn, eIn', "key", Append(eIn["key"], expanded = Len(lens)))
    BY <1>1, <2>1, UnitsAre, ExceptIs
  <2> QED BY <2>2, UnitsAre DEF Changed
<1>6. XFlags(expanded, xpc) = expanded /\ XFlags(expanded', xpc') = expanded + 1
  BY <1>1 DEF XFlags
<1>7. XLens(expanded, xpc) = expanded /\ XLens(expanded', xpc') = expanded
  BY <1>1, <1>4 DEF XLens
<1>8. Window(eIn'["key"], Flags(lens), TFlags(tk, fpc["key"]), expanded + 1)
  <2>1. Window(eIn["key"], Flags(lens), TFlags(tk, fpc["key"]), expanded)
    BY <1>3, <1>6 DEF Flow, KeyFlow, UnitFlow
  <2>2. Flags(lens)[expanded + 1] = (expanded = Len(lens))
    BY <1>4, FlagIs
  <2> QED BY <1>5, <2>1, <2>2, WindowWrite
<1>9. XAt(lens, expanded', xpc')
  <2>1. CASE expanded = Len(lens)
    BY <1>1, <1>4, <2>1 DEF XAt
  <2>2. CASE expanded # Len(lens)
    BY <1>1, <1>4, <2>2 DEF XAt
  <2> QED BY <2>1, <2>2
<1>10. KeyFlow(tk, ok)'
  BY <1>2, <1>3, <1>6, <1>7, <1>8 DEF Flow, KeyFlow, UnitFlow, takeVars, kpadVars, fOut
<1>11. MsgFlow(tm, om, r)'
  BY <1>2, <1>5, MsgStays DEF Flow, Same, takeVars, mergeKipadVars, mergeKopadVars, fOut
<1>12. ResFlow(tr, os, r)'
  BY <1>2, <1>5, ResStays DEF Flow, Same, takeVars, mergeKopadVars, fOut
<1>13. PadFlow(r)'
  BY <1>2, <1>3, <1>9 DEF Flow, PadFlow, kpadVars, mergeKipadVars, mergeKopadVars, padStrms
<1>14. Kept'
  BY <1>2, <1>3, <1>5 DEF Kept, Formed, Unhashed, takeVars, fOut
<1> QED BY <1>10, <1>11, <1>12, <1>13, <1>14 DEF Flow

LEMMA ExpandLenFlow ==
    ASSUME Kept, NEW r, NEW tk, NEW ok, NEW tm, NEW om, NEW tr, NEW os, Flow(r, tk, ok, tm, om, tr, os),
           ExpandLen
    PROVE  Kept' /\ Flow(r, tk, ok, tm, om, tr, os)'
<1>1. xpc = "len" /\ lenIn' = [lenIn EXCEPT !["key"] = Append(@, keyLen)] /\ xpc' = "e"
  BY DEF ExpandLen, PutAt
<1>2. UNCHANGED <<keyLen, lens, expanded, kpadVars, mergeKipadVars, mergeKopadVars, takeVars,
                  flight, opc, eIn, dataIn, fOut, padStrms, kopad2Strm>>
  BY DEF ExpandLen
<1>3. keyLen > blockSize /\ Hashed("key", lens, keyLen) = lens /\ IsCall(lens, keyLen) /\ Formed
  BY <1>1 DEF Kept, Unhashed, Hashed
<1>4. expanded \in 0..Len(lens) /\ Len(lens) \in Nat /\ expanded > 0
  BY <1>1, <1>3 DEF Flow, PadFlow, XAt, IsCall
<1>5. /\ OnUnits(lenIn') /\ lenIn'["key"] = Append(lenIn["key"], keyLen)
      /\ lenIn'["msg"] = lenIn["msg"] /\ lenIn'["res"] = lenIn["res"]
  <2>1. OnUnits(lenIn)
    BY <1>3 DEF Formed
  <2>2. Changed(lenIn, lenIn', "key", Append(lenIn["key"], keyLen))
    BY <1>1, <2>1, UnitsAre, ExceptIs
  <2> QED BY <2>2, UnitsAre DEF Changed
<1>6. XFlags(expanded', xpc') = XFlags(expanded, xpc)
  BY <1>1, <1>2 DEF XFlags
<1>7. XLens(expanded, xpc) = expanded - 1 /\ XLens(expanded', xpc') = expanded
  BY <1>1, <1>2 DEF XLens
<1>8. Window(lenIn'["key"], Lengths("key", lens, keyLen), TLens(tk, fpc["key"]), expanded)
  <2>1. Window(lenIn["key"], Lengths("key", lens, keyLen), TLens(tk, fpc["key"]), expanded - 1)
    BY <1>3, <1>7 DEF Flow, KeyFlow, UnitFlow
  <2>2. (expanded - 1) + 1 = expanded /\ expanded \in DOMAIN lens
    BY <1>3, <1>4 DEF IsCall
  <2>3. Lengths("key", lens, keyLen)[expanded] = keyLen
    BY <2>2 DEF Lengths, LengthOf
  <2> QED BY <1>5, <2>1, <2>2, <2>3, WindowWrite
<1>9. XAt(lens, expanded', xpc')
  BY <1>1, <1>2, <1>4 DEF XAt
<1>10. KeyFlow(tk, ok)'
  BY <1>2, <1>3, <1>6, <1>7, <1>8 DEF Flow, KeyFlow, UnitFlow, takeVars, kpadVars, fOut
<1>11. MsgFlow(tm, om, r)'
  BY <1>2, <1>5, MsgStays DEF Flow, Same, takeVars, mergeKipadVars, mergeKopadVars, fOut
<1>12. ResFlow(tr, os, r)'
  BY <1>2, <1>5, ResStays DEF Flow, Same, takeVars, mergeKopadVars, fOut
<1>13. PadFlow(r)'
  BY <1>2, <1>3, <1>9 DEF Flow, PadFlow, kpadVars, mergeKipadVars, mergeKopadVars, padStrms
<1>14. Kept'
  BY <1>2, <1>3, <1>5 DEF Kept, Formed, Unhashed, takeVars, fOut
<1> QED BY <1>10, <1>11, <1>12, <1>13, <1>14 DEF Flow

-----------------------------------------------------------------------------
(* kpad *)

\* kpad's steps leave the other processes alone.
LEMMA PadProcess ==
    ASSUME NEW r, PadFlow(r), UNCHANGED <<keyLen, lens, expandVars, mergeKipadVars, mergeKopadVars, kopad2Strm>>,
           KAt(lens, keyLen, padded', kpc', k1'),
           Window(kipadStrm', Pads(keyLen, "36"), MKipads(merged, mpc), KKipads(padded', kpc')),
           Window(kopadStrm', Pads(keyLen, "5c"), MKopads(merged, mpc), KKopads(padded', kpc')),
           Window(eKipadStrm', Flags(lens), MPadFlags(merged, mpc), KPadFlags(padded', kpc'))
    PROVE  PadFlow(r)'
BY DEF PadFlow, expandVars, mergeKipadVars, mergeKopadVars

LEMMA KpadKeyFlow ==
    ASSUME Kept, NEW r, NEW tk, NEW ok, NEW tm, NEW om, NEW tr, NEW os, Flow(r, tk, ok, tm, om, tr, os),
           KpadKey
    PROVE  Kept' /\ Flow(r, tk, ok, tm, om, tr, os)'
<1> DEFINE p == padded + 1  n == Words(keyLen)
<1>1. kpc = "e" /\ ~(keyLen > blockSize)
  BY DEF KpadKey, LongKey
<1>2. UNCHANGED <<keyLen, lens, expandVars, mergeKipadVars, mergeKopadVars, takeVars,
                  flight, opc, eIn, lenIn, fOut, padStrms, kopad2Strm>>
  BY DEF KpadKey
<1>3. IsCall(lens, keyLen) /\ Formed /\ Unhashed
  BY DEF Kept
<1>4. padded \in 0..Len(lens) /\ Len(lens) \in Nat
  BY <1>3 DEF Flow, PadFlow, KAt, IsCall
<1>5. KFlags(keyLen, padded', kpc') = KFlags(keyLen, padded, kpc) /\ KHashes(keyLen, padded') = KHashes(keyLen, padded)
  BY <1>1 DEF KFlags, KHashes
<1>6. CASE padded = Len(lens)
  <2>1. kpc' = "finish" /\ UNCHANGED <<padded, k1, dataIn>>
    BY <1>6 DEF KpadKey
  <2>2. /\ KKipads(padded', kpc') = KKipads(padded, kpc) /\ KKopads(padded', kpc') = KKopads(padded, kpc)
        /\ KPadFlags(padded', kpc') = KPadFlags(padded, kpc)
    BY <1>1, <2>1 DEF KKipads, KKopads, KPadFlags
  <2>3. KAt(lens, keyLen, padded', kpc', k1')
    BY <1>4, <1>6, <2>1 DEF KAt
  <2>4. PadFlow(r)'
    BY <1>2, <2>2, <2>3, PadProcess DEF Flow, PadFlow, padStrms
  <2>5. KeyFlow(tk, ok)'
    BY <1>2, <1>5, <2>1, KeyStays DEF Flow, Same, takeVars, fOut, expandVars
  <2>6. MsgFlow(tm, om, r)' /\ ResFlow(tr, os, r)'
    BY <1>2, <2>1, MsgStays, ResStays DEF Flow, Same, takeVars, mergeKipadVars, mergeKopadVars, fOut
  <2>7. Kept'
    BY <1>2, <1>3, <2>1 DEF Kept, Formed, Unhashed, takeVars, fOut, expandVars
  <2> QED BY <2>4, <2>5, <2>6, <2>7 DEF Flow
<1>7. CASE padded # Len(lens)
  <2> DEFINE y == Start("key", lens, keyLen, p)  w == Start("key", lens, keyLen, Len(lens) + 1)  d == dataIn["key"]
  <2>1. /\ k1' = ShortKeyBlock /\ padded' = p /\ kpc' = "ipad"
        /\ dataIn' = [dataIn EXCEPT !["key"] = SubSeq(@, Words(keyLen) + 1, Len(@))]
    BY <1>7 DEF KpadKey
  <2>2. p \in 1..Len(lens) /\ Counted("key", lens, keyLen, p) /\ LengthOf("key", lens, keyLen, p) = keyLen
    <3>1. padded < Len(lens)
      BY <1>4, <1>7
    <3> QED BY <1>3, <1>4, <3>1, AtMessage, UnitsAre DEF LengthOf
  <2>3. y \in Nat /\ n \in Nat /\ Start("key", lens, keyLen, p + 1) = y + n /\ y + n <= w
    <3>1. Growing(Counts("key", lens, keyLen), Len(lens))
      BY <1>3, UnitsAre, CountsGrow
    <3>2. p + 1 \in 1..Len(lens) + 1 /\ Len(lens) + 1 \in 1..Len(lens) + 1 /\ p + 1 \in 1..(Len(lens) + 1)
      BY <1>4, <2>2
    <3>3. Start("key", lens, keyLen, p + 1) <= w
      BY <1>4, <3>1, <3>2 DEF Growing, Start
    <3> QED BY <2>2, <3>3 DEF Counted
  <2>4. Window(d, Data("key", lens, keyLen), y, w)
    BY <1>1 DEF Flow, KeyFlow, KData
  <2>5. \A j \in 1..n : d[j] = KeyAtWord(keyLen, p, j - 1)
    <3> HIDE DEF d, y, w
    <3>1. \A j \in 1..w - y : d[j] = Data("key", lens, keyLen)[y + j]
      BY <2>4, WindowLength
    <3>2. \A j \in 1..n : Data("key", lens, keyLen)[y + j] = WordOf("key", lens, keyLen, p, j)
      BY <1>3, <2>2, UnitsAre, DataIs DEF y
    <3>3. \A j \in 1..n : j \in 1..w - y
      BY <2>3, <2>4 DEF Window
    <3> HIDE DEF n, p
    <3> QED BY <3>1, <3>2, <3>3 DEF WordOf
  <2>6. k1' = Register(keyLen, p)
    <3> HIDE DEF p
    <3> QED BY <1>1, <1>3, <2>1, <2>5, ShortKeyRegister
  <2>7. /\ OnUnits(dataIn') /\ dataIn'["key"] = SubSeq(d, n + 1, Len(d))
        /\ dataIn'["msg"] = dataIn["msg"] /\ dataIn'["res"] = dataIn["res"]
    <3>1. OnUnits(dataIn)
      BY <1>3 DEF Formed
    <3>2. Changed(dataIn, dataIn', "key", SubSeq(d, n + 1, Len(d)))
      BY <2>1, <3>1, UnitsAre, ExceptIs
    <3> QED BY <3>2, UnitsAre DEF Changed
  <2>8. Window(dataIn'["key"], Data("key", lens, keyLen), y + n, w)
    <3> HIDE DEF d, y, w, n
    <3> QED BY <2>3, <2>4, <2>7, WindowDrop
  <2>9. KData(lens, keyLen, padded', tk, fpc["key"], facc["key"]) = y + n
    BY <1>1, <2>1, <2>3 DEF KData
  <2>10. /\ KKipads(padded', kpc') = KKipads(padded, kpc) /\ KKopads(padded', kpc') = KKopads(padded, kpc)
         /\ KPadFlags(padded', kpc') = KPadFlags(padded, kpc)
    BY <1>1, <1>4, <2>1 DEF KKipads, KKopads, KPadFlags
  <2>11. KAt(lens, keyLen, padded', kpc', k1')
    BY <1>4, <2>1, <2>2, <2>6 DEF KAt
  <2> HIDE DEF y, w, d, p, n
  <2>12. PadFlow(r)'
    BY <1>2, <2>10, <2>11, PadProcess DEF Flow, PadFlow, padStrms
  <2>13. KeyFlow(tk, ok)'
    BY <1>2, <1>5, <2>8, <2>9 DEF Flow, KeyFlow, UnitFlow, takeVars, expandVars, fOut, w
  <2>14. MsgFlow(tm, om, r)' /\ ResFlow(tr, os, r)'
    BY <1>2, <2>7, MsgStays, ResStays DEF Flow, Same, takeVars, mergeKipadVars, mergeKopadVars, fOut
  <2>15. Kept'
    BY <1>2, <1>3, <2>7 DEF Kept, Formed, Unhashed, takeVars, fOut, expandVars
  <2> QED BY <2>12, <2>13, <2>14, <2>15 DEF Flow
<1> QED BY <1>6, <1>7

LEMMA KeyDigestOf == ASSUME NEW ls, NEW kl, NEW m PROVE DigestOf("key", ls, kl, m) = KeyDigest(kl, m)
BY DEF DigestOf, KeyDigest, LengthOf, WordOf

LEMMA GenPadFlagFlow ==
    ASSUME Kept, NEW r, NEW tk, NEW ok, NEW tm, NEW om, NEW tr, NEW os, Flow(r, tk, ok, tm, om, tr, os),
           GenPadFlag
    PROVE  Kept' /\ Flow(r, tk, ok, tm, om, tr, os)'
<1>1. /\ kpc = "e" /\ keyLen > blockSize /\ eOut["key"] # <<>> /\ eOut' = [eOut EXCEPT !["key"] = Tail(@)]
      /\ kpc' = IF Head(eOut["key"]) THEN "finish" ELSE "hash"
  BY DEF GenPadFlag, LongKey, GetAt
<1>2. UNCHANGED <<keyLen, lens, expandVars, padded, k1, mergeKipadVars, mergeKopadVars,
                  takeVars, flight, opc, fIn, hashOut, padStrms, kopad2Strm>>
  BY DEF GenPadFlag
<1>3. Hashed("key", lens, keyLen) = lens /\ IsCall(lens, keyLen) /\ Formed /\ Unhashed
  BY <1>1 DEF Kept, Hashed
<1>4. padded \in 0..Len(lens) /\ Len(lens) \in Nat
  BY <1>3 DEF Flow, PadFlow, KAt, IsCall
<1>5. /\ OnUnits(eOut') /\ eOut'["key"] = Tail(eOut["key"])
      /\ eOut'["msg"] = eOut["msg"] /\ eOut'["res"] = eOut["res"]
  <2>1. OnUnits(eOut)
    BY <1>3 DEF Formed
  <2>2. Changed(eOut, eOut', "key", Tail(eOut["key"]))
    BY <1>1, <2>1, UnitsAre, ExceptIs
  <2> QED BY <2>2, UnitsAre DEF Changed
<1>6. KFlags(keyLen, padded, kpc) = padded /\ KFlags(keyLen, padded, kpc') = padded + 1
  BY <1>1 DEF KFlags
<1>7. /\ Head(eOut["key"]) = Flags(lens)[padded + 1]
      /\ Window(eOut'["key"], Flags(lens), padded + 1, OFlags(ok, opc["key"]))
  <2>1. Window(eOut["key"], Flags(lens), padded, OFlags(ok, opc["key"]))
    BY <1>3, <1>6 DEF Flow, KeyFlow, UnitFlow
  <2> QED BY <1>1, <1>5, <2>1, WindowRead
<1>8. kpc' = IF padded = Len(lens) THEN "finish" ELSE "hash"
  <2>1. Head(eOut["key"]) = (padded = Len(lens))
    BY <1>4, <1>7, FlagIs
  <2> QED BY <1>1, <2>1
<1>9. KAt(lens, keyLen, padded, kpc', k1)
  <2>1. CASE padded = Len(lens)
    BY <1>4, <1>8, <2>1 DEF KAt
  <2>2. CASE padded # Len(lens)
    <3>1. kpc' = "hash" /\ padded < Len(lens)
      BY <1>4, <1>8, <2>2
    <3> QED BY <1>1, <1>4, <3>1 DEF KAt
  <2> QED BY <2>1, <2>2
<1>10. /\ KKipads(padded, kpc') = KKipads(padded, kpc) /\ KKopads(padded, kpc') = KKopads(padded, kpc)
       /\ KPadFlags(padded, kpc') = KPadFlags(padded, kpc)
  BY <1>1, <1>8 DEF KKipads, KKopads, KPadFlags
<1>11. PadFlow(r)'
  BY <1>2, <1>9, <1>10, PadProcess DEF Flow, PadFlow, padStrms
<1>12. KeyFlow(tk, ok)'
  BY <1>2, <1>3, <1>6, <1>7 DEF Flow, KeyFlow, UnitFlow, takeVars, expandVars, fIn
<1>13. MsgFlow(tm, om, r)' /\ ResFlow(tr, os, r)'
  BY <1>2, <1>5, MsgStays, ResStays DEF Flow, Same, takeVars, mergeKipadVars, mergeKopadVars, fIn
<1>14. Kept'
  BY <1>2, <1>3, <1>5 DEF Kept, Formed, Unhashed, takeVars, fIn, expandVars
<1> QED BY <1>11, <1>12, <1>13, <1>14 DEF Flow

LEMMA GenPadHashFlow ==
    ASSUME Kept, NEW r, NEW tk, NEW ok, NEW tm, NEW om, NEW tr, NEW os, Flow(r, tk, ok, tm, om, tr, os),
           GenPadHash
    PROVE  Kept' /\ Flow(r, tk, ok, tm, om, tr, os)'
<1> DEFINE p == padded + 1
<1>1. /\ kpc = "hash" /\ hashOut["key"] # <<>> /\ hashOut' = [hashOut EXCEPT !["key"] = Tail(@)]
      /\ k1' = LongKeyBlock(Head(hashOut["key"])) /\ padded' = p /\ kpc' = "ipad"
  BY DEF GenPadHash, GetAt
<1>2. UNCHANGED <<keyLen, lens, expandVars, mergeKipadVars, mergeKopadVars, takeVars,
                  flight, opc, fIn, eOut, padStrms, kopad2Strm>>
  BY DEF GenPadHash
<1>3. IsCall(lens, keyLen) /\ Formed /\ Unhashed
  BY DEF Kept
<1>4. padded \in 0..Len(lens) /\ Len(lens) \in Nat /\ padded < Len(lens) /\ keyLen > blockSize
  BY <1>1, <1>3 DEF Flow, PadFlow, KAt, IsCall
<1>5. Hashed("key", lens, keyLen) = lens
  BY <1>4 DEF Hashed
<1>6. /\ OnUnits(hashOut') /\ hashOut'["key"] = Tail(hashOut["key"])
      /\ hashOut'["msg"] = hashOut["msg"] /\ hashOut'["res"] = hashOut["res"]
  <2>1. OnUnits(hashOut)
    BY <1>3 DEF Formed
  <2>2. Changed(hashOut, hashOut', "key", Tail(hashOut["key"]))
    BY <1>1, <2>1, UnitsAre, ExceptIs
  <2> QED BY <2>2, UnitsAre DEF Changed
<1>7. /\ KFlags(keyLen, padded', kpc') = KFlags(keyLen, padded, kpc)
      /\ KHashes(keyLen, padded) = padded /\ KHashes(keyLen, padded') = p
  BY <1>1, <1>4 DEF KFlags, KHashes
<1>8. /\ Head(hashOut["key"]) = Digests("key", lens, keyLen)[p]
      /\ Window(hashOut'["key"], Digests("key", lens, keyLen), p, ok)
  <2>1. Window(hashOut["key"], Digests("key", lens, keyLen), padded, ok)
    BY <1>5, <1>7 DEF Flow, KeyFlow, UnitFlow
  <2> QED BY <1>1, <1>6, <2>1, WindowRead
<1>9. k1' = Register(keyLen, p)
  <2>1. Digests("key", lens, keyLen)[p] = KeyDigest(keyLen, p)
    BY <1>4, KeyDigestOf DEF Digests
  <2> HIDE DEF p
  <2> QED BY <1>1, <1>4, <1>8, <2>1, LongKeyRegister
<1>10. KAt(lens, keyLen, padded', kpc', k1')
  BY <1>1, <1>4, <1>9 DEF KAt
<1>11. /\ KKipads(padded', kpc') = KKipads(padded, kpc) /\ KKopads(padded', kpc') = KKopads(padded, kpc)
       /\ KPadFlags(padded', kpc') = KPadFlags(padded, kpc)
  BY <1>1, <1>4 DEF KKipads, KKopads, KPadFlags
<1>12. KData(lens, keyLen, padded', tk, fpc["key"], facc["key"]) = KData(lens, keyLen, padded, tk, fpc["key"], facc["key"])
  BY <1>4 DEF KData
<1> HIDE DEF p
<1>13. PadFlow(r)'
  BY <1>2, <1>10, <1>11, PadProcess DEF Flow, PadFlow, padStrms
<1>14. KeyFlow(tk, ok)'
  BY <1>2, <1>5, <1>7, <1>8, <1>12 DEF Flow, KeyFlow, UnitFlow, takeVars, expandVars, fIn
<1>15. MsgFlow(tm, om, r)' /\ ResFlow(tr, os, r)'
  BY <1>2, <1>6, MsgStays, ResStays DEF Flow, Same, takeVars, mergeKipadVars, mergeKopadVars, fIn
<1>16. Kept'
  BY <1>2, <1>3, <1>6 DEF Kept, Formed, Unhashed, takeVars, fIn, expandVars
<1> QED BY <1>13, <1>14, <1>15, <1>16 DEF Flow

LEMMA PutKipadFlow ==
    ASSUME Kept, NEW r, NEW tk, NEW ok, NEW tm, NEW om, NEW tr, NEW os, Flow(r, tk, ok, tm, om, tr, os),
           PutKipad
    PROVE  Kept' /\ Flow(r, tk, ok, tm, om, tr, os)'
<1>1. kpc = "ipad" /\ kipadStrm' = Append(kipadStrm, Xor(k1, "36")) /\ kpc' = "opad"
  BY DEF PutKipad, Put
<1>2. UNCHANGED <<keyLen, lens, expandVars, padded, k1, mergeKipadVars, mergeKopadVars,
                  takeVars, flight, opc, fIn, fOut, kopadStrm, eKipadStrm, kopad2Strm>>
  BY DEF PutKipad
<1>3. IsCall(lens, keyLen) /\ Formed /\ Unhashed
  BY DEF Kept
<1>4. padded \in 0..Len(lens) /\ Len(lens) \in Nat /\ padded > 0 /\ k1 = Register(keyLen, padded)
  BY <1>1, <1>3 DEF Flow, PadFlow, KAt, IsCall
<1>5. KKipads(padded, kpc) = padded - 1 /\ KKipads(padded, kpc') = padded
  BY <1>1 DEF KKipads
<1>6. Window(kipadStrm', Pads(keyLen, "36"), MKipads(merged, mpc), padded)
  <2>1. Window(kipadStrm, Pads(keyLen, "36"), MKipads(merged, mpc), padded - 1)
    BY <1>5 DEF Flow, PadFlow
  <2>2. (padded - 1) + 1 = padded /\ padded \in Nat
    BY <1>4
  <2>3. Pads(keyLen, "36")[padded] = Xor(k1, "36")
    BY <1>4, <2>2 DEF Pads
  <2> QED BY <1>1, <2>1, <2>2, <2>3, WindowWrite
<1>7. /\ KKopads(padded, kpc') = KKopads(padded, kpc) /\ KPadFlags(padded, kpc') = KPadFlags(padded, kpc)
      /\ KFlags(keyLen, padded, kpc') = KFlags(keyLen, padded, kpc)
  BY <1>1 DEF KKopads, KPadFlags, KFlags
<1>8. KAt(lens, keyLen, padded, kpc', k1)
  BY <1>1, <1>4 DEF KAt
<1>9. PadFlow(r)'
  BY <1>2, <1>5, <1>6, <1>7, <1>8, PadProcess DEF Flow, PadFlow
<1>10. KeyFlow(tk, ok)'
  BY <1>2, <1>7, KeyStays DEF Flow, Same, takeVars, expandVars, fIn, fOut
<1>11. MsgFlow(tm, om, r)' /\ ResFlow(tr, os, r)'
  BY <1>2, MsgStays, ResStays DEF Flow, Same, takeVars, mergeKipadVars, mergeKopadVars, fIn, fOut
<1>12. Kept'
  BY <1>2, <1>3 DEF Kept, Formed, Unhashed, takeVars, fIn, fOut, expandVars
<1> QED BY <1>9, <1>10, <1>11, <1>12 DEF Flow

LEMMA PutKopadFlow ==
    ASSUME Kept, NEW r, NEW tk, NEW ok, NEW tm, NEW om, NEW tr, NEW os, Flow(r, tk, ok, tm, om, tr, os),
           PutKopad
    PROVE  Kept' /\ Flow(r, tk, ok, tm, om, tr, os)'
<1>1. kpc = "opad" /\ kopadStrm' = Append(kopadStrm, Xor(k1, "5c")) /\ kpc' = "flag"
  BY DEF PutKopad, Put
<1>2. UNCHANGED <<keyLen, lens, expandVars, padded, k1, mergeKipadVars, mergeKopadVars,
                  takeVars, flight, opc, fIn, fOut, kipadStrm, eKipadStrm, kopad2Strm>>
  BY DEF PutKopad
<1>3. IsCall(lens, keyLen) /\ Formed /\ Unhashed
  BY DEF Kept
<1>4. padded \in 0..Len(lens) /\ Len(lens) \in Nat /\ padded > 0 /\ k1 = Register(keyLen, padded)
  BY <1>1, <1>3 DEF Flow, PadFlow, KAt, IsCall
<1>5. KKopads(padded, kpc) = padded - 1 /\ KKopads(padded, kpc') = padded
  BY <1>1 DEF KKopads
<1>6. Window(kopadStrm', Pads(keyLen, "5c"), MKopads(merged, mpc), padded)
  <2>1. Window(kopadStrm, Pads(keyLen, "5c"), MKopads(merged, mpc), padded - 1)
    BY <1>5 DEF Flow, PadFlow
  <2>2. (padded - 1) + 1 = padded /\ padded \in Nat
    BY <1>4
  <2>3. Pads(keyLen, "5c")[padded] = Xor(k1, "5c")
    BY <1>4, <2>2 DEF Pads
  <2> QED BY <1>1, <2>1, <2>2, <2>3, WindowWrite
<1>7. /\ KKipads(padded, kpc') = KKipads(padded, kpc) /\ KPadFlags(padded, kpc') = KPadFlags(padded, kpc)
      /\ KFlags(keyLen, padded, kpc') = KFlags(keyLen, padded, kpc)
  BY <1>1 DEF KKipads, KPadFlags, KFlags
<1>8. KAt(lens, keyLen, padded, kpc', k1)
  BY <1>1, <1>4 DEF KAt
<1>9. PadFlow(r)'
  BY <1>2, <1>5, <1>6, <1>7, <1>8, PadProcess DEF Flow, PadFlow
<1>10. KeyFlow(tk, ok)'
  BY <1>2, <1>7, KeyStays DEF Flow, Same, takeVars, expandVars, fIn, fOut
<1>11. MsgFlow(tm, om, r)' /\ ResFlow(tr, os, r)'
  BY <1>2, MsgStays, ResStays DEF Flow, Same, takeVars, mergeKipadVars, mergeKopadVars, fIn, fOut
<1>12. Kept'
  BY <1>2, <1>3 DEF Kept, Formed, Unhashed, takeVars, fIn, fOut, expandVars
<1> QED BY <1>9, <1>10, <1>11, <1>12 DEF Flow

LEMMA PutPadFlagFlow ==
    ASSUME Kept, NEW r, NEW tk, NEW ok, NEW tm, NEW om, NEW tr, NEW os, Flow(r, tk, ok, tm, om, tr, os),
           PutPadFlag
    PROVE  Kept' /\ Flow(r, tk, ok, tm, om, tr, os)'
<1>1. /\ kpc \in {"flag", "finish"} /\ eKipadStrm' = Append(eKipadStrm, kpc = "finish")
      /\ kpc' = IF kpc = "finish" THEN "done" ELSE "e"
  BY DEF PutPadFlag, Put
<1>2. UNCHANGED <<keyLen, lens, expandVars, padded, k1, mergeKipadVars, mergeKopadVars,
                  takeVars, flight, opc, fIn, fOut, kipadStrm, kopadStrm, kopad2Strm>>
  BY DEF PutPadFlag
<1>3. IsCall(lens, keyLen) /\ Formed /\ Unhashed
  BY DEF Kept
<1>4. /\ padded \in 0..Len(lens) /\ Len(lens) \in Nat /\ (kpc = "flag" => padded > 0)
      /\ (kpc = "finish" => padded = Len(lens))
  BY <1>1, <1>3 DEF Flow, PadFlow, KAt, IsCall
<1> DEFINE p == IF kpc = "finish" THEN padded ELSE padded - 1
<1>5. KPadFlags(padded, kpc) = p /\ KPadFlags(padded, kpc') = p + 1
  BY <1>1, <1>4 DEF KPadFlags
<1>6. Window(eKipadStrm', Flags(lens), MPadFlags(merged, mpc), p + 1)
  <2>1. Window(eKipadStrm, Flags(lens), MPadFlags(merged, mpc), p)
    BY <1>5 DEF Flow, PadFlow
  <2>2. p \in Nat /\ (p = Len(lens)) = (kpc = "finish")
    BY <1>1, <1>4
  <2>3. Flags(lens)[p + 1] = (kpc = "finish")
    <3>1. Flags(lens)[p + 1] = (p = Len(lens))
      BY <1>4, <2>2, FlagIs
    <3> QED BY <2>2, <3>1, Zenon
  <2> HIDE DEF p
  <2> QED BY <1>1, <2>1, <2>3, WindowWrite
<1> HIDE DEF p
<1>7. /\ KKipads(padded, kpc') = KKipads(padded, kpc) /\ KKopads(padded, kpc') = KKopads(padded, kpc)
      /\ KFlags(keyLen, padded, kpc') = KFlags(keyLen, padded, kpc)
  BY <1>1 DEF KKipads, KKopads, KFlags
<1>8. KAt(lens, keyLen, padded, kpc', k1)
  BY <1>1, <1>4 DEF KAt
<1>9. PadFlow(r)'
  BY <1>2, <1>5, <1>6, <1>7, <1>8, PadProcess DEF Flow, PadFlow
<1>10. KeyFlow(tk, ok)'
  BY <1>2, <1>7, KeyStays DEF Flow, Same, takeVars, expandVars, fIn, fOut
<1>11. MsgFlow(tm, om, r)' /\ ResFlow(tr, os, r)'
  BY <1>2, MsgStays, ResStays DEF Flow, Same, takeVars, mergeKipadVars, mergeKopadVars, fIn, fOut
<1>12. Kept'
  BY <1>2, <1>3 DEF Kept, Formed, Unhashed, takeVars, fIn, fOut, expandVars
<1> QED BY <1>9, <1>10, <1>11, <1>12 DEF Flow

-----------------------------------------------------------------------------
(* mergeKipad *)

\* mergeKipad's steps leave the other processes alone.
LEMMA MergeProcess ==
    ASSUME NEW r, PadFlow(r), UNCHANGED <<keyLen, lens, expandVars, kpadVars, mergeKopadVars>>,
           MAt(lens, keyLen, merged', mpc', mi', kipad', mkopad', msgRead'),
           Window(kipadStrm', Pads(keyLen, "36"), MKipads(merged', mpc'), KKipads(padded, kpc)),
           Window(kopadStrm', Pads(keyLen, "5c"), MKopads(merged', mpc'), KKopads(padded, kpc)),
           Window(eKipadStrm', Flags(lens), MPadFlags(merged', mpc'), KPadFlags(padded, kpc)),
           Window(kopad2Strm', Pads(keyLen, "5c"), RKopads(r, rpc), MKopad2s(merged', mpc'))
    PROVE  PadFlow(r)'
BY DEF PadFlow, expandVars, kpadVars, mergeKopadVars

\* The words of message m as the hash of the messages sees it.
LEMMA MsgSizes ==
    ASSUME NEW ls, NEW kl, IsCall(ls, kl), NEW m \in 1..Len(ls)
    PROVE  /\ Len(ls) \in Nat /\ m \in DOMAIN ls /\ ls[m] \in Nat
           /\ LengthOf("msg", ls, kl, m) = ls[m] + blockSize
           /\ Words(ls[m]) \in Nat /\ PadWords \in Nat \ {0}
           /\ Words(LengthOf("msg", ls, kl, m)) = Words(ls[m]) + PadWords
           /\ Start("msg", ls, kl, m) \in Nat
           /\ Start("msg", ls, kl, m + 1) = Start("msg", ls, kl, m) + (PadWords + Words(ls[m]))
           /\ MsgStart(ls, m) \in Nat /\ MsgStart(ls, m + 1) = MsgStart(ls, m) + Words(ls[m])
<1>1. Len(ls) \in Nat /\ m \in DOMAIN ls /\ ls[m] \in Nat
  BY DEF IsCall
<1>2. LengthOf("msg", ls, kl, m) = ls[m] + blockSize
  BY DEF LengthOf
<1>3. Words(ls[m]) \in Nat /\ PadWords \in Nat \ {0} /\ Words(ls[m] + blockSize) = Words(ls[m]) + PadWords
  <2> DEFINE n == ls[m]
  <2>1. n \in Nat
    BY <1>1
  <2> HIDE DEF n
  <2>2. Words(n) \in Nat /\ PadWords \in Nat \ {0} /\ Words(n + blockSize) = Words(n) + PadWords
    BY <2>1, PadSizes
  <2> QED BY <2>2 DEF n
<1>4. Counted("msg", ls, kl, m)
  BY UnitsAre, CountsGrow
<1>5. MsgStart(ls, m) \in Nat /\ MsgStart(ls, m + 1) = MsgStart(ls, m) + Words(ls[m])
  BY MsgCountsGrow
<1>6. /\ Start("msg", ls, kl, m) \in Nat
      /\ Start("msg", ls, kl, m + 1) = Start("msg", ls, kl, m) + (Words(ls[m]) + PadWords)
  BY <1>2, <1>3, <1>4 DEF Counted
<1>7. Words(ls[m]) + PadWords = PadWords + Words(ls[m])
  BY <1>3
<1> QED BY <1>1, <1>2, <1>3, <1>5, <1>6, <1>7

LEMMA MergeReadFlagFlow ==
    ASSUME Kept, NEW r, NEW tk, NEW ok, NEW tm, NEW om, NEW tr, NEW os, Flow(r, tk, ok, tm, om, tr, os),
           MergeReadFlag
    PROVE  Kept' /\ Flow(r, tk, ok, tm, om, tr, os)'
<1>1. /\ mpc = "e" /\ eKipadStrm # <<>> /\ eKipadStrm' = Tail(eKipadStrm)
      /\ mpc' = IF Head(eKipadStrm) THEN "finish" ELSE "flag"
  BY DEF MergeReadFlag, Get
<1>2. UNCHANGED <<keyLen, lens, expandVars, kpadVars, merged, mi, kipad, mkopad, msgRead,
                  mergeKopadVars, takeVars, flight, opc, fIn, fOut, kipadStrm, kopadStrm, kopad2Strm>>
  BY DEF MergeReadFlag
<1>3. IsCall(lens, keyLen) /\ Formed /\ Unhashed
  BY DEF Kept
<1>4. /\ merged \in 0..Len(lens) /\ Len(lens) \in Nat
      /\ MAt(lens, keyLen, merged, mpc, mi, kipad, mkopad, msgRead)
  BY <1>3 DEF Flow, PadFlow, MAt, IsCall
<1>5. MPadFlags(merged, mpc) = merged /\ MPadFlags(merged, mpc') = merged + 1
  BY <1>1 DEF MPadFlags
<1>6. /\ Head(eKipadStrm) = Flags(lens)[merged + 1]
      /\ Window(eKipadStrm', Flags(lens), merged + 1, KPadFlags(padded, kpc))
  <2>1. Window(eKipadStrm, Flags(lens), merged, KPadFlags(padded, kpc))
    BY <1>5 DEF Flow, PadFlow
  <2> QED BY <1>1, <2>1, WindowRead
<1>7. mpc' = IF merged = Len(lens) THEN "finish" ELSE "flag"
  <2>1. Head(eKipadStrm) = (merged = Len(lens))
    BY <1>4, <1>6, FlagIs
  <2> QED BY <1>1, <2>1
<1>8. /\ MKipads(merged, mpc') = MKipads(merged, mpc) /\ MKopads(merged, mpc') = MKopads(merged, mpc)
      /\ MFlags(merged, mpc') = MFlags(merged, mpc) /\ MKopad2s(merged, mpc') = MKopad2s(merged, mpc)
      /\ MData(lens, keyLen, merged, mpc', mi) = MData(lens, keyLen, merged, mpc, mi)
      /\ MRead(lens, merged, mpc', mi) = MRead(lens, merged, mpc, mi)
  BY <1>1, <1>7 DEF MKipads, MKopads, MFlags, MKopad2s, MData, MRead
<1>9. MAt(lens, keyLen, merged, mpc', mi, kipad, mkopad, msgRead)
  <2>1. CASE merged = Len(lens)
    <3>1. mpc' = "finish"
      BY <1>7, <2>1
    <3> QED BY <1>4, <1>8, <2>1, <3>1 DEF MAt
  <2>2. CASE merged # Len(lens)
    <3>1. mpc' = "flag" /\ merged < Len(lens)
      BY <1>4, <1>7, <2>2
    <3> QED BY <1>4, <1>8, <3>1 DEF MAt
  <2> QED BY <2>1, <2>2
<1>10. PadFlow(r)'
  BY <1>2, <1>5, <1>6, <1>8, <1>9, MergeProcess DEF Flow, PadFlow
<1>11. KeyFlow(tk, ok)' /\ ResFlow(tr, os, r)'
  BY <1>2, KeyStays, ResStays DEF Flow, Same, takeVars, fIn, fOut, expandVars, kpadVars, mergeKopadVars
<1>12. MsgFlow(tm, om, r)'
  BY <1>2, <1>8, MsgStays DEF Flow, Same, takeVars, fIn, fOut, mergeKopadVars
<1>13. Kept'
  BY <1>2, <1>3 DEF Kept, Formed, Unhashed, takeVars, fIn, fOut, expandVars
<1> QED BY <1>10, <1>11, <1>12, <1>13 DEF Flow

LEMMA MergeFlagFlow ==
    ASSUME Kept, NEW r, NEW tk, NEW ok, NEW tm, NEW om, NEW tr, NEW os, Flow(r, tk, ok, tm, om, tr, os),
           MergeFlag
    PROVE  Kept' /\ Flow(r, tk, ok, tm, om, tr, os)'
<1>1. /\ mpc \in {"flag", "finish"} /\ eIn' = [eIn EXCEPT !["msg"] = Append(@, mpc = "finish")]
      /\ mpc' = IF mpc = "finish" THEN "done" ELSE "len"
  BY DEF MergeFlag, PutAt
<1>2. UNCHANGED <<keyLen, lens, expandVars, kpadVars, merged, mi, kipad, mkopad, msgRead,
                  mergeKopadVars, takeVars, flight, opc, lenIn, dataIn, fOut, padStrms, kopad2Strm>>
  BY DEF MergeFlag
<1>3. IsCall(lens, keyLen) /\ Formed /\ Unhashed
  BY DEF Kept
<1>4. /\ merged \in 0..Len(lens) /\ Len(lens) \in Nat
      /\ MAt(lens, keyLen, merged, mpc, mi, kipad, mkopad, msgRead)
      /\ (mpc = "flag" => merged < Len(lens)) /\ (mpc = "finish" => merged = Len(lens))
  BY <1>1, <1>3 DEF Flow, PadFlow, MAt, IsCall
<1>5. MFlags(merged, mpc) = merged /\ MFlags(merged, mpc') = merged + 1
  BY <1>1 DEF MFlags
<1>6. /\ OnUnits(eIn') /\ eIn'["msg"] = Append(eIn["msg"], mpc = "finish")
      /\ eIn'["key"] = eIn["key"] /\ eIn'["res"] = eIn["res"]
  <2>1. OnUnits(eIn)
    BY <1>3 DEF Formed
  <2>2. Changed(eIn, eIn', "msg", Append(eIn["msg"], mpc = "finish"))
    BY <1>1, <2>1, UnitsAre, ExceptIs
  <2> QED BY <2>2, UnitsAre DEF Changed
<1>7. Window(eIn'["msg"], Flags(lens), TFlags(tm, fpc["msg"]), merged + 1)
  <2>1. Window(eIn["msg"], Flags(lens), TFlags(tm, fpc["msg"]), merged)
    BY <1>5 DEF Flow, MsgFlow, UnitFlow
  <2>2. merged \in Nat /\ (merged = Len(lens)) = (mpc = "finish")
    BY <1>1, <1>4
  <2>3. Flags(lens)[merged + 1] = (mpc = "finish")
    <3>1. Flags(lens)[merged + 1] = (merged = Len(lens))
      BY <1>4, <2>2, FlagIs
    <3> QED BY <2>2, <3>1, Zenon
  <2> QED BY <1>6, <2>1, <2>3, WindowWrite
<1>8. /\ MKipads(merged, mpc') = MKipads(merged, mpc) /\ MKopads(merged, mpc') = MKopads(merged, mpc)
      /\ MPadFlags(merged, mpc') = MPadFlags(merged, mpc) /\ MKopad2s(merged, mpc') = MKopad2s(merged, mpc)
      /\ MData(lens, keyLen, merged, mpc', mi) = MData(lens, keyLen, merged, mpc, mi)
      /\ MRead(lens, merged, mpc', mi) = MRead(lens, merged, mpc, mi)
  BY <1>1 DEF MKipads, MKopads, MPadFlags, MKopad2s, MData, MRead
<1>9. MAt(lens, keyLen, merged, mpc', mi, kipad, mkopad, msgRead)
  BY <1>1, <1>4, <1>8 DEF MAt
<1>10. PadFlow(r)'
  BY <1>2, <1>8, <1>9, MergeProcess DEF Flow, PadFlow, padStrms
<1>11. KeyFlow(tk, ok)' /\ ResFlow(tr, os, r)'
  BY <1>2, <1>6, KeyStays, ResStays DEF Flow, Same, takeVars, fOut, expandVars, kpadVars, mergeKopadVars
<1>12. MsgFlow(tm, om, r)'
  BY <1>2, <1>5, <1>7, <1>8 DEF Flow, MsgFlow, UnitFlow, takeVars, fOut, mergeKopadVars
<1>13. Kept'
  BY <1>2, <1>3, <1>6 DEF Kept, Formed, Unhashed, takeVars, fIn, fOut, expandVars
<1> QED BY <1>10, <1>11, <1>12, <1>13 DEF Flow

LEMMA MergeLenFlow ==
    ASSUME Kept, NEW r, NEW tk, NEW ok, NEW tm, NEW om, NEW tr, NEW os, Flow(r, tk, ok, tm, om, tr, os),
           MergeLen
    PROVE  Kept' /\ Flow(r, tk, ok, tm, om, tr, os)'
<1> DEFINE m == merged + 1
<1>1. /\ mpc = "len" /\ lenIn' = [lenIn EXCEPT !["msg"] = Append(@, lens[m] + blockSize)]
      /\ merged' = m /\ mpc' = "ipad"
  BY DEF MergeLen, PutAt
<1>2. UNCHANGED <<keyLen, lens, expandVars, kpadVars, mi, kipad, mkopad, msgRead,
                  mergeKopadVars, takeVars, flight, opc, eIn, dataIn, fOut, padStrms, kopad2Strm>>
  BY DEF MergeLen
<1>3. IsCall(lens, keyLen) /\ Formed /\ Unhashed
  BY DEF Kept
<1>4. /\ merged \in 0..Len(lens) /\ Len(lens) \in Nat /\ merged < Len(lens)
      /\ msgRead = MRead(lens, merged, mpc, mi)
  BY <1>1, <1>3 DEF Flow, PadFlow, MAt, IsCall
<1>5. m \in 1..Len(lens) /\ m - 1 = merged /\ m > 0
  BY <1>4
<1>6. /\ OnUnits(lenIn') /\ lenIn'["msg"] = Append(lenIn["msg"], lens[m] + blockSize)
      /\ lenIn'["key"] = lenIn["key"] /\ lenIn'["res"] = lenIn["res"]
  <2>1. OnUnits(lenIn)
    BY <1>3 DEF Formed
  <2>2. Changed(lenIn, lenIn', "msg", Append(lenIn["msg"], lens[m] + blockSize))
    BY <1>1, <2>1, UnitsAre, ExceptIs
  <2> QED BY <2>2, UnitsAre DEF Changed
<1>7. Window(lenIn'["msg"], Lengths("msg", lens, keyLen), TLens(tm, fpc["msg"]), m)
  <2>1. Window(lenIn["msg"], Lengths("msg", lens, keyLen), TLens(tm, fpc["msg"]), merged)
    BY DEF Flow, MsgFlow, UnitFlow
  <2>2. Lengths("msg", lens, keyLen)[m] = lens[m] + blockSize
    BY <1>3, <1>5, MsgSizes DEF Lengths
  <2> QED BY <1>6, <2>1, <2>2, WindowWrite
<1>8. /\ MKipads(merged', mpc') = MKipads(merged, mpc) /\ MKopads(merged', mpc') = MKopads(merged, mpc)
      /\ MPadFlags(merged', mpc') = MPadFlags(merged, mpc) /\ MKopad2s(merged', mpc') = MKopad2s(merged, mpc)
      /\ MFlags(merged', mpc') = MFlags(merged, mpc)
      /\ MData(lens, keyLen, merged', mpc', mi) = MData(lens, keyLen, merged, mpc, mi)
      /\ MRead(lens, merged', mpc', mi) = MRead(lens, merged, mpc, mi)
  BY <1>1, <1>5 DEF MKipads, MKopads, MPadFlags, MKopad2s, MFlags, MData, MRead
<1>9. MAt(lens, keyLen, merged', mpc', mi, kipad, mkopad, msgRead)
  BY <1>1, <1>4, <1>5, <1>8 DEF MAt
<1> HIDE DEF m
<1>10. PadFlow(r)'
  BY <1>2, <1>8, <1>9, MergeProcess DEF Flow, PadFlow, padStrms
<1>11. KeyFlow(tk, ok)' /\ ResFlow(tr, os, r)'
  BY <1>2, <1>6, KeyStays, ResStays DEF Flow, Same, takeVars, fOut, expandVars, kpadVars, mergeKopadVars
<1>12. MsgFlow(tm, om, r)'
  BY <1>1, <1>2, <1>7, <1>8 DEF Flow, MsgFlow, UnitFlow, takeVars, fOut, mergeKopadVars
<1>13. Kept'
  BY <1>2, <1>3, <1>6 DEF Kept, Formed, Unhashed, takeVars, fIn, fOut, expandVars
<1> QED BY <1>10, <1>11, <1>12, <1>13 DEF Flow

LEMMA MergeReadKipadFlow ==
    ASSUME Kept, NEW r, NEW tk, NEW ok, NEW tm, NEW om, NEW tr, NEW os, Flow(r, tk, ok, tm, om, tr, os),
           MergeReadKipad
    PROVE  Kept' /\ Flow(r, tk, ok, tm, om, tr, os)'
<1> DEFINE y == Start("msg", lens, keyLen, merged)
<1>1. /\ mpc = "ipad" /\ kipadStrm # <<>> /\ kipadStrm' = Tail(kipadStrm) /\ kipad' = Head(kipadStrm)
      /\ mi' = 0 /\ mpc' = "pad_words"
  BY DEF MergeReadKipad, Get
<1>2. UNCHANGED <<keyLen, lens, expandVars, kpadVars, merged, mkopad, msgRead, mergeKopadVars,
                  takeVars, flight, opc, fIn, fOut, kopadStrm, eKipadStrm, kopad2Strm>>
  BY DEF MergeReadKipad
<1>3. IsCall(lens, keyLen) /\ Formed /\ Unhashed
  BY DEF Kept
<1>4. /\ merged \in 1..Len(lens) /\ Len(lens) \in Nat /\ merged \in 0..Len(lens) /\ merged > 0
      /\ msgRead = MRead(lens, merged, mpc, mi)
  BY <1>1, <1>3 DEF Flow, PadFlow, MAt, IsCall
<1>5. y \in Nat /\ PadWords \in Nat \ {0}
  BY <1>3, <1>4, MsgSizes
<1>6. MKipads(merged, mpc) = merged - 1 /\ MKipads(merged, mpc') = merged
  BY <1>1 DEF MKipads
<1>7. kipad' = Pads(keyLen, "36")[merged] /\ Window(kipadStrm', Pads(keyLen, "36"), merged, KKipads(padded, kpc))
  <2>1. Window(kipadStrm, Pads(keyLen, "36"), merged - 1, KKipads(padded, kpc))
    BY <1>6 DEF Flow, PadFlow
  <2>2. (merged - 1) + 1 = merged
    BY <1>4
  <2> QED BY <1>1, <2>1, <2>2, WindowRead
<1>8. /\ MKopads(merged, mpc') = MKopads(merged, mpc)
      /\ MPadFlags(merged, mpc') = MPadFlags(merged, mpc) /\ MKopad2s(merged, mpc') = MKopad2s(merged, mpc)
      /\ MFlags(merged, mpc') = MFlags(merged, mpc)
      /\ MRead(lens, merged, mpc', mi') = MRead(lens, merged, mpc, mi)
  BY <1>1 DEF MKopads, MPadFlags, MKopad2s, MFlags, MRead
<1>9. MData(lens, keyLen, merged, mpc', mi') = MData(lens, keyLen, merged, mpc, mi)
  <2>1. MData(lens, keyLen, merged, mpc', mi') = y + 0 /\ MData(lens, keyLen, merged, mpc, mi) = y
    BY <1>1 DEF MData
  <2> HIDE DEF y
  <2> QED BY <1>5, <2>1
<1>10. MAt(lens, keyLen, merged, mpc', mi', kipad', mkopad, msgRead)
  <2>1. kipad' = Shifts(Pads(keyLen, "36")[merged], mi')
    <3>1. Shifts(Pads(keyLen, "36")[merged], 0) = Pads(keyLen, "36")[merged]
      BY <1>4, NotShifted
    <3> QED BY <1>1, <1>7, <3>1
  <2>2. mi' \in 0..PadWords - 1
    BY <1>1, <1>5
  <2> QED BY <1>1, <1>4, <1>8, <2>1, <2>2 DEF MAt
<1>11. PadFlow(r)'
  BY <1>2, <1>6, <1>7, <1>8, <1>10, MergeProcess DEF Flow, PadFlow
<1>12. KeyFlow(tk, ok)' /\ ResFlow(tr, os, r)'
  BY <1>2, KeyStays, ResStays DEF Flow, Same, takeVars, fIn, fOut, expandVars, kpadVars, mergeKopadVars
<1>13. MsgFlow(tm, om, r)'
  BY <1>2, <1>8, <1>9, MsgStays DEF Flow, Same, takeVars, fIn, fOut, mergeKopadVars
<1>14. Kept'
  BY <1>2, <1>3 DEF Kept, Formed, Unhashed, takeVars, fIn, fOut, expandVars
<1> QED BY <1>11, <1>12, <1>13, <1>14 DEF Flow

LEMMA MergePadWordFlow ==
    ASSUME Kept, NEW r, NEW tk, NEW ok, NEW tm, NEW om, NEW tr, NEW os, Flow(r, tk, ok, tm, om, tr, os),
           MergePadWord
    PROVE  Kept' /\ Flow(r, tk, ok, tm, om, tr, os)'
<1> DEFINE y == Start("msg", lens, keyLen, merged)  i == mi + 1
<1>1. /\ mpc = "pad_words" /\ dataIn' = [dataIn EXCEPT !["msg"] = Append(@, TopWord(kipad))]
      /\ kipad' = ShiftWord(kipad)
      /\ IF i < PadWords THEN mi' = i /\ mpc' = mpc ELSE mi' = 0 /\ mpc' = "opad"
  BY DEF MergePadWord, PutAt, PadWords
<1>2. UNCHANGED <<keyLen, lens, expandVars, kpadVars, merged, mkopad, msgRead, mergeKopadVars,
                  takeVars, flight, opc, eIn, lenIn, fOut, padStrms, kopad2Strm>>
  BY DEF MergePadWord
<1>3. IsCall(lens, keyLen) /\ Formed /\ Unhashed
  BY DEF Kept
<1>4. /\ merged \in 1..Len(lens) /\ Len(lens) \in Nat /\ merged \in 0..Len(lens) /\ merged > 0
      /\ msgRead = MRead(lens, merged, mpc, mi)
      /\ mi \in 0..PadWords - 1 /\ kipad = Shifts(Pads(keyLen, "36")[merged], mi)
  BY <1>1, <1>3 DEF Flow, PadFlow, MAt, IsCall
<1>5. y \in Nat /\ PadWords \in Nat \ {0} /\ i \in 1..PadWords /\ y + i = (y + mi) + 1
  <2>1. y \in Nat /\ PadWords \in Nat \ {0}
    BY <1>3, <1>4, MsgSizes
  <2> HIDE DEF y
  <2> QED BY <1>4, <2>1
<1>6. /\ OnUnits(dataIn') /\ dataIn'["msg"] = Append(dataIn["msg"], TopWord(kipad))
      /\ dataIn'["key"] = dataIn["key"] /\ dataIn'["res"] = dataIn["res"]
  <2>1. OnUnits(dataIn)
    BY <1>3 DEF Formed
  <2>2. Changed(dataIn, dataIn', "msg", Append(dataIn["msg"], TopWord(kipad)))
    BY <1>1, <2>1, UnitsAre, ExceptIs
  <2> QED BY <2>2, UnitsAre DEF Changed
<1>7. Data("msg", lens, keyLen)[y + i] = TopWord(kipad)
  <2>1. TopWord(kipad) = PadWord(keyLen, merged, "36", i)
    BY <1>4, TopOfPad
  <2>2. i \in 1..Words(LengthOf("msg", lens, keyLen, merged))
    <3>1. Words(LengthOf("msg", lens, keyLen, merged)) = Words(lens[merged]) + PadWords /\ Words(lens[merged]) \in Nat
      BY <1>3, <1>4, MsgSizes
    <3> HIDE DEF i
    <3> QED BY <1>5, <3>1
  <2>3. Data("msg", lens, keyLen)[y + i] = WordOf("msg", lens, keyLen, merged, i)
    <3> HIDE DEF i
    <3> QED BY <1>3, <1>4, <2>2, UnitsAre, DataIs
  <2>4. WordOf("msg", lens, keyLen, merged, i) = PadWord(keyLen, merged, "36", i)
    BY <1>5 DEF WordOf, InnerWord
  <2> QED BY <2>1, <2>3, <2>4
<1>8. MData(lens, keyLen, merged, mpc, mi) = y + mi /\ MData(lens, keyLen, merged, mpc', mi') = y + i
  <2>1. CASE i < PadWords
    BY <1>1, <2>1 DEF MData
  <2>2. CASE ~(i < PadWords)
    <3>1. i = PadWords
      BY <1>5, <2>2
    <3>2. MData(lens, keyLen, merged, mpc', mi') = y + PadWords
      BY <1>1, <2>2 DEF MData
    <3>3. MData(lens, keyLen, merged, mpc, mi) = y + mi
      BY <1>1 DEF MData
    <3> QED BY <3>1, <3>2, <3>3
  <2> QED BY <2>1, <2>2
<1>9. Window(dataIn'["msg"], Data("msg", lens, keyLen), TData("msg", lens, keyLen, tm, fpc["msg"], facc["msg"]), y + i)
  <2>1. Window(dataIn["msg"], Data("msg", lens, keyLen), TData("msg", lens, keyLen, tm, fpc["msg"], facc["msg"]), y + mi)
    BY <1>8 DEF Flow, MsgFlow
  <2> HIDE DEF y, i
  <2> QED BY <1>5, <1>6, <1>7, <2>1, WindowWrite
<1>10. /\ MKipads(merged, mpc') = MKipads(merged, mpc) /\ MKopads(merged, mpc') = MKopads(merged, mpc)
       /\ MPadFlags(merged, mpc') = MPadFlags(merged, mpc) /\ MKopad2s(merged, mpc') = MKopad2s(merged, mpc)
       /\ MFlags(merged, mpc') = MFlags(merged, mpc)
       /\ MRead(lens, merged, mpc', mi') = MRead(lens, merged, mpc, mi)
  BY <1>1 DEF MKipads, MKopads, MPadFlags, MKopad2s, MFlags, MRead
<1>11. MAt(lens, keyLen, merged, mpc', mi', kipad', mkopad, msgRead)
  <2>1. kipad' = Shifts(Pads(keyLen, "36")[merged], i)
    BY <1>1, <1>4, ShiftOnce
  <2>2. CASE i < PadWords
    <3>1. mi' = i /\ mpc' = "pad_words" /\ mi' \in 0..PadWords - 1
      BY <1>1, <1>5, <2>2
    <3> QED BY <1>4, <1>10, <2>1, <3>1 DEF MAt
  <2>3. CASE ~(i < PadWords)
    <3>1. mi' = 0 /\ mpc' = "opad"
      BY <1>1, <2>3
    <3> QED BY <1>4, <1>10, <3>1 DEF MAt
  <2> QED BY <2>2, <2>3
<1> HIDE DEF y, i
<1>12. PadFlow(r)'
  BY <1>2, <1>10, <1>11, MergeProcess DEF Flow, PadFlow, padStrms
<1>13. KeyFlow(tk, ok)' /\ ResFlow(tr, os, r)'
  BY <1>2, <1>6, KeyStays, ResStays DEF Flow, Same, takeVars, fOut, expandVars, kpadVars, mergeKopadVars
<1>14. MsgFlow(tm, om, r)'
  BY <1>2, <1>8, <1>9, <1>10 DEF Flow, MsgFlow, UnitFlow, takeVars, fOut, mergeKopadVars
<1>15. Kept'
  BY <1>2, <1>3, <1>6 DEF Kept, Formed, Unhashed, takeVars, fIn, fOut, expandVars
<1> QED BY <1>12, <1>13, <1>14, <1>15 DEF Flow

LEMMA MergeReadKopadFlow ==
    ASSUME Kept, NEW r, NEW tk, NEW ok, NEW tm, NEW om, NEW tr, NEW os, Flow(r, tk, ok, tm, om, tr, os),
           MergeReadKopad
    PROVE  Kept' /\ Flow(r, tk, ok, tm, om, tr, os)'
<1>1. /\ mpc = "opad" /\ kopadStrm # <<>> /\ kopadStrm' = Tail(kopadStrm) /\ mkopad' = Head(kopadStrm)
      /\ mpc' = "pass_opad"
  BY DEF MergeReadKopad, Get
<1>2. UNCHANGED <<keyLen, lens, expandVars, kpadVars, merged, mi, kipad, msgRead, mergeKopadVars,
                  takeVars, flight, opc, fIn, fOut, kipadStrm, eKipadStrm, kopad2Strm>>
  BY DEF MergeReadKopad
<1>3. IsCall(lens, keyLen) /\ Formed /\ Unhashed
  BY DEF Kept
<1>4. /\ Len(lens) \in Nat /\ merged \in 0..Len(lens) /\ merged > 0 /\ mi = 0
      /\ msgRead = MRead(lens, merged, mpc, mi)
  BY <1>1, <1>3 DEF Flow, PadFlow, MAt, IsCall
<1>5. MKopads(merged, mpc) = merged - 1 /\ MKopads(merged, mpc') = merged
  BY <1>1 DEF MKopads
<1>6. mkopad' = Pads(keyLen, "5c")[merged] /\ Window(kopadStrm', Pads(keyLen, "5c"), merged, KKopads(padded, kpc))
  <2>1. Window(kopadStrm, Pads(keyLen, "5c"), merged - 1, KKopads(padded, kpc))
    BY <1>5 DEF Flow, PadFlow
  <2>2. (merged - 1) + 1 = merged
    BY <1>4
  <2> QED BY <1>1, <2>1, <2>2, WindowRead
<1>7. /\ MKipads(merged, mpc') = MKipads(merged, mpc)
      /\ MPadFlags(merged, mpc') = MPadFlags(merged, mpc) /\ MKopad2s(merged, mpc') = MKopad2s(merged, mpc)
      /\ MFlags(merged, mpc') = MFlags(merged, mpc)
      /\ MData(lens, keyLen, merged, mpc', mi) = MData(lens, keyLen, merged, mpc, mi)
      /\ MRead(lens, merged, mpc', mi) = MRead(lens, merged, mpc, mi)
  BY <1>1 DEF MKipads, MPadFlags, MKopad2s, MFlags, MData, MRead
<1>8. MAt(lens, keyLen, merged, mpc', mi, kipad, mkopad', msgRead)
  BY <1>1, <1>4, <1>6, <1>7 DEF MAt
<1>9. PadFlow(r)'
  BY <1>2, <1>5, <1>6, <1>7, <1>8, MergeProcess DEF Flow, PadFlow
<1>10. KeyFlow(tk, ok)' /\ ResFlow(tr, os, r)'
  BY <1>2, KeyStays, ResStays DEF Flow, Same, takeVars, fIn, fOut, expandVars, kpadVars, mergeKopadVars
<1>11. MsgFlow(tm, om, r)'
  BY <1>2, <1>7, MsgStays DEF Flow, Same, takeVars, fIn, fOut, mergeKopadVars
<1>12. Kept'
  BY <1>2, <1>3 DEF Kept, Formed, Unhashed, takeVars, fIn, fOut, expandVars
<1> QED BY <1>9, <1>10, <1>11, <1>12 DEF Flow

LEMMA MergePassKopadFlow ==
    ASSUME Kept, NEW r, NEW tk, NEW ok, NEW tm, NEW om, NEW tr, NEW os, Flow(r, tk, ok, tm, om, tr, os),
           MergePassKopad
    PROVE  Kept' /\ Flow(r, tk, ok, tm, om, tr, os)'
<1> DEFINE y == Start("msg", lens, keyLen, merged)  x == MsgStart(lens, merged)
<1>1. mpc = "pass_opad" /\ kopad2Strm' = Append(kopad2Strm, mkopad) /\ mpc' = "msg_words"
  BY DEF MergePassKopad, Put
<1>2. UNCHANGED <<keyLen, lens, expandVars, kpadVars, merged, mi, kipad, mkopad, msgRead,
                  mergeKopadVars, takeVars, flight, opc, fIn, fOut, padStrms>>
  BY DEF MergePassKopad
<1>3. IsCall(lens, keyLen) /\ Formed /\ Unhashed
  BY DEF Kept
<1>4. /\ Len(lens) \in Nat /\ merged \in 0..Len(lens) /\ merged \in 1..Len(lens) /\ merged > 0 /\ mi = 0
      /\ msgRead = MRead(lens, merged, mpc, mi) /\ mkopad = Pads(keyLen, "5c")[merged]
  BY <1>1, <1>3 DEF Flow, PadFlow, MAt, IsCall
<1>5. y \in Nat /\ x \in Nat /\ PadWords \in Nat /\ Words(lens[merged]) \in Nat
  BY <1>3, <1>4, MsgSizes
<1>6. MKopad2s(merged, mpc) = merged - 1 /\ MKopad2s(merged, mpc') = merged
  BY <1>1 DEF MKopad2s
<1>7. Window(kopad2Strm', Pads(keyLen, "5c"), RKopads(r, rpc), merged)
  <2>1. Window(kopad2Strm, Pads(keyLen, "5c"), RKopads(r, rpc), merged - 1)
    BY <1>6 DEF Flow, PadFlow
  <2>2. (merged - 1) + 1 = merged
    BY <1>4
  <2> QED BY <1>1, <1>4, <2>1, <2>2, WindowWrite
<1>8. /\ MKipads(merged, mpc') = MKipads(merged, mpc) /\ MKopads(merged, mpc') = MKopads(merged, mpc)
      /\ MPadFlags(merged, mpc') = MPadFlags(merged, mpc) /\ MFlags(merged, mpc') = MFlags(merged, mpc)
  BY <1>1 DEF MKipads, MKopads, MPadFlags, MFlags
<1>9. MData(lens, keyLen, merged, mpc', mi) = MData(lens, keyLen, merged, mpc, mi)
  <2>1. MData(lens, keyLen, merged, mpc', mi) = y + (PadWords + 0) /\ MData(lens, keyLen, merged, mpc, mi) = y + PadWords
    BY <1>1, <1>4 DEF MData
  <2> HIDE DEF y
  <2> QED BY <1>5, <2>1
<1>10. MRead(lens, merged, mpc', mi) = MRead(lens, merged, mpc, mi)
  <2>1. MRead(lens, merged, mpc', mi) = x + 0 /\ MRead(lens, merged, mpc, mi) = x
    BY <1>1, <1>4 DEF MRead
  <2> HIDE DEF x
  <2> QED BY <1>5, <2>1
<1>11. MAt(lens, keyLen, merged, mpc', mi, kipad, mkopad, msgRead)
  <2>1. mi \in 0..Words(lens[merged])
    BY <1>4, <1>5
  <2> QED BY <1>1, <1>4, <1>10, <2>1 DEF MAt
<1> HIDE DEF x, y
<1>12. PadFlow(r)'
  BY <1>2, <1>6, <1>7, <1>8, <1>11, MergeProcess DEF Flow, PadFlow, padStrms
<1>13. KeyFlow(tk, ok)' /\ ResFlow(tr, os, r)'
  BY <1>2, KeyStays, ResStays DEF Flow, Same, takeVars, fIn, fOut, expandVars, kpadVars, mergeKopadVars
<1>14. MsgFlow(tm, om, r)'
  BY <1>2, <1>8, <1>9, MsgStays DEF Flow, Same, takeVars, fIn, fOut, mergeKopadVars
<1>15. Kept'
  BY <1>2, <1>3 DEF Kept, Formed, Unhashed, takeVars, fIn, fOut, expandVars
<1> QED BY <1>12, <1>13, <1>14, <1>15 DEF Flow

LEMMA MergeMsgWordFlow ==
    ASSUME Kept, NEW r, NEW tk, NEW ok, NEW tm, NEW om, NEW tr, NEW os, Flow(r, tk, ok, tm, om, tr, os),
           MergeMsgWord
    PROVE  Kept' /\ Flow(r, tk, ok, tm, om, tr, os)'
<1> DEFINE m == merged  n == Words(lens[m])  y == Start("msg", lens, keyLen, m)  x == MsgStart(lens, m)
           j == PadWords + mi
<1>1. mpc = "msg_words"
  BY DEF MergeMsgWord
<1>2. UNCHANGED <<keyLen, lens, expandVars, kpadVars, merged, kipad, mkopad, mergeKopadVars,
                  takeVars, flight, opc, eIn, lenIn, fOut, padStrms, kopad2Strm>>
  BY DEF MergeMsgWord
<1>3. IsCall(lens, keyLen) /\ Formed /\ Unhashed
  BY DEF Kept
<1>4. /\ Len(lens) \in Nat /\ m \in 0..Len(lens) /\ m \in 1..Len(lens) /\ m > 0 /\ mi \in 0..n
      /\ msgRead = x + mi
  BY <1>1, <1>3 DEF Flow, PadFlow, MAt, MRead, IsCall
<1>5. /\ y \in Nat /\ x \in Nat /\ PadWords \in Nat \ {0} /\ n \in Nat
      /\ Start("msg", lens, keyLen, m + 1) = y + (PadWords + n) /\ MsgStart(lens, m + 1) = x + n
      /\ Words(LengthOf("msg", lens, keyLen, m)) = n + PadWords
  BY <1>3, <1>4, MsgSizes
<1>6. MData(lens, keyLen, m, mpc, mi) = y + j
  BY <1>1 DEF MData
<1>7. CASE mi < n
  <2>1. /\ dataIn' = [dataIn EXCEPT !["msg"] = Append(@, MsgStream[msgRead + 1])]
        /\ msgRead' = msgRead + 1 /\ mi' = mi + 1 /\ mpc' = mpc
    BY <1>7 DEF MergeMsgWord, MsgWords, PutAt
  <2>2. /\ OnUnits(dataIn') /\ dataIn'["msg"] = Append(dataIn["msg"], MsgStream[msgRead + 1])
        /\ dataIn'["key"] = dataIn["key"] /\ dataIn'["res"] = dataIn["res"]
    <3>1. OnUnits(dataIn)
      BY <1>3 DEF Formed
    <3>2. Changed(dataIn, dataIn', "msg", Append(dataIn["msg"], MsgStream[msgRead + 1]))
      BY <2>1, <3>1, UnitsAre, ExceptIs
    <3> QED BY <3>2, UnitsAre DEF Changed
  <2>3. MsgStream[msgRead + 1] = MsgWord(m, mi)
    <3> DEFINE w == mi + 1
    <3> HIDE DEF x, n, m
    <3>1. w \in 1..n /\ w - 1 = mi /\ msgRead + 1 = x + w
      BY <1>4, <1>5, <1>7
    <3> HIDE DEF w
    <3>2. MsgStream[x + w] = MsgWord(m, w - 1)
      BY <1>3, <1>4, <3>1, MsgStreamIs DEF x, n
    <3> QED BY <3>1, <3>2
  <2>4. Data("msg", lens, keyLen)[(y + j) + 1] = MsgWord(m, mi) /\ y + (j + 1) = (y + j) + 1
    <3> DEFINE w == j + 1
    <3> HIDE DEF y, x, n, m
    <3>1. w \in 1..n + PadWords /\ w - PadWords - 1 = mi /\ ~(w <= PadWords) /\ (y + j) + 1 = y + w
      BY <1>4, <1>5, <1>7
    <3> HIDE DEF w, j
    <3>2. w \in 1..Words(LengthOf("msg", lens, keyLen, m))
      BY <1>5, <3>1
    <3>3. Data("msg", lens, keyLen)[y + w] = WordOf("msg", lens, keyLen, m, w)
      BY <1>3, <1>4, <3>2, UnitsAre, DataIs DEF y
    <3>4. WordOf("msg", lens, keyLen, m, w) = MsgWord(m, mi)
      <4>1. WordOf("msg", lens, keyLen, m, w) = MsgWord(m, w - PadWords - 1)
        BY <3>1 DEF WordOf, InnerWord
      <4> QED BY <3>1, <4>1
    <3> QED BY <3>1, <3>3, <3>4 DEF w
  <2>5. MData(lens, keyLen, m, mpc', mi') = y + (j + 1) /\ MRead(lens, m, mpc', mi') = msgRead'
    <3>1. MData(lens, keyLen, m, mpc', mi') = y + (PadWords + (mi + 1)) /\ MRead(lens, m, mpc', mi') = x + (mi + 1)
      BY <1>1, <2>1 DEF MData, MRead
    <3> HIDE DEF y, x, n, m
    <3> QED BY <1>4, <1>5, <2>1, <3>1
  <2>6. Window(dataIn'["msg"], Data("msg", lens, keyLen), TData("msg", lens, keyLen, tm, fpc["msg"], facc["msg"]), y + (j + 1))
    <3>1. Window(dataIn["msg"], Data("msg", lens, keyLen), TData("msg", lens, keyLen, tm, fpc["msg"], facc["msg"]), y + j)
      BY <1>6 DEF Flow, MsgFlow
    <3> HIDE DEF y, j, m
    <3> QED BY <2>2, <2>3, <2>4, <3>1, WindowWrite
  <2>7. MAt(lens, keyLen, m, mpc', mi', kipad, mkopad, msgRead')
    <3>1. mi' \in 0..n
      <4> HIDE DEF n
      <4> QED BY <1>4, <1>5, <1>7, <2>1
    <3> QED BY <1>1, <1>4, <2>1, <2>5, <3>1 DEF MAt
  <2> HIDE DEF y, x, n, j
  <2>8. PadFlow(r)'
    BY <1>2, <2>1, <2>7, MergeProcess DEF Flow, PadFlow, padStrms
  <2>9. KeyFlow(tk, ok)' /\ ResFlow(tr, os, r)'
    BY <1>2, <2>2, KeyStays, ResStays DEF Flow, Same, takeVars, fOut, expandVars, kpadVars, mergeKopadVars
  <2>10. MsgFlow(tm, om, r)'
    BY <1>2, <2>1, <2>5, <2>6 DEF Flow, MsgFlow, UnitFlow, takeVars, fOut, mergeKopadVars
  <2>11. Kept'
    BY <1>2, <1>3, <2>2 DEF Kept, Formed, Unhashed, takeVars, fOut, expandVars
  <2> QED BY <2>8, <2>9, <2>10, <2>11 DEF Flow
<1>8. CASE ~(mi < n)
  <2>1. mpc' = "e" /\ UNCHANGED <<mi, msgRead, dataIn>>
    BY <1>8 DEF MergeMsgWord, MsgWords
  <2>2. mi = n
    <3> HIDE DEF n
    <3> QED BY <1>4, <1>5, <1>8
  <2>3. MData(lens, keyLen, m, mpc', mi) = MData(lens, keyLen, m, mpc, mi)
    BY <1>5, <1>6, <2>1, <2>2 DEF MData
  <2>4. MRead(lens, m, mpc', mi) = msgRead
    BY <1>4, <1>5, <2>1, <2>2 DEF MRead
  <2>5. /\ MKipads(m, mpc') = MKipads(m, mpc) /\ MKopads(m, mpc') = MKopads(m, mpc)
        /\ MPadFlags(m, mpc') = MPadFlags(m, mpc) /\ MKopad2s(m, mpc') = MKopad2s(m, mpc)
        /\ MFlags(m, mpc') = MFlags(m, mpc)
    BY <1>1, <2>1 DEF MKipads, MKopads, MPadFlags, MKopad2s, MFlags
  <2>6. MAt(lens, keyLen, m, mpc', mi, kipad, mkopad, msgRead)
    BY <1>4, <2>1, <2>4 DEF MAt
  <2> HIDE DEF y, x, n, j
  <2>7. PadFlow(r)'
    BY <1>2, <2>1, <2>5, <2>6, MergeProcess DEF Flow, PadFlow, padStrms
  <2>8. KeyFlow(tk, ok)' /\ ResFlow(tr, os, r)'
    BY <1>2, <2>1, KeyStays, ResStays DEF Flow, Same, takeVars, fOut, fIn, expandVars, kpadVars, mergeKopadVars
  <2>9. MsgFlow(tm, om, r)'
    BY <1>2, <2>1, <2>3, <2>5, MsgStays DEF Flow, Same, takeVars, fOut, fIn, mergeKopadVars
  <2>10. Kept'
    BY <1>2, <1>3, <2>1 DEF Kept, Formed, Unhashed, takeVars, fOut, expandVars
  <2> QED BY <2>7, <2>8, <2>9, <2>10 DEF Flow
<1> QED BY <1>7, <1>8

-----------------------------------------------------------------------------
(* mergeKopad *)

\* mergeKopad's steps leave the other processes alone.
LEMMA ResProcess ==
    ASSUME NEW r, NEW r1, PadFlow(r), UNCHANGED <<keyLen, lens, expandVars, kpadVars, mergeKipadVars, padStrms>>,
           RAt(lens, keyLen, r1, rpc', ri', kopad', msgHash'),
           Window(kopad2Strm', Pads(keyLen, "5c"), RKopads(r1, rpc'), MKopad2s(merged, mpc))
    PROVE  PadFlow(r1)'
BY DEF PadFlow, expandVars, kpadVars, mergeKipadVars, padStrms

\* The words of message m as the hash of the results sees it.
LEMMA ResSizes ==
    ASSUME NEW ls, NEW kl, IsCall(ls, kl), NEW m \in 1..Len(ls)
    PROVE  /\ LengthOf("res", ls, kl, m) = blockSize + HashBytes /\ m \in DOMAIN ls
           /\ Words(LengthOf("res", ls, kl, m)) = PadWords + Words(HashBytes)
           /\ PadWords \in Nat \ {0} /\ Words(HashBytes) \in Nat \ {0}
           /\ Start("res", ls, kl, m) \in Nat
           /\ Start("res", ls, kl, m + 1) = Start("res", ls, kl, m) + (PadWords + Words(HashBytes))
<1>1. LengthOf("res", ls, kl, m) = blockSize + HashBytes /\ m \in DOMAIN ls
  BY DEF LengthOf, IsCall
<1>2. /\ Words(blockSize + HashBytes) = PadWords + Words(HashBytes)
      /\ PadWords \in Nat \ {0} /\ Words(HashBytes) \in Nat \ {0}
  BY PadSizes
<1>3. Counted("res", ls, kl, m)
  BY UnitsAre, CountsGrow
<1> QED BY <1>1, <1>2, <1>3 DEF Counted

LEMMA ResReadFlagFlow ==
    ASSUME Kept, NEW r, NEW tk, NEW ok, NEW tm, NEW om, NEW tr, NEW os, Flow(r, tk, ok, tm, om, tr, os),
           ResReadFlag
    PROVE  Kept' /\ Flow(r, tk, ok, tm, om, tr, os)'
<1>1. /\ rpc = "e" /\ eOut["msg"] # <<>> /\ eOut' = [eOut EXCEPT !["msg"] = Tail(@)]
      /\ rpc' = IF Head(eOut["msg"]) THEN "finish" ELSE "flag"
  BY DEF ResReadFlag, GetAt
<1>2. UNCHANGED <<keyLen, lens, expandVars, kpadVars, mergeKipadVars, ri, kopad, msgHash,
                  takeVars, flight, opc, fIn, hashOut, padStrms, kopad2Strm>>
  BY DEF ResReadFlag
<1>3. IsCall(lens, keyLen) /\ Formed /\ Unhashed
  BY DEF Kept
<1>4. r \in 0..Len(lens) /\ Len(lens) \in Nat
  <2>1. r \in 0..Len(lens)
    BY DEF Flow, PadFlow, RAt
  <2>2. Len(lens) \in Nat
    BY <1>3 DEF IsCall
  <2> QED BY <2>1, <2>2
<1>5. /\ OnUnits(eOut') /\ eOut'["msg"] = Tail(eOut["msg"])
      /\ eOut'["key"] = eOut["key"] /\ eOut'["res"] = eOut["res"]
  <2>1. OnUnits(eOut)
    BY <1>3 DEF Formed
  <2>2. Changed(eOut, eOut', "msg", Tail(eOut["msg"]))
    BY <1>1, <2>1, UnitsAre, ExceptIs
  <2> QED BY <2>2, UnitsAre DEF Changed
<1>6. RFlags(r, rpc) = r /\ RFlags(r, rpc') = r + 1
  BY <1>1 DEF RFlags
<1>7. /\ Head(eOut["msg"]) = Flags(lens)[r + 1]
      /\ Window(eOut'["msg"], Flags(lens), r + 1, OFlags(om, opc["msg"]))
  <2>1. Window(eOut["msg"], Flags(lens), r, OFlags(om, opc["msg"]))
    BY <1>6 DEF Flow, MsgFlow, UnitFlow
  <2> QED BY <1>1, <1>5, <2>1, WindowRead
<1>8. rpc' = IF r = Len(lens) THEN "finish" ELSE "flag"
  <2>1. Head(eOut["msg"]) = (r = Len(lens))
    BY <1>4, <1>7, FlagIs
  <2> QED BY <1>1, <2>1
<1>9. /\ RFlagsOut(r, rpc') = RFlagsOut(r, rpc) /\ RLens(r, rpc') = RLens(r, rpc)
      /\ RKopads(r, rpc') = RKopads(r, rpc) /\ RHashes(r, rpc') = RHashes(r, rpc)
      /\ RData(lens, keyLen, r, rpc', ri) = RData(lens, keyLen, r, rpc, ri)
  BY <1>1, <1>8 DEF RFlagsOut, RLens, RKopads, RHashes, RData
<1>10. RAt(lens, keyLen, r, rpc', ri, kopad, msgHash)
  <2>1. CASE r = Len(lens)
    <3>1. rpc' = "finish"
      BY <1>8, <2>1
    <3> QED BY <1>4, <2>1, <3>1 DEF RAt
  <2>2. CASE r # Len(lens)
    <3>1. rpc' = "flag" /\ r < Len(lens)
      BY <1>4, <1>8, <2>2
    <3> QED BY <1>4, <3>1 DEF RAt
  <2> QED BY <2>1, <2>2
<1>11. PadFlow(r)'
  BY <1>2, <1>9, <1>10, ResProcess DEF Flow, PadFlow
<1>12. KeyFlow(tk, ok)' /\ ResFlow(tr, os, r)'
  BY <1>2, <1>5, <1>9, KeyStays, ResStays DEF Flow, Same, takeVars, fIn, expandVars, kpadVars
<1>13. MsgFlow(tm, om, r)'
  BY <1>2, <1>6, <1>7, <1>9 DEF Flow, MsgFlow, UnitFlow, takeVars, fIn, mergeKipadVars
<1>14. Kept'
  BY <1>2, <1>3, <1>5 DEF Kept, Formed, Unhashed, takeVars, fIn, fOut, expandVars
<1> QED BY <1>11, <1>12, <1>13, <1>14 DEF Flow

LEMMA ResFlagFlow ==
    ASSUME Kept, NEW r, NEW tk, NEW ok, NEW tm, NEW om, NEW tr, NEW os, Flow(r, tk, ok, tm, om, tr, os),
           ResFlag
    PROVE  Kept' /\ Flow(r, tk, ok, tm, om, tr, os)'
<1>1. /\ rpc \in {"flag", "finish"} /\ eIn' = [eIn EXCEPT !["res"] = Append(@, rpc = "finish")]
      /\ rpc' = IF rpc = "finish" THEN "done" ELSE "len"
  BY DEF ResFlag, PutAt
<1>2. UNCHANGED <<keyLen, lens, expandVars, kpadVars, mergeKipadVars, ri, kopad, msgHash,
                  takeVars, flight, opc, lenIn, dataIn, fOut, padStrms, kopad2Strm>>
  BY DEF ResFlag
<1>3. IsCall(lens, keyLen) /\ Formed /\ Unhashed
  BY DEF Kept
<1>4. /\ r \in 0..Len(lens) /\ Len(lens) \in Nat
      /\ (rpc = "flag" => r < Len(lens)) /\ (rpc = "finish" => r = Len(lens))
  BY <1>1, <1>3 DEF Flow, PadFlow, RAt, IsCall
<1>5. /\ OnUnits(eIn') /\ eIn'["res"] = Append(eIn["res"], rpc = "finish")
      /\ eIn'["key"] = eIn["key"] /\ eIn'["msg"] = eIn["msg"]
  <2>1. OnUnits(eIn)
    BY <1>3 DEF Formed
  <2>2. Changed(eIn, eIn', "res", Append(eIn["res"], rpc = "finish"))
    BY <1>1, <2>1, UnitsAre, ExceptIs
  <2> QED BY <2>2, UnitsAre DEF Changed
<1>6. RFlagsOut(r, rpc) = r /\ RFlagsOut(r, rpc') = r + 1
  BY <1>1 DEF RFlagsOut
<1>7. Window(eIn'["res"], Flags(lens), TFlags(tr, fpc["res"]), r + 1)
  <2>1. Window(eIn["res"], Flags(lens), TFlags(tr, fpc["res"]), r)
    BY <1>6 DEF Flow, ResFlow, UnitFlow
  <2>2. r \in Nat /\ (r = Len(lens)) = (rpc = "finish")
    BY <1>1, <1>4
  <2>3. Flags(lens)[r + 1] = (rpc = "finish")
    <3>1. Flags(lens)[r + 1] = (r = Len(lens))
      BY <1>4, <2>2, FlagIs
    <3> QED BY <2>2, <3>1, Zenon
  <2> QED BY <1>5, <2>1, <2>3, WindowWrite
<1>8. /\ RFlags(r, rpc') = RFlags(r, rpc) /\ RLens(r, rpc') = RLens(r, rpc)
      /\ RKopads(r, rpc') = RKopads(r, rpc) /\ RHashes(r, rpc') = RHashes(r, rpc)
      /\ RData(lens, keyLen, r, rpc', ri) = RData(lens, keyLen, r, rpc, ri)
  BY <1>1 DEF RFlags, RLens, RKopads, RHashes, RData
<1>9. RAt(lens, keyLen, r, rpc', ri, kopad, msgHash)
  BY <1>1, <1>4 DEF RAt
<1>10. PadFlow(r)'
  BY <1>2, <1>8, <1>9, ResProcess DEF Flow, PadFlow
<1>11. KeyFlow(tk, ok)' /\ MsgFlow(tm, om, r)'
  BY <1>2, <1>5, <1>8, KeyStays, MsgStays DEF Flow, Same, takeVars, fOut, expandVars, kpadVars, mergeKipadVars
<1>12. ResFlow(tr, os, r)'
  BY <1>2, <1>6, <1>7, <1>8 DEF Flow, ResFlow, UnitFlow, takeVars, fOut
<1>13. Kept'
  BY <1>2, <1>3, <1>5 DEF Kept, Formed, Unhashed, takeVars, fIn, fOut, expandVars
<1> QED BY <1>10, <1>11, <1>12, <1>13 DEF Flow

LEMMA ResLenFlow ==
    ASSUME Kept, NEW r, NEW tk, NEW ok, NEW tm, NEW om, NEW tr, NEW os, Flow(r, tk, ok, tm, om, tr, os),
           ResLen
    PROVE  Kept' /\ Flow(r, tk, ok, tm, om, tr, os)'
<1>1. /\ rpc = "len" /\ lenIn' = [lenIn EXCEPT !["res"] = Append(@, blockSize + HashBytes)] /\ rpc' = "opad"
  BY DEF ResLen, PutAt
<1>2. UNCHANGED <<keyLen, lens, expandVars, kpadVars, mergeKipadVars, ri, kopad, msgHash,
                  takeVars, flight, opc, eIn, dataIn, fOut, padStrms, kopad2Strm>>
  BY DEF ResLen
<1>3. IsCall(lens, keyLen) /\ Formed /\ Unhashed
  BY DEF Kept
<1>4. r \in 0..Len(lens) /\ Len(lens) \in Nat /\ r < Len(lens) /\ r + 1 \in 1..Len(lens)
  BY <1>1, <1>3 DEF Flow, PadFlow, RAt, IsCall
<1>5. /\ OnUnits(lenIn') /\ lenIn'["res"] = Append(lenIn["res"], blockSize + HashBytes)
      /\ lenIn'["key"] = lenIn["key"] /\ lenIn'["msg"] = lenIn["msg"]
  <2>1. OnUnits(lenIn)
    BY <1>3 DEF Formed
  <2>2. Changed(lenIn, lenIn', "res", Append(lenIn["res"], blockSize + HashBytes))
    BY <1>1, <2>1, UnitsAre, ExceptIs
  <2> QED BY <2>2, UnitsAre DEF Changed
<1>6. RLens(r, rpc) = r /\ RLens(r, rpc') = r + 1
  BY <1>1 DEF RLens
<1>7. Window(lenIn'["res"], Lengths("res", lens, keyLen), TLens(tr, fpc["res"]), r + 1)
  <2>1. Window(lenIn["res"], Lengths("res", lens, keyLen), TLens(tr, fpc["res"]), r)
    BY <1>6 DEF Flow, ResFlow, UnitFlow
  <2>2. Lengths("res", lens, keyLen)[r + 1] = blockSize + HashBytes
    BY <1>3, <1>4, ResSizes DEF Lengths
  <2> QED BY <1>5, <2>1, <2>2, WindowWrite
<1>8. /\ RFlags(r, rpc') = RFlags(r, rpc) /\ RFlagsOut(r, rpc') = RFlagsOut(r, rpc)
      /\ RKopads(r, rpc') = RKopads(r, rpc) /\ RHashes(r, rpc') = RHashes(r, rpc)
      /\ RData(lens, keyLen, r, rpc', ri) = RData(lens, keyLen, r, rpc, ri)
  BY <1>1 DEF RFlags, RFlagsOut, RKopads, RHashes, RData
<1>9. RAt(lens, keyLen, r, rpc', ri, kopad, msgHash)
  BY <1>1, <1>4 DEF RAt
<1>10. PadFlow(r)'
  BY <1>2, <1>8, <1>9, ResProcess DEF Flow, PadFlow
<1>11. KeyFlow(tk, ok)' /\ MsgFlow(tm, om, r)'
  BY <1>2, <1>5, <1>8, KeyStays, MsgStays DEF Flow, Same, takeVars, fOut, expandVars, kpadVars, mergeKipadVars
<1>12. ResFlow(tr, os, r)'
  BY <1>2, <1>6, <1>7, <1>8 DEF Flow, ResFlow, UnitFlow, takeVars, fOut
<1>13. Kept'
  BY <1>2, <1>3, <1>5 DEF Kept, Formed, Unhashed, takeVars, fIn, fOut, expandVars
<1> QED BY <1>10, <1>11, <1>12, <1>13 DEF Flow

LEMMA ResReadKopadFlow ==
    ASSUME Kept, NEW r, NEW tk, NEW ok, NEW tm, NEW om, NEW tr, NEW os, Flow(r, tk, ok, tm, om, tr, os),
           ResReadKopad
    PROVE  Kept' /\ Flow(r, tk, ok, tm, om, tr, os)'
<1>1. rpc = "opad" /\ kopad2Strm # <<>> /\ kopad2Strm' = Tail(kopad2Strm) /\ kopad' = Head(kopad2Strm) /\ rpc' = "hash"
  BY DEF ResReadKopad, Get
<1>2. UNCHANGED <<keyLen, lens, expandVars, kpadVars, mergeKipadVars, ri, msgHash,
                  takeVars, flight, opc, fIn, fOut, padStrms>>
  BY DEF ResReadKopad
<1>3. IsCall(lens, keyLen) /\ Formed /\ Unhashed
  BY DEF Kept
<1>4. r \in 0..Len(lens) /\ Len(lens) \in Nat /\ r < Len(lens)
  BY <1>1, <1>3 DEF Flow, PadFlow, RAt, IsCall
<1>5. RKopads(r, rpc) = r /\ RKopads(r, rpc') = r + 1
  BY <1>1 DEF RKopads
<1>6. kopad' = Pads(keyLen, "5c")[r + 1] /\ Window(kopad2Strm', Pads(keyLen, "5c"), r + 1, MKopad2s(merged, mpc))
  <2>1. Window(kopad2Strm, Pads(keyLen, "5c"), r, MKopad2s(merged, mpc))
    BY <1>5 DEF Flow, PadFlow
  <2> QED BY <1>1, <2>1, WindowRead
<1>7. /\ RFlags(r, rpc') = RFlags(r, rpc) /\ RFlagsOut(r, rpc') = RFlagsOut(r, rpc)
      /\ RLens(r, rpc') = RLens(r, rpc) /\ RHashes(r, rpc') = RHashes(r, rpc)
      /\ RData(lens, keyLen, r, rpc', ri) = RData(lens, keyLen, r, rpc, ri)
  BY <1>1 DEF RFlags, RFlagsOut, RLens, RHashes, RData
<1>8. RAt(lens, keyLen, r, rpc', ri, kopad', msgHash)
  BY <1>1, <1>4, <1>6 DEF RAt
<1>9. PadFlow(r)'
  BY <1>2, <1>5, <1>6, <1>8, ResProcess DEF Flow, PadFlow
<1>10. KeyFlow(tk, ok)' /\ MsgFlow(tm, om, r)' /\ ResFlow(tr, os, r)'
  BY <1>2, <1>7, KeyStays, MsgStays, ResStays
     DEF Flow, Same, takeVars, fIn, fOut, expandVars, kpadVars, mergeKipadVars
<1>11. Kept'
  BY <1>2, <1>3 DEF Kept, Formed, Unhashed, takeVars, fIn, fOut, expandVars
<1> QED BY <1>9, <1>10, <1>11 DEF Flow

LEMMA ResReadHashFlow ==
    ASSUME Kept, NEW r, NEW tk, NEW ok, NEW tm, NEW om, NEW tr, NEW os, Flow(r, tk, ok, tm, om, tr, os),
           ResReadHash
    PROVE  Kept' /\ Flow(r, tk, ok, tm, om, tr, os)'
<1> DEFINE y == Start("res", lens, keyLen, r + 1)
<1>1. /\ rpc = "hash" /\ hashOut["msg"] # <<>> /\ hashOut' = [hashOut EXCEPT !["msg"] = Tail(@)]
      /\ msgHash' = Head(hashOut["msg"]) /\ ri' = 0 /\ rpc' = "words"
  BY DEF ResReadHash, GetAt
<1>2. UNCHANGED <<keyLen, lens, expandVars, kpadVars, mergeKipadVars, kopad,
                  takeVars, flight, opc, fIn, eOut, padStrms, kopad2Strm>>
  BY DEF ResReadHash
<1>3. IsCall(lens, keyLen) /\ Formed /\ Unhashed
  BY DEF Kept
<1>4. /\ r \in 0..Len(lens) /\ Len(lens) \in Nat /\ r < Len(lens) /\ r + 1 \in 1..Len(lens) /\ r + 1 \in Nat
      /\ kopad = Pads(keyLen, "5c")[r + 1]
  BY <1>1, <1>3 DEF Flow, PadFlow, RAt, IsCall
<1>5. /\ OnUnits(hashOut') /\ hashOut'["msg"] = Tail(hashOut["msg"])
      /\ hashOut'["key"] = hashOut["key"] /\ hashOut'["res"] = hashOut["res"]
  <2>1. OnUnits(hashOut)
    BY <1>3 DEF Formed
  <2>2. Changed(hashOut, hashOut', "msg", Tail(hashOut["msg"]))
    BY <1>1, <2>1, UnitsAre, ExceptIs
  <2> QED BY <2>2, UnitsAre DEF Changed
<1>6. RHashes(r, rpc) = r /\ RHashes(r, rpc') = r + 1
  BY <1>1 DEF RHashes
<1>7. /\ msgHash' = InnerDigest(lens, keyLen, r + 1)
      /\ Window(hashOut'["msg"], Digests("msg", lens, keyLen), r + 1, om)
  <2>1. Window(hashOut["msg"], Digests("msg", lens, keyLen), r, om)
    BY <1>6 DEF Flow, MsgFlow, UnitFlow
  <2>2. Digests("msg", lens, keyLen)[r + 1] = InnerDigest(lens, keyLen, r + 1)
    BY <1>4 DEF Digests, DigestOf, InnerDigest, WordOf
  <2> QED BY <1>1, <1>5, <2>1, <2>2, WindowRead
<1>8. /\ RFlags(r, rpc') = RFlags(r, rpc) /\ RFlagsOut(r, rpc') = RFlagsOut(r, rpc)
      /\ RLens(r, rpc') = RLens(r, rpc) /\ RKopads(r, rpc') = RKopads(r, rpc)
  BY <1>1 DEF RFlags, RFlagsOut, RLens, RKopads
<1>9. y \in Nat /\ PadWords \in Nat \ {0} /\ Words(HashBytes) \in Nat
  BY <1>3, <1>4, ResSizes
<1>10. RData(lens, keyLen, r, rpc', ri') = RData(lens, keyLen, r, rpc, ri)
  <2>1. RData(lens, keyLen, r, rpc', ri') = y + 0 /\ RData(lens, keyLen, r, rpc, ri) = y
    BY <1>1 DEF RData
  <2> HIDE DEF y
  <2> QED BY <1>9, <2>1
<1>11. RAt(lens, keyLen, r, rpc', ri', kopad, msgHash')
  <2>1. kopad = Shifts(Pads(keyLen, "5c")[r + 1], ri')
    <3>1. Shifts(Pads(keyLen, "5c")[r + 1], 0) = Pads(keyLen, "5c")[r + 1]
      BY <1>4, NotShifted
    <3> QED BY <1>1, <1>4, <3>1
  <2>2. ri' \in 0..(PadWords + Words(HashBytes)) - 1
    BY <1>1, <1>9
  <2> QED BY <1>1, <1>4, <1>7, <2>1, <2>2 DEF RAt
<1> HIDE DEF y
<1>12. PadFlow(r)'
  BY <1>2, <1>8, <1>11, ResProcess DEF Flow, PadFlow
<1>13. KeyFlow(tk, ok)' /\ ResFlow(tr, os, r)'
  BY <1>2, <1>5, <1>8, <1>10, KeyStays, ResStays DEF Flow, Same, takeVars, fIn, expandVars, kpadVars
<1>14. MsgFlow(tm, om, r)'
  BY <1>2, <1>6, <1>7, <1>8 DEF Flow, MsgFlow, UnitFlow, takeVars, fIn, mergeKipadVars
<1>15. Kept'
  BY <1>2, <1>3, <1>5 DEF Kept, Formed, Unhashed, takeVars, fIn, fOut, expandVars
<1> QED BY <1>12, <1>13, <1>14, <1>15 DEF Flow

LEMMA ResWordFlow ==
    ASSUME Kept, NEW r, NEW tk, NEW ok, NEW tm, NEW om, NEW tr, NEW os, Flow(r, tk, ok, tm, om, tr, os),
           ResWord
    PROVE  Kept' /\ \E r1 : Flow(r1, tk, ok, tm, om, tr, os)'
<1> DEFINE m == r + 1  y == Start("res", lens, keyLen, m)  i == ri + 1  n == PadWords + Words(HashBytes)
           x == IF ri < PadWords THEN TopWord(kopad) ELSE HashWord(msgHash, ri - PadWords)
<1>1. /\ rpc = "words" /\ dataIn' = [dataIn EXCEPT !["res"] = Append(@, x)]
      /\ kopad' = ShiftWord(kopad)
      /\ IF i < n THEN ri' = i /\ rpc' = rpc ELSE ri' = 0 /\ rpc' = "e"
  BY DEF ResWord, PutAt, PadWords
<1>2. UNCHANGED <<keyLen, lens, expandVars, kpadVars, mergeKipadVars, msgHash,
                  takeVars, flight, opc, eIn, lenIn, fOut, padStrms, kopad2Strm>>
  BY DEF ResWord
<1>3. IsCall(lens, keyLen) /\ Formed /\ Unhashed
  BY DEF Kept
<1>4. /\ r \in 0..Len(lens) /\ Len(lens) \in Nat /\ r < Len(lens) /\ m \in 1..Len(lens) /\ m \in Nat
      /\ m \in 0..Len(lens)
      /\ ri \in 0..n - 1 /\ kopad = Shifts(Pads(keyLen, "5c")[m], ri) /\ msgHash = InnerDigest(lens, keyLen, m)
  BY <1>1, <1>3 DEF Flow, PadFlow, RAt, IsCall
<1> HIDE DEF x
<1>5. /\ y \in Nat /\ PadWords \in Nat \ {0} /\ n \in Nat \ {0} /\ Start("res", lens, keyLen, m + 1) = y + n
      /\ Words(LengthOf("res", lens, keyLen, m)) = n
  <2> HIDE DEF m
  <2> QED BY <1>3, <1>4, ResSizes
<1>6. i \in 1..n /\ y + i = (y + ri) + 1 /\ ri \in Nat
  <2> HIDE DEF y, n
  <2> QED BY <1>4, <1>5
<1>7. /\ OnUnits(dataIn') /\ dataIn'["res"] = Append(dataIn["res"], x)
      /\ dataIn'["key"] = dataIn["key"] /\ dataIn'["msg"] = dataIn["msg"]
  <2>1. OnUnits(dataIn)
    BY <1>3 DEF Formed
  <2>2. Changed(dataIn, dataIn', "res", Append(dataIn["res"], x))
    BY <1>1, <2>1, UnitsAre, ExceptIs
  <2> QED BY <2>2, UnitsAre DEF Changed
<1>8. Data("res", lens, keyLen)[y + i] = x
  <2>1. Data("res", lens, keyLen)[y + i] = WordOf("res", lens, keyLen, m, i)
    <3> HIDE DEF i, m
    <3> QED BY <1>3, <1>4, <1>5, <1>6, UnitsAre, DataIs
  <2>2. WordOf("res", lens, keyLen, m, i) = OuterWord(lens, keyLen, m, i)
    BY DEF WordOf
  <2>3. CASE ri < PadWords
    <3>1. x = PadWord(keyLen, m, "5c", i)
      <4>1. ri \in 0..PadWords - 1
        BY <1>5, <1>6, <2>3
      <4>2. TopWord(kopad) = PadWord(keyLen, m, "5c", i)
        <5> HIDE DEF m
        <5> QED BY <1>4, <4>1, TopOfPad
      <4> QED BY <2>3, <4>2 DEF x
    <3>2. i <= PadWords
      BY <1>5, <1>6, <2>3
    <3>3. OuterWord(lens, keyLen, m, i) = PadWord(keyLen, m, "5c", i)
      <4> HIDE DEF i, m
      <4> QED BY <3>2 DEF OuterWord
    <3> QED BY <2>1, <2>2, <3>1, <3>3
  <2>4. CASE ~(ri < PadWords)
    <3>1. x = HashWord(InnerDigest(lens, keyLen, m), ri - PadWords)
      BY <1>4, <2>4 DEF x
    <3>2. ~(i <= PadWords) /\ i - PadWords - 1 = ri - PadWords
      BY <1>5, <1>6, <2>4
    <3>3. OuterWord(lens, keyLen, m, i) = HashWord(InnerDigest(lens, keyLen, m), i - PadWords - 1)
      <4> HIDE DEF i, m
      <4> QED BY <3>2 DEF OuterWord
    <3> QED BY <2>1, <2>2, <3>1, <3>2, <3>3
  <2> QED BY <2>3, <2>4
<1>9. RData(lens, keyLen, r, rpc, ri) = y + ri
  BY <1>1 DEF RData
<1>10. Window(dataIn'["res"], Data("res", lens, keyLen), TData("res", lens, keyLen, tr, fpc["res"], facc["res"]), y + i)
  <2>1. Window(dataIn["res"], Data("res", lens, keyLen), TData("res", lens, keyLen, tr, fpc["res"], facc["res"]), y + ri)
    BY <1>9 DEF Flow, ResFlow
  <2> HIDE DEF y, i
  <2> QED BY <1>6, <1>7, <1>8, <2>1, WindowWrite
<1>11. PICK r1 : r1 = IF i < n THEN r ELSE r + 1
  OBVIOUS
<1>12. /\ RFlags(r1, rpc') = RFlags(r, rpc) /\ RFlagsOut(r1, rpc') = RFlagsOut(r, rpc)
       /\ RLens(r1, rpc') = RLens(r, rpc) /\ RKopads(r1, rpc') = RKopads(r, rpc)
       /\ RHashes(r1, rpc') = RHashes(r, rpc)
  <2> HIDE DEF i, n
  <2>1. CASE i < n
    BY <1>1, <1>11, <2>1
  <2>2. CASE ~(i < n)
    BY <1>1, <1>11, <2>2 DEF RFlags, RFlagsOut, RLens, RKopads, RHashes
  <2> QED BY <2>1, <2>2
<1>13. RData(lens, keyLen, r1, rpc', ri') = y + i
  <2>1. CASE i < n
    <3> HIDE DEF i, n
    <3> QED BY <1>1, <1>11, <2>1 DEF RData
  <2>2. CASE ~(i < n)
    <3>1. i = n
      <4> HIDE DEF n
      <4> QED BY <1>5, <1>6, <2>2
    <3>2. rpc' = "e" /\ r1 = m
      BY <1>1, <1>11, <2>2
    <3>3. RData(lens, keyLen, r1, rpc', ri') = Start("res", lens, keyLen, m + 1)
      <4> HIDE DEF m
      <4> QED BY <3>2 DEF RData
    <3> HIDE DEF i, n, m, y
    <3> QED BY <1>5, <3>1, <3>3
  <2> QED BY <2>1, <2>2
<1>14. RAt(lens, keyLen, r1, rpc', ri', kopad', msgHash)
  <2>1. CASE i < n
    <3>1. kopad' = Shifts(Pads(keyLen, "5c")[m], i)
      BY <1>1, <1>4, <1>6, ShiftOnce
    <3>2. ri' = i /\ rpc' = "words" /\ r1 = r
      BY <1>1, <1>11, <2>1
    <3>3. i \in 0..n - 1
      <4> HIDE DEF n
      <4> QED BY <1>5, <1>6, <2>1
    <3> HIDE DEF i
    <3> QED BY <1>4, <3>1, <3>2, <3>3 DEF RAt
  <2>2. CASE ~(i < n)
    <3>1. ri' = 0 /\ rpc' = "e" /\ r1 = m
      BY <1>1, <1>11, <2>2
    <3> HIDE DEF m
    <3> QED BY <1>4, <3>1 DEF RAt
  <2> QED BY <2>1, <2>2
<1> HIDE DEF y, i, n, m
<1>15. PadFlow(r1)'
  BY <1>2, <1>12, <1>14, ResProcess DEF Flow, PadFlow
<1>16. KeyFlow(tk, ok)' /\ MsgFlow(tm, om, r1)'
  BY <1>2, <1>7, <1>12, KeyStays, MsgStays DEF Flow, Same, takeVars, fOut, expandVars, kpadVars, mergeKipadVars
<1>17. ResFlow(tr, os, r1)'
  BY <1>2, <1>10, <1>12, <1>13 DEF Flow, ResFlow, UnitFlow, takeVars, fOut
<1>18. Kept'
  BY <1>2, <1>3, <1>7 DEF Kept, Formed, Unhashed, takeVars, fIn, fOut, expandVars
<1> QED BY <1>15, <1>16, <1>17, <1>18 DEF Flow

-----------------------------------------------------------------------------
(* The hash, in any unit *)

\* What a unit has left to read of the w words written for it.
Reads(u, ls, kl, t, w) == Window(dataIn[u], Data(u, ls, kl), TData(u, ls, kl, t, fpc[u], facc[u]), w)

LEMMA TakeFlagUnit ==
    ASSUME NEW u \in Units, NEW ls, NEW kl, IsCall(ls, kl), Formed, NEW t, NEW o, NEW a, NEW b, NEW c, NEW d, NEW w,
           UnitFlow(u, ls, kl, t, o, a, b, c, d), Reads(u, ls, kl, t, w), TakeFlag(u)
    PROVE  \E t1, o1 : UnitFlow(u, ls, kl, t1, o1, a, b, c, d)' /\ Reads(u, ls, kl, t1, w)'
<1>1. fpc[u] = "e" /\ eIn[u] # <<>> /\ eIn' = [eIn EXCEPT ![u] = Tail(@)]
  BY DEF TakeFlag, GetAt
<1>2. UNCHANGED <<flen, facc, opc, lenIn, dataIn, hashOut, eOut>>
  BY DEF TakeFlag, fOut
<1>3. t \in 0..Len(ls) /\ Len(ls) \in Nat
  BY CountsGrow DEF UnitFlow, TAt
<1>4. eIn'[u] = Tail(eIn[u])
  <2>1. OnUnits(eIn)
    BY DEF Formed
  <2>2. Changed(eIn, eIn', u, Tail(eIn[u]))
    BY <1>1, <2>1, ExceptIs
  <2> QED BY <2>2 DEF Changed
<1>5. Head(eIn[u]) = Flags(ls)[t + 1] /\ Window(eIn'[u], Flags(ls), t + 1, a)
  <2>1. Window(eIn[u], Flags(ls), t, a)
    BY <1>1 DEF UnitFlow, TFlags
  <2> QED BY <1>1, <1>4, <2>1, WindowNext
<1>6. Head(eIn[u]) = (t = Len(ls))
  BY <1>3, <1>5, FlagIs
<1>7. Window(flight[u], Flights(u, ls, kl), ODigests(o, opc[u]), t)
  BY <1>1 DEF UnitFlow, TDigests
<1>8. CASE t = Len(ls)
  <2>1. fpc' = [fpc EXCEPT ![u] = "done"] /\ flight' = [flight EXCEPT ![u] = Append(@, END)]
    BY <1>6, <1>8 DEF TakeFlag
  <2>2. fpc'[u] = "done"
    <3>1. OnUnits(fpc)
      BY DEF Formed
    <3>2. Changed(fpc, fpc', u, "done")
      BY <2>1, <3>1, ExceptIs
    <3> QED BY <3>2 DEF Changed
  <2>3. flight'[u] = Append(flight[u], END)
    <3>1. OnUnits(flight)
      BY DEF Formed
    <3>2. Changed(flight, flight', u, Append(flight[u], END))
      BY <2>1, <3>1, ExceptIs
    <3> QED BY <3>2 DEF Changed
  <2>4. Window(flight'[u], Flights(u, ls, kl), ODigests(o, opc[u]), t + 1)
    <3>1. Flights(u, ls, kl)[t + 1] = END
      BY <1>3, <1>8 DEF Flights
    <3> QED BY <1>7, <2>3, <3>1, WindowWrite
  <2>5. TAt(u, ls, kl, t, fpc'[u], flen[u], facc[u])
    BY <1>3, <1>8, <2>2 DEF TAt
  <2>6. /\ TFlags(t, fpc'[u]) = t + 1 /\ TLens(t, fpc'[u]) = TLens(t, fpc[u]) /\ TDigests(t, fpc'[u]) = t + 1
        /\ TData(u, ls, kl, t, fpc'[u], facc[u]) = TData(u, ls, kl, t, fpc[u], facc[u])
    BY <1>1, <2>2 DEF TFlags, TLens, TDigests, TData
  <2>7. UnitFlow(u, ls, kl, t, o, a, b, c, d)' /\ Reads(u, ls, kl, t, w)'
    BY <1>2, <1>5, <2>4, <2>5, <2>6 DEF UnitFlow, Reads
  <2> QED BY <2>7
<1>9. CASE t # Len(ls)
  <2>1. fpc' = [fpc EXCEPT ![u] = "len"] /\ flight' = flight
    BY <1>6, <1>9 DEF TakeFlag
  <2>2. fpc'[u] = "len"
    <3>1. OnUnits(fpc)
      BY DEF Formed
    <3>2. Changed(fpc, fpc', u, "len")
      BY <2>1, <3>1, ExceptIs
    <3> QED BY <3>2 DEF Changed
  <2>3. TAt(u, ls, kl, t, fpc'[u], flen[u], facc[u])
    BY <1>3, <1>9, <2>2 DEF TAt
  <2>4. /\ TFlags(t, fpc'[u]) = t + 1 /\ TLens(t, fpc'[u]) = TLens(t, fpc[u])
        /\ TDigests(t, fpc'[u]) = TDigests(t, fpc[u])
        /\ TData(u, ls, kl, t, fpc'[u], facc[u]) = TData(u, ls, kl, t, fpc[u], facc[u])
    BY <1>1, <2>2 DEF TFlags, TLens, TDigests, TData
  <2>5. UnitFlow(u, ls, kl, t, o, a, b, c, d)' /\ Reads(u, ls, kl, t, w)'
    BY <1>2, <1>5, <2>1, <2>3, <2>4 DEF UnitFlow, Reads
  <2> QED BY <2>5
<1> QED BY <1>8, <1>9

LEMMA TakeLenUnit ==
    ASSUME NEW u \in Units, NEW ls, NEW kl, IsCall(ls, kl), Formed, NEW t, NEW o, NEW a, NEW b, NEW c, NEW d, NEW w,
           UnitFlow(u, ls, kl, t, o, a, b, c, d), Reads(u, ls, kl, t, w), TakeLen(u)
    PROVE  \E t1, o1 : UnitFlow(u, ls, kl, t1, o1, a, b, c, d)' /\ Reads(u, ls, kl, t1, w)'
<1> DEFINE y == Start(u, ls, kl, t + 1)  n == LengthOf(u, ls, kl, t + 1)
<1>1. /\ fpc[u] = "len" /\ lenIn[u] # <<>> /\ lenIn' = [lenIn EXCEPT ![u] = Tail(@)]
      /\ flen' = [flen EXCEPT ![u] = Head(lenIn[u])] /\ facc' = [facc EXCEPT ![u] = <<>>]
      /\ fpc' = [fpc EXCEPT ![u] = "words"]
  BY DEF TakeLen, GetAt
<1>2. UNCHANGED <<flight, opc, eIn, dataIn, hashOut, eOut>>
  BY DEF TakeLen, fOut
<1>3. t \in 0..Len(ls) /\ Len(ls) \in Nat /\ t < Len(ls) /\ t + 1 \in DOMAIN ls /\ y \in Nat /\ Words(n) \in Nat
  <2>1. t \in 0..Len(ls) /\ t < Len(ls)
    BY <1>1 DEF UnitFlow, TAt
  <2>2. Len(ls) \in Nat /\ DOMAIN ls = 1..Len(ls)
    BY CountsGrow
  <2>3. t + 1 \in 1..Len(ls) /\ Counted(u, ls, kl, t + 1)
    BY <2>1, AtMessage
  <2> QED BY <2>1, <2>2, <2>3 DEF Counted
<1>4. lenIn'[u] = Tail(lenIn[u])
  <2>1. OnUnits(lenIn)
    BY DEF Formed
  <2>2. Changed(lenIn, lenIn', u, Tail(lenIn[u]))
    BY <1>1, <2>1, ExceptIs
  <2> QED BY <2>2 DEF Changed
<1>5. flen'[u] = Head(lenIn[u])
  <2>1. OnUnits(flen)
    BY DEF Formed
  <2>2. Changed(flen, flen', u, Head(lenIn[u]))
    BY <1>1, <2>1, ExceptIs
  <2> QED BY <2>2 DEF Changed
<1>6. facc'[u] = <<>>
  <2>1. OnUnits(facc)
    BY DEF Formed
  <2>2. Changed(facc, facc', u, <<>>)
    BY <1>1, <2>1, ExceptIs
  <2> QED BY <2>2 DEF Changed
<1>7. fpc'[u] = "words"
  <2>1. OnUnits(fpc)
    BY DEF Formed
  <2>2. Changed(fpc, fpc', u, "words")
    BY <1>1, <2>1, ExceptIs
  <2> QED BY <2>2 DEF Changed
<1>8. flen'[u] = n /\ Window(lenIn'[u], Lengths(u, ls, kl), t + 1, b)
  <2>1. Window(lenIn[u], Lengths(u, ls, kl), t, b)
    BY <1>1 DEF UnitFlow, TLens
  <2>2. Lengths(u, ls, kl)[t + 1] = n
    BY <1>3 DEF Lengths
  <2> HIDE DEF n
  <2>3. flen'[u] = Lengths(u, ls, kl)[t + 1] /\ Window(lenIn'[u], Lengths(u, ls, kl), t + 1, b)
    <3>1. lenIn[u] # <<>>
      BY <1>1
    <3>2. PICK f, h, g : f = lenIn[u] /\ h = flen'[u] /\ g = lenIn'[u]
      OBVIOUS
    <3>3. Window(f, Lengths(u, ls, kl), t, b) /\ f # <<>> /\ h = Head(f) /\ g = Tail(f)
      BY <1>4, <1>5, <2>1, <3>1, <3>2
    <3>4. h = Lengths(u, ls, kl)[t + 1] /\ Window(g, Lengths(u, ls, kl), t + 1, b)
      BY <3>3, WindowNext
    <3> QED BY <3>2, <3>4
  <2> QED BY <2>2, <2>3
<1>9. y + Len(facc'[u]) = y /\ Len(facc'[u]) = 0
  <2> HIDE DEF y
  <2> QED BY <1>3, <1>6
<1>10. TAt(u, ls, kl, t, fpc'[u], flen'[u], facc'[u])
  <2>1. Len(facc'[u]) \in 0..Words(flen'[u])
    <3> HIDE DEF n
    <3> QED BY <1>3, <1>8, <1>9
  <2>2. Window(facc'[u], Data(u, ls, kl), y, y + Len(facc'[u]))
    <3> HIDE DEF y
    <3> QED BY <1>3, <1>6, <1>9, WindowEmpty
  <2> QED BY <1>3, <1>7, <1>8, <2>1, <2>2 DEF TAt
<1>11. /\ TFlags(t, fpc'[u]) = TFlags(t, fpc[u]) /\ TLens(t, fpc'[u]) = t + 1
       /\ TDigests(t, fpc'[u]) = TDigests(t, fpc[u])
       /\ TData(u, ls, kl, t, fpc'[u], facc'[u]) = TData(u, ls, kl, t, fpc[u], facc[u])
  BY <1>1, <1>7, <1>9 DEF TFlags, TLens, TDigests, TData
<1> HIDE DEF y, n
<1>12. UnitFlow(u, ls, kl, t, o, a, b, c, d)' /\ Reads(u, ls, kl, t, w)'
  BY <1>2, <1>8, <1>10, <1>11 DEF UnitFlow, Reads
<1> QED BY <1>12

LEMMA TakeWordUnit ==
    ASSUME NEW u \in Units, NEW ls, NEW kl, IsCall(ls, kl), Formed, NEW t, NEW o, NEW a, NEW b, NEW c, NEW d, NEW w,
           UnitFlow(u, ls, kl, t, o, a, b, c, d), Reads(u, ls, kl, t, w), TakeWord(u)
    PROVE  \E t1, o1 : UnitFlow(u, ls, kl, t1, o1, a, b, c, d)' /\ Reads(u, ls, kl, t1, w)'
<1> DEFINE y == Start(u, ls, kl, t + 1)  n == Words(flen[u])  k == Len(facc[u])
<1>1. fpc[u] = "words"
  BY DEF TakeWord
<1>2. UNCHANGED <<flen, opc, eIn, lenIn, hashOut, eOut>>
  BY DEF TakeWord, fOut
<1>3. /\ t \in 0..Len(ls) /\ t < Len(ls) /\ flen[u] = LengthOf(u, ls, kl, t + 1) /\ k \in 0..n
      /\ Window(facc[u], Data(u, ls, kl), y, y + k)
  BY <1>1 DEF UnitFlow, TAt
<1>4. /\ Len(ls) \in Nat /\ t + 1 \in 1..Len(ls) /\ t + 1 \in 0..Len(ls) /\ y \in Nat /\ n \in Nat
      /\ Start(u, ls, kl, (t + 1) + 1) = y + n
  <2>1. Len(ls) \in Nat /\ t + 1 \in 1..Len(ls) /\ Counted(u, ls, kl, t + 1)
    BY <1>3, AtMessage
  <2> QED BY <1>3, <2>1 DEF Counted
<1>5. Window(dataIn[u], Data(u, ls, kl), y + k, w)
  BY <1>1 DEF Reads, TData
<1>6. CASE k < n
  <2>1. /\ dataIn[u] # <<>> /\ dataIn' = [dataIn EXCEPT ![u] = Tail(@)]
        /\ facc' = [facc EXCEPT ![u] = Append(@, Head(dataIn[u]))] /\ UNCHANGED <<fpc, flight>>
    BY <1>6 DEF TakeWord, GetAt
  <2>2. dataIn'[u] = Tail(dataIn[u])
    <3>1. OnUnits(dataIn)
      BY DEF Formed
    <3>2. Changed(dataIn, dataIn', u, Tail(dataIn[u]))
      BY <2>1, <3>1, ExceptIs
    <3> QED BY <3>2 DEF Changed
  <2>3. facc'[u] = Append(facc[u], Head(dataIn[u]))
    <3>1. OnUnits(facc)
      BY DEF Formed
    <3>2. Changed(facc, facc', u, Append(facc[u], Head(dataIn[u])))
      BY <2>1, <3>1, ExceptIs
    <3> QED BY <3>2 DEF Changed
  <2> HIDE DEF y, n, k
  <2>4. Head(dataIn[u]) = Data(u, ls, kl)[(y + k) + 1] /\ Window(dataIn'[u], Data(u, ls, kl), (y + k) + 1, w)
    <3> DEFINE f == dataIn[u]  S == Data(u, ls, kl)  r == y + k  g == dataIn'[u]
    <3>1. Window(f, S, r, w) /\ f # <<>> /\ g = Tail(f)
      BY <1>5, <2>1, <2>2
    <3> HIDE DEF f, S, r, g
    <3>2. Head(f) = S[r + 1] /\ Window(g, S, r + 1, w)
      BY <3>1, WindowNext
    <3> QED BY <3>2 DEF f, S, r, g
  <2>5. Window(facc'[u], Data(u, ls, kl), y, (y + k) + 1)
    BY <1>3, <2>3, <2>4, WindowWrite
  <2>6. Len(facc'[u]) = k + 1 /\ y + Len(facc'[u]) = (y + k) + 1 /\ Len(facc'[u]) \in 0..n
    <3>1. Len(facc'[u]) = ((y + k) + 1) - y
      BY <2>5, WindowLength
    <3> DEFINE l == Len(facc'[u])
    <3> HIDE DEF l
    <3>2. l = k + 1 /\ y + l = (y + k) + 1 /\ l \in 0..n
      BY <1>3, <1>4, <1>6, <3>1 DEF l
    <3> QED BY <3>2 DEF l
  <2>7. TAt(u, ls, kl, t, fpc[u], flen[u], facc'[u])
    BY <1>1, <1>3, <2>5, <2>6 DEF TAt, n, y
  <2>8. TData(u, ls, kl, t, fpc[u], facc'[u]) = (y + k) + 1
    BY <1>1, <2>6 DEF TData, y
  <2>9. UnitFlow(u, ls, kl, t, o, a, b, c, d)' /\ Reads(u, ls, kl, t, w)'
    BY <1>2, <2>1, <2>4, <2>7, <2>8 DEF UnitFlow, Reads
  <2> QED BY <2>9
<1>7. CASE ~(k < n)
  <2>1. /\ flight' = [flight EXCEPT ![u] = Append(@, Digest(flen[u], facc[u]))]
        /\ fpc' = [fpc EXCEPT ![u] = "e"] /\ UNCHANGED <<facc, dataIn>>
    BY <1>7 DEF TakeWord
  <2>2. flight'[u] = Append(flight[u], Digest(flen[u], facc[u]))
    <3>1. OnUnits(flight)
      BY DEF Formed
    <3>2. Changed(flight, flight', u, Append(flight[u], Digest(flen[u], facc[u])))
      BY <2>1, <3>1, ExceptIs
    <3> QED BY <3>2 DEF Changed
  <2>3. fpc'[u] = "e"
    <3>1. OnUnits(fpc)
      BY DEF Formed
    <3>2. Changed(fpc, fpc', u, "e")
      BY <2>1, <3>1, ExceptIs
    <3> QED BY <3>2 DEF Changed
  <2>4. k = n
    <3> HIDE DEF n, k
    <3> QED BY <1>3, <1>4, <1>7
  <2>5. Digest(flen[u], facc[u]) = DigestOf(u, ls, kl, t + 1)
    <3> DEFINE v == y + k
    <3>1. v = y + Words(LengthOf(u, ls, kl, t + 1))
      BY <1>3, <2>4
    <3>2. Window(facc[u], Data(u, ls, kl), y, v)
      BY <1>3
    <3> HIDE DEF v
    <3>3. Digest(LengthOf(u, ls, kl, t + 1), facc[u]) = DigestOf(u, ls, kl, t + 1)
      BY <1>4, <3>1, <3>2, DigestIs
    <3> QED BY <1>3, <3>3
  <2>6. Window(flight'[u], Flights(u, ls, kl), ODigests(o, opc[u]), t + 1)
    <3>1. Window(flight[u], Flights(u, ls, kl), ODigests(o, opc[u]), t)
      BY <1>1 DEF UnitFlow, TDigests
    <3>2. Flights(u, ls, kl)[t + 1] = DigestOf(u, ls, kl, t + 1)
      <4>1. t + 1 \in Nat /\ t + 1 # Len(ls) + 1
        BY <1>3, <1>4
      <4> QED BY <4>1 DEF Flights
    <3> QED BY <2>2, <2>5, <3>1, <3>2, WindowWrite
  <2>7. TAt(u, ls, kl, t + 1, fpc'[u], flen[u], facc[u])
    BY <1>4, <2>3 DEF TAt
  <2>8. TData(u, ls, kl, t + 1, fpc'[u], facc[u]) = y + k
    <3>1. TData(u, ls, kl, t + 1, fpc'[u], facc[u]) = Start(u, ls, kl, (t + 1) + 1)
      BY <2>3 DEF TData
    <3> QED BY <1>4, <2>4, <3>1
  <2>9. /\ TFlags(t + 1, fpc'[u]) = TFlags(t, fpc[u]) /\ TLens(t + 1, fpc'[u]) = TLens(t, fpc[u])
        /\ TDigests(t + 1, fpc'[u]) = t + 1
    BY <1>1, <2>3 DEF TFlags, TLens, TDigests
  <2> HIDE DEF y, k, n
  <2>10. UnitFlow(u, ls, kl, t + 1, o, a, b, c, d)' /\ Reads(u, ls, kl, t + 1, w)'
    BY <1>2, <1>5, <2>1, <2>6, <2>7, <2>8, <2>9 DEF UnitFlow, Reads
  <2> QED BY <2>10
<1> QED BY <1>6, <1>7

LEMMA PutHashUnit ==
    ASSUME NEW u \in Units, NEW ls, NEW kl, IsCall(ls, kl), Formed, NEW t, NEW o, NEW a, NEW b, NEW c, NEW d, NEW w,
           UnitFlow(u, ls, kl, t, o, a, b, c, d), Reads(u, ls, kl, t, w), PutHash(u)
    PROVE  \E t1, o1 : UnitFlow(u, ls, kl, t1, o1, a, b, c, d)' /\ Reads(u, ls, kl, t1, w)'
<1>1. /\ opc[u] = "hash" /\ flight[u] # <<>> /\ Head(flight[u]) # END
      /\ hashOut' = [hashOut EXCEPT ![u] = Append(@, Head(flight[u]))]
      /\ flight' = [flight EXCEPT ![u] = Tail(@)] /\ opc' = [opc EXCEPT ![u] = "flag"]
  BY DEF PutHash
<1>2. UNCHANGED <<takeVars, eIn, lenIn, dataIn, eOut>>
  BY DEF PutHash, fIn
<1>3. hashOut'[u] = Append(hashOut[u], Head(flight[u]))
  <2>1. OnUnits(hashOut)
    BY DEF Formed
  <2>2. Changed(hashOut, hashOut', u, Append(hashOut[u], Head(flight[u])))
    BY <1>1, <2>1, ExceptIs
  <2> QED BY <2>2 DEF Changed
<1>4. flight'[u] = Tail(flight[u])
  <2>1. OnUnits(flight)
    BY DEF Formed
  <2>2. Changed(flight, flight', u, Tail(flight[u]))
    BY <1>1, <2>1, ExceptIs
  <2> QED BY <2>2 DEF Changed
<1>5. opc'[u] = "flag"
  <2>1. OnUnits(opc)
    BY DEF Formed
  <2>2. Changed(opc, opc', u, "flag")
    BY <1>1, <2>1, ExceptIs
  <2> QED BY <2>2 DEF Changed
<1>6. /\ Head(flight[u]) = Flights(u, ls, kl)[o + 1]
      /\ Window(flight'[u], Flights(u, ls, kl), o + 1, TDigests(t, fpc[u]))
  <2>1. Window(flight[u], Flights(u, ls, kl), o, TDigests(t, fpc[u]))
    BY <1>1 DEF UnitFlow, ODigests
  <2> QED BY <1>1, <1>4, <2>1, WindowNext
<1>7. o \in 0..Len(ls) /\ Len(ls) \in Nat
  BY CountsGrow DEF UnitFlow, OAt
<1>8. Head(flight[u]) = DigestOf(u, ls, kl, o + 1) /\ o + 1 \in 0..Len(ls) /\ o + 1 > 0
  <2>1. Flights(u, ls, kl)[o + 1] = IF o + 1 = Len(ls) + 1 THEN END ELSE DigestOf(u, ls, kl, o + 1)
    BY <1>7 DEF Flights
  <2>2. o + 1 # Len(ls) + 1
    BY <1>1, <1>6, <2>1
  <2> QED BY <1>6, <1>7, <2>1, <2>2
<1>9. Window(hashOut'[u], Digests(u, ls, kl), c, o + 1)
  <2>1. Window(hashOut[u], Digests(u, ls, kl), c, o)
    BY DEF UnitFlow
  <2>2. Digests(u, ls, kl)[o + 1] = DigestOf(u, ls, kl, o + 1)
    BY <1>7 DEF Digests
  <2> QED BY <1>3, <1>8, <2>1, <2>2, WindowWrite
<1>10. OAt(ls, o + 1, opc'[u])
  BY <1>5, <1>8 DEF OAt
<1>11. ODigests(o + 1, opc'[u]) = o + 1 /\ OFlags(o + 1, opc'[u]) = OFlags(o, opc[u])
  BY <1>1, <1>5, <1>7 DEF ODigests, OFlags
<1>12. UnitFlow(u, ls, kl, t, o + 1, a, b, c, d)' /\ Reads(u, ls, kl, t, w)'
  BY <1>2, <1>6, <1>9, <1>10, <1>11 DEF UnitFlow, Reads, takeVars
<1> QED BY <1>12

LEMMA PutHashFlagUnit ==
    ASSUME NEW u \in Units, NEW ls, NEW kl, IsCall(ls, kl), Formed, NEW t, NEW o, NEW a, NEW b, NEW c, NEW d, NEW w,
           UnitFlow(u, ls, kl, t, o, a, b, c, d), Reads(u, ls, kl, t, w), PutHashFlag(u)
    PROVE  \E t1, o1 : UnitFlow(u, ls, kl, t1, o1, a, b, c, d)' /\ Reads(u, ls, kl, t1, w)'
<1>1. UNCHANGED <<takeVars, eIn, lenIn, dataIn, hashOut>>
  BY DEF PutHashFlag, fIn
<1>2. o \in 0..Len(ls) /\ Len(ls) \in Nat
  BY CountsGrow DEF UnitFlow, OAt
<1>3. CASE opc[u] = "flag"
  <2>1. opc' = [opc EXCEPT ![u] = "hash"] /\ eOut' = [eOut EXCEPT ![u] = Append(@, FALSE)] /\ flight' = flight
    BY <1>3 DEF PutHashFlag
  <2>2. opc'[u] = "hash"
    <3>1. OnUnits(opc)
      BY DEF Formed
    <3>2. Changed(opc, opc', u, "hash")
      BY <2>1, <3>1, ExceptIs
    <3> QED BY <3>2 DEF Changed
  <2>3. eOut'[u] = Append(eOut[u], FALSE)
    <3>1. OnUnits(eOut)
      BY DEF Formed
    <3>2. Changed(eOut, eOut', u, Append(eOut[u], FALSE))
      BY <2>1, <3>1, ExceptIs
    <3> QED BY <3>2 DEF Changed
  <2>4. o > 0
    BY <1>3 DEF UnitFlow, OAt
  <2>5. Window(eOut'[u], Flags(ls), d, o)
    <3>1. Window(eOut[u], Flags(ls), d, o - 1)
      BY <1>3 DEF UnitFlow, OFlags
    <3>2. o - 1 \in Nat /\ (o - 1) + 1 = o /\ o - 1 # Len(ls)
      BY <1>2, <2>4
    <3>3. Flags(ls)[(o - 1) + 1] = FALSE
      BY <1>2, <3>2, FlagIs
    <3> QED BY <2>3, <3>1, <3>2, <3>3, WindowWrite
  <2>6. OAt(ls, o, opc'[u]) /\ ODigests(o, opc'[u]) = ODigests(o, opc[u]) /\ OFlags(o, opc'[u]) = o
    BY <1>2, <1>3, <2>2 DEF OAt, ODigests, OFlags
  <2>7. UnitFlow(u, ls, kl, t, o, a, b, c, d)' /\ Reads(u, ls, kl, t, w)'
    BY <1>1, <2>1, <2>5, <2>6 DEF UnitFlow, Reads, takeVars
  <2> QED BY <2>7
<1>4. CASE opc[u] # "flag"
  <2>1. /\ opc[u] = "hash" /\ flight[u] # <<>> /\ Head(flight[u]) = END
        /\ opc' = [opc EXCEPT ![u] = "done"] /\ eOut' = [eOut EXCEPT ![u] = Append(@, TRUE)]
        /\ flight' = [flight EXCEPT ![u] = Tail(@)]
    BY <1>4 DEF PutHashFlag
  <2>2. opc'[u] = "done"
    <3>1. OnUnits(opc)
      BY DEF Formed
    <3>2. Changed(opc, opc', u, "done")
      BY <2>1, <3>1, ExceptIs
    <3> QED BY <3>2 DEF Changed
  <2>3. eOut'[u] = Append(eOut[u], TRUE)
    <3>1. OnUnits(eOut)
      BY DEF Formed
    <3>2. Changed(eOut, eOut', u, Append(eOut[u], TRUE))
      BY <2>1, <3>1, ExceptIs
    <3> QED BY <3>2 DEF Changed
  <2>4. flight'[u] = Tail(flight[u])
    <3>1. OnUnits(flight)
      BY DEF Formed
    <3>2. Changed(flight, flight', u, Tail(flight[u]))
      BY <2>1, <3>1, ExceptIs
    <3> QED BY <3>2 DEF Changed
  <2>5. /\ Head(flight[u]) = Flights(u, ls, kl)[o + 1]
        /\ Window(flight'[u], Flights(u, ls, kl), o + 1, TDigests(t, fpc[u]))
    <3>1. Window(flight[u], Flights(u, ls, kl), o, TDigests(t, fpc[u]))
      BY <2>1 DEF UnitFlow, ODigests
    <3> QED BY <2>1, <2>4, <3>1, WindowNext
  <2>6. o = Len(ls)
    <3> SUFFICES ASSUME o # Len(ls) PROVE FALSE
      OBVIOUS
    <3>1. o + 1 \in 1..Len(ls) /\ o + 1 \in Nat /\ o + 1 # Len(ls) + 1
      BY <1>2
    <3>2. Flights(u, ls, kl)[o + 1] = DigestOf(u, ls, kl, o + 1)
      BY <3>1 DEF Flights
    <3> QED BY <2>1, <2>5, <3>1, <3>2, NotEnd
  <2>7. Window(eOut'[u], Flags(ls), d, o + 1)
    <3>1. Window(eOut[u], Flags(ls), d, o)
      BY <2>1 DEF UnitFlow, OFlags
    <3>2. Flags(ls)[o + 1] = TRUE
      BY <1>2, <2>6, FlagIs
    <3> QED BY <2>3, <3>1, <3>2, WindowWrite
  <2>8. OAt(ls, o, opc'[u]) /\ ODigests(o, opc'[u]) = o + 1 /\ OFlags(o, opc'[u]) = o + 1
    BY <1>2, <2>2, <2>6 DEF OAt, ODigests, OFlags
  <2>9. UnitFlow(u, ls, kl, t, o, a, b, c, d)' /\ Reads(u, ls, kl, t, w)'
    BY <1>1, <2>5, <2>7, <2>8 DEF UnitFlow, Reads, takeVars
  <2> QED BY <2>9
<1> QED BY <1>3, <1>4

-----------------------------------------------------------------------------
(* The steps of a unit leave the others and the processes as they are *)

LEMMA UnitStep ==
    ASSUME NEW u \in Units, NEW ls, NEW kl, IsCall(ls, kl), Formed, NEW t, NEW o, NEW a, NEW b, NEW c, NEW d, NEW w,
           UnitFlow(u, ls, kl, t, o, a, b, c, d), Reads(u, ls, kl, t, w), take(u) \/ put(u)
    PROVE  \E t1, o1 : UnitFlow(u, ls, kl, t1, o1, a, b, c, d)' /\ Reads(u, ls, kl, t1, w)'
<1>1. CASE TakeFlag(u)
  BY <1>1, TakeFlagUnit
<1>2. CASE TakeLen(u)
  BY <1>2, TakeLenUnit
<1>3. CASE TakeWord(u)
  BY <1>3, TakeWordUnit
<1>4. CASE PutHash(u)
  BY <1>4, PutHashUnit
<1>5. CASE PutHashFlag(u)
  BY <1>5, PutHashFlagUnit
<1> QED BY <1>1, <1>2, <1>3, <1>4, <1>5 DEF take, put

\* Nothing but the item of u differs.
Only(f, g, u) == OnUnits(g) /\ \A v \in Units : v # u => g[v] = f[v]
OnlyUnit(u) ==
    /\ Only(fpc, fpc', u) /\ Only(flen, flen', u) /\ Only(facc, facc', u) /\ Only(flight, flight', u)
    /\ Only(opc, opc', u) /\ Only(eIn, eIn', u) /\ Only(lenIn, lenIn', u) /\ Only(dataIn, dataIn', u)
    /\ Only(hashOut, hashOut', u) /\ Only(eOut, eOut', u)

LEMMA OnlyExcept ==
    ASSUME NEW f, OnUnits(f), NEW u \in Units, NEW x, NEW g, g = [f EXCEPT ![u] = x] \/ g = f
    PROVE  Only(f, g, u)
BY DEF OnUnits, Only

LEMMA UnitAlone ==
    ASSUME Formed, NEW u \in Units, take(u) \/ put(u)
    PROVE  /\ OnlyUnit(u)
           /\ UNCHANGED <<keyLen, lens, expandVars, kpadVars, mergeKipadVars, mergeKopadVars, padStrms, kopad2Strm>>
<1>1. UNCHANGED <<keyLen, lens, expandVars, kpadVars, mergeKipadVars, mergeKopadVars, padStrms, kopad2Strm>>
  BY DEF take, put, TakeFlag, TakeLen, TakeWord, PutHash, PutHashFlag
<1>2. /\ fpc' = fpc \/ \E x : fpc' = [fpc EXCEPT ![u] = x]
      /\ flen' = flen \/ \E x : flen' = [flen EXCEPT ![u] = x]
      /\ facc' = facc \/ \E x : facc' = [facc EXCEPT ![u] = x]
      /\ flight' = flight \/ \E x : flight' = [flight EXCEPT ![u] = x]
      /\ opc' = opc \/ \E x : opc' = [opc EXCEPT ![u] = x]
      /\ eIn' = eIn \/ \E x : eIn' = [eIn EXCEPT ![u] = x]
      /\ lenIn' = lenIn \/ \E x : lenIn' = [lenIn EXCEPT ![u] = x]
      /\ dataIn' = dataIn \/ \E x : dataIn' = [dataIn EXCEPT ![u] = x]
      /\ hashOut' = hashOut \/ \E x : hashOut' = [hashOut EXCEPT ![u] = x]
      /\ eOut' = eOut \/ \E x : eOut' = [eOut EXCEPT ![u] = x]
  <2>1. CASE TakeFlag(u)
    BY <2>1, Zenon DEF TakeFlag, GetAt, fOut
  <2>2. CASE TakeLen(u)
    BY <2>2, Zenon DEF TakeLen, GetAt, fOut
  <2>3. CASE TakeWord(u)
    BY <2>3, Zenon DEF TakeWord, GetAt, fOut
  <2>4. CASE PutHash(u)
    BY <2>4, Zenon DEF PutHash, takeVars, fIn
  <2>5. CASE PutHashFlag(u)
    BY <2>5, Zenon DEF PutHashFlag, takeVars, fIn
  <2> QED BY <2>1, <2>2, <2>3, <2>4, <2>5 DEF take, put
<1>3. \A f : OnUnits(f) => \A g : (g = f \/ \E x : g = [f EXCEPT ![u] = x]) => Only(f, g, u)
  BY OnlyExcept
<1> QED BY <1>1, <1>2, <1>3 DEF Formed, OnlyUnit

LEMMA OthersSame ==
    ASSUME NEW u \in Units, OnlyUnit(u)
    PROVE  Formed' /\ \A v \in Units : v # u => Same(v)
<1>1. Formed'
  BY DEF OnlyUnit, Only, Formed
<1>2. ASSUME NEW v \in Units, v # u PROVE Same(v)
  BY <1>2 DEF OnlyUnit, Only, Same
<1> QED BY <1>1, <1>2

LEMMA PadStays ==
    ASSUME NEW r, PadFlow(r),
           UNCHANGED <<keyLen, lens, expandVars, kpadVars, mergeKipadVars, mergeKopadVars, padStrms, kopad2Strm>>
    PROVE  PadFlow(r)'
BY DEF PadFlow, expandVars, kpadVars, mergeKipadVars, mergeKopadVars, padStrms

LEMMA KeyUnitFlow ==
    ASSUME Kept, NEW r, NEW tk, NEW ok, NEW tm, NEW om, NEW tr, NEW os, Flow(r, tk, ok, tm, om, tr, os),
           take("key") \/ put("key")
    PROVE  FlowInv'
<1>1. IsCall(lens, keyLen) /\ Formed /\ Unhashed /\ "key" \in Units
  BY UnitsAre DEF Kept
<1>2. /\ OnlyUnit("key")
      /\ UNCHANGED <<keyLen, lens, expandVars, kpadVars, mergeKipadVars, mergeKopadVars, padStrms, kopad2Strm>>
  BY <1>1, UnitAlone
<1>3. Formed' /\ Same("msg") /\ Same("res")
  BY <1>1, <1>2, OthersSame, UnitsAre
<1>4. keyLen > blockSize
  <2>1. fpc["key"] # "done" \/ opc["key"] # "done"
    BY DEF take, put, TakeFlag, TakeLen, TakeWord, PutHash, PutHashFlag
  <2> QED BY <1>1, <2>1 DEF Unhashed
<1>5. PICK ls, kl, a, b, c, d, w :
         /\ ls = lens /\ kl = keyLen /\ a = XFlags(expanded, xpc) /\ b = XLens(expanded, xpc)
         /\ c = KHashes(keyLen, padded) /\ d = KFlags(keyLen, padded, kpc) /\ w = Start("key", lens, keyLen, Len(lens) + 1)
  OBVIOUS
<1>6. UnitFlow("key", ls, kl, tk, ok, a, b, c, d) /\ Reads("key", ls, kl, tk, w)
  BY <1>4, <1>5 DEF Flow, KeyFlow, Hashed, KData, Reads
<1>7. PICK t1, o1 : UnitFlow("key", ls, kl, t1, o1, a, b, c, d)' /\ Reads("key", ls, kl, t1, w)'
  BY <1>1, <1>5, <1>6, UnitStep
<1>8. KeyFlow(t1, o1)'
  BY <1>2, <1>4, <1>5, <1>7 DEF KeyFlow, UnitFlow, Hashed, KData, Reads, expandVars, kpadVars
<1>9. MsgFlow(tm, om, r)' /\ ResFlow(tr, os, r)'
  BY <1>2, <1>3, MsgStays, ResStays DEF Flow, mergeKipadVars, mergeKopadVars
<1>10. PadFlow(r)'
  BY <1>2, PadStays DEF Flow
<1>11. Kept'
  BY <1>1, <1>2, <1>3, <1>4 DEF Kept, Unhashed
<1> QED BY <1>8, <1>9, <1>10, <1>11 DEF FlowInv, Flow

LEMMA MsgUnitFlow ==
    ASSUME Kept, NEW r, NEW tk, NEW ok, NEW tm, NEW om, NEW tr, NEW os, Flow(r, tk, ok, tm, om, tr, os),
           take("msg") \/ put("msg")
    PROVE  FlowInv'
<1>1. IsCall(lens, keyLen) /\ Formed /\ Unhashed /\ "msg" \in Units
  BY UnitsAre DEF Kept
<1>2. /\ OnlyUnit("msg")
      /\ UNCHANGED <<keyLen, lens, expandVars, kpadVars, mergeKipadVars, mergeKopadVars, padStrms, kopad2Strm>>
  BY <1>1, UnitAlone
<1>3. Formed' /\ Same("key") /\ Same("res")
  BY <1>1, <1>2, OthersSame, UnitsAre
<1>4. PICK ls, kl, a, b, c, d, w :
         /\ ls = lens /\ kl = keyLen /\ a = MFlags(merged, mpc) /\ b = merged
         /\ c = RHashes(r, rpc) /\ d = RFlags(r, rpc) /\ w = MData(lens, keyLen, merged, mpc, mi)
  OBVIOUS
<1>5. UnitFlow("msg", ls, kl, tm, om, a, b, c, d) /\ Reads("msg", ls, kl, tm, w)
  BY <1>4 DEF Flow, MsgFlow, Reads
<1>6. PICK t1, o1 : UnitFlow("msg", ls, kl, t1, o1, a, b, c, d)' /\ Reads("msg", ls, kl, t1, w)'
  BY <1>1, <1>4, <1>5, UnitStep
<1>7. MsgFlow(t1, o1, r)'
  BY <1>2, <1>4, <1>6 DEF MsgFlow, UnitFlow, Reads, mergeKipadVars, mergeKopadVars
<1>8. KeyFlow(tk, ok)' /\ ResFlow(tr, os, r)'
  BY <1>2, <1>3, KeyStays, ResStays DEF Flow, expandVars, kpadVars, mergeKopadVars
<1>9. PadFlow(r)'
  BY <1>2, PadStays DEF Flow
<1>10. Kept'
  BY <1>1, <1>2, <1>3 DEF Kept, Unhashed, Same, expandVars
<1> QED BY <1>7, <1>8, <1>9, <1>10 DEF FlowInv, Flow

LEMMA ResUnitFlow ==
    ASSUME Kept, NEW r, NEW tk, NEW ok, NEW tm, NEW om, NEW tr, NEW os, Flow(r, tk, ok, tm, om, tr, os),
           take("res") \/ put("res")
    PROVE  FlowInv'
<1>1. IsCall(lens, keyLen) /\ Formed /\ Unhashed /\ "res" \in Units
  BY UnitsAre DEF Kept
<1>2. /\ OnlyUnit("res")
      /\ UNCHANGED <<keyLen, lens, expandVars, kpadVars, mergeKipadVars, mergeKopadVars, padStrms, kopad2Strm>>
  BY <1>1, UnitAlone
<1>3. Formed' /\ Same("key") /\ Same("msg")
  BY <1>1, <1>2, OthersSame, UnitsAre
<1>4. PICK ls, kl, a, b, w :
         /\ ls = lens /\ kl = keyLen /\ a = RFlagsOut(r, rpc) /\ b = RLens(r, rpc)
         /\ w = RData(lens, keyLen, r, rpc, ri)
  OBVIOUS
<1>5. UnitFlow("res", ls, kl, tr, os, a, b, 0, 0) /\ Reads("res", ls, kl, tr, w)
  BY <1>4 DEF Flow, ResFlow, Reads
<1>6. PICK t1, o1 : UnitFlow("res", ls, kl, t1, o1, a, b, 0, 0)' /\ Reads("res", ls, kl, t1, w)'
  BY <1>1, <1>4, <1>5, UnitStep
<1>7. ResFlow(t1, o1, r)'
  BY <1>2, <1>4, <1>6 DEF ResFlow, UnitFlow, Reads, mergeKopadVars
<1>8. KeyFlow(tk, ok)' /\ MsgFlow(tm, om, r)'
  BY <1>2, <1>3, KeyStays, MsgStays DEF Flow, expandVars, kpadVars, mergeKipadVars, mergeKopadVars
<1>9. PadFlow(r)'
  BY <1>2, PadStays DEF Flow
<1>10. Kept'
  BY <1>1, <1>2, <1>3 DEF Kept, Unhashed, Same, expandVars
<1> QED BY <1>7, <1>8, <1>9, <1>10 DEF FlowInv, Flow

LEMMA NothingStays ==
    ASSUME FlowInv, UNCHANGED vars
    PROVE  FlowInv'
<1>1. PICK r, tk, ok, tm, om, tr, os : Flow(r, tk, ok, tm, om, tr, os)
  BY DEF FlowInv
<1>2. /\ UNCHANGED <<keyLen, lens, expandVars, kpadVars, mergeKipadVars, mergeKopadVars, padStrms, kopad2Strm>>
      /\ \A u : Same(u)
  BY DEF vars, Same, takeVars, fIn, fOut
<1>3. KeyFlow(tk, ok)' /\ MsgFlow(tm, om, r)' /\ ResFlow(tr, os, r)'
  BY <1>1, <1>2, KeyStays, MsgStays, ResStays DEF Flow, expandVars, kpadVars, mergeKipadVars, mergeKopadVars
<1>4. PadFlow(r)'
  BY <1>1, <1>2, PadStays DEF Flow
<1>5. Kept'
  BY DEF FlowInv, Kept, Formed, Unhashed, vars, takeVars, fIn, fOut, expandVars
<1> QED BY <1>3, <1>4, <1>5 DEF FlowInv, Flow

LEMMA UnitsFlow ==
    ASSUME FlowInv, NEW u \in Units, take(u) \/ put(u)
    PROVE  FlowInv'
<1>1. PICK r, tk, ok, tm, om, tr, os : Flow(r, tk, ok, tm, om, tr, os)
  BY DEF FlowInv
<1>2. Kept
  BY DEF FlowInv
<1>3. CASE u = "key"
  BY <1>1, <1>2, <1>3, KeyUnitFlow
<1>4. CASE u = "msg"
  BY <1>1, <1>2, <1>4, MsgUnitFlow
<1>5. CASE u = "res"
  BY <1>1, <1>2, <1>5, ResUnitFlow
<1> QED BY <1>3, <1>4, <1>5 DEF Units

LEMMA FlowStep == ASSUME FlowInv, [Next]_vars PROVE FlowInv'
<1>1. PICK r, tk, ok, tm, om, tr, os : Flow(r, tk, ok, tm, om, tr, os)
  BY DEF FlowInv
<1>2. Kept
  BY DEF FlowInv
<1>3. SUFFICES ASSUME expandStrm \/ kpad \/ mergeKipad \/ mergeKopad
               PROVE  FlowInv'
  BY UnitsFlow, NothingStays DEF Next, Finished
<1>4. CASE expandStrm
  <2>1. Kept' /\ Flow(r, tk, ok, tm, om, tr, os)'
    BY <1>1, <1>2, <1>4, ExpandFlagFlow, ExpandLenFlow DEF expandStrm
  <2> QED BY <2>1 DEF FlowInv
<1>5. CASE kpad
  <2>1. Kept' /\ Flow(r, tk, ok, tm, om, tr, os)'
    BY <1>1, <1>2, <1>5, KpadKeyFlow, GenPadFlagFlow, GenPadHashFlow, PutKipadFlow, PutKopadFlow, PutPadFlagFlow
       DEF kpad
  <2> QED BY <2>1 DEF FlowInv
<1>6. CASE mergeKipad
  <2>1. Kept' /\ Flow(r, tk, ok, tm, om, tr, os)'
    BY <1>1, <1>2, <1>6, MergeReadFlagFlow, MergeFlagFlow, MergeLenFlow, MergeReadKipadFlow, MergePadWordFlow,
       MergeReadKopadFlow, MergePassKopadFlow, MergeMsgWordFlow
       DEF mergeKipad
  <2> QED BY <2>1 DEF FlowInv
<1>7. CASE mergeKopad
  <2>1. CASE ResWord
    <3>1. Kept' /\ \E r1 : Flow(r1, tk, ok, tm, om, tr, os)'
      BY <1>1, <1>2, <2>1, ResWordFlow
    <3> QED BY <3>1 DEF FlowInv
  <2>2. CASE ~ResWord
    <3>1. Kept' /\ Flow(r, tk, ok, tm, om, tr, os)'
      BY <1>1, <1>2, <1>7, <2>2, ResReadFlagFlow, ResFlagFlow, ResLenFlow, ResReadKopadFlow, ResReadHashFlow
         DEF mergeKopad
    <3> QED BY <3>1 DEF FlowInv
  <2> QED BY <2>1, <2>2
<1> QED BY <1>3, <1>4, <1>5, <1>6, <1>7

\* For keys that fill their words the processes always are where FlowInv says.
THEOREM FlowIsKept == ASSUME KeysFillWords PROVE Spec => []FlowInv
<1>1. Init => FlowInv
  <2>1. SUFFICES ASSUME Init PROVE FlowInv
    OBVIOUS
  <2>2. Kept
    BY <2>1, InitKept
  <2>3. Flow(0, 0, 0, 0, 0, 0, 0)
    BY <2>1, <2>2, FlowStarts
  <2> QED BY <2>2, <2>3 DEF FlowInv
<1>2. FlowInv /\ [Next]_vars => FlowInv'
  BY FlowStep
<1> QED BY <1>1, <1>2, PTL DEF Spec

-----------------------------------------------------------------------------
(* The tags *)

LEMMA AllRead == ASSUME NEW f, NEW S, NEW r, Window(f, S, r, r) PROVE f = <<>>
<1>1. r \in Nat /\ r - r = 0
  BY DEF Window
<1>2. Len(f) = 0 /\ f = [k \in 1..0 |-> S[r + k]]
  BY <1>1, WindowLength DEF Window
<1> QED BY <1>2

LEMMA ResultsAreTags ==
    ASSUME FlowInv
    PROVE  Len(hashOut["res"]) <= Len(lens) /\ \A m \in DOMAIN hashOut["res"] : hashOut["res"][m] = Tag(m)
<1>1. PICK r, tk, ok, tm, om, tr, os : Flow(r, tk, ok, tm, om, tr, os)
  BY DEF FlowInv
<1>2. IsCall(lens, keyLen)
  BY DEF FlowInv, Kept
<1>3. os \in 0..Len(lens) /\ Len(lens) \in Nat
  BY <1>1, <1>2, CountsGrow DEF Flow, ResFlow, UnitFlow, OAt
<1>4. Window(hashOut["res"], Digests("res", lens, keyLen), 0, os)
  BY <1>1 DEF Flow, ResFlow, UnitFlow
<1>5. hashOut["res"] = [k \in 1..os |-> Digests("res", lens, keyLen)[0 + k]] /\ Len(hashOut["res"]) = os
  <2>1. os - 0 = os
    BY <1>3
  <2> QED BY <1>4, <2>1, WindowLength DEF Window
<1>6. ASSUME NEW m \in DOMAIN hashOut["res"] PROVE hashOut["res"][m] = Tag(m)
  <2>1. m \in 1..os /\ m \in 1..Len(lens) /\ m \in Nat /\ 0 + m = m
    BY <1>3, <1>5
  <2>2. hashOut["res"][m] = Digests("res", lens, keyLen)[m]
    BY <1>5, <2>1
  <2>3. hashOut["res"][m] = DigestOf("res", lens, keyLen, m)
    BY <2>1, <2>2 DEF Digests
  <2> QED BY <1>2, <2>1, <2>3, TagIs
<1> QED BY <1>3, <1>5, <1>6

LEMMA ReturnedUnit ==
    ASSUME NEW u \in Units, NEW ls, NEW kl, NEW t, NEW o, NEW a, NEW b, NEW c, NEW d,
           UnitFlow(u, ls, kl, t, o, a, b, c, d), fpc[u] = "done", opc[u] = "done", a = Len(ls) + 1, b = Len(ls)
    PROVE  /\ t = Len(ls) /\ o = Len(ls) /\ eIn[u] = <<>> /\ lenIn[u] = <<>>
           /\ c = Len(ls) => hashOut[u] = <<>>
           /\ d = Len(ls) + 1 => eOut[u] = <<>>
<1>1. t = Len(ls) /\ o = Len(ls)
  BY DEF UnitFlow, TAt, OAt
<1>2. TFlags(t, fpc[u]) = t + 1 /\ TLens(t, fpc[u]) = t /\ OFlags(o, opc[u]) = o + 1
  BY DEF TFlags, TLens, OFlags
<1>3. /\ Window(eIn[u], Flags(ls), Len(ls) + 1, Len(ls) + 1) /\ Window(lenIn[u], Lengths(u, ls, kl), Len(ls), Len(ls))
      /\ Window(hashOut[u], Digests(u, ls, kl), c, Len(ls)) /\ Window(eOut[u], Flags(ls), d, Len(ls) + 1)
  BY <1>1, <1>2 DEF UnitFlow
<1> QED BY <1>1, <1>3, AllRead

LEMMA ReturnedEmpty ==
    ASSUME FlowInv, Returned
    PROVE  /\ Len(hashOut["res"]) = Len(lens)
           /\ {kipadStrm, kopadStrm, eKipadStrm, kopad2Strm, hashOut["key"], hashOut["msg"], eOut["key"],
               eOut["msg"]} = {<<>>}
           /\ \A u \in Units : <<eIn[u], lenIn[u], dataIn[u]>> = <<<<>>, <<>>, <<>>>>
<1>1. PICK r, tk, ok, tm, om, tr, os : Flow(r, tk, ok, tm, om, tr, os)
  BY DEF FlowInv
<1>2. /\ xpc = "done" /\ kpc = "done" /\ mpc = "done" /\ rpc = "done"
      /\ \A u \in Units : fpc[u] = "done" /\ opc[u] = "done"
  BY DEF Returned
<1> DEFINE n == Len(lens)  hs == Hashed("key", lens, keyLen)
<1>3. expanded = Len(hs) /\ padded = n /\ merged = n /\ r = n
  BY <1>1, <1>2 DEF Flow, PadFlow, XAt, KAt, MAt, RAt
<1>4. (keyLen > blockSize /\ hs = lens) \/ (~(keyLen > blockSize) /\ hs = <<>> /\ Len(hs) = 0)
  BY DEF Hashed
<1>5. kipadStrm = <<>> /\ kopadStrm = <<>> /\ eKipadStrm = <<>> /\ kopad2Strm = <<>>
  <2>1. /\ MKipads(merged, mpc) = n /\ KKipads(padded, kpc) = n /\ MKopads(merged, mpc) = n
        /\ KKopads(padded, kpc) = n /\ MPadFlags(merged, mpc) = n + 1 /\ KPadFlags(padded, kpc) = n + 1
        /\ RKopads(r, rpc) = n /\ MKopad2s(merged, mpc) = n
    BY <1>2, <1>3 DEF MKipads, KKipads, MKopads, KKopads, MPadFlags, KPadFlags, RKopads, MKopad2s
  <2>2. /\ Window(kipadStrm, Pads(keyLen, "36"), n, n) /\ Window(kopadStrm, Pads(keyLen, "5c"), n, n)
        /\ Window(eKipadStrm, Flags(lens), n + 1, n + 1) /\ Window(kopad2Strm, Pads(keyLen, "5c"), n, n)
    BY <1>1, <2>1 DEF Flow, PadFlow
  <2> QED BY <2>2, AllRead
<1>6. tk = Len(hs) /\ eIn["key"] = <<>> /\ lenIn["key"] = <<>> /\ hashOut["key"] = <<>> /\ eOut["key"] = <<>>
  <2>1. /\ XFlags(expanded, xpc) = Len(hs) + 1 /\ XLens(expanded, xpc) = Len(hs)
        /\ KHashes(keyLen, padded) = Len(hs) /\ KFlags(keyLen, padded, kpc) = Len(hs) + 1
    BY <1>2, <1>3, <1>4 DEF XFlags, XLens, KHashes, KFlags
  <2>2. UnitFlow("key", hs, keyLen, tk, ok, Len(hs) + 1, Len(hs), Len(hs), Len(hs) + 1)
    BY <1>1, <2>1 DEF Flow, KeyFlow
  <2> HIDE DEF hs
  <2> QED BY <1>2, <2>2, UnitsAre, ReturnedUnit
<1>7. tm = n /\ eIn["msg"] = <<>> /\ lenIn["msg"] = <<>> /\ hashOut["msg"] = <<>> /\ eOut["msg"] = <<>>
  <2>1. MFlags(merged, mpc) = n + 1 /\ RHashes(r, rpc) = n /\ RFlags(r, rpc) = n + 1
    BY <1>2, <1>3 DEF MFlags, RHashes, RFlags
  <2>2. UnitFlow("msg", lens, keyLen, tm, om, n + 1, n, n, n + 1)
    BY <1>1, <1>3, <2>1 DEF Flow, MsgFlow
  <2> QED BY <1>2, <2>2, UnitsAre, ReturnedUnit
<1>8. tr = n /\ os = n /\ eIn["res"] = <<>> /\ lenIn["res"] = <<>>
  <2>1. RFlagsOut(r, rpc) = n + 1 /\ RLens(r, rpc) = n
    BY <1>2, <1>3 DEF RFlagsOut, RLens
  <2>2. UnitFlow("res", lens, keyLen, tr, os, n + 1, n, 0, 0)
    BY <1>1, <2>1 DEF Flow, ResFlow
  <2> QED BY <1>2, <2>2, UnitsAre, ReturnedUnit
<1>9. dataIn["key"] = <<>> /\ dataIn["msg"] = <<>> /\ dataIn["res"] = <<>>
  <2>1. KData(lens, keyLen, padded, tk, fpc["key"], facc["key"]) = Start("key", lens, keyLen, n + 1)
    BY <1>2, <1>3, <1>4, <1>6, UnitsAre DEF KData, TData
  <2>2. /\ TData("msg", lens, keyLen, tm, fpc["msg"], facc["msg"]) = Start("msg", lens, keyLen, n + 1)
        /\ MData(lens, keyLen, merged, mpc, mi) = Start("msg", lens, keyLen, n + 1)
        /\ TData("res", lens, keyLen, tr, fpc["res"], facc["res"]) = Start("res", lens, keyLen, n + 1)
        /\ RData(lens, keyLen, r, rpc, ri) = Start("res", lens, keyLen, n + 1)
    BY <1>2, <1>3, <1>7, <1>8, UnitsAre DEF TData, MData, RData
  <2>3. \E S, s : Window(dataIn["key"], S, s, s)
    BY <1>1, <2>1 DEF Flow, KeyFlow
  <2>4. \E S, s : Window(dataIn["msg"], S, s, s)
    BY <1>1, <2>2 DEF Flow, MsgFlow
  <2>5. \E S, s : Window(dataIn["res"], S, s, s)
    BY <1>1, <2>2 DEF Flow, ResFlow
  <2> QED BY <2>3, <2>4, <2>5, AllRead
<1>10. Len(hashOut["res"]) = n
  <2>1. Window(hashOut["res"], Digests("res", lens, keyLen), 0, n)
    BY <1>1, <1>8 DEF Flow, ResFlow, UnitFlow
  <2>2. Len(hashOut["res"]) = n - 0 /\ n \in Nat
    BY <2>1, WindowLength DEF Window
  <2> QED BY <2>2
<1> QED BY <1>5, <1>6, <1>7, <1>8, <1>9, <1>10 DEF Units

\* TagsOfTheirMessages holds of every call whose short keys fill their words: each
\* result of hmacDataflow is the HMAC of its own message under its own key, in
\* order, and nothing is left in a stream when the call has returned.
THEOREM TagsAreRight == ASSUME KeysFillWords PROVE Spec => []TagsOfTheirMessages
<1>1. FlowInv => TagsOfTheirMessages
  BY ResultsAreTags, ReturnedEmpty DEF TagsOfTheirMessages
<1> QED BY <1>1, FlowIsKept, PTL
=============================================================================
