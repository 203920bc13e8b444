---------------------------- MODULE Lz4FrameProofs ----------------------------
(***************************************************************************)
(* The decoder gets the file back from the frame, for files of any size,   *)
(* any number of lanes, and whatever the lanes make of their blocks.       *)
(***************************************************************************)
EXTENDS Lz4Frame, SequenceTheorems, WellFoundedInduction, TLAPS

-----------------------------------------------------------------------------
(* Induction, and sums *)

LEMMA LeastElement ==
    ASSUME NEW T, T \subseteq Nat, T # {}
    PROVE  \E x \in T : \A y \in T : x <= y
<1>1. PICK x \in T : \A y \in T : ~ (<<y, x>> \in OpToRel(<, Nat))
  BY NatLessThanWellFounded, WFMin
<1>2. OpToRel(<, Nat) = {ss \in Nat \X Nat : ss[1] < ss[2]}
  BY DEF OpToRel
<1>3. ASSUME NEW y \in T, y < x PROVE <<y, x>> \in OpToRel(<, Nat)
  BY <1>2, <1>3
<1>4. \A y \in T : ~(y < x)
  BY <1>1, <1>3
<1>5. \A y \in T : x <= y
  BY <1>4
<1> QED BY <1>5

LEMMA SetInduction ==
    ASSUME NEW S, 0 \in S, \A n \in Nat : n \in S => n + 1 \in S
    PROVE  Nat \subseteq S
<1> DEFINE T == Nat \ S
<1>1. SUFFICES ASSUME T # {} PROVE FALSE
  OBVIOUS
<1>2. PICK x \in T : \A y \in T : x <= y
  BY <1>1, LeastElement
<1>3. x - 1 \in Nat /\ x - 1 \in S /\ (x - 1) + 1 = x
  BY <1>2
<1> QED BY <1>2, <1>3

\* The function that Before is defined by.
IsBefore(counts, n, f) == f = [k \in 1..n |-> IF k = 1 THEN 0 ELSE f[k - 1] + counts[k - 1]]

LEMMA SumsExist ==
    ASSUME NEW counts, NEW n \in Nat
    PROVE  \E f : IsBefore(counts, n, f)
<1> DEFINE S == {m \in Nat : \E f : IsBefore(counts, m, f)}
<1>1. 0 \in S
  <2>1. IsBefore(counts, 0, [k \in 1..0 |-> 0])
    BY DEF IsBefore
  <2> QED BY <2>1
<1>2. ASSUME NEW m \in Nat, m \in S PROVE m + 1 \in S
  <2>1. PICK f : IsBefore(counts, m, f)
    BY <1>2
  <2> DEFINE c(k) == counts[k]
             g == [k \in 1..m + 1 |-> IF k \in 1..m THEN f[k] ELSE IF k = 1 THEN 0 ELSE f[k - 1] + c(k - 1)]
  <2> HIDE DEF c
  <2>2. \A k \in 1..m : f[k] = IF k = 1 THEN 0 ELSE f[k - 1] + c(k - 1)
    BY <2>1 DEF IsBefore, c
  <2>3. \A k \in 1..m + 1 : g[k] = IF k = 1 THEN 0 ELSE g[k - 1] + c(k - 1)
    <3>1. ASSUME NEW k \in 1..m + 1 PROVE g[k] = IF k = 1 THEN 0 ELSE g[k - 1] + c(k - 1)
      <4>1. CASE k = 1
        BY <2>2, <4>1
      <4>2. CASE k # 1
        <5>1. k - 1 \in 1..m
          BY <4>2
        <5>2. g[k - 1] = f[k - 1]
          BY <5>1
        <5>3. g[k] = f[k - 1] + c(k - 1)
          BY <2>2, <4>2
        <5> QED BY <4>2, <5>2, <5>3
      <4> QED BY <4>1, <4>2
    <3> QED BY <3>1
  <2>4. g = [k \in 1..m + 1 |-> IF k = 1 THEN 0 ELSE g[k - 1] + c(k - 1)]
    <3> DEFINE h == [k \in 1..m + 1 |-> IF k = 1 THEN 0 ELSE g[k - 1] + c(k - 1)]
    <3>1. DOMAIN g = 1..m + 1 /\ g = [k \in 1..m + 1 |-> g[k]]
      OBVIOUS
    <3> HIDE DEF g
    <3> QED BY <2>3, <3>1
  <2>5. IsBefore(counts, m + 1, g)
    BY <2>4 DEF IsBefore, c
  <2> QED BY <2>5
<1> HIDE DEF S
<1>3. Nat \subseteq S
  BY <1>1, <1>2, SetInduction
<1> QED BY <1>3 DEF S

LEMMA SumsAgree ==
    ASSUME NEW counts, NEW n \in Nat, NEW m \in Nat, NEW f, IsBefore(counts, n, f), NEW g, IsBefore(counts, m, g)
    PROVE  \A k \in 1..n : k <= m => f[k] = g[k]
<1> DEFINE c(k) == counts[k]
           S == {k \in Nat : k \in 1..n /\ k <= m => f[k] = g[k]}
<1>1. /\ \A k \in 1..n : f[k] = IF k = 1 THEN 0 ELSE f[k - 1] + c(k - 1)
      /\ \A k \in 1..m : g[k] = IF k = 1 THEN 0 ELSE g[k - 1] + c(k - 1)
  BY DEF IsBefore
<1> HIDE DEF c
<1>2. 0 \in S
  OBVIOUS
<1>3. ASSUME NEW k \in Nat, k \in S PROVE k + 1 \in S
  <2> SUFFICES ASSUME k + 1 \in 1..n, k + 1 <= m PROVE f[k + 1] = g[k + 1]
    OBVIOUS
  <2>1. CASE k = 0
    BY <1>1, <2>1
  <2>2. CASE k # 0
    <3>1. k \in 1..n /\ k \in 1..m /\ f[k] = g[k] /\ k + 1 # 1 /\ (k + 1) - 1 = k /\ k + 1 \in 1..m
      BY <1>3, <2>2
    <3>2. f[k + 1] = f[k] + c(k) /\ g[k + 1] = g[k] + c(k)
      BY <1>1, <3>1
    <3> QED BY <3>1, <3>2
  <2> QED BY <2>1, <2>2
<1> HIDE DEF S
<1>4. Nat \subseteq S
  BY <1>2, <1>3, SetInduction
<1> QED BY <1>4 DEF S

LEMMA BeforeIs ==
    ASSUME NEW counts, NEW n \in Nat \ {0}, NEW m \in Nat, NEW f, IsBefore(counts, m, f), n <= m
    PROVE  Before(counts, n) = f[n]
<1> DEFINE p == CHOOSE sum : sum = [k \in 1..n |-> IF k = 1 THEN 0 ELSE sum[k - 1] + counts[k - 1]]
<1>1. IsBefore(counts, n, p)
  BY SumsExist, Zenon DEF IsBefore
<1>2. Before(counts, n) = p[n]
  BY DEF Before
<1> HIDE DEF p
<1>3. p[n] = f[n]
  BY <1>1, SumsAgree
<1> QED BY <1>2, <1>3

\* The sum grows by one count at a time.
LEMMA BeforeNext ==
    ASSUME NEW counts
    PROVE  /\ Before(counts, 1) = 0
           /\ \A n \in Nat \ {0} : Before(counts, n + 1) = Before(counts, n) + counts[n]
<1>1. Before(counts, 1) = 0
  <2>1. PICK f : IsBefore(counts, 1, f)
    BY SumsExist
  <2>2. f[1] = 0
    BY <2>1 DEF IsBefore
  <2> QED BY <2>1, <2>2, BeforeIs
<1>2. ASSUME NEW n \in Nat \ {0} PROVE Before(counts, n + 1) = Before(counts, n) + counts[n]
  <2>1. PICK f : IsBefore(counts, n + 1, f)
    BY SumsExist
  <2>2. Before(counts, n + 1) = f[n + 1] /\ Before(counts, n) = f[n]
    BY <2>1, BeforeIs
  <2> DEFINE c(k) == counts[k]
  <2>3. \A k \in 1..n + 1 : f[k] = IF k = 1 THEN 0 ELSE f[k - 1] + c(k - 1)
    BY <2>1 DEF IsBefore
  <2> HIDE DEF c
  <2>4. f[n + 1] = f[n] + c(n)
    <3>1. n + 1 \in 1..n + 1 /\ n + 1 # 1 /\ (n + 1) - 1 = n
      OBVIOUS
    <3> QED BY <2>3, <3>1
  <2> QED BY <2>2, <2>4 DEF c
<1> QED BY <1>1, <1>2

\* The sums up to the first n counts, the first of which is 0.
Growing(c, n) ==
    /\ \A m \in 1..n + 1 : Before(c, m) \in Nat
    /\ \A m \in 1..n : Before(c, m + 1) = Before(c, m) + c[m] /\ c[m] \in Nat
    /\ \A m \in 1..n + 1 : \A k \in 1..m : Before(c, k) <= Before(c, m)
    /\ Before(c, 1) = 0

LEMMA SumsGrow ==
    ASSUME NEW n \in Nat, NEW c, \A m \in 1..n : c[m] \in Nat
    PROVE  Growing(c, n)
<1> DEFINE B(m) == Before(c, m)
           S == {m \in Nat : m <= n => \A k \in 1..m + 1 : B(k) \in Nat /\ B(k) <= B(m + 1)}
<1>1. B(1) = 0
  BY BeforeNext
<1>2. \A m \in 1..n : B(m + 1) = B(m) + c[m]
  <2>1. \A m \in 1..n : m \in Nat \ {0}
    OBVIOUS
  <2> QED BY <2>1, BeforeNext
<1> HIDE DEF B
<1>3. 0 \in S
  <2>1. \A k \in 1..0 + 1 : k = 1
    OBVIOUS
  <2> QED BY <1>1, <2>1
<1>4. ASSUME NEW m \in Nat, m \in S PROVE m + 1 \in S
  <2> SUFFICES ASSUME m + 1 <= n, NEW k \in 1..(m + 1) + 1
               PROVE  B(k) \in Nat /\ B(k) <= B((m + 1) + 1)
    OBVIOUS
  <2> DEFINE j == m + 1
  <2>1. \A i0 \in 1..j : B(i0) \in Nat /\ B(i0) <= B(j)
    BY <1>4
  <2>2. j \in 1..n /\ j \in 1..j
    OBVIOUS
  <2> HIDE DEF j
  <2>3. B(j + 1) = B(j) + c[j] /\ c[j] \in Nat /\ B(j) \in Nat
    BY <1>2, <2>1, <2>2
  <2>4. CASE k \in 1..j
    <3>1. B(k) \in Nat /\ B(k) <= B(j)
      BY <2>1, <2>4
    <3>2. B(k) <= B(j + 1)
      BY <2>3, <3>1
    <3> QED BY <3>1, <3>2 DEF j
  <2>5. CASE k = j + 1
    <3>1. B(j + 1) \in Nat
      BY <2>3
    <3> QED BY <2>5, <3>1 DEF j
  <2> QED BY <2>4, <2>5 DEF j
<1> HIDE DEF S
<1>5. Nat \subseteq S
  BY <1>3, <1>4, SetInduction
<1>6. ASSUME NEW m \in 1..n + 1, NEW k \in 1..m PROVE B(k) \in Nat /\ B(k) <= B(m)
  <2>1. m - 1 \in S /\ m - 1 <= n /\ (m - 1) + 1 = m
    BY <1>5
  <2> QED BY <2>1 DEF S
<1>7. \A m \in 1..n + 1 : B(m) \in Nat
  <2>1. \A m \in 1..n + 1 : m \in 1..m
    OBVIOUS
  <2> QED BY <1>6, <2>1
<1> QED BY <1>1, <1>2, <1>6, <1>7 DEF Growing, B

\* A sum that another one does not reach comes later.
LEMMA SumsOrder ==
    ASSUME NEW n \in Nat, NEW c, Growing(c, n), NEW m \in 1..n, NEW k \in 1..n + 1,
           Before(c, m) < Before(c, k)
    PROVE  m < k
<1>1. CASE k <= m
  <2>1. m \in 1..n + 1 /\ k \in 1..m
    BY <1>1
  <2>2. Before(c, k) <= Before(c, m) /\ Before(c, k) \in Nat /\ Before(c, m) \in Nat
    BY <2>1 DEF Growing
  <2> QED BY <2>2
<1> QED BY <1>1

\* The counts a number falls into are found from it.
PlaceOf(c, n, p) == CHOOSE m \in 1..n : Before(c, m) <= p /\ p < Before(c, m + 1)

LEMMA PlaceFound ==
    ASSUME NEW n \in Nat, NEW c, Growing(c, n), NEW m \in 1..n, NEW p \in Nat,
           Before(c, m) <= p, p < Before(c, m + 1)
    PROVE  PlaceOf(c, n, p) = m
<1> DEFINE x == PlaceOf(c, n, p)
<1>1. x \in 1..n /\ Before(c, x) <= p /\ p < Before(c, x + 1)
  BY DEF PlaceOf
<1> HIDE DEF x
<1>2. x + 1 \in 1..n + 1 /\ m + 1 \in 1..n + 1 /\ x \in 1..n + 1 /\ m \in 1..n + 1
  BY <1>1
<1>3. /\ Before(c, x) \in Nat /\ Before(c, m) \in Nat
      /\ Before(c, x + 1) \in Nat /\ Before(c, m + 1) \in Nat
  BY <1>2 DEF Growing
<1>4. x < m + 1
  <2>1. Before(c, x) < Before(c, m + 1)
    BY <1>1, <1>3
  <2> QED BY <1>1, <1>2, <2>1, SumsOrder
<1>5. m < x + 1
  <2>1. Before(c, m) < Before(c, x + 1)
    BY <1>1, <1>3
  <2> QED BY <1>2, <2>1, SumsOrder
<1>6. x = m
  BY <1>1, <1>4, <1>5
<1> QED BY <1>6 DEF x

\* A FIFO to which w items of the stream S were written, and r read.
Window(f, S, r, w) == r \in Nat /\ w \in Nat /\ r <= w /\ f = [k \in 1..w - r |-> S[r + k]]

LEMMA WindowLength ==
    ASSUME NEW f, NEW S, NEW r, NEW w, Window(f, S, r, w)
    PROVE  /\ r \in Nat /\ w \in Nat /\ r <= w
           /\ Len(f) = w - r /\ (f = <<>> <=> r = w)
           /\ \A k \in 1..w - r : f[k] = S[r + k]
<1>1. r \in Nat /\ w \in Nat /\ r <= w /\ f = [k \in 1..w - r |-> S[r + k]]
  BY DEF Window
<1>2. Len(f) = w - r
  BY <1>1
<1>3. f = <<>> <=> r = w
  <2>1. CASE r = w
    <3>1. 1..w - r = {}
      BY <1>1, <2>1
    <3> QED BY <1>1, <2>1, <3>1
  <2>2. CASE r # w
    BY <1>1, <1>2, <2>2
  <2> QED BY <2>1, <2>2
<1> QED BY <1>1, <1>2, <1>3

LEMMA WindowRead ==
    ASSUME NEW f, NEW S, NEW r, NEW w, Window(f, S, r, w), f # <<>>
    PROVE  r < w /\ Head(f) = S[r + 1] /\ Window(Tail(f), S, r + 1, w)
<1> DEFINE T == {S[r + k] : k \in Nat}  g == Tail(f)
<1>1. r \in Nat /\ w \in Nat /\ r <= w /\ f = [k \in 1..w - r |-> S[r + k]] /\ w - r \in Nat
  BY DEF Window
<1>2. r < w
  BY <1>1, WindowLength
<1>3. f \in Seq(T) /\ Len(f) = w - r /\ \A k \in 1..w - r : f[k] = S[r + k]
  <2>1. \A k \in 1..w - r : S[r + k] \in T
    <3>1. \A k \in 1..w - r : k \in Nat
      BY <1>1
    <3> QED BY <3>1, Zenon
  <2> HIDE DEF T
  <2>2. \A k \in 1..w - r : f[k] = S[r + k]
    BY <1>1
  <2> DEFINE n == w - r
  <2>3. n \in Nat /\ f \in [1..n -> T]
    BY <1>1, <2>1
  <2> HIDE DEF n
  <2>4. f \in Seq(T) /\ Len(f) = n
    BY <2>3
  <2> QED BY <2>2, <2>4 DEF n
<1> HIDE DEF T
<1>4. g \in Seq(T) /\ Len(g) = (w - r) - 1 /\ (\A k \in 1..(w - r) - 1 : g[k] = f[k + 1]) /\ Head(f) = f[1]
  BY <1>3, HeadTailProperties
<1> HIDE DEF g
<1>5. g = [k \in 1..(w - r) - 1 |-> g[k]]
  BY <1>4
<1>6. ASSUME NEW k \in 1..(w - r) - 1 PROVE g[k] = S[(r + 1) + k]
  <2>1. k + 1 \in 1..w - r /\ r + (k + 1) = (r + 1) + k
    BY <1>1
  <2> QED BY <1>3, <1>4, <2>1
<1>7. (w - r) - 1 = w - (r + 1)
  BY <1>1
<1>8. g = [k \in 1..w - (r + 1) |-> S[(r + 1) + k]]
  BY <1>5, <1>6, <1>7
<1>9. Head(f) = S[r + 1]
  BY <1>1, <1>2, <1>3, <1>4
<1> QED BY <1>1, <1>2, <1>8, <1>9 DEF Window, g

LEMMA WindowEmpty ==
    ASSUME NEW S, NEW r \in Nat
    PROVE  Window(<<>>, S, r, r)
<1>1. 1..r - r = {}
  OBVIOUS
<1>2. <<>> = [k \in 1..r - r |-> S[r + k]]
  BY <1>1
<1> QED BY <1>2 DEF Window

Joined(V, c, a, b, n, m) ==
    /\ c \in Seq(V) /\ Len(c) = n + m
    /\ \A k \in 1..n + m : c[k] = IF k <= n THEN a[k] ELSE b[k - n]

LEMMA Concat ==
    ASSUME NEW V, NEW a \in Seq(V), NEW b \in Seq(V), NEW n \in Nat, n = Len(a), NEW m \in Nat, m = Len(b)
    PROVE  Joined(V, a \o b, a, b, n, m)
BY ConcatProperties DEF Joined

\* n items written in one go.
LEMMA WindowMore ==
    ASSUME NEW f, NEW S, NEW r, NEW w, Window(f, S, r, w), NEW n \in Nat, NEW s, s = [k \in 1..n |-> S[w + k]]
    PROVE  Window(f \o s, S, r, w + n)
<1> DEFINE V == {S[k] : k \in Nat}  g == f \o s  d == w - r
<1>1. r \in Nat /\ w \in Nat /\ r <= w /\ d \in Nat /\ f = [k \in 1..d |-> S[r + k]]
  BY DEF Window
<1>2. (\A k \in 1..d : S[r + k] \in V) /\ (\A k \in 1..n : S[w + k] \in V)
  <2>1. (\A k \in 1..d : r + k \in Nat) /\ (\A k \in 1..n : w + k \in Nat)
    BY <1>1
  <2> QED BY <2>1, Zenon
<1> HIDE DEF V
<1>3. d = w - r
  OBVIOUS
<1> HIDE DEF d
<1>4. f \in [1..d -> V] /\ s \in [1..n -> V]
  BY <1>1, <1>2
<1>5. f \in Seq(V) /\ Len(f) = d /\ s \in Seq(V) /\ Len(s) = n
  BY <1>1, <1>4
<1>6. Joined(V, g, f, s, d, n)
  BY <1>1, <1>5, Concat
<1> HIDE DEF g
<1>7. g \in Seq(V) /\ Len(g) = d + n /\ \A k \in 1..d + n : g[k] = IF k <= d THEN f[k] ELSE s[k - d]
  BY <1>6 DEF Joined
<1>8. ASSUME NEW k \in 1..d + n PROVE g[k] = S[r + k]
  <2>1. CASE k <= d
    <3>1. k \in 1..d
      BY <1>1, <2>1
    <3> QED BY <1>1, <1>7, <2>1, <3>1
  <2>2. CASE ~(k <= d)
    <3>1. k - d \in 1..n /\ w + (k - d) = r + k
      BY <1>1, <1>3, <2>2
    <3>2. g[k] = s[k - d]
      BY <1>7, <2>2
    <3> QED BY <3>1, <3>2
  <2> QED BY <2>1, <2>2
<1>9. g = [k \in 1..d + n |-> g[k]]
  BY <1>7
<1>10. g = [k \in 1..d + n |-> S[r + k]]
  BY <1>8, <1>9
<1>11. d + n = (w + n) - r /\ w + n \in Nat /\ r <= w + n
  BY <1>1, <1>3
<1> QED BY <1>1, <1>10, <1>11 DEF Window, g

\* The pieces of a stream put together are its beginning.
IsFlattening(s, n, f) == f = [m \in 1..n |-> IF m = 1 THEN s[m] ELSE f[m - 1] \o s[m]]

IsPiece(x, S, a, d) == x = [k \in 1..d |-> S[a + k]]

LEMMA FlatteningsExist ==
    ASSUME NEW s, NEW n \in Nat
    PROVE  \E f : IsFlattening(s, n, f)
<1> DEFINE T == {m \in Nat : \E f : IsFlattening(s, m, f)}
<1>1. 0 \in T
  <2>1. IsFlattening(s, 0, [k \in 1..0 |-> 0])
    BY DEF IsFlattening
  <2> QED BY <2>1
<1>2. ASSUME NEW m \in Nat, m \in T PROVE m + 1 \in T
  <2>1. PICK f : IsFlattening(s, m, f)
    BY <1>2
  <2> DEFINE c(k) == s[k]
             h(a, b) == a \o b
             g == [k \in 1..m + 1 |-> IF k \in 1..m THEN f[k] ELSE IF k = 1 THEN c(k) ELSE h(f[k - 1], c(k))]
  <2> HIDE DEF c, h
  <2>2. \A k \in 1..m : f[k] = IF k = 1 THEN c(k) ELSE h(f[k - 1], c(k))
    BY <2>1 DEF IsFlattening, c, h
  <2>3. \A k \in 1..m + 1 : g[k] = IF k = 1 THEN c(k) ELSE h(g[k - 1], c(k))
    <3>1. ASSUME NEW k \in 1..m + 1 PROVE g[k] = IF k = 1 THEN c(k) ELSE h(g[k - 1], c(k))
      <4>1. CASE k = 1
        BY <2>2, <4>1
      <4>2. CASE k # 1
        <5>1. k - 1 \in 1..m
          BY <4>2
        <5>2. g[k - 1] = f[k - 1]
          BY <5>1
        <5>3. g[k] = h(f[k - 1], c(k))
          BY <2>2, <4>2
        <5> QED BY <4>2, <5>2, <5>3
      <4> QED BY <4>1, <4>2
    <3> QED BY <3>1
  <2>4. g = [k \in 1..m + 1 |-> IF k = 1 THEN c(k) ELSE h(g[k - 1], c(k))]
    <3>1. g = [k \in 1..m + 1 |-> g[k]]
      OBVIOUS
    <3> HIDE DEF g
    <3> QED BY <2>3, <3>1
  <2> HIDE DEF g
  <2>5. IsFlattening(s, m + 1, g)
    BY <2>4 DEF IsFlattening, c, h
  <2> QED BY <2>5
<1> HIDE DEF T
<1>3. n \in T
  BY <1>1, <1>2, SetInduction
<1> QED BY <1>3 DEF T

LEMMA FlatteningIs ==
    ASSUME NEW S, NEW n \in Nat, NEW c, Growing(c, n), NEW s, s = [m \in 1..n |-> s[m]],
           \A m \in 1..n : IsPiece(s[m], S, Before(c, m), c[m])
    PROVE  Window(FlattenSeq(s), S, 0, Before(c, n + 1))
<1>1. Len(s) = n
  OBVIOUS
<1>2. CASE n = 0
  <2>1. s = <<>>
    <3>1. 1..n = {}
      BY <1>2
    <3> QED BY <3>1
  <2>2. FlattenSeq(s) = <<>>
    BY <1>1, <1>2, <2>1 DEF FlattenSeq
  <2>3. Before(c, n + 1) = 0
    BY <1>2 DEF Growing
  <2> QED BY <2>2, <2>3, WindowEmpty
<1>3. CASE n # 0
  <2> DEFINE f == CHOOSE flatten : flatten = [m \in 1..n |-> IF m = 1 THEN s[m] ELSE flatten[m - 1] \o s[m]]
             T == {m \in Nat : m \in 1..n => Window(f[m], S, 0, Before(c, m + 1))}
  <2>1. IsFlattening(s, n, f)
    BY FlatteningsExist, Zenon DEF IsFlattening
  <2>2. FlattenSeq(s) = f[n]
    BY <1>1, <1>3 DEF FlattenSeq
  <2> HIDE DEF f
  <2>3. \A m \in 1..n : f[m] = IF m = 1 THEN s[m] ELSE f[m - 1] \o s[m]
    BY <2>1 DEF IsFlattening
  <2>4. 0 \in T
    OBVIOUS
  <2>5. ASSUME NEW m \in Nat, m \in T PROVE m + 1 \in T
    <3> SUFFICES ASSUME m + 1 \in 1..n PROVE Window(f[m + 1], S, 0, Before(c, (m + 1) + 1))
      OBVIOUS
    <3> DEFINE x == m + 1  b == Before(c, x)  d == c[x]
    <3>1. b \in Nat /\ d \in Nat /\ Before(c, x + 1) = b + d /\ (m = 0 => b = 0)
      BY DEF Growing
    <3>2. IsPiece(s[x], S, b, d)
      OBVIOUS
    <3>3. x \in 1..n /\ x - 1 = m
      OBVIOUS
    <3> HIDE DEF b, d
    <3>4. s[x] = [k \in 1..d |-> S[b + k]]
      BY <3>2 DEF IsPiece
    <3>5. CASE m = 0
      <4>1. f[x] = s[x]
        BY <2>3, <3>3, <3>5
      <4>2. b = 0 /\ b + d = d /\ d = d - 0
        BY <3>1, <3>5
      <4>3. s[x] = [k \in 1..d - 0 |-> S[0 + k]]
        BY <3>4, <4>2
      <4>4. Window(s[x], S, 0, d)
        BY <3>1, <4>3 DEF Window
      <4> QED BY <3>1, <4>1, <4>2, <4>4
    <3>6. CASE m # 0
      <4>1. m \in 1..n /\ Window(f[m], S, 0, b)
        BY <2>5, <3>3, <3>6 DEF b
      <4>2. f[x] = f[m] \o s[x]
        <5>1. x # 1
          BY <3>3, <3>6
        <5> HIDE DEF x
        <5>2. f[x] = f[x - 1] \o s[x]
          BY <2>3, <3>3, <5>1
        <5> QED BY <3>3, <5>2, Zenon
      <4>3. Window(f[m] \o s[x], S, 0, b + d)
        BY <3>1, <3>4, <4>1, WindowMore
      <4> QED BY <3>1, <4>2, <4>3
    <3> QED BY <3>5, <3>6
  <2> HIDE DEF T
  <2>6. n \in T
    BY <2>4, <2>5, SetInduction
  <2>7. n \in 1..n
    BY <1>3
  <2>8. Window(f[n], S, 0, Before(c, n + 1))
    BY <2>6, <2>7 DEF T
  <2> QED BY <2>2, <2>8
<1> QED BY <1>2, <1>3

LEMMA Quotients ==
    ASSUME NEW b \in Nat \ {0}, NEW q \in Nat, NEW c \in 0..b - 1, NEW n, n = b * q + c
    PROVE  n \div b = q
<1> DEFINE p == n \div b  d == n % b
<1>1. n \in Nat
  OBVIOUS
<1>2. p \in Nat /\ d \in 0..b - 1 /\ n = b * p + d
  BY <1>1
<1> HIDE DEF p, d
<1>3. CASE p < q
  <2>1. b * q >= b * (p + 1)
    BY <1>2, <1>3, SMTT(30)
  <2>2. b * (p + 1) = b * p + b
    BY <1>2
  <2>3. b * p \in Nat /\ b * q \in Nat /\ b * (p + 1) \in Nat
    BY <1>2
  <2> QED BY <1>2, <2>1, <2>2, <2>3
<1>4. CASE q < p
  <2>1. b * p >= b * (q + 1)
    BY <1>2, <1>4, SMTT(30)
  <2>2. b * (q + 1) = b * q + b
    OBVIOUS
  <2>3. b * p \in Nat /\ b * q \in Nat /\ b * (q + 1) \in Nat
    BY <1>2
  <2> QED BY <1>2, <2>1, <2>2, <2>3
<1> QED BY <1>2, <1>3, <1>4 DEF p

LEMMA Division ==
    ASSUME NEW n \in Nat, NEW b \in Nat \ {0}
    PROVE  n \div b \in Nat /\ n % b \in 0..b - 1 /\ n = b * (n \div b) + (n % b)
OBVIOUS

-----------------------------------------------------------------------------
(* Lists: sequences known item by item *)

IsList(f, n) == n \in Nat /\ f = [k \in 1..n |-> f[k]]

LEMMA ListLength == ASSUME NEW f, NEW n, IsList(f, n) PROVE Len(f) = n /\ DOMAIN f = 1..n
BY DEF IsList

\* x is a put behind b.
Behind(x, a, n, b, m) ==
    /\ IsList(x, n + m)
    /\ \A k \in 1..n : x[k] = a[k]
    /\ \A k \in 1..m : x[n + k] = b[k]

LEMMA ListConcat ==
    ASSUME NEW a, NEW n, IsList(a, n), NEW b, NEW m, IsList(b, m)
    PROVE  Behind(a \o b, a, n, b, m)
<1> DEFINE V == {a[k] : k \in 1..n} \cup {b[k] : k \in 1..m}
<1>1. n \in Nat /\ m \in Nat /\ Len(a) = n /\ Len(b) = m
  BY ListLength DEF IsList
<1>2. a \in Seq(V) /\ b \in Seq(V)
  <2>1. a \in [1..n -> V] /\ b \in [1..m -> V]
    BY DEF IsList
  <2> HIDE DEF V
  <2> QED BY <1>1, <2>1
<1> HIDE DEF V
<1> DEFINE x == a \o b
<1>3. Joined(V, x, a, b, n, m)
  BY <1>1, <1>2, Concat
<1> HIDE DEF x
<1>4. x = [k \in 1..n + m |-> x[k]]
  BY <1>1, <1>3 DEF Joined
<1>5. \A k \in 1..n : x[k] = a[k]
  BY <1>1, <1>3 DEF Joined
<1>6. ASSUME NEW k \in 1..m PROVE x[n + k] = b[k]
  BY <1>1, <1>3 DEF Joined
<1> QED BY <1>1, <1>4, <1>5, <1>6 DEF Behind, IsList, x

\* x is a with e behind it.
Appended(x, a, n, e) == IsList(x, n + 1) /\ x[n + 1] = e /\ \A k \in 1..n : x[k] = a[k]

LEMMA ListAppend ==
    ASSUME NEW a, NEW n, IsList(a, n), NEW e
    PROVE  Appended(Append(a, e), a, n, e)
<1>1. n \in Nat /\ Len(a) = n /\ DOMAIN a = 1..n
  BY ListLength DEF IsList
<1> DEFINE x == Append(a, e)  V == {a[k] : k \in 1..n} \cup {e}
<1>2. a \in Seq(V) /\ e \in V
  <2>1. a \in [1..n -> V] /\ e \in V
    BY DEF IsList
  <2> HIDE DEF V
  <2> QED BY <1>1, <2>1
<1> HIDE DEF V
<1>3. /\ x \in Seq(V) /\ Len(x) = n + 1 /\ x[n + 1] = e /\ \A k \in 1..n : x[k] = a[k]
  BY <1>1, <1>2, AppendProperties
<1> HIDE DEF x
<1>4. x = [k \in 1..n + 1 |-> x[k]]
  BY <1>1, <1>3
<1> QED BY <1>1, <1>3, <1>4 DEF IsList, x, Appended

\* n items from behind the first r.
LEMMA ListCut ==
    ASSUME NEW f, NEW r \in Nat, NEW n \in Nat, NEW e, e = r + n
    PROVE  SubSeq(f, r + 1, e) = [k \in 1..n |-> f[r + k]]
<1>1. SubSeq(f, r + 1, e) = [k \in 1..(1 + e - (r + 1)) |-> f[k + (r + 1) - 1]]
  OBVIOUS
<1>2. 1 + e - (r + 1) = n
  OBVIOUS
<1>3. \A k \in 1..n : k + (r + 1) - 1 = r + k
  OBVIOUS
<1>4. [k \in 1..n |-> f[k + (r + 1) - 1]] = [k \in 1..n |-> f[r + k]]
  BY <1>3
<1> QED BY <1>1, <1>2, <1>4

\* x is the pieces s, of c[m] items each, put together.
IsFlat(x, s, c, n) ==
    /\ IsList(x, Before(c, n + 1))
    /\ \A m \in 1..n : \A k \in 1..c[m] : x[Before(c, m) + k] = s[m][k]

LEMMA FlatItems ==
    ASSUME NEW n \in Nat, NEW c, Growing(c, n), NEW s, s = [m \in 1..n |-> s[m]],
           \A m \in 1..n : IsList(s[m], c[m])
    PROVE  IsFlat(FlattenSeq(s), s, c, n)
<1> DEFINE P(k) == PlaceOf(c, n, k - 1)
           S == [k \in Nat |-> s[P(k)][k - Before(c, P(k))]]
           x == FlattenSeq(s)
<1>1. ASSUME NEW m \in 1..n, NEW k \in 1..c[m]
      PROVE  S[Before(c, m) + k] = s[m][k]
  <2>1. Before(c, m) \in Nat /\ c[m] \in Nat /\ Before(c, m + 1) = Before(c, m) + c[m]
    BY DEF Growing
  <2> DEFINE p == Before(c, m) + k
  <2>2. p \in Nat /\ p - 1 \in Nat /\ Before(c, m) <= p - 1 /\ p - 1 < Before(c, m + 1) /\ p - Before(c, m) = k
    BY <2>1
  <2> HIDE DEF p
  <2>3. P(p) = m
    BY <2>2, PlaceFound
  <2>4. S[p] = s[P(p)][p - Before(c, P(p))]
    BY <2>2
  <2> HIDE DEF P, S
  <2>5. S[p] = s[m][p - Before(c, m)]
    BY <2>3, <2>4
  <2> QED BY <2>2, <2>5 DEF p
<1> HIDE DEF S
<1>2. \A m \in 1..n : IsPiece(s[m], S, Before(c, m), c[m])
  BY <1>1 DEF IsPiece, IsList
<1>3. Window(x, S, 0, Before(c, n + 1))
  BY <1>2, FlatteningIs
<1>4. Before(c, n + 1) \in Nat
  BY DEF Growing
<1>5. IsList(x, Before(c, n + 1)) /\ \A k \in 1..Before(c, n + 1) : x[k] = S[k]
  <2> DEFINE w == Before(c, n + 1)
  <2>1. w \in Nat /\ w - 0 = w
    BY <1>4
  <2>2. Window(x, S, 0, w)
    BY <1>3
  <2> HIDE DEF w, x
  <2>3. x = [k \in 1..w |-> S[0 + k]]
    BY <2>1, <2>2 DEF Window
  <2>4. \A k \in 1..w : 0 + k = k
    BY <2>1
  <2> QED BY <2>1, <2>3, <2>4 DEF IsList, w
<1>6. ASSUME NEW m \in 1..n, NEW k \in 1..c[m] PROVE x[Before(c, m) + k] = s[m][k]
  <2>1. Before(c, m) \in Nat /\ c[m] \in Nat /\ Before(c, m + 1) = Before(c, m) + c[m]
    BY DEF Growing
  <2>2. Before(c, m + 1) <= Before(c, n + 1)
    <3>1. n + 1 \in 1..n + 1 /\ m + 1 \in 1..n + 1
      OBVIOUS
    <3> QED BY <3>1 DEF Growing
  <2>3. Before(c, m) + k \in 1..Before(c, n + 1)
    BY <1>4, <2>1, <2>2
  <2> QED BY <1>1, <1>5, <2>3
<1> QED BY <1>5, <1>6 DEF IsFlat

-----------------------------------------------------------------------------
(* Blocks *)

BL == block_length
HOST == HOST_BUFFER_SIZE

\* The blocks of n bytes.
Blocks(n) == (n - 1) \div BL + 1

LEMMA Params ==
    /\ NUM_BLOCK \in Nat \ {0} /\ MIN_B_SIZE \in Nat \ {0} /\ HOST \in Nat \ {0}
    /\ Byte \in Nat /\ Byte > 2 /\ Byte % 2 = 0 /\ PB = 8 /\ BL \in Nat \ {0} /\ BL = Byte * Byte
    /\ Byte < BL /\ MIN_B_SIZE <= BL
    /\ \E h \in Nat \ {0} : HOST = BL * h
<1>1. /\ NUM_BLOCK \in Nat \ {0} /\ MIN_B_SIZE \in Nat \ {0} /\ HOST \in Nat \ {0}
      /\ Byte \in Nat /\ Byte > 2 /\ Byte % 2 = 0 /\ PB = 8 /\ MIN_B_SIZE <= BL /\ HOST % BL = 0
  BY FrameAssumption DEF PB, BL, HOST
<1>2. BL = Byte * Byte
  BY DEF BL, block_length
<1>3. BL \in Nat /\ Byte < BL
  <2>1. Byte * Byte >= Byte * 2
    BY <1>1, SMTT(30)
  <2>2. Byte * Byte \in Nat
    BY <1>1
  <2> QED BY <1>1, <1>2, <2>1, <2>2
<1> DEFINE h == HOST \div BL
<1>4. h \in Nat /\ HOST = BL * h + (HOST % BL)
  BY <1>1, <1>3, Division
<1> HIDE DEF h
<1>5. HOST = BL * h /\ h # 0
  BY <1>1, <1>3, <1>4
<1> QED BY <1>1, <1>2, <1>3, <1>4, <1>5

LEMMA Monotone ==
    ASSUME NEW a \in Nat, NEW x \in Nat, NEW y \in Nat, x <= y
    PROVE  a * x \in Nat /\ a * y \in Nat /\ a * x <= a * y
<1>1. a * x \in Nat /\ a * y \in Nat
  OBVIOUS
<1>2. a * x <= a * y
  <2>1. y - x \in Nat
    OBVIOUS
  <2>2. a * (y - x) \in Nat
    BY <2>1
  <2>3. a * (y - x) = a * y - a * x
    OBVIOUS
  <2> QED BY <1>1, <2>2, <2>3
<1> QED BY <1>1, <1>2

LEMMA Next1 == ASSUME NEW a \in Nat, NEW x \in Nat PROVE a * (x + 1) = a * x + a /\ a * x \in Nat
OBVIOUS

\* A block starts within the n bytes iff it is one of them.
LEMMA BlocksAre ==
    ASSUME NEW n \in Nat \ {0}
    PROVE  /\ Blocks(n) \in Nat \ {0}
           /\ \A g \in Nat : BL * g \in Nat /\ (BL * g < n <=> g < Blocks(n))
<1> DEFINE q == (n - 1) \div BL  d == (n - 1) % BL
<1>1. q \in Nat /\ d \in 0..BL - 1 /\ n - 1 = BL * q + d /\ BL \in Nat \ {0}
  <2>1. n - 1 \in Nat /\ BL \in Nat \ {0}
    BY Params
  <2> QED BY <2>1, Division
<1>2. Blocks(n) = q + 1
  BY DEF Blocks
<1> HIDE DEF q, d
<1>3. BL * (q + 1) = BL * q + BL /\ BL * q \in Nat
  BY <1>1, Next1
<1>4. ASSUME NEW g \in Nat PROVE BL * g \in Nat /\ (BL * g < n <=> g < q + 1)
  <2>1. CASE g <= q
    <3>1. BL * g \in Nat /\ BL * g <= BL * q
      BY <1>1, <2>1, Monotone
    <3> QED BY <1>1, <1>3, <2>1, <3>1
  <2>2. CASE q + 1 <= g
    <3>1. BL * g \in Nat /\ BL * (q + 1) <= BL * g
      BY <1>1, <2>2, Monotone
    <3> QED BY <1>1, <1>3, <2>2, <3>1
  <2> QED BY <1>1, <2>1, <2>2
<1> QED BY <1>1, <1>2, <1>4

\* The length of block g of n bytes.
BlockIs(n, g, x) == /\ x \in 1..BL /\ x = AtMost(n - BL * g, BL)
                    /\ BL * g + x <= n
                    /\ g + 1 < Blocks(n) => x = BL
                    /\ g + 1 = Blocks(n) => BL * g + x = n
LEMMA BlockLength ==
    ASSUME NEW n \in Nat \ {0}, NEW g \in Nat, g < Blocks(n)
    PROVE  BlockIs(n, g, AtMost(n - BL * g, BL))
<1>1. BL \in Nat \ {0} /\ BL * g \in Nat /\ BL * g < n /\ BL * (g + 1) = BL * g + BL
  BY BlocksAre, Params, Next1
<1>2. BL * (g + 1) < n <=> g + 1 < Blocks(n)
  <2>1. g + 1 \in Nat
    OBVIOUS
  <2> QED BY <2>1, BlocksAre
<1> DEFINE y == BL * g
<1>3. BL \in Nat \ {0} /\ y \in Nat /\ y < n /\ (y + BL < n <=> g + 1 < Blocks(n))
  BY <1>1, <1>2
<1>4. SUFFICES /\ AtMost(n - y, BL) \in 1..BL /\ y + AtMost(n - y, BL) <= n
               /\ g + 1 < Blocks(n) => AtMost(n - y, BL) = BL
               /\ g + 1 = Blocks(n) => y + AtMost(n - y, BL) = n
  BY DEF BlockIs
<1> HIDE DEF y
<1>5. Blocks(n) \in Nat
  BY BlocksAre
<1> QED BY <1>3, <1>5 DEF AtMost

-----------------------------------------------------------------------------
(* The inductive invariant of the host and the kernel *)

\* What a lane writes of n bytes from a place of the file, and the bytes of such a
\* block in the frame.
Rec(from, size, n) == [from |-> from, size |-> size, bytes |-> n, whole |-> TRUE]
Code(from, size, n) == IF n < size THEN SizeBytes(n) \o PackedBytes(Rec(from, size, n), n)
                       ELSE StoredBytes(size) \o RawBytes(from, size)

\* Block g of the file has Z[g] bytes in the frame, and O[g] bytes are before it.
FileBlock(g) == AtMost(input_size - BL * (g - 1), BL)
Laid(fr, O, Z, g) == /\ Z[g] \in 1..FileBlock(g) /\ O[g + 1] = O[g] + (4 + Z[g])
                     /\ \A k \in 1..4 + Z[g] : fr[O[g] + k] = Code(BL * (g - 1), FileBlock(g), Z[g])[k]
Offsets(O, G) == /\ O[1] = 7
                 /\ \A g \in 1..G + 1 : O[g] \in Nat /\ \A h \in 1..g : O[h] <= O[g]
Written(fr, O, Z, G) == Offsets(O, G) /\ \A g \in 1..G : Laid(fr, O, Z, g)

\* Block b of the chunk is reported to have n bytes, of which x is in its place.
Good(b, n, x) == /\ n \in 1..BlockSize(b)
                 /\ n < BlockSize(b) => x = Rec(inIdx + BL * b, BlockSize(b), n)

LaneRec == [small : BOOLEAN, small_inSize : Nat, size : Nat, in : Nat, out : Nat, out_size : Nat, limited : BOOLEAN]

\* A lane that block b, of n bytes, is given to.
Takes(l, b, n) ==
    IF n < MIN_B_SIZE THEN l.small /\ l.small_inSize = n /\ l.size = 0
    ELSE ~l.small /\ l.size = n /\ l.in = BL * b /\ l.out = BL * b

\* What a round gives to a lane.
Given(j) == IF j < nblocks THEN Takes(lanes[j], i + j, BlockSize(i + j)) ELSE lanes[j].size = 0

InChunk == /\ inIdx < input_size /\ chunk = AtMost(input_size - inIdx, HOST)
           /\ DOMAIN buf_out = 0..HOST \div BL - 1

Reported0 == \A b \in Nat : b < i => Good(b, compressd_size[b + 1], buf_out[b])
Working == /\ i \in Nat /\ i < no_blocks
           /\ IsList(compressd_size, i) /\ Reported0
LanesGood == \A j \in Lanes : j < nblocks => Good(i + j, Reported(lanes[j]), buf_out[i + j])
ChunkGood == /\ IsList(compressd_size, no_blocks)
             /\ \A b \in Nat : b < no_blocks => Good(b, compressd_size[b + 1], buf_out[b])
Rounds == /\ InChunk
          /\ hpc \in {"round", "compress", "report"} => Working
          /\ hpc = "round" => readBlockSize = BL * i
          /\ hpc \in {"compress", "report"} => (i + NUM_BLOCK < no_blocks => readBlockSize = BL * (i + NUM_BLOCK))
          /\ hpc = "compress" => \A j \in Lanes : Given(j)
          /\ hpc = "report" => LanesGood
          /\ hpc = "write" => ChunkGood
HostInv == /\ hpc \in {"chunk", "round", "compress", "report", "write"}
           /\ input_size \in Nat \ {0} /\ \E c \in Nat : inIdx = HOST * c
           /\ lanes \in [Lanes -> LaneRec]
           /\ hpc # "chunk" => Rounds

\* The blocks that are in the frame so far.
Placed(G) == IF inIdx < input_size THEN inIdx = BL * G ELSE G = Blocks(input_size)
Framed == \E O, Z : \E G \in Nat : Written(frame, O, Z, G) /\ IsList(frame, O[G + 1]) /\ Placed(G)
Waiting == rpc = "wait" /\ outStream = <<>> /\ blockInfoStream = <<>>

HostPhase == HostInv /\ Framed /\ Waiting

-----------------------------------------------------------------------------
(* The chunks, and the rounds of the kernel *)

LEMMA ChunkFacts ==
    ASSUME HostInv, InChunk
    PROVE  /\ inIdx \in Nat /\ input_size \in Nat \ {0} /\ chunk \in Nat \ {0} /\ no_blocks = Blocks(chunk)
           /\ inIdx + chunk <= input_size /\ chunk <= HOST
           /\ chunk = HOST \/ inIdx + chunk = input_size
           /\ \A b : BlockSize(b) = AtMost(chunk - b * BL, BL)
           /\ \A b \in Nat : b < no_blocks => BlockIs(chunk, b, BlockSize(b))
<1>1. inIdx \in Nat /\ input_size \in Nat \ {0} /\ HOST \in Nat \ {0}
  <2>1. PICK c \in Nat : inIdx = HOST * c
    BY DEF HostInv
  <2> QED BY <2>1, Params DEF HostInv
<1>2. chunk \in Nat \ {0} /\ inIdx + chunk <= input_size /\ chunk <= HOST /\ (chunk = HOST \/ inIdx + chunk = input_size)
  BY <1>1 DEF InChunk, AtMost
<1>3. no_blocks = Blocks(chunk)
  BY DEF no_blocks, Blocks, BL
<1>4. \A b : BlockSize(b) = AtMost(chunk - b * BL, BL)
  BY DEF BlockSize, BL
<1>5. ASSUME NEW b \in Nat, b < no_blocks PROVE BlockIs(chunk, b, BlockSize(b))
  <2>1. BlockIs(chunk, b, AtMost(chunk - BL * b, BL))
    BY <1>2, <1>3, <1>5, BlockLength
  <2>2. b * BL = BL * b
    BY Params
  <2> QED BY <1>4, <2>1, <2>2
<1> QED BY <1>1, <1>2, <1>3, <1>4, <1>5

LEMMA FrameUntouched ==
    ASSUME HostPhase, input_size' = input_size, inIdx' = inIdx, frame' = frame, readerVars' = readerVars
    PROVE  Framed' /\ Waiting'
<1>1. \A g : FileBlock(g)' = FileBlock(g)
  BY DEF FileBlock
<1>2. \A O, Z, g : Laid(frame, O, Z, g)' = Laid(frame, O, Z, g)
  BY <1>1 DEF Laid
<1>3. \A O, Z, G : Written(frame, O, Z, G)' = Written(frame, O, Z, G)
  BY <1>2 DEF Written
<1>4. \A G : Placed(G)' = Placed(G)
  BY DEF Placed
<1>5. PICK O, Z : \E G \in Nat : Written(frame, O, Z, G) /\ IsList(frame, O[G + 1]) /\ Placed(G)
  BY DEF HostPhase, Framed
<1> PICK G \in Nat : Written(frame, O, Z, G) /\ IsList(frame, O[G + 1]) /\ Placed(G)
  BY <1>5
<1>6. Written(frame, O, Z, G)' /\ IsList(frame', O[G + 1]) /\ Placed(G)'
  BY <1>3, <1>4, <1>5
<1>7. Framed'
  BY <1>6 DEF Framed
<1>8. Waiting'
  BY DEF HostPhase, Waiting, readerVars
<1> QED BY <1>7, <1>8

LEMMA NextChunkKept == ASSUME HostPhase, NextChunk PROVE HostPhase'
<1>1. /\ hpc = "chunk" /\ inIdx < input_size /\ chunk' = AtMost(input_size - inIdx, HOST)
      /\ i' = 0 /\ readBlockSize' = 0 /\ compressd_size' = <<>> /\ hpc' = "round"
      /\ DOMAIN buf_out' = 0..HOST \div BL - 1
      /\ UNCHANGED <<input_size, inIdx, lanes, frame, readerVars>>
  BY DEF NextChunk, HOST, BL
<1>2. inIdx \in Nat /\ input_size \in Nat \ {0} /\ HOST \in Nat \ {0}
  <2>1. PICK c \in Nat : inIdx = HOST * c
    BY DEF HostPhase, HostInv
  <2> QED BY <2>1, Params DEF HostPhase, HostInv
<1>3. chunk' \in Nat \ {0}
  BY <1>1, <1>2 DEF AtMost
<1>4. 0 < no_blocks' /\ no_blocks' \in Nat
  <2>1. Blocks(chunk') \in Nat \ {0}
    BY <1>3, BlocksAre
  <2>2. no_blocks' = Blocks(chunk')
    BY DEF no_blocks, Blocks, BL
  <2> QED BY <2>1, <2>2
<1>5. IsList(<<>>, 0)
  BY DEF IsList
<1>6. BL * 0 = 0
  BY Params
<1>7. Working'
  BY <1>1, <1>4, <1>5 DEF Working, Reported0
<1>8. InChunk'
  BY <1>1 DEF InChunk
<1>9. HostInv'
  BY <1>1, <1>6, <1>7, <1>8 DEF HostPhase, HostInv, Rounds
<1>10. Framed' /\ Waiting'
  BY <1>1, FrameUntouched
<1> QED BY <1>9, <1>10 DEF HostPhase

\* readBlockSize before lane j, and after the last.
IsRead(f) == f = [j \in 0..NUM_BLOCK |-> IF j = 0 THEN readBlockSize ELSE f[j - 1] + LaneFor(j - 1, f[j - 1]).size]

\* What EXCEPT makes of a lane.
IsIdle(l, m) == l = [m EXCEPT !.size = 0, !.in = 0, !.out_size = 0, !.limited = FALSE]
IsSmall(l, m, n) == l = [m EXCEPT !.small = TRUE, !.small_inSize = n, !.size = 0, !.in = 0,
                                  !.out_size = 0, !.limited = FALSE]
IsBusy(l, m, n, y) == l = [m EXCEPT !.small = FALSE, !.size = n, !.in = y, !.out = y, !.out_size = 0,
                                    !.limited = FALSE]
At(l, n, y) == ~l.small /\ l.size = n /\ l.in = y /\ l.out = y
IsDone(l, m, n, x) == l = [m EXCEPT !.out_size = n, !.limited = x]

LEMMA LaneIdle ==
    ASSUME NEW m \in LaneRec, NEW l, IsIdle(l, m)
    PROVE  l \in LaneRec /\ l.size = 0
BY DEF LaneRec, IsIdle

LEMMA LaneSmall ==
    ASSUME NEW m \in LaneRec, NEW n \in Nat, NEW l, IsSmall(l, m, n)
    PROVE  l \in LaneRec /\ l.small = TRUE /\ l.small_inSize = n /\ l.size = 0
<1>1. l \in LaneRec
  BY DEF LaneRec, IsSmall
<1>2. l.small = TRUE
  BY DEF LaneRec, IsSmall
<1>3. l.small_inSize = n
  BY DEF LaneRec, IsSmall
<1>4. l.size = 0
  BY DEF LaneRec, IsSmall
<1> QED BY <1>1, <1>2, <1>3, <1>4

LEMMA LaneBusy ==
    ASSUME NEW m \in LaneRec, NEW n \in Nat, NEW y \in Nat, NEW l, IsBusy(l, m, n, y)
    PROVE  l \in LaneRec /\ At(l, n, y)
<1>1. l \in LaneRec
  BY DEF LaneRec, IsBusy
<1>2. l.small = FALSE
  BY DEF LaneRec, IsBusy
<1>3. l.size = n
  BY DEF LaneRec, IsBusy
<1>4. l.in = y
  BY DEF LaneRec, IsBusy
<1>5. l.out = y
  BY DEF LaneRec, IsBusy
<1> QED BY <1>1, <1>2, <1>3, <1>4, <1>5 DEF At

LEMMA LaneDone ==
    ASSUME NEW m \in LaneRec, NEW n \in Nat, NEW x \in BOOLEAN, NEW l, IsDone(l, m, n, x)
    PROVE  l \in LaneRec /\ l.small = m.small /\ l.small_inSize = m.small_inSize /\ l.size = m.size /\ l.out_size = n /\ l.limited = x
<1>1. l \in LaneRec
  BY DEF LaneRec, IsDone
<1>2. l.small = m.small
  BY DEF LaneRec, IsDone
<1>3. l.small_inSize = m.small_inSize
  BY DEF LaneRec, IsDone
<1>4. l.size = m.size
  BY DEF LaneRec, IsDone
<1>5. l.out_size = n
  BY DEF LaneRec, IsDone
<1>6. l.limited = x
  BY DEF LaneRec, IsDone
<1> QED BY <1>1, <1>2, <1>3, <1>4, <1>5, <1>6

LEMMA LaneForIs ==
    ASSUME NEW j \in Lanes, lanes \in [Lanes -> LaneRec], i \in Nat, nblocks \in Int, NEW r, NEW n,
           n = AtMost(chunk - r, BL), j < nblocks => n \in Nat
    PROVE  /\ LaneFor(j, r) \in LaneRec
           /\ j < nblocks => Takes(LaneFor(j, r), i + j, n)
           /\ ~(j < nblocks) => LaneFor(j, r).size = 0
<1> DEFINE m == lanes[j]
<1>1. m \in LaneRec /\ j \in Nat /\ BL \in Nat
  BY Params DEF Lanes
<1>2. (i + j) * BL = BL * (i + j) /\ BL * (i + j) \in Nat
  BY <1>1
<1> DEFINE y == BL * (i + j)
<1> DEFINE l == LaneFor(j, r)
<1>3. IF ~(j < nblocks) THEN IsIdle(l, m) ELSE IF n < MIN_B_SIZE THEN IsSmall(l, m, n) ELSE IsBusy(l, m, n, y)
  <2>1. j >= nblocks <=> ~(j < nblocks)
    BY <1>1
  <2> QED BY <1>2, <2>1 DEF LaneFor, BL, IsIdle, IsSmall, IsBusy
<1>4. y \in Nat
  BY <1>2
<1> HIDE DEF m, y, l
<1>5. CASE ~(j < nblocks)
  <2>1. l \in LaneRec /\ l.size = 0
    BY <1>1, <1>3, <1>5, LaneIdle
  <2> QED BY <1>5, <2>1 DEF l
<1>6. CASE j < nblocks /\ n < MIN_B_SIZE
  <2>1. IsSmall(l, m, n) /\ n \in Nat
    BY <1>3, <1>6
  <2>2. l \in LaneRec /\ l.small = TRUE /\ l.small_inSize = n /\ l.size = 0
    BY <1>1, <2>1, LaneSmall
  <2> QED BY <1>6, <2>2 DEF l, Takes
<1>7. CASE j < nblocks /\ ~(n < MIN_B_SIZE)
  <2>1. IsBusy(l, m, n, y) /\ n \in Nat
    BY <1>3, <1>7
  <2>2. l \in LaneRec /\ At(l, n, y)
    BY <1>1, <1>4, <2>1, LaneBusy
  <2> QED BY <1>7, <2>2 DEF l, Takes, At, y
<1> QED BY <1>5, <1>6, <1>7

\* The lanes of a round and the blocks they get.
RoundSize == /\ nblocks \in Nat \ {0} /\ nblocks <= NUM_BLOCK /\ i + nblocks <= no_blocks
             /\ nblocks < NUM_BLOCK => i + nblocks = no_blocks
             /\ i + NUM_BLOCK < no_blocks => nblocks = NUM_BLOCK
             /\ i + NUM_BLOCK >= no_blocks => i + nblocks = no_blocks
LEMMA RoundFacts ==
    ASSUME HostInv, InChunk, Working
    PROVE  RoundSize /\ i \in Nat /\ no_blocks \in Nat /\ no_blocks = Blocks(chunk)
<1>1. no_blocks = Blocks(chunk) /\ chunk \in Nat \ {0}
  BY ChunkFacts
<1>2. no_blocks \in Nat
  BY <1>1, BlocksAre
<1>3. i \in Nat /\ i < no_blocks
  BY DEF Working
<1>4. RoundSize
  BY <1>2, <1>3, Params DEF RoundSize, nblocks, AtMost
<1> QED BY <1>1, <1>2, <1>3, <1>4

\* A block that is not the last one of the chunk is whole.
LEMMA GivenLane ==
    ASSUME HostInv, InChunk, Working, NEW j \in Lanes
    PROVE  /\ \A r : ~(j < nblocks) => LaneFor(j, r) \in LaneRec /\ LaneFor(j, r).size = 0
           /\ j < nblocks => /\ LaneFor(j, BL * (i + j)) \in LaneRec
                             /\ Takes(LaneFor(j, BL * (i + j)), i + j, BlockSize(i + j))
                             /\ i + j + 1 < no_blocks => LaneFor(j, BL * (i + j)).size = BL
<1>1. RoundSize /\ i \in Nat /\ no_blocks \in Nat /\ no_blocks = Blocks(chunk)
  BY RoundFacts
<1>2. j \in Nat /\ nblocks \in Int /\ lanes \in [Lanes -> LaneRec] /\ BL \in Nat /\ MIN_B_SIZE <= BL /\ MIN_B_SIZE \in Nat
  BY <1>1, Params DEF RoundSize, HostInv, Lanes
<1>3. ASSUME NEW r, ~(j < nblocks) PROVE LaneFor(j, r) \in LaneRec /\ LaneFor(j, r).size = 0
  <2>1. \A n : n = AtMost(chunk - r, BL) => LaneFor(j, r) \in LaneRec /\ LaneFor(j, r).size = 0
    BY <1>1, <1>2, <1>3, LaneForIs
  <2> QED BY <2>1
<1>4. ASSUME j < nblocks
      PROVE  /\ LaneFor(j, BL * (i + j)) \in LaneRec
             /\ Takes(LaneFor(j, BL * (i + j)), i + j, BlockSize(i + j))
             /\ i + j + 1 < no_blocks => LaneFor(j, BL * (i + j)).size = BL
  <2> DEFINE b == i + j  n == BlockSize(i + j)  r == BL * (i + j)
  <2>1. b \in Nat /\ b < no_blocks
    BY <1>1, <1>2, <1>4 DEF RoundSize
  <2>2. BlockIs(chunk, b, n)
    BY <2>1, ChunkFacts
  <2>3. n = AtMost(chunk - r, BL) /\ n \in Nat
    BY <2>2 DEF BlockIs
  <2>4. b + 1 < no_blocks => n = BL
    BY <1>1, <2>2 DEF BlockIs
  <2> HIDE DEF n, r
  <2>5. LaneFor(j, r) \in LaneRec /\ Takes(LaneFor(j, r), i + j, n)
    BY <1>1, <1>2, <1>4, <2>3, LaneForIs
  <2>6. b + 1 < no_blocks => LaneFor(j, r).size = BL
    BY <1>2, <2>4, <2>5 DEF Takes
  <2> QED BY <2>5, <2>6 DEF n, r
<1> QED BY <1>3, <1>4

LEMMA ReadsAgree ==
    ASSUME NEW f, IsRead(f), NEW g, IsRead(g)
    PROVE  \A j \in 0..NUM_BLOCK : f[j] = g[j]
<1> DEFINE h(j, x) == x + LaneFor(j, x).size
           T == {j \in Nat : j <= NUM_BLOCK => f[j] = g[j]}
<1>1. \A j \in 0..NUM_BLOCK : /\ f[j] = IF j = 0 THEN readBlockSize ELSE h(j - 1, f[j - 1])
                              /\ g[j] = IF j = 0 THEN readBlockSize ELSE h(j - 1, g[j - 1])
  BY DEF IsRead
<1> HIDE DEF h
<1>2. NUM_BLOCK \in Nat
  BY Params
<1>3. 0 \in T
  BY <1>1, <1>2
<1>4. ASSUME NEW j \in Nat, j \in T PROVE j + 1 \in T
  <2>1. SUFFICES ASSUME j + 1 <= NUM_BLOCK PROVE f[j + 1] = g[j + 1]
    OBVIOUS
  <2>2. j + 1 \in 0..NUM_BLOCK /\ j + 1 # 0 /\ (j + 1) - 1 = j /\ f[j] = g[j]
    BY <1>2, <1>4, <2>1
  <2> QED BY <1>1, <2>2
<1>5. Nat \subseteq T
  BY <1>3, <1>4, SetInduction
<1> QED BY <1>2, <1>5

\* Before lane j, the blocks of the lanes before it have been given out.
LEMMA ReadIs ==
    ASSUME HostInv, InChunk, Working, readBlockSize = BL * i
    PROVE  \E f : /\ IsRead(f)
                  /\ \A j \in Nat : j < nblocks => f[j] = BL * (i + j)
                  /\ i + NUM_BLOCK < no_blocks => f[NUM_BLOCK] = BL * (i + NUM_BLOCK)
<1>1. RoundSize /\ i \in Nat /\ no_blocks \in Nat
  BY RoundFacts
<1>2. NUM_BLOCK \in Nat \ {0} /\ BL \in Nat
  BY Params
<1> DEFINE h(j, x) == x + LaneFor(j, x).size
           l == BL * (i + (nblocks - 1))
           f == [j \in 0..NUM_BLOCK |-> IF j < nblocks THEN BL * (i + j) ELSE h(nblocks - 1, l)]
<1>3. nblocks \in Nat \ {0} /\ nblocks <= NUM_BLOCK /\ nblocks - 1 \in Nat /\ nblocks - 1 < nblocks
  BY <1>1 DEF RoundSize
<1>4. ASSUME NEW j \in 1..NUM_BLOCK, j < nblocks PROVE h(j - 1, BL * (i + (j - 1))) = BL * (i + j)
  <2>1. j - 1 \in Lanes /\ j - 1 < nblocks
    BY <1>1, <1>2, <1>3, <1>4 DEF Lanes
  <2>2. i + (j - 1) + 1 < no_blocks
    BY <1>1, <1>4 DEF RoundSize
  <2>3. LaneFor(j - 1, BL * (i + (j - 1))).size = BL
    BY <2>1, <2>2, GivenLane
  <2>4. BL * (i + j) = BL * (i + (j - 1)) + BL
    <3>1. i + (j - 1) \in Nat /\ (i + (j - 1)) + 1 = i + j
      BY <1>1
    <3> QED BY <1>2, <3>1, Next1
  <2> QED BY <2>3, <2>4
<1>5. ASSUME NEW j \in 1..NUM_BLOCK, j > nblocks, NEW x \in Nat PROVE h(j - 1, x) = x
  <2>1. j - 1 \in Lanes /\ ~(j - 1 < nblocks)
    BY <1>2, <1>3, <1>5 DEF Lanes
  <2>2. LaneFor(j - 1, x).size = 0
    BY <2>1, GivenLane
  <2> QED BY <2>2
<1>6. l \in Nat /\ h(nblocks - 1, l) \in Nat
  <2>1. i + (nblocks - 1) \in Nat
    BY <1>1, <1>3
  <2>2. l \in Nat
    BY <1>2, <2>1
  <2>3. nblocks - 1 \in Lanes
    BY <1>2, <1>3 DEF Lanes
  <2>4. LaneFor(nblocks - 1, l) \in LaneRec
    BY <1>3, <2>3, GivenLane
  <2>5. LaneFor(nblocks - 1, l).size \in Nat
    BY <2>4 DEF LaneRec
  <2> QED BY <2>2, <2>5
<1>7. ASSUME NEW j \in 0..NUM_BLOCK
      PROVE  f[j] = IF j = 0 THEN readBlockSize ELSE h(j - 1, f[j - 1])
  <2>1. CASE j = 0
    BY <1>1, <1>2, <1>3, <2>1
  <2>2. CASE j # 0 /\ j < nblocks
    <3>1. j \in 1..NUM_BLOCK /\ j - 1 \in 0..NUM_BLOCK /\ j - 1 < nblocks
      BY <1>2, <1>3, <2>2
    <3>2. f[j] = BL * (i + j) /\ f[j - 1] = BL * (i + (j - 1))
      BY <2>2, <3>1
    <3> HIDE DEF f, h
    <3> QED BY <1>4, <2>2, <3>1, <3>2
  <2>3. CASE j # 0 /\ j = nblocks
    <3>1. j - 1 \in 0..NUM_BLOCK /\ j - 1 < nblocks /\ ~(j < nblocks)
      BY <1>2, <1>3, <2>3
    <3>2. f[j] = h(nblocks - 1, l) /\ f[j - 1] = l
      BY <2>3, <3>1
    <3> HIDE DEF f, h, l
    <3> QED BY <2>3, <3>2
  <2>4. CASE j # 0 /\ j > nblocks
    <3>1. j \in 1..NUM_BLOCK /\ j - 1 \in 0..NUM_BLOCK /\ ~(j - 1 < nblocks) /\ ~(j < nblocks)
      BY <1>2, <1>3, <2>4
    <3> DEFINE y == h(nblocks - 1, l)
    <3>2. f[j] = y /\ f[j - 1] = y /\ y \in Nat
      BY <1>6, <3>1
    <3> HIDE DEF f, y, l
    <3>3. h(j - 1, y) = y
      BY <1>5, <2>4, <3>1, <3>2
    <3> QED BY <2>4, <3>2, <3>3
  <2> QED BY <1>3, <2>1, <2>2, <2>3, <2>4
<1>8. IsRead(f)
  <2>1. f = [j \in 0..NUM_BLOCK |-> IF j = 0 THEN readBlockSize ELSE h(j - 1, f[j - 1])]
    <3>1. f = [j \in 0..NUM_BLOCK |-> f[j]]
      OBVIOUS
    <3> HIDE DEF f, h
    <3> QED BY <1>7, <3>1
  <2> QED BY <2>1 DEF IsRead
<1>9. \A j \in Nat : j < nblocks => f[j] = BL * (i + j)
  BY <1>2, <1>3
<1>10. i + NUM_BLOCK < no_blocks => f[NUM_BLOCK] = BL * (i + NUM_BLOCK)
  <2>1. SUFFICES ASSUME i + NUM_BLOCK < no_blocks PROVE f[NUM_BLOCK] = BL * (i + NUM_BLOCK)
    OBVIOUS
  <2>2. nblocks = NUM_BLOCK
    BY <1>1, <2>1 DEF RoundSize
  <2>3. f[NUM_BLOCK] = h(NUM_BLOCK - 1, BL * (i + (NUM_BLOCK - 1)))
    BY <1>2, <2>2
  <2>4. NUM_BLOCK - 1 \in Lanes /\ NUM_BLOCK - 1 < nblocks /\ i + (NUM_BLOCK - 1) + 1 < no_blocks
    BY <1>1, <1>2, <2>1, <2>2 DEF Lanes
  <2>5. LaneFor(NUM_BLOCK - 1, BL * (i + (NUM_BLOCK - 1))).size = BL
    BY <2>4, GivenLane
  <2>6. BL * (i + NUM_BLOCK) = BL * (i + (NUM_BLOCK - 1)) + BL
    <3>1. i + (NUM_BLOCK - 1) \in Nat /\ (i + (NUM_BLOCK - 1)) + 1 = i + NUM_BLOCK
      BY <1>1, <1>2
    <3> QED BY <1>2, <3>1, Next1
  <2> HIDE DEF f
  <2> QED BY <2>3, <2>5, <2>6
<1> HIDE DEF f
<1> QED BY <1>8, <1>9, <1>10

LEMMA RoundKept == ASSUME HostPhase, Round PROVE HostPhase'
<1>1. HostInv /\ InChunk /\ Working /\ hpc = "round" /\ readBlockSize = BL * i
  BY DEF HostPhase, HostInv, Rounds, Round
<1>2. PICK f : /\ IsRead(f)
               /\ \A j \in Nat : j < nblocks => f[j] = BL * (i + j)
               /\ i + NUM_BLOCK < no_blocks => f[NUM_BLOCK] = BL * (i + NUM_BLOCK)
  BY <1>1, ReadIs
<1>3. PICK g : /\ IsRead(g) /\ lanes' = [j \in Lanes |-> LaneFor(j, g[j])]
               /\ readBlockSize' = g[NUM_BLOCK]
  <2> DEFINE g == CHOOSE g : IsRead(g)
  <2>1. IsRead(g)
    BY <1>2
  <2>2. lanes' = [j \in Lanes |-> LaneFor(j, g[j])] /\ readBlockSize' = g[NUM_BLOCK]
    BY DEF Round, IsRead
  <2> HIDE DEF g
  <2> QED BY <2>1, <2>2
<1>4. \A j \in 0..NUM_BLOCK : g[j] = f[j]
  BY <1>2, <1>3, ReadsAgree
<1>5. /\ hpc' = "compress"
      /\ UNCHANGED <<input_size, inIdx, chunk, i, compressd_size, buf_out, frame, readerVars>>
  BY DEF Round
<1>6. RoundSize /\ i \in Nat /\ no_blocks \in Nat
  BY <1>1, RoundFacts
<1>7. ASSUME NEW j \in Lanes
      PROVE  /\ lanes'[j] \in LaneRec
             /\ IF j < nblocks THEN Takes(lanes'[j], i + j, BlockSize(i + j)) ELSE lanes'[j].size = 0
  <2>1. j \in 0..NUM_BLOCK /\ j \in Nat
    BY Params DEF Lanes
  <2>2. lanes'[j] = LaneFor(j, f[j])
    BY <1>3, <1>4, <2>1
  <2>3. CASE j < nblocks
    <3>1. f[j] = BL * (i + j)
      BY <1>2, <2>1, <2>3
    <3>2. lanes'[j] = LaneFor(j, BL * (i + j))
      BY <2>2, <3>1
    <3> QED BY <1>1, <2>3, <3>2, GivenLane
  <2>4. CASE ~(j < nblocks)
    BY <1>1, <2>2, <2>4, GivenLane
  <2> QED BY <2>3, <2>4
<1>8. no_blocks' = no_blocks /\ nblocks' = nblocks /\ \A b : BlockSize(b)' = BlockSize(b)
  BY <1>5 DEF no_blocks, nblocks, BlockSize
<1>9. \A j \in Lanes : Given(j)'
  BY <1>5, <1>7, <1>8 DEF Given
<1>10. lanes' \in [Lanes -> LaneRec]
  BY <1>3, <1>7
<1>11. i + NUM_BLOCK < no_blocks => readBlockSize' = BL * (i + NUM_BLOCK)
  <2>1. NUM_BLOCK \in 0..NUM_BLOCK
    BY Params
  <2> QED BY <1>2, <1>3, <1>4, <2>1
<1>12. InChunk' /\ Working'
  BY <1>1, <1>5, <1>8 DEF InChunk, Working, Reported0, Good
<1>13. HostInv'
  BY <1>1, <1>5, <1>8, <1>9, <1>10, <1>11, <1>12 DEF HostInv, Rounds
<1>14. Framed' /\ Waiting'
  BY <1>5, FrameUntouched
<1> QED BY <1>13, <1>14 DEF HostPhase

LEMMA OutcomeIs ==
    ASSUME NEW lane \in LaneRec, NEW x \in Outcomes(lane)
    PROVE  /\ x[1] \in Nat /\ x[2] \in BOOLEAN
           /\ IF lane.size = 0 THEN x[1] = 0 ELSE x[1] \in 1..lane.size
<1>1. lane.size \in Nat
  BY DEF LaneRec
<1>2. CASE lane.size = 0
  <2>1. x = <<0, FALSE>>
    BY <1>2 DEF Outcomes
  <2> QED BY <1>2, <2>1
<1>3. CASE lane.size # 0
  <2>1. x = <<1, TRUE>> \/ \E n \in 1..lane.size : x = <<n, FALSE>>
    <3>1. x \in {<<n, FALSE>> : n \in (OutSizes \cap 1..lane.size) \cup {lane.size}} \cup {<<1, TRUE>>}
      BY <1>3 DEF Outcomes
    <3>2. (OutSizes \cap 1..lane.size) \cup {lane.size} \subseteq 1..lane.size
      BY <1>1, <1>3
    <3> QED BY <3>1, <3>2
  <2>2. CASE x = <<1, TRUE>>
    BY <1>1, <1>3, <2>2
  <2>3. CASE \E n \in 1..lane.size : x = <<n, FALSE>>
    BY <1>1, <1>3, <2>3
  <2> QED BY <2>1, <2>2, <2>3
<1> QED BY <1>2, <1>3

LEMMA SamePlace == ASSUME NEW a \in Nat, NEW b \in Nat, a * BL = BL * b PROVE a = b
<1>1. BL \in Nat \ {0} /\ a * BL = BL * a
  BY Params
<1>2. BL * b = BL * a + 0
  BY <1>1
<1>3. (BL * b) \div BL = b
  <2>1. BL * b = BL * b + 0 /\ BL * b \in Nat
    BY <1>1
  <2> QED BY <1>1, <2>1, Quotients
<1>4. (BL * b) \div BL = a
  BY <1>1, <1>2, Quotients
<1> QED BY <1>3, <1>4

\* Every block of the chunk has a place in the output.
LEMMA PlaceThere ==
    ASSUME HostInv, InChunk, NEW b \in Nat, b < no_blocks
    PROVE  b \in DOMAIN buf_out
<1>1. PICK h \in Nat \ {0} : HOST = BL * h
  BY Params
<1>2. HOST \div BL = h
  BY <1>1, Params, Quotients
<1>3. BL * b < chunk /\ BL * b \in Nat /\ chunk \in Nat /\ chunk <= BL * h
  BY <1>1, ChunkFacts, BlocksAre
<1>4. ~(h <= b)
  <2>1. ASSUME h <= b PROVE BL * h <= BL * b
    BY <2>1, Params, Monotone
  <2>2. BL * h \in Nat
    BY Params
  <2> QED BY <1>3, <2>1, <2>2
<1> QED BY <1>2, <1>4 DEF InChunk

LEMMA CompressKept == ASSUME HostPhase, Compress PROVE HostPhase'
<1>1. HostInv /\ InChunk /\ Working /\ hpc = "compress" /\ \A j \in Lanes : Given(j)
  BY DEF HostPhase, HostInv, Rounds, Compress
<1> DEFINE writers(o, b) == {j \in Lanes : o[j][1] > 0 /\ lanes[j].out = b * block_length}
           entry(o, j) == [from |-> inIdx + lanes[j].in, size |-> lanes[j].size, bytes |-> o[j][1],
                           whole |-> o[j][1] < lanes[j].size /\ ~o[j][2]]
<1>2. PICK o : /\ \A j \in Lanes : o[j] \in Outcomes(lanes[j])
               /\ lanes' = [j \in Lanes |-> [lanes[j] EXCEPT !.out_size = o[j][1], !.limited = o[j][2]]]
               /\ buf_out' = [b \in DOMAIN buf_out |->
                     IF writers(o, b) = {} THEN buf_out[b] ELSE entry(o, CHOOSE j \in writers(o, b) : TRUE)]
  BY DEF Compress
<1> DEFINE W(b) == writers(o, b)  E(j) == entry(o, j)
<1>3. /\ hpc' = "report"
      /\ UNCHANGED <<input_size, inIdx, chunk, i, readBlockSize, compressd_size, frame, readerVars>>
  BY DEF Compress
<1>4. RoundSize /\ i \in Nat /\ no_blocks \in Nat
  BY <1>1, RoundFacts
<1>5. /\ \A b : b \in DOMAIN buf_out => buf_out'[b] = IF W(b) = {} THEN buf_out[b] ELSE E(CHOOSE j \in W(b) : TRUE)
      /\ DOMAIN buf_out' = DOMAIN buf_out
  BY <1>2
<1>6. \A b, j : j \in W(b) <=> j \in Lanes /\ o[j][1] > 0 /\ lanes[j].out = b * BL
  BY DEF BL
<1>7. ASSUME NEW j \in Lanes
      PROVE  /\ lanes[j] \in LaneRec /\ o[j][1] \in Nat /\ o[j][2] \in BOOLEAN /\ j \in Nat
             /\ IF lanes[j].size = 0 THEN o[j][1] = 0 ELSE o[j][1] \in 1..lanes[j].size
             /\ IsDone(lanes'[j], lanes[j], o[j][1], o[j][2])
  <2>1. lanes[j] \in LaneRec /\ o[j] \in Outcomes(lanes[j])
    BY <1>1, <1>2 DEF HostInv
  <2>2. IsDone(lanes'[j], lanes[j], o[j][1], o[j][2])
    BY <1>2 DEF IsDone
  <2>3. j \in Nat
    BY Params DEF Lanes
  <2> QED BY <2>1, <2>2, <2>3, OutcomeIs
<1>8. ASSUME NEW j \in Lanes
      PROVE  /\ lanes'[j] \in LaneRec /\ lanes'[j].small = lanes[j].small
             /\ lanes'[j].small_inSize = lanes[j].small_inSize /\ lanes'[j].size = lanes[j].size
             /\ lanes'[j].out_size = o[j][1] /\ lanes'[j].limited = o[j][2]
  BY <1>7, LaneDone
<1>9. \A j \in Lanes : E(j) = [from |-> inIdx + lanes[j].in, size |-> lanes[j].size, bytes |-> o[j][1],
                               whole |-> o[j][1] < lanes[j].size /\ ~o[j][2]]
  OBVIOUS
<1> HIDE DEF W, E
<1>10. ASSUME NEW b \in Nat, NEW j \in W(b)
       PROVE  j \in Lanes /\ j < nblocks /\ b = i + j
  <2>1. j \in Lanes /\ o[j][1] > 0 /\ lanes[j].out = b * BL /\ Given(j)
    BY <1>1, <1>6, <1>10
  <2>2. lanes[j].size # 0
    BY <1>7, <2>1
  <2>3. j < nblocks /\ lanes[j].out = BL * (i + j)
    BY <2>1, <2>2 DEF Given, Takes
  <2>4. i + j \in Nat /\ b * BL = BL * (i + j)
    BY <1>4, <1>7, <2>1, <2>3
  <2> QED BY <2>1, <2>3, <2>4, SamePlace
<1>11. ASSUME NEW b \in Nat, b < i PROVE buf_out'[b] = buf_out[b]
  <2>1. W(b) = {}
    <3>1. ASSUME NEW j \in W(b) PROVE FALSE
      BY <1>4, <1>7, <1>10, <1>11, <3>1
    <3> QED BY <3>1
  <2>2. b < no_blocks
    BY <1>1, <1>4, <1>11 DEF Working
  <2>3. b \in DOMAIN buf_out
    BY <1>1, <2>2, PlaceThere
  <2> QED BY <1>5, <2>1, <2>3
<1>12. no_blocks' = no_blocks /\ nblocks' = nblocks /\ \A b : BlockSize(b)' = BlockSize(b)
  BY <1>3 DEF no_blocks, nblocks, BlockSize
<1>13. \A b, n, x : Good(b, n, x)' <=> Good(b, n, x)
  BY <1>3, <1>12 DEF Good
<1>14. Working'
  BY <1>1, <1>3, <1>11, <1>12, <1>13 DEF Working, Reported0
<1>15. ASSUME NEW j \in Lanes, j < nblocks PROVE Good(i + j, Reported(lanes'[j]), buf_out'[i + j])
  <2> DEFINE b == i + j  n == BlockSize(b)  l == lanes[j]  m == lanes'[j]
  <2>1. b \in Nat /\ b < no_blocks
    BY <1>4, <1>7, <1>15 DEF RoundSize
  <2>2. n \in Nat \ {0}
    <3>1. BlockIs(chunk, b, n)
      BY <1>1, <2>1, ChunkFacts
    <3> QED BY <3>1, Params DEF BlockIs
  <2>3. Takes(l, b, n)
    BY <1>1, <1>15 DEF Given
  <2>4. CASE n < MIN_B_SIZE
    <3>1. Reported(m) = n
      BY <1>8, <2>3, <2>4 DEF Takes, Reported
    <3> HIDE DEF n, m
    <3>2. n \in 1..n /\ ~(n < n)
      BY <2>2
    <3> QED BY <3>1, <3>2 DEF Good, n, m
  <2>5. CASE ~(n < MIN_B_SIZE)
    <3>1. ~l.small /\ l.size = n /\ l.in = BL * b /\ l.out = BL * b
      BY <2>3, <2>5 DEF Takes
    <3>2. o[j][1] \in 1..n /\ o[j][2] \in BOOLEAN
      BY <1>7, <2>2, <3>1
    <3>3. Reported(m) = IF o[j][2] THEN n ELSE o[j][1]
      BY <1>8, <3>1 DEF Reported
    <3>4. CASE o[j][2]
      <4>1. Reported(m) = n
        BY <3>3, <3>4
      <4> HIDE DEF n, m
      <4>2. n \in 1..n /\ ~(n < n)
        BY <2>2
      <4> QED BY <4>1, <4>2 DEF Good, n, m
    <3>5. CASE ~o[j][2]
      <4>1. Reported(m) = o[j][1]
        BY <3>3, <3>5
      <4>2. BL * b = b * BL
        BY <2>1, Params
      <4>3. W(b) = {j}
        <5>1. j \in W(b)
          BY <1>6, <3>1, <3>2, <4>2
        <5>2. ASSUME NEW k \in W(b) PROVE k = j
          <6>1. k \in Lanes /\ b = i + k
            BY <1>10, <2>1, <5>2
          <6>2. k \in Nat
            BY <6>1, Params DEF Lanes
          <6> QED BY <1>4, <1>7, <6>1, <6>2
        <5> QED BY <5>1, <5>2
      <4>4. b \in DOMAIN buf_out
        BY <1>1, <2>1, PlaceThere
      <4>5. (CHOOSE k \in W(b) : TRUE) = j /\ W(b) # {}
        BY <4>3
      <4>6. buf_out'[b] = E(j)
        BY <1>5, <4>4, <4>5
      <4>7. ASSUME o[j][1] < n PROVE E(j) = Rec(inIdx + BL * b, n, o[j][1])
        <5>1. (o[j][1] < l.size /\ ~o[j][2]) = TRUE
          BY <3>1, <3>5, <4>7
        <5> HIDE DEF n, b
        <5>2. E(j) = [from |-> inIdx + BL * b, size |-> n, bytes |-> o[j][1], whole |-> TRUE]
          BY <1>9, <3>1, <5>1
        <5> QED BY <5>2 DEF Rec
      <4> HIDE DEF n, m
      <4> QED BY <3>2, <4>1, <4>6, <4>7 DEF Good, n, m
    <3> QED BY <3>2, <3>4, <3>5
  <2> QED BY <2>4, <2>5
<1>16. LanesGood'
  <2>1. \A j \in Lanes : Reported(lanes[j])' = Reported(lanes'[j])
    BY DEF Reported
  <2>2. ASSUME NEW j \in Lanes, j < nblocks PROVE Good(i + j, Reported(lanes[j]), buf_out[i + j])'
    <3>1. Good(i + j, Reported(lanes'[j]), buf_out'[i + j])
      BY <1>15, <2>2
    <3> QED BY <1>3, <1>12, <2>1, <3>1 DEF Good
  <2> QED BY <1>3, <1>12, <2>2 DEF LanesGood
<1>17. lanes' \in [Lanes -> LaneRec]
  <2>1. lanes' = [j \in Lanes |-> lanes'[j]]
    BY <1>2
  <2> QED BY <1>8, <2>1
<1>18. InChunk'
  BY <1>1, <1>3, <1>5 DEF InChunk
<1>19. HostInv'
  BY <1>1, <1>3, <1>12, <1>14, <1>16, <1>17, <1>18 DEF HostInv, Rounds
<1>20. Framed' /\ Waiting'
  BY <1>3, FrameUntouched
<1> QED BY <1>19, <1>20 DEF HostPhase

LEMMA ReportKept == ASSUME HostPhase, Report PROVE HostPhase'
<1>1. HostInv /\ InChunk /\ Working /\ hpc = "report" /\ LanesGood
      /\ (i + NUM_BLOCK < no_blocks => readBlockSize = BL * (i + NUM_BLOCK))
  BY DEF HostPhase, HostInv, Rounds, Report
<1> DEFINE s == [k \in 1..nblocks |-> Reported(lanes[k - 1])]
           t == compressd_size \o s
<1>2. /\ compressd_size' = t
      /\ i' = i + NUM_BLOCK
      /\ hpc' = IF i + NUM_BLOCK < no_blocks THEN "round" ELSE "write"
      /\ UNCHANGED <<inIdx, chunk, readBlockSize, lanes, buf_out>>
      /\ UNCHANGED <<input_size, frame, readerVars>>
  BY DEF Report
<1>3. RoundSize /\ i \in Nat /\ no_blocks \in Nat
  BY <1>1, RoundFacts
<1>4. nblocks \in Nat /\ NUM_BLOCK \in Nat /\ nblocks <= NUM_BLOCK /\ i + nblocks \in Nat
  BY <1>3, Params DEF RoundSize
<1>5. Behind(t, compressd_size, i, s, nblocks)
  <2>1. IsList(s, nblocks)
    BY <1>4 DEF IsList
  <2>2. IsList(compressd_size, i)
    BY <1>1 DEF Working
  <2> HIDE DEF s
  <2> QED BY <2>1, <2>2, ListConcat
<1>6. \A k \in 1..nblocks : s[k] = Reported(lanes[k - 1])
  OBVIOUS
<1> HIDE DEF s, t
<1>7. ASSUME NEW b \in Nat, b < i + nblocks PROVE Good(b, t[b + 1], buf_out[b])
  <2>1. CASE b < i
    <3>1. b + 1 \in 1..i
      BY <1>3, <2>1
    <3>2. t[b + 1] = compressd_size[b + 1]
      BY <1>5, <3>1 DEF Behind
    <3>3. Good(b, compressd_size[b + 1], buf_out[b])
      BY <1>1, <2>1 DEF Working, Reported0
    <3> QED BY <3>2, <3>3
  <2>2. CASE ~(b < i)
    <3> DEFINE j == b - i
    <3>1. j \in Nat /\ j < nblocks /\ j + 1 \in 1..nblocks /\ i + (j + 1) = b + 1 /\ (j + 1) - 1 = j /\ i + j = b
      BY <1>3, <1>4, <1>7, <2>2
    <3> HIDE DEF j
    <3>2. t[b + 1] = Reported(lanes[j])
      BY <1>5, <1>6, <3>1 DEF Behind
    <3>3. j \in Lanes
      BY <1>4, <3>1 DEF Lanes
    <3>4. Good(i + j, Reported(lanes[j]), buf_out[i + j])
      BY <1>1, <3>1, <3>3 DEF LanesGood
    <3> QED BY <3>1, <3>2, <3>4
  <2> QED BY <2>1, <2>2
<1>8. no_blocks' = no_blocks /\ \A b : BlockSize(b)' = BlockSize(b)
  BY <1>2 DEF no_blocks, BlockSize
<1>9. ASSUME NEW b \in Nat, b < i + nblocks PROVE Good(b, compressd_size[b + 1], buf_out[b])'
  <2>1. Good(b, t[b + 1], buf_out[b])
    BY <1>7, <1>9
  <2> QED BY <1>2, <1>8, <2>1 DEF Good
<1>10. InChunk'
  BY <1>1, <1>2 DEF InChunk
<1>11. IsList(t, i + nblocks)
  BY <1>5 DEF Behind
<1>12. Framed' /\ Waiting'
  BY <1>2, FrameUntouched
<1>13. CASE i + NUM_BLOCK < no_blocks
  <2>1. nblocks = NUM_BLOCK
    BY <1>3, <1>13 DEF RoundSize
  <2>2. Reported0'
    BY <1>2, <1>9, <2>1 DEF Reported0
  <2>3. Working'
    BY <1>2, <1>3, <1>4, <1>8, <1>11, <1>13, <2>1, <2>2 DEF Working
  <2>4. readBlockSize' = BL * i'
    BY <1>1, <1>2, <1>13
  <2>5. hpc' = "round"
    BY <1>2, <1>13
  <2>6. HostInv'
    BY <1>1, <1>2, <1>10, <2>3, <2>4, <2>5 DEF HostInv, Rounds
  <2> QED BY <1>12, <2>6 DEF HostPhase
<1>14. CASE ~(i + NUM_BLOCK < no_blocks)
  <2>1. i + nblocks = no_blocks
    BY <1>3, <1>4, <1>14 DEF RoundSize
  <2>2. ChunkGood'
    BY <1>2, <1>8, <1>9, <1>11, <2>1 DEF ChunkGood
  <2>3. hpc' = "write"
    BY <1>2, <1>14
  <2>4. HostInv'
    BY <1>1, <1>2, <1>10, <2>2, <2>3 DEF HostInv, Rounds
  <2> QED BY <1>12, <2>4 DEF HostPhase
<1> QED BY <1>13, <1>14

-----------------------------------------------------------------------------
(* The blocks of a chunk are written *)

LEMMA FourBytes == ASSUME NEW a, NEW b, NEW c, NEW d PROVE IsList(<<a, b, c, d>>, 4)
<1> DEFINE t == <<a, b, c, d>>
<1>1. t \in Seq({a, b, c, d}) /\ Len(t) = 4
  OBVIOUS
<1> HIDE DEF t
<1>2. t = [k \in 1..4 |-> t[k]]
  BY <1>1
<1> QED BY <1>2 DEF IsList, t

LEMMA CodeIs ==
    ASSUME NEW from, NEW size \in Nat, NEW n \in 1..size
    PROVE  IF n < size THEN Behind(Code(from, size, n), SizeBytes(n), 4, PackedBytes(Rec(from, size, n), n), n)
                       ELSE Behind(Code(from, size, n), StoredBytes(size), 4, RawBytes(from, size), n)
<1>1. IsList(SizeBytes(n), 4) /\ IsList(StoredBytes(size), 4)
  BY FourBytes DEF SizeBytes, StoredBytes
<1>2. IsList(PackedBytes(Rec(from, size, n), n), n) /\ IsList(RawBytes(from, size), size)
  BY DEF PackedBytes, RawBytes, IsList
<1>3. CASE n < size
  <2>1. Code(from, size, n) = SizeBytes(n) \o PackedBytes(Rec(from, size, n), n)
    BY <1>3 DEF Code
  <2> QED BY <1>1, <1>2, <1>3, <2>1, ListConcat
<1>4. CASE ~(n < size)
  <2>1. Code(from, size, n) = StoredBytes(size) \o RawBytes(from, size) /\ n = size
    BY <1>4 DEF Code
  <2> QED BY <1>1, <1>2, <1>4, <2>1, ListConcat
<1> QED BY <1>3, <1>4

LEMMA CodeLength ==
    ASSUME NEW from, NEW size \in Nat, NEW n \in 1..size
    PROVE  IsList(Code(from, size, n), 4 + n)
BY CodeIs DEF Behind

LEMMA TenTimes == ASSUME NEW x \in Nat \ {0}, NEW y \in Nat, x <= y PROVE (y * 10) \div x >= 10
<1> DEFINE q == (y * 10) \div x  d == (y * 10) % x
<1>1. q \in Nat /\ d \in 0..x - 1 /\ y * 10 = x * q + d
  <2>1. y * 10 \in Nat
    OBVIOUS
  <2> QED BY <2>1, Division
<1> HIDE DEF q, d
<1>2. CASE q <= 9
  <2>1. x * q <= x * 9 /\ x * q \in Nat
    BY <1>1, <1>2, Monotone
  <2> QED BY <1>1, <2>1
<1> QED BY <1>1, <1>2 DEF q

\* Block b of the chunk is written as what the decoder is to find for it.
LEMMA BlockWritten ==
    ASSUME HostInv, InChunk, ChunkGood, NEW b \in Nat, b < no_blocks
    PROVE  /\ compressd_size[b + 1] \in 1..BlockSize(b) /\ BlockSize(b) \in Nat
           /\ WriteBlock(b) = Code(inIdx + BL * b, BlockSize(b), compressd_size[b + 1])
<1> DEFINE n == compressd_size[b + 1]  x == BlockSize(b)
<1>1. Good(b, n, buf_out[b])
  BY DEF ChunkGood
<1>2. BlockIs(chunk, b, x)
  BY ChunkFacts
<1>3. x \in Nat \ {0} /\ x <= chunk /\ chunk \in Nat /\ BL * b \in Nat /\ b * BL = BL * b /\ inIdx \in Nat
  <2>1. chunk \in Nat /\ BL * b \in Nat /\ b * BL = BL * b /\ inIdx \in Nat
    BY ChunkFacts, Params
  <2> QED BY <1>2, <2>1, Params DEF BlockIs
<1>4. n \in 1..x
  BY <1>1 DEF Good
<1>5. (chunk * 10) \div x >= 10
  BY <1>3, TenTimes
<1>6. IsCompressed(b) <=> n < x
  BY <1>5 DEF IsCompressed
<1>7. CASE n < x
  <2>1. buf_out[b] = Rec(inIdx + BL * b, x, n)
    BY <1>1, <1>7 DEF Good
  <2>2. WriteBlock(b) = SizeBytes(n) \o PackedBytes(buf_out[b], n)
    BY <1>6, <1>7 DEF WriteBlock
  <2>3. WriteBlock(b) = SizeBytes(n) \o PackedBytes(Rec(inIdx + BL * b, x, n), n)
    BY <2>1, <2>2, Zenon
  <2> QED BY <1>3, <1>4, <1>7, <2>3 DEF Code
<1>8. CASE ~(n < x)
  <2>1. WriteBlock(b) = StoredBytes(x) \o RawBytes(inIdx + b * BL, x)
    BY <1>6, <1>8 DEF WriteBlock, BL
  <2> QED BY <1>3, <1>4, <1>8, <2>1 DEF Code
<1> QED BY <1>3, <1>4, <1>7, <1>8

\* The blocks of the chunk are the next blocks of the file.
NextBlocks(G) == /\ \A b \in Nat : b < no_blocks => /\ FileBlock(G + b + 1) = BlockSize(b)
                                                    /\ BL * ((G + b + 1) - 1) = inIdx + BL * b
                 /\ IF inIdx + HOST < input_size THEN inIdx + HOST = BL * (G + no_blocks)
                    ELSE G + no_blocks = Blocks(input_size)
LEMMA NextBlocksAre ==
    ASSUME HostInv, InChunk, NEW G \in Nat, inIdx = BL * G
    PROVE  NextBlocks(G)
<1>1. /\ inIdx \in Nat /\ input_size \in Nat \ {0} /\ chunk \in Nat \ {0} /\ no_blocks = Blocks(chunk)
      /\ inIdx + chunk <= input_size /\ chunk <= HOST
      /\ chunk = HOST \/ inIdx + chunk = input_size
  BY ChunkFacts
<1>2. BL \in Nat \ {0} /\ HOST \in Nat
  BY Params
<1>3. no_blocks \in Nat
  BY <1>1, BlocksAre
<1>4. PICK h \in Nat \ {0} : HOST = BL * h
  BY Params
<1>5. chunk = HOST => no_blocks = h
  <2>1. SUFFICES ASSUME chunk = HOST PROVE no_blocks = h
    OBVIOUS
  <2>2. \A g \in Nat : BL * g \in Nat /\ (BL * g < BL * h <=> g < no_blocks)
    BY <1>1, <1>4, <2>1, BlocksAre
  <2>3. ~(h < no_blocks)
    <3>1. BL * h \in Nat /\ ~(BL * h < BL * h)
      BY <1>2
    <3> QED BY <2>2, <3>1
  <2>4. ~(no_blocks < h)
    <3>1. ASSUME no_blocks < h PROVE FALSE
      <4>1. BL * (no_blocks + 1) <= BL * h
        BY <1>2, <1>3, <3>1, Monotone
      <4>2. BL * (no_blocks + 1) = BL * no_blocks + BL
        BY <1>2, <1>3, Next1
      <4>3. BL * no_blocks \in Nat /\ BL * h \in Nat /\ ~(BL * no_blocks < BL * h)
        BY <1>2, <1>3, <2>2
      <4> QED BY <1>2, <4>1, <4>2, <4>3
    <3> QED BY <3>1
  <2> QED BY <1>3, <2>3, <2>4
<1>6. ASSUME NEW b \in Nat, b < no_blocks
      PROVE  FileBlock(G + b + 1) = BlockSize(b) /\ BL * ((G + b + 1) - 1) = inIdx + BL * b
  <2>1. BlockIs(chunk, b, BlockSize(b)) /\ BlockSize(b) = AtMost(chunk - BL * b, BL)
    BY <1>6, ChunkFacts DEF BlockIs
  <2>2. (G + b + 1) - 1 = G + b
    OBVIOUS
  <2>3. BL * (G + b) = BL * G + BL * b /\ BL * b \in Nat
    BY <1>2
  <2>4. BL * ((G + b + 1) - 1) = inIdx + BL * b
    BY <2>2, <2>3
  <2>5. FileBlock(G + b + 1) = AtMost(input_size - (inIdx + BL * b), BL)
    BY <2>4 DEF FileBlock
  <2> DEFINE y == BL * b
  <2>6. CASE inIdx + chunk = input_size
    <3>1. input_size - (inIdx + y) = chunk - y
      BY <1>1, <2>3, <2>6
    <3> QED BY <2>1, <2>4, <2>5, <3>1
  <2>7. CASE chunk = HOST
    <3>1. BL * h >= y + BL
      <4>1. b + 1 <= h
        BY <1>4, <1>5, <1>6, <2>7
      <4>2. BL * (b + 1) <= BL * h
        BY <1>2, <1>4, <4>1, Monotone
      <4>3. BL * (b + 1) = BL * b + BL
        BY <1>2, Next1
      <4> QED BY <4>2, <4>3
    <3>2. chunk - y >= BL /\ input_size - (inIdx + y) >= BL
      BY <1>1, <1>2, <1>4, <2>3, <2>7, <3>1
    <3> HIDE DEF y
    <3>3. AtMost(chunk - y, BL) = BL /\ AtMost(input_size - (inIdx + y), BL) = BL
      <4>1. \A z : z \in Int /\ z >= BL => AtMost(z, BL) = BL
        BY <1>2 DEF AtMost
      <4>2. y \in Nat
        BY <2>3 DEF y
      <4> QED BY <1>1, <3>2, <4>1, <4>2
    <3> QED BY <2>1, <2>4, <2>5, <3>3 DEF y
  <2> QED BY <1>1, <2>6, <2>7
<1>7. CASE inIdx + HOST < input_size
  <2>1. chunk = HOST
    BY <1>1, <1>2, <1>7
  <2>2. BL * (G + h) = BL * G + BL * h
    BY <1>2, <1>4
  <2> QED BY <1>4, <1>5, <1>6, <1>7, <2>1, <2>2 DEF NextBlocks
<1>8. CASE ~(inIdx + HOST < input_size)
  <2>1. inIdx + chunk = input_size
    BY <1>1, <1>2, <1>8
  <2> DEFINE q == (chunk - 1) \div BL  d == (chunk - 1) % BL
  <2>2. q \in Nat /\ d \in 0..BL - 1 /\ chunk - 1 = BL * q + d
    <3>1. chunk - 1 \in Nat
      BY <1>1
    <3> QED BY <1>2, <3>1, Division
  <2>3. no_blocks = q + 1
    BY <1>1 DEF Blocks
  <2> HIDE DEF q, d
  <2>4. BL * (G + q) = BL * G + BL * q /\ BL * q \in Nat
    BY <1>2, <2>2
  <2>5. input_size - 1 = BL * (G + q) + d
    BY <1>1, <1>2, <2>1, <2>2, <2>4
  <2>6. (input_size - 1) \div BL = G + q
    <3>1. G + q \in Nat
      BY <2>2
    <3> QED BY <1>2, <2>2, <2>5, <3>1, Quotients
  <2>7. G + no_blocks = Blocks(input_size)
    BY <2>2, <2>3, <2>6 DEF Blocks
  <2> QED BY <1>6, <1>8, <2>7 DEF NextBlocks
<1> QED BY <1>7, <1>8

\* Blocks put behind those that are there.
LEMMA MoreBlocks ==
    ASSUME NEW fr, NEW O, NEW Z, NEW G \in Nat, Written(fr, O, Z, G), IsList(fr, O[G + 1]),
           NEW n \in Nat, NEW z, NEW s, s = [m \in 1..n |-> s[m]],
           \A m \in 1..n : /\ z[m] \in 1..FileBlock(G + m) /\ FileBlock(G + m) \in Nat
                           /\ s[m] = Code(BL * ((G + m) - 1), FileBlock(G + m), z[m])
    PROVE  \E O1, Z1 : /\ Written(fr \o FlattenSeq(s), O1, Z1, G + n)
                       /\ IsList(fr \o FlattenSeq(s), O1[(G + n) + 1])
<1> DEFINE c == [m \in 1..n |-> 4 + z[m]]
           x == FlattenSeq(s)
           y == fr \o x
           Q(m) == Before(c, m)
           O1 == [g \in 1..G + n + 1 |-> IF g <= G + 1 THEN O[g] ELSE O[G + 1] + Q(g - G)]
           Z1 == [g \in 1..G + n |-> IF g <= G THEN Z[g] ELSE z[g - G]]
<1>1. \A m \in 1..n : c[m] = 4 + z[m] /\ c[m] \in Nat /\ z[m] \in Nat \ {0}
  OBVIOUS
<1>2. Growing(c, n)
  <2> HIDE DEF c
  <2> QED BY <1>1, SumsGrow
<1> HIDE DEF c
<1>3. \A m \in 1..n : IsList(s[m], c[m])
  BY <1>1, CodeLength
<1>4. /\ IsList(x, Q(n + 1))
      /\ \A m \in 1..n : \A k \in 1..c[m] : x[Q(m) + k] = s[m][k]
  <2>1. IsFlat(FlattenSeq(s), s, c, n)
    BY <1>2, <1>3, FlatItems
  <2> QED BY <2>1 DEF IsFlat
<1> DEFINE N == Q(n + 1)
<1>5. Behind(y, fr, O[G + 1], x, N)
  <2> HIDE DEF x, N
  <2> QED BY <1>4, ListConcat DEF N
<1>6. /\ \A m \in 1..n + 1 : Q(m) \in Nat
      /\ \A m \in 1..n : Q(m + 1) = Q(m) + c[m]
      /\ \A m \in 1..n + 1 : \A k \in 1..m : Q(k) <= Q(m)
      /\ Q(1) = 0
  BY <1>2 DEF Growing
<1> HIDE DEF x, y, Q
<1>7. /\ O[1] = 7
      /\ \A g \in 1..G + 1 : O[g] \in Nat /\ \A h \in 1..g : O[h] <= O[g]
  BY DEF Written, Offsets
<1>8. O[G + 1] \in Nat
  BY <1>7
<1>9. /\ \A g \in 1..G + 1 : O1[g] = O[g]
      /\ \A m \in 1..n + 1 : O1[G + m] = O[G + 1] + Q(m)
  <2>1. \A g \in 1..G + 1 : O1[g] = O[g]
    OBVIOUS
  <2>2. ASSUME NEW m \in 1..n + 1 PROVE O1[G + m] = O[G + 1] + Q(m)
    <3>1. CASE m = 1
      BY <1>6, <1>8, <2>1, <3>1
    <3>2. CASE m # 1
      <4>1. G + m \in 1..G + n + 1 /\ ~(G + m <= G + 1) /\ (G + m) - G = m
        BY <3>2
      <4> QED BY <4>1
    <3> QED BY <3>1, <3>2
  <2> QED BY <2>1, <2>2
<1>10. /\ \A g \in 1..G : Z1[g] = Z[g]
       /\ \A m \in 1..n : Z1[G + m] = z[m]
  <2>1. \A g \in 1..G : Z1[g] = Z[g]
    OBVIOUS
  <2>2. ASSUME NEW m \in 1..n PROVE Z1[G + m] = z[m]
    <3>1. G + m \in 1..G + n /\ ~(G + m <= G) /\ (G + m) - G = m
      OBVIOUS
    <3> QED BY <3>1
  <2> QED BY <2>1, <2>2
<1> HIDE DEF O1, Z1
<1>11. Offsets(O1, G + n)
  <2>1. O1[1] = 7
    BY <1>7, <1>9
  <2>2. ASSUME NEW g \in 1..(G + n) + 1 PROVE O1[g] \in Nat /\ \A h \in 1..g : O1[h] <= O1[g]
    <3>1. CASE g <= G + 1
      <4>1. g \in 1..G + 1 /\ \A h \in 1..g : h \in 1..G + 1
        BY <3>1
      <4> QED BY <1>7, <1>9, <4>1
    <3>2. CASE ~(g <= G + 1)
      <4> DEFINE m == g - G
      <4>1. m \in 1..n + 1 /\ g = G + m /\ n + 1 \in Nat
        BY <3>2
      <4> HIDE DEF m
      <4>2. Q(m) \in Nat /\ O1[g] = O[G + 1] + Q(m)
        BY <1>6, <1>9, <4>1
      <4>3. ASSUME NEW h \in 1..g PROVE O1[h] <= O1[g]
        <5>1. CASE h <= G + 1
          <6>1. h \in 1..G + 1 /\ G + 1 \in 1..G + 1
            BY <5>1
          <6>2. O1[h] = O[h] /\ O[h] \in Nat /\ O[h] <= O[G + 1]
            BY <1>7, <1>9, <6>1
          <6> QED BY <1>8, <4>2, <6>2
        <5>2. CASE ~(h <= G + 1)
          <6> DEFINE k == h - G
          <6>1. k \in 1..m /\ h = G + k /\ k \in 1..n + 1
            BY <4>1, <5>2
          <6> HIDE DEF k
          <6>2. Q(k) \in Nat /\ O1[h] = O[G + 1] + Q(k) /\ Q(k) <= Q(m)
            BY <1>6, <1>9, <4>1, <6>1
          <6> QED BY <1>8, <4>2, <6>2
        <5> QED BY <5>1, <5>2
      <4> QED BY <1>8, <4>2, <4>3
    <3> QED BY <3>1, <3>2
  <2> QED BY <2>1, <2>2 DEF Offsets
<1>12. ASSUME NEW g \in 1..G + n PROVE Laid(y, O1, Z1, g)
  <2>1. CASE g <= G
    <3>1. Laid(fr, O, Z, g) /\ g \in 1..G /\ g + 1 \in 1..G + 1
      BY <2>1 DEF Written
    <3>2. /\ Z[g] \in 1..FileBlock(g) /\ O[g + 1] = O[g] + (4 + Z[g])
          /\ \A k \in 1..4 + Z[g] : fr[O[g] + k] = Code(BL * (g - 1), FileBlock(g), Z[g])[k]
      BY <3>1 DEF Laid
    <3>3. O1[g] = O[g] /\ O1[g + 1] = O[g + 1] /\ Z1[g] = Z[g] /\ O[g] \in Nat /\ Z[g] \in Nat
      BY <1>7, <1>9, <1>10, <3>1, <3>2
    <3>4. O[g + 1] <= O[G + 1]
      BY <1>7, <3>1
    <3>5. ASSUME NEW k \in 1..4 + Z[g] PROVE y[O[g] + k] = fr[O[g] + k]
      <4>1. O[g] + k \in 1..O[G + 1]
        <5>1. O[g + 1] = O[g] + (4 + Z[g])
          BY <3>2
        <5> QED BY <1>8, <3>3, <3>4, <5>1
      <4> QED BY <1>5, <4>1 DEF Behind
    <3> QED BY <3>2, <3>3, <3>5 DEF Laid
  <2>2. CASE ~(g <= G)
    <3> DEFINE m == g - G
    <3>1. m \in 1..n /\ g = G + m /\ m \in 1..n + 1 /\ m + 1 \in 1..n + 1 /\ g + 1 = G + (m + 1)
      BY <2>2
    <3> HIDE DEF m
    <3>2. O1[g] = O[G + 1] + Q(m) /\ O1[g + 1] = O[G + 1] + Q(m + 1) /\ Z1[g] = z[m]
      BY <1>9, <1>10, <3>1
    <3>3. Q(m + 1) = Q(m) + (4 + z[m]) /\ Q(m) \in Nat /\ c[m] = 4 + z[m] /\ z[m] \in Nat
      BY <1>1, <1>6, <3>1
    <3>4. z[m] \in 1..FileBlock(g) /\ s[m] = Code(BL * (g - 1), FileBlock(g), z[m])
      BY <3>1
    <3>5. ASSUME NEW k \in 1..4 + z[m] PROVE y[O1[g] + k] = s[m][k]
      <4>1. k \in 1..c[m]
        BY <3>3
      <4>2. x[Q(m) + k] = s[m][k]
        BY <1>4, <3>1, <4>1
      <4>3. Q(m + 1) <= N /\ N \in Nat
        <5>1. n + 1 \in 1..n + 1 /\ m + 1 \in 1..(n + 1)
          BY <3>1
        <5> QED BY <1>6, <5>1
      <4>4. Q(m) + k \in 1..N
        BY <3>3, <4>3
      <4>5. y[O[G + 1] + (Q(m) + k)] = x[Q(m) + k]
        BY <1>5, <4>4 DEF Behind
      <4>6. O1[g] + k = O[G + 1] + (Q(m) + k)
        BY <1>8, <3>2, <3>3
      <4> QED BY <4>2, <4>5, <4>6
    <3>6. O1[g + 1] = O1[g] + (4 + Z1[g])
      <4>1. \A a, b, p, d : /\ a \in Nat /\ b \in Nat /\ p \in Nat /\ d = b + (4 + p)
                            => a + d = (a + b) + (4 + p)
        OBVIOUS
      <4>2. O[G + 1] + Q(m + 1) = (O[G + 1] + Q(m)) + (4 + z[m])
        BY <1>8, <3>3, <4>1
      <4> QED BY <3>2, <4>2
    <3> HIDE DEF N
    <3> QED BY <3>2, <3>4, <3>5, <3>6 DEF Laid
  <2> QED BY <2>1, <2>2
<1>13. Written(y, O1, Z1, G + n)
  BY <1>11, <1>12 DEF Written
<1>14. IsList(y, O1[(G + n) + 1])
  <2>1. n + 1 \in 1..n + 1 /\ (G + n) + 1 = G + (n + 1)
    OBVIOUS
  <2>2. O1[(G + n) + 1] = O[G + 1] + N
    BY <1>9, <2>1
  <2> HIDE DEF N
  <2> QED BY <1>5, <2>2 DEF Behind
<1> QED BY <1>13, <1>14 DEF y, x

LEMMA WriteKept == ASSUME HostPhase, writeCompressedBlock PROVE HostPhase'
<1>1. HostInv /\ InChunk /\ ChunkGood /\ hpc = "write" /\ inIdx < input_size
  BY DEF HostPhase, HostInv, Rounds, writeCompressedBlock, InChunk
<1>2. /\ no_blocks = Blocks(chunk) /\ no_blocks \in Nat /\ inIdx \in Nat /\ input_size \in Nat \ {0}
      /\ HOST \in Nat /\ BL \in Nat
  <2>1. no_blocks = Blocks(chunk) /\ chunk \in Nat \ {0} /\ inIdx \in Nat /\ input_size \in Nat \ {0}
    BY <1>1, ChunkFacts
  <2> QED BY <2>1, BlocksAre, Params
<1>3. \A b \in Nat : b < no_blocks =>
         /\ compressd_size[b + 1] \in 1..BlockSize(b) /\ BlockSize(b) \in Nat
         /\ WriteBlock(b) = Code(inIdx + BL * b, BlockSize(b), compressd_size[b + 1])
  BY <1>1, BlockWritten
<1>4. ASSUME NEW m \in 1..no_blocks
      PROVE  /\ m - 1 \in Nat /\ m - 1 < no_blocks /\ (m - 1) + 1 = m
             /\ compressd_size[m] \in 1..BlockSize(m - 1) /\ BlockSize(m - 1) \in Nat
             /\ WriteBlock(m - 1) = Code(inIdx + BL * (m - 1), BlockSize(m - 1), compressd_size[m])
  <2>1. m - 1 \in Nat /\ m - 1 < no_blocks /\ (m - 1) + 1 = m
    BY <1>2
  <2>2. compressd_size[(m - 1) + 1] = compressd_size[m]
    BY <2>1
  <2> HIDE <1>4
  <2> QED BY <1>3, <2>1, <2>2
<1> DEFINE s == [b \in 1..no_blocks |-> WriteBlock(b - 1)]
<1>5. /\ frame' = frame \o FlattenSeq(s)
      /\ inIdx' = inIdx + HOST /\ hpc' = "chunk"
      /\ UNCHANGED <<input_size, chunk, kernelVars, readerVars>>
  <2>1. \A m \in 1..no_blocks : compressd_size[m] # 0
    BY <1>4
  <2>2. ~(\E b \in 1..no_blocks : compressd_size[b] = 0)
    BY <2>1
  <2> QED BY <2>2 DEF writeCompressedBlock, HOST
<1>6. PICK O, Z : \E G \in Nat : Written(frame, O, Z, G) /\ IsList(frame, O[G + 1]) /\ Placed(G)
  BY DEF HostPhase, Framed
<1> PICK G \in Nat : Written(frame, O, Z, G) /\ IsList(frame, O[G + 1]) /\ Placed(G)
  BY <1>6
<1>7. inIdx = BL * G
  BY <1>1 DEF Placed
<1>8. NextBlocks(G)
  BY <1>1, <1>7, NextBlocksAre
<1>9. ASSUME NEW m \in 1..no_blocks
      PROVE  /\ compressd_size[m] \in 1..FileBlock(G + m) /\ FileBlock(G + m) \in Nat
             /\ s[m] = Code(BL * ((G + m) - 1), FileBlock(G + m), compressd_size[m])
  <2> DEFINE b == m - 1
  <2>1. b \in Nat /\ b < no_blocks /\ G + b + 1 = G + m
    BY <1>4
  <2>2. s[m] = WriteBlock(m - 1)
    OBVIOUS
  <2> HIDE DEF b, s
  <2>3. FileBlock(G + b + 1) = BlockSize(b) /\ BL * ((G + b + 1) - 1) = inIdx + BL * b
    BY <1>8, <2>1 DEF NextBlocks
  <2>4. FileBlock(G + m) = BlockSize(b) /\ BL * ((G + m) - 1) = inIdx + BL * b
    BY <2>1, <2>3
  <2> QED BY <1>4, <2>2, <2>4 DEF b
<1>10. s = [m \in 1..no_blocks |-> s[m]]
  OBVIOUS
<1> HIDE DEF s
<1>11. PICK O1, Z1 : /\ Written(frame \o FlattenSeq(s), O1, Z1, G + no_blocks)
                     /\ IsList(frame \o FlattenSeq(s), O1[(G + no_blocks) + 1])
  <2> DEFINE z == compressd_size  n == no_blocks  fr == frame
  <2>1. n \in Nat /\ Written(fr, O, Z, G) /\ IsList(fr, O[G + 1])
    BY <1>2
  <2>2. \A m \in 1..n : /\ z[m] \in 1..FileBlock(G + m) /\ FileBlock(G + m) \in Nat
                        /\ s[m] = Code(BL * ((G + m) - 1), FileBlock(G + m), z[m])
    BY <1>9
  <2>3. s = [m \in 1..n |-> s[m]]
    BY <1>10
  <2> HIDE DEF z, n, fr
  <2>4. \E O1, Z1 : /\ Written(fr \o FlattenSeq(s), O1, Z1, G + n)
                    /\ IsList(fr \o FlattenSeq(s), O1[(G + n) + 1])
    BY <2>1, <2>2, <2>3, MoreBlocks
  <2> QED BY <2>4 DEF n, fr
<1> DEFINE H == G + no_blocks
<1>12. PICK n \in Nat : n = H
  BY <1>2
<1>13. Written(frame', O1, Z1, n) /\ IsList(frame', O1[n + 1])
  BY <1>5, <1>11, <1>12
<1>14. \A g : FileBlock(g)' = FileBlock(g)
  BY <1>5 DEF FileBlock
<1>15. Written(frame, O1, Z1, n)'
  BY <1>13, <1>14 DEF Written, Laid
<1>16. Placed(n)'
  <2>1. IF inIdx + HOST < input_size THEN inIdx + HOST = BL * n ELSE n = Blocks(input_size)
    BY <1>8, <1>12 DEF NextBlocks
  <2> QED BY <1>5, <2>1 DEF Placed
<1>17. Framed'
  BY <1>13, <1>15, <1>16 DEF Framed
<1>18. Waiting'
  BY <1>5 DEF HostPhase, Waiting, readerVars
<1>19. HostInv'
  <2>1. PICK c \in Nat : inIdx = HOST * c
    BY <1>1 DEF HostInv
  <2>2. HOST * (c + 1) = HOST * c + HOST
    BY <1>2, Next1
  <2>3. inIdx' = HOST * (c + 1)
    BY <1>5, <2>1, <2>2
  <2>4. lanes' = lanes /\ input_size' = input_size
    BY <1>5 DEF kernelVars
  <2> QED BY <1>1, <1>5, <2>3, <2>4 DEF HostInv
<1> QED BY <1>17, <1>18, <1>19 DEF HostPhase

LEMMA HostInit == ASSUME Init PROVE HostPhase
<1>1. /\ input_size \in Sizes /\ hpc = "chunk" /\ inIdx = 0 /\ lanes = [j \in Lanes |-> Idle]
      /\ frame = [k \in 1..7 |-> FrameByte] /\ rpc = "wait" /\ blockInfoStream = <<>> /\ outStream = <<>>
  BY DEF Init
<1>2. input_size \in Nat \ {0}
  BY <1>1, FrameAssumption
<1>3. Idle \in LaneRec
  BY DEF Idle, LaneRec
<1>4. HOST * 0 = 0 /\ BL * 0 = 0
  BY Params
<1>5. HostInv
  BY <1>1, <1>2, <1>3, <1>4 DEF HostInv
<1> DEFINE O == [g \in 1..1 |-> 7]  Z == [g \in 1..1 |-> 0]
<1>6. Offsets(O, 0)
  BY DEF Offsets
<1>7. IsList(frame, O[0 + 1])
  BY <1>1 DEF IsList
<1> HIDE DEF O, Z
<1>8. Written(frame, O, Z, 0)
  BY <1>6 DEF Written
<1>9. Placed(0)
  BY <1>1, <1>2, <1>4 DEF Placed
<1>10. Framed
  BY <1>7, <1>8, <1>9 DEF Framed
<1>11. Waiting
  BY <1>1 DEF Waiting
<1> QED BY <1>5, <1>10, <1>11 DEF HostPhase

-----------------------------------------------------------------------------
(* The inductive invariant of the reader *)

FB == Blocks(input_size)

\* The bytes of the frame as the reader sees them, and its words.
ByteAt(k) == IF k <= Len(frame) THEN frame[k] ELSE NoByte
WordAt(p) == [k \in 1..8 |-> ByteAt(p + k)]
FrameWords == [w \in Nat |-> WordAt(8 * (w - 1))]
WT == Words(Len(frame))

\* The words put out before block h.
Counts(Z) == [g \in 1..FB |-> Words(Z[g])]
WB(Z, h) == Before(Counts(Z), h)

WholeFrame(O, Z) == Written(frame, O, Z, FB) /\ IsList(frame, O[FB + 1] + 8)

\* The window is at byte 8 * q of the frame, rw words of which have been read.
Looks(q, rw) == /\ q \in Nat /\ processedBytes = 8 * q + 8 /\ readBytes = 8 * rw
                /\ inputWindow = [k \in 1..24 |-> ByteAt(8 * q + k)]
                /\ Window(inStream, FrameWords, rw, WT)
                /\ rw <= q + 3 /\ (rw = q + 3 \/ rw = WT)

\* The infos of n blocks, and the n words put out for b of them.
Info(Z, h) == [compressedSize |-> Z[h], storedBlock |-> Z[h] = FileBlock(h)]
Infos(Z, b) == \A h \in 1..b : blockInfoStream[h] = Info(Z, h)
Out(O, Z, b, n) == /\ IsList(outStream, n)
                   /\ \A h \in 1..b : \A w \in 1..Words(Z[h]) :
                         WB(Z, h) + w <= n => outStream[WB(Z, h) + w] = WordAt(O[h] + 4 + 8 * (w - 1))

AtStart == blockInfoStream = <<>> /\ outStream = <<>> /\ Window(inStream, FrameWords, 0, WT)
AtSize(O, Z, b) == /\ b \in 0..FB /\ IsList(blockInfoStream, b) /\ Infos(Z, b)
                   /\ Out(O, Z, b, WB(Z, b + 1))
                   /\ inputIdx \in 0..15
                   /\ \E q, rw : Looks(q, rw) /\ 8 * q + inputIdx = O[b + 1]
AtData(O, Z, b, d) == /\ b \in 1..FB /\ IsList(blockInfoStream, b) /\ Infos(Z, b)
                      /\ d \in Nat /\ len \in Nat \ {0} /\ 8 * d + len = Z[b]
                      /\ Out(O, Z, b, WB(Z, b) + d)
                      /\ inputIdx \in 0..15
                      /\ \E q, rw : Looks(q, rw) /\ 8 * q + inputIdx = O[b] + 4 + 8 * d
AtEnd(O, Z) == /\ IsList(blockInfoStream, FB + 1) /\ Infos(Z, FB)
               /\ blockInfoStream[FB + 1] = [compressedSize |-> 0, storedBlock |-> FALSE]
               /\ Out(O, Z, FB, WB(Z, FB + 1)) /\ inStream = <<>>

Reading(O, Z) == /\ WholeFrame(O, Z)
                 /\ \/ rpc = "start" /\ AtStart
                    \/ rpc = "size" /\ \E b : AtSize(O, Z, b)
                    \/ rpc = "data" /\ \E b, d : AtData(O, Z, b, d)
                    \/ rpc = "done" /\ AtEnd(O, Z)
ReadPhase == hpc = "done" /\ input_size \in Nat \ {0} /\ \E O, Z : Reading(O, Z)

FrameInv == HostPhase \/ ReadPhase

-----------------------------------------------------------------------------
(* The frame is closed, and its first words are read *)

LEMMA WordsAre ==
    ASSUME NEW n \in Nat
    PROVE  Words(n) \in Nat /\ \A w \in Nat : 8 * w < n <=> w < Words(n)
<1> DEFINE p == (n + 8 - 1) \div 8  d == (n + 8 - 1) % 8
<1>1. p \in Nat /\ d \in 0..7 /\ n + 8 - 1 = 8 * p + d
  OBVIOUS
<1>2. Words(n) = p
  BY Params DEF Words
<1> HIDE DEF p, d
<1>3. ASSUME NEW w \in Nat PROVE 8 * w < n <=> w < p
  BY <1>1
<1> QED BY <1>1, <1>2, <1>3

\* What is behind the blocks does not matter to them.
LEMMA WrittenLonger ==
    ASSUME NEW fr, NEW O, NEW Z, NEW G \in Nat, Written(fr, O, Z, G), IsList(fr, O[G + 1]),
           NEW t, NEW m, IsList(t, m)
    PROVE  Written(fr \o t, O, Z, G) /\ IsList(fr \o t, O[G + 1] + m)
<1> DEFINE y == fr \o t
<1>1. Behind(y, fr, O[G + 1], t, m)
  BY ListConcat
<1> HIDE DEF y
<1>2. Offsets(O, G) /\ \A g \in 1..G + 1 : O[g] \in Nat /\ \A h \in 1..g : O[h] <= O[g]
  BY DEF Written, Offsets
<1>3. ASSUME NEW g \in 1..G PROVE Laid(y, O, Z, g)
  <2>1. Laid(fr, O, Z, g) /\ g + 1 \in 1..G + 1 /\ g \in 1..G + 1 /\ G + 1 \in 1..G + 1 /\ g + 1 \in 1..(G + 1)
    BY DEF Written
  <2>2. /\ Z[g] \in 1..FileBlock(g) /\ O[g + 1] = O[g] + (4 + Z[g])
        /\ \A k \in 1..4 + Z[g] : fr[O[g] + k] = Code(BL * (g - 1), FileBlock(g), Z[g])[k]
    BY <2>1 DEF Laid
  <2>3. O[g] \in Nat /\ O[g + 1] <= O[G + 1] /\ O[G + 1] \in Nat
    BY <1>2, <2>1
  <2>4. Z[g] \in Nat
    BY <2>2
  <2>5. ASSUME NEW k \in 1..4 + Z[g] PROVE y[O[g] + k] = fr[O[g] + k]
    <3>1. O[g + 1] = O[g] + (4 + Z[g])
      BY <2>2
    <3>2. O[g] + k \in 1..O[G + 1]
      BY <2>3, <2>4, <3>1
    <3> QED BY <1>1, <3>2 DEF Behind
  <2> QED BY <2>2, <2>5 DEF Laid
<1> QED BY <1>1, <1>2, <1>3 DEF Written, Behind, y

LEMMA FooterKept == ASSUME HostPhase, writeFooter PROVE ReadPhase'
<1> DEFINE t == [k \in 1..8 |-> FrameByte]
<1>1. /\ inIdx >= input_size /\ frame' = frame \o t
      /\ hpc' = "done" /\ rpc' = "start"
      /\ input_size' = input_size /\ blockInfoStream' = blockInfoStream /\ outStream' = outStream
      /\ inStream' = [w \in 1..Words(Len(frame')) |->
                       [k \in 1..PB |-> IF (w - 1) * PB + k <= Len(frame')
                                        THEN frame'[(w - 1) * PB + k] ELSE NoByte]]
  BY DEF writeFooter
<1>2. inIdx \in Nat /\ input_size \in Nat \ {0}
  <2>1. PICK c \in Nat : inIdx = HOST * c
    BY DEF HostPhase, HostInv
  <2> QED BY <2>1, Params DEF HostPhase, HostInv
<1>3. PICK O, Z : \E G \in Nat : Written(frame, O, Z, G) /\ IsList(frame, O[G + 1]) /\ Placed(G)
  BY DEF HostPhase, Framed
<1> PICK G \in Nat : Written(frame, O, Z, G) /\ IsList(frame, O[G + 1]) /\ Placed(G)
  BY <1>3
<1>4. G = FB /\ FB' = FB
  BY <1>1, <1>2 DEF Placed, FB
<1>5. IsList(t, 8)
  BY DEF IsList
<1> HIDE DEF t
<1>6. PICK fr : fr = frame
  OBVIOUS
<1>7. Written(fr \o t, O, Z, G) /\ IsList(fr \o t, O[G + 1] + 8)
  <2>1. Written(fr, O, Z, G) /\ IsList(fr, O[G + 1])
    BY <1>6
  <2> QED BY <1>5, <2>1, WrittenLonger
<1>8. frame' = fr \o t
  BY <1>1, <1>6
<1>9. \A g : FileBlock(g)' = FileBlock(g)
  BY <1>1 DEF FileBlock
<1>10. Written(frame', O, Z, FB') /\ IsList(frame', O[FB' + 1] + 8)
  BY <1>4, <1>7, <1>8
<1>11. WholeFrame(O, Z)'
  BY <1>4, <1>9, <1>10 DEF WholeFrame, Written, Laid
<1>12. Window(inStream, FrameWords, 0, WT)'
  <2>1. Len(frame') \in Nat
    BY <1>10, ListLength DEF IsList
  <2> DEFINE n == Words(Len(frame'))
  <2>2. n \in Nat /\ n = WT'
    BY <2>1, WordsAre DEF WT
  <2>3. ASSUME NEW w \in 1..n PROVE inStream'[w] = FrameWords'[0 + w]
    <3>1. inStream'[w] = [k \in 1..8 |-> IF (w - 1) * 8 + k <= Len(frame')
                                         THEN frame'[(w - 1) * 8 + k] ELSE NoByte]
      BY <1>1, Params
    <3>2. \A k \in 1..8 : (w - 1) * 8 + k = 8 * (w - 1) + k
      OBVIOUS
    <3>3. inStream'[w] = WordAt(8 * (w - 1))'
      BY <3>1, <3>2 DEF WordAt, ByteAt
    <3>4. w \in Nat /\ 0 + w = w
      OBVIOUS
    <3>5. FrameWords'[w] = WordAt(8 * (w - 1))'
      BY <3>4 DEF FrameWords
    <3> QED BY <3>3, <3>4, <3>5
  <2>4. inStream' = [w \in 1..n |-> inStream'[w]]
    BY <1>1
  <2>5. n - 0 = n
    BY <2>2
  <2> HIDE DEF n
  <2>6. inStream' = [w \in 1..n - 0 |-> FrameWords'[0 + w]]
    BY <2>3, <2>4, <2>5
  <2> QED BY <2>2, <2>6 DEF Window
<1>13. AtStart'
  BY <1>1, <1>12 DEF AtStart, HostPhase, Waiting
<1>14. Reading(O, Z)'
  BY <1>1, <1>11, <1>13 DEF Reading
<1> QED BY <1>1, <1>2, <1>14 DEF ReadPhase

-----------------------------------------------------------------------------
(* The window over the frame *)

\* What the reader leaves alone.
Kept == /\ hpc' = hpc /\ input_size' = input_size /\ frame' = frame
        /\ FB' = FB /\ FrameWords' = FrameWords /\ WT' = WT
        /\ \A k : ByteAt(k)' = ByteAt(k)
        /\ \A p : WordAt(p)' = WordAt(p)
        /\ \A g : FileBlock(g)' = FileBlock(g)
        /\ \A Z, h : WB(Z, h)' = WB(Z, h) /\ Info(Z, h)' = Info(Z, h)
        /\ \A O, Z : WholeFrame(O, Z)' = WholeFrame(O, Z)
LEMMA HostRests == ASSUME UNCHANGED hostVars PROVE Kept
<1>1. hpc' = hpc /\ input_size' = input_size /\ frame' = frame
  BY DEF hostVars
<1>2. FB' = FB /\ WT' = WT
  BY <1>1 DEF FB, WT
<1>3. \A k : ByteAt(k)' = ByteAt(k)
  BY <1>1 DEF ByteAt
<1>4. \A p : WordAt(p)' = WordAt(p)
  BY <1>3 DEF WordAt
<1>5. FrameWords' = FrameWords
  BY <1>4 DEF FrameWords
<1>6. \A g : FileBlock(g)' = FileBlock(g)
  BY <1>1 DEF FileBlock
<1>7. \A Z, h : WB(Z, h)' = WB(Z, h)
  BY <1>2 DEF WB, Counts
<1>8. \A Z, h : Info(Z, h)' = Info(Z, h)
  BY <1>6 DEF Info
<1>9. \A O, Z : WholeFrame(O, Z)' = WholeFrame(O, Z)
  BY <1>1, <1>2, <1>6 DEF WholeFrame, Written, Laid
<1> QED BY <1>1, <1>2, <1>3, <1>4, <1>5, <1>6, <1>7, <1>8, <1>9 DEF Kept

LEMMA WordsTaken ==
    ASSUME NEW p \in Nat
    PROVE  IsList(WordAt(p), 8) /\ \A k \in 1..8 : WordAt(p)[k] = ByteAt(p + k)
BY DEF WordAt, IsList

LEMMA FrameWord ==
    ASSUME NEW w \in Nat \ {0}
    PROVE  FrameWords[w] = WordAt(8 * (w - 1))
BY DEF FrameWords

LEMMA HeaderKept == ASSUME ReadPhase, ReadHeader PROVE ReadPhase'
<1>1. /\ rpc = "start" /\ Len(inStream) >= 3
      /\ inputWindow' = inStream[1] \o inStream[2] \o inStream[3]
      /\ inStream' = SubSeq(inStream, 4, Len(inStream))
      /\ readBytes' = 3 * PB /\ inputIdx' = 7 /\ processedBytes' = 8 /\ rpc' = "size"
      /\ UNCHANGED hostVars /\ blockInfoStream' = blockInfoStream /\ outStream' = outStream
  BY DEF ReadHeader
<1>2. Kept
  BY <1>1, HostRests
<1>3. PICK O, Z : Reading(O, Z)
  BY DEF ReadPhase
<1>4. WholeFrame(O, Z) /\ AtStart
  BY <1>1, <1>3 DEF Reading
<1>5. Window(inStream, FrameWords, 0, WT)
  BY <1>4 DEF AtStart
<1>6. /\ WT \in Nat /\ Len(inStream) = WT /\ WT >= 3 /\ \A k \in 1..WT : inStream[k] = FrameWords[k]
  <2>1. /\ WT \in Nat /\ Len(inStream) = WT - 0 /\ \A k \in 1..WT - 0 : inStream[k] = FrameWords[0 + k]
    BY <1>5, WindowLength
  <2> QED BY <1>1, <2>1
<1>7. Window(inStream', FrameWords, 3, WT)
  <2> DEFINE n == WT - 3
  <2>1. n \in Nat /\ WT = 3 + n
    BY <1>6
  <2> HIDE DEF n
  <2>2. SubSeq(inStream, 3 + 1, WT) = [k \in 1..n |-> inStream[3 + k]]
    BY <2>1, ListCut
  <2>3. inStream' = [k \in 1..n |-> inStream[3 + k]]
    BY <1>1, <1>6, <2>2
  <2>4. \A k \in 1..n : inStream[3 + k] = FrameWords[3 + k]
    BY <1>6, <2>1
  <2>5. inStream' = [k \in 1..n |-> FrameWords[3 + k]]
    BY <2>3, <2>4
  <2> QED BY <1>6, <2>1, <2>5 DEF Window, n
<1>8. inputWindow' = [k \in 1..24 |-> ByteAt(8 * 0 + k)]
  <2> DEFINE a == WordAt(0)  b == WordAt(8)  c == WordAt(16)
  <2>1. inStream[1] = a /\ inStream[2] = b /\ inStream[3] = c
    <3>1. inStream[1] = FrameWords[1] /\ inStream[2] = FrameWords[2] /\ inStream[3] = FrameWords[3]
      BY <1>6
    <3> QED BY <3>1, FrameWord
  <2>2. /\ IsList(a, 8) /\ IsList(b, 8) /\ IsList(c, 8)
        /\ \A k \in 1..8 : a[k] = ByteAt(0 + k) /\ b[k] = ByteAt(8 + k) /\ c[k] = ByteAt(16 + k)
    BY WordsTaken
  <2> HIDE DEF a, b, c
  <2> DEFINE y == a \o b  z == y \o c
  <2>3. Behind(y, a, 8, b, 8)
    BY <2>2, ListConcat
  <2>4. IsList(y, 16)
    BY <2>3 DEF Behind
  <2> HIDE DEF y
  <2>5. Behind(z, y, 16, c, 8)
    BY <2>2, <2>4, ListConcat
  <2>6. inputWindow' = z
    BY <1>1, <2>1 DEF y
  <2> HIDE DEF z
  <2>7. ASSUME NEW k \in 1..24 PROVE z[k] = ByteAt(8 * 0 + k)
    <3>1. CASE k <= 8
      <4>1. k \in 1..8 /\ k \in 1..16 /\ 0 + k = k /\ 8 * 0 + k = k
        BY <3>1
      <4>2. z[k] = y[k] /\ y[k] = a[k]
        BY <2>3, <2>5, <4>1 DEF Behind
      <4> QED BY <2>2, <4>1, <4>2
    <3>2. CASE k > 8 /\ k <= 16
      <4> DEFINE m == k - 8
      <4>1. m \in 1..8 /\ k \in 1..16 /\ 8 + m = k /\ 8 * 0 + k = k
        BY <3>2
      <4> HIDE DEF m
      <4>2. z[k] = y[k] /\ y[8 + m] = b[m]
        BY <2>3, <2>5, <4>1 DEF Behind
      <4> QED BY <2>2, <4>1, <4>2
    <3>3. CASE k > 16
      <4> DEFINE m == k - 16
      <4>1. m \in 1..8 /\ 16 + m = k /\ 8 * 0 + k = k
        BY <3>3
      <4> HIDE DEF m
      <4>2. z[16 + m] = c[m]
        BY <2>5, <4>1 DEF Behind
      <4> QED BY <2>2, <4>1, <4>2
    <3> QED BY <3>1, <3>2, <3>3
  <2>8. z = [k \in 1..24 |-> z[k]]
    BY <2>5 DEF Behind, IsList
  <2> QED BY <2>6, <2>7, <2>8
<1>9. Looks(0, 3)'
  <2>1. readBytes' = 8 * 3 /\ processedBytes' = 8 * 0 + 8
    BY <1>1, Params
  <2>2. (inputWindow = [k \in 1..24 |-> ByteAt(8 * 0 + k)])'
    BY <1>2, <1>8 DEF Kept
  <2>3. Window(inStream, FrameWords, 3, WT)'
    BY <1>2, <1>7 DEF Kept
  <2> QED BY <2>1, <2>2, <2>3 DEF Looks
<1>10. O[1] = 7 /\ FB \in Nat
  BY <1>4, BlocksAre DEF WholeFrame, Written, Offsets, ReadPhase, FB
<1>11. blockInfoStream' = <<>> /\ outStream' = <<>>
  BY <1>1, <1>4 DEF AtStart
<1>12. WB(Z, 0 + 1) = 0
  BY BeforeNext DEF WB
<1>13. Out(O, Z, 0, WB(Z, 0 + 1))'
  <2>1. WB(Z, 0 + 1)' = 0
    BY <1>2, <1>12 DEF Kept
  <2>2. IsList(<<>>, 0)
    BY DEF IsList
  <2> QED BY <1>11, <2>1, <2>2 DEF Out
<1>14. AtSize(O, Z, 0)'
  <2>1. IsList(blockInfoStream', 0) /\ Infos(Z, 0)'
    BY <1>11 DEF IsList, Infos
  <2>2. 0 \in 0..FB' /\ inputIdx' \in 0..15
    BY <1>1, <1>2, <1>10 DEF Kept
  <2>3. Looks(0, 3)' /\ 8 * 0 + inputIdx' = O[0 + 1]
    BY <1>1, <1>9, <1>10
  <2> QED BY <1>13, <2>1, <2>2, <2>3 DEF AtSize
<1>15. WholeFrame(O, Z)' /\ hpc' = "done" /\ input_size' \in Nat \ {0}
  BY <1>2, <1>4 DEF Kept, ReadPhase
<1>16. Reading(O, Z)'
  BY <1>1, <1>14, <1>15 DEF Reading
<1> QED BY <1>15, <1>16 DEF ReadPhase

\* The window after a step that used some of its bytes: byte p + k of the frame is
\* byte Place + k of what the step sees.
Sees(p) == /\ Place \in 0..7
           /\ \A k \in 1..8 : Shifted[Place + k] = ByteAt(p + k)
           /\ IsList(Shifted, 24)

LEMMA ShiftKept ==
    ASSUME NEW used \in 0..8, Kept, Shift(used), inputIdx \in 0..15, NEW q, NEW rw, Looks(q, rw),
           NEW e, IsList(frame, e)
    PROVE  /\ Sees(8 * q + inputIdx) /\ inputIdx' \in 0..15
           /\ \E q1, rw1 : Looks(q1, rw1)' /\ 8 * q1 + inputIdx' = 8 * q + inputIdx + used
<1>1. /\ q \in Nat /\ processedBytes = 8 * q + 8 /\ readBytes = 8 * rw
      /\ inputWindow = [k \in 1..24 |-> ByteAt(8 * q + k)]
      /\ Window(inStream, FrameWords, rw, WT)
      /\ rw <= q + 3 /\ (rw = q + 3 \/ rw = WT)
  BY DEF Looks
<1>2. rw \in Nat /\ WT \in Nat /\ rw <= WT
  BY <1>1 DEF Window
<1>3. PB = 8
  BY Params
<1>4. /\ \A p : WordAt(p)' = WordAt(p)
      /\ FrameWords' = FrameWords /\ WT' = WT
      /\ \A k : ByteAt(k)' = ByteAt(k)
  BY DEF Kept
<1>5. /\ inputIdx >= 8 /\ Refill => inStream # <<>>
      /\ inputWindow' = Shifted
      /\ inputIdx' = Place + used
      /\ IF inputIdx < 8 THEN processedBytes' = processedBytes /\ readBytes' = readBytes /\ inStream' = inStream
         ELSE /\ processedBytes' = processedBytes + 8
              /\ IF Refill THEN readBytes' = readBytes + 8 /\ inStream' = Tail(inStream)
                 ELSE readBytes' = readBytes /\ inStream' = inStream
  BY <1>3 DEF Shift
<1>6. IsList(inputWindow, 24) /\ \A k \in 1..24 : inputWindow[k] = ByteAt(8 * q + k)
  BY <1>1 DEF IsList
<1>7. q \in Nat /\ inputIdx' = Place + used
  BY <1>1, <1>5
<1>8. CASE inputIdx < 8
  <2>1. Shifted = inputWindow /\ Place = inputIdx
    BY <1>3, <1>8 DEF Shifted, Place
  <2>2. Sees(8 * q + inputIdx)
    <3>1. ASSUME NEW k \in 1..8 PROVE Shifted[Place + k] = ByteAt((8 * q + inputIdx) + k)
      <4>1. inputIdx + k \in 1..24 /\ 8 * q + (inputIdx + k) = (8 * q + inputIdx) + k
        BY <1>1, <1>8
      <4> QED BY <1>6, <2>1, <4>1
    <3> QED BY <1>6, <1>8, <2>1, <3>1 DEF Sees
  <2>3. Looks(q, rw)'
    <3>1. inputWindow' = inputWindow /\ processedBytes' = processedBytes /\ readBytes' = readBytes /\ inStream' = inStream
      BY <1>5, <1>8, <2>1
    <3> QED BY <1>1, <1>4, <3>1 DEF Looks
  <2>4. inputIdx' \in 0..15 /\ 8 * q + inputIdx' = 8 * q + inputIdx + used
    <3>1. Place = inputIdx
      BY <2>1
    <3> QED BY <1>8, <1>7, <3>1
  <2> QED BY <2>2, <2>3, <2>4
<1>9. CASE ~(inputIdx < 8)
  <2> DEFINE q1 == q + 1  p == 8 * (q + 3)
             fill == IF Refill THEN Head(inStream) ELSE [k \in 1..8 |-> NoByte]
             tail == SubSeq(inputWindow, 8 + 1, 24)
  <2>1. Shifted = tail \o fill /\ Place = inputIdx - 8 /\ Place \in 0..7
    BY <1>3, <1>9 DEF Shifted, Place
  <2>2. IsList(tail, 16) /\ \A k \in 1..16 : tail[k] = ByteAt(8 * q1 + k)
    <3>1. tail = [k \in 1..16 |-> inputWindow[8 + k]]
      <4>1. 24 = 8 + 16
        OBVIOUS
      <4> QED BY <4>1, ListCut
    <3>2. ASSUME NEW k \in 1..16 PROVE inputWindow[8 + k] = ByteAt(8 * q1 + k)
      <4>1. 8 + k \in 1..24 /\ 8 * q + (8 + k) = 8 * q1 + k
        BY <1>1
      <4> QED BY <1>6, <4>1
    <3> HIDE DEF tail, q1
    <3> QED BY <3>1, <3>2 DEF IsList
  <2>3. Len(frame) = e /\ e \in Nat
    BY ListLength DEF IsList
  <2>4. Refill <=> rw < WT
    <3>1. Refill <=> 8 * rw < Len(frame)
      BY <1>1 DEF Refill
    <3> QED BY <1>2, <2>3, <3>1, WordsAre DEF WT
  <2>5. /\ IsList(fill, 8) /\ \A k \in 1..8 : fill[k] = ByteAt(p + k)
        /\ Refill => rw = q + 3 /\ inStream # <<>> /\ Window(Tail(inStream), FrameWords, rw + 1, WT)
        /\ ~Refill => rw = WT
    <3>1. CASE Refill
      <4>1. rw = q + 3 /\ inStream # <<>>
        BY <1>1, <1>2, <1>5, <1>9, <2>4, <3>1
      <4>2. Head(inStream) = FrameWords[rw + 1] /\ Window(Tail(inStream), FrameWords, rw + 1, WT)
        BY <1>1, <4>1, WindowRead
      <4>3. rw + 1 \in Nat \ {0} /\ (rw + 1) - 1 = q + 3 /\ p \in Nat
        <5>1. rw = q + 3
          BY <4>1
        <5> QED BY <1>7, <5>1
      <4>4. fill = FrameWords[rw + 1]
        BY <3>1, <4>2
      <4> HIDE DEF fill
      <4>5. fill = WordAt(8 * ((rw + 1) - 1))
        BY <4>3, <4>4, FrameWord
      <4>6. fill = WordAt(p)
        BY <4>3, <4>5
      <4> HIDE DEF p
      <4> QED BY <3>1, <4>1, <4>2, <4>3, <4>6, WordsTaken
    <3>2. CASE ~Refill
      <4>1. rw = WT
        BY <1>1, <1>2, <2>4, <3>2
      <4>2. ~(8 * WT < e)
        BY <1>2, <2>3, WordsAre DEF WT
      <4>3. p \in Nat /\ e <= p
        BY <1>1, <1>2, <2>3, <4>1, <4>2
      <4>4. fill = [k \in 1..8 |-> NoByte]
        BY <3>2
      <4> HIDE DEF fill, p
      <4>5. \A k \in 1..8 : ByteAt(p + k) = NoByte
        BY <2>3, <4>3 DEF ByteAt
      <4> QED BY <3>2, <4>1, <4>4, <4>5 DEF IsList
    <3> QED BY <3>1, <3>2
  <2>6. Shifted = tail \o fill
    BY <2>1
  <2>7. q1 \in Nat /\ p = 8 * q1 + 16 /\ 8 * q1 = 8 * q + 8
    BY <1>1
  <2> HIDE DEF tail, fill, p, q1
  <2>8. Behind(Shifted, tail, 16, fill, 8)
    BY <2>2, <2>5, <2>6, ListConcat
  <2>9. IsList(Shifted, 24) /\ \A k \in 1..24 : Shifted[k] = ByteAt(8 * q1 + k)
    <3>1. IsList(Shifted, 24)
      BY <2>8 DEF Behind
    <3>2. ASSUME NEW k \in 1..24 PROVE Shifted[k] = ByteAt(8 * q1 + k)
      <4>1. CASE k <= 16
        <5>1. k \in 1..16
          BY <4>1
        <5>2. Shifted[k] = tail[k]
          BY <2>8, <5>1 DEF Behind
        <5> QED BY <2>2, <5>1, <5>2
      <4>2. CASE k > 16
        <5> DEFINE m == k - 16
        <5>1. m \in 1..8 /\ 16 + m = k /\ p + m = 8 * q1 + k
          BY <2>7, <4>2
        <5> HIDE DEF m
        <5>2. Shifted[16 + m] = fill[m]
          BY <2>8, <5>1 DEF Behind
        <5>3. fill[m] = ByteAt(p + m)
          BY <2>5, <5>1
        <5> QED BY <5>1, <5>2, <5>3
      <4> QED BY <4>1, <4>2
    <3> QED BY <3>1, <3>2
  <2>10. Sees(8 * q + inputIdx)
    <3>1. ASSUME NEW k \in 1..8 PROVE Shifted[Place + k] = ByteAt((8 * q + inputIdx) + k)
      <4>1. Place + k \in 1..24 /\ 8 * q1 + (Place + k) = (8 * q + inputIdx) + k
        <5>1. Place = inputIdx - 8 /\ Place \in 0..7
          BY <2>1
        <5> QED BY <1>7, <2>7, <5>1
      <4> QED BY <2>9, <4>1
    <3> QED BY <2>1, <2>9, <3>1 DEF Sees
  <2>11. PICK rw1 : rw1 = IF Refill THEN rw + 1 ELSE rw
    OBVIOUS
  <2>12. Looks(q1, rw1)'
    <3>1. processedBytes' = 8 * q1 + 8
      BY <1>1, <1>5, <1>9, <2>7
    <3>2. Shifted = [k \in 1..24 |-> Shifted[k]]
      BY <2>9 DEF IsList
    <3>3. inputWindow' = [k \in 1..24 |-> ByteAt(8 * q1 + k)]
      BY <1>5, <2>9, <3>2
    <3>4. CASE Refill
      <4>1. rw1 = rw + 1 /\ readBytes' = 8 * rw1
        BY <1>1, <1>2, <1>5, <1>9, <2>11, <3>4
      <4>2. Window(inStream', FrameWords', rw1, WT')
        BY <1>4, <1>5, <1>9, <2>5, <3>4, <4>1
      <4>3. rw1 <= q1 + 3 /\ rw1 = q1 + 3
        BY <1>1, <2>5, <3>4, <4>1 DEF q1
      <4> QED BY <1>4, <2>7, <3>1, <3>3, <4>1, <4>2, <4>3 DEF Looks
    <3>5. CASE ~Refill
      <4>1. rw1 = rw /\ readBytes' = 8 * rw1
        BY <1>1, <1>5, <1>9, <2>11, <3>5
      <4>2. Window(inStream', FrameWords', rw1, WT')
        BY <1>1, <1>4, <1>5, <1>9, <3>5, <4>1
      <4>3. rw1 <= q1 + 3 /\ rw1 = WT'
        BY <1>1, <1>2, <1>4, <2>5, <3>5, <4>1 DEF q1
      <4> QED BY <1>4, <2>7, <3>1, <3>3, <4>1, <4>2, <4>3 DEF Looks
    <3> QED BY <3>4, <3>5
  <2>13. inputIdx' \in 0..15 /\ 8 * q1 + inputIdx' = 8 * q + inputIdx + used
    <3>1. Place = inputIdx - 8 /\ Place \in 0..7
      BY <2>1
    <3> QED BY <1>7, <2>7, <3>1
  <2> QED BY <2>10, <2>12, <2>13
<1> QED BY <1>8, <1>9

-----------------------------------------------------------------------------
(* The size of a block is read *)

LEMMA SizeRead ==
    ASSUME NEW size \in 1..BL, NEW n \in 1..size, NEW s, s = IF n < size THEN SizeBytes(n) ELSE StoredBytes(size)
    PROVE  /\ SizeOf(s[1][1], s[2][1], s[3][1], s[4][1]) = n
           /\ s[4][1] >= Byte \div 2 <=> n = size
<1>1. /\ Byte \in Nat \ {0} /\ Byte > 2 /\ BL = Byte * Byte /\ BL \in Nat \ {0} /\ block_length = BL /\ Byte < BL
      /\ n \in Nat /\ size \in Nat /\ n <= size /\ size <= BL
  BY Params DEF BL
<1>2. PICK half \in Nat : half = Byte \div 2 /\ half > 0
  BY <1>1
\* Two bytes are enough for less than a block.
<1>3. ASSUME NEW m \in Nat, m < BL
      PROVE  /\ m % Byte \in Nat /\ m \div Byte \in Nat /\ (m \div Byte) % Byte = m \div Byte
             /\ m \div BL = 0 /\ (m % Byte) + Byte * (m \div Byte) = m
  <2> DEFINE q == m \div Byte  d == m % Byte
  <2>1. q \in Nat /\ d \in 0..Byte - 1 /\ m = Byte * q + d
    BY <1>1, Division
  <2>2. BL * 0 = 0 /\ m = BL * 0 + m /\ m \in 0..BL - 1
    BY <1>1, <1>3
  <2>3. m \div BL = 0
    BY <1>1, <2>2, Quotients
  <2> HIDE DEF q, d
  <2>4. q < Byte
    <3>1. ASSUME Byte <= q PROVE FALSE
      <4>1. Byte * Byte <= Byte * q /\ Byte * q \in Nat
        BY <1>1, <2>1, <3>1, Monotone
      <4> QED BY <1>1, <1>3, <2>1, <4>1
    <3> QED BY <1>1, <2>1, <3>1
  <2>5. q % Byte = q
    BY <1>1, <2>1, <2>4
  <2>6. d + Byte * q = m /\ d \in Nat
    <3>1. Byte * q \in Nat
      BY <1>1, <2>1
    <3> QED BY <1>1, <2>1, <3>1
  <2> QED BY <2>1, <2>3, <2>5, <2>6 DEF q, d
<1>4. CASE n < size
  <2>1. n < BL
    BY <1>1, <1>4
  <2>2. s = << <<n % Byte, "size">>, <<(n \div Byte) % Byte, "size">>, <<n \div BL, "size">>, <<0, "size">> >>
    BY <1>1, <1>4 DEF SizeBytes
  <2>3. s[1][1] = n % Byte /\ s[2][1] = (n \div Byte) % Byte /\ s[3][1] = n \div BL /\ s[4][1] = 0
    BY <2>2
  <2>4. s[2][1] = n \div Byte /\ s[3][1] = 0 /\ (n % Byte) + Byte * (n \div Byte) = n
    BY <1>1, <1>3, <2>1, <2>3
  <2>5. s[4][1] # Byte \div 2 /\ ~(s[4][1] >= Byte \div 2)
    BY <1>2, <2>3
  <2>6. SizeOf(s[1][1], s[2][1], s[3][1], s[4][1]) = s[1][1] + Byte * s[2][1] + BL * (s[3][1] + Byte * s[4][1])
    BY <1>1, <2>5 DEF SizeOf
  <2> DEFINE d == n % Byte  q == n \div Byte
  <2>7. d \in Nat /\ q \in Nat /\ d + Byte * q = n
    BY <1>1, <1>3, <2>1, <2>4
  <2>8. s[1][1] = d /\ s[2][1] = q /\ s[3][1] = 0 /\ s[4][1] = 0
    BY <2>3, <2>4
  <2> HIDE DEF d, q
  <2>9. Byte * 0 = 0 /\ BL * 0 = 0 /\ Byte * q \in Nat
    BY <1>1, <2>7
  <2>10. s[1][1] + Byte * s[2][1] + BL * (s[3][1] + Byte * s[4][1]) = d + Byte * q + BL * (0 + Byte * 0)
    BY <2>8
  <2>11. d + Byte * q + BL * (0 + Byte * 0) = n
    BY <2>7, <2>9
  <2> QED BY <1>1, <1>4, <2>5, <2>6, <2>10, <2>11
<1>5. CASE ~(n < size) /\ size = BL
  <2>1. s = << <<0, "size">>, <<0, "size">>, <<1, "size">>, <<Byte \div 2, "size">> >>
    BY <1>1, <1>5 DEF StoredBytes
  <2>2. s[3][1] = 1 /\ s[4][1] = Byte \div 2
    BY <2>1
  <2>3. SizeOf(s[1][1], s[2][1], s[3][1], s[4][1]) = BL
    BY <1>1, <2>2 DEF SizeOf
  <2>4. n = BL /\ n = size
    BY <1>1, <1>5
  <2>5. s[4][1] >= Byte \div 2
    BY <1>2, <2>2
  <2> QED BY <2>3, <2>4, <2>5
<1>6. CASE ~(n < size) /\ size # BL
  <2>1. s = << <<size % Byte, "size">>, <<(size \div Byte) % Byte, "size">>, <<0, "size">>, <<Byte \div 2, "size">> >>
    BY <1>1, <1>6 DEF StoredBytes
  <2>2. s[1][1] = size % Byte /\ s[2][1] = (size \div Byte) % Byte /\ s[3][1] = 0 /\ s[4][1] = Byte \div 2
    BY <2>1
  <2>3. SizeOf(s[1][1], s[2][1], s[3][1], s[4][1]) = s[1][1] + Byte * s[2][1]
    BY <2>2 DEF SizeOf
  <2>4. (size \div Byte) % Byte = size \div Byte /\ (size % Byte) + Byte * (size \div Byte) = size
    BY <1>1, <1>3, <1>6
  <2>5. n = size
    BY <1>1, <1>6
  <2>6. s[4][1] >= Byte \div 2
    BY <1>2, <2>2
  <2> QED BY <2>2, <2>3, <2>4, <2>5, <2>6
<1> QED BY <1>1, <1>4, <1>5, <1>6

FrameFacts(O, Z) ==
    /\ FB \in Nat \ {0} /\ O[FB + 1] \in Nat /\ Len(frame) = O[FB + 1] + 8
    /\ \A g \in 1..FB : /\ FileBlock(g) \in 1..BL /\ Z[g] \in 1..FileBlock(g) /\ Z[g] \in Nat \ {0}
                        /\ O[g] \in Nat /\ O[g + 1] = O[g] + (4 + Z[g]) /\ O[g + 1] <= O[FB + 1]
                        /\ Words(Z[g]) \in Nat
                        /\ \A k \in 1..4 + Z[g] : ByteAt(O[g] + k) = Code(BL * (g - 1), FileBlock(g), Z[g])[k]
    /\ Growing(Counts(Z), FB)
LEMMA FrameIs ==
    ASSUME input_size \in Nat \ {0}, NEW O, NEW Z, WholeFrame(O, Z)
    PROVE  FrameFacts(O, Z)
<1>1. FB \in Nat \ {0} /\ BL \in Nat
  BY BlocksAre, Params DEF FB
<1>2. Offsets(O, FB) /\ \A g \in 1..FB : Laid(frame, O, Z, g)
  BY DEF WholeFrame, Written
<1>3. \A g \in 1..FB + 1 : O[g] \in Nat /\ \A h \in 1..g : O[h] <= O[g]
  BY <1>2 DEF Offsets
<1>4. O[FB + 1] \in Nat /\ Len(frame) = O[FB + 1] + 8
  BY <1>1, <1>3, ListLength DEF WholeFrame
<1>5. ASSUME NEW g \in 1..FB
      PROVE  /\ FileBlock(g) \in 1..BL /\ Z[g] \in 1..FileBlock(g) /\ Z[g] \in Nat \ {0}
             /\ O[g] \in Nat /\ O[g + 1] = O[g] + (4 + Z[g]) /\ O[g + 1] <= O[FB + 1]
             /\ Words(Z[g]) \in Nat
             /\ \A k \in 1..4 + Z[g] : ByteAt(O[g] + k) = Code(BL * (g - 1), FileBlock(g), Z[g])[k]
  <2>1. FileBlock(g) \in 1..BL
    <3>1. g - 1 \in Nat /\ g - 1 < Blocks(input_size)
      BY <1>1 DEF FB
    <3>2. BlockIs(input_size, g - 1, AtMost(input_size - BL * (g - 1), BL))
      BY <3>1, BlockLength
    <3> QED BY <3>2 DEF BlockIs, FileBlock
  <2>2. /\ Z[g] \in 1..FileBlock(g) /\ O[g + 1] = O[g] + (4 + Z[g])
        /\ \A k \in 1..4 + Z[g] : frame[O[g] + k] = Code(BL * (g - 1), FileBlock(g), Z[g])[k]
    BY <1>2 DEF Laid
  <2>3. Z[g] \in Nat \ {0}
    BY <2>2
  <2>4. O[g] \in Nat /\ O[g + 1] <= O[FB + 1]
    <3>1. g \in 1..FB + 1 /\ g + 1 \in 1..FB + 1 /\ FB + 1 \in 1..FB + 1 /\ g + 1 \in 1..(FB + 1)
      BY <1>1
    <3> QED BY <1>3, <3>1
  <2>5. Words(Z[g]) \in Nat
    BY <2>3, WordsAre
  <2>6. ASSUME NEW k \in 1..4 + Z[g] PROVE ByteAt(O[g] + k) = frame[O[g] + k]
    <3>1. O[g + 1] = O[g] + (4 + Z[g])
      BY <2>2
    <3>2. O[g] + k <= Len(frame)
      BY <1>4, <2>3, <2>4, <3>1
    <3> QED BY <3>2 DEF ByteAt
  <2> QED BY <2>1, <2>2, <2>3, <2>4, <2>5, <2>6
<1>6. Growing(Counts(Z), FB)
  <2> DEFINE c == Counts(Z)  n == FB
  <2>1. n \in Nat /\ \A m \in 1..n : c[m] \in Nat
    BY <1>1, <1>5 DEF Counts
  <2> HIDE DEF c, n
  <2>2. Growing(c, n)
    BY <2>1, SumsGrow
  <2> QED BY <2>2 DEF c, n
<1> QED BY <1>1, <1>4, <1>5, <1>6 DEF FrameFacts

-----------------------------------------------------------------------------
(* The steps of the reader *)

\* The words of the blocks.
LEMMA WordsBeforeBlock ==
    ASSUME NEW O, NEW Z, FrameFacts(O, Z), NEW g \in 1..FB
    PROVE  /\ WB(Z, g) \in Nat /\ WB(Z, g + 1) = WB(Z, g) + Words(Z[g]) /\ WB(Z, g + 1) \in Nat
           /\ \A h \in 1..g : WB(Z, h) \in Nat /\ WB(Z, h) <= WB(Z, g)
           /\ \A h \in 1..g : h < g => WB(Z, h) + Words(Z[h]) <= WB(Z, g)
<1>1. FB \in Nat /\ Growing(Counts(Z), FB)
  BY DEF FrameFacts
<1>2. \A h \in 1..FB : Counts(Z)[h] = Words(Z[h])
  BY DEF Counts
<1> DEFINE B(h) == Before(Counts(Z), h)  c == Counts(Z)
<1>3. /\ \A m \in 1..FB + 1 : B(m) \in Nat
      /\ \A m \in 1..FB : B(m + 1) = B(m) + c[m]
      /\ \A m \in 1..FB + 1 : \A k \in 1..m : B(k) <= B(m)
  BY <1>1 DEF Growing
<1> HIDE DEF B, c
<1>4. g \in 1..FB + 1 /\ g + 1 \in 1..FB + 1
  BY <1>1
<1>5. ASSUME NEW h \in 1..g
      PROVE  B(h) \in Nat /\ B(h) <= B(g) /\ (h < g => B(h) + Words(Z[h]) <= B(g))
  <2>1. h \in 1..FB + 1 /\ h \in 1..FB /\ (h < g => h + 1 \in 1..g)
    BY <1>1
  <2>2. c[h] = Words(Z[h])
    BY <1>2, <2>1 DEF c
  <2> QED BY <1>3, <1>4, <2>1, <2>2
<1>6. c[g] = Words(Z[g])
  BY <1>2 DEF c
<1>7. B(g) \in Nat /\ B(g + 1) = B(g) + Words(Z[g]) /\ B(g + 1) \in Nat
  BY <1>3, <1>4, <1>6
<1> QED BY <1>5, <1>7 DEF B, WB

LEMMA ReadSizeKept == ASSUME ReadPhase, ReadSize PROVE ReadPhase'
<1> DEFINE b4 == Shifted[Place + 4][1]
           n == SizeOf(Shifted[Place + 1][1], Shifted[Place + 2][1], Shifted[Place + 3][1], b4)
<1>1. /\ rpc = "size" /\ processedBytes + inputIdx < Len(frame) /\ Shift(4)
      /\ blockInfoStream' = Append(blockInfoStream, [compressedSize |-> n, storedBlock |-> b4 >= Byte \div 2])
      /\ len' = n
      /\ rpc' = (IF n > 0 THEN "data" ELSE "size")
      /\ UNCHANGED hostVars /\ outStream' = outStream
  BY DEF ReadSize
<1>2. Kept
  BY <1>1, HostRests
<1>3. PICK O, Z : Reading(O, Z)
  BY DEF ReadPhase
<1>4. WholeFrame(O, Z) /\ \E b : AtSize(O, Z, b)
  BY <1>1, <1>3 DEF Reading
<1>5. FrameFacts(O, Z)
  BY <1>4, FrameIs DEF ReadPhase
<1> PICK b : AtSize(O, Z, b)
  BY <1>4
<1>6. PICK q, rw : Looks(q, rw) /\ 8 * q + inputIdx = O[b + 1]
  BY DEF AtSize
<1>7. /\ b \in 0..FB /\ IsList(blockInfoStream, b) /\ Infos(Z, b) /\ Out(O, Z, b, WB(Z, b + 1))
      /\ inputIdx \in 0..15 /\ FB \in Nat /\ q \in Nat
  BY <1>5, <1>6 DEF AtSize, FrameFacts, Looks
\* There is a block left, as the end of the frame is not reached.
<1>8. b < FB
  <2>1. Len(frame) = O[FB + 1] + 8 /\ O[FB + 1] \in Nat
    BY <1>5 DEF FrameFacts
  <2>2. processedBytes + inputIdx = O[b + 1] + 8
    <3>1. processedBytes = 8 * q + 8
      BY <1>6 DEF Looks
    <3>2. 8 * q + inputIdx = O[b + 1]
      BY <1>6
    <3> QED BY <1>7, <3>1, <3>2
  <2>3. b # FB
    BY <1>1, <2>1, <2>2
  <2> QED BY <1>7, <2>3
<1> DEFINE g == b + 1  p == O[b + 1]
<1>9. g \in 1..FB /\ b \in Nat
  BY <1>7, <1>8
<1>10. /\ FileBlock(g) \in 1..BL /\ Z[g] \in 1..FileBlock(g) /\ Z[g] \in Nat \ {0}
       /\ O[g] \in Nat
       /\ \A k \in 1..4 + Z[g] : ByteAt(O[g] + k) = Code(BL * (g - 1), FileBlock(g), Z[g])[k]
  BY <1>5, <1>9 DEF FrameFacts
<1>11. /\ Sees(p) /\ inputIdx' \in 0..15
       /\ \E q1, rw1 : Looks(q1, rw1)' /\ 8 * q1 + inputIdx' = p + 4
  <2>1. 4 \in 0..8 /\ IsList(frame, O[FB + 1] + 8)
    BY <1>4 DEF WholeFrame
  <2>2. /\ Sees(8 * q + inputIdx) /\ inputIdx' \in 0..15
        /\ \E q1, rw1 : Looks(q1, rw1)' /\ 8 * q1 + inputIdx' = 8 * q + inputIdx + 4
    BY <1>1, <1>2, <1>6, <1>7, <2>1, ShiftKept
  <2>3. 8 * q + inputIdx = p
    BY <1>6
  <2> QED BY <2>2, <2>3
<1> DEFINE s == IF Z[g] < FileBlock(g) THEN SizeBytes(Z[g]) ELSE StoredBytes(FileBlock(g))
<1>12. ASSUME NEW k \in 1..4 PROVE Shifted[Place + k] = s[k]
  <2>1. k \in 1..8 /\ k \in 1..4 + Z[g]
    BY <1>10
  <2>2. Shifted[Place + k] = ByteAt(p + k)
    BY <1>11, <2>1 DEF Sees
  <2>3. ByteAt(O[g] + k) = Code(BL * (g - 1), FileBlock(g), Z[g])[k]
    BY <1>10, <2>1
  <2>4. Code(BL * (g - 1), FileBlock(g), Z[g])[k] = s[k]
    <3> DEFINE from == BL * (g - 1)  size == FileBlock(g)  m == Z[g]
    <3>1. size \in Nat /\ m \in 1..size
      BY <1>10, Params
    <3> HIDE DEF from, size, m
    <3>2. IF m < size THEN Behind(Code(from, size, m), SizeBytes(m), 4, PackedBytes(Rec(from, size, m), m), m)
                      ELSE Behind(Code(from, size, m), StoredBytes(size), 4, RawBytes(from, size), m)
      BY <3>1, CodeIs
    <3>3. Code(from, size, m)[k] = IF m < size THEN SizeBytes(m)[k] ELSE StoredBytes(size)[k]
      BY <3>2 DEF Behind
    <3> QED BY <3>3 DEF from, size, m
  <2> QED BY <2>2, <2>3, <2>4
<1>13. n = Z[g] /\ (b4 >= Byte \div 2 <=> Z[g] = FileBlock(g))
  <2>1. /\ Shifted[Place + 1] = s[1] /\ Shifted[Place + 2] = s[2]
        /\ Shifted[Place + 3] = s[3] /\ Shifted[Place + 4] = s[4]
    BY <1>12
  <2> DEFINE size == FileBlock(g)  m == Z[g]
  <2>2. size \in 1..BL /\ m \in 1..size /\ s = IF m < size THEN SizeBytes(m) ELSE StoredBytes(size)
    BY <1>10
  <2> HIDE DEF s, size, m
  <2>3. SizeOf(s[1][1], s[2][1], s[3][1], s[4][1]) = m /\ (s[4][1] >= Byte \div 2 <=> m = size)
    BY <2>2, SizeRead
  <2> QED BY <2>1, <2>3 DEF size, m
<1> HIDE DEF s, n, b4
<1>14. IsList(blockInfoStream', g) /\ Infos(Z, g)'
  <2> DEFINE x == [compressedSize |-> n, storedBlock |-> b4 >= Byte \div 2]
  <2>1. x = Info(Z, g)
    <3>1. (b4 >= Byte \div 2) = (Z[g] = FileBlock(g))
      BY <1>13
    <3> QED BY <1>13, <3>1, Zenon DEF Info
  <2>2. blockInfoStream' = Append(blockInfoStream, x)
    BY <1>1
  <2> HIDE DEF x
  <2>3. /\ IsList(blockInfoStream', b + 1) /\ blockInfoStream'[b + 1] = x
        /\ \A k \in 1..b : blockInfoStream'[k] = blockInfoStream[k]
    <3>1. Appended(Append(blockInfoStream, x), blockInfoStream, b, x)
      BY <1>7, ListAppend
    <3> QED BY <2>2, <3>1 DEF Appended
  <2>4. ASSUME NEW h \in 1..g PROVE blockInfoStream'[h] = Info(Z, h)'
    <3>1. Info(Z, h)' = Info(Z, h)
      BY <1>2 DEF Kept
    <3>2. CASE h = g
      BY <2>1, <2>3, <3>1, <3>2
    <3>3. CASE h # g
      <4>1. h \in 1..b
        BY <1>9, <3>3
      <4>2. blockInfoStream[h] = Info(Z, h)
        BY <1>7, <4>1 DEF Infos
      <4> QED BY <2>3, <3>1, <4>1, <4>2
    <3> QED BY <3>2, <3>3
  <2> QED BY <2>3, <2>4 DEF Infos
<1>15. Out(O, Z, g, WB(Z, g) + 0)'
  <2>1. \A h : WB(Z, h)' = WB(Z, h)
    BY <1>2 DEF Kept
  <2>2. \A y : WordAt(y)' = WordAt(y)
    BY <1>2 DEF Kept
  <2>3. WB(Z, g) \in Nat /\ WB(Z, g) + 0 = WB(Z, g)
    BY <1>5, <1>9, WordsBeforeBlock
  <2>4. IsList(outStream', WB(Z, g) + 0)
    BY <1>1, <1>7, <2>3 DEF Out
  <2>5. ASSUME NEW h \in 1..g, NEW w \in 1..Words(Z[h]), WB(Z, h) + w <= WB(Z, g) + 0
        PROVE  outStream'[WB(Z, h) + w] = WordAt(O[h] + 4 + 8 * (w - 1))
    <3>1. h # g
      BY <2>3, <2>5
    <3>2. h \in 1..b
      BY <1>9, <3>1
    <3> QED BY <1>1, <1>7, <2>3, <2>5, <3>2 DEF Out
  <2> QED BY <2>1, <2>2, <2>4, <2>5 DEF Out
<1>16. WholeFrame(O, Z)' /\ FB' = FB /\ hpc' = "done" /\ input_size' \in Nat \ {0}
  BY <1>2, <1>4 DEF Kept, ReadPhase
<1>17. len' = Z[g] /\ len' \in Nat \ {0} /\ 8 * 0 + len' = Z[g] /\ rpc' = "data"
  BY <1>1, <1>10, <1>13
<1>18. \E q1, rw1 : Looks(q1, rw1)' /\ 8 * q1 + inputIdx' = O[g] + 4 + 8 * 0
  <2>1. O[g] + 4 + 8 * 0 = p + 4
    BY <1>10
  <2> QED BY <1>11, <2>1
<1> HIDE DEF g
<1>19. AtData(O, Z, g, 0)'
  <2>1. g \in 1..FB' /\ 0 \in Nat
    BY <1>9, <1>16
  <2> QED BY <1>11, <1>14, <1>15, <1>17, <1>18, <2>1 DEF AtData
<1>20. Reading(O, Z)'
  BY <1>16, <1>17, <1>19 DEF Reading
<1> QED BY <1>16, <1>20 DEF ReadPhase

LEMMA PutWordKept == ASSUME ReadPhase, PutWord PROVE ReadPhase'
<1>1. /\ rpc = "data" /\ Shift(AtMost(len, 8))
      /\ outStream' = Append(outStream, SubSeq(Shifted, Place + 1, Place + 8))
      /\ len' = len - AtMost(len, 8)
      /\ rpc' = (IF len > 8 THEN "data" ELSE "size")
      /\ UNCHANGED hostVars /\ blockInfoStream' = blockInfoStream
  BY Params DEF PutWord
<1>2. Kept
  BY <1>1, HostRests
<1>3. PICK O, Z : Reading(O, Z)
  BY DEF ReadPhase
<1>4. WholeFrame(O, Z) /\ \E b, d : AtData(O, Z, b, d)
  BY <1>1, <1>3 DEF Reading
<1>5. FrameFacts(O, Z)
  BY <1>4, FrameIs DEF ReadPhase
<1> PICK b, d : AtData(O, Z, b, d)
  BY <1>4
<1>6. PICK q, rw : Looks(q, rw) /\ 8 * q + inputIdx = O[b] + 4 + 8 * d
  BY DEF AtData
<1>7. /\ b \in 1..FB /\ IsList(blockInfoStream, b) /\ Infos(Z, b) /\ Out(O, Z, b, WB(Z, b) + d)
      /\ inputIdx \in 0..15 /\ FB \in Nat /\ q \in Nat
      /\ d \in Nat /\ len \in Nat \ {0} /\ 8 * d + len = Z[b]
  BY <1>5, <1>6 DEF AtData, FrameFacts, Looks
<1>8. Z[b] \in Nat \ {0} /\ O[b] \in Nat /\ O[b + 1] = O[b] + (4 + Z[b])
  BY <1>5, <1>7 DEF FrameFacts
<1>9. PICK used \in 0..8 : used = AtMost(len, 8) /\ used <= len
                           /\ (len > 8 => used = 8) /\ (~(len > 8) => used = len)
  BY <1>7 DEF AtMost
<1> DEFINE p == O[b] + 4 + 8 * d
<1>10. /\ Sees(p) /\ inputIdx' \in 0..15
       /\ \E q1, rw1 : Looks(q1, rw1)' /\ 8 * q1 + inputIdx' = p + used
  <2>1. IsList(frame, O[FB + 1] + 8) /\ Shift(used)
    BY <1>1, <1>4, <1>9 DEF WholeFrame
  <2>2. /\ Sees(8 * q + inputIdx) /\ inputIdx' \in 0..15
        /\ \E q1, rw1 : Looks(q1, rw1)' /\ 8 * q1 + inputIdx' = 8 * q + inputIdx + used
    BY <1>2, <1>6, <1>7, <2>1, ShiftKept
  <2>3. 8 * q + inputIdx = p
    BY <1>6
  <2> HIDE DEF p
  <2> QED BY <2>2, <2>3
<1>11. SubSeq(Shifted, Place + 1, Place + 8) = WordAt(p)
  <2>1. Place \in Nat /\ \A k \in 1..8 : Shifted[Place + k] = ByteAt(p + k)
    BY <1>10 DEF Sees
  <2> HIDE DEF p
  <2>2. SubSeq(Shifted, Place + 1, Place + 8) = [k \in 1..8 |-> Shifted[Place + k]]
    BY <2>1, ListCut
  <2> QED BY <2>1, <2>2 DEF WordAt
<1>13. PICK n : n = WB(Z, b) + d
  OBVIOUS
<1>12. /\ WB(Z, b) \in Nat /\ WB(Z, b + 1) = WB(Z, b) + Words(Z[b])
       /\ \A h \in 1..b : WB(Z, h) \in Nat
       /\ \A h \in 1..b : h < b => WB(Z, h) + Words(Z[h]) <= WB(Z, b)
  BY <1>5, <1>7, WordsBeforeBlock
<1>14. n \in Nat
  BY <1>13, <1>7, <1>12
<1>15. Out(O, Z, b, n + 1)'
  <2>1. \A h : WB(Z, h)' = WB(Z, h)
    BY <1>2 DEF Kept
  <2>2. \A y : WordAt(y)' = WordAt(y)
    BY <1>2 DEF Kept
  <2>3. Appended(Append(outStream, WordAt(p)), outStream, n, WordAt(p))
    <3>1. IsList(outStream, n)
      BY <1>13, <1>7 DEF Out
    <3> HIDE DEF p
    <3> QED BY <3>1, ListAppend
  <2>4. Appended(outStream', outStream, n, WordAt(p))
    BY <1>1, <1>11, <2>3
  <2>5. ASSUME NEW h \in 1..b, NEW w \in 1..Words(Z[h]), WB(Z, h) + w <= n + 1
        PROVE  outStream'[WB(Z, h) + w] = WordAt(O[h] + 4 + 8 * (w - 1))
    <3>1. WB(Z, h) \in Nat /\ Words(Z[h]) \in Nat
      <4>1. h \in 1..FB
        BY <1>7
      <4> QED BY <1>5, <1>12, <4>1 DEF FrameFacts
    <3>2. CASE WB(Z, h) + w <= n
      <4>1. WB(Z, h) + w \in 1..n
        BY <1>14, <3>1, <3>2
      <4>2. outStream'[WB(Z, h) + w] = outStream[WB(Z, h) + w]
        BY <2>4, <4>1 DEF Appended
      <4>3. outStream[WB(Z, h) + w] = WordAt(O[h] + 4 + 8 * (w - 1))
        BY <1>13, <1>7, <3>2 DEF Out
      <4> QED BY <4>2, <4>3
    <3>3. CASE ~(WB(Z, h) + w <= n)
      <4>1. WB(Z, h) + w = n + 1
        BY <1>14, <2>5, <3>1, <3>3
      <4>2. h = b
        <5>1. ASSUME h # b PROVE FALSE
          <6>1. WB(Z, h) + Words(Z[h]) <= WB(Z, b)
            BY <1>7, <1>12, <5>1
          <6> QED BY <1>13, <1>7, <1>12, <3>1, <4>1, <6>1
        <5> QED BY <5>1
      <4>3. w = d + 1 /\ w - 1 = d
        BY <1>13, <1>7, <1>12, <4>1, <4>2
      <4>4. outStream'[n + 1] = WordAt(p)
        BY <2>4 DEF Appended
      <4>5. O[h] + 4 + 8 * (w - 1) = p
        BY <4>2, <4>3
      <4> HIDE DEF p
      <4> QED BY <4>1, <4>4, <4>5
    <3> QED BY <3>2, <3>3
  <2>6. IsList(outStream', n + 1)
    BY <2>4 DEF Appended
  <2> QED BY <2>1, <2>2, <2>5, <2>6 DEF Out
<1>16. WholeFrame(O, Z)' /\ FB' = FB /\ hpc' = "done" /\ input_size' \in Nat \ {0}
  BY <1>2, <1>4 DEF Kept, ReadPhase
<1>17. IsList(blockInfoStream', b) /\ Infos(Z, b)'
  <2>1. \A h : Info(Z, h)' = Info(Z, h)
    BY <1>2 DEF Kept
  <2> QED BY <1>1, <1>7, <2>1 DEF Infos
<1>18. CASE len > 8
  <2>1. len' = len - 8 /\ rpc' = "data" /\ used = 8
    BY <1>1, <1>9, <1>18
  <2>2. len' \in Nat \ {0} /\ 8 * (d + 1) + len' = Z[b] /\ d + 1 \in Nat
    BY <1>7, <1>18, <2>1
  <2>3. p + used = O[b] + 4 + 8 * (d + 1)
    BY <1>7, <1>8, <2>1
  <2>4. \E q1, rw1 : Looks(q1, rw1)' /\ 8 * q1 + inputIdx' = O[b] + 4 + 8 * (d + 1)
    BY <1>10, <2>3
  <2>5. Out(O, Z, b, WB(Z, b) + (d + 1))'
    <3>1. WB(Z, b)' = WB(Z, b) /\ n + 1 = WB(Z, b) + (d + 1)
      BY <1>13, <1>2, <1>7, <1>12 DEF Kept
    <3> QED BY <1>15, <3>1 DEF Out
  <2>6. AtData(O, Z, b, d + 1)'
    BY <1>7, <1>10, <1>16, <1>17, <2>2, <2>4, <2>5 DEF AtData
  <2>7. Reading(O, Z)'
    BY <1>16, <2>1, <2>6 DEF Reading
  <2> QED BY <1>16, <2>7 DEF ReadPhase
<1>19. CASE ~(len > 8)
  <2>1. rpc' = "size" /\ used = len
    BY <1>1, <1>9, <1>19
  <2>2. Words(Z[b]) = d + 1
    <3>1. /\ Words(Z[b]) \in Nat /\ (8 * d < Z[b] <=> d < Words(Z[b]))
          /\ (8 * (d + 1) < Z[b] <=> d + 1 < Words(Z[b]))
      <4>1. d + 1 \in Nat
        BY <1>7
      <4> QED BY <1>7, <1>8, <4>1, WordsAre
    <3> QED BY <1>7, <1>8, <1>19, <3>1
  <2>3. p + used = O[b + 1]
    BY <1>7, <1>8, <2>1
  <2>4. \E q1, rw1 : Looks(q1, rw1)' /\ 8 * q1 + inputIdx' = O[b + 1]
    BY <1>10, <2>3
  <2>5. Out(O, Z, b, WB(Z, b + 1))'
    <3>1. WB(Z, b)' = WB(Z, b) /\ WB(Z, b + 1)' = WB(Z, b + 1) /\ n + 1 = WB(Z, b + 1)
      BY <1>13, <1>2, <1>7, <1>12, <2>2 DEF Kept
    <3> QED BY <1>15, <3>1 DEF Out
  <2>6. AtSize(O, Z, b)'
    <3>1. b \in 0..FB'
      BY <1>7, <1>16
    <3> QED BY <1>10, <1>17, <2>4, <2>5, <3>1 DEF AtSize
  <2>7. Reading(O, Z)'
    BY <1>16, <2>1, <2>6 DEF Reading
  <2> QED BY <1>16, <2>7 DEF ReadPhase
<1> QED BY <1>7, <1>18, <1>19

LEMMA EndKept == ASSUME ReadPhase, EndOfFrame PROVE ReadPhase'
<1>1. /\ rpc = "size" /\ ~(processedBytes + inputIdx < Len(frame))
      /\ blockInfoStream' = Append(blockInfoStream, [compressedSize |-> 0, storedBlock |-> FALSE])
      /\ rpc' = "done"
      /\ UNCHANGED hostVars /\ outStream' = outStream /\ inStream' = inStream
  BY DEF EndOfFrame, windowVars
<1>2. Kept
  BY <1>1, HostRests
<1>3. PICK O, Z : Reading(O, Z)
  BY DEF ReadPhase
<1>4. WholeFrame(O, Z) /\ \E b : AtSize(O, Z, b)
  BY <1>1, <1>3 DEF Reading
<1>5. FrameFacts(O, Z)
  BY <1>4, FrameIs DEF ReadPhase
<1> PICK b : AtSize(O, Z, b)
  BY <1>4
<1>6. PICK q, rw : Looks(q, rw) /\ 8 * q + inputIdx = O[b + 1]
  BY DEF AtSize
<1>7. /\ b \in 0..FB /\ IsList(blockInfoStream, b) /\ Infos(Z, b) /\ Out(O, Z, b, WB(Z, b + 1))
      /\ inputIdx \in 0..15 /\ FB \in Nat /\ q \in Nat
  BY <1>5, <1>6 DEF AtSize, FrameFacts, Looks
<1>8. Len(frame) = O[FB + 1] + 8 /\ O[FB + 1] \in Nat
  BY <1>5 DEF FrameFacts
\* No block is left.
<1>9. b = FB
  <2>1. CASE b < FB
    <3>1. b + 1 \in 1..FB
      BY <1>7, <2>1
    <3>2. /\ O[b + 1] \in Nat /\ Z[b + 1] \in Nat /\ O[(b + 1) + 1] = O[b + 1] + (4 + Z[b + 1])
          /\ O[(b + 1) + 1] <= O[FB + 1]
      BY <1>5, <3>1 DEF FrameFacts
    <3>3. processedBytes + inputIdx = O[b + 1] + 8
      <4>1. processedBytes = 8 * q + 8
        BY <1>6 DEF Looks
      <4>2. 8 * q + inputIdx = O[b + 1]
        BY <1>6
      <4> QED BY <1>7, <4>1, <4>2
    <3> QED BY <1>1, <1>8, <3>2, <3>3
  <2> QED BY <1>7, <2>1
\* All words of the frame have been read.
<1>10. inStream = <<>>
  <2>1. Window(inStream, FrameWords, rw, WT) /\ rw <= q + 3 /\ (rw = q + 3 \/ rw = WT)
    BY <1>6 DEF Looks
  <2>2. rw \in Nat /\ WT \in Nat /\ rw <= WT
    BY <2>1 DEF Window
  <2>3. rw < WT => 8 * rw < O[FB + 1] + 8
    BY <1>8, <2>2, WordsAre DEF WT
  <2>4. 8 * q + inputIdx = O[FB + 1]
    BY <1>6, <1>9
  <2>5. rw = WT
    <3>1. rw = q + 3 \/ rw = WT
      BY <2>1
    <3> QED BY <1>7, <1>8, <2>2, <2>3, <2>4, <3>1
  <2> QED BY <2>1, <2>5, WindowLength
<1> DEFINE x == [compressedSize |-> 0, storedBlock |-> FALSE]
<1>11. Appended(blockInfoStream', blockInfoStream, b, x)
  <2>1. blockInfoStream' = Append(blockInfoStream, x)
    BY <1>1
  <2> HIDE DEF x
  <2>2. Appended(Append(blockInfoStream, x), blockInfoStream, b, x)
    BY <1>7, ListAppend
  <2> QED BY <2>1, <2>2
<1>12. IsList(blockInfoStream', FB + 1) /\ blockInfoStream'[FB + 1] = x
  BY <1>9, <1>11 DEF Appended
<1> HIDE DEF x
<1>13. WholeFrame(O, Z)' /\ FB' = FB /\ hpc' = "done" /\ input_size' \in Nat \ {0}
  BY <1>2, <1>4 DEF Kept, ReadPhase
<1>14. Infos(Z, FB)'
  <2>1. \A h : Info(Z, h)' = Info(Z, h)
    BY <1>2 DEF Kept
  <2>2. ASSUME NEW h \in 1..FB PROVE blockInfoStream'[h] = Info(Z, h)
    <3>1. h \in 1..b
      BY <1>9
    <3> QED BY <1>7, <1>11, <3>1 DEF Appended, Infos
  <2> QED BY <1>13, <2>1, <2>2 DEF Infos
<1>15. Out(O, Z, FB, WB(Z, FB + 1))'
  <2>1. \A h : WB(Z, h)' = WB(Z, h)
    BY <1>2 DEF Kept
  <2>2. \A y : WordAt(y)' = WordAt(y)
    BY <1>2 DEF Kept
  <2>3. Out(O, Z, FB, WB(Z, FB + 1))
    BY <1>7, <1>9
  <2> QED BY <1>1, <1>13, <2>1, <2>2, <2>3 DEF Out
<1>16. AtEnd(O, Z)'
  BY <1>1, <1>10, <1>12, <1>13, <1>14, <1>15 DEF AtEnd, x
<1>17. Reading(O, Z)'
  BY <1>1, <1>13, <1>16 DEF Reading
<1> QED BY <1>13, <1>17 DEF ReadPhase

-----------------------------------------------------------------------------
(* The invariant *)

LEMMA NothingMoves == ASSUME FrameInv, UNCHANGED vars PROVE FrameInv'
<1>1. /\ UNCHANGED <<input_size, hpc, inIdx, chunk, i, readBlockSize, lanes, compressd_size, buf_out, frame>>
      /\ UNCHANGED <<rpc, inStream, inputWindow, readBytes, processedBytes, inputIdx, len>>
      /\ UNCHANGED <<blockInfoStream, outStream, readerVars, hostVars>>
  BY DEF vars, kernelVars, readerVars, windowVars, hostVars
<1>2. CASE HostPhase
  <2>1. Framed' /\ Waiting'
    BY <1>1, <1>2, FrameUntouched
  <2>2. no_blocks' = no_blocks /\ nblocks' = nblocks /\ \A b : BlockSize(b)' = BlockSize(b)
    BY <1>1 DEF no_blocks, nblocks, BlockSize
  <2>3. \A b, n, x : Good(b, n, x)' <=> Good(b, n, x)
    BY <1>1, <2>2 DEF Good
  <2>4. /\ InChunk' <=> InChunk
        /\ Working' <=> Working
        /\ LanesGood' <=> LanesGood
        /\ ChunkGood' <=> ChunkGood
    <3>1. InChunk' <=> InChunk
      BY <1>1 DEF InChunk
    <3>2. Working' <=> Working
      BY <1>1, <2>2, <2>3 DEF Working, Reported0
    <3>3. LanesGood' <=> LanesGood
      BY <1>1, <2>2, <2>3 DEF LanesGood, Reported
    <3>4. ChunkGood' <=> ChunkGood
      BY <1>1, <2>2, <2>3 DEF ChunkGood
    <3> QED BY <3>1, <3>2, <3>3, <3>4
  <2>5. \A j \in Lanes : Given(j)' <=> Given(j)
    BY <1>1, <2>2 DEF Given, Takes
  <2>6. Rounds' <=> Rounds
    BY <1>1, <2>2, <2>4, <2>5 DEF Rounds
  <2>7. HostInv'
    BY <1>1, <1>2, <2>6 DEF HostPhase, HostInv
  <2> QED BY <2>1, <2>7 DEF FrameInv, HostPhase
<1>3. CASE ReadPhase
  <2>1. Kept
    BY <1>1, HostRests
  <2>2. PICK O, Z : Reading(O, Z)
    BY <1>3 DEF ReadPhase
  <2>3. WholeFrame(O, Z)'
    BY <2>1, <2>2 DEF Reading, Kept
  <2>4. \A b, n : (Infos(Z, b)' <=> Infos(Z, b)) /\ (Out(O, Z, b, n)' <=> Out(O, Z, b, n))
    BY <1>1, <2>1 DEF Kept, Infos, Out
  <2>5. \A q, rw : Looks(q, rw)' <=> Looks(q, rw)
    BY <1>1, <2>1 DEF Kept, Looks
  <2>6. AtStart' <=> AtStart
    BY <1>1, <2>1 DEF Kept, AtStart
  <2>7. ASSUME NEW b, AtSize(O, Z, b) PROVE AtSize(O, Z, b)'
    <3>1. Out(O, Z, b, WB(Z, b + 1))'
      <4>1. WB(Z, b + 1)' = WB(Z, b + 1) /\ Out(O, Z, b, WB(Z, b + 1))
        BY <2>1, <2>7 DEF Kept, AtSize
      <4> QED BY <1>1, <2>1, <4>1 DEF Out, Kept
    <3> QED BY <1>1, <2>1, <2>4, <2>5, <2>7, <3>1 DEF AtSize, Kept
  <2>8. ASSUME NEW b, NEW d, AtData(O, Z, b, d) PROVE AtData(O, Z, b, d)'
    <3>1. Out(O, Z, b, WB(Z, b) + d)'
      <4>1. WB(Z, b)' = WB(Z, b) /\ Out(O, Z, b, WB(Z, b) + d)
        BY <2>1, <2>8 DEF Kept, AtData
      <4> QED BY <1>1, <2>1, <4>1 DEF Out, Kept
    <3> QED BY <1>1, <2>1, <2>4, <2>5, <2>8, <3>1 DEF AtData, Kept
  <2>9. ASSUME AtEnd(O, Z) PROVE AtEnd(O, Z)'
    <3>1. Out(O, Z, FB, WB(Z, FB + 1))'
      BY <1>1, <2>1, <2>9 DEF AtEnd, Out, Kept
    <3>2. FB' = FB /\ Infos(Z, FB)'
      BY <1>1, <2>1, <2>9 DEF AtEnd, Infos, Kept
    <3> QED BY <1>1, <2>9, <3>1, <3>2 DEF AtEnd
  <2>10. Reading(O, Z)'
    BY <1>1, <2>2, <2>3, <2>6, <2>7, <2>8, <2>9 DEF Reading
  <2> QED BY <1>1, <1>3, <2>10 DEF FrameInv, ReadPhase
<1> QED BY <1>2, <1>3 DEF FrameInv

LEMMA StepKept == ASSUME FrameInv, [Next]_vars PROVE FrameInv'
<1>1. CASE UNCHANGED vars
  BY <1>1, NothingMoves
<1>2. CASE Next /\ HostPhase
  <2>1. rpc = "wait"
    BY <1>2 DEF HostPhase, Waiting
  <2>2. CASE host
    BY <1>2, <2>2, NextChunkKept, WriteKept, FooterKept DEF host, FrameInv
  <2>3. CASE lz4CompressMM
    BY <1>2, <2>3, RoundKept, CompressKept, ReportKept DEF lz4CompressMM, FrameInv
  <2>4. CASE lz4HeaderProcessing
    BY <2>1, <2>4 DEF lz4HeaderProcessing, ReadHeader, ReadSize, PutWord, EndOfFrame
  <2>5. CASE Finished
    BY <2>5, NothingMoves DEF Finished
  <2> QED BY <1>2, <2>2, <2>3, <2>4, <2>5 DEF Next
<1>3. CASE Next /\ ReadPhase
  <2>1. hpc = "done"
    BY <1>3 DEF ReadPhase
  <2>2. CASE host
    BY <2>1, <2>2 DEF host, NextChunk, writeCompressedBlock, writeFooter
  <2>3. CASE lz4CompressMM
    BY <2>1, <2>3 DEF lz4CompressMM, Round, Compress, Report
  <2>4. CASE lz4HeaderProcessing
    BY <1>3, <2>4, HeaderKept, ReadSizeKept, PutWordKept, EndKept DEF lz4HeaderProcessing, FrameInv
  <2>5. CASE Finished
    BY <2>5, NothingMoves DEF Finished
  <2> QED BY <1>3, <2>2, <2>3, <2>4, <2>5 DEF Next
<1> QED BY <1>1, <1>2, <1>3 DEF FrameInv

\* The inductive invariant of the frame: while it is made, the blocks of the file
\* so far are in it, one behind the other, and each lane has the block of its place;
\* while it is read, the window is at the byte of the frame that is due, and infos
\* and words put out are those of the blocks before it.
THEOREM FrameIsKept == Spec => []FrameInv
<1>1. Init => FrameInv
  BY HostInit DEF FrameInv
<1>2. FrameInv /\ [Next]_vars => FrameInv'
  BY StepKept
<1> QED BY <1>1, <1>2, PTL DEF Spec

-----------------------------------------------------------------------------
(* The file is read back *)

\* A sum of counts does not depend on the counts behind it.
LEMMA SumsSame ==
    ASSUME NEW c, NEW e, NEW n \in Nat, \A k \in 1..n : c[k] = e[k]
    PROVE  \A m \in 1..n + 1 : Before(c, m) = Before(e, m)
<1> DEFINE A(m) == Before(c, m)  B(m) == Before(e, m)
           T == {m \in Nat : m <= n => A(m + 1) = B(m + 1)}
<1>1. /\ A(1) = 0 /\ B(1) = 0
      /\ \A m \in Nat \ {0} : A(m + 1) = A(m) + c[m] /\ B(m + 1) = B(m) + e[m]
  BY BeforeNext
<1> HIDE DEF A, B
<1>2. 0 \in T
  <2>1. 0 + 1 = 1
    OBVIOUS
  <2> QED BY <1>1, <2>1
<1>3. ASSUME NEW m \in Nat, m \in T PROVE m + 1 \in T
  <2>1. SUFFICES ASSUME m + 1 <= n PROVE A((m + 1) + 1) = B((m + 1) + 1)
    OBVIOUS
  <2>2. m + 1 \in 1..n /\ m + 1 \in Nat \ {0} /\ A(m + 1) = B(m + 1)
    BY <1>3, <2>1
  <2> QED BY <1>1, <2>2
<1>4. Nat \subseteq T
  BY <1>2, <1>3, SetInduction
<1>5. ASSUME NEW m \in 1..n + 1 PROVE A(m) = B(m)
  <2>1. m - 1 \in Nat /\ m - 1 <= n /\ (m - 1) + 1 = m
    OBVIOUS
  <2> QED BY <1>4, <2>1
<1> QED BY <1>5 DEF A, B

\* Words of 8 bytes put together.
Octets(s, S, n) == \A m \in 1..n : IsList(s[m], 8) /\ \A k \in 1..8 : s[m][k] = S[8 * (m - 1) + k]
Begins(x, S, z) == SubSeq(x, 1, z) = [k \in 1..z |-> S[k]]

LEMMA FlatWords ==
    ASSUME NEW S, NEW n \in Nat, NEW s, s = [m \in 1..n |-> s[m]], Octets(s, S, n),
           NEW z \in Nat, z <= 8 * n
    PROVE  Begins(FlattenSeq(s), S, z)
<1> DEFINE c == [m \in 1..n |-> 8]  T == {m \in Nat : m <= n => Before(c, m + 1) = 8 * m}  Q(m) == Before(c, m)
<1>1. \A m \in 1..n : c[m] = 8 /\ c[m] \in Nat
  OBVIOUS
<1> HIDE DEF c
<1>2. Growing(c, n)
  BY <1>1, SumsGrow
<1>3. Q(1) = 0 /\ \A m \in 1..n : Q(m + 1) = Q(m) + c[m]
  BY <1>2 DEF Growing
<1>4. Nat \subseteq T
  <2>1. 0 \in T
    <3>1. 0 + 1 = 1 /\ 8 * 0 = 0
      OBVIOUS
    <3> QED BY <1>3, <3>1
  <2>2. ASSUME NEW m \in Nat, m \in T PROVE m + 1 \in T
    <3> HIDE DEF Q
    <3>1. SUFFICES ASSUME m + 1 <= n PROVE Q((m + 1) + 1) = 8 * (m + 1)
      BY DEF Q
    <3>2. m + 1 \in 1..n /\ Q(m + 1) = 8 * m
      BY <2>2, <3>1 DEF Q
    <3>3. Q((m + 1) + 1) = Q(m + 1) + 8
      BY <1>1, <1>3, <3>2
    <3> QED BY <3>2, <3>3
  <2> QED BY <2>1, <2>2, SetInduction
<1>5. \A m \in 1..n + 1 : Q(m) = 8 * (m - 1)
  <2>1. ASSUME NEW m \in 1..n + 1 PROVE Q(m) = 8 * (m - 1)
    <3>1. m - 1 \in Nat /\ m - 1 <= n /\ (m - 1) + 1 = m
      OBVIOUS
    <3> QED BY <1>4, <3>1
  <2> QED BY <2>1
<1> HIDE DEF T
<1>6. \A m \in 1..n : IsPiece(s[m], S, Q(m), c[m])
  <2>1. ASSUME NEW m \in 1..n PROVE s[m] = [k \in 1..c[m] |-> S[Q(m) + k]]
    <3>1. Q(m) = 8 * (m - 1) /\ c[m] = 8
      <4>1. m \in 1..n + 1
        OBVIOUS
      <4> QED BY <1>1, <1>5, <4>1
    <3>2. s[m] = [k \in 1..8 |-> s[m][k]]
      BY DEF Octets, IsList
    <3> HIDE DEF Q
    <3> QED BY <3>1, <3>2 DEF Octets
  <2> QED BY <2>1 DEF IsPiece
<1>7. Window(FlattenSeq(s), S, 0, Q(n + 1))
  BY <1>2, <1>6, FlatteningIs
<1> DEFINE x == FlattenSeq(s)
<1>8. Q(n + 1) = 8 * n
  <2>1. n + 1 \in 1..n + 1 /\ (n + 1) - 1 = n
    OBVIOUS
  <2> QED BY <1>5, <2>1
<1> HIDE DEF x, Q
<1>9. \A k \in 1..8 * n : x[k] = S[k]
  <2>1. \A k \in 1..8 * n - 0 : x[k] = S[0 + k]
    BY <1>7, <1>8, WindowLength DEF x
  <2>2. \A k \in 1..8 * n : k \in 1..8 * n - 0 /\ 0 + k = k
    OBVIOUS
  <2> QED BY <2>1, <2>2
<1>10. SubSeq(x, 0 + 1, z) = [k \in 1..z |-> x[0 + k]]
  <2>1. z = 0 + z
    OBVIOUS
  <2> QED BY <2>1, ListCut
<1>11. SubSeq(x, 1, z) = [k \in 1..z |-> x[0 + k]]
  <2>1. 0 + 1 = 1
    OBVIOUS
  <2> QED BY <1>10, <2>1
<1>12. \A k \in 1..z : x[0 + k] = S[k]
  <2>1. ASSUME NEW k \in 1..z PROVE x[0 + k] = S[k]
    <3>1. 0 + k = k /\ k \in 1..8 * n
      OBVIOUS
    <3> QED BY <1>9, <3>1
  <2> QED BY <2>1
<1> QED BY <1>11, <1>12 DEF x, Begins

\* What the infos say of a block.
LEMMA InfoFields ==
    ASSUME NEW n, NEW x \in BOOLEAN, NEW r, r = [compressedSize |-> n, storedBlock |-> x]
    PROVE  r.compressedSize = n /\ (r.storedBlock <=> x)
  OBVIOUS

LEMMA InfoIs ==
    ASSUME NEW Z, NEW b
    PROVE  Info(Z, b).compressedSize = Z[b] /\ (Info(Z, b).storedBlock <=> Z[b] = FileBlock(b))
<1> DEFINE x == Z[b] = FileBlock(b)  n == Z[b]  r == Info(Z, b)
<1>1. x \in BOOLEAN
  OBVIOUS
<1>2. r = [compressedSize |-> n, storedBlock |-> x]
  BY Zenon DEF Info
<1> HIDE DEF x, n, r
<1>3. r.compressedSize = n /\ (r.storedBlock <=> x)
  BY <1>1, <1>2, InfoFields
<1> QED BY <1>3, Zenon DEF x, n, r

LEMMA DataIs ==
    ASSUME ReadPhase, NEW O, NEW Z, WholeFrame(O, Z), AtEnd(O, Z), NEW b \in 1..FB
    PROVE  /\ WordsBefore(b) = WB(Z, b) /\ WordsBefore(b + 1) = WB(Z, b + 1)
           /\ DataOf(b) = [k \in 1..Z[b] |-> Code(BL * (b - 1), FileBlock(b), Z[b])[4 + k]]
<1>1. FrameFacts(O, Z)
  BY FrameIs DEF ReadPhase
<1>2. /\ FB \in Nat \ {0} /\ O[b] \in Nat /\ Z[b] \in Nat \ {0} /\ Words(Z[b]) \in Nat
      /\ \A k \in 1..4 + Z[b] : ByteAt(O[b] + k) = Code(BL * (b - 1), FileBlock(b), Z[b])[k]
  BY <1>1 DEF FrameFacts
<1>3. /\ IsList(blockInfoStream, FB + 1) /\ \A h \in 1..FB : blockInfoStream[h].compressedSize = Z[h]
  BY InfoIs DEF AtEnd, Infos
<1>4. \A m \in 1..FB + 1 : WordsBefore(m) = WB(Z, m)
  <2> DEFINE c == [k \in DOMAIN blockInfoStream |-> Words(blockInfoStream[k].compressedSize)]
             e == Counts(Z)  n == FB
  <2>1. n \in Nat /\ \A k \in 1..n : c[k] = e[k]
    <3>1. DOMAIN blockInfoStream = 1..FB + 1
      BY <1>3, ListLength
    <3> QED BY <1>2, <1>3, <3>1 DEF Counts
  <2> HIDE DEF c, e, n
  <2>2. \A m \in 1..n + 1 : Before(c, m) = Before(e, m)
    BY <2>1, SumsSame
  <2> QED BY <2>2 DEF WordsBefore, WB, c, e, n
<1>5. WordsBefore(b) = WB(Z, b) /\ WordsBefore(b + 1) = WB(Z, b + 1)
  <2>1. b \in 1..FB + 1 /\ b + 1 \in 1..FB + 1
    BY <1>2
  <2> QED BY <1>4, <2>1
<1>6. WB(Z, b) \in Nat /\ WB(Z, b + 1) = WB(Z, b) + Words(Z[b])
  BY <1>1, WordsBeforeBlock
<1>7. ASSUME NEW w \in 1..Words(Z[b])
      PROVE  outStream[WB(Z, b) + w] = WordAt(O[b] + 4 + 8 * (w - 1))
  <2>1. WB(Z, b) + w <= WB(Z, FB + 1)
    <3> DEFINE B(h) == Before(Counts(Z), h)
    <3>1. \A m \in 1..FB + 1 : B(m) \in Nat /\ \A k \in 1..m : B(k) <= B(m)
      BY <1>1 DEF FrameFacts, Growing
    <3> HIDE DEF B
    <3>2. b + 1 \in 1..FB + 1 /\ FB + 1 \in 1..FB + 1 /\ b + 1 \in 1..(FB + 1)
      BY <1>2
    <3>3. B(b + 1) \in Nat /\ B(FB + 1) \in Nat /\ B(b + 1) <= B(FB + 1)
      BY <3>1, <3>2
    <3>4. WB(Z, b + 1) \in Nat /\ WB(Z, FB + 1) \in Nat /\ WB(Z, b + 1) <= WB(Z, FB + 1)
      BY <3>3 DEF B, WB
    <3> QED BY <1>2, <1>6, <3>4
  <2> QED BY <2>1 DEF AtEnd, Out
<1> DEFINE r == WB(Z, b)  n == Words(Z[b])  z == Z[b]
           s == SubSeq(outStream, r + 1, r + n)
           S == [k \in Nat |-> ByteAt((O[b] + 4) + k)]
<1>8. s = [w \in 1..n |-> outStream[r + w]]
  <2>1. r \in Nat /\ n \in Nat
    BY <1>2, <1>6
  <2> HIDE DEF r, n
  <2> QED BY <2>1, ListCut
<1>9. ASSUME NEW w \in 1..n
      PROVE  IsList(s[w], 8) /\ \A k \in 1..8 : s[w][k] = S[8 * (w - 1) + k]
  <2> DEFINE p == O[b] + 4 + 8 * (w - 1)
  <2>1. s[w] = WordAt(p)
    BY <1>7, <1>8
  <2>2. p \in Nat /\ w \in Nat
    BY <1>2
  <2>3. ASSUME NEW k \in 1..8 PROVE ByteAt(p + k) = S[8 * (w - 1) + k]
    <3>1. 8 * (w - 1) + k \in Nat /\ (O[b] + 4) + (8 * (w - 1) + k) = p + k
      BY <1>2, <2>2
    <3> QED BY <3>1
  <2> HIDE DEF p, S, s
  <2> QED BY <2>1, <2>2, <2>3, WordsTaken
<1>10. s = [w \in 1..n |-> s[w]]
  BY <1>8
<1>11. z \in Nat /\ n \in Nat /\ z <= 8 * n
  <2>1. ~(8 * n < z)
    <3>1. n \in Nat /\ z \in Nat
      BY <1>2
    <3> QED BY <3>1, WordsAre
  <2> QED BY <1>2, <2>1
<1>12. SubSeq(FlattenSeq(s), 1, z) = [k \in 1..z |-> S[k]]
  <2>1. Octets(s, S, n)
    BY <1>9 DEF Octets
  <2> HIDE DEF s, S, n, z
  <2>2. Begins(FlattenSeq(s), S, z)
    BY <1>10, <1>11, <2>1, FlatWords
  <2> QED BY <2>2 DEF Begins
<1>13. DataOf(b) = SubSeq(FlattenSeq(s), 1, z)
  <2>1. WordsBefore(b) = r /\ WordsBefore(b + 1) = r + n /\ blockInfoStream[b].compressedSize = z
    BY <1>3, <1>5, <1>6
  <2> HIDE DEF r, n, z
  <2> QED BY <2>1 DEF DataOf, s
<1>14. ASSUME NEW k \in 1..z PROVE S[k] = Code(BL * (b - 1), FileBlock(b), Z[b])[4 + k]
  <2>1. k \in Nat /\ (O[b] + 4) + k = O[b] + (4 + k) /\ 4 + k \in 1..4 + Z[b]
    BY <1>2
  <2> QED BY <1>2, <2>1
<1> HIDE DEF s, S
<1>15. DataOf(b) = [k \in 1..z |-> Code(BL * (b - 1), FileBlock(b), Z[b])[4 + k]]
  BY <1>12, <1>13, <1>14
<1> QED BY <1>5, <1>15

\* Lz4Frame!FrameIsReadBack: whatever the lanes make of their blocks, for a file of any
\* size, any number of lanes, any size of block and chunk, the decoder gets back one
\* block for each block of the file, with its bytes or what a lane made of them.
THEOREM FileComesBack == Spec => []FrameIsReadBack
<1>1. HostPhase => FrameIsReadBack
  BY DEF HostPhase, HostInv, Waiting, FrameIsReadBack
<1>2. ASSUME ReadPhase PROVE FrameIsReadBack
  <2>1. hpc # "aborted"
    BY <1>2 DEF ReadPhase
  <2>2. ASSUME rpc = "done"
        PROVE  /\ Len(blockInfoStream) = FileBlocks + 1
               /\ blockInfoStream[FileBlocks + 1].compressedSize = 0
               /\ inStream = <<>> /\ Len(outStream) = WordsBefore(FileBlocks + 1)
               /\ \A b \in 1..FileBlocks :
                     LET info == blockInfoStream[b]
                     IN  IF info.storedBlock THEN DataOf(b) = RawBytes(Start(b), Length(b))
                         ELSE DataOf(b) = PackedBytes([from |-> Start(b), size |-> Length(b),
                                                       bytes |-> info.compressedSize, whole |-> TRUE],
                                                      info.compressedSize)
    <3>1. PICK O, Z : Reading(O, Z)
      BY <1>2 DEF ReadPhase
    <3>2. WholeFrame(O, Z) /\ AtEnd(O, Z)
      BY <2>2, <3>1 DEF Reading
    <3>3. FrameFacts(O, Z)
      BY <1>2, <3>2, FrameIs DEF ReadPhase
    <3>4. FileBlocks = FB /\ FB \in Nat \ {0}
      BY <3>3 DEF FileBlocks, FB, Blocks, BL, FrameFacts
    <3>5. Len(blockInfoStream) = FB + 1 /\ blockInfoStream[FB + 1].compressedSize = 0 /\ inStream = <<>>
      BY <3>2, ListLength DEF AtEnd
    <3>6. Len(outStream) = WordsBefore(FB + 1)
      <4>1. Len(outStream) = WB(Z, FB + 1)
        BY <3>2, ListLength DEF AtEnd, Out
      <4>2. FB \in 1..FB
        BY <3>4
      <4>3. WordsBefore(FB + 1) = WB(Z, FB + 1)
        BY <1>2, <3>2, <4>2, DataIs
      <4> QED BY <4>1, <4>3
    <3>7. ASSUME NEW b \in 1..FB
          PROVE  IF blockInfoStream[b].storedBlock THEN DataOf(b) = RawBytes(Start(b), Length(b))
                 ELSE DataOf(b) = PackedBytes([from |-> Start(b), size |-> Length(b),
                                               bytes |-> blockInfoStream[b].compressedSize, whole |-> TRUE],
                                              blockInfoStream[b].compressedSize)
      <4> DEFINE from == BL * (b - 1)  size == FileBlock(b)  n == Z[b]
      <4>1. /\ size \in Nat /\ n \in 1..size
        BY <3>3, Params DEF FrameFacts
      <4>2. DataOf(b) = [k \in 1..n |-> Code(from, size, n)[4 + k]]
        BY <1>2, <3>2, DataIs
      <4>3. Start(b) = from /\ Length(b) = size
        <5>1. (b - 1) * BL = BL * (b - 1)
          BY Params
        <5> QED BY <5>1 DEF Start, Length, FileBlock, BL
      <4>4. blockInfoStream[b].compressedSize = n /\ (blockInfoStream[b].storedBlock <=> n = size)
        <5>1. blockInfoStream[b] = Info(Z, b)
          BY <3>2 DEF AtEnd, Infos
        <5> QED BY <5>1, InfoIs
      <4> HIDE DEF from, size, n
      <4>5. IF n < size THEN Behind(Code(from, size, n), SizeBytes(n), 4, PackedBytes(Rec(from, size, n), n), n)
                        ELSE Behind(Code(from, size, n), StoredBytes(size), 4, RawBytes(from, size), n)
        BY <4>1, CodeIs
      <4>6. CASE n < size
        <5>1. \A k \in 1..n : Code(from, size, n)[4 + k] = PackedBytes(Rec(from, size, n), n)[k]
          BY <4>5, <4>6 DEF Behind
        <5>2. DataOf(b) = PackedBytes(Rec(from, size, n), n)
          BY <4>2, <5>1 DEF PackedBytes
        <5>3. ~blockInfoStream[b].storedBlock
          BY <4>1, <4>4, <4>6
        <5> QED BY <4>3, <4>4, <5>2, <5>3 DEF Rec
      <4>7. CASE ~(n < size)
        <5>1. n = size
          BY <4>1, <4>7
        <5>2. \A k \in 1..n : Code(from, size, n)[4 + k] = RawBytes(from, size)[k]
          BY <4>5, <4>7 DEF Behind
        <5>3. DataOf(b) = RawBytes(from, size)
          BY <4>2, <5>1, <5>2 DEF RawBytes
        <5> QED BY <4>3, <4>4, <5>1, <5>3
      <4> QED BY <4>6, <4>7
    <3> QED BY <3>4, <3>5, <3>6, <3>7
  <2> QED BY <2>1, <2>2 DEF FrameIsReadBack
<1>3. FrameInv => FrameIsReadBack
  BY <1>1, <1>2 DEF FrameInv
<1> QED BY <1>3, FrameIsKept, PTL

=============================================================================
