---------------------------- MODULE LzMatchProofs ----------------------------
(***************************************************************************)
(* Proofs about LzMatch: for every window, level, offset limit, depth and  *)
(* input, and however the dictionary lags, the items the encoder gets tell *)
(* the truth about the input and cover it exactly.                         *)
(***************************************************************************)
EXTENDS LzMatch, SequenceTheorems, WellFoundedInduction, TLAPS

(* Induction, and the place of an item *)

LEMMA LeastElement ==
    ASSUME NEW T, T \subseteq Nat, T # {}
    PROVE  \E x \in T : \A y \in T : x <= y
<1>1. PICK x \in T : \A y \in T : ~ (<<y, x>> \in OpToRel(<, Nat))
  BY NatLessThanWellFounded, WFMin
<1>2. OpToRel(<, Nat) = {ss \in Nat \X Nat : ss[1] < ss[2]}
  BY DEF OpToRel
<1>3. ASSUME NEW y \in T, y < x PROVE <<y, x>> \in OpToRel(<, Nat)
  BY <1>2, <1>3
<1>4. \A y \in T : ~(y < x)
  BY <1>1, <1>3
<1>5. \A y \in T : x <= y
  BY <1>4
<1> QED BY <1>5

LEMMA SetInduction ==
    ASSUME NEW S, 0 \in S, \A n \in Nat : n \in S => n + 1 \in S
    PROVE  Nat \subseteq S
<1> DEFINE T == Nat \ S
<1>1. SUFFICES ASSUME T # {} PROVE FALSE
  OBVIOUS
<1>2. PICK x \in T : \A y \in T : x <= y
  BY <1>1, LeastElement
<1>3. x - 1 \in Nat /\ x - 1 \in S /\ (x - 1) + 1 = x
  BY <1>2
<1> QED BY <1>2, <1>3

\* The function that Place is defined by.
IsPlace(its, n, f) == f = [k \in 1..n |-> IF k = 1 THEN 0 ELSE f[k - 1] + Covered(its[k - 1])]

LEMMA PlacesExist ==
    ASSUME NEW its, NEW n \in Nat
    PROVE  \E f : IsPlace(its, n, f)
<1> DEFINE S == {m \in Nat : \E f : IsPlace(its, m, f)}
<1>1. 0 \in S
  <2>1. IsPlace(its, 0, [k \in 1..0 |-> 0])
    BY DEF IsPlace
  <2> QED BY <2>1
<1>2. ASSUME NEW m \in Nat, m \in S PROVE m + 1 \in S
  <2>1. PICK f : IsPlace(its, m, f)
    BY <1>2
  <2> DEFINE c(k) == Covered(its[k])
             g == [k \in 1..m + 1 |-> IF k \in 1..m THEN f[k] ELSE IF k = 1 THEN 0 ELSE f[k - 1] + c(k - 1)]
  <2> HIDE DEF c
  <2>2. \A k \in 1..m : f[k] = IF k = 1 THEN 0 ELSE f[k - 1] + c(k - 1)
    BY <2>1 DEF IsPlace, c
  <2>3. \A k \in 1..m + 1 : g[k] = IF k = 1 THEN 0 ELSE g[k - 1] + c(k - 1)
    <3>1. ASSUME NEW k \in 1..m + 1 PROVE g[k] = IF k = 1 THEN 0 ELSE g[k - 1] + c(k - 1)
      <4>1. CASE k = 1
        BY <2>2, <4>1
      <4>2. CASE k # 1
        <5>1. k - 1 \in 1..m
          BY <4>2
        <5>2. g[k - 1] = f[k - 1]
          BY <5>1
        <5>3. g[k] = f[k - 1] + c(k - 1)
          BY <2>2, <4>2
        <5> QED BY <4>2, <5>2, <5>3
      <4> QED BY <4>1, <4>2
    <3> QED BY <3>1
  <2>4. g = [k \in 1..m + 1 |-> IF k = 1 THEN 0 ELSE g[k - 1] + c(k - 1)]
    <3> DEFINE h == [k \in 1..m + 1 |-> IF k = 1 THEN 0 ELSE g[k - 1] + c(k - 1)]
    <3>1. DOMAIN g = 1..m + 1 /\ g = [k \in 1..m + 1 |-> g[k]]
      OBVIOUS
    <3> HIDE DEF g
    <3> QED BY <2>3, <3>1
  <2>5. IsPlace(its, m + 1, g)
    BY <2>4 DEF IsPlace, c
  <2> QED BY <2>5
<1> HIDE DEF S
<1>3. Nat \subseteq S
  BY <1>1, <1>2, SetInduction
<1> QED BY <1>3 DEF S

LEMMA PlacesAgree ==
    ASSUME NEW its, NEW n \in Nat, NEW m \in Nat, NEW f, IsPlace(its, n, f), NEW g, IsPlace(its, m, g)
    PROVE  \A k \in 1..n : k <= m => f[k] = g[k]
<1> DEFINE c(k) == Covered(its[k])
           S == {k \in Nat : k \in 1..n /\ k <= m => f[k] = g[k]}
<1>1. /\ \A k \in 1..n : f[k] = IF k = 1 THEN 0 ELSE f[k - 1] + c(k - 1)
      /\ \A k \in 1..m : g[k] = IF k = 1 THEN 0 ELSE g[k - 1] + c(k - 1)
  BY DEF IsPlace
<1> HIDE DEF c
<1>2. 0 \in S
  OBVIOUS
<1>3. ASSUME NEW k \in Nat, k \in S PROVE k + 1 \in S
  <2> SUFFICES ASSUME k + 1 \in 1..n, k + 1 <= m PROVE f[k + 1] = g[k + 1]
    OBVIOUS
  <2>1. CASE k = 0
    BY <1>1, <2>1
  <2>2. CASE k # 0
    <3>1. k \in 1..n /\ k \in 1..m /\ f[k] = g[k] /\ k + 1 # 1 /\ (k + 1) - 1 = k /\ k + 1 \in 1..m
      BY <1>3, <2>2
    <3>2. f[k + 1] = f[k] + c(k) /\ g[k + 1] = g[k] + c(k)
      BY <1>1, <3>1
    <3> QED BY <3>1, <3>2
  <2> QED BY <2>1, <2>2
<1> HIDE DEF S
<1>4. Nat \subseteq S
  BY <1>2, <1>3, SetInduction
<1> QED BY <1>4 DEF S

LEMMA PlaceIs ==
    ASSUME NEW its, NEW n \in Nat \ {0}, NEW m \in Nat, NEW f, IsPlace(its, m, f), n <= m
    PROVE  Place(its, n) = f[n]
<1> DEFINE p == CHOOSE place : place = [k \in 1..n |-> IF k = 1 THEN 0 ELSE place[k - 1] + Covered(its[k - 1])]
<1>1. IsPlace(its, n, p)
  BY PlacesExist, Zenon DEF IsPlace
<1>2. Place(its, n) = p[n]
  BY DEF Place
<1> HIDE DEF p
<1>3. p[n] = f[n]
  BY <1>1, PlacesAgree
<1> QED BY <1>2, <1>3

\* Each item begins where the one before it ends.
LEMMA PlaceOfNext ==
    ASSUME NEW its
    PROVE  /\ Place(its, 1) = 0
           /\ \A n \in Nat \ {0} : Place(its, n + 1) = Place(its, n) + Covered(its[n])
<1>1. Place(its, 1) = 0
  <2>1. PICK f : IsPlace(its, 1, f)
    BY PlacesExist
  <2>2. f[1] = 0
    BY <2>1 DEF IsPlace
  <2> QED BY <2>1, <2>2, PlaceIs
<1>2. ASSUME NEW n \in Nat \ {0} PROVE Place(its, n + 1) = Place(its, n) + Covered(its[n])
  <2>1. PICK f : IsPlace(its, n + 1, f)
    BY PlacesExist
  <2>2. Place(its, n + 1) = f[n + 1] /\ Place(its, n) = f[n]
    BY <2>1, PlaceIs
  <2> DEFINE c(k) == Covered(its[k])
  <2>3. \A k \in 1..n + 1 : f[k] = IF k = 1 THEN 0 ELSE f[k - 1] + c(k - 1)
    BY <2>1 DEF IsPlace
  <2> HIDE DEF c
  <2>4. f[n + 1] = f[n] + c(n)
    <3>1. n + 1 \in 1..n + 1 /\ n + 1 # 1 /\ (n + 1) - 1 = n
      OBVIOUS
    <3> QED BY <2>3, <3>1
  <2> QED BY <2>2, <2>4 DEF c
<1> QED BY <1>1, <1>2

\* Only the items before it decide the place of an item.
LEMMA PlaceOfSame ==
    ASSUME NEW its, NEW others, NEW n \in Nat \ {0}, \A k \in 1..n - 1 : its[k] = others[k]
    PROVE  Place(its, n) = Place(others, n)
<1>1. PICK f : IsPlace(its, n, f)
  BY PlacesExist
<1>2. \A k \in 1..n : k # 1 => Covered(its[k - 1]) = Covered(others[k - 1])
  <2>1. \A k \in 1..n : k # 1 => k - 1 \in 1..n - 1
    OBVIOUS
  <2> QED BY <2>1
<1> DEFINE c(k) == Covered(its[k])  d(k) == Covered(others[k])
<1> HIDE DEF c, d
<1>3. f = [k \in 1..n |-> IF k = 1 THEN 0 ELSE f[k - 1] + c(k - 1)]
  BY <1>1 DEF IsPlace, c
<1>4. \A k \in 1..n : k # 1 => c(k - 1) = d(k - 1)
  BY <1>2 DEF c, d
<1>5. f = [k \in 1..n |-> IF k = 1 THEN 0 ELSE f[k - 1] + d(k - 1)]
  BY <1>3, <1>4
<1>6. IsPlace(others, n, f)
  BY <1>5 DEF IsPlace, d
<1> QED BY <1>1, <1>6, PlaceIs

-----------------------------------------------------------------------------
(* The input *)

LEMMA ResetIndexIsNat == ResetIndex \in Nat
BY SMT DEF ResetIndex

InputInv ==
    /\ size \in InputSizes /\ input \in [1..size -> Bytes]
    /\ searched \in 0..size

LEMMA InputFacts ==
    ASSUME InputInv
    PROVE  /\ size \in 0..ResetIndex /\ (size > 0 => size >= LEFT_BYTES + MATCH_LEN)
           /\ Body \in Int /\ Body < size /\ (size > 0 => Body >= MATCH_LEN)
           /\ searched \in 0..size /\ MATCH_LEN \in Nat \ {0} /\ LEFT_BYTES \in Nat \ {0}
           /\ \A p \in 0..size - 1 : Byte(p) \in Bytes
<1>1. /\ size \in 0..ResetIndex /\ ResetIndex \in Nat /\ (size > 0 => size >= LEFT_BYTES + MATCH_LEN)
      /\ MATCH_LEN \in Nat \ {0} /\ LEFT_BYTES \in Nat \ {0}
  BY SearchAssumption, ResetIndexIsNat DEF InputInv
<1>2. \A p \in 0..size - 1 : Byte(p) \in Bytes
  <2>1. \A p \in 0..size - 1 : p + 1 \in 1..size
    BY <1>1
  <2> QED BY <2>1 DEF InputInv, Byte
<1> HIDE DEF size
<1> QED BY <1>1, <1>2 DEF InputInv, Body

\* A window holds the bytes from its position on.
LEMMA WindowBytes ==
    ASSUME NEW p \in Nat
    PROVE  /\ Window(p) = [m \in 1..MATCH_LEN |-> Byte(p + m - 1)]
           /\ DOMAIN Window(p) = 1..MATCH_LEN
<1>1. MATCH_LEN \in Nat \ {0}
  BY SearchAssumption
<1>2. Window(p) = [m \in 1..MATCH_LEN |-> input[p + 1 + m - 1]]
  <2> DEFINE w == Window(p)  S == {input[k] : k \in p + 1..p + MATCH_LEN}
  <2>1. (p + MATCH_LEN) - (p + 1) + 1 = MATCH_LEN /\ p + 1 \in Int /\ p + MATCH_LEN \in Int
        /\ p + 1 <= p + MATCH_LEN
    BY <1>1
  <2>2. w = SubSeq(input, p + 1, p + MATCH_LEN) /\ \A k \in p + 1..p + MATCH_LEN : input[k] \in S
    BY DEF Window
  <2> HIDE DEF w, S
  <2>3. w \in Seq(S) /\ Len(w) = MATCH_LEN /\ \A m \in 1..MATCH_LEN : w[m] = input[p + 1 + m - 1]
    BY <2>1, <2>2, SubSeqProperties
  <2>4. w = [m \in 1..MATCH_LEN |-> w[m]]
    BY <2>3, LenProperties
  <2>5. w = [m \in 1..MATCH_LEN |-> input[p + 1 + m - 1]]
    BY <2>3, <2>4
  <2> QED BY <2>5 DEF w
<1>3. \A m \in 1..MATCH_LEN : p + 1 + m - 1 = p + m - 1 + 1
  BY <1>1
<1> QED BY <1>2, <1>3 DEF Byte

LEMMA WindowSlot ==
    ASSUME InputInv, NEW p \in Nat, p + MATCH_LEN <= Body
    PROVE  Hash(Window(p)) \in Slots
<1>1. \A m \in 1..MATCH_LEN : Byte(p + m - 1) \in Bytes
  <2>1. size \in Nat /\ Body < size /\ Body \in Int /\ MATCH_LEN \in Nat
    BY InputFacts
  <2>2. \A m \in 1..MATCH_LEN : p + m - 1 \in 0..size - 1
    BY <2>1
  <2> QED BY <2>2, InputFacts
<1>2. Window(p) \in [1..MATCH_LEN -> Bytes]
  BY <1>1, WindowBytes
<1> QED BY <1>2, SearchAssumption

-----------------------------------------------------------------------------
(* The search *)

\* The bytes of a match repeat those its offset points back to.
Repeats(off, p, n) == \A k \in p..p + n - 1 : Byte(k) = Byte(k - off - 1)
Match(len, off, p) ==
    /\ len >= MIN_MATCH /\ off >= MIN_OFFSET /\ off < p
    /\ p + len <= Body
    /\ Repeats(off, p, len)

\* What an item at position p says is true.
Says(item, p) ==
    /\ item \in Items
    /\ item.len = 0 => item.ch = Byte(p)
    /\ item.len > 0 => Match(item.len, item.off, p)

\* An item of the search: one for each byte, with a match of a window at most.
Found(item, p) ==
    /\ Says(item, p)
    /\ item.ch = Byte(p) /\ item.len <= MATCH_LEN
    /\ item.len = 0 => item.off = 0
FoundFrom(its, p) == \A k \in 1..Len(its) : Found(its[k], p + k - 1)

\* What the dictionary holds: windows of earlier positions, or nothing.
ResetEntry == [bytes |-> [m \in 1..MATCH_LEN |-> 0], idx |-> ResetIndex]
Earlier(n) == {q \in 0..n - 1 : q + MATCH_LEN <= Body}
Entries(n) == {ResetEntry} \cup {Entry(q) : q \in Earlier(n)}
Filled(n) == {slot \in Seq(Entries(n)) : Len(slot) = MATCH_LEVEL}

SearchInv ==
    /\ dict \in [Slots -> Filled(searched)]
    /\ landing \in Seq(Slots \X Filled(searched))

LEMMA CommonBytes ==
    ASSUME NEW a, NEW b
    PROVE  Common(a, b) \in 0..MATCH_LEN /\ \A m \in 1..Common(a, b) : a[m] = b[m]
<1> DEFINE T == {n \in Nat : n >= MATCH_LEN \/ a[n + 1] # b[n + 1]}
<1>1. MATCH_LEN \in Nat
  BY SearchAssumption
<1>2. PICK x \in T : \A y \in T : x <= y
  <2>1. MATCH_LEN \in T /\ T \subseteq Nat
    BY <1>1
  <2> HIDE DEF T
  <2> QED BY <2>1, LeastElement
<1>3. x \in 0..MATCH_LEN
  <2>1. MATCH_LEN \in T
    BY <1>1
  <2> QED BY <1>1, <1>2, <2>1
<1>4. \A m \in 1..x : a[m] = b[m]
  <2>1. ASSUME NEW m \in 1..x, a[m] # b[m] PROVE FALSE
    <3>1. m - 1 \in Nat /\ (m - 1) + 1 = m /\ ~(x <= m - 1)
      BY <1>3
    <3>2. m - 1 \in T
      BY <2>1, <3>1
    <3> QED BY <1>2, <3>1, <3>2
  <2> QED BY <2>1
<1>5. x < MATCH_LEN => a[x + 1] # b[x + 1]
  BY <1>1, <1>2
<1> DEFINE P(n) == (\A m \in 1..n : a[m] = b[m]) /\ (n < MATCH_LEN => a[n + 1] # b[n + 1])
<1>6. Common(a, b) = CHOOSE n \in 0..MATCH_LEN : P(n)
  BY DEF Common
<1>7. P(x)
  BY <1>4, <1>5
<1> HIDE DEF P
<1>8. Common(a, b) \in 0..MATCH_LEN /\ P(Common(a, b))
  BY <1>3, <1>6, <1>7, Zenon
<1> QED BY <1>8 DEF P

\* One of some numbers is the largest, and one of these the first.
LEMMA FirstLargest ==
    ASSUME NEW n \in Nat \ {0}, NEW f \in [1..n -> Nat]
    PROVE  \E l \in 1..n : (\A k \in 1..n : f[k] <= f[l]) /\ (\A k \in 1..l - 1 : f[k] < f[l])
<1> DEFINE IsFirst(m, l) == (\A k \in 1..m : f[k] <= f[l]) /\ (\A k \in 1..l - 1 : f[k] < f[l])
           S == {m \in Nat : m \in 1..n => \E l \in 1..m : IsFirst(m, l)}
<1>1. 0 \in S
  OBVIOUS
<1>2. ASSUME NEW m \in Nat, m \in S PROVE m + 1 \in S
  <2> SUFFICES ASSUME m + 1 \in 1..n PROVE \E l \in 1..m + 1 : IsFirst(m + 1, l)
    OBVIOUS
  <2>1. CASE m = 0
    <3>1. IsFirst(1, 1)
      BY <2>1
    <3> HIDE DEF IsFirst
    <3> QED BY <2>1, <3>1
  <2>2. CASE m # 0
    <3>1. m \in 1..n
      BY <2>2
    <3>2. PICK l \in 1..m : IsFirst(m, l)
      BY <1>2, <3>1
    <3>3. \A k \in 1..m + 1 : f[k] \in Nat
      BY <3>1
    <3>4. CASE f[m + 1] <= f[l]
      <4>1. IsFirst(m + 1, l)
        BY <3>2, <3>4
      <4> HIDE DEF IsFirst
      <4> QED BY <3>2, <4>1
    <3>5. CASE f[l] < f[m + 1]
      <4>1. IsFirst(m + 1, m + 1)
        BY <3>2, <3>3, <3>5
      <4> HIDE DEF IsFirst
      <4> QED BY <4>1
    <3> QED BY <3>2, <3>3, <3>4, <3>5
  <2> QED BY <2>1, <2>2
<1> HIDE DEF S
<1>3. Nat \subseteq S
  BY <1>1, <1>2, SetInduction
<1>4. n \in S /\ n \in 1..n
  BY <1>3
<1>5. \E l \in 1..n : IsFirst(n, l)
  BY <1>4 DEF S
<1> QED BY <1>5

\* A byte without a match.
LEMMA PlainFound ==
    ASSUME InputInv, NEW p \in 0..size - 1 PROVE Found(Plain(p), p)
<1>1. Byte(p) \in Bytes /\ 0 \in 0..MAX_MATCH_LEN /\ 0 \in 0..LZ_MAX_OFFSET_LIMIT - 1 /\ 0 <= MATCH_LEN
  BY InputFacts, SearchAssumption
<1> QED BY <1>1 DEF Found, Says, Plain, Item, Items

\* An acceptable window that was seen before begins a match.
LEMMA EntryMatches ==
    ASSUME InputInv, NEW p \in Nat, p + MATCH_LEN <= Body, NEW entry \in Entries(p),
           NEW n, n = Common(Window(p), entry.bytes), Acceptable(n, p, entry.idx)
    PROVE  Found(Item(Byte(p), n, p - entry.idx - 1), p) /\ n > 0
<1>1. /\ n \in 0..MATCH_LEN /\ \A m \in 1..n : Window(p)[m] = entry.bytes[m]
      /\ n >= MIN_MATCH /\ p > entry.idx /\ p - entry.idx < LZ_MAX_OFFSET_LIMIT
      /\ p - entry.idx - 1 >= MIN_OFFSET
  BY CommonBytes DEF Acceptable
<1>2. /\ MATCH_LEN \in Nat /\ MIN_MATCH \in Nat \ {0} /\ MIN_OFFSET \in Nat \ {0} /\ MATCH_LEN <= MAX_MATCH_LEN
      /\ MAX_MATCH_LEN \in Nat /\ LZ_MAX_OFFSET_LIMIT \in Nat
      /\ size \in 0..ResetIndex /\ size \in Nat /\ Body \in Int /\ Body < size
  BY InputFacts, SearchAssumption, ResetIndexIsNat
<1>3. entry # ResetEntry
  <2>1. ASSUME entry = ResetEntry PROVE FALSE
    <3>1. entry.idx = ResetIndex
      BY <2>1 DEF ResetEntry
    <3>2. p > ResetIndex /\ p <= size /\ size <= ResetIndex /\ ResetIndex \in Nat /\ size \in Nat
      BY <1>1, <1>2, <3>1, ResetIndexIsNat
    <3> QED BY <3>2
  <2> QED BY <2>1
<1>4. PICK q \in Earlier(p) : entry = Entry(q)
  BY <1>3 DEF Entries
<1>5. q \in Nat /\ entry.idx = q /\ entry.bytes = Window(q)
  BY <1>4 DEF Entry, Earlier
<1> DEFINE off == p - q - 1
<1>6. off \in 0..LZ_MAX_OFFSET_LIMIT - 1 /\ off >= MIN_OFFSET /\ off < p /\ q < p
  BY <1>1, <1>2, <1>5
<1>7. Repeats(off, p, n)
  <2>1. ASSUME NEW k \in p..p + n - 1 PROVE Byte(k) = Byte(k - off - 1)
    <3>1. PICK m \in 1..n : m = k - p + 1
      BY <1>1
    <3>2. Window(p)[m] = Window(q)[m] /\ m \in 1..MATCH_LEN
      BY <1>1, <1>2, <1>5, <3>1
    <3>3. Byte(p + m - 1) = Byte(q + m - 1)
      <4>1. Window(p)[m] = Byte(p + m - 1)
        BY <3>2, WindowBytes
      <4>2. Window(q)[m] = Byte(q + m - 1)
        BY <1>5, <3>2, WindowBytes
      <4> QED BY <3>2, <4>1, <4>2
    <3>4. p + m - 1 = k /\ q + m - 1 = k - off - 1
      BY <1>5, <3>1
    <3> QED BY <3>3, <3>4
  <2> QED BY <2>1 DEF Repeats
<1>8. Match(n, off, p) /\ n > 0 /\ n <= MATCH_LEN /\ n \in 0..MAX_MATCH_LEN
  BY <1>1, <1>2, <1>6, <1>7 DEF Match
<1>9. Byte(p) \in Bytes
  <2>1. p \in 0..size - 1
    BY <1>2
  <2> QED BY <2>1, InputFacts
<1> HIDE DEF off
<1>10. Item(Byte(p), n, off) \in Items
  BY <1>6, <1>8, <1>9 DEF Items, Item
<1>11. Found(Item(Byte(p), n, off), p)
  <2> DEFINE it == Item(Byte(p), n, off)
  <2>1. it.ch = Byte(p) /\ it.len = n /\ it.off = off
    BY DEF Item
  <2> HIDE DEF it
  <2> QED BY <1>8, <1>10, <2>1 DEF it, Found, Says
<1> QED BY <1>5, <1>8, <1>11 DEF off

\* What the search attaches to a byte is a match, or nothing.
LEMMA BestFound ==
    ASSUME InputInv, NEW p \in Nat, p + MATCH_LEN <= Body, NEW slot \in Filled(p)
    PROVE  Found(BestOf(slot, p), p)
<1> DEFINE n(l) == Common(Window(p), slot[l].bytes)
           length == [l \in 1..MATCH_LEVEL |-> IF Acceptable(n(l), p, slot[l].idx) THEN n(l) ELSE 0]
           IsBest(l) == /\ \A k \in 1..MATCH_LEVEL : length[k] <= length[l]
                        /\ \A k \in 1..l - 1 : length[k] < length[l]
           best == CHOOSE l \in 1..MATCH_LEVEL : IsBest(l)
<1>1. BestOf(slot, p) = IF length[best] = 0 THEN Plain(p)
                        ELSE Item(Byte(p), length[best], p - slot[best].idx - 1)
  BY DEF BestOf
<1>2. MATCH_LEVEL \in Nat \ {0} /\ MATCH_LEN \in Nat \ {0} /\ size \in Nat /\ Body \in Int /\ Body < size
  BY SearchAssumption, InputFacts, ResetIndexIsNat
<1>3. \A l \in 1..MATCH_LEVEL : n(l) \in Nat
  BY CommonBytes, <1>2
<1>4. length \in [1..MATCH_LEVEL -> Nat]
  <2> HIDE DEF n
  <2> QED BY <1>3
<1>5. best \in 1..MATCH_LEVEL
  <2> HIDE DEF length
  <2>1. \E l \in 1..MATCH_LEVEL : IsBest(l)
    BY <1>2, <1>4, FirstLargest
  <2> HIDE DEF IsBest
  <2> QED BY <2>1, Zenon
<1>6. slot[best] \in Entries(p)
  BY <1>5 DEF Filled
<1>7. length[best] = IF Acceptable(n(best), p, slot[best].idx) THEN n(best) ELSE 0
  <2> HIDE DEF best, n
  <2> QED BY <1>5
<1>8. CASE length[best] = 0
  <2>1. p \in 0..size - 1
    BY <1>2
  <2> QED BY <1>1, <1>8, <2>1, PlainFound
<1>9. CASE length[best] # 0
  <2>1. length[best] = n(best) /\ Acceptable(n(best), p, slot[best].idx)
    <3> HIDE DEF length, best, n
    <3> QED BY <1>7, <1>9
  <2>2. n(best) = Common(Window(p), slot[best].bytes)
    OBVIOUS
  <2> HIDE DEF length, best, n
  <2>3. Found(Item(Byte(p), n(best), p - slot[best].idx - 1), p)
    BY <1>6, <2>1, <2>2, EntryMatches
  <2> QED BY <1>1, <1>9, <2>1, <2>3
<1> QED BY <1>8, <1>9

LEMMA FilledGrows ==
    ASSUME NEW n \in Nat PROVE Filled(n) \subseteq Filled(n + 1)
<1>1. Entries(n) \subseteq Entries(n + 1)
  BY DEF Entries, Earlier
<1>2. Seq(Entries(n)) \subseteq Seq(Entries(n + 1))
  BY <1>1
<1> QED BY <1>2 DEF Filled

LEMMA FilledNext ==
    ASSUME input' = input, NEW n, searched' = n PROVE Filled(searched)' = Filled(n)
<1>1. Earlier(searched)' = Earlier(n)
  BY DEF Earlier, Body, size
<1>2. \A q : Entry(q)' = Entry(q)
  BY DEF Entry, Window
<1>3. Entries(searched)' = Entries(n)
  BY <1>1, <1>2 DEF Entries, ResetEntry
<1> QED BY <1>3 DEF Filled

\* A slot with another entry in front of its most recent ones.
LEMMA PushFilled ==
    ASSUME NEW n \in Nat, NEW slot \in Filled(n), NEW q \in Earlier(n + 1)
    PROVE  Push(slot, Entry(q)) \in Filled(n + 1)
<1> DEFINE S == Entries(n + 1)  rest == SubSeq(slot, 1, MATCH_LEVEL - 1)  first == <<Entry(q)>>
<1>1. MATCH_LEVEL \in Nat \ {0}
  BY SearchAssumption
<1>2. slot \in Seq(S) /\ Len(slot) = MATCH_LEVEL
  BY FilledGrows DEF Filled
<1>3. rest \in Seq(S) /\ Len(rest) = MATCH_LEVEL - 1
  <2>1. \A k \in 1..MATCH_LEVEL - 1 : slot[k] \in S
    <3> HIDE DEF S
    <3>1. \A k \in 1..MATCH_LEVEL - 1 : k \in 1..Len(slot)
      BY <1>1, <1>2
    <3> QED BY <1>2, <3>1, ElementOfSeq
  <2>2. 1 \in Int /\ MATCH_LEVEL - 1 \in Int /\ (1 <= MATCH_LEVEL - 1 \/ MATCH_LEVEL - 1 = 0)
    BY <1>1
  <2> HIDE DEF S
  <2>3. rest \in Seq(S) /\ Len(rest) = IF 1 <= MATCH_LEVEL - 1 THEN (MATCH_LEVEL - 1) - 1 + 1 ELSE 0
    BY <2>1, <2>2, SubSeqProperties
  <2> QED BY <1>1, <2>2, <2>3
<1>4. first \in Seq(S) /\ Len(first) = 1
  <2>1. Entry(q) \in S
    BY DEF Entries
  <2> HIDE DEF S
  <2> QED BY <2>1
<1> HIDE DEF S, rest, first
<1>5. first \o rest \in Seq(S) /\ Len(first \o rest) = MATCH_LEVEL
  <2>1. first \o rest \in Seq(S) /\ Len(first \o rest) = Len(first) + Len(rest)
    BY <1>3, <1>4, ConcatProperties
  <2> QED BY <1>1, <1>3, <1>4, <2>1
<1> QED BY <1>5 DEF Filled, Push, S, rest, first

LEMMA ResetFilled == ResetSlot \in Filled(0)
<1>1. ResetSlot = [l \in 1..MATCH_LEVEL |-> ResetEntry] /\ ResetEntry \in Entries(0)
  BY DEF ResetSlot, ResetEntry, Entries
<1>2. MATCH_LEVEL \in Nat
  BY SearchAssumption
<1>3. ResetSlot \in [1..MATCH_LEVEL -> Entries(0)]
  BY <1>1
<1>4. ResetSlot \in Seq(Entries(0)) /\ DOMAIN ResetSlot = 1..MATCH_LEVEL
  BY <1>2, <1>3, SeqDef
<1>5. Len(ResetSlot) = MATCH_LEVEL
  BY <1>2, <1>4, LenProperties
<1> QED BY <1>4, <1>5 DEF Filled

\* An item is looked up: the slot is written now or when its turn comes.
LEMMA SearchFind ==
    ASSUME InputInv, SearchInv, FindMatch
    PROVE  SearchInv'
<1> DEFINE n == searched  h == Hash(Window(n))  write == <<h, Push(dict[h], Entry(n))>>
           all == Append(landing, write)
           F == Filled(n + 1)
<1>1. /\ n \in Nat /\ n + MATCH_LEN <= Body /\ searched' = n + 1 /\ input' = input
      /\ IF Len(all) > lag
         THEN dict' = [dict EXCEPT ![all[1][1]] = all[1][2]] /\ landing' = Tail(all)
         ELSE landing' = all /\ dict' = dict
  BY DEF InputInv, FindMatch
<1>2. h \in Slots
  BY <1>1, WindowSlot
<1>3. Push(dict[h], Entry(n)) \in F
  <2>1. n \in Earlier(n + 1) /\ dict[h] \in Filled(n)
    BY <1>1, <1>2 DEF Earlier, SearchInv
  <2> QED BY <1>1, <2>1, PushFilled
<1>4. Filled(n) \subseteq F
  BY <1>1, FilledGrows
<1>5. F = Filled(searched)'
  BY <1>1, FilledNext
<1> HIDE DEF h, F, n
<1>6. dict \in [Slots -> F] /\ landing \in Seq(Slots \X F) /\ write \in Slots \X F
  <2>1. dict \in [Slots -> Filled(n)] /\ landing \in Seq(Slots \X Filled(n))
    BY DEF SearchInv, n
  <2>2. Slots \X Filled(n) \subseteq Slots \X F
    BY <1>4
  <2>3. Seq(Slots \X Filled(n)) \subseteq Seq(Slots \X F)
    BY <2>2
  <2> QED BY <1>2, <1>3, <1>4, <2>1, <2>3
<1> HIDE DEF write
<1> DEFINE P == Slots \X F
<1> HIDE DEF P
<1>7. all \in Seq(P) /\ all # <<>> /\ all[1] \in P /\ Tail(all) \in Seq(P)
  <2>1. all \in Seq(P) /\ Len(all) = Len(landing) + 1 /\ Len(landing) \in Nat
    BY <1>6, AppendProperties DEF P
  <2> HIDE DEF all
  <2>2. all # <<>> /\ 1 \in 1..Len(all)
    BY <2>1
  <2> QED BY <2>1, <2>2, ElementOfSeq, HeadTailProperties
<1> HIDE DEF all
<1>8. all[1][1] \in Slots /\ all[1][2] \in F
  BY <1>7 DEF P
<1>9. dict' \in [Slots -> F] /\ landing' \in Seq(Slots \X F)
  <2>1. CASE Len(all) > lag
    BY <1>1, <1>6, <1>7, <1>8, <2>1 DEF P, all, write, h, n
  <2>2. CASE ~(Len(all) > lag)
    BY <1>1, <1>6, <1>7, <2>2 DEF P, all, write, h, n
  <2> QED BY <2>1, <2>2
<1> QED BY <1>5, <1>9 DEF SearchInv

\* The dictionary is only written by the search.
LEMMA SearchUntouched ==
    ASSUME InputInv, SearchInv, UNCHANGED <<input, dict, landing>>, searched' \in {searched, searched + 1}
    PROVE  SearchInv'
<1> DEFINE n == searched'  F == Filled(n)
<1>1. Filled(searched) \subseteq F
  <2>1. searched \in Nat
    BY DEF InputInv
  <2> QED BY <2>1, FilledGrows
<1>2. Filled(searched)' = F
  BY FilledNext
<1> HIDE DEF F
<1>3. dict \in [Slots -> F] /\ landing \in Seq(Slots \X F)
  <2>1. Slots \X Filled(searched) \subseteq Slots \X F
    BY <1>1
  <2>2. Seq(Slots \X Filled(searched)) \subseteq Seq(Slots \X F)
    BY <2>1
  <2> QED BY <1>1, <2>2 DEF SearchInv
<1> QED BY <1>2, <1>3 DEF SearchInv

LEMMA InputNext ==
    ASSUME InputInv, input' = input, searched' = searched \/ (searched' = searched + 1 /\ searched < size)
    PROVE  InputInv'
<1>1. size' = size /\ size \in Nat
  BY InputFacts, ResetIndexIsNat DEF size
<1> QED BY <1>1 DEF InputInv

LEMMA SearchNext == InputInv /\ SearchInv /\ [Next]_vars => InputInv' /\ SearchInv'
<1> SUFFICES ASSUME InputInv, SearchInv, [Next]_vars PROVE InputInv' /\ SearchInv'
  OBVIOUS
<1>1. CASE FindMatch
  <2>1. input' = input /\ searched' = searched + 1 /\ searched + MATCH_LEN <= Body
    BY <1>1 DEF FindMatch
  <2>2. searched < size
    BY <2>1, InputFacts
  <2> QED BY <1>1, <2>1, <2>2, InputNext, SearchFind
<1>2. CASE SearchRest
  BY <1>2, InputNext, SearchUntouched DEF SearchRest
<1>3. CASE Filter \/ Booster \/ UNCHANGED vars
  <2>1. UNCHANGED <<input, searched, dict, landing>>
    BY <1>3 DEF Filter, FilterFill, FilterStep, FilterDrain, ReadItem, Booster, Boost, BoostFlush,
                BoostRest, ReadBest, vars, searchVars
  <2> QED BY <2>1, InputNext, SearchUntouched
<1> QED BY <1>1, <1>2, <1>3 DEF Next, Search

LEMMA SearchInit == Init => InputInv /\ SearchInv
<1> SUFFICES ASSUME Init PROVE InputInv /\ SearchInv
  OBVIOUS
<1>1. PICK n \in InputSizes : input \in [1..n -> Bytes]
  BY DEF Init
<1>2. n \in Nat /\ 0 \in 0..n
  BY SearchAssumption, ResetIndexIsNat
<1>3. Len(input) = n
  <2>1. input \in Seq(Bytes) /\ DOMAIN input = 1..n
    BY <1>1, <1>2, SeqDef
  <2> QED BY <1>2, <2>1, LenProperties
<1>4. InputInv
  BY <1>1, <1>2, <1>3 DEF InputInv, size, Init
<1>5. SearchInv
  <2>1. searched = 0 /\ dict = [h \in Slots |-> ResetSlot] /\ landing = <<>>
    BY DEF Init
  <2> QED BY <2>1, ResetFilled DEF SearchInv
<1> QED BY <1>4, <1>5

-----------------------------------------------------------------------------
(* The items between the processes *)

CountsInv ==
    /\ filtered \in 0..size /\ boosted \in 0..size
    /\ compressdStream \in Seq(Items) /\ compare_window \in Seq(Items) /\ bestMatchStream \in Seq(Items)
    /\ Len(compressdStream) = searched - filtered /\ Len(compressdStream) <= Depth
    /\ Len(compare_window) = filtered - boosted - Len(bestMatchStream)
    /\ Len(bestMatchStream) <= Depth
    /\ filtered < MATCH_LEN => Len(compare_window) = filtered
    /\ filtered >= MATCH_LEN /\ filtered < size => Len(compare_window) = MATCH_LEN
    /\ Len(compare_window) <= MATCH_LEN

\* Each item in a FIFO or in the window is the one of its position.
ItemsInv ==
    /\ FoundFrom(compressdStream, filtered)
    /\ FoundFrom(compare_window, filtered - Len(compare_window))
    /\ FoundFrom(bestMatchStream, boosted)

FlowInv == InputInv /\ SearchInv /\ CountsInv /\ ItemsInv

LEMMA FoundAppend ==
    ASSUME NEW s \in Seq(Items), NEW p \in Int, FoundFrom(s, p), NEW x, Found(x, p + Len(s))
    PROVE  /\ FoundFrom(Append(s, x), p)
           /\ Append(s, x) \in Seq(Items) /\ Len(Append(s, x)) = Len(s) + 1
<1> DEFINE t == Append(s, x)
<1>1. x \in Items /\ Len(s) \in Nat
  BY LenProperties DEF Found, Says
<1>2. t \in Seq(Items) /\ Len(t) = Len(s) + 1 /\ t[Len(s) + 1] = x /\ \A k \in 1..Len(s) : t[k] = s[k]
  BY <1>1, AppendProperties
<1> HIDE DEF t
<1>3. ASSUME NEW k \in 1..Len(t) PROVE Found(t[k], p + k - 1)
  <2>1. CASE k \in 1..Len(s)
    BY <1>2, <2>1 DEF FoundFrom
  <2>2. CASE k = Len(s) + 1
    <3>1. p + k - 1 = p + Len(s)
      BY <1>1, <2>2
    <3> QED BY <1>2, <2>2, <3>1
  <2> QED BY <1>1, <1>2, <2>1, <2>2
<1> QED BY <1>2, <1>3 DEF FoundFrom, t

LEMMA FoundTail ==
    ASSUME NEW s \in Seq(Items), NEW p \in Int, FoundFrom(s, p), s # <<>>
    PROVE  /\ Found(Head(s), p) /\ FoundFrom(Tail(s), p + 1)
           /\ Tail(s) \in Seq(Items) /\ Len(Tail(s)) = Len(s) - 1 /\ Len(s) > 0
<1> DEFINE t == Tail(s)
<1>1. Len(s) \in Nat /\ Len(s) > 0
  BY LenProperties, EmptySeq
<1>2. /\ t \in Seq(Items) /\ Len(t) = Len(s) - 1 /\ \A k \in 1..Len(t) : t[k] = s[k + 1]
      /\ Head(s) = s[1]
  BY <1>1, HeadTailProperties
<1> HIDE DEF t
<1>3. Found(s[1], p)
  <2>1. 1 \in 1..Len(s) /\ p + 1 - 1 = p
    BY <1>1
  <2> QED BY <2>1 DEF FoundFrom
<1>4. ASSUME NEW k \in 1..Len(t) PROVE Found(t[k], (p + 1) + k - 1)
  <2>1. k + 1 \in 1..Len(s) /\ p + (k + 1) - 1 = (p + 1) + k - 1
    BY <1>1, <1>2
  <2>2. Found(s[k + 1], p + (k + 1) - 1)
    BY <2>1 DEF FoundFrom
  <2> QED BY <1>2, <2>1, <2>2
<1> QED BY <1>1, <1>2, <1>3, <1>4 DEF FoundFrom, t

LEMMA FoundNext ==
    ASSUME input' = input, NEW item, NEW p, Found(item, p) PROVE Found(item, p)'
BY DEF Found, Says, Match, Repeats, Items, Byte, Body, size

\* The items of the next state, told with those of this one.
LEMMA ItemsNext ==
    ASSUME input' = input,
           NEW s, compressdStream' = s, NEW w, compare_window' = w, NEW b, bestMatchStream' = b,
           NEW p, filtered' = p, NEW q, q = p - Len(w), NEW r, boosted' = r,
           FoundFrom(s, p), FoundFrom(w, q), FoundFrom(b, r)
    PROVE  ItemsInv'
<1>1. FoundFrom(s, p)' /\ FoundFrom(w, q)' /\ FoundFrom(b, r)'
  BY FoundNext DEF FoundFrom
<1> QED BY <1>1 DEF ItemsInv, FoundFrom

LEMMA FlowTypes ==
    ASSUME FlowInv
    PROVE  /\ size \in Nat /\ searched \in 0..size /\ filtered \in 0..size /\ boosted \in 0..size
           /\ Len(compressdStream) \in Nat /\ Len(compare_window) \in Nat /\ Len(bestMatchStream) \in Nat
           /\ MATCH_LEN \in Nat \ {0} /\ Depth \in Nat /\ (size > 0 => size >= MATCH_LEN)
<1>1. InputInv /\ CountsInv
  BY DEF FlowInv
<1>2. LEFT_BYTES \in Nat /\ MATCH_LEN \in Nat \ {0} /\ Depth \in Nat /\ ResetIndex \in Nat
  BY SearchAssumption, ResetIndexIsNat
<1>3. size \in 0..ResetIndex /\ (size > 0 => size >= LEFT_BYTES + MATCH_LEN) /\ searched \in 0..size
  BY <1>1, InputFacts
<1>4. size \in Nat /\ (size > 0 => size >= MATCH_LEN)
  BY <1>2, <1>3
<1>5. Len(compressdStream) \in Nat /\ Len(compare_window) \in Nat /\ Len(bestMatchStream) \in Nat
  BY <1>1, LenProperties DEF CountsInv
<1> QED BY <1>1, <1>2, <1>3, <1>4, <1>5 DEF CountsInv

\* An item is searched for and written.
LEMMA FlowSearch ==
    ASSUME FlowInv, Search PROVE CountsInv' /\ ItemsInv'
<1> DEFINE n == searched  s == compressdStream  w == compare_window  b == bestMatchStream
<1>1. /\ input' = input /\ compare_window' = w /\ bestMatchStream' = b /\ filtered' = filtered
      /\ boosted' = boosted /\ searched' = n + 1 /\ Len(s) < Depth
  BY DEF Search, FindMatch, SearchRest, filterVars, boostVars
<1>2. InputInv /\ SearchInv /\ CountsInv /\ ItemsInv /\ n \in Nat
  BY FlowTypes DEF FlowInv
<1>3. \E x : compressdStream' = Append(s, x) /\ Found(x, n) /\ n < size
  <2>1. CASE FindMatch
    <3>1. n + MATCH_LEN <= Body
      BY <2>1 DEF FindMatch
    <3>2. dict[Hash(Window(n))] \in Filled(n)
      BY <1>2, <3>1, WindowSlot DEF SearchInv
    <3>3. Found(BestOf(dict[Hash(Window(n))], n), n)
      BY <1>2, <3>1, <3>2, BestFound
    <3>4. compressdStream' = Append(s, BestOf(dict[Hash(Window(n))], n))
      BY <2>1 DEF FindMatch
    <3>5. n < size
      BY <1>2, <3>1, InputFacts
    <3> QED BY <3>3, <3>4, <3>5
  <2>2. CASE SearchRest
    <3>1. n < size /\ compressdStream' = Append(s, Plain(n))
      BY <2>2 DEF SearchRest
    <3>2. n \in 0..size - 1
      BY <1>2, <3>1, FlowTypes
    <3> QED BY <1>2, <3>1, <3>2, PlainFound
  <2> QED BY <2>1, <2>2 DEF Search
<1>4. PICK x : compressdStream' = Append(s, x) /\ Found(x, n) /\ n < size
  BY <1>3
<1>5. /\ s \in Seq(Items) /\ w \in Seq(Items) /\ b \in Seq(Items) /\ Len(s) = n - filtered
      /\ FoundFrom(s, filtered) /\ FoundFrom(w, filtered - Len(w)) /\ FoundFrom(b, boosted)
  BY <1>2 DEF CountsInv, ItemsInv
<1>6. filtered \in Int /\ boosted \in Int /\ Len(s) \in Nat /\ Len(w) \in Nat /\ Depth \in Nat /\ size \in Nat
  BY FlowTypes
<1> DEFINE t == Append(s, x)
<1>7. filtered + Len(s) = n
  BY <1>2, <1>5, <1>6
<1> HIDE DEF n, s, w, b
<1>8. FoundFrom(t, filtered) /\ t \in Seq(Items) /\ Len(t) = Len(s) + 1
  BY <1>4, <1>5, <1>6, <1>7, FoundAppend
<1> HIDE DEF t
<1>9. ItemsInv'
  BY <1>1, <1>4, <1>5, <1>8, ItemsNext DEF t
<1>10. CountsInv'
  <2>1. size' = size
    BY <1>1 DEF size
  <2>2. CountsInv
    BY DEF FlowInv
  <2> QED BY <1>1, <1>2, <1>4, <1>5, <1>6, <1>8, <2>1, <2>2 DEF CountsInv, t, n, s, w, b
<1> QED BY <1>9, <1>10

\* The facts about an item that a filter step reads.
LEMMA ReadItemFacts ==
    ASSUME FlowInv, ReadItem
    PROVE  /\ UNCHANGED <<input, searched, boosted>> /\ size' = size
           /\ compressdStream' = Tail(compressdStream) /\ filtered' = filtered + 1
           /\ Found(Head(compressdStream), filtered) /\ FoundFrom(Tail(compressdStream), filtered + 1)
           /\ Tail(compressdStream) \in Seq(Items) /\ Len(Tail(compressdStream)) = Len(compressdStream) - 1
           /\ Len(compressdStream) > 0 /\ filtered < searched
<1>1. /\ UNCHANGED <<input, searched, boosted>> /\ compressdStream' = Tail(compressdStream)
      /\ filtered' = filtered + 1 /\ compressdStream # <<>>
  BY DEF ReadItem, searchVars, boostVars
<1>2. compressdStream \in Seq(Items) /\ FoundFrom(compressdStream, filtered) /\ filtered \in Int
      /\ Len(compressdStream) = searched - filtered /\ searched \in Int
  BY FlowTypes DEF FlowInv, CountsInv, ItemsInv
<1>3. /\ Found(Head(compressdStream), filtered) /\ FoundFrom(Tail(compressdStream), filtered + 1)
      /\ Tail(compressdStream) \in Seq(Items) /\ Len(Tail(compressdStream)) = Len(compressdStream) - 1
      /\ Len(compressdStream) > 0
  BY <1>1, <1>2, FoundTail
<1>4. size' = size
  BY <1>1 DEF size
<1> QED BY <1>1, <1>2, <1>3, <1>4

LEMMA FlowFill ==
    ASSUME FlowInv, FilterFill PROVE CountsInv' /\ ItemsInv'
<1> DEFINE s == compressdStream  w == compare_window  b == bestMatchStream  x == Head(s)  t == Append(w, x)
<1>1. /\ ReadItem /\ filtered < MATCH_LEN /\ size > 0
      /\ compare_window' = t /\ bestMatchStream' = b
  BY DEF FilterFill
<1>2. CountsInv /\ ItemsInv
  BY DEF FlowInv
<1>3. /\ UNCHANGED <<input, searched, boosted>> /\ size' = size
      /\ compressdStream' = Tail(s) /\ filtered' = filtered + 1
      /\ Found(x, filtered) /\ FoundFrom(Tail(s), filtered + 1)
      /\ Tail(s) \in Seq(Items) /\ Len(Tail(s)) = Len(s) - 1 /\ Len(s) > 0 /\ filtered < searched
  BY <1>1, ReadItemFacts
<1>4. w \in Seq(Items) /\ Len(w) = filtered /\ FoundFrom(w, 0) /\ FoundFrom(b, boosted)
  <2>1. Len(w) = filtered /\ filtered - filtered = 0
    BY <1>1, <1>2, FlowTypes DEF CountsInv
  <2> QED BY <1>2, <2>1 DEF CountsInv, ItemsInv
<1>5. 0 + Len(w) = filtered
  BY <1>4, FlowTypes
<1> HIDE DEF x
<1>6. FoundFrom(t, 0) /\ t \in Seq(Items) /\ Len(t) = Len(w) + 1
  BY <1>3, <1>4, <1>5, FoundAppend
<1> HIDE DEF t
<1>7. 0 = (filtered + 1) - Len(t)
  BY <1>4, <1>6, FlowTypes
<1>8. ItemsInv'
  <2> DEFINE z == 0
  <2>1. FoundFrom(t, z) /\ z = (filtered + 1) - Len(t)
    BY <1>6, <1>7
  <2> HIDE DEF z
  <2> QED BY <1>1, <1>3, <1>4, <2>1, ItemsNext
<1>9. CountsInv'
  BY <1>1, <1>2, <1>3, <1>4, <1>6, FlowTypes DEF CountsInv
<1> QED BY <1>8, <1>9

LEMMA FlowStep ==
    ASSUME FlowInv, FilterStep PROVE CountsInv' /\ ItemsInv'
<1> DEFINE s == compressdStream  w == compare_window  b == bestMatchStream  x == Head(s)
           t == Append(Tail(w), x)
           y == IF Outreached(Head(w), compare_window') THEN Item(Head(w).ch, 0, 0) ELSE Head(w)
           c == Append(b, y)
           p == filtered - MATCH_LEN
<1>1. /\ ReadItem /\ filtered >= MATCH_LEN /\ filtered < size /\ Len(b) < Depth
      /\ compare_window' = t /\ bestMatchStream' = c
  BY DEF FilterStep
<1>2. CountsInv /\ ItemsInv
  BY DEF FlowInv
<1>3. /\ UNCHANGED <<input, searched, boosted>> /\ size' = size
      /\ compressdStream' = Tail(s) /\ filtered' = filtered + 1
      /\ Found(x, filtered) /\ FoundFrom(Tail(s), filtered + 1)
      /\ Tail(s) \in Seq(Items) /\ Len(Tail(s)) = Len(s) - 1 /\ Len(s) > 0 /\ filtered < searched
  BY <1>1, ReadItemFacts
<1>4. /\ w \in Seq(Items) /\ Len(w) = MATCH_LEN /\ FoundFrom(w, p) /\ p \in Int /\ w # <<>>
      /\ b \in Seq(Items) /\ FoundFrom(b, boosted) /\ p = boosted + Len(b) /\ boosted \in Int
  <2>1. Len(w) = MATCH_LEN /\ w \in Seq(Items) /\ b \in Seq(Items) /\ Len(w) = filtered - boosted - Len(b)
    BY <1>1, <1>2 DEF CountsInv
  <2>2. w # <<>> /\ p \in Int /\ p = boosted + Len(b) /\ boosted \in Int
    BY <2>1, FlowTypes
  <2> QED BY <1>2, <2>1, <2>2 DEF ItemsInv
<1>5. /\ Found(Head(w), p) /\ FoundFrom(Tail(w), p + 1) /\ Tail(w) \in Seq(Items)
      /\ Len(Tail(w)) = MATCH_LEN - 1
  <2> HIDE DEF p
  <2> QED BY <1>4, FoundTail
<1>6. Found(y, p)
  <2>1. Head(w).ch = Byte(p) /\ Head(w).ch \in Bytes
    BY <1>5 DEF Found, Says, Items
  <2>2. 0 \in 0..MAX_MATCH_LEN /\ 0 \in 0..LZ_MAX_OFFSET_LIMIT - 1 /\ 0 <= MATCH_LEN
    BY SearchAssumption
  <2>3. Found(Item(Head(w).ch, 0, 0), p)
    BY <2>1, <2>2 DEF Found, Says, Item, Items
  <2> QED BY <1>5, <2>3
<1> HIDE DEF y, x
<1>7. FoundFrom(t, p + 1) /\ t \in Seq(Items) /\ Len(t) = MATCH_LEN
  <2>1. (p + 1) + (MATCH_LEN - 1) = filtered /\ p + 1 \in Int /\ (MATCH_LEN - 1) + 1 = MATCH_LEN
    BY FlowTypes
  <2> HIDE DEF p
  <2> QED BY <1>3, <1>5, <2>1, FoundAppend
<1>8. FoundFrom(c, boosted) /\ c \in Seq(Items) /\ Len(c) = Len(b) + 1
  <2> HIDE DEF p
  <2> QED BY <1>4, <1>6, FoundAppend
<1> HIDE DEF t, c
<1>9. ItemsInv'
  <2> DEFINE z == p + 1
  <2>1. FoundFrom(t, z) /\ z = (filtered + 1) - Len(t)
    BY <1>7, FlowTypes
  <2> HIDE DEF z
  <2> QED BY <1>1, <1>3, <1>8, <2>1, ItemsNext
<1>10. CountsInv'
  <2> DEFINE u == Tail(s)
  <2>1. compressdStream' = u /\ u \in Seq(Items) /\ Len(u) = Len(s) - 1
    BY <1>3
  <2> HIDE DEF u
  <2>7. filtered' = filtered + 1 /\ searched' = searched /\ boosted' = boosted
    BY <1>3, Zenon
  <2>8. Len(s) = searched - filtered /\ Len(s) <= Depth
    BY <1>2 DEF CountsInv
  <2>9. /\ Len(b) < Depth /\ filtered >= MATCH_LEN /\ filtered < size
        /\ filtered - MATCH_LEN = boosted + Len(b) /\ Len(t) = MATCH_LEN /\ Len(c) = Len(b) + 1
    BY <1>1, <1>4, <1>7, <1>8, Zenon
  <2>2. Len(u) = searched' - filtered' /\ Len(u) <= Depth
    BY <2>1, <2>7, <2>8, FlowTypes
  <2>3. Len(t) = filtered' - boosted' - Len(c) /\ Len(c) <= Depth
    BY <2>7, <2>9, FlowTypes
  <2>4. filtered' \in 0..size /\ boosted' \in 0..size /\ filtered' >= MATCH_LEN
    BY <2>7, <2>9, FlowTypes
  <2>5. compressdStream' = u /\ compare_window' = t /\ bestMatchStream' = c /\ size' = size
    BY <1>1, <1>3, <2>1
  <2>6. Len(t) = MATCH_LEN /\ MATCH_LEN <= MATCH_LEN /\ ~(filtered' < MATCH_LEN)
    BY <1>7, <2>4, FlowTypes
  <2> QED BY <1>7, <1>8, <2>1, <2>2, <2>3, <2>4, <2>5, <2>6 DEF CountsInv
<1> QED BY <1>9, <1>10

LEMMA FlowDrain ==
    ASSUME FlowInv, FilterDrain PROVE CountsInv' /\ ItemsInv'
<1> DEFINE w == compare_window  b == bestMatchStream  c == Append(b, Head(w))  p == filtered - Len(w)
<1>1. /\ UNCHANGED <<input, searched, boosted, filtered, compressdStream>> /\ filtered = size
      /\ w # <<>> /\ Len(b) < Depth /\ compare_window' = Tail(w) /\ bestMatchStream' = c
  BY DEF FilterDrain, searchVars, boostVars
<1>2. CountsInv /\ ItemsInv /\ size' = size
  BY <1>1 DEF FlowInv, size
<1>3. /\ w \in Seq(Items) /\ FoundFrom(w, p) /\ p \in Int
      /\ b \in Seq(Items) /\ FoundFrom(b, boosted) /\ p = boosted + Len(b) /\ boosted \in Int
  BY <1>2, FlowTypes DEF CountsInv, ItemsInv
<1>4. /\ Found(Head(w), p) /\ FoundFrom(Tail(w), p + 1) /\ Tail(w) \in Seq(Items)
      /\ Len(Tail(w)) = Len(w) - 1 /\ Len(w) > 0
  <2> HIDE DEF p
  <2> QED BY <1>1, <1>3, FoundTail
<1>5. FoundFrom(c, boosted) /\ c \in Seq(Items) /\ Len(c) = Len(b) + 1
  <2> HIDE DEF p
  <2> QED BY <1>3, <1>4, FoundAppend
<1> HIDE DEF c
<1>6. ItemsInv'
  <2> DEFINE z == p + 1  t == Tail(w)
  <2>1. FoundFrom(t, z) /\ z = filtered - Len(t)
    BY <1>4, FlowTypes
  <2>2. FoundFrom(compressdStream, filtered) /\ compare_window' = t
    BY <1>1, <1>2 DEF ItemsInv
  <2> HIDE DEF z, t
  <2> QED BY <1>1, <1>5, <2>1, <2>2, ItemsNext
<1>7. CountsInv'
  BY <1>1, <1>2, <1>3, <1>4, <1>5, FlowTypes DEF CountsInv
<1> QED BY <1>6, <1>7

\* The facts about an item that the booster reads.
LEMMA ReadBestFacts ==
    ASSUME FlowInv, ReadBest
    PROVE  /\ UNCHANGED <<input, searched, filtered, compressdStream, compare_window>> /\ size' = size
           /\ bestMatchStream' = Tail(bestMatchStream) /\ boosted' = boosted + 1
           /\ Found(Head(bestMatchStream), boosted) /\ FoundFrom(Tail(bestMatchStream), boosted + 1)
           /\ Tail(bestMatchStream) \in Seq(Items)
           /\ Len(Tail(bestMatchStream)) = Len(bestMatchStream) - 1 /\ Len(bestMatchStream) > 0
           /\ boosted < filtered
<1>1. /\ UNCHANGED <<input, searched, filtered, compressdStream, compare_window>>
      /\ bestMatchStream' = Tail(bestMatchStream) /\ boosted' = boosted + 1 /\ bestMatchStream # <<>>
  BY DEF ReadBest, searchVars, filterVars
<1>2. /\ bestMatchStream \in Seq(Items) /\ FoundFrom(bestMatchStream, boosted) /\ boosted \in Int
      /\ Len(compare_window) = filtered - boosted - Len(bestMatchStream)
      /\ Len(compare_window) \in Nat /\ filtered \in Int
  BY FlowTypes DEF FlowInv, CountsInv, ItemsInv
<1>3. /\ Found(Head(bestMatchStream), boosted) /\ FoundFrom(Tail(bestMatchStream), boosted + 1)
      /\ Tail(bestMatchStream) \in Seq(Items)
      /\ Len(Tail(bestMatchStream)) = Len(bestMatchStream) - 1 /\ Len(bestMatchStream) > 0
  BY <1>1, <1>2, FoundTail
<1>4. size' = size
  BY <1>1 DEF size
<1>5. boosted < filtered
  BY <1>2, <1>3, FlowTypes
<1> QED BY <1>1, <1>3, <1>4, <1>5

LEMMA FlowBoost ==
    ASSUME FlowInv, ReadBest PROVE CountsInv' /\ ItemsInv'
<1> DEFINE b == bestMatchStream  t == Tail(b)
<1>1. /\ UNCHANGED <<input, searched, filtered, compressdStream, compare_window>> /\ size' = size
      /\ bestMatchStream' = t /\ boosted' = boosted + 1 /\ FoundFrom(t, boosted + 1)
      /\ t \in Seq(Items) /\ Len(t) = Len(b) - 1 /\ Len(b) > 0 /\ boosted < filtered
  BY ReadBestFacts
<1>2. CountsInv /\ ItemsInv
  BY DEF FlowInv
<1> HIDE DEF t
<1>3. ItemsInv'
  <2> DEFINE z == boosted + 1
  <2>1. FoundFrom(compressdStream, filtered) /\ FoundFrom(compare_window, filtered - Len(compare_window))
        /\ FoundFrom(t, z) /\ boosted' = z
    BY <1>1, <1>2 DEF ItemsInv
  <2> HIDE DEF z
  <2> QED BY <1>1, <2>1, ItemsNext
<1>4. CountsInv'
  BY <1>1, <1>2, FlowTypes DEF CountsInv
<1> QED BY <1>3, <1>4

LEMMA FlowNext == FlowInv /\ [Next]_vars => FlowInv'
<1> SUFFICES ASSUME FlowInv, [Next]_vars PROVE FlowInv'
  OBVIOUS
<1>1. InputInv' /\ SearchInv'
  BY SearchNext DEF FlowInv
<1>2. CASE BoostFlush \/ UNCHANGED vars
  <2>1. UNCHANGED <<input, searched, filtered, boosted, compressdStream, compare_window, bestMatchStream>>
    BY <1>2 DEF BoostFlush, vars, searchVars, filterVars, boostVars
  <2>2. CountsInv /\ ItemsInv /\ size' = size
    BY <2>1 DEF FlowInv, size
  <2>3. ItemsInv'
    BY <2>1, <2>2, ItemsNext DEF ItemsInv
  <2> QED BY <1>1, <2>1, <2>2, <2>3 DEF FlowInv, CountsInv
<1>3. ASSUME CountsInv', ItemsInv' PROVE FlowInv'
  BY <1>1, <1>3 DEF FlowInv
<1> QED BY <1>2, <1>3, FlowSearch, FlowFill, FlowStep, FlowDrain, FlowBoost
        DEF Next, Filter, Booster, Boost, BoostRest

LEMMA FlowInit == Init => FlowInv
<1> SUFFICES ASSUME Init PROVE FlowInv
  OBVIOUS
<1>1. InputInv /\ SearchInv
  BY SearchInit
<1>2. filtered = 0 /\ boosted = 0 /\ searched = 0
  BY DEF Init
<1>3. size \in Nat /\ Depth \in Nat /\ MATCH_LEN \in Nat \ {0}
  BY <1>1, InputFacts, SearchAssumption, ResetIndexIsNat
<1>4. CountsInv
  <2>1. /\ Len(compressdStream) = 0 /\ Len(compare_window) = 0 /\ Len(bestMatchStream) = 0
        /\ compressdStream \in Seq(Items) /\ compare_window \in Seq(Items) /\ bestMatchStream \in Seq(Items)
    BY EmptySeq DEF Init
  <2> QED BY <1>2, <1>3, <2>1 DEF CountsInv
<1>5. ItemsInv
  BY EmptySeq DEF Init, ItemsInv, FoundFrom
<1> QED BY <1>1, <1>4, <1>5 DEF FlowInv

\* Each item on its way to the booster is true of its position.
THEOREM FlowInvariance == Spec => []FlowInv
BY FlowInit, FlowNext, PTL DEF Spec

-----------------------------------------------------------------------------
(* The booster *)

\* The circular memory holds the last bytes the booster has read.
MemInv ==
    /\ local_mem \in [0..BOOSTER_OFFSET_WINDOW - 1 -> Bytes]
    /\ ~flushed => \A q \in 0..boosted - 1 :
                      boosted - q <= BOOSTER_OFFSET_WINDOW => local_mem[Cell(q)] = Byte(q)

NextPlace == Place(boosterStream, Len(boosterStream) + 1)

\* What has been written is true of the places it goes to.
StreamInv ==
    /\ boosterStream \in Seq(Items) /\ NextPlace \in Nat
    /\ \A n \in 1..Len(boosterStream) : Says(boosterStream[n], Place(boosterStream, n))

\* The item in hand, at position p: a literal, a match being extended, or a
\* match out of the window's reach whose other positions are skipped.  A match
\* was found with some length, which it reaches again before it ends.
Literal(p) ==
    /\ ~matchFlag /\ skip_len = 0 /\ outValue.len = 0 /\ outValue.ch = Byte(p)
    /\ boosted = p + 1
Near(p) ==
    /\ matchFlag /\ skip_len = 0
    /\ match_len \in 1..MAX_MATCH_LEN /\ boosted = p + match_len
    /\ outValue.off >= MIN_OFFSET /\ outValue.off < p /\ outValue.off < BOOSTER_OFFSET_WINDOW
    /\ match_loc = boosted - 1 - outValue.off /\ nextMatchCh = Byte(match_loc)
    /\ Repeats(outValue.off, p, match_len)
    /\ \E len \in MIN_MATCH..MATCH_LEN :
           /\ Match(len, outValue.off, p)
           /\ outValue.len = IF match_len = 1 THEN len ELSE match_len
Far(p) ==
    /\ ~matchFlag /\ outValue.len > 0 /\ Found(outValue, p)
    /\ skip_len \in 0..outValue.len - 1
    /\ boosted + skip_len = p + outValue.len
InHand(p) == Literal(p) \/ Near(p) \/ Far(p)

HandInv ==
    /\ outValue \in Items /\ matchFlag \in BOOLEAN /\ flushed \in BOOLEAN
    /\ match_loc \in Nat /\ match_len \in 0..MAX_MATCH_LEN
    /\ flushed => size > 0 /\ boosted >= Body /\ NextPlace = boosted /\ skip_len = 0
    /\ ~flushed /\ boosted > 0 => boosted <= Body /\ InHand(NextPlace)
    /\ ~flushed /\ boosted = 0 => boosterStream = <<>> /\ ~matchFlag /\ skip_len = 0

BoostInv == MemInv /\ StreamInv /\ HandInv
IInv == FlowInv /\ BoostInv

LEMMA BoosterTypes ==
    ASSUME FlowInv
    PROVE  /\ size \in Nat /\ boosted \in 0..size /\ boosted \in Nat /\ Body \in Int /\ Body < size
           /\ (size > 0 => Body >= MATCH_LEN)
           /\ MATCH_LEN \in Nat \ {0} /\ MIN_MATCH \in Nat \ {0} /\ MIN_MATCH <= MATCH_LEN
           /\ MATCH_LEN <= MAX_MATCH_LEN /\ MAX_MATCH_LEN \in Nat /\ MIN_OFFSET \in Nat \ {0}
           /\ LZ_MAX_OFFSET_LIMIT \in Nat \ {0} /\ BOOSTER_OFFSET_WINDOW \in Nat \ {0}
BY FlowTypes, InputFacts, SearchAssumption DEF FlowInv

\* The fields of an item.
LEMMA ItemFields ==
    ASSUME NEW item \in Items
    PROVE  /\ item.ch \in Bytes /\ item.len \in 0..MAX_MATCH_LEN /\ item.len \in Nat
           /\ item.off \in 0..LZ_MAX_OFFSET_LIMIT - 1 /\ item.off \in Nat
           /\ \A n \in 0..MAX_MATCH_LEN :
                  /\ [item EXCEPT !.len = n] \in Items /\ [item EXCEPT !.len = n].len = n
                  /\ [item EXCEPT !.len = n].off = item.off
BY SearchAssumption DEF Items

LEMMA CellsApart ==
    ASSUME NEW x \in Nat, NEW y \in Nat
    PROVE  /\ Cell(x) \in 0..BOOSTER_OFFSET_WINDOW - 1
           /\ y < x /\ x - y < BOOSTER_OFFSET_WINDOW => Cell(x) # Cell(y)
<1> DEFINE W == BOOSTER_OFFSET_WINDOW
           a == x \div W  b == y \div W
<1>1. W \in Nat \ {0}
  BY SearchAssumption
<1>2. a \in Nat /\ b \in Nat /\ Cell(x) \in 0..W - 1 /\ Cell(y) \in 0..W - 1
      /\ x = W * a + Cell(x) /\ y = W * b + Cell(y)
  BY <1>1 DEF Cell
<1> HIDE DEF a, b
<1>3. ASSUME y < x, x - y < W, Cell(x) = Cell(y) PROVE FALSE
  <2>1. x - y = W * (a - b)
    <3>1. W * a \in Nat /\ W * b \in Nat /\ W * a - W * b = W * (a - b)
      BY <1>1, <1>2, SMT
    <3> QED BY <1>2, <1>3, <3>1
  <2>2. CASE a <= b
    <3>1. W * (a - b) <= 0
      BY <1>1, <1>2, <2>2, SMT
    <3> QED BY <1>3, <2>1, <3>1
  <2>3. CASE b < a
    <3>1. W * (a - b) >= W
      BY <1>1, <1>2, <2>3, SMT
    <3> QED BY <1>1, <1>3, <2>1, <3>1
  <2> QED BY <1>2, <2>2, <2>3
<1> QED BY <1>2, <1>3

\* An item is written behind the others.
LEMMA StreamGrows ==
    ASSUME StreamInv, NEW x, Says(x, NextPlace), NEW t, t = Append(boosterStream, x)
    PROVE  /\ t \in Seq(Items)
           /\ Place(t, Len(t) + 1) = NextPlace + Covered(x)
           /\ \A n \in 1..Len(t) : Says(t[n], Place(t, n))
<1> DEFINE n == Len(boosterStream)
<1>1. x \in Items /\ boosterStream \in Seq(Items) /\ n \in Nat
  BY LenProperties DEF StreamInv, Says
<1>2. t \in Seq(Items) /\ Len(t) = n + 1 /\ t[n + 1] = x /\ \A k \in 1..n : t[k] = boosterStream[k]
  BY <1>1, AppendProperties
<1>3. \A k \in 1..n + 1 : Place(t, k) = Place(boosterStream, k)
  <2>1. ASSUME NEW k \in 1..n + 1 PROVE Place(t, k) = Place(boosterStream, k)
    <3>1. k \in Nat \ {0} /\ \A m \in 1..k - 1 : m \in 1..n
      BY <1>1
    <3>2. \A m \in 1..k - 1 : t[m] = boosterStream[m]
      BY <1>2, <3>1
    <3> QED BY <3>1, <3>2, PlaceOfSame
  <2> QED BY <2>1
<1>4. Place(t, n + 1) = NextPlace
  BY <1>1, <1>3 DEF NextPlace
<1>5. Place(t, Len(t) + 1) = NextPlace + Covered(x)
  <2>1. n + 1 \in Nat \ {0}
    BY <1>1
  <2>2. Place(t, (n + 1) + 1) = Place(t, n + 1) + Covered(t[n + 1])
    BY <2>1, PlaceOfNext
  <2> QED BY <1>2, <1>4, <2>2
<1>6. ASSUME NEW k \in 1..n + 1 PROVE Says(t[k], Place(t, k))
  <2>1. CASE k \in 1..n
    BY <1>2, <1>3, <1>6, <2>1 DEF StreamInv
  <2>2. CASE k = n + 1
    BY <1>2, <1>4, <2>2
  <2> QED BY <1>1, <2>1, <2>2
<1> QED BY <1>2, <1>5, <1>6

LEMMA StreamNext ==
    ASSUME input' = input, NEW t \in Seq(Items), boosterStream' = t, Place(t, Len(t) + 1) \in Nat,
           \A n \in 1..Len(t) : Says(t[n], Place(t, n))
    PROVE  StreamInv' /\ NextPlace' = Place(t, Len(t) + 1)
<1>1. \A n \in 1..Len(t) : Says(t[n], Place(t, n))'
  BY DEF Says, Match, Repeats, Items, Byte, Body, size
<1>2. NextPlace' = Place(t, Len(t) + 1)
  BY DEF NextPlace
<1> QED BY <1>1, <1>2 DEF StreamInv, Says

\* An item in hand ends where it says it does: a match that stops being
\* extended, or is cut off at the end, has its length again.
LEMMA InHandEnds ==
    ASSUME FlowInv, BoostInv, ~flushed, boosted > 0, skip_len = 0,
           boosted < Body => ~Extends(Byte(boosted))
    PROVE  Says(outValue, NextPlace) /\ NextPlace + Covered(outValue) = boosted
<1>1. PICK p \in Nat : p = NextPlace
  BY DEF BoostInv, StreamInv
<1>2. boosted <= Body /\ InHand(p) /\ outValue \in Items
  BY <1>1 DEF BoostInv, HandInv
<1>3. /\ boosted \in Nat /\ Body \in Int /\ MIN_MATCH \in Nat \ {0} /\ MATCH_LEN \in Nat /\ MIN_OFFSET \in Nat \ {0}
      /\ MATCH_LEN <= MAX_MATCH_LEN /\ MAX_MATCH_LEN \in Nat
  BY BoosterTypes
<1>4. /\ outValue.len \in Nat /\ outValue.off \in Nat
  BY <1>2, ItemFields
<1>5. CASE Literal(p)
  <2>1. outValue.len = 0 /\ outValue.ch = Byte(p) /\ boosted = p + 1
    BY <1>5 DEF Literal
  <2> QED BY <1>1, <1>2, <2>1 DEF Says, Covered
<1>6. CASE Far(p)
  <2>1. outValue.len > 0 /\ Found(outValue, p) /\ boosted + skip_len = p + outValue.len
    BY <1>6 DEF Far
  <2> QED BY <1>1, <1>3, <1>4, <2>1 DEF Found, Covered
<1>7. CASE Near(p)
  <2>1. /\ matchFlag /\ match_len \in 1..MAX_MATCH_LEN /\ boosted = p + match_len
        /\ outValue.off >= MIN_OFFSET /\ outValue.off < p
        /\ nextMatchCh = Byte(boosted - 1 - outValue.off)
        /\ Repeats(outValue.off, p, match_len)
    BY <1>7 DEF Near
  <2>2. PICK len \in MIN_MATCH..MATCH_LEN :
             Match(len, outValue.off, p) /\ outValue.len = IF match_len = 1 THEN len ELSE match_len
    BY <1>7 DEF Near
  <2>3. len <= match_len
    <3> SUFFICES ASSUME match_len < len PROVE FALSE
      BY <1>3, <2>1
    <3>1. p + len <= Body /\ Repeats(outValue.off, p, len)
      BY <2>2 DEF Match
    <3>2. boosted < Body /\ boosted \in p..p + len - 1 /\ match_len < MAX_MATCH_LEN
      BY <1>3, <2>1, <3>1
    <3>3. Byte(boosted) = Byte(boosted - outValue.off - 1)
      BY <3>1, <3>2 DEF Repeats
    <3>4. boosted - outValue.off - 1 = boosted - 1 - outValue.off
      BY <1>3, <1>4
    <3>5. Extends(Byte(boosted))
      BY <2>1, <3>2, <3>3, <3>4 DEF Extends
    <3> QED BY <3>2, <3>5
  <2>4. outValue.len = match_len /\ match_len >= MIN_MATCH /\ match_len > 0
    BY <1>3, <2>1, <2>2, <2>3
  <2>5. Match(outValue.len, outValue.off, p)
    BY <1>2, <2>1, <2>4 DEF Match
  <2> QED BY <1>1, <1>2, <2>1, <2>4, <2>5 DEF Says, Covered
<1> QED BY <1>2, <1>5, <1>6, <1>7 DEF InHand

\* The byte read is stored in its cell, over one that is out of reach.
LEMMA MemBoost ==
    ASSUME FlowInv, BoostInv, Boost PROVE MemInv'
<1> DEFINE n == boosted  W == BOOSTER_OFFSET_WINDOW  ch == Head(bestMatchStream).ch
<1>1. /\ input' = input /\ boosted' = n + 1 /\ flushed' = flushed
      /\ local_mem' = [local_mem EXCEPT ![Cell(n)] = ch] /\ ch = Byte(n) /\ ch \in Bytes
  BY ReadBestFacts DEF Boost, Found, Says, Items
<1>2. /\ n \in Nat /\ W \in Nat \ {0} /\ local_mem \in [0..W - 1 -> Bytes] /\ Cell(n) \in 0..W - 1
      /\ MemInv
  BY BoosterTypes, CellsApart DEF BoostInv, MemInv
<1> HIDE DEF ch
<1>3. local_mem' \in [0..W - 1 -> Bytes]
  BY <1>1, <1>2
<1>4. ASSUME ~flushed, NEW q \in 0..n, (n + 1) - q <= W PROVE local_mem'[Cell(q)] = Byte(q)
  <2>1. CASE q = n
    BY <1>1, <1>2, <2>1
  <2>2. CASE q # n
    <3>1. q \in 0..n - 1 /\ q \in Nat /\ q < n /\ n - q < W /\ n - q <= W
      BY <1>2, <1>4, <2>2
    <3>2. Cell(q) # Cell(n) /\ Cell(q) \in 0..W - 1
      BY <1>2, <3>1, CellsApart
    <3>3. local_mem[Cell(q)] = Byte(q)
      BY <1>2, <1>4, <3>1 DEF MemInv
    <3> QED BY <1>1, <1>2, <3>2, <3>3
  <2> QED BY <2>1, <2>2
<1>5. ~flushed => \A q \in 0..n : (n + 1) - q <= W => local_mem'[Cell(q)] = Byte(q)
  BY <1>4
<1>6. boosted' - 1 = n
  BY <1>1, <1>2
<1> HIDE DEF n
<1> QED BY <1>1, <1>3, <1>5, <1>6 DEF MemInv, Cell, Byte

\* What the circular memory says of a byte in its reach.
LEMMA ByteInReach ==
    ASSUME MemInv', input' = input, ~flushed', NEW q \in Nat, q < boosted',
           boosted' - q <= BOOSTER_OFFSET_WINDOW, boosted' \in Nat
    PROVE  local_mem'[Cell(q)] = Byte(q)
<1>1. \A b \in Nat : q < b => q \in 0..b - 1
  OBVIOUS
<1>2. q \in 0..boosted' - 1
  BY <1>1
<1> QED BY <1>2 DEF MemInv, Cell, Byte

\* The three states of the item in hand, in the next state.
LEMMA NearNext ==
    ASSUME input' = input, matchFlag', skip_len' = 0,
           NEW p \in Nat, NEW off \in Nat, NEW m \in 1..MAX_MATCH_LEN,
           outValue'.off = off, match_len' = m, boosted' = p + m,
           off >= MIN_OFFSET, off < p, off < BOOSTER_OFFSET_WINDOW,
           match_loc' = boosted' - 1 - off, nextMatchCh' = Byte(match_loc'),
           Repeats(off, p, m),
           NEW len \in MIN_MATCH..MATCH_LEN, Match(len, off, p),
           outValue'.len = IF m = 1 THEN len ELSE m
    PROVE  Near(p)'
<1>1. Repeats(off, p, m)' /\ Match(len, off, p)' /\ \A q : Byte(q)' = Byte(q)
  BY DEF Match, Repeats, Byte, Body, size
<1>2. Repeats(outValue.off, p, match_len)' /\ Match(len, outValue.off, p)'
  BY <1>1 DEF Match, Repeats
<1>3. nextMatchCh' = Byte(match_loc)'
  BY DEF Byte
<1> QED BY <1>2, <1>3 DEF Near

LEMMA FarNext ==
    ASSUME input' = input, ~matchFlag', NEW p \in Nat, NEW w, outValue' = w, w.len > 0, Found(w, p),
           skip_len' \in 0..w.len - 1, boosted' + skip_len' = p + w.len
    PROVE  Far(p)'
<1>1. Found(w, p)'
  BY FoundNext
<1>2. Found(outValue, p)'
  BY <1>1 DEF Found, Says
<1> QED BY <1>2 DEF Far

LEMMA LiteralNext ==
    ASSUME input' = input, ~matchFlag', NEW p \in Nat, NEW w, outValue' = w, w.len = 0, w.ch = Byte(p),
           skip_len' = 0, boosted' = p + 1
    PROVE  Literal(p)'
BY DEF Literal, Byte

LEMMA BoostFacts ==
    ASSUME IInv, Boost, NEW item, item = Head(bestMatchStream)
    PROVE  /\ input' = input /\ boosted' = boosted + 1 /\ flushed' = flushed /\ ~flushed
           /\ boosted \in Nat /\ boosted < Body /\ Body \in Int /\ size' = size /\ Body' = Body
           /\ Found(item, boosted) /\ BoostItem(item)
           /\ nextMatchCh' = local_mem'[Cell(match_loc')]
           /\ FlowInv /\ BoostInv /\ MemInv' /\ flushed \in BOOLEAN
<1>1. FlowInv /\ BoostInv /\ ReadBest
  BY DEF IInv, Boost
<1>2. /\ input' = input /\ boosted' = boosted + 1 /\ size' = size /\ Found(item, boosted)
      /\ boosted < Body /\ flushed' = flushed /\ BoostItem(item)
      /\ nextMatchCh' = local_mem'[Cell(match_loc')]
  BY <1>1, ReadBestFacts DEF Boost
<1>3. boosted \in Nat /\ Body \in Int
  BY <1>1, BoosterTypes
<1>4. ~flushed /\ flushed \in BOOLEAN
  BY <1>1, <1>2, <1>3 DEF BoostInv, HandInv
<1>5. MemInv'
  BY <1>1, MemBoost
<1> QED BY <1>1, <1>2, <1>3, <1>4, <1>5 DEF Body

LEMMA InHandThere == \A q : q = NextPlace /\ InHand(q) => InHand(NextPlace)
OBVIOUS

LEMMA HandNext ==
    ASSUME ~flushed', flushed' \in BOOLEAN, boosted' \in Nat, boosted' > 0, boosted' <= Body', outValue' \in Items,
           matchFlag' \in BOOLEAN, match_loc' \in Nat, match_len' \in 0..MAX_MATCH_LEN,
           NEW p, p = NextPlace', InHand(p)'
    PROVE  HandInv'
<1>1. (\A q : q = NextPlace /\ InHand(q) => InHand(NextPlace))'
  BY InHandThere, PTL
<1>2. InHand(NextPlace)'
  BY <1>1
<1>3. Items' = Items
  BY DEF Items
<1>4. ~(boosted' = 0)
  OBVIOUS
<1> QED BY <1>2, <1>3, <1>4 DEF HandInv

\* A position of a match that is not extended.
LEMMA BoostSkip ==
    ASSUME IInv, Boost, skip_len > 0
    PROVE  StreamInv' /\ HandInv'
<1> DEFINE item == Head(bestMatchStream)
<1>1. /\ input' = input /\ boosted' = boosted + 1 /\ flushed' = flushed /\ ~flushed
      /\ boosted \in Nat /\ boosted < Body /\ Body \in Int /\ Body' = Body
      /\ BoostItem(item) /\ FlowInv /\ BoostInv /\ flushed \in BOOLEAN
  BY BoostFacts
<1>2. skip_len' = skip_len - 1 /\ UNCHANGED <<match_loc, match_len, outValue, matchFlag, boosterStream>>
  BY <1>1 DEF BoostItem
<1>3. StreamInv /\ HandInv
  BY <1>1 DEF BoostInv
<1>4. PICK p \in Nat : p = NextPlace
  BY <1>3 DEF StreamInv
<1>5. StreamInv' /\ NextPlace' = p
  BY <1>1, <1>2, <1>3, <1>4, StreamNext DEF StreamInv, NextPlace
<1>6. Far(p)
  <2>1. boosted > 0 /\ InHand(p)
    BY <1>1, <1>3, <1>4 DEF HandInv
  <2> QED BY <2>1 DEF InHand, Literal, Near
<1>7. Far(p)'
  <2>1. /\ ~matchFlag /\ outValue.len > 0 /\ Found(outValue, p)
        /\ skip_len \in 0..outValue.len - 1 /\ boosted + skip_len = p + outValue.len
    BY <1>6 DEF Far
  <2>2. outValue.len \in Nat
    BY <1>3, ItemFields DEF HandInv
  <2>3. skip_len' \in 0..outValue.len - 1 /\ boosted' + skip_len' = p + outValue.len
    BY <1>1, <1>2, <2>1, <2>2
  <2> QED BY <1>1, <1>2, <2>1, <2>3, FarNext
<1>8. HandInv'
  <2>1. outValue \in Items /\ matchFlag \in BOOLEAN /\ match_loc \in Nat /\ match_len \in 0..MAX_MATCH_LEN
    BY <1>3 DEF HandInv
  <2>2. boosted' \in Nat /\ boosted' > 0 /\ boosted' <= Body'
    BY <1>1
  <2>3. InHand(p)'
    BY <1>7 DEF InHand
  <2> QED BY <1>1, <1>2, <1>5, <2>1, <2>2, <2>3, HandNext
<1> QED BY <1>5, <1>8

\* A byte that goes on with the match in hand.
LEMMA BoostExtend ==
    ASSUME IInv, Boost, skip_len = 0, Extends(Byte(boosted))
    PROVE  StreamInv' /\ HandInv'
<1> DEFINE item == Head(bestMatchStream)  off == outValue.off  m == match_len
<1>1. /\ input' = input /\ boosted' = boosted + 1 /\ flushed' = flushed /\ ~flushed
      /\ boosted \in Nat /\ boosted < Body /\ Body \in Int /\ Body' = Body
      /\ Found(item, boosted) /\ BoostItem(item) /\ FlowInv /\ BoostInv
      /\ nextMatchCh' = local_mem'[Cell(match_loc')] /\ MemInv' /\ flushed \in BOOLEAN
  BY BoostFacts
<1>2. item.ch = Byte(boosted) /\ ~(skip_len > 0)
  BY <1>1 DEF Found
<1>3. /\ match_len' = m + 1 /\ match_loc' = match_loc + 1
      /\ outValue' = [outValue EXCEPT !.len = m + 1]
      /\ UNCHANGED <<matchFlag, skip_len, boosterStream>>
  BY <1>1, <1>2 DEF BoostItem
<1>4. StreamInv /\ HandInv /\ matchFlag /\ m < MAX_MATCH_LEN /\ Byte(boosted) = nextMatchCh
  BY <1>1 DEF BoostInv, Extends
<1>5. PICK p \in Nat : p = NextPlace
  BY <1>4 DEF StreamInv
<1>6. StreamInv' /\ NextPlace' = p
  BY <1>1, <1>3, <1>4, <1>5, StreamNext DEF StreamInv, NextPlace
<1>7. Near(p)
  <2>1. boosted > 0 /\ InHand(p)
    BY <1>1, <1>4, <1>5 DEF HandInv
  <2> QED BY <1>4, <2>1 DEF InHand, Literal, Far
<1>8. /\ m \in 1..MAX_MATCH_LEN /\ boosted = p + m
      /\ off >= MIN_OFFSET /\ off < p /\ off < BOOSTER_OFFSET_WINDOW
      /\ match_loc = boosted - 1 - off /\ nextMatchCh = Byte(match_loc)
      /\ Repeats(off, p, m)
  BY <1>7 DEF Near
<1>9. PICK len \in MIN_MATCH..MATCH_LEN : Match(len, off, p)
  BY <1>7 DEF Near
<1>10. /\ off \in Nat /\ outValue'.len = m + 1 /\ outValue'.off = off /\ outValue' \in Items
       /\ MAX_MATCH_LEN \in Nat /\ m + 1 \in 1..MAX_MATCH_LEN /\ m + 1 # 1
  <2>1. outValue \in Items
    BY <1>4 DEF HandInv
  <2>2. MAX_MATCH_LEN \in Nat
    BY SearchAssumption
  <2>3. m + 1 \in 0..MAX_MATCH_LEN /\ m + 1 \in 1..MAX_MATCH_LEN /\ m + 1 # 1
    BY <1>4, <1>8, <2>2
  <2> HIDE DEF m
  <2> QED BY <1>3, <2>1, <2>2, <2>3, ItemFields
<1> DEFINE loc == match_loc + 1
<1>11. loc \in Nat /\ loc = (boosted + 1) - 1 - off /\ loc < boosted + 1
       /\ (boosted + 1) - loc <= BOOSTER_OFFSET_WINDOW /\ boosted + 1 = p + (m + 1)
       /\ BOOSTER_OFFSET_WINDOW \in Nat
  <2>1. BOOSTER_OFFSET_WINDOW \in Nat
    BY SearchAssumption
  <2> QED BY <1>1, <1>8, <1>10, <2>1
<1>12. nextMatchCh' = Byte(match_loc')
  <2>1. loc < boosted' /\ boosted' - loc <= BOOSTER_OFFSET_WINDOW /\ boosted' \in Nat
    BY <1>1, <1>11
  <2> HIDE DEF loc
  <2>2. local_mem'[Cell(loc)] = Byte(loc)
    BY <1>1, <1>11, <2>1, ByteInReach
  <2> QED BY <1>1, <1>3, <2>2 DEF loc
<1>13. Repeats(off, p, m + 1)
  <2>1. ASSUME NEW k \in p..p + (m + 1) - 1 PROVE Byte(k) = Byte(k - off - 1)
    <3>1. CASE k \in p..p + m - 1
      BY <1>8, <3>1 DEF Repeats
    <3>2. CASE k = boosted
      <4>1. k - off - 1 = match_loc
        BY <1>1, <1>8, <1>10, <3>2
      <4> QED BY <1>4, <1>8, <3>2, <4>1
    <3>3. k \in p..p + m - 1 \/ k = boosted
      BY <1>8
    <3> QED BY <3>1, <3>2, <3>3
  <2> QED BY <2>1 DEF Repeats
<1>14. Near(p)'
  <2>1. matchFlag' /\ skip_len' = 0
    BY <1>3, <1>4
  <2>2. match_len' = m + 1 /\ boosted' = p + (m + 1) /\ match_loc' = boosted' - 1 - off
    BY <1>1, <1>3, <1>11
  <2>3. outValue'.len = IF m + 1 = 1 THEN len ELSE m + 1
    BY <1>10
  <2> HIDE DEF off, m, loc
  <2> QED BY <1>1, <1>8, <1>9, <1>10, <1>12, <1>13, <2>1, <2>2, <2>3, NearNext
<1>15. HandInv'
  <2>1. matchFlag' \in BOOLEAN /\ match_loc' \in Nat /\ match_len' \in 0..MAX_MATCH_LEN
    BY <1>3, <1>4, <1>10, <1>11 DEF HandInv
  <2>2. boosted' \in Nat /\ boosted' > 0 /\ boosted' <= Body'
    BY <1>1
  <2>3. InHand(p)'
    BY <1>14 DEF InHand
  <2> QED BY <1>1, <1>6, <1>10, <2>1, <2>2, <2>3, HandNext
<1> QED BY <1>6, <1>15

\* Another item is taken in hand, and the one before it written.
LEMMA BoostNew ==
    ASSUME IInv, Boost, skip_len = 0, ~Extends(Byte(boosted))
    PROVE  StreamInv' /\ HandInv'
<1> DEFINE item == Head(bestMatchStream)  off == item.off  len == item.len
<1>1. /\ input' = input /\ boosted' = boosted + 1 /\ flushed' = flushed /\ ~flushed
      /\ boosted \in Nat /\ boosted < Body /\ Body \in Int /\ Body' = Body
      /\ Found(item, boosted) /\ BoostItem(item) /\ FlowInv /\ BoostInv
      /\ nextMatchCh' = local_mem'[Cell(match_loc')] /\ MemInv' /\ flushed \in BOOLEAN
  BY BoostFacts
<1>2. item.ch = Byte(boosted) /\ ~(skip_len > 0) /\ item \in Items /\ len <= MATCH_LEN /\ (len = 0 => off = 0)
  BY <1>1 DEF Found, Says
<1>3. /\ match_len' = 1 /\ match_loc' = boosted - off /\ outValue' = item
      /\ boosterStream' = IF boosted > 0 THEN Append(boosterStream, outValue) ELSE boosterStream
      /\ matchFlag' = (len > 0 /\ InWindow(off))
      /\ skip_len' = IF len > 0 /\ ~InWindow(off) THEN Skipped(item) ELSE skip_len
  BY <1>1, <1>2 DEF BoostItem
<1>4. StreamInv /\ HandInv
  BY <1>1 DEF BoostInv
<1>5. PICK p \in Nat : p = boosted
  BY <1>1
<1>6. StreamInv' /\ NextPlace' = p
  <2>1. CASE boosted > 0
    <3>1. Says(outValue, NextPlace) /\ NextPlace + Covered(outValue) = boosted
      BY <1>1, <2>1, InHandEnds
    <3>2. PICK t : t = Append(boosterStream, outValue)
      OBVIOUS
    <3>3. /\ t \in Seq(Items) /\ Place(t, Len(t) + 1) = boosted /\ \A n \in 1..Len(t) : Says(t[n], Place(t, n))
      BY <1>4, <3>1, <3>2, StreamGrows
    <3>4. boosterStream' = t
      BY <1>3, <2>1, <3>2
    <3> QED BY <1>1, <1>5, <3>3, <3>4, StreamNext
  <2>2. CASE boosted = 0
    <3>1. boosterStream = <<>> /\ boosterStream' = boosterStream
      BY <1>1, <1>3, <1>4, <2>2 DEF HandInv
    <3>2. NextPlace = 0
      <4>1. Len(boosterStream) + 1 = 1
        BY <3>1, EmptySeq
      <4> QED BY <4>1, PlaceOfNext DEF NextPlace
    <3>3. Place(boosterStream, Len(boosterStream) + 1) = p
      BY <1>5, <2>2, <3>2 DEF NextPlace
    <3> QED BY <1>1, <1>4, <1>5, <3>1, <3>3, StreamNext DEF StreamInv
  <2> QED BY <1>1, <2>1, <2>2
<1>7. /\ len \in Nat /\ off \in Nat /\ len \in 0..MAX_MATCH_LEN /\ MATCH_LEN \in Nat /\ MIN_MATCH \in Nat \ {0}
      /\ MAX_MATCH_LEN \in Nat /\ MATCH_LEN <= MAX_MATCH_LEN /\ MATCH_LEN >= 1 /\ BOOSTER_OFFSET_WINDOW \in Nat
  <2>1. len \in Nat /\ off \in Nat /\ len \in 0..MAX_MATCH_LEN
    BY <1>2, ItemFields
  <2> QED BY <1>1, <2>1, BoosterTypes
<1>8. len > 0 => off < p /\ off >= MIN_OFFSET /\ Match(len, off, p) /\ Repeats(off, p, len)
  BY <1>1, <1>5 DEF Found, Says, Match
<1>9. match_loc' \in Nat
  BY <1>2, <1>3, <1>5, <1>7, <1>8
<1>10. InHand(p)'
  <2>1. CASE len = 0
    <3>1. ~matchFlag' /\ skip_len' = 0
      <4>1. ~(len > 0)
        BY <2>1
      <4> QED BY <1>2, <1>3, <4>1
    <3>2. \A w : w = item => Literal(p)'
      <4> SUFFICES ASSUME NEW w, w = item PROVE Literal(p)'
        OBVIOUS
      <4> QED BY <1>1, <1>2, <1>3, <1>5, <2>1, <3>1, LiteralNext
    <3> QED BY <3>2 DEF InHand
  <2>2. CASE len > 0 /\ InWindow(off)
    <3>1. matchFlag' /\ skip_len' = 0
      BY <1>3, <2>2
    <3>2. PICK f \in Nat, l \in MIN_MATCH..MATCH_LEN : f = off /\ l = len
      BY <1>2, <1>7, <1>8, <2>2 DEF Match
    <3>3. f < BOOSTER_OFFSET_WINDOW
      BY <2>2, <3>2 DEF InWindow
    <3>4. Repeats(f, p, 1)
      <4>1. \A k \in p..p + 1 - 1 : k \in p..p + len - 1
        BY <1>7, <2>2
      <4> QED BY <1>8, <2>2, <3>2, <4>1 DEF Repeats
    <3>5. /\ p - f \in Nat /\ p - f < boosted' /\ boosted' - (p - f) <= BOOSTER_OFFSET_WINDOW /\ boosted' \in Nat
          /\ match_loc' = p - f /\ match_loc' = boosted' - 1 - f /\ boosted' = p + 1
      <4>1. boosted' = p + 1 /\ f < p /\ match_loc' = p - f
        BY <1>1, <1>3, <1>5, <1>8, <2>2, <3>2
      <4> QED BY <1>7, <3>3, <4>1
    <3>6. nextMatchCh' = Byte(match_loc')
      <4>1. PICK q \in Nat : q = p - f
        BY <3>5
      <4>2. local_mem'[Cell(q)] = Byte(q)
        BY <1>1, <3>5, <4>1, ByteInReach
      <4> QED BY <1>1, <3>5, <4>1, <4>2
    <3>7. 1 \in 1..MAX_MATCH_LEN /\ outValue'.off = f /\ outValue'.len = IF 1 = 1 THEN l ELSE 1
      BY <1>3, <1>7, <3>2
    <3>8. f >= MIN_OFFSET /\ f < p /\ Match(l, f, p)
      BY <1>8, <2>2, <3>2
    <3>9. Near(p)'
      BY <1>1, <1>3, <3>1, <3>3, <3>4, <3>5, <3>6, <3>7, <3>8, NearNext
    <3> QED BY <3>9 DEF InHand
  <2>3. CASE len > 0 /\ ~InWindow(off)
    <3>1. ~matchFlag' /\ skip_len' = len - 1
      BY <1>3, <2>3 DEF Skipped
    <3>2. skip_len' \in 0..len - 1 /\ boosted' + skip_len' = p + len
      BY <1>1, <1>5, <1>7, <2>3, <3>1
    <3>3. \A w : w = item => Far(p)'
      <4> SUFFICES ASSUME NEW w, w = item PROVE Far(p)'
        OBVIOUS
      <4> QED BY <1>1, <1>3, <1>5, <2>3, <3>1, <3>2, FarNext
    <3> QED BY <3>3 DEF InHand
  <2> QED BY <1>7, <2>1, <2>2, <2>3
<1>11. HandInv'
  <2>1. matchFlag' \in BOOLEAN
    BY <1>3
  <2>2. match_len' \in 0..MAX_MATCH_LEN /\ boosted' \in Nat /\ boosted' > 0 /\ boosted' <= Body'
    BY <1>1, <1>3, <1>7
  <2> QED BY <1>1, <1>2, <1>3, <1>6, <1>9, <1>10, <2>1, <2>2, HandNext
<1> QED BY <1>6, <1>11

LEMMA BoosterBoost == ASSUME IInv, Boost PROVE BoostInv'
<1>1. skip_len = 0 \/ skip_len > 0
  <2>1. HandInv /\ ~flushed /\ boosted \in Nat
    BY BoostFacts DEF BoostInv
  <2>2. CASE boosted = 0
    BY <2>1, <2>2 DEF HandInv
  <2>3. CASE boosted > 0
    <3>1. InHand(NextPlace) /\ outValue.len \in Nat
      BY <2>1, <2>3, ItemFields DEF HandInv
    <3>2. skip_len = 0 \/ skip_len \in 0..outValue.len - 1
      BY <3>1 DEF InHand, Literal, Near, Far
    <3> QED BY <3>1, <3>2
  <2> QED BY <2>1, <2>2, <2>3
<1>2. MemInv'
  BY BoostFacts
<1> QED BY <1>1, <1>2, BoostSkip, BoostExtend, BoostNew DEF BoostInv

\* After the last position a match may cover, the item in hand is written.
LEMMA BoosterFlush == ASSUME IInv, BoostFlush PROVE BoostInv'
<1>1. FlowInv /\ BoostInv /\ MemInv /\ StreamInv /\ HandInv
  BY DEF IInv, BoostInv
<1>2. /\ size > 0 /\ boosted = Body /\ ~flushed /\ flushed' = TRUE
      /\ boosterStream' = Append(boosterStream, outValue) /\ input' = input
      /\ UNCHANGED <<boosted, local_mem, match_loc, match_len, outValue, matchFlag, skip_len>>
  BY DEF BoostFlush, boostRegs
<1>3. boosted \in Nat /\ Body \in Int /\ boosted > 0 /\ size' = size /\ Body' = Body /\ size \in Nat
  <2>1. size' = size /\ Body' = Body
    BY <1>2 DEF size, Body
  <2> QED BY <1>1, <1>2, <2>1, BoosterTypes
<1>4. skip_len = 0
  <2>1. PICK p \in Nat : p = NextPlace
    BY <1>1 DEF StreamInv
  <2>2. InHand(p) /\ outValue \in Items
    BY <1>1, <1>2, <1>3, <2>1 DEF HandInv
  <2>3. CASE Far(p)
    <3>1. /\ Found(outValue, p) /\ outValue.len > 0 /\ skip_len \in 0..outValue.len - 1
          /\ boosted + skip_len = p + outValue.len /\ outValue.len \in Nat
      BY <2>2, <2>3, ItemFields DEF Far
    <3>2. p + outValue.len <= Body
      BY <3>1 DEF Found, Says, Match
    <3> QED BY <1>2, <1>3, <3>1, <3>2
  <2> QED BY <2>2, <2>3 DEF InHand, Literal, Near
<1>5. Says(outValue, NextPlace) /\ NextPlace + Covered(outValue) = boosted
  BY <1>1, <1>2, <1>3, <1>4, InHandEnds
<1>6. PICK t : t = Append(boosterStream, outValue)
  OBVIOUS
<1>7. /\ t \in Seq(Items) /\ Place(t, Len(t) + 1) = boosted /\ \A n \in 1..Len(t) : Says(t[n], Place(t, n))
  BY <1>1, <1>5, <1>6, StreamGrows
<1>8. StreamInv' /\ NextPlace' = boosted
  BY <1>2, <1>3, <1>6, <1>7, StreamNext
<1>9. MemInv'
  BY <1>1, <1>2 DEF MemInv
<1>10. HandInv'
  BY <1>1, <1>2, <1>3, <1>4, <1>8 DEF HandInv, Items
<1> QED BY <1>8, <1>9, <1>10 DEF BoostInv

\* The trailing bytes are literals.
LEMMA BoosterRest == ASSUME IInv, BoostRest PROVE BoostInv'
<1> DEFINE item == Head(bestMatchStream)
<1>1. FlowInv /\ BoostInv /\ MemInv /\ StreamInv /\ HandInv
  BY DEF IInv, BoostInv
<1>2. /\ ReadBest /\ flushed /\ flushed' = flushed /\ boosterStream' = Append(boosterStream, item)
      /\ UNCHANGED <<local_mem, match_loc, match_len, outValue, matchFlag, skip_len>>
  BY DEF BoostRest, boostRegs
<1>3. /\ input' = input /\ size' = size /\ Body' = Body /\ boosted' = boosted + 1 /\ Found(item, boosted)
      /\ boosted \in Nat /\ Body \in Int
  BY <1>1, <1>2, ReadBestFacts, BoosterTypes DEF Body
<1>4. size > 0 /\ boosted >= Body /\ NextPlace = boosted /\ skip_len = 0
  BY <1>1, <1>2 DEF HandInv
<1>5. item.len = 0
  <2>1. item.len \in Nat
    BY <1>3, ItemFields DEF Found, Says
  <2>2. item.len > 0 => boosted + item.len <= Body
    BY <1>3 DEF Found, Says, Match
  <2> QED BY <1>3, <1>4, <2>1, <2>2
<1>6. Says(item, NextPlace) /\ NextPlace + Covered(item) = boosted + 1
  BY <1>3, <1>4, <1>5 DEF Found, Covered
<1>7. PICK t : t = Append(boosterStream, item)
  OBVIOUS
<1>8. /\ t \in Seq(Items) /\ Place(t, Len(t) + 1) = boosted + 1 /\ \A n \in 1..Len(t) : Says(t[n], Place(t, n))
  BY <1>1, <1>6, <1>7, StreamGrows
<1>9. StreamInv' /\ NextPlace' = boosted + 1
  <2>1. boosted + 1 \in Nat /\ boosterStream' = t /\ input' = input
    BY <1>2, <1>3, <1>7
  <2>2. Place(t, Len(t) + 1) \in Nat
    BY <1>8, <2>1
  <2> QED BY <1>8, <2>1, <2>2, StreamNext
<1>10. MemInv'
  BY <1>1, <1>2 DEF MemInv
<1>11. HandInv'
  BY <1>1, <1>2, <1>3, <1>4, <1>9 DEF HandInv, Items
<1> QED BY <1>9, <1>10, <1>11 DEF BoostInv

\* The searching and the filtering leave the booster alone.
LEMMA BoosterIdle ==
    ASSUME BoostInv, input' = input, UNCHANGED boostVars PROVE BoostInv'
<1>1. UNCHANGED <<boosted, local_mem, match_loc, match_len, outValue, matchFlag, skip_len, nextMatchCh,
                  flushed, boosterStream>>
  BY DEF boostVars, boostRegs
<1>2. MemInv /\ StreamInv /\ HandInv
  BY DEF BoostInv
<1>3. MemInv'
  BY <1>1, <1>2 DEF MemInv, Cell, Byte
<1>4. StreamInv' /\ NextPlace' = NextPlace
  BY <1>1, <1>2, StreamNext DEF StreamInv, NextPlace
<1>5. ASSUME NEW p PROVE Found(outValue, p)' <=> Found(outValue, p)
  BY <1>1 DEF Found, Says, Match, Repeats, Items, Byte, Body, size
<1>6. ASSUME NEW p PROVE InHand(p)' <=> InHand(p)
  <2>1. Literal(p)' <=> Literal(p)
    BY <1>1 DEF Literal, Byte
  <2>2. Near(p)' <=> Near(p)
    BY <1>1 DEF Near, Match, Repeats, Byte, Body, size
  <2>3. Far(p)' <=> Far(p)
    BY <1>1, <1>5 DEF Far
  <2> QED BY <2>1, <2>2, <2>3 DEF InHand
<1>7. PICK p : p = NextPlace
  OBVIOUS
<1>8. InHand(NextPlace) => InHand(NextPlace)'
  <2>1. (\A q : q = NextPlace /\ InHand(q) => InHand(NextPlace))'
    BY InHandThere, PTL
  <2>2. InHand(NextPlace) => InHand(p)
    BY <1>7
  <2> QED BY <1>4, <1>6, <1>7, <2>1, <2>2
<1>9. HandInv'
  <2>1. size' = size /\ Body' = Body /\ Items' = Items
    BY DEF size, Body, Items
  <2> QED BY <1>1, <1>2, <1>4, <1>8, <2>1 DEF HandInv
<1> QED BY <1>3, <1>4, <1>9 DEF BoostInv

LEMMA BoostInit == Init => BoostInv
<1> SUFFICES ASSUME Init PROVE BoostInv
  OBVIOUS
<1>1. /\ boosterStream = <<>> /\ boosted = 0 /\ match_loc = 0 /\ match_len = 0 /\ matchFlag = FALSE
      /\ skip_len = 0 /\ flushed = FALSE
  BY DEF Init
<1>2. PICK garbage \in Bytes : /\ local_mem = [c \in 0..BOOSTER_OFFSET_WINDOW - 1 |-> garbage]
                               /\ outValue = Item(garbage, 0, 0)
  BY DEF Init
<1>3. MAX_MATCH_LEN \in Nat /\ LZ_MAX_OFFSET_LIMIT \in Nat \ {0}
  BY SearchAssumption
<1>4. MemInv
  BY <1>1, <1>2 DEF MemInv
<1>5. StreamInv
  <2>1. boosterStream \in Seq(Items) /\ Len(boosterStream) = 0
    BY <1>1, EmptySeq
  <2>2. NextPlace = 0
    BY <2>1, PlaceOfNext DEF NextPlace
  <2> QED BY <2>1, <2>2 DEF StreamInv
<1>6. HandInv
  <2>1. outValue \in Items
    BY <1>2, <1>3 DEF Items, Item
  <2>2. matchFlag \in BOOLEAN /\ flushed \in BOOLEAN /\ ~matchFlag /\ ~flushed
    BY <1>1
  <2>3. match_loc \in Nat /\ match_len \in 0..MAX_MATCH_LEN /\ ~(boosted > 0)
    BY <1>1, <1>3
  <2> QED BY <1>1, <2>1, <2>2, <2>3 DEF HandInv
<1> QED BY <1>4, <1>5, <1>6 DEF BoostInv

LEMMA InvInit == Init => IInv
BY FlowInit, BoostInit DEF IInv

LEMMA InvNext == IInv /\ [Next]_vars => IInv'
<1> SUFFICES ASSUME IInv, [Next]_vars PROVE IInv'
  OBVIOUS
<1>1. FlowInv' /\ BoostInv
  BY FlowNext DEF IInv
<1>2. CASE Search \/ Filter \/ UNCHANGED vars
  <2>1. input' = input /\ UNCHANGED boostVars
    BY <1>2 DEF Search, FindMatch, SearchRest, Filter, FilterFill, FilterStep, FilterDrain, ReadItem, vars
  <2> QED BY <1>1, <2>1, BoosterIdle DEF IInv
<1>3. CASE Booster
  BY <1>1, <1>3, BoosterBoost, BoosterFlush, BoosterRest DEF Booster, IInv
<1> QED BY <1>2, <1>3 DEF Next

\* Whatever the input, the hash, the FIFOs and the lag of the dictionary's
\* memory, the booster's window holds the bytes it is asked for and the item in
\* hand is true of its position.
THEOREM Invariance == Spec => []IInv
BY InvInit, InvNext, PTL DEF Spec

-----------------------------------------------------------------------------
(* What the encoder gets *)

LEMMA InvEveryItem == IInv => EveryItemIsTrue
<1> SUFFICES ASSUME IInv, NEW n \in 1..Len(boosterStream), NEW item, item = boosterStream[n],
                    NEW p, p = Place(boosterStream, n)
             PROVE  IF item.len = 0 THEN item.ch = Byte(p)
                    ELSE /\ p > item.off
                         /\ \A k \in p..p + item.len - 1 : Byte(k) = Byte(k - item.off - 1)
  BY DEF EveryItemIsTrue
<1>1. Says(item, p)
  BY DEF IInv, BoostInv, StreamInv
<1>2. item.len \in Nat
  BY <1>1, ItemFields DEF Says
<1>3. CASE item.len = 0
  BY <1>1, <1>3 DEF Says
<1>4. CASE item.len > 0
  <2>1. item.off < p /\ Repeats(item.off, p, item.len)
    BY <1>1, <1>4 DEF Says, Match
  <2>2. item.off \in Nat
    BY <1>1, ItemFields DEF Says
  <2>3. p > item.off
    BY <2>1
  <2> QED BY <1>4, <2>1, <2>3 DEF Repeats
<1> QED BY <1>2, <1>3, <1>4

LEMMA InvItemsFit == IInv => ItemsFitEncoder
<1> SUFFICES ASSUME IInv, NEW n \in 1..Len(boosterStream), boosterStream[n].len > 0
             PROVE  /\ boosterStream[n].len >= MIN_MATCH /\ boosterStream[n].off >= MIN_OFFSET
                    /\ Place(boosterStream, n) + boosterStream[n].len <= Body
  BY DEF ItemsFitEncoder
<1> QED BY DEF IInv, BoostInv, StreamInv, Says, Match

LEMMA InvCovered == IInv => InputIsCovered
<1> SUFFICES ASSUME IInv, Finished PROVE NextPlace = size
  BY DEF InputIsCovered, NextPlace
<1>1. HandInv /\ size \in Nat /\ boosted = size /\ (size > 0 => flushed)
  BY BoosterTypes DEF IInv, BoostInv, Finished
<1>2. CASE size > 0
  BY <1>1, <1>2 DEF HandInv
<1>3. CASE size = 0
  <2>1. boosterStream = <<>>
    BY <1>1, <1>3 DEF HandInv
  <2>2. Len(boosterStream) = 0
    BY <2>1, EmptySeq
  <2> QED BY <1>3, <2>2, PlaceOfNext DEF NextPlace
<1> QED BY <1>1, <1>2, <1>3

LEMMA InvComparedByte == IInv => ComparedByteIsOld
<1> SUFFICES ASSUME IInv, matchFlag, boosted < Body
             PROVE  nextMatchCh = Byte(match_loc) /\ match_loc + MIN_OFFSET < boosted
  BY DEF ComparedByteIsOld
<1>1. HandInv /\ boosted \in Nat /\ Body \in Int /\ MIN_OFFSET \in Nat
  BY BoosterTypes DEF IInv, BoostInv
<1>2. ~flushed /\ boosted > 0
  BY <1>1 DEF HandInv
<1>3. InHand(NextPlace) /\ outValue.off \in Nat
  BY <1>1, <1>2, ItemFields DEF HandInv
<1>4. Near(NextPlace)
  BY <1>3 DEF InHand, Literal, Far
<1>5. outValue.off >= MIN_OFFSET /\ match_loc = boosted - 1 - outValue.off /\ nextMatchCh = Byte(match_loc)
  BY <1>4 DEF Near
<1> QED BY <1>1, <1>3, <1>5

LEMMA InvTypes == IInv => TypeOK
<1> SUFFICES ASSUME IInv PROVE TypeOK
  OBVIOUS
<1>1. CountsInv /\ MemInv /\ StreamInv /\ HandInv /\ FlowInv
  BY DEF IInv, FlowInv, BoostInv
<1>2. /\ \A n \in 1..Len(compressdStream) : compressdStream[n] \in Items
      /\ \A n \in 1..Len(bestMatchStream) : bestMatchStream[n] \in Items
      /\ \A n \in 1..Len(boosterStream) : boosterStream[n] \in Items
  BY <1>1, ElementOfSeq DEF CountsInv, StreamInv
<1>3. searched \in 0..size /\ filtered \in 0..searched /\ boosted \in 0..filtered
  BY <1>1, FlowTypes DEF CountsInv
<1>4. skip_len \in 0..MATCH_LEN - 1
  <2>1. MATCH_LEN \in Nat \ {0} /\ boosted \in Nat /\ flushed \in BOOLEAN
    BY <1>1, BoosterTypes DEF HandInv
  <2>2. CASE flushed \/ boosted = 0
    BY <1>1, <2>1, <2>2 DEF HandInv
  <2>3. CASE ~flushed /\ boosted > 0
    <3>1. InHand(NextPlace) /\ outValue.len \in Nat
      BY <1>1, <2>3, ItemFields DEF HandInv
    <3>2. skip_len = 0 \/ (skip_len \in 0..outValue.len - 1 /\ outValue.len <= MATCH_LEN)
      BY <3>1 DEF InHand, Literal, Near, Far, Found
    <3> QED BY <2>1, <3>1, <3>2
  <2> QED BY <2>1, <2>2, <2>3
<1> QED BY <1>1, <1>2, <1>3, <1>4 DEF TypeOK, CountsInv, MemInv, HandInv

\* The state is of its type: no FIFO overflows, no process overtakes the one
\* before it, and no more positions are skipped than a window has.
THEOREM TypeCorrect == Spec => []TypeOK
BY Invariance, InvTypes, PTL

\* A literal is the byte of its place, a match repeats the bytes its offset
\* points back to: what lzBooster writes says the truth about the input.
THEOREM ItemsAreTrue == Spec => []EveryItemIsTrue
BY Invariance, InvEveryItem, PTL

\* No match is shorter than the encoder can write, none has an offset below
\* MIN_OFFSET, and none reaches into the trailing literals.
THEOREM ItemsFit == Spec => []ItemsFitEncoder
BY Invariance, InvItemsFit, PTL

\* The items stand side by side and cover the input exactly in the end.
THEOREM CoversTheInput == Spec => []InputIsCovered
BY Invariance, InvCovered, PTL

\* The byte the booster compares with was stored MIN_OFFSET iterations ago at
\* least, and is the one match_loc points to.
THEOREM ReadsOldBytes == Spec => []ComparedByteIsOld
BY Invariance, InvComparedByte, PTL
=============================================================================
