------------------------------ MODULE CacheProofs ------------------------------
(***************************************************************************)
(* For every size of the cache, every number of registers, one memory or   *)
(* two, with end flags or without: the answers are what the memory holds.  *)
(* The argument: a valid row holds a line together with its tag, the       *)
(* registers are about lines of the current contents, and row and tag      *)
(* identify the line.  So a hit, wherever its three parts come from, is    *)
(* served the line asked for; the rest is the order of the streams.        *)
(***************************************************************************)
EXTENDS Cache, SequenceTheorems, WellFoundedInduction, TLAPS

Lines == {line(i) : i \in Indexes}
KeySet == {-1} \cup Lines
LineSet == MEMS \X {-1, 0, 1} \X KeySet
Item == LineSet \X Nat
Asked(m, index) == item(ddrMem(line(index)), index % dataOneLine)[m]

\* Is the item in hand still to be written to the stream of memory m?
InHand(m) == \/ pc = "put" /\ w - 1 <= m
             \/ pc = "putflag" /\ w - 1 < m
Held(m) == IF InHand(m) THEN 1 ELSE 0

StreamTypes == /\ addrStrm \in Seq(Indexes)
               /\ dataStrm \in [MEMS -> Seq(Item)] /\ expected \in [MEMS -> Seq(Item)]
               /\ ver \in {0, 1} /\ w \in 1..Streams
               /\ pc \in {"flag", "access"} => w = 1
               /\ InHand(0) \/ InHand(1) => tmp \in [MEMS -> Item]

\* What is expected is what is in the data stream, in hand and in the address stream.
OrderInv(m) ==
    /\ Len(expected[m]) = Len(dataStrm[m]) + Held(m) + Len(addrStrm)
    /\ \A k \in 1..Len(dataStrm[m]) : dataStrm[m][k] = expected[m][k]
    /\ InHand(m) => expected[m][Len(dataStrm[m]) + 1] = tmp[m]
    /\ \A k \in 1..Len(addrStrm) :
          expected[m][Len(dataStrm[m]) + Held(m) + k] = Asked(m, addrStrm[k])

\* A valid row holds a line, of the current contents, and its tag.
RamInv == /\ valid \in [Rows -> BOOLEAN]
          /\ DOMAIN onChipAddr = Rows /\ DOMAIN onChipRam = Rows
          /\ \A r \in Rows : valid[r] =>
                \E k \in Lines : /\ row(k) = r
                                 /\ onChipAddr[r] = tag(k)
                                 /\ onChipRam[r] = ddrMem(k)

\* The registers, while a call runs.
QueInv == \A j \in 1..QUE :
    /\ addrQue[j].k01 = pingQue[j].k01
    /\ addrQue[j].k01 # -1 => /\ addrQue[j].k01 \in Lines
                              /\ addrQue[j].val = tag(addrQue[j].k01)
                              /\ pingQue[j].val = ddrMem(pingQue[j].k01)
    /\ validQue[j].k01 # -1 => /\ validQue[j].k01 \in Lines
                               /\ validQue[j].val = TRUE
                               /\ valid[row(validQue[j].k01)]
QueTypes == /\ validQue \in [1..QUE -> [k01 : Int, val : BOOLEAN]]
            /\ addrQue \in [1..QUE -> [k01 : Int, val : Int]]
            /\ pingQue \in [1..QUE -> [k01 : Int, val : [MEMS -> LineSet]]]

IInv == /\ StreamTypes
        /\ \A m \in MEMS : OrderInv(m)
        /\ RamInv
        /\ QueTypes
        /\ pc # "idle" => QueInv

-----------------------------------------------------------------------------
(* Rows, tags and registers *)

LEMMA DivMod ==
    ASSUME NEW b \in Nat \ {0}, NEW a \in Nat
    PROVE  /\ a \div b \in Nat /\ a % b \in 0..b - 1
           /\ a = b * (a \div b) + (a % b)
  OBVIOUS

LEMMA Constants ==
    /\ ramRow \in Nat \ {0} /\ groupRamPart \in Nat \ {0} /\ dataOneLine \in Nat \ {0}
    /\ TAGS \in Nat \ {0} /\ QUE \in Nat \ {0}
    /\ MEMS \in {{0}, {0, 1}}
  BY SizeAssumption

LEMMA LinesAreNat ==
    ASSUME NEW k \in Lines
    PROVE  /\ k \in Nat /\ k \in KeySet
           /\ row(k) \in Rows
           /\ tag(k) \in 0..TAGS - 1 /\ tag(k) % TAGS = tag(k)
  <1>1. PICK i \in Indexes : k = line(i)
    BY DEF Lines
  <1>2. i \in Nat /\ tag(k) < TAGS
    BY <1>1, AddressAssumption
  <1>3. k \in Nat
    BY <1>1, <1>2, Constants, DivMod DEF line
  <1>4. k \div groupRamPart \in Nat /\ k % groupRamPart \in 0..groupRamPart - 1
    BY <1>3, Constants, DivMod
  <1>5. tag(k) \in Nat /\ (k \div groupRamPart) % ramRow \in 0..ramRow - 1
    BY <1>4, Constants, DivMod DEF tag
  <1>6. tag(k) \in 0..TAGS - 1
    BY <1>2, <1>5, Constants
  <1>7. tag(k) % TAGS = tag(k)
    BY <1>6, Constants
  <1>8. QED
    BY <1>1, <1>3, <1>4, <1>5, <1>6, <1>7 DEF row, Rows, KeySet

\* Row and tag identify the line.
LEMMA RowAndTag ==
    ASSUME NEW a \in Nat, NEW b \in Nat, row(a) = row(b), tag(a) = tag(b)
    PROVE  a = b
  <1> DEFINE qa == a \div groupRamPart
             qb == b \div groupRamPart
  <1>1. qa \in Nat /\ qb \in Nat
    BY Constants, DivMod
  <1>2. qa % ramRow = qb % ramRow /\ a % groupRamPart = b % groupRamPart
    BY DEF row
  <1>3. qa \div ramRow = qb \div ramRow
    BY DEF tag
  <1>4. qa = qb
    <2> HIDE DEF qa, qb
    <2>1. qa = ramRow * (qa \div ramRow) + (qa % ramRow)
      BY <1>1, Constants, DivMod
    <2>2. qb = ramRow * (qb \div ramRow) + (qb % ramRow)
      BY <1>1, Constants, DivMod
    <2>3. QED
      BY <1>2, <1>3, <2>1, <2>2
  <1>5. a = groupRamPart * qa + (a % groupRamPart)
    BY Constants, DivMod
  <1>6. b = groupRamPart * qb + (b % groupRamPart)
    BY Constants, DivMod
  <1> HIDE DEF qa, qb
  <1>7. QED
    BY <1>2, <1>4, <1>5, <1>6

\* A look-up that finds a register returns what one of those about the line holds.
LEMMA RecentFound ==
    ASSUME NEW V, NEW que \in [1..QUE -> V], NEW a, NEW stored, About(que, a) # {}
    PROVE  \E j \in About(que, a) : Recent(que, a, stored) = que[j].val
  <1> DEFINE T == About(que, a)
  <1>1. T \subseteq 1..QUE
    BY DEF About
  <1>2. T \subseteq Nat
    BY <1>1, Constants
  <1>3. T # {}
    OBVIOUS
  <1>4. \E j \in T : \A i \in T : j <= i
    <2> DEFINE R == OpToRel(<, Nat)
    <2>1. IsWellFoundedOn(R, Nat)
      BY NatLessThanWellFounded
    <2>2. \A x, y \in Nat : x < y => <<x, y>> \in R
      BY DEF OpToRel
    <2> HIDE DEF R, T
    <2>3. \E j \in T : \A i \in T : ~(<<i, j>> \in R)
      BY <1>2, <1>3, <2>1, WFMin, Zenon
    <2>4. PICK j \in T : \A i \in T : ~(<<i, j>> \in R)
      BY <2>3
    <2>5. ASSUME NEW i \in T PROVE j <= i
      <3>1. i \in Nat /\ j \in Nat /\ ~(i < j)
        BY <1>2, <2>2, <2>4
      <3>2. QED
        BY <3>1
    <2>6. QED
      BY <2>5
  <1>5. PICK j \in T : j = CHOOSE n \in T : \A i \in T : n <= i
    BY <1>4
  <1>6. Recent(que, a, stored) = que[j].val
    BY <1>5 DEF Recent
  <1>7. QED
    BY <1>6

\* A line whose validity is looked up and found has a valid row.
LEMMA ValidLooked ==
    ASSUME QueTypes, QueInv, NEW k \in Lines, Recent(validQue, k, valid[row(k)])
    PROVE  valid[row(k)]
  <1>1. k # -1
    BY LinesAreNat
  <1>2. CASE About(validQue, k) = {}
    BY <1>2 DEF Recent
  <1>3. CASE About(validQue, k) # {}
    <2>1. DOMAIN validQue = 1..QUE
      BY DEF QueTypes
    <2>2. PICK j \in 1..QUE : validQue[j].k01 = k
      BY <1>3, <2>1 DEF About
    <2>3. QED
      BY <1>1, <2>2 DEF QueInv
  <1>4. QED
    BY <1>2, <1>3

\* A hit is served the line asked for, from wherever its parts come.
LEMMA Served ==
    ASSUME RamInv, QueTypes, QueInv, NEW k \in Lines, Hit(k)
    PROVE  Recent(pingQue, k, onChipRam[row(k)]) = ddrMem(k)
  <1>1. k \in Nat /\ k # -1 /\ row(k) \in Rows
    BY LinesAreNat
  <1>2. DOMAIN addrQue = 1..QUE /\ DOMAIN pingQue = 1..QUE
    BY DEF QueTypes
  <1>3. valid[row(k)]
    BY ValidLooked DEF Hit
  <1>4. PICK held \in Lines : /\ row(held) = row(k)
                              /\ onChipAddr[row(k)] = tag(held)
                              /\ onChipRam[row(k)] = ddrMem(held)
    BY <1>1, <1>3 DEF RamInv
  <1>5. CASE About(pingQue, k) = {}
    <2>1. About(addrQue, k) = {}
      BY <1>2, <1>5 DEF About, QueInv
    <2>2. tag(held) = tag(k)
      BY <1>4, <2>1 DEF Hit, Recent
    <2>3. held = k
      BY <1>1, <1>4, <2>2, LinesAreNat, RowAndTag
    <2>4. QED
      BY <1>4, <1>5, <2>3 DEF Recent
  <1>6. CASE About(pingQue, k) # {}
    <2>1. PICK j \in About(pingQue, k) :
                Recent(pingQue, k, onChipRam[row(k)]) = pingQue[j].val
      <3> DEFINE V == [k01 : Int, val : [MEMS -> LineSet]]
      <3>1. pingQue \in [1..QUE -> V]
        BY DEF QueTypes
      <3> HIDE DEF V
      <3>2. QED
        BY <1>6, <3>1, RecentFound
    <2>2. j \in 1..QUE /\ pingQue[j].k01 = k
      BY <1>2 DEF About
    <2>3. QED
      BY <1>1, <2>1, <2>2 DEF QueInv
  <1>7. QED
    BY <1>5, <1>6

-----------------------------------------------------------------------------
(* What the steps leave alone *)

LEMMA Memories == /\ MEMS = 0..Streams - 1 /\ Streams \in {1, 2}
                  /\ \A n \in 1..Streams : n - 1 \in MEMS
  <1>1. CASE MEMS = {0}
    BY <1>1 DEF Streams
  <1>2. CASE MEMS = {0, 1}
    <2>1. MEMS # {0}
      BY <1>2
    <2>2. QED
      BY <1>2, <2>1 DEF Streams
  <1>3. QED
    BY <1>1, <1>2, Constants

\* The order of a memory's streams, when none of them is touched.
LEMMA OrderUntouched ==
    ASSUME NEW m \in MEMS, OrderInv(m), InHand(m)' <=> InHand(m),
           dataStrm'[m] = dataStrm[m], expected'[m] = expected[m],
           UNCHANGED <<ver, tmp, addrStrm>>
    PROVE  OrderInv(m)'
  <1>1. Held(m)' = Held(m) /\ \A i : Asked(m, i)' = Asked(m, i)
    BY DEF Held, Asked, ddrMem, item
  <1>2. QED
    BY <1>1 DEF OrderInv

LEMMA RamUntouched ==
    ASSUME RamInv, UNCHANGED <<ver, ramVars>>
    PROVE  RamInv'
  BY DEF RamInv, ramVars, ddrMem

LEMMA QueUntouched ==
    ASSUME QueTypes, UNCHANGED <<ver, ramVars, queVars>>
    PROVE  QueTypes' /\ (QueInv => QueInv')
  BY DEF QueTypes, QueInv, queVars, ramVars, ddrMem

\* The item an address asks for.
LEMMA AskedItem ==
    ASSUME NEW m \in MEMS, NEW index \in Indexes, ver \in {0, 1}
    PROVE  /\ Asked(m, index) \in Item
           /\ line(index) \in Lines
           /\ ddrMem(line(index)) \in [MEMS -> LineSet]
  <1>1. line(index) \in Lines
    BY DEF Lines
  <1>2. line(index) \in KeySet
    BY <1>1, LinesAreNat
  <1>3. ddrMem(line(index)) \in [MEMS -> LineSet]
    BY <1>2 DEF ddrMem, LineSet
  <1>4. index % dataOneLine \in Nat
    BY AddressAssumption, Constants, DivMod
  <1>5. QED
    BY <1>1, <1>3, <1>4 DEF Asked, item, Item

-----------------------------------------------------------------------------
(* The host *)

LEMMA InitStep == Init => IInv
  <1> SUFFICES ASSUME Init PROVE IInv
    OBVIOUS
  <1> USE DEF Init
  <1>1. StreamTypes
    BY Memories DEF StreamTypes, InHand
  <1>2. ASSUME NEW m \in MEMS PROVE OrderInv(m)
    BY DEF OrderInv, Held, InHand
  <1>3. RamInv
    BY DEF RamInv
  <1>4. QueTypes
    BY DEF QueTypes, EmptyQue, NoLine, LineSet, KeySet
  <1>5. QED
    BY <1>1, <1>2, <1>3, <1>4 DEF IInv

LEMMA ReinitialiseStep == IInv /\ Reinitialise => IInv'
  <1> SUFFICES ASSUME IInv, Reinitialise PROVE IInv'
    OBVIOUS
  <1> USE DEF IInv, Reinitialise, hostVars, askVars, loopVars, dataVars, queVars
  <1>1. StreamTypes'
    BY DEF StreamTypes, InHand
  <1>2. ASSUME NEW m \in MEMS PROVE OrderInv(m)'
    <2>1. addrStrm = <<>> /\ dataStrm[m] = <<>> /\ ~InHand(m) /\ ~InHand(m)'
      BY DEF Drained, InHand
    <2>2. OrderInv(m)
      OBVIOUS
    <2>3. QED
      BY <2>1, <2>2 DEF OrderInv, Held
  <1>3. RamInv'
    BY DEF RamInv
  <1>4. QueTypes' /\ pc' = "idle"
    BY DEF QueTypes
  <1>5. QED
    BY <1>1, <1>2, <1>3, <1>4

LEMMA CallStep ==
    ASSUME IInv, NEW cnt \in 0..MaxReads, Call(cnt)
    PROVE  IInv'
  <1> USE DEF IInv, Call, ramVars, dataVars
  <1>1. StreamTypes'
    BY DEF StreamTypes, InHand
  <1>2. ASSUME NEW m \in MEMS PROVE OrderInv(m)'
    BY <1>2, OrderUntouched DEF InHand
  <1>3. RamInv'
    BY RamUntouched
  <1>4. QueTypes' /\ QueInv'
    BY DEF QueTypes, QueInv, FreshQues, EmptyQue, NoLine, LineSet, KeySet
  <1>5. QED
    BY <1>1, <1>2, <1>3, <1>4

-----------------------------------------------------------------------------
(* The process that asks *)

LEMMA AskAddrStep == IInv /\ AskAddr => IInv'
  <1> SUFFICES ASSUME IInv, AskAddr PROVE IInv'
    OBVIOUS
  <1> USE DEF IInv
  <1>1. PICK index \in Indexes :
           /\ addrStrm' = Append(addrStrm, index)
           /\ expected' = [m \in MEMS |-> Append(expected[m], Asked(m, index))]
    BY DEF AskAddr, Asked
  <1>2. UNCHANGED <<ver, loopVars, ramVars, queVars, dataStrm>>
    BY DEF hostVars, AskAddr
  <1>3. addrStrm \in Seq(Indexes) /\ addrStrm' \in Seq(Indexes)
    BY <1>1 DEF StreamTypes
  <1>4. \A m \in MEMS : expected[m] \in Seq(Item) /\ Asked(m, index) \in Item
    BY AskedItem DEF StreamTypes
  <1>5. StreamTypes'
    BY <1>1, <1>2, <1>3, <1>4 DEF StreamTypes, InHand, loopVars
  <1>6. ASSUME NEW m \in MEMS PROVE OrderInv(m)'
    <2> DEFINE x == expected[m]
               a == addrStrm
    <2>1. x \in Seq(Item) /\ a \in Seq(Indexes)
      BY <1>3, <1>4
    <2>2. dataStrm[m] \in Seq(Item)
      BY DEF StreamTypes
    <2>3. /\ expected'[m] = Append(x, Asked(m, index)) /\ addrStrm' = Append(a, index)
          /\ dataStrm' = dataStrm /\ tmp' = tmp
          /\ InHand(m)' <=> InHand(m)
          /\ \A i : Asked(m, i)' = Asked(m, i)
      BY <1>1, <1>2 DEF InHand, loopVars, Asked, ddrMem, item
    <2>4. OrderInv(m) /\ Held(m) \in {0, 1} /\ Held(m)' = Held(m)
      BY <2>3 DEF Held
    <2>5. /\ Len(x) = Len(dataStrm[m]) + Held(m) + Len(a)
          /\ \A k \in 1..Len(dataStrm[m]) : dataStrm[m][k] = x[k]
          /\ InHand(m) => x[Len(dataStrm[m]) + 1] = tmp[m]
          /\ \A k \in 1..Len(a) : x[Len(dataStrm[m]) + Held(m) + k] = Asked(m, a[k])
      BY <2>4 DEF OrderInv
    <2>6. InHand(m) => Held(m) = 1
      BY DEF Held
    <2> DEFINE y == Asked(m, index)
               n == Len(dataStrm[m])
               h == Held(m)
    <2>7. n \in Nat /\ h \in {0, 1} /\ Len(a) \in Nat /\ Len(x) = n + h + Len(a)
      BY <2>1, <2>2, <2>4, <2>5
    <2>8. /\ Len(Append(x, y)) = Len(x) + 1 /\ Append(x, y)[Len(x) + 1] = y
          /\ \A k \in 1..Len(x) : Append(x, y)[k] = x[k]
          /\ Len(Append(a, index)) = Len(a) + 1 /\ Append(a, index)[Len(a) + 1] = index
          /\ \A k \in 1..Len(a) : Append(a, index)[k] = a[k]
      BY <1>4, <2>1, AppendProperties
    <2>9. \A k \in 1..Len(a) : x[n + h + k] = Asked(m, a[k])
      BY <2>5
    <2> HIDE DEF x, a, y, n, h
    <2>10. /\ Len(Append(x, y)) = n + h + Len(Append(a, index))
           /\ \A k \in 1..n + h : Append(x, y)[k] = x[k]
      BY <2>7, <2>8
    <2>11. ASSUME NEW k \in 1..Len(Append(a, index))
           PROVE  Append(x, y)[n + h + k] = Asked(m, Append(a, index)[k])
      <3>1. CASE k = Len(a) + 1
        BY <2>7, <2>8, <3>1 DEF y
      <3>2. CASE k \in 1..Len(a)
        <4>1. n + h + k \in 1..Len(x)
          BY <2>7, <3>2
        <4>2. QED
          BY <2>8, <2>9, <3>2, <4>1
      <3>3. QED
        BY <2>7, <2>8, <3>1, <3>2
    <2>12. /\ \A k \in 1..n : dataStrm[m][k] = Append(x, y)[k]
           /\ InHand(m) => Append(x, y)[n + 1] = tmp[m]
      <3>1. \A k \in 1..n : dataStrm[m][k] = x[k] /\ k \in 1..n + h
        BY <2>5, <2>7 DEF n
      <3>2. InHand(m) => x[n + 1] = tmp[m] /\ n + 1 \in 1..n + h
        BY <2>5, <2>6, <2>7 DEF n, h
      <3>3. QED
        BY <2>10, <3>1, <3>2
    <2>13. QED
      BY <2>3, <2>4, <2>10, <2>11, <2>12 DEF OrderInv, x, a, y, n, h
  <1>7. QED
    BY <1>2, <1>5, <1>6, RamUntouched, QueUntouched DEF loopVars

\* Steps that touch flags only.
LEMMA FlagStep ==
    ASSUME IInv, UNCHANGED <<ver, tmp, addrStrm, dataStrm, expected, ramVars, queVars>>,
           \/ pc' = pc /\ w' = w
           \/ /\ pc \notin {"idle", "put", "putflag"} /\ pc' \notin {"put", "putflag"}
              /\ w' \in 1..Streams /\ (pc' \in {"flag", "access"} => w' = 1)
    PROVE  IInv'
  <1> USE DEF IInv
  <1>1. \A m : InHand(m)' <=> InHand(m)
    BY DEF InHand
  <1>2. StreamTypes'
    BY <1>1 DEF StreamTypes
  <1>3. ASSUME NEW m \in MEMS PROVE OrderInv(m)'
    BY <1>1, OrderUntouched
  <1>4. RamInv'
    BY RamUntouched
  <1>5. QueTypes' /\ (pc' # "idle" => QueInv')
    BY QueUntouched
  <1>6. QED
    BY <1>2, <1>3, <1>4, <1>5

-----------------------------------------------------------------------------
(* An access *)

LEMMA PushType ==
    ASSUME NEW V, NEW que \in [1..QUE -> V], NEW k, NEW v, [k01 |-> k, val |-> v] \in V
    PROVE  Push(que, k, v) \in [1..QUE -> V]
  BY Constants DEF Push

\* The access of line k: it is served that line, row and registers follow.
LEMMA Looked ==
    ASSUME RamInv, QueTypes, QueInv, ver \in {0, 1}, NEW k \in Lines, NEW k00,
           ver' = ver, ddrMem(k) \in [MEMS -> LineSet],
           Serve(k, k00),
           IF Recent(validQue, k, valid[row(k)]) THEN UNCHANGED <<valid, validQue>>
           ELSE /\ valid' = [valid EXCEPT ![row(k)] = TRUE]
                /\ validQue' = Push(validQue, k, TRUE)
    PROVE  tmp' = item(ddrMem(k), k00) /\ RamInv' /\ QueTypes' /\ QueInv'
  <1>1. /\ k \in Nat /\ k # -1 /\ row(k) \in Rows
        /\ tag(k) \in Int /\ tag(k) % TAGS = tag(k)
    BY LinesAreNat
  <1>2. tmp' = item(ddrMem(k), k00)
    BY Served DEF Serve
  <1>3. \A j : ddrMem(j)' = ddrMem(j)
    BY DEF ddrMem
  <1>4. /\ valid' \in [Rows -> BOOLEAN] /\ valid'[row(k)]
        /\ \A r \in Rows : r # row(k) => valid'[r] = valid[r]
    BY <1>1, ValidLooked DEF RamInv
  <1>5. CASE Hit(k)
    <2>1. UNCHANGED <<valid, validQue, onChipAddr, onChipRam, addrQue, pingQue>>
      BY <1>5 DEF Serve, Hit
    <2>2. RamInv'
      BY <1>3, <2>1 DEF RamInv
    <2>3. QueTypes' /\ QueInv'
      BY <1>3, <2>1 DEF QueTypes, QueInv
    <2>4. QED
      BY <1>2, <2>2, <2>3
  <1>6. CASE ~Hit(k)
    <2>1. /\ onChipRam' = [onChipRam EXCEPT ![row(k)] = ddrMem(k)]
          /\ pingQue' = Push(pingQue, k, ddrMem(k))
          /\ onChipAddr' = [onChipAddr EXCEPT ![row(k)] = tag(k)]
          /\ addrQue' = Push(addrQue, k, tag(k))
      BY <1>1, <1>6 DEF Serve
    <2>2. RamInv'
      <3>1. DOMAIN onChipAddr' = Rows /\ DOMAIN onChipRam' = Rows
        BY <2>1 DEF RamInv
      <3>2. ASSUME NEW r \in Rows, valid'[r]
            PROVE  \E held \in Lines : /\ row(held) = r
                                       /\ onChipAddr'[r] = tag(held)
                                       /\ onChipRam'[r] = ddrMem(held)
        <4>1. CASE r = row(k)
          BY <1>1, <2>1, <4>1 DEF RamInv
        <4>2. CASE r # row(k)
          <5>1. valid[r] /\ onChipAddr'[r] = onChipAddr[r] /\ onChipRam'[r] = onChipRam[r]
            BY <1>4, <2>1, <3>2, <4>2 DEF RamInv
          <5>2. QED
            BY <5>1 DEF RamInv
        <4>3. QED
          BY <4>1, <4>2
      <3>3. QED
        BY <1>3, <1>4, <3>1, <3>2 DEF RamInv
    <2>3. QueTypes'
      <3> DEFINE VB == [k01 : Int, val : BOOLEAN]
                 VI == [k01 : Int, val : Int]
                 VL == [k01 : Int, val : [MEMS -> LineSet]]
      <3>0. /\ [k01 |-> k, val |-> TRUE] \in VB
            /\ [k01 |-> k, val |-> tag(k)] \in VI
            /\ [k01 |-> k, val |-> ddrMem(k)] \in VL
            /\ validQue \in [1..QUE -> VB] /\ addrQue \in [1..QUE -> VI] /\ pingQue \in [1..QUE -> VL]
        BY <1>1 DEF QueTypes
      <3> HIDE DEF VB, VI, VL
      <3>1. validQue' \in [1..QUE -> VB]
        <4>1. validQue' = validQue \/ validQue' = Push(validQue, k, TRUE)
          OBVIOUS
        <4>2. Push(validQue, k, TRUE) \in [1..QUE -> VB]
          BY <3>0, PushType
        <4>3. QED
          BY <3>0, <4>1, <4>2
      <3>2. addrQue' \in [1..QUE -> VI]
        BY <2>1, <3>0, PushType
      <3>3. pingQue' \in [1..QUE -> VL]
        BY <2>1, <3>0, PushType
      <3>4. QED
        BY <3>1, <3>2, <3>3 DEF QueTypes, VB, VI, VL
    <2>4. ASSUME NEW j \in 1..QUE
          PROVE  /\ addrQue'[j].k01 = pingQue'[j].k01
                 /\ addrQue'[j].k01 # -1 => /\ addrQue'[j].k01 \in Lines
                                            /\ addrQue'[j].val = tag(addrQue'[j].k01)
                                            /\ pingQue'[j].val = ddrMem(pingQue'[j].k01)
      <3>1. CASE j = 1
        BY <2>1, <3>1 DEF Push
      <3>2. CASE j # 1
        <4>1. j - 1 \in 1..QUE /\ addrQue'[j] = addrQue[j - 1] /\ pingQue'[j] = pingQue[j - 1]
          BY <2>1, <3>2, Constants DEF Push
        <4>2. QED
          BY <4>1 DEF QueInv
      <3>3. QED
        BY <3>1, <3>2
    <2>5. ASSUME NEW j \in 1..QUE, validQue'[j].k01 # -1
          PROVE  /\ validQue'[j].k01 \in Lines /\ validQue'[j].val = TRUE
                 /\ valid'[row(validQue'[j].k01)]
      <3>1. ASSUME NEW a \in Lines, valid[row(a)] PROVE valid'[row(a)]
        <4>1. row(a) \in Rows
          BY LinesAreNat
        <4>2. QED
          BY <1>4, <3>1, <4>1
      <3>2. CASE validQue' = validQue
        BY <2>5, <3>1, <3>2 DEF QueInv
      <3>3. CASE validQue' = Push(validQue, k, TRUE) /\ j = 1
        BY <1>4, <3>3 DEF Push
      <3>4. CASE validQue' = Push(validQue, k, TRUE) /\ j # 1
        <4>1. j - 1 \in 1..QUE /\ validQue'[j] = validQue[j - 1]
          BY <3>4, Constants DEF Push
        <4>2. QED
          BY <2>5, <3>1, <4>1 DEF QueInv
      <3>5. QED
        BY <3>2, <3>3, <3>4
    <2>6. QueInv'
      BY <1>3, <2>4, <2>5 DEF QueInv
    <2>7. QED
      BY <1>2, <2>2, <2>3, <2>6
  <1>7. QED
    BY <1>5, <1>6

LEMMA AccessStep == IInv /\ Access => IInv'
  <1> SUFFICES ASSUME IInv, Access PROVE IInv'
    OBVIOUS
  <1> USE DEF IInv
  <1> DEFINE index == Head(addrStrm)
  <1>1. /\ addrStrm \in Seq(Indexes) /\ addrStrm # <<>>
        /\ index \in Indexes /\ addrStrm' = Tail(addrStrm) /\ addrStrm' \in Seq(Indexes)
        /\ Len(Tail(addrStrm)) = Len(addrStrm) - 1
        /\ \A k \in 1..Len(Tail(addrStrm)) : Tail(addrStrm)[k] = addrStrm[k + 1]
        /\ addrStrm[1] = index
    BY HeadTailProperties DEF Access, StreamTypes
  <1>2. /\ pc = "access" /\ pc' = "put" /\ w' = 1
        /\ UNCHANGED <<ver, dataStrm, expected>> /\ ver \in {0, 1}
    BY DEF hostVars, Access, dataVars, StreamTypes
  <1>3. /\ line(index) \in Lines
        /\ ddrMem(line(index)) \in [MEMS -> LineSet]
        /\ \A m \in MEMS : Asked(m, index) \in Item
    <2>1. index \in Indexes /\ ver \in {0, 1}
      BY <1>1, <1>2
    <2> HIDE DEF index
    <2>2. QED
      BY <2>1, AskedItem, Memories
  <1>4. /\ tmp' = item(ddrMem(line(index)), index % dataOneLine)
        /\ RamInv' /\ QueTypes' /\ QueInv'
    <2>1. Serve(line(index), index % dataOneLine)
      BY DEF Access
    <2>2. IF Recent(validQue, line(index), valid[row(line(index))]) THEN UNCHANGED <<valid, validQue>>
          ELSE /\ valid' = [valid EXCEPT ![row(line(index))] = TRUE]
               /\ validQue' = Push(validQue, line(index), TRUE)
      BY DEF Access
    <2>3. QueInv
      BY <1>2
    <2> HIDE DEF index
    <2>4. QED
      BY <1>2, <1>3, <2>1, <2>2, <2>3, Looked
  <1>5. /\ \A m \in MEMS : tmp'[m] = Asked(m, index)
        /\ tmp' \in [MEMS -> Item]
    <2>1. \A m \in MEMS : tmp'[m] = Asked(m, index)
      BY <1>4 DEF Asked
    <2>2. tmp' = [m \in MEMS |-> tmp'[m]]
      BY <1>4 DEF item
    <2> HIDE DEF index
    <2>3. QED
      BY <1>3, <2>1, <2>2
  <1>6. StreamTypes'
    BY <1>1, <1>2, <1>5, Memories DEF StreamTypes
  <1>7. ASSUME NEW m \in MEMS PROVE OrderInv(m)'
    <2>1. ~InHand(m) /\ InHand(m)' /\ Held(m) = 0 /\ Held(m)' = 1
      BY <1>2, Memories DEF InHand, Held
    <2> DEFINE n == Len(dataStrm[m])
               l == Len(addrStrm)
               x == expected[m]
               t == Tail(addrStrm)
    <2>2. n \in Nat /\ l \in Nat /\ l > 0 /\ Len(t) = l - 1
      BY <1>1 DEF StreamTypes
    <2>3. /\ Len(x) = n + l
          /\ \A k \in 1..n : dataStrm[m][k] = x[k]
          /\ \A k \in 1..l : x[n + k] = Asked(m, addrStrm[k])
      BY <2>1, <2>2 DEF OrderInv
    <2>4. addrStrm[1] = index /\ \A k \in 1..Len(t) : t[k] = addrStrm[k + 1]
      BY <1>1
    <2>5. \A i : Asked(m, i)' = Asked(m, i)
      BY <1>2 DEF Asked, ddrMem, item
    <2>6. tmp'[m] = Asked(m, index)
      BY <1>5
    <2>7. /\ addrStrm' = t /\ dataStrm' = dataStrm /\ expected' = expected
      BY <1>1, <1>2
    <2> HIDE DEF index, n, l, x, t
    <2>8. Len(x) = n + 1 + Len(t) /\ x[n + 1] = tmp'[m]
      BY <2>2, <2>3, <2>4, <2>6
    <2>9. ASSUME NEW k \in 1..Len(t)
          PROVE  x[n + 1 + k] = Asked(m, t[k])
      <3>1. k + 1 \in 1..l /\ n + 1 + k = n + (k + 1)
        BY <2>2
      <3>2. QED
        BY <2>3, <2>4, <3>1
    <2>10. QED
      BY <2>1, <2>3, <2>5, <2>7, <2>8, <2>9 DEF OrderInv, n, x, t
  <1>8. QED
    BY <1>4, <1>6, <1>7

-----------------------------------------------------------------------------
(* The answers *)

LEMMA PutItemStep == IInv /\ PutItem => IInv'
  <1> SUFFICES ASSUME IInv, PutItem PROVE IInv'
    OBVIOUS
  <1> USE DEF IInv
  <1>0. w \in 1..Streams
    BY DEF StreamTypes
  <1>a. PICK p \in MEMS : p = w - 1
    BY <1>0, Memories
  <1>1. /\ p \in MEMS /\ p = w - 1 /\ pc = "put" /\ InHand(p) /\ p \in Int /\ w \in 1..Streams
        /\ dataStrm' = [dataStrm EXCEPT ![p] = Append(@, tmp[p])]
        /\ UNCHANGED <<ver, addrStrm, tmp, expected>>
    BY <1>0, <1>a, Memories DEF PutItem, InHand, hostVars, askVars
  <1>2. /\ ~InHand(p)'
        /\ \A m \in MEMS : m # p => (InHand(m)' <=> InHand(m))
        /\ pc' \notin {"idle", "flag", "access"} /\ w' \in 1..Streams
    <2>1. CASE withEnd
      <3>1. pc' = "putflag" /\ w' = w
        BY <2>1 DEF PutItem
      <3>2. QED
        BY <1>1, <3>1, Memories DEF InHand
    <2>2. CASE ~withEnd /\ w < Streams
      <3>1. pc' = pc /\ w' = w + 1
        BY <2>2 DEF PutItem
      <3>2. QED
        BY <1>1, <2>2, <3>1, Memories DEF InHand
    <2>3. CASE ~withEnd /\ ~(w < Streams)
      <3>1. pc' = "loop" /\ w' = w /\ w = Streams
        BY <1>1, <2>3, Memories DEF PutItem
      <3>2. \A m \in MEMS : ~InHand(m)'
        BY <3>1 DEF InHand
      <3>3. \A m \in MEMS : m # p => ~InHand(m)
        BY <1>1, <3>1, Memories DEF InHand
      <3>4. QED
        BY <1>1, <3>1, <3>2, <3>3
    <2>4. QED
      BY <2>1, <2>2, <2>3
  <1>3. tmp \in [MEMS -> Item]
    <2>1. InHand(0) \/ InHand(1)
      BY <1>1, Memories DEF InHand
    <2>2. QED
      BY <2>1 DEF StreamTypes
  <1>4. StreamTypes'
    <2>0. dataStrm \in [MEMS -> Seq(Item)]
      BY DEF StreamTypes
    <2>1. Append(dataStrm[p], tmp[p]) \in Seq(Item)
      BY <1>1, <1>3, <2>0, AppendProperties
    <2>2. dataStrm' \in [MEMS -> Seq(Item)]
      BY <1>1, <2>0, <2>1
    <2>3. QED
      BY <1>1, <1>2, <1>3, <2>2 DEF StreamTypes
  <1>5. ASSUME NEW m \in MEMS PROVE OrderInv(m)'
    <2>1. CASE m # p
      <3>1. dataStrm'[m] = dataStrm[m] /\ (InHand(m)' <=> InHand(m))
        BY <1>1, <1>2, <2>1 DEF StreamTypes
      <3>2. expected'[m] = expected[m]
        BY <1>1
      <3>3. QED
        BY <1>1, <3>1, <3>2, OrderUntouched
    <2>2. CASE m = p
      <3> DEFINE n == Len(dataStrm[m])
                 d == dataStrm[m]
                 x == expected[m]
                 y == tmp[m]
      <3>1. d \in Seq(Item) /\ y \in Item /\ n \in Nat /\ Len(addrStrm) \in Nat
        BY <1>3 DEF StreamTypes
      <3>2. /\ dataStrm'[m] = Append(d, y) /\ Held(m) = 1 /\ Held(m)' = 0 /\ ~InHand(m)'
        <4>1. dataStrm \in [MEMS -> Seq(Item)]
          BY DEF StreamTypes
        <4>2. dataStrm'[m] = Append(d, y)
          BY <1>1, <2>2, <4>1
        <4>3. InHand(m) /\ ~InHand(m)'
          BY <1>1, <1>2, <2>2
        <4>4. QED
          BY <4>2, <4>3 DEF Held
      <3>3. /\ Len(x) = n + 1 + Len(addrStrm)
            /\ \A k \in 1..n : d[k] = x[k]
            /\ x[n + 1] = y
            /\ \A k \in 1..Len(addrStrm) : x[n + 1 + k] = Asked(m, addrStrm[k])
        <4>1. OrderInv(m) /\ InHand(m)
          BY <1>1, <2>2
        <4>2. QED
          BY <3>2, <4>1 DEF OrderInv
      <3>4. \A i : Asked(m, i)' = Asked(m, i)
        BY <1>1 DEF Asked, ddrMem, item
      <3>5. /\ Len(Append(d, y)) = n + 1 /\ Append(d, y)[n + 1] = y
            /\ \A k \in 1..n : Append(d, y)[k] = d[k]
        BY <3>1, AppendProperties
      <3>6. expected' = expected /\ addrStrm' = addrStrm
        BY <1>1
      <3> HIDE DEF n, d, x, y
      <3>7. \A k \in 1..Len(Append(d, y)) : Append(d, y)[k] = x[k]
        BY <3>1, <3>3, <3>5
      <3>8. \A k \in 1..Len(addrStrm) : x[Len(Append(d, y)) + 0 + k] = Asked(m, addrStrm[k])
        <4>1. Len(Append(d, y)) + 0 = n + 1
          BY <3>1, <3>5
        <4>2. QED
          BY <3>3, <4>1
      <3>9. Len(x) = Len(Append(d, y)) + 0 + Len(addrStrm)
        BY <3>1, <3>3, <3>5
      <3>10. QED
        BY <3>2, <3>4, <3>6, <3>7, <3>8, <3>9 DEF OrderInv, x
    <2>3. QED
      BY <2>1, <2>2
  <1>6. RamInv'
    BY RamUntouched DEF hostVars, PutItem
  <1>7. QueTypes' /\ QueInv'
    BY <1>1, QueUntouched DEF PutItem
  <1>8. QED
    BY <1>4, <1>5, <1>6, <1>7

LEMMA PutFlagStep == IInv /\ PutFlag => IInv'
  <1> SUFFICES ASSUME IInv, PutFlag PROVE IInv'
    OBVIOUS
  <1> USE DEF IInv
  <1>1. /\ pc = "putflag" /\ w \in 1..Streams
        /\ UNCHANGED <<ver, addrStrm, tmp, expected, dataStrm>>
    BY DEF PutFlag, StreamTypes, hostVars, askVars
  <1>2. /\ \A m \in MEMS : InHand(m)' <=> InHand(m)
        /\ pc' \notin {"idle", "flag", "access"} /\ w' \in 1..Streams
    BY <1>1, Memories DEF PutFlag, InHand
  <1>3. StreamTypes'
    <2>1. InHand(0)' \/ InHand(1)' => InHand(0) \/ InHand(1)
      BY <1>1, Memories DEF PutFlag, InHand
    <2>2. QED
      BY <1>1, <1>2, <2>1 DEF StreamTypes
  <1>4. ASSUME NEW m \in MEMS PROVE OrderInv(m)'
    BY <1>1, <1>2, OrderUntouched
  <1>5. RamInv'
    BY RamUntouched DEF hostVars, PutFlag
  <1>6. QueTypes' /\ QueInv'
    BY <1>1, QueUntouched DEF PutFlag
  <1>7. QED
    BY <1>2, <1>3, <1>4, <1>5, <1>6

LEMMA TakeItemStep ==
    ASSUME IInv, NEW p \in MEMS, TakeItem(p)
    PROVE  IInv'
  <1> USE DEF IInv
  <1>1. /\ dataStrm' = [dataStrm EXCEPT ![p] = Tail(@)]
        /\ expected' = [expected EXCEPT ![p] = Tail(@)]
        /\ dataStrm[p] # <<>>
        /\ UNCHANGED <<ver, addrStrm, tmp, pc, w, ramVars, queVars>>
    BY DEF TakeItem, hostVars, askVars, loopVars
  <1>2. \A m : InHand(m)' <=> InHand(m)
    BY <1>1 DEF InHand
  <1> DEFINE d == dataStrm[p]
             x == expected[p]
             n == Len(d)
             l == Len(addrStrm)
             h == Held(p)
  <1>3. d \in Seq(Item) /\ x \in Seq(Item) /\ d # <<>> /\ n \in Nat /\ n > 0 /\ l \in Nat /\ h \in {0, 1}
    BY <1>1 DEF StreamTypes, Held
  <1>4. /\ Len(x) = n + h + l
        /\ \A k \in 1..n : d[k] = x[k]
        /\ InHand(p) => x[n + 1] = tmp[p]
        /\ \A k \in 1..l : x[n + h + k] = Asked(p, addrStrm[k])
    BY DEF OrderInv
  <1>5. InHand(p) => h = 1
    BY DEF Held
  <1>6. /\ Tail(d) \in Seq(Item) /\ Len(Tail(d)) = n - 1
        /\ \A k \in 1..n - 1 : Tail(d)[k] = d[k + 1]
    <2> HIDE DEF d
    <2>1. QED
      BY <1>3, HeadTailProperties
  <1>7. /\ Tail(x) \in Seq(Item) /\ Len(Tail(x)) = n - 1 + h + l
        /\ \A k \in 1..n - 1 + h + l : Tail(x)[k] = x[k + 1]
    <2> HIDE DEF d, x, n, l, h
    <2>1. x # <<>> /\ Len(x) = n + h + l
      BY <1>3, <1>4
    <2>2. QED
      BY <1>3, <2>1, HeadTailProperties
  <1>8. StreamTypes'
    BY <1>1, <1>2, <1>6, <1>7 DEF StreamTypes
  <1>9. OrderInv(p)'
    <2>1. /\ dataStrm'[p] = Tail(d) /\ expected'[p] = Tail(x) /\ Held(p)' = h
          /\ tmp' = tmp /\ addrStrm' = addrStrm
          /\ \A i : Asked(p, i)' = Asked(p, i)
      BY <1>1, <1>2 DEF StreamTypes, Held, Asked, ddrMem, item
    <2>2. l = Len(addrStrm)
      OBVIOUS
    <2> HIDE DEF d, x, n, l, h
    <2>3. \A k \in 1..n - 1 : Tail(d)[k] = Tail(x)[k]
      <3>1. ASSUME NEW k \in 1..n - 1 PROVE Tail(d)[k] = Tail(x)[k]
        <4>1. k + 1 \in 1..n /\ k \in 1..n - 1 + h + l
          BY <1>3
        <4>2. QED
          BY <1>4, <1>6, <1>7, <4>1
      <3>2. QED
        BY <3>1
    <2>4. InHand(p) => Tail(x)[n - 1 + 1] = tmp[p]
      <3>1. SUFFICES ASSUME InHand(p) PROVE Tail(x)[n - 1 + 1] = tmp[p]
        OBVIOUS
      <3>2. n - 1 + 1 = n /\ n \in 1..n - 1 + h + l
        BY <1>3, <1>5, <3>1
      <3>3. QED
        BY <1>4, <1>7, <3>1, <3>2
    <2>5. \A k \in 1..l : Tail(x)[n - 1 + h + k] = Asked(p, addrStrm[k])
      <3>1. ASSUME NEW k \in 1..l PROVE Tail(x)[n - 1 + h + k] = Asked(p, addrStrm[k])
        <4>1. n - 1 + h + k \in 1..n - 1 + h + l /\ n - 1 + h + k + 1 = n + h + k
          BY <1>3
        <4>2. QED
          BY <1>4, <1>7, <4>1
      <3>2. QED
        BY <3>1
    <2>6. /\ Len(Tail(x)) = Len(Tail(d)) + h + l
          /\ Len(Tail(d)) = n - 1
      BY <1>3, <1>6, <1>7
    <2>7. InHand(p)' <=> InHand(p)
      BY <1>2
    <2>8. /\ Len(expected'[p]) = Len(dataStrm'[p]) + Held(p)' + Len(addrStrm')
          /\ \A k \in 1..Len(dataStrm'[p]) : dataStrm'[p][k] = expected'[p][k]
          /\ \A k \in 1..Len(addrStrm') :
                expected'[p][Len(dataStrm'[p]) + Held(p)' + k] = Asked(p, addrStrm[k])'
      BY <2>1, <2>2, <2>3, <2>5, <2>6
    <2>9. InHand(p)' => expected'[p][Len(dataStrm'[p]) + 1] = tmp'[p]
      BY <2>1, <2>4, <2>6, <2>7
    <2>10. QED
      BY <2>8, <2>9 DEF OrderInv
  <1>10. ASSUME NEW m \in MEMS, m # p PROVE OrderInv(m)'
    <2>1. dataStrm'[m] = dataStrm[m] /\ expected'[m] = expected[m]
      BY <1>1, <1>10 DEF StreamTypes
    <2>2. QED
      BY <1>1, <1>2, <2>1, OrderUntouched
  <1>11. RamInv'
    BY <1>1, RamUntouched
  <1>12. QueTypes' /\ (pc' # "idle" => QueInv')
    BY <1>1, QueUntouched
  <1>13. QED
    BY <1>8, <1>9, <1>10, <1>11, <1>12

-----------------------------------------------------------------------------

LEMMA NextStep == IInv /\ [Next]_vars => IInv'
  <1> SUFFICES ASSUME IInv, [Next]_vars PROVE IInv'
    OBVIOUS
  <1>1. CASE host
    BY <1>1, ReinitialiseStep, CallStep DEF host
  <1>2. CASE AskAddr
    BY <1>2, AskAddrStep
  <1>3. CASE AskFlag
    BY <1>3, FlagStep DEF hostVars, AskFlag, loopVars, dataVars
  <1>4. CASE AskedAll
    BY <1>4, FlagStep DEF hostVars, AskedAll, loopVars, dataVars
  <1>5. CASE ReadFlag
    <2>1. /\ pc \notin {"idle", "put", "putflag"} /\ pc' \notin {"put", "putflag"}
          /\ w' \in 1..Streams /\ (pc' \in {"flag", "access"} => w' = 1)
      BY <1>5 DEF ReadFlag, AfterFlag, IInv, StreamTypes
    <2>2. QED
      BY <1>5, <2>1, FlagStep DEF hostVars, ReadFlag, dataVars
  <1>6. CASE LoopTest
    <2>1. /\ pc \notin {"idle", "put", "putflag"} /\ pc' \notin {"put", "putflag"}
          /\ w' = 1 /\ 1 \in 1..Streams
      <3>0. 1 \in 1..Streams
        BY Memories
      <3>1. CASE LoopEnds
        BY <1>6, <3>0, <3>1 DEF LoopTest
      <3>2. CASE ~LoopEnds
        BY <1>6, <3>0, <3>2 DEF LoopTest
      <3>3. QED
        BY <3>1, <3>2
    <2>2. QED
      BY <1>6, <2>1, FlagStep DEF LoopTest, hostVars, askVars, dataVars
  <1>7. CASE Access
    BY <1>7, AccessStep
  <1>8. CASE PutItem
    BY <1>8, PutItemStep
  <1>9. CASE PutFlag
    BY <1>9, PutFlagStep
  <1>10. CASE PutEnd
    <2>1. w \in 1..Streams /\ Streams \in {1, 2}
      BY Memories DEF IInv, StreamTypes
    <2>2. /\ pc = "end" /\ pc' \in {"end", "idle"} /\ w' \in 1..Streams
      BY <1>10, <2>1 DEF PutEnd
    <2>3. QED
      BY <1>10, <2>2, FlagStep DEF PutEnd, hostVars, askVars
  <1>11. ASSUME NEW m \in MEMS, TakeItem(m) PROVE IInv'
    BY <1>11, TakeItemStep
  <1>12. ASSUME NEW m \in MEMS, TakeEnd(m) PROVE IInv'
    BY <1>12, FlagStep DEF TakeEnd, hostVars, askVars, loopVars
  <1>13. CASE UNCHANGED vars
    BY <1>13, FlagStep DEF vars, hostVars, askVars, loopVars, dataVars
  <1>14. QED
    BY <1>1, <1>2, <1>3, <1>4, <1>5, <1>6, <1>7, <1>8, <1>9, <1>10, <1>11, <1>12, <1>13
       DEF Next, asker, readOnly, taker

THEOREM Invariance == Spec => []IInv
  <1>1. QED
    BY InitStep, NextStep, PTL DEF Spec

\* The cache cannot be told from the memory behind it, however often the host
\* changes that memory and whichever lines share a row (readOnly).
THEOREM Transparent == Spec => []AnswersAreTheMemory
  <1>1. IInv => AnswersAreTheMemory
    <2> SUFFICES ASSUME IInv, NEW m \in MEMS
                 PROVE  /\ Len(dataStrm[m]) <= Len(expected[m])
                        /\ \A k \in DOMAIN dataStrm[m] : dataStrm[m][k] = expected[m][k]
      BY DEF AnswersAreTheMemory
    <2>1. OrderInv(m) /\ dataStrm[m] \in Seq(Item) /\ addrStrm \in Seq(Indexes) /\ Held(m) \in {0, 1}
      BY DEF IInv, StreamTypes, Held
    <2>2. Len(dataStrm[m]) \in Nat /\ Len(addrStrm) \in Nat /\ DOMAIN dataStrm[m] = 1..Len(dataStrm[m])
      BY <2>1
    <2>3. QED
      BY <2>1, <2>2 DEF OrderInv
  <1>2. QED
    BY Invariance, <1>1, PTL

-----------------------------------------------------------------------------
(* No needless fetch: the converse, a row that holds a line is valid and has *)
(* its tag, so that the line is a hit.                                       *)

HeldInv == \A r \in Rows, k \in Lines :
              onChipRam[r] = ddrMem(k) => valid[r] /\ onChipAddr[r] = tag(k)

LEMMA LinesDiffer ==
    ASSUME NEW a, NEW b, ddrMem(a) = ddrMem(b)
    PROVE  a = b
  <1>1. 0 \in MEMS
    BY Constants
  <1>2. ddrMem(a)[0] = <<0, ver, a>> /\ ddrMem(b)[0] = <<0, ver, b>>
    BY <1>1 DEF ddrMem
  <1>3. QED
    BY <1>2

LEMMA NothingIsNoLine ==
    ASSUME NEW a, ver \in {0, 1}
    PROVE  ddrMem(a) # NoLine
  <1>1. 0 \in MEMS
    BY Constants
  <1>2. ddrMem(a)[0] = <<0, ver, a>> /\ NoLine[0] = <<0, -1, -1>>
    BY <1>1 DEF ddrMem, NoLine
  <1>3. QED
    BY <1>2

LEMMA HeldIsHit ==
    ASSUME IInv, HeldInv, pc # "idle", NEW k \in Lines, onChipRam[row(k)] = ddrMem(k)
    PROVE  Hit(k)
  <1>1. k # -1 /\ row(k) \in Rows
    BY LinesAreNat
  <1>2. valid[row(k)] /\ onChipAddr[row(k)] = tag(k)
    BY <1>1 DEF HeldInv
  <1>3. QueInv /\ QueTypes
    BY DEF IInv
  <1>4. Recent(validQue, k, valid[row(k)])
    <2>1. CASE About(validQue, k) = {}
      BY <1>2, <2>1 DEF Recent
    <2>2. CASE About(validQue, k) # {}
      <3>1. PICK j \in About(validQue, k) : Recent(validQue, k, valid[row(k)]) = validQue[j].val
        <4> DEFINE V == [k01 : Int, val : BOOLEAN]
        <4>1. validQue \in [1..QUE -> V]
          BY <1>3 DEF QueTypes
        <4> HIDE DEF V
        <4>2. QED
          BY <2>2, <4>1, RecentFound
      <3>2. j \in 1..QUE /\ validQue[j].k01 = k
        BY <1>3 DEF About, QueTypes
      <3>3. QED
        BY <1>1, <1>3, <3>1, <3>2 DEF QueInv
    <2>3. QED
      BY <2>1, <2>2
  <1>5. Recent(addrQue, k, onChipAddr[row(k)]) = tag(k)
    <2>1. CASE About(addrQue, k) = {}
      BY <1>2, <2>1 DEF Recent
    <2>2. CASE About(addrQue, k) # {}
      <3>1. PICK j \in About(addrQue, k) : Recent(addrQue, k, onChipAddr[row(k)]) = addrQue[j].val
        <4> DEFINE V == [k01 : Int, val : Int]
        <4>1. addrQue \in [1..QUE -> V]
          BY <1>3 DEF QueTypes
        <4> HIDE DEF V
        <4>2. QED
          BY <2>2, <4>1, RecentFound
      <3>2. j \in 1..QUE /\ addrQue[j].k01 = k
        BY <1>3 DEF About, QueTypes
      <3>3. QED
        BY <1>1, <1>3, <3>1, <3>2 DEF QueInv
    <2>3. QED
      BY <2>1, <2>2
  <1>6. QED
    BY <1>4, <1>5 DEF Hit

LEMMA HeldStep == IInv /\ HeldInv /\ [Next]_vars => HeldInv'
  <1> SUFFICES ASSUME IInv, HeldInv, [Next]_vars PROVE HeldInv'
    OBVIOUS
  <1>1. CASE UNCHANGED <<ver, ramVars>>
    BY <1>1 DEF HeldInv, ramVars, ddrMem
  <1>2. CASE Reinitialise
    <2>1. ver' \in {0, 1} /\ onChipRam' = [r \in Rows |-> NoLine] /\ NoLine' = NoLine
      BY <1>2 DEF Reinitialise, IInv, StreamTypes, NoLine
    <2>2. \A a : ddrMem(a)' # NoLine
      <3>1. 0 \in MEMS
        BY Constants
      <3>2. \A a : ddrMem(a)'[0] = <<0, ver', a>> /\ NoLine[0] = <<0, -1, -1>>
        BY <3>1 DEF ddrMem, NoLine
      <3>3. QED
        BY <2>1, <3>2
    <2>3. QED
      BY <2>1, <2>2 DEF HeldInv
  <1>3. CASE Access
    <2> DEFINE k0 == line(Head(addrStrm))
    <2>1. k0 \in Lines /\ ver \in {0, 1} /\ ver' = ver /\ pc # "idle"
      <3>1. Head(addrStrm) \in Indexes
        BY <1>3 DEF Access, IInv, StreamTypes
      <3>2. QED
        BY <1>3, <3>1 DEF hostVars, Access, Lines, IInv, StreamTypes
    <2>2. /\ IF Hit(k0) THEN UNCHANGED <<onChipAddr, onChipRam>>
             ELSE /\ onChipRam' = [onChipRam EXCEPT ![row(k0)] = ddrMem(k0)]
                  /\ onChipAddr' = [onChipAddr EXCEPT ![row(k0)] = tag(k0) % TAGS]
          /\ IF Recent(validQue, k0, valid[row(k0)]) THEN valid' = valid
             ELSE valid' = [valid EXCEPT ![row(k0)] = TRUE]
      BY <1>3 DEF Access, Serve
    <2>3. row(k0) \in Rows /\ tag(k0) % TAGS = tag(k0)
      BY <2>1, LinesAreNat
    <2>4. /\ valid' \in [Rows -> BOOLEAN] /\ valid'[row(k0)]
          /\ \A r \in Rows : valid[r] => valid'[r]
      BY <2>1, <2>2, <2>3, ValidLooked DEF IInv, RamInv
    <2>5. DOMAIN onChipAddr = Rows /\ DOMAIN onChipRam = Rows
      BY DEF IInv, RamInv
    <2> HIDE DEF k0
    <2>6. ASSUME NEW r \in Rows, NEW k \in Lines, onChipRam'[r] = ddrMem(k)
          PROVE  valid'[r] /\ onChipAddr'[r] = tag(k)
      <3>1. CASE r = row(k0) /\ ~Hit(k0)
        <4>1. onChipRam'[r] = ddrMem(k0) /\ onChipAddr'[r] = tag(k0)
          BY <2>2, <2>3, <2>5, <3>1
        <4>2. k = k0
          BY <2>6, <4>1, LinesDiffer
        <4>3. QED
          BY <2>4, <3>1, <4>1, <4>2
      <3>2. CASE r # row(k0) \/ Hit(k0)
        <4>1. onChipRam'[r] = onChipRam[r] /\ onChipAddr'[r] = onChipAddr[r]
          BY <2>2, <2>5, <3>2
        <4>2. QED
          BY <2>4, <2>6, <4>1 DEF HeldInv
      <3>3. QED
        BY <3>1, <3>2
    <2>7. \A k : ddrMem(k)' = ddrMem(k)
      BY <2>1 DEF ddrMem
    <2>8. QED
      BY <2>6, <2>7 DEF HeldInv
  <1>4. QED
    BY <1>1, <1>2, <1>3
       DEF hostVars, Next, host, asker, readOnly, taker, Call, AskAddr, AskFlag, AskedAll, ReadFlag, LoopTest,
           PutItem, PutFlag, PutEnd, TakeItem, TakeEnd, vars

\* A line is not fetched while its row holds it (readOnly).
THEOREM FetchesNeeded == Spec => NoNeedlessFetch
  <1> DEFINE Needed == (pc = "access" /\ pc' = "put" /\ fetched') =>
                           LET k01 == line(Head(addrStrm)) IN onChipRam[row(k01)] # ddrMem(k01)
  <1>1. Init => HeldInv
    BY NothingIsNoLine DEF Init, HeldInv
  <1>2. IInv /\ HeldInv /\ [Next]_vars => [Needed]_vars
    <2> SUFFICES ASSUME IInv, HeldInv, Next, pc = "access", pc' = "put", fetched',
                        onChipRam[row(line(Head(addrStrm)))] = ddrMem(line(Head(addrStrm)))
                 PROVE  FALSE
      BY DEF vars
    <2>1. Access
      BY DEF Next, host, asker, readOnly, taker, Reinitialise, Call, AskAddr, AskFlag, AskedAll, ReadFlag,
             LoopTest, PutItem, PutFlag, PutEnd, TakeItem, TakeEnd, loopVars
    <2>2. line(Head(addrStrm)) \in Lines
      <3>1. Head(addrStrm) \in Indexes
        BY <2>1 DEF Access, IInv, StreamTypes
      <3>2. QED
        BY <3>1 DEF Lines
    <2>3. Hit(line(Head(addrStrm)))
      BY <2>2, HeldIsHit
    <2>4. QED
      BY <2>1, <2>3 DEF Access, Serve
  <1>3. QED
    BY Invariance, HeldStep, <1>1, <1>2, PTL DEF Spec, NoNeedlessFetch

-----------------------------------------------------------------------------
(* The end flags.  Both flag streams run beside a stream of words, and each  *)
(* access waits for the flag of the next one: the flags read are ahead of    *)
(* the addresses read by Ahead.                                              *)

EndTypes ==
    /\ withEnd \in BOOLEAN /\ e \in BOOLEAN
    /\ ask \in {"addr", "flag", "done"} /\ toAsk \in Nat /\ left \in Nat
    /\ pc \in {"idle", "first", "loop", "flag", "access", "put", "putflag", "end"}
    /\ e_addrStrm \in Seq(BOOLEAN) /\ e_dataStrm \in [MEMS -> Seq(BOOLEAN)]

Ahead == IF pc = "first" THEN 0 ELSE IF pc = "access" THEN 2 ELSE 1
Ended == IF ask = "done" THEN 1 ELSE 0
Unsent == IF ask = "flag" THEN 1 ELSE 0

\* Calls with flags: addresses and flags, sent and read, add up, and the flag
\* that ends the call is the last.
AskInv ==
    withEnd =>
      /\ \A k \in 1..Len(e_addrStrm) : e_addrStrm[k] <=> ask = "done" /\ k = Len(e_addrStrm)
      /\ pc # "idle" => Len(addrStrm) + Ended = Len(e_addrStrm) + Ahead + Unsent
      /\ pc \notin {"idle", "first"} => (e <=> ask = "done" /\ Len(e_addrStrm) = 0)
      /\ pc = "first" /\ ask = "done" => Len(e_addrStrm) > 0
      /\ pc \in {"idle", "end"} => ask = "done" /\ Len(addrStrm) = 0 /\ Len(e_addrStrm) = 0

\* Calls with a count: what is left is still to be asked, on its way or in hand.
CountInv ==
    ~withEnd =>
      /\ Len(e_addrStrm) = 0 /\ \A m \in MEMS : Len(e_dataStrm[m]) = 0
      /\ pc \in {"idle", "loop", "access", "put"} /\ ask # "flag" /\ (ask = "done" => toAsk = 0)
      /\ left = toAsk + Len(addrStrm) + (IF pc = "put" THEN 1 ELSE 0)
      /\ pc = "idle" => left = 0

Unflagged(m) == IF pc = "putflag" /\ w - 1 = m THEN 1 ELSE 0

\* An answer stream has a flag for each item, and one more after the last.
FlagInv(m) ==
    withEnd =>
      /\ \/ Len(e_dataStrm[m]) = Len(dataStrm[m]) - Unflagged(m)
         \/ /\ Len(e_dataStrm[m]) = Len(dataStrm[m]) + 1
            /\ pc = "idle" \/ (pc = "end" /\ m < w - 1)
      /\ \A k \in 1..Len(e_dataStrm[m]) : e_dataStrm[m][k] <=> k > Len(dataStrm[m])

EndInv == EndTypes /\ AskInv /\ CountInv /\ \A m \in MEMS : FlagInv(m)

LEMMA EndInit == Init => EndInv
  <1> SUFFICES ASSUME Init PROVE EndInv
    OBVIOUS
  <1>1. EndTypes
    <2>1. withEnd \in BOOLEAN /\ e \in BOOLEAN
      <3>1. withEnd = FALSE /\ e = TRUE
        BY ZenonT(10) DEF Init
      <3>2. QED
        BY <3>1, Zenon
    <2>2. <<>> \in Seq(BOOLEAN)
      OBVIOUS
    <2>3. e_addrStrm = <<>> /\ e_dataStrm = [m \in MEMS |-> <<>>]
      BY Zenon DEF Init
    <2>4. e_addrStrm \in Seq(BOOLEAN) /\ e_dataStrm \in [MEMS -> Seq(BOOLEAN)]
      BY <2>2, <2>3
    <2>5. ask = "done" /\ toAsk = 0 /\ left = 0 /\ pc = "idle"
      BY Zenon DEF Init
    <2>6. QED
      BY <2>1, <2>4, <2>5 DEF EndTypes
  <1>2. ~withEnd
    BY DEF Init
  <1>3. AskInv /\ \A m \in MEMS : FlagInv(m)
    BY <1>2 DEF AskInv, FlagInv
  <1>4. CountInv
    BY DEF Init, CountInv
  <1>5. QED
    BY <1>1, <1>3, <1>4 DEF EndInv

\* Appending to a sequence of flags, and taking its first.
LEMMA FlagAppended ==
    ASSUME NEW s \in Seq(BOOLEAN), NEW b \in BOOLEAN
    PROVE  /\ Append(s, b) \in Seq(BOOLEAN) /\ Len(Append(s, b)) = Len(s) + 1
           /\ Len(s) \in Nat
           /\ \A k \in 1..Len(s) : Append(s, b)[k] = s[k]
           /\ Append(s, b)[Len(s) + 1] = b
  BY AppendProperties, LenProperties

LEMMA FlagTaken ==
    ASSUME NEW s \in Seq(BOOLEAN), s # <<>>
    PROVE  /\ Tail(s) \in Seq(BOOLEAN) /\ Len(Tail(s)) = Len(s) - 1
           /\ Len(s) \in Nat \ {0} /\ Head(s) \in BOOLEAN /\ Head(s) = s[1]
           /\ \A k \in 1..Len(s) - 1 : Tail(s)[k] = s[k + 1]
  <1>1. Len(s) \in Nat \ {0}
    BY EmptySeq
  <1>2. QED
    BY <1>1, HeadTailProperties

\* Nothing the flags of an answer stream depend on.
LEMMA FlagsUntouched ==
    ASSUME NEW m \in MEMS, FlagInv(m), w \in 1..Streams,
           UNCHANGED <<withEnd, w>>, e_dataStrm'[m] = e_dataStrm[m], dataStrm'[m] = dataStrm[m],
           pc \notin {"idle", "end", "putflag"}, pc' \notin {"putflag"}
    PROVE  FlagInv(m)'
  BY DEF FlagInv, Unflagged

\* FlagInv in two parts: the number of the flags, and their values.
LEMMA FlagNumber ==
    ASSUME EndInv, withEnd, NEW m \in MEMS
    PROVE  \/ Len(e_dataStrm[m]) = Len(dataStrm[m]) - Unflagged(m)
           \/ /\ Len(e_dataStrm[m]) = Len(dataStrm[m]) + 1
              /\ pc = "idle" \/ (pc = "end" /\ m < w - 1)
  BY Zenon DEF EndInv, FlagInv

LEMMA FlagValue ==
    ASSUME EndInv, withEnd, NEW m \in MEMS, NEW k \in 1..Len(e_dataStrm[m])
    PROVE  e_dataStrm[m][k] <=> k > Len(dataStrm[m])
  BY Zenon DEF EndInv, FlagInv

-----------------------------------------------------------------------------

LEMMA EndReinitialise == IInv /\ EndInv /\ Reinitialise => EndInv'
  BY DEF Reinitialise, EndInv, EndTypes, AskInv, CountInv, FlagInv, Unflagged, Ahead, Ended, Unsent,
         askVars, loopVars, dataVars

LEMMA EndCall ==
    ASSUME IInv, EndInv, NEW cnt \in 0..MaxReads, Call(cnt)
    PROVE  EndInv'
  <1> USE DEF Call
  <1>1. /\ Len(addrStrm) = 0 /\ Len(e_addrStrm) = 0
        /\ \A m \in MEMS : Len(dataStrm[m]) = 0 /\ Len(e_dataStrm[m]) = 0
    BY DEF Drained
  <1>2. cnt \in Nat /\ withEnd' \in BOOLEAN
    BY Constants, SizeAssumption
  <1>3. EndTypes'
    BY <1>2 DEF EndInv, EndTypes, dataVars
  <1>4. AskInv' /\ CountInv'
    BY <1>1, <1>2 DEF AskInv, CountInv, Ahead, Ended, Unsent, dataVars, EndInv, EndTypes
  <1>5. ASSUME NEW m \in MEMS PROVE FlagInv(m)'
    BY <1>1, <1>2 DEF FlagInv, Unflagged, dataVars
  <1>6. QED
    BY <1>3, <1>4, <1>5 DEF EndInv

LEMMA EndAskAddr == IInv /\ EndInv /\ AskAddr => EndInv'
  <1> SUFFICES ASSUME IInv, EndInv, AskAddr PROVE EndInv'
    OBVIOUS
  <1> USE DEF AskAddr, EndInv
  <1>1. PICK index \in Indexes : addrStrm' = Append(addrStrm, index)
    OBVIOUS
  <1>2. addrStrm \in Seq(Indexes)
    BY DEF IInv, StreamTypes
  <1>3. Len(addrStrm') = Len(addrStrm) + 1 /\ Len(addrStrm) \in Nat
    BY <1>1, <1>2, AppendProperties, LenProperties
  <1>4. EndTypes'
    BY DEF EndTypes, hostVars, loopVars
  <1>5. Len(e_addrStrm) \in Nat
    BY LenProperties DEF EndTypes
  <1>6. AskInv'
    BY <1>3, <1>5 DEF AskInv, Ahead, Ended, Unsent, hostVars, loopVars
  <1>7. CountInv'
    BY <1>3, <1>5 DEF CountInv, EndTypes, hostVars, loopVars
  <1>8. ASSUME NEW m \in MEMS PROVE FlagInv(m)'
    BY DEF FlagInv, Unflagged, hostVars, loopVars
  <1>9. QED
    BY <1>4, <1>6, <1>7, <1>8

LEMMA EndAskFlag == IInv /\ EndInv /\ AskFlag => EndInv'
  <1> SUFFICES ASSUME IInv, EndInv, AskFlag PROVE EndInv'
    OBVIOUS
  <1> USE DEF EndInv
  <1>0. /\ withEnd
        /\ \/ ask = "flag" /\ ask' = "addr"
           \/ ask = "addr" /\ toAsk = 0 /\ ask' = "done"
        /\ UNCHANGED <<withEnd, toAsk, addrStrm, pc, e, left, w, dataStrm, e_dataStrm>>
    BY DEF AskFlag, hostVars, loopVars, dataVars
  <1>1. /\ e_addrStrm \in Seq(BOOLEAN) /\ (ask = "addr") \in BOOLEAN
        /\ e_addrStrm' = Append(e_addrStrm, ask = "addr")
    BY DEF AskFlag, EndTypes
  <1>2. /\ e_addrStrm' \in Seq(BOOLEAN) /\ Len(e_addrStrm') = Len(e_addrStrm) + 1
        /\ Len(e_addrStrm) \in Nat
        /\ \A k \in 1..Len(e_addrStrm) : e_addrStrm'[k] = e_addrStrm[k]
        /\ e_addrStrm'[Len(e_addrStrm) + 1] <=> ask = "addr"
    BY <1>1, FlagAppended
  <1>3. Len(addrStrm) \in Nat
    BY DEF IInv, StreamTypes
  <1>4. EndTypes'
    BY <1>0, <1>2 DEF EndTypes
  <1>5. AskInv'
    <2>1. \A k \in 1..Len(e_addrStrm') : e_addrStrm'[k] <=> ask' = "done" /\ k = Len(e_addrStrm')
      <3> SUFFICES ASSUME NEW k \in 1..Len(e_addrStrm')
                   PROVE  e_addrStrm'[k] <=> ask' = "done" /\ k = Len(e_addrStrm')
        OBVIOUS
      <3>1. CASE k = Len(e_addrStrm) + 1
        BY <1>0, <1>2, <3>1
      <3>2. CASE k # Len(e_addrStrm) + 1
        <4>1. k \in 1..Len(e_addrStrm)
          BY <1>2, <3>2
        <4>2. QED
          BY <1>0, <1>2, <4>1 DEF AskInv
      <3>3. QED
        BY <3>1, <3>2
    <2>2. ask # "done" /\ pc # "idle" /\ pc # "end"
      BY <1>0 DEF AskInv
    <2>3. Len(addrStrm') + Ended' = Len(e_addrStrm') + Ahead' + Unsent'
      <3>1. Len(addrStrm) + Ended = Len(e_addrStrm) + Ahead + Unsent
        BY <1>0, <2>2, Zenon DEF AskInv
      <3>2. Len(e_addrStrm') = Len(e_addrStrm) + 1 /\ Len(e_addrStrm) \in Nat
        BY <1>2, Zenon
      <3>3. Len(addrStrm') = Len(addrStrm) /\ Ahead' = Ahead /\ Ahead \in Nat
        BY <1>0 DEF Ahead
      <3>4. \/ Ended' = 0 /\ Unsent' = 0 /\ Ended = 0 /\ Unsent = 1
            \/ Ended' = 1 /\ Unsent' = 0 /\ Ended = 0 /\ Unsent = 0
        BY <1>0 DEF Ended, Unsent
      <3> HIDE DEF EndInv
      <3>5. QED
        BY <1>3, <3>1, <3>2, <3>3, <3>4
    <2>4. pc \notin {"idle", "first"} => ~e
      BY <1>0, <2>2 DEF AskInv
    <2>5. QED
      BY <1>0, <1>2, <2>1, <2>2, <2>3, <2>4 DEF AskInv
  <1>6. CountInv'
    BY <1>0 DEF CountInv
  <1>7. ASSUME NEW m \in MEMS PROVE FlagInv(m)'
    BY <1>0 DEF FlagInv, Unflagged
  <1>8. QED
    BY <1>4, <1>5, <1>6, <1>7

LEMMA EndAskedAll == IInv /\ EndInv /\ AskedAll => EndInv'
  BY DEF IInv, AskedAll, EndInv, EndTypes, AskInv, CountInv, FlagInv, Unflagged,
         hostVars, loopVars, dataVars

LEMMA EndReadFlag == IInv /\ EndInv /\ ReadFlag => EndInv'
  <1> SUFFICES ASSUME IInv, EndInv, ReadFlag PROVE EndInv'
    OBVIOUS
  <1> USE DEF EndInv
  <1>0. /\ pc \in {"first", "flag"} /\ pc' = IF pc = "first" THEN "loop" ELSE "access"
        /\ e_addrStrm # <<>> /\ e' = Head(e_addrStrm) /\ e_addrStrm' = Tail(e_addrStrm)
        /\ UNCHANGED <<withEnd, toAsk, ask, addrStrm, left, w, dataStrm, e_dataStrm>>
    BY DEF ReadFlag, AfterFlag, hostVars, dataVars
  <1>1. withEnd
    <2>1. e_addrStrm \in Seq(BOOLEAN) /\ e_addrStrm # <<>>
      BY <1>0, Zenon DEF EndTypes
    <2>2. Len(e_addrStrm) # 0
      BY <2>1, FlagTaken
    <2>3. QED
      BY <2>2, Zenon DEF CountInv
  <1>2. /\ e_addrStrm' \in Seq(BOOLEAN) /\ Len(e_addrStrm') = Len(e_addrStrm) - 1
        /\ Len(e_addrStrm) \in Nat \ {0} /\ e' \in BOOLEAN /\ (e' <=> e_addrStrm[1])
        /\ \A k \in 1..Len(e_addrStrm) - 1 : e_addrStrm'[k] <=> e_addrStrm[k + 1]
    <2>1. e_addrStrm \in Seq(BOOLEAN) /\ e_addrStrm # <<>> /\ e' = Head(e_addrStrm) /\ e_addrStrm' = Tail(e_addrStrm)
      BY <1>0, Zenon DEF EndTypes
    <2>2. QED
      BY <2>1, FlagTaken, Zenon
  <1>3. Len(addrStrm) \in Nat
    BY DEF IInv, StreamTypes
  <1>4. EndTypes'
    BY <1>0, <1>2 DEF EndTypes
  <1>5. AskInv'
    <2>1. \A k \in 1..Len(e_addrStrm') : e_addrStrm'[k] <=> ask' = "done" /\ k = Len(e_addrStrm')
      <3> SUFFICES ASSUME NEW k \in 1..Len(e_addrStrm')
                   PROVE  e_addrStrm'[k] <=> ask' = "done" /\ k = Len(e_addrStrm')
        OBVIOUS
      <3>1. k + 1 \in 1..Len(e_addrStrm) /\ k \in 1..Len(e_addrStrm) - 1
        BY <1>2
      <3>2. e_addrStrm[k + 1] <=> ask = "done" /\ k + 1 = Len(e_addrStrm)
        BY <1>1, <3>1, Zenon DEF AskInv
      <3>3. k + 1 = Len(e_addrStrm) <=> k = Len(e_addrStrm')
        BY <1>2, <3>1
      <3>4. QED
        BY <1>0, <1>2, <3>1, <3>2, <3>3, Zenon
    <2>2. e' <=> ask' = "done" /\ Len(e_addrStrm') = 0
      <3>1. 1 \in 1..Len(e_addrStrm) /\ (1 = Len(e_addrStrm) <=> Len(e_addrStrm') = 0)
        BY <1>2
      <3>2. e_addrStrm[1] <=> ask = "done" /\ 1 = Len(e_addrStrm)
        BY <1>1, <3>1, Zenon DEF AskInv
      <3>3. QED
        BY <1>0, <1>2, <3>1, <3>2, Zenon
    <2>3. pc' \notin {"idle", "first", "end"} /\ Ahead' = Ahead + 1
      BY <1>0 DEF Ahead
    <2>4. Ended' = Ended /\ Unsent' = Unsent /\ Ended \in {0, 1} /\ Unsent \in {0, 1} /\ Ahead \in Nat
      BY <1>0 DEF Ended, Unsent, Ahead
    <2>5. Len(addrStrm') + Ended' = Len(e_addrStrm') + Ahead' + Unsent'
      <3>1. Len(addrStrm) + Ended = Len(e_addrStrm) + Ahead + Unsent
        <4>1. pc # "idle"
          BY <1>0
        <4>2. QED
          BY <1>1, <4>1, Zenon DEF AskInv
      <3>2. Len(e_addrStrm') = Len(e_addrStrm) - 1 /\ Len(e_addrStrm) \in Nat /\ Len(addrStrm') = Len(addrStrm)
        BY <1>0, <1>2
      <3> HIDE DEF EndInv
      <3>3. QED
        BY <1>3, <2>3, <2>4, <3>1, <3>2
    <2>6. QED
      BY <2>1, <2>2, <2>3, <2>5 DEF AskInv
  <1>6. CountInv'
    BY <1>0, <1>1 DEF CountInv
  <1>7. ASSUME NEW m \in MEMS PROVE FlagInv(m)'
    BY <1>0, FlagsUntouched DEF IInv, StreamTypes
  <1>8. QED
    BY <1>4, <1>5, <1>6, <1>7

LEMMA EndLoopTest == IInv /\ EndInv /\ LoopTest => EndInv'
  <1> SUFFICES ASSUME IInv, EndInv, LoopTest PROVE EndInv'
    OBVIOUS
  <1> USE DEF EndInv
  <1>1. /\ pc = "loop" /\ w' = 1
        /\ pc' = IF LoopEnds THEN (IF withEnd THEN "end" ELSE "idle")
                 ELSE (IF withEnd THEN "flag" ELSE "access")
        /\ UNCHANGED <<withEnd, askVars, e, left, dataVars>>
    BY DEF LoopTest, hostVars
  <1>2. EndTypes'
    BY <1>1 DEF EndTypes, askVars, dataVars
  <1>3. Len(addrStrm) \in Nat /\ Len(e_addrStrm) \in Nat
    BY DEF IInv, StreamTypes, EndTypes
  <1>4. AskInv'
    BY <1>1, <1>3 DEF AskInv, Ahead, Ended, Unsent, askVars, LoopEnds
  <1>5. CountInv'
    BY <1>1, <1>3 DEF CountInv, askVars, dataVars, LoopEnds
  <1>6. ASSUME NEW m \in MEMS PROVE FlagInv(m)'
    BY <1>1 DEF FlagInv, Unflagged, dataVars
  <1>7. QED
    BY <1>2, <1>4, <1>5, <1>6

LEMMA EndAccess == IInv /\ EndInv /\ Access => EndInv'
  <1> SUFFICES ASSUME IInv, EndInv, Access PROVE EndInv'
    OBVIOUS
  <1> USE DEF EndInv
  <1>1. /\ pc = "access" /\ pc' = "put" /\ addrStrm # <<>> /\ addrStrm' = Tail(addrStrm)
        /\ UNCHANGED <<hostVars, toAsk, ask, e_addrStrm, e, left, w, dataVars>>
    BY DEF Access
  <1>2. EndTypes'
    BY <1>1 DEF EndTypes, hostVars, dataVars
  <1>3. Len(addrStrm') = Len(addrStrm) - 1 /\ Len(addrStrm) \in Nat /\ Len(e_addrStrm) \in Nat
    BY <1>1, HeadTailProperties, LenProperties DEF IInv, StreamTypes, EndTypes
  <1>4. AskInv'
    BY <1>1, <1>3 DEF AskInv, Ahead, Ended, Unsent, hostVars
  <1>5. CountInv'
    BY <1>1, <1>3 DEF CountInv, hostVars, dataVars, EndTypes
  <1>6. ASSUME NEW m \in MEMS PROVE FlagInv(m)'
    BY <1>1, FlagsUntouched DEF hostVars, dataVars, IInv, StreamTypes
  <1>7. QED
    BY <1>2, <1>4, <1>5, <1>6

LEMMA EndPutItem == IInv /\ EndInv /\ PutItem => EndInv'
  <1> SUFFICES ASSUME IInv, EndInv, PutItem PROVE EndInv'
    OBVIOUS
  <1> USE DEF EndInv
  <1> DEFINE o == w - 1
  <1>1. /\ pc = "put" /\ o \in MEMS /\ w \in 1..Streams /\ Streams \in {1, 2}
        /\ dataStrm' = [dataStrm EXCEPT ![o] = Append(@, tmp[o])]
        /\ UNCHANGED <<hostVars, askVars, e, e_dataStrm>>
    BY Memories DEF PutItem, IInv, StreamTypes
  <1>2. CASE withEnd
    <2>1. pc' = "putflag" /\ w' = w /\ left' = left
      BY <1>2 DEF PutItem
    <2>2. EndTypes' /\ AskInv' /\ CountInv'
      BY <1>1, <1>2, <2>1 DEF EndTypes, AskInv, CountInv, Ahead, Ended, Unsent, hostVars, askVars
    <2>3. ASSUME NEW m \in MEMS PROVE FlagInv(m)'
      <3>1. CASE m = o
        <4>1. dataStrm[o] \in Seq(Item) /\ tmp[o] \in Item
          BY <1>1 DEF IInv, StreamTypes, InHand
        <4>2. Len(dataStrm'[o]) = Len(dataStrm[o]) + 1 /\ Len(dataStrm[o]) \in Nat
          <5>1. dataStrm'[o] = Append(dataStrm[o], tmp[o])
            BY <1>1 DEF IInv, StreamTypes
          <5>2. QED
            BY <4>1, <5>1, AppendProperties, LenProperties
        <4>3. Len(e_dataStrm[o]) \in Nat
          BY <1>1 DEF EndTypes
        <4>4. Len(e_dataStrm[o]) = Len(dataStrm[o])
          BY <1>1, <1>2, <4>2 DEF FlagInv, Unflagged
        <4>5. QED
          BY <1>1, <1>2, <2>1, <3>1, <4>2, <4>3, <4>4 DEF FlagInv, Unflagged, hostVars
      <3>2. CASE m # o
        <4>1. dataStrm'[m] = dataStrm[m]
          BY <1>1, <3>2 DEF IInv, StreamTypes
        <4>2. m \in Int
          BY Memories
        <4>3. QED
          BY <1>1, <1>2, <2>1, <3>2, <4>1, <4>2 DEF FlagInv, Unflagged, hostVars
      <3>3. QED
        BY <3>1, <3>2
    <2>4. QED
      BY <2>2, <2>3
  <1>3. CASE ~withEnd
    <2>1. pc' \in {"put", "loop"} /\ (pc' = "put" => left' = left) /\ (pc' = "loop" => left' = left - 1)
      BY <1>1, <1>3 DEF PutItem
    <2>2. left \in Nat \ {0}
      BY <1>1, <1>3 DEF CountInv, EndTypes, IInv, StreamTypes
    <2>3. EndTypes'
      BY <1>1, <2>1, <2>2 DEF EndTypes, hostVars, askVars
    <2>4. AskInv' /\ \A m \in MEMS : FlagInv(m)'
      BY <1>1, <1>3 DEF AskInv, FlagInv, hostVars
    <2>5. Len(addrStrm) \in Nat
      BY DEF IInv, StreamTypes
    <2>6. CountInv'
      BY <1>1, <1>3, <2>1, <2>2, <2>5 DEF CountInv, hostVars, askVars, EndTypes
    <2>7. QED
      BY <2>3, <2>4, <2>6
  <1>4. QED
    BY <1>2, <1>3

\* One more flag on the stream of memory o, for an item or for the end.
LEMMA FlagPut ==
    ASSUME IInv, EndInv, NEW o \in MEMS, NEW b \in BOOLEAN,
           e_dataStrm' = [e_dataStrm EXCEPT ![o] = Append(@, b)]
    PROVE  /\ e_dataStrm' \in [MEMS -> Seq(BOOLEAN)]
           /\ Len(e_dataStrm'[o]) = Len(e_dataStrm[o]) + 1 /\ Len(e_dataStrm[o]) \in Nat
           /\ \A k \in 1..Len(e_dataStrm[o]) : e_dataStrm'[o][k] = e_dataStrm[o][k]
           /\ e_dataStrm'[o][Len(e_dataStrm[o]) + 1] = b
           /\ \A m \in MEMS : m # o => e_dataStrm'[m] = e_dataStrm[m]
           /\ \A m \in MEMS : m \in Int /\ Len(dataStrm[m]) \in Nat /\ Len(e_dataStrm[m]) \in Nat
  <1>1. e_dataStrm \in [MEMS -> Seq(BOOLEAN)]
    BY DEF EndInv, EndTypes
  <1>2. e_dataStrm'[o] = Append(e_dataStrm[o], b) /\ e_dataStrm[o] \in Seq(BOOLEAN)
    BY <1>1
  <1> DEFINE s == e_dataStrm[o]
             t == e_dataStrm'[o]
  <1>9. t = Append(s, b) /\ s \in Seq(BOOLEAN)
    BY <1>2
  <1> HIDE DEF s, t
  <1>8. /\ t \in Seq(BOOLEAN) /\ Len(t) = Len(s) + 1 /\ Len(s) \in Nat
        /\ \A k \in 1..Len(s) : t[k] = s[k]
        /\ t[Len(s) + 1] = b
    BY <1>9, FlagAppended, Zenon
  <1>3. /\ e_dataStrm'[o] \in Seq(BOOLEAN)
        /\ Len(e_dataStrm'[o]) = Len(e_dataStrm[o]) + 1 /\ Len(e_dataStrm[o]) \in Nat
        /\ \A k \in 1..Len(e_dataStrm[o]) : e_dataStrm'[o][k] = e_dataStrm[o][k]
        /\ e_dataStrm'[o][Len(e_dataStrm[o]) + 1] = b
    BY <1>8, Zenon DEF s, t
  <1>4. \A m \in MEMS : m \in Int /\ Len(dataStrm[m]) \in Nat /\ Len(e_dataStrm[m]) \in Nat
    BY <1>1, Memories DEF IInv, StreamTypes
  <1>5. QED
    BY <1>1, <1>3, <1>4

LEMMA EndPutFlag == IInv /\ EndInv /\ PutFlag => EndInv'
  <1> SUFFICES ASSUME IInv, EndInv, PutFlag PROVE EndInv'
    OBVIOUS
  <1> USE DEF EndInv
  <1> DEFINE o == w - 1
  <1>1. /\ pc = "putflag" /\ o \in MEMS /\ w \in 1..Streams /\ Streams \in {1, 2}
        /\ e_dataStrm' = [e_dataStrm EXCEPT ![o] = Append(@, FALSE)]
        /\ UNCHANGED <<hostVars, askVars, e, left, dataStrm>>
        /\ \/ w' = w + 1 /\ pc' = "put"
           \/ w' = w /\ pc' = "loop"
    BY Memories DEF PutFlag, FlagOfItem, IInv, StreamTypes
  <1>2. withEnd
    BY <1>1 DEF CountInv
  <1>3. /\ e_dataStrm' \in [MEMS -> Seq(BOOLEAN)]
        /\ Len(e_dataStrm'[o]) = Len(e_dataStrm[o]) + 1 /\ Len(e_dataStrm[o]) \in Nat
        /\ \A k \in 1..Len(e_dataStrm[o]) : e_dataStrm'[o][k] = e_dataStrm[o][k]
        /\ e_dataStrm'[o][Len(e_dataStrm[o]) + 1] = FALSE
        /\ \A m \in MEMS : m # o => e_dataStrm'[m] = e_dataStrm[m]
        /\ \A m \in MEMS : m \in Int /\ Len(dataStrm[m]) \in Nat /\ Len(e_dataStrm[m]) \in Nat
    BY <1>1, FlagPut
  <1>4. EndTypes' /\ AskInv' /\ CountInv'
    BY <1>1, <1>2, <1>3 DEF EndTypes, AskInv, CountInv, Ahead, Ended, Unsent, hostVars, askVars
  <1>5. ASSUME NEW m \in MEMS PROVE FlagInv(m)'
    <2>1. CASE m = o
      <3>1. Len(dataStrm[o]) = Len(e_dataStrm[o]) + 1
        BY <1>1, <1>2, <1>3 DEF FlagInv, Unflagged
      <3>2. \A k \in 1..Len(e_dataStrm'[o]) : ~e_dataStrm'[o][k]
        <4> SUFFICES ASSUME NEW k \in 1..Len(e_dataStrm'[o]) PROVE ~e_dataStrm'[o][k]
          OBVIOUS
        <4>1. CASE k = Len(e_dataStrm[o]) + 1
          BY <1>3, <4>1
        <4>2. CASE k # Len(e_dataStrm[o]) + 1
          <5>1. k \in 1..Len(e_dataStrm[o]) /\ ~(k > Len(dataStrm[o]))
            BY <1>3, <3>1, <4>2
          <5>2. QED
            BY <1>1, <1>2, <1>3, <5>1 DEF FlagInv
        <4>3. QED
          BY <4>1, <4>2
      <3>3. QED
        BY <1>1, <1>2, <1>3, <2>1, <3>1, <3>2 DEF FlagInv, Unflagged, hostVars
    <2>2. CASE m # o
      BY <1>1, <1>2, <1>3, <2>2 DEF FlagInv, Unflagged, hostVars
    <2>3. QED
      BY <2>1, <2>2
  <1>6. QED
    BY <1>4, <1>5

LEMMA EndPutEnd == IInv /\ EndInv /\ PutEnd => EndInv'
  <1> SUFFICES ASSUME IInv, EndInv, PutEnd PROVE EndInv'
    OBVIOUS
  <1> USE DEF EndInv
  <1> DEFINE o == w - 1
  <1>1. /\ pc = "end" /\ o \in MEMS /\ w \in 1..Streams /\ Streams \in {1, 2} /\ MEMS = 0..Streams - 1
        /\ e_dataStrm' = [e_dataStrm EXCEPT ![o] = Append(@, TRUE)]
        /\ UNCHANGED <<hostVars, askVars, e, left, dataStrm>>
        /\ \/ w' = w + 1 /\ pc' = "end"
           \/ w = Streams /\ w' = w /\ pc' = "idle"
    BY Memories DEF PutEnd, IInv, StreamTypes
  <1>2. withEnd
    BY <1>1 DEF CountInv
  <1>3. /\ e_dataStrm' \in [MEMS -> Seq(BOOLEAN)]
        /\ Len(e_dataStrm'[o]) = Len(e_dataStrm[o]) + 1 /\ Len(e_dataStrm[o]) \in Nat
        /\ \A k \in 1..Len(e_dataStrm[o]) : e_dataStrm'[o][k] = e_dataStrm[o][k]
        /\ e_dataStrm'[o][Len(e_dataStrm[o]) + 1] = TRUE
        /\ \A m \in MEMS : m # o => e_dataStrm'[m] = e_dataStrm[m]
        /\ \A m \in MEMS : m \in Int /\ Len(dataStrm[m]) \in Nat /\ Len(e_dataStrm[m]) \in Nat
    BY <1>1, FlagPut
  <1>4. EndTypes' /\ AskInv' /\ CountInv'
    BY <1>1, <1>2, <1>3 DEF EndTypes, AskInv, CountInv, Ahead, Ended, Unsent, hostVars, askVars
  <1>5. ASSUME NEW m \in MEMS PROVE FlagInv(m)'
    <2>1. CASE m = o
      <3>1. Len(dataStrm[o]) = Len(e_dataStrm[o])
        BY <1>1, <1>2, <1>3 DEF FlagInv, Unflagged
      <3>2. \A k \in 1..Len(e_dataStrm'[o]) : e_dataStrm'[o][k] <=> k > Len(dataStrm[o])
        <4> SUFFICES ASSUME NEW k \in 1..Len(e_dataStrm'[o])
                     PROVE  e_dataStrm'[o][k] <=> k > Len(dataStrm[o])
          OBVIOUS
        <4>1. CASE k = Len(e_dataStrm[o]) + 1
          BY <1>3, <3>1, <4>1
        <4>2. CASE k # Len(e_dataStrm[o]) + 1
          <5>1. k \in 1..Len(e_dataStrm[o])
            BY <1>3, <4>2
          <5>2. QED
            BY <1>1, <1>2, <1>3, <5>1 DEF FlagInv
        <4>3. QED
          BY <4>1, <4>2
      <3>3. QED
        BY <1>1, <1>2, <1>3, <2>1, <3>1, <3>2 DEF FlagInv, hostVars
    <2>2. CASE m # o
      BY <1>1, <1>2, <1>3, <2>2 DEF FlagInv, Unflagged, hostVars
    <2>3. QED
      BY <2>1, <2>2
  <1>6. QED
    BY <1>4, <1>5

\* The first flag is taken from the stream of memory p.
LEMMA FlagGone ==
    ASSUME EndInv, NEW p \in MEMS, e_dataStrm[p] # <<>>,
           e_dataStrm' = [e_dataStrm EXCEPT ![p] = Tail(@)]
    PROVE  /\ e_dataStrm' \in [MEMS -> Seq(BOOLEAN)]
           /\ Len(e_dataStrm'[p]) = Len(e_dataStrm[p]) - 1 /\ Len(e_dataStrm[p]) \in Nat \ {0}
           /\ Head(e_dataStrm[p]) = e_dataStrm[p][1]
           /\ \A k \in 1..Len(e_dataStrm[p]) - 1 : e_dataStrm'[p][k] = e_dataStrm[p][k + 1]
           /\ \A m \in MEMS : m # p => e_dataStrm'[m] = e_dataStrm[m]
  <1>1. e_dataStrm \in [MEMS -> Seq(BOOLEAN)]
    BY DEF EndInv, EndTypes
  <1>2. e_dataStrm'[p] = Tail(e_dataStrm[p]) /\ e_dataStrm[p] \in Seq(BOOLEAN)
    BY <1>1
  <1>3. /\ e_dataStrm'[p] \in Seq(BOOLEAN)
        /\ Len(e_dataStrm'[p]) = Len(e_dataStrm[p]) - 1 /\ Len(e_dataStrm[p]) \in Nat \ {0}
        /\ Head(e_dataStrm[p]) = e_dataStrm[p][1]
        /\ \A k \in 1..Len(e_dataStrm[p]) - 1 : e_dataStrm'[p][k] = e_dataStrm[p][k + 1]
    BY <1>2, FlagTaken
  <1>4. QED
    BY <1>1, <1>3

LEMMA EndTakeItem ==
    ASSUME IInv, EndInv, NEW p \in MEMS, TakeItem(p)
    PROVE  EndInv'
  <1> USE DEF EndInv
  <1>1. /\ dataStrm[p] # <<>> /\ dataStrm' = [dataStrm EXCEPT ![p] = Tail(@)]
        /\ withEnd => e_dataStrm[p] # <<>> /\ e_dataStrm' = [e_dataStrm EXCEPT ![p] = Tail(@)]
        /\ ~withEnd => e_dataStrm' = e_dataStrm
        /\ UNCHANGED <<hostVars, askVars, loopVars>>
    BY DEF TakeItem
  <1>2. /\ dataStrm[p] \in Seq(Item) /\ dataStrm'[p] = Tail(dataStrm[p])
        /\ \A m \in MEMS : m # p => dataStrm'[m] = dataStrm[m]
    BY <1>1 DEF IInv, StreamTypes
  <1>3. Len(dataStrm'[p]) = Len(dataStrm[p]) - 1 /\ Len(dataStrm[p]) \in Nat \ {0}
    BY <1>1, <1>2, HeadTailProperties, EmptySeq
  <1>4. EndTypes' /\ AskInv' /\ CountInv'
    BY <1>1, FlagGone DEF EndTypes, AskInv, CountInv, Ahead, Ended, Unsent, hostVars, askVars, loopVars
  <1>5. ASSUME withEnd, NEW m \in MEMS PROVE FlagInv(m)'
    <2>1. /\ Len(e_dataStrm'[p]) = Len(e_dataStrm[p]) - 1 /\ Len(e_dataStrm[p]) \in Nat \ {0}
          /\ \A k \in 1..Len(e_dataStrm[p]) - 1 : e_dataStrm'[p][k] = e_dataStrm[p][k + 1]
          /\ \A n \in MEMS : n # p => e_dataStrm'[n] = e_dataStrm[n]
      BY <1>1, <1>5, FlagGone
    <2>2. CASE m = p
      <3>1. \A k \in 1..Len(e_dataStrm'[p]) : e_dataStrm'[p][k] <=> k > Len(dataStrm'[p])
        <4> SUFFICES ASSUME NEW k \in 1..Len(e_dataStrm'[p])
                     PROVE  e_dataStrm'[p][k] <=> k > Len(dataStrm'[p])
          OBVIOUS
        <4>1. k + 1 \in 1..Len(e_dataStrm[p]) /\ k \in 1..Len(e_dataStrm[p]) - 1
          BY <2>1
        <4>2. e_dataStrm[p][k + 1] <=> k + 1 > Len(dataStrm[p])
          BY <1>5, <4>1 DEF FlagInv
        <4>3. QED
          BY <1>3, <2>1, <4>1, <4>2
      <3>2. Unflagged(p)' = Unflagged(p) /\ Unflagged(p) \in {0, 1} /\ p \in Int /\ UNCHANGED <<pc, w, withEnd>>
        BY <1>1, Memories DEF Unflagged, loopVars, hostVars
      <3>3. \/ Len(e_dataStrm'[p]) = Len(dataStrm'[p]) - Unflagged(p)'
            \/ /\ Len(e_dataStrm'[p]) = Len(dataStrm'[p]) + 1
               /\ pc' = "idle" \/ (pc' = "end" /\ p < w' - 1)
        <4>1. Len(e_dataStrm'[p]) = Len(e_dataStrm[p]) - 1 /\ Len(e_dataStrm[p]) \in Nat \ {0}
          BY <2>1, Zenon
        <4> HIDE DEF EndInv
        <4>2. QED
          BY <1>3, <1>5, <3>2, <4>1, FlagNumber
      <3>4. QED
        BY <2>2, <3>1, <3>3, Zenon DEF FlagInv
    <2>3. CASE m # p
      BY <1>1, <1>2, <2>1, <2>3 DEF FlagInv, Unflagged, hostVars, loopVars
    <2>4. QED
      BY <2>2, <2>3
  <1>6. ASSUME ~withEnd, NEW m \in MEMS PROVE FlagInv(m)'
    BY <1>1, <1>6 DEF FlagInv, hostVars
  <1>7. QED
    BY <1>4, <1>5, <1>6

LEMMA EndTakeEnd ==
    ASSUME IInv, EndInv, NEW p \in MEMS, TakeEnd(p)
    PROVE  EndInv'
  <1> USE DEF EndInv
  <1>1. /\ dataStrm[p] = <<>> /\ e_dataStrm[p] # <<>> /\ Head(e_dataStrm[p])
        /\ e_dataStrm' = [e_dataStrm EXCEPT ![p] = Tail(@)]
        /\ UNCHANGED <<hostVars, askVars, loopVars, dataStrm>>
    BY DEF TakeEnd
  <1>2. /\ e_dataStrm' \in [MEMS -> Seq(BOOLEAN)]
        /\ Len(e_dataStrm'[p]) = Len(e_dataStrm[p]) - 1 /\ Len(e_dataStrm[p]) \in Nat \ {0}
        /\ \A m \in MEMS : m # p => e_dataStrm'[m] = e_dataStrm[m]
    BY <1>1, FlagGone
  <1>3. withEnd
    BY <1>2 DEF CountInv
  <1>4. EndTypes' /\ AskInv' /\ CountInv'
    BY <1>1, <1>2, <1>3 DEF EndTypes, AskInv, CountInv, Ahead, Ended, Unsent, hostVars, askVars, loopVars
  <1>5. ASSUME NEW m \in MEMS PROVE FlagInv(m)'
    <2>1. CASE m = p
      <3>1. Unflagged(p) \in {0, 1} /\ Len(dataStrm[p]) = 0
        BY <1>1 DEF Unflagged
      <3>2. Len(e_dataStrm[p]) = 1 /\ pc \in {"idle", "end"}
        <4>1. Len(e_dataStrm[p]) \in Nat \ {0}
          BY <1>2, Zenon
        <4> HIDE DEF EndInv
        <4>2. \/ Len(e_dataStrm[p]) = Len(dataStrm[p]) - Unflagged(p)
              \/ /\ Len(e_dataStrm[p]) = Len(dataStrm[p]) + 1
                 /\ pc = "idle" \/ (pc = "end" /\ p < w - 1)
          BY <1>3, FlagNumber, Zenon
        <4>3. QED
          BY <3>1, <4>1, <4>2
      <3>3. Len(e_dataStrm'[p]) = 0 /\ dataStrm' = dataStrm /\ pc' = pc
        <4>1. Len(e_dataStrm'[p]) = Len(e_dataStrm[p]) - 1
          BY <1>2, Zenon
        <4>2. dataStrm' = dataStrm /\ pc' = pc
          BY <1>1, Zenon DEF loopVars
        <4> HIDE DEF EndInv
        <4>3. QED
          BY <3>2, <4>1, <4>2
      <3>4. Unflagged(p)' = 0
        BY <3>2, <3>3 DEF Unflagged
      <3> HIDE DEF EndInv
      <3>5. QED
        BY <2>1, <3>1, <3>3, <3>4 DEF FlagInv
    <2>2. CASE m # p
      BY <1>1, <1>2, <2>2 DEF FlagInv, Unflagged, hostVars, loopVars
    <2>3. QED
      BY <2>1, <2>2
  <1>6. QED
    BY <1>4, <1>5

LEMMA EndStep == IInv /\ EndInv /\ [Next]_vars => EndInv'
  <1> SUFFICES ASSUME IInv, EndInv, [Next]_vars PROVE EndInv'
    OBVIOUS
  <1>1. CASE UNCHANGED vars
    BY <1>1 DEF vars, hostVars, askVars, loopVars, dataVars, EndInv, EndTypes, AskInv, CountInv,
                FlagInv, Unflagged, Ahead, Ended, Unsent
  <1>2. ASSUME NEW cnt \in 0..MaxReads, Call(cnt) PROVE EndInv'
    BY <1>2, EndCall
  <1>3. ASSUME NEW m \in MEMS, taker(m) PROVE EndInv'
    BY <1>3, EndTakeItem, EndTakeEnd DEF taker
  <1>4. QED
    BY <1>1, <1>2, <1>3, EndReinitialise, EndAskAddr, EndAskFlag, EndAskedAll, EndReadFlag, EndLoopTest,
       EndAccess, EndPutItem, EndPutFlag, EndPutEnd DEF Next, host, asker, readOnly

\* When the end flag is the next of an answer stream every address of the call
\* has been answered there, and nothing is owed between two calls (readOnly).
THEOREM EndComesLast == Spec => []EndFlagIsLast
  <1>1. IInv /\ EndInv => EndFlagIsLast
    <2> SUFFICES ASSUME IInv, EndInv PROVE EndFlagIsLast
      OBVIOUS
    <2>1. ASSUME NEW m \in MEMS, e_dataStrm[m] # <<>>, Head(e_dataStrm[m])
          PROVE  expected[m] = <<>> /\ Len(e_dataStrm[m]) = 1
      <3>1. /\ e_dataStrm[m] \in Seq(BOOLEAN) /\ dataStrm[m] \in Seq(Item) /\ expected[m] \in Seq(Item)
            /\ Len(addrStrm) \in Nat
        BY DEF IInv, StreamTypes, EndInv, EndTypes
      <3>2. Len(e_dataStrm[m]) \in Nat \ {0} /\ e_dataStrm[m][1] /\ Len(dataStrm[m]) \in Nat
        <4> DEFINE s == e_dataStrm[m]
        <4>1. s \in Seq(BOOLEAN) /\ s # <<>> /\ Head(s)
          BY <2>1, <3>1, Zenon
        <4> HIDE DEF s
        <4>2. Len(s) \in Nat \ {0} /\ Head(s) = s[1]
          BY <4>1, FlagTaken
        <4>3. Len(s) \in Nat \ {0} /\ s[1]
          BY <4>1, <4>2, Zenon
        <4>4. Len(dataStrm[m]) \in Nat
          BY <3>1
        <4>5. QED
          BY <4>3, <4>4, Zenon DEF s
      <3>3. withEnd
        BY <3>2 DEF EndInv, CountInv
      <3>4. Len(dataStrm[m]) = 0
        <4>1. 1 \in 1..Len(e_dataStrm[m])
          BY <3>2
        <4>2. 1 > Len(dataStrm[m])
          BY <3>2, <3>3, <4>1, FlagValue, Zenon
        <4>3. Len(dataStrm[m]) \in Nat
          BY <3>2, Zenon
        <4>4. QED
          BY <4>2, <4>3
      <3>5. /\ Len(e_dataStrm[m]) = 1
            /\ pc \in {"idle", "end"}
        <4>1. Len(e_dataStrm[m]) \in Nat \ {0}
          BY <3>2, Zenon
        <4>2. \/ Len(e_dataStrm[m]) = Len(dataStrm[m]) - Unflagged(m)
              \/ /\ Len(e_dataStrm[m]) = Len(dataStrm[m]) + 1
                 /\ pc = "idle" \/ (pc = "end" /\ m < w - 1)
          BY <3>3, FlagNumber, Zenon
        <4>3. Unflagged(m) \in {0, 1}
          BY DEF Unflagged
        <4>4. QED
          BY <3>4, <4>1, <4>2, <4>3
      <3>6. Held(m) = 0 /\ Len(addrStrm) = 0
        BY <3>3, <3>5 DEF EndInv, AskInv, Held, InHand
      <3>7. Len(expected[m]) = 0
        BY <3>4, <3>6 DEF IInv, OrderInv
      <3>8. QED
        BY <3>1, <3>5, <3>7, EmptySeq
    <2>2. ASSUME pc = "idle", Drained PROVE expected = [m \in MEMS |-> <<>>]
      <3>1. expected \in [MEMS -> Seq(Item)]
        BY DEF IInv, StreamTypes
      <3>2. ASSUME NEW m \in MEMS PROVE expected[m] = <<>>
        <4>1. Held(m) = 0 /\ Len(addrStrm) = 0 /\ Len(dataStrm[m]) = 0
          BY <2>2 DEF Held, InHand, Drained
        <4>2. Len(expected[m]) = 0
          BY <4>1 DEF IInv, OrderInv
        <4>3. QED
          BY <3>1, <4>2, EmptySeq
      <3>3. QED
        BY <3>1, <3>2
    <2>3. QED
      BY <2>1, <2>2 DEF EndFlagIsLast
  <1>2. QED
    BY Invariance, EndInit, EndStep, <1>1, PTL DEF Spec
=============================================================================
