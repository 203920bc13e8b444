------------------------------- MODULE Cache -------------------------------
(***************************************************************************)
(* The read-only cache (cache.hpp): its four readOnly functions, with one  *)
(* or two off-chip memories, with end flags or a count of accesses, and    *)
(* the two initialisations.  On-chip memory is direct mapped and outlives  *)
(* a call; the registers of the last accesses, which are looked at first,  *)
(* do not.  The host calls the functions with and without flags as it      *)
(* likes; when it changes the off-chip memory, between two calls, it       *)
(* initialises the cache again.                                            *)
(*                                                                         *)
(* A line of off-chip memory m is <<m, ver, k01>>, ver being the contents  *)
(* the host wrote last: no two lines are alike.  The bits of a row of      *)
(* `valid' are set and cleared together (validCnt), so a row is a Boolean. *)
(***************************************************************************)
EXTENDS Integers, Sequences, SequencesExt

CONSTANTS ramRow, groupRamPart, dataOneLine,
          TAGS,             \* 2^addrWidth
          QUE,              \* registers of the last accesses   (4)
          MEMS,             \* off-chip memories: {0} or {0, 1}
          Indexes,          \* what may be read
          AddrDepth, DataDepth,
          MaxReads          \* accesses of a call

ASSUME SizeAssumption ==
    /\ {ramRow, groupRamPart, dataOneLine, TAGS, AddrDepth, DataDepth} \subseteq Nat \ {0}
    /\ QUE \in Nat \ {0} /\ MaxReads \in Nat
    /\ MEMS \in {{0}, {0, 1}}

line(index) == index \div dataOneLine                       \* k01
Rows == (0..ramRow - 1) \X (0..groupRamPart - 1)
row(k01) == <<(k01 \div groupRamPart) % ramRow, k01 % groupRamPart>>    \* k20, k10
\* mutant: the tag of a neighbouring row
tag_OfGroup(k01) == k01 \div (groupRamPart * ramRow * 2)
tag(k01) == (k01 \div groupRamPart) \div ramRow             \* k30

\* An address of the memory is addrWidth bits wide.
ASSUME AddressAssumption == Indexes \subseteq Nat /\ \A i \in Indexes : tag(line(i)) < TAGS

VARIABLES
    ver, withEnd,                               \* the host: contents, function with end flags?
    toAsk, ask, addrStrm, e_addrStrm,           \* the process that asks
    pc, e, left, tmp, fetched, w,               \* readOnly
    valid, onChipAddr, onChipRam,
    validQue, addrQue, pingQue,
    dataStrm, e_dataStrm, expected              \* the process that takes the answers

hostVars == <<ver, withEnd>>
askVars == <<toAsk, ask, addrStrm, e_addrStrm>>
loopVars == <<pc, e, left, tmp, fetched, w>>
ramVars == <<valid, onChipAddr, onChipRam>>
queVars == <<validQue, addrQue, pingQue>>
dataVars == <<dataStrm, e_dataStrm, expected>>
vars == <<hostVars, askVars, loopVars, ramVars, queVars, dataVars>>

ddrMem(k01) == [m \in MEMS |-> <<m, ver, k01>>]
item(tmpV, k00) == [m \in MEMS |-> <<tmpV[m], k00>>]
NoLine == [m \in MEMS |-> <<m, -1, -1>>]        \* the zeros of the initialisation
EmptyQue(val) == [j \in 1..QUE |-> [k01 |-> -1, val |-> val]]
Drained == addrStrm = <<>> /\ e_addrStrm = <<>> /\ \A m \in MEMS : dataStrm[m] = <<>> /\ e_dataStrm[m] = <<>>

\* The cache was initialised, as the tops do before each call.
Init == /\ ver = 0 /\ withEnd = FALSE
        /\ toAsk = 0 /\ ask = "done" /\ addrStrm = <<>> /\ e_addrStrm = <<>>
        /\ pc = "idle" /\ e = TRUE /\ left = 0 /\ tmp = item(NoLine, 0) /\ fetched = FALSE /\ w = 1
        /\ valid = [r \in Rows |-> FALSE]
        /\ onChipAddr = [r \in Rows |-> 0]
        /\ onChipRam = [r \in Rows |-> NoLine]
        /\ validQue = EmptyQue(FALSE) /\ addrQue = EmptyQue(-1) /\ pingQue = EmptyQue(NoLine)
        /\ dataStrm = [m \in MEMS |-> <<>>] /\ e_dataStrm = [m \in MEMS |-> <<>>]
        /\ expected = [m \in MEMS |-> <<>>]

-----------------------------------------------------------------------------
(* The host, between two calls *)

\* New contents, and initSingleOffChip or initDualOffChip.
Reinitialise == /\ pc = "idle" /\ ask = "done" /\ Drained
                /\ ver' = 1 - ver
                /\ valid' = [r \in Rows |-> FALSE]
                /\ onChipAddr' = [r \in Rows |-> 0]
                /\ onChipRam' = [r \in Rows |-> NoLine]
                /\ UNCHANGED <<withEnd, askVars, loopVars, queVars, dataVars>>

\* mutant: the registers are static
FreshQues_Static == UNCHANGED queVars
FreshQues == /\ validQue' = EmptyQue(FALSE)
             /\ addrQue' = EmptyQue(-1)
             /\ pingQue' = EmptyQue(NoLine)

\* A readOnly function is called, for cnt accesses; the other processes start with it.
Call(cnt) == /\ pc = "idle" /\ ask = "done" /\ Drained
             /\ FreshQues
             /\ withEnd' \in BOOLEAN
             /\ pc' = IF withEnd' THEN "first" ELSE "loop"
             /\ left' = cnt
             /\ toAsk' = cnt /\ ask' = "addr"
             /\ UNCHANGED <<ver, addrStrm, e_addrStrm, e, tmp, fetched, w, ramVars, dataVars>>

host == Reinitialise \/ \E cnt \in 0..MaxReads : Call(cnt)

-----------------------------------------------------------------------------
(* The process that asks: each address, then its flag; the end flag last *)

AskAddr == /\ ask = "addr" /\ toAsk > 0
           /\ Len(addrStrm) < AddrDepth
           /\ \E index \in Indexes :
                 /\ addrStrm' = Append(addrStrm, index)
                 /\ expected' = [m \in MEMS |-> Append(expected[m],
                                     item(ddrMem(line(index)), index % dataOneLine)[m])]
           /\ toAsk' = toAsk - 1
           /\ ask' = IF withEnd THEN "flag" ELSE "addr"
           /\ UNCHANGED <<hostVars, e_addrStrm, loopVars, ramVars, queVars, dataStrm, e_dataStrm>>

AskFlag == /\ withEnd
           /\ Len(e_addrStrm) < AddrDepth
           /\ \/ ask = "flag" /\ ask' = "addr"
              \/ ask = "addr" /\ toAsk = 0 /\ ask' = "done"
           /\ e_addrStrm' = Append(e_addrStrm, ask = "addr")
           /\ UNCHANGED <<hostVars, toAsk, addrStrm, loopVars, ramVars, queVars, dataVars>>

AskedAll == /\ ~withEnd /\ ask = "addr" /\ toAsk = 0
            /\ ask' = "done"
            /\ UNCHANGED <<hostVars, toAsk, addrStrm, e_addrStrm, loopVars, ramVars, queVars, dataVars>>

asker == AskAddr \/ AskFlag \/ AskedAll

-----------------------------------------------------------------------------
(* readOnly *)

\* mutant: do { } while (!e)
AfterFlag_DoWhile == IF pc = "first" THEN "flag" ELSE "access"
AfterFlag == IF pc = "first" THEN "loop" ELSE "access"

\* The flag before the loop, and, first thing in it, the flag of the NEXT
\* address: an access waits for it.
ReadFlag == /\ pc \in {"first", "flag"}
            /\ e_addrStrm # <<>>
            /\ e' = Head(e_addrStrm) /\ e_addrStrm' = Tail(e_addrStrm)
            /\ pc' = AfterFlag
            /\ UNCHANGED <<hostVars, toAsk, ask, addrStrm, left, tmp, fetched, w, ramVars, queVars, dataVars>>

\* mutant: i <= cnt
LoopEnds_OneMore == IF withEnd THEN e ELSE left < 0
\* while (!e), for (i < cnt)
LoopEnds == IF withEnd THEN e ELSE left = 0
LoopTest == /\ pc = "loop"
            /\ pc' = CASE LoopEnds -> IF withEnd THEN "end" ELSE "idle"
                       [] OTHER -> IF withEnd THEN "flag" ELSE "access"
            /\ w' = 1
            /\ UNCHANGED <<hostVars, askVars, e, left, tmp, fetched, ramVars, queVars, dataVars>>

\* The first register that is about line k01, or else what on-chip memory holds.
About(que, k01) == {j \in DOMAIN que : que[j].k01 = k01}
Recent(que, k01, stored) ==
    IF About(que, k01) = {} THEN stored
    ELSE que[CHOOSE j \in About(que, k01) : \A i \in About(que, k01) : j <= i].val
Push(que, k01, val) == [j \in 1..QUE |-> IF j = 1 THEN [k01 |-> k01, val |-> val] ELSE que[j - 1]]

\* mutant: only the registers are looked at
Hit_RegistersOnly(k01) == /\ Recent(validQue, k01, FALSE)
                          /\ Recent(addrQue, k01, onChipAddr[row(k01)]) = tag(k01)
Hit(k01) == /\ Recent(validQue, k01, valid[row(k01)])
            /\ Recent(addrQue, k01, onChipAddr[row(k01)]) = tag(k01)

\* The line is taken from the registers or on-chip memory, or fetched into both.
Serve(k01, k00) ==
    IF Hit(k01)
    THEN /\ tmp' = item(Recent(pingQue, k01, onChipRam[row(k01)]), k00)
         /\ fetched' = FALSE
         /\ UNCHANGED <<onChipAddr, onChipRam, addrQue, pingQue>>
    ELSE /\ tmp' = item(ddrMem(k01), k00)
         /\ fetched' = TRUE
         /\ onChipRam' = [onChipRam EXCEPT ![row(k01)] = ddrMem(k01)]
         /\ pingQue' = Push(pingQue, k01, ddrMem(k01))
         /\ onChipAddr' = [onChipAddr EXCEPT ![row(k01)] = tag(k01) % TAGS]
         /\ addrQue' = Push(addrQue, k01, tag(k01) % TAGS)

Access == /\ pc = "access"
          /\ addrStrm # <<>>
          /\ addrStrm' = Tail(addrStrm)
          /\ LET k01 == line(Head(addrStrm))
             IN  /\ Serve(k01, Head(addrStrm) % dataOneLine)
                 /\ IF Recent(validQue, k01, valid[row(k01)]) THEN UNCHANGED <<valid, validQue>>
                    ELSE /\ valid' = [valid EXCEPT ![row(k01)] = TRUE]
                         /\ validQue' = Push(validQue, k01, TRUE)
          /\ pc' = "put"
          /\ UNCHANGED <<hostVars, toAsk, ask, e_addrStrm, e, left, w, dataVars>>

\* The writes of an iteration, one after the other: data0, its flag, data1, its
\* flag; after the loop the end flags alone.
Streams == IF MEMS = {0} THEN 1 ELSE 2
PutItem == /\ pc = "put"
           /\ LET m == w - 1
              IN  /\ Len(dataStrm[m]) < DataDepth
                  /\ dataStrm' = [dataStrm EXCEPT ![m] = Append(@, tmp[m])]
           /\ IF withEnd THEN pc' = "putflag" /\ UNCHANGED <<w, left>>
              ELSE IF w < Streams THEN w' = w + 1 /\ UNCHANGED <<pc, left>>
              ELSE pc' = "loop" /\ left' = left - 1 /\ UNCHANGED w
           /\ UNCHANGED <<hostVars, askVars, e, tmp, fetched, ramVars, queVars, e_dataStrm, expected>>

\* mutant: the last item carries the end flag already
FlagOfItem_End == e
FlagOfItem == FALSE
PutFlag == /\ pc = "putflag"
           /\ LET m == w - 1
              IN  /\ Len(e_dataStrm[m]) < DataDepth
                  /\ e_dataStrm' = [e_dataStrm EXCEPT ![m] = Append(@, FlagOfItem)]
           /\ IF w < Streams THEN w' = w + 1 /\ pc' = "put" ELSE pc' = "loop" /\ UNCHANGED w
           /\ UNCHANGED <<hostVars, askVars, e, left, tmp, fetched, ramVars, queVars, dataStrm, expected>>

PutEnd == /\ pc = "end"
          /\ LET m == w - 1
             IN  /\ Len(e_dataStrm[m]) < DataDepth
                 /\ e_dataStrm' = [e_dataStrm EXCEPT ![m] = Append(@, TRUE)]
          /\ IF w < Streams THEN w' = w + 1 /\ UNCHANGED pc ELSE pc' = "idle" /\ UNCHANGED w
          /\ UNCHANGED <<hostVars, askVars, e, left, tmp, fetched, ramVars, queVars, dataStrm, expected>>

readOnly == ReadFlag \/ LoopTest \/ Access \/ PutItem \/ PutFlag \/ PutEnd

-----------------------------------------------------------------------------
(* The process that takes the answers: an item and its flag, or an end flag *)

TakeItem(m) == /\ dataStrm[m] # <<>>
               /\ withEnd => e_dataStrm[m] # <<>>
               /\ dataStrm' = [dataStrm EXCEPT ![m] = Tail(@)]
               /\ expected' = [expected EXCEPT ![m] = Tail(@)]
               /\ e_dataStrm' = IF withEnd THEN [e_dataStrm EXCEPT ![m] = Tail(@)] ELSE e_dataStrm
               /\ UNCHANGED <<hostVars, askVars, loopVars, ramVars, queVars>>

TakeEnd(m) == /\ dataStrm[m] = <<>> /\ e_dataStrm[m] # <<>>
              /\ Head(e_dataStrm[m])
              /\ e_dataStrm' = [e_dataStrm EXCEPT ![m] = Tail(@)]
              /\ UNCHANGED <<hostVars, askVars, loopVars, ramVars, queVars, dataStrm, expected>>

taker(m) == TakeItem(m) \/ TakeEnd(m)

-----------------------------------------------------------------------------

Next == host \/ asker \/ readOnly \/ \E m \in MEMS : taker(m)

\* The processes run on their own; the host need not call again.
Fairness == WF_vars(asker) /\ WF_vars(readOnly) /\ \A m \in MEMS : WF_vars(taker(m))

Spec == Init /\ [][Next]_vars /\ Fairness

-----------------------------------------------------------------------------
(* Properties *)

\* The cache cannot be told from the memory behind it: the answers on the data
\* streams are, in the order of the addresses, what the off-chip memory holds
\* there now - not what another line left in the row, what a register kept of a
\* row that was replaced, or what was there before the host changed it.
AnswersAreTheMemory ==
    \A m \in MEMS : /\ Len(dataStrm[m]) <= Len(expected[m])
                    /\ \A k \in DOMAIN dataStrm[m] : dataStrm[m][k] = expected[m][k]

\* A line is not fetched while its row holds it, whether the registers still
\* know of the access that fetched it or not: the row is looked up by the same
\* three parts of the address it was stored under.
NoNeedlessFetch ==
    [][(pc = "access" /\ pc' = "put" /\ fetched') =>
           LET k01 == line(Head(addrStrm)) IN onChipRam[row(k01)] # ddrMem(k01)]_vars

\* When the end flag is the next of an answer stream, every address of the call
\* has been answered there; and between two calls nothing is left on a stream.
EndFlagIsLast ==
    /\ \A m \in MEMS : e_dataStrm[m] # <<>> /\ Head(e_dataStrm[m]) =>
                           expected[m] = <<>> /\ Len(e_dataStrm[m]) = 1
    /\ pc = "idle" /\ ask = "done" /\ Drained => expected = [m \in MEMS |-> <<>>]

\* A call returns, although each access waits for the flag of the next one.
CallReturns == (pc # "idle") ~> (pc = "idle" /\ Drained)
=============================================================================
