--------------------------------- MODULE Hmac ---------------------------------
(***************************************************************************)
(* hmacDataflow (hmac.hpp): kpad makes the inner and the outer pad of each *)
(* key, msgHash hashes the inner pad and the message, resHash hashes the   *)
(* outer pad and that digest.  The outer pad waits beside the message in   *)
(* streams of its own; nothing but the order of the streams ties it to the *)
(* digest it belongs to.                                                   *)
(*                                                                         *)
(* The hash F is any function over streams that behaves as HashFunction    *)
(* says: it reads flag, length and words of a message, may hold FDepth     *)
(* messages, and writes digest and flag.  A digest is the record of what   *)
(* was hashed.  A word is the tuple of its bytes, the low one first.       *)
(***************************************************************************)
EXTENDS Integers, Sequences, SequencesExt

CONSTANTS WordBytes,    \* dataW / 8                     (4)
          blockSize,    \* bytes of a pad               (64)
          HashBytes,    \* hshW / 8                     (32)
          KeyLens,      \* values of keyLen             (32)
          MsgLens,      \* lengths a message may have
          MaxMessages,  \* messages of a call
          PadDepth,     \* depth of kipadStrm, kopadStrm, kopad2Strm     (16)
          FlagDepth,    \* depth of the flag and length streams           (8)
          DataDepth,    \* depth of mergeKipadStrm, mergeKopadStrm       (32)
          HashDepth,    \* depth of msgHashStrm                          (16)
          FDepth        \* messages the hash may hold

ASSUME HmacAssumption ==
    /\ {WordBytes, blockSize, HashBytes, PadDepth, FlagDepth, DataDepth, HashDepth, FDepth}
           \subseteq Nat \ {0}
    /\ blockSize % WordBytes = 0 /\ HashBytes % WordBytes = 0 /\ HashBytes <= blockSize
    /\ KeyLens \subseteq Nat /\ MsgLens \subseteq Nat /\ MaxMessages \in Nat

\* The three places the hash is used in: on keys longer than a block, on the
\* inner pad and the message, on the outer pad and the digest.
Units == {"key", "msg", "res"}

VARIABLES
    keyLen, lens,                           \* the template argument, the messages
    xpc, expanded,                          \* expandStrm
    kpc, padded, k1,                        \* kpad, or genPad for a long key
    mpc, merged, mi, kipad, mkopad, msgRead,    \* mergeKipad
    rpc, ri, kopad, msgHash,                \* mergeKopad
    fpc, flen, facc, flight, opc,           \* the hash, in each unit
    eIn, lenIn, dataIn, hashOut, eOut,      \* its streams
    kipadStrm, kopadStrm, eKipadStrm, kopad2Strm

expandVars == <<xpc, expanded>>
kpadVars == <<kpc, padded, k1>>
mergeKipadVars == <<mpc, merged, mi, kipad, mkopad, msgRead>>
mergeKopadVars == <<rpc, ri, kopad, msgHash>>
takeVars == <<fpc, flen, facc>>
fIn == <<eIn, lenIn, dataIn>>
fOut == <<hashOut, eOut>>
padStrms == <<kipadStrm, kopadStrm, eKipadStrm>>
vars == <<keyLen, lens, expandVars, kpadVars, mergeKipadVars, mergeKopadVars,
          takeVars, flight, opc, fIn, fOut, padStrms, kopad2Strm>>

Words(bytes) == (bytes + WordBytes - 1) \div WordBytes
Zero == <<"zero">>

\* Key byte b of call m, and word w of that key: a caller fills up with zeros.
KeyByte(m, b) == IF b < keyLen THEN <<"key", m, b>> ELSE Zero
KeyWord(m, w) == [b \in 1..WordBytes |-> KeyByte(m, w * WordBytes + b - 1)]
MsgWord(m, w) == <<"msg", m, w>>
KeyStream == FlattenSeq([m \in DOMAIN lens |-> [w \in 1..Words(keyLen) |-> KeyWord(m, w - 1)]])
MsgStream == FlattenSeq([m \in DOMAIN lens |-> [w \in 1..Words(lens[m]) |-> MsgWord(m, w - 1)]])

Digest(bytes, words) == [bytes |-> bytes, words |-> words]
HashByte(h, b) == <<"hash", h, b>>
HashWord(h, w) == [b \in 1..WordBytes |-> HashByte(h, w * WordBytes + b - 1)]

LongKey == keyLen > blockSize

Put(strm, depth, x) == Len(strm) < depth /\ strm' = Append(strm, x)
PutAt(strm, u, depth, x) == Len(strm[u]) < depth /\ strm' = [strm EXCEPT ![u] = Append(@, x)]
Get(strm) == strm # <<>> /\ strm' = Tail(strm)
GetAt(strm, u) == strm[u] # <<>> /\ strm' = [strm EXCEPT ![u] = Tail(@)]

Init == /\ keyLen \in KeyLens /\ lens \in BoundedSeq(MsgLens, MaxMessages)
        /\ xpc = (IF LongKey THEN "e" ELSE "done") /\ expanded = 0
        /\ kpc = "e" /\ padded = 0 /\ k1 = <<>>
        /\ mpc = "e" /\ merged = 0 /\ mi = 0 /\ kipad = <<>> /\ mkopad = <<>> /\ msgRead = 0
        /\ rpc = "e" /\ ri = 0 /\ kopad = <<>> /\ msgHash = <<>>
        /\ fpc = [u \in Units |-> IF u = "key" /\ ~LongKey THEN "done" ELSE "e"]
        /\ opc = [u \in Units |-> IF u = "key" /\ ~LongKey THEN "done" ELSE "hash"]
        /\ flen = [u \in Units |-> 0] /\ facc = [u \in Units |-> <<>>]
        /\ flight = [u \in Units |-> <<>>]
        /\ eIn = [u \in Units |-> <<>>] /\ lenIn = [u \in Units |-> <<>>]
        /\ dataIn = [u \in Units |-> IF u = "key" THEN KeyStream ELSE <<>>]
        /\ hashOut = [u \in Units |-> <<>>] /\ eOut = [u \in Units |-> <<>>]
        /\ kipadStrm = <<>> /\ kopadStrm = <<>> /\ eKipadStrm = <<>> /\ kopad2Strm = <<>>

-----------------------------------------------------------------------------
(* expandStrm: a flag and the key's length for every flag of the caller *)

ExpandFlag == /\ xpc = "e"
              /\ PutAt(eIn, "key", FlagDepth, expanded = Len(lens))
              /\ IF expanded = Len(lens) THEN xpc' = "done" /\ UNCHANGED expanded
                 ELSE xpc' = "len" /\ expanded' = expanded + 1
              /\ UNCHANGED <<keyLen, lens, kpadVars, mergeKipadVars, mergeKopadVars, takeVars,
                             flight, opc, lenIn, dataIn, fOut, padStrms, kopad2Strm>>

ExpandLen == /\ xpc = "len"
             /\ PutAt(lenIn, "key", FlagDepth, keyLen)
             /\ xpc' = "e"
             /\ UNCHANGED <<keyLen, lens, expanded, kpadVars, mergeKipadVars, mergeKopadVars,
                            takeVars, flight, opc, eIn, dataIn, fOut, padStrms, kopad2Strm>>

expandStrm == ExpandFlag \/ ExpandLen

-----------------------------------------------------------------------------
(* kpad.  k1 is the register of a block, its low byte first. *)

ZeroBlock == [b \in 1..blockSize |-> Zero]
ShiftWord(reg) == [b \in 1..blockSize |-> IF b > WordBytes THEN reg[b - WordBytes] ELSE Zero]

\* mutant: the words are put at the low end of the register
KeyAt_Low == 0
\* Where the words of the key enter the register.
KeyAt == blockSize - keyLen
Enter(reg, word) == [b \in 1..blockSize |->
                        IF b - KeyAt \in 1..WordBytes THEN word[b - KeyAt] ELSE ShiftWord(reg)[b]]
ShortKeyBlock ==
    LET reg[w \in 0..Words(keyLen)] ==        \* after w words
            IF w = 0 THEN ZeroBlock ELSE Enter(reg[w - 1], dataIn["key"][w])
    IN  reg[Words(keyLen)]

\* Word w of the hashed key goes under the top of the register.
LongKeyBlock(h) ==
    [b \in 1..blockSize |->
        LET w == (blockSize - b) \div WordBytes
        IN  IF w < HashBytes \div WordBytes
            THEN HashWord(h, w)[b - (blockSize - (w + 1) * WordBytes)] ELSE Zero]

\* The caller's flag and the words of the key, all there from the start.
KpadKey == /\ kpc = "e" /\ ~LongKey
           /\ IF padded = Len(lens) THEN kpc' = "finish" /\ UNCHANGED <<padded, k1, dataIn>>
              ELSE /\ k1' = ShortKeyBlock
                   /\ dataIn' = [dataIn EXCEPT !["key"] = SubSeq(@, Words(keyLen) + 1, Len(@))]
                   /\ padded' = padded + 1
                   /\ kpc' = "ipad"
           /\ UNCHANGED <<keyLen, lens, expandVars, mergeKipadVars, mergeKopadVars, takeVars,
                          flight, opc, eIn, lenIn, fOut, padStrms, kopad2Strm>>

GenPadFlag == /\ kpc = "e" /\ LongKey
              /\ GetAt(eOut, "key")
              /\ kpc' = IF Head(eOut["key"]) THEN "finish" ELSE "hash"
              /\ UNCHANGED <<keyLen, lens, expandVars, padded, k1, mergeKipadVars, mergeKopadVars,
                             takeVars, flight, opc, fIn, hashOut, padStrms, kopad2Strm>>

GenPadHash == /\ kpc = "hash"
              /\ GetAt(hashOut, "key")
              /\ k1' = LongKeyBlock(Head(hashOut["key"]))
              /\ padded' = padded + 1
              /\ kpc' = "ipad"
              /\ UNCHANGED <<keyLen, lens, expandVars, mergeKipadVars, mergeKopadVars, takeVars,
                             flight, opc, fIn, eOut, padStrms, kopad2Strm>>

\* The key with every byte XORed with 0x36, or with 0x5c.
Xor(reg, mask) == [b \in 1..blockSize |-> <<mask, reg[b]>>]

PutKipad == /\ kpc = "ipad"
            /\ Put(kipadStrm, PadDepth, Xor(k1, "36"))
            /\ kpc' = "opad"
            /\ UNCHANGED <<keyLen, lens, expandVars, padded, k1, mergeKipadVars, mergeKopadVars,
                           takeVars, flight, opc, fIn, fOut, kopadStrm, eKipadStrm, kopad2Strm>>

PutKopad == /\ kpc = "opad"
            /\ Put(kopadStrm, PadDepth, Xor(k1, "5c"))
            /\ kpc' = "flag"
            /\ UNCHANGED <<keyLen, lens, expandVars, padded, k1, mergeKipadVars, mergeKopadVars,
                           takeVars, flight, opc, fIn, fOut, kipadStrm, eKipadStrm, kopad2Strm>>

PutPadFlag == /\ kpc \in {"flag", "finish"}
              /\ Put(eKipadStrm, FlagDepth, kpc = "finish")
              /\ kpc' = IF kpc = "finish" THEN "done" ELSE "e"
              /\ UNCHANGED <<keyLen, lens, expandVars, padded, k1, mergeKipadVars, mergeKopadVars,
                             takeVars, flight, opc, fIn, fOut, kipadStrm, kopadStrm, kopad2Strm>>

kpad == KpadKey \/ GenPadFlag \/ GenPadHash \/ PutKipad \/ PutKopad \/ PutPadFlag

-----------------------------------------------------------------------------
(* mergeKipad *)

TopWord(reg) == SubSeq(reg, blockSize - WordBytes + 1, blockSize)

MergeReadFlag ==
    /\ mpc = "e"
    /\ Get(eKipadStrm)
    /\ mpc' = IF Head(eKipadStrm) THEN "finish" ELSE "flag"
    /\ UNCHANGED <<keyLen, lens, expandVars, kpadVars, merged, mi, kipad, mkopad, msgRead,
                   mergeKopadVars, takeVars, flight, opc, fIn, fOut,
                   kipadStrm, kopadStrm, kopad2Strm>>

MergeFlag ==
    /\ mpc \in {"flag", "finish"}
    /\ PutAt(eIn, "msg", FlagDepth, mpc = "finish")
    /\ mpc' = IF mpc = "finish" THEN "done" ELSE "len"
    /\ UNCHANGED <<keyLen, lens, expandVars, kpadVars, merged, mi, kipad, mkopad, msgRead,
                   mergeKopadVars, takeVars, flight, opc, lenIn, dataIn, fOut,
                   padStrms, kopad2Strm>>

\* The length of the caller's next message and of the block before it.
MergeLen ==
    /\ mpc = "len"
    /\ PutAt(lenIn, "msg", FlagDepth, lens[merged + 1] + blockSize)
    /\ merged' = merged + 1
    /\ mpc' = "ipad"
    /\ UNCHANGED <<keyLen, lens, expandVars, kpadVars, mi, kipad, mkopad, msgRead,
                   mergeKopadVars, takeVars, flight, opc, eIn, dataIn, fOut,
                   padStrms, kopad2Strm>>

MergeReadKipad ==
    /\ mpc = "ipad"
    /\ Get(kipadStrm)
    /\ kipad' = Head(kipadStrm) /\ mi' = 0
    /\ mpc' = "pad_words"
    /\ UNCHANGED <<keyLen, lens, expandVars, kpadVars, merged, mkopad, msgRead, mergeKopadVars,
                   takeVars, flight, opc, fIn, fOut, kopadStrm, eKipadStrm, kopad2Strm>>

MergePadWord ==
    /\ mpc = "pad_words"
    /\ PutAt(dataIn, "msg", DataDepth, TopWord(kipad))
    /\ kipad' = ShiftWord(kipad)
    /\ IF mi + 1 < Words(blockSize) THEN mi' = mi + 1 /\ UNCHANGED mpc
       ELSE mi' = 0 /\ mpc' = "opad"
    /\ UNCHANGED <<keyLen, lens, expandVars, kpadVars, merged, mkopad, msgRead, mergeKopadVars,
                   takeVars, flight, opc, eIn, lenIn, fOut, padStrms, kopad2Strm>>

MergeReadKopad ==
    /\ mpc = "opad"
    /\ Get(kopadStrm)
    /\ mkopad' = Head(kopadStrm)
    /\ mpc' = "pass_opad"
    /\ UNCHANGED <<keyLen, lens, expandVars, kpadVars, merged, mi, kipad, msgRead, mergeKopadVars,
                   takeVars, flight, opc, fIn, fOut, kipadStrm, eKipadStrm, kopad2Strm>>

MergePassKopad ==
    /\ mpc = "pass_opad"
    /\ Put(kopad2Strm, PadDepth, mkopad)
    /\ mpc' = "msg_words"
    /\ UNCHANGED <<keyLen, lens, expandVars, kpadVars, merged, mi, kipad, mkopad, msgRead,
                   mergeKopadVars, takeVars, flight, opc, fIn, fOut, padStrms>>

\* mutant: the words of a message are rounded down
MsgWords_Down(bytes) == bytes \div WordBytes
MsgWords(bytes) == Words(bytes)

MergeMsgWord ==
    /\ mpc = "msg_words"
    /\ IF mi < MsgWords(lens[merged])
       THEN /\ PutAt(dataIn, "msg", DataDepth, MsgStream[msgRead + 1])
            /\ msgRead' = msgRead + 1 /\ mi' = mi + 1 /\ UNCHANGED mpc
       ELSE mpc' = "e" /\ UNCHANGED <<mi, msgRead, dataIn>>
    /\ UNCHANGED <<keyLen, lens, expandVars, kpadVars, merged, kipad, mkopad, mergeKopadVars,
                   takeVars, flight, opc, eIn, lenIn, fOut, padStrms, kopad2Strm>>

mergeKipad == MergeReadFlag \/ MergeFlag \/ MergeLen \/ MergeReadKipad \/ MergePadWord
              \/ MergeReadKopad \/ MergePassKopad \/ MergeMsgWord

-----------------------------------------------------------------------------
(* mergeKopad *)

ResReadFlag ==
    /\ rpc = "e"
    /\ GetAt(eOut, "msg")
    /\ rpc' = IF Head(eOut["msg"]) THEN "finish" ELSE "flag"
    /\ UNCHANGED <<keyLen, lens, expandVars, kpadVars, mergeKipadVars, ri, kopad, msgHash,
                   takeVars, flight, opc, fIn, hashOut, padStrms, kopad2Strm>>

ResFlag ==
    /\ rpc \in {"flag", "finish"}
    /\ PutAt(eIn, "res", FlagDepth, rpc = "finish")
    /\ rpc' = IF rpc = "finish" THEN "done" ELSE "len"
    /\ UNCHANGED <<keyLen, lens, expandVars, kpadVars, mergeKipadVars, ri, kopad, msgHash,
                   takeVars, flight, opc, lenIn, dataIn, fOut, padStrms, kopad2Strm>>

ResLen ==
    /\ rpc = "len"
    /\ PutAt(lenIn, "res", FlagDepth, blockSize + HashBytes)
    /\ rpc' = "opad"
    /\ UNCHANGED <<keyLen, lens, expandVars, kpadVars, mergeKipadVars, ri, kopad, msgHash,
                   takeVars, flight, opc, eIn, dataIn, fOut, padStrms, kopad2Strm>>

ResReadKopad ==
    /\ rpc = "opad"
    /\ Get(kopad2Strm)
    /\ kopad' = Head(kopad2Strm)
    /\ rpc' = "hash"
    /\ UNCHANGED <<keyLen, lens, expandVars, kpadVars, mergeKipadVars, ri, msgHash,
                   takeVars, flight, opc, fIn, fOut, padStrms>>

ResReadHash ==
    /\ rpc = "hash"
    /\ GetAt(hashOut, "msg")
    /\ msgHash' = Head(hashOut["msg"]) /\ ri' = 0
    /\ rpc' = "words"
    /\ UNCHANGED <<keyLen, lens, expandVars, kpadVars, mergeKipadVars, kopad,
                   takeVars, flight, opc, fIn, eOut, padStrms, kopad2Strm>>

\* The words of the pad from its top, then those of the digest from its low end.
ResWord ==
    /\ rpc = "words"
    /\ LET n == Words(blockSize)
       IN  PutAt(dataIn, "res", DataDepth,
                 IF ri < n THEN TopWord(kopad) ELSE HashWord(msgHash, ri - n))
    /\ kopad' = ShiftWord(kopad)
    /\ IF ri + 1 < Words(blockSize) + Words(HashBytes) THEN ri' = ri + 1 /\ UNCHANGED rpc
       ELSE ri' = 0 /\ rpc' = "e"
    /\ UNCHANGED <<keyLen, lens, expandVars, kpadVars, mergeKipadVars, msgHash,
                   takeVars, flight, opc, eIn, lenIn, fOut, padStrms, kopad2Strm>>

mergeKopad == ResReadFlag \/ ResFlag \/ ResLen \/ ResReadKopad \/ ResReadHash \/ ResWord

-----------------------------------------------------------------------------
(* The hash of unit u: it takes messages in, and puts digests out *)

END == Digest(-1, <<>>)
OutDepth(u) == IF u = "msg" THEN HashDepth ELSE FlagDepth

TakeFlag(u) ==
    /\ fpc[u] = "e"
    /\ GetAt(eIn, u)
    /\ Len(flight[u]) < FDepth
    /\ IF Head(eIn[u])
       THEN /\ fpc' = [fpc EXCEPT ![u] = "done"]
            /\ flight' = [flight EXCEPT ![u] = Append(@, END)]
       ELSE fpc' = [fpc EXCEPT ![u] = "len"] /\ UNCHANGED flight
    /\ UNCHANGED <<keyLen, lens, expandVars, kpadVars, mergeKipadVars, mergeKopadVars,
                   flen, facc, opc, lenIn, dataIn, fOut, padStrms, kopad2Strm>>

TakeLen(u) ==
    /\ fpc[u] = "len"
    /\ GetAt(lenIn, u)
    /\ flen' = [flen EXCEPT ![u] = Head(lenIn[u])]
    /\ facc' = [facc EXCEPT ![u] = <<>>]
    /\ fpc' = [fpc EXCEPT ![u] = "words"]
    /\ UNCHANGED <<keyLen, lens, expandVars, kpadVars, mergeKipadVars, mergeKopadVars,
                   flight, opc, eIn, dataIn, fOut, padStrms, kopad2Strm>>

TakeWord(u) ==
    /\ fpc[u] = "words"
    /\ IF Len(facc[u]) < Words(flen[u])
       THEN /\ GetAt(dataIn, u)
            /\ facc' = [facc EXCEPT ![u] = Append(@, Head(dataIn[u]))]
            /\ UNCHANGED <<fpc, flight>>
       ELSE /\ flight' = [flight EXCEPT ![u] = Append(@, Digest(flen[u], facc[u]))]
            /\ fpc' = [fpc EXCEPT ![u] = "e"]
            /\ UNCHANGED <<facc, dataIn>>
    /\ UNCHANGED <<keyLen, lens, expandVars, kpadVars, mergeKipadVars, mergeKopadVars,
                   flen, opc, eIn, lenIn, fOut, padStrms, kopad2Strm>>

take(u) == TakeFlag(u) \/ TakeLen(u) \/ TakeWord(u)

\* The caller keeps room for the results.
RoomFor(strm, u) == u = "res" \/ Len(strm[u]) < OutDepth(u)

PutHash(u) ==
    /\ opc[u] = "hash" /\ flight[u] # <<>> /\ Head(flight[u]) # END
    /\ RoomFor(hashOut, u)
    /\ hashOut' = [hashOut EXCEPT ![u] = Append(@, Head(flight[u]))]
    /\ flight' = [flight EXCEPT ![u] = Tail(@)]
    /\ opc' = [opc EXCEPT ![u] = "flag"]
    /\ UNCHANGED <<keyLen, lens, expandVars, kpadVars, mergeKipadVars, mergeKopadVars,
                   takeVars, fIn, eOut, padStrms, kopad2Strm>>

PutHashFlag(u) ==
    /\ RoomFor(eOut, u)
    /\ \/ /\ opc[u] = "flag"
          /\ opc' = [opc EXCEPT ![u] = "hash"]
          /\ eOut' = [eOut EXCEPT ![u] = Append(@, FALSE)]
          /\ UNCHANGED flight
       \/ /\ opc[u] = "hash" /\ flight[u] # <<>> /\ Head(flight[u]) = END
          /\ opc' = [opc EXCEPT ![u] = "done"]
          /\ eOut' = [eOut EXCEPT ![u] = Append(@, TRUE)]
          /\ flight' = [flight EXCEPT ![u] = Tail(@)]
    /\ UNCHANGED <<keyLen, lens, expandVars, kpadVars, mergeKipadVars, mergeKopadVars,
                   takeVars, fIn, hashOut, padStrms, kopad2Strm>>

put(u) == PutHash(u) \/ PutHashFlag(u)

-----------------------------------------------------------------------------

Returned == /\ xpc = "done" /\ kpc = "done" /\ mpc = "done" /\ rpc = "done"
            /\ \A u \in Units : fpc[u] = "done" /\ opc[u] = "done"
Finished == Returned /\ UNCHANGED vars

Next == expandStrm \/ kpad \/ mergeKipad \/ mergeKopad
        \/ (\E u \in Units : take(u) \/ put(u)) \/ Finished

\* No step is ever taken back, so it is enough that some process that can step
\* does; that each does, as in the hardware, implies this.
Fairness == WF_vars(Next)

Spec == Init /\ [][Next]_vars /\ Fairness

-----------------------------------------------------------------------------
(* Properties *)

\* HMAC, as RFC 2104 and the test's comment define it: the key, or its hash when
\* it is longer than a block, filled up with zeros; the inner hash of the key
\* with 0x36 and the message; the hash of the key with 0x5c and that.
Key(m) == IF LongKey
          THEN LET h == Digest(keyLen, [w \in 1..Words(keyLen) |-> KeyWord(m, w - 1)])
               IN  [b \in 1..HashBytes |-> HashByte(h, b - 1)]
          ELSE [b \in 1..keyLen |-> <<"key", m, b - 1>>]
Pad(m, mask) == [w \in 1..Words(blockSize) |-> [b \in 1..WordBytes |->
                    LET k == (w - 1) * WordBytes + b
                    IN  <<mask, IF k <= Len(Key(m)) THEN Key(m)[k] ELSE Zero>>]]
Inner(m) == Digest(blockSize + lens[m],
                   Pad(m, "36") \o [w \in 1..Words(lens[m]) |-> MsgWord(m, w - 1)])
Tag(m) == Digest(blockSize + HashBytes,
                 Pad(m, "5c") \o [w \in 1..Words(HashBytes) |-> HashWord(Inner(m), w - 1)])

\* Every result is the HMAC of its own message under its own key, in order,
\* although the two pads of a key go different ways and overtake the messages;
\* and once the call has returned every message has its result and every stream
\* is empty.
TagsOfTheirMessages ==
    /\ Len(hashOut["res"]) <= Len(lens)
    /\ \A m \in DOMAIN hashOut["res"] : hashOut["res"][m] = Tag(m)
    /\ Returned => /\ Len(hashOut["res"]) = Len(lens)
                   /\ {kipadStrm, kopadStrm, eKipadStrm, kopad2Strm, hashOut["key"],
                       hashOut["msg"], eOut["key"], eOut["msg"]} = {<<>>}
                   /\ \A u \in Units : <<eIn[u], lenIn[u], dataIn[u]>> = <<<<>>, <<>>, <<>>>>

\* Every call returns: the outer pad, held back until the digest of its message
\* is there, never blocks the words that digest needs.
CallReturns == <>Returned
=============================================================================
