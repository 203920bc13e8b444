----------------------------- MODULE StreamNToOne -----------------------------
(***************************************************************************)
(* streamNToOne with LoadBalanceT, for different widths (load_balance.hpp):*)
(* one process polls the input streams with empty() and packs what it      *)
(* finds into groups of NSTRM data, one collects groups into buffers of    *)
(* the least common multiple of the two widths, and one cuts the buffers   *)
(* into output words.  The last group and the last buffer are partly       *)
(* filled; how far travels beside them, on streams of its own.             *)
(*                                                                         *)
(* A datum is <<stream, number>>; of its bits only their place matters, so *)
(* a bit is <<datum, place>>.                                              *)
(***************************************************************************)
EXTENDS Integers, Sequences, SequencesExt

CONSTANTS NSTRM,        \* input streams             (32 in the test)
          WIN,          \* _WInStrm                  (16 in the test)
          WOUT,         \* _WOutStrm                (512 in the test)
          LCM,          \* least common multiple of WIN * NSTRM and WOUT
          InDepth,      \* depth of the input streams (4 in the test)
          BufDepth,     \* depth of buf_n_strm and buf_lcm_strm     (8)
          MaxData       \* data of a stream

ASSUME WidthAssumption ==
    /\ {NSTRM, WIN, WOUT, InDepth, BufDepth} \subseteq Nat \ {0} /\ MaxData \in Nat
    /\ LCM \in Nat \ {0} /\ LCM % (WIN * NSTRM) = 0 /\ LCM % WOUT = 0

Strms == 0..NSTRM - 1
count_in == LCM \div (WIN * NSTRM)      \* groups of a buffer
num_out == LCM \div WOUT                \* output words of a buffer

VARIABLES
    counts, sent, ppc,                          \* the producers
    istrms, e_istrms,
    rpc, ri, last, bak_last, got, buff_a,       \* stream_n_to_one_read_lb
    buf_n_strm, e_buf_n_strm, left_n,
    cpc, clast, p, inner_buf,                   \* stream_n_to_one_collect_lb
    buf_lcm_strm, e_buf_lcm_strm, left_lcm,
    dpc, c, up_pos, dlast, out_buf,             \* stream_n_to_one_distribute_lb
    ostrm, e_ostrm

prodVars == <<counts, sent, ppc>>
inVars == <<istrms, e_istrms>>
readVars == <<rpc, ri, last, bak_last, got, buff_a>>
nVars == <<buf_n_strm, e_buf_n_strm, left_n>>
collectVars == <<cpc, clast, p, inner_buf>>
lcmVars == <<buf_lcm_strm, e_buf_lcm_strm, left_lcm>>
distVars == <<dpc, c, up_pos, dlast, out_buf>>
outVars == <<ostrm, e_ostrm>>
vars == <<prodVars, inVars, readVars, nVars, collectVars, lcmVars, distVars, outVars>>

Bits(data) == FlattenSeq([k \in DOMAIN data |-> [b \in 1..WIN |-> <<data[k], b>>]])
Junk == <<-1, -1>>
NoBound == -1           \* up_pos of 2^32 - 1

Init == /\ counts \in [Strms -> 0..MaxData]
        /\ sent = [s \in Strms |-> 0] /\ ppc = [s \in Strms |-> "data"]
        /\ istrms = [s \in Strms |-> <<>>] /\ e_istrms = [s \in Strms |-> <<>>]
        /\ rpc = "init" /\ ri = 0
        /\ last = [s \in Strms |-> FALSE] /\ bak_last = last
        /\ got = <<>> /\ buff_a = <<>>
        /\ buf_n_strm = <<>> /\ e_buf_n_strm = <<>> /\ left_n = <<>>
        /\ cpc = "first" /\ clast = FALSE /\ p = 0 /\ inner_buf = <<>>
        /\ buf_lcm_strm = <<>> /\ e_buf_lcm_strm = <<>> /\ left_lcm = <<>>
        /\ dpc = "loop" /\ c = num_out /\ up_pos = NoBound /\ dlast = FALSE /\ out_buf = <<>>
        /\ ostrm = <<>> /\ e_ostrm = <<>>

-----------------------------------------------------------------------------
(* The producers: each datum, then its flag; the end flag after the last *)

WriteDatum(s) ==
    /\ ppc[s] = "data" /\ sent[s] < counts[s]
    /\ Len(istrms[s]) < InDepth
    /\ istrms' = [istrms EXCEPT ![s] = Append(@, <<s, sent[s] + 1>>)]
    /\ sent' = [sent EXCEPT ![s] = @ + 1]
    /\ ppc' = [ppc EXCEPT ![s] = "flag"]
    /\ UNCHANGED <<counts, e_istrms>>
    /\ UNCHANGED <<readVars, nVars, collectVars, lcmVars, distVars, outVars>>

WriteFlag(s) ==
    /\ Len(e_istrms[s]) < InDepth
    /\ \/ ppc[s] = "flag" /\ ppc' = [ppc EXCEPT ![s] = "data"]
       \/ ppc[s] = "data" /\ sent[s] = counts[s] /\ ppc' = [ppc EXCEPT ![s] = "done"]
    /\ e_istrms' = [e_istrms EXCEPT ![s] = Append(@, ppc[s] = "data")]
    /\ UNCHANGED <<counts, sent, istrms>>
    /\ UNCHANGED <<readVars, nVars, collectVars, lcmVars, distVars, outVars>>

produce(s) == WriteDatum(s) \/ WriteFlag(s)

-----------------------------------------------------------------------------
(* stream_n_to_one_read_lb: the streams are looked at one after the other, *)
(* and a producer may write between two looks.                             *)

\* mutant: an empty flag stream is taken for a stream that goes on
KeptFlag_Forgotten(s) == FALSE
KeptFlag(s) == last[s]

\* e_istrms[s].empty() ? the flag kept : e_istrms[s].read()
TakeFlag(s) ==
    /\ last' = [last EXCEPT ![s] = IF e_istrms[s] = <<>> \/ @ THEN KeptFlag(s)
                                   ELSE Head(e_istrms[s])]
    /\ e_istrms' = [e_istrms EXCEPT ![s] = IF @ = <<>> \/ last[s] THEN @ ELSE Tail(@)]

\* The while condition, after the loop over the streams.
LoopTest(flags) == IF \A s \in Strms : flags[s] THEN "finish" ELSE "data"

InitFlag == /\ rpc = "init"
            /\ TakeFlag(ri)
            /\ IF ri < NSTRM - 1 THEN ri' = ri + 1 /\ rpc' = "init" /\ UNCHANGED bak_last
               ELSE ri' = 0 /\ rpc' = LoopTest(last') /\ bak_last' = last'
            /\ UNCHANGED <<got, buff_a, istrms>>
            /\ UNCHANGED <<prodVars, nVars, collectVars, lcmVars, distVars, outVars>>

\* Neither empty nor finished: read it.
ReadDatum == /\ rpc = "data"
             /\ IF istrms[ri] # <<>> /\ ~bak_last[ri]
                THEN /\ got' = Append(got, Head(istrms[ri]))
                     /\ istrms' = [istrms EXCEPT ![ri] = Tail(@)]
                ELSE UNCHANGED <<got, istrms>>
             /\ rpc' = "flag"
             /\ UNCHANGED <<ri, last, bak_last, buff_a, e_istrms>>
             /\ UNCHANGED <<prodVars, nVars, collectVars, lcmVars, distVars, outVars>>

ReadFlag == /\ rpc = "flag"
            /\ TakeFlag(ri)
            /\ IF ri < NSTRM - 1 THEN ri' = ri + 1 /\ rpc' = "data"
               ELSE ri' = 0 /\ rpc' = "pack"
            /\ UNCHANGED <<bak_last, got, buff_a, istrms>>
            /\ UNCHANGED <<prodVars, nVars, collectVars, lcmVars, distVars, outVars>>

\* The new data behind what buff_a holds; a group goes out when there is one.
Pack == /\ rpc = "pack"
        /\ LET all == buff_a \o got
           IN  IF Len(all) >= NSTRM
               THEN /\ Len(buf_n_strm) < BufDepth /\ Len(e_buf_n_strm) < BufDepth
                    /\ buf_n_strm' = Append(buf_n_strm, SubSeq(all, 1, NSTRM))
                    /\ e_buf_n_strm' = Append(e_buf_n_strm, FALSE)
                    /\ buff_a' = SubSeq(all, NSTRM + 1, Len(all))
               ELSE buff_a' = all /\ UNCHANGED <<buf_n_strm, e_buf_n_strm>>
        /\ got' = <<>>
        /\ bak_last' = last
        /\ rpc' = LoopTest(last)
        /\ UNCHANGED <<ri, last, left_n, prodVars, inVars>>
        /\ UNCHANGED <<collectVars, lcmVars, distVars, outVars>>

\* The last group, whatever it holds, and how many data of it count.
LastGroup == /\ rpc = "finish"
             /\ Len(buf_n_strm) < BufDepth /\ Len(e_buf_n_strm) < BufDepth
             /\ buf_n_strm' = Append(buf_n_strm, buff_a \o [k \in 1..NSTRM - Len(buff_a) |-> Junk])
             /\ e_buf_n_strm' = Append(e_buf_n_strm, TRUE)
             /\ left_n' = Append(left_n, Len(buff_a))
             /\ rpc' = "done"
             /\ UNCHANGED <<ri, last, bak_last, got, buff_a, prodVars, inVars>>
             /\ UNCHANGED <<collectVars, lcmVars, distVars, outVars>>

read_lb == InitFlag \/ ReadDatum \/ ReadFlag \/ Pack \/ LastGroup

-----------------------------------------------------------------------------
(* stream_n_to_one_collect_lb *)

CollectFlag == /\ cpc \in {"first", "flag"}
               /\ e_buf_n_strm # <<>>
               /\ clast' = Head(e_buf_n_strm) /\ e_buf_n_strm' = Tail(e_buf_n_strm)
               /\ cpc' = IF cpc = "first" THEN "group" ELSE "full"
               /\ UNCHANGED <<p, inner_buf, buf_n_strm, left_n>>
               /\ UNCHANGED <<prodVars, inVars, readVars, lcmVars, distVars, outVars>>

CollectGroup == /\ cpc = "group"
                /\ buf_n_strm # <<>>
                /\ inner_buf' = inner_buf \o Bits(Head(buf_n_strm))
                /\ buf_n_strm' = Tail(buf_n_strm)
                /\ cpc' = IF clast THEN "last" ELSE "flag"
                /\ UNCHANGED <<clast, p, e_buf_n_strm, left_n>>
                /\ UNCHANGED <<prodVars, inVars, readVars, lcmVars, distVars, outVars>>

\* The buffer goes out when it is full.
CollectFull == /\ cpc = "full"
               /\ IF p + 1 = count_in
                  THEN /\ Len(buf_lcm_strm) < BufDepth /\ Len(e_buf_lcm_strm) < BufDepth
                       /\ e_buf_lcm_strm' = Append(e_buf_lcm_strm, FALSE)
                       /\ buf_lcm_strm' = Append(buf_lcm_strm, inner_buf)
                       /\ p' = 0 /\ inner_buf' = <<>>
                  ELSE p' = p + 1 /\ UNCHANGED <<inner_buf, buf_lcm_strm, e_buf_lcm_strm>>
               /\ cpc' = "group"
               /\ UNCHANGED <<clast, left_lcm>>
               /\ UNCHANGED <<prodVars, inVars, readVars, nVars, distVars, outVars>>

\* mutant: the groups before the last are not counted
LeftOfBuffer_LastOnly(left) == left
LeftOfBuffer(left) == p * NSTRM + left

CollectLast == /\ cpc = "last"
               /\ left_n # <<>>
               /\ Len(buf_lcm_strm) < BufDepth /\ Len(e_buf_lcm_strm) < BufDepth
               /\ buf_lcm_strm' = Append(buf_lcm_strm, inner_buf)
               /\ e_buf_lcm_strm' = Append(e_buf_lcm_strm, TRUE)
               /\ left_lcm' = Append(left_lcm, LeftOfBuffer(Head(left_n)))
               /\ left_n' = Tail(left_n)
               /\ cpc' = "done"
               /\ UNCHANGED <<clast, p, inner_buf, buf_n_strm, e_buf_n_strm>>
               /\ UNCHANGED <<prodVars, inVars, readVars, distVars, outVars>>

collect_lb == CollectFlag \/ CollectGroup \/ CollectFull \/ CollectLast

-----------------------------------------------------------------------------
(* stream_n_to_one_distribute_lb *)

\* The next buffer, its flag and, after the last one, how far it is filled.
NextBuffer == /\ dpc = "loop" /\ c = num_out
              /\ buf_lcm_strm # <<>> /\ e_buf_lcm_strm # <<>>
              /\ Head(e_buf_lcm_strm) => left_lcm # <<>>
              /\ out_buf' = Head(buf_lcm_strm) /\ buf_lcm_strm' = Tail(buf_lcm_strm)
              /\ dlast' = Head(e_buf_lcm_strm) /\ e_buf_lcm_strm' = Tail(e_buf_lcm_strm)
              /\ IF Head(e_buf_lcm_strm)
                 THEN up_pos' = Head(left_lcm) * WIN /\ left_lcm' = Tail(left_lcm)
                 ELSE UNCHANGED <<up_pos, left_lcm>>
              /\ c' = 0
              /\ UNCHANGED <<dpc, prodVars, inVars, readVars, nVars, collectVars, outVars>>

\* One word; the while condition is tested after each.
PutWord == /\ dpc = "loop" /\ c < num_out
           /\ IF up_pos = NoBound \/ (c + 1) * WOUT <= up_pos
              THEN /\ ostrm' = Append(ostrm, SubSeq(out_buf, c * WOUT + 1, (c + 1) * WOUT))
                   /\ e_ostrm' = Append(e_ostrm, FALSE)
              ELSE UNCHANGED outVars
           /\ c' = c + 1
           /\ dpc' = IF dlast THEN "finish" ELSE "loop"
           /\ UNCHANGED <<up_pos, dlast, out_buf>>
           /\ UNCHANGED <<prodVars, inVars, readVars, nVars, collectVars, lcmVars>>

PutEnd == /\ dpc = "finish"
          /\ e_ostrm' = Append(e_ostrm, TRUE)
          /\ dpc' = "done"
          /\ UNCHANGED <<c, up_pos, dlast, out_buf, ostrm>>
          /\ UNCHANGED <<prodVars, inVars, readVars, nVars, collectVars, lcmVars>>

distribute_lb == NextBuffer \/ PutWord \/ PutEnd

-----------------------------------------------------------------------------

Returned == rpc = "done" /\ cpc = "done" /\ dpc = "done"
Finished == Returned /\ UNCHANGED vars

Next == (\E s \in Strms : produce(s)) \/ read_lb \/ collect_lb \/ distribute_lb \/ Finished

\* The producers and the three processes of the dataflow region run on their own.
Fairness == /\ \A s \in Strms : WF_vars(produce(s))
            /\ WF_vars(read_lb) /\ WF_vars(collect_lb) /\ WF_vars(distribute_lb)

Spec == Init /\ [][Next]_vars /\ Fairness

-----------------------------------------------------------------------------
(* Properties *)

Output == FlattenSeq(ostrm)
Total == FoldFunction(LAMBDA n, sum : n + sum, 0, counts)

\* What is put out is a merge of the input streams, cut into words: no datum is
\* lost between an empty() and the end flag read after it, none is put out twice
\* or ahead of an earlier one of its stream, and once the call has returned all
\* but the bits that fill no word are out.
EveryWordIsDelivered ==
    Returned =>
        /\ Len(Output) = ((Total * WIN) \div WOUT) * WOUT
        /\ \A s \in Strms :
              SelectSeq(Output, LAMBDA bit : bit[1][1] = s)
                  \in {SubSeq(Bits([k \in 1..counts[s] |-> <<s, k>>]), 1, n) :
                           n \in 0..counts[s] * WIN}
        /\ e_ostrm = [k \in 1..Len(ostrm) |-> FALSE] \o <<TRUE>>

\* The polling loop ends: every end flag is taken at last, whichever order the
\* streams dry up in, and the two processes behind it finish with it.
CallReturns == <>Returned
=============================================================================
