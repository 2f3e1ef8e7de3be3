------------------------------ MODULE ScStream ------------------------------
(***************************************************************************)
(* stream_send and stream_recv of the SystemC build (shared/sysc/          *)
(* stream.cpp): words of a call to flits of a channel and back.  The       *)
(* header word of a packet travels beside the data of every flit.  One     *)
(* side runs the calls Sends, the other the calls Recvs.                   *)
(***************************************************************************)
EXTENDS Naturals, SequencesExt

CONSTANTS Depth, Sends, Recvs   \* a call: [words, flags]

VARIABLES sidx, m_hdr, out,     \* calls begun, their header, flits to write
          chan,
          ridx, s_hdr, got,     \* calls done, their header, words of the call
          sent, taken, failed

vars == <<sidx, m_hdr, out, chan, ridx, s_hdr, got, sent, taken, failed>>

Flit(hdr, data, last) == [hdr |-> hdr, data |-> data, last |-> last]

BEGP(c) == "BEGP" \in c.flags /\ c.words # <<>>
ENDP(c) == "ENDP" \in c.flags

(* The data words of a call: all but the header of the first *)
Data(c) == IF BEGP(c) THEN Tail(c.words) ELSE c.words

(* Every word but the last goes without tlast *)
Flits(hdr, c) == [i \in 1..Len(Data(c)) |-> Flit(hdr, Data(c)[i], ENDP(c) /\ i = Len(Data(c)))]

(* stream_send up to its first STREAM_WRITE *)
stream_send ==
    /\ out = <<>> /\ sidx < Len(Sends)
    /\ LET c == Sends[sidx + 1]
           hdr == IF BEGP(c) THEN c.words[1] ELSE m_hdr
       IN /\ m_hdr' = hdr
          /\ out' = Flits(hdr, c)
          /\ sent' = sent \o c.words
    /\ sidx' = sidx + 1
    /\ UNCHANGED <<chan, ridx, s_hdr, got, taken, failed>>

STREAM_WRITE ==
    /\ out # <<>> /\ Len(chan) < Depth
    /\ chan' = Append(chan, Head(out)) /\ out' = Tail(out)
    /\ UNCHANGED <<sidx, m_hdr, ridx, s_hdr, got, sent, taken, failed>>

(* One STREAM_READ of stream_recv: the first flit of a packet gives two    *)
(* words, and the last word is checked against tlast                       *)
stream_recv ==
    /\ ridx < Len(Recvs) /\ chan # <<>>
    /\ LET c == Recvs[ridx + 1]
           f == Head(chan)
           first == "BEGP" \in c.flags /\ got = <<>> /\ c.words > 0
           now == got \o IF first THEN IF c.words > 1 THEN <<f.hdr, f.data>> ELSE <<f.hdr>> ELSE <<f.data>>
       IN /\ s_hdr' = IF first THEN f.hdr ELSE s_hdr
          /\ chan' = Tail(chan)
          /\ IF Len(now) < c.words THEN got' = now /\ UNCHANGED <<ridx, taken, failed>>
             ELSE /\ got' = <<>> /\ ridx' = ridx + 1
                  /\ taken' = taken \o now
                  /\ failed' = (failed \/ (~first /\ ENDP(c) # f.last))
    /\ UNCHANGED <<sidx, m_hdr, out, sent>>

Init ==
    /\ sidx = 0 /\ m_hdr = 0 /\ out = <<>> /\ chan = <<>>
    /\ ridx = 0 /\ s_hdr = 0 /\ got = <<>> /\ sent = <<>> /\ taken = <<>> /\ failed = FALSE

Next == stream_send \/ STREAM_WRITE \/ stream_recv

Spec == Init /\ [][Next]_vars

-----------------------------------------------------------------------------
(* What the receiver takes is a prefix of what was sent, headers included, *)
(* however the two sides cut the packets into calls, and no call that ends *)
(* where a packet ends is refused (stream_send, stream_recv).              *)
StreamExact == IsPrefix(taken, sent) /\ ~failed
=============================================================================
