------------------------------ MODULE HashUnit ------------------------------
(***************************************************************************)
(* The SystemC hash unit: hsu.h's glue between the control registers       *)
(* (CtlReg) and the pipelined short_hash of shash.h.  Keys come from the   *)
(* data registers with a go packet or from the data stream s_dat1; the     *)
(* masked hash leaves on m_dat1 or, through registers 6 and 7, as a        *)
(* control packet that writes register 4 of another unit and starts it.    *)
(* One step is one clock edge; what the two ends of every stream do on an  *)
(* edge is the environment's choice.                                       *)
(***************************************************************************)
EXTENDS CtlReg

LOCAL INSTANCE SequencesExt

CONSTANTS STAGES,     \* pipeline depth of short_hash
          Configs,    \* values of register 3: [seldi, seldo, hlen]
          Programs    \* what the host sends: sequences of control flits
CONSTANT Keys         \* the keys of the data stream, in order

VARIABLES r,          \* the control registers
          pipe,       \* the hash pipeline, stage 0 first
          host, keys, \* flits and keys not yet accepted
          hashed,     \* observer: the keys that entered the pipeline
          answers, indices, \* observers: flits left on m_ctl, m_dat1
          program     \* all the flits of the host

vars == <<r, pipe, host, keys, hashed, answers, indices, program>>

hreg == 6
data == 4
cfg == r.reg[3]
_data == <<r.reg[data], r.reg[data + 1]>>

\* One word of the masked hash of a key
Index(key, w) == <<key, w>>

Init ==
    /\ \E c \in Configs : r = ctlreg_reset([i \in 0 .. CR-1 |-> IF i = 3 THEN c ELSE None])
    /\ pipe = [s \in 1 .. STAGES |-> None]
    /\ program \in Programs /\ host = program /\ keys = Keys
    /\ hashed = <<>> /\ answers = <<>> /\ indices = <<>>

\* mc_key_tap_in: which source the next key comes from, and whether it is there
KeyValid(datv) == IF cfg.seldi THEN datv ELSE acmd_valid(r)
Key == IF cfg.seldi THEN <<Head(keys), Head(keys)>> ELSE _data

\* mc_hash_out: c_tapo.ready, and the answer prepared for the registers
Done == pipe[STAGES]
TapReady(drdy) == IF cfg.seldo THEN drdy ELSE arsp_ready(r)
Answer == IF ~cfg.seldo /\ Done # None
          THEN ACMD("hsu", "lsu", hreg, (cfg.hlen + 3) \div 4,
                    [wr |-> TRUE, go |-> TRUE, sel |-> data, len |-> (cfg.hlen + 3) \div 4])
          ELSE None
HashWrite == IF Answer # None /\ arsp_ready(r)
             THEN (hreg :> Index(Done, 0)) @@ (hreg + 1 :> Index(Done, 1)) ELSE <<>>

\* ms_mix: every stage moves, or none does
ms_mix(in) == [s \in 1 .. STAGES |-> IF s = 1 THEN in ELSE pipe[s-1]]

\* One edge: a flit is offered on s_ctl (ctlv), a key on s_dat1 (datv), the
\* readers of m_ctl and m_dat1 are ready (crdy, drdy)
Edge(ctlv, datv, crdy, drdy) ==
    LET in == IF ctlv THEN Head(host) ELSE None
        tap == TapReady(drdy)
        fed == tap /\ KeyValid(datv)
    IN  /\ ctlv => host # <<>>
        /\ datv => keys # <<>>
        /\ r' = ctlreg_edge(r, in, tap /\ ~cfg.seldi, Answer, HashWrite, crdy)
        /\ pipe' = IF tap THEN ms_mix(IF KeyValid(datv) THEN Key ELSE None) ELSE pipe
        /\ hashed' = IF fed THEN Append(hashed, Key) ELSE hashed
        /\ keys' = IF fed /\ cfg.seldi THEN Tail(keys) ELSE keys
        /\ host' = IF ctlv /\ s_ctl_ready(r) THEN Tail(host) ELSE host
        /\ answers' = IF m_ctl_valid(r) /\ crdy THEN Append(answers, r.out) ELSE answers
        /\ indices' = IF cfg.seldo /\ Done # None /\ drdy
                      THEN Append(indices, Done) ELSE indices
        /\ UNCHANGED program

Next == \E ctlv, datv, crdy, drdy \in BOOLEAN : Edge(ctlv, datv, crdy, drdy)

\* The clock never stops, and neither end of a stream stalls for ever
Fairness == \A cv, dv \in BOOLEAN : WF_vars(Edge(cv, dv, TRUE, TRUE))

Spec == Init /\ [][Next]_vars /\ Fairness
-----------------------------------------------------------------------------
Words == (cfg.hlen + 3) \div 4
IsHash(f) == f.wr /\ f.go
HashAnswers == SelectSeq(answers, IsHash)

\* The key a go packet asks to be hashed is the pair of words that packet
\* wrote: a later packet does not overwrite the data registers before the
\* hash has taken them ("must be 1 to prevent register overwrite",
\* ctlreg.h:200), and stream keys are neither skipped nor repeated.
KeysWhole ==
    \A n \in 1 .. Len(hashed) :
        /\ hashed[n][1] = hashed[n][2]
        /\ hashed[n][1] = n

\* The hash a flit of an answer stands for, and the word of it
Nth(n) == ((n - 1) \div Words) + 1
Part(n) == (n - 1) % Words

\* The answers that leave the unit are those of the hashes of the keys taken, in
\* order: none is lost or repeated, however the reader of the control stream
\* stalls, and the first word is always that of its key.  The second word of a
\* hash longer than four bytes may be that of the next key: u_arsp gives up its
\* entry before the flit with register 7 is read, so that the next hash writes
\* registers 6 and 7 meanwhile, although a depth of 1 "must be ... to prevent
\* register overwrite" (ctlreg.h:201).  A register read answers with the register.
AnswersMatch ==
    /\ \A n \in 1 .. Len(HashAnswers) :
          \/ HashAnswers[n].data = Index(hashed[Nth(n)], Part(n))
          \/ Part(n) > 0 /\ HashAnswers[n].data = Index(hashed[Nth(n) + 1], Part(n))
    /\ \A n \in 1 .. Len(indices) : indices[n] = hashed[n]
    /\ \A n \in 1 .. Len(answers) :
          ~answers[n].wr => answers[n].data = r.reg[answers[n].sel]

\* Everything asked for has been answered: each word of the hash of each key of
\* the program or the stream, and each register of each read.
Answered ==
    LET Reads == SelectSeq(program, LAMBDA f : ~f.wr)
        Goes == SelectSeq(program, LAMBDA f : f.wr /\ f.go)
        read == FoldSeq(LAMBDA f, n : f.len + n, 0, Reads)
        asked == IF cfg.seldi THEN Len(Keys) ELSE Len(Goes) \div 2
    IN /\ Len(hashed) = asked
       /\ Len(HashAnswers) + Words * Len(indices) = Words * asked
       /\ Len(answers) - Len(HashAnswers) = read
=============================================================================
