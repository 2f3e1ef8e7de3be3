-------------------------- MODULE LsuAnswerProofs ---------------------------
(***************************************************************************)
(* The answers of the load-store channel: software that waits for each     *)
(* answer gets the one it waits for, as a consequence of where the one     *)
(* request for a status can be between the packet that makes it and the    *)
(* response register.                                                      *)
(***************************************************************************)
EXTENDS LsuCtlProofs

\* Where a request for a status may be on its way: with the unit, with the
\* DataMover, on the status stream, in response register B.
OwedAsks == \E k \in 1 .. Len(owed) : owed[k].req
MoverAsks == \E k \in 1 .. Len(moverQ) : moverQ[k].req
StatusAsks == sts.valid /\ sts.req

ReadAnswer(sel, tid) == [kind |-> "read", sel |-> sel, left |-> 1, tid |-> tid]
StatusAnswer(tid) == [kind |-> "status", sel |-> 0, left |-> 1, tid |-> tid]
Response(sel, tid) == [valid |-> TRUE, sel |-> sel, len |-> 1, tid |-> LSU, tdest |-> tid]

\* The software waits for at most one answer, and sends nothing meanwhile.  There is at
\* most one request for a status or one response, and it is the one waited for.
Awaited ==
    \/ await = NoAnswer
    \/ beats = <<>> /\ \E sel \in Registers, tid \in Tids : await = ReadAnswer(sel, tid)
    \/ beats = <<>> /\ \E tid \in Tids : await = StatusAnswer(tid)
OneAsks ==
    /\ OwedAsks => ~MoverAsks /\ ~StatusAsks /\ ~b_response.valid
    /\ MoverAsks => ~StatusAsks /\ ~b_response.valid
    /\ StatusAsks => ~b_response.valid
    /\ \A k, l \in 1 .. Len(moverQ) : moverQ[k].req /\ moverQ[l].req => k = l
    /\ \A k \in 1 .. Len(owed) : owed[k].req => k = Len(owed) /\ await = StatusAnswer(owed[k].dest)
    /\ \A k \in 1 .. Len(moverQ) : moverQ[k].req => await = StatusAnswer(moverQ[k].dest)
    /\ StatusAsks => await = StatusAnswer(sts.dest)
Responses ==
    /\ blen_r = 0
    /\ a_response = Invalid \/ \E sel \in Registers, tid \in Tids :
          a_response = Response(sel, tid) /\ await = ReadAnswer(sel, tid)
    /\ b_response = Invalid \/ \E tid \in Tids :
          b_response = Response(0, tid) /\ await = StatusAnswer(tid)
    /\ moverQ # <<>> \/ sts.valid => lsu_tid = LSU
AnswerInv == Awaited /\ OneAsks /\ Responses

IInv == ProgramInv /\ AnswerInv
-----------------------------------------------------------------------------
(* Requests for a status, on their way through the unit and the DataMover *)

Issued(cr) == Issues(command, reg) /\ cr
StsTaken(tready) == sts.valid /\ s_axis_sts_tready(sts, tready)
Pops(finish, st) == finish /\ moverQ # <<>> /\ (~sts.valid \/ st)
Gone(b) == IF b THEN 1 ELSE 0

LEMMA OwedSeq == ASSUME Setting, Core PROVE owed \in Seq(Entry)
  <1>1. CASE ~command.valid
    BY <1>1 DEF Core
  <1>2. CASE command.valid
    <2>1. command \in Command /\ reg \in [Registers -> Nat] /\ owed = Program(command.tid, reg)
      BY <1>2, SMTT(20) DEF Core, Invalid
    <2>2. command.tid \in Tids
      BY <2>1 DEF Command
    <2>3. cmd(reg) = CMD_smove => rep(reg) # 0
      BY <1>2 DEF Core
    <2> QED BY <2>1, <2>2, <2>3, ProgramShape DEF Setting
  <1> QED BY <1>1, <1>2

\* What is owed after a command is issued is the rest of what was owed.
LEMMA RestShape ==
    ASSUME Setting, ProgramInv, NEW cr \in BOOLEAN
    PROVE  /\ Issued(cr) => owed # <<>>
           /\ Len(UnitRest(cr)) = Len(owed) - Gone(Issued(cr)) /\ Len(UnitRest(cr)) \in Nat /\ Len(owed) \in Nat
           /\ \A k \in 1 .. Len(UnitRest(cr)) : UnitRest(cr)[k] = owed[k + Gone(Issued(cr))]
  <1>1. owed \in Seq(Entry)
    BY OwedSeq DEF ProgramInv
  <1>2. Issued(cr) => owed # <<>>
    BY ProgramEmits DEF EmitsAsProgrammed, Issued
  <1>3. CASE Issued(cr)
    <2>1. UnitRest(cr) = Tail(owed) /\ Gone(Issued(cr)) = 1
      BY <1>2, <1>3 DEF UnitRest, Issued, Gone
    <2>2. Len(Tail(owed)) = Len(owed) - 1 /\ \A k \in 1 .. Len(owed) - 1 : Tail(owed)[k] = owed[k + 1]
      BY <1>1, <1>2, <1>3, HeadTailProperties
    <2>3. Len(owed) \in Nat \ {0}
      BY <1>1, <1>2, <1>3, EmptySeq
    <2> QED BY <1>2, <2>1, <2>2, <2>3
  <1>4. CASE ~Issued(cr)
    <2>1. UnitRest(cr) = owed /\ Gone(Issued(cr)) = 0
      BY <1>4 DEF UnitRest, Issued, Gone
    <2>2. Len(owed) \in Nat
      BY <1>1
    <2> QED BY <1>2, <2>1, <2>2
  <1> QED BY <1>3, <1>4

\* The DataMover's queue after an edge: its first command may be gone, and the
\* first command owed may have joined it.
MoverMoved(issued, pops) ==
    /\ Len(moverQ) - Gone(pops) \in Nat
    /\ Len(moverQ') = Len(moverQ) - Gone(pops) + Gone(issued)
    /\ \A k \in 1 .. Len(moverQ) - Gone(pops) : moverQ'[k] = moverQ[k + Gone(pops)]
    /\ issued => /\ moverQ'[Len(moverQ) - Gone(pops) + 1].req = owed[1].req
                 /\ moverQ'[Len(moverQ) - Gone(pops) + 1].dest = owed[1].dest

LEMMA MoverMoves ==
    ASSUME Setting, ProgramInv, NEW cr \in BOOLEAN, NEW st \in BOOLEAN, NEW finish \in BOOLEAN,
           NEW f \in Flags, MoverEdge(Issued(cr), st, finish, f)
    PROVE  /\ MoverMoved(Issued(cr), Pops(finish, st)) /\ Len(moverQ) \in Nat
           /\ Pops(finish, st) => moverQ # <<>> /\ Len(moverQ) >= 1
           /\ Pops(finish, st) => sts' = [valid |-> TRUE, req |-> moverQ[1].req,
                                          dest |-> moverQ[1].dest, flags |-> f]
           /\ ~Pops(finish, st) => sts' = IF st THEN Invalid ELSE sts
  <1> DEFINE pops == Pops(finish, st)
             issued == Issued(cr)
             rest == IF pops THEN Tail(moverQ) ELSE moverQ
             c == m_axis_cmd(command, reg)
             entry == [req |-> c.req, dest |-> c.dest]
  <1>1. /\ moverQ' = IF issued THEN Append(rest, entry) ELSE rest
        /\ sts' = IF pops THEN [valid |-> TRUE, req |-> Head(moverQ).req,
                                dest |-> Head(moverQ).dest, flags |-> f]
                  ELSE IF st THEN Invalid ELSE sts
    BY DEF MoverEdge, Pops
  <1>2. moverQ \in Seq(Tag) /\ Core
    BY DEF ProgramInv, StatusInv
  <1>3. pops => moverQ # <<>> /\ Len(moverQ) >= 1 /\ Head(moverQ) = moverQ[1]
    <2>1. pops => moverQ # <<>>
      BY DEF Pops
    <2> QED BY <1>2, <2>1, EmptySeq
  <1>4. /\ Len(rest) \in Nat /\ Len(rest) = Len(moverQ) - Gone(pops)
        /\ \A k \in 1 .. Len(moverQ) - Gone(pops) : rest[k] = moverQ[k + Gone(pops)]
    <2>1. CASE pops
      <3>1. Len(Tail(moverQ)) = Len(moverQ) - 1 /\ \A k \in 1 .. Len(moverQ) - 1 : Tail(moverQ)[k] = moverQ[k+1]
        BY <1>2, <1>3, <2>1, HeadTailProperties
      <3> QED BY <1>2, <1>3, <2>1, <3>1 DEF Gone
    <2>2. CASE ~pops
      BY <1>2, <2>2 DEF Gone
    <2> QED BY <2>1, <2>2
  <1>5. \E S : rest \in Seq(S) /\ entry \in S
    <2>1. rest \in Seq(Tag)
      BY <1>2, <1>3
    <2>2. rest \in Seq(Tag \cup {entry})
      <3> HIDE DEF rest, entry
      <3> QED BY <2>1
    <2> QED BY <2>2
  <1>6. issued => entry.req = owed[1].req /\ entry.dest = owed[1].dest
    <2>1. issued => owed # <<>> /\ c = Head(owed)
      BY ProgramEmits DEF EmitsAsProgrammed, Issued
    <2>2. owed # <<>> => Head(owed) = owed[1]
      BY <1>2, OwedSeq
    <2> QED BY <2>1, <2>2
  <1> HIDE DEF pops, issued, rest, c, entry
  <1>7. MoverMoved(issued, pops)
    <2>1. CASE issued
      <3>1. PICK S : rest \in Seq(S) /\ entry \in S
        BY <1>5
      <3>2. /\ Len(Append(rest, entry)) = Len(rest) + 1
            /\ \A k \in 1 .. Len(rest) : Append(rest, entry)[k] = rest[k]
            /\ Append(rest, entry)[Len(rest) + 1] = entry
        BY <3>1, AppendProperties, SMTT(20)
      <3>3. moverQ' = Append(rest, entry) /\ Gone(issued) = 1
        BY <1>1, <2>1 DEF Gone
      <3> QED BY <1>4, <1>6, <2>1, <3>2, <3>3 DEF MoverMoved
    <2>2. CASE ~issued
      <3>1. moverQ' = rest /\ Gone(issued) = 0
        BY <1>1, <2>2 DEF Gone
      <3> QED BY <1>4, <2>2, <3>1, SMTT(20) DEF MoverMoved
    <2> QED BY <2>1, <2>2
  <1>8. Len(moverQ) \in Nat
    BY <1>2
  <1>9. pops => sts' = [valid |-> TRUE, req |-> moverQ[1].req, dest |-> moverQ[1].dest, flags |-> f]
    BY <1>1, <1>3
  <1> QED BY <1>1, <1>3, <1>7, <1>8, <1>9 DEF pops, issued

LEMMA MoverStaysSilent ==
    ASSUME NEW issued \in BOOLEAN, NEW pops \in BOOLEAN, MoverMoved(issued, pops), Len(moverQ) \in Nat,
           pops => Len(moverQ) >= 1, ~MoverAsks, issued => ~owed[1].req
    PROVE  ~MoverAsks'
  <1> DEFINE d == Gone(pops)
             m == Len(moverQ) - d
  <1>1. d \in {0, 1} /\ Gone(issued) \in {0, 1} /\ (issued <=> Gone(issued) = 1)
    BY DEF Gone
  <1>2. /\ m \in Nat /\ Len(moverQ') = m + Gone(issued)
        /\ \A k \in 1 .. m : moverQ'[k] = moverQ[k + d]
        /\ issued => moverQ'[m + 1].req = owed[1].req
    BY DEF MoverMoved
  <1>3. ASSUME NEW k \in 1 .. Len(moverQ') PROVE ~moverQ'[k].req
    <2> HIDE DEF d
    <2>1. CASE k \in 1 .. m
      <3>1. k + d \in 1 .. Len(moverQ)
        BY <1>1, <1>2, <2>1, SMTT(20)
      <3>2. ~moverQ[k + d].req
        BY <3>1 DEF MoverAsks
      <3> QED BY <1>2, <2>1, <3>2
    <2>2. CASE k \notin 1 .. m
      <3> HIDE DEF m
      <3>1. k = m + 1 /\ issued
        BY <1>1, <1>2, <2>2, SMTT(20)
      <3> QED BY <1>2, <3>1
    <2> QED BY <2>1, <2>2
  <1> QED BY <1>3 DEF MoverAsks

\* The answer stream while no answer has more than one word
StreamAt(tready) ==
    /\ blen = IF a_response.valid \/ b_response.valid THEN 1 ELSE 0
    /\ path = IF a_response.valid THEN "A" ELSE "B"
    /\ r_advance(tready) <=> (a_response.valid \/ b_response.valid) /\ tready
    /\ response_ready(tready) <=> (b_response.valid => tready)
    /\ a_response_ready_i(tready) <=> a_response.valid /\ tready

LEMMA StreamFacts ==
    ASSUME Responses, NEW tready \in BOOLEAN
    PROVE  /\ StreamAt(tready) /\ a_response.valid \in BOOLEAN /\ b_response.valid \in BOOLEAN
           /\ ~(a_response.valid /\ b_response.valid)
           /\ a_response = Invalid <=> ~a_response.valid
           /\ b_response = Invalid <=> ~b_response.valid
           /\ AnswerExpected
  <1>1. CASE a_response = Invalid /\ b_response = Invalid
    <2>1. blen_r = 0 /\ a_response.valid = FALSE /\ b_response.valid = FALSE
      BY <1>1 DEF Responses, Invalid
    <2>2. blen = 0 /\ path = "B" /\ header.valid = FALSE
      BY <2>1 DEF blen, path, header
    <2>3. StreamAt(tready)
      BY <2>1, <2>2 DEF StreamAt, r_advance, response_ready, b_response_ready_i, a_response_ready_i
    <2> QED BY <1>1, <2>1, <2>2, <2>3 DEF AnswerExpected, m_axis_ctl_tvalid
  <1>2. CASE a_response # Invalid
    <2>1. PICK sel \in Registers, tid \in Tids : a_response = Response(sel, tid) /\ await = ReadAnswer(sel, tid)
      BY <1>2 DEF Responses
    <2>2. b_response = Invalid
      <3>1. SUFFICES ASSUME NEW t \in Tids, await = StatusAnswer(t) PROVE FALSE
        BY DEF Responses
      <3>2. await.kind = "read" /\ await.kind = "status"
        BY <2>1, <3>1, SMTT(20) DEF ReadAnswer, StatusAnswer
      <3> QED BY <3>2
    <2>3. /\ blen_r = 0 /\ a_response.valid = TRUE /\ b_response.valid = FALSE /\ a_response.len = 1
          /\ a_response.sel = sel /\ a_response.tid = LSU /\ a_response.tdest = tid
      BY <2>1, <2>2 DEF Responses, Invalid, Response
    <2>4. blen = 1 /\ path = "A" /\ header = a_response /\ bsel = sel
      BY <2>3 DEF blen, path, header, bsel
    <2>5. StreamAt(tready)
      BY <2>3, <2>4, SMTT(20) DEF StreamAt, r_advance, response_ready, b_response_ready_i, a_response_ready_i, m_axis_ctl_tvalid
    <2>6. await # NoAnswer /\ await.sel = sel /\ await.left = 1 /\ await.tid = tid
      <3>1. await.kind = "read" /\ NoAnswer.kind = "none"
        BY <2>1 DEF ReadAnswer, NoAnswer
      <3> QED BY <2>1, <3>1 DEF ReadAnswer
    <2>7. AnswerExpected
      BY <2>3, <2>4, <2>6 DEF AnswerExpected
    <2> QED BY <1>2, <2>2, <2>3, <2>5, <2>7
  <1>3. CASE a_response = Invalid /\ b_response # Invalid
    <2>1. PICK tid \in Tids : b_response = Response(0, tid) /\ await = StatusAnswer(tid)
      BY <1>3 DEF Responses
    <2>3. /\ blen_r = 0 /\ a_response.valid = FALSE /\ b_response.valid = TRUE /\ b_response.len = 1
          /\ b_response.sel = 0 /\ b_response.tid = LSU /\ b_response.tdest = tid
      BY <1>3, <2>1 DEF Responses, Invalid, Response
    <2>4. blen = 1 /\ path = "B" /\ header = b_response /\ bsel = 0
      BY <2>3 DEF blen, path, header, bsel
    <2>5. StreamAt(tready)
      BY <2>3, <2>4 DEF StreamAt, r_advance, response_ready, b_response_ready_i, a_response_ready_i, m_axis_ctl_tvalid
    <2>6. await # NoAnswer /\ await.sel = 0 /\ await.left = 1 /\ await.tid = tid
      <3>1. await.kind = "status" /\ NoAnswer.kind = "none"
        BY <2>1 DEF StatusAnswer, NoAnswer
      <3> QED BY <2>1, <3>1 DEF StatusAnswer
    <2>7. AnswerExpected
      BY <2>3, <2>4, <2>6 DEF AnswerExpected
    <2> QED BY <1>3, <2>3, <2>5, <2>7
  <1> QED BY <1>1, <1>2, <1>3

\* The parts of an edge that concern answers
AnswerParts(gap, tready, cr, finish, f) ==
    /\ EdgeParts(gap, tready, cr)
    /\ ResponseBeats(tready) /\ ARegister(Bus, tready) /\ BRegister(response(sts), tready) /\ TidSeq
    /\ MoverEdge(Issued(cr), StsTaken(tready), finish, f)

LEMMA StreamMoves ==
    ASSUME Responses, NEW tready \in BOOLEAN, ResponseBeats(tready), ARegister(Bus, tready),
           BRegister(response(sts), tready)
    PROVE  /\ blen_r' = 0
           /\ a_response' = IF ~a_response.valid THEN a_response_s(Bus)
                            ELSE IF tready THEN Invalid ELSE a_response
           /\ b_response' = IF b_response.valid /\ ~tready THEN b_response ELSE response(sts)
  <1>1. /\ StreamAt(tready) /\ a_response.valid \in BOOLEAN /\ b_response.valid \in BOOLEAN
    BY StreamFacts
  <1>2. blen_r = 0
    BY DEF Responses
  <1>3. blen_r' = 0
    <2>1. CASE r_advance(tready)
      <3>1. blen = 1
        BY <1>1, <2>1 DEF StreamAt
      <3>2. blen_r' = (1 - 1) % SelMod
        BY <2>1, <3>1 DEF ResponseBeats
      <3>3. SelMod \in Nat \ {0}
        BY PortAssumption
      <3>4. 0 % SelMod = 0
        BY <3>3, ModSmall
      <3> QED BY <3>2, <3>4
    <2>2. CASE ~r_advance(tready)
      BY <1>2, <2>2 DEF ResponseBeats
    <2> QED BY <2>1, <2>2
  <1>4. a_response' = IF ~a_response.valid THEN a_response_s(Bus)
                      ELSE IF tready THEN Invalid ELSE a_response
    BY <1>1 DEF ARegister, StreamAt
  <1>5. b_response' = IF b_response.valid /\ ~tready THEN b_response ELSE response(sts)
    BY <1>1 DEF BRegister, StreamAt
  <1> QED BY <1>3, <1>4, <1>5

\* The unit knows its own id before a status can be answered.
LEMMA IdKnown ==
    ASSUME Setting, ProgramInv, Responses, NEW tready \in BOOLEAN, NEW gap, NEW cr \in BOOLEAN,
           NEW finish \in BOOLEAN, NEW f \in Flags, AnswerParts(gap, tready, cr, finish, f)
    PROVE  (moverQ' # <<>> \/ sts'.valid => lsu_tid' = LSU)
  <1> DEFINE st == StsTaken(tready)
             pops == Pops(finish, st)
  <1>1. st \in BOOLEAN /\ TidSeq /\ Core
    BY DEF StsTaken, AnswerParts, ProgramInv
  <1>2. /\ MoverMoved(Issued(cr), pops) /\ Len(moverQ) \in Nat
        /\ pops => moverQ # <<>> /\ Len(moverQ) >= 1
        /\ ~pops => sts' = IF st THEN Invalid ELSE sts
    BY <1>1, MoverMoves DEF AnswerParts
  <1>3. moverQ # <<>> \/ sts.valid => lsu_tid = LSU
    BY DEF Responses
  <1> HIDE DEF st
  <1>4. CASE command.valid
    <2>1. command \in Command
      BY <1>1, <1>4, SMTT(20) DEF Core, Invalid
    <2>2. command.tdest = LSU
      BY <2>1 DEF Command
    <2> QED BY <1>1, <1>4, <2>2 DEF TidSeq
  <1>5. CASE ~command.valid
    <2>1. lsu_tid' = lsu_tid /\ ~Issued(cr)
      BY <1>1, <1>5 DEF TidSeq, Issued, Issues
    <2>2. CASE moverQ # <<>>
      BY <1>3, <2>1, <2>2
    <2>3. CASE moverQ = <<>>
      <3>1. ~pops /\ Len(moverQ) = 0
        BY <1>2, <2>3
      <3>2. Len(moverQ') = 0
        BY <1>2, <2>1, <3>1, SMTT(20) DEF MoverMoved, Gone
      <3>3. moverQ' = <<>>
        <4>1. moverQ' \in Seq(Tag)
          BY <1>1, MoverTyped DEF ProgramInv, AnswerParts, Issued, st
        <4> QED BY <3>2, <4>1, EmptySeq
      <3>4. sts'.valid => sts.valid
        BY <1>2, <3>1 DEF Invalid
      <3> QED BY <1>3, <2>1, <3>3, <3>4
    <2> QED BY <2>2, <2>3
  <1> QED BY <1>4, <1>5

\* If no request is on its way, an edge on which no packet ends makes none.
LEMMA SilentStep ==
    ASSUME Setting, ProgramInv, NEW tready \in BOOLEAN, NEW gap, NEW cr \in BOOLEAN,
           NEW finish \in BOOLEAN, NEW f \in Flags, AnswerParts(gap, tready, cr, finish, f),
           ~OwedAsks, ~MoverAsks, ~StatusAsks
    PROVE  /\ ~MoverAsks' /\ ~StatusAsks' /\ response(sts) = Invalid
           /\ \A k \in 1 .. Len(UnitRest(cr)) : ~UnitRest(cr)[k].req
  <1> DEFINE st == StsTaken(tready)
             pops == Pops(finish, st)
             rest == UnitRest(cr)
             e == Gone(Issued(cr))
  <1>1. st \in BOOLEAN /\ pops \in BOOLEAN /\ Issued(cr) \in BOOLEAN
    BY DEF StsTaken, Pops, Issued, Issues
  <1>2. /\ MoverMoved(Issued(cr), pops) /\ Len(moverQ) \in Nat
        /\ pops => moverQ # <<>> /\ Len(moverQ) >= 1
        /\ pops => sts' = [valid |-> TRUE, req |-> moverQ[1].req, dest |-> moverQ[1].dest, flags |-> f]
        /\ ~pops => sts' = IF st THEN Invalid ELSE sts
    BY <1>1, MoverMoves, SMTT(20) DEF AnswerParts
  <1>3. /\ Issued(cr) => owed # <<>>
        /\ Len(rest) = Len(owed) - e /\ Len(rest) \in Nat /\ Len(owed) \in Nat
        /\ \A k \in 1 .. Len(rest) : rest[k] = owed[k + e]
    BY RestShape
  <1>4. e \in {0, 1} /\ (Issued(cr) => e = 1)
    BY DEF Gone
  <1>5. \A k \in 1 .. Len(owed) : ~owed[k].req
    BY DEF OwedAsks
  <1> HIDE DEF pops, st, rest, e
  <1>6. Issued(cr) => ~owed[1].req
    <2>1. Issued(cr) => 1 \in 1 .. Len(owed)
      BY <1>3, <1>4
    <2> QED BY <1>5, <2>1
  <1>7. ~MoverAsks'
    BY <1>1, <1>2, <1>6, MoverStaysSilent
  <1>8. ~StatusAsks'
    <2>1. CASE pops
      <3>1. 1 \in 1 .. Len(moverQ)
        BY <1>2, <2>1, SMTT(20)
      <3>2. ~moverQ[1].req
        BY <3>1 DEF MoverAsks
      <3> QED BY <1>2, <2>1, <3>2, SMTT(20) DEF StatusAsks
    <2>2. CASE ~pops
      BY <1>2, <2>2, SMTT(20) DEF StatusAsks, Invalid
    <2> QED BY <2>1, <2>2
  <1>9. ASSUME NEW k \in 1 .. Len(rest) PROVE ~rest[k].req
    <2>1. k + e \in 1 .. Len(owed)
      BY <1>3, <1>4
    <2> QED BY <1>3, <1>5, <2>1
  <1>10. response(sts) = Invalid
    BY DEF response, StatusAsks
  <1> QED BY <1>7, <1>8, <1>9, <1>10 DEF rest

LEMMA Kinds ==
    /\ \A sel, tid : ReadAnswer(sel, tid) # NoAnswer
    /\ \A tid : StatusAnswer(tid) # NoAnswer
    /\ \A sel, tid, t : ReadAnswer(sel, tid) # StatusAnswer(t)
  <1>1. NoAnswer.kind = "none"
    BY DEF NoAnswer
  <1>2. ASSUME NEW sel, NEW tid PROVE ReadAnswer(sel, tid).kind = "read"
    BY DEF ReadAnswer
  <1>3. ASSUME NEW tid PROVE StatusAnswer(tid).kind = "status"
    BY DEF StatusAnswer
  <1> QED BY <1>1, <1>2, <1>3

\* A request on its way means that its status is awaited and that no response is out.
LEMMA AskingWaits ==
    ASSUME AnswerInv, OwedAsks \/ MoverAsks \/ StatusAsks
    PROVE  a_response = Invalid /\ b_response = Invalid /\ \E tid : await = StatusAnswer(tid)
  <1>1. OneAsks /\ Responses
    BY DEF AnswerInv
  <1>2. \E tid : await = StatusAnswer(tid)
    BY <1>1 DEF OneAsks, OwedAsks, MoverAsks
  <1>3. ~b_response.valid
    BY <1>1 DEF OneAsks
  <1>4. b_response = Invalid
    BY <1>1, <1>3, StreamFacts
  <1>5. a_response = Invalid
    BY <1>1, <1>2, Kinds DEF Responses
  <1> QED BY <1>2, <1>4, <1>5

\* What an edge does while the software waits: it takes nothing, and the answer,
\* if it goes out, ends the wait.
LEMMA WaitingFacts ==
    ASSUME Setting, ProgramInv, AnswerInv, NEW tready \in BOOLEAN, NEW gap \in BOOLEAN, NEW cr \in BOOLEAN,
           NEW finish \in BOOLEAN, NEW f \in Flags, AnswerParts(gap, tready, cr, finish, f),
           await # NoAnswer
    PROVE  /\ beats' = <<>> /\ owed' = UnitRest(cr) /\ blen_r' = 0
           /\ await' = IF (a_response.valid \/ b_response.valid) /\ tready THEN NoAnswer ELSE await
           /\ a_response' = IF tready THEN Invalid ELSE a_response
           /\ b_response' = IF b_response.valid /\ ~tready THEN b_response ELSE response(sts)
  <1>1. Awaited /\ Responses /\ HostInv /\ EdgeParts(gap, tready, cr)
    BY DEF AnswerInv, ProgramInv, AnswerParts
  <1>2. beats = <<>>
    BY <1>1 DEF Awaited
  <1>3. offered = FALSE /\ Bus = Invalid
    BY <1>1, <1>2 DEF HostInv, Bus
  <1>4. ~Taken(cr)
    BY <1>1, <1>3, BeatTaken
  <1>5. beats' = <<>>
    BY <1>1, <1>2, <1>4 DEF EdgeParts, HostEdge
  <1>6. owed' = UnitRest(cr)
    BY <1>1, <1>4, QuietEdge
  <1>7. /\ blen_r' = 0
        /\ a_response' = IF ~a_response.valid THEN a_response_s(Bus)
                         ELSE IF tready THEN Invalid ELSE a_response
        /\ b_response' = IF b_response.valid /\ ~tready THEN b_response ELSE response(sts)
    BY <1>1, StreamMoves DEF AnswerParts
  <1>8. a_response_s(Bus) = Invalid
    BY <1>3 DEF a_response_s, Invalid
  <1>9. /\ StreamAt(tready) /\ (a_response = Invalid <=> ~a_response.valid)
    BY <1>1, StreamFacts
  <1>10. a_response' = IF tready THEN Invalid ELSE a_response
    BY <1>7, <1>8, <1>9
  <1>11. await' = IF r_advance(tready) THEN IF m_axis_ctl_tlast THEN NoAnswer
                                            ELSE [await EXCEPT !.left = @ - 1, !.sel = @ + 1]
                  ELSE await
    BY <1>1, <1>4 DEF EdgeParts, GhostEdge
  <1>12. r_advance(tready) => m_axis_ctl_tlast
    BY <1>9 DEF StreamAt, m_axis_ctl_tlast
  <1>13. await' = IF (a_response.valid \/ b_response.valid) /\ tready THEN NoAnswer ELSE await
    BY <1>9, <1>11, <1>12 DEF StreamAt
  <1> QED BY <1>5, <1>6, <1>7, <1>10, <1>13

LEMMA WaitingSilent ==
    ASSUME Setting, ProgramInv, AnswerInv, NEW tready \in BOOLEAN, NEW gap \in BOOLEAN, NEW cr \in BOOLEAN,
           NEW finish \in BOOLEAN, NEW f \in Flags, AnswerParts(gap, tready, cr, finish, f),
           await # NoAnswer, ~OwedAsks, ~MoverAsks, ~StatusAsks
    PROVE  AnswerInv'
  <1>1. Awaited /\ Responses
    BY DEF AnswerInv
  <1>2. /\ beats' = <<>> /\ owed' = UnitRest(cr) /\ blen_r' = 0
        /\ await' = IF (a_response.valid \/ b_response.valid) /\ tready THEN NoAnswer ELSE await
        /\ a_response' = IF tready THEN Invalid ELSE a_response
        /\ b_response' = IF b_response.valid /\ ~tready THEN b_response ELSE response(sts)
    BY WaitingFacts
  <1>3. /\ ~MoverAsks' /\ ~StatusAsks' /\ response(sts) = Invalid
        /\ \A k \in 1 .. Len(UnitRest(cr)) : ~UnitRest(cr)[k].req
    BY SilentStep
  <1>4. ~OwedAsks'
    BY <1>2, <1>3 DEF OwedAsks
  <1>5. OneAsks'
    BY <1>3, <1>4 DEF OneAsks, OwedAsks, MoverAsks
  <1>6. moverQ' # <<>> \/ sts'.valid => lsu_tid' = LSU
    BY <1>1, IdKnown
  <1>7. Awaited'
    BY <1>1, <1>2 DEF Awaited
  <1>8. /\ a_response = Invalid <=> ~a_response.valid
        /\ b_response = Invalid <=> ~b_response.valid
    BY <1>1, StreamFacts
  <1>9. Responses'
    <2>1. CASE tready
      <3>1. a_response' = Invalid /\ b_response' = Invalid
        BY <1>2, <1>3, <2>1
      <3> QED BY <1>2, <1>6, <3>1 DEF Responses
    <2>2. CASE ~tready
      <3>1. a_response' = a_response /\ b_response' = b_response /\ await' = await
        BY <1>2, <1>3, <1>8, <2>2
      <3> QED BY <1>1, <1>2, <1>6, <3>1 DEF Responses
    <2> QED BY <2>1, <2>2
  <1> QED BY <1>5, <1>7, <1>9 DEF AnswerInv

\* The requests of an edge, by position: d commands leave the DataMover's queue, e join it
Passed(tready, cr, d, e, m) ==
    /\ Len(owed) \in Nat /\ Len(moverQ) \in Nat /\ m = Len(moverQ) - d
    /\ Len(UnitRest(cr)) = Len(owed) - e /\ Len(UnitRest(cr)) \in Nat
    /\ \A k \in 1 .. Len(UnitRest(cr)) : UnitRest(cr)[k] = owed[k + e]
    /\ Len(moverQ') = m + e
    /\ \A k \in 1 .. m : moverQ'[k] = moverQ[k + d]
    /\ e = 1 => moverQ'[m + 1].req = owed[1].req /\ moverQ'[m + 1].dest = owed[1].dest
    /\ d = 1 => sts'.valid = TRUE /\ sts'.req = moverQ[1].req /\ sts'.dest = moverQ[1].dest
    /\ d = 0 => sts' = IF StsTaken(tready) THEN Invalid ELSE sts

LEMMA Requests ==
    ASSUME Setting, ProgramInv, NEW tready \in BOOLEAN, NEW gap, NEW cr \in BOOLEAN,
           NEW finish \in BOOLEAN, NEW f \in Flags, AnswerParts(gap, tready, cr, finish, f)
    PROVE  \E d \in {0, 1}, e \in {0, 1}, m \in Nat : Passed(tready, cr, d, e, m)
  <1> DEFINE st == StsTaken(tready)
             pops == Pops(finish, st)
             d == Gone(pops)
             e == Gone(Issued(cr))
             m == Len(moverQ) - d
  <1>1. st \in BOOLEAN /\ pops \in BOOLEAN /\ Issued(cr) \in BOOLEAN
    BY DEF StsTaken, Pops, Issued, Issues
  <1>2. /\ MoverMoved(Issued(cr), pops) /\ Len(moverQ) \in Nat
        /\ pops => sts' = [valid |-> TRUE, req |-> moverQ[1].req, dest |-> moverQ[1].dest, flags |-> f]
        /\ ~pops => sts' = IF st THEN Invalid ELSE sts
    BY <1>1, MoverMoves, SMTT(20) DEF AnswerParts
  <1>3. /\ Len(UnitRest(cr)) = Len(owed) - e /\ Len(UnitRest(cr)) \in Nat /\ Len(owed) \in Nat
        /\ \A k \in 1 .. Len(UnitRest(cr)) : UnitRest(cr)[k] = owed[k + e]
    BY RestShape
  <1>4. d \in {0, 1} /\ e \in {0, 1} /\ (pops <=> d = 1) /\ (Issued(cr) <=> e = 1)
    BY <1>1, SMTT(20) DEF Gone
  <1>5. /\ m \in Nat /\ Len(moverQ') = m + e /\ \A k \in 1 .. m : moverQ'[k] = moverQ[k + d]
        /\ Issued(cr) => moverQ'[m + 1].req = owed[1].req /\ moverQ'[m + 1].dest = owed[1].dest
    BY <1>2 DEF MoverMoved
  <1>6. d = 1 => sts'.valid = TRUE /\ sts'.req = moverQ[1].req /\ sts'.dest = moverQ[1].dest
    BY <1>2, <1>4, SMTT(20)
  <1>7. d = 0 => sts' = IF st THEN Invalid ELSE sts
    BY <1>2, <1>4, SMTT(20)
  <1> HIDE DEF d, e, m, pops, st
  <1>8. e = 1 => moverQ'[m + 1].req = owed[1].req /\ moverQ'[m + 1].dest = owed[1].dest
    BY <1>4, <1>5
  <1>9. m = Len(moverQ) - d
    BY DEF m
  <1>10. d = 0 => sts' = IF StsTaken(tready) THEN Invalid ELSE sts
    BY <1>7 DEF st
  <1>11. Passed(tready, cr, d, e, m)
    BY <1>2, <1>3, <1>5, <1>6, <1>8, <1>9, <1>10, Zenon DEF Passed
  <1> QED BY <1>4, <1>5, <1>11

LEMMA WaitingAsks ==
    ASSUME Setting, ProgramInv, AnswerInv, NEW tready \in BOOLEAN, NEW gap \in BOOLEAN, NEW cr \in BOOLEAN,
           NEW finish \in BOOLEAN, NEW f \in Flags, AnswerParts(gap, tready, cr, finish, f),
           await # NoAnswer, OwedAsks \/ MoverAsks \/ StatusAsks
    PROVE  AnswerInv'
  <1>1. Awaited /\ OneAsks /\ Responses
    BY DEF AnswerInv
  <1>2. /\ a_response = Invalid /\ b_response = Invalid /\ ~a_response.valid /\ ~b_response.valid
        /\ \E tid : await = StatusAnswer(tid)
    BY AskingWaits DEF Invalid
  <1>3. /\ beats' = <<>> /\ owed' = UnitRest(cr) /\ blen_r' = 0 /\ await' = await
        /\ a_response' = Invalid /\ b_response' = response(sts)
    BY <1>2, WaitingFacts
  <1>0. PICK d \in {0, 1}, e \in {0, 1}, m \in Nat : Passed(tready, cr, d, e, m)
    BY Requests
  <1>4. /\ Len(owed) \in Nat /\ Len(moverQ) \in Nat /\ m = Len(moverQ) - d
        /\ Len(UnitRest(cr)) = Len(owed) - e /\ Len(UnitRest(cr)) \in Nat
        /\ \A k \in 1 .. Len(UnitRest(cr)) : UnitRest(cr)[k] = owed[k + e]
        /\ Len(moverQ') = m + e
        /\ \A k \in 1 .. m : moverQ'[k] = moverQ[k + d]
        /\ e = 1 => moverQ'[m + 1].req = owed[1].req /\ moverQ'[m + 1].dest = owed[1].dest
        /\ d = 1 => sts'.valid = TRUE /\ sts'.req = moverQ[1].req /\ sts'.dest = moverQ[1].dest
        /\ d = 0 => sts' = IF StsTaken(tready) THEN Invalid ELSE sts
    BY <1>0 DEF Passed
  <1>5. /\ Len(owed) \in Nat /\ Len(moverQ) \in Nat /\ m = Len(moverQ) - d
        /\ Len(owed') = Len(owed) - e /\ Len(owed') \in Nat
        /\ \A k \in 1 .. Len(owed') : owed'[k] = owed[k + e]
        /\ Len(moverQ') = m + e
    BY <1>3, <1>4
  <1>6. ASSUME NEW k \in 1 .. Len(owed'), owed'[k].req
        PROVE  k + e \in 1 .. Len(owed) /\ owed[k + e].req /\ owed'[k].dest = owed[k + e].dest
    <2>1. k + e \in 1 .. Len(owed)
      BY <1>5, SMTT(40)
    <2> QED BY <1>5, <1>6, <2>1
  <1>7. ASSUME NEW k \in 1 .. Len(moverQ'), moverQ'[k].req
        PROVE  \/ /\ k \in 1 .. m /\ k + d \in 1 .. Len(moverQ) /\ moverQ[k + d].req
                  /\ moverQ'[k].dest = moverQ[k + d].dest
               \/ /\ k = m + 1 /\ e = 1 /\ 1 \in 1 .. Len(owed) /\ owed[1].req
                  /\ moverQ'[k].dest = owed[1].dest
    <2>1. CASE k \in 1 .. m
      <3>1. k + d \in 1 .. Len(moverQ)
        BY <1>5, <2>1, SMTT(20)
      <3>2. moverQ'[k] = moverQ[k + d]
        BY <1>4, <2>1
      <3> QED BY <1>7, <2>1, <3>1, <3>2
    <2>2. CASE k \notin 1 .. m
      <3>1. k = m + 1 /\ e = 1
        BY <1>5, <2>2, SMTT(20)
      <3>2. 1 \in 1 .. Len(owed)
        BY <1>5, <3>1, SMTT(20)
      <3>3. moverQ'[m + 1].req = owed[1].req /\ moverQ'[m + 1].dest = owed[1].dest
        BY <1>4, <3>1
      <3> QED BY <1>7, <3>1, <3>2, <3>3
    <2> QED BY <2>1, <2>2
  <1>8. StatusAsks' => \/ d = 1 /\ 1 \in 1 .. Len(moverQ) /\ moverQ[1].req /\ sts'.dest = moverQ[1].dest
                       \/ d = 0 /\ StatusAsks /\ ~StsTaken(tready)
    <2>1. CASE d = 1
      <3>1. 1 \in 1 .. Len(moverQ)
        BY <1>5, <2>1
      <3> QED BY <1>4, <2>1, <3>1 DEF StatusAsks
    <2>2. CASE d = 0
      BY <1>4, <2>2, SMTT(40) DEF StatusAsks, Invalid
    <2> QED BY <2>1, <2>2
  <1>9. ~(StatusAsks /\ ~StsTaken(tready))
    BY <1>2 DEF StatusAsks, StsTaken, s_axis_sts_tready, response_ready
  <1>10. /\ OwedAsks => ~MoverAsks /\ ~StatusAsks
         /\ MoverAsks => ~StatusAsks
         /\ \A k, l \in 1 .. Len(moverQ) : moverQ[k].req /\ moverQ[l].req => k = l
         /\ \A k \in 1 .. Len(owed) : owed[k].req => k = Len(owed) /\ await = StatusAnswer(owed[k].dest)
         /\ \A k \in 1 .. Len(moverQ) : moverQ[k].req => await = StatusAnswer(moverQ[k].dest)
         /\ StatusAsks => await = StatusAnswer(sts.dest)
    BY <1>1 DEF OneAsks
  <1>11. /\ \A k \in 1 .. Len(owed) : owed[k].req => OwedAsks
         /\ \A k \in 1 .. Len(moverQ) : moverQ[k].req => MoverAsks
    BY DEF OwedAsks, MoverAsks
  <1>12. \A k \in 1 .. Len(owed') : owed'[k].req => k = Len(owed') /\ await' = StatusAnswer(owed'[k].dest) /\ OwedAsks
    <2> SUFFICES ASSUME NEW k \in 1 .. Len(owed'), owed'[k].req
                 PROVE  k = Len(owed') /\ await' = StatusAnswer(owed'[k].dest) /\ OwedAsks
      OBVIOUS
    <2>1. k + e \in 1 .. Len(owed) /\ owed[k + e].req /\ owed'[k].dest = owed[k + e].dest
      BY <1>6
    <2>2. k + e = Len(owed) /\ await = StatusAnswer(owed[k + e].dest) /\ OwedAsks
      BY <1>10, <1>11, <2>1
    <2>3. k = Len(owed')
      BY <1>5, <2>2, SMTT(20)
    <2> QED BY <1>3, <2>1, <2>2, <2>3
  <1>13. \A k \in 1 .. Len(moverQ') : moverQ'[k].req => await' = StatusAnswer(moverQ'[k].dest)
    BY <1>3, <1>7, <1>10
  <1>14. StatusAsks' => await' = StatusAnswer(sts'.dest) /\ MoverAsks /\ d = 1 /\ moverQ[1].req
    BY <1>3, <1>8, <1>9, <1>10, <1>11
  <1>15. \A k, l \in 1 .. Len(moverQ') : moverQ'[k].req /\ moverQ'[l].req => k = l
    <2> SUFFICES ASSUME NEW k \in 1 .. Len(moverQ'), NEW l \in 1 .. Len(moverQ'), moverQ'[k].req, moverQ'[l].req
                 PROVE  k = l
      OBVIOUS
    <2>1. \/ k \in 1 .. m /\ k + d \in 1 .. Len(moverQ) /\ moverQ[k + d].req /\ MoverAsks
          \/ k = m + 1 /\ OwedAsks
      BY <1>7, <1>11
    <2>2. \/ l \in 1 .. m /\ l + d \in 1 .. Len(moverQ) /\ moverQ[l + d].req /\ MoverAsks
          \/ l = m + 1 /\ OwedAsks
      BY <1>7, <1>11
    <2>3. CASE MoverAsks
      <3>1. k + d = l + d
        BY <1>10, <2>1, <2>2, <2>3
      <3> QED BY <3>1
    <2>4. CASE ~MoverAsks
      BY <2>1, <2>2, <2>4
    <2> QED BY <2>3, <2>4
  <1>16. OwedAsks' => ~MoverAsks'
    <2> SUFFICES ASSUME NEW k \in 1 .. Len(owed'), owed'[k].req, NEW l \in 1 .. Len(moverQ'), moverQ'[l].req
                 PROVE  FALSE
      BY DEF OwedAsks, MoverAsks
    <2>1. OwedAsks /\ ~MoverAsks
      BY <1>10, <1>12
    <2>2. e = 1 /\ 1 \in 1 .. Len(owed) /\ owed[1].req
      BY <1>7, <1>11, <2>1
    <2>3. Len(owed) = 1
      BY <1>10, <2>2
    <2> QED BY <1>5, <2>2, <2>3, SMTT(20)
  <1>17. OwedAsks' => ~StatusAsks'
    BY <1>10, <1>12, <1>14 DEF OwedAsks
  <1>18. MoverAsks' => ~StatusAsks'
    <2> SUFFICES ASSUME NEW l \in 1 .. Len(moverQ'), moverQ'[l].req, StatusAsks'
                 PROVE  FALSE
      BY DEF MoverAsks
    <2>1. MoverAsks /\ d = 1 /\ moverQ[1].req /\ ~OwedAsks
      BY <1>10, <1>14
    <2>2. l \in 1 .. m /\ l + d \in 1 .. Len(moverQ) /\ moverQ[l + d].req
      BY <1>7, <1>11, <2>1
    <2>3. 1 \in 1 .. Len(moverQ)
      BY <1>5, <2>1, <2>2, SMTT(20)
    <2>4. l + d = 1
      BY <1>10, <2>1, <2>2, <2>3
    <2> QED BY <2>1, <2>2, <2>4
  <1>19. b_response'.valid => StatusAsks
    BY <1>3 DEF response, StatusAsks, Invalid
  <1>20. OneAsks'
    <2>1. b_response'.valid => ~OwedAsks' /\ ~MoverAsks' /\ ~StatusAsks'
      <3> SUFFICES ASSUME StatusAsks PROVE ~OwedAsks' /\ ~MoverAsks' /\ ~StatusAsks'
        BY <1>19
      <3>1. ~OwedAsks /\ ~MoverAsks
        BY <1>10
      <3>2. ~OwedAsks'
        BY <1>12, <3>1 DEF OwedAsks
      <3>3. ~MoverAsks'
        BY <1>7, <1>11, <3>1 DEF MoverAsks
      <3>4. ~StatusAsks'
        BY <1>14, <3>1
      <3> QED BY <3>2, <3>3, <3>4
    <2> QED BY <1>12, <1>13, <1>14, <1>15, <1>16, <1>17, <1>18, <2>1 DEF OneAsks
  <1>21. moverQ' # <<>> \/ sts'.valid => lsu_tid' = LSU
    BY <1>1, IdKnown
  <1>22. b_response' = Invalid \/ \E tid \in Tids : b_response' = Response(0, tid) /\ await' = StatusAnswer(tid)
    <2>1. CASE StatusAsks
      <3>1. sts \in Status
        BY <2>1, SMTT(20) DEF StatusAsks, ProgramInv, StatusInv, Invalid
      <3>2. sts.dest \in Tids
        BY <3>1 DEF Status
      <3>3. lsu_tid = LSU
        BY <1>1, <2>1 DEF Responses, StatusAsks
      <3>4. response(sts) = Response(0, sts.dest)
        BY <2>1, <3>3 DEF response, Response, StatusAsks
      <3> QED BY <1>3, <1>10, <2>1, <3>2, <3>4
    <2>2. CASE ~StatusAsks
      BY <1>3, <2>2 DEF response, StatusAsks
    <2> QED BY <2>1, <2>2
  <1>23. Responses'
    BY <1>3, <1>21, <1>22 DEF Responses
  <1>24. Awaited'
    BY <1>1, <1>3 DEF Awaited
  <1> QED BY <1>20, <1>23, <1>24 DEF AnswerInv

\* What an edge does while the software does not wait: there is nothing to answer.
LEMMA FreeFacts ==
    ASSUME Setting, ProgramInv, AnswerInv, NEW tready \in BOOLEAN, NEW gap \in BOOLEAN, NEW cr \in BOOLEAN,
           NEW finish \in BOOLEAN, NEW f \in Flags, AnswerParts(gap, tready, cr, finish, f),
           await = NoAnswer
    PROVE  /\ ~MoverAsks' /\ ~StatusAsks' /\ blen_r' = 0 /\ b_response' = Invalid
           /\ a_response' = a_response_s(Bus) /\ ~a_response.valid /\ ~r_advance(tready)
           /\ \A k \in 1 .. Len(UnitRest(cr)) : ~UnitRest(cr)[k].req
           /\ moverQ' # <<>> \/ sts'.valid => lsu_tid' = LSU
  <1>1. Responses
    BY DEF AnswerInv
  <1>2. ~OwedAsks /\ ~MoverAsks /\ ~StatusAsks
    BY AskingWaits, Kinds
  <1>3. a_response = Invalid /\ b_response = Invalid
    BY <1>1, Kinds DEF Responses
  <1>4. ~a_response.valid /\ ~b_response.valid
    BY <1>3 DEF Invalid
  <1>5. /\ ~MoverAsks' /\ ~StatusAsks' /\ response(sts) = Invalid
        /\ \A k \in 1 .. Len(UnitRest(cr)) : ~UnitRest(cr)[k].req
    BY <1>2, SilentStep
  <1>6. /\ blen_r' = 0
        /\ a_response' = IF ~a_response.valid THEN a_response_s(Bus)
                         ELSE IF tready THEN Invalid ELSE a_response
        /\ b_response' = IF b_response.valid /\ ~tready THEN b_response ELSE response(sts)
    BY <1>1, StreamMoves DEF AnswerParts
  <1>7. ~r_advance(tready)
    BY <1>1, <1>4, StreamFacts DEF StreamAt
  <1>8. moverQ' # <<>> \/ sts'.valid => lsu_tid' = LSU
    BY <1>1, IdKnown
  <1> QED BY <1>4, <1>5, <1>6, <1>7, <1>8

\* Nothing is asked for and nothing is answered.
LEMMA FreeStays ==
    ASSUME ~OwedAsks', ~MoverAsks', ~StatusAsks', blen_r' = 0, a_response' = Invalid, b_response' = Invalid,
           await' = NoAnswer, moverQ' # <<>> \/ sts'.valid => lsu_tid' = LSU
    PROVE  AnswerInv'
  <1>1. Awaited' /\ Responses'
    BY DEF Awaited, Responses
  <1>2. OneAsks'
    BY DEF OneAsks, OwedAsks, MoverAsks
  <1> QED BY <1>1, <1>2 DEF AnswerInv

LEMMA FreeQuiet ==
    ASSUME Setting, ProgramInv, AnswerInv, NEW tready \in BOOLEAN, NEW gap \in BOOLEAN, NEW cr \in BOOLEAN,
           NEW finish \in BOOLEAN, NEW f \in Flags, AnswerParts(gap, tready, cr, finish, f),
           await = NoAnswer, ~Taken(cr)
    PROVE  AnswerInv'
  <1>1. HostInv /\ EdgeParts(gap, tready, cr)
    BY DEF ProgramInv, AnswerParts
  <1>2. /\ ~MoverAsks' /\ ~StatusAsks' /\ blen_r' = 0 /\ b_response' = Invalid
        /\ a_response' = a_response_s(Bus) /\ ~a_response.valid /\ ~r_advance(tready)
        /\ \A k \in 1 .. Len(UnitRest(cr)) : ~UnitRest(cr)[k].req
        /\ moverQ' # <<>> \/ sts'.valid => lsu_tid' = LSU
    BY FreeFacts, SMTT(20)
  <1>3. owed' = UnitRest(cr)
    BY <1>1, QuietEdge
  <1>4. ~OwedAsks'
    BY <1>2, <1>3 DEF OwedAsks
  <1>5. await' = NoAnswer
    BY <1>1, <1>2 DEF EdgeParts, GhostEdge
  <1>6. a_response_s(Bus) = Invalid
    <2> SUFFICES ASSUME Bus.valid, Bus.last, ~Bus.wr PROVE FALSE
      BY DEF a_response_s
    <2>1. offered
      BY <1>1, BeatTaken, SMTT(20) DEF Invalid
    <2>2. ~Bus.go
      BY <1>1, <2>1, BeatTaken
    <2>3. Taken(cr)
      BY <1>2, <2>2 DEF Taken, c_advance, a_response_ready_s
    <2> QED BY <2>3
  <1> QED BY <1>2, <1>4, <1>5, <1>6, FreeStays

LEMMA FreeReads ==
    ASSUME Setting, ProgramInv, AnswerInv, NEW tready \in BOOLEAN, NEW gap \in BOOLEAN, NEW cr \in BOOLEAN,
           NEW finish \in BOOLEAN, NEW f \in Flags, AnswerParts(gap, tready, cr, finish, f),
           await = NoAnswer, Taken(cr), NEW p \in Packets, NEW j \in 0 .. Len(p) - 1, OnBus(p, j), ~p[1].wr
    PROVE  AnswerInv'
  <1> DEFINE sel == p[1].sel
             tid == p[1].tid
             w == p[j+1].data
  <1>1. HostInv /\ EdgeParts(gap, tready, cr)
    BY DEF ProgramInv, AnswerParts
  <1>2. /\ ~MoverAsks' /\ ~StatusAsks' /\ blen_r' = 0 /\ b_response' = Invalid
        /\ a_response' = a_response_s(Bus) /\ ~a_response.valid /\ ~r_advance(tready)
        /\ \A k \in 1 .. Len(UnitRest(cr)) : ~UnitRest(cr)[k].req
        /\ moverQ' # <<>> \/ sts'.valid => lsu_tid' = LSU
    BY FreeFacts, SMTT(40)
  <1>3. Len(p) = 1 /\ p[1].len = 1 /\ sel \in Registers /\ tid \in Tids /\ j = 0
    <2>1. Len(p) = 1 /\ p[1].len = 1 /\ p[1] \in ControlBeat
      BY PacketFacts
    <2>2. j \in 0 .. Len(p) - 1
      OBVIOUS
    <2> QED BY <2>1, <2>2, SMTT(40) DEF ControlBeat, Tids
  <1>4. Bus = Beat(p[1].go, p[1].wr, sel, p[1].len, tid, w, j + 1 = Len(p)) /\ Bus = Head(beats)
    BY DEF OnBus
  <1>5. /\ Bus.valid = TRUE /\ Bus.wr = p[1].wr /\ Bus.sel = sel /\ Bus.len = p[1].len /\ Bus.tid = tid
        /\ Bus.tdest = LSU /\ Bus.last = (j + 1 = Len(p))
    <2> HIDE DEF w, sel, tid
    <2> QED BY <1>4, SMTT(40) DEF Beat
  <1>6. Bus.last = TRUE /\ ~Bus.wr /\ Bus.len = 1
    <2>1. (j + 1 = Len(p)) = TRUE
      BY <1>3, SMTT(40)
    <2>2. Bus.last = TRUE
      BY <1>5, <2>1
    <2>3. ~Bus.wr /\ Bus.len = 1
      BY <1>3, <1>5
    <2> QED BY <2>2, <2>3
  <1>7. owed' = UnitRest(cr)
    BY <1>1, <1>6, QuietEdge
  <1>8. ~OwedAsks'
    BY <1>2, <1>7 DEF OwedAsks
  <1> HIDE DEF w, sel, tid
  <1>9. \A prog : AnswerTo(Bus, prog) = ReadAnswer(sel, tid)
    BY <1>5, <1>6 DEF AnswerTo, ReadAnswer
  <1>10. await' = ReadAnswer(sel, tid)
    <2> DEFINE b == Head(beats)
               nth == b.sel + b.len - Len(beats)
               written == IF Taken(cr) /\ b.wr THEN [shadow EXCEPT ![nth] = b.data] ELSE shadow
               pr == IF Taken(cr) /\ b.last /\ b.go THEN Program(b.tid, written) ELSE <<>>
    <2>1. b.last
      BY <1>4, <1>6
    <2>2. AnswerTo(b, pr) = ReadAnswer(sel, tid)
      BY <1>4, <1>9
    <2>3. await' = IF Taken(cr) /\ b.last /\ AnswerTo(b, pr) # NoAnswer THEN AnswerTo(b, pr) ELSE await
      BY <1>1, <1>2 DEF EdgeParts, GhostEdge
    <2> HIDE DEF b, pr
    <2> QED BY <2>1, <2>2, <2>3, Kinds
  <1>11. a_response' = Response(sel, tid)
    BY <1>2, <1>5, <1>6 DEF a_response_s, Response
  <1>12. beats' = <<>>
    <2>1. beats \in Seq(ControlBeat) /\ beats # <<>> /\ Len(beats) = 1
      <3>1. beats \in Seq(ControlBeat)
        BY <1>1 DEF HostInv
      <3>2. beats # <<>> /\ Len(beats) = Len(p) - j
        BY DEF OnBus, Sending
      <3> QED BY <1>3, <3>1, <3>2, SMTT(40)
    <2>2. Tail(beats) \in Seq(ControlBeat) /\ Len(Tail(beats)) = 0
      BY <2>1, HeadTailProperties
    <2>3. Tail(beats) = <<>>
      BY <2>2, EmptySeq
    <2> QED BY <1>1, <2>3 DEF EdgeParts, HostEdge
  <1>13. Awaited'
    BY <1>3, <1>10, <1>12 DEF Awaited
  <1>14. Responses'
    BY <1>2, <1>3, <1>10, <1>11 DEF Responses
  <1>15. OneAsks'
    BY <1>2, <1>8 DEF OneAsks, OwedAsks, MoverAsks
  <1> QED BY <1>13, <1>14, <1>15 DEF AnswerInv

LEMMA FreeWrites ==
    ASSUME Setting, ProgramInv, AnswerInv, NEW tready \in BOOLEAN, NEW gap \in BOOLEAN, NEW cr \in BOOLEAN,
           NEW finish \in BOOLEAN, NEW f \in Flags, AnswerParts(gap, tready, cr, finish, f),
           await = NoAnswer, Taken(cr), NEW p \in Packets, NEW j \in 0 .. Len(p) - 1, OnBus(p, j), p[1].wr
    PROVE  AnswerInv'
  <1> DEFINE tid == p[1].tid
             w == p[j+1].data
             v == Written(p, j)
             prog == Program(tid, v)
  <1>1. HostInv /\ Core /\ EdgeParts(gap, tready, cr)
    BY DEF ProgramInv, AnswerParts
  <1>2. /\ ~MoverAsks' /\ ~StatusAsks' /\ blen_r' = 0 /\ b_response' = Invalid
        /\ a_response' = a_response_s(Bus) /\ ~a_response.valid /\ ~r_advance(tready)
        /\ moverQ' # <<>> \/ sts'.valid => lsu_tid' = LSU
    BY FreeFacts, SMTT(20)
  <1>3. /\ Bus = Beat(p[1].go, p[1].wr, p[1].sel, p[1].len, tid, w, j + 1 = Len(p)) /\ Bus = Head(beats)
        /\ Bus.sel + Bus.len - Len(beats) = Spot(p, j)
    BY DEF OnBus, Spot
  <1>4. Bus.wr = p[1].wr /\ Bus.tid = tid /\ Bus.go = p[1].go /\ Bus.last = (j + 1 = Len(p)) /\ Bus.data = w
    <2> DEFINE l == j + 1 = Len(p)
    <2>1. Bus = Beat(p[1].go, p[1].wr, p[1].sel, p[1].len, tid, w, l)
      BY <1>3
    <2> HIDE DEF w, tid, l
    <2>2. Bus.wr = p[1].wr /\ Bus.tid = tid /\ Bus.go = p[1].go /\ Bus.last = l /\ Bus.data = w
      BY <2>1, SMTT(40) DEF Beat
    <2> QED BY <2>2 DEF l
  <1>5. a_response' = Invalid
    BY <1>2, <1>4 DEF a_response_s
  <1>6. owed' = IF Starts(p, j) THEN prog ELSE <<>>
    BY <1>1, WriteEdge
  <1>7. Bus.last /\ Bus.go <=> Starts(p, j)
    BY <1>4 DEF Starts
  <1>8. v = [shadow EXCEPT ![Spot(p, j)] = w]
    BY DEF Written
  <1>9. await' = IF Bus.last /\ AnswerTo(Bus, owed') # NoAnswer THEN AnswerTo(Bus, owed') ELSE NoAnswer
    <2> DEFINE b == Head(beats)
               nth == b.sel + b.len - Len(beats)
               written == IF Taken(cr) /\ b.wr THEN [shadow EXCEPT ![nth] = b.data] ELSE shadow
               starts == Taken(cr) /\ b.last /\ b.go
               pr == IF starts THEN Program(b.tid, written) ELSE <<>>
    <2>1. b = Bus /\ nth = Spot(p, j) /\ b.wr /\ b.data = w /\ b.tid = tid
      BY <1>3, <1>4
    <2>2. written = v
      BY <1>8, <2>1
    <2>3. starts <=> Starts(p, j)
      BY <1>7, <2>1
    <2>4. await' = IF Taken(cr) /\ b.last /\ AnswerTo(b, pr) # NoAnswer THEN AnswerTo(b, pr) ELSE await
      BY <1>1, <1>2 DEF EdgeParts, GhostEdge
    <2> HIDE DEF b, written, starts, v, w, tid
    <2>5. pr = owed'
      BY <1>6, <2>1, <2>2, <2>3
    <2> HIDE DEF pr
    <2> QED BY <2>1, <2>4, <2>5
  <1>10. CASE ~Starts(p, j)
    <2>1. owed' = <<>>
      BY <1>6, <1>10
    <2>2. AnswerTo(Bus, <<>>) = NoAnswer
      BY <1>4, SMTT(40) DEF AnswerTo
    <2>3. await' = NoAnswer
      BY <1>9, <2>1, <2>2
    <2>4. ~OwedAsks'
      BY <2>1 DEF OwedAsks
    <2> QED BY <1>2, <1>5, <2>3, <2>4, FreeStays
  <1>11. CASE Starts(p, j)
    <2>1. v \in [Registers -> Nat] /\ tid \in Tids /\ (cmd(v) = CMD_smove => rep(v) # 0)
      <3>1. p[1] \in ControlBeat
        BY PacketFacts
      <3>2. tid \in Tids
        BY <3>1 DEF ControlBeat, Tids
      <3> QED BY <1>1, <1>11, <3>2, PacketWords, StridedWhole
    <2> HIDE DEF v, tid
    <2>2. /\ prog \in Seq(Entry)
          /\ \A k \in 1 .. Len(prog) : prog[k].dest = tid /\ (prog[k].req => k = Len(prog))
      BY <2>1, ProgramShape DEF Setting
    <2> HIDE DEF prog
    <2>3. owed' = prog /\ Bus.last
      BY <1>6, <1>7, <1>11
    <2>4. DOMAIN prog = 1 .. Len(prog)
      BY <2>2, LenProperties
    <2>5. beats' = <<>>
      <3>1. beats \in Seq(ControlBeat) /\ beats # <<>> /\ Len(beats) = Len(p) - j /\ j + 1 = Len(p)
        BY <1>1, <1>11 DEF HostInv, OnBus, Sending, Starts
      <3>2. Len(p) \in Nat /\ j \in Nat
        BY PacketFacts, SMTT(40)
      <3>3. Len(beats) = 1
        BY <3>1, <3>2
      <3>4. Tail(beats) \in Seq(ControlBeat) /\ Len(Tail(beats)) = 0
        BY <3>1, <3>3, HeadTailProperties
      <3>5. Tail(beats) = <<>>
        BY <3>4, EmptySeq
      <3> QED BY <1>1, <3>5 DEF EdgeParts, HostEdge
    <2>6. CASE \E k \in 1 .. Len(prog) : prog[k].req
      <3>1. AnswerTo(Bus, prog) = StatusAnswer(tid)
        BY <1>4, <2>4, <2>6 DEF AnswerTo, StatusAnswer
      <3>2. await' = StatusAnswer(tid)
        BY <1>9, <2>3, <3>1, Kinds
      <3>3. Awaited'
        BY <2>1, <2>5, <3>2 DEF Awaited
      <3>4. Responses'
        BY <1>2, <1>5 DEF Responses
      <3>5. \A k \in 1 .. Len(owed') : owed'[k].req => k = Len(owed') /\ await' = StatusAnswer(owed'[k].dest)
        BY <2>2, <2>3, <3>2
      <3>6. ~b_response'.valid
        BY <1>2 DEF Invalid
      <3>7. OneAsks'
        BY <1>2, <3>5, <3>6 DEF OneAsks, MoverAsks
      <3> QED BY <3>3, <3>4, <3>7 DEF AnswerInv
    <2>7. CASE ~\E k \in 1 .. Len(prog) : prog[k].req
      <3>1. AnswerTo(Bus, prog) = NoAnswer
        BY <1>4, <2>4, <2>7 DEF AnswerTo
      <3>2. await' = NoAnswer
        BY <1>9, <2>3, <3>1
      <3>3. ~OwedAsks'
        BY <2>3, <2>7 DEF OwedAsks
      <3> QED BY <1>2, <1>5, <3>2, <3>3, FreeStays
    <2> QED BY <2>6, <2>7
  <1> QED BY <1>10, <1>11
-----------------------------------------------------------------------------
(* The answer invariant *)

LEMMA AnswerInit == ASSUME Init PROVE AnswerInv
  <1>1. /\ await = NoAnswer /\ owed = <<>> /\ moverQ = <<>> /\ sts = Invalid /\ blen_r = 0
        /\ a_response = Invalid /\ b_response = Invalid
    BY DEF Init, PortInit
  <1>2. ~OwedAsks /\ ~MoverAsks /\ ~StatusAsks /\ ~sts.valid
    BY <1>1 DEF OwedAsks, MoverAsks, StatusAsks, Invalid
  <1>3. Awaited /\ Responses
    BY <1>1, <1>2 DEF Awaited, Responses
  <1>4. OneAsks
    BY <1>2 DEF OneAsks, OwedAsks, MoverAsks
  <1> QED BY <1>3, <1>4 DEF AnswerInv

LEMMA AnswerEdge ==
    ASSUME Setting, ProgramInv, AnswerInv, NEW gap \in BOOLEAN, NEW tready \in BOOLEAN, NEW accept \in BOOLEAN,
           NEW finish \in BOOLEAN, NEW f \in Flags, Edge(gap, tready, accept, finish, f)
    PROVE  AnswerInv'
  <1> DEFINE cr == Room(accept)
  <1>1. cr \in BOOLEAN
    BY DEF Room
  <1>2. AnswerParts(gap, tready, cr, finish, f)
    <2>1. EdgeParts(gap, tready, cr)
      BY EdgeFacts
    <2>2. MoverEdge(Issued(cr), StsTaken(tready), finish, f)
      BY DEF Edge, Room, Issued, StsTaken
    <2>3. ResponseBeats(tready) /\ ARegister(Bus, tready) /\ BRegister(response(sts), tready) /\ TidSeq
      BY DEF Edge, PortClock
    <2> QED BY <2>1, <2>2, <2>3 DEF AnswerParts
  <1> HIDE DEF cr
  <1>3. CASE await # NoAnswer
    BY <1>1, <1>2, <1>3, WaitingSilent, WaitingAsks
  <1>4. CASE await = NoAnswer
    <2>1. CASE ~Taken(cr)
      BY <1>1, <1>2, <1>4, <2>1, FreeQuiet
    <2>2. CASE Taken(cr)
      <3>1. PICK p \in Packets : \E j \in 0 .. Len(p) - 1 : OnBus(p, j)
        BY <1>1, <2>2, BeatTaken, BusFacts DEF ProgramInv
      <3>2. PICK j \in 0 .. Len(p) - 1 : OnBus(p, j)
        BY <3>1
      <3> QED BY <1>1, <1>2, <1>4, <2>2, <3>2, FreeReads, FreeWrites, SMTT(20)
    <2> QED BY <2>1, <2>2
  <1> QED BY <1>3, <1>4

LEMMA AnswerStep == ASSUME Setting, Blocking, ProgramInv, AnswerInv, [Next]_vars PROVE AnswerInv'
  <1>1. CASE \E p \in Packets : HostSends(p)
    <2>1. PICK p \in Packets : HostSends(p)
      BY <1>1
    <2>2. await = NoAnswer
      BY <2>1 DEF HostSends, MaySend
    <2>3. UNCHANGED <<blen_r, a_response, b_response, lsu_tid, moverQ, sts, owed, await>>
      BY <2>1 DEF HostSends, portVars, mover, ghosts
    <2>4. OneAsks' /\ Responses'
      BY <2>3 DEF AnswerInv, OneAsks, OwedAsks, MoverAsks, StatusAsks, Responses
    <2>5. Awaited'
      BY <2>2, <2>3 DEF Awaited
    <2> QED BY <2>4, <2>5 DEF AnswerInv
  <1>2. CASE \E gap, tready, accept, finish \in BOOLEAN, f \in Flags :
                Edge(gap, tready, accept, finish, f)
    BY <1>2, AnswerEdge
  <1>3. CASE UNCHANGED vars
    <2>1. UNCHANGED <<blen_r, a_response, b_response, lsu_tid, moverQ, sts, owed, await, beats>>
      BY <1>3 DEF vars, portVars, mover, ghosts, host
    <2> QED BY <2>1 DEF AnswerInv, Awaited, OneAsks, OwedAsks, MoverAsks, StatusAsks, Responses
  <1> QED BY <1>1, <1>2, <1>3 DEF Next

\* Software that waits for each answer before it goes on (lsu_cmd.c, aport.c) gets
\* exactly the answer it waits for, whatever gaps, stalls and delays there are.
THEOREM Answers == ASSUME Setting, Blocking PROVE Spec => []AnswerExpected
  <1>1. Init => IInv
    BY ProgramInit, AnswerInit DEF IInv
  <1>2. IInv /\ [Next]_vars => IInv'
    BY ProgramStep, AnswerStep DEF IInv
  <1>3. IInv => AnswerExpected
    BY StreamFacts DEF IInv, AnswerInv
  <1> QED BY <1>1, <1>2, <1>3, PTL DEF Spec
=============================================================================
