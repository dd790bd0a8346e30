------------------------- MODULE PartProcessProofs --------------------------
(***************************************************************************)
(* Theorems about PartProcess, for every set of frames a governor may      *)
(* write, every interval and any number of frames.                         *)
(***************************************************************************)
EXTENDS PartProcessProperties, TLAPS

(* A frame on the stream is a sequence of cells.                           *)
LEMMA CellsType ==
  ASSUME NEW f \in Frames
  PROVE  Cells(f) \in Seq(CellType)
<1>1. f.says \in Meanings /\ f.length \in 0 .. MAXIMUM_FRAME_BYTES + 1 /\ f.length + 1 \in Nat
  BY FrameAssumption DEF Frames
<1>2. \A i \in 1 .. f.length + 1 : i - 1 \in 0 .. MAXIMUM_FRAME_BYTES + 1
  BY <1>1, FrameAssumption
<1>3. \A i \in 1 .. f.length + 1 :
        [says |-> f.says, length |-> f.length, index |-> i - 1] \in CellType
  BY <1>1, <1>2 DEF CellType
<1> QED BY <1>1, <1>3 DEF Cells

(* The clock is kept within the interval.                                  *)
LEMMA CappedType ==
  ASSUME NEW t \in Nat
  PROVE  Capped(t) \in 0 .. HealthInterval
BY PartAssumption DEF Capped

(* Taking the head off a sequence leaves a sequence.                       *)
LEMMA HeadTail ==
  ASSUME NEW S, NEW s \in Seq(S), s # <<>>
  PROVE  Head(s) \in S /\ Tail(s) \in Seq(S)
OBVIOUS

(* Time passing and the forcing of a report leave the clock in its type.   *)
LEMMA ClockType ==
  ASSUME TypeOK, \/ \E d \in 0 .. TickInterval : Elapse(d)
                 \/ \E d \in 0 .. LongestTick : Elapse(d)
                 \/ ForceHealth
  PROVE  uptime' \in 0 .. HealthInterval /\ sinceHealth' \in 0 .. HealthInterval
<1>1. CASE \E d \in Nat : Elapse(d)
  <2>1. PICK d \in Nat : Elapse(d)
    BY <1>1
  <2>2. uptime + d \in Nat /\ sinceHealth + d \in Nat
    BY PartAssumption DEF TypeOK
  <2> QED BY <2>1, <2>2, CappedType DEF Elapse
<1>2. CASE ForceHealth
  BY <1>2 DEF ForceHealth, TypeOK
<1> QED BY <1>1, <1>2, PartAssumption

(* The loop starts in it.                                                  *)
LEMMA TypeInit == Init => TypeOK
<1> SUFFICES ASSUME Init PROVE TypeOK
  OBVIOUS
<1>1. Capped(Uptime) \in 0 .. HealthInterval
  BY CappedType, PartAssumption
<1>2. 0 \in 0 .. MAXIMUM_FRAME_BYTES
  BY FrameAssumption
<1>3. open \in BOOLEAN /\ asked \in BOOLEAN
  BY DEF Init
<1>4. /\ <<>> \in Seq(CellType) /\ <<>> \in Seq(Meanings)
      /\ <<>> \in Seq(Meanings \cup {"too_long"})
      /\ <<>> \in Seq(Malformed \cup {"too_long"})
  OBVIOUS
<1> QED BY <1>1, <1>2, <1>3, <1>4 DEF Init, TypeOK, NoRefusal

(* Every action keeps every variable in its type.                          *)
LEMMA TypeStep == TypeOK /\ [Next]_vars => TypeOK'
<1> SUFFICES ASSUME TypeOK, [Next]_vars PROVE TypeOK'
  OBVIOUS
<1> USE DEF governor, reading, clock, record
<1>1. ASSUME NEW f \in Offers, Send(f) PROVE TypeOK'
  <2>1. f \in Frames
    BY PartAssumption
  <2>2. writing' \in Seq(CellType)
    BY <1>1, <2>1, CellsType DEF Send
  <2>3. sent' \in Seq(Meanings)
    BY <1>1, <2>1 DEF Send, TypeOK, Frames
  <2> QED BY <1>1, <2>2, <2>3 DEF Send, TypeOK
<1>2. CASE WriteSome
  <2>1. stream' \in Seq(CellType) /\ writing' \in Seq(CellType)
    BY <1>2, HeadTail DEF WriteSome, TypeOK
  <2> QED BY <1>2, <2>1 DEF WriteSome, TypeOK
<1>3. CASE CloseGovernorEnd
  <2>1. open' \in BOOLEAN
    BY <1>3 DEF CloseGovernorEnd
  <2>2. writing' \in Seq(CellType)
    BY <1>3 DEF CloseGovernorEnd
  <2> QED BY <1>3, <2>1, <2>2 DEF CloseGovernorEnd, TypeOK
<1>4. CASE SelectReadable
  BY <1>4, ClockType DEF SelectReadable, TypeOK
<1>5. CASE SelectTimesOut
  <2>1. TickInterval \in 0 .. TickInterval
    BY PartAssumption
  <2> QED BY <1>5, <2>1, ClockType DEF SelectTimesOut, TypeOK
<1>6. CASE ReadEnd
  BY <1>6 DEF ReadEnd, Exit, TypeOK
<1>7. CASE ReadPrefix
  <2>1. /\ stream' \in Seq(CellType) /\ Head(stream) \in CellType
        /\ UNCHANGED <<open, writing, sent, body, reported, asked, cause>>
    BY <1>7, HeadTail DEF ReadPrefix, TypeOK
  <2>2. PICK length \in Claims(Head(stream)) :
          IF TooLong(length)
          THEN /\ Refuse("too_long")
               /\ handled' = Append(handled, "too_long")
               /\ UNCHANGED <<reading, reported, asked>>
          ELSE /\ want' = length /\ pc' = "body"
               /\ UNCHANGED <<body, refused_control_frame, clock, record>>
    BY <1>7 DEF ReadPrefix
  <2>3. CASE TooLong(length)
    <3>1. Refuse("too_long") /\ UNCHANGED want /\ handled' = Append(handled, "too_long")
      BY <2>2, <2>3
    <3>2. uptime' \in 0 .. HealthInterval /\ sinceHealth' \in 0 .. HealthInterval
      BY <3>1, ClockType DEF Refuse
    <3> QED BY <1>7, <2>1, <3>1, <3>2 DEF ReadPrefix, Refuse, TypeOK
  <2>4. CASE ~TooLong(length)
    <3>1. length \in 0 .. MAXIMUM_FRAME_BYTES
      BY <2>1, <2>4, FrameAssumption DEF Claims, CellType, TooLong
    <3>2. /\ want' = length /\ pc' = "body"
          /\ UNCHANGED <<refused_control_frame, clock, handled, refusals>>
      BY <2>2, <2>4
    <3> QED BY <2>1, <3>1, <3>2 DEF TypeOK
  <2> QED BY <2>3, <2>4
<1>8. CASE ReadBody
  <2>1. stream' \in Seq(CellType) /\ body' \in Seq(CellType)
    BY <1>8, HeadTail DEF ReadBody, TypeOK
  <2>2. want' \in 0 .. MAXIMUM_FRAME_BYTES
    BY <1>8, FrameAssumption DEF ReadBody, TypeOK
  <2> QED BY <1>8, <2>1, <2>2 DEF ReadBody, TypeOK
<1>9. ASSUME NEW meaning \in Meanings, Handle(meaning)
      PROVE  /\ handled' \in Seq(Meanings \cup {"too_long"}) /\ body' = <<>>
             /\ UNCHANGED <<governor, stream, want, reported>>
  BY <1>9 DEF Handle, TypeOK
<1>10. CASE RefuseFrame
  <2>1. PICK meaning \in Malformed : Handle(meaning) /\ Refuse(meaning)
    BY <1>10 DEF RefuseFrame
  <2>2. meaning \in Meanings
    BY DEF Meanings
  <2>3. uptime' \in 0 .. HealthInterval /\ sinceHealth' \in 0 .. HealthInterval
    BY <2>1, ClockType DEF Refuse
  <2>4. refusals' \in Seq(Malformed \cup {"too_long"})
    BY <2>1 DEF Refuse, TypeOK
  <2>5. /\ handled' \in Seq(Meanings \cup {"too_long"}) /\ body' = <<>>
        /\ UNCHANGED <<governor, stream, want, reported>>
    BY <1>9, <2>1, <2>2
  <2> QED BY <1>10, <2>1, <2>3, <2>4, <2>5 DEF RefuseFrame, Refuse, TypeOK
<1>11. CASE RaiseTypeError
  <2>1. "unhashable_command" \in Meanings
    BY DEF Meanings, Malformed
  <2>2. /\ handled' \in Seq(Meanings \cup {"too_long"}) /\ body' = <<>>
        /\ UNCHANGED <<governor, stream, want, reported>>
    BY <1>9, <1>11, <2>1 DEF RaiseTypeError
  <2> QED BY <1>11, <2>2 DEF RaiseTypeError, Die, TypeOK
<1>12. CASE TurnOn \/ TurnOff
  <2>1. "on" \in Meanings /\ "off" \in Meanings
    BY DEF Meanings, KNOWN_COMMANDS
  <2>2. /\ handled' \in Seq(Meanings \cup {"too_long"}) /\ body' = <<>>
        /\ UNCHANGED <<governor, stream, want, reported>>
    BY <1>9, <1>12, <2>1 DEF TurnOn, TurnOff
  <2> QED BY <1>12, <2>2 DEF TurnOn, TurnOff, Exit, TypeOK
<1>13. CASE ReportHealth
  <2>1. "report_health" \in Meanings
    BY DEF Meanings, KNOWN_COMMANDS
  <2>2. uptime' \in 0 .. HealthInterval /\ sinceHealth' \in 0 .. HealthInterval
    BY <1>13, ClockType DEF ReportHealth
  <2>3. /\ handled' \in Seq(Meanings \cup {"too_long"}) /\ body' = <<>>
        /\ UNCHANGED <<governor, stream, want, reported>>
    BY <1>9, <1>13, <2>1 DEF ReportHealth
  <2>4. asked' \in BOOLEAN
    BY <1>13 DEF ReportHealth
  <2> QED BY <1>13, <2>2, <2>3, <2>4 DEF ReportHealth, TypeOK
<1>14. CASE DoOneTick
  BY <1>14, ClockType DEF DoOneTick, TypeOK
<1>15. CASE HealthNotDue
  BY <1>15 DEF HealthNotDue, TypeOK
<1>16. CASE EmitHealth
  <2>1. reported' \in Seq(Malformed \cup {"too_long"})
    <3>1. CASE refused_control_frame = NoRefusal
      BY <1>16, <3>1 DEF EmitHealth, TypeOK
    <3>2. CASE refused_control_frame # NoRefusal
      <4>1. refused_control_frame \in Malformed \cup {"too_long"}
        BY <3>2 DEF TypeOK
      <4> QED BY <1>16, <3>2, <4>1 DEF EmitHealth, TypeOK
    <3> QED BY <3>1, <3>2
  <2>2. asked' \in BOOLEAN
    BY <1>16 DEF EmitHealth
  <2>3. sinceHealth' \in 0 .. HealthInterval
    BY <1>16, PartAssumption DEF EmitHealth
  <2> QED BY <1>16, <2>1, <2>2, <2>3 DEF EmitHealth, NoRefusal, TypeOK
<1>17. CASE WorkFails
  BY <1>17 DEF WorkFails, Die, TypeOK
<1>18. CASE UNCHANGED vars
  BY <1>18 DEF vars, TypeOK
<1> QED BY <1>1, <1>2, <1>3, <1>4, <1>5, <1>6, <1>7, <1>8, <1>10, <1>11, <1>12, <1>13,
           <1>14, <1>15, <1>16, <1>17, <1>18 DEF Next, Governor, Part, Receive, Act

(* The loop's variables keep their types.                                  *)
THEOREM TypeCorrect == Spec => []TypeOK
<1> QED BY TypeInit, TypeStep, PTL DEF Spec

-----------------------------------------------------------------------------
(* What the loop owes its governor between a forced report and its         *)
(* emission.  A part that started on a machine up for an interval has      *)
(* uptime at its cap, so a forced report is due at once: the loop cannot   *)
(* come back to its control socket without emitting it.                    *)
Settled == refused_control_frame = NoRefusal /\ reported = refusals /\ ~asked
Owing ==
  /\ \/ refused_control_frame = NoRefusal /\ reported = refusals
     \/ /\ refused_control_frame # NoRefusal
        /\ refusals = Append(reported, refused_control_frame)
  /\ refused_control_frame # NoRefusal \/ asked => sinceHealth = HealthInterval

RefusalBookkeeping ==
  /\ uptime = HealthInterval
  /\ pc \in {"select", "prefix", "body", "exited"} => Settled
  /\ pc \in {"tick", "health"} => Owing

RefusalInv == TypeOK /\ (Uptime >= HealthInterval => RefusalBookkeeping)

(* At the cap the clock stays.                                             *)
LEMMA AtTheCap ==
  ASSUME TypeOK, uptime = HealthInterval, NEW d \in Nat, Elapse(d)
  PROVE  /\ uptime' = HealthInterval
         /\ sinceHealth = HealthInterval => sinceHealth' = HealthInterval
BY PartAssumption DEF Elapse, Capped, TypeOK

(* No report is owed before the first frame.                               *)
LEMMA RefusalInit == Init => RefusalInv
<1> SUFFICES ASSUME Init, Uptime >= HealthInterval PROVE RefusalBookkeeping
  BY TypeInit DEF RefusalInv
<1>1. uptime = HealthInterval
  BY PartAssumption DEF Init, Capped
<1>2. pc = "select" /\ Settled
  BY DEF Init, Settled
<1> QED BY <1>1, <1>2 DEF RefusalBookkeeping

(* Every action keeps the account of refusals and reports.                 *)
LEMMA RefusalStep == RefusalInv /\ [Next]_vars => RefusalInv'
<1> SUFFICES ASSUME RefusalInv, [Next]_vars, Uptime >= HealthInterval
             PROVE  RefusalBookkeeping'
  BY TypeStep DEF RefusalInv
<1> USE DEF governor, reading, clock, record
<1>0. TypeOK /\ RefusalBookkeeping /\ uptime = HealthInterval
  BY DEF RefusalInv, RefusalBookkeeping
<1>1. CASE Governor \/ UNCHANGED vars
  <2>1. UNCHANGED <<pc, refused_control_frame, clock, record>>
    BY <1>1 DEF Governor, Send, WriteSome, CloseGovernorEnd, vars
  <2> QED BY <1>0, <2>1 DEF RefusalBookkeeping, Settled, Owing
<1>2. CASE SelectReadable \/ SelectTimesOut
  <2>1. PICK d \in Nat : Elapse(d)
    BY <1>2, PartAssumption DEF SelectReadable, SelectTimesOut
  <2>2. /\ UNCHANGED <<refused_control_frame, record>> /\ pc = "select"
        /\ pc' \in {"prefix", "tick"}
    BY <1>2 DEF SelectReadable, SelectTimesOut
  <2> QED BY <1>0, <2>1, <2>2, AtTheCap DEF RefusalBookkeeping, Settled, Owing
<1>3. CASE ReadEnd \/ ReadBody
  <2>1. /\ UNCHANGED <<refused_control_frame, clock, record>>
        /\ pc \in {"prefix", "body"} /\ pc' \in {"body", "exited"}
    BY <1>3 DEF ReadEnd, ReadBody, Exit
  <2> QED BY <1>0, <2>1 DEF RefusalBookkeeping, Settled
<1>4. ASSUME NEW reason \in Malformed \cup {"too_long"}, Refuse(reason), Settled,
             UNCHANGED <<reported, asked>>
      PROVE  RefusalBookkeeping'
  <2>1. /\ refused_control_frame' = reason /\ reason # NoRefusal
        /\ refusals' = Append(reported', reason)
    BY <1>4 DEF Refuse, Settled, NoRefusal, Malformed
  <2>2. pc' = "tick" /\ uptime' = HealthInterval /\ sinceHealth' = HealthInterval
    BY <1>0, <1>4 DEF Refuse, ForceHealth
  <2> QED BY <2>1, <2>2 DEF RefusalBookkeeping, Owing
<1>5. CASE ReadPrefix
  <2>1. pc = "prefix" /\ Settled
    BY <1>0, <1>5 DEF ReadPrefix, RefusalBookkeeping
  <2>2. \/ Refuse("too_long") /\ UNCHANGED <<reported, asked>>
        \/ pc' = "body" /\ UNCHANGED <<refused_control_frame, clock, record>>
    BY <1>5 DEF ReadPrefix
  <2>3. CASE Refuse("too_long") /\ UNCHANGED <<reported, asked>>
    BY <1>4, <2>1, <2>3
  <2>4. CASE pc' = "body" /\ UNCHANGED <<refused_control_frame, clock, record>>
    BY <1>0, <2>1, <2>4 DEF RefusalBookkeeping, Settled
  <2> QED BY <2>2, <2>3, <2>4
<1>6. ASSUME NEW meaning, Handle(meaning) PROVE Settled /\ pc = "body" /\ UNCHANGED reported
  BY <1>0, <1>6 DEF Handle, RefusalBookkeeping
<1>7. CASE RefuseFrame
  <2>1. PICK meaning \in Malformed : Handle(meaning) /\ Refuse(meaning)
    BY <1>7 DEF RefuseFrame
  <2>2. UNCHANGED asked
    BY <1>7 DEF RefuseFrame
  <2> QED BY <1>4, <1>6, <2>1, <2>2
<1>8. CASE RaiseTypeError
  <2>1. pc' = "died" /\ UNCHANGED clock
    BY <1>8 DEF RaiseTypeError, Die
  <2> QED BY <1>0, <2>1 DEF RefusalBookkeeping
<1>9. CASE TurnOn \/ TurnOff
  <2>1. /\ UNCHANGED <<refused_control_frame, clock, refusals, asked>>
        /\ pc' \in {"tick", "exited"}
    BY <1>9 DEF TurnOn, TurnOff, Exit
  <2>2. Settled /\ UNCHANGED reported
    BY <1>6, <1>9 DEF TurnOn, TurnOff
  <2> QED BY <1>0, <2>1, <2>2 DEF RefusalBookkeeping, Settled, Owing
<1>10. CASE ReportHealth
  <2>1. /\ UNCHANGED <<refused_control_frame, refusals>> /\ pc' = "tick"
        /\ uptime' = HealthInterval /\ sinceHealth' = HealthInterval
    BY <1>0, <1>10 DEF ReportHealth, ForceHealth
  <2>2. Settled /\ UNCHANGED reported
    BY <1>6, <1>10 DEF ReportHealth
  <2> QED BY <2>1, <2>2 DEF RefusalBookkeeping, Settled, Owing
<1>11. CASE DoOneTick
  <2>1. PICK d \in Nat : Elapse(d)
    BY <1>11, PartAssumption DEF DoOneTick
  <2>2. /\ UNCHANGED <<refused_control_frame, record>> /\ pc = "tick" /\ pc' = "health"
    BY <1>11 DEF DoOneTick
  <2> QED BY <1>0, <2>1, <2>2, AtTheCap DEF RefusalBookkeeping, Owing
<1>12. CASE HealthNotDue
  <2>1. /\ UNCHANGED <<refused_control_frame, clock, record>> /\ pc = "health"
        /\ pc' = "select" /\ sinceHealth # HealthInterval
    BY <1>12, PartAssumption DEF HealthNotDue, TypeOK
  <2> QED BY <1>0, <2>1 DEF RefusalBookkeeping, Settled, Owing
<1>13. CASE EmitHealth
  <2>1. /\ pc = "health" /\ pc' = "select" /\ UNCHANGED <<uptime, refusals>>
        /\ refused_control_frame' = NoRefusal /\ ~asked'
    BY <1>13 DEF EmitHealth
  <2>2. reported' = refusals
    BY <1>0, <1>13 DEF EmitHealth, RefusalBookkeeping, Owing
  <2> QED BY <1>0, <2>1, <2>2 DEF RefusalBookkeeping, Settled
<1>14. CASE WorkFails
  <2>1. pc' = "died" /\ UNCHANGED clock
    BY <1>14 DEF WorkFails, Die
  <2> QED BY <1>0, <2>1 DEF RefusalBookkeeping
<1> QED BY <1>1, <1>2, <1>3, <1>5, <1>7, <1>8, <1>9, <1>10, <1>11, <1>12, <1>13, <1>14
        DEF Next, Part, Receive, Act

(* A part never goes quiet about a frame it refused.                       *)
THEOREM RefusalsAlwaysReach == Spec => []RefusalsReachTheGovernor
<1>1. RefusalInv => RefusalsReachTheGovernor
  BY DEF RefusalInv, RefusalBookkeeping, RefusalsReachTheGovernor, Settled
<1> QED BY <1>1, RefusalInit, RefusalStep, PTL DEF Spec

(* A report asked for is out before the next command is read.              *)
THEOREM AskedHealthAlwaysGiven == Spec => []AskedHealthIsGiven
<1>1. RefusalInv => AskedHealthIsGiven
  BY DEF RefusalInv, RefusalBookkeeping, AskedHealthIsGiven, Settled
<1> QED BY <1>1, RefusalInit, RefusalStep, PTL DEF Spec

-----------------------------------------------------------------------------
(* What the governor's frames have to be for the channel to be a queue:    *)
(* what send_command writes, within the limit, and a frame of no length    *)
(* says nothing that json.loads accepts.                                   *)
Fits(length, says) == length <= MAXIMUM_FRAME_BYTES /\ (length = 0 => says = "not_json")
OffersFit == \A f \in Offers : Fits(f.length, f.says)

(* The cells sent and not yet received.                                    *)
InTransit == stream \o writing

(* Each cell in transit belongs to a frame sent, whose number labels it;   *)
(* the cells of a frame follow each other in order, and the frames do too. *)
CellIs(cell, n) ==
  /\ n \in 1..Len(sent) /\ cell.says = sent[n]
  /\ Fits(cell.length, cell.says) /\ cell.index <= cell.length
Follows(cell, n, nextCell, m) ==
  IF cell.index < cell.length
    THEN m = n /\ nextCell.length = cell.length /\ nextCell.index = cell.index + 1
    ELSE m = n + 1 /\ nextCell.index = 0
Labels(label, q) ==
  /\ \A i \in 1..Len(q) : CellIs(q[i], label[i])
  /\ \A i \in 1..Len(q) : i + 1 \in 1..Len(q) => Follows(q[i], label[i], q[i + 1], label[i + 1])

(* The first is the one the loop comes to next.                            *)
Pending == Len(handled) + 1
FrontIs(label, q) ==
  Len(q) > 0 =>
    IF pc = "body" /\ want > 0
      THEN label[1] = Pending /\ q[1].length = Len(body) + want /\ q[1].index = Len(body) + 1
      ELSE q[1].index = 0 /\ label[1] = (IF pc = "body" THEN Pending + 1 ELSE Pending)

(* The last is the end of the frame sent last, while the governor is there.*)
BackIs(label, q) ==
  open => IF Len(q) > 0
            THEN label[Len(q)] = Len(sent) /\ q[Len(q)].index = q[Len(q)].length
            ELSE /\ Len(sent) = (IF pc = "body" THEN Pending ELSE Pending - 1)
                 /\ pc = "body" => want = 0

(* What was received of a body is the beginning of the pending frame's.    *)
BodyIs ==
  pc = "body" =>
    /\ Pending <= Len(sent) /\ Fits(Len(body) + want, sent[Pending])
    /\ \A k \in 1..Len(body) :
         body[k].says = sent[Pending] /\ body[k].length = Len(body) + want /\ body[k].index = k

InOrder(q) == \E label : Labels(label, q) /\ FrontIs(label, q) /\ BackIs(label, q)

(* The channel between the two ends is in order: the strengthening that    *)
(* makes the queue's promise inductive.                                    *)
QueueInv == ~Stopped => BodyIs /\ InOrder(InTransit)

(* The fields of a cell.                                                   *)
LEMMA Cell ==
  ASSUME NEW c \in CellType
  PROVE  c.index \in Nat /\ c.length \in Nat /\ c.says \in Meanings
BY FrameAssumption DEF CellType

(* What each action does to the cells in transit.                          *)
LEMMA SendTransit ==
  ASSUME TypeOK, NEW f \in Offers, Send(f)
  PROVE  InTransit' = InTransit \o Cells(f) /\ Cells(f) \in Seq(CellType) /\ InTransit \in Seq(CellType)
<1>1. Cells(f) \in Seq(CellType)
  BY CellsType, PartAssumption
<1>2. stream \in Seq(CellType) /\ writing = <<>> /\ writing' = Cells(f) /\ stream' = stream
  BY DEF TypeOK, Send
<1> QED BY <1>1, <1>2 DEF InTransit

(* A cell that goes from the sender to the kernel stays where it was.      *)
LEMMA WriteTransit ==
  ASSUME TypeOK, WriteSome
  PROVE  InTransit' = InTransit
<1>1. stream \in Seq(CellType) /\ writing \in Seq(CellType) /\ writing # <<>>
  BY DEF TypeOK, WriteSome
<1>2. stream' = Append(stream, Head(writing)) /\ writing' = Tail(writing)
  BY DEF WriteSome
<1> QED BY <1>1, <1>2 DEF InTransit

(* What a dead governor leaves is a beginning of what was in transit.      *)
LEMMA CloseTransit ==
  ASSUME TypeOK, CloseGovernorEnd
  PROVE  /\ InTransit \in Seq(CellType) /\ InTransit' \in Seq(CellType)
         /\ Len(InTransit') <= Len(InTransit)
         /\ \A i \in 1..Len(InTransit') : InTransit'[i] = InTransit[i]
<1>1. stream \in Seq(CellType) /\ writing \in Seq(CellType) /\ stream' = stream /\ writing' = <<>>
  BY DEF TypeOK, CloseGovernorEnd
<1> QED BY <1>1 DEF InTransit

(* A cell read is the first in transit.                                    *)
LEMMA ReadTransit ==
  ASSUME TypeOK, stream # <<>>, stream' = Tail(stream), writing' = writing
  PROVE  /\ InTransit \in Seq(CellType) /\ Len(InTransit) > 0 /\ InTransit[1] = Head(stream)
         /\ InTransit' \in Seq(CellType) /\ Len(InTransit') = Len(InTransit) - 1
         /\ \A i \in 1..Len(InTransit') : InTransit'[i] = InTransit[i + 1]
<1>1. stream \in Seq(CellType) /\ writing \in Seq(CellType)
  BY DEF TypeOK
<1> QED BY <1>1 DEF InTransit

(* A frame sent goes behind the last one, which was whole.                 *)
LEMMA SendKeeps ==
  ASSUME TypeOK, QueueInv, OffersFit, NEW f \in Offers, Send(f)
  PROVE  QueueInv'
<1> SUFFICES ASSUME ~Stopped' PROVE (BodyIs /\ InOrder(InTransit))'
  BY DEF QueueInv
<1>1. /\ open /\ sent' = Append(sent, f.says) /\ sent \in Seq(Meanings) /\ f \in Frames
      /\ UNCHANGED <<open, pc, want, body, handled>> /\ open' = open
  BY PartAssumption DEF Send, TypeOK, reading, record
<1>2. BodyIs /\ InOrder(InTransit) /\ Fits(f.length, f.says)
  BY <1>1 DEF QueueInv, Stopped, OffersFit
<1>3. f.says \in Meanings /\ f.length \in Nat
  BY <1>1, FrameAssumption DEF Frames
<1>4. /\ Len(sent') = Len(sent) + 1 /\ sent'[Len(sent) + 1] = f.says /\ Len(sent) \in Nat
      /\ \A n \in 1..Len(sent) : sent'[n] = sent[n]
  BY <1>1, <1>3
<1>5. handled \in Seq(Meanings \cup {"too_long"}) /\ Len(handled) \in Nat /\ Pending' = Pending
  BY <1>1 DEF TypeOK, Pending
<1>6. BodyIs'
  <2>1. CASE pc = "body"
    <3>1. /\ Pending <= Len(sent) /\ Fits(Len(body) + want, sent[Pending])
          /\ \A k \in 1..Len(body) :
               body[k].says = sent[Pending] /\ body[k].length = Len(body) + want /\ body[k].index = k
      BY <1>2, <2>1 DEF BodyIs
    <3>2. Pending \in 1..Len(sent)
      BY <1>4, <1>5, <3>1 DEF Pending
    <3>3. sent'[Pending'] = sent[Pending] /\ Pending' <= Len(sent')
      BY <1>4, <1>5, <3>2
    <3> QED BY <1>1, <3>1, <3>3 DEF BodyIs, Fits
  <2>2. CASE pc # "body"
    BY <1>1, <2>2 DEF BodyIs
  <2> QED BY <2>1, <2>2
<1>7. PICK q : q = InTransit
  OBVIOUS
<1>8. PICK r : r = InTransit'
  OBVIOUS
<1>9. PICK cells : cells = Cells(f)
  OBVIOUS
<1>10. /\ q \in Seq(CellType) /\ r \in Seq(CellType)
       /\ Len(r) = Len(q) + f.length + 1 /\ Len(q) \in Nat
       /\ \A i \in 1..Len(q) : r[i] = q[i]
       /\ \A i \in 1..(f.length + 1) : r[Len(q) + i] = cells[i]
       /\ \A i \in 1..(f.length + 1) : cells[i].says = f.says /\ cells[i].length = f.length
                                       /\ cells[i].index = i - 1
  <2>1. r = q \o cells /\ cells \in Seq(CellType) /\ q \in Seq(CellType)
    BY <1>7, <1>8, <1>9, SendTransit
  <2>2. cells = [i \in 1 .. f.length + 1 |-> [says |-> f.says, length |-> f.length, index |-> i - 1]]
    BY <1>9 DEF Cells
  <2>3. Len(cells) = f.length + 1
    BY <1>3, <2>2
  <2>4. \A i \in 1..(f.length + 1) : cells[i].says = f.says /\ cells[i].length = f.length
                                     /\ cells[i].index = i - 1
    BY <2>2
  <2>5. /\ Len(r) = Len(q) + f.length + 1 /\ Len(q) \in Nat /\ r \in Seq(CellType)
        /\ \A i \in 1..Len(q) : r[i] = q[i]
        /\ \A i \in 1..Len(cells) : r[Len(q) + i] = cells[i]
    <3>1. /\ Len(q) \in Nat /\ r \in Seq(CellType) /\ Len(r) = Len(q) + Len(cells)
          /\ \A i \in 1..Len(q) : r[i] = q[i]
          /\ \A i \in 1..Len(cells) : r[Len(q) + i] = cells[i]
      BY <2>1, SMTT(30)
    <3> QED BY <1>3, <2>3, <3>1
  <2> QED BY <2>1, <2>3, <2>4, <2>5
<1>11. PICK label : Labels(label, q) /\ FrontIs(label, q) /\ BackIs(label, q)
  BY <1>2, <1>7 DEF InOrder
<1>a. PICK next : next = [i \in 1..Len(r) |-> IF i <= Len(q) THEN label[i] ELSE Len(sent) + 1]
  OBVIOUS
<1>12. /\ \A i \in 1..Len(q) : next[i] = label[i]
       /\ \A i \in 1..(f.length + 1) : next[Len(q) + i] = Len(sent) + 1
  <2>1. \A i \in 1..Len(q) : i \in 1..Len(r) /\ i <= Len(q)
    BY <1>3, <1>10
  <2>2. \A i \in 1..(f.length + 1) : Len(q) + i \in 1..Len(r) /\ ~(Len(q) + i <= Len(q))
    BY <1>3, <1>10
  <2> QED BY <1>a, <2>1, <2>2
<1>13. ASSUME NEW i \in 1..Len(r)
       PROVE  i \in 1..Len(q) \/ \E k \in 1..(f.length + 1) : i = Len(q) + k
  <2>1. i <= Len(q) \/ i - Len(q) \in 1..(f.length + 1)
    BY <1>3, <1>10
  <2> QED BY <1>10, <2>1
<1>14. ASSUME NEW i \in 1..Len(r) PROVE CellIs(r[i], next[i])'
  <2>1. CASE i \in 1..Len(q)
    <3>1. CellIs(q[i], label[i]) /\ r[i] = q[i] /\ next[i] = label[i]
      BY <1>10, <1>11, <1>12, <2>1 DEF Labels
    <3> QED BY <1>4, <3>1 DEF CellIs, Fits
  <2>2. CASE \E k \in 1..(f.length + 1) : i = Len(q) + k
    <3>1. PICK k \in 1..(f.length + 1) : i = Len(q) + k
      BY <2>2
    <3>2. /\ r[i].says = f.says /\ r[i].length = f.length /\ r[i].index = k - 1
          /\ next[i] = Len(sent) + 1
      BY <1>10, <1>12, <3>1
    <3> QED BY <1>2, <1>3, <1>4, <3>2 DEF CellIs, Fits
  <2> QED BY <1>13, <2>1, <2>2
<1>15. ASSUME NEW i \in 1..Len(r), i + 1 \in 1..Len(r) PROVE Follows(r[i], next[i], r[i + 1], next[i + 1])
  <2>1. CASE i \in 1..Len(q) /\ i + 1 \in 1..Len(q)
    BY <1>10, <1>11, <1>12, <2>1 DEF Labels
  <2>2. CASE i = Len(q)
    <3>1. label[i] = Len(sent) /\ q[i].index = q[i].length /\ q[i].length \in Nat
      BY <1>1, <1>10, <1>11, <2>2, Cell DEF BackIs
    <3>2. r[i] = q[i] /\ next[i] = label[i] /\ 1 \in 1..(f.length + 1)
      BY <1>3, <1>10, <1>12, <2>2
    <3>3. r[i + 1].index = 0 /\ next[i + 1] = Len(sent) + 1
      BY <1>10, <1>12, <2>2, <3>2
    <3> QED BY <1>4, <3>1, <3>2, <3>3 DEF Follows
  <2>3. ASSUME NEW k \in 1..(f.length + 1), i = Len(q) + k
        PROVE  Follows(r[i], next[i], r[i + 1], next[i + 1])
    <3>1. k + 1 \in 1..(f.length + 1) /\ i + 1 = Len(q) + (k + 1)
      BY <1>3, <1>10, <1>15, <2>3
    <3>2. /\ r[i].index = k - 1 /\ r[i + 1].index = (k + 1) - 1 /\ r[i].length = f.length /\ r[i + 1].length = f.length
          /\ next[i] = Len(sent) + 1 /\ next[i + 1] = Len(sent) + 1
      <4>1. cells[k].index = k - 1 /\ cells[k + 1].index = (k + 1) - 1
        BY <1>10, <2>3, <3>1
      <4>2. r[i] = cells[k] /\ r[i + 1] = cells[k + 1] /\ cells[k].length = f.length
            /\ cells[k + 1].length = f.length
        BY <1>10, <2>3, <3>1
      <4>3. next[i] = Len(sent) + 1 /\ next[i + 1] = Len(sent) + 1
        BY <1>12, <2>3, <3>1
      <4> QED BY <4>1, <4>2, <4>3
    <3> QED BY <1>3, <1>4, <3>1, <3>2 DEF Follows
  <2> QED BY <1>10, <1>13, <1>15, <2>1, <2>2, <2>3
<1>16. Labels(next, r)'
  BY <1>14, <1>15 DEF Labels
<1>17. FrontIs(next, r)'
  <2>1. CASE Len(q) > 0
    <3>1. 1 \in 1..Len(q)
      BY <1>10, <2>1
    <3>2. r[1] = q[1] /\ next[1] = label[1]
      BY <1>10, <1>12, <3>1
    <3> QED BY <1>1, <1>5, <1>11, <2>1, <3>2 DEF FrontIs
  <2>2. CASE Len(q) = 0
    <3>1. Len(q) + 1 = 1 /\ 1 \in 1..(f.length + 1)
      BY <1>3, <2>2
    <3>2. r[1].index = 0 /\ next[1] = Len(sent) + 1
      BY <1>10, <1>12, <3>1
    <3> QED BY <1>1, <1>5, <1>4, <1>11, <2>2, <3>2 DEF FrontIs, BackIs, Pending
  <2> QED BY <1>10, <2>1, <2>2
<1>18. BackIs(next, r)'
  <2>1. f.length + 1 \in 1..(f.length + 1) /\ Len(r) = Len(q) + (f.length + 1) /\ Len(r) > 0
    BY <1>3, <1>10
  <2>2. next[Len(r)] = Len(sent) + 1 /\ r[Len(r)].index = f.length /\ r[Len(r)].length = f.length
    <3>1. PICK k \in 1..(f.length + 1) : k = f.length + 1
      BY <2>1
    <3>2. r[Len(q) + k] = cells[k] /\ next[Len(q) + k] = Len(sent) + 1
          /\ cells[k].index = k - 1 /\ cells[k].length = f.length
      BY <1>10, <1>12, <3>1
    <3> QED BY <1>3, <2>1, <3>1, <3>2
  <2> QED BY <1>4, <2>1, <2>2 DEF BackIs
<1> QED BY <1>6, <1>8, <1>16, <1>17, <1>18 DEF InOrder

(* A governor that dies takes with it what it had not written: what is     *)
(* left is a beginning of what was in transit.                             *)
LEMMA CloseKeeps ==
  ASSUME TypeOK, QueueInv, CloseGovernorEnd
  PROVE  QueueInv'
<1> SUFFICES ASSUME ~Stopped' PROVE (BodyIs /\ InOrder(InTransit))'
  BY DEF QueueInv
<1>1. open' = FALSE /\ UNCHANGED <<sent, pc, want, body, handled>>
  BY DEF CloseGovernorEnd, reading, record
<1>2. BodyIs /\ InOrder(InTransit)
  BY <1>1 DEF QueueInv, Stopped
<1>3. BodyIs'
  BY <1>1, <1>2 DEF BodyIs, Pending
<1>4. PICK q : q = InTransit
  OBVIOUS
<1>5. PICK r : r = InTransit'
  OBVIOUS
<1>6. /\ q \in Seq(CellType) /\ r \in Seq(CellType) /\ Len(r) <= Len(q)
      /\ \A i \in 1..Len(r) : r[i] = q[i]
  BY <1>4, <1>5, CloseTransit
<1>7. PICK label : Labels(label, q) /\ FrontIs(label, q)
  BY <1>2, <1>4 DEF InOrder
<1>8. Labels(label, r)'
  <2>1. \A i \in 1..Len(r) : i \in 1..Len(q) /\ r[i] = q[i]
    BY <1>6
  <2>2. \A i \in 1..Len(r) : CellIs(r[i], label[i])
    BY <1>7, <2>1 DEF Labels
  <2>3. \A i \in 1..Len(r) : i + 1 \in 1..Len(r) => Follows(r[i], label[i], r[i + 1], label[i + 1])
    BY <1>7, <2>1 DEF Labels
  <2>4. \A i \in 1..Len(r) : CellIs(r[i], label[i])'
    BY <1>1, <2>2 DEF CellIs, Fits
  <2> QED BY <2>3, <2>4 DEF Labels, Follows
<1>9. FrontIs(label, r)'
  <2>1. Len(r) > 0 => Len(q) > 0 /\ r[1] = q[1]
    BY <1>6
  <2> QED BY <1>1, <1>7, <2>1 DEF FrontIs, Pending
<1>10. BackIs(label, r)'
  BY <1>1 DEF BackIs
<1> QED BY <1>3, <1>5, <1>8, <1>9, <1>10 DEF InOrder

(* A cell written stays in transit.                                        *)
LEMMA WriteKeeps ==
  ASSUME TypeOK, QueueInv, WriteSome
  PROVE  QueueInv'
<1> SUFFICES ASSUME ~Stopped' PROVE (BodyIs /\ InOrder(InTransit))'
  BY DEF QueueInv
<1>1. UNCHANGED <<open, sent, pc, want, body, handled>> /\ InTransit' = InTransit
  BY WriteTransit DEF WriteSome, reading, record
<1>2. BodyIs /\ InOrder(InTransit)
  BY <1>1 DEF QueueInv, Stopped
<1> QED BY <1>1, <1>2 DEF BodyIs, InOrder, Labels, CellIs, FrontIs, BackIs, Pending

(* recv takes the first cell in transit: the rest keep their labels.       *)
LEMMA RestKeeps ==
  ASSUME NEW q \in Seq(CellType), NEW r \in Seq(CellType), Len(r) = Len(q) - 1,
         \A i \in 1..Len(r) : r[i] = q[i + 1],
         NEW label, Labels(label, q), sent' = sent
  PROVE  \E rest : /\ Labels(rest, r)' /\ \A i \in 1..Len(r) : rest[i] = label[i + 1]
<1>1. PICK rest : rest = [i \in 1..Len(r) |-> label[i + 1]]
  OBVIOUS
<1>2. \A i \in 1..Len(r) : rest[i] = label[i + 1] /\ i + 1 \in 1..Len(q) /\ r[i] = q[i + 1]
  BY <1>1
<1>3. \A i \in 1..Len(r) : CellIs(r[i], rest[i])
  BY <1>2 DEF Labels
<1>4. ASSUME NEW i \in 1..Len(r), i + 1 \in 1..Len(r) PROVE Follows(r[i], rest[i], r[i + 1], rest[i + 1])
  <2>1. PICK j \in 1..Len(q) : j = i + 1
    BY <1>2
  <2>2. j + 1 \in 1..Len(q) /\ r[i] = q[j] /\ rest[i] = label[j]
        /\ r[i + 1] = q[j + 1] /\ rest[i + 1] = label[j + 1]
    BY <1>2, <1>4, <2>1
  <2>3. Follows(q[j], label[j], q[j + 1], label[j + 1])
    BY <2>2 DEF Labels
  <2> QED BY <2>2, <2>3
<1>5. \A i \in 1..Len(r) : CellIs(r[i], rest[i])'
  BY <1>3 DEF CellIs, Fits
<1> QED BY <1>2, <1>4, <1>5 DEF Labels, Follows

(* A prefix read announces the length of the next frame, since the loop is *)
(* at a frame's start.                                                     *)
LEMMA PrefixKeeps ==
  ASSUME TypeOK, QueueInv, ReadPrefix
  PROVE  QueueInv' /\ UNCHANGED <<sent, handled>> /\ ~Stopped /\ ~Stopped'
<1>1. /\ pc = "prefix" /\ stream # <<>> /\ stream' = Tail(stream)
      /\ UNCHANGED <<open, writing, sent>> /\ body = <<>>
  BY DEF ReadPrefix, governor, TypeOK
<1>2. BodyIs /\ InOrder(InTransit) /\ ~Stopped
  BY <1>1 DEF QueueInv, Stopped
<1>3. PICK q : q = InTransit
  OBVIOUS
<1>4. PICK r : r = InTransit'
  OBVIOUS
<1>5. /\ q \in Seq(CellType) /\ Len(q) > 0 /\ q[1] = Head(stream)
      /\ r \in Seq(CellType) /\ Len(r) = Len(q) - 1 /\ \A i \in 1..Len(r) : r[i] = q[i + 1]
  BY <1>1, <1>3, <1>4, ReadTransit
<1>6. PICK label : Labels(label, q) /\ FrontIs(label, q) /\ BackIs(label, q)
  BY <1>2, <1>3 DEF InOrder
<1>7. 1 \in 1..Len(q) /\ Len(q) \in Nat
  BY <1>5
<1>8. /\ CellIs(q[1], label[1]) /\ q[1].index = 0 /\ label[1] = Pending
      /\ q[1].length \in Nat
  BY <1>1, <1>5, <1>6, <1>7, Cell DEF Labels, FrontIs
<1>9. Claims(Head(stream)) = {q[1].length} /\ ~TooLong(q[1].length)
  BY <1>5, <1>8, FrameAssumption DEF Claims, TooLong, CellIs, Fits
<1>10. want' = q[1].length /\ pc' = "body" /\ UNCHANGED <<body, handled>>
  BY <1>9 DEF ReadPrefix, record
<1>11. Len(body) = 0 /\ Pending \in 1..Len(sent) /\ Pending' = Pending
  BY <1>1, <1>8, <1>10 DEF CellIs, Pending
<1>12. BodyIs'
  <2>1. Fits(q[1].length, sent[Pending])
    BY <1>8 DEF CellIs
  <2>2. Len(body') + want' = q[1].length /\ Len(body') = 0
    BY <1>8, <1>10, <1>11
  <2> QED BY <1>1, <1>11, <2>1, <2>2 DEF BodyIs, Fits
<1>13. PICK rest : Labels(rest, r)' /\ \A i \in 1..Len(r) : rest[i] = label[i + 1]
  BY <1>1, <1>5, <1>6, RestKeeps
<1>14. 1 + 1 \in 1..Len(q) => Follows(q[1], label[1], q[2], label[2])
  BY <1>6, <1>7 DEF Labels
<1>15. FrontIs(rest, r)'
  <2>1. SUFFICES ASSUME Len(r) > 0 PROVE FrontIs(rest, r)'
    BY DEF FrontIs
  <2>2. r[1] = q[2] /\ rest[1] = label[2] /\ Follows(q[1], label[1], q[2], label[2])
    BY <1>5, <1>13, <1>14, <2>1
  <2>3. CASE q[1].length = 0
    BY <1>8, <1>10, <1>11, <2>2, <2>3 DEF FrontIs, Follows
  <2>4. CASE q[1].length > 0
    <3>1. rest[1] = Pending /\ r[1].length = q[1].length /\ r[1].index = 1
      BY <1>8, <2>2, <2>4 DEF Follows
    <3>2. want' > 0 /\ Len(body') + want' = q[1].length /\ Len(body') + 1 = 1
      BY <1>8, <1>10, <1>11, <2>4
    <3> QED BY <1>10, <1>11, <3>1, <3>2 DEF FrontIs
  <2> QED BY <1>8, <2>3, <2>4
<1>16. BackIs(rest, r)'
  <2>1. SUFFICES ASSUME open PROVE BackIs(rest, r)'
    BY <1>1 DEF BackIs
  <2>2. label[Len(q)] = Len(sent) /\ q[Len(q)].index = q[Len(q)].length
    BY <1>5, <1>6, <2>1 DEF BackIs
  <2>3. CASE Len(r) > 0
    <3>1. Len(r) \in 1..Len(r) /\ Len(r) + 1 = Len(q)
      BY <1>5, <2>3
    <3>2. rest[Len(r)] = label[Len(q)] /\ r[Len(r)] = q[Len(q)]
      BY <1>5, <1>13, <3>1
    <3> QED BY <1>1, <2>2, <2>3, <3>2 DEF BackIs
  <2>4. CASE Len(r) = 0
    <3>1. Len(q) = 1
      BY <1>5, <1>7, <2>4
    <3>2. Len(sent) = Pending /\ q[1].length = 0
      BY <1>8, <2>2, <3>1
    <3> QED BY <1>1, <1>10, <1>11, <2>4, <3>2 DEF BackIs
  <2> QED BY <1>5, <1>7, <2>3, <2>4
<1> QED BY <1>1, <1>2, <1>4, <1>10, <1>12, <1>13, <1>15, <1>16 DEF QueueInv, InOrder, Stopped

(* A cell of a body read is the next of the pending frame.                 *)
LEMMA BodyKeeps ==
  ASSUME TypeOK, QueueInv, ReadBody
  PROVE  QueueInv' /\ UNCHANGED <<sent, handled>> /\ ~Stopped /\ ~Stopped'
<1>1. /\ pc = "body" /\ want > 0 /\ stream # <<>> /\ stream' = Tail(stream)
      /\ body' = Append(body, Head(stream)) /\ want' = want - 1
      /\ UNCHANGED <<open, writing, sent, pc, handled>>
  BY DEF ReadBody, governor, record
<1>2. BodyIs /\ InOrder(InTransit) /\ ~Stopped
  BY <1>1 DEF QueueInv, Stopped
<1>3. PICK q : q = InTransit
  OBVIOUS
<1>4. PICK r : r = InTransit'
  OBVIOUS
<1>5. /\ q \in Seq(CellType) /\ Len(q) > 0 /\ q[1] = Head(stream)
      /\ r \in Seq(CellType) /\ Len(r) = Len(q) - 1 /\ \A i \in 1..Len(r) : r[i] = q[i + 1]
  BY <1>1, <1>3, <1>4, ReadTransit
<1>6. PICK label : Labels(label, q) /\ FrontIs(label, q) /\ BackIs(label, q)
  BY <1>2, <1>3 DEF InOrder
<1>7. 1 \in 1..Len(q) /\ Len(q) \in Nat /\ want \in Nat /\ Len(body) \in Nat /\ body \in Seq(CellType)
  BY <1>5 DEF TypeOK
<1>8. /\ CellIs(q[1], label[1]) /\ label[1] = Pending
      /\ q[1].length = Len(body) + want /\ q[1].index = Len(body) + 1
  BY <1>1, <1>5, <1>6, <1>7 DEF Labels, FrontIs
<1>9. Pending' = Pending /\ Pending \in 1..Len(sent) /\ sent[Pending] = q[1].says
  BY <1>1, <1>8 DEF CellIs, Pending
<1>10. /\ Len(body') = Len(body) + 1 /\ body'[Len(body) + 1] = q[1]
       /\ \A k \in 1..Len(body) : body'[k] = body[k]
       /\ Len(body') + want' = Len(body) + want
  <2>1. body' = Append(body, q[1]) /\ q[1] \in CellType
    BY <1>1, <1>5, <1>7
  <2> QED BY <1>1, <1>7, <2>1
<1>11. BodyIs'
  <2>1. \A k \in 1..Len(body') : k \in 1..Len(body) \/ k = Len(body) + 1
    BY <1>7, <1>10
  <2>2. \A k \in 1..Len(body') :
          body'[k].says = sent[Pending] /\ body'[k].length = Len(body) + want /\ body'[k].index = k
    BY <1>1, <1>2, <1>8, <1>9, <1>10, <2>1 DEF BodyIs
  <2> QED BY <1>1, <1>2, <1>9, <1>10, <2>2 DEF BodyIs, Fits
<1>12. PICK rest : Labels(rest, r)' /\ \A i \in 1..Len(r) : rest[i] = label[i + 1]
  BY <1>1, <1>5, <1>6, RestKeeps
<1>13. 1 + 1 \in 1..Len(q) => Follows(q[1], label[1], q[2], label[2])
  BY <1>6, <1>7 DEF Labels
<1>14. FrontIs(rest, r)'
  <2>1. SUFFICES ASSUME Len(r) > 0 PROVE FrontIs(rest, r)'
    BY DEF FrontIs
  <2>2. r[1] = q[2] /\ rest[1] = label[2] /\ Follows(q[1], label[1], q[2], label[2])
    BY <1>5, <1>12, <1>13, <2>1
  <2>3. CASE want = 1
    <3>1. rest[1] = Pending + 1 /\ r[1].index = 0
      BY <1>7, <1>8, <2>2, <2>3 DEF Follows
    <3> QED BY <1>1, <1>9, <2>3, <3>1 DEF FrontIs
  <2>4. CASE want > 1
    <3>1. rest[1] = Pending /\ r[1].length = Len(body) + want /\ r[1].index = Len(body) + 1 + 1
      BY <1>7, <1>8, <2>2, <2>4 DEF Follows
    <3>2. want' > 0
      BY <1>1, <1>7, <2>4
    <3> QED BY <1>1, <1>9, <1>10, <3>1, <3>2 DEF FrontIs
  <2> QED BY <1>1, <1>7, <2>3, <2>4
<1>15. BackIs(rest, r)'
  <2>1. SUFFICES ASSUME open PROVE BackIs(rest, r)'
    BY <1>1 DEF BackIs
  <2>2. label[Len(q)] = Len(sent) /\ q[Len(q)].index = q[Len(q)].length
    BY <1>5, <1>6, <2>1 DEF BackIs
  <2>3. CASE Len(r) > 0
    <3>1. Len(r) \in 1..Len(r) /\ Len(r) + 1 = Len(q)
      BY <1>5, <2>3
    <3>2. rest[Len(r)] = label[Len(q)] /\ r[Len(r)] = q[Len(q)]
      BY <1>5, <1>12, <3>1
    <3> QED BY <1>1, <2>2, <2>3, <3>2 DEF BackIs
  <2>4. CASE Len(r) = 0
    <3>1. Len(q) = 1
      BY <1>5, <1>7, <2>4
    <3>2. Len(sent) = Pending /\ want = 1
      BY <1>7, <1>8, <2>2, <3>1
    <3> QED BY <1>1, <1>9, <2>4, <3>2 DEF BackIs
  <2> QED BY <1>5, <1>7, <2>3, <2>4
<1> QED BY <1>1, <1>2, <1>4, <1>11, <1>12, <1>14, <1>15 DEF QueueInv, InOrder, Stopped

(* A body received whole says what its frame says.                         *)
LEMMA WholeBodySays ==
  ASSUME TypeOK, BodyIs, pc = "body", want = 0
  PROVE  Decoded(body) = sent[Pending] /\ Len(handled) < Len(sent)
<1>1. /\ Pending <= Len(sent) /\ Fits(Len(body) + want, sent[Pending])
      /\ \A k \in 1..Len(body) :
           body[k].says = sent[Pending] /\ body[k].length = Len(body) + want /\ body[k].index = k
  BY DEF BodyIs
<1>2. /\ body \in Seq(CellType) /\ Len(body) \in Nat /\ Len(body) + want = Len(body)
      /\ Len(handled) \in Nat /\ Len(sent) \in Nat
  BY DEF TypeOK
<1>3. CASE body = <<>>
  BY <1>1, <1>2, <1>3 DEF Fits, Decoded, Whole, Pending
<1>4. CASE body # <<>>
  <2>1. 1 \in 1..Len(body)
    BY <1>2, <1>4
  <2> QED BY <1>1, <1>2, <1>4, <2>1 DEF Decoded, Whole, Pending
<1> QED BY <1>3, <1>4

(* The loop acts on the next frame sent and on nothing else.               *)
LEMMA HandleKeeps ==
  ASSUME TypeOK, QueueInv, NEW meaning, Handle(meaning), pc' # "body"
  PROVE  /\ QueueInv' /\ sent' = sent /\ ~Stopped /\ Len(handled) < Len(sent)
         /\ meaning = sent[Len(handled) + 1] /\ handled' = Append(handled, meaning)
<1>1. /\ pc = "body" /\ want = 0 /\ Decoded(body) = meaning /\ body' = <<>>
      /\ handled' = Append(handled, meaning)
      /\ UNCHANGED <<open, writing, sent, stream, want>>
  BY DEF Handle, governor
<1>2. BodyIs /\ InOrder(InTransit) /\ ~Stopped
  BY <1>1 DEF QueueInv, Stopped
<1>3. meaning = sent[Pending] /\ Len(handled) < Len(sent)
  BY <1>1, <1>2, WholeBodySays
<1>4. Len(handled) \in Nat /\ Len(handled') = Len(handled) + 1 /\ Pending' = Pending + 1 /\ InTransit' = InTransit
  BY <1>1, <1>3 DEF TypeOK, Pending, InTransit
<1>5. PICK q : q = InTransit
  OBVIOUS
<1>6. PICK label : Labels(label, q) /\ FrontIs(label, q) /\ BackIs(label, q)
  BY <1>2, <1>5 DEF InOrder
<1>7. Labels(label, q)'
  BY <1>1, <1>6 DEF Labels, CellIs, Fits, Follows
<1>8. FrontIs(label, q)' /\ BackIs(label, q)'
  BY <1>1, <1>4, <1>6 DEF FrontIs, BackIs, Pending
<1>9. BodyIs'
  BY DEF BodyIs
<1> QED BY <1>1, <1>2, <1>3, <1>4, <1>5, <1>7, <1>8, <1>9 DEF QueueInv, InOrder, Pending

(* The rest of the loop reads and writes nothing of the channel.           *)
LEMMA RestOfLoopKeeps ==
  ASSUME TypeOK, QueueInv, UNCHANGED <<governor, stream, handled>>,
         Stopped' \/ (pc # "body" /\ pc' # "body" /\ ~Stopped) \/ (Stopped /\ pc' = pc)
                  \/ (pc' = pc /\ UNCHANGED reading)
  PROVE  QueueInv'
<1> SUFFICES ASSUME ~Stopped' PROVE (BodyIs /\ InOrder(InTransit))'
  BY DEF QueueInv
<1>1. /\ UNCHANGED <<open, writing, sent, stream, handled>> /\ InTransit' = InTransit /\ ~Stopped
      /\ (pc # "body" /\ pc' # "body") \/ (pc' = pc /\ UNCHANGED <<want, body>>)
  BY DEF governor, reading, InTransit, Stopped
<1>2. BodyIs /\ InOrder(InTransit) /\ Pending' = Pending
  BY <1>1 DEF QueueInv, Pending
<1>3. PICK q : q = InTransit
  OBVIOUS
<1>4. PICK label : Labels(label, q) /\ FrontIs(label, q) /\ BackIs(label, q)
  BY <1>2, <1>3 DEF InOrder
<1>5. Labels(label, q)'
  BY <1>1, <1>4 DEF Labels, CellIs, Fits, Follows
<1>6. FrontIs(label, q)' /\ BackIs(label, q)'
  BY <1>1, <1>2, <1>4 DEF FrontIs, BackIs
<1>7. BodyIs'
  BY <1>1, <1>2 DEF BodyIs, Fits
<1> QED BY <1>1, <1>3, <1>5, <1>6, <1>7 DEF InOrder

(* A step of the abstract queue, or one that leaves it alone.              *)
QueueStep == [Queue!Offer \/ Queue!Take \/ Queue!Stop]_(Queue!queueVars)

(* Every step keeps the order and is a step of the queue or none.          *)
LEMMA QueueSimulated ==
  ASSUME TypeOK, QueueInv, OffersFit, [Next]_vars
  PROVE  QueueInv' /\ QueueStep
<1> USE DEF QueueStep, Queue!queueVars
<1>1. ASSUME NEW f \in Offers, Send(f) PROVE QueueInv' /\ QueueStep
  <2>1. Queue!Offer
    <3>1. f.says \in Meanings
      BY PartAssumption DEF Frames
    <3>2. sent' = Append(sent, f.says) /\ handled' = handled /\ pc' = pc
      BY <1>1 DEF Send, record
    <3> QED BY <3>1, <3>2 DEF Queue!Offer, Stopped
  <2> QED BY <1>1, <2>1, SendKeeps
<1>2. CASE WriteSome \/ CloseGovernorEnd
  <2>1. UNCHANGED <<sent, handled, pc>>
    BY <1>2 DEF WriteSome, CloseGovernorEnd, record
  <2> QED BY <1>2, <2>1, WriteKeeps, CloseKeeps DEF Stopped
<1>3. CASE SelectReadable \/ SelectTimesOut \/ DoOneTick \/ HealthNotDue \/ EmitHealth
  <2>1. /\ UNCHANGED <<governor, stream, sent, handled>>
        /\ pc # "body" /\ pc' # "body" /\ ~Stopped /\ ~Stopped'
    BY <1>3 DEF SelectReadable, SelectTimesOut, DoOneTick, HealthNotDue, EmitHealth, Stopped, record, governor
  <2> QED BY <2>1, RestOfLoopKeeps
<1>4. CASE ReadEnd \/ WorkFails
  <2>1. UNCHANGED <<governor, stream, sent, handled>> /\ Stopped'
    BY <1>4 DEF ReadEnd, WorkFails, Exit, Die, Stopped, record, governor
  <2> QED BY <2>1, RestOfLoopKeeps DEF Queue!Stop
<1>5. CASE ReadPrefix \/ ReadBody
  BY <1>5, PrefixKeeps, BodyKeeps
<1>6. CASE Act
  <2>1. ASSUME NEW meaning, Handle(meaning), pc' # "body", meaning = "off" => Stopped'
        PROVE  QueueInv' /\ QueueStep
    <3>1. /\ QueueInv' /\ sent' = sent /\ ~Stopped /\ Len(handled) < Len(sent)
          /\ meaning = sent[Len(handled) + 1] /\ handled' = Append(handled, meaning)
      BY <2>1, HandleKeeps
    <3>2. Queue!Take
      BY <2>1, <3>1 DEF Queue!Take
    <3> QED BY <3>1, <3>2
  <2>2. CASE RefuseFrame
    <3>1. PICK meaning \in Malformed : Handle(meaning) /\ Refuse(meaning)
      BY <2>2 DEF RefuseFrame
    <3>2. pc' = "tick" /\ meaning # "off"
      BY <3>1 DEF Refuse, Malformed
    <3> QED BY <2>1, <3>1, <3>2
  <2>3. CASE RaiseTypeError
    <3>1. Handle("unhashable_command") /\ pc' = "died"
      BY <2>3 DEF RaiseTypeError, Die
    <3> QED BY <2>1, <3>1
  <2>4. CASE TurnOn
    <3>1. Handle("on") /\ pc' = "tick"
      BY <2>4 DEF TurnOn
    <3> QED BY <2>1, <3>1
  <2>5. CASE ReportHealth
    <3>1. Handle("report_health") /\ pc' = "tick"
      BY <2>5 DEF ReportHealth
    <3> QED BY <2>1, <3>1
  <2>6. CASE TurnOff
    <3>1. Handle("off") /\ pc' = "exited"
      BY <2>6 DEF TurnOff, Exit
    <3> QED BY <2>1, <3>1 DEF Stopped
  <2> QED BY <1>6, <2>2, <2>3, <2>4, <2>5, <2>6 DEF Act
<1>7. CASE UNCHANGED vars
  <2>1. UNCHANGED <<governor, stream, handled, sent, pc, reading>>
    BY <1>7 DEF vars, record, governor
  <2> QED BY <2>1, RestOfLoopKeeps DEF Stopped
<1> QED BY <1>1, <1>2, <1>3, <1>4, <1>5, <1>6, <1>7 DEF Next, Governor, Part, Receive

(* The part acts on what its governor sent in the order it was sent,       *)
(* nothing twice, nothing skipped and nothing made up, and off is the      *)
(* last: PartProcess implements ControlQueue, wherever the reads cut the   *)
(* stream and whenever either end dies, for every set of frames that fit.  *)
THEOREM PartIsAQueue ==
  ASSUME OffersFit
  PROVE  Spec => ImplementsQueue
<1>1. Init => QueueInv /\ Queue!QueueInit
  <2> SUFFICES ASSUME Init PROVE QueueInv /\ Queue!QueueInit
    OBVIOUS
  <2>1. /\ open = TRUE /\ sent = <<>> /\ handled = <<>> /\ pc = "select" /\ stream = <<>> /\ writing = <<>>
    BY DEF Init
  <2>2. InTransit = <<>> /\ Len(sent) = 0 /\ Len(handled) = 0
    BY <2>1 DEF InTransit
  <2>3. PICK q : q = InTransit
    OBVIOUS
  <2>4. Len(q) = 0 /\ 1..Len(q) = {}
    BY <2>2, <2>3
  <2>5. \A label : Labels(label, q) /\ FrontIs(label, q) /\ BackIs(label, q)
    BY <2>1, <2>2, <2>4 DEF Labels, FrontIs, BackIs, Pending
  <2>6. BodyIs
    BY <2>1 DEF BodyIs
  <2>7. InOrder(q)
    BY <2>5 DEF InOrder
  <2> QED BY <2>1, <2>3, <2>6, <2>7 DEF QueueInv, Queue!QueueInit, Stopped
<1>2. TypeOK /\ QueueInv /\ [Next]_vars => QueueInv' /\ QueueStep
  BY QueueSimulated, OffersFit
<1>3. Spec => []TypeOK
  BY TypeCorrect
<1> QED BY <1>1, <1>2, <1>3, PTL DEF Spec, ImplementsQueue, Queue!QueueSpec, QueueStep
=============================================================================
