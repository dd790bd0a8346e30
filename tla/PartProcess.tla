---------------------------- MODULE PartProcess -----------------------------
(***************************************************************************)
(* runtime/part_process.py: run_part, the loop every part runs, reading its*)
(* control socket (ControlChannel) while a governor writes to it.          *)
(*                                                                         *)
(* time.monotonic() enters the loop only through three comparisons with    *)
(* the health interval, so the clock is kept as the time since boot and    *)
(* the time since the last report, both capped at that interval.           *)
(***************************************************************************)
EXTENDS ControlChannel

CONSTANTS Offers,          \* the frames the governor's end may write
          HealthInterval,  \* health_interval_seconds
          TickInterval,    \* what compute_tick_interval makes of it
          Uptime,          \* time.monotonic() when the loop starts
          LongestTick,     \* bound on how long do_one_tick may take
          WorkRaises,      \* whether do_one_tick and emit_health may raise
          MaxFrames        \* bound on the frames the governor sends

ASSUME PartAssumption ==
  /\ Offers \subseteq Frames
  /\ HealthInterval \in Nat \ {0} /\ Uptime \in Nat /\ LongestTick \in Nat
  /\ MaxFrames \in Nat /\ WorkRaises \in BOOLEAN
  /\ TickInterval \in Nat /\ TickInterval >= HealthInterval

VARIABLES
  (* the governor's end *)
  open,        \* it holds its end of the socket
  writing,     \* the cells of sendall's frame not yet in the socket
  sent,        \* what was sent, in order
  (* the kernel *)
  stream,      \* cells written and not yet read
  (* the part's loop *)
  pc,          \* where in run_part and receive_command
  want,        \* cells of the body still to receive
  body,        \* cells of the body received
  refused_control_frame,
  uptime,      \* time.monotonic()
  sinceHealth, \* now - last_health_at
  (* an onlooker's record *)
  handled,     \* what run_part took each frame to be, in order
  refusals,    \* the frames refused, in order
  reported,    \* the refusals that health reports carried
  asked,       \* a report-health was handled and no report has gone out since
  cause        \* what ended the loop

governor == <<open, writing, sent>>
reading  == <<want, body>>
clock    == <<uptime, sinceHealth>>
record   == <<handled, refusals, reported, asked>>
vars == <<governor, stream, pc, reading, refused_control_frame, clock, record, cause>>

NoRefusal == "none"
Stopped == pc \in {"exited", "died"}

Capped(t) == IF t > HealthInterval THEN HealthInterval ELSE t

Init == /\ open = TRUE /\ writing = <<>> /\ sent = <<>> /\ stream = <<>>
        /\ pc = "select" /\ want = 0 /\ body = <<>>
        /\ refused_control_frame = NoRefusal
        /\ uptime = Capped(Uptime) /\ sinceHealth = Capped(Uptime)
        /\ handled = <<>> /\ refusals = <<>> /\ reported = <<>>
        /\ asked = FALSE /\ cause = "running"

-----------------------------------------------------------------------------
(* The governor.  sendall hands the kernel as much as it will take at a    *)
(* time; a governor that dies may leave a frame half written.              *)
Send(f) ==
  /\ open /\ writing = <<>> /\ Len(sent) < MaxFrames
  /\ writing' = Cells(f)
  /\ sent' = Append(sent, f.says)
  /\ UNCHANGED <<open, stream, pc, reading, refused_control_frame, clock, record, cause>>

WriteSome ==
  /\ open /\ writing # <<>>
  /\ stream' = Append(stream, Head(writing))
  /\ writing' = Tail(writing)
  /\ UNCHANGED <<open, sent, pc, reading, refused_control_frame, clock, record, cause>>

CloseGovernorEnd ==
  /\ open
  /\ open' = FALSE /\ writing' = <<>>
  /\ UNCHANGED <<sent, stream, pc, reading, refused_control_frame, clock, record, cause>>

-----------------------------------------------------------------------------
Elapse(d) == /\ uptime' = Capped(uptime + d)
             /\ sinceHealth' = Capped(sinceHealth + d)

(* Slip: nothing brings the next report forward.                           *)
ForceHealth_Slip == UNCHANGED clock

(* last_health_at = 0.0: the time since the last report is the time since  *)
(* boot.                                                                   *)
ForceHealth == sinceHealth' = uptime /\ UNCHANGED uptime

(* has_pending_command: bytes to read, or the governor's end closed.       *)
Readable == stream # <<>> \/ ~open

SelectReadable ==
  /\ pc = "select" /\ Readable
  /\ \E d \in 0 .. TickInterval : Elapse(d)
  /\ pc' = "prefix"
  /\ UNCHANGED <<governor, stream, reading, refused_control_frame, record, cause>>

(* Slip: select is given no timeout.                                       *)
SelectTimesOut_Slip == FALSE /\ UNCHANGED vars

SelectTimesOut ==
  /\ pc = "select" /\ ~Readable
  /\ Elapse(TickInterval)
  /\ pc' = "tick"
  /\ UNCHANGED <<governor, stream, reading, refused_control_frame, record, cause>>

Exit(why) == pc' = "exited" /\ cause' = why
Die(why)  == pc' = "died" /\ cause' = why

(* receive_command returns None: recv found the end of the stream, between *)
(* two frames or inside one.                                               *)
ReadEnd ==
  /\ pc = "prefix" \/ (pc = "body" /\ want > 0)
  /\ stream = <<>> /\ ~open
  /\ Exit("closed")
  /\ UNCHANGED <<governor, stream, reading, refused_control_frame, clock, record>>

(* ControlFrameRefused reaches the loop.                                   *)
Refuse(reason) ==
  /\ refused_control_frame' = reason
  /\ refusals' = Append(refusals, reason)
  /\ ForceHealth
  /\ pc' = "tick"

ReadPrefix ==
  /\ pc = "prefix" /\ stream # <<>>
  /\ stream' = Tail(stream)
  /\ \E length \in Claims(Head(stream)) :
       IF TooLong(length)
       THEN /\ Refuse("too_long")
            /\ handled' = Append(handled, "too_long")
            /\ UNCHANGED <<reading, reported, asked>>
       ELSE /\ want' = length /\ pc' = "body"
            /\ UNCHANGED <<body, refused_control_frame, clock, record>>
  /\ UNCHANGED <<governor, cause>>

(* Slip: one recv is taken for the whole body.                             *)
ReadBody_Slip ==
  /\ pc = "body" /\ want > 0 /\ stream # <<>>
  /\ stream' = Tail(stream)
  /\ body' = Append(body, Head(stream))
  /\ want' = 0
  /\ UNCHANGED <<governor, pc, refused_control_frame, clock, record, cause>>

(* _receive_exactly, one recv of what is there after another.              *)
ReadBody ==
  /\ pc = "body" /\ want > 0 /\ stream # <<>>
  /\ stream' = Tail(stream)
  /\ body' = Append(body, Head(stream))
  /\ want' = want - 1
  /\ UNCHANGED <<governor, pc, refused_control_frame, clock, record, cause>>

(* Slip: the cells received are not let go of.                             *)
Handle_Slip(meaning) ==
  /\ pc = "body" /\ want = 0 /\ Decoded(body) = meaning
  /\ handled' = Append(handled, meaning)
  /\ UNCHANGED <<governor, stream, want, body, reported>>

(* The body is whole: what run_part does with what it says.                *)
Handle(meaning) ==
  /\ pc = "body" /\ want = 0 /\ Decoded(body) = meaning
  /\ body' = <<>>
  /\ handled' = Append(handled, meaning)
  /\ UNCHANGED <<governor, stream, want, reported>>

RefuseFrame ==
  /\ \E meaning \in Malformed : Refused(meaning) /\ Handle(meaning) /\ Refuse(meaning)
  /\ UNCHANGED <<asked, cause>>

(* The membership test raises TypeError, which run_part does not catch.    *)
RaiseTypeError ==
  /\ Handle("unhashable_command")
  /\ Die("frame")
  /\ UNCHANGED <<refused_control_frame, clock, refusals, asked>>

TurnOn ==
  /\ Handle("on")
  /\ pc' = "tick"
  /\ UNCHANGED <<refused_control_frame, clock, refusals, asked, cause>>

ReportHealth ==
  /\ Handle("report_health")
  /\ asked' = TRUE
  /\ ForceHealth
  /\ pc' = "tick"
  /\ UNCHANGED <<refused_control_frame, refusals, cause>>

(* Slip: the command is read and not acted upon.                           *)
TurnOff_Slip ==
  /\ Handle("off")
  /\ pc' = "tick"
  /\ UNCHANGED <<refused_control_frame, clock, refusals, asked, cause>>

TurnOff ==
  /\ Handle("off")
  /\ Exit("off")
  /\ UNCHANGED <<refused_control_frame, clock, refusals, asked>>

-----------------------------------------------------------------------------
DoOneTick ==
  /\ pc = "tick"
  /\ \E d \in 0 .. LongestTick : Elapse(d)
  /\ pc' = "health"
  /\ UNCHANGED <<governor, stream, reading, refused_control_frame, record, cause>>

HealthNotDue ==
  /\ pc = "health" /\ sinceHealth < HealthInterval
  /\ pc' = "select"
  /\ UNCHANGED <<governor, stream, reading, refused_control_frame, clock, record, cause>>

EmitHealth ==
  /\ pc = "health" /\ sinceHealth >= HealthInterval
  /\ reported' = IF refused_control_frame = NoRefusal THEN reported
                 ELSE Append(reported, refused_control_frame)
  /\ refused_control_frame' = NoRefusal
  /\ sinceHealth' = 0 /\ asked' = FALSE
  /\ pc' = "select"
  /\ UNCHANGED <<governor, stream, reading, uptime, handled, refusals, cause>>

(* do_one_tick, or emit_health when a report is due, raises out of the loop*)
WorkFails ==
  /\ WorkRaises
  /\ pc = "tick" \/ (pc = "health" /\ sinceHealth >= HealthInterval)
  /\ Die("work")
  /\ UNCHANGED <<governor, stream, reading, refused_control_frame, clock, record>>

-----------------------------------------------------------------------------
Governor == (\E f \in Offers : Send(f)) \/ WriteSome \/ CloseGovernorEnd

Receive == ReadEnd \/ ReadPrefix \/ ReadBody

Act == RefuseFrame \/ RaiseTypeError \/ TurnOn \/ ReportHealth \/ TurnOff

Part == \/ SelectReadable \/ SelectTimesOut
        \/ Receive \/ Act
        \/ DoOneTick \/ HealthNotDue \/ EmitHealth \/ WorkFails

Next == Governor \/ Part

Spec == Init /\ [][Next]_vars
=============================================================================
