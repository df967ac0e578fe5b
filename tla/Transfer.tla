------------------------------ MODULE Transfer ------------------------------
(***************************************************************************)
(* The packets of transfer.c: XferDispatchPkt with its retries, the IN and *)
(* control transfers built on it, and the polls of HID.c built on those.   *)
(*                                                                         *)
(* Each transaction on the bus is one step, in which the token, the data   *)
(* or the handshake can be lost.  The device sends a packet again until it *)
(* gets the handshake; the toggles are all that tells a packet sent again  *)
(* from a new one, and the program saves the host's between two transfers. *)
(***************************************************************************)
EXTENDS Integers, Sequences

CONSTANTS
  USB_NAK_LIMIT, USB_RETRY_LIMIT,
  MaxPackets,   \* bound: the packets of a control read
  MaxReports,   \* bound: the reports the keyboard makes
  MaxAttach     \* bound: how often it is plugged in anew

ASSUME TransferAssumption ==
  /\ USB_NAK_LIMIT \in Nat \ {0} /\ USB_RETRY_LIMIT \in Nat \ {0}
  /\ MaxPackets \in Nat \ {0} /\ MaxReports \in Nat /\ MaxAttach \in Nat

VARIABLES
  \* the program
  pc,            \* "main", or in XferDispatchPkt: "launch" or "result"
  call,          \* the transfer under way: "poll", "read" or "write"
  token, nak_count, retry_count, rcode,
  rcvToggle,     \* [endpoint -> toggle], as saved in the endpoint records
  want,          \* nbytes, in packets
  data,          \* what this transfer has read so far
  running,       \* the task state is USB_STATE_RUNNING
  taken,         \* the last report main has got
  \* the host controller
  HRSL, RCVTOG, RCVDAV, fifo,
  \* the keyboard
  devToggle, packets,   \* by endpoint; packets are those it has to send
  have,                 \* how many packets the answer to a read takes
  made, reachable, attached

program    == <<pc, call, token, nak_count, retry_count, rcode, rcvToggle, want,
                data, running, taken>>
controller == <<HRSL, RCVTOG, RCVDAV, fifo>>
keyboard   == <<devToggle, packets, have, made, reachable, attached>>
vars       == <<program, controller, keyboard>>

ep == IF call = "poll" THEN 1 ELSE 0
Numbered(n) == [k \in 1..n |-> k]

-----------------------------------------------------------------------------
\* One transaction, as the controller and the device carry it out.

\* Nothing came back, or nothing of use; or the controller itself is stuck.
Fails ==
  /\ HRSL' \in {"TIMEOUT", "ERROR", "none"}
  /\ UNCHANGED <<RCVTOG, RCVDAV, fifo, devToggle, packets, have>>

Busy ==
  /\ reachable /\ token # "SETUP"
  /\ HRSL' = "NAK"
  /\ UNCHANGED <<RCVTOG, RCVDAV, fifo, devToggle, packets, have>>

\* The device sees the handshake or does not; a duplicate is acknowledged too.
DeviceSees(ack) ==
  /\ devToggle' = IF ack THEN [devToggle EXCEPT ![ep] = 1 - @] ELSE devToggle
  /\ packets' = IF ack THEN [packets EXCEPT ![ep] = Tail(@)] ELSE packets
  /\ UNCHANGED have

Duplicate == devToggle[ep] # RCVTOG

ReceivesData(ack) ==
  /\ reachable /\ token = "IN" /\ packets[ep] # <<>>
  /\ IF Duplicate
     THEN HRSL' = "TOGERR" /\ UNCHANGED <<RCVTOG, RCVDAV, fifo>>
     ELSE /\ HRSL' = "SUCCESS" /\ RCVTOG' = 1 - RCVTOG
          /\ RCVDAV' = TRUE /\ fifo' = Head(packets[ep])
  /\ DeviceSees(ack)

\* A read is answered with as much as there is, SET_CONFIGURATION by a reset
\* of the other endpoint.
ReceivesSetup(ack) ==
  /\ reachable /\ token = "SETUP"
  /\ HRSL' = IF ack THEN "SUCCESS" ELSE "TIMEOUT"
  /\ have' \in 1..want
  /\ packets' = [packets EXCEPT ![0] = IF call = "read" THEN Numbered(have') ELSE <<>>,
                                ![1] = IF call = "read" THEN @ ELSE <<>>]
  /\ devToggle' = [devToggle EXCEPT ![0] = 1, ![1] = IF call = "read" THEN @ ELSE 0]
  /\ UNCHANGED <<RCVTOG, RCVDAV, fifo>>

Handshakes ==
  /\ reachable /\ token \in {"INHS", "OUTHS"}
  /\ HRSL' = "SUCCESS"
  /\ UNCHANGED <<RCVTOG, RCVDAV, fifo, devToggle, packets, have>>

Launch ==
  /\ pc = "launch" /\ pc' = "result"
  /\ Fails \/ Busy \/ Handshakes
       \/ \E ack \in BOOLEAN : ReceivesData(ack) \/ ReceivesSetup(ack)
  /\ UNCHANGED <<call, token, nak_count, retry_count, rcode, rcvToggle, want, data,
                 running, taken, made, reachable, attached>>

-----------------------------------------------------------------------------
\* The end of XferDispatchPkt.

\* Mutant: the counters are set to 0 inside the loop.
Relaunch_Afresh ==
  /\ \/ HRSL = "NAK" /\ nak_count + 1 # USB_NAK_LIMIT
        /\ nak_count' = 0 /\ UNCHANGED retry_count
     \/ HRSL = "TIMEOUT" /\ retry_count + 1 # USB_RETRY_LIMIT
        /\ retry_count' = 0 /\ UNCHANGED nak_count
  /\ pc' = "launch"

\* Mutant: the limits are tested before counting.
Relaunch_OneMore ==
  /\ \/ HRSL = "NAK" /\ nak_count # USB_NAK_LIMIT
        /\ nak_count' = nak_count + 1 /\ UNCHANGED retry_count
     \/ HRSL = "TIMEOUT" /\ retry_count # USB_RETRY_LIMIT
        /\ retry_count' = retry_count + 1 /\ UNCHANGED nak_count
  /\ pc' = "launch"

Relaunch ==
  /\ \/ HRSL = "NAK" /\ nak_count + 1 # USB_NAK_LIMIT
        /\ nak_count' = nak_count + 1 /\ UNCHANGED retry_count
     \/ HRSL = "TIMEOUT" /\ retry_count + 1 # USB_RETRY_LIMIT
        /\ retry_count' = retry_count + 1 /\ UNCHANGED nak_count
  /\ pc' = "launch"

Again ==
  /\ pc = "result" /\ Relaunch
  /\ UNCHANGED <<call, token, rcode, rcvToggle, want, data, running, taken,
                 controller, keyboard>>

\* The limits are tested after counting: they bound how often it is sent.
Exhausted ==
  \/ HRSL = "NAK" /\ nak_count + 1 = USB_NAK_LIMIT
  \/ HRSL = "TIMEOUT" /\ retry_count + 1 = USB_RETRY_LIMIT

Failed == HRSL \in {"ERROR", "none", "TOGERR"} \/ Exhausted

XferDispatchPkt(tok) ==
  pc' = "launch" /\ token' = tok /\ nak_count' = 0 /\ retry_count' = 0

Returns(code) ==
  /\ pc' = "main" /\ rcode' = code
  /\ UNCHANGED <<token, nak_count, retry_count>>

GiveUp ==
  /\ pc = "result" /\ Failed
  /\ Returns(HRSL)
  /\ UNCHANGED <<call, rcvToggle, want, data, running, taken, controller, keyboard>>

Succeeded == pc = "result" /\ ~ Failed /\ HRSL \notin {"NAK", "TIMEOUT"}

-----------------------------------------------------------------------------
\* XferCtrlReq after its SETUP packet: no data stage, or one that starts at DATA1.

NoDataStage ==
  /\ Succeeded /\ token = "SETUP" /\ call = "write"
  /\ XferDispatchPkt("INHS")
  /\ UNCHANGED <<call, rcode, rcvToggle, want, data, running, taken, controller, keyboard>>

XferCtrlData ==
  /\ Succeeded /\ token = "SETUP" /\ call = "read"
  /\ rcvToggle' = [rcvToggle EXCEPT ![0] = 1]
  /\ RCVTOG' = 1
  /\ XferDispatchPkt("IN")
  /\ UNCHANGED <<call, rcode, want, data, running, taken, HRSL, RCVDAV, fifo, keyboard>>

StatusStageEnds ==
  /\ Succeeded /\ token \in {"INHS", "OUTHS"}
  /\ Returns("SUCCESS")
  /\ running' = (running \/ call = "write")
  /\ UNCHANGED <<call, rcvToggle, want, data, taken, controller, keyboard>>

-----------------------------------------------------------------------------
\* XferInTransfer, after a packet.

\* A short packet, or all that was asked for.
Complete == (fifo = have /\ have < want) \/ Len(data) + 1 >= want \/ call = "poll"

\* Mutant: line 198, which sets the toggle, is inside the loop.
NextPacket_SetsToggle ==
  /\ RCVTOG' = rcvToggle[ep]
  /\ XferDispatchPkt("IN")
  /\ UNCHANGED <<rcode, rcvToggle, taken>>

NextPacket ==
  /\ UNCHANGED RCVTOG
  /\ XferDispatchPkt("IN")
  /\ UNCHANGED <<rcode, rcvToggle, taken>>

\* Mutant: the toggle is not saved.
SavedToggle_Stale == rcvToggle
SavedToggle == [rcvToggle EXCEPT ![ep] = RCVTOG]

LastPacket ==
  /\ rcvToggle' = SavedToggle
  /\ IF call = "poll"
     THEN Returns("SUCCESS") /\ taken' = fifo
     ELSE XferDispatchPkt("OUTHS") /\ UNCHANGED <<rcode, taken>>
  /\ UNCHANGED RCVTOG

TakePacket ==
  /\ data' = Append(data, fifo)
  /\ RCVDAV' = FALSE
  /\ IF Complete THEN LastPacket ELSE NextPacket

ReadPacket ==
  /\ Succeeded /\ token = "IN"
  /\ IF RCVDAV
     THEN TakePacket
     ELSE Returns("f0") /\ UNCHANGED <<rcvToggle, data, taken, RCVTOG, RCVDAV>>
  /\ UNCHANGED <<call, want, running, HRSL, fifo, keyboard>>

-----------------------------------------------------------------------------
\* The calls.

Begin(name, tok) == pc = "main" /\ call' = name /\ data' = <<>> /\ XferDispatchPkt(tok)

kbdPoll ==
  /\ running /\ Begin("poll", "IN")
  /\ RCVTOG' = rcvToggle[1] /\ want' = 1
  /\ UNCHANGED <<rcode, rcvToggle, running, taken, HRSL, RCVDAV, fifo, keyboard>>

\* Descriptors before the device is configured, GetIdle and GetProto after it.
XferGet ==
  /\ Begin("read", "SETUP")
  /\ want' \in 1..MaxPackets
  /\ UNCHANGED <<rcode, rcvToggle, running, taken, controller, keyboard>>

\* Mutant: HID_init leaves the toggle of an earlier device.
HID_init_Nothing == UNCHANGED rcvToggle
HID_init == rcvToggle' = [rcvToggle EXCEPT ![1] = 0]

\* The end of HIDKProbe: the records are set up and the device configured.
Configure ==
  /\ ~ running /\ Begin("write", "SETUP")
  /\ HID_init /\ want' = 1
  /\ UNCHANGED <<rcode, running, taken, controller, keyboard>>

\* The interrupt handler ends RUNNING, and the device gets its address again.
Notice ==
  /\ pc = "main" /\ running /\ ~ reachable
  /\ running' = FALSE
  /\ UNCHANGED <<pc, call, token, nak_count, retry_count, rcode, rcvToggle, want,
                 data, taken, controller, keyboard>>

Address ==
  /\ pc = "main" /\ ~ running /\ ~ reachable
  /\ reachable' = TRUE
  /\ UNCHANGED <<program, controller, devToggle, packets, have, made, attached>>

-----------------------------------------------------------------------------
\* The keyboard and the person.

MakeReport ==
  /\ running /\ reachable /\ packets[1] = <<>> /\ made < MaxReports
  /\ made' = made + 1
  /\ packets' = [packets EXCEPT ![1] = <<made + 1>>]
  /\ UNCHANGED <<program, controller, devToggle, have, reachable, attached>>

\* Plugged in anew or reset: it has forgotten everything.
Attach ==
  /\ attached < MaxAttach /\ attached' = attached + 1
  /\ reachable' = FALSE
  /\ devToggle' = [e \in 0..1 |-> 0] /\ packets' = [e \in 0..1 |-> <<>>]
  /\ UNCHANGED <<program, controller, have, made>>

-----------------------------------------------------------------------------
Init ==
  /\ pc = "main" /\ call = "write" /\ token = "SETUP" /\ rcode = "SUCCESS"
  /\ nak_count = 0 /\ retry_count = 0 /\ want = 1 /\ data = <<>>
  /\ running = FALSE /\ taken = 0 /\ rcvToggle = [e \in 0..1 |-> 0]
  /\ HRSL = "SUCCESS" /\ RCVTOG = 0 /\ RCVDAV = FALSE /\ fifo = 0
  /\ devToggle = [e \in 0..1 |-> 0] /\ packets = [e \in 0..1 |-> <<>>]
  /\ have = 1 /\ made = 0 /\ reachable = FALSE /\ attached = 0

Transferring ==
  Launch \/ Again \/ GiveUp \/ NoDataStage \/ XferCtrlData \/ StatusStageEnds
    \/ ReadPacket

Main == kbdPoll \/ XferGet \/ Configure \/ Notice \/ Address

Next == Transferring \/ Main \/ MakeReport \/ Attach

\* The program runs on, the loop of main polls again and again, and the bus
\* does not lose every report that is sent.
Fairness ==
  /\ WF_vars(Transferring) /\ SF_vars(kbdPoll)
  /\ SF_vars(Launch /\ call = "poll" /\ HRSL' = "SUCCESS")

Spec == Init /\ [][Next]_vars /\ Fairness
-----------------------------------------------------------------------------
Toggle == {0, 1}
Results == {"SUCCESS", "NAK", "TIMEOUT", "TOGERR", "ERROR", "none"}

ProgramTypeOK ==
  /\ pc \in {"main", "launch", "result"} /\ call \in {"poll", "read", "write"}
  /\ token \in {"SETUP", "IN", "INHS", "OUTHS"}
  /\ nak_count \in 0..(USB_NAK_LIMIT - 1) /\ retry_count \in 0..(USB_RETRY_LIMIT - 1)
  /\ rcode \in Results \cup {"f0"} /\ rcvToggle \in [0..1 -> Toggle]
  /\ want \in 1..MaxPackets /\ data \in Seq(Nat)
  /\ running \in BOOLEAN /\ taken \in Nat

ChipTypeOK ==
  /\ HRSL \in Results /\ RCVTOG \in Toggle /\ RCVDAV \in BOOLEAN /\ fifo \in Nat

KeyboardTypeOK ==
  /\ devToggle \in [0..1 -> Toggle] /\ packets \in [0..1 -> Seq(Nat)]
  /\ have \in 1..MaxPackets /\ made \in Nat /\ reachable \in BOOLEAN /\ attached \in Nat

\* The types; the counters of XferDispatchPkt stay below their limits.
TypeOK == ProgramTypeOK /\ ChipTypeOK /\ KeyboardTypeOK

(***************************************************************************)
(* A read that returns success has read what the device sent, packet by    *)
(* packet, whatever was lost and sent again on the way.                    *)
(***************************************************************************)
ReadIsIntact ==
  pc = "main" /\ call = "read" /\ rcode = "SUCCESS" => data = Numbered(have)

(***************************************************************************)
(* XferInTransfer returns 0xf0 for a packet that has gone, and its comment *)
(* suspects toggle errors.  It never happens: a toggle error ends          *)
(* XferDispatchPkt with a code of its own.                                 *)
(***************************************************************************)
NoReceiveError == rcode # "f0"

\* Every transfer returns, with a device that never stops NAKing as well.
TransfersEnd == pc # "main" ~> pc = "main"

\* A report reaches main, however many transfers fail, unless the keyboard goes.
ReportArrives ==
  \A n \in 1..MaxReports : packets[1] = <<n>> ~> taken = n \/ ~ reachable

(***************************************************************************)
(* Polling is a channel that neither loses nor repeats: a report is under  *)
(* way until main has it; one that waits in the controller is followed by  *)
(* the one the keyboard holds, unless that is the same, sent again.        *)
(***************************************************************************)
InController == pc = "result" /\ call = "poll" /\ HRSL = "SUCCESS"
Expected == IF pc # "main" /\ call = "poll" THEN RCVTOG ELSE rcvToggle[1]
Held == IF devToggle[1] = Expected THEN packets[1] ELSE <<>>

Received == IF InController THEN <<fifo>> ELSE <<>>

Channel == INSTANCE ReportChannel WITH Capacity <- 2, transit <- Received \o Held

IsAChannel == Channel!ChannelSpec
=============================================================================
