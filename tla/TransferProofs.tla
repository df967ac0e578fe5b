--------------------------- MODULE TransferProofs ---------------------------
(***************************************************************************)
(* What Transfer promises, for any limits and any number of packets,       *)
(* reports and attachments: its types, that a read returns what was sent,  *)
(* and that polling implements the abstract ReportChannel.                 *)
(***************************************************************************)
EXTENDS Transfer, SequenceTheorems, TLAPS

-----------------------------------------------------------------------------
\* The packets that are left when k of a read have been taken.
Rest(k) == [i \in 1..(have - k) |-> k + i]

\* Device and controller agree on the next packet, or it comes a second time.
InStep(k) ==
  \/ devToggle[0] = RCVTOG /\ packets[0] = Rest(k)
  \/ devToggle[0] # RCVTOG /\ k >= 1 /\ packets[0] = Rest(k - 1)

\* The stages of each call.
Stages ==
  pc # "main" =>
    token \in (CASE call = "poll" -> {"IN"}
                 [] call = "read" -> {"SETUP", "IN", "OUTHS"}
                 [] call = "write" -> {"SETUP", "INHS"})

\* A successful IN leaves a packet in the controller.
DataAfterIn ==
  pc = "result" /\ token = "IN" /\ HRSL = "SUCCESS" => RCVDAV

Got == pc = "result" /\ HRSL = "SUCCESS"

ReadStages ==
  pc # "main" /\ call = "read" =>
    /\ token = "SETUP" => /\ data = <<>>
                          /\ Got => have <= want
                          /\ Got /\ reachable => devToggle[0] = 1 /\ packets[0] = Rest(0)
    /\ token = "IN" => /\ data = Numbered(Len(data))
                       /\ Len(data) < have /\ have <= want
                       /\ Got => fifo = Len(data) + 1
                       /\ reachable => InStep(IF Got THEN Len(data) + 1 ELSE Len(data))
    /\ token = "OUTHS" => data = Numbered(have)

ReadInv == Stages /\ DataAfterIn /\ ReadStages /\ ReadIsIntact /\ NoReceiveError

-----------------------------------------------------------------------------
\* At most one report waits in the keyboard, and only while it is polled.
OneReport ==
  /\ Len(packets[1]) <= 1
  /\ ~ running \/ ~ reachable => packets[1] = <<>>

\* Only a device that is running is polled, and only others are configured.
PollsWhenRunning ==
  pc # "main" => (call = "poll" => running) /\ (call = "write" => ~ running)

\* The controller's toggle is the saved one, until a packet comes.
PollToggle ==
  pc # "main" /\ call = "poll" =>
    RCVTOG = IF InController THEN 1 - rcvToggle[1] ELSE rcvToggle[1]

\* A keyboard with nothing to send and the host agree on the next toggle.
Agree == running /\ reachable /\ packets[1] = <<>> => devToggle[1] = Expected

\* They come to agree as the device is configured.
WriteStages ==
  pc # "main" /\ call = "write" =>
    /\ rcvToggle[1] = 0
    /\ reachable /\ (Got \/ token = "INHS") => devToggle[1] = 0

ChanInv == OneReport /\ PollsWhenRunning /\ PollToggle /\ Agree /\ WriteStages

-----------------------------------------------------------------------------
LEMMA NumberedIsSeq == ASSUME NEW n \in Nat PROVE Numbered(n) \in Seq(Nat)
BY DEF Numbered

(***************************************************************************)
(* The types of XferDispatchPkt's counters, codes and toggles, and that    *)
(* the counters never reach their limits within a transfer.                *)
(***************************************************************************)
THEOREM TypeCorrect == Spec => []TypeOK
<1>1. Init => TypeOK
  <2> SUFFICES ASSUME Init PROVE TypeOK
    OBVIOUS
  <2>1. ProgramTypeOK
    BY TransferAssumption DEF Init, ProgramTypeOK, Toggle, Results
  <2>2. ChipTypeOK
    BY DEF Init, ChipTypeOK, Toggle, Results
  <2>3. KeyboardTypeOK
    BY TransferAssumption DEF Init, KeyboardTypeOK, Toggle
  <2> QED
    BY <2>1, <2>2, <2>3 DEF TypeOK
<1>2. TypeOK /\ [Next]_vars => TypeOK'
  <2> SUFFICES ASSUME TypeOK, [Next]_vars PROVE TypeOK'
    OBVIOUS
  <2> USE TransferAssumption DEF TypeOK, Toggle, Results
  <2>0. ep \in 0..1
    BY DEF ep
  <2>1. CASE Launch
    <3> USE DEF ChipTypeOK, KeyboardTypeOK
    <3>1. ProgramTypeOK'
      BY <2>1 DEF Launch, ProgramTypeOK
    <3>2. made' \in Nat /\ reachable' \in BOOLEAN /\ attached' \in Nat
      BY <2>1 DEF Launch
    <3>3. CASE Fails \/ Busy \/ Handshakes
      BY <3>1, <3>2, <3>3 DEF Fails, Busy, Handshakes
    <3>4. ASSUME NEW ack \in BOOLEAN, ReceivesData(ack) PROVE TypeOK'
      <4>1. /\ packets[ep] \in Seq(Nat) /\ packets[ep] # <<>>
            /\ devToggle[ep] \in {0, 1} /\ have' = have
        BY <2>0, <3>4 DEF ReceivesData, DeviceSees
      <4>2. Head(packets[ep]) \in Nat /\ Tail(packets[ep]) \in Seq(Nat)
        BY <4>1
      <4>3. HRSL' \in Results /\ RCVTOG' \in {0, 1} /\ fifo' \in Nat
        BY <3>4, <4>2 DEF ReceivesData
      <4>4. RCVDAV' \in BOOLEAN
        <5>1. RCVDAV' = TRUE \/ RCVDAV' = RCVDAV
          BY <3>4 DEF ReceivesData
        <5> QED
          BY <5>1
      <4>5. devToggle' \in [0..1 -> {0, 1}]
        BY <2>0, <3>4, <4>1 DEF ReceivesData, DeviceSees
      <4>6. packets' \in [0..1 -> Seq(Nat)]
        BY <2>0, <3>4, <4>1, <4>2 DEF ReceivesData, DeviceSees
      <4> QED
        BY <3>1, <3>2, <4>1, <4>3, <4>4, <4>5, <4>6
    <3>5. ASSUME NEW ack \in BOOLEAN, ReceivesSetup(ack) PROVE TypeOK'
      <4>1. have' \in 1..MaxPackets /\ Numbered(have') \in Seq(Nat)
        BY <3>5, NumberedIsSeq DEF ReceivesSetup, ProgramTypeOK
      <4>2. packets' \in [0..1 -> Seq(Nat)]
        <5>1. /\ (IF call = "read" THEN Numbered(have') ELSE <<>>) \in Seq(Nat)
              /\ (IF call = "read" THEN packets[1] ELSE <<>>) \in Seq(Nat)
          BY <4>1
        <5>2. packets' = [packets EXCEPT
                ![0] = IF call = "read" THEN Numbered(have') ELSE <<>>,
                ![1] = IF call = "read" THEN packets[1] ELSE <<>>]
          BY <3>5 DEF ReceivesSetup
        <5> QED
          BY <5>1, <5>2
      <4>3. devToggle' \in [0..1 -> {0, 1}]
        BY <3>5 DEF ReceivesSetup
      <4> QED
        BY <3>1, <3>2, <3>5, <4>1, <4>2, <4>3 DEF ReceivesSetup
    <3> QED
      BY <2>1, <3>3, <3>4, <3>5 DEF Launch
  <2>2. CASE Again
    BY <2>2 DEF Again, Relaunch, controller, keyboard, ProgramTypeOK, ChipTypeOK,
       KeyboardTypeOK
  <2>3. CASE GiveUp
    BY <2>3 DEF GiveUp, Returns, controller, keyboard, ProgramTypeOK, ChipTypeOK,
       KeyboardTypeOK
  <2>4. UNCHANGED keyboard => KeyboardTypeOK'
    BY DEF keyboard, KeyboardTypeOK
  <2>5. UNCHANGED controller => ChipTypeOK'
    BY DEF controller, ChipTypeOK
  <2>6. CASE NoDataStage
    BY <2>4, <2>5, <2>6 DEF NoDataStage, XferDispatchPkt, ProgramTypeOK
  <2>7. CASE XferCtrlData
    BY <2>4, <2>7 DEF XferCtrlData, XferDispatchPkt, ProgramTypeOK, ChipTypeOK
  <2>8. CASE StatusStageEnds
    <3>1. running' \in BOOLEAN
      BY <2>8 DEF StatusStageEnds
    <3> QED
      BY <2>4, <2>5, <2>8, <3>1 DEF StatusStageEnds, Returns, ProgramTypeOK
  <2>9. CASE ReadPacket
    <3>1. KeyboardTypeOK' /\ fifo \in Nat /\ RCVTOG \in {0, 1}
      BY <2>4, <2>9 DEF ReadPacket, ChipTypeOK
    <3>2. data' \in Seq(Nat)
      <4>1. data' = Append(data, fifo) \/ data' = data
        BY <2>9 DEF ReadPacket, TakePacket
      <4>2. data \in Seq(Nat)
        BY DEF ProgramTypeOK
      <4> QED
        BY <3>1, <4>1, <4>2
    <3>3. rcvToggle' \in [0..1 -> {0, 1}]
      BY <2>0, <2>9, <3>1 DEF ReadPacket, TakePacket, LastPacket, NextPacket, SavedToggle,
         ProgramTypeOK
    <3>4. ChipTypeOK'
      <4>1. RCVDAV' = FALSE \/ RCVDAV' = RCVDAV
        BY <2>9 DEF ReadPacket, TakePacket
      <4>2. UNCHANGED <<HRSL, RCVTOG, fifo>>
        BY <2>9 DEF ReadPacket, TakePacket, LastPacket, NextPacket
      <4> QED
        BY <4>1, <4>2 DEF ChipTypeOK
    <3>5. UNCHANGED <<call, want, running>>
      BY <2>9 DEF ReadPacket
    <3>6. /\ pc' \in {"main", "launch"} /\ token' \in {token, "IN", "OUTHS"}
          /\ nak_count' \in {nak_count, 0} /\ retry_count' \in {retry_count, 0}
          /\ rcode' \in {rcode, "SUCCESS", "f0"} /\ taken' \in {taken, fifo}
      BY <2>9 DEF ReadPacket, TakePacket, LastPacket, NextPacket, Returns, XferDispatchPkt
    <3> QED
      BY <3>1, <3>2, <3>3, <3>4, <3>5, <3>6 DEF ProgramTypeOK
  <2>10. CASE kbdPoll
    <3>1. ChipTypeOK'
      BY <2>10 DEF kbdPoll, ProgramTypeOK, ChipTypeOK
    <3> QED
      BY <2>4, <2>10, <3>1 DEF kbdPoll, Begin, XferDispatchPkt, ProgramTypeOK
  <2>11. CASE XferGet \/ Configure
    <3>1. /\ want' \in 1..MaxPackets /\ rcvToggle' \in [0..1 -> {0, 1}]
          /\ UNCHANGED <<rcode, running, taken, controller, keyboard>>
      BY <2>11 DEF XferGet, Configure, HID_init, ProgramTypeOK
    <3>2. /\ call' \in {"read", "write"} /\ data' = <<>> /\ pc' = "launch"
          /\ token' = "SETUP" /\ nak_count' = 0 /\ retry_count' = 0
      BY <2>11 DEF XferGet, Configure, Begin, XferDispatchPkt
    <3> QED
      BY <2>4, <2>5, <3>1, <3>2 DEF ProgramTypeOK
  <2>12. CASE Notice
    BY <2>4, <2>5, <2>12 DEF Notice, ProgramTypeOK
  <2>13. CASE Address
    BY <2>5, <2>13 DEF Address, program, ProgramTypeOK, KeyboardTypeOK
  <2>14. CASE MakeReport \/ Attach
    <3>1. packets' \in [0..1 -> Seq(Nat)] /\ made' \in Nat /\ attached' \in Nat
      <4>1. <<made + 1>> \in Seq(Nat) /\ <<>> \in Seq(Nat)
        BY DEF KeyboardTypeOK
      <4>2. CASE MakeReport
        BY <4>1, <4>2 DEF MakeReport, KeyboardTypeOK
      <4>3. CASE Attach
        BY <4>1, <4>3 DEF Attach, KeyboardTypeOK
      <4> QED
        BY <2>14, <4>2, <4>3
    <3>2. devToggle' \in [0..1 -> {0, 1}]
      BY <2>14 DEF MakeReport, Attach, KeyboardTypeOK
    <3>3. UNCHANGED <<program, controller, have>>
      BY <2>14 DEF MakeReport, Attach
    <3>4. reachable' \in BOOLEAN
      BY <2>14 DEF MakeReport, Attach, KeyboardTypeOK
    <3> QED
      BY <2>5, <3>1, <3>2, <3>3, <3>4 DEF program, ProgramTypeOK, KeyboardTypeOK
  <2>15. CASE UNCHANGED vars
    BY <2>4, <2>5, <2>15 DEF vars, program, ProgramTypeOK
  <2> QED
    BY <2>1, <2>2, <2>3, <2>6, <2>7, <2>8, <2>9, <2>10, <2>11, <2>12, <2>13, <2>14, <2>15
       DEF Next, Transferring, Main
<1> QED
  BY <1>1, <1>2, PTL DEF Spec
-----------------------------------------------------------------------------
LEMMA NumberedGrows ==
  ASSUME NEW n \in Nat
  PROVE  Len(Numbered(n)) = n /\ Append(Numbered(n), n + 1) = Numbered(n + 1)
<1>1. Numbered(n) \in Seq(Nat) /\ Len(Numbered(n)) = n
  BY DEF Numbered
<1>2. Append(Numbered(n), n + 1) \in Seq(Nat) /\ Numbered(n + 1) \in Seq(Nat)
  BY <1>1, AppendProperties DEF Numbered
<1>3. /\ Len(Append(Numbered(n), n + 1)) = n + 1 /\ Len(Numbered(n + 1)) = n + 1
      /\ \A i \in 1..(n + 1) : Append(Numbered(n), n + 1)[i] = Numbered(n + 1)[i]
  BY <1>1, AppendProperties DEF Numbered
<1> QED
  BY <1>1, <1>2, <1>3, SeqEqual

LEMMA RestIsSeq ==
  ASSUME have \in Nat, NEW k \in Nat, k <= have
  PROVE  Rest(k) \in Seq(Nat) /\ Len(Rest(k)) = have - k
BY DEF Rest

LEMMA RestShrinks ==
  ASSUME have \in Nat, NEW k \in Nat, k <= have, Rest(k) # <<>>
  PROVE  k < have /\ Head(Rest(k)) = k + 1 /\ Tail(Rest(k)) = Rest(k + 1)
<1>1. k < have
  BY RestIsSeq, EmptySeq DEF Rest
<1>2. Head(Rest(k)) = k + 1
  BY <1>1, RestIsSeq DEF Rest
<1>3. Tail(Rest(k)) \in Seq(Nat) /\ Len(Tail(Rest(k))) = have - (k + 1)
  BY <1>1, RestIsSeq
<1>4. Rest(k + 1) \in Seq(Nat) /\ Len(Rest(k + 1)) = have - (k + 1)
  <2>1. k + 1 \in Nat /\ k + 1 <= have
    BY <1>1
  <2> QED
    BY <2>1, RestIsSeq
<1>5. ASSUME NEW i \in 1..(have - (k + 1)) PROVE Tail(Rest(k))[i] = Rest(k + 1)[i]
  <2>1. Tail(Rest(k))[i] = Rest(k)[i + 1]
    BY <1>1, <1>5, RestIsSeq
  <2> QED
    BY <1>1, <2>1 DEF Rest
<1> QED
  BY <1>1, <1>2, <1>3, <1>4, <1>5, SeqEqual

\* A packet received in step leaves the two in step about the next one.
LEMMA StaysInStep ==
  ASSUME TypeOK, NEW k \in Nat, k < have, NEW ack \in BOOLEAN,
         ReceivesData(ack), ep = 0, InStep(k)
  PROVE  /\ HRSL' = "SUCCESS" => fifo' = k + 1 /\ InStep(k + 1)'
         /\ HRSL' # "SUCCESS" => InStep(k)'
<1> USE DEF TypeOK, ChipTypeOK, KeyboardTypeOK, Toggle
<1>0. have \in Nat /\ have' = have /\ RCVTOG \in {0, 1} /\ devToggle[0] \in {0, 1}
  BY TransferAssumption DEF ReceivesData, DeviceSees
<1>1. packets[0] # <<>> /\ \A j : Rest(j)' = Rest(j)
  BY <1>0 DEF ReceivesData, Rest
<1>2. /\ devToggle'[0] = IF ack THEN 1 - devToggle[0] ELSE devToggle[0]
      /\ packets'[0] = IF ack THEN Tail(packets[0]) ELSE packets[0]
  BY DEF ReceivesData, DeviceSees
<1>3. CASE devToggle[0] = RCVTOG /\ packets[0] = Rest(k)
  <2>1. HRSL' = "SUCCESS" /\ RCVTOG' = 1 - RCVTOG /\ fifo' = Head(packets[0])
    BY <1>3 DEF ReceivesData, Duplicate
  <2>2. Head(packets[0]) = k + 1 /\ Tail(packets[0]) = Rest(k + 1)
    BY SMTT(30), <1>0, <1>1, <1>3, RestShrinks
  <2>3. (k + 1) - 1 = k /\ Rest((k + 1) - 1)' = Rest(k) /\ Rest(k + 1)' = Rest(k + 1)
    BY <1>1
  <2>4. ack => devToggle'[0] = RCVTOG' /\ packets'[0] = Rest(k + 1)'
    BY <1>2, <1>3, <2>1, <2>2, <2>3
  <2>5. ~ ack => devToggle'[0] # RCVTOG' /\ packets'[0] = Rest((k + 1) - 1)'
    BY <1>0, <1>2, <1>3, <2>1, <2>3
  <2> QED
    BY <2>1, <2>2, <2>4, <2>5 DEF InStep
<1>4. CASE devToggle[0] # RCVTOG /\ k >= 1 /\ packets[0] = Rest(k - 1)
  <2>1. HRSL' = "TOGERR" /\ RCVTOG' = RCVTOG
    BY <1>4 DEF ReceivesData, Duplicate
  <2>2. Tail(packets[0]) = Rest(k)
    BY <1>0, <1>1, <1>4, RestShrinks
  <2> QED
    BY <1>0, <1>1, <1>2, <1>4, <2>1, <2>2 DEF InStep
<1> QED
  BY <1>3, <1>4 DEF InStep

(***************************************************************************)
(* A read that returns success has read what was sent, and the receive     *)
(* error of XferInTransfer never occurs: ReadInv is inductive.             *)
(***************************************************************************)
LEMMA ReadLaunch == ASSUME TypeOK, ReadInv, Launch PROVE ReadInv'
<1> USE DEF ReadInv
<1>0. /\ pc = "launch" /\ pc' = "result" /\ ~ Got
      /\ UNCHANGED <<call, token, rcode, want, data, reachable>>
  BY DEF Launch, Got
<1>1. Stages' /\ ReadIsIntact' /\ NoReceiveError'
  BY <1>0 DEF Stages, ReadIsIntact, NoReceiveError
<1>2. CASE Fails \/ Busy
  <2>1. HRSL' # "SUCCESS" /\ UNCHANGED <<RCVTOG, fifo, devToggle, packets, have>>
    BY <1>2 DEF Fails, Busy
  <2>2. \A k : InStep(k)' = InStep(k)
    BY <2>1 DEF InStep, Rest
  <2>3. ReadStages'
    BY <1>0, <2>1, <2>2 DEF ReadStages, Got
  <2> QED
    BY <1>1, <2>1, <2>3 DEF DataAfterIn
<1>3. CASE Handshakes
  <2>1. token \in {"INHS", "OUTHS"} /\ have' = have
    BY <1>3 DEF Handshakes
  <2> QED
    BY <1>0, <1>1, <2>1 DEF DataAfterIn, ReadStages, Numbered
<1>4. ASSUME NEW ack \in BOOLEAN, ReceivesData(ack) PROVE ReadInv'
  <2>1. token = "IN" /\ have' = have /\ DataAfterIn'
    BY <1>4 DEF ReceivesData, DeviceSees, DataAfterIn
  <2>2. CASE call = "read"
    <3>1. /\ data = Numbered(Len(data)) /\ Len(data) < have /\ have <= want
          /\ InStep(Len(data)) /\ Len(data) \in Nat /\ ep = 0
      BY <1>0, <1>4, <2>1, <2>2 DEF ReadStages, TypeOK, ProgramTypeOK, ReceivesData, ep
    <3>2. /\ HRSL' = "SUCCESS" => fifo' = Len(data) + 1 /\ InStep(Len(data) + 1)'
          /\ HRSL' # "SUCCESS" => InStep(Len(data))'
      <4> PICK k \in Nat : k = Len(data)
        BY <3>1
      <4>1. k < have /\ InStep(k)
        BY <3>1
      <4>2. /\ HRSL' = "SUCCESS" => fifo' = k + 1 /\ InStep(k + 1)'
            /\ HRSL' # "SUCCESS" => InStep(k)'
        BY <1>4, <3>1, <4>1, StaysInStep DEF TypeOK
      <4>3. Len(data)' = k
        BY <1>0
      <4> QED
        BY <4>2, <4>3 DEF InStep, Rest
    <3> QED
      BY <1>0, <1>1, <2>1, <3>1, <3>2 DEF ReadStages, Got, Numbered
  <2> QED
    BY <1>0, <1>1, <2>1, <2>2 DEF ReadStages
<1>5. ASSUME NEW ack \in BOOLEAN, ReceivesSetup(ack) PROVE ReadInv'
  <2>1. /\ token = "SETUP" /\ have' \in 1..want /\ devToggle'[0] = 1
        /\ call = "read" => packets'[0] = Numbered(have')
    BY <1>5 DEF ReceivesSetup, TypeOK, KeyboardTypeOK
  <2>2. Rest(0)' = Numbered(have')
    BY <2>1 DEF Rest, Numbered, TypeOK, ProgramTypeOK
  <2>3. have' <= want
    BY <2>1 DEF TypeOK, ProgramTypeOK
  <2> QED
    BY <1>0, <1>1, <2>1, <2>2, <2>3 DEF ReadStages, DataAfterIn
<1> QED
  BY <1>2, <1>3, <1>4, <1>5 DEF Launch

LEMMA ReadTakesPacket == ASSUME TypeOK, ReadInv, ReadPacket PROVE ReadInv'
<1> USE DEF ReadInv
<1>0. /\ Got /\ token = "IN" /\ RCVDAV /\ data' = Append(data, fifo)
      /\ UNCHANGED <<call, want, have, fifo, devToggle, packets, reachable, RCVTOG>>
      /\ IF Complete THEN LastPacket ELSE NextPacket
  BY DEF ReadPacket, Succeeded, Failed, Exhausted, TypeOK, ChipTypeOK, Results, Got, DataAfterIn,
     TakePacket, LastPacket, NextPacket, keyboard
<1>1. /\ pc' \in {"main", "launch"} /\ token' \in {"IN", "OUTHS"} /\ rcode' \in {rcode, "SUCCESS"}
      /\ pc' = "main" <=> Complete /\ call = "poll"
      /\ token' = "OUTHS" <=> Complete /\ call # "poll"
  BY <1>0 DEF LastPacket, NextPacket, Returns, XferDispatchPkt
<1>2. Stages' /\ DataAfterIn' /\ NoReceiveError' /\ ReadIsIntact'
  <2>1. call # "write"
    BY <1>0 DEF Stages, Got
  <2>2. call = "poll" => Complete
    BY DEF Complete
  <2>3. Stages'
    BY <1>0, <1>1, <2>1, <2>2 DEF Stages, TypeOK, ProgramTypeOK
  <2>4. ReadIsIntact'
    BY <1>0, <1>1 DEF ReadIsIntact
  <2>5. DataAfterIn' /\ NoReceiveError'
    BY <1>1 DEF DataAfterIn, NoReceiveError
  <2> QED
    BY <2>3, <2>4, <2>5
<1>3. CASE call = "read"
  <2> PICK k \in Nat : k = Len(data)
    BY DEF TypeOK, ProgramTypeOK
  <2>1. /\ data = Numbered(k) /\ k < have /\ have <= want /\ have \in Nat /\ want \in Nat
        /\ fifo = k + 1
        /\ reachable => InStep(k + 1)
    BY <1>0, <1>3, TransferAssumption DEF ReadStages, Got, TypeOK, ProgramTypeOK, KeyboardTypeOK
  <2>2. data' = Numbered(k + 1) /\ Len(data') = k + 1 /\ fifo' = k + 1
    <3>1. Len(Numbered(k + 1)) = k + 1 /\ Append(Numbered(k), k + 1) = Numbered(k + 1)
      <4>1. k + 1 \in Nat
        OBVIOUS
      <4>2. Len(Numbered(k + 1)) = k + 1
        BY <4>1, NumberedGrows
      <4> QED
        BY <4>2, NumberedGrows
    <3>2. data' = Append(Numbered(k), k + 1) /\ fifo' = k + 1
      BY <1>0, <2>1
    <3> QED
      BY <3>1, <3>2
  <2>6. Complete <=> (k + 1 = have /\ have < want) \/ k + 1 >= want
    BY <1>3, <2>1 DEF Complete
  <2>3. pc' = "launch" /\ ~ Got'
    BY <1>0, <1>1, <1>3 DEF Got
  <2>4. CASE Complete
    <3>1. k + 1 = have /\ token' = "OUTHS"
      BY <1>1, <1>3, <2>1, <2>4, <2>6
    <3> QED
      BY <1>0, <1>2, <2>2, <2>3, <3>1 DEF ReadStages, Numbered
  <2>5. CASE ~ Complete
    <3>1. k + 1 < have /\ token' = "IN"
      BY <1>1, <1>3, <2>1, <2>5, <2>6
    <3>2. reachable => InStep(k + 1)'
      BY <1>0, <2>1 DEF InStep, Rest
    <3> QED
      BY <1>0, <1>2, <2>1, <2>2, <2>3, <3>1, <3>2 DEF ReadStages, InStep, Rest
  <2> QED
    BY <2>4, <2>5
<1> QED
  BY <1>0, <1>2, <1>3 DEF ReadStages

LEMMA ReadOther ==
  ASSUME TypeOK, ReadInv,
         \/ Again \/ GiveUp \/ NoDataStage \/ XferCtrlData \/ StatusStageEnds
         \/ Main \/ MakeReport \/ Attach \/ UNCHANGED vars
  PROVE  ReadInv'
<1> USE DEF ReadInv
<1>1. CASE Again
  <2>1. /\ ~ Got /\ ~ Got' /\ pc = "result" /\ pc' = "launch"
        /\ UNCHANGED <<call, token, rcode, want, data, RCVTOG, devToggle, packets, have, reachable>>
    BY <1>1 DEF Again, Relaunch, Got, controller, keyboard
  <2> QED
    BY <2>1 DEF Stages, DataAfterIn, ReadStages, ReadIsIntact, NoReceiveError, InStep, Rest, Numbered
<1>2. CASE GiveUp
  <2>1. HRSL # "SUCCESS" /\ HRSL \in Results /\ pc' = "main" /\ rcode' = HRSL
    BY <1>2 DEF GiveUp, Failed, Exhausted, Returns, TypeOK, ChipTypeOK
  <2> QED
    BY <2>1 DEF Stages, DataAfterIn, ReadStages, ReadIsIntact, NoReceiveError, Results
<1>3. Succeeded => Got
  BY DEF Succeeded, Got, Failed, Exhausted, TypeOK, ChipTypeOK, Results
<1>4. CASE NoDataStage
  BY <1>4 DEF NoDataStage, XferDispatchPkt, Stages, DataAfterIn, ReadStages, ReadIsIntact,
     NoReceiveError
<1>5. CASE XferCtrlData
  <2>1. /\ pc # "main" /\ call = "read" /\ token = "SETUP" /\ Got /\ RCVTOG' = 1
        /\ pc' = "launch" /\ token' = "IN"
        /\ UNCHANGED <<call, rcode, want, data, devToggle, packets, have, reachable>>
    BY <1>3, <1>5 DEF XferCtrlData, Succeeded, XferDispatchPkt, keyboard
  <2>2. data = <<>> /\ have <= want /\ (reachable => devToggle[0] = 1 /\ packets[0] = Rest(0))
    BY <2>1 DEF ReadStages
  <2>3. data' = Numbered(Len(data'))  /\ Len(data') = 0 /\ 0 < have
    BY <2>1, <2>2 DEF Numbered, TypeOK, KeyboardTypeOK
  <2>4. reachable' => InStep(0)'
    BY <2>1, <2>2 DEF InStep, Rest
  <2> QED
    BY <2>1, <2>2, <2>3, <2>4 DEF Stages, DataAfterIn, ReadStages, ReadIsIntact, NoReceiveError, Got,
       Numbered
<1>6. CASE StatusStageEnds
  <2>1. pc # "main" /\ (call = "read" => token = "OUTHS")
    BY <1>6 DEF StatusStageEnds, Succeeded, Stages
  <2> QED
    BY <1>6, <2>1 DEF StatusStageEnds, Returns, Stages, DataAfterIn, ReadStages, ReadIsIntact,
       NoReceiveError, Numbered, keyboard
<1>7. CASE kbdPoll \/ XferGet \/ Configure
  <2>1. /\ pc' = "launch" /\ rcode' = rcode
        /\ \/ call' = "poll" /\ token' = "IN"
           \/ call' \in {"read", "write"} /\ token' = "SETUP" /\ data' = <<>>
    BY <1>7 DEF kbdPoll, XferGet, Configure, Begin, XferDispatchPkt
  <2> QED
    BY <2>1 DEF Stages, DataAfterIn, ReadStages, ReadIsIntact, NoReceiveError, Got
<1>8. CASE Notice \/ Address
  <2>1. pc' = "main" /\ UNCHANGED <<call, rcode, data, have>>
    BY <1>8 DEF Notice, Address, program, keyboard
  <2> QED
    BY <1>8, <2>1 DEF Notice, Address, Stages, DataAfterIn, ReadStages, ReadIsIntact, NoReceiveError,
       Numbered
<1>9. CASE MakeReport \/ Attach
  <2>1. /\ UNCHANGED <<pc, call, token, rcode, want, data, HRSL, RCVTOG, RCVDAV, fifo, have>>
        /\ reachable' => reachable /\ devToggle' = devToggle /\ packets'[0] = packets[0]
    BY <1>9 DEF MakeReport, Attach, program, controller, TypeOK, KeyboardTypeOK
  <2>2. \A k : reachable' => InStep(k)' = InStep(k)
    BY <2>1 DEF InStep, Rest
  <2>3. reachable' => Rest(0)' = Rest(0)
    BY <2>1 DEF Rest
  <2> QED
    BY <2>1, <2>2, <2>3 DEF Stages, DataAfterIn, ReadStages, ReadIsIntact, NoReceiveError, Got, Numbered
<1>10. CASE UNCHANGED vars
  <2>1. UNCHANGED <<pc, call, token, rcode, want, data, HRSL, RCVTOG, RCVDAV, fifo, have, devToggle,
                    packets, reachable>>
    BY <1>10 DEF vars, program, controller, keyboard
  <2> QED
    BY ZenonT(60), <2>1 DEF Stages, DataAfterIn, ReadStages, ReadIsIntact, NoReceiveError, Got, Numbered, InStep,
       Rest
<1> QED
  BY <1>1, <1>2, <1>4, <1>5, <1>6, <1>7, <1>8, <1>9, <1>10 DEF Main

LEMMA ReadInvariant == Spec => []ReadInv
<1>1. Init => ReadInv
  BY DEF Init, ReadInv, Stages, DataAfterIn, ReadStages, ReadIsIntact, NoReceiveError
<1>2. TypeOK /\ ReadInv /\ [Next]_vars => ReadInv'
  BY ReadLaunch, ReadTakesPacket, ReadOther DEF Next, Transferring
<1> QED
  BY <1>1, <1>2, TypeCorrect, PTL DEF Spec

(***************************************************************************)
(* Whatever is lost, sent again or unplugged on the way, a control read    *)
(* that returns success has read what the device sent, packet by packet.   *)
(***************************************************************************)
THEOREM ReadsAreIntact == Spec => []ReadIsIntact
BY ReadInvariant, PTL DEF ReadInv

\* The code 0xf0 of XferInTransfer is never returned.
THEOREM ReceiveErrorNever == Spec => []NoReceiveError
BY ReadInvariant, PTL DEF ReadInv

-----------------------------------------------------------------------------
\* The channel.

LEMMA Singles ==
  ASSUME NEW s \in Seq(Nat)
  PROVE  /\ s \o <<>> = s /\ <<>> \o s = s
         /\ Len(s) <= 1 /\ s # <<>> => s = <<Head(s)>> /\ Tail(s) = <<>>
<1>1. s \o <<>> = s /\ <<>> \o s = s
  BY ConcatEmptySeq
<1>2. ASSUME Len(s) <= 1, s # <<>> PROVE s = <<Head(s)>> /\ Tail(s) = <<>>
  <2>1. Len(s) = 1 /\ s[1] = Head(s)
    <3>1. Len(s) \in Nat /\ Len(s) # 0 /\ Len(s) <= 1
      <4>1. Len(s) \in Nat \ {0}
        BY <1>2, EmptySeq
      <4> QED
        BY <1>2, <4>1
    <3>2. s[1] = Head(s)
      BY <1>2
    <3>3. Len(s) = 1
      <4>1. \A m \in Nat : m # 0 /\ m <= 1 => m = 1
        OBVIOUS
      <4> QED
        BY <3>1, <4>1, Zenon
    <3> QED
      BY <3>2, <3>3
  <2>2. s \in Seq(Nat) /\ <<Head(s)>> \in Seq(Nat) /\ Len(<<Head(s)>>) = 1
    BY <1>2, <2>1
  <2>3. s = <<Head(s)>>
    BY <2>1, <2>2, SeqEqual
  <2>4. Tail(s) \in Seq(Nat) /\ Len(Tail(s)) = 0
    BY <1>2, <2>1, HeadTailProperties
  <2>5. Tail(s) = <<>>
    BY <2>4, EmptySeq
  <2> QED
    BY <2>3, <2>5
<1> QED
  BY <1>1, <1>2

LEMMA FirstAndRest ==
  ASSUME NEW n \in Nat, NEW s \in Seq(Nat)
  PROVE  <<n>> \o s # <<>> /\ Head(<<n>> \o s) = n /\ Tail(<<n>> \o s) = s
<1> DEFINE t == <<n>> \o s
<1>1. <<n>> \in Seq(Nat) /\ Len(<<n>>) = 1 /\ Len(s) \in Nat
  BY LenProperties
<1>2. t \in Seq(Nat) /\ Len(t) = 1 + Len(s)
  BY <1>1, ConcatProperties
<1>3. \A i \in 1..(1 + Len(s)) : t[i] = IF i <= 1 THEN <<n>>[i] ELSE s[i - 1]
  BY <1>1, ConcatProperties
<1>4. t # <<>> /\ t[1] = n
  BY <1>1, <1>2, <1>3, EmptySeq
<1> HIDE DEF t
<1>5. Head(t) = n
  BY <1>2, <1>4
<1>6. Tail(t) \in Seq(Nat) /\ Len(Tail(t)) = Len(s)
  BY <1>1, <1>2, <1>4, HeadTailProperties
<1>7. ASSUME NEW i \in 1..Len(s) PROVE Tail(t)[i] = s[i]
  <2>1. Tail(t)[i] = t[i + 1]
    BY <1>2, <1>4, <1>6, HeadTailProperties
  <2>2. i + 1 \in 1..(1 + Len(s)) /\ ~ (i + 1 <= 1) /\ (i + 1) - 1 = i
    BY <1>1
  <2>3. t[i + 1] = s[i]
    BY <1>3, <2>2
  <2> QED
    BY <2>1, <2>3
<1>8. Tail(t) = s
  BY <1>6, <1>7, SeqEqual
<1> QED
  BY <1>4, <1>5, <1>8 DEF t

LEMMA WithoutLast ==
  ASSUME NEW r \in Seq(Nat), NEW n \in Nat
  PROVE  /\ r \o <<n>> # <<>> /\ Len(r \o <<n>>) = Len(r) + 1
         /\ SubSeq(r \o <<n>>, 1, Len(r \o <<n>>) - 1) = r
<1> DEFINE t == r \o <<n>>
<1>1. <<n>> \in Seq(Nat) /\ Len(<<n>>) = 1 /\ Len(r) \in Nat
  BY LenProperties
<1>2. t \in Seq(Nat) /\ Len(t) = Len(r) + 1
  BY <1>1, ConcatProperties
<1>3. \A i \in 1..Len(r) : t[i] = r[i] /\ t[i] \in Nat
  BY <1>1, ConcatProperties, ElementOfSeq
<1>4. t # <<>>
  BY <1>1, <1>2, EmptySeq
<1> HIDE DEF t
<1>5. Len(t) - 1 = Len(r)
  BY <1>1, <1>2
<1>6. SubSeq(t, 1, Len(r)) \in Seq(Nat) /\ Len(SubSeq(t, 1, Len(r))) = Len(r)
  BY <1>1, <1>3, SubSeqProperties
<1>7. \A i \in 1..Len(r) : SubSeq(t, 1, Len(r))[i] = r[i]
  BY <1>1, <1>2, <1>3
<1>8. SubSeq(t, 1, Len(r)) = r
  BY <1>6, <1>7, SeqEqual
<1> QED
  BY <1>2, <1>4, <1>5, <1>8 DEF t

LEMMA ChannelLaunch ==
  ASSUME TypeOK, Stages, ChanInv, Launch
  PROVE  ChanInv' /\ UNCHANGED (Received \o Held)
<1> USE DEF ChanInv, TypeOK
<1>0. /\ pc = "launch" /\ pc' = "result" /\ ~ InController /\ Received = <<>> /\ ~ Got
      /\ UNCHANGED <<call, token, rcvToggle, running, reachable>>
  BY DEF Launch, InController, Received, Got
<1>1. PollsWhenRunning'
  BY <1>0 DEF PollsWhenRunning
<1>2. CASE Fails \/ Busy
  <2>1. ~ InController' /\ ~ Got' /\ UNCHANGED <<RCVTOG, devToggle, packets>>
    BY <1>2 DEF Fails, Busy, InController, Got
  <2>2. UNCHANGED <<Received, Held, Expected>>
    BY <1>0, <2>1 DEF Received, Held, Expected
  <2> QED
    BY <1>0, <1>1, <2>1, <2>2 DEF OneReport, PollToggle, Agree, WriteStages
<1>3. CASE Handshakes
  <2>1. /\ UNCHANGED <<RCVTOG, devToggle, packets>> /\ token \in {"INHS", "OUTHS"}
        /\ ~ InController' /\ call # "poll"
    BY <1>0, <1>3 DEF Handshakes, InController, Stages
  <2>2. UNCHANGED <<Received, Held, Expected>>
    BY <1>0, <2>1 DEF Received, Held, Expected
  <2> QED
    BY <1>0, <1>1, <2>1, <2>2 DEF OneReport, PollToggle, Agree, WriteStages, Stages
<1>4. ASSUME NEW ack \in BOOLEAN, ReceivesData(ack), call # "poll"
      PROVE  ChanInv' /\ UNCHANGED (Received \o Held)
  <2>1. devToggle'[1] = devToggle[1] /\ packets'[1] = packets[1] /\ token = "IN" /\ ~ InController'
    BY <1>0, <1>4 DEF ReceivesData, DeviceSees, ep, KeyboardTypeOK, InController
  <2>2. UNCHANGED <<Received, Held, Expected>>
    BY <1>0, <1>4, <2>1 DEF Received, Held, Expected
  <2> QED
    BY <1>0, <1>1, <1>4, <2>1, <2>2 DEF OneReport, PollToggle, Agree, WriteStages, Stages
<1>5. ASSUME NEW ack \in BOOLEAN, ReceivesSetup(ack)
      PROVE  ChanInv' /\ UNCHANGED (Received \o Held)
  <2>1. call # "poll" /\ token = "SETUP" /\ ~ InController' /\ RCVTOG' = RCVTOG
    BY <1>0, <1>5 DEF ReceivesSetup, Stages, InController
  <2>2. call = "write" => packets[1] = <<>> /\ ~ running
    BY <1>0, <2>1 DEF PollsWhenRunning, OneReport
  <2>3. /\ packets'[1] = packets[1]
        /\ devToggle'[1] = IF call = "read" THEN devToggle[1] ELSE 0
    BY <1>5, <2>1, <2>2 DEF ReceivesSetup, KeyboardTypeOK, ProgramTypeOK
  <2>4. UNCHANGED <<Received, Held>>
    BY <1>0, <2>1, <2>2, <2>3 DEF Received, Held, Expected, ProgramTypeOK
  <2> QED
    BY <1>0, <1>1, <2>1, <2>2, <2>3, <2>4 DEF OneReport, PollToggle, Agree, WriteStages, Expected,
       ProgramTypeOK
<1>6. ASSUME NEW ack \in BOOLEAN, ReceivesData(ack), call = "poll"
      PROVE  ChanInv' /\ UNCHANGED (Received \o Held)
  <2>1. /\ packets[1] \in Seq(Nat) /\ packets[1] # <<>> /\ Len(packets[1]) <= 1
        /\ RCVTOG \in {0, 1} /\ devToggle[1] \in {0, 1} /\ RCVTOG = rcvToggle[1]
    BY <1>0, <1>6 DEF ReceivesData, ep, OneReport, PollToggle, KeyboardTypeOK, ChipTypeOK, Toggle
  <2>2. packets[1] = <<Head(packets[1])>> /\ Tail(packets[1]) = <<>>
    BY <2>1, Singles
  <2>3. /\ packets'[1] = IF ack THEN <<>> ELSE packets[1]
        /\ devToggle'[1] = IF ack THEN 1 - devToggle[1] ELSE devToggle[1]
    <3>1. /\ packets' = IF ack THEN [packets EXCEPT ![1] = Tail(packets[1])] ELSE packets
          /\ devToggle' = IF ack THEN [devToggle EXCEPT ![1] = 1 - devToggle[1]] ELSE devToggle
      BY <1>6 DEF ReceivesData, DeviceSees, ep
    <3>2. CASE ack
      BY <2>2, <3>1, <3>2 DEF KeyboardTypeOK
    <3>3. CASE ~ ack
      BY <3>1, <3>3
    <3> QED
      BY <3>2, <3>3
  <2>4. CASE Duplicate
    <3>1. ~ InController' /\ RCVTOG' = RCVTOG /\ devToggle[1] # RCVTOG
      BY <1>6, <2>4 DEF ReceivesData, InController, Duplicate, ep
    <3>2. Held = <<>> /\ Held' = <<>> /\ Received' = <<>>
      BY <1>0, <1>6, <2>3, <3>1 DEF Held, Expected, Received
    <3> QED
      BY <1>0, <1>1, <1>6, <2>1, <2>3, <3>1, <3>2 DEF OneReport, PollToggle, Agree, WriteStages,
         Expected
  <2>5. CASE ~ Duplicate
    <3>1. /\ InController' /\ RCVTOG' = 1 - RCVTOG /\ devToggle[1] = RCVTOG
          /\ fifo' = Head(packets[1])
      BY <1>0, <1>6, <2>5 DEF ReceivesData, InController, Duplicate, ep
    <3>2. Held = packets[1] /\ Held' = <<>> /\ Received' = packets[1]
      BY <1>0, <1>6, <2>1, <2>2, <2>3, <3>1 DEF Held, Expected, Received
    <3>3. UNCHANGED (Received \o Held)
      BY <1>0, <2>1, <3>2, Singles
    <3> QED
      BY <1>0, <1>1, <1>6, <2>1, <2>3, <3>1, <3>3 DEF OneReport, PollToggle, Agree, WriteStages,
         Expected
  <2> QED
    BY <2>4, <2>5
<1> QED
  BY <1>2, <1>3, <1>4, <1>5, <1>6 DEF Launch

LEMMA ChannelOther ==
  ASSUME TypeOK, Stages, DataAfterIn, ChanInv,
         \/ Again \/ GiveUp \/ NoDataStage \/ XferCtrlData \/ StatusStageEnds
         \/ ReadPacket \/ Main
         \/ UNCHANGED vars
  PROVE  ChanInv'
<1> USE DEF ChanInv
<1>0. Succeeded => Got
  BY DEF Succeeded, Got, Failed, Exhausted, TypeOK, ChipTypeOK, Results
<1>1. CASE Again
  <2>1. /\ pc = "result" /\ pc' = "launch" /\ ~ InController /\ ~ InController' /\ ~ Got'
        /\ UNCHANGED <<call, token, rcvToggle, running, RCVTOG, devToggle, packets, reachable>>
    BY <1>1 DEF Again, Relaunch, InController, Got, controller, keyboard
  <2> QED
    BY <2>1 DEF OneReport, PollsWhenRunning, PollToggle, Agree, WriteStages, Expected
<1>2. CASE GiveUp
  <2>1. /\ pc = "result" /\ pc' = "main" /\ ~ InController
        /\ UNCHANGED <<call, rcvToggle, running, RCVTOG, devToggle, packets, reachable>>
    BY <1>2 DEF GiveUp, Failed, Exhausted, Returns, InController, controller, keyboard
  <2> QED
    BY <2>1 DEF OneReport, PollsWhenRunning, PollToggle, Agree, WriteStages, Expected
<1>3. CASE NoDataStage
  <2>1. /\ pc = "result" /\ pc' = "launch" /\ call = "write" /\ Got
        /\ UNCHANGED <<call, rcvToggle, running, devToggle, packets, reachable>>
    BY <1>0, <1>3 DEF NoDataStage, Succeeded, XferDispatchPkt, keyboard
  <2> QED
    BY <2>1 DEF OneReport, PollsWhenRunning, PollToggle, Agree, WriteStages, Expected
<1>4. CASE XferCtrlData
  <2>1. /\ pc = "result" /\ pc' = "launch" /\ call = "read" /\ rcvToggle'[1] = rcvToggle[1]
        /\ UNCHANGED <<call, running, devToggle, packets, reachable>>
    BY <1>4 DEF XferCtrlData, Succeeded, XferDispatchPkt, keyboard, TypeOK, ProgramTypeOK
  <2> QED
    BY <2>1 DEF OneReport, PollsWhenRunning, PollToggle, Agree, WriteStages, Expected
<1>5. CASE StatusStageEnds
  <2>1. /\ pc = "result" /\ pc' = "main" /\ call \in {"read", "write"} /\ Got
        /\ running' <=> running \/ call = "write"
        /\ UNCHANGED <<call, rcvToggle, devToggle, packets, reachable>>
    BY <1>0, <1>5 DEF StatusStageEnds, Succeeded, Returns, keyboard, Stages, TypeOK, ProgramTypeOK
  <2>3. call = "write" => packets[1] = <<>>
    BY <2>1 DEF OneReport, PollsWhenRunning
  <2>4. CASE call = "write"
    BY <2>1, <2>3, <2>4 DEF OneReport, PollsWhenRunning, PollToggle, Agree, WriteStages, Expected
  <2>5. CASE call = "read"
    BY <2>1, <2>5 DEF OneReport, PollsWhenRunning, PollToggle, Agree, WriteStages, Expected
  <2> QED
    BY <2>1, <2>4, <2>5
<1>6. CASE ReadPacket
  <2>1. /\ pc = "result" /\ Got /\ token = "IN" /\ pc' \in {"main", "launch"}
        /\ UNCHANGED <<call, running, devToggle, packets, reachable, RCVTOG>>
    BY <1>0, <1>6 DEF ReadPacket, Succeeded, TakePacket, LastPacket, NextPacket, Returns,
       XferDispatchPkt, keyboard
  <2>2. CASE call = "poll"
    <3>1. pc' = "main" /\ rcvToggle'[1] = RCVTOG
      BY <1>6, <2>1, <2>2 DEF Got, DataAfterIn, ReadPacket, TakePacket, LastPacket, SavedToggle, ep, Returns, Complete,
         TypeOK, ProgramTypeOK
    <3> QED
      BY <2>1, <2>2, <3>1 DEF OneReport, PollsWhenRunning, PollToggle, Agree, WriteStages, Expected
  <2>3. CASE call # "poll"
    <3>1. rcvToggle'[1] = rcvToggle[1] /\ call = "read"
      BY <1>6, <2>1, <2>3 DEF ReadPacket, TakePacket, LastPacket, NextPacket, SavedToggle, ep,
         Returns, Stages, TypeOK, ProgramTypeOK
    <3> QED
      BY <2>1, <2>3, <3>1 DEF OneReport, PollsWhenRunning, PollToggle, Agree, WriteStages, Expected
  <2> QED
    BY <2>2, <2>3
<1>7. CASE kbdPoll
  <2>1. /\ pc = "main" /\ pc' = "launch" /\ call' = "poll" /\ running /\ RCVTOG' = rcvToggle[1]
        /\ ~ InController'
        /\ UNCHANGED <<rcvToggle, running, devToggle, packets, reachable>>
    BY <1>7 DEF kbdPoll, Begin, XferDispatchPkt, InController, keyboard
  <2> QED
    BY <2>1 DEF OneReport, PollsWhenRunning, PollToggle, Agree, WriteStages, Expected
<1>8. CASE XferGet \/ Configure
  <2>1. /\ pc = "main" /\ pc' = "launch" /\ token' = "SETUP" /\ ~ Got'
        /\ UNCHANGED <<running, devToggle, packets, reachable>>
    BY <1>8 DEF XferGet, Configure, Begin, XferDispatchPkt, Got, keyboard
  <2>2. CASE XferGet
    <3>1. call' = "read" /\ rcvToggle' = rcvToggle
      BY <2>2 DEF XferGet, Begin
    <3> QED
      BY <2>1, <3>1 DEF OneReport, PollsWhenRunning, PollToggle, Agree, WriteStages, Expected
  <2>3. CASE Configure
    <3>1. call' = "write" /\ ~ running /\ rcvToggle'[1] = 0
      BY <2>3 DEF Configure, HID_init, Begin, TypeOK, ProgramTypeOK
    <3> QED
      BY <2>1, <3>1 DEF OneReport, PollsWhenRunning, PollToggle, Agree, WriteStages
  <2> QED
    BY <1>8, <2>2, <2>3
<1>9. CASE Notice \/ Address
  <2>1. /\ pc = "main" /\ pc' = "main" /\ ~ reachable /\ ~ running'
        /\ UNCHANGED <<rcvToggle, devToggle, packets>>
    BY <1>9 DEF Notice, Address, program, keyboard
  <2> QED
    BY <2>1 DEF OneReport, PollsWhenRunning, PollToggle, Agree, WriteStages
<1>10. CASE UNCHANGED vars
  BY <1>10 DEF vars, program, controller, keyboard, OneReport, PollsWhenRunning, PollToggle, Agree,
     WriteStages, Expected, InController, Got
<1> QED
  BY <1>1, <1>2, <1>3, <1>4, <1>5, <1>6, <1>7, <1>8, <1>9, <1>10 DEF Main

LEMMA ChannelPeople ==
  ASSUME TypeOK, ChanInv, MakeReport \/ Attach PROVE ChanInv'
<1> USE DEF ChanInv
<1>0. /\ UNCHANGED <<pc, call, token, rcvToggle, running, HRSL, RCVTOG, fifo>>
      /\ UNCHANGED <<Expected, InController, Got>>
  BY DEF MakeReport, Attach, program, controller, Expected, InController, Got
<1>1. CASE MakeReport
  <2>1. /\ packets'[1] = <<made + 1>> /\ running /\ reachable
        /\ UNCHANGED <<devToggle, reachable>>
    BY <1>1 DEF MakeReport, TypeOK, KeyboardTypeOK
  <2> QED
    BY <1>0, <2>1 DEF OneReport, PollsWhenRunning, PollToggle, Agree, WriteStages
<1>2. CASE Attach
  <2>1. packets'[1] = <<>> /\ ~ reachable'
    BY <1>2 DEF Attach
  <2> QED
    BY <1>0, <2>1 DEF OneReport, PollsWhenRunning, PollToggle, Agree, WriteStages
<1> QED
  BY <1>1, <1>2

LEMMA ChannelInvariant == Spec => []ChanInv
<1>1. Init => ChanInv
  BY DEF Init, ChanInv, OneReport, PollsWhenRunning, PollToggle, Agree, WriteStages
<1>2. TypeOK /\ ReadInv /\ ChanInv /\ [Next]_vars => ChanInv'
  BY ChannelLaunch, ChannelOther, ChannelPeople DEF Next, Transferring, ReadInv
<1> QED
  BY <1>1, <1>2, TypeCorrect, ReadInvariant, PTL DEF Spec

-----------------------------------------------------------------------------
\* A report is delivered with the packet that has been received.
LEMMA PollDelivers ==
  ASSUME TypeOK, ReadInv, ChanInv, ReadPacket, call = "poll"
  PROVE  Channel!Deliver
<1>1. /\ InController /\ RCVDAV /\ Complete
  BY DEF ReadPacket, Succeeded, InController, Failed, Exhausted, TypeOK, ChipTypeOK, Results,
     ReadInv, DataAfterIn, Complete
<1>2. /\ pc' = "main" /\ taken' = fifo /\ rcvToggle'[1] = RCVTOG
      /\ UNCHANGED <<made, call, devToggle, packets>>
  BY <1>1 DEF ReadPacket, TakePacket, LastPacket, SavedToggle, ep, Returns, keyboard, TypeOK,
     ProgramTypeOK
<1>3. Received = <<fifo>> /\ Received' = <<>> /\ Held' = Held
  BY <1>1, <1>2 DEF Received, InController, Held, Expected
<1>4. Held \in Seq(Nat) /\ fifo \in Nat
  BY DEF Held, TypeOK, KeyboardTypeOK, ChipTypeOK
<1>5. /\ Received \o Held # <<>> /\ Head(Received \o Held) = fifo
      /\ Tail(Received \o Held) = Held /\ (Received \o Held)' = Held
  BY <1>3, <1>4, FirstAndRest, ConcatEmptySeq
<1> QED
  BY <1>2, <1>5 DEF Channel!Deliver

\* The keyboard and the person make reports and take them away.
LEMMA ReportsComeAndGo ==
  ASSUME TypeOK, ChanInv, MakeReport \/ Attach
  PROVE  \/ Channel!Type \/ Channel!Unplug
         \/ UNCHANGED <<made, Received \o Held, taken>>
<1>0. /\ UNCHANGED <<taken, Received, Expected>> /\ Received \in Seq(Nat) /\ Len(Received) <= 1
  BY DEF MakeReport, Attach, program, controller, Received, InController, Expected, TypeOK,
     ChipTypeOK
<1>1. CASE MakeReport
  <2>1. Held = <<>> /\ Held' = <<made + 1>> /\ made' = made + 1 /\ made + 1 \in Nat
    <3>1. devToggle[1] = Expected /\ packets[1] = <<>>
      BY <1>1 DEF MakeReport, ChanInv, Agree
    <3>2. packets'[1] = <<made + 1>> /\ UNCHANGED <<devToggle, Expected>>
      BY <1>0, <1>1 DEF MakeReport, TypeOK, KeyboardTypeOK
    <3> QED
      BY <1>1, <3>1, <3>2 DEF Held, MakeReport, TypeOK, KeyboardTypeOK
  <2>2. Received \o Held = Received /\ (Received \o Held)' = Append(Received, made + 1)
    BY <1>0, <2>1, ConcatEmptySeq, AppendIsConcat
  <2> QED
    BY <1>0, <2>1, <2>2 DEF Channel!Type
<1>2. CASE Attach
  <2>1. Held' = <<>> /\ made' = made
    BY <1>2 DEF Attach, Held
  <2>2. (Received \o Held)' = Received
    BY <1>0, <2>1, ConcatEmptySeq
  <2>3. CASE Held = <<>>
    BY <1>0, <2>1, <2>2, <2>3, ConcatEmptySeq
  <2>4. CASE Held # <<>>
    <3>1. Held \in Seq(Nat) /\ Len(Held) <= 1
      BY <2>4 DEF Held, TypeOK, KeyboardTypeOK, ChanInv, OneReport
    <3>2. Held = <<Head(Held)>> /\ Head(Held) \in Nat
      BY <2>4, <3>1, Singles, HeadTailProperties
    <3>3. PICK n \in Nat : Held = <<n>>
      BY <3>2
    <3>4. /\ Received \o Held # <<>>
          /\ SubSeq(Received \o Held, 1, Len(Received \o Held) - 1) = Received
      BY <1>0, <3>3, WithoutLast
    <3> QED
      BY <1>0, <2>1, <2>2, <3>4 DEF Channel!Unplug
  <2> QED
    BY <2>3, <2>4
<1> QED
  BY <1>1, <1>2

\* No other step is seen.
LEMMA OthersStutter ==
  ASSUME TypeOK, ReadInv, ChanInv,
         \/ Again \/ GiveUp \/ NoDataStage \/ XferCtrlData \/ StatusStageEnds
         \/ (ReadPacket /\ call # "poll") \/ Main \/ UNCHANGED vars
  PROVE  UNCHANGED <<made, Received \o Held, taken>>
<1> SUFFICES UNCHANGED <<made, Received, Held, taken>>
  OBVIOUS
<1>1. CASE Again
  BY <1>1 DEF Again, Relaunch, Received, Held, Expected, InController, controller, keyboard
<1>2. CASE GiveUp
  BY <1>2 DEF GiveUp, Failed, Exhausted, Returns, Received, Held, Expected, InController,
     controller, keyboard, ChanInv, PollToggle
<1>3. CASE NoDataStage
  BY <1>3 DEF NoDataStage, Succeeded, XferDispatchPkt, Received, Held, Expected, InController,
     controller, keyboard
<1>4. CASE XferCtrlData
  <2>1. rcvToggle'[1] = rcvToggle[1]
    BY <1>4 DEF XferCtrlData, TypeOK, ProgramTypeOK
  <2> QED
    BY <1>4, <2>1 DEF XferCtrlData, Succeeded, XferDispatchPkt, Received, Held, Expected,
       InController, keyboard
<1>5. CASE StatusStageEnds
  <2>1. call # "poll"
    BY <1>5 DEF StatusStageEnds, Succeeded, ReadInv, Stages, TypeOK, ProgramTypeOK
  <2> QED
    BY <1>5, <2>1 DEF StatusStageEnds, Succeeded, Returns, Received, Held, Expected, InController,
       controller, keyboard
<1>6. CASE ReadPacket /\ call # "poll"
  <2>1. call = "read"
    BY <1>6 DEF ReadPacket, Succeeded, ReadInv, Stages, TypeOK, ProgramTypeOK
  <2>2. rcvToggle'[1] = rcvToggle[1] /\ UNCHANGED <<made, taken, devToggle, packets, call>>
    BY <1>6, <2>1 DEF ReadPacket, TakePacket, LastPacket, NextPacket, SavedToggle, ep, keyboard,
       TypeOK, ProgramTypeOK
  <2> QED
    BY <1>6, <2>2 DEF Received, Held, Expected, InController
<1>7. CASE kbdPoll
  BY <1>7 DEF kbdPoll, Begin, XferDispatchPkt, Received, Held, Expected, InController, keyboard
<1>8. CASE XferGet
  BY <1>8 DEF XferGet, Begin, XferDispatchPkt, Received, Held, Expected, InController,
     controller, keyboard
<1>9. CASE Configure
  <2>1. packets[1] = <<>> /\ packets' = packets /\ taken' = taken /\ made' = made
    BY <1>9 DEF Configure, ChanInv, OneReport, keyboard
  <2> QED
    BY <1>9, <2>1 DEF Configure, Begin, XferDispatchPkt, Received, Held, InController
<1>10. CASE Notice \/ Address \/ UNCHANGED vars
  BY <1>10 DEF Notice, Address, vars, program, controller, keyboard, Received, Held, Expected,
     InController
<1> QED
  BY <1>1, <1>2, <1>3, <1>4, <1>5, <1>6, <1>7, <1>8, <1>9, <1>10 DEF Main

(***************************************************************************)
(* Polling implements the abstract channel: whatever fails on the bus and  *)
(* whenever the keyboard is pulled out, main gets every report once and in *)
(* order, unless it goes with the keyboard.                                *)
(***************************************************************************)
THEOREM PollingIsAChannel == Spec => IsAChannel
<1>1. Init => Channel!ChannelInit
  BY ConcatEmptySeq DEF Init, Channel!ChannelInit, Received, Held, InController
<1>2. TypeOK /\ ReadInv /\ ChanInv /\ [Next]_vars
        => [Channel!Type \/ Channel!Deliver \/ Channel!Unplug]_<<made, Received \o Held, taken>>
  <2> SUFFICES ASSUME TypeOK, ReadInv, ChanInv, [Next]_vars
               PROVE  [Channel!Type \/ Channel!Deliver \/ Channel!Unplug]_<<made, Received \o Held, taken>>
    OBVIOUS
  <2>1. CASE Launch
    <3>1. UNCHANGED (Received \o Held)
      BY <2>1, ChannelLaunch DEF ReadInv
    <3> QED
      BY <2>1, <3>1 DEF Launch
  <2>2. CASE ReadPacket /\ call = "poll"
    BY <2>2, PollDelivers
  <2>3. CASE MakeReport \/ Attach
    BY <2>3, ReportsComeAndGo
  <2>4. CASE \/ Again \/ GiveUp \/ NoDataStage \/ XferCtrlData \/ StatusStageEnds
             \/ (ReadPacket /\ call # "poll") \/ Main \/ UNCHANGED vars
    BY <2>4, OthersStutter
  <2> QED
    BY <2>1, <2>2, <2>3, <2>4 DEF Next, Transferring
<1> QED
  BY <1>1, <1>2, TypeCorrect, ReadInvariant, ChannelInvariant, PTL
     DEF Spec, IsAChannel, Channel!ChannelSpec
-----------------------------------------------------------------------------
(***************************************************************************)
(* What a transfer can still do: the stages and packets to come, the tries *)
(* of this packet, and whether it has yet to be sent.                      *)
(***************************************************************************)
StagesLeft == CASE token = "SETUP" -> want + 2
                [] token = "IN" -> want + 1 - Len(data)
                [] OTHER -> 1
TriesLeft == (USB_NAK_LIMIT - nak_count) + (USB_RETRY_LIMIT - retry_count)

\* A packet is asked for only while some are wanted.
Room ==
  pc # "main" => /\ token = "SETUP" => data = <<>>
                 /\ token = "IN" => Len(data) < want

\* The transfer returns, or there is less of it left, in this order.
Nearer ==
  \/ pc' = "main"
  \/ StagesLeft' < StagesLeft
  \/ StagesLeft' = StagesLeft /\ TriesLeft' < TriesLeft
  \/ StagesLeft' = StagesLeft /\ TriesLeft' = TriesLeft /\ pc = "launch" /\ pc' = "result"

LEMMA RoomInvariant == Spec => []Room
<1>1. Init => Room
  BY DEF Init, Room
<1>2. TypeOK /\ Room /\ [Next]_vars => Room'
  <2> SUFFICES ASSUME TypeOK, Room, [Next]_vars PROVE Room'
    OBVIOUS
  <2> USE DEF Room
  <2>1. CASE Launch \/ Again
    BY <2>1 DEF Launch, Again, Relaunch
  <2>2. CASE GiveUp \/ StatusStageEnds
    BY <2>2 DEF GiveUp, StatusStageEnds, Returns
  <2>3. CASE NoDataStage
    BY <2>3 DEF NoDataStage, XferDispatchPkt
  <2>4. CASE XferCtrlData
    <3>1. data' = <<>> /\ want' \in Nat \ {0} /\ token' = "IN"
      BY <2>4 DEF XferCtrlData, Succeeded, XferDispatchPkt, TypeOK, ProgramTypeOK
    <3> QED
      BY <3>1
  <2>5. CASE ReadPacket
    <3>1. CASE RCVDAV /\ ~ Complete
      <4>1. /\ data \in Seq(Nat) /\ fifo \in Nat /\ want \in Nat
            /\ data' = Append(data, fifo) /\ want' = want /\ token' = "IN"
            /\ ~ (Len(data) + 1 >= want)
        BY <2>5, <3>1 DEF ReadPacket, TakePacket, NextPacket, XferDispatchPkt, Complete, TypeOK,
           ProgramTypeOK, ChipTypeOK
      <4> QED
        BY <4>1
    <3>2. CASE ~ (RCVDAV /\ ~ Complete)
      BY <2>5, <3>2 DEF ReadPacket, TakePacket, LastPacket, Returns, XferDispatchPkt
    <3> QED
      BY <3>1, <3>2
  <2>6. CASE kbdPoll \/ XferGet \/ Configure
    <3>1. data' = <<>> /\ (token' = "IN" => want' = 1)
      BY <2>6 DEF kbdPoll, XferGet, Configure, Begin, XferDispatchPkt
    <3> QED
      BY <3>1
  <2>7. CASE Notice \/ Address \/ MakeReport \/ Attach \/ UNCHANGED vars
    BY <2>7 DEF Notice, Address, MakeReport, Attach, vars, program
  <2> QED
    BY <2>1, <2>2, <2>3, <2>4, <2>5, <2>6, <2>7 DEF Next, Transferring, Main
<1> QED
  BY <1>1, <1>2, TypeCorrect, PTL DEF Spec

\* None of the numbers falls below zero: a transfer cannot go on for ever.
LEMMA LeftIsNatural ==
  ASSUME TypeOK, Room, pc # "main"
  PROVE  StagesLeft \in Nat /\ TriesLeft \in Nat
<1>1. want \in Nat /\ Len(data) \in Nat
  BY DEF TypeOK, ProgramTypeOK
<1>2. StagesLeft \in Nat
  BY <1>1 DEF StagesLeft, Room
<1>3. TriesLeft \in Nat
  BY TransferAssumption DEF TriesLeft, TypeOK, ProgramTypeOK
<1> QED
  BY <1>2, <1>3

LEMMA StepIsNearer == ASSUME TypeOK, Room, Transferring PROVE Nearer
<1>0. /\ want \in Nat \ {0} /\ Len(data) \in Nat /\ nak_count \in Nat /\ retry_count \in Nat
      /\ USB_NAK_LIMIT \in Nat /\ USB_RETRY_LIMIT \in Nat
  BY TransferAssumption DEF TypeOK, ProgramTypeOK
<1>1. CASE Launch
  <2>1. UNCHANGED <<StagesLeft, TriesLeft>>
    BY <1>1 DEF Launch, StagesLeft, TriesLeft
  <2> QED
    BY <1>1, <2>1 DEF Launch, Nearer
<1>2. CASE Again
  <2>1. UNCHANGED StagesLeft
    BY <1>2 DEF Again, StagesLeft
  <2>2. TriesLeft' < TriesLeft
    BY <1>0, <1>2 DEF Again, Relaunch, TriesLeft
  <2> QED
    BY <2>1, <2>2 DEF Nearer
<1>3. CASE GiveUp \/ StatusStageEnds
  BY <1>3 DEF GiveUp, StatusStageEnds, Returns, Nearer
<1>4. CASE NoDataStage
  BY <1>0, <1>4 DEF NoDataStage, Succeeded, XferDispatchPkt, StagesLeft, Nearer
<1>5. CASE XferCtrlData
  BY <1>0, <1>5 DEF XferCtrlData, Succeeded, XferDispatchPkt, StagesLeft, Nearer
<1>6. CASE ReadPacket
  <2>1. CASE ~ RCVDAV
    BY <1>6, <2>1 DEF ReadPacket, Returns, Nearer
  <2>2. CASE RCVDAV
    <3>1. token = "IN" /\ Len(data) < want /\ want' = want
      BY <1>6 DEF ReadPacket, Succeeded, Room
    <3>2. Len(data') = Len(data) + 1
      BY <1>6, <2>2 DEF ReadPacket, TakePacket, TypeOK, ProgramTypeOK, ChipTypeOK
    <3>3. pc' = "main" \/ token' \in {"IN", "OUTHS"}
      BY <1>6, <2>2 DEF ReadPacket, TakePacket, LastPacket, NextPacket, Returns, XferDispatchPkt
    <3>4. token' \in {"IN", "OUTHS"} => StagesLeft' < StagesLeft
      BY <1>0, <3>1, <3>2 DEF StagesLeft
    <3> QED
      BY <3>3, <3>4 DEF Nearer
  <2> QED
    BY <2>1, <2>2
<1> QED
  BY <1>1, <1>2, <1>3, <1>4, <1>5, <1>6 DEF Transferring

(***************************************************************************)
(* Why TransfersEnd: whatever the bus and the device do, every step of     *)
(* XferDispatchPkt and of the transfers above it returns or leaves fewer   *)
(* packets to ask for, fewer tries of this one, or a result to look at,    *)
(* and none of the three numbers can fall for ever.                        *)
(***************************************************************************)
THEOREM TransfersRunDown ==
  Spec => /\ [][Transferring => Nearer]_vars
          /\ [](pc # "main" => StagesLeft \in Nat /\ TriesLeft \in Nat)
<1>1. TypeOK /\ Room /\ [Next]_vars => [Transferring => Nearer]_vars
  BY StepIsNearer
<1>2. TypeOK /\ Room => (pc # "main" => StagesLeft \in Nat /\ TriesLeft \in Nat)
  BY LeftIsNatural
<1> QED
  BY <1>1, <1>2, TypeCorrect, RoomInvariant, PTL DEF Spec
=============================================================================
