----------------------------- MODULE UsbProofs -----------------------------
(***************************************************************************)
(* Proofs about the USB host: what it polls is there, and what it takes    *)
(* for keys are keys, for any set of devices, any number of addresses and  *)
(* any number of plug events.                                              *)
(***************************************************************************)
EXTENDS UsbHost, TLAPS

\* What MAX_busprobe may leave.
Probed ==
  { USB_DETACHED_SUBSTATE_INITIALIZE, USB_DETACHED_SUBSTATE_WAIT_FOR_DEVICE,
    USB_DETACHED_SUBSTATE_ILLEGAL, USB_STATE_ATTACHED,
    USB_ATTACHED_SUBSTATE_WAIT_RESET_COMPLETE }

\* What the increment in MaxIntHandler may make of that.
Handled == Probed \cup { s + 1 : s \in Probed }

\* The states in which the bus is taken to be reset.
Enumerating ==
  { USB_ATTACHED_SUBSTATE_WAIT_SOF,
    USB_ATTACHED_SUBSTATE_GET_DEVICE_DESCRIPTOR_SIZE, USB_STATE_ADDRESSING,
    USB_STATE_CONFIGURING, USB_STATE_RUNNING }

\* Between the probe and the end of the handler, and during the initialisation.
HandlerOrder ==
  /\ pc \notin {"probe", "ack"} => seen = {}
  /\ pc \in {"ack", "init ack"} => usb_task_state \in Probed
  /\ pc \in {"reset", "init probe"} => usb_task_state # USB_STATE_RUNNING

\* A bus event seen while a reset is awaited is the end of that reset.
ResetIsOver ==
  /\ usb_task_state \in Enumerating => ~ BUSRST
  /\ usb_task_state = USB_ATTACHED_SUBSTATE_WAIT_RESET_COMPLETE
       /\ "BUSEVENT" \in HIRQ \cup seen => ~ BUSRST

\* Addresses are used from 1 on without a gap.
NoGap == \A a \in Used : \A b \in Addresses : b <= a => b \in Used

Newest(a) == a \in Used /\ \A b \in Used : b <= a

\* The newest entry is the device at hand.
TableIsFresh ==
  /\ usb_task_state = USB_STATE_CONFIGURING => Newest(tmp_addr)
  /\ Running =>
       /\ Newest(hid_addr)
       /\ Reachable(hid_addr) => devtable[hid_addr].devclass = Class[dev]

\* The flag outlives RUNNING only until main looks, and then it is cleared.
FlagIsFresh ==
  runningdebugflag =>
    \/ Running /\ device = devtable[hid_addr].devclass
    \/ pc \in {"ack", "USB_Task"} /\ usb_task_state \in Handled
    \/ pc = "main" /\ usb_task_state \in 1..21

UsbIInv ==
  /\ UsbTypeOK
  /\ RunningMeansConnected
  /\ HandlerOrder
  /\ ResetIsOver
  /\ NoGap
  /\ TableIsFresh
  /\ FlagIsFresh

\* The values of the states, which every proof may use.
USE DEF USB_STATE_DETACHED, USB_DETACHED_SUBSTATE_INITIALIZE,
  USB_DETACHED_SUBSTATE_WAIT_FOR_DEVICE, USB_DETACHED_SUBSTATE_ILLEGAL,
  USB_STATE_ATTACHED, USB_ATTACHED_SUBSTATE_SETTLE,
  USB_ATTACHED_SUBSTATE_RESET_DEVICE, USB_ATTACHED_SUBSTATE_WAIT_RESET_COMPLETE,
  USB_ATTACHED_SUBSTATE_WAIT_SOF, USB_ATTACHED_SUBSTATE_GET_DEVICE_DESCRIPTOR_SIZE,
  USB_STATE_ADDRESSING, USB_STATE_CONFIGURING, USB_STATE_RUNNING, USB_STATE_ERROR

\* The states that the switch takes for ADDRESSING and CONFIGURING.
LEMMA MaskedStates ==
  ASSUME usb_task_state \in States \cup Unnamed
  PROVE  /\ Masked = USB_STATE_ADDRESSING <=> usb_task_state = USB_STATE_ADDRESSING
         /\ Masked = USB_STATE_CONFIGURING <=> usb_task_state = USB_STATE_CONFIGURING
  BY DEF Masked, States, Unnamed

\* MAX_busprobe leaves one of five states, and a reset that is awaited alone.
LEMMA ProbedStates ==
  ASSUME Busprobe, lowspeed \in BOOLEAN
  PROVE  /\ usb_task_state' \in Probed
         /\ lowspeed' \in BOOLEAN
         /\ usb_task_state' = USB_ATTACHED_SUBSTATE_WAIT_RESET_COMPLETE =>
              usb_task_state = USB_ATTACHED_SUBSTATE_WAIT_RESET_COMPLETE
<1>1. usb_task_state' \in Probed
  BY DEF Busprobe, Probed
<1>2. usb_task_state' = USB_ATTACHED_SUBSTATE_WAIT_RESET_COMPLETE =>
        usb_task_state = USB_ATTACHED_SUBSTATE_WAIT_RESET_COMPLETE
  BY DEF Busprobe
<1>3. \/ lowspeed' = lowspeed \/ lowspeed' = FALSE \/ lowspeed' = ~ lowspeed
  BY Zenon DEF Busprobe
<1>4. lowspeed' \in BOOLEAN
  BY <1>3
<1> QED
  BY <1>1, <1>2, <1>4

\* The initial types.
LEMMA TypeInit == UsbInit => UsbTypeOK
<1> SUFFICES ASSUME UsbInit PROVE UsbTypeOK
  OBVIOUS
<1> USE UsbAssumption DEF UsbInit
<1>1. BusTypeOK
  BY DEF BusTypeOK
<1>2. ChipTypeOK
  BY DEF ChipTypeOK
<1>3. LoopTypeOK
  BY DEF LoopTypeOK
<1>4. TaskTypeOK
  BY DEF TaskTypeOK, EmptyTable, NoEntry, Entries, Classes, States, Unnamed, Addresses
<1>5. MainTypeOK
  BY DEF MainTypeOK, Classes
<1> QED
  BY <1>1, <1>2, <1>3, <1>4, <1>5 DEF UsbTypeOK

\* Only these touch the bus.
LEMMA BusFrame ==
  ASSUME UsbNext, \A d \in Devices \cup {"illegal"} : ~ PlugIn(d), ~ PlugOut,
         ~ ResetDone, ~ Addressing
  PROVE  UNCHANGED bus
  BY DEF UsbNext, Processor, Controller, Person, USB_Task, bus, chip, task,
     main, Loop, Becomes, Goto, Sof, DelayEnds, MAX3421E_Task, HandlerProbes,
     HandlerAcks, Initialize, Attached, Settle, ResetDevice,
     WaitResetComplete, WaitSof, GetDeviceDescriptorSize, Configuring, Idle,
     Report, Poll, InError, NotRunning, Restart, InitResets, InitProbes,
     InitAcks

\* Only these touch the interrupts and the bus reset.
LEMMA HirqFrame ==
  ASSUME UsbNext, \A d \in Devices \cup {"illegal"} : ~ PlugIn(d), ~ PlugOut,
         ~ ResetDone, ~ Sof, ~ HandlerAcks, ~ ResetDevice, ~ InitResets,
         ~ InitAcks
  PROVE  UNCHANGED <<HIRQ, BUSRST>>
  BY DEF UsbNext, Processor, Controller, Person, USB_Task, bus, chip, task,
     main, Loop, Becomes, Goto, DelayEnds, MAX3421E_Task, HandlerProbes,
     Initialize, Attached, Settle, WaitResetComplete, WaitSof,
     GetDeviceDescriptorSize, Addressing, Configuring, Idle, Report, Poll,
     InError, NotRunning, Restart, InitProbes

\* Only these touch the speed and the delay.
LEMMA ModeFrame ==
  ASSUME UsbNext, ~ DelayEnds, ~ HandlerProbes, ~ Attached, ~ InitResets,
         ~ InitProbes
  PROVE  UNCHANGED <<lowspeed, delay_over>>
  BY DEF UsbNext, Processor, Controller, Person, USB_Task, bus, chip, task,
     main, Loop, Becomes, Goto, PlugIn, ResetDone, Sof, PlugOut,
     MAX3421E_Task, HandlerAcks, Initialize, Settle, ResetDevice,
     WaitResetComplete, WaitSof, GetDeviceDescriptorSize, Addressing,
     Configuring, Idle, Report, Poll, InError, NotRunning, Restart, InitAcks

\* Only these touch the state.
LEMMA StateFrame ==
  ASSUME UsbNext, ~ HandlerProbes, ~ HandlerAcks, ~ Initialize, ~ Attached,
         ~ Settle, ~ ResetDevice, ~ WaitResetComplete, ~ WaitSof,
         ~ GetDeviceDescriptorSize, ~ Addressing, ~ Configuring, ~ InitProbes
  PROVE  UNCHANGED usb_task_state
  BY DEF UsbNext, Processor, Controller, Person, USB_Task, bus, chip, task,
     main, Loop, Becomes, Goto, PlugIn, ResetDone, Sof, DelayEnds, PlugOut,
     MAX3421E_Task, Idle, Report, Poll, InError, NotRunning, Restart,
     InitResets, InitAcks

\* Only these touch the table and the addresses.
LEMMA TableFrame ==
  ASSUME UsbNext, ~ Initialize, ~ Addressing, ~ Configuring, ~ InitAcks
  PROVE  UNCHANGED <<devtable, tmp_addr, hid_addr>>
  BY DEF UsbNext, Processor, Controller, Person, USB_Task, bus, chip, task,
     main, Loop, Becomes, Goto, PlugIn, ResetDone, Sof, DelayEnds, PlugOut,
     MAX3421E_Task, HandlerProbes, HandlerAcks, Attached, Settle, ResetDevice,
     WaitResetComplete, WaitSof, GetDeviceDescriptorSize, Idle, Report, Poll,
     InError, NotRunning, Restart, InitResets, InitProbes

\* Only these touch the variables of main.
LEMMA MainFrame ==
  ASSUME UsbNext, ~ Report, ~ Poll, ~ Restart
  PROVE  UNCHANGED main
  BY DEF UsbNext, Processor, Controller, Person, USB_Task, bus, chip, task,
     main, Loop, Becomes, Goto, PlugIn, ResetDone, Sof, DelayEnds, PlugOut,
     MAX3421E_Task, HandlerProbes, HandlerAcks, Initialize, Attached, Settle,
     ResetDevice, WaitResetComplete, WaitSof, GetDeviceDescriptorSize,
     Addressing, Configuring, Idle, InError, NotRunning, InitResets,
     InitProbes, InitAcks

\* The types of the bus.
LEMMA BusTypeStep == ASSUME UsbTypeOK, UsbNext PROVE BusTypeOK'
<1> USE UsbAssumption DEF UsbTypeOK, BusTypeOK
<1>1. CASE PlugOut \/ \E d \in Devices \cup {"illegal"} : PlugIn(d)
  BY <1>1 DEF PlugOut, PlugIn
<1>2. CASE ResetDone
  BY <1>2 DEF ResetDone, bus
<1>3. CASE Addressing
  BY <1>3 DEF Addressing, Addresses
<1>4. CASE UNCHANGED bus
  BY <1>4 DEF bus
<1> QED
  BY <1>1, <1>2, <1>3, <1>4, BusFrame

\* The types of the controller.
LEMMA ChipTypeStep == ASSUME UsbTypeOK, UsbNext PROVE ChipTypeOK'
<1> USE DEF UsbTypeOK, ChipTypeOK, Irqs, LoopTypeOK
<1>1. CASE PlugOut \/ Sof \/ \E d \in Devices \cup {"illegal"} : PlugIn(d)
  BY <1>1 DEF PlugOut, Sof, PlugIn
<1>2. CASE ResetDone
  BY <1>2 DEF ResetDone
<1>3. CASE HandlerAcks \/ InitAcks
  BY <1>3 DEF HandlerAcks, InitAcks
<1>4. CASE ResetDevice
  BY <1>4 DEF ResetDevice
<1>5. CASE InitResets
  BY <1>5 DEF InitResets
<1>6. CASE HandlerProbes \/ InitProbes
  BY <1>6, ProbedStates DEF HandlerProbes, InitProbes
<1>7. CASE Attached \/ DelayEnds
  BY <1>7 DEF Attached, DelayEnds
<1>8. ASSUME UNCHANGED <<HIRQ, BUSRST, lowspeed, delay_over>> PROVE ChipTypeOK'
  BY <1>8
<1> QED
  BY <1>1, <1>2, <1>3, <1>4, <1>5, <1>6, <1>7, <1>8, HirqFrame, ModeFrame

\* The types of the task.
LEMMA TaskTypeStep == ASSUME UsbTypeOK, HandlerOrder, UsbNext PROVE TaskTypeOK'
<1> USE UsbAssumption DEF UsbTypeOK, TaskTypeOK, Classes, Addresses,
        Entries
<1>1. CASE HandlerProbes \/ InitProbes
  BY <1>1, ProbedStates DEF ChipTypeOK, HandlerProbes, InitProbes, Probed, States
<1>2. CASE HandlerAcks
  BY <1>2 DEF HandlerAcks, Probed, States, Unnamed, HandlerOrder
<1>3. CASE Initialize
  BY <1>3 DEF Initialize, Becomes, States, EmptyTable, NoEntry
<1>4. CASE InitAcks
  BY <1>4 DEF InitAcks, EmptyTable, NoEntry
<1>5. CASE Attached \/ Settle \/ ResetDevice \/ WaitResetComplete \/ WaitSof
           \/ GetDeviceDescriptorSize
  BY <1>5 DEF Attached, Settle, ResetDevice, WaitResetComplete, WaitSof,
     GetDeviceDescriptorSize, Becomes, States
<1>6. CASE Addressing
  <2>1. PICK free \in SUBSET Addresses :
          \/ UNCHANGED <<devtable, tmp_addr>>
          \/ \E i \in free : /\ devtable' = [devtable EXCEPT ![i].epinfo = "dev0ep"]
                             /\ tmp_addr' \in {i, tmp_addr}
    <3>1. Addresses \ Used \in SUBSET Addresses
      OBVIOUS
    <3> QED
      BY <1>6, <3>1 DEF Addressing
  <2>2. usb_task_state' \in States /\ UNCHANGED hid_addr
    BY <1>6 DEF Addressing, Becomes, States, task
  <2>3. CASE UNCHANGED <<devtable, tmp_addr>>
    BY <2>2, <2>3
  <2>4. ASSUME NEW i \in free,
               devtable' = [devtable EXCEPT ![i].epinfo = "dev0ep"],
               tmp_addr' \in {i, tmp_addr}
        PROVE  TaskTypeOK'
    <3>1. devtable[i] \in Entries
      BY <2>1, <2>4
    <3>2. [devtable[i] EXCEPT !.epinfo = "dev0ep"] \in Entries
      BY <3>1
    <3>3. devtable' \in [1..(USB_NUMDEVICES - 1) -> Entries]
      BY <2>1, <2>4, <3>2
    <3> QED
      BY <2>1, <2>2, <2>4, <3>3
  <2> QED
    BY <2>1, <2>3, <2>4
<1>7. CASE Configuring
  <2>1. usb_task_state' \in States /\ UNCHANGED tmp_addr
    BY <1>7 DEF Configuring, Becomes, States
  <2>2. CASE UNCHANGED <<devtable, hid_addr>>
    BY <2>1, <2>2
  <2>3. CASE /\ dev \in Devices /\ Class[dev] # "other"
             /\ devtable' = [devtable EXCEPT ![tmp_addr] =
                               [epinfo |-> "hid_ep", devclass |-> Class[dev]]]
             /\ hid_addr' = tmp_addr
    <3>1. Class[dev] \in {"HID_K", "HID_M"}
      BY <2>3
    <3>2. [epinfo |-> "hid_ep", devclass |-> Class[dev]] \in Entries
      BY <3>1
    <3> QED
      BY <2>1, <2>3, <3>2
  <2> QED
    BY <1>7, <2>2, <2>3 DEF Configuring, HIDProbe, Reachable
<1>8. CASE UNCHANGED <<usb_task_state, devtable, tmp_addr, hid_addr>>
  BY <1>8
<1> QED
  BY <1>1, <1>2, <1>3, <1>4, <1>5, <1>6, <1>7, <1>8, StateFrame, TableFrame

\* The types of main.
LEMMA MainTypeStep == ASSUME UsbTypeOK, UsbNext PROVE MainTypeOK'
<1> USE DEF UsbTypeOK, MainTypeOK, TaskTypeOK
<1>1. CASE Report
  BY <1>1 DEF Report, Used, Loop, Entries
<1>2. CASE Poll
  BY <1>2 DEF Poll, Loop
<1>3. CASE Restart
  BY <1>3 DEF Restart
<1>4. CASE UNCHANGED main
  BY <1>4 DEF main
<1> QED
  BY <1>1, <1>2, <1>3, <1>4, MainFrame

\* The types of the loop.
LEMMA LoopTypeStep == ASSUME UsbTypeOK, UsbNext PROVE LoopTypeOK'
<1> USE DEF UsbTypeOK, LoopTypeOK, ChipTypeOK, Loop, Becomes, Goto, chip
<1>1. CASE MAX3421E_Task
  BY <1>1 DEF MAX3421E_Task
<1>2. CASE HandlerProbes \/ HandlerAcks \/ InitResets \/ InitProbes \/ InitAcks
  BY <1>2 DEF HandlerProbes, HandlerAcks, InitResets, InitProbes, InitAcks
<1>3. CASE Initialize \/ Attached \/ Settle \/ ResetDevice \/ WaitResetComplete
  BY <1>3 DEF Initialize, Attached, Settle, ResetDevice, WaitResetComplete
<1>4. CASE WaitSof \/ GetDeviceDescriptorSize \/ Addressing \/ Configuring
           \/ Idle
  BY <1>4 DEF WaitSof, GetDeviceDescriptorSize, Addressing, Configuring,
     Idle
<1>5. CASE Report \/ Poll \/ InError \/ NotRunning \/ Restart
  BY <1>5 DEF Report, Poll, InError, NotRunning, Restart
<1>6. CASE PlugOut \/ ResetDone \/ Sof \/ DelayEnds
           \/ \E d \in Devices \cup {"illegal"} : PlugIn(d)
  BY <1>6 DEF PlugOut, ResetDone, Sof, DelayEnds, PlugIn
<1> QED
  BY <1>1, <1>2, <1>3, <1>4, <1>5, <1>6 DEF UsbNext, Processor, Controller,
    Person, USB_Task

\* What happens outside the program.
Outside ==
  \/ PlugOut \/ ResetDone \/ Sof \/ DelayEnds
  \/ \E d \in Devices \cup {"illegal"} : PlugIn(d)

\* The person and the controller leave the program alone.
LEMMA OutsideStep == Outside => UNCHANGED <<pc, seen, task, main>>
  BY DEF Outside, PlugIn, PlugOut, ResetDone, Sof, DelayEnds

\* USB_Task returns to main.
LEMMA UsbTaskStep ==
  ASSUME USB_Task
  PROVE  pc = "USB_Task" /\ pc' = "main" /\ UNCHANGED <<seen, main>>
<1>1. CASE Initialize \/ Attached \/ Settle \/ ResetDevice \/ WaitResetComplete
  BY <1>1 DEF Initialize, Attached, Settle, ResetDevice, WaitResetComplete,
     InState, Becomes, Goto
<1>2. CASE WaitSof \/ GetDeviceDescriptorSize \/ Idle
  BY <1>2 DEF WaitSof, GetDeviceDescriptorSize, Idle, InState, Becomes, Goto
<1>3. CASE Addressing
  BY <1>3 DEF Addressing, Becomes, Goto
<1>4. CASE Configuring
  BY <1>4 DEF Configuring, Becomes, Goto
<1> QED
  BY <1>1, <1>2, <1>3, <1>4 DEF USB_Task

\* The steps of main that leave the rest alone.
AtMain == Report \/ Poll \/ InError \/ NotRunning

\* They go back to the top of the loop.
LEMMA MainStep ==
  AtMain =>
    pc = "main" /\ pc' = "MAX3421E_Task" /\ UNCHANGED <<bus, chip, seen, task>>
  BY DEF AtMain, Report, Poll, InError, NotRunning, Loop, Goto

\* The steps of the handler and of the initialisation, and all the steps.
LEMMA AllSteps ==
  ASSUME UsbNext
  PROVE  \/ Outside \/ USB_Task \/ AtMain \/ Restart
         \/ MAX3421E_Task \/ HandlerProbes \/ HandlerAcks
         \/ InitResets \/ InitProbes \/ InitAcks
  BY DEF UsbNext, Processor, Controller, Person, Outside, AtMain

\* What is seen is handled at once, and a probe leaves RUNNING.
LEMMA HandlerOrderStep ==
  ASSUME UsbTypeOK, HandlerOrder, UsbNext PROVE HandlerOrder'
<1> USE DEF HandlerOrder, Goto
<1>1. CASE Outside
  BY <1>1, OutsideStep DEF task
<1>2. CASE USB_Task
  BY <1>2, UsbTaskStep
<1>3. CASE AtMain
  BY <1>3, MainStep
<1>4. CASE Restart
  BY <1>4 DEF Restart, task
<1>5. CASE MAX3421E_Task
  BY <1>5 DEF MAX3421E_Task
<1>9. CASE HandlerAcks
  BY <1>9 DEF HandlerAcks
<1>6. CASE HandlerProbes \/ InitProbes
  BY <1>6, ProbedStates DEF HandlerProbes, InitProbes, UsbTypeOK, ChipTypeOK
<1>7. CASE InitResets
  BY <1>7 DEF InitResets, task
<1>8. CASE InitAcks
  BY <1>8 DEF InitAcks
<1> QED
  BY <1>1, <1>2, <1>3, <1>4, <1>5, <1>6, <1>7, <1>8, <1>9, AllSteps

\* A reset is over before the device is spoken to.
LEMMA ResetIsOverStep ==
  ASSUME UsbTypeOK, HandlerOrder, ResetIsOver, UsbNext PROVE ResetIsOver'
<1> USE DEF ResetIsOver, Enumerating
<1>1. CASE BUSRST' = FALSE
  BY <1>1
<1>2. ASSUME UNCHANGED <<usb_task_state, BUSRST>>,
             HIRQ' \cup seen' \subseteq HIRQ \cup seen \cup {"FRAME", "CONDET"}
      PROVE  ResetIsOver'
  BY <1>2
<1>3. CASE Sof \/ DelayEnds \/ PlugOut \/ \E d \in Devices \cup {"illegal"} : PlugIn(d)
  <2>1. UNCHANGED <<usb_task_state, BUSRST, seen>>
    BY <1>3 DEF Sof, DelayEnds, PlugOut, PlugIn, task
  <2>2. HIRQ' \subseteq HIRQ \cup {"FRAME", "CONDET"}
    BY <1>3 DEF Sof, DelayEnds, PlugOut, PlugIn
  <2> QED
    BY <2>1, <2>2, <1>2
<1>4. CASE ResetDone \/ InitResets
  BY <1>4, <1>1 DEF ResetDone, InitResets
<1>5. CASE AtMain \/ Restart \/ MAX3421E_Task \/ InitAcks
  <2>1. UNCHANGED <<usb_task_state, BUSRST>>
    BY <1>5, MainStep DEF Restart, MAX3421E_Task, InitAcks, task, chip
  <2>2. HIRQ' \subseteq HIRQ /\ seen' \subseteq HIRQ \cup seen
    BY <1>5, MainStep DEF Restart, MAX3421E_Task, InitAcks, chip
  <2> QED
    BY <2>1, <2>2, <1>2
<1>6. CASE HandlerProbes \/ InitProbes
  <2>1. /\ usb_task_state' \in Probed
        /\ usb_task_state' = USB_ATTACHED_SUBSTATE_WAIT_RESET_COMPLETE =>
             usb_task_state = USB_ATTACHED_SUBSTATE_WAIT_RESET_COMPLETE
    BY <1>6, ProbedStates DEF HandlerProbes, InitProbes, UsbTypeOK, ChipTypeOK
  <2>2. UNCHANGED <<HIRQ, BUSRST, seen>>
    BY <1>6 DEF HandlerProbes, InitProbes
  <2> QED
    BY <2>1, <2>2 DEF Probed
<1>7. CASE HandlerAcks
  <2>1. usb_task_state \in Probed
    BY <1>7 DEF HandlerAcks, HandlerOrder
  <2>2. UNCHANGED BUSRST /\ HIRQ' \subseteq HIRQ /\ seen' = {}
    BY <1>7 DEF HandlerAcks
  <2>3. CASE "BUSEVENT" \in seen
    BY <1>7, <2>1, <2>2, <2>3 DEF HandlerAcks, Probed
  <2>4. CASE "BUSEVENT" \notin seen
    <3>1. UNCHANGED usb_task_state
      BY <1>7, <2>4 DEF HandlerAcks
    <3> QED
      BY <3>1, <2>2
  <2> QED
    BY <2>3, <2>4
<1>8. CASE ResetDevice
  <2>1. "BUSEVENT" \notin HIRQ' \cup seen'
    BY <1>8 DEF ResetDevice, InState, HandlerOrder
  <2>2. usb_task_state' = USB_ATTACHED_SUBSTATE_WAIT_RESET_COMPLETE
    BY <1>8 DEF ResetDevice, Becomes
  <2> QED
    BY <2>1, <2>2
<1>9. CASE WaitResetComplete
  BY <1>9 DEF WaitResetComplete, chip, Becomes
<1>10. CASE Initialize \/ Attached \/ Settle
  BY <1>10 DEF Initialize, Attached, Settle, Becomes
<1>11. CASE WaitSof \/ GetDeviceDescriptorSize
  BY <1>11 DEF WaitSof, GetDeviceDescriptorSize, chip, InState, Becomes
<1>12. CASE Idle
  BY <1>12 DEF Idle, task, chip
<1>13. CASE Addressing \/ Configuring
  <2>1. usb_task_state \in Enumerating /\ UNCHANGED BUSRST
    BY <1>13, MaskedStates DEF Addressing, Configuring, UsbTypeOK, TaskTypeOK, chip
  <2>2. usb_task_state' # USB_ATTACHED_SUBSTATE_WAIT_RESET_COMPLETE
    BY <1>13 DEF Addressing, Configuring, Becomes
  <2> QED
    BY <2>1, <2>2
<1> QED
  BY AllSteps, <1>3, <1>4, <1>5, <1>6, <1>7, <1>8, <1>9, <1>10, <1>11, <1>12, <1>13
  DEF Outside, USB_Task

\* A probe leaves neither of the last two states.
LEMMA ProbedOthers ==
  USB_STATE_RUNNING \notin Probed /\ USB_STATE_CONFIGURING \notin Probed
  BY DEF Probed

\* RUNNING is entered from CONFIGURING, and while it lasts nothing is touched.
LEMMA RunningStep ==
  ASSUME UsbTypeOK, HandlerOrder, UsbNext, Running'
  PROVE  \/ Configuring
         \/ Running /\ UNCHANGED <<lowspeed, devtable, tmp_addr, hid_addr>>
<1> USE DEF Running
<1>1. CASE Outside
  BY <1>1, OutsideStep DEF task, Outside, PlugIn, PlugOut, ResetDone, Sof, DelayEnds
<1>2. CASE AtMain \/ Restart \/ MAX3421E_Task
  BY <1>2, MainStep DEF Restart, MAX3421E_Task, task, chip
<1>3. CASE HandlerProbes \/ InitProbes
  BY <1>3, ProbedStates, ProbedOthers
  DEF HandlerProbes, InitProbes, UsbTypeOK, ChipTypeOK
<1>4. CASE HandlerAcks
  BY <1>4 DEF HandlerAcks, HandlerOrder, Probed
<1>5. CASE InitResets
  BY <1>5 DEF InitResets, HandlerOrder, task
<1>6. CASE InitAcks
  BY <1>6, ProbedOthers DEF InitAcks, HandlerOrder
<1>7. CASE Initialize \/ Attached \/ Settle \/ ResetDevice \/ WaitResetComplete
  BY <1>7 DEF Initialize, Attached, Settle, ResetDevice, WaitResetComplete, Becomes
<1>8. CASE WaitSof \/ GetDeviceDescriptorSize \/ Addressing
  BY <1>8 DEF WaitSof, GetDeviceDescriptorSize, Addressing, Becomes
<1>9. CASE Idle
  BY <1>9 DEF Idle, chip, task
<1> QED
  BY AllSteps, <1>1, <1>2, <1>3, <1>4, <1>5, <1>6, <1>7, <1>8, <1>9 DEF USB_Task

\* Of what happens in RUNNING, only a plug event reaches the device.
LEMMA RunningBus ==
  ASSUME UsbTypeOK, HandlerOrder, ResetIsOver, UsbNext, Running
  PROVE  \/ UNCHANGED <<dev, dev_addr>>
         \/ dev_addr' = 0 /\ "CONDET" \in HIRQ'
<1>1. CASE PlugOut \/ \E d \in Devices \cup {"illegal"} : PlugIn(d)
  BY <1>1 DEF PlugOut, PlugIn
<1>2. ~ ResetDone
  BY DEF ResetDone, ResetIsOver, Running, Enumerating
<1>3. ~ Addressing
  BY MaskedStates DEF Addressing, Running, UsbTypeOK, TaskTypeOK
<1> QED
  BY <1>1, <1>2, <1>3, BusFrame DEF bus

\* The interrupt of a plug event is acknowledged after the probe only.
LEMMA RunningIrq ==
  ASSUME HandlerOrder, UsbNext, Running, "CONDET" \in HIRQ
  PROVE  "CONDET" \in HIRQ'
<1>1. CASE PlugOut \/ Sof \/ ResetDone \/ \E d \in Devices \cup {"illegal"} : PlugIn(d)
  BY <1>1 DEF PlugOut, PlugIn, Sof, ResetDone
<1>2. pc \notin {"ack", "init ack", "reset"}
  BY ProbedOthers DEF HandlerOrder, Running
<1>4. ~ HandlerAcks /\ ~ InitResets /\ ~ InitAcks
  BY <1>2 DEF HandlerAcks, InitResets, InitAcks
<1>3. CASE ResetDevice
  BY <1>3 DEF ResetDevice
<1> QED
  BY <1>1, <1>3, <1>4, HirqFrame

\* While the host says RUNNING the device is there.
LEMMA ConnectedStep ==
  ASSUME UsbTypeOK, HandlerOrder, ResetIsOver, RunningMeansConnected, UsbNext
  PROVE  RunningMeansConnected'
<1> SUFFICES ASSUME Running' PROVE "CONDET" \in HIRQ' \/ Reachable(hid_addr)'
  BY DEF RunningMeansConnected
<1>1. CASE Configuring
  <2>1. Reachable(tmp_addr) /\ hid_addr' = tmp_addr
    BY <1>1 DEF Configuring, HIDProbe, Becomes, Running
  <2>2. UNCHANGED <<dev, dev_addr, lowspeed>>
    BY <1>1 DEF Configuring, bus, chip
  <2> QED
    BY <2>1, <2>2 DEF Reachable
<1>2. CASE Running /\ UNCHANGED <<lowspeed, devtable, tmp_addr, hid_addr>>
  <2>1. CASE "CONDET" \in HIRQ
    BY <1>2, <2>1, RunningIrq
  <2>2. CASE Reachable(hid_addr) /\ UNCHANGED <<dev, dev_addr>>
    BY <1>2, <2>2 DEF Reachable
  <2> QED
    BY <1>2, <2>1, <2>2, RunningBus DEF RunningMeansConnected
<1> QED
  BY <1>1, <1>2, RunningStep

\* CONFIGURING is entered from ADDRESSING, and left by USB_Task or a probe.
LEMMA ConfiguringStep ==
  ASSUME UsbTypeOK, HandlerOrder, UsbNext, usb_task_state' = USB_STATE_CONFIGURING
  PROVE  \/ Addressing
         \/ /\ usb_task_state = USB_STATE_CONFIGURING
            /\ UNCHANGED <<devtable, tmp_addr>>
<1>1. CASE Outside
  BY <1>1, OutsideStep DEF task
<1>2. CASE AtMain \/ Restart \/ MAX3421E_Task \/ InitResets
  BY <1>2, MainStep DEF Restart, MAX3421E_Task, InitResets, task
<1>3. CASE HandlerProbes \/ InitProbes
  BY <1>3, ProbedStates, ProbedOthers
  DEF HandlerProbes, InitProbes, UsbTypeOK, ChipTypeOK
<1>4. CASE HandlerAcks
  BY <1>4 DEF HandlerAcks, HandlerOrder, Probed
<1>5. CASE InitAcks
  BY ZenonT(60), <1>5, ProbedOthers DEF InitAcks, HandlerOrder
<1>6. CASE Initialize \/ Attached \/ Settle \/ ResetDevice \/ WaitResetComplete
  BY <1>6 DEF Initialize, Attached, Settle, ResetDevice, WaitResetComplete, Becomes
<1>7. CASE WaitSof \/ GetDeviceDescriptorSize \/ Configuring
  BY <1>7 DEF WaitSof, GetDeviceDescriptorSize, Configuring, Becomes
<1>8. CASE Idle
  BY <1>8 DEF Idle, task
<1> QED
  BY AllSteps, <1>1, <1>2, <1>3, <1>4, <1>5, <1>6, <1>7, <1>8 DEF USB_Task

\* A device is given the first free address, which is above all that are used.
LEMMA AddressGiven ==
  ASSUME UsbTypeOK, NoGap, NEW i \in Addresses \ Used,
         \A j \in Addresses \ Used : i <= j,
         devtable' = [devtable EXCEPT ![i].epinfo = "dev0ep"]
  PROVE  /\ Used' = Used \cup {i}
         /\ NoGap'
         /\ \A a \in Used' : a <= i
<1>1. devtable \in [Addresses -> Entries]
  BY DEF UsbTypeOK, TaskTypeOK
<1>2. \A a \in Addresses :
        devtable'[a].epinfo = IF a = i THEN "dev0ep" ELSE devtable[a].epinfo
  BY <1>1 DEF Entries
<1>3. Used' = Used \cup {i}
  BY <1>2 DEF Used
<1>4. \A a \in Used : a <= i
  BY DEF NoGap, Used, Addresses
<1>5. NoGap'
  <2> SUFFICES ASSUME NEW a \in Used \cup {i}, NEW b \in Addresses, b <= a
               PROVE  b \in Used \cup {i}
    BY <1>3 DEF NoGap
  <2>1. CASE a \in Used
    BY <2>1 DEF NoGap
  <2>2. CASE a = i
    BY <2>2 DEF Addresses
  <2> QED
    BY <2>1, <2>2
<1> QED
  BY <1>3, <1>4, <1>5 DEF Addresses

\* An empty table has no gap.
LEMMA EmptyHasNoGap ==
  ASSUME devtable' = EmptyTable PROVE NoGap'
<1>1. Used' = {}
  BY DEF Used, EmptyTable, NoEntry
<1> QED
  BY <1>1 DEF NoGap

\* A probe that fills in an entry that is used leaves the same addresses used.
LEMMA EntryFilled ==
  ASSUME UsbTypeOK, tmp_addr \in Used, NEW c,
         devtable' = [devtable EXCEPT ![tmp_addr] =
                        [epinfo |-> "hid_ep", devclass |-> c]]
  PROVE  Used' = Used /\ devtable'[tmp_addr].devclass = c
<1>1. devtable \in [Addresses -> Entries] /\ tmp_addr \in Addresses
  BY DEF UsbTypeOK, TaskTypeOK, Used
<1>2. \A a \in Addresses :
        devtable'[a].epinfo = IF a = tmp_addr THEN "hid_ep" ELSE devtable[a].epinfo
  BY <1>1
<1>3. devtable[tmp_addr].epinfo # "NULL"
  BY DEF Used
<1> QED
  BY <1>1, <1>2, <1>3 DEF Used

\* The table: addresses without a gap, and the newest for the device at hand.
LEMMA TableStep ==
  ASSUME UsbTypeOK, HandlerOrder, ResetIsOver, NoGap, TableIsFresh, UsbNext
  PROVE  NoGap' /\ TableIsFresh'
<1>1. CASE Addressing
  <2>1. usb_task_state' # USB_STATE_RUNNING
    BY <1>1 DEF Addressing, Becomes
  <2>2. CASE UNCHANGED devtable /\ usb_task_state' = USB_STATE_ERROR
    BY <2>1, <2>2 DEF NoGap, Used, TableIsFresh, Running
  <2>3. ASSUME NEW i \in Addresses \ Used, \A j \in Addresses \ Used : i <= j,
               devtable' = [devtable EXCEPT ![i].epinfo = "dev0ep"],
               usb_task_state' = USB_STATE_ERROR \/ tmp_addr' = i
        PROVE  NoGap' /\ TableIsFresh'
    <3>1. NoGap' /\ Used' = Used \cup {i} /\ \A a \in Used' : a <= i
      BY <2>3, AddressGiven
    <3> QED
      BY <2>1, <2>3, <3>1 DEF TableIsFresh, Running, Newest
  <2> QED
    BY <1>1, <2>2, <2>3 DEF Addressing, Becomes
<1>2. CASE Configuring
  <2>1. Newest(tmp_addr)
    BY <1>2, MaskedStates DEF Configuring, TableIsFresh, UsbTypeOK, TaskTypeOK
  <2>2. usb_task_state' # USB_STATE_CONFIGURING
    BY <1>2 DEF Configuring, Becomes
  <2>3. CASE UNCHANGED devtable /\ usb_task_state' = USB_STATE_ERROR
    BY <2>3 DEF NoGap, Used, TableIsFresh, Running
  <2>4. CASE /\ devtable' = [devtable EXCEPT ![tmp_addr] =
                               [epinfo |-> "hid_ep", devclass |-> Class[dev]]]
             /\ hid_addr' = tmp_addr
    <3>1. Used' = Used /\ devtable'[tmp_addr].devclass = Class[dev]
      BY <2>1, <2>4, EntryFilled DEF Newest
    <3>2. UNCHANGED dev
      BY <1>2 DEF Configuring, bus
    <3> QED
      BY <2>1, <2>2, <2>4, <3>1, <3>2 DEF NoGap, Newest, TableIsFresh, Running
  <2> QED
    BY <1>2, <2>3, <2>4 DEF Configuring, HIDProbe, Becomes
<1>3. CASE ~ Addressing /\ ~ Configuring
  <2>1. NoGap'
    <3>1. CASE Initialize \/ InitAcks
      BY <3>1, EmptyHasNoGap DEF Initialize, InitAcks
    <3>2. CASE UNCHANGED devtable
      BY <3>2 DEF NoGap, Used
    <3> QED
      BY <1>3, <3>1, <3>2, TableFrame
  <2>2. ASSUME usb_task_state' = USB_STATE_CONFIGURING PROVE Newest(tmp_addr)'
    <3>1. usb_task_state = USB_STATE_CONFIGURING /\ UNCHANGED <<devtable, tmp_addr>>
      BY <1>3, <2>2, ConfiguringStep
    <3> QED
      BY <3>1 DEF TableIsFresh, Newest, Used
  <2>3. ASSUME Running'
        PROVE  /\ Newest(hid_addr)'
               /\ Reachable(hid_addr)' => devtable'[hid_addr'].devclass = Class[dev']
    <3>1. Running /\ UNCHANGED <<lowspeed, devtable, tmp_addr, hid_addr>>
      BY <1>3, <2>3, RunningStep
    <3>2. Newest(hid_addr) /\ hid_addr # 0
      BY <3>1 DEF TableIsFresh, Newest, Used, Addresses
    <3>3. CASE UNCHANGED <<dev, dev_addr>>
      BY <3>1, <3>2, <3>3 DEF TableIsFresh, Newest, Used, Reachable
    <3>4. CASE dev_addr' = 0
      BY <3>1, <3>2, <3>4 DEF Newest, Used, Reachable
    <3> QED
      BY <3>1, <3>3, <3>4, RunningBus
  <2> QED
    BY <2>1, <2>2, <2>3 DEF TableIsFresh
<1> QED
  BY <1>1, <1>2, <1>3

\* The flag of main.
LEMMA FlagStep == ASSUME UsbIInv, UsbNext PROVE FlagIsFresh'
<1> SUFFICES ASSUME runningdebugflag'
             PROVE  \/ Running' /\ device' = devtable'[hid_addr'].devclass
                    \/ pc' \in {"ack", "USB_Task"} /\ usb_task_state' \in Handled
                    \/ pc' = "main" /\ usb_task_state' \in 1..21
  BY DEF FlagIsFresh
<1> USE DEF UsbIInv, FlagIsFresh
<1>1. CASE Report
  <2>1. Running /\ Used' = Used /\ UNCHANGED <<usb_task_state, devtable, hid_addr>>
    BY <1>1 DEF Report, Running, Loop, task, Used
  <2>2. Newest(hid_addr)
    BY <2>1 DEF TableIsFresh
  <2>3. PICK a \in Used : (\A b \in Used : b <= a) /\ device' = devtable[a].devclass
    BY <1>1, <2>2 DEF Report, Newest
  <2>4. a = hid_addr
    BY <2>2, <2>3 DEF Newest, Used, Addresses
  <2> QED
    BY <2>1, <2>3, <2>4 DEF Running
<1>2. CASE Poll
  BY <1>2 DEF Poll, Running, Loop, task
<1>3. CASE InError \/ NotRunning
  <2>1. ~ runningdebugflag
    BY <1>3 DEF InError, NotRunning, Running
  <2> QED
    BY <1>3, <2>1 DEF InError, NotRunning, main
<1>4. CASE Restart
  BY <1>4 DEF Restart
<1>5. CASE Outside
  BY <1>5, OutsideStep DEF task, main, Running
<1>6. CASE MAX3421E_Task
  BY <1>6 DEF MAX3421E_Task, Goto, task, main, Running
<1>7. CASE HandlerProbes
  BY <1>7, ProbedStates DEF HandlerProbes, Goto, Handled, UsbTypeOK, ChipTypeOK
<1>8. CASE HandlerAcks
  <2>1. usb_task_state \in Probed /\ pc' = "USB_Task"
    BY <1>8 DEF HandlerAcks, HandlerOrder, Goto
  <2>2. usb_task_state' \in Handled
    BY <1>8, <2>1 DEF HandlerAcks, Probed, Handled
  <2> QED
    BY <2>1, <2>2
<1>9. CASE InitResets \/ InitProbes \/ InitAcks
  <2>1. ~ runningdebugflag
    BY <1>9, ProbedOthers DEF InitResets, InitProbes, InitAcks, HandlerOrder, Running
  <2> QED
    BY <1>9, <2>1 DEF InitResets, InitProbes, InitAcks, main
<1>10. CASE USB_Task
  <2>1. pc = "USB_Task" /\ pc' = "main" /\ UNCHANGED <<runningdebugflag, device>>
    BY <1>10, UsbTaskStep DEF main
  <2>2. CASE Running /\ device = devtable[hid_addr].devclass
    <3>1. Idle
      BY <1>10, <2>2, MaskedStates DEF USB_Task, Running, InState, UsbTypeOK, TaskTypeOK,
        Initialize, Attached, Settle, ResetDevice, WaitResetComplete, WaitSof,
        GetDeviceDescriptorSize, Addressing, Configuring
    <3> QED
      BY <2>1, <2>2, <3>1 DEF Idle, Running, task
  <2>3. CASE usb_task_state \in Handled
    <3>1. usb_task_state \in {1, 2, 3, 4, 5, 16, 17, 19, 20}
      BY <2>3 DEF Handled, Probed
    <3>2. ~ Addressing /\ ~ Configuring
      BY <3>1, MaskedStates DEF Addressing, Configuring, UsbTypeOK, TaskTypeOK
    <3>3. ~ GetDeviceDescriptorSize
      BY <3>1 DEF GetDeviceDescriptorSize, InState
    <3>4. usb_task_state' \in 1..21
      BY <1>10, <3>1, <3>2, <3>3 DEF USB_Task, Becomes, Idle, task,
        Initialize, Attached, Settle, ResetDevice, WaitResetComplete, WaitSof
    <3> QED
      BY <2>1, <3>4
  <2> QED
    BY <2>1, <2>2, <2>3
<1> QED
  BY AllSteps, <1>1, <1>2, <1>3, <1>4, <1>5, <1>6, <1>7, <1>8, <1>9, <1>10 DEF AtMain

-----------------------------------------------------------------------------
\* The invariant holds initially.
LEMMA UsbInvInit == UsbInit => UsbIInv
<1> SUFFICES ASSUME UsbInit PROVE UsbIInv
  OBVIOUS
<1>1. UsbTypeOK
  BY TypeInit
<1>2. /\ pc = "reset" /\ seen = {} /\ usb_task_state = USB_DETACHED_SUBSTATE_INITIALIZE
      /\ BUSRST = FALSE /\ runningdebugflag = FALSE /\ devtable = EmptyTable
  BY DEF UsbInit
<1>3. RunningMeansConnected /\ HandlerOrder /\ FlagIsFresh
  BY <1>2 DEF RunningMeansConnected, HandlerOrder, FlagIsFresh, Running
<1>4. ResetIsOver
  BY <1>2 DEF ResetIsOver, Enumerating
<1>5. NoGap
  BY <1>2 DEF NoGap, Used, EmptyTable, NoEntry
<1>6. TableIsFresh
  BY <1>2 DEF TableIsFresh, Running
<1> QED
  BY <1>1, <1>3, <1>4, <1>5, <1>6 DEF UsbIInv

\* The invariant is inductive.
LEMMA UsbInvNext == UsbIInv /\ [UsbNext]_usbVars => UsbIInv'
<1> SUFFICES ASSUME UsbIInv, [UsbNext]_usbVars PROVE UsbIInv'
  OBVIOUS
<1>1. CASE UsbNext
  <2>1. UsbTypeOK'
    BY <1>1, BusTypeStep, ChipTypeStep, LoopTypeStep, TaskTypeStep, MainTypeStep
    DEF UsbIInv, UsbTypeOK
  <2>2. RunningMeansConnected'
    BY <1>1, ConnectedStep DEF UsbIInv
  <2>3. HandlerOrder' /\ ResetIsOver'
    BY <1>1, HandlerOrderStep, ResetIsOverStep DEF UsbIInv
  <2>4. NoGap' /\ TableIsFresh'
    BY <1>1, TableStep DEF UsbIInv
  <2>5. FlagIsFresh'
    BY <1>1, FlagStep
  <2> QED
    BY <2>1, <2>2, <2>3, <2>4, <2>5 DEF UsbIInv
<1>2. CASE UNCHANGED usbVars
  <2>1. UNCHANGED <<bus, chip, pc, seen, task, main>>
    BY <1>2 DEF usbVars
  <2>2. UNCHANGED <<dev, dev_addr, events, HIRQ, BUSRST, lowspeed, delay_over,
                    pc, seen, usb_task_state, devtable, tmp_addr, hid_addr,
                    runningdebugflag, device, keycode>>
    BY <2>1 DEF bus, chip, task, main
  <2>3. UsbTypeOK'
    BY <2>2 DEF UsbIInv, UsbTypeOK, BusTypeOK, ChipTypeOK, LoopTypeOK, TaskTypeOK,
      MainTypeOK
  <2>4. RunningMeansConnected'
    BY <2>2 DEF UsbIInv, RunningMeansConnected, Running, Reachable
  <2>5. HandlerOrder' /\ ResetIsOver'
    BY <2>2 DEF UsbIInv, HandlerOrder, ResetIsOver
  <2>6. NoGap' /\ TableIsFresh'
    BY <2>2 DEF UsbIInv, NoGap, TableIsFresh, Running, Newest, Used, Reachable
  <2>7. FlagIsFresh'
    BY <2>2 DEF UsbIInv, FlagIsFresh, Running
  <2> QED
    BY <2>3, <2>4, <2>5, <2>6, <2>7 DEF UsbIInv
<1> QED
  BY <1>1, <1>2

\* The invariant.
LEMMA UsbInvariant == UsbSpec => []UsbIInv
  BY UsbInvInit, UsbInvNext, PTL DEF UsbSpec

\* Every variable of the host keeps its type; in particular the increments of
\* MaxIntHandler never carry usb_task_state to a state other than those named.
THEOREM UsbTypeCorrect == UsbSpec => []UsbTypeOK
<1>1. UsbIInv => UsbTypeOK
  BY DEF UsbIInv
<1> QED
  BY <1>1, UsbInvariant, PTL

\* While the host says RUNNING, the device it configured is plugged in and
\* listens at the address that is polled, or its removal is pending.
THEOREM RunningIsConnected == UsbSpec => []RunningMeansConnected
<1>1. UsbIInv => RunningMeansConnected
  BY DEF UsbIInv
<1> QED
  BY <1>1, UsbInvariant, PTL

\* The flag of main says that the device is that of the newest entry.
LEMMA FlagSays ==
  ASSUME UsbIInv, Running, runningdebugflag
  PROVE  device = devtable[hid_addr].devclass
  BY DEF UsbIInv, FlagIsFresh, Running, Handled, Probed

\* The class main remembers is that of the device plugged in, unless a plug
\* event is pending.
THEOREM DeviceIsRight == UsbSpec => []DeviceIsThePluggedOne
<1>1. ASSUME UsbIInv PROVE DeviceIsThePluggedOne
  <2> SUFFICES ASSUME Running, runningdebugflag, "CONDET" \notin HIRQ
               PROVE  device = Class[dev]
    BY DEF DeviceIsThePluggedOne
  <2>1. Reachable(hid_addr)
    BY <1>1 DEF UsbIInv, RunningMeansConnected
  <2>2. devtable[hid_addr].devclass = Class[dev]
    BY <1>1, <2>1 DEF UsbIInv, TableIsFresh
  <2> QED
    BY <1>1, <2>2, FlagSays
<1> QED
  BY <1>1, UsbInvariant, PTL

\* The key code of the game changes by a report of a plugged-in keyboard only.
THEOREM KeysAreKeys == UsbSpec => KeysComeFromAKeyboard
<1>1. ASSUME UsbIInv, [UsbNext]_usbVars, keycode' # keycode
      PROVE  dev \in Devices /\ Class[dev] = "HID_K" /\ Running
  <2>1. UsbNext
    BY <1>1 DEF usbVars, main
  <2>2. Poll
    BY <1>1, <2>1, MainFrame DEF main, Report, Restart
  <2>3. device = "HID_K" /\ Reachable(hid_addr) /\ Running /\ runningdebugflag
    BY <1>1, <2>2 DEF Poll, Running
  <2>4. devtable[hid_addr].devclass = Class[dev]
    BY <1>1, <2>3 DEF UsbIInv, TableIsFresh
  <2> QED
    BY <1>1, <2>3, <2>4, FlagSays DEF Reachable
<1> QED
  BY <1>1, UsbInvariant, PTL DEF UsbSpec, KeysComeFromAKeyboard

=============================================================================
