------------------------------ MODULE UsbHost ------------------------------
(***************************************************************************)
(* The USB host: the main loop of main.c, the interrupt task and handler   *)
(* of MAX3421E.c, the task state machine of transfer.c and the probes of   *)
(* HID.c, with the host controller and what is plugged into it.            *)
(*                                                                         *)
(* The program is one loop that polls; the controller and the person who   *)
(* plugs devices in and out act at any time between its register accesses. *)
(* A transfer is one step here (see Transfer): it may fail, and succeeds   *)
(* only if the device listens at the address it is sent to.                *)
(***************************************************************************)
EXTENDS Integers, FiniteSets

CONSTANTS
  Devices,          \* what can be plugged in
  LowSpeed,         \* the devices that are low speed
  Class,            \* [Devices -> {"HID_K", "HID_M", "other"}]
  KeyCodes,         \* what the keyboard reports, 0 for no key
  USB_NUMDEVICES,   \* addresses are 1 .. USB_NUMDEVICES - 1
  MaxEvents         \* bound: how often something is plugged in or out

VARIABLES
  \* the controller and the bus
  dev,              \* the device plugged in, "none", or "illegal" (SE1)
  dev_addr,         \* the address it listens to
  HIRQ,             \* pending interrupt requests
  BUSRST,           \* bit of HCTL: a bus reset is under way
  lowspeed,         \* bit of MODE
  delay_over,       \* the clock has passed usb_delay
  events,           \* plug events so far
  \* the program
  pc,               \* where the loop is
  seen,             \* the local HIRQ of MaxIntHandler
  usb_task_state,
  devtable,         \* address -> [epinfo, devclass]
  tmp_addr,
  hid_addr,         \* hid_device.addr
  runningdebugflag,
  device,           \* main's device class
  keycode           \* the register the game reads

bus  == <<dev, dev_addr, events>>
chip == <<HIRQ, BUSRST, lowspeed, delay_over>>
task == <<usb_task_state, devtable, tmp_addr, hid_addr>>
main == <<runningdebugflag, device, keycode>>
usbVars == <<bus, chip, pc, seen, task, main>>

\* USB.h: the high half of the byte is the state, the low half the substate.
USB_STATE_DETACHED == 0
USB_DETACHED_SUBSTATE_INITIALIZE == 1
USB_DETACHED_SUBSTATE_WAIT_FOR_DEVICE == 3
USB_DETACHED_SUBSTATE_ILLEGAL == 4
USB_STATE_ATTACHED == 16
USB_ATTACHED_SUBSTATE_SETTLE == 17
USB_ATTACHED_SUBSTATE_RESET_DEVICE == 18
USB_ATTACHED_SUBSTATE_WAIT_RESET_COMPLETE == 19
USB_ATTACHED_SUBSTATE_WAIT_SOF == 20
USB_ATTACHED_SUBSTATE_GET_DEVICE_DESCRIPTOR_SIZE == 21
USB_STATE_ADDRESSING == 32
USB_STATE_CONFIGURING == 48
USB_STATE_RUNNING == 64
USB_STATE_ERROR == 255

\* usb_task_state & USB_STATE_MASK
Masked == (usb_task_state \div 16) * 16

\* Mutant: the loop of USB_STATE_ADDRESSING goes one too far.
Addresses_OneMore == 1..USB_NUMDEVICES
Addresses == 1..(USB_NUMDEVICES - 1)
NoEntry == [epinfo |-> "NULL", devclass |-> "uninitialized"]
EmptyTable == [a \in Addresses |-> NoEntry]
Used == { a \in Addresses : devtable[a].epinfo # "NULL" }

ASSUME UsbAssumption ==
  /\ USB_NUMDEVICES \in Nat /\ USB_NUMDEVICES >= 2
  /\ MaxEvents \in Nat
  /\ LowSpeed \subseteq Devices
  /\ {"none", "illegal"} \cap Devices = {}
  /\ Class \in [Devices -> {"HID_K", "HID_M", "other"}]
  /\ 0 \in KeyCodes

-----------------------------------------------------------------------------
\* The controller and the bus, as the driver uses them.

PlugIn(d) ==
  /\ dev = "none" /\ d \in Devices \cup {"illegal"}
  /\ events < MaxEvents
  /\ dev' = d /\ dev_addr' = 0 /\ events' = events + 1
  /\ HIRQ' = HIRQ \cup {"CONDET"}
  /\ UNCHANGED <<BUSRST, lowspeed, delay_over, pc, seen, task, main>>

PlugOut ==
  /\ dev # "none"
  /\ events < MaxEvents
  /\ dev' = "none" /\ dev_addr' = 0 /\ events' = events + 1
  /\ HIRQ' = HIRQ \cup {"CONDET"}
  /\ UNCHANGED <<BUSRST, lowspeed, delay_over, pc, seen, task, main>>

\* The end of a bus reset, which may also look like a connection.
ResetDone ==
  /\ BUSRST
  /\ BUSRST' = FALSE
  /\ dev_addr' = 0
  /\ \E more \in { {}, {"CONDET"} } : HIRQ' = HIRQ \cup {"BUSEVENT"} \cup more
  /\ UNCHANGED <<dev, events, lowspeed, delay_over, pc, seen, task, main>>

\* A start of frame.
Sof ==
  /\ ~ BUSRST
  /\ HIRQ' = HIRQ \cup {"FRAME"}
  /\ UNCHANGED <<bus, BUSRST, lowspeed, delay_over, pc, seen, task, main>>

DelayEnds ==
  /\ delay_over' = TRUE
  /\ UNCHANGED <<bus, HIRQ, BUSRST, lowspeed, pc, seen, task, main>>

\* The J or K the status bits show depends on the speed the host runs at.
BusSample ==
  IF dev = "none" THEN "SE0"
  ELSE IF dev = "illegal" THEN "SE1"
  ELSE IF (dev \in LowSpeed) = lowspeed THEN "J" ELSE "K"

Reachable(a) == dev \in Devices /\ dev_addr = a /\ (dev \in LowSpeed) = lowspeed

-----------------------------------------------------------------------------
\* Mutant: a device that disappears is noticed in no state but DETACHED.
Busprobe_Deaf ==
  \/ /\ BusSample \in {"J", "K"}
     /\ usb_task_state # USB_ATTACHED_SUBSTATE_WAIT_RESET_COMPLETE
     /\ usb_task_state' = USB_STATE_ATTACHED
     /\ lowspeed' = IF BusSample = "K" THEN ~ lowspeed ELSE lowspeed
  \/ /\ BusSample \in {"J", "K"}
     /\ usb_task_state = USB_ATTACHED_SUBSTATE_WAIT_RESET_COMPLETE
     /\ UNCHANGED <<usb_task_state, lowspeed>>
  \/ /\ BusSample = "SE1"
     /\ usb_task_state' = USB_DETACHED_SUBSTATE_ILLEGAL /\ UNCHANGED lowspeed
  \/ /\ BusSample = "SE0" /\ Masked # USB_STATE_DETACHED
     /\ UNCHANGED <<usb_task_state, lowspeed>>
  \/ /\ BusSample = "SE0" /\ Masked = USB_STATE_DETACHED
     /\ usb_task_state' = USB_DETACHED_SUBSTATE_WAIT_FOR_DEVICE /\ lowspeed' = FALSE

(***************************************************************************)
(* MAX_busprobe: a device is noticed and the host's speed is set to its    *)
(* own; K means that the speeds differ.                                    *)
(***************************************************************************)
Busprobe ==
  \/ /\ BusSample \in {"J", "K"}
     /\ usb_task_state # USB_ATTACHED_SUBSTATE_WAIT_RESET_COMPLETE
     /\ usb_task_state' = USB_STATE_ATTACHED
     /\ lowspeed' = IF BusSample = "K" THEN ~ lowspeed ELSE lowspeed
  \/ /\ BusSample \in {"J", "K"}
     /\ usb_task_state = USB_ATTACHED_SUBSTATE_WAIT_RESET_COMPLETE
     /\ UNCHANGED <<usb_task_state, lowspeed>>
  \/ /\ BusSample = "SE1"
     /\ usb_task_state' = USB_DETACHED_SUBSTATE_ILLEGAL /\ UNCHANGED lowspeed
  \/ /\ BusSample = "SE0" /\ Masked # USB_STATE_DETACHED
     /\ usb_task_state' = USB_DETACHED_SUBSTATE_INITIALIZE /\ UNCHANGED lowspeed
  \/ /\ BusSample = "SE0" /\ Masked = USB_STATE_DETACHED
     /\ usb_task_state' = USB_DETACHED_SUBSTATE_WAIT_FOR_DEVICE /\ lowspeed' = FALSE

Goto(label) == pc' = label

\* The level of the interrupt pin: only CONDETIE is enabled.
MAX3421E_Task ==
  /\ pc = "MAX3421E_Task"
  /\ IF "CONDET" \in HIRQ
     THEN seen' = HIRQ /\ Goto("probe")
     ELSE UNCHANGED seen /\ Goto("USB_Task")
  /\ UNCHANGED <<bus, chip, task, main>>

HandlerProbes ==
  /\ pc = "probe"
  /\ Busprobe
  /\ Goto("ack")
  /\ UNCHANGED <<bus, HIRQ, BUSRST, delay_over, seen, devtable, tmp_addr, hid_addr, main>>

\* The state machine is advanced, and what was seen is acknowledged.
HandlerAcks ==
  /\ pc = "ack"
  /\ usb_task_state' = IF "BUSEVENT" \in seen THEN (usb_task_state + 1) % 256
                                              ELSE usb_task_state
  /\ HIRQ' = HIRQ \ seen
  /\ seen' = {}
  /\ Goto("USB_Task")
  /\ UNCHANGED <<bus, BUSRST, lowspeed, delay_over, devtable, tmp_addr, hid_addr, main>>

-----------------------------------------------------------------------------
\* USB_Task, one action for each state it tells apart.

InState(s) == pc = "USB_Task" /\ usb_task_state = s
Becomes(s) == usb_task_state' = s /\ Goto("main")

Initialize ==
  /\ InState(USB_DETACHED_SUBSTATE_INITIALIZE)
  /\ devtable' = EmptyTable
  /\ Becomes(USB_DETACHED_SUBSTATE_WAIT_FOR_DEVICE)
  /\ UNCHANGED <<bus, chip, seen, tmp_addr, hid_addr, main>>

Attached ==
  /\ InState(USB_STATE_ATTACHED)
  /\ delay_over' = FALSE
  /\ Becomes(USB_ATTACHED_SUBSTATE_SETTLE)
  /\ UNCHANGED <<bus, HIRQ, BUSRST, lowspeed, seen, devtable, tmp_addr, hid_addr, main>>

Settle ==
  /\ InState(USB_ATTACHED_SUBSTATE_SETTLE) /\ delay_over
  /\ Becomes(USB_ATTACHED_SUBSTATE_RESET_DEVICE)
  /\ UNCHANGED <<bus, chip, seen, devtable, tmp_addr, hid_addr, main>>

\* Mutant: line 286, which clears the bus event, is missing.
ResetDevice_StaleEvent ==
  /\ InState(USB_ATTACHED_SUBSTATE_RESET_DEVICE)
  /\ BUSRST' = TRUE
  /\ Becomes(USB_ATTACHED_SUBSTATE_WAIT_RESET_COMPLETE)
  /\ UNCHANGED <<bus, HIRQ, lowspeed, delay_over, seen, devtable, tmp_addr, hid_addr, main>>

ResetDevice ==
  /\ InState(USB_ATTACHED_SUBSTATE_RESET_DEVICE)
  /\ HIRQ' = HIRQ \ {"BUSEVENT"}
  /\ BUSRST' = TRUE
  /\ Becomes(USB_ATTACHED_SUBSTATE_WAIT_RESET_COMPLETE)
  /\ UNCHANGED <<bus, lowspeed, delay_over, seen, devtable, tmp_addr, hid_addr, main>>

WaitResetComplete ==
  /\ InState(USB_ATTACHED_SUBSTATE_WAIT_RESET_COMPLETE) /\ ~ BUSRST
  /\ Becomes(USB_ATTACHED_SUBSTATE_WAIT_SOF)
  /\ UNCHANGED <<bus, chip, seen, devtable, tmp_addr, hid_addr, main>>

\* The condition rHIRQ | bmFRAMEIRQ is never zero.
WaitSof ==
  /\ InState(USB_ATTACHED_SUBSTATE_WAIT_SOF)
  /\ Becomes(USB_ATTACHED_SUBSTATE_GET_DEVICE_DESCRIPTOR_SIZE)
  /\ UNCHANGED <<bus, chip, seen, devtable, tmp_addr, hid_addr, main>>

\* Only the first transfer decides; what the later ones return is not used.
GetDeviceDescriptorSize ==
  /\ InState(USB_ATTACHED_SUBSTATE_GET_DEVICE_DESCRIPTOR_SIZE)
  /\ \/ Reachable(0) /\ Becomes(USB_STATE_ADDRESSING)
     \/ Becomes(USB_STATE_ERROR)
  /\ UNCHANGED <<bus, chip, seen, devtable, tmp_addr, hid_addr, main>>

\* The first free address.  A device may take it and its answer be lost.
Addressing ==
  /\ pc = "USB_Task" /\ Masked = USB_STATE_ADDRESSING
  /\ LET free == Addresses \ Used
     IN  \/ /\ free = {}
            /\ Becomes(USB_STATE_ERROR)
            /\ UNCHANGED <<devtable, tmp_addr, dev_addr>>
         \/ \E i \in free :
              /\ \A j \in free : i <= j
              /\ devtable' = [devtable EXCEPT ![i].epinfo = "dev0ep"]
              /\ \/ /\ Reachable(0)
                    /\ dev_addr' = i /\ tmp_addr' = i
                    /\ Becomes(USB_STATE_CONFIGURING)
                 \/ /\ dev_addr' = dev_addr \/ (Reachable(0) /\ dev_addr' = i)
                    /\ UNCHANGED tmp_addr
                    /\ Becomes(USB_STATE_ERROR)
  /\ UNCHANGED <<dev, events, chip, seen, hid_addr, main>>

(***************************************************************************)
(* HIDMProbe and HIDKProbe.  The one that recognises the interface fills   *)
(* in the tables before it has configured the device, and leaves them so   *)
(* if that fails.                                                          *)
(***************************************************************************)
HIDProbe ==
  /\ Reachable(tmp_addr) /\ Class[dev] # "other"
  /\ devtable' = [devtable EXCEPT ![tmp_addr] =
                    [epinfo |-> "hid_ep", devclass |-> Class[dev]]]
  /\ hid_addr' = tmp_addr

\* The probes are tried in turn; only those for HID devices can succeed.
Configuring ==
  /\ pc = "USB_Task" /\ Masked = USB_STATE_CONFIGURING
  /\ \/ Becomes(USB_STATE_ERROR) /\ UNCHANGED <<devtable, hid_addr>>
     \/ HIDProbe /\ Becomes(USB_STATE_ERROR)
     \/ HIDProbe /\ Becomes(USB_STATE_RUNNING)
  /\ UNCHANGED <<bus, chip, seen, tmp_addr, main>>

\* Waiting, running, in error, or in a state no case names.
Idles ==
  \/ usb_task_state = USB_ATTACHED_SUBSTATE_SETTLE /\ ~ delay_over
  \/ usb_task_state = USB_ATTACHED_SUBSTATE_WAIT_RESET_COMPLETE /\ BUSRST
  \/ Masked = USB_STATE_DETACHED /\ usb_task_state # USB_DETACHED_SUBSTATE_INITIALIZE
  \/ Masked = USB_STATE_ATTACHED
       /\ usb_task_state > USB_ATTACHED_SUBSTATE_GET_DEVICE_DESCRIPTOR_SIZE
  \/ Masked >= USB_STATE_RUNNING

Idle ==
  /\ pc = "USB_Task" /\ Idles
  /\ Goto("main")
  /\ UNCHANGED <<bus, chip, seen, task, main>>

USB_Task ==
  \/ Initialize \/ Attached \/ Settle \/ ResetDevice \/ WaitResetComplete
  \/ WaitSof \/ GetDeviceDescriptorSize \/ Addressing \/ Configuring \/ Idle

-----------------------------------------------------------------------------
\* The body of the main loop.

Loop == Goto("MAX3421E_Task") /\ UNCHANGED <<bus, chip, seen, task>>

\* Mutant: the first entry of the table that is used, not the last.
Report_First ==
  /\ pc = "main" /\ usb_task_state = USB_STATE_RUNNING /\ ~ runningdebugflag
  /\ runningdebugflag' = TRUE
  /\ \/ Used = {} /\ device' = "0xFF"
     \/ \E a \in Used :
          (\A b \in Used : a <= b) /\ device' = devtable[a].devclass
  /\ UNCHANGED keycode
  /\ Loop

\* GetDriverandReport: the class of the last device of the table.
Report ==
  /\ pc = "main" /\ usb_task_state = USB_STATE_RUNNING /\ ~ runningdebugflag
  /\ runningdebugflag' = TRUE
  /\ \/ Used = {} /\ device' = "0xFF"
     \/ \E a \in Used :
          (\A b \in Used : b <= a) /\ device' = devtable[a].devclass
  /\ UNCHANGED keycode
  /\ Loop

\* kbdPoll: without a report, and for other classes, nothing happens.
Poll ==
  /\ pc = "main" /\ usb_task_state = USB_STATE_RUNNING /\ runningdebugflag
  /\ \/ device = "HID_K" /\ Reachable(hid_addr) /\ keycode' \in KeyCodes
     \/ UNCHANGED keycode
  /\ UNCHANGED <<runningdebugflag, device>>
  /\ Loop

InError ==
  /\ pc = "main" /\ usb_task_state = USB_STATE_ERROR
  /\ UNCHANGED main
  /\ Loop

\* Mutant: what was running is forgotten.
NotRunning_Forgets ==
  /\ pc = "main" /\ usb_task_state \notin {USB_STATE_RUNNING, USB_STATE_ERROR}
  /\ UNCHANGED main
  /\ Loop

NotRunning ==
  /\ pc = "main" /\ usb_task_state \notin {USB_STATE_RUNNING, USB_STATE_ERROR}
  /\ ~ runningdebugflag
  /\ UNCHANGED main
  /\ Loop

\* What was running is over: the controller and the tables start afresh.
Restart ==
  /\ pc = "main" /\ usb_task_state \notin {USB_STATE_RUNNING, USB_STATE_ERROR}
  /\ runningdebugflag
  /\ runningdebugflag' = FALSE
  /\ Goto("reset")
  /\ UNCHANGED <<bus, chip, seen, task, device, keycode>>

-----------------------------------------------------------------------------
\* MAX3421E_init, then USB_init; main runs them before the loop as well.

InitResets ==
  /\ pc = "reset"
  /\ HIRQ' \in { {}, {"CONDET"} }
  /\ BUSRST' = FALSE /\ lowspeed' = FALSE
  /\ Goto("init probe")
  /\ UNCHANGED <<bus, delay_over, seen, task, main>>

InitProbes ==
  /\ pc = "init probe"
  /\ Busprobe
  /\ Goto("init ack")
  /\ UNCHANGED <<bus, HIRQ, BUSRST, delay_over, seen, devtable, tmp_addr, hid_addr, main>>

InitAcks ==
  /\ pc = "init ack"
  /\ HIRQ' = HIRQ \ {"CONDET"}
  /\ devtable' = EmptyTable
  /\ Goto("MAX3421E_Task")
  /\ UNCHANGED <<bus, BUSRST, lowspeed, delay_over, seen, usb_task_state, tmp_addr, hid_addr, main>>

-----------------------------------------------------------------------------
UsbInit ==
  /\ dev \in Devices \cup {"none"} /\ dev_addr = 0 /\ events = 0
  /\ HIRQ = {} /\ BUSRST = FALSE /\ lowspeed = FALSE /\ delay_over = TRUE
  /\ pc = "reset" /\ seen = {}
  /\ usb_task_state = USB_DETACHED_SUBSTATE_INITIALIZE
  /\ devtable = EmptyTable /\ tmp_addr = 0 /\ hid_addr = 0
  /\ runningdebugflag = FALSE /\ device = "0xFF" /\ keycode = 0

Processor ==
  \/ MAX3421E_Task \/ HandlerProbes \/ HandlerAcks
  \/ USB_Task
  \/ Report \/ Poll \/ InError \/ NotRunning \/ Restart
  \/ InitResets \/ InitProbes \/ InitAcks

Controller == ResetDone \/ Sof \/ DelayEnds

Person == PlugOut \/ \E d \in Devices \cup {"illegal"} : PlugIn(d)

UsbNext == Processor \/ Controller \/ Person

(***************************************************************************)
(* The loop never blocks, a bus reset takes 50 ms and the clock runs on.   *)
(* Nothing is assumed of the person.                                       *)
(***************************************************************************)
UsbFairness ==
  WF_usbVars(Processor) /\ WF_usbVars(ResetDone) /\ WF_usbVars(DelayEnds)

UsbSpec == UsbInit /\ [][UsbNext]_usbVars /\ UsbFairness
-----------------------------------------------------------------------------
States ==
  { USB_DETACHED_SUBSTATE_INITIALIZE, USB_DETACHED_SUBSTATE_WAIT_FOR_DEVICE,
    USB_DETACHED_SUBSTATE_ILLEGAL, USB_STATE_ATTACHED,
    USB_ATTACHED_SUBSTATE_SETTLE, USB_ATTACHED_SUBSTATE_RESET_DEVICE,
    USB_ATTACHED_SUBSTATE_WAIT_RESET_COMPLETE, USB_ATTACHED_SUBSTATE_WAIT_SOF,
    USB_ATTACHED_SUBSTATE_GET_DEVICE_DESCRIPTOR_SIZE, USB_STATE_ADDRESSING,
    USB_STATE_CONFIGURING, USB_STATE_RUNNING, USB_STATE_ERROR }

\* What usb_task_state++ makes of INITIALIZE and ILLEGAL: USB.h names neither.
Unnamed == {USB_DETACHED_SUBSTATE_INITIALIZE + 1, USB_DETACHED_SUBSTATE_ILLEGAL + 1}

Irqs == {"CONDET", "BUSEVENT", "FRAME"}
Classes == {"uninitialized", "HID_K", "HID_M"}
Entries == [epinfo : {"NULL", "dev0ep", "hid_ep"}, devclass : Classes]

BusTypeOK ==
  /\ dev \in Devices \cup {"none", "illegal"}
  /\ dev_addr \in 0..(USB_NUMDEVICES - 1)
  /\ events \in 0..MaxEvents

ChipTypeOK ==
  /\ HIRQ \subseteq Irqs
  /\ BUSRST \in BOOLEAN /\ lowspeed \in BOOLEAN /\ delay_over \in BOOLEAN

LoopTypeOK ==
  /\ pc \in {"reset", "init probe", "init ack", "MAX3421E_Task", "probe",
             "ack", "USB_Task", "main"}
  /\ seen \subseteq Irqs

TaskTypeOK ==
  /\ usb_task_state \in States \cup Unnamed
  /\ devtable \in [Addresses -> Entries]
  /\ tmp_addr \in 0..(USB_NUMDEVICES - 1) /\ hid_addr \in 0..(USB_NUMDEVICES - 1)

MainTypeOK ==
  /\ runningdebugflag \in BOOLEAN
  /\ device \in Classes \cup {"0xFF"}
  /\ keycode \in KeyCodes

(***************************************************************************)
(* The types.  The state is one that USB.h names, or one of the two that   *)
(* the increment in MaxIntHandler reaches by accident.                     *)
(***************************************************************************)
UsbTypeOK == BusTypeOK /\ ChipTypeOK /\ LoopTypeOK /\ TaskTypeOK /\ MainTypeOK

Running == usb_task_state = USB_STATE_RUNNING

(***************************************************************************)
(* While the host says RUNNING, the device it enumerated is still there,   *)
(* listening at the address that is polled and at the host's speed, or the *)
(* change is waiting to be handled.  Nothing in USB_Task looks at the bus  *)
(* once RUNNING is reached: this rests on the order in which MaxIntHandler *)
(* reads, probes and acknowledges, and on every bus reset having ended.    *)
(***************************************************************************)
RunningMeansConnected ==
  Running => "CONDET" \in HIRQ \/ Reachable(hid_addr)

(***************************************************************************)
(* main keeps the device class of the first report in a variable of its    *)
(* own.  It is never that of a device that has gone, however fast one is   *)
(* swapped for another: the table is searched again before the new one is  *)
(* polled.                                                                 *)
(***************************************************************************)
DeviceIsThePluggedOne ==
  Running /\ runningdebugflag /\ "CONDET" \notin HIRQ => device = Class[dev]

(***************************************************************************)
(* The key code the game reads changes only by a report of a keyboard that *)
(* is plugged in and configured: a mouse's report is never taken for keys. *)
(***************************************************************************)
KeysComeFromAKeyboard ==
  [][keycode' # keycode => dev \in Devices /\ Class[dev] = "HID_K" /\ Running]_usbVars

\* A device that is pulled out stops being polled: RUNNING ends.
UnplugStopsPolling == Running /\ dev = "none" ~> ~ Running

-----------------------------------------------------------------------------
\* What comments of the code say of it, and the code does not keep.

\* main.c:23, "hard-wired USB address": the requests of GetDriverandReport,
\* all sent to address 1, go to the device that has been enumerated.
HardWiredAddress == Running => hid_addr = 1

\* transfer.c:277, "initial settle 200ms": SETTLE is entered with the delay ahead.
SettleStartsTheDelay ==
  [][usb_task_state' = USB_ATTACHED_SUBSTATE_SETTLE
       /\ usb_task_state # usb_task_state' => ~ delay_over']_usbVars
=============================================================================
