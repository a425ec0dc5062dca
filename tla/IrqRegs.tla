------------------------------ MODULE IrqRegs ------------------------------
(***************************************************************************)
(* The interrupt registers of a device, which xgpu_drv/libxgpu.c programs  *)
(* when it opens and closes the device: the vector of each user interrupt  *)
(* (prog_irq_msix_user, irq_legacy_setup) and the enable mask of the       *)
(* channel interrupts, which xgpu_isr takes bits out of.  The registers    *)
(* keep their contents from one open to the next.                          *)
(*                                                                         *)
(* Requesting and freeing the handlers is LibXgpu's subject: here a set-up *)
(* that fails there ends in SetupFails.                                    *)
(***************************************************************************)
EXTENDS Integers

CONSTANTS
  UserMaxes,     \* the numbers of user interrupts a device may have
  Pins,          \* the legacy interrupt pins a device may have, 0 for none
  Channels       \* the channel interrupts

ASSUME UserMaxesAssumption == UserMaxes \subseteq 0..16
ASSUME PinsAssumption == Pins \subseteq 0..4

Modes == {"msix", "msi", "intx"}
Entries == 0..31                    \* eight registers of four vectors each

VARIABLES
  pc,            \* the next step of the thread that opens or closes
  mode,          \* the interrupt mode enable_msi_msix has found
  user_max, pin, \* of this device
  i, j,          \* the loop variables of prog_irq_msix_user
  user_msi_vector,
  channel_int_enable,
  channel_int_request,
  isr, ch_irq    \* where xgpu_isr is, and the requests it has read

setupVars == <<pc, mode, user_max, pin, i, j, user_msi_vector>>
isrVars == <<channel_int_enable, channel_int_request, isr, ch_irq>>
vars == <<setupVars, isrVars>>

(* A device comes out of reset with the registers 0.                       *)
Init ==
  /\ pc = "closed" /\ mode = "intx"
  /\ user_max \in UserMaxes /\ pin \in Pins
  /\ i = 0 /\ j = 0
  /\ user_msi_vector = [e \in Entries |-> 0]
  /\ channel_int_enable = {} /\ channel_int_request = {}
  /\ isr = "idle" /\ ch_irq = {}

Goto(from, to) == pc = from /\ pc' = to

(***************************************************************************)
(* xgpu_device_open up to irq_setup: all interrupts are masked, and the    *)
(* mode is what interrupt_mode and the device allow.                       *)
(***************************************************************************)
Quiesce ==
  /\ Goto("closed", "setup")
  /\ mode' \in Modes
  /\ channel_int_enable' = {}
  /\ UNCHANGED <<user_max, pin, i, j, user_msi_vector, channel_int_request, isr, ch_irq>>

(* MSI-X with no vectors, or legacy without a pin, and any call to         *)
(* request_irq that fails over MSI-X or MSI.                               *)
SetupFails ==
  /\ Goto("setup", "closed")
  /\ mode = "intx" => pin = 0
  /\ UNCHANGED <<mode, user_max, pin, i, j, user_msi_vector, isrVars>>

irq_msix_setup ==
  /\ Goto("setup", "program")
  /\ mode = "msix" /\ user_max > 0
  /\ i' = 0 /\ j' = 0
  /\ UNCHANGED <<mode, user_max, pin, user_msi_vector, isrVars>>

irq_msi_setup ==
  /\ Goto("setup", "open")
  /\ mode = "msi"
  /\ UNCHANGED <<mode, user_max, pin, i, j, user_msi_vector, isrVars>>

(***************************************************************************)
(* prog_irq_msix_user, one register for each iteration: register r takes   *)
(* the vectors of the entries 4r to 4r + 3, those from max on being 0.     *)
(***************************************************************************)
write_register(r, vectors) ==
  user_msi_vector' = [e \in Entries |-> IF e \div 4 = r THEN vectors[e % 4] ELSE user_msi_vector[e]]

prog_vectors ==
  /\ pc = "program" /\ i < user_max
  /\ write_register(j, [k \in 0..3 |-> IF i + k < user_max THEN (i + k) % 32 ELSE 0])
  /\ i' = IF i + 4 < user_max THEN i + 4 ELSE user_max
  /\ j' = j + 1
  /\ UNCHANGED <<pc, mode, user_max, pin, isrVars>>

ProgramEnds ==
  /\ Goto("program", "open") /\ i >= user_max
  /\ UNCHANGED <<mode, user_max, pin, i, j, user_msi_vector, isrVars>>

(* A pin above 1 goes into the vectors of the 16 user interrupts; with     *)
(* pin 1 the registers are taken to be 0 already.  request_irq comes after *)
(* that: when it fails, the vectors stay as they have been written.        *)
irq_legacy_setup ==
  /\ Goto("setup", "open") \/ Goto("setup", "closed")
  /\ mode = "intx" /\ pin > 0
  /\ IF pin > 1
     THEN user_msi_vector' = [e \in Entries |-> IF e < 16 THEN pin - 1 ELSE user_msi_vector[e]]
     ELSE UNCHANGED user_msi_vector
  /\ UNCHANGED <<mode, user_max, pin, i, j, isrVars>>

(***************************************************************************)
(* xgpu_device_close frees the handlers, which waits for xgpu_isr, and in  *)
(* irq_msix_user_teardown first clears what prog_irq_msix_user has         *)
(* written, counting in registers of four vectors.                         *)
(***************************************************************************)
Close ==
  /\ Goto("open", IF mode = "msix" THEN "clear" ELSE "closed")
  /\ isr = "idle"
  /\ i' = 0 /\ j' = 0
  /\ UNCHANGED <<mode, user_max, pin, user_msi_vector, isrVars>>

(* Mutant: only the registers that are full are cleared.                   *)
ClearsMore_FullRegisters == i + 4 <= user_max
ClearsMore == i < user_max

clear_vectors ==
  /\ pc = "clear" /\ ClearsMore
  /\ write_register(j, [k \in 0..3 |-> 0])
  /\ i' = i + 4 /\ j' = j + 1
  /\ UNCHANGED <<pc, mode, user_max, pin, isrVars>>

ClearEnds ==
  /\ Goto("clear", "closed") /\ ~ClearsMore
  /\ UNCHANGED <<mode, user_max, pin, i, j, user_msi_vector, isrVars>>

(***************************************************************************)
(* The channel interrupts.  Their handler is xgpu_isr, in the modes that   *)
(* have one vector; the driver never enables a channel, but a client can   *)
(* through the control file of the config BAR, and then the engine behind  *)
(* the channel raises its request until somebody has served it.  A shared  *)
(* line also calls the handler for the interrupts of other devices.        *)
(***************************************************************************)
Handled == pc = "open" /\ mode # "msix"
Asserts(c) == c \in channel_int_enable \cap channel_int_request
Asserted == \E c \in Channels : Asserts(c)

ClientEnables(c) ==
  /\ pc = "open" /\ c \notin channel_int_enable
  /\ channel_int_enable' = channel_int_enable \cup {c}
  /\ UNCHANGED <<setupVars, channel_int_request, isr, ch_irq>>

RequestRaised(c) ==
  /\ pc = "open" /\ c \notin channel_int_request
  /\ channel_int_request' = channel_int_request \cup {c}
  /\ UNCHANGED <<setupVars, channel_int_enable, isr, ch_irq>>

RequestServed(c) ==
  /\ c \in channel_int_request
  /\ channel_int_request' = channel_int_request \ {c}
  /\ UNCHANGED <<setupVars, channel_int_enable, isr, ch_irq>>

InterruptStarts ==
  /\ Handled /\ isr = "idle"
  /\ Asserted \/ mode = "intx"
  /\ isr' = "read"
  /\ UNCHANGED <<setupVars, channel_int_enable, channel_int_request, ch_irq>>

xgpu_isr ==
  /\ isr = "read"
  /\ ch_irq' = channel_int_request
  /\ isr' = "disable"
  /\ UNCHANGED <<setupVars, channel_int_enable, channel_int_request>>

(* Mutant: the mask is written to the register that sets bits.             *)
channel_interrupts_disable_SetsBits ==
  /\ isr = "disable"
  /\ channel_int_enable' = channel_int_enable \cup ch_irq
  /\ isr' = "idle" /\ ch_irq' = {}
  /\ UNCHANGED <<setupVars, channel_int_request>>

channel_interrupts_disable ==
  /\ isr = "disable"
  /\ channel_int_enable' = channel_int_enable \ ch_irq
  /\ isr' = "idle" /\ ch_irq' = {}
  /\ UNCHANGED <<setupVars, channel_int_request>>

HandlerStep == xgpu_isr \/ channel_interrupts_disable

SetupStep ==
  \/ irq_msix_setup \/ prog_vectors \/ ProgramEnds
  \/ irq_msi_setup \/ irq_legacy_setup
  \/ clear_vectors \/ ClearEnds

Next ==
  \/ Quiesce \/ SetupFails \/ Close \/ SetupStep
  \/ \E c \in Channels : ClientEnables(c) \/ RequestRaised(c) \/ RequestServed(c)
  \/ InterruptStarts \/ HandlerStep

Spec == Init /\ [][Next]_vars

(* An interrupt that is asserted is delivered, and its handler runs on.    *)
(* Nothing is assumed of clients or engines, nor that the device is closed.*)
InterruptsDelivered == WF_vars(Asserted /\ InterruptStarts)

FairSpec == Spec /\ WF_vars(SetupStep) /\ WF_vars(HandlerStep) /\ InterruptsDelivered

(***************************************************************************)
(* Properties.                                                             *)
(***************************************************************************)

(* Whatever modes a device has been opened in before, an open device sends *)
(* its user interrupts where their handlers are: over MSI-X the n-th to    *)
(* the n-th vector, and over a line each to the pin of the device, with    *)
(* pin 1 because a close has cleared the vectors of an open over MSI-X.    *)
(* Neither loop leaves the eight registers, behind which those with the    *)
(* vectors of the channels begin.                                          *)
VectorsRouted ==
  /\ j <= 8
  /\ pc = "open" /\ mode = "msix" => \A n \in 0..user_max - 1 : user_msi_vector[n] = n
  /\ pc = "open" /\ mode = "intx" => \A n \in 0..15 : user_msi_vector[n] = pin - 1

(* A channel that asserts the interrupt does so only until the handler has *)
(* run, also when its request comes in beside others or while the handler  *)
(* is running: nothing in the driver withdraws the request, and a channel  *)
(* left enabled would interrupt for ever.                                  *)
HandlerQuiets == \A c \in Channels : (Handled /\ Asserts(c)) ~> ~(Handled /\ Asserts(c))

(* What the comment in xgpu_isr says of the channels it disables: they are *)
(* enabled again when what caused the interrupt has been serviced.  Here   *)
(* every request is served at some time.                                   *)
ServingSpec == FairSpec /\ \A c \in Channels : WF_vars(RequestServed(c))

ChannelsReenabled ==
  \A c \in Channels :
    (isr = "disable" /\ c \in ch_irq \cap channel_int_enable)
      ~> (pc = "closed" \/ (isr = "idle" /\ c \in channel_int_enable))
=============================================================================
