------------------------------ MODULE PortCable ------------------------------
(***************************************************************************)
(* The two parallel-port cables: every TCK edge is a byte written to the   *)
(* port (drivers/jtag/dongle/dongle_jtag.cpp).  wiggler_jtag.cpp repeats   *)
(* it with the pins in other places.  A function is the sequence of port   *)
(* accesses it makes; finding the port is in drivers/jtag/dongle/ppt.cpp.  *)
(***************************************************************************)
EXTENDS TapController, SequencesExt

\* The weights of the pins in the byte at the port's base address.
Dongle == [TCK |-> 1, TDI |-> 2, TMS |-> 4]
Wiggler == [TMS |-> 2, TCK |-> 4, TDI |-> 8]
Pins(cable) == IF cable = "dongle" THEN Dongle ELSE Wiggler

\* JTAG_SET(TDI_.|TMS_.|TCK_.) and JTAG_GET_TDO()
SET(tdi, tms, tck) == [get |-> FALSE, tdi |-> tdi, tms |-> tms, tck |-> tck]
GET_TDO == [get |-> TRUE]

\* One clock: the byte with TCK low, then the same with TCK high.
Pulse(tdi, tms) == << SET(tdi, tms, 0), SET(tdi, tms, 1) >>
Pulses(tms) == FlattenSeq([k \in DOMAIN tms |-> Pulse(1, tms[k])])   \* TDI high

JTAG_Reset == Pulses(<<1, 1, 1, 1, 1, 1>>)
JTAG_RunTestldleState == JTAG_Reset \o Pulses(<<0, 0, 0>>)

\* The bits of str on TDI, TMS high with the last; TDO read after each if asked to.
Shift(str, read) ==
  FlattenSeq([k \in DOMAIN str |->
                Pulse(str[k], IF k = Len(str) THEN 1 ELSE 0)
                \o (IF read THEN << GET_TDO >> ELSE <<>>)])
JTAG_ShiftIRState(wrIR) == Pulses(<<1, 1, 0, 0>>) \o Shift(wrIR, FALSE) \o Pulses(<<1, 0>>)
JTAG_ShiftDRState(wrDR) == Pulses(<<1, 0, 0>>) \o Shift(wrDR, TRUE) \o Pulses(<<1, 0>>)
JTAG_ShiftDRStateNoTdo(wrDR) == Pulses(<<1, 0, 0>>) \o Shift(wrDR, FALSE) \o Pulses(<<1, 0>>)

\* The IDCODE instruction and a data scan without passing through Run-Test/Idle.
JTAG_ReadId ==
  JTAG_Reset \o Pulses(<<0, 0, 0, 0, 1, 1, 0, 0>>)
  \o Shift(IDCODE, FALSE) \o Pulses(<<1, 1, 0, 0>>)
  \o Shift([k \in 1 .. 32 |-> 1], TRUE) \o Pulses(<<1, 0, 0, 0>>)

-----------------------------------------------------------------------------
(* The operations of each cable (struct jtag_operations) *)

Dongle_opr(o) ==
  CASE o.op = "id" -> JTAG_ReadId
    [] o.op = "idle" -> JTAG_RunTestldleState
    [] o.op = "ir" -> JTAG_ShiftIRState(o.str)
    [] o.op = "dr" /\ o.read -> JTAG_ShiftDRState(o.str)
    [] o.op = "dr" /\ ~o.read -> JTAG_ShiftDRStateNoTdo(o.str)

Wiggler_JTAG_Reset == Pulses([k \in 1 .. 6 |-> 1])
Wiggler_JTAG_RunTestldleState == Wiggler_JTAG_Reset \o Pulses(<<0, 0, 0>>)
Wiggler_JTAG_ShiftIRState(wrIR) == JTAG_ShiftIRState(wrIR)
Wiggler_JTAG_ShiftDRState(wrDR) == JTAG_ShiftDRState(wrDR)
Wiggler_JTAG_ShiftDRStateNoTdo(wrDR) == JTAG_ShiftDRStateNoTdo(wrDR)
Wiggler_JTAG_ReadId == JTAG_ReadId
Wiggler_opr(o) ==
  CASE o.op = "id" -> Wiggler_JTAG_ReadId
    [] o.op = "idle" -> Wiggler_JTAG_RunTestldleState
    [] o.op = "ir" -> Wiggler_JTAG_ShiftIRState(o.str)
    [] o.op = "dr" /\ o.read -> Wiggler_JTAG_ShiftDRState(o.str)
    [] o.op = "dr" /\ ~o.read -> Wiggler_JTAG_ShiftDRStateNoTdo(o.str)

-----------------------------------------------------------------------------
(* The port *)

\* The first of the ports that reads back what was written to it; 0 if none does.
GetValidPpt(ports) == IF ports = {} THEN 0 ELSE CHOOSE p \in ports : \A q \in ports : p <= q
Signature == 85    \* 0x55, written to every port tried: the pins of the cable move with it

\* The TAP when byte comes to the port in the place of was: a rising TCK clocks it.
Byte(pins, a) == a.tdi * pins.TDI + a.tms * pins.TMS + a.tck * pins.TCK
OutputPpt(pins, was, byte, dev) ==
  IF Level(was, pins.TCK) = 0 /\ Level(byte, pins.TCK) = 1
  THEN Clock(dev, Level(byte, pins.TMS), Level(byte, pins.TDI)) ELSE dev

\* STATUS7 is TDO inverted, and is inverted again when it is read.
STATUS7(dev) == 1 - Last(dev.tdo)
InputPpt(dev) == IF STATUS7(dev) = 1 THEN 0 ELSE 1
=============================================================================
