------------------------------- MODULE FtdiOpen -------------------------------
(***************************************************************************)
(* Opening and closing the FT2232 of the OpenJTAG cable                    *)
(* (drivers/ft2232/ft2232.cpp): ft2232_init with the layout `jtagkey', the *)
(* only one the program ever asks for, over libftdi or over FTD2XX, and    *)
(* ft2232_quit.  A function is the sequence of calls it makes of the USB   *)
(* library; each is checked, and a failure ends the sequence, or it is not.*)
(***************************************************************************)
EXTENDS TapController

Usb(call) == [call |-> call, checked |-> TRUE]
Unchecked(c) == [c EXCEPT !.checked = FALSE]
\* ft2232_write of one MPSSE command: a value for the pins and their directions
SetLow(out, dir) == [call |-> "low", checked |-> TRUE, out |-> out, dir |-> dir]
SetHigh(out, dir) == [call |-> "high", checked |-> TRUE, out |-> out, dir |-> dir]

\* The pins of the low byte and, on the cable, of the high byte.  The outputs
\* nTRST and nSRST reach the target while their nOE is low.
Low == [TCK |-> 1, TDI |-> 2, TDO |-> 4, TMS |-> 8, nOE |-> 16]
nTRST == 1
nSRST == 2
nTRSTnOE == 4
nSRSTnOE == 8

ft2232_init_libftdi ==
  << Usb("init"), Usb("interface"), Usb("open"), Usb("reset"), Usb("latency"),
     Usb("get_latency"), Unchecked(Usb("bitmode")) >>
ft2232_init_ftd2xx ==
  << Usb("open"), Usb("eeprom"), Usb("manufacturer"), Usb("latency"), Usb("get_latency"),
     Usb("timeouts"), Usb("bitmode"), Usb("info") >>

\* TRST is pulled for a second, SRST is not.
jtagkey_init ==
  << SetLow(Low.TMS, Low.TCK + Low.TDI + Low.TMS + Low.nOE),
     SetHigh(nSRSTnOE + nSRST, 15),
     SetHigh(nTRST + nSRSTnOE, 15) >>

\* The clock: of ft2232_speed ft2232_init does not look at the result.
ft2232h_ft4232h_adaptive_clocking == << Unchecked(Usb("adaptive")) >>
ft2232h_ft4232h_clk_divide_by_5 == << Usb("divide_by_5") >>
ft2232_speed(highspeed) ==
  (IF highspeed THEN ft2232h_ft4232h_adaptive_clocking ELSE <<>>)
  \o << Unchecked(Usb("divisor")) >>

ft2232_init(build, highspeed) ==
  (IF build = "libftdi" THEN ft2232_init_libftdi ELSE ft2232_init_ftd2xx)
  \o jtagkey_init
  \o (IF highspeed THEN ft2232h_ft4232h_clk_divide_by_5 ELSE <<>>)
  \o ft2232_speed(highspeed)
  \o << Usb("loopback_off"), Usb("purge") >>

\* TRST and SRST are pulled for a second; then the device is closed.
ft2232_quit == << SetHigh(0, 15), SetHigh(15, 15), Unchecked(Usb("close")) >>

-----------------------------------------------------------------------------
(* The FT2232 on the cable *)

Chip(mode, loopback, low, lowDir, high, highDir) ==
  [mode |-> mode, loopback |-> loopback, low |-> low, lowDir |-> lowDir,
   high |-> high, highDir |-> highDir]

\* As found: just plugged in, or as an earlier program left it.
Plugged == Chip("serial", FALSE, 0, 0, 0, 0)
LeftOpen == Chip("mpsse", TRUE, Low.TCK + Low.TMS + Low.nOE, 31, 0, 15)

\* A reset line is pulled when its output and its enable are driven low.
Pulled(chip, line, enable) ==
  /\ chip.mode = "mpsse"
  /\ Level(chip.highDir, line) = 1 /\ Level(chip.highDir, enable) = 1
  /\ Level(chip.high, line) = 0 /\ Level(chip.high, enable) = 0
TrstPulled(chip) == Pulled(chip, nTRST, nTRSTnOE)
SrstPulled(chip) == Pulled(chip, nSRST, nSRSTnOE)

\* TCK and TMS of the FT2232 get to the TAP.
Reaches(chip) ==
  /\ chip.mode = "mpsse" /\ ~TrstPulled(chip)
  /\ \A pin \in {Low.TCK, Low.TDI, Low.TMS, Low.nOE} : Level(chip.lowDir, pin) = 1
  /\ Level(chip.lowDir, Low.TDO) = 0
  /\ Level(chip.low, Low.nOE) = 0

\* What a call that succeeds does; an MPSSE command in another mode does nothing.
Effect(chip, c) ==
  CASE c.call = "reset" -> [chip EXCEPT !.mode = "serial"]
    [] c.call = "bitmode" -> [chip EXCEPT !.mode = "mpsse", !.lowDir = 11]
    [] c.call = "low" /\ chip.mode = "mpsse" -> [chip EXCEPT !.low = c.out, !.lowDir = c.dir]
    [] c.call = "high" /\ chip.mode = "mpsse" -> [chip EXCEPT !.high = c.out, !.highDir = c.dir]
    [] c.call = "loopback_off" /\ chip.mode = "mpsse" -> [chip EXCEPT !.loopback = FALSE]
    [] OTHER -> chip

\* The chip, the TAP and the bytes waiting to be read after each call.  The calls
\* whose numbers are in lost fail unseen; TRST puts the TAP into reset.
Calls(start, calls, lost) ==
  LET after[k \in 0 .. Len(calls)] ==
        IF k = 0 THEN start
        ELSE LET was == after[k - 1]
                 chip == IF k \in lost THEN was.chip ELSE Effect(was.chip, calls[k])
             IN [chip |-> chip,
                 dev |-> IF TrstPulled(chip) THEN Reset(was.dev) ELSE was.dev,
                 rx |-> IF calls[k].call = "purge" THEN <<>> ELSE was.rx]
  IN after

\* The numbers of calls that may fail unseen; the divisor is not sent when the
\* call before it in ft2232_speed failed.
Unseen(calls) ==
  { lost \in SUBSET {k \in DOMAIN calls : ~calls[k].checked} :
      \A k \in lost : calls[k].call = "adaptive" => k + 1 \in lost }
=============================================================================
