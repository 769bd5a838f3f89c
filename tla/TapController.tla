---------------------------- MODULE TapController ----------------------------
(***************************************************************************)
(* The JTAG TAP controller of the target CPU, clocked one TMS/TDI bit at a *)
(* time.  The state diagram is that of tap_state_transition                *)
(* (drivers/jtag/interface.cpp); what the registers do is IEEE 1149.1, the *)
(* part of the system at the other end of the cable.                       *)
(***************************************************************************)
EXTENDS Naturals, Sequences

Bit == {0, 1}

\* The level of the pin that has this weight in a byte written to a port.
Level(byte, weight) == (byte \div weight) % 2

TapState == {"TLR", "RTI", "SDS", "CD", "SD", "E1D", "PD", "E2D", "UD",
             "SIS", "CI", "SI", "E1I", "PI", "E2I", "UI"}
Shifting == {"SD", "SI"}

OnOne == [TLR |-> "TLR", RTI |-> "SDS", SDS |-> "SIS", CD |-> "E1D", SD |-> "E1D",
          E1D |-> "UD", PD |-> "E2D", E2D |-> "UD", UD |-> "SDS", SIS |-> "TLR",
          CI |-> "E1I", SI |-> "E1I", E1I |-> "UI", PI |-> "E2I", E2I |-> "UI",
          UI |-> "SDS"]
OnZero == [TLR |-> "RTI", RTI |-> "RTI", SDS |-> "CD", CD |-> "SD", SD |-> "SD",
           E1D |-> "PD", PD |-> "PD", E2D |-> "SD", UD |-> "RTI", SIS |-> "CI",
           CI |-> "SI", SI |-> "SI", E1I |-> "PI", PI |-> "PI", E2I |-> "SI",
           UI |-> "RTI"]
TapNext(state, tms) == IF tms = 1 THEN OnOne[state] ELSE OnZero[state]

IDCODE == <<0, 1, 1, 1>>           \* LSB ... MSB, the order they are clocked in
SAMPLE_PRELOAD == <<1, 1, 0, 0>>
EXTEST == <<0, 0, 0, 0>>

\* A device: controller state, instruction, shift register, what the last
\* Update-DR latched, the cells and the id a capture takes, and the TDO bits so
\* far.  `float' is what TDO reads as while nothing is shifted.
Device(state, cells, id, float) ==
  [tap |-> state, ir |-> IDCODE, sr |-> <<>>, latch |-> <<>>,
   cells |-> cells, id |-> id, float |-> float, tdo |-> <<>>]

\* TRST.
Reset(d) == [d EXCEPT !.tap = "TLR", !.ir = IDCODE]

\* One clock: shift in the state the clock finds, then act on the state it enters.
Clock(d, tms, tdi) ==
  LET shifts == d.tap \in Shifting /\ d.sr # <<>>
      to == TapNext(d.tap, tms)
      sr == IF shifts THEN Append(Tail(d.sr), tdi) ELSE d.sr
  IN [d EXCEPT
        !.tap = to,
        !.tdo = Append(@, IF shifts THEN Head(d.sr) ELSE d.float),
        !.sr = CASE to = "CD" -> IF d.ir = IDCODE THEN d.id ELSE d.cells
                 [] to = "CI" -> <<1, 0, 0, 0>>
                 [] OTHER -> sr,
        !.ir = CASE to = "TLR" -> IDCODE [] to = "UI" -> sr [] OTHER -> @,
        !.latch = IF to = "UD" /\ d.ir # IDCODE THEN sr ELSE @]

\* Clock in the bits of tms with the bits of tdi beside them.
Clocks(d, tms, tdi) ==
  LET after[k \in 0 .. Len(tms)] ==
        IF k = 0 THEN d ELSE Clock(after[k - 1], tms[k], tdi[k])
  IN after[Len(tms)]
=============================================================================
