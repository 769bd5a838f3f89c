------------------------------- MODULE BusCycle -------------------------------
(***************************************************************************)
(* The bus cycles of s3c2410_mem_rdwr.cpp and its three siblings, which    *)
(* differ in pads only: how the data pads are turned round, which chip     *)
(* selects an address asserts and deasserts, how much of an address there  *)
(* is and how many lanes.                                                  *)
(*                                                                         *)
(* A cycle is the sequence of scans it makes.  en says that the bank has   *)
(* byte enables (en_nBE), bs is the set of lanes asked for.                *)
(***************************************************************************)
EXTENDS Pins

CONSTANTS In, Out,          \* the direction cells' values for input and output
          BusLanes,         \* the lanes of the bus
          AddrSpace,        \* the address pins tell this many addresses apart
          Asserted(_), Deasserted(_)   \* the banks whose chip select is moved

\* A bug to be seen by OneDriver: the data pads stay outputs after a write.
InputForgotten == Nothing
Input == Direction(BusLanes, In)
Output == Direction(BusLanes, Out)
Address(addr) == SetPins({ADDR}, addr % AddrSpace)
Select(addr) == SetPins({nCS(b) : b \in Asserted(addr)}, LOW)
\* A bug to be seen by AtRest: only the first of the chip selects is raised.
DeselectFirst(addr) == SetPins({nCS(0)}, HIGH)
Deselect(addr) == SetPins({nCS(b) : b \in Deasserted(addr)}, HIGH)
Enabled(bs) == SetPins({nBE(i) : i \in bs \cap BusLanes}, LOW)
Released(bytes) ==
  When(bytes > 1, SetPins({nBE(i) : i \in BusLanes \cap (0 .. bytes - 1)}, HIGH))
Opened(direction, addr) == direction ++ Address(addr) ++ Select(addr)

\* bytes: 1, 2 or 4, the width of the cycle.
ReadEnd(addr, bytes, en) ==
  << Sample(SetPins({nOE}, HIGH) ++ Deselect(addr) ++ When(en, Released(bytes))) >>
ReadFast(addr, bytes, en, bs) ==
  << Shift(Opened(Input, addr) ++ SetPins({nOE}, LOW) ++ When(en, Enabled(bs))) >>
  \o ReadEnd(addr, bytes, en)
ReadSlow(addr, bytes, en, bs) ==
  << Shift(Opened(Input, addr) ++ When(en, Enabled(bs))), Shift(SetPins({nOE}, LOW)) >>
  \o ReadEnd(addr, bytes, en)

WriteStrobe(addr, data, en, bs) ==
  << Shift(Opened(Output, addr) ++ SetPins({nWE}, LOW) ++ Enabled(bs) ++ SetData(data)),
     Shift(SetPins({nWE}, HIGH) ++ When(~en, Released(Len(data)))) >>
WriteEnd(direction, addr, data, en) ==
  << Shift(direction ++ Deselect(addr) ++ When(en, Released(Len(data)))) >>
WriteFast(addr, data, en, bs) ==
  WriteStrobe(addr, data, en, bs) \o WriteEnd(Input, addr, data, en)
\* A bug to be seen by StorageSpec: the data pads are turned round with the strobe.
WriteSlowNoHold(addr, data, en, bs) ==
  << Shift(Opened(Output, addr) ++ When(en, Enabled(bs)) ++ SetData(data)),
     Shift(When(~en, Enabled(bs)) ++ SetPins({nWE}, LOW)),
     Shift(Input ++ SetPins({nWE}, HIGH) ++ Deselect(addr) ++ Released(Len(data))) >>
WriteSlow(addr, data, en, bs) ==
  << Shift(Opened(Output, addr) ++ When(en, Enabled(bs)) ++ SetData(data)),
     Shift(When(~en, Enabled(bs)) ++ SetPins({nWE}, LOW)),
     Shift(SetPins({nWE}, HIGH) ++ When(~en, Released(Len(data)))) >>
  \o WriteEnd(Input, addr, data, en)

-----------------------------------------------------------------------------
(* The menu's transfers of n bytes on a bank of the given width: the scans,  *)
(* and the lanes the bytes are on; none when the bank is too narrow.         *)

LanesOf(addr, n, width) == {(addr % (width \div 8)) + k : k \in 0 .. n - 1}
Fits(n, width) == width \in {8, 16, 32} /\ 8 * n <= width
Refused == [scans |-> <<>>, lanes |-> {}]
ReadUnit(addr, n, width, en) ==
  IF Fits(n, width)
  THEN [scans |-> ReadSlow(addr, width \div 8, en /\ width > 8, LanesOf(addr, n, width)),
        lanes |-> LanesOf(addr, n, width)]
  ELSE Refused
\* The bytes are repeated on all lanes of the bank.
WriteUnit(addr, bytes, width, en) ==
  LET data == [i \in 1 .. width \div 8 |-> bytes[((i - 1) % Len(bytes)) + 1]]
      bs == IF width = 8 THEN {} ELSE LanesOf(addr, Len(bytes), width)
  IN IF Fits(Len(bytes), width)
     THEN [scans |-> WriteSlow(addr, data, en /\ width > 8, bs), lanes |-> bs]
     ELSE Refused
=============================================================================
