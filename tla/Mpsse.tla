-------------------------------- MODULE Mpsse --------------------------------
(***************************************************************************)
(* How the OpenJTAG driver turns scans into MPSSE commands of the FT2232   *)
(* and the bytes that come back into a string of bits again: binstr2bytes  *)
(* and bytes2binstr (common/binarybuffer.cpp), the OpenJTAG_ functions     *)
(* (drivers/jtag/openjtag/openjtag_jtag.cpp), ft2232_predict_scan_in,      *)
(* ft2232_read_scan and ft2232_readID (drivers/ft2232/ft2232.cpp).         *)
(*                                                                         *)
(* A job is one use of the cable: a TAP movement, the CPU id, or an        *)
(* instruction and two data scans, the second of them read; the cable may  *)
(* have to be opened first, and it is closed in the end.  The commands go  *)
(* out one after the other to a TAP that is clocked bit by bit.  The       *)
(* parallel-port cables (PortCable) do the same jobs.                      *)
(***************************************************************************)
EXTENDS FtdiOpen, PortCable, Integers, FiniteSets

CONSTANTS
  Lengths,    \* numbers of cells of the boundary scan register
  MaxRun,     \* bytes one command may clock (65536)
  Cells       \* Cells[n]: the strings of n bits tried

ASSUME RunAssumption == MaxRun \in Nat \ {0} /\ Lengths \subseteq Nat \ {0}
ASSUME CellsAssumption == \A n \in Lengths : Cells[n] \subseteq [1 .. n -> Bit]

VARIABLES
  job,      \* what is being done
  cable,    \* whether it is open, the FT2232 of it, the byte at its port
  ops,      \* operations not yet encoded
  buffer,   \* ft2232_buffer: commands not yet executed
  dev,      \* the TAP
  received, \* bytes that came back
  expect,   \* ft2232_expect_read
  rdDR      \* the string the last read scan gave back
vars == <<job, cable, ops, buffer, dev, received, expect, rdDR>>

\* A byte is a function from its bits, least significant first.
Bits(value) == [b \in 0 .. 7 |-> (value \div (2 ^ b)) % 2]
ShiftRight(byte, k) == [b \in 0 .. 7 |-> IF b + k <= 7 THEN byte[b + k] ELSE 0]
Zero == Bits(0)

-----------------------------------------------------------------------------
(* tap_move and its index *)

Stable == {"TLR", "RTI", "SD", "PD", "SI", "PI"}
tap_move_map == [TLR |-> 1, RTI |-> 2, SD |-> 3, PD |-> 4, SI |-> 5, PI |-> 6]
tap_moveSlip ==                           \* a bug to be seen: PD's entry for PI -> SD
  << <<127,  0, 23, 10, 27, 22>>, <<127,  0, 37,  5, 43, 11>>,
     <<127, 49,  0,  1, 15, 47>>, <<127, 48, 32, 23, 30, 47>>,
     <<127, 49,  7, 23,  0,  1>>, <<127, 48, 30, 23, 32, 47>> >>
tap_move ==
  << <<127,  0, 23, 10, 27, 22>>,
     <<127,  0, 37,  5, 43, 11>>,
     <<127, 49,  0,  1, 15, 47>>,
     <<127, 48, 32, 23, 30, 47>>,
     <<127, 49,  7, 23,  0,  1>>,
     <<127, 48, 28, 23, 32, 47>> >>
TAP_MOVE(from, to) == Bits(tap_move[tap_move_map[from]][tap_move_map[to]])

-----------------------------------------------------------------------------
(* Strings of bits and bytes *)

NumBytes(n) == (n + 7) \div 8
binstr2bytes(str) ==
  [j \in 1 .. NumBytes(Len(str)) |->
     [b \in 0 .. 7 |-> IF 8 * (j - 1) + b + 1 <= Len(str) THEN str[8 * (j - 1) + b + 1]
                       ELSE 0]]
bytes2binstr(bytes, n) == [k \in 1 .. n |-> bytes[(k - 1) \div 8 + 1][(k - 1) % 8]]

-----------------------------------------------------------------------------
(* The commands: 0x4b/0x6b clock n bits into TMS with bit 7 on TDI, 0x19/0x39 *)
(* clock bytes, 0x1b/0x3b clock n bits of a byte.                             *)

Tms(byte, n, read) == [op |-> "tms", data |-> <<byte>>, n |-> n, read |-> read]
ClockBytes(bytes, read) == [op |-> "bytes", data |-> bytes, n |-> 8, read |-> read]
ClockBits(byte, n, read) == [op |-> "bits", data |-> <<byte>>, n |-> n, read |-> read]
WithTdi(byte, bit) == [byte EXCEPT ![7] = bit]

OpenJTAG_Reset == << Tms(TAP_MOVE("TLR", "TLR"), 7, FALSE) >>
OpenJTAG_RunTestIdle == OpenJTAG_Reset \o << Tms(TAP_MOVE("TLR", "RTI"), 7, FALSE) >>

OpenJTAG_ShiftIRState(wrIR) ==
  LET num == Len(wrIR)
      val == binstr2bytes(wrIR)[1]
  IN << Tms(TAP_MOVE("RTI", "SI"), 7, FALSE),
        ClockBits(val, num - 1, FALSE),
        Tms(WithTdi(TAP_MOVE("SI", "RTI"), val[num - 1]), 7, FALSE) >>

\* The complete bytes but the last, in commands of at most MaxRun bytes.
Run(num) == IF num > MaxRun + 1 THEN MaxRun ELSE num - 1
CompleteBytes(bytes, read) ==
  LET from[num \in 0 .. Len(bytes)] ==
        IF num <= 1 THEN <<>>
        ELSE LET done == Len(bytes) - num
             IN << ClockBytes(SubSeq(bytes, done + 1, done + Run(num)), read) >>
                \o from[num - Run(num)]
  IN from[Len(bytes)]

BitsLeft(n) == n - 8 * (NumBytes(n) - 1)
LastBitMissed(bytes, n) == bytes[NumBytes(n)][(n - 1) % 7]   \* a bug to be seen
LastBit(bytes, n) == bytes[NumBytes(n)][BitsLeft(n) - 1]
Remaining(n) == BitsLeft(n) > 1

\* ShiftDRState reads, ShiftDRStateNoTdo does not; otherwise they send the same.
OpenJTAG_ShiftDRState(wrDR, read) ==
  LET n == Len(wrDR)
      bytes == binstr2bytes(wrDR)
  IN << Tms(TAP_MOVE("RTI", "SD"), 7, FALSE) >>
     \o CompleteBytes(bytes, read)
     \o (IF Remaining(n) THEN << ClockBits(bytes[Len(bytes)], BitsLeft(n) - 1, read) >>
                         ELSE <<>>)
     \o << Tms(WithTdi(TAP_MOVE("SD", "RTI"), LastBit(bytes, n)), 7, read) >>

\* The IDCODE instruction, then straight on to Shift-DR, and back to reset.
IdBytes == [j \in 1 .. 4 |-> Bits(255)]
ft2232_readID ==
  OpenJTAG_Reset
  \o << Tms(TAP_MOVE("TLR", "SI"), 7, FALSE), ClockBits(Bits(6), 3, FALSE),
        Tms(WithTdi(Bits(7), 1), 5, FALSE), ClockBytes(IdBytes, TRUE),
        Tms(Bits(127), 7, FALSE) >>

-----------------------------------------------------------------------------
(* What comes back *)

\* Bits come in from the top of a byte: the first of n ends at bit 8 - n.
Arrived(bits) ==
  [b \in 0 .. 7 |-> IF b >= 8 - Len(bits) THEN bits[b - (8 - Len(bits)) + 1] ELSE 0]

PredictOneMore(n) ==                                             \* a bug to be seen
  (IF NumBytes(n) > 1 THEN NumBytes(n) - 1 ELSE 0) + (IF n % 8 # 0 THEN 1 ELSE 0) + 1
ft2232_predict_scan_in(n) ==
  (IF NumBytes(n) > 1 THEN NumBytes(n) - 1 ELSE 0)
  + (IF (n - 1) % 8 # 0 THEN 1 ELSE 0) + 1

TogetherUnshifted(rest, tms, left) ==                            \* a bug to be seen
  ShiftRight([b \in 0 .. 7 |-> IF b = 7 THEN tms[1] ELSE rest[b]], 8 - left)
\* All bytes but the last as they are; the last put together from the byte of
\* the remaining bits and the bit that came with the TMS movement.
Together(rest, tms, left) ==
  LET shifted == ShiftRight(rest, 1)
  IN ShiftRight([b \in 0 .. 7 |-> IF b = 7 THEN (IF tms[1] = 1 \/ shifted[7] = 1 THEN 1 ELSE 0)
                                  ELSE shifted[b]], 8 - left)
ft2232_read_scan(bytes, n) ==
  LET complete == NumBytes(n) - 1
      rest == IF BitsLeft(n) > 1 THEN bytes[complete + 1] ELSE Zero
      last == bytes[complete + 1 + (IF BitsLeft(n) > 1 THEN 1 ELSE 0)]
  IN SubSeq(bytes, 1, complete) \o << Together(rest, last, BitsLeft(n)) >>

-----------------------------------------------------------------------------
(* The machine *)

\* A use of the OpenJTAG that is open already; what a job adds to how it is come to.
Usual == [cable |-> "openjtag", build |-> "libftdi", highspeed |-> FALSE,
          opens |-> 0, found |-> Plugged, ports |-> {},
          kind |-> "none", from |-> "TLR", to |-> "TLR", float |-> 1, id |-> <<>>,
          first |-> <<>>, wr |-> <<>>, cells |-> <<>>]
Move(start, to) == [Usual EXCEPT !.kind = "move", !.from = start, !.to = to]
Id(start, id, float, u) ==
  [u EXCEPT !.kind = "id", !.from = start, !.id = id, !.float = float]
Scan(start, first, wr, cells, float, u) ==
  [u EXCEPT !.kind = "scan", !.from = start, !.first = first, !.wr = wr, !.cells = cells,
            !.float = float]

\* The ids of the CPUs the program knows, and others.
CPUIDs == { bytes2binstr([k \in 1 .. 4 |-> Bits(b[k])], 32) :
              b \in {<<157, 64, 50, 0>>, <<157, 80, 235, 0>>} }
IdCodes == CPUIDs \cup { [k \in 1 .. 32 |-> IF (k % 5) \in s THEN 1 ELSE 0] : s \in SUBSET (0 .. 2) }

\* How the program comes to an OpenJTAG, and to a cable on the first port found.
Opening(build, highspeed, found) ==
  [Usual EXCEPT !.build = build, !.highspeed = highspeed, !.opens = 1, !.found = found]
Port(name, opens, ports) == [Usual EXCEPT !.cable = name, !.opens = opens, !.ports = ports]
Openings == {Opening(b, h, f) : b \in {"libftdi", "ftd2xx"}, h \in BOOLEAN, f \in {Plugged, LeftOpen}}
OnPort(opens) == {Port(c, opens, p) : c \in {"dongle", "wiggler"}, p \in {{1}, {2, 3}}}
NoPort == Port("dongle", 1, {})
LoopedBack == Opening("libftdi", FALSE, LeftOpen)

Moves == {Move(s, t) : s \in Stable, t \in Stable}
Ids ==
  {Id(s, id, fl, u) : s \in TapState, id \in IdCodes, fl \in Bit, u \in Openings \cup {NoPort}}
  \cup {Id(s, id, fl, u) : s \in {"RTI", "SD", "PI"}, id \in IdCodes, fl \in Bit, u \in OnPort(2)}
\* Over an OpenJTAG left open in loopback, for a few n from every state of the TAP
\* and over the other cables.
Scans(n) ==
  {Scan("TLR", c, wr, c, fl, LoopedBack) : wr \in Cells[n], c \in Cells[n], fl \in Bit}
  \cup (IF n \in {1, 2, 8, 9}
        THEN {Scan(s, wr, wr, c, 1, Usual) : s \in TapState, wr \in Cells[n], c \in Cells[n]}
        ELSE {})
  \cup (IF n \in {1, 2, 9}
        THEN {Scan(s, c, wr, c, fl, u) : s \in {"RTI", "SD"}, wr \in Cells[n], c \in Cells[n],
                                         fl \in Bit, u \in OnPort(1)}
        ELSE {})
Jobs == Moves \cup Ids \cup UNION {Scans(n) : n \in Lengths}

\* Every image opens the cable and reads the id before it is programmed.
Begin(j) ==
  IF j.kind = "scan"
  THEN [k \in 1 .. j.opens |-> [op |-> "open"]]
       \o << [op |-> "idle"], [op |-> "ir", str |-> EXTEST],
             [op |-> "dr", str |-> j.first, read |-> FALSE],
             [op |-> "dr", str |-> j.wr, read |-> TRUE] >>
  ELSE IF j.kind = "id" THEN [k \in 1 .. 2 * j.opens |-> [op |-> IF k % 2 = 1 THEN "open" ELSE "id"]]
  ELSE << [op |-> "move"] >>

Found(j) == Device(j.from, IF j.kind = "scan" THEN j.cells ELSE <<0, 1>>,
                   IF j.kind = "id" THEN j.id ELSE [k \in 1 .. 32 |-> k % 2], j.float)
Configured == LET calls == ft2232_init("libftdi", FALSE)
              IN Calls([chip |-> Plugged, dev |-> Device("TLR", <<>>, <<>>, 1), rx |-> <<>>],
                       calls, {})[Len(calls)].chip

Init ==
  /\ job \in Jobs
  /\ ops = Begin(job)
  /\ cable = IF job.opens = 0 THEN [state |-> "open", chip |-> Configured, byte |-> 0]
             ELSE [state |-> "closed", chip |-> job.found, byte |-> 0]
  /\ dev = Found(job)
  /\ received = IF job.found = LeftOpen THEN << Bits(250), Bits(75) >> ELSE <<>>
  /\ buffer = <<>> /\ expect = 0 /\ rdDR = <<>>

Commands(o) ==
  CASE o.op = "move" -> << Tms(TAP_MOVE(job.from, job.to), 7, FALSE) >>
    [] o.op = "id" -> ft2232_readID
    [] o.op = "idle" -> OpenJTAG_RunTestIdle
    [] o.op = "ir" -> OpenJTAG_ShiftIRState(o.str)
    [] OTHER -> OpenJTAG_ShiftDRState(o.str, o.read)

Calling == ops # <<>> /\ buffer = <<>> /\ expect = 0
GivenUp == ops' = <<>>

\* JTAG_Open of the OpenJTAG: a call that fails and is checked ends the program;
\* where the id is read any call may fail.
OpenFt2232 ==
  /\ Calling /\ Head(ops).op = "open" /\ job.cable = "openjtag"
  /\ LET calls == ft2232_init(job.build, job.highspeed)
     IN \E made \in 0 .. Len(calls), lost \in Unseen(calls) :
          /\ job.kind = "id" \/ (made = Len(calls) /\ lost = {})
          /\ made < Len(calls) => calls[made + 1].checked
          /\ LET now == Calls([chip |-> cable.chip, dev |-> dev, rx |-> received], calls, lost)[made]
                 opened == made = Len(calls)
             IN /\ dev' = now.dev
                /\ received' = now.rx
                /\ cable' = [cable EXCEPT !.chip = now.chip,
                                         !.state = IF opened THEN "open" ELSE "failed"]
                /\ IF opened THEN ops' = Tail(ops) ELSE GivenUp
  /\ UNCHANGED <<job, buffer, expect, rdDR>>

\* JTAG_Open of the parallel-port cables: looks for a port the first time only.
OpenPpt ==
  /\ Calling /\ Head(ops).op = "open" /\ job.cable # "openjtag"
  /\ IF cable.state = "open" THEN ops' = Tail(ops) /\ UNCHANGED <<cable, dev>>
     ELSE IF GetValidPpt(job.ports) = 0
     THEN GivenUp /\ cable' = [cable EXCEPT !.state = "failed"] /\ UNCHANGED dev
     ELSE /\ ops' = Tail(ops)
          /\ dev' = OutputPpt(Pins(job.cable), cable.byte, Signature, dev)
          /\ cable' = [cable EXCEPT !.state = "open", !.byte = Signature]
  /\ UNCHANGED <<job, buffer, received, expect, rdDR>>

\* Their functions access the port one by one: buffer has what is still to do.
CallPort ==
  /\ Calling /\ Head(ops).op # "open" /\ job.cable # "openjtag"
  /\ LET o == Head(ops)
     IN /\ buffer' = IF job.cable = "dongle" THEN Dongle_opr(o) ELSE Wiggler_opr(o)
        /\ rdDR' = IF o.op \in {"id", "dr"} THEN <<>> ELSE rdDR
  /\ ops' = Tail(ops)
  /\ UNCHANGED <<job, cable, dev, received, expect>>
Access ==
  /\ buffer # <<>> /\ job.cable # "openjtag"
  /\ LET a == Head(buffer)
         byte == Byte(Pins(job.cable), a)
     IN \/ /\ a.get
           /\ rdDR' = Append(rdDR, InputPpt(dev))
           /\ UNCHANGED <<cable, dev>>
        \/ /\ ~a.get
           /\ dev' = OutputPpt(Pins(job.cable), cable.byte, byte, [dev EXCEPT !.tdo = <<>>])
           /\ cable' = [cable EXCEPT !.byte = byte]
           /\ UNCHANGED rdDR
  /\ buffer' = Tail(buffer)
  /\ UNCHANGED <<job, ops, received, expect>>

\* The OpenJTAG's functions put the operation's commands into the buffer.
Call ==
  /\ Calling /\ Head(ops).op # "open" /\ job.cable = "openjtag"
  /\ buffer' = Commands(Head(ops))
  /\ expect' = CASE Head(ops).op = "id" -> 4
                 [] Head(ops).op = "dr" /\ Head(ops).read -> ft2232_predict_scan_in(Len(job.wr))
                 [] OTHER -> 0
  /\ ops' = Tail(ops)
  /\ UNCHANGED <<job, cable, dev, received, rdDR>>

\* The FT2232 executes one command; in loopback TDI comes back in TDO's place.
TmsBits(c) == [k \in 1 .. c.n |-> c.data[1][k - 1]]
TmsTdi(c) == [k \in 1 .. c.n |-> c.data[1][7]]
DataBits(c) == [k \in 1 .. c.n * Len(c.data) |-> c.data[(k - 1) \div c.n + 1][(k - 1) % c.n]]
Execute ==
  /\ buffer # <<>> /\ job.cable = "openjtag"
  /\ LET c == Head(buffer)
         d == [dev EXCEPT !.tdo = <<>>]
         tms == IF c.op = "tms" THEN TmsBits(c) ELSE [k \in 1 .. c.n * Len(c.data) |-> 0]
         tdi == IF c.op = "tms" THEN TmsTdi(c) ELSE DataBits(c)
         after == IF Reaches(cable.chip) THEN Clocks(d, tms, tdi)
                  ELSE [d EXCEPT !.tdo = [k \in DOMAIN tms |-> d.float]]
         in == IF cable.chip.loopback THEN tdi ELSE after.tdo
         \* one byte back per byte of the command
         back == [j \in 1 .. Len(c.data) |-> Arrived(SubSeq(in, c.n * (j - 1) + 1, c.n * j))]
     IN /\ dev' = after
        /\ received' = IF c.read /\ cable.chip.mode = "mpsse" THEN received \o back ELSE received
  /\ buffer' = Tail(buffer)
  /\ UNCHANGED <<job, cable, ops, expect, rdDR>>

\* ft2232_read returns once as many bytes have come as were predicted.
Read ==
  /\ buffer = <<>> /\ expect > 0 /\ Len(received) >= expect
  /\ rdDR' = IF job.kind = "id" THEN bytes2binstr(received, 32)
             ELSE bytes2binstr(ft2232_read_scan(received, Len(job.wr)), Len(job.wr))
  /\ received' = SubSeq(received, expect + 1, Len(received))
  /\ expect' = 0
  /\ UNCHANGED <<job, cable, ops, buffer, dev>>

\* It gives up on bytes that do not come, and ft2232_readID takes for the id what
\* is in the buffer it wrote its commands into.
OwnCommands == << Bits(75), Bits(6), TAP_MOVE("TLR", "TLR"), Bits(75) >>
ReadFails ==
  /\ buffer = <<>> /\ expect > Len(received) /\ job.kind = "id"
  /\ rdDR' = bytes2binstr([k \in 1 .. 4 |-> IF k <= Len(received) THEN received[k]
                                            ELSE OwnCommands[k]], 32)
  /\ received' = <<>> /\ expect' = 0
  /\ UNCHANGED <<job, cable, ops, buffer, dev>>

\* The program ends: ft2232_quit, at the end of the last image.  The quit of the
\* other cables does nothing.
Finished == ops = <<>> /\ buffer = <<>> /\ expect = 0
Quit ==
  /\ Finished /\ cable.state = "open"
  /\ LET calls == IF job.cable = "openjtag" THEN ft2232_quit ELSE <<>>
     IN \E made \in 0 .. Len(calls) :
          /\ made < Len(calls) => calls[made + 1].checked
          /\ LET now == Calls([chip |-> cable.chip, dev |-> dev, rx |-> received], calls, {})[made]
             IN /\ dev' = now.dev
                /\ cable' = [cable EXCEPT !.chip = now.chip, !.state = "quit"]
  /\ UNCHANGED <<job, ops, buffer, received, expect, rdDR>>

Stay == Finished /\ cable.state \in {"failed", "quit"} /\ UNCHANGED vars
Next ==
  \/ OpenFt2232 \/ OpenPpt \/ CallPort \/ Access \/ Call \/ Execute \/ Read \/ ReadFails
  \/ Quit \/ Stay

Spec == Init /\ [][Next]_vars

-----------------------------------------------------------------------------
(* Properties *)

\* Every movement of the table ends in the state it is for, all seven clocks of
\* it, from any stable state to any other.
MovesArrive == job.kind = "move" /\ Finished /\ cable.state = "open" => dev.tap = job.to

\* Over every cable each data scan latches exactly its string, every bit once and
\* in order, whatever state the TAP and the cable were found in and whatever the
\* number of cells: whole bytes, remaining bits and the bit that goes out with the
\* TMS movement fit together; and the CPU whose pins are driven is not held in reset.
FrameLatched ==
  buffer = <<>> /\ job.kind = "scan" /\ cable.state = "open" =>
    /\ Len(ops) = 1 => dev.latch = job.first
    /\ Len(ops) = 0 => dev.latch = job.wr
    /\ Len(ops) <= 2 => dev.ir = EXTEST /\ ~SrstPulled(cable.chip)

\* What a read scan gives back are the cells as they were when it began, and what
\* the cable's readID gives back is the id, whatever TDO does while nothing is
\* shifted and whatever an earlier program left in the FT2232; if the FT2232 could
\* not be put into MPSSE mode, which one build does not look at, no CPU is seen.
CellsRead ==
  Finished /\ cable.state # "failed" =>
    /\ job.kind = "scan" => rdDR = job.cells
    /\ job.kind = "id" =>
         IF job.cable = "openjtag" /\ cable.chip.mode # "mpsse"
         THEN rdDR \notin CPUIDs ELSE rdDR = job.id

\* As many bytes come back as were predicted: none is left in the FT2232 to be
\* taken for the beginning of the next scan's reply, and the read does not wait
\* for one that never comes.
ReplyCounted ==
  buffer = <<>> /\ expect > 0 /\ cable.chip.mode = "mpsse" => Len(received) = expect
=============================================================================
