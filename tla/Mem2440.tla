------------------------------- MODULE Mem2440 -------------------------------
(***************************************************************************)
(* s3c2440_mem_rdwr.cpp and pin2440.cpp:                                   *)
(* the transfers of the S3C2440, whose bus is 32 bits wide.                *)
(***************************************************************************)
EXTENDS Pins

In == HIGH
Out == LOW
BusLanes == 0 .. 3
S2440_SetAddr == 2^27     \* what the address pins count up to

S2410_Addr2Bank(addr) == IF addr < \h40000000 THEN addr \div \h8000000 ELSE 0
S2410_Assert_nGCS(addr) == {b \in Banks : b = addr \div \h8000000}
S2410_Deassert_nGCS(addr) == {b \in Banks : b = addr \div \h8000000}

Cycle == INSTANCE BusCycle WITH
           AddrSpace <- S2440_SetAddr, Asserted <- S2410_Assert_nGCS, Deasserted <- S2410_Deassert_nGCS

PadCells == Cells
\* The cells are filled, read back from the pads and then set.
CellFill == HIGH
S2440_InitCell == Direction(BusLanes, In) ++ SetPins({BUS_CON}, Out) ++ SetPins(Strobes, HIGH)
JtagInit == << Extest >>

-----------------------------------------------------------------------------
(* The fast cycles: xxxQ without set-up time for the chip select, xxxQQ      *)
(* leaving the chip select asserted.                                         *)

MRW_Rd8Q(addr) == Cycle!ReadFast(addr, 1, FALSE, {})
MRW_Rd16Q(addr, en, bs) == Cycle!ReadFast(addr, 2, en, bs)
MRW_Rd32Q(addr, en, bs) == Cycle!ReadFast(addr, 4, en, bs)
MRW_Wr8Q(addr, data) == Cycle!WriteFast(addr, data, FALSE, {})
MRW_Wr8QQ(addr, data) == Cycle!WriteStrobe(addr, data, FALSE, {})
MRW_Wr16Q(addr, data, en, bs) == Cycle!WriteFast(addr, data, en, bs)
MRW_Wr16QQ(addr, data, en, bs) == Cycle!WriteStrobe(addr, data, en, bs)
MRW_Wr32Q(addr, data, en, bs) == Cycle!WriteFast(addr, data, en, bs)
MRW_Wr32QQ(addr, data, en, bs) == Cycle!WriteStrobe(addr, data, en, bs)

MRW_Rd8(addr) == Cycle!ReadSlow(addr, 1, FALSE, {})
MRW_Rd16(addr, en, bs) == Cycle!ReadSlow(addr, 2, en, bs)
MRW_Rd32(addr, en, bs) == Cycle!ReadSlow(addr, 4, en, bs)
MRW_Wr8(addr, data) == Cycle!WriteSlow(addr, data, FALSE, {})
MRW_Wr16(addr, data, en, bs) == Cycle!WriteSlow(addr, data, en, bs)
MRW_Wr32(addr, data, en, bs) == Cycle!WriteSlow(addr, data, en, bs)

\* What struct jtag_mem_rdwr offers the NOR driver.
MRW_Rd16Q_(addr) == MRW_Rd16Q(addr, FALSE, {0, 1})
MRW_Rd32_(addr) == MRW_Rd32(addr, FALSE, 0 .. 3)
MRW_Wr16QQ_(addr, data) == MRW_Wr16QQ(addr, data, FALSE, {0, 1})
MRW_Wr32_(addr, data) == MRW_Wr32(addr, data, FALSE, 0 .. 3)

-----------------------------------------------------------------------------
(* The transfers of the menu.                                                *)

MRW_RdByte(addr, width, en) == Cycle!ReadUnit(addr, 1, width, en)
MRW_RdHW(addr, width, en) == Cycle!ReadUnit(addr, 2, width, en)
MRW_RdWord(addr, width, en) == Cycle!ReadUnit(addr, 4, width, en)
MRW_WrByte(addr, data, width, en) == Cycle!WriteUnit(addr, data, width, en)
\* On a 32-bit bank it falls through and reports an error, when all is written.
MRW_WrHW(addr, data, width, en) == Cycle!WriteUnit(addr, data, width, en)
MRW_WrWord(addr, data, width, en) == Cycle!WriteUnit(addr, data, width, en)

\* The command line, which aligns the address it reads; data is <<>> for a read.
MRW_Menu(command, addr, data, width, en) ==
  CASE command = "rb" -> MRW_RdByte(addr, width, en)
    [] command = "rh" -> MRW_RdHW(addr - (addr % 2), width, en)
    [] command = "rw" -> MRW_RdWord(addr - (addr % 4), width, en)
    [] command = "wb" -> MRW_WrByte(addr, data, width, en)
    [] command = "wh" -> MRW_WrHW(addr - (addr % 2), data, width, en)
    [] command = "ww" -> MRW_WrWord(addr - (addr % 4), data, width, en)

\* struct jtag_mem_rdwr, by the width of the access.
jtag_mem_rdwr(addr, data, width) ==
  CASE data = <<>> /\ width = 8 -> MRW_Rd8(addr)
    [] data = <<>> /\ width = 16 -> MRW_Rd16Q_(addr)
    [] data = <<>> /\ width = 32 -> MRW_Rd32_(addr)
    [] data # <<>> /\ width = 8 -> MRW_Wr8(addr, data)
    [] data # <<>> /\ width = 16 -> MRW_Wr16QQ_(addr, data)
    [] data # <<>> /\ width = 32 -> MRW_Wr32_(addr, data)
\* The rest of the fast functions, static and called by nobody yet.
Unused(name, addr, data, width, en, bs) ==
  CASE data = <<>> /\ width = 8 -> MRW_Rd8Q(addr)
    [] data = <<>> /\ width = 16 -> MRW_Rd16Q(addr, en, bs)
    [] data = <<>> /\ width = 32 -> MRW_Rd32Q(addr, en, bs)
    [] data # <<>> /\ width = 8 /\ name = "Q" -> MRW_Wr8Q(addr, data)
    [] data # <<>> /\ width = 8 /\ name = "QQ" -> MRW_Wr8QQ(addr, data)
    [] data # <<>> /\ width = 16 /\ name = "Q" -> MRW_Wr16Q(addr, data, en, bs)
    [] data # <<>> /\ width = 16 /\ name = "QQ" -> MRW_Wr16QQ(addr, data, en, bs)
    [] data # <<>> /\ width = 32 /\ name = "Q" -> MRW_Wr32Q(addr, data, en, bs)
    [] data # <<>> /\ width = 32 /\ name = "QQ" -> MRW_Wr32QQ(addr, data, en, bs)
=============================================================================
