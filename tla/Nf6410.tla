-------------------------------- MODULE Nf6410 --------------------------------
(***************************************************************************)
(* drivers/nand/s3c6410.cpp: the NAND controller functions of the S3C6410. *)
(* The chip is on Xm0CSn2; all 16 data pads are turned round, and a        *)
(* command leaves them outputs.  JtagInit also resets the chip.            *)
(***************************************************************************)
EXTENDS Pins

NandSelect == nCS(2)
Input == Direction({0, 1}, LOW)
Output == Direction({0, 1}, HIGH)

Cycle(own, other, byte, after) ==
  << Shift(Output ++ SetPins({nCS(2), nFWE, other}, LOW)
           ++ SetPins({nFRE, own}, HIGH) ++ SetData(<<byte>>)),
     Shift(SetPins({nFWE}, HIGH)),
     Shift(SetPins({own}, LOW) ++ after) >>
NF_CMD(cmd) == Cycle(CLE, ALE, cmd, Output)
NF_ADDR(addr) == Cycle(ALE, CLE, addr, Input)
NF_nFCE_L == << Shift(SetPins({nCS(2)}, LOW) ++ SetPins({BUS_CON}, HIGH)) >>
NF_nFCE_H == << Shift(SetPins({nCS(2)}, HIGH)) >>
NF_RDDATA == << Shift(Input ++ SetPins({nFRE}, LOW)), Sample(SetPins({nFRE}, HIGH)) >>
NF_WRDATA(data) ==
  << Shift(Output ++ SetPins({nFWE}, LOW) ++ SetData(<<data>>)), Shift(SetPins({nFWE}, HIGH)) >>
NF_READY == << Await(HIGH) >>

CONSTANTS RESET, READ_1_1      \* the chip's commands
NF_Reset == NF_nFCE_L \o NF_CMD(RESET) \o NF_READY \o NF_nFCE_H
NF_Init == NF_Reset \o NF_CMD(READ_1_1)
JtagInit == << Extest >> \o NF_Init
\* The pins JtagInit sets before NF_Init's first scan.
JtagInitPins == SetPins({NF_CON, CLE, ALE, BUS_CON}, HIGH)

\* What nand_base.cpp is given for the S3C6410, by the call it makes.
s3c6410_nand_select_chip(chip) == IF chip = -1 THEN NF_nFCE_H ELSE NF_nFCE_L
s3c6410_nand_devready == NF_READY
s3c6410_nand_hwcontrol(line, byte) ==
  CASE line = "CLE" -> NF_CMD(byte) [] line = "ALE" -> NF_ADDR(byte) [] OTHER -> NF_WRDATA(byte)
Controller(c) ==
  CASE c.call = "select" -> s3c6410_nand_select_chip(c.byte)
    [] c.call = "ready" -> s3c6410_nand_devready
    [] c.call = "read" -> NF_RDDATA
    [] OTHER -> s3c6410_nand_hwcontrol(c.call, c.byte)
=============================================================================
