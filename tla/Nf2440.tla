-------------------------------- MODULE Nf2440 --------------------------------
(***************************************************************************)
(* drivers/nand/s3c2440.cpp: the NAND controller functions of the S3C2440, *)
(* each as the scans it makes.                                             *)
(***************************************************************************)
EXTENDS Pins

NandSelect == nFCE
JtagInit == << Extest >>
\* The pins JtagInit leaves to be sent by the next scan.
JtagInitPins == SetPins({NF_CON, CLE, ALE}, LOW)

Cycle(own, other, byte) ==
  << Shift(Direction({0}, LOW) ++ SetPins({nFCE, nFWE, other}, LOW)
           ++ SetPins({nFRE, own}, HIGH) ++ SetData(<<byte>>)),
     Shift(SetPins({nFWE}, HIGH)),
     Shift(SetPins({own}, LOW) ++ Direction({0}, HIGH)) >>
NF_CMD(cmd) == Cycle(CLE, ALE, cmd)
NF_ADDR(addr) == Cycle(ALE, CLE, addr)
NF_nFCE_L == << Shift(SetPins({NF_CON, nFCE}, LOW)) >>
NF_nFCE_H == << Shift(SetPins({nFCE}, HIGH)) >>
NF_RDDATA == << Shift(Direction({0}, HIGH) ++ SetPins({nFRE}, LOW)), Sample(SetPins({nFRE}, HIGH)) >>
NF_WRDATA(data) ==
  << Shift(Direction({0}, LOW) ++ SetPins({nFWE}, LOW) ++ SetData(<<data>>)),
     Shift(SetPins({nFWE}, HIGH)) >>
\* A bug to be seen by OpsReturn: the ready pad is waited for at the wrong level.
NF_READY_LOW == << Await(LOW) >>
NF_READY == << Await(HIGH) >>

\* What nand_base.cpp is given for the S3C2440, by the call it makes.
s3c2440_nand_select_chip(chip) == IF chip = -1 THEN NF_nFCE_H ELSE NF_nFCE_L
s3c2440_nand_devready == NF_READY
s3c2440_nand_hwcontrol(line, byte) ==
  CASE line = "CLE" -> NF_CMD(byte) [] line = "ALE" -> NF_ADDR(byte) [] OTHER -> NF_WRDATA(byte)
Controller(c) ==
  CASE c.call = "select" -> s3c2440_nand_select_chip(c.byte)
    [] c.call = "ready" -> s3c2440_nand_devready
    [] c.call = "read" -> NF_RDDATA
    [] OTHER -> s3c2440_nand_hwcontrol(c.call, c.byte)
=============================================================================
