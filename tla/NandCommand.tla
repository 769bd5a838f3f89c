------------------------------ MODULE NandCommand ------------------------------
(***************************************************************************)
(* What nand_base.cpp asks of a NAND controller: the operations on one     *)
(* page, spare area or block as sequences of the controller's calls.       *)
(*                                                                         *)
(* g is the chip found by nand_scan: large pages or small ones, and how    *)
(* many pages.  An address byte counts up to RADIX, where the code's counts *)
(* to 256; a small page is two such halves and a spare area.               *)
(***************************************************************************)
EXTENDS Integers, Sequences

CONSTANT RADIX
ASSUME RadixAssumption == RADIX \in Nat /\ RADIX > 1

READ0 == 0        READ1 == 1        READOOB == 80     READSTART == 48
SEQIN == 128      PAGEPROG == 16    ERASE1 == 96      ERASE2 == 208
STATUS == 112     RESET == 255      READID == 144

oobblock(g) == IF g.large THEN 2 ELSE 2 * RADIX
oobsize == 2
badblockpos(g) == IF g.large THEN 0 ELSE 1
PagesPerBlock == 2
Blank == 255

NF(call, bytes) == [i \in 1 .. Len(bytes) |-> [call |-> call, byte |-> bytes[i]]]
NF_CMD(command) == NF("CLE", <<command>>)
NF_ADDR(bytes) == NF("ALE", bytes)
dev_ready == NF("ready", <<0>>)
select_chip == NF("select", <<0>>)
nand_release_device == NF("select", <<-1>>)
read_buf(len) == NF("read", [i \in 1 .. len |-> 0])
write_buf(bytes) == NF("data", bytes)

\* The row address, with a third byte for chips that need one.
Row(g, page) ==
  << page % RADIX, (page \div RADIX) % RADIX >>
  \o IF g.pages > RADIX * RADIX THEN << (page \div (RADIX * RADIX)) % RADIX >> ELSE <<>>
NoAddress == -1
Waits(command) ==
  IF command \in {PAGEPROG, ERASE1, ERASE2, SEQIN, STATUS} THEN <<>> ELSE dev_ready

RowIfAny(g, page) == IF page = NoAddress THEN <<>> ELSE Row(g, page)
\* A write is preceded by the read command of the area it starts in.
nand_command(g, command, column, page) ==
  LET area == IF column >= oobblock(g) THEN [read |-> READOOB, from |-> oobblock(g)]
              ELSE IF column < RADIX THEN [read |-> READ0, from |-> 0]
              ELSE [read |-> READ1, from |-> RADIX]
      from == IF command = SEQIN THEN area.from ELSE 0
  IN (IF command = SEQIN THEN NF_CMD(area.read) ELSE <<>>)
     \o NF_CMD(command)
     \o NF_ADDR((IF column = NoAddress THEN <<>> ELSE <<column - from>>) \o RowIfAny(g, page))
     \o Waits(command)
nand_command_lp(g, command, column, page) ==
  LET spare == command = READOOB
      sent == IF spare THEN READ0 ELSE command
      at == IF spare THEN column + oobblock(g) ELSE column
  IN NF_CMD(sent)
     \o NF_ADDR((IF at = NoAddress THEN <<>> ELSE <<at % RADIX, at \div RADIX>>) \o RowIfAny(g, page))
     \o (IF sent = READ0 THEN NF_CMD(READSTART) ELSE <<>>)
     \o Waits(sent)
cmdfunc(g, command, column, page) ==
  IF g.large THEN nand_command_lp(g, command, column, page)
  ELSE nand_command(g, command, column, page)
nand_wait(g) == cmdfunc(g, STATUS, NoAddress, NoAddress) \o dev_ready \o read_buf(1)

-----------------------------------------------------------------------------
\* The first operation of a NAND session; the chip counts as small until then.
\* All the identification's bytes are read, two of them twice.
IdBytes == 3
nand_scan(g) ==
  select_chip \o nand_command(g, READID, 0, NoAddress) \o read_buf(2)
  \o nand_command(g, READID, 0, NoAddress) \o read_buf(IdBytes) \o nand_release_device

\* n whole pages from the first one: nand_scan forbids what chips can do to pass
\* from one page to the next, so each takes a command.
nand_read_ecc(g, page, n) ==
  LET OnePage(p) == cmdfunc(g, READ0, 0, p) \o read_buf(oobblock(g)) \o read_buf(oobsize) \o dev_ready
      each == Len(OnePage(page))
  IN select_chip
     \o [i \in 1 .. n * each |-> OnePage(page + ((i - 1) \div each))[((i - 1) % each) + 1]]
     \o nand_release_device

\* Spare bytes of one page, and of the page after it when there are more.
nand_read_oob(g, page, column, len) ==
  LET first == IF len < oobsize - column THEN len ELSE oobsize - column
      rest == len - first
  IN select_chip \o cmdfunc(g, READOOB, column, page) \o read_buf(first) \o dev_ready
     \o (IF rest = 0 THEN <<>>
         ELSE cmdfunc(g, READOOB, 0, page + 1) \o read_buf(rest) \o dev_ready)
     \o nand_release_device

nand_block_bad(g, block) ==
  select_chip \o cmdfunc(g, READOOB, badblockpos(g), block * PagesPerBlock)
  \o read_buf(1) \o dev_ready \o nand_release_device

nand_write_page(g, page, bytes, oob) ==
  cmdfunc(g, SEQIN, 0, page) \o write_buf(bytes) \o write_buf(oob)
  \o cmdfunc(g, PAGEPROG, NoAddress, NoAddress) \o nand_wait(g)
nand_write_ecc(g, page, bytes, oob) ==
  select_chip \o nand_write_page(g, page, bytes, oob) \o nand_release_device

\* Chips that are not Samsung's large ones get the spare area padded.
nand_write_oob(g, page, column, bytes) ==
  LET pad(n) == [i \in 1 .. n |-> Blank]
      from == IF g.large THEN column ELSE 0
      padded == IF g.large THEN bytes
                ELSE pad(column) \o bytes \o pad(oobsize - (Len(bytes) + column))
  IN select_chip \o cmdfunc(g, RESET, NoAddress, NoAddress)
     \o cmdfunc(g, SEQIN, oobblock(g) + from, page) \o write_buf(padded)
     \o cmdfunc(g, PAGEPROG, NoAddress, NoAddress) \o nand_wait(g) \o nand_release_device

single_erase_cmd(g, page) ==
  cmdfunc(g, ERASE1, NoAddress, page) \o cmdfunc(g, ERASE2, NoAddress, NoAddress)
nand_erase_nand(g, block) ==
  select_chip \o single_erase_cmd(g, block * PagesPerBlock) \o nand_wait(g) \o nand_release_device
=============================================================================
