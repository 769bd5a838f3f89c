------------------------------ MODULE NandScan ------------------------------
(***************************************************************************)
(* Finding out which NAND chip is on the board, for every image anew:      *)
(* nand_init (drivers/nand/nand.cpp), nand_scan                            *)
(* (drivers/nand/nand_base.cpp) and the tables of drivers/nand/            *)
(* nand_ids.cpp.  What nand_chip[0] and nand_info[0] hold stays when the   *)
(* menu is left, and the board may be another one the next time.           *)
(*                                                                         *)
(* The signals of READID are NandCommand's.  The chip is external: it      *)
(* answers with its id bytes from the first one after every READID.        *)
(* Sizes of whole chips are in 512-byte units.                             *)
(***************************************************************************)
EXTENDS Integers, Sequences, FiniteSets

CONSTANTS
  Sockets,    \* what may be on the boards: chips, and NoChip
  MaxScans,   \* bound: images of the list
  eccmode     \* what board_nand_init asks for: "NONE" in this build

HwModes == {"HW3_256", "HW3_512", "HW6_512", "HW8_512", "HW12_2048"}
ASSUME EccAssumption == eccmode \in HwModes \cup {"NONE", "SOFT"}

VARIABLES
  socket,   \* the chip on the board
  nand,     \* nand_chip[0] and nand_info[0]
  at,       \* "main", the NAND "menu", or "back" when nothing was found
  scans     \* how many images there were
scanVars == <<socket, nand, at, scans>>

\* Without a chip nobody drives the lines.
NoChip == [id |-> <<255>>, tail |-> "wrap", known |-> FALSE, wide |-> FALSE]
NAND_MFR_SAMSUNG == \hEC

-----------------------------------------------------------------------------
(* nand_flash_ids: small pages, pages described by the extended id, and    *)
(* Renesas' AND chip.  By id: size in MiB and whether the bus has 16 bits. *)

Narrow(ids, mib) == [d \in ids |-> [mib |-> mib, wide |-> FALSE]]
Wide16(ids, mib) == [d \in ids |-> [mib |-> mib, wide |-> TRUE]]
Joined(fs) == [d \in UNION {DOMAIN f : f \in fs} |-> (CHOOSE f \in fs : d \in DOMAIN f)[d]]
SmallPages ==
  Joined({Narrow({\h33, \h73}, 16), Wide16({\h43, \h53}, 16),
          Narrow({\h35, \h75}, 32), Wide16({\h45, \h55}, 32),
          Narrow({\h36, \h76}, 64), Wide16({\h46, \h56}, 64),
          Narrow({\h78, \h79}, 128), Wide16({\h72, \h74}, 128), Narrow({\h71}, 256)})
ExtendedIds ==
  Joined({Narrow({\hA1, \hF1}, 128), Wide16({\hB1, \hC1}, 128),
          Narrow({\hAA, \hDA}, 256), Wide16({\hBA, \hCA}, 256),
          Narrow({\hAC, \hDC}, 512), Wide16({\hBC, \hCC}, 512), Narrow({\hD7}, 4096),
          Narrow({\h38, \hA3, \hD3}, 1024), Wide16({\hB3, \hC3}, 1024),
          Narrow({\hA5, \hD5}, 2048), Wide16({\hB5, \hC5}, 2048)})
AndChips == Narrow({\h01}, 128)
nand_flash_ids == Joined({SmallPages, ExtendedIds, AndChips})
LpOptions == {"NO_PADDING", "CACHEPRG", "COPYBACK"}
TableOptions(d) ==
  CASE d \in DOMAIN ExtendedIds -> LpOptions
    [] d \in DOMAIN AndChips -> {"IS_AND", "4PAGE_ARRAY"}
    [] OTHER -> {}

-----------------------------------------------------------------------------
(* The geometry *)

\* Byte k of the identification, k counted from 0.
IdByte(c, k) ==
  IF k < Len(c.id) THEN c.id[k + 1]
  ELSE IF c.tail = "wrap" THEN c.id[(k % Len(c.id)) + 1] ELSE 0

CellType(id_data) == (id_data[2] \div 4) % 4
NewNoWrap(id_data) ==                                                \* a bug to be seen
  id_data[0] = NAND_MFR_SAMSUNG /\ CellType(id_data) # 0 /\ id_data[5] # 0
\* "wraparound + Samsung ID + nonzero 6th byte"
NewStyle(id_data) ==
  /\ id_data[0] = id_data[6] /\ id_data[1] = id_data[7] /\ id_data[0] = NAND_MFR_SAMSUNG
  /\ CellType(id_data) # 0 /\ id_data[5] # 0

NewGeometry(ext) ==
  [page |-> 2048 * 2 ^ (ext % 4),
   oob |-> CASE (ext \div 4) % 4 = 1 -> 128
             [] (ext \div 4) % 4 = 2 -> 218
             [] (ext \div 4) % 4 = 3 -> 400
             [] OTHER -> 436,
   block |-> 131072 * 2 ^ (4 * ((ext \div 128) % 2) + ((ext \div 16) % 4)), wide |-> FALSE]
OldGeometry(ext) ==
  LET page == 1024 * 2 ^ (ext % 4)
  IN [page |-> page, oob |-> 8 * 2 ^ ((ext \div 4) % 2) * (page \div 512),
      block |-> 65536 * 2 ^ ((ext \div 16) % 4), wide |-> (ext \div 64) % 2 = 1]
TableGeometry(d) ==
  LET page == IF d \in DOMAIN AndChips THEN 2048 ELSE 512
  IN [page |-> page, oob |-> page \div 32, block |-> 16384, wide |-> nand_flash_ids[d].wide]
Geometry(id_data) ==
  IF id_data[1] \notin DOMAIN ExtendedIds THEN TableGeometry(id_data[1])
  ELSE IF NewStyle(id_data) THEN NewGeometry(id_data[3]) ELSE OldGeometry(id_data[3])

\* ffs(n) - 1 for a chip or page of n * 512 bytes: the low 32 bits of the size.
Log2(n) == CHOOSE k \in 0 .. 30 : 2 ^ k = n
LowWordShift(n) == IF n % 2 ^ 23 = 0 THEN -1 ELSE Log2(n) + 9
\* cellinfo is not set for a chip of the table: cell is then any value.
ChipShift(n, cell) == IF cell = 0 \/ n % 2 ^ 23 # 0 THEN LowWordShift(n) ELSE Log2(n) + 9

-----------------------------------------------------------------------------
(* Placement of spare bytes and ECC *)

Places(from, n) == {from + k : k \in 0 .. n - 1}
nand_oob_8 == [eccpos |-> {0, 1, 2}, oobfree |-> Places(3, 2) \cup Places(6, 2)]
nand_oob_16 == [eccpos |-> {0, 1, 2, 3, 6, 7}, oobfree |-> Places(8, 8)]
nand_oob_64 == [eccpos |-> Places(40, 24), oobfree |-> Places(2, 38)]
nand_oob_218 == nand_oob_64
NoPlacement == [eccpos |-> {}, oobfree |-> {}]
Placement(oob) ==
  CASE oob = 8 -> nand_oob_8
    [] oob = 16 -> nand_oob_16
    [] oob = 64 -> nand_oob_64
    [] OTHER -> nand_oob_218

EccMode(page) ==
  IF \/ eccmode = "HW12_2048" /\ page < 2048
     \/ eccmode \in {"HW3_512", "HW6_512", "HW8_512"} /\ page = 256
  THEN "SOFT" ELSE eccmode
EccSize(mode) ==
  CASE mode = "HW12_2048" -> 2048
    [] mode \in {"HW3_512", "HW6_512", "HW8_512"} -> 512
    [] OTHER -> 256
EccBytes(mode) ==
  CASE mode = "HW12_2048" -> 12
    [] mode = "HW8_512" -> 8
    [] mode = "HW6_512" -> 6
    [] OTHER -> 3
EccSteps(mode, page) == IF mode = "NONE" THEN 1 ELSE page \div EccSize(mode)

-----------------------------------------------------------------------------
(* nand_scan *)

\* What the pages and blocks of the chip imply, once its bus has the width
\* the board has.  Buffers and placement are those of the first chip found.
Found(n, d, g, cell, samsung) ==
  LET chipsize == nand_flash_ids[d].mib * 2048
      kept == IF d \in DOMAIN ExtendedIds /\ ~samsung THEN TableOptions(d) \ LpOptions
              ELSE TableOptions(d)
      placed == IF n.autooob = NoPlacement THEN Placement(g.oob) ELSE n.autooob
      mode == EccMode(g.page)
  IN [n EXCEPT
        !.page_shift = Log2(g.page), !.phys_erase_shift = Log2(g.block),
        !.chip_shift = ChipShift(chipsize, cell),
        !.badblockpos = IF g.page > 512 THEN 0 ELSE 5,
        !.options = kept \cup {"NO_AUTOINCR"},
        !.planes = IF "4PAGE_ARRAY" \in kept THEN 4 ELSE 1,
        !.largeCommands = @ \/ g.page > 512,
        !.oob_buf = IF @ = 0 THEN g.oob * (g.block \div g.page) ELSE @,
        !.data_buf = IF @ = 0 THEN g.page + g.oob ELSE @,
        !.numchips = 1, !.size = chipsize,
        !.pagemask = chipsize \div (g.page \div 512) - 1,
        !.autooob = placed, !.oobavail = g.oob - (Cardinality(placed.eccpos) + 1),
        !.eccmode = mode, !.eccsize = EccSize(mode), !.eccbytes = EccBytes(mode),
        !.eccsteps = EccSteps(mode, g.page), !.pagebuf = -1, !.ret = 0]

nand_scan(n, c, cell) ==
  LET id_data == [k \in 0 .. 7 |-> IdByte(c, k)]
      d == id_data[1]
      g == Geometry(id_data)
      told == [n EXCEPT !.name = IF @ = 0 THEN d ELSE @,
                        !.chipsize = nand_flash_ids[d].mib * 2048,
                        !.oobblock = g.page, !.oobsize = g.oob, !.erasesize = g.block]
  IN IF d \notin DOMAIN nand_flash_ids THEN [n EXCEPT !.ret = 1]
     ELSE IF g.wide THEN [told EXCEPT !.ret = 1]         \* the board has 8 bits
     ELSE Found(told, d, g, IF d \in DOMAIN ExtendedIds THEN CellType(id_data) ELSE cell,
                id_data[0] = NAND_MFR_SAMSUNG)

\* nand_init_chip: nothing is known by name of a chip that was not found.
nand_init(cell) ==
  LET found == nand_scan(nand, socket, cell)
  IN IF found.ret = 0 THEN found ELSE [found EXCEPT !.name = 0]

\* An image is for the NAND chip: the menu opens if nand_init counts any bytes.
Nand_Menu ==
  /\ at = "main" /\ scans < MaxScans
  /\ \E cell \in 0 .. 3 : nand' = nand_init(cell)
  /\ at' = IF nand'.size # 0 THEN "menu" ELSE "back"
  /\ scans' = scans + 1 /\ UNCHANGED socket

\* The next image of the list, perhaps for another board: the program asks for
\* what the list does not say, and opens the cable and reads the CPU's id again.
NextImage ==
  /\ at # "main" /\ scans < MaxScans
  /\ at' = "main" /\ socket' \in Sockets
  /\ UNCHANGED <<nand, scans>>

Unscanned ==
  [name |-> 0, chipsize |-> 0, oobblock |-> 0, oobsize |-> 0, erasesize |-> 0,
   page_shift |-> 0, phys_erase_shift |-> 0, chip_shift |-> 0, badblockpos |-> 0,
   options |-> {}, planes |-> 1, largeCommands |-> FALSE, oob_buf |-> 0, data_buf |-> 0,
   numchips |-> 0, size |-> 0, pagemask |-> 0, autooob |-> NoPlacement, oobavail |-> 0,
   eccmode |-> eccmode, eccsize |-> 0, eccbytes |-> 0, eccsteps |-> 0, pagebuf |-> 0,
   ret |-> 0]
ScanInit == socket \in Sockets /\ at = "main" /\ scans = 0 /\ nand = Unscanned
ScanNext == Nand_Menu \/ NextImage

-----------------------------------------------------------------------------
(* Properties *)

Addressed(c) ==
  /\ 2 ^ nand.page_shift = c.page /\ 2 ^ nand.phys_erase_shift = c.block
  /\ nand.pagemask + 1 = nand.size \div (c.page \div 512)
  /\ nand.chip_shift >= 9 /\ 2 ^ (nand.chip_shift - 9) = nand.size
OfThePage(c) ==
  /\ nand.largeCommands <=> c.page > 512
  /\ nand.data_buf >= c.page + c.oob /\ nand.oob_buf >= c.oob * (c.block \div c.page)
  /\ nand.badblockpos \notin nand.autooob.eccpos \cup nand.autooob.oobfree
  /\ c.oob = 16 \/ c.oob >= 64 => nand.autooob.eccpos \cup nand.autooob.oobfree \subseteq 0 .. c.oob - 1

\* A scan succeeds exactly with a chip of the table that has an 8-bit bus, and only
\* then does the menu open the first time.  Whichever board was served before, the
\* pages, spare bytes, blocks and size, and the shifts and the mask that every
\* later call takes them from, are then those of the chip's datasheet, however its
\* maker lays out the id: small pages, four or five bytes, Samsung's six.  The first
\* time the command set, the buffers and the places of spare bytes fit it too.
\* Only a single-level chip of 4 GiB is not addressed: its chip_shift is -1.
NandDescribed ==
  at # "main" =>
    /\ nand.ret = 0 <=> socket.known /\ ~socket.wide
    /\ scans = 1 => (at = "menu" <=> nand.ret = 0)
    /\ nand.ret = 0 =>
         /\ <<nand.oobblock, nand.oobsize, nand.erasesize>> = <<socket.page, socket.oob, socket.block>>
         /\ nand.size = socket.mib * 2048
         /\ ~(socket.mib = 4096 /\ socket.slc) => Addressed(socket)
         /\ scans = 1 => OfThePage(socket)
=============================================================================
