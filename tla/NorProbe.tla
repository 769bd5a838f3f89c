------------------------------ MODULE NorProbe ------------------------------
(***************************************************************************)
(* Finding out which NOR chip is on the board: flash_init with             *)
(* flash_detect_legacy and flash_get_size (drivers/nor/cfi_flash.cpp) and  *)
(* the probing and describing of drivers/nor/jedec_flash.cpp.              *)
(*                                                                         *)
(* The chip is external: a state machine that commands written to its      *)
(* cells drive, and that answers reads with its contents, its ids or its   *)
(* CFI query.  It may be left in any of these by an earlier session.       *)
(***************************************************************************)
EXTENDS JedecTable, FiniteSetsExt, SequencesExt

CONSTANTS
  CfiChips,   \* chips that are not in the table, some with a CFI query
  Contents,   \* what the cells the probe looks at may hold
  CFG_MAX_FLASH_SECT

ASSUME SectorsAssumption == CFG_MAX_FLASH_SECT \in Nat \ {0}

VARIABLES
  board,   \* the chip, the width of its data bus in bytes, the chips side by side,
           \* and what the lines carry that nobody drives
  mode,    \* mode[l]: what chip l does
  pc,      \* "begin", "amd", "intel", "cfi", "describe", "done"
  try,     \* next index of uaddr
  info     \* flash_info[0]
probeVars == <<board, mode, pc, try, info>>

AMD_CMD_RESET == \hF0
AMD_CMD_UNLOCK_START == \hAA
AMD_CMD_UNLOCK_ACK == \h55
FLASH_CMD_RESET == \hFF
FLASH_CMD_READ_ID == \h90
FLASH_CMD_CFI == \h98
flash_offset_cfi == <<\h55, \h555>>
QRY == [offset \in \h10 .. \h12 |-> <<81, 82, 89>>[offset - 15]]     \* Q, R, Y
IntelSets == {1, 3, 512}
AmdSets == {2, 4}
CFG_FLASH_CFI_PORT_WIDTH == 2     \* FLASH_CFI_16BIT, whatever the board
CFG_FLASH_CFI_CHIP_WIDTH == 2
FLASH_CFI_X16 == 1
FLASH_CFI_X8X16 == 2
FLASH_CFI_X16X32 == 5

-----------------------------------------------------------------------------
(* The chip *)

NoQuery == [p_id |-> 0]
Speaks(c) == c.query # NoQuery

\* How many address bits take part in an unlock address.
Decoded == [U0555_02AA |-> 2048, U0555_0AAA |-> 4096, U5555_2AAA |-> 32768,
            U0AAA_0555 |-> 4096]
Unlocks(c, cell, k) ==
  c.unlock \in DOMAIN Decoded => cell % Decoded[c.unlock] = unlock_addrs[c.unlock][k]

AmdObeys(c, m, cell, cmd) ==
  CASE cmd = AMD_CMD_RESET -> "read"
    [] cmd = AMD_CMD_UNLOCK_START /\ m = "read" /\ Unlocks(c, cell, 1) -> "u1"
    [] cmd = AMD_CMD_UNLOCK_ACK /\ m = "u1" /\ Unlocks(c, cell, 2) -> "u2"
    [] cmd = FLASH_CMD_READ_ID /\ m = "u2" /\ Unlocks(c, cell, 1) -> "id"
    [] cmd = FLASH_CMD_CFI /\ m = "read" /\ Speaks(c) /\ cell % 256 = \h55 -> "cfi"
    [] m \in {"u1", "u2"} -> "read"
    [] OTHER -> m
IntelObeys(c, m, cmd) ==
  CASE cmd = FLASH_CMD_RESET -> "read"
    [] cmd = FLASH_CMD_READ_ID -> "id"
    [] cmd = FLASH_CMD_CFI /\ Speaks(c) -> "cfi"
    [] OTHER -> m
Obeys(c, m, cell, cmd) == IF c.amd THEN AmdObeys(c, m, cell, cmd) ELSE IntelObeys(c, m, cmd)

Answer(c, m, cell) ==
  CASE m = "id" -> IF cell = 0 THEN c.mfr ELSE IF cell = 1 THEN c.dev ELSE 0
    [] m = "cfi" -> IF cell \in DOMAIN QRY THEN QRY[cell] ELSE 0
    [] OTHER -> board.contents

-----------------------------------------------------------------------------
(* Commands and reads of a port: flash_map, flash_make_cmd and the accesses *)

Cell(i, offset) == (offset * i.portwidth) \div board.width

\* Byte k of the command word: the command once per chip, zero above it.
flash_make_cmd(i, cmd, k) == IF k < i.portwidth /\ k % i.chipwidth = 0 THEN cmd ELSE 0

\* No 64-bit write goes out.
flash_write_cmd(m, i, offset, cmd) ==
  IF i.portwidth > 4 THEN m
  ELSE [l \in DOMAIN m |->
          Obeys(board.chip, m[l], Cell(i, offset), flash_make_cmd(i, cmd, l - 1))]

\* The bytes of a read.
BusByte(m, i, offset, k) ==
  LET at(l) == Answer(board.chip, m[l], Cell(i, offset))
  IN CASE k = 0 -> at(1) % 256
       [] k = 1 /\ Len(m) = 2 -> at(2) % 256
       [] k = 1 /\ Len(m) = 1 /\ board.width = 2 -> at(1) \div 256
       [] OTHER -> board.undriven
flash_read_uchar(m, i, offset) == BusByte(m, i, offset, 0)
flash_read_word(m, i, offset) == BusByte(m, i, offset, 0) + 256 * BusByte(m, i, offset, 1)
flash_isequal(m, i, offset, cmd) ==
  i.portwidth <= 4 /\ \A k \in 0 .. i.portwidth - 1 :
                        BusByte(m, i, offset, k) = flash_make_cmd(i, cmd, k)

flash_unlock_seq(m, i) ==
  flash_write_cmd(flash_write_cmd(m, i, i.addr_unlock1, AMD_CMD_UNLOCK_START),
                  i, i.addr_unlock2, AMD_CMD_UNLOCK_ACK)

-----------------------------------------------------------------------------
(* Reading the ids: the chip afterwards and what was read *)

AmdIdMode(m, i) ==
  flash_write_cmd(flash_unlock_seq(flash_write_cmd(m, i, 0, AMD_CMD_RESET), i),
                  i, i.addr_unlock1, FLASH_CMD_READ_ID)
cmdset_amd_read_jedec_ids(m, i) ==
  LET id == AmdIdMode(m, i)
  IN [mode |-> flash_write_cmd(id, i, 0, AMD_CMD_RESET),
      mfr |-> flash_read_uchar(id, i, 0),
      dev |-> CASE i.chipwidth = 1 -> flash_read_uchar(id, i, 1)
                [] i.chipwidth = 2 -> flash_read_word(id, i, 1)
                [] OTHER -> i.device_id]
cmdset_intel_read_jedec_ids(m, i) ==
  LET id == flash_write_cmd(flash_write_cmd(m, i, 0, FLASH_CMD_RESET),
                            i, 0, FLASH_CMD_READ_ID)
  IN [mode |-> flash_write_cmd(id, i, 0, FLASH_CMD_RESET),
      mfr |-> flash_read_uchar(id, i, 0), dev |-> flash_read_uchar(id, i, 1)]
\* device_id is a word, zeroed before it is read.
flash_read_jedec_ids(m, i) ==
  LET zeroed == [i EXCEPT !.manufacturer_id = 0, !.device_id = 0]
  IN CASE i.vendor \in IntelSets -> cmdset_intel_read_jedec_ids(m, zeroed)
       [] i.vendor \in AmdSets -> cmdset_amd_read_jedec_ids(m, zeroed)
       [] OTHER -> [mode |-> m, mfr |-> 0, dev |-> 0]

-----------------------------------------------------------------------------
(* Sectors *)

\* Starts of the sectors of a sequence of regions, the first CFG_MAX_FLASH_SECT.
Starts(regions) ==
  LET base[r \in 0 .. Len(regions)] ==
        IF r = 0 THEN 0 ELSE base[r - 1] + regions[r].size * regions[r].count
      from[r \in 0 .. Len(regions)] ==
        IF r = 0 THEN <<>>
        ELSE from[r - 1]
             \o [j \in 1 .. Min({regions[r].count, CFG_MAX_FLASH_SECT - Len(from[r - 1])}) |->
                   base[r - 1] + (j - 1) * regions[r].size]
  IN from[Len(regions)]
Total(regions) ==
  LET sum[r \in 0 .. Len(regions)] ==
        IF r = 0 THEN 0 ELSE sum[r - 1] + regions[r].size * regions[r].count
  IN sum[Len(regions)]
Sectors(regions) == FoldSeq(LAMBDA region, n : region.count + n, 0, regions)
Scaled(regions, ratio) == [r \in DOMAIN regions |-> [regions[r] EXCEPT !.size = @ * ratio]]

-----------------------------------------------------------------------------
(* jedec_flash_match and fill_info *)

Mask(i) == IF i.chipwidth = 1 THEN 256 ELSE 65536
Matches(i) ==
  {n \in 1 .. Len(jedec_table) :
     /\ jedec_table[n].mfr_id % Mask(i) = i.manufacturer_id % Mask(i)
     /\ jedec_table[n].dev_id % Mask(i) = i.device_id % Mask(i)}

Region(region) == [size |-> region \div 256, count |-> (region % 256) + 1]

UnlockByteWide(entry, i) == unlock_addrs[entry.uaddr[1]]        \* a bug to be seen
UnlockOf(entry, i) == unlock_addrs[entry.uaddr[i.chipwidth]]

fill_info(i, entry) ==
  LET regions == [r \in 1 .. entry.NumEraseRegions |-> Region(entry.regions[r])]
      ratio == i.portwidth \div i.chipwidth
  IN [i EXCEPT !.vendor = entry.CmdSet, !.name = entry.name,
               !.addr_unlock1 = UnlockOf(entry, i)[1], !.addr_unlock2 = UnlockOf(entry, i)[2],
               !.start = Starts(Scaled(regions, ratio)), !.size = Total(regions) * ratio]

\* One probe: read the ids and look them up.
Probe(i) ==
  LET ids == flash_read_jedec_ids(mode, i)
      told == [i EXCEPT !.manufacturer_id = ids.mfr, !.device_id = ids.dev]
  IN /\ mode' = ids.mode
     /\ IF Matches(told) # {}
          THEN /\ info' = [fill_info(told, jedec_table[Min(Matches(told))]) EXCEPT !.found = TRUE]
               /\ pc' = "done" /\ UNCHANGED try
          ELSE CASE pc = "amd" /\ try < Len(uaddr) ->
                      try' = try + 1 /\ info' = told /\ UNCHANGED pc
                 [] pc = "amd" /\ try = Len(uaddr) ->
                      pc' = "intel" /\ info' = told /\ UNCHANGED try
                 [] OTHER -> \* flash_detect_cfi starts with the narrowest
                      /\ pc' = "cfi" /\ UNCHANGED try
                      /\ info' = [told EXCEPT !.portwidth = 1, !.chipwidth = 1]

-----------------------------------------------------------------------------
(* flash_detect_legacy *)

Begin ==
  /\ pc = "begin"
  /\ info' = [info EXCEPT !.portwidth = CFG_FLASH_CFI_PORT_WIDTH,
                          !.chipwidth = CFG_FLASH_CFI_CHIP_WIDTH, !.interface = FLASH_CFI_X16]
  /\ pc' = "amd" /\ UNCHANGED <<board, mode, try>>

\* jedec_flash_probe, as an AMD chip, with one pair of unlock addresses.
ProbeAmd ==
  /\ pc = "amd"
  /\ Probe([info EXCEPT !.vendor = P_ID.AMD_STD,
                        !.addr_unlock1 = unlock_addrs[uaddr[try]][1],
                        !.addr_unlock2 = unlock_addrs[uaddr[try]][2]])
  /\ UNCHANGED board
ProbeIntel ==
  /\ pc = "intel"
  /\ Probe([info EXCEPT !.vendor = P_ID.INTEL_STD])
  /\ UNCHANGED board

-----------------------------------------------------------------------------
(* flash_detect_cfi: every width of the port, every width of the chips in it *)

\* The chips after the query command to the first and then to the second offset.
Queried(i) ==
  LET reset == flash_write_cmd(flash_write_cmd(mode, i, 0, AMD_CMD_RESET), i, 0, FLASH_CMD_RESET)
      first == flash_write_cmd(reset, i, flash_offset_cfi[1], FLASH_CMD_CFI)
  IN <<first, flash_write_cmd(first, i, flash_offset_cfi[2], FLASH_CMD_CFI)>>
Answers(m, i) == \A offset \in DOMAIN QRY : flash_isequal(m, i, offset, QRY[offset])

Compatibility(i) == \/ i.chipwidth = 1 /\ i.interface = FLASH_CFI_X8X16
                    \/ i.chipwidth = 2 /\ i.interface = FLASH_CFI_X16X32

Wider(i) ==
  IF i.chipwidth < i.portwidth THEN [i EXCEPT !.chipwidth = 2 * @]
  ELSE [i EXCEPT !.portwidth = 2 * @, !.chipwidth = 1]

\* One pair of widths: then the next, or the description of the chip that answered.
\* After the last the port width is left past the widest.
DetectCfi ==
  /\ pc = "cfi"
  /\ LET m == Queried(info)
         answered == {k \in 1 .. 2 : Answers(m[k], info)}
         k == Min(answered)
         told == [info EXCEPT !.interface = board.chip.query.interface,
                              !.cfi_offset = flash_offset_cfi[k]]
     IN IF answered = {}
          THEN /\ info' = Wider(info) /\ mode' = m[2]
               /\ pc' = IF info'.portwidth > 8 THEN "done" ELSE "cfi"
          ELSE /\ mode' = m[k] /\ pc' = "describe"
               /\ info' = [told EXCEPT
                    !.addr_unlock1 = IF Compatibility(told) THEN \hAAA ELSE \h555,
                    !.addr_unlock2 = IF Compatibility(told) THEN \h555 ELSE \h2AA]
  /\ UNCHANGED <<board, try>>

-----------------------------------------------------------------------------
(* The rest of flash_get_size *)

Reverse4(regions) == [r \in DOMAIN regions |-> regions[Len(regions) + 1 - r]]

\* flash_fixup_amd and flash_fixup_atmel: is the query's list upside down?
ExtSays(m, value) == \A l \in DOMAIN m : m[l] = "cfi" /\ value
TopByFlagOnly(q, i, m) == ExtSays(m, q.top)                     \* a bug to be seen
flash_fixup_amd(q, i, m) ==
  /\ Len(q.regions) > 1
  /\ IF q.version < \h3131 THEN (i.device_id \div 128) % 2 = 1 ELSE ExtSays(m, q.top)
flash_fixup_atmel(q, m) == q.version > 0 /\ ExtSays(m, q.top)
Fixup(q, i, m) ==
  CASE i.manufacturer_id = 1 -> flash_fixup_amd(q, i, m)
    [] i.manufacturer_id = \h1F -> flash_fixup_atmel(q, m)
    [] OTHER -> FALSE

CfiRegion(region) ==
  [size |-> IF region.units = 0 THEN 128 ELSE region.units * 256, count |-> region.less1 + 1]
\* Chips side by side, but not an x8/x16 chip read as bytes.
SizeRatio(i) ==
  (i.portwidth \div i.chipwidth) \div (IF i.interface = FLASH_CFI_X8X16 /\ i.chipwidth = 1
                                       THEN 2 ELSE 1)

Describe ==
  /\ pc = "describe"
  /\ LET q == board.chip.query
         intel == q.p_id \in IntelSets
         i == [info EXCEPT !.vendor = q.p_id]
         ids == flash_read_jedec_ids(mode, i)
         m == flash_write_cmd(ids.mode, i, i.cfi_offset, FLASH_CMD_CFI)
         named == [i EXCEPT !.manufacturer_id = ids.mfr, !.device_id = ids.dev, !.name = "CFI",
                            !.cmd_reset = IF intel THEN FLASH_CMD_RESET ELSE AMD_CMD_RESET]
         listed == IF Fixup(q, named, m) THEN Reverse4(q.regions) ELSE q.regions
         start == Starts(Scaled([r \in DOMAIN listed |-> CfiRegion(listed[r])], SizeRatio(i)))
     IN IF q.p_id \notin IntelSets \cup AmdSets
          THEN info' = i /\ mode' = flash_write_cmd(mode, i, 0, FLASH_CMD_RESET)
          ELSE /\ info' = [named EXCEPT
                    !.start = start, !.size = 2 ^ q.dev_size * SizeRatio(i),
                    !.buffer_size = 2 ^ q.max_buf_write_size, !.found = TRUE,
                    !.portwidth = IF i.interface = FLASH_CFI_X8X16 /\ i.chipwidth = 1
                                  THEN @ \div 2 ELSE @,
                    !.protect = {s \in 1 .. Len(start) :
                                   intel /\ \A l \in DOMAIN m : m[l] = "cfi"
                                         /\ s \in board.chip.locked}]
               /\ mode' = flash_write_cmd(m, named, 0, named.cmd_reset)
  /\ pc' = "done" /\ UNCHANGED <<board, try>>

-----------------------------------------------------------------------------
(* The boards *)

\* Chips of the table with 16 data lines; the others have 8.
Wide(e) == e.dev_id > 255 \/ e.uaddr[2] # "NOT_SUPPORTED"
TableChip(e) ==
  LET width == IF Wide(e) THEN 2 ELSE 1
      unlock == IF e.uaddr[width] = "NOT_SUPPORTED" THEN e.uaddr[1] ELSE e.uaddr[width]
  IN [amd |-> e.CmdSet \notin IntelSets, mfr |-> e.mfr_id, dev |-> e.dev_id,
      unlock |-> unlock, query |-> NoQuery, locked |-> {},
      regions |-> [r \in DOMAIN e.regions |-> Region(e.regions[r])]]

\* A chip of 16 lines on a bus of 16; one of 8 alone on a bus of 8, or two of them
\* side by side on a bus of 16.
Soldered(e) ==
  IF Wide(e) THEN {[width |-> 2, lanes |-> 1]}
  ELSE {[width |-> 1, lanes |-> 1], [width |-> 2, lanes |-> 2]}

Boards ==
  UNION {{[width |-> w.width, lanes |-> w.lanes, contents |-> v, undriven |-> u,
           entry |-> jedec_table[n].name, chip |-> TableChip(jedec_table[n])] :
            w \in Soldered(jedec_table[n]), v \in Contents, u \in {0, 255}} :
         n \in 1 .. Len(jedec_table)}
  \cup {[width |-> c.width, lanes |-> c.lanes, contents |-> v, undriven |-> u,
         entry |-> "none", chip |-> c.chip] : c \in CfiChips, v \in Contents, u \in {0, 255}}

NoInfo ==
  [vendor |-> 0, portwidth |-> 0, chipwidth |-> 0, manufacturer_id |-> 0,
   device_id |-> 0, addr_unlock1 |-> 0, addr_unlock2 |-> 0, name |-> "none",
   start |-> <<>>, size |-> 0, buffer_size |-> 0, interface |-> 0,
   cfi_offset |-> 0, cmd_reset |-> 0, protect |-> {}, found |-> FALSE]
ProbeInit ==
  /\ board \in Boards
  /\ \E m \in {"read", "id", "cfi"} :
       /\ m = "cfi" => Speaks(board.chip)
       /\ mode = [l \in 1 .. board.lanes |-> m]
  /\ pc = "begin" /\ try = 1 /\ info = NoInfo

ProbeNext == Begin \/ ProbeAmd \/ ProbeIntel \/ DetectCfi \/ Describe

-----------------------------------------------------------------------------
(* Properties *)

InTable == board.entry # "none"
Pair == InTable /\ board.lanes = 2
Driven(c) == Speaks(c) /\ c.query.p_id \in IntelSets \cup AmdSets

\* Whatever state the chip was left in, and whatever is in its cells: the probe of the
\* ids supposes one chip of 16 lines on every board, and a chip of the table that is
\* one is found as itself, at whichever of the unlock addresses it answers; a chip of 8
\* lines alone on a bus of 8 is not found.  A chip that answers the CFI query with a
\* command set the driver has is found by that, of whatever width; nothing else is
\* taken for a chip.  The unlock addresses that are kept open every AMD chip found.
\* Of two chips of 8 lines side by side the probe sees the first with a cell of the
\* second above it.  Intel ones are taken for one chip, as only a byte of the id is
\* read; AMD ones are not found unless that cell holds 0, and then as one chip too.
Recognised ==
  pc = "done" =>
    /\ ~Pair => info.found = ((InTable /\ board.width = 2) \/ Driven(board.chip))
    /\ Pair /\ ~board.chip.amd => info.found
    /\ Pair /\ info.found => ~board.chip.amd \/ board.contents % 256 = 0
    /\ InTable /\ info.found => info.name = board.entry
    /\ ~Pair /\ info.found /\ info.vendor \in AmdSets =>
         flash_unlock_seq([l \in DOMAIN mode |-> "read"], info) = [l \in DOMAIN mode |-> "u2"]

\* The sectors and the size that are kept are the chip's, times the chips that answer
\* the CFI query side by side, region by region from the bottom up and with a CFI
\* chip that lists them upside down turned round; and the locked sectors are those of
\* the chip.  A pair taken for one chip, a chip with more sectors than flash_info_t
\* has room for, and the entry of the table that lists two regions and counts one
\* (AT29LV512) are not kept whole.
Described ==
  pc = "done" /\ info.found /\ ~Pair =>
    LET regions == Scaled(board.chip.regions, board.lanes)
    IN Sectors(regions) <= CFG_MAX_FLASH_SECT /\ board.entry # "AT29LV512" =>
         /\ info.start = Starts(regions) /\ info.size = Total(regions)
         /\ info.protect = board.chip.locked
=============================================================================
