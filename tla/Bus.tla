--------------------------------- MODULE Bus ---------------------------------
(***************************************************************************)
(* The boundary scan cells of one of four CPUs drive the pads of its       *)
(* memory bus and its NAND controller.  A session of the memory menu, of   *)
(* the NOR driver or of the MTD layer sets the cells, makes its calls scan *)
(* by scan, and leaves.  The chips on the board see pads, nothing else.    *)
(***************************************************************************)
EXTENDS Pins, NandChip, FiniteSets

CONSTANTS
  Sessions,       \* for each CPU, the kinds of session: "memory", "nor", "fast" (nobody's
                  \* yet) and "nand"
  Follows,        \* which follow which, as pairs, when calls were made
  Board,          \* for each CPU, the devices: bank -> [width, type]
  Units,          \* for each CPU, where the menu reads and writes: <<command, bank, offset>>
  Settings,       \* what the menu's bs command sets: <<bank, width, has byte enables>>
  Geometries,     \* for each CPU, the NAND chips: [large, pages]
  Pages,          \* for each CPU, the pages the NAND operations are about
  MaxCalls,       \* for each CPU, the calls of a behaviour
  MaxSessions

\* The S3C2450 and the S3C6410 have six chip selects, and the former no NAND functions.
ASSUME BoardAssumption ==
  /\ DOMAIN Board \subseteq {"S3C2410", "S3C2440", "S3C2450", "S3C6410"}
  /\ \A c \in DOMAIN Board :
       /\ DOMAIN Board[c] \subseteq (IF c \in {"S3C2410", "S3C2440"} THEN 0 .. 7 ELSE 0 .. 5)
       /\ \A b \in DOMAIN Board[c] : Board[c][b].width \in {8, 16, 32}
       /\ Sessions[c] \subseteq {"memory", "nor", "fast"} \cup {s \in {"nand"} : c # "S3C2450"}
       /\ Units[c] \subseteq {"rb", "rh", "rw", "wb", "wh", "ww"} \X Nat \X Nat

NoRequest == [kind |-> "none"]
Cpus == DOMAIN Board
M2410 == INSTANCE Mem2410
M2440 == INSTANCE Mem2440
M2450 == INSTANCE Mem2450
M6410 == INSTANCE Mem6410
N2410 == INSTANCE Nf2410
N2440 == INSTANCE Nf2440
N6410 == INSTANCE Nf6410 WITH READ_1_1 <- READ0

VARIABLES
  cpu, g,         \* the CPU, and the NAND chip's geometry
  session,        \* the kind of session
  out,            \* outCellValue
  latch,          \* the cells' update latches: what the pads carry in EXTEST
  extest,         \* the instruction is EXTEST
  scans,          \* the scans of the current call still to be made
  calls,          \* the NAND controller calls still to be made
  lanes,          \* the lanes the current call reads, in order
  answer,         \* what was read so far
  request,        \* what the current call is for
  bankWidth, bank_nBE,
  store,          \* the bytes of the memory devices and of the NAND chip
  chip,           \* the NAND chip
  made, opened    \* calls and sessions so far

pads == <<out, latch, extest>>
vars == <<cpu, g, session, pads, scans, calls, lanes, answer, request, bankWidth, bank_nBE,
          store, chip, made, opened>>

-----------------------------------------------------------------------------
(* The CPU at hand.                                                          *)

In == IF cpu \in {"S3C2410", "S3C2440"} THEN HIGH ELSE LOW
Out == HIGH - In
CellFill ==
  CASE cpu = "S3C2410" -> M2410!CellFill [] cpu = "S3C2440" -> M2440!CellFill
    [] cpu = "S3C2450" -> M2450!CellFill [] cpu = "S3C6410" -> M6410!CellFill
PadCells ==
  CASE cpu = "S3C2410" -> M2410!PadCells [] cpu = "S3C2440" -> M2440!PadCells
    [] cpu = "S3C2450" -> M2450!PadCells [] cpu = "S3C6410" -> M6410!PadCells
InitCell ==
  CASE cpu = "S3C2410" -> M2410!S2410_InitCell [] cpu = "S3C2440" -> M2440!S2440_InitCell
    [] cpu = "S3C2450" -> M2450!S2450_InitCell [] cpu = "S3C6410" -> M6410!S6410_InitCell
MRW_JtagInit ==
  CASE cpu = "S3C2410" -> M2410!JtagInit [] cpu = "S3C2440" -> M2440!JtagInit
    [] cpu = "S3C2450" -> M2450!JtagInit [] cpu = "S3C6410" -> M6410!JtagInit
Addr2Bank(addr) ==
  CASE cpu = "S3C2410" -> M2410!S2410_Addr2Bank(addr) [] cpu = "S3C2440" -> M2440!S2410_Addr2Bank(addr)
    [] cpu = "S3C2450" -> M2450!S2450_RAddr2Bank(addr) [] cpu = "S3C6410" -> M6410!S6410_RAddr2Bank(addr)
MRW_Menu(command, addr, data, width, en) ==
  CASE cpu = "S3C2410" -> M2410!MRW_Menu(command, addr, data, width, en)
    [] cpu = "S3C2440" -> M2440!MRW_Menu(command, addr, data, width, en)
    [] cpu = "S3C2450" -> M2450!MRW_Menu(command, addr, data, width, en)
    [] cpu = "S3C6410" -> M6410!MRW_Menu(command, addr, data, width, en)
jtag_mem_rdwr(addr, data, width) ==
  CASE cpu = "S3C2410" -> M2410!jtag_mem_rdwr(addr, data, width)
    [] cpu = "S3C2440" -> M2440!jtag_mem_rdwr(addr, data, width)
    [] cpu = "S3C2450" -> M2450!jtag_mem_rdwr(addr, data, width)
    [] cpu = "S3C6410" -> M6410!jtag_mem_rdwr(addr, data, width)
Unused(name, addr, data, width, en, bs) ==
  CASE cpu = "S3C2410" -> M2410!Unused(name, addr, data, width, en, bs)
    [] cpu = "S3C2440" -> M2440!Unused(name, addr, data, width, en, bs)
    [] cpu = "S3C2450" -> M2450!Unused(name, addr, data, width, en, bs)
    [] cpu = "S3C6410" -> M6410!Unused(name, addr, data, width, en, bs)

\* The pins JtagInit sets without a scan, and the scans it makes.
NandInit ==
  CASE cpu = "S3C2410" -> <<N2410!JtagInitPins, N2410!JtagInit>>
    [] cpu = "S3C2440" -> <<N2440!JtagInitPins, N2440!JtagInit>>
    [] cpu = "S3C6410" -> <<N6410!JtagInitPins, N6410!JtagInit>>
NandScans(c) ==
  CASE cpu = "S3C2410" -> N2410!Controller(c) [] cpu = "S3C2440" -> N2440!Controller(c)
    [] cpu = "S3C6410" -> N6410!Controller(c)
NandSelect == IF cpu = "S3C6410" THEN N6410!NandSelect ELSE nFCE

-----------------------------------------------------------------------------
(* The board: what its chips do on the pads of a latch, and as the pads      *)
(* change from one latch to the next.                                        *)

BusDriven(l) == extest /\ l[BUS_CON] = Out
CpuDrives(l, lane) == extest /\ DATA(lane) \in PadCells /\ l[DATA_CON(lane)] = Out
Devices == DOMAIN Board[cpu]
Selected(l, bank) == BusDriven(l) /\ l[nCS(bank)] = LOW
\* A device's lane is written while its write strobe is LOW: nWE, or nWBE.
Written(l, bank, lane) ==
  /\ Selected(l, bank)
  /\ CASE Board[cpu][bank].type = "nWBE" -> l[nBE(lane)] = LOW
       [] Board[cpu][bank].type = "nBE" -> l[nWE] = LOW /\ l[nBE(lane)] = LOW
       [] OTHER -> l[nWE] = LOW
Read(l, bank, lane) ==
  /\ Selected(l, bank) /\ l[nOE] = LOW /\ ~Written(l, bank, lane)
  /\ Board[cpu][bank].type = "nBE" => l[nBE(lane)] = LOW
Bytes(bank) == Board[cpu][bank].width \div 8
PlaceAt(bank, addr, lane) == <<bank, (addr % 2^27) \div Bytes(bank), lane>>
\* A write ends well if the data and the address are held until the strobe rises.
Taken(l, next, lane) ==
  IF l[ADDR] = next[ADDR] /\ CpuDrives(l, lane) /\ CpuDrives(next, lane) /\ l[DATA(lane)] = next[DATA(lane)]
  THEN l[DATA(lane)] ELSE Junk
Ended(l, next) ==
  {u \in Devices \X Lanes : u[2] < Bytes(u[1]) /\ Written(l, u[1], u[2]) /\ ~Written(next, u[1], u[2])}
AfterScan(l, next) ==
  LET written == {PlaceAt(u[1], l[ADDR], u[2]) : u \in Ended(l, next)}
  IN [p \in written |-> Taken(l, next, p[3])] @@ store

NandDriven(l) == extest /\ (cpu = "S3C2410" \/ l[NF_CON] = Out) /\ (cpu = "S3C6410" => BusDriven(l))
NandListens(l) == NandDriven(l) /\ l[NandSelect] = LOW
NandDrives(l) == NandListens(l) /\ l[nFRE] = LOW
Rises(l, next, strobe) == l[strobe] = LOW /\ next[strobe] = HIGH
ChipAfterScan(l, next) ==
  LET byte == IF CpuDrives(l, 0) /\ CpuDrives(next, 0) /\ l[DATA(0)] = next[DATA(0)] THEN l[DATA(0)] ELSE Junk
  IN CASE NandListens(l) /\ NandListens(next) /\ Rises(l, next, nFWE) ->
            (CASE next[CLE] = HIGH /\ next[ALE] = LOW -> Command(g, chip, byte)
               [] next[CLE] = LOW /\ next[ALE] = HIGH -> AddressCycle(g, chip, byte)
               [] next[CLE] = LOW /\ next[ALE] = LOW -> DataIn(g, chip, byte)
               [] OTHER -> Confused(chip))
       [] NandListens(l) /\ Rises(l, next, nFRE) -> ReadDone(g, chip)
       [] OTHER -> chip

\* Who drives the pads of a data lane, a bank or the CPU, and the byte that is seen there.
CPUDRIVER == 9
Drivers(l, lane) ==
  {d \in {CPUDRIVER} : CpuDrives(l, lane)} \cup {d \in {NANDBANK} : lane = 0 /\ NandDrives(l)}
  \cup {b \in Devices : lane < Bytes(b) /\ Read(l, b, lane)}
Seen(l, lane) ==
  LET device == {b \in Devices : lane < Bytes(b) /\ Read(l, b, lane)}
      places == {PlaceAt(b, l[ADDR], lane) : b \in device} \cap DOMAIN store
  IN CASE Drivers(l, lane) = {CPUDRIVER} -> l[DATA(lane)]
       [] Drivers(l, lane) = {NANDBANK} -> DataOut(g, chip)
       [] Drivers(l, lane) = device /\ Cardinality(places) = 1 -> store[CHOOSE p \in places : TRUE]
       [] OTHER -> Junk

-----------------------------------------------------------------------------
(* What a call is for: the places it is about, and what it should answer.    *)

Base(bank) ==
  IF cpu # "S3C6410" THEN bank * 2^27
  ELSE IF bank = 5 THEN \h38000000 ELSE \h10000000 + bank * 2^27
Size == [rb |-> 1, rh |-> 2, rw |-> 4, wb |-> 1, wh |-> 2, ww |-> 4]
Data(command) ==
  IF command \in {"wb", "wh", "ww"} THEN [i \in 1 .. Size[command] |-> 10 * made + i] ELSE <<>>
\* The settings are those of the device, and a flash takes whole words only.
RightFor(bank, command) ==
  LET device == Board[cpu][bank] IN
  /\ bankWidth[bank] = device.width
  /\ device.type = "nBE" => bank_nBE[bank]
  /\ device.type = "nWBE" => ~bank_nBE[bank]
  /\ device.type = "flash" /\ Data(command) # <<>> => 8 * Size[command] = device.width
Request(kind, where, data, reply) == [kind |-> kind, where |-> where, data |-> data, reply |-> reply]
Guess(bank) == [kind |-> "guess", bank |-> bank]
Transfer(bank, addr, ls, data, reply) ==
  Request(IF data = <<>> THEN "read" ELSE "write",
          [i \in DOMAIN ls |-> PlaceAt(bank, addr, ls[i])], data, reply)
\* The lanes of n bytes, in order.
LanesFrom(lane, n) == [i \in 1 .. n |-> lane + i - 1]

PagePlaces(page, columns) == [i \in DOMAIN columns |-> PagePlace(page, columns[i])]
WholePage(page) == PagePlaces(page, LanesFrom(0, PageSize(g)))
PageData == [i \in 1 .. PageSize(g) |-> 10 * made + i]
NandPages == Pages[cpu]
NandBlocks == {p \div PagesPerBlock : p \in NandPages}

-----------------------------------------------------------------------------
DefaultWidth == [b \in Banks |-> 16]
Default_nBE == [b \in Banks |-> b >= 2]

\* What the memory devices hold at first; the second page of the NAND is in use.
Words(width) == 0 .. 3 \cup {65536 \div (width \div 8)}
MemoryPlaces ==
  UNION {UNION {{<<b, w, i>> : w \in Words(Board[c][b].width), i \in 0 .. (Board[c][b].width \div 8) - 1}
                : b \in DOMAIN Board[c]} : c \in Cpus}
NandPlaces == UNION {{PagePlace(p, c) : p \in 0 .. h.pages - 1, c \in Columns(h)} : h \in UNION {Geometries[c] : c \in Cpus}}
Places == MemoryPlaces \cup NandPlaces
FirstStore ==
  [p \in Places |-> IF p[1] # NANDBANK THEN 1000 * (p[1] + 1) + 10 * (p[2] % 97) + p[3]
                    ELSE IF p[2] = 1 THEN 1000 * 9 + p[3] ELSE Blank]

\* What the pads are when the CPU's own logic drives them.
AsSampled == [c \in PadCells |-> IF c \in {CLE, ALE, NF_CON} THEN LOW ELSE IF c \in Strobes THEN HIGH ELSE Junk]

Init ==
  /\ cpu \in Cpus /\ g \in Geometries[cpu]
  /\ session = "none"
  /\ out = AsSampled /\ latch = AsSampled /\ extest = FALSE
  /\ scans = <<>> /\ calls = <<>> /\ lanes = <<>> /\ answer = <<>>
  /\ request = NoRequest
  /\ bankWidth = DefaultWidth /\ bank_nBE = Default_nBE
  /\ store = FirstStore
  /\ chip = NewChip
  /\ made = 0 /\ opened = 0

Idle == request = NoRequest /\ scans = <<>> /\ calls = <<>>

(* main: InitCell samples the pads with the cells filled, and the session's   *)
(* JtagInit follows.  A NAND session then identifies the chip.                *)
OpenSession ==
  /\ Idle
  /\ opened < MaxSessions /\ opened' = opened + 1
  /\ \E s \in Sessions[cpu] :
       /\ made > 0 => <<session, s>> \in Follows
       /\ session' = s
       /\ extest' = FALSE
       /\ latch' = [c \in PadCells |-> CellFill]
       /\ out' = (IF s = "nand" THEN NandInit[1] ELSE Nothing) ++ InitCell ++ AsSampled
       /\ scans' = IF s = "nand" THEN NandInit[2] ELSE MRW_JtagInit
       /\ calls' = IF s = "nand" THEN nand_scan(g) ELSE <<>>
       /\ request' = IF s = "nand" THEN Request("scan", <<>>, <<>>, SubSeq(Ids, 1, 2) \o Ids) ELSE NoRequest
       /\ lanes' = <<0>> /\ answer' = <<>>
  /\ UNCHANGED <<cpu, g, bankWidth, bank_nBE, store, chip, made>>

\* The menu's bs command.
SetBank ==
  /\ Idle /\ session = "memory" /\ made = 0
  /\ bankWidth = DefaultWidth /\ bank_nBE = Default_nBE
  /\ \E b \in Settings[cpu] :
       /\ bankWidth' = [bankWidth EXCEPT ![b[1]] = b[2]]
       /\ bank_nBE' = [bank_nBE EXCEPT ![b[1]] = b[3]]
  /\ UNCHANGED <<cpu, g, session, pads, scans, calls, lanes, answer, request, store, chip, made, opened>>

Call(itsScans, itsCalls, itsLanes, itsRequest) ==
  /\ Idle
  /\ made < MaxCalls[cpu] /\ made' = made + 1
  /\ scans' = itsScans /\ calls' = itsCalls /\ lanes' = itsLanes
  /\ request' = itsRequest
  /\ answer' = <<>>
  /\ UNCHANGED <<cpu, g, session, pads, bankWidth, bank_nBE, store, chip, opened>>

\* A transfer of the menu that is not refused for the bank's width.
MenuTransfer ==
  /\ session = "memory"
  /\ \E u \in Units[cpu] :
       LET command == u[1]
           addr == Base(u[2]) + u[3]
           n == Size[command]
           bank == Addr2Bank(addr)
           from == addr - (addr % n)
           does == MRW_Menu(command, addr, Data(command), bankWidth[bank], bank_nBE[bank])
           ls == LanesFrom(from % (bankWidth[bank] \div 8), n)
       IN /\ does.scans # <<>>
          /\ Call(does.scans, <<>>, IF Data(command) = <<>> THEN ls ELSE <<>>,
                  IF RightFor(bank, command) THEN Transfer(bank, from, ls, Data(command), <<>>)
                  ELSE Guess(bank))

\* The NOR driver's accesses, a bank with the width of the access.
NorAccess ==
  /\ session = "nor"
  /\ \E bank \in {b \in Devices : Board[cpu][b].type \in {"flash", "x8"}}, word \in 0 .. 1, writes \in BOOLEAN :
       LET n == Bytes(bank)
           addr == Base(bank) + n * word
           data == IF writes THEN [i \in 1 .. n |-> 10 * made + i] ELSE <<>>
       IN /\ \A c \in Devices \ {bank} : out[nCS(c)] = HIGH
          /\ Call(jtag_mem_rdwr(addr, data, 8 * n), <<>>, LanesFrom(0, n),
                  Transfer(bank, addr, LanesFrom(0, n), data, <<>>))

\* The fast functions nobody calls, on a bank of their width.
FastAccess ==
  /\ session = "fast"
  /\ \E bank \in {b \in Devices : Board[cpu][b].type \in {"flash", "x8", "nBE"}}, word \in 0 .. 1,
        name \in {"R", "Q", "QQ"} :
       LET n == Bytes(bank)
           addr == Base(bank) + n * word
           data == IF name # "R" THEN [i \in 1 .. n |-> 10 * made + i] ELSE <<>>
           en == Board[cpu][bank].type = "nBE"
       IN /\ \A c \in Devices \ {bank} : out[nCS(c)] = HIGH
          /\ Call(Unused(name, addr, data, 8 * n, en, 0 .. n - 1), <<>>, LanesFrom(0, n),
                  Transfer(bank, addr, LanesFrom(0, n), data, <<>>))

NandCall(itsCalls, itsRequest) == session = "nand" /\ Call(<<>>, itsCalls, <<0>>, itsRequest)
ReadPages ==
  \E p \in NandPages, n \in 1 .. 2 :
    /\ p + n <= g.pages
    /\ NandCall(nand_read_ecc(g, p, n),
                Request("read", FlattenSeq([i \in 1 .. n |-> WholePage(p + i - 1)]), <<>>, <<>>))
\* Of the first page of a block, or running over into the second one.
ReadOob ==
  \E b \in NandBlocks, column \in 0 .. oobsize - 1, len \in 1 .. oobsize :
    LET p == b * PagesPerBlock
        spare == [i \in 1 .. oobsize |-> oobblock(g) + i - 1]
    IN NandCall(nand_read_oob(g, p, column, len),
                Request("read", SubSeq(PagePlaces(p, spare) \o PagePlaces(p + 1, spare), column + 1, column + len),
                        <<>>, <<>>))
BlockBad ==
  \E b \in NandBlocks :
    NandCall(nand_block_bad(g, b),
             Request("read", << PagePlace(b * PagesPerBlock, oobblock(g) + badblockpos(g)) >>, <<>>, <<>>))
WritePage ==
  \E p \in NandPages :
    NandCall(nand_write_ecc(g, p, SubSeq(PageData, 1, oobblock(g)), SubSeq(PageData, oobblock(g) + 1, PageSize(g))),
             Request("program", WholePage(p), PageData, <<Ready>>))
WriteOob ==
  \E b \in NandBlocks, column \in 0 .. oobsize - 1, len \in 1 .. oobsize :
    LET bytes == SubSeq(PageData, 1, len)
        columns == [i \in 1 .. len |-> oobblock(g) + column + i - 1]
    IN /\ column + len <= oobsize
       /\ NandCall(nand_write_oob(g, b * PagesPerBlock, column, bytes),
                   Request("program", PagePlaces(b * PagesPerBlock, columns), bytes, <<Ready>>))
EraseBlock ==
  \E b \in NandBlocks :
    NandCall(nand_erase_nand(g, b),
             Request("erase", WholePage(b * PagesPerBlock) \o WholePage(b * PagesPerBlock + 1), <<>>, <<Ready>>))

-----------------------------------------------------------------------------
\* The next function of the NAND controller the current operation calls.
NextNfCall ==
  /\ scans = <<>> /\ calls # <<>>
  /\ scans' = NandScans(Head(calls)) /\ calls' = Tail(calls)
  /\ UNCHANGED <<cpu, g, session, pads, lanes, answer, request, bankWidth, bank_nBE, store, chip, made, opened>>

(* A scan captures what the pads show under the last latch, shifts the cells  *)
(* out and latches them.                                                      *)
Pending(kind) == scans # <<>> /\ Head(scans).scan = kind
Latched(cells, instruction) ==
  /\ out' = cells /\ latch' = cells /\ extest' = instruction
  /\ scans' = Tail(scans)
  /\ store' = AfterScan(latch, cells)
  /\ chip' = ChipAfterScan(latch, cells)
ShiftDR ==
  /\ scans # <<>> /\ Head(scans).scan \in {"NoTdo", "Tdo"}
  /\ Latched(Head(scans).pins ++ out, extest)
  /\ answer' = IF Head(scans).scan = "Tdo" THEN answer \o [i \in DOMAIN lanes |-> Seen(latch, lanes[i])]
               ELSE answer
  /\ UNCHANGED <<cpu, g, session, calls, lanes, request, bankWidth, bank_nBE, made, opened>>
\* The instruction alone is shifted: the cells drive the pads as they are.
ShiftEXTEST ==
  /\ Pending("EXTEST")
  /\ extest' = TRUE /\ scans' = Tail(scans)
  /\ UNCHANGED <<cpu, g, session, out, latch, calls, lanes, answer, request, bankWidth, bank_nBE, store, chip, made, opened>>
\* NF_WAITRB, whose scans change no pin: the one that sees the chip ready ends it.
SeeReady ==
  /\ Pending("ready")
  /\ (IF chip.busy THEN LOW ELSE HIGH) = Head(scans).level
  /\ Latched(out, extest)
  /\ UNCHANGED <<cpu, g, session, calls, lanes, answer, request, bankWidth, bank_nBE, made, opened>>

ChipReady ==
  /\ chip.busy
  /\ store' = Stored(g, chip, store) /\ chip' = JobDone(g, chip, store)
  /\ UNCHANGED <<cpu, g, session, pads, scans, calls, lanes, answer, request, bankWidth, bank_nBE, made, opened>>

Return ==
  /\ request # NoRequest /\ scans = <<>> /\ calls = <<>>
  /\ request' = NoRequest
  /\ UNCHANGED <<cpu, g, session, pads, scans, calls, lanes, answer, bankWidth, bank_nBE, store, chip, made, opened>>

Work == NextNfCall \/ ShiftDR \/ ShiftEXTEST \/ SeeReady \/ Return
Next ==
  \/ OpenSession \/ SetBank \/ MenuTransfer \/ NorAccess \/ FastAccess
  \/ ReadPages \/ ReadOob \/ BlockBad \/ WritePage \/ WriteOob \/ EraseBlock
  \/ Work \/ ChipReady
\* A call runs to its end, and a chip ends its job.
Spec == Init /\ [][Next]_vars /\ WF_vars(Work) /\ WF_vars(ChipReady)

-----------------------------------------------------------------------------
(* A data pad is never driven by two: not by the CPU and a chip the cycle     *)
(* before it has selected, nor by two chips.                                  *)
OneDriver == \A lane \in Lanes : Cardinality(Drivers(latch, lane)) <= 1

(* Between two calls no strobe is LOW, and nothing is selected unless the     *)
(* caller is the NOR driver, whose xxxQQ writes leave out the deassertion.    *)
AtRest ==
  Idle /\ BusDriven(latch) =>
    /\ \A c \in {nOE, nWE, nFRE, nFWE} : latch[c] = HIGH
    /\ session \in {"memory", "nand"} =>
         \A c \in {nCS(b) : b \in Devices} \cup {NandSelect} : latch[c] = HIGH

(* Whatever chips, bank settings and sequence of sessions: the scans of every *)
(* call do to the chips what the call is for, and nothing else.               *)
Storage == INSTANCE BusStorage WITH
             Lost <- Junk, answer <- IF request = NoRequest THEN answer ELSE <<>>
StorageSpec == Storage!Spec

\* Every call returns, though it polls the chip without a limit.
OpsReturn == request # NoRequest ~> request = NoRequest
=============================================================================
