# TLA+ models of oflash

oflash is a single-threaded command-line program that burns images into the NAND
and NOR flash of S3C2410, S3C2440 and S3C6410 boards through JTAG: it drives the
pins of the CPU over its boundary scan register and so works the memory bus by hand.
This directory models the parts of it where something can go wrong over several
steps, checks them with TLC and proves the most important results with TLAPS.

Contents: [the system](#the-system), [plan](#plan), [modules](#modules),
[runs](#runs), [what the runs found](#what-the-runs-found), [fairness](#fairness),
[proofs](#proofs), [what is not modelled](#what-is-not-modelled),
[how to run](#how-to-run).

## The system

```
 oflash.cpp, config.cpp          main loop: one image per configuration entry
   |            |          |
 nand_menu    nor_menu    mem_rdwr (MRW_Menu)      a session with the flash
   |            |          |
 nand_base    cfi_flash    |        MTD layer;  CFI/JEDEC driver
   |          flash.cpp    |
 s3c24xx/     s3c24xx/6410_mem_rdwr              pins: command cycles, bus cycles
 s3c6410 nand   |          |
   +------------+----------+
   |  outCellValue / inCellValue: one character per cell, shared by all of them
 jtag_operations: openjtag | dongle | wiggler    scans
   |                 
 ft2232.cpp: ft2232_buffer -> USB -> FT2232 -> TAP of the CPU
```

Every layer calls the one below and waits; there are no threads.  What is
concurrent is the far end: commands are buffered on the host, sent when the buffer
is half full, and the FT2232 and the CPU's TAP work through them while the program
goes on.  A scan that reads is the only point where the two meet.

| component | state it keeps | operations | what is hard | what makes it correct |
|---|---|---|---|---|
| MTD layer (`nand_base.cpp`) | one-page cache `pagebuf`/`data_buf`, chip select, spare-area buffer | read, write, erase, write_oob, isbad, markbad | cache kept across calls; a page or block in the middle failing; ranges at the end of the device | the cache is never stale; calls stay in range and release the chip; results tell the truth |
| NAND menu (`nand_menu.cpp`) | block number, loaded block, counted bytes, `noLoad` | `Nand_Program`, `Nand_PrintBlock` | bad blocks and failing pages make data and place drift apart; 32-bit address | each image page at its place in a usable block, in order |
| NAND controllers (`s3c2410/2440/6410.cpp`) | pins in `outCellValue` | command, address, data, wait for ready | order of strobes; unbounded waits | each byte is strobed once with stable pins |
| NAND identification (`nand.cpp`, `nand_ids.cpp`, `nand_base.cpp`) | `nand_chip[0]`, `nand_info[0]`, kept from image to image | `nand_init`, `nand_scan` | two ways of coding the extended id, told apart by the wrap-around of the id bytes; what a second scan does not set again | the geometry is the chip's |
| NOR burn (`nor_menu.cpp`, `flash.cpp`, `cfi_flash.cpp`) | static `flash_info`, `srcAddress` | erase, write words, buffers, tail | statics survive from image to image; sector and buffer boundaries; results ignored | what is reported written is there, nothing else changed |
| NOR detection (`cfi_flash.cpp`, `jedec_flash.cpp`) | `flash_info` | `flash_detect_legacy`, `flash_get_size`, `jedec_flash_match` | a chip left in any mode, deaf to unlock addresses it does not decode; tables of regions listed either way up | the chip that is there, with its sectors |
| OpenJTAG scans (`openjtag_jtag.cpp`, `binarybuffer.cpp`) | none | reset, idle, IR scan, DR scan with and without reading | TAP table; bit counts around bytes; last bit in the TMS command | each cell is latched and read once, in order |
| Command buffer and USB (`ft2232.cpp`) | `ft2232_buffer`, `ft2232_buffer_size`, replies on the way | open, id, add, flush, read, quit | sizes left over; failed writes; replies that come late | scans reach the pins once and in order; the buffer holds them |
| JTAG interface (`interface.cpp`, `jtag.h`) | TAP state | state transitions | | the IEEE 1149.1 diagram |
| Cell initialisation (`pin*.cpp`, `bsd.cpp`) | `outCellValue` | `InitCell`, `SetPin`, `GetPin` | pins driven before they are set | SAMPLE/PRELOAD before EXTEST |
| Memory access (`*_mem_rdwr.cpp`) | pins | read and write of 8, 16, 32 bits, menu | byte lanes, chip selects, strobe order | one device selected, data stable around the strobe |
| Parallel cables (`dongle`, `wiggler`) | port bits, static `OpenFlag` | the same operations bit by bit | the state the cable is found in; the probe for a port moves the pins | the same as for OpenJTAG |
| Main loop, configuration (`oflash.cpp`, `config.cpp`) | `g_...` settings, statics of `parse_file` | parse, open, choose, run, repeat | settings that survive an entry | each entry gets what it says |

The hazards, each at its line of code, are the `hazards` of `PROJECT.json`; each
names the properties that would catch it or says why none does.

## Plan

The order is by how much depends on the part and how hard it is to test.

1. **MTD layer and NAND burn** - `NandMtd`, `NandProgram` refining `NandBurn`. *Done.*
2. **NOR burn** - `NorFlash`. *Done.*
3. **The cable** - `TapController`, `Mpsse` (bits), `OpenJtag` (protocol), which the
   three sessions use. *Done.*
4. **Proofs** - type invariants and the safety of `NandMtd`, `NandProgram`, `NorFlash`
   and `OpenJtag`, who drives the pads in `Bus`, all of the safety of `Mpsse`. *Done*.
5. **The bus** - pads, strobes and bus cycles of the four CPUs, the NAND controllers and
   a NAND chip on the same pads, with the command sequences of `nand_command` and
   `nand_command_lp`, refining a plain store: `Bus` over `Pins`, `BusCycle`, `Mem...`,
   `Nf...`, `NandCommand`, `NandChip`; `BusStorage`. *Done.*  It composes with `OpenJtag`:
   what it needs of the cable is `ScansInOrder` and `ReadsAnswerScanBefore`.
6. **Detection** - NOR probing with the whole JEDEC table, NAND scanning: `Identify` over
   `NorProbe`, `JedecTable`, `NandScan`. *Done.*
7. **The other cables, opening and closing** - `PortCable`, `FtdiOpen`, both in `Mpsse`. *Done.*
8. **More proofs** - left: the store behind `Bus`.
9. Left: the settings of a configuration entry; spare data of several pages; the Hamming
   code (see [below](#what-is-not-modelled)).

## Modules

**`NandMtd`** models `nand_read`, `nand_write`, `nand_erase`, `nand_write_oob`,
`nand_block_isbad` and `nand_block_markbad`.  A call is an action that checks its
arguments and begins (`ReadCall`, `WriteCall`, `EraseCall`), one action per turn of
its loop (`ReadPage`, `WritePage`, `EraseBlock`) and one that returns; the loop
variables `page`, `col`, `left` are the code's.  The chip answers success or
failure to each program and erase.  A page has one content and `COLS` columns, which is what the
cache and reads that start or end inside a page can tell apart.

**`NandProgram`** models `Nand_Program` one call at a time: load a block of the
file, erase, write page after page, start again in the next block on failure.  The
calls it makes are those of `NandMtd` with one page or block, so their outcome is
all that matters.  Which erases and programs fail is chosen in `Init`.
**`NandBurn`** says what a user expects: page k stands in the (k / pages per
block)-th usable block.  `NandProgram!BurnSpec` maps the history variable `placed` to it;
`good` is mapped to no block at all when some page fails to program, where
`NandBurn` promises nothing (and the code does not deliver, see below).

**`NorFlash`** models several images burnt one after the other.  `Request` is
`Nor_Menu` with detection, loading and the search for the sectors; `EraseSector`,
`WriteChunk`, `WriteTail` are the turns of `flash_erase` and `write_buff`.
`flash_info` and `srcAddress` are static in the code and variables here.
`EraseBlindly` and `WriteBlindly` are what the driver does when a failed CFI search left a
port width no case knows; reading the uninitialised command there is a choice over its outcomes.

**`TapController`** is the TAP diagram of `interface.cpp` and a device behind it.

**`Mpsse`** encodes each OpenJTAG operation into MPSSE commands as the code does
(`tap_move`, `binstr2bytes`, whole bytes, remaining bits, the last bit with the TMS
movement) and executes them bit by bit on a `TapController`; `ft2232_read_scan` puts
the string together again.  The state is a job (a movement, the id, or two data scans
of some length), the commands not yet executed, the TAP and the bytes received.
**`PortCable`** makes the same jobs out of the port accesses of the dongle and the Wiggler:
each TCK edge is a byte written.  Its second open does nothing (`OpenFlag`), the probe
for a port writes 0x55 and so moves the pins.  **`FtdiOpen`** is `ft2232_init` with the
layout `jtagkey`, the only one asked for, and `ft2232_quit`, over libftdi or FTD2XX, as the
sequence of library calls; any call may fail.  Two results nobody looks at: `ft_set_bitmode`
in the libftdi build, after which the id read back is made of the commands sent and is no CPU's, and
`ft2232_speed`.  A `ft2232_quit` that fails at its second write leaves the board in reset.

**`OpenJtag`** is the same cable one level up: operations travel whole from the buffer
over the wire to the TAP.  It relies on what `Mpsse` shows of one operation: started
in Run-Test/Idle it ends there and latches its cells.  The host is `main`'s loop with
`InitCell` and the sessions of the NOR menu, memory menu and NAND menu; the target
is `Execute`.  Scans are numbered in the order they are asked for, and the number stands for
the values of the cells.  A failed write leaves the buffer as it is (`Refused`), a
read can give up before its reply came (`ReadTimesOut`).

**`Bus`** puts the boundary scan cells of one of the four CPUs (`Mem2410`, `Mem2440`,
`Mem2450`, `Mem6410`, with their NAND controllers `Nf2410`, `Nf2440`, `Nf6410`) on the pads of a
board.  A session of the memory menu, the NOR driver or the MTD layer (`OpenSession`)
makes calls (`MenuTransfer`, `NorAccess`, `FastAccess`, `ReadPages`, `WritePage`, ...); a call is
the list of scans the code makes for it, and `ShiftDR` carries out one: cells become pads,
chips see edges, reads see the pads.  **`Pins`** has the cells (eight data cells count as one that
holds a byte, the address cells as one that holds a number), **`BusCycle`** the cycles, which the
CPUs share up to pads and the order of their tests; **`NandCommand`** is what `nand_base.cpp` asks
of a controller, **`NandChip`** the chip's answer (external).  `Bus!StorageSpec`
maps the board to **`BusStorage`**, a store whose requests are carried out one at a time.  An
address byte counts to `RADIX` where the code's counts to 256.  **`ScanLists`** has the words the
proofs use for lists of scans: what a scan raises or lowers, when a list is `Tidy`.

**`Identify`** has two parts, one of them idle.  **`NorProbe`** is `flash_init`:
`flash_detect_legacy`, always for one 16-bit chip, with every pair of unlock addresses, `jedec_flash_match`
over **`JedecTable`** (the code's table, in its order), `flash_get_size` with the CFI
query at every width and its repairs, `fill_info`; the chip (external) is a state machine in any mode.
**`NandScan`** is `nand_init` and `nand_scan`, for every image anew with the statics of the last.

The `MC...` modules instantiate a module for TLC.  Operators marked "a bug to be seen"
are changed copies of a definition that some property must reject; nothing
else refers to them.

## Runs

| run | states | instance and why it is enough |
|---|---|---|
| `nand_mtd` | 648,783 | 4 pages in 2 blocks, 2 columns, one data value: requests begin and end inside a page, cross pages and blocks, and reach past the device; spare writes of a first page of a block, another page and one past the end (`SparePages`); every program and erase may fail |
| `nand_program` | 525,598 | 3 blocks of 2 pages, all patterns of bad blocks and failing pages, all targets, images of 0 to 4 pages; 6 blocks in the 32-bit space, so the number wraps over the device |
| `nand_tail` | (stops) | the same, against the promise that the whole image is burnt |
| `nor_flash` | 24,204 | sectors of 4, 4 and 8 bytes, buffer of 4, sizes on and off word, buffer and sector ends, two images, all locks, chips with and without CFI and JEDEC entry |
| `nor_images` | (stops) | the same, against the promise that each entry is burnt |
| `mpsse` | 619,240 | three cables, found in any state, any USB call failing; all movements; lengths 1 to 34 on both sides of each byte end; `MaxRun` 2 for 65536, so that bytes go out in several commands; strings with one bit set or cleared, which tell every position apart; every TAP state to start from |
| `openjtag` | 252,595 | two images, 8 scans, 2 USB failures at any write or read; a buffer that three scans fill to half, so that flushes happen inside sessions |
| `usb_failing` | (stops) | one image and 4 failures, against the buffer's size |
| `bus` | 139,777 | boards with one device of each kind a bus allows (8, 16, 32 bits; byte enables, byte write enables, flash), a transfer of each size on each bank at odd and even offsets, right and wrong bank settings, up to 2 sessions of up to 2 calls; NAND chips of both page sizes with two and three row bytes (`RADIX` 2) |
| `cs6410` | (stops) | one more device on a bank of the S3C6410, against `AtRest` |
| `identify` | 50,063 | every chip of the JEDEC table: those of 16 lines on a bus of 16, those of 8 lines alone on a bus of 8 and in pairs on one of 16; left in every mode, cells and undriven lines that look like ids or not; CFI chips of both families, byte-wide, 16 bits wide and in pairs, with each repair the code makes; NAND chips of every way of laying out an id, in pairs, one after the other |

What they show:

* `nand_mtd`: the cache is coherent and reads are faithful across any sequence of
  calls and failures (`CacheCoherent`, `ReadFaithful`); the chip is selected in calls
  only (`SelectedOnlyInCalls`); a write or an erase changes nothing outside its request, a spare
  write one page's marker at most, the page its number is masked to (`ConfinedToRequest`); the result, `*retlen` and `fail_addr` tell what was done
  (`WriteReport`, `EraseReport`).
* `nand_program`: image pages keep their place in a block (`ImageAligned`), go only
  to blank pages (`OnlyBlankProgrammed`), stay there (`PlacedStays`), blocks below
  the target are left alone while there is room (`BelowTargetUntouched`), the loop ends
  (`Terminates`), and without failing pages it implements `NandBurn` (`BurnSpec`).
* `nor_flash`: nothing is programmed over old data (`NothingMixed`), what
  `flash_write` reports is there (`WrittenMeansThere`), other sectors and protected ones
  survive (`OtherSectorsKept`, `ProtectedRefused`), buffered writes do not wrap
  (`InsideBuffer`), a burn ends (`BurnEnds`).
* `mpsse`: over all three cables each movement arrives (`MovesArrive`), frames are latched and
  read exactly and the CPU is not held in reset (`FrameLatched`, `CellsRead`), and as many bytes
  come back as predicted (`ReplyCounted`).
* `bus`: no data pad has two drivers (`OneDriver`), strobes and selects are back at rest after
  each call (`AtRest`), each call does to the chips what it is for and nothing else
  (`StorageSpec`, refining `BusStorage`), and returns (`OpsReturn`).
* `identify`: the driver finds each 16-bit NOR chip of its table as itself and each chip with a CFI
  query it understands, in whatever mode they were left, and no chip that is neither; byte-wide chips of
  the table are not found, or a pair of them is taken for one (`Recognised`).  It keeps the sectors,
  size and locks of what it finds, but for such pairs (`Described`), and the geometry of a NAND chip,
  whatever board was served before (`NandDescribed`).
* `openjtag`: no leftover in the buffer ever makes an operation start from the wrong state
  (`NeverLost`) or drives stale cells (`PreloadedFirst`); scans reach the pins in
  order, once (`ScansInOrder`); a read answers the scan before it
  (`ReadsAnswerScanBefore`); there is room for each scan (`BufferBounded`); NOR is done
  only when the pins have seen everything (`NorDoneMeansDriven`); reads return
  (`ReadsReturn`).  Several of these say "as long as USB works" (`faults = 0`): that is
  as far as the code goes, and `usb_failing` shows what happens otherwise.

Deadlock checking is off where the program really stops: after the last image
(`nor_flash`, `openjtag`), at the end of the burn (`nand_program`), after the crash of
`nand_block_markbad` (`nand_mtd`), when the calls are used up (`bus`) or
the chips are found (`identify`).

## What the runs found

Four runs end in a violation, each of a statement of the repository:

* `nand_tail`: when a page fails in the middle of a block the pages counted before it
  stay counted, and the burn stops that many pages before the end of the image.
* `nor_images`: on a chip known by its JEDEC id only, the second image of a run
  is reported done and never written, as `flash_info.vendor` is left from the first.
* `usb_failing`: while USB writes fail, scans pile up past the end of `ft2232_buffer`.
* `cs6410`: `S6410_Deassert_nCS` tests 0x38000000 before 0x30000000 (`s3c6410_mem_rdwr.cpp:486`), so a
  transfer on bank 3 or 4 leaves its chip select asserted.

Met while modelling and left out of what the properties promise, each said where it is:

* `nand_write_oob` checks no size: past the end of the device the page is masked and the marker of
  another page is written (`ConfinedToRequest`).  Nothing in the build calls it.
* `nand_erase` erases blocks marked bad and with them the marker: `NAND_ALLOW_ERASE_ALL` is
  defined (`100ask24x0.h:30`); `Nand_Program` asks `isbad` first.
* `board_flash_get_legacy` has every board probed as one 16-bit chip
  (`CFG_FLASH_CFI_PORT_WIDTH`, `100ask24x0.h:17`).  So the byte-wide chips of the table are not found
  alone on a bus of 8; two of them side by side are not found if they are AMD's (or taken for one, if a
  cell of the second holds 0), and are taken for one chip if they are Intel's, whose ids are read as bytes.
* A table entry with more sectors than `CFG_MAX_FLASH_SECT` (SST39VF3201/3202 with 1024,
  6401/6402 with 2048) is not kept whole, and AT29LV512 (`jedec_flash.cpp:617`) lists two
  regions and counts one (`Described`).
* `flash_get_size` refuses a region number with `i > NUM_ERASE_REGIONS`, one too late; chips are
  assumed to have at most four.
* Of two Intel chips side by side a sector counts as locked only if it is in both.
* A single-level NAND chip of 4 GiB gets the `chip_shift` -1 (`NandDescribed`), `oobavail` is one
  too many, an unknown spare area below 64 bytes gets the layout for 218.
* After a second scan the command function, the sizes of the buffers and `mtd->size`
  as printed are those of the first chip (`nand_base.cpp:2576`, 2607, 2641; `nand.cpp:60`).
* `wh` on a 32-bit bank writes and then reports an error (`s3c2440_mem_rdwr.cpp:391`).
* `Nand_PrintBlock` divides `g_Offset` by `eccsize`, which is no block's size.

## Fairness

The program is one thread that runs: `NandProgram` and `NorFlash` assume weak fairness
of its own steps, not of the user's next request.  `OpenJtag` assumes that the FT2232
works through what it was sent (`WF(Execute)`) and that a host that waits takes a reply that
is there (the retry loop of `ft2232_read`); nothing is assumed of the rest of the host.
`Bus` assumes that a call once made goes on (`WF(Work)`) and that a NAND chip ends
its job (`WF(ChipReady)`), which the unlimited polls of `nand_wait` and `NF_WAITRB` rely on.
`NandMtd`, `Mpsse` and `Identify` have safety properties only.

## Proofs

Checked by TLAPS for every value of the constants, from the named `ASSUME`s of the modules:

**`NandMtdProofs`** - `TypeCorrect`, `CacheIsCoherent`, `ReadsAreFaithful`,
`SelectDiscipline`.  Coherence is not inductive: a write invalidates once,
for its whole request, so `WriteLoop` adds that what a write has left does not contain the
cached page; `ReadLoop` and `EraseLoop` bound what the loops have left, which needs
arithmetic of pages and columns (`TimesMonotone`, `ReadPageInRange`).
The action properties are `CallsAreConfined` (of a spare write only that it stays on the page its
number is masked to), `WriteTellsTruth`, `EraseTellsTruth`; they need `Progress`: what a write or an erase that is under way has
done so far, and that its place and what it has left add up to its request.

**`NandProgramProofs`** - `TypeCorrect`, `ImageStaysAligned`, `BlankProgramming`, whatever
fails.  The invariant adds that the buffer holds a whole block of the file (`Buffered`),
that the count keeps up with it, so the loop returns before it burns padding
(`Counted`), and that the rest of the current block is blank (`RestBlank`).

Then `TargetRespected`, `PlacedPagesStay`, `BurnImplemented`, `ImageBurnt`:
what holds while the device has room.  All rest on one count (`Swept`): the pages burnt
so far are as many as the pages between the target and the loop that take data.  So as long
as pages of the image are left one of those pages is still ahead, the loop stands on the device and
its block number does not wrap (`StandsOnDevice`, `NoWrap`).  With a good block the pages passed are
whole blocks, so the block the loop comes to next is the `Nth` usable one of
`NandBurn` (`NthIsUnique`), and each action of `NandProgram` maps to `Place` or to a stutter
(`BurnSafety` is `NandBurn` without its fairness).  `Kept` ties `placed` to the chip's contents, from
which the whole image is there at the end (`ImageOnChip`).

**`NorFlashProofs`** - `TypeCorrect`, `BlankProgramming`, `ReportsAreTrue`, `OthersAreKept`,
`ProtectionHolds`, `BuffersDoNotWrap`: all of the safety of `NorFlash`, on a chip of any layout of
sectors, any write buffer and any images.  The invariant says of a burn under way
that what is ahead of the write pointer in the image's sectors is blank (`BlankAhead`), what is
behind it is written (`WrittenBehind`), and which sectors the erase loop has still to do
(`Burning`, `Writing`).  That the sectors found are those the image reaches into
(`LastSectorOf`, `SectorsOfImage`) and that a chunk ends before its buffer does (`ChunkBounded`)
are lemmas of their own.

**`OpenJtagProofs`** - `TypeCorrect`, `RoomForNextScan`, `OperationsFit`,
`ScansReachPins`, with any buffer, scan length, number of scans, images and failures.
The argument is about `Pending`, the operations sent and not carried out with those in the buffer
behind them (nothing of the buffer while it holds the rest of the id's commands).
A write that succeeds, fails or is left for later does not change `Pending`, which
is why order survives all of it; the target takes its head; a scan appends.  `Rests`
says each pending operation that needs Run-Test/Idle has it behind the one before
it.  `Ordered` says that the session's scans that are not yet latched are the last of
`Pending`, numbered without a gap, with the switch to EXTEST before them.  `Asked` bounds the
numbers by those given out, which starts a session's numbering above all that is
left from before.  `Sized` says at most half the buffer is full between operations.
`RoomAssumption` is the arithmetic of the real sizes (131072 bytes, 114 per scan).

In its second part `PreloadComesFirst`, `ReadsAnswer`, `DoneMeansDriven`, which hold as
long as USB works.  `Smooth` says where the replies are then: none is under way unless the
host waits, and then it is still to be made by the last operation sent (`ToCome`) or there
with nothing left to do (`Arrived`).  So a session begins when the preloading scan has been latched, and
that a reply shows the scan before it follows from `Ordered`.

**`MpsseProofs`** - `RepliesCounted`, `EveryMovementArrives`, for scan registers of any lengths
with any strings in them (`CellsAssumption`) and commands that clock any number of bytes.
The reply to a scan is not counted where it is predicted: `ft2232_predict_scan_in` goes by the number of
cells, the bytes come one command at a time, of which a scan has as many as `MaxRun` makes it.
`Owes` says what a list of commands brings back; it adds up over concatenation (`OwesBoth`), so
the complete bytes owe their number by induction over the runs left (`CompleteOwed`), and each
operation what was predicted for it (`CallOwed`).  The invariant `RepliesInv` says that what has come and
what the buffer owes make up the prediction, and, for it to begin right, that an open FT2232 has nothing
left from an earlier program: the last call of `ft2232_init` purges (`InitPurges`, `CallsReceive`).
For the movements each entry of `tap_move` is walked clock by clock (`EveryMoveArrives`), on a
chip whose pins `ft2232_init` has connected (`ConfiguredReaches`).

The rest of the module says what the commands of an operation do to a device on a board,
one clock after the other (`Ticks`, `Path`), for a register of any length.  A register is a `Mix`: m bits
of what was captured have gone out and m of the string are in (`ShiftMany`), whether they are clocked as
whole bytes in runs of `MaxRun` (`BytesGo`), as remaining bits (`BitsGo`) or as the last bit,
on TDI while TMS leaves the state (`LastGo`).  So the operations go where they should:
`IdleGo`, `InstructionGo`, `ScanGo`, `IdGo`, with what comes back (`Replies`).

**`FrameProofs`** - `FramesLatch`, `CellsAreRead`: `FrameLatched` and `CellsRead` for scan registers of any
lengths, over the OpenJTAG and both parallel-port cables.  The accesses of a port cable are the same clocks,
two writes each and a read behind them where TDO is asked for (`PortPath`), so its operations go the same ways.  Opening the FT2232
is followed call by call: one that failed unseen leaves a chip that is `Ready` - in MPSSE mode, with TRST and
SRST released, its pins connected - or one that is not in MPSSE mode (`Deaf`).  Nothing comes back from
that one, and what `readID` then makes of its own commands is the id of no CPU the program knows.

`FrameLatched` speaks of moments at which the buffer is empty; in between, a scan is half done.  The
inductive invariant `FrameInv` closes the gap by what is left to do: in every
state, the buffer run to its end from here (`Does`) leads to a state `AtJob` describes, where the job
is to be before its next operation - Run-Test/Idle, EXTEST, the string latched, the bytes that
will have come back, the string read.  To execute a command or an access then takes one off the front of
the run (`ExecuteHolds`, `AccessHolds`), and a call puts its own in front of an empty one (`CallHolds`,
`CallPortHolds`); that is where the lemmas on the operations come in.

**`BusCycleProofs`, `BusProofs`** - `OneDriverHolds`, `AtRestHolds`: for every board the CPUs
allow (`BoardAssumption`: banks that exist, widths of 8, 16 or 32 bits, no NAND on the S3C2450), every
set of transfers, settings and NAND operations, and any sequence of sessions.  On the
S3C6410 the theorems suppose `DeassertReaches`, that no device is on bank 3 or 4: there the code
leaves the chip select asserted, which is what `cs6410` finds, and a second device
selected would drive the same pads.

The property is about one state, the code keeps it by the order of its scans, so the
argument has two levels.  First, of each list of scans by itself: every bus cycle, in
whatever order the CPU's menu or its xxxQ functions put it together, is `Tidy` -
each scan that lowers nOE or nWE is followed by one that raises it, the data pads are turned to inputs
in or before the scan that lowers nOE, one chip select is lowered and raised again later,
the NAND pads stay where they are.  `BusCycleProofs` shows it of the cycles with the differences
between the CPUs as parameters; `MenuCalls`, `BankCalls` and `InitCalls` carry it over to
each CPU.  `NandCalls` is the same for the controller functions (`NandTidy`), and
`Operations` that each NAND operation ends by releasing the chip.

Then the state: `OneDriver` is not inductive, as a scan may lower nOE only because
the one before it turned the pads round and a chip select may be LOW only because a later scan
raises it.  `PadsInv` says of the cells with the scans and controller calls still to be made what
`Tidy` says of a list with nothing before it: a strobe is HIGH or the next scan raises it (`Strobed`),
nOE is HIGH or the pads are inputs (`TurnedRound`), one device at most is or will be selected (`OnlyBank`), and
each select that is LOW is raised by a scan or a call to come (`AllDeselected`).  The pads are
the cells, or a session has just been opened and nothing is driven (`Undriven`).  `PadsScan` shows that a
scan preserves it, `BusCall`, `NandCallLoaded` and `NextCallLoaded` that a call can begin.

All inductive invariants were checked with TLC before they were proved (of `RepliesInv` the sum that
`Owes` stands for).

Only model-checked:

* liveness (`Terminates`, `BurnEnds`, `ReadsReturn`, `OpsReturn`) and that `NandBurn`'s `Place`
  goes on (the fairness in `BurnSpec`): fairness is out of the prover's reach.
* `StorageSpec`: that the bytes of a transfer end up in the store, in their lanes and in order, is
  a statement about what whole lists of scans compute for a chip that answers; the proofs
  about `Bus` say who drives the pads and which edges come, not what the chip makes of them.
* `Identify`: the table and the answers of a chip are searched by recursion and folds over entries; what
  they compute is checked on enumerated chips.

## What is not modelled

* Configuration entries: `parse_file` is string handling; what an entry sets are the inputs of
  the other modules (offset, image, session, cable).
* `nand_ecc.cpp`: `board_nand_init` asks for `NAND_ECC_NONE` (`s3c24x0.cpp:257`), and nothing of
  the build reaches it.
* `nand_writev` and the placement of spare data of several pages (`nand_base.cpp:1656`):
  nothing calls them.
* The command sequences of NOR programming as bus cycles: `NorFlash` has their effect, `Bus` the
  cycles, `NorProbe` the sequences of detection.  Lock and unlock (`flash_real_protect`): nobody calls them.
* Cycles of 32 bits on the 16-bit buses of the S3C2450 and the S3C6410, which index past the
  tables of cells.
* NOR chips on a bus of 32 bits, and x8/x16 chips of the table wired as byte-wide ones.
* A parallel cable at another port than the first found.
* The OpenOCD command queue in `ft2232.cpp` and its other adapters' layouts: linked in,
  never called.  The BSDL tables: data.
* A USB write that delivers part of its commands, and whether a second open of a cable
  that was not closed succeeds: up to the USB library; writes are all or nothing, and
  `Open` may fail.
* `nand_bbt.cpp`, `nand_util.cpp`, `commands.cpp`, `ft2232_old.cpp`, the pin-level S3C2450 NAND
  file: not compiled.  `lib/`: vendored libftdi; the calls made of it are in `FtdiOpen` and
  `OpenJtag`.

## How to run

```
tlc -workers 2 -config OpenJtag.cfg MCOpenJtag.tla
tlapm OpenJtagProofs.tla
```

`PROJECT.json` lists every run with its properties, the source lines of every
definition, and for every property a changed definition it rejects.
