------------------------------- MODULE OpenJtag -------------------------------
(***************************************************************************)
(* The OpenJTAG cable: the command buffer of the host                      *)
(* (drivers/ft2232/ft2232.cpp, drivers/jtag/openjtag/openjtag_jtag.cpp),   *)
(* the USB line, and the TAP of the CPU, which works through what was sent *)
(* while the host goes on.  The host is main's loop (oflash.cpp) with the  *)
(* cell initialisation (cpu/.../pin*.cpp), the NOR menu, the NAND menu and *)
(* the memory command line as users of the cable.                          *)
(*                                                                         *)
(* An operation travels whole: module Mpsse shows what the bits of one     *)
(* operation do from Run-Test/Idle.  Scans are numbered in the order the   *)
(* program asks for them; the number stands for the cells' values.  A USB  *)
(* write delivers all of the buffer or fails and delivers nothing, a read  *)
(* gets a whole reply or gives up before it came.                          *)
(***************************************************************************)
EXTENDS Integers, Sequences

CONSTANTS
  Capacity,   \* FT2232_BUFFER_SIZE
  DrBytes,    \* bytes of the commands of one data scan
  MaxScans, MaxRuns, MaxFaults   \* bounds: scans, images, USB failures

ASSUME SizeAssumption ==
  /\ Capacity \in Nat /\ DrBytes \in Nat \ {0}
  /\ MaxScans \in Nat /\ MaxRuns \in Nat /\ MaxFaults \in Nat

VARIABLES
  pc,        \* where the program is
  flash,     \* what it works on: "none", "nor", "nand", "mem"
  run,       \* number of the image
  buffer,    \* operations in ft2232_buffer
  size,      \* ft2232_buffer_size
  wire,      \* operations sent and not yet carried out
  replies,   \* captured cells on their way back
  tap,       \* state the TAP rests in
  ir,        \* its instruction
  latch,     \* number of the scan whose cells the last Update-DR latched
  scans,     \* scans asked for
  base,      \* scans asked for before the flash session began
  got,       \* rdDR of the last read scan
  faults     \* USB failures so far
host == <<pc, flash, run, buffer, size, scans, base, got, faults>>
target == <<tap, ir, latch>>
vars == <<host, wire, replies, target>>

Half == (Capacity * 5) \div 10
IdBytes == 22
RtiBytes == 6
IrBytes == 9

\* 131072 bytes, and 114 for the 819 cells of the S3C6410.
ASSUME RoomAssumption == IdBytes <= Half /\ Half + DrBytes <= Capacity

\* An operation: ir counts for "ir" only, n and read for "dr".
Rti == [op |-> "rti", ir |-> "IDCODE", n |-> 0, read |-> FALSE]
Ir(i) == [op |-> "ir", ir |-> i, n |-> 0, read |-> FALSE]
Dr(n, read) == [op |-> "dr", ir |-> "IDCODE", n |-> n, read |-> read]
Srst == [op |-> "srst", ir |-> "IDCODE", n |-> 0, read |-> FALSE]
Id == [op |-> "id", ir |-> "IDCODE", n |-> 0, read |-> TRUE]
\* The buffer after a reply was read into its first bytes.
Junk == [op |-> "junk", ir |-> "IDCODE", n |-> 0, read |-> FALSE]

Instruction == {"IDCODE", "SAMPLE", "EXTEST"}
Op == [op : {"rti", "ir", "dr", "id", "srst", "junk"}, ir : Instruction,
       n : 0 .. MaxScans, read : BOOLEAN]

\* A reply: the id, the sampled pins, or what the board answers to the cells of
\* scan n, which the pins carry.
IdReply == [kind |-> "id", n |-> 0]
SampleReply == [kind |-> "sample", n |-> 0]
PinsReply(n) == [kind |-> "pins", n |-> n]
Garbage == [kind |-> "garbage", n |-> 0]
Reply == [kind : {"id", "sample", "pins", "garbage"}, n : 0 .. MaxScans]

-----------------------------------------------------------------------------
Init ==
  /\ pc = "open" /\ flash = "none" /\ run = 0
  /\ buffer = <<>> /\ size = 0 /\ wire = <<>> /\ replies = <<>>
  /\ tap = "unknown" /\ ir = "IDCODE" /\ latch = 0
  /\ scans = 0 /\ base = 0 /\ got = Garbage /\ faults = 0

-----------------------------------------------------------------------------
(* The buffer *)

\* The commands fit; past the end the heap is overwritten and all bets are off.
Intact == size <= Capacity

\* ft2232_write of q, n bytes.
Written(q) == wire' = wire \o q /\ faults' = faults
Refused == faults < MaxFaults /\ faults' = faults + 1 /\ UNCHANGED wire

Hold(q, n) == buffer' = q /\ size' = n /\ UNCHANGED <<wire, faults>>

\* ft2232_exec_buf: after a failure the commands stay in the buffer.
FlushAgain(q, n) ==                                          \* bugs to be seen
  Written(q) /\ buffer' = q /\ size' = n
FlushLess(q, n) ==
  Written(q) /\ buffer' = <<>> /\ size' = size - n
Flush(q, n) ==
  \/ Written(q) /\ buffer' = <<>> /\ size' = 0
  \/ Refused /\ buffer' = q /\ size' = n

FullLater(n) == n >= Capacity                                \* a bug to be seen
ft2232_approach_full(n) == n > Half

\* A scan with a read: written out and waited for, or given up when the write fails.
SyncScanWaits(q, n, otherwise) ==                            \* a bug to be seen
  /\ pc' = "wait"
  /\ \/ Written(q) /\ buffer' = <<>> /\ size' = 0
     \/ Refused /\ buffer' = q /\ size' = n
SyncScan(q, n, otherwise) ==
  \/ Written(q) /\ buffer' = <<>> /\ size' = 0 /\ pc' = "wait"
  \/ Refused /\ buffer' = q /\ size' = n /\ pc' = otherwise

-----------------------------------------------------------------------------
(* main's loop up to the menu *)

\* The driver is opened anew for each image; the FT2232's queues are purged.
Open ==
  /\ pc = "open" /\ run < MaxRuns
  /\ run' = run + 1 /\ flash' = "none"
  /\ buffer' = <<>> /\ size' = 0 /\ wire' = <<>> /\ replies' = <<>>
  /\ pc' \in {"id", "failed"}
  /\ UNCHANGED <<scans, base, got, faults, target>>

\* After the id was read the commands' size is still there.
ReadCPUID ==
  /\ pc = "id"
  /\ buffer' = <<Id>> /\ size' = IdBytes
  /\ \/ Written(<<Id>>) /\ pc' = "waitid"
     \/ Refused /\ pc' = "failed"
  /\ UNCHANGED <<flash, run, scans, base, got, replies, target>>

IdReturns ==
  /\ pc = "waitid" /\ replies # <<>>
  /\ replies' = Tail(replies)
  /\ buffer' = <<Junk>>
  /\ pc' = IF Head(replies) = IdReply THEN "init" ELSE "failed"
  /\ UNCHANGED <<flash, run, size, scans, base, got, faults, wire, target>>

IdTimesOut ==
  /\ pc = "waitid" /\ replies = <<>>
  /\ faults < MaxFaults /\ faults' = faults + 1
  /\ pc' = "failed"
  /\ UNCHANGED <<flash, run, buffer, size, scans, base, got, wire, replies, target>>

\* InitCell; on the S3C6410 the way to Run-Test/Idle is sent at once.
InitUncleared ==                                             \* a bug to be seen
  /\ pc = "init"
  /\ Hold(Append(buffer, Rti), size + RtiBytes)
  /\ pc' = "preload"
  /\ UNCHANGED <<flash, run, scans, base, got, replies, target>>
InitIdle ==
  /\ pc = "init"
  /\ Hold(<<Rti>>, RtiBytes) \/ Flush(<<Rti>>, RtiBytes)
  /\ pc' = "preload"
  /\ UNCHANGED <<flash, run, scans, base, got, replies, target>>
PreloadNowhere ==                                            \* a bug to be seen
  /\ pc = "preload" /\ scans < MaxScans
  /\ scans' = scans + 1
  /\ SyncScan(buffer \o <<Ir("IDCODE"), Dr(scans + 1, TRUE)>>,
              size + IrBytes + DrBytes, "menu")
  /\ UNCHANGED <<flash, run, base, got, replies, target>>
Preload ==
  /\ pc = "preload" /\ scans < MaxScans
  /\ scans' = scans + 1
  /\ SyncScan(buffer \o <<Ir("SAMPLE"), Dr(scans + 1, TRUE)>>,
              size + IrBytes + DrBytes, "menu")
  /\ UNCHANGED <<flash, run, base, got, replies, target>>

-----------------------------------------------------------------------------
(* A session with the flash *)

\* No image file, or no such menu entry.
Leave ==
  /\ pc = "menu"
  /\ pc' \in {"failed", "exit"}
  /\ UNCHANGED <<flash, run, buffer, size, scans, base, got, faults, wire, replies, target>>

\* Nor_Menu and MRW_Menu clear and flush, the NAND's JtagInit only adds.
BeginMemory ==
  /\ pc = "menu"
  /\ flash' \in {"nor", "mem"}
  /\ Flush(<<Rti, Ir("EXTEST")>>, RtiBytes + IrBytes)
  /\ pc' = "burn" /\ base' = scans
  /\ UNCHANGED <<run, scans, got, replies, target>>
BeginNand ==
  /\ pc = "menu" /\ Intact
  /\ flash' = "nand"
  /\ Hold(buffer \o <<Rti, Ir("EXTEST")>>, size + RtiBytes + IrBytes)
  /\ pc' = "burn" /\ base' = scans
  /\ UNCHANGED <<run, scans, got, replies, target>>

\* JTAG_ShiftDRStateNoTdo
ShiftDRNoTdo ==
  /\ pc = "burn" /\ Intact /\ scans < MaxScans
  /\ scans' = scans + 1
  /\ LET q == Append(buffer, Dr(scans + 1, FALSE))
         n == size + DrBytes
     IN IF ft2232_approach_full(n) THEN Flush(q, n) ELSE Hold(q, n)
  /\ UNCHANGED <<pc, flash, run, base, got, replies, target>>

\* JTAG_ShiftDRState
ShiftDR ==
  /\ pc = "burn" /\ Intact /\ scans < MaxScans
  /\ scans' = scans + 1
  /\ SyncScan(Append(buffer, Dr(scans + 1, TRUE)), size + DrBytes, "burn")
  /\ UNCHANGED <<flash, run, base, got, replies, target>>

Resume == IF flash = "none" THEN "menu" ELSE "burn"
ReadKeepsReply ==                                            \* a bug to be seen
  /\ pc = "wait" /\ replies # <<>>
  /\ got' = Head(replies)
  /\ pc' = Resume
  /\ UNCHANGED <<flash, run, buffer, size, scans, base, faults, replies, wire, target>>
ReadReturns ==
  /\ pc = "wait" /\ replies # <<>>
  /\ got' = Head(replies) /\ replies' = Tail(replies)
  /\ pc' = Resume
  /\ UNCHANGED <<flash, run, buffer, size, scans, base, faults, wire, target>>

\* The retries run out; the reply is still to come.  The result is ignored, what
\* happens to be in the buffer is taken for the reply.
ReadTimesOut ==
  /\ pc = "wait" /\ replies = <<>>
  /\ faults < MaxFaults /\ faults' = faults + 1
  /\ got' = Garbage
  /\ pc' = Resume
  /\ UNCHANGED <<flash, run, buffer, size, scans, base, wire, replies, target>>

\* The end of an image: Nor_Program flushes and sleeps, the others, and
\* Nor_Program when it finds nothing to do, do neither.
NorUnflushed ==                                              \* a bug to be seen
  /\ pc = "burn" /\ flash = "nor"
  /\ pc' = "sleep"
  /\ UNCHANGED <<flash, run, buffer, size, scans, base, got, faults, wire, replies, target>>
NorDone ==
  /\ pc = "burn" /\ flash = "nor" /\ Intact
  /\ Flush(buffer, size)
  /\ pc' = "sleep"
  /\ UNCHANGED <<flash, run, scans, base, got, replies, target>>
\* One second is enough for what was sent.
Wake ==
  /\ pc = "sleep" /\ wire = <<>>
  /\ pc' = "open"
  /\ UNCHANGED <<flash, run, buffer, size, scans, base, got, faults, wire, replies, target>>
SessionLeft ==
  /\ pc = "burn" /\ Intact
  /\ pc' = "open"
  /\ UNCHANGED <<flash, run, buffer, size, scans, base, got, faults, wire, replies, target>>

\* The last image is done: ft2232_quit pulses the reset lines, behind what was
\* sent before, and frees the buffer; it ends early when a write fails, also the
\* one that ends the pulse.
Quit ==
  /\ pc = "open" /\ run > 0
  /\ pc' = "exit" /\ flash' = "none"
  /\ \/ Written(<<Srst>>) /\ buffer' \in {<<>>, buffer}
     \/ Refused /\ UNCHANGED buffer
  /\ UNCHANGED <<run, size, scans, base, got, replies, target>>

-----------------------------------------------------------------------------
(* The target *)

\* What a capture takes.
Captured == CASE ir = "EXTEST" -> PinsReply(latch)
              [] ir = "SAMPLE" -> SampleReply
              [] OTHER -> IdReply

Execute ==
  /\ wire # <<>>
  /\ wire' = Tail(wire)
  /\ LET o == Head(wire)
     IN CASE o.op = "rti" ->
               tap' = "RTI" /\ ir' = "IDCODE" /\ UNCHANGED <<latch, replies>>
          [] o.op = "srst" ->
               tap' = "TLR" /\ ir' = "IDCODE" /\ UNCHANGED <<latch, replies>>
          [] o.op = "id" ->
               /\ tap' = "TLR" /\ ir' = "IDCODE" /\ UNCHANGED latch
               /\ replies' = Append(replies, IdReply)
          [] o.op = "ir" /\ tap = "RTI" ->
               ir' = o.ir /\ UNCHANGED <<tap, latch, replies>>
          [] o.op = "dr" /\ tap = "RTI" ->
               /\ latch' = IF ir = "IDCODE" THEN latch ELSE o.n
               /\ replies' = IF o.read THEN Append(replies, Captured) ELSE replies
               /\ UNCHANGED <<tap, ir>>
          \* the movements of the operation start from the wrong state
          [] OTHER -> tap' = "lost" /\ UNCHANGED <<ir, latch, replies>>
  /\ UNCHANGED host

Next ==
  \/ Open \/ ReadCPUID \/ IdReturns \/ IdTimesOut \/ InitIdle \/ Preload
  \/ BeginMemory \/ BeginNand \/ ShiftDRNoTdo \/ ShiftDR \/ ReadReturns \/ ReadTimesOut
  \/ Leave \/ NorDone \/ Wake \/ SessionLeft \/ Quit \/ Execute

\* The FT2232 works through what it was sent, and a host that waits takes a reply
\* that is there.
Spec == Init /\ [][Next]_vars /\ WF_vars(Execute) /\ WF_vars(ReadReturns \/ IdReturns)

-----------------------------------------------------------------------------
(* Properties *)

TypeOK ==
  /\ pc \in {"open", "id", "waitid", "init", "preload", "menu", "burn", "wait",
             "sleep", "exit", "failed"}
  /\ flash \in {"none", "nor", "nand", "mem"}
  /\ run \in 0 .. MaxRuns /\ scans \in 0 .. MaxScans /\ base \in 0 .. scans
  /\ faults \in 0 .. MaxFaults
  /\ buffer \in Seq(Op) /\ wire \in Seq(Op) /\ replies \in Seq(Reply) /\ got \in Reply
  /\ size \in Nat
  /\ tap \in {"unknown", "TLR", "RTI", "lost"} /\ ir \in Instruction
  /\ latch \in 0 .. MaxScans

\* No operation ever starts from another TAP state than the one its movements are
\* for, whatever fails and whatever is sent again later: no leftover of one step
\* (the id's commands, an unsent session) is sent in front of the next.
NeverLost == tap # "lost"

\* Within a session the pins carry the cells of every scan, each once, in the order
\* the program asked for them, although scans are buffered, flushed at half full,
\* kept after a failed write and sent again.
ScansInOrder ==
  [][latch' # latch /\ flash # "none" /\ latch' > base =>
       latch' = IF latch <= base THEN base + 1 ELSE latch + 1]_vars

\* As long as USB works, a read scan gives the answer to the scan before it: the
\* one that put address and strobes on the pins, never an older or a later one.
ReadsAnswerScanBefore ==
  [][pc = "wait" /\ pc' = "burn" /\ faults' = 0 => got' = PinsReply(scans - 1)]_vars

\* As long as USB works, there is room for a whole scan whenever one begins: its
\* bytes are added before anybody looks whether the buffer is half full.
BufferBounded == faults = 0 => size + DrBytes <= Capacity

\* As long as USB works, the pins are driven only once this image's InitCell has
\* preloaded them: switching to EXTEST never drives what an earlier image left.
PreloadedFirst ==
  faults = 0 /\ ir = "EXTEST" /\ flash # "none" => latch >= base /\ latch > 0

\* As long as USB works, the pins have carried everything asked for when the NOR
\* programmer wakes and calls the image done.
NorDoneMeansDriven ==
  [][pc = "sleep" /\ pc' # "sleep" /\ faults = 0 => latch = scans]_vars

\* A read scan does not wait forever: its reply, or an older one, is under way.
ReadsReturn == (pc = "wait") ~> (pc # "wait")

-----------------------------------------------------------------------------
\* ft2232.cpp:300 asserts of every byte added that there is room for it.
RoomForEveryByte == size <= Capacity
=============================================================================
