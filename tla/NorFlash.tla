------------------------------- MODULE NorFlash -------------------------------
(***************************************************************************)
(* Burning images into NOR flash: Nor_Menu and Nor_Program                 *)
(* (drivers/nor/nor_menu.cpp), flash_write with its checks                 *)
(* (common/flash.cpp), and detection, erase and programming of the chip    *)
(* (drivers/nor/cfi_flash.cpp, jedec_flash.cpp).  One run of oflash burns  *)
(* one image after another; flash_info and srcAddress are static and keep  *)
(* their values from image to image.                                       *)
(*                                                                         *)
(* One bank of 16-bit width at address 0, AMD or Intel command set.  The   *)
(* chip keeps up with JTAG, as the driver takes for granted where it left  *)
(* the status checks out ("not needed at JTAG access").                    *)
(***************************************************************************)
EXTENDS Integers, Sequences, FiniteSets, FiniteSetsExt

CONSTANTS
  Start,      \* sequence of sector start addresses, Start[1] = 0
  Size,       \* bytes of the chip
  BufBytes,   \* write buffer of the chip as CFI reports it, 1 if it has none
  Offsets,    \* target offsets tried
  Sizes,      \* image sizes tried, in bytes
  MaxImages   \* bound: images burnt in one run of the program

ASSUME GeometryAssumption ==
  /\ Start \in Seq(Nat) /\ Len(Start) > 0 /\ Start[1] = 0 /\ Size \in Nat
  /\ \A s \in 1 .. Len(Start) - 1 : Start[s] < Start[s + 1]
  /\ \A s \in 1 .. Len(Start) : Start[s] < Size /\ Start[s] % 2 = 0
  /\ Size % 2 = 0 /\ BufBytes \in Nat \ {0}
  /\ Offsets \subseteq Nat /\ Sizes \subseteq Nat /\ MaxImages \in Nat
\* A write buffer holds whole words and divides every sector.
ASSUME BufferAssumption ==
  BufBytes > 1 =>
    BufBytes % 2 = 0 /\ \A s \in 1 .. Len(Start) : Start[s] % BufBytes = 0

VARIABLES
  \* the chip
  flash,     \* address -> byte
  chip,      \* its command set, whether a JEDEC probe and a CFI query find it,
             \* and its locked sectors
  \* flash_info[0]
  vendor,    \* command set, 0 before the first detection
  portOk,    \* portwidth is 16 bits (otherwise what a failed CFI search leaves)
  known,     \* size and sectors are filled in
  buffer,    \* buffer_size
  protect,   \* sectors with protect[sect] # 0
  \* Nor_Program
  srcSize,   \* bytes allocated at srcAddress, 0 before the first image
  image,     \* number of the image
  offset, imageSize,
  pc,        \* "idle", "erase", "write", or how the program ended
  sect,      \* next sector to erase
  last,      \* last sector to erase
  wp, cnt,   \* write_buff: next address, bytes left
  rc         \* what flash_write returned; nobody looks at it

info == <<vendor, portOk, known, buffer, protect>>
vars == <<flash, chip, info, srcSize, image, offset, imageSize, pc, sect, last,
          wp, cnt, rc>>

Sector == 1 .. Len(Start)
Address == 0 .. Size - 1
SectorEnd(s) == IF s = Len(Start) THEN Size ELSE Start[s + 1]   \* s_end: the last
SectorOf(a) == CHOOSE s \in Sector : Start[s] <= a /\ a < SectorEnd(s)

\* Bytes on the chip and in images: byte k of image n, or one of these.
Erased == <<"erased">>    \* also what programming 0xff leaves
Old == <<"old">>
Mixed == <<"mixed">>
Byte(n, k) == <<n, k>>

CommandSets == {"none", "amd", "intel"}

-----------------------------------------------------------------------------
Init ==
  /\ flash = [a \in Address |-> Old]
  /\ chip \in [set : {"amd", "intel"}, jedec : BOOLEAN, cfi : BOOLEAN,
              locked : SUBSET Sector]
  /\ chip.set = "amd" => chip.locked = {}
  /\ vendor = "none" /\ portOk = TRUE /\ known = FALSE /\ buffer = 0 /\ protect = {}
  /\ srcSize = 0 /\ image = 0 /\ offset = 0 /\ imageSize = 0
  /\ pc = "idle" /\ sect = 0 /\ last = 0 /\ wp = 0 /\ cnt = 0 /\ rc = "none"

-----------------------------------------------------------------------------
(* flash_init *)

\* flash_detect_legacy probes by JEDEC id only while no vendor is known, as AMD
\* and then as Intel; a probe that fails leaves the vendor it tried last.
Vendorless == vendor = "none"
InTable == chip.jedec             \* the table of jedec_flash.cpp has the chip's id
LegacyFound == Vendorless /\ InTable

\* flash_detect_cfi tries every width from the port's on; without an answer it
\* leaves portwidth past the widest.
CfiFound == ~LegacyFound /\ chip.cfi

\* A JEDEC entry gives vendor, sectors and size; write buffer and protection stay
\* as they were.  A CFI answer gives all of them, protection on Intel chips only.
LegacyInfo == vendor' = chip.set /\ UNCHANGED <<buffer, protect>>
CfiInfo == vendor' = chip.set /\ buffer' = BufBytes /\ protect' = chip.locked
NoInfo == /\ vendor' = IF Vendorless THEN "intel" ELSE vendor
          /\ UNCHANGED <<buffer, protect>>

Detect ==
  /\ IF LegacyFound THEN LegacyInfo ELSE IF CfiFound THEN CfiInfo ELSE NoInfo
  /\ portOk' = (LegacyFound \/ CfiFound)
  /\ known' = (known \/ LegacyFound \/ CfiFound)

-----------------------------------------------------------------------------
(* Nor_Menu and the head of Nor_Program *)

\* The search of the sectors that hold the image: from the end of the bank down
\* to the first sector that starts inside it.
Fits(off, n) == off + n <= Size
LastTooFar(off, n) == Max({s \in Sector : Start[s] < off + n}) + 1   \* bugs to
LastIsFirst(off, n) == SectorOf(off)                                \* be seen
LastSector(off, n) == Max({s \in Sector : Start[s] < off + n})

Finish(why) ==
  /\ pc' = "idle" /\ rc' = why
  /\ sect' = 0 /\ last' = 0 /\ wp' = 0 /\ cnt' = 0

\* The program does not go on to another image.
Stop(how) == pc' = how /\ rc' = "none" /\ UNCHANGED <<sect, last, wp, cnt>>

\* One image: detect the chip, load the file, find the sectors.
Request(off, n) ==
  /\ pc = "idle" /\ image < MaxImages
  /\ image' = image + 1 /\ offset' = off /\ imageSize' = n
  /\ Detect
  /\ srcSize' = IF known' /\ srcSize = 0 THEN n + 4 ELSE srcSize
  /\ IF ~known' THEN Finish("undetected")
     ELSE IF n > srcSize' THEN Stop("overrun")      \* LoadImageFile past the buffer
     ELSE IF off \notin {Start[s] : s \in Sector} THEN Finish("offset")
     ELSE IF n = 0 THEN Stop("crashed")             \* the search leaves start[]
     ELSE IF ~Fits(off, n) THEN Finish("too big")
     ELSE /\ pc' = "erase"
          /\ sect' = SectorOf(off) /\ last' = LastSector(off, n)
          /\ rc' = "none" /\ UNCHANGED <<wp, cnt>>
  /\ UNCHANGED <<flash, chip>>

-----------------------------------------------------------------------------
(* flash_erase, its result is ignored *)

\* The command sent to a sector; a locked sector ignores it.
Wiped(s) == [a \in Address |-> IF SectorOf(a) = s /\ s \notin chip.locked
                               THEN Erased ELSE flash[a]]
EraseCommand(s) == flash' = IF s \in protect THEN flash ELSE Wiped(s)

EraseWaits ==                                                \* a bug to be seen
  /\ pc = "erase" /\ sect <= last /\ portOk
  /\ EraseCommand(sect)
  /\ sect' = IF sect \in protect THEN sect ELSE sect + 1
  /\ UNCHANGED <<chip, info, srcSize, image, offset, imageSize, pc, last, wp, cnt, rc>>
EraseSector ==
  /\ pc = "erase" /\ sect <= last /\ portOk
  /\ EraseCommand(sect)
  /\ sect' = sect + 1
  /\ UNCHANGED <<chip, info, srcSize, image, offset, imageSize, pc, last, wp, cnt, rc>>

\* With a width no case of the driver knows no command goes out; commands are
\* composed past the end of cfiword_t, and an Intel chip is waited for forever.
EraseBlindly ==
  /\ pc = "erase" /\ sect <= last /\ ~portOk
  /\ \/ sect \in protect /\ sect' = sect + 1 /\ UNCHANGED <<pc, last, wp, cnt, rc>>
     \/ /\ sect \notin protect
        /\ \/ vendor = "amd" /\ sect' = sect + 1 /\ UNCHANGED <<pc, last, wp, cnt, rc>>
           \/ vendor = "intel" /\ Stop("hung")
           \/ Stop("crashed")
  /\ UNCHANGED <<flash, chip, info, srcSize, image, offset, imageSize>>

-----------------------------------------------------------------------------
(* flash_write and write_buff *)

Overlaps(s) == offset + imageSize - 1 >= Start[s] /\ offset < SectorEnd(s)

NoSectorProtected == TRUE                                     \* a bug to be seen
Writable == \A s \in protect : ~Overlaps(s)

WriteBegin ==
  /\ pc = "erase" /\ sect > last
  /\ IF Writable
       THEN /\ pc' = "write" /\ wp' = offset /\ cnt' = imageSize
            /\ UNCHANGED <<sect, last, rc>>
       ELSE Finish("ERR_PROTECTED")
  /\ UNCHANGED <<flash, chip, info, srcSize, image, offset, imageSize>>

\* Program n bytes of the image at wp.  A byte that is not erased keeps bits of
\* what was there; a locked sector keeps everything.
Programmed(n) ==
  [a \in Address |->
     IF a < wp \/ a >= wp + n \/ SectorOf(a) \in chip.locked THEN flash[a]
     ELSE IF flash[a] = Erased THEN Byte(image, a - offset) ELSE Mixed]

\* Bytes of the next write: a word, or what is left of the image or of the
\* buffer's stretch of addresses, in whole words.
ChunkOfWords ==                    \* a bug to be seen: buffer taken for words
  IF buffer <= 1 THEN 2 ELSE IF cnt < 2 * buffer THEN cnt - (cnt % 2) ELSE 2 * buffer
Chunk ==
  IF buffer <= 1 THEN 2
  ELSE LET n == IF cnt < buffer - (wp % buffer) THEN cnt ELSE buffer - (wp % buffer)
       IN n - (n % 2)

WriteChunk ==
  /\ pc = "write" /\ portOk /\ cnt >= 2
  /\ flash' = Programmed(Chunk)
  /\ wp' = wp + Chunk /\ cnt' = cnt - Chunk
  /\ UNCHANGED <<chip, info, srcSize, image, offset, imageSize, pc, sect, last, rc>>

\* The last odd byte goes out in a word filled up with 0xff.
TailDropped ==                                               \* a bug to be seen
  /\ pc = "write" /\ portOk /\ cnt < 2
  /\ Finish("ERR_OK")
  /\ UNCHANGED <<flash, chip, info, srcSize, image, offset, imageSize>>
WriteTail ==
  /\ pc = "write" /\ portOk /\ cnt < 2
  /\ flash' = Programmed(cnt)
  /\ Finish("ERR_OK")
  /\ UNCHANGED <<chip, info, srcSize, image, offset, imageSize>>

WriteBlindly ==
  /\ pc = "write" /\ ~portOk
  /\ Finish("ERR_NOT_ERASED")
  /\ UNCHANGED <<flash, chip, info, srcSize, image, offset, imageSize>>

Next == \/ \E off \in Offsets, n \in Sizes : Request(off, n)
        \/ EraseSector \/ EraseBlindly
        \/ WriteBegin \/ WriteChunk \/ WriteTail \/ WriteBlindly

\* The program runs on by itself once it has read a request.
Spec == Init /\ [][Next]_vars
        /\ WF_vars(EraseSector \/ EraseBlindly \/ WriteBegin
                   \/ WriteChunk \/ WriteTail \/ WriteBlindly)

-----------------------------------------------------------------------------
(* Properties *)

TypeOK ==
  /\ \A a \in Address : \/ flash[a] \in {Erased, Old, Mixed}
                        \/ \E n \in 1 .. MaxImages, k \in Address : flash[a] = Byte(n, k)
  /\ DOMAIN flash = Address
  /\ vendor \in CommandSets /\ portOk \in BOOLEAN /\ known \in BOOLEAN
  /\ buffer \in Nat /\ protect \subseteq Sector /\ srcSize \in Nat
  /\ image \in 0 .. MaxImages /\ offset \in Offsets \cup {0} /\ imageSize \in Sizes \cup {0}
  /\ pc \in {"idle", "erase", "write", "overrun", "crashed", "hung"}
  /\ sect \in 0 .. Len(Start) + 1 /\ last \in 0 .. Len(Start)
  /\ wp \in 0 .. Size /\ cnt \in Nat

\* The sectors erased are enough and early enough: no byte of an image is ever
\* programmed over one that was not blank, in whatever order images are burnt.
NothingMixed == \A a \in Address : flash[a] # Mixed

\* What flash_write reports as written is on the chip: every byte of the image at
\* its address, whether it went out as words, as buffers or in a filled-up tail,
\* and the rest of the last sector is blank.  Only where a sector is locked that
\* the driver does not know of (a JEDEC entry says nothing of locks) it is not.
WrittenMeansThere ==
  rc = "ERR_OK" /\ (\A s \in chip.locked \ protect : ~Overlaps(s)) =>
    /\ \A k \in 0 .. imageSize - 1 : flash[offset + k] = Byte(image, k)
    /\ \A a \in offset + imageSize .. SectorEnd(LastSector(offset, imageSize)) - 1 :
         flash[a] = Erased

\* A burn changes only the sectors its image reaches into: images burnt before
\* into other sectors survive.
OtherSectorsKept ==
  [][\A a \in Address : flash'[a] # flash[a] =>
        pc \in {"erase", "write"} /\ Overlaps(SectorOf(a))]_vars

\* An image that reaches into a sector the driver knows to be protected is not
\* programmed at all, not even into its other sectors (they are erased by then).
ProtectedRefused ==
  [][\A a \in Address : flash'[a] # flash[a] =>
        SectorOf(a) \notin protect
        /\ (pc = "write" => \A s \in protect : ~Overlaps(s))]_vars

\* One write to the chip stays inside one stretch of its write buffer, which the
\* chip would otherwise wrap around in, and so inside one sector.
InsideBuffer ==
  [][pc = "write" /\ buffer > 1 /\ wp' > wp =>
       wp \div buffer = (wp' - 1) \div buffer]_vars

\* Whatever was detected, a burn with a known port width comes to an end.
BurnEnds == (pc = "erase" /\ portOk) ~> (pc = "idle")

-----------------------------------------------------------------------------
\* README.md:20, "several entries of the configuration write several files to
\* several offsets": each burn that ends ("done") has written its image, on a chip
\* without a locked sector.
EveryImageWritten ==
  [][pc = "write" /\ pc' = "idle" /\ chip.locked = {} =>
       \A k \in 0 .. imageSize - 1 : flash'[offset + k] = Byte(image, k)]_vars
=============================================================================
