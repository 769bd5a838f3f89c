------------------------------- MODULE BusProofs -------------------------------
(***************************************************************************)
(* For every board, NAND chip, bank setting and sequence of sessions: a    *)
(* data pad never has two drivers, and between two calls no strobe is LOW  *)
(* and nothing is selected that should not be.                             *)
(***************************************************************************)
EXTENDS Bus, ScanLists, SequenceTheorems, FiniteSetTheorems, TLAPS

BusLanes == IF cpu \in {"S3C2410", "S3C2440"} THEN 0 .. 3 ELSE 0 .. 1

\* The banks whose chip select has to be raised again: those with a device, and
\* the one that holds the S3C6410's NAND chip.
Watched == Devices \cup {b \in {2} : cpu = "S3C6410"}
Selects == {nCS(b) : b \in Watched} \cup {NandSelect}

\* S6410_Deassert_nCS compares with 0x38000000 before it does with 0x30000000 and
\* 0x28000000, and never raises nCS 3 and nCS 4: there is no device on them.
DeassertReaches == \A c \in Cpus : c = "S3C6410" => DOMAIN Board[c] \subseteq {0, 1, 2, 5}

-----------------------------------------------------------------------------
(* The bus cycles of each CPU are those of BusCycleProofs.                   *)

C2410 == INSTANCE BusCycleProofs WITH
           In <- M2410!In, Out <- M2410!Out, BusLanes <- M2410!BusLanes, AddrSpace <- M2410!S2410_SetAddr,
           Asserted <- M2410!S2410_Assert_nGCS, Deasserted <- M2410!S2410_Deassert_nGCS
LEMMA Cycles2410 ==
  ASSUME NEW addr, NEW n, NEW data, NEW en, NEW bs, NEW v
  PROVE  LET Clean(list, released) ==
               Tidy(list, M2410!BusLanes, M2410!In, M2410!S2410_Assert_nGCS(addr), released)
         IN /\ Clean(M2410!Cycle!ReadFast(addr, n, en, bs), M2410!S2410_Deassert_nGCS(addr))
            /\ Clean(M2410!Cycle!ReadSlow(addr, n, en, bs), M2410!S2410_Deassert_nGCS(addr))
            /\ Clean(M2410!Cycle!WriteStrobe(addr, data, en, bs), {})
            /\ Clean(M2410!Cycle!WriteFast(addr, data, en, bs), M2410!S2410_Deassert_nGCS(addr))
            /\ Clean(M2410!Cycle!WriteSlow(addr, data, en, bs), M2410!S2410_Deassert_nGCS(addr))
<1>1. /\ M2410!Cycle!ReadFast(addr, n, en, bs) = C2410!ReadFast(addr, n, en, bs)
      /\ M2410!Cycle!ReadSlow(addr, n, en, bs) = C2410!ReadSlow(addr, n, en, bs)
      /\ M2410!Cycle!WriteStrobe(addr, data, en, bs) = C2410!WriteStrobe(addr, data, en, bs)
      /\ M2410!Cycle!WriteFast(addr, data, en, bs)
         = C2410!WriteStrobe(addr, data, en, bs)
           \o C2410!WriteEnd(C2410!Direction(M2410!BusLanes, M2410!In), addr, data, en)
      /\ M2410!Cycle!WriteSlow(addr, data, en, bs) = C2410!WriteSlow(addr, data, en, bs)
  BY DEF
       M2410!Cycle!ReadEnd, M2410!Cycle!ReadFast, M2410!Cycle!ReadSlow,
       M2410!Cycle!WriteStrobe, M2410!Cycle!WriteEnd, M2410!Cycle!WriteSlow,
       M2410!Cycle!WriteFast, M2410!Cycle!Input, M2410!Cycle!Output, M2410!Cycle!Address,
       M2410!Cycle!Select, M2410!Cycle!Deselect, M2410!Cycle!Enabled, M2410!Cycle!Released,
       M2410!Cycle!Opened, M2410!Cycle!Shift, M2410!Cycle!Sample, M2410!Cycle!SetPins,
       M2410!Cycle!SetData, M2410!Cycle!Direction, M2410!Cycle!When, M2410!Cycle!Nothing,
       M2410!Cycle!++, M2410!Cycle!LOW, M2410!Cycle!HIGH, M2410!Cycle!nOE, M2410!Cycle!nWE,
       M2410!Cycle!nCS, M2410!Cycle!nBE, M2410!Cycle!DATA, M2410!Cycle!DATA_CON,
       M2410!Cycle!ADDR, C2410!ReadEnd, C2410!ReadFast, C2410!ReadSlow, C2410!WriteStrobe,
       C2410!WriteEnd, C2410!WriteSlow, C2410!WriteFast, C2410!Input, C2410!Output,
       C2410!Address, C2410!Select, C2410!Deselect, C2410!Enabled, C2410!Released,
       C2410!Opened, C2410!Shift, C2410!Sample, C2410!SetPins, C2410!SetData, C2410!Direction,
       C2410!When, C2410!Nothing, C2410!++, C2410!LOW, C2410!HIGH, C2410!nOE, C2410!nWE,
       C2410!nCS, C2410!nBE, C2410!DATA, C2410!DATA_CON, C2410!ADDR
<1>2. \A list, asserted, released :
        C2410!Tidy(list, M2410!BusLanes, M2410!In, asserted, released)
        => Tidy(list, M2410!BusLanes, M2410!In, asserted, released)
  BY DEF
       Tidy, IsList, Quiet, Pulsed, Turned, Selecting, LeftAlone, Lowers, Raises, Brings,
       Banks, HIGH, nOE, nWE, nFCE, nFRE, nFWE, nCS, DATA_CON, C2410!Tidy, C2410!IsList,
       C2410!Quiet, C2410!Pulsed, C2410!Turned, C2410!Selecting, C2410!LeftAlone, C2410!Lowers,
       C2410!Raises, C2410!Brings, C2410!Banks, C2410!HIGH, C2410!nOE, C2410!nWE, C2410!nFCE,
       C2410!nFRE, C2410!nFWE, C2410!nCS, C2410!DATA_CON
<1> QED
  BY <1>1, <1>2, C2410!ReadFastTidy, C2410!ReadSlowTidy, C2410!WriteStrobeTidy, C2410!WriteFastTidy,
     C2410!WriteSlowTidy

C2440 == INSTANCE BusCycleProofs WITH
           In <- M2440!In, Out <- M2440!Out, BusLanes <- M2440!BusLanes, AddrSpace <- M2440!S2440_SetAddr,
           Asserted <- M2440!S2410_Assert_nGCS, Deasserted <- M2440!S2410_Deassert_nGCS
LEMMA Cycles2440 ==
  ASSUME NEW addr, NEW n, NEW data, NEW en, NEW bs, NEW v
  PROVE  LET Clean(list, released) ==
               Tidy(list, M2440!BusLanes, M2440!In, M2440!S2410_Assert_nGCS(addr), released)
         IN /\ Clean(M2440!Cycle!ReadFast(addr, n, en, bs), M2440!S2410_Deassert_nGCS(addr))
            /\ Clean(M2440!Cycle!ReadSlow(addr, n, en, bs), M2440!S2410_Deassert_nGCS(addr))
            /\ Clean(M2440!Cycle!WriteStrobe(addr, data, en, bs), {})
            /\ Clean(M2440!Cycle!WriteFast(addr, data, en, bs), M2440!S2410_Deassert_nGCS(addr))
            /\ Clean(M2440!Cycle!WriteSlow(addr, data, en, bs), M2440!S2410_Deassert_nGCS(addr))
<1>1. /\ M2440!Cycle!ReadFast(addr, n, en, bs) = C2440!ReadFast(addr, n, en, bs)
      /\ M2440!Cycle!ReadSlow(addr, n, en, bs) = C2440!ReadSlow(addr, n, en, bs)
      /\ M2440!Cycle!WriteStrobe(addr, data, en, bs) = C2440!WriteStrobe(addr, data, en, bs)
      /\ M2440!Cycle!WriteFast(addr, data, en, bs)
         = C2440!WriteStrobe(addr, data, en, bs)
           \o C2440!WriteEnd(C2440!Direction(M2440!BusLanes, M2440!In), addr, data, en)
      /\ M2440!Cycle!WriteSlow(addr, data, en, bs) = C2440!WriteSlow(addr, data, en, bs)
  BY DEF
       M2440!Cycle!ReadEnd, M2440!Cycle!ReadFast, M2440!Cycle!ReadSlow,
       M2440!Cycle!WriteStrobe, M2440!Cycle!WriteEnd, M2440!Cycle!WriteSlow,
       M2440!Cycle!WriteFast, M2440!Cycle!Input, M2440!Cycle!Output, M2440!Cycle!Address,
       M2440!Cycle!Select, M2440!Cycle!Deselect, M2440!Cycle!Enabled, M2440!Cycle!Released,
       M2440!Cycle!Opened, M2440!Cycle!Shift, M2440!Cycle!Sample, M2440!Cycle!SetPins,
       M2440!Cycle!SetData, M2440!Cycle!Direction, M2440!Cycle!When, M2440!Cycle!Nothing,
       M2440!Cycle!++, M2440!Cycle!LOW, M2440!Cycle!HIGH, M2440!Cycle!nOE, M2440!Cycle!nWE,
       M2440!Cycle!nCS, M2440!Cycle!nBE, M2440!Cycle!DATA, M2440!Cycle!DATA_CON,
       M2440!Cycle!ADDR, C2440!ReadEnd, C2440!ReadFast, C2440!ReadSlow, C2440!WriteStrobe,
       C2440!WriteEnd, C2440!WriteSlow, C2440!WriteFast, C2440!Input, C2440!Output,
       C2440!Address, C2440!Select, C2440!Deselect, C2440!Enabled, C2440!Released,
       C2440!Opened, C2440!Shift, C2440!Sample, C2440!SetPins, C2440!SetData, C2440!Direction,
       C2440!When, C2440!Nothing, C2440!++, C2440!LOW, C2440!HIGH, C2440!nOE, C2440!nWE,
       C2440!nCS, C2440!nBE, C2440!DATA, C2440!DATA_CON, C2440!ADDR
<1>2. \A list, asserted, released :
        C2440!Tidy(list, M2440!BusLanes, M2440!In, asserted, released)
        => Tidy(list, M2440!BusLanes, M2440!In, asserted, released)
  BY DEF
       Tidy, IsList, Quiet, Pulsed, Turned, Selecting, LeftAlone, Lowers, Raises, Brings,
       Banks, HIGH, nOE, nWE, nFCE, nFRE, nFWE, nCS, DATA_CON, C2440!Tidy, C2440!IsList,
       C2440!Quiet, C2440!Pulsed, C2440!Turned, C2440!Selecting, C2440!LeftAlone, C2440!Lowers,
       C2440!Raises, C2440!Brings, C2440!Banks, C2440!HIGH, C2440!nOE, C2440!nWE, C2440!nFCE,
       C2440!nFRE, C2440!nFWE, C2440!nCS, C2440!DATA_CON
<1> QED
  BY <1>1, <1>2, C2440!ReadFastTidy, C2440!ReadSlowTidy, C2440!WriteStrobeTidy, C2440!WriteFastTidy,
     C2440!WriteSlowTidy

C2450 == INSTANCE BusCycleProofs WITH
           In <- M2450!In, Out <- M2450!Out, BusLanes <- M2450!BusLanes, AddrSpace <- M2450!S2450_SetAddr,
           Asserted <- M2450!S2450_Assert_nCS, Deasserted <- M2450!S2450_Deassert_nCS
LEMMA Cycles2450 ==
  ASSUME NEW addr, NEW n, NEW data, NEW en, NEW bs, NEW v
  PROVE  LET Clean(list, released) ==
               Tidy(list, M2450!BusLanes, M2450!In, M2450!S2450_Assert_nCS(addr), released)
         IN /\ Clean(M2450!Cycle!ReadFast(addr, n, en, bs), M2450!S2450_Deassert_nCS(addr))
            /\ Clean(M2450!Cycle!ReadSlow(addr, n, en, bs), M2450!S2450_Deassert_nCS(addr))
            /\ Clean(M2450!Cycle!WriteStrobe(addr, data, en, bs), {})
            /\ Clean(M2450!Cycle!WriteFast(addr, data, en, bs), M2450!S2450_Deassert_nCS(addr))
            /\ Clean(M2450!Cycle!WriteSlow(addr, data, en, bs), M2450!S2450_Deassert_nCS(addr))
<1>1. /\ M2450!Cycle!ReadFast(addr, n, en, bs) = C2450!ReadFast(addr, n, en, bs)
      /\ M2450!Cycle!ReadSlow(addr, n, en, bs) = C2450!ReadSlow(addr, n, en, bs)
      /\ M2450!Cycle!WriteStrobe(addr, data, en, bs) = C2450!WriteStrobe(addr, data, en, bs)
      /\ M2450!Cycle!WriteFast(addr, data, en, bs)
         = C2450!WriteStrobe(addr, data, en, bs)
           \o C2450!WriteEnd(C2450!Direction(M2450!BusLanes, M2450!In), addr, data, en)
      /\ M2450!Cycle!WriteSlow(addr, data, en, bs) = C2450!WriteSlow(addr, data, en, bs)
  BY DEF
       M2450!Cycle!ReadEnd, M2450!Cycle!ReadFast, M2450!Cycle!ReadSlow,
       M2450!Cycle!WriteStrobe, M2450!Cycle!WriteEnd, M2450!Cycle!WriteSlow,
       M2450!Cycle!WriteFast, M2450!Cycle!Input, M2450!Cycle!Output, M2450!Cycle!Address,
       M2450!Cycle!Select, M2450!Cycle!Deselect, M2450!Cycle!Enabled, M2450!Cycle!Released,
       M2450!Cycle!Opened, M2450!Cycle!Shift, M2450!Cycle!Sample, M2450!Cycle!SetPins,
       M2450!Cycle!SetData, M2450!Cycle!Direction, M2450!Cycle!When, M2450!Cycle!Nothing,
       M2450!Cycle!++, M2450!Cycle!LOW, M2450!Cycle!HIGH, M2450!Cycle!nOE, M2450!Cycle!nWE,
       M2450!Cycle!nCS, M2450!Cycle!nBE, M2450!Cycle!DATA, M2450!Cycle!DATA_CON,
       M2450!Cycle!ADDR, C2450!ReadEnd, C2450!ReadFast, C2450!ReadSlow, C2450!WriteStrobe,
       C2450!WriteEnd, C2450!WriteSlow, C2450!WriteFast, C2450!Input, C2450!Output,
       C2450!Address, C2450!Select, C2450!Deselect, C2450!Enabled, C2450!Released,
       C2450!Opened, C2450!Shift, C2450!Sample, C2450!SetPins, C2450!SetData, C2450!Direction,
       C2450!When, C2450!Nothing, C2450!++, C2450!LOW, C2450!HIGH, C2450!nOE, C2450!nWE,
       C2450!nCS, C2450!nBE, C2450!DATA, C2450!DATA_CON, C2450!ADDR
<1>2. \A list, asserted, released :
        C2450!Tidy(list, M2450!BusLanes, M2450!In, asserted, released)
        => Tidy(list, M2450!BusLanes, M2450!In, asserted, released)
  BY DEF
       Tidy, IsList, Quiet, Pulsed, Turned, Selecting, LeftAlone, Lowers, Raises, Brings,
       Banks, HIGH, nOE, nWE, nFCE, nFRE, nFWE, nCS, DATA_CON, C2450!Tidy, C2450!IsList,
       C2450!Quiet, C2450!Pulsed, C2450!Turned, C2450!Selecting, C2450!LeftAlone, C2450!Lowers,
       C2450!Raises, C2450!Brings, C2450!Banks, C2450!HIGH, C2450!nOE, C2450!nWE, C2450!nFCE,
       C2450!nFRE, C2450!nFWE, C2450!nCS, C2450!DATA_CON
<1> QED
  BY <1>1, <1>2, C2450!ReadFastTidy, C2450!ReadSlowTidy, C2450!WriteStrobeTidy, C2450!WriteFastTidy,
     C2450!WriteSlowTidy

C6410 == INSTANCE BusCycleProofs WITH
           In <- M6410!In, Out <- M6410!Out, BusLanes <- M6410!BusLanes, AddrSpace <- M6410!S6410_SetAddr,
           Asserted <- M6410!S6410_Assert_nCS, Deasserted <- M6410!S6410_Deassert_nCS
LEMMA Cycles6410 ==
  ASSUME NEW addr, NEW n, NEW data, NEW en, NEW bs, NEW v
  PROVE  LET Clean(list, released) ==
               Tidy(list, M6410!BusLanes, M6410!In, M6410!S6410_Assert_nCS(addr), released)
         IN /\ Clean(M6410!Cycle!ReadFast(addr, n, en, bs), M6410!S6410_Deassert_nCS(addr))
            /\ Clean(M6410!Cycle!ReadSlow(addr, n, en, bs), M6410!S6410_Deassert_nCS(addr))
            /\ Clean(M6410!Cycle!WriteStrobe(addr, data, en, bs), {})
            /\ Clean(M6410!Cycle!WriteFast(addr, data, en, bs), M6410!S6410_Deassert_nCS(addr))
            /\ Clean(M6410!Cycle!WriteSlow(addr, data, en, bs), M6410!S6410_Deassert_nCS(addr))
            /\ Clean(M6410!MRW_Wr16QQ(addr, data, en, bs), M6410!S6410_Deassert_nCS(addr))
<1>1. /\ M6410!Cycle!ReadFast(addr, n, en, bs) = C6410!ReadFast(addr, n, en, bs)
      /\ M6410!Cycle!ReadSlow(addr, n, en, bs) = C6410!ReadSlow(addr, n, en, bs)
      /\ M6410!Cycle!WriteStrobe(addr, data, en, bs) = C6410!WriteStrobe(addr, data, en, bs)
      /\ M6410!Cycle!WriteFast(addr, data, en, bs)
         = C6410!WriteStrobe(addr, data, en, bs)
           \o C6410!WriteEnd(C6410!Direction(M6410!BusLanes, M6410!In), addr, data, en)
      /\ M6410!Cycle!WriteSlow(addr, data, en, bs) = C6410!WriteSlow(addr, data, en, bs)
      /\ M6410!MRW_Wr16QQ(addr, data, en, bs)
         = C6410!WriteStrobe(addr, data, en, bs)
           \o C6410!WriteEnd(C6410!Direction(M6410!BusLanes, M6410!Out), addr, data, en)
  BY DEF
       M6410!MRW_Wr16QQ, M6410!Direction, M6410!SetPins, M6410!DATA_CON, M6410!Cycle!ReadEnd,
       M6410!Cycle!ReadFast, M6410!Cycle!ReadSlow, M6410!Cycle!WriteStrobe,
       M6410!Cycle!WriteEnd, M6410!Cycle!WriteSlow, M6410!Cycle!WriteFast, M6410!Cycle!Input,
       M6410!Cycle!Output, M6410!Cycle!Address, M6410!Cycle!Select, M6410!Cycle!Deselect,
       M6410!Cycle!Enabled, M6410!Cycle!Released, M6410!Cycle!Opened, M6410!Cycle!Shift,
       M6410!Cycle!Sample, M6410!Cycle!SetPins, M6410!Cycle!SetData, M6410!Cycle!Direction,
       M6410!Cycle!When, M6410!Cycle!Nothing, M6410!Cycle!++, M6410!Cycle!LOW,
       M6410!Cycle!HIGH, M6410!Cycle!nOE, M6410!Cycle!nWE, M6410!Cycle!nCS, M6410!Cycle!nBE,
       M6410!Cycle!DATA, M6410!Cycle!DATA_CON, M6410!Cycle!ADDR, C6410!ReadEnd, C6410!ReadFast,
       C6410!ReadSlow, C6410!WriteStrobe, C6410!WriteEnd, C6410!WriteSlow, C6410!WriteFast,
       C6410!Input, C6410!Output, C6410!Address, C6410!Select, C6410!Deselect, C6410!Enabled,
       C6410!Released, C6410!Opened, C6410!Shift, C6410!Sample, C6410!SetPins, C6410!SetData,
       C6410!Direction, C6410!When, C6410!Nothing, C6410!++, C6410!LOW, C6410!HIGH, C6410!nOE,
       C6410!nWE, C6410!nCS, C6410!nBE, C6410!DATA, C6410!DATA_CON, C6410!ADDR
<1>2. \A list, asserted, released :
        C6410!Tidy(list, M6410!BusLanes, M6410!In, asserted, released)
        => Tidy(list, M6410!BusLanes, M6410!In, asserted, released)
  BY DEF
       Tidy, IsList, Quiet, Pulsed, Turned, Selecting, LeftAlone, Lowers, Raises, Brings,
       Banks, HIGH, nOE, nWE, nFCE, nFRE, nFWE, nCS, DATA_CON, C6410!Tidy, C6410!IsList,
       C6410!Quiet, C6410!Pulsed, C6410!Turned, C6410!Selecting, C6410!LeftAlone, C6410!Lowers,
       C6410!Raises, C6410!Brings, C6410!Banks, C6410!HIGH, C6410!nOE, C6410!nWE, C6410!nFCE,
       C6410!nFRE, C6410!nFWE, C6410!nCS, C6410!DATA_CON
<1> QED
  BY <1>1, <1>2, C6410!ReadFastTidy, C6410!ReadSlowTidy, C6410!WriteStrobeTidy, C6410!WriteFastTidy,
     C6410!WriteSlowTidy

-----------------------------------------------------------------------------
(* What the calls on the memory bus select.                                  *)

Commands == {"rb", "rh", "rw", "wb", "wh", "ww"}

\* A call of the menu deselects again what it selects.
MenuCall(list) == \E x \in Banks : Tidy(list, BusLanes, In, {x}, {x} \cap Watched)
\* A call of the others selects its bank alone.
BankCall(list, x) == Tidy(list, BusLanes, In, {x}, {})

LEMMA Narrowed ==
  ASSUME NEW list, NEW bus, NEW in, NEW asserted, NEW released, NEW x, NEW kept,
         asserted \subseteq {x}, asserted \cap kept \subseteq released,
         Tidy(list, bus, in, asserted, released)
  PROVE  Tidy(list, bus, in, {x}, {x} \cap kept)
  BY DEF Tidy, Selecting

\* The S3C2410.
LEMMA Selected2410 ==
  ASSUME cpu = "S3C2410", cpu \in Cpus
  PROVE  /\ \A addr \in Int : \E x \in Banks :
              /\ M2410!S2410_Assert_nGCS(addr) \subseteq {x}
              /\ M2410!S2410_Assert_nGCS(addr) \cap Watched \subseteq M2410!S2410_Deassert_nGCS(addr)
         /\ \A x \in Devices, d \in 0 .. 4 : M2410!S2410_Assert_nGCS(Base(x) + d) \subseteq {x}
<1>1. \A addr \in Int : \E x \in Banks : M2410!S2410_Assert_nGCS(addr) \subseteq {x}
  BY DEF M2410!S2410_Assert_nGCS, M2410!Banks, Banks
<1>2. \A addr \in Int : M2410!S2410_Assert_nGCS(addr) = M2410!S2410_Deassert_nGCS(addr)
  BY DEF M2410!S2410_Assert_nGCS, M2410!S2410_Deassert_nGCS
<1>3. ASSUME NEW x \in Devices, NEW d \in 0 .. 4
      PROVE  M2410!S2410_Assert_nGCS(Base(x) + d) \subseteq {x}
  <2>1. x \in Nat
    BY <1>3, BoardAssumption DEF Devices, Cpus
  <2>2. Base(x) = x * 2^27
    BY DEF Base
  <2> QED BY <1>3, <2>1, <2>2 DEF M2410!S2410_Assert_nGCS
<1> QED BY <1>1, <1>2, <1>3

LEMMA Menu2410 ==
  ASSUME cpu = "S3C2410", cpu \in Cpus,
         NEW command \in Commands, NEW addr \in Int, NEW data, NEW width, NEW en
  PROVE  LET does == MRW_Menu(command, addr, data, width, en)
         IN does.scans # <<>> => MenuCall(does.scans)
<1>1. BusLanes = M2410!BusLanes /\ In = M2410!In
  BY DEF BusLanes, In, M2410!BusLanes, M2410!In, M2410!HIGH, HIGH
<1>2. ASSUME NEW at \in Int, NEW bytes, NEW bs, NEW what, NEW enabled
      PROVE  /\ MenuCall(M2410!Cycle!ReadSlow(at, bytes, enabled, bs))
             /\ MenuCall(M2410!Cycle!WriteSlow(at, what, enabled, bs))
  <2>1. PICK x \in Banks :
          /\ M2410!S2410_Assert_nGCS(at) \subseteq {x}
          /\ M2410!S2410_Assert_nGCS(at) \cap Watched \subseteq M2410!S2410_Deassert_nGCS(at)
    BY <1>2, Selected2410
  <2>2. /\ Tidy(M2410!Cycle!ReadSlow(at, bytes, enabled, bs), BusLanes, In,
                M2410!S2410_Assert_nGCS(at), M2410!S2410_Deassert_nGCS(at))
        /\ Tidy(M2410!Cycle!WriteSlow(at, what, enabled, bs), BusLanes, In,
                M2410!S2410_Assert_nGCS(at), M2410!S2410_Deassert_nGCS(at))
    BY <1>1, Cycles2410
  <2>3. \A list : Tidy(list, BusLanes, In, M2410!S2410_Assert_nGCS(at), M2410!S2410_Deassert_nGCS(at))
                  => MenuCall(list)
    BY <2>1, Narrowed DEF MenuCall
  <2> QED BY <2>2, <2>3
<1>3. ASSUME NEW at \in Int, NEW n
      PROVE  LET r == M2410!Cycle!ReadUnit(at, n, width, en)
                 w == M2410!Cycle!WriteUnit(at, data, width, en)
             IN (r.scans # <<>> => MenuCall(r.scans)) /\ (w.scans # <<>> => MenuCall(w.scans))
  <2>1. M2410!Cycle!Refused.scans = <<>>
    BY DEF M2410!Cycle!Refused
  <2> QED BY <1>2, <1>3, <2>1 DEF M2410!Cycle!ReadUnit, M2410!Cycle!WriteUnit
<1>4. /\ addr - (addr % 2) \in Int /\ addr - (addr % 4) \in Int
  OBVIOUS
<1> QED
  BY <1>3, <1>4 DEF MRW_Menu, M2410!MRW_Menu, Commands, M2410!MRW_RdByte, M2410!MRW_RdHW,
     M2410!MRW_RdWord, M2410!MRW_WrByte, M2410!MRW_WrHW, M2410!MRW_WrWord

LEMMA Access2410 ==
  ASSUME cpu = "S3C2410", cpu \in Cpus,
         NEW x \in Devices, NEW d \in 0 .. 4, NEW data, NEW width \in {8, 16, 32}
  PROVE  /\ BankCall(jtag_mem_rdwr(Base(x) + d, data, width), x)
         /\ \A name \in {"R", "Q", "QQ"} : \A en, bs : (data = <<>> <=> name = "R") =>
              BankCall(Unused(name, Base(x) + d, data, width, en, bs), x)
<1> DEFINE at == Base(x) + d
<1>1. BusLanes = M2410!BusLanes /\ In = M2410!In
  BY DEF BusLanes, In, M2410!BusLanes, M2410!In, M2410!HIGH, HIGH
<1>2. M2410!S2410_Assert_nGCS(at) \subseteq {x}
  BY Selected2410
<1> HIDE DEF at
<1>3. \A list, released : Tidy(list, BusLanes, In, M2410!S2410_Assert_nGCS(at), released)
                          => BankCall(list, x)
  BY <1>2 DEF BankCall, Tidy, Selecting
<1>4. \A bytes, en, bs :
        /\ BankCall(M2410!Cycle!ReadFast(at, bytes, en, bs), x)
        /\ BankCall(M2410!Cycle!ReadSlow(at, bytes, en, bs), x)
        /\ BankCall(M2410!Cycle!WriteStrobe(at, data, en, bs), x)
        /\ BankCall(M2410!Cycle!WriteFast(at, data, en, bs), x)
        /\ BankCall(M2410!Cycle!WriteSlow(at, data, en, bs), x)
  BY <1>1, <1>3, Cycles2410
<1>5. BankCall(jtag_mem_rdwr(at, data, width), x)
  BY <1>4 DEF jtag_mem_rdwr, M2410!jtag_mem_rdwr, M2410!MRW_Rd8, M2410!MRW_Rd16Q_,
     M2410!MRW_Rd16Q, M2410!MRW_Rd32_, M2410!MRW_Rd32, M2410!MRW_Wr8, M2410!MRW_Wr16QQ_,
     M2410!MRW_Wr16QQ, M2410!MRW_Wr32_, M2410!MRW_Wr32
<1>6. ASSUME NEW name \in {"R", "Q", "QQ"}, NEW en, NEW bs, data = <<>> <=> name = "R"
      PROVE  BankCall(Unused(name, at, data, width, en, bs), x)
  BY <1>4, <1>6 DEF Unused, M2410!Unused, M2410!MRW_Rd8Q, M2410!MRW_Rd16Q, M2410!MRW_Rd32Q,
     M2410!MRW_Wr8Q, M2410!MRW_Wr8QQ, M2410!MRW_Wr16Q, M2410!MRW_Wr16QQ, M2410!MRW_Wr32Q,
     M2410!MRW_Wr32QQ
<1> QED BY <1>5, <1>6 DEF at

\* The S3C2440.
LEMMA Selected2440 ==
  ASSUME cpu = "S3C2440", cpu \in Cpus
  PROVE  /\ \A addr \in Int : \E x \in Banks :
              /\ M2440!S2410_Assert_nGCS(addr) \subseteq {x}
              /\ M2440!S2410_Assert_nGCS(addr) \cap Watched \subseteq M2440!S2410_Deassert_nGCS(addr)
         /\ \A x \in Devices, d \in 0 .. 4 : M2440!S2410_Assert_nGCS(Base(x) + d) \subseteq {x}
<1>1. \A addr \in Int : \E x \in Banks : M2440!S2410_Assert_nGCS(addr) \subseteq {x}
  BY DEF M2440!S2410_Assert_nGCS, M2440!Banks, Banks
<1>2. \A addr \in Int : M2440!S2410_Assert_nGCS(addr) = M2440!S2410_Deassert_nGCS(addr)
  BY DEF M2440!S2410_Assert_nGCS, M2440!S2410_Deassert_nGCS
<1>3. ASSUME NEW x \in Devices, NEW d \in 0 .. 4
      PROVE  M2440!S2410_Assert_nGCS(Base(x) + d) \subseteq {x}
  <2>1. x \in Nat
    BY <1>3, BoardAssumption DEF Devices, Cpus
  <2>2. Base(x) = x * 2^27
    BY DEF Base
  <2> QED BY <1>3, <2>1, <2>2 DEF M2440!S2410_Assert_nGCS
<1> QED BY <1>1, <1>2, <1>3

LEMMA Menu2440 ==
  ASSUME cpu = "S3C2440", cpu \in Cpus,
         NEW command \in Commands, NEW addr \in Int, NEW data, NEW width, NEW en
  PROVE  LET does == MRW_Menu(command, addr, data, width, en)
         IN does.scans # <<>> => MenuCall(does.scans)
<1>1. BusLanes = M2440!BusLanes /\ In = M2440!In
  BY DEF BusLanes, In, M2440!BusLanes, M2440!In, M2440!HIGH, HIGH
<1>2. ASSUME NEW at \in Int, NEW bytes, NEW bs, NEW what, NEW enabled
      PROVE  /\ MenuCall(M2440!Cycle!ReadSlow(at, bytes, enabled, bs))
             /\ MenuCall(M2440!Cycle!WriteSlow(at, what, enabled, bs))
  <2>1. PICK x \in Banks :
          /\ M2440!S2410_Assert_nGCS(at) \subseteq {x}
          /\ M2440!S2410_Assert_nGCS(at) \cap Watched \subseteq M2440!S2410_Deassert_nGCS(at)
    BY <1>2, Selected2440
  <2>2. /\ Tidy(M2440!Cycle!ReadSlow(at, bytes, enabled, bs), BusLanes, In,
                M2440!S2410_Assert_nGCS(at), M2440!S2410_Deassert_nGCS(at))
        /\ Tidy(M2440!Cycle!WriteSlow(at, what, enabled, bs), BusLanes, In,
                M2440!S2410_Assert_nGCS(at), M2440!S2410_Deassert_nGCS(at))
    BY <1>1, Cycles2440
  <2>3. \A list : Tidy(list, BusLanes, In, M2440!S2410_Assert_nGCS(at), M2440!S2410_Deassert_nGCS(at))
                  => MenuCall(list)
    BY <2>1, Narrowed DEF MenuCall
  <2> QED BY <2>2, <2>3
<1>3. ASSUME NEW at \in Int, NEW n
      PROVE  LET r == M2440!Cycle!ReadUnit(at, n, width, en)
                 w == M2440!Cycle!WriteUnit(at, data, width, en)
             IN (r.scans # <<>> => MenuCall(r.scans)) /\ (w.scans # <<>> => MenuCall(w.scans))
  <2>1. M2440!Cycle!Refused.scans = <<>>
    BY DEF M2440!Cycle!Refused
  <2> QED BY <1>2, <1>3, <2>1 DEF M2440!Cycle!ReadUnit, M2440!Cycle!WriteUnit
<1>4. /\ addr - (addr % 2) \in Int /\ addr - (addr % 4) \in Int
  OBVIOUS
<1> QED
  BY <1>3, <1>4 DEF MRW_Menu, M2440!MRW_Menu, Commands, M2440!MRW_RdByte, M2440!MRW_RdHW,
     M2440!MRW_RdWord, M2440!MRW_WrByte, M2440!MRW_WrHW, M2440!MRW_WrWord

LEMMA Access2440 ==
  ASSUME cpu = "S3C2440", cpu \in Cpus,
         NEW x \in Devices, NEW d \in 0 .. 4, NEW data, NEW width \in {8, 16, 32}
  PROVE  /\ BankCall(jtag_mem_rdwr(Base(x) + d, data, width), x)
         /\ \A name \in {"R", "Q", "QQ"} : \A en, bs : (data = <<>> <=> name = "R") =>
              BankCall(Unused(name, Base(x) + d, data, width, en, bs), x)
<1> DEFINE at == Base(x) + d
<1>1. BusLanes = M2440!BusLanes /\ In = M2440!In
  BY DEF BusLanes, In, M2440!BusLanes, M2440!In, M2440!HIGH, HIGH
<1>2. M2440!S2410_Assert_nGCS(at) \subseteq {x}
  BY Selected2440
<1> HIDE DEF at
<1>3. \A list, released : Tidy(list, BusLanes, In, M2440!S2410_Assert_nGCS(at), released)
                          => BankCall(list, x)
  BY <1>2 DEF BankCall, Tidy, Selecting
<1>4. \A bytes, en, bs :
        /\ BankCall(M2440!Cycle!ReadFast(at, bytes, en, bs), x)
        /\ BankCall(M2440!Cycle!ReadSlow(at, bytes, en, bs), x)
        /\ BankCall(M2440!Cycle!WriteStrobe(at, data, en, bs), x)
        /\ BankCall(M2440!Cycle!WriteFast(at, data, en, bs), x)
        /\ BankCall(M2440!Cycle!WriteSlow(at, data, en, bs), x)
  BY <1>1, <1>3, Cycles2440
<1>5. BankCall(jtag_mem_rdwr(at, data, width), x)
  BY <1>4 DEF jtag_mem_rdwr, M2440!jtag_mem_rdwr, M2440!MRW_Rd8, M2440!MRW_Rd16Q_,
     M2440!MRW_Rd16Q, M2440!MRW_Rd32_, M2440!MRW_Rd32, M2440!MRW_Wr8, M2440!MRW_Wr16QQ_,
     M2440!MRW_Wr16QQ, M2440!MRW_Wr32_, M2440!MRW_Wr32
<1>6. ASSUME NEW name \in {"R", "Q", "QQ"}, NEW en, NEW bs, data = <<>> <=> name = "R"
      PROVE  BankCall(Unused(name, at, data, width, en, bs), x)
  BY <1>4, <1>6 DEF Unused, M2440!Unused, M2440!MRW_Rd8Q, M2440!MRW_Rd16Q, M2440!MRW_Rd32Q,
     M2440!MRW_Wr8Q, M2440!MRW_Wr8QQ, M2440!MRW_Wr16Q, M2440!MRW_Wr16QQ, M2440!MRW_Wr32Q,
     M2440!MRW_Wr32QQ
<1> QED BY <1>5, <1>6 DEF at

\* The S3C2450.
LEMMA Selected2450 ==
  ASSUME cpu = "S3C2450", cpu \in Cpus
  PROVE  /\ \A addr \in Int : \E x \in Banks :
              /\ M2450!S2450_Assert_nCS(addr) \subseteq {x}
              /\ M2450!S2450_Assert_nCS(addr) \cap Watched \subseteq M2450!S2450_Deassert_nCS(addr)
         /\ \A x \in Devices, d \in 0 .. 4 : M2450!S2450_Assert_nCS(Base(x) + d) \subseteq {x}
<1>1. \A addr \in Int : \E x \in Banks : M2450!S2450_Assert_nCS(addr) \subseteq {x}
  BY DEF M2450!S2450_Assert_nCS, M2450!Banks, Banks
<1>2. \A addr \in Int : M2450!S2450_Assert_nCS(addr) = M2450!S2450_Deassert_nCS(addr)
  BY DEF M2450!S2450_Assert_nCS, M2450!S2450_Deassert_nCS
<1>3. ASSUME NEW x \in Devices, NEW d \in 0 .. 4
      PROVE  M2450!S2450_Assert_nCS(Base(x) + d) \subseteq {x}
  <2>1. x \in Nat
    BY <1>3, BoardAssumption DEF Devices, Cpus
  <2>2. Base(x) = x * 2^27
    BY DEF Base
  <2> QED BY <1>3, <2>1, <2>2 DEF M2450!S2450_Assert_nCS
<1> QED BY <1>1, <1>2, <1>3

LEMMA Menu2450 ==
  ASSUME cpu = "S3C2450", cpu \in Cpus,
         NEW command \in Commands, NEW addr \in Int, NEW data, NEW width, NEW en
  PROVE  LET does == MRW_Menu(command, addr, data, width, en)
         IN does.scans # <<>> => MenuCall(does.scans)
<1>1. BusLanes = M2450!BusLanes /\ In = M2450!In
  BY DEF BusLanes, In, M2450!BusLanes, M2450!In, M2450!LOW, LOW
<1>2. ASSUME NEW at \in Int, NEW bytes, NEW bs, NEW what, NEW enabled
      PROVE  /\ MenuCall(M2450!Cycle!ReadSlow(at, bytes, enabled, bs))
             /\ MenuCall(M2450!Cycle!WriteSlow(at, what, enabled, bs))
  <2>1. PICK x \in Banks :
          /\ M2450!S2450_Assert_nCS(at) \subseteq {x}
          /\ M2450!S2450_Assert_nCS(at) \cap Watched \subseteq M2450!S2450_Deassert_nCS(at)
    BY <1>2, Selected2450
  <2>2. /\ Tidy(M2450!Cycle!ReadSlow(at, bytes, enabled, bs), BusLanes, In,
                M2450!S2450_Assert_nCS(at), M2450!S2450_Deassert_nCS(at))
        /\ Tidy(M2450!Cycle!WriteSlow(at, what, enabled, bs), BusLanes, In,
                M2450!S2450_Assert_nCS(at), M2450!S2450_Deassert_nCS(at))
    BY <1>1, Cycles2450
  <2>3. \A list : Tidy(list, BusLanes, In, M2450!S2450_Assert_nCS(at), M2450!S2450_Deassert_nCS(at))
                  => MenuCall(list)
    BY <2>1, Narrowed DEF MenuCall
  <2> QED BY <2>2, <2>3
<1>3. ASSUME NEW at \in Int, NEW n
      PROVE  LET r == M2450!Cycle!ReadUnit(at, n, width, en)
                 w == M2450!Cycle!WriteUnit(at, data, width, en)
             IN (r.scans # <<>> => MenuCall(r.scans)) /\ (w.scans # <<>> => MenuCall(w.scans))
  <2>1. M2450!Cycle!Refused.scans = <<>>
    BY DEF M2450!Cycle!Refused
  <2> QED BY <1>2, <1>3, <2>1 DEF M2450!Cycle!ReadUnit, M2450!Cycle!WriteUnit
<1>4. /\ addr - (addr % 2) \in Int /\ addr - (addr % 4) \in Int
  OBVIOUS
<1> QED
  BY <1>3, <1>4 DEF MRW_Menu, M2450!MRW_Menu, Commands, M2450!MRW_RdByte, M2450!MRW_RdHW,
     M2450!MRW_RdWord, M2450!MRW_WrByte, M2450!MRW_WrHW, M2450!MRW_WrWord

LEMMA Access2450 ==
  ASSUME cpu = "S3C2450", cpu \in Cpus,
         NEW x \in Devices, NEW d \in 0 .. 4, NEW data, NEW width \in {8, 16, 32}
  PROVE  /\ BankCall(jtag_mem_rdwr(Base(x) + d, data, width), x)
         /\ \A name \in {"R", "Q", "QQ"} : \A en, bs : (data = <<>> <=> name = "R") =>
              BankCall(Unused(name, Base(x) + d, data, width, en, bs), x)
<1> DEFINE at == Base(x) + d
<1>1. BusLanes = M2450!BusLanes /\ In = M2450!In
  BY DEF BusLanes, In, M2450!BusLanes, M2450!In, M2450!LOW, LOW
<1>2. M2450!S2450_Assert_nCS(at) \subseteq {x}
  BY Selected2450
<1> HIDE DEF at
<1>3. \A list, released : Tidy(list, BusLanes, In, M2450!S2450_Assert_nCS(at), released)
                          => BankCall(list, x)
  BY <1>2 DEF BankCall, Tidy, Selecting
<1>4. \A bytes, en, bs :
        /\ BankCall(M2450!Cycle!ReadFast(at, bytes, en, bs), x)
        /\ BankCall(M2450!Cycle!ReadSlow(at, bytes, en, bs), x)
        /\ BankCall(M2450!Cycle!WriteStrobe(at, data, en, bs), x)
        /\ BankCall(M2450!Cycle!WriteFast(at, data, en, bs), x)
        /\ BankCall(M2450!Cycle!WriteSlow(at, data, en, bs), x)
  BY <1>1, <1>3, Cycles2450
<1>5. BankCall(jtag_mem_rdwr(at, data, width), x)
  BY <1>4 DEF jtag_mem_rdwr, M2450!jtag_mem_rdwr, M2450!MRW_Rd8, M2450!MRW_Rd16Q_,
     M2450!MRW_Rd16Q, M2450!MRW_Rd32_, M2450!MRW_Rd32, M2450!MRW_Wr8, M2450!MRW_Wr16QQ_,
     M2450!MRW_Wr16QQ, M2450!MRW_Wr32_, M2450!MRW_Wr32
<1>6. ASSUME NEW name \in {"R", "Q", "QQ"}, NEW en, NEW bs, data = <<>> <=> name = "R"
      PROVE  BankCall(Unused(name, at, data, width, en, bs), x)
  BY <1>4, <1>6 DEF Unused, M2450!Unused, M2450!MRW_Rd8Q, M2450!MRW_Rd16Q, M2450!MRW_Rd32Q,
     M2450!MRW_Wr8Q, M2450!MRW_Wr8QQ, M2450!MRW_Wr16Q, M2450!MRW_Wr16QQ, M2450!MRW_Wr32Q,
     M2450!MRW_Wr32QQ
<1> QED BY <1>5, <1>6 DEF at

\* The S3C6410.
LEMMA Selected6410 ==
  ASSUME cpu = "S3C6410", cpu \in Cpus
  PROVE  /\ DeassertReaches => \A addr \in Int : \E x \in Banks :
              /\ M6410!S6410_Assert_nCS(addr) \subseteq {x}
              /\ M6410!S6410_Assert_nCS(addr) \cap Watched \subseteq M6410!S6410_Deassert_nCS(addr)
         /\ \A x \in Devices, d \in 0 .. 4 : M6410!S6410_Assert_nCS(Base(x) + d) \subseteq {x}
<1>1. ASSUME DeassertReaches, NEW addr \in Int
      PROVE  \E x \in Banks :
               /\ M6410!S6410_Assert_nCS(addr) \subseteq {x}
               /\ M6410!S6410_Assert_nCS(addr) \cap Watched \subseteq M6410!S6410_Deassert_nCS(addr)
  <2>1. Watched \subseteq {0, 1, 2, 5}
    BY <1>1 DEF DeassertReaches, Watched, Devices
  <2>2. CASE addr < \h40000000
    <3> DEFINE x == M6410!S6410_RAddr2Bank(addr)
    <3>1. x \in 0 .. 5 /\ M6410!S6410_Assert_nCS(addr) = {x}
      BY <1>1, <2>2 DEF M6410!S6410_Assert_nCS, M6410!S6410_RAddr2Bank
    <3>2. x \in {0, 1, 2, 5} => x \in M6410!S6410_Deassert_nCS(addr)
      BY <1>1, <2>2 DEF M6410!S6410_Deassert_nCS, M6410!S6410_RAddr2Bank
    <3> HIDE DEF x
    <3> QED BY <2>1, <3>1, <3>2 DEF Banks
  <2>3. CASE addr >= \h40000000
    BY <1>1, <2>3 DEF M6410!S6410_Assert_nCS, Banks
  <2> QED BY <1>1, <2>2, <2>3
<1>2. ASSUME NEW x \in Devices, NEW d \in 0 .. 4
      PROVE  M6410!S6410_Assert_nCS(Base(x) + d) \subseteq {x}
  <2>1. x \in 0 .. 5
    BY <1>2, BoardAssumption DEF Devices, Cpus
  <2>2. Base(x) = IF x = 5 THEN \h38000000 ELSE \h10000000 + x * 2^27
    BY DEF Base
  <2>3. M6410!S6410_RAddr2Bank(Base(x) + d) = x
    BY <1>2, <2>1, <2>2 DEF M6410!S6410_RAddr2Bank
  <2> QED BY <1>2, <2>3 DEF M6410!S6410_Assert_nCS
<1> QED BY <1>1, <1>2

LEMMA Menu6410 ==
  ASSUME cpu = "S3C6410", cpu \in Cpus, DeassertReaches,
         NEW command \in Commands, NEW addr \in Int, NEW data, NEW width, NEW en
  PROVE  LET does == MRW_Menu(command, addr, data, width, en)
         IN does.scans # <<>> => MenuCall(does.scans)
<1>1. BusLanes = M6410!BusLanes /\ In = M6410!In
  BY DEF BusLanes, In, M6410!BusLanes, M6410!In, M6410!LOW, LOW
<1>2. ASSUME NEW at \in Int, NEW bytes, NEW bs, NEW what, NEW enabled
      PROVE  /\ MenuCall(M6410!Cycle!ReadSlow(at, bytes, enabled, bs))
             /\ MenuCall(M6410!Cycle!WriteSlow(at, what, enabled, bs))
  <2>1. PICK x \in Banks :
          /\ M6410!S6410_Assert_nCS(at) \subseteq {x}
          /\ M6410!S6410_Assert_nCS(at) \cap Watched \subseteq M6410!S6410_Deassert_nCS(at)
    BY <1>2, Selected6410
  <2>2. /\ Tidy(M6410!Cycle!ReadSlow(at, bytes, enabled, bs), BusLanes, In,
                M6410!S6410_Assert_nCS(at), M6410!S6410_Deassert_nCS(at))
        /\ Tidy(M6410!Cycle!WriteSlow(at, what, enabled, bs), BusLanes, In,
                M6410!S6410_Assert_nCS(at), M6410!S6410_Deassert_nCS(at))
    BY <1>1, Cycles6410
  <2>3. \A list : Tidy(list, BusLanes, In, M6410!S6410_Assert_nCS(at), M6410!S6410_Deassert_nCS(at))
                  => MenuCall(list)
    BY <2>1, Narrowed DEF MenuCall
  <2> QED BY <2>2, <2>3
<1>3. ASSUME NEW at \in Int, NEW n
      PROVE  LET r == M6410!Cycle!ReadUnit(at, n, width, en)
                 w == M6410!Cycle!WriteUnit(at, data, width, en)
             IN (r.scans # <<>> => MenuCall(r.scans)) /\ (w.scans # <<>> => MenuCall(w.scans))
  <2>1. M6410!Cycle!Refused.scans = <<>>
    BY DEF M6410!Cycle!Refused
  <2> QED BY <1>2, <1>3, <2>1 DEF M6410!Cycle!ReadUnit, M6410!Cycle!WriteUnit
<1>4. /\ addr - (addr % 2) \in Int /\ addr - (addr % 4) \in Int
  OBVIOUS
<1> QED
  BY <1>3, <1>4 DEF MRW_Menu, M6410!MRW_Menu, Commands, M6410!MRW_RdByte, M6410!MRW_RdHW,
     M6410!MRW_RdWord, M6410!MRW_WrByte, M6410!MRW_WrHW, M6410!MRW_WrWord

LEMMA Access6410 ==
  ASSUME cpu = "S3C6410", cpu \in Cpus,
         NEW x \in Devices, NEW d \in 0 .. 4, NEW data, NEW width \in {8, 16, 32}
  PROVE  /\ BankCall(jtag_mem_rdwr(Base(x) + d, data, width), x)
         /\ \A name \in {"R", "Q", "QQ"} : \A en, bs : (data = <<>> <=> name = "R") =>
              BankCall(Unused(name, Base(x) + d, data, width, en, bs), x)
<1> DEFINE at == Base(x) + d
<1>1. BusLanes = M6410!BusLanes /\ In = M6410!In
  BY DEF BusLanes, In, M6410!BusLanes, M6410!In, M6410!LOW, LOW
<1>2. M6410!S6410_Assert_nCS(at) \subseteq {x}
  BY Selected6410
<1> HIDE DEF at
<1>3. \A list, released : Tidy(list, BusLanes, In, M6410!S6410_Assert_nCS(at), released)
                          => BankCall(list, x)
  BY <1>2 DEF BankCall, Tidy, Selecting
<1>4. \A bytes, en, bs :
        /\ BankCall(M6410!Cycle!ReadFast(at, bytes, en, bs), x)
        /\ BankCall(M6410!Cycle!ReadSlow(at, bytes, en, bs), x)
        /\ BankCall(M6410!Cycle!WriteStrobe(at, data, en, bs), x)
        /\ BankCall(M6410!Cycle!WriteFast(at, data, en, bs), x)
        /\ BankCall(M6410!Cycle!WriteSlow(at, data, en, bs), x)
        /\ BankCall(M6410!MRW_Wr16QQ(at, data, en, bs), x)
  BY <1>1, <1>3, Cycles6410
<1>5. BankCall(jtag_mem_rdwr(at, data, width), x)
  BY <1>4 DEF jtag_mem_rdwr, M6410!jtag_mem_rdwr, M6410!MRW_Rd8, M6410!MRW_Rd16Q_,
     M6410!MRW_Rd16Q, M6410!MRW_Rd32_, M6410!MRW_Rd32, M6410!MRW_Wr8, M6410!MRW_Wr16QQ_,
     M6410!MRW_Wr32_, M6410!MRW_Wr32
<1>6. ASSUME NEW name \in {"R", "Q", "QQ"}, NEW en, NEW bs, data = <<>> <=> name = "R"
      PROVE  BankCall(Unused(name, at, data, width, en, bs), x)
  BY <1>4, <1>6 DEF Unused, M6410!Unused, M6410!MRW_Rd8Q, M6410!MRW_Rd16Q, M6410!MRW_Rd32Q,
     M6410!MRW_Wr8Q, M6410!MRW_Wr8QQ, M6410!MRW_Wr16Q, M6410!MRW_Wr32Q,
     M6410!MRW_Wr32QQ
<1> QED BY <1>5, <1>6 DEF at

\* Every CPU.
LEMMA MenuCalls ==
  ASSUME cpu \in Cpus, DeassertReaches,
         NEW command \in Commands, NEW addr \in Int, NEW data, NEW width, NEW en
  PROVE  LET does == MRW_Menu(command, addr, data, width, en)
         IN does.scans # <<>> => MenuCall(does.scans)
  BY BoardAssumption, Menu2410, Menu2440, Menu2450, Menu6410 DEF Cpus

LEMMA BankCalls ==
  ASSUME cpu \in Cpus,
         NEW x \in Devices, NEW d \in 0 .. 4, NEW data, NEW width \in {8, 16, 32}
  PROVE  /\ BankCall(jtag_mem_rdwr(Base(x) + d, data, width), x)
         /\ \A name \in {"R", "Q", "QQ"} : \A en, bs : (data = <<>> <=> name = "R") =>
              BankCall(Unused(name, Base(x) + d, data, width, en, bs), x)
  BY BoardAssumption, Access2410, Access2440, Access2450, Access6410 DEF Cpus

LEMMA InitCalls ==
  ASSUME cpu \in Cpus
  PROVE  Tidy(MRW_JtagInit, BusLanes, In, {}, {})
<1>1. ASSUME NEW a, NEW b, a.scan # "ready", b.scan # "ready", DOMAIN a.pins = {},
             DOMAIN b.pins \cap {nFCE, nFRE, nFWE} = {}, b.scan = "NoTdo",
             \A c \in DOMAIN b.pins : b.pins[c] = HIGH \/ c = BUS_CON
      PROVE  Tidy(<<a, b>>, BusLanes, In, {}, {})
  <2> DEFINE list == <<a, b>>
  <2>1. Len(list) = 2 /\ list[1] = a /\ list[2] = b /\ IsList(list)
    BY DEF IsList
  <2> HIDE DEF list
  <2>2. \A k \in 1 .. Len(list) : k = 1 \/ k = 2
    BY <2>1
  <2>3. \A k \in 1 .. Len(list), c \in {nOE, nWE} \cup {nCS(x) : x \in Banks} : ~Lowers(list[k], c)
    BY <1>1, <2>1, <2>2 DEF Lowers, nOE, nWE, nCS, BUS_CON
  <2>4. Quiet(list) /\ LeftAlone(list, {nFCE, nFRE, nFWE})
    BY <1>1, <2>1, <2>2 DEF Quiet, LeftAlone
  <2>5. Pulsed(list, nOE) /\ Pulsed(list, nWE) /\ Turned(list, BusLanes, In) /\ Selecting(list, {}, {})
    BY <2>3 DEF Pulsed, Turned, Selecting
  <2> QED BY <2>1, <2>4, <2>5 DEF Tidy, list
<1>2. ASSUME NEW a, a.scan = "EXTEST", DOMAIN a.pins = {}
      PROVE  Tidy(<<a>>, BusLanes, In, {}, {})
  <2> DEFINE list == <<a>>
  <2>1. Len(list) = 1 /\ list[1] = a /\ IsList(list)
    BY DEF IsList
  <2> HIDE DEF list
  <2> QED BY <1>2, <2>1 DEF Tidy, Pulsed, Turned, Selecting, Quiet, LeftAlone, Lowers, list
<1>3. CASE cpu = "S3C2410"
  BY <1>2, <1>3 DEF MRW_JtagInit, M2410!JtagInit, M2410!Extest, M2410!Nothing, M2410!SetPins
<1>4. CASE cpu = "S3C2440"
  BY <1>2, <1>4 DEF MRW_JtagInit, M2440!JtagInit, M2440!Extest, M2440!Nothing, M2440!SetPins
<1>5. CASE cpu = "S3C2450"
  BY <1>2, <1>5 DEF MRW_JtagInit, M2450!JtagInit, M2450!Extest, M2450!Nothing, M2450!SetPins
<1>6. CASE cpu = "S3C6410"
  <2> DEFINE a == M6410!Extest
             p == M6410!SetPins({M6410!BUS_CON}, M6410!Out)
             q == M6410!SetPins({M6410!nCS(0), M6410!nWE, M6410!nOE}, M6410!HIGH)
             b == M6410!Shift(M6410!++(p, q))
  <2>1. MRW_JtagInit = <<a, b>>
    BY <1>6 DEF MRW_JtagInit, M6410!JtagInit
  <2>2. a.scan = "EXTEST" /\ DOMAIN a.pins = {}
    BY DEF M6410!Extest, M6410!Nothing, M6410!SetPins
  <2>3. b.scan = "NoTdo" /\ b.pins = M6410!++(p, q)
    BY DEF M6410!Shift
  <2>4. DOMAIN p = {BUS_CON} /\ DOMAIN q = {nCS(0), nWE, nOE} /\ \A c \in DOMAIN q : q[c] = HIGH
    BY DEF M6410!SetPins, M6410!BUS_CON, M6410!nCS, M6410!nWE, M6410!nOE, M6410!HIGH,
       BUS_CON, nCS, nWE, nOE, HIGH
  <2> HIDE DEF a, b, p, q
  <2>5. /\ DOMAIN b.pins = {BUS_CON, nCS(0), nWE, nOE}
        /\ \A c \in DOMAIN b.pins : c \in DOMAIN p \/ b.pins[c] = q[c]
    BY <2>3, <2>4 DEF M6410!++
  <2>6. /\ \A c \in DOMAIN b.pins : b.pins[c] = HIGH \/ c = BUS_CON
        /\ DOMAIN b.pins \cap {nFCE, nFRE, nFWE} = {}
    BY <2>4, <2>5 DEF BUS_CON, nCS, nWE, nOE, nFCE, nFRE, nFWE
  <2> QED BY <1>1, <2>1, <2>2, <2>3, <2>6
<1> QED BY <1>3, <1>4, <1>5, <1>6, BoardAssumption DEF Cpus

-----------------------------------------------------------------------------
(* The NAND controller functions, put together of scans.                     *)

\* A scan that moves no pad of the memory bus but the NAND chip's select.
OnlySelects(scan, select) ==
  /\ scan.scan \in {"EXTEST", "ready"} => DOMAIN scan.pins = {}
  /\ DOMAIN scan.pins \cap (({nOE, nWE, nFCE} \cup {nCS(b) : b \in Banks}) \ {select}) = {}

LEMMA NandOne ==
  ASSUME NEW a, NEW in, NEW select,
         OnlySelects(a, select), ~Lowers(a, nFRE), ~Lowers(a, nFWE)
  PROVE  NandTidy(<<a>>, in, select)
<1> DEFINE list == <<a>>
<1>1. Len(list) = 1 /\ list[1] = a /\ IsList(list)
  BY DEF IsList
<1> HIDE DEF list
<1>2. \A k \in 1 .. Len(list) : list[k] = a
  BY <1>1
<1>3. Pulsed(list, nFRE) /\ Pulsed(list, nFWE)
  BY <1>2 DEF Pulsed
<1>4. Quiet(list) /\ LeftAlone(list, ({nOE, nWE, nFCE} \cup {nCS(b) : b \in Banks}) \ {select})
  BY <1>2 DEF Quiet, LeftAlone, OnlySelects
<1> QED BY <1>1, <1>2, <1>3, <1>4 DEF NandTidy, list

LEMMA NandPair ==
  ASSUME NEW a, NEW b, NEW in, NEW select,
         OnlySelects(a, select), OnlySelects(b, select),
         Lowers(a, nFRE) => Brings(a, DATA_CON(0), in) /\ Raises(b, nFRE),
         Lowers(a, nFWE) => Raises(b, nFWE),
         ~Lowers(b, nFRE), ~Lowers(b, nFWE)
  PROVE  NandTidy(<<a, b>>, in, select)
<1> DEFINE list == <<a, b>>
<1>1. Len(list) = 2 /\ list[1] = a /\ list[2] = b /\ IsList(list)
  BY DEF IsList
<1> HIDE DEF list
<1>2. \A k \in 1 .. Len(list) : k = 1 \/ k = 2
  BY <1>1
<1>3. Pulsed(list, nFRE) /\ Pulsed(list, nFWE)
  BY <1>1, <1>2 DEF Pulsed
<1>4. Quiet(list) /\ LeftAlone(list, ({nOE, nWE, nFCE} \cup {nCS(x) : x \in Banks}) \ {select})
  BY <1>1, <1>2 DEF Quiet, LeftAlone, OnlySelects
<1>5. \A k \in 1 .. Len(list) : Lowers(list[k], nFRE) => Brings(list[k], DATA_CON(0), in)
  BY <1>1, <1>2
<1> QED BY <1>1, <1>3, <1>4, <1>5 DEF NandTidy, list

\* What has a list's domain or is a sequence is a list.
LEMMA FromFunction ==
  ASSUME NEW n \in Nat, NEW f, f = [i \in 1 .. n |-> f[i]]
  PROVE  IsList(f) /\ Len(f) = n
  BY DEF IsList

LEMMA FromSeq ==
  ASSUME NEW S, NEW f \in Seq(S)
  PROVE  IsList(f)
<1>1. Len(f) \in Nat /\ DOMAIN f = 1 .. Len(f) /\ f \in [1 .. Len(f) -> S]
  BY LenProperties
<1>2. f = [i \in 1 .. Len(f) |-> f[i]]
  BY <1>1
<1> QED BY <1>1, <1>2, FromFunction

\* A list is followed by another.
LEMMA Joined ==
  ASSUME NEW x, NEW y, IsList(x), IsList(y)
  PROVE  /\ IsList(x \o y)
         /\ Len(x) \in Nat /\ Len(y) \in Nat /\ Len(x \o y) = Len(x) + Len(y)
         /\ \A k \in 1 .. Len(x) : (x \o y)[k] = x[k]
         /\ \A k \in 1 .. Len(y) : (x \o y)[Len(x) + k] = y[k]
<1> DEFINE S == {x[k] : k \in 1 .. Len(x)} \cup {y[k] : k \in 1 .. Len(y)}
<1>1. x \in Seq(S) /\ y \in Seq(S) /\ Len(x) \in Nat /\ Len(y) \in Nat
  BY DEF IsList
<1> HIDE DEF S
<1>2. /\ x \o y \in Seq(S) /\ Len(x \o y) = Len(x) + Len(y)
      /\ \A i \in 1 .. Len(x) + Len(y) : (x \o y)[i] = IF i <= Len(x) THEN x[i] ELSE y[i - Len(x)]
  BY <1>1, ConcatProperties
<1> DEFINE z == x \o y
<1>3. z \in Seq(S)
  BY <1>2
<1> HIDE DEF z
<1>4. IsList(z)
  BY <1>3, FromSeq
<1>5. /\ \A k \in 1 .. Len(x) : (x \o y)[k] = x[k]
      /\ \A k \in 1 .. Len(y) : (x \o y)[Len(x) + k] = y[k]
  BY <1>1, <1>2
<1> QED BY <1>1, <1>2, <1>4, <1>5 DEF z

LEMMA NandJoined ==
  ASSUME NEW x, NEW y, NEW in, NEW select, NandTidy(x, in, select), NandTidy(y, in, select)
  PROVE  NandTidy(x \o y, in, select)
<1> DEFINE z == x \o y
<1>1. /\ IsList(z) /\ Len(x) \in Nat /\ Len(y) \in Nat /\ Len(z) = Len(x) + Len(y)
      /\ \A k \in 1 .. Len(x) : z[k] = x[k]
      /\ \A k \in 1 .. Len(y) : z[Len(x) + k] = y[k]
  BY Joined DEF NandTidy
<1> HIDE DEF z
<1>2. \A k \in 1 .. Len(z) : k \in 1 .. Len(x) \/ (k - Len(x) \in 1 .. Len(y) /\ k = Len(x) + (k - Len(x)))
  BY <1>1
<1>3. Quiet(z) /\ LeftAlone(z, ({nOE, nWE, nFCE} \cup {nCS(b) : b \in Banks}) \ {select})
  BY <1>1, <1>2 DEF NandTidy, Quiet, LeftAlone
<1>4. ASSUME NEW strobe, Pulsed(x, strobe), Pulsed(y, strobe)
      PROVE  Pulsed(z, strobe)
  <2> SUFFICES ASSUME NEW k \in 1 .. Len(z), Lowers(z[k], strobe)
               PROVE  k < Len(z) /\ Raises(z[k + 1], strobe)
    BY DEF Pulsed
  <2>1. CASE k \in 1 .. Len(x)
    <3>1. k < Len(x) /\ Raises(x[k + 1], strobe)
      BY <1>1, <1>4, <2>1 DEF Pulsed
    <3> QED BY <1>1, <3>1
  <2>2. CASE k - Len(x) \in 1 .. Len(y)
    <3>1. z[k] = y[k - Len(x)]
      BY <1>1, <1>2, <2>2
    <3>2. k - Len(x) < Len(y) /\ Raises(y[k - Len(x) + 1], strobe)
      BY <1>4, <2>2, <3>1 DEF Pulsed
    <3>3. z[Len(x) + (k - Len(x) + 1)] = y[k - Len(x) + 1]
      BY <1>1, <2>2, <3>2
    <3> QED BY <1>1, <3>2, <3>3
  <2> QED BY <1>2, <2>1, <2>2
<1>5. \A k \in 1 .. Len(z) : Lowers(z[k], nFRE) => Brings(z[k], DATA_CON(0), in)
  BY <1>1, <1>2 DEF NandTidy
<1>6. Pulsed(z, nFRE) /\ Pulsed(z, nFWE)
  BY <1>4 DEF NandTidy
<1> QED BY <1>1, <1>3, <1>5, <1>6 DEF NandTidy, z

\* Pins set over others.
LEMMA Overlaid ==
  ASSUME NEW f, NEW h
  PROVE  /\ DOMAIN (f ++ h) = DOMAIN f \cup DOMAIN h
         /\ \A c \in DOMAIN f : (f ++ h)[c] = f[c]
         /\ \A c \in DOMAIN h \ DOMAIN f : (f ++ h)[c] = h[c]
  BY DEF ++

LEMMA AllSet ==
  ASSUME NEW S, NEW v
  PROVE  DOMAIN SetPins(S, v) = S /\ \A c \in S : SetPins(S, v)[c] = v
  BY DEF SetPins

\* The directions of the data pads.
DataPads == {DATA_CON(i) : i \in {0, 1}}

\* A command or address cycle.
LEMMA CycleTidy ==
  ASSUME NEW in, NEW select \in {nFCE, nCS(2)}, NEW own \in {CLE, ALE}, NEW other \in {CLE, ALE},
         NEW byte, NEW before, NEW after, DOMAIN before \subseteq DataPads, DOMAIN after \subseteq DataPads
  PROVE  NandTidy(<< Shift(before ++ SetPins({select, nFWE, other}, LOW)
                           ++ SetPins({nFRE, own}, HIGH) ++ SetData(<<byte>>)),
                     Shift(SetPins({nFWE}, HIGH)),
                     Shift(SetPins({own}, LOW) ++ after) >>, in, select)
<1> DEFINE lows == SetPins({select, nFWE, other}, LOW)
           highs == SetPins({nFRE, own}, HIGH)
           p1 == before ++ lows
           p2 == p1 ++ highs
           p3 == p2 ++ SetData(<<byte>>)
           rise == SetPins({nFWE}, HIGH)
           p4 == SetPins({own}, LOW)
           p5 == p4 ++ after
           a == Shift(p3)
           b == Shift(rise)
           c == Shift(p5)
<1>1. /\ DOMAIN lows = {select, nFWE, other} /\ DOMAIN highs = {nFRE, own} /\ highs[nFRE] = HIGH
      /\ DOMAIN rise = {nFWE} /\ rise[nFWE] = HIGH /\ DOMAIN p4 = {own}
  BY DEF SetPins
<1>2. \E S : DOMAIN SetData(<<byte>>) = {DATA(i) : i \in S}
  BY DEF SetData
<1> HIDE DEF lows, highs, rise, p4
<1>3. DOMAIN p1 = DOMAIN before \cup DOMAIN lows
  BY Overlaid
<1> HIDE DEF p1
<1>4. DOMAIN p2 = DOMAIN p1 \cup DOMAIN highs /\ \A x \in DOMAIN highs \ DOMAIN p1 : p2[x] = highs[x]
  BY Overlaid
<1> HIDE DEF p2
<1>5. /\ DOMAIN p3 = DOMAIN p2 \cup DOMAIN SetData(<<byte>>)
      /\ \A x \in DOMAIN p2 : p3[x] = p2[x]
  BY Overlaid
<1>6. DOMAIN p5 = {own} \cup DOMAIN after
  BY <1>1, Overlaid
<1> HIDE DEF p3, p5
<1>7. a.pins = p3 /\ a.scan = "NoTdo" /\ b.pins = rise /\ b.scan = "NoTdo" /\ c.pins = p5 /\ c.scan = "NoTdo"
  BY DEF Shift
<1> HIDE DEF a, b, c
<1>8. p3[nFRE] = HIGH
  <2>1. nFRE \notin DOMAIN p1
    BY <1>1, <1>3 DEF DataPads, DATA_CON, nFRE, nFWE, nFCE, nCS, CLE, ALE
  <2> QED BY <1>1, <1>4, <1>5, <2>1
<1>9. DOMAIN p3 \cap (({nOE, nWE, nFCE} \cup {nCS(x) : x \in Banks}) \ {select}) = {}
  <2>1. \A x \in DOMAIN p3 : x \in DataPads \/ x \in {select, nFWE, CLE, ALE, nFRE} \/ \E i : x = DATA(i)
    BY <1>1, <1>2, <1>3, <1>4, <1>5
  <2>2. \A x \in ({nOE, nWE, nFCE} \cup {nCS(y) : y \in Banks}) \ {select} :
          x \notin DataPads /\ x \notin {select, nFWE, CLE, ALE, nFRE} /\ \A i : x # DATA(i)
    BY DEF DataPads, DATA_CON, DATA, nFRE, nFWE, nFCE, nCS, CLE, ALE, nOE, nWE
  <2> QED BY <2>1, <2>2
<1>10. /\ DOMAIN rise \cap (({nOE, nWE, nFCE} \cup {nCS(x) : x \in Banks}) \ {select}) = {}
       /\ DOMAIN p5 \cap (({nOE, nWE, nFCE} \cup {nCS(x) : x \in Banks}) \ {select}) = {}
  BY <1>1, <1>6 DEF DataPads, DATA_CON, nFWE, nFCE, nCS, CLE, ALE, nOE, nWE
<1>11. nFRE \notin DOMAIN p5 /\ nFWE \notin DOMAIN p5 /\ nFRE \notin DOMAIN rise
  BY <1>1, <1>6 DEF DataPads, DATA_CON, nFWE, nFRE, CLE, ALE
<1>12. NandTidy(<<a, b>>, in, select)
  <2>1. OnlySelects(a, select) /\ OnlySelects(b, select)
    BY <1>7, <1>9, <1>10 DEF OnlySelects
  <2>2. ~Lowers(a, nFRE) /\ Raises(b, nFWE) /\ ~Lowers(b, nFRE) /\ ~Lowers(b, nFWE)
    BY <1>1, <1>7, <1>8, <1>11 DEF Lowers, Raises, Brings
  <2> QED BY <2>1, <2>2, NandPair
<1>13. NandTidy(<<c>>, in, select)
  <2>1. OnlySelects(c, select) /\ ~Lowers(c, nFRE) /\ ~Lowers(c, nFWE)
    BY <1>7, <1>10, <1>11 DEF OnlySelects, Lowers
  <2> QED BY <2>1, NandOne
<1>14. <<a, b>> \o <<c>> = <<a, b, c>>
  BY C2410!TwoAndOne
<1>15. NandTidy(<<a, b, c>>, in, select)
  <2> DEFINE x == <<a, b>>  y == <<c>>
  <2> HIDE DEF x, y
  <2>1. NandTidy(x \o y, in, select)
    BY <1>12, <1>13, NandJoined DEF x, y
  <2> QED BY <1>14, <2>1 DEF x, y
<1> QED BY <1>15 DEF a, b, c, p3, p2, p1, lows, highs, rise, p5, p4

\* A byte read or written.
LEMMA ByteTidy ==
  ASSUME NEW in, NEW select \in {nFCE, nCS(2)}, NEW n \in {{0}, {0, 1}}, NEW v, NEW byte
  PROVE  /\ NandTidy(<< Shift(Direction(n, in) ++ SetPins({nFRE}, LOW)),
                        Sample(SetPins({nFRE}, HIGH)) >>, in, select)
         /\ NandTidy(<< Shift(Direction(n, v) ++ SetPins({nFWE}, LOW) ++ SetData(<<byte>>)),
                        Shift(SetPins({nFWE}, HIGH)) >>, in, select)
<1> DEFINE d == Direction(n, in)
           low == SetPins({nFRE}, LOW)
           p1 == d ++ low
           p2 == SetPins({nFRE}, HIGH)
           e == Direction(n, v)
           down == SetPins({nFWE}, LOW)
           q0 == e ++ down
           q1 == q0 ++ SetData(<<byte>>)
           q2 == SetPins({nFWE}, HIGH)
           a == Shift(p1)
           b == Sample(p2)
           x == Shift(q1)
           y == Shift(q2)
           others == ({nOE, nWE, nFCE} \cup {nCS(i) : i \in Banks}) \ {select}
<1>1. /\ DOMAIN d = {DATA_CON(i) : i \in n} /\ DOMAIN e = {DATA_CON(i) : i \in n}
      /\ DATA_CON(0) \in DOMAIN d /\ d[DATA_CON(0)] = in
  BY DEF Direction, SetPins
<1>2. /\ DOMAIN low = {nFRE} /\ DOMAIN down = {nFWE}
      /\ DOMAIN p2 = {nFRE} /\ p2[nFRE] = HIGH /\ DOMAIN q2 = {nFWE} /\ q2[nFWE] = HIGH
  BY DEF SetPins
<1>3. \E S : DOMAIN SetData(<<byte>>) = {DATA(i) : i \in S}
  BY DEF SetData
<1> HIDE DEF d, e, low, down, p2, q2
<1>4. DOMAIN p1 = DOMAIN d \cup {nFRE} /\ p1[DATA_CON(0)] = in
  <2>1. DOMAIN p1 = DOMAIN d \cup DOMAIN low /\ \A c \in DOMAIN d : p1[c] = d[c]
    BY Overlaid
  <2> HIDE DEF p1
  <2> QED BY <1>1, <1>2, <2>1
<1>5. DOMAIN q0 = DOMAIN e \cup {nFWE}
  <2>1. DOMAIN q0 = DOMAIN e \cup DOMAIN down
    BY Overlaid
  <2> HIDE DEF q0
  <2> QED BY <1>2, <2>1
<1> HIDE DEF p1, q0
<1>6. DOMAIN q1 = DOMAIN q0 \cup DOMAIN SetData(<<byte>>)
  BY Overlaid
<1> HIDE DEF q1
<1>7. /\ a.pins = p1 /\ a.scan = "NoTdo" /\ b.pins = p2 /\ b.scan = "Tdo"
      /\ x.pins = q1 /\ x.scan = "NoTdo" /\ y.pins = q2 /\ y.scan = "NoTdo"
  BY DEF Shift, Sample
<1> HIDE DEF a, b, x, y
<1>8. /\ \A z \in DOMAIN p1 \cup DOMAIN p2 \cup DOMAIN q2 :
           z = nFRE \/ z = nFWE \/ \E i : z = DATA_CON(i)
      /\ \A z \in DOMAIN q1 : z = nFWE \/ (\E i : z = DATA_CON(i)) \/ \E i : z = DATA(i)
  BY <1>1, <1>2, <1>3, <1>4, <1>5, <1>6
<1>9. \A z \in others : z # nFRE /\ z # nFWE /\ \A i : z # DATA_CON(i) /\ z # DATA(i)
  BY DEF DATA_CON, DATA, nFRE, nFWE, nFCE, nCS, nOE, nWE
<1>10. OnlySelects(a, select) /\ OnlySelects(b, select) /\ OnlySelects(x, select) /\ OnlySelects(y, select)
  BY <1>7, <1>8, <1>9 DEF OnlySelects
<1>11. nFRE \notin DOMAIN q1 /\ nFRE \notin DOMAIN q2 /\ nFWE \notin DOMAIN p1 /\ nFWE \notin DOMAIN p2
  BY <1>1, <1>2, <1>4, <1>8 DEF DATA_CON, DATA, nFRE, nFWE
<1>12. NandTidy(<<a, b>>, in, select)
  <2>1. /\ Brings(a, DATA_CON(0), in) /\ Raises(b, nFRE) /\ ~Lowers(a, nFWE)
        /\ ~Lowers(b, nFRE) /\ ~Lowers(b, nFWE)
    BY <1>1, <1>2, <1>4, <1>7, <1>11 DEF Lowers, Raises, Brings
  <2> QED BY <1>10, <2>1, NandPair
<1>13. NandTidy(<<x, y>>, in, select)
  <2>1. /\ ~Lowers(x, nFRE) /\ Raises(y, nFWE) /\ ~Lowers(y, nFRE) /\ ~Lowers(y, nFWE)
    BY <1>2, <1>7, <1>11 DEF Lowers, Raises, Brings
  <2> QED BY <1>10, <2>1, NandPair
<1> QED BY <1>12, <1>13 DEF a, b, x, y, p1, p2, q0, q1, q2, d, e, low, down

\* The chip select raised or lowered, with the direction of the pads or alone.
LEMMA SelectTidy ==
  ASSUME NEW in, NEW select \in {nFCE, nCS(2)}, NEW pins,
         DOMAIN pins \subseteq {select, NF_CON, BUS_CON}
  PROVE  NandTidy(<<Shift(pins)>>, in, select)
<1> DEFINE a == Shift(pins)
<1>1. a.pins = pins /\ a.scan = "NoTdo"
  BY DEF Shift
<1> HIDE DEF a
<1>2. /\ DOMAIN pins \cap (({nOE, nWE, nFCE} \cup {nCS(i) : i \in Banks}) \ {select}) = {}
      /\ nFRE \notin DOMAIN pins /\ nFWE \notin DOMAIN pins
  BY DEF NF_CON, BUS_CON, nFRE, nFWE, nFCE, nCS, nOE, nWE
<1>3. OnlySelects(a, select) /\ ~Lowers(a, nFRE) /\ ~Lowers(a, nFWE)
  BY <1>1, <1>2 DEF OnlySelects, Lowers
<1>4. NandTidy(<<a>>, in, select)
  BY <1>3, NandOne
<1> QED BY <1>4 DEF a

\* A scan that sets no pin.
LEMMA NoPinsTidy ==
  ASSUME NEW in, NEW select, NEW level
  PROVE  NandTidy(<<Await(level)>>, in, select) /\ NandTidy(<<Extest>>, in, select)
<1> DEFINE a == Await(level)
           b == Extest
<1>1. a.pins = Nothing /\ b.pins = Nothing
  BY DEF Await, Extest
<1>2. DOMAIN Nothing = {}
  BY AllSet DEF Nothing
<1> HIDE DEF a, b
<1>3. /\ OnlySelects(a, select) /\ ~Lowers(a, nFRE) /\ ~Lowers(a, nFWE)
      /\ OnlySelects(b, select) /\ ~Lowers(b, nFRE) /\ ~Lowers(b, nFWE)
  BY <1>1, <1>2 DEF OnlySelects, Lowers
<1>4. NandTidy(<<a>>, in, select) /\ NandTidy(<<b>>, in, select)
  BY <1>3, NandOne
<1> QED BY <1>4 DEF a, b

-----------------------------------------------------------------------------
(* The NAND controller functions of each CPU.                                *)

\* The last call of every NAND operation, nand_release_device.
Release == [call |-> "select", byte |-> -1]

\* The scans of a command or address cycle.
CycleScans(before, select, own, other, byte, after) ==
  << Shift(before ++ SetPins({select, nFWE, other}, LOW)
           ++ SetPins({nFRE, own}, HIGH) ++ SetData(<<byte>>)),
     Shift(SetPins({nFWE}, HIGH)),
     Shift(SetPins({own}, LOW) ++ after) >>

LEMMA Nand2410 ==
  ASSUME cpu = "S3C2410"
  PROVE  /\ In = HIGH /\ NandSelect = nFCE
         /\ \A c : NandTidy(NandScans(c), In, NandSelect)
         /\ NandScans(Release) = << Shift(SetPins({NandSelect}, HIGH)) >>
         /\ NandTidy(NandInit[2], In, NandSelect)
         /\ DOMAIN NandInit[1] \subseteq {NF_CON, CLE, ALE, BUS_CON}
<1>1. In = HIGH /\ NandSelect = nFCE
  BY DEF In, NandSelect, LOW, HIGH
<1>2. ASSUME NEW byte
      PROVE
      /\ N2410!NF_CMD(byte) = CycleScans(Direction({0}, LOW), nFCE, CLE, ALE, byte, Direction({0}, HIGH))
      /\ N2410!NF_ADDR(byte) = CycleScans(Direction({0}, LOW), nFCE, ALE, CLE, byte, Direction({0}, HIGH))
      /\ N2410!NF_nFCE_L = << Shift(SetPins({nFCE}, LOW)) >>
      /\ N2410!NF_nFCE_H = << Shift(SetPins({nFCE}, HIGH)) >>
      /\ N2410!NF_RDDATA = << Shift(Direction({0}, HIGH) ++ SetPins({nFRE}, LOW)),
                              Sample(SetPins({nFRE}, HIGH)) >>
      /\ N2410!NF_WRDATA(byte)
         = << Shift(Direction({0}, LOW) ++ SetPins({nFWE}, LOW) ++ SetData(<<byte>>)),
              Shift(SetPins({nFWE}, HIGH)) >>
      /\ N2410!NF_READY = << Await(HIGH) >>
  BY DEF
       CycleScans, N2410!Cycle, N2410!NF_CMD, N2410!NF_ADDR, N2410!NF_nFCE_L, N2410!NF_nFCE_H,
       N2410!NF_RDDATA, N2410!NF_WRDATA, N2410!NF_READY, N2410!Shift, N2410!Sample,
       N2410!Await, N2410!Extest, N2410!SetPins, N2410!SetData, N2410!Direction, N2410!Nothing,
       N2410!++, N2410!LOW, N2410!HIGH, N2410!nFCE, N2410!nFRE, N2410!nFWE, N2410!nCS,
       N2410!CLE, N2410!ALE, N2410!NF_CON, N2410!BUS_CON, N2410!DATA, N2410!DATA_CON, Shift,
       Sample, Await, Extest, SetPins, SetData, Direction, Nothing, ++, LOW, HIGH, nFCE, nFRE,
       nFWE, nCS, CLE, ALE, NF_CON, BUS_CON, DATA, DATA_CON
<1>3. ASSUME NEW byte
      PROVE  /\ NandTidy(N2410!NF_CMD(byte), HIGH, nFCE)
             /\ NandTidy(N2410!NF_ADDR(byte), HIGH, nFCE)
             /\ NandTidy(N2410!NF_nFCE_L, HIGH, nFCE)
             /\ NandTidy(N2410!NF_nFCE_H, HIGH, nFCE)
             /\ NandTidy(N2410!NF_RDDATA, HIGH, nFCE)
             /\ NandTidy(N2410!NF_WRDATA(byte), HIGH, nFCE)
             /\ NandTidy(N2410!NF_READY, HIGH, nFCE)
  <2>1. DOMAIN Direction({0}, LOW) \subseteq DataPads /\ DOMAIN Direction({0}, HIGH) \subseteq DataPads
    BY AllSet DEF Direction, DataPads
  <2>2. \A own \in {CLE, ALE}, other \in {CLE, ALE} :
          /\ NandTidy(CycleScans(Direction({0}, LOW), nFCE, own, other, byte, Direction({0}, LOW)), HIGH, nFCE)
          /\ NandTidy(CycleScans(Direction({0}, LOW), nFCE, own, other, byte, Direction({0}, HIGH)), HIGH, nFCE)
    BY <2>1, CycleTidy DEF CycleScans
  <2>3. DOMAIN (SetPins({nFCE}, LOW)) \subseteq {nFCE, NF_CON, BUS_CON}
    BY AllSet, Overlaid
  <2>4. DOMAIN SetPins({nFCE}, HIGH) \subseteq {nFCE, NF_CON, BUS_CON}
    BY AllSet
  <2>5. /\ NandTidy(N2410!NF_CMD(byte), HIGH, nFCE) /\ NandTidy(N2410!NF_ADDR(byte), HIGH, nFCE)
    BY <1>2, <2>2
  <2>6. /\ NandTidy(N2410!NF_RDDATA, HIGH, nFCE) /\ NandTidy(N2410!NF_WRDATA(byte), HIGH, nFCE)
    BY <1>2, ByteTidy
  <2>7. /\ NandTidy(N2410!NF_nFCE_L, HIGH, nFCE) /\ NandTidy(N2410!NF_nFCE_H, HIGH, nFCE)
    BY <1>2, <2>3, <2>4, SelectTidy
  <2>8. NandTidy(N2410!NF_READY, HIGH, nFCE)
    BY <1>2, NoPinsTidy
  <2> QED BY <2>5, <2>6, <2>7, <2>8
<1>4. ASSUME NEW c PROVE NandTidy(NandScans(c), In, NandSelect)
  <2>1. NandScans(c) = N2410!Controller(c)
    BY DEF NandScans
  <2>2. \/ N2410!Controller(c) \in {N2410!NF_nFCE_L, N2410!NF_nFCE_H, N2410!NF_READY, N2410!NF_RDDATA}
        \/ N2410!Controller(c) \in {N2410!NF_CMD(c.byte), N2410!NF_ADDR(c.byte), N2410!NF_WRDATA(c.byte)}
    BY DEF N2410!Controller, N2410!s3c2410_nand_select_chip, N2410!s3c2410_nand_devready,
       N2410!s3c2410_nand_hwcontrol
  <2> QED BY <1>1, <1>3, <2>1, <2>2
<1>5. NandScans(Release) = << Shift(SetPins({NandSelect}, HIGH)) >>
  <2>1. NandScans(Release) = N2410!NF_nFCE_H
    BY DEF NandScans, Release, N2410!Controller, N2410!s3c2410_nand_select_chip
  <2> QED BY <1>1, <1>2, <2>1
<1>6. N2410!Extest = Extest
  BY DEF N2410!Extest, Extest, N2410!Nothing, Nothing, N2410!SetPins, SetPins, N2410!LOW, LOW
<1>7. NandInit = << SetPins({CLE, ALE}, LOW), << Extest >> >>
  BY <1>6 DEF NandInit, N2410!JtagInit, N2410!JtagInitPins, N2410!SetPins, SetPins, N2410!LOW, LOW,
     N2410!CLE, CLE, N2410!ALE, ALE, N2410!NF_CON, NF_CON
<1>8. NandTidy(NandInit[2], In, NandSelect) /\ DOMAIN NandInit[1] \subseteq {NF_CON, CLE, ALE, BUS_CON}
  BY <1>7, NoPinsTidy, AllSet
<1> QED BY <1>1, <1>4, <1>5, <1>8

LEMMA Nand2440 ==
  ASSUME cpu = "S3C2440"
  PROVE  /\ In = HIGH /\ NandSelect = nFCE
         /\ \A c : NandTidy(NandScans(c), In, NandSelect)
         /\ NandScans(Release) = << Shift(SetPins({NandSelect}, HIGH)) >>
         /\ NandTidy(NandInit[2], In, NandSelect)
         /\ DOMAIN NandInit[1] \subseteq {NF_CON, CLE, ALE, BUS_CON}
<1>1. In = HIGH /\ NandSelect = nFCE
  BY DEF In, NandSelect, LOW, HIGH
<1>2. ASSUME NEW byte
      PROVE
      /\ N2440!NF_CMD(byte) = CycleScans(Direction({0}, LOW), nFCE, CLE, ALE, byte, Direction({0}, HIGH))
      /\ N2440!NF_ADDR(byte) = CycleScans(Direction({0}, LOW), nFCE, ALE, CLE, byte, Direction({0}, HIGH))
      /\ N2440!NF_nFCE_L = << Shift(SetPins({NF_CON, nFCE}, LOW)) >>
      /\ N2440!NF_nFCE_H = << Shift(SetPins({nFCE}, HIGH)) >>
      /\ N2440!NF_RDDATA = << Shift(Direction({0}, HIGH) ++ SetPins({nFRE}, LOW)),
                              Sample(SetPins({nFRE}, HIGH)) >>
      /\ N2440!NF_WRDATA(byte)
         = << Shift(Direction({0}, LOW) ++ SetPins({nFWE}, LOW) ++ SetData(<<byte>>)),
              Shift(SetPins({nFWE}, HIGH)) >>
      /\ N2440!NF_READY = << Await(HIGH) >>
  BY DEF
       CycleScans, N2440!Cycle, N2440!NF_CMD, N2440!NF_ADDR, N2440!NF_nFCE_L, N2440!NF_nFCE_H,
       N2440!NF_RDDATA, N2440!NF_WRDATA, N2440!NF_READY, N2440!Shift, N2440!Sample,
       N2440!Await, N2440!Extest, N2440!SetPins, N2440!SetData, N2440!Direction, N2440!Nothing,
       N2440!++, N2440!LOW, N2440!HIGH, N2440!nFCE, N2440!nFRE, N2440!nFWE, N2440!nCS,
       N2440!CLE, N2440!ALE, N2440!NF_CON, N2440!BUS_CON, N2440!DATA, N2440!DATA_CON, Shift,
       Sample, Await, Extest, SetPins, SetData, Direction, Nothing, ++, LOW, HIGH, nFCE, nFRE,
       nFWE, nCS, CLE, ALE, NF_CON, BUS_CON, DATA, DATA_CON
<1>3. ASSUME NEW byte
      PROVE  /\ NandTidy(N2440!NF_CMD(byte), HIGH, nFCE)
             /\ NandTidy(N2440!NF_ADDR(byte), HIGH, nFCE)
             /\ NandTidy(N2440!NF_nFCE_L, HIGH, nFCE)
             /\ NandTidy(N2440!NF_nFCE_H, HIGH, nFCE)
             /\ NandTidy(N2440!NF_RDDATA, HIGH, nFCE)
             /\ NandTidy(N2440!NF_WRDATA(byte), HIGH, nFCE)
             /\ NandTidy(N2440!NF_READY, HIGH, nFCE)
  <2>1. DOMAIN Direction({0}, LOW) \subseteq DataPads /\ DOMAIN Direction({0}, HIGH) \subseteq DataPads
    BY AllSet DEF Direction, DataPads
  <2>2. \A own \in {CLE, ALE}, other \in {CLE, ALE} :
          /\ NandTidy(CycleScans(Direction({0}, LOW), nFCE, own, other, byte, Direction({0}, LOW)), HIGH, nFCE)
          /\ NandTidy(CycleScans(Direction({0}, LOW), nFCE, own, other, byte, Direction({0}, HIGH)), HIGH, nFCE)
    BY <2>1, CycleTidy DEF CycleScans
  <2>3. DOMAIN (SetPins({NF_CON, nFCE}, LOW)) \subseteq {nFCE, NF_CON, BUS_CON}
    BY AllSet, Overlaid
  <2>4. DOMAIN SetPins({nFCE}, HIGH) \subseteq {nFCE, NF_CON, BUS_CON}
    BY AllSet
  <2>5. /\ NandTidy(N2440!NF_CMD(byte), HIGH, nFCE) /\ NandTidy(N2440!NF_ADDR(byte), HIGH, nFCE)
    BY <1>2, <2>2
  <2>6. /\ NandTidy(N2440!NF_RDDATA, HIGH, nFCE) /\ NandTidy(N2440!NF_WRDATA(byte), HIGH, nFCE)
    BY <1>2, ByteTidy
  <2>7. /\ NandTidy(N2440!NF_nFCE_L, HIGH, nFCE) /\ NandTidy(N2440!NF_nFCE_H, HIGH, nFCE)
    BY <1>2, <2>3, <2>4, SelectTidy
  <2>8. NandTidy(N2440!NF_READY, HIGH, nFCE)
    BY <1>2, NoPinsTidy
  <2> QED BY <2>5, <2>6, <2>7, <2>8
<1>4. ASSUME NEW c PROVE NandTidy(NandScans(c), In, NandSelect)
  <2>1. NandScans(c) = N2440!Controller(c)
    BY DEF NandScans
  <2>2. \/ N2440!Controller(c) \in {N2440!NF_nFCE_L, N2440!NF_nFCE_H, N2440!NF_READY, N2440!NF_RDDATA}
        \/ N2440!Controller(c) \in {N2440!NF_CMD(c.byte), N2440!NF_ADDR(c.byte), N2440!NF_WRDATA(c.byte)}
    BY DEF N2440!Controller, N2440!s3c2440_nand_select_chip, N2440!s3c2440_nand_devready,
       N2440!s3c2440_nand_hwcontrol
  <2> QED BY <1>1, <1>3, <2>1, <2>2
<1>5. NandScans(Release) = << Shift(SetPins({NandSelect}, HIGH)) >>
  <2>1. NandScans(Release) = N2440!NF_nFCE_H
    BY DEF NandScans, Release, N2440!Controller, N2440!s3c2440_nand_select_chip
  <2> QED BY <1>1, <1>2, <2>1
<1>6. N2440!Extest = Extest
  BY DEF N2440!Extest, Extest, N2440!Nothing, Nothing, N2440!SetPins, SetPins, N2440!LOW, LOW
<1>7. NandInit = << SetPins({NF_CON, CLE, ALE}, LOW), << Extest >> >>
  BY <1>6 DEF NandInit, N2440!JtagInit, N2440!JtagInitPins, N2440!SetPins, SetPins, N2440!LOW, LOW,
     N2440!CLE, CLE, N2440!ALE, ALE, N2440!NF_CON, NF_CON
<1>8. NandTidy(NandInit[2], In, NandSelect) /\ DOMAIN NandInit[1] \subseteq {NF_CON, CLE, ALE, BUS_CON}
  BY <1>7, NoPinsTidy, AllSet
<1> QED BY <1>1, <1>4, <1>5, <1>8

LEMMA Nand6410 ==
  ASSUME cpu = "S3C6410"
  PROVE  /\ In = LOW /\ NandSelect = nCS(2)
         /\ \A c : NandTidy(NandScans(c), In, NandSelect)
         /\ NandScans(Release) = << Shift(SetPins({NandSelect}, HIGH)) >>
         /\ NandTidy(NandInit[2], In, NandSelect)
         /\ DOMAIN NandInit[1] \subseteq {NF_CON, CLE, ALE, BUS_CON}
<1>1. In = LOW /\ NandSelect = nCS(2)
  BY DEF In, NandSelect, LOW, HIGH, N6410!NandSelect, N6410!nCS, nCS
<1>2. ASSUME NEW byte
      PROVE
      /\ N6410!NF_CMD(byte) = CycleScans(Direction({0, 1}, HIGH), nCS(2), CLE, ALE, byte, Direction({0, 1}, HIGH))
      /\ N6410!NF_ADDR(byte) = CycleScans(Direction({0, 1}, HIGH), nCS(2), ALE, CLE, byte, Direction({0, 1}, LOW))
      /\ N6410!NF_nFCE_L = << Shift(SetPins({nCS(2)}, LOW) ++ SetPins({BUS_CON}, HIGH)) >>
      /\ N6410!NF_nFCE_H = << Shift(SetPins({nCS(2)}, HIGH)) >>
      /\ N6410!NF_RDDATA = << Shift(Direction({0, 1}, LOW) ++ SetPins({nFRE}, LOW)),
                              Sample(SetPins({nFRE}, HIGH)) >>
      /\ N6410!NF_WRDATA(byte)
         = << Shift(Direction({0, 1}, HIGH) ++ SetPins({nFWE}, LOW) ++ SetData(<<byte>>)),
              Shift(SetPins({nFWE}, HIGH)) >>
      /\ N6410!NF_READY = << Await(HIGH) >>
  BY DEF
       CycleScans, N6410!Cycle, N6410!NF_CMD, N6410!NF_ADDR, N6410!NF_nFCE_L, N6410!NF_nFCE_H,
       N6410!NF_RDDATA, N6410!NF_WRDATA, N6410!NF_READY, N6410!Input, N6410!Output,
       N6410!Shift, N6410!Sample, N6410!Await, N6410!Extest, N6410!SetPins, N6410!SetData,
       N6410!Direction, N6410!Nothing, N6410!++, N6410!LOW, N6410!HIGH, N6410!nFCE, N6410!nFRE,
       N6410!nFWE, N6410!nCS, N6410!CLE, N6410!ALE, N6410!NF_CON, N6410!BUS_CON, N6410!DATA,
       N6410!DATA_CON, Shift, Sample, Await, Extest, SetPins, SetData, Direction, Nothing, ++,
       LOW, HIGH, nFCE, nFRE, nFWE, nCS, CLE, ALE, NF_CON, BUS_CON, DATA, DATA_CON
<1>3. ASSUME NEW byte
      PROVE  /\ NandTidy(N6410!NF_CMD(byte), LOW, nCS(2))
             /\ NandTidy(N6410!NF_ADDR(byte), LOW, nCS(2))
             /\ NandTidy(N6410!NF_nFCE_L, LOW, nCS(2))
             /\ NandTidy(N6410!NF_nFCE_H, LOW, nCS(2))
             /\ NandTidy(N6410!NF_RDDATA, LOW, nCS(2))
             /\ NandTidy(N6410!NF_WRDATA(byte), LOW, nCS(2))
             /\ NandTidy(N6410!NF_READY, LOW, nCS(2))
  <2>1. DOMAIN Direction({0, 1}, LOW) \subseteq DataPads /\ DOMAIN Direction({0, 1}, HIGH) \subseteq DataPads
    BY AllSet DEF Direction, DataPads
  <2>2. \A own \in {CLE, ALE}, other \in {CLE, ALE} :
          /\ NandTidy(CycleScans(Direction({0, 1}, HIGH), nCS(2), own, other, byte, Direction({0, 1}, LOW)), LOW, nCS(2))
          /\ NandTidy(CycleScans(Direction({0, 1}, HIGH), nCS(2), own, other, byte, Direction({0, 1}, HIGH)), LOW, nCS(2))
    BY <2>1, CycleTidy DEF CycleScans
  <2>3. DOMAIN (SetPins({nCS(2)}, LOW) ++ SetPins({BUS_CON}, HIGH)) \subseteq {nCS(2), NF_CON, BUS_CON}
    <3> DEFINE f == SetPins({nCS(2)}, LOW)
               h == SetPins({BUS_CON}, HIGH)
    <3>1. DOMAIN f = {nCS(2)} /\ DOMAIN h = {BUS_CON}
      BY DEF SetPins
    <3> HIDE DEF f, h
    <3>2. DOMAIN (f ++ h) = DOMAIN f \cup DOMAIN h
      BY Overlaid
    <3> QED BY <3>1, <3>2 DEF f, h
  <2>4. DOMAIN SetPins({nCS(2)}, HIGH) \subseteq {nCS(2), NF_CON, BUS_CON}
    BY AllSet
  <2>5. /\ NandTidy(N6410!NF_CMD(byte), LOW, nCS(2)) /\ NandTidy(N6410!NF_ADDR(byte), LOW, nCS(2))
    BY <1>2, <2>2
  <2>6. /\ NandTidy(N6410!NF_RDDATA, LOW, nCS(2)) /\ NandTidy(N6410!NF_WRDATA(byte), LOW, nCS(2))
    BY <1>2, ByteTidy
  <2>7. /\ NandTidy(N6410!NF_nFCE_L, LOW, nCS(2)) /\ NandTidy(N6410!NF_nFCE_H, LOW, nCS(2))
    BY <1>2, <2>3, <2>4, SelectTidy
  <2>8. NandTidy(N6410!NF_READY, LOW, nCS(2))
    BY <1>2, NoPinsTidy
  <2> QED BY <2>5, <2>6, <2>7, <2>8
<1>4. ASSUME NEW c PROVE NandTidy(NandScans(c), In, NandSelect)
  <2>1. NandScans(c) = N6410!Controller(c)
    BY DEF NandScans
  <2>2. \/ N6410!Controller(c) \in {N6410!NF_nFCE_L, N6410!NF_nFCE_H, N6410!NF_READY, N6410!NF_RDDATA}
        \/ N6410!Controller(c) \in {N6410!NF_CMD(c.byte), N6410!NF_ADDR(c.byte), N6410!NF_WRDATA(c.byte)}
    BY DEF N6410!Controller, N6410!s3c6410_nand_select_chip, N6410!s3c6410_nand_devready,
       N6410!s3c6410_nand_hwcontrol
  <2> QED BY <1>1, <1>3, <2>1, <2>2
<1>5. NandScans(Release) = << Shift(SetPins({NandSelect}, HIGH)) >>
  <2>1. NandScans(Release) = N6410!NF_nFCE_H
    BY DEF NandScans, Release, N6410!Controller, N6410!s3c6410_nand_select_chip
  <2> QED BY <1>1, <1>2, <2>1
<1>6. N6410!Extest = Extest
  BY DEF N6410!Extest, Extest, N6410!Nothing, Nothing, N6410!SetPins, SetPins, N6410!LOW, LOW
<1>7. /\ NandInit[1] = SetPins({NF_CON, CLE, ALE, BUS_CON}, HIGH)
      /\ NandInit[2] = << Extest >> \o N6410!NF_Init
  BY <1>6 DEF NandInit, N6410!JtagInit, N6410!JtagInitPins, N6410!SetPins, SetPins, N6410!HIGH, HIGH,
     N6410!CLE, CLE, N6410!ALE, ALE, N6410!NF_CON, NF_CON, N6410!BUS_CON, BUS_CON
<1>8. NandTidy(N6410!NF_Init, LOW, nCS(2))
  BY <1>3, NandJoined DEF N6410!NF_Init, N6410!NF_Reset
<1>9. NandTidy(NandInit[2], In, NandSelect)
  <2> DEFINE x == <<Extest>>
  <2>1. NandTidy(x, LOW, nCS(2))
    BY NoPinsTidy
  <2> HIDE DEF x
  <2>2. NandTidy(x \o N6410!NF_Init, LOW, nCS(2))
    BY <1>8, <2>1, NandJoined
  <2> QED BY <1>1, <1>7, <2>2 DEF x
<1>10. DOMAIN NandInit[1] \subseteq {NF_CON, CLE, ALE, BUS_CON}
  BY <1>7, AllSet
<1> QED BY <1>1, <1>4, <1>5, <1>9, <1>10

LEMMA NandCalls ==
  ASSUME cpu \in Cpus, cpu # "S3C2450"
  PROVE  /\ \A c : NandTidy(NandScans(c), In, NandSelect)
         /\ NandScans(Release) = << Shift(SetPins({NandSelect}, HIGH)) >>
         /\ NandTidy(NandInit[2], In, NandSelect)
         /\ DOMAIN NandInit[1] \subseteq {NF_CON, CLE, ALE, BUS_CON}
  BY Nand2410, Nand2440, Nand6410, BoardAssumption DEF Cpus

-----------------------------------------------------------------------------
(* The NAND operations as lists of controller calls.                         *)

Ends(list) == list # <<>> => list[Len(list)] = Release

LEMMA Tuples ==
  ASSUME NEW a, NEW b
  PROVE  IsList(<<>>) /\ IsList(<<a>>) /\ IsList(<<a, b>>)
  BY DEF IsList

LEMMA NfLists ==
  ASSUME NEW call, NEW bytes, IsList(bytes)
  PROVE  IsList(NF(call, bytes))
<1> DEFINE f == NF(call, bytes)
<1>1. Len(bytes) \in Nat
  BY DEF IsList
<1>2. f = [i \in 1 .. Len(bytes) |-> f[i]]
  BY DEF NF
<1> HIDE DEF f
<1>3. IsList(f)
  BY <1>1, <1>2, FromFunction
<1> QED BY <1>3 DEF f

LEMMA Bytes1 ==
  /\ \A command : IsList(NF_CMD(command))
  /\ IsList(dev_ready) /\ IsList(select_chip)
  /\ \A command : IsList(Waits(command))
  /\ \A bytes : IsList(bytes) => IsList(NF_ADDR(bytes)) /\ IsList(write_buf(bytes))
  /\ \A n \in Nat : IsList(read_buf(n))
<1>1. \A call, bytes : IsList(bytes) => IsList(NF(call, bytes))
  BY NfLists
<1>2. ASSUME NEW n \in Nat PROVE IsList([i \in 1 .. n |-> 0])
  BY FromFunction
<1>3. IsList(dev_ready) /\ IsList(select_chip) /\ \A command : IsList(NF_CMD(command))
  BY <1>1, Tuples DEF NF_CMD, dev_ready, select_chip
<1>4. \A command : IsList(Waits(command))
  BY <1>3, Tuples DEF Waits
<1> QED BY <1>1, <1>2, <1>3, <1>4 DEF NF_ADDR, write_buf, read_buf

LEMMA Addresses ==
  ASSUME NEW page, NEW command, NEW column
  PROVE  /\ IsList(cmdfunc(g, command, column, page))
         /\ IsList(nand_command(g, command, column, page))
<1>1. IsList(Row(g, page))
  BY Tuples, Joined DEF Row
<1>2. IsList(RowIfAny(g, page))
  BY <1>1, Tuples DEF RowIfAny
<1>3. IsList(nand_command(g, command, column, page))
  <2>1. \A c : IsList((IF column = NoAddress THEN <<>> ELSE <<c>>) \o RowIfAny(g, page))
    BY <1>2, Tuples, Joined
  <2>2. \A c : IsList(IF command = SEQIN THEN NF_CMD(c) ELSE <<>>)
    BY Bytes1, Tuples
  <2> QED BY <2>1, <2>2, Bytes1, Joined DEF nand_command
<1>4. IsList(nand_command_lp(g, command, column, page))
  <2> DEFINE spare == command = READOOB
             sent == IF spare THEN READ0 ELSE command
             at == IF spare THEN column + oobblock(g) ELSE column
             address == (IF at = NoAddress THEN <<>> ELSE <<at % RADIX, at \div RADIX>>) \o RowIfAny(g, page)
             start == IF sent = READ0 THEN NF_CMD(READSTART) ELSE <<>>
  <2>1. nand_command_lp(g, command, column, page) = NF_CMD(sent) \o NF_ADDR(address) \o start \o Waits(sent)
    BY DEF nand_command_lp
  <2> HIDE DEF sent, at
  <2>2. IsList(address) /\ IsList(start)
    BY <1>2, Tuples, Joined, Bytes1
  <2> HIDE DEF address, start
  <2> QED BY <2>1, <2>2, Bytes1, Joined
<1> QED BY <1>3, <1>4 DEF cmdfunc

\* A list of calls that nand_release_device follows.
LEMMA Released ==
  ASSUME NEW x, IsList(x)
  PROVE  /\ IsList(x \o nand_release_device) /\ Ends(x \o nand_release_device)
         /\ x \o nand_release_device # <<>>
<1> DEFINE r == nand_release_device
<1>1. Len(r) = 1 /\ r[1] = Release /\ IsList(r)
  <2>1. r = <<Release>>
    BY DEF nand_release_device, NF, Release
  <2> HIDE DEF r
  <2> QED BY <2>1, Tuples
<1> HIDE DEF r
<1> DEFINE y == x \o r
<1>2. /\ IsList(x \o r) /\ Len(x) \in Nat /\ Len(x \o r) = Len(x) + Len(r)
      /\ \A k \in 1 .. Len(r) : (x \o r)[Len(x) + k] = r[k]
  <2> HIDE DEF y
  <2>1. IsList(r)
    BY <1>1
  <2> QED BY <2>1, Joined
<1>3. IsList(y) /\ Len(x) \in Nat /\ Len(y) = Len(x) + Len(r) /\ \A k \in 1 .. Len(r) : y[Len(x) + k] = r[k]
  BY <1>2
<1> HIDE DEF y
<1>4. Len(y) = Len(x) + 1 /\ y[Len(x) + 1] = Release
  <2>1. 1 \in 1 .. Len(r)
    BY <1>1
  <2> QED BY <1>1, <1>3, <2>1
<1>5. y # <<>>
  BY <1>3, <1>4
<1>6. Ends(y)
  BY <1>4 DEF Ends
<1> QED BY <1>3, <1>5, <1>6 DEF y, r

LEMMA Sizes == oobblock(g) \in Nat /\ oobsize = 2 /\ oobsize \in Nat
  BY RadixAssumption DEF oobblock, oobsize

\* The bytes an operation is given.
LEMMA Slices ==
  ASSUME NEW m \in Nat, NEW n \in Nat
  PROVE  IsList(SubSeq(PageData, m, n)) /\ (m = 1 => Len(SubSeq(PageData, m, n)) = n)
<1> DEFINE f == SubSeq(PageData, m, n)
           S == {PageData[i] : i \in m .. n}
<1>1. f \in Seq(S) /\ Len(f) = IF m <= n THEN n - m + 1 ELSE 0
  BY SubSeqProperties
<1> HIDE DEF f, S
<1>2. IsList(f) /\ (m = 1 => Len(f) = n)
  BY <1>1, FromSeq
<1> QED BY <1>2 DEF f

LEMMA Operations ==
  ASSUME NEW page, NEW block
  PROVE  /\ \A n \in Nat : LET list == nand_read_ecc(g, page, n) IN IsList(list) /\ Ends(list)
         /\ \A column \in 0 .. oobsize - 1, len \in Nat :
              LET list == nand_read_oob(g, page, column, len) IN IsList(list) /\ Ends(list)
         /\ LET list == nand_block_bad(g, block) IN IsList(list) /\ Ends(list)
         /\ \A bytes, oob : IsList(bytes) /\ IsList(oob) =>
              LET list == nand_write_ecc(g, page, bytes, oob) IN IsList(list) /\ Ends(list)
         /\ \A column \in 0 .. oobsize - 1 : \A bytes :
              IsList(bytes) /\ column + Len(bytes) <= oobsize =>
                LET list == nand_write_oob(g, page, column, bytes) IN IsList(list) /\ Ends(list)
         /\ LET list == nand_erase_nand(g, block) IN IsList(list) /\ Ends(list)
         /\ IsList(nand_scan(g)) /\ Ends(nand_scan(g)) /\ nand_scan(g) # <<>>
<1>1. ASSUME NEW n \in Nat
      PROVE  LET list == nand_read_ecc(g, page, n) IN IsList(list) /\ Ends(list)
  <2> DEFINE OnePage(p) == cmdfunc(g, READ0, 0, p) \o read_buf(oobblock(g)) \o read_buf(oobsize) \o dev_ready
             each == Len(OnePage(page))
             f == [i \in 1 .. n * each |-> OnePage(page + ((i - 1) \div each))[((i - 1) % each) + 1]]
  <2>1. IsList(OnePage(page))
    BY Addresses, Bytes1, Joined, Sizes
  <2>2. nand_read_ecc(g, page, n) = select_chip \o f \o nand_release_device
    BY DEF nand_read_ecc
  <2>3. each \in Nat
    BY <2>1 DEF IsList
  <2> HIDE DEF OnePage, each
  <2>4. n * each \in Nat
    BY <1>1, <2>3
  <2>5. IsList(f)
    <3> DEFINE m == n * each
    <3>1. f = [i \in 1 .. m |-> f[i]]
      OBVIOUS
    <3> HIDE DEF m, f
    <3> QED BY <2>4, <3>1, FromFunction DEF m
  <2> HIDE DEF f
  <2> QED BY <2>2, <2>5, Bytes1, Joined, Released
<1>2. ASSUME NEW column \in 0 .. oobsize - 1, NEW len \in Nat
      PROVE  LET list == nand_read_oob(g, page, column, len) IN IsList(list) /\ Ends(list)
  <2> DEFINE first == IF len < oobsize - column THEN len ELSE oobsize - column
             rest == len - first
             one == cmdfunc(g, READOOB, column, page) \o read_buf(first) \o dev_ready
             two == cmdfunc(g, READOOB, 0, page + 1) \o read_buf(rest) \o dev_ready
             tail == IF rest = 0 THEN <<>> ELSE two
             most == select_chip \o cmdfunc(g, READOOB, column, page) \o read_buf(first) \o dev_ready \o tail
  <2>1. first \in Nat /\ rest \in Nat
    BY <1>2, Sizes
  <2>2. nand_read_oob(g, page, column, len) = most \o nand_release_device
    BY DEF nand_read_oob
  <2> HIDE DEF first, rest
  <2>3. IsList(two)
    BY <2>1, Addresses, Bytes1, Joined
  <2>4. IsList(tail)
    BY <2>3, Tuples
  <2> HIDE DEF tail
  <2>5. IsList(most)
    BY <2>1, <2>4, Addresses, Bytes1, Joined
  <2> HIDE DEF most
  <2> QED BY <2>2, <2>5, Released
<1>3. LET list == nand_block_bad(g, block) IN IsList(list) /\ Ends(list)
  BY Addresses, Bytes1, Joined, Released DEF nand_block_bad
<1>4. \A c, p : IsList(nand_wait(g)) /\ IsList(cmdfunc(g, PAGEPROG, c, p))
  BY Addresses, Bytes1, Joined DEF nand_wait
<1>5. ASSUME NEW bytes, NEW oob, IsList(bytes), IsList(oob)
      PROVE  LET list == nand_write_ecc(g, page, bytes, oob) IN IsList(list) /\ Ends(list)
  <2>1. IsList(nand_write_page(g, page, bytes, oob))
    BY <1>4, <1>5, Addresses, Bytes1, Joined DEF nand_write_page
  <2> QED BY <2>1, Bytes1, Joined, Released DEF nand_write_ecc
<1>6. ASSUME NEW column \in 0 .. oobsize - 1, NEW bytes, IsList(bytes), column + Len(bytes) <= oobsize
      PROVE  LET list == nand_write_oob(g, page, column, bytes) IN IsList(list) /\ Ends(list)
  <2> DEFINE pad(n) == [i \in 1 .. n |-> Blank]
             from == IF g.large THEN column ELSE 0
             padded == IF g.large THEN bytes
                       ELSE pad(column) \o bytes \o pad(oobsize - (Len(bytes) + column))
             most == select_chip \o cmdfunc(g, RESET, NoAddress, NoAddress)
                     \o cmdfunc(g, SEQIN, oobblock(g) + from, page) \o write_buf(padded)
                     \o cmdfunc(g, PAGEPROG, NoAddress, NoAddress) \o nand_wait(g)
  <2>1. ASSUME NEW n \in Nat PROVE IsList(pad(n))
    BY <2>1, FromFunction
  <2>2. Len(bytes) \in Nat /\ column \in Nat /\ oobsize - (Len(bytes) + column) \in Nat
    BY <1>6, Sizes DEF IsList
  <2>3. nand_write_oob(g, page, column, bytes) = most \o nand_release_device
    BY DEF nand_write_oob
  <2> HIDE DEF pad
  <2>4. IsList(padded)
    BY <1>6, <2>1, <2>2, Joined
  <2> HIDE DEF from, padded
  <2>5. IsList(most)
    BY <1>4, <2>4, Addresses, Bytes1, Joined
  <2> HIDE DEF most
  <2> QED BY <2>3, <2>5, Released
<1>7. LET list == nand_erase_nand(g, block) IN IsList(list) /\ Ends(list)
  <2>1. IsList(single_erase_cmd(g, block * PagesPerBlock))
    BY Addresses, Joined DEF single_erase_cmd
  <2> QED BY <1>4, <2>1, Bytes1, Joined, Released DEF nand_erase_nand
<1>8. IsList(nand_scan(g)) /\ Ends(nand_scan(g)) /\ nand_scan(g) # <<>>
  <2>1. IdBytes \in Nat
    BY DEF IdBytes
  <2> QED BY <2>1, Addresses, Bytes1, Joined, Released DEF nand_scan
<1> QED BY <1>1, <1>2, <1>3, <1>5, <1>6, <1>7, <1>8

-----------------------------------------------------------------------------
(* The inductive invariant: the cells as the last scan left them, with the   *)
(* scans and the controller calls still to be made, lead to pads nobody      *)
(* fights over and end with nothing asserted.                                *)

\* A strobe is HIGH, or was lowered by the last scan and the next one raises it.
Strobed(cells, list, strobe) ==
  /\ cells[strobe] = HIGH \/ (list # <<>> /\ Raises(list[1], strobe))
  /\ Pulsed(list, strobe)

\* While nOE is LOW the data pads are inputs.
TurnedRound(cells, list) ==
  /\ cells[nOE] = HIGH \/ \A i \in BusLanes : cells[DATA_CON(i)] = In
  /\ \A k \in 1 .. Len(list) : Lowers(list[k], nOE) =>
       \A i \in BusLanes :
         \/ Brings(list[k], DATA_CON(i), In)
         \/ /\ DATA_CON(i) \notin DOMAIN list[k].pins
            /\ IF k = 1 THEN cells[DATA_CON(i)] = In ELSE Brings(list[k - 1], DATA_CON(i), In)

\* Of the devices, bank x alone is selected, now and in the scans to come.
OnlyBank(cells, list, x) ==
  \A b \in Devices :
    /\ cells[nCS(b)] = HIGH \/ b = x
    /\ \A k \in 1 .. Len(list) : Lowers(list[k], nCS(b)) => b = x

\* No scan touches the cell, and it is HIGH.
StaysHigh(cells, list, c) == cells[c] = HIGH /\ LeftAlone(list, {c})

\* A session on the memory bus, and a NAND session.
OnBus(cells, list) ==
  /\ \A strobe \in {nOE, nWE} : Strobed(cells, list, strobe)
  /\ TurnedRound(cells, list)
  /\ \E x \in Banks : OnlyBank(cells, list, x)
  /\ \A c \in {nFCE, nFRE, nFWE} \cap PadCells : StaysHigh(cells, list, c)
OnNand(cells, list) ==
  /\ \A strobe \in {nFRE, nFWE} : Strobed(cells, list, strobe)
  /\ cells[nFRE] = HIGH \/ cells[DATA_CON(0)] = In
  /\ \A k \in 1 .. Len(list) : Lowers(list[k], nFRE) => Brings(list[k], DATA_CON(0), In)
  /\ \A c \in {nOE, nWE} : StaysHigh(cells, list, c)

\* A chip select that is LOW, or will be, is raised by a later scan or later yet.
Deselected(cells, list, select, later) ==
  /\ cells[select] = HIGH \/ later \/ \E k \in 1 .. Len(list) : Raises(list[k], select)
  /\ \A k \in 1 .. Len(list) : Lowers(list[k], select) =>
       later \/ \E j \in k + 1 .. Len(list) : Raises(list[j], select)
AllDeselected(cells, list, todo) ==
  \A c \in Selects : Deselected(cells, list, c, c = NandSelect /\ todo # <<>>)

\* The pads of a session just opened: nothing is driven.
Undriven(l) ==
  /\ l[BUS_CON] = In /\ \A i \in BusLanes : l[DATA_CON(i)] = In
  /\ cpu = "S3C2410" => l[nFCE] = HIGH
  /\ cpu # "S3C2410" => l[NF_CON] = In

PadsAt(kind, cells, l, list, todo) ==
  /\ kind \in {"none", "memory", "nor", "fast", "nand"}
  /\ kind = "nand" => cpu # "S3C2450"
  /\ IsList(list) /\ Quiet(list) /\ IsList(todo)
  /\ PadCells \subseteq DOMAIN cells
  /\ l = cells \/ Undriven(l)
  /\ IF kind = "nand" THEN OnNand(cells, list) /\ Ends(todo)
     ELSE OnBus(cells, list) /\ todo = <<>>
  /\ kind \in {"memory", "nand"} => AllDeselected(cells, list, todo)
PadsInv == cpu \in Cpus /\ PadsAt(session, out, latch, scans, calls)

\* The cells each CPU has.
LEMMA PadFacts ==
  ASSUME cpu \in Cpus
  PROVE  /\ nOE \in PadCells /\ nWE \in PadCells /\ nFRE \in PadCells /\ nFWE \in PadCells
         /\ \A i \in BusLanes : DATA_CON(i) \in PadCells
         /\ 0 \in BusLanes /\ BusLanes \subseteq Lanes
         /\ \A i \in Lanes : DATA(i) \in PadCells => i \in BusLanes
         /\ Watched \subseteq Banks /\ Devices \subseteq Watched
         /\ \A b \in Watched : nCS(b) \in PadCells
         /\ NandSelect \in PadCells
         /\ Selects \subseteq PadCells
         /\ Out # In
<1>1. Watched \subseteq Banks /\ Devices \subseteq Watched
  BY BoardAssumption DEF Cpus, Watched, Devices, Banks
<1>2. 0 \in BusLanes /\ BusLanes \subseteq Lanes /\ Out # In
  BY DEF BusLanes, Lanes, In, Out, LOW, HIGH
<1> DEFINE Common ==
             {nOE, nWE, nFRE, nFWE} \cup {DATA_CON(i) : i \in BusLanes} \cup {nCS(b) : b \in Watched}
             \cup {NandSelect}
           Missing == {DATA(i) : i \in Lanes \ BusLanes}
<1>3. Common \subseteq PadCells /\ Missing \cap PadCells = {}
  <2>1. CASE cpu = "S3C2410"
    <3>1. M2410!Cells = Cells
      BY DEF
         M2410!Cells, M2410!Strobes, M2410!Lanes, M2410!Banks, M2410!nOE, M2410!nWE,
         M2410!nFCE, M2410!nFRE, M2410!nFWE, M2410!CLE, M2410!ALE, M2410!ADDR, M2410!BUS_CON,
         M2410!NF_CON, M2410!nCS, M2410!nBE, M2410!DATA, M2410!DATA_CON, Cells, Strobes, Lanes,
         Banks, nOE, nWE, nFCE, nFRE, nFWE, CLE, ALE, ADDR, BUS_CON, NF_CON, nCS, nBE, DATA,
         DATA_CON
    <3>2. PadCells = Cells \ {NF_CON}
      BY <2>1, <3>1 DEF PadCells, M2410!PadCells, M2410!NF_CON, NF_CON
    <3>3. BusLanes = 0 .. 3 /\ NandSelect = nFCE
      BY <2>1 DEF BusLanes, NandSelect
    <3>4. Watched \subseteq 0 .. 7
      BY <2>1, BoardAssumption DEF Watched, Devices, Cpus
    <3>5. Common \subseteq Cells
      BY <1>1, <1>2, <3>3 DEF Cells, Strobes, Lanes
    <3>6. Common \subseteq PadCells
      BY <3>2, <3>3, <3>4, <3>5 DEF nOE, nWE, nFCE, nFRE, nFWE, nCS, nBE, DATA, DATA_CON, NF_CON
    <3>7. Missing \cap PadCells = {}
      BY <3>2, <3>3 DEF Lanes
    <3> QED BY <3>6, <3>7
  <2>2. CASE cpu = "S3C2440"
    <3>1. M2440!Cells = Cells
      BY DEF
         M2440!Cells, M2440!Strobes, M2440!Lanes, M2440!Banks, M2440!nOE, M2440!nWE,
         M2440!nFCE, M2440!nFRE, M2440!nFWE, M2440!CLE, M2440!ALE, M2440!ADDR, M2440!BUS_CON,
         M2440!NF_CON, M2440!nCS, M2440!nBE, M2440!DATA, M2440!DATA_CON, Cells, Strobes, Lanes,
         Banks, nOE, nWE, nFCE, nFRE, nFWE, CLE, ALE, ADDR, BUS_CON, NF_CON, nCS, nBE, DATA,
         DATA_CON
    <3>2. PadCells = Cells
      BY <2>2, <3>1 DEF PadCells, M2440!PadCells
    <3>3. BusLanes = 0 .. 3 /\ NandSelect = nFCE
      BY <2>2 DEF BusLanes, NandSelect
    <3>4. Watched \subseteq 0 .. 7
      BY <2>2, BoardAssumption DEF Watched, Devices, Cpus
    <3>5. Common \subseteq Cells
      BY <1>1, <1>2, <3>3 DEF Cells, Strobes, Lanes
    <3>6. Common \subseteq PadCells
      BY <3>2, <3>3, <3>4, <3>5 DEF nOE, nWE, nFCE, nFRE, nFWE, nCS, nBE, DATA, DATA_CON, NF_CON
    <3>7. Missing \cap PadCells = {}
      BY <3>2, <3>3 DEF Lanes
    <3> QED BY <3>6, <3>7
  <2>3. CASE cpu = "S3C2450"
    <3>1. M2450!Cells = Cells
      BY DEF
         M2450!Cells, M2450!Strobes, M2450!Lanes, M2450!Banks, M2450!nOE, M2450!nWE,
         M2450!nFCE, M2450!nFRE, M2450!nFWE, M2450!CLE, M2450!ALE, M2450!ADDR, M2450!BUS_CON,
         M2450!NF_CON, M2450!nCS, M2450!nBE, M2450!DATA, M2450!DATA_CON, Cells, Strobes, Lanes,
         Banks, nOE, nWE, nFCE, nFRE, nFWE, CLE, ALE, ADDR, BUS_CON, NF_CON, nCS, nBE, DATA,
         DATA_CON
    <3>2. PadCells = Cells \ ({nCS(6), nCS(7)} \cup UNION {{DATA(i), DATA_CON(i), nBE(i)} : i \in 2 .. 3})
      <4>1. M2450!Lanes \ M2450!BusLanes = 2 .. 3
        BY DEF M2450!Lanes, M2450!BusLanes
      <4>2. PadCells = M2450!PadCells
        BY <2>3 DEF PadCells
      <4> QED
        BY <3>1, <4>1, <4>2 DEF M2450!PadCells, M2450!nCS, M2450!DATA, M2450!DATA_CON, M2450!nBE, M2450!nFCE,
           nCS, DATA, DATA_CON, nBE, nFCE
    <3>3. BusLanes = 0 .. 1 /\ NandSelect = nFCE
      BY <2>3 DEF BusLanes, NandSelect
    <3>4. Watched \subseteq 0 .. 5
      BY <2>3, BoardAssumption DEF Watched, Devices, Cpus
    <3>5. Common \subseteq Cells
      BY <1>1, <1>2, <3>3 DEF Cells, Strobes, Lanes
    <3>6. Common \subseteq PadCells
      BY <3>2, <3>3, <3>4, <3>5 DEF nOE, nWE, nFCE, nFRE, nFWE, nCS, nBE, DATA, DATA_CON, NF_CON
    <3>7. Missing \cap PadCells = {}
      BY <3>2, <3>3 DEF Lanes
    <3> QED BY <3>6, <3>7
  <2>4. CASE cpu = "S3C6410"
    <3>1. M6410!Cells = Cells
      BY DEF
         M6410!Cells, M6410!Strobes, M6410!Lanes, M6410!Banks, M6410!nOE, M6410!nWE,
         M6410!nFCE, M6410!nFRE, M6410!nFWE, M6410!CLE, M6410!ALE, M6410!ADDR, M6410!BUS_CON,
         M6410!NF_CON, M6410!nCS, M6410!nBE, M6410!DATA, M6410!DATA_CON, Cells, Strobes, Lanes,
         Banks, nOE, nWE, nFCE, nFRE, nFWE, CLE, ALE, ADDR, BUS_CON, NF_CON, nCS, nBE, DATA,
         DATA_CON
    <3>2. PadCells = Cells \ ({nFCE, nCS(6), nCS(7)} \cup UNION {{DATA(i), DATA_CON(i), nBE(i)} : i \in 2 .. 3})
      <4>1. M6410!Lanes \ M6410!BusLanes = 2 .. 3
        BY DEF M6410!Lanes, M6410!BusLanes
      <4>2. PadCells = M6410!PadCells
        BY <2>4 DEF PadCells
      <4> QED
        BY <3>1, <4>1, <4>2 DEF M6410!PadCells, M6410!nCS, M6410!DATA, M6410!DATA_CON, M6410!nBE, M6410!nFCE,
           nCS, DATA, DATA_CON, nBE, nFCE
    <3>3. BusLanes = 0 .. 1 /\ NandSelect = nCS(2)
      BY <2>4 DEF BusLanes, NandSelect, N6410!NandSelect, N6410!nCS, nCS
    <3>4. Watched \subseteq 0 .. 5
      BY <2>4, BoardAssumption DEF Watched, Devices, Cpus
    <3>5. Common \subseteq Cells
      BY <1>1, <1>2, <3>3 DEF Cells, Strobes, Lanes, Banks
    <3>6. Common \subseteq PadCells
      BY <3>2, <3>3, <3>4, <3>5 DEF nOE, nWE, nFCE, nFRE, nFWE, nCS, nBE, DATA, DATA_CON, NF_CON
    <3>7. Missing \cap PadCells = {}
      BY <3>2, <3>3 DEF Lanes
    <3> QED BY <3>6, <3>7
  <2> QED BY <2>1, <2>2, <2>3, <2>4, BoardAssumption DEF Cpus
<1> QED BY <1>1, <1>2, <1>3 DEF Selects

LEMMA SameCpu ==
  ASSUME cpu' = cpu, cpu \in Cpus, PadsAt(session', out', latch', scans', calls')
  PROVE  PadsInv'
  BY DEF PadsInv, PadsAt, Undriven, AllDeselected, Deselected, OnNand, OnBus, StaysHigh, OnlyBank,
     TurnedRound, Strobed, In, BusLanes, PadCells, Devices, NandSelect, Selects, Watched, Cpus

-----------------------------------------------------------------------------
(* A scan.                                                                   *)

\* What a scan makes of the cells.
Moved(scan, cells, next) ==
  \A c \in PadCells : next[c] = IF c \in DOMAIN scan.pins THEN scan.pins[c] ELSE cells[c]

LEMMA TailFacts ==
  ASSUME NEW list, IsList(list), list # <<>>
  PROVE  /\ IsList(Tail(list)) /\ Len(list) \in Nat \ {0} /\ Len(Tail(list)) = Len(list) - 1
         /\ \A k \in 1 .. Len(Tail(list)) : Tail(list)[k] = list[k + 1]
         /\ Tail(list) = <<>> => Len(list) = 1
         /\ Head(list) = list[1]
<1> DEFINE S == {list[k] : k \in 1 .. Len(list)}
           t == Tail(list)
<1>1. list \in Seq(S)
  BY DEF IsList
<1> HIDE DEF S
<1>2. /\ Head(list) = list[1] /\ t \in Seq(S) /\ Len(t) = Len(list) - 1
      /\ \A i \in 1 .. Len(t) : t[i] = list[i + 1]
  BY <1>1, HeadTailProperties
<1>3. Len(list) \in Nat \ {0}
  BY <1>1, EmptySeq
<1> HIDE DEF t
<1>4. t = <<>> => Len(t) = 0
  BY EmptySeq
<1>5. IsList(t)
  BY <1>2, FromSeq
<1> QED BY <1>2, <1>3, <1>4, <1>5 DEF t

LEMMA StrobedScan ==
  ASSUME NEW list, IsList(list), list # <<>>, NEW cells, NEW next, NEW strobe \in PadCells,
         Moved(list[1], cells, next), Strobed(cells, list, strobe)
  PROVE  Strobed(next, Tail(list), strobe)
<1> DEFINE t == Tail(list)
<1>1. /\ Len(list) \in Nat \ {0} /\ Len(t) = Len(list) - 1
      /\ \A k \in 1 .. Len(t) : t[k] = list[k + 1]
      /\ t = <<>> => Len(list) = 1
  BY TailFacts
<1> HIDE DEF t
<1>2. Pulsed(t, strobe)
  <2> SUFFICES ASSUME NEW k \in 1 .. Len(t), Lowers(t[k], strobe)
               PROVE  k < Len(t) /\ Raises(t[k + 1], strobe)
    BY DEF Pulsed
  <2>1. k + 1 \in 1 .. Len(list) /\ Lowers(list[k + 1], strobe)
    BY <1>1
  <2>2. k + 1 < Len(list) /\ Raises(list[k + 1 + 1], strobe)
    BY <2>1 DEF Strobed, Pulsed
  <2>3. k + 1 \in 1 .. Len(t)
    BY <1>1, <2>2
  <2> QED BY <1>1, <2>2, <2>3
<1>3. next[strobe] = HIGH \/ (t # <<>> /\ Raises(t[1], strobe))
  <2>1. CASE strobe \in DOMAIN list[1].pins /\ list[1].pins[strobe] = HIGH
    BY <2>1 DEF Moved
  <2>2. CASE strobe \notin DOMAIN list[1].pins
    BY <2>2 DEF Moved, Strobed, Raises, Brings
  <2>3. CASE Lowers(list[1], strobe)
    <3>1. 1 < Len(list) /\ Raises(list[1 + 1], strobe)
      BY <1>1, <2>3 DEF Strobed, Pulsed
    <3> QED BY <1>1, <3>1
  <2> QED BY <2>1, <2>2, <2>3 DEF Lowers
<1> QED BY <1>2, <1>3 DEF Strobed, t

LEMMA TurnedScan ==
  ASSUME cpu \in Cpus, NEW list, IsList(list), list # <<>>, NEW cells, NEW next,
         Moved(list[1], cells, next), Strobed(cells, list, nOE), TurnedRound(cells, list)
  PROVE  TurnedRound(next, Tail(list))
<1> DEFINE t == Tail(list)
<1>1. /\ Len(list) \in Nat \ {0} /\ Len(t) = Len(list) - 1
      /\ \A k \in 1 .. Len(t) : t[k] = list[k + 1]
  BY TailFacts
<1> HIDE DEF t
<1>2. /\ nOE \in PadCells /\ \A i \in BusLanes : DATA_CON(i) \in PadCells
  BY PadFacts
<1>3. next[nOE] = HIGH \/ \A i \in BusLanes : next[DATA_CON(i)] = In
  <2>1. CASE Lowers(list[1], nOE)
    BY <1>1, <1>2, <2>1 DEF TurnedRound, Moved, Brings
  <2>2. CASE nOE \in DOMAIN list[1].pins /\ list[1].pins[nOE] = HIGH
    BY <1>2, <2>2 DEF Moved
  <2>3. CASE nOE \notin DOMAIN list[1].pins
    BY <1>2, <2>3 DEF Moved, Strobed, Raises, Brings
  <2> QED BY <2>1, <2>2, <2>3 DEF Lowers
<1>4. ASSUME NEW k \in 1 .. Len(t), Lowers(t[k], nOE), NEW i \in BusLanes
      PROVE  \/ Brings(t[k], DATA_CON(i), In)
             \/ /\ DATA_CON(i) \notin DOMAIN t[k].pins
                /\ IF k = 1 THEN next[DATA_CON(i)] = In ELSE Brings(t[k - 1], DATA_CON(i), In)
  <2>1. k + 1 \in 1 .. Len(list) /\ t[k] = list[k + 1] /\ k + 1 # 1 /\ k + 1 - 1 = k
    BY <1>1
  <2>2. \/ Brings(list[k + 1], DATA_CON(i), In)
        \/ DATA_CON(i) \notin DOMAIN list[k + 1].pins /\ Brings(list[k + 1 - 1], DATA_CON(i), In)
    BY <1>4, <2>1 DEF TurnedRound
  <2>3. CASE k = 1
    BY <1>2, <2>1, <2>2, <2>3 DEF Moved, Brings
  <2>4. CASE k # 1
    <3>1. k - 1 \in 1 .. Len(t) /\ k - 1 + 1 = k
      BY <1>1, <2>4
    <3>2. t[k - 1] = list[k]
      BY <1>1, <3>1
    <3> QED BY <2>1, <2>2, <2>4, <3>2
  <2> QED BY <2>3, <2>4
<1>5. TurnedRound(next, t)
  BY <1>3, <1>4 DEF TurnedRound
<1> QED BY <1>5 DEF t

LEMMA OnlyBankScan ==
  ASSUME cpu \in Cpus, NEW list, IsList(list), list # <<>>, NEW cells, NEW next, NEW x,
         Moved(list[1], cells, next), OnlyBank(cells, list, x)
  PROVE  OnlyBank(next, Tail(list), x)
<1> DEFINE t == Tail(list)
<1>1. /\ Len(list) \in Nat \ {0} /\ Len(t) = Len(list) - 1
      /\ \A k \in 1 .. Len(t) : t[k] = list[k + 1]
  BY TailFacts
<1> HIDE DEF t
<1>2. \A b \in Devices : nCS(b) \in PadCells
  BY PadFacts
<1>3. ASSUME NEW b \in Devices
      PROVE  /\ next[nCS(b)] = HIGH \/ b = x
             /\ \A k \in 1 .. Len(t) : Lowers(t[k], nCS(b)) => b = x
  <2>1. \A k \in 1 .. Len(list) : Lowers(list[k], nCS(b)) => b = x
    BY DEF OnlyBank
  <2>2. cells[nCS(b)] = HIGH \/ b = x
    BY DEF OnlyBank
  <2>3. Lowers(list[1], nCS(b)) => b = x
    BY <1>1, <2>1
  <2>4. next[nCS(b)] = HIGH \/ b = x
    BY <1>2, <2>2, <2>3 DEF Moved, Lowers
  <2>5. \A k \in 1 .. Len(t) : k + 1 \in 1 .. Len(list)
    BY <1>1
  <2> QED BY <1>1, <2>1, <2>4, <2>5
<1>4. OnlyBank(next, t, x)
  BY <1>3 DEF OnlyBank
<1> QED BY <1>4 DEF t

LEMMA HighScan ==
  ASSUME NEW list, IsList(list), list # <<>>, NEW cells, NEW next, NEW c \in PadCells,
         Moved(list[1], cells, next), StaysHigh(cells, list, c)
  PROVE  StaysHigh(next, Tail(list), c)
<1> DEFINE t == Tail(list)
<1>1. /\ Len(list) \in Nat \ {0} /\ Len(t) = Len(list) - 1
      /\ \A k \in 1 .. Len(t) : t[k] = list[k + 1]
  BY TailFacts
<1> HIDE DEF t
<1>2. \A k \in 1 .. Len(list) : c \notin DOMAIN list[k].pins
  BY DEF StaysHigh, LeftAlone
<1>3. c \notin DOMAIN list[1].pins /\ \A k \in 1 .. Len(t) : k + 1 \in 1 .. Len(list)
  BY <1>1, <1>2
<1>4. next[c] = HIGH
  BY <1>3 DEF StaysHigh, Moved
<1>5. LeftAlone(t, {c})
  BY <1>1, <1>2, <1>3 DEF LeftAlone
<1> QED BY <1>4, <1>5 DEF StaysHigh, t

LEMMA DeselectedScan ==
  ASSUME NEW list, IsList(list), list # <<>>, NEW cells, NEW next, NEW c \in PadCells, NEW later,
         Moved(list[1], cells, next), Deselected(cells, list, c, later)
  PROVE  Deselected(next, Tail(list), c, later)
<1> DEFINE t == Tail(list)
<1>1. /\ Len(list) \in Nat \ {0} /\ Len(t) = Len(list) - 1
      /\ \A k \in 1 .. Len(t) : t[k] = list[k + 1]
  BY TailFacts
<1> HIDE DEF t
<1>2. \A k \in 1 .. Len(t) : k + 1 \in 1 .. Len(list)
  BY <1>1
<1>3. \A j \in 2 .. Len(list) : j - 1 \in 1 .. Len(t) /\ t[j - 1] = list[j]
  BY <1>1
<1>4. \A k \in 1 .. Len(list) : Lowers(list[k], c) =>
        later \/ \E j \in k + 1 .. Len(list) : Raises(list[j], c)
  BY DEF Deselected
<1>5. next[c] = HIGH \/ later \/ \E k \in 1 .. Len(t) : Raises(t[k], c)
  <2>1. CASE c \in DOMAIN list[1].pins /\ list[1].pins[c] = HIGH
    BY <2>1 DEF Moved
  <2>2. CASE Lowers(list[1], c)
    <3>1. later \/ \E j \in 1 + 1 .. Len(list) : Raises(list[j], c)
      BY <1>1, <1>4, <2>2
    <3> QED BY <1>3, <3>1
  <2>3. CASE c \notin DOMAIN list[1].pins
    <3>1. cells[c] = HIGH \/ later \/ \E k \in 1 .. Len(list) : Raises(list[k], c)
      BY DEF Deselected
    <3>2. CASE cells[c] = HIGH
      BY <2>3, <3>2 DEF Moved
    <3>3. ASSUME NEW k \in 1 .. Len(list), Raises(list[k], c)
          PROVE  \E j \in 1 .. Len(t) : Raises(t[j], c)
      <4>1. k # 1
        BY <2>3, <3>3 DEF Raises, Brings
      <4> QED BY <1>3, <3>3, <4>1
    <3> QED BY <3>1, <3>2, <3>3
  <2> QED BY <2>1, <2>2, <2>3 DEF Lowers
<1>6. ASSUME NEW k \in 1 .. Len(t), Lowers(t[k], c)
      PROVE  later \/ \E j \in k + 1 .. Len(t) : Raises(t[j], c)
  <2>1. later \/ \E j \in k + 1 + 1 .. Len(list) : Raises(list[j], c)
    BY <1>1, <1>2, <1>4, <1>6
  <2>2. ASSUME NEW j \in k + 1 + 1 .. Len(list), Raises(list[j], c)
        PROVE  \E i \in k + 1 .. Len(t) : Raises(t[i], c)
    <3>1. j - 1 \in k + 1 .. Len(t) /\ t[j - 1] = list[j]
      BY <1>1, <1>3, <2>2
    <3> QED BY <2>2, <3>1
  <2> QED BY <2>1, <2>2
<1>7. Deselected(next, t, c, later)
  BY <1>5, <1>6 DEF Deselected
<1> QED BY <1>7 DEF t

\* A scan keeps the invariant's conditions.
LEMMA PadsScan ==
  ASSUME cpu \in Cpus, NEW kind, NEW cells, NEW l, NEW list, NEW todo, list # <<>>,
         PadsAt(kind, cells, l, list, todo),
         NEW next, Moved(list[1], cells, next), PadCells \subseteq DOMAIN next,
         NEW m, m = next \/ Undriven(m)
  PROVE  PadsAt(kind, next, m, Tail(list), todo)
<1> DEFINE t == Tail(list)
<1>1. IsList(list)
  BY DEF PadsAt
<1>2. /\ IsList(t) /\ Len(list) \in Nat \ {0} /\ Len(t) = Len(list) - 1
      /\ \A k \in 1 .. Len(t) : t[k] = list[k + 1]
  BY <1>1, TailFacts
<1> HIDE DEF t
<1>3. Quiet(t)
  <2>1. \A k \in 1 .. Len(t) : k + 1 \in 1 .. Len(list)
    BY <1>2
  <2> QED BY <1>2, <2>1 DEF PadsAt, Quiet
<1>4. ASSUME kind = "nand" PROVE OnNand(next, t)
  <2>1. OnNand(cells, list)
    BY <1>4 DEF PadsAt
  <2>2. \A strobe \in {nFRE, nFWE} : Strobed(next, t, strobe)
    BY <1>1, <2>1, PadFacts, StrobedScan DEF OnNand, t
  <2>3. \A c \in {nOE, nWE} : StaysHigh(next, t, c)
    BY <1>1, <2>1, PadFacts, HighScan DEF OnNand, t
  <2>4. next[nFRE] = HIGH \/ next[DATA_CON(0)] = In
    <3>1. nFRE \in PadCells /\ DATA_CON(0) \in PadCells
      BY PadFacts
    <3>2. CASE Lowers(list[1], nFRE)
      <4>1. Brings(list[1], DATA_CON(0), In)
        BY <1>2, <2>1, <3>2 DEF OnNand
      <4> QED BY <3>1, <4>1 DEF Moved, Brings
    <3>3. CASE nFRE \in DOMAIN list[1].pins /\ list[1].pins[nFRE] = HIGH
      BY <3>1, <3>3 DEF Moved
    <3>4. CASE nFRE \notin DOMAIN list[1].pins
      <4>1. cells[nFRE] = HIGH
        BY <2>1, <3>4 DEF OnNand, Strobed, Raises, Brings
      <4> QED BY <3>1, <3>4, <4>1 DEF Moved
    <3> QED BY <3>2, <3>3, <3>4 DEF Lowers
  <2>5. \A k \in 1 .. Len(t) : Lowers(t[k], nFRE) => Brings(t[k], DATA_CON(0), In)
    <3>1. \A k \in 1 .. Len(t) : k + 1 \in 1 .. Len(list)
      BY <1>2
    <3> QED BY <1>2, <2>1, <3>1 DEF OnNand
  <2> QED BY <2>2, <2>3, <2>4, <2>5 DEF OnNand
<1>5. ASSUME kind # "nand" PROVE OnBus(next, t)
  <2>1. OnBus(cells, list)
    BY <1>5 DEF PadsAt
  <2>2. \A strobe \in {nOE, nWE} : Strobed(next, t, strobe)
    BY <1>1, <2>1, PadFacts, StrobedScan DEF OnBus, t
  <2>3. TurnedRound(next, t)
    BY <1>1, <2>1, TurnedScan DEF OnBus, t
  <2>4. \E x \in Banks : OnlyBank(next, t, x)
    <3>1. PICK x \in Banks : OnlyBank(cells, list, x)
      BY <2>1 DEF OnBus
    <3>2. OnlyBank(next, t, x)
      BY <1>1, <3>1, OnlyBankScan DEF t
    <3> QED BY <3>2
  <2>5. \A c \in {nFCE, nFRE, nFWE} \cap PadCells : StaysHigh(next, t, c)
    BY <1>1, <2>1, HighScan DEF OnBus, t
  <2> QED BY <2>2, <2>3, <2>4, <2>5 DEF OnBus
<1>6. ASSUME kind \in {"memory", "nand"} PROVE AllDeselected(next, t, todo)
  <2>1. AllDeselected(cells, list, todo)
    BY <1>6 DEF PadsAt
  <2>2. \A c \in Selects : c \in PadCells /\ Deselected(cells, list, c, c = NandSelect /\ todo # <<>>)
    BY <2>1, PadFacts DEF AllDeselected
  <2>3. \A c \in Selects : Deselected(next, t, c, c = NandSelect /\ todo # <<>>)
    BY <1>1, <2>2, DeselectedScan DEF t
  <2> QED BY <2>3 DEF AllDeselected
<1>7. PadsAt(kind, next, m, t, todo)
  BY <1>2, <1>3, <1>4, <1>5, <1>6 DEF PadsAt
<1> QED BY <1>7 DEF t

-----------------------------------------------------------------------------
(* A call.                                                                   *)

\* With nothing left to scan the strobes are HIGH, and the chip selects of a
\* session that deselects.
LEMMA AtEnd ==
  ASSUME cpu \in Cpus, NEW kind, NEW cells, NEW l, PadsAt(kind, cells, l, <<>>, <<>>)
  PROVE  /\ cells[nOE] = HIGH /\ cells[nWE] = HIGH /\ cells[nFRE] = HIGH /\ cells[nFWE] = HIGH
         /\ kind \in {"memory", "nand"} => \A c \in Selects : cells[c] = HIGH
<1>1. Len(<<>>) = 0 /\ 1 .. 0 = {}
  BY EmptySeq
<1>2. \A strobe : Strobed(cells, <<>>, strobe) => cells[strobe] = HIGH
  BY DEF Strobed
<1>3. \A c : Deselected(cells, <<>>, c, FALSE) => cells[c] = HIGH
  BY <1>1 DEF Deselected
<1>4. CASE kind = "nand"
  <2>1. OnNand(cells, <<>>)
    BY <1>4 DEF PadsAt
  <2> QED BY <1>2, <1>3, <1>4, <2>1 DEF OnNand, StaysHigh, PadsAt, AllDeselected
<1>5. CASE kind # "nand"
  <2>1. OnBus(cells, <<>>)
    BY <1>5 DEF PadsAt
  <2>2. nFRE \in PadCells /\ nFWE \in PadCells
    BY PadFacts
  <2> QED BY <1>2, <1>3, <1>5, <2>1, <2>2 DEF OnBus, StaysHigh, PadsAt, AllDeselected
<1> QED BY <1>4, <1>5

\* What a call on the bus brings with it.
LEMMA BusCall ==
  ASSUME cpu \in Cpus, NEW kind, kind # "nand", NEW cells, NEW l, PadsAt(kind, cells, l, <<>>, <<>>),
         NEW list, NEW x \in Banks, NEW released, Tidy(list, BusLanes, In, {x}, released),
         \A b \in Devices \ {x} : cells[nCS(b)] = HIGH,
         kind = "memory" => {x} \cap Watched \subseteq released
  PROVE  PadsAt(kind, cells, l, list, <<>>)
<1>1. /\ IsList(list) /\ Quiet(list) /\ Pulsed(list, nOE) /\ Pulsed(list, nWE)
      /\ Turned(list, BusLanes, In) /\ Selecting(list, {x}, released)
      /\ LeftAlone(list, {nFCE, nFRE, nFWE})
  BY DEF Tidy
<1>2. /\ cells[nOE] = HIGH /\ cells[nWE] = HIGH
      /\ kind = "memory" => \A c \in Selects : cells[c] = HIGH
  BY AtEnd
<1>3. Strobed(cells, list, nOE) /\ Strobed(cells, list, nWE)
  BY <1>1, <1>2 DEF Strobed
<1>4. TurnedRound(cells, list)
  <2>1. ASSUME NEW k \in 1 .. Len(list), Lowers(list[k], nOE), NEW i \in BusLanes
        PROVE  \/ Brings(list[k], DATA_CON(i), In)
               \/ /\ DATA_CON(i) \notin DOMAIN list[k].pins
                  /\ IF k = 1 THEN cells[DATA_CON(i)] = In ELSE Brings(list[k - 1], DATA_CON(i), In)
    BY <1>1, <2>1 DEF Turned
  <2> QED BY <1>2, <2>1 DEF TurnedRound
<1>5. OnlyBank(cells, list, x)
  <2>1. Devices \subseteq Banks
    BY PadFacts
  <2> QED BY <1>1, <2>1 DEF OnlyBank, Selecting
<1>6. \A c \in {nFCE, nFRE, nFWE} \cap PadCells : StaysHigh(cells, list, c)
  <2>1. \A c \in {nFCE, nFRE, nFWE} \cap PadCells : cells[c] = HIGH
    BY DEF PadsAt, OnBus, StaysHigh
  <2> QED BY <1>1, <2>1 DEF StaysHigh, LeftAlone
<1>7. OnBus(cells, list)
  BY <1>3, <1>4, <1>5, <1>6 DEF OnBus
<1>8. ASSUME kind = "memory" PROVE AllDeselected(cells, list, <<>>)
  <2>1. \A c \in Selects : cells[c] = HIGH
    BY <1>2, <1>8
  <2>2. ASSUME NEW b \in Watched, NEW k \in 1 .. Len(list), Lowers(list[k], nCS(b))
        PROVE  \E j \in k + 1 .. Len(list) : Raises(list[j], nCS(b))
    <3>1. b \in Banks
      BY PadFacts
    <3> QED BY <1>1, <1>8, <2>2, <3>1 DEF Selecting
  <2>3. ASSUME NEW k \in 1 .. Len(list), Lowers(list[k], nFCE)
        PROVE  FALSE
    BY <1>1, <2>3 DEF LeftAlone, Lowers
  <2>4. NandSelect = nFCE \/ \E b \in Watched : NandSelect = nCS(b)
    BY DEF NandSelect, N6410!NandSelect, N6410!nCS, nCS, Watched
  <2>5. \A c \in Selects : c = nFCE \/ \E b \in Watched : c = nCS(b)
    BY <2>4 DEF Selects
  <2>6. \A c \in Selects : Deselected(cells, list, c, c = NandSelect /\ <<>> # <<>>)
    BY <2>1, <2>2, <2>3, <2>5 DEF Deselected
  <2> QED BY <2>6 DEF AllDeselected
<1> QED BY <1>1, <1>7, <1>8 DEF PadsAt

\* The functions a NAND operation calls, or the scans a NAND session opens with.
LEMMA OnNandList ==
  ASSUME cpu \in Cpus, NEW cells, OnNand(cells, <<>>), NEW list, NandTidy(list, In, NandSelect)
  PROVE  OnNand(cells, list)
<1>1. cells[nFRE] = HIGH /\ cells[nFWE] = HIGH
  BY DEF OnNand, Strobed
<1>2. \A strobe \in {nFRE, nFWE} : Strobed(cells, list, strobe)
  BY <1>1 DEF Strobed, NandTidy
<1>3. nOE # NandSelect /\ nWE # NandSelect
  BY DEF NandSelect, N6410!NandSelect, N6410!nCS, nFCE, nOE, nWE
<1>4. \A c \in {nOE, nWE} : StaysHigh(cells, list, c)
  BY <1>3 DEF OnNand, StaysHigh, NandTidy, LeftAlone
<1> QED BY <1>1, <1>2, <1>4 DEF OnNand, NandTidy

LEMMA SelectsLeftAlone ==
  ASSUME cpu \in Cpus, NEW list, NandTidy(list, In, NandSelect),
         NEW c \in Selects \ {NandSelect}, NEW k \in 1 .. Len(list)
  PROVE  ~Lowers(list[k], c)
<1>1. PICK b \in Watched : c = nCS(b)
  BY DEF Selects
<1>2. b \in Banks
  BY PadFacts
<1> QED BY <1>1, <1>2 DEF NandTidy, LeftAlone, Lowers

LEMMA NandCallLoaded ==
  ASSUME cpu \in Cpus, NEW cells, NEW l, PadsAt("nand", cells, l, <<>>, <<>>),
         NEW list, NandTidy(list, In, NandSelect) \/ list = <<>>,
         NEW todo, IsList(todo), Ends(todo), list = <<>> \/ todo # <<>>
  PROVE  PadsAt("nand", cells, l, list, todo)
<1>1. OnNand(cells, <<>>) /\ \A c \in Selects : cells[c] = HIGH
  BY AtEnd DEF PadsAt
<1>2. OnNand(cells, list)
  BY <1>1, OnNandList
<1>3. IsList(list) /\ Quiet(list)
  BY DEF PadsAt, NandTidy
<1>4. AllDeselected(cells, list, todo)
  <2>1. CASE list = <<>>
    <3>1. Len(<<>>) = 0 /\ 1 .. 0 = {}
      BY EmptySeq
    <3> QED BY <1>1, <2>1, <3>1 DEF AllDeselected, Deselected
  <2>2. CASE list # <<>>
    <3>1. \A c \in Selects \ {NandSelect}, k \in 1 .. Len(list) : ~Lowers(list[k], c)
      BY <2>2, SelectsLeftAlone
    <3> QED BY <1>1, <2>2, <3>1 DEF AllDeselected, Deselected
  <2> QED BY <2>1, <2>2
<1> QED BY <1>2, <1>3, <1>4 DEF PadsAt

LEMMA NextCallLoaded ==
  ASSUME cpu \in Cpus, NEW kind, NEW cells, NEW l, NEW todo, todo # <<>>,
         PadsAt(kind, cells, l, <<>>, todo)
  PROVE  PadsAt(kind, cells, l, NandScans(Head(todo)), Tail(todo))
<1> DEFINE list == NandScans(Head(todo))
           t == Tail(todo)
<1>1. kind = "nand" /\ cpu # "S3C2450"
  BY DEF PadsAt
<1>2. NandTidy(list, In, NandSelect)
  BY <1>1, NandCalls
<1>3. /\ IsList(t) /\ Len(todo) \in Nat \ {0} /\ Len(t) = Len(todo) - 1
      /\ \A k \in 1 .. Len(t) : t[k] = todo[k + 1]
      /\ t = <<>> => Len(todo) = 1
      /\ Head(todo) = todo[1]
  BY TailFacts DEF PadsAt
<1>4. todo[Len(todo)] = Release
  BY <1>1 DEF PadsAt, Ends
<1>5. t = <<>> => list = << Shift(SetPins({NandSelect}, HIGH)) >>
  BY <1>1, <1>3, <1>4, NandCalls
<1> HIDE DEF list, t
<1>6. Ends(t)
  <2>1. t # <<>> => Len(t) # 0
    BY <1>3, EmptySeq DEF IsList
  <2>2. t # <<>> => Len(t) \in 1 .. Len(t)
    BY <1>3, <2>1
  <2> QED BY <1>3, <1>4, <2>2 DEF Ends
<1>7. OnNand(cells, list)
  BY <1>1, <1>2, OnNandList DEF PadsAt
<1>8. AllDeselected(cells, list, t)
  <2>1. \A c \in Selects \ {NandSelect} : cells[c] = HIGH
    <3>1. \A c \in Selects : Deselected(cells, <<>>, c, c = NandSelect /\ todo # <<>>)
      BY <1>1 DEF PadsAt, AllDeselected
    <3>2. Len(<<>>) = 0 /\ 1 .. 0 = {}
      BY EmptySeq
    <3> QED BY <3>1, <3>2 DEF Deselected
  <2>2. \A c \in Selects \ {NandSelect}, k \in 1 .. Len(list) : ~Lowers(list[k], c)
    BY <1>2, SelectsLeftAlone
  <2>3. \A c \in Selects \ {NandSelect} : Deselected(cells, list, c, c = NandSelect /\ t # <<>>)
    BY <2>1, <2>2 DEF Deselected
  <2>4. CASE t # <<>>
    BY <2>3, <2>4 DEF AllDeselected, Deselected
  <2>5. CASE t = <<>>
    <3> DEFINE a == Shift(SetPins({NandSelect}, HIGH))
    <3>1. DOMAIN a.pins = {NandSelect} /\ a.pins[NandSelect] = HIGH
      BY AllSet DEF Shift
    <3> HIDE DEF a
    <3>2. list = <<a>>
      BY <1>5, <2>5 DEF a
    <3>3. Len(list) = 1 /\ list[1] = a
      BY <3>2
    <3>4. Raises(list[1], NandSelect) /\ \A k \in 1 .. Len(list) : ~Lowers(list[k], NandSelect)
      BY <3>1, <3>3 DEF Raises, Brings, Lowers
    <3>5. Deselected(cells, list, NandSelect, FALSE)
      BY <3>3, <3>4 DEF Deselected
    <3> QED BY <2>3, <2>5, <3>5 DEF AllDeselected
  <2> QED BY <2>4, <2>5
<1>9. PadsAt(kind, cells, l, list, t)
  BY <1>1, <1>2, <1>3, <1>6, <1>7, <1>8 DEF PadsAt, NandTidy
<1> QED BY <1>9 DEF list, t

-----------------------------------------------------------------------------
(* A session opens.                                                          *)

LEMMA StrobesFirst ==
  ASSUME NEW f, NEW S, DOMAIN f \cap Strobes = {}
  PROVE  \A c \in Strobes : c \in DOMAIN (f ++ SetPins(S, HIGH)) => (f ++ SetPins(S, HIGH))[c] = HIGH
<1> DEFINE h == SetPins(S, HIGH)
           z == f ++ h
<1>1. \A c \in S : h[c] = HIGH
  BY AllSet
<1>2. DOMAIN h = S
  BY AllSet
<1>3. DOMAIN z = DOMAIN f \cup DOMAIN h /\ \A c \in DOMAIN h \ DOMAIN f : z[c] = h[c]
  BY Overlaid
<1> HIDE DEF h, z
<1>4. \A c \in Strobes : c \in DOMAIN z => z[c] = HIGH
  BY <1>1, <1>2, <1>3
<1> QED BY <1>4 DEF z, h

\* The cells nobody is to be selected or written by start HIGH.
LEMMA InitPins ==
  ASSUME cpu \in Cpus
  PROVE  /\ \A c \in Strobes \cap DOMAIN InitCell : InitCell[c] = HIGH
         /\ CellFill = In
         /\ BUS_CON \in PadCells
         /\ cpu = "S3C2410" => nFCE \in PadCells
         /\ cpu # "S3C2410" => NF_CON \in PadCells
<1> DEFINE Before(i, o) == Direction(BusLanes, i) ++ SetPins({BUS_CON}, o)
           Strobing(S) == Before(In, Out) ++ SetPins(S, HIGH)
<1>1. DOMAIN Before(In, Out) \cap Strobes = {}
  <2>1. DOMAIN Before(In, Out) = {DATA_CON(i) : i \in BusLanes} \cup {BUS_CON}
    <3> DEFINE d == Direction(BusLanes, In)
               b == SetPins({BUS_CON}, Out)
    <3>1. DOMAIN d = {DATA_CON(i) : i \in BusLanes}
      BY AllSet DEF Direction
    <3>2. DOMAIN b = {BUS_CON}
      BY AllSet
    <3> HIDE DEF d, b
    <3>3. DOMAIN (d ++ b) = DOMAIN d \cup DOMAIN b
      BY Overlaid
    <3>4. DOMAIN (d ++ b) = {DATA_CON(i) : i \in BusLanes} \cup {BUS_CON}
      BY <3>1, <3>2, <3>3
    <3> QED BY <3>4 DEF d, b
  <2> HIDE DEF Before
  <2> QED BY <2>1 DEF Strobes, DATA_CON, BUS_CON, nOE, nWE, nFCE, nFRE, nFWE, nCS, nBE
<1>2. \A S : \A c \in Strobes \cap DOMAIN Strobing(S) : Strobing(S)[c] = HIGH
  BY <1>1, StrobesFirst
<1> HIDE DEF Strobing
<1>3. CASE cpu = "S3C2410"
  <2>1. InitCell = Strobing(M2410!Strobes)
    BY <1>3 DEF InitCell, M2410!S2410_InitCell, M2410!++, M2410!Direction, M2410!SetPins, M2410!BusLanes,
       M2410!In, M2410!Out, M2410!HIGH, M2410!LOW, M2410!Lanes, M2410!BUS_CON, M2410!DATA_CON,
       Strobing, ++, Direction, SetPins, BusLanes, In, Out, HIGH, LOW, Lanes, BUS_CON, DATA_CON
  <2>2. CellFill = In /\ BUS_CON \in PadCells /\ nFCE \in PadCells
    BY <1>3 DEF CellFill, M2410!CellFill, M2410!HIGH, HIGH, In, PadCells, M2410!PadCells, M2410!Cells,
       M2410!Strobes, M2410!BUS_CON, M2410!NF_CON, M2410!nFCE, BUS_CON, NF_CON, nFCE
  <2> QED BY <1>2, <1>3, <2>1, <2>2
<1>4. CASE cpu = "S3C2440"
  <2>1. InitCell = Strobing(M2440!Strobes)
    BY <1>4 DEF InitCell, M2440!S2440_InitCell, M2440!++, M2440!Direction, M2440!SetPins, M2440!BusLanes,
       M2440!In, M2440!Out, M2440!HIGH, M2440!LOW, M2440!Lanes, M2440!BUS_CON, M2440!DATA_CON,
       Strobing, ++, Direction, SetPins, BusLanes, In, Out, HIGH, LOW, Lanes, BUS_CON, DATA_CON
  <2>2. CellFill = In /\ BUS_CON \in PadCells /\ NF_CON \in PadCells
    BY <1>4 DEF CellFill, M2440!CellFill, M2440!HIGH, HIGH, In, PadCells, M2440!PadCells, M2440!Cells,
       M2440!BUS_CON, M2440!NF_CON, BUS_CON, NF_CON
  <2> QED BY <1>2, <1>4, <2>1, <2>2
<1>5. CASE cpu = "S3C2450"
  <2>1. InitCell = Strobing(M2450!Strobes \cap M2450!PadCells)
    BY <1>5 DEF InitCell, M2450!S2450_InitCell, M2450!++, M2450!Direction, M2450!SetPins, M2450!BusLanes,
       M2450!In, M2450!Out, M2450!HIGH, M2450!LOW, M2450!Lanes, M2450!BUS_CON, M2450!DATA_CON,
       Strobing, ++, Direction, SetPins, BusLanes, In, Out, HIGH, LOW, Lanes, BUS_CON, DATA_CON
  <2>2. CellFill = In /\ BUS_CON \in PadCells /\ NF_CON \in PadCells
    BY <1>5 DEF CellFill, M2450!CellFill, M2450!LOW, LOW, In, PadCells, M2450!PadCells, M2450!Cells,
       M2450!BUS_CON, M2450!NF_CON, BUS_CON, NF_CON, M2450!nCS, M2450!DATA, M2450!DATA_CON, M2450!nBE
  <2> QED BY <1>2, <1>5, <2>1, <2>2
<1>6. CASE cpu = "S3C6410"
  <2>1. InitCell = Strobing(M6410!Strobes \cap M6410!PadCells)
    BY <1>6 DEF InitCell, M6410!S6410_InitCell, M6410!++, M6410!Direction, M6410!SetPins, M6410!BusLanes,
       M6410!In, M6410!Out, M6410!HIGH, M6410!LOW, M6410!Lanes, M6410!BUS_CON, M6410!DATA_CON,
       Strobing, ++, Direction, SetPins, BusLanes, In, Out, HIGH, LOW, Lanes, BUS_CON, DATA_CON
  <2>2. CellFill = In /\ BUS_CON \in PadCells /\ NF_CON \in PadCells
    BY <1>6 DEF CellFill, M6410!CellFill, M6410!LOW, LOW, In, PadCells, M6410!PadCells, M6410!Cells,
       M6410!BUS_CON, M6410!NF_CON, BUS_CON, NF_CON, M6410!nCS, M6410!DATA, M6410!DATA_CON, M6410!nBE, M6410!nFCE
  <2> QED BY <1>2, <1>6, <2>1, <2>2
<1> QED BY <1>3, <1>4, <1>5, <1>6, BoardAssumption DEF Cpus

\* Cells with every strobe HIGH, nothing to scan.
LEMMA Fresh ==
  ASSUME cpu \in Cpus,
         NEW kind \in {"none", "memory", "nor", "fast", "nand"}, kind = "nand" => cpu # "S3C2450",
         NEW cells, PadCells \subseteq DOMAIN cells, \A c \in Strobes \cap PadCells : cells[c] = HIGH,
         NEW l, l = cells \/ Undriven(l)
  PROVE  PadsAt(kind, cells, l, <<>>, <<>>)
<1>1. Len(<<>>) = 0 /\ 1 .. 0 = {} /\ IsList(<<>>)
  <2>1. Len(<<>>) = 0 /\ 1 .. 0 = {}
    BY EmptySeq
  <2> QED BY <2>1, Tuples
<1>2. \A c \in {nOE, nWE, nFRE, nFWE} \cup Selects : cells[c] = HIGH
  <2>1. {nOE, nWE, nFRE, nFWE} \cup Selects \subseteq PadCells
    BY PadFacts
  <2>2. NandSelect \in Strobes
    BY DEF NandSelect, N6410!NandSelect, N6410!nCS, nCS, Strobes, Banks
  <2>3. Watched \subseteq Banks
    BY PadFacts
  <2>4. {nOE, nWE, nFRE, nFWE} \cup Selects \subseteq Strobes
    BY <2>2, <2>3 DEF Strobes, Selects
  <2> QED BY <2>1, <2>4
<1>3. \A s : cells[s] = HIGH => Strobed(cells, <<>>, s)
  BY <1>1 DEF Strobed, Pulsed
<1>4. \A c : cells[c] = HIGH => StaysHigh(cells, <<>>, c)
  BY <1>1 DEF StaysHigh, LeftAlone
<1>5. \E x \in Banks : OnlyBank(cells, <<>>, x)
  <2>1. \A b \in Devices : cells[nCS(b)] = HIGH
    BY <1>2, PadFacts DEF Selects
  <2>2. 0 \in Banks
    BY DEF Banks
  <2> QED BY <1>1, <2>1, <2>2 DEF OnlyBank
<1>6. OnNand(cells, <<>>)
  BY <1>1, <1>2, <1>3, <1>4 DEF OnNand
<1>7. OnBus(cells, <<>>)
  <2>1. \A c \in {nFCE, nFRE, nFWE} \cap PadCells : cells[c] = HIGH
    BY DEF Strobes
  <2> QED BY <1>1, <1>2, <1>3, <1>4, <1>5, <2>1 DEF OnBus, TurnedRound
<1>8. AllDeselected(cells, <<>>, <<>>)
  BY <1>1, <1>2 DEF AllDeselected, Deselected
<1> QED BY <1>1, <1>6, <1>7, <1>8 DEF PadsAt, Quiet, Ends

LEMMA OpenSessionPads ==
  ASSUME PadsInv, OpenSession PROVE PadsInv'
<1>1. PICK s \in Sessions[cpu] :
        /\ session' = s
        /\ latch' = [c \in PadCells |-> CellFill]
        /\ out' = (IF s = "nand" THEN NandInit[1] ELSE Nothing) ++ InitCell ++ AsSampled
        /\ scans' = IF s = "nand" THEN NandInit[2] ELSE MRW_JtagInit
        /\ calls' = IF s = "nand" THEN nand_scan(g) ELSE <<>>
  BY DEF OpenSession
<1>2. cpu' = cpu /\ cpu \in Cpus
  BY DEF OpenSession, PadsInv
<1>3. s \in {"none", "memory", "nor", "fast", "nand"} /\ (s = "nand" => cpu # "S3C2450")
  BY <1>2, BoardAssumption DEF Cpus
<1>4. PadCells \subseteq DOMAIN out' /\ \A c \in Strobes \cap PadCells : out'[c] = HIGH
  <2> DEFINE first == IF s = "nand" THEN NandInit[1] ELSE Nothing
             top == first ++ InitCell
  <2>1. DOMAIN first \subseteq {NF_CON, CLE, ALE, BUS_CON}
    BY <1>2, <1>3, NandCalls, AllSet DEF Nothing
  <2>2. out' = top ++ AsSampled
    BY <1>1
  <2> HIDE DEF first
  <2>3. \A c \in Strobes : c \notin DOMAIN first
    BY <2>1 DEF Strobes, NF_CON, CLE, ALE, BUS_CON, nOE, nWE, nFCE, nFRE, nFWE, nCS, nBE
  <2>4. \A c \in Strobes \cap DOMAIN top : top[c] = HIGH
    <3>1. \A c \in Strobes \cap DOMAIN InitCell : InitCell[c] = HIGH
      BY <1>2, InitPins
    <3>2. /\ DOMAIN top = DOMAIN first \cup DOMAIN InitCell
          /\ \A c \in DOMAIN InitCell \ DOMAIN first : top[c] = InitCell[c]
      BY Overlaid
    <3> HIDE DEF top
    <3> QED BY <2>3, <3>1, <3>2
  <2> HIDE DEF top
  <2>5. DOMAIN AsSampled = PadCells
    BY DEF AsSampled
  <2>6. \A c \in Strobes \cap PadCells : AsSampled[c] = HIGH
    BY DEF AsSampled, Strobes, NF_CON, CLE, ALE, nOE, nWE, nFCE, nFRE, nFWE, nCS, nBE
  <2> DEFINE below == AsSampled
  <2>7. /\ DOMAIN (top ++ below) = DOMAIN top \cup DOMAIN below
        /\ \A c \in DOMAIN top : (top ++ below)[c] = top[c]
        /\ \A c \in DOMAIN below \ DOMAIN top : (top ++ below)[c] = below[c]
    BY Overlaid
  <2> HIDE DEF below
  <2>8. out' = top ++ below /\ DOMAIN below = PadCells /\ \A c \in Strobes \cap PadCells : below[c] = HIGH
    BY <2>2, <2>5, <2>6 DEF below
  <2> QED BY <2>4, <2>7, <2>8
<1>5. Undriven(latch')
  <2>1. \A c \in PadCells : latch'[c] = In
    BY <1>1, <1>2, InitPins
  <2> QED BY <1>2, <2>1, InitPins, PadFacts DEF Undriven, In
<1>6. PadsAt(s, out', latch', <<>>, <<>>)
  BY <1>2, <1>3, <1>4, <1>5, Fresh
<1>7. PadsAt(session', out', latch', scans', calls')
  <2>1. CASE s = "nand"
    <3>1. NandTidy(NandInit[2], In, NandSelect)
      BY <1>2, <1>3, <2>1, NandCalls
    <3>2. IsList(nand_scan(g)) /\ Ends(nand_scan(g)) /\ nand_scan(g) # <<>>
      BY Operations
    <3> QED BY <1>1, <1>2, <1>6, <2>1, <3>1, <3>2, NandCallLoaded
  <2>2. CASE s # "nand"
    <3>1. Tidy(MRW_JtagInit, BusLanes, In, {}, {})
      BY <1>2, InitCalls
    <3>2. Tidy(MRW_JtagInit, BusLanes, In, {0}, Banks)
      BY <3>1 DEF Tidy, Selecting
    <3>3. 0 \in Banks /\ Watched \subseteq Banks /\ Devices \subseteq Watched
      BY <1>2, PadFacts DEF Banks
    <3>4. \A b \in Devices : out'[nCS(b)] = HIGH
      <4>1. \A b \in Devices : nCS(b) \in Strobes \cap PadCells
        BY <1>2, <3>3, PadFacts DEF Strobes
      <4> QED BY <1>4, <4>1
    <3>5. PadsAt(s, out', latch', MRW_JtagInit, <<>>)
      BY <1>2, <1>6, <2>2, <3>2, <3>3, <3>4, BusCall
    <3> QED BY <1>1, <2>2, <3>5
  <2> QED BY <2>1, <2>2
<1> QED BY <1>2, <1>7, SameCpu

-----------------------------------------------------------------------------
(* The calls.                                                                *)

\* Between two calls.
LEMMA IdlePads ==
  ASSUME PadsInv, Idle
  PROVE  cpu \in Cpus /\ PadsAt(session, out, latch, <<>>, <<>>)
  BY DEF PadsInv, Idle

LEMMA CallSteps ==
  ASSUME NEW list, NEW todo, NEW ls, NEW wanted, Call(list, todo, ls, wanted), PadsInv,
         PadsAt(session, out, latch, list, todo)
  PROVE  PadsInv'
<1>1. /\ cpu' = cpu /\ cpu \in Cpus
      /\ session' = session /\ out' = out /\ latch' = latch /\ scans' = list /\ calls' = todo
  BY DEF Call, pads, PadsInv
<1> QED BY <1>1, SameCpu

LEMMA MenuTransferPads ==
  ASSUME PadsInv, DeassertReaches, MenuTransfer PROVE PadsInv'
<1>1. PICK u \in Units[cpu] :
        LET command == u[1]
            addr == Base(u[2]) + u[3]
            n == Size[command]
            bank == Addr2Bank(addr)
            from == addr - (addr % n)
            does == MRW_Menu(command, addr, Data(command), bankWidth[bank], bank_nBE[bank])
            ls == LanesFrom(from % (bankWidth[bank] \div 8), n)
        IN /\ does.scans # <<>>
           /\ Call(does.scans, <<>>, IF Data(command) = <<>> THEN ls ELSE <<>>,
                   IF RightFor(bank, command) THEN Transfer(bank, from, ls, Data(command), <<>>)
                   ELSE Guess(bank))
  BY DEF MenuTransfer
<1> DEFINE addr == Base(u[2]) + u[3]
           bank == Addr2Bank(addr)
           does == MRW_Menu(u[1], addr, Data(u[1]), bankWidth[bank], bank_nBE[bank])
           list == does.scans
<1>2. session = "memory" /\ Idle
  BY <1>1 DEF MenuTransfer, Call
<1>3. cpu \in Cpus /\ PadsAt("memory", out, latch, <<>>, <<>>)
  BY <1>2, IdlePads
<1>4. u[1] \in Commands /\ addr \in Int
  <2>1. u \in {"rb", "rh", "rw", "wb", "wh", "ww"} \X Nat \X Nat
    BY <1>3, BoardAssumption DEF Cpus
  <2>2. u[1] \in Commands /\ u[2] \in Nat /\ u[3] \in Nat
    BY <2>1 DEF Commands
  <2>3. Base(u[2]) \in Int
    <3>1. u[2] * 2^27 \in Int
      BY <2>2
    <3> QED BY <3>1 DEF Base
  <2> QED BY <2>2, <2>3
<1>5. list # <<>>
  BY <1>1
<1>6. MenuCall(list)
  <2> HIDE DEF addr, bank
  <2> QED BY <1>3, <1>4, <1>5, MenuCalls
<1>7. \E ls, wanted : Call(list, <<>>, ls, wanted)
  BY <1>1
<1> HIDE DEF list
<1>8. PICK x \in Banks : Tidy(list, BusLanes, In, {x}, {x} \cap Watched)
  BY <1>6 DEF MenuCall
<1>9. \A b \in Devices \ {x} : out[nCS(b)] = HIGH
  BY <1>3, AtEnd, PadFacts DEF Selects
<1>10. PadsAt("memory", out, latch, list, <<>>)
  BY <1>3, <1>8, <1>9, BusCall
<1> QED BY <1>2, <1>7, <1>10, CallSteps

\* A session that leaves a device selected calls for that device only.
LEMMA OneDevice ==
  ASSUME PadsInv, Idle, session \in {"nor", "fast"},
         NEW x \in Devices, NEW list, BankCall(list, x), \A b \in Devices \ {x} : out[nCS(b)] = HIGH
  PROVE  PadsAt(session, out, latch, list, <<>>)
<1>1. cpu \in Cpus /\ PadsAt(session, out, latch, <<>>, <<>>)
  BY IdlePads
<1>2. x \in Banks
  BY <1>1, PadFacts
<1> QED BY <1>1, <1>2, BusCall DEF BankCall

LEMMA WordFits ==
  ASSUME cpu \in Cpus, NEW x \in Devices, NEW word \in 0 .. 1
  PROVE  Bytes(x) * word \in 0 .. 4 /\ 8 * Bytes(x) \in {8, 16, 32} /\ Bytes(x) \in {1, 2, 4}
<1>1. Board[cpu][x].width \in {8, 16, 32}
  BY BoardAssumption DEF Cpus, Devices
<1>2. Bytes(x) \in {1, 2, 4} /\ 8 * Bytes(x) \in {8, 16, 32}
  BY <1>1 DEF Bytes
<1>3. word = 0 \/ word = 1
  OBVIOUS
<1>4. Bytes(x) * word \in 0 .. 4
  BY <1>2, <1>3
<1> QED BY <1>2, <1>4

LEMMA NorAccessPads ==
  ASSUME PadsInv, NorAccess PROVE PadsInv'
<1>1. PICK x \in Devices, word \in 0 .. 1, writes \in BOOLEAN :
        LET n == Bytes(x)
            addr == Base(x) + n * word
            data == IF writes THEN [i \in 1 .. n |-> 10 * made + i] ELSE <<>>
        IN /\ \A c \in Devices \ {x} : out[nCS(c)] = HIGH
           /\ Call(jtag_mem_rdwr(addr, data, 8 * n), <<>>, LanesFrom(0, n),
                   Transfer(x, addr, LanesFrom(0, n), data, <<>>))
  BY DEF NorAccess
<1> DEFINE d == Bytes(x) * word
           data == IF writes THEN [i \in 1 .. Bytes(x) |-> 10 * made + i] ELSE <<>>
           list == jtag_mem_rdwr(Base(x) + d, data, 8 * Bytes(x))
<1>2. session = "nor" /\ Idle /\ \E ls, wanted : Call(list, <<>>, ls, wanted)
  BY <1>1 DEF NorAccess, Call
<1>3. cpu \in Cpus
  BY DEF PadsInv
<1>4. d \in 0 .. 4 /\ 8 * Bytes(x) \in {8, 16, 32}
  BY <1>3, WordFits
<1>5. BankCall(list, x)
  <2> HIDE DEF d, data
  <2> QED BY <1>3, <1>4, BankCalls
<1>6. \A c \in Devices \ {x} : out[nCS(c)] = HIGH
  BY <1>1
<1> HIDE DEF list
<1>7. PadsAt(session, out, latch, list, <<>>)
  BY <1>2, <1>5, <1>6, OneDevice
<1> QED BY <1>2, <1>7, CallSteps

LEMMA FastAccessPads ==
  ASSUME PadsInv, FastAccess PROVE PadsInv'
<1>1. PICK x \in Devices, word \in 0 .. 1, name \in {"R", "Q", "QQ"} :
        LET n == Bytes(x)
            addr == Base(x) + n * word
            data == IF name # "R" THEN [i \in 1 .. n |-> 10 * made + i] ELSE <<>>
            en == Board[cpu][x].type = "nBE"
        IN /\ \A c \in Devices \ {x} : out[nCS(c)] = HIGH
           /\ Call(Unused(name, addr, data, 8 * n, en, 0 .. n - 1), <<>>, LanesFrom(0, n),
                   Transfer(x, addr, LanesFrom(0, n), data, <<>>))
  BY DEF FastAccess
<1> DEFINE d == Bytes(x) * word
           data == IF name # "R" THEN [i \in 1 .. Bytes(x) |-> 10 * made + i] ELSE <<>>
           en == Board[cpu][x].type = "nBE"
           list == Unused(name, Base(x) + d, data, 8 * Bytes(x), en, 0 .. Bytes(x) - 1)
<1>2. session = "fast" /\ Idle /\ \E ls, wanted : Call(list, <<>>, ls, wanted)
  BY <1>1 DEF FastAccess, Call
<1>3. cpu \in Cpus
  BY DEF PadsInv
<1>4. d \in 0 .. 4 /\ 8 * Bytes(x) \in {8, 16, 32} /\ Bytes(x) \in {1, 2, 4}
  BY <1>3, WordFits
<1>5. data = <<>> <=> name = "R"
  <2>1. ASSUME NEW n \in {1, 2, 4} PROVE [i \in 1 .. n |-> 10 * made + i] # <<>>
    <3>1. DOMAIN [i \in 1 .. n |-> 10 * made + i] = 1 .. n /\ 1 \in 1 .. n
      BY <2>1
    <3>2. DOMAIN <<>> = {}
      OBVIOUS
    <3> QED BY <3>1, <3>2
  <2> QED BY <1>4, <2>1
<1>6. BankCall(list, x)
  <2> HIDE DEF d, data, en
  <2> QED BY <1>3, <1>4, <1>5, BankCalls
<1>7. \A c \in Devices \ {x} : out[nCS(c)] = HIGH
  BY <1>1
<1> HIDE DEF list
<1>8. PadsAt(session, out, latch, list, <<>>)
  BY <1>2, <1>6, <1>7, OneDevice
<1> QED BY <1>2, <1>8, CallSteps

LEMMA NandCallSteps ==
  ASSUME PadsInv, NEW list, NEW wanted, NandCall(list, wanted), IsList(list), Ends(list)
  PROVE  PadsInv'
<1>1. session = "nand" /\ Idle /\ Call(<<>>, list, <<0>>, wanted)
  BY DEF NandCall, Call
<1>2. cpu \in Cpus /\ PadsAt("nand", out, latch, <<>>, <<>>)
  BY <1>1, IdlePads
<1>3. PadsAt("nand", out, latch, <<>>, list)
  BY <1>2, NandCallLoaded
<1> QED BY <1>1, <1>3, CallSteps

LEMMA ReadPagesPads ==
  ASSUME PadsInv, ReadPages PROVE PadsInv'
<1>1. PICK p \in NandPages, n \in 1 .. 2 : \E wanted : NandCall(nand_read_ecc(g, p, n), wanted)
  BY DEF ReadPages
<1>2. n \in Nat
  OBVIOUS
<1>3. LET list == nand_read_ecc(g, p, n) IN IsList(list) /\ Ends(list)
  BY <1>2, Operations
<1> QED BY <1>1, <1>3, NandCallSteps

LEMMA ReadOobPads ==
  ASSUME PadsInv, ReadOob PROVE PadsInv'
<1>1. PICK b \in NandBlocks, column \in 0 .. oobsize - 1, len \in 1 .. oobsize :
        \E wanted : NandCall(nand_read_oob(g, b * PagesPerBlock, column, len), wanted)
  BY DEF ReadOob
<1>2. len \in Nat
  BY Sizes
<1>3. LET list == nand_read_oob(g, b * PagesPerBlock, column, len) IN IsList(list) /\ Ends(list)
  BY <1>2, Operations
<1> QED BY <1>1, <1>3, NandCallSteps

LEMMA BlockBadPads ==
  ASSUME PadsInv, BlockBad PROVE PadsInv'
<1>1. PICK b \in NandBlocks : \E wanted : NandCall(nand_block_bad(g, b), wanted)
  BY DEF BlockBad
<1>2. LET list == nand_block_bad(g, b) IN IsList(list) /\ Ends(list)
  BY Operations
<1> QED BY <1>1, <1>2, NandCallSteps

LEMMA WritePagePads ==
  ASSUME PadsInv, WritePage PROVE PadsInv'
<1> DEFINE bytes == SubSeq(PageData, 1, oobblock(g))
           oob == SubSeq(PageData, oobblock(g) + 1, PageSize(g))
<1>1. PICK p \in NandPages : \E wanted : NandCall(nand_write_ecc(g, p, bytes, oob), wanted)
  BY DEF WritePage
<1>2. PageSize(g) \in Nat
  BY Sizes DEF PageSize
<1>3. IsList(bytes) /\ IsList(oob)
  BY <1>2, Sizes, Slices
<1> HIDE DEF bytes, oob
<1>4. LET list == nand_write_ecc(g, p, bytes, oob) IN IsList(list) /\ Ends(list)
  BY <1>3, Operations
<1> QED BY <1>1, <1>4, NandCallSteps

LEMMA WriteOobPads ==
  ASSUME PadsInv, WriteOob PROVE PadsInv'
<1>1. PICK b \in NandBlocks, column \in 0 .. oobsize - 1, len \in 1 .. oobsize :
        /\ column + len <= oobsize
        /\ \E wanted : NandCall(nand_write_oob(g, b * PagesPerBlock, column, SubSeq(PageData, 1, len)), wanted)
  BY DEF WriteOob
<1> DEFINE bytes == SubSeq(PageData, 1, len)
<1>2. len \in Nat
  BY Sizes
<1>3. IsList(bytes) /\ Len(bytes) = len
  BY <1>2, Slices
<1>4. \E wanted : NandCall(nand_write_oob(g, b * PagesPerBlock, column, bytes), wanted)
  BY <1>1
<1> HIDE DEF bytes
<1>5. LET list == nand_write_oob(g, b * PagesPerBlock, column, bytes) IN IsList(list) /\ Ends(list)
  BY <1>1, <1>3, Operations
<1> QED BY <1>4, <1>5, NandCallSteps

LEMMA EraseBlockPads ==
  ASSUME PadsInv, EraseBlock PROVE PadsInv'
<1>1. PICK b \in NandBlocks : \E wanted : NandCall(nand_erase_nand(g, b), wanted)
  BY DEF EraseBlock
<1>2. LET list == nand_erase_nand(g, b) IN IsList(list) /\ Ends(list)
  BY Operations
<1> QED BY <1>1, <1>2, NandCallSteps

-----------------------------------------------------------------------------
(* A call under way.                                                         *)

LEMMA NextNfCallPads ==
  ASSUME PadsInv, NextNfCall PROVE PadsInv'
<1>1. /\ cpu' = cpu /\ cpu \in Cpus /\ session' = session /\ out' = out /\ latch' = latch
      /\ scans = <<>> /\ calls # <<>> /\ scans' = NandScans(Head(calls)) /\ calls' = Tail(calls)
      /\ PadsAt(session, out, latch, <<>>, calls)
  BY DEF NextNfCall, PadsInv, pads
<1>2. PadsAt(session, out, latch, NandScans(Head(calls)), Tail(calls))
  BY <1>1, NextCallLoaded
<1> QED BY <1>1, <1>2, SameCpu

\* What the three kinds of scan have in common.
LEMMA ScanSteps ==
  ASSUME PadsInv, scans # <<>>, cpu' = cpu, session' = session, calls' = calls, scans' = Tail(scans),
         Moved(scans[1], out, out'), PadCells \subseteq DOMAIN out',
         latch' = out' \/ Undriven(latch')
  PROVE  PadsInv'
<1>1. cpu \in Cpus /\ PadsAt(session, out, latch, scans, calls)
  BY DEF PadsInv
<1>2. PadsAt(session, out', latch', Tail(scans), calls)
  BY <1>1, PadsScan
<1> QED BY <1>1, <1>2, SameCpu

LEMMA FirstScan ==
  ASSUME PadsInv, scans # <<>>
  PROVE  /\ Head(scans) = scans[1]
         /\ scans[1].scan \in {"EXTEST", "ready"} => DOMAIN scans[1].pins = {}
<1>1. IsList(scans) /\ Quiet(scans)
  BY DEF PadsInv, PadsAt
<1>2. Head(scans) = scans[1] /\ Len(scans) \in Nat \ {0}
  BY <1>1, TailFacts
<1> QED BY <1>1, <1>2 DEF Quiet

LEMMA ShiftDRPads ==
  ASSUME PadsInv, ShiftDR PROVE PadsInv'
<1>1. /\ scans # <<>> /\ cpu' = cpu /\ session' = session /\ calls' = calls /\ scans' = Tail(scans)
      /\ out' = Head(scans).pins ++ out /\ latch' = out'
  BY DEF ShiftDR, Latched
<1>2. Head(scans) = scans[1]
  BY <1>1, FirstScan
<1> DEFINE f == scans[1].pins
           h == out
           z == f ++ h
<1>3. /\ DOMAIN z = DOMAIN f \cup DOMAIN h
      /\ \A c \in DOMAIN f : z[c] = f[c]
      /\ \A c \in DOMAIN h \ DOMAIN f : z[c] = h[c]
  BY Overlaid
<1>4. PadCells \subseteq DOMAIN h
  BY DEF PadsInv, PadsAt
<1>5. out' = z
  BY <1>1, <1>2
<1> HIDE DEF z
<1>6. Moved(scans[1], out, out') /\ PadCells \subseteq DOMAIN out'
  BY <1>3, <1>4, <1>5 DEF Moved
<1> QED BY <1>1, <1>6, ScanSteps

LEMMA ShiftEXTESTPads ==
  ASSUME PadsInv, ShiftEXTEST PROVE PadsInv'
<1>1. /\ scans # <<>> /\ cpu' = cpu /\ session' = session /\ calls' = calls /\ scans' = Tail(scans)
      /\ out' = out /\ latch' = latch /\ Head(scans).scan = "EXTEST"
  BY DEF ShiftEXTEST, Pending
<1>2. DOMAIN scans[1].pins = {}
  BY <1>1, FirstScan
<1>3. PadCells \subseteq DOMAIN out /\ (latch = out \/ Undriven(latch))
  BY DEF PadsInv, PadsAt
<1> QED BY <1>1, <1>2, <1>3, ScanSteps DEF Moved

LEMMA SeeReadyPads ==
  ASSUME PadsInv, SeeReady PROVE PadsInv'
<1>1. /\ scans # <<>> /\ cpu' = cpu /\ session' = session /\ calls' = calls /\ scans' = Tail(scans)
      /\ out' = out /\ latch' = out /\ Head(scans).scan = "ready"
  BY DEF SeeReady, Pending, Latched
<1>2. DOMAIN scans[1].pins = {}
  BY <1>1, FirstScan
<1>3. PadCells \subseteq DOMAIN out
  BY DEF PadsInv, PadsAt
<1> QED BY <1>1, <1>2, <1>3, ScanSteps DEF Moved

-----------------------------------------------------------------------------
LEMMA FirstPads == Init => PadsInv
<1> SUFFICES ASSUME Init PROVE PadsInv
  OBVIOUS
<1>1. cpu \in Cpus /\ out = AsSampled /\ latch = out /\ session = "none" /\ scans = <<>> /\ calls = <<>>
  BY DEF Init
<1>2. DOMAIN AsSampled = PadCells
  BY DEF AsSampled
<1>3. \A c \in Strobes \cap PadCells : AsSampled[c] = HIGH
  BY DEF AsSampled, Strobes, NF_CON, CLE, ALE, nOE, nWE, nFCE, nFRE, nFWE, nCS, nBE
<1>4. PadsAt("none", out, latch, <<>>, <<>>)
  BY <1>1, <1>2, <1>3, Fresh
<1> QED BY <1>1, <1>4 DEF PadsInv

LEMMA NextPads ==
  ASSUME DeassertReaches, PadsInv, [Next]_vars PROVE PadsInv'
<1>1. CASE OpenSession
  BY <1>1, OpenSessionPads
<1>2. CASE SetBank \/ ChipReady \/ Return \/ UNCHANGED vars
  <2>1. /\ cpu' = cpu /\ session' = session /\ out' = out /\ latch' = latch /\ scans' = scans
        /\ calls' = calls
    BY <1>2 DEF SetBank, ChipReady, Return, vars, pads
  <2> QED BY <2>1, SameCpu DEF PadsInv
<1>3. CASE MenuTransfer
  BY <1>3, MenuTransferPads
<1>4. CASE NorAccess
  BY <1>4, NorAccessPads
<1>5. CASE FastAccess
  BY <1>5, FastAccessPads
<1>6. CASE ReadPages
  BY <1>6, ReadPagesPads
<1>7. CASE ReadOob
  BY <1>7, ReadOobPads
<1>8. CASE BlockBad
  BY <1>8, BlockBadPads
<1>9. CASE WritePage
  BY <1>9, WritePagePads
<1>10. CASE WriteOob
  BY <1>10, WriteOobPads
<1>11. CASE EraseBlock
  BY <1>11, EraseBlockPads
<1>12. CASE NextNfCall
  BY <1>12, NextNfCallPads
<1>13. CASE ShiftDR
  BY <1>13, ShiftDRPads
<1>14. CASE ShiftEXTEST
  BY <1>14, ShiftEXTESTPads
<1>15. CASE SeeReady
  BY <1>15, SeeReadyPads
<1> QED BY <1>1, <1>2, <1>3, <1>4, <1>5, <1>6, <1>7, <1>8, <1>9, <1>10, <1>11, <1>12, <1>13, <1>14, <1>15
        DEF Next, Work

-----------------------------------------------------------------------------
(* What the invariant says of the pads.                                      *)

\* Nothing is driven by the chips while the pads are undriven.
LEMMA NobodyYet ==
  ASSUME cpu \in Cpus, Undriven(latch), NEW lane \in Lanes
  PROVE  Drivers(latch, lane) = {}
<1>1. In # Out
  BY PadFacts
<1>2. ~BusDriven(latch)
  BY <1>1 DEF Undriven, BusDriven
<1>3. ~CpuDrives(latch, lane)
  <2>1. DATA(lane) \in PadCells => lane \in BusLanes
    BY PadFacts
  <2> QED BY <1>1, <2>1 DEF Undriven, CpuDrives
<1>4. ~NandDrives(latch)
  <2>1. CASE cpu = "S3C2410"
    <3>1. latch[NandSelect] = HIGH
      BY <2>1 DEF Undriven, NandSelect
    <3> QED BY <3>1 DEF NandDrives, NandListens, LOW, HIGH
  <2>2. CASE cpu # "S3C2410"
    BY <1>1, <2>2 DEF Undriven, NandDrives, NandListens, NandDriven
  <2> QED BY <2>1, <2>2
<1>5. \A b \in Devices : ~Read(latch, b, lane)
  BY <1>2 DEF Read, Selected
<1> QED BY <1>3, <1>4, <1>5 DEF Drivers

\* On the bus, the CPU's data pads are inputs while a bank is read, and of the
\* banks one is selected.
LEMMA BusDriver ==
  ASSUME cpu \in Cpus, NEW list, OnBus(latch, list), NEW lane \in Lanes
  PROVE  \E d : Drivers(latch, lane) \subseteq {d}
<1>1. ~NandDrives(latch)
  <2>1. latch[nFRE] = HIGH
    BY PadFacts DEF OnBus, StaysHigh
  <2> QED BY <2>1 DEF NandDrives, LOW, HIGH
<1>2. PICK x \in Banks : OnlyBank(latch, list, x)
  BY DEF OnBus
<1>3. \A b \in Devices : Read(latch, b, lane) => b = x
  BY <1>2 DEF OnlyBank, Read, Selected, LOW, HIGH
<1>4. CASE latch[nOE] = HIGH
  <2>1. \A b \in Devices : ~Read(latch, b, lane)
    BY <1>4 DEF Read, LOW, HIGH
  <2> QED BY <1>1, <2>1 DEF Drivers
<1>5. CASE \A i \in BusLanes : latch[DATA_CON(i)] = In
  <2>1. ~CpuDrives(latch, lane)
    BY <1>5, PadFacts DEF CpuDrives
  <2> QED BY <1>1, <1>3, <2>1 DEF Drivers
<1> QED BY <1>4, <1>5 DEF OnBus, TurnedRound

\* In a NAND session no bank is read, and the lane is an input while nFRE is LOW.
LEMMA NandDriver ==
  ASSUME cpu \in Cpus, NEW list, OnNand(latch, list), NEW lane \in Lanes
  PROVE  \E d : Drivers(latch, lane) \subseteq {d}
<1>1. \A b \in Devices : ~Read(latch, b, lane)
  BY DEF OnNand, StaysHigh, Read, LOW, HIGH
<1>2. CASE lane # 0 \/ latch[nFRE] = HIGH
  <2>1. ~(lane = 0 /\ NandDrives(latch))
    BY <1>2 DEF NandDrives, LOW, HIGH
  <2> QED BY <1>1, <2>1 DEF Drivers
<1>3. CASE lane = 0 /\ latch[DATA_CON(0)] = In
  <2>1. ~CpuDrives(latch, lane)
    BY <1>3, PadFacts DEF CpuDrives
  <2> QED BY <1>1, <2>1 DEF Drivers
<1> QED BY <1>2, <1>3 DEF OnNand

LEMMA PadsOneDriver ==
  ASSUME PadsInv PROVE OneDriver
<1> SUFFICES ASSUME NEW lane \in Lanes PROVE Cardinality(Drivers(latch, lane)) <= 1
  BY DEF OneDriver
<1> DEFINE D == Drivers(latch, lane)
<1>1. cpu \in Cpus /\ PadsAt(session, out, latch, scans, calls)
  BY DEF PadsInv
<1>2. \E d : D \subseteq {d}
  <2>1. CASE Undriven(latch)
    BY <1>1, <2>1, NobodyYet
  <2>2. CASE latch = out /\ session = "nand"
    <3>1. OnNand(latch, scans)
      BY <1>1, <2>2 DEF PadsAt
    <3> QED BY <1>1, <3>1, NandDriver
  <2>3. CASE latch = out /\ session # "nand"
    <3>1. OnBus(latch, scans)
      BY <1>1, <2>3 DEF PadsAt
    <3> QED BY <1>1, <3>1, BusDriver
  <2> QED BY <1>1, <2>1, <2>2, <2>3 DEF PadsAt
<1> HIDE DEF D
<1>3. PICK d : D \subseteq {d}
  BY <1>2
<1>4. IsFiniteSet({d}) /\ Cardinality({d}) = 1
  BY FS_Singleton
<1>5. Cardinality(D) <= 1
  BY <1>3, <1>4, FS_Subset
<1> QED BY <1>5 DEF D

LEMMA PadsAtRest ==
  ASSUME PadsInv PROVE AtRest
<1> SUFFICES ASSUME Idle, BusDriven(latch)
             PROVE  /\ \A c \in {nOE, nWE, nFRE, nFWE} : latch[c] = HIGH
                    /\ session \in {"memory", "nand"} =>
                         \A c \in {nCS(b) : b \in Devices} \cup {NandSelect} : latch[c] = HIGH
  BY DEF AtRest
<1>1. cpu \in Cpus /\ PadsAt(session, out, latch, <<>>, <<>>)
  BY IdlePads
<1>2. ~Undriven(latch)
  BY <1>1, PadFacts DEF Undriven, BusDriven
<1>3. latch = out
  BY <1>1, <1>2 DEF PadsAt
<1>4. {nCS(b) : b \in Devices} \cup {NandSelect} \subseteq Selects
  BY <1>1, PadFacts DEF Selects
<1> QED BY <1>1, <1>3, <1>4, AtEnd

-----------------------------------------------------------------------------
(* For every board and every sequence of sessions and calls, no data pad is  *)
(* driven by two: MRW_Menu, the xxxQ functions and the NAND controller       *)
(* functions turn the CPU's data pads round before a chip's output is        *)
(* enabled, and never select a device beside another.                        *)
THEOREM OneDriverHolds ==
  ASSUME DeassertReaches PROVE Spec => []OneDriver
<1>1. Init => PadsInv
  BY FirstPads
<1>2. PadsInv /\ [Next]_vars => PadsInv'
  BY NextPads
<1>3. PadsInv => OneDriver
  BY PadsOneDriver
<1> QED BY <1>1, <1>2, <1>3, PTL DEF Spec

(* For every board, between two calls the strobes are HIGH, and after the    *)
(* menu's transfers and the NAND operations the chip selects are as well.    *)
THEOREM AtRestHolds ==
  ASSUME DeassertReaches PROVE Spec => []AtRest
<1>1. Init => PadsInv
  BY FirstPads
<1>2. PadsInv /\ [Next]_vars => PadsInv'
  BY NextPads
<1>3. PadsInv => AtRest
  BY PadsAtRest
<1> QED BY <1>1, <1>2, <1>3, PTL DEF Spec
=============================================================================
