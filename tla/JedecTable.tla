----------------------------- MODULE JedecTable -----------------------------
(***************************************************************************)
(* jedec_table of drivers/nor/jedec_flash.cpp: the NOR chips the driver    *)
(* knows by their JEDEC ids, with the ids, the unlock addresses for each   *)
(* width of the chip, the command set and the erase regions as the table   *)
(* encodes them.  Entries are in the table's order, in which it is searched. *)
(***************************************************************************)
EXTENDS Integers, Sequences

MANUFACTURER ==
  [AMD |-> \h1, ATMEL |-> \h1F, FUJITSU |-> \h4, HYUNDAI |-> \hAD, INTEL |-> \h89,
   MACRONIX |-> \hC2, NEC |-> \h10, PMC |-> \h9D, SHARP |-> \hB0, SST |-> \hBF,
   ST |-> \h20, TOSHIBA |-> \h98, WINBOND |-> \hDA]

\* The device ids, by manufacturer.
AMDId ==
  [AM29DL800BB |-> \h22C8, AM29DL800BT |-> \h224A, AM29F800BB |-> \h2258,
   AM29F800BT |-> \h22D6, AM29LV400BB |-> \h22BA, AM29LV400BT |-> \h22B9,
   AM29LV800BB |-> \h225B, AM29LV800BT |-> \h22DA, AM29LV160DT |-> \h22C4,
   AM29LV160DB |-> \h2249, AM29F017D |-> \h3D, AM29F016D |-> \hAD,
   AM29F080 |-> \hD5, AM29F040 |-> \hA4, AM29LV040B |-> \h4F, AM29F032B |-> \h41,
   AM29F002T |-> \hB0]
AtmelId ==
  [AT49BV512 |-> \h3, AT29LV512 |-> \h3D, AT49BV16X |-> \hC0, AT49BV16XT |-> \hC2,
   AT49BV32X |-> \hC8, AT49BV32XT |-> \hC9]
FujitsuId ==
  [MBM29F040C |-> \hA4, MBM29LV650UE |-> \h22D7, MBM29LV320TE |-> \h22F6,
   MBM29LV320BE |-> \h22F9, MBM29LV160TE |-> \h22C4, MBM29LV160BE |-> \h2249,
   MBM29LV800BA |-> \h225B, MBM29LV800TA |-> \h22DA, MBM29LV400TC |-> \h22B9,
   MBM29LV400BC |-> \h22BA]
HyundaiId ==
  [HY29F002T |-> \hB0]
IntelId ==
  [I28F004B3T |-> \hD4, I28F004B3B |-> \hD5, I28F400B3T |-> \h8894,
   I28F400B3B |-> \h8895, I28F008S5 |-> \hA6, I28F016S5 |-> \hA0,
   I28F008SA |-> \hA2, I28F008B3T |-> \hD2, I28F008B3B |-> \hD3,
   I28F800B3T |-> \h8892, I28F800B3B |-> \h8893, I28F016S3 |-> \hAA,
   I28F016B3T |-> \hD0, I28F016B3B |-> \hD1, I28F160B3T |-> \h8890,
   I28F160B3B |-> \h8891, I28F320B3T |-> \h8896, I28F320B3B |-> \h8897,
   I28F640B3T |-> \h8898, I28F640B3B |-> \h8899, I82802AB |-> \hAD,
   I82802AC |-> \hAC]
MacronixId ==
  [MX29LV040C |-> \h4F, MX29LV160T |-> \h22C4, MX29LV160B |-> \h2249,
   MX29F040 |-> \hA4, MX29F016 |-> \hAD, MX29F002T |-> \hB0, MX29F004T |-> \h45,
   MX29F004B |-> \h46]
NECId ==
  [UPD29F064115 |-> \h221C]
PMCId ==
  [PM49FL002 |-> \h6D, PM49FL004 |-> \h6E, PM49FL008 |-> \h6A]
SharpId ==
  [LH28F640BF |-> \hB0]
STId ==
  [M29W800DT |-> \hD7, M29W800DB |-> \h5B, M29W160DT |-> \h22C4,
   M29W160DB |-> \h2249, M29W040B |-> \hE3, M50FW040 |-> \h2C, M50FW080 |-> \h2D,
   M50FW016 |-> \h2E, M50LPW080 |-> \h2F]
SSTId ==
  [SST29EE020 |-> \h10, SST29LE020 |-> \h12, SST29EE512 |-> \h5D,
   SST29LE512 |-> \h3D, SST39LF800 |-> \h2781, SST39LF160 |-> \h2782,
   SST39VF1601 |-> \h234B, SST39VF3201 |-> \h235B, SST39VF6401 |-> \h236B,
   SST39VF1602 |-> \h234A, SST39VF3202 |-> \h235A, SST39VF6402 |-> \h236A,
   SST39LF512 |-> \hD4, SST39LF010 |-> \hD5, SST39LF020 |-> \hD6,
   SST39LF040 |-> \hD7, SST39SF010A |-> \hB5, SST39SF020A |-> \hB6,
   SST49LF004B |-> \h60, SST49LF040B |-> \h50, SST49LF008A |-> \h5A,
   SST49LF030A |-> \h1C, SST49LF040A |-> \h51, SST49LF080A |-> \h5B]
ToshibaId ==
  [TC58FVT160 |-> \hC2, TC58FVB160 |-> \h43, TC58FVT321 |-> \h9A,
   TC58FVB321 |-> \h9C, TC58FVT641 |-> \h93, TC58FVB641 |-> \h95]
WinbondId ==
  [W49V002A |-> \hB0]

-----------------------------------------------------------------------------
(* Unlock addresses: a pair of offsets, and the index of the pair *)

uaddr == <<"U0555_02AA", "U0555_0AAA", "U5555_2AAA",
          "U0AAA_0555", "DONT_CARE", "UNNECESSARY">>
unlock_addrs ==
  [NOT_SUPPORTED |-> <<\hFFFF, \hFFFF>>, U0555_02AA |-> <<\h555, \h2AA>>,
   U0555_0AAA |-> <<\h555, \hAAA>>, U5555_2AAA |-> <<\h5555, \h2AAA>>,
   U0AAA_0555 |-> <<\hAAA, \h555>>, DONT_CARE |-> <<0, 0>>, UNNECESSARY |-> <<0, 0>>]

\* Command sets by their CFI numbers.
P_ID == [NONE |-> 0, INTEL_EXT |-> 1, AMD_STD |-> 2, INTEL_STD |-> 3, AMD_EXT |-> 4,
         SST_PAGE |-> 258, INTEL_PERFORMANCE |-> 512]

\* A region of blocks: its size above eight bits of its number of blocks less one.
ERASEINFO(size, blocks) == size * 256 + (blocks - 1)
KiB(n) == n * 1024

\* uaddr lists the pairs for 8 and 16 bits; a width not listed is NOT_SUPPORTED.
Entry(mfr, ids, dev, unlock, size, set, n, regions) ==
  [name |-> dev, mfr_id |-> MANUFACTURER[mfr], dev_id |-> ids[dev],
   uaddr |-> [width \in 1 .. 4 |-> IF width <= Len(unlock) THEN unlock[width]
                                  ELSE "NOT_SUPPORTED"],
   DevSize |-> size, CmdSet |-> P_ID[set], NumEraseRegions |-> n, regions |-> regions]

\* The shapes most chips have: one size; 16, 8, 8 and 32 KiB at the bottom or the top
\* and 64 KiB elsewhere; eight of 8 KiB at one end; the same region k times.
Uniform(size, n) == << ERASEINFO(KiB(size), n) >>
BottomBoot(n) == << ERASEINFO(KiB(16), 1), ERASEINFO(KiB(8), 2), ERASEINFO(KiB(32), 1),
                    ERASEINFO(KiB(64), n) >>
TopBoot(n) == << ERASEINFO(KiB(64), n), ERASEINFO(KiB(32), 1), ERASEINFO(KiB(8), 2),
                 ERASEINFO(KiB(16), 1) >>
BottomParameters(n) == << ERASEINFO(KiB(8), 8), ERASEINFO(KiB(64), n) >>
TopParameters(n) == << ERASEINFO(KiB(64), n), ERASEINFO(KiB(8), 8) >>
Halves(size, n, k) == [i \in 1 .. k |-> ERASEINFO(size, n)]

-----------------------------------------------------------------------------
(* The entries, in the order of the table *)

AMDChips1 ==
  <<
     Entry("AMD", AMDId, "AM29F032B", <<"U0555_02AA">>, KiB(4096),
       "AMD_STD", 1, Uniform(64, 64)),
     Entry("AMD", AMDId, "AM29LV160DT", <<"U0AAA_0555", "U0555_02AA">>, KiB(2048),
       "AMD_STD", 4, TopBoot(31)),
     Entry("AMD", AMDId, "AM29LV160DB", <<"U0AAA_0555", "U0555_02AA">>, KiB(2048),
       "AMD_STD", 4, BottomBoot(31)),
     Entry("AMD", AMDId, "AM29LV400BB", <<"U0AAA_0555", "U0555_02AA">>, KiB(512),
       "AMD_STD", 4, BottomBoot(7)),
     Entry("AMD", AMDId, "AM29LV400BT", <<"U0AAA_0555", "U0555_02AA">>, KiB(512),
       "AMD_STD", 4, TopBoot(7)),
     Entry("AMD", AMDId, "AM29LV800BB", <<"U0AAA_0555", "U0555_02AA">>, KiB(1024),
       "AMD_STD", 4, BottomBoot(15)),
     Entry("AMD", AMDId, "AM29DL800BB", <<"U0AAA_0555", "U0555_02AA">>, KiB(1024),
      "AMD_STD", 6, << ERASEINFO(KiB(16), 1), ERASEINFO(KiB(32), 1), ERASEINFO(KiB(8), 4),
        ERASEINFO(KiB(32), 1), ERASEINFO(KiB(16), 1), ERASEINFO(KiB(64), 14) >>),
     Entry("AMD", AMDId, "AM29DL800BT", <<"U0AAA_0555", "U0555_02AA">>, KiB(1024),
      "AMD_STD", 6, << ERASEINFO(KiB(64), 14), ERASEINFO(KiB(16), 1),
        ERASEINFO(KiB(32), 1), ERASEINFO(KiB(8), 4), ERASEINFO(KiB(32), 1),
        ERASEINFO(KiB(16), 1) >>)
  >>
AMDChips2 ==
  <<
     Entry("AMD", AMDId, "AM29F800BB", <<"U0AAA_0555", "U0555_02AA">>, KiB(1024),
       "AMD_STD", 4, BottomBoot(15)),
     Entry("AMD", AMDId, "AM29LV800BT", <<"U0AAA_0555", "U0555_02AA">>, KiB(1024),
       "AMD_STD", 4, TopBoot(15)),
     Entry("AMD", AMDId, "AM29F800BT", <<"U0AAA_0555", "U0555_02AA">>, KiB(1024),
       "AMD_STD", 4, TopBoot(15)),
     Entry("AMD", AMDId, "AM29F017D", <<"DONT_CARE">>, KiB(2048),
       "AMD_STD", 1, Uniform(64, 32)),
     Entry("AMD", AMDId, "AM29F016D", <<"U0555_02AA">>, KiB(2048),
       "AMD_STD", 1, Uniform(64, 32)),
     Entry("AMD", AMDId, "AM29F080", <<"U0555_02AA">>, KiB(1024),
       "AMD_STD", 1, Uniform(64, 16)),
     Entry("AMD", AMDId, "AM29F040", <<"U0555_02AA">>, KiB(512),
       "AMD_STD", 1, Uniform(64, 8)),
     Entry("AMD", AMDId, "AM29LV040B", <<"U0555_02AA">>, KiB(512),
       "AMD_STD", 1, Uniform(64, 8)),
     Entry("AMD", AMDId, "AM29F002T", <<"U0555_02AA">>, KiB(256), "AMD_STD", 4, TopBoot(3))
  >>
AtmelChips1 ==
  <<
     Entry("ATMEL", AtmelId, "AT49BV512", <<"U5555_2AAA">>, KiB(64),
       "AMD_STD", 1, Uniform(64, 1)),
     Entry("ATMEL", AtmelId, "AT29LV512", <<"U5555_2AAA">>, KiB(64),
       "AMD_STD", 1, Halves(128, 256, 2)),
     Entry("ATMEL", AtmelId, "AT49BV16X", <<"U0555_0AAA", "U0555_0AAA">>, KiB(2048),
       "AMD_STD", 2, BottomParameters(31)),
     Entry("ATMEL", AtmelId, "AT49BV16XT", <<"U0555_0AAA", "U0555_0AAA">>, KiB(2048),
       "AMD_STD", 2, TopParameters(31)),
     Entry("ATMEL", AtmelId, "AT49BV32X", <<"U0555_0AAA", "U0555_0AAA">>, KiB(4096),
       "AMD_STD", 2, BottomParameters(63)),
     Entry("ATMEL", AtmelId, "AT49BV32XT", <<"U0555_0AAA", "U0555_0AAA">>, KiB(4096),
       "AMD_STD", 2, TopParameters(63))
  >>
FujitsuChips1 ==
  <<
     Entry("FUJITSU", FujitsuId, "MBM29F040C", <<"U0AAA_0555">>, KiB(512),
       "AMD_STD", 1, Uniform(64, 8)),
     Entry("FUJITSU", FujitsuId, "MBM29LV650UE", <<"DONT_CARE">>, KiB(8192),
       "AMD_STD", 1, Uniform(64, 128)),
     Entry("FUJITSU", FujitsuId, "MBM29LV320TE", <<"U0AAA_0555", "U0555_02AA">>, KiB(4096),
       "AMD_STD", 2, TopParameters(63)),
     Entry("FUJITSU", FujitsuId, "MBM29LV320BE", <<"U0AAA_0555", "U0555_02AA">>, KiB(4096),
       "AMD_STD", 2, BottomParameters(63)),
     Entry("FUJITSU", FujitsuId, "MBM29LV160TE", <<"U0AAA_0555", "U0555_02AA">>, KiB(2048),
       "AMD_STD", 4, TopBoot(31)),
     Entry("FUJITSU", FujitsuId, "MBM29LV160BE", <<"U0AAA_0555", "U0555_02AA">>, KiB(2048),
       "AMD_STD", 4, BottomBoot(31)),
     Entry("FUJITSU", FujitsuId, "MBM29LV800BA", <<"U0AAA_0555", "U0555_02AA">>, KiB(1024),
       "AMD_STD", 4, BottomBoot(15)),
     Entry("FUJITSU", FujitsuId, "MBM29LV800TA", <<"U0AAA_0555", "U0555_02AA">>, KiB(1024),
       "AMD_STD", 4, TopBoot(15)),
     Entry("FUJITSU", FujitsuId, "MBM29LV400BC", <<"U0AAA_0555", "U0555_02AA">>, KiB(512),
       "AMD_STD", 4, BottomBoot(7))
  >>
FujitsuToIntelChips1 ==
  <<
     Entry("FUJITSU", FujitsuId, "MBM29LV400TC", <<"U0AAA_0555", "U0555_02AA">>, KiB(512),
       "AMD_STD", 4, TopBoot(7)),
     Entry("HYUNDAI", HyundaiId, "HY29F002T", <<"U0555_02AA">>, KiB(256),
       "AMD_STD", 4, TopBoot(3)),
     Entry("INTEL", IntelId, "I28F004B3B", <<"UNNECESSARY">>, KiB(512),
       "INTEL_STD", 2, BottomParameters(7)),
     Entry("INTEL", IntelId, "I28F004B3T", <<"UNNECESSARY">>, KiB(512),
       "INTEL_STD", 2, TopParameters(7)),
     Entry("INTEL", IntelId, "I28F400B3B", <<"UNNECESSARY", "UNNECESSARY">>, KiB(512),
       "INTEL_STD", 2, BottomParameters(7)),
     Entry("INTEL", IntelId, "I28F400B3T", <<"UNNECESSARY", "UNNECESSARY">>, KiB(512),
       "INTEL_STD", 2, TopParameters(7)),
     Entry("INTEL", IntelId, "I28F008B3B", <<"UNNECESSARY">>, KiB(1024),
       "INTEL_STD", 2, BottomParameters(15)),
     Entry("INTEL", IntelId, "I28F008B3T", <<"UNNECESSARY">>, KiB(1024),
       "INTEL_STD", 2, TopParameters(15)),
     Entry("INTEL", IntelId, "I28F008S5", <<"UNNECESSARY">>, KiB(1024),
       "INTEL_EXT", 1, Uniform(64, 16)),
     Entry("INTEL", IntelId, "I28F016S5", <<"UNNECESSARY">>, KiB(2048),
       "INTEL_EXT", 1, Uniform(64, 32))
  >>
IntelChips1 ==
  <<
     Entry("INTEL", IntelId, "I28F008SA", <<"UNNECESSARY">>, KiB(1024),
       "INTEL_STD", 1, Uniform(64, 16)),
     Entry("INTEL", IntelId, "I28F800B3B", <<"UNNECESSARY">>, KiB(1024),
       "INTEL_STD", 2, BottomParameters(15)),
     Entry("INTEL", IntelId, "I28F800B3T", <<"UNNECESSARY">>, KiB(1024),
       "INTEL_STD", 2, TopParameters(15)),
     Entry("INTEL", IntelId, "I28F016B3B", <<"UNNECESSARY">>, KiB(2048),
       "INTEL_STD", 2, BottomParameters(31)),
     Entry("INTEL", IntelId, "I28F016S3", <<"UNNECESSARY">>, KiB(2048),
       "INTEL_STD", 1, Uniform(64, 32)),
     Entry("INTEL", IntelId, "I28F016B3T", <<"UNNECESSARY">>, KiB(2048),
       "INTEL_STD", 2, TopParameters(31)),
     Entry("INTEL", IntelId, "I28F160B3B", <<"UNNECESSARY">>, KiB(2048),
       "INTEL_STD", 2, BottomParameters(31)),
     Entry("INTEL", IntelId, "I28F160B3T", <<"UNNECESSARY">>, KiB(2048),
       "INTEL_STD", 2, TopParameters(31)),
     Entry("INTEL", IntelId, "I28F320B3B", <<"UNNECESSARY">>, KiB(4096),
       "INTEL_STD", 2, BottomParameters(63)),
     Entry("INTEL", IntelId, "I28F320B3T", <<"UNNECESSARY">>, KiB(4096),
       "INTEL_STD", 2, TopParameters(63))
  >>
IntelAndMacronixChips1 ==
  <<
     Entry("INTEL", IntelId, "I28F640B3B", <<"UNNECESSARY">>, KiB(8192),
       "INTEL_STD", 2, BottomParameters(127)),
     Entry("INTEL", IntelId, "I28F640B3T", <<"UNNECESSARY">>, KiB(8192),
       "INTEL_STD", 2, TopParameters(127)),
     Entry("INTEL", IntelId, "I82802AB", <<"UNNECESSARY">>, KiB(512),
       "INTEL_EXT", 1, Uniform(64, 8)),
     Entry("INTEL", IntelId, "I82802AC", <<"UNNECESSARY">>, KiB(1024),
       "INTEL_EXT", 1, Uniform(64, 16)),
     Entry("MACRONIX", MacronixId, "MX29LV040C", <<"U0555_02AA">>, KiB(512),
       "AMD_STD", 1, Uniform(64, 8)),
     Entry("MACRONIX", MacronixId, "MX29LV160T", <<"U0AAA_0555", "U0555_02AA">>, KiB(2048),
       "AMD_STD", 4, TopBoot(31))
  >>
NECAndMacronixChips1 ==
  <<
     Entry("NEC", NECId, "UPD29F064115", <<"U0555_02AA", "U0555_02AA">>, KiB(8192),
      "AMD_STD", 3, << ERASEINFO(KiB(8), 8), ERASEINFO(KiB(64), 126),
        ERASEINFO(KiB(8), 8) >>),
     Entry("MACRONIX", MacronixId, "MX29LV160B", <<"U0AAA_0555", "U0555_02AA">>, KiB(2048),
       "AMD_STD", 4, BottomBoot(31)),
     Entry("MACRONIX", MacronixId, "MX29F040", <<"U0555_02AA">>, KiB(512),
       "AMD_STD", 1, Uniform(64, 8)),
     Entry("MACRONIX", MacronixId, "MX29F016", <<"U0555_02AA">>, KiB(2048),
       "AMD_STD", 1, Uniform(64, 32)),
     Entry("MACRONIX", MacronixId, "MX29F004T", <<"U0555_02AA">>, KiB(512),
       "AMD_STD", 4, TopBoot(7)),
     Entry("MACRONIX", MacronixId, "MX29F004B", <<"U0555_02AA">>, KiB(512),
       "AMD_STD", 4, BottomBoot(7)),
     Entry("MACRONIX", MacronixId, "MX29F002T", <<"U0555_02AA">>, KiB(256),
       "AMD_STD", 4, TopBoot(3))
  >>
PmcToSstChips1 ==
  <<
     Entry("PMC", PMCId, "PM49FL002", <<"U5555_2AAA">>, KiB(256),
       "AMD_STD", 1, Uniform(4, 64)),
     Entry("PMC", PMCId, "PM49FL004", <<"U5555_2AAA">>, KiB(512),
       "AMD_STD", 1, Uniform(4, 128)),
     Entry("PMC", PMCId, "PM49FL008", <<"U5555_2AAA">>, KiB(1024),
       "AMD_STD", 1, Uniform(4, 256)),
     Entry("SHARP", SharpId, "LH28F640BF", <<"UNNECESSARY">>, KiB(4096),
       "INTEL_STD", 1, Uniform(256, 16)),
     Entry("SST", SSTId, "SST39LF512", <<"U5555_2AAA">>, KiB(64),
       "AMD_STD", 1, Uniform(4, 16)),
     Entry("SST", SSTId, "SST39LF010", <<"U5555_2AAA">>, KiB(128),
       "AMD_STD", 1, Uniform(4, 32)),
     Entry("SST", SSTId, "SST29EE020", <<"U5555_2AAA">>, KiB(256),
       "SST_PAGE", 1, Uniform(4, 64)),
     Entry("SST", SSTId, "SST29LE020", <<"U5555_2AAA">>, KiB(256),
       "SST_PAGE", 1, Uniform(4, 64)),
     Entry("SST", SSTId, "SST39LF020", <<"U5555_2AAA">>, KiB(256),
       "AMD_STD", 1, Uniform(4, 64)),
     Entry("SST", SSTId, "SST39LF040", <<"U5555_2AAA">>, KiB(512),
       "AMD_STD", 1, Uniform(4, 128)),
     Entry("SST", SSTId, "SST39SF010A", <<"U5555_2AAA">>, KiB(128),
       "AMD_STD", 1, Uniform(4, 32))
  >>
SSTChips1 ==
  <<
     Entry("SST", SSTId, "SST39SF020A", <<"U5555_2AAA">>, KiB(256),
       "AMD_STD", 1, Uniform(4, 64)),
     Entry("SST", SSTId, "SST49LF040B", <<"U5555_2AAA">>, KiB(512),
       "AMD_STD", 1, Uniform(4, 128)),
     Entry("SST", SSTId, "SST49LF004B", <<"U5555_2AAA">>, KiB(512),
       "AMD_STD", 1, Uniform(4, 128)),
     Entry("SST", SSTId, "SST49LF008A", <<"U5555_2AAA">>, KiB(1024),
       "AMD_STD", 1, Uniform(4, 256)),
     Entry("SST", SSTId, "SST49LF030A", <<"U5555_2AAA">>, KiB(512),
       "AMD_STD", 1, Uniform(4, 96)),
     Entry("SST", SSTId, "SST49LF040A", <<"U5555_2AAA">>, KiB(512),
       "AMD_STD", 1, Uniform(4, 128)),
     Entry("SST", SSTId, "SST49LF080A", <<"U5555_2AAA">>, KiB(1024),
       "AMD_STD", 1, Uniform(4, 256)),
     Entry("SST", SSTId, "SST39LF160", <<"U5555_2AAA", "U5555_2AAA">>, KiB(2048),
       "AMD_STD", 2, Halves(KiB(4), 256, 2)),
     Entry("SST", SSTId, "SST39VF1601", <<"U5555_2AAA", "U5555_2AAA">>, KiB(2048),
       "AMD_STD", 2, Halves(KiB(4), 256, 2)),
     Entry("SST", SSTId, "SST39VF3201", <<"U5555_2AAA", "U5555_2AAA">>, KiB(4096),
       "AMD_STD", 4, Halves(KiB(4), 256, 4))
  >>
SSTAndSTChips1 ==
  <<
     Entry("SST", SSTId, "SST39VF6401", <<"U5555_2AAA", "U5555_2AAA">>, KiB(8192),
       "AMD_STD", 8, Halves(KiB(4), 256, 8)),
     Entry("SST", SSTId, "SST39VF1602", <<"U5555_2AAA", "U5555_2AAA">>, KiB(2048),
       "AMD_STD", 2, Halves(KiB(4), 256, 2)),
     Entry("SST", SSTId, "SST39VF3202", <<"U5555_2AAA", "U5555_2AAA">>, KiB(4096),
       "AMD_STD", 4, Halves(KiB(4), 256, 4)),
     Entry("SST", SSTId, "SST39VF6402", <<"U5555_2AAA", "U5555_2AAA">>, KiB(8192),
       "AMD_STD", 8, Halves(KiB(4), 256, 8)),
     Entry("ST", STId, "M29W800DT", <<"U5555_2AAA", "U5555_2AAA">>, KiB(1024),
       "AMD_STD", 4, TopBoot(15)),
     Entry("ST", STId, "M29W800DB", <<"U5555_2AAA", "U5555_2AAA">>, KiB(1024),
       "AMD_STD", 4, BottomBoot(15)),
     Entry("ST", STId, "M29W160DT", <<"U0555_02AA", "U0555_02AA">>, KiB(2048),
       "AMD_STD", 4, TopBoot(31)),
     Entry("ST", STId, "M29W160DB", <<"U0555_02AA", "U0555_02AA">>, KiB(2048),
       "AMD_STD", 4, BottomBoot(31))
  >>
STAndToshibaChips1 ==
  <<
     Entry("ST", STId, "M29W040B", <<"U0555_02AA">>, KiB(512), "AMD_STD", 1, Uniform(64, 8)),
     Entry("ST", STId, "M50FW040", <<"UNNECESSARY">>, KiB(512),
       "INTEL_EXT", 1, Uniform(64, 8)),
     Entry("ST", STId, "M50FW080", <<"UNNECESSARY">>, KiB(1024),
       "INTEL_EXT", 1, Uniform(64, 16)),
     Entry("ST", STId, "M50FW016", <<"UNNECESSARY">>, KiB(2048),
       "INTEL_EXT", 1, Uniform(64, 32)),
     Entry("ST", STId, "M50LPW080", <<"UNNECESSARY">>, KiB(1024),
       "INTEL_EXT", 1, Uniform(64, 16)),
     Entry("TOSHIBA", ToshibaId, "TC58FVT160", <<"U0AAA_0555", "U0555_02AA">>, KiB(2048),
       "AMD_STD", 4, TopBoot(31)),
     Entry("TOSHIBA", ToshibaId, "TC58FVB160", <<"U0AAA_0555", "U0555_02AA">>, KiB(2048),
       "AMD_STD", 4, BottomBoot(31)),
     Entry("TOSHIBA", ToshibaId, "TC58FVB321", <<"U0AAA_0555", "U0555_02AA">>, KiB(4096),
       "AMD_STD", 2, BottomParameters(63)),
     Entry("TOSHIBA", ToshibaId, "TC58FVT321", <<"U0AAA_0555", "U0555_02AA">>, KiB(4096),
       "AMD_STD", 2, TopParameters(63)),
     Entry("TOSHIBA", ToshibaId, "TC58FVB641", <<"U0AAA_0555", "U0555_02AA">>, KiB(8192),
       "AMD_STD", 2, BottomParameters(127))
  >>
ToshibaAndWinbondChips1 ==
  <<
     Entry("TOSHIBA", ToshibaId, "TC58FVT641", <<"U0AAA_0555", "U0555_02AA">>, KiB(8192),
       "AMD_STD", 2, TopParameters(127)),
     Entry("WINBOND", WinbondId, "W49V002A", <<"U5555_2AAA">>, KiB(256),
       "AMD_STD", 4, TopBoot(3))
  >>

jedec_table ==
  AMDChips1 \o AMDChips2 \o AtmelChips1
  \o FujitsuChips1 \o FujitsuToIntelChips1 \o IntelChips1 \o IntelAndMacronixChips1
  \o NECAndMacronixChips1 \o PmcToSstChips1 \o SSTChips1 \o SSTAndSTChips1
  \o STAndToshibaChips1 \o ToshibaAndWinbondChips1
=============================================================================
