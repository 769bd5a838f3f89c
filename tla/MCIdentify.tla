----------------------------- MODULE MCIdentify -----------------------------
(* The chips the checks put on the boards. *)
EXTENDS Identify

-----------------------------------------------------------------------------
(* NOR chips that are not in the table *)

R(size, count) == [size |-> size, count |-> count]
Q(p_id, interface, version, top, regions, dev_size, buffer) ==
  [p_id |-> p_id, interface |-> interface, version |-> version, top |-> top,
   regions |-> [r \in DOMAIN regions |-> [units |-> (regions[r].size \div 256),
                                         less1 |-> (regions[r].count - 1)]],
   dev_size |-> dev_size, max_buf_write_size |-> buffer]
C(amd, mfr, dev, unlock, query, regions, locked) ==
  [amd |-> amd, mfr |-> mfr, dev |-> dev, unlock |-> unlock, query |-> query,
   regions |-> regions, locked |-> locked]
One(chip) == [width |-> 2, lanes |-> 1, chip |-> chip]
Two(chip) == [width |-> 2, lanes |-> 2, chip |-> chip]
Byte(chip) == [width |-> 1, lanes |-> 1, chip |-> chip]
Bottom == << R(8192, 2), R(16384, 1), R(32768, 3) >>
Top == << R(32768, 3), R(16384, 1), R(8192, 2) >>
Boot(top) == IF top THEN Top ELSE Bottom
Flat == << R(65536, 4) >>
MCCfiChips ==
  {One(C(TRUE, 1, d, "U0555_02AA", Q(2, x, v, top, Bottom, 17, b), Boot(top), {}))
     : d \in {\h227E, \h22FE}, x \in {1, 2}, v \in {\h3131, \h3133}, top \in BOOLEAN, b \in {0, 5}}
  \* Before version 1.1 the query does not say it: only the id tells top from bottom.
  \cup {One(C(TRUE, 1, IF top THEN \h22E0 ELSE \h2260, "U0555_02AA",
              Q(2, 1, v, flag, Bottom, 17, 0), Boot(top), {}))
     : v \in {0, \h3130}, top \in BOOLEAN, flag \in BOOLEAN}
  \cup {One(C(TRUE, \h1F, \hD2, "U0555_02AA", Q(2, 1, \h3131, top, Bottom, 17, 0), Boot(top), {}))
     : top \in BOOLEAN}
  \cup {One(C(FALSE, \h89, d, "UNNECESSARY", Q(p, 1, \h3133, FALSE, Flat, 18, 5), Flat, l))
     : d \in {\h17, \h8922}, p \in IntelSets, l \in SUBSET (1 .. 4)}
  \cup {Two(C(TRUE, m, \h5A, "U0555_02AA", Q(2, 0, \h3131, FALSE, Flat, 18, 0), Flat, {})) : m \in {1, 4}}
  \cup {Two(C(FALSE, \h89, \h17, "UNNECESSARY", Q(1, 0, \h3131, FALSE, Flat, 18, 5), Flat, l))
     : l \in {{}, {2}, 1 .. 4}}
  \cup {One(C(amd, \hBF, \h1234, u, Q(258, 1, \h3131, FALSE, Flat, 18, 0), Flat, {}))
     : amd \in BOOLEAN, u \in {"U5555_2AAA", "U0555_02AA"}}
  \cup {Byte(C(TRUE, m, \h5A, "U0555_02AA", Q(2, 0, \h3131, FALSE, Flat, 18, b), Flat, {}))
     : m \in {1, 4}, b \in {0, 5}}
  \cup {Byte(C(FALSE, \h89, \h17, "UNNECESSARY", Q(p, 0, \h3131, FALSE, Flat, 18, 5), Flat, l))
     : p \in IntelSets, l \in {{}, {2}, 1 .. 4}}
  \cup {[width |-> 2, lanes |-> l, chip |-> C(amd, 1, \h4D, "U0555_02AA", NoQuery, Flat, {})]
     : amd \in BOOLEAN, l \in {1, 2}}

-----------------------------------------------------------------------------
(* NAND chips, their ids laid out as their makers' datasheets say *)

Nand(id, tail, page, oob, block, mib, wide) ==
  [id |-> id, tail |-> tail, page |-> page, oob |-> oob, block |-> block, mib |-> mib,
   wide |-> wide, known |-> TRUE, slc |-> Len(id) < 3 \/ id[3] \in {0, 16}]
Bits(v, from) == CHOOSE b \in 0 .. 7 : from * 2 ^ b = v
\* Two bytes of id, pages of 512.
Small ==
  {Nand(<<maf, d[1]>>, "wrap", 512, 16, 16384, d[2], d[3]) :
     maf \in {\hEC, \h98}, d \in {<<\h73, 16, FALSE>>, <<\h55, 32, TRUE>>, <<\h36, 64, FALSE>>,
                                <<\h79, 128, FALSE>>, <<\h74, 128, TRUE>>, <<\h71, 256, FALSE>>}}
And == {Nand(<<\h07, 1>>, "wrap", 2048, 64, 16384, 128, FALSE)}
\* Four or five bytes: page, spare bytes per 512, block and bus in the fourth.
Ext(page, block, wide) ==
  Bits(page, 1024) + 4 + 16 * Bits(block, 65536) + (IF wide THEN 64 ELSE 0)
Large ==
  {Nand(<<maf, d[1], cell, Ext(page, block, d[3])>> \o fifth, tail, page, page \div 32, block, d[2], d[3]) :
     maf \in {\hEC, \h20}, cell \in {16, 20}, page \in {2048, 4096}, block \in {131072, 524288},
     fifth \in {<<>>, <<\h74>>}, tail \in {"wrap", "zeros"},
     d \in {<<\hF1, 128, FALSE>>, <<\hD7, 4096, FALSE>>, <<\hC1, 128, TRUE>>}}
\* Samsung's six bytes.
OobBits == [o \in {128, 218, 400, 436} |-> CASE o = 436 -> 0 [] o = 128 -> 1 [] o = 218 -> 2 [] OTHER -> 3]
ExtSix(page, oob, block) ==
  Bits(page, 2048) + 4 * OobBits[oob] + 16 * (Bits(block, 131072) % 4)
  + 128 * (Bits(block, 131072) \div 4)
Six ==
  {Nand(<<\hEC, d[1], 20, ExtSix(page, oob, block), \h72, \h42>>,
        "wrap", page, oob, block, d[2], FALSE) :
     page \in {4096, 8192}, oob \in DOMAIN OobBits, block \in {524288, 2097152},
     d \in {<<\hD5, 2048>>, <<\hD7, 4096>>}}
MCSockets == Small \cup And \cup Large \cup Six \cup {NoChip, [NoChip EXCEPT !.id = <<\hEC, \h6E>>]}
=============================================================================
