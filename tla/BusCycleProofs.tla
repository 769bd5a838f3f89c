--------------------------- MODULE BusCycleProofs ---------------------------
(***************************************************************************)
(* What every bus cycle keeps to, whatever the address, the data and the   *)
(* byte enables: a strobe that goes LOW is raised by the very next scan,   *)
(* the data pads are inputs when nOE goes LOW, only the chip selects of    *)
(* the address go LOW, and the NAND pads are left alone.                   *)
(***************************************************************************)
EXTENDS BusCycle, ScanLists, SequenceTheorems, TLAPS

-----------------------------------------------------------------------------
(* Lists of scans put together.                                              *)

\* Two scans, made of one and one.
LEMMA OneAndOne ==
  ASSUME NEW a, NEW b
  PROVE  <<a>> \o <<b>> = <<a, b>>
<1> DEFINE s == <<a>>  t == <<b>>  u == <<a, b>>  S == {a, b}
<1>1. s \in Seq(S) /\ t \in Seq(S) /\ u \in Seq(S) /\ Len(s) = 1 /\ Len(t) = 1 /\ Len(u) = 2
  OBVIOUS
<1>2. s[1] = u[1] /\ t[1] = u[2]
  OBVIOUS
<1> HIDE DEF s, t, u, S
<1>3. /\ s \o t \in Seq(S) /\ Len(s \o t) = Len(s) + Len(t)
      /\ \A i \in 1 .. Len(s) + Len(t) : (s \o t)[i] = IF i <= Len(s) THEN s[i] ELSE t[i - Len(s)]
  BY <1>1, ConcatProperties
<1>4. \A i \in 1 .. Len(u) : (s \o t)[i] = u[i]
  BY <1>1, <1>2, <1>3
<1>5. s \o t = u
  BY <1>1, <1>3, <1>4, SeqEqual
<1> QED BY <1>5 DEF s, t, u

\* Three scans, made of two and one.
LEMMA TwoAndOne ==
  ASSUME NEW a, NEW b, NEW c
  PROVE  <<a, b>> \o <<c>> = <<a, b, c>>
<1> DEFINE s == <<a, b>>  t == <<c>>  u == <<a, b, c>>  S == {a, b, c}
<1>1. s \in Seq(S) /\ t \in Seq(S) /\ u \in Seq(S) /\ Len(s) = 2 /\ Len(t) = 1 /\ Len(u) = 3
  OBVIOUS
<1>2. s[1] = u[1] /\ s[2] = u[2] /\ t[1] = u[3]
  OBVIOUS
<1> HIDE DEF s, t, u, S
<1>3. /\ s \o t \in Seq(S) /\ Len(s \o t) = Len(s) + Len(t)
      /\ \A i \in 1 .. Len(s) + Len(t) : (s \o t)[i] = IF i <= Len(s) THEN s[i] ELSE t[i - Len(s)]
  BY <1>1, ConcatProperties
<1>4. \A i \in 1 .. Len(u) : (s \o t)[i] = u[i]
  BY <1>1, <1>2, <1>3
<1>5. s \o t = u
  BY <1>1, <1>3, <1>4, SeqEqual
<1> QED BY <1>5 DEF s, t, u

\* Four scans, made of three and one.
LEMMA ThreeAndOne ==
  ASSUME NEW a, NEW b, NEW c, NEW d
  PROVE  <<a, b, c>> \o <<d>> = <<a, b, c, d>>
<1> DEFINE s == <<a, b, c>>  t == <<d>>  u == <<a, b, c, d>>  S == {a, b, c, d}
<1>1. s \in Seq(S) /\ t \in Seq(S) /\ u \in Seq(S) /\ Len(s) = 3 /\ Len(t) = 1 /\ Len(u) = 4
  OBVIOUS
<1>2. s[1] = u[1] /\ s[2] = u[2] /\ s[3] = u[3] /\ t[1] = u[4]
  OBVIOUS
<1> HIDE DEF s, t, u, S
<1>3. /\ s \o t \in Seq(S) /\ Len(s \o t) = Len(s) + Len(t)
      /\ \A i \in 1 .. Len(s) + Len(t) : (s \o t)[i] = IF i <= Len(s) THEN s[i] ELSE t[i - Len(s)]
  BY <1>1, ConcatProperties
<1>4. \A i \in 1 .. Len(u) : (s \o t)[i] = u[i]
  BY <1>1, <1>2, <1>3
<1>5. s \o t = u
  BY <1>1, <1>3, <1>4, SeqEqual
<1> QED BY <1>5 DEF s, t, u

\* A tuple of scans is a list.
LEMMA TwoScans == ASSUME NEW a, NEW b PROVE IsList(<<a, b>>)
  BY DEF IsList
LEMMA ThreeScans == ASSUME NEW a, NEW b, NEW c PROVE IsList(<<a, b, c>>)
  BY DEF IsList
LEMMA FourScans == ASSUME NEW a, NEW b, NEW c, NEW d PROVE IsList(<<a, b, c, d>>)
  BY DEF IsList

-----------------------------------------------------------------------------
(* The pins of one scan.                                                     *)

\* What is set twice keeps the first value.
LEMMA Overlay ==
  ASSUME NEW f, NEW h
  PROVE  /\ DOMAIN (f ++ h) = DOMAIN f \cup DOMAIN h
         /\ \A c \in DOMAIN f : (f ++ h)[c] = f[c]
         /\ \A c \in DOMAIN h \ DOMAIN f : (f ++ h)[c] = h[c]
  BY DEF ++

\* SetPin on one cell, and on the cells of a data direction.
LEMMA SetOne ==
  ASSUME NEW c, NEW v
  PROVE  DOMAIN SetPins({c}, v) = {c} /\ SetPins({c}, v)[c] = v
  BY DEF SetPins

\* Byte enables, data and the address: no strobe, chip select or direction.
Unwatched(pins) ==
  /\ DOMAIN pins \cap {nOE, nWE, nFCE, nFRE, nFWE} = {}
  /\ \A i : DATA_CON(i) \notin DOMAIN pins
  /\ \A b : nCS(b) \notin DOMAIN pins

\* What the cycles set beside them.
LEMMA UnwatchedPins ==
  ASSUME NEW condition, NEW bs, NEW bytes, NEW data, NEW addr
  PROVE  /\ Unwatched(Enabled(bs)) /\ Unwatched(When(condition, Enabled(bs)))
         /\ Unwatched(When(condition, Released(bytes)))
         /\ Unwatched(SetData(data)) /\ Unwatched(Address(addr))
<1>1. /\ \E S : DOMAIN Enabled(bs) = {nBE(i) : i \in S}
      /\ \E S : DOMAIN When(condition, Enabled(bs)) = {nBE(i) : i \in S}
      /\ \E S : DOMAIN When(condition, Released(bytes)) = {nBE(i) : i \in S}
      /\ \E S : DOMAIN SetData(data) = {DATA(i) : i \in S}
      /\ DOMAIN Address(addr) = {ADDR}
  BY DEF Enabled, When, Released, SetData, Address, SetPins, Nothing
<1> QED BY <1>1 DEF Unwatched, nOE, nWE, nFCE, nFRE, nFWE, nBE, nCS, DATA, DATA_CON, ADDR

\* Two sets of pins do the same to a cell.
Agree(p, q, c) == (c \in DOMAIN p <=> c \in DOMAIN q) /\ (c \in DOMAIN p => p[c] = q[c])
Alike(p, q) ==
  /\ \A c \in {nOE, nWE, nFCE, nFRE, nFWE} : Agree(p, q, c)
  /\ \A i : Agree(p, q, DATA_CON(i))
  /\ \A b : Agree(p, q, nCS(b))

\* Setting them as well makes no difference to the rest.
LEMMA UnwatchedAdded ==
  ASSUME NEW p, NEW q, Unwatched(q)
  PROVE  Alike(p ++ q, p) /\ Alike(q ++ p, p)
<1> DEFINE r == p ++ q  s == q ++ p
<1>1. /\ DOMAIN r = DOMAIN p \cup DOMAIN q /\ \A c \in DOMAIN p : r[c] = p[c]
      /\ DOMAIN s = DOMAIN q \cup DOMAIN p /\ \A c \in DOMAIN p \ DOMAIN q : s[c] = p[c]
  BY Overlay
<1> HIDE DEF r, s
<1>2. Alike(r, p) /\ Alike(s, p)
  BY <1>1 DEF Alike, Agree, Unwatched
<1> QED BY <1>2 DEF r, s

-----------------------------------------------------------------------------
(* How a cycle begins and how it ends.                                       *)

Opening(p, v, addr) ==
  /\ \A i \in BusLanes : DATA_CON(i) \in DOMAIN p /\ p[DATA_CON(i)] = v
  /\ \A b : nCS(b) \in DOMAIN p => b \in Asserted(addr)
  /\ DOMAIN p \cap {nFCE, nFRE, nFWE} = {}
Closing(p, addr) ==
  /\ \A b : nCS(b) \in DOMAIN p => p[nCS(b)] = HIGH
  /\ \A b \in Deasserted(addr) : nCS(b) \in DOMAIN p
  /\ DOMAIN p \cap {nFCE, nFRE, nFWE} = {}

\* The address is put out, the bank selected and the data pads turned round.
LEMMA OpenedPins ==
  ASSUME NEW v, NEW addr
  PROVE  LET p == Opened(Direction(BusLanes, v), addr)
         IN Opening(p, v, addr) /\ nOE \notin DOMAIN p /\ nWE \notin DOMAIN p
<1> DEFINE d == Direction(BusLanes, v)
           a == d ++ Address(addr)
           p == Opened(d, addr)
<1>1. /\ DOMAIN d = {DATA_CON(i) : i \in BusLanes} /\ \A i \in BusLanes : d[DATA_CON(i)] = v
      /\ DOMAIN Address(addr) = {ADDR}
      /\ DOMAIN Select(addr) = {nCS(b) : b \in Asserted(addr)}
  BY DEF Direction, Address, Select, SetPins
<1>2. p = a ++ Select(addr)
  BY DEF Opened
<1> HIDE DEF d, p
<1>3. DOMAIN a = DOMAIN d \cup DOMAIN Address(addr) /\ \A c \in DOMAIN d : a[c] = d[c]
  BY Overlay
<1> HIDE DEF a
<1>4. DOMAIN p = DOMAIN a \cup DOMAIN Select(addr) /\ \A c \in DOMAIN a : p[c] = a[c]
  BY <1>2, Overlay
<1>5. Opening(p, v, addr) /\ nOE \notin DOMAIN p /\ nWE \notin DOMAIN p
  BY <1>1, <1>3, <1>4 DEF Opening, nOE, nWE, nFCE, nFRE, nFWE, nCS, DATA_CON, ADDR
<1> QED BY <1>5 DEF p, d

\* A strobe that goes LOW with them, or later.
LEMMA OpenedWithStrobe ==
  ASSUME NEW v, NEW addr, NEW strobe \in {nOE, nWE}
  PROVE  LET p == Opened(Direction(BusLanes, v), addr) ++ SetPins({strobe}, LOW)
         IN /\ Opening(p, v, addr)
            /\ DOMAIN p \cap {nOE, nWE} = {strobe} /\ p[strobe] = LOW
<1> DEFINE o == Opened(Direction(BusLanes, v), addr)
           q == SetPins({strobe}, LOW)
           p == o ++ q
<1>1. Opening(o, v, addr) /\ nOE \notin DOMAIN o /\ nWE \notin DOMAIN o
  BY OpenedPins
<1>2. DOMAIN q = {strobe} /\ q[strobe] = LOW
  BY SetOne
<1>3. strobe \notin DOMAIN o /\ strobe \notin {nFCE, nFRE, nFWE} /\ nOE # nWE
      /\ (\A i : strobe # DATA_CON(i)) /\ (\A b : strobe # nCS(b))
  BY <1>1 DEF nOE, nWE, nFCE, nFRE, nFWE, nCS, DATA_CON
<1> HIDE DEF o, q
<1>4. /\ DOMAIN p = DOMAIN o \cup DOMAIN q
      /\ \A c \in DOMAIN o : p[c] = o[c]
      /\ \A c \in DOMAIN q \ DOMAIN o : p[c] = q[c]
  BY Overlay
<1> HIDE DEF p
<1>5. DOMAIN p \cap {nOE, nWE} = {strobe} /\ p[strobe] = LOW
  BY <1>1, <1>2, <1>3, <1>4
<1>6. Opening(p, v, addr)
  BY <1>1, <1>2, <1>3, <1>4 DEF Opening
<1> QED BY <1>5, <1>6 DEF p, o, q

\* The bank is deselected with other pins that are no chip select.
LEMMA DeselectPins ==
  ASSUME NEW d, NEW addr, \A b : nCS(b) \notin DOMAIN d, DOMAIN d \cap {nFCE, nFRE, nFWE} = {}
  PROVE  LET p == d ++ Deselect(addr)
         IN /\ Closing(p, addr)
            /\ \A c \in {nOE, nWE} : Agree(p, d, c)
            /\ \A i : Agree(p, d, DATA_CON(i))
<1> DEFINE p == d ++ Deselect(addr)
<1>1. DOMAIN Deselect(addr) = {nCS(b) : b \in Deasserted(addr)}
      /\ \A c \in DOMAIN Deselect(addr) : Deselect(addr)[c] = HIGH
  BY DEF Deselect, SetPins
<1>2. /\ DOMAIN p = DOMAIN d \cup DOMAIN Deselect(addr)
      /\ \A c \in DOMAIN d : p[c] = d[c]
      /\ \A c \in DOMAIN Deselect(addr) \ DOMAIN d : p[c] = Deselect(addr)[c]
  BY Overlay
<1> HIDE DEF p
<1>3. Closing(p, addr)
  BY <1>1, <1>2 DEF Closing, nFCE, nFRE, nFWE, nCS
<1>4. (\A c \in {nOE, nWE} : Agree(p, d, c)) /\ \A i : Agree(p, d, DATA_CON(i))
  BY <1>1, <1>2 DEF Agree, nOE, nWE, nCS, DATA_CON
<1> QED BY <1>3, <1>4 DEF p

\* The last scan of a read, and the last one of a write.
ReadEnding(p, addr) ==
  Closing(p, addr) /\ nOE \in DOMAIN p /\ p[nOE] = HIGH /\ nWE \notin DOMAIN p
WriteEnding(p, addr) == Closing(p, addr) /\ nOE \notin DOMAIN p /\ nWE \notin DOMAIN p

\* The pins of ReadEnd.
LEMMA ReadEndPins ==
  ASSUME NEW addr, NEW bytes, NEW en
  PROVE  ReadEnding(SetPins({nOE}, HIGH) ++ Deselect(addr) ++ When(en, Released(bytes)), addr)
<1> DEFINE d == SetPins({nOE}, HIGH)
           p == d ++ Deselect(addr)
           q == p ++ When(en, Released(bytes))
<1>1. DOMAIN d = {nOE} /\ d[nOE] = HIGH
  BY SetOne
<1>2. (\A b : nCS(b) # nOE) /\ nOE \notin {nFCE, nFRE, nFWE} /\ nOE # nWE
  BY DEF nOE, nWE, nFCE, nFRE, nFWE, nCS
<1> HIDE DEF d
<1>3. /\ Closing(p, addr)
      /\ \A c \in {nOE, nWE} : Agree(p, d, c)
  BY <1>1, <1>2, DeselectPins
<1> HIDE DEF p
<1>4. Alike(q, p)
  BY UnwatchedPins, UnwatchedAdded
<1> HIDE DEF q
<1>5. ReadEnding(q, addr)
  BY <1>1, <1>2, <1>3, <1>4 DEF ReadEnding, Closing, Alike, Agree
<1> QED BY <1>5 DEF q, p, d

\* The pins of WriteEnd, whichever way the data pads are turned.
LEMMA WriteEndPins ==
  ASSUME NEW addr, NEW bytes, NEW en, NEW v
  PROVE  WriteEnding(Direction(BusLanes, v) ++ Deselect(addr) ++ When(en, Released(bytes)), addr)
<1> DEFINE d == Direction(BusLanes, v)
           p == d ++ Deselect(addr)
           q == p ++ When(en, Released(bytes))
<1>1. DOMAIN d = {DATA_CON(i) : i \in BusLanes}
  BY DEF Direction, SetPins
<1>2. /\ nOE \notin DOMAIN d /\ nWE \notin DOMAIN d /\ \A b : nCS(b) \notin DOMAIN d
      /\ DOMAIN d \cap {nFCE, nFRE, nFWE} = {}
  BY <1>1 DEF nOE, nWE, nFCE, nFRE, nFWE, nCS, DATA_CON
<1> HIDE DEF d
<1>3. /\ Closing(p, addr)
      /\ \A c \in {nOE, nWE} : Agree(p, d, c)
  BY <1>2, DeselectPins
<1> HIDE DEF p
<1>4. Alike(q, p)
  BY UnwatchedPins, UnwatchedAdded
<1> HIDE DEF q
<1>5. WriteEnding(q, addr)
  BY <1>2, <1>3, <1>4 DEF WriteEnding, Closing, Alike, Agree
<1> QED BY <1>5 DEF q, p, d

\* One strobe is moved, and nothing else that matters here.
Strobing(p, strobe, v) ==
  /\ DOMAIN p \cap {nOE, nWE, nFCE, nFRE, nFWE} = {strobe} /\ p[strobe] = v
  /\ (\A i : DATA_CON(i) \notin DOMAIN p) /\ (\A b : nCS(b) \notin DOMAIN p)

\* The strobe alone, or with byte enables.
LEMMA StrobePins ==
  ASSUME NEW strobe \in {nOE, nWE}, NEW v, NEW q, Unwatched(q)
  PROVE  LET p == SetPins({strobe}, v)
         IN Strobing(p, strobe, v) /\ Strobing(p ++ q, strobe, v) /\ Strobing(q ++ p, strobe, v)
<1> DEFINE p == SetPins({strobe}, v)
           r == p ++ q
           s == q ++ p
<1>1. DOMAIN p = {strobe} /\ p[strobe] = v
  BY SetOne
<1>2. (\A b : nCS(b) # strobe) /\ (\A i : DATA_CON(i) # strobe)
      /\ strobe \notin {nFCE, nFRE, nFWE} /\ nOE # nWE
  BY DEF nOE, nWE, nFCE, nFRE, nFWE, nCS, DATA_CON
<1> HIDE DEF p
<1>3. Alike(r, p) /\ Alike(s, p)
  BY UnwatchedAdded
<1> HIDE DEF r, s
<1>4. Strobing(p, strobe, v) /\ Strobing(r, strobe, v) /\ Strobing(s, strobe, v)
  BY <1>1, <1>2, <1>3 DEF Strobing, Alike, Agree
<1> QED BY <1>4 DEF p, r, s

-----------------------------------------------------------------------------
(* The cycles.                                                               *)

\* MRW_Rd8, Rd16 and Rd32.
LEMMA ReadSlowTidy ==
  ASSUME NEW addr, NEW bytes, NEW en, NEW bs
  PROVE  Tidy(ReadSlow(addr, bytes, en, bs),
              BusLanes, In, Asserted(addr), Deasserted(addr))
<1> DEFINE p1 == Opened(Input, addr) ++ When(en, Enabled(bs))
           p2 == SetPins({nOE}, LOW)
           p3 == SetPins({nOE}, HIGH) ++ Deselect(addr) ++ When(en, Released(bytes))
           list == ReadSlow(addr, bytes, en, bs)
<1>1. list = << Shift(p1), Shift(p2), Sample(p3) >>
  BY TwoAndOne DEF ReadSlow, ReadEnd
<1>2. /\ list[1].pins = p1 /\ list[2].pins = p2 /\ list[3].pins = p3
      /\ Len(list) = 3 /\ IsList(list) /\ Quiet(list)
  <2> HIDE DEF p1, p2, p3, list
  <2>1. IsList(list)
    BY <1>1, ThreeScans
  <2>2. list[1].pins = p1 /\ list[2].pins = p2 /\ list[3].pins = p3 /\ Len(list) = 3
    BY <1>1 DEF Shift, Sample
  <2>3. Quiet(list)
    BY <1>1, <2>2 DEF Quiet, Shift, Sample
  <2> QED BY <2>1, <2>2, <2>3
<1>3. Opening(p1, In, addr) /\ nOE \notin DOMAIN p1 /\ nWE \notin DOMAIN p1
  <2> DEFINE o == Opened(Direction(BusLanes, In), addr)
  <2>1. Opening(o, In, addr) /\ nOE \notin DOMAIN o /\ nWE \notin DOMAIN o
    BY OpenedPins
  <2> HIDE DEF o
  <2>2. p1 = o ++ When(en, Enabled(bs))
    BY DEF o, Input
  <2>3. Alike(p1, o)
    BY <2>2, UnwatchedPins, UnwatchedAdded
  <2> QED BY <2>1, <2>3 DEF Opening, Alike, Agree
<1>4. Strobing(p2, nOE, LOW)
  BY StrobePins, UnwatchedPins
<1>5. ReadEnding(p3, addr)
  BY ReadEndPins
<1> HIDE DEF p1, p2, p3, list
<1>6. \A k \in 1 .. Len(list) : k = 1 \/ k = 2 \/ k = 3
  BY <1>2
<1>7. Pulsed(list, nOE) /\ Pulsed(list, nWE)
  BY <1>2, <1>3, <1>4, <1>5, <1>6
  DEF Opening, Closing, ReadEnding, WriteEnding, Strobing, Pulsed, Raises, Lowers, Brings, nOE,
      nWE
<1>8. Turned(list, BusLanes, In)
  BY <1>2, <1>3, <1>4, <1>5, <1>6
  DEF Opening, Closing, ReadEnding, WriteEnding, Strobing, Turned, Lowers, Brings, nOE, nWE
<1>9. Selecting(list, Asserted(addr), Deasserted(addr))
  BY <1>2, <1>3, <1>4, <1>5, <1>6
  DEF Opening, Closing, ReadEnding, WriteEnding, Strobing, Selecting, Lowers, Raises, Brings
<1>10. LeftAlone(list, {nFCE, nFRE, nFWE})
  BY <1>2, <1>3, <1>4, <1>5, <1>6
  DEF Opening, Closing, ReadEnding, WriteEnding, Strobing, LeftAlone, nOE, nWE, nFCE, nFRE,
      nFWE
<1> QED BY <1>2, <1>7, <1>8, <1>9, <1>10 DEF Tidy, list

\* MRW_Rd8Q, Rd16Q and Rd32Q.
LEMMA ReadFastTidy ==
  ASSUME NEW addr, NEW bytes, NEW en, NEW bs
  PROVE  Tidy(ReadFast(addr, bytes, en, bs),
              BusLanes, In, Asserted(addr), Deasserted(addr))
<1> DEFINE p1 == Opened(Input, addr) ++ SetPins({nOE}, LOW) ++ When(en, Enabled(bs))
           p2 == SetPins({nOE}, HIGH) ++ Deselect(addr) ++ When(en, Released(bytes))
           list == ReadFast(addr, bytes, en, bs)
<1>1. list = << Shift(p1), Sample(p2) >>
  BY OneAndOne DEF ReadFast, ReadEnd
<1>2. /\ list[1].pins = p1 /\ list[2].pins = p2
      /\ Len(list) = 2 /\ IsList(list) /\ Quiet(list)
  <2> HIDE DEF p1, p2, list
  <2>1. IsList(list)
    BY <1>1, TwoScans
  <2>2. list[1].pins = p1 /\ list[2].pins = p2 /\ Len(list) = 2
    BY <1>1 DEF Shift, Sample
  <2>3. Quiet(list)
    BY <1>1, <2>2 DEF Quiet, Shift, Sample
  <2> QED BY <2>1, <2>2, <2>3
<1>3. Opening(p1, In, addr) /\ DOMAIN p1 \cap {nOE, nWE} = {nOE} /\ p1[nOE] = LOW
  <2> DEFINE o == Opened(Direction(BusLanes, In), addr) ++ SetPins({nOE}, LOW)
  <2>1. Opening(o, In, addr) /\ DOMAIN o \cap {nOE, nWE} = {nOE} /\ o[nOE] = LOW
    BY OpenedWithStrobe
  <2> HIDE DEF o
  <2>2. p1 = o ++ When(en, Enabled(bs))
    BY DEF o, Input
  <2>3. Alike(p1, o)
    BY <2>2, UnwatchedPins, UnwatchedAdded
  <2> QED BY <2>1, <2>3 DEF Opening, Alike, Agree
<1>4. ReadEnding(p2, addr)
  BY ReadEndPins
<1> HIDE DEF p1, p2, list
<1>5. \A k \in 1 .. Len(list) : k = 1 \/ k = 2
  BY <1>2
<1>6. Pulsed(list, nOE) /\ Pulsed(list, nWE)
  BY <1>2, <1>3, <1>4, <1>5
  DEF Opening, Closing, ReadEnding, WriteEnding, Strobing, Pulsed, Raises, Lowers, Brings, nOE,
      nWE
<1>7. Turned(list, BusLanes, In)
  BY <1>2, <1>3, <1>4, <1>5
  DEF Opening, Closing, ReadEnding, WriteEnding, Strobing, Turned, Lowers, Brings, nOE, nWE
<1>8. Selecting(list, Asserted(addr), Deasserted(addr))
  BY <1>2, <1>3, <1>4, <1>5
  DEF Opening, Closing, ReadEnding, WriteEnding, Strobing, Selecting, Lowers, Raises, Brings
<1>9. LeftAlone(list, {nFCE, nFRE, nFWE})
  BY <1>2, <1>3, <1>4, <1>5
  DEF Opening, Closing, ReadEnding, WriteEnding, Strobing, LeftAlone, nOE, nWE, nFCE, nFRE,
      nFWE
<1> QED BY <1>2, <1>6, <1>7, <1>8, <1>9 DEF Tidy, list

\* MRW_Wr8QQ, Wr16QQ and Wr32QQ, which leave the bank selected.
LEMMA WriteStrobeTidy ==
  ASSUME NEW addr, NEW data, NEW en, NEW bs
  PROVE  Tidy(WriteStrobe(addr, data, en, bs),
              BusLanes, In, Asserted(addr), {})
<1> DEFINE p1 == Opened(Output, addr) ++ SetPins({nWE}, LOW) ++ Enabled(bs) ++ SetData(data)
           p2 == SetPins({nWE}, HIGH) ++ When(~en, Released(Len(data)))
           list == WriteStrobe(addr, data, en, bs)
<1>1. list = << Shift(p1), Shift(p2) >>
  BY OneAndOne DEF WriteStrobe
<1>2. /\ list[1].pins = p1 /\ list[2].pins = p2
      /\ Len(list) = 2 /\ IsList(list) /\ Quiet(list)
  <2> HIDE DEF p1, p2, list
  <2>1. IsList(list)
    BY <1>1, TwoScans
  <2>2. list[1].pins = p1 /\ list[2].pins = p2 /\ Len(list) = 2
    BY <1>1 DEF Shift, Sample
  <2>3. Quiet(list)
    BY <1>1, <2>2 DEF Quiet, Shift, Sample
  <2> QED BY <2>1, <2>2, <2>3
<1>3. Opening(p1, Out, addr) /\ DOMAIN p1 \cap {nOE, nWE} = {nWE} /\ p1[nWE] = LOW
  <2> DEFINE o == Opened(Direction(BusLanes, Out), addr) ++ SetPins({nWE}, LOW)
             q == o ++ Enabled(bs)
  <2>1. Opening(o, Out, addr) /\ DOMAIN o \cap {nOE, nWE} = {nWE} /\ o[nWE] = LOW
    BY OpenedWithStrobe
  <2> HIDE DEF o
  <2>2. Alike(q, o)
    BY UnwatchedPins, UnwatchedAdded
  <2>3. p1 = q ++ SetData(data)
    BY DEF o, Output
  <2> HIDE DEF q, p1
  <2>4. Alike(p1, q)
    BY <2>3, UnwatchedPins, UnwatchedAdded
  <2> QED BY <2>1, <2>2, <2>4 DEF Opening, Alike, Agree
<1>4. Strobing(p2, nWE, HIGH)
  BY StrobePins, UnwatchedPins
<1> HIDE DEF p1, p2, list
<1>5. \A k \in 1 .. Len(list) : k = 1 \/ k = 2
  BY <1>2
<1>6. Pulsed(list, nOE) /\ Pulsed(list, nWE)
  BY <1>2, <1>3, <1>4, <1>5
  DEF Opening, Closing, ReadEnding, WriteEnding, Strobing, Pulsed, Raises, Lowers, Brings, nOE,
      nWE
<1>7. Turned(list, BusLanes, In)
  BY <1>2, <1>3, <1>4, <1>5
  DEF Opening, Closing, ReadEnding, WriteEnding, Strobing, Turned, Lowers, Brings, nOE, nWE
<1>8. Selecting(list, Asserted(addr), {})
  BY <1>2, <1>3, <1>4, <1>5
  DEF Opening, Closing, ReadEnding, WriteEnding, Strobing, Selecting, Lowers, Raises, Brings
<1>9. LeftAlone(list, {nFCE, nFRE, nFWE})
  BY <1>2, <1>3, <1>4, <1>5
  DEF Opening, Closing, ReadEnding, WriteEnding, Strobing, LeftAlone, nOE, nWE, nFCE, nFRE,
      nFWE
<1> QED BY <1>2, <1>6, <1>7, <1>8, <1>9 DEF Tidy, list

\* MRW_Wr8Q, Wr16Q and Wr32Q; the S3C6410's Wr16QQ, which turns the data pads out.
\* Either way the last scan turns them.
LEMMA WriteFastTidy ==
  ASSUME NEW addr, NEW data, NEW en, NEW bs, NEW v
  PROVE  Tidy(WriteStrobe(addr, data, en, bs) \o WriteEnd(Direction(BusLanes, v), addr, data, en),
              BusLanes, In, Asserted(addr), Deasserted(addr))
<1> DEFINE p1 == Opened(Output, addr) ++ SetPins({nWE}, LOW) ++ Enabled(bs) ++ SetData(data)
           p2 == SetPins({nWE}, HIGH) ++ When(~en, Released(Len(data)))
           p3 == Direction(BusLanes, v) ++ Deselect(addr) ++ When(en, Released(Len(data)))
           list == WriteStrobe(addr, data, en, bs) \o WriteEnd(Direction(BusLanes, v), addr, data, en)
<1>1. list = << Shift(p1), Shift(p2), Shift(p3) >>
  BY TwoAndOne DEF WriteStrobe, WriteEnd
<1>2. /\ list[1].pins = p1 /\ list[2].pins = p2 /\ list[3].pins = p3
      /\ Len(list) = 3 /\ IsList(list) /\ Quiet(list)
  <2> HIDE DEF p1, p2, p3, list
  <2>1. IsList(list)
    BY <1>1, ThreeScans
  <2>2. list[1].pins = p1 /\ list[2].pins = p2 /\ list[3].pins = p3 /\ Len(list) = 3
    BY <1>1 DEF Shift, Sample
  <2>3. Quiet(list)
    BY <1>1, <2>2 DEF Quiet, Shift, Sample
  <2> QED BY <2>1, <2>2, <2>3
<1>3. Opening(p1, Out, addr) /\ DOMAIN p1 \cap {nOE, nWE} = {nWE} /\ p1[nWE] = LOW
  <2> DEFINE o == Opened(Direction(BusLanes, Out), addr) ++ SetPins({nWE}, LOW)
             q == o ++ Enabled(bs)
  <2>1. Opening(o, Out, addr) /\ DOMAIN o \cap {nOE, nWE} = {nWE} /\ o[nWE] = LOW
    BY OpenedWithStrobe
  <2> HIDE DEF o
  <2>2. Alike(q, o)
    BY UnwatchedPins, UnwatchedAdded
  <2>3. p1 = q ++ SetData(data)
    BY DEF o, Output
  <2> HIDE DEF q, p1
  <2>4. Alike(p1, q)
    BY <2>3, UnwatchedPins, UnwatchedAdded
  <2> QED BY <2>1, <2>2, <2>4 DEF Opening, Alike, Agree
<1>4. Strobing(p2, nWE, HIGH)
  BY StrobePins, UnwatchedPins
<1>5. WriteEnding(p3, addr)
  BY WriteEndPins
<1> HIDE DEF p1, p2, p3, list
<1>6. \A k \in 1 .. Len(list) : k = 1 \/ k = 2 \/ k = 3
  BY <1>2
<1>7. Pulsed(list, nOE) /\ Pulsed(list, nWE)
  BY <1>2, <1>3, <1>4, <1>5, <1>6
  DEF Opening, Closing, ReadEnding, WriteEnding, Strobing, Pulsed, Raises, Lowers, Brings, nOE,
      nWE
<1>8. Turned(list, BusLanes, In)
  BY <1>2, <1>3, <1>4, <1>5, <1>6
  DEF Opening, Closing, ReadEnding, WriteEnding, Strobing, Turned, Lowers, Brings, nOE, nWE
<1>9. Selecting(list, Asserted(addr), Deasserted(addr))
  BY <1>2, <1>3, <1>4, <1>5, <1>6
  DEF Opening, Closing, ReadEnding, WriteEnding, Strobing, Selecting, Lowers, Raises, Brings
<1>10. LeftAlone(list, {nFCE, nFRE, nFWE})
  BY <1>2, <1>3, <1>4, <1>5, <1>6
  DEF Opening, Closing, ReadEnding, WriteEnding, Strobing, LeftAlone, nOE, nWE, nFCE, nFRE,
      nFWE
<1> QED BY <1>2, <1>7, <1>8, <1>9, <1>10 DEF Tidy, list

\* MRW_Wr8, Wr16 and Wr32.
LEMMA WriteSlowTidy ==
  ASSUME NEW addr, NEW data, NEW en, NEW bs
  PROVE  Tidy(WriteSlow(addr, data, en, bs),
              BusLanes, In, Asserted(addr), Deasserted(addr))
<1> DEFINE p1 == Opened(Output, addr) ++ When(en, Enabled(bs)) ++ SetData(data)
           p2 == When(~en, Enabled(bs)) ++ SetPins({nWE}, LOW)
           p3 == SetPins({nWE}, HIGH) ++ When(~en, Released(Len(data)))
           p4 == Input ++ Deselect(addr) ++ When(en, Released(Len(data)))
           list == WriteSlow(addr, data, en, bs)
<1>1. list = << Shift(p1), Shift(p2), Shift(p3), Shift(p4) >>
  BY ThreeAndOne DEF WriteSlow, WriteEnd
<1>2. /\ list[1].pins = p1 /\ list[2].pins = p2 /\ list[3].pins = p3 /\ list[4].pins = p4
      /\ Len(list) = 4 /\ IsList(list) /\ Quiet(list)
  <2> HIDE DEF p1, p2, p3, p4, list
  <2>1. IsList(list)
    BY <1>1, FourScans
  <2>2. list[1].pins = p1 /\ list[2].pins = p2 /\ list[3].pins = p3 /\ list[4].pins = p4 /\ Len(list) = 4
    BY <1>1 DEF Shift, Sample
  <2>3. Quiet(list)
    BY <1>1, <2>2 DEF Quiet, Shift, Sample
  <2> QED BY <2>1, <2>2, <2>3
<1>3. Opening(p1, Out, addr) /\ nOE \notin DOMAIN p1 /\ nWE \notin DOMAIN p1
  <2> DEFINE o == Opened(Direction(BusLanes, Out), addr)
             q == o ++ When(en, Enabled(bs))
  <2>1. Opening(o, Out, addr) /\ nOE \notin DOMAIN o /\ nWE \notin DOMAIN o
    BY OpenedPins
  <2> HIDE DEF o
  <2>2. Alike(q, o)
    BY UnwatchedPins, UnwatchedAdded
  <2>3. p1 = q ++ SetData(data)
    BY DEF o, Output
  <2> HIDE DEF q, p1
  <2>4. Alike(p1, q)
    BY <2>3, UnwatchedPins, UnwatchedAdded
  <2> QED BY <2>1, <2>2, <2>4 DEF Opening, Alike, Agree
<1>4. Strobing(p2, nWE, LOW)
  BY StrobePins, UnwatchedPins
<1>5. Strobing(p3, nWE, HIGH)
  BY StrobePins, UnwatchedPins
<1>6. WriteEnding(p4, addr)
  BY WriteEndPins DEF Input
<1> HIDE DEF p1, p2, p3, p4, list
<1>7. \A k \in 1 .. Len(list) : k = 1 \/ k = 2 \/ k = 3 \/ k = 4
  BY <1>2
<1>8. Pulsed(list, nOE) /\ Pulsed(list, nWE)
  BY <1>2, <1>3, <1>4, <1>5, <1>6, <1>7
  DEF Opening, Closing, ReadEnding, WriteEnding, Strobing, Pulsed, Raises, Lowers, Brings, nOE,
      nWE
<1>9. Turned(list, BusLanes, In)
  BY <1>2, <1>3, <1>4, <1>5, <1>6, <1>7
  DEF Opening, Closing, ReadEnding, WriteEnding, Strobing, Turned, Lowers, Brings, nOE, nWE
<1>10. Selecting(list, Asserted(addr), Deasserted(addr))
  BY <1>2, <1>3, <1>4, <1>5, <1>6, <1>7
  DEF Opening, Closing, ReadEnding, WriteEnding, Strobing, Selecting, Lowers, Raises, Brings
<1>11. LeftAlone(list, {nFCE, nFRE, nFWE})
  BY <1>2, <1>3, <1>4, <1>5, <1>6, <1>7
  DEF Opening, Closing, ReadEnding, WriteEnding, Strobing, LeftAlone, nOE, nWE, nFCE, nFRE,
      nFWE
<1> QED BY <1>2, <1>8, <1>9, <1>10, <1>11 DEF Tidy, list

=============================================================================
