---------------------------- MODULE NorFlashProofs ----------------------------
(***************************************************************************)
(* Burning NOR flash erases and programs what it should and nothing else,  *)
(* for every layout of sectors, write buffer, image and sequence of images. *)
(***************************************************************************)
EXTENDS NorFlash, WellFoundedInduction, TLAPS

-----------------------------------------------------------------------------
(* Stretches and sets of numbers *)

\* Numbers up to the next multiple of b have the same quotient.
LEMMA SameStretch ==
  ASSUME NEW b \in Nat \ {0}, NEW a \in Nat, NEW c \in Nat, a <= c, c < a - (a % b) + b
  PROVE  a \div b = c \div b
<1> DEFINE q == a \div b
           p == c \div b
<1>1. /\ q \in Nat /\ a = b * q + (a % b) /\ a % b \in 0 .. b - 1
      /\ p \in Nat /\ c = b * p + (c % b) /\ c % b \in 0 .. b - 1
  OBVIOUS
<1> HIDE DEF q, p
<1>2. \A x, y \in Nat : x < y => b * x + b <= b * y
  <2> SUFFICES ASSUME NEW x \in Nat, NEW y \in Nat, x < y PROVE b * x + b <= b * y
    OBVIOUS
  <2>1. PICK d \in Nat : y = x + 1 + d
    <3>1. y - x - 1 \in Nat /\ y = x + 1 + (y - x - 1)
      OBVIOUS
    <3> QED BY <3>1
  <2>2. b * (x + 1 + d) = b * x + b + b * d
    OBVIOUS
  <2>3. b * d \in Nat /\ b * x \in Nat
    OBVIOUS
  <2> QED BY <2>1, <2>2, <2>3
<1>3. b * q \in Nat /\ b * p \in Nat
  BY <1>1
<1>4. ~ (q < p)
  <2>1. q < p => b * q + b <= b * p
    BY <1>1, <1>2
  <2> QED BY <1>1, <1>3, <2>1
<1>5. ~ (p < q)
  <2>1. p < q => b * p + b <= b * q
    BY <1>1, <1>2
  <2> QED BY <1>1, <1>3, <2>1
<1>6. q = p
  BY <1>1, <1>4, <1>5
<1> QED BY <1>6 DEF q, p

Less == {p \in Nat \X Nat : p[1] < p[2]}

LEMMA LessWellFounded == IsWellFoundedOn(Less, Nat)
<1>1. OpToRel(<, Nat) = Less
  BY DEF OpToRel, Less
<1> QED BY <1>1, NatLessThanWellFounded, Zenon

\* A set of naturals has a least member.
LEMMA Least ==
  ASSUME NEW S \in SUBSET Nat, S # {}
  PROVE  \E x \in S : \A y \in S : x <= y
<1>1. PICK x \in S : \A y \in S : ~ (<<y, x>> \in Less)
  BY LessWellFounded, WFMin
<1>2. ASSUME NEW y \in S PROVE x <= y
  <2>1. y \in Nat /\ x \in Nat
    OBVIOUS
  <2>2. y < x => <<y, x>> \in Less
    BY <2>1 DEF Less
  <2>3. ~ (y < x)
    BY <1>1, <2>2
  <2> QED BY <2>1, <2>3
<1> QED BY <1>2

\* A bounded set of naturals has a greatest member, and Max is it.
LEMMA MaxIsGreatest ==
  ASSUME NEW N \in Nat, NEW S \in SUBSET (0 .. N), S # {}
  PROVE  Max(S) \in S /\ \A y \in S : Max(S) >= y
<1> DEFINE T == {N - x : x \in S}
<1>1. PICK z \in S : TRUE
  OBVIOUS
<1>2. N - z \in T
  BY <1>1
<1>3. T \in SUBSET Nat
  OBVIOUS
<1>4. PICK t \in T : \A u \in T : t <= u
  <2> HIDE DEF T
  <2> QED BY <1>2, <1>3, Least
<1>5. PICK x \in S : t = N - x
  BY <1>4
<1>6. ASSUME NEW y \in S PROVE x >= y
  <2>1. N - y \in T
    OBVIOUS
  <2>2. N - x <= N - y
    BY <1>4, <1>5, <2>1
  <2> QED BY <2>2
<1> QED BY <1>6 DEF Max

-----------------------------------------------------------------------------
(* The layout *)

\* Sectors start one behind the other.
LEMMA StartsGrow ==
  ASSUME NEW s \in Sector, NEW t \in Sector, s < t
  PROVE  Start[s] < Start[t]
<1> DEFINE Bad == {u \in Sector : \E r \in Sector : r < u /\ ~ (Start[r] < Start[u])}
<1>1. Sector \subseteq Nat /\ \A u \in Sector : Start[u] \in Nat
  BY GeometryAssumption DEF Sector
<1>2. ASSUME Bad # {} PROVE FALSE
  <2>1. Bad \in SUBSET Nat
    BY <1>1
  <2>2. PICK u \in Bad : \A v \in Bad : u <= v
    <3> HIDE DEF Bad
    <3> QED BY <1>2, <2>1, Least
  <2>3. PICK r \in Sector : r < u /\ ~ (Start[r] < Start[u])
    BY <2>2
  <2>4. u - 1 \in Sector /\ u - 1 \in 1 .. Len(Start) - 1 /\ Start[u - 1] < Start[u]
    <3>1. u \in Sector /\ r \in Sector /\ r < u /\ Len(Start) \in Nat
      BY <2>2, <2>3, GeometryAssumption
    <3>2. u - 1 \in 1 .. Len(Start) - 1
      BY <3>1 DEF Sector
    <3>3. Start[u - 1] < Start[(u - 1) + 1]
      BY <3>2, GeometryAssumption
    <3> QED BY <3>1, <3>2, <3>3 DEF Sector
  <2>5. r < u - 1
    BY <2>3, <2>4, <1>1 DEF Sector
  <2>6. u - 1 \notin Bad
    BY <2>1, <2>2
  <2>7. Start[r] < Start[u - 1]
    BY <2>4, <2>5, <2>6
  <2> QED BY <1>1, <2>2, <2>3, <2>4, <2>7
<1> QED BY <1>2

LEMMA Layout ==
  /\ Len(Start) \in Nat /\ 1 \in Sector /\ Sector \subseteq Nat
  /\ \A s \in Sector : Start[s] \in Nat /\ SectorEnd(s) \in Nat
                       /\ Start[s] < SectorEnd(s) /\ SectorEnd(s) <= Size
  /\ \A s, t \in Sector : s < t => SectorEnd(s) <= Start[t]
<1>1. Len(Start) \in Nat /\ 1 \in Sector /\ Sector \subseteq Nat /\ Size \in Nat
  BY GeometryAssumption DEF Sector
<1>2. ASSUME NEW s \in Sector
      PROVE  /\ Start[s] \in Nat /\ SectorEnd(s) \in Nat
             /\ Start[s] < SectorEnd(s) /\ SectorEnd(s) <= Size
  <2>1. Start[s] \in Nat /\ Start[s] < Size
    BY GeometryAssumption DEF Sector
  <2>2. CASE s = Len(Start)
    BY <1>1, <2>1, <2>2 DEF SectorEnd
  <2>3. CASE s # Len(Start)
    <3>1. s + 1 \in Sector /\ s \in 1 .. Len(Start) - 1
      BY <1>1, <2>3 DEF Sector
    <3>2. Start[s + 1] \in Nat /\ Start[s + 1] < Size /\ Start[s] < Start[s + 1]
      BY <3>1, GeometryAssumption DEF Sector
    <3> QED BY <1>1, <2>1, <2>3, <3>2 DEF SectorEnd
  <2> QED BY <2>2, <2>3
<1>3. ASSUME NEW s \in Sector, NEW t \in Sector, s < t
      PROVE  SectorEnd(s) <= Start[t]
  <2>1. s # Len(Start) /\ s + 1 \in Sector /\ s + 1 <= t
    BY <1>1, <1>3 DEF Sector
  <2>2. SectorEnd(s) = Start[s + 1]
    BY <2>1 DEF SectorEnd
  <2>3. s + 1 = t \/ Start[s + 1] < Start[t]
    BY <1>1, <2>1, StartsGrow
  <2> QED BY <1>2, <2>1, <2>2, <2>3
<1> QED BY <1>1, <1>2, <1>3

\* Every address is in one sector, which SectorOf names.
LEMMA SectorOfAddress ==
  ASSUME NEW a \in Address
  PROVE  /\ SectorOf(a) \in Sector
         /\ Start[SectorOf(a)] <= a /\ a < SectorEnd(SectorOf(a))
<1> DEFINE Below == {s \in Sector : Start[s] <= a}
<1>1. a \in Nat /\ a < Size /\ Size \in Nat
  BY GeometryAssumption DEF Address
<1>2. Below \in SUBSET (0 .. Len(Start)) /\ 1 \in Below
  BY <1>1, Layout, GeometryAssumption DEF Sector
<1>3. PICK s \in Below : \A t \in Below : s >= t
  <2> HIDE DEF Below
  <2> QED BY <1>2, Layout, MaxIsGreatest
<1>4. a < SectorEnd(s)
  <2>1. CASE s = Len(Start)
    BY <1>1, <2>1 DEF SectorEnd
  <2>2. CASE s # Len(Start)
    <3>1. s + 1 \in Sector /\ s \in Nat
      BY <1>3, <2>2, Layout DEF Sector
    <3>2. s + 1 \notin Below
      BY <1>3, <3>1, Layout
    <3> QED BY <1>1, <2>2, <3>1, <3>2, Layout DEF SectorEnd
  <2> QED BY <2>1, <2>2
<1> QED BY <1>3, <1>4 DEF SectorOf

LEMMA SectorUnique ==
  ASSUME NEW a \in Address, NEW s \in Sector, Start[s] <= a, a < SectorEnd(s)
  PROVE  SectorOf(a) = s
<1>1. a \in Nat
  BY GeometryAssumption DEF Address
<1>2. PICK t \in Sector : t = SectorOf(a) /\ Start[t] <= a /\ a < SectorEnd(t)
  BY SectorOfAddress
<1>3. /\ s \in Nat /\ t \in Nat /\ Start[s] \in Nat /\ Start[t] \in Nat
      /\ SectorEnd(s) \in Nat /\ SectorEnd(t) \in Nat
  BY Layout
<1>4. ~ (s < t) /\ ~ (t < s)
  BY <1>1, <1>2, <1>3, Layout
<1> QED BY <1>2, <1>3, <1>4

\* The sectors an image reaches into are those from the one it starts at to LastSector.
LEMMA LastSectorOf ==
  ASSUME NEW off \in Nat, NEW n \in Nat \ {0}, off + n <= Size
  PROVE  /\ LastSector(off, n) \in Sector
         /\ Start[LastSector(off, n)] < off + n
         /\ off + n <= SectorEnd(LastSector(off, n))
         /\ SectorOf(off) <= LastSector(off, n)
<1> DEFINE In == {s \in Sector : Start[s] < off + n}
           m == Max(In)
<1>1. off \in Address /\ off + n - 1 \in Address /\ Size \in Nat
  BY GeometryAssumption DEF Address
<1>2. PICK f \in Sector : f = SectorOf(off) /\ Start[f] <= off
  BY <1>1, SectorOfAddress
<1>3. PICK t \in Sector : Start[t] <= off + n - 1 /\ off + n - 1 < SectorEnd(t)
  BY <1>1, SectorOfAddress
<1>4. In \in SUBSET (0 .. Len(Start)) /\ f \in In /\ t \in In
  <2>1. Start[f] < off + n /\ Start[t] < off + n
    BY <1>2, <1>3, Layout
  <2>2. In \subseteq Sector /\ Sector \subseteq 0 .. Len(Start)
    BY Layout DEF Sector
  <2> QED BY <2>1, <2>2
<1>5. m \in In /\ m >= f /\ m >= t
  <2> HIDE DEF In
  <2> QED BY <1>4, Layout, MaxIsGreatest
<1>6. m \in Sector /\ Start[m] < off + n
  BY <1>5
<1>7. LastSector(off, n) = m
  BY DEF LastSector
<1> HIDE DEF m
<1>8. SectorEnd(t) <= SectorEnd(m)
  <2>1. t \in Nat /\ m \in Nat /\ SectorEnd(t) \in Nat /\ SectorEnd(m) \in Nat
    BY <1>6, Layout
  <2>2. CASE t = m
    BY <2>1, <2>2
  <2>3. CASE t < m
    BY <2>1, <2>3, <1>6, Layout
  <2> QED BY <1>5, <2>1, <2>2, <2>3
<1>9. off + n <= SectorEnd(m)
  BY <1>3, <1>6, <1>8, Layout
<1>10. f <= m
  BY <1>5, <1>6, Layout
<1> QED BY <1>2, <1>6, <1>7, <1>9, <1>10

-----------------------------------------------------------------------------
(* The inductive invariant *)

\* What the driver holds protected is locked.
LocksTrue ==
  /\ chip \in [set : {"amd", "intel"}, jedec : BOOLEAN, cfi : BOOLEAN, locked : SUBSET Sector]
  /\ protect \subseteq chip.locked

\* A burn is of an image that fits, and erases the sectors it reaches into.
Burning ==
  pc \in {"erase", "write"} =>
    /\ image \in 1 .. MaxImages /\ rc = "none"
    /\ offset \in Nat /\ imageSize \in Nat \ {0} /\ offset + imageSize <= Size
    /\ last = LastSector(offset, imageSize)
    /\ sect \in SectorOf(offset) .. last + 1

Writing ==
  pc = "write" =>
    /\ sect = last + 1 /\ wp \in Nat /\ offset <= wp /\ wp + cnt = offset + imageSize
    /\ Writable

\* Sectors passed by the erasure are blank from wp on, unless they are locked, and
\* hold the image from its offset up to wp.
Unlocked(a) == SectorOf(a) \notin chip.locked
BlankAhead ==
  pc \in {"erase", "write"} /\ portOk =>
    \A a \in Address : /\ SectorOf(a) \in SectorOf(offset) .. sect - 1 /\ Unlocked(a)
                       /\ pc = "write" => wp <= a
                       => flash[a] = Erased
WrittenBehind ==
  pc = "write" /\ portOk =>
    \A a \in Address : offset <= a /\ a < wp /\ Unlocked(a) => flash[a] = Byte(image, a - offset)

DoneIsIdle == rc = "ERR_OK" => pc = "idle"

IInv ==
  /\ TypeOK /\ LocksTrue /\ Burning /\ Writing /\ BlankAhead /\ WrittenBehind
  /\ DoneIsIdle /\ NothingMixed /\ WrittenMeansThere

-----------------------------------------------------------------------------
LEMMA BytesDiffer ==
  /\ Erased # Mixed /\ Old # Mixed /\ Erased # Old
  /\ \A n, k : Byte(n, k) # Mixed
<1>1. Erased # Mixed /\ Old # Mixed /\ Erased # Old
  BY DEF Erased, Mixed, Old
<1>2. ASSUME NEW n, NEW k PROVE Byte(n, k) # Mixed
  <2>1. Len(<<n, k>>) = 2 /\ Len(<<"mixed">>) = 1
    OBVIOUS
  <2> QED BY <2>1 DEF Byte, Mixed
<1> QED BY <1>1, <1>2

LEMMA InitInv == Init => IInv
<1> SUFFICES ASSUME Init PROVE IInv
  OBVIOUS
<1>1. TypeOK
  <2>1. Len(Start) \in Nat /\ Size \in Nat /\ MaxImages \in Nat
    BY Layout, GeometryAssumption
  <2>2. DOMAIN flash = Address /\ \A a \in Address : flash[a] = Old
    BY DEF Init
  <2>3. /\ vendor = "none" /\ portOk = TRUE /\ known = FALSE /\ buffer = 0 /\ protect = {}
        /\ srcSize = 0 /\ image = 0 /\ offset = 0 /\ imageSize = 0
        /\ pc = "idle" /\ sect = 0 /\ last = 0 /\ wp = 0 /\ cnt = 0
    BY DEF Init
  <2>4. /\ sect \in 0 .. Len(Start) + 1 /\ last \in 0 .. Len(Start) /\ wp \in 0 .. Size
        /\ image \in 0 .. MaxImages /\ cnt \in Nat
    BY <2>1, <2>3
  <2>5. /\ \A a \in Address : flash[a] \in {Erased, Old, Mixed}
        /\ vendor \in CommandSets /\ buffer \in Nat /\ protect \subseteq Sector
        /\ srcSize \in Nat /\ offset \in Offsets \cup {0} /\ imageSize \in Sizes \cup {0}
    BY <2>2, <2>3 DEF CommandSets
  <2>6. portOk \in BOOLEAN /\ known \in BOOLEAN
    BY <2>3, Zenon
  <2> QED BY <2>2, <2>3, <2>4, <2>5, <2>6 DEF TypeOK
<1>2. LocksTrue /\ Burning /\ Writing /\ BlankAhead /\ WrittenBehind /\ DoneIsIdle
  BY DEF Init, LocksTrue, Burning, Writing, BlankAhead, WrittenBehind, DoneIsIdle
<1>3. NothingMixed
  BY BytesDiffer DEF Init, NothingMixed
<1>4. WrittenMeansThere
  BY DEF Init, WrittenMeansThere
<1> QED BY <1>1, <1>2, <1>3, <1>4 DEF IInv

\* Detection gives the driver a type of chip and what it holds protected is locked.
LEMMA DetectTyped ==
  ASSUME TypeOK, LocksTrue, Detect
  PROVE  /\ vendor' \in CommandSets /\ portOk' \in BOOLEAN /\ known' \in BOOLEAN
         /\ buffer' \in Nat /\ protect' \subseteq Sector /\ protect' \subseteq chip.locked
<1>1. chip.set \in CommandSets /\ chip.locked \subseteq Sector
      /\ chip.jedec \in BOOLEAN /\ chip.cfi \in BOOLEAN
  BY DEF LocksTrue, CommandSets
<1>2. LegacyFound \in BOOLEAN /\ CfiFound \in BOOLEAN
  BY <1>1 DEF LegacyFound, CfiFound, InTable, Vendorless
<1>3. portOk' \in BOOLEAN /\ known' \in BOOLEAN
  BY <1>2 DEF Detect, TypeOK
<1>4. BufBytes \in Nat
  BY GeometryAssumption
<1>5. CASE LegacyInfo
  BY <1>1, <1>3, <1>5 DEF LegacyInfo, TypeOK, LocksTrue
<1>6. CASE CfiInfo
  BY <1>1, <1>3, <1>4, <1>6 DEF CfiInfo
<1>7. CASE NoInfo
  BY <1>3, <1>7 DEF NoInfo, TypeOK, LocksTrue, CommandSets
<1> QED BY <1>5, <1>6, <1>7 DEF Detect

LEMMA RequestInv ==
  ASSUME IInv, NEW off \in Offsets, NEW n \in Sizes, Request(off, n)
  PROVE  IInv'
<1>0. TypeOK /\ LocksTrue /\ NothingMixed
  BY DEF IInv
<1>1. /\ flash' = flash /\ chip' = chip /\ pc = "idle"
      /\ image' = image + 1 /\ image' \in 1 .. MaxImages
      /\ offset' = off /\ imageSize' = n /\ off \in Nat /\ n \in Nat
  <2>1. image \in 0 .. MaxImages /\ MaxImages \in Nat
    BY <1>0, GeometryAssumption DEF TypeOK
  <2>2. /\ flash' = flash /\ chip' = chip /\ pc = "idle" /\ image < MaxImages
        /\ image' = image + 1 /\ offset' = off /\ imageSize' = n
    BY DEF Request
  <2>3. off \in Nat /\ n \in Nat
    BY GeometryAssumption
  <2> QED BY <2>1, <2>2, <2>3
<1>2. /\ vendor' \in CommandSets /\ portOk' \in BOOLEAN /\ known' \in BOOLEAN
      /\ buffer' \in Nat /\ protect' \subseteq Sector /\ protect' \subseteq chip.locked
  BY <1>0, DetectTyped DEF Request
<1>3. srcSize' \in Nat
  <2>1. srcSize' \in {n + 4, srcSize} /\ srcSize \in Nat
    BY <1>0 DEF TypeOK, Request
  <2> QED BY <1>1, <2>1
<1>4. NothingMixed' /\ LocksTrue'
  BY <1>0, <1>1, <1>2 DEF NothingMixed, LocksTrue
<1>5. \/ \E why \in {"undetected", "offset", "too big"} : Finish(why)
      \/ \E how \in {"overrun", "crashed"} : Stop(how)
      \/ /\ n # 0 /\ Fits(off, n) /\ pc' = "erase"
         /\ sect' = SectorOf(off) /\ last' = LastSector(off, n)
         /\ rc' = "none" /\ UNCHANGED <<wp, cnt>>
  BY <1>1 DEF Request
<1> DEFINE Typed == /\ sect' \in 0 .. Len(Start) + 1 /\ last' \in 0 .. Len(Start)
                    /\ wp' \in 0 .. Size /\ cnt' \in Nat
                    /\ pc' \in {"idle", "erase", "write", "overrun", "crashed", "hung"}
<1>6. ASSUME Typed PROVE TypeOK'
  <2>1. \A a \in Address : \/ flash'[a] \in {Erased, Old, Mixed}
                           \/ \E m \in 1 .. MaxImages, k \in Address : flash'[a] = Byte(m, k)
    BY <1>0, <1>1 DEF TypeOK
  <2>2. DOMAIN flash' = Address /\ image' \in 0 .. MaxImages
        /\ offset' \in Offsets \cup {0} /\ imageSize' \in Sizes \cup {0}
    BY <1>0, <1>1 DEF TypeOK
  <2> QED BY <1>2, <1>3, <1>6, <2>1, <2>2 DEF TypeOK, Address, Sector, CommandSets
<1>7. ASSUME pc' \notin {"erase", "write"}, rc' # "ERR_OK"
      PROVE  (Burning /\ Writing /\ BlankAhead /\ WrittenBehind /\ DoneIsIdle /\ WrittenMeansThere)'
  BY <1>7 DEF Burning, Writing, BlankAhead, WrittenBehind, DoneIsIdle, WrittenMeansThere
<1>8. CASE \E why \in {"undetected", "offset", "too big"} : Finish(why)
  <2>1. Typed
    <3>1. sect' = 0 /\ last' = 0 /\ wp' = 0 /\ cnt' = 0 /\ pc' = "idle"
      BY <1>8 DEF Finish
    <3>2. Len(Start) \in Nat /\ Size \in Nat
      BY Layout, GeometryAssumption
    <3> QED BY <3>1, <3>2
  <2>2. pc' \notin {"erase", "write"} /\ rc' # "ERR_OK"
    BY <1>8 DEF Finish
  <2> QED BY <1>4, <1>6, <1>7, <2>1, <2>2 DEF IInv
<1>9. CASE \E how \in {"overrun", "crashed"} : Stop(how)
  <2>1. Typed
    BY <1>0, <1>9 DEF Stop, TypeOK
  <2>2. pc' \notin {"erase", "write"} /\ rc' # "ERR_OK"
    BY <1>9 DEF Stop
  <2> QED BY <1>4, <1>6, <1>7, <2>1, <2>2 DEF IInv
<1>10. CASE /\ n # 0 /\ Fits(off, n) /\ pc' = "erase"
            /\ sect' = SectorOf(off) /\ last' = LastSector(off, n)
            /\ rc' = "none" /\ UNCHANGED <<wp, cnt>>
  <2>1. off \in Address /\ off + n <= Size
    BY <1>1, <1>10, GeometryAssumption DEF Fits, Address
  <2>2. sect' \in Sector /\ last' \in Sector /\ sect' <= last' /\ sect' \in Nat /\ last' \in Nat
    BY <1>1, <1>10, <2>1, SectorOfAddress, LastSectorOf, Layout
  <2>3. Typed
    BY <1>0, <1>10, <2>2, Layout DEF TypeOK, Sector
  <2>4. Burning'
    BY <1>1, <1>10, <2>1, <2>2 DEF Burning, LastSector, SectorOf, SectorEnd, Sector
  <2>5. BlankAhead'
    <3>1. \A a \in Address : SectorOf(a) \notin SectorOf(off) .. sect' - 1
      BY <1>10, <2>2
    <3> QED BY <1>1, <3>1 DEF BlankAhead, SectorOf, SectorEnd, Sector, Address
  <2>6. (Writing /\ WrittenBehind /\ DoneIsIdle /\ WrittenMeansThere)'
    BY <1>10 DEF Writing, WrittenBehind, DoneIsIdle, WrittenMeansThere
  <2> QED BY <1>4, <1>6, <2>3, <2>4, <2>5, <2>6 DEF IInv
<1> HIDE DEF Typed
<1> QED BY <1>5, <1>8, <1>9, <1>10


-----------------------------------------------------------------------------
(* Steps of a burn *)

\* The sectors from the image's first to its last are those it overlaps.
LEMMA SectorsOfImage ==
  ASSUME offset \in Nat, imageSize \in Nat \ {0}, offset + imageSize <= Size
  PROVE  /\ SectorOf(offset) \in Nat /\ LastSector(offset, imageSize) \in Sector
         /\ \A s \in SectorOf(offset) .. LastSector(offset, imageSize) : s \in Sector /\ Overlaps(s)
         /\ \A a \in Address : offset <= a /\ a < offset + imageSize =>
              /\ SectorOf(a) \in SectorOf(offset) .. LastSector(offset, imageSize)
              /\ Overlaps(SectorOf(a))
<1> DEFINE first == SectorOf(offset)
           final == LastSector(offset, imageSize)
<1>1. offset \in Address /\ Size \in Nat
  BY GeometryAssumption DEF Address
<1>2. /\ first \in Sector /\ first \in Nat /\ Start[first] \in Nat /\ SectorEnd(first) \in Nat
      /\ Start[first] <= offset /\ offset < SectorEnd(first)
  BY <1>1, SectorOfAddress, Layout
<1>3. /\ final \in Sector /\ final \in Nat /\ Start[final] \in Nat /\ SectorEnd(final) \in Nat
      /\ Start[final] < offset + imageSize /\ offset + imageSize <= SectorEnd(final)
  BY LastSectorOf, Layout
<1> HIDE DEF first, final
<1>4. ASSUME NEW s \in first .. final PROVE s \in Sector /\ Overlaps(s)
  <2>1. s \in Sector /\ s \in Nat /\ Start[s] \in Nat /\ SectorEnd(s) \in Nat
    BY <1>2, <1>3, <1>4, Layout DEF Sector
  <2>2. s = first \/ (SectorEnd(first) <= Start[s] /\ Start[s] < SectorEnd(s))
    BY <1>2, <1>4, <2>1, Layout
  <2>3. s = final \/ (SectorEnd(s) <= Start[final] /\ Start[s] < SectorEnd(s))
    BY <1>3, <1>4, <2>1, Layout
  <2>4. offset < SectorEnd(s)
    BY <1>2, <2>1, <2>2
  <2>5. offset + imageSize - 1 >= Start[s]
    BY <1>3, <2>1, <2>3
  <2> QED BY <2>1, <2>4, <2>5 DEF Overlaps
<1>5. ASSUME NEW a \in Address, offset <= a, a < offset + imageSize
      PROVE  SectorOf(a) \in first .. final
  <2>1. PICK t \in Sector : t = SectorOf(a) /\ Start[t] <= a /\ a < SectorEnd(t)
    BY SectorOfAddress
  <2>2. t \in Nat /\ Start[t] \in Nat /\ SectorEnd(t) \in Nat /\ a \in Nat
    BY <1>1, Layout DEF Address
  <2>3. ~ (t < first)
    <3>1. t < first => SectorEnd(t) <= Start[first]
      BY <1>2, Layout
    <3> QED BY <1>2, <1>5, <2>1, <2>2, <3>1
  <2>4. ~ (final < t)
    <3>1. final < t => SectorEnd(final) <= Start[t]
      BY <1>3, Layout
    <3> QED BY <1>3, <1>5, <2>1, <2>2, <3>1
  <2> QED BY <1>2, <1>3, <2>1, <2>2, <2>3, <2>4
<1> QED BY <1>2, <1>3, <1>4, <1>5 DEF first, final

\* A step that leaves bytes as they are, blanks them or puts image bytes keeps the types.
LEMMA TypedStep ==
  ASSUME TypeOK, UNCHANGED <<chip, info, srcSize, image, offset, imageSize>>,
         DOMAIN flash' = Address,
         \A a \in Address : \/ flash'[a] = flash[a] \/ flash'[a] = Erased
                            \/ \E n \in 1 .. MaxImages, k \in Address : flash'[a] = Byte(n, k),
         pc' \in {"idle", "erase", "write", "overrun", "crashed", "hung"},
         sect' \in 0 .. Len(Start) + 1, last' \in 0 .. Len(Start),
         wp' \in 0 .. Size, cnt' \in Nat
  PROVE  TypeOK'
<1>1. \A a \in Address : \/ flash'[a] \in {Erased, Old, Mixed}
                         \/ \E n \in 1 .. MaxImages, k \in Address : flash'[a] = Byte(n, k)
  <2> SUFFICES ASSUME NEW a \in Address
               PROVE  \/ flash'[a] \in {Erased, Old, Mixed}
                      \/ \E n \in 1 .. MaxImages, k \in Address : flash'[a] = Byte(n, k)
    OBVIOUS
  <2>1. CASE flash'[a] = flash[a]
    BY <2>1 DEF TypeOK
  <2> QED BY <2>1
<1>2. /\ vendor' \in CommandSets /\ portOk' \in BOOLEAN /\ known' \in BOOLEAN
      /\ buffer' \in Nat /\ protect' \subseteq Sector /\ srcSize' \in Nat
      /\ image' \in 0 .. MaxImages /\ offset' \in Offsets \cup {0} /\ imageSize' \in Sizes \cup {0}
  BY DEF TypeOK, info
<1> QED BY <1>1, <1>2 DEF TypeOK, Address, Sector, CommandSets

LEMMA EraseSectorInv == ASSUME IInv, EraseSector PROVE IInv'
<1>1. TypeOK /\ LocksTrue /\ Burning /\ BlankAhead /\ NothingMixed
  BY DEF IInv
<1>2. /\ pc = "erase" /\ sect <= last /\ portOk /\ sect' = sect + 1
      /\ UNCHANGED <<chip, info, srcSize, image, offset, imageSize, pc, last, wp, cnt, rc>>
  BY DEF EraseSector
<1>3. /\ image \in 1 .. MaxImages /\ rc = "none" /\ offset \in Nat /\ imageSize \in Nat \ {0}
      /\ offset + imageSize <= Size /\ last = LastSector(offset, imageSize)
      /\ sect \in SectorOf(offset) .. last + 1
  BY <1>1, <1>2 DEF Burning
<1>4. sect \in Sector /\ last \in Sector /\ sect \in Nat /\ last \in Nat /\ SectorOf(offset) \in Nat
  <2>1. SectorOf(offset) \in Nat /\ last \in Sector /\ last \in Nat
    BY <1>3, SectorsOfImage, Layout
  <2>2. sect \in SectorOf(offset) .. last
    BY <1>2, <1>3, <2>1
  <2> QED BY <1>3, <2>1, <2>2, SectorsOfImage
<1>5. DOMAIN flash' = Address
  BY <1>1 DEF EraseSector, EraseCommand, Wiped, TypeOK
<1>6. \A a \in Address : /\ flash'[a] \in {flash[a], Erased}
                         /\ SectorOf(a) = sect /\ Unlocked(a) => flash'[a] = Erased
  BY <1>1 DEF EraseSector, EraseCommand, Wiped, LocksTrue, Unlocked
<1>7. TypeOK'
  <2>1. sect' \in 0 .. Len(Start) + 1
    BY <1>2, <1>4, Layout DEF Sector
  <2>2. /\ pc' \in {"idle", "erase", "write", "overrun", "crashed", "hung"}
        /\ last' \in 0 .. Len(Start) /\ wp' \in 0 .. Size /\ cnt' \in Nat
    BY <1>1, <1>2 DEF TypeOK
  <2> QED BY <1>1, <1>2, <1>5, <1>6, <2>1, <2>2, TypedStep
<1>8. LocksTrue'
  BY <1>1, <1>2 DEF LocksTrue, info
<1>9. Burning'
  <2>1. sect' \in SectorOf(offset) .. last + 1
    BY <1>2, <1>3, <1>4
  <2> QED BY <1>2, <1>3, <2>1 DEF Burning, LastSector, SectorOf, SectorEnd, Sector
<1>10. BlankAhead'
  <2>1. ASSUME NEW a \in Address, SectorOf(a) \in SectorOf(offset) .. sect, Unlocked(a)
        PROVE  flash'[a] = Erased
    <3>1. SectorOf(a) = sect \/ SectorOf(a) \in SectorOf(offset) .. sect - 1
      BY <1>4, <2>1
    <3>2. CASE SectorOf(a) = sect
      BY <1>6, <2>1, <3>2
    <3>3. CASE SectorOf(a) \in SectorOf(offset) .. sect - 1
      BY <1>1, <1>2, <1>6, <2>1, <3>3 DEF BlankAhead
    <3> QED BY <3>1, <3>2, <3>3
  <2>2. sect' - 1 = sect /\ chip' = chip /\ offset' = offset
    BY <1>2, <1>4
  <2> QED BY <2>1, <2>2 DEF BlankAhead, Unlocked, SectorOf, SectorEnd, Sector, Address
<1>11. NothingMixed'
  BY <1>1, <1>6, BytesDiffer DEF NothingMixed, Address
<1>12. (Writing /\ WrittenBehind /\ DoneIsIdle /\ WrittenMeansThere)'
  BY <1>2, <1>3 DEF Writing, WrittenBehind, DoneIsIdle, WrittenMeansThere
<1> QED BY <1>7, <1>8, <1>9, <1>10, <1>11, <1>12 DEF IInv

\* Without a width the driver knows, nothing reaches the chip.
LEMMA EraseBlindlyInv == ASSUME IInv, EraseBlindly PROVE IInv'
<1>1. TypeOK /\ LocksTrue /\ Burning /\ NothingMixed
  BY DEF IInv
<1>2. /\ pc = "erase" /\ sect <= last /\ ~portOk /\ flash' = flash
      /\ UNCHANGED <<chip, info, srcSize, image, offset, imageSize>>
      /\ \/ sect' = sect + 1 /\ UNCHANGED <<pc, last, wp, cnt, rc>>
         \/ Stop("hung") \/ Stop("crashed")
  BY DEF EraseBlindly
<1>3. /\ image \in 1 .. MaxImages /\ rc = "none" /\ offset \in Nat /\ imageSize \in Nat \ {0}
      /\ offset + imageSize <= Size /\ last = LastSector(offset, imageSize)
      /\ sect \in SectorOf(offset) .. last + 1
  BY <1>1, <1>2 DEF Burning
<1>4. last \in Sector /\ last \in Nat /\ SectorOf(offset) \in Nat
  BY <1>3, SectorsOfImage, Layout
<1>5. /\ sect' \in 0 .. Len(Start) + 1 /\ last' = last /\ wp' = wp /\ cnt' = cnt
      /\ pc' \in {"erase", "hung", "crashed"} /\ rc' = "none" /\ ~portOk'
      /\ pc' = "erase" => sect' = sect + 1
  <2>1. CASE sect' = sect + 1 /\ UNCHANGED <<pc, last, wp, cnt, rc>>
    BY <1>2, <1>3, <1>4, <2>1, Layout DEF Sector, info
  <2>2. CASE Stop("hung") \/ Stop("crashed")
    BY <1>1, <1>2, <2>2 DEF Stop, TypeOK, info
  <2> QED BY <1>2, <2>1, <2>2
<1>6. TypeOK'
  <2>1. last \in 0 .. Len(Start) /\ wp \in 0 .. Size /\ cnt \in Nat /\ DOMAIN flash = Address
    BY <1>1 DEF TypeOK
  <2> QED BY <1>1, <1>2, <1>5, <2>1, TypedStep
<1>7. LocksTrue' /\ NothingMixed'
  BY <1>1, <1>2 DEF LocksTrue, NothingMixed, info
<1>8. Burning'
  <2>1. pc' = "erase" => sect' \in SectorOf(offset) .. last + 1
    BY <1>2, <1>3, <1>4, <1>5
  <2> QED BY <1>2, <1>3, <1>5, <2>1 DEF Burning, LastSector, SectorOf, SectorEnd, Sector
<1>9. (Writing /\ BlankAhead /\ WrittenBehind /\ DoneIsIdle /\ WrittenMeansThere)'
  BY <1>5 DEF Writing, BlankAhead, WrittenBehind, DoneIsIdle, WrittenMeansThere
<1> QED BY <1>6, <1>7, <1>8, <1>9 DEF IInv


LEMMA WriteBeginInv == ASSUME IInv, WriteBegin PROVE IInv'
<1>1. TypeOK /\ LocksTrue /\ Burning /\ BlankAhead /\ NothingMixed
  BY DEF IInv
<1>2. /\ pc = "erase" /\ sect > last /\ UNCHANGED <<flash, chip, info, srcSize, image, offset, imageSize>>
      /\ \/ /\ Writable /\ pc' = "write" /\ wp' = offset /\ cnt' = imageSize
            /\ UNCHANGED <<sect, last, rc>>
         \/ Finish("ERR_PROTECTED")
  BY DEF WriteBegin
<1>3. /\ image \in 1 .. MaxImages /\ rc = "none" /\ offset \in Nat /\ imageSize \in Nat \ {0}
      /\ offset + imageSize <= Size /\ last = LastSector(offset, imageSize)
      /\ sect \in SectorOf(offset) .. last + 1
  BY <1>1, <1>2 DEF Burning
<1>4. /\ last \in Sector /\ last \in Nat /\ SectorOf(offset) \in Nat /\ sect = last + 1
      /\ Size \in Nat /\ Len(Start) \in Nat
  <2>1. last \in Sector /\ last \in Nat /\ SectorOf(offset) \in Nat
    BY <1>3, SectorsOfImage, Layout
  <2> QED BY <1>2, <1>3, <2>1, Layout, GeometryAssumption
<1>5. LocksTrue' /\ NothingMixed'
  BY <1>1, <1>2 DEF LocksTrue, NothingMixed, info
<1>6. CASE Finish("ERR_PROTECTED")
  <2>1. sect' = 0 /\ last' = 0 /\ wp' = 0 /\ cnt' = 0 /\ pc' = "idle" /\ rc' = "ERR_PROTECTED"
    BY <1>6 DEF Finish
  <2>2. TypeOK'
    <3>1. DOMAIN flash = Address
      BY <1>1 DEF TypeOK
    <3> QED BY <1>1, <1>2, <1>4, <2>1, <3>1, TypedStep
  <2>3. (Burning /\ Writing /\ BlankAhead /\ WrittenBehind /\ DoneIsIdle /\ WrittenMeansThere)'
    BY <2>1 DEF Burning, Writing, BlankAhead, WrittenBehind, DoneIsIdle, WrittenMeansThere
  <2> QED BY <1>5, <2>2, <2>3 DEF IInv
<1>7. CASE /\ Writable /\ pc' = "write" /\ wp' = offset /\ cnt' = imageSize
           /\ UNCHANGED <<sect, last, rc>>
  <2>1. TypeOK'
    <3>1. DOMAIN flash = Address /\ sect \in 0 .. Len(Start) + 1 /\ last \in 0 .. Len(Start)
      BY <1>1 DEF TypeOK
    <3>2. wp' \in 0 .. Size /\ cnt' \in Nat
      BY <1>3, <1>4, <1>7
    <3> QED BY <1>1, <1>2, <1>7, <3>1, <3>2, TypedStep
  <2>2. Burning'
    BY <1>2, <1>3, <1>7 DEF Burning, LastSector, SectorOf, SectorEnd, Sector
  <2>3. Writing'
    BY <1>2, <1>3, <1>4, <1>7 DEF Writing, Writable, Overlaps, SectorEnd, info
  <2>4. BlankAhead'
    BY <1>1, <1>2, <1>7 DEF BlankAhead, Unlocked, SectorOf, SectorEnd, Sector, Address, info
  <2>5. WrittenBehind'
    <3>1. offset' = offset /\ wp' = offset
      BY <1>2, <1>7
    <3> QED BY <1>3, <3>1, GeometryAssumption DEF WrittenBehind, Address
  <2>6. (DoneIsIdle /\ WrittenMeansThere)'
    BY <1>3, <1>7 DEF DoneIsIdle, WrittenMeansThere
  <2> QED BY <1>5, <2>1, <2>2, <2>3, <2>4, <2>5, <2>6 DEF IInv
<1> QED BY <1>2, <1>6, <1>7

LEMMA WriteBlindlyInv == ASSUME IInv, WriteBlindly PROVE IInv'
<1>1. TypeOK /\ LocksTrue /\ NothingMixed
  BY DEF IInv
<1>2. /\ UNCHANGED <<flash, chip, info, srcSize, image, offset, imageSize>>
      /\ sect' = 0 /\ last' = 0 /\ wp' = 0 /\ cnt' = 0 /\ pc' = "idle" /\ rc' = "ERR_NOT_ERASED"
  BY DEF WriteBlindly, Finish
<1>3. TypeOK'
  <2>1. DOMAIN flash = Address /\ Size \in Nat /\ Len(Start) \in Nat
    BY <1>1, Layout, GeometryAssumption DEF TypeOK
  <2> QED BY <1>1, <1>2, <2>1, TypedStep
<1>4. LocksTrue' /\ NothingMixed'
  BY <1>1, <1>2 DEF LocksTrue, NothingMixed, info
<1>5. (Burning /\ Writing /\ BlankAhead /\ WrittenBehind /\ DoneIsIdle /\ WrittenMeansThere)'
  BY <1>2 DEF Burning, Writing, BlankAhead, WrittenBehind, DoneIsIdle, WrittenMeansThere
<1> QED BY <1>3, <1>4, <1>5 DEF IInv

\* What a write has to work with.
LEMMA WhileWriting ==
  ASSUME IInv, pc = "write"
  PROVE  /\ image \in 1 .. MaxImages /\ rc = "none" /\ offset \in Nat /\ imageSize \in Nat \ {0}
         /\ offset + imageSize <= Size /\ Size \in Nat /\ last = LastSector(offset, imageSize)
         /\ last \in Sector /\ last \in Nat /\ SectorOf(offset) \in Nat
         /\ sect = last + 1 /\ sect \in SectorOf(offset) .. last + 1
         /\ wp \in Nat /\ cnt \in Nat /\ offset <= wp /\ wp + cnt = offset + imageSize
         /\ Writable /\ protect \subseteq chip.locked /\ chip.locked \subseteq Sector
<1>1. TypeOK /\ LocksTrue /\ Burning /\ Writing
  BY DEF IInv
<1>2. /\ image \in 1 .. MaxImages /\ rc = "none" /\ offset \in Nat /\ imageSize \in Nat \ {0}
      /\ offset + imageSize <= Size /\ last = LastSector(offset, imageSize)
      /\ sect \in SectorOf(offset) .. last + 1
  BY <1>1 DEF Burning
<1>3. last \in Sector /\ last \in Nat /\ SectorOf(offset) \in Nat /\ Size \in Nat
  BY <1>2, SectorsOfImage, Layout, GeometryAssumption
<1>4. /\ sect = last + 1 /\ wp \in Nat /\ cnt \in Nat /\ offset <= wp
      /\ wp + cnt = offset + imageSize /\ Writable
  BY <1>1 DEF Writing, TypeOK
<1>5. protect \subseteq chip.locked /\ chip.locked \subseteq Sector
  BY <1>1 DEF LocksTrue
<1> QED BY <1>2, <1>3, <1>4, <1>5

\* Programming the next n bytes of the image puts them there, but for locked sectors.
LEMMA Programming ==
  ASSUME IInv, pc = "write", portOk, NEW n \in Nat, n <= cnt, flash' = Programmed(n)
  PROVE  /\ DOMAIN flash' = Address
         /\ \A a \in Address :
              IF a < wp \/ a >= wp + n \/ ~ Unlocked(a) THEN flash'[a] = flash[a]
              ELSE flash'[a] = Byte(image, a - offset) /\ a - offset \in Address
<1>1. /\ offset \in Nat /\ imageSize \in Nat \ {0} /\ offset + imageSize <= Size
      /\ last = LastSector(offset, imageSize) /\ sect = last + 1 /\ last \in Nat
      /\ SectorOf(offset) \in Nat
      /\ wp \in Nat /\ cnt \in Nat /\ offset <= wp /\ wp + cnt = offset + imageSize /\ Size \in Nat
  BY WhileWriting
<1>2. ASSUME NEW a \in Address, wp <= a, a < wp + n, Unlocked(a)
      PROVE  flash[a] = Erased /\ a - offset \in Address
  <2>1. a \in Nat /\ a - offset \in Address /\ offset <= a /\ a < offset + imageSize
    BY <1>1, <1>2 DEF Address
  <2>2. SectorOf(a) \in SectorOf(offset) .. sect - 1
    BY <1>1, <2>1, SectorsOfImage
  <2> QED BY <1>2, <2>1, <2>2 DEF BlankAhead, IInv
<1>3. DOMAIN flash' = Address
  BY DEF Programmed
<1>4. ASSUME NEW a \in Address
      PROVE  flash'[a] = IF a < wp \/ a >= wp + n \/ ~ Unlocked(a) THEN flash[a]
                         ELSE IF flash[a] = Erased THEN Byte(image, a - offset) ELSE Mixed
  BY DEF Programmed, Unlocked
<1>5. \A a \in Address : a \in Nat
  BY <1>1 DEF Address
<1> QED BY <1>1, <1>2, <1>3, <1>4, <1>5

\* A write is of bytes that are left.
LEMMA ChunkBounded ==
  ASSUME IInv, pc = "write", cnt >= 2
  PROVE  Chunk \in Nat /\ Chunk <= cnt
<1>1. cnt \in Nat /\ wp \in Nat /\ buffer \in Nat
  BY WhileWriting DEF IInv, TypeOK
<1>2. CASE buffer <= 1
  BY <1>1, <1>2 DEF Chunk
<1>3. CASE buffer > 1
  <2> DEFINE n == IF cnt < buffer - (wp % buffer) THEN cnt ELSE buffer - (wp % buffer)
  <2>1. wp % buffer \in 0 .. buffer - 1
    BY <1>1, <1>3
  <2>2. n \in Nat /\ n <= cnt
    BY <1>1, <1>3, <2>1
  <2>3. Chunk = n - (n % 2)
    BY <1>1, <1>3 DEF Chunk
  <2> HIDE DEF n
  <2>4. n - (n % 2) \in Nat /\ n - (n % 2) <= n
    BY <2>2
  <2> QED BY <1>1, <2>2, <2>3, <2>4
<1> QED BY <1>1, <1>2, <1>3

LEMMA WriteChunkInv == ASSUME IInv, WriteChunk PROVE IInv'
<1>1. TypeOK /\ LocksTrue /\ BlankAhead /\ WrittenBehind /\ NothingMixed
  BY DEF IInv
<1>2. /\ pc = "write" /\ portOk /\ cnt >= 2 /\ flash' = Programmed(Chunk)
      /\ wp' = wp + Chunk /\ cnt' = cnt - Chunk
      /\ UNCHANGED <<chip, info, srcSize, image, offset, imageSize, pc, sect, last, rc>>
  BY DEF WriteChunk
<1>3. Chunk \in Nat /\ Chunk <= cnt
  BY <1>2, ChunkBounded
<1>4. /\ image \in 1 .. MaxImages /\ rc = "none" /\ offset \in Nat /\ imageSize \in Nat \ {0}
      /\ offset + imageSize <= Size /\ Size \in Nat /\ last = LastSector(offset, imageSize)
      /\ sect = last + 1 /\ sect \in SectorOf(offset) .. last + 1 /\ last \in Nat
      /\ SectorOf(offset) \in Nat
      /\ wp \in Nat /\ cnt \in Nat /\ offset <= wp /\ wp + cnt = offset + imageSize /\ Writable
  BY <1>2, WhileWriting
<1>5. /\ DOMAIN flash' = Address
      /\ \A a \in Address :
           IF a < wp \/ a >= wp + Chunk \/ ~ Unlocked(a) THEN flash'[a] = flash[a]
           ELSE flash'[a] = Byte(image, a - offset) /\ a - offset \in Address
  BY <1>2, <1>3, Programming
<1>6. wp' \in Nat /\ cnt' \in Nat /\ offset <= wp' /\ wp' + cnt' = offset + imageSize /\ wp' <= Size
  BY <1>2, <1>3, <1>4
<1>7. \A a \in Address : a \in Nat
  BY <1>4 DEF Address
<1>8. TypeOK'
  <2>1. /\ sect \in 0 .. Len(Start) + 1 /\ last \in 0 .. Len(Start)
        /\ pc \in {"idle", "erase", "write", "overrun", "crashed", "hung"}
    BY <1>1 DEF TypeOK
  <2>2. \A a \in Address : \/ flash'[a] = flash[a] \/ flash'[a] = Erased
                           \/ \E n \in 1 .. MaxImages, k \in Address : flash'[a] = Byte(n, k)
    BY <1>4, <1>5
  <2>3. wp' \in 0 .. Size
    BY <1>4, <1>6
  <2> QED BY <1>1, <1>2, <1>5, <1>6, <2>1, <2>2, <2>3, TypedStep
<1>9. LocksTrue'
  BY <1>1, <1>2 DEF LocksTrue, info
<1>10. Burning'
  BY <1>2, <1>4 DEF Burning, LastSector, SectorOf, SectorEnd, Sector
<1>11. Writing'
  BY <1>2, <1>4, <1>6 DEF Writing, Writable, Overlaps, SectorEnd, info
<1>12. BlankAhead'
  <2>1. ASSUME NEW a \in Address, SectorOf(a) \in SectorOf(offset) .. sect - 1, Unlocked(a), wp' <= a
        PROVE  flash'[a] = Erased
    <3>1. wp <= a /\ a >= wp + Chunk
      BY <1>2, <1>3, <1>4, <1>7, <2>1
    <3>2. flash'[a] = flash[a]
      BY <1>5, <3>1
    <3> QED BY <1>1, <1>2, <2>1, <3>1, <3>2 DEF BlankAhead
  <2> QED BY <1>2, <2>1 DEF BlankAhead, Unlocked, SectorOf, SectorEnd, Sector, Address
<1>13. WrittenBehind'
  <2>1. ASSUME NEW a \in Address, offset <= a, a < wp', Unlocked(a)
        PROVE  flash'[a] = Byte(image, a - offset)
    <3>1. CASE a < wp
      BY <1>1, <1>2, <1>5, <2>1, <3>1 DEF WrittenBehind
    <3>2. CASE ~ (a < wp)
      <4>1. ~ (a < wp \/ a >= wp + Chunk \/ ~ Unlocked(a))
        BY <1>2, <1>3, <1>4, <1>7, <2>1, <3>2
      <4> QED BY <1>5, <4>1
    <3> QED BY <3>1, <3>2
  <2> QED BY <1>2, <2>1 DEF WrittenBehind, Unlocked, SectorOf, SectorEnd, Sector, Address
<1>14. NothingMixed'
  BY <1>1, <1>5, BytesDiffer DEF NothingMixed, Address
<1>15. (DoneIsIdle /\ WrittenMeansThere)'
  BY <1>2, <1>4 DEF DoneIsIdle, WrittenMeansThere
<1> QED BY <1>8, <1>9, <1>10, <1>11, <1>12, <1>13, <1>14, <1>15 DEF IInv


LEMMA WriteTailInv == ASSUME IInv, WriteTail PROVE IInv'
<1>1. TypeOK /\ LocksTrue /\ BlankAhead /\ WrittenBehind /\ NothingMixed
  BY DEF IInv
<1>2. /\ pc = "write" /\ portOk /\ cnt < 2 /\ flash' = Programmed(cnt)
      /\ UNCHANGED <<chip, info, srcSize, image, offset, imageSize>>
      /\ sect' = 0 /\ last' = 0 /\ wp' = 0 /\ cnt' = 0 /\ pc' = "idle" /\ rc' = "ERR_OK"
  BY DEF WriteTail, Finish
<1>3. /\ image \in 1 .. MaxImages /\ offset \in Nat /\ imageSize \in Nat \ {0}
      /\ offset + imageSize <= Size /\ Size \in Nat /\ last = LastSector(offset, imageSize)
      /\ last \in Sector /\ last \in Nat /\ SectorOf(offset) \in Nat /\ sect = last + 1
      /\ sect \in SectorOf(offset) .. last + 1
      /\ wp \in Nat /\ cnt \in Nat /\ offset <= wp /\ wp + cnt = offset + imageSize /\ Writable
      /\ chip.locked \subseteq Sector
  BY <1>2, WhileWriting
<1>4. /\ DOMAIN flash' = Address
      /\ \A a \in Address :
           IF a < wp \/ a >= wp + cnt \/ ~ Unlocked(a) THEN flash'[a] = flash[a]
           ELSE flash'[a] = Byte(image, a - offset) /\ a - offset \in Address
  BY <1>2, <1>3, Programming
<1>5. \A a \in Address : a \in Nat
  BY <1>3 DEF Address
<1>6. TypeOK'
  <2>1. \A a \in Address : \/ flash'[a] = flash[a] \/ flash'[a] = Erased
                           \/ \E n \in 1 .. MaxImages, k \in Address : flash'[a] = Byte(n, k)
    BY <1>3, <1>4
  <2> QED BY <1>1, <1>2, <1>3, <1>4, <2>1, Layout, TypedStep
<1>7. LocksTrue'
  BY <1>1, <1>2 DEF LocksTrue, info
<1>8. NothingMixed'
  BY <1>1, <1>4, BytesDiffer DEF NothingMixed, Address
<1>9. (Burning /\ Writing /\ BlankAhead /\ WrittenBehind /\ DoneIsIdle)'
  BY <1>2 DEF Burning, Writing, BlankAhead, WrittenBehind, DoneIsIdle
<1>10. ASSUME \A s \in chip.locked \ protect : ~ Overlaps(s)
       PROVE  /\ \A k \in 0 .. imageSize - 1 : flash'[offset + k] = Byte(image, k)
              /\ \A a \in offset + imageSize .. SectorEnd(LastSector(offset, imageSize)) - 1 :
                   flash'[a] = Erased
  <2>1. ASSUME NEW a \in Address, Overlaps(SectorOf(a)) PROVE Unlocked(a)
    BY <1>3, <1>10, <2>1 DEF Writable, Unlocked
  <2>2. ASSUME NEW k \in 0 .. imageSize - 1 PROVE flash'[offset + k] = Byte(image, k)
    <3>1. /\ offset + k \in Address /\ offset <= offset + k /\ offset + k < offset + imageSize
          /\ (offset + k) - offset = k
      BY <1>3 DEF Address
    <3>2. Unlocked(offset + k)
      BY <1>3, <2>1, <3>1, SectorsOfImage
    <3>3. CASE offset + k < wp
      <4>1. flash[offset + k] = Byte(image, k)
        BY <1>1, <1>2, <3>1, <3>2, <3>3 DEF WrittenBehind
      <4> QED BY <1>4, <3>1, <3>3, <4>1
    <3>4. CASE ~ (offset + k < wp)
      <4>1. ~ (offset + k >= wp + cnt)
        BY <1>3
      <4> QED BY <1>4, <3>1, <3>2, <3>4, <4>1
    <3> QED BY <3>3, <3>4
  <2>3. ASSUME NEW a \in offset + imageSize .. SectorEnd(last) - 1 PROVE flash'[a] = Erased
    <3>1. /\ Start[last] \in Nat /\ SectorEnd(last) \in Nat /\ SectorEnd(last) <= Size
          /\ Start[last] < offset + imageSize /\ SectorOf(offset) <= last
      BY <1>3, Layout, LastSectorOf
    <3>2. a \in Address /\ Start[last] <= a /\ a < SectorEnd(last) /\ a >= wp + cnt
      BY <1>3, <3>1 DEF Address
    <3>3. SectorOf(a) = last
      BY <1>3, <3>2, SectorUnique
    <3>4. Overlaps(last) /\ last \in SectorOf(offset) .. sect - 1
      BY <1>3, <3>1, SectorsOfImage
    <3>5. Unlocked(a) /\ wp <= a
      BY <1>3, <2>1, <3>1, <3>2, <3>3, <3>4
    <3>6. flash[a] = Erased
      BY <1>1, <1>2, <3>2, <3>3, <3>4, <3>5 DEF BlankAhead
    <3> QED BY <1>4, <3>2, <3>6
  <2> QED BY <1>3, <2>2, <2>3
<1>11. WrittenMeansThere'
  <2>1. /\ chip' = chip /\ protect' = protect /\ offset' = offset /\ imageSize' = imageSize
        /\ image' = image
    BY <1>2 DEF info
  <2> QED BY <1>10, <2>1 DEF WrittenMeansThere, Overlaps, LastSector, SectorEnd, Sector
<1> QED BY <1>6, <1>7, <1>8, <1>9, <1>11 DEF IInv

LEMMA NextInv == ASSUME IInv, [Next]_vars PROVE IInv'
<1>1. CASE UNCHANGED vars
  <2> USE <1>1 DEF vars, info
  <2>1. TypeOK'
    BY DEF IInv, TypeOK, Sector, Address
  <2>2. LocksTrue' /\ DoneIsIdle' /\ NothingMixed'
    BY DEF IInv, LocksTrue, DoneIsIdle, NothingMixed, Sector, Address
  <2>3. Burning'
    BY DEF IInv, Burning, LastSector, SectorOf, SectorEnd, Sector
  <2>4. Writing'
    BY DEF IInv, Writing, Writable, Overlaps, SectorEnd
  <2>5. BlankAhead' /\ WrittenBehind'
    BY DEF IInv, BlankAhead, WrittenBehind, Unlocked, SectorOf, SectorEnd, Sector, Address
  <2>6. WrittenMeansThere'
    BY DEF IInv, WrittenMeansThere, Overlaps, LastSector, SectorEnd, Sector
  <2> QED BY <2>1, <2>2, <2>3, <2>4, <2>5, <2>6 DEF IInv
<1>2. CASE \E off \in Offsets, n \in Sizes : Request(off, n)
  BY <1>2, RequestInv
<1> QED BY <1>1, <1>2, EraseSectorInv, EraseBlindlyInv, WriteBeginInv, WriteChunkInv,
           WriteTailInv, WriteBlindlyInv DEF Next

THEOREM Invariance == Spec => []IInv
<1>1. IInv /\ [Next]_vars => IInv'
  BY NextInv
<1> QED BY <1>1, InitInv, PTL DEF Spec

\* What the burn relies on holds in every state: types, the loop's bounds.
THEOREM TypeCorrect == Spec => []TypeOK
<1>1. IInv => TypeOK
  BY DEF IInv
<1> QED BY <1>1, Invariance, PTL

\* No byte of an image is programmed over one that was not blank, for every layout
\* of sectors, write buffer, order of images and state of the driver.
THEOREM BlankProgramming == Spec => []NothingMixed
<1>1. IInv => NothingMixed
  BY DEF IInv
<1> QED BY <1>1, Invariance, PTL

\* What flash_write reports as written is on the chip, whole, with the rest of the
\* last sector blank, unless a sector is locked that the driver does not know of.
THEOREM ReportsAreTrue == Spec => []WrittenMeansThere
<1>1. IInv => WrittenMeansThere
  BY DEF IInv
<1> QED BY <1>1, Invariance, PTL


-----------------------------------------------------------------------------
(* What a step may change *)

\* The bytes a step of a burn changes: those of a sector being erased or of the next
\* write, and not of a locked sector.
LEMMA Changes ==
  ASSUME IInv, [Next]_vars, NEW a \in Address, flash'[a] # flash[a]
  PROVE  /\ pc \in {"erase", "write"} /\ Overlaps(SectorOf(a)) /\ SectorOf(a) \notin protect
         /\ pc = "write" => Writable
<1>1. LocksTrue /\ Burning
  BY DEF IInv
<1>2. EraseSector \/ WriteChunk \/ WriteTail
  BY DEF Next, Request, EraseBlindly, WriteBegin, WriteBlindly, vars
<1>3. CASE EraseSector
  <2>1. pc = "erase" /\ sect <= last /\ SectorOf(a) = sect /\ sect \notin protect
    BY <1>3 DEF EraseSector, EraseCommand, Wiped
  <2>2. /\ offset \in Nat /\ imageSize \in Nat \ {0} /\ offset + imageSize <= Size
        /\ last = LastSector(offset, imageSize) /\ sect \in SectorOf(offset) .. last + 1
    BY <1>1, <2>1 DEF Burning
  <2>3. SectorOf(offset) \in Nat /\ last \in Nat
    BY <2>2, SectorsOfImage, Layout
  <2>4. sect \in SectorOf(offset) .. last
    BY <2>1, <2>2, <2>3
  <2> QED BY <2>1, <2>2, <2>4, SectorsOfImage
<1>4. ASSUME pc = "write", portOk, NEW n \in Nat, n <= cnt, flash' = Programmed(n)
      PROVE  Overlaps(SectorOf(a)) /\ SectorOf(a) \notin protect /\ Writable
  <2>1. ~ (a < wp \/ a >= wp + n \/ ~ Unlocked(a))
    BY <1>4, Programming
  <2>2. /\ offset \in Nat /\ imageSize \in Nat \ {0} /\ offset + imageSize <= Size /\ Size \in Nat
        /\ wp \in Nat /\ cnt \in Nat /\ offset <= wp /\ wp + cnt = offset + imageSize
        /\ Writable /\ protect \subseteq chip.locked
    BY <1>4, WhileWriting
  <2>3. offset <= a /\ a < offset + imageSize
    BY <1>4, <2>1, <2>2 DEF Address
  <2> QED BY <2>1, <2>2, <2>3, SectorsOfImage DEF Unlocked
<1>5. CASE WriteChunk
  BY <1>4, <1>5, ChunkBounded DEF WriteChunk
<1>6. CASE WriteTail
  BY <1>4, <1>6, WhileWriting DEF WriteTail
<1> QED BY <1>2, <1>3, <1>5, <1>6

\* A burn changes only the sectors its image reaches into.
THEOREM OthersAreKept == Spec => OtherSectorsKept
<1>1. ASSUME IInv, [Next]_vars
      PROVE  [\A a \in Address : flash'[a] # flash[a] =>
                pc \in {"erase", "write"} /\ Overlaps(SectorOf(a))]_vars
  BY <1>1, Changes
<1> QED BY <1>1, Invariance, PTL DEF Spec, OtherSectorsKept

\* An image that reaches into a sector known to be protected is not programmed at
\* all, and such a sector is neither erased nor programmed.
THEOREM ProtectionHolds == Spec => ProtectedRefused
<1>1. ASSUME IInv, [Next]_vars
      PROVE  [\A a \in Address : flash'[a] # flash[a] =>
                SectorOf(a) \notin protect
                /\ (pc = "write" => \A s \in protect : ~ Overlaps(s))]_vars
  BY <1>1, Changes DEF Writable
<1> QED BY <1>1, Invariance, PTL DEF Spec, ProtectedRefused

\* One write stays inside one stretch of the write buffer, whatever its size.
THEOREM BuffersDoNotWrap == Spec => InsideBuffer
<1>1. ASSUME IInv, [Next]_vars, pc = "write", buffer > 1, wp' > wp
      PROVE  wp \div buffer = (wp' - 1) \div buffer
  <2>1. wp \in Nat /\ cnt \in Nat /\ buffer \in Nat
    BY <1>1, WhileWriting DEF IInv, TypeOK
  <2>2. WriteChunk
    BY <1>1, <2>1 DEF Next, Request, EraseSector, EraseBlindly, WriteBegin, WriteTail,
       WriteBlindly, Finish, vars
  <2> DEFINE n == IF cnt < buffer - (wp % buffer) THEN cnt ELSE buffer - (wp % buffer)
  <2>3. wp % buffer \in 0 .. buffer - 1
    BY <1>1, <2>1
  <2>4. n \in Nat /\ n <= buffer - (wp % buffer)
    BY <2>1, <2>3
  <2>5. wp' = wp + Chunk /\ Chunk = n - (n % 2)
    BY <1>1, <2>1, <2>2 DEF WriteChunk, Chunk
  <2> HIDE DEF n
  <2>6. n - (n % 2) \in Nat /\ n - (n % 2) <= n
    BY <2>4
  <2>7. wp' - 1 \in Nat /\ wp <= wp' - 1 /\ wp' - 1 < wp - (wp % buffer) + buffer
    BY <1>1, <2>1, <2>3, <2>4, <2>5, <2>6
  <2> QED BY <1>1, <2>1, <2>7, SameStretch
<1>2. IInv /\ [Next]_vars =>
        [pc = "write" /\ buffer > 1 /\ wp' > wp => wp \div buffer = (wp' - 1) \div buffer]_vars
  BY <1>1
<1> QED BY <1>2, Invariance, PTL DEF Spec, InsideBuffer
=============================================================================
