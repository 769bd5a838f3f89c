------------------------------ MODULE MpsseProofs ------------------------------
(***************************************************************************)
(* Proofs about the bits and bytes of a scan over the OpenJTAG: what is    *)
(* encoded asks for as many bytes as are predicted, and every movement of  *)
(* the table arrives.                                                      *)
(*                                                                         *)
(* Then what the commands of an operation do to a device, clock by clock,  *)
(* for a register of any length: a scan leaves its string in the register, *)
(* latches it and gives back what was captured.                            *)
(***************************************************************************)
EXTENDS Mpsse, WellFoundedInduction, SequenceTheorems, TLAPS

Less == {p \in Nat \X Nat : p[1] < p[2]}

LEMMA LessWellFounded == IsWellFoundedOn(Less, Nat)
<1>1. OpToRel(<, Nat) = Less
  BY DEF OpToRel, Less
<1> QED BY <1>1, NatLessThanWellFounded, Zenon

\* A set of naturals has a least member.
LEMMA Least ==
  ASSUME NEW S \in SUBSET Nat, S # {}
  PROVE  \E x \in S : \A y \in S : x <= y
<1>1. PICK x \in S : \A y \in S : ~ (<<y, x>> \in Less)
  BY LessWellFounded, WFMin
<1>2. ASSUME NEW y \in S PROVE x <= y
  <2>1. y \in Nat /\ x \in Nat
    OBVIOUS
  <2>2. y < x => <<y, x>> \in Less
    BY <2>1 DEF Less
  <2>3. ~ (y < x)
    BY <1>1, <2>2
  <2> QED BY <2>1, <2>3
<1> QED BY <1>2

\* What Clocks makes of a device, clock by clock.
Clocked(after, d, tms, tdi) ==
  /\ DOMAIN after = 0 .. Len(tms)
  /\ after[0] = d
  /\ \A k \in 1 .. Len(tms) : after[k] = Clock(after[k - 1], tms[k], tdi[k])

LEMMA ClockByClock ==
  ASSUME NEW d, NEW tms, Len(tms) \in Nat, NEW tdi
  PROVE  \E after : Clocked(after, d, tms, tdi) /\ Clocks(d, tms, tdi) = after[Len(tms)]
<1> DEFINE Step(f, k) == IF k = 0 THEN d ELSE Clock(f[k - 1], tms[k], tdi[k])
           Upto(f, n) == f = [k \in 0 .. n |-> Step(f, k)]
           Short == {n \in Nat : ~ \E f : Upto(f, n)}
<1>1. Short = {}
  <2> SUFFICES ASSUME Short # {} PROVE FALSE
    OBVIOUS
  <2>1. PICK n \in Short : \A m \in Short : n <= m
    BY Least
  <2>2. n # 0
    <3> DEFINE f == [k \in 0 .. 0 |-> d]
    <3>1. \A k \in 0 .. 0 : k = 0 /\ Step(f, k) = d
      OBVIOUS
    <3> HIDE DEF Step
    <3>2. Upto(f, 0)
      BY <3>1
    <3> QED BY <2>1, <3>2
  <2>3. n \in Nat /\ n - 1 \in Nat
    BY <2>1, <2>2
  <2>4. PICK f : Upto(f, n - 1)
    <3> HIDE DEF Upto
    <3>1. n - 1 \notin Short
      <4> HIDE DEF Short
      <4> QED BY <2>1, <2>3
    <3> QED BY <2>3, <3>1
  <2> DEFINE h == [k \in 0 .. n |-> IF k = n THEN Clock(f[n - 1], tms[n], tdi[n]) ELSE f[k]]
  <2>5. DOMAIN f = 0 .. n - 1 /\ \A k \in 0 .. n - 1 : f[k] = Step(f, k)
    BY <2>4
  <2>6. ASSUME NEW k \in 0 .. n PROVE h[k] = Step(h, k)
    <3>1. CASE k = n
      <4>1. h[n - 1] = f[n - 1] /\ h[n] = Clock(f[n - 1], tms[n], tdi[n])
        BY <2>3
      <4> HIDE DEF h
      <4> QED BY <2>2, <3>1, <4>1
    <3>2. CASE k # n /\ k = 0
      <4>1. h[k] = f[k] /\ 0 \in 0 .. n - 1
        BY <2>3, <3>2
      <4>2. f[k] = d
        BY <2>5, <3>2, <4>1
      <4> HIDE DEF h
      <4> QED BY <3>2, <4>1, <4>2
    <3>3. CASE k # n /\ k # 0
      <4>1. k \in 0 .. n - 1 /\ k - 1 \in 0 .. n - 1
        BY <3>3, <2>3
      <4>2. h[k] = f[k] /\ h[k - 1] = f[k - 1]
        BY <2>3, <4>1
      <4>3. f[k] = Clock(f[k - 1], tms[k], tdi[k])
        BY <2>5, <3>3, <4>1
      <4> HIDE DEF h
      <4> QED BY <3>3, <4>2, <4>3
    <3> QED BY <3>1, <3>2, <3>3
  <2>7. Upto(h, n)
    <3>1. h = [k \in 0 .. n |-> h[k]]
      OBVIOUS
    <3> HIDE DEF h, Step
    <3> QED BY <2>6, <3>1
  <2> QED BY <2>1, <2>7
<1>2. \E f : Upto(f, Len(tms))
  BY <1>1
<1> DEFINE after == CHOOSE f : Upto(f, Len(tms))
<1>3. Upto(after, Len(tms))
  BY <1>2
<1>4. Clocks(d, tms, tdi) = after[Len(tms)]
  BY DEF Clocks
<1> HIDE DEF after
<1>5. DOMAIN after = 0 .. Len(tms) /\ \A k \in 0 .. Len(tms) : after[k] = Step(after, k)
  BY <1>3
<1>6. Clocked(after, d, tms, tdi)
  <2>1. 0 \in 0 .. Len(tms) /\ \A k \in 1 .. Len(tms) : k \in 0 .. Len(tms) /\ k # 0
    OBVIOUS
  <2> QED BY <1>5, <2>1 DEF Clocked
<1> QED BY <1>4, <1>6

-----------------------------------------------------------------------------
(* Bytes and commands *)

Octet == [0 .. 7 -> Bit]
Command == [op : {"tms", "bytes", "bits"}, data : Seq(Octet), n : Nat, read : BOOLEAN]

\* What comes back while the commands of b are executed: n bytes.
Owed(c) == IF c.read THEN Len(c.data) ELSE 0
Owes(b, n) ==
  \E left \in [0 .. Len(b) -> Nat] :
    /\ left[0] = n /\ left[Len(b)] = 0
    /\ \A k \in 1 .. Len(b) : left[k - 1] = left[k] + Owed(b[k])

LEMMA OwedNat == \A c \in Command : Owed(c) \in Nat
BY DEF Owed, Command

LEMMA OwesNothing ==
  ASSUME NEW b \in Seq(Command), \A k \in 1 .. Len(b) : ~b[k].read
  PROVE  Owes(b, 0)
<1> DEFINE left == [k \in 0 .. Len(b) |-> 0]
<1>1. left \in [0 .. Len(b) -> Nat] /\ left[0] = 0 /\ left[Len(b)] = 0
  OBVIOUS
<1>2. \A k \in 1 .. Len(b) : left[k - 1] = left[k] + Owed(b[k])
  BY DEF Owed
<1> HIDE DEF left
<1> QED BY <1>1, <1>2 DEF Owes

LEMMA OwesOne ==
  ASSUME NEW c \in Command
  PROVE  Owes(<< c >>, Owed(c))
<1> DEFINE left == [k \in 0 .. 1 |-> IF k = 0 THEN Owed(c) ELSE 0]
<1>1. Owed(c) \in Nat
  BY OwedNat
<1>2. Len(<< c >>) = 1 /\ << c >>[1] = c
  OBVIOUS
<1>3. left \in [0 .. 1 -> Nat] /\ left[0] = Owed(c) /\ left[1] = 0
  BY <1>1
<1>4. \A k \in 1 .. 1 : left[k - 1] = left[k] + Owed(<< c >>[k])
  BY <1>1, <1>2, <1>3
<1> HIDE DEF left
<1> QED BY <1>2, <1>3, <1>4 DEF Owes

LEMMA OwesBoth ==
  ASSUME NEW a \in Seq(Command), NEW b \in Seq(Command), NEW m, NEW n, Owes(a, m), Owes(b, n)
  PROVE  a \o b \in Seq(Command) /\ Owes(a \o b, m + n) /\ m \in Nat /\ n \in Nat
<1>1. PICK f \in [0 .. Len(a) -> Nat] :
        /\ f[0] = m /\ f[Len(a)] = 0
        /\ \A k \in 1 .. Len(a) : f[k - 1] = f[k] + Owed(a[k])
  BY DEF Owes
<1>2. PICK g \in [0 .. Len(b) -> Nat] :
        /\ g[0] = n /\ g[Len(b)] = 0
        /\ \A k \in 1 .. Len(b) : g[k - 1] = g[k] + Owed(b[k])
  BY DEF Owes
<1>3. m \in Nat /\ n \in Nat /\ Len(a) \in Nat /\ Len(b) \in Nat
  <2>1. 0 \in 0 .. Len(a) /\ 0 \in 0 .. Len(b)
    OBVIOUS
  <2> QED BY <1>1, <1>2, <2>1
<1> DEFINE left == [k \in 0 .. Len(a) + Len(b) |-> IF k <= Len(a) THEN f[k] + n ELSE g[k - Len(a)]]
<1>4. Len(a \o b) = Len(a) + Len(b)
  OBVIOUS
<1>5. left \in [0 .. Len(a) + Len(b) -> Nat]
  BY <1>3
<1>6. left[0] = m + n /\ left[Len(a) + Len(b)] = 0
  <2>1. left[0] = f[0] + n
    BY <1>3
  <2>2. CASE Len(b) = 0
    <3>1. left[Len(a)] = f[Len(a)] + n /\ n = 0
      BY <1>2, <1>3, <2>2
    <3> QED BY <1>1, <1>3, <2>1, <2>2, <3>1
  <2>3. CASE Len(b) # 0
    BY <1>1, <1>2, <1>3, <2>1, <2>3
  <2> QED BY <2>2, <2>3
<1>7. ASSUME NEW k \in 1 .. Len(a) + Len(b) PROVE left[k - 1] = left[k] + Owed((a \o b)[k])
  <2>1. CASE k <= Len(a)
    <3>1. (a \o b)[k] = a[k] /\ a[k] \in Command
      BY <1>3, <2>1
    <3>2. left[k - 1] = f[k - 1] + n /\ left[k] = f[k] + n
      BY <1>3, <2>1
    <3>3. f[k - 1] = f[k] + Owed(a[k]) /\ f[k] \in Nat
      <4>1. k \in 1 .. Len(a) /\ k \in 0 .. Len(a)
        BY <1>3, <2>1
      <4> QED BY <1>1, <4>1
    <3>4. Owed(a[k]) \in Nat
      BY <3>1, OwedNat
    <3> QED BY <1>3, <3>1, <3>2, <3>3, <3>4
  <2>2. CASE k > Len(a)
    <3>1. (a \o b)[k] = b[k - Len(a)] /\ k - Len(a) \in 1 .. Len(b)
      BY <1>3, <2>2
    <3>2. left[k] = g[k - Len(a)]
      BY <1>3, <2>2
    <3>3. left[k - 1] = g[k - Len(a) - 1]
      <4>1. CASE k - 1 = Len(a)
        <5>1. left[k - 1] = f[Len(a)] + n /\ k - Len(a) - 1 = 0
          BY <1>3, <4>1
        <5> QED BY <1>1, <1>2, <1>3, <5>1
      <4>2. CASE k - 1 # Len(a)
        <5>1. ~(k - 1 <= Len(a)) /\ k - 1 \in 0 .. Len(a) + Len(b) /\ k - 1 - Len(a) = k - Len(a) - 1
          BY <1>3, <2>2, <4>2
        <5> QED BY <5>1
      <4> QED BY <4>1, <4>2
    <3> HIDE DEF left
    <3> QED BY <1>2, <3>1, <3>2, <3>3
  <2> QED BY <1>3, <2>1, <2>2
<1> HIDE DEF left
<1>8. /\ left \in [0 .. Len(a \o b) -> Nat] /\ left[0] = m + n /\ left[Len(a \o b)] = 0
      /\ \A k \in 1 .. Len(a \o b) : left[k - 1] = left[k] + Owed((a \o b)[k])
  BY <1>4, <1>5, <1>6, <1>7, Zenon
<1>9. Owes(a \o b, m + n)
  BY <1>8, Zenon DEF Owes
<1>10. a \o b \in Seq(Command)
  OBVIOUS
<1> QED BY <1>3, <1>9, <1>10

LEMMA OwesTail ==
  ASSUME NEW b \in Seq(Command), NEW n, Owes(b, n), b # <<>>
  PROVE  /\ Owes(Tail(b), n - Owed(Head(b)))
         /\ n \in Nat /\ Owed(Head(b)) \in Nat /\ n >= Owed(Head(b))
<1>1. PICK f \in [0 .. Len(b) -> Nat] :
        /\ f[0] = n /\ f[Len(b)] = 0
        /\ \A k \in 1 .. Len(b) : f[k - 1] = f[k] + Owed(b[k])
  BY DEF Owes
<1>2. /\ Len(b) \in Nat \ {0} /\ Head(b) = b[1] /\ Len(Tail(b)) = Len(b) - 1 /\ b[1] \in Command
      /\ \A k \in 1 .. Len(b) - 1 : Tail(b)[k] = b[k + 1]
  OBVIOUS
<1>3. Owed(b[1]) \in Nat /\ n \in Nat /\ f[1] \in Nat /\ n = f[1] + Owed(b[1])
  <2>1. 1 \in 1 .. Len(b) /\ 1 - 1 = 0 /\ 1 \in 0 .. Len(b) /\ 0 \in 0 .. Len(b)
    BY <1>2
  <2>2. f[0] = f[1] + Owed(b[1])
    BY <1>1, <2>1
  <2> QED BY <1>1, <1>2, <2>1, <2>2, OwedNat
<1> DEFINE left == [k \in 0 .. Len(b) - 1 |-> f[k + 1]]
<1>4. left \in [0 .. Len(b) - 1 -> Nat] /\ left[0] = n - Owed(b[1]) /\ left[Len(b) - 1] = 0
  BY <1>1, <1>2, <1>3
<1>5. \A k \in 1 .. Len(b) - 1 : left[k - 1] = left[k] + Owed(Tail(b)[k])
  BY <1>1, <1>2
<1> HIDE DEF left
<1>6. /\ left \in [0 .. Len(Tail(b)) -> Nat] /\ left[0] = n - Owed(Head(b))
      /\ left[Len(Tail(b))] = 0
      /\ \A k \in 1 .. Len(Tail(b)) : left[k - 1] = left[k] + Owed(Tail(b)[k])
  BY <1>2, <1>4, <1>5, Zenon
<1>7. Owes(Tail(b), n - Owed(Head(b)))
  BY <1>6, Zenon DEF Owes
<1>8. Owed(Head(b)) \in Nat /\ n >= Owed(Head(b))
  BY <1>2, <1>3
<1> QED BY <1>3, <1>7, <1>8

LEMMA OwesEnd ==
  ASSUME NEW n, Owes(<<>>, n)
  PROVE  n = 0
BY DEF Owes

-----------------------------------------------------------------------------
(* The complete bytes, run by run *)

Piece(bytes, read, num) ==
  ClockBytes(SubSeq(bytes, Len(bytes) - num + 1, Len(bytes) - num + Run(num)), read)
Encoded(from, bytes, read) ==
  \A num \in 0 .. Len(bytes) :
    from[num] = IF num <= 1 THEN <<>>
                ELSE << Piece(bytes, read, num) >> \o from[num - Run(num)]

\* A run takes at least one byte and leaves the last.
LEMMA RunLeavesLast ==
  ASSUME NEW num \in Nat, num > 1
  PROVE  Run(num) \in Nat /\ Run(num) >= 1 /\ Run(num) <= num - 1
BY RunAssumption DEF Run

LEMMA RunByRun ==
  ASSUME NEW bytes \in Seq(Octet), NEW read
  PROVE  \E from : Encoded(from, bytes, read) /\ CompleteBytes(bytes, read) = from[Len(bytes)]
<1> DEFINE L == Len(bytes)
           Step(f, num) == IF num <= 1 THEN <<>>
                           ELSE LET done == L - num
                                IN << ClockBytes(SubSeq(bytes, done + 1, done + Run(num)), read) >>
                                   \o f[num - Run(num)]
           Upto(f, n) == f = [num \in 0 .. n |-> Step(f, num)]
           Short == {n \in Nat : ~ \E f : Upto(f, n)}
<1>0. L \in Nat
  OBVIOUS
<1>1. Short = {}
  <2> SUFFICES ASSUME Short # {} PROVE FALSE
    OBVIOUS
  <2>1. PICK n \in Short : \A m \in Short : n <= m
    BY Least
  <2>2. n # 0
    <3> DEFINE f == [num \in 0 .. 0 |-> <<>>]
    <3>1. \A num \in 0 .. 0 : Step(f, num) = <<>>
      OBVIOUS
    <3> HIDE DEF Step
    <3>2. Upto(f, 0)
      BY <3>1
    <3> QED BY <2>1, <3>2
  <2>3. n \in Nat /\ n - 1 \in Nat
    BY <2>1, <2>2
  <2>4. PICK f : Upto(f, n - 1)
    <3> HIDE DEF Upto
    <3>1. n - 1 \notin Short
      <4> HIDE DEF Short
      <4> QED BY <2>1, <2>3
    <3> QED BY <2>3, <3>1
  <2> DEFINE h == [num \in 0 .. n |-> IF num = n THEN Step(f, n) ELSE f[num]]
  <2>5. DOMAIN f = 0 .. n - 1 /\ \A k \in 0 .. n - 1 : f[k] = Step(f, k)
    BY <2>4
  <2>6. ASSUME NEW k \in 0 .. n PROVE h[k] = Step(h, k)
    <3>1. h[k] = Step(f, k)
      <4>1. CASE k = n
        <5> HIDE DEF Step
        <5> QED BY <2>3, <4>1
      <4>2. CASE k # n
        <5>1. k \in 0 .. n - 1
          BY <2>3, <4>2
        <5>2. h[k] = f[k]
          BY <2>3, <4>2
        <5> HIDE DEF Step, h
        <5> QED BY <2>5, <5>1, <5>2
      <4> QED BY <4>1, <4>2
    <3>2. CASE k <= 1
      <4> HIDE DEF h
      <4> QED BY <3>1, <3>2
    <3>3. CASE k > 1
      <4>1. k \in Nat
        BY <2>3
      <4>2. Run(k) \in Nat /\ Run(k) >= 1 /\ Run(k) <= k - 1
        BY <3>3, <4>1, RunLeavesLast
      <4>3. k - Run(k) \in 0 .. n - 1
        BY <2>3, <4>1, <4>2
      <4>4. h[k - Run(k)] = f[k - Run(k)]
        <5>1. \A j \in 0 .. n - 1 : h[j] = f[j]
          BY <2>3
        <5> HIDE DEF h
        <5> QED BY <4>3, <5>1
      <4> HIDE DEF h
      <4> QED BY <3>1, <3>3, <4>1, <4>4
    <3>4. k <= 1 \/ k > 1
      BY <2>3
    <3> QED BY <3>2, <3>3, <3>4
  <2>7. Upto(h, n)
    <3>1. h = [k \in 0 .. n |-> h[k]]
      OBVIOUS
    <3> HIDE DEF h, Step
    <3> QED BY <2>6, <3>1
  <2> QED BY <2>1, <2>7
<1>2. \E f : Upto(f, L)
  BY <1>0, <1>1
<1> DEFINE from == CHOOSE f : Upto(f, L)
<1>3. Upto(from, L)
  BY <1>2
<1>4. CompleteBytes(bytes, read) = from[L]
  BY DEF CompleteBytes
<1> HIDE DEF from
<1>5. \A num \in 0 .. L : from[num] = Step(from, num)
  BY <1>3
<1>6. Encoded(from, bytes, read)
  BY <1>5 DEF Encoded, Piece
<1> QED BY <1>4, <1>6

LEMMA PieceTyped ==
  ASSUME NEW bytes \in Seq(Octet), NEW read \in BOOLEAN, NEW num \in Nat, num > 1, num <= Len(bytes)
  PROVE  /\ Piece(bytes, read, num) \in Command
         /\ Owed(Piece(bytes, read, num)) = IF read THEN Run(num) ELSE 0
<1> DEFINE m == Len(bytes) - num + 1
           n == Len(bytes) - num + Run(num)
<1>1. Run(num) \in Nat /\ Run(num) >= 1 /\ Run(num) <= num - 1
  BY RunLeavesLast
<1>2. m \in 1 .. Len(bytes) + 1 /\ n \in (m - 1) .. Len(bytes) /\ n - m + 1 = Run(num)
  BY <1>1
<1> HIDE DEF m, n
<1>3. SubSeq(bytes, m, n) \in Seq(Octet) /\ Len(SubSeq(bytes, m, n)) = n - m + 1
  BY <1>2, SubSeqProperties
<1> DEFINE data == SubSeq(bytes, m, n)
<1>4. Piece(bytes, read, num) = [op |-> "bytes", data |-> data, n |-> 8, read |-> read]
  BY DEF Piece, ClockBytes, m, n
<1> HIDE DEF data
<1>5. data \in Seq(Octet) /\ Len(data) = Run(num)
  BY <1>2, <1>3 DEF data
<1> QED BY <1>4, <1>5 DEF Command, Owed

\* All bytes but the last are clocked, and asked back when read.
LEMMA CompleteOwed ==
  ASSUME NEW bytes \in Seq(Octet), NEW read \in BOOLEAN, Len(bytes) >= 1
  PROVE  /\ CompleteBytes(bytes, read) \in Seq(Command)
         /\ Owes(CompleteBytes(bytes, read), IF read THEN Len(bytes) - 1 ELSE 0)
<1> DEFINE L == Len(bytes)
           All(num) == IF read THEN num - 1 ELSE 0
<1>1. PICK from : Encoded(from, bytes, read) /\ CompleteBytes(bytes, read) = from[L]
  BY RunByRun
<1>e. \A num \in 0 .. L : from[num] = IF num <= 1 THEN <<>>
                                       ELSE << Piece(bytes, read, num) >> \o from[num - Run(num)]
  BY <1>1 DEF Encoded
<1> DEFINE Good(num) == from[num] \in Seq(Command) /\ Owes(from[num], All(num))
           Bad == {num \in Nat : num >= 1 /\ num <= L /\ ~Good(num)}
<1>2. Bad = {}
  <2> SUFFICES ASSUME Bad # {} PROVE FALSE
    OBVIOUS
  <2>1. PICK num \in Bad : \A m \in Bad : num <= m
    <3>1. Bad \in SUBSET Nat
      OBVIOUS
    <3> HIDE DEF Bad
    <3> QED BY <3>1, Least
  <2>2. num \in Nat /\ num >= 1 /\ num <= L /\ ~Good(num)
    BY <2>1
  <2>3. num # 1
    <3> SUFFICES ASSUME num = 1 PROVE FALSE
      OBVIOUS
    <3>1. from[1] = <<>>
      <4>1. 1 \in 0 .. L /\ 1 <= 1
        BY <2>2
      <4> QED BY <1>e, <4>1
    <3>2. <<>> \in Seq(Command) /\ Owes(<<>>, 0)
      <4>1. <<>> \in Seq(Command) /\ Len(<<>>) = 0
        OBVIOUS
      <4>2. \A k \in 1 .. Len(<<>>) : ~<<>>[k].read
        BY <4>1
      <4>3. Owes(<<>>, 0)
        BY <4>1, <4>2, OwesNothing
      <4> QED BY <4>1, <4>3
    <3>3. All(1) = 0
      OBVIOUS
    <3> QED BY <2>2, <3>1, <3>2, <3>3
  <2>4. num > 1
    BY <2>2, <2>3
  <2>5. Run(num) \in Nat /\ Run(num) >= 1 /\ Run(num) <= num - 1
    BY <2>2, <2>4, RunLeavesLast
  <2> DEFINE rest == num - Run(num)
  <2>6. rest \in Nat /\ rest >= 1 /\ rest <= L /\ rest < num
    BY <2>2, <2>5
  <2>7. Good(rest)
    <3> HIDE DEF Good
    <3>1. rest \notin Bad
      <4> HIDE DEF Bad
      <4> QED BY <2>1, <2>2, <2>6
    <3> QED BY <2>6, <3>1
  <2>8. from[num] = << Piece(bytes, read, num) >> \o from[rest]
    <3>1. num \in 0 .. L /\ ~(num <= 1)
      BY <2>2, <2>4
    <3> QED BY <1>e, <3>1
  <2> DEFINE p == Piece(bytes, read, num)
  <2>9. p \in Command /\ Owed(p) = IF read THEN Run(num) ELSE 0
    BY <2>2, <2>4, PieceTyped
  <2> HIDE DEF p, rest
  <2>10. << p >> \in Seq(Command) /\ Owes(<< p >>, Owed(p))
    BY <2>9, OwesOne
  <2>11. << p >> \o from[rest] \in Seq(Command) /\ Owes(<< p >> \o from[rest], Owed(p) + All(rest))
    <3>1. from[rest] \in Seq(Command) /\ Owes(from[rest], All(rest))
      BY <2>7
    <3> HIDE DEF All
    <3>2. Owes(<< p >> \o from[rest], Owed(p) + All(rest))
      BY <2>10, <3>1, OwesBoth
    <3> QED BY <2>10, <3>1, <3>2
  <2>12. Owed(p) + All(rest) = All(num)
    BY <2>2, <2>5, <2>9 DEF rest
  <2> QED BY <2>2, <2>8, <2>11, <2>12 DEF p
<1>3. Good(L)
  <2> HIDE DEF Good
  <2> QED BY <1>2
<1> QED BY <1>1, <1>3

-----------------------------------------------------------------------------
(* The commands of the operations *)

LEMMA PowersTyped == \A b \in 0 .. 7 : 2 ^ b \in Nat \ {0}
<1>1. 2 ^ 0 = 1 /\ 2 ^ 1 = 2 /\ 2 ^ 2 = 4 /\ 2 ^ 3 = 8 /\ 2 ^ 4 = 16 /\ 2 ^ 5 = 32
      /\ 2 ^ 6 = 64 /\ 2 ^ 7 = 128
  OBVIOUS
<1>2. ASSUME NEW b \in 0 .. 7 PROVE 2 ^ b \in Nat \ {0}
  <2>1. b = 0 \/ b = 1 \/ b = 2 \/ b = 3 \/ b = 4 \/ b = 5 \/ b = 6 \/ b = 7
    OBVIOUS
  <2>2. \A w \in {1, 2, 4, 8, 16, 32, 64, 128} : w \in Nat \ {0}
    OBVIOUS
  <2>3. 2 ^ b \in {1, 2, 4, 8, 16, 32, 64, 128}
    <3>1. CASE b = 0
      BY <1>1, <3>1
    <3>2. CASE b = 1
      BY <1>1, <3>2
    <3>3. CASE b = 2
      BY <1>1, <3>3
    <3>4. CASE b = 3
      BY <1>1, <3>4
    <3>5. CASE b = 4
      BY <1>1, <3>5
    <3>6. CASE b = 5
      BY <1>1, <3>6
    <3>7. CASE b = 6
      BY <1>1, <3>7
    <3>8. CASE b = 7
      BY <1>1, <3>8
    <3> QED BY <2>1, <3>1, <3>2, <3>3, <3>4, <3>5, <3>6, <3>7, <3>8
  <2> QED BY <2>2, <2>3
<1> QED BY <1>2

LEMMA BitsTyped == \A value \in Nat : Bits(value) \in Octet
<1> SUFFICES ASSUME NEW value \in Nat, NEW b \in 0 .. 7
             PROVE  (value \div (2 ^ b)) % 2 \in Bit
  BY DEF Bits, Octet
<1>1. PICK w \in Nat \ {0} : w = 2 ^ b
  BY PowersTyped
<1>2. value \div w \in Int
  BY <1>1
<1>3. (value \div w) % 2 \in 0 .. 1
  BY <1>2
<1> QED BY <1>1, <1>3 DEF Bit

LEMMA MovesTyped == \A s, t \in Stable : TAP_MOVE(s, t) \in Octet
<1>1. ASSUME NEW s \in Stable PROVE tap_move_map[s] \in 1 .. 6
  BY DEF Stable, tap_move_map
<1>2. ASSUME NEW k \in 1 .. 6, NEW l \in 1 .. 6 PROVE tap_move[k][l] \in Nat
  <2>1. \A r \in 1 .. 6 : r \in {1, 2, 3, 4, 5, 6}
    OBVIOUS
  <2> QED BY <2>1 DEF tap_move
<1> QED BY <1>1, <1>2, BitsTyped DEF TAP_MOVE

LEMMA TmsTyped ==
  ASSUME NEW byte \in Octet, NEW n \in Nat, NEW read \in BOOLEAN
  PROVE  /\ Tms(byte, n, read) \in Command
         /\ Owed(Tms(byte, n, read)) = IF read THEN 1 ELSE 0
         /\ Tms(byte, n, read).read = read
<1>1. << byte >> \in Seq(Octet) /\ Len(<< byte >>) = 1
  OBVIOUS
<1> QED BY <1>1 DEF Tms, Command, Owed

LEMMA ClockBitsTyped ==
  ASSUME NEW byte \in Octet, NEW n \in Nat, NEW read \in BOOLEAN
  PROVE  /\ ClockBits(byte, n, read) \in Command
         /\ Owed(ClockBits(byte, n, read)) = IF read THEN 1 ELSE 0
         /\ ClockBits(byte, n, read).read = read
<1>1. << byte >> \in Seq(Octet) /\ Len(<< byte >>) = 1
  OBVIOUS
<1> QED BY <1>1 DEF ClockBits, Command, Owed

LEMMA WithTdiTyped ==
  ASSUME NEW byte \in Octet, NEW bit \in Bit
  PROVE  WithTdi(byte, bit) \in Octet
BY DEF WithTdi, Octet

LEMMA BytesOfString ==
  ASSUME NEW str \in Seq(Bit), Len(str) >= 1
  PROVE  /\ binstr2bytes(str) \in Seq(Octet)
         /\ Len(binstr2bytes(str)) = NumBytes(Len(str))
         /\ NumBytes(Len(str)) \in Nat /\ NumBytes(Len(str)) >= 1
         /\ BitsLeft(Len(str)) \in 1 .. 8
<1> DEFINE n == Len(str)
           m == NumBytes(n)
<1>1. n \in Nat /\ n >= 1
  OBVIOUS
<1>2. m \in Nat /\ m >= 1 /\ 8 * m <= n + 7 /\ n <= 8 * m
  BY <1>1 DEF NumBytes
<1>3. BitsLeft(n) \in 1 .. 8
  <2>1. BitsLeft(n) = n - 8 * (m - 1)
    BY DEF BitsLeft
  <2> HIDE DEF m, n
  <2>2. n - 8 * (m - 1) \in 1 .. 8
    BY <1>1, <1>2
  <2> QED BY <2>1, <2>2
<1> HIDE DEF m
<1>4. \A j \in 1 .. m, b \in 0 .. 7 :
        (IF 8 * (j - 1) + b + 1 <= Len(str) THEN str[8 * (j - 1) + b + 1] ELSE 0) \in Bit
  <2> SUFFICES ASSUME NEW j \in 1 .. m, NEW b \in 0 .. 7, 8 * (j - 1) + b + 1 <= Len(str)
               PROVE  str[8 * (j - 1) + b + 1] \in Bit
    BY DEF Bit
  <2>1. 8 * (j - 1) + b + 1 \in 1 .. Len(str)
    BY <1>2
  <2> QED BY <2>1
<1>5. binstr2bytes(str) \in [1 .. m -> Octet]
  BY <1>4 DEF binstr2bytes, Octet, m
<1>6. \A s \in [1 .. m -> Octet] : s \in Seq(Octet) /\ Len(s) = m
  BY <1>2
<1> QED BY <1>2, <1>3, <1>5, <1>6 DEF m

LEMMA MoveOwed ==
  ASSUME NEW s \in Stable, NEW t \in Stable
  PROVE  LET q == << Tms(TAP_MOVE(s, t), 7, FALSE) >>
         IN q \in Seq(Command) /\ Owes(q, 0)
<1> DEFINE c == Tms(TAP_MOVE(s, t), 7, FALSE)
<1>1. TAP_MOVE(s, t) \in Octet /\ 7 \in Nat
  BY MovesTyped
<1>2. c \in Command /\ Owed(c) = 0
  BY <1>1, TmsTyped
<1> HIDE DEF c
<1>3. << c >> \in Seq(Command) /\ Owes(<< c >>, Owed(c))
  BY <1>2, OwesOne
<1> QED BY <1>2, <1>3 DEF c

LEMMA IdleOwed ==
  OpenJTAG_RunTestIdle \in Seq(Command) /\ Owes(OpenJTAG_RunTestIdle, 0)
<1>1. "TLR" \in Stable /\ "RTI" \in Stable
  BY DEF Stable
<1> DEFINE a == << Tms(TAP_MOVE("TLR", "TLR"), 7, FALSE) >>
           b == << Tms(TAP_MOVE("TLR", "RTI"), 7, FALSE) >>
<1>2. a \in Seq(Command) /\ Owes(a, 0) /\ b \in Seq(Command) /\ Owes(b, 0)
  BY <1>1, MoveOwed
<1>3. OpenJTAG_RunTestIdle = a \o b
  BY DEF OpenJTAG_RunTestIdle, OpenJTAG_Reset
<1> HIDE DEF a, b
<1>4. Owes(a \o b, 0 + 0) /\ a \o b \in Seq(Command)
  BY <1>2, OwesBoth
<1> QED BY <1>3, <1>4

LEMMA InstructionOwed ==
  OpenJTAG_ShiftIRState(EXTEST) \in Seq(Command) /\ Owes(OpenJTAG_ShiftIRState(EXTEST), 0)
<1>1. EXTEST \in Seq(Bit) /\ Len(EXTEST) = 4
  BY DEF EXTEST, Bit
<1> DEFINE val == binstr2bytes(EXTEST)[1]
<1>2. val \in Octet
  <2>1. Len(EXTEST) >= 1
    BY <1>1
  <2>2. /\ binstr2bytes(EXTEST) \in Seq(Octet)
        /\ Len(binstr2bytes(EXTEST)) = NumBytes(Len(EXTEST))
        /\ NumBytes(Len(EXTEST)) >= 1 /\ NumBytes(Len(EXTEST)) \in Nat
    BY <1>1, <2>1, BytesOfString, Zenon
  <2> QED BY <2>2
<1>3. OpenJTAG_ShiftIRState(EXTEST)
      = << Tms(TAP_MOVE("RTI", "SI"), 7, FALSE), ClockBits(val, 3, FALSE),
           Tms(WithTdi(TAP_MOVE("SI", "RTI"), val[3]), 7, FALSE) >>
  BY <1>1 DEF OpenJTAG_ShiftIRState
<1> HIDE DEF val
<1>4. "RTI" \in Stable /\ "SI" \in Stable
  BY DEF Stable
<1>5. val[3] \in Bit
  BY <1>2 DEF Octet
<1> DEFINE a == Tms(TAP_MOVE("RTI", "SI"), 7, FALSE)
           b == ClockBits(val, 3, FALSE)
           c == Tms(WithTdi(TAP_MOVE("SI", "RTI"), val[3]), 7, FALSE)
<1>6. a \in Command /\ ~a.read /\ b \in Command /\ ~b.read /\ c \in Command /\ ~c.read
  <2>1. TAP_MOVE("RTI", "SI") \in Octet /\ TAP_MOVE("SI", "RTI") \in Octet
    BY <1>4, MovesTyped
  <2>2. WithTdi(TAP_MOVE("SI", "RTI"), val[3]) \in Octet
    BY <1>5, <2>1, WithTdiTyped
  <2>3. 7 \in Nat /\ 3 \in Nat /\ FALSE \in BOOLEAN
    OBVIOUS
  <2> QED BY <1>2, <2>1, <2>2, <2>3, TmsTyped, ClockBitsTyped, Zenon
<1> HIDE DEF a, b, c
<1>7. /\ << a, b, c >> \in Seq(Command) /\ Len(<< a, b, c >>) = 3
      /\ << a, b, c >>[1] = a /\ << a, b, c >>[2] = b /\ << a, b, c >>[3] = c
  BY <1>6
<1>8. \A k \in 1 .. 3 : ~<< a, b, c >>[k].read
  <2>1. \A k \in 1 .. 3 : k \in {1, 2, 3}
    OBVIOUS
  <2> QED BY <1>6, <1>7, <2>1
<1>9. Owes(<< a, b, c >>, 0)
  BY <1>7, <1>8, OwesNothing
<1> QED BY <1>3, <1>7, <1>9 DEF a, b, c

\* The four bytes of the id.
LEMMA IdOwed == ft2232_readID \in Seq(Command) /\ Owes(ft2232_readID, 4)
<1>1. "TLR" \in Stable /\ "SI" \in Stable
  BY DEF Stable
<1> DEFINE a == Tms(TAP_MOVE("TLR", "TLR"), 7, FALSE)
           b == Tms(TAP_MOVE("TLR", "SI"), 7, FALSE)
           c == ClockBits(Bits(6), 3, FALSE)
           d == Tms(WithTdi(Bits(7), 1), 5, FALSE)
           e == ClockBytes(IdBytes, TRUE)
           f == Tms(Bits(127), 7, FALSE)
<1>2. ft2232_readID = << a, b, c, d >> \o (<< e >> \o << f >>)
  <2>1. ft2232_readID = << a >> \o << b, c, d, e, f >>
    BY DEF ft2232_readID, OpenJTAG_Reset
  <2> SUFFICES \A S : a \in S /\ b \in S /\ c \in S /\ d \in S /\ e \in S /\ f \in S
                => << a >> \o << b, c, d, e, f >> = << a, b, c, d >> \o (<< e >> \o << f >>)
    <3>1. \E S : a \in S /\ b \in S /\ c \in S /\ d \in S /\ e \in S /\ f \in S
      <4>1. WITNESS {a, b, c, d, e, f}
      <4> QED OBVIOUS
    <3> HIDE DEF a, b, c, d, e, f
    <3> QED BY <2>1, <3>1
  <2> HIDE DEF a, b, c, d, e, f
  <2> TAKE S
  <2> HAVE a \in S /\ b \in S /\ c \in S /\ d \in S /\ e \in S /\ f \in S
  <2> DEFINE x == << a >> \o << b, c, d, e, f >>
             y == << a, b, c, d >> \o (<< e >> \o << f >>)
  <2>2. x \in Seq(S) /\ y \in Seq(S) /\ Len(x) = 6 /\ Len(y) = 6
    OBVIOUS
  <2>3. /\ x[1] = a /\ x[2] = b /\ x[3] = c /\ x[4] = d /\ x[5] = e /\ x[6] = f
        /\ y[1] = a /\ y[2] = b /\ y[3] = c /\ y[4] = d /\ y[5] = e /\ y[6] = f
    OBVIOUS
  <2> HIDE DEF x, y
  <2>4. \A k \in 1 .. 6 : x[k] = y[k]
    <3>1. \A k \in 1 .. 6 : k = 1 \/ k = 2 \/ k = 3 \/ k = 4 \/ k = 5 \/ k = 6
      OBVIOUS
    <3> QED BY <2>3, <3>1
  <2>5. x = y
    BY <2>2, <2>4
  <2> QED BY <2>5 DEF x, y
<1>3. /\ a \in Command /\ ~a.read /\ b \in Command /\ ~b.read /\ c \in Command /\ ~c.read
      /\ d \in Command /\ ~d.read /\ f \in Command /\ ~f.read
  <2>1. TAP_MOVE("TLR", "TLR") \in Octet /\ TAP_MOVE("TLR", "SI") \in Octet
    BY <1>1, MovesTyped
  <2>2. 7 \in Nat /\ 3 \in Nat /\ 5 \in Nat /\ 6 \in Nat /\ 127 \in Nat /\ FALSE \in BOOLEAN
        /\ 1 \in Bit
    BY DEF Bit
  <2>3. Bits(6) \in Octet /\ Bits(127) \in Octet /\ Bits(7) \in Octet
    BY <2>2, BitsTyped
  <2>4. WithTdi(Bits(7), 1) \in Octet
    BY <2>2, <2>3, WithTdiTyped
  <2> QED BY <2>1, <2>2, <2>3, <2>4, TmsTyped, ClockBitsTyped, Zenon
<1>4. e \in Command /\ Owed(e) = 4
  <2>1. Bits(255) \in Octet
    BY BitsTyped
  <2>2. IdBytes \in Seq(Octet) /\ Len(IdBytes) = 4
    BY <2>1 DEF IdBytes
  <2> HIDE DEF IdBytes
  <2> QED BY <2>2 DEF ClockBytes, Command, Owed
<1> HIDE DEF a, b, c, d, e, f
<1>5. << a, b, c, d >> \in Seq(Command) /\ Owes(<< a, b, c, d >>, 0)
  <2>1. /\ << a, b, c, d >> \in Seq(Command) /\ Len(<< a, b, c, d >>) = 4
        /\ << a, b, c, d >>[1] = a /\ << a, b, c, d >>[2] = b /\ << a, b, c, d >>[3] = c
        /\ << a, b, c, d >>[4] = d
    BY <1>3
  <2>2. \A k \in 1 .. 4 : ~<< a, b, c, d >>[k].read
    <3>1. \A k \in 1 .. 4 : k \in {1, 2, 3, 4}
      OBVIOUS
    <3> QED BY <1>3, <2>1, <3>1
  <2> QED BY <2>1, <2>2, OwesNothing
<1>6. << e >> \in Seq(Command) /\ Owes(<< e >>, 4)
  BY <1>4, OwesOne
<1>7. << f >> \in Seq(Command) /\ Owes(<< f >>, 0)
  <2>1. Owed(f) = 0
    BY <1>3 DEF Owed
  <2>2. Owes(<< f >>, Owed(f))
    BY <1>3, OwesOne
  <2> QED BY <1>3, <2>1, <2>2
<1>8. << e >> \o << f >> \in Seq(Command) /\ Owes(<< e >> \o << f >>, 4 + 0)
  BY <1>6, <1>7, OwesBoth
<1> DEFINE v == << a, b, c, d >>
           w == << e >> \o << f >>
<1>v. v \in Seq(Command) /\ Owes(v, 0)
  BY <1>5
<1>w. w \in Seq(Command) /\ Owes(w, 4)
  BY <1>8
<1> HIDE DEF v, w
<1>9. v \o w \in Seq(Command) /\ Owes(v \o w, 0 + 4)
  BY <1>v, <1>w, OwesBoth
<1> QED BY <1>2, <1>9 DEF v, w

\* What is predicted for a scan that is read, and nothing for one that is not.
LEMMA ScanOwed ==
  ASSUME NEW str \in Seq(Bit), Len(str) >= 1, NEW read \in BOOLEAN
  PROVE  /\ OpenJTAG_ShiftDRState(str, read) \in Seq(Command)
         /\ Owes(OpenJTAG_ShiftDRState(str, read),
                 IF read THEN ft2232_predict_scan_in(Len(str)) ELSE 0)
<1> DEFINE n == Len(str)
           bytes == binstr2bytes(str)
           a == << Tms(TAP_MOVE("RTI", "SD"), 7, FALSE) >>
           b == CompleteBytes(bytes, read)
           c == IF Remaining(n) THEN << ClockBits(bytes[Len(bytes)], BitsLeft(n) - 1, read) >>
                ELSE <<>>
           d == << Tms(WithTdi(TAP_MOVE("SD", "RTI"), LastBit(bytes, n)), 7, read) >>
           One == IF read THEN 1 ELSE 0
           More == IF Remaining(n) THEN One ELSE 0
           Whole == IF read THEN NumBytes(n) - 1 ELSE 0
<1>1. OpenJTAG_ShiftDRState(str, read) = a \o b \o c \o d
  BY DEF OpenJTAG_ShiftDRState
<1>2. /\ bytes \in Seq(Octet) /\ Len(bytes) = NumBytes(n) /\ NumBytes(n) \in Nat /\ NumBytes(n) >= 1
      /\ BitsLeft(n) \in 1 .. 8
  BY BytesOfString
<1>n. n \in Nat /\ n >= 1
  OBVIOUS
<1> HIDE DEF bytes, n
<1>3. bytes[Len(bytes)] \in Octet /\ LastBit(bytes, n) \in Bit
  <2>1. bytes[NumBytes(n)] \in Octet
    BY <1>2
  <2>2. BitsLeft(n) - 1 \in 0 .. 7
    BY <1>2
  <2> QED BY <1>2, <2>1, <2>2 DEF LastBit, Octet
<1>4. "RTI" \in Stable /\ "SD" \in Stable
  BY DEF Stable
<1>5. a \in Seq(Command) /\ Owes(a, 0)
  BY <1>4, MoveOwed
<1>6. b \in Seq(Command) /\ Owes(b, Whole)
  BY <1>2, CompleteOwed
<1>7. c \in Seq(Command) /\ Owes(c, More)
  <2>1. CASE Remaining(n)
    <3> DEFINE k == ClockBits(bytes[Len(bytes)], BitsLeft(n) - 1, read)
    <3>1. BitsLeft(n) - 1 \in Nat
      BY <1>2
    <3>2. k \in Command /\ Owed(k) = One
      BY <1>3, <3>1, ClockBitsTyped
    <3>3. c = << k >> /\ More = One
      BY <2>1
    <3> HIDE DEF k, c, More, One
    <3>4. Owes(<< k >>, Owed(k))
      BY <3>2, OwesOne
    <3> QED BY <3>2, <3>3, <3>4
  <2>2. CASE ~Remaining(n)
    <3>1. c = <<>> /\ More = 0
      BY <2>2
    <3> HIDE DEF c, More
    <3>2. <<>> \in Seq(Command) /\ Len(<<>>) = 0
      OBVIOUS
    <3>3. \A k \in 1 .. Len(<<>>) : ~<<>>[k].read
      BY <3>2
    <3>4. Owes(<<>>, 0)
      BY <3>2, <3>3, OwesNothing
    <3> QED BY <3>1, <3>2, <3>4
  <2> QED BY <2>1, <2>2
<1>8. d \in Seq(Command) /\ Owes(d, One)
  <2> DEFINE t == Tms(WithTdi(TAP_MOVE("SD", "RTI"), LastBit(bytes, n)), 7, read)
  <2>1. WithTdi(TAP_MOVE("SD", "RTI"), LastBit(bytes, n)) \in Octet
    BY <1>3, <1>4, MovesTyped, WithTdiTyped
  <2>2. t \in Command /\ Owed(t) = One
    BY <2>1, TmsTyped
  <2> HIDE DEF t, One
  <2> QED BY <2>2, OwesOne DEF t
<1> HIDE DEF a, b, c, d
<1>9. a \o b \in Seq(Command) /\ Owes(a \o b, 0 + Whole)
  BY <1>5, <1>6, OwesBoth
<1> DEFINE ab == a \o b
<1> HIDE DEF ab
<1>10. ab \o c \in Seq(Command) /\ Owes(ab \o c, (0 + Whole) + More)
  BY <1>7, <1>9, OwesBoth DEF ab
<1> DEFINE abc == ab \o c
<1> HIDE DEF abc
<1>11. abc \o d \in Seq(Command) /\ Owes(abc \o d, ((0 + Whole) + More) + One)
  BY <1>8, <1>10, OwesBoth DEF abc
<1>12. ((0 + Whole) + More) + One = IF read THEN ft2232_predict_scan_in(n) ELSE 0
  <2>1. (n - 1) % 8 # 0 <=> Remaining(n)
    BY <1>n DEF Remaining, BitsLeft, NumBytes
  <2>2. (IF NumBytes(n) > 1 THEN NumBytes(n) - 1 ELSE 0) = NumBytes(n) - 1
    BY <1>2
  <2> QED BY <1>2, <2>1, <2>2 DEF ft2232_predict_scan_in
<1> QED BY <1>1, <1>11, <1>12 DEF ab, abc, n

-----------------------------------------------------------------------------
(* Opening the FT2232 *)

\* The state after a call, from the state before it.
After(was, c, fails) ==
  LET chip == IF fails THEN was.chip ELSE Effect(was.chip, c)
  IN [chip |-> chip, dev |-> IF TrstPulled(chip) THEN Reset(was.dev) ELSE was.dev,
      rx |-> IF c.call = "purge" THEN <<>> ELSE was.rx]
Called(after, start, calls, lost) ==
  /\ after[0] = start
  /\ \A k \in 1 .. Len(calls) : after[k] = After(after[k - 1], calls[k], k \in lost)

LEMMA CallByCall ==
  ASSUME NEW start, NEW calls, Len(calls) \in Nat, NEW lost
  PROVE  \E after : Called(after, start, calls, lost) /\ Calls(start, calls, lost) = after
<1> DEFINE Step(f, k) == IF k = 0 THEN start
                         ELSE LET was == f[k - 1]
                                  chip == IF k \in lost THEN was.chip ELSE Effect(was.chip, calls[k])
                              IN [chip |-> chip,
                                  dev |-> IF TrstPulled(chip) THEN Reset(was.dev) ELSE was.dev,
                                  rx |-> IF calls[k].call = "purge" THEN <<>> ELSE was.rx]
           Upto(f, n) == f = [k \in 0 .. n |-> Step(f, k)]
           Short == {n \in Nat : ~ \E f : Upto(f, n)}
<1>1. Short = {}
  <2> SUFFICES ASSUME Short # {} PROVE FALSE
    OBVIOUS
  <2>1. PICK n \in Short : \A m \in Short : n <= m
    BY Least
  <2>2. n # 0
    <3> DEFINE f == [k \in 0 .. 0 |-> start]
    <3>1. \A k \in 0 .. 0 : k = 0 /\ Step(f, k) = start
      OBVIOUS
    <3> HIDE DEF Step
    <3>2. Upto(f, 0)
      BY <3>1
    <3> QED BY <2>1, <3>2
  <2>3. n \in Nat /\ n - 1 \in Nat
    BY <2>1, <2>2
  <2>4. PICK f : Upto(f, n - 1)
    <3> HIDE DEF Upto
    <3>1. n - 1 \notin Short
      <4> HIDE DEF Short
      <4> QED BY <2>1, <2>3
    <3> QED BY <2>3, <3>1
  <2> DEFINE h == [k \in 0 .. n |-> IF k = n THEN Step(f, n) ELSE f[k]]
  <2>5. DOMAIN f = 0 .. n - 1 /\ \A k \in 0 .. n - 1 : f[k] = Step(f, k)
    BY <2>4
  <2>6. ASSUME NEW k \in 0 .. n PROVE h[k] = Step(h, k)
    <3>1. h[k] = Step(f, k)
      <4>1. CASE k = n
        <5> HIDE DEF Step
        <5> QED BY <2>3, <4>1
      <4>2. CASE k # n
        <5>1. k \in 0 .. n - 1
          BY <2>3, <4>2
        <5>2. h[k] = f[k]
          BY <2>3, <4>2
        <5> HIDE DEF Step, h
        <5> QED BY <2>5, <5>1, <5>2
      <4> QED BY <4>1, <4>2
    <3>2. CASE k = 0
      <4> HIDE DEF h
      <4> QED BY <3>1, <3>2
    <3>3. CASE k # 0
      <4>1. k - 1 \in 0 .. n - 1
        BY <2>3, <3>3
      <4>2. h[k - 1] = f[k - 1]
        <5>1. \A j \in 0 .. n - 1 : h[j] = f[j]
          BY <2>3
        <5> HIDE DEF h
        <5> QED BY <4>1, <5>1
      <4> HIDE DEF h
      <4> QED BY <3>1, <3>3, <4>2
    <3> QED BY <3>2, <3>3
  <2>7. Upto(h, n)
    <3>1. h = [k \in 0 .. n |-> h[k]]
      OBVIOUS
    <3> HIDE DEF h, Step
    <3> QED BY <2>6, <3>1
  <2> QED BY <2>1, <2>7
<1>2. \E f : Upto(f, Len(calls))
  BY <1>1
<1> DEFINE after == CHOOSE f : Upto(f, Len(calls))
<1>3. Upto(after, Len(calls))
  BY <1>2
<1>4. Calls(start, calls, lost) = after
  BY DEF Calls
<1> HIDE DEF after
<1>5. \A k \in 0 .. Len(calls) : after[k] = Step(after, k)
  BY <1>3
<1>6. Called(after, start, calls, lost)
  <2>1. 0 \in 0 .. Len(calls) /\ \A k \in 1 .. Len(calls) : k \in 0 .. Len(calls) /\ k # 0
    OBVIOUS
  <2> QED BY <1>5, <2>1 DEF Called, After
<1> QED BY <1>4, <1>6

\* Opening ends with the purge of what came before.
LEMMA InitPurges ==
  ASSUME NEW build, NEW highspeed \in BOOLEAN
  PROVE  LET calls == ft2232_init(build, highspeed)
         IN Len(calls) \in Nat \ {0} /\ calls[Len(calls)].call = "purge"
<1> DEFINE a == IF build = "libftdi" THEN ft2232_init_libftdi ELSE ft2232_init_ftd2xx
           b == jtagkey_init
           c == IF highspeed THEN ft2232h_ft4232h_clk_divide_by_5 ELSE <<>>
           d == ft2232_speed(highspeed)
           off == Usb("loopback_off")
           purge == Usb("purge")
           S == {a[k] : k \in 1 .. 9} \cup {b[k] : k \in 1 .. 3} \cup {c[1], off, purge}
                \cup {d[k] : k \in 1 .. 2}
<1>1. ft2232_init(build, highspeed) = a \o b \o c \o d \o << off, purge >>
  BY DEF ft2232_init
<1>2. purge.call = "purge"
  BY DEF Usb
<1>3. /\ a = [k \in 1 .. Len(a) |-> a[k]] /\ Len(a) \in 0 .. 9
      /\ b = [k \in 1 .. Len(b) |-> b[k]] /\ Len(b) \in 0 .. 3
      /\ c = [k \in 1 .. Len(c) |-> c[k]] /\ Len(c) \in 0 .. 1
      /\ d = [k \in 1 .. Len(d) |-> d[k]] /\ Len(d) \in 0 .. 2
  <2>1. /\ a = [k \in 1 .. Len(a) |-> a[k]] /\ Len(a) \in 0 .. 9
    <3>1. CASE build = "libftdi"
      <4>1. a = ft2232_init_libftdi
        BY <3>1
      <4>2. LET q == ft2232_init_libftdi IN q = [k \in 1 .. Len(q) |-> q[k]] /\ Len(q) \in 0 .. 9
        BY DEF ft2232_init_libftdi
      <4> HIDE DEF a
      <4> QED BY <4>1, <4>2
    <3>2. CASE build # "libftdi"
      <4>1. a = ft2232_init_ftd2xx
        BY <3>2
      <4>2. LET q == ft2232_init_ftd2xx IN q = [k \in 1 .. Len(q) |-> q[k]] /\ Len(q) \in 0 .. 9
        BY DEF ft2232_init_ftd2xx
      <4> HIDE DEF a
      <4> QED BY <4>1, <4>2
    <3> QED BY <3>1, <3>2
  <2>2. b = [k \in 1 .. Len(b) |-> b[k]] /\ Len(b) \in 0 .. 3
    BY DEF jtagkey_init
  <2>3. c = [k \in 1 .. Len(c) |-> c[k]] /\ Len(c) \in 0 .. 1
    <3>1. c = ft2232h_ft4232h_clk_divide_by_5 \/ c = <<>>
      OBVIOUS
    <3> HIDE DEF c
    <3>2. <<>> = [k \in 1 .. Len(<<>>) |-> <<>>[k]] /\ Len(<<>>) \in 0 .. 1
      OBVIOUS
    <3>3. LET q == ft2232h_ft4232h_clk_divide_by_5
          IN q = [k \in 1 .. Len(q) |-> q[k]] /\ Len(q) \in 0 .. 1
      BY DEF ft2232h_ft4232h_clk_divide_by_5
    <3> QED BY <3>1, <3>2, <3>3
  <2>4. d = [k \in 1 .. Len(d) |-> d[k]] /\ Len(d) \in 0 .. 2
    BY DEF ft2232_speed, ft2232h_ft4232h_adaptive_clocking
  <2> QED BY <2>1, <2>2, <2>3, <2>4
<1> HIDE DEF a, b, c, d, off, purge
<1>4. a \in Seq(S) /\ b \in Seq(S) /\ c \in Seq(S) /\ d \in Seq(S) /\ off \in S /\ purge \in S
  <2>1. ASSUME NEW q, NEW n \in Nat, NEW T, q = [k \in 1 .. Len(q) |-> q[k]], Len(q) \in 0 .. n,
               \A k \in 1 .. n : q[k] \in T
        PROVE  q \in Seq(T)
    <3>1. q \in [1 .. Len(q) -> T]
      BY <2>1
    <3> QED BY <2>1, <3>1
  <2>2. /\ \A k \in 1 .. 9 : a[k] \in S
        /\ \A k \in 1 .. 3 : b[k] \in S
        /\ \A k \in 1 .. 1 : c[k] \in S
        /\ \A k \in 1 .. 2 : d[k] \in S
    OBVIOUS
  <2>3. off \in S /\ purge \in S
    OBVIOUS
  <2> HIDE DEF S
  <2> QED BY <1>3, <2>1, <2>2, <2>3
<1> HIDE DEF S
<1> DEFINE x == a \o b \o c \o d
<1>5. x \in Seq(S)
  BY <1>4
<1> HIDE DEF x
<1>6. << off, purge >> \in Seq(S) /\ Len(<< off, purge >>) = 2 /\ << off, purge >>[2] = purge
  BY <1>4
<1> DEFINE e == << off, purge >>
<1> HIDE DEF e
<1>7. Len(x \o e) = Len(x) + 2 /\ (x \o e)[Len(x) + 2] = e[2] /\ Len(x) \in Nat
  BY <1>5, <1>6 DEF e
<1>8. Len(x \o e) \in Nat \ {0} /\ (x \o e)[Len(x \o e)].call = "purge"
  BY <1>2, <1>6, <1>7 DEF e
<1> QED BY <1>1, <1>8 DEF x, e

\* Whatever is called, the bytes to be read are those of before or none; after all
\* of ft2232_init there are none.
LEMMA CallsReceive ==
  ASSUME NEW start, NEW calls, Len(calls) \in Nat, NEW lost, NEW made \in 0 .. Len(calls)
  PROVE  LET now == Calls(start, calls, lost)[made]
         IN /\ now.rx = start.rx \/ now.rx = <<>>
            /\ made > 0 /\ calls[made].call = "purge" => now.rx = <<>>
<1>1. PICK after : Called(after, start, calls, lost) /\ Calls(start, calls, lost) = after
  BY CallByCall
<1>2. ASSUME NEW k \in 1 .. Len(calls)
      PROVE  after[k].rx = IF calls[k].call = "purge" THEN <<>> ELSE after[k - 1].rx
  <2>1. after[k] = After(after[k - 1], calls[k], k \in lost)
    BY <1>1 DEF Called
  <2>2. \A was, c, fails : After(was, c, fails).rx = IF c.call = "purge" THEN <<>> ELSE was.rx
    BY DEF After
  <2> QED BY <2>1, <2>2
<1> DEFINE Good(k) == after[k].rx = start.rx \/ after[k].rx = <<>>
           Bad == {k \in Nat : k <= Len(calls) /\ ~Good(k)}
<1>3. Bad = {}
  <2> SUFFICES ASSUME Bad # {} PROVE FALSE
    OBVIOUS
  <2>1. PICK k \in Bad : \A m \in Bad : k <= m
    <3>1. Bad \in SUBSET Nat
      OBVIOUS
    <3> HIDE DEF Bad
    <3> QED BY <3>1, Least
  <2>2. k \in Nat /\ k <= Len(calls) /\ ~Good(k)
    BY <2>1
  <2>3. k # 0
    BY <1>1, <2>2 DEF Called
  <2>4. Good(k - 1)
    <3> HIDE DEF Good
    <3>1. k - 1 \in Nat /\ k - 1 <= Len(calls) /\ ~(k <= k - 1)
      BY <2>2, <2>3
    <3>2. k - 1 \notin Bad
      <4> HIDE DEF Bad
      <4> QED BY <2>1, <3>1
    <3> QED BY <3>1, <3>2
  <2>5. k \in 1 .. Len(calls)
    BY <2>2, <2>3
  <2> QED BY <1>2, <2>2, <2>4, <2>5
<1>4. Good(made)
  <2> HIDE DEF Good
  <2> QED BY <1>3
<1> QED BY <1>1, <1>2, <1>4

-----------------------------------------------------------------------------
(* The replies of the OpenJTAG *)

Operation ==
  {[op |-> "open"], [op |-> "move"], [op |-> "id"], [op |-> "idle"], [op |-> "ir", str |-> EXTEST]}
  \cup [op : {"dr"}, str : Seq(Bit), read : BOOLEAN]
Listed(s) == Len(s) \in Nat /\ s = [k \in 1 .. Len(s) |-> s[k]]

Fits(o, k) ==
  /\ o.op = "open" => k = 1 /\ cable.state = "closed"
  /\ o.op = "move" => job.from \in Stable /\ job.to \in Stable
  /\ o.op = "dr" => Len(o.str) >= 1 /\ (o.read => Len(o.str) = Len(job.wr))

\* The operations to come: only the first may be to open, and only once.
Queued ==
  /\ ops \in Seq(Operation) /\ buffer \in Seq(Command) /\ expect \in Nat /\ Listed(received)
  /\ cable = [state |-> cable.state, chip |-> cable.chip, byte |-> cable.byte]
  /\ cable.state \in {"closed", "open", "failed", "quit"}
  /\ \A k \in 1 .. Len(ops) : Fits(ops[k], k)
  /\ cable.state = "closed" =>
       ops # <<>> /\ ops[1].op = "open" /\ buffer = <<>> /\ expect = 0
  /\ cable.state \in {"failed", "quit"} => ops = <<>> /\ buffer = <<>> /\ expect = 0

\* What came and what is still to come make up what was predicted.
Counted ==
  cable.state = "open" =>
    \E n : Owes(buffer, n) /\ (cable.chip.mode = "mpsse" => Len(received) + n = expect)

RepliesInv ==
  IF job.cable = "openjtag" THEN job.highspeed \in BOOLEAN /\ Queued /\ Counted ELSE expect = 0

LEMMA NoneListed == Listed(<<>>) /\ Len(<<>>) = 0
BY DEF Listed

LEMMA ListedTyped ==
  ASSUME NEW s, Listed(s), NEW S, \A k \in 1 .. Len(s) : s[k] \in S
  PROVE  s \in Seq(S)
<1>1. s \in [1 .. Len(s) -> S] /\ Len(s) \in Nat
  BY DEF Listed
<1> QED BY <1>1

LEMMA TypedListed ==
  ASSUME NEW S, NEW s \in Seq(S)
  PROVE  Listed(s)
BY DEF Listed

LEMMA JoinListed ==
  ASSUME NEW a, NEW b, Listed(a), Listed(b)
  PROVE  Listed(a \o b) /\ Len(a \o b) = Len(a) + Len(b)
<1> DEFINE S == {a[k] : k \in 1 .. Len(a)} \cup {b[k] : k \in 1 .. Len(b)}
<1>1. (\A k \in 1 .. Len(a) : a[k] \in S) /\ (\A k \in 1 .. Len(b) : b[k] \in S)
  OBVIOUS
<1> HIDE DEF S
<1>2. a \in Seq(S) /\ b \in Seq(S)
  BY <1>1, ListedTyped
<1>3. a \o b \in Seq(S) /\ Len(a \o b) = Len(a) + Len(b)
  BY <1>2
<1> QED BY <1>3, TypedListed

LEMMA RestListed ==
  ASSUME NEW s, Listed(s), NEW m \in Nat, m <= Len(s)
  PROVE  Listed(SubSeq(s, m + 1, Len(s))) /\ Len(SubSeq(s, m + 1, Len(s))) = Len(s) - m
<1> DEFINE S == {s[k] : k \in 1 .. Len(s)}
<1>1. \A k \in 1 .. Len(s) : s[k] \in S
  OBVIOUS
<1> HIDE DEF S
<1>2. s \in Seq(S)
  BY <1>1, ListedTyped
<1> DEFINE f == m + 1
           l == Len(s)
<1>3. f \in 1 .. Len(s) + 1 /\ l \in (f - 1) .. Len(s) /\ l - f + 1 = Len(s) - m
  BY <1>2
<1> HIDE DEF f, l
<1>4. SubSeq(s, f, l) \in Seq(S) /\ Len(SubSeq(s, f, l)) = l - f + 1
  BY <1>2, <1>3, SubSeqProperties
<1> QED BY <1>3, <1>4, TypedListed DEF f, l

\* What is sent for an operation and what is predicted for it.
LEMMA CallOwed ==
  ASSUME NEW o \in Operation, o.op # "open",
         o.op = "move" => job.from \in Stable /\ job.to \in Stable,
         o.op = "dr" => Len(o.str) >= 1 /\ (o.read => Len(o.str) = Len(job.wr))
  PROVE  LET n == CASE o.op = "id" -> 4
                    [] o.op = "dr" /\ o.read -> ft2232_predict_scan_in(Len(job.wr))
                    [] OTHER -> 0
         IN Commands(o) \in Seq(Command) /\ Owes(Commands(o), n) /\ n \in Nat
<1> DEFINE n == CASE o.op = "id" -> 4
                  [] o.op = "dr" /\ o.read -> ft2232_predict_scan_in(Len(job.wr))
                  [] OTHER -> 0
<1>1. o.op \in {"move", "id", "idle", "ir", "dr"}
  BY DEF Operation
<1>2. SUFFICES Commands(o) \in Seq(Command) /\ Owes(Commands(o), n)
  <2>1. ASSUME NEW b \in Seq(Command), NEW m, Owes(b, m) PROVE m \in Nat
    <3>1. 0 \in 0 .. Len(b)
      OBVIOUS
    <3> QED BY <2>1, <3>1 DEF Owes
  <2> QED BY <2>1
<1>3. CASE o.op = "move"
  <2>1. Commands(o) = << Tms(TAP_MOVE(job.from, job.to), 7, FALSE) >>
    BY <1>3, Zenon DEF Commands
  <2>2. n = 0
    BY <1>3, Zenon
  <2> HIDE DEF n
  <2> QED BY <1>3, <2>1, <2>2, MoveOwed
<1>4. CASE o.op = "id"
  <2>1. Commands(o) = ft2232_readID /\ n = 4
    BY <1>4, Zenon DEF Commands
  <2> HIDE DEF n
  <2> QED BY <2>1, IdOwed
<1>5. CASE o.op = "idle"
  <2>1. Commands(o) = OpenJTAG_RunTestIdle /\ n = 0
    BY <1>5, Zenon DEF Commands
  <2> HIDE DEF n
  <2> QED BY <2>1, IdleOwed
<1>6. CASE o.op = "ir"
  <2>1. Commands(o) = OpenJTAG_ShiftIRState(o.str) /\ n = 0
    BY <1>6, Zenon DEF Commands
  <2>2. o.str = EXTEST
    BY <1>6 DEF Operation
  <2> HIDE DEF n
  <2> QED BY <2>1, <2>2, InstructionOwed
<1>7. CASE o.op = "dr"
  <2>1. Commands(o) = OpenJTAG_ShiftDRState(o.str, o.read)
    BY <1>7, Zenon DEF Commands
  <2>2. o.str \in Seq(Bit) /\ o.read \in BOOLEAN
    BY <1>7 DEF Operation
  <2>3. n = IF o.read THEN ft2232_predict_scan_in(Len(o.str)) ELSE 0
    <3>1. CASE o.read
      BY <1>7, <3>1, Zenon
    <3>2. CASE ~o.read
      BY <1>7, <3>2, Zenon
    <3> QED BY <3>1, <3>2
  <2> HIDE DEF n
  <2> QED BY <1>7, <2>1, <2>2, <2>3, ScanOwed
<1> QED BY <1>1, <1>3, <1>4, <1>5, <1>6, <1>7

\* The initial jobs.
LEMMA StringsTyped == \A n \in Lengths : \A str \in Cells[n] : str \in Seq(Bit) /\ Len(str) = n /\ n >= 1
<1> SUFFICES ASSUME NEW n \in Lengths, NEW str \in Cells[n]
             PROVE  str \in Seq(Bit) /\ Len(str) = n /\ n >= 1
  OBVIOUS
<1>1. n \in Nat \ {0}
  BY RunAssumption
<1>2. str \in [1 .. n -> Bit]
  BY CellsAssumption
<1> QED BY <1>1, <1>2

\* What kinds of jobs there are.
LEMMA JobsByKind ==
  ASSUME NEW j \in Jobs
  PROVE  \/ \E s, t \in Stable : j = Move(s, t)
         \/ \E s \in TapState, id \in IdCodes, fl \in Bit :
              \E u \in Openings \cup {NoPort} \cup OnPort(2) : j = Id(s, id, fl, u)
         \/ \E n \in Lengths : \E first, wr, c \in Cells[n] : \E s \in TapState, fl \in Bit :
              \E u \in {Usual, LoopedBack} \cup OnPort(1) : j = Scan(s, first, wr, c, fl, u)
<1>0. 1 \in Bit /\ {"RTI", "SD", "PI"} \subseteq TapState /\ "TLR" \in TapState
  BY DEF Bit, TapState
<1>1. j \in Moves \/ j \in Ids \/ \E n \in Lengths : j \in Scans(n)
  BY DEF Jobs
<1>2. CASE j \in Moves
  BY <1>2 DEF Moves
<1>3. CASE j \in Ids
  BY <1>0, <1>3 DEF Ids
<1>4. CASE \E n \in Lengths : j \in Scans(n)
  <2>1. PICK n \in Lengths : j \in Scans(n)
    BY <1>4
  <2> DEFINE X == {Scan("TLR", c, wr, c, fl, LoopedBack) :
                     wr \in Cells[n], c \in Cells[n], fl \in Bit}
             Y == {Scan(s, wr, wr, c, 1, Usual) : s \in TapState, wr \in Cells[n], c \in Cells[n]}
             Z == {Scan(s, c, wr, c, fl, u) : s \in {"RTI", "SD"}, wr \in Cells[n], c \in Cells[n],
                                              fl \in Bit, u \in OnPort(1)}
  <2>2. j \in X \/ j \in Y \/ j \in Z
    <3>1. Scans(n) = X \cup (IF n \in {1, 2, 8, 9} THEN Y ELSE {})
                       \cup (IF n \in {1, 2, 9} THEN Z ELSE {})
      BY DEF Scans
    <3> HIDE DEF X, Y, Z
    <3> QED BY <2>1, <3>1
  <2> DEFINE Good == \E first, wr, c \in Cells[n] : \E s \in TapState, fl \in Bit :
                       \E u \in {Usual, LoopedBack} \cup OnPort(1) : j = Scan(s, first, wr, c, fl, u)
  <2>3. ASSUME j \in X PROVE Good
    <3>1. PICK wr \in Cells[n], c \in Cells[n], fl \in Bit : j = Scan("TLR", c, wr, c, fl, LoopedBack)
      BY <2>3
    <3>2. LoopedBack \in {Usual, LoopedBack} \cup OnPort(1)
      OBVIOUS
    <3> QED BY <1>0, <3>1, <3>2, Zenon
  <2>4. ASSUME j \in Y PROVE Good
    <3>1. PICK s \in TapState, wr \in Cells[n], c \in Cells[n] : j = Scan(s, wr, wr, c, 1, Usual)
      BY <2>4
    <3>2. Usual \in {Usual, LoopedBack} \cup OnPort(1)
      OBVIOUS
    <3> QED BY <1>0, <3>1, <3>2, Zenon
  <2>5. ASSUME j \in Z PROVE Good
    <3>1. PICK s \in {"RTI", "SD"}, wr \in Cells[n], c \in Cells[n], fl \in Bit, u \in OnPort(1) :
            j = Scan(s, c, wr, c, fl, u)
      BY <2>5
    <3>2. u \in {Usual, LoopedBack} \cup OnPort(1) /\ s \in TapState
      BY <1>0
    <3> QED BY <3>1, <3>2, Zenon
  <2> HIDE DEF X, Y, Z
  <2> QED BY <2>1, <2>2, <2>3, <2>4, <2>5
<1> QED BY <1>1, <1>2, <1>3, <1>4

LEMMA JobsTyped ==
  ASSUME NEW j \in Jobs, j.cable = "openjtag"
  PROVE  /\ j.highspeed \in BOOLEAN /\ j.opens \in {0, 1}
         /\ j.opens = 0 => j.found = Plugged
         /\ \/ j.kind = "move" /\ j.from \in Stable /\ j.to \in Stable /\ j.opens = 0
            \/ j.kind = "id" /\ j.opens = 1
            \/ /\ j.kind = "scan" /\ j.first \in Seq(Bit) /\ Len(j.first) >= 1
               /\ j.wr \in Seq(Bit) /\ Len(j.wr) >= 1
<1>1. ASSUME NEW s \in Stable, NEW t \in Stable, j = Move(s, t)
      PROVE  /\ j.highspeed \in BOOLEAN /\ j.opens = 0 /\ j.found = Plugged
             /\ j.kind = "move" /\ j.from \in Stable /\ j.to \in Stable
  BY <1>1 DEF Move, Usual
<1>2. ASSUME NEW s, NEW id, NEW fl, NEW u \in Openings \cup {NoPort} \cup OnPort(2), j = Id(s, id, fl, u)
      PROVE  /\ j.highspeed \in BOOLEAN /\ j.opens = 1 /\ j.kind = "id"
  <2>1. CASE u \in Openings
    <3>2. PICK b \in {"libftdi", "ftd2xx"}, h \in BOOLEAN, f \in {Plugged, LeftOpen} :
            u = Opening(b, h, f)
      BY <2>1 DEF Openings
    <3> QED BY <1>2, <3>2 DEF Id, Opening, Usual
  <2>2. CASE u = NoPort
    <3>1. j.cable = "dongle"
      BY <1>2, <2>2 DEF Id, NoPort, Port, Usual
    <3> QED BY <3>1
  <2>3. CASE u \in OnPort(2)
    <3>1. PICK c \in {"dongle", "wiggler"}, q \in {{1}, {2, 3}} :
            u = Port(c, 2, q)
      BY <2>3 DEF OnPort
    <3>2. j.cable = c
      BY <1>2, <3>1 DEF Id, Port, Usual
    <3> QED BY <3>2
  <2> QED BY <2>1, <2>2, <2>3
<1>3. ASSUME NEW s, NEW n \in Lengths, NEW first \in Cells[n], NEW wr \in Cells[n], NEW c, NEW fl,
             NEW u \in {Usual, LoopedBack} \cup OnPort(1),
             j = Scan(s, first, wr, c, fl, u)
      PROVE  /\ j.highspeed \in BOOLEAN /\ j.opens \in {0, 1} /\ (j.opens = 0 => j.found = Plugged)
             /\ j.kind = "scan" /\ j.first \in Seq(Bit) /\ Len(j.first) >= 1
             /\ j.wr \in Seq(Bit) /\ Len(j.wr) >= 1
  <2>1. first \in Seq(Bit) /\ Len(first) >= 1 /\ wr \in Seq(Bit) /\ Len(wr) >= 1
    BY StringsTyped
  <2>2. CASE u = Usual
    <3>1. /\ j.highspeed = FALSE /\ j.opens = 0 /\ j.found = Plugged
          /\ j.kind = "scan" /\ j.first = first /\ j.wr = wr
      BY <1>3, <2>2 DEF Scan, Usual
    <3> QED BY <2>1, <3>1
  <2>3. CASE u = LoopedBack
    <3>1. /\ j.highspeed = FALSE /\ j.opens = 1
          /\ j.kind = "scan" /\ j.first = first /\ j.wr = wr
      BY <1>3, <2>3 DEF Scan, LoopedBack, Opening, Usual
    <3>2. j.opens \in {0, 1} /\ (j.opens = 0 => j.found = Plugged)
      BY <3>1
    <3> QED BY <2>1, <3>1, <3>2
  <2>4. CASE u \in OnPort(1)
    <3>1. PICK o \in {"dongle", "wiggler"}, q \in {{1}, {2, 3}} :
            u = Port(o, 1, q)
      BY <2>4 DEF OnPort
    <3>2. j.cable = o
      BY <1>3, <3>1 DEF Scan, Port, Usual
    <3> QED BY <3>2
  <2> QED BY <2>2, <2>3, <2>4
<1>4. CASE \E s, t \in Stable : j = Move(s, t)
  BY <1>1, <1>4
<1>5. CASE \E s, id, fl : \E u \in Openings \cup {NoPort} \cup OnPort(2) : j = Id(s, id, fl, u)
  BY <1>2, <1>5
<1>6. CASE \E n \in Lengths : \E first, wr \in Cells[n] : \E s, c, fl :
             \E u \in {Usual, LoopedBack} \cup OnPort(1) :
               j = Scan(s, first, wr, c, fl, u)
  BY <1>3, <1>6
<1> QED BY <1>4, <1>5, <1>6, JobsByKind

\* One element in front of others.
InFront(o, q) == << o >> \o q

LEMMA OneMore ==
  ASSUME NEW S, NEW o \in S, NEW q \in Seq(S)
  PROVE  /\ InFront(o, q) \in Seq(S) /\ Len(InFront(o, q)) = Len(q) + 1 /\ InFront(o, q)[1] = o
         /\ \A k \in 1 .. Len(q) : InFront(o, q)[k + 1] = q[k]
<1>1. ASSUME NEW l \in Seq(S)
      PROVE  /\ l \o q \in Seq(S) /\ Len(l \o q) = Len(l) + Len(q)
             /\ \A k \in 1 .. Len(l) : (l \o q)[k] = l[k]
             /\ \A k \in 1 .. Len(q) : (l \o q)[k + Len(l)] = q[k]
  OBVIOUS
<1> DEFINE l == << o >>
<1>2. l \in Seq(S) /\ Len(l) = 1 /\ l[1] = o
  OBVIOUS
<1> HIDE DEF l
<1>3. /\ l \o q \in Seq(S) /\ Len(l \o q) = Len(l) + Len(q)
      /\ \A k \in 1 .. Len(l) : (l \o q)[k] = l[k]
      /\ \A k \in 1 .. Len(q) : (l \o q)[k + Len(l)] = q[k]
  BY <1>1, <1>2, Zenon
<1> DEFINE w == l \o q
<1> HIDE DEF w
<1>4. /\ w \in Seq(S) /\ Len(w) = 1 + Len(q)
      /\ \A k \in 1 .. 1 : w[k] = l[k]
      /\ \A k \in 1 .. Len(q) : w[k + 1] = q[k]
  BY <1>2, <1>3, Zenon DEF w
<1>5. Len(w) = Len(q) + 1 /\ w[1] = o
  BY <1>2, <1>4
<1>6. InFront(o, q) = w
  BY DEF InFront, w, l
<1> QED BY <1>4, <1>5, <1>6

LEMMA InitReplies == Init => RepliesInv
<1> SUFFICES ASSUME Init PROVE RepliesInv
  OBVIOUS
<1>1. /\ job \in Jobs /\ ops = Begin(job) /\ buffer = <<>> /\ expect = 0
      /\ cable = IF job.opens = 0 THEN [state |-> "open", chip |-> Configured, byte |-> 0]
                 ELSE [state |-> "closed", chip |-> job.found, byte |-> 0]
      /\ received = IF job.found = LeftOpen THEN << Bits(250), Bits(75) >> ELSE <<>>
  BY DEF Init
<1>2. SUFFICES ASSUME job.cable = "openjtag" PROVE job.highspeed \in BOOLEAN /\ Queued /\ Counted
  BY <1>1 DEF RepliesInv
<1> HIDE DEF Init
<1>3. /\ job.highspeed \in BOOLEAN /\ job.opens \in {0, 1}
      /\ job.opens = 0 => job.found = Plugged
      /\ \/ job.kind = "move" /\ job.from \in Stable /\ job.to \in Stable /\ job.opens = 0
         \/ job.kind = "id" /\ job.opens = 1
         \/ /\ job.kind = "scan" /\ job.first \in Seq(Bit) /\ Len(job.first) >= 1
            /\ job.wr \in Seq(Bit) /\ Len(job.wr) >= 1
  BY <1>1, <1>2, JobsTyped
<1>4. Plugged # LeftOpen
  BY DEF Plugged, LeftOpen, Chip
<1>5. <<>> \in Seq(Command) /\ Owes(<<>>, 0)
  <2>1. <<>> \in Seq(Command) /\ Len(<<>>) = 0
    OBVIOUS
  <2>2. \A k \in 1 .. Len(<<>>) : ~<<>>[k].read
    BY <2>1
  <2> QED BY <2>1, <2>2, OwesNothing
<1>6. Listed(received) /\ (job.opens = 0 => Len(received) = 0)
  <2>1. CASE job.found = LeftOpen
    <3>1. Listed(<< Bits(250), Bits(75) >>)
      BY DEF Listed
    <3> QED BY <1>1, <1>3, <1>4, <2>1, <3>1
  <2>2. CASE job.found # LeftOpen
    BY <1>1, <2>2, NoneListed
  <2> QED BY <2>1, <2>2
<1>7. Counted
  BY <1>1, <1>5, <1>6 DEF Counted
<1> DEFINE Typed == /\ ops \in Seq(Operation)
                    /\ \A k \in 1 .. Len(ops) : Fits(ops[k], k)
                    /\ cable.state = "closed" => ops # <<>> /\ ops[1].op = "open"
<1>8. cable.state = IF job.opens = 0 THEN "open" ELSE "closed"
  BY <1>1
<1> DEFINE O == [op |-> "open"]
           M == [op |-> "move"]
           I == [op |-> "id"]
<1>9. O \in Operation /\ M \in Operation /\ I \in Operation
  BY DEF Operation
<1>10. ASSUME job.kind = "move" PROVE Typed
  <2>1. ops = << M >>
    BY <1>1, <1>10 DEF Begin
  <2>2. Fits(M, 1) /\ cable.state = "open"
    BY <1>3, <1>8, <1>10 DEF Fits
  <2> HIDE DEF M
  <2>3. ops \in Seq(Operation) /\ Len(ops) = 1 /\ ops[1] = M /\ \A k \in 1 .. 1 : k = 1
    BY <1>9, <2>1
  <2> QED BY <2>2, <2>3
<1>11. ASSUME job.kind = "id" PROVE Typed
  <2>1. ops = [k \in 1 .. 2 |-> [op |-> IF k % 2 = 1 THEN "open" ELSE "id"]]
    BY <1>1, <1>3, <1>11 DEF Begin
  <2>2. ops \in Seq(Operation) /\ Len(ops) = 2 /\ ops[1] = O /\ ops[2] = I
    <3>1. \A k \in 1 .. 2 : [op |-> IF k % 2 = 1 THEN "open" ELSE "id"] \in Operation
      BY <1>9
    <3>2. ops \in [1 .. 2 -> Operation]
      BY <2>1, <3>1
    <3>3. \A n \in Nat : \A s \in [1 .. n -> Operation] : s \in Seq(Operation) /\ Len(s) = n
      OBVIOUS
    <3>4. ops \in Seq(Operation) /\ Len(ops) = 2
      BY <3>2, <3>3
    <3>5. ops[1] = O /\ ops[2] = I
      BY <2>1
    <3> QED BY <3>4, <3>5
  <2>3. Fits(O, 1) /\ Fits(I, 2) /\ O.op = "open"
    BY <1>3, <1>8, <1>11 DEF Fits
  <2> HIDE DEF O, I
  <2>4. \A k \in 1 .. 2 : k = 1 \/ k = 2
    OBVIOUS
  <2>5. ops # <<>>
    BY <2>2
  <2> QED BY <2>2, <2>3, <2>4, <2>5
<1>12. ASSUME job.kind = "scan" PROVE Typed
  <2> DEFINE a == [op |-> "idle"]
             b == [op |-> "ir", str |-> EXTEST]
             c == [op |-> "dr", str |-> job.first, read |-> FALSE]
             d == [op |-> "dr", str |-> job.wr, read |-> TRUE]
  <2>1. ops = [k \in 1 .. job.opens |-> O] \o << a, b, c, d >>
    BY <1>1, <1>12 DEF Begin
  <2>2. /\ job.first \in Seq(Bit) /\ Len(job.first) >= 1
        /\ job.wr \in Seq(Bit) /\ Len(job.wr) >= 1
    BY <1>3, <1>12
  <2>3. a \in Operation /\ b \in Operation /\ c \in Operation /\ d \in Operation
    BY <2>2 DEF Operation
  <2>4. /\ \A k : Fits(a, k) /\ Fits(b, k) /\ Fits(c, k) /\ Fits(d, k)
        /\ cable.state = "closed" => Fits(O, 1)
        /\ O.op = "open"
    BY <2>2 DEF Fits
  <2> HIDE DEF a, b, c, d, O
  <2> DEFINE q == << a, b, c, d >>
  <2>q. q \in Seq(Operation) /\ Len(q) = 4 /\ q[1] = a /\ q[2] = b /\ q[3] = c /\ q[4] = d
    BY <2>3
  <2> HIDE DEF q
  <2>5. CASE job.opens = 0
    <3>1. [k \in 1 .. job.opens |-> O] = <<>>
      BY <2>5
    <3>2. ops = <<>> \o q
      BY <2>1, <3>1 DEF q
    <3>3. <<>> \o q = q
      BY <2>q
    <3>4. \A k \in 1 .. 4 : k = 1 \/ k = 2 \/ k = 3 \/ k = 4
      OBVIOUS
    <3>5. cable.state = "open"
      BY <1>8, <2>5
    <3>6. \A k \in 1 .. 4 : Fits(q[k], k)
      BY <2>4, <2>q, <3>4
    <3> QED BY <2>q, <3>2, <3>3, <3>5, <3>6
  <2>6. CASE job.opens = 1
    <3>1. [k \in 1 .. job.opens |-> O] = << O >>
      BY <2>6
    <3>2. ops = << O >> \o q
      BY <2>1, <3>1 DEF q
    <3> DEFINE w == InFront(O, q)
    <3>3. w \in Seq(Operation) /\ Len(w) = 5 /\ w[1] = O /\ \A k \in 1 .. 4 : w[k + 1] = q[k]
      <4>o. O \in Operation /\ q \in Seq(Operation)
        BY <1>9, <2>q
      <4>1. w \in Seq(Operation)
        BY <4>o, OneMore, Zenon
      <4>2. Len(w) = Len(q) + 1
        BY <4>o, OneMore
      <4>3. w[1] = O
        BY <4>o, OneMore, Zenon
      <4>4. \A k \in 1 .. Len(q) : w[k + 1] = q[k]
        <5> HIDE DEF InFront
        <5> QED BY <4>o, OneMore, SMTT(30)
      <4> HIDE DEF w
      <4> QED BY <2>q, <4>1, <4>2, <4>3, <4>4
    <3> HIDE DEF w
    <3>w. w[2] = q[1] /\ w[3] = q[2] /\ w[4] = q[3] /\ w[5] = q[4]
      <4>1. 1 \in 1 .. 4 /\ 2 \in 1 .. 4 /\ 3 \in 1 .. 4 /\ 4 \in 1 .. 4
        OBVIOUS
      <4> QED BY <3>3, <4>1
    <3>4. \A k \in 1 .. 5 : k = 1 \/ k = 2 \/ k = 3 \/ k = 4 \/ k = 5
      OBVIOUS
    <3>5. cable.state = "closed"
      BY <1>8, <2>6
    <3>6. ops \in Seq(Operation) /\ Len(ops) = 5 /\ ops[1] = O
      BY <3>2, <3>3 DEF w, InFront
    <3>7. \A k \in 1 .. 5 : Fits(ops[k], k)
      BY <2>4, <2>q, <3>2, <3>3, <3>w, <3>4, <3>5 DEF w, InFront
    <3>8. ops # <<>>
      BY <3>6
    <3> QED BY <2>4, <3>6, <3>7, <3>8
  <2> QED BY <1>3, <2>5, <2>6
<1>13. Typed
  BY <1>3, <1>10, <1>11, <1>12
<1>c. cable = [state |-> cable.state, chip |-> cable.chip, byte |-> cable.byte]
  BY <1>1
<1>14. Queued
  BY <1>c, <1>1, <1>5, <1>6, <1>8, <1>13 DEF Queued
<1> QED BY <1>3, <1>7, <1>14

\* An operation that may be called as it is, and what is left of the operations
\* after the first.
Callable(o) ==
  /\ o.op # "open"
  /\ o.op = "move" => job.from \in Stable /\ job.to \in Stable
  /\ o.op = "dr" => Len(o.str) >= 1 /\ (o.read => Len(o.str) = Len(job.wr))

LEMMA OperationsLeft ==
  ASSUME ops \in Seq(Operation), ops # <<>>, \A k \in 1 .. Len(ops) : Fits(ops[k], k)
  PROVE  /\ Tail(ops) \in Seq(Operation) /\ Head(ops) \in Operation /\ Fits(Head(ops), 1)
         /\ \A k \in 1 .. Len(Tail(ops)) : Callable(Tail(ops)[k])
<1>1. /\ Tail(ops) \in Seq(Operation) /\ Head(ops) = ops[1] /\ ops[1] \in Operation
      /\ 1 \in 1 .. Len(ops) /\ Len(Tail(ops)) = Len(ops) - 1 /\ Len(ops) \in Nat
      /\ \A k \in 1 .. Len(ops) - 1 : Tail(ops)[k] = ops[k + 1]
  OBVIOUS
<1>2. ASSUME NEW k \in 1 .. Len(Tail(ops)) PROVE Callable(Tail(ops)[k])
  <2>1. k + 1 \in 1 .. Len(ops) /\ k + 1 # 1 /\ Tail(ops)[k] = ops[k + 1]
    BY <1>1
  <2>2. Fits(ops[k + 1], k + 1)
    BY <2>1
  <2>3. \A o, i : Fits(o, i) /\ i # 1 => Callable(o)
    BY DEF Fits, Callable
  <2> QED BY <2>1, <2>2, <2>3
<1> QED BY <1>1, <1>2

LEMMA OpenCallable ==
  ASSUME \A k \in 1 .. Len(ops) : Fits(ops[k], k), cable.state = "open"
  PROVE  \A k \in 1 .. Len(ops) : Callable(ops[k])
BY DEF Fits, Callable

LEMMA CallableFits ==
  ASSUME job' = job, \A k \in 1 .. Len(ops') : Callable(ops'[k])
  PROVE  (\A k \in 1 .. Len(ops) : Fits(ops[k], k))'
BY DEF Fits, Callable

LEMMA CableChanged ==
  ASSUME NEW c, c = [state |-> c.state, chip |-> c.chip, byte |-> c.byte],
         NEW d, NEW x, NEW y, d = [c EXCEPT !.chip = x, !.state = y]
  PROVE  d = [state |-> d.state, chip |-> d.chip, byte |-> d.byte] /\ d.state = y /\ d.chip = x
OBVIOUS

\* No step disturbs the replies.
LEMMA StepReplies == RepliesInv /\ [Next]_vars => RepliesInv'
<1> SUFFICES ASSUME RepliesInv, [Next]_vars PROVE RepliesInv'
  OBVIOUS
<1>1. job' = job
  BY DEF Next, vars, OpenFt2232, OpenPpt, CallPort, Access, Call, Execute, Read, ReadFails, Quit, Stay
<1>2. CASE job.cable # "openjtag"
  <2>1. expect = 0 /\ expect' = 0
    BY <1>2 DEF RepliesInv, Next, vars, OpenFt2232, OpenPpt, CallPort, Access, Call, Execute,
                Read, ReadFails, Quit, Stay
  <2> QED BY <1>1, <1>2, <2>1 DEF RepliesInv
<1>3. CASE job.cable = "openjtag"
  <2>1. job.highspeed \in BOOLEAN /\ Queued /\ Counted
    BY <1>3 DEF RepliesInv
  <2>2. SUFFICES Queued' /\ Counted'
    BY <1>1, <1>3, <2>1 DEF RepliesInv
  <2>t. /\ ops \in Seq(Operation) /\ buffer \in Seq(Command) /\ expect \in Nat /\ Listed(received)
        /\ cable = [state |-> cable.state, chip |-> cable.chip, byte |-> cable.byte]
        /\ cable.state \in {"closed", "open", "failed", "quit"}
        /\ \A k \in 1 .. Len(ops) : Fits(ops[k], k)
        /\ cable.state = "closed" =>
             ops # <<>> /\ ops[1].op = "open" /\ buffer = <<>> /\ expect = 0
        /\ cable.state \in {"failed", "quit"} => ops = <<>> /\ buffer = <<>> /\ expect = 0
    BY <2>1 DEF Queued
  <2>n. /\ <<>> \in Seq(Operation) /\ <<>> \in Seq(Command) /\ Listed(<<>>) /\ Len(<<>>) = 0
        /\ Owes(<<>>, 0)
    <3>1. <<>> \in Seq(Command) /\ <<>> \in Seq(Operation) /\ Len(<<>>) = 0
      OBVIOUS
    <3>2. \A k \in 1 .. Len(<<>>) : ~<<>>[k].read
      BY <3>1
    <3> QED BY <3>1, <3>2, OwesNothing, NoneListed
  <2>p. ASSUME Calling
        PROVE  /\ Tail(ops) \in Seq(Operation) /\ Head(ops) \in Operation /\ Fits(Head(ops), 1)
               /\ \A k \in 1 .. Len(Tail(ops)) : Callable(Tail(ops)[k])
               /\ buffer = <<>> /\ expect = 0
    BY <2>t, <2>p, OperationsLeft DEF Calling
  <2>f. ASSUME \A k \in 1 .. Len(ops') : Callable(ops'[k])
        PROVE  (\A k \in 1 .. Len(ops) : Fits(ops[k], k))'
    BY <1>1, <2>f, CallableFits
  <2>o. ASSUME cable.state = "open", ops' = ops
        PROVE  \A k \in 1 .. Len(ops') : Callable(ops'[k])
    BY <2>t, <2>o, OpenCallable
  <2>3. CASE OpenFt2232
    <3> DEFINE calls == ft2232_init(job.build, job.highspeed)
    <3>1. PICK made \in 0 .. Len(calls), lost \in Unseen(calls) :
            LET now == Calls([chip |-> cable.chip, dev |-> dev, rx |-> received], calls, lost)[made]
                opened == made = Len(calls)
            IN /\ received' = now.rx
               /\ cable' = [cable EXCEPT !.chip = now.chip,
                                         !.state = IF opened THEN "open" ELSE "failed"]
               /\ IF opened THEN ops' = Tail(ops) ELSE ops' = <<>>
      BY <2>3 DEF OpenFt2232, GivenUp
    <3>2. Calling /\ buffer' = buffer /\ expect' = expect /\ Head(ops).op = "open"
      BY <2>3 DEF OpenFt2232
    <3>3. Len(calls) \in Nat \ {0} /\ calls[Len(calls)].call = "purge"
      BY <2>1, InitPurges
    <3> HIDE DEF calls
    <3> DEFINE start == [chip |-> cable.chip, dev |-> dev, rx |-> received]
               now == Calls(start, calls, lost)[made]
    <3>4. start.rx = received
      OBVIOUS
    <3> HIDE DEF start
    <3>5. now.rx = start.rx \/ now.rx = <<>>
      BY <3>3, CallsReceive
    <3>6. made > 0 /\ calls[made].call = "purge" => now.rx = <<>>
      BY <3>3, CallsReceive
    <3>7. /\ received' = now.rx
          /\ cable' = [cable EXCEPT !.chip = now.chip,
                                    !.state = IF made = Len(calls) THEN "open" ELSE "failed"]
          /\ IF made = Len(calls) THEN ops' = Tail(ops) ELSE ops' = <<>>
      BY <3>1 DEF start
    <3> DEFINE y == IF made = Len(calls) THEN "open" ELSE "failed"
    <3> HIDE DEF now, y
    <3>8. cable' = [cable EXCEPT !.chip = now.chip, !.state = y]
      BY <3>7 DEF y
    <3>9. /\ cable' = [state |-> cable'.state, chip |-> cable'.chip, byte |-> cable'.byte]
          /\ cable'.state = y
      BY <2>t, <3>8, CableChanged
    <3>10. Listed(received')
      BY <2>t, <2>n, <3>4, <3>5, <3>7
    <3>11. CASE made = Len(calls)
      <4>1. cable'.state = "open" /\ ops' = Tail(ops) /\ received' = <<>>
        BY <3>3, <3>6, <3>7, <3>9, <3>11 DEF y
      <4>2. /\ ops' \in Seq(Operation) /\ buffer' = <<>> /\ expect' = 0
            /\ \A k \in 1 .. Len(ops') : Callable(ops'[k])
        BY <2>p, <3>2, <4>1
      <4>3. Queued'
        BY <2>f, <2>n, <3>9, <3>10, <4>1, <4>2 DEF Queued, Listed
      <4>4. Len(received') + 0 = expect'
        BY <2>n, <4>1, <4>2
      <4>5. Counted'
        BY <2>n, <4>2, <4>4 DEF Counted
      <4> QED BY <4>3, <4>5
    <3>12. CASE made # Len(calls)
      <4>1. cable'.state = "failed" /\ ops' = <<>>
        BY <3>7, <3>9, <3>12 DEF y
      <4>2. buffer' = <<>> /\ expect' = 0 /\ ops' \in Seq(Operation)
        BY <2>n, <2>p, <3>2, <4>1
      <4>3. \A k \in 1 .. Len(ops') : Callable(ops'[k])
        BY <4>1
      <4>4. Queued'
        BY <2>f, <2>n, <3>9, <3>10, <4>1, <4>2, <4>3 DEF Queued, Listed
      <4>5. Counted'
        BY <4>1 DEF Counted
      <4> QED BY <4>4, <4>5
    <3> QED BY <3>11, <3>12
  <2>4. CASE Call
    <3> DEFINE o == Head(ops)
               n == CASE o.op = "id" -> 4
                      [] o.op = "dr" /\ o.read -> ft2232_predict_scan_in(Len(job.wr))
                      [] OTHER -> 0
    <3>1. /\ Calling /\ o.op # "open" /\ buffer' = Commands(o) /\ expect' = n
          /\ ops' = Tail(ops) /\ cable' = cable /\ received' = received
      BY <2>4 DEF Call
    <3>2. cable.state = "open"
      <4>1. ops # <<>> /\ Head(ops) = ops[1]
        BY <2>t, <3>1 DEF Calling
      <4> QED BY <2>t, <3>1, <4>1
    <3>3. o \in Operation /\ Fits(o, 1)
      BY <2>p, <3>1
    <3>4. /\ o.op = "move" => job.from \in Stable /\ job.to \in Stable
          /\ o.op = "dr" => Len(o.str) >= 1 /\ (o.read => Len(o.str) = Len(job.wr))
      BY <3>3 DEF Fits
    <3>5. Commands(o) \in Seq(Command) /\ Owes(Commands(o), n) /\ n \in Nat
      <4> HIDE DEF o
      <4> QED BY <3>1, <3>3, <3>4, CallOwed
    <3> HIDE DEF o, n
    <3>6. \A k \in 1 .. Len(ops') : Callable(ops'[k])
      BY <2>p, <3>1
    <3>7. ops' \in Seq(Operation)
      BY <2>p, <3>1
    <3>8. Queued'
      BY <2>t, <2>f, <3>1, <3>2, <3>5, <3>6, <3>7 DEF Queued, Listed
    <3>9. cable.chip.mode = "mpsse" => Len(received) = 0
      <4>1. PICK m : Owes(buffer, m) /\ (cable.chip.mode = "mpsse" => Len(received) + m = expect)
        BY <2>1, <3>2 DEF Counted
      <4>2. buffer = <<>> /\ expect = 0
        BY <2>p, <3>1
      <4>3. m = 0
        BY <4>1, <4>2, OwesEnd
      <4>4. Len(received) \in Nat
        BY <2>t DEF Listed
      <4> QED BY <4>1, <4>2, <4>3, <4>4
    <3>10. Owes(buffer', n) /\ (cable'.chip.mode = "mpsse" => Len(received') + n = expect')
      BY <3>1, <3>5, <3>9
    <3>11. Counted'
      BY <3>10 DEF Counted
    <3> QED BY <3>8, <3>11
  <2>5. CASE Execute
    <3> DEFINE c == Head(buffer)
               d == [dev EXCEPT !.tdo = <<>>]
               tms == IF c.op = "tms" THEN TmsBits(c) ELSE [k \in 1 .. c.n * Len(c.data) |-> 0]
               tdi == IF c.op = "tms" THEN TmsTdi(c) ELSE DataBits(c)
               after == IF Reaches(cable.chip) THEN Clocks(d, tms, tdi)
                        ELSE [d EXCEPT !.tdo = [k \in DOMAIN tms |-> d.float]]
               in == IF cable.chip.loopback THEN tdi ELSE after.tdo
               back == [j \in 1 .. Len(c.data) |-> Arrived(SubSeq(in, c.n * (j - 1) + 1, c.n * j))]
    <3>1. /\ buffer # <<>> /\ buffer' = Tail(buffer) /\ ops' = ops /\ cable' = cable
          /\ expect' = expect
          /\ received' = IF c.read /\ cable.chip.mode = "mpsse" THEN received \o back ELSE received
      BY <2>5 DEF Execute
    <3>2. cable.state = "open"
      BY <2>t, <3>1
    <3>3. c \in Command /\ Tail(buffer) \in Seq(Command)
      <4>1. \A q \in Seq(Command) : q # <<>> => Head(q) \in Command /\ Tail(q) \in Seq(Command)
        OBVIOUS
      <4> QED BY <2>t, <3>1, <3>2, <4>1
    <3>4. Len(c.data) \in Nat
      <4> HIDE DEF c
      <4> QED BY <3>3 DEF Command
    <3>5. Listed(back) /\ Len(back) = Len(c.data)
      <4> HIDE DEF c, in
      <4>1. Len(back) = Len(c.data)
        BY <3>4
      <4> QED BY <3>4, <4>1 DEF Listed
    <3> HIDE DEF c, back
    <3>6. PICK m : Owes(buffer, m) /\ (cable.chip.mode = "mpsse" => Len(received) + m = expect)
      BY <2>1, <3>2 DEF Counted
    <3>7. Owes(Tail(buffer), m - Owed(c)) /\ m \in Nat /\ Owed(c) \in Nat /\ m >= Owed(c)
      BY <2>t, <3>1, <3>6, OwesTail DEF c
    <3>8. Listed(received') /\ (cable.chip.mode = "mpsse" => Len(received') = Len(received) + Owed(c))
      <4>1. CASE c.read /\ cable.chip.mode = "mpsse"
        <5>1. Listed(received \o back) /\ Len(received \o back) = Len(received) + Len(back)
          BY <2>t, <3>5, JoinListed
        <5> QED BY <3>1, <3>5, <4>1, <5>1 DEF Owed
      <4>2. CASE ~(c.read /\ cable.chip.mode = "mpsse")
        <5>1. received' = received /\ Len(received) \in Nat
          BY <2>t, <3>1, <4>2 DEF Listed
        <5>2. cable.chip.mode = "mpsse" => Owed(c) = 0
          BY <4>2 DEF Owed
        <5> QED BY <2>t, <5>1, <5>2
      <4> QED BY <4>1, <4>2
    <3>9. \A k \in 1 .. Len(ops') : Callable(ops'[k])
      BY <2>o, <3>1, <3>2
    <3>10. Queued'
      BY <2>t, <2>f, <3>1, <3>2, <3>3, <3>8, <3>9 DEF Queued, Listed
    <3>11. cable.chip.mode = "mpsse" => Len(received') + (m - Owed(c)) = expect
      <4>1. Len(received) \in Nat
        BY <2>t DEF Listed
      <4> QED BY <3>6, <3>7, <3>8, <4>1
    <3>12. /\ Owes(buffer', m - Owed(c))
           /\ cable'.chip.mode = "mpsse" => Len(received') + (m - Owed(c)) = expect'
      BY <3>1, <3>7, <3>11
    <3>13. Counted'
      BY <3>12 DEF Counted
    <3> QED BY <3>10, <3>13
  <2>6. CASE Read
    <3>1. /\ buffer = <<>> /\ expect > 0 /\ Len(received) >= expect /\ expect' = 0
          /\ received' = SubSeq(received, expect + 1, Len(received))
          /\ ops' = ops /\ buffer' = buffer /\ cable' = cable
      BY <2>6 DEF Read
    <3>2. cable.state = "open"
      BY <2>t, <3>1
    <3>3. Listed(received') /\ Len(received') = Len(received) - expect
      <4>1. expect \in Nat /\ expect <= Len(received) /\ Listed(received)
        BY <2>t, <3>1 DEF Listed
      <4> QED BY <3>1, <4>1, RestListed
    <3>4. \A k \in 1 .. Len(ops') : Callable(ops'[k])
      BY <2>o, <3>1, <3>2
    <3>5. Queued'
      BY <2>t, <2>f, <3>1, <3>2, <3>3, <3>4 DEF Queued, Listed
    <3>6. PICK m : Owes(buffer, m) /\ (cable.chip.mode = "mpsse" => Len(received) + m = expect)
      BY <2>1, <3>2 DEF Counted
    <3>7. m = 0
      BY <3>1, <3>6, OwesEnd
    <3>8. cable'.chip.mode = "mpsse" => Len(received') + 0 = expect'
      <4>1. Len(received) \in Nat
        BY <2>t DEF Listed
      <4> QED BY <2>t, <3>1, <3>3, <3>6, <3>7, <4>1
    <3>9. Owes(buffer', 0)
      BY <2>n, <3>1
    <3>10. Counted'
      BY <3>8, <3>9 DEF Counted
    <3> QED BY <3>5, <3>10
  <2>7. CASE ReadFails
    <3>1. /\ buffer = <<>> /\ expect > Len(received) /\ expect' = 0 /\ received' = <<>>
          /\ ops' = ops /\ buffer' = buffer /\ cable' = cable
      BY <2>7 DEF ReadFails
    <3>2. cable.state = "open"
      <4>1. Len(received) \in Nat
        BY <2>t DEF Listed
      <4> QED BY <2>t, <3>1, <4>1
    <3>3. \A k \in 1 .. Len(ops') : Callable(ops'[k])
      BY <2>o, <3>1, <3>2
    <3>4. Queued'
      BY <2>t, <2>f, <2>n, <3>1, <3>2, <3>3 DEF Queued, Listed
    <3>5. Owes(buffer', 0) /\ Len(received') + 0 = expect'
      BY <2>n, <3>1
    <3>6. Counted'
      BY <3>5 DEF Counted
    <3> QED BY <3>4, <3>6
  <2>8. CASE Quit
    <3>1. PICK chip :
            /\ Finished /\ cable.state = "open"
            /\ cable' = [cable EXCEPT !.chip = chip, !.state = "quit"]
            /\ ops' = ops /\ buffer' = buffer /\ expect' = expect /\ received' = received
      BY <2>8 DEF Quit
    <3>2. /\ cable' = [state |-> cable'.state, chip |-> cable'.chip, byte |-> cable'.byte]
          /\ cable'.state = "quit"
      BY <2>t, <3>1, CableChanged
    <3>3. ops' = <<>> /\ buffer' = <<>> /\ expect' = 0
      BY <3>1 DEF Finished
    <3>4. \A k \in 1 .. Len(ops') : Callable(ops'[k])
      BY <3>3
    <3>5. Queued'
      BY <2>t, <2>f, <2>n, <3>1, <3>2, <3>3, <3>4 DEF Queued, Listed
    <3>6. Counted'
      BY <3>2 DEF Counted
    <3> QED BY <3>5, <3>6
  <2>9. CASE UNCHANGED vars
    <3>1. Queued'
      BY <2>1, <2>9 DEF Queued, vars, Fits
    <3>2. Counted'
      BY <2>1, <2>9 DEF Counted, vars
    <3> QED BY <3>1, <3>2
  <2>10. CASE OpenPpt \/ CallPort \/ Access
    BY <1>3, <2>10 DEF OpenPpt, CallPort, Access
  <2> QED BY <2>3, <2>4, <2>5, <2>6, <2>7, <2>8, <2>9, <2>10 DEF Next, Stay
<1> QED BY <1>2, <1>3

\* What the replies hold carries ReplyCounted.
LEMMA RepliesAreCounted == RepliesInv => ReplyCounted
<1> SUFFICES ASSUME RepliesInv, buffer = <<>>, expect > 0, cable.chip.mode = "mpsse"
             PROVE  Len(received) = expect
  BY DEF ReplyCounted
<1>1. job.cable = "openjtag" /\ Queued /\ Counted
  BY DEF RepliesInv
<1>2. cable.state = "open"
  BY <1>1 DEF Queued
<1>3. PICK m : Owes(buffer, m) /\ Len(received) + m = expect
  BY <1>1, <1>2 DEF Counted
<1>4. m = 0
  BY <1>3, OwesEnd
<1> QED BY <1>1, <1>3, <1>4 DEF Queued, Listed

\* Whatever the number of cells, the strings scanned and the runs a command may
\* clock, and however the cable was opened: the bytes that come back in answer to a
\* read are exactly as many as ft2232_predict_scan_in said.
THEOREM RepliesCounted == Spec => []ReplyCounted
<1>1. RepliesInv /\ [Next]_vars => RepliesInv'
  BY StepReplies
<1>2. Spec => []RepliesInv
  BY InitReplies, <1>1, PTL DEF Spec
<1> QED BY <1>2, RepliesAreCounted, PTL

-----------------------------------------------------------------------------
(* The table of movements *)

LEMMA BitsOf ==
  ASSUME NEW v \in Nat
  PROVE  /\ Bits(v)[0] = v % 2 /\ Bits(v)[1] = (v \div 2) % 2
         /\ Bits(v)[2] = (v \div 4) % 2 /\ Bits(v)[3] = (v \div 8) % 2
         /\ Bits(v)[4] = (v \div 16) % 2 /\ Bits(v)[5] = (v \div 32) % 2
         /\ Bits(v)[6] = (v \div 64) % 2 /\ Bits(v)[7] = (v \div 128) % 2
<1>1. 2 ^ 0 = 1 /\ 2 ^ 1 = 2 /\ 2 ^ 2 = 4 /\ 2 ^ 3 = 8 /\ 2 ^ 4 = 16 /\ 2 ^ 5 = 32
      /\ 2 ^ 6 = 64 /\ 2 ^ 7 = 128
  OBVIOUS
<1>2. ASSUME NEW b \in 0 .. 7, NEW w, 2 ^ b = w PROVE Bits(v)[b] = (v \div w) % 2
  BY <1>2 DEF Bits
<1>3. v \div 1 = v
  OBVIOUS
<1> QED BY <1>1, <1>2, <1>3

\* Seven clocks with the bits of a byte on TMS.
Steps(s, a, b, c, d, e, f, g) ==
  TapNext(TapNext(TapNext(TapNext(TapNext(TapNext(TapNext(s, a), b), c), d), e), f), g)
Walk(s, m) == Steps(s, m[0], m[1], m[2], m[3], m[4], m[5], m[6])

\* The state diagram, arrow by arrow.
LEMMA Arrows ==
  /\ TapNext("TLR", 1) = "TLR" /\ TapNext("TLR", 0) = "RTI" /\ TapNext("RTI", 1) = "SDS" /\ TapNext("RTI", 0) = "RTI"
  /\ TapNext("SDS", 1) = "SIS" /\ TapNext("SDS", 0) = "CD" /\ TapNext("CD", 1) = "E1D" /\ TapNext("CD", 0) = "SD"
  /\ TapNext("SD", 1) = "E1D" /\ TapNext("SD", 0) = "SD" /\ TapNext("E1D", 1) = "UD" /\ TapNext("E1D", 0) = "PD"
  /\ TapNext("PD", 1) = "E2D" /\ TapNext("PD", 0) = "PD" /\ TapNext("E2D", 1) = "UD" /\ TapNext("E2D", 0) = "SD"
  /\ TapNext("UD", 1) = "SDS" /\ TapNext("UD", 0) = "RTI" /\ TapNext("SIS", 1) = "TLR" /\ TapNext("SIS", 0) = "CI"
  /\ TapNext("CI", 1) = "E1I" /\ TapNext("CI", 0) = "SI" /\ TapNext("SI", 1) = "E1I" /\ TapNext("SI", 0) = "SI"
  /\ TapNext("E1I", 1) = "UI" /\ TapNext("E1I", 0) = "PI" /\ TapNext("PI", 1) = "E2I" /\ TapNext("PI", 0) = "PI"
  /\ TapNext("E2I", 1) = "UI" /\ TapNext("E2I", 0) = "SI" /\ TapNext("UI", 1) = "SDS" /\ TapNext("UI", 0) = "RTI"
BY DEF TapNext, OnOne, OnZero

\* The value of every byte of tap_move on TMS.
Seven(m, a, b, c, d, e, f, g) ==
  m[0] = a /\ m[1] = b /\ m[2] = c /\ m[3] = d /\ m[4] = e /\ m[5] = f /\ m[6] = g
LEMMA MovesInBits ==
  /\ Seven(Bits(0), 0, 0, 0, 0, 0, 0, 0)
  /\ Seven(Bits(1), 1, 0, 0, 0, 0, 0, 0)
  /\ Seven(Bits(5), 1, 0, 1, 0, 0, 0, 0)
  /\ Seven(Bits(7), 1, 1, 1, 0, 0, 0, 0)
  /\ Seven(Bits(10), 0, 1, 0, 1, 0, 0, 0)
  /\ Seven(Bits(11), 1, 1, 0, 1, 0, 0, 0)
  /\ Seven(Bits(15), 1, 1, 1, 1, 0, 0, 0)
  /\ Seven(Bits(22), 0, 1, 1, 0, 1, 0, 0)
  /\ Seven(Bits(23), 1, 1, 1, 0, 1, 0, 0)
  /\ Seven(Bits(27), 1, 1, 0, 1, 1, 0, 0)
  /\ Seven(Bits(28), 0, 0, 1, 1, 1, 0, 0)
  /\ Seven(Bits(30), 0, 1, 1, 1, 1, 0, 0)
  /\ Seven(Bits(32), 0, 0, 0, 0, 0, 1, 0)
  /\ Seven(Bits(37), 1, 0, 1, 0, 0, 1, 0)
  /\ Seven(Bits(43), 1, 1, 0, 1, 0, 1, 0)
  /\ Seven(Bits(47), 1, 1, 1, 1, 0, 1, 0)
  /\ Seven(Bits(48), 0, 0, 0, 0, 1, 1, 0)
  /\ Seven(Bits(49), 1, 0, 0, 0, 1, 1, 0)
  /\ Seven(Bits(127), 1, 1, 1, 1, 1, 1, 1)
BY BitsOf DEF Seven

\* Every entry of tap_move leads to the state it is for.
LEMMA EveryMoveArrives == \A s, t \in Stable : Walk(s, TAP_MOVE(s, t)) = t
<1>1. ASSUME NEW s, NEW t, NEW v, NEW a, NEW b, NEW c, NEW d, NEW e, NEW f, NEW g,
             TAP_MOVE(s, t) = Bits(v), Seven(Bits(v), a, b, c, d, e, f, g),
             Steps(s, a, b, c, d, e, f, g) = t
      PROVE  Walk(s, TAP_MOVE(s, t)) = t
  BY <1>1 DEF Walk, Seven
<1>2. \A t \in Stable : Walk("TLR", TAP_MOVE("TLR", t)) = t
  <2>1. /\ TAP_MOVE("TLR", "TLR") = Bits(127)
        /\ TAP_MOVE("TLR", "RTI") = Bits(0)
        /\ TAP_MOVE("TLR", "SD") = Bits(23)
        /\ TAP_MOVE("TLR", "PD") = Bits(10)
        /\ TAP_MOVE("TLR", "SI") = Bits(27)
        /\ TAP_MOVE("TLR", "PI") = Bits(22)
    BY DEF TAP_MOVE, tap_move, tap_move_map
  <2>2. /\ Steps("TLR", 1, 1, 1, 1, 1, 1, 1) = "TLR"
        /\ Steps("TLR", 0, 0, 0, 0, 0, 0, 0) = "RTI"
        /\ Steps("TLR", 1, 1, 1, 0, 1, 0, 0) = "SD"
        /\ Steps("TLR", 0, 1, 0, 1, 0, 0, 0) = "PD"
        /\ Steps("TLR", 1, 1, 0, 1, 1, 0, 0) = "SI"
        /\ Steps("TLR", 0, 1, 1, 0, 1, 0, 0) = "PI"
    BY Arrows DEF Steps
  <2>3. Walk("TLR", TAP_MOVE("TLR", "TLR")) = "TLR"
    BY <1>1, <2>1, <2>2, MovesInBits
  <2>4. Walk("TLR", TAP_MOVE("TLR", "RTI")) = "RTI"
    BY <1>1, <2>1, <2>2, MovesInBits
  <2>5. Walk("TLR", TAP_MOVE("TLR", "SD")) = "SD"
    BY <1>1, <2>1, <2>2, MovesInBits
  <2>6. Walk("TLR", TAP_MOVE("TLR", "PD")) = "PD"
    BY <1>1, <2>1, <2>2, MovesInBits
  <2>7. Walk("TLR", TAP_MOVE("TLR", "SI")) = "SI"
    BY <1>1, <2>1, <2>2, MovesInBits
  <2>8. Walk("TLR", TAP_MOVE("TLR", "PI")) = "PI"
    BY <1>1, <2>1, <2>2, MovesInBits
  <2> QED BY <2>3, <2>4, <2>5, <2>6, <2>7, <2>8 DEF Stable
<1>3. \A t \in Stable : Walk("RTI", TAP_MOVE("RTI", t)) = t
  <2>1. /\ TAP_MOVE("RTI", "TLR") = Bits(127)
        /\ TAP_MOVE("RTI", "RTI") = Bits(0)
        /\ TAP_MOVE("RTI", "SD") = Bits(37)
        /\ TAP_MOVE("RTI", "PD") = Bits(5)
        /\ TAP_MOVE("RTI", "SI") = Bits(43)
        /\ TAP_MOVE("RTI", "PI") = Bits(11)
    BY DEF TAP_MOVE, tap_move, tap_move_map
  <2>2. /\ Steps("RTI", 1, 1, 1, 1, 1, 1, 1) = "TLR"
        /\ Steps("RTI", 0, 0, 0, 0, 0, 0, 0) = "RTI"
        /\ Steps("RTI", 1, 0, 1, 0, 0, 1, 0) = "SD"
        /\ Steps("RTI", 1, 0, 1, 0, 0, 0, 0) = "PD"
        /\ Steps("RTI", 1, 1, 0, 1, 0, 1, 0) = "SI"
        /\ Steps("RTI", 1, 1, 0, 1, 0, 0, 0) = "PI"
    BY Arrows DEF Steps
  <2>3. Walk("RTI", TAP_MOVE("RTI", "TLR")) = "TLR"
    BY <1>1, <2>1, <2>2, MovesInBits
  <2>4. Walk("RTI", TAP_MOVE("RTI", "RTI")) = "RTI"
    BY <1>1, <2>1, <2>2, MovesInBits
  <2>5. Walk("RTI", TAP_MOVE("RTI", "SD")) = "SD"
    BY <1>1, <2>1, <2>2, MovesInBits
  <2>6. Walk("RTI", TAP_MOVE("RTI", "PD")) = "PD"
    BY <1>1, <2>1, <2>2, MovesInBits
  <2>7. Walk("RTI", TAP_MOVE("RTI", "SI")) = "SI"
    BY <1>1, <2>1, <2>2, MovesInBits
  <2>8. Walk("RTI", TAP_MOVE("RTI", "PI")) = "PI"
    BY <1>1, <2>1, <2>2, MovesInBits
  <2> QED BY <2>3, <2>4, <2>5, <2>6, <2>7, <2>8 DEF Stable
<1>4. \A t \in Stable : Walk("SD", TAP_MOVE("SD", t)) = t
  <2>1. /\ TAP_MOVE("SD", "TLR") = Bits(127)
        /\ TAP_MOVE("SD", "RTI") = Bits(49)
        /\ TAP_MOVE("SD", "SD") = Bits(0)
        /\ TAP_MOVE("SD", "PD") = Bits(1)
        /\ TAP_MOVE("SD", "SI") = Bits(15)
        /\ TAP_MOVE("SD", "PI") = Bits(47)
    BY DEF TAP_MOVE, tap_move, tap_move_map
  <2>2. /\ Steps("SD", 1, 1, 1, 1, 1, 1, 1) = "TLR"
        /\ Steps("SD", 1, 0, 0, 0, 1, 1, 0) = "RTI"
        /\ Steps("SD", 0, 0, 0, 0, 0, 0, 0) = "SD"
        /\ Steps("SD", 1, 0, 0, 0, 0, 0, 0) = "PD"
        /\ Steps("SD", 1, 1, 1, 1, 0, 0, 0) = "SI"
        /\ Steps("SD", 1, 1, 1, 1, 0, 1, 0) = "PI"
    BY Arrows DEF Steps
  <2>3. Walk("SD", TAP_MOVE("SD", "TLR")) = "TLR"
    BY <1>1, <2>1, <2>2, MovesInBits
  <2>4. Walk("SD", TAP_MOVE("SD", "RTI")) = "RTI"
    BY <1>1, <2>1, <2>2, MovesInBits
  <2>5. Walk("SD", TAP_MOVE("SD", "SD")) = "SD"
    BY <1>1, <2>1, <2>2, MovesInBits
  <2>6. Walk("SD", TAP_MOVE("SD", "PD")) = "PD"
    BY <1>1, <2>1, <2>2, MovesInBits
  <2>7. Walk("SD", TAP_MOVE("SD", "SI")) = "SI"
    BY <1>1, <2>1, <2>2, MovesInBits
  <2>8. Walk("SD", TAP_MOVE("SD", "PI")) = "PI"
    BY <1>1, <2>1, <2>2, MovesInBits
  <2> QED BY <2>3, <2>4, <2>5, <2>6, <2>7, <2>8 DEF Stable
<1>5. \A t \in Stable : Walk("PD", TAP_MOVE("PD", t)) = t
  <2>1. /\ TAP_MOVE("PD", "TLR") = Bits(127)
        /\ TAP_MOVE("PD", "RTI") = Bits(48)
        /\ TAP_MOVE("PD", "SD") = Bits(32)
        /\ TAP_MOVE("PD", "PD") = Bits(23)
        /\ TAP_MOVE("PD", "SI") = Bits(30)
        /\ TAP_MOVE("PD", "PI") = Bits(47)
    BY DEF TAP_MOVE, tap_move, tap_move_map
  <2>2. /\ Steps("PD", 1, 1, 1, 1, 1, 1, 1) = "TLR"
        /\ Steps("PD", 0, 0, 0, 0, 1, 1, 0) = "RTI"
        /\ Steps("PD", 0, 0, 0, 0, 0, 1, 0) = "SD"
        /\ Steps("PD", 1, 1, 1, 0, 1, 0, 0) = "PD"
        /\ Steps("PD", 0, 1, 1, 1, 1, 0, 0) = "SI"
        /\ Steps("PD", 1, 1, 1, 1, 0, 1, 0) = "PI"
    BY Arrows DEF Steps
  <2>3. Walk("PD", TAP_MOVE("PD", "TLR")) = "TLR"
    BY <1>1, <2>1, <2>2, MovesInBits
  <2>4. Walk("PD", TAP_MOVE("PD", "RTI")) = "RTI"
    BY <1>1, <2>1, <2>2, MovesInBits
  <2>5. Walk("PD", TAP_MOVE("PD", "SD")) = "SD"
    BY <1>1, <2>1, <2>2, MovesInBits
  <2>6. Walk("PD", TAP_MOVE("PD", "PD")) = "PD"
    BY <1>1, <2>1, <2>2, MovesInBits
  <2>7. Walk("PD", TAP_MOVE("PD", "SI")) = "SI"
    BY <1>1, <2>1, <2>2, MovesInBits
  <2>8. Walk("PD", TAP_MOVE("PD", "PI")) = "PI"
    BY <1>1, <2>1, <2>2, MovesInBits
  <2> QED BY <2>3, <2>4, <2>5, <2>6, <2>7, <2>8 DEF Stable
<1>6. \A t \in Stable : Walk("SI", TAP_MOVE("SI", t)) = t
  <2>1. /\ TAP_MOVE("SI", "TLR") = Bits(127)
        /\ TAP_MOVE("SI", "RTI") = Bits(49)
        /\ TAP_MOVE("SI", "SD") = Bits(7)
        /\ TAP_MOVE("SI", "PD") = Bits(23)
        /\ TAP_MOVE("SI", "SI") = Bits(0)
        /\ TAP_MOVE("SI", "PI") = Bits(1)
    BY DEF TAP_MOVE, tap_move, tap_move_map
  <2>2. /\ Steps("SI", 1, 1, 1, 1, 1, 1, 1) = "TLR"
        /\ Steps("SI", 1, 0, 0, 0, 1, 1, 0) = "RTI"
        /\ Steps("SI", 1, 1, 1, 0, 0, 0, 0) = "SD"
        /\ Steps("SI", 1, 1, 1, 0, 1, 0, 0) = "PD"
        /\ Steps("SI", 0, 0, 0, 0, 0, 0, 0) = "SI"
        /\ Steps("SI", 1, 0, 0, 0, 0, 0, 0) = "PI"
    BY Arrows DEF Steps
  <2>3. Walk("SI", TAP_MOVE("SI", "TLR")) = "TLR"
    BY <1>1, <2>1, <2>2, MovesInBits
  <2>4. Walk("SI", TAP_MOVE("SI", "RTI")) = "RTI"
    BY <1>1, <2>1, <2>2, MovesInBits
  <2>5. Walk("SI", TAP_MOVE("SI", "SD")) = "SD"
    BY <1>1, <2>1, <2>2, MovesInBits
  <2>6. Walk("SI", TAP_MOVE("SI", "PD")) = "PD"
    BY <1>1, <2>1, <2>2, MovesInBits
  <2>7. Walk("SI", TAP_MOVE("SI", "SI")) = "SI"
    BY <1>1, <2>1, <2>2, MovesInBits
  <2>8. Walk("SI", TAP_MOVE("SI", "PI")) = "PI"
    BY <1>1, <2>1, <2>2, MovesInBits
  <2> QED BY <2>3, <2>4, <2>5, <2>6, <2>7, <2>8 DEF Stable
<1>7. \A t \in Stable : Walk("PI", TAP_MOVE("PI", t)) = t
  <2>1. /\ TAP_MOVE("PI", "TLR") = Bits(127)
        /\ TAP_MOVE("PI", "RTI") = Bits(48)
        /\ TAP_MOVE("PI", "SD") = Bits(28)
        /\ TAP_MOVE("PI", "PD") = Bits(23)
        /\ TAP_MOVE("PI", "SI") = Bits(32)
        /\ TAP_MOVE("PI", "PI") = Bits(47)
    BY DEF TAP_MOVE, tap_move, tap_move_map
  <2>2. /\ Steps("PI", 1, 1, 1, 1, 1, 1, 1) = "TLR"
        /\ Steps("PI", 0, 0, 0, 0, 1, 1, 0) = "RTI"
        /\ Steps("PI", 0, 0, 1, 1, 1, 0, 0) = "SD"
        /\ Steps("PI", 1, 1, 1, 0, 1, 0, 0) = "PD"
        /\ Steps("PI", 0, 0, 0, 0, 0, 1, 0) = "SI"
        /\ Steps("PI", 1, 1, 1, 1, 0, 1, 0) = "PI"
    BY Arrows DEF Steps
  <2>3. Walk("PI", TAP_MOVE("PI", "TLR")) = "TLR"
    BY <1>1, <2>1, <2>2, MovesInBits
  <2>4. Walk("PI", TAP_MOVE("PI", "RTI")) = "RTI"
    BY <1>1, <2>1, <2>2, MovesInBits
  <2>5. Walk("PI", TAP_MOVE("PI", "SD")) = "SD"
    BY <1>1, <2>1, <2>2, MovesInBits
  <2>6. Walk("PI", TAP_MOVE("PI", "PD")) = "PD"
    BY <1>1, <2>1, <2>2, MovesInBits
  <2>7. Walk("PI", TAP_MOVE("PI", "SI")) = "SI"
    BY <1>1, <2>1, <2>2, MovesInBits
  <2>8. Walk("PI", TAP_MOVE("PI", "PI")) = "PI"
    BY <1>1, <2>1, <2>2, MovesInBits
  <2> QED BY <2>3, <2>4, <2>5, <2>6, <2>7, <2>8 DEF Stable
<1> QED BY <1>2, <1>3, <1>4, <1>5, <1>6, <1>7 DEF Stable

-----------------------------------------------------------------------------
(* A cable set up *)

LEMMA ClockMoves ==
  ASSUME NEW d, "tap" \in DOMAIN d, NEW tms, NEW tdi
  PROVE  "tap" \in DOMAIN Clock(d, tms, tdi) /\ Clock(d, tms, tdi).tap = TapNext(d.tap, tms)
BY DEF Clock

LEMMA SevenClocks ==
  ASSUME NEW d, "tap" \in DOMAIN d, NEW m, NEW tdi
  PROVE  Clocks(d, [k \in 1 .. 7 |-> m[k - 1]], tdi).tap = Walk(d.tap, m)
<1> DEFINE tms == [k \in 1 .. 7 |-> m[k - 1]]
<1>1. /\ Len(tms) = 7 /\ tms[1] = m[0] /\ tms[2] = m[1] /\ tms[3] = m[2] /\ tms[4] = m[3]
      /\ tms[5] = m[4] /\ tms[6] = m[5] /\ tms[7] = m[6]
  OBVIOUS
<1> HIDE DEF tms
<1>2. PICK after : Clocked(after, d, tms, tdi) /\ Clocks(d, tms, tdi) = after[Len(tms)]
  <2>1. Len(tms) \in Nat
    BY <1>1
  <2> QED BY <2>1, ClockByClock
<1>3. /\ after[0] = d
      /\ after[1] = Clock(after[0], tms[1], tdi[1]) /\ after[2] = Clock(after[1], tms[2], tdi[2])
      /\ after[3] = Clock(after[2], tms[3], tdi[3]) /\ after[4] = Clock(after[3], tms[4], tdi[4])
      /\ after[5] = Clock(after[4], tms[5], tdi[5]) /\ after[6] = Clock(after[5], tms[6], tdi[6])
      /\ after[7] = Clock(after[6], tms[7], tdi[7])
  <2>1. \A k \in 1 .. 7 : after[k] = Clock(after[k - 1], tms[k], tdi[k])
    BY <1>1, <1>2 DEF Clocked
  <2> QED BY <1>2, <2>1 DEF Clocked
<1>4. "tap" \in DOMAIN after[1] /\ after[1].tap = TapNext(d.tap, tms[1])
  BY <1>3, ClockMoves
<1>5. "tap" \in DOMAIN after[2] /\ after[2].tap = TapNext(after[1].tap, tms[2])
  BY <1>3, <1>4, ClockMoves
<1>6. "tap" \in DOMAIN after[3] /\ after[3].tap = TapNext(after[2].tap, tms[3])
  BY <1>3, <1>5, ClockMoves
<1>7. "tap" \in DOMAIN after[4] /\ after[4].tap = TapNext(after[3].tap, tms[4])
  BY <1>3, <1>6, ClockMoves
<1>8. "tap" \in DOMAIN after[5] /\ after[5].tap = TapNext(after[4].tap, tms[5])
  BY <1>3, <1>7, ClockMoves
<1>9. "tap" \in DOMAIN after[6] /\ after[6].tap = TapNext(after[5].tap, tms[6])
  BY <1>3, <1>8, ClockMoves
<1>10. after[7].tap = TapNext(after[6].tap, tms[7])
  BY <1>3, <1>9, ClockMoves
<1>11. after[7].tap = Walk(d.tap, m)
  BY <1>1, <1>4, <1>5, <1>6, <1>7, <1>8, <1>9, <1>10 DEF Walk, Steps
<1> QED BY <1>1, <1>2, <1>11 DEF tms

LEMMA Joined ==
  ASSUME NEW S, NEW p \in Seq(S), NEW q \in Seq(S)
  PROVE  /\ p \o q \in Seq(S) /\ Len(p \o q) = Len(p) + Len(q)
         /\ \A k \in 1 .. Len(p) : (p \o q)[k] = p[k]
         /\ \A k \in 1 .. Len(q) : (p \o q)[Len(p) + k] = q[k]
OBVIOUS

\* A chip with these pins.
Wired(chip, low, lowDir, high, highDir) ==
  /\ DOMAIN chip = {"mode", "loopback", "low", "lowDir", "high", "highDir"}
  /\ chip.mode = "mpsse" /\ chip.low = low /\ chip.lowDir = lowDir
  /\ chip.high = high /\ chip.highDir = highDir

\* After ft2232_init the pins reach the TAP.
LEMMA ConfiguredReaches == Reaches(Configured)
<1> DEFINE calls == ft2232_init("libftdi", FALSE)
           start == [chip |-> Plugged, dev |-> Device("TLR", <<>>, <<>>, 1), rx |-> <<>>]
<1>1. calls = ft2232_init_libftdi \o jtagkey_init \o <<>> \o ft2232_speed(FALSE)
              \o << Usb("loopback_off"), Usb("purge") >>
  BY DEF ft2232_init
<1> DEFINE A == ft2232_init_libftdi
           B == jtagkey_init
           D == ft2232_speed(FALSE)
           E == << Usb("loopback_off"), Usb("purge") >>
           S == {Usb("init"), Usb("interface"), Usb("open"), Usb("reset"), Usb("latency"),
                 Usb("get_latency"), Unchecked(Usb("bitmode")), SetLow(8, 27), SetHigh(10, 15),
                 SetHigh(9, 15), Unchecked(Usb("divisor")), Usb("loopback_off"), Usb("purge")}
<1>a. /\ A \in Seq(S) /\ Len(A) = 7 /\ A[1] = Usb("init") /\ A[2] = Usb("interface")
      /\ A[3] = Usb("open") /\ A[4] = Usb("reset") /\ A[5] = Usb("latency")
      /\ A[6] = Usb("get_latency") /\ A[7] = Unchecked(Usb("bitmode"))
  BY DEF ft2232_init_libftdi
<1>b. /\ B \in Seq(S) /\ Len(B) = 3 /\ B[1] = SetLow(8, 27) /\ B[2] = SetHigh(10, 15)
      /\ B[3] = SetHigh(9, 15)
  <2>1. jtagkey_init = << SetLow(8, 27), SetHigh(10, 15), SetHigh(9, 15) >>
    BY DEF jtagkey_init, Low, nTRST, nSRST, nSRSTnOE
  <2>2. SetLow(8, 27) \in S /\ SetHigh(10, 15) \in S /\ SetHigh(9, 15) \in S
    OBVIOUS
  <2> HIDE DEF S
  <2> QED BY <2>1, <2>2
<1>d. D \in Seq(S) /\ Len(D) = 1 /\ D[1] = Unchecked(Usb("divisor"))
  <2>1. D = << Unchecked(Usb("divisor")) >>
    BY DEF ft2232_speed
  <2>2. Unchecked(Usb("divisor")) \in S
    OBVIOUS
  <2> HIDE DEF D, S
  <2> QED BY <2>1, <2>2
<1>e. E \in Seq(S) /\ Len(E) = 2 /\ E[1] = Usb("loopback_off") /\ E[2] = Usb("purge")
  OBVIOUS
<1> HIDE DEF A, B, D, E, S, calls, start
<1>n. <<>> \in Seq(S) /\ Len(<<>>) = 0
  OBVIOUS
<1> DEFINE X == A \o B
           W == X \o <<>>
           Y == W \o D
           Z == Y \o E
<1>x. /\ X \in Seq(S) /\ Len(X) = 10 /\ \A k \in 1 .. 7 : X[k] = A[k]
      /\ \A k \in 1 .. 3 : X[7 + k] = B[k]
  <2>1. A \in Seq(S) /\ B \in Seq(S)
    BY <1>a, <1>b
  <2>2. /\ X \in Seq(S) /\ Len(X) = Len(A) + Len(B)
        /\ \A k \in 1 .. Len(A) : X[k] = A[k]
        /\ \A k \in 1 .. Len(B) : X[Len(A) + k] = B[k]
    BY <2>1, Joined
  <2> HIDE DEF X
  <2> QED BY <2>2, <1>a, <1>b
<1> HIDE DEF X
<1>w. W \in Seq(S) /\ Len(W) = 10 /\ \A k \in 1 .. 10 : W[k] = X[k]
  <2>1. X \in Seq(S) /\ <<>> \in Seq(S)
    BY <1>x, <1>n
  <2>2. /\ W \in Seq(S) /\ Len(W) = Len(X) + Len(<<>>)
        /\ \A k \in 1 .. Len(X) : W[k] = X[k]
        /\ \A k \in 1 .. Len(<<>>) : W[Len(X) + k] = <<>>[k]
    BY <2>1, Joined
  <2> HIDE DEF W
  <2> QED BY <2>2, <1>x, <1>n
<1> HIDE DEF W
<1>y. Y \in Seq(S) /\ Len(Y) = 11 /\ Y[11] = D[1] /\ \A k \in 1 .. 10 : Y[k] = W[k]
  <2>1. W \in Seq(S) /\ D \in Seq(S)
    BY <1>w, <1>d
  <2>2. /\ Y \in Seq(S) /\ Len(Y) = Len(W) + Len(D)
        /\ \A k \in 1 .. Len(W) : Y[k] = W[k]
        /\ \A k \in 1 .. Len(D) : Y[Len(W) + k] = D[k]
    BY <2>1, Joined
  <2> HIDE DEF Y
  <2> QED BY <2>2, <1>w, <1>d
<1> HIDE DEF Y
<1>z. /\ Z \in Seq(S) /\ Len(Z) = 13 /\ Z[12] = E[1] /\ Z[13] = E[2]
      /\ \A k \in 1 .. 11 : Z[k] = Y[k]
  <2>1. Y \in Seq(S) /\ E \in Seq(S)
    BY <1>y, <1>e
  <2>2. /\ Z \in Seq(S) /\ Len(Z) = Len(Y) + Len(E)
        /\ \A k \in 1 .. Len(Y) : Z[k] = Y[k]
        /\ \A k \in 1 .. Len(E) : Z[Len(Y) + k] = E[k]
    BY <2>1, Joined
  <2> HIDE DEF Z
  <2>3. \A k \in 1 .. 2 : Z[11 + k] = E[k]
    BY <2>2, <1>y, <1>e
  <2>4. 1 \in 1 .. 2 /\ 2 \in 1 .. 2 /\ 11 + 1 = 12 /\ 11 + 2 = 13
    OBVIOUS
  <2>5. Z[12] = E[1] /\ Z[13] = E[2]
    BY <2>3, <2>4
  <2> QED BY <2>2, <2>5, <1>y, <1>e
<1> HIDE DEF Z
<1>c. calls = Z
  BY <1>1 DEF A, B, D, E, X, W, Y, Z
<1>2. /\ Len(calls) = 13 /\ calls[7] = Unchecked(Usb("bitmode")) /\ calls[8] = SetLow(8, 27)
      /\ calls[9] = SetHigh(10, 15) /\ calls[10] = SetHigh(9, 15)
      /\ calls[11] = Unchecked(Usb("divisor")) /\ calls[12] = Usb("loopback_off")
      /\ calls[13] = Usb("purge")
  <2>1. X[7] = A[7] /\ X[8] = B[1] /\ X[9] = B[2] /\ X[10] = B[3]
    <3>1. 7 \in 1 .. 7 /\ 1 \in 1 .. 3 /\ 2 \in 1 .. 3 /\ 3 \in 1 .. 3
      OBVIOUS
    <3> QED BY <1>x, <3>1
  <2>2. \A k \in 7 .. 10 : Z[k] = X[k]
    BY <1>w, <1>y, <1>z
  <2>3. Z[11] = D[1]
    BY <1>y, <1>z
  <2>4. Z[7] = X[7] /\ Z[8] = X[8] /\ Z[9] = X[9] /\ Z[10] = X[10]
    BY <2>2
  <2> QED BY <1>a, <1>b, <1>d, <1>e, <1>c, <1>z, <2>1, <2>3, <2>4
<1>3. \A n : Usb(n).call = n /\ Unchecked(Usb(n)).call = n
  BY DEF Usb, Unchecked
<1>4. PICK after : Called(after, start, calls, {}) /\ Calls(start, calls, {}) = after
  <2>1. Len(calls) \in Nat
    BY <1>2
  <2> QED BY <2>1, CallByCall
<1>5. Configured = after[13].chip
  BY <1>2, <1>4 DEF Configured, calls, start
<1>6. \A k \in 1 .. 13 : after[k].chip = Effect(after[k - 1].chip, calls[k])
  <2>1. ASSUME NEW was, NEW c, NEW k PROVE After(was, c, k \in {}).chip = Effect(was.chip, c)
    BY DEF After
  <2>2. ASSUME NEW k \in 1 .. 13 PROVE after[k].chip = Effect(after[k - 1].chip, calls[k])
    <3>1. k \in 1 .. Len(calls)
      BY <1>2
    <3>2. after[k] = After(after[k - 1], calls[k], k \in {})
      BY <1>4, <3>1, Zenon DEF Called
    <3> QED BY <2>1, <3>2
  <2> QED BY <2>2
<1> DEFINE is == {"mode", "loopback", "low", "lowDir", "high", "highDir"}
<1>7. /\ Usb("purge").call = "purge" /\ Usb("loopback_off").call = "loopback_off"
      /\ Unchecked(Usb("bitmode")).call = "bitmode" /\ Unchecked(Usb("divisor")).call = "divisor"
      /\ SetHigh(10, 15).call = "high" /\ SetHigh(9, 15).call = "high"
      /\ SetHigh(9, 15).out = 9 /\ SetHigh(9, 15).dir = 15
      /\ SetLow(8, 27).call = "low" /\ SetLow(8, 27).out = 8 /\ SetLow(8, 27).dir = 27
  BY <1>3 DEF SetHigh, SetLow
<1>8. ASSUME NEW chip, NEW c, DOMAIN chip = is PROVE DOMAIN Effect(chip, c) = is
  BY <1>8, Zenon DEF Effect
<1>9. ASSUME NEW chip, chip.mode = "mpsse"
      PROVE  /\ Effect(chip, Usb("purge")) = chip
             /\ Effect(chip, Unchecked(Usb("divisor"))) = chip
             /\ Effect(chip, Usb("loopback_off")) = [chip EXCEPT !.loopback = FALSE]
             /\ Effect(chip, SetHigh(10, 15)) = [chip EXCEPT !.high = 10, !.highDir = 15]
             /\ Effect(chip, SetHigh(9, 15)) = [chip EXCEPT !.high = 9, !.highDir = 15]
             /\ Effect(chip, SetLow(8, 27)) = [chip EXCEPT !.low = 8, !.lowDir = 27]
  <2>1. ASSUME NEW c
        PROVE  /\ c.call \in {"purge", "divisor"} => Effect(chip, c) = chip
               /\ c.call = "loopback_off" => Effect(chip, c) = [chip EXCEPT !.loopback = FALSE]
    BY <1>9 DEF Effect
  <2>4. /\ Effect(chip, Usb("purge")) = chip
        /\ Effect(chip, Unchecked(Usb("divisor"))) = chip
        /\ Effect(chip, Usb("loopback_off")) = [chip EXCEPT !.loopback = FALSE]
    BY <1>7, <2>1
  <2>5. Effect(chip, SetHigh(10, 15)) = [chip EXCEPT !.high = 10, !.highDir = 15]
    BY <1>9 DEF Effect, SetHigh
  <2>6. Effect(chip, SetHigh(9, 15)) = [chip EXCEPT !.high = 9, !.highDir = 15]
    BY <1>9 DEF Effect, SetHigh
  <2>7. Effect(chip, SetLow(8, 27)) = [chip EXCEPT !.low = 8, !.lowDir = 27]
    BY <1>9 DEF Effect, SetLow
  <2> QED BY <2>4, <2>5, <2>6, <2>7
<1>10. ASSUME NEW chip, NEW c, DOMAIN chip = is, c.call = "bitmode"
       PROVE  Effect(chip, c).mode = "mpsse"
  BY <1>10 DEF Effect
<1>11. DOMAIN after[0].chip = is
  BY <1>4 DEF Called, start, Plugged, Chip
<1> HIDE DEF is
<1>12. \A k \in 0 .. 13 : DOMAIN after[k].chip = is
  <2>1. ASSUME NEW k \in 1 .. 13, DOMAIN after[k - 1].chip = is PROVE DOMAIN after[k].chip = is
    BY <1>6, <1>8, <2>1
  <2>2. /\ DOMAIN after[1].chip = is /\ DOMAIN after[2].chip = is /\ DOMAIN after[3].chip = is
        /\ DOMAIN after[4].chip = is /\ DOMAIN after[5].chip = is /\ DOMAIN after[6].chip = is
        /\ DOMAIN after[7].chip = is /\ DOMAIN after[8].chip = is /\ DOMAIN after[9].chip = is
        /\ DOMAIN after[10].chip = is /\ DOMAIN after[11].chip = is /\ DOMAIN after[12].chip = is
        /\ DOMAIN after[13].chip = is
    BY <1>11, <2>1
  <2>3. \A k \in 0 .. 13 : k \in 1 .. 13 \/ k = 0
    OBVIOUS
  <2>4. \A k \in 1 .. 13 : \/ k = 1 \/ k = 2 \/ k = 3 \/ k = 4 \/ k = 5 \/ k = 6 \/ k = 7
                            \/ k = 8 \/ k = 9 \/ k = 10 \/ k = 11 \/ k = 12 \/ k = 13
    OBVIOUS
  <2> QED BY <1>11, <2>2, <2>3, <2>4
<1>s. /\ after[7].chip = Effect(after[6].chip, Unchecked(Usb("bitmode")))
      /\ after[8].chip = Effect(after[7].chip, SetLow(8, 27))
      /\ after[9].chip = Effect(after[8].chip, SetHigh(10, 15))
      /\ after[10].chip = Effect(after[9].chip, SetHigh(9, 15))
      /\ after[11].chip = Effect(after[10].chip, Unchecked(Usb("divisor")))
      /\ after[12].chip = Effect(after[11].chip, Usb("loopback_off"))
      /\ after[13].chip = Effect(after[12].chip, Usb("purge"))
  BY <1>2, <1>6
<1>t. /\ DOMAIN after[7].chip = is /\ DOMAIN after[8].chip = is /\ DOMAIN after[9].chip = is
      /\ DOMAIN after[10].chip = is /\ DOMAIN after[11].chip = is /\ DOMAIN after[12].chip = is
  BY <1>12
<1>13. after[7].chip.mode = "mpsse"
  BY <1>2, <1>6, <1>7, <1>10, <1>12
<1>14. after[8].chip = [after[7].chip EXCEPT !.low = 8, !.lowDir = 27]
  BY <1>s, <1>t, <1>7, <1>9, <1>13
<1>15. after[8].chip.mode = "mpsse" /\ after[8].chip.low = 8 /\ after[8].chip.lowDir = 27
  BY <1>12, <1>13, <1>14 DEF is
<1>16. /\ after[9].chip.mode = "mpsse" /\ after[9].chip.low = 8 /\ after[9].chip.lowDir = 27
  <2>1. after[9].chip = [after[8].chip EXCEPT !.high = 10, !.highDir = 15]
    BY <1>s, <1>9, <1>15
  <2> QED BY <1>12, <1>15, <2>1 DEF is
<1>17. after[10].chip = [after[9].chip EXCEPT !.high = 9, !.highDir = 15]
  BY <1>s, <1>t, <1>7, <1>9, <1>16
<1>18. Wired(after[10].chip, 8, 27, 9, 15)
  BY <1>12, <1>16, <1>17 DEF Wired, is
<1>19. after[11].chip = after[10].chip
  BY <1>s, <1>t, <1>7, <1>9, <1>18 DEF Wired
<1>20. after[12].chip = [after[11].chip EXCEPT !.loopback = FALSE]
  <2>1. after[11].chip.mode = "mpsse"
    BY <1>18, <1>19 DEF Wired
  <2> QED BY <1>s, <1>9, <2>1
<1>21. Wired(after[12].chip, 8, 27, 9, 15)
  BY <1>18, <1>19, <1>20 DEF Wired
<1>22. after[13].chip = after[12].chip
  BY <1>s, <1>t, <1>7, <1>9, <1>21 DEF Wired
<1>23. Wired(Configured, 8, 27, 9, 15)
  BY <1>5, <1>21, <1>22
<1>24. Level(9, 1) = 1 /\ Level(27, 1) = 1 /\ Level(27, 2) = 1 /\ Level(27, 8) = 1
       /\ Level(27, 16) = 1 /\ Level(27, 4) = 0 /\ Level(8, 16) = 0
  BY DEF Level
<1>25. ~TrstPulled(Configured)
  BY <1>23, <1>24 DEF TrstPulled, Pulled, Wired, nTRST
<1> QED BY <1>23, <1>24, <1>25 DEF Reaches, Wired, Low

-----------------------------------------------------------------------------
(* Movements arrive *)

LEMMA MovesAreMoves ==
  ASSUME NEW j \in Jobs, j.kind = "move"
  PROVE  \E s, t \in Stable : j = Move(s, t)
<1>0. "kind" \in DOMAIN Usual
  BY DEF Usual
<1>p. \A c, n, q : "kind" \in DOMAIN Port(c, n, q)
  BY <1>0 DEF Port
<1>o. \A b, h, f : "kind" \in DOMAIN Opening(b, h, f)
  BY <1>0 DEF Opening
<1>1. ASSUME NEW s, NEW id, NEW fl, NEW u \in Openings \cup {NoPort} \cup OnPort(2)
      PROVE  Id(s, id, fl, u).kind = "id"
  <2>1. "kind" \in DOMAIN u
    BY <1>p, <1>o DEF Openings, NoPort, OnPort
  <2> QED BY <2>1 DEF Id
<1>2. ASSUME NEW s, NEW first, NEW wr, NEW c, NEW fl, NEW u \in {Usual, LoopedBack} \cup OnPort(1)
      PROVE  Scan(s, first, wr, c, fl, u).kind = "scan"
  <2>1. "kind" \in DOMAIN u
    <3>1. "kind" \in DOMAIN LoopedBack
      BY <1>o, Zenon DEF LoopedBack
    <3>2. u \in OnPort(1) => "kind" \in DOMAIN u
      BY <1>p DEF OnPort
    <3> QED BY <1>0, <3>1, <3>2
  <2> QED BY <2>1 DEF Scan
<1> QED BY <1>1, <1>2, JobsByKind

\* Where a movement is: not yet called, encoded, or done.
Leaving == "tap" \in DOMAIN dev /\ dev.tap = job.from /\ Reaches(cable.chip)
Arriving ==
  /\ job.cable = "openjtag" /\ job.from \in Stable /\ job.to \in Stable /\ expect = 0
  /\ \/ ops = << [op |-> "move"] >> /\ buffer = <<>> /\ Leaving
     \/ ops = <<>> /\ buffer = << Tms(TAP_MOVE(job.from, job.to), 7, FALSE) >> /\ Leaving
     \/ ops = <<>> /\ buffer = <<>> /\ (cable.state = "open" => dev.tap = job.to)
MoveInv == job.kind = "move" => Arriving

LEMMA InitMoves == Init => MoveInv
<1> SUFFICES ASSUME Init, job.kind = "move" PROVE Arriving
  BY DEF MoveInv
<1>1. PICK s, t \in Stable : job = Move(s, t)
  BY MovesAreMoves DEF Init
<1>2. /\ job.cable = "openjtag" /\ job.opens = 0 /\ job.from = s /\ job.to = t
      /\ job.from \in Stable /\ job.to \in Stable
  BY <1>1 DEF Move, Usual
<1>3. ops = << [op |-> "move"] >>
  BY DEF Init, Begin
<1>4. buffer = <<>> /\ expect = 0 /\ cable.chip = Configured
  BY <1>2 DEF Init
<1>5. "tap" \in DOMAIN dev /\ dev.tap = job.from
  <2>1. dev = Found(job)
    BY DEF Init
  <2> QED BY <2>1 DEF Found, Device
<1> QED BY <1>2, <1>3, <1>4, <1>5, ConfiguredReaches DEF Arriving, Leaving

LEMMA StepMoves == MoveInv /\ RepliesInv /\ [Next]_vars => MoveInv'
<1> SUFFICES ASSUME MoveInv, RepliesInv, [Next]_vars PROVE MoveInv'
  OBVIOUS
<1>j. job' = job
  BY DEF Next, vars, OpenFt2232, OpenPpt, CallPort, Access, Call, Execute, Read, ReadFails, Quit, Stay
<1>0. SUFFICES ASSUME job.kind = "move" PROVE Arriving'
  BY <1>j DEF MoveInv
<1>1. Arriving
  BY <1>0 DEF MoveInv
<1>2. CASE Call
  <2>1. /\ Calling /\ buffer' = Commands(Head(ops)) /\ ops' = Tail(ops)
        /\ job' = job /\ cable' = cable /\ dev' = dev
    BY <1>2 DEF Call
  <2>2. /\ ops = << [op |-> "move"] >> /\ dev.tap = job.from /\ Reaches(cable.chip)
    BY <1>1, <2>1 DEF Arriving, Leaving, Calling
  <2>3. Head(ops).op = "move" /\ Tail(ops) = <<>>
    BY <2>2
  <2>4. buffer' = << Tms(TAP_MOVE(job.from, job.to), 7, FALSE) >>
    <3>1. \A o : o.op = "move" => Commands(o) = << Tms(TAP_MOVE(job.from, job.to), 7, FALSE) >>
      BY DEF Commands
    <3> QED BY <2>1, <2>3, <3>1
  <2>5. expect' = 0
    <3>1. \A o : o.op = "move" => (CASE o.op = "id" -> 4
                 [] o.op = "dr" /\ o.read -> ft2232_predict_scan_in(Len(job.wr))
                 [] OTHER -> 0) = 0
      OBVIOUS
    <3> QED BY <1>2, <2>3, <3>1 DEF Call
  <2> QED BY <1>1, <1>j, <2>1, <2>2, <2>3, <2>4, <2>5 DEF Arriving, Leaving
<1>3. CASE Execute
  <2> DEFINE c == Tms(TAP_MOVE(job.from, job.to), 7, FALSE)
             d == [dev EXCEPT !.tdo = <<>>]
             tms == TmsBits(c)
             tdi == TmsTdi(c)
  <2>1. /\ ops = <<>> /\ buffer = << c >> /\ dev.tap = job.from /\ Reaches(cable.chip)
    BY <1>1, <1>3 DEF Arriving, Leaving, Execute
  <2>2. Head(buffer) = c /\ Tail(buffer) = <<>> /\ c.op = "tms"
    <3>1. c.op = "tms"
      BY DEF Tms
    <3> HIDE DEF c
    <3> QED BY <2>1, <3>1
  <2>3. /\ dev' = Clocks(d, tms, tdi) /\ buffer' = <<>>
        /\ ops' = ops /\ cable' = cable /\ expect' = expect
    <3> HIDE DEF c
    <3> QED BY <1>3, <2>1, <2>2 DEF Execute
  <2>4. "tap" \in DOMAIN d /\ d.tap = job.from
    BY <1>1, <2>1 DEF Arriving, Leaving
  <2>5. tms = [k \in 1 .. 7 |-> TAP_MOVE(job.from, job.to)[k - 1]]
    BY DEF TmsBits, Tms
  <2> HIDE DEF d, tms, tdi
  <2>6. dev'.tap = Walk(job.from, TAP_MOVE(job.from, job.to))
    BY <2>3, <2>4, <2>5, SevenClocks
  <2>7. dev'.tap = job.to
    BY <1>1, <2>6, EveryMoveArrives DEF Arriving
  <2> QED BY <1>1, <1>j, <2>1, <2>3, <2>6, <2>7 DEF Arriving
<1>4. CASE Quit
  <2>1. PICK chip :
          /\ cable' = [cable EXCEPT !.chip = chip, !.state = "quit"]
          /\ ops' = ops /\ buffer' = buffer /\ expect' = expect /\ job' = job
    BY <1>4 DEF Quit
  <2>2. cable = [state |-> cable.state, chip |-> cable.chip, byte |-> cable.byte]
    BY <1>1 DEF RepliesInv, Queued, Arriving
  <2>3. cable'.state = "quit"
    BY <2>1, <2>2, CableChanged
  <2>4. ops = <<>> /\ buffer = <<>>
    BY <1>4 DEF Quit, Finished
  <2> QED BY <1>1, <1>j, <2>1, <2>3, <2>4 DEF Arriving
<1>5. CASE UNCHANGED vars
  BY <1>1, <1>5 DEF Arriving, Leaving, vars
<1>6. CASE OpenFt2232 \/ OpenPpt \/ CallPort \/ Access \/ Read \/ ReadFails
  <2>1. ops # <<>> => Head(ops).op = "move"
    <3>1. ops # <<>> => ops = << [op |-> "move"] >>
      BY <1>1 DEF Arriving
    <3>2. Head(<< [op |-> "move"] >>).op = "move"
      OBVIOUS
    <3> QED BY <3>1, <3>2
  <2>2. ~OpenFt2232 /\ ~OpenPpt
    BY <2>1 DEF OpenFt2232, OpenPpt, Calling
  <2>3. ~CallPort /\ ~Access
    BY <1>1 DEF Arriving, CallPort, Access
  <2>4. ~Read
    BY <1>1 DEF Arriving, Read
  <2>5. ~ReadFails
    BY <1>0 DEF ReadFails
  <2> QED BY <1>6, <2>2, <2>3, <2>4, <2>5
<1> QED BY <1>2, <1>3, <1>4, <1>5, <1>6 DEF Next, Stay

\* Every entry of tap_move, sent as the seven bits of one command through a cable set
\* up by ft2232_init, takes the TAP from the state it is indexed by to the other.
THEOREM EveryMovementArrives == Spec => []MovesArrive
<1>1. MoveInv => MovesArrive
  BY DEF MoveInv, Arriving, MovesArrive, Finished
<1>2. Init => RepliesInv /\ MoveInv
  BY InitReplies, InitMoves
<1>3. (RepliesInv /\ MoveInv) /\ [Next]_vars => (RepliesInv /\ MoveInv)'
  BY StepReplies, StepMoves
<1>4. Spec => [](RepliesInv /\ MoveInv)
  BY <1>2, <1>3, PTL DEF Spec
<1> QED BY <1>1, <1>4, PTL

-----------------------------------------------------------------------------
(* A device clock by clock *)

\* What a board answers with, whatever is done to it.
Board == [cells : Seq(Bit), id : Seq(Bit), float : Bit]
Registers == {"tap", "ir", "sr", "latch", "cells", "id", "float", "tdo"}
On(b, d) ==
  /\ DOMAIN d = Registers /\ d.cells = b.cells /\ d.id = b.id /\ d.float = b.float
  /\ d.tap \in TapState /\ d.sr \in Seq(Bit) /\ d.tdo \in Seq(Bit)

\* The register after a clock that captures nothing, and what one clock does.
Shifts(d) == d.tap \in Shifting /\ d.sr # <<>>
Shifted(d, tdi) == IF Shifts(d) THEN Append(Tail(d.sr), tdi) ELSE d.sr
Captured(b, d, tdi, to) ==
  IF to = "CD" THEN IF d.ir = IDCODE THEN b.id ELSE b.cells
  ELSE IF to = "CI" THEN <<1, 0, 0, 0>> ELSE Shifted(d, tdi)
Ticks(b, d, tms, tdi, e) ==
  LET to == TapNext(d.tap, tms)
  IN /\ On(b, e) /\ e.tap = to /\ e.sr = Captured(b, d, tdi, to)
     /\ e.ir = IF to = "TLR" THEN IDCODE ELSE IF to = "UI" THEN Shifted(d, tdi) ELSE d.ir
     /\ e.latch = IF to = "UD" /\ d.ir # IDCODE THEN Shifted(d, tdi) ELSE d.latch
Out(d) == IF Shifts(d) THEN Head(d.sr) ELSE d.float

LEMMA TapStays == \A s \in TapState, t \in Bit : TapNext(s, t) \in TapState
BY DEF TapNext, TapState, Bit, OnOne, OnZero

LEMMA ShiftedTyped ==
  ASSUME NEW b \in Board, NEW d, On(b, d), NEW tdi \in Bit
  PROVE  Shifted(d, tdi) \in Seq(Bit) /\ Out(d) \in Bit
<1>1. d.sr \in Seq(Bit) /\ d.float = b.float
  BY DEF On
<1>2. \A q \in Seq(Bit) : q # <<>> => Head(q) \in Bit /\ Append(Tail(q), tdi) \in Seq(Bit)
  <2>1. \A q \in Seq(Bit) : q # <<>> => Head(q) \in Bit /\ Tail(q) \in Seq(Bit)
    OBVIOUS
  <2>2. \A q \in Seq(Bit) : Append(q, tdi) \in Seq(Bit)
    OBVIOUS
  <2> QED BY <2>1, <2>2
<1> QED BY <1>1, <1>2 DEF Shifted, Shifts, Out, Board

LEMMA ClockTicks ==
  ASSUME NEW b \in Board, NEW d, On(b, d), NEW tms \in Bit, NEW tdi \in Bit
  PROVE  /\ Ticks(b, d, tms, tdi, Clock(d, tms, tdi))
         /\ Clock(d, tms, tdi).tdo = Append(d.tdo, Out(d))
<1> DEFINE to == TapNext(d.tap, tms)
           sr == Shifted(d, tdi)
           tdo == Append(d.tdo, Out(d))
           newsr == CASE to = "CD" -> IF d.ir = IDCODE THEN d.id ELSE d.cells
                      [] to = "CI" -> <<1, 0, 0, 0>>
                      [] OTHER -> sr
           newir == CASE to = "TLR" -> IDCODE [] to = "UI" -> sr [] OTHER -> d.ir
           newlatch == IF to = "UD" /\ d.ir # IDCODE THEN sr ELSE d.latch
           e == Clock(d, tms, tdi)
<1>1. e = [d EXCEPT !.tap = to, !.tdo = tdo, !.sr = newsr, !.ir = newir, !.latch = newlatch]
  BY DEF Clock, Shifts, Shifted, Out
<1>2. to \in TapState
  BY TapStays DEF On
<1>3. sr \in Seq(Bit) /\ tdo \in Seq(Bit)
  <2>1. \A q \in Seq(Bit), t \in Bit : Append(q, t) \in Seq(Bit)
    OBVIOUS
  <2> QED BY <2>1, ShiftedTyped DEF On
<1>4. /\ newsr = Captured(b, d, tdi, to)
      /\ newir = IF to = "TLR" THEN IDCODE ELSE IF to = "UI" THEN sr ELSE d.ir
  <2>1. d.id = b.id /\ d.cells = b.cells
    BY DEF On
  <2> HIDE DEF to, sr
  <2> QED BY <2>1 DEF Captured, sr
<1>5. Captured(b, d, tdi, to) \in Seq(Bit)
  <2>1. <<1, 0, 0, 0>> \in Seq(Bit)
    BY DEF Bit
  <2>2. b.id \in Seq(Bit) /\ b.cells \in Seq(Bit)
    BY DEF Board
  <2> HIDE DEF to
  <2> QED BY <1>3, <2>1, <2>2 DEF Captured
<1> HIDE DEF to, sr, tdo, newsr, newir, newlatch, e
<1>7. /\ DOMAIN e = Registers /\ e.tap = to /\ e.ir = newir /\ e.sr = newsr /\ e.latch = newlatch
      /\ e.tdo = tdo /\ e.cells = d.cells /\ e.id = d.id /\ e.float = d.float
  <2>1. DOMAIN d = Registers
    BY DEF On
  <2>2. \A y : y = [d EXCEPT !.tap = to, !.tdo = tdo, !.sr = newsr, !.ir = newir, !.latch = newlatch] =>
          /\ DOMAIN y = Registers /\ y.tap = to /\ y.ir = newir /\ y.sr = newsr /\ y.latch = newlatch
          /\ y.tdo = tdo /\ y.cells = d.cells /\ y.id = d.id /\ y.float = d.float
    BY <2>1 DEF Registers
  <2> QED BY <1>1, <2>2, Zenon
<1>8. On(b, e)
  BY <1>2, <1>3, <1>4, <1>5, <1>7 DEF On
<1>9. Ticks(b, d, tms, tdi, e)
  BY <1>4, <1>7, <1>8 DEF Ticks, to, sr, newlatch
<1> QED BY <1>7, <1>9 DEF e, tdo

\* Clearing what came out is no matter.
LEMMA Cleared ==
  ASSUME NEW b, NEW d, On(b, d)
  PROVE  /\ On(b, [d EXCEPT !.tdo = <<>>]) /\ [d EXCEPT !.tdo = <<>>].tdo = <<>>
         /\ \A tms, tdi, e : Ticks(b, [d EXCEPT !.tdo = <<>>], tms, tdi, e)
                               <=> Ticks(b, d, tms, tdi, e)
<1> DEFINE c == [d EXCEPT !.tdo = <<>>]
<1>2. /\ DOMAIN c = Registers /\ c.tap = d.tap /\ c.ir = d.ir /\ c.sr = d.sr /\ c.latch = d.latch
      /\ c.tdo = <<>> /\ c.cells = d.cells /\ c.id = d.id /\ c.float = d.float
  BY DEF On, Registers
<1>3. <<>> \in Seq(Bit)
  OBVIOUS
<1> HIDE DEF c
<1>4. On(b, c)
  BY <1>2, <1>3 DEF On
<1>5. \A tms, tdi, e : Ticks(b, c, tms, tdi, e) <=> Ticks(b, d, tms, tdi, e)
  BY <1>2 DEF Ticks, Captured, Shifted, Shifts
<1> QED BY <1>2, <1>4, <1>5 DEF c

-----------------------------------------------------------------------------
(* Movements *)

\* The devices one after the other while tms and tdi are clocked in.
Path(b, f, tms, tdi) ==
  /\ On(b, f[0])
  /\ \A k \in 1 .. Len(tms) : tms[k] \in Bit /\ tdi[k] \in Bit /\ Ticks(b, f[k - 1], tms[k], tdi[k], f[k])

\* A device in a state, with an instruction, a register and what was latched.
At(b, d, tap, ir, sr, latch) ==
  On(b, d) /\ d.tap = tap /\ d.ir = ir /\ d.sr = sr /\ d.latch = latch

\* A clock that neither shifts, captures nor updates.
LEMMA Holds ==
  ASSUME NEW b, NEW d, NEW e, NEW tms, NEW tdi, Ticks(b, d, tms, tdi, e), NEW i, NEW s, NEW l, NEW from,
         At(b, d, from, i, s, l), from \notin Shifting,
         TapNext(from, tms) \notin {"CD", "CI", "UD", "UI", "TLR"}
  PROVE  At(b, e, TapNext(from, tms), i, s, l)
BY DEF Ticks, Captured, Shifted, Shifts, At

\* The quiet clocks of the movements, and those that are not.
LEMMA Quiet ==
  ASSUME NEW b, NEW d, NEW e, NEW tdi, NEW i, NEW s, NEW l
  PROVE  /\ At(b, d, "RTI", i, s, l) /\ Ticks(b, d, 1, tdi, e) => At(b, e, "SDS", i, s, l)
         /\ At(b, d, "RTI", i, s, l) /\ Ticks(b, d, 0, tdi, e) => At(b, e, "RTI", i, s, l)
         /\ At(b, d, "TLR", i, s, l) /\ Ticks(b, d, 0, tdi, e) => At(b, e, "RTI", i, s, l)
         /\ At(b, d, "SDS", i, s, l) /\ Ticks(b, d, 1, tdi, e) => At(b, e, "SIS", i, s, l)
         /\ At(b, d, "CD", i, s, l) /\ Ticks(b, d, 1, tdi, e) => At(b, e, "E1D", i, s, l)
         /\ At(b, d, "CD", i, s, l) /\ Ticks(b, d, 0, tdi, e) => At(b, e, "SD", i, s, l)
         /\ At(b, d, "E1D", i, s, l) /\ Ticks(b, d, 0, tdi, e) => At(b, e, "PD", i, s, l)
         /\ At(b, d, "PD", i, s, l) /\ Ticks(b, d, 0, tdi, e) => At(b, e, "PD", i, s, l)
         /\ At(b, d, "PD", i, s, l) /\ Ticks(b, d, 1, tdi, e) => At(b, e, "E2D", i, s, l)
         /\ At(b, d, "E2D", i, s, l) /\ Ticks(b, d, 0, tdi, e) => At(b, e, "SD", i, s, l)
         /\ At(b, d, "UD", i, s, l) /\ Ticks(b, d, 0, tdi, e) => At(b, e, "RTI", i, s, l)
         /\ At(b, d, "UD", i, s, l) /\ Ticks(b, d, 1, tdi, e) => At(b, e, "SDS", i, s, l)
         /\ At(b, d, "CI", i, s, l) /\ Ticks(b, d, 1, tdi, e) => At(b, e, "E1I", i, s, l)
         /\ At(b, d, "CI", i, s, l) /\ Ticks(b, d, 0, tdi, e) => At(b, e, "SI", i, s, l)
         /\ At(b, d, "E1I", i, s, l) /\ Ticks(b, d, 0, tdi, e) => At(b, e, "PI", i, s, l)
         /\ At(b, d, "PI", i, s, l) /\ Ticks(b, d, 0, tdi, e) => At(b, e, "PI", i, s, l)
         /\ At(b, d, "PI", i, s, l) /\ Ticks(b, d, 1, tdi, e) => At(b, e, "E2I", i, s, l)
         /\ At(b, d, "E2I", i, s, l) /\ Ticks(b, d, 0, tdi, e) => At(b, e, "SI", i, s, l)
         /\ At(b, d, "UI", i, s, l) /\ Ticks(b, d, 0, tdi, e) => At(b, e, "RTI", i, s, l)
         /\ At(b, d, "UI", i, s, l) /\ Ticks(b, d, 1, tdi, e) => At(b, e, "SDS", i, s, l)
<1>1. At(b, d, "RTI", i, s, l) /\ Ticks(b, d, 1, tdi, e) => At(b, e, "SDS", i, s, l)
  BY Arrows, Holds DEF At, Shifting
<1>2. At(b, d, "RTI", i, s, l) /\ Ticks(b, d, 0, tdi, e) => At(b, e, "RTI", i, s, l)
  BY Arrows, Holds DEF At, Shifting
<1>3. At(b, d, "TLR", i, s, l) /\ Ticks(b, d, 0, tdi, e) => At(b, e, "RTI", i, s, l)
  BY Arrows, Holds DEF At, Shifting
<1>4. At(b, d, "SDS", i, s, l) /\ Ticks(b, d, 1, tdi, e) => At(b, e, "SIS", i, s, l)
  BY Arrows, Holds DEF At, Shifting
<1>5. At(b, d, "CD", i, s, l) /\ Ticks(b, d, 1, tdi, e) => At(b, e, "E1D", i, s, l)
  BY Arrows, Holds DEF At, Shifting
<1>6. At(b, d, "CD", i, s, l) /\ Ticks(b, d, 0, tdi, e) => At(b, e, "SD", i, s, l)
  BY Arrows, Holds DEF At, Shifting
<1>7. At(b, d, "E1D", i, s, l) /\ Ticks(b, d, 0, tdi, e) => At(b, e, "PD", i, s, l)
  BY Arrows, Holds DEF At, Shifting
<1>8. At(b, d, "PD", i, s, l) /\ Ticks(b, d, 0, tdi, e) => At(b, e, "PD", i, s, l)
  BY Arrows, Holds DEF At, Shifting
<1>9. At(b, d, "PD", i, s, l) /\ Ticks(b, d, 1, tdi, e) => At(b, e, "E2D", i, s, l)
  BY Arrows, Holds DEF At, Shifting
<1>10. At(b, d, "E2D", i, s, l) /\ Ticks(b, d, 0, tdi, e) => At(b, e, "SD", i, s, l)
  BY Arrows, Holds DEF At, Shifting
<1>11. At(b, d, "UD", i, s, l) /\ Ticks(b, d, 0, tdi, e) => At(b, e, "RTI", i, s, l)
  BY Arrows, Holds DEF At, Shifting
<1>12. At(b, d, "UD", i, s, l) /\ Ticks(b, d, 1, tdi, e) => At(b, e, "SDS", i, s, l)
  BY Arrows, Holds DEF At, Shifting
<1>13. At(b, d, "CI", i, s, l) /\ Ticks(b, d, 1, tdi, e) => At(b, e, "E1I", i, s, l)
  BY Arrows, Holds DEF At, Shifting
<1>14. At(b, d, "CI", i, s, l) /\ Ticks(b, d, 0, tdi, e) => At(b, e, "SI", i, s, l)
  BY Arrows, Holds DEF At, Shifting
<1>15. At(b, d, "E1I", i, s, l) /\ Ticks(b, d, 0, tdi, e) => At(b, e, "PI", i, s, l)
  BY Arrows, Holds DEF At, Shifting
<1>16. At(b, d, "PI", i, s, l) /\ Ticks(b, d, 0, tdi, e) => At(b, e, "PI", i, s, l)
  BY Arrows, Holds DEF At, Shifting
<1>17. At(b, d, "PI", i, s, l) /\ Ticks(b, d, 1, tdi, e) => At(b, e, "E2I", i, s, l)
  BY Arrows, Holds DEF At, Shifting
<1>18. At(b, d, "E2I", i, s, l) /\ Ticks(b, d, 0, tdi, e) => At(b, e, "SI", i, s, l)
  BY Arrows, Holds DEF At, Shifting
<1>19. At(b, d, "UI", i, s, l) /\ Ticks(b, d, 0, tdi, e) => At(b, e, "RTI", i, s, l)
  BY Arrows, Holds DEF At, Shifting
<1>20. At(b, d, "UI", i, s, l) /\ Ticks(b, d, 1, tdi, e) => At(b, e, "SDS", i, s, l)
  BY Arrows, Holds DEF At, Shifting
<1> QED BY <1>1, <1>2, <1>3, <1>4, <1>5, <1>6, <1>7, <1>8, <1>9, <1>10, <1>11, <1>12, <1>13, <1>14, <1>15, <1>16, <1>17, <1>18, <1>19, <1>20

LEMMA Loud ==
  ASSUME NEW b, NEW d, NEW e, NEW tdi, NEW i, NEW s, NEW l
  PROVE  /\ At(b, d, "SDS", i, s, l) /\ Ticks(b, d, 0, tdi, e)
              => At(b, e, "CD", i, IF i = IDCODE THEN b.id ELSE b.cells, l)
         /\ At(b, d, "SIS", i, s, l) /\ Ticks(b, d, 0, tdi, e) => At(b, e, "CI", i, <<1, 0, 0, 0>>, l)
         /\ At(b, d, "TLR", i, s, l) /\ Ticks(b, d, 1, tdi, e) => At(b, e, "TLR", IDCODE, s, l)
         /\ At(b, d, "E1I", i, s, l) /\ Ticks(b, d, 1, tdi, e) => At(b, e, "UI", s, s, l)
         /\ At(b, d, "E2I", i, s, l) /\ Ticks(b, d, 1, tdi, e) => At(b, e, "UI", s, s, l)
         /\ At(b, d, "E1D", i, s, l) /\ Ticks(b, d, 1, tdi, e)
              => At(b, e, "UD", i, s, IF i = IDCODE THEN l ELSE s)
         /\ At(b, d, "E2D", i, s, l) /\ Ticks(b, d, 1, tdi, e)
              => At(b, e, "UD", i, s, IF i = IDCODE THEN l ELSE s)
<1>1. At(b, d, "SDS", i, s, l) /\ Ticks(b, d, 0, tdi, e)
        => At(b, e, "CD", i, IF i = IDCODE THEN b.id ELSE b.cells, l)
  BY Arrows DEF Ticks, Captured, At
<1>2. At(b, d, "SIS", i, s, l) /\ Ticks(b, d, 0, tdi, e) => At(b, e, "CI", i, <<1, 0, 0, 0>>, l)
  BY Arrows DEF Ticks, Captured, At
<1>3. At(b, d, "E1I", i, s, l) /\ Ticks(b, d, 1, tdi, e) => At(b, e, "UI", s, s, l)
  BY Arrows DEF Ticks, Captured, Shifted, Shifts, Shifting, At
<1>4. At(b, d, "E2I", i, s, l) /\ Ticks(b, d, 1, tdi, e) => At(b, e, "UI", s, s, l)
  BY Arrows DEF Ticks, Captured, Shifted, Shifts, Shifting, At
<1>5. At(b, d, "E1D", i, s, l) /\ Ticks(b, d, 1, tdi, e)
        => At(b, e, "UD", i, s, IF i = IDCODE THEN l ELSE s)
  BY Arrows DEF Ticks, Captured, Shifted, Shifts, Shifting, At
<1>6. At(b, d, "E2D", i, s, l) /\ Ticks(b, d, 1, tdi, e)
        => At(b, e, "UD", i, s, IF i = IDCODE THEN l ELSE s)
  BY Arrows DEF Ticks, Captured, Shifted, Shifts, Shifting, At
<1>7. At(b, d, "TLR", i, s, l) /\ Ticks(b, d, 1, tdi, e) => At(b, e, "TLR", IDCODE, s, l)
  BY Arrows DEF Ticks, Captured, Shifted, Shifts, Shifting, At
<1> QED BY <1>1, <1>2, <1>3, <1>4, <1>5, <1>6, <1>7

\* Seven zeros, and three.
LEMMA IdleBySeven ==
  ASSUME NEW b, NEW f, NEW tdi, NEW i, NEW s, NEW l, Path(b, f, << 0, 0, 0, 0, 0, 0, 0 >>, tdi),
         At(b, f[0], "TLR", i, s, l)
  PROVE  At(b, f[7], "RTI", i, s, l)
<1>0. /\ Ticks(b, f[0], 0, tdi[1], f[1])
      /\ Ticks(b, f[1], 0, tdi[2], f[2])
      /\ Ticks(b, f[2], 0, tdi[3], f[3])
      /\ Ticks(b, f[3], 0, tdi[4], f[4])
      /\ Ticks(b, f[4], 0, tdi[5], f[5])
      /\ Ticks(b, f[5], 0, tdi[6], f[6])
      /\ Ticks(b, f[6], 0, tdi[7], f[7])
  BY DEF Path
<1>1. At(b, f[1], "RTI", i, s, l)
  BY <1>0, Quiet
<1>2. At(b, f[2], "RTI", i, s, l)
  BY <1>0, <1>1, Quiet
<1>3. At(b, f[3], "RTI", i, s, l)
  BY <1>0, <1>2, Quiet
<1>4. At(b, f[4], "RTI", i, s, l)
  BY <1>0, <1>3, Quiet
<1>5. At(b, f[5], "RTI", i, s, l)
  BY <1>0, <1>4, Quiet
<1>6. At(b, f[6], "RTI", i, s, l)
  BY <1>0, <1>5, Quiet
<1>7. At(b, f[7], "RTI", i, s, l)
  BY <1>0, <1>6, Quiet
<1> QED BY <1>7

LEMMA IdleByThree ==
  ASSUME NEW b, NEW f, NEW tdi, NEW i, NEW s, NEW l, Path(b, f, << 0, 0, 0 >>, tdi),
         At(b, f[0], "TLR", i, s, l)
  PROVE  At(b, f[3], "RTI", i, s, l)
<1>0. /\ Ticks(b, f[0], 0, tdi[1], f[1])
      /\ Ticks(b, f[1], 0, tdi[2], f[2])
      /\ Ticks(b, f[2], 0, tdi[3], f[3])
  BY DEF Path
<1>1. At(b, f[1], "RTI", i, s, l)
  BY <1>0, Quiet
<1>2. At(b, f[2], "RTI", i, s, l)
  BY <1>0, <1>1, Quiet
<1>3. At(b, f[3], "RTI", i, s, l)
  BY <1>0, <1>2, Quiet
<1> QED BY <1>3

\* To Shift-DR: 37, and 1, 0, 0.
LEMMA DataBySeven ==
  ASSUME NEW b, NEW f, NEW tdi, NEW i, NEW s, NEW l, Path(b, f, << 1, 0, 1, 0, 0, 1, 0 >>, tdi),
         At(b, f[0], "RTI", i, s, l)
  PROVE  At(b, f[7], "SD", i, (IF i = IDCODE THEN b.id ELSE b.cells), l)
<1>0. /\ Ticks(b, f[0], 1, tdi[1], f[1])
      /\ Ticks(b, f[1], 0, tdi[2], f[2])
      /\ Ticks(b, f[2], 1, tdi[3], f[3])
      /\ Ticks(b, f[3], 0, tdi[4], f[4])
      /\ Ticks(b, f[4], 0, tdi[5], f[5])
      /\ Ticks(b, f[5], 1, tdi[6], f[6])
      /\ Ticks(b, f[6], 0, tdi[7], f[7])
  BY DEF Path
<1>1. At(b, f[1], "SDS", i, s, l)
  BY <1>0, Quiet
<1>2. At(b, f[2], "CD", i, (IF i = IDCODE THEN b.id ELSE b.cells), l)
  BY <1>0, <1>1, Loud
<1>3. At(b, f[3], "E1D", i, (IF i = IDCODE THEN b.id ELSE b.cells), l)
  BY <1>0, <1>2, Quiet
<1>4. At(b, f[4], "PD", i, (IF i = IDCODE THEN b.id ELSE b.cells), l)
  BY <1>0, <1>3, Quiet
<1>5. At(b, f[5], "PD", i, (IF i = IDCODE THEN b.id ELSE b.cells), l)
  BY <1>0, <1>4, Quiet
<1>6. At(b, f[6], "E2D", i, (IF i = IDCODE THEN b.id ELSE b.cells), l)
  BY <1>0, <1>5, Quiet
<1>7. At(b, f[7], "SD", i, (IF i = IDCODE THEN b.id ELSE b.cells), l)
  BY <1>0, <1>6, Quiet
<1> QED BY <1>7

LEMMA DataByThree ==
  ASSUME NEW b, NEW f, NEW tdi, NEW i, NEW s, NEW l, Path(b, f, << 1, 0, 0 >>, tdi),
         At(b, f[0], "RTI", i, s, l)
  PROVE  At(b, f[3], "SD", i, (IF i = IDCODE THEN b.id ELSE b.cells), l)
<1>0. /\ Ticks(b, f[0], 1, tdi[1], f[1])
      /\ Ticks(b, f[1], 0, tdi[2], f[2])
      /\ Ticks(b, f[2], 0, tdi[3], f[3])
  BY DEF Path
<1>1. At(b, f[1], "SDS", i, s, l)
  BY <1>0, Quiet
<1>2. At(b, f[2], "CD", i, (IF i = IDCODE THEN b.id ELSE b.cells), l)
  BY <1>0, <1>1, Loud
<1>3. At(b, f[3], "SD", i, (IF i = IDCODE THEN b.id ELSE b.cells), l)
  BY <1>0, <1>2, Quiet
<1> QED BY <1>3

\* From the last bit of a data scan to Run-Test/Idle: 49, and 1, 0.
LEMMA DataEndsBySeven ==
  ASSUME NEW b, NEW f, NEW tdi, NEW i, NEW s, NEW l, Path(b, f, << 1, 0, 0, 0, 1, 1, 0 >>, tdi),
         At(b, f[1], "E1D", i, s, l)
  PROVE  At(b, f[7], "RTI", i, s, (IF i = IDCODE THEN l ELSE s))
<1>0. /\ Ticks(b, f[0], 1, tdi[1], f[1])
      /\ Ticks(b, f[1], 0, tdi[2], f[2])
      /\ Ticks(b, f[2], 0, tdi[3], f[3])
      /\ Ticks(b, f[3], 0, tdi[4], f[4])
      /\ Ticks(b, f[4], 1, tdi[5], f[5])
      /\ Ticks(b, f[5], 1, tdi[6], f[6])
      /\ Ticks(b, f[6], 0, tdi[7], f[7])
  BY DEF Path
<1>1. At(b, f[2], "PD", i, s, l)
  BY <1>0, Quiet
<1>2. At(b, f[3], "PD", i, s, l)
  BY <1>0, <1>1, Quiet
<1>3. At(b, f[4], "PD", i, s, l)
  BY <1>0, <1>2, Quiet
<1>4. At(b, f[5], "E2D", i, s, l)
  BY <1>0, <1>3, Quiet
<1>5. At(b, f[6], "UD", i, s, (IF i = IDCODE THEN l ELSE s))
  BY <1>0, <1>4, Loud
<1>6. At(b, f[7], "RTI", i, s, (IF i = IDCODE THEN l ELSE s))
  BY <1>0, <1>5, Quiet
<1> QED BY <1>6

LEMMA DataEndsByTwo ==
  ASSUME NEW b, NEW f, NEW tdi, NEW i, NEW s, NEW l, Path(b, f, << 1, 0 >>, tdi),
         At(b, f[0], "E1D", i, s, l)
  PROVE  At(b, f[2], "RTI", i, s, (IF i = IDCODE THEN l ELSE s))
<1>0. /\ Ticks(b, f[0], 1, tdi[1], f[1])
      /\ Ticks(b, f[1], 0, tdi[2], f[2])
  BY DEF Path
<1>1. At(b, f[1], "UD", i, s, (IF i = IDCODE THEN l ELSE s))
  BY <1>0, Loud
<1>2. At(b, f[2], "RTI", i, s, (IF i = IDCODE THEN l ELSE s))
  BY <1>0, <1>1, Quiet
<1> QED BY <1>2

\* To Shift-IR: 43, and 1, 1, 0, 0.
LEMMA InstructionBySeven ==
  ASSUME NEW b, NEW f, NEW tdi, NEW i, NEW s, NEW l, Path(b, f, << 1, 1, 0, 1, 0, 1, 0 >>, tdi),
         At(b, f[0], "RTI", i, s, l)
  PROVE  At(b, f[7], "SI", i, <<1, 0, 0, 0>>, l)
<1>0. /\ Ticks(b, f[0], 1, tdi[1], f[1])
      /\ Ticks(b, f[1], 1, tdi[2], f[2])
      /\ Ticks(b, f[2], 0, tdi[3], f[3])
      /\ Ticks(b, f[3], 1, tdi[4], f[4])
      /\ Ticks(b, f[4], 0, tdi[5], f[5])
      /\ Ticks(b, f[5], 1, tdi[6], f[6])
      /\ Ticks(b, f[6], 0, tdi[7], f[7])
  BY DEF Path
<1>1. At(b, f[1], "SDS", i, s, l)
  BY <1>0, Quiet
<1>2. At(b, f[2], "SIS", i, s, l)
  BY <1>0, <1>1, Quiet
<1>3. At(b, f[3], "CI", i, <<1, 0, 0, 0>>, l)
  BY <1>0, <1>2, Loud
<1>4. At(b, f[4], "E1I", i, <<1, 0, 0, 0>>, l)
  BY <1>0, <1>3, Quiet
<1>5. At(b, f[5], "PI", i, <<1, 0, 0, 0>>, l)
  BY <1>0, <1>4, Quiet
<1>6. At(b, f[6], "E2I", i, <<1, 0, 0, 0>>, l)
  BY <1>0, <1>5, Quiet
<1>7. At(b, f[7], "SI", i, <<1, 0, 0, 0>>, l)
  BY <1>0, <1>6, Quiet
<1> QED BY <1>7

LEMMA InstructionByFour ==
  ASSUME NEW b, NEW f, NEW tdi, NEW i, NEW s, NEW l, Path(b, f, << 1, 1, 0, 0 >>, tdi),
         At(b, f[0], "RTI", i, s, l)
  PROVE  At(b, f[4], "SI", i, <<1, 0, 0, 0>>, l)
<1>0. /\ Ticks(b, f[0], 1, tdi[1], f[1])
      /\ Ticks(b, f[1], 1, tdi[2], f[2])
      /\ Ticks(b, f[2], 0, tdi[3], f[3])
      /\ Ticks(b, f[3], 0, tdi[4], f[4])
  BY DEF Path
<1>1. At(b, f[1], "SDS", i, s, l)
  BY <1>0, Quiet
<1>2. At(b, f[2], "SIS", i, s, l)
  BY <1>0, <1>1, Quiet
<1>3. At(b, f[3], "CI", i, <<1, 0, 0, 0>>, l)
  BY <1>0, <1>2, Loud
<1>4. At(b, f[4], "SI", i, <<1, 0, 0, 0>>, l)
  BY <1>0, <1>3, Quiet
<1> QED BY <1>4

\* From the last bit of an instruction to Run-Test/Idle: 49, and 1, 0.
LEMMA InstructionEndsBySeven ==
  ASSUME NEW b, NEW f, NEW tdi, NEW i, NEW s, NEW l, Path(b, f, << 1, 0, 0, 0, 1, 1, 0 >>, tdi),
         At(b, f[1], "E1I", i, s, l)
  PROVE  At(b, f[7], "RTI", s, s, l)
<1>0. /\ Ticks(b, f[0], 1, tdi[1], f[1])
      /\ Ticks(b, f[1], 0, tdi[2], f[2])
      /\ Ticks(b, f[2], 0, tdi[3], f[3])
      /\ Ticks(b, f[3], 0, tdi[4], f[4])
      /\ Ticks(b, f[4], 1, tdi[5], f[5])
      /\ Ticks(b, f[5], 1, tdi[6], f[6])
      /\ Ticks(b, f[6], 0, tdi[7], f[7])
  BY DEF Path
<1>1. At(b, f[2], "PI", i, s, l)
  BY <1>0, Quiet
<1>2. At(b, f[3], "PI", i, s, l)
  BY <1>0, <1>1, Quiet
<1>3. At(b, f[4], "PI", i, s, l)
  BY <1>0, <1>2, Quiet
<1>4. At(b, f[5], "E2I", i, s, l)
  BY <1>0, <1>3, Quiet
<1>5. At(b, f[6], "UI", s, s, l)
  BY <1>0, <1>4, Loud
<1>6. At(b, f[7], "RTI", s, s, l)
  BY <1>0, <1>5, Quiet
<1> QED BY <1>6

LEMMA InstructionEndsByTwo ==
  ASSUME NEW b, NEW f, NEW tdi, NEW i, NEW s, NEW l, Path(b, f, << 1, 0 >>, tdi),
         At(b, f[0], "E1I", i, s, l)
  PROVE  At(b, f[2], "RTI", s, s, l)
<1>0. /\ Ticks(b, f[0], 1, tdi[1], f[1])
      /\ Ticks(b, f[1], 0, tdi[2], f[2])
  BY DEF Path
<1>1. At(b, f[1], "UI", s, s, l)
  BY <1>0, Loud
<1>2. At(b, f[2], "RTI", s, s, l)
  BY <1>0, <1>1, Quiet
<1> QED BY <1>2

\* From reset to Shift-IR, for the id: 27, and 0, 0, 0, 0, 1, 1, 0, 0.
LEMMA IdBySeven ==
  ASSUME NEW b, NEW f, NEW tdi, NEW i, NEW s, NEW l, Path(b, f, << 1, 1, 0, 1, 1, 0, 0 >>, tdi),
         At(b, f[0], "TLR", i, s, l)
  PROVE  At(b, f[7], "SI", IDCODE, <<1, 0, 0, 0>>, l)
<1>0. /\ Ticks(b, f[0], 1, tdi[1], f[1])
      /\ Ticks(b, f[1], 1, tdi[2], f[2])
      /\ Ticks(b, f[2], 0, tdi[3], f[3])
      /\ Ticks(b, f[3], 1, tdi[4], f[4])
      /\ Ticks(b, f[4], 1, tdi[5], f[5])
      /\ Ticks(b, f[5], 0, tdi[6], f[6])
      /\ Ticks(b, f[6], 0, tdi[7], f[7])
  BY DEF Path
<1>1. At(b, f[1], "TLR", IDCODE, s, l)
  BY <1>0, Loud
<1>2. At(b, f[2], "TLR", IDCODE, s, l)
  BY <1>0, <1>1, Loud
<1>3. At(b, f[3], "RTI", IDCODE, s, l)
  BY <1>0, <1>2, Quiet
<1>4. At(b, f[4], "SDS", IDCODE, s, l)
  BY <1>0, <1>3, Quiet
<1>5. At(b, f[5], "SIS", IDCODE, s, l)
  BY <1>0, <1>4, Quiet
<1>6. At(b, f[6], "CI", IDCODE, <<1, 0, 0, 0>>, l)
  BY <1>0, <1>5, Loud
<1>7. At(b, f[7], "SI", IDCODE, <<1, 0, 0, 0>>, l)
  BY <1>0, <1>6, Quiet
<1> QED BY <1>7

LEMMA IdByEight ==
  ASSUME NEW b, NEW f, NEW tdi, NEW i, NEW s, NEW l, Path(b, f, << 0, 0, 0, 0, 1, 1, 0, 0 >>, tdi),
         At(b, f[0], "TLR", i, s, l)
  PROVE  At(b, f[8], "SI", i, <<1, 0, 0, 0>>, l)
<1>0. /\ Ticks(b, f[0], 0, tdi[1], f[1])
      /\ Ticks(b, f[1], 0, tdi[2], f[2])
      /\ Ticks(b, f[2], 0, tdi[3], f[3])
      /\ Ticks(b, f[3], 0, tdi[4], f[4])
      /\ Ticks(b, f[4], 1, tdi[5], f[5])
      /\ Ticks(b, f[5], 1, tdi[6], f[6])
      /\ Ticks(b, f[6], 0, tdi[7], f[7])
      /\ Ticks(b, f[7], 0, tdi[8], f[8])
  BY DEF Path
<1>1. At(b, f[1], "RTI", i, s, l)
  BY <1>0, Quiet
<1>2. At(b, f[2], "RTI", i, s, l)
  BY <1>0, <1>1, Quiet
<1>3. At(b, f[3], "RTI", i, s, l)
  BY <1>0, <1>2, Quiet
<1>4. At(b, f[4], "RTI", i, s, l)
  BY <1>0, <1>3, Quiet
<1>5. At(b, f[5], "SDS", i, s, l)
  BY <1>0, <1>4, Quiet
<1>6. At(b, f[6], "SIS", i, s, l)
  BY <1>0, <1>5, Quiet
<1>7. At(b, f[7], "CI", i, <<1, 0, 0, 0>>, l)
  BY <1>0, <1>6, Loud
<1>8. At(b, f[8], "SI", i, <<1, 0, 0, 0>>, l)
  BY <1>0, <1>7, Quiet
<1> QED BY <1>8

\* From the last bit of the instruction to Shift-DR: 7, and 1, 1, 0, 0.
LEMMA IdDataByFive ==
  ASSUME NEW b, NEW f, NEW tdi, NEW i, NEW s, NEW l, Path(b, f, << 1, 1, 1, 0, 0 >>, tdi),
         At(b, f[1], "E1I", i, s, l)
  PROVE  At(b, f[5], "SD", s, (IF s = IDCODE THEN b.id ELSE b.cells), l)
<1>0. /\ Ticks(b, f[0], 1, tdi[1], f[1])
      /\ Ticks(b, f[1], 1, tdi[2], f[2])
      /\ Ticks(b, f[2], 1, tdi[3], f[3])
      /\ Ticks(b, f[3], 0, tdi[4], f[4])
      /\ Ticks(b, f[4], 0, tdi[5], f[5])
  BY DEF Path
<1>1. At(b, f[2], "UI", s, s, l)
  BY <1>0, Loud
<1>2. At(b, f[3], "SDS", s, s, l)
  BY <1>0, <1>1, Quiet
<1>3. At(b, f[4], "CD", s, (IF s = IDCODE THEN b.id ELSE b.cells), l)
  BY <1>0, <1>2, Loud
<1>4. At(b, f[5], "SD", s, (IF s = IDCODE THEN b.id ELSE b.cells), l)
  BY <1>0, <1>3, Quiet
<1> QED BY <1>4

LEMMA IdDataByFour ==
  ASSUME NEW b, NEW f, NEW tdi, NEW i, NEW s, NEW l, Path(b, f, << 1, 1, 0, 0 >>, tdi),
         At(b, f[0], "E1I", i, s, l)
  PROVE  At(b, f[4], "SD", s, (IF s = IDCODE THEN b.id ELSE b.cells), l)
<1>0. /\ Ticks(b, f[0], 1, tdi[1], f[1])
      /\ Ticks(b, f[1], 1, tdi[2], f[2])
      /\ Ticks(b, f[2], 0, tdi[3], f[3])
      /\ Ticks(b, f[3], 0, tdi[4], f[4])
  BY DEF Path
<1>1. At(b, f[1], "UI", s, s, l)
  BY <1>0, Loud
<1>2. At(b, f[2], "SDS", s, s, l)
  BY <1>0, <1>1, Quiet
<1>3. At(b, f[3], "CD", s, (IF s = IDCODE THEN b.id ELSE b.cells), l)
  BY <1>0, <1>2, Loud
<1>4. At(b, f[4], "SD", s, (IF s = IDCODE THEN b.id ELSE b.cells), l)
  BY <1>0, <1>3, Quiet
<1> QED BY <1>4

\* Five ones on TMS and more lead to reset.
Ones(s) ==
  IF s = 1 THEN {"TLR", "SDS", "SIS", "E1D", "E2D", "UD", "E1I", "E2I", "UI"}
  ELSE IF s = 2 THEN {"TLR", "SDS", "SIS", "UD", "UI"}
  ELSE IF s = 3 THEN {"TLR", "SDS", "SIS"} ELSE {"TLR", "SIS"}
LEMMA OneUp ==
  ASSUME NEW b, NEW d, NEW tdi, NEW e, Ticks(b, d, 1, tdi, e)
  PROVE  /\ d.tap \in TapState => e.tap \in Ones(1)
         /\ d.tap \in Ones(1) => e.tap \in Ones(2)
         /\ d.tap \in Ones(2) => e.tap \in Ones(3)
         /\ d.tap \in Ones(3) => e.tap \in Ones(4)
         /\ d.tap \in Ones(4) \cup {"TLR"} => At(b, e, "TLR", IDCODE, e.sr, e.latch)
<1>1. e.tap = TapNext(d.tap, 1) /\ On(b, e) /\ (e.tap = "TLR" => e.ir = IDCODE)
  BY DEF Ticks
<1>2. d.tap \in TapState => e.tap \in Ones(1)
  BY <1>1, Arrows DEF TapState, Ones
<1>3. d.tap \in Ones(1) => e.tap \in Ones(2)
  BY <1>1, Arrows DEF Ones
<1>4. d.tap \in Ones(2) => e.tap \in Ones(3)
  BY <1>1, Arrows DEF Ones
<1>5. d.tap \in Ones(3) => e.tap \in Ones(4)
  BY <1>1, Arrows DEF Ones
<1>6. d.tap \in Ones(4) \cup {"TLR"} => At(b, e, "TLR", IDCODE, e.sr, e.latch)
  BY <1>1, Arrows DEF Ones, At
<1> QED BY <1>2, <1>3, <1>4, <1>5, <1>6

LEMMA ResetBySeven ==
  ASSUME NEW b, NEW f, NEW tdi, Path(b, f, << 1, 1, 1, 1, 1, 1, 1 >>, tdi)
  PROVE  At(b, f[7], "TLR", IDCODE, f[7].sr, f[7].latch)
<1>0. /\ Ticks(b, f[0], 1, tdi[1], f[1]) /\ Ticks(b, f[1], 1, tdi[2], f[2])
      /\ Ticks(b, f[2], 1, tdi[3], f[3]) /\ Ticks(b, f[3], 1, tdi[4], f[4])
      /\ Ticks(b, f[4], 1, tdi[5], f[5]) /\ Ticks(b, f[5], 1, tdi[6], f[6])
      /\ Ticks(b, f[6], 1, tdi[7], f[7])
  BY DEF Path
<1>1. f[0].tap \in TapState
  BY DEF Path, On
<1>2. f[4].tap \in Ones(4)
  BY <1>0, <1>1, OneUp
<1>3. f[5].tap = "TLR"
  BY <1>0, <1>2, OneUp DEF At
<1>4. f[6].tap = "TLR"
  BY <1>0, <1>3, OneUp DEF At
<1> QED BY <1>0, <1>4, OneUp

LEMMA ResetBySix ==
  ASSUME NEW b, NEW f, NEW tdi, Path(b, f, << 1, 1, 1, 1, 1, 1 >>, tdi)
  PROVE  At(b, f[6], "TLR", IDCODE, f[6].sr, f[6].latch)
<1>0. /\ Ticks(b, f[0], 1, tdi[1], f[1]) /\ Ticks(b, f[1], 1, tdi[2], f[2])
      /\ Ticks(b, f[2], 1, tdi[3], f[3]) /\ Ticks(b, f[3], 1, tdi[4], f[4])
      /\ Ticks(b, f[4], 1, tdi[5], f[5]) /\ Ticks(b, f[5], 1, tdi[6], f[6])
  BY DEF Path
<1>1. f[0].tap \in TapState
  BY DEF Path, On
<1>2. f[4].tap \in Ones(4)
  BY <1>0, <1>1, OneUp
<1>3. f[5].tap = "TLR"
  BY <1>0, <1>2, OneUp DEF At
<1> QED BY <1>0, <1>3, OneUp

\* A movement leaves the board what it is.
LEMMA PathStays ==
  ASSUME NEW b, NEW f, NEW tms, NEW tdi, Path(b, f, tms, tdi), Len(tms) \in Nat
  PROVE  On(b, f[Len(tms)])
<1>1. CASE Len(tms) = 0
  BY <1>1 DEF Path
<1>2. CASE Len(tms) # 0
  <2>1. Len(tms) \in 1 .. Len(tms)
    BY <1>2
  <2> QED BY <2>1 DEF Path, Ticks
<1> QED BY <1>1, <1>2

\* What comes out on a path.
Outs(f, n) == [j \in 1 .. n |-> Out(f[j - 1])]

\* What Clocks does is a path, and the bits that come out are those of its devices.
LEMMA ClocksPath ==
  ASSUME NEW b \in Board, NEW d, On(b, d), d.tdo = <<>>, NEW n \in Nat,
         NEW tms \in [1 .. n -> Bit], NEW tdi \in [1 .. n -> Bit]
  PROVE  \E f : /\ Path(b, f, tms, tdi) /\ f[0] = d /\ f[n] = Clocks(d, tms, tdi)
                /\ f[n].tdo = Outs(f, n) /\ Outs(f, n) \in Seq(Bit) /\ Len(Outs(f, n)) = n
<1>1. Len(tms) = n
  OBVIOUS
<1>2. PICK f : Clocked(f, d, tms, tdi) /\ Clocks(d, tms, tdi) = f[n]
  BY <1>1, ClockByClock
<1>3. f[0] = d /\ \A k \in 1 .. n : f[k] = Clock(f[k - 1], tms[k], tdi[k])
  BY <1>1, <1>2 DEF Clocked
<1>c. ASSUME NEW e, On(b, e), NEW x \in Bit, NEW y \in Bit
      PROVE  Ticks(b, e, x, y, Clock(e, x, y)) /\ Clock(e, x, y).tdo = Append(e.tdo, Out(e))
  BY <1>c, ClockTicks
<1> DEFINE Good(k) == On(b, f[k]) /\ f[k].tdo = [j \in 1 .. k |-> Out(f[j - 1])]
           Bad == {k \in Nat : k <= n /\ ~Good(k)}
<1>4. Bad = {}
  <2> SUFFICES ASSUME Bad # {} PROVE FALSE
    OBVIOUS
  <2>1. PICK k \in Bad : \A m \in Bad : k <= m
    <3>1. Bad \in SUBSET Nat
      OBVIOUS
    <3> HIDE DEF Bad
    <3> QED BY <3>1, Least
  <2>2. k \in Nat /\ k <= n /\ ~Good(k)
    BY <2>1
  <2>3. k # 0
    <3>1. [j \in 1 .. 0 |-> Out(f[j - 1])] = <<>>
      OBVIOUS
    <3> QED BY <1>3, <2>2, <3>1
  <2>4. Good(k - 1)
    <3> HIDE DEF Good
    <3>1. k - 1 \in Nat /\ k - 1 <= n /\ ~(k <= k - 1)
      BY <2>2, <2>3
    <3>2. k - 1 \notin Bad
      <4> HIDE DEF Bad
      <4> QED BY <2>1, <3>1
    <3> QED BY <3>1, <3>2
  <2>5. f[k] = Clock(f[k - 1], tms[k], tdi[k]) /\ tms[k] \in Bit /\ tdi[k] \in Bit
    BY <1>3, <2>2, <2>3
  <2>6. On(b, f[k]) /\ f[k].tdo = Append(f[k - 1].tdo, Out(f[k - 1]))
    <3>1. On(b, f[k - 1])
      BY <2>4
    <3>2. /\ Ticks(b, f[k - 1], tms[k], tdi[k], Clock(f[k - 1], tms[k], tdi[k]))
          /\ Clock(f[k - 1], tms[k], tdi[k]).tdo = Append(f[k - 1].tdo, Out(f[k - 1]))
      BY <1>c, <2>5, <3>1
    <3> QED BY <2>5, <3>2 DEF Ticks
  <2>7. Append(f[k - 1].tdo, Out(f[k - 1])) = [j \in 1 .. k |-> Out(f[j - 1])]
    <3> DEFINE q == f[k - 1].tdo
               x == Out(f[k - 1])
    <3>1. q \in Seq(Bit) /\ x \in Bit /\ q = [j \in 1 .. k - 1 |-> Out(f[j - 1])]
      BY <2>4, <2>5, ShiftedTyped DEF On
    <3>2. Len(q) = k - 1
      BY <2>2, <2>3, <3>1
    <3>3. \A j \in 1 .. k - 1 : q[j] = Out(f[j - 1])
      BY <3>1
    <3> HIDE DEF q, x
    <3>4. /\ Append(q, x) = [j \in 1 .. k |-> Append(q, x)[j]] /\ Append(q, x)[k] = x
          /\ \A j \in 1 .. k - 1 : Append(q, x)[j] = q[j]
      BY <2>2, <2>3, <3>1, <3>2
    <3>5. \A j \in 1 .. k : Append(q, x)[j] = Out(f[j - 1])
      BY <2>2, <2>3, <3>3, <3>4 DEF x
    <3> QED BY <3>4, <3>5 DEF q, x
  <2> QED BY <2>2, <2>6, <2>7
<1>5. \A k \in 0 .. n : Good(k)
  <2> HIDE DEF Good
  <2> QED BY <1>4
<1>6. Path(b, f, tms, tdi)
  <2>1. On(b, f[0])
    BY <1>3
  <2>2. ASSUME NEW k \in 1 .. n
        PROVE  tms[k] \in Bit /\ tdi[k] \in Bit /\ Ticks(b, f[k - 1], tms[k], tdi[k], f[k])
    <3>1. k - 1 \in 0 .. n /\ k \in Nat
      OBVIOUS
    <3>2. Good(k - 1)
      <4> HIDE DEF Good
      <4> QED BY <1>5, <3>1
    <3>3. tms[k] \in Bit /\ tdi[k] \in Bit /\ On(b, f[k - 1])
      BY <3>2
    <3> QED BY <1>3, <3>3, ClockTicks
  <2> QED BY <1>1, <2>1, <2>2 DEF Path
<1>7. f[n].tdo = Outs(f, n) /\ Outs(f, n) \in Seq(Bit) /\ Len(Outs(f, n)) = n
  <2>1. Good(n)
    <3> HIDE DEF Good
    <3> QED BY <1>5
  <2>2. f[n].tdo = Outs(f, n) /\ f[n].tdo \in Seq(Bit)
    BY <2>1 DEF Outs, On
  <2>3. Len(Outs(f, n)) = n
    BY DEF Outs
  <2> QED BY <2>2, <2>3
<1>8. f[n] = Clocks(d, tms, tdi)
  BY <1>1, <1>2
<1> HIDE DEF Good, Bad
<1> QED BY <1>3, <1>6, <1>7, <1>8

-----------------------------------------------------------------------------
(* Shifting *)

\* n bits of which m have gone out and been replaced.
Mix(n, from, in, m) == [i \in 1 .. n |-> IF i <= n - m THEN from[i + m] ELSE in[i - (n - m)]]

LEMMA MixEnds ==
  ASSUME NEW n \in Nat, NEW from, NEW in, from = [i \in 1 .. n |-> from[i]],
         in = [i \in 1 .. n |-> in[i]]
  PROVE  Mix(n, from, in, 0) = from /\ Mix(n, from, in, n) = in
<1>1. \A i \in 1 .. n : Mix(n, from, in, 0)[i] = from[i] /\ Mix(n, from, in, n)[i] = in[i]
  BY DEF Mix
<1>2. Mix(n, from, in, 0) = [i \in 1 .. n |-> from[i]]
  BY DEF Mix
<1>3. Mix(n, from, in, n) = [i \in 1 .. n |-> in[i]]
  BY DEF Mix
<1> QED BY <1>2, <1>3

\* One more.
LEMMA MixShifts ==
  ASSUME NEW n \in Nat \ {0}, NEW from \in [1 .. n -> Bit], NEW in \in [1 .. n -> Bit],
         NEW m \in 0 .. n - 1, NEW q, q = Mix(n, from, in, m)
  PROVE  /\ q \in Seq(Bit) /\ q # <<>> /\ Head(q) = from[m + 1]
         /\ Append(Tail(q), in[m + 1]) = Mix(n, from, in, m + 1)
<1>1. q \in [1 .. n -> Bit]
  BY DEF Mix
<1>2. q \in Seq(Bit) /\ Len(q) = n /\ q # <<>> /\ Head(q) = q[1]
  BY <1>1
<1>3. Head(q) = from[m + 1]
  BY <1>2 DEF Mix
<1>4. /\ Tail(q) \in Seq(Bit) /\ Len(Tail(q)) = n - 1
      /\ \A i \in 1 .. n - 1 : Tail(q)[i] = q[i + 1]
  BY <1>2
<1>5. in[m + 1] \in Bit
  OBVIOUS
<1> DEFINE w == Append(Tail(q), in[m + 1])
           v == Mix(n, from, in, m + 1)
<1>6. /\ w \in Seq(Bit) /\ Len(w) = n /\ w[n] = in[m + 1]
      /\ \A i \in 1 .. n - 1 : w[i] = q[i + 1]
  BY <1>4, <1>5
<1> HIDE DEF w
<1>7. ASSUME NEW i \in 1 .. n PROVE w[i] = v[i]
  <2>1. CASE i = n
    <3>1. v[n] = in[n - (n - (m + 1))]
      BY DEF Mix
    <3> QED BY <1>6, <2>1, <3>1
  <2>2. CASE i # n
    <3>1. w[i] = q[i + 1] /\ i + 1 \in 1 .. n
      BY <1>6, <2>2
    <3>2. q[i + 1] = IF i + 1 <= n - m THEN from[i + 1 + m] ELSE in[i + 1 - (n - m)]
      BY <3>1 DEF Mix
    <3>3. v[i] = IF i <= n - (m + 1) THEN from[i + (m + 1)] ELSE in[i - (n - (m + 1))]
      BY DEF Mix
    <3> QED BY <3>1, <3>2, <3>3
  <2> QED BY <2>1, <2>2
<1>8. w = [i \in 1 .. n |-> w[i]] /\ v = [i \in 1 .. n |-> v[i]]
  BY <1>6 DEF Mix
<1> HIDE DEF v
<1>9. w = v
  BY <1>7, <1>8
<1> QED BY <1>2, <1>3, <1>9 DEF w, v

\* In the middle of a shift of n bits: m are through.
Mid(b, d, s, i, l, n, from, in, m) ==
  /\ n \in Nat \ {0} /\ from \in [1 .. n -> Bit] /\ in \in [1 .. n -> Bit] /\ s \in Shifting
  /\ m \in 0 .. n /\ At(b, d, s, i, Mix(n, from, in, m), l)

LEMMA ShiftBegins ==
  ASSUME NEW b, NEW d, NEW s \in Shifting, NEW i, NEW l, NEW n \in Nat \ {0},
         NEW from \in [1 .. n -> Bit], NEW in \in [1 .. n -> Bit], At(b, d, s, i, from, l)
  PROVE  Mid(b, d, s, i, l, n, from, in, 0)
<1>1. from = [k \in 1 .. n |-> from[k]] /\ in = [k \in 1 .. n |-> in[k]]
  OBVIOUS
<1>2. Mix(n, from, in, 0) = from
  BY <1>1, MixEnds
<1> QED BY <1>2 DEF Mid

\* A clock in a state that shifts: the register moves by one, the bit before it
\* comes out.
LEMMA Shifting1 ==
  ASSUME NEW b, NEW d, NEW s, NEW i, NEW l, NEW n, NEW from, NEW in, NEW m,
         Mid(b, d, s, i, l, n, from, in, m), m < n, NEW tms, NEW tdi, NEW e,
         Ticks(b, d, tms, tdi, e), tdi = in[m + 1]
  PROVE  /\ Out(d) = from[m + 1] /\ Shifted(d, tdi) = Mix(n, from, in, m + 1)
         /\ d.tap = s /\ d.ir = i /\ d.latch = l /\ s \in {"SD", "SI"} /\ m + 1 \in 0 .. n
<1>1. /\ n \in Nat \ {0} /\ from \in [1 .. n -> Bit] /\ in \in [1 .. n -> Bit] /\ m \in 0 .. n - 1
      /\ d.tap = s /\ d.ir = i /\ d.latch = l /\ d.sr = Mix(n, from, in, m) /\ s \in {"SD", "SI"}
  BY DEF At, Mid, Shifting
<1>2. /\ d.sr # <<>> /\ Head(d.sr) = from[m + 1]
      /\ Append(Tail(d.sr), in[m + 1]) = Mix(n, from, in, m + 1)
  BY <1>1, MixShifts
<1>3. Shifts(d) /\ Shifted(d, tdi) = Mix(n, from, in, m + 1)
  BY <1>1, <1>2 DEF Shifts, Shifted, Shifting
<1> QED BY <1>1, <1>2, <1>3 DEF Out

LEMMA ShiftOn ==
  ASSUME NEW b, NEW d, NEW s, NEW i, NEW l, NEW n, NEW from, NEW in, NEW m,
         Mid(b, d, s, i, l, n, from, in, m), m < n, NEW tdi, NEW e,
         Ticks(b, d, 0, tdi, e), tdi = in[m + 1]
  PROVE  Mid(b, e, s, i, l, n, from, in, m + 1) /\ Out(d) = from[m + 1]
<1>1. /\ Out(d) = from[m + 1] /\ Shifted(d, tdi) = Mix(n, from, in, m + 1)
      /\ d.tap = s /\ d.ir = i /\ d.latch = l /\ s \in {"SD", "SI"} /\ m + 1 \in 0 .. n
  BY Shifting1
<1>2. TapNext(d.tap, 0) = s
  BY <1>1, Arrows
<1>3. /\ On(b, e) /\ e.tap = TapNext(d.tap, 0) /\ e.sr = Shifted(d, tdi)
      /\ e.ir = d.ir /\ e.latch = d.latch
  BY <1>1, <1>2 DEF Ticks, Captured
<1>4. At(b, e, s, i, Mix(n, from, in, m + 1), l)
  BY <1>1, <1>2, <1>3 DEF At
<1> QED BY <1>1, <1>4 DEF Mid

\* The last bit, with TMS high.
Leaves(s) == IF s = "SD" THEN "E1D" ELSE "E1I"
LEMMA ShiftEnds ==
  ASSUME NEW b, NEW d, NEW s, NEW i, NEW l, NEW n, NEW from, NEW in, NEW m,
         Mid(b, d, s, i, l, n, from, in, m), m = n - 1, NEW tdi, NEW e,
         Ticks(b, d, 1, tdi, e), tdi = in[n]
  PROVE  At(b, e, Leaves(s), i, in, l) /\ Out(d) = from[n]
<1>0. n \in Nat \ {0} /\ m \in 0 .. n /\ m < n /\ m + 1 = n /\ from \in [1 .. n -> Bit] /\ in \in [1 .. n -> Bit]
  BY DEF Mid
<1>1. /\ Out(d) = from[m + 1] /\ Shifted(d, tdi) = Mix(n, from, in, m + 1)
      /\ d.tap = s /\ d.ir = i /\ d.latch = l /\ s \in {"SD", "SI"} /\ m + 1 \in 0 .. n
  BY <1>0, Shifting1
<1>2. TapNext(d.tap, 1) = Leaves(s) /\ Leaves(s) \in {"E1D", "E1I"}
  BY <1>1, Arrows DEF Leaves
<1>3. /\ On(b, e) /\ e.tap = TapNext(d.tap, 1) /\ e.sr = Shifted(d, tdi)
      /\ e.ir = d.ir /\ e.latch = d.latch
  BY <1>1, <1>2 DEF Ticks, Captured
<1>4. Mix(n, from, in, n) = in
  <2>1. from = [k \in 1 .. n |-> from[k]] /\ in = [k \in 1 .. n |-> in[k]]
    BY <1>0
  <2> QED BY <1>0, <2>1, MixEnds
<1>5. e.sr = in
  BY <1>0, <1>1, <1>3, <1>4
<1>6. Out(d) = from[n]
  BY <1>0, <1>1
<1> QED BY <1>1, <1>2, <1>3, <1>5, <1>6 DEF At

\* c clocks with TMS low.
Feeds(tms, tdi, c, n, in, m) ==
  /\ c \in Nat /\ Len(tms) = c /\ m + c <= n
  /\ \A j \in 1 .. c : tms[j] = 0 /\ tdi[j] = in[m + j]
Passes(f, c, from, m) == \A j \in 1 .. c : Out(f[j - 1]) = from[m + j]
LEMMA ShiftMany ==
  ASSUME NEW b, NEW f, NEW tms, NEW tdi, NEW s, NEW i, NEW l, NEW n, NEW from, NEW in, NEW m \in Nat,
         Path(b, f, tms, tdi), Mid(b, f[0], s, i, l, n, from, in, m),
         NEW c, Feeds(tms, tdi, c, n, in, m)
  PROVE  /\ Mid(b, f[c], s, i, l, n, from, in, m + c)
         /\ Passes(f, c, from, m)
<1>0. m \in Nat /\ n \in Nat /\ m + 0 = m
  BY DEF Mid
<1>9. c \in Nat /\ Len(tms) = c /\ m + c <= n /\ \A j \in 1 .. c : tms[j] = 0 /\ tdi[j] = in[m + j]
  BY DEF Feeds
<1> DEFINE Good(k) == Mid(b, f[k], s, i, l, n, from, in, m + k)
           Bad == {k \in Nat : k <= c /\ ~Good(k)}
<1>1. ASSUME NEW k \in Nat, k < c, Good(k)
      PROVE  Good(k + 1) /\ Out(f[k]) = from[m + k + 1]
  <2>1. k + 1 \in 1 .. c /\ (k + 1) - 1 = k /\ m + k < n /\ (m + k) + 1 = m + (k + 1)
    BY <1>0, <1>1, <1>9
  <2>2. tms[k + 1] = 0 /\ tdi[k + 1] = in[(m + k) + 1] /\ Ticks(b, f[k], tms[k + 1], tdi[k + 1], f[k + 1])
    BY <1>9, <2>1 DEF Path
  <2>3. Ticks(b, f[k], 0, tdi[k + 1], f[k + 1])
    BY <2>2
  <2>4. /\ Out(f[k]) = from[(m + k) + 1]
        /\ Mid(b, f[k + 1], s, i, l, n, from, in, (m + k) + 1)
    BY <1>1, <2>1, <2>2, <2>3, ShiftOn
  <2> QED BY <2>1, <2>4
<1>2. Bad = {}
  <2> SUFFICES ASSUME Bad # {} PROVE FALSE
    OBVIOUS
  <2>1. PICK k \in Bad : \A p \in Bad : k <= p
    <3>1. Bad \in SUBSET Nat
      OBVIOUS
    <3> HIDE DEF Bad
    <3> QED BY <3>1, Least
  <2>2. k \in Nat /\ k <= c /\ ~Good(k)
    BY <2>1
  <2>3. k # 0
    BY <1>0, <2>2
  <2> HIDE DEF Good
  <2>4. k - 1 \in Nat /\ k - 1 < c /\ ~(k <= k - 1)
    BY <1>9, <2>2, <2>3
  <2>5. Good(k - 1)
    <3>1. k - 1 \notin Bad
      <4> HIDE DEF Bad
      <4> QED BY <2>1, <2>4
    <3> QED BY <1>9, <2>4, <3>1
  <2>6. Good((k - 1) + 1)
    BY <1>1, <2>4, <2>5
  <2>7. (k - 1) + 1 = k
    BY <2>2
  <2> QED BY <2>2, <2>6, <2>7
<1> HIDE DEF Good
<1>3. \A k \in Nat : k <= c => Good(k)
  BY <1>2
<1>4. ASSUME NEW j \in 1 .. c PROVE Out(f[j - 1]) = from[m + j]
  <2>1. j - 1 \in Nat /\ j - 1 < c /\ m + (j - 1) + 1 = m + j
    BY <1>0, <1>9
  <2>2. Good(j - 1)
    BY <1>3, <1>9, <2>1
  <2> QED BY <1>1, <2>1, <2>2
<1>5. Good(c)
  BY <1>3, <1>9
<1> QED BY <1>4, <1>5 DEF Good, Passes

-----------------------------------------------------------------------------
(* What is in the buffer, done *)

\* The TAP, the bytes that came back, the byte at the port and the string read,
\* after a command of the FT2232, and after an access to the port.
Commanded(s, c) ==
  LET d == [s.dev EXCEPT !.tdo = <<>>]
      tms == IF c.op = "tms" THEN TmsBits(c) ELSE [k \in 1 .. c.n * Len(c.data) |-> 0]
      tdi == IF c.op = "tms" THEN TmsTdi(c) ELSE DataBits(c)
      after == Clocks(d, tms, tdi)
      back == [j \in 1 .. Len(c.data) |-> Arrived(SubSeq(after.tdo, c.n * (j - 1) + 1, c.n * j))]
  IN [dev |-> after, rx |-> IF c.read THEN s.rx \o back ELSE s.rx, byte |-> s.byte, rd |-> s.rd]
Accessed(pins, s, a) ==
  IF a.get
  THEN [dev |-> s.dev, rx |-> s.rx, byte |-> s.byte, rd |-> Append(s.rd, InputPpt(s.dev))]
  ELSE [dev |-> OutputPpt(pins, s.byte, Byte(pins, a), [s.dev EXCEPT !.tdo = <<>>]),
        rx |-> s.rx, byte |-> Byte(pins, a), rd |-> s.rd]
Did(name, s, c) == IF name = "openjtag" THEN Commanded(s, c) ELSE Accessed(Pins(name), s, c)

\* From s to t by all of q.
Runs(name, q, s, t) ==
  \E f : /\ f[0] = s /\ f[Len(q)] = t
         /\ \A k \in 1 .. Len(q) : f[k] = Did(name, f[k - 1], q[k])

LEMMA RunsNothing ==
  ASSUME NEW name, NEW s
  PROVE  Runs(name, <<>>, s, s)
<1> DEFINE f == [k \in {0} |-> s]
<1>1. f[0] = s /\ f[Len(<<>>)] = s /\ \A k \in 1 .. Len(<<>>) : f[k] = Did(name, f[k - 1], <<>>[k])
  OBVIOUS
<1> HIDE DEF f
<1> QED BY <1>1 DEF Runs

LEMMA RunsEnd ==
  ASSUME NEW name, NEW s, NEW t, Runs(name, <<>>, s, t)
  PROVE  s = t
BY DEF Runs

LEMMA RunsOne ==
  ASSUME NEW name, NEW s, NEW c
  PROVE  Runs(name, << c >>, s, Did(name, s, c))
<1> DEFINE t == Did(name, s, c)
<1> HIDE DEF t
<1> DEFINE f == [k \in 0 .. 1 |-> IF k = 0 THEN s ELSE t]
<1>1. f[0] = s /\ f[1] = t
  OBVIOUS
<1>2. Len(<< c >>) = 1 /\ << c >>[1] = c
  OBVIOUS
<1>3. \A k \in 1 .. 1 : f[k] = Did(name, f[k - 1], << c >>[k])
  <2>1. Did(name, f[0], << c >>[1]) = t
    BY <1>1, <1>2 DEF t
  <2> HIDE DEF f
  <2> SUFFICES ASSUME NEW k \in 1 .. 1 PROVE f[k] = Did(name, f[k - 1], << c >>[k])
    OBVIOUS
  <2>2. k = 1 /\ k - 1 = 0
    OBVIOUS
  <2> QED BY <1>1, <2>1, <2>2
<1> HIDE DEF f
<1>4. Runs(name, << c >>, s, t)
  BY <1>1, <1>2, <1>3 DEF Runs
<1> QED BY <1>4 DEF t

LEMMA RunsBoth ==
  ASSUME NEW S, NEW p \in Seq(S), NEW q \in Seq(S), NEW name, NEW s, NEW t, NEW u,
         Runs(name, p, s, t), Runs(name, q, t, u)
  PROVE  p \o q \in Seq(S) /\ Runs(name, p \o q, s, u)
<1>1. PICK f : /\ f[0] = s /\ f[Len(p)] = t
               /\ \A k \in 1 .. Len(p) : f[k] = Did(name, f[k - 1], p[k])
  BY DEF Runs
<1>2. PICK g : /\ g[0] = t /\ g[Len(q)] = u
               /\ \A k \in 1 .. Len(q) : g[k] = Did(name, g[k - 1], q[k])
  BY DEF Runs
<1>3. Len(p) \in Nat /\ Len(q) \in Nat
  OBVIOUS
<1>4. /\ p \o q \in Seq(S) /\ Len(p \o q) = Len(p) + Len(q)
      /\ \A k \in 1 .. Len(p) : (p \o q)[k] = p[k]
      /\ \A k \in 1 .. Len(q) : (p \o q)[Len(p) + k] = q[k]
  BY Joined
<1> DEFINE h == [k \in 0 .. Len(p) + Len(q) |-> IF k <= Len(p) THEN f[k] ELSE g[k - Len(p)]]
<1>5. \A k \in 0 .. Len(p) : h[k] = f[k]
  BY <1>3
<1>6. \A k \in 0 .. Len(q) : h[Len(p) + k] = g[k]
  <2> SUFFICES ASSUME NEW k \in 0 .. Len(q) PROVE h[Len(p) + k] = g[k]
    OBVIOUS
  <2>1. CASE k = 0
    BY <1>1, <1>2, <1>3, <2>1
  <2>2. CASE k # 0
    BY <1>3, <2>2
  <2> QED BY <2>1, <2>2
<1> HIDE DEF h
<1>7. h[0] = s /\ h[Len(p) + Len(q)] = u
  BY <1>1, <1>2, <1>3, <1>5, <1>6
<1>8. ASSUME NEW k \in 1 .. Len(p) + Len(q) PROVE h[k] = Did(name, h[k - 1], (p \o q)[k])
  <2>1. CASE k <= Len(p)
    <3>1. k \in 1 .. Len(p) /\ k \in 0 .. Len(p) /\ k - 1 \in 0 .. Len(p)
      BY <1>3, <2>1
    <3> QED BY <1>1, <1>4, <1>5, <3>1
  <2>2. CASE k > Len(p)
    <3>1. PICK m \in 1 .. Len(q) : k = Len(p) + m /\ k - 1 = Len(p) + (m - 1) /\ m - 1 \in 0 .. Len(q)
                                   /\ m \in 0 .. Len(q)
      <4>1. k - Len(p) \in 1 .. Len(q) /\ k = Len(p) + (k - Len(p)) /\ k - 1 = Len(p) + ((k - Len(p)) - 1)
        BY <1>3, <2>2
      <4>2. (k - Len(p)) - 1 \in 0 .. Len(q) /\ k - Len(p) \in 0 .. Len(q)
        BY <1>3, <2>2
      <4> QED BY <4>1, <4>2
    <3> QED BY <1>2, <1>4, <1>6, <3>1
  <2> QED BY <1>3, <2>1, <2>2
<1> QED BY <1>4, <1>7, <1>8 DEF Runs

LEMMA RunsTail ==
  ASSUME NEW S, NEW q \in Seq(S), q # <<>>, NEW name, NEW s, NEW t, Runs(name, q, s, t)
  PROVE  Tail(q) \in Seq(S) /\ Head(q) \in S /\ Runs(name, Tail(q), Did(name, s, Head(q)), t)
<1>1. PICK f : /\ f[0] = s /\ f[Len(q)] = t
               /\ \A k \in 1 .. Len(q) : f[k] = Did(name, f[k - 1], q[k])
  BY DEF Runs
<1>2. /\ Len(q) \in Nat \ {0} /\ Head(q) = q[1] /\ q[1] \in S /\ Tail(q) \in Seq(S)
      /\ Len(Tail(q)) = Len(q) - 1 /\ \A k \in 1 .. Len(q) - 1 : Tail(q)[k] = q[k + 1]
  OBVIOUS
<1> DEFINE g == [k \in 0 .. Len(q) - 1 |-> f[k + 1]]
<1>3. g[0] = f[1] /\ g[Len(q) - 1] = f[Len(q)] /\ \A k \in 0 .. Len(q) - 1 : g[k] = f[k + 1]
  BY <1>2
<1> HIDE DEF g
<1>4. f[1] = Did(name, s, Head(q))
  <2>1. 1 \in 1 .. Len(q) /\ 1 - 1 = 0
    BY <1>2
  <2>2. f[1] = Did(name, f[1 - 1], q[1])
    BY <1>1, <2>1
  <2> QED BY <1>1, <1>2, <2>1, <2>2
<1>5. ASSUME NEW k \in 1 .. Len(q) - 1 PROVE g[k] = Did(name, g[k - 1], Tail(q)[k])
  <2>1. /\ k + 1 \in 1 .. Len(q) /\ (k + 1) - 1 = k /\ k \in 0 .. Len(q) - 1
        /\ k - 1 \in 0 .. Len(q) - 1 /\ (k - 1) + 1 = k
    BY <1>2
  <2>2. f[k + 1] = Did(name, f[k], q[k + 1])
    BY <1>1, <2>1
  <2>3. g[k] = f[k + 1] /\ g[k - 1] = f[k] /\ Tail(q)[k] = q[k + 1]
    BY <1>2, <1>3, <2>1
  <2> QED BY <2>2, <2>3
<1>6. Runs(name, Tail(q), f[1], t)
  <2>1. g[0] = f[1] /\ g[Len(Tail(q))] = t /\ \A k \in 1 .. Len(Tail(q)) : g[k] = Did(name, g[k - 1], Tail(q)[k])
    BY <1>1, <1>2, <1>3, <1>5
  <2> QED BY <2>1 DEF Runs
<1> QED BY <1>2, <1>4, <1>6

-----------------------------------------------------------------------------
(* The commands of the FT2232 *)

Clear(d) == [d EXCEPT !.tdo = <<>>]
LEMMA ClearedAt ==
  ASSUME NEW b, NEW d, On(b, d)
  PROVE  /\ On(b, Clear(d)) /\ Clear(d).tdo = <<>>
         /\ \A tap, i, r, l : At(b, d, tap, i, r, l) <=> At(b, Clear(d), tap, i, r, l)
         /\ \A s, i, l, n, from, in, m :
              Mid(b, d, s, i, l, n, from, in, m) <=> Mid(b, Clear(d), s, i, l, n, from, in, m)
<1>1. On(b, Clear(d)) /\ Clear(d).tdo = <<>>
  BY Cleared DEF Clear
<1>2. DOMAIN d = Registers
  BY DEF On
<1>3. \A x : x = [d EXCEPT !.tdo = <<>>] => x.tap = d.tap /\ x.ir = d.ir /\ x.sr = d.sr /\ x.latch = d.latch
  BY <1>2 DEF Registers
<1>4. Clear(d).tap = d.tap /\ Clear(d).ir = d.ir /\ Clear(d).sr = d.sr /\ Clear(d).latch = d.latch
  BY <1>3 DEF Clear
<1>5. \A tap, i, r, l : At(b, d, tap, i, r, l) <=> At(b, Clear(d), tap, i, r, l)
  BY <1>1, <1>4 DEF At
<1> QED BY <1>1, <1>5 DEF Mid

\* What a command clocks in.
ToTms(c) == IF c.op = "tms" THEN TmsBits(c) ELSE [k \in 1 .. c.n * Len(c.data) |-> 0]
ToTdi(c) == IF c.op = "tms" THEN TmsTdi(c) ELSE DataBits(c)

Sends(c, n, tms, tdi) ==
  /\ n = c.n * Len(c.data) /\ tms = ToTms(c) /\ tdi = ToTdi(c)
  /\ tms \in [1 .. n -> Bit] /\ tdi \in [1 .. n -> Bit]

\* The bits of bytes, and others, as they are clocked in.
Zeros(n) == [k \in 1 .. n |-> 0]
LowBits(byte, n) == [k \in 1 .. n |-> byte[k - 1]]
TopBit(byte, n) == [k \in 1 .. n |-> byte[7]]
BitsOfAll(bytes) == [k \in 1 .. 8 * Len(bytes) |-> bytes[(k - 1) \div 8 + 1][(k - 1) % 8]]

\* From s to t along a path of n clocks; back are the bytes that come back.
Along(b, q, s, t, f, n, tms, tdi) ==
  /\ Runs("openjtag", q, s, t) /\ Path(b, f, tms, tdi)
  /\ f[0] = Clear(s.dev) /\ f[n] = t.dev /\ t.rd = s.rd
  /\ Outs(f, n) \in Seq(Bit) /\ Len(Outs(f, n)) = n
Back(c, outs) == [j \in 1 .. Len(c.data) |-> Arrived(SubSeq(outs, c.n * (j - 1) + 1, c.n * j))]

\* Any of them clocks the TAP along a path; a byte comes back for each of its own.
LEMMA CommandPath ==
  ASSUME NEW b \in Board, NEW s, On(b, s.dev), NEW c, NEW n \in Nat, NEW tms, NEW tdi,
         Sends(c, n, tms, tdi)
  PROVE  \E f, t : /\ Along(b, << c >>, s, t, f, n, tms, tdi)
                   /\ t.rx = IF c.read THEN s.rx \o Back(c, Outs(f, n)) ELSE s.rx
<1> DEFINE d == Clear(s.dev)
           t == Commanded(s, c)
<1>1. On(b, d) /\ d.tdo = <<>>
  BY ClearedAt
<1> HIDE DEF d
<1>2. PICK f : /\ Path(b, f, tms, tdi) /\ f[0] = d /\ f[n] = Clocks(d, tms, tdi)
               /\ f[n].tdo = Outs(f, n) /\ Outs(f, n) \in Seq(Bit) /\ Len(Outs(f, n)) = n
  <2>1. tms \in [1 .. n -> Bit] /\ tdi \in [1 .. n -> Bit]
    BY DEF Sends
  <2> QED BY <1>1, <2>1, ClocksPath
<1> DEFINE rx == IF c.read THEN s.rx \o Back(c, Outs(f, n)) ELSE s.rx
<1>3. t = [dev |-> f[n], rx |-> rx, byte |-> s.byte, rd |-> s.rd]
  <2>1. Clocks(d, tms, tdi).tdo = Outs(f, n)
    BY <1>2
  <2>2. t = [dev |-> Clocks(d, tms, tdi),
             rx |-> IF c.read THEN s.rx \o Back(c, Clocks(d, tms, tdi).tdo) ELSE s.rx,
             byte |-> s.byte, rd |-> s.rd]
    <3>1. tms = ToTms(c) /\ tdi = ToTdi(c)
      BY DEF Sends
    <3> QED BY <3>1, Zenon DEF Commanded, d, Clear, Back, ToTms, ToTdi
  <2> HIDE DEF t
  <2>3. t = [dev |-> Clocks(d, tms, tdi), rx |-> rx, byte |-> s.byte, rd |-> s.rd]
    BY <2>1, <2>2, Zenon
  <2> QED BY <1>2, <2>3, Zenon
<1> HIDE DEF rx
<1>4. t.dev = f[n] /\ t.rx = rx /\ t.rd = s.rd
  BY <1>3
<1>5. Runs("openjtag", << c >>, s, t)
  <2>1. Did("openjtag", s, c) = t
    BY DEF Did
  <2> QED BY <2>1, RunsOne
<1> HIDE DEF t
<1> QED BY <1>2, <1>4, <1>5, Zenon DEF d, rx, Along

\* One byte back.
LEMMA OneBack ==
  ASSUME NEW c, Len(c.data) = 1, NEW n \in Nat, c.n = n, NEW outs \in Seq(Bit), Len(outs) = n
  PROVE  Back(c, outs) = << Arrived(outs) >>
<1>1. SubSeq(outs, 1, n) = outs
  <2>1. SubSeq(outs, 1, n) = [k \in 1 .. n |-> outs[k]] /\ outs = [k \in 1 .. n |-> outs[k]]
    OBVIOUS
  <2> QED BY <2>1
<1>2. c.n * (1 - 1) + 1 = 1 /\ c.n * 1 = n
  OBVIOUS
<1>3. Back(c, outs) = [j \in 1 .. 1 |-> Back(c, outs)[j]]
  BY DEF Back
<1>4. Back(c, outs)[1] = Arrived(outs)
  <2>1. Back(c, outs)[1] = Arrived(SubSeq(outs, c.n * (1 - 1) + 1, c.n * 1))
    BY DEF Back
  <2> QED BY <1>1, <1>2, <2>1
<1> QED BY <1>3, <1>4

LEMMA TmsPath ==
  ASSUME NEW b \in Board, NEW s, On(b, s.dev), NEW byte \in Octet, NEW n \in 1 .. 7, NEW read \in BOOLEAN
  PROVE  \E f, t :
           /\ Along(b, << Tms(byte, n, read) >>, s, t, f, n,
                    LowBits(byte, n), TopBit(byte, n))
           /\ t.rx = IF read THEN s.rx \o << Arrived(Outs(f, n)) >> ELSE s.rx
<1> DEFINE c == Tms(byte, n, read)
           tms == LowBits(byte, n)
           tdi == TopBit(byte, n)
<1>1. c.op = "tms" /\ c.data = << byte >> /\ c.n = n /\ c.read = read /\ Len(c.data) = 1 /\ c.data[1] = byte
  BY DEF Tms
<1> HIDE DEF c
<1>2. ToTms(c) = tms /\ ToTdi(c) = tdi
  BY <1>1 DEF TmsBits, TmsTdi, ToTms, ToTdi, LowBits, TopBit
<1>3. tms \in [1 .. n -> Bit] /\ tdi \in [1 .. n -> Bit]
  BY DEF Octet, LowBits, TopBit
<1>4. n = c.n * Len(c.data) /\ n \in Nat
  BY <1>1
<1> HIDE DEF tms, tdi
<1>5. PICK f, t : /\ Along(b, << c >>, s, t, f, n, tms, tdi)
                  /\ t.rx = IF c.read THEN s.rx \o Back(c, Outs(f, n)) ELSE s.rx
  <2>1. Sends(c, n, tms, tdi)
    BY <1>2, <1>3, <1>4 DEF Sends
  <2> QED BY <2>1, CommandPath
<1>6. Back(c, Outs(f, n)) = << Arrived(Outs(f, n)) >>
  BY <1>1, <1>4, <1>5, OneBack DEF Along
<1>7. t.rx = IF read THEN s.rx \o << Arrived(Outs(f, n)) >> ELSE s.rx
  BY <1>1, <1>5, <1>6
<1> QED BY <1>5, <1>7, Zenon DEF c, tms, tdi

LEMMA BitsPath ==
  ASSUME NEW b \in Board, NEW s, On(b, s.dev), NEW byte \in Octet, NEW n \in 1 .. 7, NEW read \in BOOLEAN
  PROVE  \E f, t :
           /\ Along(b, << ClockBits(byte, n, read) >>, s, t, f, n,
                    Zeros(n), LowBits(byte, n))
           /\ t.rx = IF read THEN s.rx \o << Arrived(Outs(f, n)) >> ELSE s.rx
<1> DEFINE c == ClockBits(byte, n, read)
           tms == Zeros(n)
           tdi == LowBits(byte, n)
<1>1. c.op # "tms" /\ c.data = << byte >> /\ c.n = n /\ c.read = read /\ Len(c.data) = 1 /\ c.data[1] = byte
  BY DEF ClockBits
<1> HIDE DEF c
<1>2. ToTdi(c) = tdi
  <2>1. \A k \in 1 .. n : (k - 1) \div n + 1 = 1 /\ (k - 1) % n = k - 1
    OBVIOUS
  <2>2. c.n * Len(c.data) = n
    BY <1>1
  <2>3. DataBits(c) = [k \in 1 .. n |-> c.data[(k - 1) \div n + 1][(k - 1) % n]]
    BY <1>1, <2>2 DEF DataBits
  <2>4. \A k \in 1 .. n : c.data[(k - 1) \div n + 1][(k - 1) % n] = byte[k - 1]
    BY <1>1, <2>1
  <2> QED BY <1>1, <2>3, <2>4 DEF ToTdi, LowBits
<1>3. tms \in [1 .. n -> Bit] /\ tdi \in [1 .. n -> Bit]
  BY DEF Octet, Bit, LowBits, Zeros
<1>4. n = c.n * Len(c.data) /\ n \in Nat
  BY <1>1
<1>5. ToTms(c) = tms
  BY <1>1, <1>4 DEF ToTms, Zeros
<1> HIDE DEF tms, tdi
<1>6. PICK f, t : /\ Along(b, << c >>, s, t, f, n, tms, tdi)
                  /\ t.rx = IF c.read THEN s.rx \o Back(c, Outs(f, n)) ELSE s.rx
  <2>1. Sends(c, n, tms, tdi)
    BY <1>2, <1>3, <1>4, <1>5 DEF Sends
  <2> QED BY <2>1, CommandPath
<1>7. Back(c, Outs(f, n)) = << Arrived(Outs(f, n)) >>
  BY <1>1, <1>4, <1>6, OneBack DEF Along
<1>8. t.rx = IF read THEN s.rx \o << Arrived(Outs(f, n)) >> ELSE s.rx
  BY <1>1, <1>6, <1>7
<1> QED BY <1>6, <1>8, Zenon DEF c, tms, tdi

\* Eight bits of str behind the first m and j - 1 bytes.
Whole(str, m, j) == [k \in 0 .. 7 |-> str[m + 8 * (j - 1) + k + 1]]

Wholes(str, m, w) == [j \in 1 .. w |-> Whole(str, m, j)]

LEMMA EightOfThem ==
  ASSUME NEW o \in Seq(Bit), NEW lo \in Nat, lo + 8 <= Len(o)
  PROVE  LET x == SubSeq(o, lo + 1, lo + 8)
         IN Len(x) = 8 /\ \A k \in 0 .. 7 : x[k + 1] = o[lo + k + 1]
<1> DEFINE x == SubSeq(o, lo + 1, lo + 8)
<1>1. x = [k \in 1 .. 8 |-> o[lo + k]]
  <2>1. lo + 8 - (lo + 1) + 1 = 8 /\ \A k \in 1 .. 8 : lo + 1 + k - 1 = lo + k
    OBVIOUS
  <2> QED BY <2>1
<1> HIDE DEF x
<1>2. Len(x) = 8 /\ \A k \in 1 .. 8 : x[k] = o[lo + k]
  BY <1>1
<1>3. \A k \in 0 .. 7 : k + 1 \in 1 .. 8 /\ lo + (k + 1) = lo + k + 1
  OBVIOUS
<1> QED BY <1>2, <1>3 DEF x

LEMMA BytesPath ==
  ASSUME NEW b \in Board, NEW s, On(b, s.dev), NEW bytes \in Seq(Octet), NEW read \in BOOLEAN
  PROVE  LET n == 8 * Len(bytes)
         IN \E f, t :
              /\ Along(b, << ClockBytes(bytes, read) >>, s, t, f, n,
                       Zeros(n), BitsOfAll(bytes))
              /\ t.rx = IF read THEN s.rx \o [j \in 1 .. Len(bytes) |->
                                                Arrived(SubSeq(Outs(f, n), 8 * (j - 1) + 1, 8 * j))]
                        ELSE s.rx
<1> DEFINE c == ClockBytes(bytes, read)
           n == 8 * Len(bytes)
           tms == Zeros(n)
           tdi == BitsOfAll(bytes)
<1>1. c.op # "tms" /\ c.data = bytes /\ c.n = 8 /\ c.read = read
  BY DEF ClockBytes
<1> HIDE DEF c
<1>2. n \in Nat /\ n = c.n * Len(c.data)
  BY <1>1
<1>3. ToTms(c) = tms /\ ToTdi(c) = tdi
  BY <1>1 DEF ToTms, ToTdi, DataBits, Zeros, BitsOfAll
<1>4. tms \in [1 .. n -> Bit]
  BY DEF Bit, Zeros
<1>5. tdi \in [1 .. n -> Bit]
  <2>1. \A k \in 1 .. n : (k - 1) \div 8 + 1 \in 1 .. Len(bytes) /\ (k - 1) % 8 \in 0 .. 7
    OBVIOUS
  <2>2. \A j \in 1 .. Len(bytes) : \A k \in 0 .. 7 : bytes[j][k] \in Bit
    BY DEF Octet
  <2> QED BY <2>1, <2>2 DEF BitsOfAll
<1> HIDE DEF n, tms, tdi
<1>6. Sends(c, n, tms, tdi)
  BY <1>2, <1>3, <1>4, <1>5 DEF Sends
<1>7. PICK f, t : /\ Along(b, << c >>, s, t, f, n, tms, tdi)
                  /\ t.rx = IF c.read THEN s.rx \o Back(c, Outs(f, n)) ELSE s.rx
  BY <1>2, <1>6, CommandPath
<1>8. Back(c, Outs(f, n)) = [j \in 1 .. Len(bytes) |-> Arrived(SubSeq(Outs(f, n), 8 * (j - 1) + 1, 8 * j))]
  BY <1>1 DEF Back
<1>9. t.rx = IF read THEN s.rx \o [j \in 1 .. Len(bytes) |->
                                     Arrived(SubSeq(Outs(f, n), 8 * (j - 1) + 1, 8 * j))]
             ELSE s.rx
  BY <1>1, <1>7, <1>8
<1> QED BY <1>7, <1>9, Zenon DEF c, n, tms, tdi

\* Bytes in the middle of a shift, and bits.
ByteFeed(bytes, in, m, e, n) ==
  /\ bytes \in Seq(Octet) /\ e = m + 8 * Len(bytes) /\ e <= n
  /\ \A j \in 1 .. Len(bytes) : bytes[j] = Whole(in, m, j)
BitFeed(byte, w, in, m, e, n) ==
  /\ byte \in Octet /\ w \in 1 .. 7 /\ e = m + w /\ e <= n
  /\ \A k \in 1 .. w : byte[k - 1] = in[m + k]
Taken(str, m, w) == << Arrived([k \in 1 .. w |-> str[m + k]]) >>
Came(s, t, read, back) == t.rx = IF read THEN s.rx \o back ELSE s.rx
One(c) == << c >>
Kept(s, t) == t.rd = s.rd
Fresh(s) == s.rx \in Seq(Octet)
Amid(b, s, st, i, l, n, from, in, m) == Mid(b, s.dev, st, i, l, n, from, in, m)
AllOf(from, m, bytes) == Wholes(from, m, Len(bytes))

LEMMA BytesShift ==
  ASSUME NEW b \in Board, NEW s, NEW st, NEW i, NEW l, NEW n, NEW from, NEW in, NEW m \in Nat,
         Amid(b, s, st, i, l, n, from, in, m), NEW bytes, NEW read \in BOOLEAN, NEW e, ByteFeed(bytes, in, m, e, n)
  PROVE  \E t : /\ Runs("openjtag", One(ClockBytes(bytes, read)), s, t) /\ Kept(s, t)
                /\ Amid(b, t, st, i, l, n, from, in, e)
                /\ Came(s, t, read, AllOf(from, m, bytes))
<1> DEFINE w == 8 * Len(bytes)
           tms == Zeros(w)
           tdi == BitsOfAll(bytes)
<1>b. /\ bytes \in Seq(Octet) /\ m + 8 * Len(bytes) <= n /\ e = m + 8 * Len(bytes)
      /\ \A j \in 1 .. Len(bytes) : bytes[j] = Whole(in, m, j)
  BY DEF ByteFeed
<1>0. m \in Nat /\ n \in Nat /\ w \in Nat /\ On(b, s.dev)
  BY <1>b DEF Mid, At, Amid
<1>1. PICK f, t :
        /\ Along(b, << ClockBytes(bytes, read) >>, s, t, f, w, tms, tdi)
        /\ t.rx = IF read THEN s.rx \o [j \in 1 .. Len(bytes) |->
                                          Arrived(SubSeq(Outs(f, w), 8 * (j - 1) + 1, 8 * j))]
                  ELSE s.rx
  BY <1>0, <1>b, BytesPath
<1>2. Mid(b, f[0], st, i, l, n, from, in, m)
  <2>1. f[0] = Clear(s.dev)
    BY <1>1 DEF Along
  <2> QED BY <1>0, <2>1, ClearedAt DEF Amid
<1>3. Len(tms) = w /\ \A k \in 1 .. w : tms[k] = 0
  BY <1>0 DEF Zeros
<1>4. \A k \in 1 .. w : tdi[k] = in[m + k]
  <2> SUFFICES ASSUME NEW k \in 1 .. w PROVE tdi[k] = in[m + k]
    OBVIOUS
  <2>1. PICK j \in 1 .. Len(bytes), p \in 0 .. 7 : j = (k - 1) \div 8 + 1 /\ p = (k - 1) % 8
    <3>1. \A L \in Nat : \A x \in 1 .. 8 * L : (x - 1) \div 8 + 1 \in 1 .. L /\ (x - 1) % 8 \in 0 .. 7
      OBVIOUS
    <3>2. Len(bytes) \in Nat /\ k \in 1 .. 8 * Len(bytes)
      BY <1>b
    <3> QED BY <3>1, <3>2
  <2>2. tdi[k] = bytes[j][p]
    BY <2>1, <1>b DEF BitsOfAll
  <2>3. bytes[j][p] = in[m + 8 * (j - 1) + p + 1]
    <3>1. bytes[j] = Whole(in, m, j)
      BY <1>b
    <3> QED BY <3>1 DEF Whole
  <2>4. m + 8 * (j - 1) + p + 1 = m + k
    BY <1>0, <2>1
  <2> QED BY <2>2, <2>3, <2>4
<1> HIDE DEF tms, tdi, w
<1>5. /\ Mid(b, f[w], st, i, l, n, from, in, m + w)
      /\ Passes(f, w, from, m)
  <2>1. m + w <= n
    BY <1>b DEF w
  <2>2. Path(b, f, tms, tdi)
    BY <1>1 DEF Along
  <2>3. Feeds(tms, tdi, w, n, in, m)
    BY <1>0, <1>3, <1>4, <2>1 DEF Feeds
  <2> QED BY <1>0, <1>2, <2>2, <2>3, ShiftMany
<1>6. ASSUME NEW j \in 1 .. Len(bytes)
      PROVE  Arrived(SubSeq(Outs(f, w), 8 * (j - 1) + 1, 8 * j)) = Whole(from, m, j)
  <2> DEFINE o == Outs(f, w)
             x == SubSeq(o, 8 * (j - 1) + 1, 8 * j)
  <2>1. o \in Seq(Bit) /\ Len(o) = w
    BY <1>1 DEF Along
  <2>2. \A k \in 1 .. w : o[k] = from[m + k]
    BY <1>5 DEF Outs, Passes
  <2> HIDE DEF o
  <2>3. Len(x) = 8 /\ \A k \in 0 .. 7 : x[k + 1] = o[8 * (j - 1) + k + 1]
    <3> DEFINE lo == 8 * (j - 1)
    <3>1. lo \in Nat /\ lo + 8 <= w /\ lo + 8 = 8 * j
      BY <1>b DEF w
    <3> HIDE DEF lo
    <3>2. Len(SubSeq(o, lo + 1, lo + 8)) = 8 /\ \A k \in 0 .. 7 : SubSeq(o, lo + 1, lo + 8)[k + 1] = o[lo + k + 1]
      BY <2>1, <3>1, EightOfThem
    <3>3. x = SubSeq(o, lo + 1, lo + 8)
      BY <3>1 DEF lo
    <3> QED BY <3>2, <3>3 DEF lo
  <2>4. \A k \in 0 .. 7 : 8 * (j - 1) + k + 1 \in 1 .. w /\ m + (8 * (j - 1) + k + 1) = m + 8 * (j - 1) + k + 1
    BY <1>0, <1>b DEF w
  <2>5. \A k \in 0 .. 7 : x[k + 1] = from[m + 8 * (j - 1) + k + 1]
    <3> HIDE DEF x
    <3> SUFFICES ASSUME NEW k \in 0 .. 7 PROVE x[k + 1] = from[m + 8 * (j - 1) + k + 1]
      OBVIOUS
    <3>1. x[k + 1] = o[8 * (j - 1) + k + 1]
      BY <2>3
    <3>2. 8 * (j - 1) + k + 1 \in 1 .. w
      BY <2>4
    <3> DEFINE y == 8 * (j - 1) + k + 1
    <3>3. o[y] = from[m + y]
      BY <2>2, <3>2
    <3>4. m + y = m + 8 * (j - 1) + k + 1
      BY <2>4
    <3> QED BY <3>1, <3>3, <3>4
  <2> HIDE DEF x
  <2>6. Arrived(x) = [k \in 0 .. 7 |-> x[k + 1]]
    BY <2>3 DEF Arrived
  <2>7. Arrived(x) = Whole(from, m, j)
    BY <2>5, <2>6 DEF Whole
  <2> QED BY <2>7 DEF x, o
<1>7. t.rx = IF read THEN s.rx \o Wholes(from, m, Len(bytes)) ELSE s.rx
  <2>1. [j \in 1 .. Len(bytes) |-> Arrived(SubSeq(Outs(f, w), 8 * (j - 1) + 1, 8 * j))]
          = Wholes(from, m, Len(bytes))
    BY <1>6 DEF Wholes
  <2> QED BY <1>1, <2>1
<1>8. Mid(b, t.dev, st, i, l, n, from, in, m + w) /\ t.rd = s.rd
      /\ Runs("openjtag", << ClockBytes(bytes, read) >>, s, t)
  BY <1>1, <1>5 DEF Along
<1> QED BY <1>b, <1>7, <1>8 DEF w, Came, One, Kept, Amid, AllOf

\* Bits in the middle of a shift.
LEMMA BitsShift ==
  ASSUME NEW b \in Board, NEW s, NEW st, NEW i, NEW l, NEW n, NEW from, NEW in, NEW m \in Nat,
         Amid(b, s, st, i, l, n, from, in, m), NEW byte, NEW w, NEW read \in BOOLEAN,
         NEW e, BitFeed(byte, w, in, m, e, n)
  PROVE  \E t : /\ Runs("openjtag", One(ClockBits(byte, w, read)), s, t) /\ Kept(s, t)
                /\ Amid(b, t, st, i, l, n, from, in, e)
                /\ Came(s, t, read, Taken(from, m, w))
<1> DEFINE tms == Zeros(w)
           tdi == LowBits(byte, w)
<1>b. /\ byte \in Octet /\ w \in 1 .. 7 /\ m + w <= n /\ e = m + w
      /\ \A k \in 1 .. w : byte[k - 1] = in[m + k]
  BY DEF BitFeed
<1>0. m \in Nat /\ n \in Nat /\ w \in Nat /\ On(b, s.dev)
  BY <1>b DEF Mid, At, Amid
<1>1. PICK f, t :
        /\ Along(b, << ClockBits(byte, w, read) >>, s, t, f, w, tms, tdi)
        /\ t.rx = IF read THEN s.rx \o << Arrived(Outs(f, w)) >> ELSE s.rx
  BY <1>0, <1>b, BitsPath
<1>2. Mid(b, f[0], st, i, l, n, from, in, m)
  <2>1. f[0] = Clear(s.dev)
    BY <1>1 DEF Along
  <2> QED BY <1>0, <2>1, ClearedAt DEF Amid
<1>3. Len(tms) = w /\ \A k \in 1 .. w : tms[k] = 0 /\ tdi[k] = in[m + k]
  BY <1>0, <1>b DEF Zeros, LowBits
<1> HIDE DEF tms, tdi
<1>5. /\ Mid(b, f[w], st, i, l, n, from, in, m + w)
      /\ Passes(f, w, from, m)
  <2>2. Path(b, f, tms, tdi)
    BY <1>1 DEF Along
  <2>3. Feeds(tms, tdi, w, n, in, m)
    BY <1>0, <1>b, <1>3 DEF Feeds
  <2> QED BY <1>0, <1>2, <2>2, <2>3, ShiftMany
<1>6. Outs(f, w) = [k \in 1 .. w |-> from[m + k]]
  BY <1>5 DEF Outs, Passes
<1> QED BY <1>b, <1>1, <1>5, <1>6 DEF Along, Taken, Came, One, Kept, Amid

-----------------------------------------------------------------------------
(* Commands one after the other *)

\* From s to t by the commands q of the FT2232; back is what comes back.
Goes(q, s, t, back) ==
  /\ q \in Seq(Command) /\ back \in Seq(Octet)
  /\ Runs("openjtag", q, s, t) /\ t.rd = s.rd /\ t.rx = s.rx \o back
Asked(read, back) == IF read THEN back ELSE <<>>

LEMMA NoneAsked ==
  ASSUME NEW r \in Seq(Octet)
  PROVE  /\ \A back : r \o Asked(FALSE, back) = r /\ Asked(FALSE, back) \in Seq(Octet)
         /\ \A back \in Seq(Octet) : r \o back \in Seq(Octet) /\ <<>> \o back = back /\ back \o <<>> = back
<1>1. r \o <<>> = r /\ <<>> \in Seq(Octet)
  OBVIOUS
<1>2. \A back \in Seq(Octet) : r \o back \in Seq(Octet) /\ <<>> \o back = back /\ back \o <<>> = back
  OBVIOUS
<1> QED BY <1>1, <1>2 DEF Asked

LEMMA Associate ==
  ASSUME NEW S, NEW x \in Seq(S), NEW y \in Seq(S), NEW z \in Seq(S)
  PROVE  (x \o y) \o z = x \o (y \o z)
<1> DEFINE p == (x \o y) \o z
           q == x \o (y \o z)
<1>1. x \o y \in Seq(S) /\ y \o z \in Seq(S) /\ Len(x \o y) = Len(x) + Len(y) /\ Len(y \o z) = Len(y) + Len(z)
  OBVIOUS
<1>2. /\ p \in Seq(S) /\ q \in Seq(S) /\ Len(p) = Len(x) + Len(y) + Len(z) /\ Len(q) = Len(p)
  BY <1>1, Joined
<1>3. ASSUME NEW k \in 1 .. Len(p) PROVE p[k] = q[k]
  <2>1. CASE k <= Len(x)
    BY <1>1, <1>2, <2>1
  <2>2. CASE k > Len(x) /\ k <= Len(x) + Len(y)
    BY <1>1, <1>2, <2>2
  <2>3. CASE k > Len(x) + Len(y)
    BY <1>1, <1>2, <2>3
  <2> QED BY <1>2, <2>1, <2>2, <2>3
<1> HIDE DEF p, q
<1>4. p = [k \in 1 .. Len(p) |-> p[k]] /\ q = [k \in 1 .. Len(q) |-> q[k]]
  BY <1>2
<1>5. p = q
  BY <1>2, <1>3, <1>4
<1> QED BY <1>5 DEF p, q

LEMMA BytesAssociate ==
  ASSUME NEW x \in Seq(Octet), NEW y \in Seq(Octet), NEW z \in Seq(Octet)
  PROVE  (x \o y) \o z = x \o (y \o z)
BY Associate

LEMMA GoesBoth ==
  ASSUME NEW p, NEW q, NEW s, NEW t, NEW u, NEW x, NEW y, Fresh(s),
         Goes(p, s, t, x), Goes(q, t, u, y)
  PROVE  Goes(p \o q, s, u, x \o y) /\ Fresh(u) /\ Fresh(t)
<1>1. /\ p \in Seq(Command) /\ x \in Seq(Octet)
      /\ Runs("openjtag", p, s, t) /\ t.rd = s.rd /\ t.rx = s.rx \o x
  BY DEF Goes
<1>2. /\ q \in Seq(Command) /\ y \in Seq(Octet)
      /\ Runs("openjtag", q, t, u) /\ u.rd = t.rd /\ u.rx = t.rx \o y
  BY DEF Goes
<1>3. p \o q \in Seq(Command) /\ Runs("openjtag", p \o q, s, u)
  BY <1>1, <1>2, RunsBoth
<1>4. x \o y \in Seq(Octet) /\ t.rx \in Seq(Octet) /\ u.rx \in Seq(Octet)
  BY <1>1, <1>2, Joined DEF Fresh
<1>5. u.rx = s.rx \o (x \o y)
  <2> DEFINE r == s.rx
  <2>1. r \in Seq(Octet)
    BY DEF Fresh
  <2> HIDE DEF r
  <2>2. (r \o x) \o y = r \o (x \o y)
    BY <1>1, <1>2, <2>1, BytesAssociate
  <2>3. u.rx = (r \o x) \o y
    BY <1>1, <1>2, Zenon DEF r
  <2> QED BY <2>2, <2>3, Zenon DEF r
<1> QED BY <1>1, <1>2, <1>3, <1>4, <1>5 DEF Goes, Fresh

LEMMA ArrivedTyped ==
  ASSUME NEW q \in Seq(Bit), Len(q) \in 1 .. 8
  PROVE  Arrived(q) \in Octet
<1>1. ASSUME NEW k \in 0 .. 7, k >= 8 - Len(q) PROVE q[k - (8 - Len(q)) + 1] \in Bit
  <2>1. k - (8 - Len(q)) + 1 \in 1 .. Len(q)
    BY <1>1
  <2> QED BY <2>1
<1>2. 0 \in Bit
  BY DEF Bit
<1> QED BY <1>1, <1>2 DEF Arrived, Octet

LEMMA WholesTyped ==
  ASSUME NEW n \in Nat, NEW str \in [1 .. n -> Bit], NEW m \in Nat, NEW w \in Nat, m + 8 * w <= n
  PROVE  Wholes(str, m, w) \in Seq(Octet) /\ Len(Wholes(str, m, w)) = w
<1>1. ASSUME NEW j \in 1 .. w PROVE Whole(str, m, j) \in Octet
  <2>1. \A k \in 0 .. 7 : m + 8 * (j - 1) + k + 1 \in 1 .. n
    OBVIOUS
  <2> QED BY <2>1 DEF Whole, Octet
<1> QED BY <1>1 DEF Wholes

LEMMA BytesJoined ==
  ASSUME NEW x \in Seq(Octet), NEW y \in Seq(Octet)
  PROVE  /\ x \o y \in Seq(Octet) /\ Len(x \o y) = Len(x) + Len(y)
         /\ \A k \in 1 .. Len(x) : (x \o y)[k] = x[k]
         /\ \A k \in 1 .. Len(y) : (x \o y)[Len(x) + k] = y[k]
OBVIOUS

\* z is x, and y behind it.
Chain(x, y, z) ==
  /\ x \in Seq(Octet) /\ y \in Seq(Octet) /\ z \in Seq(Octet) /\ Len(z) = Len(x) + Len(y)
  /\ \A j \in 1 .. Len(x) : z[j] = x[j]
  /\ \A j \in 1 .. Len(y) : z[Len(x) + j] = y[j]
LEMMA BytesEqual ==
  ASSUME NEW x, NEW y, NEW z, Chain(x, y, z)
  PROVE  x \o y = z
<1> DEFINE o == x \o y
<1>0. x \in Seq(Octet) /\ y \in Seq(Octet)
  BY DEF Chain
<1>1. Chain(x, y, o)
  BY <1>0, BytesJoined DEF Chain
<1> HIDE DEF o
<1> DEFINE v == Len(x)
           w == Len(y)
<1>2. v \in Nat /\ w \in Nat
  BY <1>0
<1>3. /\ o \in Seq(Octet) /\ Len(o) = v + w /\ z \in Seq(Octet) /\ Len(z) = v + w
      /\ \A k \in 1 .. v : o[k] = z[k]
      /\ \A k \in 1 .. w : o[v + k] = z[v + k]
  BY <1>1 DEF Chain
<1> HIDE DEF v, w
<1>4. ASSUME NEW k \in 1 .. v + w PROVE o[k] = z[k]
  <2>1. CASE k <= v
    BY <1>2, <1>3, <2>1
  <2>2. CASE k > v
    <3> DEFINE p == k - v
    <3>1. p \in 1 .. w /\ v + p = k
      BY <1>2, <2>2
    <3>2. o[v + p] = z[v + p]
      BY <1>3, <3>1
    <3> QED BY <3>1, <3>2
  <2> QED BY <1>2, <2>1, <2>2
<1>5. o = [k \in 1 .. v + w |-> o[k]] /\ z = [k \in 1 .. v + w |-> z[k]]
  BY <1>3
<1>6. o = z
  BY <1>4, <1>5
<1> QED BY <1>6 DEF o

\* v whole bytes from m on, up to e, and w more of n bits, u in all.
InARun(m, v, w, e, u, n) == e = m + 8 * v /\ u = v + w /\ m + 8 * u <= n
LEMMA WholesJoin ==
  ASSUME NEW n \in Nat, NEW str \in [1 .. n -> Bit], NEW m \in Nat, NEW v \in Nat, NEW w \in Nat,
         NEW e, NEW u, InARun(m, v, w, e, u, n)
  PROVE  Wholes(str, m, v) \o Wholes(str, e, w) = Wholes(str, m, u)
<1>0. e = m + 8 * v /\ u = v + w /\ m + 8 * (v + w) <= n
  BY DEF InARun
<1> DEFINE x == Wholes(str, m, v)
           y == Wholes(str, m + 8 * v, w)
           z == Wholes(str, m, v + w)
<1>1. /\ x \in Seq(Octet) /\ Len(x) = v /\ z \in Seq(Octet) /\ Len(z) = v + w
  <2>1. m + 8 * v <= n /\ v + w \in Nat /\ m + 8 * (v + w) <= n
    BY <1>0
  <2> QED BY <2>1, WholesTyped
<1>2. y \in Seq(Octet) /\ Len(y) = w
  <2>1. m + 8 * v \in Nat /\ (m + 8 * v) + 8 * w <= n
    BY <1>0
  <2> QED BY <2>1, WholesTyped
<1>3. \A j \in 1 .. v : x[j] = z[j]
  BY DEF Wholes
<1>4. ASSUME NEW j \in 1 .. w PROVE y[j] = z[v + j]
  <2>1. v + j \in 1 .. v + w
    OBVIOUS
  <2>2. \A k \in 0 .. 7 : m + 8 * v + 8 * (j - 1) + k + 1 = m + 8 * ((v + j) - 1) + k + 1
    OBVIOUS
  <2>3. Whole(str, m + 8 * v, j) = Whole(str, m, v + j)
    BY <2>2 DEF Whole
  <2> QED BY <2>1, <2>3 DEF Wholes
<1> HIDE DEF x, y, z
<1>5. x \o y = z
  <2>1. Chain(x, y, z)
    BY <1>1, <1>2, <1>3, <1>4 DEF Chain
  <2> QED BY <2>1, BytesEqual
<1> QED BY <1>0, <1>5 DEF x, y, z

\* The commands, once more.
LEMMA BytesGo ==
  ASSUME NEW b \in Board, NEW s, NEW st, NEW i, NEW l, NEW n, NEW from, NEW in, NEW m \in Nat,
         Amid(b, s, st, i, l, n, from, in, m), NEW bytes, NEW read \in BOOLEAN,
         NEW e, ByteFeed(bytes, in, m, e, n), Fresh(s)
  PROVE  \E t : /\ Goes(One(ClockBytes(bytes, read)), s, t, Asked(read, Wholes(from, m, Len(bytes))))
                /\ Amid(b, t, st, i, l, n, from, in, e)
<1>1. PICK t : /\ Runs("openjtag", One(ClockBytes(bytes, read)), s, t) /\ Kept(s, t)
               /\ Amid(b, t, st, i, l, n, from, in, e)
               /\ Came(s, t, read, AllOf(from, m, bytes))
  BY BytesShift
<1> DEFINE x == Wholes(from, m, Len(bytes))
<1>2. x \in Seq(Octet)
  <2>1. n \in Nat /\ from \in [1 .. n -> Bit] /\ Len(bytes) \in Nat /\ m + 8 * Len(bytes) <= n
    BY DEF Mid, Amid, ByteFeed
  <2> QED BY <2>1, WholesTyped
<1> HIDE DEF x
<1>4. One(ClockBytes(bytes, read)) \in Seq(Command)
  <2>1. ClockBytes(bytes, read) \in Command
    BY DEF ClockBytes, Command, ByteFeed
  <2> QED BY <2>1 DEF One
<1>5. Goes(One(ClockBytes(bytes, read)), s, t, Asked(read, x))
  BY <1>1, <1>2, <1>4, NoneAsked DEF Goes, Kept, Asked, Came, Fresh, x, AllOf
<1> QED BY <1>1, <1>5 DEF x

LEMMA BitsGo ==
  ASSUME NEW b \in Board, NEW s, NEW st, NEW i, NEW l, NEW n, NEW from, NEW in, NEW m \in Nat,
         Amid(b, s, st, i, l, n, from, in, m), NEW byte, NEW w, NEW read \in BOOLEAN,
         NEW e, BitFeed(byte, w, in, m, e, n), Fresh(s)
  PROVE  \E t : /\ Goes(One(ClockBits(byte, w, read)), s, t, Asked(read, Taken(from, m, w)))
                /\ Amid(b, t, st, i, l, n, from, in, e)
<1> DEFINE x == Taken(from, m, w)
<1>0. byte \in Octet /\ w \in 1 .. 7 /\ m + w <= n
  BY DEF BitFeed
<1>1. PICK t : /\ Runs("openjtag", One(ClockBits(byte, w, read)), s, t) /\ Kept(s, t)
               /\ Amid(b, t, st, i, l, n, from, in, e)
               /\ Came(s, t, read, x)
  BY BitsShift
<1>2. x \in Seq(Octet)
  <2>1. m \in Nat /\ n \in Nat /\ from \in [1 .. n -> Bit]
    BY DEF Mid, Amid
  <2> DEFINE q == [k \in 1 .. w |-> from[m + k]]
  <2>2. q \in Seq(Bit) /\ Len(q) = w /\ w \in 1 .. 8
    BY <1>0, <2>1
  <2> HIDE DEF q
  <2>3. Arrived(q) \in Octet
    BY <2>2, ArrivedTyped
  <2> QED BY <2>3 DEF q, Taken
<1> HIDE DEF x
<1>4. One(ClockBits(byte, w, read)) \in Seq(Command)
  <2>1. ClockBits(byte, w, read) \in Command
    BY <1>0, ClockBitsTyped
  <2> QED BY <2>1 DEF One
<1>5. Goes(One(ClockBits(byte, w, read)), s, t, Asked(read, x))
  BY <1>1, <1>2, <1>4, NoneAsked DEF Goes, Kept, Asked, Came, Fresh
<1> QED BY <1>1, <1>5 DEF x

LEMMA GoesNothing ==
  ASSUME NEW s, Fresh(s)
  PROVE  Goes(<<>>, s, s, <<>>)
<1>1. <<>> \in Seq(Command) /\ <<>> \in Seq(Octet)
  OBVIOUS
<1>2. Runs("openjtag", <<>>, s, s)
  BY RunsNothing
<1> DEFINE r == s.rx
<1>3. r \in Seq(Octet)
  BY DEF Fresh
<1> HIDE DEF r
<1>4. r = r \o <<>>
  BY <1>3
<1>5. s.rx = s.rx \o <<>>
  BY <1>4, Zenon DEF r
<1> QED BY <1>1, <1>2, <1>5 DEF Goes

LEMMA AskedBoth ==
  ASSUME NEW read \in BOOLEAN, NEW x \in Seq(Octet), NEW y \in Seq(Octet)
  PROVE  Asked(read, x) \o Asked(read, y) = Asked(read, x \o y)
<1>1. <<>> \o <<>> = <<>>
  OBVIOUS
<1> QED BY <1>1 DEF Asked

\* Commands that take a shift on from m bits to e: the w bytes between them come
\* back when asked for.
Onward(read, q, b, st, i, l, n, from, in, m, w, e) ==
  \A u : Amid(b, u, st, i, l, n, from, in, m) /\ Fresh(u) =>
    \E t : Goes(q, u, t, Asked(read, Wholes(from, m, w))) /\ Amid(b, t, st, i, l, n, from, in, e)

LEMMA NoWholes == \A str, m : Wholes(str, m, 0) = <<>>
BY DEF Wholes

LEMMA ShiftNothing ==
  ASSUME NEW read \in BOOLEAN, NEW b, NEW st, NEW i, NEW l, NEW n, NEW from, NEW in, NEW m
  PROVE  Onward(read, <<>>, b, st, i, l, n, from, in, m, 0, m)
<1>1. Asked(read, Wholes(from, m, 0)) = <<>>
  BY NoWholes DEF Asked
<1> QED BY <1>1, GoesNothing DEF Onward

LEMMA ShiftBoth ==
  ASSUME NEW read \in BOOLEAN, NEW b, NEW st, NEW i, NEW l, NEW n \in Nat, NEW from \in [1 .. n -> Bit],
         NEW in, NEW m \in Nat, NEW v \in Nat, NEW w \in Nat, NEW e, NEW d, NEW p, NEW q,
         e = m + 8 * v, m + 8 * (v + w) <= n,
         Onward(read, p, b, st, i, l, n, from, in, m, v, e),
         Onward(read, q, b, st, i, l, n, from, in, e, w, d)
  PROVE  Onward(read, p \o q, b, st, i, l, n, from, in, m, v + w, d)
<1> DEFINE x == Wholes(from, m, v)
           y == Wholes(from, e, w)
           z == Wholes(from, m, v + w)
<1>1. x \in Seq(Octet) /\ y \in Seq(Octet) /\ x \o y = z
  <2>1. x \in Seq(Octet)
    <3>1. m + 8 * v <= n
      OBVIOUS
    <3> QED BY <3>1, WholesTyped
  <2>2. y \in Seq(Octet)
    <3>1. e \in Nat /\ e + 8 * w <= n
      OBVIOUS
    <3> QED BY <3>1, WholesTyped
  <2>3. Wholes(from, m, v) \o Wholes(from, e, w) = z
    <3> DEFINE u == v + w
    <3>1. InARun(m, v, w, e, u, n)
      BY DEF InARun
    <3> HIDE DEF u
    <3>2. Wholes(from, m, v) \o Wholes(from, e, w) = Wholes(from, m, u)
      BY <3>1, WholesJoin
    <3> QED BY <3>2 DEF u
  <2> QED BY <2>1, <2>2, <2>3
<1> HIDE DEF x, y, z
<1>2. Asked(read, x) \o Asked(read, y) = Asked(read, z)
  BY <1>1, AskedBoth
<1> SUFFICES ASSUME NEW s, Amid(b, s, st, i, l, n, from, in, m), Fresh(s)
             PROVE  \E t : Goes(p \o q, s, t, Asked(read, z)) /\ Amid(b, t, st, i, l, n, from, in, d)
  BY DEF Onward, z
<1>3. PICK u : Goes(p, s, u, Asked(read, x)) /\ Amid(b, u, st, i, l, n, from, in, e)
  BY DEF Onward, x
<1>4. Fresh(u)
  <2> DEFINE a == Asked(read, x)
             r == s.rx
  <2>1. a \in Seq(Octet) /\ u.rx = r \o a /\ r \in Seq(Octet)
    BY <1>3 DEF Goes, Fresh
  <2> HIDE DEF a, r
  <2>2. r \o a \in Seq(Octet)
    BY <2>1
  <2> QED BY <2>1, <2>2, Zenon DEF Fresh
<1>5. PICK t : Goes(q, u, t, Asked(read, y)) /\ Amid(b, t, st, i, l, n, from, in, d)
  BY <1>3, <1>4 DEF Onward, y
<1>6. Goes(p \o q, s, t, Asked(read, x) \o Asked(read, y))
  BY <1>3, <1>5, GoesBoth
<1> QED BY <1>2, <1>5, <1>6

\* A run of bytes.
Fills(bytes, in, n) ==
  /\ bytes \in Seq(Octet) /\ Len(bytes) >= 1 /\ 8 * (Len(bytes) - 1) <= n
  /\ \A j \in 1 .. Len(bytes) - 1 : bytes[j] = Whole(in, 0, j)

Starts(bytes, num, m, e) ==
  /\ num \in Nat /\ num > 1 /\ num <= Len(bytes)
  /\ m = 8 * (Len(bytes) - num) /\ e = m + 8 * Run(num)
LEMMA PieceFeeds ==
  ASSUME NEW bytes, NEW in, NEW n \in Nat, Fills(bytes, in, n), NEW read, NEW num, NEW m, NEW e,
         Starts(bytes, num, m, e)
  PROVE  \E data : /\ Piece(bytes, read, num) = ClockBytes(data, read)
                   /\ Len(data) = Run(num) /\ ByteFeed(data, in, m, e, n)
<1> DEFINE L == Len(bytes)
           h == L - num
           r == Run(num)
           data == SubSeq(bytes, h + 1, h + r)
<1>0. bytes \in Seq(Octet) /\ L \in Nat /\ L >= 1 /\ 8 * (L - 1) <= n
      /\ \A j \in 1 .. L - 1 : bytes[j] = Whole(in, 0, j)
  BY DEF Fills
<1>n. num \in Nat /\ num > 1 /\ num <= L
  BY DEF Starts
<1>1. r \in Nat /\ r >= 1 /\ r <= num - 1
  BY <1>n, RunLeavesLast
<1>2. h \in Nat /\ h + r <= L - 1 /\ h + 1 \in 1 .. L + 1 /\ h + r \in h .. L
  BY <1>0, <1>1, <1>n
<1>c. Piece(bytes, read, num) = ClockBytes(data, read)
  BY DEF Piece
<1>d. m = 8 * h /\ e = m + 8 * r
  BY DEF Starts
<1> HIDE DEF L, h, r
<1>3. data \in Seq(Octet) /\ Len(data) = r /\ \A j \in 1 .. r : data[j] = bytes[h + j]
  <2>1. data \in Seq(Octet) /\ Len(data) = r
    <3> DEFINE x == h + 1
               y == h + r
    <3>1. x \in Int /\ y \in Int /\ x <= y /\ y - x + 1 = r /\ \A k \in x .. y : bytes[k] \in Octet
      BY <1>0, <1>1, <1>2 DEF L
    <3> HIDE DEF x, y
    <3>2. SubSeq(bytes, x, y) \in Seq(Octet) /\ Len(SubSeq(bytes, x, y)) = r
      BY <3>1, SubSeqProperties
    <3> QED BY <3>2 DEF x, y
  <2>2. \A j \in 1 .. r : data[j] = bytes[h + j]
    <3>1. h + 1 \in Int /\ h + r \in Int /\ (h + r) - (h + 1) + 1 = r
      BY <1>1, <1>2
    <3>2. data = [j \in 1 .. r |-> bytes[j + (h + 1) - 1]]
      BY <3>1
    <3>3. \A j \in 1 .. r : j + (h + 1) - 1 = h + j
      BY <1>1, <1>2
    <3> HIDE DEF data
    <3> QED BY <3>2, <3>3
  <2> QED BY <2>1, <2>2
<1> HIDE DEF data
<1>4. ASSUME NEW j \in 1 .. r PROVE data[j] = Whole(in, m, j)
  <2>1. h + j \in 1 .. L - 1
    BY <1>0, <1>1, <1>2
  <2>2. data[j] = Whole(in, 0, h + j)
    BY <1>0, <1>3, <2>1
  <2>3. \A k \in 0 .. 7 : 0 + 8 * ((h + j) - 1) + k + 1 = m + 8 * (j - 1) + k + 1
    BY <1>1, <1>2, <1>d
  <2> QED BY <2>2, <2>3 DEF Whole
<1>5. e <= n
  BY <1>0, <1>1, <1>2, <1>d
<1>6. ByteFeed(data, in, m, e, n)
  BY <1>1, <1>3, <1>4, <1>5, <1>d DEF ByteFeed
<1> QED BY <1>c, <1>3, <1>6 DEF r

LEMMA PieceOnward ==
  ASSUME NEW bytes, NEW in, NEW n \in Nat, Fills(bytes, in, n), NEW read \in BOOLEAN, NEW num, NEW m \in Nat, NEW e,
         Starts(bytes, num, m, e), NEW b \in Board, NEW st, NEW i, NEW l, NEW from
  PROVE  Onward(read, One(Piece(bytes, read, num)), b, st, i, l, n, from, in, m, Run(num), e)
<1>1. PICK data : /\ Piece(bytes, read, num) = ClockBytes(data, read)
                  /\ Len(data) = Run(num) /\ ByteFeed(data, in, m, e, n)
  BY PieceFeeds
<1> DEFINE r == Run(num)
           p == Piece(bytes, read, num)
<1>2. r = Len(data) /\ p = ClockBytes(data, read)
  BY <1>1
<1> HIDE DEF r, p
<1> SUFFICES ASSUME NEW u, Amid(b, u, st, i, l, n, from, in, m), Fresh(u)
             PROVE  \E t : Goes(One(p), u, t, Asked(read, Wholes(from, m, r))) /\ Amid(b, t, st, i, l, n, from, in, e)
  BY DEF Onward, r, p
<1>3. \E t : /\ Goes(One(ClockBytes(data, read)), u, t, Asked(read, Wholes(from, m, Len(data))))
             /\ Amid(b, t, st, i, l, n, from, in, e)
  BY <1>1, BytesGo
<1> QED BY <1>2, <1>3

\* All bytes but the last.
LEMMA CompleteOnward ==
  ASSUME NEW b \in Board, NEW st, NEW i, NEW l, NEW n \in Nat, NEW from \in [1 .. n -> Bit], NEW in,
         NEW bytes, Fills(bytes, in, n), NEW read \in BOOLEAN, NEW w, w = Len(bytes) - 1, NEW d, d = 8 * w
  PROVE  Onward(read, CompleteBytes(bytes, read), b, st, i, l, n, from, in, 0, w, d)
<1> DEFINE L == Len(bytes)
<1>0. bytes \in Seq(Octet) /\ L \in Nat /\ L >= 1 /\ 8 * (L - 1) <= n /\ w = L - 1
  BY DEF Fills
<1>d. 8 * (L - 1) = d /\ 1 - 1 = 0
  BY <1>0
<1>1. PICK enc : Encoded(enc, bytes, read) /\ CompleteBytes(bytes, read) = enc[L]
  BY <1>0, RunByRun
<1>e. \A num \in 0 .. L : enc[num] = IF num <= 1 THEN <<>>
                                       ELSE << Piece(bytes, read, num) >> \o enc[num - Run(num)]
  BY <1>1 DEF Encoded
<1> HIDE DEF L
<1> DEFINE Good(num) == Onward(read, enc[num], b, st, i, l, n, from, in, 8 * (L - num), num - 1, d)
           Bad == {num \in Nat : num >= 1 /\ num <= L /\ ~Good(num)}
<1>2. Bad = {}
  <2> SUFFICES ASSUME Bad # {} PROVE FALSE
    OBVIOUS
  <2>1. PICK num \in Bad : \A m \in Bad : num <= m
    <3>1. Bad \in SUBSET Nat
      OBVIOUS
    <3> HIDE DEF Bad
    <3> QED BY <3>1, Least
  <2>2. num \in Nat /\ num >= 1 /\ num <= L /\ ~Good(num)
    BY <2>1
  <2>3. num # 1
    <3> SUFFICES ASSUME num = 1 PROVE FALSE
      OBVIOUS
    <3>1. enc[1] = <<>>
      <4>1. 1 \in 0 .. L /\ 1 <= 1
        BY <1>0
      <4> QED BY <1>e, <4>1
    <3>2. 8 * (L - 1) = d /\ 1 - 1 = 0
      BY <1>d, Zenon
    <3>3. Onward(read, <<>>, b, st, i, l, n, from, in, d, 0, d)
      BY ShiftNothing
    <3>4. Good(1)
      BY <3>1, <3>2, <3>3
    <3> HIDE DEF Good
    <3> QED BY <2>2, <3>4
  <2>4. num > 1
    BY <2>2, <2>3
  <2>5. Run(num) \in Nat /\ Run(num) >= 1 /\ Run(num) <= num - 1
    BY <2>2, <2>4, RunLeavesLast
  <2> DEFINE r == Run(num)
             rest == num - r
             m == 8 * (L - num)
             e == m + 8 * r
             p == Piece(bytes, read, num)
  <2>6. rest \in Nat /\ rest >= 1 /\ rest <= L /\ rest < num
    <3> HIDE DEF Good, Bad
    <3> QED BY <1>0, <2>2, <2>5
  <2>7. Good(rest)
    <3> HIDE DEF Good
    <3>1. rest \notin Bad
      <4> HIDE DEF Bad
      <4> QED BY <2>1, <2>2, <2>6
    <3> QED BY <2>6, <3>1
  <2>8. enc[num] = One(p) \o enc[rest]
    <3>1. num \in 0 .. L /\ ~(num <= 1)
      BY <2>2, <2>4
    <3> QED BY <1>e, <3>1 DEF One
  <2>9. m \in Nat /\ r \in Nat /\ rest - 1 \in Nat /\ e = m + 8 * r /\ e = 8 * (L - rest)
        /\ m + 8 * (r + (rest - 1)) <= n /\ r + (rest - 1) = num - 1
    <3> HIDE DEF Good, Bad
    <3>r. r \in Nat /\ r >= 1 /\ rest = num - r
      BY <2>5
    <3> HIDE DEF r, rest
    <3>1. m \in Nat /\ m = 8 * L - 8 * num
      BY <1>0, <2>2
    <3>2. rest - 1 \in Nat /\ r + (rest - 1) = num - 1 /\ r + rest = num
      BY <2>2, <2>6, <3>r
    <3> HIDE DEF m
    <3>3. e = 8 * L - 8 * rest /\ m + 8 * (r + (rest - 1)) = 8 * L - 8
      BY <1>0, <2>2, <2>6, <3>r, <3>1, <3>2
    <3>4. e = m + 8 * r
      OBVIOUS
    <3> DEFINE x == r + (rest - 1)
    <3>5. 8 * L - 8 <= n
      BY <1>0
    <3> HIDE DEF e
    <3>6. e = 8 * (L - rest)
      BY <1>0, <2>6, <3>3
    <3>7. m + 8 * x <= n /\ x = num - 1
      BY <3>2, <3>3, <3>5
    <3> QED BY <3>r, <3>1, <3>2, <3>4, <3>6, <3>7
  <2>10. Onward(read, One(p), b, st, i, l, n, from, in, m, r, e)
    <3>1. Starts(bytes, num, m, e)
      BY <2>2, <2>4, <2>9 DEF Starts, L
    <3> HIDE DEF m, e
    <3> QED BY <2>9, <3>1, PieceOnward
  <2> DEFINE v == rest - 1
             q == enc[rest]
  <2>11. Onward(read, q, b, st, i, l, n, from, in, e, v, d)
    BY <2>7, <2>9
  <2>12. v \in Nat /\ m \in Nat /\ r \in Nat /\ e = m + 8 * r /\ m + 8 * (r + v) <= n /\ r + v = num - 1
    BY <2>9
  <2> HIDE DEF m, r, e, v, p, q
  <2>13. Onward(read, One(p) \o q, b, st, i, l, n, from, in, m, r + v, d)
    BY <2>10, <2>11, <2>12, ShiftBoth
  <2>14. Good(num)
    BY <2>8, <2>12, <2>13 DEF m, q
  <2> HIDE DEF Good
  <2> QED BY <2>2, <2>14
<1>3. Good(L)
  <2> HIDE DEF Good
  <2> QED BY <1>0, <1>2
<1>4. 8 * (L - L) = 0 /\ L - 1 = w
  BY <1>0
<1> QED BY <1>1, <1>3, <1>4

-----------------------------------------------------------------------------
(* Movements *)

Stands(b, s, tap, i, sr, l) == At(b, s.dev, tap, i, sr, l)
Live(b, s) == On(b, s.dev)
Way(b, s, t, f, n, byte) ==
  Path(b, f, LowBits(byte, n), TopBit(byte, n)) /\ f[0] = Clear(s.dev) /\ f[n] = t.dev

LEMMA TmsGo ==
  ASSUME NEW b \in Board, NEW s, Live(b, s), Fresh(s), NEW byte \in Octet, NEW n \in 1 .. 7
  PROVE  \E f, t : Goes(One(Tms(byte, n, FALSE)), s, t, <<>>) /\ Way(b, s, t, f, n, byte)
<1>1. PICK f, t :
        /\ Along(b, << Tms(byte, n, FALSE) >>, s, t, f, n, LowBits(byte, n), TopBit(byte, n))
        /\ t.rx = s.rx
  <2>1. On(b, s.dev) /\ FALSE \in BOOLEAN
    BY DEF Live
  <2>2. \E f, t :
        /\ Along(b, << Tms(byte, n, FALSE) >>, s, t, f, n, LowBits(byte, n), TopBit(byte, n))
        /\ t.rx = IF FALSE THEN s.rx \o << Arrived(Outs(f, n)) >> ELSE s.rx
    BY <2>1, TmsPath
  <2> QED BY <2>2
<1> DEFINE r == s.rx
<1>2. r \in Seq(Octet)
  BY DEF Fresh
<1> HIDE DEF r
<1>3. r = r \o <<>>
  BY <1>2
<1>4. t.rx = s.rx \o <<>>
  BY <1>1, <1>3, Zenon DEF r
<1>5. One(Tms(byte, n, FALSE)) \in Seq(Command) /\ <<>> \in Seq(Octet)
  <2>1. n \in Nat /\ FALSE \in BOOLEAN
    OBVIOUS
  <2> DEFINE c == Tms(byte, n, FALSE)
  <2>2. c \in Command
    BY <2>1, TmsTyped, Zenon
  <2> HIDE DEF c
  <2>3. << c >> \in Seq(Command)
    BY <2>2
  <2>4. <<>> \in Seq(Octet)
    OBVIOUS
  <2> QED BY <2>3, <2>4, Zenon DEF One, c
<1> QED BY <1>1, <1>4, <1>5, Zenon DEF Goes, Along, Way, One

\* Where a movement begins.
LEMMA WayBegins ==
  ASSUME NEW b, NEW s, NEW t, NEW f, NEW n, NEW byte, Way(b, s, t, f, n, byte),
         NEW tap, NEW i, NEW sr, NEW l, Stands(b, s, tap, i, sr, l)
  PROVE  At(b, f[0], tap, i, sr, l)
<1>1. On(b, s.dev) /\ At(b, s.dev, tap, i, sr, l)
  BY DEF Stands, At
<1> QED BY <1>1, ClearedAt DEF Way

\* The bits of the bytes that are sent.
LEMMA SevenBits ==
  ASSUME NEW byte
  PROVE  LowBits(byte, 7) = << byte[0], byte[1], byte[2], byte[3], byte[4], byte[5], byte[6] >>
<1>1. \A k \in 1 .. 7 : k \in {1, 2, 3, 4, 5, 6, 7}
  OBVIOUS
<1>2. LowBits(byte, 7) \in [1 .. 7 -> {byte[0], byte[1], byte[2], byte[3], byte[4], byte[5], byte[6]}]
  BY <1>1 DEF LowBits
<1> QED BY <1>1, <1>2 DEF LowBits

\* The bytes of the movements that the operations make.
LEMMA Table ==
  /\ TAP_MOVE("TLR", "TLR") = Bits(127) /\ TAP_MOVE("TLR", "RTI") = Bits(0)
  /\ TAP_MOVE("RTI", "SD") = Bits(37) /\ TAP_MOVE("SD", "RTI") = Bits(49)
  /\ TAP_MOVE("RTI", "SI") = Bits(43) /\ TAP_MOVE("SI", "RTI") = Bits(49)
  /\ TAP_MOVE("TLR", "SI") = Bits(27)
BY DEF TAP_MOVE, tap_move, tap_move_map

LEMMA SevenLow ==
  ASSUME NEW byte, NEW a, NEW b, NEW c, NEW d, NEW e, NEW f, NEW g, Seven(byte, a, b, c, d, e, f, g)
  PROVE  LowBits(byte, 7) = << a, b, c, d, e, f, g >>
BY SevenBits DEF Seven

LEMMA MovesLow ==
  /\ LowBits(Bits(127), 7) = <<1, 1, 1, 1, 1, 1, 1>>
  /\ LowBits(Bits(0), 7) = <<0, 0, 0, 0, 0, 0, 0>>
  /\ LowBits(Bits(37), 7) = <<1, 0, 1, 0, 0, 1, 0>>
  /\ LowBits(Bits(43), 7) = <<1, 1, 0, 1, 0, 1, 0>>
  /\ LowBits(Bits(27), 7) = <<1, 1, 0, 1, 1, 0, 0>>
  /\ LowBits(Bits(49), 7) = <<1, 0, 0, 0, 1, 1, 0>>
BY SevenLow, MovesInBits, Zenon

LEMMA Leaving49 ==
  ASSUME NEW bit \in Bit, NEW byte, byte = WithTdi(Bits(49), bit)
  PROVE  byte \in Octet /\ byte[0] = 1 /\ byte[7] = bit /\ LowBits(byte, 7) = <<1, 0, 0, 0, 1, 1, 0>>
<1>1. Bits(49) \in Octet
  BY BitsTyped
<1>2. byte \in Octet
  BY <1>1, WithTdiTyped
<1>3. byte[7] = bit /\ \A k \in 0 .. 6 : byte[k] = Bits(49)[k]
  <2> DEFINE x == Bits(49)
  <2>1. DOMAIN x = 0 .. 7
    BY <1>1 DEF Octet
  <2> HIDE DEF x
  <2>2. byte = [x EXCEPT ![7] = bit]
    BY DEF x, WithTdi
  <2>3. byte[7] = bit /\ \A k \in 0 .. 6 : byte[k] = x[k]
    BY <2>1, <2>2
  <2> QED BY <2>3 DEF x
<1>4. Seven(Bits(49), 1, 0, 0, 0, 1, 1, 0)
  BY MovesInBits
<1>5. byte[0] = 1 /\ byte[1] = 0 /\ byte[2] = 0 /\ byte[3] = 0 /\ byte[4] = 1 /\ byte[5] = 1 /\ byte[6] = 0
  BY <1>3, <1>4 DEF Seven
<1> QED BY <1>2, <1>3, <1>5, SevenBits

\* To Shift-DR, and to Shift-IR.
LEMMA ToData ==
  ASSUME NEW b \in Board, NEW s, Fresh(s), NEW i, NEW sr, NEW l, Stands(b, s, "RTI", i, sr, l)
  PROVE  \E t : /\ Goes(One(Tms(TAP_MOVE("RTI", "SD"), 7, FALSE)), s, t, <<>>)
                /\ Stands(b, t, "SD", i, IF i = IDCODE THEN b.id ELSE b.cells, l)
<1> DEFINE x == Bits(37)
<1>1. x \in Octet /\ TAP_MOVE("RTI", "SD") = x /\ LowBits(x, 7) = <<1, 0, 1, 0, 0, 1, 0>>
  BY BitsTyped, Table, MovesLow
<1> HIDE DEF x
<1>2. Live(b, s) /\ 7 \in 1 .. 7
  BY DEF Stands, At, Live
<1>3. PICK f, t : Goes(One(Tms(x, 7, FALSE)), s, t, <<>>) /\ Way(b, s, t, f, 7, x)
  BY <1>1, <1>2, TmsGo
<1>4. At(b, f[0], "RTI", i, sr, l)
  BY <1>3, WayBegins
<1>5. At(b, f[7], "SD", i, IF i = IDCODE THEN b.id ELSE b.cells, l)
  BY <1>1, <1>3, <1>4, DataBySeven DEF Way
<1> QED BY <1>1, <1>3, <1>5, Zenon DEF Way, Stands

\* The last bit of a shift, on TDI while TMS leads out of the state.
Nearly(m, n) == m = n - 1
Leads(byte, bit) == byte \in Octet /\ byte[0] = 1 /\ byte[7] = bit
Ended(s, t, read, w, bit) ==
  IF read THEN \E x \in Octet : t.rx = s.rx \o << x >> /\ x[8 - w] = bit ELSE t.rx = s.rx
LEMMA LastPath ==
  ASSUME NEW b \in Board, NEW s, NEW st, NEW i, NEW l, NEW n, NEW from, NEW in, NEW m,
         Amid(b, s, st, i, l, n, from, in, m), Nearly(m, n),
         NEW byte, NEW w \in 1 .. 7, NEW read \in BOOLEAN, Leads(byte, in[n])
  PROVE  \E f, t :
           /\ Along(b, One(Tms(byte, w, read)), s, t, f, w,
                    LowBits(byte, w), TopBit(byte, w))
           /\ At(b, f[1], Leaves(st), i, in, l)
           /\ Ended(s, t, read, w, from[n])
<1>b. m = n - 1 /\ byte \in Octet /\ byte[0] = 1 /\ byte[7] = in[n]
  BY DEF Nearly, Leads
<1> DEFINE tms == LowBits(byte, w)
           tdi == TopBit(byte, w)
<1>0. On(b, s.dev)
  BY DEF Mid, At, Amid
<1>1. PICK f, t :
        /\ Along(b, One(Tms(byte, w, read)), s, t, f, w, tms, tdi)
        /\ t.rx = IF read THEN s.rx \o << Arrived(Outs(f, w)) >> ELSE s.rx
  BY <1>0, <1>b, TmsPath DEF One
<1>2. Mid(b, f[0], st, i, l, n, from, in, m)
  <2>1. f[0] = Clear(s.dev)
    BY <1>1 DEF Along
  <2> QED BY <1>0, <2>1, ClearedAt DEF Amid
<1>3. Ticks(b, f[0], 1, in[n], f[1])
  <2>1. Len(tms) = w /\ tms[1] = 1 /\ tdi[1] = in[n]
    BY <1>b DEF LowBits, TopBit
  <2>2. Path(b, f, tms, tdi)
    BY <1>1 DEF Along
  <2> HIDE DEF tms, tdi
  <2>3. 1 \in 1 .. Len(tms)
    BY <2>1
  <2>4. Ticks(b, f[1 - 1], tms[1], tdi[1], f[1])
    BY <2>2, <2>3 DEF Path
  <2> QED BY <2>1, <2>4
<1>4. At(b, f[1], Leaves(st), i, in, l) /\ Out(f[0]) = from[n]
  BY <1>b, <1>2, <1>3, ShiftEnds
<1>5. Arrived(Outs(f, w))[8 - w] = from[n]
  <2>1. Len(Outs(f, w)) = w /\ Outs(f, w)[1] = Out(f[0])
    BY <1>1 DEF Along, Outs
  <2> QED BY <1>4, <2>1 DEF Arrived
<1>6. Arrived(Outs(f, w)) \in Octet
  <2>1. Outs(f, w) \in Seq(Bit) /\ Len(Outs(f, w)) \in 1 .. 8
    BY <1>1 DEF Along
  <2> QED BY <2>1, ArrivedTyped
<1> QED BY <1>1, <1>4, <1>5, <1>6 DEF Ended

\* The end of a shift: TMS leads to Update and on to Run-Test/Idle.
Answer(read, from, n, back) ==
  IF read THEN \E x \in Octet : back = << x >> /\ x[1] = from[n] ELSE back = <<>>
Updates(st, i, in) == IF st = "SD" THEN i ELSE in
Latches(st, i, in, l) == IF st = "SD" /\ i # IDCODE THEN in ELSE l
Turns(byte, in, n) == byte = WithTdi(Bits(49), in[n])
LEMMA LastGo ==
  ASSUME NEW b \in Board, NEW s, Fresh(s), NEW st, NEW i, NEW l, NEW n, NEW from, NEW in, NEW m,
         Amid(b, s, st, i, l, n, from, in, m), Nearly(m, n),
         NEW byte, Turns(byte, in, n), NEW read \in BOOLEAN
  PROVE  \E t, back : /\ Goes(One(Tms(byte, 7, read)), s, t, back) /\ Answer(read, from, n, back)
                      /\ Stands(b, t, "RTI", Updates(st, i, in), in, Latches(st, i, in, l))
<1>0. n \in Nat \ {0} /\ in \in [1 .. n -> Bit] /\ st \in {"SD", "SI"}
  BY DEF Amid, Mid, Shifting
<1>1. in[n] \in Bit
  BY <1>0
<1>2. byte \in Octet /\ byte[0] = 1 /\ byte[7] = in[n] /\ LowBits(byte, 7) = <<1, 0, 0, 0, 1, 1, 0>>
  BY <1>1, Leaving49 DEF Turns
<1>3. PICK f, t :
        /\ Along(b, One(Tms(byte, 7, read)), s, t, f, 7, LowBits(byte, 7), TopBit(byte, 7))
        /\ At(b, f[1], Leaves(st), i, in, l)
        /\ Ended(s, t, read, 7, from[n])
  <2>1. 7 \in 1 .. 7 /\ Nearly(m, n) /\ Leads(byte, in[n])
    BY <1>2 DEF Nearly, Leads
  <2> QED BY <1>2, <2>1, LastPath
<1>4. Path(b, f, <<1, 0, 0, 0, 1, 1, 0>>, TopBit(byte, 7))
  BY <1>2, <1>3 DEF Along
<1>5. At(b, f[7], "RTI", Updates(st, i, in), in, Latches(st, i, in, l))
  <2>1. CASE st = "SD"
    <3>1. At(b, f[1], "E1D", i, in, l)
      BY <1>3, <2>1 DEF Leaves
    <3>2. At(b, f[7], "RTI", i, in, IF i = IDCODE THEN l ELSE in)
      BY <1>4, <3>1, DataEndsBySeven
    <3> QED BY <2>1, <3>2 DEF Updates, Latches
  <2>2. CASE st = "SI"
    <3>1. At(b, f[1], "E1I", i, in, l)
      BY <1>3, <2>2 DEF Leaves
    <3>2. At(b, f[7], "RTI", in, in, l)
      BY <1>4, <3>1, InstructionEndsBySeven
    <3> QED BY <2>2, <3>2 DEF Updates, Latches
  <2> QED BY <1>0, <2>1, <2>2
<1>6. Stands(b, t, "RTI", Updates(st, i, in), in, Latches(st, i, in, l))
  BY <1>3, <1>5, Zenon DEF Along, Stands
<1>7. Runs("openjtag", One(Tms(byte, 7, read)), s, t) /\ t.rd = s.rd
  BY <1>3 DEF Along
<1>8. One(Tms(byte, 7, read)) \in Seq(Command)
  <2> DEFINE c == Tms(byte, 7, read)
  <2>1. c \in Command
    <3>1. 7 \in Nat
      OBVIOUS
    <3> QED BY <1>2, <3>1, TmsTyped
  <2> HIDE DEF c
  <2> QED BY <2>1 DEF One, c
<1>9. \E back \in Seq(Octet) : t.rx = s.rx \o back /\ Answer(read, from, n, back)
  <2> DEFINE r == s.rx
  <2>1. r \in Seq(Octet)
    BY DEF Fresh
  <2>2. CASE read
    <3>1. PICK x \in Octet : t.rx = r \o << x >> /\ x[1] = from[n]
      <4>1. 8 - 7 = 1
        OBVIOUS
      <4> QED BY <1>3, <2>2, <4>1 DEF Ended
    <3> HIDE DEF r
    <3>2. << x >> \in Seq(Octet)
      OBVIOUS
    <3>3. Answer(read, from, n, << x >>)
      BY <2>2, <3>1 DEF Answer
    <3> QED BY <3>1, <3>2, <3>3 DEF r
  <2>3. CASE ~read
    <3>1. t.rx = r
      BY <1>3, <2>3 DEF Ended
    <3> HIDE DEF r
    <3>2. r = r \o <<>> /\ <<>> \in Seq(Octet)
      BY <2>1
    <3>3. Answer(read, from, n, <<>>)
      BY <2>3 DEF Answer
    <3> QED BY <3>1, <3>2, <3>3 DEF r
  <2> QED BY <2>2, <2>3
<1> QED BY <1>6, <1>7, <1>8, <1>9 DEF Goes

-----------------------------------------------------------------------------
(* The operations of the OpenJTAG *)

LEMMA GoesOn ==
  ASSUME NEW p, NEW q, NEW s, NEW t, NEW u, NEW back, Fresh(s), Goes(p, s, t, <<>>), Goes(q, t, u, back)
  PROVE  Goes(p \o q, s, u, back)
<1>0. Goes(p \o q, s, u, <<>> \o back)
  BY GoesBoth
<1>1. Goes(p \o q, s, u, <<>> \o back) /\ back \in Seq(Octet)
  BY <1>0 DEF Goes
<1>2. <<>> \o back = back
  BY <1>1
<1> QED BY <1>1, <1>2

LEMMA GoesFresh ==
  ASSUME NEW q, NEW s, NEW t, NEW back, Fresh(s), Goes(q, s, t, back)
  PROVE  Fresh(t)
<1> DEFINE r == s.rx
<1>1. r \in Seq(Octet) /\ back \in Seq(Octet) /\ t.rx = r \o back
  BY DEF Fresh, Goes
<1> HIDE DEF r
<1>2. r \o back \in Seq(Octet)
  BY <1>1
<1> QED BY <1>1, <1>2, Zenon DEF Fresh

LEMMA StandsLive ==
  ASSUME NEW b, NEW s, NEW tap, NEW i, NEW sr, NEW l, Stands(b, s, tap, i, sr, l)
  PROVE  Live(b, s)
BY DEF Stands, At, Live

\* Into reset from anywhere.
LEMMA ResetGo ==
  ASSUME NEW b \in Board, NEW s, Fresh(s), Live(b, s)
  PROVE  /\ OpenJTAG_Reset = One(Tms(Bits(127), 7, FALSE))
         /\ \E t, sr, l : Goes(OpenJTAG_Reset, s, t, <<>>) /\ Stands(b, t, "TLR", IDCODE, sr, l)
<1> DEFINE x == Bits(127)
<1>1. x \in Octet /\ TAP_MOVE("TLR", "TLR") = x /\ LowBits(x, 7) = <<1, 1, 1, 1, 1, 1, 1>>
  BY BitsTyped, Table, MovesLow
<1>2. OpenJTAG_Reset = One(Tms(x, 7, FALSE))
  BY <1>1 DEF OpenJTAG_Reset, One
<1> HIDE DEF x
<1>3. 7 \in 1 .. 7
  OBVIOUS
<1>4. PICK f, t : Goes(One(Tms(x, 7, FALSE)), s, t, <<>>) /\ Way(b, s, t, f, 7, x)
  BY <1>1, <1>3, TmsGo
<1>5. At(b, f[7], "TLR", IDCODE, f[7].sr, f[7].latch)
  BY <1>1, <1>4, ResetBySeven DEF Way
<1>6. Stands(b, t, "TLR", IDCODE, f[7].sr, f[7].latch)
  BY <1>4, <1>5, Zenon DEF Way, Stands
<1> QED BY <1>2, <1>4, <1>6 DEF x

LEMMA ToIdle ==
  ASSUME NEW b \in Board, NEW s, Fresh(s), NEW i, NEW sr, NEW l, Stands(b, s, "TLR", i, sr, l)
  PROVE  \E t : /\ Goes(One(Tms(TAP_MOVE("TLR", "RTI"), 7, FALSE)), s, t, <<>>)
                /\ Stands(b, t, "RTI", i, sr, l)
<1> DEFINE x == Bits(0)
<1>1. x \in Octet /\ TAP_MOVE("TLR", "RTI") = x /\ LowBits(x, 7) = <<0, 0, 0, 0, 0, 0, 0>>
  BY BitsTyped, Table, MovesLow
<1> HIDE DEF x
<1>2. Live(b, s) /\ 7 \in 1 .. 7
  BY StandsLive
<1>3. PICK f, t : Goes(One(Tms(x, 7, FALSE)), s, t, <<>>) /\ Way(b, s, t, f, 7, x)
  BY <1>1, <1>2, TmsGo
<1>4. At(b, f[0], "TLR", i, sr, l)
  BY <1>3, WayBegins
<1>5. At(b, f[7], "RTI", i, sr, l)
  BY <1>1, <1>3, <1>4, IdleBySeven DEF Way
<1> QED BY <1>1, <1>3, <1>5, Zenon DEF Way, Stands

LEMMA IdleGo ==
  ASSUME NEW b \in Board, NEW s, Fresh(s), Live(b, s)
  PROVE  \E t, sr, l : Goes(OpenJTAG_RunTestIdle, s, t, <<>>) /\ Stands(b, t, "RTI", IDCODE, sr, l)
<1>1. PICK u, sr, l : Goes(OpenJTAG_Reset, s, u, <<>>) /\ Stands(b, u, "TLR", IDCODE, sr, l)
  BY ResetGo
<1>2. Fresh(u)
  BY <1>1, GoesFresh
<1> DEFINE q == One(Tms(TAP_MOVE("TLR", "RTI"), 7, FALSE))
<1>3. PICK t : Goes(q, u, t, <<>>) /\ Stands(b, t, "RTI", IDCODE, sr, l)
  BY <1>1, <1>2, ToIdle
<1>4. OpenJTAG_RunTestIdle = OpenJTAG_Reset \o q
  BY DEF OpenJTAG_RunTestIdle, One
<1> HIDE DEF q
<1>5. Goes(OpenJTAG_Reset \o q, s, t, <<>>)
  BY <1>1, <1>3, GoesOn
<1> QED BY <1>3, <1>4, <1>5

LEMMA ToInstruction ==
  ASSUME NEW b \in Board, NEW s, Fresh(s), NEW i, NEW sr, NEW l, Stands(b, s, "RTI", i, sr, l)
  PROVE  \E t : /\ Goes(One(Tms(TAP_MOVE("RTI", "SI"), 7, FALSE)), s, t, <<>>)
                /\ Stands(b, t, "SI", i, <<1, 0, 0, 0>>, l)
<1> DEFINE x == Bits(43)
<1>1. x \in Octet /\ TAP_MOVE("RTI", "SI") = x /\ LowBits(x, 7) = <<1, 1, 0, 1, 0, 1, 0>>
  BY BitsTyped, Table, MovesLow
<1> HIDE DEF x
<1>2. Live(b, s) /\ 7 \in 1 .. 7
  BY StandsLive
<1>3. PICK f, t : Goes(One(Tms(x, 7, FALSE)), s, t, <<>>) /\ Way(b, s, t, f, 7, x)
  BY <1>1, <1>2, TmsGo
<1>4. At(b, f[0], "RTI", i, sr, l)
  BY <1>3, WayBegins
<1>5. At(b, f[7], "SI", i, <<1, 0, 0, 0>>, l)
  BY <1>1, <1>3, <1>4, InstructionBySeven DEF Way
<1> QED BY <1>1, <1>3, <1>5, Zenon DEF Way, Stands

\* A shift begins.
LEMMA Begun ==
  ASSUME NEW b, NEW s, NEW st \in Shifting, NEW i, NEW l, NEW n \in Nat \ {0},
         NEW from \in [1 .. n -> Bit], NEW in \in [1 .. n -> Bit], Stands(b, s, st, i, from, l)
  PROVE  Amid(b, s, st, i, l, n, from, in, 0)
BY ShiftBegins DEF Stands, Amid

LEMMA ThreeInARow ==
  ASSUME NEW x, NEW y, NEW z
  PROVE  (<< x >> \o << y >>) \o << z >> = << x, y, z >>
<1> DEFINE S == {x, y, z}
<1>s. x \in S /\ y \in S /\ z \in S
  OBVIOUS
<1> HIDE DEF S
<1> DEFINE u == << x >> \o << y >>
<1>1. u \in Seq(S) /\ Len(u) = 2 /\ u[1] = x /\ u[2] = y
  BY <1>s
<1> HIDE DEF u
<1>2. u = << x, y >>
  BY <1>1
<1> DEFINE v == << x, y >> \o << z >>
<1>3. Len(v) = 3 /\ v[1] = x /\ v[2] = y /\ v[3] = z /\ v \in Seq(S)
  BY <1>s
<1> HIDE DEF v
<1>4. v = << x, y, z >>
  BY <1>3
<1> QED BY <1>2, <1>4, Zenon DEF v, u

\* EXTEST into the instruction register.
LEMMA InstructionGo ==
  ASSUME NEW b \in Board, NEW s, Fresh(s), NEW i, NEW sr, NEW l, Stands(b, s, "RTI", i, sr, l)
  PROVE  \E t : Goes(OpenJTAG_ShiftIRState(EXTEST), s, t, <<>>) /\ Stands(b, t, "RTI", EXTEST, EXTEST, l)
<1> DEFINE val == binstr2bytes(EXTEST)[1]
           p == One(Tms(TAP_MOVE("RTI", "SI"), 7, FALSE))
           c == One(ClockBits(val, 3, FALSE))
           byte == WithTdi(TAP_MOVE("SI", "RTI"), val[3])
           d == One(Tms(byte, 7, FALSE))
           from == <<1, 0, 0, 0>>
<1>1. Len(EXTEST) = 4 /\ NumBytes(4) = 1 /\ EXTEST[1] = 0 /\ EXTEST[2] = 0 /\ EXTEST[3] = 0 /\ EXTEST[4] = 0
  BY DEF EXTEST, NumBytes
<1>2. \A k \in 0 .. 7 : val[k] = 0
  <2> SUFFICES ASSUME NEW k \in 0 .. 7 PROVE val[k] = 0
    OBVIOUS
  <2>1. val = [j \in 0 .. 7 |-> IF 8 * (1 - 1) + j + 1 <= 4 THEN EXTEST[8 * (1 - 1) + j + 1] ELSE 0]
    BY <1>1 DEF binstr2bytes
  <2>2. 8 * (1 - 1) + k + 1 = k + 1
    OBVIOUS
  <2>3. val[k] = IF k + 1 <= 4 THEN EXTEST[k + 1] ELSE 0
    BY <2>1, <2>2
  <2>4. k + 1 <= 4 => k + 1 \in {1, 2, 3, 4}
    OBVIOUS
  <2> QED BY <1>1, <2>3, <2>4
<1>3. val \in Octet
  <2>1. EXTEST \in Seq(Bit) /\ Len(EXTEST) >= 1
    BY <1>1 DEF EXTEST, Bit
  <2>2. binstr2bytes(EXTEST) \in Seq(Octet) /\ Len(binstr2bytes(EXTEST)) = 1
    <3>1. binstr2bytes(EXTEST) \in Seq(Octet) /\ Len(binstr2bytes(EXTEST)) = NumBytes(Len(EXTEST))
      BY <2>1, BytesOfString
    <3> QED BY <1>1, <3>1
  <2> QED BY <2>2
<1>4. from \in [1 .. 4 -> Bit] /\ EXTEST \in [1 .. 4 -> Bit] /\ "SI" \in Shifting
  BY DEF EXTEST, Bit, Shifting
<1>5. OpenJTAG_ShiftIRState(EXTEST) = (p \o c) \o d
  <2>1. OpenJTAG_ShiftIRState(EXTEST)
        = << Tms(TAP_MOVE("RTI", "SI"), 7, FALSE), ClockBits(val, 3, FALSE), Tms(byte, 7, FALSE) >>
    BY <1>1 DEF OpenJTAG_ShiftIRState
  <2> QED BY <2>1, ThreeInARow, Zenon DEF One, p, c, d
<1>6. byte = WithTdi(Bits(49), EXTEST[4])
  BY <1>1, <1>2, Table
<1> HIDE DEF val, p, byte, from
<1>7. PICK u : Goes(p, s, u, <<>>) /\ Stands(b, u, "SI", i, from, l)
  BY ToInstruction DEF p, from
<1>8. Fresh(u) /\ Amid(b, u, "SI", i, l, 4, from, EXTEST, 0)
  <2>1. Fresh(u)
    BY <1>7, GoesFresh
  <2>2. 4 \in Nat \ {0}
    OBVIOUS
  <2> QED BY <1>4, <1>7, <2>1, <2>2, Begun
<1>9. BitFeed(val, 3, EXTEST, 0, 3, 4)
  <2>1. \A k \in 1 .. 3 : val[k - 1] = EXTEST[0 + k]
    <3> SUFFICES ASSUME NEW k \in 1 .. 3 PROVE val[k - 1] = EXTEST[0 + k]
      OBVIOUS
    <3>1. k \in {1, 2, 3} /\ k - 1 \in 0 .. 7 /\ 0 + k = k
      OBVIOUS
    <3> QED BY <1>1, <1>2, <3>1
  <2> QED BY <1>3, <2>1 DEF BitFeed
<1>10. PICK v : Goes(c, u, v, <<>>) /\ Amid(b, v, "SI", i, l, 4, from, EXTEST, 3)
  <2>1. 0 \in Nat /\ FALSE \in BOOLEAN
    OBVIOUS
  <2>2. \E t : /\ Goes(One(ClockBits(val, 3, FALSE)), u, t, Asked(FALSE, Taken(from, 0, 3)))
               /\ Amid(b, t, "SI", i, l, 4, from, EXTEST, 3)
    BY <1>8, <1>9, <2>1, BitsGo
  <2> QED BY <2>2 DEF Asked
<1> HIDE DEF c
<1>11. Fresh(v) /\ Goes(p \o c, s, v, <<>>)
  BY <1>7, <1>8, <1>10, GoesFresh, GoesOn
<1>12. PICK t, back : /\ Goes(d, v, t, back) /\ Answer(FALSE, from, 4, back)
                     /\ Stands(b, t, "RTI", Updates("SI", i, EXTEST), EXTEST, Latches("SI", i, EXTEST, l))
  <2>1. Nearly(3, 4) /\ Turns(byte, EXTEST, 4) /\ FALSE \in BOOLEAN
    BY <1>6 DEF Nearly, Turns
  <2> QED BY <1>10, <1>11, <2>1, LastGo
<1> HIDE DEF d
<1>13. back = <<>> /\ Stands(b, t, "RTI", EXTEST, EXTEST, l)
  BY <1>12 DEF Answer, Updates, Latches
<1> QED BY <1>5, <1>11, <1>12, <1>13, GoesOn

-----------------------------------------------------------------------------
(* What a scan reads *)

\* The bytes a string of n bits comes back in: whole ones, one with the remaining
\* bits, and one with the last bit.
Replies(back, from, n) ==
  /\ back \in Seq(Octet)
  /\ \A j \in 1 .. NumBytes(n) - 1 : back[j] = Whole(from, 0, j)
  /\ IF Remaining(n)
     THEN /\ Len(back) = NumBytes(n) + 1 /\ back[NumBytes(n) + 1][1] = from[n]
          /\ \A k \in 1 .. BitsLeft(n) - 1 :
               back[NumBytes(n)][8 - BitsLeft(n) + k] = from[8 * (NumBytes(n) - 1) + k]
     ELSE Len(back) = NumBytes(n) /\ back[NumBytes(n)][1] = from[n]

LEMMA BytesOfLength ==
  ASSUME NEW n \in Nat \ {0}
  PROVE  /\ NumBytes(n) \in Nat \ {0} /\ BitsLeft(n) \in 1 .. 8
         /\ n = 8 * (NumBytes(n) - 1) + BitsLeft(n) /\ 8 * (NumBytes(n) - 1) <= n
         /\ Remaining(n) <=> BitsLeft(n) > 1
<1> DEFINE m == NumBytes(n)
<1>1. m \in Nat /\ m >= 1 /\ 8 * m <= n + 7 /\ n <= 8 * m
  BY DEF NumBytes
<1>2. BitsLeft(n) = n - 8 * (m - 1)
  BY DEF BitsLeft
<1> HIDE DEF m
<1>3. n - 8 * (m - 1) \in 1 .. 8
  BY <1>1
<1> QED BY <1>1, <1>2, <1>3 DEF Remaining, m

LEMMA PutTogether ==
  ASSUME NEW left \in 1 .. 8, NEW rest \in Octet, NEW tms \in Octet
  PROVE  /\ Together(rest, tms, left) \in Octet
         /\ Together(rest, tms, left)[left - 1] = tms[1]
         /\ \A k \in 0 .. left - 2 : Together(rest, tms, left)[k] = rest[9 - left + k]
<1> DEFINE top == IF tms[1] = 1 \/ ShiftRight(rest, 1)[7] = 1 THEN 1 ELSE 0
           whole == [j \in 0 .. 7 |-> IF j = 7 THEN top ELSE ShiftRight(rest, 1)[j]]
<1>1. ShiftRight(rest, 1)[7] = 0 /\ \A j \in 0 .. 6 : ShiftRight(rest, 1)[j] = rest[j + 1]
  BY DEF ShiftRight
<1>2. tms[1] \in Bit /\ \A j \in 0 .. 7 : rest[j] \in Bit
  BY DEF Octet
<1>3. top = tms[1]
  BY <1>1, <1>2 DEF Bit
<1>4. Together(rest, tms, left) = ShiftRight(whole, 8 - left)
  BY DEF Together
<1> HIDE DEF top
<1>5. \A j \in 0 .. 7 : whole[j] = IF j = 7 THEN tms[1] ELSE rest[j + 1]
  BY <1>1, <1>3
<1>6. \A j \in 0 .. 7 : whole[j] \in Bit
  BY <1>2, <1>5
<1> HIDE DEF whole
<1>7. \A k \in 0 .. 7 : ShiftRight(whole, 8 - left)[k] = IF k + (8 - left) <= 7 THEN whole[k + (8 - left)] ELSE 0
  BY DEF ShiftRight
<1>8. ShiftRight(whole, 8 - left) \in Octet
  <2>1. \A k \in 0 .. 7 : (IF k + (8 - left) <= 7 THEN whole[k + (8 - left)] ELSE 0) \in Bit
    BY <1>6 DEF Bit
  <2> QED BY <2>1 DEF ShiftRight, Octet
<1>9. ShiftRight(whole, 8 - left)[left - 1] = tms[1]
  <2>1. left - 1 \in 0 .. 7 /\ (left - 1) + (8 - left) = 7
    OBVIOUS
  <2> QED BY <1>5, <1>7, <2>1
<1>10. ASSUME NEW k \in 0 .. left - 2 PROVE ShiftRight(whole, 8 - left)[k] = rest[9 - left + k]
  <2>1. k \in 0 .. 7 /\ k + (8 - left) \in 0 .. 6 /\ k + (8 - left) + 1 = 9 - left + k
    OBVIOUS
  <2> QED BY <1>5, <1>7, <2>1
<1> QED BY <1>4, <1>8, <1>9, <1>10

\* They are put together to the string.
LEMMA ReplyRead ==
  ASSUME NEW n \in Nat \ {0}, NEW from \in [1 .. n -> Bit], NEW back, Replies(back, from, n)
  PROVE  bytes2binstr(ft2232_read_scan(back, n), n) = from
<1> DEFINE h == NumBytes(n) - 1
           left == BitsLeft(n)
           rest == IF left > 1 THEN back[h + 1] ELSE Zero
           last == back[h + 1 + (IF left > 1 THEN 1 ELSE 0)]
           scan == ft2232_read_scan(back, n)
           top == Together(rest, last, left)
<1>1. h \in Nat /\ left \in 1 .. 8 /\ n = 8 * h + left /\ (Remaining(n) <=> left > 1) /\ NumBytes(n) = h + 1
  <2>1. /\ NumBytes(n) \in Nat \ {0} /\ left \in 1 .. 8 /\ n = 8 * (NumBytes(n) - 1) + left
        /\ (Remaining(n) <=> left > 1)
    BY BytesOfLength, Zenon
  <2> DEFINE w == NumBytes(n)
  <2>2. w \in Nat \ {0} /\ n = 8 * (w - 1) + left
    BY <2>1
  <2> HIDE DEF w, left
  <2>3. w - 1 \in Nat /\ w = (w - 1) + 1
    BY <2>2
  <2> QED BY <2>1, <2>2, <2>3 DEF w
<1>2. scan = SubSeq(back, 1, h) \o << top >>
  BY DEF ft2232_read_scan
<1> HIDE DEF h, left
<1>3. /\ back \in Seq(Octet) /\ \A j \in 1 .. h : back[j] = Whole(from, 0, j)
      /\ left > 1 => /\ Len(back) = h + 2 /\ back[h + 2][1] = from[n]
                     /\ \A k \in 1 .. left - 1 : back[h + 1][8 - left + k] = from[8 * h + k]
      /\ left <= 1 => Len(back) = h + 1 /\ back[h + 1][1] = from[n]
  <2>1. (h + 1) - 1 = h /\ (h + 1) + 1 = h + 2
    BY <1>1
  <2>2. /\ back \in Seq(Octet)
        /\ \A j \in 1 .. (h + 1) - 1 : back[j] = Whole(from, 0, j)
        /\ IF left > 1
           THEN /\ Len(back) = (h + 1) + 1 /\ back[(h + 1) + 1][1] = from[n]
                /\ \A k \in 1 .. left - 1 :
                     back[h + 1][8 - left + k] = from[8 * ((h + 1) - 1) + k]
           ELSE Len(back) = h + 1 /\ back[h + 1][1] = from[n]
    BY <1>1, Zenon DEF Replies, left
  <2>3. left <= 1 <=> ~(left > 1)
    BY <1>1
  <2> QED BY <2>1, <2>2, <2>3, Zenon
<1>4. rest \in Octet /\ last \in Octet /\ last[1] = from[n]
      /\ \A k \in 0 .. left - 2 : rest[9 - left + k] = from[8 * h + k + 1]
  <2>1. CASE left > 1
    <3>1. rest = back[h + 1] /\ last = back[h + 2]
      BY <1>1, <2>1
    <3>2. back[h + 1] \in Octet /\ back[h + 2] \in Octet
      BY <1>1, <1>3, <2>1
    <3> HIDE DEF rest, last
    <3>3. ASSUME NEW k \in 0 .. left - 2 PROVE rest[9 - left + k] = from[8 * h + k + 1]
      <4> DEFINE j == k + 1
      <4>1. j \in 1 .. left - 1 /\ 8 - left + j = 9 - left + k /\ 8 * h + j = 8 * h + k + 1
        BY <1>1
      <4> QED BY <1>3, <2>1, <3>1, <4>1
    <3> QED BY <1>3, <2>1, <3>1, <3>2, <3>3
  <2>2. CASE left <= 1
    <3>1. rest = Zero /\ last = back[h + 1]
      BY <1>1, <2>2
    <3>2. back[h + 1] \in Octet
      BY <1>1, <1>3, <2>2
    <3>3. Zero \in Octet
      BY BitsTyped DEF Zero
    <3>4. \A k \in 0 .. left - 2 : FALSE
      BY <1>1, <2>2
    <3> HIDE DEF rest, last
    <3> QED BY <1>3, <2>2, <3>1, <3>2, <3>3, <3>4
  <2> QED BY <1>1, <2>1, <2>2
<1> HIDE DEF rest, last
<1>5. /\ top \in Octet /\ top[left - 1] = last[1]
      /\ \A k \in 0 .. left - 2 : top[k] = rest[9 - left + k]
  BY <1>1, <1>4, PutTogether
<1> HIDE DEF top
<1>6. \A k \in 0 .. left - 1 : top[k] = from[8 * h + k + 1]
  <2> SUFFICES ASSUME NEW k \in 0 .. left - 1 PROVE top[k] = from[8 * h + k + 1]
    OBVIOUS
  <2>1. CASE k = left - 1
    <3>1. 8 * h + k + 1 = n
      BY <1>1, <2>1
    <3> QED BY <1>4, <1>5, <2>1, <3>1
  <2>2. CASE k # left - 1
    <3>1. k \in 0 .. left - 2
      BY <1>1, <2>2
    <3> QED BY <1>4, <1>5, <3>1
  <2> QED BY <2>1, <2>2
<1>7. \A j \in 1 .. h : \A k \in 0 .. 7 : scan[j][k] = from[8 * (j - 1) + k + 1]
  <2> DEFINE q == SubSeq(back, 1, h)
  <2>1. h <= Len(back) /\ \A j \in 1 .. h : back[j] \in Octet
    BY <1>1, <1>3
  <2>2. q \in Seq(Octet) /\ Len(q) = h /\ \A j \in 1 .. h : q[j] = back[j]
    <3>1. q = [j \in 1 .. h |-> back[j]]
      BY <1>1, <1>3, <2>1
    <3> HIDE DEF q
    <3> QED BY <1>1, <2>1, <3>1
  <2> HIDE DEF q
  <2>3. \A j \in 1 .. h : scan[j] = q[j]
    <3> DEFINE p == << top >>
    <3>1. p \in Seq(Octet)
      BY <1>5
    <3> HIDE DEF p
    <3>2. scan = q \o p
      BY <1>2 DEF p, q
    <3> HIDE DEF scan
    <3> QED BY <2>2, <3>1, <3>2, Joined
  <2>4. \A j \in 1 .. h : scan[j] = Whole(from, 0, j)
    BY <1>3, <2>2, <2>3
  <2> HIDE DEF scan
  <2> SUFFICES ASSUME NEW j \in 1 .. h, NEW k \in 0 .. 7 PROVE scan[j][k] = from[8 * (j - 1) + k + 1]
    OBVIOUS
  <2>5. Whole(from, 0, j)[k] = from[0 + 8 * (j - 1) + k + 1] /\ 0 + 8 * (j - 1) + k + 1 = 8 * (j - 1) + k + 1
    BY <1>1 DEF Whole
  <2> QED BY <2>4, <2>5
<1>8. scan[h + 1] = top
  <2> DEFINE q == SubSeq(back, 1, h)
             p == << top >>
  <2>1. h <= Len(back) /\ \A j \in 1 .. h : back[j] \in Octet
    BY <1>1, <1>3
  <2>2. q \in Seq(Octet) /\ Len(q) = h
    <3>1. q = [j \in 1 .. h |-> back[j]]
      BY <1>1, <1>3, <2>1
    <3> HIDE DEF q
    <3> QED BY <1>1, <2>1, <3>1
  <2>3. p \in Seq(Octet) /\ Len(p) = 1 /\ p[1] = top
    BY <1>5
  <2>4. scan = q \o p
    BY <1>2
  <2> HIDE DEF p, q, scan
  <2>5. 1 \in 1 .. Len(p)
    BY <2>3
  <2>6. (q \o p)[Len(q) + 1] = p[1]
    BY <2>2, <2>3, <2>5, Joined
  <2> QED BY <2>2, <2>3, <2>4, <2>6
<1> HIDE DEF scan
<1>9. ASSUME NEW k \in 1 .. n PROVE scan[(k - 1) \div 8 + 1][(k - 1) % 8] = from[k]
  <2> DEFINE j == (k - 1) \div 8 + 1
             p == (k - 1) % 8
  <2>1. j \in Nat /\ j >= 1 /\ p \in 0 .. 7 /\ k = 8 * (j - 1) + p + 1
    OBVIOUS
  <2> HIDE DEF j, p
  <2>2. CASE j <= h
    <3>1. j \in 1 .. h
      BY <1>1, <2>1, <2>2
    <3> QED BY <1>7, <2>1, <3>1 DEF j, p
  <2>3. CASE j > h
    <3>1. j = h + 1 /\ p \in 0 .. left - 1 /\ k = 8 * h + p + 1
      BY <1>1, <2>1, <2>3
    <3> QED BY <1>6, <1>8, <3>1 DEF j, p
  <2> QED BY <1>1, <2>1, <2>2, <2>3
<1>10. bytes2binstr(scan, n) = [k \in 1 .. n |-> from[k]]
  BY <1>9 DEF bytes2binstr
<1> QED BY <1>10 DEF scan

\* The bytes of a string are what its bits are clocked in from.
LEMMA StringFills ==
  ASSUME NEW n \in Nat \ {0}, NEW in \in [1 .. n -> Bit]
  PROVE  LET bytes == binstr2bytes(in)
             m == 8 * (NumBytes(n) - 1)
         IN /\ Fills(bytes, in, n) /\ Len(bytes) = NumBytes(n) /\ LastBit(bytes, n) = in[n] /\ Len(in) = n
            /\ Remaining(n) => BitFeed(bytes[Len(bytes)], BitsLeft(n) - 1, in, m, n - 1, n)
<1> DEFINE bytes == binstr2bytes(in)
           h == NumBytes(n) - 1
           left == BitsLeft(n)
           L == NumBytes(n)
<1>1. L \in Nat \ {0} /\ h = L - 1 /\ h \in Nat /\ left \in 1 .. 8 /\ n = 8 * h + left /\ 8 * h <= n
      /\ (Remaining(n) <=> left > 1)
  <2>1. /\ L \in Nat \ {0} /\ left \in 1 .. 8 /\ n = 8 * h + left /\ 8 * h <= n
        /\ (Remaining(n) <=> left > 1)
    BY BytesOfLength, Zenon
  <2> HIDE DEF L, left
  <2> QED BY <2>1 DEF L
<1>2. in \in Seq(Bit) /\ Len(in) = n
  OBVIOUS
<1>3. bytes \in Seq(Octet) /\ Len(bytes) = L
  <2>1. Len(in) >= 1
    BY <1>2
  <2>2. bytes \in Seq(Octet) /\ Len(bytes) = NumBytes(Len(in))
    BY <1>2, <2>1, BytesOfString, Zenon
  <2> QED BY <1>2, <2>2
<1>4. \A j \in 1 .. L : bytes[j] = [k \in 0 .. 7 |-> IF 8 * (j - 1) + k + 1 <= n THEN in[8 * (j - 1) + k + 1] ELSE 0]
  BY <1>2 DEF binstr2bytes
<1>c. LastBit(bytes, n) = bytes[L][left - 1]
  BY DEF LastBit
<1> HIDE DEF bytes, h, left, L
<1>5. ASSUME NEW j \in 1 .. h PROVE bytes[j] = Whole(in, 0, j)
  <2>1. j \in 1 .. L
    BY <1>1
  <2>2. \A k \in 0 .. 7 : 8 * (j - 1) + k + 1 <= n /\ 0 + 8 * (j - 1) + k + 1 = 8 * (j - 1) + k + 1
    BY <1>1
  <2> QED BY <1>4, <2>1, <2>2 DEF Whole
<1>6. Fills(bytes, in, n)
  <2>1. Len(bytes) - 1 = h /\ Len(bytes) >= 1
    BY <1>1, <1>3
  <2> QED BY <1>1, <1>3, <1>5, <2>1 DEF Fills
<1>7. \A k \in 0 .. left - 1 : bytes[L][k] = in[8 * h + k + 1]
  <2> SUFFICES ASSUME NEW k \in 0 .. left - 1 PROVE bytes[L][k] = in[8 * h + k + 1]
    OBVIOUS
  <2>1. L \in 1 .. L /\ k \in 0 .. 7 /\ 8 * (L - 1) + k + 1 <= n /\ 8 * (L - 1) + k + 1 = 8 * h + k + 1
    BY <1>1
  <2>2. bytes[L] = [p \in 0 .. 7 |-> IF 8 * (L - 1) + p + 1 <= n THEN in[8 * (L - 1) + p + 1] ELSE 0]
    BY <1>4, <2>1
  <2>3. bytes[L][k] = in[8 * (L - 1) + k + 1]
    BY <2>1, <2>2
  <2> QED BY <2>1, <2>3
<1>8. LastBit(bytes, n) = in[n]
  <2>1. left - 1 \in 0 .. left - 1 /\ 8 * h + (left - 1) + 1 = n
    BY <1>1
  <2> QED BY <1>7, <1>c, <2>1
<1>9. ASSUME left > 1 PROVE BitFeed(bytes[L], left - 1, in, 8 * h, n - 1, n)
  <2>1. bytes[L] \in Octet
    BY <1>1, <1>3
  <2>2. left - 1 \in 1 .. 7 /\ n - 1 = 8 * h + (left - 1) /\ n - 1 <= n
    BY <1>1, <1>9
  <2>3. ASSUME NEW k \in 1 .. left - 1 PROVE bytes[L][k - 1] = in[8 * h + k]
    <3>1. k - 1 \in 0 .. left - 1 /\ 8 * h + (k - 1) + 1 = 8 * h + k
      BY <1>1
    <3> QED BY <1>7, <3>1
  <2> QED BY <2>1, <2>2, <2>3 DEF BitFeed
<1> QED BY <1>1, <1>2, <1>3, <1>6, <1>8, <1>9 DEF bytes, left, h, L

\* What a read scan gets.
Rest(from, n) == IF Remaining(n) THEN Taken(from, 8 * (NumBytes(n) - 1), BitsLeft(n) - 1) ELSE <<>>

LEMMA TakenTyped ==
  ASSUME NEW n \in Nat, NEW from \in [1 .. n -> Bit], NEW m \in Nat, NEW w \in 1 .. 7, m + w <= n
  PROVE  /\ Taken(from, m, w) \in Seq(Octet) /\ Len(Taken(from, m, w)) = 1
         /\ \A k \in 1 .. w : Taken(from, m, w)[1][7 - w + k] = from[m + k]
<1> DEFINE q == [k \in 1 .. w |-> from[m + k]]
<1>1. q \in Seq(Bit) /\ Len(q) = w /\ w \in 1 .. 8 /\ \A k \in 1 .. w : q[k] = from[m + k]
  OBVIOUS
<1> HIDE DEF q
<1>2. Arrived(q) \in Octet
  BY <1>1, ArrivedTyped
<1>3. ASSUME NEW k \in 1 .. w PROVE Arrived(q)[7 - w + k] = from[m + k]
  <2>1. 7 - w + k \in 0 .. 7 /\ 7 - w + k >= 8 - Len(q) /\ (7 - w + k) - (8 - Len(q)) + 1 = k
    BY <1>1
  <2> QED BY <1>1, <2>1 DEF Arrived
<1>4. Taken(from, m, w) = << Arrived(q) >>
  BY DEF Taken, q
<1> QED BY <1>2, <1>3, <1>4

LEMMA OneBehind ==
  ASSUME NEW p \in Seq(Octet), NEW q \in Seq(Octet), Len(q) = 1, NEW h, Len(p) = h
  PROVE  /\ p \o q \in Seq(Octet) /\ Len(p \o q) = h + 1 /\ (p \o q)[h + 1] = q[1]
         /\ \A j \in 1 .. h : (p \o q)[j] = p[j]
<1> DEFINE r == p \o q
<1>1. /\ r \in Seq(Octet) /\ Len(r) = Len(p) + Len(q) /\ \A j \in 1 .. Len(p) : r[j] = p[j]
      /\ \A j \in 1 .. Len(q) : r[Len(p) + j] = q[j]
  BY BytesJoined
<1> HIDE DEF r
<1>2. 1 \in 1 .. Len(q)
  OBVIOUS
<1>3. r[Len(p) + 1] = q[1]
  BY <1>1, <1>2
<1>4. r \in Seq(Octet) /\ Len(r) = h + 1 /\ r[h + 1] = q[1] /\ \A j \in 1 .. h : r[j] = p[j]
  BY <1>1, <1>3
<1> QED BY <1>4 DEF r

LEMMA RepliesJoin ==
  ASSUME NEW n \in Nat \ {0}, NEW from \in [1 .. n -> Bit], NEW z, Answer(TRUE, from, n, z)
  PROVE  Replies((Wholes(from, 0, NumBytes(n) - 1) \o Rest(from, n)) \o z, from, n)
<1> DEFINE h == NumBytes(n) - 1
           left == BitsLeft(n)
           x == Wholes(from, 0, h)
           y == Rest(from, n)
<1>1. h \in Nat /\ left \in 1 .. 8 /\ n = 8 * h + left /\ 8 * h <= n /\ NumBytes(n) = h + 1
      /\ (Remaining(n) <=> left > 1)
  <2>1. /\ NumBytes(n) \in Nat \ {0} /\ left \in 1 .. 8 /\ n = 8 * (NumBytes(n) - 1) + left
        /\ 8 * (NumBytes(n) - 1) <= n /\ (Remaining(n) <=> left > 1)
    BY BytesOfLength, Zenon
  <2> DEFINE w == NumBytes(n)
  <2>2. w \in Nat \ {0} /\ n = 8 * (w - 1) + left
    BY <2>1
  <2> HIDE DEF w, left
  <2>3. w - 1 \in Nat /\ w = (w - 1) + 1
    BY <2>2
  <2> QED BY <2>1, <2>2, <2>3 DEF w
<1> HIDE DEF h, left
<1>2. x \in Seq(Octet) /\ Len(x) = h /\ \A j \in 1 .. h : x[j] = Whole(from, 0, j)
  <2>1. x \in Seq(Octet) /\ Len(x) = h
    <3>1. 0 + 8 * h <= n
      BY <1>1
    <3> QED BY <1>1, <3>1, WholesTyped
  <2>2. \A j \in 1 .. h : x[j] = Whole(from, 0, j)
    BY DEF Wholes
  <2> QED BY <2>1, <2>2
<1>3. PICK c \in Octet : z = << c >> /\ c[1] = from[n]
  BY DEF Answer
<1>4. z \in Seq(Octet) /\ Len(z) = 1 /\ z[1][1] = from[n]
  BY <1>3
<1>y. y = IF left > 1 THEN Taken(from, 8 * h, left - 1) ELSE <<>>
  BY <1>1 DEF Rest, left, h
<1>d. Replies((x \o y) \o z, from, n) =
        LET back == (x \o y) \o z
        IN /\ back \in Seq(Octet)
           /\ \A j \in 1 .. h : back[j] = Whole(from, 0, j)
           /\ IF Remaining(n)
              THEN /\ Len(back) = (h + 1) + 1 /\ back[(h + 1) + 1][1] = from[n]
                   /\ \A k \in 1 .. left - 1 :
                        back[h + 1][8 - left + k] = from[8 * h + k]
              ELSE Len(back) = h + 1 /\ back[h + 1][1] = from[n]
  BY <1>1, Zenon DEF Replies, h, left
<1> HIDE DEF x, y
<1> DEFINE xy == x \o y
           back == xy \o z
<1>5. CASE left > 1
  <2>0. left - 1 \in 1 .. 7 /\ 8 * h + (left - 1) <= n /\ 8 * h \in Nat
    BY <1>1, <1>5
  <2>1. /\ y \in Seq(Octet) /\ Len(y) = 1
        /\ \A k \in 1 .. left - 1 : y[1][8 - left + k] = from[8 * h + k]
    <3> DEFINE v == left - 1
               m == 8 * h
    <3>1. v \in 1 .. 7 /\ m \in Nat /\ m + v <= n
      BY <2>0
    <3>2. \A k \in 1 .. v : 7 - v + k = 8 - left + k
      BY <1>1
    <3>3. y = Taken(from, m, v)
      BY <1>5, <1>y
    <3> HIDE DEF v, m
    <3>4. y \in Seq(Octet) /\ Len(y) = 1 /\ \A k \in 1 .. v : y[1][7 - v + k] = from[m + k]
      <4>1. /\ Taken(from, m, v) \in Seq(Octet) /\ Len(Taken(from, m, v)) = 1
            /\ \A k \in 1 .. v : Taken(from, m, v)[1][7 - v + k] = from[m + k]
        BY <3>1, TakenTyped
      <4> QED BY <3>3, <4>1
    <3>5. \A k \in 1 .. v : y[1][8 - left + k] = from[m + k]
      <4> SUFFICES ASSUME NEW k \in 1 .. v PROVE y[1][8 - left + k] = from[m + k]
        OBVIOUS
      <4>1. 7 - v + k = 8 - left + k /\ y[1][7 - v + k] = from[m + k]
        BY <3>2, <3>4
      <4> QED BY <4>1, Zenon
    <3> QED BY <3>4, <3>5 DEF v, m
  <2>2. /\ xy \in Seq(Octet) /\ Len(xy) = h + 1 /\ xy[h + 1] = y[1]
        /\ \A j \in 1 .. h : xy[j] = x[j]
    BY <1>2, <2>1, OneBehind
  <2> HIDE DEF xy
  <2>3. /\ back \in Seq(Octet) /\ Len(back) = (h + 1) + 1 /\ back[(h + 1) + 1] = z[1]
        /\ \A j \in 1 .. h + 1 : back[j] = xy[j]
    BY <1>4, <2>2, OneBehind
  <2> HIDE DEF back
  <2>4. back[h + 1] = y[1] /\ \A j \in 1 .. h : back[j] = Whole(from, 0, j)
    BY <1>1, <1>2, <2>2, <2>3
  <2>5. Remaining(n)
    BY <1>1, <1>5
  <2>6. \A k \in 1 .. left - 1 : back[h + 1][8 - left + k] = from[8 * h + k]
    BY <2>1, <2>4
  <2> QED BY <1>d, <1>4, <2>3, <2>4, <2>5, <2>6, Zenon DEF back, xy, x, y, h
<1>6. CASE ~(left > 1)
  <2>1. y = <<>>
    BY <1>6, <1>y
  <2>2. xy = x
    BY <1>2, <2>1
  <2> HIDE DEF xy
  <2>3. /\ back \in Seq(Octet) /\ Len(back) = h + 1 /\ back[h + 1] = z[1]
        /\ \A j \in 1 .. h : back[j] = x[j]
    BY <1>2, <1>4, <2>2, OneBehind
  <2> HIDE DEF back
  <2>4. \A j \in 1 .. h : back[j] = Whole(from, 0, j)
    BY <1>2, <2>3
  <2>5. ~Remaining(n)
    BY <1>1, <1>6
  <2> QED BY <1>d, <1>4, <2>3, <2>4, <2>5, Zenon DEF back, xy, x, y, h
<1> QED BY <1>5, <1>6

\* The remaining bits, if there are any.
RestBits(bytes, n, read) ==
  IF Remaining(n) THEN << ClockBits(bytes[Len(bytes)], BitsLeft(n) - 1, read) >> ELSE <<>>
LEMMA RestGo ==
  ASSUME NEW b \in Board, NEW s, Fresh(s), NEW st, NEW i, NEW l, NEW n \in Nat \ {0},
         NEW from, NEW in \in [1 .. n -> Bit], NEW m \in Nat, m = 8 * (NumBytes(n) - 1),
         Amid(b, s, st, i, l, n, from, in, m), NEW read \in BOOLEAN
  PROVE  \E t : /\ Goes(RestBits(binstr2bytes(in), n, read), s, t, Asked(read, Rest(from, n)))
                /\ Amid(b, t, st, i, l, n, from, in, n - 1)
<1> DEFINE bytes == binstr2bytes(in)
           q == RestBits(bytes, n, read)
           byte == bytes[Len(bytes)]
           w == BitsLeft(n) - 1
           e == n - 1
<1>1. CASE Remaining(n)
  <2>1. BitFeed(byte, w, in, 8 * (NumBytes(n) - 1), n - 1, n)
    BY <1>1, StringFills
  <2>2. BitFeed(byte, w, in, m, e, n)
    BY <2>1
  <2>3. q = One(ClockBits(byte, w, read)) /\ Rest(from, n) = Taken(from, m, w)
    BY <1>1 DEF RestBits, One, Rest
  <2> HIDE DEF byte, w, e, q, bytes
  <2>4. \E t : /\ Goes(One(ClockBits(byte, w, read)), s, t, Asked(read, Taken(from, m, w)))
               /\ Amid(b, t, st, i, l, n, from, in, e)
    BY <2>2, BitsGo
  <2> QED BY <2>3, <2>4, Zenon DEF q, bytes, e
<1>2. CASE ~Remaining(n)
  <2>1. q = <<>> /\ Asked(read, Rest(from, n)) = <<>>
    BY <1>2 DEF RestBits, Rest, Asked
  <2>2. m = n - 1
    <3>1. BitsLeft(n) \in 1 .. 8 /\ n = m + BitsLeft(n) /\ ~(BitsLeft(n) > 1)
      BY <1>2, BytesOfLength
    <3> QED BY <3>1
  <2>3. Goes(<<>>, s, s, <<>>)
    BY GoesNothing
  <2> HIDE DEF q
  <2> QED BY <2>1, <2>2, <2>3, Zenon DEF q
<1> QED BY <1>1, <1>2

\* A data scan: the register gets the string, and the cells come back.
Reads(read, back, from, n) == IF read THEN Replies(back, from, n) ELSE back = <<>>
LEMMA ScanGo ==
  ASSUME NEW b \in Board, NEW s, Fresh(s), NEW i, i # IDCODE, NEW sr, NEW l, Stands(b, s, "RTI", i, sr, l),
         NEW n \in Nat \ {0}, NEW from \in [1 .. n -> Bit], from = b.cells,
         NEW in \in [1 .. n -> Bit], NEW read \in BOOLEAN
  PROVE  \E t, back : /\ Goes(OpenJTAG_ShiftDRState(in, read), s, t, back)
                      /\ Reads(read, back, from, n) /\ Stands(b, t, "RTI", i, in, in)
<1> DEFINE bytes == binstr2bytes(in)
           h == NumBytes(n) - 1
           m == 8 * h
           p == One(Tms(TAP_MOVE("RTI", "SD"), 7, FALSE))
           q == CompleteBytes(bytes, read)
           c == RestBits(bytes, n, read)
           byte == WithTdi(TAP_MOVE("SD", "RTI"), LastBit(bytes, n))
           d == One(Tms(byte, 7, read))
           x == Asked(read, Wholes(from, 0, h))
           y == Asked(read, Rest(from, n))
<1>1. Fills(bytes, in, n) /\ Len(bytes) = NumBytes(n) /\ LastBit(bytes, n) = in[n] /\ Len(in) = n
  BY StringFills
<1>2. h \in Nat /\ h = Len(bytes) - 1 /\ m = 8 * h /\ m \in Nat /\ m = 8 * (NumBytes(n) - 1)
  <2>1. NumBytes(n) \in Nat \ {0}
    BY BytesOfLength
  <2> QED BY <1>1, <2>1
<1>3. OpenJTAG_ShiftDRState(in, read) = ((p \o q) \o c) \o d
  BY <1>1, Zenon DEF OpenJTAG_ShiftDRState, RestBits, One
<1>4. Turns(byte, in, n)
  BY <1>1, Table DEF Turns
<1> HIDE DEF bytes, h, m, p, q, c, byte, d, x, y
<1>5. PICK u : Goes(p, s, u, <<>>) /\ Stands(b, u, "SD", i, from, l)
  <2>1. (IF i = IDCODE THEN b.id ELSE b.cells) = from
    OBVIOUS
  <2>2. \E t : /\ Goes(One(Tms(TAP_MOVE("RTI", "SD"), 7, FALSE)), s, t, <<>>)
               /\ Stands(b, t, "SD", i, IF i = IDCODE THEN b.id ELSE b.cells, l)
    BY ToData
  <2> QED BY <2>1, <2>2, Zenon DEF p
<1>6. Fresh(u) /\ Amid(b, u, "SD", i, l, n, from, in, 0)
  <2>1. Fresh(u) /\ "SD" \in Shifting
    BY <1>5, GoesFresh DEF Shifting
  <2> QED BY <1>5, <2>1, Begun
<1>7. PICK v : Goes(q, u, v, x) /\ Amid(b, v, "SD", i, l, n, from, in, m)
  <2>1. Onward(read, CompleteBytes(bytes, read), b, "SD", i, l, n, from, in, 0, h, m)
    BY <1>1, <1>2, CompleteOnward
  <2> QED BY <1>6, <2>1 DEF Onward, q, x
<1>8. Fresh(v)
  BY <1>6, <1>7, GoesFresh
<1>9. PICK w : Goes(c, v, w, y) /\ Amid(b, w, "SD", i, l, n, from, in, n - 1)
  <2>1. \E t : /\ Goes(RestBits(binstr2bytes(in), n, read), v, t, Asked(read, Rest(from, n)))
               /\ Amid(b, t, "SD", i, l, n, from, in, n - 1)
    BY <1>2, <1>7, <1>8, RestGo
  <2> QED BY <2>1, Zenon DEF c, y, bytes
<1>10. Fresh(w)
  BY <1>8, <1>9, GoesFresh
<1>11. PICK t, z : /\ Goes(d, w, t, z) /\ Answer(read, from, n, z)
                   /\ Stands(b, t, "RTI", Updates("SD", i, in), in, Latches("SD", i, in, l))
  <2> DEFINE e == n - 1
  <2>1. Nearly(e, n) /\ Amid(b, w, "SD", i, l, n, from, in, e)
    BY <1>9 DEF Nearly
  <2> HIDE DEF e
  <2>2. \E t, z : /\ Goes(One(Tms(byte, 7, read)), w, t, z) /\ Answer(read, from, n, z)
                  /\ Stands(b, t, "RTI", Updates("SD", i, in), in, Latches("SD", i, in, l))
    BY <1>4, <1>10, <2>1, LastGo
  <2> QED BY <2>2, Zenon DEF d
<1>12. Stands(b, t, "RTI", i, in, in)
  BY <1>11 DEF Updates, Latches
<1>13. Goes(p \o q, s, v, x)
  BY <1>5, <1>7, GoesOn
<1>14. Goes((p \o q) \o c, s, w, x \o y)
  BY <1>9, <1>13, GoesBoth
<1>15. Goes(((p \o q) \o c) \o d, s, t, (x \o y) \o z)
  BY <1>11, <1>14, GoesBoth
<1>16. Reads(read, (x \o y) \o z, from, n)
  <2>1. CASE read
    <3>1. Answer(TRUE, from, n, z)
      BY <1>11, <2>1
    <3>2. x = Wholes(from, 0, NumBytes(n) - 1) /\ y = Rest(from, n)
      BY <2>1 DEF x, y, Asked, h
    <3>3. Replies((Wholes(from, 0, NumBytes(n) - 1) \o Rest(from, n)) \o z, from, n)
      BY <3>1, RepliesJoin
    <3> QED BY <2>1, <3>2, <3>3, Zenon DEF Reads
  <2>2. CASE ~read
    <3>1. x = <<>> /\ y = <<>> /\ z = <<>>
      BY <1>11, <2>2 DEF x, y, Asked, Answer
    <3>2. (<<>> \o <<>>) \o <<>> = <<>>
      OBVIOUS
    <3> QED BY <2>2, <3>1, <3>2 DEF Reads
  <2> QED BY <2>1, <2>2
<1> QED BY <1>3, <1>12, <1>15, <1>16

-----------------------------------------------------------------------------
(* Reading the id *)

LEMMA InARow ==
  ASSUME NEW S, NEW a \in S, NEW b \in S, NEW c \in S, NEW d \in S, NEW e \in S
  PROVE  /\ << a >> \o << b >> = << a, b >>
         /\ << a, b >> \o << c >> = << a, b, c >>
         /\ << a, b, c >> \o << d >> = << a, b, c, d >>
         /\ << a, b, c, d >> \o << e >> = << a, b, c, d, e >>
<1>1. << a >> \o << b >> = << a, b >>
  <2> DEFINE v == << a >> \o << b >>
  <2>1. Len(v) = 2 /\ v[1] = a /\ v[2] = b /\ v \in Seq(S)
    OBVIOUS
  <2> HIDE DEF v
  <2>2. v = << a, b >>
    BY <2>1
  <2> QED BY <2>2 DEF v
<1>2. << a, b >> \o << c >> = << a, b, c >>
  <2> DEFINE v == << a, b >> \o << c >>
  <2>1. Len(v) = 3 /\ v[1] = a /\ v[2] = b /\ v[3] = c /\ v \in Seq(S)
    OBVIOUS
  <2> HIDE DEF v
  <2>2. v = << a, b, c >>
    BY <2>1
  <2> QED BY <2>2 DEF v
<1>3. << a, b, c >> \o << d >> = << a, b, c, d >>
  <2> DEFINE v == << a, b, c >> \o << d >>
  <2>1. Len(v) = 4 /\ v[1] = a /\ v[2] = b /\ v[3] = c /\ v[4] = d /\ v \in Seq(S)
    OBVIOUS
  <2> HIDE DEF v
  <2>2. v = << a, b, c, d >>
    BY <2>1
  <2> QED BY <2>2 DEF v
<1>4. << a, b, c, d >> \o << e >> = << a, b, c, d, e >>
  <2> DEFINE v == << a, b, c, d >> \o << e >>
  <2>1. Len(v) = 5 /\ v[1] = a /\ v[2] = b /\ v[3] = c /\ v[4] = d /\ v[5] = e /\ v \in Seq(S)
    OBVIOUS
  <2> HIDE DEF v
  <2>2. v = << a, b, c, d, e >>
    BY <2>1
  <2> QED BY <2>2 DEF v
<1> QED BY <1>1, <1>2, <1>3, <1>4

\* From reset to Shift-IR.
LEMMA ToId ==
  ASSUME NEW b \in Board, NEW s, Fresh(s), NEW i, NEW sr, NEW l, Stands(b, s, "TLR", i, sr, l)
  PROVE  \E t : /\ Goes(One(Tms(TAP_MOVE("TLR", "SI"), 7, FALSE)), s, t, <<>>)
                /\ Stands(b, t, "SI", IDCODE, <<1, 0, 0, 0>>, l)
<1> DEFINE x == Bits(27)
<1>1. x \in Octet /\ TAP_MOVE("TLR", "SI") = x /\ LowBits(x, 7) = <<1, 1, 0, 1, 1, 0, 0>>
  BY BitsTyped, Table, MovesLow
<1> HIDE DEF x
<1>2. Live(b, s) /\ 7 \in 1 .. 7
  BY StandsLive
<1>3. PICK f, t : Goes(One(Tms(x, 7, FALSE)), s, t, <<>>) /\ Way(b, s, t, f, 7, x)
  BY <1>1, <1>2, TmsGo
<1>4. At(b, f[0], "TLR", i, sr, l)
  BY <1>3, WayBegins
<1>5. At(b, f[7], "SI", IDCODE, <<1, 0, 0, 0>>, l)
  BY <1>1, <1>3, <1>4, IdBySeven DEF Way
<1> QED BY <1>1, <1>3, <1>5, Zenon DEF Way, Stands

\* The last bit of the instruction, and on to Shift-DR.
LEMMA ToIdData ==
  ASSUME NEW b \in Board, NEW s, Fresh(s), NEW i, NEW l, NEW from,
         Amid(b, s, "SI", i, l, 4, from, IDCODE, 3)
  PROVE  \E t : /\ Goes(One(Tms(WithTdi(Bits(7), 1), 5, FALSE)), s, t, <<>>)
                /\ Stands(b, t, "SD", IDCODE, b.id, l)
<1> DEFINE byte == WithTdi(Bits(7), 1)
           x == Bits(7)
<1>1. x \in Octet /\ byte \in Octet
  <2>1. x \in Octet /\ 1 \in Bit
    BY BitsTyped DEF Bit
  <2> QED BY <2>1, WithTdiTyped
<1>2. byte[7] = 1 /\ \A k \in 0 .. 6 : byte[k] = x[k]
  <2>1. DOMAIN x = 0 .. 7 /\ byte = [x EXCEPT ![7] = 1]
    BY <1>1 DEF Octet, WithTdi
  <2> HIDE DEF x, byte
  <2> QED BY <2>1
<1>3. x[0] = 1 /\ x[1] = 1 /\ x[2] = 1 /\ x[3] = 0 /\ x[4] = 0
  BY MovesInBits DEF Seven
<1> HIDE DEF x, byte
<1>4. byte[0] = 1 /\ byte[1] = 1 /\ byte[2] = 1 /\ byte[3] = 0 /\ byte[4] = 0
  BY <1>2, <1>3
<1>5. LowBits(byte, 5) = <<1, 1, 1, 0, 0>>
  <2>1. \A k \in 1 .. 5 : k \in {1, 2, 3, 4, 5}
    OBVIOUS
  <2>2. \A k \in 1 .. 5 : byte[k - 1] = <<1, 1, 1, 0, 0>>[k]
    BY <1>4, <2>1
  <2>3. LowBits(byte, 5) \in [1 .. 5 -> {0, 1}]
    BY <1>4, <2>1 DEF LowBits
  <2> QED BY <2>2, <2>3 DEF LowBits
<1>6. PICK f, t :
        /\ Along(b, One(Tms(byte, 5, FALSE)), s, t, f, 5, LowBits(byte, 5), TopBit(byte, 5))
        /\ At(b, f[1], Leaves("SI"), i, IDCODE, l)
        /\ Ended(s, t, FALSE, 5, from[4])
  <2>1. 5 \in 1 .. 7 /\ Nearly(3, 4) /\ Leads(byte, IDCODE[4])
    BY <1>1, <1>2, <1>4 DEF Nearly, Leads, IDCODE
  <2> QED BY <2>1, LastPath
<1>7. Path(b, f, <<1, 1, 1, 0, 0>>, TopBit(byte, 5)) /\ At(b, f[1], "E1I", i, IDCODE, l)
  BY <1>5, <1>6 DEF Along, Leaves
<1>8. At(b, f[5], "SD", IDCODE, b.id, l)
  BY <1>7, IdDataByFive
<1>9. Stands(b, t, "SD", IDCODE, b.id, l)
  BY <1>6, <1>8, Zenon DEF Along, Stands
<1> DEFINE r == s.rx
<1>10. r \in Seq(Octet) /\ t.rx = r
  BY <1>6 DEF Fresh, Ended
<1> HIDE DEF r
<1>11. r = r \o <<>> /\ <<>> \in Seq(Octet)
  BY <1>10
<1>12. One(Tms(byte, 5, FALSE)) \in Seq(Command)
  <2> DEFINE c == Tms(byte, 5, FALSE)
  <2>1. c \in Command
    <3>1. 5 \in Nat
      OBVIOUS
    <3> QED BY <1>1, <3>1, TmsTyped
  <2> HIDE DEF c
  <2>2. << c >> \in Seq(Command)
    BY <2>1
  <2> QED BY <2>2, Zenon DEF One, c
<1>13. Goes(One(Tms(byte, 5, FALSE)), s, t, <<>>)
  <2>1. t.rx = s.rx \o <<>>
    BY <1>10, <1>11, Zenon DEF r
  <2> QED BY <1>6, <1>11, <1>12, <2>1 DEF Goes, Along
<1> QED BY <1>9, <1>13 DEF byte, x

\* The id as it comes back.
LEMMA IdRead ==
  ASSUME NEW id \in [1 .. 32 -> Bit]
  PROVE  /\ Wholes(id, 0, 4) \in Seq(Octet) /\ Len(Wholes(id, 0, 4)) = 4
         /\ bytes2binstr(Wholes(id, 0, 4), 32) = id
<1>1. Wholes(id, 0, 4) \in Seq(Octet) /\ Len(Wholes(id, 0, 4)) = 4
  <2>1. 32 \in Nat /\ 0 \in Nat /\ 4 \in Nat /\ 0 + 8 * 4 <= 32
    OBVIOUS
  <2> QED BY <2>1, WholesTyped
<1>2. ASSUME NEW k \in 1 .. 32 PROVE Wholes(id, 0, 4)[(k - 1) \div 8 + 1][(k - 1) % 8] = id[k]
  <2> DEFINE j == (k - 1) \div 8 + 1
             p == (k - 1) % 8
  <2>1. j \in 1 .. 4 /\ p \in 0 .. 7 /\ 0 + 8 * (j - 1) + p + 1 = k
    OBVIOUS
  <2> HIDE DEF j, p
  <2>2. Wholes(id, 0, 4)[j] = Whole(id, 0, j)
    BY <2>1 DEF Wholes
  <2>3. Whole(id, 0, j)[p] = id[k]
    BY <2>1 DEF Whole
  <2> QED BY <2>2, <2>3 DEF j, p
<1>3. bytes2binstr(Wholes(id, 0, 4), 32) = [k \in 1 .. 32 |-> id[k]]
  BY <1>2 DEF bytes2binstr
<1> QED BY <1>1, <1>3

Everything == [k \in 1 .. 32 |-> 1]
LEMMA IdBytesFeed == ByteFeed(IdBytes, Everything, 0, 32, 32) /\ Len(IdBytes) = 4 /\ Everything \in [1 .. 32 -> Bit]
<1>1. \A k \in 0 .. 7 : Bits(255)[k] = 1
  <2> SUFFICES ASSUME NEW k \in 0 .. 7 PROVE Bits(255)[k] = 1
    OBVIOUS
  <2>1. /\ Bits(255)[0] = 1 /\ Bits(255)[1] = 1 /\ Bits(255)[2] = 1 /\ Bits(255)[3] = 1
        /\ Bits(255)[4] = 1 /\ Bits(255)[5] = 1 /\ Bits(255)[6] = 1 /\ Bits(255)[7] = 1
    BY BitsOf
  <2>2. k \in {0, 1, 2, 3, 4, 5, 6, 7}
    OBVIOUS
  <2> QED BY <2>1, <2>2
<1> DEFINE x == Bits(255)
<1>2. x \in Octet /\ \A k \in 0 .. 7 : x[k] = 1
  BY <1>1, BitsTyped
<1> HIDE DEF x
<1>3. IdBytes = [j \in 1 .. 4 |-> x]
  BY DEF IdBytes, x
<1>4. IdBytes \in Seq(Octet) /\ Len(IdBytes) = 4
  BY <1>2, <1>3
<1>5. ASSUME NEW j \in 1 .. 4 PROVE x = Whole(Everything, 0, j)
  <2>1. \A k \in 0 .. 7 : 0 + 8 * (j - 1) + k + 1 \in 1 .. 32
    OBVIOUS
  <2>2. Whole(Everything, 0, j) = [k \in 0 .. 7 |-> 1]
    BY <2>1 DEF Whole, Everything
  <2>3. x = [k \in 0 .. 7 |-> 1]
    BY <1>2 DEF Octet
  <2> QED BY <2>2, <2>3
<1>6. Everything \in [1 .. 32 -> Bit]
  BY DEF Everything, Bit
<1>7. ByteFeed(IdBytes, Everything, 0, 32, 32)
  <2>1. \A j \in 1 .. Len(IdBytes) : IdBytes[j] = Whole(Everything, 0, j)
    BY <1>3, <1>4, <1>5
  <2>2. 32 = 0 + 8 * Len(IdBytes) /\ 32 <= 32
    BY <1>4
  <2> QED BY <1>4, <2>1, <2>2 DEF ByteFeed
<1> QED BY <1>4, <1>6, <1>7

LEMMA InstructionFeed == BitFeed(Bits(6), 3, IDCODE, 0, 3, 4)
<1>1. Bits(6)[0] = 0 /\ Bits(6)[1] = 1 /\ Bits(6)[2] = 1
  BY BitsOf
<1>2. Bits(6) \in Octet
  BY BitsTyped
<1>3. \A k \in 1 .. 3 : Bits(6)[k - 1] = IDCODE[0 + k]
  <2>1. \A k \in 1 .. 3 : k \in {1, 2, 3}
    OBVIOUS
  <2> QED BY <1>1, <2>1 DEF IDCODE
<1> QED BY <1>2, <1>3 DEF BitFeed

LEMMA AmidLive ==
  ASSUME NEW b, NEW s, NEW st, NEW i, NEW l, NEW n, NEW from, NEW in, NEW m,
         Amid(b, s, st, i, l, n, from, in, m)
  PROVE  Live(b, s)
BY DEF Amid, Mid, At, Live

LEMMA IdGo ==
  ASSUME NEW b \in Board, b.id \in [1 .. 32 -> Bit], NEW s, Fresh(s), Live(b, s)
  PROVE  \E t, sr, l : /\ Goes(ft2232_readID, s, t, Wholes(b.id, 0, 4))
                       /\ Stands(b, t, "TLR", IDCODE, sr, l)
<1> DEFINE p1 == Tms(TAP_MOVE("TLR", "SI"), 7, FALSE)
           p2 == ClockBits(Bits(6), 3, FALSE)
           p3 == Tms(WithTdi(Bits(7), 1), 5, FALSE)
           p4 == ClockBytes(IdBytes, TRUE)
           p5 == Tms(Bits(127), 7, FALSE)
           id == b.id
           back == Wholes(id, 0, 4)
           from == <<1, 0, 0, 0>>
<1>1. ft2232_readID = OpenJTAG_Reset \o << p1, p2, p3, p4, p5 >>
  BY DEF ft2232_readID
<1>2. << p1, p2, p3, p4, p5 >> = (((One(p1) \o One(p2)) \o One(p3)) \o One(p4)) \o One(p5)
  <2> HIDE DEF p1, p2, p3, p4, p5
  <2> DEFINE S == {p1, p2, p3, p4, p5}
  <2>1. p1 \in S /\ p2 \in S /\ p3 \in S /\ p4 \in S /\ p5 \in S
    OBVIOUS
  <2> HIDE DEF S
  <2>2. /\ << p1 >> \o << p2 >> = << p1, p2 >>
        /\ << p1, p2 >> \o << p3 >> = << p1, p2, p3 >>
        /\ << p1, p2, p3 >> \o << p4 >> = << p1, p2, p3, p4 >>
        /\ << p1, p2, p3, p4 >> \o << p5 >> = << p1, p2, p3, p4, p5 >>
    BY <2>1, InARow
  <2> QED BY <2>2, Zenon DEF One
<1>3. OpenJTAG_Reset = One(p5)
  BY ResetGo
<1>i. id \in [1 .. 32 -> Bit] /\ back \in Seq(Octet)
  BY IdRead
<1>4. PICK a, sr0, l : Goes(OpenJTAG_Reset, s, a, <<>>) /\ Stands(b, a, "TLR", IDCODE, sr0, l)
  BY ResetGo
<1>5. Fresh(a)
  BY <1>4, GoesFresh
<1>6. PICK c : Goes(One(p1), a, c, <<>>) /\ Stands(b, c, "SI", IDCODE, from, l)
  BY <1>4, <1>5, ToId
<1> HIDE DEF p1, from
<1>7. Fresh(c) /\ Amid(b, c, "SI", IDCODE, l, 4, from, IDCODE, 0)
  <2>1. Fresh(c) /\ 4 \in Nat \ {0} /\ "SI" \in Shifting /\ from \in [1 .. 4 -> Bit] /\ IDCODE \in [1 .. 4 -> Bit]
    BY <1>5, <1>6, GoesFresh DEF Shifting, from, IDCODE, Bit
  <2> QED BY <1>6, <2>1, Begun
<1>8. PICK d : Goes(One(p2), c, d, <<>>) /\ Amid(b, d, "SI", IDCODE, l, 4, from, IDCODE, 3)
  <2>1. 0 \in Nat /\ FALSE \in BOOLEAN
    OBVIOUS
  <2>2. BitFeed(Bits(6), 3, IDCODE, 0, 3, 4)
    BY InstructionFeed
  <2>3. \E t : /\ Goes(One(ClockBits(Bits(6), 3, FALSE)), c, t, Asked(FALSE, Taken(from, 0, 3)))
               /\ Amid(b, t, "SI", IDCODE, l, 4, from, IDCODE, 3)
    BY <1>7, <2>1, <2>2, BitsGo
  <2> QED BY <2>3, Zenon DEF Asked, p2
<1>9. Fresh(d)
  BY <1>7, <1>8, GoesFresh
<1>10. PICK e : Goes(One(p3), d, e, <<>>) /\ Stands(b, e, "SD", IDCODE, id, l)
  BY <1>8, <1>9, ToIdData
<1> HIDE DEF p2, p3
<1>11. Fresh(e) /\ Amid(b, e, "SD", IDCODE, l, 32, id, Everything, 0)
  <2>1. Fresh(e) /\ 32 \in Nat \ {0} /\ "SD" \in Shifting
    BY <1>9, <1>10, GoesFresh DEF Shifting
  <2>2. Everything \in [1 .. 32 -> Bit]
    BY IdBytesFeed
  <2> HIDE DEF id
  <2> QED BY <1>i, <1>10, <2>1, <2>2, Begun
<1>12. PICK g : Goes(One(p4), e, g, back) /\ Amid(b, g, "SD", IDCODE, l, 32, id, Everything, 32)
  <2>1. 0 \in Nat /\ TRUE \in BOOLEAN /\ ByteFeed(IdBytes, Everything, 0, 32, 32) /\ Len(IdBytes) = 4
    BY IdBytesFeed
  <2> HIDE DEF id
  <2>2. \E t : /\ Goes(One(ClockBytes(IdBytes, TRUE)), e, t, Asked(TRUE, Wholes(id, 0, Len(IdBytes))))
               /\ Amid(b, t, "SD", IDCODE, l, 32, id, Everything, 32)
    BY <1>11, <2>1, BytesGo
  <2>3. Asked(TRUE, Wholes(id, 0, Len(IdBytes))) = back
    BY <2>1 DEF Asked
  <2> QED BY <2>2, <2>3, Zenon DEF p4
<1>13. Fresh(g) /\ Live(b, g)
  BY <1>11, <1>12, GoesFresh, AmidLive
<1>14. PICK t, sr, l2 : Goes(One(p5), g, t, <<>>) /\ Stands(b, t, "TLR", IDCODE, sr, l2)
  BY <1>3, <1>13, ResetGo
<1> HIDE DEF p4, p5, back, id
<1>15. Goes(One(p1) \o One(p2), a, d, <<>>)
  BY <1>5, <1>6, <1>8, GoesOn
<1>16. Goes((One(p1) \o One(p2)) \o One(p3), a, e, <<>>)
  BY <1>5, <1>10, <1>15, GoesOn
<1>17. Goes(((One(p1) \o One(p2)) \o One(p3)) \o One(p4), a, g, back)
  BY <1>5, <1>12, <1>16, GoesOn
<1>18. Goes((((One(p1) \o One(p2)) \o One(p3)) \o One(p4)) \o One(p5), a, t, back \o <<>>)
  BY <1>5, <1>14, <1>17, GoesBoth
<1>19. back \o <<>> = back
  BY <1>i
<1>20. Goes(ft2232_readID, s, t, back)
  <2>1. Goes(<< p1, p2, p3, p4, p5 >>, a, t, back)
    BY <1>2, <1>18, <1>19
  <2>2. Goes(OpenJTAG_Reset \o << p1, p2, p3, p4, p5 >>, s, t, back)
    BY <1>4, <2>1, GoesOn
  <2> QED BY <1>1, <2>2
<1> QED BY <1>14, <1>20 DEF back, id
==============================================================================
