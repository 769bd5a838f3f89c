------------------------------ MODULE FrameProofs ------------------------------
(***************************************************************************)
(* A scan latches its string and reads the cells, over each of the three   *)
(* cables: what the accesses of the parallel-port cables do to a device,   *)
(* how opening the FT2232 leaves it, and where a job is at every step.     *)
(*                                                                         *)
(* The invariant says of every state what is left of the buffer leads to:  *)
(* run to its end from here, it puts the device, the bytes that came back  *)
(* and the string read where the job is to be before its next operation.   *)
(***************************************************************************)
EXTENDS MpsseProofs

-----------------------------------------------------------------------------
(* The parallel-port cables *)

Ppt == {"dongle", "wiggler"}
Accesses == {SET(tdi, tms, tck) : tdi \in Bit, tms \in Bit, tck \in Bit} \cup {GET_TDO}

LEMMA Levels ==
  ASSUME NEW name \in Ppt, NEW tdi \in Bit, NEW tms \in Bit, NEW tck \in Bit
  PROVE  LET pins == Pins(name)
             byte == Byte(pins, SET(tdi, tms, tck))
         IN Level(byte, pins.TCK) = tck /\ Level(byte, pins.TMS) = tms /\ Level(byte, pins.TDI) = tdi
<1>1. CASE name = "dongle"
  <2>1. Pins(name) = [TCK |-> 1, TDI |-> 2, TMS |-> 4]
    BY <1>1 DEF Pins, Dongle
  <2>2. Byte(Pins(name), SET(tdi, tms, tck)) = tdi * 2 + tms * 4 + tck * 1
    BY <2>1 DEF Byte, SET
  <2>3. \A x, y, z \in {0, 1} : /\ ((x * 2 + y * 4 + z * 1) \div 1) % 2 = z
                                /\ ((x * 2 + y * 4 + z * 1) \div 2) % 2 = x
                                /\ ((x * 2 + y * 4 + z * 1) \div 4) % 2 = y
    OBVIOUS
  <2> QED BY <2>1, <2>2, <2>3 DEF Level, Bit
<1>2. CASE name = "wiggler"
  <2>1. Pins(name) = [TMS |-> 2, TCK |-> 4, TDI |-> 8]
    BY <1>2 DEF Pins, Wiggler
  <2>2. Byte(Pins(name), SET(tdi, tms, tck)) = tdi * 8 + tms * 2 + tck * 4
    BY <2>1 DEF Byte, SET
  <2>3. \A x, y, z \in {0, 1} : /\ ((x * 8 + y * 2 + z * 4) \div 4) % 2 = z
                                /\ ((x * 8 + y * 2 + z * 4) \div 8) % 2 = x
                                /\ ((x * 8 + y * 2 + z * 4) \div 2) % 2 = y
    OBVIOUS
  <2> QED BY <2>1, <2>2, <2>3 DEF Level, Bit
<1> QED BY <1>1, <1>2 DEF Ppt

\* From s to t by the accesses q; outs is what is read.
Dry(s) == s.rd \in Seq(Bit)
Carries(name, q, s, t, outs) ==
  /\ q \in Seq(Accesses) /\ outs \in Seq(Bit)
  /\ Runs(name, q, s, t) /\ t.rx = s.rx /\ t.rd = s.rd \o outs

LEMMA BitsAssociate ==
  ASSUME NEW x \in Seq(Bit), NEW y \in Seq(Bit), NEW z \in Seq(Bit)
  PROVE  (x \o y) \o z = x \o (y \o z)
BY Associate

LEMMA CarriesBoth ==
  ASSUME NEW name, NEW p, NEW q, NEW s, NEW t, NEW u, NEW x, NEW y, Dry(s),
         Carries(name, p, s, t, x), Carries(name, q, t, u, y)
  PROVE  Carries(name, p \o q, s, u, x \o y) /\ Dry(u) /\ Dry(t)
<1>1. /\ p \in Seq(Accesses) /\ x \in Seq(Bit)
      /\ Runs(name, p, s, t) /\ t.rx = s.rx /\ t.rd = s.rd \o x
  BY DEF Carries
<1>2. /\ q \in Seq(Accesses) /\ y \in Seq(Bit)
      /\ Runs(name, q, t, u) /\ u.rx = t.rx /\ u.rd = t.rd \o y
  BY DEF Carries
<1>3. p \o q \in Seq(Accesses) /\ Runs(name, p \o q, s, u)
  BY <1>1, <1>2, RunsBoth
<1>4. x \o y \in Seq(Bit) /\ t.rd \in Seq(Bit) /\ u.rd \in Seq(Bit)
  BY <1>1, <1>2, Joined DEF Dry
<1>5. u.rd = s.rd \o (x \o y)
  <2> DEFINE r == s.rd
  <2>1. r \in Seq(Bit)
    BY DEF Dry
  <2> HIDE DEF r
  <2>2. (r \o x) \o y = r \o (x \o y)
    BY <1>1, <1>2, <2>1, BitsAssociate
  <2>3. u.rd = (r \o x) \o y
    BY <1>1, <1>2, Zenon DEF r
  <2> QED BY <2>2, <2>3, Zenon DEF r
<1> QED BY <1>1, <1>2, <1>3, <1>4, <1>5 DEF Carries, Dry

\* One access after the other.
LEMMA SetDoes ==
  ASSUME NEW name \in Ppt, NEW s, NEW tdi \in Bit, NEW tms \in Bit, NEW tck \in Bit
  PROVE  LET a == SET(tdi, tms, tck)
             byte == Byte(Pins(name), a)
         IN Did(name, s, a) =
              [dev |-> IF tck = 1 /\ Level(s.byte, Pins(name).TCK) = 0
                       THEN Clock(Clear(s.dev), tms, tdi) ELSE Clear(s.dev),
               rx |-> s.rx, byte |-> byte, rd |-> s.rd]
<1> DEFINE a == SET(tdi, tms, tck)
           pins == Pins(name)
           byte == Byte(pins, a)
<1>1. name # "openjtag"
  BY DEF Ppt
<1>2. a.get = FALSE
  BY DEF SET
<1>3. Level(byte, pins.TCK) = tck /\ Level(byte, pins.TMS) = tms /\ Level(byte, pins.TDI) = tdi
  BY Levels
<1> HIDE DEF a, pins, byte
<1>4. Did(name, s, a) = [dev |-> OutputPpt(pins, s.byte, byte, Clear(s.dev)),
                         rx |-> s.rx, byte |-> byte, rd |-> s.rd]
  BY <1>1, <1>2, Zenon DEF Did, Accessed, Clear, byte, pins
<1>5. OutputPpt(pins, s.byte, byte, Clear(s.dev))
      = IF tck = 1 /\ Level(s.byte, pins.TCK) = 0 THEN Clock(Clear(s.dev), tms, tdi) ELSE Clear(s.dev)
  BY <1>3, Zenon DEF OutputPpt
<1> QED BY <1>4, <1>5, Zenon DEF a, pins, byte

\* What a pulse of TCK does.
Turned(b, s, t, tms, tdi) == Ticks(b, s.dev, tms, tdi, t.dev) /\ t.dev.tdo = << Out(s.dev) >>

LEMMA PulseDoes ==
  ASSUME NEW b \in Board, NEW name \in Ppt, NEW s, Live(b, s), NEW tdi \in Bit, NEW tms \in Bit
  PROVE  \E t : /\ Runs(name, Pulse(tdi, tms), s, t) /\ t.rx = s.rx /\ t.rd = s.rd
                /\ Turned(b, s, t, tms, tdi)
<1> DEFINE low == SET(tdi, tms, 0)
           high == SET(tdi, tms, 1)
           u == Did(name, s, low)
           t == Did(name, u, high)
           d == Clear(s.dev)
<1>0. 0 \in Bit /\ 1 \in Bit
  BY DEF Bit
<1>1. u = [dev |-> d, rx |-> s.rx, byte |-> Byte(Pins(name), low), rd |-> s.rd]
  <2>1. u = [dev |-> IF 0 = 1 /\ Level(s.byte, Pins(name).TCK) = 0 THEN Clock(d, tms, tdi) ELSE d,
             rx |-> s.rx, byte |-> Byte(Pins(name), low), rd |-> s.rd]
    BY <1>0, SetDoes
  <2>2. 0 # 1
    OBVIOUS
  <2> HIDE DEF u, d
  <2> QED BY <2>1, <2>2, Zenon
<1>2. Level(Byte(Pins(name), low), Pins(name).TCK) = 0
  BY <1>0, Levels
<1> HIDE DEF u
<1>3. u.dev = d /\ u.rx = s.rx /\ u.byte = Byte(Pins(name), low) /\ u.rd = s.rd
  BY <1>1
<1>4. Live(b, s) => On(b, s.dev)
  BY DEF Live
<1>5. On(b, d) /\ d.tdo = <<>>
  BY <1>4, ClearedAt
<1>6. Clear(d) = d
  <2>1. DOMAIN d = Registers
    BY <1>5 DEF On
  <2>2. \A x : DOMAIN x = Registers /\ x.tdo = <<>> /\ x = [z \in DOMAIN x |-> x[z]] => [x EXCEPT !.tdo = <<>>] = x
    BY DEF Registers
  <2>3. d = [z \in DOMAIN d |-> d[z]]
    BY DEF Clear
  <2> HIDE DEF d
  <2> QED BY <1>5, <2>1, <2>2, <2>3, Zenon DEF Clear
<1>7. t = [dev |-> Clock(d, tms, tdi), rx |-> s.rx, byte |-> Byte(Pins(name), high), rd |-> s.rd]
  <2>1. t = [dev |-> IF 1 = 1 /\ Level(u.byte, Pins(name).TCK) = 0
                     THEN Clock(Clear(u.dev), tms, tdi) ELSE Clear(u.dev),
             rx |-> u.rx, byte |-> Byte(Pins(name), high), rd |-> u.rd]
    BY <1>0, SetDoes
  <2>2. Level(u.byte, Pins(name).TCK) = 0
    BY <1>2, <1>3
  <2>3. Clear(u.dev) = d
    BY <1>3, <1>6
  <2> HIDE DEF t, d
  <2> QED BY <1>3, <2>1, <2>2, <2>3, Zenon
<1> HIDE DEF t
<1>8. t.dev = Clock(d, tms, tdi) /\ t.rx = s.rx /\ t.rd = s.rd
  BY <1>7
<1>9. /\ Ticks(b, d, tms, tdi, Clock(d, tms, tdi))
      /\ Clock(d, tms, tdi).tdo = Append(d.tdo, Out(d))
  <2> HIDE DEF d
  <2> QED BY <1>5, ClockTicks
<1>10. Out(d) = Out(s.dev) /\ Ticks(b, s.dev, tms, tdi, Clock(d, tms, tdi))
  <2>1. d.tap = s.dev.tap /\ d.sr = s.dev.sr /\ d.float = s.dev.float
    <3>1. DOMAIN s.dev = Registers
      BY <1>4 DEF On
    <3> DEFINE x == s.dev
    <3> HIDE DEF x
    <3>2. DOMAIN x = Registers
      BY <3>1, Zenon DEF x
    <3>3. [x EXCEPT !.tdo = <<>>].tap = x.tap /\ [x EXCEPT !.tdo = <<>>].sr = x.sr
          /\ [x EXCEPT !.tdo = <<>>].float = x.float
      BY <3>2 DEF Registers
    <3> QED BY <3>3, Zenon DEF x, Clear
  <2>2. Ticks(b, s.dev, tms, tdi, Clock(d, tms, tdi))
    BY <1>4, <1>9, Cleared DEF Clear
  <2> HIDE DEF d
  <2> QED BY <2>1, <2>2, Zenon DEF Out, Shifts
<1>11. t.dev.tdo = << Out(s.dev) >>
  <2> DEFINE x == Out(s.dev)
  <2> HIDE DEF x, d
  <2>1. t.dev.tdo = Append(<<>>, x)
    BY <1>5, <1>8, <1>9, <1>10, Zenon DEF x
  <2>2. Append(<<>>, x) = << x >>
    OBVIOUS
  <2> QED BY <2>1, <2>2, Zenon DEF x
<1>12. Runs(name, Pulse(tdi, tms), s, t)
  <2> HIDE DEF low, high
  <2>a. low \in {low, high} /\ high \in {low, high}
    OBVIOUS
  <2> DEFINE S == {low, high}
  <2> HIDE DEF S
  <2>b. << low >> \in Seq(S) /\ << high >> \in Seq(S)
    BY <2>a DEF S
  <2>1. Runs(name, << low >>, s, u) /\ Runs(name, << high >>, u, t)
    BY RunsOne DEF u, t
  <2>2. Runs(name, << low >> \o << high >>, s, t)
    BY <2>b, <2>1, RunsBoth
  <2>3. << low >> \o << high >> = << low, high >>
    BY <2>a, InARow
  <2> QED BY <2>2, <2>3, Zenon DEF Pulse, low, high
<1> QED BY <1>8, <1>10, <1>11, <1>12, Zenon DEF Turned

\* What FlattenSeq makes of sequences, one after the other.
Flattens(g, seqs, n) ==
  g[1] = seqs[1] /\ \A i \in 2 .. n : g[i] = g[i - 1] \o seqs[i]
LEMMA FlatPieces ==
  ASSUME NEW seqs, Len(seqs) \in Nat \ {0}
  PROVE  \E g : Flattens(g, seqs, Len(seqs)) /\ FlattenSeq(seqs) = g[Len(seqs)]
<1> DEFINE N == Len(seqs)
           Step(f, i) == IF i = 1 THEN seqs[i] ELSE f[i - 1] \o seqs[i]
           Upto(f, n) == f = [i \in 1 .. n |-> Step(f, i)]
           Short == {n \in Nat : n # 0 /\ ~ \E f : Upto(f, n)}
<1>1. Short = {}
  <2> SUFFICES ASSUME Short # {} PROVE FALSE
    OBVIOUS
  <2>1. PICK n \in Short : \A m \in Short : n <= m
    BY Least
  <2>2. n # 1
    <3> DEFINE f == [i \in 1 .. 1 |-> seqs[1]]
    <3>1. \A i \in 1 .. 1 : i = 1 /\ Step(f, i) = seqs[1]
      OBVIOUS
    <3> HIDE DEF Step
    <3>2. Upto(f, 1)
      BY <3>1
    <3> QED BY <2>1, <3>2
  <2>3. n \in Nat /\ n - 1 \in Nat /\ n - 1 # 0
    BY <2>1, <2>2
  <2>4. PICK f : Upto(f, n - 1)
    <3> HIDE DEF Upto
    <3>1. n - 1 \notin Short
      <4> HIDE DEF Short
      <4> QED BY <2>1, <2>3
    <3> QED BY <2>3, <3>1
  <2> DEFINE h == [i \in 1 .. n |-> IF i = n THEN f[n - 1] \o seqs[n] ELSE f[i]]
  <2>5. DOMAIN f = 1 .. n - 1 /\ \A i \in 1 .. n - 1 : f[i] = Step(f, i)
    BY <2>4
  <2>6. ASSUME NEW i \in 1 .. n PROVE h[i] = Step(h, i)
    <3>1. CASE i = n
      <4> DEFINE last == f[n - 1] \o seqs[n]
      <4>0. h = [j \in 1 .. n |-> IF j = n THEN last ELSE f[j]]
        OBVIOUS
      <4> HIDE DEF last, h
      <4>1. h[n - 1] = f[n - 1] /\ h[n] = last
        <5>1. n - 1 \in 1 .. n /\ n \in 1 .. n /\ n - 1 # n
          BY <2>3
        <5> QED BY <4>0, <5>1
      <4> QED BY <2>2, <3>1, <4>1 DEF last
    <3>2. CASE i # n /\ i = 1
      <4>1. h[i] = f[i] /\ 1 \in 1 .. n - 1
        BY <2>3, <3>2
      <4>2. f[i] = seqs[1]
        BY <2>5, <3>2, <4>1
      <4> HIDE DEF h
      <4> QED BY <3>2, <4>1, <4>2
    <3>3. CASE i # n /\ i # 1
      <4>1. i \in 1 .. n - 1 /\ i - 1 \in 1 .. n - 1
        BY <3>3, <2>3
      <4>2. h[i] = f[i] /\ h[i - 1] = f[i - 1]
        BY <2>3, <4>1
      <4>3. f[i] = f[i - 1] \o seqs[i]
        BY <2>5, <3>3, <4>1
      <4> HIDE DEF h
      <4> QED BY <3>3, <4>2, <4>3
    <3> QED BY <3>1, <3>2, <3>3
  <2>7. Upto(h, n)
    <3>1. h = [i \in 1 .. n |-> h[i]]
      OBVIOUS
    <3> HIDE DEF h, Step
    <3> QED BY <2>6, <3>1
  <2> QED BY <2>1, <2>7
<1>2. \E f : Upto(f, N)
  BY <1>1
<1> DEFINE g == CHOOSE f : Upto(f, N)
<1>3. Upto(g, N)
  BY <1>2
<1>4. FlattenSeq(seqs) = g[N]
  BY DEF FlattenSeq
<1> HIDE DEF g
<1>5. DOMAIN g = 1 .. N /\ \A i \in 1 .. N : g[i] = Step(g, i)
  BY <1>3
<1>6. Flattens(g, seqs, N)
  <2>1. 1 \in 1 .. N /\ \A i \in 2 .. N : i \in 1 .. N /\ i # 1
    OBVIOUS
  <2> QED BY <1>5, <2>1 DEF Flattens
<1> QED BY <1>4, <1>6

\* A bit clocked in, and the bit that comes out for it read or not.
Sent(tdi, tms, read) == Pulse(tdi, tms) \o (IF read THEN << GET_TDO >> ELSE <<>>)
Heard(read, outs) == IF read THEN outs ELSE <<>>

LEMMA SentGoes ==
  ASSUME NEW b \in Board, NEW name \in Ppt, NEW s, Live(b, s), Dry(s),
         NEW tdi \in Bit, NEW tms \in Bit, NEW read \in BOOLEAN
  PROVE  \E t : /\ Carries(name, Sent(tdi, tms, read), s, t, Heard(read, << Out(s.dev) >>))
                /\ Turned(b, s, t, tms, tdi)
<1> DEFINE p == Pulse(tdi, tms)
           x == Out(s.dev)
           r == s.rd
<1>1. PICK u : Runs(name, p, s, u) /\ u.rx = s.rx /\ u.rd = s.rd /\ Turned(b, s, u, tms, tdi)
  BY PulseDoes
<1>2. p \in Seq(Accesses) /\ << GET_TDO >> \in Seq(Accesses)
  <2>1. SET(tdi, tms, 0) \in Accesses /\ SET(tdi, tms, 1) \in Accesses /\ GET_TDO \in Accesses
    BY DEF Accesses, Bit
  <2> DEFINE a == SET(tdi, tms, 0)
             c == SET(tdi, tms, 1)
  <2> HIDE DEF a, c
  <2>2. << a, c >> \in Seq(Accesses) /\ << GET_TDO >> \in Seq(Accesses)
    BY <2>1 DEF a, c
  <2> QED BY <2>2, Zenon DEF Pulse, a, c
<1>3. x \in Bit /\ r \in Seq(Bit)
  <2>1. On(b, s.dev)
    BY DEF Live
  <2> QED BY <2>1, ShiftedTyped DEF Dry
<1> HIDE DEF p, x, r
<1>4. CASE ~read
  <2>1. p \o <<>> = p /\ r \o <<>> = r /\ <<>> \in Seq(Bit)
    BY <1>2, <1>3
  <2>2. Sent(tdi, tms, read) = p /\ Heard(read, << x >>) = <<>>
    BY <1>4, <2>1, Zenon DEF Sent, Heard, p
  <2>3. u.rd = s.rd \o <<>>
    BY <1>1, <2>1, Zenon DEF r
  <2>4. Carries(name, p, s, u, <<>>)
    BY <1>1, <1>2, <2>1, <2>3, Zenon DEF Carries
  <2> QED BY <1>1, <2>2, <2>4, Zenon DEF x
<1>5. CASE read
  <2> DEFINE t == Did(name, u, GET_TDO)
  <2>1. name # "openjtag" /\ GET_TDO.get
    BY DEF Ppt, GET_TDO
  <2>2. t = [dev |-> u.dev, rx |-> u.rx, byte |-> u.byte, rd |-> Append(u.rd, InputPpt(u.dev))]
    BY <2>1, Zenon DEF Did, Accessed
  <2>3. InputPpt(u.dev) = x
    <3>1. u.dev.tdo = << x >>
      BY <1>1, Zenon DEF Turned, x
    <3>2. Last(<< x >>) = x
      BY DEF Last
    <3>3. STATUS7(u.dev) = 1 - x
      BY <3>1, <3>2, Zenon DEF STATUS7
    <3>4. x \in {0, 1}
      BY <1>3 DEF Bit
    <3>5. InputPpt(u.dev) = IF 1 - x = 1 THEN 0 ELSE 1
      BY <3>3, Zenon DEF InputPpt
    <3> QED BY <3>4, <3>5
  <2>4. Append(r, x) = r \o << x >> /\ << x >> \in Seq(Bit)
    BY <1>3
  <2> HIDE DEF t
  <2>5. t.dev = u.dev /\ t.rx = u.rx /\ t.rd = Append(u.rd, InputPpt(u.dev))
    BY <2>2
  <2>6. t.rd = s.rd \o << x >>
    BY <1>1, <2>3, <2>4, <2>5, Zenon DEF r
  <2>7. Runs(name, << GET_TDO >>, u, t)
    BY RunsOne DEF t
  <2>8. p \o << GET_TDO >> \in Seq(Accesses) /\ Runs(name, p \o << GET_TDO >>, s, t)
    BY <1>1, <1>2, <2>7, RunsBoth
  <2>9. Sent(tdi, tms, read) = p \o << GET_TDO >> /\ Heard(read, << x >>) = << x >>
    BY <1>5, Zenon DEF Sent, Heard, p
  <2>10. Carries(name, Sent(tdi, tms, read), s, t, Heard(read, << x >>))
    BY <1>1, <2>4, <2>5, <2>6, <2>8, <2>9, Zenon DEF Carries
  <2>11. Turned(b, s, t, tms, tdi)
    BY <1>1, <2>5, Zenon DEF Turned
  <2> QED BY <2>10, <2>11, Zenon DEF x
<1> QED BY <1>4, <1>5

\* From s to t along a path of n clocks.
Rides(b, name, q, s, t, f, n, tms, tdi, read) ==
  /\ Carries(name, q, s, t, Heard(read, Outs(f, n)))
  /\ Path(b, f, tms, tdi) /\ f[0] = s.dev /\ f[n] = t.dev

LEMMA OutsMore ==
  ASSUME NEW k \in Nat, NEW f, NEW h, \A j \in 0 .. k : h[j] = f[j], Outs(f, k) \in Seq(Bit), Out(f[k]) \in Bit
  PROVE  Outs(h, k + 1) = Outs(f, k) \o << Out(f[k]) >> /\ Outs(h, k + 1) \in Seq(Bit)
<1> DEFINE x == Outs(f, k)
           y == Out(f[k])
           z == Outs(h, k + 1)
<1>1. Len(x) = k /\ x \in Seq(Bit) /\ y \in Bit /\ \A j \in 1 .. k : x[j] = Out(f[j - 1])
  BY DEF Outs
<1>2. z = [j \in 1 .. k + 1 |-> z[j]] /\ \A j \in 1 .. k + 1 : z[j] = Out(f[j - 1])
  <2>1. \A j \in 1 .. k + 1 : j - 1 \in 0 .. k
    OBVIOUS
  <2>2. \A j \in 1 .. k + 1 : h[j - 1] = f[j - 1]
    BY <2>1
  <2> QED BY <2>2 DEF Outs
<1>3. z[k + 1] = y
  <2>1. (k + 1) - 1 = k /\ k + 1 \in 1 .. k + 1
    OBVIOUS
  <2> HIDE DEF z
  <2> QED BY <1>2, <2>1
<1>4. \A j \in 1 .. k : z[j] = x[j]
  <2>1. \A j \in 1 .. k : j \in 1 .. k + 1
    OBVIOUS
  <2> HIDE DEF z, x
  <2> QED BY <1>1, <1>2, <2>1
<1> HIDE DEF x, y, z
<1> DEFINE w == x \o << y >>
<1>5. w \in Seq(Bit) /\ Len(w) = k + 1 /\ w[k + 1] = y /\ \A j \in 1 .. k : w[j] = x[j]
  BY <1>1
<1> HIDE DEF w
<1>6. \A j \in 1 .. k + 1 : w[j] = z[j]
  <2>1. \A j \in 1 .. k + 1 : j \in 1 .. k \/ j = k + 1
    OBVIOUS
  <2> QED BY <1>3, <1>4, <1>5, <2>1
<1>7. w = [j \in 1 .. k + 1 |-> w[j]]
  BY <1>5
<1>8. w = z
  BY <1>2, <1>6, <1>7
<1> QED BY <1>5, <1>8, Zenon DEF w, x, y, z

\* A ride so far.
Upto(b, f, k, tms, tdi) ==
  /\ On(b, f[0]) /\ \A j \in 1 .. k : Ticks(b, f[j - 1], tms[j], tdi[j], f[j])
Ridden(b, name, q, s, t, f, k, tms, tdi, read) ==
  /\ Carries(name, q, s, t, Heard(read, Outs(f, k))) /\ Upto(b, f, k, tms, tdi)
  /\ f[0] = s.dev /\ f[k] = t.dev /\ Outs(f, k) \in Seq(Bit)

LEMMA UptoLive ==
  ASSUME NEW b, NEW f, NEW k \in Nat, NEW tms, NEW tdi, Upto(b, f, k, tms, tdi)
  PROVE  On(b, f[k])
<1>1. CASE k = 0
  BY <1>1 DEF Upto
<1>2. CASE k # 0
  <2>1. k \in 1 .. k
    BY <1>2
  <2> QED BY <2>1 DEF Upto, Ticks
<1> QED BY <1>1, <1>2

\* The bits of the next clock, and what it does to the last device.
Follows(b, f, k, tms, tdi, e) == Ticks(b, f[k], tms[k + 1], tdi[k + 1], e)
Longer(b, f, h, k, tms, tdi, e) ==
  Upto(b, h, k + 1, tms, tdi) /\ h[k + 1] = e /\ \A j \in 0 .. k : h[j] = f[j]
LEMMA UptoMore ==
  ASSUME NEW b, NEW f, NEW k \in Nat, NEW tms, NEW tdi, Upto(b, f, k, tms, tdi),
         NEW e, Follows(b, f, k, tms, tdi, e)
  PROVE  \E h : Longer(b, f, h, k, tms, tdi, e)
<1> DEFINE h == [j \in 0 .. k + 1 |-> IF j = k + 1 THEN e ELSE f[j]]
<1>1. h[k + 1] = e /\ \A j \in 0 .. k : h[j] = f[j]
  OBVIOUS
<1> HIDE DEF h
<1>2. On(b, h[0])
  BY <1>1 DEF Upto
<1>3. ASSUME NEW j \in 1 .. k + 1 PROVE Ticks(b, h[j - 1], tms[j], tdi[j], h[j])
  <2>1. CASE j = k + 1
    <3>1. j - 1 = k /\ k \in 0 .. k
      BY <2>1
    <3>2. h[k] = f[k]
      BY <1>1, <3>1
    <3> QED BY <1>1, <2>1, <3>1, <3>2 DEF Follows
  <2>2. CASE j # k + 1
    <3>1. j \in 1 .. k /\ j \in 0 .. k /\ j - 1 \in 0 .. k
      BY <2>2
    <3> QED BY <1>1, <3>1 DEF Upto
  <2> QED BY <2>1, <2>2
<1>4. Upto(b, h, k + 1, tms, tdi)
  BY <1>2, <1>3 DEF Upto
<1> QED BY <1>1, <1>4 DEF Longer

LEMMA RidesMore ==
  ASSUME NEW b \in Board, NEW name \in Ppt, NEW s, Dry(s), NEW q, NEW u, NEW f, NEW k \in Nat, NEW tms, NEW tdi,
         NEW read \in BOOLEAN, Ridden(b, name, q, s, u, f, k, tms, tdi, read),
         tms[k + 1] \in Bit, tdi[k + 1] \in Bit
  PROVE  \E t, h : Ridden(b, name, q \o Sent(tdi[k + 1], tms[k + 1], read), s, t, h, k + 1, tms, tdi, read)
<1> DEFINE c == tms[k + 1]
           d == tdi[k + 1]
<1>1. c \in Bit /\ d \in Bit
  OBVIOUS
<1>2. /\ Carries(name, q, s, u, Heard(read, Outs(f, k))) /\ Upto(b, f, k, tms, tdi)
      /\ f[0] = s.dev /\ f[k] = u.dev /\ Outs(f, k) \in Seq(Bit)
  BY DEF Ridden
<1>3. Live(b, u) /\ Dry(u)
  <2>1. On(b, f[k])
    BY <1>2, UptoLive
  <2>2. Dry(u)
    <3> DEFINE r == s.rd
               x == Heard(read, Outs(f, k))
    <3>1. r \in Seq(Bit) /\ x \in Seq(Bit) /\ u.rd = r \o x
      BY <1>2 DEF Carries, Dry
    <3> HIDE DEF r, x
    <3>2. r \o x \in Seq(Bit)
      BY <3>1
    <3> QED BY <3>1, <3>2, Zenon DEF Dry
  <2> QED BY <1>2, <2>1, <2>2, Zenon DEF Live
<1> HIDE DEF c, d
<1>4. PICK t : Carries(name, Sent(d, c, read), u, t, Heard(read, << Out(u.dev) >>)) /\ Turned(b, u, t, c, d)
  BY <1>1, <1>3, SentGoes
<1>5. Follows(b, f, k, tms, tdi, t.dev)
  BY <1>2, <1>4, Zenon DEF Turned, Follows, c, d
<1>6. PICK h : Upto(b, h, k + 1, tms, tdi) /\ h[k + 1] = t.dev /\ \A j \in 0 .. k : h[j] = f[j]
  <2> DEFINE e == t.dev
  <2> HIDE DEF e
  <2>1. Upto(b, f, k, tms, tdi) /\ Follows(b, f, k, tms, tdi, e)
    BY <1>2, <1>5 DEF e
  <2>2. \E h : Longer(b, f, h, k, tms, tdi, e)
    BY <2>1, UptoMore
  <2> QED BY <2>2, Zenon DEF e, Longer
<1>7. Out(f[k]) \in Bit
  <2>1. On(b, f[k])
    BY <1>2, UptoLive
  <2> DEFINE e == f[k]
  <2> HIDE DEF e
  <2>2. On(b, e)
    BY <2>1 DEF e
  <2>3. Out(e) \in Bit
    BY <1>1, <2>2, ShiftedTyped
  <2> QED BY <2>3 DEF e
<1>8. Outs(h, k + 1) = Outs(f, k) \o << Out(f[k]) >> /\ Outs(h, k + 1) \in Seq(Bit)
  BY <1>2, <1>6, <1>7, OutsMore
<1> DEFINE x == Outs(f, k)
           y == << Out(f[k]) >>
<1>9. Carries(name, q \o Sent(d, c, read), s, t, Heard(read, x) \o Heard(read, y))
  <2>1. Carries(name, Sent(d, c, read), u, t, Heard(read, y))
    BY <1>2, <1>4, Zenon
  <2> HIDE DEF x, y
  <2> DEFINE p == Sent(d, c, read)
             v == Heard(read, x)
             w == Heard(read, y)
  <2>2. Carries(name, q, s, u, v)
    BY <1>2 DEF x
  <2> HIDE DEF p, v, w
  <2>3. Carries(name, p, u, t, w)
    BY <2>1 DEF p, w
  <2>4. Carries(name, q \o p, s, t, v \o w)
    BY <2>2, <2>3, CarriesBoth
  <2> QED BY <2>4 DEF p, v, w
<1>10. Heard(read, x) \o Heard(read, y) = Heard(read, x \o y)
  <2>1. <<>> \o <<>> = <<>>
    OBVIOUS
  <2> HIDE DEF x, y
  <2> QED BY <2>1, Zenon DEF Heard
<1>11. Carries(name, q \o Sent(d, c, read), s, t, Heard(read, Outs(h, k + 1)))
  BY <1>8, <1>9, <1>10, Zenon
<1>12. h[0] = s.dev
  <2>1. 0 \in 0 .. k
    OBVIOUS
  <2> QED BY <1>2, <1>6, <2>1, Zenon
<1>13. Ridden(b, name, q \o Sent(d, c, read), s, t, h, k + 1, tms, tdi, read)
  BY <1>6, <1>8, <1>11, <1>12, Zenon DEF Ridden
<1> QED BY <1>13 DEF c, d

LEMMA RidesNothing ==
  ASSUME NEW b, NEW name, NEW s, Live(b, s), Dry(s), NEW tms, NEW tdi, NEW read \in BOOLEAN
  PROVE  \E t, f : Ridden(b, name, <<>>, s, t, f, 0, tms, tdi, read)
<1> DEFINE f == [j \in {0} |-> s.dev]
           r == s.rd
<1>1. f[0] = s.dev
  OBVIOUS
<1> HIDE DEF f
<1>2. Outs(f, 0) = <<>> /\ <<>> \in Seq(Bit) /\ <<>> \in Seq(Accesses)
  BY DEF Outs
<1>3. r = r \o <<>>
  <2>1. r \in Seq(Bit)
    BY DEF Dry
  <2> HIDE DEF r
  <2> QED BY <2>1
<1> HIDE DEF r
<1>4. Heard(read, <<>>) = <<>>
  BY Zenon DEF Heard
<1>5. Carries(name, <<>>, s, s, <<>>)
  <2>1. Runs(name, <<>>, s, s)
    BY RunsNothing
  <2> QED BY <1>2, <1>3, <2>1, Zenon DEF Carries, r
<1>6. Upto(b, f, 0, tms, tdi)
  BY <1>1 DEF Upto, Live
<1>7. Ridden(b, name, <<>>, s, s, f, 0, tms, tdi, read)
  BY <1>1, <1>2, <1>4, <1>5, <1>6, Zenon DEF Ridden
<1> QED BY <1>7

\* n clocks, one after the other.
Flat(q, n, tms, tdi, read) == q = FlattenSeq([k \in 1 .. n |-> Sent(tdi[k], tms[k], read)])
LEMMA PortPath ==
  ASSUME NEW b \in Board, NEW name \in Ppt, NEW s, Live(b, s), Dry(s), NEW n \in Nat \ {0},
         NEW tms \in [1 .. n -> Bit], NEW tdi \in [1 .. n -> Bit], NEW read \in BOOLEAN,
         NEW q, Flat(q, n, tms, tdi, read)
  PROVE  \E t, f : Ridden(b, name, q, s, t, f, n, tms, tdi, read)
<1> DEFINE seqs == [k \in 1 .. n |-> Sent(tdi[k], tms[k], read)]
<1>1. Len(seqs) = n /\ \A k \in 1 .. n : seqs[k] = Sent(tdi[k], tms[k], read)
  OBVIOUS
<1>2. q = FlattenSeq(seqs)
  BY DEF Flat
<1> HIDE DEF seqs
<1>3. PICK g : Flattens(g, seqs, n) /\ q = g[n]
  <2>1. Len(seqs) \in Nat \ {0}
    BY <1>1
  <2>2. PICK g : Flattens(g, seqs, Len(seqs)) /\ FlattenSeq(seqs) = g[Len(seqs)]
    BY <2>1, FlatPieces
  <2> QED BY <1>1, <1>2, <2>2
<1> DEFINE Reachable(p, k) == \E t, f : Ridden(b, name, p, s, t, f, k, tms, tdi, read)
<1>4. ASSUME NEW k \in Nat, k < n, NEW p, Reachable(p, k)
      PROVE  Reachable(p \o seqs[k + 1], k + 1)
  <2>1. PICK u, f : Ridden(b, name, p, s, u, f, k, tms, tdi, read)
    BY <1>4
  <2>2. k + 1 \in 1 .. n
    BY <1>4
  <2>3. tms[k + 1] \in Bit /\ tdi[k + 1] \in Bit
    BY <2>2
  <2>4. \E t, h : Ridden(b, name, p \o Sent(tdi[k + 1], tms[k + 1], read), s, t, h, k + 1, tms, tdi, read)
    BY <2>1, <2>3, RidesMore
  <2>5. seqs[k + 1] = Sent(tdi[k + 1], tms[k + 1], read)
    BY <1>1, <2>2
  <2> QED BY <2>4, <2>5, Zenon
<1>5. Reachable(<<>>, 0)
  BY RidesNothing
<1>6. <<>> \o seqs[1] = seqs[1]
  <2> DEFINE x == tdi[1]
             y == tms[1]
  <2>1. x \in Bit /\ y \in Bit /\ seqs[1] = Sent(x, y, read)
    BY <1>1
  <2> HIDE DEF x, y
  <2> DEFINE a == SET(x, y, 0)
             c == SET(x, y, 1)
             d == GET_TDO
  <2>2. Sent(x, y, read) = << a, c >> \o (IF read THEN << d >> ELSE <<>>)
    BY DEF Sent, Pulse
  <2> HIDE DEF a, c, d
  <2>3. << a, c >> \in Seq({a, c, d}) /\ << d >> \in Seq({a, c, d}) /\ <<>> \in Seq({a, c, d})
    OBVIOUS
  <2>4. \A v, w \in Seq({a, c, d}) : <<>> \o (v \o w) = v \o w
    <3>1. \A z \in Seq({a, c, d}) : <<>> \o z = z
      OBVIOUS
    <3>2. \A v, w \in Seq({a, c, d}) : v \o w \in Seq({a, c, d})
      OBVIOUS
    <3> QED BY <3>1, <3>2, Zenon
  <2> QED BY <2>1, <2>2, <2>3, <2>4
<1> HIDE DEF Reachable
<1> DEFINE Bad == {k \in Nat : k >= 1 /\ k <= n /\ ~Reachable(g[k], k)}
<1>7. Bad = {}
  <2> SUFFICES ASSUME Bad # {} PROVE FALSE
    OBVIOUS
  <2>1. PICK k \in Bad : \A m \in Bad : k <= m
    BY Least
  <2>2. k \in Nat /\ k >= 1 /\ k <= n /\ ~Reachable(g[k], k)
    BY <2>1
  <2>3. k # 1
    <3>1. Reachable(<<>> \o seqs[0 + 1], 0 + 1)
      <4>1. 0 \in Nat /\ 0 < n
        OBVIOUS
      <4> QED BY <4>1, <1>4, <1>5, Zenon
    <3>2. 0 + 1 = 1
      OBVIOUS
    <3>3. Reachable(g[1], 1)
      BY <1>3, <1>6, <3>1, <3>2 DEF Flattens
    <3> QED BY <2>2, <3>3
  <2>4. k - 1 \in Nat /\ k - 1 >= 1 /\ k - 1 < n /\ ~(k <= k - 1) /\ (k - 1) + 1 = k /\ k \in 2 .. n
    BY <2>2, <2>3
  <2>5. Reachable(g[k - 1], k - 1)
    <3>1. k - 1 \notin Bad
      <4> HIDE DEF Bad
      <4> QED BY <2>1, <2>4
    <3> QED BY <2>4, <3>1
  <2>6. Reachable(g[k - 1] \o seqs[(k - 1) + 1], (k - 1) + 1)
    BY <1>4, <2>4, <2>5
  <2>7. g[k] = g[k - 1] \o seqs[k]
    BY <1>3, <2>4 DEF Flattens
  <2> QED BY <2>2, <2>4, <2>6, <2>7
<1>8. Reachable(q, n)
  BY <1>3, <1>7
<1> QED BY <1>8 DEF Reachable

\* TMS alone, with TDI high.
Highs(n) == [k \in 1 .. n |-> 1]
Drives(b, name, tms, s, t, f, n) ==
  /\ Carries(name, Pulses(tms), s, t, <<>>) /\ Path(b, f, tms, Highs(n))
  /\ f[0] = s.dev /\ f[n] = t.dev
LEMMA PulsesGo ==
  ASSUME NEW b \in Board, NEW name \in Ppt, NEW s, Live(b, s), Dry(s), NEW tms \in Seq(Bit),
         NEW n \in Nat \ {0}, Len(tms) = n
  PROVE  \E t, f : Drives(b, name, tms, s, t, f, n)
<1> DEFINE q == Pulses(tms)
           tdi == Highs(n)
<1>1. tms \in [1 .. n -> Bit] /\ DOMAIN tms = 1 .. n
  OBVIOUS
<1>2. tdi \in [1 .. n -> Bit] /\ \A k \in 1 .. n : tdi[k] = 1
  BY DEF Highs, Bit
<1>3. \A x, y : Sent(x, y, FALSE) = Pulse(x, y)
  <2> SUFFICES ASSUME NEW x, NEW y PROVE Sent(x, y, FALSE) = Pulse(x, y)
    OBVIOUS
  <2> DEFINE a == SET(x, y, 0)
             c == SET(x, y, 1)
  <2> HIDE DEF a, c
  <2>1. << a, c >> \in Seq({a, c})
    OBVIOUS
  <2>2. << a, c >> \o <<>> = << a, c >>
    BY <2>1
  <2>3. Pulse(x, y) = << a, c >>
    BY DEF Pulse, a, c
  <2>4. Sent(x, y, FALSE) = Pulse(x, y) \o <<>>
    BY DEF Sent
  <2> QED BY <2>2, <2>3, <2>4, Zenon
<1> HIDE DEF tdi
<1>4. Flat(q, n, tms, tdi, FALSE)
  <2>1. \A k \in 1 .. n : Pulse(1, tms[k]) = Sent(tdi[k], tms[k], FALSE)
    BY <1>2, <1>3
  <2>2. [k \in 1 .. n |-> Pulse(1, tms[k])] = [k \in 1 .. n |-> Sent(tdi[k], tms[k], FALSE)]
    BY <2>1
  <2> QED BY <1>1, <2>2, Zenon DEF Flat, Pulses
<1> HIDE DEF q
<1>5. PICK t, f : Ridden(b, name, q, s, t, f, n, tms, tdi, FALSE)
  <2>1. FALSE \in BOOLEAN
    OBVIOUS
  <2> QED BY <1>1, <1>2, <1>4, <2>1, PortPath
<1>6. Path(b, f, tms, tdi)
  <2>1. \A k \in 1 .. n : tms[k] \in Bit /\ tdi[k] \in Bit
    BY <1>1, <1>2
  <2> QED BY <1>5, <2>1 DEF Ridden, Upto, Path
<1>7. Drives(b, name, tms, s, t, f, n)
  BY <1>5, <1>6, Zenon DEF Drives, Ridden, Heard, q, tdi
<1> QED BY <1>7

\* A string into a register that shifts, its last bit on the way out of the state.
LEMMA ShiftGo ==
  ASSUME NEW b \in Board, NEW name \in Ppt, NEW s, Dry(s), NEW st, NEW i, NEW l, NEW n, NEW from, NEW in,
         Amid(b, s, st, i, l, n, from, in, 0), NEW read \in BOOLEAN
  PROVE  \E t : /\ Carries(name, Shift(in, read), s, t, Heard(read, from))
                /\ Stands(b, t, Leaves(st), i, in, l)
<1> DEFINE q == Shift(in, read)
           tms == [k \in 1 .. n |-> IF k = n THEN 1 ELSE 0]
           c == n - 1
<1>1. /\ n \in Nat \ {0} /\ from \in [1 .. n -> Bit] /\ in \in [1 .. n -> Bit]
      /\ Mid(b, s.dev, st, i, l, n, from, in, 0)
  BY DEF Amid, Mid
<1>2. Live(b, s)
  BY AmidLive
<1>3. tms \in [1 .. n -> Bit] /\ tms[n] = 1 /\ (\A k \in 1 .. c : tms[k] = 0) /\ Len(tms) = n
  BY <1>1 DEF Bit
<1>4. Flat(q, n, tms, in, read)
  <2>1. DOMAIN in = 1 .. n /\ Len(in) = n
    BY <1>1
  <2>2. \A k \in 1 .. n : tms[k] = IF k = Len(in) THEN 1 ELSE 0
    BY <2>1
  <2> HIDE DEF tms
  <2>3. [k \in DOMAIN in |-> Pulse(in[k], IF k = Len(in) THEN 1 ELSE 0) \o (IF read THEN << GET_TDO >> ELSE <<>>)]
        = [k \in 1 .. n |-> Pulse(in[k], tms[k]) \o (IF read THEN << GET_TDO >> ELSE <<>>)]
    BY <2>1, <2>2
  <2> QED BY <2>3, Zenon DEF Flat, Shift, Sent
<1> HIDE DEF q, tms
<1>5. PICK t, f : Ridden(b, name, q, s, t, f, n, tms, in, read)
  BY <1>1, <1>2, <1>3, <1>4, PortPath
<1>6. /\ Carries(name, q, s, t, Heard(read, Outs(f, n))) /\ Upto(b, f, n, tms, in)
      /\ f[0] = s.dev /\ f[n] = t.dev
  BY <1>5 DEF Ridden
<1>7. Mid(b, f[c], st, i, l, n, from, in, c) /\ Passes(f, c, from, 0)
  <2> DEFINE first == [k \in 1 .. c |-> 0]
  <2>1. c \in Nat /\ Len(first) = c /\ 0 + c <= n /\ 0 + c = c
    BY <1>1
  <2>2. \A j \in 1 .. c : first[j] = 0 /\ j \in 1 .. n /\ 0 + j = j
    BY <1>1
  <2> HIDE DEF first, c
  <2>3. Feeds(first, in, c, n, in, 0)
    BY <2>1, <2>2 DEF Feeds
  <2>4. Path(b, f, first, in)
    <3>1. \A j \in 1 .. c : first[j] \in Bit /\ in[j] \in Bit /\ Ticks(b, f[j - 1], first[j], in[j], f[j])
      BY <1>1, <1>3, <1>6, <2>2 DEF Upto, Bit
    <3> QED BY <1>6, <2>1, <3>1 DEF Path, Upto
  <2>5. Mid(b, f[0], st, i, l, n, from, in, 0)
    BY <1>1, <1>6
  <2>6. Mid(b, f[c], st, i, l, n, from, in, 0 + c) /\ Passes(f, c, from, 0)
    <3>1. 0 \in Nat
      OBVIOUS
    <3> QED BY <2>3, <2>4, <2>5, <3>1, ShiftMany
  <2> QED BY <2>1, <2>6
<1>8. Ticks(b, f[c], 1, in[n], f[n])
  <2>1. n \in 1 .. n
    BY <1>1
  <2> QED BY <1>3, <1>6, <2>1 DEF Upto
<1>9. At(b, f[n], Leaves(st), i, in, l) /\ Out(f[c]) = from[n]
  <2>1. c = n - 1
    OBVIOUS
  <2> HIDE DEF c
  <2> DEFINE e == f[c]
             x == in[n]
             g == f[n]
  <2> HIDE DEF e, x, g
  <2>2. Mid(b, e, st, i, l, n, from, in, c) /\ Ticks(b, e, 1, x, g) /\ x = in[n]
    BY <1>7, <1>8 DEF e, x, g
  <2>3. At(b, g, Leaves(st), i, in, l) /\ Out(e) = from[n]
    BY <2>1, <2>2, ShiftEnds
  <2> QED BY <2>3 DEF e, g
<1>10. Outs(f, n) = from
  <2>1. ASSUME NEW j \in 1 .. n PROVE Out(f[j - 1]) = from[j]
    <3>1. CASE j = n
      BY <1>9, <3>1
    <3>2. CASE j # n
      <4>1. j \in 1 .. c /\ 0 + j = j
        BY <1>1, <3>2
      <4> QED BY <1>7, <4>1 DEF Passes
    <3> QED BY <3>1, <3>2
  <2>2. from = [j \in 1 .. n |-> from[j]]
    BY <1>1
  <2> QED BY <2>1, <2>2 DEF Outs
<1>11. Stands(b, t, Leaves(st), i, in, l)
  BY <1>6, <1>9, Zenon DEF Stands
<1> QED BY <1>6, <1>10, <1>11 DEF q

-----------------------------------------------------------------------------
(* The operations of the parallel-port cables *)

LEMMA CarriesDry ==
  ASSUME NEW name, NEW q, NEW s, NEW t, NEW x, Dry(s), Carries(name, q, s, t, x)
  PROVE  Dry(t)
<1> DEFINE r == s.rd
<1>1. r \in Seq(Bit) /\ x \in Seq(Bit) /\ t.rd = r \o x
  BY DEF Dry, Carries
<1> HIDE DEF r
<1>2. r \o x \in Seq(Bit)
  BY <1>1
<1> QED BY <1>1, <1>2, Zenon DEF Dry

LEMMA CarriesOn ==
  ASSUME NEW name, NEW p, NEW q, NEW s, NEW t, NEW u, NEW x, Dry(s),
         Carries(name, p, s, t, <<>>), Carries(name, q, t, u, x)
  PROVE  Carries(name, p \o q, s, u, x)
<1>0. Carries(name, p \o q, s, u, <<>> \o x)
  BY CarriesBoth
<1>1. x \in Seq(Bit)
  BY DEF Carries
<1>2. <<>> \o x = x
  BY <1>1
<1> QED BY <1>0, <1>2

LEMMA CarriesThen ==
  ASSUME NEW name, NEW p, NEW q, NEW s, NEW t, NEW u, NEW x, Dry(s),
         Carries(name, p, s, t, x), Carries(name, q, t, u, <<>>)
  PROVE  Carries(name, p \o q, s, u, x)
<1>0. Carries(name, p \o q, s, u, x \o <<>>)
  BY CarriesBoth
<1>1. x \in Seq(Bit)
  BY DEF Carries
<1>2. x \o <<>> = x
  BY <1>1
<1> QED BY <1>0, <1>2

LEMMA DriveBegins ==
  ASSUME NEW b, NEW name, NEW tms, NEW s, NEW t, NEW f, NEW n, Drives(b, name, tms, s, t, f, n),
         NEW tap, NEW i, NEW sr, NEW l, Stands(b, s, tap, i, sr, l)
  PROVE  At(b, f[0], tap, i, sr, l)
BY DEF Drives, Stands

\* Six ones.
LEMMA PortReset ==
  ASSUME NEW b \in Board, NEW name \in Ppt, NEW s, Dry(s), Live(b, s)
  PROVE  \E t, sr, l : Carries(name, JTAG_Reset, s, t, <<>>) /\ Stands(b, t, "TLR", IDCODE, sr, l)
<1> DEFINE tms == <<1, 1, 1, 1, 1, 1>>
<1>1. tms \in Seq(Bit) /\ Len(tms) = 6 /\ 6 \in Nat \ {0}
  BY DEF Bit
<1> HIDE DEF tms
<1>2. PICK t, f : Drives(b, name, tms, s, t, f, 6)
  BY <1>1, PulsesGo
<1>3. Path(b, f, <<1, 1, 1, 1, 1, 1>>, Highs(6))
  BY <1>2, Zenon DEF Drives, tms
<1>4. At(b, f[6], "TLR", IDCODE, f[6].sr, f[6].latch)
  BY <1>3, ResetBySix
<1>5. Stands(b, t, "TLR", IDCODE, f[6].sr, f[6].latch)
  BY <1>2, <1>4, Zenon DEF Drives, Stands
<1>6. Carries(name, JTAG_Reset, s, t, <<>>)
  BY <1>2, Zenon DEF Drives, JTAG_Reset, tms
<1> QED BY <1>5, <1>6

LEMMA PortIdle ==
  ASSUME NEW b \in Board, NEW name \in Ppt, NEW s, Dry(s), Live(b, s)
  PROVE  \E t, sr, l : Carries(name, JTAG_RunTestldleState, s, t, <<>>) /\ Stands(b, t, "RTI", IDCODE, sr, l)
<1> DEFINE tms == <<0, 0, 0>>
<1>1. tms \in Seq(Bit) /\ Len(tms) = 3 /\ 3 \in Nat \ {0}
  BY DEF Bit
<1> HIDE DEF tms
<1>2. PICK u, sr, l : Carries(name, JTAG_Reset, s, u, <<>>) /\ Stands(b, u, "TLR", IDCODE, sr, l)
  BY PortReset
<1>3. Dry(u) /\ Live(b, u)
  BY <1>2, CarriesDry, StandsLive
<1>4. PICK t, f : Drives(b, name, tms, u, t, f, 3)
  BY <1>1, <1>3, PulsesGo
<1>5. At(b, f[0], "TLR", IDCODE, sr, l)
  BY <1>2, <1>4, DriveBegins
<1>6. Path(b, f, <<0, 0, 0>>, Highs(3))
  BY <1>4, Zenon DEF Drives, tms
<1>7. At(b, f[3], "RTI", IDCODE, sr, l)
  BY <1>5, <1>6, IdleByThree
<1>8. Stands(b, t, "RTI", IDCODE, sr, l)
  BY <1>4, <1>7, Zenon DEF Drives, Stands
<1> DEFINE q == Pulses(tms)
<1>9. Carries(name, q, u, t, <<>>)
  BY <1>4, Zenon DEF Drives
<1> HIDE DEF q
<1>10. Carries(name, JTAG_Reset \o q, s, t, <<>>)
  BY <1>2, <1>9, CarriesOn
<1> QED BY <1>8, <1>10, Zenon DEF JTAG_RunTestldleState, q, tms

\* To Shift-IR and to Shift-DR, and out of them.
LEMMA PortToInstruction ==
  ASSUME NEW b \in Board, NEW name \in Ppt, NEW s, Dry(s), NEW i, NEW sr, NEW l, Stands(b, s, "RTI", i, sr, l)
  PROVE  \E t : Carries(name, Pulses(<<1, 1, 0, 0>>), s, t, <<>>) /\ Stands(b, t, "SI", i, <<1, 0, 0, 0>>, l)
<1> DEFINE tms == <<1, 1, 0, 0>>
<1>1. tms \in Seq(Bit) /\ Len(tms) = 4 /\ 4 \in Nat \ {0}
  BY DEF Bit
<1> HIDE DEF tms
<1>2. Live(b, s)
  BY StandsLive
<1>3. PICK t, f : Drives(b, name, tms, s, t, f, 4)
  BY <1>1, <1>2, PulsesGo
<1>4. At(b, f[0], "RTI", i, sr, l)
  BY <1>3, DriveBegins
<1>5. Path(b, f, <<1, 1, 0, 0>>, Highs(4))
  BY <1>3, Zenon DEF Drives, tms
<1>6. At(b, f[4], "SI", i, <<1, 0, 0, 0>>, l)
  BY <1>4, <1>5, InstructionByFour
<1> QED BY <1>3, <1>6, Zenon DEF Drives, Stands, tms

LEMMA PortToData ==
  ASSUME NEW b \in Board, NEW name \in Ppt, NEW s, Dry(s), NEW i, NEW sr, NEW l, Stands(b, s, "RTI", i, sr, l)
  PROVE  \E t : /\ Carries(name, Pulses(<<1, 0, 0>>), s, t, <<>>)
                /\ Stands(b, t, "SD", i, IF i = IDCODE THEN b.id ELSE b.cells, l)
<1> DEFINE tms == <<1, 0, 0>>
<1>1. tms \in Seq(Bit) /\ Len(tms) = 3 /\ 3 \in Nat \ {0}
  BY DEF Bit
<1> HIDE DEF tms
<1>2. Live(b, s)
  BY StandsLive
<1>3. PICK t, f : Drives(b, name, tms, s, t, f, 3)
  BY <1>1, <1>2, PulsesGo
<1>4. At(b, f[0], "RTI", i, sr, l)
  BY <1>3, DriveBegins
<1>5. Path(b, f, <<1, 0, 0>>, Highs(3))
  BY <1>3, Zenon DEF Drives, tms
<1>6. At(b, f[3], "SD", i, IF i = IDCODE THEN b.id ELSE b.cells, l)
  BY <1>4, <1>5, DataByThree
<1> QED BY <1>3, <1>6, Zenon DEF Drives, Stands, tms

LEMMA PortEnds ==
  ASSUME NEW b \in Board, NEW name \in Ppt, NEW s, Dry(s), NEW st \in Shifting, NEW i, NEW sr, NEW l,
         Stands(b, s, Leaves(st), i, sr, l)
  PROVE  \E t : /\ Carries(name, Pulses(<<1, 0>>), s, t, <<>>)
                /\ Stands(b, t, "RTI", Updates(st, i, sr), sr, Latches(st, i, sr, l))
<1> DEFINE tms == <<1, 0>>
<1>1. tms \in Seq(Bit) /\ Len(tms) = 2 /\ 2 \in Nat \ {0}
  BY DEF Bit
<1> HIDE DEF tms
<1>2. Live(b, s)
  BY StandsLive
<1>3. PICK t, f : Drives(b, name, tms, s, t, f, 2)
  BY <1>1, <1>2, PulsesGo
<1>4. At(b, f[0], Leaves(st), i, sr, l)
  BY <1>3, DriveBegins
<1>5. Path(b, f, <<1, 0>>, Highs(2))
  BY <1>3, Zenon DEF Drives, tms
<1>6. At(b, f[2], "RTI", Updates(st, i, sr), sr, Latches(st, i, sr, l))
  <2>1. CASE st = "SD"
    <3>1. At(b, f[0], "E1D", i, sr, l)
      BY <1>4, <2>1 DEF Leaves
    <3>2. At(b, f[2], "RTI", i, sr, IF i = IDCODE THEN l ELSE sr)
      BY <1>5, <3>1, DataEndsByTwo
    <3> QED BY <2>1, <3>2 DEF Updates, Latches
  <2>2. CASE st = "SI"
    <3>1. At(b, f[0], "E1I", i, sr, l)
      BY <1>4, <2>2 DEF Leaves
    <3>2. At(b, f[2], "RTI", sr, sr, l)
      BY <1>5, <3>1, InstructionEndsByTwo
    <3> QED BY <2>2, <3>2 DEF Updates, Latches
  <2> QED BY <2>1, <2>2 DEF Shifting
<1> QED BY <1>3, <1>6, Zenon DEF Drives, Stands, tms

\* EXTEST into the instruction register.
LEMMA PortInstruction ==
  ASSUME NEW b \in Board, NEW name \in Ppt, NEW s, Dry(s), NEW i, NEW sr, NEW l, Stands(b, s, "RTI", i, sr, l)
  PROVE  \E t : /\ Carries(name, JTAG_ShiftIRState(EXTEST), s, t, <<>>)
                /\ Stands(b, t, "RTI", EXTEST, EXTEST, l)
<1> DEFINE p == Pulses(<<1, 1, 0, 0>>)
           c == Shift(EXTEST, FALSE)
           d == Pulses(<<1, 0>>)
           from == <<1, 0, 0, 0>>
<1>1. from \in [1 .. 4 -> Bit] /\ EXTEST \in [1 .. 4 -> Bit] /\ "SI" \in Shifting /\ 4 \in Nat \ {0}
  BY DEF EXTEST, Bit, Shifting
<1>2. PICK u : Carries(name, p, s, u, <<>>) /\ Stands(b, u, "SI", i, from, l)
  BY PortToInstruction
<1> HIDE DEF p, from
<1>3. Dry(u) /\ Amid(b, u, "SI", i, l, 4, from, EXTEST, 0)
  BY <1>1, <1>2, CarriesDry, Begun
<1>4. PICK v : Carries(name, c, u, v, Heard(FALSE, from)) /\ Stands(b, v, Leaves("SI"), i, EXTEST, l)
  <2>1. FALSE \in BOOLEAN
    OBVIOUS
  <2> QED BY <1>3, <2>1, ShiftGo
<1> HIDE DEF c
<1>5. Carries(name, c, u, v, <<>>)
  BY <1>4 DEF Heard
<1>6. Dry(v) /\ Carries(name, p \o c, s, v, <<>>)
  BY <1>2, <1>3, <1>5, CarriesDry, CarriesOn
<1>7. PICK t : /\ Carries(name, d, v, t, <<>>)
               /\ Stands(b, t, "RTI", Updates("SI", i, EXTEST), EXTEST, Latches("SI", i, EXTEST, l))
  BY <1>1, <1>4, <1>6, PortEnds
<1> HIDE DEF d
<1>8. Stands(b, t, "RTI", EXTEST, EXTEST, l)
  BY <1>7 DEF Updates, Latches
<1>9. Carries(name, (p \o c) \o d, s, t, <<>>)
  BY <1>6, <1>7, CarriesOn
<1> QED BY <1>8, <1>9, Zenon DEF JTAG_ShiftIRState, p, c, d

\* A data scan, read or not.
PortScan(in, read) == Pulses(<<1, 0, 0>>) \o Shift(in, read) \o Pulses(<<1, 0>>)
LEMMA PortScans ==
  ASSUME NEW b \in Board, NEW name \in Ppt, NEW s, Dry(s), NEW i, i # IDCODE, NEW sr, NEW l,
         Stands(b, s, "RTI", i, sr, l), NEW n \in Nat \ {0}, NEW from \in [1 .. n -> Bit], from = b.cells,
         NEW in \in [1 .. n -> Bit], NEW read \in BOOLEAN
  PROVE  \E t : /\ Carries(name, PortScan(in, read), s, t, Heard(read, from))
                /\ Stands(b, t, "RTI", i, in, in)
<1> DEFINE p == Pulses(<<1, 0, 0>>)
           c == Shift(in, read)
           d == Pulses(<<1, 0>>)
           outs == Heard(read, from)
<1>1. PICK u : Carries(name, p, s, u, <<>>) /\ Stands(b, u, "SD", i, from, l)
  <2>1. PICK u : Carries(name, p, s, u, <<>>)
                 /\ Stands(b, u, "SD", i, IF i = IDCODE THEN b.id ELSE b.cells, l)
    BY PortToData
  <2> QED BY <2>1, Zenon
<1> HIDE DEF p
<1>2. "SD" \in Shifting
  BY DEF Shifting
<1>3. Dry(u) /\ Amid(b, u, "SD", i, l, n, from, in, 0)
  BY <1>1, <1>2, CarriesDry, Begun
<1>4. PICK v : Carries(name, c, u, v, outs) /\ Stands(b, v, Leaves("SD"), i, in, l)
  BY <1>3, ShiftGo
<1> HIDE DEF c, outs
<1>5. Dry(v) /\ Carries(name, p \o c, s, v, outs)
  BY <1>1, <1>3, <1>4, CarriesDry, CarriesOn
<1>6. PICK t : /\ Carries(name, d, v, t, <<>>)
               /\ Stands(b, t, "RTI", Updates("SD", i, in), in, Latches("SD", i, in, l))
  BY <1>2, <1>4, <1>5, PortEnds
<1> HIDE DEF d
<1>7. Stands(b, t, "RTI", i, in, in)
  BY <1>6 DEF Updates, Latches
<1>8. Carries(name, (p \o c) \o d, s, t, outs)
  BY <1>5, <1>6, CarriesThen
<1> QED BY <1>7, <1>8, Zenon DEF PortScan, p, c, d, outs

LEMMA PortToId ==
  ASSUME NEW b \in Board, NEW name \in Ppt, NEW s, Dry(s), NEW i, NEW sr, NEW l, Stands(b, s, "TLR", i, sr, l)
  PROVE  \E t : /\ Carries(name, Pulses(<<0, 0, 0, 0, 1, 1, 0, 0>>), s, t, <<>>)
                /\ Stands(b, t, "SI", i, <<1, 0, 0, 0>>, l)
<1> DEFINE tms == <<0, 0, 0, 0, 1, 1, 0, 0>>
<1>1. tms \in Seq(Bit) /\ Len(tms) = 8 /\ 8 \in Nat \ {0}
  BY DEF Bit
<1> HIDE DEF tms
<1>2. Live(b, s)
  BY StandsLive
<1>3. PICK t, f : Drives(b, name, tms, s, t, f, 8)
  BY <1>1, <1>2, PulsesGo
<1>4. At(b, f[0], "TLR", i, sr, l)
  BY <1>3, DriveBegins
<1>5. Path(b, f, <<0, 0, 0, 0, 1, 1, 0, 0>>, Highs(8))
  BY <1>3, Zenon DEF Drives, tms
<1>6. At(b, f[8], "SI", i, <<1, 0, 0, 0>>, l)
  BY <1>4, <1>5, IdByEight
<1> QED BY <1>3, <1>6, Zenon DEF Drives, Stands, tms

LEMMA PortToIdData ==
  ASSUME NEW b \in Board, NEW name \in Ppt, NEW s, Dry(s), NEW i, NEW l, Stands(b, s, Leaves("SI"), i, IDCODE, l)
  PROVE  \E t : /\ Carries(name, Pulses(<<1, 1, 0, 0>>), s, t, <<>>)
                /\ Stands(b, t, "SD", IDCODE, b.id, l)
<1> DEFINE tms == <<1, 1, 0, 0>>
<1>1. tms \in Seq(Bit) /\ Len(tms) = 4 /\ 4 \in Nat \ {0}
  BY DEF Bit
<1> HIDE DEF tms
<1>2. Live(b, s)
  BY StandsLive
<1>3. PICK t, f : Drives(b, name, tms, s, t, f, 4)
  BY <1>1, <1>2, PulsesGo
<1>4. At(b, f[0], "E1I", i, IDCODE, l)
  <2>1. At(b, f[0], Leaves("SI"), i, IDCODE, l)
    BY <1>3, DriveBegins
  <2> QED BY <2>1 DEF Leaves
<1>5. Path(b, f, <<1, 1, 0, 0>>, Highs(4))
  BY <1>3, Zenon DEF Drives, tms
<1>6. At(b, f[4], "SD", IDCODE, b.id, l)
  BY <1>4, <1>5, IdDataByFour
<1> QED BY <1>3, <1>6, Zenon DEF Drives, Stands, tms

LEMMA PortLeaves ==
  ASSUME NEW b \in Board, NEW name \in Ppt, NEW s, Dry(s), Live(b, s)
  PROVE  \E t : Carries(name, Pulses(<<1, 0, 0, 0>>), s, t, <<>>) /\ Live(b, t)
<1> DEFINE tms == <<1, 0, 0, 0>>
<1>1. tms \in Seq(Bit) /\ Len(tms) = 4 /\ 4 \in Nat \ {0}
  BY DEF Bit
<1> HIDE DEF tms
<1>2. PICK t, f : Drives(b, name, tms, s, t, f, 4)
  BY <1>1, PulsesGo
<1>3. Path(b, f, tms, Highs(4)) /\ f[4] = t.dev
  BY <1>2 DEF Drives
<1>4. On(b, f[4])
  <2>1. Len(tms) \in Nat
    BY <1>1
  <2>2. On(b, f[Len(tms)])
    BY <1>3, <2>1, PathStays
  <2> QED BY <1>1, <2>2
<1>5. Live(b, t)
  BY <1>3, <1>4, Zenon DEF Live
<1> QED BY <1>2, <1>5, Zenon DEF Drives, tms

LEMMA PortId ==
  ASSUME NEW b \in Board, b.id \in [1 .. 32 -> Bit], NEW name \in Ppt, NEW s, Dry(s), Live(b, s)
  PROVE  \E t : Carries(name, JTAG_ReadId, s, t, b.id) /\ Live(b, t)
<1> DEFINE p1 == Pulses(<<0, 0, 0, 0, 1, 1, 0, 0>>)
           p2 == Shift(IDCODE, FALSE)
           p3 == Pulses(<<1, 1, 0, 0>>)
           p4 == Shift(Everything, TRUE)
           p5 == Pulses(<<1, 0, 0, 0>>)
           id == b.id
           from == <<1, 0, 0, 0>>
<1>i. id \in [1 .. 32 -> Bit]
  OBVIOUS
<1>1. PICK a, sr, l : Carries(name, JTAG_Reset, s, a, <<>>) /\ Stands(b, a, "TLR", IDCODE, sr, l)
  BY PortReset
<1>2. Dry(a)
  BY <1>1, CarriesDry
<1>3. PICK c : Carries(name, p1, a, c, <<>>) /\ Stands(b, c, "SI", IDCODE, from, l)
  BY <1>1, <1>2, PortToId
<1> HIDE DEF p1, from
<1>4. Dry(c) /\ Amid(b, c, "SI", IDCODE, l, 4, from, IDCODE, 0)
  <2>1. Dry(c) /\ 4 \in Nat \ {0} /\ "SI" \in Shifting /\ from \in [1 .. 4 -> Bit] /\ IDCODE \in [1 .. 4 -> Bit]
    BY <1>2, <1>3, CarriesDry DEF Shifting, from, IDCODE, Bit
  <2> QED BY <1>3, <2>1, Begun
<1>5. PICK d : Carries(name, p2, c, d, Heard(FALSE, from)) /\ Stands(b, d, Leaves("SI"), IDCODE, IDCODE, l)
  <2>1. FALSE \in BOOLEAN
    OBVIOUS
  <2> QED BY <1>4, <2>1, ShiftGo
<1> HIDE DEF p2
<1>6. Carries(name, p2, c, d, <<>>)
  BY <1>5 DEF Heard
<1>7. Dry(d)
  BY <1>4, <1>6, CarriesDry
<1>8. PICK e : Carries(name, p3, d, e, <<>>) /\ Stands(b, e, "SD", IDCODE, id, l)
  BY <1>5, <1>7, PortToIdData
<1> HIDE DEF p3
<1>9. Dry(e) /\ Amid(b, e, "SD", IDCODE, l, 32, id, Everything, 0)
  <2>1. Dry(e) /\ 32 \in Nat \ {0} /\ "SD" \in Shifting
    BY <1>7, <1>8, CarriesDry DEF Shifting
  <2>2. Everything \in [1 .. 32 -> Bit]
    BY IdBytesFeed
  <2> HIDE DEF id
  <2> QED BY <1>i, <1>8, <2>1, <2>2, Begun
<1>10. PICK g : Carries(name, p4, e, g, id) /\ Stands(b, g, Leaves("SD"), IDCODE, Everything, l)
  <2>1. TRUE \in BOOLEAN
    OBVIOUS
  <2> HIDE DEF id
  <2>2. \E t : /\ Carries(name, Shift(Everything, TRUE), e, t, Heard(TRUE, id))
               /\ Stands(b, t, Leaves("SD"), IDCODE, Everything, l)
    BY <1>9, <2>1, ShiftGo
  <2>3. Heard(TRUE, id) = id
    BY DEF Heard
  <2> QED BY <2>2, <2>3, Zenon DEF p4
<1> HIDE DEF p4, id
<1>11. Dry(g) /\ Live(b, g)
  BY <1>9, <1>10, CarriesDry, StandsLive
<1>12. PICK t : Carries(name, p5, g, t, <<>>) /\ Live(b, t)
  BY <1>11, PortLeaves
<1> HIDE DEF p5
<1>13. Carries(name, JTAG_Reset \o p1, s, c, <<>>)
  BY <1>1, <1>3, CarriesOn
<1>14. Carries(name, (JTAG_Reset \o p1) \o p2, s, d, <<>>)
  BY <1>6, <1>13, CarriesOn
<1>15. Carries(name, ((JTAG_Reset \o p1) \o p2) \o p3, s, e, <<>>)
  BY <1>8, <1>14, CarriesOn
<1>16. Carries(name, (((JTAG_Reset \o p1) \o p2) \o p3) \o p4, s, g, id)
  BY <1>10, <1>15, CarriesOn
<1>17. Carries(name, ((((JTAG_Reset \o p1) \o p2) \o p3) \o p4) \o p5, s, t, id)
  BY <1>12, <1>16, CarriesThen
<1>18. JTAG_ReadId = ((((JTAG_Reset \o p1) \o p2) \o p3) \o p4) \o p5
  BY Zenon DEF JTAG_ReadId, p1, p2, p3, p4, p5, Everything
<1> QED BY <1>12, <1>17, <1>18, Zenon DEF id

-----------------------------------------------------------------------------
(* The FT2232 opened *)

\* What holds first and of the next is so all the way.
LEMMA FromOn ==
  ASSUME NEW m \in Nat, NEW n \in Nat, NEW X, m \in X,
         \A k \in Nat : k > m /\ k <= n /\ k - 1 \in X => k \in X
  PROVE  \A k \in Nat : m <= k /\ k <= n => k \in X
<1> DEFINE Bad == {k \in Nat : m <= k /\ k <= n /\ k \notin X}
<1>1. Bad = {}
  <2> SUFFICES ASSUME Bad # {} PROVE FALSE
    OBVIOUS
  <2>1. PICK k \in Bad : \A j \in Bad : k <= j
    BY Least
  <2>2. k \in Nat /\ m <= k /\ k <= n /\ k \notin X /\ k # m
    BY <2>1
  <2>3. k - 1 \in Nat /\ m <= k - 1 /\ k - 1 <= n /\ k > m /\ ~(k <= k - 1)
    BY <2>2
  <2>4. k - 1 \notin Bad
    <3> HIDE DEF Bad
    <3> QED BY <2>1, <2>3
  <2>5. k - 1 \in X
    BY <2>3, <2>4
  <2> QED BY <2>2, <2>3, <2>5
<1> HIDE DEF Bad
<1> SUFFICES ASSUME NEW k \in Nat, m <= k, k <= n, k \notin X PROVE FALSE
  OBVIOUS
<1>2. k \in Bad
  BY DEF Bad
<1> QED BY <1>1, <1>2

Fields == {"mode", "loopback", "low", "lowDir", "high", "highDir"}
Made(chip) == DOMAIN chip = Fields
Ready(chip) == Reaches(chip) /\ ~chip.loopback /\ ~SrstPulled(chip)
Quiet1(c) == c.call \in {"adaptive", "divide_by_5", "divisor", "loopback_off", "purge"}
SameWires(a, b) == a.low = b.low /\ a.lowDir = b.lowDir /\ a.high = b.high /\ a.highDir = b.highDir

LEMMA Effects ==
  ASSUME NEW chip, Made(chip), NEW c
  PROVE  /\ Made(Effect(chip, c))
         /\ c.call \notin {"reset", "bitmode"} => Effect(chip, c).mode = chip.mode
         /\ c.call = "bitmode" => Effect(chip, c).mode = "mpsse"
         /\ Quiet1(c) => SameWires(Effect(chip, c), chip)
         /\ Quiet1(c) /\ ~chip.loopback => ~Effect(chip, c).loopback
         /\ c.call = "loopback_off" /\ chip.mode = "mpsse" => ~Effect(chip, c).loopback
<1>1. \/ c.call = "reset" /\ Effect(chip, c) = [chip EXCEPT !.mode = "serial"]
      \/ c.call = "bitmode" /\ Effect(chip, c) = [chip EXCEPT !.mode = "mpsse", !.lowDir = 11]
      \/ c.call = "low" /\ Effect(chip, c) = [chip EXCEPT !.low = c.out, !.lowDir = c.dir]
      \/ c.call = "high" /\ Effect(chip, c) = [chip EXCEPT !.high = c.out, !.highDir = c.dir]
      \/ c.call = "loopback_off" /\ chip.mode = "mpsse" /\ Effect(chip, c) = [chip EXCEPT !.loopback = FALSE]
      \/ /\ c.call \notin {"reset", "bitmode"} /\ (c.call = "loopback_off" => chip.mode # "mpsse")
         /\ Effect(chip, c) = chip
  BY DEF Effect
<1> DEFINE e == Effect(chip, c)
<1> HIDE DEF e
<1>2. \/ c.call = "reset" /\ e = [chip EXCEPT !.mode = "serial"]
      \/ c.call = "bitmode" /\ e = [chip EXCEPT !.mode = "mpsse", !.lowDir = 11]
      \/ c.call = "low" /\ e = [chip EXCEPT !.low = c.out, !.lowDir = c.dir]
      \/ c.call = "high" /\ e = [chip EXCEPT !.high = c.out, !.highDir = c.dir]
      \/ c.call = "loopback_off" /\ chip.mode = "mpsse" /\ e = [chip EXCEPT !.loopback = FALSE]
      \/ /\ c.call \notin {"reset", "bitmode"} /\ (c.call = "loopback_off" => chip.mode # "mpsse")
         /\ e = chip
  BY <1>1 DEF e
<1>3. CASE c.call = "reset" /\ e = [chip EXCEPT !.mode = "serial"]
  BY <1>3 DEF e, Made, Fields, Quiet1, SameWires
<1>4. CASE c.call = "bitmode" /\ e = [chip EXCEPT !.mode = "mpsse", !.lowDir = 11]
  BY <1>4 DEF e, Made, Fields, Quiet1, SameWires
<1>5. CASE c.call = "low" /\ e = [chip EXCEPT !.low = c.out, !.lowDir = c.dir]
  BY <1>5 DEF e, Made, Fields, Quiet1, SameWires
<1>6. CASE c.call = "high" /\ e = [chip EXCEPT !.high = c.out, !.highDir = c.dir]
  BY <1>6 DEF e, Made, Fields, Quiet1, SameWires
<1>7. CASE c.call = "loopback_off" /\ chip.mode = "mpsse" /\ e = [chip EXCEPT !.loopback = FALSE]
  BY <1>7 DEF e, Made, Fields, Quiet1, SameWires
<1>8. CASE /\ c.call \notin {"reset", "bitmode"} /\ (c.call = "loopback_off" => chip.mode # "mpsse")
           /\ e = chip
  BY <1>8 DEF e, Made, SameWires
<1> QED BY <1>2, <1>3, <1>4, <1>5, <1>6, <1>7, <1>8

LEMMA PinsSet ==
  ASSUME NEW chip, Made(chip), chip.mode = "mpsse"
  PROVE  /\ LET e == Effect(chip, SetLow(8, 27))
            IN e.low = 8 /\ e.lowDir = 27
         /\ \A v : LET e == Effect(chip, SetHigh(v, 15))
                   IN e.low = chip.low /\ e.lowDir = chip.lowDir /\ e.high = v /\ e.highDir = 15
<1>1. Effect(chip, SetLow(8, 27)) = [chip EXCEPT !.low = 8, !.lowDir = 27]
  BY DEF Effect, SetLow
<1>2. ASSUME NEW v PROVE Effect(chip, SetHigh(v, 15)) = [chip EXCEPT !.high = v, !.highDir = 15]
  BY DEF Effect, SetHigh
<1>3. LET e == Effect(chip, SetLow(8, 27)) IN e.low = 8 /\ e.lowDir = 27
  BY <1>1 DEF Made, Fields
<1>4. ASSUME NEW v
      PROVE  LET e == Effect(chip, SetHigh(v, 15))
             IN e.low = chip.low /\ e.lowDir = chip.lowDir /\ e.high = v /\ e.highDir = 15
  <2> DEFINE e == Effect(chip, SetHigh(v, 15))
  <2>1. e = [chip EXCEPT !.high = v, !.highDir = 15]
    BY <1>2
  <2> HIDE DEF e
  <2>2. e.low = chip.low /\ e.lowDir = chip.lowDir /\ e.high = v /\ e.highDir = 15
    BY <2>1 DEF Made, Fields
  <2> QED BY <2>2 DEF e
<1> QED BY <1>3, <1>4

\* The calls of ft2232_init, and calls that set the pins after the first m and then
\* disturb neither them nor the mode.
UsbCall ==
  {Usb(n) : n \in {"init", "interface", "open", "reset", "latency", "get_latency", "eeprom",
                   "manufacturer", "timeouts", "bitmode", "info", "divide_by_5", "loopback_off",
                   "purge"}}
  \cup {Unchecked(Usb(n)) : n \in {"bitmode", "adaptive", "divisor"}}
  \cup {SetLow(8, 27), SetHigh(10, 15), SetHigh(9, 15)}
Setting(q, m) ==
  q[m + 1] = SetLow(8, 27) /\ q[m + 2] = SetHigh(10, 15) /\ q[m + 3] = SetHigh(9, 15)
SetsPins(q, m) ==
  /\ q \in Seq(UsbCall) /\ m \in Nat \ {0} /\ m + 3 <= Len(q) /\ Setting(q, m)
  /\ \A k \in 1 .. Len(q) : k > m + 3 => Quiet1(q[k])
AllQuiet(q) == q \in Seq(UsbCall) /\ \A k \in 1 .. Len(q) : Quiet1(q[k])
\* The call before the pins, or the one before it, sets the mode.
SetsMode(q, m) ==
  q[m].call = "bitmode" \/ (m > 1 /\ q[m - 1].call = "bitmode" /\ q[m].call = "info")

LEMMA QuietAfter ==
  ASSUME NEW q, NEW m, SetsPins(q, m), SetsMode(q, m), NEW r, AllQuiet(r)
  PROVE  SetsPins(q \o r, m) /\ SetsMode(q \o r, m)
<1>1. /\ q \in Seq(UsbCall) /\ m \in Nat \ {0} /\ m + 3 <= Len(q) /\ Setting(q, m)
      /\ \A k \in 1 .. Len(q) : k > m + 3 => Quiet1(q[k])
  BY DEF SetsPins
<1>2. r \in Seq(UsbCall) /\ \A k \in 1 .. Len(r) : Quiet1(r[k])
  BY DEF AllQuiet
<1>3. /\ q \o r \in Seq(UsbCall) /\ Len(q \o r) = Len(q) + Len(r)
      /\ \A k \in 1 .. Len(q) : (q \o r)[k] = q[k]
      /\ \A k \in 1 .. Len(r) : (q \o r)[Len(q) + k] = r[k]
  BY <1>1, <1>2, Joined
<1> DEFINE z == q \o r
<1> HIDE DEF z
<1>4. /\ z \in Seq(UsbCall) /\ Len(z) = Len(q) + Len(r)
      /\ \A k \in 1 .. Len(q) : z[k] = q[k]
      /\ \A k \in 1 .. Len(r) : z[Len(q) + k] = r[k]
  BY <1>3 DEF z
<1>5. Len(q) \in Nat /\ Len(r) \in Nat
  BY <1>1, <1>2
<1>6. /\ m + 1 \in 1 .. Len(q) /\ m + 2 \in 1 .. Len(q) /\ m + 3 \in 1 .. Len(q) /\ m \in 1 .. Len(q)
      /\ m > 1 => m - 1 \in 1 .. Len(q)
  BY <1>1, <1>5
<1>7. /\ z[m + 1] = q[m + 1] /\ z[m + 2] = q[m + 2] /\ z[m + 3] = q[m + 3] /\ z[m] = q[m]
      /\ m > 1 => z[m - 1] = q[m - 1]
  BY <1>4, <1>6
<1>8. Setting(z, m)
  BY <1>1, <1>7, Zenon DEF Setting
<1>9. SetsMode(z, m)
  BY <1>7, Zenon DEF SetsMode
<1>10. ASSUME NEW k \in 1 .. Len(z), k > m + 3 PROVE Quiet1(z[k])
  <2>1. CASE k <= Len(q)
    <3>1. k \in 1 .. Len(q)
      BY <1>5, <2>1
    <3>2. Quiet1(q[k]) /\ z[k] = q[k]
      BY <1>1, <1>4, <1>10, <3>1
    <3> QED BY <3>2
  <2>2. CASE k > Len(q)
    <3> DEFINE j == k - Len(q)
    <3>1. j \in 1 .. Len(r) /\ k = Len(q) + j
      BY <1>4, <1>5, <2>2
    <3> HIDE DEF j
    <3>2. z[Len(q) + j] = r[j] /\ Quiet1(r[j])
      BY <1>2, <1>4, <3>1
    <3> QED BY <3>1, <3>2
  <2> QED BY <1>5, <2>1, <2>2
<1>11. m + 3 <= Len(z)
  BY <1>1, <1>4, <1>5
<1> QED BY <1>1, <1>4, <1>8, <1>9, <1>10, <1>11 DEF SetsPins, z

LEMMA QuietNone == AllQuiet(<<>>)
<1>1. <<>> \in Seq(UsbCall) /\ Len(<<>>) = 0
  OBVIOUS
<1> QED BY <1>1 DEF AllQuiet

LEMMA QuietOne == ASSUME NEW c \in UsbCall, Quiet1(c) PROVE AllQuiet(<< c >>)
<1>1. << c >> \in Seq(UsbCall) /\ Len(<< c >>) = 1 /\ << c >>[1] = c
  OBVIOUS
<1> DEFINE q == << c >>
<1> HIDE DEF q
<1>2. q \in Seq(UsbCall) /\ Len(q) = 1 /\ q[1] = c
  BY <1>1 DEF q
<1>3. \A k \in 1 .. Len(q) : k = 1
  BY <1>2
<1>4. AllQuiet(q)
  BY <1>2, <1>3 DEF AllQuiet
<1> QED BY <1>4 DEF q

LEMMA QuietTwo == ASSUME NEW q, NEW r, AllQuiet(q), AllQuiet(r) PROVE AllQuiet(q \o r)
<1>1. q \in Seq(UsbCall) /\ \A k \in 1 .. Len(q) : Quiet1(q[k])
  BY DEF AllQuiet
<1>2. r \in Seq(UsbCall) /\ \A k \in 1 .. Len(r) : Quiet1(r[k])
  BY DEF AllQuiet
<1> DEFINE z == q \o r
<1>3. /\ z \in Seq(UsbCall) /\ Len(z) = Len(q) + Len(r)
      /\ \A k \in 1 .. Len(q) : z[k] = q[k]
      /\ \A k \in 1 .. Len(r) : z[Len(q) + k] = r[k]
  BY <1>1, <1>2, Joined
<1> HIDE DEF z
<1>4. Len(q) \in Nat /\ Len(r) \in Nat
  BY <1>1, <1>2
<1>5. ASSUME NEW k \in 1 .. Len(z) PROVE Quiet1(z[k])
  <2>1. CASE k <= Len(q)
    BY <1>1, <1>3, <1>4, <2>1
  <2>2. CASE k > Len(q)
    <3> DEFINE j == k - Len(q)
    <3>1. j \in 1 .. Len(r) /\ k = Len(q) + j
      BY <1>3, <1>4, <2>2
    <3> HIDE DEF j
    <3>2. z[Len(q) + j] = r[j] /\ Quiet1(r[j])
      BY <1>2, <1>3, <3>1
    <3> QED BY <3>1, <3>2
  <2> QED BY <1>4, <2>1, <2>2
<1>6. AllQuiet(z)
  BY <1>3, <1>5 DEF AllQuiet
<1> QED BY <1>6 DEF z

LEMMA CallsNamed == \A n : Usb(n).call = n /\ Unchecked(Usb(n)).call = n
BY DEF Usb, Unchecked

\* The end of ft2232_init: the divider, the clock, loopback off, and purge.
LEMMA EndQuiet ==
  ASSUME NEW highspeed \in BOOLEAN
  PROVE  /\ AllQuiet(IF highspeed THEN ft2232h_ft4232h_clk_divide_by_5 ELSE <<>>)
         /\ AllQuiet(ft2232_speed(highspeed))
         /\ AllQuiet(<< Usb("loopback_off") >>) /\ AllQuiet(<< Usb("purge") >>)
<1>1. /\ Usb("divide_by_5") \in UsbCall /\ Unchecked(Usb("adaptive")) \in UsbCall
      /\ Unchecked(Usb("divisor")) \in UsbCall /\ Usb("loopback_off") \in UsbCall
      /\ Usb("purge") \in UsbCall
  BY DEF UsbCall
<1>2. /\ Quiet1(Usb("divide_by_5")) /\ Quiet1(Unchecked(Usb("adaptive")))
      /\ Quiet1(Unchecked(Usb("divisor"))) /\ Quiet1(Usb("loopback_off"))
      /\ Quiet1(Usb("purge"))
  BY CallsNamed DEF Quiet1
<1>3. AllQuiet(ft2232h_ft4232h_clk_divide_by_5)
  BY <1>1, <1>2, QuietOne, Zenon DEF ft2232h_ft4232h_clk_divide_by_5
<1>4. AllQuiet(ft2232h_ft4232h_adaptive_clocking)
  BY <1>1, <1>2, QuietOne, Zenon DEF ft2232h_ft4232h_adaptive_clocking
<1>5. AllQuiet(<< Unchecked(Usb("divisor")) >>)
  BY <1>1, <1>2, QuietOne, Zenon
<1>6. AllQuiet(<< Usb("loopback_off") >>) /\ AllQuiet(<< Usb("purge") >>)
  BY <1>1, <1>2, QuietOne, Zenon
<1>7. AllQuiet(IF highspeed THEN ft2232h_ft4232h_clk_divide_by_5 ELSE <<>>)
  BY <1>3, QuietNone, Zenon
<1>8. AllQuiet(IF highspeed THEN ft2232h_ft4232h_adaptive_clocking ELSE <<>>)
  BY <1>4, QuietNone, Zenon
<1>9. AllQuiet(ft2232_speed(highspeed))
  BY <1>5, <1>8, QuietTwo, Zenon DEF ft2232_speed
<1> QED BY <1>6, <1>7, <1>9

LEMMA PinsBegin ==
  ASSUME NEW p \in Seq(UsbCall), Len(p) > 0, SetsMode(p, Len(p))
  PROVE  SetsPins(p \o jtagkey_init, Len(p)) /\ SetsMode(p \o jtagkey_init, Len(p))
<1> DEFINE B == jtagkey_init
<1>1. B \in Seq(UsbCall) /\ Len(B) = 3 /\ B[1] = SetLow(8, 27) /\ B[2] = SetHigh(10, 15) /\ B[3] = SetHigh(9, 15)
  <2>1. jtagkey_init = << SetLow(8, 27), SetHigh(10, 15), SetHigh(9, 15) >>
    BY DEF jtagkey_init, Low, nTRST, nSRST, nSRSTnOE
  <2>2. SetLow(8, 27) \in UsbCall /\ SetHigh(10, 15) \in UsbCall /\ SetHigh(9, 15) \in UsbCall
    BY DEF UsbCall
  <2> QED BY <2>1, <2>2
<1> HIDE DEF B
<1> DEFINE z == p \o B
<1>2. /\ z \in Seq(UsbCall) /\ Len(z) = Len(p) + Len(B)
      /\ \A k \in 1 .. Len(p) : z[k] = p[k]
      /\ \A k \in 1 .. Len(B) : z[Len(p) + k] = B[k]
  <2>1. B \in Seq(UsbCall)
    BY <1>1
  <2> QED BY <2>1, Joined
<1> HIDE DEF z
<1>3. Len(p) \in Nat \ {0} /\ Len(p) \in 1 .. Len(p) /\ (Len(p) > 1 => Len(p) - 1 \in 1 .. Len(p))
  OBVIOUS
<1>4. 1 \in 1 .. Len(B) /\ 2 \in 1 .. Len(B) /\ 3 \in 1 .. Len(B)
  BY <1>1
<1>5. z[Len(p) + 1] = B[1] /\ z[Len(p) + 2] = B[2] /\ z[Len(p) + 3] = B[3]
  BY <1>2, <1>4
<1>6. Setting(z, Len(p))
  BY <1>1, <1>5, Zenon DEF Setting
<1>7. SetsMode(z, Len(p))
  BY <1>2, <1>3 DEF SetsMode
<1>8. Len(z) = Len(p) + 3 /\ ~\E k \in 1 .. Len(z) : k > Len(p) + 3
  BY <1>1, <1>2, <1>3
<1>9. SetsPins(z, Len(p))
  BY <1>2, <1>3, <1>6, <1>8 DEF SetsPins
<1> QED BY <1>7, <1>9 DEF z, B

LEMMA Beginnings ==
  ASSUME NEW p \in {ft2232_init_libftdi, ft2232_init_ftd2xx}
  PROVE  p \in Seq(UsbCall) /\ Len(p) > 0 /\ SetsMode(p, Len(p))
<1>1. CASE p = ft2232_init_libftdi
  <2>1. p = << Usb("init"), Usb("interface"), Usb("open"), Usb("reset"), Usb("latency"),
               Usb("get_latency"), Unchecked(Usb("bitmode")) >>
    BY <1>1 DEF ft2232_init_libftdi
  <2>2. /\ Usb("init") \in UsbCall /\ Usb("interface") \in UsbCall /\ Usb("open") \in UsbCall
        /\ Usb("reset") \in UsbCall /\ Usb("latency") \in UsbCall /\ Usb("get_latency") \in UsbCall
        /\ Unchecked(Usb("bitmode")) \in UsbCall
    BY DEF UsbCall
  <2>3. p \in Seq(UsbCall) /\ Len(p) = 7 /\ p[7] = Unchecked(Usb("bitmode"))
    BY <2>1, <2>2
  <2> QED BY <2>3, CallsNamed DEF SetsMode
<1>2. CASE p = ft2232_init_ftd2xx
  <2>1. p = << Usb("open"), Usb("eeprom"), Usb("manufacturer"), Usb("latency"), Usb("get_latency"),
               Usb("timeouts"), Usb("bitmode"), Usb("info") >>
    BY <1>2 DEF ft2232_init_ftd2xx
  <2>2. /\ Usb("open") \in UsbCall /\ Usb("eeprom") \in UsbCall /\ Usb("manufacturer") \in UsbCall
        /\ Usb("latency") \in UsbCall /\ Usb("get_latency") \in UsbCall /\ Usb("timeouts") \in UsbCall
        /\ Usb("bitmode") \in UsbCall /\ Usb("info") \in UsbCall
    BY DEF UsbCall
  <2>3. p \in Seq(UsbCall) /\ Len(p) = 8 /\ p[7] = Usb("bitmode") /\ p[8] = Usb("info")
    BY <2>1, <2>2
  <2> QED BY <2>3, CallsNamed DEF SetsMode
<1> QED BY <1>1, <1>2

LEMMA InitSets ==
  ASSUME NEW build, NEW highspeed \in BOOLEAN
  PROVE  LET calls == ft2232_init(build, highspeed)
         IN \E m : /\ SetsPins(calls, m) /\ SetsMode(calls, m)
                   /\ m + 5 <= Len(calls) /\ calls[Len(calls) - 1] = Usb("loopback_off")
<1> DEFINE a == IF build = "libftdi" THEN ft2232_init_libftdi ELSE ft2232_init_ftd2xx
           c == IF highspeed THEN ft2232h_ft4232h_clk_divide_by_5 ELSE <<>>
           d == ft2232_speed(highspeed)
           e == << Usb("loopback_off"), Usb("purge") >>
           x == a \o jtagkey_init
           y == x \o c
           w == y \o d
           z == w \o e
           m == Len(a)
<1>1. ft2232_init(build, highspeed) = z
  BY DEF ft2232_init
<1>2. a \in Seq(UsbCall) /\ Len(a) > 0 /\ SetsMode(a, Len(a))
  <2>1. a \in {ft2232_init_libftdi, ft2232_init_ftd2xx}
    OBVIOUS
  <2> HIDE DEF a
  <2> QED BY <2>1, Beginnings
<1>3. AllQuiet(c) /\ AllQuiet(d)
  BY EndQuiet
<1>4. AllQuiet(e) /\ e \in Seq(UsbCall) /\ Len(e) = 2 /\ e[1] = Usb("loopback_off")
  <2> DEFINE off == Usb("loopback_off")
             purge == Usb("purge")
  <2>1. AllQuiet(<< off >>) /\ AllQuiet(<< purge >>)
    BY EndQuiet
  <2> HIDE DEF off, purge
  <2>2. \A f : AllQuiet(<< f >>) => f \in UsbCall /\ Quiet1(f)
    <3> SUFFICES ASSUME NEW f, AllQuiet(<< f >>) PROVE f \in UsbCall /\ Quiet1(f)
      OBVIOUS
    <3> DEFINE q == << f >>
    <3>1. Len(q) = 1 /\ q[1] = f /\ q \in Seq(UsbCall) /\ \A k \in 1 .. Len(q) : Quiet1(q[k])
      BY DEF AllQuiet
    <3> HIDE DEF q
    <3>2. q[1] \in UsbCall /\ Quiet1(q[1])
      BY <3>1
    <3> QED BY <3>1, <3>2
  <2>3. e = << off, purge >>
    BY DEF off, purge
  <2> HIDE DEF e
  <2>4. /\ off \in UsbCall /\ Quiet1(off) /\ purge \in UsbCall /\ Quiet1(purge)
    BY <2>1, <2>2
  <2>5. e \in Seq(UsbCall) /\ Len(e) = 2 /\ e[1] = off /\ e[2] = purge
    BY <2>3, <2>4
  <2>6. \A k \in 1 .. Len(e) : Quiet1(e[k])
    <3>1. \A k \in 1 .. Len(e) : k = 1 \/ k = 2
      BY <2>5
    <3> QED BY <2>4, <2>5, <3>1
  <2> QED BY <2>5, <2>6 DEF AllQuiet, off
<1> HIDE DEF a, c, d, e
<1>5. SetsPins(x, m) /\ SetsMode(x, m)
  BY <1>2, PinsBegin
<1> HIDE DEF x, m
<1>6. SetsPins(y, m) /\ SetsMode(y, m)
  BY <1>3, <1>5, QuietAfter
<1> HIDE DEF y
<1>7. SetsPins(w, m) /\ SetsMode(w, m)
  BY <1>3, <1>6, QuietAfter
<1> HIDE DEF w
<1>8. SetsPins(z, m) /\ SetsMode(z, m)
  BY <1>4, <1>7, QuietAfter
<1>9. w \in Seq(UsbCall) /\ m + 3 <= Len(w) /\ m \in Nat
  BY <1>7 DEF SetsPins
<1>10. /\ Len(z) = Len(w) + Len(e)
       /\ \A k \in 1 .. Len(e) : z[Len(w) + k] = e[k]
  <2>1. e \in Seq(UsbCall) /\ w \in Seq(UsbCall)
    BY <1>4, <1>9
  <2> QED BY <2>1, Joined
<1> HIDE DEF z
<1>11. z[Len(w) + 1] = e[1] /\ Len(w) + 1 = Len(z) - 1 /\ m + 5 <= Len(z)
  <2>1. 1 \in 1 .. Len(e) /\ Len(w) \in Nat
    BY <1>4, <1>9
  <2> QED BY <1>4, <1>9, <1>10, <2>1
<1>12. z[Len(z) - 1] = Usb("loopback_off")
  BY <1>4, <1>11
<1> QED BY <1>1, <1>8, <1>11, <1>12, Zenon

\* The chip after each call.
ChipBy(f, calls, lost) ==
  \A k \in 1 .. Len(calls) :
    f[k] = IF k \in lost THEN f[k - 1] ELSE Effect(f[k - 1], calls[k])

LEMMA ChipByChip ==
  ASSUME NEW start, NEW calls, Len(calls) \in Nat, NEW lost
  PROVE  \E f : /\ ChipBy(f, calls, lost) /\ f[0] = start.chip
                /\ \A k \in 0 .. Len(calls) : Calls(start, calls, lost)[k].chip = f[k]
<1>1. PICK after : Called(after, start, calls, lost) /\ Calls(start, calls, lost) = after
  BY CallByCall
<1> DEFINE f == [k \in 0 .. Len(calls) |-> after[k].chip]
<1>2. \A k \in 0 .. Len(calls) : f[k] = after[k].chip
  OBVIOUS
<1> HIDE DEF f
<1>3. f[0] = start.chip
  BY <1>1, <1>2 DEF Called
<1>4. ASSUME NEW k \in 1 .. Len(calls)
      PROVE  f[k] = IF k \in lost THEN f[k - 1] ELSE Effect(f[k - 1], calls[k])
  <2>1. after[k] = After(after[k - 1], calls[k], k \in lost)
    BY <1>1 DEF Called
  <2>2. \A was, c : After(was, c, k \in lost).chip = IF k \in lost THEN was.chip ELSE Effect(was.chip, c)
    BY DEF After
  <2>3. k \in 0 .. Len(calls) /\ k - 1 \in 0 .. Len(calls)
    OBVIOUS
  <2>4. after[k].chip = IF k \in lost THEN after[k - 1].chip ELSE Effect(after[k - 1].chip, calls[k])
    BY <2>1, <2>2
  <2>5. f[k] = after[k].chip /\ f[k - 1] = after[k - 1].chip
    BY <1>2, <2>3
  <2> QED BY <2>4, <2>5
<1>5. ChipBy(f, calls, lost)
  BY <1>4 DEF ChipBy
<1> QED BY <1>1, <1>2, <1>3, <1>5

LEMMA ChipsMade ==
  ASSUME NEW f, NEW calls, Len(calls) \in Nat, NEW lost, ChipBy(f, calls, lost), Made(f[0])
  PROVE  \A k \in Nat : k <= Len(calls) => Made(f[k])
<1> DEFINE X == {k \in Nat : Made(f[k])}
<1>1. ASSUME NEW k \in Nat, k > 0, k <= Len(calls), k - 1 \in X PROVE k \in X
  <2>1. k \in 1 .. Len(calls) /\ Made(f[k - 1])
    BY <1>1
  <2>2. f[k] = IF k \in lost THEN f[k - 1] ELSE Effect(f[k - 1], calls[k])
    BY <2>1 DEF ChipBy
  <2>3. Made(Effect(f[k - 1], calls[k]))
    BY <2>1, Effects
  <2>4. Made(f[k])
    BY <2>1, <2>2, <2>3, Zenon
  <2> QED BY <2>4
<1>2. 0 \in X
  OBVIOUS
<1> HIDE DEF X
<1>3. \A k \in Nat : 0 <= k /\ k <= Len(calls) => k \in X
  BY <1>1, <1>2, FromOn
<1> QED BY <1>3 DEF X

LEMMA ModeKept ==
  ASSUME NEW f, NEW calls, Len(calls) \in Nat, NEW lost, ChipBy(f, calls, lost), Made(f[0]), NEW m \in Nat,
         \A k \in 1 .. Len(calls) : k > m => calls[k].call \notin {"reset", "bitmode"}
  PROVE  \A k \in Nat : m <= k /\ k <= Len(calls) => f[k].mode = f[m].mode
<1> DEFINE X == {k \in Nat : f[k].mode = f[m].mode}
<1>1. ASSUME NEW k \in Nat, k > m, k <= Len(calls), k - 1 \in X PROVE k \in X
  <2>1. k \in 1 .. Len(calls) /\ f[k - 1].mode = f[m].mode /\ k - 1 \in Nat /\ k - 1 <= Len(calls)
    BY <1>1
  <2>2. f[k] = IF k \in lost THEN f[k - 1] ELSE Effect(f[k - 1], calls[k])
    BY <2>1 DEF ChipBy
  <2>3. Made(f[k - 1])
    BY <2>1, ChipsMade
  <2>4. calls[k].call \notin {"reset", "bitmode"}
    BY <1>1, <2>1
  <2>5. Effect(f[k - 1], calls[k]).mode = f[k - 1].mode
    BY <2>3, <2>4, Effects
  <2>6. f[k].mode = f[m].mode
    BY <2>1, <2>2, <2>5, Zenon
  <2> QED BY <2>6
<1>2. m \in X
  OBVIOUS
<1> HIDE DEF X
<1>3. \A k \in Nat : m <= k /\ k <= Len(calls) => k \in X
  BY <1>1, <1>2, FromOn
<1> QED BY <1>3 DEF X

LEMMA WiresKept ==
  ASSUME NEW f, NEW calls, Len(calls) \in Nat, NEW lost, ChipBy(f, calls, lost), Made(f[0]), NEW m \in Nat,
         \A k \in 1 .. Len(calls) : k > m => Quiet1(calls[k])
  PROVE  \A k \in Nat : m <= k /\ k <= Len(calls) => SameWires(f[k], f[m])
<1> DEFINE X == {k \in Nat : SameWires(f[k], f[m])}
<1>1. ASSUME NEW k \in Nat, k > m, k <= Len(calls), k - 1 \in X PROVE k \in X
  <2>1. k \in 1 .. Len(calls) /\ SameWires(f[k - 1], f[m]) /\ k - 1 \in Nat /\ k - 1 <= Len(calls)
    BY <1>1
  <2>2. f[k] = IF k \in lost THEN f[k - 1] ELSE Effect(f[k - 1], calls[k])
    BY <2>1 DEF ChipBy
  <2>3. Made(f[k - 1])
    BY <2>1, ChipsMade
  <2>4. Quiet1(calls[k])
    BY <1>1, <2>1
  <2>5. SameWires(Effect(f[k - 1], calls[k]), f[k - 1])
    BY <2>3, <2>4, Effects
  <2>6. SameWires(f[k], f[m])
    BY <2>1, <2>2, <2>5, Zenon DEF SameWires
  <2> QED BY <2>6
<1>2. m \in X
  BY DEF SameWires
<1> HIDE DEF X
<1>3. \A k \in Nat : m <= k /\ k <= Len(calls) => k \in X
  BY <1>1, <1>2, FromOn
<1> QED BY <1>3 DEF X

\* Wired as after jtagkey_init, the pins reach the TAP and SRST is not pulled.
LEMMA WiredReaches ==
  ASSUME NEW chip, Wired(chip, 8, 27, 9, 15)
  PROVE  Reaches(chip) /\ ~SrstPulled(chip)
<1>1. Level(9, 1) = 1 /\ Level(27, 1) = 1 /\ Level(27, 2) = 1 /\ Level(27, 8) = 1
      /\ Level(27, 16) = 1 /\ Level(27, 4) = 0 /\ Level(8, 16) = 0 /\ Level(9, 8) = 1
  BY DEF Level
<1>2. ~TrstPulled(chip)
  BY <1>1 DEF TrstPulled, Pulled, Wired, nTRST
<1>3. ~SrstPulled(chip)
  BY <1>1 DEF SrstPulled, Pulled, Wired, nSRSTnOE
<1> QED BY <1>1, <1>2, <1>3 DEF Reaches, Wired, Low

LEMMA CallsApart ==
  /\ \A c \in {SetLow(8, 27), SetHigh(10, 15), SetHigh(9, 15)} : c.checked /\ c.call \in {"low", "high"}
  /\ Usb("loopback_off").checked /\ Usb("loopback_off").call = "loopback_off"
BY DEF SetLow, SetHigh, Usb

LEMMA LoopbackOff ==
  ASSUME NEW f, NEW calls, NEW lost, NEW n \in Nat, n = Len(calls), ChipBy(f, calls, lost), Made(f[0]),
         n > 1, calls[n - 1].call = "loopback_off", Quiet1(calls[n]), n - 1 \notin lost,
         f[n - 2].mode = "mpsse"
  PROVE  ~f[n].loopback
<1>1. n - 1 \in 1 .. n /\ n \in 1 .. n /\ n - 2 \in Nat /\ n - 2 <= n /\ (n - 1) - 1 = n - 2 /\ n - 1 \in Nat
      /\ n - 1 <= n
  OBVIOUS
<1>2. /\ f[n - 1] = Effect(f[n - 2], calls[n - 1])
      /\ f[n] = IF n \in lost THEN f[n - 1] ELSE Effect(f[n - 1], calls[n])
  BY <1>1 DEF ChipBy
<1>3. Made(f[n - 2]) /\ Made(f[n - 1])
  BY <1>1, ChipsMade
<1>e. /\ \A a, c : Made(a) /\ c.call = "loopback_off" /\ a.mode = "mpsse" => ~Effect(a, c).loopback
      /\ \A a, c : Made(a) /\ Quiet1(c) /\ ~a.loopback => ~Effect(a, c).loopback
  BY Effects
<1>4. ~f[n - 1].loopback
  BY <1>2, <1>3, <1>e, Zenon
<1>5. ~Effect(f[n - 1], calls[n]).loopback
  BY <1>3, <1>4, <1>e, Zenon
<1> QED BY <1>2, <1>4, <1>5, Zenon

LEMMA PinsWired ==
  ASSUME NEW f, NEW calls, NEW lost, Len(calls) \in Nat, ChipBy(f, calls, lost), Made(f[0]), NEW m \in Nat,
         m + 3 <= Len(calls), Setting(calls, m), f[m].mode = "mpsse",
         m + 1 \notin lost, m + 2 \notin lost, m + 3 \notin lost
  PROVE  Wired(f[m + 3], 8, 27, 9, 15)
<1>1. /\ m + 1 \in 1 .. Len(calls) /\ m + 2 \in 1 .. Len(calls) /\ m + 3 \in 1 .. Len(calls)
      /\ (m + 1) - 1 = m /\ (m + 2) - 1 = m + 1 /\ (m + 3) - 1 = m + 2
  OBVIOUS
<1>2. /\ f[m + 1] = Effect(f[m], calls[m + 1])
      /\ f[m + 2] = Effect(f[m + 1], calls[m + 2])
      /\ f[m + 3] = Effect(f[m + 2], calls[m + 3])
  BY <1>1 DEF ChipBy
<1>3. /\ f[m + 1] = Effect(f[m], SetLow(8, 27))
      /\ f[m + 2] = Effect(f[m + 1], SetHigh(10, 15))
      /\ f[m + 3] = Effect(f[m + 2], SetHigh(9, 15))
  BY <1>2 DEF Setting
<1>4. Made(f[m]) /\ Made(f[m + 1]) /\ Made(f[m + 2]) /\ Made(f[m + 3])
  <2>1. m <= Len(calls) /\ m + 1 <= Len(calls) /\ m + 2 <= Len(calls)
    OBVIOUS
  <2>2. m + 1 \in Nat /\ m + 2 \in Nat /\ m + 3 \in Nat
    OBVIOUS
  <2> QED BY <2>1, <2>2, ChipsMade
<1> DEFINE a == f[m]
           b == f[m + 1]
           c == f[m + 2]
           d == f[m + 3]
<1> HIDE DEF a, b, c, d
<1>5. /\ b = Effect(a, SetLow(8, 27)) /\ c = Effect(b, SetHigh(10, 15)) /\ d = Effect(c, SetHigh(9, 15))
      /\ Made(a) /\ Made(b) /\ Made(c) /\ Made(d) /\ a.mode = "mpsse"
  BY <1>3, <1>4 DEF a, b, c, d
<1>6. b.low = 8 /\ b.lowDir = 27
  BY <1>5, PinsSet
<1>7. b.mode = "mpsse"
  BY <1>5, CallsApart, Effects
<1>8. c.low = 8 /\ c.lowDir = 27
  <2>1. c.low = b.low /\ c.lowDir = b.lowDir
    BY <1>5, <1>7, PinsSet
  <2> QED BY <1>6, <2>1
<1>9. c.mode = "mpsse"
  BY <1>5, <1>7, CallsApart, Effects
<1>10. d.low = 8 /\ d.lowDir = 27 /\ d.high = 9 /\ d.highDir = 15
  <2>1. d.low = c.low /\ d.lowDir = c.lowDir /\ d.high = 9 /\ d.highDir = 15
    BY <1>5, <1>9, PinsSet
  <2> QED BY <1>8, <2>1
<1>11. d.mode = "mpsse"
  <2>1. SetHigh(9, 15).call \notin {"reset", "bitmode"}
    BY CallsApart
  <2>2. Effect(c, SetHigh(9, 15)).mode = c.mode
    BY <1>5, <2>1, Effects
  <2> QED BY <1>5, <1>9, <2>2
<1>12. Wired(d, 8, 27, 9, 15)
  BY <1>5, <1>10, <1>11 DEF Wired, Made, Fields
<1> QED BY <1>12 DEF d

\* ft2232_init leaves the FT2232 ready, or in the mode it was found in without MPSSE.
LEMMA Opens ==
  ASSUME NEW f, NEW calls, NEW m, SetsPins(calls, m), SetsMode(calls, m),
         m + 5 <= Len(calls), calls[Len(calls) - 1] = Usb("loopback_off"),
         NEW lost, \A k \in lost : k \in 1 .. Len(calls) /\ ~calls[k].checked,
         ChipBy(f, calls, lost), Made(f[0])
  PROVE  LET chip == f[Len(calls)]
         IN /\ Made(chip) /\ (chip.mode = "mpsse" => Ready(chip))
            /\ lost = {} => chip.mode = "mpsse"
<1> DEFINE n == Len(calls)
<1>1. /\ calls \in Seq(UsbCall) /\ m \in Nat \ {0} /\ Setting(calls, m)
      /\ \A k \in 1 .. Len(calls) : k > m + 3 => Quiet1(calls[k])
  BY DEF SetsPins
<1>2. n \in Nat /\ n \in 1 .. n /\ n - 1 \in 1 .. n /\ m <= n - 2 /\ n - 2 <= n /\ n - 2 \in Nat
      /\ m + 3 <= n /\ n > m + 3 /\ m + 3 \in Nat /\ n > 1
  BY <1>1
<1> HIDE DEF n
<1>3. m + 1 \notin lost /\ m + 2 \notin lost /\ m + 3 \notin lost /\ n - 1 \notin lost
  <2>1. calls[m + 1].checked /\ calls[m + 2].checked /\ calls[m + 3].checked
    BY <1>1, CallsApart DEF Setting
  <2>2. calls[n - 1].checked
    BY CallsApart DEF n
  <2> QED BY <2>1, <2>2
<1>4. ASSUME NEW k \in 1 .. n, k > m PROVE calls[k].call \notin {"reset", "bitmode"}
  <2>1. k = m + 1 \/ k = m + 2 \/ k = m + 3 \/ k > m + 3
    BY <1>1, <1>2, <1>4
  <2>2. CASE k > m + 3
    <3>1. Quiet1(calls[k])
      BY <1>1, <2>2 DEF n
    <3> QED BY <3>1 DEF Quiet1
  <2>3. CASE k = m + 1 \/ k = m + 2 \/ k = m + 3
    <3>1. calls[k] \in {SetLow(8, 27), SetHigh(10, 15), SetHigh(9, 15)}
      BY <1>1, <2>3 DEF Setting
    <3>2. calls[k].call \in {"low", "high"}
      BY <3>1, CallsApart
    <3> QED BY <3>2
  <2> QED BY <2>1, <2>2, <2>3
<1>5. \A k \in Nat : m <= k /\ k <= n => f[k].mode = f[m].mode
  <2>1. Len(calls) \in Nat /\ m \in Nat
    BY <1>1, <1>2 DEF n
  <2>2. \A k \in 1 .. Len(calls) : k > m => calls[k].call \notin {"reset", "bitmode"}
    BY <1>4 DEF n
  <2>3. \A k \in Nat : m <= k /\ k <= Len(calls) => f[k].mode = f[m].mode
    BY <2>1, <2>2, ModeKept
  <2> QED BY <2>3 DEF n
<1>6. Made(f[n])
  <2>1. Len(calls) \in Nat /\ n <= Len(calls)
    BY <1>2 DEF n
  <2> QED BY <1>2, <2>1, ChipsMade
<1>7. ASSUME f[n].mode = "mpsse" PROVE Ready(f[n])
  <2>1. f[m].mode = "mpsse" /\ f[n - 2].mode = "mpsse"
    BY <1>1, <1>2, <1>5, <1>7
  <2>2. Wired(f[m + 3], 8, 27, 9, 15)
    BY <1>1, <1>2, <1>3, <2>1, PinsWired DEF n
  <2>3. SameWires(f[n], f[m + 3])
    <3>1. \A k \in Nat : m + 3 <= k /\ k <= Len(calls) => SameWires(f[k], f[m + 3])
      BY <1>1, <1>2, WiresKept DEF n
    <3> QED BY <1>2, <3>1 DEF n
  <2>4. Wired(f[n], 8, 27, 9, 15)
    BY <1>6, <1>7, <2>2, <2>3 DEF Wired, SameWires, Made, Fields
  <2>5. ~f[n].loopback
    <3>1. Quiet1(calls[n])
      BY <1>1, <1>2 DEF n
    <3>2. n = Len(calls) /\ calls[n - 1].call = "loopback_off"
      BY CallsApart DEF n
    <3> QED BY <1>2, <1>3, <2>1, <3>1, <3>2, LoopbackOff
  <2> QED BY <2>4, <2>5, WiredReaches DEF Ready
<1>8. ASSUME lost = {} PROVE f[n].mode = "mpsse"
  <2>1. \A k \in 1 .. n : f[k] = Effect(f[k - 1], calls[k])
    BY <1>8 DEF ChipBy, n
  <2>2. \A k \in 1 .. n : Made(f[k - 1]) /\ Made(f[k])
    <3>1. Len(calls) \in Nat
      BY <1>2 DEF n
    <3>2. \A k \in Nat : k <= n => Made(f[k])
      BY <3>1, ChipsMade DEF n
    <3>3. \A k \in 1 .. n : k \in Nat /\ k - 1 \in Nat /\ k <= n /\ k - 1 <= n
      BY <1>2
    <3> QED BY <3>2, <3>3
  <2>e. /\ \A a, c : Made(a) /\ c.call = "bitmode" => Effect(a, c).mode = "mpsse"
        /\ \A a, c : Made(a) /\ c.call \notin {"reset", "bitmode"} => Effect(a, c).mode = a.mode
    BY Effects
  <2>3. ASSUME NEW k \in 1 .. n, calls[k].call = "bitmode" PROVE f[k].mode = "mpsse"
    <3>1. Made(f[k - 1])
      BY <2>2
    <3>2. Effect(f[k - 1], calls[k]).mode = "mpsse"
      BY <2>3, <2>e, <3>1, Zenon
    <3>3. f[k] = Effect(f[k - 1], calls[k])
      BY <2>1
    <3> QED BY <3>2, <3>3
  <2>4. m \in 1 .. n /\ (m > 1 => m - 1 \in 1 .. n)
    BY <1>1, <1>2
  <2>5. f[m].mode = "mpsse"
    <3>1. CASE calls[m].call = "bitmode"
      BY <2>3, <2>4, <3>1
    <3>2. CASE m > 1 /\ calls[m - 1].call = "bitmode" /\ calls[m].call = "info"
      <4>1. f[m - 1].mode = "mpsse" /\ Made(f[m - 1])
        BY <2>2, <2>3, <2>4, <3>2
      <4>2. f[m] = Effect(f[m - 1], calls[m])
        BY <2>1, <2>4
      <4>3. calls[m].call \notin {"reset", "bitmode"}
        BY <3>2
      <4>4. Effect(f[m - 1], calls[m]).mode = f[m - 1].mode
        BY <2>e, <4>1, <4>3, Zenon
      <4> QED BY <4>1, <4>2, <4>4
    <3> QED BY <3>1, <3>2 DEF SetsMode
  <2> QED BY <1>1, <1>2, <1>5, <2>5
<1> QED BY <1>6, <1>7, <1>8 DEF n

LEMMA ResetStays ==
  ASSUME NEW b, NEW d, On(b, d)
  PROVE  On(b, Reset(d))
<1> DEFINE e == Reset(d)
<1>1. e = [d EXCEPT !.tap = "TLR", !.ir = IDCODE]
  BY DEF Reset
<1> HIDE DEF e
<1>2. DOMAIN d = Registers
  BY DEF On
<1>3. /\ DOMAIN e = Registers /\ e.tap = "TLR" /\ e.cells = d.cells /\ e.id = d.id /\ e.float = d.float
      /\ e.sr = d.sr /\ e.tdo = d.tdo
  BY <1>1, <1>2 DEF Registers
<1>4. "TLR" \in TapState
  BY DEF TapState
<1>5. On(b, e)
  BY <1>3, <1>4 DEF On
<1> QED BY <1>5 DEF e

LEMMA BoardKept ==
  ASSUME NEW b, NEW start, On(b, start.dev), NEW calls, Len(calls) \in Nat, NEW lost,
         NEW made \in 0 .. Len(calls)
  PROVE  On(b, Calls(start, calls, lost)[made].dev)
<1>1. PICK after : Called(after, start, calls, lost) /\ Calls(start, calls, lost) = after
  BY CallByCall
<1> DEFINE X == {k \in Nat : On(b, after[k].dev)}
<1>2. ASSUME NEW k \in Nat, k > 0, k <= Len(calls), k - 1 \in X PROVE k \in X
  <2>1. k \in 1 .. Len(calls) /\ On(b, after[k - 1].dev)
    BY <1>2
  <2>2. after[k] = After(after[k - 1], calls[k], k \in lost)
    BY <1>1, <2>1 DEF Called
  <2>3. \A was, c : \/ After(was, c, k \in lost).dev = was.dev
                    \/ After(was, c, k \in lost).dev = Reset(was.dev)
    BY DEF After
  <2>4. after[k].dev = after[k - 1].dev \/ after[k].dev = Reset(after[k - 1].dev)
    BY <2>2, <2>3
  <2>5. On(b, Reset(after[k - 1].dev))
    BY <2>1, ResetStays
  <2>6. On(b, after[k].dev)
    BY <2>1, <2>4, <2>5, Zenon
  <2> QED BY <2>6
<1>3. 0 \in X
  <2>1. after[0] = start
    BY <1>1 DEF Called
  <2> QED BY <2>1
<1> HIDE DEF X
<1>4. \A k \in Nat : 0 <= k /\ k <= Len(calls) => k \in X
  BY <1>2, <1>3, FromOn
<1>5. made \in X
  BY <1>4
<1> QED BY <1>1, <1>5 DEF X

\* Whatever FT2232 was found: once all calls were made it is ready, or, where the
\* bit mode was lost unseen, not in MPSSE mode.
LEMMA Opened ==
  ASSUME NEW build, NEW highspeed \in BOOLEAN, NEW start, Made(start.chip),
         NEW lost \in Unseen(ft2232_init(build, highspeed))
  PROVE  LET calls == ft2232_init(build, highspeed)
             now == Calls(start, calls, lost)[Len(calls)]
         IN /\ Made(now.chip) /\ (now.chip.mode = "mpsse" => Ready(now.chip))
            /\ (lost = {} => now.chip.mode = "mpsse") /\ now.rx = <<>>
<1> DEFINE calls == ft2232_init(build, highspeed)
<1>1. PICK m : /\ SetsPins(calls, m) /\ SetsMode(calls, m)
               /\ m + 5 <= Len(calls) /\ calls[Len(calls) - 1] = Usb("loopback_off")
  BY InitSets
<1>2. Len(calls) \in Nat \ {0} /\ calls[Len(calls)].call = "purge"
  BY InitPurges
<1>3. lost \in Unseen(calls)
  OBVIOUS
<1> HIDE DEF calls
<1>4. \A k \in lost : k \in 1 .. Len(calls) /\ ~calls[k].checked
  <2>1. DOMAIN calls = 1 .. Len(calls)
    BY <1>1 DEF SetsPins
  <2>2. lost \in SUBSET {k \in DOMAIN calls : ~calls[k].checked}
    BY <1>3 DEF Unseen
  <2> QED BY <2>1, <2>2
<1>5. PICK f : /\ ChipBy(f, calls, lost) /\ f[0] = start.chip
               /\ \A k \in 0 .. Len(calls) : Calls(start, calls, lost)[k].chip = f[k]
  BY <1>2, ChipByChip
<1>6. Made(f[0])
  BY <1>5
<1>7. /\ Made(f[Len(calls)]) /\ (f[Len(calls)].mode = "mpsse" => Ready(f[Len(calls)]))
      /\ lost = {} => f[Len(calls)].mode = "mpsse"
  BY <1>1, <1>4, <1>5, <1>6, Opens
<1>8. Len(calls) \in 0 .. Len(calls) /\ Len(calls) > 0
  BY <1>2
<1>9. Calls(start, calls, lost)[Len(calls)].chip = f[Len(calls)]
  BY <1>5, <1>8
<1>10. Calls(start, calls, lost)[Len(calls)].rx = <<>>
  BY <1>2, <1>8, CallsReceive
<1> QED BY <1>7, <1>9, <1>10 DEF calls

LEMMA QuitKeepsMode ==
  ASSUME NEW start, Made(start.chip), NEW made \in 0 .. Len(ft2232_quit)
  PROVE  Calls(start, ft2232_quit, {})[made].chip.mode = start.chip.mode
<1> DEFINE calls == ft2232_quit
<1>1. calls = << SetHigh(0, 15), SetHigh(15, 15), Unchecked(Usb("close")) >>
  BY DEF ft2232_quit
<1>2. Len(calls) = 3 /\ calls[1] = SetHigh(0, 15) /\ calls[2] = SetHigh(15, 15) /\ calls[3] = Unchecked(Usb("close"))
  BY <1>1
<1>3. \A k \in 1 .. Len(calls) : calls[k].call \notin {"reset", "bitmode"}
  <2>1. \A v : SetHigh(v, 15).call = "high"
    BY DEF SetHigh
  <2>2. Unchecked(Usb("close")).call = "close"
    BY CallsNamed
  <2> HIDE DEF calls
  <2>3. \A k \in 1 .. Len(calls) : k = 1 \/ k = 2 \/ k = 3
    BY <1>2
  <2> QED BY <1>2, <2>1, <2>2, <2>3
<1> HIDE DEF calls
<1>4. Len(calls) \in Nat
  BY <1>2
<1>5. PICK f : /\ ChipBy(f, calls, {}) /\ f[0] = start.chip
               /\ \A k \in 0 .. Len(calls) : Calls(start, calls, {})[k].chip = f[k]
  BY <1>4, ChipByChip
<1>6. Made(f[0])
  BY <1>5
<1>7. \A k \in Nat : 0 <= k /\ k <= Len(calls) => f[k].mode = f[0].mode
  <2>1. 0 \in Nat /\ \A k \in 1 .. Len(calls) : k > 0 => calls[k].call \notin {"reset", "bitmode"}
    BY <1>3
  <2> QED BY <1>4, <1>5, <1>6, <2>1, ModeKept
<1>8. made \in 0 .. Len(calls) /\ made \in Nat /\ 0 <= made /\ made <= Len(calls)
  BY <1>4 DEF calls
<1>9. f[made].mode = f[0].mode
  BY <1>7, <1>8
<1>10. Calls(start, calls, {})[made].chip = f[made]
  BY <1>5, <1>8
<1> QED BY <1>5, <1>9, <1>10 DEF calls

LEMMA ConfiguredReady == Made(Configured) /\ Ready(Configured)
<1> DEFINE start == [chip |-> Plugged, dev |-> Device("TLR", <<>>, <<>>, 1), rx |-> <<>>]
           calls == ft2232_init("libftdi", FALSE)
           now == Calls(start, calls, {})[Len(calls)]
<1>1. Made(start.chip)
  BY DEF Plugged, Chip, Made, Fields
<1>2. {} \in Unseen(ft2232_init("libftdi", FALSE)) /\ FALSE \in BOOLEAN
  BY DEF Unseen
<1> HIDE DEF start
<1>3. Made(now.chip) /\ (now.chip.mode = "mpsse" => Ready(now.chip)) /\ now.chip.mode = "mpsse"
  BY <1>1, <1>2, Opened
<1>4. Configured = now.chip
  BY DEF Configured, start
<1> QED BY <1>3, <1>4

-----------------------------------------------------------------------------
(* The jobs *)

LEMMA IdsInBits == IdCodes \subseteq [1 .. 32 -> Bit]
<1>1. ASSUME NEW b \in {<<157, 64, 50, 0>>, <<157, 80, 235, 0>>}
      PROVE  bytes2binstr([k \in 1 .. 4 |-> Bits(b[k])], 32) \in [1 .. 32 -> Bit]
  <2> DEFINE q == [k \in 1 .. 4 |-> Bits(b[k])]
  <2>1. \A k \in 1 .. 4 : b[k] \in Nat
    OBVIOUS
  <2>2. \A k \in 1 .. 4 : q[k] \in Octet
    BY <2>1, BitsTyped
  <2> HIDE DEF q
  <2>3. \A k \in 1 .. 32 : (k - 1) \div 8 + 1 \in 1 .. 4 /\ (k - 1) % 8 \in 0 .. 7
    OBVIOUS
  <2>4. \A k \in 1 .. 32 : q[(k - 1) \div 8 + 1][(k - 1) % 8] \in Bit
    BY <2>2, <2>3 DEF Octet
  <2>5. bytes2binstr(q, 32) \in [1 .. 32 -> Bit]
    BY <2>4 DEF bytes2binstr
  <2> QED BY <2>5 DEF q
<1>2. \A s : [k \in 1 .. 32 |-> IF (k % 5) \in s THEN 1 ELSE 0] \in [1 .. 32 -> Bit]
  BY DEF Bit
<1> QED BY <1>1, <1>2 DEF IdCodes, CPUIDs

\* Four of the program's own commands are the id of no CPU it knows.
LEMMA OwnUnknown == bytes2binstr([k \in 1 .. 4 |-> OwnCommands[k]], 32) \notin CPUIDs
<1>1. \A q : bytes2binstr(q, 32)[2] = q[1][1]
  <2>1. 2 \in 1 .. 32 /\ (2 - 1) \div 8 + 1 = 1 /\ (2 - 1) % 8 = 1
    OBVIOUS
  <2> QED BY <2>1 DEF bytes2binstr
<1>2. Bits(75)[1] = 1 /\ Bits(157)[1] = 0
  <2>1. Bits(75)[1] = (75 \div 2) % 2 /\ Bits(157)[1] = (157 \div 2) % 2
    BY BitsOf
  <2>2. (75 \div 2) % 2 = 1 /\ (157 \div 2) % 2 = 0
    OBVIOUS
  <2> QED BY <2>1, <2>2
<1>3. [k \in 1 .. 4 |-> OwnCommands[k]][1] = Bits(75)
  BY DEF OwnCommands
<1>4. ASSUME NEW b \in {<<157, 64, 50, 0>>, <<157, 80, 235, 0>>}
      PROVE  [k \in 1 .. 4 |-> Bits(b[k])][1] = Bits(157)
  <2>1. b[1] = 157 /\ 1 \in 1 .. 4
    OBVIOUS
  <2> QED BY <2>1
<1>5. \A id \in CPUIDs : id[2] = 0
  BY <1>1, <1>2, <1>4 DEF CPUIDs
<1>6. bytes2binstr([k \in 1 .. 4 |-> OwnCommands[k]], 32)[2] = 1
  BY <1>1, <1>2, <1>3
<1> QED BY <1>5, <1>6

\* What the jobs that scan or read an id are.
Cables == {"openjtag"} \cup Ppt
Comes(j) ==
  /\ j.cable \in Cables /\ j.highspeed \in BOOLEAN /\ j.float \in Bit /\ j.from \in TapState
  /\ j.found \in {Plugged, LeftOpen}
  /\ j.opens = 0 \/ j.cable # "openjtag" => j.found = Plugged
ScanJob(j) ==
  /\ Comes(j) /\ j.kind = "scan" /\ j.opens \in {0, 1}
  /\ \E n \in Nat \ {0} : j.first \in [1 .. n -> Bit] /\ j.wr \in [1 .. n -> Bit] /\ j.cells \in [1 .. n -> Bit]
IdJob(j) ==
  /\ Comes(j) /\ j.kind = "id" /\ j.opens \in {1, 2} /\ (j.cable = "openjtag" => j.opens = 1)
  /\ j.id \in [1 .. 32 -> Bit]

LEMMA IdJobs ==
  ASSUME NEW s \in TapState, NEW id \in IdCodes, NEW fl \in Bit,
         NEW u \in Openings \cup {NoPort} \cup OnPort(2), NEW j, j = Id(s, id, fl, u)
  PROVE  IdJob(j)
<1>1. id \in [1 .. 32 -> Bit]
  BY IdsInBits
<1>2. CASE u \in Openings
  <2>1. PICK b \in {"libftdi", "ftd2xx"}, h \in BOOLEAN, f \in {Plugged, LeftOpen} : u = Opening(b, h, f)
    BY <1>2 DEF Openings
  <2>2. /\ j.cable = "openjtag" /\ j.highspeed = h /\ j.float = fl /\ j.from = s /\ j.found = f
        /\ j.opens = 1 /\ j.kind = "id" /\ j.id = id
    BY <2>1 DEF Id, Opening, Usual
  <2> QED BY <1>1, <2>2 DEF IdJob, Comes, Cables
<1>3. ASSUME NEW c \in Ppt, NEW p, NEW n \in {1, 2}, u = Port(c, n, p) PROVE IdJob(j)
  <2>2. /\ j.cable = c /\ j.highspeed = FALSE /\ j.float = fl /\ j.from = s /\ j.found = Plugged
        /\ j.opens = n /\ j.kind = "id" /\ j.id = id
    BY <1>3 DEF Id, Port, Usual
  <2>3. c # "openjtag"
    BY DEF Ppt
  <2> QED BY <1>1, <2>2, <2>3 DEF IdJob, Comes, Cables
<1>4. CASE u = NoPort
  <2>1. u = Port("dongle", 1, {}) /\ "dongle" \in Ppt
    BY <1>4 DEF NoPort, Ppt
  <2> QED BY <1>3, <2>1
<1>5. CASE u \in OnPort(2)
  <2>1. PICK c \in {"dongle", "wiggler"}, q \in {{1}, {2, 3}} : u = Port(c, 2, q)
    BY <1>5 DEF OnPort
  <2> QED BY <1>3, <2>1 DEF Ppt
<1> QED BY <1>2, <1>4, <1>5

LEMMA ScanJobs ==
  ASSUME NEW n \in Lengths, NEW first \in Cells[n], NEW wr \in Cells[n], NEW c \in Cells[n],
         NEW s \in TapState, NEW fl \in Bit, NEW u \in {Usual, LoopedBack} \cup OnPort(1),
         NEW j, j = Scan(s, first, wr, c, fl, u)
  PROVE  ScanJob(j)
<1>1. n \in Nat \ {0} /\ first \in [1 .. n -> Bit] /\ wr \in [1 .. n -> Bit] /\ c \in [1 .. n -> Bit]
  BY RunAssumption, CellsAssumption
<1> DEFINE Full == j.first = first /\ j.wr = wr /\ j.cells = c /\ j.kind = "scan" /\ j.from = s /\ j.float = fl
<1>2. ASSUME Full, Comes(j), j.opens \in {0, 1} PROVE ScanJob(j)
  BY <1>1, <1>2 DEF ScanJob
<1>3. CASE u = Usual
  <2>1. Full /\ j.cable = "openjtag" /\ j.highspeed = FALSE /\ j.found = Plugged /\ j.opens = 0
    BY <1>3 DEF Scan, Usual
  <2>2. Comes(j)
    BY <2>1 DEF Comes, Cables
  <2> QED BY <1>2, <2>1, <2>2
<1>4. CASE u = LoopedBack
  <2>1. Full
    BY <1>4 DEF Scan, LoopedBack, Opening, Usual
  <2>2. j.cable = "openjtag"
    BY <1>4 DEF Scan, LoopedBack, Opening, Usual
  <2>3. j.highspeed = FALSE /\ j.opens = 1
    BY <1>4 DEF Scan, LoopedBack, Opening, Usual
  <2>4. j.found = LeftOpen
    BY <1>4 DEF Scan, LoopedBack, Opening, Usual
  <2>5. j.cable \in Cables
    BY <2>2 DEF Cables
  <2>6. j.highspeed \in BOOLEAN
    BY <2>3
  <2>7. ~(j.opens = 0 \/ j.cable # "openjtag")
    BY <2>2, <2>3
  <2>8. Comes(j)
    BY <2>1, <2>4, <2>5, <2>6, <2>7 DEF Comes
  <2> QED BY <1>2, <2>1, <2>3, <2>8
<1>5. CASE u \in OnPort(1)
  <2>1. PICK o \in {"dongle", "wiggler"}, q \in {{1}, {2, 3}} : u = Port(o, 1, q)
    BY <1>5 DEF OnPort
  <2>2. Full /\ j.cable = o /\ j.highspeed = FALSE /\ j.found = Plugged /\ j.opens = 1
    BY <2>1 DEF Scan, Port, Usual
  <2>3. Comes(j)
    BY <2>2 DEF Comes, Cables, Ppt
  <2> QED BY <1>2, <2>2, <2>3
<1> QED BY <1>3, <1>4, <1>5

LEMMA JobsSplit ==
  ASSUME NEW j \in Jobs, j.kind \in {"scan", "id"}
  PROVE  ScanJob(j) \/ IdJob(j)
<1>1. ~\E s, t \in Stable : j = Move(s, t)
  <2>1. \A s, t : Move(s, t).kind = "move"
    BY DEF Move, Usual
  <2> QED BY <2>1
<1>2. CASE \E s \in TapState, id \in IdCodes, fl \in Bit :
              \E u \in Openings \cup {NoPort} \cup OnPort(2) : j = Id(s, id, fl, u)
  BY <1>2, IdJobs, Zenon
<1>3. CASE \E n \in Lengths : \E first, wr, c \in Cells[n] : \E s \in TapState, fl \in Bit :
              \E u \in {Usual, LoopedBack} \cup OnPort(1) : j = Scan(s, first, wr, c, fl, u)
  BY <1>3, ScanJobs, Zenon
<1> QED BY <1>1, <1>2, <1>3, JobsByKind, Zenon

-----------------------------------------------------------------------------
(* Where a job is *)

BoardOf(j) == [cells |-> Found(j).cells, id |-> Found(j).id, float |-> j.float]

LEMMA BoardTyped ==
  ASSUME NEW j, ScanJob(j) \/ IdJob(j)
  PROVE  /\ BoardOf(j) \in Board /\ On(BoardOf(j), Found(j))
         /\ ScanJob(j) => BoardOf(j).cells = j.cells
         /\ IdJob(j) => BoardOf(j).id = j.id
<1> DEFINE cells == IF j.kind = "scan" THEN j.cells ELSE <<0, 1>>
           id == IF j.kind = "id" THEN j.id ELSE [k \in 1 .. 32 |-> k % 2]
<1>1. Found(j) = [tap |-> j.from, ir |-> IDCODE, sr |-> <<>>, latch |-> <<>>, cells |-> cells,
                  id |-> id, float |-> j.float, tdo |-> <<>>]
  BY DEF Found, Device
<1>2. j.float \in Bit /\ j.from \in TapState
  BY DEF ScanJob, IdJob, Comes
<1>3. \A n \in Nat : [1 .. n -> Bit] \subseteq Seq(Bit)
  OBVIOUS
<1>4. cells \in Seq(Bit)
  <2>1. ScanJob(j) => j.cells \in Seq(Bit)
    BY <1>3 DEF ScanJob
  <2>2. IdJob(j) => j.kind # "scan"
    BY DEF IdJob
  <2>3. <<0, 1>> \in Seq(Bit)
    BY DEF Bit
  <2> QED BY <2>1, <2>2, <2>3
<1>5. id \in Seq(Bit)
  <2>1. IdJob(j) => j.id \in Seq(Bit)
    <3>1. 32 \in Nat
      OBVIOUS
    <3> QED BY <1>3, <3>1 DEF IdJob
  <2>2. ScanJob(j) => j.kind # "id"
    BY DEF ScanJob
  <2>3. [k \in 1 .. 32 |-> k % 2] \in Seq(Bit)
    <3>1. [k \in 1 .. 32 |-> k % 2] \in [1 .. 32 -> Bit] /\ 32 \in Nat
      BY DEF Bit
    <3> QED BY <1>3, <3>1
  <2> QED BY <2>1, <2>2, <2>3
<1>6. /\ ScanJob(j) => cells = j.cells
      /\ IdJob(j) => id = j.id
  BY DEF ScanJob, IdJob
<1> HIDE DEF cells, id
<1>7. Found(j).cells = cells /\ Found(j).id = id
  BY <1>1
<1>8. BoardOf(j) = [cells |-> cells, id |-> id, float |-> j.float]
  BY <1>7 DEF BoardOf
<1>9. BoardOf(j) \in Board
  BY <1>2, <1>4, <1>5, <1>8 DEF Board
<1>10. On(BoardOf(j), Found(j))
  <2> DEFINE d == Found(j)
             b == BoardOf(j)
  <2>1. /\ DOMAIN d = Registers /\ d.cells = cells /\ d.id = id /\ d.float = j.float /\ d.tap = j.from
        /\ d.sr = <<>> /\ d.tdo = <<>>
    BY <1>1 DEF Registers
  <2>2. b.cells = cells /\ b.id = id /\ b.float = j.float
    BY <1>8
  <2>3. <<>> \in Seq(Bit)
    OBVIOUS
  <2> HIDE DEF d, b
  <2>4. On(b, d)
    BY <1>2, <2>1, <2>2, <2>3 DEF On
  <2> QED BY <2>4 DEF b, d
<1> QED BY <1>6, <1>8, <1>9, <1>10

\* With n operations left and e bytes expected: a scan, and an id.
Waiting(name, s) == IF name = "openjtag" THEN s.rx = <<>> ELSE Dry(s)
ScanAt(j, n, e, s) ==
  LET b == BoardOf(j)
  IN /\ n \in 0 .. 4 /\ Live(b, s)
     /\ n > 0 => e = 0 /\ Waiting(j.cable, s)
     /\ n = 3 => \E sr, l : Stands(b, s, "RTI", IDCODE, sr, l)
     /\ n = 2 => \E l : Stands(b, s, "RTI", EXTEST, EXTEST, l)
     /\ n = 1 => Stands(b, s, "RTI", EXTEST, j.first, j.first)
     /\ n = 0 => /\ Stands(b, s, "RTI", EXTEST, j.wr, j.wr)
                 /\ IF e = 0 THEN s.rd = j.cells
                    ELSE j.cable = "openjtag" /\ Replies(s.rx, j.cells, Len(j.cells))
IdAt(j, n, e, s) ==
  /\ n \in 0 .. 3 /\ Live(BoardOf(j), s)
  /\ n \in {1, 3} => e = 0 /\ Waiting(j.cable, s)
  /\ n \in {0, 2} => IF e = 0 THEN s.rd = j.id
                     ELSE j.cable = "openjtag" /\ e = 4 /\ s.rx = Wholes(j.id, 0, 4)

\* The operation with n left, and how many bytes the OpenJTAG is to send back for it.
Due(j, n) ==
  IF j.kind = "scan"
  THEN IF n = 5 THEN [op |-> "open"]
       ELSE IF n = 4 THEN [op |-> "idle"]
       ELSE IF n = 3 THEN [op |-> "ir", str |-> EXTEST]
       ELSE IF n = 2 THEN [op |-> "dr", str |-> j.first, read |-> FALSE]
       ELSE [op |-> "dr", str |-> j.wr, read |-> TRUE]
  ELSE IF n \in {2, 4} THEN [op |-> "open"] ELSE [op |-> "id"]
Expected(j, o) ==
  IF j.cable # "openjtag" THEN 0
  ELSE CASE o.op = "id" -> 4
         [] o.op = "dr" /\ o.read -> ft2232_predict_scan_in(Len(j.wr))
         [] OTHER -> 0

\* The commands or accesses of an operation.
Operated(name, o) ==
  IF name = "openjtag" THEN Commands(o)
  ELSE IF name = "dongle" THEN Dongle_opr(o) ELSE Wiggler_opr(o)
Kinds(name) == IF name = "openjtag" THEN Command ELSE Accesses
Does(name, q, s, t) == q \in Seq(Kinds(name)) /\ Runs(name, q, s, t)

LEMMA DueOperated ==
  /\ \A o : o.op = "id" => /\ Operated("openjtag", o) = ft2232_readID
                           /\ \A name \in Ppt : Operated(name, o) = JTAG_ReadId
  /\ \A o : o.op = "idle" => /\ Operated("openjtag", o) = OpenJTAG_RunTestIdle
                             /\ \A name \in Ppt : Operated(name, o) = JTAG_RunTestldleState
  /\ \A o : o.op = "ir" => /\ Operated("openjtag", o) = OpenJTAG_ShiftIRState(o.str)
                           /\ \A name \in Ppt : Operated(name, o) = JTAG_ShiftIRState(o.str)
  /\ \A o : o.op = "dr" /\ o.read \in BOOLEAN =>
       /\ Operated("openjtag", o) = OpenJTAG_ShiftDRState(o.str, o.read)
       /\ \A name \in Ppt : Operated(name, o) = PortScan(o.str, o.read)
<1>1. Wiggler_JTAG_RunTestldleState = JTAG_RunTestldleState
  <2>1. [k \in 1 .. 6 |-> 1] = <<1, 1, 1, 1, 1, 1>>
    OBVIOUS
  <2> QED BY <2>1, Zenon DEF Wiggler_JTAG_RunTestldleState, Wiggler_JTAG_Reset, JTAG_RunTestldleState, JTAG_Reset
<1>2. ASSUME NEW o, o.op = "id" PROVE /\ Operated("openjtag", o) = ft2232_readID
                                      /\ \A name \in Ppt : Operated(name, o) = JTAG_ReadId
  BY <1>2 DEF Operated, Commands, Dongle_opr, Wiggler_opr, Wiggler_JTAG_ReadId, Ppt
<1>3. ASSUME NEW o, o.op = "idle" PROVE /\ Operated("openjtag", o) = OpenJTAG_RunTestIdle
                                        /\ \A name \in Ppt : Operated(name, o) = JTAG_RunTestldleState
  BY <1>1, <1>3 DEF Operated, Commands, Dongle_opr, Wiggler_opr, Ppt
<1>4. ASSUME NEW o, o.op = "ir" PROVE /\ Operated("openjtag", o) = OpenJTAG_ShiftIRState(o.str)
                                      /\ \A name \in Ppt : Operated(name, o) = JTAG_ShiftIRState(o.str)
  BY <1>4 DEF Operated, Commands, Dongle_opr, Wiggler_opr, Wiggler_JTAG_ShiftIRState, Ppt
<1>5. ASSUME NEW o, o.op = "dr", o.read \in BOOLEAN
      PROVE  /\ Operated("openjtag", o) = OpenJTAG_ShiftDRState(o.str, o.read)
             /\ \A name \in Ppt : Operated(name, o) = PortScan(o.str, o.read)
  <2>1. \A str : JTAG_ShiftDRState(str) = PortScan(str, TRUE) /\ JTAG_ShiftDRStateNoTdo(str) = PortScan(str, FALSE)
    BY Zenon DEF JTAG_ShiftDRState, JTAG_ShiftDRStateNoTdo, PortScan
  <2>2. Operated("openjtag", o) = OpenJTAG_ShiftDRState(o.str, o.read)
    BY <1>5 DEF Operated, Commands
  <2>3. CASE o.read = TRUE
    BY <1>5, <2>1, <2>2, <2>3 DEF Operated, Dongle_opr, Wiggler_opr, Wiggler_JTAG_ShiftDRState, Ppt
  <2>4. CASE o.read = FALSE
    BY <1>5, <2>1, <2>2, <2>4 DEF Operated, Dongle_opr, Wiggler_opr, Wiggler_JTAG_ShiftDRStateNoTdo, Ppt
  <2> QED BY <1>5, <2>3, <2>4
<1> QED BY <1>2, <1>3, <1>4, <1>5

LEMMA GoneDoes ==
  ASSUME NEW q, NEW s, NEW t, NEW back, Goes(q, s, t, back), s.rx = <<>>
  PROVE  Does("openjtag", q, s, t) /\ t.rx = back
<1>1. q \in Seq(Command) /\ back \in Seq(Octet) /\ Runs("openjtag", q, s, t) /\ t.rx = <<>> \o back
  BY DEF Goes
<1>2. <<>> \o back = back
  BY <1>1
<1> QED BY <1>1, <1>2 DEF Does, Kinds

LEMMA CarriedDoes ==
  ASSUME NEW name \in Ppt, NEW q, NEW s, NEW t, NEW outs, Carries(name, q, s, t, outs), Dry(s)
  PROVE  Does(name, q, s, t) /\ Dry(t) /\ (s.rd = <<>> => t.rd = outs)
<1>1. q \in Seq(Accesses) /\ outs \in Seq(Bit) /\ Runs(name, q, s, t) /\ t.rd = s.rd \o outs
  BY DEF Carries
<1>2. name # "openjtag"
  BY DEF Ppt
<1>3. s.rd \in Seq(Bit)
  BY DEF Dry
<1> DEFINE r == s.rd
           u == t.rd
<1>4. r \in Seq(Bit) /\ u = r \o outs
  BY <1>1, <1>3
<1> HIDE DEF r, u
<1>5. u \in Seq(Bit) /\ (r = <<>> => u = outs)
  <2>1. r \o outs \in Seq(Bit) /\ <<>> \o outs = outs
    BY <1>1, <1>4
  <2> QED BY <1>4, <2>1
<1> QED BY <1>1, <1>2, <1>5 DEF Does, Kinds, Dry, r, u

LEMMA WaitingFresh ==
  ASSUME NEW s, Waiting("openjtag", s)
  PROVE  Fresh(s) /\ s.rx = <<>>
<1>1. s.rx = <<>>
  BY DEF Waiting
<1>2. <<>> \in Seq(Octet)
  OBVIOUS
<1> QED BY <1>1, <1>2 DEF Fresh

LEMMA IdleDone ==
  ASSUME NEW b \in Board, NEW name \in Cables, NEW s, Live(b, s), Waiting(name, s), NEW o, o.op = "idle"
  PROVE  \E t, sr, l : /\ Does(name, Operated(name, o), s, t) /\ Waiting(name, t)
                       /\ Stands(b, t, "RTI", IDCODE, sr, l)
<1>1. CASE name = "openjtag"
  <2>1. Fresh(s) /\ s.rx = <<>> /\ Operated(name, o) = OpenJTAG_RunTestIdle
    BY <1>1, WaitingFresh, DueOperated
  <2>2. PICK t, sr, l : Goes(OpenJTAG_RunTestIdle, s, t, <<>>) /\ Stands(b, t, "RTI", IDCODE, sr, l)
    BY <2>1, IdleGo
  <2>3. Does(name, Operated(name, o), s, t) /\ t.rx = <<>>
    BY <1>1, <2>1, <2>2, GoneDoes
  <2> QED BY <1>1, <2>2, <2>3 DEF Waiting
<1>2. CASE name # "openjtag"
  <2>1. name \in Ppt /\ Dry(s)
    BY <1>2 DEF Cables, Waiting
  <2>2. Operated(name, o) = JTAG_RunTestldleState
    BY <2>1, DueOperated
  <2>3. PICK t, sr, l : /\ Carries(name, JTAG_RunTestldleState, s, t, <<>>)
                        /\ Stands(b, t, "RTI", IDCODE, sr, l)
    BY <2>1, PortIdle
  <2>4. Does(name, Operated(name, o), s, t) /\ Dry(t)
    BY <2>1, <2>2, <2>3, CarriedDoes
  <2> QED BY <1>2, <2>3, <2>4 DEF Waiting
<1> QED BY <1>1, <1>2

LEMMA InstructionDone ==
  ASSUME NEW b \in Board, NEW name \in Cables, NEW s, Waiting(name, s), NEW i, NEW sr, NEW l,
         Stands(b, s, "RTI", i, sr, l), NEW o, o.op = "ir", o.str = EXTEST
  PROVE  \E t : /\ Does(name, Operated(name, o), s, t) /\ Waiting(name, t)
                /\ Stands(b, t, "RTI", EXTEST, EXTEST, l)
<1>1. CASE name = "openjtag"
  <2>1. Fresh(s) /\ s.rx = <<>> /\ Operated(name, o) = OpenJTAG_ShiftIRState(EXTEST)
    BY <1>1, WaitingFresh, DueOperated
  <2>2. PICK t : Goes(OpenJTAG_ShiftIRState(EXTEST), s, t, <<>>) /\ Stands(b, t, "RTI", EXTEST, EXTEST, l)
    BY <2>1, InstructionGo
  <2>3. Does(name, Operated(name, o), s, t) /\ t.rx = <<>>
    BY <1>1, <2>1, <2>2, GoneDoes
  <2> QED BY <1>1, <2>2, <2>3 DEF Waiting
<1>2. CASE name # "openjtag"
  <2>1. name \in Ppt /\ Dry(s)
    BY <1>2 DEF Cables, Waiting
  <2>2. Operated(name, o) = JTAG_ShiftIRState(EXTEST)
    BY <2>1, DueOperated
  <2>3. PICK t : /\ Carries(name, JTAG_ShiftIRState(EXTEST), s, t, <<>>)
                 /\ Stands(b, t, "RTI", EXTEST, EXTEST, l)
    BY <2>1, PortInstruction
  <2>4. Does(name, Operated(name, o), s, t) /\ Dry(t)
    BY <2>1, <2>2, <2>3, CarriedDoes
  <2> QED BY <1>2, <2>3, <2>4 DEF Waiting
<1> QED BY <1>1, <1>2

\* What a data scan gives back, over the OpenJTAG and over the ports.
Answers(name, read, t, from, n) ==
  IF ~read THEN Waiting(name, t)
  ELSE IF name = "openjtag" THEN Replies(t.rx, from, n) ELSE t.rd = from

LEMMA ScanDone ==
  ASSUME NEW b \in Board, NEW name \in Cables, NEW s, Waiting(name, s), NEW sr, NEW l,
         Stands(b, s, "RTI", EXTEST, sr, l), NEW n \in Nat \ {0}, NEW from \in [1 .. n -> Bit],
         from = b.cells, NEW in \in [1 .. n -> Bit], NEW read \in BOOLEAN,
         read /\ name # "openjtag" => s.rd = <<>>,
         NEW o, o.op = "dr", o.str = in, o.read = read
  PROVE  \E t : /\ Does(name, Operated(name, o), s, t) /\ Answers(name, read, t, from, n)
                /\ Stands(b, t, "RTI", EXTEST, in, in)
<1>0. EXTEST # IDCODE
  BY DEF EXTEST, IDCODE
<1>1. CASE name = "openjtag"
  <2>1. Fresh(s) /\ s.rx = <<>> /\ Operated(name, o) = OpenJTAG_ShiftDRState(in, read)
    BY <1>1, WaitingFresh, DueOperated
  <2>2. PICK t, back : /\ Goes(OpenJTAG_ShiftDRState(in, read), s, t, back)
                       /\ Reads(read, back, from, n) /\ Stands(b, t, "RTI", EXTEST, in, in)
    BY <1>0, <2>1, ScanGo
  <2>3. Does(name, Operated(name, o), s, t) /\ t.rx = back
    BY <1>1, <2>1, <2>2, GoneDoes
  <2>4. Answers(name, read, t, from, n)
    BY <1>1, <2>2, <2>3 DEF Answers, Reads, Waiting
  <2> QED BY <2>2, <2>3, <2>4
<1>2. CASE name # "openjtag"
  <2>1. name \in Ppt /\ Dry(s)
    BY <1>2 DEF Cables, Waiting
  <2>2. Operated(name, o) = PortScan(in, read)
    BY <2>1, DueOperated
  <2>3. PICK t : /\ Carries(name, PortScan(in, read), s, t, Heard(read, from))
                 /\ Stands(b, t, "RTI", EXTEST, in, in)
    BY <1>0, <2>1, PortScans
  <2>4. Does(name, Operated(name, o), s, t) /\ Dry(t) /\ (s.rd = <<>> => t.rd = Heard(read, from))
    BY <2>1, <2>2, <2>3, CarriedDoes
  <2>5. Answers(name, read, t, from, n)
    BY <1>2, <2>4 DEF Answers, Heard, Waiting
  <2> QED BY <2>3, <2>4, <2>5
<1> QED BY <1>1, <1>2

\* The id given back.
Tells(name, t, b) == IF name = "openjtag" THEN t.rx = Wholes(b.id, 0, 4) ELSE t.rd = b.id

LEMMA IdDone ==
  ASSUME NEW b \in Board, b.id \in [1 .. 32 -> Bit], NEW name \in Cables, NEW s, Live(b, s), Waiting(name, s),
         name # "openjtag" => s.rd = <<>>, NEW o, o.op = "id"
  PROVE  \E t : Does(name, Operated(name, o), s, t) /\ Live(b, t) /\ Tells(name, t, b)
<1>1. CASE name = "openjtag"
  <2>1. Fresh(s) /\ s.rx = <<>> /\ Operated(name, o) = ft2232_readID
    BY <1>1, WaitingFresh, DueOperated
  <2>2. PICK t, sr, l : Goes(ft2232_readID, s, t, Wholes(b.id, 0, 4)) /\ Stands(b, t, "TLR", IDCODE, sr, l)
    BY <2>1, IdGo
  <2>3. Does(name, Operated(name, o), s, t) /\ t.rx = Wholes(b.id, 0, 4)
    <3> DEFINE w == Wholes(b.id, 0, 4)
    <3>1. Goes(ft2232_readID, s, t, w)
      BY <2>2
    <3> HIDE DEF w
    <3>2. Does("openjtag", ft2232_readID, s, t) /\ t.rx = w
      BY <2>1, <3>1, GoneDoes
    <3> QED BY <1>1, <2>1, <3>2 DEF w
  <2>4. Live(b, t)
    BY <2>2, StandsLive
  <2> QED BY <1>1, <2>3, <2>4 DEF Tells
<1>2. CASE name # "openjtag"
  <2>1. name \in Ppt /\ Dry(s)
    BY <1>2 DEF Cables, Waiting
  <2>2. Operated(name, o) = JTAG_ReadId
    BY <2>1, DueOperated
  <2>3. PICK t : Carries(name, JTAG_ReadId, s, t, b.id) /\ Live(b, t)
    BY <2>1, PortId
  <2>4. Does(name, Operated(name, o), s, t) /\ t.rd = b.id
    BY <1>2, <2>1, <2>2, <2>3, CarriedDoes
  <2> QED BY <1>2, <2>3, <2>4 DEF Tells
<1> QED BY <1>1, <1>2

LEMMA DueScan ==
  ASSUME NEW j, j.kind = "scan"
  PROVE  /\ Due(j, 4).op = "idle"
         /\ Due(j, 3).op = "ir" /\ Due(j, 3).str = EXTEST
         /\ Due(j, 2).op = "dr" /\ Due(j, 2).str = j.first /\ Due(j, 2).read = FALSE
         /\ Due(j, 1).op = "dr" /\ Due(j, 1).str = j.wr /\ Due(j, 1).read = TRUE
         /\ Expected(j, Due(j, 4)) = 0 /\ Expected(j, Due(j, 3)) = 0 /\ Expected(j, Due(j, 2)) = 0
         /\ Expected(j, Due(j, 1)) = IF j.cable # "openjtag" THEN 0 ELSE ft2232_predict_scan_in(Len(j.wr))
<1>1. /\ Due(j, 4) = [op |-> "idle"] /\ Due(j, 3) = [op |-> "ir", str |-> EXTEST]
      /\ Due(j, 2) = [op |-> "dr", str |-> j.first, read |-> FALSE]
      /\ Due(j, 1) = [op |-> "dr", str |-> j.wr, read |-> TRUE]
  BY DEF Due
<1>2. \A o : o.op \in {"idle", "ir"} => Expected(j, o) = 0
  BY DEF Expected
<1>3. \A o : o.op = "dr" /\ o.read = FALSE => Expected(j, o) = 0
  BY DEF Expected
<1>4. \A o : o.op = "dr" /\ o.read = TRUE =>
        Expected(j, o) = IF j.cable # "openjtag" THEN 0 ELSE ft2232_predict_scan_in(Len(j.wr))
  BY DEF Expected
<1>5. /\ Due(j, 4).op = "idle"
      /\ Due(j, 3).op = "ir" /\ Due(j, 3).str = EXTEST
      /\ Due(j, 2).op = "dr" /\ Due(j, 2).str = j.first /\ Due(j, 2).read = FALSE
      /\ Due(j, 1).op = "dr" /\ Due(j, 1).str = j.wr /\ Due(j, 1).read = TRUE
  BY <1>1
<1>6. Expected(j, Due(j, 4)) = 0 /\ Expected(j, Due(j, 3)) = 0
  BY <1>2, <1>5
<1>7. Expected(j, Due(j, 2)) = 0
  BY <1>3, <1>5
<1>8. Expected(j, Due(j, 1)) = IF j.cable # "openjtag" THEN 0 ELSE ft2232_predict_scan_in(Len(j.wr))
  BY <1>4, <1>5
<1> QED BY <1>5, <1>6, <1>7, <1>8

LEMMA PredictsSome == \A n \in Nat \ {0} : ft2232_predict_scan_in(n) # 0
<1> SUFFICES ASSUME NEW n \in Nat \ {0} PROVE ft2232_predict_scan_in(n) # 0
  OBVIOUS
<1> DEFINE x == IF NumBytes(n) > 1 THEN NumBytes(n) - 1 ELSE 0
           y == IF (n - 1) % 8 # 0 THEN 1 ELSE 0
<1>1. x \in Nat
  BY DEF NumBytes
<1>2. y \in Nat
  OBVIOUS
<1>3. ft2232_predict_scan_in(n) = x + y + 1
  BY DEF ft2232_predict_scan_in
<1> HIDE DEF x, y
<1> QED BY <1>1, <1>2, <1>3

LEMMA ScanCalled ==
  ASSUME NEW j, ScanJob(j), NEW n \in 1 .. 4, NEW s, ScanAt(j, n, 0, s),
         n = 1 /\ j.cable # "openjtag" => s.rd = <<>>
  PROVE  \E t : /\ Does(j.cable, Operated(j.cable, Due(j, n)), s, t)
                /\ ScanAt(j, n - 1, Expected(j, Due(j, n)), t)
<1> DEFINE b == BoardOf(j)
           name == j.cable
           o == Due(j, n)
<1>1. /\ b \in Board /\ b.cells = j.cells /\ name \in Cables /\ j.kind = "scan"
  BY BoardTyped DEF ScanJob, Comes
<1>2. PICK m \in Nat \ {0} : /\ j.first \in [1 .. m -> Bit] /\ j.wr \in [1 .. m -> Bit]
                              /\ j.cells \in [1 .. m -> Bit]
  BY DEF ScanJob
<1>3. Len(j.cells) = m /\ Len(j.wr) = m
  BY <1>2
<1>4. /\ Live(b, s) /\ Waiting(name, s)
      /\ n = 3 => \E sr, l : Stands(b, s, "RTI", IDCODE, sr, l)
      /\ n = 2 => \E l : Stands(b, s, "RTI", EXTEST, EXTEST, l)
      /\ n = 1 => Stands(b, s, "RTI", EXTEST, j.first, j.first)
  BY DEF ScanAt
<1>5. n = 1 /\ name # "openjtag" => s.rd = <<>>
  OBVIOUS
<1> HIDE DEF b, name
<1> SUFFICES \E t : Does(name, Operated(name, o), s, t) /\ ScanAt(j, n - 1, Expected(j, o), t)
  BY DEF name
<1>6. CASE n = 4
  <2>1. o.op = "idle" /\ Expected(j, o) = 0
    BY <1>1, <1>6, DueScan
  <2> HIDE DEF o
  <2>2. PICK t, sr, l : /\ Does(name, Operated(name, o), s, t) /\ Waiting(name, t)
                        /\ Stands(b, t, "RTI", IDCODE, sr, l)
    BY <1>1, <1>4, <2>1, IdleDone
  <2>3. Live(b, t)
    BY <2>2, StandsLive
  <2>4. ScanAt(j, 3, 0, t)
    BY <2>2, <2>3 DEF ScanAt, b, name
  <2>5. n - 1 = 3
    BY <1>6
  <2> QED BY <2>1, <2>2, <2>4, <2>5
<1>7. CASE n = 3
  <2>1. o.op = "ir" /\ o.str = EXTEST /\ Expected(j, o) = 0
    BY <1>1, <1>7, DueScan
  <2> HIDE DEF o
  <2>p. PICK sr, l : Stands(b, s, "RTI", IDCODE, sr, l)
    BY <1>4, <1>7
  <2>2. PICK t : /\ Does(name, Operated(name, o), s, t) /\ Waiting(name, t)
                 /\ Stands(b, t, "RTI", EXTEST, EXTEST, l)
    BY <1>1, <1>4, <2>1, <2>p, InstructionDone
  <2>3. Live(b, t)
    BY <2>2, StandsLive
  <2>4. ScanAt(j, 2, 0, t)
    BY <2>2, <2>3 DEF ScanAt, b, name
  <2>5. n - 1 = 2
    BY <1>7
  <2> QED BY <2>1, <2>2, <2>4, <2>5
<1>8. CASE n = 2
  <2>1. o.op = "dr" /\ o.str = j.first /\ o.read = FALSE /\ Expected(j, o) = 0
    BY <1>1, <1>8, DueScan
  <2> HIDE DEF o
  <2>p. PICK l : Stands(b, s, "RTI", EXTEST, EXTEST, l)
    BY <1>4, <1>8
  <2> DEFINE in == j.first
             from == j.cells
  <2>q. /\ in \in [1 .. m -> Bit] /\ from \in [1 .. m -> Bit] /\ from = b.cells /\ o.str = in
        /\ FALSE \in BOOLEAN /\ (FALSE /\ name # "openjtag" => s.rd = <<>>)
    BY <1>1, <1>2, <2>1
  <2> HIDE DEF in, from
  <2>2. PICK t : /\ Does(name, Operated(name, o), s, t) /\ Answers(name, FALSE, t, from, m)
                 /\ Stands(b, t, "RTI", EXTEST, in, in)
    BY <1>1, <1>4, <2>1, <2>p, <2>q, ScanDone
  <2>3. Live(b, t) /\ Waiting(name, t)
    BY <2>2, StandsLive DEF Answers
  <2>4. ScanAt(j, 1, 0, t)
    BY <2>2, <2>3 DEF ScanAt, b, name, in
  <2>5. n - 1 = 1
    BY <1>8
  <2> QED BY <2>1, <2>2, <2>4, <2>5
<1>9. CASE n = 1
  <2>1. /\ o.op = "dr" /\ o.str = j.wr /\ o.read = TRUE
        /\ Expected(j, o) = IF name # "openjtag" THEN 0 ELSE ft2232_predict_scan_in(m)
    BY <1>1, <1>3, <1>9, DueScan DEF name
  <2> HIDE DEF o
  <2> DEFINE in == j.wr
             from == j.cells
             first == j.first
  <2>p. Stands(b, s, "RTI", EXTEST, first, first)
    BY <1>4, <1>9
  <2>q. /\ in \in [1 .. m -> Bit] /\ from \in [1 .. m -> Bit] /\ from = b.cells /\ o.str = in
        /\ TRUE \in BOOLEAN /\ (TRUE /\ name # "openjtag" => s.rd = <<>>)
    BY <1>1, <1>2, <1>5, <1>9, <2>1
  <2> HIDE DEF in, from, first
  <2>2. PICK t : /\ Does(name, Operated(name, o), s, t) /\ Answers(name, TRUE, t, from, m)
                 /\ Stands(b, t, "RTI", EXTEST, in, in)
    BY <1>1, <1>4, <2>1, <2>p, <2>q, ScanDone
  <2>3. Live(b, t)
    BY <2>2, StandsLive
  <2>4. IF name # "openjtag" THEN Expected(j, o) = 0 /\ t.rd = from
        ELSE Expected(j, o) # 0 /\ Replies(t.rx, from, m)
    BY <2>1, <2>2, PredictsSome DEF Answers
  <2>5. ScanAt(j, 0, Expected(j, o), t)
    <3> DEFINE e == Expected(j, o)
    <3> HIDE DEF e
    <3>1. IF name # "openjtag" THEN e = 0 /\ t.rd = from ELSE e # 0 /\ Replies(t.rx, from, m)
      BY <2>4 DEF e
    <3>2. ScanAt(j, 0, e, t)
      BY <1>3, <2>2, <2>3, <3>1 DEF ScanAt, b, name, in, from
    <3> QED BY <3>2 DEF e
  <2>6. n - 1 = 0
    BY <1>9
  <2> QED BY <2>2, <2>5, <2>6
<1> QED BY <1>6, <1>7, <1>8, <1>9

LEMMA IdCalled ==
  ASSUME NEW j, IdJob(j), NEW n \in {1, 3}, NEW s, IdAt(j, n, 0, s), j.cable # "openjtag" => s.rd = <<>>
  PROVE  \E t : /\ Does(j.cable, Operated(j.cable, Due(j, n)), s, t)
                /\ IdAt(j, n - 1, Expected(j, Due(j, n)), t)
<1> DEFINE b == BoardOf(j)
           name == j.cable
           o == Due(j, n)
<1>1. b \in Board /\ b.id = j.id /\ name \in Cables /\ j.kind = "id" /\ b.id \in [1 .. 32 -> Bit]
  BY BoardTyped DEF IdJob, Comes
<1>2. Live(b, s) /\ Waiting(name, s) /\ (name # "openjtag" => s.rd = <<>>)
  BY DEF IdAt
<1>3. o = [op |-> "id"]
  <2>1. n \notin {2, 4}
    OBVIOUS
  <2> QED BY <1>1, <2>1 DEF Due
<1>4. o.op = "id"
  BY <1>3
<1>5. Expected(j, o) = IF name # "openjtag" THEN 0 ELSE 4
  BY <1>4 DEF Expected
<1> HIDE DEF b, name, o
<1>6. PICK t : Does(name, Operated(name, o), s, t) /\ Live(b, t) /\ Tells(name, t, b)
  BY <1>1, <1>2, <1>4, IdDone
<1>7. n - 1 \in 0 .. 3 /\ n - 1 \notin {1, 3}
  OBVIOUS
<1>8. IdAt(j, n - 1, Expected(j, o), t)
  <2>1. Live(BoardOf(j), t)
    BY <1>6 DEF b
  <2>2. CASE name = "openjtag"
    <3>1. Expected(j, o) = 4 /\ t.rx = Wholes(j.id, 0, 4) /\ j.cable = "openjtag"
      BY <1>1, <1>5, <1>6, <2>2 DEF Tells, name
    <3> QED BY <1>7, <2>1, <3>1 DEF IdAt
  <2>3. CASE name # "openjtag"
    <3>1. Expected(j, o) = 0 /\ t.rd = j.id
      BY <1>1, <1>5, <1>6, <2>3 DEF Tells
    <3> QED BY <1>7, <2>1, <3>1 DEF IdAt
  <2> QED BY <2>2, <2>3
<1> QED BY <1>6, <1>8 DEF name, o

-----------------------------------------------------------------------------
(* What is left to do *)

Dues(j) == {Due(j, n) : n \in 1 .. 5}
Remain(j, q) ==
  /\ q \in Seq(Dues(j)) /\ Len(q) <= 5
  /\ \A k \in 1 .. Len(q) : q[k] = Due(j, Len(q) + 1 - k)

LEMMA RemainNothing == \A j : Remain(j, <<>>)
<1> SUFFICES ASSUME NEW j PROVE Remain(j, <<>>)
  OBVIOUS
<1>1. <<>> \in Seq(Dues(j)) /\ Len(<<>>) = 0
  OBVIOUS
<1> QED BY <1>1 DEF Remain

LEMMA FirstTail ==
  ASSUME NEW S, NEW q \in Seq(S), q # <<>>
  PROVE  /\ Tail(q) \in Seq(S) /\ Len(Tail(q)) = Len(q) - 1 /\ Len(q) \in Nat \ {0} /\ Head(q) = q[1]
         /\ \A k \in 1 .. Len(q) - 1 : Tail(q)[k] = q[k + 1]
OBVIOUS

LEMMA RemainTail ==
  ASSUME NEW j, NEW q, Remain(j, q), q # <<>>
  PROVE  /\ Remain(j, Tail(q)) /\ Len(Tail(q)) = Len(q) - 1 /\ Len(q) \in 1 .. 5
         /\ Head(q) = Due(j, Len(q))
<1> DEFINE S == Dues(j)
           m == Len(q)
           D(k) == Due(j, k)
           r == Tail(q)
<1> HIDE DEF S
<1>1. q \in Seq(S)
  BY DEF Remain, S
<1>2. \A k \in 1 .. m : q[k] = D(m + 1 - k)
  BY Zenon DEF Remain
<1>3. r \in Seq(S) /\ Len(r) = m - 1 /\ m \in Nat \ {0} /\ Head(q) = q[1]
  BY <1>1, FirstTail
<1>4. \A k \in 1 .. m - 1 : r[k] = q[k + 1]
  BY <1>1, FirstTail
<1>5. m <= 5
  BY DEF Remain
<1> HIDE DEF m, D, r
<1>6. Head(q) = D(m)
  <2>1. 1 \in 1 .. m /\ m + 1 - 1 = m
    BY <1>3
  <2>2. q[1] = D(m + 1 - 1)
    BY <1>2, <2>1, Zenon
  <2> QED BY <1>3, <2>1, <2>2
<1>7. ASSUME NEW k \in 1 .. Len(r) PROVE r[k] = D(Len(r) + 1 - k)
  <2>1. k \in 1 .. m - 1 /\ k + 1 \in 1 .. m /\ m + 1 - (k + 1) = Len(r) + 1 - k
    BY <1>3
  <2> DEFINE i == k + 1
  <2>2. r[k] = q[i]
    BY <1>4, <2>1, Zenon
  <2>3. q[i] = D(m + 1 - i)
    BY <1>2, <2>1, Zenon
  <2> QED BY <2>1, <2>2, <2>3
<1>8. Len(r) <= 5 /\ m \in 1 .. 5
  BY <1>3, <1>5
<1>9. Remain(j, r)
  <2>1. \A k \in 1 .. Len(r) : r[k] = Due(j, Len(r) + 1 - k)
    BY <1>7 DEF D
  <2> QED BY <1>3, <1>8, <2>1, Zenon DEF Remain, S
<1> QED BY <1>3, <1>6, <1>8, <1>9 DEF m, D, r

\* The number of operations of a job.
First(j) == IF j.kind = "scan" THEN 4 + j.opens ELSE 2 * j.opens

LEMMA RemainFour ==
  ASSUME NEW S, NEW a \in S, NEW b \in S, NEW c \in S, NEW d \in S
  PROVE  LET q == << a, b, c, d >>
         IN q \in Seq(S) /\ Len(q) = 4 /\ q[1] = a /\ q[2] = b /\ q[3] = c /\ q[4] = d
OBVIOUS

LEMMA BeginIds ==
  ASSUME NEW j, IdJob(j)
  PROVE  Remain(j, Begin(j)) /\ Len(Begin(j)) = First(j)
<1> DEFINE m == 2 * j.opens
           q == [k \in 1 .. m |-> [op |-> IF k % 2 = 1 THEN "open" ELSE "id"]]
           S == Dues(j)
<1>1. j.kind = "id" /\ m \in {2, 4}
  BY DEF IdJob
<1>2. Begin(j) = q /\ First(j) = m
  BY <1>1 DEF Begin, First
<1>3. Due(j, 1) = [op |-> "id"] /\ Due(j, 2) = [op |-> "open"] /\ Due(j, 3) = [op |-> "id"] /\ Due(j, 4) = [op |-> "open"]
  BY <1>1 DEF Due
<1> HIDE DEF m
<1>4. \A k \in 1 .. m : q[k] = Due(j, m + 1 - k)
  <2> SUFFICES ASSUME NEW k \in 1 .. m PROVE q[k] = Due(j, m + 1 - k)
    OBVIOUS
  <2>1. q[k] = [op |-> IF k % 2 = 1 THEN "open" ELSE "id"]
    OBVIOUS
  <2> HIDE DEF q
  <2>2. \/ k % 2 = 1 /\ m + 1 - k \in {2, 4}
        \/ k % 2 = 0 /\ m + 1 - k \in {1, 3}
    <3>1. k \in {1, 2, 3, 4} /\ k <= m
      BY <1>1
    <3> QED BY <1>1, <3>1
  <2>3. k % 2 = 1 => q[k] = [op |-> "open"]
    BY <2>1
  <2>4. k % 2 = 0 => q[k] = [op |-> "id"]
    BY <2>1
  <2>5. \A i \in {2, 4} : Due(j, i) = [op |-> "open"]
    BY <1>3
  <2>6. \A i \in {1, 3} : Due(j, i) = [op |-> "id"]
    BY <1>3
  <2>7. CASE k % 2 = 1 /\ m + 1 - k \in {2, 4}
    BY <2>3, <2>5, <2>7, Zenon
  <2>8. CASE k % 2 = 0 /\ m + 1 - k \in {1, 3}
    BY <2>4, <2>6, <2>8, Zenon
  <2> QED BY <2>2, <2>7, <2>8
<1>5. \A k \in 1 .. m : Due(j, m + 1 - k) \in S
  <2>1. \A k \in 1 .. m : m + 1 - k \in 1 .. 5
    BY <1>1
  <2> QED BY <2>1 DEF Dues
<1> HIDE DEF S
<1>6. q \in [1 .. m -> S]
  <2>1. \A k \in 1 .. m : q[k] \in S
    BY <1>4, <1>5, Zenon
  <2>2. q = [k \in 1 .. m |-> q[k]]
    OBVIOUS
  <2> HIDE DEF q
  <2> QED BY <2>1, <2>2
<1> HIDE DEF q
<1>7. q \in Seq(S) /\ Len(q) = m
  <2>1. m \in Nat
    BY <1>1
  <2> QED BY <1>6, <2>1
<1>8. Remain(j, q)
  BY <1>1, <1>4, <1>7 DEF Remain, S
<1> QED BY <1>2, <1>7, <1>8

LEMMA BeginScans ==
  ASSUME NEW j, ScanJob(j)
  PROVE  Remain(j, Begin(j)) /\ Len(Begin(j)) = First(j)
<1> DEFINE S == Dues(j)
           O == [op |-> "open"]
           q == << Due(j, 4), Due(j, 3), Due(j, 2), Due(j, 1) >>
<1>1. j.kind = "scan" /\ j.opens \in {0, 1}
  BY DEF ScanJob
<1>2. /\ Due(j, 4) = [op |-> "idle"] /\ Due(j, 3) = [op |-> "ir", str |-> EXTEST]
      /\ Due(j, 2) = [op |-> "dr", str |-> j.first, read |-> FALSE]
      /\ Due(j, 1) = [op |-> "dr", str |-> j.wr, read |-> TRUE]
      /\ Due(j, 5) = O
  BY <1>1 DEF Due
<1>3. Begin(j) = [k \in 1 .. j.opens |-> O] \o q
  BY <1>1, <1>2, Zenon DEF Begin
<1>4. Due(j, 1) \in S /\ Due(j, 2) \in S /\ Due(j, 3) \in S /\ Due(j, 4) \in S /\ O \in S
  <2>1. 1 \in 1 .. 5 /\ 2 \in 1 .. 5 /\ 3 \in 1 .. 5 /\ 4 \in 1 .. 5 /\ 5 \in 1 .. 5
    OBVIOUS
  <2> QED BY <1>2, <2>1, Zenon DEF Dues
<1> HIDE DEF S, O
<1>5. q \in Seq(S) /\ Len(q) = 4 /\ q[1] = Due(j, 4) /\ q[2] = Due(j, 3) /\ q[3] = Due(j, 2) /\ q[4] = Due(j, 1)
  BY <1>4, RemainFour
<1> HIDE DEF q
<1>6. CASE j.opens = 0
  <2>1. Begin(j) = q
    <3>1. [k \in 1 .. j.opens |-> O] = <<>>
      BY <1>6
    <3>2. <<>> \o q = q
      BY <1>5
    <3> QED BY <1>3, <3>1, <3>2
  <2>2. ASSUME NEW k \in 1 .. 4 PROVE q[k] = Due(j, 4 + 1 - k)
    <3>1. k = 1 \/ k = 2 \/ k = 3 \/ k = 4
      OBVIOUS
    <3>2. 4 + 1 - 1 = 4 /\ 4 + 1 - 2 = 3 /\ 4 + 1 - 3 = 2 /\ 4 + 1 - 4 = 1
      OBVIOUS
    <3> QED BY <1>5, <3>1, <3>2
  <2>3. Remain(j, q)
    BY <1>5, <2>2 DEF Remain, S
  <2> QED BY <1>1, <1>5, <1>6, <2>1, <2>3 DEF First
<1>7. CASE j.opens = 1
  <2> DEFINE w == InFront(O, q)
  <2>1. Begin(j) = w
    <3>1. [k \in 1 .. j.opens |-> O] = << O >>
      BY <1>7
    <3> QED BY <1>3, <3>1 DEF InFront
  <2>2. w \in Seq(S) /\ Len(w) = Len(q) + 1 /\ w[1] = O /\ \A k \in 1 .. Len(q) : w[k + 1] = q[k]
    <3>1. O \in S /\ q \in Seq(S)
      BY <1>4, <1>5
    <3>2. w \in Seq(S) /\ Len(w) = Len(q) + 1
      BY <3>1, OneMore
    <3>3. w[1] = O
      BY <3>1, OneMore, Zenon
    <3>4. \A k \in 1 .. Len(q) : w[k + 1] = q[k]
      BY <3>1, OneMore, SMTT(30)
    <3> QED BY <3>2, <3>3, <3>4
  <2> HIDE DEF w
  <2>3. Len(w) = 5 /\ w[2] = q[1] /\ w[3] = q[2] /\ w[4] = q[3] /\ w[5] = q[4]
    <3>1. 1 \in 1 .. Len(q) /\ 2 \in 1 .. Len(q) /\ 3 \in 1 .. Len(q) /\ 4 \in 1 .. Len(q)
      BY <1>5
    <3>2. w[1 + 1] = q[1] /\ w[2 + 1] = q[2] /\ w[3 + 1] = q[3] /\ w[4 + 1] = q[4]
      BY <2>2, <3>1
    <3>3. 1 + 1 = 2 /\ 2 + 1 = 3 /\ 3 + 1 = 4 /\ 4 + 1 = 5
      OBVIOUS
    <3> QED BY <1>5, <2>2, <3>2, <3>3
  <2>4. ASSUME NEW k \in 1 .. 5 PROVE w[k] = Due(j, 5 + 1 - k)
    <3>1. k = 1 \/ k = 2 \/ k = 3 \/ k = 4 \/ k = 5
      OBVIOUS
    <3>2. 5 + 1 - 1 = 5 /\ 5 + 1 - 2 = 4 /\ 5 + 1 - 3 = 3 /\ 5 + 1 - 4 = 2 /\ 5 + 1 - 5 = 1
      OBVIOUS
    <3> QED BY <1>2, <1>5, <2>2, <2>3, <3>1, <3>2
  <2>5. Remain(j, w)
    <3>1. \A k \in 1 .. Len(w) : w[k] = Due(j, Len(w) + 1 - k)
      BY <2>3, <2>4
    <3>2. w \in Seq(S) /\ Len(w) <= 5
      BY <2>2, <2>3, 5 <= 5
    <3> QED BY <3>1, <3>2, Zenon DEF Remain, S
  <2> QED BY <1>1, <1>7, <2>1, <2>3, <2>5 DEF First
<1> QED BY <1>1, <1>6, <1>7

-----------------------------------------------------------------------------
(* The invariant of the scans and the ids *)

\* What is left of the buffer leads to where the job is to be.
AtJob(j, n, e, t) == IF j.kind = "scan" THEN ScanAt(j, n, e, t) ELSE IdAt(j, n, e, t)
Working(j, chip, q, buf, e, now) ==
  /\ j.cable = "openjtag" => Ready(chip) /\ (j.kind = "id" => Len(q) <= 1)
  /\ \E t : Does(j.cable, buf, now, t) /\ AtJob(j, Len(q), e, t)
\* Nothing comes back from an FT2232 that is not in MPSSE mode.
Deaf(j, chip) == j.cable = "openjtag" /\ chip.mode # "mpsse"
Serial(j, q, e, now) ==
  /\ j.kind = "id" /\ now.rx = <<>> /\ Len(q) <= 1
  /\ q = <<>> /\ e = 0 => now.rd \notin CPUIDs
Closed(j, q, buf, e, now) ==
  /\ j.opens # 0 /\ Len(q) = First(j) /\ buf = <<>> /\ e = 0
  /\ Live(BoardOf(j), now) /\ now.rd = <<>>
Told(j, chip, rd) ==
  IF j.kind = "scan" THEN rd = j.cells
  ELSE IF Deaf(j, chip) THEN rd \notin CPUIDs ELSE rd = j.id
Holding(j, st, chip, q, buf, e, now) ==
  /\ Made(chip) /\ Remain(j, q)
  /\ j.cable # "openjtag" => ~SrstPulled(chip) /\ now.rx = <<>> /\ e = 0
  /\ st \in {"closed", "open", "failed", "quit"}
  /\ st = "closed" => Closed(j, q, buf, e, now)
  /\ st = "open" /\ Deaf(j, chip) => Serial(j, q, e, now)
  /\ st = "open" /\ ~Deaf(j, chip) => Working(j, chip, q, buf, e, now)
  /\ st \in {"failed", "quit"} => q = <<>> /\ buf = <<>> /\ e = 0
  /\ st = "quit" => Told(j, chip, now.rd)
Now == [dev |-> dev, rx |-> received, byte |-> cable.byte, rd |-> rdDR]
FrameInv ==
  /\ job \in Jobs
  /\ job.kind \in {"scan", "id"} =>
       /\ cable = [state |-> cable.state, chip |-> cable.chip, byte |-> cable.byte]
       /\ Holding(job, cable.state, cable.chip, ops, buffer, expect, Now)

\* Where the job is depends on the TAP, the bytes that came back and the string read.
LEMMA AtJobKept ==
  ASSUME NEW j, NEW n, NEW now, NEW s, s.dev = now.dev, s.rx = now.rx,
         s.rd = now.rd \/ (s.rd = <<>> /\ n # 0 /\ n # 2) \/ (s.rd = <<>> /\ n # 0 /\ j.kind = "scan"),
         AtJob(j, n, 0, now)
  PROVE  AtJob(j, n, 0, s)
<1>1. \A b : Live(b, now) => Live(b, s)
  BY DEF Live
<1>2. \A b, tap, i, sr, l : Stands(b, now, tap, i, sr, l) => Stands(b, s, tap, i, sr, l)
  BY DEF Stands
<1>3. Waiting(j.cable, now) => Waiting(j.cable, s)
  <2>1. <<>> \in Seq(Bit)
    OBVIOUS
  <2>2. (s.rd = now.rd \/ s.rd = <<>>) /\ s.rx = now.rx
    OBVIOUS
  <2> QED BY <2>1, <2>2 DEF Waiting, Dry
<1>4. n = 0 => s.rd = now.rd
  OBVIOUS
<1>5. CASE j.kind = "scan"
  <2>1. ScanAt(j, n, 0, now)
    BY <1>5 DEF AtJob
  <2>2. ScanAt(j, n, 0, s)
    BY <1>1, <1>2, <1>3, <1>4, <2>1 DEF ScanAt
  <2> QED BY <1>5, <2>2 DEF AtJob
<1>6. CASE j.kind # "scan"
  <2>1. IdAt(j, n, 0, now)
    BY <1>6 DEF AtJob
  <2>2. n \in {0, 2} => s.rd = now.rd
    BY <1>6
  <2>3. IdAt(j, n, 0, s)
    BY <1>1, <1>3, <2>1, <2>2 DEF IdAt
  <2> QED BY <1>6, <2>3 DEF AtJob
<1> QED BY <1>5, <1>6

LEMMA DoesNothing ==
  ASSUME NEW name, NEW s
  PROVE  Does(name, <<>>, s, s) /\ \A t : Does(name, <<>>, s, t) => t = s
<1>1. <<>> \in Seq(Kinds(name))
  OBVIOUS
<1>2. Runs(name, <<>>, s, s)
  BY RunsNothing
<1>3. ASSUME NEW t, Does(name, <<>>, s, t) PROVE t = s
  <2>1. Runs(name, <<>>, s, t)
    BY <1>3 DEF Does
  <2> QED BY <2>1, RunsEnd
<1> QED BY <1>1, <1>2, <1>3 DEF Does

\* With nothing in the buffer the job is where it is to be.
LEMMA WorkingIdle ==
  ASSUME NEW j, NEW chip, NEW q, NEW e, NEW now
  PROVE  Working(j, chip, q, <<>>, e, now)
           <=> /\ j.cable = "openjtag" => Ready(chip) /\ (j.kind = "id" => Len(q) <= 1)
               /\ AtJob(j, Len(q), e, now)
<1>1. (\E t : Does(j.cable, <<>>, now, t) /\ AtJob(j, Len(q), e, t)) <=> AtJob(j, Len(q), e, now)
  BY DoesNothing
<1> QED BY <1>1 DEF Working

\* A step of the buffer.
LEMMA WorkDone ==
  ASSUME NEW j, NEW chip, NEW q, NEW buf, NEW e, NEW now, Working(j, chip, q, buf, e, now), buf # <<>>
  PROVE  /\ Working(j, chip, q, Tail(buf), e, Did(j.cable, now, Head(buf)))
         /\ Head(buf) \in Kinds(j.cable)
<1> DEFINE S == Kinds(j.cable)
           n == Len(q)
           name == j.cable
<1>1. PICK t : Does(name, buf, now, t) /\ AtJob(j, n, e, t)
  BY DEF Working
<1>2. buf \in Seq(S) /\ Runs(name, buf, now, t)
  BY <1>1 DEF Does
<1> HIDE DEF S, n, name
<1>3. Tail(buf) \in Seq(S) /\ Head(buf) \in S /\ Runs(name, Tail(buf), Did(name, now, Head(buf)), t)
  BY <1>2, RunsTail
<1>4. Does(name, Tail(buf), Did(name, now, Head(buf)), t)
  BY <1>3 DEF Does, S, name
<1>5. \E u : Does(name, Tail(buf), Did(name, now, Head(buf)), u) /\ AtJob(j, n, e, u)
  BY <1>1, <1>4
<1> QED BY <1>3, <1>5, Zenon DEF Working, S, n, name

LEMMA PortsQuiet ==
  ASSUME NEW j, j.cable # "openjtag", NEW now, NEW a
  PROVE  Did(j.cable, now, a).rx = now.rx
<1>1. Did(j.cable, now, a) = Accessed(Pins(j.cable), now, a)
  BY DEF Did
<1>2. \A p : Accessed(p, now, a).rx = now.rx
  BY DEF Accessed
<1> QED BY <1>1, <1>2

\* What a call finds in rdDR: the ports' functions begin a new string.
Begins(j, o, now, s) ==
  /\ s.dev = now.dev /\ s.rx = now.rx
  /\ s.rd = IF j.cable # "openjtag" /\ o.op \in {"id", "dr"} THEN <<>> ELSE now.rd

\* What is left in the states of the job that are not opening.
LEMMA DueCalls ==
  ASSUME NEW j, ScanJob(j) \/ IdJob(j), NEW n \in 1 .. 5, NEW e, NEW t, AtJob(j, n, e, t), Due(j, n).op # "open"
  PROVE  /\ j.kind = "scan" => n \in 1 .. 4 /\ (n = 1 => Due(j, n).op = "dr")
         /\ j.kind = "id" => n \in {1, 3} /\ Due(j, n).op = "id"
         /\ e = 0
<1>1. CASE j.kind = "scan"
  <2>1. n \in 0 .. 4 /\ (n > 0 => e = 0)
    BY <1>1 DEF AtJob, ScanAt
  <2>2. n = 1 => Due(j, n).op = "dr"
    BY <1>1, DueScan
  <2> QED BY <1>1, <2>1, <2>2
<1>2. CASE j.kind = "id"
  <2>1. n \in 0 .. 3 /\ (n \in {1, 3} => e = 0)
    BY <1>2 DEF AtJob, IdAt
  <2>2. n \notin {2, 4} /\ Due(j, n) = [op |-> "id"]
    BY <1>2 DEF Due
  <2> QED BY <1>2, <2>1, <2>2
<1> QED BY <1>1, <1>2 DEF ScanJob, IdJob

LEMMA CalledAt ==
  ASSUME NEW j, ScanJob(j) \/ IdJob(j), NEW n \in 1 .. 5, NEW now, AtJob(j, n, 0, now),
         Due(j, n).op # "open", NEW s, Begins(j, Due(j, n), now, s)
  PROVE  \E t : /\ Does(j.cable, Operated(j.cable, Due(j, n)), s, t)
                /\ AtJob(j, n - 1, Expected(j, Due(j, n)), t)
<1> DEFINE o == Due(j, n)
<1>1. /\ j.kind = "scan" => n \in 1 .. 4 /\ (n = 1 => o.op = "dr")
      /\ j.kind = "id" => n \in {1, 3} /\ o.op = "id"
  BY DueCalls
<1>2. /\ s.dev = now.dev /\ s.rx = now.rx
      /\ s.rd = IF j.cable # "openjtag" /\ o.op \in {"id", "dr"} THEN <<>> ELSE now.rd
  BY DEF Begins
<1> HIDE DEF o
<1>3. ScanJob(j) => j.kind = "scan"
  BY DEF ScanJob
<1>4. IdJob(j) => j.kind = "id"
  BY DEF IdJob
<1>5. s.rd = now.rd \/ (s.rd = <<>> /\ n # 0 /\ n # 2) \/ (s.rd = <<>> /\ n # 0 /\ j.kind = "scan")
  BY <1>1, <1>2, <1>3, <1>4
<1>6. AtJob(j, n, 0, s)
  BY <1>2, <1>5, AtJobKept
<1>7. CASE ScanJob(j)
  <2>1. n \in 1 .. 4 /\ ScanAt(j, n, 0, s)
    BY <1>1, <1>3, <1>6, <1>7 DEF AtJob
  <2>2. n = 1 /\ j.cable # "openjtag" => s.rd = <<>>
    BY <1>1, <1>2, <1>3, <1>7
  <2>3. PICK t : Does(j.cable, Operated(j.cable, Due(j, n)), s, t) /\ ScanAt(j, n - 1, Expected(j, Due(j, n)), t)
    BY <1>7, <2>1, <2>2, ScanCalled
  <2>4. \A m, e : ScanAt(j, m, e, t) => AtJob(j, m, e, t)
    BY <1>3, <1>7 DEF AtJob
  <2> QED BY <2>3, <2>4
<1>8. CASE IdJob(j)
  <2>1. n \in {1, 3} /\ IdAt(j, n, 0, s)
    BY <1>1, <1>4, <1>6, <1>8 DEF AtJob
  <2>2. j.cable # "openjtag" => s.rd = <<>>
    BY <1>1, <1>2, <1>4, <1>8
  <2>3. PICK t : Does(j.cable, Operated(j.cable, Due(j, n)), s, t) /\ IdAt(j, n - 1, Expected(j, Due(j, n)), t)
    BY <1>8, <2>1, <2>2, IdCalled
  <2>4. \A m, e : IdAt(j, m, e, t) => AtJob(j, m, e, t)
    BY <1>4, <1>8 DEF AtJob
  <2> QED BY <2>3, <2>4
<1> QED BY <1>7, <1>8

\* A call.
LEMMA WorkCalled ==
  ASSUME NEW j, ScanJob(j) \/ IdJob(j), NEW chip, NEW q, Remain(j, q), q # <<>>, Head(q).op # "open",
         NEW now, Working(j, chip, q, <<>>, 0, now), NEW s, Begins(j, Head(q), now, s)
  PROVE  Working(j, chip, Tail(q), Operated(j.cable, Head(q)), Expected(j, Head(q)), s)
<1> DEFINE n == Len(q)
           r == Tail(q)
           o == Head(q)
<1>1. Len(r) = n - 1 /\ n \in 1 .. 5 /\ o = Due(j, n)
  BY RemainTail
<1>2. /\ j.cable = "openjtag" => Ready(chip) /\ (j.kind = "id" => n <= 1)
      /\ AtJob(j, n, 0, now)
  BY WorkingIdle
<1> HIDE DEF n, r, o
<1>3. Due(j, n).op # "open" /\ Begins(j, Due(j, n), now, s)
  BY <1>1 DEF o
<1>4. \E t : /\ Does(j.cable, Operated(j.cable, Due(j, n)), s, t)
             /\ AtJob(j, n - 1, Expected(j, Due(j, n)), t)
  BY <1>1, <1>2, <1>3, CalledAt
<1>5. \E t : /\ Does(j.cable, Operated(j.cable, o), s, t)
             /\ AtJob(j, Len(r), Expected(j, o), t)
  BY <1>1, <1>4
<1>6. j.cable = "openjtag" => Ready(chip) /\ (j.kind = "id" => Len(r) <= 1)
  BY <1>1, <1>2
<1> QED BY <1>5, <1>6, Zenon DEF Working, r, o

\* What ft2232_read makes of the bytes that came back.
Received(j, bytes) ==
  IF j.kind = "id" THEN bytes2binstr(bytes, 32)
  ELSE bytes2binstr(ft2232_read_scan(bytes, Len(j.wr)), Len(j.wr))

LEMMA WorkRead ==
  ASSUME NEW j, ScanJob(j) \/ IdJob(j), j.cable = "openjtag", NEW chip, NEW q, NEW e, e # 0, NEW now,
         Working(j, chip, q, <<>>, e, now), NEW s, s.dev = now.dev, s.rd = Received(j, now.rx)
  PROVE  Working(j, chip, q, <<>>, 0, s)
<1> DEFINE n == Len(q)
<1>1. /\ Ready(chip) /\ (j.kind = "id" => n <= 1)
      /\ AtJob(j, n, e, now)
  BY WorkingIdle
<1> HIDE DEF n
<1>2. \A b : Live(b, now) => Live(b, s)
  BY DEF Live
<1>3. \A b, tap, i, sr, l : Stands(b, now, tap, i, sr, l) => Stands(b, s, tap, i, sr, l)
  BY DEF Stands
<1>4. CASE ScanJob(j)
  <2>1. j.kind = "scan"
    BY <1>4 DEF ScanJob
  <2>2. PICK m \in Nat \ {0} : j.wr \in [1 .. m -> Bit] /\ j.cells \in [1 .. m -> Bit]
    BY <1>4 DEF ScanJob
  <2>3. Len(j.wr) = m /\ Len(j.cells) = m
    BY <2>2
  <2>4. ScanAt(j, n, e, now)
    BY <1>1, <2>1 DEF AtJob
  <2>5. n = 0 /\ Live(BoardOf(j), now) /\ Stands(BoardOf(j), now, "RTI", EXTEST, j.wr, j.wr)
    BY <2>4 DEF ScanAt
  <2>6. Replies(now.rx, j.cells, m)
    BY <2>3, <2>4, <2>5 DEF ScanAt
  <2> DEFINE back == now.rx
             from == j.cells
  <2>7. bytes2binstr(ft2232_read_scan(back, m), m) = from
    <3>1. from \in [1 .. m -> Bit] /\ Replies(back, from, m)
      BY <2>2, <2>6
    <3> HIDE DEF back, from
    <3> QED BY <3>1, ReplyRead
  <2>8. s.rd = j.cells
    BY <2>1, <2>3, <2>7 DEF Received
  <2>9. ScanAt(j, n, 0, s)
    BY <1>2, <1>3, <2>5, <2>8 DEF ScanAt
  <2>10. AtJob(j, n, 0, s)
    BY <2>1, <2>9 DEF AtJob
  <2> QED BY <1>1, <2>10, WorkingIdle DEF n
<1>5. CASE IdJob(j)
  <2>1. j.kind = "id" /\ j.id \in [1 .. 32 -> Bit]
    BY <1>5 DEF IdJob
  <2>2. IdAt(j, n, e, now)
    BY <1>1, <2>1 DEF AtJob
  <2>3. n \in {0, 2} /\ Live(BoardOf(j), now) /\ now.rx = Wholes(j.id, 0, 4)
    BY <2>2 DEF IdAt
  <2>4. s.rd = j.id
    BY <2>1, <2>3, IdRead DEF Received
  <2>5. IdAt(j, n, 0, s)
    BY <1>2, <2>3, <2>4 DEF IdAt
  <2>6. AtJob(j, n, 0, s)
    BY <2>1, <2>5 DEF AtJob
  <2> QED BY <1>1, <2>6, WorkingIdle DEF n
<1> QED BY <1>4, <1>5

\* The read of an id does not give up while the FT2232 is in MPSSE mode.
LEMMA WorkWaits ==
  ASSUME NEW j, IdJob(j), NEW chip, NEW q, NEW e, NEW now, Working(j, chip, q, <<>>, e, now),
         Len(now.rx) \in Nat
  PROVE  ~(e > Len(now.rx))
<1>1. j.kind = "id" /\ j.id \in [1 .. 32 -> Bit]
  BY DEF IdJob
<1>2. IdAt(j, Len(q), e, now)
  BY <1>1, WorkingIdle DEF AtJob
<1>3. e = 0 \/ (e = 4 /\ now.rx = Wholes(j.id, 0, 4))
  BY <1>2 DEF IdAt
<1>4. now.rx = Wholes(j.id, 0, 4) => Len(now.rx) = 4
  BY <1>1, IdRead
<1> QED BY <1>3, <1>4

\* At the end the answer is there.
LEMMA WorkTold ==
  ASSUME NEW j, ScanJob(j) \/ IdJob(j), NEW chip, NEW now, ~Deaf(j, chip), Working(j, chip, <<>>, <<>>, 0, now)
  PROVE  Told(j, chip, now.rd)
<1>1. AtJob(j, 0, 0, now)
  <2>1. Len(<<>>) = 0
    OBVIOUS
  <2> QED BY <2>1, WorkingIdle
<1>2. ScanJob(j) => j.kind = "scan"
  BY DEF ScanJob
<1>3. IdJob(j) => j.kind = "id"
  BY DEF IdJob
<1>4. CASE ScanJob(j)
  <2>1. ScanAt(j, 0, 0, now)
    BY <1>1, <1>2, <1>4 DEF AtJob
  <2>2. now.rd = j.cells
    BY <2>1 DEF ScanAt
  <2> QED BY <1>2, <1>4, <2>2 DEF Told
<1>5. CASE IdJob(j)
  <2>1. IdAt(j, 0, 0, now)
    BY <1>1, <1>3, <1>5 DEF AtJob
  <2>2. now.rd = j.id
    BY <2>1 DEF IdAt
  <2> QED BY <1>3, <1>5, <2>2 DEF Told
<1> QED BY <1>4, <1>5

LEMMA KindOf ==
  ASSUME NEW j, ScanJob(j) \/ IdJob(j)
  PROVE  /\ ScanJob(j) => j.kind = "scan" /\ j.opens \in {0, 1}
         /\ IdJob(j) => j.kind = "id" /\ j.opens \in {1, 2} /\ (j.cable = "openjtag" => j.opens = 1)
         /\ j.kind = "scan" \/ j.kind = "id"
         /\ j.kind = "scan" => ScanJob(j)
         /\ j.kind = "id" => IdJob(j)
BY DEF ScanJob, IdJob

\* A closed cable is opened next, and one that is open only over a port.
LEMMA OpensFirst ==
  ASSUME NEW j, ScanJob(j) \/ IdJob(j), NEW q, Remain(j, q), NEW now, Closed(j, q, <<>>, 0, now)
  PROVE  /\ q # <<>> /\ Head(q).op = "open"
         /\ j.kind = "scan" => Len(Tail(q)) = 4
         /\ j.kind = "id" => Len(Tail(q)) = 2 * j.opens - 1
<1>1. j.opens # 0 /\ Len(q) = First(j)
  BY DEF Closed
<1>2. /\ j.kind = "scan" => j.opens \in {0, 1}
      /\ j.kind = "id" => j.opens \in {1, 2}
      /\ j.kind = "scan" \/ j.kind = "id"
  BY KindOf
<1>3. /\ j.kind = "scan" => Len(q) = 5
      /\ j.kind = "id" => Len(q) = 2 * j.opens /\ Len(q) \in {2, 4}
  BY <1>1, <1>2 DEF First
<1>4. q # <<>>
  <2>1. Len(q) \in {2, 4, 5}
    BY <1>2, <1>3
  <2>2. Len(<<>>) = 0
    OBVIOUS
  <2>3. 0 \notin {2, 4, 5}
    OBVIOUS
  <2> QED BY <2>1, <2>2, <2>3, Zenon
<1>5. Head(q) = Due(j, Len(q)) /\ Len(Tail(q)) = Len(q) - 1
  BY <1>4, RemainTail
<1>6. Due(j, Len(q)).op = "open"
  <2>1. CASE j.kind = "scan"
    <3>1. Due(j, 5) = [op |-> "open"]
      BY <2>1 DEF Due
    <3>2. Len(q) = 5
      BY <1>3, <2>1
    <3>3. Due(j, Len(q)) = [op |-> "open"]
      BY <3>1, <3>2, Zenon
    <3> QED BY <3>3
  <2>2. CASE j.kind = "id"
    <3>1. \A n \in {2, 4} : Due(j, n) = [op |-> "open"]
      BY <2>2 DEF Due
    <3>2. Len(q) \in {2, 4}
      BY <1>3, <2>2
    <3>3. Due(j, Len(q)) = [op |-> "open"]
      BY <3>1, <3>2, Zenon
    <3> QED BY <3>3
  <2> QED BY <1>2, <2>1, <2>2
<1>7. /\ j.kind = "scan" => Len(Tail(q)) = 4
      /\ j.kind = "id" => Len(Tail(q)) = 2 * j.opens - 1
  BY <1>2, <1>3, <1>5
<1> QED BY <1>4, <1>5, <1>6, <1>7

LEMMA OpensAgain ==
  ASSUME NEW j, ScanJob(j) \/ IdJob(j), NEW q, Remain(j, q), q # <<>>, Head(q).op = "open",
         NEW e, NEW t, AtJob(j, Len(q), e, t)
  PROVE  j.kind = "id" /\ Len(q) = 2 /\ Len(Tail(q)) = 1
<1>1. Head(q) = Due(j, Len(q)) /\ Len(Tail(q)) = Len(q) - 1 /\ Len(q) \in 1 .. 5
  BY RemainTail
<1>2. CASE j.kind = "scan"
  <2>1. Len(q) \in 0 .. 4
    BY <1>2 DEF AtJob, ScanAt
  <2>2. /\ Due(j, 4).op # "open" /\ Due(j, 3).op # "open" /\ Due(j, 2).op # "open" /\ Due(j, 1).op # "open"
    BY <1>2, DueScan
  <2>3. Len(q) = 1 \/ Len(q) = 2 \/ Len(q) = 3 \/ Len(q) = 4
    BY <1>1, <2>1
  <2> QED BY <1>1, <2>2, <2>3
<1>3. CASE j.kind = "id"
  <2>1. Len(q) \in 0 .. 3
    BY <1>3 DEF AtJob, IdAt
  <2>2. Due(j, 1) = [op |-> "id"] /\ Due(j, 3) = [op |-> "id"]
    BY <1>3 DEF Due
  <2>3. Len(q) = 1 \/ Len(q) = 2 \/ Len(q) = 3
    BY <1>1, <2>1
  <2>4. Len(q) = 2
    BY <1>1, <2>2, <2>3
  <2> QED BY <1>1, <1>3, <2>4
<1> QED BY <1>2, <1>3, KindOf

\* Serial jobs: the id is all that is left.
LEMMA SerialNext ==
  ASSUME NEW j, NEW q, Remain(j, q), q # <<>>, NEW e, NEW now, Serial(j, q, e, now)
  PROVE  Tail(q) = <<>> /\ Head(q).op = "id" /\ Head(q).op # "open"
<1>1. j.kind = "id" /\ Len(q) <= 1
  BY DEF Serial
<1>2. Head(q) = Due(j, Len(q)) /\ Len(q) \in 1 .. 5
  BY RemainTail
<1>3. q \in Seq(Dues(j))
  BY DEF Remain
<1>4. Len(q) = 1
  <2>1. \A n \in 1 .. 5 : n <= 1 => n = 1
    OBVIOUS
  <2> QED BY <1>1, <1>2, <2>1, Zenon
<1>5. Due(j, 1) = [op |-> "id"]
  BY <1>1 DEF Due
<1>6. Tail(q) = <<>>
  <2> DEFINE S == Dues(j)
  <2>1. q \in Seq(S)
    BY <1>3
  <2> HIDE DEF S
  <2>2. Len(Tail(q)) = 0 /\ Tail(q) \in Seq(S)
    BY <1>4, <2>1
  <2> DEFINE r == Tail(q)
  <2>3. r \in Seq(S) /\ Len(r) = 0
    BY <2>2
  <2> HIDE DEF r
  <2>4. r = <<>>
    BY <2>3
  <2> QED BY <2>4 DEF r
<1> QED BY <1>2, <1>4, <1>5, <1>6

\* How each step of the job holds it.
LEMMA HoldsCalled ==
  ASSUME NEW j, ScanJob(j) \/ IdJob(j), NEW st, NEW chip, NEW q, NEW now,
         Holding(j, st, chip, q, <<>>, 0, now), q # <<>>, Head(q).op # "open",
         NEW s, Begins(j, Head(q), now, s)
  PROVE  Holding(j, st, chip, Tail(q), Operated(j.cable, Head(q)), Expected(j, Head(q)), s)
<1> DEFINE o == Head(q)
           buf == Operated(j.cable, o)
           e == Expected(j, o)
<1>1. Made(chip) /\ Remain(j, q) /\ (j.cable # "openjtag" => ~SrstPulled(chip) /\ now.rx = <<>>)
  BY DEF Holding
<1>2. st = "open"
  <2>1. st \in {"closed", "open", "failed", "quit"}
    BY DEF Holding
  <2>2. st # "closed"
    <3>1. st = "closed" => Closed(j, q, <<>>, 0, now)
      BY DEF Holding
    <3> QED BY <1>1, <3>1, OpensFirst
  <2>3. st \notin {"failed", "quit"}
    BY DEF Holding
  <2> QED BY <2>1, <2>2, <2>3
<1>3. Remain(j, Tail(q))
  BY <1>1, RemainTail
<1>4. s.rx = now.rx
  BY DEF Begins
<1>5. j.cable # "openjtag" => e = 0
  BY DEF Expected
<1> HIDE DEF o, buf, e
<1>6. CASE Deaf(j, chip)
  <2>1. Serial(j, q, 0, now)
    BY <1>2, <1>6 DEF Holding
  <2>2. Tail(q) = <<>> /\ o.op = "id"
    BY <1>1, <2>1, SerialNext DEF o
  <2>3. j.cable = "openjtag"
    BY <1>6 DEF Deaf
  <2>4. e = 4
    BY <2>2, <2>3 DEF Expected, e
  <2>5. j.kind = "id" /\ now.rx = <<>>
    BY <2>1 DEF Serial
  <2>6. Serial(j, Tail(q), e, s)
    <3>1. Len(<<>>) <= 1 /\ 4 # 0
      OBVIOUS
    <3> QED BY <1>4, <2>2, <2>4, <2>5, <3>1 DEF Serial
  <2>7. Holding(j, st, chip, Tail(q), buf, e, s)
    BY <1>1, <1>2, <1>3, <1>4, <1>5, <1>6, <2>6 DEF Holding
  <2> QED BY <2>7 DEF buf, o, e
<1>7. CASE ~Deaf(j, chip)
  <2>1. Working(j, chip, q, <<>>, 0, now)
    BY <1>2, <1>7 DEF Holding
  <2>2. Working(j, chip, Tail(q), buf, e, s)
    BY <1>1, <2>1, WorkCalled DEF buf, o, e
  <2>3. Holding(j, st, chip, Tail(q), buf, e, s)
    BY <1>1, <1>2, <1>3, <1>4, <1>5, <1>7, <2>2 DEF Holding
  <2> QED BY <2>3 DEF buf, o, e
<1> QED BY <1>6, <1>7

LEMMA HoldsDone ==
  ASSUME NEW j, NEW st, NEW chip, NEW q, NEW buf, NEW e, NEW now, Holding(j, st, chip, q, buf, e, now),
         buf # <<>>, NEW s, ~Deaf(j, chip) => s = Did(j.cable, now, Head(buf)),
         Deaf(j, chip) => s.rx = now.rx /\ s.rd = now.rd
  PROVE  Holding(j, st, chip, q, Tail(buf), e, s)
<1>1. /\ Made(chip) /\ Remain(j, q) /\ st \in {"closed", "open", "failed", "quit"}
      /\ j.cable # "openjtag" => ~SrstPulled(chip) /\ now.rx = <<>> /\ e = 0
  BY DEF Holding
<1>2. st = "open"
  <2>1. st # "closed"
    BY DEF Holding, Closed
  <2>2. st \notin {"failed", "quit"}
    BY DEF Holding
  <2> QED BY <1>1, <2>1, <2>2
<1>3. CASE Deaf(j, chip)
  <2>1. Serial(j, q, e, now)
    BY <1>2, <1>3 DEF Holding
  <2>2. s.rx = now.rx /\ s.rd = now.rd
    BY <1>3
  <2>3. Serial(j, q, e, s)
    BY <2>1, <2>2 DEF Serial
  <2> QED BY <1>1, <1>2, <1>3, <2>2, <2>3 DEF Holding
<1>4. CASE ~Deaf(j, chip)
  <2>1. Working(j, chip, q, buf, e, now)
    BY <1>2, <1>4 DEF Holding
  <2>2. s = Did(j.cable, now, Head(buf))
    BY <1>4
  <2>3. Working(j, chip, q, Tail(buf), e, s)
    BY <2>1, <2>2, WorkDone
  <2>4. j.cable # "openjtag" => s.rx = now.rx
    BY <2>2, PortsQuiet
  <2> QED BY <1>1, <1>2, <1>4, <2>3, <2>4 DEF Holding
<1> QED BY <1>3, <1>4

LEMMA HoldsRead ==
  ASSUME NEW j, ScanJob(j) \/ IdJob(j), NEW st, NEW chip, NEW q, NEW e \in Nat, NEW now,
         Holding(j, st, chip, q, <<>>, e, now), e > 0, Len(now.rx) >= e,
         NEW s, s.dev = now.dev, s.rd = Received(j, now.rx)
  PROVE  Holding(j, st, chip, q, <<>>, 0, s)
<1>1. /\ Made(chip) /\ Remain(j, q) /\ st \in {"closed", "open", "failed", "quit"} /\ j.cable = "openjtag"
  BY DEF Holding
<1>2. st = "open"
  <2>1. st # "closed"
    BY DEF Holding, Closed
  <2>2. st \notin {"failed", "quit"}
    BY DEF Holding
  <2> QED BY <1>1, <2>1, <2>2
<1>3. ~Deaf(j, chip)
  <2> SUFFICES ASSUME Deaf(j, chip) PROVE FALSE
    OBVIOUS
  <2>1. now.rx = <<>>
    BY <1>2 DEF Holding, Serial
  <2>2. Len(now.rx) = 0
    BY <2>1
  <2> QED BY <2>2
<1>4. Working(j, chip, q, <<>>, e, now)
  BY <1>2, <1>3 DEF Holding
<1>5. Working(j, chip, q, <<>>, 0, s)
  <2>1. e # 0
    OBVIOUS
  <2> QED BY <1>1, <1>4, <2>1, WorkRead
<1> QED BY <1>1, <1>2, <1>3, <1>5 DEF Holding

\* What ft2232_readID takes for the id when it gives up.
Guessed(rx) == bytes2binstr([k \in 1 .. 4 |-> IF k <= Len(rx) THEN rx[k] ELSE OwnCommands[k]], 32)
LEMMA GuessedUnknown == Guessed(<<>>) \notin CPUIDs
<1>1. [k \in 1 .. 4 |-> IF k <= Len(<<>>) THEN <<>>[k] ELSE OwnCommands[k]] = [k \in 1 .. 4 |-> OwnCommands[k]]
  <2>1. Len(<<>>) = 0
    OBVIOUS
  <2>2. \A k \in 1 .. 4 : ~(k <= Len(<<>>))
    BY <2>1
  <2> QED BY <2>2
<1> QED BY <1>1, OwnUnknown, Zenon DEF Guessed

LEMMA HoldsGuessed ==
  ASSUME NEW j, IdJob(j), NEW st, NEW chip, NEW q, NEW e, NEW now, Len(now.rx) \in Nat,
         Holding(j, st, chip, q, <<>>, e, now), e > Len(now.rx),
         NEW s, s.rx = <<>>, s.rd = Guessed(now.rx)
  PROVE  Holding(j, st, chip, q, <<>>, 0, s)
<1>1. Made(chip) /\ Remain(j, q) /\ st \in {"closed", "open", "failed", "quit"}
  BY DEF Holding
<1>2. e # 0
  OBVIOUS
<1>3. st = "open" /\ j.cable = "openjtag"
  <2>1. st # "closed"
    BY <1>2 DEF Holding, Closed
  <2>2. st \notin {"failed", "quit"}
    BY <1>2 DEF Holding
  <2>3. j.cable = "openjtag"
    BY <1>2 DEF Holding
  <2> QED BY <1>1, <2>1, <2>2, <2>3
<1>4. Deaf(j, chip)
  <2> SUFFICES ASSUME ~Deaf(j, chip) PROVE FALSE
    OBVIOUS
  <2>1. Working(j, chip, q, <<>>, e, now)
    BY <1>3 DEF Holding
  <2> QED BY <2>1, WorkWaits
<1>5. Serial(j, q, e, now)
  BY <1>3, <1>4 DEF Holding
<1>6. now.rx = <<>>
  BY <1>5 DEF Serial
<1>7. s.rd \notin CPUIDs
  BY <1>6, GuessedUnknown
<1>8. Serial(j, q, 0, s)
  BY <1>5, <1>7 DEF Serial
<1> QED BY <1>1, <1>3, <1>4, <1>8 DEF Holding

\* Just opened: the job is where its first operation finds it.
LEMMA OpenedAt ==
  ASSUME NEW j, ScanJob(j) \/ IdJob(j), NEW n, j.kind = "scan" => n = 4, j.kind = "id" => n \in {1, 3},
         NEW s, Live(BoardOf(j), s), Waiting(j.cable, s)
  PROVE  AtJob(j, n, 0, s)
<1>1. CASE j.kind = "scan"
  <2>1. n = 4 /\ 4 \in 0 .. 4 /\ 4 # 3 /\ 4 # 2 /\ 4 # 1 /\ 4 # 0
    BY <1>1
  <2>2. ScanAt(j, n, 0, s)
    BY <2>1 DEF ScanAt
  <2> QED BY <1>1, <2>2 DEF AtJob
<1>2. CASE j.kind = "id"
  <2>1. n \in {1, 3} /\ n \in 0 .. 3 /\ n \notin {0, 2}
    BY <1>2
  <2>2. IdAt(j, n, 0, s)
    BY <2>1 DEF IdAt
  <2> QED BY <1>2, <2>2 DEF AtJob
<1> QED BY <1>1, <1>2, KindOf

\* Only a closed OpenJTAG is opened.
LEMMA OpensUsb ==
  ASSUME NEW j, ScanJob(j) \/ IdJob(j), j.cable = "openjtag", NEW st, NEW chip, NEW q, NEW now,
         Holding(j, st, chip, q, <<>>, 0, now), q # <<>>, Head(q).op = "open"
  PROVE  st = "closed"
<1>1. Remain(j, q) /\ st \in {"closed", "open", "failed", "quit"} /\ st \notin {"failed", "quit"}
  BY DEF Holding
<1>2. st # "open"
  <2> SUFFICES ASSUME st = "open" PROVE FALSE
    OBVIOUS
  <2>1. CASE Deaf(j, chip)
    <3>1. Serial(j, q, 0, now)
      BY <2>1 DEF Holding
    <3> QED BY <1>1, <3>1, SerialNext
  <2>2. CASE ~Deaf(j, chip)
    <3>1. Working(j, chip, q, <<>>, 0, now)
      BY <2>2 DEF Holding
    <3>2. AtJob(j, Len(q), 0, now) /\ (j.kind = "id" => Len(q) <= 1)
      BY <3>1, WorkingIdle
    <3>3. j.kind = "id" /\ Len(q) = 2
      BY <1>1, <3>2, OpensAgain
    <3> QED BY <3>2, <3>3
  <2> QED BY <2>1, <2>2
<1> QED BY <1>1, <1>2

LEMMA HoldsOpened ==
  ASSUME NEW j, ScanJob(j) \/ IdJob(j), j.cable = "openjtag", NEW st, NEW chip, NEW q, NEW now,
         Holding(j, st, chip, q, <<>>, 0, now), q # <<>>, Head(q).op = "open",
         NEW c, Made(c), c.mode = "mpsse" => Ready(c), j.kind = "scan" => c.mode = "mpsse",
         NEW s, Live(BoardOf(j), s), s.rx = <<>>
  PROVE  Holding(j, "open", c, Tail(q), <<>>, 0, s)
<1>1. Closed(j, q, <<>>, 0, now) /\ Remain(j, q)
  BY OpensUsb DEF Holding
<1>2. /\ j.kind = "scan" => Len(Tail(q)) = 4
      /\ j.kind = "id" => Len(Tail(q)) = 2 * j.opens - 1
  BY <1>1, OpensFirst
<1>3. /\ j.kind = "scan" \/ j.kind = "id"
      /\ j.kind = "id" => j.opens = 1
  BY KindOf
<1>4. Remain(j, Tail(q))
  BY <1>1, RemainTail
<1> DEFINE r == Tail(q)
<1>5. (j.kind = "scan" => Len(r) = 4) /\ (j.kind = "id" => Len(r) = 1)
  <2>1. 2 * 1 - 1 = 1
    OBVIOUS
  <2>2. j.kind = "id" => Len(r) = 2 * 1 - 1
    BY <1>2, <1>3, Zenon
  <2> HIDE DEF r
  <2>3. j.kind = "id" => Len(r) = 1
    BY <2>1, <2>2
  <2> QED BY <1>2, <2>3, Zenon DEF r
<1>6. Remain(j, r)
  BY <1>4
<1> HIDE DEF r
<1>7. CASE Deaf(j, c)
  <2>1. j.kind = "id" /\ Len(r) = 1
    BY <1>3, <1>5, <1>7 DEF Deaf
  <2>2. r # <<>>
    <3>1. Len(<<>>) # 1
      OBVIOUS
    <3> QED BY <2>1, <3>1
  <2>3. Serial(j, r, 0, s)
    BY <2>1, <2>2 DEF Serial
  <2> QED BY <1>6, <1>7, <2>3 DEF Holding, r
<1>8. CASE ~Deaf(j, c)
  <2>1. Ready(c)
    BY <1>8 DEF Deaf
  <2>2. Waiting(j.cable, s)
    BY DEF Waiting
  <2>3. AtJob(j, Len(r), 0, s)
    <3>1. \A n : (j.kind = "scan" => n = 4) /\ (j.kind = "id" => n \in {1, 3}) => AtJob(j, n, 0, s)
      BY <2>2, OpenedAt
    <3>2. j.kind = "id" => Len(r) \in {1, 3}
      BY <1>5
    <3> QED BY <1>5, <3>1, <3>2, Zenon
  <2>4. j.kind = "id" => Len(r) <= 1
    BY <1>5, 1 <= 1
  <2>5. Working(j, c, r, <<>>, 0, s)
    BY <2>1, <2>3, <2>4, WorkingIdle
  <2> QED BY <1>6, <1>8, <2>5 DEF Holding, r
<1> QED BY <1>7, <1>8

\* The program ends when opening fails.
LEMMA HoldsFailed ==
  ASSUME NEW j, NEW c, Made(c), NEW s, j.cable # "openjtag" => ~SrstPulled(c) /\ s.rx = <<>>
  PROVE  Holding(j, "failed", c, <<>>, <<>>, 0, s)
BY RemainNothing DEF Holding

LEMMA HoldsPort ==
  ASSUME NEW j, ScanJob(j) \/ IdJob(j), j.cable # "openjtag", NEW chip, NEW q, NEW now,
         Holding(j, "closed", chip, q, <<>>, 0, now),
         NEW s, Live(BoardOf(j), s), s.rx = now.rx, s.rd = now.rd
  PROVE  Holding(j, "open", chip, Tail(q), <<>>, 0, s)
<1>1. Closed(j, q, <<>>, 0, now) /\ Remain(j, q) /\ Made(chip) /\ ~SrstPulled(chip) /\ now.rx = <<>>
  BY DEF Holding
<1>2. /\ q # <<>>
      /\ j.kind = "scan" => Len(Tail(q)) = 4
      /\ j.kind = "id" => Len(Tail(q)) = 2 * j.opens - 1
  BY <1>1, OpensFirst
<1>3. /\ j.kind = "scan" \/ j.kind = "id"
      /\ j.kind = "id" => j.opens \in {1, 2}
  BY KindOf
<1>4. Remain(j, Tail(q))
  BY <1>1, <1>2, RemainTail
<1> DEFINE r == Tail(q)
<1>5. (j.kind = "scan" => Len(r) = 4) /\ (j.kind = "id" => Len(r) \in {1, 3})
  <2>1. 2 * 1 - 1 = 1 /\ 2 * 2 - 1 = 3
    OBVIOUS
  <2> DEFINE k == j.opens
             m == Len(r)
  <2>2. j.kind = "id" => m = 2 * k - 1 /\ (k = 1 \/ k = 2)
    BY <1>2, <1>3, Zenon
  <2> HIDE DEF k, m
  <2>3. j.kind = "id" => m \in {1, 3}
    BY <2>1, <2>2
  <2>4. j.kind = "id" => Len(r) \in {1, 3}
    BY <2>3, Zenon DEF m
  <2>5. j.kind = "scan" => Len(r) = 4
    BY <1>2, Zenon
  <2> QED BY <2>4, <2>5, Zenon
<1>6. Remain(j, r)
  BY <1>4
<1> HIDE DEF r
<1>7. Waiting(j.cable, s)
  <2>1. now.rd = <<>> /\ <<>> \in Seq(Bit)
    BY <1>1 DEF Closed
  <2> QED BY <2>1 DEF Waiting, Dry
<1>8. ~Deaf(j, chip)
  BY DEF Deaf
<1>9. Working(j, chip, r, <<>>, 0, s)
  <2>1. AtJob(j, Len(r), 0, s)
    <3>1. \A n : (j.kind = "scan" => n = 4) /\ (j.kind = "id" => n \in {1, 3}) => AtJob(j, n, 0, s)
      BY <1>7, OpenedAt
    <3> QED BY <1>5, <3>1, Zenon
  <2> QED BY <2>1, WorkingIdle
<1> QED BY <1>1, <1>6, <1>8, <1>9 DEF Holding, r

LEMMA HoldsAgain ==
  ASSUME NEW j, ScanJob(j) \/ IdJob(j), j.cable # "openjtag", NEW chip, NEW q, NEW now,
         Holding(j, "open", chip, q, <<>>, 0, now), q # <<>>, Head(q).op = "open"
  PROVE  Holding(j, "open", chip, Tail(q), <<>>, 0, now)
<1>1. ~Deaf(j, chip)
  BY DEF Deaf
<1>2. Working(j, chip, q, <<>>, 0, now) /\ Remain(j, q) /\ Made(chip) /\ ~SrstPulled(chip) /\ now.rx = <<>>
  BY <1>1 DEF Holding
<1>3. AtJob(j, Len(q), 0, now)
  BY <1>2, WorkingIdle
<1>4. j.kind = "id" /\ Len(q) = 2 /\ Len(Tail(q)) = 1
  BY <1>2, <1>3, OpensAgain
<1>5. IdAt(j, 2, 0, now)
  BY <1>3, <1>4 DEF AtJob
<1>6. Live(BoardOf(j), now) /\ now.rd = j.id
  BY <1>5 DEF IdAt
<1>7. now.rd \in Seq(Bit)
  <2>1. j.id \in [1 .. 32 -> Bit]
    BY <1>4, KindOf DEF IdJob
  <2>2. \A m \in Nat : [1 .. m -> Bit] \subseteq Seq(Bit)
    OBVIOUS
  <2>3. 32 \in Nat
    OBVIOUS
  <2>4. j.id \in Seq(Bit)
    BY <2>1, <2>2, <2>3, Zenon
  <2> QED BY <1>6, <2>4
<1>8. Waiting(j.cable, now)
  BY <1>7 DEF Waiting, Dry
<1>9. AtJob(j, 1, 0, now)
  BY <1>4, <1>6, <1>8, OpenedAt
<1>10. Working(j, chip, Tail(q), <<>>, 0, now)
  <2>1. AtJob(j, Len(Tail(q)), 0, now)
    BY <1>4, <1>9
  <2> QED BY <2>1, WorkingIdle
<1>11. Remain(j, Tail(q))
  BY <1>2, RemainTail
<1> QED BY <1>1, <1>2, <1>10, <1>11 DEF Holding

\* What is told when all is done stays told.
LEMMA HoldsTold ==
  ASSUME NEW j, ScanJob(j) \/ IdJob(j), NEW chip, NEW now, Holding(j, "open", chip, <<>>, <<>>, 0, now)
  PROVE  Told(j, chip, now.rd)
<1>1. CASE Deaf(j, chip)
  <2>1. j.kind = "id" /\ now.rd \notin CPUIDs
    BY <1>1 DEF Holding, Serial
  <2> QED BY <1>1, <2>1 DEF Told
<1>2. CASE ~Deaf(j, chip)
  <2>1. Working(j, chip, <<>>, <<>>, 0, now)
    BY <1>2 DEF Holding
  <2> QED BY <1>2, <2>1, WorkTold
<1> QED BY <1>1, <1>2

LEMMA HoldsQuit ==
  ASSUME NEW j, ScanJob(j) \/ IdJob(j), NEW chip, NEW now, Holding(j, "open", chip, <<>>, <<>>, 0, now),
         NEW c, Made(c), c.mode = chip.mode, j.cable # "openjtag" => c = chip,
         NEW s, s.rx = now.rx, s.rd = now.rd
  PROVE  Holding(j, "quit", c, <<>>, <<>>, 0, s)
<1>1. Told(j, chip, now.rd)
  BY HoldsTold
<1>2. Deaf(j, c) <=> Deaf(j, chip)
  BY DEF Deaf
<1>3. Told(j, c, s.rd)
  BY <1>1, <1>2 DEF Told
<1>4. j.cable # "openjtag" => ~SrstPulled(c) /\ s.rx = <<>>
  BY DEF Holding
<1> QED BY <1>3, <1>4, RemainNothing DEF Holding

LEMMA FoundChips == Made(Plugged) /\ Made(LeftOpen) /\ ~SrstPulled(Plugged) /\ Plugged # LeftOpen
<1>1. Made(Plugged) /\ Made(LeftOpen)
  BY DEF Made, Fields, Plugged, LeftOpen, Chip
<1>2. Plugged.mode = "serial" /\ LeftOpen.mode = "mpsse"
  BY DEF Plugged, LeftOpen, Chip
<1>3. ~SrstPulled(Plugged)
  BY <1>2 DEF SrstPulled, Pulled
<1> QED BY <1>1, <1>2, <1>3

LEMMA InitFrame == Init => FrameInv
<1> SUFFICES ASSUME Init PROVE FrameInv
  OBVIOUS
<1>1. /\ job \in Jobs /\ ops = Begin(job) /\ buffer = <<>> /\ expect = 0 /\ rdDR = <<>>
      /\ cable = IF job.opens = 0 THEN [state |-> "open", chip |-> Configured, byte |-> 0]
                 ELSE [state |-> "closed", chip |-> job.found, byte |-> 0]
      /\ dev = Found(job)
      /\ received = IF job.found = LeftOpen THEN << Bits(250), Bits(75) >> ELSE <<>>
  BY DEF Init
<1> HIDE DEF Init
<1>2. SUFFICES ASSUME job.kind \in {"scan", "id"}
               PROVE  /\ cable = [state |-> cable.state, chip |-> cable.chip, byte |-> cable.byte]
                      /\ Holding(job, cable.state, cable.chip, ops, buffer, expect, Now)
  BY <1>1 DEF FrameInv
<1> DEFINE j == job
           now == Now
           q == ops
<1>3. ScanJob(j) \/ IdJob(j)
  BY <1>1, <1>2, JobsSplit
<1>4. Remain(j, q) /\ Len(q) = First(j)
  BY <1>1, <1>3, BeginIds, BeginScans
<1>5. Live(BoardOf(j), now) /\ now.rd = <<>> /\ now.rx = received
  <2>1. On(BoardOf(j), Found(j))
    BY <1>3, BoardTyped
  <2>2. now.dev = dev /\ now.rd = rdDR /\ now.rx = received
    BY DEF Now
  <2> QED BY <1>1, <2>1, <2>2 DEF Live
<1>6. /\ j.found \in {Plugged, LeftOpen}
      /\ (j.opens = 0 \/ j.cable # "openjtag" => j.found = Plugged)
  BY <1>3 DEF ScanJob, IdJob, Comes
<1>7. j.opens = 0 \/ j.cable # "openjtag" => now.rx = <<>>
  BY <1>1, <1>5, <1>6, FoundChips
<1>8. CASE j.opens = 0
  <2>1. cable = [state |-> "open", chip |-> Configured, byte |-> 0]
    BY <1>1, <1>8
  <2>2. cable.state = "open" /\ cable.chip = Configured /\ cable.byte = 0
    BY <2>1
  <2>3. cable = [state |-> cable.state, chip |-> cable.chip, byte |-> cable.byte]
    BY <2>1, <2>2
  <2>4. j.kind = "scan" /\ First(j) = 4
    BY <1>3, <1>8, KindOf DEF First
  <2>5. Waiting(j.cable, now)
    <3>1. <<>> \in Seq(Bit)
      OBVIOUS
    <3> QED BY <1>5, <1>7, <1>8, <3>1 DEF Waiting, Dry
  <2>6. Made(Configured) /\ Ready(Configured)
    BY ConfiguredReady
  <2> DEFINE c == Configured
  <2> HIDE DEF j, now, q, c
  <2>7. AtJob(j, 4, 0, now)
    BY <1>3, <1>5, <2>4, <2>5, OpenedAt
  <2>8. Working(j, c, q, <<>>, 0, now)
    <3>1. AtJob(j, Len(q), 0, now)
      BY <1>4, <2>4, <2>7
    <3> QED BY <2>4, <2>6, <3>1, WorkingIdle DEF c
  <2>9. ~SrstPulled(c) /\ ~Deaf(j, c)
    BY <2>6 DEF Ready, Reaches, Deaf, c
  <2>10. Holding(j, "open", c, q, <<>>, 0, now)
    BY <1>4, <1>7, <1>8, <2>6, <2>8, <2>9 DEF Holding, c
  <2> QED BY <1>1, <2>2, <2>3, <2>10 DEF j, now, q, c
<1>9. CASE j.opens # 0
  <2>1. cable = [state |-> "closed", chip |-> job.found, byte |-> 0]
    BY <1>1, <1>9
  <2>2. cable.state = "closed" /\ cable.chip = job.found /\ cable.byte = 0
    BY <2>1
  <2>3. cable = [state |-> cable.state, chip |-> cable.chip, byte |-> cable.byte]
    BY <2>1, <2>2
  <2> DEFINE c == j.found
  <2>4. Made(c) /\ (j.cable # "openjtag" => ~SrstPulled(c))
    BY <1>6, FoundChips
  <2> HIDE DEF j, now, q, c
  <2>5. Closed(j, q, <<>>, 0, now)
    BY <1>4, <1>5, <1>9 DEF Closed
  <2>6. Holding(j, "closed", c, q, <<>>, 0, now)
    BY <1>4, <1>7, <2>4, <2>5 DEF Holding
  <2> QED BY <1>1, <2>2, <2>3, <2>6 DEF j, now, q, c
<1> QED BY <1>8, <1>9

-----------------------------------------------------------------------------
(* The steps *)

\* What is known before a step of such a job.
Held ==
  /\ ScanJob(job) \/ IdJob(job)
  /\ cable = [state |-> cable.state, chip |-> cable.chip, byte |-> cable.byte]
  /\ Holding(job, cable.state, cable.chip, ops, buffer, expect, Now)
HeldNext ==
  /\ cable' = [state |-> cable'.state, chip |-> cable'.chip, byte |-> cable'.byte]
  /\ Holding(job, cable'.state, cable'.chip, ops', buffer', expect', Now')

LEMMA NowFields == Now.dev = dev /\ Now.rx = received /\ Now.byte = cable.byte /\ Now.rd = rdDR
BY DEF Now
LEMMA NowNext == Now' = [dev |-> dev', rx |-> received', byte |-> cable'.byte, rd |-> rdDR']
BY DEF Now

LEMMA CallHolds == Held /\ Call => HeldNext
<1> SUFFICES ASSUME Held, Call PROVE HeldNext
  OBVIOUS
<1> DEFINE o == Head(ops)
<1>1. /\ ops # <<>> /\ buffer = <<>> /\ expect = 0 /\ o.op # "open" /\ job.cable = "openjtag"
      /\ buffer' = Commands(o) /\ ops' = Tail(ops)
      /\ cable' = cable /\ dev' = dev /\ received' = received /\ rdDR' = rdDR
  BY DEF Call, Calling
<1>2. expect' = CASE o.op = "id" -> 4
                  [] o.op = "dr" /\ o.read -> ft2232_predict_scan_in(Len(job.wr))
                  [] OTHER -> 0
  BY DEF Call
<1>3. buffer' = Operated(job.cable, o) /\ expect' = Expected(job, o)
  BY <1>1, <1>2 DEF Operated, Expected
<1> DEFINE now == Now
           s == Now'
           st == cable.state
           c == cable.chip
           q == ops
           j == job
<1>4. s.dev = now.dev /\ s.rx = now.rx /\ s.rd = now.rd
  BY <1>1, NowFields, NowNext
<1>5. /\ ScanJob(j) \/ IdJob(j)
      /\ cable = [state |-> cable.state, chip |-> cable.chip, byte |-> cable.byte]
      /\ Holding(j, st, c, q, <<>>, 0, now)
  BY <1>1 DEF Held
<1>6. Begins(j, o, now, s)
  BY <1>1, <1>4 DEF Begins
<1> HIDE DEF now, s, st, c
<1>7. Holding(j, st, c, Tail(q), Operated(j.cable, o), Expected(j, o), s)
  BY <1>1, <1>5, <1>6, HoldsCalled
<1> QED BY <1>1, <1>3, <1>5, <1>7 DEF HeldNext, st, c, s

LEMMA CallPortHolds == Held /\ CallPort => HeldNext
<1> SUFFICES ASSUME Held, CallPort PROVE HeldNext
  OBVIOUS
<1> DEFINE o == Head(ops)
<1>1. /\ ops # <<>> /\ buffer = <<>> /\ expect = 0 /\ o.op # "open" /\ job.cable # "openjtag"
      /\ buffer' = IF job.cable = "dongle" THEN Dongle_opr(o) ELSE Wiggler_opr(o)
      /\ rdDR' = IF o.op \in {"id", "dr"} THEN <<>> ELSE rdDR
      /\ ops' = Tail(ops) /\ cable' = cable /\ dev' = dev /\ received' = received /\ expect' = expect
  BY DEF CallPort, Calling
<1>3. buffer' = Operated(job.cable, o) /\ expect' = Expected(job, o)
  BY <1>1 DEF Operated, Expected
<1> DEFINE now == Now
           s == Now'
           st == cable.state
           c == cable.chip
           q == ops
           j == job
<1>4. s.dev = now.dev /\ s.rx = now.rx /\ s.rd = IF o.op \in {"id", "dr"} THEN <<>> ELSE now.rd
  BY <1>1, NowFields, NowNext
<1>5. /\ ScanJob(j) \/ IdJob(j)
      /\ cable = [state |-> cable.state, chip |-> cable.chip, byte |-> cable.byte]
      /\ Holding(j, st, c, q, <<>>, 0, now)
  BY <1>1 DEF Held
<1>6. Begins(j, o, now, s)
  BY <1>1, <1>4 DEF Begins
<1> HIDE DEF now, s, st, c
<1>7. Holding(j, st, c, Tail(q), Operated(j.cable, o), Expected(j, o), s)
  BY <1>1, <1>5, <1>6, HoldsCalled
<1> QED BY <1>1, <1>3, <1>5, <1>7 DEF HeldNext, st, c, s

LEMMA ExecuteHolds == Held /\ Execute => HeldNext
<1> SUFFICES ASSUME Held, Execute PROVE HeldNext
  OBVIOUS
<1> DEFINE c == Head(buffer)
           d == [dev EXCEPT !.tdo = <<>>]
           tms == IF c.op = "tms" THEN TmsBits(c) ELSE [k \in 1 .. c.n * Len(c.data) |-> 0]
           tdi == IF c.op = "tms" THEN TmsTdi(c) ELSE DataBits(c)
           after == IF Reaches(cable.chip) THEN Clocks(d, tms, tdi)
                    ELSE [d EXCEPT !.tdo = [k \in DOMAIN tms |-> d.float]]
           in == IF cable.chip.loopback THEN tdi ELSE after.tdo
           back == [j \in 1 .. Len(c.data) |-> Arrived(SubSeq(in, c.n * (j - 1) + 1, c.n * j))]
           got == [j \in 1 .. Len(c.data) |-> Arrived(SubSeq(Clocks(d, tms, tdi).tdo, c.n * (j - 1) + 1, c.n * j))]
<1>1. /\ buffer # <<>> /\ job.cable = "openjtag"
      /\ dev' = after
      /\ received' = IF c.read /\ cable.chip.mode = "mpsse" THEN received \o back ELSE received
      /\ buffer' = Tail(buffer)
      /\ job' = job /\ cable' = cable /\ ops' = ops /\ expect' = expect /\ rdDR' = rdDR
  BY DEF Execute
<1>2. Commanded(Now, c) =
        [dev |-> Clocks(d, tms, tdi),
         rx |-> IF c.read THEN received \o got ELSE received,
         byte |-> cable.byte, rd |-> rdDR]
  BY NowFields DEF Commanded
<1>3. ASSUME Ready(cable.chip) PROVE Now' = Commanded(Now, c)
  <2>1. Reaches(cable.chip) /\ ~cable.chip.loopback /\ cable.chip.mode = "mpsse"
    BY <1>3 DEF Ready, Reaches
  <2>2. after = Clocks(d, tms, tdi)
    BY <2>1
  <2>3. in = Clocks(d, tms, tdi).tdo
    <3> HIDE DEF tms, tdi, d, c
    <3> QED BY <2>1, <2>2
  <2>4. back = got
    <3> HIDE DEF in, tms, tdi, d, c
    <3> QED BY <2>3
  <2> HIDE DEF c, d, tms, tdi, after, in, back, got
  <2>5. dev' = Clocks(d, tms, tdi) /\ received' = IF c.read THEN received \o got ELSE received
    BY <1>1, <2>1, <2>2, <2>4
  <2> QED BY <1>1, <1>2, <2>5, NowNext
<1> HIDE DEF c, d, tms, tdi, after, in, back, got
<1> DEFINE now == Now
           s == Now'
           st == cable.state
           h == cable.chip
           q == ops
           j == job
           buf == buffer
           e == expect
<1>4. /\ cable = [state |-> cable.state, chip |-> cable.chip, byte |-> cable.byte]
      /\ Holding(j, st, h, q, buf, e, now)
  BY DEF Held
<1>5. h.mode # "mpsse" => s.rx = now.rx /\ s.rd = now.rd
  BY <1>1, NowFields, NowNext
<1>6. Deaf(j, h) => s.rx = now.rx /\ s.rd = now.rd
  BY <1>5 DEF Deaf
<1>7. st = "open" /\ ~Deaf(j, h) => Ready(h)
  BY <1>1, <1>4 DEF Holding, Working
<1>8. st = "open"
  <2>1. st \in {"closed", "open", "failed", "quit"}
    BY <1>4 DEF Holding
  <2>2. st # "closed"
    BY <1>1, <1>4 DEF Holding, Closed
  <2>3. st \notin {"failed", "quit"}
    BY <1>1, <1>4 DEF Holding
  <2> QED BY <2>1, <2>2, <2>3
<1>9. ~Deaf(j, h) => s = Did(j.cable, now, Head(buf))
  BY <1>1, <1>3, <1>7, <1>8 DEF Did, c
<1>10. buf # <<>>
  BY <1>1
<1> HIDE DEF now, s, st, h, buf, e
<1>11. Holding(j, st, h, q, Tail(buf), e, s)
  BY <1>4, <1>6, <1>9, <1>10, HoldsDone
<1> QED BY <1>1, <1>4, <1>11 DEF HeldNext, st, h, s, buf, e

LEMMA AccessHolds == Held /\ Access => HeldNext
<1> SUFFICES ASSUME Held, Access PROVE HeldNext
  OBVIOUS
<1> DEFINE a == Head(buffer)
           pins == Pins(job.cable)
           byte == Byte(pins, a)
           out == OutputPpt(pins, cable.byte, byte, [dev EXCEPT !.tdo = <<>>])
<1>1. /\ buffer # <<>> /\ job.cable # "openjtag" /\ buffer' = Tail(buffer)
      /\ job' = job /\ ops' = ops /\ received' = received /\ expect' = expect
      /\ \/ a.get /\ rdDR' = Append(rdDR, InputPpt(dev)) /\ cable' = cable /\ dev' = dev
         \/ ~a.get /\ dev' = out /\ cable' = [cable EXCEPT !.byte = byte] /\ rdDR' = rdDR
  BY DEF Access
<1>2. cable = [state |-> cable.state, chip |-> cable.chip, byte |-> cable.byte]
  BY DEF Held
<1>3. Accessed(pins, Now, a) =
        IF a.get THEN [dev |-> dev, rx |-> received, byte |-> cable.byte, rd |-> Append(rdDR, InputPpt(dev))]
        ELSE [dev |-> out, rx |-> received, byte |-> byte, rd |-> rdDR]
  BY NowFields DEF Accessed
<1> HIDE DEF a, pins, byte, out
<1>4. /\ cable' = [state |-> cable'.state, chip |-> cable'.chip, byte |-> cable'.byte]
      /\ cable'.state = cable.state /\ cable'.chip = cable.chip
      /\ a.get => cable'.byte = cable.byte
      /\ ~a.get => cable'.byte = byte
  <2>1. CASE cable' = cable /\ a.get
    BY <1>2, <2>1
  <2>2. CASE ~a.get /\ cable' = [cable EXCEPT !.byte = byte]
    <3>1. cable' = [state |-> cable.state, chip |-> cable.chip, byte |-> byte]
      BY <1>2, <2>2
    <3> QED BY <2>2, <3>1
  <2> QED BY <1>1, <2>1, <2>2
<1>5. Now' = Did(job.cable, Now, a)
  <2>1. Did(job.cable, Now, a) = Accessed(pins, Now, a)
    BY <1>1 DEF Did, pins
  <2>2. CASE a.get
    BY <1>1, <1>3, <1>4, <2>1, <2>2, NowNext
  <2>3. CASE ~a.get
    BY <1>1, <1>3, <1>4, <2>1, <2>3, NowNext
  <2> QED BY <2>2, <2>3
<1> DEFINE now == Now
           s == Now'
           st == cable.state
           h == cable.chip
           q == ops
           j == job
           buf == buffer
           e == expect
<1>6. Holding(j, st, h, q, buf, e, now)
  BY DEF Held
<1>7. ~Deaf(j, h)
  BY <1>1 DEF Deaf
<1>8. s = Did(j.cable, now, Head(buf)) /\ buf # <<>>
  BY <1>1, <1>5 DEF a
<1> HIDE DEF now, s, st, h, buf, e
<1>9. Holding(j, st, h, q, Tail(buf), e, s)
  BY <1>6, <1>7, <1>8, HoldsDone
<1> QED BY <1>1, <1>4, <1>9 DEF HeldNext, st, h, s, buf, e

LEMMA ReadHolds == Held /\ RepliesInv /\ Read => HeldNext
<1> SUFFICES ASSUME Held, RepliesInv, Read PROVE HeldNext
  OBVIOUS
<1>1. /\ buffer = <<>> /\ expect > 0 /\ Len(received) >= expect
      /\ rdDR' = Received(job, received) /\ expect' = 0
      /\ job' = job /\ cable' = cable /\ ops' = ops /\ buffer' = buffer /\ dev' = dev
  BY DEF Read, Received
<1>2. expect \in Nat
  BY DEF RepliesInv, Queued
<1> DEFINE now == Now
           s == Now'
           st == cable.state
           h == cable.chip
           q == ops
           j == job
           e == expect
<1>3. /\ ScanJob(j) \/ IdJob(j)
      /\ cable = [state |-> cable.state, chip |-> cable.chip, byte |-> cable.byte]
      /\ Holding(j, st, h, q, <<>>, e, now)
  BY <1>1 DEF Held
<1>4. now.rx = received /\ s.dev = now.dev /\ s.rd = Received(j, now.rx)
  BY <1>1, NowFields, NowNext
<1>5. e \in Nat /\ e > 0 /\ Len(now.rx) >= e
  BY <1>1, <1>2, <1>4
<1> HIDE DEF now, s, st, h, e
<1>6. Holding(j, st, h, q, <<>>, 0, s)
  BY <1>3, <1>4, <1>5, HoldsRead
<1> QED BY <1>1, <1>3, <1>6 DEF HeldNext, st, h, s

LEMMA ReadFailsHolds == Held /\ RepliesInv /\ ReadFails => HeldNext
<1> SUFFICES ASSUME Held, RepliesInv, ReadFails PROVE HeldNext
  OBVIOUS
<1>1. /\ buffer = <<>> /\ expect > Len(received) /\ job.kind = "id"
      /\ rdDR' = Guessed(received) /\ expect' = 0 /\ received' = <<>>
      /\ job' = job /\ cable' = cable /\ ops' = ops /\ buffer' = buffer /\ dev' = dev
  BY DEF ReadFails, Guessed
<1> DEFINE now == Now
           s == Now'
           st == cable.state
           h == cable.chip
           q == ops
           j == job
           e == expect
<1>2. /\ ScanJob(j) \/ IdJob(j)
      /\ cable = [state |-> cable.state, chip |-> cable.chip, byte |-> cable.byte]
      /\ Holding(j, st, h, q, <<>>, e, now)
  BY <1>1 DEF Held
<1>3. now.rx = received /\ s.rx = <<>> /\ s.rd = Guessed(now.rx) /\ e > Len(now.rx)
  BY <1>1, NowFields, NowNext
<1>4. Len(now.rx) \in Nat
  <2>1. CASE job.cable = "openjtag"
    BY <1>3, <2>1 DEF RepliesInv, Queued, Listed
  <2>2. CASE job.cable # "openjtag"
    <3>1. now.rx = <<>>
      BY <1>2, <2>2 DEF Holding
    <3> QED BY <3>1
  <2> QED BY <2>1, <2>2
<1>5. IdJob(j)
  BY <1>1, <1>2, KindOf
<1> HIDE DEF now, s, st, h, e
<1>6. Holding(j, st, h, q, <<>>, 0, s)
  BY <1>2, <1>3, <1>4, <1>5, HoldsGuessed
<1> QED BY <1>1, <1>2, <1>6 DEF HeldNext, st, h, s

LEMMA CallsMade ==
  ASSUME NEW start, Made(start.chip), NEW calls, Len(calls) \in Nat, NEW lost, NEW made \in 0 .. Len(calls)
  PROVE  Made(Calls(start, calls, lost)[made].chip)
<1>1. PICK f : /\ ChipBy(f, calls, lost) /\ f[0] = start.chip
               /\ \A k \in 0 .. Len(calls) : Calls(start, calls, lost)[k].chip = f[k]
  BY ChipByChip
<1>2. Made(f[0])
  BY <1>1
<1>3. \A k \in Nat : k <= Len(calls) => Made(f[k])
  BY <1>1, <1>2, ChipsMade
<1>4. Made(f[made])
  BY <1>3
<1> QED BY <1>1, <1>4

LEMMA InitCounted ==
  ASSUME NEW build, NEW highspeed \in BOOLEAN
  PROVE  Len(ft2232_init(build, highspeed)) \in Nat
<1> DEFINE calls == ft2232_init(build, highspeed)
<1>1. \E m : SetsPins(calls, m)
  BY InitSets
<1> HIDE DEF calls
<1>2. calls \in Seq(UsbCall)
  BY <1>1 DEF SetsPins
<1>3. Len(calls) \in Nat
  BY <1>2
<1> QED BY <1>3 DEF calls

LEMMA OpenFt2232Holds == Held /\ OpenFt2232 => HeldNext
<1> SUFFICES ASSUME Held, OpenFt2232 PROVE HeldNext
  OBVIOUS
<1> DEFINE calls == ft2232_init(job.build, job.highspeed)
           start == [chip |-> cable.chip, dev |-> dev, rx |-> received]
<1>1. PICK made \in 0 .. Len(calls), lost \in Unseen(calls) :
        /\ job.kind = "id" \/ (made = Len(calls) /\ lost = {})
        /\ LET now == Calls(start, calls, lost)[made]
               opened == made = Len(calls)
           IN /\ dev' = now.dev /\ received' = now.rx
              /\ cable' = [cable EXCEPT !.chip = now.chip, !.state = IF opened THEN "open" ELSE "failed"]
              /\ IF opened THEN ops' = Tail(ops) ELSE GivenUp
  BY DEF OpenFt2232
<1>2. /\ ops # <<>> /\ buffer = <<>> /\ expect = 0 /\ Head(ops).op = "open" /\ job.cable = "openjtag"
      /\ job' = job /\ buffer' = buffer /\ expect' = expect /\ rdDR' = rdDR
  BY DEF OpenFt2232, Calling
<1>3. /\ ScanJob(job) \/ IdJob(job)
      /\ cable = [state |-> cable.state, chip |-> cable.chip, byte |-> cable.byte]
      /\ Holding(job, cable.state, cable.chip, ops, <<>>, 0, Now)
  BY <1>2 DEF Held
<1>4. start.chip = cable.chip /\ start.dev = dev
  OBVIOUS
<1>5. job.highspeed \in BOOLEAN
  BY <1>3 DEF ScanJob, IdJob, Comes
<1>6. Len(calls) \in Nat
  BY <1>5, InitCounted
<1>7. Made(start.chip)
  BY <1>3, <1>4 DEF Holding
<1> DEFINE b == BoardOf(job)
<1>8. On(b, start.dev)
  <2>1. cable.state = "closed"
    BY <1>2, <1>3, OpensUsb
  <2>2. Live(b, Now)
    BY <1>3, <2>1 DEF Holding, Closed
  <2> QED BY <1>4, <2>2, NowFields DEF Live
<1> DEFINE after == Calls(start, calls, lost)[made]
           c == after.chip
<1> HIDE DEF start, b
<1>9. Made(c)
  BY <1>6, <1>7, CallsMade
<1>10. On(b, after.dev)
  BY <1>6, <1>8, BoardKept
<1>11. made = Len(calls) => /\ c.mode = "mpsse" => Ready(c)
                            /\ lost = {} => c.mode = "mpsse"
                            /\ after.rx = <<>>
  BY <1>5, <1>7, Opened
<1> DEFINE y == IF made = Len(calls) THEN "open" ELSE "failed"
<1>12. /\ dev' = after.dev /\ received' = after.rx
       /\ cable' = [cable EXCEPT !.chip = c, !.state = y]
       /\ IF made = Len(calls) THEN ops' = Tail(ops) ELSE ops' = <<>>
  BY <1>1 DEF GivenUp
<1> HIDE DEF after, c, y, calls
<1>13. /\ cable' = [state |-> cable'.state, chip |-> cable'.chip, byte |-> cable'.byte]
       /\ cable'.state = y /\ cable'.chip = c
  BY <1>3, <1>12, CableChanged
<1> DEFINE s == Now'
           now == Now
           st == cable.state
           h == cable.chip
           j == job
           q == ops
<1>14. s.dev = after.dev /\ s.rx = after.rx
  BY <1>12, NowNext
<1>15. CASE made = Len(calls)
  <2>1. y = "open" /\ ops' = Tail(ops)
    BY <1>12, <1>15 DEF y
  <2>2. j.kind = "scan" => c.mode = "mpsse"
    BY <1>1, <1>11, <1>15
  <2>3. Live(BoardOf(j), s) /\ s.rx = <<>>
    BY <1>10, <1>11, <1>14, <1>15 DEF Live, b
  <2>4. c.mode = "mpsse" => Ready(c)
    BY <1>11, <1>15
  <2>5. (ScanJob(j) \/ IdJob(j)) /\ j.cable = "openjtag" /\ Holding(j, st, h, q, <<>>, 0, now)
        /\ q # <<>> /\ Head(q).op = "open"
    BY <1>2, <1>3
  <2> HIDE DEF s, now, st, h
  <2>6. Holding(j, "open", c, Tail(q), <<>>, 0, s)
    BY <1>9, <2>2, <2>3, <2>4, <2>5, HoldsOpened
  <2> QED BY <1>2, <1>13, <2>1, <2>6 DEF HeldNext, s
<1>16. CASE made # Len(calls)
  <2>1. y = "failed" /\ ops' = <<>>
    BY <1>12, <1>16 DEF y
  <2> HIDE DEF s
  <2>2. Holding(j, "failed", c, <<>>, <<>>, 0, s)
    BY <1>2, <1>9, HoldsFailed
  <2> QED BY <1>2, <1>13, <2>1, <2>2 DEF HeldNext, s
<1> QED BY <1>15, <1>16

\* The signature at the port may clock the TAP: it is the same board.
LEMMA SignatureKeeps ==
  ASSUME NEW b \in Board, NEW name \in Ppt, NEW was, NEW d, On(b, d)
  PROVE  On(b, OutputPpt(Pins(name), was, Signature, d))
<1> DEFINE pins == Pins(name)
           tms == Level(Signature, pins.TMS)
           tdi == Level(Signature, pins.TDI)
<1>1. tms \in Bit /\ tdi \in Bit
  <2>1. pins.TMS \in {1, 2, 4, 8} /\ pins.TDI \in {1, 2, 4, 8}
    BY DEF Pins, Dongle, Wiggler
  <2>2. \A w \in {1, 2, 4, 8} : Level(Signature, w) \in Bit
    BY DEF Level, Signature, Bit
  <2> QED BY <2>1, <2>2
<1>2. OutputPpt(pins, was, Signature, d) \in {d, Clock(d, tms, tdi)}
  BY DEF OutputPpt
<1> HIDE DEF tms, tdi, pins
<1>3. On(b, Clock(d, tms, tdi))
  BY <1>1, ClockTicks DEF Ticks
<1> QED BY <1>2, <1>3 DEF pins

LEMMA OpenPptHolds == Held /\ OpenPpt => HeldNext
<1> SUFFICES ASSUME Held, OpenPpt PROVE HeldNext
  OBVIOUS
<1> DEFINE out == OutputPpt(Pins(job.cable), cable.byte, Signature, dev)
<1>1. /\ ops # <<>> /\ buffer = <<>> /\ expect = 0 /\ Head(ops).op = "open" /\ job.cable # "openjtag"
      /\ job' = job /\ buffer' = buffer /\ received' = received /\ expect' = expect /\ rdDR' = rdDR
  BY DEF OpenPpt, Calling
<1>2. \/ cable.state = "open" /\ ops' = Tail(ops) /\ cable' = cable /\ dev' = dev
      \/ cable.state # "open" /\ ops' = <<>> /\ cable' = [cable EXCEPT !.state = "failed"]
      \/ /\ cable.state # "open" /\ ops' = Tail(ops) /\ dev' = out
         /\ cable' = [cable EXCEPT !.state = "open", !.byte = Signature]
  BY DEF OpenPpt, GivenUp
<1>3. /\ ScanJob(job) \/ IdJob(job)
      /\ cable = [state |-> cable.state, chip |-> cable.chip, byte |-> cable.byte]
      /\ Holding(job, cable.state, cable.chip, ops, <<>>, 0, Now)
  BY <1>1 DEF Held
<1>4. BoardOf(job) \in Board /\ job.cable \in Ppt
  BY <1>1, <1>3, BoardTyped DEF ScanJob, IdJob, Comes, Cables
<1> HIDE DEF out
<1> DEFINE s == Now'
           now == Now
           st == cable.state
           h == cable.chip
           j == job
           q == ops
<1>5. s.rx = now.rx /\ s.rd = now.rd /\ s.dev = dev' /\ now.dev = dev
  BY <1>1, NowFields, NowNext
<1>6. CASE cable.state = "open" /\ ops' = Tail(ops) /\ cable' = cable /\ dev' = dev
  <2>1. s = now
    <3>1. Now = [dev |-> dev, rx |-> received, byte |-> cable.byte, rd |-> rdDR]
      BY DEF Now
    <3> QED BY <1>1, <1>6, <3>1, NowNext
  <2>2. Holding(j, "open", h, q, <<>>, 0, now)
    BY <1>3, <1>6
  <2> HIDE DEF s, now, st, h
  <2>3. Holding(j, "open", h, Tail(q), <<>>, 0, s)
    BY <1>1, <1>3, <2>1, <2>2, HoldsAgain
  <2> QED BY <1>1, <1>3, <1>6, <2>3 DEF HeldNext, s, h
<1>7. CASE cable.state # "open" /\ ops' = <<>> /\ cable' = [cable EXCEPT !.state = "failed"]
  <2>1. cable' = [state |-> "failed", chip |-> cable.chip, byte |-> cable.byte]
    BY <1>3, <1>7
  <2>2. /\ cable' = [state |-> cable'.state, chip |-> cable'.chip, byte |-> cable'.byte]
        /\ cable'.state = "failed" /\ cable'.chip = h
    BY <2>1
  <2>3. Made(h) /\ ~SrstPulled(h) /\ s.rx = <<>>
    BY <1>1, <1>3, <1>5 DEF Holding
  <2> HIDE DEF s, now, st, h
  <2>4. Holding(j, "failed", h, <<>>, <<>>, 0, s)
    BY <2>3, HoldsFailed
  <2> QED BY <1>1, <1>7, <2>2, <2>4 DEF HeldNext, s, h
<1>8. CASE /\ cable.state # "open" /\ ops' = Tail(ops) /\ dev' = out
           /\ cable' = [cable EXCEPT !.state = "open", !.byte = Signature]
  <2>1. cable' = [state |-> "open", chip |-> cable.chip, byte |-> Signature]
    BY <1>3, <1>8
  <2>2. /\ cable' = [state |-> cable'.state, chip |-> cable'.chip, byte |-> cable'.byte]
        /\ cable'.state = "open" /\ cable'.chip = h
    BY <2>1
  <2>3. st = "closed"
    <3>1. st \in {"closed", "open", "failed", "quit"}
      BY <1>3 DEF Holding
    <3>2. st \notin {"failed", "quit"}
      BY <1>1, <1>3 DEF Holding
    <3> QED BY <1>8, <3>1, <3>2
  <2>4. Live(BoardOf(j), now)
    BY <1>3, <2>3 DEF Holding, Closed
  <2>5. Live(BoardOf(j), s)
    <3>1. On(BoardOf(job), dev)
      BY <1>5, <2>4 DEF Live
    <3>2. On(BoardOf(job), out)
      BY <1>4, <3>1, SignatureKeeps DEF out
    <3> QED BY <1>5, <1>8, <3>2 DEF Live
  <2>6. Holding(j, "closed", h, q, <<>>, 0, now)
    BY <1>3, <2>3
  <2> HIDE DEF s, now, st, h
  <2>7. Holding(j, "open", h, Tail(q), <<>>, 0, s)
    BY <1>1, <1>3, <1>5, <2>5, <2>6, HoldsPort
  <2> QED BY <1>1, <1>8, <2>2, <2>7 DEF HeldNext, s, h
<1> QED BY <1>2, <1>6, <1>7, <1>8

LEMMA QuitHolds == Held /\ Quit => HeldNext
<1> SUFFICES ASSUME Held, Quit PROVE HeldNext
  OBVIOUS
<1> DEFINE calls == IF job.cable = "openjtag" THEN ft2232_quit ELSE <<>>
           start == [chip |-> cable.chip, dev |-> dev, rx |-> received]
<1>1. /\ ops = <<>> /\ buffer = <<>> /\ expect = 0 /\ cable.state = "open"
      /\ job' = job /\ ops' = ops /\ buffer' = buffer /\ received' = received /\ expect' = expect
      /\ rdDR' = rdDR
  BY DEF Quit, Finished
<1>2. PICK made \in 0 .. Len(calls) :
        cable' = [cable EXCEPT !.chip = Calls(start, calls, {})[made].chip, !.state = "quit"]
  BY DEF Quit
<1>3. /\ ScanJob(job) \/ IdJob(job)
      /\ cable = [state |-> cable.state, chip |-> cable.chip, byte |-> cable.byte]
      /\ Holding(job, "open", cable.chip, <<>>, <<>>, 0, Now)
  BY <1>1 DEF Held
<1> DEFINE c == Calls(start, calls, {})[made].chip
<1>4. /\ cable' = [state |-> cable'.state, chip |-> cable'.chip, byte |-> cable'.byte]
      /\ cable'.state = "quit" /\ cable'.chip = c
  <2> HIDE DEF c
  <2>1. cable' = [cable EXCEPT !.chip = c, !.state = "quit"]
    BY <1>2 DEF c
  <2> QED BY <1>3, <2>1, CableChanged
<1>5. Made(start.chip) /\ start.chip = cable.chip
  BY <1>3 DEF Holding
<1>6. Made(c) /\ c.mode = cable.chip.mode /\ (job.cable # "openjtag" => c = cable.chip)
  <2> HIDE DEF start
  <2>1. CASE job.cable = "openjtag"
    <3>1. calls = ft2232_quit
      BY <2>1
    <3>2. Len(ft2232_quit) \in Nat
      BY DEF ft2232_quit
    <3>3. made \in 0 .. Len(ft2232_quit)
      BY <3>1
    <3>4. c = Calls(start, ft2232_quit, {})[made].chip
      BY <3>1
    <3> HIDE DEF c, calls
    <3>5. Made(c)
      BY <1>5, <3>2, <3>3, <3>4, CallsMade
    <3>6. c.mode = start.chip.mode
      BY <1>5, <3>3, <3>4, QuitKeepsMode
    <3> QED BY <1>5, <2>1, <3>5, <3>6
  <2>2. CASE job.cable # "openjtag"
    <3>1. calls = <<>> /\ Len(<<>>) = 0
      BY <2>2
    <3>2. made = 0
      BY <3>1
    <3>3. Calls(start, <<>>, {})[0].chip = start.chip
      <4>1. 0 \in 0 .. Len(<<>>) /\ Len(<<>>) \in Nat
        BY <3>1
      <4> QED BY <4>1, ChipByChip
    <3>4. c = start.chip
      BY <3>1, <3>2, <3>3
    <3> QED BY <1>5, <3>4
  <2> QED BY <2>1, <2>2
<1> DEFINE s == Now'
           now == Now
           h == cable.chip
           j == job
<1>7. s.rx = now.rx /\ s.rd = now.rd
  BY <1>1, NowFields, NowNext
<1> HIDE DEF c, s, now, h
<1>8. Holding(j, "open", h, <<>>, <<>>, 0, now) /\ Made(c) /\ c.mode = h.mode /\ (j.cable # "openjtag" => c = h)
  BY <1>3, <1>6 DEF h, now
<1>9. Holding(j, "quit", c, <<>>, <<>>, 0, s)
  BY <1>3, <1>7, <1>8, HoldsQuit
<1> QED BY <1>1, <1>4, <1>9 DEF HeldNext, s

LEMMA StepFrame == FrameInv /\ RepliesInv /\ [Next]_vars => FrameInv'
<1> SUFFICES ASSUME FrameInv, RepliesInv, [Next]_vars PROVE FrameInv'
  OBVIOUS
<1>j. job' = job
  BY DEF Next, vars, OpenFt2232, OpenPpt, CallPort, Access, Call, Execute, Read, ReadFails, Quit, Stay
<1>1. SUFFICES ASSUME job.kind \in {"scan", "id"} PROVE HeldNext
  BY <1>j DEF FrameInv, HeldNext
<1>2. Held
  <2>1. job \in Jobs
    BY DEF FrameInv
  <2>2. ScanJob(job) \/ IdJob(job)
    BY <1>1, <2>1, JobsSplit
  <2> QED BY <1>1, <2>2 DEF FrameInv, Held
<1>3. CASE UNCHANGED vars
  <2>1. /\ cable' = cable /\ ops' = ops /\ buffer' = buffer /\ expect' = expect
        /\ dev' = dev /\ received' = received /\ rdDR' = rdDR
    BY <1>3 DEF vars
  <2>2. Now' = Now
    BY <2>1, NowNext DEF Now
  <2> QED BY <1>2, <2>1, <2>2 DEF Held, HeldNext
<1> QED BY <1>2, <1>3, OpenFt2232Holds, OpenPptHolds, CallPortHolds, AccessHolds, CallHolds, ExecuteHolds,
           ReadHolds, ReadFailsHolds, QuitHolds DEF Next, Stay

LEMMA FrameLatches == FrameInv => FrameLatched
<1> SUFFICES ASSUME FrameInv, buffer = <<>>, job.kind = "scan", cable.state = "open"
             PROVE  /\ Len(ops) = 1 => dev.latch = job.first
                    /\ Len(ops) = 0 => dev.latch = job.wr
                    /\ Len(ops) <= 2 => dev.ir = EXTEST /\ ~SrstPulled(cable.chip)
  BY DEF FrameLatched
<1> DEFINE n == Len(ops)
           now == Now
           c == cable.chip
           b == BoardOf(job)
<1>1. job \in Jobs /\ Holding(job, "open", c, ops, <<>>, expect, now)
  BY DEF FrameInv
<1>2. ~Deaf(job, c)
  <2>1. Deaf(job, c) => Serial(job, ops, expect, now)
    BY <1>1 DEF Holding
  <2> QED BY <2>1 DEF Serial
<1>3. Working(job, c, ops, <<>>, expect, now)
  BY <1>1, <1>2 DEF Holding
<1>4. ~SrstPulled(c)
  <2>1. job.cable = "openjtag" => Ready(c)
    BY <1>3, WorkingIdle
  <2>2. job.cable # "openjtag" => ~SrstPulled(c)
    BY <1>1 DEF Holding
  <2> QED BY <2>1, <2>2 DEF Ready
<1>5. ScanAt(job, n, expect, now)
  <2>1. AtJob(job, n, expect, now)
    BY <1>3, WorkingIdle
  <2> QED BY <2>1 DEF AtJob
<1>6. n \in 0 .. 4
  BY <1>5 DEF ScanAt
<1>7. /\ n = 2 => \E l : Stands(b, now, "RTI", EXTEST, EXTEST, l)
      /\ n = 1 => Stands(b, now, "RTI", EXTEST, job.first, job.first)
      /\ n = 0 => Stands(b, now, "RTI", EXTEST, job.wr, job.wr)
  BY <1>5 DEF ScanAt
<1>8. \A tap, i, sr, l : Stands(b, now, tap, i, sr, l) => dev.ir = i /\ dev.latch = l
  BY NowFields DEF Stands, At
<1> HIDE DEF n, now, c, b
<1>9. n = 1 => dev.ir = EXTEST /\ dev.latch = job.first
  BY <1>7, <1>8, Zenon
<1>10. n = 0 => dev.ir = EXTEST /\ dev.latch = job.wr
  BY <1>7, <1>8, Zenon
<1>11. n = 2 => dev.ir = EXTEST
  BY <1>7, <1>8, Zenon
<1>12. n <= 2 => n = 0 \/ n = 1 \/ n = 2
  BY <1>6
<1>13. n <= 2 => dev.ir = EXTEST
  BY <1>9, <1>10, <1>11, <1>12, Zenon
<1> QED BY <1>4, <1>9, <1>10, <1>13, Zenon DEF n, c

LEMMA FrameReads == FrameInv => CellsRead
<1> SUFFICES ASSUME FrameInv, ops = <<>>, buffer = <<>>, expect = 0, cable.state # "failed",
                    job.kind \in {"scan", "id"}
             PROVE  Told(job, cable.chip, rdDR)
  BY DEF CellsRead, Finished, Told, Deaf
<1>1. job \in Jobs /\ Holding(job, cable.state, cable.chip, <<>>, <<>>, 0, Now)
  BY DEF FrameInv
<1>2. ScanJob(job) \/ IdJob(job)
  BY <1>1, JobsSplit
<1>3. cable.state \in {"closed", "open", "quit"}
  BY <1>1 DEF Holding
<1>4. CASE cable.state = "closed"
  <2>1. Closed(job, <<>>, <<>>, 0, Now) /\ Remain(job, <<>>)
    BY <1>1, <1>4 DEF Holding
  <2> QED BY <1>2, <2>1, OpensFirst
<1>5. CASE cable.state = "open"
  <2>1. Told(job, cable.chip, Now.rd)
    BY <1>1, <1>2, <1>5, HoldsTold
  <2> QED BY <2>1, NowFields
<1>6. CASE cable.state = "quit"
  <2>1. Told(job, cable.chip, Now.rd)
    BY <1>1, <1>6 DEF Holding
  <2> QED BY <2>1, NowFields
<1> QED BY <1>3, <1>4, <1>5, <1>6

LEMMA FrameHolds == Spec => []FrameInv
<1>1. Init => RepliesInv /\ FrameInv
  BY InitReplies, InitFrame
<1>2. (RepliesInv /\ FrameInv) /\ [Next]_vars => (RepliesInv /\ FrameInv)'
  BY StepReplies, StepFrame
<1> QED BY <1>1, <1>2, PTL DEF Spec

\* Over each of the cables, however the TAP and the FT2232 were found and whatever
\* the number of cells, a data scan latches exactly its string, with EXTEST in the
\* instruction register and without holding the CPU in reset.
THEOREM FramesLatch == Spec => []FrameLatched
<1>1. Spec => []FrameInv
  BY FrameHolds
<1> QED BY <1>1, FrameLatches, PTL

\* What a read scan gives back are the cells and what readID gives back is the id,
\* over each of the cables; where the FT2232 was not put into MPSSE mode unseen, no
\* CPU the program knows is read.
THEOREM CellsAreRead == Spec => []CellsRead
<1>1. Spec => []FrameInv
  BY FrameHolds
<1> QED BY <1>1, FrameReads, PTL
==============================================================================
