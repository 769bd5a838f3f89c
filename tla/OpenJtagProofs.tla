--------------------------- MODULE OpenJtagProofs ---------------------------
(***************************************************************************)
(* Proofs about module OpenJtag, for a buffer of any size, scans of any    *)
(* length and any number of scans, images and failures: the state keeps    *)
(* its type, the buffer has room for the next scan as long as USB works,   *)
(* no operation starts from the wrong TAP state, and the scans of a        *)
(* session reach the pins in order, each once.                             *)
(*                                                                         *)
(* All of it hangs on what lies between host and target: the operations    *)
(* sent and not carried out, and behind them those in the buffer.          *)
(***************************************************************************)
EXTENDS OpenJtag, TLAPS

\* The buffer will not be sent: it holds what is left of the id's commands, or the
\* program is about to end.
Dead == pc \in {"waitid", "init", "failed", "exit"}
Pending == IF Dead THEN wire ELSE wire \o buffer

-----------------------------------------------------------------------------
(* The inductive invariant *)

Sized == faults = 0 => size <= Half /\ (pc \in {"menu", "wait"} => size = 0)

\* After one of these the TAP rests in Run-Test/Idle; these start from there.
Settles(o) == o.op \in {"rti", "ir", "dr"}
Moves(o) == o.op \in {"ir", "dr"}
Known(o) == o \in Op /\ o.op # "junk"

\* Behind q, carried out from TAP state t, an operation finds Run-Test/Idle.
Settled(q, t) == IF Len(q) = 0 THEN t = "RTI" ELSE Settles(q[Len(q)])
Orderly(q, t) ==
  \A i \in 1 .. Len(q) :
     Known(q[i]) /\ (Moves(q[i]) => IF i = 1 THEN t = "RTI" ELSE Settles(q[i - 1]))

Rests ==
  /\ tap # "lost"
  /\ Orderly(Pending, tap)
  /\ pc \in {"preload", "menu", "burn", "wait"} => Settled(Pending, tap)

Max2(a, b) == IF a > b THEN a ELSE b

\* Of the scans up to m those after d are the last of q, one after the other, with
\* the switch to EXTEST before them; i is the instruction q starts from.
InLine(q, i, m, b, d) ==
  /\ d \in Nat /\ m - d \in 0 .. Len(q)
  /\ \A j \in 1 .. Len(q) :
       IF j > Len(q) - (m - d) THEN q[j].op = "dr" /\ q[j].n = m - (Len(q) - j)
       ELSE q[j].op = "dr" => q[j].n <= b
  /\ IF m - d = Len(q) THEN i = "EXTEST" ELSE q[Len(q) - (m - d)] = Ir("EXTEST")

Ordered ==
  flash # "none" =>
    /\ pc \in {"burn", "wait", "sleep", "open"}
    /\ InLine(Pending, ir, scans, base, Max2(latch, base))
    /\ scans - Max2(latch, base) < Len(Pending) => latch <= base

\* No scan is numbered beyond those asked for.
Below(q, m) == \A j \in 1 .. Len(q) : q[j].n <= m
Asked == latch <= scans /\ Below(Pending, scans)

IInv == TypeOK /\ Sized /\ Rests /\ Asked /\ Ordered

-----------------------------------------------------------------------------
(* Sequences *)

\* The operations behind the first are the rest of what was sent and the buffer.
LEMMA TailOfConcat ==
  ASSUME NEW a \in Seq(Op), NEW b \in Seq(Op), a # <<>>
  PROVE  /\ a \o b \in Seq(Op) /\ Len(a \o b) > 0
         /\ Tail(a) \o b = Tail(a \o b)
         /\ Head(a) = (a \o b)[1]
  OBVIOUS

\* An operation added to the buffer comes behind all that is pending.
LEMMA AppendToConcat ==
  ASSUME NEW a \in Seq(Op), NEW b \in Seq(Op), NEW o \in Op
  PROVE  /\ a \o Append(b, o) = Append(a \o b, o)
         /\ a \o b \in Seq(Op) /\ Append(b, o) \in Seq(Op)
  OBVIOUS

\* Operations sent behind others.
LEMMA ConcatTyped == \A a, b \in Seq(Op) : a \o b \in Seq(Op)
  OBVIOUS

\* What is added to the buffer is added to what is pending.
LEMMA ConcatThree ==
  ASSUME NEW a \in Seq(Op), NEW b \in Seq(Op), NEW c \in Seq(Op)
  PROVE  a \o (b \o c) = (a \o b) \o c
  OBVIOUS

\* One or two operations sent by themselves.
LEMMA ConcatFew ==
  ASSUME NEW a \in Seq(Op), NEW x \in Op, NEW y \in Op
  PROVE  /\ a \o <<x>> = Append(a, x)
         /\ a \o <<x, y>> = Append(Append(a, x), y)
         /\ <<x>> \in Seq(Op) /\ <<x, y>> \in Seq(Op)
         /\ a \o <<>> = a
         /\ Append(a, x) \in Seq(Op) /\ Append(Append(a, x), y) \in Seq(Op)
  OBVIOUS

\* The operations named in the module are operations.
LEMMA OpsTyped ==
  ASSUME SizeAssumption
  PROVE  /\ Rti \in Op /\ Id \in Op /\ Srst \in Op /\ Junk \in Op
         /\ \A i \in Instruction : Ir(i) \in Op
         /\ \A n \in 0 .. MaxScans, r \in BOOLEAN : Dr(n, r) \in Op
  BY DEF SizeAssumption, Rti, Id, Srst, Junk, Ir, Dr, Op, Instruction

-----------------------------------------------------------------------------
(* Orderly and InLine under the three things that happen to a queue *)

\* An operation that may start where the queue ends keeps the queue orderly.
LEMMA OrderlyAppend ==
  ASSUME NEW q \in Seq(Op), NEW t, NEW o \in Op, Orderly(q, t), o.op # "junk",
         Moves(o) => Settled(q, t)
  PROVE  /\ Orderly(Append(q, o), t)
         /\ Settles(o) => Settled(Append(q, o), t)
  BY DEF Orderly, Settled, Known

\* Without the operations behind it what was sent is orderly too.
LEMMA OrderlyPrefix ==
  ASSUME NEW a \in Seq(Op), NEW b \in Seq(Op), NEW t, Orderly(a \o b, t)
  PROVE  Orderly(a, t)
<1> SUFFICES ASSUME NEW i \in 1 .. Len(a)
             PROVE Known(a[i]) /\ (Moves(a[i]) => IF i = 1 THEN t = "RTI" ELSE Settles(a[i - 1]))
  BY DEF Orderly
<1>1. i \in 1 .. Len(a \o b) /\ (a \o b)[i] = a[i]
  OBVIOUS
<1>2. i # 1 => (a \o b)[i - 1] = a[i - 1]
  OBVIOUS
<1> QED BY <1>1, <1>2 DEF Orderly

\* The scans of a longer queue are numbered as far as its operations are.
LEMMA BelowAppend ==
  ASSUME NEW q \in Seq(Op), NEW o \in Op, NEW m \in Nat, NEW k \in Nat,
         Below(q, m), m <= k, o.n <= k
  PROVE  Below(Append(q, o), k)
<1> SUFFICES ASSUME NEW j \in 1 .. Len(Append(q, o)) PROVE Append(q, o)[j].n <= k
  BY DEF Below
<1>1. CASE j = Len(q) + 1
  BY <1>1
<1>2. CASE j \in 1 .. Len(q)
  <2>1. Append(q, o)[j] = q[j] /\ q[j] \in Op
    BY <1>2
  <2>2. q[j].n <= m /\ q[j].n \in Int
    BY <1>2, <2>1 DEF Below, Op
  <2> QED BY <2>1, <2>2
<1> QED BY <1>1, <1>2

\* And so are those of what was sent, and of what is left.
LEMMA BelowParts ==
  ASSUME NEW a \in Seq(Op), NEW b \in Seq(Op), NEW m, Below(a \o b, m)
  PROVE  Below(a, m) /\ (a # <<>> => Below(Tail(a), m))
<1>1. \A j \in 1 .. Len(a) : j \in 1 .. Len(a \o b) /\ (a \o b)[j] = a[j]
  OBVIOUS
<1>2. Below(a, m)
  BY <1>1 DEF Below
<1>3. a # <<>> => \A j \in 1 .. Len(Tail(a)) : j + 1 \in 1 .. Len(a) /\ Tail(a)[j] = a[j + 1]
  OBVIOUS
<1> QED BY <1>2, <1>3 DEF Below

\* The next scan joins the session's scans at the end.
LEMMA InLineAppend ==
  ASSUME NEW q \in Seq(Op), NEW i, NEW m \in Nat, NEW b \in Nat, NEW d \in Nat,
         NEW o \in Op, o.op = "dr", o.n = m + 1, InLine(q, i, m, b, d)
  PROVE  InLine(Append(q, o), i, m + 1, b, d)
<1> DEFINE r == Append(q, o)
<1>1. Len(r) = Len(q) + 1 /\ r[Len(q) + 1] = o /\ \A j \in 1 .. Len(q) : r[j] = q[j]
  OBVIOUS
<1>2. m - d \in 0 .. Len(q) /\ (m + 1) - d \in 0 .. Len(r) /\ Len(r) - ((m + 1) - d) = Len(q) - (m - d)
  BY <1>1 DEF InLine
<1>3. \A j \in 1 .. Len(r) :
        IF j > Len(r) - ((m + 1) - d) THEN r[j].op = "dr" /\ r[j].n = (m + 1) - (Len(r) - j)
        ELSE r[j].op = "dr" => r[j].n <= b
  <2> SUFFICES ASSUME NEW j \in 1 .. Len(r)
               PROVE IF j > Len(r) - ((m + 1) - d)
                       THEN r[j].op = "dr" /\ r[j].n = (m + 1) - (Len(r) - j)
                       ELSE r[j].op = "dr" => r[j].n <= b
    OBVIOUS
  <2>1. CASE j = Len(q) + 1
    BY <1>1, <1>2, <2>1
  <2>2. CASE j \in 1 .. Len(q)
    <3>1. r[j] = q[j] /\ m - (Len(q) - j) = (m + 1) - (Len(r) - j)
      BY <1>1, <2>2
    <3> QED BY <1>2, <2>2, <3>1 DEF InLine
  <2> QED BY <1>1, <2>1, <2>2
<1>4. IF (m + 1) - d = Len(r) THEN i = "EXTEST" ELSE r[Len(r) - ((m + 1) - d)] = Ir("EXTEST")
  BY <1>1, <1>2 DEF InLine
<1> QED BY <1>2, <1>3, <1>4 DEF InLine

\* The rest of an orderly queue is orderly behind the state its head leaves.
LEMMA OrderlyTail ==
  ASSUME NEW q \in Seq(Op), Len(q) > 0, NEW t, NEW u, Orderly(q, t),
         Settles(q[1]) => u = "RTI"
  PROVE  Orderly(Tail(q), u) /\ (Settled(q, t) => Settled(Tail(q), u))
<1>1. Len(Tail(q)) = Len(q) - 1 /\ \A j \in 1 .. Len(q) - 1 : Tail(q)[j] = q[j + 1]
  OBVIOUS
<1>2. ASSUME NEW j \in 1 .. Len(Tail(q))
      PROVE Known(Tail(q)[j])
            /\ (Moves(Tail(q)[j]) => IF j = 1 THEN u = "RTI" ELSE Settles(Tail(q)[j - 1]))
  <2>1. Tail(q)[j] = q[j + 1] /\ j + 1 \in 1 .. Len(q)
    BY <1>1, <1>2
  <2>2. Known(q[j + 1]) /\ (Moves(q[j + 1]) => Settles(q[j]))
    BY <2>1 DEF Orderly
  <2>3. j # 1 => Tail(q)[j - 1] = q[j]
    BY <1>1, <1>2
  <2> QED BY <2>1, <2>2, <2>3
<1>3. Settled(q, t) => Settled(Tail(q), u)
  <2>1. CASE Len(q) = 1
    BY <2>1, <1>1 DEF Settled
  <2>2. CASE Len(q) > 1
    BY <2>2, <1>1 DEF Settled
  <2>3. Len(q) = 1 \/ Len(q) > 1
    OBVIOUS
  <2> QED BY <2>1, <2>2, <2>3
<1> QED BY <1>2, <1>3 DEF Orderly

\* The head is the next scan of the session.
LEMMA InLineTailScan ==
  ASSUME NEW q \in Seq(Op), Len(q) > 0, NEW i, NEW m \in Nat, NEW b \in Nat, NEW d \in Nat,
         InLine(q, i, m, b, d), m - d = Len(q)
  PROVE  /\ i = "EXTEST" /\ q[1].op = "dr" /\ q[1].n = d + 1
         /\ InLine(Tail(q), i, m, b, d + 1) /\ m - (d + 1) = Len(Tail(q))
<1>1. Len(Tail(q)) = Len(q) - 1 /\ \A j \in 1 .. Len(q) - 1 : Tail(q)[j] = q[j + 1]
  OBVIOUS
<1>2. i = "EXTEST" /\ q[1].op = "dr" /\ q[1].n = d + 1
  BY DEF InLine
<1>3. m - (d + 1) = Len(Tail(q))
  BY <1>1
<1>4. ASSUME NEW j \in 1 .. Len(Tail(q))
      PROVE Tail(q)[j].op = "dr" /\ Tail(q)[j].n = m - (Len(Tail(q)) - j)
  <2>1. Tail(q)[j] = q[j + 1] /\ j + 1 \in 1 .. Len(q) /\ j + 1 > Len(q) - (m - d)
    BY <1>1, <1>4
  <2>2. q[j + 1].op = "dr" /\ q[j + 1].n = m - (Len(q) - (j + 1))
    BY <2>1 DEF InLine
  <2> QED BY <1>1, <2>1, <2>2
<1>5. InLine(Tail(q), i, m, b, d + 1)
  <2>1. m - (d + 1) \in 0 .. Len(Tail(q)) /\ Len(Tail(q)) - (m - (d + 1)) = 0
    BY <1>1, <1>3
  <2>2. \A j \in 1 .. Len(Tail(q)) : j > Len(Tail(q)) - (m - (d + 1))
    BY <2>1
  <2>3. d + 1 \in Nat
    OBVIOUS
  <2> QED BY <1>2, <1>3, <1>4, <2>1, <2>2, <2>3 DEF InLine
<1> QED BY <1>2, <1>3, <1>5

\* The head comes before the session's scans.
LEMMA InLineTailOther ==
  ASSUME NEW q \in Seq(Op), Len(q) > 0, NEW i, NEW k, NEW m \in Nat, NEW b \in Nat, NEW d \in Nat,
         InLine(q, i, m, b, d), m - d < Len(q),
         q[1] = Ir("EXTEST") => k = "EXTEST"
  PROVE  /\ InLine(Tail(q), k, m, b, d)
         /\ q[1].op = "dr" => q[1].n <= b
<1>1. Len(Tail(q)) = Len(q) - 1 /\ \A j \in 1 .. Len(q) - 1 : Tail(q)[j] = q[j + 1]
  OBVIOUS
<1>2. m - d \in 0 .. Len(Tail(q))
  BY <1>1 DEF InLine
<1>3. q[1].op = "dr" => q[1].n <= b
  BY DEF InLine
<1>4. ASSUME NEW j \in 1 .. Len(Tail(q))
      PROVE IF j > Len(Tail(q)) - (m - d)
              THEN Tail(q)[j].op = "dr" /\ Tail(q)[j].n = m - (Len(Tail(q)) - j)
              ELSE Tail(q)[j].op = "dr" => Tail(q)[j].n <= b
  <2>1. Tail(q)[j] = q[j + 1] /\ j + 1 \in 1 .. Len(q)
        /\ Len(Tail(q)) - j = Len(q) - (j + 1)
        /\ (j > Len(Tail(q)) - (m - d)) = (j + 1 > Len(q) - (m - d))
    BY <1>1, <1>2, <1>4
  <2> QED BY <2>1 DEF InLine
<1>5. IF m - d = Len(Tail(q)) THEN k = "EXTEST" ELSE Tail(q)[Len(Tail(q)) - (m - d)] = Ir("EXTEST")
  <2>1. q[Len(q) - (m - d)] = Ir("EXTEST")
    BY DEF InLine
  <2>2. CASE m - d = Len(Tail(q))
    BY <1>1, <2>1, <2>2
  <2>3. CASE m - d # Len(Tail(q))
    <3>1. Len(Tail(q)) - (m - d) \in 1 .. Len(q) - 1
      BY <1>1, <1>2, <2>3
    <3>2. Tail(q)[Len(Tail(q)) - (m - d)] = q[Len(q) - (m - d)]
      BY <1>1, <1>2, <3>1
    <3> QED BY <2>1, <2>3, <3>2
  <2> QED BY <2>2, <2>3
<1> QED BY <1>2, <1>3, <1>4, <1>5 DEF InLine

-----------------------------------------------------------------------------
(* What an action does to the pending operations *)

\* Whatever becomes of a write, q is what is pending behind what was sent before.
LEMMA FlushPending ==
  ASSUME wire \in Seq(Op), NEW q \in Seq(Op), NEW n, Flush(q, n) \/ Hold(q, n)
  PROVE  wire' \o buffer' = wire \o q
<1>1. wire \o q \in Seq(Op) /\ (wire \o q) \o <<>> = wire \o q
  OBVIOUS
<1> QED BY <1>1 DEF Flush, Hold, Written, Refused

\* The same for a scan with a read.
LEMMA SyncPending ==
  ASSUME wire \in Seq(Op), NEW q \in Seq(Op), NEW n, NEW p, SyncScan(q, n, p)
  PROVE  wire' \o buffer' = wire \o q
<1>1. wire \o q \in Seq(Op) /\ (wire \o q) \o <<>> = wire \o q
  OBVIOUS
<1> QED BY <1>1 DEF SyncScan, Written, Refused

\* The invariant holds initially: nothing was asked for and nothing is pending.
LEMMA InitInv == Init => IInv
<1> SUFFICES ASSUME Init PROVE IInv
  OBVIOUS
<1> USE SizeAssumption DEF SizeAssumption
<1>1. TypeOK
  BY DEF Init, TypeOK, Instruction, Reply, Garbage
<1>2. Pending = <<>>
  BY DEF Init, Pending, Dead
<1>3. Sized
  BY RoomAssumption DEF Init, Sized, RoomAssumption, IdBytes, Half
<1>4. Rests
  BY <1>2 DEF Init, Rests, Orderly
<1>5. Asked /\ Ordered
  BY <1>2 DEF Init, Asked, Below, Ordered
<1> QED BY <1>1, <1>3, <1>4, <1>5 DEF IInv

-----------------------------------------------------------------------------
(* The type invariant *)

\* Every step keeps the type invariant.
LEMMA StepTypes == TypeOK /\ [Next]_vars => TypeOK'
<1> SUFFICES ASSUME TypeOK, [Next]_vars PROVE TypeOK'
  OBVIOUS
<1> USE SizeAssumption DEF SizeAssumption
<1> USE DEF TypeOK, target
<1>e. <<>> \in Seq(Op)
  OBVIOUS
<1>o. /\ Rti \in Op /\ Id \in Op /\ Srst \in Op /\ Junk \in Op
      /\ Ir("SAMPLE") \in Op /\ Ir("EXTEST") \in Op
  BY OpsTyped DEF Instruction
<1>d. \A n \in 0 .. MaxScans, r \in BOOLEAN : Dr(n, r) \in Op
  BY OpsTyped
<1>0. IdBytes \in Nat /\ RtiBytes \in Nat /\ IrBytes \in Nat /\ Half \in Int
  BY DEF IdBytes, RtiBytes, IrBytes, Half
<1>r. Garbage \in Reply /\ IdReply \in Reply /\ SampleReply \in Reply
      /\ \A n \in 0 .. MaxScans : PinsReply(n) \in Reply
  BY DEF Garbage, IdReply, SampleReply, PinsReply, Reply
<1>i. "SAMPLE" \in Instruction /\ "EXTEST" \in Instruction /\ "IDCODE" \in Instruction
  BY DEF Instruction
\* a write of well-typed operations
<1>w. ASSUME NEW q \in Seq(Op), Written(q) \/ Refused
      PROVE  wire' \in Seq(Op) /\ faults' \in 0 .. MaxFaults
  <2>1. CASE Written(q)
    BY <2>1 DEF Written
  <2>2. CASE Refused
    BY <2>2 DEF Refused
  <2> QED BY <1>w, <2>1, <2>2
\* and the number of the next scan
<1>n. scans < MaxScans => /\ scans + 1 \in 0 .. MaxScans /\ base \in 0 .. scans + 1
                          /\ \A r \in BOOLEAN : Dr(scans + 1, r) \in Op
  <2>1. scans < MaxScans => scans + 1 \in 0 .. MaxScans /\ base \in 0 .. scans + 1
    OBVIOUS
  <2> QED BY <2>1, <1>d
<1>f. ASSUME NEW q \in Seq(Op), NEW n \in Nat, NEW p,
             Flush(q, n) \/ Hold(q, n) \/ SyncScan(q, n, p)
      PROVE  buffer' \in Seq(Op) /\ wire' \in Seq(Op) /\ size' \in Nat /\ faults' \in 0 .. MaxFaults
  <2>1. CASE Flush(q, n)
    <3>1. wire' \in Seq(Op) /\ faults' \in 0 .. MaxFaults
      BY <1>w, <2>1 DEF Flush
    <3>2. (buffer' = <<>> /\ size' = 0) \/ (buffer' = q /\ size' = n)
      BY <2>1 DEF Flush
    <3>3. buffer' \in Seq(Op)
      BY <1>e, <3>2, Zenon
    <3>4. size' \in Nat
      BY <3>2
    <3> QED BY <3>1, <3>3, <3>4
  <2>2. CASE Hold(q, n)
    BY <2>2 DEF Hold
  <2>3. CASE SyncScan(q, n, p)
    <3>1. wire' \in Seq(Op) /\ faults' \in 0 .. MaxFaults
      BY <1>w, <2>3 DEF SyncScan
    <3>2. (buffer' = <<>> /\ size' = 0) \/ (buffer' = q /\ size' = n)
      BY <2>3 DEF SyncScan
    <3>3. buffer' \in Seq(Op)
      BY <1>e, <3>2, Zenon
    <3>4. size' \in Nat
      BY <3>2
    <3> QED BY <3>1, <3>3, <3>4
  <2> QED BY <1>f, <2>1, <2>2, <2>3
<1>1. CASE Open
  <2>1. <<>> \in Seq(Op) /\ <<>> \in Seq(Reply)
    OBVIOUS
  <2> QED BY <1>1, <2>1 DEF Open
<1>2. CASE ReadCPUID
  <2>1. <<Id>> \in Seq(Op)
    BY <1>o, ConcatFew
  <2>2. wire' \in Seq(Op) /\ faults' \in 0 .. MaxFaults
    BY <1>2, <1>w, <2>1 DEF ReadCPUID
  <2>3. pc' \in {"waitid", "failed"}
    BY <1>2 DEF ReadCPUID
  <2> QED BY <1>0, <1>2, <2>1, <2>2, <2>3 DEF ReadCPUID
<1>3. CASE IdReturns
  <2>1. <<Junk>> \in Seq(Op) /\ (replies # <<>> => Tail(replies) \in Seq(Reply))
    BY <1>o, ConcatFew
  <2> QED BY <1>3, <2>1 DEF IdReturns
<1>4. CASE IdTimesOut
  BY <1>4 DEF IdTimesOut
<1>5. CASE InitIdle
  <2>1. <<Rti>> \in Seq(Op)
    BY <1>o, ConcatFew
  <2>2. buffer' \in Seq(Op) /\ wire' \in Seq(Op) /\ size' \in Nat /\ faults' \in 0 .. MaxFaults
    BY <1>0, <1>5, <1>f, <2>1 DEF InitIdle
  <2> QED BY <1>5, <2>2 DEF InitIdle
<1>6. CASE Preload
  <2> DEFINE q == buffer \o <<Ir("SAMPLE"), Dr(scans + 1, TRUE)>>
  <2>1. scans + 1 \in 0 .. MaxScans /\ Dr(scans + 1, TRUE) \in Op /\ Ir("SAMPLE") \in Op
    BY <1>6, <1>o, <1>n DEF Preload
  <2>2. q \in Seq(Op) /\ size + IrBytes + DrBytes \in Nat
    <3>1. <<Ir("SAMPLE"), Dr(scans + 1, TRUE)>> \in Seq(Op)
      BY <2>1, ConcatFew
    <3>2. q \in Seq(Op)
      <4>1. buffer \in Seq(Op)
        OBVIOUS
      <4> QED BY <3>1, <4>1, ConcatTyped, Zenon
    <3>3. size + IrBytes + DrBytes \in Nat
      BY <1>0
    <3> QED BY <3>2, <3>3
  <2>3. SyncScan(q, size + IrBytes + DrBytes, "menu")
    BY <1>6 DEF Preload
  <2>4. buffer' \in Seq(Op) /\ wire' \in Seq(Op) /\ size' \in Nat /\ faults' \in 0 .. MaxFaults
    BY <1>f, <2>2, <2>3
  <2>5. pc' \in {"wait", "menu"}
    BY <2>3 DEF SyncScan
  <2> QED BY <1>6, <2>1, <2>4, <2>5 DEF Preload
<1>7. CASE Leave
  BY <1>7 DEF Leave
<1>8. CASE BeginMemory
  <2>1. <<Rti, Ir("EXTEST")>> \in Seq(Op) /\ RtiBytes + IrBytes \in Nat
    BY <1>0, <1>o, ConcatFew
  <2>2. buffer' \in Seq(Op) /\ wire' \in Seq(Op) /\ size' \in Nat /\ faults' \in 0 .. MaxFaults
    BY <1>8, <1>f, <2>1 DEF BeginMemory
  <2> QED BY <1>8, <2>2 DEF BeginMemory
<1>9. CASE BeginNand
  <2> DEFINE q == buffer \o <<Rti, Ir("EXTEST")>>
  <2>1. q \in Seq(Op) /\ size + RtiBytes + IrBytes \in Nat
    BY <1>0, <1>o, ConcatFew
  <2>2. buffer' \in Seq(Op) /\ wire' \in Seq(Op) /\ size' \in Nat /\ faults' \in 0 .. MaxFaults
    BY <1>9, <2>1 DEF BeginNand, Hold
  <2> QED BY <1>9, <2>2 DEF BeginNand
<1>10. CASE ShiftDRNoTdo
  <2> DEFINE q == Append(buffer, Dr(scans + 1, FALSE))
  <2>1. /\ scans + 1 \in 0 .. MaxScans /\ base \in 0 .. scans + 1
        /\ q \in Seq(Op) /\ size + DrBytes \in Nat
    <3>1. scans < MaxScans /\ scans + 1 \in 0 .. MaxScans /\ base \in 0 .. scans + 1
          /\ Dr(scans + 1, FALSE) \in Op
      BY <1>10, <1>n DEF ShiftDRNoTdo
    <3>2. q \in Seq(Op)
      BY <3>1, AppendToConcat
    <3>3. size + DrBytes \in Nat
      OBVIOUS
    <3> QED BY <3>1, <3>2, <3>3
  <2>2. Flush(q, size + DrBytes) \/ Hold(q, size + DrBytes)
    BY <1>10 DEF ShiftDRNoTdo
  <2>3. buffer' \in Seq(Op) /\ wire' \in Seq(Op) /\ size' \in Nat /\ faults' \in 0 .. MaxFaults
    BY <1>f, <2>1, <2>2
  <2> QED BY <1>10, <2>1, <2>3 DEF ShiftDRNoTdo
<1>11. CASE ShiftDR
  <2> DEFINE q == Append(buffer, Dr(scans + 1, TRUE))
  <2>1. /\ scans + 1 \in 0 .. MaxScans /\ base \in 0 .. scans + 1
        /\ q \in Seq(Op) /\ size + DrBytes \in Nat
    <3>1. scans < MaxScans /\ scans + 1 \in 0 .. MaxScans /\ base \in 0 .. scans + 1
          /\ Dr(scans + 1, TRUE) \in Op
      BY <1>11, <1>n DEF ShiftDR
    <3>2. q \in Seq(Op)
      BY <3>1, AppendToConcat
    <3>3. size + DrBytes \in Nat
      OBVIOUS
    <3> QED BY <3>1, <3>2, <3>3
  <2>2. SyncScan(q, size + DrBytes, "burn")
    BY <1>11 DEF ShiftDR
  <2>3. buffer' \in Seq(Op) /\ wire' \in Seq(Op) /\ size' \in Nat /\ faults' \in 0 .. MaxFaults
    BY <1>f, <2>1, <2>2
  <2>4. pc' \in {"wait", "burn"}
    BY <2>2 DEF SyncScan
  <2> QED BY <1>11, <2>1, <2>3, <2>4 DEF ShiftDR
<1>12. CASE ReadReturns
  <2>1. replies # <<>> => Tail(replies) \in Seq(Reply) /\ Head(replies) \in Reply
    OBVIOUS
  <2> QED BY <1>12, <2>1 DEF ReadReturns, Resume
<1>13. CASE ReadTimesOut
  BY <1>13, <1>r DEF ReadTimesOut, Resume
<1>14. CASE NorDone
  <2>1. buffer' \in Seq(Op) /\ wire' \in Seq(Op) /\ size' \in Nat /\ faults' \in 0 .. MaxFaults
    BY <1>14, <1>f DEF NorDone
  <2> QED BY <1>14, <2>1 DEF NorDone
<1>15. CASE Wake
  BY <1>15 DEF Wake
<1>16. CASE SessionLeft
  BY <1>16 DEF SessionLeft
<1>17. CASE Quit
  <2>1. <<Srst>> \in Seq(Op)
    BY <1>o, ConcatFew
  <2>2. wire' \in Seq(Op) /\ faults' \in 0 .. MaxFaults /\ buffer' \in Seq(Op)
    BY <1>17, <1>e, <1>w, <2>1 DEF Quit
  <2> QED BY <1>17, <2>2 DEF Quit
<1>18. CASE Execute
  <2>1. wire # <<>> /\ Tail(wire) \in Seq(Op) /\ Head(wire) \in Op
    BY <1>18 DEF Execute
  <2>2. UNCHANGED host /\ wire' = Tail(wire)
    BY <1>18 DEF Execute
  <2>3. Captured \in Reply
    BY <1>r DEF Captured
  <2>4. Append(replies, IdReply) \in Seq(Reply) /\ Append(replies, Captured) \in Seq(Reply)
    BY <1>r, <2>3
  <2>5. Head(wire).ir \in Instruction /\ Head(wire).n \in 0 .. MaxScans
    BY <2>1 DEF Op
  <2>6. tap' \in {"unknown", "TLR", "RTI", "lost"} /\ ir' \in Instruction
        /\ latch' \in 0 .. MaxScans /\ replies' \in Seq(Reply)
    BY <1>18, <1>i, <2>4, <2>5 DEF Execute
  <2> QED BY <2>1, <2>2, <2>6 DEF host
<1>19. CASE UNCHANGED vars
  BY <1>19 DEF vars, host
<1> QED BY <1>1, <1>2, <1>3, <1>4, <1>5, <1>6, <1>7, <1>8, <1>9, <1>10, <1>11, <1>12,
           <1>13, <1>14, <1>15, <1>16, <1>17, <1>18, <1>19 DEF Next

-----------------------------------------------------------------------------
(* The rest of the invariant *)

\* As long as USB works a step leaves at most half a buffer, and an empty one when
\* it was written out.
LEMMA StepSized == TypeOK /\ Sized /\ [Next]_vars => Sized'
<1> SUFFICES ASSUME TypeOK, Sized, [Next]_vars, faults' = 0
             PROVE  size' <= Half /\ (pc' \in {"menu", "wait"} => size' = 0)
  BY DEF Sized
<1> USE SizeAssumption DEF SizeAssumption
<1>0. /\ size \in Nat /\ faults \in 0 .. MaxFaults /\ Half \in Int /\ DrBytes \in Nat
      /\ IdBytes = 22 /\ RtiBytes = 6 /\ IrBytes = 9 /\ 22 <= Half
  BY RoomAssumption DEF TypeOK, RoomAssumption, Half, IdBytes, RtiBytes, IrBytes
<1>r. ~Refused
  BY <1>0 DEF Refused
<1>s. ASSUME faults = 0 PROVE size <= Half /\ (pc \in {"menu", "wait"} => size = 0)
  BY <1>s DEF Sized
<1>f. ASSUME NEW q, NEW n, Flush(q, n) PROVE size' = 0
  BY <1>f, <1>r DEF Flush
<1>y. ASSUME NEW q, NEW n, NEW p, SyncScan(q, n, p) PROVE size' = 0
  BY <1>y, <1>r DEF SyncScan
<1>w. ASSUME faults' = faults PROVE faults = 0
  BY <1>w
<1>1. CASE Open
  BY <1>0, <1>1 DEF Open
<1>2. CASE ReadCPUID
  BY <1>0, <1>2 DEF ReadCPUID
<1>3. CASE IdReturns
  BY <1>0, <1>3, <1>s DEF IdReturns
<1>4. CASE IdTimesOut
  BY <1>0, <1>4 DEF IdTimesOut
<1>5. CASE InitIdle
  <2>1. size' = 0 \/ size' = 6
    BY <1>0, <1>5, <1>f DEF InitIdle, Hold
  <2> QED BY <1>0, <1>5, <2>1 DEF InitIdle
<1>6. CASE Preload
  BY <1>0, <1>6, <1>y DEF Preload
<1>7. CASE Leave
  BY <1>0, <1>7, <1>s DEF Leave
<1>8. CASE BeginMemory
  BY <1>0, <1>8, <1>f DEF BeginMemory
<1>9. CASE BeginNand
  <2>1. faults' = faults /\ size' = size + RtiBytes + IrBytes /\ pc = "menu" /\ pc' = "burn"
    BY <1>9 DEF BeginNand, Hold
  <2>2. size = 0
    BY <1>s, <2>1
  <2> QED BY <1>0, <2>1, <2>2
<1>10. CASE ShiftDRNoTdo
  <2>1. CASE ft2232_approach_full(size + DrBytes)
    <3>1. Flush(Append(buffer, Dr(scans + 1, FALSE)), size + DrBytes) /\ pc' = "burn"
      BY <1>10, <2>1 DEF ShiftDRNoTdo
    <3>2. size' = 0
      BY <1>f, <3>1
    <3> QED BY <1>0, <3>1, <3>2
  <2>2. CASE ~ft2232_approach_full(size + DrBytes)
    <3>1. faults' = faults /\ size' = size + DrBytes /\ pc' = pc /\ pc = "burn"
      BY <1>10, <2>2 DEF ShiftDRNoTdo, Hold
    <3> QED BY <1>0, <2>2, <3>1 DEF ft2232_approach_full
  <2> QED BY <2>1, <2>2
<1>11. CASE ShiftDR
  <2>1. SyncScan(Append(buffer, Dr(scans + 1, TRUE)), size + DrBytes, "burn")
    BY <1>11 DEF ShiftDR
  <2>2. size' = 0
    BY <1>y, <2>1
  <2> QED BY <1>0, <2>2
<1>12. CASE ReadReturns
  BY <1>0, <1>12, <1>s DEF ReadReturns
<1>13. CASE ReadTimesOut
  BY <1>0, <1>13 DEF ReadTimesOut
<1>14. CASE NorDone
  BY <1>0, <1>14, <1>f DEF NorDone
<1>15. CASE Wake
  BY <1>0, <1>15, <1>s DEF Wake
<1>16. CASE SessionLeft
  BY <1>0, <1>16, <1>s DEF SessionLeft
<1>17. CASE Quit
  BY <1>0, <1>17, <1>r, <1>s DEF Quit, Written
<1>18. CASE Execute
  BY <1>0, <1>18, <1>s DEF Execute, host
<1>19. CASE UNCHANGED vars
  BY <1>0, <1>19, <1>s DEF vars, host
<1> QED BY <1>1, <1>2, <1>3, <1>4, <1>5, <1>6, <1>7, <1>8, <1>9, <1>10, <1>11, <1>12,
           <1>13, <1>14, <1>15, <1>16, <1>17, <1>18, <1>19 DEF Next

\* What the type invariant says of the queues and of the scans' numbers.
LEMMA QueueTypes ==
  ASSUME TypeOK
  PROVE  /\ wire \in Seq(Op) /\ buffer \in Seq(Op) /\ Pending \in Seq(Op)
         /\ scans \in Nat /\ base \in Nat /\ latch \in Nat /\ base <= scans
<1>1. wire \in Seq(Op) /\ buffer \in Seq(Op)
  BY DEF TypeOK
<1>2. Pending \in Seq(Op)
  BY <1>1, ConcatTyped DEF Pending
<1> QED BY <1>1, <1>2, SizeAssumption DEF TypeOK, SizeAssumption

\* What was sent is the first part of what is pending.
LEMMA SentFirst ==
  ASSUME TypeOK, Rests, Asked
  PROVE  Orderly(wire, tap) /\ Below(wire, scans)
<1>1. wire \in Seq(Op) /\ buffer \in Seq(Op)
  BY QueueTypes
<1>2. CASE Dead
  BY <1>2 DEF Rests, Asked, Pending
<1>3. CASE ~Dead
  BY <1>1, <1>3, OrderlyPrefix, BelowParts DEF Rests, Asked, Pending
<1> QED BY <1>2, <1>3

\* The program goes on and leaves the cable alone, or what is pending is dropped
\* back to what was sent.
LEMMA IdleStep ==
  ASSUME TypeOK, Rests, Asked, Ordered,
         UNCHANGED <<wire, scans, base, target>>,
         \/ /\ Pending' = Pending /\ flash' = flash
            /\ pc' \in {"menu", "preload", "burn", "wait"} =>
                 pc \in {"menu", "preload", "burn", "wait"}
            /\ flash # "none" => pc' \in {"burn", "wait", "sleep", "open"}
         \/ /\ Pending' = wire /\ flash' = "none"
            /\ pc' \notin {"menu", "preload", "burn", "wait"}
  PROVE  Rests' /\ Asked' /\ Ordered'
<1>1. Orderly(wire, tap) /\ Below(wire, scans)
  BY SentFirst
<1>2. tap' = tap /\ ir' = ir /\ latch' = latch /\ scans' = scans /\ base' = base
  BY DEF target
<1>3. CASE Pending' = Pending /\ flash' = flash
           /\ (pc' \in {"menu", "preload", "burn", "wait"} =>
                 pc \in {"menu", "preload", "burn", "wait"})
           /\ (flash # "none" => pc' \in {"burn", "wait", "sleep", "open"})
  BY <1>2, <1>3 DEF Rests, Asked, Ordered
<1>4. CASE Pending' = wire /\ flash' = "none"
           /\ pc' \notin {"menu", "preload", "burn", "wait"}
  BY <1>1, <1>2, <1>4 DEF Rests, Asked, Ordered
<1> QED BY <1>3, <1>4

\* An operation that needs no state, behind what was sent.
LEMMA SentStep ==
  ASSUME TypeOK, Rests, Asked, UNCHANGED <<scans, target>>, flash' = "none",
         NEW o \in {Rti, Id, Srst}, Pending' = wire \o <<o>>,
         pc' \in {"menu", "preload", "burn", "wait"} => o = Rti
  PROVE  Rests' /\ Asked' /\ Ordered'
<1>1. o \in Op /\ o.op # "junk" /\ ~Moves(o) /\ (o = Rti => Settles(o)) /\ o.n = 0
  <2>1. o \in Op
    BY OpsTyped, SizeAssumption
  <2>2. o.op \in {"rti", "id", "srst"} /\ o.n = 0 /\ (o = Rti => o.op = "rti")
    BY DEF Rti, Id, Srst
  <2> QED BY <2>1, <2>2 DEF Moves, Settles
<1>2. wire \in Seq(Op) /\ scans \in Nat /\ Pending' = Append(wire, o)
  BY <1>1, QueueTypes, ConcatFew
<1>3. Orderly(wire, tap) /\ Below(wire, scans)
  BY SentFirst
<1>4. Orderly(Pending', tap) /\ (o = Rti => Settled(Pending', tap))
  BY <1>1, <1>2, <1>3, OrderlyAppend
<1>5. Below(Pending', scans)
  <2>1. scans <= scans /\ o.n <= scans
    BY <1>1, <1>2
  <2>2. Below(Append(wire, o), scans)
    BY <1>1, <1>2, <1>3, <2>1, BelowAppend
  <2> QED BY <1>2, <2>2
<1> QED BY <1>4, <1>5 DEF Rests, Asked, Ordered, target

\* The next scan, behind all that is pending.
LEMMA ScanStep ==
  ASSUME TypeOK, Rests, Asked, Ordered, pc = "burn", pc' \in {"burn", "wait"},
         scans < MaxScans, scans' = scans + 1, UNCHANGED <<flash, base, target>>,
         NEW r \in BOOLEAN, Pending' = Append(Pending, Dr(scans + 1, r))
  PROVE  Rests' /\ Asked' /\ Ordered'
<1> DEFINE o == Dr(scans + 1, r)
<1>1. /\ Pending \in Seq(Op) /\ scans \in Nat /\ base \in Nat /\ latch \in Nat
      /\ scans + 1 \in 0 .. MaxScans
  BY QueueTypes, SizeAssumption DEF SizeAssumption
<1>2. o \in Op /\ o.op = "dr" /\ o.n = scans + 1 /\ Settles(o)
  BY <1>1, OpsTyped, SizeAssumption DEF Dr, Settles
<1>3. Orderly(Pending, tap) /\ Settled(Pending, tap) /\ tap # "lost"
  BY DEF Rests
<1>4. Orderly(Append(Pending, o), tap) /\ Settled(Append(Pending, o), tap)
  BY <1>1, <1>2, <1>3, OrderlyAppend
<1>5. Below(Append(Pending, o), scans + 1) /\ latch <= scans + 1
  BY <1>1, <1>2, BelowAppend DEF Asked
<1>6. Ordered'
  <2> DEFINE q == Append(Pending, o)
             d == Max2(latch, base)
  <2>1. /\ flash' = flash /\ base' = base /\ latch' = latch /\ ir' = ir
        /\ scans' = scans + 1 /\ Pending' = q /\ d' = d
    BY DEF target, Max2
  <2>2. ASSUME flash # "none"
        PROVE  InLine(q, ir, scans + 1, base, d) /\ ((scans + 1) - d < Len(q) => latch <= base)
    <3>1. InLine(Pending, ir, scans, base, d) /\ (scans - d < Len(Pending) => latch <= base)
      BY <2>2 DEF Ordered
    <3>2. d \in Nat
      BY <1>1 DEF Max2
    <3>3. InLine(q, ir, scans + 1, base, d)
      BY <1>1, <1>2, <3>1, <3>2, InLineAppend
    <3>4. Len(q) = Len(Pending) + 1 /\ Len(Pending) \in Nat
      BY <1>1
    <3> QED BY <1>1, <3>1, <3>2, <3>3, <3>4
  <2>3. flash # "none" =>
          /\ pc' \in {"burn", "wait", "sleep", "open"}
          /\ InLine(Pending', ir', scans', base', d')
          /\ scans' - d' < Len(Pending') => latch' <= base'
    <3> HIDE DEF q, d
    <3> QED BY <2>1, <2>2
  <2> QED BY <2>1, <2>3 DEF Ordered
<1> QED BY <1>3, <1>4, <1>5, <1>6 DEF Rests, Asked, target

\* The FT2232 carries out the first of what is pending: it finds the TAP where it
\* must be, and a session's scan is the next in turn.
LEMMA ExecuteStep ==
  ASSUME TypeOK, Rests, Asked, Ordered, Execute
  PROVE  /\ Rests' /\ Asked' /\ Ordered'
         /\ latch' # latch /\ flash # "none" /\ latch' > base =>
              latch' = IF latch <= base THEN base + 1 ELSE latch + 1
<1> DEFINE q == Pending
           o == q[1]
           d == Max2(latch, base)
<1>1. wire # <<>> /\ wire' = Tail(wire) /\ UNCHANGED host
  BY DEF Execute
<1>2. /\ q \in Seq(Op) /\ Len(q) > 0 /\ Head(wire) = o /\ o \in Op /\ Pending' = Tail(q)
  <2>1. wire \in Seq(Op) /\ buffer \in Seq(Op) /\ Dead' = Dead /\ buffer' = buffer
    BY <1>1, QueueTypes DEF Dead, host
  <2>2. CASE Dead
    BY <1>1, <2>1, <2>2 DEF Pending
  <2>3. CASE ~Dead
    BY <1>1, <2>1, <2>3, TailOfConcat DEF Pending
  <2>4. q \in Seq(Op) /\ Len(q) > 0 /\ Head(wire) = o /\ Pending' = Tail(q)
    BY <2>2, <2>3
  <2> QED BY <2>4
<1>3. /\ pc' = pc /\ flash' = flash /\ scans' = scans /\ base' = base
      /\ scans \in Nat /\ base \in Nat /\ latch \in Nat /\ latch <= scans /\ base <= scans
      /\ tap # "lost" /\ ir \in Instruction
  BY <1>1, QueueTypes DEF host, Rests, Asked, TypeOK
<1> HIDE DEF q
<1>4. Known(o) /\ (Moves(o) => tap = "RTI") /\ o.n <= scans /\ o.n \in Nat
  <2>1. Orderly(q, tap) /\ Below(q, scans) /\ 1 \in 1 .. Len(q)
    BY <1>2 DEF q, Rests, Asked
  <2>2. o.n \in Nat
    BY <1>2, SizeAssumption DEF Op, SizeAssumption
  <2> QED BY <2>1, <2>2 DEF Orderly, Below
<1> HIDE DEF o
<1>5. o.op \in {"rti", "ir", "dr", "id", "srst"}
  BY <1>2, <1>4 DEF Known, Op
\* what becomes of the target
<1>6. /\ tap' # "lost" /\ (Settles(o) => tap' = "RTI")
      /\ latch' = IF o.op = "dr" /\ ir # "IDCODE" THEN o.n ELSE latch
      /\ o.op = "ir" => ir' = o.ir
      /\ o.op = "dr" => ir' = ir
  <2>1. CASE o.op = "rti"
    BY <1>2, <1>3, <2>1 DEF Execute, Settles
  <2>2. CASE o.op = "srst"
    BY <1>2, <1>3, <2>2 DEF Execute, Settles
  <2>3. CASE o.op = "id"
    BY <1>2, <1>3, <2>3 DEF Execute, Settles
  <2>4. CASE o.op = "ir"
    BY <1>2, <1>3, <1>4, <2>4 DEF Execute, Settles, Moves
  <2>5. CASE o.op = "dr"
    BY <1>2, <1>3, <1>4, <2>5 DEF Execute, Settles, Moves
  <2> QED BY <1>5, <2>1, <2>2, <2>3, <2>4, <2>5
<1>7. Rests'
  <2>1. Orderly(q, tap) /\ (Settles(o) => tap' = "RTI")
        /\ (pc \in {"preload", "menu", "burn", "wait"} => Settled(q, tap))
    BY <1>6 DEF q, Rests
  <2>2. Orderly(Tail(q), tap') /\ (Settled(q, tap) => Settled(Tail(q), tap'))
    BY <1>2, <2>1, OrderlyTail DEF o
  <2> QED BY <1>2, <1>3, <1>6, <2>1, <2>2 DEF Rests
<1>8. Asked'
  <2>1. q \o <<>> = q /\ <<>> \in Seq(Op) /\ q # <<>>
    BY <1>2
  <2>2. Below(Tail(q), scans)
    <3>1. Below(q \o <<>>, scans)
      BY <2>1 DEF Asked, q
    <3> QED BY <1>2, <2>1, <3>1, BelowParts
  <2> QED BY <1>2, <1>3, <1>4, <1>6, <2>2 DEF Asked
<1>9. ASSUME flash # "none"
      PROVE  /\ InLine(Tail(q), ir', scans, base, Max2(latch', base))
             /\ scans - Max2(latch', base) < Len(Tail(q)) => latch' <= base
             /\ latch' > base => latch' = d + 1
  <2>1. /\ InLine(q, ir, scans, base, d) /\ (scans - d < Len(q) => latch <= base)
        /\ d \in Nat /\ scans - d <= Len(q) /\ d >= base
    BY <1>3, <1>9 DEF q, Ordered, InLine, Max2
  <2>2. CASE scans - d = Len(q)
    <3>1. /\ ir = "EXTEST" /\ o.op = "dr" /\ o.n = d + 1
          /\ InLine(Tail(q), ir, scans, base, d + 1) /\ scans - (d + 1) = Len(Tail(q))
      BY <1>2, <1>3, <2>1, <2>2, InLineTailScan DEF o
    <3>2. latch' = d + 1 /\ ir' = ir
      BY <1>6, <3>1
    <3>3. Max2(latch', base) = d + 1
      BY <1>3, <2>1, <3>2 DEF Max2
    <3> QED BY <1>3, <2>1, <3>1, <3>2, <3>3
  <2>3. CASE scans - d < Len(q)
    <3>1. latch <= base /\ d = base
      BY <1>3, <2>1, <2>3 DEF Max2
    <3>2. o = Ir("EXTEST") => ir' = "EXTEST"
      BY <1>6 DEF Ir
    <3>3. InLine(Tail(q), ir', scans, base, d) /\ (o.op = "dr" => o.n <= base)
      BY <1>2, <1>3, <2>1, <2>3, <3>2, InLineTailOther DEF o
    <3>4. latch' <= base
      BY <1>6, <3>1, <3>3
    <3>5. Max2(latch', base) = base
      <4>1. latch' \in Int
        BY <1>3, <1>4, <1>6
      <4> QED BY <1>3, <3>4, <4>1 DEF Max2
    <3> QED BY <1>3, <1>4, <1>6, <3>1, <3>3, <3>4, <3>5
  <2>4. Len(q) \in Nat
    BY <1>2
  <2> QED BY <1>3, <2>1, <2>2, <2>3, <2>4
<1>10. Ordered'
  <2>1. flash # "none" => pc \in {"burn", "wait", "sleep", "open"}
    BY DEF Ordered
  <2>2. Max2(latch, base)' = Max2(latch', base)
    BY <1>3 DEF Max2
  <2> QED BY <1>2, <1>3, <1>9, <2>1, <2>2 DEF Ordered
<1>11. d = IF latch <= base THEN base ELSE latch
  BY <1>3 DEF Max2
<1> QED BY <1>3, <1>7, <1>8, <1>9, <1>10, <1>11

\* Two operations more, the second behind the state the first leaves.
LEMMA TwoMore ==
  ASSUME NEW q \in Seq(Op), NEW t, NEW m \in Nat, NEW k \in Nat, NEW x \in Op, NEW y \in Op,
         Orderly(q, t), Below(q, m), m <= k, x.op # "junk", y.op # "junk",
         Moves(x) => Settled(q, t), Settles(x), Settles(y), x.n <= k, y.n <= k
  PROVE  /\ q \o <<x, y>> \in Seq(Op)
         /\ Orderly(q \o <<x, y>>, t) /\ Settled(q \o <<x, y>>, t) /\ Below(q \o <<x, y>>, k)
         /\ Len(q \o <<x, y>>) > 0 /\ (q \o <<x, y>>)[Len(q \o <<x, y>>)] = y
<1> DEFINE r == Append(q, x)
<1>1. r \in Seq(Op) /\ q \o <<x, y>> = Append(r, y)
  BY ConcatFew
<1>2. Orderly(r, t) /\ Settled(r, t)
  BY OrderlyAppend
<1>3. Below(r, k)
  BY BelowAppend
<1> HIDE DEF r
<1>4. Orderly(Append(r, y), t) /\ Settled(Append(r, y), t)
  BY <1>1, <1>2, OrderlyAppend
<1>5. Below(Append(r, y), k)
  BY <1>1, <1>3, BelowAppend
<1>6. /\ Append(r, y) \in Seq(Op) /\ Len(Append(r, y)) > 0
      /\ Append(r, y)[Len(Append(r, y))] = y
  BY <1>1
<1> QED BY <1>1, <1>4, <1>5, <1>6

\* A flash session begins: the TAP is reset and switched to EXTEST behind operations
\* that belong to no session.
LEMMA BeginStep ==
  ASSUME TypeOK, NEW q \in Seq(Op), Orderly(q, tap), Below(q, scans), tap # "lost",
         latch <= scans, Pending' = q \o <<Rti, Ir("EXTEST")>>,
         pc' = "burn", base' = scans, UNCHANGED <<scans, target>>
  PROVE  Rests' /\ Asked' /\ Ordered'
<1> DEFINE r == q \o <<Rti, Ir("EXTEST")>>
<1>1. scans \in Nat /\ latch \in Nat
  BY QueueTypes
<1>2. /\ Rti \in Op /\ Rti.op = "rti" /\ Rti.n = 0
      /\ Ir("EXTEST") \in Op /\ Ir("EXTEST").op = "ir" /\ Ir("EXTEST").n = 0
  BY OpsTyped, SizeAssumption DEF Rti, Ir, Instruction
<1>3. /\ r \in Seq(Op) /\ Orderly(r, tap) /\ Settled(r, tap) /\ Below(r, scans)
      /\ Len(r) > 0 /\ r[Len(r)] = Ir("EXTEST")
  <2>1. /\ ~Moves(Rti) /\ Settles(Rti) /\ Settles(Ir("EXTEST"))
        /\ Rti.op # "junk" /\ Ir("EXTEST").op # "junk"
        /\ scans <= scans /\ Rti.n <= scans /\ Ir("EXTEST").n <= scans
    BY <1>1, <1>2 DEF Moves, Settles
  <2> QED BY <1>1, <1>2, <2>1, TwoMore
<1> HIDE DEF r
<1>4. InLine(r, ir, scans, scans, scans)
  <2>1. scans - scans = 0 /\ 0 \in 0 .. Len(r) /\ Len(r) - 0 = Len(r) /\ Len(r) # 0
    BY <1>1, <1>3
  <2>2. \A j \in 1 .. Len(r) : ~(j > Len(r))
    BY <1>3
  <2> QED BY <1>1, <1>3, <2>1, <2>2 DEF InLine, Below
<1>5. /\ Pending' = r /\ scans' = scans /\ latch' = latch /\ ir' = ir /\ tap' = tap
      /\ Max2(latch', base') = scans /\ latch' <= base'
  BY <1>1 DEF r, target, Max2
<1>6. Ordered'
  BY <1>4, <1>5 DEF Ordered
<1> QED BY <1>3, <1>5, <1>6 DEF Rests, Asked

\* A step of the host.
LEMMA StepPending ==
  ASSUME TypeOK, TypeOK', Rests, Asked, Ordered, [Next]_vars
  PROVE  Rests' /\ Asked' /\ Ordered'
<1> USE SizeAssumption DEF SizeAssumption
<1>0. /\ wire \in Seq(Op) /\ buffer \in Seq(Op) /\ Pending \in Seq(Op)
      /\ scans \in Nat /\ base \in Nat /\ latch \in Nat /\ base <= scans /\ latch <= scans
  BY QueueTypes DEF Asked
<1>n. flash \notin {"nor", "nand", "mem"} => flash = "none"
  BY DEF TypeOK
<1>p. flash # "none" => pc \in {"burn", "wait", "sleep", "open"}
  BY DEF Ordered
<1>e. wire \o <<>> = wire /\ buffer \o <<>> = buffer
  BY <1>0
\* two operations that reset the TAP and choose the instruction, the first of them
\* needs no state
<1>w. /\ Rti \in Op /\ Rti.op = "rti" /\ Rti.n = 0 /\ ~Moves(Rti) /\ Settles(Rti)
      /\ \A i \in Instruction : /\ Ir(i) \in Op /\ Ir(i).op = "ir" /\ Ir(i).n = 0
                                /\ Settles(Ir(i))
      /\ "SAMPLE" \in Instruction /\ "EXTEST" \in Instruction
  BY OpsTyped DEF Rti, Ir, Moves, Settles, Instruction
<1>d. ASSUME scans < MaxScans, NEW r \in BOOLEAN PROVE Dr(scans + 1, r) \in Op
  <2>1. scans + 1 \in 0 .. MaxScans
    BY <1>0, <1>d
  <2> QED BY <2>1, OpsTyped
<1>1. CASE Open
  <2>1. Pending' = <<>>
    BY <1>1 DEF Open, Pending, Dead
  <2> QED BY <1>0, <1>1, <2>1 DEF Open, target, Rests, Asked, Ordered, Orderly, Below
<1>2. CASE ReadCPUID
  <2>1. UNCHANGED <<scans, base, target>> /\ flash' = "none"
    BY <1>2, <1>p DEF ReadCPUID
  <2>2. CASE Written(<<Id>>) /\ pc' = "waitid"
    <3>1. Pending' = wire \o <<Id>>
      BY <2>2 DEF Written, Pending, Dead
    <3> QED BY <2>1, <2>2, <3>1, SentStep
  <2>3. CASE Refused /\ pc' = "failed"
    <3>1. Pending' = wire /\ wire' = wire
      BY <2>3 DEF Refused, Pending, Dead
    <3> QED BY <2>1, <2>3, <3>1, IdleStep
  <2> QED BY <1>2, <2>2, <2>3 DEF ReadCPUID
<1>3. CASE IdReturns
  <2>1. UNCHANGED <<wire, scans, base, target>> /\ flash' = "none" /\ pc' \in {"init", "failed"}
    BY <1>3, <1>p DEF IdReturns
  <2>2. Pending' = wire
    BY <2>1 DEF Pending, Dead
  <2> QED BY <2>1, <2>2, IdleStep
<1>4. CASE IdTimesOut
  <2>1. UNCHANGED <<wire, scans, base, target>> /\ flash' = "none" /\ pc' = "failed"
    BY <1>4, <1>p DEF IdTimesOut
  <2>2. Pending' = wire
    BY <2>1 DEF Pending, Dead
  <2> QED BY <2>1, <2>2, IdleStep
<1>5. CASE InitIdle
  <2>1. UNCHANGED <<scans, target>> /\ flash' = "none" /\ pc' = "preload"
    BY <1>5, <1>p DEF InitIdle
  <2>2. wire' \o buffer' = wire \o <<Rti>>
    BY <1>0, <1>5, <1>w, ConcatFew, FlushPending DEF InitIdle
  <2>3. Pending' = wire \o <<Rti>>
    BY <2>1, <2>2 DEF Pending, Dead
  <2> QED BY <2>1, <2>3, SentStep
<1>6. CASE Preload
  <2> DEFINE o == Dr(scans + 1, TRUE)
             r == Pending \o <<Ir("SAMPLE"), o>>
  <2>1. /\ pc = "preload" /\ flash' = "none" /\ scans < MaxScans /\ scans' = scans + 1
        /\ UNCHANGED <<base, target>>
        /\ SyncScan(buffer \o <<Ir("SAMPLE"), o>>, size + IrBytes + DrBytes, "menu")
    BY <1>6, <1>p DEF Preload
  <2>2. pc' \in {"menu", "wait"}
    BY <2>1 DEF SyncScan
  <2>3. o \in Op /\ o.op = "dr" /\ o.n = scans + 1 /\ Settles(o)
    BY <1>d, <2>1 DEF Dr, Settles
  <2> HIDE DEF o
  <2>4. <<Ir("SAMPLE"), o>> \in Seq(Op)
    BY <1>w, <2>3, ConcatFew
  <2>5. wire' \o buffer' = wire \o (buffer \o <<Ir("SAMPLE"), o>>)
    BY <1>0, <2>1, <2>4, ConcatTyped, SyncPending
  <2>6. Pending' = r
    BY <1>0, <2>1, <2>2, <2>4, <2>5, ConcatThree DEF Pending, Dead
  <2>7. Orderly(r, tap) /\ Settled(r, tap) /\ Below(r, scans + 1)
    <3>1. Orderly(Pending, tap) /\ Settled(Pending, tap) /\ Below(Pending, scans)
      BY <2>1 DEF Rests, Asked
    <3>2. /\ scans + 1 \in Nat /\ scans <= scans + 1
          /\ Ir("SAMPLE").n <= scans + 1 /\ o.n <= scans + 1
          /\ Ir("SAMPLE").op # "junk" /\ o.op # "junk"
      BY <1>0, <1>w, <2>3
    <3> QED BY <1>0, <1>w, <2>3, <3>1, <3>2, TwoMore
  <2> HIDE DEF r
  <2>8. tap # "lost" /\ latch <= scans + 1
    BY <1>0 DEF Rests
  <2> QED BY <2>1, <2>6, <2>7, <2>8 DEF target, Rests, Asked, Ordered
<1>7. CASE Leave
  <2>1. UNCHANGED <<wire, scans, base, target>> /\ flash' = "none" /\ pc' \in {"failed", "exit"}
    BY <1>7, <1>p DEF Leave
  <2>2. Pending' = wire
    BY <2>1 DEF Pending, Dead
  <2> QED BY <2>1, <2>2, IdleStep
<1>8. CASE BeginMemory
  <2>1. /\ pc' = "burn" /\ base' = scans /\ UNCHANGED <<scans, target>>
        /\ Flush(<<Rti, Ir("EXTEST")>>, RtiBytes + IrBytes)
    BY <1>8 DEF BeginMemory
  <2>2. wire' \o buffer' = wire \o <<Rti, Ir("EXTEST")>>
    BY <1>0, <1>w, <2>1, ConcatFew, FlushPending
  <2>3. Pending' = wire \o <<Rti, Ir("EXTEST")>>
    BY <2>1, <2>2 DEF Pending, Dead
  <2>4. Orderly(wire, tap) /\ Below(wire, scans) /\ tap # "lost"
    BY SentFirst DEF Rests
  <2> QED BY <1>0, <2>1, <2>3, <2>4, BeginStep
<1>9. CASE BeginNand
  <2>1. /\ pc = "menu" /\ pc' = "burn" /\ base' = scans /\ UNCHANGED <<wire, scans, target>>
        /\ buffer' = buffer \o <<Rti, Ir("EXTEST")>>
    BY <1>9 DEF BeginNand, Hold
  <2>2. <<Rti, Ir("EXTEST")>> \in Seq(Op)
    BY <1>w, ConcatFew
  <2>3. Pending' = Pending \o <<Rti, Ir("EXTEST")>>
    BY <1>0, <2>1, <2>2, ConcatThree DEF Pending, Dead
  <2>4. Orderly(Pending, tap) /\ Below(Pending, scans) /\ tap # "lost"
    BY DEF Rests, Asked
  <2> QED BY <1>0, <2>1, <2>3, <2>4, BeginStep
<1>10. CASE ShiftDRNoTdo
  <2> DEFINE o == Dr(scans + 1, FALSE)
  <2>1. /\ pc = "burn" /\ pc' = "burn" /\ scans < MaxScans /\ scans' = scans + 1
        /\ UNCHANGED <<flash, base, target>>
        /\ Flush(Append(buffer, o), size + DrBytes) \/ Hold(Append(buffer, o), size + DrBytes)
    BY <1>10 DEF ShiftDRNoTdo
  <2>2. o \in Op
    BY <1>d, <2>1
  <2>3. wire' \o buffer' = wire \o Append(buffer, o)
    BY <1>0, <2>1, <2>2, AppendToConcat, FlushPending
  <2>4. Pending' = Append(Pending, o)
    BY <1>0, <2>1, <2>2, <2>3, AppendToConcat DEF Pending, Dead
  <2> QED BY <2>1, <2>4, ScanStep
<1>11. CASE ShiftDR
  <2> DEFINE o == Dr(scans + 1, TRUE)
  <2>1. /\ pc = "burn" /\ scans < MaxScans /\ scans' = scans + 1
        /\ UNCHANGED <<flash, base, target>>
        /\ SyncScan(Append(buffer, o), size + DrBytes, "burn")
    BY <1>11 DEF ShiftDR
  <2>2. pc' \in {"burn", "wait"}
    BY <2>1 DEF SyncScan
  <2>3. o \in Op
    BY <1>d, <2>1
  <2>4. wire' \o buffer' = wire \o Append(buffer, o)
    BY <1>0, <2>1, <2>3, AppendToConcat, SyncPending
  <2>5. Pending' = Append(Pending, o)
    BY <1>0, <2>1, <2>2, <2>3, <2>4, AppendToConcat DEF Pending, Dead
  <2> QED BY <2>1, <2>2, <2>5, ScanStep
<1>12. CASE ReadReturns \/ ReadTimesOut
  <2>1. /\ UNCHANGED <<wire, buffer, scans, base, target, flash>> /\ pc = "wait"
        /\ pc' = IF flash = "none" THEN "menu" ELSE "burn"
    BY <1>12 DEF ReadReturns, ReadTimesOut, Resume
  <2>2. Pending' = Pending
    BY <2>1 DEF Pending, Dead
  <2> QED BY <2>1, <2>2, IdleStep
<1>14. CASE NorDone
  <2>1. /\ UNCHANGED <<scans, base, target, flash>> /\ pc = "burn" /\ pc' = "sleep"
        /\ Flush(buffer, size)
    BY <1>14 DEF NorDone
  <2>2. wire' \o buffer' = wire \o buffer
    BY <1>0, <2>1, FlushPending
  <2>3. Pending' = Pending
    BY <2>1, <2>2 DEF Pending, Dead
  <2>4. Rests' /\ Asked' /\ Ordered'
    BY <2>1, <2>3 DEF target, Rests, Asked, Ordered
  <2> QED BY <2>4
<1>15. CASE Wake \/ SessionLeft
  <2>1. /\ UNCHANGED <<wire, buffer, scans, base, target, flash>> /\ pc \in {"sleep", "burn"}
        /\ pc' = "open"
    BY <1>15 DEF Wake, SessionLeft
  <2>2. Pending' = Pending
    BY <2>1 DEF Pending, Dead
  <2> QED BY <2>1, <2>2, IdleStep
<1>17. CASE Quit
  <2>1. UNCHANGED <<scans, base, target>> /\ flash' = "none" /\ pc' = "exit"
    BY <1>17 DEF Quit
  <2>2. CASE Written(<<Srst>>)
    <3>1. Pending' = wire \o <<Srst>>
      BY <2>1, <2>2 DEF Written, Pending, Dead
    <3> QED BY <2>1, <3>1, SentStep
  <2>3. CASE Refused
    <3>1. Pending' = wire /\ wire' = wire
      BY <2>1, <2>3 DEF Refused, Pending, Dead
    <3> QED BY <2>1, <3>1, IdleStep
  <2> QED BY <1>17, <2>2, <2>3 DEF Quit
<1>18. CASE Execute
  BY <1>18, ExecuteStep
<1>19. CASE UNCHANGED vars
  <2>1. UNCHANGED <<pc, flash, buffer, wire, scans, base, target>>
    BY <1>19 DEF vars, host
  <2>2. Pending' = Pending
    BY <2>1 DEF Pending, Dead
  <2> QED BY <2>1, <2>2 DEF target, Rests, Asked, Ordered
<1> QED BY <1>1, <1>2, <1>3, <1>4, <1>5, <1>6, <1>7, <1>8, <1>9, <1>10, <1>11, <1>12,
           <1>14, <1>15, <1>17, <1>18, <1>19 DEF Next

-----------------------------------------------------------------------------
(* The theorems *)

\* What lies between host and target keeps its order whatever the program asks for
\* and whatever fails.
THEOREM Invariance == Spec => []IInv
<1>1. IInv /\ [Next]_vars => IInv'
  <2> SUFFICES ASSUME TypeOK, Sized, Rests, Asked, Ordered, [Next]_vars PROVE IInv'
    BY DEF IInv
  <2>1. TypeOK'
    BY StepTypes
  <2>2. Sized'
    BY StepSized
  <2>3. Rests' /\ Asked' /\ Ordered'
    BY <2>1, StepPending
  <2> QED BY <2>1, <2>2, <2>3 DEF IInv
<1> QED BY InitInv, <1>1, PTL DEF Spec

\* Every variable keeps its type; in particular the recorded size never goes below
\* zero when a flush resets it.
THEOREM TypeCorrect == Spec => []TypeOK
<1>1. IInv => TypeOK
  BY DEF IInv
<1> QED BY <1>1, Invariance, PTL

\* As long as USB works there is room for a whole scan when one begins, because the
\* buffer is never more than half full between operations.
THEOREM RoomForNextScan == Spec => []BufferBounded
<1>1. IInv => BufferBounded
  <2> SUFFICES ASSUME IInv, faults = 0 PROVE size + DrBytes <= Capacity
    BY DEF BufferBounded
  <2>1. size <= Half /\ size \in Nat
    BY DEF IInv, Sized, TypeOK
  <2> QED BY <2>1, SizeAssumption, RoomAssumption
          DEF SizeAssumption, RoomAssumption, Half
<1> QED BY <1>1, Invariance, PTL

\* Every operation finds the TAP where its movements start from.
THEOREM OperationsFit == Spec => []NeverLost
<1>1. IInv => NeverLost
  BY DEF IInv, Rests, NeverLost
<1> QED BY <1>1, Invariance, PTL

\* The pins carry a session's scans in the order they were asked for, each once,
\* although some were written late or written after a failure.
THEOREM ScansReachPins == Spec => ScansInOrder
<1> DEFINE InOrder == latch' # latch /\ flash # "none" /\ latch' > base =>
                        latch' = IF latch <= base THEN base + 1 ELSE latch + 1
<1>1. IInv /\ [Next]_vars => [InOrder]_vars
  <2> SUFFICES ASSUME TypeOK, Rests, Asked, Ordered, [Next]_vars, latch' # latch PROVE InOrder
    BY DEF IInv
  <2>1. Open \/ Execute
    BY DEF Next, vars, target, host, ReadCPUID, IdReturns, IdTimesOut, InitIdle, Preload,
           BeginMemory, BeginNand, ShiftDRNoTdo, ShiftDR, ReadReturns, ReadTimesOut, Leave,
           NorDone, Wake, SessionLeft, Quit
  <2>2. ~Open
    BY DEF Open, target
  <2> QED BY <2>1, <2>2, ExecuteStep
<1> QED BY <1>1, Invariance, PTL DEF Spec, ScansInOrder

-----------------------------------------------------------------------------
(* What the host gets back from the cable as long as USB works, which is as   *)
(* far as the code goes: the pins are driven only after they were preloaded,  *)
(* a read answers the scan before it, and the NOR programmer is done only     *)
(* when the pins have carried everything.  IInv orders what lies between host *)
(* and target whatever fails; here it is where the replies are: none is under *)
(* way unless the host waits, and then it is the last thing asked for.        *)

\* No operation of q makes a reply.
Silent(q) == \A j \in 1 .. Len(q) : ~q[j].read /\ q[j].op # "id"

\* No data scan of q was asked for before the session.
Fresh(q, b) == \A j \in 1 .. Len(q) : q[j].op = "dr" => q[j].n > b

\* The reply the host waits for is still to be made, by the last operation sent.
ToCome ==
  /\ replies = <<>> /\ wire # <<>>
  /\ \A j \in 1 .. Len(wire) - 1 : ~wire[j].read /\ wire[j].op # "id"
  /\ wire[Len(wire)] = Dr(scans, TRUE)
  /\ flash = "none" =>
       IF Len(wire) = 1 THEN ir = "SAMPLE" ELSE wire[Len(wire) - 1] = Ir("SAMPLE")

\* It is there, and the target has nothing left to do.
Arrived ==
  /\ wire = <<>> /\ latch = scans
  /\ Len(replies) = 1
  /\ flash # "none" => replies[1] = PinsReply(scans - 1)

IdUnderWay ==
  /\ pc = "id" => wire = <<>>
  /\ pc = "waitid" => (wire = <<Id>> /\ replies = <<>>) \/ (wire = <<>> /\ Len(replies) = 1)

Idle ==
  /\ pc \in {"open", "id", "init", "preload", "menu", "burn", "sleep"} =>
       replies = <<>> /\ Silent(wire)
  /\ pc \in {"preload", "burn"} => Silent(buffer)
  /\ pc \in {"burn", "sleep"} => flash # "none"
  /\ pc = "sleep" => buffer = <<>>

Waiting ==
  pc = "wait" =>
    /\ buffer = <<>> /\ scans > 0 /\ (flash # "none" => scans > base)
    /\ ToCome \/ Arrived

AtMenu == pc = "menu" => wire = <<>> /\ buffer = <<>> /\ latch = scans /\ scans > 0

Preloaded ==
  flash # "none" => latch >= base /\ base > 0 /\ Fresh(wire, base) /\ Fresh(buffer, base)

Smooth == faults = 0 => IdUnderWay /\ Idle /\ Waiting /\ AtMenu /\ Preloaded

-----------------------------------------------------------------------------
(* Lists of operations *)

\* Operations sent behind others that make no reply and belong to the session.
LEMMA ConcatQuiet ==
  ASSUME NEW a \in Seq(Op), NEW c \in Seq(Op), NEW b
  PROVE  /\ Silent(a) /\ Silent(c) => Silent(a \o c)
         /\ Fresh(a, b) /\ Fresh(c, b) => Fresh(a \o c, b)
<1>1. ASSUME NEW j \in 1 .. Len(a \o c)
      PROVE  \/ j \in 1 .. Len(a) /\ (a \o c)[j] = a[j]
             \/ j - Len(a) \in 1 .. Len(c) /\ (a \o c)[j] = c[j - Len(a)]
  OBVIOUS
<1> QED BY <1>1 DEF Silent, Fresh

\* What is left when the first was carried out.
LEMMA TailQuiet ==
  ASSUME NEW a \in Seq(Op), a # <<>>, NEW b
  PROVE  /\ Silent(a) => Silent(Tail(a)) /\ ~Head(a).read /\ Head(a).op # "id"
         /\ Fresh(a, b) => Fresh(Tail(a), b) /\ (Head(a).op = "dr" => Head(a).n > b)
<1>1. /\ Len(Tail(a)) = Len(a) - 1 /\ Len(a) > 0 /\ Head(a) = a[1]
      /\ \A j \in 1 .. Len(Tail(a)) : j + 1 \in 1 .. Len(a) /\ Tail(a)[j] = a[j + 1]
  OBVIOUS
<1> QED BY <1>1 DEF Silent, Fresh

\* Nothing is left behind the only one.
LEMMA TailOfOne ==
  ASSUME NEW q \in Seq(Reply), Len(q) = 1
  PROVE  Tail(q) = <<>>
<1>1. q # <<>>
  OBVIOUS
<1>2. Len(Tail(q)) = 0 /\ Tail(q) \in Seq(Reply)
  BY <1>1
<1>3. \A e \in Seq(Reply) : Len(e) = 0 => e = <<>>
  OBVIOUS
<1> QED BY <1>2, <1>3

\* The operations that begin an image or a session.
LEMMA FewQuiet ==
  ASSUME SizeAssumption, NEW b
  PROVE  /\ Silent(<<>>) /\ Fresh(<<>>, b)
         /\ Silent(<<Rti>>)
         /\ Silent(<<Rti, Ir("EXTEST")>>) /\ Fresh(<<Rti, Ir("EXTEST")>>, b)
         /\ <<>> \in Seq(Op) /\ <<Rti>> \in Seq(Op) /\ <<Rti, Ir("EXTEST")>> \in Seq(Op)
<1>1. Rti \in Op /\ Ir("EXTEST") \in Op
  BY OpsTyped DEF Instruction
<1>2. /\ ~Rti.read /\ Rti.op = "rti" /\ ~Ir("EXTEST").read /\ Ir("EXTEST").op = "ir"
  BY DEF Rti, Ir
<1>3. /\ Len(<<Rti>>) = 1 /\ <<Rti>>[1] = Rti
      /\ Len(<<Rti, Ir("EXTEST")>>) = 2
      /\ <<Rti, Ir("EXTEST")>>[1] = Rti /\ <<Rti, Ir("EXTEST")>>[2] = Ir("EXTEST")
  OBVIOUS
<1>4. Silent(<<>>) /\ Fresh(<<>>, b)
  BY DEF Silent, Fresh
<1>5. Silent(<<Rti>>)
  BY <1>2, <1>3 DEF Silent
<1>6. \A j \in 1 .. 2 : j = 1 \/ j = 2
  OBVIOUS
<1>7. Silent(<<Rti, Ir("EXTEST")>>) /\ Fresh(<<Rti, Ir("EXTEST")>>, b)
  BY <1>2, <1>3, <1>6 DEF Silent, Fresh
<1>8. <<>> \in Seq(Op) /\ <<Rti>> \in Seq(Op) /\ <<Rti, Ir("EXTEST")>> \in Seq(Op)
  BY <1>1
<1> QED BY <1>4, <1>5, <1>7, <1>8

\* A scan asked for now, without a read.
LEMMA ScanQuiet ==
  ASSUME SizeAssumption, NEW a \in Seq(Op), NEW b \in Nat, NEW n \in 0 .. MaxScans, n > b,
         NEW r \in BOOLEAN
  PROVE  /\ Append(a, Dr(n, r)) \in Seq(Op)
         /\ Silent(a) /\ ~r => Silent(Append(a, Dr(n, r)))
         /\ Fresh(a, b) => Fresh(Append(a, Dr(n, r)), b)
<1> DEFINE o == Dr(n, r)
<1>1. o \in Op /\ o.op = "dr" /\ o.n = n /\ o.read = r
  BY OpsTyped DEF Dr
<1> HIDE DEF o
<1>2. Append(a, o) \in Seq(Op)
  BY <1>1
<1>3. \A j \in 1 .. Len(Append(a, o)) :
         (j \in 1 .. Len(a) /\ Append(a, o)[j] = a[j]) \/ Append(a, o)[j] = o
  BY <1>1
<1>4. /\ Silent(a) /\ ~r => Silent(Append(a, o))
      /\ Fresh(a, b) => Fresh(Append(a, o), b)
  BY <1>1, <1>3 DEF Silent, Fresh
<1> QED BY <1>2, <1>4 DEF o

-----------------------------------------------------------------------------
(* Steps without a failure *)

\* Nothing has failed after a step only if nothing failed before or in it.
LEMMA NoFault ==
  ASSUME TypeOK, [Next]_vars, faults' = 0
  PROVE  faults = 0 /\ ~Refused /\ ~IdTimesOut /\ ~ReadTimesOut
<1>1. faults \in Nat
  BY SizeAssumption DEF TypeOK, SizeAssumption
<1>2. ~Refused /\ ~IdTimesOut /\ ~ReadTimesOut
  BY <1>1 DEF Refused, IdTimesOut, ReadTimesOut
<1>3. faults' = faults
  BY <1>2 DEF Next, vars, host, Open, ReadCPUID, IdReturns, InitIdle, Preload, BeginMemory,
              BeginNand, ShiftDRNoTdo, ShiftDR, ReadReturns, Leave, NorDone, Wake, SessionLeft,
              Quit, Execute, Hold, Flush, SyncScan, Written
<1> QED BY <1>2, <1>3

\* A write that does not fail sends all of the buffer.
LEMMA FlushSends ==
  ASSUME NEW q, NEW n, NEW p, ~Refused
  PROVE  /\ Flush(q, n) => wire' = wire \o q /\ buffer' = <<>>
         /\ SyncScan(q, n, p) => wire' = wire \o q /\ buffer' = <<>> /\ pc' = "wait"
         /\ Hold(q, n) => wire' = wire /\ buffer' = q
  BY DEF Flush, SyncScan, Hold, Written

\* A scan with a read, sent behind operations without a reply, is the last thing
\* the target has to do.
LEMMA ReadIsLast ==
  ASSUME SizeAssumption, NEW a \in Seq(Op), Silent(a), NEW n \in 0 .. MaxScans
  PROVE  LET w == Append(a, Dr(n, TRUE))
         IN /\ w # <<>> /\ w[Len(w)] = Dr(n, TRUE) /\ Len(w) = Len(a) + 1
            /\ \A j \in 1 .. Len(w) - 1 : ~w[j].read /\ w[j].op # "id" /\ w[j] = a[j]
<1> DEFINE o == Dr(n, TRUE)
           w == Append(a, o)
<1>1. o \in Op
  BY OpsTyped
<1> HIDE DEF o
<1>2. w # <<>> /\ w[Len(w)] = o /\ Len(w) = Len(a) + 1 /\ \A j \in 1 .. Len(a) : w[j] = a[j]
  BY <1>1
<1>3. \A j \in 1 .. Len(w) - 1 : ~w[j].read /\ w[j].op # "id" /\ w[j] = a[j]
  BY <1>2 DEF Silent
<1> QED BY <1>2, <1>3 DEF o

-----------------------------------------------------------------------------
(* Steps of the target *)

\* What carrying out an operation does to the latch, the instruction and the replies.
LEMMA Executed ==
  ASSUME TypeOK, Rests, Asked, Execute
  PROVE  LET o == Head(wire)
         IN /\ o \in Op /\ wire' = Tail(wire) /\ wire # <<>>
            /\ latch' = IF o.op = "dr" /\ ir # "IDCODE" THEN o.n ELSE latch
            /\ o.op = "ir" => ir' = o.ir
            /\ ~o.read /\ o.op # "id" => replies' = replies
            /\ o.op = "id" => replies' = Append(replies, IdReply)
            /\ o.op = "dr" /\ o.read => replies' = Append(replies, Captured)
<1> DEFINE o == Head(wire)
<1>1. wire # <<>> /\ wire' = Tail(wire) /\ wire \in Seq(Op)
  BY QueueTypes DEF Execute
<1>2. o \in Op /\ o = wire[1] /\ 1 \in 1 .. Len(wire)
  BY <1>1
<1>3. Known(o) /\ (Moves(o) => tap = "RTI")
  BY <1>2, SentFirst DEF Orderly
<1>4. o.op \in {"rti", "ir", "dr", "id", "srst"}
  BY <1>2, <1>3 DEF Known, Op
<1> HIDE DEF o
<1>5. CASE o.op = "rti"
  BY <1>1, <1>2, <1>5 DEF Execute, o
<1>6. CASE o.op = "srst"
  BY <1>1, <1>2, <1>6 DEF Execute, o
<1>7. CASE o.op = "id"
  BY <1>1, <1>2, <1>7 DEF Execute, o
<1>8. CASE o.op = "ir"
  BY <1>1, <1>2, <1>3, <1>8 DEF Execute, Moves, o
<1>9. CASE o.op = "dr"
  BY <1>1, <1>2, <1>3, <1>9 DEF Execute, Moves, o
<1> QED BY <1>4, <1>5, <1>6, <1>7, <1>8, <1>9 DEF o

\* The read scan of a session is carried out when the pins carry the scan before it.
LEMMA ReadInSession ==
  ASSUME TypeOK, Ordered, flash # "none", pc = "wait", buffer = <<>>, scans > base,
         latch >= base, Len(wire) = 1, wire[1] = Dr(scans, TRUE)
  PROVE  ir = "EXTEST" /\ latch = scans - 1
<1>1. scans \in Nat /\ base \in Nat /\ latch \in Nat /\ wire \in Seq(Op)
  BY QueueTypes
<1>2. Pending = wire
  BY <1>1 DEF Pending, Dead
<1>3. InLine(wire, ir, scans, base, Max2(latch, base)) /\ Max2(latch, base) = latch
  BY <1>1, <1>2 DEF Ordered, Max2
<1>4. scans - latch \in 0 .. 1
  BY <1>3 DEF InLine
<1>5. scans - latch # 0
  <2>1. wire[1].op = "dr" /\ wire[1].n = scans
    BY DEF Dr
  <2>2. 1 \in 1 .. Len(wire) /\ (scans - latch = 0 => ~(1 > Len(wire) - (scans - latch)))
    OBVIOUS
  <2>3. scans - latch = 0 => wire[1].n <= base
    BY <1>3, <2>1, <2>2 DEF InLine
  <2>4. scans - latch = 0 => scans <= base
    BY <2>1, <2>3
  <2> QED BY <1>1, <2>4
<1>6. scans - latch = Len(wire)
  BY <1>4, <1>5
<1> QED BY <1>1, <1>3, <1>6 DEF InLine

\* The target never makes a reply nobody waits for, and its last one is the right one.
LEMMA ExecuteSmooth ==
  ASSUME IInv, Smooth, faults = 0, Execute
  PROVE  IdUnderWay' /\ Idle' /\ Waiting' /\ AtMenu' /\ Preloaded'
<1> DEFINE o == Head(wire)
<1>0. /\ TypeOK /\ Rests /\ Asked /\ Ordered
      /\ IdUnderWay /\ Idle /\ Waiting /\ AtMenu /\ Preloaded
  BY DEF IInv, Smooth
<1>1. /\ scans \in Nat /\ base \in Nat /\ latch \in Nat /\ wire \in Seq(Op)
      /\ replies \in Seq(Reply)
  BY <1>0, QueueTypes DEF TypeOK
<1>2. /\ o \in Op /\ wire' = Tail(wire) /\ wire # <<>>
      /\ latch' = IF o.op = "dr" /\ ir # "IDCODE" THEN o.n ELSE latch
      /\ o.op = "ir" => ir' = o.ir
      /\ ~o.read /\ o.op # "id" => replies' = replies
      /\ o.op = "id" => replies' = Append(replies, IdReply)
      /\ o.op = "dr" /\ o.read => replies' = Append(replies, Captured)
  BY <1>0, Executed
<1>3. UNCHANGED <<pc, flash, buffer, scans, base>>
  BY DEF Execute, host
<1>4. /\ Len(Tail(wire)) = Len(wire) - 1 /\ Len(wire) > 0 /\ o = wire[1]
      /\ \A j \in 1 .. Len(wire) - 1 : Tail(wire)[j] = wire[j + 1]
      /\ \A r : Len(Append(<<>>, r)) = 1 /\ Append(<<>>, r)[1] = r
      /\ Len(wire) = 1 => Tail(wire) = <<>>
  BY <1>1, <1>2
<1>n. Len(wire) \in Nat /\ (Len(wire) > 1 => Tail(wire) # <<>>)
  <2>1. wire \in Seq(Op)
    BY <1>1
  <2> QED BY <2>1
<1> HIDE DEF o
<1>5. IdUnderWay'
  <2>1. pc # "id"
    BY <1>0, <1>2 DEF IdUnderWay
  <2>2. CASE pc = "waitid"
    <3>1. wire = <<Id>> /\ replies = <<>>
      BY <1>0, <1>2, <2>2 DEF IdUnderWay
    <3>2. o.op = "id" /\ Len(wire) = 1
      BY <3>1 DEF o, Id
    <3> QED BY <1>2, <1>3, <1>4, <2>2, <3>1, <3>2 DEF IdUnderWay
  <2> QED BY <1>3, <2>1, <2>2 DEF IdUnderWay
<1>6. Idle'
  BY <1>0, <1>1, <1>2, <1>3, TailQuiet DEF Idle, o
<1>7. ASSUME pc = "wait" PROVE ToCome' \/ Arrived'
  <2>0. buffer = <<>> /\ scans > 0 /\ (flash # "none" => scans > base) /\ ToCome
    BY <1>0, <1>2, <1>7 DEF Waiting, Arrived
  <2>1. CASE Len(wire) = 1
    <3>1. o = Dr(scans, TRUE) /\ replies = <<>> /\ (flash = "none" => ir = "SAMPLE")
      BY <1>4, <2>0, <2>1 DEF ToCome
    <3>2. o.op = "dr" /\ o.n = scans /\ o.read
      BY <3>1 DEF Dr
    <3>3. flash # "none" => ir = "EXTEST" /\ latch = scans - 1
      BY <1>0, <1>4, <1>7, <2>0, <2>1, <3>1, ReadInSession DEF Preloaded
    <3>4. wire' = <<>> /\ latch' = scans /\ Len(replies') = 1 /\ replies'[1] = Captured
      BY <1>2, <1>4, <2>1, <3>1, <3>2, <3>3
    <3>5. flash # "none" => Captured = PinsReply(scans - 1)
      BY <3>3 DEF Captured
    <3> QED BY <1>3, <3>4, <3>5 DEF Arrived
  <2>2. CASE Len(wire) > 1
    <3>1. 1 \in 1 .. Len(wire) - 1 /\ ~o.read /\ o.op # "id" /\ replies = <<>>
      BY <1>1, <1>4, <2>0, <2>2 DEF ToCome
    <3>2. wire' # <<>> /\ replies' = <<>>
      <4>1. Tail(wire) # <<>>
        BY <1>n, <2>2
      <4> QED BY <1>2, <3>1, <4>1
    <3>3. wire'[Len(wire')] = Dr(scans, TRUE)
      <4>1. Len(wire') = Len(wire) - 1 /\ wire'[Len(wire) - 1] = wire[Len(wire)]
        BY <1>1, <1>2, <1>4, <2>2
      <4> QED BY <2>0, <4>1 DEF ToCome
    <3>4. \A j \in 1 .. Len(wire') - 1 : ~wire'[j].read /\ wire'[j].op # "id"
      <4>1. \A j \in 1 .. Len(wire') - 1 : j + 1 \in 1 .. Len(wire) - 1 /\ wire'[j] = wire[j + 1]
        BY <1>1, <1>2, <1>4, <2>2
      <4> QED BY <2>0, <4>1 DEF ToCome
    <3>5. ASSUME flash = "none"
          PROVE  IF Len(wire') = 1 THEN ir' = "SAMPLE" ELSE wire'[Len(wire') - 1] = Ir("SAMPLE")
      <4>1. wire[Len(wire) - 1] = Ir("SAMPLE")
        <5>1. Len(wire) # 1
          BY <1>1, <2>2
        <5> QED BY <2>0, <3>5, <5>1 DEF ToCome
      <4>2. CASE Len(wire) = 2
        <5>1. o = Ir("SAMPLE") /\ Len(wire') = 1
          BY <1>2, <1>4, <4>1, <4>2
        <5> QED BY <1>2, <5>1 DEF Ir
      <4>3. CASE Len(wire) > 2
        <5>1. Len(wire') = Len(wire) - 1 /\ Len(wire') # 1
              /\ wire'[Len(wire') - 1] = wire[Len(wire) - 1]
          BY <1>1, <1>2, <1>4, <4>3
        <5> QED BY <4>1, <5>1
      <4>4. Len(wire) = 2 \/ Len(wire) > 2
        <5>1. \A n \in Nat : n > 1 => n = 2 \/ n > 2
          OBVIOUS
        <5> QED BY <1>n, <2>2, <5>1
      <4> QED BY <4>2, <4>3, <4>4
    <3> QED BY <1>3, <3>2, <3>3, <3>4, <3>5 DEF ToCome
  <2>3. Len(wire) = 1 \/ Len(wire) > 1
    <3>1. \A n \in Nat : n > 0 => n = 1 \/ n > 1
      OBVIOUS
    <3> QED BY <1>4, <1>n, <3>1
  <2> QED BY <2>1, <2>2, <2>3
<1>8. Waiting'
  BY <1>0, <1>3, <1>7 DEF Waiting
<1>9. AtMenu'
  BY <1>0, <1>2, <1>3 DEF AtMenu
<1>10. Preloaded'
  <2> SUFFICES ASSUME flash # "none"
               PROVE latch' >= base /\ base > 0 /\ Fresh(wire', base) /\ Fresh(buffer, base)
    BY <1>3 DEF Preloaded
  <2>1. Fresh(wire, base) /\ Fresh(buffer, base) /\ latch >= base /\ base > 0
    BY <1>0 DEF Preloaded
  <2>2. Fresh(Tail(wire), base) /\ (o.op = "dr" => o.n > base)
    BY <1>1, <1>2, <2>1, TailQuiet DEF o
  <2>3. o.n \in Int
    BY <1>2 DEF Op
  <2> QED BY <1>1, <1>2, <2>1, <2>2, <2>3
<1> QED BY <1>5, <1>6, <1>8, <1>9, <1>10

-----------------------------------------------------------------------------
(* Steps of the host *)

\* A scan with a read is sent behind what has no reply.
LEMMA SyncSmooth ==
  ASSUME SizeAssumption, NEW a \in Seq(Op), NEW n \in 0 .. MaxScans, Silent(a),
         wire' = Append(a, Dr(n, TRUE)), replies' = <<>>, scans' = n,
         flash' = "none" => Len(a) > 0 /\ a[Len(a)] = Ir("SAMPLE")
  PROVE  ToCome'
<1> DEFINE w == Append(a, Dr(n, TRUE))
<1>1. /\ w # <<>> /\ w[Len(w)] = Dr(n, TRUE) /\ Len(w) = Len(a) + 1
      /\ \A j \in 1 .. Len(w) - 1 : ~w[j].read /\ w[j].op # "id" /\ w[j] = a[j]
  BY ReadIsLast
<1> HIDE DEF w
<1>2. ASSUME flash' = "none"
      PROVE  IF Len(w) = 1 THEN ir' = "SAMPLE" ELSE w[Len(w) - 1] = Ir("SAMPLE")
  <2>1. Len(w) # 1 /\ Len(w) - 1 \in 1 .. Len(w) - 1 /\ Len(w) - 1 = Len(a)
    BY <1>1, <1>2
  <2> QED BY <1>1, <1>2, <2>1
<1>3. wire' = w
  BY DEF w
<1> QED BY <1>1, <1>2, <1>3 DEF ToCome

\* Without a failure every step leaves the replies where they belong.
LEMMA StepSmooth ==
  ASSUME IInv, Smooth, [Next]_vars
  PROVE  Smooth'
<1> SUFFICES ASSUME faults' = 0
             PROVE  IdUnderWay' /\ Idle' /\ Waiting' /\ AtMenu' /\ Preloaded'
  BY DEF Smooth
<1> USE SizeAssumption
<1>0. /\ TypeOK /\ Rests /\ Asked /\ Ordered
      /\ faults = 0 /\ ~Refused /\ ~IdTimesOut /\ ~ReadTimesOut
      /\ IdUnderWay /\ Idle /\ Waiting /\ AtMenu /\ Preloaded
  <2>1. TypeOK /\ Rests /\ Asked /\ Ordered
    BY DEF IInv
  <2>2. faults = 0 /\ ~Refused /\ ~IdTimesOut /\ ~ReadTimesOut
    BY <2>1, NoFault
  <2> QED BY <2>1, <2>2 DEF Smooth
<1>1. /\ scans \in Nat /\ base \in Nat /\ latch \in Nat /\ base <= scans
      /\ wire \in Seq(Op) /\ buffer \in Seq(Op) /\ replies \in Seq(Reply)
  BY <1>0, QueueTypes DEF TypeOK
<1>2. flash # "none" => pc \in {"burn", "wait", "sleep", "open"}
  BY <1>0 DEF Ordered
<1>q. /\ Silent(<<>>) /\ Silent(<<Rti>>) /\ Silent(<<Rti, Ir("EXTEST")>>)
      /\ \A b : Fresh(<<>>, b) /\ Fresh(<<Rti, Ir("EXTEST")>>, b)
      /\ <<>> \in Seq(Op) /\ <<Rti>> \in Seq(Op) /\ <<Rti, Ir("EXTEST")>> \in Seq(Op)
  BY FewQuiet
<1>c. \A q \in Seq(Op) : q \o <<>> = q /\ <<>> \o q = q
  OBVIOUS
<1>s. scans < MaxScans => scans + 1 \in 0 .. MaxScans
  BY <1>1
\* nothing is sent and nobody waits
<1>i. ASSUME UNCHANGED <<flash, wire, latch, base>>, replies' = <<>>, Silent(wire),
             buffer' = buffer \/ buffer' = <<>>,
             pc' \in {"open", "init", "exit", "failed"}
      PROVE  IdUnderWay' /\ Idle' /\ Waiting' /\ AtMenu' /\ Preloaded'
  BY <1>0, <1>i, <1>q DEF IdUnderWay, Idle, Waiting, AtMenu, Preloaded
<1>3. CASE Open
  BY <1>3, <1>q DEF Open, IdUnderWay, Idle, Waiting, AtMenu, Preloaded
<1>4. CASE ReadCPUID
  <2>1. pc' = "waitid" /\ wire' = wire \o <<Id>> /\ UNCHANGED <<replies, flash>>
    BY <1>0, <1>4 DEF ReadCPUID, Written
  <2>2. wire = <<>> /\ replies = <<>> /\ flash = "none"
    BY <1>0, <1>2, <1>4 DEF ReadCPUID, IdUnderWay, Idle
  <2>3. <<>> \o <<Id>> = <<Id>>
    OBVIOUS
  <2> QED BY <2>1, <2>2, <2>3 DEF IdUnderWay, Idle, Waiting, AtMenu, Preloaded
<1>5. CASE IdReturns
  <2>1. /\ pc' \in {"init", "failed"} /\ replies' = Tail(replies)
        /\ UNCHANGED <<wire, flash, scans, base, latch>> /\ flash = "none"
    BY <1>2, <1>5 DEF IdReturns, target
  <2>2. wire = <<>> /\ Len(replies) = 1
    BY <1>0, <1>5 DEF IdReturns, IdUnderWay
  <2>3. Tail(replies) = <<>>
    BY <1>1, <2>2, TailOfOne
  <2> QED BY <1>q, <2>1, <2>2, <2>3 DEF IdUnderWay, Idle, Waiting, AtMenu, Preloaded
<1>6. CASE InitIdle
  <2>1. pc' = "preload" /\ UNCHANGED <<replies, flash>> /\ flash = "none" /\ replies = <<>>
        /\ Silent(wire)
    BY <1>0, <1>2, <1>6 DEF InitIdle, Idle
  <2>2. (wire' = wire /\ buffer' = <<Rti>>) \/ (wire' = wire \o <<Rti>> /\ buffer' = <<>>)
    BY <1>0, <1>6, FlushSends DEF InitIdle
  <2>3. Silent(wire \o <<Rti>>)
    BY <1>1, <1>q, <2>1, ConcatQuiet
  <2> QED BY <1>q, <2>1, <2>2, <2>3 DEF IdUnderWay, Idle, Waiting, AtMenu, Preloaded
<1>7. CASE Preload
  <2> DEFINE a == wire \o Append(buffer, Ir("SAMPLE"))
             n == scans + 1
  <2>1. /\ pc = "preload" /\ UNCHANGED <<replies, flash, base>> /\ flash = "none"
        /\ scans < MaxScans /\ scans' = n
        /\ SyncScan(buffer \o <<Ir("SAMPLE"), Dr(n, TRUE)>>, size + IrBytes + DrBytes, "menu")
    BY <1>2, <1>7 DEF Preload
  <2>2. /\ pc' = "wait" /\ buffer' = <<>>
        /\ wire' = wire \o (buffer \o <<Ir("SAMPLE"), Dr(n, TRUE)>>)
    BY <1>0, <2>1, FlushSends
  <2>3. replies = <<>> /\ Silent(wire) /\ Silent(buffer)
    BY <1>0, <2>1 DEF Idle
  <2>4. Ir("SAMPLE") \in Op /\ ~Ir("SAMPLE").read /\ Ir("SAMPLE").op = "ir"
    BY OpsTyped DEF Ir, Instruction
  <2>5. n \in 0 .. MaxScans /\ Dr(n, TRUE) \in Op
    BY <1>s, <2>1, OpsTyped
  <2>6. /\ Append(buffer, Ir("SAMPLE")) \in Seq(Op)
        /\ buffer \o <<Ir("SAMPLE"), Dr(n, TRUE)>> = Append(Append(buffer, Ir("SAMPLE")), Dr(n, TRUE))
    BY <1>1, <2>4, <2>5, ConcatFew
  <2>7. a \in Seq(Op) /\ wire' = Append(a, Dr(n, TRUE))
    <3>1. a \in Seq(Op)
      BY <1>1, <2>6, ConcatTyped
    <3>2. wire \o Append(Append(buffer, Ir("SAMPLE")), Dr(n, TRUE)) = Append(a, Dr(n, TRUE))
      BY <1>1, <2>5, <2>6, AppendToConcat
    <3> QED BY <2>2, <2>6, <3>1, <3>2
  <2>8. Silent(Append(buffer, Ir("SAMPLE")))
    <3>1. \A j \in 1 .. Len(Append(buffer, Ir("SAMPLE"))) :
            (j \in 1 .. Len(buffer) /\ Append(buffer, Ir("SAMPLE"))[j] = buffer[j])
            \/ Append(buffer, Ir("SAMPLE"))[j] = Ir("SAMPLE")
      BY <1>1, <2>4
    <3> QED BY <2>3, <2>4, <3>1 DEF Silent
  <2>9. Silent(a)
    BY <1>1, <2>3, <2>6, <2>8, ConcatQuiet
  <2>10. Len(a) > 0 /\ a[Len(a)] = Ir("SAMPLE")
    BY <1>1, <2>4
  <2> HIDE DEF a
  <2>11. ToCome'
    BY <2>1, <2>3, <2>5, <2>7, <2>9, <2>10, SyncSmooth
  <2>12. scans' > 0
    BY <1>1, <2>1
  <2> QED BY <2>1, <2>2, <2>11, <2>12 DEF IdUnderWay, Idle, Waiting, AtMenu, Preloaded
<1>8. CASE Leave
  <2>1. pc' \in {"failed", "exit"} /\ UNCHANGED flash /\ flash = "none"
    BY <1>2, <1>8 DEF Leave
  <2> QED BY <2>1 DEF IdUnderWay, Idle, Waiting, AtMenu, Preloaded
<1>9. CASE BeginMemory \/ BeginNand
  <2>1. /\ pc' = "burn" /\ base' = scans /\ UNCHANGED <<scans, replies, latch>>
        /\ wire = <<>> /\ buffer = <<>> /\ latch = scans /\ scans > 0 /\ replies = <<>>
        /\ flash' # "none"
    BY <1>0, <1>9 DEF BeginMemory, BeginNand, AtMenu, Idle, target
  <2>2. \/ wire' = wire \o <<Rti, Ir("EXTEST")>> /\ buffer' = <<>>
        \/ wire' = wire /\ buffer' = buffer \o <<Rti, Ir("EXTEST")>>
    <3>1. CASE BeginMemory
      BY <1>0, <3>1, FlushSends DEF BeginMemory
    <3>2. CASE BeginNand
      BY <1>0, <3>2, FlushSends DEF BeginNand
    <3> QED BY <1>9, <3>1, <3>2
  <2>3. <<>> \o <<Rti, Ir("EXTEST")>> = <<Rti, Ir("EXTEST")>>
    OBVIOUS
  <2>4. /\ wire' \in {<<>>, <<Rti, Ir("EXTEST")>>}
        /\ buffer' \in {<<>>, <<Rti, Ir("EXTEST")>>}
    BY <2>1, <2>2, <2>3
  <2>5. latch' >= base' /\ base' > 0
    BY <1>1, <2>1
  <2> QED BY <1>q, <2>1, <2>4, <2>5 DEF IdUnderWay, Idle, Waiting, AtMenu, Preloaded
<1>10. CASE ShiftDRNoTdo
  <2> DEFINE n == scans + 1
             q == Append(buffer, Dr(n, FALSE))
  <2>1. /\ pc = "burn" /\ pc' = "burn" /\ scans < MaxScans
        /\ UNCHANGED <<flash, base, replies, latch>>
        /\ Flush(q, size + DrBytes) \/ Hold(q, size + DrBytes)
    BY <1>10 DEF ShiftDRNoTdo, target
  <2>2. n \in 0 .. MaxScans /\ n > base
    BY <1>1, <1>s, <2>1
  <2>3. replies = <<>> /\ Silent(wire) /\ Silent(buffer) /\ flash # "none"
    BY <1>0, <2>1 DEF Idle
  <2>4. q \in Seq(Op) /\ Silent(q) /\ (Fresh(buffer, base) => Fresh(q, base))
    BY <1>1, <2>2, <2>3, ScanQuiet
  <2> HIDE DEF q
  <2>5. /\ Silent(wire \o q)
        /\ Fresh(wire, base) /\ Fresh(buffer, base) => Fresh(wire \o q, base)
    BY <1>1, <2>3, <2>4, ConcatQuiet
  <2>6. (wire' = wire \o q /\ buffer' = <<>>) \/ (wire' = wire /\ buffer' = q)
    BY <1>0, <2>1, FlushSends
  <2>7. Preloaded'
    BY <1>0, <1>q, <2>1, <2>4, <2>5, <2>6 DEF Preloaded
  <2> QED BY <1>q, <2>1, <2>3, <2>4, <2>5, <2>6, <2>7 DEF IdUnderWay, Idle, Waiting, AtMenu
<1>11. CASE ShiftDR
  <2> DEFINE n == scans + 1
             a == wire \o buffer
  <2>1. /\ pc = "burn" /\ scans < MaxScans /\ scans' = n
        /\ UNCHANGED <<flash, base, replies, latch>>
        /\ SyncScan(Append(buffer, Dr(n, TRUE)), size + DrBytes, "burn")
    BY <1>11 DEF ShiftDR, target
  <2>2. n \in 0 .. MaxScans /\ n > base /\ n > 0 /\ Dr(n, TRUE) \in Op
    <3>1. n \in 0 .. MaxScans /\ n > base /\ n > 0
      BY <1>1, <1>s, <2>1
    <3> QED BY <3>1, OpsTyped
  <2>3. pc' = "wait" /\ buffer' = <<>> /\ wire' = wire \o Append(buffer, Dr(n, TRUE))
    BY <1>0, <2>1, FlushSends
  <2>4. a \in Seq(Op) /\ wire' = Append(a, Dr(n, TRUE))
    BY <1>1, <2>2, <2>3, AppendToConcat
  <2>5. replies = <<>> /\ Silent(wire) /\ Silent(buffer)
    BY <1>0, <2>1 DEF Idle
  <2>6. Silent(a) /\ (Fresh(wire, base) /\ Fresh(buffer, base) => Fresh(a, base))
    BY <1>1, <2>5, ConcatQuiet
  <2> HIDE DEF a
  <2>7. flash # "none"
    BY <1>0, <2>1 DEF Idle
  <2>8. ToCome'
    BY <2>1, <2>2, <2>4, <2>5, <2>6, <2>7, SyncSmooth
  <2>9. Preloaded'
    <3>1. Fresh(a, base) => Fresh(Append(a, Dr(n, TRUE)), base)
      BY <1>1, <2>2, <2>4, ScanQuiet
    <3> QED BY <1>0, <1>q, <2>1, <2>3, <2>4, <2>6, <3>1 DEF Preloaded
  <2> QED BY <2>1, <2>2, <2>3, <2>8, <2>9 DEF IdUnderWay, Idle, Waiting, AtMenu
<1>12. CASE ReadReturns
  <2>1. /\ pc = "wait" /\ replies # <<>> /\ replies' = Tail(replies)
        /\ UNCHANGED <<flash, buffer, wire, scans, base, latch>>
        /\ pc' = IF flash = "none" THEN "menu" ELSE "burn"
    BY <1>12 DEF ReadReturns, Resume, target
  <2>2. buffer = <<>> /\ scans > 0 /\ Arrived
    BY <1>0, <2>1 DEF Waiting, ToCome
  <2>3. Tail(replies) = <<>>
    <3>1. Len(replies) = 1
      BY <2>2 DEF Arrived
    <3> QED BY <1>1, <3>1, TailOfOne
  <2> QED BY <1>0, <1>q, <2>1, <2>2, <2>3 DEF Arrived, IdUnderWay, Idle, Waiting, AtMenu, Preloaded
<1>13. CASE NorDone
  <2>1. /\ pc = "burn" /\ pc' = "sleep" /\ UNCHANGED <<flash, base, scans, replies, latch>>
        /\ Flush(buffer, size)
    BY <1>13 DEF NorDone, target
  <2>2. wire' = wire \o buffer /\ buffer' = <<>>
    BY <1>0, <2>1, FlushSends
  <2>3. replies = <<>> /\ Silent(wire) /\ Silent(buffer)
    BY <1>0, <2>1 DEF Idle
  <2>4. /\ Silent(wire \o buffer)
        /\ Fresh(wire, base) /\ Fresh(buffer, base) => Fresh(wire \o buffer, base)
    BY <1>1, <2>3, ConcatQuiet
  <2> QED BY <1>0, <1>q, <2>1, <2>2, <2>3, <2>4 DEF IdUnderWay, Idle, Waiting, AtMenu, Preloaded
<1>14. CASE Wake \/ SessionLeft
  <2>1. /\ pc \in {"sleep", "burn"} /\ pc' = "open"
        /\ UNCHANGED <<flash, buffer, wire, replies, base, latch>>
    BY <1>14 DEF Wake, SessionLeft, target
  <2>2. replies = <<>> /\ Silent(wire)
    BY <1>0, <2>1 DEF Idle
  <2> QED BY <1>i, <2>1, <2>2
<1>15. CASE Quit
  BY <1>15 DEF Quit, IdUnderWay, Idle, Waiting, AtMenu, Preloaded
<1>16. CASE Execute
  BY <1>0, <1>16, ExecuteSmooth
<1>17. CASE UNCHANGED vars
  <2>1. UNCHANGED <<pc, flash, buffer, wire, replies, ir, latch, scans, base>>
    BY <1>17 DEF vars, host, target
  <2> QED BY <1>0, <2>1 DEF IdUnderWay, Idle, Waiting, AtMenu, Preloaded, ToCome, Arrived
<1> QED BY <1>0, <1>3, <1>4, <1>5, <1>6, <1>7, <1>8, <1>9, <1>10, <1>11, <1>12, <1>13, <1>14,
           <1>15, <1>16, <1>17 DEF Next

-----------------------------------------------------------------------------
(* The theorems *)

\* As long as nothing fails, replies are where they belong.
THEOREM SmoothAlways == Spec => []Smooth
<1>1. Init => Smooth
  <2> SUFFICES ASSUME Init PROVE Smooth
    OBVIOUS
  <2>1. Silent(<<>>)
    BY SizeAssumption, FewQuiet
  <2> QED BY <2>1 DEF Init, Smooth, IdUnderWay, Idle, Waiting, AtMenu, Preloaded
<1>2. IInv /\ Smooth /\ [Next]_vars => Smooth'
  BY StepSmooth
<1> QED BY <1>1, <1>2, Invariance, PTL DEF Spec

\* The pins are driven only once this image's InitCell has preloaded them, with any
\* buffer and any number of scans and images.
THEOREM PreloadComesFirst == Spec => []PreloadedFirst
<1>1. IInv /\ Smooth => PreloadedFirst
  <2> SUFFICES ASSUME IInv, Smooth, faults = 0, flash # "none" PROVE latch >= base /\ latch > 0
    BY DEF PreloadedFirst
  <2>1. latch \in Nat /\ base \in Nat
    BY QueueTypes DEF IInv
  <2> QED BY <2>1 DEF Smooth, Preloaded
<1> QED BY <1>1, Invariance, SmoothAlways, PTL

\* A read scan gives what the board answers to the scan before it.
THEOREM ReadsAnswer == Spec => ReadsAnswerScanBefore
<1> DEFINE Answers == pc = "wait" /\ pc' = "burn" /\ faults' = 0 => got' = PinsReply(scans - 1)
<1>1. IInv /\ Smooth /\ [Next]_vars => [Answers]_vars
  <2> SUFFICES ASSUME IInv, Smooth, [Next]_vars, pc = "wait", pc' = "burn", faults' = 0
               PROVE  got' = PinsReply(scans - 1)
    OBVIOUS
  <2>1. faults = 0 /\ ~ReadTimesOut
    BY NoFault DEF IInv
  <2>2. ReadReturns
    BY <2>1 DEF Next, vars, host, Open, ReadCPUID, IdReturns, IdTimesOut, InitIdle, Preload,
                BeginMemory, BeginNand, ShiftDRNoTdo, ShiftDR, Leave, NorDone, Wake,
                SessionLeft, Quit, Execute
  <2>3. replies # <<>> /\ got' = Head(replies) /\ flash # "none"
    BY <2>2 DEF ReadReturns, Resume
  <2>4. Arrived
    BY <2>1, <2>3 DEF Smooth, Waiting, ToCome
  <2>5. replies[1] = PinsReply(scans - 1)
    BY <2>3, <2>4 DEF Arrived
  <2>6. Head(replies) = replies[1]
    BY <2>3 DEF IInv, TypeOK
  <2> QED BY <2>3, <2>5, <2>6
<1> QED BY <1>1, Invariance, SmoothAlways, PTL DEF Spec, ReadsAnswerScanBefore

\* When the NOR programmer wakes, everything asked for has been on the pins.
THEOREM DoneMeansDriven == Spec => NorDoneMeansDriven
<1> DEFINE Driven == pc = "sleep" /\ pc' # "sleep" /\ faults = 0 => latch = scans
<1>1. IInv /\ Smooth /\ [Next]_vars => [Driven]_vars
  <2> SUFFICES ASSUME IInv, Smooth, [Next]_vars, pc = "sleep", pc' # "sleep", faults = 0
               PROVE  latch = scans
    OBVIOUS
  <2>1. Wake
    BY DEF Next, vars, host, Open, ReadCPUID, IdReturns, IdTimesOut, InitIdle, Preload,
           BeginMemory, BeginNand, ShiftDRNoTdo, ShiftDR, Leave, NorDone, ReadReturns,
           ReadTimesOut, SessionLeft, Quit, Execute
  <2>2. wire = <<>> /\ buffer = <<>> /\ (flash # "none" => latch >= base)
    BY <2>1 DEF Wake, Smooth, Idle, Preloaded
  <2>3. flash # "none"
    BY DEF Smooth, Idle
  <2>4. Pending = <<>> /\ Len(Pending) = 0
    BY <2>2 DEF Pending, Dead
  <2>5. scans \in Nat /\ base \in Nat /\ latch \in Nat
    BY QueueTypes DEF IInv
  <2>6. InLine(Pending, ir, scans, base, latch)
    BY <2>2, <2>3, <2>5 DEF IInv, Ordered, Max2
  <2> QED BY <2>4, <2>5, <2>6 DEF InLine
<1> QED BY <1>1, Invariance, SmoothAlways, PTL DEF Spec, NorDoneMeansDriven
=============================================================================
