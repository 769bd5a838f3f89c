------------------------------- MODULE NandChip -------------------------------
(***************************************************************************)
(* A NAND chip as nand_base.cpp uses one: what it does on a command, an    *)
(* address and a data cycle, on a read pulse, and when its work is done.   *)
(* It takes addresses of as many cycles as its size asks for, works on one *)
(* job at a time, and answers what it was not properly asked with Junk.    *)
(***************************************************************************)
EXTENDS NandCommand, SequencesExt

Junk == -1
NANDBANK == 8           \* where the pages are, after the memory banks
Ready == 192            \* the status of an idle chip that did not fail
Busy == 128
Ids == << 236, 118, 165 >>

PageSize(g) == oobblock(g) + oobsize
Columns(g) == 0 .. PageSize(g) - 1
ColumnCycles(g) == IF g.large THEN 2 ELSE 1
RowCycles(g) == IF g.pages > RADIX * RADIX THEN 3 ELSE 2
PagePlace(page, column) == <<NANDBANK, page, column>>

NewChip == [mode |-> "idle", area |-> 0, addr |-> <<>>, page |-> 0, pos |-> 0,
            reg |-> <<>>, busy |-> FALSE, job |-> "none"]
Confused(s) == [s EXCEPT !.mode = "confused", !.addr = <<>>]

\* The page an address with that many column cycles names, and the column.
Number(digits) == FoldLeft(LAMBDA n, d : n * RADIX + d, 0, Reverse(digits))
PageOf(g, s, columns) == Number(SubSeq(s.addr, columns + 1, Len(s.addr))) % g.pages
ColumnOf(g, s) ==
  IF g.large THEN Number(SubSeq(s.addr, 1, 2)) ELSE s.area + s.addr[1]
Addressed(g, s, mode, columns) == s.mode = mode /\ Len(s.addr) = columns + RowCycles(g)
Located(g, s) == [s EXCEPT !.page = PageOf(g, s, ColumnCycles(g)), !.pos = ColumnOf(g, s)]
Start(s, job) == [s EXCEPT !.busy = TRUE, !.job = job, !.mode = job, !.addr = <<>>]

Command(g, s, c) ==
  LET Await(mode, area) == [s EXCEPT !.mode = mode, !.area = area, !.addr = <<>>] IN
  CASE c = RESET -> Start(NewChip, "reset")
    [] c = STATUS -> [s EXCEPT !.mode = "status"]
    [] s.busy -> Confused(s)
    [] c = READ0 -> Await("read", 0)
    [] c = READ1 /\ ~g.large -> Await("read", RADIX)
    [] c = READOOB /\ ~g.large -> Await("read", oobblock(g))
    [] c = READSTART /\ g.large /\ Addressed(g, s, "read", 2) -> Start(Located(g, s), "load")
    [] c = SEQIN -> Await("seqin", s.area)
    [] c = PAGEPROG /\ s.mode = "data" -> Start(s, "program")
    [] c = ERASE1 -> Await("erase1", 0)
    [] c = ERASE2 /\ Addressed(g, s, "erase1", 0) -> Start([s EXCEPT !.page = PageOf(g, s, 0)], "erase")
    [] c = READID -> Await("id", 0)
    [] OTHER -> Confused(s)

AddressCycle(g, s, a) ==
  LET t == [s EXCEPT !.addr = Append(@, a)] IN
  CASE s.busy -> Confused(s)
    [] s.mode = "read" ->
         IF ~g.large /\ Addressed(g, t, "read", 1) THEN Start(Located(g, t), "load") ELSE t
    [] s.mode \in {"seqin", "erase1"} -> t
    [] s.mode = "id" -> [t EXCEPT !.mode = "ids", !.pos = 0]
    [] OTHER -> Confused(s)

DataIn(g, s, byte) ==
  LET open == IF Addressed(g, s, "seqin", ColumnCycles(g))
              THEN [Located(g, s) EXCEPT !.mode = "data", !.reg = [c \in Columns(g) |-> Blank]]
              ELSE s
  IN IF ~s.busy /\ open.mode = "data" /\ open.pos \in Columns(g)
     THEN [open EXCEPT !.reg[open.pos] = byte, !.pos = @ + 1]
     ELSE Confused(s)

DataOut(g, s) ==
  CASE s.mode = "status" -> IF s.busy THEN Busy ELSE Ready
    [] s.mode = "load" /\ ~s.busy /\ s.pos \in Columns(g) -> s.reg[s.pos]
    [] s.mode = "ids" /\ s.pos < Len(Ids) -> Ids[s.pos + 1]
    [] OTHER -> Junk
\* The end of a read pulse; after its last byte a small page is followed by the next.
ReadDone(g, s) ==
  IF s.mode \notin {"load", "ids"} \/ s.busy THEN s
  ELSE IF s.mode = "load" /\ ~g.large /\ s.pos + 1 = PageSize(g)
       THEN [Start(s, "load") EXCEPT !.page = (@ + 1) % g.pages, !.pos = s.area]
       ELSE [s EXCEPT !.pos = @ + 1]

-----------------------------------------------------------------------------
(* The job of a busy chip on what is stored.  Programming clears bits: a     *)
(* byte that was not blank is lost unless the same byte is written.          *)

Programmed(old, new) ==
  CASE new \in {Blank, old} -> old [] old = Blank -> new [] OTHER -> Junk
Stored(g, s, store) ==
  [p \in DOMAIN store |->
    IF p[1] # NANDBANK \/ p[3] \notin Columns(g) THEN store[p]
    ELSE CASE s.job = "program" /\ p[2] = s.page -> Programmed(store[p], s.reg[p[3]])
           [] s.job = "erase" /\ p[2] \div PagesPerBlock = s.page \div PagesPerBlock -> Blank
           [] OTHER -> store[p]]
JobDone(g, s, store) ==
  [s EXCEPT !.busy = FALSE, !.job = "none",
            !.mode = IF @ = "load" \/ @ = "status" THEN @ ELSE "idle",
            !.reg = IF s.job = "load" THEN [c \in Columns(g) |-> store[PagePlace(s.page, c)]] ELSE <<>>,
            !.area = IF s.area = RADIX THEN 0 ELSE @]
=============================================================================
