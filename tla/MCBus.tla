-------------------------------- MODULE MCBus --------------------------------
(* Boards with one device of each kind the bus allows, and NAND chips with    *)
(* two and three row address cycles.                                          *)
EXTENDS Bus

Chip(width, type) == [width |-> width, type |-> type]
Small == 0 :> Chip(16, "flash") @@ 1 :> Chip(16, "nWBE") @@ 2 :> Chip(16, "nBE") @@ 4 :> Chip(8, "x8")
MCBoard ==
  "S3C2410" :> (Small @@ 3 :> Chip(32, "nBE"))
  @@ "S3C2440" :> (Small @@ 3 :> Chip(32, "nBE") @@ 5 :> Chip(32, "flash"))
  @@ "S3C2450" :> Small
  @@ "S3C6410" :> (0 :> Chip(16, "flash") @@ 1 :> Chip(8, "x8") @@ 5 :> Chip(8, "x8"))

\* One transfer of each size, aligned or not, on each bank.
MCUnits ==
  [c \in DOMAIN MCBoard |->
    LET banks == DOMAIN MCBoard[c] IN
    {"rh"} \X banks \X {2} \cup {"wh"} \X banks \X {3} \cup {"rb", "wb"} \X banks \X {1}
    \cup {"rw", "ww"} \X (banks \cap {3, 5}) \X {0}
    \cup (IF c = "S3C6410" THEN {} ELSE {"wh"} \X {0} \X {65536})]
\* The banks whose defaults are not the device's, and one with wrong byte enables.
MCSettings ==
  [c \in DOMAIN MCBoard |->
    {<<4, 8, TRUE>>, <<2, 16, FALSE>>}
    \cup (IF c = "S3C6410" THEN {<<1, 8, FALSE>>, <<5, 8, TRUE>>} ELSE {})
    \cup (IF c \in {"S3C2410", "S3C2440"} THEN {<<3, 32, TRUE>>} ELSE {})
    \cup (IF c = "S3C2440" THEN {<<5, 32, FALSE>>} ELSE {})]
MCFollows == {<<"nor", "memory">>, <<"nand", "nor">>, <<"fast", "nor">>}
MCSessions ==
  [c \in DOMAIN MCBoard |-> {"memory", "nor", "fast"} \cup (IF c = "S3C2450" THEN {} ELSE {"nand"})]
MCGeometries ==
  [c \in DOMAIN MCBoard |->
    IF c = "S3C2410" THEN {[large |-> FALSE, pages |-> 8]} ELSE {[large |-> TRUE, pages |-> 4]}]
MCPages ==
  [c \in DOMAIN MCBoard |->
    CASE c = "S3C2410" -> {5} [] c = "S3C2440" -> {2, 3} [] OTHER -> {1}]
\* The functions of the S3C2410 and the S3C2450 have the order of the S3C2440's.
MCMaxCalls == [c \in DOMAIN MCBoard |-> IF c \in {"S3C2410", "S3C2450"} THEN 1 ELSE 2]

\* The S3C6410 with a device on a bank whose select is not deasserted.
CsBoard == "S3C6410" :> (3 :> Chip(8, "x8") @@ 5 :> Chip(8, "x8"))
CsUnits == "S3C6410" :> ({"rb", "wb"} \X {3, 5} \X {0, 1, 2, 3})
CsSettings == "S3C6410" :> {<<3, 8, TRUE>>, <<5, 8, TRUE>>}
=============================================================================
