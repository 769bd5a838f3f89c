------------------------------ MODULE BusStorage ------------------------------
(***************************************************************************)
(* What a user of the memory menu, the NOR driver and the MTD layer count  *)
(* on: one request at a time is carried out, a read answers what is        *)
(* stored, a write, a programming and an erasure change the places they    *)
(* name and no other.  A request made with the wrong idea of a bank may do *)
(* anything to that bank and to that bank only.                            *)
(*                                                                         *)
(* A request has a kind, the places it is about, the data for them, and    *)
(* what the answer starts and ends with around what is read.               *)
(***************************************************************************)
EXTENDS Integers, Sequences

CONSTANTS Places, Blank, Lost, NoRequest

VARIABLES store, request, answer
vars == <<store, request, answer>>

Programmed(old, new) ==
  CASE new \in {Blank, old} -> old [] old = Blank -> new [] OTHER -> Lost
Applied(r) ==
  [p \in Places |->
    IF \E i \in DOMAIN r.where : r.where[i] = p
    THEN LET i == CHOOSE i \in DOMAIN r.where : r.where[i] = p IN
         CASE r.kind = "write" -> r.data[i]
           [] r.kind = "program" -> Programmed(store[p], r.data[i])
           [] r.kind = "erase" -> Blank
           [] OTHER -> store[p]
    ELSE store[p]]

Init == request = NoRequest
Ask == request = NoRequest /\ request' # NoRequest /\ UNCHANGED store
Carry ==
  /\ request # NoRequest
  /\ UNCHANGED request
  /\ store' # store
  /\ IF request.kind = "guess"
     THEN \A p \in Places : p[1] = request.bank \/ store'[p] = store[p]
     ELSE store' = Applied(request)
Reply ==
  /\ request # NoRequest
  /\ request' = NoRequest
  /\ UNCHANGED store
  /\ \/ request.kind = "guess"
     \/ /\ store = Applied(request)
        /\ answer' = IF request.kind = "read" THEN [i \in DOMAIN request.where |-> store[request.where[i]]]
                     ELSE request.reply
\* The caller has taken the answer.
Forget == request = NoRequest /\ UNCHANGED <<store, request>>
Next == Ask \/ Carry \/ Reply \/ Forget
Spec == Init /\ [][Next]_vars
=============================================================================
