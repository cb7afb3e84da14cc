----------------------------- MODULE MCSpiflash -----------------------------
(***************************************************************************)
(* An instance of the driver for TLC: two threads, each with sectors of    *)
(* its own, as two nvol3 volumes have, and a chip erase by either.         *)
(***************************************************************************)
EXTENDS Spiflash, TLC

CONSTANTS t1, t2, b

Write(a, d) == [op |-> "write", addr |-> a, end |-> a + Len(d), data |-> d]
Range(op, from, to) == [op |-> op, addr |-> from, end |-> to, data |-> <<>>]

\* Cells of one bit: {} is 0, {b} is 1.  Sectors 0 and 1 are t1's, 2 is t2's.
SomeRequests ==
    t1 :> {[op |-> "init", addr |-> 0, end |-> 0, data |-> <<>>],
           Write(1, <<{}, {}, {b}>>), Range("erase", 0, 4)}
 @@ t2 :> {Write(4, <<{}>>), Range("chipErase", 0, 0),
           Range("read", 4, 5), Range("readSfdp", 0, 1),
           Range("writeDisable", 0, 0)}
=============================================================================
