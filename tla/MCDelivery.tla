------------------------------ MODULE MCDelivery ------------------------------
(***************************************************************************)
(* Small instances of Delivery: model values for hooks and daemons.         *)
(***************************************************************************)
EXTENDS Delivery

CONSTANTS h1, h2, d1, d2

\* Of two prefixes that can tell the lengths 0 and 1, one tells the truth.
ShortAndLong == [h \in Hook |-> IF h = h1 THEN 1 ELSE 3]
AllShort     == [h \in Hook |-> 1]
===============================================================================
