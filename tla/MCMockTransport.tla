---------------------------- MODULE MCMockTransport -------------------------
(* Two polls and a listener over good and malformed items.                 *)
EXTENDS MockTransport

CONSTANTS p1, p2, l1

items == <<"good", "bad", "good">>
=============================================================================
