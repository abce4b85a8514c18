------------------------------ MODULE MCProxy ------------------------------
(* A small instance of Proxy: one price of each kind. *)
EXTENDS Proxy

\* A price per token: usage may cost less or more than the estimate.
TokenPrice == [estimate |-> 1, idle |-> 0, final |-> {0, 1, 2}]

\* A price per request quotes the same amount whatever was used.
RequestPrice == [estimate |-> 1, idle |-> 1, final |-> {1}]

FreePrice == [estimate |-> 0, idle |-> 0, final |-> {0}]

AllPrices == {TokenPrice, RequestPrice, FreePrice}
=============================================================================
