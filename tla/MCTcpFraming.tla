---------------------------- MODULE MCTcpFraming ----------------------------
(* Bits for bytes, and lengths of two bits. *)
EXTENDS TcpFraming

MCToBytes == [n \in 0..3 |-> <<n \div 2, n % 2>>]
MCFromBytes == [b \in [1..2 -> {0, 1}] |-> 2 * b[1] + b[2]]
MCMsgs == {<<1>>, <<0, 1>>, <<1, 1, 0>>}
=============================================================================
