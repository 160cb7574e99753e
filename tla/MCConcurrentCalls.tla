-------------------------- MODULE MCConcurrentCalls --------------------------
(* Which call asks for what; calls that ask for the same are alike.          *)
EXTENDS ConcurrentCalls, TLC

CONSTANTS accept, cancel, return1, return2, return3, order1, order2

Returns == {return1, return2, return3}
Orders  == {order1, order2}

Asked == [c \in Calls |-> CASE c = accept    -> "TransferAccept"
                            [] c = cancel    -> "TransferCancel"
                            [] c \in Returns -> "TransactionCancel"
                            [] c \in Orders  -> "OrderCreate"]

Alike == Permutations(Returns) \cup Permutations(Orders)
=============================================================================
