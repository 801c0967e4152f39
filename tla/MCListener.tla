------------------------------- MODULE MCListener -------------------------------
(* Two contacts; the frame of each comes twice, once behind a badly padded one. *)
EXTENDS Listener

MCBook == <<"ann", "bob">>
MCVerified == {"bob"}
A1 == [from |-> "ann", n |-> 1, named |-> FALSE, padded |-> TRUE]
B1 == [from |-> "bob", n |-> 1, named |-> TRUE, padded |-> TRUE]
Bad == [from |-> "ann", n |-> 2, named |-> FALSE, padded |-> FALSE]
MCCarries == [c \in {"c1", "c2", "c3"} |->
                 CASE c = "c1" -> <<B1>> [] c = "c2" -> <<A1, B1>> [] c = "c3" -> <<Bad, A1>>]
============================================================================
