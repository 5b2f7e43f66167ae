--------------------------- MODULE MCMessageChain ---------------------------
(* MessageChain on small instances.                                        *)
EXTENDS MessageChain

\* Somebody is on the path of the first connection, or nobody is.
FirstTapped == [c \in Conn |-> IF c = 1 THEN 1 ELSE 0]
NoneTapped == [c \in Conn |-> 0]
=============================================================================
