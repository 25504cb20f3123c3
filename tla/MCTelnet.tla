------------------------------ MODULE MCTelnet ------------------------------
(* Instances of Telnet. *)
EXTENDS Telnet

\* sin agrees that the client echoes; this client agrees to anything.
Table == [p \in End |-> IF p = "sin" THEN [us |-> {}, him |-> {"ECHO"}]
                        ELSE [us |-> Option, him |-> Option]]

\* A subnegotiation that makes the buffer grow, with a byte to escape.
Carried == {<<"x", "IAC">>}

\* One that is longer than the largest buffer.
Long == {<<"x", "x", "x", "LF">>}

Growing == <<0, 1, 2>>

=============================================================================
