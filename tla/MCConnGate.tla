----------------------------- MODULE MCConnGate -----------------------------
(* ConnGate for TLC: five connections, three of them from one address. *)
EXTENDS ConnGate

CONSTANTS a1, a2, a3, b1, b2, ipA, ipB

MCConn == {a1, a2, a3, b1, b2}
MCIp == {ipA, ipB}
mcip == [c \in MCConn |-> IF c \in {a1, a2, a3} THEN ipA ELSE ipB]
=============================================================================
