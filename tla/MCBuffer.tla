------------------------------ MODULE MCBuffer ------------------------------
(* Buffer for TLC: every message of one to MaxLen bytes.                     *)
EXTENDS Buffer

CONSTANT MaxLen

MCMessages == UNION {[1 .. n -> Bytes] : n \in 1 .. MaxLen}

=============================================================================
