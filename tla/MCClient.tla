------------------------------ MODULE MCClient ------------------------------
(* Small instances of Client for TLC. *)
EXTENDS Client, TLC

CONSTANTS q, s, t

MCFuture == {q}
MCStreams == {s, t}
MCOneStream == {s}
AnyError == {"object", "other"}
GoodError == {"object"}

\* The streams are interchangeable (not used with temporal properties).
StreamSymmetry == Permutations(MCStreams)
=============================================================================
