--------------------------- MODULE MCLoginSessions --------------------------
(* Two sessions, on one terminal or without. *)
EXTENDS LoginSessions, TLC

CONSTANTS s1, s2, u1, u2, tty, address

TwoSessions == {s1, s2}
TwoUsers == {u1, u2}
OneTty == {tty}
OneAddress == {address}
Alike == Permutations(TwoSessions) \cup Permutations(TwoUsers)

=============================================================================
