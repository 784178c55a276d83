----------------------------- MODULE MCBootstrap -----------------------------
(* Constants of Bootstrap for TLC. *)
EXTENDS Bootstrap

Config(n, v) == [tranches |-> n, validators |-> v]

\* Two tranches of two accounts, and the counts that are refused.
SomeConfigs == {Config(2, 4), Config(2, 3), Config(0, 2)}
=============================================================================
