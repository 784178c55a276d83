----------------------------- MODULE MCGenesis -----------------------------
(* Constants of Genesis for TLC. *)
EXTENDS Genesis, MCBootstrap

\* A genesis at once, which a bootstrap of more than a second misses, a second later, and
\* before 1970 if the clock still shows 1; no Altair, Altair from the genesis on, and later.
SomeFlags == {[delay |-> 0, altair |-> 0], [delay |-> 1, altair |-> 2],
              [delay |-> 1, altair |-> NoFork],
              [delay |-> -2, altair |-> NoFork]}
=============================================================================
