------------------------------ MODULE MCWidget ------------------------------
(* Two places for contexts: the old and the new one, at times the same.    *)
EXTENDS Widget, TLC

CONSTANTS c1, c2

TwoContexts == {c1, c2}

=============================================================================
