-------------------------- MODULE MCSubscriptions --------------------------
(* Small instances of Subscriptions for TLC. *)
EXTENDS Subscriptions, TLC

CONSTANTS f1, f2, f3, c1, c2, c3

MCBlocks    == {f1, f2, f3}
MCCallbacks == {c1, c2, c3}
MCSymmetry  == Permutations(MCBlocks) \cup Permutations(MCCallbacks)
OnlyNull    == {Null}
AnyGarbage  == MCBlocks \cup {Null}
MCStartIds  == {0}
============================================================================
