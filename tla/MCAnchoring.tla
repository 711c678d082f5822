----------------------------- MODULE MCAnchoring ----------------------------
(* Small instances of Anchoring for TLC. *)
EXTENDS Anchoring

MCBoth == <<"tsa", "rekor">>
MCOne == <<"tsa">>
MCLocks == 1..4
=============================================================================
