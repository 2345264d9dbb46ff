----------------------------- MODULE MCPresence -----------------------------
EXTENDS Presence, TLC

CONSTANTS alice, bob, t1, t2, b1

OneTabEach == (t1 :> alice) @@ (t2 :> bob)
=============================================================================
