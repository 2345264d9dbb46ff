----------------------------- MODULE MCInstance -----------------------------
EXTENDS Instance

(* The TLC instance of Instance: its sets are given in the .cfg.           *)
CONSTANTS w1, w2, a, x, f1, f2
=============================================================================
