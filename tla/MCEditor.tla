------------------------------ MODULE MCEditor ------------------------------
EXTENDS Editor

CONSTANT MaxBlock

Blocks == 1..MaxBlock
Htmls == [tag : {"p", "ul"}, text : Seq(Nat)]
=============================================================================
