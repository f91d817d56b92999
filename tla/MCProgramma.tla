----------------------------- MODULE MCProgramma -----------------------------
\* The constants of Programma for TLC: three blocks, so that a new program,
\* the running one and one more fit.
EXTENDS Programma, TLC

CONSTANTS b1, b2, b3

MCBlocks == {b1, b2, b3}
Interchangeable == Permutations(MCBlocks)
MCSizes == {<<0, 1>>, <<1, 0>>, <<1, 1>>, <<2, 1>>, <<3, 2>>}
MCStepNumbers == 0 .. 3
MCRows == {0, 1}

=============================================================================
