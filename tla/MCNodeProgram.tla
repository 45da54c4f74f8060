--------------------------- MODULE MCNodeProgram ---------------------------
(* Model values for checking NodeProgram with TLC.                          *)
EXTENDS NodeProgram

CONSTANTS p1, p2, x1, x2, x3, h1, h2
=============================================================================
