--------------------------- MODULE MCLlmService ---------------------------
(* Instances of LlmService for TLC.                                        *)
EXTENDS LlmService

CONSTANTS t1, t2, t3
=============================================================================
