------------------------------ MODULE MCTermDriver ------------------------------
(* Instance of TermDriver for TLC.                                          *)
EXTENDS TermDriver

CONSTANTS a, b   \* characters
==============================================================================
