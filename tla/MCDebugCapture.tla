--------------------------- MODULE MCDebugCapture ---------------------------
(* Two captures, one of them of a user.                                    *)
EXTENDS DebugCapture
=============================================================================
