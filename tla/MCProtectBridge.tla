--------------------------- MODULE MCProtectBridge ---------------------------
(* Model-checking instance of ProtectBridge.                                *)
EXTENDS ProtectBridge
=============================================================================
