---------------------------- MODULE MCEventLoop ----------------------------
(***************************************************************************)
(* EventLoop for TLC.  Of the groups the presets of ConfigManager.kt lead  *)
(* to: a fake part with an out-of-band one at the same fixed position, and *)
(* a disordered part at the host name.  A request of two bytes may come in *)
(* one or two chunks; the kernel takes one byte at a time, so that a chunk *)
(* of three bytes is sent in up to three pieces.                           *)
(***************************************************************************)
EXTENDS EventLoop

MCConfigs ==
    {<<[pos |-> 1, at |-> "abs", m |-> "FAKE"], [pos |-> 1, at |-> "abs", m |-> "DISOOB"]>>,
     <<[pos |-> 1, at |-> "sni", m |-> "DISORDER"]>>}
============================================================================
