---------------------------- MODULE MCInstrument -----------------------------
(* One instrument, its screen and the media task.                          *)
EXTENDS Instrument
=============================================================================
