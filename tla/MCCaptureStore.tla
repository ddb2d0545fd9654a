---------------------------- MODULE MCCaptureStore ----------------------------
(* Two captures under way at once, of a device that may restart.           *)
EXTENDS CaptureStore
=============================================================================
