-------------------------- MODULE MCCameraBaseline ---------------------------
(* A short baseline: the camera may starve, a JPEG may still be under way  *)
(* when the next is due, and every preview slot is used again.             *)
EXTENDS CameraBaseline
=============================================================================
