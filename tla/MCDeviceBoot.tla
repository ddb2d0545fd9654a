---------------------------- MODULE MCDeviceBoot -----------------------------
(* Two configurations that differ in their mode only, and a third; one     *)
(* capture, which may be archived again; a series of two restarts.         *)
EXTENDS DeviceBoot

Home == [settings |-> "home", mode |-> "station"]
Office == [settings |-> "office", mode |-> "station"]
Hotspot == [settings |-> "home", mode |-> "ap"]
MCConfigs == {Home, Office, Hotspot}
=============================================================================
