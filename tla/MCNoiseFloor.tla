---------------------------- MODULE MCNoiseFloor ----------------------------
(* The constants of NoiseFloor that a .cfg file cannot write: the levels of *)
(* Config.h and Boards.h, and RSSI readings on each side of them.           *)
EXTENDS NoiseFloor

RecalLimitDb == -83
GdThresholdDb == -109
GdLimitDb == -89
UnsampledDb == -292

(* Quiet; a step up that is still noise; interference the V4 board's limit    *)
(* separates; weak interference; interference too strong to recalibrate for. *)
Rssi == {-120, -112, -100, -85, -60}
=============================================================================
