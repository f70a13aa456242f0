------------------------ MODULE MCCentralDispatchLive ------------------------
(* CentralDispatch and its history with fairness, for liveness: one target    *)
(* and the three attempts of the code.                                        *)
EXTENDS DispatchHistory, TLC

CONSTANTS d1, l1

OneDevice == {d1}
OneLoop == {l1}
=============================================================================
