------------------------------ MODULE MC_Routes ------------------------------
(* Two loads by either route, of one URL or of two: which load asks for     *)
(* which is an initial choice.                                              *)
EXTENDS BrowserRoutes

CONSTANTS l1, l2, u1, u2

TwoLoaders == {l1, l2}
TwoUrls    == {u1, u2}
==============================================================================
