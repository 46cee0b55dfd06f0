---------------------------- MODULE MCBrowserPool ----------------------------
(* BrowserPool for TLC. *)
EXTENDS BrowserPool, TLC

CONSTANTS r1, r2

TwoRenders == {r1, r2}
OneRender == {r1}
OneUser == {<<r1, 0>>}
FourUsers == {<<r1, 0>>, <<r1, 1>>, <<r2, 0>>, <<r2, 1>>}
=============================================================================
