---------------------------- MODULE MCPageSession ----------------------------
(* PageSession for TLC: pages of every kind, seekable or not, marking or not. *)
EXTENDS PageSession

CONSTANTS plain, seeking, marking

ThreeComps == {plain, seeking, marking}
TwoSeek == {seeking, marking}
TwoMark == {plain, marking}
SomeOffsets == {0, 2}
=============================================================================
