------------------------------ MODULE MCHbctrl ------------------------------
(* Instances of Hbctrl for TLC.                                            *)
EXTENDS Hbctrl
CONSTANTS h1, h2
ThreeOrOne == <<3, 1>>
TwoOrOne == <<2, 1>>
One == <<1>>
=============================================================================
