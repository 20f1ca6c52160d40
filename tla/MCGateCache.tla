---------------------------- MODULE MCGateCache ----------------------------
(* A gate that passes some trees with one ignored file only. *)
EXTENDS GateCache
CONSTANTS a, b, c, x, y, g, h
MCCode    == {a, b, c}
MCIgnored == {x, y}
MCCommand == {g, h}
MCGreen   == {<<a, x, g>>, <<b, x, g>>, <<b, y, g>>, <<a, x, h>>, <<c, y, h>>}
=============================================================================
