------------------------------ MODULE MCCheckPage ------------------------------
(***************************************************************************)
(* An instance of CheckPage for TLC: one tab, the default area and a       *)
(* cabinet whose mode is "inventory".                                      *)
(***************************************************************************)
EXTENDS CheckPage

CONSTANTS desk, cabinet, t1

TheAreas   == {desk, cabinet}
Cabinets   == {cabinet}
================================================================================
