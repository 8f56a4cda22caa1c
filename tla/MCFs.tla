-------------------------------- MODULE MCFs -------------------------------
(***************************************************************************)
(* TLC instance of Fs: a content of one sector and one of two, and a long  *)
(* name that is cut to the name of another file.                           *)
(***************************************************************************)
EXTENDS Fs

CONSTANTS x, y, l, m
MCLength == [c \in {x, y} |-> IF c = x THEN 1 ELSE 2]
MCCut == [c \in {l} |-> m]
=============================================================================
