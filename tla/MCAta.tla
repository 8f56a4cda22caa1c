------------------------------- MODULE MCAta -------------------------------
(***************************************************************************)
(* TLC instance of Ata.                                                    *)
(***************************************************************************)
EXTENDS Ata
=============================================================================
