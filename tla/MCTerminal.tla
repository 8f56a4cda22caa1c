----------------------------- MODULE MCTerminal ----------------------------
(***************************************************************************)
(* TLC instance of Terminal.                                               *)
(***************************************************************************)
EXTENDS Terminal

MCPrompt == <<">">>
MCQuestion == <<"?">>
MCBanner == <<NL, "o", NL, NL>>
MCOutputs == {<<>>, <<"o">>, <<"o", NL>>}
=============================================================================
