----------------------------- MODULE MCSession -----------------------------
(* Two tests: the mode of the second is named by its marker. *)
EXTENDS Session, TLC

CONSTANTS plain, marked, MarkedMode

MCTests == {plain, marked}

MCMarker == (plain :> None) @@ (marked :> MarkedMode)

=============================================================================
