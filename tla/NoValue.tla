------------------------------- MODULE NoValue -------------------------------
(***************************************************************************)
(* Python's None, for the modules that read the market.                    *)
(***************************************************************************)
CONSTANT None
=============================================================================
