------------------------- MODULE MCModerationOutbox -------------------------
(* The instance of ModerationOutbox for TLC is all in the cfg.             *)
EXTENDS ModerationOutbox
=============================================================================
