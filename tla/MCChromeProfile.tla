--------------------------- MODULE MCChromeProfile ---------------------------
(* Small instances of the control of the user's Chrome.                    *)
EXTENDS ChromeProfile, TLC
=============================================================================
