--------------------------- MODULE MCBrowserSearch ---------------------------
(* Instances of BrowserSearch for TLC: the constants are set in the cfg. *)
EXTENDS BrowserSearch
=============================================================================
