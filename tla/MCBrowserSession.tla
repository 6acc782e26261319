--------------------------- MODULE MCBrowserSession ---------------------------
(* The bounds of BrowserSession are numbers, which the configuration gives. *)
EXTENDS BrowserSession
===============================================================================
