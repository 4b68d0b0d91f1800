--------------------------- MODULE MCScraplingBridge ---------------------------
(* Small instances of the Scrapling bridge for model checking.             *)
EXTENDS ScraplingBridge
=============================================================================
