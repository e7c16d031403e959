--------------------------- MODULE MCDownloadSource ---------------------------
(***************************************************************************)
(* Tracker listings for the model checker: all of up to three URLs.        *)
(***************************************************************************)
EXTENDS DownloadSource

SomeUrls == {"", "udp1", "udp2", "http", "wss"}

ShortListings == UNION {[1 .. n -> SomeUrls] : n \in 0 .. 3}
=============================================================================
