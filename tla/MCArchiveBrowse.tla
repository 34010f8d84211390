-------------------------- MODULE MCArchiveBrowse --------------------------
(* ArchiveBrowse for TLC: an archive with two entries at its root, one of   *)
(* them a folder without entries, and an archive without entries.          *)
EXTENDS ArchiveBrowse

MCListing == [a \in Archive |-> IF a = "empty" THEN <<>> ELSE <<"root", "root">>]
=============================================================================
