--------------------------- MODULE MCArchiveExport ---------------------------
(***************************************************************************)
(* ArchiveExport on small instances: the numbers that MaxLives and         *)
(* MaxResults bound are all there is to instantiate.                       *)
(***************************************************************************)
EXTENDS ArchiveExport

=============================================================================
