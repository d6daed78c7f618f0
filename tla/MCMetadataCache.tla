--------------------------- MODULE MCMetadataCache ---------------------------
(* Instance of MetadataCache for TLC. *)
EXTENDS MetadataCache
=============================================================================
