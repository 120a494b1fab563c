--------------------------- MODULE MC_UploadStore ----------------------------
(* Instance of UploadStore for TLC: the constants are model values.           *)
EXTENDS UploadStore
=============================================================================
