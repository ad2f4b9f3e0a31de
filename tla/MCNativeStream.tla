--------------------------- MODULE MCNativeStream ---------------------------
(***************************************************************************)
(* Small instances of NativeStream for TLC.                                *)
(***************************************************************************)
EXTENDS NativeStream, TLC
=============================================================================
