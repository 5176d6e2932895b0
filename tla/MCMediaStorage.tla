--------------------------- MODULE MCMediaStorage ---------------------------
(***************************************************************************)
(* Small instances of the media storage.                                   *)
(***************************************************************************)
EXTENDS MediaStorage
=============================================================================
