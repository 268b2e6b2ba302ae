-------------------------- MODULE MCModelDownload --------------------------
(* Two processes, an archive of one block and one file of two. *)
EXTENDS ModelDownload

MCSize == <<1, 2>>
=============================================================================
