--------------------------- MODULE MCFileManager ---------------------------
(***************************************************************************)
(* Four traces finished by concurrent writers and an archive of two files:  *)
(* the archive overflows with files uploaded, too old or refused.           *)
(***************************************************************************)
EXTENDS FileManager
=============================================================================
