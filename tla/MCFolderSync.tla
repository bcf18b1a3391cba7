--------------------------- MODULE MCFolderSync ----------------------------
(* FolderSync on a small instance: a folder that starts with one message   *)
(* less than Mail has, and hands out a few UIDs more.                      *)
EXTENDS FolderSync

CONSTANTS m1, m2, m3
=============================================================================
