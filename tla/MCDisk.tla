-------------------------------- MODULE MCDisk --------------------------------
(***************************************************************************)
(* Instances of DiskFs for TLC.                                            *)
(***************************************************************************)
EXTENDS DiskFs

\* An empty file, and files of one and two sectors.
Sizes == {<<>>, <<1>>, <<2, 3>>}
=============================================================================
