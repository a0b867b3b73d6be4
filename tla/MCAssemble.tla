----------------------------- MODULE MCAssemble -----------------------------
(***************************************************************************)
(* AssembleDisks for TLC: a RAID5 of three disks, listed in slot order on  *)
(* a kernel that asks the freshest superblock.                             *)
(***************************************************************************)
EXTENDS AssembleDisks

Listed == <<0, 1, 2>>
=============================================================================
