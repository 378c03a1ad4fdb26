---------------------------- MODULE MCGitClient -----------------------------
(***************************************************************************)
(* An instance of GitClient for TLC: two files beside a directory that     *)
(* holds a third.                                                          *)
(***************************************************************************)
EXTENDS GitClient, TLC

CONSTANTS f1, f2, f3, d0, d1

InDirs  == (f1 :> d0 @@ f2 :> d1 @@ f3 :> d1)
Parents == (d1 :> d0)
=============================================================================
