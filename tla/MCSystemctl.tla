----------------------------- MODULE MCSystemctl ----------------------------
(***************************************************************************)
(* Instances of Systemctl for TLC.                                         *)
(***************************************************************************)
EXTENDS Systemctl, TLC

AllCommands == Asking \cup AnyOf \cup
    {"restart", "reload", "reload-or-restart", "reload-or-try-restart", "enable", "disable", "show"}

UserSymmetry == Permutations(Users)
=============================================================================
