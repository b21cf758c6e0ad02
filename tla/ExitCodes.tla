----------------------------- MODULE ExitCodes ------------------------------
(***************************************************************************)
(* exitcode.h: what a function that is run by fork_function() or daemon-   *)
(* ize_function() may return.                                              *)
(***************************************************************************)
EXTENDS Integers

CONSTANT Codes    \* codes other than 0 that the functions may return

ASSUME CodesAssumption == Codes \subseteq Int \ {0}

EXIT_FAILURE == 1
EXIT_CHDIR == 200
EXIT_EXEC == 203
EXIT_CHROOT == 210
EXIT_GROUP == 216
EXIT_USER == 217
=============================================================================
