---------------------------- MODULE MCStartLimit ----------------------------
\* Small instances of StartLimit.
EXTENDS StartLimit
=============================================================================
