-------------------------------- MODULE MCCli --------------------------------
(* Cli for TLC: two login methods, so that one may fail before the other.    *)
EXTENDS Cli
=============================================================================
