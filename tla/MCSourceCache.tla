---------------------------- MODULE MCSourceCache ----------------------------
(***************************************************************************)
(* Instances of SourceCache for TLC: two architectures share one source.   *)
(***************************************************************************)
EXTENDS SourceCache

CONSTANTS x86_64, aarch64
=============================================================================
