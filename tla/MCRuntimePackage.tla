-------------------------- MODULE MCRuntimePackage --------------------------
(***************************************************************************)
(* Instance of RuntimePackage for TLC: two commits, two sandboxer releases *)
(* of which one was built by a compiler that is not on the host, an envd   *)
(* left by an older recipe and compiler.  A development sandbox-init links *)
(* what the newer release links, so its notices do not tell them apart.    *)
(***************************************************************************)
EXTENDS RuntimePackage

CONSTANTS c1, c2, r1, r2

Compilers == [r \in {r1, r2} |-> IF r = r1 THEN "go1.24" ELSE "go1.25"]
Linked    == [v \in {c1, c2, r1, r2, "dev", "2026.22", "2026.10"} |->
                 CASE v \in {c1, c2, r1} -> {"m1"}
                   [] v \in {r2, "dev"}  -> {"m1", "m2"}
                   [] OTHER              -> {"m3"}]
OldEnvd   == {Binary("envd", "2026.10", TRUE, "go1.23")}
=============================================================================
