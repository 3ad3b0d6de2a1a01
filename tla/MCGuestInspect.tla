---------------------------- MODULE MCGuestInspect ----------------------------
(***************************************************************************)
(* Instance of GuestInspect for TLC: 3 units of low RAM, one of hole, two   *)
(* of high RAM, in three regions that two CH processes map at each other's *)
(* addresses; two CPUs, the second in the last region.                     *)
(***************************************************************************)
EXTENDS GuestInspect

Offsets == [i \in 1 .. 3 |-> <<0, 3, 4>>[i]]
Sizes   == [i \in 1 .. 3 |-> <<3, 1, 1>>[i]]
Places  == [i \in 1 .. 3 |-> <<0, 4, 5>>[i]]
Addresses == [b \in 1 .. 2 |-> IF b = 1 THEN <<10, 20, 30>> ELSE <<10, 30, 20>>]
Areas   == [c \in 0 .. 1 |-> IF c = 0 THEN 4 ELSE 5]

\* Kernels without and with CONFIG_NUMA.  Behind the table of the first other
\* data and a null pointer are read; of the second the last name is not read.
KernelOf(numa, tail) ==
    [zone |-> <<"nr_free_pages", "nr_zspages">>, numa |-> numa,
     node |-> <<"nr_inactive_anon", "nr_active_anon">>,
     event |-> <<"pgpgin", "oom_kill">>, tail |-> tail]
TwoKernels == {KernelOf(<<>>, <<"junk", "NULL">>),
               KernelOf(<<"numa_hit", "numa_miss", "numa_local">>, <<>>)}
===============================================================================
