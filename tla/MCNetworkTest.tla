--------------------------- MODULE MCNetworkTest ---------------------------
(***************************************************************************)
(* Two to four hosts with one device each, two or three with two devices;  *)
(* devices whose names end with the same number; lists of unequal length;  *)
(* up to two broken devices.                                               *)
(***************************************************************************)
EXTENDS NetworkTest

CONSTANTS h1, h2, h3, h4

MCNumber == [mlx5_0 |-> 0, mlx5_1 |-> 1, mlx5_bond_0 |-> 0]

One == <<"mlx5_0">>
Two == <<"mlx5_0", "mlx5_1">>
Bond == <<"mlx5_0", "mlx5_bond_0">>

\* These hosts, with at most `most' devices broken.
Tests(hosts, devices, most) ==
  LET all == UNION {{hosts[i]} \X Range(devices[hosts[i]]) : i \in 1 .. Len(hosts)}
  IN  {[hosts |-> hosts, devices |-> devices, broken |-> b] :
         b \in {b \in SUBSET all : Cardinality(b) <= most}}

Same(hosts, list) == [h \in Range(hosts) |-> list]

MCClusters ==
  UNION {Tests(<<h1, h2>>, Same(<<h1, h2>>, Two), 2),
         Tests(<<h1, h2>>, Same(<<h1, h2>>, Bond), 2),
         Tests(<<h1, h2, h3>>, (h1 :> Two) @@ (h2 :> One) @@ (h3 :> <<>>), 1),
         Tests(<<h1, h2, h3>>, Same(<<h1, h2, h3>>, Two), 1),
         Tests(<<h1, h2, h3, h4>>, Same(<<h1, h2, h3, h4>>, One), 1),
         {[hosts |-> <<h1, h2, h3, h4>>,
           devices |-> Same(<<h1, h2, h3, h4>>, One),
           broken |-> {<<h1, "mlx5_0">>, <<h3, "mlx5_0">>}]}}

\* The first instance on which the groups change the order.
MCReordered ==
  {[hosts |-> <<h1, h2, h3, h4>>, devices |-> Same(<<h1, h2, h3, h4>>, Two),
    broken |-> {<<h4, "mlx5_0">>}]}

=============================================================================
