----------------------------- MODULE MCGpuStack -----------------------------
(***************************************************************************)
(* Two hosts, two attempts, and the sessions in which steps meet.          *)
(***************************************************************************)
EXTENDS GpuStack, TLC

MCSessions ==
  {{"ofed"}, {"driver", "nouveau"}, {"driver", "fabric"}, {"cuda", "nccl"},
   {"cuda", "driver"}}

NouveauOnly == {{"nouveau"}}

Symmetry == Permutations(Hosts)

=============================================================================
