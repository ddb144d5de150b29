---------------------------- MODULE MCMorselRun -----------------------------
(***************************************************************************)
(* Queries of two and three morsels, some of them empty, with and without a *)
(* LIMIT, on up to two pool workers beside the submitter.                  *)
(***************************************************************************)
EXTENDS MorselRun

MCShapes == [s \in Submitters |-> {<<1, 0, 2>>, <<2, 1>>, <<1, 1, 1>>}]
MCQuotas == {1, 2, NoQuota}
Symmetry == Permutations(Threads)
=============================================================================
