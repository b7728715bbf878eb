---------------------------- MODULE MCPageTable ----------------------------
(***************************************************************************)
(* Instantiates PageTable with an x86_64 geometry shrunk to four entries  *)
(* per table: four levels, 256 virtual pages, 32 physical frames.  The    *)
(* domain builder leaves 7 table frames at pfn 1 (L4, L3, L2 and four     *)
(* L1s), mapping pages 0..15, so arch_init_mm maps 16..31 with node       *)
(* frames taken from pfn 11 on.  Thread stacks are built at pages 64..69, *)
(* under a root slot that is empty at boot.                               *)
(***************************************************************************)
EXTENDS PageTable

\* a pfn -> mfn table that is not the identity, so that any confusion of
\* the two numberings shows
MCP2M == [p \in 0 .. 31 |-> 32 - p]

\* thread stack range: crosses an L1 boundary (68) and a batch boundary
StackBuild    == [kind |-> "build",    start |-> 64, end |-> 70]
StackDemolish == [kind |-> "demolish", start |-> 64, end |-> 70]
StackProtect  == [kind |-> "protect",  start |-> 64, end |-> 70]

\* single-page calls: on the 1:1 page of a frame that arch_init_mm makes a
\* page-table node (12), and on that of a free frame a stack build may take (21)
SingleCalls ==
  {[kind |-> k, va |-> v] : k \in {"unmap", "remap", "clear"}, v \in {12, 21}}

\* a second thread stack, disjoint from the first, under the same L2 node
OtherStackBuild == [kind |-> "build", start |-> 72, end |-> 75]

BuildRequests    == {StackBuild} \cup SingleCalls
AllRequests      == {StackBuild, StackDemolish, StackProtect} \cup SingleCalls
MulticallRequests == {StackBuild, StackDemolish, StackProtect}
TwoStackRequests == {StackBuild, OtherStackBuild}

=============================================================================
