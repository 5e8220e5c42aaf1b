------------------------------ MODULE MCServer ------------------------------
(***************************************************************************)
(* Instances of Server, and of its refinement, for TLC. Heap cells,        *)
(* addresses, ports, topic names and messages are interchangeable model    *)
(* values.                                                                 *)
(***************************************************************************)
EXTENDS ServerRefinement, TLC

Symmetry ==
  Permutations(Address) \cup Permutations(Port) \cup Permutations(TopicName)
    \cup Permutations(Message) \cup Permutations(TopicPtr)
    \cup Permutations(ConnPtr)
=============================================================================
