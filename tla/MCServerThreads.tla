-------------------------- MODULE MCServerThreads --------------------------
(***************************************************************************)
(* Instances of ServerThreads for TLC.                                     *)
(***************************************************************************)
EXTENDS ServerThreads, TLC

Symmetry ==
  Permutations(Thread) \cup Permutations(Address) \cup Permutations(TopicName)
    \cup Permutations(TopicPtr) \cup Permutations(ConnPtr)
=============================================================================
