-------------------------- MODULE MCServerDelivery --------------------------
(***************************************************************************)
(* Instances of ServerDelivery for TLC.                                    *)
(***************************************************************************)
EXTENDS ServerDelivery, TLC

Symmetry ==
  Permutations(Address) \cup Permutations(Port) \cup Permutations(TopicName)
    \cup Permutations(Message) \cup Permutations(TopicPtr)
    \cup Permutations(ConnPtr)
=============================================================================
