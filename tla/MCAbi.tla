-------------------------------- MODULE MCAbi --------------------------------
(***************************************************************************)
(* Instances of the C side for TLC.                                        *)
(***************************************************************************)
EXTENDS AbiClient, TLC

CONSTANTS b1, b2, b3, b4, s1, s2, s3

ThreeBlocks == {b1, b2, b3}
FourBlocks == {b1, b2, b3, b4}
TwoSlots == {s1, s2}
ThreeSlots == {s1, s2, s3}

\* Addresses and slots are interchangeable.
Interchangeable ==
  {p @@ q : p \in Permutations(Blocks), q \in Permutations(Slots)}
=============================================================================
