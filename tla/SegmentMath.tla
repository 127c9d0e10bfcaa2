----------------------------- MODULE SegmentMath -----------------------------
(***************************************************************************)
(* Where segments and groups begin and end                                 *)
(* (common/src/chain_view/view.rs): S blocks make a segment, G segments a  *)
(* group, counted from the first block of the chain.                       *)
(***************************************************************************)
EXTENDS Integers

CONSTANT StartingBlock   \* the first block of the chain

ASSUME StartingBlockAssumption == StartingBlock \in Nat

GetSegmentStartBlock(S, block) == StartingBlock + ((block - StartingBlock) \div S) * S
GetSegmentEndBlock(S, block)   == GetSegmentStartBlock(S, block) + (S - 1)
GetGroupStartBlock(S, G, block) ==
    StartingBlock + ((block - StartingBlock) \div (S * G)) * (S * G)
GetGroupEndBlock(S, G, block)   == GetGroupStartBlock(S, G, block) + (S * G - 1)

=============================================================================
