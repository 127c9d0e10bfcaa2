-------------------------------- MODULE Node --------------------------------
(***************************************************************************)
(* The Starknet node the ingester polls: the environment of the ingestion  *)
(* service (external to the repository).                                   *)
(*                                                                         *)
(* The node's canonical chain is a function from block numbers to blocks   *)
(* in which every block's parent is the block below it.  The chain grows   *)
(* by one block or is cut back; a reorganization is a cut followed by      *)
(* growth on another branch, and a service that does not poll in between   *)
(* sees the chain jump.  A branch that was left may be adopted again.      *)
(***************************************************************************)
EXTENDS CanonicalChain

CONSTANTS
    InitialHeight,   \* the number of the head block when the model starts
    InitialChain,    \* the chain when the model starts
    MaxFinalized,    \* model bound: the highest block that becomes final
    MaxReorgDepth    \* how far below the highest head ever seen a cut may go

ASSUME NodeAssumption ==
    /\ MaxReorgDepth \in Nat
    /\ MaxFinalized \in Nat
    /\ InitialHeight \in Nat
    /\ InitialChain \in [0 .. InitialHeight -> Block]
    /\ \A n \in 0 .. InitialHeight : Number[InitialChain[n]] = n
    /\ \A n \in 1 .. InitialHeight : Parent[InitialChain[n]] = InitialChain[n - 1]

VARIABLES
    nodeChain,       \* block number -> block, on 0 .. nodeHeight
    nodeHeight,      \* the number of the head block
    nodeFinalized,   \* the highest block accepted on L1: never cut
    tallest          \* the highest head ever seen

nodeVars == <<nodeChain, nodeHeight, nodeFinalized, tallest>>

NodeHead == nodeChain[nodeHeight]

NodeHas(n) == n \in 0 .. nodeHeight

NodeInit ==
    /\ nodeChain = InitialChain
    /\ nodeHeight = InitialHeight
    /\ nodeFinalized = 0
    /\ tallest = InitialHeight

\* A new block is accepted on top of the head.
NodeGrow(block) ==
    /\ Parent[block] = NodeHead
    /\ nodeHeight' = nodeHeight + 1
    /\ nodeChain' = [n \in 0 .. nodeHeight + 1 |->
                        IF n = nodeHeight + 1 THEN block ELSE nodeChain[n]]
    /\ tallest' = IF nodeHeight + 1 > tallest THEN nodeHeight + 1 ELSE tallest
    /\ UNCHANGED nodeFinalized

\* The blocks above n are dropped from the canonical chain.
NodeRevert(n) ==
    /\ n < nodeHeight
    /\ n >= nodeFinalized
    /\ n >= tallest - MaxReorgDepth
    /\ nodeHeight' = n
    /\ nodeChain' = Restrict(nodeChain, 0 .. n)
    /\ UNCHANGED <<nodeFinalized, tallest>>

\* A block is accepted on L1.
NodeFinalize(n) ==
    /\ n > nodeFinalized
    /\ n <= nodeHeight
    /\ n <= MaxFinalized
    /\ nodeFinalized' = n
    /\ UNCHANGED <<nodeChain, nodeHeight, tallest>>

=============================================================================
