---------------------------- MODULE MCIngestion ----------------------------
(***************************************************************************)
(* Instances of Ingestion for TLC.  A tree of blocks is written as a set   *)
(* of names with their heights and parents.                                *)
(***************************************************************************)
EXTENDS Ingestion, TLC

\* A trunk a0 .. a4 and a branch b3 b4 off a2.
TreeHeight == ("a0" :> 0) @@ ("a1" :> 1) @@ ("a2" :> 2) @@ ("a3" :> 3) @@ ("a4" :> 4)
              @@ ("b3" :> 3) @@ ("b4" :> 4)

TreeParent == ("a0" :> ZeroHash) @@ ("a1" :> "a0") @@ ("a2" :> "a1") @@ ("a3" :> "a2")
              @@ ("a4" :> "a3") @@ ("b3" :> "a2") @@ ("b4" :> "b3")

TreeBlock == DOMAIN TreeHeight

\* A trunk a0 a1 a2 and a branch b1 off a0.
ForkHeight == ("a0" :> 0) @@ ("a1" :> 1) @@ ("a2" :> 2) @@ ("b1" :> 1)

ForkParent == ("a0" :> ZeroHash) @@ ("a1" :> "a0") @@ ("a2" :> "a1") @@ ("b1" :> "a0")

ForkBlock == DOMAIN ForkHeight

\* A trunk a0 .. a3 and a branch b2 off a1.
DeepHeight == ("a0" :> 0) @@ ("a1" :> 1) @@ ("a2" :> 2) @@ ("a3" :> 3)
              @@ ("b2" :> 2)

DeepParent == ("a0" :> ZeroHash) @@ ("a1" :> "a0") @@ ("a2" :> "a1") @@ ("a3" :> "a2")
              @@ ("b2" :> "a1")

DeepBlock == DOMAIN DeepHeight

\* A trunk a0 .. a4 and a branch b1 b2 off a0, low enough for the fork to end
\* in uploaded segments.
LowHeight == ("a0" :> 0) @@ ("a1" :> 1) @@ ("a2" :> 2) @@ ("a3" :> 3) @@ ("a4" :> 4)
             @@ ("b1" :> 1) @@ ("b2" :> 2)

LowParent == ("a0" :> ZeroHash) @@ ("a1" :> "a0") @@ ("a2" :> "a1") @@ ("a3" :> "a2")
             @@ ("a4" :> "a3") @@ ("b1" :> "a0") @@ ("b2" :> "b1")

LowBlock == DOMAIN LowHeight

GenesisChain == 0 :> "a0"

=============================================================================
