--------------------------- MODULE PublishedChain ---------------------------
(***************************************************************************)
(* What ingestion promises to everything that reads the canonical chain:   *)
(* the chain view, the streams and compaction.                             *)
(*                                                                         *)
(* The published chain is a run of blocks, each the parent of the next.    *)
(* One publication either extends it or cuts it back; a cut never reaches  *)
(* below the archived part, which is stored in segments that readers cache *)
(* for ever.  A block is therefore never replaced in place, and a reader   *)
(* that holds an old version always shares a prefix with the new one.      *)
(***************************************************************************)
EXTENDS CanonicalChain

VARIABLES
    chain,      \* block number -> block, empty before the first publication
    archived    \* the first block number that a cut must keep

Linked(c) ==
    \A n \in DOMAIN c : n - 1 \in DOMAIN c => Parent[c[n]] = c[n - 1]

Contiguous(numbers) ==
    \A m, n \in numbers : m .. n \subseteq numbers

Init == chain = [n \in {} |-> Null] /\ archived = 0

\* Blocks are added on top; some of the chain may be archived.
Extend ==
    /\ DOMAIN chain # DOMAIN chain'
    /\ DOMAIN chain \subseteq DOMAIN chain'
    /\ Contiguous(DOMAIN chain')
    /\ archived' >= archived
    /\ archived' \in DOMAIN chain'
    /\ Restrict(chain', DOMAIN chain) = chain
    /\ Linked(chain')

\* The blocks above some block that is not archived are removed.
Cut ==
    /\ DOMAIN chain # DOMAIN chain'
    /\ archived' = archived
    /\ \E n \in DOMAIN chain :
        /\ n >= archived
        /\ DOMAIN chain' = {m \in DOMAIN chain : m <= n}
    /\ chain' = Restrict(chain, DOMAIN chain')

Next == Extend \/ Cut

Spec == Init /\ [][Next]_<<chain, archived>>

=============================================================================
