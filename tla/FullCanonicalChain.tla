------------------------- MODULE FullCanonicalChain -------------------------
(***************************************************************************)
(* The reader's view of the whole canonical chain                          *)
(* (common/src/chain_view/full.rs): the recent segment it was given plus   *)
(* the chain segments it fetches from the chain store by their first       *)
(* block number.                                                           *)
(*                                                                         *)
(* A view is [starting, recent, store]; store maps the first block number  *)
(* of every uploaded segment to the segment.  A lookup that fails in the   *)
(* code is Null here, and a reply of kind "error" for get_next_cursor.     *)
(***************************************************************************)
EXTENDS CanonicalChain

CONSTANT ChainSegmentSize

ASSUME ChainSegmentSizeAssumption == ChainSegmentSize \in Nat \ {0}

\* Mutant: the starting block is not subtracted first.
ChainSegmentStartFromZero(number, starting) ==
    (number \div ChainSegmentSize) * ChainSegmentSize

ChainSegmentStart(number, starting) ==
    ((number - starting) \div ChainSegmentSize) * ChainSegmentSize + starting

GetChainSegment(view, number) ==
    LET start == ChainSegmentStart(number, view.starting)
    IN  CASE view.recent.first <= number   -> view.recent
          [] view.recent.first > number /\ start \in DOMAIN view.store -> view.store[start]
          [] OTHER -> Null

\* get_canonical_impl: the canonical block at a height, or Null.
CanonicalBlock(view, number) ==
    LET segment == GetChainSegment(view, number)
    IN  IF segment # Null /\ number \in segment.first .. segment.last
        THEN segment.canonical[number]
        ELSE Null

GetCanonical(view, number) ==
    CASE number > view.recent.last -> Reply("afterAvailable", LastBlock(view.recent))
      [] number < view.starting    -> Reply("beforeAvailable", CanonicalBlock(view, view.starting))
      [] OTHER                     -> Reply("canonical", CanonicalBlock(view, number))

\* The block a stream at the given cursor moves to.
GetNextCursor(view, cursor) ==
    LET segment == GetChainSegment(view, cursor.number)
        action  == IF segment = Null THEN Reply("error", Null)
                                     ELSE Reconnect(segment, cursor)
    IN  CASE action.kind = "continue" /\ cursor.number = view.recent.last ->
                Reply("atHead", Null)
          [] action.kind = "continue" /\ cursor.number # view.recent.last ->
                LET next == CanonicalBlock(view, cursor.number + 1)
                IN  IF next = Null THEN Reply("error", Null) ELSE Reply("continue", next)
          [] action.kind = "offlineReorg" -> Reply("invalidate", action.target)
          [] OTHER -> Reply("error", Null)

\* A cursor with the zero hash stands for the canonical block of its number.
IsEquivalent(block, cursor) ==
    cursor.hash \in {block, ZeroHash}

ValidateCursor(view, cursor) ==
    LET canonical == CanonicalBlock(view, cursor.number)
        segment   == GetChainSegment(view, cursor.number)
    IN  CASE canonical = Null -> Reply("error", Null)
          [] canonical # Null /\ IsEquivalent(canonical, cursor) -> Reply("valid", canonical)
          [] OTHER ->
                IF \E b \in Siblings(segment, cursor.number) : IsEquivalent(b, cursor)
                THEN Reply("valid", CHOOSE b \in Siblings(segment, cursor.number) :
                                        IsEquivalent(b, cursor))
                ELSE Reply("invalid", canonical)

=============================================================================
