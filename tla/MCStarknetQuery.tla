--------------------------- MODULE MCStarknetQuery ---------------------------
(***************************************************************************)
(* Instances of StarknetQuery for TLC: a group of two segments of two      *)
(* blocks, a handful of blocks, and one or two filters of every kind.      *)
(***************************************************************************)
EXTENDS StarknetQuery

Ev(address, keys) == [from_address |-> address, keys |-> keys]

Msg(from, to) == [from_address |-> from, to_address |-> to]

Tx(type, status, events, messages) ==
    [type |-> type, status |-> status, events |-> events, messages |-> messages]

Empty ==
    [transactions |-> <<>>, traces |-> <<>>, storage_diffs |-> <<>>, nonces |-> <<>>,
     deprecated_declared_classes |-> 0, declared_classes |-> 0, replaced_classes |-> 0,
     deployed_contracts |-> 0]

\* Several events and messages in one transaction, and a reverted one, with traces.
Busy ==
    [Empty EXCEPT
        !.transactions =
            <<Tx("InvokeV1", "Succeeded", <<Ev("x", <<"k">>)>>, <<>>),
              Tx("InvokeV3", "Succeeded", <<Ev("x", <<"k", "l">>), Ev("y", <<"l">>)>>,
                 <<Msg("x", "y"), Msg("y", "y")>>),
              Tx("L1Handler", "Reverted", <<Ev("y", <<>>)>>, <<Msg("y", "x")>>)>>,
        !.traces = <<0, 1, 2>>,
        !.storage_diffs = <<"x", "y">>, !.nonces = <<"y">>,
        !.deprecated_declared_classes = 1, !.declared_classes = 1, !.deployed_contracts = 2]

\* The address and the key of a filter, but never in the same event.
Scattered ==
    [Empty EXCEPT
        !.transactions =
            <<Tx("InvokeV1", "Reverted", <<Ev("x", <<"k", "l", "k", "l", "m">>)>>, <<Msg("x", "x")>>),
              Tx("DeclareV3", "Succeeded", <<Ev("y", <<"k", "k">>), Ev("x", <<"l", "k">>)>>, <<>>)>>,
        !.nonces = <<"x", "x">>, !.replaced_classes = 1]

\* Five keys, and a transaction with nothing but a message.
Long ==
    [Empty EXCEPT
        !.transactions =
            <<Tx("Deploy", "Succeeded", <<>>, <<Msg("x", "y")>>),
              Tx("InvokeV1", "Succeeded",
                 <<Ev("x", <<"k", "l", "k", "l">>), Ev("x", <<"k", "l", "k", "l", "m">>)>>, <<>>)>>,
        !.traces = <<0, 1>>, !.storage_diffs = <<"y">>, !.declared_classes = 1]

\* Every two blocks next to each other in a segment, and some mixtures.
Kinds == {Empty, Busy, Scattered, Long}

Chains ==
    {<<one, other, other, one>> : one \in Kinds, other \in Kinds}
    \cup {<<Busy, Empty, Scattered, Long>>, <<Empty, Empty, Empty, Busy>>,
          <<Scattered, Scattered, Empty, Empty>>, <<Long, Busy, Busy, Empty>>}

-----------------------------------------------------------------------------

NoFilter ==
    [header |-> "onData", transactions |-> {}, events |-> {}, messages |-> {},
     storage_diffs |-> {}, contract_changes |-> {}, nonce_updates |-> {}]

E(id, address, keys, strict, status, include) ==
    [id |-> id, address |-> address, keys |-> keys, strict |-> strict,
     transaction_status |-> status, include |-> include]

M(id, from, to, status, include) ==
    [id |-> id, from_address |-> from, to_address |-> to, transaction_status |-> status,
     include |-> include]

T(id, inner, status, include) ==
    [id |-> id, inner |-> inner, transaction_status |-> status, include |-> include]

\* The last one agrees in four keys with events of four and of five keys.
EventKeys == {<<>>, <<"k">>, <<"k", Null>>, <<Null, "l">>, <<"k", "l", "k", "l">>,
              <<"k", "l", "k", "l", "m">>}

EventFilters ==
    {E(1, address, keys, strict, "All", {}) :
        address \in {Null, "x"}, keys \in EventKeys, strict \in BOOLEAN}
    \cup {E(200, Null, <<"k">>, FALSE, status, include) :
            status \in {Null, "Unspecified", "Reverted"},
            include \in {{"transaction"}, {"receipt", "trace"}, {"messages"}, {"siblings"}}}

MessageFilters ==
    {M(1, from, to, "All", {}) : from \in {Null, "x"}, to \in {Null, "y"}}
    \cup {M(2, "y", Null, status, include) :
            status \in {Null, "All"},
            include \in {{"transaction", "receipt"}, {"events"}, {"siblings"}, {"trace"}}}

TransactionFilters ==
    {T(1, inner, status, {}) :
        inner \in {Null, "InvokeV1", "DeclareV3"}, status \in {Null, "Reverted", "Unspecified"}}
    \cup {T(2, "InvokeV3", Null, include) :
            include \in {{"receipt"}, {"events"}, {"messages"}, {"trace"}}}

AddressFilters == {[id |-> 1, contract_address |-> a] : a \in {Null, "x"}}

ChangeFilters == {[id |-> 1, change |-> c] : c \in {Null, "DeclaredClass", "Deployed", "Replaced"}}

\* One filter at a time.
Single ==
    {[NoFilter EXCEPT !.events = {f}] : f \in EventFilters}
    \cup {[NoFilter EXCEPT !.messages = {f}] : f \in MessageFilters}
    \cup {[NoFilter EXCEPT !.transactions = {f}] : f \in TransactionFilters}
    \cup {[NoFilter EXCEPT !.storage_diffs = {f}] : f \in AddressFilters}
    \cup {[NoFilter EXCEPT !.nonce_updates = {f}] : f \in AddressFilters}
    \cup {[NoFilter EXCEPT !.contract_changes = {f}] : f \in ChangeFilters}

\* Filters that overlap: the same message for several ids, directly and by a join.
Overlapping ==
    [NoFilter EXCEPT
        !.header = "onDataOrOnNewBlock",
        !.events = {E(1, "x", <<"k">>, FALSE, Null, {"siblings", "transaction"}),
                    E(300, Null, <<>>, FALSE, "All", {})},
        !.transactions = {T(2, "InvokeV3", Null, {"events", "messages"})},
        !.messages = {M(1, Null, "y", Null, {"events", "siblings"})}]

Requests ==
    {<<f>> : f \in Single}
    \cup {<<[NoFilter EXCEPT !.header = header]>> : header \in {"always", "onData"}}
    \cup {<<[Overlapping EXCEPT !.header = header]>> :
            header \in {"always", "onData", "onDataOrOnNewBlock", "unspecified"}}
    \cup {<<Overlapping, NoFilter>>, <<NoFilter, [NoFilter EXCEPT !.header = "always"]>>, <<>>,
          [i \in 1 .. 6 |-> Overlapping],
          <<[NoFilter EXCEPT !.transactions = {T(1, Null, "invalid", {})}]>>}

\* Lengths around the first step of the varints.
Lengths(fragmentId, message) == 120 + fragmentId + message[2]

=============================================================================
