--------------------------- MODULE MCPyCollection ---------------------------
EXTENDS PyCollection, TLC

CONSTANTS i1, i2

\* A backslash before a letter, and characters that need an escape.
TextPayloads == {<<"backslash", "n">>, <<"quote", "lf", "tab">>}
ControlPayloads == {<<"a", "ctrl">>}
NulPayloads == {<<"a", "nul", "a">>}

Adds(ids) == [id : ids, payload : Payloads]
SmallBatches == {<<x>> : x \in Adds({i1})} \cup {<<x, y>> : x \in Adds({i2}), y \in Adds({i1})}

\* Bound: once open() was called of an object that is not closed, which ends
\* what the data properties speak of, only open() and close() go on.
CallsBeforeReopen == reopened > 0 => \A t \in Threads : call[t].fn = "none"

Symmetric == Permutations(Threads) \cup Permutations(Addrs)
=============================================================================
