-------------------------- MODULE MCStoredEntries --------------------------
EXTENDS StoredEntries, TLC

\* A name and an extension of it.
SmallFields == {<<1>>, <<1, 2>>}

\* A negative and a positive integer, a double equal to the latter, a string.
Value(t, n, s) == [t |-> t, n |-> n, s |-> s]
SmallValues ==
  {Value("int", -1, <<>>), Value("int", 1, <<>>), Value("double", 1, <<>>),
   Value("str", 0, <<2>>)}

SmallPayloads == {<<>>, <<2>>}

\* One name with every value, the other after it or before it, and both a name
\* that comes twice and as many fields as a 16-bit count can name.
One == [1 .. 1 -> Scalars]
Two == {<<f, g>> \in Scalars \X Scalars :
          f.name # g.name /\ f.value.t = "int" /\ g.value.t # "int"}
Times(n) == [i \in 1 .. n |-> [name |-> <<1>>,
                               value |-> Value("int", IF i % 2 = 0 THEN 1 ELSE -1, <<>>)]]
Lists == {<<>>} \cup One \cup Two \cup {Times(2), Times(8)}

\* One field more than the count can name.
TooLong == {<<>>, Times(9)}

Symmetric == Permutations(Ids)
=============================================================================
