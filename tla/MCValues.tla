----------------------------- MODULE MCValues -----------------------------
\* Model-checking instance of Values.
EXTENDS Values

Symmetry == Permutations(Addr)

\* With Word = 4 a value whose stored form is negative; and one that does not equal
\* itself.
MCLeaves == {<<"uinteger", 3>>, <<"nan", 0>>}

=============================================================================
