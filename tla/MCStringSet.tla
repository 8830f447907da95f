---------------------------- MODULE MCStringSet ----------------------------
EXTENDS StringSetCalls, TLC

Symmetry == Permutations(Object) \union Permutations(Token)
=============================================================================
