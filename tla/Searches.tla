------------------------------ MODULE Searches ------------------------------
(***************************************************************************)
(* A search in a string and the comparisons of three others, side by side.  *)
(***************************************************************************)
EXTENDS BstrSearch

CONSTANTS Bytes, MaxCompared

VARIABLES c0, c1, c2   \* the strings that are compared

compareVars == <<c0, c1, c2>>

BC == INSTANCE BstrCompare WITH Chars <- Bytes, MaxLen <- MaxCompared,
                                b0 <- c0, b1 <- c1, b2 <- c2

\* The keys of the hash map are the same for bstrcmp if they are the same up to a
\* zero byte that both have (see BstrCompare).
EqualityAgrees == BC!EqualityAgrees

\* bstrcmp and bstricmp order the strings, and bstrncmp their first n characters
\* (see BstrCompare).
Ordered == BC!Ordered
=============================================================================
