--------------------------------- MODULE Lists ---------------------------------
(* Lists as the program builds them: by filtering and by sorting.           *)
EXTENDS Naturals, Sequences, FiniteSets

(* A comprehension with a condition: the items of s in S, in the order of s.*)
(* FilteredUpTo(s, S)[n] is what is kept of the first n items.               *)
FilteredUpTo(s, S) ==
    LET kept[n \in 0 .. Len(s)] ==
            IF n = 0 THEN <<>>
            ELSE IF s[n] \in S THEN Append(kept[n - 1], s[n]) ELSE kept[n - 1]
    IN  kept

Filtered(s, S) == FilteredUpTo(s, S)[Len(s)]

(* A sort: the members of S, the earlier one before the later one in        *)
(* before, a set of pairs.                                                  *)
Arranged(S, before) ==
    CHOOSE s \in [1 .. Cardinality(S) -> S] :
        \A i, j \in 1 .. Cardinality(S) : i < j => <<s[i], s[j]>> \in before
================================================================================
