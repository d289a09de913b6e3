-------------------------------- MODULE Oids --------------------------------
(* Object identifiers: Python tuples of integers in their (lexicographic)   *)
(* order.                                                                   *)
EXTENDS Integers, Sequences

IsPrefixOf(s, t) == Len(s) <= Len(t) /\ SubSeq(t, 1, Len(s)) = s

\* s < t for tuples
Before(s, t) ==
    \/ IsPrefixOf(s, t) /\ s # t
    \/ \E i \in 1 .. Len(s) :
          /\ i <= Len(t)
          /\ s[i] < t[i]
          /\ \A j \in 1 .. i - 1 : s[j] = t[j]

AtMost(s, t) == s = t \/ Before(s, t)

\* is_within_subtree
WithinSubtree(root, oid) == IsPrefixOf(root, oid)
=============================================================================
