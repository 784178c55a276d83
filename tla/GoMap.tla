------------------------------- MODULE GoMap -------------------------------
(* Go's maps as functions. *)

\* m[k] = v
Put(m, k, v) == [i \in DOMAIN m \cup {k} |-> IF i = k THEN v ELSE m[i]]

\* map[K]V{k: v}
Entry(k, v) == [i \in {k} |-> v]

\* m with the entries of n.
m ++ n == [k \in DOMAIN m \cup DOMAIN n |-> IF k \in DOMAIN n THEN n[k] ELSE m[k]]
=============================================================================
