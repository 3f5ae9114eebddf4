-------------------------------- MODULE Dicts --------------------------------
(* Python dictionaries: functions on the set of their keys. *)
EXTENDS Naturals

EmptyDict == [k \in {} |-> 0]

\* dict[k] = v
Put(dict, k, v) ==
    [i \in DOMAIN dict \cup {k} |-> IF i = k THEN v ELSE dict[i]]

\* del dict[k] for every k of ks
Drop(dict, ks) == [i \in DOMAIN dict \ ks |-> dict[i]]
=============================================================================
