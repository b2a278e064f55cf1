-------------------------------- MODULE Maps --------------------------------
(***************************************************************************)
(* std::map and std::unordered_map as partial functions: the keys in use   *)
(* are the DOMAIN.  The server keeps its snakes, its sessions and its       *)
(* connections in such maps, and the difference between m.insert({k, v})   *)
(* (keeps a value that is there) and m[k] = v (replaces it) matters.       *)
(***************************************************************************)

\* The map with no key.
EmptyMap == [k \in {} |-> k]

\* m[k] = v
Assign(m, k, v) == [x \in DOMAIN m \cup {k} |-> IF x = k THEN v ELSE m[x]]

\* m.insert({k, v})
Insert(m, k, v) == IF k \in DOMAIN m THEN m ELSE Assign(m, k, v)

\* m.erase(k) for every k of K
Erase(m, K) == [x \in DOMAIN m \ K |-> m[x]]
=============================================================================
