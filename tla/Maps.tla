-------------------------------- MODULE Maps --------------------------------
(***************************************************************************)
(* JavaScript Map objects as functions whose domain is the set of keys.    *)
(***************************************************************************)

EmptyMap == [k \in {} |-> k]

\* map.set(key, value)
MapSet(map, key, value) ==
  [k \in DOMAIN map \union {key} |-> IF k = key THEN value ELSE map[k]]

\* map.delete(key) for every key of a set; absent keys are ignored.
MapDelete(map, keys) == [k \in DOMAIN map \ keys |-> map[k]]

\* map.get(key) ?? default
MapGet(map, key, default) == IF key \in DOMAIN map THEN map[key] ELSE default
=============================================================================
