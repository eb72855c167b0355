-------------------------------- MODULE Maps --------------------------------
(***************************************************************************)
(* The standard maps the engine keeps its state in, as functions.          *)
(***************************************************************************)

\* A map without entries.
EmptyMap == [k \in {} |-> {}]

\* map[key] = value, for every entry of entries.
Put(map, entries) ==
    [k \in DOMAIN map \cup DOMAIN entries |->
        IF k \in DOMAIN entries THEN entries[k] ELSE map[k]]

\* map.erase(key), for every key of keys.
Erase(map, keys) == [k \in DOMAIN map \ keys |-> map[k]]
=============================================================================
