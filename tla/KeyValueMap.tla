------------------------------ MODULE KeyValueMap ------------------------------
(***************************************************************************)
(* What the Dictionary of util/Message_Dictionary.h promises its caller,   *)
(* without buckets, chains or memory: a map from key strings to values.    *)
(* DictionaryInsert puts a value under a key (replacing an older one),     *)
(* DictionaryRemove deletes a key and DictionaryClear empties the map;     *)
(* DictionaryGetValue reads dict[k], Missing for a key not in the map.     *)
(***************************************************************************)
CONSTANTS Keys, Vals, Missing

ASSUME Missing \notin Vals

VARIABLE dict

Init == dict = [k \in Keys |-> Missing]

Put(k, v) == dict' = [dict EXCEPT ![k] = v]

Delete(k) == dict' = [dict EXCEPT ![k] = Missing]

Clear == dict' = [k \in Keys |-> Missing]

Next ==
    \/ \E k \in Keys, v \in Vals : Put(k, v)
    \/ \E k \in Keys : Delete(k)
    \/ Clear

MapSpec == Init /\ [][Next]_dict
=============================================================================
