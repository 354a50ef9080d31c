------------------------------- MODULE Dictionary -------------------------------
(***************************************************************************)
(* The chained hash table of util/Message_Dictionary.cpp, created with     *)
(* DictionaryStandardStringCallbacks: keys are strings hashed by           *)
(* DictionaryHashStringCallback and compared with strcmp, and both keys    *)
(* and values are copied on insert (kRetain, vRetain) and freed on removal *)
(* (kRelease, vRelease).                                                   *)
(*                                                                         *)
(* items[b] is the chain of bucket b, head first; an item holds a key and  *)
(* a value pointer.  heap[p] is what pointer p holds: a string or value    *)
(* the dictionary copied, Freed after free(), Unused before malloc.        *)
(* Every call runs alone (the dictionary has no lock): one action per      *)
(* call, the resize that an insert triggers included.                      *)
(***************************************************************************)
EXTENDS Integers, Sequences, SequencesExt

CONSTANTS
    Keys,        \* key strings the caller passes
    Text,        \* Text[k]: the characters of key k, as char codes
    Vals,        \* value contents the caller passes
    InitSize,    \* the size given to DictionaryCreate
    MaxSize,     \* bound: largest table size the model allocates
    MaxAllocs,   \* bound: number of strdup copies the model makes
    Junk,        \* what a heap byte past a strdup copy may hold
    Unused, Freed, Nil, NoKey

ASSUME InitSize \in 1..MaxSize /\ MaxAllocs \in Nat /\ Junk \subseteq 0..255
\* The values are the caller's ints (example-codec.c passes int*), below
\* 2^24 so that one of their four bytes is zero.
ASSUME Vals \subseteq 0..2^24 - 1

Ptrs == 1..MaxAllocs
Item == [key : Ptrs, value : Ptrs]

VARIABLES
    items,   \* items[b]: the chain of bucket b (dictionary_ref->items)
    size,    \* dictionary_ref->size
    count,   \* dictionary_ref->count
    heap,    \* heap[p]: content of the block at p
    next     \* the pointer the next strdup returns

vars == <<items, size, count, heap, next>>

\* DictionaryHashStringCallback: hash = hash * 31 + c over the characters.
RECURSIVE StringHash(_)
StringHash(s) ==
    IF s = <<>> THEN 0 ELSE StringHash(Front(s)) * 31 + Last(s)

Bucket(k, n) == StringHash(Text[k]) % n

\* DictionaryGetItem: the position in chain c of the first item whose key
\* compares equal (strcmp) to k, or 0.
Find(c, k) ==
    LET hits == {i \in DOMAIN c : heap[c[i].key] = k}
    IN IF hits = {} THEN 0 ELSE CHOOSE i \in hits : \A j \in hits : i <= j

\* DictionaryGetValue: the value pointer stored for k, or Nil.
GetValue(k) ==
    LET c == items[Bucket(k, size)]
        i == Find(c, k)
    IN IF i = 0 THEN Nil ELSE c[i].value

\* The items of table t with n buckets in the order the loops over i < size
\* and item->next visit them.
Visit(t, n) == FlattenSeq([b \in 1..n |-> t[b - 1]])

\* Fault variant of Rehash: items keep the bucket index of the old size.
RehashOldSize(t, h, n, m) ==
    LET Push(acc, it) ==
            LET b == Bucket(h[it.key], n)
            IN [acc EXCEPT ![b] = <<it>> \o acc[b]]
    IN FoldLeft(Push, [b \in 0..MaxSize - 1 |-> <<>>], Visit(t, n))

\* DictionaryResize of table t (n buckets, key strings in h) to m buckets:
\* DictionaryCreate(m), then every item is inserted, in visit order, at the
\* head of its bucket in the new table with the same key and value pointers
\* (retain callbacks NULLed); the two tables are swapped and the old one is
\* released without freeing keys or values (release callbacks NULLed).
Rehash(t, h, n, m) ==
    LET Push(acc, it) ==
            LET b == Bucket(h[it.key], m)
            IN [acc EXCEPT ![b] = <<it>> \o acc[b]]
    IN FoldLeft(Push, [b \in 0..MaxSize - 1 |-> <<>>], Visit(t, n))

Init ==
    /\ items = [b \in 0..MaxSize - 1 |-> <<>>]
    /\ size = InitSize
    /\ count = 0
    /\ heap = [p \in Ptrs |-> Unused]
    /\ next = 1

\* DictionaryInsert(k, v) for a key already there: vRelease the old value,
\* then vRetain (strdup) the new one, whose content is copy.
Replace(k, copy) ==
    LET b == Bucket(k, size)
        i == Find(items[b], k)
        old == items[b][i].value
    IN /\ i # 0 /\ next <= MaxAllocs
       /\ heap' = [heap EXCEPT ![old] = Freed, ![next] = copy]
       /\ items' = [items EXCEPT ![b][i].value = next]
       /\ next' = next + 1
       /\ UNCHANGED <<size, count>>

\* Fault variant of InsertNew: the resize releases the old table with its
\* kRelease and vRelease callbacks still set.
InsertNewReleasingOld(k, v) ==
    LET b == Bucket(k, size)
        it == [key |-> next, value |-> next + 1]
        grown == [items EXCEPT ![b] = <<it>> \o items[b]]
        all == Visit(grown, size)
        held == {all[i].key : i \in DOMAIN all} \cup {all[i].value : i \in DOMAIN all}
        h1 == [heap EXCEPT ![next] = k, ![next + 1] = v]
    IN /\ Find(items[b], k) = 0 /\ next + 1 <= MaxAllocs
       /\ next' = next + 2
       /\ count' = count + 1
       /\ IF count + 1 >= size
             THEN /\ 2 * size <= MaxSize
                  /\ size' = 2 * size
                  /\ items' = Rehash(grown, h1, size, 2 * size)
                  /\ heap' = [p \in Ptrs |-> IF p \in held THEN Freed ELSE h1[p]]
             ELSE /\ items' = grown /\ heap' = h1
                  /\ UNCHANGED size

\* DictionaryInsert(k, v) for a new key: strdup both, push the item at the
\* head of bucket hash % size, count++, and resize to twice the size when
\* count reaches size (DICTIONARY_MAX_LOAD_FACTOR 1, GROWTH_FACTOR 2).
InsertNew(k, v) ==
    LET b == Bucket(k, size)
        it == [key |-> next, value |-> next + 1]
        grown == [items EXCEPT ![b] = <<it>> \o items[b]]
    IN /\ Find(items[b], k) = 0 /\ next + 1 <= MaxAllocs
       /\ heap' = [heap EXCEPT ![next] = k, ![next + 1] = v]
       /\ next' = next + 2
       /\ count' = count + 1
       /\ IF count + 1 >= size
             THEN /\ 2 * size <= MaxSize
                  /\ size' = 2 * size
                  /\ items' = Rehash(grown, heap', size, 2 * size)
             ELSE /\ items' = grown
                  /\ UNCHANGED size

\* The caller passes its own string v for a key already present.
InsertExisting(k, v) == Replace(k, v)

\* The caller passes back the value pointer DictionaryGetValue(k) gave it:
\* vRelease frees it before strdup reads it, and the copy holds whatever
\* the freed block holds.
InsertAliased(k) ==
    /\ GetValue(k) # Nil
    /\ \E copy \in Vals \cup {Freed} : Replace(k, copy)

\* DictionaryRemove(k): unlink the first matching item of its chain,
\* kRelease and vRelease it, count--.  A key not there changes nothing.
DictionaryRemove(k) ==
    LET b == Bucket(k, size)
        i == Find(items[b], k)
        it == items[b][i]
    IN /\ i # 0
       /\ items' = [items EXCEPT ![b] = RemoveAt(items[b], i)]
       /\ heap' = [heap EXCEPT ![it.key] = Freed, ![it.value] = Freed]
       /\ count' = count - 1
       /\ UNCHANGED <<size, next>>

\* DictionaryClear: every chain is emptied, each item's key and value freed
\* and count decremented once per item.
DictionaryClear ==
    LET all == Visit(items, size)
        held == {all[i].key : i \in DOMAIN all} \cup {all[i].value : i \in DOMAIN all}
    IN /\ all # <<>>
       /\ items' = [b \in 0..MaxSize - 1 |-> <<>>]
       /\ heap' = [p \in Ptrs |-> IF p \in held THEN Freed ELSE heap[p]]
       /\ count' = count - Len(all)
       /\ UNCHANGED <<size, next>>

\* Byte i (little-endian) of the int v.
IntByte(v, i) == (v \div 2^(8 * i)) % 256

\* vRetain is strdup: the copy of the caller's int v ends at its first zero
\* byte z.  GetKeyWithMaximumValue reads it back with *(int *): the copied
\* bytes, then the bytes of the heap block past the copy, which hold
\* whatever the block last held (j[1], j[2], ...: Junk bytes).  The four
\* bytes make a little-endian int whose top byte carries the sign.
StrdupIntRead(v, j) ==
    LET z == CHOOSE i \in 0..3 : IntByte(v, i) = 0 /\ \A l \in 0..i - 1 : IntByte(v, l) # 0
        byte(i) == IF i <= z THEN IntByte(v, i) ELSE j[i - z]
        top == IF byte(3) >= 128 THEN byte(3) - 256 ELSE byte(3)
    IN byte(0) + byte(1) * 256 + byte(2) * 65536 + top * 16777216

\* GetKeyWithMaximumValue: in visit order, copy the key of every item whose
\* value, read as *(int *) from its strdup copy, is greater than the best so
\* far, starting from 0; the caller's buffer keeps NoKey if none is.  junk[p]
\* is what lies past the copy at p.
KeyWithMaximumValue(junk) ==
    LET Better(acc, it) ==
            LET read == StrdupIntRead(heap[it.value], junk[it.value])
            IN IF read > acc.best THEN [best |-> read, key |-> heap[it.key]] ELSE acc
    IN FoldLeft(Better, [best |-> 0, key |-> NoKey], Visit(items, size)).key

\* The caller has made all the copies the model allows.
Done == next + 1 > MaxAllocs /\ UNCHANGED vars

Next ==
    \/ \E k \in Keys, v \in Vals : InsertNew(k, v) \/ InsertExisting(k, v)
    \/ \E k \in Keys : DictionaryRemove(k)
    \/ DictionaryClear
    \/ Done

Spec == Init /\ [][Next]_vars

\* Callers that also hand a stored value pointer back to DictionaryInsert.
AliasingSpec == Init /\ [][Next \/ \E k \in Keys : InsertAliased(k)]_vars

TypeOK ==
    /\ size \in 1..MaxSize /\ count \in Nat /\ next \in 1..MaxAllocs + 1
    /\ items \in [0..MaxSize - 1 -> Seq(Item)]
    /\ heap \in [Ptrs -> Keys \cup Vals \cup {Unused, Freed}]

\* The table a caller reads through DictionaryGetValue: the content of the
\* value pointer found for each key.
Readable == [k \in Keys |-> IF GetValue(k) = Nil THEN Nil ELSE heap[GetValue(k)]]

\* The abstract map the caller sees: the content behind the pointer
\* DictionaryGetValue returns, Nil for a key it does not find.
Abstract == INSTANCE KeyValueMap WITH dict <- Readable, Missing <- Nil

\* Every sequence of DictionaryInsert, DictionaryRemove and DictionaryClear
\* calls, with the resizes inserts trigger, behaves as puts and deletes on
\* a map: DictionaryGetValue finds every key in the bucket its hash selects
\* under the current size, with the content last inserted for it.
ImplementsKeyValueMap == Abstract!MapSpec

\* Memory: exactly the keys and values held by items of the table are
\* allocated; nothing the table holds was freed (the resize's swap and
\* release of the old table, the vRelease on replace and remove), and
\* nothing freed-to-be is left allocated.
HeapMatchesItems ==
    LET all == Visit(items, size)
    IN {p \in Ptrs : heap[p] \in Keys \cup Vals}
           = {all[i].key : i \in DOMAIN all} \cup {all[i].value : i \in DOMAIN all}

\* The majority vote of example-codec.c: GetKeyWithMaximumValue yields a key
\* whose count is the largest in the table when some count is positive,
\* and leaves the caller's key alone otherwise, whatever the heap bytes
\* past the strdup copies hold.
MaxKeyAgrees ==
    LET present == {k \in Keys : Readable[k] # Nil}
        top == {k \in present : \A j \in present : Readable[j] <= Readable[k]}
        all == Visit(items, size)
        held == {all[i].value : i \in DOMAIN all}
    IN \A junk \in [held -> [1..3 -> Junk]] :
          IF \E k \in present : Readable[k] > 0
             THEN KeyWithMaximumValue(junk) \in top
             ELSE KeyWithMaximumValue(junk) = NoKey
====
