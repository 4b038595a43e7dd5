------------------------------- MODULE Caches --------------------------------
(***************************************************************************)
(* core/cache/lru.go: the bounded caches behind the explorer's indexes.    *)
(* Each operation holds the cache's mutex throughout.                      *)
(*                                                                         *)
(* An LRU is the sequence of its keys, the most recently used first (the   *)
(* list "order"; "items" only finds an element of it).  The value of a key *)
(* never changes in the explorer, where a key is a hash.                   *)
(***************************************************************************)
EXTENDS Integers, Sequences, Functions

\* Whether the key is there.
Contains(lru, k) == \E i \in 1 .. Len(lru) : lru[i] = k

\* The other keys.
Without(lru, k) ==
  IF Contains(lru, k)
  THEN LET p == CHOOSE i \in 1 .. Len(lru) : lru[i] = k
       IN  SubSeq(lru, 1, p - 1) \o SubSeq(lru, p + 1, Len(lru))
  ELSE lru

\* The key moves to the front, or is put there.
ToFront(lru, k) == <<k>> \o Without(lru, k)

\* The mutated form: a hit does not count as a use.
LruGetMutant(lru, k) == lru

\* LRU.Get: a hit counts as a use, a miss changes nothing.
LruGet(lru, k) == IF Contains(lru, k) THEN ToFront(lru, k) ELSE lru

\* LRU.Set: what is over capacity is dropped from the back.
LruSet(lru, k, maxSize) ==
  LET longer == ToFront(lru, k)
  IN  IF Len(longer) > maxSize THEN SubSeq(longer, 1, maxSize) ELSE longer

\* BoundedSlice.Append: a full slice loses its oldest item.
BoundedAppend(items, item, maxSize) ==
  IF Len(items) >= maxSize THEN Append(Tail(items), item) ELSE Append(items, item)

\* A BoundedMap: the slices, and their keys in the order they came.
EmptyMap == [data |-> <<>>, keyOrder |-> <<>>]

\* The key that BoundedMap.Append evicts, as a set.
EvictedKey(m, key, maxKeys) ==
  IF key \notin DOMAIN m.data /\ Len(m.keyOrder) >= maxKeys THEN {Head(m.keyOrder)} ELSE {}

\* The mutated form: an evicted key stays in the order of the keys.
MapAppendMutant(m, key, value, perKeyMax, maxKeys) ==
  LET evicted == EvictedKey(m, key, maxKeys)
      isNew == key \notin DOMAIN m.data
      keys == (DOMAIN m.data \cup {key}) \ evicted
      slice == IF isNew THEN <<>> ELSE m.data[key]
  IN  [data |-> [k \in keys |-> IF k = key THEN BoundedAppend(slice, value, perKeyMax) ELSE m.data[k]],
       keyOrder |-> IF isNew THEN Append(m.keyOrder, key) ELSE m.keyOrder]

\* BoundedMap.Append: a new key may push out the oldest one.
MapAppend(m, key, value, perKeyMax, maxKeys) ==
  LET evicted == EvictedKey(m, key, maxKeys)
      isNew == key \notin DOMAIN m.data
      keys == (DOMAIN m.data \cup {key}) \ evicted
      slice == IF isNew THEN <<>> ELSE m.data[key]
      order == IF evicted = {} THEN m.keyOrder ELSE Tail(m.keyOrder)
  IN  [data |-> [k \in keys |-> IF k = key THEN BoundedAppend(slice, value, perKeyMax) ELSE m.data[k]],
       keyOrder |-> IF isNew THEN Append(order, key) ELSE order]
=============================================================================
