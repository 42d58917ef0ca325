------------------------------ MODULE LRUCache ------------------------------
(***************************************************************************)
(* LRU_Cache, in which a vehicle keeps the MAC keys of the quadrants: a    *)
(* hash map from keys to nodes, and the nodes in a doubly linked list      *)
(* between two sentinels, the one used last behind the head.  The heap is  *)
(* explicit: a node that is deleted loses its contents and its links, and  *)
(* its address may be used again by the next `new'.                        *)
(*                                                                         *)
(* One thread at a time uses a cache, so each operation is one step.       *)
(***************************************************************************)
EXTENDS Naturals, FiniteSets

CONSTANTS Keys, Values, Capacity, Nodes, head, tail, Null

Entries == [key : Keys, value : Values]
Places  == Nodes \cup {head, tail}

ASSUME CacheAssumption ==
  /\ IsFiniteSet(Keys)
  /\ Capacity \in Nat
  /\ head # tail /\ {head, tail} \cap Nodes = {}
  /\ Null \notin Places \cup Entries

VARIABLES
  cache,   \* the hash map: the node of each key, Null if there is none
  entry,   \* the key and value in each node, Null if the address is free
  links,   \* the next and prev pointers of nodes and sentinels
  result   \* what the last get returned: the value it points to, or nullptr

vars == <<cache, entry, links, result>>

TypeOK ==
  /\ cache \in [Keys -> Nodes \cup {Null}]
  /\ entry \in [Nodes -> Entries \cup {Null}]
  /\ links \in [next : [Places -> Places \cup {Null}],
                prev : [Places -> Places \cup {Null}]]
  /\ result \in Values \cup {Null}

Init ==
  /\ cache = [k \in Keys |-> Null]
  /\ entry = [n \in Nodes |-> Null]
  /\ links = [next |-> [p \in Places |-> IF p = head THEN tail ELSE Null],
              prev |-> [p \in Places |-> IF p = tail THEN head ELSE Null]]
  /\ result = Null

-----------------------------------------------------------------------------
\* remove: node n leaves the list.
Unlink(l, n) ==
  [next |-> [l.next EXCEPT ![l.prev[n]] = l.next[n]],
   prev |-> [l.prev EXCEPT ![l.next[n]] = l.prev[n]]]

\* add: node n becomes the first one.
LinkFirst(l, n) ==
  [next |-> [l.next EXCEPT ![n] = l.next[head], ![head] = n],
   prev |-> [l.prev EXCEPT ![n] = head, ![l.next[head]] = n]]

\* delete: nothing may follow the pointers of node n any more.
Forget(l, n) ==
  [next |-> [l.next EXCEPT ![n] = Null], prev |-> [l.prev EXCEPT ![n] = Null]]

UnlinkAndDelete(l, n) == Forget(Unlink(l, n), n)

Live == {n \in Nodes : entry[n] # Null}
Used(map) == {k \in Keys : map[k] # Null}

\* A slip: get leaves the node where it is.
GetInPlace(k) ==
  /\ result' = IF cache[k] = Null THEN Null ELSE entry[cache[k]].value
  /\ UNCHANGED <<cache, entry, links>>

\* get: the node of the key becomes the first one.
Get(k) ==
  /\ IF cache[k] = Null
       THEN result' = Null /\ UNCHANGED links
       ELSE /\ links' = LinkFirst(Unlink(links, cache[k]), cache[k])
            /\ result' = entry[cache[k]].value
  /\ UNCHANGED <<cache, entry>>

\* put, first part: the node the key had is removed and deleted.
LinksWithout(k) ==
  IF cache[k] = Null THEN links ELSE UnlinkAndDelete(links, cache[k])
EntryWithout(k) ==
  IF cache[k] = Null THEN entry ELSE [entry EXCEPT ![cache[k]] = Null]

\* cache.size() > capacity, after a slip that lets one entry more in.
TooManyLate(map) == Cardinality(Used(map)) > Capacity + 1
TooMany(map)     == Cardinality(Used(map)) > Capacity

\* put: a new node becomes the first one, and the last one goes when the map
\* has become too large.
Put(k, v) ==
  \E n \in Nodes :
    LET map     == [cache EXCEPT ![k] = n]
        content == [EntryWithout(k) EXCEPT ![n] = [key |-> k, value |-> v]]
        list    == LinkFirst(LinksWithout(k), n)
        last    == list.prev[tail]
    IN  /\ EntryWithout(k)[n] = Null
        /\ IF TooMany(map)
             THEN /\ cache' = [map EXCEPT ![content[last].key] = Null]
                  /\ entry' = [content EXCEPT ![last] = Null]
                  /\ links' = UnlinkAndDelete(list, last)
             ELSE cache' = map /\ entry' = content /\ links' = list
        /\ UNCHANGED result

\* erase: the node of the key is removed and deleted.
Erase(k) ==
  /\ links' = LinksWithout(k)
  /\ entry' = EntryWithout(k)
  /\ cache' = [cache EXCEPT ![k] = Null]
  /\ UNCHANGED result

Next ==
  \E k \in Keys : Get(k) \/ Erase(k) \/ \E v \in Values : Put(k, v)

Spec == Init /\ [][Next]_vars

-----------------------------------------------------------------------------
(***************************************************************************)
(* The map and the list hold the same nodes: next and prev are inverse to  *)
(* each other on the nodes alive and the sentinels, no pointer leads to a  *)
(* deleted node, no node is left behind, and there are at most Capacity of *)
(* them.  (get, put and erase of LRU_Cache, on whatever order of calls.)   *)
(***************************************************************************)
Linked(l, live) ==
  /\ \A p \in live \cup {head} :
       l.next[p] \in live \cup {tail} /\ l.prev[l.next[p]] = p
  /\ \A p \in live \cup {tail} :
       l.prev[p] \in live \cup {head} /\ l.next[l.prev[p]] = p

MapIsList ==
  /\ \A k \in Keys :
       cache[k] # Null => cache[k] \in Live /\ entry[cache[k]].key = k
  /\ \A n \in Live : cache[entry[n].key] = n

Bounded == Cardinality(Used(cache)) <= Capacity

Consistent == Linked(links, Live) /\ MapIsList /\ Bounded

\* The entries in the order of the list.
Order ==
  LET walk[i \in 0 .. Cardinality(Live)] ==
        IF i = 0 THEN head ELSE links.next[walk[i - 1]]
  IN  [i \in 1 .. Cardinality(Live) |-> entry[walk[i]]]

(***************************************************************************)
(* The cache does what RecencyList says: what is evicted is the entry      *)
(* that was neither put nor got for the longest time.                      *)
(***************************************************************************)
Recency == INSTANCE RecencyList WITH entries <- Order
IsRecencyList == Recency!Spec
=============================================================================
