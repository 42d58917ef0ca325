--------------------------- MODULE LRUCacheProofs ---------------------------
(***************************************************************************)
(* The map and the list of LRUCache stay consistent and do what            *)
(* RecencyList says, for all keys, values, capacities and heaps.           *)
(*                                                                         *)
(* Consistency: unlinking a node and linking one behind the head each keep *)
(* next and prev inverse to each other, whatever nodes are in the list; so *)
(* the last node of a list that is not empty is a live one, and what put   *)
(* evicts is an entry of the map.                                          *)
(*                                                                         *)
(* Recency: a sequence names the nodes alive in the order of the pointers. *)
(* Each operation of the list is one of that sequence, and the walk along  *)
(* the pointers, by which Order is defined, is shown to follow it.         *)
(***************************************************************************)
EXTENDS LRUCache, FiniteSetTheorems, SequenceTheorems, WellFoundedInduction, TLAPS

LinkFunctions == [next : [Places -> Places \cup {Null}],
                  prev : [Places -> Places \cup {Null}]]

IInv == TypeOK /\ Consistent

-----------------------------------------------------------------------------
\* Unlinking a node and deleting it keeps the rest of the list linked.
LEMMA UnlinkKeeps ==
  ASSUME NEW l \in LinkFunctions, NEW live \in SUBSET Nodes, NEW n \in live,
         Linked(l, live)
  PROVE  /\ UnlinkAndDelete(l, n) \in LinkFunctions
         /\ Linked(UnlinkAndDelete(l, n), live \ {n})
<1> DEFINE a == l.prev[n]
           b == l.next[n]
           u == UnlinkAndDelete(l, n)
<1>1. /\ n \in Places /\ n # head /\ n # tail /\ head # tail
      /\ head \notin live /\ tail \notin live
  BY CacheAssumption DEF Places
<1>2. /\ a \in live \cup {head} /\ b \in live \cup {tail}
      /\ l.next[a] = n /\ l.prev[b] = n
  BY DEF Linked
<1>3. /\ u.next = [p \in Places |-> IF p = n THEN Null
                                    ELSE IF p = a THEN b ELSE l.next[p]]
      /\ u.prev = [p \in Places |-> IF p = n THEN Null
                                    ELSE IF p = b THEN a ELSE l.prev[p]]
      /\ u \in LinkFunctions
  <2>1. l.next \in [Places -> Places \cup {Null}] /\ l.prev \in [Places -> Places \cup {Null}]
    BY DEF LinkFunctions
  <2>2. a \in Places /\ b \in Places
    BY <1>2 DEF Places
  <2>3. u = [next |-> [[l.next EXCEPT ![a] = b] EXCEPT ![n] = Null],
             prev |-> [[l.prev EXCEPT ![b] = a] EXCEPT ![n] = Null]]
    BY DEF UnlinkAndDelete, Forget, Unlink
  <2> HIDE DEF a, b, u
  <2>4. QED
    BY <2>1, <2>2, <2>3, <1>1 DEF LinkFunctions
<1>4. ASSUME NEW p \in (live \ {n}) \cup {head}
      PROVE  u.next[p] \in (live \ {n}) \cup {tail} /\ u.prev[u.next[p]] = p
  <2>1. p \in Places /\ p # n
    BY <1>1 DEF Places
  <2>2. l.next[p] \in live \cup {tail} /\ l.prev[l.next[p]] = p
    BY DEF Linked
  <2>3. CASE p = a
    <3>1. b # n
      BY <1>2, <2>1, <2>3
    <3> QED
      BY <1>1, <1>2, <1>3, <2>1, <2>3, <3>1 DEF Places
  <2>4. CASE p # a
    <3>1. l.next[p] # n /\ l.next[p] # b
      BY <1>2, <2>1, <2>2, <2>4
    <3> QED
      BY <1>1, <1>2, <1>3, <2>1, <2>2, <2>4, <3>1 DEF Places
  <2> QED BY <2>3, <2>4
<1>5. ASSUME NEW p \in (live \ {n}) \cup {tail}
      PROVE  u.prev[p] \in (live \ {n}) \cup {head} /\ u.next[u.prev[p]] = p
  <2>1. p \in Places /\ p # n
    BY <1>1 DEF Places
  <2>2. l.prev[p] \in live \cup {head} /\ l.next[l.prev[p]] = p
    BY DEF Linked
  <2>3. CASE p = b
    <3>1. a # n
      BY <1>2, <2>1, <2>3
    <3> QED
      BY <1>1, <1>2, <1>3, <2>1, <2>3, <3>1 DEF Places
  <2>4. CASE p # b
    <3>1. l.prev[p] # n /\ l.prev[p] # a
      BY <1>2, <2>1, <2>2, <2>4
    <3> QED
      BY <1>1, <1>2, <1>3, <2>1, <2>2, <2>4, <3>1 DEF Places
  <2> QED BY <2>3, <2>4
<1> HIDE DEF u
<1> QED BY <1>3, <1>4, <1>5 DEF Linked, u

\* The same, of a node that is unlinked and not deleted.
LEMMA UnlinkOnlyKeeps ==
  ASSUME NEW l \in LinkFunctions, NEW live \in SUBSET Nodes, NEW n \in live,
         Linked(l, live)
  PROVE  /\ Unlink(l, n) \in LinkFunctions
         /\ Linked(Unlink(l, n), live \ {n})
<1> DEFINE u == Unlink(l, n)
           d == UnlinkAndDelete(l, n)
<1>1. /\ l.next \in [Places -> Places \cup {Null}]
      /\ l.prev \in [Places -> Places \cup {Null}]
      /\ l.prev[n] \in Places /\ l.next[n] \in Places
  BY DEF LinkFunctions, Linked, Places
<1>2. u \in LinkFunctions
  BY <1>1 DEF Unlink, LinkFunctions
<1>3. /\ d.next = [u.next EXCEPT ![n] = Null] /\ d.prev = [u.prev EXCEPT ![n] = Null]
      /\ d \in LinkFunctions /\ Linked(d, live \ {n})
  BY UnlinkKeeps DEF UnlinkAndDelete, Forget
<1>4. n # head /\ n # tail
  BY CacheAssumption
<1> HIDE DEF u, d
<1>5. \A p \in Places : p # n => u.next[p] = d.next[p] /\ u.prev[p] = d.prev[p]
  BY <1>2, <1>3 DEF LinkFunctions
<1>6. Linked(u, live \ {n})
  BY <1>3, <1>4, <1>5 DEF Linked, Places
<1> QED BY <1>2, <1>6 DEF u

\* A node that is not in the list can be made its first one.
LEMMA LinkKeeps ==
  ASSUME NEW l \in LinkFunctions, NEW live \in SUBSET Nodes,
         NEW n \in Nodes \ live, Linked(l, live)
  PROVE  /\ LinkFirst(l, n) \in LinkFunctions
         /\ Linked(LinkFirst(l, n), live \cup {n})
<1> DEFINE f == l.next[head]
           u == LinkFirst(l, n)
<1>1. /\ n \in Places /\ n # head /\ n # tail /\ head # tail
      /\ head \in Places /\ tail \in Places /\ n \notin live
      /\ head \notin live /\ tail \notin live /\ live \subseteq Places
  BY CacheAssumption DEF Places
<1>2. f \in live \cup {tail} /\ l.prev[f] = head /\ f # n /\ f # head /\ f \in Places
  BY <1>1 DEF Linked
<1>3. /\ u.next = [p \in Places |-> IF p = head THEN n
                                    ELSE IF p = n THEN f ELSE l.next[p]]
      /\ u.prev = [p \in Places |-> IF p = f THEN n
                                    ELSE IF p = n THEN head ELSE l.prev[p]]
      /\ u \in LinkFunctions
  <2>1. l.next \in [Places -> Places \cup {Null}] /\ l.prev \in [Places -> Places \cup {Null}]
    BY DEF LinkFunctions
  <2>2. u = [next |-> [[l.next EXCEPT ![n] = f] EXCEPT ![head] = n],
             prev |-> [[l.prev EXCEPT ![n] = head] EXCEPT ![f] = n]]
    BY DEF LinkFirst
  <2> HIDE DEF f, u
  <2>3. QED
    BY <2>1, <2>2, <1>1, <1>2 DEF LinkFunctions
<1> HIDE DEF f, u
<1>4. ASSUME NEW p \in (live \cup {n}) \cup {head}
      PROVE  u.next[p] \in (live \cup {n}) \cup {tail} /\ u.prev[u.next[p]] = p
  <2>1. CASE p = head
    BY <1>1, <1>2, <1>3, <2>1
  <2>2. CASE p = n
    BY <1>1, <1>2, <1>3, <2>2
  <2>3. CASE p \in live
    <3>1. l.next[p] \in live \cup {tail} /\ l.prev[l.next[p]] = p /\ p # head
      BY <1>1, <2>3 DEF Linked
    <3>2. l.next[p] # f
      BY <1>2, <3>1
    <3> QED BY <1>1, <1>3, <2>3, <3>1, <3>2
  <2> QED BY <2>1, <2>2, <2>3
<1>5. ASSUME NEW p \in (live \cup {n}) \cup {tail}
      PROVE  u.prev[p] \in (live \cup {n}) \cup {head} /\ u.next[u.prev[p]] = p
  <2>1. CASE p = f
    BY <1>1, <1>2, <1>3, <2>1
  <2>2. CASE p = n
    BY <1>1, <1>2, <1>3, <2>2
  <2>3. CASE p \in live \cup {tail} /\ p # f
    <3>1. l.prev[p] \in live \cup {head} /\ l.next[l.prev[p]] = p
      BY <2>3 DEF Linked
    <3>2. l.prev[p] # head /\ l.prev[p] # n
      BY <1>1, <2>3, <3>1 DEF f
    <3> QED BY <1>1, <1>3, <2>3, <3>1, <3>2
  <2> QED BY <2>1, <2>2, <2>3
<1> QED BY <1>3, <1>4, <1>5 DEF Linked, u

-----------------------------------------------------------------------------
Maps     == [Keys -> Nodes \cup {Null}]
Contents == [Nodes -> Entries \cup {Null}]
LiveIn(content) == {n \in Nodes : content[n] # Null}

\* MapIsList, of any map and contents.
Agree(map, content) ==
  /\ \A k \in Keys :
       map[k] # Null => map[k] \in LiveIn(content) /\ content[map[k]].key = k
  /\ \A n \in LiveIn(content) : map[content[n].key] = n

\* Taking the entry of a key out of both keeps map and nodes in agreement.
LEMMA RemoveKeeps ==
  ASSUME NEW map \in Maps, NEW content \in Contents, Agree(map, content),
         NEW k \in Keys, map[k] # Null
  PROVE  /\ [map EXCEPT ![k] = Null] \in Maps
         /\ [content EXCEPT ![map[k]] = Null] \in Contents
         /\ Agree([map EXCEPT ![k] = Null], [content EXCEPT ![map[k]] = Null])
         /\ LiveIn([content EXCEPT ![map[k]] = Null]) = LiveIn(content) \ {map[k]}
<1> DEFINE m == [map EXCEPT ![k] = Null]
           c == [content EXCEPT ![map[k]] = Null]
<1>1. map[k] \in Nodes /\ content[map[k]].key = k
  BY DEF Agree, LiveIn
<1>2. /\ m \in Maps /\ m[k] = Null
      /\ \A j \in Keys \ {k} : m[j] = map[j]
  BY DEF Maps
<1>3. /\ c \in Contents /\ c[map[k]] = Null
      /\ \A n \in Nodes \ {map[k]} : c[n] = content[n]
  BY <1>1 DEF Contents
<1> HIDE DEF m, c
<1>4. LiveIn(c) = LiveIn(content) \ {map[k]}
  BY <1>3 DEF LiveIn
<1>5. ASSUME NEW j \in Keys, m[j] # Null
      PROVE  m[j] \in LiveIn(c) /\ c[m[j]].key = j
  <2>1. j # k /\ m[j] = map[j]
    BY <1>2, <1>5
  <2>2. map[j] \in LiveIn(content) /\ content[map[j]].key = j
    BY <2>1, <1>5 DEF Agree
  <2>3. map[j] # map[k]
    BY <1>1, <2>1, <2>2
  <2> QED BY <1>3, <1>4, <2>1, <2>2, <2>3 DEF LiveIn
<1>6. ASSUME NEW n \in LiveIn(c)
      PROVE  m[c[n].key] = n
  <2>1. n \in LiveIn(content) /\ n # map[k] /\ c[n] = content[n] /\ n \in Nodes
    BY <1>3, <1>4 DEF LiveIn
  <2>2. content[n].key \in Keys
    BY <2>1 DEF Contents, LiveIn, Entries
  <2> QED BY <1>2, <2>1, <2>2 DEF Agree
<1> QED BY <1>2, <1>3, <1>4, <1>5, <1>6 DEF Agree, m, c

\* The map and the contents with an entry more, as put makes them.
Mapped(map, k, n) == [map EXCEPT ![k] = n]
Filled(content, n, k, v) == [content EXCEPT ![n] = [key |-> k, value |-> v]]

\* Putting a key that is in neither into a free node keeps them in agreement.
LEMMA AddKeeps ==
  ASSUME NEW map \in Maps, NEW content \in Contents, Agree(map, content),
         NEW k \in Keys, map[k] = Null,
         NEW n \in Nodes, content[n] = Null, NEW v \in Values
  PROVE  /\ Mapped(map, k, n) \in Maps
         /\ Filled(content, n, k, v) \in Contents
         /\ Agree(Mapped(map, k, n), Filled(content, n, k, v))
         /\ LiveIn(Filled(content, n, k, v)) = LiveIn(content) \cup {n}
<1> DEFINE m == Mapped(map, k, n)
           c == Filled(content, n, k, v)
<1>1. [key |-> k, value |-> v] \in Entries /\ [key |-> k, value |-> v] # Null /\ n # Null
  BY CacheAssumption DEF Entries, Places
<1>2. /\ m \in Maps /\ m[k] = n
      /\ \A j \in Keys \ {k} : m[j] = map[j]
  BY DEF Maps, Mapped
<1>3. /\ c \in Contents /\ c[n] = [key |-> k, value |-> v]
      /\ \A i \in Nodes \ {n} : c[i] = content[i]
  BY <1>1 DEF Contents, Filled
<1> HIDE DEF m, c
<1>4. LiveIn(c) = LiveIn(content) \cup {n}
  BY <1>1, <1>3 DEF LiveIn
<1>5. ASSUME NEW j \in Keys, m[j] # Null
      PROVE  m[j] \in LiveIn(c) /\ c[m[j]].key = j
  <2>1. CASE j = k
    BY <1>2, <1>3, <1>4, <2>1
  <2>2. CASE j # k
    BY <1>2, <1>3, <1>4, <1>5, <2>2 DEF Agree, LiveIn
  <2> QED BY <2>1, <2>2
<1>6. ASSUME NEW i \in LiveIn(c)
      PROVE  m[c[i].key] = i
  <2>1. CASE i = n
    BY <1>2, <1>3, <2>1
  <2>2. CASE i # n
    <3>1. i \in LiveIn(content) /\ i \in Nodes /\ c[i] = content[i]
      BY <1>3, <1>4, <2>2 DEF LiveIn
    <3>2. content[i].key \in Keys /\ map[content[i].key] = i
      BY <3>1 DEF Contents, LiveIn, Entries, Agree
    <3>3. content[i].key # k
      BY <3>1, <3>2, CacheAssumption DEF Places
    <3> QED BY <1>2, <3>1, <3>2, <3>3
  <2> QED BY <2>1, <2>2
<1> QED BY <1>2, <1>3, <1>4, <1>5, <1>6 DEF Agree, m, c

-----------------------------------------------------------------------------
LEMMA InitIInv == Init => IInv
<1> SUFFICES ASSUME Init PROVE IInv
  OBVIOUS
<1>1. /\ Live = {} /\ Used(cache) = {}
  BY DEF Init, Live, Used
<1>2. TypeOK
  BY CacheAssumption DEF Init, TypeOK, Places
<1>3. Linked(links, Live)
  BY <1>1, CacheAssumption DEF Init, Linked, Places
<1>4. MapIsList
  BY <1>1 DEF Init, MapIsList
<1>5. Bounded
  BY <1>1, FS_EmptySet, CacheAssumption DEF Bounded
<1> QED BY <1>2, <1>3, <1>4, <1>5 DEF IInv, Consistent

\* What the map and the nodes are without key k (put and erase): consistent,
\* and without it.
LEMMA WithoutKeeps ==
  ASSUME IInv, NEW k \in Keys
  PROVE  LET map0 == [cache EXCEPT ![k] = Null] IN
         /\ map0 \in Maps /\ EntryWithout(k) \in Contents
         /\ Agree(map0, EntryWithout(k))
         /\ LinksWithout(k) \in LinkFunctions
         /\ Linked(LinksWithout(k), LiveIn(EntryWithout(k)))
<1> DEFINE map0 == [cache EXCEPT ![k] = Null]
<1>1. /\ cache \in Maps /\ entry \in Contents /\ links \in LinkFunctions
      /\ Agree(cache, entry) /\ Linked(links, LiveIn(entry))
  BY DEF IInv, TypeOK, Consistent, MapIsList, Live, LiveIn, Agree, Maps,
         Contents, LinkFunctions
<1>2. CASE cache[k] = Null
  <2>1. map0 = cache
    BY <1>1, <1>2 DEF Maps
  <2> QED BY <1>1, <1>2, <2>1 DEF EntryWithout, LinksWithout
<1>3. CASE cache[k] # Null
  <2>1. cache[k] \in LiveIn(entry) /\ LiveIn(entry) \in SUBSET Nodes
    BY <1>1, <1>3 DEF Agree, LiveIn
  <2>2. /\ LinksWithout(k) \in LinkFunctions
        /\ Linked(LinksWithout(k), LiveIn(entry) \ {cache[k]})
    BY <1>1, <1>3, <2>1, UnlinkKeeps DEF LinksWithout
  <2>3. EntryWithout(k) = [entry EXCEPT ![cache[k]] = Null]
    BY <1>3 DEF EntryWithout
  <2>4. /\ map0 \in Maps /\ EntryWithout(k) \in Contents
        /\ Agree(map0, EntryWithout(k))
        /\ LiveIn(EntryWithout(k)) = LiveIn(entry) \ {cache[k]}
    <3>1. /\ [cache EXCEPT ![k] = Null] \in Maps
          /\ [entry EXCEPT ![cache[k]] = Null] \in Contents
          /\ Agree([cache EXCEPT ![k] = Null], [entry EXCEPT ![cache[k]] = Null])
          /\ LiveIn([entry EXCEPT ![cache[k]] = Null]) = LiveIn(entry) \ {cache[k]}
      BY <1>1, <1>3, RemoveKeeps
    <3> HIDE DEF map0
    <3>2. map0 = [cache EXCEPT ![k] = Null]
      BY DEF map0
    <3> QED BY <2>3, <3>1, <3>2
  <2> QED BY <2>2, <2>4
<1> QED BY <1>2, <1>3

\* A consistent map, contents and list, of bounded size, make up the invariant.
LEMMA AssembleIInv ==
  ASSUME cache' \in Maps, entry' \in Contents, links' \in LinkFunctions,
         result' \in Values \cup {Null},
         Agree(cache', entry'), Linked(links', LiveIn(entry')),
         Cardinality(Used(cache')) <= Capacity
  PROVE  IInv'
<1>1. Live' = LiveIn(entry') /\ Used(cache)' = Used(cache')
  BY DEF Live, LiveIn, Used
<1> QED
  BY <1>1 DEF IInv, TypeOK, Consistent, MapIsList, Bounded, Live, LiveIn, Agree,
              Maps, Contents, LinkFunctions, Linked

\* The map has finitely many keys.
LEMMA UsedIsFinite ==
  ASSUME NEW map \in Maps
  PROVE  IsFiniteSet(Used(map)) /\ Cardinality(Used(map)) \in Nat
BY CacheAssumption, FS_Subset, FS_CardinalityType DEF Used

LEMMA GetKeeps == ASSUME IInv, NEW k \in Keys, Get(k) PROVE IInv'
<1>1. /\ cache \in Maps /\ entry \in Contents /\ links \in LinkFunctions
      /\ Agree(cache, entry) /\ Linked(links, LiveIn(entry))
      /\ Cardinality(Used(cache)) <= Capacity /\ result \in Values \cup {Null}
  BY DEF IInv, TypeOK, Consistent, MapIsList, Bounded, Live, LiveIn, Agree, Maps,
         Contents, LinkFunctions
<1>2. cache' = cache /\ entry' = entry
  BY DEF Get
<1>3. CASE cache[k] = Null
  <2>1. links' = links /\ result' = Null
    BY <1>3 DEF Get
  <2> QED BY <1>1, <1>2, <2>1, AssembleIInv
<1>4. CASE cache[k] # Null
  <2> DEFINE n == cache[k]
             l == Unlink(links, n)
  <2>1. n \in LiveIn(entry) /\ n \in Nodes
    BY <1>1, <1>4 DEF Agree, LiveIn
  <2>2. links' = LinkFirst(l, n) /\ result' = entry[n].value
    BY <1>4 DEF Get
  <2>3. l \in LinkFunctions /\ Linked(l, LiveIn(entry) \ {n})
    BY <1>1, <2>1, UnlinkOnlyKeeps DEF LiveIn
  <2>4. LiveIn(entry) = (LiveIn(entry) \ {n}) \cup {n}
    BY <2>1
  <2>5. links' \in LinkFunctions /\ Linked(links', LiveIn(entry))
    <3> HIDE DEF l, n
    <3>1. n \in Nodes \ (LiveIn(entry) \ {n}) /\ LiveIn(entry) \ {n} \in SUBSET Nodes
      BY <2>1 DEF LiveIn
    <3>2. Linked(links', (LiveIn(entry) \ {n}) \cup {n}) /\ links' \in LinkFunctions
      BY <2>2, <2>3, <3>1, LinkKeeps
    <3> QED BY <2>4, <3>2
  <2>6. result' \in Values
    BY <1>1, <2>1, <2>2 DEF Contents, Entries, LiveIn
  <2> QED BY <1>1, <1>2, <2>5, <2>6, AssembleIInv
<1> QED BY <1>3, <1>4

LEMMA EraseKeeps == ASSUME IInv, NEW k \in Keys, Erase(k) PROVE IInv'
<1>1. /\ cache' \in Maps /\ entry' \in Contents /\ links' \in LinkFunctions
      /\ Agree(cache', entry') /\ Linked(links', LiveIn(entry'))
  BY WithoutKeeps DEF Erase
<1>2. Used(cache') \subseteq Used(cache) /\ cache \in Maps
  BY DEF IInv, TypeOK, Erase, Used, Maps
<1>3. Cardinality(Used(cache')) <= Capacity
  <2>1. Cardinality(Used(cache')) <= Cardinality(Used(cache))
    BY <1>2, UsedIsFinite, FS_Subset
  <2> QED BY <2>1, <1>1, <1>2, UsedIsFinite, CacheAssumption DEF IInv, Consistent, Bounded
<1>4. result' \in Values \cup {Null}
  BY DEF IInv, TypeOK, Erase
<1> QED BY <1>1, <1>3, <1>4, AssembleIInv

\* put, before the test of the size: the new entry is added to what is left
\* without the key.
Added(k, n)      == [cache EXCEPT ![k] = n]
Content(k, v, n) == [EntryWithout(k) EXCEPT ![n] = [key |-> k, value |-> v]]
List(k, n)       == LinkFirst(LinksWithout(k), n)

LEMMA AddedKeeps ==
  ASSUME IInv, NEW k \in Keys, NEW v \in Values, NEW n \in Nodes,
         EntryWithout(k)[n] = Null
  PROVE  /\ Added(k, n) \in Maps /\ Content(k, v, n) \in Contents
         /\ Agree(Added(k, n), Content(k, v, n))
         /\ LiveIn(Content(k, v, n)) = LiveIn(EntryWithout(k)) \cup {n}
         /\ List(k, n) \in LinkFunctions
         /\ Linked(List(k, n), LiveIn(Content(k, v, n)))
         /\ Cardinality(Used(Added(k, n))) <= Capacity + 1
<1> DEFINE map0 == [cache EXCEPT ![k] = Null]
           m == Added(k, n)
           c == Content(k, v, n)
           l == List(k, n)
<1>1. /\ cache \in Maps /\ Cardinality(Used(cache)) <= Capacity /\ Capacity \in Nat
  BY CacheAssumption DEF IInv, TypeOK, Maps, Consistent, Bounded
<1>2. /\ map0 \in Maps /\ EntryWithout(k) \in Contents /\ Agree(map0, EntryWithout(k))
      /\ LinksWithout(k) \in LinkFunctions
      /\ Linked(LinksWithout(k), LiveIn(EntryWithout(k)))
      /\ map0[k] = Null
  BY <1>1, WithoutKeeps DEF Maps
<1>3. m = [map0 EXCEPT ![k] = n]
  BY <1>1 DEF Maps, Added
<1>4. /\ m \in Maps /\ c \in Contents /\ Agree(m, c)
      /\ LiveIn(c) = LiveIn(EntryWithout(k)) \cup {n}
  <2>1. c = Filled(EntryWithout(k), n, k, v) /\ m = Mapped(map0, k, n)
    BY <1>3 DEF Filled, Mapped, Content
  <2> HIDE DEF map0, m, c, l
  <2> QED BY <1>2, <2>1, AddKeeps
<1>5. l \in LinkFunctions /\ Linked(l, LiveIn(c))
  <2>1. n \in Nodes \ LiveIn(EntryWithout(k)) /\ LiveIn(EntryWithout(k)) \in SUBSET Nodes
    BY DEF LiveIn
  <2> QED BY <1>2, <1>4, <2>1, LinkKeeps DEF List
<1>6. Cardinality(Used(m)) <= Capacity + 1
  <2>1. Used(m) \subseteq Used(cache) \cup {k}
    BY <1>1 DEF Used, Maps, Added
  <2>2. /\ IsFiniteSet(Used(cache) \cup {k})
        /\ Cardinality(Used(cache) \cup {k}) <= Cardinality(Used(cache)) + 1
        /\ Cardinality(Used(cache)) \in Nat
        /\ Cardinality(Used(cache) \cup {k}) \in Nat
    <3>1. IsFiniteSet(Used(cache)) /\ Cardinality(Used(cache)) \in Nat
      BY <1>1, UsedIsFinite
    <3>2. /\ IsFiniteSet(Used(cache) \cup {k})
          /\ \/ Cardinality(Used(cache) \cup {k}) = Cardinality(Used(cache)) + 1
             \/ Cardinality(Used(cache) \cup {k}) = Cardinality(Used(cache))
      BY <3>1, FS_AddElement
    <3> QED BY <3>1, <3>2
  <2>3. Cardinality(Used(m)) <= Cardinality(Used(cache) \cup {k})
    BY <2>1, <2>2, FS_Subset
  <2> HIDE DEF m
  <2>4. Cardinality(Used(m)) \in Nat
    BY <1>4, UsedIsFinite
  <2> QED BY <1>1, <2>2, <2>3, <2>4
<1> QED BY <1>4, <1>5, <1>6

\* What put leaves: all of it, or all but the last node.
LEMMA PutIs ==
  ASSUME NEW k \in Keys, NEW v \in Values, Put(k, v)
  PROVE  \E n \in Nodes :
           LET m == Added(k, n)  c == Content(k, v, n)  l == List(k, n)
               z == List(k, n).prev[tail]
           IN  /\ EntryWithout(k)[n] = Null /\ UNCHANGED result
               /\ \/ /\ ~ (Cardinality(Used(m)) > Capacity)
                     /\ cache' = m /\ entry' = c /\ links' = l
                  \/ /\ Cardinality(Used(m)) > Capacity
                     /\ cache' = [m EXCEPT ![c[z].key] = Null]
                     /\ entry' = [c EXCEPT ![z] = Null]
                     /\ links' = UnlinkAndDelete(l, z)
BY DEF Put, TooMany, Added, Content, List

\* If that is too many, the last node of the list is a live one and can be
\* removed again.
LEMMA PutKeeps ==
  ASSUME IInv, NEW k \in Keys, NEW v \in Values, Put(k, v) PROVE IInv'
<1>1. PICK n \in Nodes :
        /\ EntryWithout(k)[n] = Null /\ UNCHANGED result
        /\ \/ /\ ~ (Cardinality(Used(Added(k, n))) > Capacity)
              /\ cache' = Added(k, n) /\ entry' = Content(k, v, n)
              /\ links' = List(k, n)
           \/ /\ Cardinality(Used(Added(k, n))) > Capacity
              /\ cache' = [Added(k, n) EXCEPT
                             ![Content(k, v, n)[List(k, n).prev[tail]].key] = Null]
              /\ entry' = [Content(k, v, n) EXCEPT ![List(k, n).prev[tail]] = Null]
              /\ links' = UnlinkAndDelete(List(k, n), List(k, n).prev[tail])
  BY PutIs
<1> DEFINE m == Added(k, n)
           c == Content(k, v, n)
           l == List(k, n)
           z == l.prev[tail]
<1>2. result' \in Values \cup {Null} /\ Capacity \in Nat
  BY <1>1, CacheAssumption DEF IInv, TypeOK
<1>5. /\ m \in Maps /\ c \in Contents /\ Agree(m, c)
      /\ l \in LinkFunctions /\ Linked(l, LiveIn(c))
      /\ Cardinality(Used(m)) <= Capacity + 1
  BY <1>1, AddedKeeps
<1>7. n # tail /\ l.next[head] = n
  <2>1. LinksWithout(k).next \in [Places -> Places \cup {Null}] /\ head \in Places
    BY WithoutKeeps DEF LinkFunctions, Places
  <2> QED BY <2>1, CacheAssumption DEF LinkFirst, List
<1> HIDE DEF m, c, l
<1>8. CASE ~ (Cardinality(Used(m)) > Capacity)
  <2>1. cache' = m /\ entry' = c /\ links' = l
    BY <1>1, <1>8 DEF m, c, l
  <2>2. Cardinality(Used(m)) <= Capacity
    BY <1>2, <1>5, <1>8, UsedIsFinite
  <2> QED BY <1>2, <1>5, <2>1, <2>2, AssembleIInv
<1>9. CASE Cardinality(Used(m)) > Capacity
  <2>1. /\ cache' = [m EXCEPT ![c[z].key] = Null]
        /\ entry' = [c EXCEPT ![z] = Null]
        /\ links' = UnlinkAndDelete(l, z)
    BY <1>1, <1>9 DEF m, c, l
  <2>2. z \in LiveIn(c)
    BY <1>5, <1>7 DEF Linked
  <2>3. c[z].key \in Keys /\ m[c[z].key] = z /\ z \in Nodes /\ z # Null
    BY <1>5, <2>2, CacheAssumption DEF Agree, LiveIn, Contents, Entries, Places
  <2> DEFINE j == c[z].key
  <2> HIDE DEF j, z
  <2>4. /\ cache' \in Maps /\ entry' \in Contents /\ Agree(cache', entry')
        /\ LiveIn(entry') = LiveIn(c) \ {z}
    <3>1. /\ j \in Keys /\ m[j] = z /\ m[j] # Null
          /\ cache' = [m EXCEPT ![j] = Null] /\ entry' = [c EXCEPT ![m[j]] = Null]
      BY <2>1, <2>3 DEF j
    <3>2. /\ [m EXCEPT ![j] = Null] \in Maps
          /\ [c EXCEPT ![m[j]] = Null] \in Contents
          /\ Agree([m EXCEPT ![j] = Null], [c EXCEPT ![m[j]] = Null])
          /\ LiveIn([c EXCEPT ![m[j]] = Null]) = LiveIn(c) \ {m[j]}
      BY <1>5, <3>1, RemoveKeeps
    <3> QED BY <3>1, <3>2
  <2>5. links' \in LinkFunctions /\ Linked(links', LiveIn(entry'))
    <3>1. LiveIn(c) \in SUBSET Nodes
      BY DEF LiveIn
    <3> QED BY <1>5, <2>1, <2>2, <2>4, <3>1, UnlinkKeeps
  <2>6. Cardinality(Used(cache')) <= Capacity
    <3>1. Used(cache') = Used(m) \ {j} /\ j \in Used(m)
      BY <1>5, <2>1, <2>3 DEF Used, Maps, j
    <3>2. Cardinality(Used(m) \ {j}) = Cardinality(Used(m)) - 1
      BY <1>5, <3>1, UsedIsFinite, FS_RemoveElement
    <3>3. Cardinality(Used(m)) \in Nat
      BY <1>5, UsedIsFinite
    <3> QED BY <1>2, <1>5, <3>1, <3>2, <3>3
  <2> QED BY <1>2, <2>4, <2>5, <2>6, AssembleIInv
<1> QED BY <1>8, <1>9

LEMMA NextKeeps == IInv /\ [Next]_vars => IInv'
<1> SUFFICES ASSUME IInv, [Next]_vars PROVE IInv'
  OBVIOUS
<1>1. ASSUME NEW k \in Keys, Get(k) PROVE IInv'
  BY <1>1, GetKeeps
<1>2. ASSUME NEW k \in Keys, Erase(k) PROVE IInv'
  BY <1>2, EraseKeeps
<1>3. ASSUME NEW k \in Keys, NEW v \in Values, Put(k, v) PROVE IInv'
  BY <1>3, PutKeeps
<1>4. CASE UNCHANGED vars
  BY <1>4 DEF vars, IInv, TypeOK, Consistent, Linked, MapIsList, Bounded, Live, Used
<1> QED BY <1>1, <1>2, <1>3, <1>4 DEF Next

(***************************************************************************)
(* The state of LRU_Cache keeps its types.                                 *)
(***************************************************************************)
THEOREM TypeCorrect == Spec => []TypeOK
<1>1. IInv => TypeOK
  BY DEF IInv
<1> QED BY InitIInv, NextKeeps, <1>1, PTL DEF Spec

(***************************************************************************)
(* The map and the list of LRU_Cache hold the same nodes, no pointer leads *)
(* to a deleted node and the capacity is kept, whatever is put, got and    *)
(* erased and wherever the heap puts the nodes.                            *)
(***************************************************************************)
THEOREM StaysConsistent == Spec => []Consistent
<1>1. IInv => Consistent
  BY DEF IInv
<1> QED BY InitIInv, NextKeeps, <1>1, PTL DEF Spec
-----------------------------------------------------------------------------
(***************************************************************************)
(* The cache implements RecencyList.  Pointers that are inverse to each    *)
(* other could still form several rings, so that the list reaches all the  *)
(* nodes alive is an invariant of its own: some sequence names them in the *)
(* order of the list.  Order, a recursive walk along the pointers, is then *)
(* what that sequence says.                                                *)
(***************************************************************************)

\* The places of the list with the nodes s, the sentinels included ...
PlaceAt(n, s, i) == IF i = 0 THEN head ELSE IF i = n + 1 THEN tail ELSE s[i]

\* ... and what it is for them to be linked in this order.
Chain(l, n, s) ==
  /\ n \in Nat /\ s \in [1 .. n -> Nodes]
  /\ \A i, j \in 1 .. n : s[i] = s[j] => i = j
  /\ \A i \in 0 .. n : l.next[PlaceAt(n, s, i)] = PlaceAt(n, s, i + 1)

Lists(n, s, live) == live = {s[i] : i \in 1 .. n}

Listed(l, live) == \E n, s : Chain(l, n, s) /\ Lists(n, s, live)

\* The sequence without its p-th node, and with one in front.
Without(n, s, p) == [i \in 1 .. n - 1 |-> s[IF i < p THEN i ELSE i + 1]]
With(n, s, x)    == [i \in 1 .. n + 1 |-> IF i = 1 THEN x ELSE s[i - 1]]

LEMMA PlacesAreDistinct ==
  ASSUME NEW n \in Nat, NEW s \in [1 .. n -> Nodes],
         \A i, j \in 1 .. n : s[i] = s[j] => i = j,
         NEW i \in 0 .. n + 1, NEW j \in 0 .. n + 1
  PROVE  /\ PlaceAt(n, s, i) \in Places
         /\ PlaceAt(n, s, i) = PlaceAt(n, s, j) => i = j
BY CacheAssumption DEF PlaceAt, Places

LEMMA WithoutIs ==
  ASSUME NEW n \in Nat, NEW s \in [1 .. n -> Nodes], NEW p \in 1 .. n,
         \A i, j \in 1 .. n : s[i] = s[j] => i = j, NEW live, Lists(n, s, live)
  PROVE  /\ n - 1 \in Nat /\ Without(n, s, p) \in [1 .. n - 1 -> Nodes]
         /\ \A i, j \in 1 .. n - 1 :
              Without(n, s, p)[i] = Without(n, s, p)[j] => i = j
         /\ Lists(n - 1, Without(n, s, p), live \ {s[p]})
<1> DEFINE w == Without(n, s, p)
<1>1. \A i \in 1 .. n - 1 : w[i] = s[IF i < p THEN i ELSE i + 1]
  BY DEF Without
<1>2. w \in [1 .. n - 1 -> Nodes]
  BY DEF Without
<1> HIDE DEF w
<1>3. \A i, j \in 1 .. n - 1 : w[i] = w[j] => i = j
  BY <1>1
<1>4. ASSUME NEW x \in live \ {s[p]} PROVE \E i \in 1 .. n - 1 : w[i] = x
  <2>1. PICK i \in 1 .. n : s[i] = x
    BY DEF Lists
  <2>2. CASE i < p
    BY <1>1, <2>1, <2>2
  <2>3. CASE i > p
    <3>1. i - 1 \in 1 .. n - 1 /\ w[i - 1] = s[i]
      BY <1>1, <2>3
    <3> QED BY <2>1, <3>1
  <2>4. i # p
    BY <2>1
  <2> QED BY <2>2, <2>3, <2>4
<1>5. ASSUME NEW i \in 1 .. n - 1 PROVE w[i] \in live \ {s[p]}
  <2>1. (IF i < p THEN i ELSE i + 1) \in 1 .. n /\ (IF i < p THEN i ELSE i + 1) # p
    OBVIOUS
  <2> QED BY <1>1, <2>1 DEF Lists
<1>6. live \ {s[p]} = {w[i] : i \in 1 .. n - 1}
  BY <1>4, <1>5
<1> QED BY <1>2, <1>3, <1>6 DEF w, Lists

\* A node that is unlinked is no more in the order.
LEMMA ChainUnlink ==
  ASSUME NEW l \in LinkFunctions, NEW live \in SUBSET Nodes, Linked(l, live),
         NEW n, NEW s, Chain(l, n, s), Lists(n, s, live), NEW p \in 1 .. n
  PROVE  /\ Chain(Unlink(l, s[p]), n - 1, Without(n, s, p))
         /\ Chain(UnlinkAndDelete(l, s[p]), n - 1, Without(n, s, p))
         /\ Lists(n - 1, Without(n, s, p), live \ {s[p]})
<1> DEFINE w == Without(n, s, p)
           a == PlaceAt(n, s, p - 1)
           b == PlaceAt(n, s, p + 1)
           u == Unlink(l, s[p])
           d == UnlinkAndDelete(l, s[p])
<1>1. /\ n \in Nat /\ s \in [1 .. n -> Nodes]
      /\ \A i, j \in 1 .. n : s[i] = s[j] => i = j
      /\ \A i \in 0 .. n : l.next[PlaceAt(n, s, i)] = PlaceAt(n, s, i + 1)
  BY DEF Chain
<1>0. \A i, j \in 0 .. n + 1 :
        PlaceAt(n, s, i) \in Places /\ (PlaceAt(n, s, i) = PlaceAt(n, s, j) => i = j)
  BY <1>1, PlacesAreDistinct
<1>2. /\ n - 1 \in Nat /\ w \in [1 .. n - 1 -> Nodes]
      /\ \A i, j \in 1 .. n - 1 : w[i] = w[j] => i = j
      /\ Lists(n - 1, w, live \ {s[p]})
  BY <1>1, WithoutIs
<1>3. PlaceAt(n, s, p) = s[p] /\ p - 1 \in 0 .. n /\ p + 1 \in 0 .. n + 1
  BY <1>1 DEF PlaceAt
<1>4. l.next[a] = s[p] /\ l.next[s[p]] = b /\ a \in Places
  <2>1. p - 1 \in 0 .. n /\ (p - 1) + 1 = p /\ p \in 0 .. n /\ p - 1 \in 0 .. n + 1
    BY <1>1
  <2>2. l.next[a] = PlaceAt(n, s, p)
    BY <1>1, <2>1
  <2>3. l.next[PlaceAt(n, s, p)] = b
    BY <1>1, <2>1
  <2>4. a \in Places
    BY <1>0, <2>1
  <2> QED BY <1>3, <2>2, <2>3, <2>4
<1>5. l.prev[s[p]] = a
  <2>1. a \in live \cup {head}
    BY <1>1 DEF PlaceAt, Lists
  <2> QED BY <1>4, <2>1 DEF Linked
<1>6. \A q \in Places : q # s[p] =>
         /\ u.next[q] = IF q = a THEN b ELSE l.next[q]
         /\ d.next[q] = IF q = a THEN b ELSE l.next[q]
  <2>1. l.next \in [Places -> Places \cup {Null}] /\ s[p] \in Places
    BY <1>1 DEF LinkFunctions, Places
  <2>2. u.next = [l.next EXCEPT ![a] = b]
    BY <1>4, <1>5 DEF Unlink
  <2>3. d.next = [[l.next EXCEPT ![a] = b] EXCEPT ![s[p]] = Null]
    BY <1>4, <1>5 DEF UnlinkAndDelete, Forget, Unlink
  <2> HIDE DEF a, b, u, d
  <2> QED BY <2>1, <2>2, <2>3
<1>7. ASSUME NEW i \in 0 .. n
      PROVE  PlaceAt(n - 1, w, i) = PlaceAt(n, s, IF i < p THEN i ELSE i + 1)
  BY <1>1 DEF PlaceAt, Without
<1> HIDE DEF w, a, b, u, d
<1>8. ASSUME NEW i \in 0 .. n - 1
      PROVE  LET q == PlaceAt(n - 1, w, i) IN
             /\ q \in Places /\ q # s[p]
             /\ (IF q = a THEN b ELSE l.next[q]) = PlaceAt(n - 1, w, i + 1)
  <2>0. i \in 0 .. n /\ i + 1 \in 0 .. n /\ i \in 0 .. n + 1 /\ i + 1 \in 0 .. n + 1
    BY <1>1
  <2>1. CASE i < p - 1
    <3>1. PlaceAt(n - 1, w, i) = PlaceAt(n, s, i)
      BY <1>7, <2>0, <2>1
    <3>2. PlaceAt(n - 1, w, i + 1) = PlaceAt(n, s, i + 1)
      <4>1. i + 1 < p
        BY <2>1
      <4> QED BY <1>7, <2>0, <4>1
    <3>3. PlaceAt(n, s, i) # a /\ PlaceAt(n, s, i) # s[p] /\ PlaceAt(n, s, i) \in Places
      <4>1. p - 1 \in 0 .. n + 1 /\ p \in 0 .. n + 1 /\ i # p - 1 /\ i # p
        BY <1>1, <2>1
      <4> QED BY <1>0, <1>3, <2>0, <4>1 DEF a
    <3> QED BY <1>1, <2>0, <3>1, <3>2, <3>3
  <2>2. CASE i = p - 1
    <3>1. PlaceAt(n - 1, w, i) = a
      <4>1. i < p
        BY <2>2
      <4> QED BY <1>7, <2>0, <2>2, <4>1 DEF a
    <3>2. PlaceAt(n - 1, w, i + 1) = b
      <4>1. ~ (i + 1 < p) /\ (i + 1) + 1 = p + 1
        BY <2>2
      <4> QED BY <1>7, <2>0, <4>1 DEF b
    <3>3. a # s[p]
      <4>1. p - 1 \in 0 .. n + 1 /\ p \in 0 .. n + 1 /\ p - 1 # p
        BY <1>1
      <4> QED BY <1>0, <1>3, <4>1 DEF a
    <3> QED BY <1>4, <3>1, <3>2, <3>3
  <2>3. CASE i > p - 1
    <3>1. PlaceAt(n - 1, w, i) = PlaceAt(n, s, i + 1)
      BY <1>7, <2>0, <2>3
    <3>2. PlaceAt(n - 1, w, i + 1) = PlaceAt(n, s, (i + 1) + 1)
      <4>1. ~ (i + 1 < p)
        BY <2>3
      <4> QED BY <1>7, <2>0, <4>1
    <3>3. /\ PlaceAt(n, s, i + 1) # a /\ PlaceAt(n, s, i + 1) # s[p]
          /\ PlaceAt(n, s, i + 1) \in Places
      <4>1. p - 1 \in 0 .. n + 1 /\ p \in 0 .. n + 1 /\ i + 1 # p - 1 /\ i + 1 # p
        BY <1>1, <2>3
      <4>2. PlaceAt(n, s, i + 1) # PlaceAt(n, s, p - 1) /\ PlaceAt(n, s, i + 1) \in Places
        BY <1>0, <2>0, <4>1
      <4>3. PlaceAt(n, s, i + 1) # PlaceAt(n, s, p)
        <5> DEFINE j == i + 1
        <5>1. j \in 0 .. n + 1 /\ j # p
          BY <2>0, <4>1
        <5> HIDE DEF j
        <5>2. PlaceAt(n, s, j) # PlaceAt(n, s, p)
          BY <1>0, <4>1, <5>1
        <5> QED BY <5>2 DEF j
      <4> QED BY <1>3, <4>2, <4>3 DEF a
    <3> QED BY <1>1, <2>0, <3>1, <3>2, <3>3
  <2> QED BY <1>1, <2>1, <2>2, <2>3
<1>9. \A i \in 0 .. n - 1 : /\ u.next[PlaceAt(n - 1, w, i)] = PlaceAt(n - 1, w, i + 1)
                            /\ d.next[PlaceAt(n - 1, w, i)] = PlaceAt(n - 1, w, i + 1)
  BY <1>6, <1>8
<1> QED BY <1>2, <1>9 DEF Chain, u, d, w

\* A node that is linked behind the head comes first in the order.
LEMMA ChainLink ==
  ASSUME NEW l \in LinkFunctions, NEW live \in SUBSET Nodes,
         NEW n, NEW s, Chain(l, n, s), Lists(n, s, live), NEW x \in Nodes \ live
  PROVE  /\ Chain(LinkFirst(l, x), n + 1, With(n, s, x))
         /\ Lists(n + 1, With(n, s, x), live \cup {x})
<1> DEFINE w == With(n, s, x)
           u == LinkFirst(l, x)
<1>1. /\ n \in Nat /\ s \in [1 .. n -> Nodes]
      /\ \A i, j \in 1 .. n : s[i] = s[j] => i = j
      /\ \A i \in 0 .. n : l.next[PlaceAt(n, s, i)] = PlaceAt(n, s, i + 1)
  BY DEF Chain
<1>2. \A i \in 1 .. n : s[i] # x
  BY DEF Lists
<1>3. w \in [1 .. n + 1 -> Nodes] /\ n + 1 \in Nat
  BY <1>1 DEF With
<1>4. w[1] = x /\ \A i \in 1 .. n : w[i + 1] = s[i]
  BY <1>1 DEF With
<1>5. \A q \in Places :
         u.next[q] = IF q = head THEN x ELSE IF q = x THEN l.next[head] ELSE l.next[q]
  <2>1. l.next \in [Places -> Places \cup {Null}] /\ x \in Places /\ head \in Places
    BY DEF LinkFunctions, Places
  <2>2. u.next = [l.next EXCEPT ![x] = l.next[head], ![head] = x]
    BY DEF LinkFirst
  <2> HIDE DEF u
  <2> QED BY <2>1, <2>2
<1>6. /\ PlaceAt(n + 1, w, 0) = head /\ PlaceAt(n + 1, w, 1) = x
      /\ \A i \in 1 .. n + 1 : PlaceAt(n + 1, w, i + 1) = PlaceAt(n, s, i)
  BY <1>1 DEF PlaceAt, With
<1> HIDE DEF w, u
<1>7. \A i, j \in 1 .. n + 1 : w[i] = w[j] => i = j
  <2>1. \A i \in 1 .. n + 1 : i # 1 => i - 1 \in 1 .. n /\ w[i] = s[i - 1]
    <3>1. \A i \in 1 .. n + 1 : i # 1 => i - 1 \in 1 .. n /\ (i - 1) + 1 = i
      BY <1>1
    <3> QED BY <1>4, <3>1
  <2> QED BY <1>1, <1>2, <1>4, <2>1
<1>8. ASSUME NEW i \in 0 .. n + 1
      PROVE  u.next[PlaceAt(n + 1, w, i)] = PlaceAt(n + 1, w, i + 1)
  <2>0. /\ head \in Places /\ x \in Places /\ head # x
        /\ l.next[head] = PlaceAt(n, s, 1)
    <3>1. PlaceAt(n, s, 0) = head /\ 0 \in 0 .. n
      BY <1>1 DEF PlaceAt
    <3> QED BY <1>1, <3>1, CacheAssumption DEF Places
  <2>1. CASE i = 0
    BY <1>5, <1>6, <2>0, <2>1
  <2>2. CASE i = 1
    <3>1. PlaceAt(n + 1, w, i + 1) = PlaceAt(n, s, 1)
      BY <1>1, <1>6, <2>2
    <3> QED BY <1>5, <1>6, <2>0, <2>2, <3>1
  <2>3. CASE i > 1
    <3> DEFINE j == i - 1
    <3>1. j \in 1 .. n /\ j + 1 = i /\ j + 1 \in 1 .. n + 1 /\ j \in 1 .. n + 1
      BY <1>1, <2>3
    <3> HIDE DEF j
    <3>2. PlaceAt(n + 1, w, i) = s[j] /\ PlaceAt(n + 1, w, i + 1) = PlaceAt(n, s, j + 1)
      <4>1. PlaceAt(n, s, j) = s[j]
        BY <1>1, <3>1 DEF PlaceAt
      <4> QED BY <1>6, <3>1, <4>1
    <3>3. l.next[s[j]] = PlaceAt(n, s, j + 1)
      <4>1. PlaceAt(n, s, j) = s[j] /\ j \in 0 .. n
        BY <1>1, <3>1 DEF PlaceAt
      <4> QED BY <1>1, <4>1
    <3>4. s[j] \in Places /\ s[j] # head /\ s[j] # x
      BY <1>1, <1>2, <3>1, CacheAssumption DEF Places
    <3> QED BY <1>5, <3>2, <3>3, <3>4
  <2> QED BY <1>1, <2>1, <2>2, <2>3
<1>9. live \cup {x} = {w[i] : i \in 1 .. n + 1}
  <2>1. ASSUME NEW y \in live PROVE \E i \in 1 .. n + 1 : w[i] = y
    <3>1. PICK i \in 1 .. n : s[i] = y
      BY DEF Lists
    <3>2. i + 1 \in 1 .. n + 1
      BY <1>1
    <3> QED BY <1>4, <3>1, <3>2
  <2>2. ASSUME NEW i \in 1 .. n + 1 PROVE w[i] \in live \cup {x}
    <3>1. CASE i = 1
      BY <1>4, <3>1
    <3>2. CASE i # 1
      <4>1. i - 1 \in 1 .. n /\ (i - 1) + 1 = i
        BY <1>1, <3>2
      <4> QED BY <1>4, <4>1 DEF Lists
    <3> QED BY <3>1, <3>2
  <2>3. 1 \in 1 .. n + 1
    BY <1>1
  <2> QED BY <1>4, <2>1, <2>2, <2>3
<1> QED BY <1>3, <1>7, <1>8, <1>9 DEF Chain, Lists, u, w

-----------------------------------------------------------------------------
\* The order, of any pointers and contents, ...
OrderOf(l, content) ==
  LET walk[i \in 0 .. Cardinality(LiveIn(content))] ==
        IF i = 0 THEN head ELSE l.next[walk[i - 1]]
  IN  [i \in 1 .. Cardinality(LiveIn(content)) |-> content[walk[i]]]

\* ... is that of the nodes in the list.
InOrder(n, s, content) == [i \in 1 .. n |-> content[s[i]]]

LEMMA Least ==
  ASSUME NEW T \in SUBSET Nat, T # {}
  PROVE  \E m \in T : \A n \in T : m <= n
<1>1. PICK m \in T : \A n \in T : <<n, m>> \notin OpToRel(<, Nat)
  BY WFMin, NatLessThanWellFounded, Zenon
<1>2. \A n \in T : ~ (n < m)
  BY <1>1, Zenon DEF OpToRel
<1> QED BY <1>2

\* There are as many nodes alive and keys in the map as in the sequence.
LEMMA CountIs ==
  ASSUME NEW map \in Maps, NEW content \in Contents, Agree(map, content),
         NEW n \in Nat, NEW s \in [1 .. n -> Nodes],
         \A i, j \in 1 .. n : s[i] = s[j] => i = j, Lists(n, s, LiveIn(content))
  PROVE  Cardinality(LiveIn(content)) = n /\ Cardinality(Used(map)) = n
<1>0. IsFiniteSet(1 .. n) /\ Cardinality(1 .. n) = n
  BY FS_Interval
<1>1. s \in Bijection(1 .. n, LiveIn(content))
  BY DEF Bijection, Injection, Surjection, IsInjective, Lists
<1> DEFINE f == [i \in 1 .. n |-> content[s[i]].key]
<1>2. ASSUME NEW i \in 1 .. n
      PROVE  f[i] \in Used(map) /\ map[f[i]] = s[i]
  <2>1. s[i] \in LiveIn(content) /\ s[i] \in Nodes
    BY DEF Lists
  <2>2. content[s[i]].key \in Keys /\ map[content[s[i]].key] = s[i]
    BY <2>1 DEF Agree, Contents, Entries, LiveIn
  <2>3. s[i] # Null
    BY <2>1, CacheAssumption DEF Places
  <2> QED BY <2>2, <2>3 DEF Used
<1>3. ASSUME NEW k \in Used(map) PROVE \E i \in 1 .. n : f[i] = k
  <2>1. map[k] \in LiveIn(content) /\ content[map[k]].key = k
    BY DEF Used, Agree
  <2>2. PICK i \in 1 .. n : s[i] = map[k]
    BY <2>1 DEF Lists
  <2> QED BY <2>1, <2>2
<1>4. f \in Bijection(1 .. n, Used(map))
  <2>1. f \in [1 .. n -> Used(map)]
    BY <1>2
  <2> HIDE DEF f
  <2>2. \A i, j \in 1 .. n : f[i] = f[j] => i = j
    BY <1>2
  <2> QED BY <1>3, <2>1, <2>2 DEF Bijection, Injection, Surjection, IsInjective
<1> QED BY <1>0, <1>1, <1>4, FS_Bijection DEF ExistsBijection

LEMMA OrderIs ==
  ASSUME NEW l, NEW content, NEW n, NEW s, Chain(l, n, s),
         Cardinality(LiveIn(content)) = n
  PROVE  OrderOf(l, content) = InOrder(n, s, content)
<1> DEFINE Step(f) == [i \in 0 .. n |-> IF i = 0 THEN head ELSE l.next[f[i - 1]]]
           walk == CHOOSE f : f = Step(f)
           places == [i \in 0 .. n |-> PlaceAt(n, s, i)]
<1>0. n \in Nat
  BY DEF Chain
<1>1. places = Step(places)
  <2>1. ASSUME NEW i \in 0 .. n, i # 0
        PROVE  PlaceAt(n, s, i) = l.next[PlaceAt(n, s, i - 1)]
    <3>1. i - 1 \in 0 .. n /\ (i - 1) + 1 = i
      BY <1>0, <2>1
    <3> QED BY <3>1 DEF Chain
  <2>2. PlaceAt(n, s, 0) = head
    BY DEF PlaceAt
  <2>3. \A i \in 0 .. n : i # 0 => places[i - 1] = PlaceAt(n, s, i - 1)
    BY <1>0
  <2> QED BY <2>1, <2>2, <2>3
<1>2. walk = Step(walk)
  <2> HIDE DEF places
  <2>1. \E f : f = Step(f)
    BY <1>1, Zenon
  <2> QED BY <2>1, Zenon
<1>3. OrderOf(l, content) = [i \in 1 .. n |-> content[walk[i]]]
  BY DEF OrderOf
<1>4. \A i \in 0 .. n : walk[i] = IF i = 0 THEN head ELSE l.next[walk[i - 1]]
  <2> HIDE DEF walk
  <2> QED BY <1>2
<1>5. \A i \in 0 .. n : places[i] = IF i = 0 THEN head ELSE l.next[places[i - 1]]
  <2> HIDE DEF places
  <2> QED BY <1>1
<1> HIDE DEF walk, places
<1> DEFINE T == {i \in 0 .. n : walk[i] # places[i]}
<1>6. T = {}
  <2>1. SUFFICES ASSUME T # {} PROVE FALSE
    OBVIOUS
  <2>2. PICK i \in T : \A j \in T : i <= j
    <3>1. T \in SUBSET Nat
      OBVIOUS
    <3> HIDE DEF T
    <3> QED BY <2>1, <3>1, Least
  <2>3. i # 0
    BY <1>4, <1>5, <1>0
  <2>4. i - 1 \in 0 .. n /\ i \in 0 .. n
    BY <1>0, <2>3
  <2>5. walk[i - 1] = places[i - 1]
    BY <1>0, <2>2, <2>4
  <2> QED BY <1>4, <1>5, <2>3, <2>4, <2>5
<1>7. \A i \in 1 .. n : walk[i] = s[i]
  <2>1. \A i \in 1 .. n : i \in 0 .. n /\ i # 0 /\ i # n + 1
    BY <1>0
  <2> QED BY <1>6, <2>1 DEF places, PlaceAt
<1> QED BY <1>3, <1>7 DEF InOrder

LEMMA OrderIsOrderOf ==
  /\ Order = OrderOf(links, entry)
  /\ Order' = OrderOf(links', entry')
BY DEF Order, OrderOf, Live, LiveIn

\* What RecencyList does to a list of entries, as functions of the places.
LEMMA ConsIs ==
  ASSUME NEW t \in Seq(Entries), NEW e \in Entries
  PROVE  <<e>> \o t = [i \in 1 .. Len(t) + 1 |-> IF i = 1 THEN e ELSE t[i - 1]]
<1>1. <<e>> \in Seq(Entries) /\ Len(<<e>>) = 1 /\ <<e>>[1] = e
  OBVIOUS
<1> DEFINE c == <<e>> \o t
<1>2. /\ c \in Seq(Entries) /\ Len(c) = 1 + Len(t) /\ Len(t) \in Nat
      /\ \A i \in 1 .. 1 + Len(t) : c[i] = IF i <= 1 THEN <<e>>[i] ELSE t[i - 1]
  BY <1>1, ConcatProperties, LenProperties
<1> HIDE DEF c
<1>3. c = [i \in 1 .. Len(t) + 1 |-> c[i]]
  BY <1>2, LenProperties
<1>4. \A i \in 1 .. Len(t) + 1 : c[i] = IF i = 1 THEN e ELSE t[i - 1]
  BY <1>1, <1>2
<1> QED BY <1>3, <1>4 DEF c

LEMMA RemoveAtIs ==
  ASSUME NEW t \in Seq(Entries), NEW p \in 1 .. Len(t)
  PROVE  Recency!RemoveAt(t, p) =
           [i \in 1 .. Len(t) - 1 |-> t[IF i < p THEN i ELSE i + 1]]
<1> DEFINE a == SubSeq(t, 1, p - 1)
           b == SubSeq(t, p + 1, Len(t))
           c == a \o b
<1>0. Len(t) \in Nat /\ \A i \in 1 .. Len(t) : t[i] \in Entries
  BY LenProperties, ElementOfSeq
<1>1. /\ a \in Seq(Entries) /\ Len(a) = p - 1
      /\ \A i \in 1 .. p - 1 : a[i] = t[i]
  <2>1. p - 1 \in Int /\ \A i \in 1 .. p - 1 : t[i] \in Entries
    BY <1>0
  <2>2. /\ a \in Seq(Entries)
        /\ Len(a) = IF 1 <= p - 1 THEN p - 1 - 1 + 1 ELSE 0
        /\ \A i \in 1 .. p - 1 - 1 + 1 : a[i] = t[1 + i - 1]
    BY <2>1, SubSeqProperties
  <2> QED BY <1>0, <2>2
<1>2. /\ b \in Seq(Entries) /\ Len(b) = Len(t) - p
      /\ \A i \in 1 .. Len(t) - p : b[i] = t[p + i]
  <2>1. p + 1 \in Int /\ Len(t) \in Int /\ \A i \in p + 1 .. Len(t) : t[i] \in Entries
    BY <1>0
  <2>2. /\ b \in Seq(Entries)
        /\ Len(b) = IF p + 1 <= Len(t) THEN Len(t) - (p + 1) + 1 ELSE 0
        /\ \A i \in 1 .. Len(t) - (p + 1) + 1 : b[i] = t[p + 1 + i - 1]
    BY <2>1, SubSeqProperties
  <2> QED BY <1>0, <2>2
<1> HIDE DEF a, b
<1>3. /\ c \in Seq(Entries) /\ Len(c) = Len(t) - 1
      /\ \A i \in 1 .. Len(t) - 1 : c[i] = t[IF i < p THEN i ELSE i + 1]
  <2>1. /\ c \in Seq(Entries) /\ Len(c) = Len(a) + Len(b)
        /\ \A i \in 1 .. Len(a) + Len(b) : c[i] = IF i <= Len(a) THEN a[i] ELSE b[i - Len(a)]
    BY <1>1, <1>2, ConcatProperties
  <2>2. ASSUME NEW i \in 1 .. Len(t) - 1 PROVE c[i] = t[IF i < p THEN i ELSE i + 1]
    <3>1. i \in 1 .. Len(a) + Len(b)
      BY <1>0, <1>1, <1>2
    <3>2. CASE i < p
      BY <1>0, <1>1, <2>1, <3>1, <3>2
    <3>3. CASE ~ (i < p)
      <4>1. i - (p - 1) \in 1 .. Len(t) - p /\ p + (i - (p - 1)) = i + 1
        BY <1>0, <3>3
      <4>2. c[i] = b[i - (p - 1)]
        BY <1>0, <1>1, <2>1, <3>1, <3>3
      <4> QED BY <1>2, <3>3, <4>1, <4>2
    <3> QED BY <3>2, <3>3
  <2> QED BY <1>0, <1>1, <1>2, <2>1, <2>2
<1> HIDE DEF c
<1>4. c = [i \in 1 .. Len(t) - 1 |-> c[i]]
  BY <1>3, LenProperties
<1>5. c = [i \in 1 .. Len(t) - 1 |-> t[IF i < p THEN i ELSE i + 1]]
  BY <1>3, <1>4
<1> QED BY <1>5 DEF c, a, b, Recency!RemoveAt

\* The entry of key k, and the entries but that.
KeyAt(t, k)  == {i \in DOMAIN t : t[i].key = k}
OthersIn(t, k) ==
  IF KeyAt(t, k) = {} THEN t ELSE Recency!RemoveAt(t, CHOOSE i \in KeyAt(t, k) : TRUE)

LEMMA RecencyOthers ==
  ASSUME NEW k
  PROVE  Recency!At(k) = KeyAt(Order, k) /\ Recency!Others(k) = OthersIn(Order, k)
BY DEF Recency!At, Recency!Others, KeyAt, OthersIn

LEMMA InOrderIs ==
  ASSUME NEW content \in Contents, NEW n \in Nat, NEW s \in [1 .. n -> Nodes],
         \A i \in 1 .. n : s[i] \in LiveIn(content)
  PROVE  /\ InOrder(n, s, content) \in Seq(Entries)
         /\ Len(InOrder(n, s, content)) = n
         /\ DOMAIN InOrder(n, s, content) = 1 .. n
         /\ \A i \in 1 .. n : /\ InOrder(n, s, content)[i] = content[s[i]]
                              /\ content[s[i]] \in Entries
                              /\ s[i] \in LiveIn(content)
<1>1. \A i \in 1 .. n : content[s[i]] \in Entries /\ s[i] \in LiveIn(content)
  BY DEF LiveIn, Contents
<1> QED BY <1>1 DEF InOrder

\* The list without the node of key k is the order without its entry, ...
LEMMA OthersAre ==
  ASSUME NEW map \in Maps, NEW content \in Contents, Agree(map, content),
         NEW n \in Nat, NEW s \in [1 .. n -> Nodes],
         \A i, j \in 1 .. n : s[i] = s[j] => i = j, Lists(n, s, LiveIn(content)),
         NEW k \in Keys
  PROVE  LET t == InOrder(n, s, content) IN
         /\ map[k] = Null => KeyAt(t, k) = {} /\ OthersIn(t, k) = t
         /\ \A p \in 1 .. n : map[k] = s[p] =>
              /\ KeyAt(t, k) = {p}
              /\ OthersIn(t, k) = InOrder(n - 1, Without(n, s, p), content)
<1> DEFINE t == InOrder(n, s, content)
<1>1. /\ t \in Seq(Entries) /\ Len(t) = n /\ DOMAIN t = 1 .. n
      /\ \A i \in 1 .. n : t[i] = content[s[i]] /\ s[i] \in LiveIn(content)
  <2>1. \A i \in 1 .. n : s[i] \in LiveIn(content)
    BY DEF Lists
  <2> QED BY <2>1, InOrderIs
<1>2. \A i \in 1 .. n : t[i].key = k => map[k] = s[i] /\ map[k] # Null
  BY <1>1, CacheAssumption DEF Agree, Places
<1> HIDE DEF t
<1>3. ASSUME map[k] = Null PROVE KeyAt(t, k) = {} /\ OthersIn(t, k) = t
  BY <1>1, <1>2, <1>3 DEF KeyAt, OthersIn
<1>4. ASSUME NEW p \in 1 .. n, map[k] = s[p]
      PROVE  /\ KeyAt(t, k) = {p}
             /\ OthersIn(t, k) = InOrder(n - 1, Without(n, s, p), content)
  <2>1. map[k] # Null
    BY <1>4, CacheAssumption DEF Places
  <2>2. t[p].key = k
    BY <1>1, <1>4, <2>1 DEF Agree
  <2>3. KeyAt(t, k) = {p}
    BY <1>1, <1>2, <1>4, <2>2 DEF KeyAt
  <2>4. OthersIn(t, k) = Recency!RemoveAt(t, p)
    BY <2>3 DEF OthersIn
  <2>5. OthersIn(t, k) = [i \in 1 .. n - 1 |-> t[IF i < p THEN i ELSE i + 1]]
    BY <1>1, <2>4, RemoveAtIs
  <2>6. \A i \in 1 .. n - 1 : /\ (IF i < p THEN i ELSE i + 1) \in 1 .. n
                              /\ Without(n, s, p)[i] = s[IF i < p THEN i ELSE i + 1]
    BY DEF Without
  <2> QED BY <1>1, <2>3, <2>5, <2>6 DEF InOrder
<1> QED BY <1>3, <1>4 DEF t

\* ... with a node in front it has its entry in front.
LEMMA WithIs ==
  ASSUME NEW content \in Contents, NEW n \in Nat, NEW s \in [1 .. n -> Nodes],
         \A i \in 1 .. n : s[i] \in LiveIn(content), NEW x, content[x] \in Entries
  PROVE  InOrder(n + 1, With(n, s, x), content) = <<content[x]>> \o InOrder(n, s, content)
<1> DEFINE t == InOrder(n, s, content)
           w == With(n, s, x)
<1>1. t \in Seq(Entries) /\ Len(t) = n /\ \A i \in 1 .. n : t[i] = content[s[i]]
  BY InOrderIs
<1>2. \A i \in 1 .. n + 1 : w[i] = IF i = 1 THEN x ELSE s[i - 1]
  BY DEF With
<1> HIDE DEF t, w
<1>3. <<content[x]>> \o t = [i \in 1 .. n + 1 |-> IF i = 1 THEN content[x] ELSE t[i - 1]]
  BY <1>1, ConsIs
<1>4. ASSUME NEW i \in 1 .. n + 1
      PROVE  content[w[i]] = IF i = 1 THEN content[x] ELSE t[i - 1]
  <2>1. CASE i = 1
    BY <1>2, <2>1
  <2>2. CASE i # 1
    <3>1. i - 1 \in 1 .. n
      BY <2>2
    <3> QED BY <1>1, <1>2, <2>2, <3>1
  <2> QED BY <2>1, <2>2
<1>5. InOrder(n + 1, w, content) = [i \in 1 .. n + 1 |-> content[w[i]]]
  BY DEF InOrder
<1> QED BY <1>3, <1>4, <1>5 DEF w, t

\* What is cut off a list of one entry too many is its last entry.
LEMMA TruncateIs ==
  ASSUME NEW t \in Seq(Entries)
  PROVE  /\ Len(t) <= Capacity => Recency!Truncate(t) = t
         /\ Len(t) = Capacity + 1 =>
              Recency!Truncate(t) = [i \in 1 .. Len(t) - 1 |-> t[i]]
<1>0. Len(t) \in Nat /\ Capacity \in Nat /\ \A i \in 1 .. Len(t) : t[i] \in Entries
  BY LenProperties, ElementOfSeq, CacheAssumption
<1>1. ASSUME NEW m \in 0 .. Len(t)
      PROVE  SubSeq(t, 1, m) = [i \in 1 .. m |-> t[i]]
  <2> DEFINE u == SubSeq(t, 1, m)
  <2>1. m \in Int /\ \A i \in 1 .. m : t[i] \in Entries
    BY <1>0
  <2>2. /\ u \in Seq(Entries) /\ Len(u) = IF 1 <= m THEN m - 1 + 1 ELSE 0
        /\ \A i \in 1 .. m - 1 + 1 : u[i] = t[1 + i - 1]
    BY <2>1, SubSeqProperties
  <2> HIDE DEF u
  <2>3. u \in Seq(Entries) /\ Len(u) = m /\ \A i \in 1 .. m : u[i] = t[i]
    BY <1>0, <2>2
  <2>4. u = [i \in 1 .. m |-> u[i]]
    BY <2>3, LenProperties
  <2> QED BY <2>3, <2>4 DEF u
<1>2. t = [i \in 1 .. Len(t) |-> t[i]]
  BY LenProperties
<1>3. ASSUME Len(t) <= Capacity PROVE Recency!Truncate(t) = t
  <2>1. Recency!Truncate(t) = SubSeq(t, 1, Len(t))
    <3>1. CASE Len(t) < Capacity
      BY <3>1 DEF Recency!Truncate
    <3>2. CASE Len(t) = Capacity
      BY <1>0, <3>2 DEF Recency!Truncate
    <3> QED BY <1>0, <1>3, <3>1, <3>2
  <2> QED BY <1>0, <1>1, <1>2, <2>1
<1>4. ASSUME Len(t) = Capacity + 1
      PROVE  Recency!Truncate(t) = [i \in 1 .. Len(t) - 1 |-> t[i]]
  <2>1. Recency!Truncate(t) = SubSeq(t, 1, Capacity) /\ Capacity = Len(t) - 1
    BY <1>0, <1>4 DEF Recency!Truncate
  <2> QED BY <1>0, <1>1, <2>1
<1> QED BY <1>3, <1>4
-----------------------------------------------------------------------------
\* The list, of consistent contents, by the sequence that names its nodes.
LEMMA OrderOfIs ==
  ASSUME NEW l, NEW map \in Maps, NEW content \in Contents, Agree(map, content),
         NEW n, NEW s, Chain(l, n, s), Lists(n, s, LiveIn(content))
  PROVE  /\ OrderOf(l, content) = InOrder(n, s, content)
         /\ Cardinality(Used(map)) = n
<1>1. /\ n \in Nat /\ s \in [1 .. n -> Nodes]
      /\ \A i, j \in 1 .. n : s[i] = s[j] => i = j
  BY DEF Chain
<1>2. Cardinality(LiveIn(content)) = n /\ Cardinality(Used(map)) = n
  BY <1>1, CountIs
<1> QED BY <1>2, OrderIs

\* Only the contents of the nodes in the list matter.
LEMMA SameEntries ==
  ASSUME NEW n, NEW s, NEW c, NEW d, \A i \in 1 .. n : c[s[i]] = d[s[i]]
  PROVE  InOrder(n, s, c) = InOrder(n, s, d)
BY DEF InOrder

LEMMA Facts ==
  ASSUME IInv
  PROVE  /\ cache \in Maps /\ entry \in Contents /\ links \in LinkFunctions
         /\ Agree(cache, entry) /\ Linked(links, LiveIn(entry))
         /\ LiveIn(entry) \in SUBSET Nodes
BY DEF IInv, TypeOK, Consistent, MapIsList, Live, LiveIn, Agree, Maps, Contents,
       LinkFunctions

LEMMA FactsNext ==
  ASSUME IInv'
  PROVE  cache' \in Maps /\ entry' \in Contents /\ Agree(cache', entry')
<1>1. Live' = LiveIn(entry')
  BY DEF Live, LiveIn
<1> QED BY <1>1 DEF IInv, TypeOK, Consistent, MapIsList, Agree, Maps, Contents

\* The nodes alive are the list: the invariant the refinement needs.
RInv == IInv /\ Listed(links, LiveIn(entry))

LEMMA InitRInv == Init => RInv
<1> SUFFICES ASSUME Init PROVE Listed(links, LiveIn(entry))
  BY InitIInv DEF RInv
<1> DEFINE s == [i \in 1 .. 0 |-> head]
<1>1. Chain(links, 0, s)
  <2>1. links.next[head] = tail
    BY DEF Init, Places
  <2>2. PlaceAt(0, s, 0) = head /\ PlaceAt(0, s, 0 + 1) = tail
    BY DEF PlaceAt
  <2> QED BY <2>1, <2>2 DEF Chain
<1>2. Lists(0, s, LiveIn(entry))
  BY DEF Init, LiveIn, Lists
<1> QED BY <1>1, <1>2 DEF Listed

LEMMA InitImplements == Init => Recency!Init
<1> SUFFICES ASSUME Init PROVE Order = <<>> /\ result = Null
  BY DEF Recency!Init
<1>1. IInv /\ Listed(links, LiveIn(entry))
  BY InitRInv DEF RInv
<1>2. PICK n, s : Chain(links, n, s) /\ Lists(n, s, LiveIn(entry))
  BY <1>1 DEF Listed
<1>3. Order = InOrder(n, s, entry)
  BY <1>1, <1>2, Facts, OrderOfIs, OrderIsOrderOf
<1>4. LiveIn(entry) = {}
  BY DEF Init, LiveIn
<1>5. n = 0
  BY <1>2, <1>4 DEF Lists, Chain
<1> QED BY <1>3, <1>5 DEF InOrder, Init

\* What put and erase leave of the list at first.
LEMMA ListWithout ==
  ASSUME RInv, NEW k \in Keys
  PROVE  \E n, s : /\ Chain(LinksWithout(k), n, s)
                   /\ Lists(n, s, LiveIn(EntryWithout(k)))
                   /\ InOrder(n, s, EntryWithout(k)) = OthersIn(Order, k)
<1>1. PICK n, s : Chain(links, n, s) /\ Lists(n, s, LiveIn(entry))
  BY DEF RInv, Listed
<1>2. /\ n \in Nat /\ s \in [1 .. n -> Nodes]
      /\ \A i, j \in 1 .. n : s[i] = s[j] => i = j
  BY <1>1 DEF Chain
<1>3. IInv /\ Order = InOrder(n, s, entry)
  BY <1>1, Facts, OrderOfIs, OrderIsOrderOf DEF RInv
<1>4. CASE cache[k] = Null
  <2>1. LinksWithout(k) = links /\ EntryWithout(k) = entry
    BY <1>4 DEF LinksWithout, EntryWithout
  <2>2. OthersIn(Order, k) = Order
    BY <1>1, <1>2, <1>3, <1>4, Facts, OthersAre
  <2> QED BY <1>1, <1>3, <2>1, <2>2
<1>5. CASE cache[k] # Null
  <2>1. cache[k] \in LiveIn(entry)
    BY <1>3, <1>5, Facts DEF Agree
  <2>2. PICK p \in 1 .. n : s[p] = cache[k]
    BY <1>1, <2>1 DEF Lists
  <2> DEFINE w == Without(n, s, p)
  <2>3. /\ LinksWithout(k) = UnlinkAndDelete(links, s[p])
        /\ EntryWithout(k) = [entry EXCEPT ![s[p]] = Null]
    BY <1>5, <2>2 DEF LinksWithout, EntryWithout
  <2>4. Chain(LinksWithout(k), n - 1, w) /\ Lists(n - 1, w, LiveIn(entry) \ {s[p]})
    BY <1>1, <1>3, <2>3, Facts, ChainUnlink
  <2>5. OthersIn(Order, k) = InOrder(n - 1, w, entry)
    BY <1>1, <1>2, <1>3, <2>2, Facts, OthersAre
  <2>6. \A x \in Nodes : EntryWithout(k)[x] = IF x = s[p] THEN Null ELSE entry[x]
    BY <1>3, <2>3, Facts DEF Contents
  <2>7. LiveIn(EntryWithout(k)) = LiveIn(entry) \ {s[p]}
    BY <2>6 DEF LiveIn
  <2>8. InOrder(n - 1, w, EntryWithout(k)) = InOrder(n - 1, w, entry)
    <3>1. \A i \in 1 .. n - 1 : w[i] \in LiveIn(entry) \ {s[p]}
      BY <2>4 DEF Lists
    <3>2. \A i \in 1 .. n - 1 : EntryWithout(k)[w[i]] = entry[w[i]]
      BY <2>6, <3>1 DEF LiveIn
    <3> QED BY <3>2, SameEntries
  <2> QED BY <2>4, <2>5, <2>7, <2>8
<1> QED BY <1>4, <1>5

LEMMA EraseImplements ==
  ASSUME RInv, NEW k \in Keys, Erase(k)
  PROVE  Listed(links', LiveIn(entry')) /\ Recency!Erase(k)
<1>1. PICK n, s : /\ Chain(LinksWithout(k), n, s)
                  /\ Lists(n, s, LiveIn(EntryWithout(k)))
                  /\ InOrder(n, s, EntryWithout(k)) = OthersIn(Order, k)
  BY ListWithout
<1>2. Chain(links', n, s) /\ Lists(n, s, LiveIn(entry')) /\ result' = result
      /\ InOrder(n, s, entry') = OthersIn(Order, k)
  BY <1>1 DEF Erase
<1>3. Order' = InOrder(n, s, entry')
  <2>1. IInv'
    BY EraseKeeps DEF RInv
  <2> QED BY <1>2, <2>1, FactsNext, OrderOfIs, OrderIsOrderOf
<1>4. Order' = Recency!Others(k)
  BY <1>2, <1>3, RecencyOthers
<1> QED BY <1>2, <1>4 DEF Listed, Recency!Erase

LEMMA GetImplements ==
  ASSUME RInv, NEW k \in Keys, Get(k)
  PROVE  Listed(links', LiveIn(entry')) /\ Recency!Get(k)
<1>1. PICK n, s : Chain(links, n, s) /\ Lists(n, s, LiveIn(entry))
  BY DEF RInv, Listed
<1>2. /\ n \in Nat /\ s \in [1 .. n -> Nodes]
      /\ \A i, j \in 1 .. n : s[i] = s[j] => i = j
  BY <1>1 DEF Chain
<1>3. /\ IInv /\ Order = InOrder(n, s, entry)
      /\ cache \in Maps /\ entry \in Contents /\ links \in LinkFunctions
      /\ Agree(cache, entry) /\ Linked(links, LiveIn(entry))
      /\ LiveIn(entry) \in SUBSET Nodes
  BY <1>1, Facts, OrderOfIs, OrderIsOrderOf DEF RInv
<1>4. entry' = entry
  BY DEF Get
<1>5. CASE cache[k] = Null
  <2>1. links' = links /\ result' = Null /\ Order' = Order
    BY <1>4, <1>5, OrderIsOrderOf DEF Get
  <2>2. Recency!At(k) = {}
    BY <1>1, <1>2, <1>3, <1>5, OthersAre, RecencyOthers
  <2> QED BY <1>1, <1>4, <2>1, <2>2 DEF Listed, Recency!Get
<1>6. CASE cache[k] # Null
  <2>1. cache[k] \in LiveIn(entry)
    BY <1>3, <1>6 DEF Agree
  <2>2. PICK p \in 1 .. n : s[p] = cache[k]
    BY <1>1, <2>1 DEF Lists
  <2> DEFINE w == Without(n, s, p)
             y == With(n - 1, w, s[p])
  <2>3. /\ links' = LinkFirst(Unlink(links, s[p]), s[p])
        /\ result' = entry[s[p]].value
    BY <1>6, <2>2 DEF Get
  <2>4. /\ Chain(Unlink(links, s[p]), n - 1, w)
        /\ Lists(n - 1, w, LiveIn(entry) \ {s[p]})
        /\ Unlink(links, s[p]) \in LinkFunctions
    BY <1>1, <1>3, <2>1, <2>2, ChainUnlink, UnlinkOnlyKeeps
  <2>5. Chain(links', n - 1 + 1, y) /\ Lists(n - 1 + 1, y, LiveIn(entry'))
    <3>1. s[p] \in Nodes \ (LiveIn(entry) \ {s[p]})
          /\ LiveIn(entry) \ {s[p]} \in SUBSET Nodes
          /\ (LiveIn(entry) \ {s[p]}) \cup {s[p]} = LiveIn(entry)
      BY <1>2, <1>3, <2>1, <2>2
    <3>2. /\ Chain(LinkFirst(Unlink(links, s[p]), s[p]), n - 1 + 1, y)
          /\ Lists(n - 1 + 1, y, (LiveIn(entry) \ {s[p]}) \cup {s[p]})
      <4> HIDE DEF w
      <4> QED BY <2>4, <3>1, ChainLink
    <3> HIDE DEF y
    <3> QED BY <1>4, <2>3, <3>1, <3>2
  <2>6. Order' = InOrder(n - 1 + 1, y, entry)
    <3>1. IInv'
      BY GetKeeps DEF RInv
    <3> HIDE DEF y
    <3> QED BY <1>4, <2>5, <3>1, FactsNext, OrderOfIs, OrderIsOrderOf
  <2>7. KeyAt(Order, k) = {p} /\ OthersIn(Order, k) = InOrder(n - 1, w, entry)
    BY <1>1, <1>2, <1>3, <2>2, OthersAre
  <2>8. Order[p] = entry[s[p]] /\ entry[s[p]] \in Entries
    BY <1>3, <2>1, <2>2 DEF InOrder, LiveIn, Contents
  <2>9. Order' = <<entry[s[p]]>> \o InOrder(n - 1, w, entry)
    <3>1. /\ n - 1 \in Nat /\ w \in [1 .. n - 1 -> Nodes]
          /\ \A i \in 1 .. n - 1 : w[i] \in LiveIn(entry)
      BY <2>4 DEF Chain, Lists
    <3> HIDE DEF w
    <3>2. InOrder(n - 1 + 1, With(n - 1, w, s[p]), entry)
            = <<entry[s[p]]>> \o InOrder(n - 1, w, entry)
      BY <1>3, <2>8, <3>1, WithIs
    <3> QED BY <2>6, <3>2
  <2>10. /\ p \in Recency!At(k)
         /\ Order' = <<Order[p]>> \o Recency!Others(k) /\ result' = Order[p].value
    BY <2>3, <2>7, <2>8, <2>9, RecencyOthers
  <2>11. Recency!Get(k)
    BY <2>10 DEF Recency!Get
  <2> QED BY <2>5, <2>11 DEF Listed
<1> QED BY <1>5, <1>6

\* put, before the test of the size: the new entry is in front.
LEMMA ListWith ==
  ASSUME RInv, NEW k \in Keys, NEW v \in Values, NEW n \in Nodes,
         EntryWithout(k)[n] = Null
  PROVE  \E c, s : /\ c \in Nat
                   /\ Chain(List(k, n), c + 1, s)
                   /\ Lists(c + 1, s, LiveIn(Content(k, v, n)))
                   /\ InOrder(c + 1, s, Content(k, v, n))
                        = <<[key |-> k, value |-> v]>> \o OthersIn(Order, k)
<1>1. PICK c, s : /\ Chain(LinksWithout(k), c, s)
                  /\ Lists(c, s, LiveIn(EntryWithout(k)))
                  /\ InOrder(c, s, EntryWithout(k)) = OthersIn(Order, k)
  BY ListWithout
<1>2. /\ c \in Nat /\ s \in [1 .. c -> Nodes]
      /\ \A i \in 1 .. c : s[i] \in LiveIn(EntryWithout(k))
  BY <1>1 DEF Chain, Lists
<1> DEFINE e == [key |-> k, value |-> v]
           new == Content(k, v, n)
<1>3. /\ EntryWithout(k) \in Contents /\ LinksWithout(k) \in LinkFunctions
      /\ new \in Contents
      /\ LiveIn(new) = LiveIn(EntryWithout(k)) \cup {n}
      /\ n \in Nodes \ LiveIn(EntryWithout(k))
      /\ LiveIn(EntryWithout(k)) \in SUBSET Nodes
  <2>1. IInv
    BY DEF RInv
  <2>2. /\ EntryWithout(k) \in Contents /\ LinksWithout(k) \in LinkFunctions
    BY <2>1, WithoutKeeps
  <2>3. new \in Contents /\ LiveIn(new) = LiveIn(EntryWithout(k)) \cup {n}
    BY <2>1, AddedKeeps
  <2>4. /\ n \in Nodes \ LiveIn(EntryWithout(k))
        /\ LiveIn(EntryWithout(k)) \in SUBSET Nodes
    BY DEF LiveIn
  <2> QED BY <2>2, <2>3, <2>4
<1>4. /\ Chain(List(k, n), c + 1, With(c, s, n))
      /\ Lists(c + 1, With(c, s, n), LiveIn(new))
  BY <1>1, <1>3, ChainLink DEF List
<1>5. /\ new[n] = e /\ e \in Entries
      /\ \A x \in Nodes \ {n} : new[x] = EntryWithout(k)[x]
  BY <1>3 DEF Content, Contents, Entries
<1>6. /\ \A i \in 1 .. c : new[s[i]] = EntryWithout(k)[s[i]] /\ s[i] \in LiveIn(new)
  BY <1>2, <1>3, <1>5 DEF LiveIn
<1> HIDE DEF e, new
<1>7. InOrder(c + 1, With(c, s, n), new) = <<new[n]>> \o InOrder(c, s, new)
  BY <1>2, <1>3, <1>5, <1>6, WithIs
<1>8. InOrder(c, s, new) = OthersIn(Order, k)
  BY <1>1, <1>6, SameEntries
<1>9. InOrder(c + 1, With(c, s, n), new) = <<e>> \o OthersIn(Order, k)
  BY <1>5, <1>7, <1>8
<1> QED BY <1>2, <1>4, <1>9 DEF e, new

\* The last node of the list is the one in front of the tail.
LEMMA LastIs ==
  ASSUME NEW l, NEW live \in SUBSET Nodes, Linked(l, live), NEW c \in Nat, NEW s,
         Chain(l, c + 1, s), Lists(c + 1, s, live)
  PROVE  l.prev[tail] = s[c + 1] /\ c + 1 \in 1 .. c + 1
<1>1. c + 1 \in 1 .. c + 1 /\ c + 1 \in 0 .. c + 1
  OBVIOUS
<1>2. PlaceAt(c + 1, s, c + 1) = s[c + 1] /\ PlaceAt(c + 1, s, c + 1 + 1) = tail
  BY DEF PlaceAt
<1>3. l.next[s[c + 1]] = tail
  BY <1>1, <1>2 DEF Chain
<1>4. s[c + 1] \in live
  BY <1>1 DEF Lists
<1> QED BY <1>1, <1>3, <1>4 DEF Linked

\* Without its last node, the sequence is what is in front of it.
LEMMA WithoutLast ==
  ASSUME NEW n \in Nat, NEW s, NEW i \in 1 .. n
  PROVE  Without(n + 1, s, n + 1)[i] = s[i]
<1>1. n + 1 - 1 = n /\ i < n + 1
  OBVIOUS
<1>2. Without(n + 1, s, n + 1) = [j \in 1 .. n |-> s[IF j < n + 1 THEN j ELSE j + 1]]
  BY <1>1 DEF Without
<1> QED BY <1>1, <1>2

LEMMA PutImplements ==
  ASSUME RInv, NEW k \in Keys, NEW v \in Values, Put(k, v)
  PROVE  Listed(links', LiveIn(entry')) /\ Recency!Put(k, v)
<1>1. PICK n \in Nodes :
        /\ EntryWithout(k)[n] = Null /\ UNCHANGED result
        /\ \/ /\ ~ (Cardinality(Used(Added(k, n))) > Capacity)
              /\ cache' = Added(k, n) /\ entry' = Content(k, v, n)
              /\ links' = List(k, n)
           \/ /\ Cardinality(Used(Added(k, n))) > Capacity
              /\ cache' = [Added(k, n) EXCEPT
                             ![Content(k, v, n)[List(k, n).prev[tail]].key] = Null]
              /\ entry' = [Content(k, v, n) EXCEPT ![List(k, n).prev[tail]] = Null]
              /\ links' = UnlinkAndDelete(List(k, n), List(k, n).prev[tail])
  BY PutIs
<1> DEFINE m == Added(k, n)
           new == Content(k, v, n)
           l == List(k, n)
           t == <<[key |-> k, value |-> v]>> \o OthersIn(Order, k)
<1>2. PICK c, s : /\ c \in Nat
                  /\ Chain(l, c + 1, s) /\ Lists(c + 1, s, LiveIn(new))
                  /\ InOrder(c + 1, s, new) = t
  BY <1>1, ListWith
<1>3. /\ m \in Maps /\ new \in Contents /\ Agree(m, new)
      /\ l \in LinkFunctions /\ Linked(l, LiveIn(new))
      /\ Cardinality(Used(m)) <= Capacity + 1
      /\ LiveIn(new) \in SUBSET Nodes
  <2>1. IInv
    BY DEF RInv
  <2>2. LiveIn(new) \in SUBSET Nodes
    BY DEF LiveIn
  <2> QED BY <1>1, <2>1, <2>2, AddedKeeps
<1>4. /\ s \in [1 .. c + 1 -> Nodes]
      /\ \A i \in 1 .. c + 1 : s[i] \in LiveIn(new)
      /\ \A i, j \in 1 .. c + 1 : s[i] = s[j] => i = j
  BY <1>2 DEF Chain, Lists
<1> HIDE DEF m, new, l, t
<1>5. Cardinality(Used(m)) = c + 1
  BY <1>2, <1>3, OrderOfIs
<1>6. t \in Seq(Entries) /\ Len(t) = c + 1 /\ \A i \in 1 .. c + 1 : t[i] = new[s[i]]
  <2>1. c + 1 \in Nat
    BY <1>2
  <2>2. /\ InOrder(c + 1, s, new) \in Seq(Entries)
        /\ Len(InOrder(c + 1, s, new)) = c + 1
        /\ \A i \in 1 .. c + 1 : InOrder(c + 1, s, new)[i] = new[s[i]]
    BY <1>3, <1>4, <2>1, InOrderIs
  <2> QED BY <1>2, <2>2
<1>7. SUFFICES Listed(links', LiveIn(entry')) /\ Order' = Recency!Truncate(t)
  BY <1>1, RecencyOthers DEF Recency!Put, t
<1>8. IInv'
  BY PutKeeps DEF RInv
<1>9. Capacity \in Nat
  BY CacheAssumption
<1>10. CASE ~ (Cardinality(Used(m)) > Capacity)
  <2>1. entry' = new /\ links' = l
    BY <1>1, <1>10 DEF m, new, l
  <2>2. Order' = t
    BY <1>2, <1>8, <2>1, FactsNext, OrderOfIs, OrderIsOrderOf
  <2>3. Len(t) <= Capacity
    BY <1>2, <1>5, <1>6, <1>9, <1>10
  <2>4. Recency!Truncate(t) = t
    BY <1>6, <2>3, TruncateIs
  <2> QED BY <1>2, <2>1, <2>2, <2>4 DEF Listed
<1>11. CASE Cardinality(Used(m)) > Capacity
  <2> DEFINE w == Without(c + 1, s, c + 1)
  <2>1. l.prev[tail] = s[c + 1] /\ c + 1 \in 1 .. c + 1
    BY <1>2, <1>3, LastIs
  <2>2. /\ entry' = [new EXCEPT ![s[c + 1]] = Null]
        /\ links' = UnlinkAndDelete(l, s[c + 1])
    BY <1>1, <1>11, <2>1 DEF m, new, l
  <2>3. \A x \in Nodes : entry'[x] = IF x = s[c + 1] THEN Null ELSE new[x]
    BY <1>3, <2>2 DEF Contents
  <2>4. LiveIn(entry') = LiveIn(new) \ {s[c + 1]}
    BY <2>3 DEF LiveIn
  <2>5. /\ Chain(links', c + 1 - 1, w)
        /\ Lists(c + 1 - 1, w, LiveIn(entry'))
    <3>1. /\ Chain(UnlinkAndDelete(l, s[c + 1]), c + 1 - 1, w)
          /\ Lists(c + 1 - 1, w, LiveIn(new) \ {s[c + 1]})
      BY <1>2, <1>3, <2>1, ChainUnlink
    <3> HIDE DEF w
    <3> QED BY <2>2, <2>4, <3>1
  <2>6. Order' = InOrder(c + 1 - 1, w, entry')
    <3> HIDE DEF w
    <3> QED BY <1>8, <2>5, FactsNext, OrderOfIs, OrderIsOrderOf
  <2>7. ASSUME NEW i \in 1 .. c
        PROVE  entry'[w[i]] = t[i]
    <3>1. i \in 1 .. c + 1 /\ i < c + 1 /\ i \in 1 .. c + 1 - 1 /\ i # c + 1
      BY <1>2
    <3>2. w[i] = s[i]
      BY <1>2, <3>1, WithoutLast
    <3>3. s[i] # s[c + 1] /\ s[i] \in Nodes
      BY <1>4, <2>1, <3>1
    <3> HIDE DEF w
    <3> QED BY <1>6, <2>3, <3>1, <3>2, <3>3
  <2>8. Order' = [i \in 1 .. c |-> t[i]]
    <3>1. c + 1 - 1 = c
      BY <1>2
    <3> HIDE DEF w
    <3>2. Order' = [i \in 1 .. c |-> entry'[w[i]]]
      BY <2>6, <3>1 DEF InOrder
    <3> QED BY <2>7, <3>2
  <2>9. Recency!Truncate(t) = [i \in 1 .. c |-> t[i]]
    <3>1. Len(t) = Capacity + 1 /\ Len(t) - 1 = c
      BY <1>2, <1>3, <1>5, <1>6, <1>9, <1>11
    <3>2. Recency!Truncate(t) = [i \in 1 .. Len(t) - 1 |-> t[i]]
      BY <1>6, <3>1, TruncateIs
    <3> QED BY <3>1, <3>2
  <2> QED BY <2>5, <2>8, <2>9 DEF Listed
<1> QED BY <1>10, <1>11

\* Every step keeps the list complete, and is a step of the list of entries.
LEMMA StepImplements ==
  RInv /\ [Next]_vars => RInv' /\ [Recency!Next]_(Recency!vars)
<1> SUFFICES ASSUME RInv, [Next]_vars
             PROVE  RInv' /\ [Recency!Next]_(Recency!vars)
  OBVIOUS
<1>1. ASSUME NEW k \in Keys, Get(k)
      PROVE  Listed(links', LiveIn(entry')) /\ Recency!Next
  BY <1>1, GetImplements DEF Recency!Next
<1>2. ASSUME NEW k \in Keys, Erase(k)
      PROVE  Listed(links', LiveIn(entry')) /\ Recency!Next
  BY <1>2, EraseImplements DEF Recency!Next
<1>3. ASSUME NEW k \in Keys, NEW v \in Values, Put(k, v)
      PROVE  Listed(links', LiveIn(entry')) /\ Recency!Next
  BY <1>3, PutImplements DEF Recency!Next
<1>4. ASSUME UNCHANGED vars
      PROVE  Listed(links', LiveIn(entry')) /\ Order' = Order /\ result' = result
  <2>1. links' = links /\ entry' = entry /\ result' = result
    BY <1>4 DEF vars
  <2> QED BY <2>1, OrderIsOrderOf DEF RInv
<1>5. /\ Listed(links', LiveIn(entry'))
      /\ Recency!Next \/ (Order' = Order /\ result' = result)
  BY <1>1, <1>2, <1>3, <1>4 DEF Next
<1>6. IInv'
  BY NextKeeps DEF RInv
<1>7. Listed(links, LiveIn(entry))' = Listed(links', LiveIn(entry'))
  BY DEF LiveIn, Listed, Chain, Lists, PlaceAt
<1> QED BY <1>5, <1>6, <1>7 DEF RInv, Recency!vars

(***************************************************************************)
(* The hash map and the linked list of LRU_Cache together do what          *)
(* RecencyList says: get, put and erase keep the entries in the order of   *)
(* their last use, and put evicts the one used longest ago.                *)
(***************************************************************************)
THEOREM ImplementsRecencyList == Spec => IsRecencyList
<1> QED BY InitRInv, InitImplements, StepImplements, PTL
        DEF Spec, IsRecencyList, Recency!Spec
=============================================================================
