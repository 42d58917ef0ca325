---------------------------- MODULE RecencyList -----------------------------
(***************************************************************************)
(* What a least recently used cache promises: it keeps the Capacity keys   *)
(* that were put or got last, each with the value put last.                *)
(***************************************************************************)
EXTENDS Naturals, Sequences, SequencesExt

CONSTANTS Keys, Values, Capacity, Null

VARIABLES
  entries,  \* the entries, the one used last in front
  result    \* what the last get returned

vars == <<entries, result>>

Init == entries = <<>> /\ result = Null

At(k) == {i \in DOMAIN entries : entries[i].key = k}

Others(k) ==
  IF At(k) = {} THEN entries ELSE RemoveAt(entries, CHOOSE i \in At(k) : TRUE)

Truncate(s) == SubSeq(s, 1, IF Len(s) < Capacity THEN Len(s) ELSE Capacity)

Get(k) ==
  \/ \E i \in At(k) :
       /\ entries' = <<entries[i]>> \o Others(k)
       /\ result' = entries[i].value
  \/ /\ At(k) = {}
     /\ result' = Null
     /\ UNCHANGED entries

Put(k, v) ==
  /\ entries' = Truncate(<<[key |-> k, value |-> v]>> \o Others(k))
  /\ UNCHANGED result

Erase(k) ==
  /\ entries' = Others(k)
  /\ UNCHANGED result

Next ==
  \E k \in Keys : Get(k) \/ Erase(k) \/ \E v \in Values : Put(k, v)

Spec == Init /\ [][Next]_vars
=============================================================================
