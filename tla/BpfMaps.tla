------------------------------- MODULE BpfMaps -------------------------------
(* Keyed maps, as the kernel's BPF hash maps and the agent's Go maps behave:  *)
(* partial functions from keys to values.  A kernel map also has a capacity.  *)
EXTENDS Naturals, FiniteSets

\* m is a map from some of the keys K to values in V.
IsMap(m, K, V) ==
  /\ DOMAIN m \subseteq K
  /\ \A k \in DOMAIN m : m[k] \in V

EmptyMap == [k \in {} |-> 0]

\* Insert or replace (bpf_map_update_elem with BPF_ANY, a Go map assignment).
Put(m, k, v) == [x \in DOMAIN m \cup {k} |-> IF x = k THEN v ELSE m[x]]

\* Remove the keys ks, present or not.
Drop(m, ks) == [x \in DOMAIN m \ ks |-> m[x]]

\* A Go map read: the zero value when the key is absent.
At(m, k, zero) == IF k \in DOMAIN m THEN m[k] ELSE zero

\* Replacing never needs room; a new key needs an unused element.
HasRoom(m, k, capacity) == k \in DOMAIN m \/ Cardinality(DOMAIN m) < capacity
==============================================================================
