----------------------------- MODULE Dictionary -----------------------------
(***************************************************************************)
(* The dictionary of the configuration (dictionary.c), as iniparser_load   *)
(* fills it and readConfig searches it.  dictionary_unset is never called. *)
(*                                                                         *)
(* The table is searched from end to end: a hash only saves comparisons.   *)
(***************************************************************************)
EXTENDS Naturals, FiniteSets, FiniteSetsExt

CONSTANTS Hash(_),      \* dictionary_hash; keys may collide
          DictMinSz,    \* DICTMINSZ
          None          \* C's NULL, for a key or a value

ASSUME DictAssumption == DictMinSz \in Nat \ {0}

Empty == [key |-> None, val |-> None, hash |-> 0]

dictionary_new == [n |-> 0, slot |-> [i \in 0 .. DictMinSz - 1 |-> Empty]]

SizeOf(d) == Cardinality(DOMAIN d.slot)

dictionary_grow(d) ==
  [d EXCEPT !.slot = [i \in 0 .. 2 * SizeOf(d) - 1 |-> IF i < SizeOf(d) THEN d.slot[i] ELSE Empty]]

\* Mutant of Matches: equal hashes are taken for equal keys.
MatchesHash(d, key) == {i \in DOMAIN d.slot : d.slot[i].key # None /\ d.slot[i].hash = Hash(key)}

Matches(d, key) ==
  {i \in DOMAIN d.slot : /\ d.slot[i].key # None
                         /\ d.slot[i].hash = Hash(key)
                         /\ d.slot[i].key = key}

dictionary_get(d, key, def) ==
  LET found == Matches(d, key) IN IF found = {} THEN def ELSE d.slot[Min(found)].val

\* "Start at d->n and wrap at d->size".
FirstEmpty(d) ==
  LET At(k) == (d.n + k) % SizeOf(d)
  IN At(Min({k \in DOMAIN d.slot : d.slot[At(k)].key = None}))

\* dictionary_set, where the allocations in fails fail: the table's, the key's
\* and the value's.  Only the first makes it return -1.
dictionary_set(d, key, val, fails) ==
  LET found == Matches(d, key)
      k == IF "key" \in fails THEN None ELSE key
      v == IF "val" \in fails THEN None ELSE val
      full == d.n = SizeOf(d)
      room == IF full THEN dictionary_grow(d) ELSE d
  IN IF d.n > 0 /\ found # {} THEN [rc |-> "ok", dict |-> [d EXCEPT !.slot[Min(found)].val = v]]
     ELSE IF full /\ "grow" \in fails THEN [rc |-> "error", dict |-> d]
     ELSE [rc |-> "ok",
           dict |-> [room EXCEPT !.slot[FirstEmpty(room)] = [key |-> k, val |-> v, hash |-> Hash(key)],
                                 !.n = @ + 1]]

=============================================================================
