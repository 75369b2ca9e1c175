----------------------------- MODULE HashTable -----------------------------
(***************************************************************************)
(* The hash table of include/c/dmem/hash.h: open addressing with double    *)
(* hashing, deleted slots, and a resize that rehashes in place.  What is   *)
(* left in a slot that is not in use is never read and is forgotten here.  *)
(***************************************************************************)
EXTENDS Integers, FiniteSets, FiniteSetsExt, Sequences

CONSTANTS
  HashKeys,   \* keys
  HashOf,     \* __hash_func: the number of each key
  HashVals,   \* values
  PrimeList,  \* __ac_prime_list, as far as it is needed
  NoEntry     \* what keys and vals hold in a slot that is not in use

Prime(p) == \A d \in 2..(p - 1) : p % d # 0

(* The list rises from 0 through odd primes to one that is large enough for a table
   in which half of the slots have entries. *)
ASSUME HashAssumption ==
  /\ IsFiniteSet(HashKeys) /\ HashOf \in [HashKeys -> Nat]
  /\ PrimeList \in Seq(Nat) /\ PrimeList # <<>> /\ PrimeList[1] = 0
  /\ \A t \in 2..Len(PrimeList) :
       PrimeList[t] > 2 /\ Prime(PrimeList[t]) /\ PrimeList[t - 1] < PrimeList[t]
  /\ PrimeList[Len(PrimeList)] > 2 * Cardinality(HashKeys) + 1

VARIABLES
  table,  \* the dh_name_t: flags, keys and vals of the slots, n_buckets, and
          \* the counts size and n_occupied
  entries \* history: the value of each key that was put and not deleted since

hashVars == <<table, entries>>

(* Slots are numbered from 0. *)
Slots(n) == 0..(n - 1)

(* upper_bound: 77 of 100 slots, rounded. *)
UpperBound(n) == (n * 77 + 50) \div 100

AllEmpty(n) == [i \in Slots(n) |-> "empty"]

HashInit ==
  /\ table = [n_buckets |-> 0, flags |-> AllEmpty(0), keys |-> [i \in {} |-> NoEntry],
              vals |-> [i \in {} |-> NoEntry], size |-> 0, n_occupied |-> 0]
  /\ entries = [k \in {} |-> NoEntry]

(* The slot of key in the j-th step of a search. *)
Probe(key, n, j) == (HashOf[key] + j * (1 + (HashOf[key] % (n - 1)))) % n

(* The steps in which a search for key comes to an empty slot or to key. *)
Stops(t, key) ==
  {j \in Slots(t.n_buckets) :
     LET i == Probe(key, t.n_buckets, j)
     IN  t.flags[i] = "empty" \/ (t.flags[i] = "live" /\ t.keys[i] = key)}

(* Mutant: a deleted slot ends the search. *)
dh_get_Deleted(t, key) ==
  LET stops == {j \in Slots(t.n_buckets) :
                  LET i == Probe(key, t.n_buckets, j)
                  IN  t.flags[i] # "live" \/ t.keys[i] = key}
      x == Probe(key, t.n_buckets, Min(stops))
  IN  IF stops = {} \/ t.flags[x] # "live" THEN t.n_buckets ELSE x

(* dh_get: the slot, or n_buckets. *)
dh_get(t, key) ==
  LET x == Probe(key, t.n_buckets, Min(Stops(t, key)))
  IN  IF Stops(t, key) = {} \/ t.flags[x] # "live" THEN t.n_buckets ELSE x

(* The new number of slots: the prime after the largest that is not above n. *)
NextPrime(n) ==
  PrimeList[1 + Max({t \in DOMAIN PrimeList : PrimeList[t] <= n})]

(* The entry in hand goes to its first free slot of the new flags.  An entry of the
   old table in that slot is taken out and goes on in its place. *)
PlaceEntry(r, n) ==
  LET free == {j \in Slots(n) : r.new[Probe(r.key, n, j)] = "empty"}
      i == Probe(r.key, n, Min(free))
      taken == i \in DOMAIN r.old /\ r.old[i] = "live"
  IN  [r EXCEPT !.new[i] = "live", !.keys[i] = r.key, !.vals[i] = r.val,
                !.old = IF taken THEN [@ EXCEPT ![i] = "del"] ELSE @,
                !.key = IF taken THEN r.keys[i] ELSE @,
                !.val = IF taken THEN r.vals[i] ELSE @,
                !.inHand = taken]

(* The entry of the next slot of the old table is taken in hand. *)
RehashSlot(r) ==
  IF r.old[r.j] # "live" THEN [r EXCEPT !.j = @ + 1]
  ELSE [r EXCEPT !.j = @ + 1, !.inHand = TRUE, !.key = r.keys[r.j], !.val = r.vals[r.j],
                 !.old[r.j] = "del"]

(* One pass of the two loops of dh_resize, from oldSize to n slots. *)
RehashPass(r, oldSize, n) ==
  CASE r.inHand -> PlaceEntry(r, n)
    [] ~r.inHand /\ r.j < oldSize -> RehashSlot(r)
    [] OTHER -> r

(* The contents of the slots in use. *)
InUseOf(flags, f) == [i \in DOMAIN flags |-> IF flags[i] = "live" THEN f[i] ELSE NoEntry]

(* The cells of the two arrays while entries move: as many as the larger table has. *)
RehashStart(t, n) ==
  LET most == IF n > t.n_buckets THEN n ELSE t.n_buckets
      cells(f) == [i \in Slots(most) |-> IF i \in Slots(t.n_buckets) THEN f[i] ELSE NoEntry]
  IN  [old |-> t.flags, new |-> AllEmpty(n), keys |-> cells(t.keys), vals |-> cells(t.vals),
       j |-> 0, inHand |-> FALSE, key |-> NoEntry, val |-> NoEntry]

(* The loops pass once over each slot and place each entry once, so two passes for each
   slot are enough. *)
Rehash(t, n) ==
  LET After[k \in 0..(2 * t.n_buckets)] ==
        IF k = 0 THEN RehashStart(t, n) ELSE RehashPass(After[k - 1], t.n_buckets, n)
  IN  After[2 * t.n_buckets]

(* dh_resize *)
dh_resize(t, want) ==
  LET n == NextPrime(want)
      done == Rehash(t, n)
  IN  IF t.size >= UpperBound(n) THEN t
      ELSE [t EXCEPT !.n_buckets = n, !.flags = done.new, !.n_occupied = t.size,
                     !.keys = InUseOf(done.new, done.keys),
                     !.vals = InUseOf(done.new, done.vals)]

(* What dh_put does first: deleted slots count as occupied.  A table that is
   mostly deleted slots is cleaned up, others grow. *)
Resized(t) ==
  IF t.n_occupied < UpperBound(t.n_buckets) THEN t
  ELSE IF t.n_buckets > 2 * t.size THEN dh_resize(t, t.n_buckets - 1)
  ELSE dh_resize(t, t.n_buckets + 1)

(* The slot that dh_put uses: that of the key, or the last deleted one on the way
   to an empty one, or the empty one. *)
SlotFor(t, key) ==
  LET stops == Stops(t, key)
      last == IF stops = {} THEN t.n_buckets ELSE Min(stops)
      end == Probe(key, t.n_buckets, last)
      gone == {j \in Slots(last) : t.flags[Probe(key, t.n_buckets, j)] = "del"}
  IN  IF gone # {} /\ (stops = {} \/ t.flags[end] = "empty")
      THEN Probe(key, t.n_buckets, Max(gone))
      ELSE end

(* dh_put and the value that the caller stores. *)
Put(key, val) ==
  LET t == Resized(table)
      x == SlotFor(t, key)
      new == t.flags[x] # "live"
  IN  /\ table' = [t EXCEPT !.flags[x] = "live", !.keys[x] = key, !.vals[x] = val,
                            !.size = IF new THEN @ + 1 ELSE @,
                            !.n_occupied = IF t.flags[x] = "empty" THEN @ + 1 ELSE @]
      /\ entries' = [k \in DOMAIN entries \cup {key} |-> IF k = key THEN val ELSE entries[k]]

(* dh_get and dh_del of what it finds. *)
Del(key) ==
  LET x == dh_get(table, key)
  IN  /\ x # table.n_buckets
      /\ table' = [table EXCEPT !.flags[x] = "del", !.size = @ - 1, !.keys[x] = NoEntry,
                                !.vals[x] = NoEntry]
      /\ entries' = [k \in DOMAIN entries \ {key} |-> entries[k]]

(* dh_clear *)
Clear ==
  /\ table.n_buckets > 0
  /\ table' = [table EXCEPT !.flags = AllEmpty(table.n_buckets), !.size = 0, !.n_occupied = 0,
                            !.keys = InUseOf(AllEmpty(table.n_buckets), @),
                            !.vals = InUseOf(AllEmpty(table.n_buckets), @)]
  /\ entries' = [k \in {} |-> NoEntry]

HashNext ==
  \/ \E key \in HashKeys : (\E val \in HashVals : Put(key, val)) \/ Del(key)
  \/ Clear

-----------------------------------------------------------------------------
(* Properties *)

(* A search finds the value that was last put for a key, and none after the key
   was deleted, through deleted slots, collisions and resizes. *)
SearchFinds ==
  \A key \in HashKeys :
    LET x == dh_get(table, key)
    IN  IF key \in DOMAIN entries THEN x # table.n_buckets /\ table.vals[x] = entries[key]
        ELSE x = table.n_buckets

(* The live slots are the entries, each of them once: a walk over the table
   (dh_begin to dh_end) visits every entry and none twice. *)
WalkVisitsOnce ==
  LET live == {i \in Slots(table.n_buckets) : table.flags[i] = "live"}
  IN  /\ {<<table.keys[i], table.vals[i]>> : i \in live} = {<<k, entries[k]>> : k \in DOMAIN entries}
      /\ Cardinality(live) = Cardinality(DOMAIN entries)

(* A free slot is left whenever there are slots, so the loops of dh_resize and
   dh_put end; the counts that decide about a resize are those of the slots. *)
FreeSlotLeft ==
  /\ table.size = Cardinality({i \in Slots(table.n_buckets) : table.flags[i] = "live"})
  /\ table.n_occupied = Cardinality({i \in Slots(table.n_buckets) : table.flags[i] # "empty"})
  /\ table.n_buckets > 0 => table.n_occupied < table.n_buckets

(* After any sequence of insertions, deletions and resizes the table is the map that
   was put into it, and its loops end. *)
HashSound == SearchFinds /\ WalkVisitsOnce /\ FreeSlotLeft
=============================================================================
