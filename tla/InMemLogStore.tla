--------------------------- MODULE InMemLogStore ---------------------------
(***************************************************************************)
(* class inmem_log_store: a log kept in a map from indexes to entries, in  *)
(* which a dummy entry at index 0 stands for every entry there is not.     *)
(* Nothing counts the entries: the next index is computed from the size of *)
(* the map.  The caller holds raft_server::lock_, so an operation is one   *)
(* action although logs_lock_ is taken once for each entry in some.        *)
(***************************************************************************)
EXTENDS Integers, Sequences, SequencesExt, FiniteSets

CONSTANTS
  Entry,
  Dummy,              \* the entry at 0: term 0, no value
  MaxIndex, MaxPack   \* bounds: the largest index, the entries of a pack

VARIABLES logs, start_idx

vars == <<logs, start_idx>>

Indexes == DOMAIN logs
next_slot == start_idx + Cardinality(Indexes) - 1

\* Map m with entries es from index i on, which replace those that are there
Put(m, i, es) ==
  [j \in DOMAIN m \cup i .. i + Len(es) - 1 |->
     IF j \in i .. i + Len(es) - 1 THEN es[j - i + 1] ELSE m[j]]
Without(m, gone) == [j \in DOMAIN m \ gone |-> m[j]]

-----------------------------------------------------------------------------
(* Operations *)

append(e) ==
  /\ next_slot <= MaxIndex
  /\ logs' = Put(logs, next_slot, <<e>>)
  /\ UNCHANGED start_idx

KeepTail(i, e) ==   \* mutant: what follows the entry is kept
  logs' = Put(logs, i, <<e>>) /\ UNCHANGED start_idx
write_at(i, e) ==
  /\ logs' = Put(Without(logs, {j \in Indexes : j >= i}), i, <<e>>)
  /\ UNCHANGED start_idx

StartAtDummy(i, es) ==   \* mutant: the dummy entry is taken for the first
  logs' = Put(logs, i, es) /\ start_idx' = 0

\* The store begins at the smallest index but 0.  Entries behind the pack would stay,
\* where FsLogStore cuts them off.
apply_pack(i, es) ==
  /\ logs' = Put(logs, i, es)
  /\ start_idx' = CHOOSE j \in DOMAIN logs' \ {0} :
                    \A k \in DOMAIN logs' \ {0} : j <= k

EraseBefore(last) ==   \* mutant: the last entry to be removed stays
  logs' = Without(logs, start_idx .. last - 1) /\ start_idx' = last + 1
compact(last) ==
  /\ logs' = Without(logs, start_idx .. last)
  /\ start_idx' = last + 1

Init == logs = [j \in {0} |-> Dummy] /\ start_idx = 1

\* write_at and apply_pack are called with an index at which there is an entry or
\* to which the next would go; packs come in order, so that one never ends before
\* the store does.
Next ==
  \/ \E e \in Entry : append(e)
  \/ \E i \in start_idx .. next_slot :
       \/ \E e \in Entry : i <= MaxIndex /\ write_at(i, e)
       \/ \E es \in SeqOf(Entry, MaxPack) \ {<<>>} :
            i + Len(es) \in next_slot .. MaxIndex + 1 /\ apply_pack(i, es)
  \/ \E last \in start_idx .. MaxIndex : compact(last)

Spec == Init /\ [][Next]_vars

-----------------------------------------------------------------------------
(* What the reading operations return *)

entry_at(i) == IF i \in Indexes THEN logs[i] ELSE logs[0]
last_entry == entry_at(next_slot - 1)
\* For i >= e the result is empty.
log_entries(i, e) == [k \in 1 .. e - i |-> entry_at(i + k - 1)]
pack(i, cnt) == [k \in 1 .. cnt |-> logs[i + k - 1]]

-----------------------------------------------------------------------------
(* Properties *)

TypeOK ==
  /\ start_idx \in Nat \ {0}
  /\ Indexes \subseteq 0 .. MaxIndex
  /\ 0 \in Indexes /\ logs[0] = Dummy
  /\ \A i \in Indexes \ {0} : logs[i] \in Entry

\* The map has an entry for every index from start_index up to the next slot and
\* for no other: next_slot may be computed from its size, log_entries and pack find
\* every entry of the range they are asked for ("assert(0)", "assert(le.get())").
NoGaps == Indexes = {0} \cup start_idx .. next_slot - 1

\* The map holds the log that log_store promises.
Promise == INSTANCE LogStore WITH
  start <- start_idx, log <- log_entries(start_idx, next_slot)
ImplementsLogStore == Promise!Spec
=============================================================================
