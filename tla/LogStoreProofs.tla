--------------------------- MODULE LogStoreProofs ---------------------------
(***************************************************************************)
(* The two log stores hold the log that log_store promises: the map of     *)
(* inmem_log_store, which knows its end only by its size, and the files    *)
(* of fs_log_store with their buffer, however large index, packs and       *)
(* entries may become: of an entry's size only that it is not 0 is used.   *)
(***************************************************************************)
EXTENDS MCParts, FiniteSetTheorems, SequenceTheorems, TLAPS

-----------------------------------------------------------------------------
(* InMemLogStore *)

\* The map has entries from mem_start_idx up to but not including n.
Holds(n) ==
  /\ mem_start_idx \in Nat \ {0} /\ n \in Nat /\ n >= mem_start_idx
  /\ Mem!Indexes = {0} \cup mem_start_idx .. n - 1

\* The invariant: the map has no gaps.
MemInv == \E n \in Nat : Holds(n)

\* The next slot is found from the size of the map.
LEMMA NextSlot == ASSUME NEW n \in Nat, Holds(n) PROVE Mem!next_slot = n
<1> DEFINE Stored == mem_start_idx .. n - 1
<1>1. IsFiniteSet(Stored) /\ Cardinality(Stored) = n - mem_start_idx
  BY FS_Interval DEF Holds
<1>2. 0 \notin Stored
  BY DEF Holds
<1>3. Mem!Indexes = Stored \cup {0}
  BY DEF Holds
<1> HIDE DEF Stored
<1>4. Cardinality(Mem!Indexes) = n - mem_start_idx + 1
  BY <1>1, <1>2, <1>3, FS_AddElement
<1>5. Mem!Cardinality(Mem!Indexes) = Cardinality(Mem!Indexes)
  BY DEF Mem!Cardinality, Cardinality
<1> QED BY <1>4, <1>5 DEF Mem!next_slot, Holds

\* What writing into a map and removing from it does to its indexes
LEMMA PutIndexes ==
  ASSUME NEW m, NEW at, NEW es
  PROVE  DOMAIN Mem!Put(m, at, es) = DOMAIN m \cup at .. at + Len(es) - 1
BY DEF Mem!Put

LEMMA WithoutIndexes ==
  ASSUME NEW m, NEW gone PROVE DOMAIN Mem!Without(m, gone) = DOMAIN m \ gone
BY DEF Mem!Without

\* A new entry goes to the end.
LEMMA AppendHolds ==
  ASSUME NEW n \in Nat, Holds(n), NEW e, Mem!append(e) PROVE Holds(n + 1)'
<1>1. Mem!Indexes' = Mem!Indexes \cup n .. n + Len(<<e>>) - 1
  BY NextSlot, PutIndexes DEF Mem!append, Mem!Indexes
<1>2. Len(<<e>>) = 1
  OBVIOUS
<1> QED BY <1>1, <1>2 DEF Mem!append, Holds

\* An entry that is overwritten becomes the last.
LEMMA WriteHolds ==
  ASSUME NEW n \in Nat, Holds(n), NEW at \in mem_start_idx .. n, NEW e, Mem!write_at(at, e)
  PROVE  Holds(at + 1)'
<1> DEFINE gone == {j \in Mem!Indexes : j >= at}
<1>1. Mem!Indexes' = (Mem!Indexes \ gone) \cup at .. at + Len(<<e>>) - 1
  <2>1. logs' = Mem!Put(Mem!Without(logs, gone), at, <<e>>)
    BY DEF Mem!write_at
  <2> HIDE DEF gone
  <2>2. DOMAIN Mem!Without(logs, gone) = Mem!Indexes \ gone
    BY WithoutIndexes DEF Mem!Indexes
  <2> QED BY <2>1, <2>2, PutIndexes DEF Mem!Indexes
<1>2. Len(<<e>>) = 1
  OBVIOUS
<1> QED BY <1>1, <1>2 DEF Mem!write_at, Holds

\* A pack that reaches the end extends the store and keeps its beginning.
LEMMA PackHolds ==
  ASSUME NEW n \in Nat, Holds(n), NEW at \in mem_start_idx .. n, NEW es \in Seq(MemEntry),
         es # <<>>, at + Len(es) >= n, Mem!apply_pack(at, es)
  PROVE  Holds(at + Len(es))' /\ UNCHANGED mem_start_idx
<1> DEFINE First(j) == /\ j \in Mem!Indexes' \ {0}
                       /\ \A k \in Mem!Indexes' \ {0} : j <= k
<1>1. Len(es) \in Nat \ {0}
  BY LenProperties, EmptySeq
<1>2. Mem!Indexes' = Mem!Indexes \cup at .. at + Len(es) - 1
  BY PutIndexes DEF Mem!apply_pack, Mem!Indexes
<1>3. Mem!Indexes' \ {0} = mem_start_idx .. at + Len(es) - 1
  BY <1>1, <1>2 DEF Holds
<1>4. First(mem_start_idx)
  BY <1>1, <1>3 DEF Holds
<1>5. ASSUME NEW j, First(j) PROVE j = mem_start_idx
  <2>1. j \in mem_start_idx .. at + Len(es) - 1 /\ j <= mem_start_idx
    BY <1>3, <1>4, <1>5
  <2> QED BY <1>1, <2>1 DEF Holds
<1>6. mem_start_idx' = CHOOSE j : First(j)
  BY DEF Mem!apply_pack, Mem!Indexes
<1>7. mem_start_idx' = mem_start_idx
  BY <1>4, <1>5, <1>6
<1> QED BY <1>1, <1>2, <1>7 DEF Holds

\* Compaction moves the beginning, past the end if everything goes.
LEMMA CompactHolds ==
  ASSUME NEW n \in Nat, Holds(n), NEW upto \in Nat, upto >= mem_start_idx, Mem!compact(upto)
  PROVE  MemInv'
<1> DEFINE end == IF n > upto THEN n ELSE upto + 1
<1>1. Mem!Indexes' = Mem!Indexes \ (mem_start_idx .. upto)
  BY WithoutIndexes DEF Mem!compact, Mem!Indexes
<1>2. Holds(end)'
  BY <1>1 DEF Mem!compact, Holds
<1>3. end \in Nat
  OBVIOUS
<1> QED BY <1>2, <1>3 DEF MemInv

\* inmem_log_store runs on its own in PartsSpec.
LEMMA MemoryRuns == PartsSpec => Mem!Spec
<1>1. PartsInit => Mem!Init
  BY DEF PartsInit
<1>2. [PartsNext]_<<part, sn_vars, fs_vars, mem_vars, ct_vars, el_vars, tm_vars,
                    as_vars, rp_vars, cl_vars>> => [Mem!Next]_(Mem!vars)
  BY DEF PartsNext, mem_vars, Mem!vars
<1> QED BY <1>1, <1>2, PTL DEF PartsSpec, Mem!Spec

\* What the log stores assume of their constants
LEMMA StoreFacts ==
  /\ MCSize \in [MCValue -> Nat \ {0}]
  /\ BufSize \in Nat \ {0} /\ MaxStoreIndex \in Nat /\ MaxPack \in Nat \ {0}
BY PartsAssumption DEF Fs!StoreAssumption

\* MemNoGaps: from start_index to the next slot there is an entry at every index, and
\* nowhere else but for the dummy at 0.
THEOREM MemoryHasNoGaps == PartsSpec => []MemNoGaps
<1> USE StoreFacts
<1>1. Mem!Init => MemInv
  <2> SUFFICES ASSUME Mem!Init PROVE Holds(1)
    BY DEF MemInv
  <2> QED BY DEF Mem!Init, Holds, Mem!Indexes
<1>2. MemInv /\ [Mem!Next]_(Mem!vars) => MemInv'
  <2> SUFFICES ASSUME NEW n \in Nat, Holds(n), [Mem!Next]_(Mem!vars) PROVE MemInv'
    BY DEF MemInv
  <2>1. Mem!next_slot = n
    BY NextSlot
  <2>2. ASSUME NEW e \in MemEntry, Mem!append(e) PROVE MemInv'
    BY <2>2, AppendHolds DEF MemInv
  <2>3. ASSUME NEW at \in mem_start_idx .. n, NEW e \in MemEntry, Mem!write_at(at, e)
        PROVE  MemInv'
    BY <2>3, WriteHolds DEF MemInv, Holds
  <2>4. ASSUME NEW at \in mem_start_idx .. n, NEW es \in Mem!SeqOf(MemEntry, MaxPack) \ {<<>>},
               at + Len(es) \in n .. MaxStoreIndex + 1, Mem!apply_pack(at, es)
        PROVE  MemInv'
    <3>1. es \in Seq(MemEntry)
      BY DEF Mem!SeqOf
    <3>2. at + Len(es) \in Nat /\ at + Len(es) >= n
      BY <2>4
    <3> QED BY <2>4, <3>1, <3>2, PackHolds DEF MemInv
  <2>5. ASSUME NEW upto \in mem_start_idx .. MaxStoreIndex, Mem!compact(upto) PROVE MemInv'
    BY <2>5, CompactHolds DEF Holds
  <2>6. CASE UNCHANGED Mem!vars
    BY <2>6 DEF Mem!vars, MemInv, Holds, Mem!Indexes
  <2> QED BY <2>1, <2>2, <2>3, <2>4, <2>5, <2>6 DEF Mem!Next
<1>3. MemInv => Mem!NoGaps
  BY NextSlot DEF MemInv, Holds, Mem!NoGaps
<1> QED BY <1>1, <1>2, <1>3, MemoryRuns, PTL DEF Mem!Spec, MemNoGaps

-----------------------------------------------------------------------------
(* The map holds the log that log_store promises *)

\* The log the map stands for, and what every place of it holds
MemView == Mem!log_entries(mem_start_idx, Mem!next_slot)
Filled == \A j \in Mem!Indexes \ {0} : logs[j] \in MemEntry
ViewFact == \A n \in Nat : Holds(n) /\ Filled =>
  /\ MemView \in Seq(MemEntry) /\ Len(MemView) = n - mem_start_idx
  /\ \A k \in 1 .. n - mem_start_idx : MemView[k] = logs[mem_start_idx + k - 1]

LEMMA ViewIs == ViewFact
<1> SUFFICES ASSUME NEW n \in Nat, Holds(n), Filled
             PROVE  /\ MemView \in Seq(MemEntry) /\ Len(MemView) = n - mem_start_idx
                    /\ \A k \in 1 .. n - mem_start_idx : MemView[k] = logs[mem_start_idx + k - 1]
  BY DEF ViewFact
<1> DEFINE len == n - mem_start_idx
           v == [k \in 1 .. len |-> logs[mem_start_idx + k - 1]]
<1>1. len \in Nat /\ mem_start_idx \in Nat
  BY DEF Holds
<1>2. ASSUME NEW k \in 1 .. len
      PROVE  mem_start_idx + k - 1 \in Mem!Indexes \ {0}
  BY DEF Holds
<1>3. MemView = v
  BY <1>2, NextSlot DEF MemView, Mem!log_entries, Mem!entry_at
<1>4. v \in [1 .. len -> MemEntry]
  BY <1>2 DEF Filled
<1>5. v \in Seq(MemEntry) /\ Len(v) = len
  <2> HIDE DEF v
  <2> QED BY <1>1, <1>4
<1> QED BY <1>3, <1>5

\* Sequences of the same length and the same entries
LEMMA SameSequence ==
  ASSUME NEW x \in Seq(MemEntry), NEW y \in Seq(MemEntry), Len(x) = Len(y),
         \A k \in 1 .. Len(x) : x[k] = y[k]
  PROVE  x = y
BY SeqEqual

\* A write cuts the log where it begins and puts the entries there.
LEMMA WrittenView ==
  ASSUME NEW n \in Nat, Holds(n), Filled, NEW at \in mem_start_idx .. n,
         NEW es \in Seq(MemEntry), Holds(at + Len(es))', UNCHANGED mem_start_idx,
         \A j \in mem_start_idx .. at - 1 : logs'[j] = logs[j],
         \A j \in at .. at + Len(es) - 1 : logs'[j] = es[j - at + 1]
  PROVE  Filled' /\ MemView' = SubSeq(MemView, 1, at - mem_start_idx) \o es
<1> DEFINE s == mem_start_idx
           kept == SubSeq(MemView, 1, at - s)
<1>1. s \in Nat \ {0} /\ at \in Nat /\ s <= at /\ at <= n /\ Len(es) \in Nat
  BY LenProperties DEF Holds
<1>2. \A j \in 1 .. Len(es) : es[j] \in MemEntry
  BY ElementOfSeq
<1>3. Filled'
  <2> SUFFICES ASSUME NEW j \in s .. at + Len(es) - 1 PROVE logs'[j] \in MemEntry
    BY <1>1 DEF Filled, Holds
  <2>1. CASE j < at
    <3>1. j \in s .. at - 1 /\ j \in Mem!Indexes \ {0}
      BY <1>1, <2>1 DEF Holds
    <3> QED BY <3>1 DEF Filled
  <2>2. CASE j >= at
    <3>1. j \in at .. at + Len(es) - 1 /\ j - at + 1 \in 1 .. Len(es)
      BY <1>1, <2>2
    <3> QED BY <1>2, <3>1
  <2> QED BY <1>1, <2>1, <2>2
<1>4. /\ MemView \in Seq(MemEntry) /\ Len(MemView) = n - s
      /\ \A k \in 1 .. n - s : MemView[k] = logs[s + k - 1]
  BY ViewIs DEF ViewFact
<1>5. ViewFact'
  BY ViewIs, PTL
<1>6. /\ MemView' \in Seq(MemEntry) /\ Len(MemView') = at + Len(es) - s
      /\ \A k \in 1 .. at + Len(es) - s : MemView'[k] = logs'[s + k - 1]
  <2>1. PICK p \in Nat : p = at + Len(es)
    BY <1>1
  <2>2. Holds(p)' /\ mem_start_idx' = s
    BY <2>1
  <2>3. /\ MemView' \in Seq(MemEntry) /\ Len(MemView') = p - mem_start_idx'
        /\ \A k \in 1 .. p - mem_start_idx' : MemView'[k] = logs'[mem_start_idx' + k - 1]
    BY <1>3, <1>5, <2>2 DEF ViewFact
  <2>4. p - mem_start_idx' = at + Len(es) - s
    BY <1>1, <2>1, <2>2
  <2>5. ASSUME NEW k \in 1 .. at + Len(es) - s PROVE MemView'[k] = logs'[s + k - 1]
    <3>1. MemView'[k] = logs'[mem_start_idx' + k - 1]
      BY <2>3, <2>4
    <3>2. mem_start_idx' + k - 1 = s + k - 1
      BY <2>2
    <3> QED BY <3>1, <3>2
  <2> HIDE DEF s
  <2> QED BY <2>3, <2>4, <2>5
<1>7. /\ kept \in Seq(MemEntry) /\ Len(kept) = at - s
      /\ \A k \in 1 .. at - s : kept[k] = logs[s + k - 1]
  <2>1. \A k \in 1 .. at - s :
          k \in 1 .. Len(MemView) /\ MemView[k] \in MemEntry /\ MemView[k] = logs[s + k - 1]
    BY <1>1, <1>4, ElementOfSeq
  <2> HIDE DEF s
  <2> QED BY <1>1, <1>4, <2>1, SubSeqProperties
<1>8. /\ kept \o es \in Seq(MemEntry) /\ Len(kept \o es) = at - s + Len(es)
      /\ \A k \in 1 .. at - s + Len(es) :
           (kept \o es)[k] = IF k <= at - s THEN kept[k] ELSE es[k - (at - s)]
  <2>1. /\ kept \o es \in Seq(MemEntry) /\ Len(kept \o es) = Len(kept) + Len(es)
        /\ \A k \in 1 .. Len(kept) + Len(es) :
             (kept \o es)[k] = IF k <= Len(kept) THEN kept[k] ELSE es[k - Len(kept)]
    <3> HIDE DEF kept
    <3> QED BY <1>7, ConcatProperties
  <2> HIDE DEF kept
  <2> QED BY <1>7, <2>1
<1>9. ASSUME NEW k \in 1 .. at - s + Len(es) PROVE MemView'[k] = (kept \o es)[k]
  <2> HIDE DEF kept
  <2>1. MemView'[k] = logs'[s + k - 1]
    <3>1. k \in 1 .. at + Len(es) - s
      BY <1>1
    <3> QED BY <1>6, <3>1
  <2>2. CASE k <= at - s
    <3>1. k \in 1 .. at - s /\ s + k - 1 \in s .. at - 1
      BY <1>1, <2>2
    <3> QED BY <1>7, <1>8, <2>1, <2>2, <3>1
  <2>3. CASE ~(k <= at - s)
    <3>1. PICK j \in at .. at + Len(es) - 1 : j = s + k - 1 /\ j - at + 1 = k - (at - s)
      BY <1>1, <2>3
    <3>2. logs'[j] = es[j - at + 1]
      OBVIOUS
    <3> QED BY <1>8, <2>1, <2>3, <3>1, <3>2
  <2> QED BY <2>2, <2>3
<1>10. MemView' = kept \o es
  <2> HIDE DEF kept
  <2>1. at + Len(es) - s = at - s + Len(es)
    BY <1>1
  <2> QED BY <1>6, <1>8, <1>9, <2>1, SameSequence
<1> QED BY <1>3, <1>10

\* Compaction drops the front.
LEMMA CompactedView ==
  ASSUME NEW n \in Nat, Holds(n), Filled, NEW upto \in Nat,
         upto >= mem_start_idx, Mem!compact(upto)
  PROVE  Filled' /\ MemView' = SubSeq(MemView, upto - mem_start_idx + 2, Len(MemView))
<1> DEFINE end == IF n > upto THEN n ELSE upto + 1
           s == mem_start_idx
<1>1. Mem!Indexes' = Mem!Indexes \ (s .. upto) /\ mem_start_idx' = upto + 1
  BY WithoutIndexes DEF Mem!compact, Mem!Indexes
<1>2. Holds(end)' /\ end \in Nat
  BY <1>1 DEF Holds
<1>3. \A j \in Mem!Indexes' : logs'[j] = logs[j]
  BY <1>1 DEF Mem!compact, Mem!Without, Mem!Indexes
<1>4. Filled'
  BY <1>1, <1>3 DEF Filled
<1>5. ViewFact'
  BY ViewIs, PTL
<1>6. /\ MemView' \in Seq(MemEntry) /\ Len(MemView') = end - (upto + 1)
      /\ \A k \in 1 .. end - (upto + 1) : MemView'[k] = logs'[upto + k]
  <2> HIDE DEF end
  <2>1. \A k \in Int : upto + 1 + k - 1 = upto + k
    OBVIOUS
  <2> QED BY <1>1, <1>2, <1>4, <1>5, <2>1 DEF ViewFact
<1>7. /\ MemView \in Seq(MemEntry) /\ Len(MemView) = n - s
      /\ \A k \in 1 .. n - s : MemView[k] = logs[s + k - 1]
  BY ViewIs DEF ViewFact
<1>8. s \in Nat \ {0} /\ s <= upto /\ s <= n
  BY DEF Holds
<1> DEFINE rest == SubSeq(MemView, upto - s + 2, Len(MemView))
<1>9. /\ rest \in Seq(MemEntry) /\ Len(rest) = end - (upto + 1)
      /\ \A k \in 1 .. end - (upto + 1) : rest[k] = logs[upto + k]
  <2>1. \A k \in upto - s + 2 .. Len(MemView) :
          MemView[k] \in MemEntry /\ MemView[k] = logs[s + k - 1]
    <3>1. \A k \in upto - s + 2 .. Len(MemView) : k \in 1 .. Len(MemView)
      BY <1>7, <1>8
    <3> QED BY <1>7, <3>1, ElementOfSeq
  <2>2. /\ rest \in Seq(MemEntry)
        /\ Len(rest) = IF upto - s + 2 <= Len(MemView) THEN Len(MemView) - (upto - s + 2) + 1 ELSE 0
        /\ \A k \in 1 .. Len(MemView) - (upto - s + 2) + 1 : rest[k] = MemView[upto - s + 2 + k - 1]
    <3> HIDE DEF s
    <3> QED BY <1>7, <1>8, <2>1, SubSeqProperties
  <2> HIDE DEF rest
  <2>3. Len(rest) = end - (upto + 1)
    BY <1>7, <1>8, <2>2
  <2>4. ASSUME NEW k \in 1 .. end - (upto + 1) PROVE rest[k] = logs[upto + k]
    <3>1. /\ k \in 1 .. Len(MemView) - (upto - s + 2) + 1
          /\ upto - s + 2 + k - 1 \in upto - s + 2 .. Len(MemView)
          /\ s + (upto - s + 2 + k - 1) - 1 = upto + k
      BY <1>7, <1>8
    <3> QED BY <2>1, <2>2, <3>1
  <2> QED BY <2>2, <2>3, <2>4
<1>10. \A k \in 1 .. end - (upto + 1) : logs'[upto + k] = logs[upto + k]
  BY <1>1, <1>2, <1>3, <1>8 DEF Holds
<1> HIDE DEF rest, end
<1>11. MemView' = rest
  BY <1>6, <1>9, <1>10, SameSequence
<1> QED BY <1>4, <1>11 DEF rest

\* What Put leaves and what it writes
LEMMA PutEntries ==
  ASSUME NEW m, NEW at \in Nat, NEW es \in Seq(MemEntry)
  PROVE  /\ \A j \in DOMAIN m : j \in Int /\ j < at => Mem!Put(m, at, es)[j] = m[j]
         /\ \A j \in at .. at + Len(es) - 1 : Mem!Put(m, at, es)[j] = es[j - at + 1]
<1>1. \A j \in DOMAIN m : j \in Int /\ j < at => j \notin at .. at + Len(es) - 1
  OBVIOUS
<1> QED BY <1>1 DEF Mem!Put

\* A write of any kind is one Overwrite.
LEMMA WriteOverwrites ==
  ASSUME NEW n \in Nat, Holds(n), Filled, NEW at \in mem_start_idx .. n, NEW m,
         NEW es \in Mem!SeqOf(MemEntry, MaxPack), es # <<>>,
         logs' = Mem!Put(m, at, es), UNCHANGED mem_start_idx, Holds(at + Len(es))',
         \A j \in mem_start_idx .. at - 1 : j \in DOMAIN m /\ m[j] = logs[j]
  PROVE  Filled' /\ Mem!Promise!Next
<1>1. es \in Seq(MemEntry)
  BY DEF Mem!SeqOf
<1>2. at \in Nat /\ mem_start_idx \in Nat
  BY DEF Holds
<1>3. \A j \in mem_start_idx .. at - 1 : logs'[j] = logs[j]
  <2>1. \A j \in mem_start_idx .. at - 1 : j \in Int /\ j < at
    BY <1>2
  <2> QED BY <1>1, <1>2, <2>1, PutEntries
<1>4. \A j \in at .. at + Len(es) - 1 : logs'[j] = es[j - at + 1]
  BY <1>1, <1>2, PutEntries
<1>5. Filled' /\ MemView' = SubSeq(MemView, 1, at - mem_start_idx) \o es
  BY <1>1, <1>3, <1>4, WrittenView
<1>6. at \in mem_start_idx .. mem_start_idx + Len(MemView)
  <2>1. Len(MemView) = n - mem_start_idx
    BY ViewIs DEF ViewFact
  <2> QED BY <1>2, <2>1
<1>7. es \in Mem!Promise!SeqOf(MemEntry, MaxPack)
  BY DEF Mem!SeqOf, Mem!Promise!SeqOf
<1>8. Mem!Promise!Overwrite(at, es)
  BY <1>5, <1>6 DEF Mem!Promise!Overwrite, MemView
<1> QED BY <1>5, <1>6, <1>7, <1>8 DEF Mem!Promise!Next, MemView

\* MemImplementsLogStore: the map loses, repeats and moves no entry, although it only
\* knows its size and where it begins.
THEOREM MemoryIsLog == PartsSpec => MemImplementsLogStore
<1> USE StoreFacts
<1> DEFINE FInv == MemInv /\ Filled
<1>1. Mem!Init => FInv /\ Mem!Promise!Init
  <2> SUFFICES ASSUME Mem!Init PROVE Holds(1) /\ Filled /\ Mem!Promise!Init
    BY DEF MemInv
  <2>1. Holds(1) /\ Filled
    BY DEF Mem!Init, Holds, Filled, Mem!Indexes
  <2>2. MemView = <<>>
    <3>1. MemView \in Seq(MemEntry) /\ Len(MemView) = 0
      BY <2>1, ViewIs DEF ViewFact, Mem!Init
    <3> QED BY <3>1, EmptySeq
  <2> QED BY <2>1, <2>2 DEF Mem!Init, Mem!Promise!Init, MemView
<1>2. FInv /\ [Mem!Next]_(Mem!vars) => FInv' /\ [Mem!Promise!Next]_<<mem_start_idx, MemView>>
  <2> SUFFICES ASSUME NEW n \in Nat, Holds(n), Filled, [Mem!Next]_(Mem!vars)
               PROVE  FInv' /\ [Mem!Promise!Next]_<<mem_start_idx, MemView>>
    BY DEF MemInv
  <2> DEFINE Goal == FInv' /\ [Mem!Promise!Next]_<<mem_start_idx, MemView>>
  <2>1. Mem!next_slot = n /\ mem_start_idx \in Nat /\ n \in mem_start_idx .. n
    BY NextSlot DEF Holds
  <2>2. \A j \in mem_start_idx .. n - 1 : j \in Mem!Indexes
    BY DEF Holds
  <2>3. ASSUME NEW e \in MemEntry
        PROVE  <<e>> \in Mem!SeqOf(MemEntry, MaxPack) /\ <<e>> # <<>> /\ Len(<<e>>) = 1
    <3>1. <<e>> \in [1 .. 1 -> MemEntry] /\ 1 \in 0 .. MaxPack
      OBVIOUS
    <3>2. <<e>> \in Mem!SeqOf(MemEntry, MaxPack)
      BY <3>1 DEF Mem!SeqOf
    <3> QED BY <3>2
  <2>4. ASSUME NEW e \in MemEntry, Mem!append(e) PROVE Goal
    <3>1. Holds(n + 1)'
      BY <2>4, AppendHolds
    <3>2. logs' = Mem!Put(logs, n, <<e>>) /\ UNCHANGED mem_start_idx
      BY <2>1, <2>4 DEF Mem!append
    <3>3. Filled' /\ Mem!Promise!Next
      BY <2>1, <2>2, <2>3, <3>1, <3>2, WriteOverwrites DEF Mem!Indexes
    <3> QED BY <3>1, <3>3 DEF MemInv
  <2>5. ASSUME NEW at \in mem_start_idx .. n, NEW e \in MemEntry, Mem!write_at(at, e) PROVE Goal
    <3> DEFINE m == Mem!Without(logs, {j \in Mem!Indexes : j >= at})
    <3>1. Holds(at + 1)' /\ at + 1 \in Nat
      BY <2>1, <2>5, WriteHolds
    <3>2. logs' = Mem!Put(m, at, <<e>>) /\ UNCHANGED mem_start_idx
      BY <2>5 DEF Mem!write_at
    <3>3. \A j \in mem_start_idx .. at - 1 : j \in DOMAIN m /\ m[j] = logs[j]
      <4>1. \A j \in mem_start_idx .. at - 1 : j \in Mem!Indexes /\ ~(j >= at)
        BY <2>1, <2>2
      <4> QED BY <4>1 DEF Mem!Without, Mem!Indexes
    <3> HIDE DEF m
    <3>4. Filled' /\ Mem!Promise!Next
      BY <2>3, <3>1, <3>2, <3>3, WriteOverwrites
    <3> QED BY <3>1, <3>4 DEF MemInv
  <2>6. ASSUME NEW at \in mem_start_idx .. n, NEW es \in Mem!SeqOf(MemEntry, MaxPack) \ {<<>>},
               at + Len(es) \in n .. MaxStoreIndex + 1, Mem!apply_pack(at, es)
        PROVE  Goal
    <3>1. es \in Seq(MemEntry) /\ at + Len(es) >= n
      BY <2>6 DEF Mem!SeqOf
    <3>2. Holds(at + Len(es))' /\ UNCHANGED mem_start_idx
      BY <2>6, <3>1, PackHolds
    <3>3. logs' = Mem!Put(logs, at, es)
      BY <2>6 DEF Mem!apply_pack
    <3>4. \A j \in mem_start_idx .. at - 1 : j \in DOMAIN logs
      <4>1. \A j \in mem_start_idx .. at - 1 : j \in mem_start_idx .. n - 1
        BY <2>1
      <4> QED BY <2>2, <4>1 DEF Mem!Indexes
    <3>5. Filled' /\ Mem!Promise!Next
      BY <3>2, <3>3, <3>4, WriteOverwrites
    <3>6. at + Len(es) \in Nat
      BY <2>6
    <3> QED BY <3>2, <3>5, <3>6 DEF MemInv
  <2>7. ASSUME NEW upto \in mem_start_idx .. MaxStoreIndex, Mem!compact(upto) PROVE Goal
    <3>1. upto \in Nat /\ upto >= mem_start_idx
      BY <2>1
    <3>2. MemInv' /\ Filled' /\ MemView' = SubSeq(MemView, upto - mem_start_idx + 2, Len(MemView))
      BY <2>7, <3>1, CompactHolds, CompactedView
    <3>3. Mem!Promise!Compact(upto)
      BY <2>7, <3>1, <3>2 DEF Mem!Promise!Compact, Mem!compact, MemView
    <3> QED BY <3>2, <3>3 DEF Mem!Promise!Next
  <2>8. CASE UNCHANGED Mem!vars
    BY <2>8 DEF Mem!vars, MemInv, Holds, Filled, Mem!Indexes, MemView, Mem!log_entries,
       Mem!entry_at, Mem!next_slot
  <2> HIDE DEF Goal
  <2> QED BY <2>1, <2>4, <2>5, <2>6, <2>7, <2>8 DEF Mem!Next, Goal
<1> QED BY <1>1, <1>2, MemoryRuns, PTL
        DEF Mem!Spec, MemImplementsLogStore, Mem!ImplementsLogStore, Mem!Promise!Spec, MemView

\* What the map holds after a write of any kind, with the dummy still in its place
LEMMA WriteKeepsDummy ==
  ASSUME NEW n \in Nat, Holds(n), Filled, NEW at \in mem_start_idx .. n, NEW m,
         NEW es \in Mem!SeqOf(MemEntry, MaxPack), es # <<>>,
         logs' = Mem!Put(m, at, es), UNCHANGED mem_start_idx, Holds(at + Len(es))',
         \A j \in mem_start_idx .. at - 1 : j \in DOMAIN m /\ m[j] = logs[j],
         0 \in DOMAIN m, m[0] = Dummy
  PROVE  Filled' /\ logs'[0] = Dummy
<1>1. Filled'
  BY WriteOverwrites
<1>2. at \in Nat /\ 0 < at
  BY DEF Holds
<1>3. es \in Seq(MemEntry)
  BY DEF Mem!SeqOf
<1>4. Mem!Put(m, at, es)[0] = m[0]
  <2>1. \A j \in DOMAIN m : j \in Int /\ j < at => Mem!Put(m, at, es)[j] = m[j]
    BY <1>2, <1>3, PutEntries, Zenon
  <2> QED BY <1>2, <2>1
<1> QED BY <1>1, <1>4

\* MemTypeOK: the map holds the dummy at 0 and entries from index 1 to MaxStoreIndex,
\* after any append, write_at, apply_pack and compact.
THEOREM MemoryTyped == PartsSpec => []MemTypeOK
<1> USE StoreFacts
<1> DEFINE Ends(n) == n \in Nat /\ n <= MaxStoreIndex + 1 /\ Holds(n)
           TInv == (\E n \in Nat : Ends(n)) /\ Filled /\ logs[0] = Dummy
<1>1. Mem!Init => TInv
  <2> SUFFICES ASSUME Mem!Init PROVE Ends(1) /\ Filled /\ logs[0] = Dummy
    OBVIOUS
  <2> QED BY DEF Mem!Init, Holds, Filled, Mem!Indexes
<1>2. TInv /\ [Mem!Next]_(Mem!vars) => TInv'
  <2> SUFFICES ASSUME NEW n \in Nat, Ends(n), Filled, logs[0] = Dummy, [Mem!Next]_(Mem!vars)
               PROVE  TInv'
    OBVIOUS
  <2>1. Mem!next_slot = n /\ mem_start_idx \in Nat \ {0} /\ n \in mem_start_idx .. n
    BY NextSlot DEF Holds
  <2>2. 0 \in Mem!Indexes /\ \A j \in mem_start_idx .. n - 1 : j \in Mem!Indexes
    BY DEF Holds
  <2>3. ASSUME NEW e \in MemEntry
        PROVE  <<e>> \in Mem!SeqOf(MemEntry, MaxPack) /\ <<e>> # <<>> /\ Len(<<e>>) = 1
    <3>1. <<e>> \in [1 .. 1 -> MemEntry] /\ 1 \in 0 .. MaxPack
      OBVIOUS
    <3>2. <<e>> \in Mem!SeqOf(MemEntry, MaxPack)
      BY <3>1 DEF Mem!SeqOf
    <3> QED BY <3>2
  <2>4. ASSUME NEW e \in MemEntry, Mem!append(e) PROVE TInv'
    <3>1. Holds(n + 1)' /\ n + 1 <= MaxStoreIndex + 1
      BY <2>1, <2>4, AppendHolds DEF Mem!append
    <3>2. logs' = Mem!Put(logs, n, <<e>>) /\ UNCHANGED mem_start_idx
      BY <2>1, <2>4 DEF Mem!append
    <3>3. Filled' /\ logs'[0] = Dummy
      BY <2>1, <2>2, <2>3, <3>1, <3>2, WriteKeepsDummy DEF Mem!Indexes
    <3> QED BY <3>1, <3>3
  <2>5. ASSUME NEW at \in mem_start_idx .. n, NEW e \in MemEntry,
               at <= MaxStoreIndex, Mem!write_at(at, e)
        PROVE  TInv'
    <3> DEFINE m == Mem!Without(logs, {j \in Mem!Indexes : j >= at})
    <3>1. Holds(at + 1)' /\ at + 1 \in Nat /\ at + 1 <= MaxStoreIndex + 1
      BY <2>1, <2>5, WriteHolds
    <3>2. logs' = Mem!Put(m, at, <<e>>) /\ UNCHANGED mem_start_idx
      BY <2>5 DEF Mem!write_at
    <3>3. \A j \in {0} \cup mem_start_idx .. at - 1 : j \in DOMAIN m /\ m[j] = logs[j]
      <4>1. \A j \in {0} \cup mem_start_idx .. at - 1 : j \in Mem!Indexes /\ ~(j >= at)
        BY <2>1, <2>2
      <4> QED BY <4>1 DEF Mem!Without, Mem!Indexes
    <3> HIDE DEF m
    <3>4. Filled' /\ logs'[0] = Dummy
      BY <2>3, <3>1, <3>2, <3>3, WriteKeepsDummy
    <3> QED BY <3>1, <3>4
  <2>6. ASSUME NEW at \in mem_start_idx .. n, NEW es \in Mem!SeqOf(MemEntry, MaxPack) \ {<<>>},
               at + Len(es) \in n .. MaxStoreIndex + 1, Mem!apply_pack(at, es)
        PROVE  TInv'
    <3>1. es \in Seq(MemEntry) /\ at + Len(es) >= n
      BY <2>6 DEF Mem!SeqOf
    <3>2. Holds(at + Len(es))' /\ UNCHANGED mem_start_idx
      BY <2>6, <3>1, PackHolds
    <3>3. logs' = Mem!Put(logs, at, es)
      BY <2>6 DEF Mem!apply_pack
    <3>4. \A j \in mem_start_idx .. at - 1 : j \in DOMAIN logs
      <4>1. \A j \in mem_start_idx .. at - 1 : j \in mem_start_idx .. n - 1
        BY <2>1
      <4> QED BY <2>2, <4>1 DEF Mem!Indexes
    <3>5. Filled' /\ logs'[0] = Dummy
      BY <2>2, <3>2, <3>3, <3>4, WriteKeepsDummy DEF Mem!Indexes
    <3>6. at + Len(es) \in Nat /\ at + Len(es) <= MaxStoreIndex + 1
      BY <2>6
    <3> QED BY <3>2, <3>5, <3>6
  <2>7. ASSUME NEW upto \in mem_start_idx .. MaxStoreIndex, Mem!compact(upto) PROVE TInv'
    <3> DEFINE end == IF n > upto THEN n ELSE upto + 1
    <3>1. Mem!Indexes' = Mem!Indexes \ (mem_start_idx .. upto) /\ mem_start_idx' = upto + 1
      BY <2>7, WithoutIndexes DEF Mem!compact, Mem!Indexes
    <3>2. Holds(end)' /\ end \in Nat /\ end <= MaxStoreIndex + 1
      BY <2>1, <3>1 DEF Holds
    <3>3. \A j \in Mem!Indexes' : logs'[j] = logs[j]
      BY <2>7, <3>1 DEF Mem!compact, Mem!Without, Mem!Indexes
    <3>4. 0 \in Mem!Indexes'
      BY <2>1, <2>2, <3>1
    <3>5. Filled' /\ logs'[0] = Dummy
      BY <3>1, <3>3, <3>4 DEF Filled
    <3> QED BY <3>2, <3>5
  <2>8. CASE UNCHANGED Mem!vars
    BY <2>8 DEF Mem!vars, Holds, Filled, Mem!Indexes
  <2> HIDE DEF TInv
  <2> QED BY <2>1, <2>4, <2>5, <2>6, <2>7, <2>8 DEF Mem!Next
<1>3. TInv => Mem!TypeOK
  BY DEF Holds, Filled, Mem!TypeOK
<1> QED BY <1>1, <1>2, <1>3, MemoryRuns, PTL DEF Mem!Spec, MemTypeOK

-----------------------------------------------------------------------------
(* Induction, for what FsLogStore takes from FlattenSeq *)

\* A set of natural numbers that has a member has a least one.
LEMMA Least ==
  ASSUME NEW T \in SUBSET Nat, T # {} PROVE \E m \in T : \A k \in T : m <= k
<1> DEFINE R == OpToRel(<, Nat)
<1>1. IsWellFoundedOn(R, Nat)
  BY NatLessThanWellFounded
<1>2. PICK m \in T : \A k \in T : <<k, m>> \notin R
  <2> HIDE DEF R
  <2> QED BY <1>1, WFMin
<1>3. \A k \in T : ~(k < m)
  BY <1>2 DEF OpToRel
<1>4. \A k \in T : k \in Nat
  OBVIOUS
<1> HIDE DEF R
<1> QED BY <1>3, <1>4

\* Induction over a set of numbers
LEMMA SetInduction ==
  ASSUME NEW n \in Nat, NEW T, 0 \in T,
         \A k \in 0 .. n - 1 : k \in T => k + 1 \in T
  PROVE  \A k \in 0 .. n : k \in T
<1> DEFINE U == {k \in 0 .. n : k \notin T}
<1> SUFFICES ASSUME U # {} PROVE FALSE
  OBVIOUS
<1>0. U \in SUBSET Nat
  OBVIOUS
<1>1. PICK m \in U : \A k \in U : m <= k
  <2> HIDE DEF U
  <2> QED BY <1>0, Least
<1>2. m # 0 /\ m - 1 \in 0 .. n - 1 /\ m - 1 \notin U
  BY <1>1
<1> QED BY <1>1, <1>2

-----------------------------------------------------------------------------
(* FsLogStore: how entries are laid out in the files, and what moving them does *)

\* The files are laid out: entries follow one another from the beginning on, and each
\* takes room.
Laid(idx, data) ==
  /\ idx \in Seq(Nat) /\ data \in Seq(Fs!Cell)
  /\ IF idx = <<>> THEN data = <<>> ELSE idx[1] = 0
  /\ \A k, l \in 1 .. Len(idx) : k < l => idx[k] < idx[l]
  /\ \A k \in 1 .. Len(idx) : idx[k] < Len(data)

\* Where the entry after k places is
Place(idx, data, k) == IF k = Len(idx) THEN Len(data) ELSE idx[k + 1]

\* A part of a sequence, and two sequences one after the other
LEMMA Part ==
  ASSUME NEW S, NEW f \in Seq(S), NEW m \in Nat \ {0}, NEW n \in 0 .. Len(f)
  PROVE  LET p == SubSeq(f, m, n)
         IN  /\ p \in Seq(S) /\ Len(p) = IF m <= n THEN n - m + 1 ELSE 0
             /\ \A j \in 1 .. n - m + 1 : p[j] = f[m + j - 1]
<1>1. Len(f) \in Nat
  BY LenProperties
<1>2. m \in Int /\ n \in Int /\ \A j \in m .. n : f[j] \in S
  BY <1>1, ElementOfSeq
<1> QED BY <1>2, SubSeqProperties

\* Both parts of two sequences one after the other
LEMMA Joined ==
  ASSUME NEW S, NEW a \in Seq(S), NEW b \in Seq(S)
  PROVE  LET w == a \o b
         IN  /\ w \in Seq(S) /\ Len(w) = Len(a) + Len(b)
             /\ \A j \in 1 .. Len(a) : w[j] = a[j]
             /\ \A j \in 1 .. Len(b) : w[Len(a) + j] = b[j]
<1> DEFINE w == a \o b
<1>1. Len(a) \in Nat /\ Len(b) \in Nat
  BY LenProperties
<1>2. /\ w \in Seq(S) /\ Len(w) = Len(a) + Len(b)
      /\ \A j \in 1 .. Len(a) + Len(b) : w[j] = IF j <= Len(a) THEN a[j] ELSE b[j - Len(a)]
  BY ConcatProperties
<1> HIDE DEF w
<1>3. ASSUME NEW j \in 1 .. Len(b) PROVE w[Len(a) + j] = b[j]
  <2>1. /\ Len(a) + j \in 1 .. Len(a) + Len(b) /\ ~(Len(a) + j <= Len(a))
        /\ Len(a) + j - Len(a) = j
    BY <1>1
  <2> QED BY <1>2, <2>1
<1>4. \A j \in 1 .. Len(a) : w[j] = a[j]
  BY <1>1, <1>2
<1> QED BY <1>2, <1>3, <1>4 DEF w

\* The first cells of a file, and others behind them
LEMMA WrittenParts ==
  ASSUME NEW S, NEW f \in Seq(S), NEW c \in Seq(S), NEW pos \in 0 .. Len(f),
         NEW w, w = SubSeq(f, 1, pos) \o c
  PROVE  /\ w \in Seq(S) /\ Len(w) = pos + Len(c)
         /\ \A j \in 1 .. pos : w[j] = f[j]
         /\ \A j \in 1 .. Len(c) : w[pos + j] = c[j]
<1> DEFINE a == SubSeq(f, 1, pos)
<1>1. Len(f) \in Nat
  BY LenProperties
<1>2. a \in Seq(S) /\ Len(a) = pos /\ \A j \in 1 .. pos : a[j] = f[j]
  BY <1>1, Part
<1> HIDE DEF a
<1>3. a \o c \in Seq(S) /\ Len(a \o c) = Len(a) + Len(c)
  BY <1>2, Joined
<1>4. \A j \in 1 .. Len(a) : (a \o c)[j] = a[j]
  BY <1>2, Joined
<1>5. \A j \in 1 .. Len(c) : (a \o c)[Len(a) + j] = c[j]
  BY <1>2, Joined
<1> QED BY <1>2, <1>3, <1>4, <1>5 DEF a

\* Writing over a file: what is then in front of the end of what was written, and
\* that it is all there is if the file did not reach further
LEMMA OverlayParts ==
  ASSUME NEW S, NEW f \in Seq(S), NEW c \in Seq(S), NEW pos \in 0 .. Len(f)
  PROVE  LET o == Fs!Overlay(f, pos, c)
             w == SubSeq(f, 1, pos) \o c
         IN  /\ Len(o) = IF Len(f) > pos + Len(c) THEN Len(f) ELSE pos + Len(c)
             /\ SubSeq(o, 1, pos + Len(c)) = w
             /\ Len(f) <= pos + Len(c) => o = w
<1> DEFINE w == SubSeq(f, 1, pos) \o c
           r == SubSeq(f, pos + Len(c) + 1, Len(f))
           o == w \o r
<1>1. Len(c) \in Nat /\ Len(f) \in Nat /\ pos \in Nat
  BY LenProperties
<1>2. w \in Seq(S) /\ Len(w) = pos + Len(c)
  <2>1. w = SubSeq(f, 1, pos) \o c
    OBVIOUS
  <2> HIDE DEF w
  <2> QED BY <2>1, WrittenParts
<1>3. /\ r \in Seq(S)
      /\ Len(r) = IF Len(f) > pos + Len(c) THEN Len(f) - (pos + Len(c)) ELSE 0
  BY <1>1, Part
<1>4. Fs!Overlay(f, pos, c) = o
  BY DEF Fs!Overlay
<1> HIDE DEF w, r
<1>5. o \in Seq(S) /\ Len(o) = Len(w) + Len(r)
  BY <1>2, <1>3, Joined
<1>6. \A j \in 1 .. Len(w) : o[j] = w[j]
  BY <1>2, <1>3, Joined
<1> HIDE DEF o
<1>7. Len(o) = IF Len(f) > pos + Len(c) THEN Len(f) ELSE pos + Len(c)
  <2>1. Len(w) = pos + Len(c) /\ Len(o) = Len(w) + Len(r)
    BY <1>2, <1>5
  <2>2. CASE Len(f) > pos + Len(c)
    <3>1. Len(r) = Len(f) - (pos + Len(c))
      BY <1>3, <2>2
    <3> QED BY <1>1, <2>1, <2>2, <3>1
  <2>3. CASE ~(Len(f) > pos + Len(c))
    <3>1. Len(r) = 0
      BY <1>3, <2>3
    <3> QED BY <1>1, <2>1, <2>3, <3>1
  <2> QED BY <2>2, <2>3
<1>8. SubSeq(o, 1, pos + Len(c)) = w
  <2> DEFINE u == SubSeq(o, 1, pos + Len(c))
  <2>1. /\ u \in Seq(S) /\ Len(u) = pos + Len(c)
        /\ \A j \in 1 .. pos + Len(c) : u[j] = o[j]
    BY <1>1, <1>5, <1>7, Part
  <2> HIDE DEF u
  <2>2. u = w
    BY <1>2, <1>6, <2>1, SeqEqual
  <2> QED BY <2>2 DEF u
<1>9. Len(f) <= pos + Len(c) => o = w
  BY <1>1, <1>2, <1>5, <1>6, <1>7, SeqEqual
<1> QED BY <1>4, <1>7, <1>8, <1>9 DEF w

\* Where entries begin and end in the data file
LEMMA LaidBounds ==
  ASSUME NEW idx, NEW data, Laid(idx, data)
  PROVE  /\ Len(idx) \in Nat /\ Len(data) \in Nat
         /\ \A k \in 1 .. Len(idx) :
              /\ idx[k] \in Nat /\ idx[k] < Len(data)
              /\ Place(idx, data, k) \in Nat
              /\ idx[k] < Place(idx, data, k) /\ Place(idx, data, k) <= Len(data)
              /\ \A l \in 1 .. k : idx[l] <= idx[k] /\ idx[l] < Place(idx, data, k)
<1>1. Len(idx) \in Nat /\ Len(data) \in Nat /\ \A k \in 1 .. Len(idx) : idx[k] \in Nat
  BY LenProperties, ElementOfSeq DEF Laid
<1>2. ASSUME NEW k \in 1 .. Len(idx), NEW l \in 1 .. k PROVE idx[l] <= idx[k]
  <2>1. l \in 1 .. Len(idx) /\ (l = k \/ l < k)
    BY <1>1
  <2> QED BY <1>1, <2>1 DEF Laid
<1>3. ASSUME NEW k \in 1 .. Len(idx)
      PROVE  /\ Place(idx, data, k) \in Nat
             /\ idx[k] < Place(idx, data, k) /\ Place(idx, data, k) <= Len(data)
  <2>1. CASE k = Len(idx)
    BY <1>1, <2>1 DEF Laid, Place
  <2>2. CASE k # Len(idx)
    <3>1. k + 1 \in 1 .. Len(idx) /\ k < k + 1
      BY <1>1, <2>2
    <3> QED BY <1>1, <2>2, <3>1 DEF Laid, Place
  <2> QED BY <2>1, <2>2
<1>4. ASSUME NEW k \in 1 .. Len(idx), NEW l \in 1 .. k PROVE idx[l] < Place(idx, data, k)
  <2>1. l \in 1 .. Len(idx)
    BY <1>1
  <2> QED BY <1>1, <1>2, <1>3, <2>1
<1>5. \A k \in 1 .. Len(idx) : idx[k] < Len(data)
  BY DEF Laid
<1> QED BY <1>1, <1>2, <1>3, <1>4, <1>5

\* An entry of the files is the cells from its place to that of the next.
LEMMA EntryCells ==
  ASSUME NEW idx, NEW data, Laid(idx, data), NEW k \in 1 .. Len(idx)
  PROVE  LET e == Fs!StoredIn(idx, data, k)
         IN  /\ e \in Seq(Fs!Cell) /\ Len(e) = Place(idx, data, k) - idx[k]
             /\ \A j \in 1 .. Place(idx, data, k) - idx[k] : e[j] = data[idx[k] + j]
<1> DEFINE end == Place(idx, data, k)
           e == SubSeq(data, idx[k] + 1, end)
<1>1. /\ idx[k] \in Nat /\ end \in Nat /\ idx[k] < end /\ end <= Len(data)
      /\ Len(data) \in Nat /\ Len(idx) \in Nat
  BY LaidBounds
<1>2. Fs!StoredIn(idx, data, k) = e
  <2>1. (IF k < Len(idx) THEN idx[k + 1] ELSE Len(data)) = end
    BY <1>1 DEF Place
  <2> HIDE DEF end
  <2> QED BY <1>1, <2>1 DEF Fs!StoredIn, end
<1>3. /\ e \in Seq(Fs!Cell) /\ Len(e) = end - idx[k]
      /\ \A j \in 1 .. end - idx[k] : e[j] = data[idx[k] + j]
  <2>1. data \in Seq(Fs!Cell)
    BY DEF Laid
  <2>2. idx[k] + 1 \in Nat \ {0} /\ end \in 0 .. Len(data) /\ idx[k] + 1 <= end
    BY <1>1
  <2> HIDE DEF end
  <2>3. /\ SubSeq(data, idx[k] + 1, end) \in Seq(Fs!Cell)
        /\ Len(SubSeq(data, idx[k] + 1, end)) = end - (idx[k] + 1) + 1
        /\ \A j \in 1 .. end - (idx[k] + 1) + 1 :
             SubSeq(data, idx[k] + 1, end)[j] = data[idx[k] + 1 + j - 1]
    BY <2>1, <2>2, Part
  <2>4. end - (idx[k] + 1) + 1 = end - idx[k]
    BY <1>1
  <2>5. \A j \in 1 .. end - idx[k] : idx[k] + 1 + j - 1 = idx[k] + j
    BY <1>1
  <2> QED BY <2>3, <2>4, <2>5
<1> QED BY <1>2, <1>3

\* Two places that hold the same cells hold the same entry.
LEMMA SameEntry ==
  ASSUME NEW idx, NEW data, Laid(idx, data), NEW k \in 1 .. Len(idx),
         NEW idx2, NEW data2, Laid(idx2, data2), NEW l \in 1 .. Len(idx2),
         NEW by \in Int, idx2[l] = idx[k] + by,
         Place(idx2, data2, l) = Place(idx, data, k) + by,
         \A j \in idx[k] + 1 .. Place(idx, data, k) : data2[j + by] = data[j]
  PROVE  Fs!StoredIn(idx2, data2, l) = Fs!StoredIn(idx, data, k)
<1> DEFINE e == Fs!StoredIn(idx, data, k)
           e2 == Fs!StoredIn(idx2, data2, l)
           n == Place(idx, data, k) - idx[k]
<1>1. idx[k] \in Nat /\ Place(idx, data, k) \in Nat
  BY LaidBounds
<1>2. e \in Seq(Fs!Cell) /\ Len(e) = n /\ \A j \in 1 .. n : e[j] = data[idx[k] + j]
  BY EntryCells
<1>3. Place(idx2, data2, l) - idx2[l] = n
  BY <1>1
<1>4. e2 \in Seq(Fs!Cell) /\ Len(e2) = n /\ \A j \in 1 .. n : e2[j] = data2[idx2[l] + j]
  BY <1>3, EntryCells
<1>5. ASSUME NEW j \in 1 .. n PROVE data2[idx2[l] + j] = data[idx[k] + j]
  <2>1. idx[k] + j \in idx[k] + 1 .. Place(idx, data, k) /\ idx2[l] + j = (idx[k] + j) + by
    BY <1>1
  <2> QED BY <2>1
<1> HIDE DEF e, e2, n
<1>6. e = e2
  BY <1>2, <1>4, <1>5, SeqEqual
<1> QED BY <1>6 DEF e, e2

\* The entries that files laid out hold
LEMMA StoredSeq ==
  ASSUME NEW idx, NEW data, Laid(idx, data)
  PROVE  LET s == Fs!AllStored(idx, data)
         IN  /\ s \in Seq(Seq(Fs!Cell)) /\ Len(s) = Len(idx)
             /\ \A k \in 1 .. Len(idx) : s[k] = Fs!StoredIn(idx, data, k)
<1>1. Len(idx) \in Nat
  BY LaidBounds
<1>2. \A k \in 1 .. Len(idx) : Fs!StoredIn(idx, data, k) \in Seq(Fs!Cell)
  BY EntryCells
<1> QED BY <1>1, <1>2 DEF Fs!AllStored

\* Entries laid out somewhere else, put behind the first k of a file: append, write_at
\* and apply_pack.
LEMMA Spliced ==
  ASSUME NEW idx, NEW data, Laid(idx, data), NEW q, NEW d, Laid(q, d), q # <<>>,
         NEW k \in 0 .. Len(idx)
  PROVE  LET pos == Place(idx, data, k)
             idx2 == SubSeq(idx, 1, k) \o Fs!Adjusted(q, pos)
             data2 == SubSeq(data, 1, pos) \o d
         IN  /\ Laid(idx2, data2) /\ Len(idx2) = k + Len(q)
             /\ Fs!AllStored(idx2, data2)
                  = SubSeq(Fs!AllStored(idx, data), 1, k) \o Fs!AllStored(q, d)
<1> DEFINE pos == Place(idx, data, k)
           a == Fs!Adjusted(q, pos)
           idx2 == SubSeq(idx, 1, k) \o a
           data2 == SubSeq(data, 1, pos) \o d
           st == Fs!AllStored(idx, data)
           sq == Fs!AllStored(q, d)
           s2 == Fs!AllStored(idx2, data2)
           n == Len(q)
<1>1. /\ Len(idx) \in Nat /\ Len(data) \in Nat /\ n \in Nat \ {0} /\ Len(d) \in Nat
      /\ idx \in Seq(Nat) /\ data \in Seq(Fs!Cell) /\ d \in Seq(Fs!Cell)
      /\ \A l \in 1 .. Len(idx) : idx[l] \in Nat
      /\ \A l \in 1 .. n : q[l] \in Nat
  BY LaidBounds, EmptySeq DEF Laid
<1>2. /\ q[1] = 0 /\ pos \in Nat /\ pos <= Len(data)
      /\ \A l \in 1 .. k : idx[l] < pos
      /\ k = 0 => pos = 0
  <2>1. CASE k = 0
    <3>1. CASE Len(idx) = 0
      BY <1>1, <2>1, <3>1, EmptySeq DEF Laid, Place
    <3>2. CASE Len(idx) # 0
      BY <1>1, <2>1, <3>2, EmptySeq DEF Laid, Place
    <3> QED BY <3>1, <3>2
  <2>2. CASE k # 0
    <3>1. k \in 1 .. Len(idx)
      BY <1>1, <2>2
    <3>2. q[1] = 0
      BY DEF Laid
    <3> QED BY <2>2, <3>1, <3>2, LaidBounds
  <2> QED BY <2>1, <2>2
<1> HIDE DEF pos
<1>3. a \in Seq(Nat) /\ Len(a) = n /\ \A l \in 1 .. n : a[l] = q[l] + pos
  BY <1>1, <1>2 DEF Fs!Adjusted
<1> HIDE DEF a
<1>4. /\ idx2 \in Seq(Nat) /\ Len(idx2) = k + n
      /\ \A l \in 1 .. k : idx2[l] = idx[l]
      /\ \A l \in 1 .. n : idx2[k + l] = q[l] + pos
  <2>1. /\ idx2 \in Seq(Nat) /\ Len(idx2) = k + Len(a)
        /\ \A l \in 1 .. k : idx2[l] = idx[l]
        /\ \A l \in 1 .. Len(a) : idx2[k + l] = a[l]
    <3>1. idx2 = SubSeq(idx, 1, k) \o a
      OBVIOUS
    <3>2. idx \in Seq(Nat) /\ a \in Seq(Nat) /\ k \in 0 .. Len(idx)
      BY <1>1, <1>3
    <3> HIDE DEF idx2
    <3> QED BY <3>1, <3>2, WrittenParts
  <2> HIDE DEF idx2, n
  <2> QED BY <1>3, <2>1
<1>5. /\ data2 \in Seq(Fs!Cell) /\ Len(data2) = pos + Len(d)
      /\ \A j \in 1 .. pos : data2[j] = data[j]
      /\ \A j \in 1 .. Len(d) : data2[pos + j] = d[j]
  <2>1. pos \in 0 .. Len(data)
    BY <1>1, <1>2
  <2>2. data2 = SubSeq(data, 1, pos) \o d
    OBVIOUS
  <2> HIDE DEF data2
  <2> QED BY <1>1, <2>1, <2>2, WrittenParts
<1> HIDE DEF idx2, data2, n
<1>6. Laid(idx2, data2)
  <2>0. n = Len(q) /\ \A l \in 1 .. n : q[l] < Len(d)
    BY DEF Laid, n
  <2>1. idx2 # <<>>
    BY <1>1, <1>4, EmptySeq
  <2>2. idx2[1] = 0
    <3>1. CASE k = 0
      <4>1. 1 \in 1 .. n /\ idx2[k + 1] = q[1] + pos
        BY <1>1, <1>4
      <4> QED BY <1>2, <3>1, <4>1
    <3>2. CASE k # 0
      <4>1. 1 \in 1 .. k /\ Len(idx) # 0
        BY <1>1, <3>2
      <4>2. idx[1] = 0
        BY <1>1, <4>1, EmptySeq DEF Laid
      <4> QED BY <1>4, <4>1, <4>2
    <3> QED BY <3>1, <3>2
  <2>3. ASSUME NEW l \in 1 .. Len(idx2)
        PROVE  \/ l \in 1 .. k /\ l \in 1 .. Len(idx) /\ idx2[l] = idx[l]
               \/ l - k \in 1 .. n /\ k < l /\ idx2[l] = q[l - k] + pos
    <3>1. CASE l <= k
      BY <1>1, <1>4, <3>1
    <3>2. CASE l > k
      <4>1. l - k \in 1 .. n /\ k + (l - k) = l
        BY <1>1, <1>4, <3>2
      <4> QED BY <1>4, <3>2, <4>1
    <3> QED BY <1>1, <1>4, <3>1, <3>2
  <2>4. ASSUME NEW l \in 1 .. Len(idx2), NEW m \in 1 .. Len(idx2), l < m
        PROVE  idx2[l] < idx2[m]
    <3>1. CASE l \in 1 .. k /\ m \in 1 .. k
      <4>1. l \in 1 .. Len(idx) /\ m \in 1 .. Len(idx)
        BY <1>1, <3>1
      <4>2. idx[l] < idx[m]
        BY <2>4, <4>1 DEF Laid
      <4> QED BY <1>4, <3>1, <4>2
    <3>2. CASE l \in 1 .. k /\ m \notin 1 .. k
      <4>1. m - k \in 1 .. n /\ idx2[m] = q[m - k] + pos
        BY <2>3, <3>2
      <4>2. q[m - k] \in Nat
        BY <1>1, <4>1
      <4>3. idx2[l] = idx[l] /\ idx[l] < pos
        BY <1>2, <1>4, <3>2
      <4>4. idx[l] \in Nat
        BY <1>1, <3>2
      <4> QED BY <1>2, <4>1, <4>2, <4>3, <4>4
    <3>3. CASE l \notin 1 .. k
      <4>1. l - k \in 1 .. n /\ m - k \in 1 .. n /\ l - k < m - k
        BY <1>1, <1>4, <2>3, <2>4, <3>3
      <4>2. q[l - k] < q[m - k]
        BY <2>0, <4>1 DEF Laid
      <4>3. idx2[l] = q[l - k] + pos /\ idx2[m] = q[m - k] + pos
        BY <1>1, <2>3, <2>4, <3>3
      <4>4. q[l - k] \in Nat /\ q[m - k] \in Nat
        BY <1>1, <4>1
      <4> QED BY <1>2, <4>2, <4>3, <4>4
    <3> QED BY <3>1, <3>2, <3>3
  <2>5. ASSUME NEW l \in 1 .. Len(idx2) PROVE idx2[l] < Len(data2)
    <3>1. CASE l \in 1 .. k /\ l \in 1 .. Len(idx) /\ idx2[l] = idx[l]
      BY <1>1, <1>2, <1>5, <3>1
    <3>2. CASE l - k \in 1 .. n /\ idx2[l] = q[l - k] + pos
      <4>1. q[l - k] < Len(d) /\ q[l - k] \in Nat /\ Len(data2) = pos + Len(d)
        BY <1>1, <1>5, <2>0, <3>2
      <4> QED BY <1>1, <1>2, <3>2, <4>1
    <3> QED BY <2>3, <3>1, <3>2
  <2> QED BY <1>4, <1>5, <2>1, <2>2, <2>4, <2>5 DEF Laid
<1>7. ASSUME NEW l \in 1 .. k
      PROVE  Fs!StoredIn(idx2, data2, l) = Fs!StoredIn(idx, data, l)
  <2>1. l \in 1 .. Len(idx) /\ l \in 1 .. Len(idx2) /\ 0 \in Int /\ idx2[l] = idx[l] + 0
    BY <1>1, <1>4
  <2>2. /\ Place(idx2, data2, l) = Place(idx, data, l) + 0
        /\ Place(idx, data, l) \in Nat /\ Place(idx, data, l) <= pos
    <3>1. CASE l = k
      <4>1. l # Len(idx2) /\ idx2[k + 1] = q[1] + pos
        BY <1>1, <1>4, <3>1
      <4>2. Place(idx2, data2, l) = pos
        BY <1>2, <3>1, <4>1 DEF Place
      <4> QED BY <1>2, <3>1, <4>2 DEF pos
    <3>2. CASE l # k
      <4>1. l + 1 \in 1 .. k /\ l # Len(idx) /\ l # Len(idx2)
        BY <1>1, <1>4, <3>2
      <4>2. idx2[l + 1] = idx[l + 1] /\ idx[l + 1] < pos
        BY <1>2, <1>4, <4>1
      <4>3. idx[l + 1] \in Nat
        BY <1>1, <4>1
      <4> QED BY <1>2, <4>1, <4>2, <4>3 DEF Place
    <3> QED BY <3>1, <3>2
  <2>3. ASSUME NEW j \in idx[l] + 1 .. Place(idx, data, l) PROVE data2[j + 0] = data[j]
    <3>1. j \in 1 .. pos /\ j + 0 = j
      BY <1>1, <1>2, <2>1, <2>2
    <3> QED BY <1>5, <3>1
  <2> QED BY <1>6, <2>1, <2>2, <2>3, SameEntry
<1>8. ASSUME NEW l \in 1 .. n
      PROVE  Fs!StoredIn(idx2, data2, k + l) = Fs!StoredIn(q, d, l)
  <2>0. n = Len(q) /\ l \in 1 .. Len(q)
    BY DEF n
  <2>1. k + l \in 1 .. Len(idx2) /\ pos \in Int /\ idx2[k + l] = q[l] + pos
    BY <1>1, <1>2, <1>4
  <2>2. Place(q, d, l) \in Nat /\ Place(q, d, l) <= Len(d)
    BY <2>0, LaidBounds
  <2>3. Place(idx2, data2, k + l) = Place(q, d, l) + pos
    <3>1. CASE l = n
      BY <1>1, <1>2, <1>4, <1>5, <2>0, <3>1 DEF Place
    <3>2. CASE l # n
      <4>1. l + 1 \in 1 .. n /\ k + l # Len(idx2) /\ k + l + 1 = k + (l + 1)
        BY <1>1, <1>4, <3>2
      <4>2. idx2[k + l + 1] = q[l + 1] + pos
        BY <1>4, <4>1
      <4> QED BY <2>0, <3>2, <4>1, <4>2 DEF Place
    <3> QED BY <3>1, <3>2
  <2>4. ASSUME NEW j \in q[l] + 1 .. Place(q, d, l) PROVE data2[j + pos] = d[j]
    <3>1. j \in 1 .. Len(d) /\ j + pos = pos + j
      BY <1>1, <1>2, <2>2
    <3> QED BY <1>5, <3>1
  <2> DEFINE m == k + l
  <2>5. m \in 1 .. Len(idx2) /\ idx2[m] = q[l] + pos /\ Place(idx2, data2, m) = Place(q, d, l) + pos
    BY <2>1, <2>3
  <2> HIDE DEF m
  <2>6. Fs!StoredIn(idx2, data2, m) = Fs!StoredIn(q, d, l)
    BY <1>6, <2>0, <2>1, <2>4, <2>5, SameEntry
  <2> QED BY <2>6 DEF m
<1>9. s2 = SubSeq(st, 1, k) \o sq
  <2>1. st \in Seq(Seq(Fs!Cell)) /\ Len(st) = Len(idx)
        /\ \A l \in 1 .. Len(idx) : st[l] = Fs!StoredIn(idx, data, l)
    BY StoredSeq
  <2>2. sq \in Seq(Seq(Fs!Cell)) /\ Len(sq) = n
        /\ \A l \in 1 .. n : sq[l] = Fs!StoredIn(q, d, l)
    BY StoredSeq DEF n
  <2>3. s2 \in Seq(Seq(Fs!Cell)) /\ Len(s2) = Len(idx2)
        /\ \A l \in 1 .. Len(idx2) : s2[l] = Fs!StoredIn(idx2, data2, l)
    BY <1>6, StoredSeq
  <2> DEFINE w == SubSeq(st, 1, k) \o sq
  <2> HIDE DEF s2, st, sq
  <2>4. /\ w \in Seq(Seq(Fs!Cell)) /\ Len(w) = k + n
        /\ \A l \in 1 .. k : w[l] = st[l]
        /\ \A l \in 1 .. n : w[k + l] = sq[l]
    <3>1. k \in 0 .. Len(st)
      BY <2>1
    <3>2. /\ w \in Seq(Seq(Fs!Cell)) /\ Len(w) = k + Len(sq)
          /\ \A l \in 1 .. k : w[l] = st[l]
          /\ \A l \in 1 .. Len(sq) : w[k + l] = sq[l]
      <4>1. w = SubSeq(st, 1, k) \o sq
        OBVIOUS
      <4> HIDE DEF w
      <4>2. st \in Seq(Seq(Fs!Cell)) /\ sq \in Seq(Seq(Fs!Cell))
        BY <2>1, <2>2
      <4> QED BY <3>1, <4>1, <4>2, WrittenParts
    <3> HIDE DEF w
    <3> QED BY <2>2, <3>2
  <2> HIDE DEF w
  <2>5. ASSUME NEW l \in 1 .. Len(s2) PROVE s2[l] = w[l]
    <3>1. CASE l <= k
      <4>1. l \in 1 .. k /\ l \in 1 .. Len(idx) /\ l \in 1 .. Len(idx2)
        BY <1>1, <1>4, <2>3, <3>1
      <4> QED BY <1>7, <2>1, <2>3, <2>4, <4>1
    <3>2. CASE l > k
      <4>1. l - k \in 1 .. n /\ k + (l - k) = l /\ l \in 1 .. Len(idx2)
        BY <1>1, <1>4, <2>3, <3>2
      <4> QED BY <1>8, <2>2, <2>3, <2>4, <4>1
    <3> QED BY <1>1, <1>4, <2>3, <3>1, <3>2
  <2>6. Len(s2) = Len(w)
    BY <1>4, <2>3, <2>4
  <2>7. s2 = w
    BY <2>3, <2>4, <2>5, <2>6, SeqEqual
  <2> QED BY <2>7 DEF w
<1> QED BY <1>4, <1>6, <1>9 DEF n, pos, a, idx2, data2

\* Files that hold the cells of places from to to of others, from 0 on
MovedTo(idx, data, from, to, idx2, data2) ==
  LET base == idx[from]
      end == Place(idx, data, to)
  IN  /\ idx2 \in Seq(Nat) /\ Len(idx2) = to - from + 1
      /\ \A l \in 1 .. to - from + 1 : idx2[l] = idx[from + l - 1] - base
      /\ data2 \in Seq(Fs!Cell) /\ Len(data2) = end - base
      /\ \A j \in 1 .. end - base : data2[j] = data[base + j]

\* Cells that are moved make up the same entries.
LEMMA Moved ==
  ASSUME NEW idx, NEW data, Laid(idx, data),
         NEW from \in 1 .. Len(idx), NEW to \in from .. Len(idx),
         NEW idx2, NEW data2, MovedTo(idx, data, from, to, idx2, data2)
  PROVE  /\ Laid(idx2, data2)
         /\ Fs!AllStored(idx2, data2) = SubSeq(Fs!AllStored(idx, data), from, to)
<1> DEFINE st == Fs!AllStored(idx, data)
           s2 == Fs!AllStored(idx2, data2)
           n == to - from + 1
           base == idx[from]
           end == Place(idx, data, to)
<1>1. /\ Len(idx) \in Nat /\ Len(data) \in Nat /\ from \in Nat \ {0} /\ n \in Nat \ {0}
      /\ to \in 1 .. Len(idx)
  BY LaidBounds
<1>2. /\ base \in Nat /\ end \in Nat /\ base < end /\ end <= Len(data)
      /\ \A l \in 1 .. Len(idx) : idx[l] \in Nat
  BY <1>1, LaidBounds
<1>3. \A l \in 1 .. n : from + l - 1 \in 1 .. Len(idx) /\ from + l - 1 \in from .. to
  BY <1>1
<1>4. /\ idx2 \in Seq(Nat) /\ Len(idx2) = n
      /\ \A l \in 1 .. n : idx2[l] = idx[from + l - 1] - base
  BY DEF MovedTo
<1>5. /\ data2 \in Seq(Fs!Cell) /\ Len(data2) = end - base
      /\ \A j \in 1 .. end - base : data2[j] = data[base + j]
  BY DEF MovedTo
<1> HIDE DEF n, base, end
<1>6. Laid(idx2, data2)
  <2>1. idx2 # <<>>
    BY <1>1, <1>4, EmptySeq
  <2>2. idx2[1] = 0
    <3>1. 1 \in 1 .. n /\ from + 1 - 1 = from
      BY <1>1
    <3>2. idx2[1] = idx[from] - base
      BY <1>4, <3>1
    <3> QED BY <1>2, <3>2 DEF base
  <2>3. ASSUME NEW l \in 1 .. n, NEW m \in 1 .. n, l < m PROVE idx2[l] < idx2[m]
    <3>1. idx[from + l - 1] < idx[from + m - 1]
      <4>1. from + l - 1 < from + m - 1
        BY <1>1, <2>3
      <4> QED BY <1>3, <4>1 DEF Laid
    <3>2. idx[from + l - 1] \in Nat /\ idx[from + m - 1] \in Nat
      BY <1>2, <1>3
    <3>3. idx2[l] = idx[from + l - 1] - base /\ idx2[m] = idx[from + m - 1] - base
      BY <1>4
    <3>4. base \in Nat
      BY <1>2
    <3> QED BY <3>1, <3>2, <3>3, <3>4
  <2>4. ASSUME NEW l \in 1 .. n PROVE idx2[l] < Len(data2)
    <3>1. from + l - 1 \in 1 .. to
      BY <1>1, <1>3
    <3>2. idx[from + l - 1] < end /\ idx[from + l - 1] \in Nat
      BY <1>1, <1>2, <1>3, <3>1, LaidBounds DEF end
    <3>3. idx2[l] = idx[from + l - 1] - base /\ Len(data2) = end - base
      BY <1>4, <1>5
    <3>4. base \in Nat /\ end \in Nat
      BY <1>2
    <3> QED BY <3>2, <3>3, <3>4
  <2> QED BY <1>4, <1>5, <2>1, <2>2, <2>3, <2>4 DEF Laid
<1>7. ASSUME NEW l \in 1 .. n
      PROVE  Fs!StoredIn(idx2, data2, l) = Fs!StoredIn(idx, data, from + l - 1)
  <2> DEFINE m == from + l - 1
             by == 0 - base
  <2>1. m \in 1 .. Len(idx) /\ m \in from .. to /\ l \in 1 .. Len(idx2) /\ by \in Int
    BY <1>2, <1>3, <1>4
  <2>2. idx[m] \in Nat /\ Place(idx, data, m) \in Nat /\ base <= idx[m]
    <3>1. from \in 1 .. m
      BY <1>1
    <3> QED BY <1>1, <2>1, <3>1, LaidBounds DEF base
  <2>3. idx2[l] = idx[m] + by
    <3>1. idx2[l] = idx[m] - base /\ base \in Nat
      BY <1>2, <1>4
    <3> HIDE DEF m
    <3> QED BY <2>2, <3>1
  <2>4. Place(idx2, data2, l) = Place(idx, data, m) + by /\ Place(idx, data, m) <= end
    <3>1. CASE l = n
      <4>1. m = to
        BY <1>1, <3>1 DEF n
      <4>2. Place(idx2, data2, l) = end - base
        BY <1>4, <1>5, <3>1 DEF Place
      <4>3. Place(idx, data, m) = end
        BY <4>1 DEF end
      <4>4. base \in Nat /\ end \in Nat
        BY <1>2
      <4> HIDE DEF m
      <4> QED BY <4>2, <4>3, <4>4
    <3>2. CASE l # n
      <4>1. l + 1 \in 1 .. n /\ from + (l + 1) - 1 = m + 1 /\ m # Len(idx) /\ m + 1 \in 1 .. to
        BY <1>1, <3>2 DEF n
      <4>2. idx2[l + 1] = idx[m + 1] - base
        BY <1>4, <4>1
      <4>3. m + 1 \in 1 .. Len(idx) /\ idx[m + 1] < end /\ idx[m + 1] \in Nat
        BY <1>1, <1>2, <4>1, LaidBounds DEF end
      <4>4. Place(idx, data, m) = idx[m + 1]
        BY <4>1 DEF Place
      <4>5. Place(idx2, data2, l) = idx2[l + 1]
        BY <1>4, <3>2 DEF Place
      <4> HIDE DEF m
      <4>6. base \in Nat /\ end \in Nat
        BY <1>2
      <4> QED BY <4>2, <4>3, <4>4, <4>5, <4>6
    <3> QED BY <3>1, <3>2
  <2> HIDE DEF m
  <2>5. ASSUME NEW j \in idx[m] + 1 .. Place(idx, data, m) PROVE data2[j + by] = data[j]
    <3>1. j + by \in 1 .. end - base /\ base + (j + by) = j
      <4>1. base \in Nat /\ end \in Nat /\ Place(idx, data, m) <= end
        BY <1>2, <2>4
      <4> QED BY <2>2, <4>1
    <3> QED BY <1>5, <3>1
  <2> HIDE DEF by
  <2>7. Place(idx2, data2, l) = Place(idx, data, m) + by
    BY <2>4
  <2>6. Fs!StoredIn(idx2, data2, l) = Fs!StoredIn(idx, data, m)
    BY <1>6, <2>1, <2>3, <2>5, <2>7, SameEntry
  <2> QED BY <2>6 DEF m
<1>8. s2 = SubSeq(st, from, to)
  <2>1. st \in Seq(Seq(Fs!Cell)) /\ Len(st) = Len(idx)
        /\ \A l \in 1 .. Len(idx) : st[l] = Fs!StoredIn(idx, data, l)
    BY StoredSeq
  <2>2. s2 \in Seq(Seq(Fs!Cell)) /\ Len(s2) = Len(idx2)
        /\ \A l \in 1 .. Len(idx2) : s2[l] = Fs!StoredIn(idx2, data2, l)
    BY <1>6, StoredSeq
  <2> DEFINE w == SubSeq(st, from, to)
  <2> HIDE DEF s2, st
  <2>3. /\ w \in Seq(Seq(Fs!Cell)) /\ Len(w) = n
        /\ \A l \in 1 .. n : w[l] = st[from + l - 1]
    <3>1. to \in 0 .. Len(st) /\ from <= to
      BY <1>1, <2>1
    <3>2. /\ w \in Seq(Seq(Fs!Cell)) /\ Len(w) = to - from + 1
          /\ \A l \in 1 .. to - from + 1 : w[l] = st[from + l - 1]
      BY <1>1, <2>1, <3>1, Part
    <3> QED BY <3>2 DEF n
  <2> HIDE DEF w
  <2>4. ASSUME NEW l \in 1 .. n PROVE s2[l] = w[l]
    BY <1>3, <1>4, <1>7, <2>1, <2>2, <2>3
  <2>5. s2 = w
    BY <1>4, <2>2, <2>3, <2>4, SeqEqual
  <2> QED BY <2>5 DEF w
<1> QED BY <1>6, <1>8 DEF st, s2

\* The entries in places from to to, with their positions moved to 0: what compact
\* leaves and what pack returns.
Slice(idx, data, from, to, idx2, data2) ==
  /\ idx2 = Fs!Adjusted(SubSeq(idx, from, to), 0)
  /\ data2 = SubSeq(data, idx[from] + 1, Place(idx, data, to))

\* A slice holds the entries from from to to.
LEMMA Sliced ==
  ASSUME NEW idx, NEW data, Laid(idx, data),
         NEW from \in 1 .. Len(idx), NEW to \in from .. Len(idx),
         NEW idx2, NEW data2, Slice(idx, data, from, to, idx2, data2)
  PROVE  /\ Laid(idx2, data2) /\ Len(idx2) = to - from + 1
         /\ Fs!AllStored(idx2, data2) = SubSeq(Fs!AllStored(idx, data), from, to)
<1> DEFINE n == to - from + 1
           base == idx[from]
           end == Place(idx, data, to)
<1>1. /\ Len(idx) \in Nat /\ Len(data) \in Nat /\ from \in Nat \ {0} /\ n \in Nat \ {0}
      /\ to \in 1 .. Len(idx)
  BY LaidBounds
<1>2. /\ base \in Nat /\ end \in Nat /\ base < end /\ end <= Len(data)
      /\ \A l \in 1 .. Len(idx) : idx[l] \in Nat
  BY <1>1, LaidBounds
<1>3. \A l \in 1 .. n : from + l - 1 \in 1 .. Len(idx) /\ from + l - 1 \in from .. to
  BY <1>1
<1>4. /\ idx2 \in Seq(Nat) /\ Len(idx2) = n
      /\ \A l \in 1 .. n : idx2[l] = idx[from + l - 1] - base
  <2> DEFINE u == SubSeq(idx, from, to)
  <2>1. /\ u \in Seq(Nat) /\ Len(u) = n /\ \A l \in 1 .. n : u[l] = idx[from + l - 1]
    <3>1. idx \in Seq(Nat) /\ to \in 0 .. Len(idx) /\ from <= to
      BY <1>1 DEF Laid
    <3>2. /\ u \in Seq(Nat) /\ Len(u) = to - from + 1
          /\ \A l \in 1 .. to - from + 1 : u[l] = idx[from + l - 1]
      BY <1>1, <3>1, Part
    <3> QED BY <3>2
  <2>2. u[1] = base
    <3>1. 1 \in 1 .. n /\ from + 1 - 1 = from
      BY <1>1
    <3> QED BY <2>1, <3>1
  <2>3. ASSUME NEW l \in 1 .. n
        PROVE  idx[from + l - 1] - base \in Nat /\ u[l] + 0 - u[1] = idx[from + l - 1] - base
    <3>1. from \in 1 .. from + l - 1 /\ from + l - 1 \in 1 .. Len(idx)
      BY <1>1, <1>3
    <3>2. idx[from] <= idx[from + l - 1] /\ idx[from + l - 1] \in Nat
      BY <3>1, LaidBounds
    <3> QED BY <1>2, <2>1, <2>2, <3>2
  <2> HIDE DEF u
  <2>4. idx2 = [l \in 1 .. n |-> u[l] + 0 - u[1]]
    BY <2>1 DEF Slice, Fs!Adjusted, u
  <2> HIDE DEF n, base
  <2>5. [l \in 1 .. n |-> u[l] + 0 - u[1]] = [l \in 1 .. n |-> idx[from + l - 1] - base]
    BY <2>3
  <2> DEFINE v == [l \in 1 .. n |-> idx[from + l - 1] - base]
  <2>6. \A l \in 1 .. n : idx[from + l - 1] - base \in Nat
    BY <2>3
  <2>7. v \in Seq(Nat) /\ Len(v) = n /\ \A l \in 1 .. n : v[l] = idx[from + l - 1] - base
    BY <1>1, <2>6
  <2>8. idx2 = v
    BY <2>4, <2>5
  <2> HIDE DEF v
  <2> QED BY <2>7, <2>8
<1>5. /\ data2 \in Seq(Fs!Cell) /\ Len(data2) = end - base
      /\ \A j \in 1 .. end - base : data2[j] = data[base + j]
  <2>1. data \in Seq(Fs!Cell)
    BY DEF Laid
  <2>2. base + 1 \in Nat \ {0} /\ end \in 0 .. Len(data) /\ base + 1 <= end
    BY <1>2
  <2> HIDE DEF end, base
  <2>3. data2 = SubSeq(data, base + 1, end)
    BY DEF Slice, end, base
  <2>8. LET p == SubSeq(data, base + 1, end)
        IN  /\ p \in Seq(Fs!Cell) /\ Len(p) = end - (base + 1) + 1
            /\ \A j \in 1 .. end - (base + 1) + 1 : p[j] = data[base + 1 + j - 1]
    BY <2>1, <2>2, Part
  <2>4. /\ data2 \in Seq(Fs!Cell) /\ Len(data2) = end - (base + 1) + 1
        /\ \A j \in 1 .. end - (base + 1) + 1 : data2[j] = data[base + 1 + j - 1]
    BY <2>3, <2>8
  <2>5. end - (base + 1) + 1 = end - base
    BY <1>2
  <2>6. \A j \in 1 .. end - base : base + 1 + j - 1 = base + j
    BY <1>2
  <2> QED BY <2>4, <2>5, <2>6
<1>6. MovedTo(idx, data, from, to, idx2, data2)
  BY <1>4, <1>5 DEF MovedTo
<1>7. /\ Laid(idx2, data2)
      /\ Fs!AllStored(idx2, data2) = SubSeq(Fs!AllStored(idx, data), from, to)
  BY <1>6, Moved
<1> QED BY <1>4, <1>6, <1>7

-----------------------------------------------------------------------------
(* FsLogStore: the entries of a pack *)

\* What FlattenSeq computes: the first k of the sequences one after the other
Flattened(es) ==
  CHOOSE g : g = [k \in 1 .. Len(es) |-> IF k = 1 THEN es[k] ELSE g[k - 1] \o es[k]]

\* FlattenSeq is the last of them.
LEMMA FlattenIs ==
  ASSUME NEW es, Len(es) # 0 PROVE Fs!FlattenSeq(es) = Flattened(es)[Len(es)]
BY DEF Fs!FlattenSeq, Flattened

\* There are such sequences: what CHOOSE takes has its property.
LEMMA FlattenedExists ==
  ASSUME NEW es, Len(es) \in Nat
  PROVE  Flattened(es)
           = [k \in 1 .. Len(es) |-> IF k = 1 THEN es[k] ELSE Flattened(es)[k - 1] \o es[k]]
<1> DEFINE n == Len(es)
           Step(g, k) == IF k = 1 THEN es[k] ELSE g[k - 1] \o es[k]
           T == {m \in 0 .. n : \E g : g = [k \in 1 .. m |-> Step(g, k)]}
<1>1. 0 \in T
  <2> DEFINE g0 == [l \in 1 .. 0 |-> <<>>]
  <2>1. g0 = [k \in 1 .. 0 |-> Step(g0, k)]
    OBVIOUS
  <2>2. 0 \in 0 .. n
    OBVIOUS
  <2> HIDE DEF Step, g0
  <2> QED BY <2>1, <2>2
<1>2. ASSUME NEW m \in 0 .. n - 1, m \in T PROVE m + 1 \in T
  <2>1. PICK g : g = [k \in 1 .. m |-> Step(g, k)]
    BY <1>2
  <2> DEFINE h == [k \in 1 .. m + 1 |-> IF k = m + 1 THEN Step(g, k) ELSE g[k]]
  <2>2. ASSUME NEW k \in 1 .. m + 1 PROVE h[k] = Step(h, k)
    <3>1. k # 1 => k - 1 \in 1 .. m /\ k - 1 \in 1 .. m + 1 /\ k - 1 # m + 1
      OBVIOUS
    <3>2. k # 1 => h[k - 1] = g[k - 1]
      BY <3>1
    <3>3. Step(h, k) = Step(g, k)
      BY <3>2
    <3>4. k # m + 1 => k \in 1 .. m
      OBVIOUS
    <3>5. \A l \in 1 .. m : g[l] = Step(g, l)
      <4> HIDE DEF Step
      <4> QED BY <2>1
    <3> HIDE DEF Step
    <3> QED BY <3>3, <3>4, <3>5
  <2>3. h = [k \in 1 .. m + 1 |-> Step(h, k)]
    <3>1. h = [k \in 1 .. m + 1 |-> h[k]]
      OBVIOUS
    <3> HIDE DEF h, Step
    <3> QED BY <2>2, <3>1
  <2>4. m + 1 \in 0 .. n
    OBVIOUS
  <2> HIDE DEF h, Step
  <2> QED BY <2>3, <2>4
<1>3. n \in T
  <2>1. \A k \in 0 .. n : k \in T
    <3> HIDE DEF T
    <3> QED BY <1>1, <1>2, SetInduction
  <2>2. n \in 0 .. n
    OBVIOUS
  <2> HIDE DEF T
  <2> QED BY <2>1, <2>2
<1>4. \E g : g = [k \in 1 .. n |-> Step(g, k)]
  BY <1>3
<1> QED BY <1>4 DEF Flattened

\* The first m of the sequences
Prefix(es, m) == IF m = 0 THEN <<>> ELSE Flattened(es)[m]

\* Each is the one before with one sequence behind it.
LEMMA PrefixStep ==
  ASSUME NEW S, NEW es \in Seq(Seq(S))
  PROVE  /\ Prefix(es, 0) = <<>>
         /\ \A m \in 0 .. Len(es) - 1 :
              Prefix(es, m) \in Seq(S) /\ Prefix(es, m + 1) = Prefix(es, m) \o es[m + 1]
         /\ Prefix(es, Len(es)) \in Seq(S)
<1> DEFINE n == Len(es)
           P(m) == Prefix(es, m)
           T == {m \in 0 .. n : P(m) \in Seq(S)}
<1>1. n \in Nat /\ \A m \in 1 .. n : es[m] \in Seq(S)
  BY LenProperties, ElementOfSeq
<1>2. P(0) = <<>>
  BY DEF Prefix
<1>3. ASSUME NEW m \in 0 .. n - 1, P(m) \in Seq(S) PROVE P(m + 1) = P(m) \o es[m + 1]
  <2>1. m + 1 \in 1 .. n /\ m + 1 # 0 /\ m + 1 - 1 = m /\ (m + 1 = 1 <=> m = 0)
    BY <1>1
  <2> DEFINE g == Flattened(es)
             Step(k) == IF k = 1 THEN es[k] ELSE g[k - 1] \o es[k]
  <2>2. g = [k \in 1 .. n |-> Step(k)]
    BY <1>1, FlattenedExists
  <2>6. \A k \in 1 .. n : g[k] = Step(k)
    <3> HIDE DEF Step
    <3> QED BY <2>2
  <2> HIDE DEF g
  <2>3. P(m + 1) = IF m = 0 THEN es[m + 1] ELSE g[m] \o es[m + 1]
    <3>1. P(m + 1) = g[m + 1]
      BY <2>1 DEF Prefix, g
    <3>2. g[m + 1] = IF m + 1 = 1 THEN es[m + 1] ELSE g[m + 1 - 1] \o es[m + 1]
      BY <2>1, <2>6
    <3> QED BY <2>1, <3>1, <3>2
  <2>4. CASE m = 0
    BY <1>1, <2>1, <2>3, <2>4, ConcatEmptySeq DEF Prefix
  <2>5. CASE m # 0
    BY <2>3, <2>5 DEF Prefix, g
  <2> QED BY <2>4, <2>5
<1> HIDE DEF P
<1>4. 0 \in T
  <2>1. 0 \in 0 .. n /\ <<>> \in Seq(S)
    BY <1>1, EmptySeq
  <2> QED BY <1>2, <2>1
<1>5. ASSUME NEW m \in 0 .. n - 1, m \in T PROVE m + 1 \in T
  <2>1. P(m) \in Seq(S) /\ es[m + 1] \in Seq(S) /\ m + 1 \in 0 .. n
    BY <1>1, <1>5
  <2>2. P(m + 1) \in Seq(S)
    BY <1>3, <2>1, ConcatProperties
  <2> QED BY <2>1, <2>2
<1>6. \A m \in 0 .. n : m \in T
  <2> HIDE DEF T, n
  <2> QED BY <1>1, <1>4, <1>5, SetInduction
<1>7. \A m \in 0 .. n : P(m) \in Seq(S)
  BY <1>6
<1> HIDE DEF T
<1>8. \A m \in 0 .. n - 1 : P(m) \in Seq(S) /\ P(m + 1) = P(m) \o es[m + 1]
  <2>1. \A m \in 0 .. n - 1 : m \in 0 .. n
    BY <1>1
  <2> QED BY <1>3, <1>7, <2>1
<1>9. P(n) \in Seq(S)
  BY <1>1, <1>7
<1> QED BY <1>2, <1>8, <1>9 DEF P

\* Each is a part of the next.
LEMMA PrefixGrows ==
  ASSUME NEW S, NEW es \in Seq(Seq(S) \ {<<>>})
  PROVE  \A m \in 0 .. Len(es) : \A l \in 0 .. m :
           /\ Prefix(es, m) \in Seq(S) /\ Prefix(es, l) \in Seq(S)
           /\ l < m => Len(Prefix(es, l)) < Len(Prefix(es, m))
           /\ \A j \in 1 .. Len(Prefix(es, l)) : Prefix(es, m)[j] = Prefix(es, l)[j]
<1> DEFINE n == Len(es)
           P(m) == Prefix(es, m)
           In(l, m) == /\ l < m => Len(P(l)) < Len(P(m))
                       /\ \A j \in 1 .. Len(P(l)) : P(m)[j] = P(l)[j]
           T == {m \in 0 .. n : \A l \in 0 .. m : In(l, m)}
<1>1. /\ n \in Nat /\ es \in Seq(Seq(S))
      /\ \A m \in 1 .. n : es[m] \in Seq(S) /\ Len(es[m]) \in Nat \ {0}
  <2>1. n \in Nat /\ \A m \in 1 .. n : es[m] \in Seq(S) \ {<<>>}
    BY LenProperties, ElementOfSeq
  <2>2. es \in Seq(Seq(S))
    BY SeqMonotonic
  <2> QED BY <2>1, <2>2, EmptySeq
<1>2. /\ \A m \in 0 .. n : P(m) \in Seq(S)
      /\ \A m \in 0 .. n - 1 : P(m + 1) = P(m) \o es[m + 1]
  BY <1>1, PrefixStep
<1> HIDE DEF P
<1>3. ASSUME NEW m \in 0 .. n - 1
      PROVE  /\ Len(P(m)) \in Nat /\ Len(P(m + 1)) \in Nat /\ Len(P(m)) < Len(P(m + 1))
             /\ \A j \in 1 .. Len(P(m)) : P(m + 1)[j] = P(m)[j]
  <2>1. P(m) \in Seq(S) /\ es[m + 1] \in Seq(S) /\ Len(es[m + 1]) \in Nat \ {0}
    BY <1>1, <1>2
  <2>2. P(m + 1) = P(m) \o es[m + 1]
    BY <1>2
  <2>3. /\ Len(P(m) \o es[m + 1]) = Len(P(m)) + Len(es[m + 1])
        /\ \A j \in 1 .. Len(P(m)) : (P(m) \o es[m + 1])[j] = P(m)[j]
    BY <2>1, Joined
  <2>4. Len(P(m)) \in Nat
    BY <2>1, LenProperties
  <2> QED BY <2>1, <2>2, <2>3, <2>4
<1>4. 0 \in T
  BY <1>1
<1>5. ASSUME NEW m \in 0 .. n - 1, m \in T PROVE m + 1 \in T
  <2>1. m + 1 \in 0 .. n /\ \A l \in 0 .. m : In(l, m)
    BY <1>1, <1>5
  <2>2. ASSUME NEW l \in 0 .. m + 1 PROVE In(l, m + 1)
    <3>1. CASE l = m + 1
      BY <3>1
    <3>2. CASE l # m + 1
      <4>1. l \in 0 .. m /\ l < m + 1 /\ l \in 0 .. n
        BY <1>1, <3>2
      <4>2. l < m => Len(P(l)) < Len(P(m))
        BY <2>1, <4>1
      <4>3. \A j \in 1 .. Len(P(l)) : P(m)[j] = P(l)[j]
        BY <2>1, <4>1
      <4>4. Len(P(l)) \in Nat
        BY <1>2, <4>1, LenProperties
      <4>5. Len(P(l)) <= Len(P(m))
        BY <1>3, <4>1, <4>2, <4>4
      <4>6. Len(P(l)) < Len(P(m + 1))
        BY <1>3, <4>4, <4>5
      <4>7. ASSUME NEW j \in 1 .. Len(P(l)) PROVE P(m + 1)[j] = P(l)[j]
        <5>1. j \in 1 .. Len(P(m))
          BY <1>3, <4>4, <4>5
        <5> QED BY <1>3, <4>3, <5>1
      <4> QED BY <4>6, <4>7
    <3> QED BY <3>1, <3>2
  <2> HIDE DEF In
  <2> QED BY <2>1, <2>2
<1>6. \A m \in 0 .. n : m \in T
  <2> HIDE DEF T, n
  <2> QED BY <1>1, <1>4, <1>5, SetInduction
<1>7. ASSUME NEW m \in 0 .. n, NEW l \in 0 .. m
      PROVE  P(m) \in Seq(S) /\ P(l) \in Seq(S) /\ In(l, m)
  <2>1. l \in 0 .. n
    BY <1>1
  <2> HIDE DEF In
  <2> QED BY <1>2, <1>6, <2>1
<1> QED BY <1>7 DEF P

\* FlattenSeq of the first m is the first m of FlattenSeq.
LEMMA FlattenFirst ==
  ASSUME NEW S, NEW es \in Seq(Seq(S)), NEW m \in 0 .. Len(es)
  PROVE  Fs!FlattenSeq(SubSeq(es, 1, m)) = Prefix(es, m)
<1> DEFINE fs == SubSeq(es, 1, m)
           T == {k \in 0 .. m : Prefix(fs, k) = Prefix(es, k)}
<1>1. /\ m \in Nat /\ Len(es) \in Nat
      /\ fs \in Seq(Seq(S)) /\ Len(fs) = m /\ \A k \in 1 .. m : fs[k] = es[k]
  BY LenProperties, Part
<1> HIDE DEF fs
<1>2. 0 \in T
  BY <1>1 DEF Prefix
<1>3. ASSUME NEW k \in 0 .. m - 1, k \in T PROVE k + 1 \in T
  <2>1. k + 1 \in 0 .. m /\ k + 1 \in 1 .. m /\ k \in 0 .. Len(es) - 1 /\ k \in 0 .. Len(fs) - 1
    BY <1>1
  <2>2. Prefix(es, k + 1) = Prefix(es, k) \o es[k + 1]
    BY <2>1, PrefixStep
  <2>3. Prefix(fs, k + 1) = Prefix(fs, k) \o fs[k + 1]
    BY <1>1, <2>1, PrefixStep
  <2> QED BY <1>1, <1>3, <2>1, <2>2, <2>3
<1>4. m \in T
  <2>1. \A k \in 0 .. m : k \in T
    <3> HIDE DEF T
    <3> QED BY <1>1, <1>2, <1>3, SetInduction
  <2>2. m \in 0 .. m
    BY <1>1
  <2> HIDE DEF T
  <2> QED BY <2>1, <2>2
<1>5. Prefix(fs, m) = Prefix(es, m)
  BY <1>4
<1>6. Fs!FlattenSeq(fs) = Prefix(fs, m)
  <2>1. CASE m = 0
    <3>1. fs = <<>>
      BY <1>1, <2>1, EmptySeq
    <3>2. Fs!FlattenSeq(fs) = fs
      BY <1>1, <2>1 DEF Fs!FlattenSeq
    <3> QED BY <2>1, <3>1, <3>2 DEF Prefix
  <2>2. CASE m # 0
    BY <1>1, <2>2, FlattenIs DEF Prefix
  <2> QED BY <2>1, <2>2
<1> QED BY <1>5, <1>6 DEF fs

\* Entries are sequences of cells that take room.
LEMMA EntryTypes ==
  /\ \A v \in MCValue : /\ Fs!Cells(v) \in Fs!Entry
                        /\ Fs!Cells(v) \in Seq(Fs!Cell) \ {<<>>}
                        /\ Len(Fs!Cells(v)) = MCSize[v]
  /\ Fs!Entry \subseteq Seq(Fs!Cell) \ {<<>>}
<1>1. ASSUME NEW v \in MCValue
      PROVE  /\ Fs!Cells(v) \in Fs!Entry
             /\ Fs!Cells(v) \in Seq(Fs!Cell) \ {<<>>}
             /\ Len(Fs!Cells(v)) = MCSize[v]
  <2> DEFINE e == Fs!Cells(v)
             n == MCSize[v]
  <2>1. n \in Nat \ {0}
    BY StoreFacts
  <2>2. e = [k \in 1 .. n |-> <<v, k>>]
    BY DEF Fs!Cells
  <2>3. e \in Fs!Entry
    BY DEF Fs!Entry
  <2> HIDE DEF n
  <2>4. DOMAIN e = 1 .. n
    BY <2>2
  <2>5. \A k \in 1 .. n : e[k] \in Fs!Cell
    <3>1. \A k \in 1 .. n : e[k] \in Fs!Range(e)
      BY <2>4 DEF Fs!Range
    <3> HIDE DEF e
    <3> QED BY <2>3, <3>1 DEF Fs!Cell
  <2> HIDE DEF e
  <2>6. e \in [1 .. n -> Fs!Cell]
    BY <2>2, <2>5
  <2>7. e \in Seq(Fs!Cell) /\ Len(e) = n
    BY <2>1, <2>6
  <2>8. e # <<>>
    BY <2>1, <2>7, EmptySeq
  <2> QED BY <2>3, <2>7, <2>8 DEF e, n
<1>2. Fs!Entry \subseteq Seq(Fs!Cell) \ {<<>>}
  BY <1>1 DEF Fs!Entry
<1> QED BY <1>1, <1>2

\* One entry is laid out at 0.
LEMMA OneLaid ==
  ASSUME NEW v \in MCValue
  PROVE  /\ Laid(<<0>>, Fs!Cells(v)) /\ Fs!AllStored(<<0>>, Fs!Cells(v)) = <<Fs!Cells(v)>>
         /\ \A pos \in Nat : Fs!Adjusted(<<0>>, pos) = <<pos>>
<1> DEFINE e == Fs!Cells(v)
           f == <<0>>
           s == Fs!AllStored(f, e)
<1>1. e \in Seq(Fs!Cell) /\ Len(e) \in Nat \ {0}
  BY EntryTypes, EmptySeq
<1> HIDE DEF e
<1>2. f \in Seq(Nat) /\ Len(f) = 1 /\ f # <<>> /\ f[1] = 0
  OBVIOUS
<1>3. \A pos \in Nat : Fs!Adjusted(f, pos) = <<pos>>
  <2> SUFFICES ASSUME NEW pos \in Nat PROVE Fs!Adjusted(f, pos) = <<pos>>
    OBVIOUS
  <2>1. Fs!Adjusted(f, pos) = [k \in 1 .. 1 |-> pos]
    BY DEF Fs!Adjusted
  <2> QED BY <2>1
<1> HIDE DEF f
<1>4. Laid(f, e)
  BY <1>1, <1>2 DEF Laid
<1>5. Place(f, e, 1) = Len(e)
  BY <1>2 DEF Place
<1>6. s[1] = e
  <2> DEFINE r == Fs!StoredIn(f, e, 1)
  <2>1. 1 \in 1 .. Len(f) /\ Place(f, e, 1) - f[1] = Len(e)
    BY <1>1, <1>2, <1>5
  <2>2. r \in Seq(Fs!Cell) /\ Len(r) = Len(e) /\ \A j \in 1 .. Len(e) : r[j] = e[f[1] + j]
    BY <1>4, <2>1, EntryCells
  <2>3. \A j \in 1 .. Len(e) : f[1] + j = j
    BY <1>1, <1>2
  <2> HIDE DEF r
  <2>4. r = e
    BY <1>1, <2>2, <2>3, SeqEqual
  <2> QED BY <1>4, <2>1, <2>4, StoredSeq DEF r
<1>7. s \in Seq(Seq(Fs!Cell)) /\ Len(s) = 1
  BY <1>2, <1>4, StoredSeq
<1> HIDE DEF s
<1>8. s = <<e>>
  BY <1>6, <1>7
<1> QED BY <1>3, <1>4, <1>8 DEF e, f, s

\* So is what another store packs, once its positions are moved to 0.
LEMMA PackLaid ==
  ASSUME NEW es \in Seq(Fs!Entry), es # <<>>, NEW base \in Nat
  PROVE  LET idx == Fs!Positions(base, es)
             data == Fs!FlattenSeq(es)
             q == Fs!Adjusted(idx, 0)
         IN  /\ idx \in Seq(Nat) /\ Len(idx) = Len(es)
             /\ Laid(q, data) /\ q # <<>> /\ Len(q) = Len(es)
             /\ Fs!AllStored(q, data) = es
             /\ \A pos \in Nat : Fs!Adjusted(idx, pos) = Fs!Adjusted(q, pos)
<1> DEFINE idx == Fs!Positions(base, es)
           data == Fs!FlattenSeq(es)
           q == Fs!Adjusted(idx, 0)
           n == Len(es)
           L(k) == Len(Prefix(es, k))
           s == Fs!AllStored(q, data)
<1>1. /\ es \in Seq(Seq(Fs!Cell) \ {<<>>}) /\ es \in Seq(Seq(Fs!Cell))
      /\ n \in Nat \ {0} /\ \A k \in 1 .. n : es[k] \in Seq(Fs!Cell)
  <2>1. es \in Seq(Seq(Fs!Cell) \ {<<>>}) /\ es \in Seq(Seq(Fs!Cell))
    BY EntryTypes, SeqMonotonic
  <2> QED BY <2>1, EmptySeq, ElementOfSeq
<1>2. /\ L(0) = 0
      /\ \A k \in 0 .. n : L(k) \in Nat
      /\ \A k \in 0 .. n : \A l \in 0 .. k :
           /\ Prefix(es, k) \in Seq(Fs!Cell)
           /\ l < k => L(l) < L(k)
           /\ \A j \in 1 .. L(l) : Prefix(es, k)[j] = Prefix(es, l)[j]
  <2>1. \A k \in 0 .. n : \A l \in 0 .. k :
           /\ Prefix(es, k) \in Seq(Fs!Cell)
           /\ l < k => L(l) < L(k)
           /\ \A j \in 1 .. L(l) : Prefix(es, k)[j] = Prefix(es, l)[j]
    <3>1. \A k \in 0 .. Len(es) : \A l \in 0 .. k :
            /\ Prefix(es, k) \in Seq(Fs!Cell) /\ Prefix(es, l) \in Seq(Fs!Cell)
            /\ l < k => Len(Prefix(es, l)) < Len(Prefix(es, k))
            /\ \A j \in 1 .. Len(Prefix(es, l)) : Prefix(es, k)[j] = Prefix(es, l)[j]
      <4>1. es \in Seq(Seq(Fs!Cell) \ {<<>>})
        BY <1>1
      <4> QED BY <4>1, PrefixGrows, Zenon
    <3> QED BY <3>1, Zenon
  <2>2. ASSUME NEW k \in 0 .. n PROVE L(k) \in Nat
    <3>1. k \in 0 .. k
      OBVIOUS
    <3> QED BY <2>1, <3>1, LenProperties
  <2>3. L(0) = 0
    BY DEF Prefix
  <2> QED BY <2>1, <2>2, <2>3
<1>3. data = Prefix(es, n)
  <2>1. SubSeq(es, 1, n) = es /\ n \in 0 .. Len(es)
    BY <1>1, SubSeqFull
  <2> QED BY <1>1, <2>1, FlattenFirst
<1>4. idx = [k \in 1 .. n |-> base + L(k - 1)]
  <2>1. \A k \in 1 .. n : Fs!FlattenSeq(SubSeq(es, 1, k - 1)) = Prefix(es, k - 1)
    <3>1. \A k \in 1 .. n : k - 1 \in 0 .. n
      OBVIOUS
    <3> QED BY <1>1, <3>1, FlattenFirst
  <2> QED BY <2>1 DEF Fs!Positions
<1> HIDE DEF data, L, n, idx
<1>5. /\ idx \in Seq(Nat) /\ Len(idx) = n /\ idx[1] = base
      /\ \A k \in 1 .. n : k - 1 \in 0 .. n /\ idx[k] = base + L(k - 1)
  <2>1. \A k \in 1 .. n : k - 1 \in 0 .. n /\ base + L(k - 1) \in Nat
    BY <1>1, <1>2
  <2>2. 1 \in 1 .. n /\ 1 - 1 = 0
    BY <1>1
  <2> QED BY <1>1, <1>2, <1>4, <2>1, <2>2
<1>6. \A pos \in Nat : /\ Fs!Adjusted(idx, pos) \in Seq(Nat) /\ Len(Fs!Adjusted(idx, pos)) = n
                       /\ \A k \in 1 .. n : Fs!Adjusted(idx, pos)[k] = L(k - 1) + pos
  <2> SUFFICES ASSUME NEW pos \in Nat
               PROVE  /\ Fs!Adjusted(idx, pos) \in Seq(Nat) /\ Len(Fs!Adjusted(idx, pos)) = n
                      /\ \A k \in 1 .. n : Fs!Adjusted(idx, pos)[k] = L(k - 1) + pos
    OBVIOUS
  <2>1. Fs!Adjusted(idx, pos) = [k \in 1 .. n |-> L(k - 1) + pos]
    <3>1. \A k \in 1 .. n : idx[k] + pos - idx[1] = L(k - 1) + pos
      BY <1>2, <1>5
    <3> QED BY <1>5, <3>1 DEF Fs!Adjusted
  <2>2. \A k \in 1 .. n : L(k - 1) + pos \in Nat
    BY <1>2, <1>5
  <2> QED BY <1>1, <2>1, <2>2
<1>7. q \in Seq(Nat) /\ Len(q) = n /\ \A k \in 1 .. n : q[k] = L(k - 1)
  <2>1. 0 \in Nat /\ \A k \in 1 .. n : L(k - 1) + 0 = L(k - 1)
    BY <1>2, <1>5
  <2> QED BY <1>6, <2>1
<1> HIDE DEF q
<1>8. q # <<>> /\ q[1] = 0
  <2>1. 1 \in 1 .. n /\ 1 - 1 = 0
    BY <1>1
  <2> QED BY <1>1, <1>2, <1>7, <2>1, EmptySeq
<1>9. \A pos \in Nat : Fs!Adjusted(idx, pos) = Fs!Adjusted(q, pos)
  <2> SUFFICES ASSUME NEW pos \in Nat PROVE Fs!Adjusted(idx, pos) = Fs!Adjusted(q, pos)
    OBVIOUS
  <2>1. \A k \in 1 .. n : q[k] + pos - q[1] = idx[k] + pos - idx[1]
    BY <1>2, <1>5, <1>7, <1>8
  <2> QED BY <1>5, <1>7, <2>1 DEF Fs!Adjusted
<1>10. /\ data \in Seq(Fs!Cell) /\ Len(data) = L(n)
       /\ \A k \in 1 .. n : k - 1 \in 0 .. n /\ L(k - 1) < L(n)
  <2>1. n \in 0 .. n /\ 0 \in 0 .. n /\ \A k \in 1 .. n : k - 1 \in 0 .. n /\ k - 1 < n
    BY <1>1
  <2> QED BY <1>2, <1>3, <2>1 DEF L
<1>11. Laid(q, data)
  <2>1. ASSUME NEW k \in 1 .. n, NEW l \in 1 .. n, k < l PROVE q[k] < q[l]
    <3>1. l - 1 \in 0 .. n /\ k - 1 \in 0 .. l - 1 /\ k - 1 < l - 1
      BY <1>1, <2>1
    <3>2. L(k - 1) < L(l - 1)
      BY <1>2, <3>1
    <3> QED BY <1>7, <3>2
  <2> QED BY <1>7, <1>8, <1>10, <2>1 DEF Laid
<1>12. ASSUME NEW k \in 1 .. n PROVE Fs!StoredIn(q, data, k) = es[k]
  <2> DEFINE r == Fs!StoredIn(q, data, k)
             m == Len(es[k])
  <2>1. /\ k - 1 \in 0 .. n /\ k \in 0 .. n /\ k - 1 \in 0 .. Len(es) - 1 /\ k - 1 + 1 = k
        /\ n \in 0 .. n /\ k \in 1 .. Len(q) /\ k \in 0 .. n
    BY <1>1, <1>7 DEF n
  <2>2. /\ es[k] \in Seq(Fs!Cell) /\ m \in Nat
    BY <1>1, LenProperties
  <2>3. Prefix(es, k - 1) \in Seq(Fs!Cell) /\ Prefix(es, k) = Prefix(es, k - 1) \o es[k]
    BY <1>1, <2>1, PrefixStep
  <2>4. L(k) = L(k - 1) + m /\ \A j \in 1 .. m : Prefix(es, k)[L(k - 1) + j] = es[k][j]
    BY <2>2, <2>3, Joined DEF L
  <2>5. q[k] = L(k - 1) /\ Place(q, data, k) = L(k)
    <3>1. CASE k = n
      BY <1>7, <1>10, <3>1 DEF Place
    <3>2. CASE k # n
      <4>1. k + 1 \in 1 .. n /\ k + 1 - 1 = k
        BY <1>1, <3>2
      <4> QED BY <1>7, <3>2, <4>1 DEF Place
    <3> QED BY <3>1, <3>2
  <2>6. Place(q, data, k) - q[k] = m
    <3>1. L(k - 1) \in Nat /\ L(k) = L(k - 1) + m
      BY <1>2, <2>1, <2>4
    <3> HIDE DEF L, m
    <3> QED BY <2>2, <2>5, <3>1
  <2>7. r \in Seq(Fs!Cell) /\ Len(r) = m /\ \A j \in 1 .. m : r[j] = data[q[k] + j]
    BY <1>11, <2>1, <2>6, EntryCells
  <2>8. ASSUME NEW j \in 1 .. m PROVE r[j] = es[k][j]
    <3>1. L(k - 1) + j \in 1 .. L(k)
      <4>1. L(k - 1) \in Nat /\ L(k) = L(k - 1) + m
        BY <1>2, <2>1, <2>4
      <4> HIDE DEF L, m
      <4> QED BY <2>2, <4>1
    <3>2. data[L(k - 1) + j] = Prefix(es, k)[L(k - 1) + j]
      BY <1>2, <1>3, <2>1, <3>1
    <3> QED BY <2>4, <2>5, <2>7, <3>2
  <2> HIDE DEF r
  <2>9. r = es[k]
    BY <2>2, <2>7, <2>8, SeqEqual
  <2> QED BY <2>9 DEF r
<1>13. s = es
  <2>1. s \in Seq(Seq(Fs!Cell)) /\ Len(s) = n /\ \A k \in 1 .. n : s[k] = Fs!StoredIn(q, data, k)
    BY <1>7, <1>11, StoredSeq
  <2> HIDE DEF s
  <2> QED BY <1>1, <1>12, <2>1, SeqEqual DEF n
<1> QED BY <1>5, <1>7, <1>8, <1>9, <1>11, <1>13 DEF n, q, idx, data, s

-----------------------------------------------------------------------------
(* FsLogStore: the invariant and the operations that write *)

\* The files hold entries laid out, as many as the store counts and as its bound allows.
FilesHold ==
  /\ Laid(idx_file, data_file)
  /\ start_idx_file = fs_start_idx /\ fs_start_idx \in Nat \ {0}
  /\ entries_in_store = Len(idx_file)
  /\ fs_start_idx + Len(idx_file) <= MaxStoreIndex + 1

\* The buffer is within its size; if that is enough for the log, it has all of it.
BufferHolds ==
  /\ buf_start \in Nat \ {0} /\ buf \in Seq(Seq(Fs!Cell)) /\ Len(buf) <= BufSize
  /\ BufSize >= MaxStoreIndex => buf_start = fs_start_idx /\ buf = Fs!Stored

\* The invariant, with what the buffer needs for ReadsAgree
FsInv == FilesHold /\ BufferHolds

\* What the invariant says of the store's counters
LEMMA HoldFacts ==
  ASSUME FilesHold
  PROVE  /\ Len(idx_file) \in Nat /\ Len(data_file) \in Nat /\ entries_in_store \in Nat
         /\ Len(idx_file) <= MaxStoreIndex
         /\ idx_file \in Seq(Nat) /\ data_file \in Seq(Fs!Cell)
         /\ Fs!Stored \in Seq(Seq(Fs!Cell)) /\ Len(Fs!Stored) = Len(idx_file)
         /\ Fs!next_slot = fs_start_idx + Len(idx_file)
<1>1. Len(idx_file) \in Nat /\ Len(data_file) \in Nat
  BY LaidBounds DEF FilesHold
<1>2. Len(idx_file) <= MaxStoreIndex
  BY <1>1, StoreFacts DEF FilesHold
<1>3. Fs!Stored \in Seq(Seq(Fs!Cell)) /\ Len(Fs!Stored) = Len(idx_file)
  BY StoredSeq DEF FilesHold, Fs!Stored
<1> QED BY <1>1, <1>2, <1>3 DEF FilesHold, Laid, Fs!next_slot

\* Files that are written over and cut behind what was written have nothing left of what
\* was there, unless the index file does not shrink where the data file should.
LEMMA WrittenAndCut ==
  ASSUME NEW idx, NEW data, Laid(idx, data), NEW k \in 0 .. Len(idx),
         NEW a \in Seq(Nat), NEW d \in Seq(Fs!Cell), NEW pos \in 0 .. Len(data),
         Len(idx) <= k + Len(a) => Len(data) <= pos + Len(d),
         Fs!CutFiles(Fs!Overlay(idx, k, a), Fs!Overlay(data, pos, d), k + Len(a), pos + Len(d))
  PROVE  /\ idx_file' = SubSeq(idx, 1, k) \o a
         /\ data_file' = SubSeq(data, 1, pos) \o d
<1> DEFINE o == Fs!Overlay(idx, k, a)
           w == SubSeq(idx, 1, k) \o a
           p == Fs!Overlay(data, pos, d)
           v == SubSeq(data, 1, pos) \o d
<1>1. /\ Len(o) = IF Len(idx) > k + Len(a) THEN Len(idx) ELSE k + Len(a)
      /\ SubSeq(o, 1, k + Len(a)) = w
      /\ Len(idx) <= k + Len(a) => o = w
  BY OverlayParts DEF Laid
<1>2. /\ SubSeq(p, 1, pos + Len(d)) = v
      /\ Len(data) <= pos + Len(d) => p = v
  BY OverlayParts DEF Laid
<1>3. Len(idx) \in Nat /\ Len(a) \in Nat /\ k \in Nat
  BY LenProperties, LaidBounds
<1>4. Fs!CutFiles(o, p, k + Len(a), pos + Len(d))
  OBVIOUS
<1> HIDE DEF o, p, w, v
<1>5. CASE Len(idx) > k + Len(a)
  <2>1. Len(o) > k + Len(a)
    BY <1>1, <1>3, <1>5
  <2>2. /\ idx_file' = SubSeq(o, 1, k + Len(a)) /\ data_file' = SubSeq(p, 1, pos + Len(d))
    BY <1>4, <2>1 DEF Fs!CutFiles
  <2> QED BY <1>1, <1>2, <2>2 DEF w, v
<1>6. CASE Len(idx) <= k + Len(a)
  <2>1. ~(Len(o) > k + Len(a))
    BY <1>1, <1>3, <1>6
  <2>2. idx_file' = o /\ data_file' = p
    BY <1>4, <2>1 DEF Fs!CutFiles
  <2> QED BY <1>1, <1>2, <1>6, <2>2 DEF w, v
<1> QED BY <1>3, <1>5, <1>6

\* Files that have the entries of others, q and d, behind the first k of idx and data
Splice(idx, data, k, q, d, idx2, data2) ==
  LET pos == Place(idx, data, k)
  IN  /\ idx2 = SubSeq(idx, 1, k) \o Fs!Adjusted(q, pos)
      /\ data2 = SubSeq(data, 1, pos) \o d

\* They hold the first k entries of the one and the entries of the other.
LEMMA SplicedInto ==
  ASSUME NEW idx, NEW data, Laid(idx, data), NEW q, NEW d, Laid(q, d), q # <<>>,
         NEW k \in 0 .. Len(idx), NEW idx2, NEW data2, Splice(idx, data, k, q, d, idx2, data2)
  PROVE  /\ Laid(idx2, data2) /\ Len(idx2) = k + Len(q)
         /\ Fs!AllStored(idx2, data2)
              = SubSeq(Fs!AllStored(idx, data), 1, k) \o Fs!AllStored(q, d)
<1> DEFINE at == Place(idx, data, k)
           i2 == SubSeq(idx, 1, k) \o Fs!Adjusted(q, at)
           d2 == SubSeq(data, 1, at) \o d
<1>1. /\ Laid(i2, d2) /\ Len(i2) = k + Len(q)
      /\ Fs!AllStored(i2, d2)
           = SubSeq(Fs!AllStored(idx, data), 1, k) \o Fs!AllStored(q, d)
  BY Spliced
<1>2. idx2 = i2 /\ data2 = d2
  BY DEF Splice
<1> HIDE DEF i2, d2
<1> QED BY <1>1, <1>2

\* For Z3 to see that two index computations agree
LEMMA SumOfThree ==
  ASSUME NEW a \in Int, NEW b \in Int, NEW c \in Int PROVE a + (b + c) = a + b + c
OBVIOUS

\* Entries written behind the first k
Behind(k, q, d) ==
  /\ Splice(idx_file, data_file, k, q, d, idx_file', data_file')
  /\ entries_in_store' = k + Len(q)
  /\ UNCHANGED <<start_idx_file, fs_start_idx>>

\* Such a write keeps FilesHold, and the log is cut at k and has the new entries behind.
LEMMA WrittenBehind ==
  ASSUME FilesHold, NEW k \in 0 .. Len(idx_file), NEW q, NEW d, Laid(q, d), q # <<>>,
         Behind(k, q, d), fs_start_idx + k + Len(q) <= MaxStoreIndex + 1
  PROVE  /\ FilesHold'
         /\ Fs!Stored' = SubSeq(Fs!Stored, 1, k) \o Fs!AllStored(q, d)
<1>1. Laid(idx_file, data_file)
  BY DEF FilesHold
<1>0. /\ entries_in_store' = k + Len(q)
      /\ start_idx_file' = start_idx_file /\ fs_start_idx' = fs_start_idx
  BY DEF Behind
<1>2. /\ Laid(idx_file', data_file') /\ Len(idx_file') = k + Len(q)
      /\ Fs!AllStored(idx_file', data_file')
           = SubSeq(Fs!AllStored(idx_file, data_file), 1, k) \o Fs!AllStored(q, d)
  <2>1. Splice(idx_file, data_file, k, q, d, idx_file', data_file')
    BY DEF Behind
  <2> QED BY <1>1, <2>1, SplicedInto
<1>3. Laid(idx_file, data_file)' <=> Laid(idx_file', data_file')
  BY DEF Laid
<1>4. Len(q) \in Nat /\ k \in Nat /\ fs_start_idx \in Nat
  BY LaidBounds, HoldFacts DEF FilesHold
<1>5. FilesHold'
  <2>1. /\ Laid(idx_file', data_file') /\ start_idx_file' = fs_start_idx'
        /\ fs_start_idx' \in Nat \ {0} /\ entries_in_store' = Len(idx_file')
    BY <1>0, <1>2, Zenon DEF FilesHold
  <2>2. fs_start_idx' + Len(idx_file') <= MaxStoreIndex + 1
    <3>1. fs_start_idx' + Len(idx_file') = fs_start_idx + k + Len(q)
      <4>1. fs_start_idx' = fs_start_idx /\ Len(idx_file') = k + Len(q)
        BY <1>0, <1>2, Zenon
      <4>2. fs_start_idx + (k + Len(q)) = fs_start_idx + k + Len(q)
        BY <1>4, SumOfThree
      <4> QED BY <4>1, <4>2, Zenon
    <3> QED BY <3>1
  <2> QED BY <1>3, <2>1, <2>2 DEF FilesHold
<1>6. Fs!Stored' = Fs!AllStored(idx_file', data_file')
  BY DEF Fs!Stored, Fs!AllStored, Fs!StoredIn
<1> QED BY <1>2, <1>5, <1>6 DEF Fs!Stored

\* What is appended to the buffer is behind what it had, unless it is full.
LEMMA BufferAppend ==
  ASSUME NEW start \in Nat \ {0}, NEW b \in Seq(Seq(Fs!Cell)), Len(b) <= BufSize,
         NEW e \in Seq(Fs!Cell), Fs!BufAppend(start, b, e)
  PROVE  /\ buf_start' \in Nat \ {0} /\ buf' \in Seq(Seq(Fs!Cell)) /\ Len(buf') <= BufSize
         /\ Len(b) < BufSize => buf_start' = start /\ buf' = Append(b, e)
<1> DEFINE w == Append(b, e)
<1>1. Len(b) \in Nat /\ BufSize \in Nat
  BY LenProperties, StoreFacts
<1>2. w \in Seq(Seq(Fs!Cell)) /\ Len(w) = Len(b) + 1 /\ w # <<>>
  <2>1. w \in Seq(Seq(Fs!Cell)) /\ Len(w) = Len(b) + 1
    BY AppendProperties
  <2> HIDE DEF w
  <2> QED BY <1>1, <2>1, EmptySeq
<1> HIDE DEF w
<1>3. CASE Len(b) < BufSize
  <2>1. buf_start' = start /\ buf' = w
    BY <1>3 DEF Fs!BufAppend, w
  <2>2. Len(w) <= BufSize
    BY <1>1, <1>2, <1>3
  <2> QED BY <1>2, <2>1, <2>2 DEF w
<1>4. CASE ~(Len(b) < BufSize)
  <2>1. buf_start' = start + 1 /\ buf' = Tail(w)
    BY <1>4 DEF Fs!BufAppend, w
  <2>2. Tail(w) \in Seq(Seq(Fs!Cell)) /\ Len(Tail(w)) = Len(w) - 1
    BY <1>2, HeadTailProperties
  <2>3. Len(Tail(w)) <= BufSize
    BY <1>1, <1>2, <2>2
  <2>4. start + 1 \in Nat \ {0}
    OBVIOUS
  <2> QED BY <1>4, <2>1, <2>2, <2>3, <2>4
<1> QED BY <1>3, <1>4

\* Every place of the log has its index.
LEMMA IndexOfPlace ==
  ASSUME FilesHold, NEW k \in 0 .. Len(idx_file)
  PROVE  \E j \in start_idx_file .. start_idx_file + Len(Fs!Stored) : j - start_idx_file = k
<1>1. Len(idx_file) \in Nat /\ Len(Fs!Stored) = Len(idx_file) /\ start_idx_file \in Nat
  BY HoldFacts DEF FilesHold
<1>2. /\ start_idx_file + k \in start_idx_file .. start_idx_file + Len(Fs!Stored)
      /\ start_idx_file + k - start_idx_file = k
  BY <1>1
<1> QED BY <1>1, <1>2

\* A step that leaves the first k entries and puts others behind them is one of LogStore.
LEMMA OverwritesLog ==
  ASSUME FilesHold, NEW k \in 0 .. Len(idx_file),
         NEW es \in Fs!Promise!SeqOf(Fs!Entry, MaxPack), es # <<>>,
         Fs!Stored' = SubSeq(Fs!Stored, 1, k) \o es, start_idx_file' = start_idx_file
  PROVE  Fs!Promise!Next
<1>3. PICK j \in start_idx_file .. start_idx_file + Len(Fs!Stored) : j - start_idx_file = k
  BY IndexOfPlace
<1>4. Fs!Stored' = SubSeq(Fs!Stored, 1, j - start_idx_file) \o es
  BY <1>3, Zenon
<1>5. Fs!Promise!Overwrite(j, es)
  BY <1>4, Zenon DEF Fs!Promise!Overwrite
<1> QED BY <1>5, Zenon DEF Fs!Promise!Next

\* One entry is a pack as LogStore has it.
LEMMA OneEntry ==
  ASSUME NEW v \in MCValue
  PROVE  <<Fs!Cells(v)>> \in Fs!Promise!SeqOf(Fs!Entry, MaxPack)
<1> DEFINE e == Fs!Cells(v)
<1>1. e \in Fs!Entry /\ 1 \in 0 .. MaxPack
  BY EntryTypes, StoreFacts
<1> HIDE DEF e
<1>2. <<e>> \in [1 .. 1 -> Fs!Entry]
  BY <1>1
<1> QED BY <1>1, <1>2 DEF Fs!Promise!SeqOf, e

\* One entry written behind the first k, and appended to what the buffer has of them
LEMMA EntryWritten ==
  ASSUME FsInv, NEW k \in 0 .. Len(idx_file), NEW v \in MCValue,
         Behind(k, << 0 >>, Fs!Cells(v)), fs_start_idx + k <= MaxStoreIndex,
         NEW b \in Seq(Seq(Fs!Cell)), Len(b) <= BufSize,
         BufSize >= MaxStoreIndex => b = SubSeq(Fs!Stored, 1, k),
         Fs!BufAppend(buf_start, b, Fs!Cells(v))
  PROVE  FsInv' /\ Fs!Promise!Next
<1> DEFINE e == Fs!Cells(v)
           q == <<0>>
           first == SubSeq(Fs!Stored, 1, k)
<1>1. /\ Laid(q, e) /\ Fs!AllStored(q, e) = <<e>>
      /\ e \in Seq(Fs!Cell) /\ e \in Fs!Entry
  BY OneLaid, EntryTypes
<1>2. Len(q) = 1 /\ q # <<>>
  OBVIOUS
<1>3. Behind(k, q, e)
  OBVIOUS
<1>4. Fs!BufAppend(buf_start, b, e)
  OBVIOUS
<1>5. <<e>> \in Fs!Promise!SeqOf(Fs!Entry, MaxPack) /\ <<e>> # <<>>
  BY OneEntry
<1> HIDE DEF e, q
<1>6. FilesHold /\ BufferHolds
  BY DEF FsInv
<1>7. /\ Len(idx_file) \in Nat /\ fs_start_idx \in Nat \ {0} /\ BufSize \in Nat
      /\ MaxStoreIndex \in Nat /\ buf_start \in Nat \ {0}
      /\ Fs!Stored \in Seq(Seq(Fs!Cell)) /\ Len(Fs!Stored) = Len(idx_file)
  BY <1>6, HoldFacts, StoreFacts DEF FilesHold, BufferHolds
<1>8. fs_start_idx + k + Len(q) <= MaxStoreIndex + 1
  BY <1>2, <1>7
<1>9. FilesHold' /\ Fs!Stored' = first \o <<e>>
  <2>1. FilesHold' /\ Fs!Stored' = first \o Fs!AllStored(q, e)
    BY <1>1, <1>2, <1>3, <1>6, <1>8, WrittenBehind
  <2> HIDE DEF first
  <2> QED BY <1>1, <2>1
<1>10. start_idx_file' = start_idx_file /\ fs_start_idx' = fs_start_idx
  BY <1>3 DEF Behind
<1>11. first \in Seq(Seq(Fs!Cell)) /\ Len(first) = k
  BY <1>7, Part
<1>12. Fs!Promise!Next
  BY <1>5, <1>6, <1>9, <1>10, OverwritesLog
<1>13. /\ buf_start' \in Nat \ {0} /\ buf' \in Seq(Seq(Fs!Cell)) /\ Len(buf') <= BufSize
       /\ Len(b) < BufSize => buf_start' = buf_start /\ buf' = Append(b, e)
  BY <1>1, <1>4, <1>7, BufferAppend
<1>14. ASSUME BufSize >= MaxStoreIndex PROVE buf_start' = fs_start_idx' /\ buf' = Fs!Stored'
  <2>1. b = first
    BY <1>14
  <2> HIDE DEF first
  <2>2. Len(b) < BufSize
    <3>1. k < MaxStoreIndex /\ k \in Nat
      BY <1>7
    <3> QED BY <1>7, <1>11, <1>14, <2>1, <3>1
  <2>3. Append(first, e) = first \o <<e>>
    BY <1>1, <1>11, AppendIsConcat
  <2>4. buf_start = fs_start_idx
    BY <1>6, <1>14 DEF BufferHolds
  <2> QED BY <1>9, <1>10, <1>13, <2>1, <2>2, <2>3, <2>4, Zenon
<1>15. BufferHolds'
  <2>1. /\ buf_start' \in Nat \ {0} /\ buf' \in Seq(Seq(Fs!Cell)) /\ Len(buf') <= BufSize
        /\ BufSize >= MaxStoreIndex => buf_start' = fs_start_idx' /\ buf' = Fs!Stored'
    BY <1>13, <1>14, Zenon
  <2> QED BY <2>1, Zenon DEF BufferHolds
<1> QED BY <1>9, <1>12, <1>15, Zenon DEF FsInv

\* append
LEMMA FsAppend == ASSUME FsInv, NEW v \in MCValue, Fs!append(v) PROVE FsInv' /\ Fs!Promise!Next
<1> DEFINE e == Fs!Cells(v)
           n == Len(idx_file)
<1>1. FilesHold /\ BufferHolds
  BY DEF FsInv
<1>2. /\ n \in Nat /\ Len(data_file) \in Nat /\ idx_file \in Seq(Nat) /\ data_file \in Seq(Fs!Cell)
      /\ Fs!Stored \in Seq(Seq(Fs!Cell)) /\ Len(Fs!Stored) = n
      /\ Fs!next_slot = fs_start_idx + n /\ entries_in_store = n
  BY <1>1, HoldFacts DEF FilesHold
<1>3. /\ fs_start_idx + n <= MaxStoreIndex
      /\ idx_file' = Append(idx_file, Len(data_file))
      /\ data_file' = data_file \o e
      /\ Fs!BufAppend(buf_start, buf, e)
      /\ entries_in_store' = n + 1
      /\ UNCHANGED <<start_idx_file, fs_start_idx>>
  BY <1>2 DEF Fs!append
<1> HIDE DEF e, n
<1>4. Splice(idx_file, data_file, n, <<0>>, e, idx_file', data_file')
  <2>1. Place(idx_file, data_file, n) = Len(data_file)
    BY DEF Place, n
  <2>2. SubSeq(idx_file, 1, n) = idx_file /\ SubSeq(data_file, 1, Len(data_file)) = data_file
    BY <1>2, SubSeqFull DEF n
  <2>3. Append(idx_file, Len(data_file)) = idx_file \o <<Len(data_file)>>
    BY <1>2, AppendIsConcat
  <2>4. Fs!Adjusted(<<0>>, Len(data_file)) = <<Len(data_file)>>
    BY <1>2, OneLaid
  <2> QED BY <1>3, <2>1, <2>2, <2>3, <2>4, Zenon DEF Splice
<1>5. Behind(n, <<0>>, e)
  <2>1. Len(<<0>>) = 1
    OBVIOUS
  <2> QED BY <1>3, <1>4, <2>1, Zenon DEF Behind
<1>6. n \in 0 .. Len(idx_file)
  BY <1>2 DEF n
<1>7. buf \in Seq(Seq(Fs!Cell)) /\ Len(buf) <= BufSize
  BY <1>1 DEF BufferHolds
<1>8. BufSize >= MaxStoreIndex => buf = SubSeq(Fs!Stored, 1, n)
  <2>1. SubSeq(Fs!Stored, 1, n) = Fs!Stored
    BY <1>2, SubSeqFull
  <2> QED BY <1>1, <2>1, Zenon DEF BufferHolds
<1> QED BY <1>3, <1>5, <1>6, <1>7, <1>8, EntryWritten DEF e

\* A write at index i of n entries in so many cells, which is not one with remains,
\* leaves none.
LEMMA NothingLeft ==
  ASSUME FilesHold, NEW index \in fs_start_idx .. Fs!next_slot, NEW n \in Nat, NEW cells \in Nat,
         ~Fs!Leftover(index, n, cells)
  PROVE  LET k == index - fs_start_idx
             pos == Place(idx_file, data_file, k)
         IN  /\ k \in 0 .. Len(idx_file) /\ pos \in 0 .. Len(data_file)
             /\ pos = IF k = Len(idx_file) THEN Len(data_file) ELSE idx_file[k + 1]
             /\ Len(idx_file) <= k + n => Len(data_file) <= pos + cells
<1> DEFINE k == index - fs_start_idx
           pos == Place(idx_file, data_file, k)
<1>1. /\ Len(idx_file) \in Nat /\ Len(data_file) \in Nat /\ fs_start_idx \in Nat
      /\ Fs!next_slot = fs_start_idx + Len(idx_file)
  BY HoldFacts DEF FilesHold
<1>2. /\ k \in 0 .. Len(idx_file) /\ index = fs_start_idx + k
      /\ index - fs_start_idx + 1 = k + 1
  BY <1>1
<1> HIDE DEF k
<1>3. pos = IF k = Len(idx_file) THEN Len(data_file) ELSE idx_file[k + 1]
  BY DEF Place
<1>4. CASE k = Len(idx_file)
  BY <1>1, <1>2, <1>3, <1>4 DEF k
<1>5. CASE k # Len(idx_file)
  <2>1. k + 1 \in 1 .. Len(idx_file) /\ index < Fs!next_slot
    BY <1>1, <1>2, <1>5
  <2>2. idx_file[k + 1] \in Nat /\ idx_file[k + 1] < Len(data_file)
    BY <2>1, LaidBounds DEF FilesHold
  <2>3. pos = idx_file[k + 1] /\ pos \in 0 .. Len(data_file)
    BY <1>1, <1>3, <1>5, <2>2
  <2>4. ASSUME Len(idx_file) <= k + n PROVE Len(data_file) <= pos + cells
    <3>1. Fs!next_slot <= index + n
      BY <1>1, <1>2, <2>4
    <3>2. ~(idx_file[k + 1] + cells < Len(data_file))
      BY <1>2, <2>1, <3>1, Zenon DEF Fs!Leftover
    <3> QED BY <1>1, <2>2, <2>3, <3>2
  <2> QED BY <1>2, <1>3, <2>3, <2>4, Zenon DEF k
<1> QED BY <1>4, <1>5

\* write_at, inside the log or at its end
LEMMA FsWriteAt ==
  ASSUME FsInv, NEW index \in fs_start_idx .. Fs!next_slot, NEW v \in MCValue,
         ~Fs!Leftover(index, 1, MCSize[v]), Fs!write_at(index, v)
  PROVE  FsInv' /\ Fs!Promise!Next
<1> DEFINE e == Fs!Cells(v)
           n == Len(idx_file)
           k == index - fs_start_idx
           pos == Place(idx_file, data_file, k)
           b == IF k < n THEN Fs!Trim(buf_start, buf, index) ELSE buf
<1>1. FilesHold /\ BufferHolds
  BY DEF FsInv
<1>2. /\ n \in Nat /\ Len(data_file) \in Nat /\ idx_file \in Seq(Nat) /\ data_file \in Seq(Fs!Cell)
      /\ Fs!Stored \in Seq(Seq(Fs!Cell)) /\ Len(Fs!Stored) = n
      /\ Fs!next_slot = fs_start_idx + n /\ entries_in_store = n
      /\ fs_start_idx \in Nat \ {0}
  BY <1>1, HoldFacts DEF FilesHold
<1>3. e \in Seq(Fs!Cell) /\ Len(e) = MCSize[v] /\ MCSize[v] \in Nat
  BY EntryTypes, StoreFacts
<1>4. /\ k \in 0 .. n /\ pos \in 0 .. Len(data_file)
      /\ pos = IF k = n THEN Len(data_file) ELSE idx_file[k + 1]
      /\ n <= k + 1 => Len(data_file) <= pos + MCSize[v]
  BY <1>1, <1>3, NothingLeft
<1>5. /\ index - fs_start_idx + 1 = k + 1 /\ k + 1 - 1 = k /\ (k + 1 <= n <=> k < n)
      /\ (k < n <=> k # n) /\ index = fs_start_idx + k /\ k \in Int
  <2>1. n \in Nat /\ k \in 0 .. n /\ fs_start_idx \in Nat /\ index \in Int
    BY <1>2, <1>4
  <2> HIDE DEF n, pos, b
  <2>2. index = fs_start_idx + k
    BY <2>1
  <2> QED BY <2>1, <2>2
<1> HIDE DEF e, n, k, pos
<1>6. /\ index <= MaxStoreIndex
      /\ Fs!CutFiles(Fs!Overlay(idx_file, k, <<pos>>), Fs!Overlay(data_file, pos, e),
                     k + 1, pos + MCSize[v])
      /\ Fs!BufAppend(buf_start, b, e)
      /\ entries_in_store' = k + 1
      /\ UNCHANGED <<start_idx_file, fs_start_idx>>
  <2> DEFINE k1 == index - fs_start_idx + 1
             at == IF k1 <= entries_in_store THEN idx_file[k1] ELSE Len(data_file)
             b1 == IF k1 <= entries_in_store THEN Fs!Trim(buf_start, buf, index) ELSE buf
  <2>1. /\ index <= MaxStoreIndex
        /\ Fs!CutFiles(Fs!Overlay(idx_file, k1 - 1, <<at>>), Fs!Overlay(data_file, at, e),
                       k1, at + MCSize[v])
        /\ Fs!BufAppend(buf_start, b1, e)
        /\ entries_in_store' = k1
        /\ UNCHANGED <<start_idx_file, fs_start_idx>>
    BY DEF Fs!write_at, e
  <2>2. k1 = k + 1 /\ k1 - 1 = k /\ (k1 <= entries_in_store <=> k < n)
    <3>1. entries_in_store = n
      BY <1>2
    <3>2. k1 = k + 1
      BY <1>5
    <3> HIDE DEF k1, at, b1, b
    <3>3. k1 - 1 = k
      <4>1. k \in Int /\ k1 = k + 1
        BY <1>5, <3>2
      <4> QED BY <4>1
    <3>4. k1 <= entries_in_store <=> k < n
      BY <1>5, <3>1, <3>2
    <3> QED BY <3>2, <3>3, <3>4, Zenon
  <2> HIDE DEF k1
  <2>3. at = pos /\ b1 = b
    BY <1>4, <1>5, <2>2, Zenon
  <2> HIDE DEF at, b1, b
  <2> QED BY <2>1, <2>2, <2>3, Zenon
<1>7. Splice(idx_file, data_file, k, <<0>>, e, idx_file', data_file')
  <2> DEFINE a == <<pos>>
  <2>1. a \in Seq(Nat) /\ Len(a) = 1 /\ pos \in Nat
    BY <1>2, <1>4
  <2>2. Fs!Adjusted(<<0>>, pos) = a
    BY <2>1, OneLaid
  <2>3. Fs!CutFiles(Fs!Overlay(idx_file, k, a), Fs!Overlay(data_file, pos, e),
                    k + 1, pos + MCSize[v])
    BY <1>6
  <2> HIDE DEF a, b
  <2>4. Laid(idx_file, data_file) /\ k \in 0 .. Len(idx_file)
    BY <1>1, <1>4 DEF FilesHold, n
  <2>5. Len(idx_file) <= k + Len(a) => Len(data_file) <= pos + Len(e)
    BY <1>3, <1>4, <2>1, Zenon DEF n
  <2>6. Fs!CutFiles(Fs!Overlay(idx_file, k, a), Fs!Overlay(data_file, pos, e),
                    k + Len(a), pos + Len(e))
    BY <1>3, <2>1, <2>3, Zenon
  <2>7. idx_file' = SubSeq(idx_file, 1, k) \o a /\ data_file' = SubSeq(data_file, 1, pos) \o e
    <3>1. /\ a \in Seq(Nat) /\ e \in Seq(Fs!Cell) /\ pos \in 0 .. Len(data_file)
      BY <1>3, <1>4, <2>1
    <3> QED BY <2>4, <2>5, <2>6, <3>1, WrittenAndCut
  <2> QED BY <2>2, <2>7, Zenon DEF Splice, pos
<1>8. Behind(k, <<0>>, e)
  <2>1. Len(<<0>>) = 1
    OBVIOUS
  <2> QED BY <1>6, <1>7, <2>1, Zenon DEF Behind
<1>9. b \in Seq(Seq(Fs!Cell)) /\ Len(b) <= BufSize
  <2>1. /\ buf \in Seq(Seq(Fs!Cell)) /\ Len(buf) <= BufSize /\ buf_start \in Nat
        /\ Len(buf) \in Nat /\ BufSize \in Nat
    BY <1>1, StoreFacts, LenProperties DEF BufferHolds
  <2>2. CASE k < n /\ ~(index < buf_start)
    <3> DEFINE m == Fs!Smaller(index - buf_start, Len(buf))
    <3>1. m \in 0 .. Len(buf)
      BY <1>2, <1>4, <1>5, <2>1, <2>2 DEF Fs!Smaller
    <3>2. b = SubSeq(buf, 1, m)
      BY <2>2, Zenon DEF Fs!Trim
    <3> HIDE DEF m
    <3>3. SubSeq(buf, 1, m) \in Seq(Seq(Fs!Cell)) /\ Len(SubSeq(buf, 1, m)) = m
      BY <2>1, <3>1, Part
    <3> HIDE DEF b
    <3> QED BY <2>1, <3>1, <3>2, <3>3
  <2>3. CASE k < n /\ index < buf_start
    <3>1. b = buf
      BY <2>3, Zenon DEF Fs!Trim
    <3> QED BY <2>1, <3>1, Zenon
  <2>4. CASE ~(k < n)
    <3>1. b = buf
      BY <2>4, Zenon
    <3> QED BY <2>1, <3>1, Zenon
  <2> QED BY <2>2, <2>3, <2>4, Zenon
<1>10. BufSize >= MaxStoreIndex => b = SubSeq(Fs!Stored, 1, k)
  <2> SUFFICES ASSUME BufSize >= MaxStoreIndex PROVE b = SubSeq(Fs!Stored, 1, k)
    OBVIOUS
  <2>1. buf_start = fs_start_idx /\ buf = Fs!Stored
    BY <1>1, Zenon DEF BufferHolds
  <2>2. CASE k < n
    <3>1. ~(index < buf_start) /\ index - buf_start = k
      BY <1>2, <1>4, <1>5, <2>1
    <3>2. Fs!Smaller(k, Len(buf)) = k
      BY <1>2, <1>4, <2>1, <2>2 DEF Fs!Smaller
    <3>3. b = SubSeq(buf, 1, Fs!Smaller(index - buf_start, Len(buf)))
      BY <2>2, <3>1, Zenon DEF Fs!Trim
    <3> HIDE DEF b
    <3> QED BY <2>1, <3>1, <3>2, <3>3, Zenon
  <2>3. CASE ~(k < n)
    <3>1. k = n /\ b = buf
      BY <1>5, <2>3, Zenon
    <3>2. SubSeq(Fs!Stored, 1, n) = Fs!Stored
      BY <1>2, SubSeqFull
    <3> QED BY <2>1, <3>1, <3>2, Zenon
  <2> QED BY <2>2, <2>3, Zenon
<1>11. k \in 0 .. Len(idx_file) /\ fs_start_idx + k <= MaxStoreIndex
  BY <1>4, <1>5, <1>6 DEF n
<1> HIDE DEF b
<1> QED BY <1>6, <1>8, <1>9, <1>10, <1>11, EntryWritten DEF e

\* A buffer that begins at bs and holds b, after it was filled from files
Loaded(start, idx, data, bs, b) ==
  LET skip == IF Len(idx) > BufSize THEN Len(idx) - BufSize ELSE 0
  IN  /\ bs = start + skip
      /\ b = SubSeq(Fs!AllStored(idx, data), skip + 1, Len(idx))

\* It has their last entries, all if it has room.
LEMMA LoadedFacts ==
  ASSUME NEW start \in Nat \ {0}, NEW idx, NEW data, Laid(idx, data), NEW bs, NEW b,
         Loaded(start, idx, data, bs, b)
  PROVE  /\ bs \in Nat \ {0} /\ b \in Seq(Seq(Fs!Cell)) /\ Len(b) <= BufSize
         /\ Len(idx) <= BufSize => bs = start /\ b = Fs!AllStored(idx, data)
<1> DEFINE s == Fs!AllStored(idx, data)
           n == Len(idx)
           skip == IF n > BufSize THEN n - BufSize ELSE 0
           p == SubSeq(s, skip + 1, n)
<1>1. n \in Nat /\ BufSize \in Nat \ {0} /\ s \in Seq(Seq(Fs!Cell)) /\ Len(s) = n
  BY LaidBounds, StoredSeq, StoreFacts
<1>2. bs = start + skip /\ b = p
  BY DEF Loaded
<1> HIDE DEF s, n
<1>3. skip \in Nat /\ (n <= BufSize => skip = 0) /\ n - skip <= BufSize
  BY <1>1
<1> HIDE DEF skip
<1>4. /\ p \in Seq(Seq(Fs!Cell))
      /\ Len(p) = IF skip + 1 <= n THEN n - (skip + 1) + 1 ELSE 0
  <2>1. skip + 1 \in Nat \ {0} /\ n \in 0 .. Len(s)
    BY <1>1, <1>3
  <2> QED BY <1>1, <2>1, Part
<1>5. n <= BufSize => p = s
  <2> SUFFICES ASSUME n <= BufSize PROVE p = s
    OBVIOUS
  <2>1. skip + 1 = 1
    BY <1>3
  <2> QED BY <1>1, <2>1, SubSeqFull
<1> HIDE DEF p
<1>6. Len(p) <= BufSize
  BY <1>1, <1>3, <1>4
<1>7. start + skip \in Nat \ {0} /\ (n <= BufSize => start + skip = start)
  BY <1>3
<1> QED BY <1>2, <1>4, <1>5, <1>6, <1>7 DEF n, s

\* A buffer that was loaded agrees with the files.
LEMMA LoadedHolds ==
  ASSUME FilesHold', Loaded(fs_start_idx', idx_file', data_file', buf_start', buf')
  PROVE  BufferHolds'
<1>1. Laid(idx_file', data_file') /\ fs_start_idx' \in Nat \ {0}
      /\ fs_start_idx' + Len(idx_file') <= MaxStoreIndex + 1
  BY Zenon DEF FilesHold, Laid
<1>2. /\ buf_start' \in Nat \ {0} /\ buf' \in Seq(Seq(Fs!Cell)) /\ Len(buf') <= BufSize
      /\ Len(idx_file') <= BufSize
           => buf_start' = fs_start_idx' /\ buf' = Fs!AllStored(idx_file', data_file')
  BY <1>1, LoadedFacts
<1>3. Len(idx_file') \in Nat
  BY <1>1, LaidBounds
<1>4. BufSize >= MaxStoreIndex => Len(idx_file') <= BufSize
  BY <1>1, <1>3, StoreFacts
<1>5. Fs!Stored' = Fs!AllStored(idx_file', data_file')
  BY DEF Fs!Stored, Fs!AllStored, Fs!StoredIn
<1>6. BufSize >= MaxStoreIndex => buf_start' = fs_start_idx' /\ buf' = Fs!Stored'
  BY <1>2, <1>4, <1>5, Zenon
<1> QED BY <1>2, <1>6, Zenon DEF BufferHolds

\* apply_pack, of entries whose positions begin at any base
LEMMA FsApplyPack ==
  ASSUME FsInv, NEW index \in fs_start_idx .. Fs!next_slot, NEW p \in Fs!Packs,
         ~Fs!Leftover(index, Len(p.idx), Len(p.data)), Fs!apply_pack(index, p)
  PROVE  FsInv' /\ Fs!Promise!Next
<1>1. PICK es \in Fs!SeqOf(Fs!Entry, MaxPack) \ {<<>>}, base \in {0, 1} :
        p = [idx |-> Fs!Positions(base, es), data |-> Fs!FlattenSeq(es)]
  BY DEF Fs!Packs
<1> DEFINE x == Fs!Positions(base, es)
           d == Fs!FlattenSeq(es)
           q == Fs!Adjusted(x, 0)
           n == Len(idx_file)
           k == index - fs_start_idx
           pos == Place(idx_file, data_file, k)
<1>2. p.idx = x /\ p.data = d
  BY <1>1
<1>3. es \in Seq(Fs!Entry) /\ es # <<>> /\ es \in Fs!Promise!SeqOf(Fs!Entry, MaxPack)
  BY DEF Fs!SeqOf, Fs!Promise!SeqOf
<1>4. /\ x \in Seq(Nat) /\ Len(x) = Len(es)
      /\ Laid(q, d) /\ q # <<>> /\ Len(q) = Len(es) /\ Fs!AllStored(q, d) = es
      /\ \A at \in Nat : Fs!Adjusted(x, at) = Fs!Adjusted(q, at)
  BY <1>3, PackLaid
<1> HIDE DEF x, d, q
<1>5. FilesHold /\ BufferHolds
  BY DEF FsInv
<1>6. /\ n \in Nat /\ Len(data_file) \in Nat /\ fs_start_idx \in Nat \ {0}
      /\ Len(x) \in Nat /\ Len(d) \in Nat /\ d \in Seq(Fs!Cell) /\ entries_in_store = n
  BY <1>4, <1>5, HoldFacts, LenProperties DEF FilesHold, Laid
<1>7. /\ k \in 0 .. n /\ pos \in 0 .. Len(data_file)
      /\ pos = IF k = n THEN Len(data_file) ELSE idx_file[k + 1]
      /\ n <= k + Len(x) => Len(data_file) <= pos + Len(d)
  BY <1>2, <1>5, <1>6, NothingLeft
<1>8. index + Len(x) - 1 <= MaxStoreIndex => fs_start_idx + k + Len(q) <= MaxStoreIndex + 1
  <2>1. Len(q) = Len(x) /\ index \in Int
    BY <1>4
  <2> HIDE DEF n, pos
  <2>2. index = fs_start_idx + k
    BY <1>6, <2>1
  <2>3. k \in Int
    BY <1>6, <1>7
  <2> HIDE DEF k
  <2> QED BY <1>6, <2>1, <2>2, <2>3, StoreFacts
<1> HIDE DEF n, k, pos
<1>9. /\ index + Len(x) - 1 <= MaxStoreIndex
      /\ Fs!CutFiles(Fs!Overlay(idx_file, k, Fs!Adjusted(x, pos)), Fs!Overlay(data_file, pos, d),
                     k + Len(x), pos + Len(d))
      /\ entries_in_store' = k + Len(x)
      /\ Loaded(fs_start_idx, idx_file', data_file', buf_start', buf')
      /\ UNCHANGED <<start_idx_file, fs_start_idx>>
  <2> DEFINE at == IF k = entries_in_store THEN Len(data_file) ELSE idx_file[k + 1]
  <2>1. /\ index + Len(p.idx) - 1 <= MaxStoreIndex
        /\ Fs!CutFiles(Fs!Overlay(idx_file, k, Fs!Adjusted(p.idx, at)),
                       Fs!Overlay(data_file, at, p.data), k + Len(p.idx), at + Len(p.data))
        /\ entries_in_store' = k + Len(p.idx)
        /\ UNCHANGED <<start_idx_file, fs_start_idx>>
    BY DEF Fs!apply_pack, k
  <2>2. Loaded(fs_start_idx, idx_file', data_file', buf_start', buf')
    BY DEF Fs!apply_pack, Fs!Refill, Loaded
  <2>3. at = pos
    BY <1>6, <1>7
  <2> HIDE DEF at
  <2> QED BY <1>2, <2>1, <2>2, <2>3, Zenon
<1>10. Splice(idx_file, data_file, k, q, d, idx_file', data_file')
  <2> DEFINE a == Fs!Adjusted(x, pos)
  <2>1. a = Fs!Adjusted(q, pos)
    BY <1>4, <1>6, <1>7
  <2>2. a \in Seq(Nat) /\ Len(a) = Len(x)
    <3>1. pos \in Nat /\ Len(q) = Len(x) /\ q[1] = 0 /\ \A j \in 1 .. Len(q) : q[j] \in Nat
      BY <1>4, <1>6, <1>7, ElementOfSeq DEF Laid
    <3>2. Fs!Adjusted(q, pos) = [j \in 1 .. Len(q) |-> q[j] + pos - q[1]]
      BY DEF Fs!Adjusted
    <3>3. \A j \in 1 .. Len(q) : q[j] + pos - q[1] \in Nat
      BY <3>1
    <3> QED BY <1>6, <2>1, <3>1, <3>2, <3>3
  <2>3. Fs!CutFiles(Fs!Overlay(idx_file, k, a), Fs!Overlay(data_file, pos, d),
                    k + Len(x), pos + Len(d))
    BY <1>9
  <2> HIDE DEF a
  <2>4. Laid(idx_file, data_file) /\ k \in 0 .. Len(idx_file)
    BY <1>5, <1>7 DEF FilesHold, n
  <2>5. Len(idx_file) <= k + Len(a) => Len(data_file) <= pos + Len(d)
    BY <1>7, <2>2, Zenon DEF n
  <2>6. Fs!CutFiles(Fs!Overlay(idx_file, k, a), Fs!Overlay(data_file, pos, d),
                    k + Len(a), pos + Len(d))
    BY <2>2, <2>3, Zenon
  <2>7. idx_file' = SubSeq(idx_file, 1, k) \o a /\ data_file' = SubSeq(data_file, 1, pos) \o d
    <3>1. a \in Seq(Nat) /\ d \in Seq(Fs!Cell) /\ pos \in 0 .. Len(data_file)
      BY <1>6, <1>7, <2>2
    <3> QED BY <2>4, <2>5, <2>6, <3>1, WrittenAndCut
  <2> QED BY <2>1, <2>7, Zenon DEF Splice, pos
<1>11. Behind(k, q, d)
  <2>1. Len(q) = Len(x)
    BY <1>4
  <2> QED BY <1>9, <1>10, <2>1, Zenon DEF Behind
<1>12. k \in 0 .. Len(idx_file) /\ fs_start_idx + k + Len(q) <= MaxStoreIndex + 1
  BY <1>7, <1>8, <1>9 DEF n
<1>13. FilesHold' /\ Fs!Stored' = SubSeq(Fs!Stored, 1, k) \o es
  <2>1. FilesHold' /\ Fs!Stored' = SubSeq(Fs!Stored, 1, k) \o Fs!AllStored(q, d)
    BY <1>4, <1>5, <1>11, <1>12, WrittenBehind
  <2> QED BY <1>4, <2>1, Zenon
<1>14. BufferHolds'
  <2>1. Loaded(fs_start_idx', idx_file', data_file', buf_start', buf')
    BY <1>9
  <2> QED BY <1>13, <2>1, LoadedHolds
<1>15. Fs!Promise!Next
  <2>1. start_idx_file' = start_idx_file
    BY <1>9
  <2> QED BY <1>3, <1>5, <1>12, <1>13, <2>1, OverwritesLog
<1> QED BY <1>13, <1>14, <1>15, Zenon DEF FsInv

\* Files with nothing in them
LEMMA EmptyFiles == Laid(<<>>, <<>>) /\ Fs!AllStored(<<>>, <<>>) = <<>>
<1>1. Laid(<<>>, <<>>)
  BY DEF Laid
<1> HIDE DEF Laid
<1>2. Fs!AllStored(<<>>, <<>>) \in Seq(Seq(Fs!Cell)) /\ Len(Fs!AllStored(<<>>, <<>>)) = 0
  BY <1>1, StoredSeq
<1> QED BY <1>1, <1>2, EmptySeq

\* compact, of a part of the log or of all of it
LEMMA FsCompact ==
  ASSUME FsInv, NEW upto \in fs_start_idx .. MaxStoreIndex, Fs!compact(upto)
  PROVE  FsInv' /\ Fs!Promise!Next
<1> DEFINE n == Len(idx_file)
           gone == upto - fs_start_idx + 1
           cut == idx_file[gone + 1]
           rest == SubSeq(Fs!Stored, gone + 1, n)
<1>1. FilesHold /\ BufferHolds
  BY DEF FsInv
<1>2. /\ n \in Nat /\ Len(data_file) \in Nat /\ idx_file \in Seq(Nat) /\ data_file \in Seq(Fs!Cell)
      /\ Fs!Stored \in Seq(Seq(Fs!Cell)) /\ Len(Fs!Stored) = n
      /\ Fs!next_slot = fs_start_idx + n /\ entries_in_store = n
  BY <1>1, HoldFacts DEF FilesHold
<1>3. /\ fs_start_idx \in Nat \ {0} /\ start_idx_file = fs_start_idx /\ MaxStoreIndex \in Nat
      /\ fs_start_idx + n <= MaxStoreIndex + 1
  BY <1>1, StoreFacts DEF FilesHold
<1>4. start_idx_file' = upto + 1 /\ fs_start_idx' = upto + 1
  BY DEF Fs!compact
<1>5. /\ upto \in Nat \ {0} /\ gone \in Nat \ {0} /\ upto - fs_start_idx + 2 = gone + 1
      /\ upto + 1 = fs_start_idx + gone
  BY <1>3
<1> HIDE DEF gone, n
<1> DEFINE from == gone + 1
           part2 == SubSeq(idx_file, from, n)
           idx2 == Fs!Adjusted(part2, 0)
           data2 == SubSeq(data_file, idx_file[from] + 1, Place(idx_file, data_file, n))
<1>11. /\ upto >= Fs!next_slot - 1 <=> upto >= fs_start_idx + n - 1
       /\ upto < Fs!next_slot - 1 <=> upto < fs_start_idx + n - 1
  <2>1. Fs!next_slot = fs_start_idx + n /\ n \in Nat /\ fs_start_idx \in Nat /\ upto \in Nat
    BY <1>2, <1>3, <1>5
  <2> HIDE DEF cut, rest
  <2> QED BY <2>1
<1>6. ASSUME from \in 1 .. n, n \in from .. n
      PROVE  /\ Laid(idx2, data2) /\ Len(idx2) = n - from + 1
             /\ Fs!AllStored(idx2, data2) = SubSeq(Fs!AllStored(idx_file, data_file), from, n)
  <2>1. Laid(idx_file, data_file) /\ from \in 1 .. Len(idx_file) /\ n \in from .. Len(idx_file)
    BY <1>1, <1>6 DEF FilesHold, n
  <2> HIDE DEF from, cut, rest
  <2>2. Slice(idx_file, data_file, from, n, idx2, data2)
    BY DEF Slice
  <2> HIDE DEF idx2, data2
  <2> QED BY <2>1, <2>2, Sliced
<1> HIDE DEF from, part2, idx2, data2
<1>7. ASSUME Fs!Stored' = rest PROVE Fs!Promise!Next
  <2>1. Fs!Promise!Compact(upto)
    <3>1. upto >= start_idx_file
      BY <1>3
    <3>2. start_idx_file' = upto + 1
      BY <1>4
    <3>3. rest = SubSeq(Fs!Stored, upto - start_idx_file + 2, Len(Fs!Stored))
      BY <1>2, <1>3, <1>5
    <3> HIDE DEF rest
    <3> QED BY <1>7, <3>1, <3>2, <3>3, Zenon DEF Fs!Promise!Compact
  <2>2. upto \in start_idx_file .. MaxStoreIndex
    BY <1>3
  <2> QED BY <2>1, <2>2, Zenon DEF Fs!Promise!Next
<1>8. CASE /\ upto >= Fs!next_slot - 1
           /\ idx_file' = <<>> /\ data_file' = <<>> /\ entries_in_store' = 0
           /\ buf_start' = upto + 1 /\ buf' = <<>>
  <2>1. Laid(idx_file', data_file') /\ Fs!AllStored(idx_file', data_file') = <<>>
    BY <1>8, EmptyFiles, Zenon
  <2>2. Fs!Stored' = <<>>
    <3>1. Fs!Stored' = Fs!AllStored(idx_file', data_file')
      BY DEF Fs!Stored, Fs!AllStored, Fs!StoredIn
    <3> QED BY <2>1, <3>1
  <2>3. FilesHold'
    <3>1. Len(idx_file') = 0
      BY <1>8
    <3>2. upto + 1 + 0 <= MaxStoreIndex + 1 /\ upto + 1 \in Nat \ {0}
      BY <1>3, <1>5
    <3>3. Laid(idx_file, data_file)'
      BY <2>1 DEF Laid
    <3>4. fs_start_idx' + Len(idx_file') <= MaxStoreIndex + 1 /\ entries_in_store' = Len(idx_file')
      BY <1>4, <1>8, <3>1, <3>2
    <3> QED BY <1>4, <3>2, <3>3, <3>4 DEF FilesHold
  <2>4. rest = <<>>
    <3>1. n < gone + 1
      <4>1. upto >= fs_start_idx + n - 1
        <5>1. upto >= Fs!next_slot - 1
          BY <1>8, Zenon
        <5> QED BY <1>11, <5>1, Zenon
      <4> QED BY <1>2, <1>3, <1>5, <4>1
    <3>2. rest \in Seq(Seq(Fs!Cell)) /\ Len(rest) = 0
      <4>1. gone + 1 \in Nat \ {0} /\ n \in 0 .. Len(Fs!Stored) /\ ~(gone + 1 <= n)
        BY <1>2, <1>5, <3>1
      <4> QED BY <1>2, <4>1, Part
    <3> HIDE DEF rest
    <3> QED BY <3>2, EmptySeq
  <2>5. BufferHolds'
    <3>1. <<>> \in Seq(Seq(Fs!Cell)) /\ Len(<<>>) <= BufSize
      BY StoreFacts
    <3>2. /\ buf_start' \in Nat \ {0} /\ buf' \in Seq(Seq(Fs!Cell)) /\ Len(buf') <= BufSize
          /\ buf_start' = fs_start_idx' /\ buf' = Fs!Stored'
      BY <1>4, <1>5, <1>8, <2>2, <3>1
    <3> QED BY <3>2, Zenon DEF BufferHolds
  <2>6. Fs!Promise!Next
    BY <1>7, <2>2, <2>4, Zenon
  <2> QED BY <2>3, <2>5, <2>6, Zenon DEF FsInv
<1>9. CASE /\ upto < Fs!next_slot - 1
           /\ idx_file' = Fs!Shift(SubSeq(idx_file, gone + 1, n), cut)
           /\ data_file' = SubSeq(data_file, cut + 1, Len(data_file))
           /\ entries_in_store' = n - gone
           /\ Loaded(upto + 1, idx_file', data_file', buf_start', buf')
  <2>1. from \in 1 .. n /\ n \in from .. n
    <3>1. upto < fs_start_idx + n - 1
      <4>1. upto < Fs!next_slot - 1
        BY <1>9, Zenon
      <4> QED BY <1>11, <4>1, Zenon
    <3> QED BY <1>2, <1>3, <1>5, <3>1 DEF from
  <2>2. data_file' = data2
    <3>1. Place(idx_file, data_file, n) = Len(data_file)
      BY DEF Place, n
    <3>2. data_file' = SubSeq(data_file, idx_file[from] + 1, Len(data_file))
      BY <1>9, Zenon DEF from
    <3> QED BY <3>1, <3>2, Zenon DEF data2
  <2>3. idx_file' = idx2
    <3>1. /\ part2 \in Seq(Nat) /\ Len(part2) = n - from + 1
          /\ \A j \in 1 .. n - from + 1 : part2[j] = idx_file[from + j - 1]
      <4>1. from \in Nat \ {0} /\ n \in 0 .. Len(idx_file) /\ from <= n
        BY <1>2, <1>5, <2>1 DEF n
      <4> QED BY <1>2, <4>1, Part DEF part2
    <3>2. idx_file' = Fs!Shift(part2, cut)
      BY <1>9, Zenon DEF part2, from
    <3>3. 1 \in 1 .. n - from + 1 /\ from + 1 - 1 = from
      BY <1>2, <1>5, <2>1
    <3>4. part2[1] = cut
      BY <3>1, <3>3 DEF from
    <3>5. \A j \in 1 .. Len(part2) : part2[j] \in Nat
      BY <3>1, ElementOfSeq
    <3>6. cut \in Nat
      BY <3>1, <3>3, <3>4, <3>5
    <3> HIDE DEF cut
    <3>7. \A j \in 1 .. Len(part2) : part2[j] - cut = part2[j] + 0 - part2[1]
      BY <3>4, <3>5, <3>6
    <3>8. Fs!Shift(part2, cut) = Fs!Adjusted(part2, 0)
      BY <3>7 DEF Fs!Shift, Fs!Adjusted
    <3> QED BY <3>2, <3>8 DEF idx2
  <2>4. /\ Laid(idx2, data2) /\ Len(idx2) = n - from + 1
        /\ Fs!AllStored(idx2, data2) = SubSeq(Fs!AllStored(idx_file, data_file), from, n)
    BY <1>6, <2>1, Zenon
  <2> HIDE DEF cut, rest
  <2>5. Laid(idx_file', data_file') /\ Len(idx_file') = n - gone
    <3>1. n - from + 1 = n - gone
      BY <1>2, <1>5 DEF from
    <3> QED BY <2>2, <2>3, <2>4, <3>1, Zenon
  <2>6. Fs!Stored' = rest
    <3>1. Fs!Stored' = Fs!AllStored(idx_file', data_file')
      BY DEF Fs!Stored, Fs!AllStored, Fs!StoredIn
    <3> QED BY <2>2, <2>3, <2>4, <3>1, Zenon DEF Fs!Stored, rest, from
  <2>7. FilesHold'
    <3>1. Laid(idx_file, data_file)'
      BY <2>5 DEF Laid
    <3>2. upto + 1 + (n - gone) <= MaxStoreIndex + 1 /\ upto + 1 \in Nat \ {0}
      BY <1>2, <1>3, <1>5
    <3>3. /\ fs_start_idx' + Len(idx_file') <= MaxStoreIndex + 1
          /\ entries_in_store' = Len(idx_file')
      <4>1. fs_start_idx' = upto + 1 /\ Len(idx_file') = n - gone /\ entries_in_store' = n - gone
        BY <1>4, <1>9, <2>5, Zenon
      <4> QED BY <3>2, <4>1
    <3> QED BY <1>4, <3>1, <3>2, <3>3, Zenon DEF FilesHold
  <2>8. BufferHolds'
    <3>1. Loaded(fs_start_idx', idx_file', data_file', buf_start', buf')
      BY <1>4, <1>9
    <3> QED BY <2>7, <3>1, LoadedHolds
  <2>9. Fs!Promise!Next
    BY <1>7, <2>6, Zenon
  <2> QED BY <2>7, <2>8, <2>9, Zenon DEF FsInv
<1>10. \/ /\ upto >= Fs!next_slot - 1
          /\ idx_file' = <<>> /\ data_file' = <<>> /\ entries_in_store' = 0
          /\ buf_start' = upto + 1 /\ buf' = <<>>
       \/ /\ upto < Fs!next_slot - 1
          /\ idx_file' = Fs!Shift(SubSeq(idx_file, gone + 1, n), cut)
          /\ data_file' = SubSeq(data_file, cut + 1, Len(data_file))
          /\ entries_in_store' = n - gone
          /\ Loaded(upto + 1, idx_file', data_file', buf_start', buf')
  <2>1. \/ /\ upto >= Fs!next_slot - 1
           /\ idx_file' = <<>> /\ data_file' = <<>> /\ entries_in_store' = 0
           /\ buf_start' = upto + 1 /\ buf' = <<>>
        \/ /\ upto < Fs!next_slot - 1
           /\ idx_file' = Fs!Shift(SubSeq(idx_file, gone + 1, n), cut)
           /\ data_file' = SubSeq(data_file, cut + 1, Len(data_file))
           /\ entries_in_store' = entries_in_store - gone
           /\ Loaded(upto + 1, idx_file', data_file', buf_start', buf')
    BY DEF Fs!compact, Fs!Refill, Loaded, gone, n
  <2>2. entries_in_store = n
    BY <1>2
  <2> HIDE DEF cut, rest
  <2> QED BY <2>1, <2>2, Zenon
<1> QED BY <1>8, <1>9, <1>10, Zenon

\* A restart loads what the files hold.
LEMMA FsReopen ==
  ASSUME FsInv, Fs!Reopen
  PROVE  FsInv' /\ UNCHANGED <<start_idx_file, Fs!Stored>>
<1>1. FilesHold
  BY DEF FsInv
<1>2. /\ idx_file' = idx_file /\ data_file' = data_file /\ start_idx_file' = start_idx_file
      /\ fs_start_idx' = start_idx_file /\ entries_in_store' = Len(idx_file)
  BY DEF Fs!Reopen, Fs!files
<1>3. FilesHold'
  BY <1>1, <1>2, Zenon DEF FilesHold, Laid
<1>4. Loaded(start_idx_file, idx_file, data_file, buf_start', buf')
  BY DEF Fs!Reopen, Fs!Refill, Loaded
<1>5. Loaded(fs_start_idx', idx_file', data_file', buf_start', buf')
  BY <1>2, <1>4, Zenon
<1>6. Fs!Stored' = Fs!Stored
  BY <1>2, Zenon DEF Fs!Stored, Fs!AllStored, Fs!StoredIn
<1> QED BY <1>2, <1>3, <1>5, <1>6, LoadedHolds, Zenon DEF FsInv

LEMMA FsInit == ASSUME Fs!Init PROVE FsInv /\ Fs!Promise!Init
<1>1. /\ idx_file = <<>> /\ data_file = <<>> /\ start_idx_file = 1
      /\ fs_start_idx = 1 /\ entries_in_store = 0 /\ buf_start = 1 /\ buf = <<>>
  BY DEF Fs!Init
<1>2. Laid(idx_file, data_file) /\ Fs!Stored = <<>>
  BY <1>1, EmptyFiles, Zenon DEF Fs!Stored
<1>3. FilesHold
  BY <1>1, <1>2, StoreFacts DEF FilesHold
<1>4. BufferHolds
  BY <1>1, <1>2, StoreFacts DEF BufferHolds
<1> QED BY <1>1, <1>2, <1>3, <1>4 DEF FsInv, Fs!Promise!Init

LEMMA FsNext ==
  ASSUME FsInv, Fs!NoLeftoverNext
  PROVE  FsInv' /\ [Fs!Promise!Next]_<<start_idx_file, Fs!Stored>>
<1>1. CASE \E v \in MCValue : Fs!append(v)
  BY <1>1, FsAppend
<1>2. ASSUME NEW index \in fs_start_idx .. Fs!next_slot, NEW v \in MCValue,
             ~Fs!Leftover(index, 1, MCSize[v]) /\ Fs!write_at(index, v)
      PROVE  FsInv' /\ [Fs!Promise!Next]_<<start_idx_file, Fs!Stored>>
  BY <1>2, FsWriteAt
<1>3. ASSUME NEW index \in fs_start_idx .. Fs!next_slot, NEW p \in Fs!Packs,
             ~Fs!Leftover(index, Len(p.idx), Len(p.data)) /\ Fs!apply_pack(index, p)
      PROVE  FsInv' /\ [Fs!Promise!Next]_<<start_idx_file, Fs!Stored>>
  BY <1>3, FsApplyPack
<1>4. CASE \E upto \in fs_start_idx .. MaxStoreIndex : Fs!compact(upto)
  BY <1>4, FsCompact
<1>5. CASE Fs!Reopen
  BY <1>5, FsReopen
<1> QED BY <1>1, <1>2, <1>3, <1>4, <1>5 DEF Fs!NoLeftoverNext

LEMMA FsStutter ==
  ASSUME FsInv, UNCHANGED Fs!vars
  PROVE  FsInv' /\ UNCHANGED <<start_idx_file, Fs!Stored>>
BY DEF FsInv, FilesHold, BufferHolds, Laid, Fs!Stored, Fs!AllStored, Fs!StoredIn, Fs!vars, Fs!files

\* fs_log_store runs on its own in PartsSpec.
LEMMA FilesRun == PartsSpec => Fs!NoLeftoverSpec
<1>1. PartsInit => Fs!Init
  BY DEF PartsInit
<1>2. [PartsNext]_<<part, sn_vars, fs_vars, mem_vars, ct_vars, el_vars, tm_vars,
                    as_vars, rp_vars, cl_vars>> => [Fs!NoLeftoverNext]_(Fs!vars)
  BY DEF PartsNext, fs_vars, Fs!vars, Fs!files
<1> QED BY <1>1, <1>2, PTL DEF PartsSpec, Fs!NoLeftoverSpec

\* FsInv holds in every state of the run.
LEMMA FilesInvariant == PartsSpec => []FsInv
<1>1. Fs!Init => FsInv
  BY FsInit
<1>2. FsInv /\ [Fs!NoLeftoverNext]_(Fs!vars) => FsInv'
  BY FsNext, FsStutter
<1> QED BY <1>1, <1>2, FilesRun, PTL DEF Fs!NoLeftoverSpec

\* FilesTypeOK: every position of the index file is in the data file.
THEOREM FilesTyped == PartsSpec => []FilesTypeOK
<1>1. ASSUME FsInv PROVE Fs!TypeOK
  <2>1. /\ Len(idx_file) \in Nat /\ Len(data_file) \in Nat /\ idx_file \in Seq(Nat)
        /\ data_file \in Seq(Fs!Cell) /\ entries_in_store \in Nat
    BY <1>1, HoldFacts DEF FsInv
  <2>2. idx_file \in Seq(0 .. Len(data_file) - 1)
    <3>1. \A k \in 1 .. Len(idx_file) : idx_file[k] \in 0 .. Len(data_file) - 1
      BY <1>1, <2>1, LaidBounds DEF FsInv, FilesHold
    <3>2. idx_file \in [1 .. Len(idx_file) -> 0 .. Len(data_file) - 1]
      BY <2>1, <3>1
    <3> QED BY <2>1, <3>2
  <2> QED BY <1>1, <2>1, <2>2 DEF FsInv, FilesHold, BufferHolds, Fs!TypeOK
<1> QED BY <1>1, FilesInvariant, PTL DEF FilesTypeOK

\* ImplementsLogStore: the files hold the log that log_store promises.
THEOREM FilesAreLog == PartsSpec => ImplementsLogStore
<1>1. Fs!Init => Fs!Promise!Init
  BY FsInit
<1>2. FsInv /\ [Fs!NoLeftoverNext]_(Fs!vars)
        => [Fs!Promise!Next]_<<start_idx_file, Fs!Stored>>
  BY FsNext, FsStutter
<1> QED BY <1>1, <1>2, FilesRun, FilesInvariant, PTL
        DEF ImplementsLogStore, Fs!ImplementsLogStore, Fs!Promise!Spec, Fs!NoLeftoverSpec

\* ReadsAgree: with room for the whole log in its buffer, which is what raft_node gives
\* it, fs_log_store reads from the buffer what is in its files.
THEOREM ReadsAreStored == BufSize >= MaxStoreIndex => (PartsSpec => []ReadsAgree)
<1> SUFFICES ASSUME BufSize >= MaxStoreIndex PROVE PartsSpec => []ReadsAgree
  OBVIOUS
<1>1. ASSUME FsInv PROVE Fs!ReadsAgree
  <2> DEFINE n == Len(idx_file)
  <2>1. buf_start = fs_start_idx /\ buf = Fs!Stored
    BY <1>1, Zenon DEF FsInv, BufferHolds
  <2>2. /\ n \in Nat /\ fs_start_idx \in Nat \ {0} /\ entries_in_store = n
        /\ Fs!next_slot = fs_start_idx + n
        /\ Fs!Stored \in Seq(Seq(Fs!Cell)) /\ Len(Fs!Stored) = n
    BY <1>1, HoldFacts DEF FsInv, FilesHold
  <2> HIDE DEF n
  <2>3. ASSUME NEW index \in fs_start_idx .. Fs!next_slot - 1
        PROVE  /\ Fs!entry_at(index) = Fs!Stored[index - fs_start_idx + 1]
               /\ Fs!term_at(index) = Fs!Header(Fs!Stored[index - fs_start_idx + 1])
    <3>1. index \in buf_start .. buf_start + Len(buf) - 1
      BY <2>1, <2>2
    <3> QED BY <2>1, <3>1 DEF Fs!entry_at, Fs!term_at
  <2>4. ASSUME NEW index \in fs_start_idx .. Fs!next_slot - 1,
               NEW e \in index + 1 .. Fs!next_slot
        PROVE  Fs!log_entries(index, e)
                 = SubSeq(Fs!Stored, index - fs_start_idx + 1, e - fs_start_idx)
    <3> DEFINE m == e - index
               from == index - fs_start_idx + 1
               w == SubSeq(Fs!Stored, from, e - fs_start_idx)
               r == [k \in 1 .. m |->
                      IF index + k - 1 >= buf_start THEN buf[index + k - buf_start]
                      ELSE Fs!StoredIn(idx_file, data_file, index + k - fs_start_idx)]
    <3>1. /\ index \in Nat /\ e \in Nat /\ m \in Nat \ {0} /\ from \in Nat \ {0}
          /\ from <= e - fs_start_idx /\ e - fs_start_idx \in 0 .. n
          /\ e - fs_start_idx - from + 1 = m
      BY <2>2
    <3>2. Fs!Smaller(e, Fs!next_slot) = e
      BY <2>2, <3>1 DEF Fs!Smaller
    <3>3. /\ ~(index < fs_start_idx)
          /\ ~(index >= fs_start_idx /\ (index >= e \/ index >= Fs!next_slot))
          /\ index \in fs_start_idx .. e - 1
          /\ e \in buf_start .. buf_start + Len(buf)
      BY <2>1, <2>2, <3>1
    <3>4. Fs!log_entries(index, e) = r
      BY <3>2, <3>3 DEF Fs!log_entries
    <3>5. w \in Seq(Seq(Fs!Cell)) /\ Len(w) = m /\ \A k \in 1 .. m : w[k] = Fs!Stored[from + k - 1]
      <4>1. e - fs_start_idx \in 0 .. Len(Fs!Stored)
        BY <2>2, <3>1
      <4> HIDE DEF from, m, r
      <4> QED BY <2>2, <3>1, <4>1, Part
    <3>6. ASSUME NEW k \in 1 .. m PROVE r[k] = w[k]
      <4>1. index + k - 1 >= buf_start /\ index + k - buf_start = from + k - 1
        BY <2>1, <2>2, <3>1
      <4>2. r[k] = buf[index + k - buf_start]
        BY <4>1
      <4> HIDE DEF r, w, from, m
      <4> QED BY <2>1, <3>5, <4>1, <4>2
    <3>7. w = [k \in 1 .. m |-> w[k]]
      <4> HIDE DEF w, r, m, from
      <4> QED BY <3>5
    <3>8. r = [k \in 1 .. m |-> r[k]]
      OBVIOUS
    <3> HIDE DEF r, w, m, from
    <3>9. r = w
      BY <3>6, <3>7, <3>8
    <3> QED BY <3>4, <3>9 DEF w, from
  <2>5. ASSUME entries_in_store > 0 PROVE Fs!last_entry = Fs!Last(Fs!Stored)
    <3>1. buf # <<>>
      BY <2>1, <2>2, <2>5
    <3> QED BY <2>1, <3>1, Zenon DEF Fs!last_entry
  <2> QED BY <2>3, <2>4, <2>5, Zenon DEF Fs!ReadsAgree
<1> QED BY <1>1, FilesInvariant, PTL DEF ReadsAgree

\* PackHoldsRange: what pack returns, with its positions moved to 0, is the entries that
\* it was asked for.
THEOREM PacksHoldRange == PartsSpec => []PackHoldsRange
<1>1. ASSUME FsInv PROVE Fs!PackHoldsRange
  <2> DEFINE n == Len(idx_file)
  <2>1. /\ n \in Nat /\ fs_start_idx \in Nat \ {0} /\ entries_in_store = n
        /\ Fs!next_slot = fs_start_idx + n /\ Laid(idx_file, data_file)
    BY <1>1, HoldFacts DEF FsInv, FilesHold
  <2> HIDE DEF n
  <2>2. ASSUME NEW index \in fs_start_idx .. Fs!next_slot - 1, NEW cnt \in 1 .. MaxPack
        PROVE  LET p == Fs!pack(index, cnt)
               IN  Fs!AllStored(Fs!Adjusted(p.idx, 0), p.data)
                     = SubSeq(Fs!Stored, index - fs_start_idx + 1,
                              Fs!Smaller(index - fs_start_idx + cnt, entries_in_store))
    <3> DEFINE p == Fs!pack(index, cnt)
               from == index - fs_start_idx + 1
               to == Fs!Smaller(index - fs_start_idx + cnt, entries_in_store)
    <3>1. from \in 1 .. n /\ to \in from .. n
      BY <2>1, StoreFacts DEF Fs!Smaller
    <3>2. /\ p.idx = SubSeq(idx_file, from, to)
          /\ p.data = SubSeq(data_file, idx_file[from] + 1,
                             IF to = entries_in_store THEN Len(data_file) ELSE idx_file[to + 1])
      BY DEF Fs!pack
    <3> HIDE DEF p, from, to
    <3>3. Slice(idx_file, data_file, from, to, Fs!Adjusted(p.idx, 0), p.data)
      <4>1. (IF to = entries_in_store THEN Len(data_file) ELSE idx_file[to + 1])
              = Place(idx_file, data_file, to)
        BY <2>1 DEF Place, n
      <4> QED BY <3>2, <4>1, Zenon DEF Slice
    <3>4. Fs!AllStored(Fs!Adjusted(p.idx, 0), p.data)
            = SubSeq(Fs!AllStored(idx_file, data_file), from, to)
      BY <2>1, <3>1, <3>3, Sliced DEF n
    <3> QED BY <3>4 DEF p, from, to, Fs!Stored
  <2> QED BY <2>2 DEF Fs!PackHoldsRange
<1> QED BY <1>1, FilesInvariant, PTL DEF PackHoldsRange
=============================================================================
