----------------------------- MODULE FsLogStore -----------------------------
(***************************************************************************)
(* class fs_log_store: a log kept in three files, with its tail also in a  *)
(* buffer in memory.  The data file holds the serialized entries one after *)
(* the other, the index file the position at which each of them begins;    *)
(* an entry ends where the next begins, the last one where the file ends.  *)
(* The unit of the data file is a cell: an entry occupies one or more, the *)
(* first of which holds its header (term and type).  Every operation holds *)
(* store_lock_ and is one action; the file system does not fail.           *)
(***************************************************************************)
EXTENDS Integers, Sequences, SequencesExt

CONSTANTS
  Value,      \* what an entry may hold
  Size,       \* the cells each value takes
  BufSize,    \* buf_size_: entries kept in memory
  MaxIndex, MaxPack   \* bounds: the largest index, the entries of a pack

StoreAssumption ==
  /\ Size \in [Value -> Nat \ {0}]
  /\ BufSize \in Nat \ {0} /\ MaxIndex \in Nat /\ MaxPack \in Nat \ {0}

VARIABLES
  idx_file,           \* store.idx: positions in the data file
  data_file,          \* store.dat: cells
  start_idx_file,     \* store.sti
  start_idx, entries_in_store,
  buf_start, buf      \* log_store_buffer: start_idx_ and buf_

files == <<idx_file, data_file, start_idx_file>>
vars == <<files, start_idx, entries_in_store, buf_start, buf>>

-----------------------------------------------------------------------------
(* Entries and files *)

Cells(v) == [k \in 1 .. Size[v] |-> <<v, k>>]
Entry == {Cells(v) : v \in Value}
Cell == UNION {Range(e) : e \in Entry}
Header(e) == Head(e)

\* What a read returns when it finds nothing, throws, or is undefined
Null == <<"null">>
Error == <<"error">>
Undefined == <<"undefined">>

Smaller(a, b) == IF a < b THEN a ELSE b

\* The file after cells are written at position pos, over what is there
Overlay(file, pos, cells) ==
  SubSeq(file, 1, pos) \o cells \o SubSeq(file, pos + Len(cells) + 1, Len(file))

\* Positions of entries es written one after the other from position pos on
Positions(pos, es) ==
  [k \in 1 .. Len(es) |-> pos + Len(FlattenSeq(SubSeq(es, 1, k - 1)))]

\* The entry that the files hold in place k: log_entry::deserialize takes the
\* whole range from its beginning to the beginning of the next.
StoredIn(idx, data, k) ==
  LET end == IF k < Len(idx) THEN idx[k + 1] ELSE Len(data)
  IN  IF end <= Len(data) THEN SubSeq(data, idx[k] + 1, end) ELSE Error
AllStored(idx, data) == [k \in 1 .. Len(idx) |-> StoredIn(idx, data, k)]
Stored == AllStored(idx_file, data_file)

next_slot == start_idx + entries_in_store

-----------------------------------------------------------------------------
(* The buffer *)

\* log_store_buffer::trim, then append
TrimAll(start, b, i) == <<>>   \* mutant: the buffer is emptied
Trim(start, b, i) ==
  IF i < start THEN b ELSE SubSeq(b, 1, Smaller(i - start, Len(b)))
BufAppend(start, b, e) ==
  IF Len(b) < BufSize
  THEN buf_start' = start /\ buf' = Append(b, e)
  ELSE buf_start' = start + 1 /\ buf' = Tail(Append(b, e))

\* log_store_buffer::reset and fs_log_store::fill_buffer, from the files
Refill(start, idx, data) ==
  LET skip == IF Len(idx) > BufSize THEN Len(idx) - BufSize ELSE 0 IN
  /\ buf_start' = start + skip
  /\ buf' = SubSeq(AllStored(idx, data), skip + 1, Len(idx))

-----------------------------------------------------------------------------
(* Operations *)

append(v) ==
  /\ next_slot <= MaxIndex
  /\ idx_file' = Append(idx_file, Len(data_file))
  /\ data_file' = data_file \o Cells(v)
  /\ BufAppend(buf_start, buf, Cells(v))
  /\ entries_in_store' = entries_in_store + 1
  /\ UNCHANGED <<start_idx_file, start_idx>>

\* Both files are cut behind the new end, if the index file shrinks by it.
NeverCut(idx, data, idxEnd, dataEnd) ==   \* mutant: the files keep their length
  idx_file' = idx /\ data_file' = data
CutFiles(idx, data, idxEnd, dataEnd) ==
  IF Len(idx) > idxEnd
  THEN idx_file' = SubSeq(idx, 1, idxEnd) /\ data_file' = SubSeq(data, 1, dataEnd)
  ELSE idx_file' = idx /\ data_file' = data

write_at(i, v) ==
  LET k == i - start_idx + 1
      pos == IF k <= entries_in_store THEN idx_file[k] ELSE Len(data_file)
  IN
  /\ i \in start_idx .. next_slot /\ i <= MaxIndex
  /\ CutFiles(Overlay(idx_file, k - 1, <<pos>>),
              Overlay(data_file, pos, Cells(v)), k, pos + Size[v])
  /\ BufAppend(buf_start,
               IF k <= entries_in_store THEN Trim(buf_start, buf, i) ELSE buf,
               Cells(v))
  /\ entries_in_store' = k
  /\ UNCHANGED <<start_idx_file, start_idx>>

\* A pack of entries es whose first begins at position base of its own store:
\* positions are moved to where the entries go.
KeepPositions(p, pos) == p    \* mutant: positions of the other store are kept
Adjusted(p, pos) == [k \in 1 .. Len(p) |-> p[k] + pos - p[1]]

apply_pack(i, p) ==
  LET k == i - start_idx
      pos == IF k = entries_in_store THEN Len(data_file) ELSE idx_file[k + 1]
      end == k + Len(p.idx)
  IN
  /\ i \in start_idx .. next_slot /\ i + Len(p.idx) - 1 <= MaxIndex
  /\ CutFiles(Overlay(idx_file, k, Adjusted(p.idx, pos)),
              Overlay(data_file, pos, p.data), end, pos + Len(p.data))
  /\ entries_in_store' = end
  /\ Refill(start_idx, idx_file', data_file')
  /\ UNCHANGED <<start_idx_file, start_idx>>

\* The packs that another store may send: what pack returns there
Packs ==
  {[idx |-> Positions(base, es), data |-> FlattenSeq(es)] :
     es \in SeqOf(Entry, MaxPack) \ {<<>>}, base \in {0, 1}}

\* Everything up to index last is removed; if that is all, the files begin anew.
ShiftNothing(idx, by) == idx   \* mutant: positions are not moved
Shift(idx, by) == [k \in 1 .. Len(idx) |-> idx[k] - by]

compact(last) ==
  LET gone == last - start_idx + 1
      cut == idx_file[gone + 1]
  IN
  /\ last \in start_idx .. MaxIndex
  /\ start_idx_file' = last + 1
  /\ start_idx' = last + 1
  /\ \/ /\ last >= next_slot - 1
        /\ idx_file' = <<>> /\ data_file' = <<>>
        /\ entries_in_store' = 0
        /\ buf_start' = last + 1 /\ buf' = <<>>
     \/ /\ last < next_slot - 1
        /\ idx_file' = Shift(SubSeq(idx_file, gone + 1, Len(idx_file)), cut)
        /\ data_file' = SubSeq(data_file, cut + 1, Len(data_file))
        /\ entries_in_store' = entries_in_store - gone
        /\ Refill(last + 1, idx_file', data_file')

\* The store is closed, or the process ends, and the constructor runs again.
Reopen ==
  /\ start_idx' = start_idx_file
  /\ entries_in_store' = Len(idx_file)
  /\ Refill(start_idx_file, idx_file, data_file)
  /\ UNCHANGED files

\* The constructor in an empty folder
Init ==
  /\ idx_file = <<>> /\ data_file = <<>> /\ start_idx_file = 1
  /\ start_idx = 1 /\ entries_in_store = 0
  /\ buf_start = 1 /\ buf = <<>>

Next ==
  \/ \E v \in Value : append(v)
  \/ \E i \in start_idx .. next_slot :
       \/ \E v \in Value : write_at(i, v)
       \/ \E p \in Packs : apply_pack(i, p)
  \/ \E last \in start_idx .. MaxIndex : compact(last)
  \/ Reopen

Spec == Init /\ [][Next]_vars

-----------------------------------------------------------------------------
(* What the reading operations return *)

entry_at(i) ==
  LET k == i - start_idx + 1 IN
  CASE i \in buf_start .. buf_start + Len(buf) - 1 -> buf[i - buf_start + 1]
    [] OTHER ->
       IF i < start_idx THEN Error
       ELSE IF i >= next_slot THEN Null
       ELSE IF k < Len(idx_file) THEN StoredIn(idx_file, data_file, k)
       ELSE Error   \* the end of the last entry is past the index file

term_at(i) ==
  LET k == i - start_idx + 1 IN
  CASE i \in buf_start .. buf_start + Len(buf) - 1 ->
         Header(buf[i - buf_start + 1])
    [] OTHER ->
       IF k \in 1 .. Len(idx_file) THEN data_file[idx_file[k] + 1] ELSE Error

last_entry == IF buf = <<>> THEN Null ELSE Last(buf)

\* [s, e): what the buffer has is taken from it, what comes before from the
\* files.  A range that ends before the buffer begins gets no room in the result.
log_entries(s, e) ==
  LET end == Smaller(e, next_slot) IN
  CASE s < start_idx -> Error
    [] s >= start_idx /\ (s >= e \/ s >= next_slot) -> Null
    [] s \in start_idx .. end - 1 ->
       IF end \in buf_start .. buf_start + Len(buf)
       THEN [k \in 1 .. end - s |->
               IF s + k - 1 >= buf_start THEN buf[s + k - buf_start]
               ELSE StoredIn(idx_file, data_file, s + k - start_idx)]
       ELSE Undefined

\* pack, for an index in the store
pack(i, cnt) ==
  LET from == i - start_idx + 1
      to == Smaller(i - start_idx + cnt, entries_in_store)
  IN  [idx |-> SubSeq(idx_file, from, to),
       data |-> SubSeq(data_file, idx_file[from] + 1,
                       IF to = entries_in_store THEN Len(data_file)
                       ELSE idx_file[to + 1])]

-----------------------------------------------------------------------------
(* Properties *)

\* Files, counters and buffer have the types of the members they model; every
\* position in the index file lies in the data file, which fill_buffer needs.
TypeOK ==
  /\ data_file \in Seq(Cell)
  /\ idx_file \in Seq(0 .. Len(data_file) - 1)
  /\ start_idx_file \in Nat \ {0} /\ start_idx \in Nat \ {0}
  /\ entries_in_store \in Nat
  /\ buf_start \in Nat \ {0}
  /\ Len(buf) <= BufSize

\* The files hold the log that log_store promises, through every operation and
\* every restart (Stored is the log that the constructor would load).
Promise == INSTANCE LogStore WITH start <- start_idx_file, log <- Stored
ImplementsLogStore == Promise!Spec

\* Whatever the reading operations take from the buffer is what the files hold,
\* so a restart changes no answer: the "Assumption" in log_entries and entry_at.
ReadsAgree ==
  /\ \A i \in start_idx .. next_slot - 1 :
       /\ entry_at(i) = Stored[i - start_idx + 1]
       /\ term_at(i) = Header(Stored[i - start_idx + 1])
       /\ \A e \in i + 1 .. next_slot :
            log_entries(i, e) = SubSeq(Stored, i - start_idx + 1, e - start_idx)
  /\ entries_in_store > 0 => last_entry = Last(Stored)

\* A pack, read with its positions moved to 0, holds the entries asked for.
PackHoldsRange ==
  \A i \in start_idx .. next_slot - 1, cnt \in 1 .. MaxPack :
    LET p == pack(i, cnt) IN
    AllStored(Adjusted(p.idx, 0), p.data) =
      SubSeq(Stored, i - start_idx + 1,
             Smaller(i - start_idx + cnt, entries_in_store))

\* test_log_store: write_at, close, open, then "assert(entry_equals(*item,
\* *last3))".  The last entry that was written is the last one a restart loads.
LastEntrySurvives ==
  entries_in_store > 0 => last_entry = Last(Stored)
=============================================================================
