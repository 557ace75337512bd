------------------------------ MODULE LogStore ------------------------------
(***************************************************************************)
(* What log_store promises the server: a sequence of entries, the first of *)
(* them at index start, that can be cut at the front (compact), and cut    *)
(* and extended at the back (append, write_at, apply_pack).  Closing a     *)
(* store and opening it again changes nothing.                             *)
(***************************************************************************)
EXTENDS Integers, Sequences, SequencesExt

CONSTANTS
  Entry,              \* what a place of the log may hold
  MaxIndex, MaxPack   \* bounds: the largest index, the entries written at once

VARIABLES start, log

Init == start = 1 /\ log = <<>>

\* Entries es replace what is at index i and after it.
Overwrite(i, es) ==
  /\ i \in start .. start + Len(log)
  /\ log' = SubSeq(log, 1, i - start) \o es
  /\ UNCHANGED start

\* Everything up to index last is dropped.
Compact(last) ==
  /\ last >= start
  /\ start' = last + 1
  /\ log' = SubSeq(log, last - start + 2, Len(log))

Next ==
  \/ \E i \in start .. start + Len(log), es \in SeqOf(Entry, MaxPack) :
       es # <<>> /\ Overwrite(i, es)
  \/ \E last \in start .. MaxIndex : Compact(last)

Spec == Init /\ [][Next]_<<start, log>>
=============================================================================
