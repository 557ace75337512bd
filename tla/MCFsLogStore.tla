---------------------------- MODULE MCFsLogStore ----------------------------
(* Model checking of FsLogStore with a value of one cell and one of two *)
EXTENDS FsLogStore

CONSTANTS small, large

MCValue == {small, large}
MCSize == (small :> 1) @@ (large :> 2)

\* Writing n entries of so many cells at index i replaces the last entries of the
\* store by shorter ones, whose remains stay in the data file (run shorter).
Leftover(i, n, cells) ==
  /\ i < next_slot /\ next_slot <= i + n
  /\ idx_file[i - start_idx + 1] + cells < Len(data_file)

\* FsLogStore without those steps
NoLeftoverNext ==
  \/ \E v \in Value : append(v)
  \/ \E i \in start_idx .. next_slot :
       \/ \E v \in Value : ~Leftover(i, 1, Size[v]) /\ write_at(i, v)
       \/ \E p \in Packs : /\ ~Leftover(i, Len(p.idx), Len(p.data))
                           /\ apply_pack(i, p)
  \/ \E last \in start_idx .. MaxIndex : compact(last)
  \/ Reopen

NoLeftoverSpec == Init /\ [][NoLeftoverNext]_vars
=============================================================================
