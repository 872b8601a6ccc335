---------------------------- MODULE MCPtySession ----------------------------
(* PtySession for TLC: each line has a key of its own.  Two builds have    *)
(* pids in their records; the processes of one may be killed.  In the      *)
(* others records go by slots, which one line or all have, and the two     *)
(* processes are built differently.                                        *)
EXTENDS PtySessionService, TLC

OwnKey == [l \in Lines |-> l]

WithPids ==
  {[havePid |-> TRUE, slots |-> {}, getPty |-> [p \in Procs |-> "unix98"], mayDie |-> die] :
     die \in BOOLEAN}

WithSlots ==
  {[havePid |-> FALSE, slots |-> s, getPty |-> f, mayDie |-> FALSE] :
     s \in {{CHOOSE l \in Lines : TRUE}, Lines},
     f \in {g \in [Procs -> {"openpty", "bsd"}] : \A p, q \in Procs : g[p] = g[q] => p = q}}

SessionBuilds == WithPids \cup WithSlots

Symmetry == Permutations(Procs) \cup Permutations(Pids)

=============================================================================
