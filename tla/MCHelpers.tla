----------------------------- MODULE MCHelpers ------------------------------
(* The data structure, the descriptor messages and the ids of records,     *)
(* for TLC: every vector of up to max_size () elements, every message,     *)
(* every line.  They share no state: a behaviour exercises one of them.    *)
EXTENDS SimpleVec, FdPass, UtmpId

VARIABLE unit

MCInit ==
  /\ unit \in {"vector", "recv_fd", "fill_id"}
  /\ Init /\ RecvInit /\ IdInit
  /\ unit # "vector"  => simple
  /\ unit # "recv_fd" => word = 4

MCNext ==
  /\ \/ unit = "vector"  /\ Next     /\ UNCHANGED <<recvVars, idVars>>
     \/ unit = "recv_fd" /\ Recv     /\ UNCHANGED <<vars, idVars>>
     \/ unit = "fill_id" /\ NextLine /\ UNCHANGED <<vars, recvVars>>
  /\ UNCHANGED unit

MCSpec == MCInit /\ [][MCNext]_<<vars, recvVars, idVars, unit>>

=============================================================================
