------------------------------ MODULE WtmpLog -------------------------------
(* What readers of wtmp expect of it: a list of records that only grows,   *)
(* by a whole record at a time.                                            *)
EXTENDS Sequences

CONSTANT Records

VARIABLE log

Init == log = <<>>

Add == \E r \in Records : log' = Append(log, r)

Spec == Init /\ [][Add]_log

=============================================================================
