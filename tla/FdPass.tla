------------------------------- MODULE FdPass -------------------------------
(***************************************************************************)
(* recv_fd of src/src/fdpass.C for any message that it may be sent, with   *)
(* as many descriptors as the sender likes.  The control buffer gets as    *)
(* many of them as it holds.  Some kernels (macOS, FreeBSD) install those  *)
(* that it does not hold too, and give a length that it does not have.     *)
(* a: what the platform's CMSG macros round by.                            *)
(***************************************************************************)
EXTENDS Integers

CONSTANT MaxSent    \* bound on the descriptors in a message

ASSUME SentAssumption == MaxSent \in Nat

Round(a, n)     == ((n + a - 1) \div a) * a
CmsgLen(a, n)   == Round(a, a + 8) + n
CmsgSpace(a, n) == Round(a, a + 8) + Round(a, n)

IntSize == 4    \* sizeof (int)

(* The descriptors whose numbers are in the control buffer, and those that *)
(* the process has got: all of them, if the kernel is a leaky one.         *)
InBuffer(a, sent) == {i \in 0..(sent - 1) : CmsgLen(a, IntSize * (i + 1)) <= CmsgSpace(a, IntSize)}

Installed(a, m) == IF m.leaky THEN 0..(m.sent - 1) ELSE InBuffer(a, m.sent)

(* Lengths of a message: from what is in the buffer to all that was sent.  *)
Lengths(a, sent) ==
  {len \in CmsgLen(a, 0)..CmsgLen(a, IntSize * sent) :
     \A i \in InBuffer(a, sent) : CmsgLen(a, IntSize * (i + 1)) <= len}

(* What recvmsg delivers: a data byte, and in the control buffer a message *)
(* with n descriptors or one of another kind, or none (len 0).             *)
WithRights(a, n) ==
  [sent : {n}, leaky : BOOLEAN, rights : {TRUE}, len : Lengths(a, n), data : {0, 1}]

WithoutRights(a) ==
  [sent : {0}, leaky : {FALSE}, rights : {FALSE},
   len : 0..CmsgLen(a, IntSize * MaxSent), data : {0, 1}]

Messages(a) == (UNION {WithRights(a, n) : n \in 0..MaxSent}) \cup WithoutRights(a)

(* Mutant of Limited: the length is believed.                              *)
LimitedNot(a, len) == len

Limited(a, len) == IF len > CmsgSpace(a, IntSize) THEN CmsgSpace(a, IntSize) ELSE len

(* What recv_fd returns of the descriptors in the message, or -1, and      *)
(* which of them it closes: all that the length covers but the first, and  *)
(* if the data is not send_fd's the first too.                             *)
RecvFd(a, m) ==
  LET len    == Limited(a, m.len)
      got    == m.rights /\ len >= CmsgLen(a, IntSize)
      extra  == {i \in 1..len : got /\ len >= CmsgLen(a, IntSize * (i + 1))}
  IN  IF got /\ m.data = 0 THEN [fd |-> 0, closed |-> extra]
      ELSE [fd |-> -1, closed |-> extra \cup (IF got THEN {0} ELSE {})]

-----------------------------------------------------------------------------
VARIABLES
  word,    \* what the macros of this platform round by
  msg,     \* the message of the last call
  ret      \* and what the call made of it

recvVars == <<word, msg, ret>>

RecvInit ==
  /\ word \in {4, 8}
  /\ msg = [sent |-> 0, leaky |-> FALSE, rights |-> FALSE, len |-> 0, data |-> 1]
  /\ ret = [fd |-> -1, closed |-> {}]

Recv ==
  /\ msg' \in Messages(word)
  /\ ret' = RecvFd(word, msg')
  /\ UNCHANGED word

RecvSpec == RecvInit /\ [][Recv]_recvVars

(* Every descriptor in the buffer is returned or closed, and nothing else  *)
(* is: the loop neither stops early nor takes what lies behind the buffer  *)
(* for descriptors.  What leaks is what a leaky kernel installs beyond the *)
(* buffer, as fdpass.C:123-126 says.  What send_fd sends is returned.      *)
OnlyExtrasLeak ==
  /\ LET touched == ret.closed \cup ({ret.fd} \ {-1})
     IN  /\ touched = InBuffer(word, msg.sent)
         /\ ~msg.leaky => touched = Installed(word, msg)
  /\ msg.sent = 1 /\ msg.data = 0 => ret = [fd |-> 0, closed |-> {}]

=============================================================================
