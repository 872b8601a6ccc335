-------------------------- MODULE PtyProxy_proofs --------------------------
(***************************************************************************)
(* Proofs about the helper protocol, for every number of clients,          *)
(* addresses and lines: type correctness and the sessions under every      *)
(* misfortune; the mutual exclusion of calls and the quiet socket as long  *)
(* as no signal interrupts a read of lock_fd.                              *)
(***************************************************************************)
EXTENDS PtyProxy, SequenceTheorems, TLAPS

(* The helper sends the descriptors of an object that it still has.        *)
CurOK == srv \in {"pty", "tty"} => cur \in ptys

(* TypeOK by the part of the system it speaks about.                       *)
ClientsOK ==
  /\ pc    \in [Clients -> {"idle", "need", "write", "id", "pty", "tty",
                            "give", "gone"}]
  /\ op    \in [Clients -> CommandType]
  /\ id    \in [Clients -> Addrs \cup {Nil}]
  /\ pty   \in [Clients -> Fd \cup {Nil}]
  /\ tty   \in [Clients -> Fd \cup {Nil}]
  /\ res   \in [Clients -> {"none", "ok", "fail", "threw"}]
  /\ holds \in [Clients -> BOOLEAN]

TokensOK == tokC \in Nat /\ tokS \in Nat
QueuesOK == toSrv \in Seq(Command) /\ toCli \in Seq(Reply)

HelperOK ==
  /\ srv  \in {"give", "read", "pty", "tty", "need", "reap", "exit", "killed"}
  /\ cur  \in Addrs \cup {Nil}
  /\ obj  \in [Addrs -> Object \cup {Nil}]
  /\ utmp \subseteq Lines
  /\ CurOK

TypeInv == ClientsOK /\ TokensOK /\ QueuesOK /\ HelperOK

-----------------------------------------------------------------------------
(* What a read takes off a socket queue, and what a write adds to it, is   *)
(* of the queue's type.                                                    *)
LEMMA QueueTypes ==
  ASSUME NEW S, NEW q \in Seq(S)
  PROVE  /\ \A x \in S : Append(q, x) \in Seq(S) /\ <<x>> \o q \in Seq(S)
         /\ q # <<>> => Head(q) \in S /\ Tail(q) \in Seq(S) /\ q[1] \in S
<1>1. ASSUME NEW x \in S PROVE Append(q, x) \in Seq(S) /\ <<x>> \o q \in Seq(S)
  BY <1>1, ConcatProperties, AppendProperties, SMT
<1>2. ASSUME q # <<>> PROVE Head(q) \in S /\ Tail(q) \in Seq(S) /\ q[1] \in S
  BY <1>2, HeadTailProperties, EmptySeq, ElementOfSeq, LenProperties
<1> QED
  BY <1>1, <1>2

(* A message on the reply socket carries what its kind says.               *)
LEMMA ReplyKinds ==
  /\ \A m \in Reply :
       /\ m.kind \in {"id", "fd", "rest"}
       /\ m.kind = "id" => m.val \in Addrs \cup {Nil}
       /\ m.kind = "fd" => m.val \in Fd
  /\ \A v \in Addrs \cup {Nil} : [kind |-> "id", val |-> v] \in Reply
  /\ \A v \in Fd : [kind |-> "fd", val |-> v] \in Reply
  /\ Rest \in Reply
BY DEF Reply, Rest

(* The initial state has the types of TypeOK.                              *)
LEMMA TypeInit == Init => TypeInv
BY DEF Init, TypeInv, ClientsOK, TokensOK, QueuesOK, HelperOK, CurOK,
     CommandType

(* What the clients' reads leave on the reply socket.                       *)
LEMMA ReadTypes ==
  ASSUME toCli \in Seq(Reply)
  PROVE  /\ toCli # <<>> => Head(toCli) \in Reply /\ Tail(toCli) \in Seq(Reply)
         /\ ShortRead => toCli' \in Seq(Reply)
         /\ MixedRead => toCli' \in Seq(Reply)
         /\ \A fd \in Fd : Receives(fd) => toCli' \in Seq(Reply)
         /\ ReceivesNone => toCli' \in Seq(Reply)
<1>1. ASSUME NEW q \in Seq(Reply)
      PROVE  q # <<>> => Head(q) \in Reply /\ Tail(q) \in Seq(Reply)
  BY <1>1, QueueTypes
<1>2. ASSUME NEW q \in Seq(Reply) PROVE <<Rest>> \o q \in Seq(Reply)
  BY <1>2, QueueTypes, ReplyKinds
<1>3. MixedRead => Tail(Tail(toCli)) \in Seq(Reply)
  <2>1. ASSUME MixedRead PROVE Tail(toCli) \in Seq(Reply) /\ Tail(toCli) # <<>>
    <3>1. toCli # <<>> /\ Len(toCli) \in Nat /\ Len(toCli) > 1
      BY <2>1, EmptySeq, LenProperties DEF MixedRead
    <3>2. 1 \in DOMAIN Tail(toCli)
      BY <3>1, SMT
    <3>3. Tail(toCli) # <<>>
      BY <3>2, DOMAIN <<>> = {}
    <3> QED
      BY <1>1, <3>1, <3>3
  <2> QED
    BY <1>1, <2>1
<1>4. ASSUME MixedRead PROVE toCli' \in Seq(Reply)
  <2>1. CASE toCli[2].kind = "id"
    BY <1>2, <1>3, <1>4, <2>1 DEF MixedRead
  <2>2. CASE toCli[2].kind # "id"
    <3>1. toCli' = <<>> \o Tail(Tail(toCli))
      BY <1>4, <2>2 DEF MixedRead
    <3> QED
      BY <1>3, <1>4, <3>1, ConcatEmptySeq
  <2> QED
    BY <2>1, <2>2
<1>5. ASSUME ReceivesNone PROVE toCli' \in Seq(Reply)
  BY <1>1, <1>2, <1>5, ReplyKinds DEF ReceivesNone
<1> QED
  BY <1>1, <1>4, <1>5 DEF ShortRead, Receives

(* What a write of either side leaves on the sockets.                      *)
LEMMA WriteTypes ==
  ASSUME QueuesOK
  PROVE  /\ \A m \in Command : Append(toSrv, m) \in Seq(Command)
         /\ \A m \in Reply : Append(toCli, m) \in Seq(Reply)
         /\ toSrv # <<>> => Head(toSrv) \in Command /\ Tail(toSrv) \in Seq(Command)
         /\ \A v \in Addrs \cup {Nil} : Send("id", v) => toCli' \in Seq(Reply)
         /\ \A v \in Fd : Send("fd", v) => toCli' \in Seq(Reply)
<1>1. \A m \in Command : Append(toSrv, m) \in Seq(Command)
  BY QueueTypes DEF QueuesOK
<1>2. \A m \in Reply : Append(toCli, m) \in Seq(Reply)
  BY QueueTypes DEF QueuesOK
<1>3. toSrv # <<>> => Head(toSrv) \in Command /\ Tail(toSrv) \in Seq(Command)
  BY QueueTypes DEF QueuesOK
<1> QED
  BY <1>1, <1>2, <1>3, ReplyKinds DEF Send, QueuesOK

(* Every step of clients, helper and environment preserves the types.      *)
LEMMA TypeNext == TypeInv /\ [Next]_vars => TypeInv'
<1> SUFFICES ASSUME TypeInv, [Next]_vars PROVE TypeInv'
    OBVIOUS
<1> USE DEF TypeInv
<1>1. ASSUME NEW c \in Clients, Get(c) PROVE TypeInv'
  <2>1. ClientsOK'
    BY <1>1 DEF Get, Call, ClientsOK, CommandType, tokVars, sockVars,
         srvVars, objVars
  <2> QED
    BY <1>1, <2>1 DEF Get, Call, TokensOK, QueuesOK, HelperOK, CurOK, ptys,
         tokVars, sockVars, srvVars, objVars
<1>2. ASSUME NEW c \in Clients, Login(c) PROVE TypeInv'
  <2>1. ClientsOK'
    BY <1>2 DEF Login, Call, ClientsOK, CommandType, tokVars, sockVars,
         srvVars, objVars
  <2> QED
    BY <1>2, <2>1 DEF Login, Call, TokensOK, QueuesOK, HelperOK, CurOK, ptys,
         tokVars, sockVars, srvVars, objVars
<1>3. ASSUME NEW c \in Clients, Destroy(c) PROVE TypeInv'
  <2>1. ClientsOK'
    BY <1>3 DEF Destroy, Call, ClientsOK, CommandType, tokVars, sockVars,
         srvVars, objVars
  <2> QED
    BY <1>3, <2>1 DEF Destroy, Call, TokensOK, QueuesOK, HelperOK, CurOK,
         ptys, tokVars, sockVars, srvVars, objVars
<1>4. ASSUME NEW c \in Clients, CloseTty(c) PROVE TypeInv'
  <2>1. ClientsOK'
    BY <1>4 DEF CloseTty, ClientsOK, tokVars, sockVars, srvVars, objVars
  <2> QED
    BY <1>4, <2>1 DEF CloseTty, TokensOK, QueuesOK, HelperOK, CurOK, ptys,
         tokVars, sockVars, srvVars, objVars
<1>5. ASSUME NEW c \in Clients, Exit(c) PROVE TypeInv'
  <2>1. ClientsOK'
    BY <1>5 DEF Exit, Gone, RepliesWithout, ClientsOK, tokVars, sockVars,
         srvVars, objVars
  <2>2. QueuesOK'
    BY <1>5 DEF Exit, Gone, RepliesWithout, QueuesOK, tokVars, sockVars,
         srvVars, objVars
  <2> QED
    BY <1>5, <2>1, <2>2 DEF Exit, Gone, RepliesWithout, TokensOK, HelperOK,
         CurOK, ptys, tokVars, sockVars, srvVars, objVars
<1>6. ASSUME NEW c \in Clients, NeedToken(c) PROVE TypeInv'
  <2>1. ClientsOK'
    BY <1>6 DEF NeedToken, ClientsOK, tokVars, sockVars, srvVars, objVars
  <2>2. TokensOK'
    BY <1>6 DEF NeedToken, TokensOK, tokVars, sockVars, srvVars, objVars
  <2> QED
    BY <1>6, <2>1, <2>2 DEF NeedToken, QueuesOK, HelperOK, CurOK, ptys,
         tokVars, sockVars, srvVars, objVars
<1>7. ASSUME NEW c \in Clients, WriteCmd(c) PROVE TypeInv'
  <2>1. ClientsOK'
    BY <1>7 DEF WriteCmd, BrokenPipe, Gone, ClientsOK, tokVars, objVars
  <2>2. ASSUME Up, Len(toSrv) < MaxQueue, UNCHANGED toCli,
               toSrv' = Append(toSrv, [type |-> op[c], from |-> c,
                          id |-> IF op[c] = "get" THEN Nil ELSE id[c]])
        PROVE  QueuesOK'
    <3>1. [type |-> op[c], from |-> c,
           id |-> IF op[c] = "get" THEN Nil ELSE id[c]] \in Command
      BY DEF ClientsOK, Command
    <3> QED
      BY <2>2, <3>1, WriteTypes DEF QueuesOK
  <2>3. ASSUME NEW next, BrokenPipe(c, next) PROVE QueuesOK'
    <3>1. UNCHANGED toSrv /\ toCli' \in {toCli, <<>>}
      BY <2>3 DEF BrokenPipe, Gone, RepliesWithout, sockVars
    <3> QED
      BY <3>1, EmptySeq DEF QueuesOK
  <2>4. QueuesOK'
    BY <1>7, <2>2, <2>3 DEF WriteCmd
  <2> QED
    BY <1>7, <2>1, <2>4 DEF WriteCmd, BrokenPipe, Gone, TokensOK, HelperOK,
                           CurOK, ptys, tokVars, srvVars
<1>8. ASSUME NEW c \in Clients, ReadId(c) PROVE TypeInv'
  <2>1. toCli # <<>> /\ Head(toCli).kind = "id" =>
          Head(toCli).val \in Addrs \cup {Nil}
    BY ReadTypes, ReplyKinds DEF QueuesOK
  <2>2. pc' \in [Clients -> {"idle", "need", "write", "id", "pty", "tty",
                             "give", "gone"}]
    BY <1>8 DEF ReadId, Throw, ClientsOK
  <2>3. id' \in [Clients -> Addrs \cup {Nil}]
    BY <1>8, <2>1 DEF ReadId, ClientsOK
  <2>4. res' \in [Clients -> {"none", "ok", "fail", "threw"}]
    BY <1>8 DEF ReadId, Throw, ClientsOK
  <2>5. QueuesOK'
    BY <1>8, ReadTypes DEF ReadId, QueuesOK
  <2> QED
    BY <1>8, <2>2, <2>3, <2>4, <2>5 DEF ReadId, ClientsOK, TokensOK, HelperOK,
                                       CurOK, ptys, tokVars, srvVars
<1>9. ASSUME NEW c \in Clients, RecvPty(c) PROVE TypeInv'
  <2>1. pty' \in [Clients -> Fd \cup {Nil}]
    BY <1>9 DEF RecvPty, ClientsOK
  <2>2. /\ pc' \in [Clients -> {"idle", "need", "write", "id", "pty", "tty",
                                "give", "gone"}]
        /\ res' \in [Clients -> {"none", "ok", "fail", "threw"}]
    BY <1>9 DEF RecvPty, Throw, ClientsOK
  <2>3. QueuesOK'
    BY <1>9, ReadTypes DEF RecvPty, QueuesOK
  <2> QED
    BY <1>9, <2>1, <2>2, <2>3 DEF RecvPty, ClientsOK, TokensOK, HelperOK,
                                 CurOK, ptys, tokVars, srvVars
<1>10. ASSUME NEW c \in Clients, RecvTty(c) PROVE TypeInv'
  <2>1. tty' \in [Clients -> Fd \cup {Nil}]
    BY <1>10 DEF RecvTty, ClientsOK
  <2>2. /\ pc' \in [Clients -> {"idle", "need", "write", "id", "pty", "tty",
                                "give", "gone"}]
        /\ res' \in [Clients -> {"none", "ok", "fail", "threw"}]
    BY <1>10 DEF RecvTty, Throw, ClientsOK
  <2>3. QueuesOK'
    BY <1>10, ReadTypes DEF RecvTty, QueuesOK
  <2> QED
    BY <1>10, <2>1, <2>2, <2>3 DEF RecvTty, ClientsOK, TokensOK, HelperOK,
                                 CurOK, ptys, tokVars, srvVars
<1>11. ASSUME NEW c \in Clients, GiveToken(c) PROVE TypeInv'
  <2>1. ClientsOK' /\ TokensOK'
    <3>1. ASSUME BrokenPipe(c, "idle") PROVE ClientsOK' /\ TokensOK'
      BY <3>1 DEF BrokenPipe, Gone, ClientsOK, TokensOK, tokVars, objVars
    <3>2. CASE UNCHANGED <<op, pty, tty, res, tokC, sockVars, srvVars>>
      <4>1. TokensOK'
        BY <1>11, <3>1, <3>2 DEF GiveToken, TokensOK
      <4>2. ClientsOK'
        BY <1>11, <3>1, <3>2 DEF GiveToken, ClientsOK
      <4> QED
        BY <4>1, <4>2
    <3> QED
      BY <1>11, <3>1, <3>2 DEF GiveToken
  <2>2. QueuesOK'
    <3>1. UNCHANGED toSrv /\ toCli' \in {toCli, <<>>}
      BY <1>11 DEF GiveToken, BrokenPipe, Gone, RepliesWithout, sockVars
    <3> QED
      BY <3>1, EmptySeq DEF QueuesOK
  <2> QED
    BY <1>11, <2>1, <2>2 DEF GiveToken, BrokenPipe, Gone, HelperOK, CurOK,
         ptys,
                           srvVars
<1>12. ASSUME NEW c \in Clients, KillClient(c) PROVE TypeInv'
  <2>1. ClientsOK'
    BY <1>12 DEF KillClient, Gone, RepliesWithout, ClientsOK, tokVars,
         sockVars, srvVars, objVars
  <2>2. QueuesOK'
    BY <1>12 DEF KillClient, Gone, RepliesWithout, QueuesOK, tokVars,
         sockVars, srvVars, objVars
  <2> QED
    BY <1>12, <2>1, <2>2 DEF KillClient, Gone, RepliesWithout, TokensOK,
         HelperOK, CurOK, ptys, tokVars, sockVars, srvVars, objVars
<1>13. ASSUME NEW c \in Clients, NEW d \in Clients, Fork(c, d) PROVE TypeInv'
  <2>1. ClientsOK'
    BY <1>13 DEF Fork, ClientsOK, tokVars, sockVars, srvVars, objVars
  <2> QED
    BY <1>13, <2>1 DEF Fork, TokensOK, QueuesOK, HelperOK, CurOK, ptys,
         tokVars, sockVars, srvVars, objVars
<1>14. ASSUME SrvGive PROVE TypeInv'
  <2>1. TokensOK'
    BY <1>14 DEF SrvGive, TokensOK, clientVars, objVars, sockVars
  <2>2. HelperOK'
    BY <1>14 DEF SrvGive, HelperOK, CurOK, ptys, clientVars, objVars, sockVars
  <2> QED
    BY <1>14, <2>1, <2>2 DEF SrvGive, ClientsOK, QueuesOK, clientVars,
         objVars, sockVars
<1>15. ASSUME SrvGet PROVE TypeInv'
  <2>1. Head(toSrv) \in Command /\ Tail(toSrv) \in Seq(Command)
    BY <1>15, WriteTypes DEF SrvGet, Reads
  <2>2. PICK a \in Addrs \ ptys, l \in Lines :
          /\ obj' = [obj EXCEPT ![a] = [line |-> l, tty |-> TRUE,
                        cmd_pid |-> FALSE, owner |-> Head(toSrv).from]]
          /\ cur' = a
          /\ Send("id", a)
    BY <1>15 DEF SrvGet
  <2>3. [line |-> l, tty |-> TRUE, cmd_pid |-> FALSE,
         owner |-> Head(toSrv).from] \in Object
    BY <2>1 DEF Object, Command
  <2>4. HelperOK'
    <3>1. obj' \in [Addrs -> Object \cup {Nil}] /\ obj'[a] # Nil
      BY <2>2, <2>3, NilAssumption DEF HelperOK
    <3> QED
      BY <1>15, <2>2, <3>1 DEF SrvGet, HelperOK, CurOK, ptys
  <2>5. QueuesOK'
    BY <1>15, <2>1, <2>2, WriteTypes DEF SrvGet, Reads, QueuesOK
  <2> QED
    BY <1>15, <2>4, <2>5 DEF SrvGet, Reads, ClientsOK, TokensOK, clientVars,
         objVars
<1>16. ASSUME SrvGetFails PROVE TypeInv'
  <2>1. QueuesOK'
    BY <1>16, WriteTypes DEF SrvGetFails, Reads, QueuesOK
  <2> QED
    BY <1>16, <2>1 DEF SrvGetFails, Reads, ClientsOK, TokensOK, HelperOK,
         CurOK,
                     ptys, clientVars, objVars
<1>17. ASSUME SrvSendPty PROVE TypeInv'
  <2>1. cur \in Addrs /\ obj[cur] \in Object
    BY <1>17 DEF SrvSendPty, HelperOK, CurOK, ptys
  <2>2. Master(obj[cur].line) \in Fd
    BY <2>1 DEF Master, Fd, Object
  <2>3. QueuesOK'
    BY <1>17, <2>2, WriteTypes DEF SrvSendPty, QueuesOK
  <2> QED
    BY <1>17, <2>3 DEF SrvSendPty, ClientsOK, TokensOK, HelperOK, CurOK, ptys,
                     clientVars, objVars
<1>18. ASSUME SrvSendTty PROVE TypeInv'
  <2>1. cur \in Addrs /\ obj[cur] \in Object
    BY <1>18 DEF SrvSendTty, HelperOK, CurOK, ptys
  <2>2. Slave(obj[cur].line) \in Fd
    BY <2>1 DEF Slave, Fd, Object
  <2>3. QueuesOK'
    BY <1>18, <2>2, WriteTypes DEF SrvSendTty, QueuesOK
  <2>4. HelperOK'
    BY <1>18, <2>1 DEF SrvSendTty, HelperOK, CurOK, Object
  <2> QED
    BY <1>18, <2>3, <2>4 DEF SrvSendTty, ClientsOK, TokensOK, clientVars,
         objVars
<1>19. ASSUME SrvLogin PROVE TypeInv'
  <2>1. QueuesOK'
    BY <1>19, WriteTypes DEF SrvLogin, Reads, QueuesOK
  <2>2. CASE Head(toSrv).id \in ptys
    <3> DEFINE a == Head(toSrv).id
    <3>1. a \in Addrs /\ obj[a] \in Object
      BY <2>2 DEF HelperOK, ptys
    <3>2. obj' = [obj EXCEPT ![a].cmd_pid = TRUE] /\ utmp' = utmp \cup {obj[a].line}
      BY <1>19, <2>2 DEF SrvLogin
    <3>3. [obj[a] EXCEPT !.cmd_pid = TRUE] \in Object /\ obj[a].line \in Lines
      BY <3>1 DEF Object
    <3> QED
      BY <1>19, <2>1, <3>1, <3>2, <3>3 DEF SrvLogin, Reads, HelperOK, CurOK,
           ClientsOK, TokensOK, clientVars, objVars
  <2>3. CASE Head(toSrv).id \notin ptys
    BY <1>19, <2>1, <2>3 DEF SrvLogin, Reads, HelperOK, CurOK, ClientsOK,
           TokensOK, clientVars, objVars
  <2> QED
    BY <2>2, <2>3
<1>20. ASSUME SrvDestroy PROVE TypeInv'
  <2>1. QueuesOK'
    BY <1>20, QueueTypes, ReplyKinds DEF SrvDestroy, Reads, Delete, QueuesOK,
         HelperOK, clientVars, objVars, sockVars
  <2>2. HelperOK'
    BY <1>20 DEF SrvDestroy, Reads, Delete, HelperOK, CurOK, ptys, Object,
         clientVars, objVars, sockVars
  <2> QED
    BY <1>20, <2>1, <2>2 DEF SrvDestroy, Reads, Delete, ClientsOK, TokensOK,
         clientVars, objVars, sockVars
<1>21. ASSUME SrvNeed PROVE TypeInv'
  <2>1. TokensOK'
    BY <1>21 DEF SrvNeed, TokensOK, clientVars, objVars, sockVars
  <2>2. HelperOK'
    BY <1>21 DEF SrvNeed, HelperOK, CurOK, ptys, clientVars, objVars, sockVars
  <2> QED
    BY <1>21, <2>1, <2>2 DEF SrvNeed, ClientsOK, QueuesOK, clientVars,
         objVars, sockVars
<1>22. ASSUME SrvEof PROVE TypeInv'
  <2>1. HelperOK'
    BY <1>22 DEF SrvEof, HelperOK, CurOK, ptys, clientVars, objVars, sockVars
  <2> QED
    BY <1>22, <2>1 DEF SrvEof, ClientsOK, TokensOK, QueuesOK, clientVars,
         objVars, sockVars
<1>23. ASSUME SrvReap PROVE TypeInv'
  <2>1. HelperOK'
    BY <1>23 DEF SrvReap, Delete, HelperOK, CurOK, ptys, Object, clientVars,
         objVars, sockVars
  <2> QED
    BY <1>23, <2>1 DEF SrvReap, Delete, ClientsOK, TokensOK, QueuesOK,
         clientVars, objVars, sockVars
<1>24. ASSUME KillHelper PROVE TypeInv'
  <2>1. QueuesOK'
    BY <1>24 DEF KillHelper, Up, QueuesOK, clientVars, objVars, sockVars
  <2>2. HelperOK'
    BY <1>24 DEF KillHelper, Up, HelperOK, CurOK, ptys, clientVars, objVars,
         sockVars
  <2> QED
    BY <1>24, <2>1, <2>2 DEF KillHelper, Up, ClientsOK, TokensOK, clientVars,
         objVars, sockVars
<1>25. CASE UNCHANGED vars
  BY <1>25 DEF ClientsOK, TokensOK, QueuesOK, HelperOK, CurOK, ptys, vars,
       objVars, tokVars, sockVars, srvVars
<1> QED
  BY <1>1, <1>2, <1>3, <1>4, <1>5, <1>6, <1>7, <1>8, <1>9, <1>10, <1>11,
       <1>12, <1>13, <1>14, <1>15, <1>16, <1>17, <1>18, <1>19, <1>20, <1>21,
  <1>22, <1>23, <1>24, <1>25 DEF Next, User, Client, Helper, Ended

(* Every variable keeps its type, whatever misfortune strikes.             *)
THEOREM TypeCorrect == Spec => []TypeOK
<1> DEFINE BuildOK == reentrant \in BOOLEAN
<1>1. TypeInv /\ BuildOK => TypeOK
  BY DEF TypeInv, TypeOK, ClientsOK, TokensOK, QueuesOK, HelperOK
<1>2. Init => BuildOK
  BY ConstantAssumption DEF Init
<1>3. BuildOK /\ [Next]_vars => BuildOK'
  BY DEF Next, vars
<1> HIDE DEF BuildOK
<1> QED
  BY <1>1, <1>2, <1>3, TypeInit, TypeNext, PTL DEF Spec

-----------------------------------------------------------------------------
(***************************************************************************)
(* Mutual exclusion.  With PTYTTY_REENTRANT there is one token: it is in   *)
(* flight, or a client holds it, or the helper does, which then either     *)
(* hands it out (srv = "give") or has no client left to wait for.          *)
(* Without, the application has one call under way at a time.              *)
(***************************************************************************)
OneToken ==
  /\ tokC + tokS <= 1
  /\ \A c \in Clients : holds[c] => tokC = 0 /\ tokS = 0
  /\ \A c, d \in Clients : holds[c] /\ holds[d] => c = d
  /\ srv = "give" /\ ~ClientsGone =>
       tokC = 0 /\ tokS = 0 /\ \A c \in Clients : ~holds[c]

CallersHold == Up => \A c \in Clients : InCall(c) => holds[c]

OneCall ==
  \A c, d \in Clients :
    pc[c] \notin {"idle", "gone"} /\ pc[d] \notin {"idle", "gone"} => c = d

ExclusionInv ==
  IF reentrant THEN OneToken /\ CallersHold ELSE OneCall

(* Before the first step the helper has the token and nobody is in a call. *)
LEMMA ExclusionInit == Init => ExclusionInv
BY DEF Init, ExclusionInv, OneToken, CallersHold, OneCall, InCall

(* While no signal interrupts a read, no step forges a second token.       *)
LEMMA ExclusionNext ==
  "eintr" \notin Env /\ TypeInv /\ ExclusionInv /\ [Next]_vars => ExclusionInv'
<1> SUFFICES ASSUME "eintr" \notin Env, TypeInv, ExclusionInv, [Next]_vars
             PROVE  ExclusionInv'
    OBVIOUS
<1> USE ConstantAssumption DEF TypeInv, ClientsOK, TokensOK
<1>0. UNCHANGED reentrant
  BY DEF Next, vars
<1>1. CASE ~reentrant
  <2>1. OneCall'
    <3> USE <1>1 DEF ExclusionInv, OneCall, vars, objVars, tokVars, sockVars, srvVars, clientVars
    <3>1. ASSUME NEW c \in Clients, User(c) PROVE OneCall'
      BY <3>1 DEF User, Get, Login, Destroy, Call, CloseTty, Exit, Gone
    <3>2. ASSUME NEW c \in Clients, Client(c) \/ KillClient(c) PROVE OneCall'
      BY <3>2 DEF Client, NeedToken, WriteCmd, BrokenPipe, ReadId, Throw,
                  RecvPty, RecvTty, GiveToken, KillClient, Gone
    <3>3. ASSUME UNCHANGED pc PROVE OneCall'
      BY <3>3
    <3>4. Helper \/ KillHelper \/ UNCHANGED vars => UNCHANGED pc
      BY DEF Helper, SrvGive, SrvGet, SrvGetFails, SrvSendPty, SrvSendTty,
             SrvLogin, SrvDestroy, SrvNeed, SrvEof, SrvReap, Reads, KillHelper
    <3>5. ASSUME NEW c \in Clients, NEW d \in Clients, Fork(c, d) PROVE UNCHANGED pc
      BY <3>5 DEF Fork
    <3> QED
      BY <3>1, <3>2, <3>3, <3>4, <3>5 DEF Next, Ended
  <2> QED
    BY <1>0, <1>1, <2>1 DEF ExclusionInv
<1>2. CASE reentrant
  <2> USE <1>2
  <2>1. OneToken'
    <3> USE DEF ExclusionInv, OneToken, CallersHold
    <3>1. ASSUME NEW c \in Clients, NeedToken(c) PROVE OneToken'
      BY <3>1 DEF NeedToken, ClientsGone, srvVars
    <3>2. ASSUME NEW c \in Clients, GiveToken(c) PROVE OneToken'
      BY <3>2 DEF GiveToken, BrokenPipe, Gone, InCall, Up, ClientsGone, srvVars, tokVars
    <3>3. SrvGive => OneToken'
      BY DEF SrvGive, ClientsGone, clientVars
    <3>4. SrvNeed => OneToken'
      BY DEF SrvNeed, ClientsGone, clientVars
    <3>5. ASSUME UNCHANGED tokVars, srv' = "give" => srv = "give",
                 ClientsGone => ClientsGone'
          PROVE  OneToken'
      BY <3>5 DEF tokVars
    <3>6. ASSUME NEW c \in Clients,
                 User(c) \/ WriteCmd(c) \/ ReadId(c) \/ RecvPty(c)
                   \/ RecvTty(c) \/ KillClient(c)
          PROVE  /\ UNCHANGED tokVars /\ srv' = srv
                 /\ ClientsGone => ClientsGone'
      BY <3>6 DEF User, Get, Login, Destroy, Call, CloseTty, Exit, Gone,
                  WriteCmd, BrokenPipe, ReadId, RecvPty, RecvTty, KillClient,
                  ClientsGone, srvVars
    <3>7. ASSUME \/ SrvGet \/ SrvGetFails \/ SrvSendPty \/ SrvSendTty
                 \/ SrvLogin \/ SrvDestroy \/ SrvEof \/ SrvReap \/ KillHelper
                 \/ UNCHANGED vars
                 \/ \E c, d \in Clients : Fork(c, d)
          PROVE  /\ UNCHANGED <<tokVars, pc>>
                 /\ srv' = "give" => srv = "give"
      BY <3>7 DEF SrvGet, SrvGetFails, SrvSendPty, SrvSendTty, SrvLogin,
                  SrvDestroy, SrvEof, SrvReap, Reads, KillHelper, Fork,
                  clientVars, srvVars, tokVars, vars
    <3>8. UNCHANGED pc => (ClientsGone => ClientsGone')
      BY DEF ClientsGone
    <3> QED
      BY <3>1, <3>2, <3>3, <3>4, <3>5, <3>6, <3>7, <3>8
      DEF Next, Client, Helper, Ended
  <2>2. CallersHold'
    <3> USE DEF ExclusionInv, CallersHold, InCall
    <3>1. ASSUME NEW c \in Clients, NeedToken(c) PROVE CallersHold'
      BY <3>1 DEF NeedToken, Up, srvVars
    <3>2. ASSUME NEW c \in Clients, GiveToken(c) PROVE CallersHold'
      BY <3>2 DEF GiveToken, BrokenPipe, Up, srvVars, Gone
    <3>3. ASSUME NEW c \in Clients,
                 User(c) \/ WriteCmd(c) \/ ReadId(c) \/ RecvPty(c)
                   \/ RecvTty(c) \/ KillClient(c)
          PROVE  CallersHold'
      <4>1. UNCHANGED <<holds, srv>>
        BY <3>3 DEF User, Get, Login, Destroy, Call, CloseTty, Exit, Gone,
                    WriteCmd, BrokenPipe, ReadId, RecvPty, RecvTty, KillClient,
                    tokVars, srvVars
      <4>2. \A d \in Clients : InCall(d)' => InCall(d)
        BY <3>3 DEF User, Get, Login, Destroy, Call, CloseTty, Exit, Gone,
                    WriteCmd, BrokenPipe, ReadId, Throw, RecvPty, RecvTty,
                    KillClient
      <4> QED
        BY <4>1, <4>2 DEF Up
    <3>4. ASSUME Helper \/ KillHelper \/ UNCHANGED vars
                   \/ \E c, d \in Clients : Fork(c, d)
          PROVE  UNCHANGED <<holds, pc>> /\ (Up' => Up)
      BY <3>4 DEF Helper, SrvGive, SrvGet, SrvGetFails, SrvSendPty, SrvSendTty,
                  SrvLogin, SrvDestroy, SrvNeed, SrvEof, SrvReap, Reads,
                  KillHelper, Fork, Up, clientVars, srvVars, tokVars, vars
    <3> QED
      BY <3>1, <3>2, <3>3, <3>4 DEF Next, Client, Ended
  <2> QED
    BY <1>0, <2>1, <2>2 DEF ExclusionInv
<1> QED
  BY <1>1, <1>2

(* While the helper lives, two clients are never between NEED_TOKEN and    *)
(* GIVE_TOKEN, for any number of clients, with or without PTYTTY_REENTRANT *)
(* and under every misfortune but an interrupted read of the token.        *)
THEOREM Exclusion ==
  ASSUME "eintr" \notin Env
  PROVE  Spec => []MutualExclusion
<1>1. ExclusionInv => MutualExclusion
  BY DEF ExclusionInv, OneToken, CallersHold, OneCall, MutualExclusion, InCall
<1>2. Init => TypeInv /\ ExclusionInv
  BY TypeInit, ExclusionInit
<1>3. TypeInv /\ ExclusionInv /\ [Next]_vars => (TypeInv /\ ExclusionInv)'
  BY TypeNext, ExclusionNext
<1> QED
  BY <1>1, <1>2, <1>3, PTL DEF Spec

-----------------------------------------------------------------------------
(***************************************************************************)
(* The session database.  A new object takes a line that no other object   *)
(* has, so the record that the destructor of one object removes was never  *)
(* written for another.                                                    *)
(***************************************************************************)
LinesApart == \A a, b \in ptys : obj[a].line = obj[b].line => a = b

SessionInv == srv # "killed" => LinesApart /\ SessionsTracked

(* At the start there are neither objects nor sessions.                    *)
LEMMA SessionInit == Init => SessionInv
BY DEF Init, SessionInv, LinesApart, SessionsTracked, ptys

(* Deleting an object takes its own session with it, and no other.         *)
LEMMA DeleteSessions ==
  ASSUME TypeInv, LinesApart, SessionsTracked, srv # "killed",
         NEW a \in ptys, Delete(a)
  PROVE  (LinesApart /\ SessionsTracked)'
<1> USE DEF TypeInv, HelperOK, ptys
<1>1. ptys' = ptys \ {a} /\ \A b \in ptys' : obj'[b] = obj[b]
  BY DEF Delete
<1>2. LinesApart'
  BY <1>1 DEF LinesApart
<1>3. ASSUME NEW l \in Lines
      PROVE  l \in utmp' <=> \E b \in ptys' : obj'[b].line = l /\ obj'[b].cmd_pid
  BY <1>1 DEF Delete, LinesApart, SessionsTracked
<1>4. utmp' \subseteq Lines
  BY DEF Delete
<1> QED
  BY <1>2, <1>3, <1>4 DEF SessionsTracked

(* No step leaves a record that the helper would not remove.               *)
LEMMA SessionNext == TypeInv /\ SessionInv /\ [Next]_vars => SessionInv'
<1> SUFFICES ASSUME TypeInv, SessionInv, [Next]_vars, srv' # "killed"
             PROVE  (LinesApart /\ SessionsTracked)'
    BY DEF SessionInv
<1> USE NilAssumption DEF TypeInv, HelperOK
<1>1. CASE UNCHANGED <<obj, utmp>> /\ (srv = "killed" => srv' = "killed")
  BY <1>1 DEF SessionInv, LinesApart, SessionsTracked, ptys
<1>2. ASSUME NEW c \in Clients, User(c) \/ Client(c) \/ KillClient(c)
      PROVE  UNCHANGED srvVars
  BY <1>2 DEF User, Get, Login, Destroy, Call, CloseTty, Exit, Gone, Client,
              NeedToken, WriteCmd, BrokenPipe, ReadId, RecvPty, RecvTty,
              GiveToken, KillClient
<1>3. ASSUME NEW c \in Clients, NEW d \in Clients, Fork(c, d)
      PROVE  UNCHANGED srvVars
  BY <1>3 DEF Fork
<1>4. CASE SrvGet
  <2>1. PICK a \in Addrs \ ptys, l \in {k \in Lines : ~InUse(k)} :
          obj' = [obj EXCEPT ![a] = [line |-> l, tty |-> TRUE,
                    cmd_pid |-> FALSE, owner |-> Head(toSrv).from]]
    BY <1>4 DEF SrvGet
  <2>2. Head(toSrv).from \in Clients
    BY <1>4, WriteTypes DEF SrvGet, Reads, Command
  <2>3. /\ obj'[a].line = l /\ ~obj'[a].cmd_pid
        /\ ptys' \subseteq ptys \cup {a} /\ ptys \subseteq ptys'
        /\ \A b \in ptys : obj'[b] = obj[b] /\ obj[b].line # l
    BY <2>1, <2>2 DEF ptys, InUse, Object
  <2> QED
    BY <1>4, <2>3 DEF SrvGet, Reads, SessionInv, LinesApart, SessionsTracked
<1>5. CASE SrvSendTty
  <2>1. cur \in ptys /\ obj[cur] \in Object
    BY <1>5 DEF SrvSendTty, CurOK, ptys
  <2>2. obj' = [obj EXCEPT ![cur].tty = FALSE] /\ UNCHANGED utmp /\ srv # "killed"
    BY <1>5 DEF SrvSendTty
  <2>3. \A b \in Addrs \ {cur} : obj'[b] = obj[b]
    BY <2>1, <2>2 DEF ptys
  <2>4. obj'[cur] = [obj[cur] EXCEPT !.tty = FALSE]
    BY <2>1, <2>2 DEF ptys
  <2>5. obj'[cur] \in Object /\ obj'[cur].line = obj[cur].line /\ obj'[cur].cmd_pid = obj[cur].cmd_pid
    BY <2>1, <2>4 DEF Object
  <2>6. ptys' = ptys
    BY <2>1, <2>3, <2>5 DEF ptys
  <2>7. \A b \in ptys : obj'[b].line = obj[b].line /\ obj'[b].cmd_pid = obj[b].cmd_pid
    BY <2>3, <2>5 DEF ptys
  <2> QED
    BY <2>2, <2>6, <2>7 DEF SessionInv, LinesApart, SessionsTracked
<1>6. CASE SrvLogin
  <2> DEFINE a == Head(toSrv).id
  <2>1. CASE a \notin ptys
    BY <1>1, <1>6, <2>1 DEF SrvLogin, Reads
  <2>2. CASE a \in ptys
    <3>1. obj' = [obj EXCEPT ![a].cmd_pid = TRUE] /\ utmp' = utmp \cup {obj[a].line}
      BY <1>6, <2>2 DEF SrvLogin
    <3>2. a \in Addrs /\ obj[a] \in Object
      BY <2>2 DEF ptys
    <3> HIDE DEF a
    <3>3. /\ ptys' = ptys /\ obj'[a].cmd_pid
          /\ \A b \in ptys : /\ obj'[b].line = obj[b].line
                             /\ b # a => obj'[b].cmd_pid = obj[b].cmd_pid
      <4>1. obj'[a] = [obj[a] EXCEPT !.cmd_pid = TRUE] /\ \A b \in Addrs : b # a => obj'[b] = obj[b]
        BY <3>1, <3>2, NilAssumption
      <4>2. obj'[a].cmd_pid /\ obj'[a].line = obj[a].line /\ obj'[a] \in Object
        BY <3>2, <4>1 DEF Object
      <4>3. ptys' = ptys
        BY <3>2, <4>1, <4>2, NilAssumption DEF ptys
      <4>4. \A b \in ptys : b \in Addrs
        BY DEF ptys
      <4>5. QED BY <4>1, <4>2, <4>3, <4>4
    <3>4. obj[a].line \in Lines
      BY <3>2 DEF Object
    <3> QED
      BY <1>6, <2>2, <3>1, <3>3, <3>4
      DEF SrvLogin, Reads, SessionInv, LinesApart, SessionsTracked
  <2> QED
    BY <2>1, <2>2
<1>7. CASE SrvDestroy
  <2>1. CASE Head(toSrv).id \in ptys
    BY <1>7, <2>1, DeleteSessions DEF SrvDestroy, Reads, SessionInv
  <2>2. CASE Head(toSrv).id \notin ptys
    BY <1>1, <1>7, <2>2 DEF SrvDestroy, Reads
  <2> QED
    BY <2>1, <2>2
<1>8. CASE SrvReap
  <2>1. CASE ptys = {}
    BY <1>1, <1>8, <2>1 DEF SrvReap
  <2>2. CASE ptys # {}
    BY <1>8, <2>2, DeleteSessions DEF SrvReap, SessionInv
  <2> QED
    BY <2>1, <2>2
<1>9. SrvGive \/ SrvGetFails \/ SrvSendPty \/ SrvNeed \/ SrvEof
        => UNCHANGED <<obj, utmp>> /\ srv # "killed"
  BY DEF SrvGive, SrvGetFails, Reads, SrvSendPty, SrvNeed, SrvEof
<1>10. ~KillHelper
  BY DEF KillHelper
<1>11. UNCHANGED vars => UNCHANGED srvVars
  BY DEF vars
<1> QED
  BY <1>1, <1>2, <1>3, <1>4, <1>5, <1>6, <1>7, <1>8, <1>9, <1>10, <1>11
  DEF Next, Helper, Ended, srvVars

(* The helper, until it is killed, can end every session on record, and it *)
(* never ends the session of another pty: whatever the clients do.         *)
THEOREM SessionsStayTracked == Spec => []SessionsTracked
<1>1. SessionInv /\ srv # "killed" => SessionsTracked
  BY DEF SessionInv
<1>2. SessionInv => SessionsTracked
  BY <1>1 DEF SessionsTracked
<1>3. Init => TypeInv /\ SessionInv
  BY TypeInit, SessionInit
<1>4. TypeInv /\ SessionInv /\ [Next]_vars => (TypeInv /\ SessionInv)'
  BY TypeNext, SessionNext
<1> QED
  BY <1>2, <1>3, <1>4, PTL DEF Spec

-----------------------------------------------------------------------------
(***************************************************************************)
(* Where each call is, for every number of clients, addresses and lines.   *)
(* A call of ptytty_proxy is a talk of two processes over a byte stream    *)
(* that says neither whose bytes it carries nor how many are to come.  The *)
(* invariant of this part is what both ends know of that talk: with the    *)
(* token, that there is only one; then, at each point of get's exchange,   *)
(* what can be on the socket and where the helper is in its answer.  From  *)
(* it follows that a token that can be read means a quiet socket.          *)
(***************************************************************************)

(* The messages of get: the id, the two descriptors, and the command that  *)
(* asks for them.                                                          *)
Id(a)  == [kind |-> "id", val |-> a]
Pty(l) == [kind |-> "fd", val |-> Master(l)]
Tty(l) == [kind |-> "fd", val |-> Slave(l)]
GetFrom(c) == [type |-> "get", from |-> c, id |-> Nil]

(* Only in a reentrant build can a call that receives nothing, or is       *)
(* killed, leave bytes behind for a later one to meet: without             *)
(* PTYTTY_REENTRANT nothing drains the socket.                             *)
Calm == reentrant \/ Env \cap {"recv_fd", "kill_client"} = {}

(* No get is queued; the helper is between the two descriptors of one; it  *)
(* is anywhere else in its loop.                                           *)
NoGet == \A i \in DOMAIN toSrv : toSrv[i].type # "get"
Sending == srv \in {"pty", "tty"}
Between == srv \in {"need", "give", "read"}

(* No answer is due any more: with a token, the token is on its way back,  *)
(* or the one caller has not written yet or has read all there is to read; *)
(* without one, nobody is in the exchange of get.                          *)
TalkOver ==
  IF reentrant
  THEN tokC > 0 \/ tokS > 0 \/ srv = "give" \/ \E c \in Clients : pc[c] \in {"write", "give"}
  ELSE \A c \in Clients : pc[c] \notin {"id", "pty", "tty"}

(* The socket holds nothing that a get would read.                         *)
Clear == toCli = <<>> /\ ~Sending /\ NoGet

(* What the client of a get may still have to read once it has the id:     *)
(* what was sent of the descriptors of line l, the first of which may not  *)
(* have arrived.                                                           *)
Sent(q, l) ==
  \/ q = <<>>
  \/ srv # "pty" /\ q = <<Pty(l)>>
  \/ Between /\ q \in {<<Tty(l)>>, <<Pty(l), Tty(l)>>}

(* The same before it has read the id, the address a.                      *)
Answered(a, l) ==
  \/ toCli = <<Id(a)>>
  \/ srv # "pty" /\ toCli = <<Id(a), Pty(l)>>
  \/ Between /\ toCli \in {<<Id(a), Tty(l)>>, <<Id(a), Pty(l), Tty(l)>>}

(* The helper has taken c's get off the socket, and cur is the object it   *)
(* created for it.                                                         *)
Serves(c) ==
  /\ Sending \/ Between
  /\ toSrv = <<>>
  /\ cur \in ptys /\ obj[cur].owner = c

(* The get of c is the last command queued, behind orders only.            *)
Asks(c) ==
  /\ Between /\ toCli = <<>> /\ toSrv # <<>>
  /\ toSrv[Len(toSrv)] = GetFrom(c)
  /\ \A i \in DOMAIN toSrv : i # Len(toSrv) => toSrv[i].type # "get"

(* The helper has answered that it has no pty.                             *)
Refused == Between /\ toSrv = <<>> /\ toCli = <<Id(Nil)>>

(* A client that waits for the pty has the id of the object that is        *)
(* served.                                                                 *)
GetsPty(c) == Serves(c) /\ id[c] = cur /\ Sent(toCli, obj[cur].line)

(* One that waits for the tty holds the pty of its line, or took the tty   *)
(* for it because the pty was not sent; then nothing more comes.           *)
GetsTty(c) ==
  /\ Serves(c) /\ id[c] = cur
  /\ \/ /\ pty[c] = Master(obj[cur].line)
        /\ \/ srv = "tty" /\ toCli = <<>>
           \/ Between /\ toCli \in {<<>>, <<Tty(obj[cur].line)>>}
     \/ /\ pty[c] = Slave(obj[cur].line)
        /\ Between /\ toCli = <<>>

(* Where the exchange of get is, as its client and the helper agree on it. *)
Phase(c) ==
  /\ pc[c] = "id"  => Asks(c) \/ Refused \/ (Serves(c) /\ Answered(cur, obj[cur].line))
  /\ pc[c] = "pty" => GetsPty(c)
  /\ pc[c] = "tty" => GetsTty(c)

(* With the token one command at a time is under way: the client that may  *)
(* write finds the helper waiting for it, and nothing on the socket.       *)
OneAtATime ==
  reentrant /\ Up =>
    /\ toSrv # <<>> => srv = "read" /\ Len(toSrv) = 1 /\ toCli = <<>>
    /\ \A c \in Clients : pc[c] = "write" => srv = "read" /\ toSrv = <<>>

(* The helper ends only when no client is left, and what it leaves behind  *)
(* is empty.                                                               *)
Ends ==
  /\ srv \in {"reap", "exit"} => ClientsGone
  /\ srv \in {"reap", "exit", "killed"} => toSrv = <<>>
  /\ ClientsGone => toCli = <<>>

(* A token to read means a quiet socket, and a helper that waits.          *)
TokenQuiet ==
  tokC > 0 => reentrant /\ toSrv = <<>> /\ toCli = <<>> /\ (Up => srv \in {"read", "reap"})

(* While the helper lives, the exchange of every client is in its phase,   *)
(* and between exchanges the socket is clear.                              *)
PhaseInv == Calm /\ Up => (TalkOver => Clear) /\ \A c \in Clients : Phase(c)

(* The sequences of up to three messages.                                  *)
LEMMA Tuples ==
  \A x, y, z :
    /\ Head(<<x>>) = x /\ Head(<<x, y>>) = x /\ Head(<<x, y, z>>) = x
    /\ Tail(<<x>>) = <<>> /\ Tail(<<x, y>>) = <<y>> /\ Tail(<<x, y, z>>) = <<y, z>>
    /\ Append(<<>>, x) = <<x>> /\ Append(<<x>>, y) = <<x, y>> /\ Append(<<x, y>>, z) = <<x, y, z>>
    /\ <<x>> # <<>> /\ <<x, y>> # <<>> /\ <<x, y, z>> # <<>>
    /\ Len(<<x>>) = 1 /\ Len(<<x, y>>) = 2
<1> TAKE x, y, z
<1>1. Head(<<x>>) = x /\ Head(<<x, y>>) = x /\ Head(<<x, y, z>>) = x
  OBVIOUS
<1>2. Tail(<<x>>) = <<>>
  OBVIOUS
<1>3. Tail(<<x, y>>) = <<y>>
  OBVIOUS
<1>4. Tail(<<x, y, z>>) = <<y, z>>
  OBVIOUS
<1>5. Append(<<>>, x) = <<x>>
  OBVIOUS
<1>6. Append(<<x>>, y) = <<x, y>>
  <2>1. <<x>> \in Seq({x, y}) /\ <<x, y>> \in Seq({x, y})
    OBVIOUS
  <2>2. Append(<<x>>, y) \in Seq({x, y}) /\ Len(Append(<<x>>, y)) = 2
    BY <2>1, AppendProperties
  <2>3. \A i \in 1..2 : Append(<<x>>, y)[i] = <<x, y>>[i]
    BY <2>1, AppendProperties
  <2> QED
    BY <2>1, <2>2, <2>3, SeqEqual
<1>7. Append(<<x, y>>, z) = <<x, y, z>>
  <2>1. <<x, y>> \in Seq({x, y, z}) /\ <<x, y, z>> \in Seq({x, y, z})
    OBVIOUS
  <2>2. /\ Append(<<x, y>>, z) \in Seq({x, y, z})
        /\ Len(Append(<<x, y>>, z)) = 3
    BY <2>1, AppendProperties
  <2>3. \A i \in 1..3 : Append(<<x, y>>, z)[i] = <<x, y, z>>[i]
    BY <2>1, AppendProperties
  <2> QED
    BY <2>1, <2>2, <2>3, SeqEqual
<1>8. <<x>> # <<>> /\ <<x, y>> # <<>> /\ <<x, y, z>> # <<>>
  OBVIOUS
<1>9. Len(<<x>>) = 1 /\ Len(<<x, y>>) = 2
  OBVIOUS
<1> QED
  BY <1>1, <1>2, <1>3, <1>4, <1>5, <1>6, <1>7, <1>8, <1>9

(* What a reader of the stream tells apart. *)
LEMMA Messages ==
  /\ \A a : Id(a).kind = "id" /\ Id(a).val = a
  /\ \A l : Pty(l).kind = "fd" /\ Pty(l).val = Master(l)
  /\ \A l : Tty(l).kind = "fd" /\ Tty(l).val = Slave(l)
  /\ \A fd, l : [kind |-> "fd", val |-> fd] = Pty(l) => fd = Master(l)
  /\ \A fd, l : [kind |-> "fd", val |-> fd] = Tty(l) => fd = Slave(l)
  /\ \A a : Id(a) # Rest
  /\ \A l : Pty(l) # Rest /\ Tty(l) # Rest
  /\ \A l, k : Master(l) # Slave(k)
  /\ \A l, k : Master(l) = Master(k) => l = k
  /\ \A a, b : Id(a) = Id(b) => a = b
BY DEF Id, Pty, Tty, Rest, Master, Slave

(* A command leaves at the front of the queue and joins at its end.        *)
LEMMA Commands ==
  ASSUME NEW q \in Seq(Command)
  PROVE  /\ \A m \in Command :
              /\ Append(q, m) \in Seq(Command)
              /\ Append(q, m) # <<>>
              /\ Len(Append(q, m)) = Len(q) + 1
              /\ DOMAIN Append(q, m) = 1 .. Len(q) + 1
              /\ Append(q, m)[Len(q) + 1] = m
              /\ \A i \in DOMAIN q : Append(q, m)[i] = q[i]
         /\ DOMAIN q = 1 .. Len(q) /\ Len(q) \in Nat
         /\ Len(q) = 0 <=> q = <<>>
         /\ \A i \in DOMAIN q : q[i] \in Command
         /\ q # <<>> =>
              /\ Head(q) \in Command /\ Head(q) = q[1]
              /\ Tail(q) \in Seq(Command) /\ Len(Tail(q)) = Len(q) - 1
              /\ \A i \in DOMAIN Tail(q) : i + 1 \in DOMAIN q /\ Tail(q)[i] = q[i + 1]
<1>1. DOMAIN q = 1 .. Len(q) /\ Len(q) \in Nat /\ \A i \in DOMAIN q : q[i] \in Command
  BY LenProperties, ElementOfSeq
<1>2. Len(q) = 0 <=> q = <<>>
  BY EmptySeq, LenProperties
<1>3. ASSUME NEW m \in Command
      PROVE  /\ Append(q, m) \in Seq(Command)
             /\ Append(q, m) # <<>>
             /\ Len(Append(q, m)) = Len(q) + 1
             /\ DOMAIN Append(q, m) = 1 .. Len(q) + 1
             /\ Append(q, m)[Len(q) + 1] = m
             /\ \A i \in DOMAIN q : Append(q, m)[i] = q[i]
  <2>1. /\ Append(q, m) \in Seq(Command)
        /\ Len(Append(q, m)) = Len(q) + 1
        /\ \A i \in 1 .. Len(q) : Append(q, m)[i] = q[i]
        /\ Append(q, m)[Len(q) + 1] = m
    BY AppendProperties
  <2>2. Append(q, m) # <<>>
    BY <1>1, <2>1, EmptySeq
  <2>3. DOMAIN Append(q, m) = 1 .. Len(Append(q, m))
    BY <2>1, LenProperties
  <2> QED
    BY <1>1, <2>1, <2>2, <2>3
<1>4. ASSUME q # <<>>
      PROVE  /\ Head(q) \in Command /\ Head(q) = q[1]
             /\ Tail(q) \in Seq(Command) /\ Len(Tail(q)) = Len(q) - 1
             /\ \A i \in DOMAIN Tail(q) : i + 1 \in DOMAIN q /\ Tail(q)[i] = q[i + 1]
  <2>1. /\ Head(q) \in Command
        /\ Tail(q) \in Seq(Command) /\ Len(Tail(q)) = Len(q) - 1
        /\ \A i \in 1 .. Len(Tail(q)) : Tail(q)[i] = q[i + 1]
    BY <1>4, HeadTailProperties
  <2>2. Head(q) = q[1]
    BY <1>4
  <2>3. DOMAIN Tail(q) = 1 .. Len(q) - 1
    BY <2>1, LenProperties
  <2> QED
    BY <1>1, <2>1, <2>2, <2>3
<1> QED
  BY <1>1, <1>2, <1>3, <1>4

(* The inductive invariant of a call.                                      *)
CallInv == OneAtATime /\ Ends /\ TokenQuiet /\ PhaseInv

(* Of the clients in a call, while the helper lives, there is one; whether *)
(* it still has an answer to come decides whether the talk is over.        *)
LEMMA Alone ==
  ASSUME TypeInv, ExclusionInv, Up, NEW c \in Clients, InCall(c)
  PROVE  /\ \A d \in Clients \ {c} : ~InCall(d)
         /\ reentrant => tokC = 0 /\ tokS = 0 /\ srv # "give"
         /\ pc[c] \in {"write", "give"} => TalkOver
         /\ pc[c] \in {"id", "pty", "tty"} => ~TalkOver
<1>1. \A d \in Clients \ {c} : ~InCall(d)
  BY DEF ExclusionInv, OneToken, CallersHold, OneCall, InCall
<1>2. reentrant => tokC = 0 /\ tokS = 0 /\ srv # "give"
  BY DEF ExclusionInv, OneToken, CallersHold, InCall, ClientsGone
<1> QED
  BY <1>1, <1>2 DEF TalkOver, InCall

(* The end of the file: only the last client to leave empties the socket. *)
LEMMA EndsNext == TypeInv /\ Ends /\ [Next]_vars => Ends'
<1> SUFFICES ASSUME TypeInv, Ends, [Next]_vars PROVE Ends'
    OBVIOUS
<1> USE DEF Ends, TypeInv, ClientsOK
<1>1. ASSUME NEW c \in Clients, pc[c] # "gone", UNCHANGED <<srv, toSrv>>,
             \A d \in Clients \ {c} : pc'[d] = pc[d],
             pc'[c] = "gone" => toCli' = RepliesWithout(c)
      PROVE  Ends'
  BY <1>1 DEF ClientsGone, RepliesWithout
<1>2. ASSUME NEW c \in Clients, User(c) \/ KillClient(c)
      PROVE  Ends'
  <2>1. ASSUME Gone(c), pc[c] # "gone" PROVE Ends'
    BY <1>1, <2>1 DEF Gone, srvVars
  <2>2. ASSUME Get(c) \/ Login(c) \/ Destroy(c) \/ CloseTty(c)
        PROVE  pc[c] # "gone" /\ UNCHANGED <<srv, toSrv>> /\ pc'[c] # "gone"
                /\ \A d \in Clients \ {c} : pc'[d] = pc[d]
    BY <2>2 DEF Get, Login, Destroy, Call, CloseTty, srvVars, sockVars
  <2> QED
    BY <1>1, <1>2, <2>1, <2>2 DEF User, KillClient, Exit
<1>3. ASSUME NEW c \in Clients, Client(c)
      PROVE  Ends'
  <2>1. ASSUME Gone(c), pc[c] # "gone" PROVE Ends'
    BY <1>1, <2>1 DEF Gone, srvVars
  <2>2. CASE NeedToken(c)
    BY <1>1, <2>2 DEF NeedToken, srvVars, sockVars
  <2>3. CASE WriteCmd(c)
    <3>1. ASSUME NEW next, next # "gone", BrokenPipe(c, next) PROVE Ends'
      BY <1>1, <2>1, <2>3, <3>1 DEF WriteCmd, BrokenPipe, srvVars, sockVars
    <3>2. ASSUME Up, UNCHANGED srvVars, UNCHANGED toCli, pc'[c] # "gone"
          PROVE  Ends'
      BY <2>3, <3>2 DEF WriteCmd, Up, srvVars, ClientsGone
    <3> QED
      BY <2>3, <3>1, <3>2 DEF WriteCmd
  <2>4. CASE ReadId(c) \/ RecvPty(c) \/ RecvTty(c)
    BY <1>1, <2>4 DEF ReadId, RecvPty, RecvTty, Throw, srvVars
  <2>5. CASE GiveToken(c)
    BY <1>1, <2>1, <2>5 DEF GiveToken, BrokenPipe, srvVars, sockVars
  <2> QED
    BY <1>3, <2>2, <2>3, <2>4, <2>5 DEF Client
<1>4. CASE Helper
  <2>1. UNCHANGED pc /\ (ClientsGone <=> ClientsGone')
    BY <1>4 DEF Helper, SrvGive, SrvGet, SrvGetFails, SrvSendPty, SrvSendTty,
                SrvLogin, SrvDestroy, SrvNeed, SrvEof, SrvReap, Reads,
                clientVars, ClientsGone
  <2>2. ClientsGone => toCli' = <<>>
    BY <1>4 DEF Helper, SrvGive, SrvGet, SrvGetFails, SrvSendPty, SrvSendTty,
                SrvLogin, SrvDestroy, SrvNeed, SrvEof, SrvReap, Send, Reads, sockVars
  <2>3. srv' \in {"reap", "exit", "killed"} =>
          /\ UNCHANGED toSrv
          /\ srv = "reap" \/ (srv = "read" /\ toSrv = <<>> /\ ClientsGone)
          /\ srv' # "killed"
    BY <1>4 DEF Helper, SrvGive, SrvGet, SrvGetFails, SrvSendPty, SrvSendTty,
                SrvLogin, SrvDestroy, SrvNeed, SrvEof, SrvReap, sockVars
  <2> QED
    BY <2>1, <2>2, <2>3
<1>5. CASE KillHelper
  BY <1>5 DEF KillHelper, ClientsGone, clientVars
<1>6. ASSUME NEW c \in Clients, NEW d \in Clients, Fork(c, d) PROVE Ends'
  BY <1>6 DEF Fork, ClientsGone, srvVars, sockVars
<1>7. CASE UNCHANGED vars
  BY <1>7 DEF vars, srvVars, sockVars, ClientsGone
<1> QED
  BY <1>2, <1>3, <1>4, <1>5, <1>6, <1>7 DEF Next, Ended

(* No step puts a byte on a quiet socket behind the token's back. *)
LEMMA TokenQuietNext ==
  ASSUME "eintr" \notin Env, TypeInv, ExclusionInv, CallInv, [Next]_vars
  PROVE  TokenQuiet'
<1> USE DEF TypeInv, TokensOK, CallInv, TokenQuiet
<1>1. ASSUME UNCHANGED <<reentrant, toSrv, toCli, srv>>, tokC' > 0 => tokC > 0
      PROVE  TokenQuiet'
  BY <1>1 DEF Up
<1>2. ASSUME NEW c \in Clients, User(c) \/ NeedToken(c) \/ GiveToken(c) \/ KillClient(c)
      PROVE  /\ UNCHANGED <<toSrv, srv>> /\ (tokC' > 0 => tokC > 0)
             /\ toCli' \in {toCli, <<>>}
  BY <1>2 DEF User, Get, Login, Destroy, Call, CloseTty, Exit, Gone, RepliesWithout,
       NeedToken, GiveToken, BrokenPipe, KillClient, srvVars, sockVars, tokVars
<1>3. ASSUME NEW c \in Clients, WriteCmd(c) \/ ReadId(c) \/ RecvPty(c) \/ RecvTty(c),
             tokC' > 0
      PROVE  /\ UNCHANGED <<toSrv, srv>> /\ tokC > 0 /\ toCli' = <<>>
  <2>1. tokC' = tokC /\ InCall(c)
    BY <1>3 DEF WriteCmd, BrokenPipe, Gone, ReadId, RecvPty, RecvTty, tokVars, InCall
  <2>2. reentrant /\ toCli = <<>> /\ ~Up
    BY <1>3, <2>1, Alone
  <2> QED
    BY <1>3, <2>1, <2>2
    DEF WriteCmd, BrokenPipe, Gone, RepliesWithout, ReadId, RecvPty, RecvTty, ShortRead,
        MixedRead, Receives, ReceivesNone, srvVars, sockVars
<1>4. CASE SrvGive
  <2>1. CASE tokC' = tokC
    BY <1>4, <2>1 DEF SrvGive, Up
  <2>2. CASE tokC' # tokC
    <3>1. reentrant /\ Up /\ TalkOver /\ Calm
      BY <1>4, <2>2 DEF SrvGive, Up, TalkOver, Calm
    <3>2. toCli = <<>> /\ toSrv = <<>>
      BY <1>4, <3>1 DEF PhaseInv, Clear, OneAtATime, SrvGive
    <3> QED
      BY <1>4, <3>1, <3>2 DEF SrvGive, sockVars, Next, vars
  <2> QED
    BY <2>1, <2>2
<1>5. CASE SrvGet \/ SrvGetFails \/ SrvLogin \/ SrvDestroy \/ SrvSendPty
             \/ SrvSendTty \/ SrvNeed
  <2>1. UNCHANGED tokC /\ ((srv = "read" /\ toSrv # <<>>) \/ srv \in {"pty", "tty", "need"})
    BY <1>5 DEF SrvGet, SrvGetFails, SrvLogin, SrvDestroy, SrvSendPty, SrvSendTty,
                SrvNeed, Reads
  <2> QED
    BY <2>1 DEF Up
<1>6. CASE SrvEof \/ SrvReap
  BY <1>6 DEF SrvEof, SrvReap, sockVars, Next, Up, vars
<1>7. CASE KillHelper
  BY <1>7 DEF KillHelper, Up, Next, vars
<1>8. ASSUME NEW c \in Clients, NEW d \in Clients, Fork(c, d)
      PROVE  UNCHANGED <<toSrv, toCli, srv, tokC>>
  BY <1>8 DEF Fork, srvVars, sockVars, tokVars
<1>9. UNCHANGED vars => UNCHANGED <<toSrv, toCli, srv, tokC>>
  BY DEF vars, srvVars, sockVars, tokVars
<1>10. UNCHANGED reentrant
  BY DEF Next, vars
<1>11. ASSUME NEW c \in Clients, User(c) \/ Client(c) \/ KillClient(c) PROVE TokenQuiet'
  BY <1>2, <1>3, <1>10, <1>11 DEF Client, Up
<1> QED
  BY <1>1, <1>4, <1>5, <1>6, <1>7, <1>8, <1>9, <1>10, <1>11 DEF Next, Helper, Ended

(* From an empty socket no read takes anything. *)
LEMMA EmptyReads ==
  ASSUME toCli = <<>>
  PROVE  /\ ~ShortRead /\ ~MixedRead /\ \A fd \in Fd : ~Receives(fd)
         /\ ReceivesNone => toCli' = <<>>
<1>1. Len(toCli) = 0
  OBVIOUS
<1>2. ~ShortRead /\ ~MixedRead /\ \A fd \in Fd : ~Receives(fd)
  BY <1>1 DEF ShortRead, MixedRead, Receives
<1>3. ReceivesNone => UNCHANGED toCli
  BY DEF ReceivesNone
<1> QED
  BY <1>2, <1>3

(* No step brings the helper back. *)
LEMMA UpBefore == [Next]_vars /\ Up' => Up
<1> SUFFICES ASSUME [Next]_vars, Up' PROVE Up
    OBVIOUS
<1>1. ASSUME NEW c \in Clients, User(c) \/ KillClient(c) PROVE Up
  BY <1>1 DEF User, Get, Login, Destroy, Call, CloseTty, Exit, Gone, KillClient, Up, srvVars
<1>2. ASSUME NEW c \in Clients, NeedToken(c) \/ WriteCmd(c) \/ GiveToken(c) PROVE Up
  BY <1>2 DEF NeedToken, WriteCmd, BrokenPipe, Gone, GiveToken, Up, srvVars
<1>3. ASSUME NEW c \in Clients, ReadId(c) \/ RecvPty(c) \/ RecvTty(c) PROVE Up
  BY <1>3 DEF ReadId, RecvPty, RecvTty, Up, srvVars
<1>4. CASE Helper
  BY <1>4 DEF Helper, SrvGive, SrvGet, SrvGetFails, SrvSendPty, SrvSendTty, SrvLogin,
       SrvDestroy, SrvNeed, SrvEof, SrvReap, Reads, Up
<1>5. CASE KillHelper
  BY <1>5 DEF KillHelper, Up
<1>6. ASSUME NEW c \in Clients, NEW d \in Clients, Fork(c, d) PROVE Up
  BY <1>6 DEF Fork, Up, srvVars
<1>7. CASE UNCHANGED vars
  BY <1>7 DEF vars, Up, srvVars
<1> QED
  BY <1>1, <1>2, <1>3, <1>4, <1>5, <1>6, <1>7 DEF Next, Client, Ended

(* One command at a time: a client writes to a helper that waits for it. *)
LEMMA OneAtATimeNext ==
  ASSUME "eintr" \notin Env, TypeInv, ExclusionInv, CallInv, [Next]_vars
  PROVE  OneAtATime'
<1> SUFFICES ASSUME reentrant, Up' PROVE OneAtATime'
  BY DEF OneAtATime, Next, vars
<1> USE DEF TypeInv, ClientsOK, QueuesOK, CallInv, OneAtATime
<1>1. Calm /\ UNCHANGED reentrant
  BY DEF Calm, Next, vars
<1>2. Up
  BY UpBefore
<1>3. ASSUME UNCHANGED <<toSrv, srv>>, toCli' \in {toCli, <<>>},
             \A c \in Clients : pc'[c] = "write" => pc[c] = "write"
      PROVE  OneAtATime'
  BY <1>2, <1>3
<1>4. ASSUME NEW c \in Clients, User(c) \/ GiveToken(c) \/ KillClient(c)
      PROVE  OneAtATime'
  <2>1. /\ UNCHANGED <<toSrv, srv>> /\ toCli' \in {toCli, <<>>}
        /\ \A d \in Clients : pc'[d] = "write" => pc[d] = "write"
    BY <1>4 DEF User, Get, Login, Destroy, Call, CloseTty, Exit, Gone, RepliesWithout,
         GiveToken, BrokenPipe, KillClient, srvVars, sockVars
  <2> QED
    BY <1>3, <2>1
<1>5. ASSUME NEW c \in Clients, NeedToken(c) PROVE OneAtATime'
  <2>1. tokC > 0 /\ UNCHANGED <<toSrv, toCli, srv>> /\ ~ClientsGone
    BY <1>2, <1>5 DEF NeedToken, srvVars, sockVars, ClientsGone
  <2> QED
    BY <1>2, <1>5, <2>1 DEF NeedToken, TokenQuiet, Ends
<1>6. ASSUME NEW c \in Clients, WriteCmd(c) PROVE OneAtATime'
  <2>1. InCall(c) /\ pc[c] = "write" /\ toCli = <<>> /\ toSrv = <<>> /\ srv = "read"
    BY <1>1, <1>2, <1>6, Alone DEF WriteCmd, InCall, PhaseInv, Clear
  <2>2. \A d \in Clients \ {c} : pc[d] # "write"
    BY <1>2, <2>1, Alone DEF InCall
  <2>3. UNCHANGED <<toCli, srv>> /\ \A d \in Clients : pc'[d] # "write"
    BY <1>2, <1>6, <2>2 DEF WriteCmd, BrokenPipe, srvVars
  <2>4. PICK m \in Command : toSrv' = Append(toSrv, m)
    BY <1>2, <1>6 DEF WriteCmd, BrokenPipe, Command
  <2>5. Len(toSrv') = 1
    BY <2>1, <2>4, Tuples
  <2> QED
    BY <2>1, <2>3, <2>5
<1>7. ASSUME NEW c \in Clients, ReadId(c) \/ RecvPty(c) \/ RecvTty(c) PROVE OneAtATime'
  <2>1. /\ UNCHANGED <<toSrv, srv>>
        /\ \A d \in Clients : pc'[d] = "write" => pc[d] = "write"
    BY <1>7 DEF ReadId, RecvPty, RecvTty, Throw, srvVars
  <2>2. toCli = <<>> => toCli' = <<>>
    BY <1>7, EmptyReads DEF ReadId, RecvPty, RecvTty
  <2> QED
    BY <1>2, <2>1, <2>2
<1>8. ASSUME SrvGet \/ SrvGetFails \/ SrvLogin \/ SrvDestroy PROVE OneAtATime'
  <2>1. toSrv # <<>> /\ UNCHANGED pc /\ toSrv' = Tail(toSrv)
    BY <1>8 DEF SrvGet, SrvGetFails, SrvLogin, SrvDestroy, Reads, clientVars
  <2>2. toSrv' = <<>>
    <3>1. toSrv' \in Seq(Command) /\ Len(toSrv') = 0
      BY <1>2, <2>1, Commands
    <3> QED
      BY <3>1, Commands
  <2> QED
    BY <1>2, <2>1, <2>2
<1>9. ASSUME SrvSendPty \/ SrvSendTty \/ SrvNeed \/ SrvGive PROVE OneAtATime'
  <2>1. srv # "read" /\ UNCHANGED <<toSrv, pc>>
    BY <1>9 DEF SrvSendPty, SrvSendTty, SrvNeed, SrvGive, sockVars, clientVars
  <2> QED
    BY <1>2, <2>1
<1>10. ASSUME SrvEof \/ SrvReap PROVE OneAtATime'
  <2>1. UNCHANGED <<toSrv, pc>> /\ toSrv = <<>> /\ ClientsGone
    BY <1>10 DEF SrvEof, SrvReap, sockVars, clientVars, Ends
  <2> QED
    BY <2>1 DEF ClientsGone
<1>11. ~KillHelper
  BY DEF KillHelper, Up
<1>12. ASSUME NEW c \in Clients, NEW d \in Clients, Fork(c, d) PROVE OneAtATime'
  BY <1>3, <1>12 DEF Fork, srvVars, sockVars
<1>13. UNCHANGED vars => OneAtATime'
  BY <1>3 DEF vars, srvVars, sockVars
<1> QED
  BY <1>4, <1>5, <1>6, <1>7, <1>8, <1>9, <1>10, <1>11, <1>12, <1>13
  DEF Next, Client, Helper, Ended

-----------------------------------------------------------------------------
(* What the reads of get find, given where the call is. *)
LEMMA IdRead ==
  ASSUME "eintr" \notin Env, Up, TypeInv, NEW c \in Clients, Phase(c), ReadId(c)
  PROVE  \/ /\ Refused
            /\ toCli' = <<>> /\ pc' = [pc EXCEPT ![c] = "give"]
            /\ id' = [id EXCEPT ![c] = Nil] /\ res' = [res EXCEPT ![c] = "fail"]
         \/ /\ Serves(c) /\ Answered(cur, obj[cur].line)
            /\ toCli' = Tail(toCli) /\ pc' = [pc EXCEPT ![c] = "pty"]
            /\ id' = [id EXCEPT ![c] = cur] /\ UNCHANGED res
<1>1. pc[c] = "id" /\ ~ReadFails
  BY DEF ReadId, ReadFails
<1>2. ASSUME toCli # <<>>, Head(toCli).kind = "id"
      PROVE  ~ShortRead /\ ~MixedRead
  <2>1. Rest.kind = "rest"
    BY DEF Rest
  <2> QED
    BY <1>2, <2>1 DEF ShortRead, MixedRead
<1>3. Asks(c) => toCli = <<>>
  BY DEF Asks
<1>4. toCli # <<>>
  BY <1>1, EmptyReads DEF ReadId
<1>5. CASE Refused
  <2>1. toCli # <<>> /\ Head(toCli).kind = "id" /\ Head(toCli).val = Nil /\ Tail(toCli) = <<>>
    BY <1>5, Tuples, Messages DEF Refused
  <2> QED
    BY <1>1, <1>2, <1>5, <2>1 DEF ReadId
<1>6. CASE Serves(c) /\ Answered(cur, obj[cur].line)
  <2>1. Head(toCli).kind = "id" /\ Head(toCli).val = cur
    BY <1>6, Tuples, Messages DEF Answered
  <2>2. cur # Nil
    BY <1>6, NilAssumption DEF Serves, ptys
  <2> QED
    BY <1>1, <1>2, <1>4, <1>6, <2>1, <2>2 DEF ReadId
<1> QED
  BY <1>1, <1>3, <1>4, <1>5, <1>6 DEF Phase

(* Then the pty: it is the next reply, or it was not sent and the tty is   *)
(* taken for it, or nothing comes.                                         *)
LEMMA PtyRead ==
  ASSUME "eintr" \notin Env, Up, TypeInv, NEW c \in Clients, Phase(c), RecvPty(c),
         NEW l, l = obj[cur].line
  PROVE  \/ /\ toCli = <<Pty(l)>> /\ toCli' = <<>> /\ srv # "pty"
            /\ pc' = [pc EXCEPT ![c] = "tty"] /\ pty' = [pty EXCEPT ![c] = Master(l)]
            /\ UNCHANGED res
         \/ /\ toCli = <<Pty(l), Tty(l)>> /\ toCli' = <<Tty(l)>> /\ Between
            /\ pc' = [pc EXCEPT ![c] = "tty"] /\ pty' = [pty EXCEPT ![c] = Master(l)]
            /\ UNCHANGED res
         \/ /\ toCli = <<Tty(l)>> /\ toCli' = <<>> /\ Between
            /\ pc' = [pc EXCEPT ![c] = "tty"] /\ pty' = [pty EXCEPT ![c] = Slave(l)]
            /\ UNCHANGED res
         \/ /\ "recv_fd" \in Env /\ toCli' \in {toCli, Tail(toCli)}
            /\ Throw(c) /\ UNCHANGED pty
<1>1. pc[c] = "pty" /\ GetsPty(c) /\ ~ReadFails
  BY DEF RecvPty, Phase, ReadFails
<1>2. Sent(toCli, l)
  BY <1>1 DEF GetsPty
<1>3. toCli # <<>> => Head(toCli).kind = "fd"
  BY <1>2, Tuples, Messages DEF Sent
<1>4. CASE ReceivesNone /\ Throw(c) /\ UNCHANGED pty
  BY <1>1, <1>3, <1>4 DEF ReceivesNone
<1>5. ASSUME NEW fd \in Fd, Receives(fd), pty' = [pty EXCEPT ![c] = fd],
             pc'  = [pc EXCEPT ![c] = "tty"], UNCHANGED res
      PROVE  \/ /\ toCli = <<Pty(l)>> /\ toCli' = <<>> /\ srv # "pty" /\ fd = Master(l)
             \/ /\ toCli = <<Pty(l), Tty(l)>> /\ toCli' = <<Tty(l)>> /\ Between /\ fd = Master(l)
             \/ /\ toCli = <<Tty(l)>> /\ toCli' = <<>> /\ Between /\ fd = Slave(l)
  <2>1. toCli # <<>> /\ Head(toCli) = [kind |-> "fd", val |-> fd] /\ toCli' = Tail(toCli)
    BY <1>5 DEF Receives
  <2>2. CASE srv # "pty" /\ toCli = <<Pty(l)>>
    BY <2>1, <2>2, Tuples, Messages
  <2>3. CASE Between /\ toCli = <<Pty(l), Tty(l)>>
    BY <2>1, <2>3, Tuples, Messages
  <2>4. CASE Between /\ toCli = <<Tty(l)>>
    BY <2>1, <2>4, Tuples, Messages
  <2> QED
    BY <1>2, <2>1, <2>2, <2>3, <2>4 DEF Sent
<1> QED
  BY <1>4, <1>5 DEF RecvPty

(* And the tty, which is the last one.                                     *)
LEMMA TtyRead ==
  ASSUME "eintr" \notin Env, Up, TypeInv, NEW c \in Clients, Phase(c), RecvTty(c),
         NEW l, l = obj[cur].line
  PROVE  \/ /\ toCli = <<Tty(l)>> /\ toCli' = <<>> /\ Between /\ pty[c] = Master(l)
            /\ pc' = [pc EXCEPT ![c] = "give"] /\ tty' = [tty EXCEPT ![c] = Slave(l)]
            /\ res' = [res EXCEPT ![c] = "ok"]
         \/ /\ "recv_fd" \in Env /\ toCli' \in {toCli, <<>>}
            /\ Throw(c) /\ UNCHANGED tty
<1>1. pc[c] = "tty" /\ GetsTty(c) /\ ~ReadFails
  BY DEF RecvTty, Phase, ReadFails
<1>2. toCli = <<>> \/ (toCli = <<Tty(l)>> /\ Between /\ pty[c] = Master(l))
  BY <1>1 DEF GetsTty
<1>3. toCli # <<>> => Head(toCli).kind = "fd" /\ Tail(toCli) = <<>>
  <2>1. \A x : Head(<<x>>) = x /\ Tail(<<x>>) = <<>>
    BY Tuples
  <2>2. Tty(l).kind = "fd"
    BY Messages
  <2> QED
    BY <1>2, <2>1, <2>2
<1>4. CASE ReceivesNone /\ Throw(c) /\ UNCHANGED tty
  BY <1>1, <1>3, <1>4 DEF ReceivesNone
<1>5. ASSUME NEW fd \in Fd, Receives(fd)
      PROVE  toCli = <<Tty(l)>> /\ toCli' = <<>> /\ fd = Slave(l)
  <2>1. toCli # <<>> /\ Head(toCli) = [kind |-> "fd", val |-> fd] /\ toCli' = Tail(toCli)
    BY <1>5 DEF Receives
  <2> QED
    BY <1>2, <1>3, <2>1, Tuples, Messages
<1> QED
  BY <1>2, <1>4, <1>5 DEF RecvTty

-----------------------------------------------------------------------------
(* The phase of a client that a step does not touch. *)
LEMMA PhaseKept ==
  ASSUME NEW d \in Clients, Phase(d),
         pc'[d] = pc[d], id'[d] = id[d], pty'[d] = pty[d],
         UNCHANGED <<srv, cur, obj, toSrv, toCli>>
  PROVE  Phase(d)'
<1>1. UNCHANGED <<Sending, Between, ptys>>
  BY DEF Sending, Between, ptys
<1>2. Serves(d)' = Serves(d) /\ UNCHANGED Refused /\ Asks(d)' = Asks(d)
  BY <1>1 DEF Serves, Refused, Asks
<1>3. Answered(cur, obj[cur].line)' = Answered(cur, obj[cur].line)
  BY <1>1 DEF Answered
<1>4. GetsPty(d)' = GetsPty(d)
  BY <1>1, <1>2 DEF GetsPty, Sent
<1>5. GetsTty(d)' = GetsTty(d)
  BY <1>1, <1>2 DEF GetsTty
<1> QED
  BY <1>2, <1>3, <1>4, <1>5 DEF Phase

(* A client's step that reads no reply keeps the phases of the others, and *)
(* its own if it ends outside get's exchange.                              *)
LEMMA PhasesKept ==
  ASSUME \A d \in Clients : Phase(d), NEW c \in Clients,
         \A d \in Clients \ {c} : pc'[d] = pc[d] /\ id'[d] = id[d] /\ pty'[d] = pty[d],
         pc'[c] \notin {"id", "pty", "tty"},
         UNCHANGED srvVars, UNCHANGED toSrv,
         toCli' = toCli \/ toCli' = RepliesWithout(c)
  PROVE  \A d \in Clients : Phase(d)'
<1> TAKE d \in Clients
<1>1. CASE pc'[d] \notin {"id", "pty", "tty"}
  BY <1>1 DEF Phase
<1>2. CASE pc'[d] \in {"id", "pty", "tty"}
  <2>1. d # c /\ pc[d] # "gone"
    BY <1>2
  <2>2. toCli' = toCli
    BY <2>1 DEF RepliesWithout
  <2> QED
    BY <2>1, <2>2, PhaseKept DEF srvVars
<1> QED
  BY <1>1, <1>2

(* Clients outside the exchange: calls begin, wait, give the token back.   *)
LEMMA PhaseOutside ==
  ASSUME "eintr" \notin Env, TypeInv, ExclusionInv, CallInv, Calm, Up, Up',
         UNCHANGED reentrant, NEW c \in Clients,
         User(c) \/ NeedToken(c) \/ GiveToken(c) \/ KillClient(c)
  PROVE  PhaseInv'
<1> USE DEF TypeInv, ClientsOK, QueuesOK, TokensOK
<1>1. (TalkOver => Clear) /\ \A d \in Clients : Phase(d)
  BY DEF CallInv, PhaseInv
<1>2. /\ UNCHANGED srvVars /\ UNCHANGED toSrv
      /\ toCli' = toCli \/ toCli' = RepliesWithout(c)
      /\ \A d \in Clients \ {c} : pc'[d] = pc[d] /\ id'[d] = id[d] /\ pty'[d] = pty[d]
      /\ pc'[c] \notin {"id", "pty", "tty"}
  BY DEF User, Get, Login, Destroy, Call, CloseTty, Exit, Gone, NeedToken,
         GiveToken, BrokenPipe, KillClient, sockVars, objVars
<1>3. \A d \in Clients : Phase(d)'
  BY <1>1, <1>2, PhasesKept
<1>4. TalkOver' => TalkOver
  <2>1. CASE User(c)
    <3>1. UNCHANGED <<tokC, tokS, srv>> /\ pc[c] \notin {"write", "give"}
           /\ pc'[c] \notin {"write", "give"}
           /\ pc[c] \notin {"id", "pty", "tty"}
      BY <2>1 DEF User, Get, Login, Destroy, Call, CloseTty, Exit, Gone, tokVars, srvVars
    <3> QED
      BY <1>2, <3>1 DEF TalkOver
  <2>2. CASE NeedToken(c)
    <3>1. /\ reentrant => tokC > 0
          /\ tokS' = tokS /\ srv' = srv /\ pc[c] = "need"
      BY <2>2 DEF NeedToken, srvVars
    <3> QED
      BY <1>2, <3>1 DEF TalkOver
  <2>3. CASE GiveToken(c)
    <3>1. pc[c] = "give" /\ InCall(c)
      BY <2>3 DEF GiveToken, InCall
    <3> QED
      BY <3>1, Alone
  <2>4. CASE KillClient(c)
    <3>1. reentrant /\ UNCHANGED <<tokC, tokS, srv>> /\ pc'[c] = "gone"
      BY <2>4 DEF KillClient, Calm, Gone, tokVars, srvVars
    <3> QED
      BY <1>2, <3>1 DEF TalkOver
  <2> QED
    BY <2>1, <2>2, <2>3, <2>4
<1>5. toCli = <<>> => toCli' = <<>>
  BY <1>2 DEF RepliesWithout
<1>6. Clear => Clear'
  BY <1>2, <1>5 DEF Clear, Sending, NoGet, srvVars
<1> QED
  BY <1>1, <1>3, <1>4, <1>6 DEF PhaseInv

(* The command of a call: a get begins the exchange. *)
LEMMA PhaseWrite ==
  ASSUME "eintr" \notin Env, TypeInv, ExclusionInv, CallInv, Calm, Up, Up',
         UNCHANGED reentrant, NEW c \in Clients, WriteCmd(c)
  PROVE  PhaseInv'
<1> USE DEF TypeInv, ClientsOK, QueuesOK
<1> DEFINE m == [type |-> op[c], from |-> c, id |-> IF op[c] = "get" THEN Nil ELSE id[c]]
           next == IF op[c] = "get" THEN "id" ELSE "give"
<1>1. /\ pc[c] = "write" /\ pc' = [pc EXCEPT ![c] = next]
      /\ toSrv' = Append(toSrv, m)
      /\ UNCHANGED <<id, pty, tokC, tokS, toCli, srv, cur, obj>>
  BY DEF WriteCmd, BrokenPipe, tokVars, srvVars, objVars
<1>2. InCall(c)
  BY <1>1 DEF InCall
<1>3. Clear /\ \A d \in Clients \ {c} : ~InCall(d)
  BY <1>1, <1>2, Alone DEF CallInv, PhaseInv
<1>4. m \in Command
  BY DEF Command
<1>5. srv # "reap" /\ Between
  BY <1>1, <1>3 DEF CallInv, Ends, ClientsGone, Clear, Sending, Between, Up, HelperOK
<1> HIDE DEF m, next
<1>6. Len(toSrv) \in Nat /\ DOMAIN toSrv = 1 .. Len(toSrv)
  BY Commands
<1>7. /\ toSrv' # <<>> /\ Len(toSrv') = Len(toSrv) + 1
      /\ DOMAIN toSrv' = 1 .. Len(toSrv) + 1
      /\ toSrv'[Len(toSrv) + 1] = m
      /\ \A i \in DOMAIN toSrv : toSrv'[i] = toSrv[i]
  <2> DEFINE q == toSrv
  <2>1. q \in Seq(Command)
    OBVIOUS
  <2> HIDE DEF q
  <2>2. /\ Append(q, m) # <<>> /\ Len(Append(q, m)) = Len(q) + 1
        /\ DOMAIN Append(q, m) = 1 .. Len(q) + 1
        /\ Append(q, m)[Len(q) + 1] = m
        /\ \A i \in DOMAIN q : Append(q, m)[i] = q[i]
    BY <1>4, <2>1, Commands
  <2> QED
    BY <1>1, <2>2 DEF q
<1>8. \A i \in DOMAIN toSrv' : i # Len(toSrv') => toSrv'[i].type # "get"
  BY <1>3, <1>6, <1>7 DEF Clear, NoGet
<1>9. CASE op[c] = "get"
  <2>1. m = GetFrom(c) /\ next = "id"
    BY <1>9 DEF m, next, GetFrom
  <2>2. Asks(c)'
    BY <1>1, <1>3, <1>5, <1>7, <1>8, <2>1 DEF Asks, Between, Clear, GetFrom
  <2>3. \A d \in Clients : Phase(d)'
    BY <1>1, <1>3, <2>1, <2>2 DEF Phase, InCall
  <2>4. ~TalkOver'
    BY <1>1, <1>2, <1>3, <2>1, Alone DEF TalkOver, InCall
  <2> QED
    BY <2>3, <2>4 DEF PhaseInv
<1>10. CASE op[c] # "get"
  <2>1. m.type # "get" /\ next = "give"
    BY <1>10 DEF m, next
  <2>2. \A d \in Clients : Phase(d)'
    BY <1>1, <1>3, <2>1 DEF Phase, InCall
  <2>3. Clear'
    BY <1>1, <1>3, <1>6, <1>7, <1>8, <2>1 DEF Clear, NoGet, Sending
  <2> QED
    BY <2>2, <2>3 DEF PhaseInv
<1> QED
  BY <1>9, <1>10

(* The exchange of get: the id, the pty, the tty. *)
LEMMA PhaseReads ==
  ASSUME "eintr" \notin Env, TypeInv, ExclusionInv, CallInv, Calm, Up, Up',
         UNCHANGED reentrant, NEW c \in Clients, ReadId(c) \/ RecvPty(c) \/ RecvTty(c)
  PROVE  PhaseInv'
<1> USE DEF TypeInv, ClientsOK, QueuesOK
<1>1. /\ UNCHANGED <<srvVars, toSrv, tokC, tokS>> /\ pc[c] \in {"id", "pty", "tty"}
      /\ \A d \in Clients \ {c} : pc'[d] = pc[d]
  BY DEF ReadId, RecvPty, RecvTty, Throw, tokVars
<1>2. /\ InCall(c) /\ Phase(c)
      /\ \A d \in Clients \ {c} : ~InCall(d)
      /\ reentrant => tokC = 0 /\ tokS = 0 /\ srv # "give"
  <2>1. InCall(c) /\ Phase(c)
    BY <1>1 DEF InCall, CallInv, PhaseInv
  <2> QED
    BY <2>1, Alone
<1>3. ASSUME Phase(c)', TalkOver' => Clear' PROVE PhaseInv'
  <2>1. ASSUME NEW d \in Clients PROVE Phase(d)'
    BY <1>1, <1>2, <1>3 DEF Phase, InCall
  <2> QED
    BY <1>3, <2>1 DEF PhaseInv
<1>4. /\ pc'[c] \in {"pty", "tty"} => ~TalkOver'
      /\ pc'[c] = "idle" /\ reentrant => ~TalkOver'
  BY <1>1, <1>2 DEF TalkOver, InCall, srvVars
<1>5. /\ UNCHANGED <<Between, Sending, ptys, srv, cur, obj, toSrv>>
  BY <1>1 DEF Between, Sending, ptys, srvVars
<1>6. Between /\ toSrv = <<>> /\ toCli' = <<>> => Clear'
  BY <1>5, <1>1 DEF Between, Sending, Clear, NoGet
<1>7. CASE ReadId(c)
  <2>1. CASE Refused /\ toCli' = <<>> /\ pc' = [pc EXCEPT ![c] = "give"]
    BY <1>3, <1>6, <2>1 DEF Refused, Phase
  <2>2. CASE /\ Serves(c) /\ Answered(cur, obj[cur].line)
             /\ toCli' = Tail(toCli) /\ pc' = [pc EXCEPT ![c] = "pty"]
             /\ id' = [id EXCEPT ![c] = cur]
    <3> DEFINE l == obj[cur].line
    <3>1. Sent(toCli', l)
      <4> DEFINE i == Id(cur)
                 p == Pty(l)
                 t == Tty(l)
      <4> HIDE DEF i, p, t
      <4>1. /\ Tail(<<i>>) = <<>> /\ Tail(<<i, p>>) = <<p>>
            /\ Tail(<<i, t>>) = <<t>> /\ Tail(<<i, p, t>>) = <<p, t>>
        BY Tuples
      <4>2. Answered(cur, l) => Sent(Tail(toCli), l)
        BY <4>1 DEF Answered, Sent, i, p, t
      <4> QED
        BY <2>2, <4>2
    <3>2. Sent(toCli, l)'
      BY <1>5, <3>1 DEF Sent
    <3>3. Serves(c)' /\ id'[c] = cur'
      BY <1>5, <2>2 DEF Serves
    <3>4. Phase(c)'
      BY <2>2, <3>2, <3>3 DEF Phase, GetsPty
    <3> QED
      BY <1>3, <1>4, <2>2, <3>4
  <2> QED
    BY <1>2, <1>7, <2>1, <2>2, IdRead
<1>8. CASE RecvPty(c)
  <2> DEFINE l == obj[cur].line
  <2>1. pc[c] = "pty" /\ Serves(c) /\ id[c] = cur /\ UNCHANGED id
    BY <1>2, <1>8 DEF RecvPty, Phase, GetsPty
  <2>2. Serves(c)' /\ id'[c] = cur' /\ UNCHANGED l
    BY <1>5, <2>1 DEF Serves
  <2>3. Sending \/ Between
    BY <2>1 DEF Serves
  <2>4. CASE Throw(c) /\ "recv_fd" \in Env
    <3>1. reentrant /\ pc'[c] = "idle"
      BY <2>4 DEF Calm, Throw
    <3> QED
      BY <1>3, <1>4, <3>1 DEF Phase
  <2>5. CASE /\ pc' = [pc EXCEPT ![c] = "tty"]
             /\ \/ /\ pty' = [pty EXCEPT ![c] = Master(l)]
                   /\ \/ toCli' = <<>> /\ srv # "pty"
                      \/ toCli' = <<Tty(l)>> /\ Between
                \/ /\ pty' = [pty EXCEPT ![c] = Slave(l)] /\ toCli' = <<>> /\ Between
    <3>1. pc'[c] = "tty" /\ pty'[c] \in {Master(l), Slave(l)}
      BY <2>5
    <3>2. GetsTty(c)'
      BY <1>5, <2>2, <2>3, <2>5, <3>1 DEF GetsTty, Sending, Between
    <3>3. Phase(c)'
      BY <3>1, <3>2 DEF Phase
    <3> QED
      BY <1>3, <1>4, <3>1, <3>3
  <2> HIDE DEF l
  <2>6. l = obj[cur].line
    BY DEF l
  <2> QED
    BY <1>2, <1>8, <2>4, <2>5, <2>6, PtyRead
<1>9. CASE RecvTty(c)
  <2>1. pc[c] = "tty" /\ toSrv = <<>>
    BY <1>2, <1>9 DEF RecvTty, Phase, GetsTty, Serves
  <2>2. CASE Throw(c) /\ "recv_fd" \in Env
    <3>1. reentrant /\ pc'[c] = "idle"
      BY <2>2 DEF Calm, Throw
    <3> QED
      BY <1>3, <1>4, <3>1 DEF Phase
  <2>3. CASE toCli' = <<>> /\ Between /\ pc' = [pc EXCEPT ![c] = "give"]
    BY <1>3, <1>6, <2>1, <2>3 DEF Phase
  <2> DEFINE l == obj[cur].line
  <2> HIDE DEF l
  <2>4. l = obj[cur].line
    BY DEF l
  <2> QED
    BY <1>2, <1>9, <2>2, <2>3, <2>4, TtyRead
<1> QED
  BY <1>7, <1>8, <1>9

-----------------------------------------------------------------------------
(* The helper between two replies. *)
LEMMA PhaseTurns ==
  ASSUME TypeInv, ExclusionInv, CallInv, Calm, Up, Up', UNCHANGED reentrant,
         SrvGive \/ SrvNeed
  PROVE  PhaseInv'
<1>1. Between /\ Between' /\ UNCHANGED <<pc, id, pty, cur, obj, toSrv, toCli>>
  BY DEF SrvGive, SrvNeed, Between, clientVars, objVars, sockVars
<1>2. /\ ~Sending /\ srv # "pty" /\ srv # "tty"
      /\ ~Sending' /\ srv' # "pty" /\ srv' # "tty" /\ UNCHANGED ptys
  BY <1>1 DEF Sending, Between, ptys
<1>3. ASSUME NEW d \in Clients, Phase(d) PROVE Phase(d)'
  <2>1. Serves(d)' = Serves(d) /\ Refused' = Refused /\ Asks(d)' = Asks(d)
    BY <1>1, <1>2 DEF Serves, Refused, Asks
  <2>2. Answered(cur, obj[cur].line)' = Answered(cur, obj[cur].line)
    BY <1>1, <1>2 DEF Answered
  <2>3. GetsPty(d)' = GetsPty(d)
    BY <1>1, <1>2, <2>1 DEF GetsPty, Sent
  <2>4. GetsTty(d)' = GetsTty(d)
    BY <1>1, <1>2, <2>1 DEF GetsTty
  <2> QED
    BY <1>1, <1>3, <2>1, <2>2, <2>3, <2>4 DEF Phase
<1>4. ASSUME TalkOver' PROVE Clear'
  <2>1. CASE TalkOver
    BY <1>1, <1>2, <2>1 DEF CallInv, PhaseInv, Clear, NoGet
  <2>2. CASE ~TalkOver
    <3>1. reentrant /\ srv # "give"
      BY <1>1, <1>4, <2>2 DEF TalkOver
    <3>2. SrvNeed /\ ~(tokS > 0)
      BY <2>2, <3>1 DEF SrvGive, TalkOver
    <3>3. ClientsGone /\ srv = "need"
      BY <3>1, <3>2 DEF SrvNeed
    <3>4. toCli = <<>> /\ toSrv = <<>>
      BY <3>1, <3>3 DEF CallInv, Ends, OneAtATime
    <3> QED
      BY <1>1, <1>2, <3>4 DEF Clear, NoGet
  <2> QED
    BY <2>1, <2>2
<1> QED
  BY <1>3, <1>4 DEF CallInv, PhaseInv

(* The helper reads a login or a destroy: gets behind it wait. *)
LEMMA PhaseOrders ==
  ASSUME TypeInv, ExclusionInv, CallInv, Calm, Up, Up', UNCHANGED reentrant,
         SrvLogin \/ SrvDestroy
  PROVE  PhaseInv'
<1> USE DEF TypeInv, QueuesOK
<1>1. /\ srv = "read" /\ srv' = "need" /\ toSrv # <<>> /\ Head(toSrv).type # "get"
      /\ toSrv' = Tail(toSrv) /\ UNCHANGED <<pc, toCli, tokC, tokS>>
  BY DEF SrvLogin, SrvDestroy, Reads, clientVars
<1>2. /\ Len(toSrv) \in Nat \ {0} /\ DOMAIN toSrv = 1 .. Len(toSrv)
      /\ Head(toSrv) = toSrv[1] /\ Len(toSrv') = Len(toSrv) - 1
      /\ toSrv' \in Seq(Command) /\ DOMAIN toSrv' = 1 .. Len(toSrv')
      /\ \A i \in DOMAIN toSrv' : i + 1 \in DOMAIN toSrv /\ toSrv'[i] = toSrv[i + 1]
  <2>1. toSrv' \in Seq(Command)
    BY <1>1, Commands
  <2> QED
    BY <1>1, <2>1, Commands
<1>3. ASSUME NEW d \in Clients, Phase(d) PROVE Phase(d)'
  <2>1. CASE pc[d] = "id"
    <3>1. Asks(d)
      BY <1>1, <1>3, <2>1 DEF Phase, Refused, Serves
    <3>2. Len(toSrv) # 1
      BY <1>1, <1>2, <3>1 DEF Asks, GetFrom
    <3>3. Len(toSrv') # 0 /\ toSrv' # <<>>
      BY <1>2, <3>2, Commands
    <3>4. toSrv'[Len(toSrv')] = toSrv[Len(toSrv)]
      BY <1>2, <3>2
    <3>5. \A i \in DOMAIN toSrv' : i # Len(toSrv') => toSrv'[i].type # "get"
      BY <1>2, <3>1 DEF Asks
    <3>6. Asks(d)'
      BY <1>1, <3>1, <3>3, <3>4, <3>5 DEF Asks, Between, GetFrom
    <3> QED
      BY <1>1, <2>1, <3>6 DEF Phase
  <2>2. CASE pc[d] # "id"
    BY <1>1, <1>3, <2>2 DEF Phase, GetsPty, GetsTty, Serves
  <2> QED
    BY <2>1, <2>2
<1>4. TalkOver' => TalkOver
  BY <1>1 DEF TalkOver
<1>5. Clear => Clear'
  BY <1>1, <1>2 DEF Clear, NoGet, Sending
<1> QED
  BY <1>3, <1>4, <1>5 DEF CallInv, PhaseInv

(* The helper reads a get: the only one queued, and nobody else's. *)
LEMMA GetRead ==
  ASSUME TypeInv, ExclusionInv, CallInv, Calm, Up, Reads("get")
  PROVE  /\ ~TalkOver /\ toSrv' = <<>>
         /\ ~ClientsGone => toCli = <<>>
         /\ \A d \in Clients : pc[d] \in {"id", "pty", "tty"} =>
              pc[d] = "id" /\ Head(toSrv) = GetFrom(d) /\ toCli = <<>>
<1> USE DEF TypeInv, QueuesOK
<1>1. srv = "read" /\ toSrv # <<>> /\ Head(toSrv).type = "get" /\ toSrv' = Tail(toSrv)
  BY DEF Reads
<1>2. /\ Len(toSrv) \in Nat \ {0} /\ DOMAIN toSrv = 1 .. Len(toSrv)
      /\ Head(toSrv) = toSrv[1] /\ Len(toSrv') = Len(toSrv) - 1
      /\ toSrv' \in Seq(Command)
  BY <1>1, Commands
<1>3. ~TalkOver
  BY <1>1, <1>2 DEF CallInv, PhaseInv, Clear, NoGet
<1>4. ASSUME NEW d \in Clients, pc[d] \in {"id", "pty", "tty"}
      PROVE  pc[d] = "id" /\ Asks(d)
  <2>1. Phase(d)
    BY DEF CallInv, PhaseInv
  <2>2. ~Refused /\ ~Serves(d)
    BY <1>1 DEF Refused, Serves
  <2> QED
    BY <1>4, <2>1, <2>2 DEF Phase, GetsPty, GetsTty
<1>5. ASSUME NEW d \in Clients, Asks(d)
      PROVE  Len(toSrv) = 1 /\ Head(toSrv) = GetFrom(d) /\ toCli = <<>>
  BY <1>1, <1>2, <1>5 DEF Asks
<1>6. Len(toSrv) = 1
  <2>1. CASE reentrant
    BY <1>1, <2>1 DEF CallInv, OneAtATime
  <2>2. CASE ~reentrant
    BY <1>3, <1>4, <1>5, <2>2 DEF TalkOver
  <2> QED
    BY <2>1, <2>2
<1>7. toSrv' = <<>>
  BY <1>2, <1>6, Commands
<1>8. toCli = <<>>
  <2>1. CASE reentrant
    BY <1>1, <2>1 DEF CallInv, OneAtATime
  <2>2. CASE ~reentrant
    BY <1>3, <1>4, <1>5, <2>2 DEF TalkOver
  <2> QED
    BY <2>1, <2>2
<1> QED
  BY <1>3, <1>4, <1>5, <1>7, <1>8

(* The helper answers a get: with the id of a new object, or with none.    *)
LEMMA PhaseGets ==
  ASSUME TypeInv, ExclusionInv, CallInv, Calm, Up, Up', UNCHANGED reentrant,
         SrvGet \/ SrvGetFails
  PROVE  PhaseInv'
<1> USE DEF TypeInv, QueuesOK
<1>1. /\ Reads("get") /\ UNCHANGED <<pc, id, pty, tokC, tokS>>
      /\ srv' # "give" /\ srv = "read"
  BY DEF SrvGet, SrvGetFails, Reads, clientVars, objVars
<1>2. /\ ~TalkOver /\ toSrv' = <<>>
      /\ \A d \in Clients : pc[d] \in {"id", "pty", "tty"} =>
              pc[d] = "id" /\ Head(toSrv) = GetFrom(d) /\ toCli = <<>>
  BY <1>1, GetRead
<1>3. ~TalkOver'
  BY <1>1, <1>2 DEF TalkOver
<1>4. ASSUME NEW d \in Clients, pc[d] = "id", SrvGetFails PROVE Refused'
  <2>1. toCli' = Append(<<>>, Id(Nil)) /\ srv' = "need"
    BY <1>2, <1>4 DEF SrvGetFails, Send, ClientsGone, Id
  <2> QED
    BY <1>2, <2>1, Tuples DEF Refused, Between, Id
<1>5. ASSUME NEW d \in Clients, pc[d] = "id", SrvGet
      PROVE  Serves(d)' /\ Answered(cur, obj[cur].line)'
  <2>1. PICK a \in Addrs \ ptys, l \in Lines :
       /\ obj' = [obj EXCEPT ![a] = [line |-> l, tty |-> TRUE,
                     cmd_pid |-> FALSE, owner |-> Head(toSrv).from]]
       /\ cur' = a
       /\ Send("id", a)
    BY <1>5 DEF SrvGet
  <2>2. Head(toSrv).from = d /\ toCli = <<>> /\ srv' = "pty"
    BY <1>2, <1>5 DEF GetFrom, SrvGet
  <2>3. toCli' = <<Id(a)>>
    BY <1>5, <2>1, <2>2, Tuples DEF Send, ClientsGone, Id
  <2>4. obj'[a] = [line |-> l, tty |-> TRUE, cmd_pid |-> FALSE, owner |-> d]
    BY <2>1, <2>2 DEF HelperOK
  <2>5. obj'[a] \in Object /\ obj'[a].owner = d
    BY <2>4 DEF Object
  <2>6. cur' \in ptys' /\ obj'[cur'].owner = d
    BY <2>1, <2>5, NilAssumption DEF ptys
  <2> QED
    BY <1>2, <2>1, <2>2, <2>3, <2>6 DEF Serves, Answered, Sending, Id
<1>6. ASSUME NEW d \in Clients PROVE Phase(d)'
  BY <1>1, <1>2, <1>4, <1>5 DEF Phase
<1> QED
  BY <1>3, <1>6 DEF PhaseInv

(* The helper sends a descriptor, or fails to. *)
LEMMA PhaseSends ==
  ASSUME TypeInv, ExclusionInv, CallInv, Calm, Up, Up', UNCHANGED reentrant,
         SrvSendPty \/ SrvSendTty
  PROVE  PhaseInv'
<1> USE DEF TypeInv, HelperOK
<1> DEFINE l == obj[cur].line
<1>1. /\ UNCHANGED <<pc, id, pty, tokC, tokS, toSrv, cur>>
      /\ \/ srv = "pty" /\ srv' = "tty"
         \/ srv = "tty" /\ srv' = "need"
  BY DEF SrvSendPty, SrvSendTty, clientVars, objVars
<1>2. ~TalkOver
  BY <1>1 DEF CallInv, PhaseInv, Clear, Sending
<1>3. ~TalkOver'
  BY <1>1, <1>2 DEF TalkOver
<1>4. cur \in ptys /\ obj[cur] \in Object
  BY <1>1 DEF CurOK, ptys
<1>5. cur' \in ptys' /\ obj'[cur'].line = l /\ obj'[cur'].owner = obj[cur].owner
  <2>1. CASE SrvSendPty
    BY <1>1, <1>4, <2>1 DEF SrvSendPty, ptys
  <2>2. CASE SrvSendTty
    <3>1. obj'[cur] = [obj[cur] EXCEPT !.tty = FALSE]
      BY <1>4, <2>2 DEF SrvSendTty, ptys
    <3>2. obj'[cur] \in Object /\ obj'[cur].line = obj[cur].line /\ obj'[cur].owner = obj[cur].owner
      BY <1>4, <3>1 DEF Object
    <3> QED
      BY <1>1, <1>4, <3>2, NilAssumption DEF ptys
  <2> QED
    BY <2>1, <2>2
<1>9. UNCHANGED l
  BY <1>5
<1> HIDE DEF l
<1>6. ASSUME ~ClientsGone
      PROVE  \/ toCli' = toCli /\ srv' # "pty"
             \/ srv = "pty" /\ toCli' = Append(toCli, Pty(l))
             \/ srv = "tty" /\ toCli' = Append(toCli, Tty(l))
  BY <1>6 DEF SrvSendPty, SrvSendTty, Send, Pty, Tty, l
<1>7. ASSUME NEW d \in Clients, Phase(d), ~ClientsGone PROVE Phase(d)'
  <2> DEFINE i == Id(cur)
             p == Pty(l)
             t == Tty(l)
  <2>1. /\ Append(<<>>, p) = <<p>> /\ Append(<<>>, t) = <<t>>
        /\ Append(<<i>>, p) = <<i, p>> /\ Append(<<i>>, t) = <<i, t>>
        /\ Append(<<p>>, t) = <<p, t>> /\ Append(<<i, p>>, t) = <<i, p, t>>
    <3> HIDE DEF i, p, t
    <3> QED
      BY Tuples
  <2>2. Serves(d) => Serves(d)'
    BY <1>1, <1>5 DEF Serves, Sending, Between
  <2>3. ~Between /\ srv' # "pty" /\ (srv = "tty" => Between')
    BY <1>1 DEF Between
  <2>4. CASE pc[d] = "id"
    <3>1. Serves(d) /\ Answered(cur, l)
      BY <1>7, <2>3, <2>4 DEF Phase, Asks, Refused, l
    <3>2. Answered(cur, l)'
      <4>1. CASE srv = "pty"
        BY <1>1, <1>9, <1>6, <1>7, <2>1, <2>3, <3>1, <4>1 DEF Answered
      <4>2. CASE srv = "tty"
        <5>1. toCli \in {<<i>>, <<i, p>>}
          BY <2>3, <3>1 DEF Answered
        <5>2. toCli' \in {<<i>>, <<i, p>>, <<i, t>>, <<i, p, t>>}
          BY <1>6, <1>7, <2>1, <4>2, <5>1
        <5> QED
          BY <1>1, <1>9, <2>3, <4>2, <5>2 DEF Answered
      <4> QED
        BY <1>1, <4>1, <4>2
    <3>3. Answered(cur, obj[cur].line)'
      BY <1>5, <3>2 DEF l
    <3> QED
      BY <1>1, <2>2, <2>4, <3>1, <3>3 DEF Phase
  <2>5. CASE pc[d] = "pty"
    <3>1. Serves(d) /\ id[d] = cur /\ Sent(toCli, l)
      BY <1>7, <2>5 DEF Phase, GetsPty, l
    <3>2. Sent(toCli, l)'
      <4>1. CASE srv = "pty"
        BY <1>1, <1>9, <1>6, <1>7, <2>1, <2>3, <3>1, <4>1 DEF Sent
      <4>2. CASE srv = "tty"
        <5>1. toCli \in {<<>>, <<p>>}
          BY <2>3, <3>1 DEF Sent
        <5>2. toCli' \in {<<>>, <<p>>, <<t>>, <<p, t>>}
          BY <1>6, <1>7, <2>1, <4>2, <5>1
        <5> QED
          BY <1>1, <1>9, <2>3, <4>2, <5>2 DEF Sent
      <4> QED
        BY <1>1, <4>1, <4>2
    <3> QED
      BY <1>1, <2>2, <2>5, <3>1, <3>2 DEF Phase, GetsPty, l
  <2>6. CASE pc[d] = "tty"
    <3>1. Serves(d) /\ id[d] = cur /\ pty[d] = Master(l) /\ srv = "tty" /\ toCli = <<>>
      BY <1>7, <2>3, <2>6 DEF Phase, GetsTty, l
    <3>2. toCli' \in {<<>>, <<t>>}
      BY <1>6, <1>7, <2>1, <3>1
    <3> QED
      BY <1>1, <1>5, <2>2, <2>3, <2>6, <3>1, <3>2 DEF Phase, GetsTty
  <2> QED
    BY <1>1, <2>4, <2>5, <2>6 DEF Phase
<1>8. ASSUME NEW d \in Clients, ClientsGone PROVE Phase(d)'
  BY <1>1, <1>8 DEF Phase, ClientsGone
<1> QED
  BY <1>3, <1>7, <1>8 DEF CallInv, PhaseInv

(* At the start no call is under way.                                      *)
LEMMA CallInit == Init => CallInv
<1> SUFFICES ASSUME Init PROVE CallInv
    OBVIOUS
<1> USE DEF Init
<1>1. OneAtATime /\ Ends /\ TokenQuiet
  BY DEF OneAtATime, Ends, TokenQuiet
<1>2. Clear
  BY DEF Clear, NoGet, Sending
<1>3. \A c \in Clients : Phase(c)
  BY DEF Phase
<1> QED
  BY <1>1, <1>2, <1>3 DEF CallInv, PhaseInv

(* Each step leaves the call where its client and the helper agree it is.  *)
LEMMA PhaseNext ==
  ASSUME "eintr" \notin Env, TypeInv, ExclusionInv, CallInv, [Next]_vars
  PROVE  PhaseInv'
<1>1. UNCHANGED reentrant
  BY DEF Next, vars
<1> SUFFICES ASSUME Calm, Up' PROVE PhaseInv'
  BY <1>1 DEF PhaseInv, Calm
<1>2. Up
  BY UpBefore
<1>3. ASSUME NEW c \in Clients, User(c) \/ Client(c) \/ KillClient(c) PROVE PhaseInv'
  BY <1>1, <1>2, <1>3, PhaseOutside, PhaseWrite, PhaseReads DEF Client
<1>4. ASSUME SrvEof \/ SrvReap PROVE PhaseInv'
  <2>1. /\ UNCHANGED <<pc, toSrv, toCli>> /\ ClientsGone /\ toSrv = <<>> /\ toCli = <<>>
        /\ srv' \notin {"pty", "tty"}
    BY <1>4 DEF SrvEof, SrvReap, clientVars, sockVars, CallInv, Ends
  <2>2. \A d \in Clients : Phase(d)'
    BY <2>1 DEF Phase, ClientsGone
  <2>3. Clear'
    BY <2>1 DEF Clear, Sending, NoGet
  <2> QED
    BY <2>2, <2>3 DEF PhaseInv
<1>5. CASE Helper
  BY <1>1, <1>2, <1>4, <1>5, PhaseTurns, PhaseGets, PhaseSends, PhaseOrders DEF Helper
<1>6. ~KillHelper
  BY DEF KillHelper, Up
<1>7. ASSUME \/ \E c, d \in Clients : Fork(c, d)
             \/ UNCHANGED vars
      PROVE PhaseInv'
  <2>1. /\ UNCHANGED <<pc, toSrv, toCli, srv, cur, obj, tokC, tokS>>
        /\ \A d \in Clients : pc[d] \in {"id", "pty", "tty"} =>
             id'[d] = id[d] /\ pty'[d] = pty[d]
    <3>1. CASE UNCHANGED vars
      BY <3>1 DEF vars, sockVars, srvVars, tokVars, objVars
    <3>2. ASSUME NEW c \in Clients, NEW d \in Clients, Fork(c, d)
          PROVE  /\ UNCHANGED <<pc, toSrv, toCli, srv, cur, obj, tokC, tokS>>
                 /\ \A e \in Clients : pc[e] \in {"id", "pty", "tty"} =>
                      id'[e] = id[e] /\ pty'[e] = pty[e]
      BY <3>2 DEF Fork, sockVars, srvVars, tokVars, TypeInv, ClientsOK
    <3> QED
      BY <1>7, <3>1, <3>2
  <2>2. ASSUME NEW d \in Clients, Phase(d) PROVE Phase(d)'
    <3>1. CASE pc[d] \in {"id", "pty", "tty"}
      BY <2>1, <2>2, <3>1, PhaseKept
    <3>2. CASE pc[d] \notin {"id", "pty", "tty"}
      BY <2>1, <3>2 DEF Phase
    <3> QED
      BY <3>1, <3>2
  <2>3. (TalkOver' => TalkOver) /\ (Clear => Clear')
    BY <1>1, <2>1 DEF TalkOver, Clear, NoGet, Sending
  <2> QED
    BY <1>2, <2>2, <2>3 DEF CallInv, PhaseInv
<1> QED
  BY <1>3, <1>5, <1>6, <1>7 DEF Next, Ended

(* What the calls are, in every reachable state. *)
QuietInv == TypeInv /\ ExclusionInv /\ CallInv

(* It is inductive as long as no signal interrupts a read of lock_fd.      *)
LEMMA QuietInvariant ==
  ASSUME "eintr" \notin Env
  PROVE  Spec => []QuietInv
<1>1. Init => QuietInv
  BY TypeInit, ExclusionInit, CallInit DEF QuietInv
<1>2. QuietInv /\ [Next]_vars => QuietInv'
  <2> SUFFICES ASSUME QuietInv, [Next]_vars PROVE QuietInv'
    OBVIOUS
  <2> QED
    BY TypeNext, ExclusionNext, EndsNext, TokenQuietNext, OneAtATimeNext, PhaseNext
    DEF QuietInv, CallInv
<1> QED
  BY <1>1, <1>2, PTL DEF Spec

(* TokenMeansQuiet, for every number of clients and under every misfortune *)
(* but one: as long as no signal interrupts a read of lock_fd (NEED_TOKEN  *)
(* and the helper's loop ignore the result of read, proxy.C), whoever      *)
(* reads the token finds no byte of an earlier call on the socket, in      *)
(* either direction, even if that call's client was killed or got no       *)
(* descriptor.                                                             *)
THEOREM TokenQuietAlways ==
  ASSUME "eintr" \notin Env
  PROVE  Spec => []TokenMeansQuiet
<1>1. QuietInv => TokenMeansQuiet
  BY DEF QuietInv, CallInv, TokenQuiet, TokenMeansQuiet
<1> QED
  BY <1>1, QuietInvariant, PTL

=============================================================================
