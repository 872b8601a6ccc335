------------------------------ MODULE PtyProxy ------------------------------
(***************************************************************************)
(* The helper protocol of libptytty (src/src/proxy.C).                     *)
(*                                                                         *)
(* One privileged helper process owns every pty.  Any number of threads or *)
(* forked processes (Clients) share one stream socket to it (sock_fd) and  *)
(* one token: a byte that travels on a second socket pair (lock_fd) from   *)
(* the helper to whichever client reads it, and back to the helper when    *)
(* that client's call is over.  A client's call is one of get, login and   *)
(* destroy (the destructor of ptytty_proxy).                               *)
(*                                                                         *)
(* Each client has one ptytty_proxy object at a time: id, pty and tty are  *)
(* its fields.  An application calls get on an object until it has an id.  *)
(* Every system call that can block, fail or be seen by somebody else is a *)
(* step of its own; Env says which misfortunes may befall a run.           *)
(***************************************************************************)
EXTENDS Naturals, Sequences

CONSTANTS
  Clients,    \* threads and forked processes that share sock_fd and lock_fd
  Addrs,      \* addresses that `new ptytty_unix' may return in the helper
  Lines,      \* pseudo terminals of the kernel, each a pty and a tty end
  Nil,        \* the null pointer, the descriptor -1, no object
  Builds,     \* the values of PTYTTY_REENTRANT that are considered
  Env,        \* the Hazards that may happen
  MaxQueue,   \* messages a direction of the socket buffers before write blocks
  MaxTokens   \* bound on the tokens in flight once a signal has forged one

Hazards ==
  { "eintr",        \* a signal handler without SA_RESTART interrupts a read
    "send_fd",      \* sendmsg fails in the helper, or malloc before it
    "recv_fd",      \* the client has no room for a descriptor, or no memory
    "kill_client",  \* a client is killed at any point
    "kill_helper",  \* the helper is killed at any point
    "copy" }        \* a client forks, and parent and child both use the object

Master(l) == <<"pty", l>>
Slave(l)  == <<"tty", l>>
Fd        == {"pty", "tty"} \X Lines

CommandType == {"get", "login", "destroy"}
Command     == [type : CommandType, id : Addrs \cup {Nil}, from : Clients]

(* What a read of the socket may find: an id, a descriptor, or the rest of *)
(* an id whose first byte went to a recv_fd.                               *)
Reply == [kind : {"id"}, val : Addrs \cup {Nil}]
           \cup [kind : {"fd"}, val : Fd] \cup [kind : {"rest"}, val : {Nil}]

(* A ptytty_unix of the helper; owner is the client whose get created it,  *)
(* which the code does not record.                                         *)
Object == [line : Lines, tty : BOOLEAN, cmd_pid : BOOLEAN, owner : Clients]

ASSUME NilAssumption ==
  /\ Nil \notin Addrs
  /\ Nil \notin Fd
  /\ Nil \notin Object

ASSUME ConstantAssumption ==
  /\ Builds \subseteq BOOLEAN
  /\ Env \subseteq Hazards
  /\ MaxQueue \in Nat
  /\ MaxTokens \in Nat

VARIABLES
  reentrant, \* the build option PTYTTY_REENTRANT
  pc,     \* where each client is in its call
  op,     \* the call it is in
  id,     \* ptytty_proxy::id
  pty,    \* ptytty::pty
  tty,    \* ptytty::tty
  res,    \* how the object's last get ended
  holds,  \* the client has read the token and not written it back
  tokC,   \* tokens that a client can read from lock_fd
  tokS,   \* tokens that the helper can read from lock_fd
  toSrv,  \* commands on the socket, client to helper
  toCli,  \* replies on the socket, helper to client
  srv,    \* where the helper is in serve ()
  cur,    \* the address of the object whose descriptors it is sending
  obj,    \* the ptytty_unix objects in the vector ptys, by address
  utmp    \* the lines with a session record in the session database

objVars   == <<id, pty, tty, res>>
tokVars   == <<holds, tokC, tokS>>
sockVars  == <<toSrv, toCli>>
srvVars   == <<srv, cur, obj, utmp>>
vars      == <<reentrant, pc, op, objVars, tokVars, sockVars, srvVars>>

(***************************************************************************)
(* State functions                                                         *)
(***************************************************************************)
Up          == srv \notin {"exit", "killed"}
ClientsGone == \A c \in Clients : pc[c] = "gone"
InCall(c)   == pc[c] \in {"write", "id", "pty", "tty", "give"}
ptys        == {a \in Addrs : obj[a] # Nil}

(* The kernel hands out a line again when nobody has either end open.      *)
InUse(l) ==
  \/ \E a \in ptys : obj[a].line = l
  \/ \E c \in Clients : {pty[c], tty[c]} \cap {Master(l), Slave(l)} # {}
  \/ \E i \in DOMAIN toCli : toCli[i].val \in {Master(l), Slave(l)}

(* What becomes of the replies when client c leaves: the last one to leave *)
(* closes the socket, and descriptors in flight with it.                   *)
RepliesWithout(c) ==
  IF \A d \in Clients \ {c} : pc[d] = "gone" THEN <<>> ELSE toCli

Init ==
  /\ reentrant \in Builds
  /\ pc    = [c \in Clients |-> "idle"]
  /\ op    = [c \in Clients |-> "get"]
  /\ id    = [c \in Clients |-> Nil]
  /\ pty   = [c \in Clients |-> Nil]
  /\ tty   = [c \in Clients |-> Nil]
  /\ res   = [c \in Clients |-> "none"]
  /\ holds = [c \in Clients |-> FALSE]
  /\ tokC  = 0
  /\ tokS  = 0
  /\ toSrv = <<>>
  /\ toCli = <<>>
  /\ srv   = "give"
  /\ cur   = Nil
  /\ obj   = [a \in Addrs |-> Nil]
  /\ utmp  = {}

-----------------------------------------------------------------------------
(***************************************************************************)
(* The client                                                              *)
(***************************************************************************)

(* A client between calls starts one.  Without PTYTTY_REENTRANT the        *)
(* application serialises its calls (ptytty_conf.h).                       *)
Call(c, type) ==
  /\ pc[c] = "idle"
  /\ reentrant \/ \A d \in Clients : pc[d] \in {"idle", "gone"}
  /\ pc' = [pc EXCEPT ![c] = "need"]
  /\ op' = [op EXCEPT ![c] = type]
  /\ UNCHANGED <<id, tokVars, sockVars, srvVars>>

Get(c) ==
  /\ id[c] = Nil
  /\ Call(c, "get")
  /\ res' = [res EXCEPT ![c] = "none"]
  /\ UNCHANGED <<pty, tty>>

Login(c) ==
  /\ Call(c, "login")
  /\ UNCHANGED <<pty, tty, res>>

(* The destructor closes both descriptors before it asks for the token.    *)
Destroy(c) ==
  /\ id[c] # Nil
  /\ Call(c, "destroy")
  /\ pty' = [pty EXCEPT ![c] = Nil]
  /\ tty' = [tty EXCEPT ![c] = Nil]
  /\ res' = [res EXCEPT ![c] = "none"]

CloseTty(c) ==
  /\ pc[c] = "idle"
  /\ tty[c] # Nil
  /\ tty' = [tty EXCEPT ![c] = Nil]
  /\ UNCHANGED <<pc, op, id, pty, res, tokVars, sockVars, srvVars>>

(* The process ends and the kernel closes its descriptors: no destructor.  *)
Gone(c) ==
  /\ pc'    = [pc EXCEPT ![c] = "gone"]
  /\ pty'   = [pty EXCEPT ![c] = Nil]
  /\ tty'   = [tty EXCEPT ![c] = Nil]
  /\ toCli' = RepliesWithout(c)
  /\ UNCHANGED <<op, id, res, tokVars, toSrv, srvVars>>

Exit(c) == pc[c] = "idle" /\ Gone(c)

(* write on a socket whose other end is closed raises SIGPIPE; a client    *)
(* that ignores the signal goes on, because the result is ignored.         *)
BrokenPipe(c, next) ==
  /\ ~Up
  /\ \/ Gone(c)
     \/ /\ pc' = [pc EXCEPT ![c] = next]
        /\ UNCHANGED <<op, objVars, tokVars, sockVars, srvVars>>

(* Mutant of NeedToken: the read is repeated until it returns the token.   *)
NeedTokenInsists(c) ==
  /\ pc[c] = "need"
  /\ tokC > 0
  /\ pc'    = [pc EXCEPT ![c] = "write"]
  /\ tokC'  = tokC - 1
  /\ holds' = [holds EXCEPT ![c] = TRUE]
  /\ UNCHANGED <<op, objVars, tokS, sockVars, srvVars>>

(* NEED_TOKEN: the result of the read is ignored, so the end of file that  *)
(* a dead helper leaves and an interrupted read both count as the token.   *)
NeedToken(c) ==
  /\ pc[c] = "need"
  /\ pc' = [pc EXCEPT ![c] = "write"]
  /\ \/ /\ reentrant /\ tokC > 0
        /\ tokC'  = tokC - 1
        /\ holds' = [holds EXCEPT ![c] = TRUE]
     \/ /\ reentrant => tokC = 0 /\ ~Up
        /\ UNCHANGED <<holds, tokC>>
     \/ /\ reentrant /\ "eintr" \in Env /\ tokC + tokS < MaxTokens
        /\ UNCHANGED <<holds, tokC>>
  /\ UNCHANGED <<op, objVars, tokS, sockVars, srvVars>>

WriteCmd(c) ==
  LET next == IF op[c] = "get" THEN "id" ELSE "give"
      cmd  == [type |-> op[c], from |-> c,
               id   |-> IF op[c] = "get" THEN Nil ELSE id[c]]
  IN  /\ pc[c] = "write"
      /\ \/ /\ Up
            /\ Len(toSrv) < MaxQueue
            /\ toSrv' = Append(toSrv, cmd)
            /\ pc'    = [pc EXCEPT ![c] = next]
            /\ UNCHANGED <<op, objVars, tokVars, toCli, srvVars>>
         \/ BrokenPipe(c, next)

(* An exception leaves get: nothing gives the token back.                  *)
Throw(c) ==
  /\ pc'  = [pc EXCEPT ![c] = "idle"]
  /\ res' = [res EXCEPT ![c] = "threw"]

(* No reply will come: the read returns 0, or -1 when it is interrupted.   *)
ReadFails == (toCli = <<>> /\ ~Up) \/ "eintr" \in Env

(* A stream read stops behind a byte that carries a descriptor, which it   *)
(* drops; but it fills up what is left of one id with the next message.    *)
Rest == [kind |-> "rest", val |-> Nil]

ShortRead ==
  /\ toCli # <<>>
  /\ \/ Head(toCli).kind = "fd"
     \/ Head(toCli) = Rest /\ Len(toCli) = 1
  /\ toCli' = Tail(toCli)

MixedRead ==
  /\ Len(toCli) > 1
  /\ Head(toCli) = Rest
  /\ toCli' = (IF toCli[2].kind = "id" THEN <<Rest>> ELSE <<>>)
                 \o Tail(Tail(toCli))

(* Mutant of ReadId: the path that returns false forgets GIVE_TOKEN.       *)
ReadIdKeepsToken(c) ==
  /\ pc[c] = "id"
  /\ toCli # <<>> /\ Head(toCli).kind = "id"
  /\ id'    = [id EXCEPT ![c] = Head(toCli).val]
  /\ toCli' = Tail(toCli)
  /\ pc'    = [pc EXCEPT ![c] = IF id'[c] = Nil THEN "idle" ELSE "pty"]
  /\ UNCHANGED <<op, pty, tty, res, tokVars, toSrv, srvVars>>

ReadId(c) ==
  /\ pc[c] = "id"
  /\ \/ /\ toCli # <<>> /\ Head(toCli).kind = "id"
        /\ id'    = [id EXCEPT ![c] = Head(toCli).val]
        /\ toCli' = Tail(toCli)
        /\ IF Head(toCli).val = Nil
           THEN /\ pc'  = [pc EXCEPT ![c] = "give"]
                /\ res' = [res EXCEPT ![c] = "fail"]
           ELSE /\ pc'  = [pc EXCEPT ![c] = "pty"]
                /\ UNCHANGED res
     \/ /\ ShortRead
        /\ Throw(c)
        /\ UNCHANGED id
     \/ /\ MixedRead
        /\ id' \in {[id EXCEPT ![c] = a] : a \in Addrs}
        /\ pc' = [pc EXCEPT ![c] = "pty"]
        /\ UNCHANGED res
     \/ /\ ReadFails
        /\ Throw(c)
        /\ UNCHANGED <<id, toCli>>
  /\ UNCHANGED <<op, pty, tty, tokVars, toSrv, srvVars>>

(* ptytty::recv_fd as get uses it: it takes one byte off the stream and    *)
(* returns the descriptor that came with it (Receives), or it returns -1.  *)
Receives(fd) ==
  /\ toCli # <<>>
  /\ Head(toCli) = [kind |-> "fd", val |-> fd]
  /\ toCli' = Tail(toCli)

ReceivesNone ==
  \/ ReadFails /\ UNCHANGED toCli
  \/ "recv_fd" \in Env /\ UNCHANGED toCli
  \/ /\ toCli # <<>>
     /\ CASE Head(toCli).kind = "fd"   -> /\ "recv_fd" \in Env
                                          /\ toCli' = Tail(toCli)
          [] Head(toCli).kind = "id"   ->
               toCli' = <<Rest>> \o Tail(toCli)
          [] Head(toCli).kind = "rest" -> toCli' \in {toCli, Tail(toCli)}

(* Mutant of RecvPty: get leaves the tty for later.                        *)
RecvPtyOnly(c) ==
  /\ pc[c] = "pty"
  /\ \E fd \in Fd : Receives(fd) /\ pty' = [pty EXCEPT ![c] = fd]
  /\ pc'  = [pc EXCEPT ![c] = "give"]
  /\ res' = [res EXCEPT ![c] = "ok"]
  /\ UNCHANGED <<op, id, tty, tokVars, toSrv, srvVars>>

RecvPty(c) ==
  /\ pc[c] = "pty"
  /\ \/ \E fd \in Fd :
          /\ Receives(fd)
          /\ pty' = [pty EXCEPT ![c] = fd]
          /\ pc'  = [pc EXCEPT ![c] = "tty"]
          /\ UNCHANGED res
     \/ ReceivesNone /\ Throw(c) /\ UNCHANGED pty
  /\ UNCHANGED <<op, id, tty, tokVars, toSrv, srvVars>>

RecvTty(c) ==
  /\ pc[c] = "tty"
  /\ \/ \E fd \in Fd :
          /\ Receives(fd)
          /\ tty' = [tty EXCEPT ![c] = fd]
          /\ pc'  = [pc EXCEPT ![c] = "give"]
          /\ res' = [res EXCEPT ![c] = "ok"]
     \/ ReceivesNone /\ Throw(c) /\ UNCHANGED tty
  /\ UNCHANGED <<op, id, pty, tokVars, toSrv, srvVars>>

(* Mutant of GiveToken: the object outlives its destructor.                *)
GiveTokenKeepsObject(c) ==
  /\ pc[c] = "give"
  /\ Up
  /\ pc'    = [pc EXCEPT ![c] = "idle"]
  /\ tokS'  = IF reentrant THEN tokS + 1 ELSE tokS
  /\ holds' = [holds EXCEPT ![c] = FALSE]
  /\ UNCHANGED <<op, objVars, tokC, sockVars, srvVars>>

(* GIVE_TOKEN, and the call returns; the destructor frees the object.      *)
GiveToken(c) ==
  /\ pc[c] = "give"
  /\ \/ /\ reentrant => Up
        /\ pc'    = [pc EXCEPT ![c] = "idle"]
        /\ tokS'  = IF reentrant THEN tokS + 1 ELSE tokS
        /\ holds' = [holds EXCEPT ![c] = FALSE]
        /\ id'    = IF op[c] = "destroy" THEN [id EXCEPT ![c] = Nil] ELSE id
        /\ UNCHANGED <<op, pty, tty, res, tokC, sockVars, srvVars>>
     \/ reentrant /\ BrokenPipe(c, "idle")

-----------------------------------------------------------------------------
(***************************************************************************)
(* The helper: serve ()                                                    *)
(***************************************************************************)
clientVars == <<pc, op, objVars, holds>>

(* With no client left the write of the token fails, which is ignored.     *)
SrvGive ==
  /\ srv = "give"
  /\ srv'  = "read"
  /\ tokC' = IF reentrant /\ ~ClientsGone THEN tokC + 1 ELSE tokC
  /\ UNCHANGED <<clientVars, tokS, sockVars, cur, obj, utmp>>

(* A reply, which goes nowhere when no client is left.                     *)
Send(kind, val) ==
  IF ClientsGone THEN UNCHANGED toCli
  ELSE /\ Len(toCli) < MaxQueue
       /\ toCli' = Append(toCli, [kind |-> kind, val |-> val])

Reads(type) ==
  /\ srv = "read"
  /\ toSrv # <<>>
  /\ Head(toSrv).type = type
  /\ toSrv' = Tail(toSrv)
  /\ UNCHANGED <<clientVars, tokC, tokS>>

(* ptytty_unix::get succeeded: the id goes out and into the vector.        *)
SrvGet ==
  /\ Reads("get")
  /\ \E a \in Addrs \ ptys, l \in {k \in Lines : ~InUse(k)} :
       /\ obj' = [obj EXCEPT ![a] = [line |-> l, tty |-> TRUE,
                     cmd_pid |-> FALSE, owner |-> Head(toSrv).from]]
       /\ cur' = a
       /\ Send("id", a)
  /\ srv' = "pty"
  /\ UNCHANGED utmp

(* Mutant of SrvGetFails: the result of get is ignored, and an object      *)
(* without a line joins the others.                                        *)
SrvGetFailsIgnored ==
  /\ Reads("get")
  /\ \E a \in Addrs \ ptys :
       /\ obj' = [obj EXCEPT ![a] = [line |-> Nil, tty |-> FALSE, cmd_pid |-> FALSE,
                                    owner |-> Head(toSrv).from]]
       /\ cur' = a
       /\ Send("id", a)
  /\ srv' = "pty"
  /\ UNCHANGED utmp

SrvGetFails ==
  /\ Reads("get")
  /\ Send("id", Nil)
  /\ srv' = "need"
  /\ UNCHANGED <<cur, obj, utmp>>

SrvSendPty ==
  /\ srv = "pty"
  /\ \/ Send("fd", Master(obj[cur].line))
     \/ "send_fd" \in Env /\ UNCHANGED toCli
  /\ srv' = "tty"
  /\ UNCHANGED <<clientVars, tokC, tokS, toSrv, cur, obj, utmp>>

(* Mutant of SrvSendTty: no close_tty.                                     *)
SrvSendTtyKeepsIt ==
  /\ srv = "tty"
  /\ Send("fd", Slave(obj[cur].line))
  /\ srv' = "need"
  /\ UNCHANGED <<clientVars, tokC, tokS, toSrv, cur, obj, utmp>>

SrvSendTty ==
  /\ srv = "tty"
  /\ \/ Send("fd", Slave(obj[cur].line))
     \/ "send_fd" \in Env /\ UNCHANGED toCli
  /\ obj' = [obj EXCEPT ![cur].tty = FALSE]
  /\ srv' = "need"
  /\ UNCHANGED <<clientVars, tokC, tokS, toSrv, cur, utmp>>

(* ptytty_unix::login records the session and remembers its process.       *)
SrvLogin ==
  /\ Reads("login")
  /\ IF Head(toSrv).id \in ptys
     THEN LET a == Head(toSrv).id
          IN  /\ obj'  = [obj EXCEPT ![a].cmd_pid = TRUE]
              /\ utmp' = utmp \cup {obj[a].line}
     ELSE UNCHANGED <<obj, utmp>>
  /\ srv' = "need"
  /\ UNCHANGED <<toCli, cur>>

(* Mutant of Delete: no log_session (false, 0).                            *)
DeleteKeepsSession(a) ==
  obj' = [obj EXCEPT ![a] = Nil] /\ UNCHANGED utmp

(* delete: the destructor of ptytty_unix ends the session it recorded and  *)
(* closes the pty.                                                         *)
Delete(a) ==
  /\ obj'  = [obj EXCEPT ![a] = Nil]
  /\ utmp' = IF obj[a].cmd_pid THEN utmp \ {obj[a].line} ELSE utmp

(* Mutants of SrvDestroy: it deletes whatever the vector holds; it forgets *)
(* to delete.                                                              *)
SrvDestroyAny ==
  /\ Reads("destroy")
  /\ IF Head(toSrv).id \in ptys
     THEN \E a \in ptys : Delete(a)
     ELSE UNCHANGED <<obj, utmp>>
  /\ srv' = "need"
  /\ UNCHANGED <<toCli, cur>>

SrvDestroyNone ==
  /\ Reads("destroy")
  /\ srv' = "need"
  /\ UNCHANGED <<toCli, cur, obj, utmp>>

SrvDestroy ==
  /\ Reads("destroy")
  /\ IF Head(toSrv).id \in ptys
     THEN Delete(Head(toSrv).id)
     ELSE UNCHANGED <<obj, utmp>>
  /\ srv' = "need"
  /\ UNCHANGED <<toCli, cur>>

(* Mutants of SrvNeed: serve forgets NEED_TOKEN; it repeats the read until *)
(* it returns a byte.                                                      *)
SrvNeedNothing ==
  /\ srv = "need"
  /\ srv' = "give"
  /\ UNCHANGED <<clientVars, tokC, tokS, sockVars, cur, obj, utmp>>

SrvNeedInsists ==
  /\ srv = "need"
  /\ tokS > 0
  /\ tokS' = tokS - 1
  /\ srv'  = "give"
  /\ UNCHANGED <<clientVars, tokC, sockVars, cur, obj, utmp>>

SrvNeed ==
  /\ srv = "need"
  /\ \/ reentrant /\ tokS > 0 /\ tokS' = tokS - 1
     \/ (reentrant => tokS = 0 /\ ClientsGone) /\ UNCHANGED tokS
  /\ srv' = "give"
  /\ UNCHANGED <<clientVars, tokC, sockVars, cur, obj, utmp>>

(* End of file on the socket: leave the loop, destroy all ptys, _exit.     *)
SrvEof ==
  /\ srv = "read"
  /\ toSrv = <<>>
  /\ ClientsGone
  /\ srv' = "reap"
  /\ UNCHANGED <<clientVars, tokC, tokS, sockVars, cur, obj, utmp>>

SrvReap ==
  /\ srv = "reap"
  /\ IF ptys = {}
     THEN srv' = "exit" /\ UNCHANGED <<obj, utmp>>
     ELSE srv' = srv /\ \E a \in ptys : Delete(a)
  /\ UNCHANGED <<clientVars, tokC, tokS, sockVars, cur>>

Helper ==
  /\ \/ SrvGive \/ SrvGet \/ SrvGetFails \/ SrvSendPty \/ SrvSendTty
     \/ SrvLogin \/ SrvDestroy \/ SrvNeed \/ SrvEof \/ SrvReap
  /\ UNCHANGED reentrant

-----------------------------------------------------------------------------
(***************************************************************************)
(* The environment                                                         *)
(***************************************************************************)
KillClient(c) ==
  /\ "kill_client" \in Env
  /\ pc[c] \notin {"idle", "gone"}
  /\ Gone(c)

(* Its memory and descriptors go; the session database stays as it was.    *)
KillHelper ==
  /\ "kill_helper" \in Env
  /\ Up
  /\ srv'   = "killed"
  /\ obj'   = [a \in Addrs |-> Nil]
  /\ toSrv' = <<>>
  /\ UNCHANGED <<clientVars, tokC, tokS, toCli, cur, utmp>>

(* c forks; the child d starts with a copy of c's object and descriptors.  *)
Fork(c, d) ==
  /\ "copy" \in Env
  /\ pc[c] = "idle" /\ pc[d] = "idle"
  /\ id[c] # Nil /\ id[d] = Nil
  /\ id'  = [id EXCEPT ![d] = id[c]]
  /\ pty' = [pty EXCEPT ![d] = pty[c]]
  /\ tty' = [tty EXCEPT ![d] = tty[c]]
  /\ res' = [res EXCEPT ![d] = res[c]]
  /\ UNCHANGED <<pc, op, tokVars, sockVars, srvVars>>

Client(c) ==
  /\ \/ NeedToken(c) \/ WriteCmd(c) \/ ReadId(c)
     \/ RecvPty(c) \/ RecvTty(c) \/ GiveToken(c)
  /\ UNCHANGED reentrant

User(c) == Get(c) \/ Login(c) \/ Destroy(c) \/ CloseTty(c) \/ Exit(c)

(* Every process has ended; the behaviour stutters from here.              *)
Ended == ClientsGone /\ ~Up /\ UNCHANGED vars

Next ==
  /\ \/ \E c \in Clients : User(c) \/ Client(c) \/ KillClient(c)
     \/ \E c, d \in Clients : Fork(c, d)
     \/ Helper
     \/ KillHelper
     \/ Ended
  /\ UNCHANGED reentrant

Spec == Init /\ [][Next]_vars

(* The kernel runs every process that is not blocked, and of the clients   *)
(* that wait in a read of lock_fd none is passed over for ever.            *)
Fairness ==
  /\ WF_vars(Helper)
  /\ \A c \in Clients : WF_vars(Client(c)) /\ SF_vars(NeedToken(c) /\ UNCHANGED reentrant)

FairSpec == Spec /\ Fairness

-----------------------------------------------------------------------------
(***************************************************************************)
(* Properties                                                              *)
(***************************************************************************)
TypeOK ==
  /\ reentrant \in BOOLEAN
  /\ pc    \in [Clients -> {"idle", "need", "write", "id", "pty", "tty",
                            "give", "gone"}]
  /\ op    \in [Clients -> CommandType]
  /\ id    \in [Clients -> Addrs \cup {Nil}]
  /\ pty   \in [Clients -> Fd \cup {Nil}]
  /\ tty   \in [Clients -> Fd \cup {Nil}]
  /\ res   \in [Clients -> {"none", "ok", "fail", "threw"}]
  /\ holds \in [Clients -> BOOLEAN]
  /\ tokC  \in Nat
  /\ tokS  \in Nat
  /\ toSrv \in Seq(Command)
  /\ toCli \in Seq(Reply)
  /\ srv   \in {"give", "read", "pty", "tty", "need", "reap", "exit",
                "killed"}
  /\ cur   \in Addrs \cup {Nil}
  /\ obj   \in [Addrs -> Object \cup {Nil}]
  /\ utmp  \subseteq Lines

(* The token makes the calls of different clients exclusive: while the     *)
(* helper lives, no two of them are between NEED_TOKEN and GIVE_TOKEN.     *)
MutualExclusion ==
  Up => \A c, d \in Clients : InCall(c) /\ InCall(d) => c = d

(* A client that can read the token finds the socket clean in both         *)
(* directions: whatever happened to earlier calls, no byte of them is left *)
(* for the next call to mistake for its own.                               *)
TokenMeansQuiet == tokC > 0 => toSrv = <<>> /\ toCli = <<>>

(* A client whose get returned true has a pty and a tty of one line, even  *)
(* when the helper that sent them is dead; until then its id names an      *)
(* object of that line that this client's own get created.                 *)
OwnsItsPty ==
  \A c \in Clients :
    res[c] = "ok" /\ pc[c] # "gone" =>
      \E l \in Lines :
        /\ pty[c] = Master(l) /\ tty[c] \in {Slave(l), Nil}
        /\ srv # "killed" =>
             id[c] \in ptys /\ obj[id[c]].owner = c /\ obj[id[c]].line = l

(* A queued login or destroy will act on the pty of the client that sent   *)
(* it, and never on one that got the same address later.                   *)
CommandsReachOwner ==
  \A i \in DOMAIN toSrv :
    LET cmd == toSrv[i]
    IN  cmd.type # "get" /\ cmd.id # Nil =>
          cmd.id \in ptys /\ obj[cmd.id].owner = cmd.from

(* When nothing is under way the helper keeps only the ptys of live        *)
(* objects and of processes that ended without destroying theirs, and it   *)
(* keeps no tty open: a reader of the pty must see the child hang up.      *)
NothingLeaks ==
  srv = "read" /\ toSrv = <<>> /\ (\A c \in Clients : ~InCall(c)) =>
    \A a \in ptys :
      LET c == obj[a].owner
      IN  /\ pc[c] = "gone" \/ id[c] = a
          /\ ~obj[a].tty

(* Until it is killed the helper can end every session that is recorded:   *)
(* the lines in the database are those of its objects with a cmd_pid.      *)
SessionsTracked ==
  srv # "killed" =>
    utmp = {l \in Lines : \E a \in ptys : obj[a].line = l /\ obj[a].cmd_pid}

Returned(c) == pc[c] \in {"idle", "gone"}

(* The destructor of an object ends.                                       *)
DestroyReturns ==
  \A c \in Clients : (op[c] = "destroy" /\ ~Returned(c)) ~> Returned(c)

(* Every call returns, whatever the other clients do.                      *)
CallsReturn == \A c \in Clients : ~Returned(c) ~> Returned(c)

(* The death of the helper blocks nobody: every call then under way ends.  *)
HelperDeathUnblocks ==
  \A c \in Clients : (srv = "killed" /\ ~Returned(c)) ~> Returned(c)

(* When the last process that shares the socket is gone, in whatever state *)
(* it left the protocol, the helper ends every session and exits.          *)
HelperCleansUp ==
  ClientsGone ~> srv = "killed" \/ (srv = "exit" /\ ptys = {} /\ utmp = {})

=============================================================================
