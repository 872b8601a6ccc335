------------------------ MODULE PtyProxyOwner_proofs ------------------------
(***************************************************************************)
(* Who owns what, for every number of clients, addresses and lines.  The   *)
(* helper knows its objects by their addresses, a client has the address   *)
(* from a reply it was sent, and the commands queued between them repeat   *)
(* it.  Three invariants say that these agree: OwnInv, of the ids in the   *)
(* clients and in the queue; LineInv, of the descriptors on the socket;    *)
(* LeakInv, of the objects that the helper keeps.  They rest on the phases *)
(* of the calls (PtyProxy_proofs).                                         *)
(***************************************************************************)
EXTENDS PtyProxy_proofs

(* Object a of the helper was created for client c; no destroy of it is    *)
(* queued; c has written its destroy and not returned.                     *)
Owns(c, a) == a \in ptys /\ obj[a].owner = c

NoDestroyOf(a) ==
  \A i \in DOMAIN toSrv : toSrv[i].type = "destroy" => toSrv[i].id # a

Destroyed(c) == pc[c] = "give" /\ op[c] = "destroy"

(* A queued command with an id names an object of the client that sent it. *)
CommandsMeant ==
  \A i \in DOMAIN toSrv :
    /\ toSrv[i].type = "get" => toSrv[i].id = Nil
    /\ toSrv[i].type = "destroy" => toSrv[i].id # Nil
    /\ toSrv[i].id # Nil => Owns(toSrv[i].from, toSrv[i].id)

(* Nothing is queued for an object behind its destroy.                     *)
DestroyedLast ==
  \A i, j \in DOMAIN toSrv :
    toSrv[i].type = "destroy" /\ i < j => toSrv[j].id # toSrv[i].id

(* An id that a client holds, until it has destroyed it, names an object   *)
(* of the helper that was created for it, and that no queued destroy will  *)
(* delete.                                                                 *)
ClientOwns ==
  \A c \in Clients :
    pc[c] # "gone" /\ id[c] # Nil /\ ~Destroyed(c) =>
      Owns(c, id[c]) /\ NoDestroyOf(id[c])

(* What the fields of an object can be during its calls: get starts        *)
(* without an id and has no result until it ends, and destroy has an id    *)
(* but no pty.                                                             *)
CallField(c) ==
  /\ pc[c] \in {"id", "pty", "tty"} => op[c] = "get"
  /\ op[c] = "get" /\ pc[c] \in {"need", "write", "id"} => id[c] = Nil
  /\ op[c] = "get" /\ pc[c] \in {"need", "write", "id", "pty", "tty"} => res[c] = "none"
  /\ op[c] = "destroy" /\ pc[c] \in {"need", "write", "give"} =>
       id[c] # Nil /\ res[c] = "none"

CallFields == \A c \in Clients : CallField(c)

(* None of it outlives the helper but the fields of the objects.           *)
OwnInv ==
  /\ CallFields
  /\ srv # "killed" => CommandsMeant /\ DestroyedLast /\ ClientOwns

(* What a step does to the objects of the helper. *)
Stays(a) ==
  a \in ptys' /\ obj'[a].owner = obj[a].owner /\ obj'[a].line = obj[a].line

(* Nothing that a client does changes what the helper keeps.               *)
LEMMA ClientLeavesHelper ==
  ASSUME NEW c \in Clients, User(c) \/ Client(c) \/ KillClient(c)
  PROVE  UNCHANGED srvVars
BY DEF User, Get, Login, Destroy, Call, CloseTty, Exit, Gone, Client, NeedToken,
       WriteCmd, BrokenPipe, ReadId, RecvPty, RecvTty, GiveToken, KillClient

(* The helper's get: a new object, at an address where there was none,     *)
(* whose id is sent to the client.                                         *)
LEMMA NewObject ==
  ASSUME TypeInv, SrvGet
  PROVE  \E a \in Addrs \ ptys, l \in Lines :
           /\ Send("id", a)
           /\ cur' = a
           /\ ptys' = ptys \cup {a}
           /\ obj'[a] = [line |-> l, tty |-> TRUE, cmd_pid |-> FALSE,
                         owner |-> Head(toSrv).from]
           /\ \A b \in ptys : obj'[b] = obj[b]
<1> USE DEF TypeInv, HelperOK, QueuesOK
<1>1. PICK a \in Addrs \ ptys, l \in Lines :
       /\ obj' = [obj EXCEPT ![a] = [line |-> l, tty |-> TRUE,
                     cmd_pid |-> FALSE, owner |-> Head(toSrv).from]]
       /\ cur' = a
       /\ Send("id", a)
  BY DEF SrvGet
<1>2. Head(toSrv).from \in Clients
  BY WriteTypes DEF SrvGet, Reads, Command
<1>3. /\ obj'[a] = [line |-> l, tty |-> TRUE, cmd_pid |-> FALSE,
                    owner |-> Head(toSrv).from]
      /\ \A b \in Addrs \ {a} : obj'[b] = obj[b]
  BY <1>1
<1>4. obj'[a] \in Object
  BY <1>2, <1>3 DEF Object
<1>5. ptys' = ptys \cup {a} /\ \A b \in ptys : obj'[b] = obj[b]
  BY <1>3, <1>4, NilAssumption DEF ptys
<1> QED
  BY <1>1, <1>3, <1>5

(* Only destroy and the end of the helper delete objects.                  *)
LEMMA ObjectsStay ==
  ASSUME TypeInv, [Next]_vars,
         ~SrvDestroy, ~SrvReap, ~KillHelper
  PROVE  \A a \in ptys : Stays(a)
<1> USE DEF TypeInv, HelperOK, Stays
<1>1. CASE UNCHANGED obj
  BY <1>1 DEF ptys
<1>2. CASE SrvGet
  BY <1>2, NewObject
<1>3. CASE SrvSendTty
  <2>1. cur \in ptys /\ obj[cur] \in Object
    BY <1>3 DEF SrvSendTty, CurOK, ptys
  <2>2. obj'[cur] = [obj[cur] EXCEPT !.tty = FALSE] /\ \A b \in Addrs \ {cur} : obj'[b] = obj[b]
    BY <1>3, <2>1 DEF SrvSendTty, ptys
  <2>3. obj'[cur] \in Object /\ obj'[cur].line = obj[cur].line /\ obj'[cur].owner = obj[cur].owner
    BY <2>1, <2>2 DEF Object
  <2> QED
    BY <2>1, <2>2, <2>3, NilAssumption DEF ptys
<1>4. CASE SrvLogin
  <2> DEFINE b == Head(toSrv).id
  <2>1. CASE b \notin ptys
    BY <1>1, <1>4, <2>1 DEF SrvLogin
  <2>2. CASE b \in ptys
    <3>1. obj' = [obj EXCEPT ![b].cmd_pid = TRUE]
      BY <1>4, <2>2 DEF SrvLogin
    <3>2. b \in Addrs /\ obj[b] \in Object
      BY <2>2 DEF ptys
    <3> HIDE DEF b
    <3>3. obj'[b] = [obj[b] EXCEPT !.cmd_pid = TRUE] /\ \A a \in Addrs : a # b => obj'[a] = obj[a]
      BY <3>1, <3>2
    <3>4. obj'[b] \in Object /\ obj'[b].line = obj[b].line /\ obj'[b].owner = obj[b].owner
      BY <3>2, <3>3 DEF Object
    <3> QED
      BY <3>2, <3>3, <3>4, NilAssumption DEF ptys
  <2> QED
    BY <2>1, <2>2
<1>5. CASE SrvGive \/ SrvGetFails \/ SrvSendPty \/ SrvNeed \/ SrvEof
  BY <1>1, <1>5 DEF SrvGive, SrvGetFails, Reads, SrvSendPty, SrvNeed, SrvEof
<1>6. ASSUME NEW c \in Clients, User(c) \/ Client(c) \/ KillClient(c) PROVE UNCHANGED obj
  BY <1>6, ClientLeavesHelper DEF srvVars
<1>7. ASSUME NEW c \in Clients, NEW d \in Clients, Fork(c, d) PROVE UNCHANGED obj
  BY <1>7 DEF Fork, srvVars
<1>8. UNCHANGED vars => UNCHANGED obj
  BY DEF vars, srvVars
<1> QED
  BY <1>1, <1>2, <1>3, <1>4, <1>5, <1>6, <1>7, <1>8 DEF Next, Helper, Ended

(* And destroy deletes the one that the command names.                     *)
LEMMA ObjectDeleted ==
  ASSUME TypeInv, SrvDestroy
  PROVE  \A a \in ptys : a # Head(toSrv).id => Stays(a) /\ obj'[a] = obj[a]
<1> USE DEF TypeInv, HelperOK, Stays, ptys
<1>1. CASE Head(toSrv).id \in ptys
  BY <1>1 DEF SrvDestroy, Delete
<1>2. CASE Head(toSrv).id \notin ptys
  BY <1>2 DEF SrvDestroy
<1> QED
  BY <1>1, <1>2

-----------------------------------------------------------------------------
(* The fields of an object in a call. *)
LEMMA CallFieldsNext ==
  ASSUME "copy" \notin Env, TypeInv, OwnInv, [Next]_vars
  PROVE  CallFields'
<1> USE DEF TypeInv, ClientsOK
<1>1. CallFields
  BY DEF OwnInv
<1>2. CASE UNCHANGED <<pc, op, id, res>>
  BY <1>1, <1>2 DEF CallFields, CallField
<1>3. Helper \/ KillHelper \/ UNCHANGED vars => UNCHANGED <<pc, op, id, res>>
  BY DEF Helper, SrvGive, SrvGet, SrvGetFails, SrvSendPty, SrvSendTty, SrvLogin,
         SrvDestroy, SrvNeed, SrvEof, SrvReap, Reads, KillHelper, clientVars,
         objVars, vars
<1>4. ASSUME NEW c \in Clients, NEW d \in Clients, Fork(c, d) PROVE FALSE
  BY <1>4 DEF Fork
<1>5. ASSUME NEW c \in Clients,
             \A d \in Clients \ {c} : /\ pc'[d] = pc[d] /\ op'[d] = op[d]
                                      /\ id'[d] = id[d] /\ res'[d] = res[d],
             \/ pc'[c] \in {"idle", "gone"}
             \/ /\ pc'[c] = "need"
                /\ op'[c] = "get" => id'[c] = Nil /\ res'[c] = "none"
                /\ op'[c] = "destroy" => id'[c] # Nil /\ res'[c] = "none"
             \/ /\ pc'[c] = "give" /\ op'[c] = "get"
             \/ /\ pc[c] = "need" /\ pc'[c] = "write"
                /\ op'[c] = op[c] /\ id'[c] = id[c] /\ res'[c] = res[c]
             \/ /\ pc[c] = "write" /\ pc'[c] = IF op[c] = "get" THEN "id" ELSE "give"
                /\ op'[c] = op[c] /\ id'[c] = id[c] /\ res'[c] = res[c]
             \/ /\ pc[c] = "id" /\ pc'[c] = "pty" /\ op'[c] = op[c] /\ res'[c] = res[c]
             \/ /\ pc[c] = "pty" /\ pc'[c] = "tty" /\ op'[c] = op[c] /\ res'[c] = res[c]
      PROVE  CallFields'
  <2>1. ASSUME NEW d \in Clients \ {c} PROVE CallField(d)'
    BY <1>1, <1>5, <2>1 DEF CallFields, CallField
  <2>2. CallField(c)'
    BY <1>1, <1>5 DEF CallFields, CallField
  <2> QED
    BY <2>1, <2>2 DEF CallFields
<1>6. ASSUME NEW c \in Clients, Gone(c) PROVE CallFields'
  BY <1>5, <1>6 DEF Gone
<1>7. ASSUME NEW c \in Clients, User(c) \/ KillClient(c) PROVE CallFields'
  <2>1. CASE Get(c) \/ Login(c) \/ Destroy(c)
    BY <1>5, <2>1 DEF Get, Login, Destroy, Call
  <2>2. CASE CloseTty(c)
    BY <1>2, <2>2 DEF CloseTty
  <2> QED
    BY <1>6, <1>7, <2>1, <2>2 DEF User, Exit, KillClient
<1>8. ASSUME NEW c \in Clients, Client(c) PROVE CallFields'
  <2>1. CASE NeedToken(c)
    BY <1>5, <2>1 DEF NeedToken, objVars
  <2>2. CASE WriteCmd(c)
    <3>1. CASE Gone(c)
      BY <1>6, <3>1
    <3>2. CASE ~Gone(c)
      BY <1>5, <2>2, <3>2 DEF WriteCmd, BrokenPipe, objVars
    <3> QED
      BY <3>1, <3>2
  <2>3. CASE ReadId(c)
    <3>1. op[c] = "get" /\ UNCHANGED op
      BY <1>1, <2>3 DEF ReadId, CallFields, CallField
    <3>2. \A d \in Clients \ {c} : pc'[d] = pc[d] /\ id'[d] = id[d] /\ res'[d] = res[d]
      BY <2>3 DEF ReadId, Throw
    <3>3. \/ pc'[c] \in {"idle", "give"}
          \/ pc[c] = "id" /\ pc'[c] = "pty" /\ res'[c] = res[c]
      BY <2>3 DEF ReadId, Throw
    <3> QED
      BY <1>5, <3>1, <3>2, <3>3
  <2>4. CASE RecvPty(c)
    <3>1. op[c] = "get" /\ UNCHANGED op
      BY <1>1, <2>4 DEF RecvPty, CallFields, CallField
    <3> QED
      BY <1>5, <2>4, <3>1 DEF RecvPty, Throw
  <2>5. CASE RecvTty(c)
    <3>1. op[c] = "get" /\ UNCHANGED op
      BY <1>1, <2>5 DEF RecvTty, CallFields, CallField
    <3> QED
      BY <1>5, <2>5, <3>1 DEF RecvTty, Throw
  <2>6. CASE GiveToken(c)
    <3>1. CASE Gone(c)
      BY <1>6, <3>1
    <3>2. CASE ~Gone(c)
      <4>1. \A d \in Clients \ {c} :
              pc'[d] = pc[d] /\ id'[d] = id[d] /\ res'[d] = res[d] /\ op'[d] = op[d]
        BY <2>6, <3>2 DEF GiveToken, BrokenPipe, objVars
      <4>2. pc'[c] = "idle"
        BY <2>6, <3>2 DEF GiveToken, BrokenPipe
      <4> QED
        BY <1>5, <4>1, <4>2
    <3> QED
      BY <3>1, <3>2
  <2> QED
    BY <1>8, <2>1, <2>2, <2>3, <2>4, <2>5, <2>6 DEF Client
<1> QED
  BY <1>2, <1>3, <1>4, <1>7, <1>8 DEF Next, Ended

(* Taking the head off the queue keeps what is known of the rest. *)
LEMMA QueueRest ==
  ASSUME TypeInv, toSrv # <<>>, toSrv' = Tail(toSrv), CommandsMeant, DestroyedLast,
         \A a \in ptys : Stays(a) \/ (Head(toSrv).type = "destroy" /\ a = Head(toSrv).id)
  PROVE  /\ CommandsMeant' /\ DestroyedLast'
         /\ \A a : NoDestroyOf(a) => NoDestroyOf(a)'
<1> USE DEF TypeInv, QueuesOK
<1>1. /\ Len(toSrv) \in Nat \ {0} /\ DOMAIN toSrv = 1 .. Len(toSrv)
      /\ Head(toSrv) = toSrv[1] /\ 1 \in DOMAIN toSrv
  BY Commands
<1>2. DOMAIN toSrv' = 1 .. Len(toSrv) - 1
  BY <1>1, Commands
<1>3. \A i \in DOMAIN toSrv' : i + 1 \in DOMAIN toSrv /\ i + 1 > 1 /\ toSrv'[i] = toSrv[i + 1]
  BY <1>1, <1>2, Commands
<1>4. DestroyedLast'
  <2> SUFFICES ASSUME NEW i \in DOMAIN toSrv', NEW j \in DOMAIN toSrv',
                      toSrv'[i].type = "destroy", i < j
               PROVE  toSrv'[j].id # toSrv'[i].id
      BY DEF DestroyedLast
  <2>1. i + 1 < j + 1
    BY <1>2
  <2> QED
    BY <1>3, <2>1 DEF DestroyedLast
<1>5. ASSUME NEW i \in DOMAIN toSrv'
      PROVE  /\ toSrv'[i].type = "get" => toSrv'[i].id = Nil
             /\ toSrv'[i].type = "destroy" => toSrv'[i].id # Nil
             /\ toSrv'[i].id # Nil => Owns(toSrv[i].from, toSrv[i].id)'
  <2> DEFINE m == toSrv[i + 1]
  <2>1. /\ toSrv'[i] = m
        /\ m.type = "get" => m.id = Nil
        /\ m.type = "destroy" => m.id # Nil
        /\ m.id # Nil => Owns(m.from, m.id)
    BY <1>3 DEF CommandsMeant
  <2>2. Head(toSrv).type = "destroy" => m.id # Head(toSrv).id
    BY <1>1, <1>3 DEF DestroyedLast
  <2>3. m.id # Nil => Stays(m.id)
    BY <2>1, <2>2 DEF Owns
  <2> QED
    BY <2>1, <2>3 DEF Owns, Stays
<1>6. CommandsMeant'
  BY <1>5 DEF CommandsMeant
<1>7. \A a : NoDestroyOf(a) => NoDestroyOf(a)'
  BY <1>3 DEF NoDestroyOf
<1> QED
  BY <1>4, <1>6, <1>7

(* The helper executes a command: what it leaves is still owned.           *)
LEMMA OwnHelper ==
  ASSUME QuietInv, OwnInv, [Next]_vars, Helper, srv' # "killed"
  PROVE  (CommandsMeant /\ DestroyedLast /\ ClientOwns)'
<1> USE DEF QuietInv
<1>1. /\ srv # "killed" /\ UNCHANGED <<pc, op, id>>
  BY DEF Helper, SrvGive, SrvGet, SrvGetFails, SrvSendPty, SrvSendTty, SrvLogin,
         SrvDestroy, SrvNeed, SrvEof, SrvReap, Reads, clientVars, objVars
<1>2. CommandsMeant /\ DestroyedLast /\ ClientOwns
  BY <1>1 DEF OwnInv
<1>3. ~KillHelper
  BY DEF KillHelper
<1>4. ASSUME SrvReap PROVE (CommandsMeant /\ DestroyedLast /\ ClientOwns)'
  <2>1. ClientsGone /\ toSrv = <<>> /\ toSrv' = <<>>
    BY <1>4 DEF SrvReap, sockVars, CallInv, Ends
  <2> QED
    BY <1>1, <2>1 DEF CommandsMeant, DestroyedLast, ClientOwns, ClientsGone
<1>5. ASSUME ~SrvReap
      PROVE  toSrv' = toSrv \/ (toSrv # <<>> /\ toSrv' = Tail(toSrv))
  BY <1>5 DEF Helper, SrvGive, SrvGet, SrvGetFails, SrvSendPty, SrvSendTty, SrvLogin,
         SrvDestroy, SrvNeed, SrvEof, Reads, sockVars
<1>6. ASSUME ~SrvReap, ~SrvDestroy PROVE (CommandsMeant /\ DestroyedLast /\ ClientOwns)'
  <2>1. \A a \in ptys : Stays(a)
    BY <1>3, <1>6, ObjectsStay
  <2>2. /\ CommandsMeant' /\ DestroyedLast'
        /\ \A a : NoDestroyOf(a) => NoDestroyOf(a)'
    <3>1. CASE toSrv' = toSrv
      BY <1>2, <2>1, <3>1 DEF CommandsMeant, DestroyedLast, NoDestroyOf, Owns, Stays
    <3>2. CASE toSrv # <<>> /\ toSrv' = Tail(toSrv)
      BY <1>2, <2>1, <3>2, QueueRest
    <3> QED
      BY <1>5, <1>6, <3>1, <3>2
  <2>3. ClientOwns'
    BY <1>1, <1>2, <2>1, <2>2 DEF ClientOwns, Owns, Stays, Destroyed
  <2> QED
    BY <2>2, <2>3
<1>7. ASSUME SrvDestroy PROVE (CommandsMeant /\ DestroyedLast /\ ClientOwns)'
  <2> DEFINE a == Head(toSrv).id
  <2>1. /\ toSrv # <<>> /\ toSrv' = Tail(toSrv) /\ Head(toSrv).type = "destroy"
    BY <1>7 DEF SrvDestroy, Reads
  <2>2. \A b \in ptys : b # a => Stays(b)
    BY <1>7, ObjectDeleted
  <2>3. /\ CommandsMeant' /\ DestroyedLast'
        /\ \A b : NoDestroyOf(b) => NoDestroyOf(b)'
    BY <1>2, <2>1, <2>2, QueueRest
  <2>4. Head(toSrv) = toSrv[1] /\ 1 \in DOMAIN toSrv
    BY <2>1, Commands DEF TypeInv, QueuesOK
  <2>5. ~NoDestroyOf(a)
    BY <2>1, <2>4 DEF NoDestroyOf
  <2> HIDE DEF a
  <2>6. ClientOwns'
    BY <1>1, <1>2, <2>2, <2>3, <2>5 DEF ClientOwns, Owns, Stays, Destroyed
  <2> QED
    BY <2>3, <2>6
<1> QED
  BY <1>4, <1>6, <1>7

(* A client adds to the queue only what is its own. *)
LEMMA OwnWrite ==
  ASSUME QuietInv, OwnInv, srv # "killed", NEW c \in Clients, WriteCmd(c)
  PROVE  (CommandsMeant /\ DestroyedLast /\ ClientOwns)'
<1> USE DEF QuietInv, TypeInv, ClientsOK, QueuesOK
<1> DEFINE m == [type |-> op[c], from |-> c, id |-> IF op[c] = "get" THEN Nil ELSE id[c]]
           next == IF op[c] = "get" THEN "id" ELSE "give"
<1>1. CommandsMeant /\ DestroyedLast /\ ClientOwns /\ CallField(c)
  BY DEF OwnInv, CallFields
<1>2. pc[c] = "write" /\ Up
  BY DEF WriteCmd, CallInv, Ends, ClientsGone, HelperOK, Up
<1>3. /\ pc' = [pc EXCEPT ![c] = next]
      /\ toSrv' = Append(toSrv, m)
      /\ UNCHANGED <<id, op, srv, obj>>
  BY <1>2 DEF WriteCmd, BrokenPipe, srvVars, objVars
<1>4. m \in Command
  BY DEF Command
<1>5. /\ m.type = "get" => m.id = Nil
      /\ m.type = "destroy" => m.id # Nil
      /\ m.id # Nil => m.id = id[c] /\ Owns(m.from, m.id) /\ NoDestroyOf(m.id)
  BY <1>1, <1>2 DEF CallField, ClientOwns, Destroyed
<1>6. m.from = c /\ m.type = op[c]
  OBVIOUS
<1>7. pc'[c] = next /\ \A d \in Clients \ {c} : pc'[d] = pc[d]
  BY <1>3
<1>8. next = "give" \/ m.type = "get"
  OBVIOUS
<1> HIDE DEF m, next
<1>9. /\ Len(toSrv) \in Nat /\ DOMAIN toSrv = 1 .. Len(toSrv)
      /\ DOMAIN toSrv' = 1 .. Len(toSrv) + 1
      /\ toSrv'[Len(toSrv) + 1] = m
      /\ \A i \in DOMAIN toSrv : toSrv'[i] = toSrv[i]
  <2> DEFINE q == toSrv
  <2>1. q \in Seq(Command)
    OBVIOUS
  <2> HIDE DEF q
  <2>2. /\ Len(q) \in Nat /\ DOMAIN q = 1 .. Len(q)
        /\ DOMAIN Append(q, m) = 1 .. Len(q) + 1
        /\ Append(q, m)[Len(q) + 1] = m
        /\ \A i \in DOMAIN q : Append(q, m)[i] = q[i]
    BY <1>4, <2>1, Commands
  <2> QED
    BY <1>3, <2>2 DEF q
<1>10. \A i \in DOMAIN toSrv' :
         \/ i \in DOMAIN toSrv /\ toSrv'[i] = toSrv[i]
         \/ i = Len(toSrv) + 1 /\ toSrv'[i] = m
  BY <1>9
<1>11. \A d, a : Owns(d, a)' = Owns(d, a)
  BY <1>3 DEF Owns, ptys
<1>12. CommandsMeant'
  BY <1>1, <1>5, <1>10, <1>11 DEF CommandsMeant
<1>13. DestroyedLast'
  <2> SUFFICES ASSUME NEW i \in DOMAIN toSrv', NEW j \in DOMAIN toSrv',
                      toSrv'[i].type = "destroy", i < j
               PROVE  toSrv'[j].id # toSrv'[i].id
      BY DEF DestroyedLast
  <2>1. i \in DOMAIN toSrv /\ toSrv'[i] = toSrv[i]
    BY <1>9
  <2>2. CASE j \in DOMAIN toSrv
    BY <1>1, <1>9, <2>1, <2>2 DEF DestroyedLast
  <2>3. CASE j \notin DOMAIN toSrv
    <3>1. toSrv'[j] = m
      BY <1>10, <2>3
    <3>2. toSrv[i].id # Nil
      BY <1>1, <2>1 DEF CommandsMeant
    <3>3. CASE m.id = Nil
      BY <2>1, <3>1, <3>2, <3>3
    <3>4. CASE m.id # Nil
      BY <1>5, <2>1, <3>1, <3>4 DEF NoDestroyOf
    <3> QED
      BY <3>3, <3>4
  <2> QED
    BY <2>2, <2>3
<1>14. ClientOwns'
  <2> SUFFICES ASSUME NEW d \in Clients, pc'[d] # "gone", id'[d] # Nil, ~Destroyed(d)'
               PROVE  Owns(d, id[d])' /\ NoDestroyOf(id[d])'
      BY DEF ClientOwns
  <2>1. pc[d] # "gone" /\ id[d] # Nil /\ ~Destroyed(d) /\ id'[d] = id[d]
    BY <1>2, <1>3, <1>7 DEF Destroyed
  <2>2. Owns(d, id[d]) /\ NoDestroyOf(id[d])
    BY <1>1, <2>1 DEF ClientOwns
  <2>3. m.type = "destroy" => m.id # id[d]
    <3>1. CASE d = c
      BY <1>3, <1>6, <1>7, <1>8, <3>1 DEF Destroyed
    <3>2. CASE d # c
      BY <1>5, <1>6, <2>2, <3>2 DEF Owns
    <3> QED
      BY <3>1, <3>2
  <2>4. NoDestroyOf(id[d])'
    BY <1>3, <1>10, <2>2, <2>3 DEF NoDestroyOf
  <2> QED
    BY <1>3, <1>11, <2>1, <2>2, <2>4
<1> QED
  BY <1>12, <1>13, <1>14

(* Each step leaves the ids with their owners.                             *)
LEMMA OwnNext ==
  ASSUME "eintr" \notin Env, "copy" \notin Env, Calm, QuietInv, OwnInv, [Next]_vars
  PROVE  OwnInv'
<1> USE DEF QuietInv, TypeInv, ClientsOK, QueuesOK
<1> SUFFICES ASSUME srv' # "killed"
             PROVE  (CommandsMeant /\ DestroyedLast /\ ClientOwns)'
  BY CallFieldsNext DEF OwnInv
<1>1. CASE Helper
  BY <1>1, OwnHelper
<1>2. CASE UNCHANGED vars
  BY <1>2 DEF vars, srvVars, sockVars, objVars, OwnInv, CommandsMeant, DestroyedLast,
              ClientOwns, Owns, NoDestroyOf, Destroyed, ptys
<1>3. ASSUME NEW c \in Clients, User(c) \/ Client(c) \/ KillClient(c)
      PROVE  (CommandsMeant /\ DestroyedLast /\ ClientOwns)'
  <2>1. UNCHANGED srvVars /\ srv # "killed" /\ UNCHANGED <<obj, ptys>>
    BY <1>3, ClientLeavesHelper DEF srvVars, ptys
  <2>2. CommandsMeant /\ DestroyedLast /\ ClientOwns
    BY <2>1 DEF OwnInv
  <2>3. pc[c] # "gone" /\ Up
    <3>1. pc[c] # "gone"
      BY <1>3 DEF User, Get, Login, Destroy, Call, CloseTty, Exit, KillClient, Client,
           NeedToken, WriteCmd, ReadId, RecvPty, RecvTty, GiveToken
    <3> QED
      BY <2>1, <3>1 DEF CallInv, Ends, ClientsGone, Up, HelperOK
  <2>4. ASSUME UNCHANGED toSrv,
               \A d \in Clients \ {c} : pc'[d] = pc[d] /\ op'[d] = op[d] /\ id'[d] = id[d],
               \/ pc'[c] = "gone" \/ id'[c] = Nil
               \/ id'[c] = id[c] /\ ~Destroyed(c)
               \/ Owns(c, id'[c]) /\ NoDestroyOf(id'[c])
        PROVE  (CommandsMeant /\ DestroyedLast /\ ClientOwns)'
    <3>1. \A d, a : Owns(d, a)' = Owns(d, a) /\ NoDestroyOf(a)' = NoDestroyOf(a)
      BY <2>1, <2>4 DEF Owns, NoDestroyOf
    <3>2. CommandsMeant' /\ DestroyedLast'
      BY <2>2, <2>4, <3>1 DEF CommandsMeant, DestroyedLast
    <3>3. ASSUME NEW d \in Clients \ {c}, pc'[d] # "gone", id'[d] # Nil, ~Destroyed(d)'
          PROVE  Owns(d, id[d])' /\ NoDestroyOf(id[d])'
      BY <2>2, <2>4, <3>1, <3>3 DEF ClientOwns, Destroyed
    <3>4. ASSUME pc'[c] # "gone", id'[c] # Nil
          PROVE  Owns(c, id[c])' /\ NoDestroyOf(id[c])'
      BY <2>2, <2>3, <2>4, <3>1, <3>4 DEF ClientOwns
    <3> QED
      BY <3>2, <3>3, <3>4 DEF ClientOwns
  <2>5. CASE WriteCmd(c)
    BY <2>1, <2>5, OwnWrite
  <2>6. CASE ReadId(c)
    <3>1. Phase(c)
      BY <2>3 DEF CallInv, PhaseInv
    <3>2. UNCHANGED <<op, toSrv>>
      BY <2>6 DEF ReadId
    <3>3. CASE pc' = [pc EXCEPT ![c] = "give"] /\ id' = [id EXCEPT ![c] = Nil]
      BY <2>4, <3>2, <3>3
    <3>4. CASE Serves(c) /\ pc' = [pc EXCEPT ![c] = "pty"] /\ id' = [id EXCEPT ![c] = cur]
      BY <2>4, <3>2, <3>4 DEF Serves, Owns, NoDestroyOf
    <3> QED
      BY <2>3, <2>6, <3>1, <3>3, <3>4, IdRead
  <2>7. CASE GiveToken(c)
    <3>1. UNCHANGED <<op, toSrv>>
      BY <2>7 DEF GiveToken, BrokenPipe, Gone, sockVars
    <3>2. /\ pc[c] = "give" /\ pc' = [pc EXCEPT ![c] = "idle"]
          /\ id' = IF op[c] = "destroy" THEN [id EXCEPT ![c] = Nil] ELSE id
      BY <2>3, <2>7 DEF GiveToken, BrokenPipe
    <3> QED
      BY <2>4, <3>1, <3>2 DEF Destroyed
  <2>8. CASE User(c) \/ NeedToken(c) \/ RecvPty(c) \/ RecvTty(c) \/ KillClient(c)
    <3>1. UNCHANGED <<toSrv, id>> /\ \A d \in Clients \ {c} : pc'[d] = pc[d] /\ op'[d] = op[d]
      BY <2>8 DEF User, Get, Login, Destroy, Call, CloseTty, Exit, KillClient, Gone,
           NeedToken, RecvPty, RecvTty, Throw, sockVars, objVars
    <3>2. ~Destroyed(c) \/ pc'[c] = "gone"
      BY <2>8 DEF User, Get, Login, Destroy, Call, CloseTty, Exit, KillClient, Gone,
           NeedToken, RecvPty, RecvTty, Destroyed
    <3> QED
      BY <2>4, <3>1, <3>2
  <2> QED
    BY <1>3, <2>5, <2>6, <2>7, <2>8 DEF Client
<1>4. ASSUME NEW c \in Clients, NEW d \in Clients, Fork(c, d) PROVE FALSE
  BY <1>4 DEF Fork
<1>5. ~KillHelper
  BY DEF KillHelper
<1> QED
  BY <1>1, <1>2, <1>3, <1>4, <1>5 DEF Next, Ended

-----------------------------------------------------------------------------
(* What can be on the socket after the id, if the descriptors of line l    *)
(* were sent.                                                              *)
Fds(l) == {<<>>, <<Pty(l)>>, <<Tty(l)>>, <<Pty(l), Tty(l)>>}

(* And with the id before it.                                              *)
Told(a, l) ==
  toCli \in {<<Id(a)>>, <<Id(a), Pty(l)>>, <<Id(a), Tty(l)>>, <<Id(a), Pty(l), Tty(l)>>}

(* The replies on the socket are of one get: an id, then descriptors of    *)
(* one line.                                                               *)
RepliesOfOneGet ==
  \/ toCli = <<>> \/ toCli = <<Id(Nil)>>
  \/ \E l \in Lines : toCli \in Fds(l)
  \/ \E a \in Addrs : toCli = <<Id(a)>>
  \/ \E a \in Addrs, l \in Lines : Told(a, l)

(* The helper sends a descriptor behind what it sent of the same object.   *)
SendsInOrder ==
  /\ srv = "pty" => toCli \in {<<>>, <<Id(cur)>>}
  /\ srv = "tty" =>
       LET l == obj[cur].line
       IN  toCli \in {<<>>, <<Id(cur)>>, <<Pty(l)>>, <<Id(cur), Pty(l)>>}

(* One client reads them, and a tty that it can read is of the line of the *)
(* pty that it has. All this holds of a dead helper's replies too.         *)
OneReader ==
  \A c \in Clients : pc[c] \in {"pty", "tty"} =>
    /\ \A d \in Clients : pc[d] \in {"pty", "tty"} => d = c
    /\ toCli = <<>> \/ \E l \in Lines : toCli \in Fds(l)
    /\ pc[c] = "tty" =>
         toCli = <<>> \/ \E l \in Lines : pty[c] = Master(l) /\ toCli = <<Tty(l)>>

LineInv == RepliesOfOneGet /\ SendsInOrder /\ OneReader

(* At the start there are no replies.                                      *)
LEMMA LineInit == Init => LineInv
BY DEF Init, LineInv, RepliesOfOneGet, SendsInOrder, OneReader

(* What is left of the replies when the first one is gone. *)
LEMMA RestOfReplies ==
  /\ \A l : \A q \in Fds(l) : q # <<>> =>
       /\ Tail(q) \in {<<>>, <<Tty(l)>>} /\ Tail(q) \in Fds(l)
       /\ Head(q).kind = "fd" /\ Head(q) # Rest
       /\ Head(q) = Pty(l) \/ q = <<Tty(l)>>
  /\ \A a, l : Told(a, l) =>
       /\ toCli # <<>> /\ Head(toCli) = Id(a) /\ Head(toCli).kind = "id" /\ Head(toCli) # Rest
       /\ Tail(toCli) \in Fds(l)
  /\ \A a : Tail(<<Id(a)>>) = <<>> /\ Head(<<Id(a)>>) = Id(a) /\ Id(a).kind = "id" /\ Id(a) # Rest
<1>1. ASSUME NEW l, NEW q \in Fds(l), q # <<>>
      PROVE  /\ Tail(q) \in {<<>>, <<Tty(l)>>} /\ Tail(q) \in Fds(l)
             /\ Head(q).kind = "fd" /\ Head(q) # Rest
             /\ Head(q) = Pty(l) \/ q = <<Tty(l)>>
  <2> DEFINE p == Pty(l)
             t == Tty(l)
  <2>1. p.kind = "fd" /\ t.kind = "fd" /\ p # Rest /\ t # Rest
    BY Messages
  <2> HIDE DEF p, t
  <2>2. /\ Tail(<<p>>) = <<>> /\ Tail(<<t>>) = <<>> /\ Tail(<<p, t>>) = <<t>>
        /\ Head(<<p>>) = p /\ Head(<<t>>) = t /\ Head(<<p, t>>) = p
    BY Tuples
  <2>3. q = <<p>> \/ q = <<t>> \/ q = <<p, t>>
    BY <1>1 DEF Fds, p, t
  <2>4. /\ Tail(q) = <<>> \/ Tail(q) = <<t>>
        /\ Head(q) = p \/ (Head(q) = t /\ q = <<t>>)
    BY <2>2, <2>3
  <2> QED
    BY <2>1, <2>4 DEF Fds, p, t
<1>2. ASSUME NEW a, NEW l, Told(a, l)
      PROVE  /\ toCli # <<>> /\ Head(toCli) = Id(a) /\ Head(toCli).kind = "id" /\ Head(toCli) # Rest
             /\ Tail(toCli) \in Fds(l)
  <2> DEFINE i == Id(a)
             p == Pty(l)
             t == Tty(l)
  <2>1. i.kind = "id" /\ i # Rest
    BY Messages
  <2> HIDE DEF i, p, t
  <2>2. /\ Tail(<<i>>) = <<>> /\ Tail(<<i, p>>) = <<p>>
        /\ Tail(<<i, t>>) = <<t>> /\ Tail(<<i, p, t>>) = <<p, t>>
        /\ Head(<<i>>) = i /\ Head(<<i, p>>) = i /\ Head(<<i, t>>) = i /\ Head(<<i, p, t>>) = i
        /\ <<i>> # <<>> /\ <<i, p>> # <<>> /\ <<i, t>> # <<>> /\ <<i, p, t>> # <<>>
    BY Tuples
  <2>3. toCli = <<i>> \/ toCli = <<i, p>> \/ toCli = <<i, t>> \/ toCli = <<i, p, t>>
    BY <1>2 DEF Told, i, p, t
  <2>4. /\ toCli # <<>> /\ Head(toCli) = i
        /\ \/ Tail(toCli) = <<>> \/ Tail(toCli) = <<p>>
            \/ Tail(toCli) = <<t>> \/ Tail(toCli) = <<p, t>>
    BY <2>2, <2>3
  <2> QED
    BY <2>1, <2>4 DEF Fds, i, p, t
<1>3. \A a : Tail(<<Id(a)>>) = <<>> /\ Head(<<Id(a)>>) = Id(a) /\ Id(a).kind = "id" /\ Id(a) # Rest
  BY Tuples, Messages
<1> QED
  BY <1>1, <1>2, <1>3

(* Every read takes the first reply, or nothing. *)
LEMMA RepliesShrink ==
  ASSUME LineInv, NEW c \in Clients, ReadId(c) \/ RecvPty(c) \/ RecvTty(c)
  PROVE  /\ toCli' = toCli \/ (toCli # <<>> /\ toCli' = Tail(toCli))
         /\ RepliesOfOneGet' /\ SendsInOrder'
<1>1. UNCHANGED srvVars
  BY DEF ReadId, RecvPty, RecvTty
<1>2. toCli # <<>> => Head(toCli) # Rest
  BY RestOfReplies DEF LineInv, RepliesOfOneGet
<1>3. pc[c] \in {"pty", "tty"} => (toCli # <<>> => Head(toCli).kind = "fd")
  BY RestOfReplies DEF LineInv, OneReader
<1>4. ~MixedRead
  <2>1. ASSUME MixedRead PROVE toCli # <<>>
    BY <2>1, EmptyReads
  <2> QED
    BY <1>2, <2>1 DEF MixedRead
<1>5. toCli' = toCli \/ (toCli # <<>> /\ toCli' = Tail(toCli))
  <2>1. CASE ReadId(c)
    BY <1>4, <2>1 DEF ReadId, ShortRead
  <2>2. ASSUME ReceivesNone, pc[c] \in {"pty", "tty"}
        PROVE  toCli' = toCli \/ (toCli # <<>> /\ toCli' = Tail(toCli))
    BY <1>3, <2>2 DEF ReceivesNone
  <2>3. CASE RecvPty(c)
    BY <2>2, <2>3 DEF RecvPty, Receives
  <2>4. CASE RecvTty(c)
    BY <2>2, <2>4 DEF RecvTty, Receives
  <2> QED
    BY <2>1, <2>2, <2>3, <2>4
<1>6. ASSUME toCli # <<>>, toCli' = Tail(toCli) PROVE RepliesOfOneGet'
  BY <1>6, RestOfReplies DEF LineInv, RepliesOfOneGet
<1>7. ASSUME toCli # <<>>, toCli' = Tail(toCli) PROVE SendsInOrder'
  <2> DEFINE i == Id(cur)
             p == Pty(obj[cur].line)
  <2> HIDE DEF i, p
  <2>1. Tail(<<i>>) = <<>> /\ Tail(<<p>>) = <<>> /\ Tail(<<i, p>>) = <<p>>
    BY Tuples
  <2>2. srv = "pty" => toCli = <<i>>
    BY <1>7 DEF LineInv, SendsInOrder, i
  <2>3. srv = "tty" => toCli = <<i>> \/ toCli = <<p>> \/ toCli = <<i, p>>
    BY <1>7 DEF LineInv, SendsInOrder, i, p
  <2>4. srv = "pty" => toCli' = <<>>
    BY <1>7, <2>1, <2>2
  <2>5. srv = "tty" => toCli' = <<>> \/ toCli' = <<p>>
    BY <1>7, <2>1, <2>3
  <2> QED
    BY <1>1, <2>4, <2>5 DEF SendsInOrder, srvVars, p
<1>8. ASSUME toCli' = toCli PROVE RepliesOfOneGet' /\ SendsInOrder'
  <2>1. RepliesOfOneGet'
    BY <1>8 DEF LineInv, RepliesOfOneGet, Told
  <2>2. SendsInOrder'
    BY <1>1, <1>8 DEF LineInv, SendsInOrder, srvVars
  <2> QED
    BY <2>1, <2>2
<1> QED
  BY <1>5, <1>6, <1>7, <1>8

(* So the reader of a descriptor is left with the rest of its line.        *)
LEMMA ReaderNext ==
  ASSUME TypeInv, LineInv, NEW c \in Clients, ReadId(c) \/ RecvPty(c) \/ RecvTty(c)
  PROVE  OneReader'
<1> USE DEF TypeInv, ClientsOK
<1>1. toCli' = toCli \/ (toCli # <<>> /\ toCli' = Tail(toCli))
  BY RepliesShrink
<1> DEFINE FdsOnly(q) == q = <<>> \/ \E l \in Lines : q \in Fds(l)
           TtyLeft(q, fd) == q = <<>> \/ \E l \in Lines : fd = Master(l) /\ q = <<Tty(l)>>
<1>2. FdsOnly(toCli) => FdsOnly(toCli')
  BY <1>1, RestOfReplies
<1>3. \A fd : TtyLeft(toCli, fd) => TtyLeft(toCli', fd)
  <2> SUFFICES ASSUME NEW fd, TtyLeft(toCli, fd) PROVE TtyLeft(toCli', fd)
      OBVIOUS
  <2>1. CASE toCli = <<>>
    BY <1>1, <2>1
  <2>2. ASSUME NEW l \in Lines, toCli = <<Tty(l)>>, toCli' = Tail(toCli) PROVE toCli' = <<>>
    BY <2>2, Tuples
  <2> QED
    BY <1>1, <2>1, <2>2
<1>4. /\ \A d \in Clients \ {c} : pc'[d] = pc[d] /\ pty'[d] = pty[d]
      /\ \/ pc'[c] \in {"give", "idle"}
         \/ pc[c] = "id" /\ pc'[c] = "pty"
         \/ pc[c] = "pty" /\ pc'[c] = "tty"
  BY DEF ReadId, RecvPty, RecvTty, Throw
<1>5. \A d \in Clients : pc[d] \in {"pty", "tty"} =>
        /\ \A e \in Clients : pc[e] \in {"pty", "tty"} => e = d
        /\ FdsOnly(toCli)
        /\ pc[d] = "tty" => TtyLeft(toCli, pty[d])
  BY DEF LineInv, OneReader
<1>6. ASSUME pc[c] = "id", pc'[c] = "pty"
      PROVE  FdsOnly(toCli') /\ \A d \in Clients : pc[d] \notin {"pty", "tty"}
  <2>1. ~MixedRead
    <3>1. ASSUME MixedRead PROVE toCli # <<>>
      BY <3>1, EmptyReads
    <3>2. toCli # <<>> => Head(toCli) # Rest
      BY RestOfReplies DEF LineInv, RepliesOfOneGet
    <3> QED
      BY <3>1, <3>2 DEF MixedRead
  <2>2. toCli # <<>> /\ Head(toCli).kind = "id" /\ toCli' = Tail(toCli)
    BY <1>6, <2>1 DEF ReadId, RecvPty, RecvTty, Throw
  <2>3. ~FdsOnly(toCli)
    BY <2>2, RestOfReplies
  <2>4. FdsOnly(toCli')
    BY <2>2, <2>3, RestOfReplies DEF LineInv, RepliesOfOneGet
  <2> QED
    BY <1>5, <2>3, <2>4
<1>7. ASSUME pc[c] = "pty", pc'[c] = "tty" PROVE TtyLeft(toCli', pty'[c])
  <2>1. PICK fd \in Fd : Receives(fd) /\ pty' = [pty EXCEPT ![c] = fd]
    BY <1>7 DEF RecvPty, ReadId, RecvTty, Throw
  <2>2. toCli # <<>> /\ Head(toCli) = [kind |-> "fd", val |-> fd] /\ toCli' = Tail(toCli)
    BY <2>1 DEF Receives
  <2>3. PICK l \in Lines : toCli \in Fds(l)
    BY <1>5, <1>7, <2>2
  <2>4. CASE toCli = <<Tty(l)>>
    BY <2>2, <2>4, Tuples
  <2>5. CASE Head(toCli) = Pty(l)
    <3>1. fd = Master(l)
      BY <2>2, <2>5, Messages
    <3>2. toCli' \in {<<>>, <<Tty(l)>>}
      BY <2>2, <2>3, RestOfReplies
    <3> QED
      BY <2>1, <3>1, <3>2
  <2> QED
    BY <2>2, <2>3, <2>4, <2>5, RestOfReplies
<1> HIDE DEF FdsOnly, TtyLeft
<1>8. \A d \in Clients : pc'[d] \in {"pty", "tty"} =>
        /\ \A e \in Clients : pc'[e] \in {"pty", "tty"} => e = d
        /\ FdsOnly(toCli')
        /\ pc'[d] = "tty" => TtyLeft(toCli', pty'[d])
  <2>1. ASSUME NEW d \in Clients, pc'[d] \in {"pty", "tty"}, pc[d] \in {"pty", "tty"}, d # c
        PROVE  /\ \A e \in Clients : pc'[e] \in {"pty", "tty"} => e = d
               /\ FdsOnly(toCli')
               /\ pc'[d] = "tty" => TtyLeft(toCli', pty'[d])
    BY <1>2, <1>3, <1>4, <1>5, <1>6, <2>1
  <2>2. ASSUME pc'[c] = "pty", pc[c] = "id"
        PROVE  /\ \A e \in Clients : pc'[e] \in {"pty", "tty"} => e = c
               /\ FdsOnly(toCli')
    BY <1>4, <1>6, <2>2
  <2>3. ASSUME pc'[c] = "tty", pc[c] = "pty"
        PROVE  /\ \A e \in Clients : pc'[e] \in {"pty", "tty"} => e = c
               /\ FdsOnly(toCli')
               /\ TtyLeft(toCli', pty'[c])
    BY <1>2, <1>4, <1>5, <1>7, <2>3
  <2> QED
    BY <1>4, <2>1, <2>2, <2>3
<1> QED
  BY <1>8 DEF OneReader, FdsOnly, TtyLeft

(* The helper sends a descriptor, or fails to.                             *)
LEMMA LineSends ==
  ASSUME TypeInv, LineInv, CallInv, Calm, Up, SrvSendPty \/ SrvSendTty
  PROVE  LineInv'
<1> USE DEF TypeInv, HelperOK
<1> DEFINE l == obj[cur].line
           i == Id(cur)
           p == Pty(l)
           t == Tty(l)
<1>1. /\ UNCHANGED <<pc, pty, cur>>
      /\ \/ SrvSendPty /\ srv = "pty" /\ srv' = "tty"
         \/ SrvSendTty /\ srv = "tty" /\ srv' = "need"
  BY DEF SrvSendPty, SrvSendTty, clientVars, objVars
<1>2. l \in Lines /\ cur \in Addrs
  <2>1. cur \in Addrs /\ obj[cur] \in Object
    BY <1>1 DEF CurOK, ptys
  <2> QED
    BY <2>1 DEF Object
<1>3. SrvSendPty => UNCHANGED obj
  BY DEF SrvSendPty
<1>4. SrvSendPty => srv = "pty" /\ (toCli' = toCli \/ toCli' = Append(toCli, p))
  BY DEF SrvSendPty, Send, Pty
<1>5. SrvSendTty => toCli' = toCli \/ toCli' = Append(toCli, t)
  BY DEF SrvSendTty, Send, Tty
<1>6. /\ srv = "pty" => toCli \in {<<>>, <<i>>}
      /\ srv = "tty" => toCli \in {<<>>, <<i>>, <<p>>, <<i, p>>}
  BY DEF LineInv, SendsInOrder
<1>7. i.kind = "id" /\ Head(<<i>>) = i /\ Head(<<i, p>>) = i
  BY Tuples, Messages
<1>8. \A d \in Clients : pc[d] = "tty" => srv = "tty" /\ pty[d] = Master(l) /\ toCli = <<>>
  BY <1>1 DEF CallInv, PhaseInv, Phase, GetsTty, Between
<1>9. \A d \in Clients : pc[d] \in {"pty", "tty"} =>
        /\ \A e \in Clients : pc[e] \in {"pty", "tty"} => e = d
        /\ toCli # <<>> => Head(toCli).kind = "fd"
  BY RestOfReplies DEF LineInv, OneReader
<1>16. /\ Append(<<>>, p) = <<p>> /\ Append(<<>>, t) = <<t>>
       /\ Append(<<i>>, p) = <<i, p>> /\ Append(<<i>>, t) = <<i, t>>
       /\ Append(<<p>>, t) = <<p, t>> /\ Append(<<i, p>>, t) = <<i, p, t>>
  <2> HIDE DEF i, p, t
  <2> QED
    BY Tuples
<1>10. toCli' \in {<<>>, <<i>>, <<p>>, <<i, p>>, <<t>>, <<i, t>>, <<p, t>>, <<i, p, t>>}
  <2> HIDE DEF i, p, t
  <2> QED
    BY <1>1, <1>4, <1>5, <1>6, <1>16
<1>11. SrvSendPty => toCli' \in {<<>>, <<i>>, <<p>>, <<i, p>>}
  <2> HIDE DEF i, p, t
  <2> QED
    BY <1>1, <1>4, <1>6, <1>16
<1>12. SendsInOrder'
  BY <1>1, <1>3, <1>11 DEF SendsInOrder
<1>13. RepliesOfOneGet'
  BY <1>2, <1>10 DEF RepliesOfOneGet, Told, Fds
<1>14. ASSUME NEW d \in Clients, pc[d] \in {"pty", "tty"}
       PROVE  /\ toCli' \in {<<>>, <<p>>, <<t>>, <<p, t>>}
              /\ pc[d] = "tty" => toCli' \in {<<>>, <<t>>} /\ pty[d] = Master(l)
  <2>1. toCli # <<i>> /\ toCli # <<i, p>>
    <3>1. <<i>> # <<>> /\ <<i, p>> # <<>>
      BY Tuples
    <3> QED
      BY <1>7, <1>9, <1>14, <3>1
  <2>2. toCli' \in {<<>>, <<p>>, <<t>>, <<p, t>>}
    <3> HIDE DEF i, p, t
    <3> QED
      BY <1>1, <1>4, <1>5, <1>6, <2>1, <1>16
  <2>3. pc[d] = "tty" => toCli' \in {<<>>, <<t>>}
    <3> HIDE DEF i, p, t
    <3> QED
      BY <1>1, <1>5, <1>8, <1>16
  <2> QED
    BY <1>8, <2>2, <2>3
<1>15. OneReader'
  BY <1>1, <1>2, <1>9, <1>14 DEF OneReader, Fds
<1> QED
  BY <1>12, <1>13, <1>15 DEF LineInv

(* Each step leaves the replies of one get.                                *)
LEMMA LineNext ==
  ASSUME Calm, QuietInv, LineInv, [Next]_vars
  PROVE  LineInv'
<1> USE DEF QuietInv, TypeInv, ClientsOK
<1>1. ASSUME toCli' = toCli \/ toCli' = <<>>,
             UNCHANGED <<srv, cur, obj>> \/ srv' \notin {"pty", "tty"},
             \A c \in Clients : pc'[c] \in {"pty", "tty"} => pc'[c] = pc[c] /\ pty'[c] = pty[c]
      PROVE  LineInv'
  <2>1. RepliesOfOneGet'
    BY <1>1 DEF LineInv, RepliesOfOneGet, Told
  <2>2. SendsInOrder'
    BY <1>1 DEF LineInv, SendsInOrder
  <2>3. OneReader'
    BY <1>1 DEF LineInv, OneReader
  <2> QED
    BY <2>1, <2>2, <2>3 DEF LineInv
<1>2. ASSUME NEW c \in Clients, User(c) \/ Client(c) \/ KillClient(c) PROVE LineInv'
  <2>1. UNCHANGED <<srv, cur, obj>>
    BY <1>2, ClientLeavesHelper DEF srvVars
  <2>2. CASE ReadId(c) \/ RecvPty(c) \/ RecvTty(c)
    BY <2>2, RepliesShrink, ReaderNext DEF LineInv
  <2>3. CASE WriteCmd(c) \/ NeedToken(c) \/ GiveToken(c) \/ User(c) \/ KillClient(c)
    <3>1. toCli' = toCli \/ toCli' = <<>>
      BY <2>3 DEF WriteCmd, BrokenPipe, Gone, RepliesWithout, NeedToken, GiveToken, User,
         Get, Login, Destroy, Call, CloseTty, Exit, KillClient, sockVars
    <3>2. \A d \in Clients : pc'[d] \in {"pty", "tty"} => pc'[d] = pc[d] /\ pty'[d] = pty[d]
      BY <2>3 DEF WriteCmd, BrokenPipe, Gone, NeedToken, GiveToken, User,
         Get, Login, Destroy, Call, CloseTty, Exit, KillClient, objVars
    <3> QED
      BY <1>1, <2>1, <3>1, <3>2
  <2> QED
    BY <1>2, <2>2, <2>3 DEF Client
<1>3. ASSUME NEW c \in Clients, NEW d \in Clients, Fork(c, d) PROVE LineInv'
  BY <1>1, <1>3 DEF Fork, sockVars, srvVars
<1>4. CASE UNCHANGED vars
  BY <1>1, <1>4 DEF vars, sockVars, srvVars, objVars
<1>5. CASE KillHelper
  BY <1>1, <1>5 DEF KillHelper, clientVars, objVars
<1>6. CASE SrvGet
  <2>1. Reads("get") /\ Up /\ UNCHANGED pc /\ srv' = "pty"
    BY <1>6 DEF SrvGet, Reads, Up, clientVars
  <2>2. toCli = <<>> /\ \A d \in Clients : pc[d] \notin {"pty", "tty"}
    BY <2>1, GetRead DEF CallInv, Ends
  <2>3. PICK a \in Addrs : cur' = a /\ Send("id", a)
    BY <1>6 DEF SrvGet
  <2>4. toCli' \in {<<>>, <<Id(a)>>}
    BY <2>2, <2>3, Tuples DEF Send, Id
  <2> QED
    BY <2>1, <2>2, <2>3, <2>4 DEF LineInv, RepliesOfOneGet, SendsInOrder, OneReader, Id
<1>7. CASE SrvGetFails
  <2>1. Reads("get") /\ Up /\ UNCHANGED pc /\ srv' = "need"
    BY <1>7 DEF SrvGetFails, Reads, Up, clientVars
  <2>2. toCli = <<>> /\ \A d \in Clients : pc[d] \notin {"pty", "tty"}
    BY <2>1, GetRead DEF CallInv, Ends
  <2>3. toCli' \in {<<>>, <<Id(Nil)>>}
    BY <1>7, <2>2, Tuples DEF SrvGetFails, Send, Id
  <2> QED
    BY <2>1, <2>2, <2>3 DEF LineInv, RepliesOfOneGet, SendsInOrder, OneReader, Id
<1>8. CASE SrvSendPty \/ SrvSendTty
  <2>1. Up
    BY <1>8 DEF SrvSendPty, SrvSendTty, Up
  <2> QED
    BY <1>8, <2>1, LineSends
<1>9. CASE SrvGive \/ SrvNeed \/ SrvLogin \/ SrvDestroy \/ SrvEof \/ SrvReap
  <2>1. UNCHANGED <<pc, pty, toCli>> /\ srv' \notin {"pty", "tty"}
    BY <1>9 DEF SrvGive, SrvNeed, SrvLogin, SrvDestroy, SrvEof, SrvReap, Reads,
         clientVars, objVars, sockVars
  <2> QED
    BY <1>1, <2>1
<1> QED
  BY <1>2, <1>3, <1>4, <1>5, <1>6, <1>7, <1>8, <1>9 DEF Next, Helper, Ended

-----------------------------------------------------------------------------
(* OwnsItsPty, of one client.                                              *)
HasPty(c) ==
  res[c] = "ok" /\ pc[c] # "gone" =>
    \E l \in Lines :
      /\ pty[c] = Master(l) /\ tty[c] \in {Slave(l), Nil}
      /\ srv # "killed" =>
           id[c] \in ptys /\ obj[id[c]].owner = c /\ obj[id[c]].line = l

(* The object of a client that may still use it is not deleted. *)
LEMMA OwnedStays ==
  ASSUME QuietInv, OwnInv, [Next]_vars, srv' # "killed", NEW c \in Clients,
         pc[c] # "gone", id[c] \in ptys, ~Destroyed(c)
  PROVE  srv # "killed" /\ Stays(id[c])
<1> USE DEF QuietInv
<1>1. srv # "killed"
  <2>1. CASE srv = "killed"
    <3>1. ~Helper /\ ~KillHelper
      BY <2>1 DEF Helper, SrvGive, SrvGet, SrvGetFails, SrvSendPty, SrvSendTty, SrvLogin,
         SrvDestroy, SrvNeed, SrvEof, SrvReap, Reads, KillHelper, Up
    <3>2. UNCHANGED srv
      BY <3>1, ClientLeavesHelper DEF Next, Fork, Ended, vars, srvVars
    <3> QED
      BY <2>1, <3>2
  <2> QED
    BY <2>1
<1>2. ~KillHelper
  BY DEF KillHelper
<1>3. ~SrvReap
  BY DEF SrvReap, CallInv, Ends, ClientsGone
<1>4. CASE ~SrvDestroy
  BY <1>1, <1>2, <1>3, <1>4, ObjectsStay
<1>5. CASE SrvDestroy
  <2>1. toSrv # <<>> /\ Head(toSrv).type = "destroy"
    BY <1>5 DEF SrvDestroy, Reads
  <2>2. Head(toSrv) = toSrv[1] /\ 1 \in DOMAIN toSrv
    BY <2>1, Commands DEF TypeInv, QueuesOK
  <2>3. NoDestroyOf(id[c])
    BY <1>1, NilAssumption DEF OwnInv, ClientOwns, ptys
  <2>4. Head(toSrv).id # id[c]
    BY <2>1, <2>2, <2>3 DEF NoDestroyOf
  <2> QED
    BY <1>1, <1>5, <2>4, ObjectDeleted
<1> QED
  BY <1>4, <1>5

(* Each step leaves a client its pty and its tty, unless it closes them.   *)
LEMMA HasPtyNext ==
  ASSUME "eintr" \notin Env, "copy" \notin Env, Calm, QuietInv, OwnInv, LineInv,
         [Next]_vars, NEW c \in Clients, HasPty(c)
  PROVE  HasPty(c)'
<1> USE DEF QuietInv, TypeInv, ClientsOK
<1>1. ASSUME res'[c] = "ok", pc'[c] # "gone", res[c] = "ok", pc[c] # "gone",
             pty'[c] = pty[c], id'[c] = id[c], tty'[c] \in {tty[c], Nil}
      PROVE  HasPty(c)'
  <2>1. PICK l \in Lines :
          /\ pty[c] = Master(l) /\ tty[c] \in {Slave(l), Nil}
          /\ srv # "killed" =>
               id[c] \in ptys /\ obj[id[c]].owner = c /\ obj[id[c]].line = l
    BY <1>1 DEF HasPty
  <2>2. ~Destroyed(c)
    BY <1>1 DEF OwnInv, CallFields, CallField, Destroyed
  <2>3. srv' # "killed" => srv # "killed"
    <3>1. CASE srv = "killed"
      <4>1. ~Helper /\ ~KillHelper
        BY <3>1 DEF Helper, SrvGive, SrvGet, SrvGetFails, SrvSendPty, SrvSendTty, SrvLogin,
           SrvDestroy, SrvNeed, SrvEof, SrvReap, Reads, KillHelper, Up
      <4>2. UNCHANGED srv
        BY <4>1, ClientLeavesHelper DEF Next, Fork, Ended, vars, srvVars
      <4> QED
        BY <3>1, <4>2
    <3> QED
      BY <3>1
  <2>4. srv' # "killed" => Stays(id[c])
    BY <1>1, <2>1, <2>2, <2>3, OwnedStays
  <2> QED
    BY <1>1, <2>1, <2>3, <2>4 DEF HasPty, Stays
<1>2. ASSUME res'[c] = "ok", pc'[c] # "gone", res[c] # "ok" \/ pc[c] = "gone"
      PROVE  RecvTty(c)
  <2>1. ASSUME NEW d \in Clients, User(d) \/ Client(d) \/ KillClient(d), ~RecvTty(c)
        PROVE  FALSE
    BY <1>2, <2>1 DEF User, Get, Login, Destroy, Call, CloseTty, Exit, Gone, Client,
       NeedToken, WriteCmd, BrokenPipe, ReadId, RecvPty, RecvTty, GiveToken, KillClient,
       Throw, objVars
  <2>2. ~Helper /\ ~KillHelper /\ ~UNCHANGED vars
    BY <1>2 DEF Helper, SrvGive, SrvGet, SrvGetFails, SrvSendPty, SrvSendTty, SrvLogin,
         SrvDestroy, SrvNeed, SrvEof, SrvReap, Reads, KillHelper, clientVars, objVars, vars
  <2> QED
    BY <2>1, <2>2 DEF Next, Fork, Ended
<1>3. ASSUME RecvTty(c), res'[c] = "ok" PROVE HasPty(c)'
  <2>1. /\ pc[c] = "tty" /\ res[c] = "none"
        /\ UNCHANGED <<id, pty, srv, cur, obj>>
    BY <1>3 DEF RecvTty, OwnInv, CallFields, CallField, srvVars
  <2>2. PICK fd \in Fd : Receives(fd) /\ tty' = [tty EXCEPT ![c] = fd]
    BY <1>3, <2>1 DEF RecvTty, Throw
  <2>3. toCli # <<>> /\ Head(toCli) = [kind |-> "fd", val |-> fd]
    BY <2>2 DEF Receives
  <2>4. PICK l \in Lines : pty[c] = Master(l) /\ toCli = <<Tty(l)>>
    BY <2>1, <2>3 DEF LineInv, OneReader
  <2>5. fd = Slave(l)
    BY <2>3, <2>4, Tuples, Messages
  <2>6. ASSUME srv # "killed" PROVE id[c] \in ptys /\ obj[id[c]].owner = c /\ obj[id[c]].line = l
    <3>1. Up
      BY <2>1, <2>6 DEF Up, CallInv, Ends, ClientsGone
    <3>2. GetsTty(c)
      BY <2>1, <3>1 DEF CallInv, PhaseInv, Phase
    <3> DEFINE k == obj[cur].line
    <3>3. toCli = <<Tty(k)>> \/ toCli = <<>>
      BY <3>2 DEF GetsTty
    <3>4. Head(toCli) = Tty(k)
      BY <2>3, <3>3, Tuples
    <3>5. pty[c] = Master(k) \/ pty[c] = Slave(k)
      BY <3>2 DEF GetsTty
    <3>6. k = l
      BY <2>4, <3>5, Messages
    <3> QED
      BY <3>2, <3>6 DEF GetsTty, Serves
  <2> QED
    BY <2>1, <2>2, <2>4, <2>5, <2>6 DEF HasPty, ptys
<1>4. ASSUME res'[c] = "ok", pc'[c] # "gone", res[c] = "ok", pc[c] # "gone"
      PROVE  pty'[c] = pty[c] /\ id'[c] = id[c] /\ tty'[c] \in {tty[c], Nil}
  <2>1. pc[c] \notin {"id", "pty", "tty"} /\ ~Destroyed(c)
    BY <1>4 DEF OwnInv, CallFields, CallField, Destroyed
  <2>2. ASSUME NEW d \in Clients, d # c, User(d) \/ Client(d) \/ KillClient(d)
        PROVE  pty'[c] = pty[c] /\ id'[c] = id[c] /\ tty'[c] = tty[c]
    <3>1. CASE ReadId(d)
      BY <2>2, <3>1 DEF ReadId
    <3>2. CASE GiveToken(d)
      BY <2>2, <3>2 DEF GiveToken, BrokenPipe, Gone, objVars
    <3>3. CASE ~ReadId(d) /\ ~GiveToken(d)
      BY <2>2, <3>3 DEF User, Get, Login, Destroy, Call, CloseTty, Exit, Gone, Client,
       NeedToken, WriteCmd, BrokenPipe, RecvPty, RecvTty, KillClient,
       Throw, objVars
    <3> QED
      BY <3>1, <3>2, <3>3
  <2>3. ASSUME User(c) \/ Client(c) \/ KillClient(c)
        PROVE  pty'[c] = pty[c] /\ id'[c] = id[c] /\ tty'[c] \in {tty[c], Nil}
    <3>1. ~ReadId(c) /\ ~RecvPty(c) /\ ~RecvTty(c)
      BY <2>1 DEF ReadId, RecvPty, RecvTty
    <3>2. CASE GiveToken(c)
      BY <1>4, <2>1, <3>2 DEF GiveToken, BrokenPipe, Gone, objVars, Destroyed
    <3>3. CASE NeedToken(c) \/ WriteCmd(c) \/ KillClient(c)
      BY <1>4, <3>3 DEF NeedToken, WriteCmd, BrokenPipe, KillClient, Gone, objVars
    <3>4. CASE User(c)
      BY <1>4, <3>4 DEF User, Get, Login, Destroy, Call, CloseTty, Exit, Gone
    <3> QED
      BY <2>3, <3>1, <3>2, <3>3, <3>4 DEF Client
  <2>4. Helper \/ KillHelper \/ UNCHANGED vars => UNCHANGED objVars
    BY DEF Helper, SrvGive, SrvGet, SrvGetFails, SrvSendPty, SrvSendTty, SrvLogin,
         SrvDestroy, SrvNeed, SrvEof, SrvReap, Reads, KillHelper, clientVars, vars
  <2> QED
    BY <2>2, <2>3, <2>4 DEF Next, Fork, Ended, objVars
<1>5. CASE res'[c] # "ok" \/ pc'[c] = "gone"
  BY <1>5 DEF HasPty
<1> QED
  BY <1>1, <1>2, <1>3, <1>4, <1>5

-----------------------------------------------------------------------------
(* Whoever sent a queued get waits for its answer, or is gone.             *)
GetWaits ==
  \A i \in DOMAIN toSrv :
    toSrv[i].type = "get" => pc[toSrv[i].from] \in {"id", "gone"}

(* Why the helper keeps object a: its client is gone, or holds its id, or  *)
(* has a destroy of it queued, or is about to read the id.                 *)
Kept(a) ==
  LET c == obj[a].owner
  IN  \/ pc[c] = "gone"
      \/ id[c] = a /\ ~Destroyed(c)
      \/ ~NoDestroyOf(a)
      \/ pc[c] = "id" /\ toCli # <<>> /\ Head(toCli) = Id(a)

(* The helper has the tty of the object it serves, and of no other.        *)
TtyClosed ==
  \A a \in ptys : obj[a].tty => a = cur /\ srv \in {"pty", "tty"}

LeakInv ==
  Up => GetWaits /\ TtyClosed /\ \A a \in ptys : Kept(a)

(* A reply that is sent joins behind those that wait.                      *)
LEMMA HeadStays ==
  ASSUME QueuesOK, NEW kind, NEW val, Send(kind, val), toCli # <<>>,
         [kind |-> kind, val |-> val] \in Reply
  PROVE  toCli' # <<>> /\ Head(toCli') = Head(toCli)
<1> DEFINE m == [kind |-> kind, val |-> val]
<1>1. toCli' = toCli \/ toCli' = Append(toCli, m)
  BY DEF Send
<1> HIDE DEF m
<1>2. toCli \in Seq(Reply) /\ m \in Reply
  BY DEF QueuesOK, m
<1>3. Len(toCli) \in Nat \ {0}
  BY <1>2, EmptySeq, LenProperties
<1>4. /\ Append(toCli, m) \in Seq(Reply) /\ Len(Append(toCli, m)) = Len(toCli) + 1
      /\ Append(toCli, m)[1] = toCli[1]
  BY <1>2, <1>3, AppendProperties
<1>5. Append(toCli, m) # <<>>
  BY <1>3, <1>4, EmptySeq
<1>6. Head(Append(toCli, m)) = Head(toCli)
  BY <1>4, <1>5
<1> QED
  BY <1>1, <1>5, <1>6

(* A queued destroy stays until it is the helper's turn to read it. *)
LEMMA DestroyWaits ==
  ASSUME TypeInv, toSrv # <<>>, toSrv' = Tail(toSrv), NEW a, ~NoDestroyOf(a),
         Head(toSrv).type # "destroy" \/ Head(toSrv).id # a
  PROVE  ~NoDestroyOf(a)'
<1> USE DEF TypeInv, QueuesOK
<1>1. PICK i \in DOMAIN toSrv : toSrv[i].type = "destroy" /\ toSrv[i].id = a
  BY DEF NoDestroyOf
<1>2. /\ DOMAIN toSrv = 1 .. Len(toSrv) /\ Len(toSrv) \in Nat \ {0}
      /\ Head(toSrv) = toSrv[1]
      /\ Len(toSrv') = Len(toSrv) - 1 /\ toSrv' \in Seq(Command)
  BY Commands
<1>3. DOMAIN toSrv' = 1 .. Len(toSrv) - 1
  BY <1>2, Commands
<1>4. i - 1 \in DOMAIN toSrv'
  BY <1>1, <1>2, <1>3
<1>5. toSrv'[i - 1] = toSrv[i - 1 + 1]
  BY <1>4, Commands
<1>6. toSrv'[i - 1] = toSrv[i]
  BY <1>1, <1>2, <1>5
<1> QED
  BY <1>1, <1>4, <1>6 DEF NoDestroyOf

(* Each step leaves the clients of queued gets waiting.                    *)
LEMMA GetWaitsNext ==
  ASSUME "eintr" \notin Env, Calm, QuietInv, OwnInv, LeakInv, [Next]_vars, Up'
  PROVE  GetWaits'
<1> USE DEF QuietInv, TypeInv, ClientsOK, QueuesOK
<1>1. Up /\ GetWaits
  BY UpBefore DEF LeakInv
<1>2. ASSUME UNCHANGED pc, toSrv' = toSrv \/ (toSrv # <<>> /\ toSrv' = Tail(toSrv))
      PROVE  GetWaits'
  <2>1. CASE toSrv' = toSrv
    BY <1>1, <1>2, <2>1 DEF GetWaits
  <2>2. CASE toSrv # <<>> /\ toSrv' = Tail(toSrv)
    <3> SUFFICES ASSUME NEW i \in DOMAIN toSrv', toSrv'[i].type = "get"
                 PROVE  pc'[toSrv'[i].from] \in {"id", "gone"}
        BY DEF GetWaits
    <3>1. i + 1 \in DOMAIN toSrv /\ toSrv'[i] = toSrv[i + 1]
      BY <2>2, Commands
    <3>2. pc[toSrv[i + 1].from] \in {"id", "gone"}
      BY <1>1, <3>1 DEF GetWaits
    <3> QED
      BY <1>2, <3>1, <3>2
  <2> QED
    BY <1>2, <2>1, <2>2
<1>3. CASE Helper
  <2>1. CASE SrvReap
    BY <1>2, <2>1 DEF SrvReap, clientVars, sockVars
  <2>2. CASE ~SrvReap
    BY <1>2, <1>3, <2>2 DEF Helper, SrvGive, SrvGet, SrvGetFails, SrvSendPty, SrvSendTty,
      SrvLogin, SrvDestroy, SrvNeed, SrvEof, Reads, clientVars, sockVars
  <2> QED
    BY <2>1, <2>2
<1>4. ~KillHelper
  BY DEF KillHelper, Up
<1>5. ASSUME NEW c \in Clients, NEW d \in Clients, Fork(c, d) PROVE GetWaits'
  BY <1>2, <1>5 DEF Fork, sockVars
<1>6. CASE UNCHANGED vars
  BY <1>2, <1>6 DEF vars, sockVars
<1>7. ASSUME NEW c \in Clients, User(c) \/ Client(c) \/ KillClient(c) PROVE GetWaits'
  <2>1. ASSUME UNCHANGED toSrv, \A d \in Clients \ {c} : pc'[d] = pc[d],
               pc[c] \notin {"id", "gone"} \/ pc'[c] = "gone"
        PROVE  GetWaits'
    <3>1. \A i \in DOMAIN toSrv : toSrv[i] \in Command
      BY Commands
    <3>2. \A m \in Command : m.from \in Clients
      BY DEF Command
    <3> QED
      BY <1>1, <2>1, <3>1, <3>2 DEF GetWaits
  <2>2. CASE WriteCmd(c)
    <3> DEFINE m == [type |-> op[c], from |-> c, id |-> IF op[c] = "get" THEN Nil ELSE id[c]]
               q == toSrv
    <3>1. /\ pc[c] = "write" /\ \A d \in Clients \ {c} : pc'[d] = pc[d]
          /\ m.type = "get" => pc'[c] = "id"
          /\ toSrv' = Append(toSrv, m)
      BY <1>1, <2>2 DEF WriteCmd, BrokenPipe
    <3>2. m \in Command /\ m.from = c /\ q \in Seq(Command)
      BY DEF Command
    <3> HIDE DEF m, q
    <3>3. /\ DOMAIN Append(q, m) = 1 .. Len(q) + 1 /\ DOMAIN q = 1 .. Len(q)
          /\ Append(q, m)[Len(q) + 1] = m /\ Len(q) \in Nat
          /\ \A i \in DOMAIN q : Append(q, m)[i] = q[i]
      BY <3>2, Commands
    <3>4. \A i \in DOMAIN Append(q, m) :
             Append(q, m)[i] = m \/ (i \in DOMAIN q /\ Append(q, m)[i] = q[i])
      BY <3>3
    <3>5. \A i \in DOMAIN q : q[i] \in Command
      BY <3>2, Commands
    <3>6. \A e \in Command : e.from \in Clients
      BY DEF Command
    <3>7. \A i \in DOMAIN q :
             q[i].type = "get" => q[i].from # c /\ pc'[q[i].from] \in {"id", "gone"}
      BY <1>1, <3>1, <3>5, <3>6 DEF GetWaits, q
    <3>8. \A i \in DOMAIN Append(q, m) : Append(q, m)[i].type = "get" =>
            pc'[Append(q, m)[i].from] \in {"id", "gone"}
      BY <3>1, <3>2, <3>4, <3>7
    <3> QED
      BY <3>1, <3>8 DEF GetWaits, q
  <2>3. CASE ReadId(c)
    <3>1. Phase(c) /\ UNCHANGED toSrv
      BY <1>1, <2>3 DEF CallInv, PhaseInv, ReadId
    <3>2. toSrv = <<>>
      BY <1>1, <2>3, <3>1, IdRead DEF Refused, Serves
    <3> QED
      BY <3>1, <3>2 DEF GetWaits
  <2>4. CASE NeedToken(c) \/ RecvPty(c) \/ RecvTty(c) \/ GiveToken(c) \/ User(c) \/ KillClient(c)
    <3>1. UNCHANGED toSrv /\ \A d \in Clients \ {c} : pc'[d] = pc[d]
      BY <2>4 DEF NeedToken, RecvPty, RecvTty, GiveToken, BrokenPipe, User, Get, Login, Destroy,
         Call, CloseTty, Exit, Gone, KillClient, Throw, sockVars
    <3>2. pc[c] \notin {"id", "gone"} \/ pc'[c] = "gone"
      BY <2>4 DEF NeedToken, RecvPty, RecvTty, GiveToken, User, Get, Login, Destroy,
         Call, CloseTty, Exit, Gone, KillClient
    <3> QED
      BY <2>1, <3>1, <3>2
  <2> QED
    BY <1>7, <2>2, <2>3, <2>4 DEF Client
<1> QED
  BY <1>3, <1>4, <1>5, <1>6, <1>7 DEF Next, Ended

(* Each step leaves the ttys closed that the helper has sent.              *)
LEMMA TtyClosedNext ==
  ASSUME TypeInv, LeakInv, [Next]_vars, Up'
  PROVE  TtyClosed'
<1> USE DEF TypeInv, HelperOK
<1>1. Up /\ TtyClosed
  BY UpBefore DEF LeakInv
<1>2. ASSUME UNCHANGED obj,
             UNCHANGED <<srv, cur>> \/ srv \notin {"pty", "tty"}
      PROVE  TtyClosed'
  BY <1>1, <1>2 DEF TtyClosed, ptys
<1>3. CASE SrvGet
  BY <1>1, <1>3, NewObject DEF TtyClosed, SrvGet, Reads
<1>4. CASE SrvSendPty
  BY <1>1, <1>4 DEF SrvSendPty, TtyClosed, ptys
<1>5. CASE SrvSendTty
  <2>1. cur \in ptys /\ obj[cur] \in Object
    BY <1>5 DEF SrvSendTty, CurOK, ptys
  <2>2. obj'[cur] = [obj[cur] EXCEPT !.tty = FALSE] /\ \A b \in Addrs \ {cur} : obj'[b] = obj[b]
    BY <1>5, <2>1 DEF SrvSendTty, ptys
  <2>3. ~obj'[cur].tty
    BY <2>1, <2>2 DEF Object
  <2> QED
    BY <1>1, <2>2, <2>3 DEF TtyClosed, ptys
<1>6. CASE SrvLogin
  <2> DEFINE b == Head(toSrv).id
  <2>1. CASE b \notin ptys
    BY <1>2, <1>6, <2>1 DEF SrvLogin, Reads
  <2>2. CASE b \in ptys
    <3>1. obj' = [obj EXCEPT ![b].cmd_pid = TRUE] /\ srv = "read"
      BY <1>6, <2>2 DEF SrvLogin, Reads
    <3>2. b \in Addrs /\ obj[b] \in Object
      BY <2>2 DEF ptys
    <3> HIDE DEF b
    <3>3. obj'[b] = [obj[b] EXCEPT !.cmd_pid = TRUE] /\ \A a \in Addrs : a # b => obj'[a] = obj[a]
      BY <3>1, <3>2
    <3>4. obj'[b].tty = obj[b].tty
      BY <3>2, <3>3 DEF Object
    <3> QED
      BY <1>1, <2>2, <3>1, <3>3, <3>4 DEF TtyClosed, ptys, b
  <2> QED
    BY <2>1, <2>2
<1>7. CASE SrvDestroy
  <2>1. srv = "read" /\ \A a \in ptys' : a \in ptys /\ obj'[a] = obj[a]
    BY <1>7 DEF SrvDestroy, Reads, Delete, ptys
  <2> QED
    BY <1>1, <2>1 DEF TtyClosed
<1>8. CASE SrvReap
  <2>1. srv = "reap" /\ \A a \in ptys' : a \in ptys /\ obj'[a] = obj[a]
    BY <1>8 DEF SrvReap, Delete, ptys
  <2> QED
    BY <1>1, <2>1 DEF TtyClosed
<1>9. CASE SrvGive \/ SrvGetFails \/ SrvNeed \/ SrvEof
  BY <1>2, <1>9 DEF SrvGive, SrvGetFails, SrvNeed, SrvEof, Reads
<1>10. ASSUME NEW c \in Clients, User(c) \/ Client(c) \/ KillClient(c) PROVE TtyClosed'
  BY <1>2, <1>10, ClientLeavesHelper DEF srvVars
<1>11. ASSUME NEW c \in Clients, NEW d \in Clients, Fork(c, d) PROVE TtyClosed'
  BY <1>2, <1>11 DEF Fork, srvVars
<1>12. UNCHANGED vars => TtyClosed'
  BY <1>2 DEF vars, srvVars
<1>13. ~KillHelper
  BY DEF KillHelper, Up
<1> QED
  BY <1>3, <1>4, <1>5, <1>6, <1>7, <1>8, <1>9, <1>10, <1>11, <1>12, <1>13 DEF Next, Helper, Ended

(* A client's step: the object is kept for the reason it was, or the id   *)
(* has been read, or its destroy has been written.                         *)
LEMMA KeptByClients ==
  ASSUME "eintr" \notin Env, "copy" \notin Env, Calm, QuietInv, OwnInv, LeakInv, Up,
         NEW d \in Clients, User(d) \/ Client(d) \/ KillClient(d), NEW a \in ptys
  PROVE  Kept(a)'
<1> USE DEF QuietInv, TypeInv, ClientsOK, QueuesOK
<1> DEFINE c == obj[a].owner
<1>1. UNCHANGED c /\ c \in Clients /\ a # Nil /\ a \in Addrs
  <2>1. obj[a] \in Object
    BY DEF HelperOK, ptys
  <2> QED
    BY <2>1, ClientLeavesHelper, NilAssumption DEF srvVars, ptys, Object
<1> HIDE DEF c
<1>2. \/ pc[c] = "gone"
      \/ id[c] = a /\ ~Destroyed(c)
      \/ ~NoDestroyOf(a)
      \/ pc[c] = "id" /\ toCli # <<>> /\ Head(toCli) = Id(a)
  BY DEF LeakInv, Kept, c
<1>3. Kept(a)' <=> \/ pc'[c] = "gone"
                   \/ id'[c] = a /\ ~(pc'[c] = "give" /\ op'[c] = "destroy")
                   \/ ~NoDestroyOf(a)'
                   \/ pc'[c] = "id" /\ toCli' # <<>> /\ Head(toCli') = Id(a)
  BY <1>1 DEF Kept, Destroyed, c
<1>4. pc[d] # "gone"
  BY DEF User, Get, Login, Destroy, Call, CloseTty, Exit, KillClient, Client,
         NeedToken, WriteCmd, ReadId, RecvPty, RecvTty, GiveToken
<1>5. \A e \in Clients \ {d} : pc'[e] = pc[e] /\ id'[e] = id[e] /\ op'[e] = op[e]
  <2>1. CASE User(d) \/ NeedToken(d) \/ WriteCmd(d) \/ KillClient(d)
    BY <2>1 DEF User, Get, Login, Destroy, Call, CloseTty, Exit, Gone, KillClient,
         NeedToken, WriteCmd, BrokenPipe, objVars
  <2>2. CASE ReadId(d) \/ RecvPty(d) \/ RecvTty(d)
    BY <2>2 DEF ReadId, RecvPty, RecvTty, Throw
  <2>3. CASE GiveToken(d)
    BY <2>3 DEF GiveToken, BrokenPipe, Gone, objVars
  <2> QED
    BY <2>1, <2>2, <2>3 DEF Client
<1>6. ASSUME ~NoDestroyOf(a) PROVE ~NoDestroyOf(a)'
  <2>1. CASE UNCHANGED toSrv
    BY <1>6, <2>1 DEF NoDestroyOf
  <2>2. CASE WriteCmd(d)
    <3>1. PICK m \in Command : toSrv' = Append(toSrv, m)
      BY <2>2 DEF WriteCmd, BrokenPipe, Command
    <3>2. PICK i \in DOMAIN toSrv : toSrv[i].type = "destroy" /\ toSrv[i].id = a
      BY <1>6 DEF NoDestroyOf
    <3> DEFINE q == toSrv
    <3>3. q \in Seq(Command) /\ i \in DOMAIN q
      OBVIOUS
    <3> HIDE DEF q
    <3>4. /\ DOMAIN Append(q, m) = 1 .. Len(q) + 1 /\ DOMAIN q = 1 .. Len(q) /\ Len(q) \in Nat
          /\ Append(q, m)[i] = q[i]
      BY <3>3, Commands
    <3>5. i \in DOMAIN Append(q, m)
      BY <3>3, <3>4
    <3> QED
      BY <3>1, <3>2, <3>4, <3>5 DEF NoDestroyOf, q
  <2>3. CASE ~WriteCmd(d)
    <3>1. UNCHANGED toSrv
      BY <2>3 DEF User, Get, Login, Destroy, Call, CloseTty, Exit, Gone, KillClient, Client,
         NeedToken, ReadId, RecvPty, RecvTty, GiveToken, BrokenPipe, sockVars
    <3> QED
      BY <2>1, <3>1
  <2> QED
    BY <2>2, <2>3
<1>7. CASE d # c /\ pc[c] # "id"
  BY <1>1, <1>2, <1>3, <1>5, <1>6, <1>7 DEF Destroyed
<1>8. CASE d # c /\ pc[c] = "id"
  <2>1. ~InCall(d)
    BY <1>1, <1>8, Alone DEF InCall
  <2>2. CASE Gone(d)
    BY <1>1, <1>2, <1>3, <1>5, <1>6, <1>8, <2>2 DEF Gone, RepliesWithout, Destroyed
  <2>3. CASE ~Gone(d)
    <3>1. UNCHANGED toCli
      BY <2>1, <2>3 DEF InCall, User, Get, Login, Destroy, Call, CloseTty, Exit, KillClient,
         Client, NeedToken, WriteCmd, ReadId, RecvPty, RecvTty, GiveToken, sockVars
    <3> QED
      BY <1>1, <1>2, <1>3, <1>5, <1>6, <1>8, <3>1 DEF Destroyed
  <2> QED
    BY <2>2, <2>3
<1>9. CASE d = c
  <2> HIDE DEF c
  <2>1. CASE User(d) \/ NeedToken(d) \/ KillClient(d)
    <3>1. pc'[d] = "gone" \/ (id'[d] = id[d] /\ pc'[d] # "give" /\ pc[d] \in {"idle", "need"})
      BY <2>1 DEF User, Get, Login, Destroy, Call, CloseTty, Exit, Gone, KillClient,
         NeedToken, objVars
    <3> QED
      BY <1>2, <1>3, <1>6, <1>9, <3>1
  <2>2. CASE WriteCmd(d)
    <3> DEFINE m == [type |-> op[d], from |-> d, id |-> IF op[d] = "get" THEN Nil ELSE id[d]]
    <3>1. /\ pc[d] = "write" /\ UNCHANGED <<id, op>>
          /\ pc' = [pc EXCEPT ![d] = IF op[d] = "get" THEN "id" ELSE "give"]
          /\ toSrv' = Append(toSrv, m)
      BY <2>2 DEF WriteCmd, BrokenPipe, objVars
    <3>2. op[d] = "get" => id[d] = Nil
      BY <3>1 DEF OwnInv, CallFields, CallField
    <3>3. CASE op[d] = "destroy" /\ id[d] = a
      <4>1. m \in Command /\ m.type = "destroy" /\ m.id = a
        BY <3>3 DEF Command
      <4> DEFINE q == toSrv
      <4>2. q \in Seq(Command)
        OBVIOUS
      <4> HIDE DEF m, q
      <4>3. /\ DOMAIN Append(q, m) = 1 .. Len(q) + 1 /\ Len(q) \in Nat
            /\ Append(q, m)[Len(q) + 1] = m
        BY <4>1, <4>2, Commands
      <4>4. Len(q) + 1 \in DOMAIN Append(q, m)
        BY <4>3
      <4> QED
        BY <1>3, <3>1, <4>1, <4>3, <4>4 DEF NoDestroyOf, q
    <3>4. CASE ~(op[d] = "destroy" /\ id[d] = a)
      BY <1>1, <1>2, <1>3, <1>6, <1>9, <3>1, <3>2, <3>4
    <3> QED
      BY <3>3, <3>4
  <2>3. CASE ReadId(d)
    <3>1. Phase(d) /\ pc[d] = "id" /\ id[d] = Nil /\ op[d] = "get" /\ UNCHANGED op
      BY <2>3 DEF CallInv, PhaseInv, OwnInv, CallFields, CallField, ReadId
    <3>2. CASE Refused
      <4>1. Head(toCli) = Id(Nil)
        BY <3>2, Tuples DEF Refused
      <4>2. Id(Nil) # Id(a)
        BY <1>1, Messages
      <4> QED
        BY <1>1, <1>2, <1>3, <1>6, <1>9, <3>1, <4>1, <4>2
    <3>3. CASE /\ Answered(cur, obj[cur].line)
               /\ pc' = [pc EXCEPT ![d] = "pty"] /\ id' = [id EXCEPT ![d] = cur]
      <4>1. Head(toCli) = Id(cur)
        BY <3>3, Tuples DEF Answered
      <4>2. Head(toCli) = Id(a) => id'[d] = a
        BY <3>3, <4>1, Messages
      <4> QED
        BY <1>1, <1>2, <1>3, <1>4, <1>6, <1>9, <3>1, <3>3, <4>2
    <3> QED
      BY <2>3, <3>1, <3>2, <3>3, IdRead
  <2>4. CASE RecvPty(d) \/ RecvTty(d)
    <3>1. /\ pc[d] \in {"pty", "tty"} /\ UNCHANGED <<id, op>> /\ op[d] = "get"
      BY <2>4 DEF RecvPty, RecvTty, OwnInv, CallFields, CallField
    <3> QED
      BY <1>2, <1>3, <1>6, <1>9, <3>1
  <2>5. CASE GiveToken(d)
    <3>1. /\ pc[d] = "give" /\ pc'[d] = "idle"
          /\ op[d] # "destroy" => UNCHANGED id
      BY <2>5 DEF GiveToken, BrokenPipe, objVars
    <3> QED
      BY <1>2, <1>3, <1>6, <1>9, <3>1 DEF Destroyed
  <2> QED
    BY <2>1, <2>2, <2>3, <2>4, <2>5 DEF Client
<1> QED
  BY <1>7, <1>8, <1>9

(* The helper's step: a new object is kept for its id on the socket, and   *)
(* the id stays first there until it is read.                              *)
LEMMA KeptByHelper ==
  ASSUME Calm, QuietInv, LeakInv, Up, Up', Helper, [Next]_vars, NEW a \in ptys'
  PROVE  Kept(a)'
<1> USE DEF QuietInv, TypeInv, ClientsOK, QueuesOK
<1>1. UNCHANGED <<pc, id, op>>
  BY DEF Helper, SrvGive, SrvGet, SrvGetFails, SrvSendPty, SrvSendTty, SrvLogin,
         SrvDestroy, SrvNeed, SrvEof, SrvReap, Reads, clientVars, objVars
<1>2. ASSUME a \in ptys, obj'[a].owner = obj[a].owner,
             ~NoDestroyOf(a) => ~NoDestroyOf(a)',
             toCli # <<>> => toCli' # <<>> /\ Head(toCli') = Head(toCli)
      PROVE  Kept(a)'
  BY <1>1, <1>2 DEF LeakInv, Kept, Destroyed
<1>3. ASSUME SrvGet PROVE Kept(a)'
  <2>1. Reads("get") /\ toSrv # <<>> /\ toSrv' = Tail(toSrv) /\ Head(toSrv).type = "get"
    BY <1>3 DEF SrvGet, Reads
  <2>2. toCli = <<>>
    BY <2>1, GetRead DEF CallInv, Ends
  <2>3. PICK b \in Addrs \ ptys, l \in Lines :
           /\ Send("id", b)
           /\ ptys' = ptys \cup {b}
           /\ obj'[b] = [line |-> l, tty |-> TRUE, cmd_pid |-> FALSE,
                         owner |-> Head(toSrv).from]
           /\ \A e \in ptys : obj'[e] = obj[e]
    BY <1>3, NewObject
  <2>4. CASE a \in ptys
    BY <1>2, <2>1, <2>2, <2>3, <2>4, DestroyWaits
  <2>5. CASE a = b
    <3>1. Head(toSrv) = toSrv[1] /\ 1 \in DOMAIN toSrv /\ Head(toSrv) \in Command
      BY <2>1, Commands
    <3>2. pc[Head(toSrv).from] \in {"id", "gone"} /\ Head(toSrv).from \in Clients
      BY <2>1, <3>1 DEF LeakInv, GetWaits, Command
    <3>3. CASE pc[Head(toSrv).from] = "gone"
      BY <1>1, <2>3, <2>5, <3>3 DEF Kept
    <3>4. CASE pc[Head(toSrv).from] = "id"
      <4>1. toCli' = <<Id(b)>>
        BY <2>2, <2>3, <3>2, <3>4, Tuples DEF Send, ClientsGone, Id
      <4>2. toCli' # <<>> /\ Head(toCli') = Id(b)
        BY <4>1, Tuples
      <4> QED
        BY <1>1, <2>3, <2>5, <3>4, <4>2 DEF Kept, Id
    <3> QED
      BY <3>2, <3>3, <3>4
  <2> QED
    BY <2>3, <2>4, <2>5
<1>4. ASSUME SrvGetFails PROVE Kept(a)'
  <2>1. /\ toSrv # <<>> /\ toSrv' = Tail(toSrv) /\ Head(toSrv).type = "get"
        /\ Send("id", Nil) /\ UNCHANGED obj
    BY <1>4 DEF SrvGetFails, Reads
  <2>2. [kind |-> "id", val |-> Nil] \in Reply
    BY ReplyKinds
  <2>3. toCli # <<>> => toCli' # <<>> /\ Head(toCli') = Head(toCli)
    BY <2>1, <2>2, HeadStays
  <2> QED
    BY <1>2, <2>1, <2>3, DestroyWaits DEF ptys
<1>5. ASSUME SrvSendPty \/ SrvSendTty PROVE Kept(a)'
  <2>1. UNCHANGED toSrv /\ ~SrvDestroy /\ ~SrvReap
    BY <1>5 DEF SrvSendPty, SrvSendTty, SrvDestroy, SrvReap, Reads
  <2>2. cur \in Addrs /\ obj[cur] \in Object
    BY <1>5 DEF SrvSendPty, SrvSendTty, CurOK, ptys, HelperOK
  <2>3. \E v \in Fd : Send("fd", v) \/ UNCHANGED toCli
    <3>1. Master(obj[cur].line) \in Fd /\ Slave(obj[cur].line) \in Fd
      BY <2>2 DEF Object, Fd, Master, Slave
    <3> QED
      BY <1>5, <3>1 DEF SrvSendPty, SrvSendTty
  <2>4. toCli # <<>> => toCli' # <<>> /\ Head(toCli') = Head(toCli)
    BY <2>3, HeadStays, ReplyKinds
  <2>5. a \in ptys /\ obj'[a].owner = obj[a].owner
    <3>1. ptys' \subseteq ptys
      BY <1>5, <2>2 DEF SrvSendPty, SrvSendTty, ptys, HelperOK, CurOK
    <3>2. ~KillHelper
      BY DEF KillHelper, Up
    <3> QED
      BY <2>1, <3>1, <3>2, ObjectsStay DEF Stays
  <2> QED
    BY <1>2, <2>1, <2>4, <2>5 DEF NoDestroyOf
<1>6. ASSUME SrvLogin PROVE Kept(a)'
  <2>1. /\ toSrv # <<>> /\ toSrv' = Tail(toSrv) /\ Head(toSrv).type = "login"
        /\ UNCHANGED toCli /\ ~SrvDestroy /\ ~SrvReap
    BY <1>6 DEF SrvLogin, SrvDestroy, SrvReap, Reads
  <2>2. a \in ptys /\ obj'[a].owner = obj[a].owner
    <3>1. ptys' \subseteq ptys
      <4>1. ASSUME Head(toSrv).id \in ptys PROVE ptys' \subseteq ptys
        BY <1>6, <4>1 DEF SrvLogin, ptys, HelperOK
      <4>2. ASSUME Head(toSrv).id \notin ptys PROVE ptys' \subseteq ptys
        BY <1>6, <4>2 DEF SrvLogin, ptys, HelperOK
      <4> QED
        BY <4>1, <4>2
    <3>2. ~KillHelper
      BY DEF KillHelper, Up
    <3> QED
      BY <2>1, <3>1, <3>2, ObjectsStay DEF Stays
  <2> QED
    BY <1>2, <2>1, <2>2, DestroyWaits
<1>7. ASSUME SrvDestroy PROVE Kept(a)'
  <2>1. /\ toSrv # <<>> /\ toSrv' = Tail(toSrv) /\ UNCHANGED toCli
    BY <1>7 DEF SrvDestroy, Reads
  <2>2. a \in ptys /\ a # Head(toSrv).id /\ obj'[a] = obj[a]
    BY <1>7 DEF SrvDestroy, Delete, ptys, HelperOK
  <2> QED
    BY <1>2, <2>1, <2>2, DestroyWaits
<1>8. ASSUME SrvGive \/ SrvNeed \/ SrvEof PROVE Kept(a)'
  <2>1. UNCHANGED <<obj, toSrv, toCli>>
    BY <1>8 DEF SrvGive, SrvNeed, SrvEof, sockVars
  <2> QED
    BY <1>2, <2>1 DEF NoDestroyOf, ptys
<1>9. ASSUME SrvReap PROVE Kept(a)'
  <2>1. ClientsGone
    BY <1>9 DEF SrvReap, CallInv, Ends
  <2>2. obj'[a] \in Object
    <3>1. obj'[a] = obj[a] /\ a \in ptys
      BY <1>9 DEF SrvReap, Delete, ptys, HelperOK
    <3> QED
      BY <3>1 DEF HelperOK, ptys
  <2> QED
    BY <1>1, <2>1, <2>2 DEF ClientsGone, Kept, Object
<1> QED
  BY <1>3, <1>4, <1>5, <1>6, <1>7, <1>8, <1>9 DEF Helper

(* Each step leaves a reason to keep each object.                          *)
LEMMA LeakNext ==
  ASSUME "eintr" \notin Env, "copy" \notin Env, Calm, QuietInv, OwnInv, LeakInv, [Next]_vars
  PROVE  LeakInv'
<1> SUFFICES ASSUME Up' PROVE (GetWaits /\ TtyClosed)' /\ \A a \in ptys' : Kept(a)'
  BY DEF LeakInv
<1>1. Up
  BY UpBefore
<1>2. ASSUME NEW c \in Clients, User(c) \/ Client(c) \/ KillClient(c)
      PROVE  \A a \in ptys' : Kept(a)'
  <2>1. ptys' = ptys
    BY <1>2, ClientLeavesHelper DEF srvVars, ptys
  <2> SUFFICES ASSUME NEW a \in ptys' PROVE Kept(a)'
      OBVIOUS
  <2>2. a \in ptys
    BY <2>1
  <2> QED
    BY <1>1, <1>2, <2>2, KeptByClients
<1>3. ASSUME Helper, NEW a \in ptys' PROVE Kept(a)'
  BY <1>1, <1>3, KeptByHelper
<1>4. ASSUME UNCHANGED vars, NEW a \in ptys' PROVE Kept(a)'
  <2>1. UNCHANGED <<pc, id, op, toSrv, toCli, obj>>
    BY <1>4 DEF vars, objVars, srvVars, sockVars
  <2>2. a \in ptys /\ Kept(a)
    BY <1>1, <1>4, <2>1 DEF LeakInv, ptys
  <2> QED
    BY <2>1, <2>2 DEF Kept, NoDestroyOf, Destroyed
<1>5. ASSUME NEW c \in Clients, NEW d \in Clients, Fork(c, d) PROVE FALSE
  BY <1>5 DEF Fork
<1>6. ~KillHelper
  BY DEF KillHelper, Up
<1>7. \A a \in ptys' : Kept(a)'
  BY <1>2, <1>3, <1>4, <1>5, <1>6 DEF Next, Ended
<1> QED
  BY <1>7, GetWaitsNext, TtyClosedNext DEF QuietInv

-----------------------------------------------------------------------------
(* What ownership needs: no signal interrupts a read, no process copies    *)
(* its objects by fork, and in a build without the token no descriptor is  *)
(* lost and no client is killed, as the replies of such a call are met by  *)
(* the next one.                                                           *)
Tame ==
  /\ "eintr" \notin Env /\ "copy" \notin Env
  /\ FALSE \in Builds => Env \cap {"recv_fd", "kill_client"} = {}

(* The inductive invariant of ownership.                                   *)
OwnershipInv ==
  /\ reentrant \in Builds
  /\ QuietInv /\ OwnInv /\ LineInv /\ LeakInv
  /\ \A c \in Clients : HasPty(c)

(* It is inductive.                                                        *)
LEMMA OwnershipInit == Init => OwnershipInv
<1> SUFFICES ASSUME Init PROVE OwnershipInv
    OBVIOUS
<1>1. QuietInv
  BY TypeInit, ExclusionInit, CallInit DEF QuietInv
<1>2. OwnInv
  BY DEF Init, OwnInv, CallFields, CallField, CommandsMeant, DestroyedLast, ClientOwns
<1>3. LeakInv
  BY DEF Init, LeakInv, GetWaits, TtyClosed, ptys
<1>4. reentrant \in Builds /\ \A c \in Clients : HasPty(c)
  BY DEF Init, HasPty
<1> QED
  BY <1>1, <1>2, <1>3, <1>4, LineInit DEF OwnershipInv

LEMMA OwnershipNext == Tame /\ OwnershipInv /\ [Next]_vars => OwnershipInv'
<1> SUFFICES ASSUME Tame, OwnershipInv, [Next]_vars PROVE OwnershipInv'
    OBVIOUS
<1>1. Calm /\ "eintr" \notin Env /\ "copy" \notin Env
  BY ConstantAssumption DEF OwnershipInv, Tame, Calm
<1>2. UNCHANGED reentrant
  BY DEF Next, vars
<1>3. QuietInv'
  BY <1>1, TypeNext, ExclusionNext, EndsNext, TokenQuietNext, OneAtATimeNext, PhaseNext
  DEF OwnershipInv, QuietInv, CallInv
<1>4. OwnInv' /\ LineInv' /\ LeakInv'
  BY <1>1, OwnNext, LineNext, LeakNext DEF OwnershipInv
<1>5. \A c \in Clients : HasPty(c)'
  BY <1>1, HasPtyNext DEF OwnershipInv
<1> QED
  BY <1>2, <1>3, <1>4, <1>5 DEF OwnershipInv

LEMMA OwnershipInvariant == ASSUME Tame PROVE Spec => []OwnershipInv
<1>1. OwnershipInv /\ [Next]_vars => OwnershipInv'
  BY OwnershipNext
<1> QED
  BY <1>1, OwnershipInit, PTL DEF Spec

(* OwnsItsPty, for every number of clients, addresses and lines: a get     *)
(* that returned true (ptytty_proxy::get, proxy.C) has left its client a   *)
(* pty and a tty of one line, and the id of the object that the helper     *)
(* keeps for it on that line. It holds although the helper may fail to     *)
(* send a descriptor, the replies are raw bytes without a length or a      *)
(* name, and the helper may be killed at any time.                         *)
THEOREM OwnsItsPtyAlways == ASSUME Tame PROVE Spec => []OwnsItsPty
<1>1. OwnershipInv => OwnsItsPty
  BY DEF OwnershipInv, HasPty, OwnsItsPty
<1> QED
  BY <1>1, OwnershipInvariant, PTL

(* CommandsReachOwner: the pointer in a queued login or destroy (serve,    *)
(* proxy.C) is that of an object created for the client that sent it. The  *)
(* helper looks it up among its objects, and an address can be reused:     *)
(* what the theorem excludes is a command that finds another client's      *)
(* object at its own old address.                                          *)
THEOREM CommandsReachOwnerAlways == ASSUME Tame PROVE Spec => []CommandsReachOwner
<1>1. OwnershipInv => CommandsReachOwner
  BY DEF OwnershipInv, QuietInv, CallInv, Ends, OwnInv, CommandsMeant, Owns, CommandsReachOwner
<1> QED
  BY <1>1, OwnershipInvariant, PTL

(* NothingLeaks: when no call is under way, each object of the helper      *)
(* belongs to a client that holds its id or ended without destroying it,   *)
(* and its tty is closed (serve closes it when it has sent it). A get that *)
(* failed halfway, on the client's side or on the helper's, leaves no      *)
(* object that nobody can delete.                                          *)
THEOREM NothingLeaksAlways == ASSUME Tame PROVE Spec => []NothingLeaks
<1>1. OwnershipInv => NothingLeaks
  <2> SUFFICES ASSUME OwnershipInv, srv = "read", toSrv = <<>>,
                      \A c \in Clients : ~InCall(c), NEW a \in ptys
               PROVE  /\ pc[obj[a].owner] = "gone" \/ id[obj[a].owner] = a
                      /\ ~obj[a].tty
      BY DEF NothingLeaks
  <2>1. Kept(a) /\ TtyClosed
    BY DEF OwnershipInv, LeakInv, Up
  <2>2. NoDestroyOf(a)
    BY DEF NoDestroyOf
  <2>3. obj[a].owner \in Clients
    BY DEF OwnershipInv, QuietInv, TypeInv, HelperOK, ptys, Object
  <2> QED
    BY <2>1, <2>2, <2>3 DEF Kept, TtyClosed, InCall
<1> QED
  BY <1>1, OwnershipInvariant, PTL

=============================================================================
