----------------------- MODULE PtyProxyService_proofs -----------------------
(***************************************************************************)
(* The helper protocol implements the service, for every number of         *)
(* clients, addresses and lines: each step of clients and helper, seen     *)
(* through the mapping of PtyProxyService, is one step of PtyService or    *)
(* none. First what CommandTypes computes of any queue, by induction; then *)
(* the invariant of the simulation, which adds to ownership and sessions   *)
(* that a client has one object and that commands are queued in an order   *)
(* that makes sense; then the steps.                                       *)
(***************************************************************************)
EXTENDS PtyProxyService, PtyProxyOwner_proofs, WellFoundedInduction

(* A set of naturals that is not empty has a least element: induction over *)
(* numbers is done by the smallest counterexample.                         *)
LEMMA Least ==
  ASSUME NEW S \in SUBSET Nat, S # {}
  PROVE  \E n \in S : \A k \in S : n <= k
<1>1. IsWellFoundedOn(OpToRel(<, Nat), Nat)
  BY NatLessThanWellFounded
<1>2. PICK n \in S : \A y \in S : ~(<<y, n>> \in OpToRel(<, Nat))
  BY <1>1, WFMin
<1>3. \A y \in S : ~(y < n)
  BY <1>2 DEF OpToRel
<1>4. QED
  BY <1>3

(* What a set of naturals has that has 0, and with each number the next.   *)
LEMMA AllNaturals ==
  ASSUME NEW S, 0 \in S, \A n \in Nat : n \in S => n + 1 \in S
  PROVE  Nat \subseteq S
<1> DEFINE Out == {n \in Nat : n \notin S}
<1>1. SUFFICES ASSUME Out # {} PROVE FALSE
  OBVIOUS
<1>2. PICK n \in Out : \A k \in Out : n <= k
  BY <1>1, Least
<1>3. n # 0 /\ n - 1 \in Nat /\ n - 1 \notin Out
  BY <1>2
<1>4. n - 1 + 1 \in S /\ n - 1 + 1 = n
  BY <1>3
<1>5. QED
  BY <1>2, <1>4

-----------------------------------------------------------------------------
(* The recursive function of CommandTypes: types[n] is about the first n   *)
(* commands of queue q.                                                    *)
IsTypes(f, q, c, n) ==
  f = [i \in 0..n |->
         IF i = 0             THEN <<>>
         ELSE IF q[i].from = c THEN Append(f[i - 1], q[i].type)
         ELSE f[i - 1]]

(* What it says of each number of commands.                                *)
LEMMA TypesStep ==
  ASSUME NEW f, NEW q, NEW c, NEW n \in Nat, IsTypes(f, q, c, n)
  PROVE  /\ f[0] = <<>>
         /\ \A i \in 1..n : f[i] = IF q[i].from = c THEN Append(f[i - 1], q[i].type) ELSE f[i - 1]
<1>1. \A i \in 0..n : f[i] = IF i = 0             THEN <<>>
                             ELSE IF q[i].from = c THEN Append(f[i - 1], q[i].type)
                             ELSE f[i - 1]
  BY DEF IsTypes
<1> QED
  BY <1>1

(* There is such a function.                                               *)
LEMMA TypesExist ==
  ASSUME NEW q, NEW c, NEW n \in Nat
  PROVE  \E f : IsTypes(f, q, c, n)
<1> DEFINE S == {m \in Nat : \E f : IsTypes(f, q, c, m)}
<1>1. 0 \in S
  <2>1. IsTypes([i \in 0..0 |-> <<>>], q, c, 0)
    BY DEF IsTypes
  <2> QED
    BY <2>1
<1>2. ASSUME NEW m \in Nat, m \in S PROVE m + 1 \in S
  <2>1. PICK f : IsTypes(f, q, c, m)
    BY <1>2
  <2> DEFINE g == [i \in 0..(m + 1) |->
                     IF i = 0             THEN <<>>
                     ELSE IF q[i].from = c THEN Append(f[i - 1], q[i].type)
                     ELSE f[i - 1]]
  <2>2. /\ f[0] = <<>>
        /\ \A i \in 1..m : f[i] = IF q[i].from = c THEN Append(f[i - 1], q[i].type) ELSE f[i - 1]
    BY <2>1, TypesStep
  <2>3. \A i \in 0..m : g[i] = f[i]
    BY <2>2
  <2>4. \A i \in 0..(m + 1) : i # 0 => i - 1 \in 0..m
    OBVIOUS
  <2>5. IsTypes(g, q, c, m + 1)
    BY <2>3, <2>4, Zenon DEF IsTypes
  <2> QED
    BY <2>5
<1> QED
  BY <1>1, <1>2, AllNaturals

(* So CommandTypes is its last value.                                      *)
LEMMA TypesDef ==
  ASSUME NEW q \in Seq(Command), NEW c
  PROVE  \E f : IsTypes(f, q, c, Len(q)) /\ CommandTypes(q, c) = f[Len(q)]
<1> DEFINE F == CHOOSE f : IsTypes(f, q, c, Len(q))
<1>0. Len(q) \in Nat
  BY LenProperties
<1>1. IsTypes(F, q, c, Len(q))
  BY <1>0, TypesExist
<1>2. CommandTypes(q, c) = F[Len(q)]
  BY DEF CommandTypes, IsTypes
<1> QED
  BY <1>1, <1>2

(* Its values are sequences of types.                                      *)
LEMMA TypesSeq ==
  ASSUME NEW q \in Seq(Command), NEW c, NEW f, NEW n \in Nat, n <= Len(q), IsTypes(f, q, c, n)
  PROVE  \A i \in 0..n : f[i] \in Seq(CommandType)
<1> DEFINE S == {i \in Nat : i <= n => f[i] \in Seq(CommandType)}
<1>1. Len(q) \in Nat
  BY LenProperties
<1>2. /\ f[0] = <<>>
      /\ \A i \in 1..n : f[i] = IF q[i].from = c THEN Append(f[i - 1], q[i].type) ELSE f[i - 1]
  BY TypesStep
<1>3. 0 \in S
  BY <1>2, EmptySeq
<1>4. ASSUME NEW i \in Nat, i \in S PROVE i + 1 \in S
  <2> SUFFICES ASSUME i + 1 <= n PROVE f[i + 1] \in Seq(CommandType)
      OBVIOUS
  <2>1. f[i] \in Seq(CommandType) /\ i + 1 \in 1..n /\ i + 1 \in 1..Len(q) /\ i + 1 - 1 = i
    BY <1>1, <1>4
  <2>2. q[i + 1] \in Command
    BY <2>1, ElementOfSeq
  <2>3. q[i + 1].type \in CommandType
    BY <2>2 DEF Command
  <2>4. f[i + 1] = IF q[i + 1].from = c THEN Append(f[i], q[i + 1].type) ELSE f[i]
    BY <1>2, <2>1
  <2> QED
    BY <2>1, <2>3, <2>4, AppendProperties
<1> HIDE DEF S
<1>5. Nat \subseteq S
  BY <1>3, <1>4, AllNaturals
<1> QED
  BY <1>5 DEF S

(* Two queues begin with the same n commands.                              *)
SameUpTo(q, r, n) == \A i \in 1..n : q[i] = r[i]

(* It is about the commands, wherever they are queued.                     *)
LEMMA TypesAgree ==
  \A q, r \in Seq(Command) : \A c, f, g : \A n, k \in Nat :
    /\ n <= k /\ SameUpTo(q, r, n)
    /\ IsTypes(f, q, c, n) /\ IsTypes(g, r, c, k)
    => f[n] = g[n]
<1> TAKE q, r \in Seq(Command)
<1> TAKE c, f, g
<1> TAKE n, k \in Nat
<1> SUFFICES ASSUME n <= k, IsTypes(f, q, c, n), IsTypes(g, r, c, k), SameUpTo(q, r, n)
             PROVE  f[n] = g[n]
    OBVIOUS
<1> DEFINE S == {i \in Nat : i <= n => f[i] = g[i]}
<1>1. /\ f[0] = <<>>
      /\ \A i \in 1..n : f[i] = IF q[i].from = c THEN Append(f[i - 1], q[i].type) ELSE f[i - 1]
  BY TypesStep
<1>2. /\ g[0] = <<>>
      /\ \A i \in 1..k : g[i] = IF r[i].from = c THEN Append(g[i - 1], r[i].type) ELSE g[i - 1]
  BY TypesStep
<1>3. 0 \in S
  BY <1>1, <1>2
<1>4. ASSUME NEW i \in Nat, i \in S PROVE i + 1 \in S
  <2> SUFFICES ASSUME i + 1 <= n PROVE f[i + 1] = g[i + 1]
      OBVIOUS
  <2>1. f[i] = g[i] /\ i + 1 \in 1..n /\ i + 1 \in 1..k /\ i + 1 - 1 = i
    BY <1>4
  <2> QED
    BY <1>1, <1>2, <2>1 DEF SameUpTo
<1> HIDE DEF S
<1>5. Nat \subseteq S
  BY <1>3, <1>4, AllNaturals
<1> QED
  BY <1>5 DEF S

(* No command, no types; and always types.                                 *)
LEMMA TypesType ==
  ASSUME NEW q \in Seq(Command), NEW c
  PROVE  CommandTypes(q, c) \in Seq(CommandType) /\ (q = <<>> => CommandTypes(q, c) = <<>>)
<1>1. PICK f : IsTypes(f, q, c, Len(q)) /\ CommandTypes(q, c) = f[Len(q)]
  BY TypesDef
<1>2. Len(q) \in Nat /\ (q = <<>> => Len(q) = 0)
  BY LenProperties
<1> QED
  BY <1>1, <1>2, TypesSeq, TypesStep

(* Appending to the second of two sequences of types.                      *)
LEMMA AppendOfConcat ==
  ASSUME NEW s \in Seq(CommandType), NEW t \in Seq(CommandType), NEW x \in CommandType
  PROVE  Append(s \o t, x) = s \o Append(t, x)
<1>1. <<x>> \in Seq(CommandType) /\ s \o t \in Seq(CommandType)
  BY ConcatProperties
<1>2. Append(s \o t, x) = (s \o t) \o <<x>>
  BY <1>1, AppendIsConcat
<1>3. Append(t, x) = t \o <<x>>
  BY AppendIsConcat
<1> QED
  BY <1>1, <1>2, <1>3, ConcatAssociative

(* A command that is written is the last of its client's, and no other's.  *)
LEMMA TypesAppend ==
  ASSUME NEW q \in Seq(Command), NEW m \in Command, NEW c
  PROVE  CommandTypes(Append(q, m), c) =
           IF m.from = c THEN Append(CommandTypes(q, c), m.type) ELSE CommandTypes(q, c)
<1> DEFINE r == Append(q, m)
           n == Len(q)
<1>1. /\ n \in Nat /\ r \in Seq(Command) /\ Len(r) = n + 1 /\ r[n + 1] = m
      /\ \A i \in 1..n : q[i] = r[i]
  BY LenProperties, AppendProperties
<1>2. PICK f : IsTypes(f, q, c, n) /\ CommandTypes(q, c) = f[n]
  BY TypesDef
<1>3. PICK g : IsTypes(g, r, c, n + 1) /\ CommandTypes(r, c) = g[n + 1]
  BY <1>1, TypesDef
<1> HIDE DEF r, n
<1>4. n + 1 \in Nat /\ n <= n + 1 /\ n + 1 \in 1..(n + 1) /\ n + 1 - 1 = n
  BY <1>1
<1>5. IsTypes(f, q, c, n) /\ IsTypes(g, r, c, n + 1)
  BY <1>2, <1>3
<1>6. f[n] = g[n]
  <2>1. PICK k \in Nat : k = n + 1
    BY <1>4
  <2>2. n \in Nat /\ k \in Nat /\ n <= k /\ SameUpTo(q, r, n)
    BY <1>1, <2>1 DEF SameUpTo
  <2>3. IsTypes(f, q, c, n) /\ IsTypes(g, r, c, k)
    BY <1>5, <2>1
  <2> QED
    BY <1>1, <2>2, <2>3, TypesAgree
<1>7. \A i \in 1..(n + 1) : g[i] = IF r[i].from = c THEN Append(g[i - 1], r[i].type) ELSE g[i - 1]
  BY <1>4, <1>5, TypesStep
<1> QED
  BY <1>1, <1>2, <1>3, <1>4, <1>6, <1>7 DEF r

(* The one that is read was the first of its client's, and no other's.     *)
LEMMA TypesTail ==
  ASSUME NEW q \in Seq(Command), q # <<>>, NEW c
  PROVE  CommandTypes(q, c) =
           (IF Head(q).from = c THEN <<Head(q).type>> ELSE <<>>) \o CommandTypes(Tail(q), c)
<1> DEFINE r == Tail(q)
           n == Len(q)
           h == IF Head(q).from = c THEN <<Head(q).type>> ELSE <<>>
<1>1. /\ n \in Nat \ {0} /\ r \in Seq(Command) /\ Len(r) = n - 1 /\ Head(q) = q[1]
      /\ q[1] \in Command
      /\ \A i \in 1..(n - 1) : r[i] = q[i + 1]
  BY LenProperties, EmptySeq, HeadTailProperties, ElementOfSeq
<1>2. PICK f : IsTypes(f, q, c, n) /\ CommandTypes(q, c) = f[n]
  BY TypesDef
<1>3. PICK g : IsTypes(g, r, c, n - 1) /\ CommandTypes(r, c) = g[n - 1]
  <2> HIDE DEF r, n
  <2>1. \E g : IsTypes(g, r, c, Len(r)) /\ CommandTypes(r, c) = g[Len(r)]
    BY <1>1, TypesDef
  <2> QED
    BY <1>1, <2>1
<1>4. h \in Seq(CommandType)
  BY <1>1 DEF Command
<1>5. n \in Nat /\ n - 1 \in Nat /\ n - 1 + 1 = n /\ Len(r) = n - 1 /\ n - 1 <= Len(r)
  BY <1>1
<1>6. IsTypes(f, q, c, n) /\ IsTypes(g, r, c, n - 1)
  BY <1>2, <1>3
<1> HIDE DEF r, n, h
<1>7. /\ f[0] = <<>>
      /\ \A i \in 1..n : f[i] = IF q[i].from = c THEN Append(f[i - 1], q[i].type) ELSE f[i - 1]
  BY <1>5, <1>6, TypesStep
<1>8. /\ g[0] = <<>>
      /\ \A i \in 1..(n - 1) : g[i] = IF r[i].from = c THEN Append(g[i - 1], r[i].type) ELSE g[i - 1]
  BY <1>5, <1>6, TypesStep
<1>9. \A i \in 0..(n - 1) : g[i] \in Seq(CommandType)
  BY <1>1, <1>5, <1>6, TypesSeq
<1>10. f[1] = h
  <2>1. 1 \in 1..n /\ 1 - 1 = 0
    BY <1>1
  <2>2. f[1] = IF q[1].from = c THEN Append(<<>>, q[1].type) ELSE <<>>
    BY <1>7, <2>1
  <2>3. \A t : Append(<<>>, t) = <<t>>
    OBVIOUS
  <2> QED
    BY <1>1, <2>2, <2>3 DEF h
<1>11. h \o <<>> = h
  BY <1>4, ConcatEmptySeq
<1> DEFINE S == {i \in Nat : i <= n - 1 => f[i + 1] = h \o g[i]}
<1>12. 0 \in S
  BY <1>5, <1>8, <1>10, <1>11, 0 + 1 = 1
<1>13. ASSUME NEW i \in Nat, i \in S PROVE i + 1 \in S
  <2> SUFFICES ASSUME i + 1 <= n - 1 PROVE f[i + 1 + 1] = h \o g[i + 1]
      OBVIOUS
  <2>1. f[i + 1] = h \o g[i]
    BY <1>1, <1>13
  <2>2. /\ i \in 0..(n - 1) /\ i + 1 \in 1..(n - 1) /\ i + 1 + 1 \in 1..n
        /\ i + 1 - 1 = i /\ i + 1 + 1 - 1 = i + 1 /\ i + 1 \in 1..Len(r)
    BY <1>1
  <2>3. r[i + 1] = q[i + 1 + 1] /\ r[i + 1] \in Command
    BY <1>1, <2>2, ElementOfSeq
  <2>4. r[i + 1].type \in CommandType
    BY <2>3 DEF Command
  <2>5. f[i + 1 + 1] = IF q[i + 1 + 1].from = c THEN Append(f[i + 1], q[i + 1 + 1].type) ELSE f[i + 1]
    BY <1>7, <2>2
  <2>6. g[i + 1] = IF r[i + 1].from = c THEN Append(g[i], r[i + 1].type) ELSE g[i]
    BY <1>8, <2>2
  <2>7. g[i] \in Seq(CommandType)
    BY <1>9, <2>2
  <2>8. Append(h \o g[i], r[i + 1].type) = h \o Append(g[i], r[i + 1].type)
    BY <1>4, <2>4, <2>7, AppendOfConcat
  <2> QED
    BY <2>1, <2>3, <2>5, <2>6, <2>8
<1> HIDE DEF S
<1>14. Nat \subseteq S
  BY <1>12, <1>13, AllNaturals
<1>15. f[n] = h \o g[n - 1]
  BY <1>5, <1>14 DEF S
<1> QED
  BY <1>2, <1>3, <1>15 DEF h, r

-----------------------------------------------------------------------------
(* What the refinement needs: ownership (Tame), and nobody is killed, as   *)
(* the service neither forgets a request nor loses what it keeps.          *)
Unharmed == Tame /\ "kill_client" \notin Env /\ "kill_helper" \notin Env

(* A client has one object in the helper.                                  *)
OneObject == \A a, b \in ptys : obj[a].owner = obj[b].owner => a = b

(* Whoever sent a queued get waits for its answer.                         *)
GetsWait ==
  \A i \in DOMAIN toSrv : toSrv[i].type = "get" => pc[toSrv[i].from] = "id"

(* The helper deletes object a before it comes to command i.               *)
DeletedBefore(i, a) ==
  \E j \in 1..(i - 1) : toSrv[j].type = "destroy" /\ toSrv[j].id = a

(* When the helper comes to the login of an object that had no pty, its    *)
(* client has none.                                                        *)
Blind(i, a) ==
  toSrv[i].type = "login" /\ toSrv[i].id = Nil /\ toSrv[i].from = obj[a].owner

BlindLogins ==
  \A i \in DOMAIN toSrv : \A a \in ptys : Blind(i, a) => DeletedBefore(i, a)

OrderInv == srv # "killed" /\ OneObject /\ GetsWait /\ BlindLogins
SimInv   == OwnershipInv /\ SessionInv /\ OrderInv

(* The command that c is about to write.                                   *)
CommandOf(c) ==
  [type |-> op[c], from |-> c, id |-> IF op[c] = "get" THEN Nil ELSE id[c]]

(* As long as a client is there, the helper is.                            *)
LEMMA HelperThere ==
  ASSUME SimInv, NEW c \in Clients, pc[c] # "gone"
  PROVE  Up
BY DEF SimInv, OwnershipInv, QuietInv, CallInv, Ends, ClientsGone, OrderInv, Up

(* So a client ends only between calls.                                    *)
LEMMA LeavesIdle ==
  ASSUME Unharmed, SimInv, NEW c \in Clients, User(c) \/ Client(c), pc[c] # "idle"
  PROVE  \A d \in Clients : pc'[d] = "gone" => pc[d] = "gone"
<1> USE DEF SimInv, OwnershipInv, QuietInv, TypeInv, ClientsOK
<1>1. pc[c] # "gone" => Up
  BY HelperThere
<1>2. CASE User(c)
  BY <1>2 DEF User, Get, Login, Destroy, Call, CloseTty, Exit
<1>3. CASE NeedToken(c) \/ ReadId(c) \/ RecvPty(c) \/ RecvTty(c)
  BY <1>3 DEF NeedToken, ReadId, RecvPty, RecvTty, Throw
<1>4. CASE WriteCmd(c)
  BY <1>1, <1>4 DEF WriteCmd, BrokenPipe
<1>5. CASE GiveToken(c)
  BY <1>1, <1>5 DEF GiveToken, BrokenPipe
<1> QED
  BY <1>2, <1>3, <1>4, <1>5 DEF Client

(* The queue of commands is written by its clients and read by the helper. *)
LEMMA QueueSteps ==
  ASSUME Unharmed, SimInv, [Next]_vars
  PROVE  \/ toSrv' = toSrv
         \/ /\ toSrv # <<>> /\ toSrv' = Tail(toSrv) /\ UNCHANGED <<pc, op, id>>
            /\ SrvGet \/ SrvGetFails \/ SrvLogin \/ SrvDestroy
         \/ \E c \in Clients :
              /\ pc[c] = "write" /\ pc'[c] # "gone" /\ WriteCmd(c)
              /\ toSrv' = Append(toSrv, CommandOf(c)) /\ CommandOf(c) \in Command
<1> USE DEF SimInv, OwnershipInv, QuietInv, TypeInv, ClientsOK
<1>1. ASSUME NEW c \in Clients, User(c) \/ NeedToken(c) \/ ReadId(c) \/ RecvPty(c) \/ RecvTty(c)
                                 \/ GiveToken(c)
      PROVE  toSrv' = toSrv
  BY <1>1 DEF User, Get, Login, Destroy, Call, CloseTty, Exit, Gone, NeedToken, ReadId, RecvPty,
     RecvTty, GiveToken, BrokenPipe, sockVars
<1>2. ASSUME NEW c \in Clients, WriteCmd(c)
      PROVE  /\ pc[c] = "write" /\ pc'[c] # "gone"
             /\ toSrv' = Append(toSrv, CommandOf(c)) /\ CommandOf(c) \in Command
  <2>1. Up /\ pc[c] = "write"
    BY <1>2, HelperThere DEF WriteCmd
  <2>2. /\ pc' = [pc EXCEPT ![c] = IF op[c] = "get" THEN "id" ELSE "give"]
        /\ toSrv' = Append(toSrv, CommandOf(c))
    BY <1>2, <2>1 DEF WriteCmd, BrokenPipe, CommandOf
  <2>3. CommandOf(c) \in Command
    BY DEF CommandOf, Command
  <2> QED
    BY <2>1, <2>2, <2>3
<1>3. ASSUME SrvGet \/ SrvGetFails \/ SrvLogin \/ SrvDestroy
      PROVE  toSrv # <<>> /\ toSrv' = Tail(toSrv) /\ UNCHANGED <<pc, op, id>>
  BY <1>3 DEF SrvGet, SrvGetFails, SrvLogin, SrvDestroy, Reads, clientVars, objVars
<1>4. ASSUME SrvGive \/ SrvSendPty \/ SrvSendTty \/ SrvNeed \/ SrvEof \/ SrvReap
      PROVE  toSrv' = toSrv
  BY <1>4 DEF SrvGive, SrvSendPty, SrvSendTty, SrvNeed, SrvEof, SrvReap, sockVars
<1>5. (\A c \in Clients : ~KillClient(c)) /\ ~KillHelper
  BY DEF Unharmed, KillClient, KillHelper
<1>6. \A c, d \in Clients : ~Fork(c, d)
  BY DEF Unharmed, Tame, Fork
<1>7. UNCHANGED vars => toSrv' = toSrv
  BY DEF vars, sockVars
<1> QED
  BY <1>1, <1>2, <1>3, <1>4, <1>5, <1>6, <1>7 DEF Next, Helper, Client, Ended

(* A get that the helper reads is the only command queued, and its client  *)
(* has no object.                                                          *)
LEMMA GetAlone ==
  ASSUME Unharmed, SimInv, srv = "read", toSrv # <<>>, Head(toSrv).type = "get"
  PROVE  /\ Head(toSrv).from \in Clients /\ Len(toSrv) = 1 /\ Tail(toSrv) = <<>>
         /\ \A a \in ptys : obj[a].owner # Head(toSrv).from
<1> USE DEF SimInv, OwnershipInv, QuietInv
<1> DEFINE c == Head(toSrv).from
<1>1. /\ Len(toSrv) \in Nat \ {0} /\ DOMAIN toSrv = 1..Len(toSrv) /\ Head(toSrv) = toSrv[1]
      /\ 1 \in DOMAIN toSrv /\ toSrv[1] \in Command
  BY Commands, ElementOfSeq DEF TypeInv, QueuesOK
<1>2. c \in Clients
  BY <1>1 DEF Command
<1>3. pc[c] = "id"
  BY <1>1 DEF OrderInv, GetsWait
<1>4. Calm /\ Up
  BY ConstantAssumption DEF Unharmed, Tame, Calm, Up
<1>5. Phase(c)
  BY <1>2, <1>4 DEF CallInv, PhaseInv
<1> HIDE DEF c
<1>6. Asks(c)
  BY <1>3, <1>5 DEF Phase, Refused, Serves
<1>7. Len(toSrv) = 1 /\ toCli = <<>>
  BY <1>1, <1>6 DEF Asks
<1>8. Tail(toSrv) = <<>>
  BY <1>7, Commands DEF TypeInv, QueuesOK
<1>9. ASSUME NEW a \in ptys, obj[a].owner = c PROVE FALSE
  <2>1. Kept(a) /\ a \in Addrs
    BY <1>4 DEF LeakInv, ptys
  <2>2. id[c] = Nil
    BY <1>2, <1>3 DEF OwnInv, CallFields, CallField
  <2>3. NoDestroyOf(a)
    BY <1>1, <1>7 DEF NoDestroyOf
  <2> QED
    BY <1>3, <1>7, <1>9, <2>1, <2>2, <2>3, NilAssumption DEF Kept
<1> QED
  BY <1>2, <1>7, <1>8, <1>9 DEF c

(* The objects after a step: the old ones, but a new one of the get that   *)
(* was read.                                                               *)
LEMMA ObjectsAfter ==
  ASSUME Unharmed, SimInv, [Next]_vars
  PROVE  \/ SrvGet
         \/ \A a \in ptys' : a \in ptys /\ obj'[a].owner = obj[a].owner /\ obj'[a].line = obj[a].line
<1> USE DEF SimInv, OwnershipInv, QuietInv
<1>1. CASE SrvDestroy
  <2>1. ASSUME NEW a \in ptys' PROVE a \in ptys /\ obj'[a] = obj[a]
    BY <1>1 DEF SrvDestroy, Delete, ptys, TypeInv, HelperOK
  <2> QED
    BY <2>1
<1>2. CASE SrvReap
  <2>1. ASSUME NEW a \in ptys' PROVE a \in ptys /\ obj'[a] = obj[a]
    BY <1>2 DEF SrvReap, Delete, ptys, TypeInv, HelperOK
  <2> QED
    BY <2>1
<1>3. CASE ~SrvGet /\ ~SrvDestroy /\ ~SrvReap
  <2>1. ~KillHelper
    BY DEF Unharmed, KillHelper
  <2>2. \A a \in ptys : Stays(a)
    BY <1>3, <2>1, ObjectsStay
  <2>3. ptys' \subseteq ptys
    <3>1. CASE UNCHANGED obj
      BY <3>1 DEF ptys
    <3>2. CASE SrvSendTty
      BY <3>2 DEF SrvSendTty, TypeInv, HelperOK, CurOK, ptys
    <3>3. CASE SrvLogin
      BY <3>3 DEF SrvLogin, TypeInv, HelperOK, ptys
    <3>4. CASE SrvGive \/ SrvGetFails \/ SrvSendPty \/ SrvNeed \/ SrvEof
      BY <3>1, <3>4 DEF SrvGive, SrvGetFails, SrvSendPty, SrvNeed, SrvEof, Reads
    <3>5. ASSUME NEW c \in Clients, User(c) \/ Client(c) \/ KillClient(c) PROVE UNCHANGED obj
      BY <3>5, ClientLeavesHelper DEF srvVars
    <3>6. ASSUME NEW c \in Clients, NEW d \in Clients, Fork(c, d) PROVE UNCHANGED obj
      BY <3>6 DEF Fork, srvVars
    <3>7. UNCHANGED vars => UNCHANGED obj
      BY DEF vars, srvVars
    <3> QED
      BY <1>3, <2>1, <3>1, <3>2, <3>3, <3>4, <3>5, <3>6, <3>7 DEF Next, Helper, Ended
  <2> QED
    BY <2>2, <2>3 DEF Stays
<1> QED
  BY <1>1, <1>2, <1>3

(* A client gets an object when it has none.                               *)
LEMMA OneObjectNext ==
  ASSUME Unharmed, SimInv, [Next]_vars
  PROVE  OneObject'
<1>1. OneObject
  BY DEF SimInv, OrderInv
<1>2. CASE ~SrvGet
  BY <1>1, <1>2, ObjectsAfter DEF OneObject
<1>3. CASE SrvGet
  <2>1. \A a \in ptys : obj[a].owner # Head(toSrv).from
    BY <1>3, GetAlone DEF SrvGet, Reads
  <2>2. TypeInv
    BY DEF SimInv, OwnershipInv, QuietInv
  <2>3. PICK a \in Addrs \ ptys, l \in Lines :
          /\ ptys' = ptys \cup {a}
          /\ obj'[a] = [line |-> l, tty |-> TRUE, cmd_pid |-> FALSE, owner |-> Head(toSrv).from]
          /\ \A b \in ptys : obj'[b] = obj[b]
    BY <1>3, <2>2, NewObject, Zenon
  <2>4. \A b \in ptys : obj'[b].owner = obj[b].owner /\ obj'[b].owner # obj'[a].owner
    BY <2>1, <2>3
  <2> QED
    BY <1>1, <2>3, <2>4 DEF OneObject
<1> QED
  BY <1>2, <1>3

(* A client in its get does not go away.                                   *)
LEMMA GetsWaitNext ==
  ASSUME Unharmed, SimInv, [Next]_vars, OwnershipInv'
  PROVE  GetsWait'
<1> USE DEF SimInv, OwnershipInv, QuietInv
<1> SUFFICES ASSUME NEW i \in DOMAIN toSrv', toSrv'[i].type = "get"
             PROVE  pc'[toSrv'[i].from] = "id"
    BY DEF GetsWait
<1> DEFINE d == toSrv'[i].from
<1>1. /\ toSrv' \in Seq(Command) /\ DOMAIN toSrv' = 1..Len(toSrv') /\ toSrv'[i] \in Command
      /\ toSrv # <<>> \/ toSrv = <<>>
  BY LenProperties, ElementOfSeq DEF TypeInv, QueuesOK
<1>2. d \in Clients
  BY <1>1 DEF Command
<1>3. toSrv' # <<>>
  BY <1>1
<1>4. srv' \notin {"reap", "exit", "killed"}
  BY <1>3 DEF CallInv, Ends
<1>5. pc'[d] \in {"id", "gone"}
  BY <1>4 DEF LeakInv, GetWaits, Up
<1> HIDE DEF d
<1>6. CASE UNCHANGED toSrv
  <2>1. pc[d] = "id"
    BY <1>6 DEF OrderInv, GetsWait, d
  <2>2. ASSUME NEW c \in Clients, User(c) \/ Client(c), pc'[d] = "gone" PROVE FALSE
    <3>1. pc[c] = "idle"
      BY <1>2, <2>1, <2>2, LeavesIdle
    <3>2. c # d
      BY <2>1, <3>1
    <3>3. pc'[d] = pc[d]
      <4>1. User(c)
        BY <2>2, <3>1 DEF Client, NeedToken, WriteCmd, ReadId, RecvPty, RecvTty, GiveToken
      <4> QED
        BY <1>2, <3>2, <4>1 DEF User, Get, Login, Destroy, Call, CloseTty, Exit, Gone,
           TypeInv, ClientsOK
    <3> QED
      BY <2>1, <2>2, <3>3
  <2>3. Helper \/ UNCHANGED vars => UNCHANGED pc
    BY DEF Helper, SrvGive, SrvGet, SrvGetFails, SrvSendPty, SrvSendTty, SrvLogin,
         SrvDestroy, SrvNeed, SrvEof, SrvReap, Reads, clientVars, vars
  <2>4. /\ \A c \in Clients : ~KillClient(c)
        /\ ~KillHelper /\ \A c, e \in Clients : ~Fork(c, e)
    BY DEF Unharmed, Tame, KillClient, KillHelper, Fork
  <2> QED
    BY <1>5, <2>1, <2>2, <2>3, <2>4 DEF Next, Ended, d
<1>7. CASE toSrv # <<>> /\ toSrv' = Tail(toSrv) /\ UNCHANGED pc
  <2>1. i + 1 \in DOMAIN toSrv /\ toSrv'[i] = toSrv[i + 1]
    <3>1. Len(toSrv') = Len(toSrv) - 1 /\ DOMAIN toSrv = 1..Len(toSrv) /\ Len(toSrv) \in Nat
      BY <1>7, Commands DEF TypeInv, QueuesOK
    <3> QED
      BY <1>1, <1>7, <3>1, Commands DEF TypeInv, QueuesOK
  <2> QED
    BY <1>7, <2>1 DEF OrderInv, GetsWait
<1>8. ASSUME NEW c \in Clients, WriteCmd(c), pc'[c] # "gone", toSrv' = Append(toSrv, CommandOf(c)),
             CommandOf(c) \in Command
      PROVE  pc'[d] = "id"
  <2>1. \A e \in Clients : e # c => pc'[e] = pc[e]
    BY <1>8 DEF WriteCmd, BrokenPipe, Gone, TypeInv, ClientsOK
  <2>2. CASE i = Len(toSrv')
    <3>1. d = c
      <4>1. toSrv'[Len(toSrv')] = CommandOf(c)
        BY <1>8, AppendProperties DEF TypeInv, QueuesOK
      <4> QED
        BY <2>2, <4>1 DEF d, CommandOf
    <3> QED
      BY <1>5, <1>8, <3>1
  <2>3. CASE i # Len(toSrv')
    <3>1. i \in DOMAIN toSrv /\ toSrv'[i] = toSrv[i]
      <4>1. /\ Len(toSrv') = Len(toSrv) + 1 /\ Len(toSrv) \in Nat /\ DOMAIN toSrv = 1..Len(toSrv)
            /\ \A j \in 1..Len(toSrv) : toSrv'[j] = toSrv[j]
        BY <1>8, AppendProperties, LenProperties DEF TypeInv, QueuesOK
      <4> QED
        BY <1>1, <2>3, <4>1
    <3>2. pc[d] = "id"
      BY <3>1 DEF OrderInv, GetsWait, d
    <3>3. d # c
      BY <1>8, <3>2 DEF WriteCmd
    <3> QED
      BY <1>2, <2>1, <3>2, <3>3
  <2> QED
    BY <2>2, <2>3
<1> QED
  BY <1>6, <1>7, <1>8, QueueSteps DEF d

(* A client logs in without an id after its get failed, when it has no     *)
(* object, or after a destroy, which is queued before the login.           *)
LEMMA BlindLoginsNext ==
  ASSUME Unharmed, SimInv, [Next]_vars
  PROVE  BlindLogins'
<1>0. TypeInv /\ LeakInv /\ BlindLogins
  BY DEF SimInv, OwnershipInv, QuietInv, OrderInv
<1> SUFFICES ASSUME NEW i \in DOMAIN toSrv', NEW a \in ptys', Blind(i, a)'
             PROVE  DeletedBefore(i, a)'
    BY DEF BlindLogins
<1>1. /\ DOMAIN toSrv = 1..Len(toSrv) /\ Len(toSrv) \in Nat
      /\ \A j \in DOMAIN toSrv : toSrv[j] \in Command
  BY <1>0, Commands DEF TypeInv, QueuesOK
<1>2. SrvGet => toSrv' = <<>>
  BY GetAlone DEF SrvGet, Reads
<1>3. ~SrvGet
  <2>1. DOMAIN <<>> = {}
    OBVIOUS
  <2> QED
    BY <1>2, <2>1
<1>4. a \in ptys /\ obj'[a].owner = obj[a].owner
  BY <1>3, ObjectsAfter
<1>5. a \in Addrs /\ a # Nil /\ obj[a] \in Object
  BY <1>0, <1>4, NilAssumption DEF TypeInv, HelperOK, ptys
<1>6. CASE UNCHANGED toSrv
  BY <1>0, <1>4, <1>6 DEF BlindLogins, Blind, DeletedBefore
<1>7. CASE /\ toSrv # <<>> /\ toSrv' = Tail(toSrv)
           /\ SrvGet \/ SrvGetFails \/ SrvLogin \/ SrvDestroy
  <2>1. /\ i + 1 \in DOMAIN toSrv /\ toSrv'[i] = toSrv[i + 1] /\ Head(toSrv) = toSrv[1]
        /\ DOMAIN toSrv' = 1..(Len(toSrv) - 1) /\ i \in Nat \ {0}
        /\ \A j \in DOMAIN toSrv' : toSrv'[j] = toSrv[j + 1]
    <3>1. /\ DOMAIN toSrv' = 1..Len(toSrv') /\ Len(toSrv') = Len(toSrv) - 1 /\ Head(toSrv) = toSrv[1]
          /\ \A j \in DOMAIN toSrv' : j + 1 \in DOMAIN toSrv /\ toSrv'[j] = toSrv[j + 1]
      BY <1>0, <1>7, Commands DEF TypeInv, QueuesOK
    <3> QED
      BY <1>1, <3>1
  <2>2. PICK j \in 1..(i + 1 - 1) : toSrv[j].type = "destroy" /\ toSrv[j].id = a
    <3>1. Blind(i + 1, a)
      BY <1>4, <2>1 DEF Blind
    <3> QED
      BY <1>0, <1>4, <2>1, <3>1 DEF BlindLogins, DeletedBefore
  <2>3. CASE j = 1
    <3>1. Head(toSrv).type = "destroy" /\ Head(toSrv).id = a
      BY <2>1, <2>2, <2>3
    <3>2. SrvDestroy
      BY <1>7, <3>1 DEF SrvGet, SrvGetFails, SrvLogin, Reads
    <3>3. obj' = [obj EXCEPT ![a] = Nil]
      BY <1>4, <3>1, <3>2 DEF SrvDestroy, Delete
    <3> QED
      BY <1>0, <1>5, <3>3 DEF ptys, TypeInv, HelperOK
  <2>4. CASE j # 1
    <3>1. j - 1 \in 1..(i - 1) /\ j - 1 \in DOMAIN toSrv' /\ j - 1 + 1 = j
      BY <1>1, <2>1, <2>2, <2>4
    <3>2. toSrv'[j - 1] = toSrv[j]
      BY <2>1, <3>1
    <3> QED
      BY <2>2, <3>1, <3>2 DEF DeletedBefore
  <2> QED
    BY <2>3, <2>4
<1>8. ASSUME NEW c \in Clients, pc[c] = "write", WriteCmd(c), pc'[c] # "gone",
             toSrv' = Append(toSrv, CommandOf(c)), CommandOf(c) \in Command
      PROVE  DeletedBefore(i, a)'
  <2>1. /\ DOMAIN toSrv' = 1..(Len(toSrv) + 1) /\ toSrv'[Len(toSrv) + 1] = CommandOf(c)
        /\ \A j \in DOMAIN toSrv : toSrv'[j] = toSrv[j]
    BY <1>0, <1>8, Commands DEF TypeInv, QueuesOK
  <2>2. CASE i \in DOMAIN toSrv
    <3>1. PICK j \in 1..(i - 1) : toSrv[j].type = "destroy" /\ toSrv[j].id = a
      <4>1. Blind(i, a)
        BY <1>4, <2>1, <2>2 DEF Blind
      <4> QED
        BY <1>0, <1>4, <2>2, <4>1 DEF BlindLogins, DeletedBefore
    <3>2. j \in DOMAIN toSrv
      BY <1>1, <2>2, <3>1
    <3> QED
      BY <2>1, <3>1, <3>2 DEF DeletedBefore
  <2>3. CASE i \notin DOMAIN toSrv
    <3>1. i = Len(toSrv) + 1 /\ toSrv'[i] = CommandOf(c)
      BY <1>1, <2>1, <2>3
    <3>2. op[c] = "login" /\ id[c] = Nil /\ obj[a].owner = c
      BY <1>4, <3>1 DEF CommandOf, Blind
    <3>3. Up
      BY <1>8, HelperThere
    <3>4. ~NoDestroyOf(a)
      BY <1>0, <1>4, <1>5, <1>8, <3>2, <3>3 DEF LeakInv, Kept
    <3>5. PICK j \in DOMAIN toSrv : toSrv[j].type = "destroy" /\ toSrv[j].id = a
      BY <3>4 DEF NoDestroyOf
    <3>6. j \in 1..(i - 1)
      BY <1>1, <3>1, <3>5
    <3> QED
      BY <2>1, <3>5, <3>6 DEF DeletedBefore
  <2> QED
    BY <2>2, <2>3
<1> QED
  BY <1>6, <1>7, <1>8, QueueSteps

(* The invariant of the simulation.                                        *)
LEMMA SimInvariant == ASSUME Unharmed PROVE Spec => []SimInv
<1>1. Init => SimInv
  BY OwnershipInit, SessionInit
  DEF Init, SimInv, OrderInv, OneObject, GetsWait, BlindLogins, ptys
<1>2. SimInv /\ [Next]_vars => SimInv'
  <2> SUFFICES ASSUME SimInv, [Next]_vars PROVE SimInv'
      OBVIOUS
  <2>1. OwnershipInv' /\ SessionInv'
    BY OwnershipNext, SessionNext DEF SimInv, OwnershipInv, QuietInv, Unharmed
  <2>2. srv' # "killed"
    <3>1. srv # "killed" /\ ~KillHelper
      BY DEF SimInv, OrderInv, Unharmed, KillHelper
    <3>2. ASSUME NEW c \in Clients, User(c) \/ Client(c) \/ KillClient(c) PROVE srv' = srv
      BY <3>2, ClientLeavesHelper DEF srvVars
    <3> QED
      BY <3>1, <3>2 DEF Next, Helper, SrvGive, SrvGet, SrvGetFails, SrvSendPty, SrvSendTty,
         SrvLogin, SrvDestroy, SrvNeed, SrvEof, SrvReap, Ended, Fork, srvVars, vars
  <2> QED
    BY <2>1, <2>2, OneObjectNext, GetsWaitNext, BlindLoginsNext DEF SimInv, OrderInv
<1> QED
  BY <1>1, <1>2, PTL DEF Spec

-----------------------------------------------------------------------------
(* What the refinement mapping shows of client c; o are the objects of the *)
(* helper.                                                                 *)
Objects(o) == {a \in Addrs : o[a] # Nil}

HaveIn(o, c) ==
  IF \E a \in Objects(o) : o[a].owner = c
  THEN o[CHOOSE a \in Objects(o) : o[a].owner = c].line
  ELSE Nil

PendingOf(c) == CommandTypes(toSrv, c) \o Unwritten(c)
HaveOf(c)    == HaveIn(obj, c)
ToldOf(c)    == IF res[c] = "ok" /\ pc[c] # "gone" THEN pty[c][2] ELSE Nil
goneBar      == {c \in Clients : pc[c] = "gone"}

Apart(o) == \A a, b \in Objects(o) : o[a].owner = o[b].owner => a = b

(* A client has the line of its one object.                                *)
LEMMA HaveLine ==
  ASSUME NEW o, Apart(o), NEW a \in Objects(o)
  PROVE  HaveIn(o, o[a].owner) = o[a].line
<1> DEFINE b == CHOOSE b \in Objects(o) : o[b].owner = o[a].owner
<1>1. b \in Objects(o) /\ o[b].owner = o[a].owner
  OBVIOUS
<1>2. b = a
  BY <1>1 DEF Apart
<1>3. HaveIn(o, o[a].owner) = o[b].line
  BY DEF HaveIn
<1> QED
  BY <1>2, <1>3

LEMMA HaveNone ==
  ASSUME NEW o, NEW c, \A a \in Objects(o) : o[a].owner # c
  PROVE  HaveIn(o, c) = Nil
BY DEF HaveIn

(* It keeps it as long as its object is there.                             *)
LEMMA HaveSame ==
  ASSUME NEW o, NEW p, Apart(o), Apart(p), NEW c,
         \A a \in Objects(o) : o[a].owner = c =>
           a \in Objects(p) /\ p[a].owner = c /\ p[a].line = o[a].line,
         \A a \in Objects(p) : p[a].owner = c => a \in Objects(o) /\ o[a].owner = c
  PROVE  HaveIn(p, c) = HaveIn(o, c)
<1>1. CASE \E a \in Objects(o) : o[a].owner = c
  <2>1. PICK a \in Objects(o) : o[a].owner = c
    BY <1>1
  <2>2. a \in Objects(p) /\ p[a].owner = c /\ p[a].line = o[a].line
    BY <2>1
  <2>3. HaveIn(o, c) = o[a].line
    BY <2>1, HaveLine
  <2>4. HaveIn(p, c) = p[a].line
    BY <2>2, HaveLine
  <2> QED
    BY <2>2, <2>3, <2>4
<1>2. CASE \A a \in Objects(o) : o[a].owner # c
  BY <1>2, HaveNone
<1> QED
  BY <1>1, <1>2

(* The mapping is these views of all clients.                              *)
LEMMA BarIs ==
  /\ pendingBar  = [c \in Clients |-> PendingOf(c)]
  /\ haveBar     = [c \in Clients |-> HaveOf(c)]
  /\ toldBar     = [c \in Clients |-> ToldOf(c)]
  /\ pendingBar' = [c \in Clients |-> PendingOf(c)']
  /\ haveBar'    = [c \in Clients |-> HaveOf(c)']
  /\ toldBar'    = [c \in Clients |-> ToldOf(c)']
BY Zenon DEF pendingBar, haveBar, toldBar, PendingOf, HaveOf, HaveIn, Objects, ToldOf, ptys

(* A step that changes the view of nobody is none of the service.          *)
LEMMA NothingSeen ==
  ASSUME \A d \in Clients : PendingOf(d)' = PendingOf(d) /\ HaveOf(d)' = HaveOf(d)
                              /\ ToldOf(d)' = ToldOf(d),
         goneBar' = goneBar, UNCHANGED utmp
  PROVE  UNCHANGED Service!serviceVars
<1>1. UNCHANGED <<pendingBar, haveBar, toldBar>>
  BY BarIs
<1> QED
  BY <1>1 DEF Service!serviceVars, Service!workVars, goneBar

(* One that changes the view of c changes that of nobody else.             *)
OnlySeenBy(c) ==
  \A d \in Clients \ {c} :
    PendingOf(d)' = PendingOf(d) /\ HaveOf(d)' = HaveOf(d) /\ ToldOf(d)' = ToldOf(d)

LEMMA SeenBy ==
  ASSUME NEW c \in Clients, OnlySeenBy(c)
  PROVE  /\ pendingBar' = [pendingBar EXCEPT ![c] = PendingOf(c)']
         /\ haveBar'    = [haveBar EXCEPT ![c] = HaveOf(c)']
         /\ toldBar'    = [toldBar EXCEPT ![c] = ToldOf(c)']
         /\ pendingBar[c] = PendingOf(c) /\ haveBar[c] = HaveOf(c) /\ toldBar[c] = ToldOf(c)
         /\ PendingOf(c)' = PendingOf(c) => UNCHANGED pendingBar
         /\ HaveOf(c)' = HaveOf(c) => UNCHANGED haveBar
         /\ ToldOf(c)' = ToldOf(c) => UNCHANGED toldBar
BY BarIs DEF OnlySeenBy

(* Sequences of requests: the last one and the first one.                  *)
LEMMA FirstAndLast ==
  ASSUME NEW s \in Seq(CommandType), NEW t \in Seq(CommandType), NEW x \in CommandType
  PROVE  /\ s \o <<>> = s /\ s \o <<x>> = Append(s, x) /\ (<<x>> \o s) \o t # <<>>
         /\ Head((<<x>> \o s) \o t) = x /\ Tail((<<x>> \o s) \o t) = s \o t
<1>1. s \o <<>> = s /\ s \o <<x>> = Append(s, x)
  BY ConcatEmptySeq, AppendIsConcat
<1> DEFINE u == s \o t
<1>2. u \in Seq(CommandType) /\ <<x>> \in Seq(CommandType)
  BY ConcatProperties
<1>3. (<<x>> \o s) \o t = <<x>> \o u
  BY <1>2, ConcatAssociative
<1> HIDE DEF u
<1>4. <<x>> \o u # <<>> /\ Head(<<x>> \o u) = x /\ Tail(<<x>> \o u) = u
  <2> DEFINE w == <<x>> \o u
  <2>1. Len(<<x>>) = 1 /\ <<x>>[1] = x /\ Len(u) \in Nat
    BY <1>2, LenProperties
  <2>2. /\ w \in Seq(CommandType) /\ Len(w) = Len(u) + 1
        /\ \A i \in 1..(Len(u) + 1) : w[i] = IF i <= 1 THEN <<x>>[i] ELSE u[i - 1]
    BY <1>2, <2>1, ConcatProperties
  <2> HIDE DEF w
  <2>3. w # <<>>
    BY <2>1, <2>2, EmptySeq
  <2>4. Head(w) = x
    BY <2>1, <2>2
  <2>5. Tail(w) \in Seq(CommandType) /\ Len(Tail(w)) = Len(u)
        /\ \A i \in 1..Len(u) : Tail(w)[i] = w[i + 1]
    BY <2>1, <2>2, <2>3, HeadTailProperties
  <2>6. \A i \in 1..Len(u) : Tail(w)[i] = u[i]
    BY <2>1, <2>2, <2>5
  <2>7. Tail(w) = u
    BY <1>2, <2>5, <2>6, SeqEqual
  <2> QED
    BY <2>3, <2>4, <2>7 DEF w
<1> QED
  BY <1>1, <1>3, <1>4 DEF u

-----------------------------------------------------------------------------
(* A client's step changes what is seen of it alone, and neither what the  *)
(* helper keeps for it nor the sessions.                                   *)
LEMMA ClientSeen ==
  ASSUME Unharmed, SimInv, NEW c \in Clients, User(c) \/ Client(c)
  PROVE  /\ OnlySeenBy(c)
         /\ HaveOf(c)' = HaveOf(c) /\ UNCHANGED utmp
         /\ \A d \in Clients \ {c} : pc'[d] = pc[d]
<1>1. TypeInv /\ toSrv \in Seq(Command)
  BY DEF SimInv, OwnershipInv, QuietInv, TypeInv, QueuesOK
<1>2. UNCHANGED <<obj, utmp>>
  BY ClientLeavesHelper DEF srvVars
<1>3. ASSUME NEW d \in Clients \ {c}
      PROVE  pc'[d] = pc[d] /\ op'[d] = op[d] /\ res'[d] = res[d] /\ pty'[d] = pty[d]
  <2> USE DEF TypeInv, ClientsOK
  <2>1. CASE User(c)
    BY <1>1, <2>1 DEF User, Get, Login, Destroy, Call, CloseTty, Exit, Gone
  <2>2. CASE NeedToken(c) \/ WriteCmd(c) \/ GiveToken(c)
    BY <1>1, <2>2 DEF NeedToken, WriteCmd, GiveToken, BrokenPipe, Gone, objVars
  <2>3. CASE ReadId(c) \/ RecvPty(c) \/ RecvTty(c)
    BY <1>1, <2>3 DEF ReadId, RecvPty, RecvTty, Throw
  <2> QED
    BY <2>1, <2>2, <2>3 DEF Client
<1>4. \/ toSrv' = toSrv
      \/ toSrv' = Append(toSrv, CommandOf(c)) /\ CommandOf(c) \in Command
  <2>1. CASE ~WriteCmd(c)
    BY <2>1 DEF User, Get, Login, Destroy, Call, CloseTty, Exit, Gone, Client, NeedToken, ReadId,
       RecvPty, RecvTty, GiveToken, BrokenPipe, sockVars
  <2>2. CASE WriteCmd(c)
    BY <1>1, <2>2, HelperThere DEF WriteCmd, BrokenPipe, CommandOf, Command, TypeInv, ClientsOK
  <2> QED
    BY <2>1, <2>2
<1>5. ASSUME NEW d \in Clients \ {c} PROVE CommandTypes(toSrv', d) = CommandTypes(toSrv, d)
  <2>1. CommandOf(c).from = c
    BY DEF CommandOf
  <2>2. CASE CommandOf(c) \in Command /\ toSrv' = Append(toSrv, CommandOf(c))
    <3> DEFINE m == CommandOf(c)
    <3>1. m \in Command /\ m.from # d
      BY <2>1, <2>2
    <3> HIDE DEF m
    <3>2. CommandTypes(Append(toSrv, m), d) = CommandTypes(toSrv, d)
      BY <1>1, <3>1, TypesAppend
    <3> QED
      BY <2>2, <3>2 DEF m
  <2> QED
    BY <1>4, <2>2
<1>6. \A d \in Clients \ {c} : PendingOf(d)' = PendingOf(d) /\ ToldOf(d)' = ToldOf(d)
  BY <1>3, <1>5 DEF PendingOf, Unwritten, ToldOf
<1>7. \A d \in Clients : HaveOf(d)' = HaveOf(d)
  BY <1>2 DEF HaveOf
<1> QED
  BY <1>2, <1>3, <1>6, <1>7 DEF OnlySeenBy

(* A step that only moves the request from the call to the socket, or      *)
(* fails a get, is none of the service.                                    *)
LEMMA ClientStutters ==
  ASSUME Unharmed, SimInv, NEW c \in Clients, User(c) \/ Client(c),
         PendingOf(c)' = PendingOf(c), ToldOf(c)' = ToldOf(c), pc[c] # "gone", pc'[c] # "gone"
  PROVE  UNCHANGED Service!serviceVars
<1>1. /\ OnlySeenBy(c) /\ UNCHANGED utmp /\ HaveOf(c)' = HaveOf(c)
      /\ \A d \in Clients \ {c} : pc'[d] = pc[d]
  BY ClientSeen
<1>2. goneBar' = goneBar
  BY <1>1 DEF goneBar
<1>3. \A d \in Clients : PendingOf(d)' = PendingOf(d) /\ HaveOf(d)' = HaveOf(d)
                            /\ ToldOf(d)' = ToldOf(d)
  BY <1>1 DEF OnlySeenBy
<1> QED
  BY <1>1, <1>2, <1>3, NothingSeen

(* A call begins with the request.                                         *)
LEMMA CallsRequest ==
  ASSUME Unharmed, SimInv, NEW c \in Clients, NEW r \in Service!Requests, User(c), Call(c, r),
         ToldOf(c)' = IF r = "login" THEN ToldOf(c) ELSE Nil
  PROVE  Service!Request(c, r)
<1>1. TypeInv /\ toSrv \in Seq(Command)
  BY DEF SimInv, OwnershipInv, QuietInv, TypeInv, QueuesOK
<1>2. /\ OnlySeenBy(c) /\ HaveOf(c)' = HaveOf(c) /\ UNCHANGED utmp
      /\ \A d \in Clients \ {c} : pc'[d] = pc[d]
  BY ClientSeen
<1>3. /\ pc[c] = "idle" /\ pc'[c] = "need" /\ op'[c] = r /\ UNCHANGED toSrv /\ r \in CommandType
  BY <1>1 DEF Call, TypeInv, ClientsOK, sockVars, Service!Requests, CommandType
<1>4. PendingOf(c)' = Append(PendingOf(c), r)
  <2>1. CommandTypes(toSrv, c) \in Seq(CommandType)
    BY <1>1, TypesType
  <2>2. Unwritten(c) = <<>> /\ Unwritten(c)' = <<r>>
    BY <1>3 DEF Unwritten
  <2>3. /\ CommandTypes(toSrv, c) \o <<>> = CommandTypes(toSrv, c)
        /\ CommandTypes(toSrv, c) \o <<r>> = Append(CommandTypes(toSrv, c), r)
    BY <1>3, <2>1, FirstAndLast
  <2> QED
    BY <1>3, <2>2, <2>3 DEF PendingOf
<1>5. goneBar' = goneBar /\ c \notin goneBar
  BY <1>2, <1>3 DEF goneBar
<1>6. /\ pendingBar' = [pendingBar EXCEPT ![c] = Append(pendingBar[c], r)]
      /\ toldBar' = IF r = "login" THEN toldBar ELSE [toldBar EXCEPT ![c] = Nil]
      /\ UNCHANGED haveBar
  BY <1>2, <1>4, SeenBy
<1> QED
  BY <1>2, <1>5, <1>6 DEF Service!Request, goneBar

(* The calls of the application.                                           *)
LEMMA UserServes ==
  ASSUME Unharmed, SimInv, NEW c \in Clients, User(c)
  PROVE  [Service!Next]_(Service!serviceVars)
<1>1. TypeInv /\ toSrv \in Seq(Command)
  BY DEF SimInv, OwnershipInv, QuietInv, TypeInv, QueuesOK
<1>2. ASSUME NEW r \in {"get", "login", "destroy"}, Service!Request(c, r)
      PROVE  Service!Next
  BY <1>2 DEF Service!Next, Service!Requests
<1>3. CASE Get(c)
  <2>1. Call(c, "get") /\ ToldOf(c)' = Nil
    BY <1>1, <1>3 DEF Get, ToldOf, TypeInv, ClientsOK
  <2> QED
    BY <1>2, <2>1, CallsRequest DEF Service!Requests
<1>4. CASE Login(c)
  <2>1. Call(c, "login") /\ ToldOf(c)' = ToldOf(c)
    BY <1>1, <1>4 DEF Login, Call, ToldOf, TypeInv, ClientsOK
  <2> QED
    BY <1>2, <2>1, CallsRequest DEF Service!Requests
<1>5. CASE Destroy(c)
  <2>1. Call(c, "destroy") /\ ToldOf(c)' = Nil
    BY <1>1, <1>5 DEF Destroy, ToldOf, TypeInv, ClientsOK
  <2> QED
    BY <1>2, <2>1, CallsRequest DEF Service!Requests
<1>6. CASE CloseTty(c)
  <2>1. PendingOf(c)' = PendingOf(c) /\ ToldOf(c)' = ToldOf(c) /\ pc[c] = "idle" /\ UNCHANGED pc
    BY <1>6 DEF CloseTty, PendingOf, Unwritten, ToldOf, sockVars
  <2> QED
    BY <2>1, ClientStutters
<1>7. CASE Exit(c)
  <2>1. pc[c] = "idle" /\ pc'[c] = "gone" /\ UNCHANGED toSrv
    BY <1>1, <1>7 DEF Exit, Gone, TypeInv, ClientsOK
  <2>2. PendingOf(c)' = PendingOf(c) /\ ToldOf(c)' = Nil
    BY <2>1 DEF PendingOf, Unwritten, ToldOf
  <2>3. /\ OnlySeenBy(c) /\ HaveOf(c)' = HaveOf(c) /\ UNCHANGED utmp
        /\ \A d \in Clients \ {c} : pc'[d] = pc[d]
    BY ClientSeen
  <2>4. goneBar' = goneBar \cup {c}
    BY <2>1, <2>3 DEF goneBar
  <2>5. UNCHANGED <<pendingBar, haveBar>> /\ toldBar' = [toldBar EXCEPT ![c] = Nil]
    BY <2>2, <2>3, SeenBy
  <2> QED
    BY <2>3, <2>4, <2>5 DEF Service!Next, Service!Leave, goneBar
<1> QED
  BY <1>3, <1>4, <1>5, <1>6, <1>7 DEF User

(* Within a call nothing is seen but the end of a get that got its pty.    *)
LEMMA ClientServes ==
  ASSUME Unharmed, SimInv, NEW c \in Clients, Client(c), SimInv'
  PROVE  [Service!Next]_(Service!serviceVars)
<1>1. /\ TypeInv /\ ClientsOK /\ toSrv \in Seq(Command) /\ CallField(c)
  BY DEF SimInv, OwnershipInv, QuietInv, TypeInv, QueuesOK, OwnInv, CallFields
<1>2. pc[c] # "gone" => Up
  BY HelperThere
<1> USE DEF ClientsOK
<1>3. CASE NeedToken(c)
  <2>1. PendingOf(c)' = PendingOf(c) /\ ToldOf(c)' = ToldOf(c) /\ pc[c] # "gone" /\ pc'[c] # "gone"
    BY <1>1, <1>3 DEF NeedToken, PendingOf, Unwritten, ToldOf, objVars, sockVars
  <2> QED
    BY <2>1, ClientStutters
<1>4. CASE WriteCmd(c)
  <2> DEFINE m == CommandOf(c)
  <2>1. /\ toSrv' = Append(toSrv, m) /\ m \in Command /\ m.from = c /\ m.type = op[c]
        /\ pc[c] = "write" /\ pc'[c] \in {"id", "give"} /\ UNCHANGED <<op, res, pty>>
    BY <1>1, <1>2, <1>4 DEF WriteCmd, BrokenPipe, CommandOf, Command, objVars
  <2> HIDE DEF m
  <2>2. CommandTypes(toSrv', c) = Append(CommandTypes(toSrv, c), op[c])
    BY <1>1, <2>1, TypesAppend
  <2>3. CommandTypes(toSrv, c) \in Seq(CommandType) /\ op[c] \in CommandType
    BY <1>1, TypesType
  <2>4. Unwritten(c) = <<op[c]>> /\ Unwritten(c)' = <<>>
    BY <2>1 DEF Unwritten
  <2>5. Append(CommandTypes(toSrv, c), op[c]) \in Seq(CommandType)
    BY <2>3, AppendProperties
  <2>6. PendingOf(c)' = PendingOf(c)
    BY <2>2, <2>3, <2>4, <2>5, FirstAndLast DEF PendingOf
  <2>7. ToldOf(c)' = ToldOf(c)
    BY <2>1 DEF ToldOf
  <2> QED
    BY <2>1, <2>6, <2>7, ClientStutters
<1>5. ASSUME pc[c] \in {"id", "pty", "tty"}, pc'[c] \in {"pty", "tty", "give", "idle"},
             res'[c] # "ok", UNCHANGED toSrv
      PROVE  UNCHANGED Service!serviceVars
  <2>1. res[c] = "none"
    BY <1>1, <1>5 DEF CallField
  <2>2. PendingOf(c)' = PendingOf(c) /\ ToldOf(c)' = ToldOf(c)
    BY <1>5, <2>1 DEF PendingOf, Unwritten, ToldOf
  <2> QED
    BY <1>5, <2>2, ClientStutters
<1>6. CASE ReadId(c)
  BY <1>1, <1>5, <1>6 DEF ReadId, Throw, CallField
<1>7. CASE RecvPty(c)
  BY <1>1, <1>5, <1>7 DEF RecvPty, Throw, CallField
<1>8. CASE RecvTty(c) /\ res'[c] # "ok"
  BY <1>1, <1>5, <1>8 DEF RecvTty, Throw, CallField
<1>9. CASE RecvTty(c) /\ res'[c] = "ok"
  <2>1. pc[c] = "tty" /\ pc'[c] \in {"give", "idle"} /\ UNCHANGED <<toSrv, pty, obj>>
    BY <1>1, <1>9 DEF RecvTty, Throw, srvVars
  <2>2. toSrv = <<>>
    <3>1. Calm /\ Up
      BY <1>2, <2>1, ConstantAssumption DEF Unharmed, Tame, Calm, SimInv, OwnershipInv
    <3> QED
      BY <2>1, <3>1 DEF SimInv, OwnershipInv, QuietInv, CallInv, PhaseInv, Phase, GetsTty, Serves
  <2>3. PendingOf(c) = <<>> /\ PendingOf(c)' = PendingOf(c)
    <3>1. CommandTypes(<<>>, c) = <<>>
      BY <1>1, <2>2, TypesType
    <3> QED
      BY <2>1, <2>2, <3>1 DEF PendingOf, Unwritten
  <2>4. PICK l \in Lines : /\ pty'[c] = Master(l) /\ id'[c] \in ptys'
                           /\ obj'[id'[c]].owner = c /\ obj'[id'[c]].line = l
    <3>1. HasPty(c)' /\ srv' # "killed"
      BY DEF SimInv, OwnershipInv, OrderInv
    <3> QED
      BY <1>9, <2>1, <3>1 DEF HasPty
  <2>5. ToldOf(c)' = l
    BY <1>9, <2>1, <2>4 DEF ToldOf, Master
  <2>6. HaveOf(c)' = l
    <3>1. Apart(obj') /\ id'[c] \in Objects(obj')
      BY <1>9, <2>4 DEF SimInv, OrderInv, OneObject, Apart, Objects, ptys
    <3> QED
      BY <2>4, <3>1, HaveLine DEF HaveOf
  <2>7. /\ OnlySeenBy(c) /\ HaveOf(c)' = HaveOf(c) /\ UNCHANGED utmp
        /\ \A d \in Clients \ {c} : pc'[d] = pc[d]
    BY ClientSeen
  <2>8. goneBar' = goneBar /\ c \notin goneBar
    BY <2>1, <2>7 DEF goneBar
  <2>9. /\ UNCHANGED <<pendingBar, haveBar>> /\ pendingBar[c] = <<>>
        /\ toldBar' = [toldBar EXCEPT ![c] = haveBar[c]]
    BY <2>3, <2>5, <2>6, <2>7, SeenBy
  <2> QED
    BY <2>7, <2>8, <2>9 DEF Service!Next, Service!Tell, goneBar
<1>10. CASE GiveToken(c)
  <2>1. PendingOf(c)' = PendingOf(c) /\ ToldOf(c)' = ToldOf(c) /\ pc[c] # "gone" /\ pc'[c] # "gone"
    BY <1>1, <1>2, <1>10 DEF GiveToken, BrokenPipe, PendingOf, Unwritten, ToldOf, sockVars
  <2> QED
    BY <2>1, ClientStutters
<1> QED
  BY <1>3, <1>4, <1>6, <1>7, <1>8, <1>9, <1>10 DEF Client

(* The helper's steps touch no client; those that leave the queue and the  *)
(* objects' owners and lines alone are none of the service.                *)
LEMMA HelperSeen ==
  ASSUME UNCHANGED clientVars
  PROVE  /\ goneBar' = goneBar
         /\ \A d \in Clients : Unwritten(d)' = Unwritten(d) /\ ToldOf(d)' = ToldOf(d)
         /\ UNCHANGED toSrv => \A d \in Clients : PendingOf(d)' = PendingOf(d)
<1>1. UNCHANGED <<pc, op, res, pty>>
  BY DEF clientVars, objVars
<1>2. /\ goneBar' = goneBar
      /\ \A d \in Clients : Unwritten(d)' = Unwritten(d) /\ ToldOf(d)' = ToldOf(d)
  BY <1>1 DEF goneBar, Unwritten, ToldOf
<1> QED
  BY <1>2 DEF PendingOf

LEMMA ObjectsSeen ==
  ASSUME SimInv, SimInv', NEW c,
         \A a \in ptys : obj[a].owner = c => Stays(a),
         \A a \in ptys' : a \in ptys /\ obj'[a].owner = obj[a].owner
  PROVE  HaveOf(c)' = HaveOf(c)
<1>1. Apart(obj) /\ Apart(obj') /\ Objects(obj) = ptys /\ Objects(obj') = ptys'
  BY DEF SimInv, OrderInv, OneObject, Apart, Objects, ptys
<1>2. /\ \A a \in Objects(obj) : obj[a].owner = c =>
           a \in Objects(obj') /\ obj'[a].owner = c /\ obj'[a].line = obj[a].line
      /\ \A a \in Objects(obj') : obj'[a].owner = c => a \in Objects(obj) /\ obj[a].owner = c
  BY <1>1 DEF Stays
<1> QED
  BY <1>1, <1>2, HaveSame DEF HaveOf

LEMMA HelperStutters ==
  ASSUME Unharmed, SimInv, SimInv', [Next]_vars,
         SrvGive \/ SrvSendPty \/ SrvSendTty \/ SrvNeed \/ SrvEof \/ (SrvReap /\ ptys = {})
  PROVE  UNCHANGED Service!serviceVars
<1>1. UNCHANGED <<clientVars, toSrv, utmp>>
  BY DEF SrvGive, SrvSendPty, SrvSendTty, SrvNeed, SrvEof, SrvReap, sockVars
<1>2. ~SrvGet /\ ~SrvDestroy /\ ~KillHelper
  BY DEF SrvGive, SrvSendPty, SrvSendTty, SrvNeed, SrvEof, SrvReap, SrvGet, SrvDestroy, Reads,
     Unharmed, KillHelper
<1>3. \A d \in Clients : HaveOf(d)' = HaveOf(d)
  <2>1. CASE UNCHANGED obj
    BY <2>1 DEF HaveOf
  <2>2. CASE SrvSendTty
    <3>1. ~SrvReap /\ TypeInv
      BY <2>2 DEF SrvSendTty, SrvReap, SimInv, OwnershipInv, QuietInv
    <3>2. \A a \in ptys : Stays(a)
      BY <1>2, <3>1, ObjectsStay
    <3>3. \A a \in ptys' : a \in ptys /\ obj'[a].owner = obj[a].owner
      BY <1>2, ObjectsAfter
    <3> QED
      BY <3>2, <3>3, ObjectsSeen
  <2> QED
    BY <2>1, <2>2 DEF SrvGive, SrvSendPty, SrvNeed, SrvEof, SrvReap
<1> QED
  BY <1>1, <1>3, HelperSeen, NothingSeen

(* The command it takes off the queue is the first request of its client.  *)
LEMMA ReadsFirst ==
  ASSUME SimInv, NEW type, Reads(type), NEW c \in Clients, Head(toSrv).from = c,
         \A d \in Clients \ {c} : HaveOf(d)' = HaveOf(d)
  PROVE  OnlySeenBy(c) /\ Service!First(c, type)
<1>1. /\ toSrv \in Seq(Command) /\ toSrv # <<>> /\ Head(toSrv).type = type /\ toSrv' = Tail(toSrv)
      /\ UNCHANGED clientVars
  BY DEF SimInv, OwnershipInv, QuietInv, TypeInv, QueuesOK, Reads
<1>2. Head(toSrv) \in Command /\ Tail(toSrv) \in Seq(Command)
  BY <1>1, HeadTailProperties
<1>3. type \in CommandType
  BY <1>1, <1>2 DEF Command
<1> DEFINE h(d) == IF c = d THEN <<type>> ELSE <<>>
<1>4. \A d \in Clients : CommandTypes(toSrv, d) = h(d) \o CommandTypes(toSrv', d)
  BY <1>1, TypesTail
<1>5. \A d \in Clients : CommandTypes(toSrv', d) \in Seq(CommandType)
  BY <1>1, <1>2, TypesType
<1>6. /\ goneBar' = goneBar
      /\ \A d \in Clients : Unwritten(d)' = Unwritten(d) /\ ToldOf(d)' = ToldOf(d)
  BY <1>1, HelperSeen
<1>7. ASSUME NEW d \in Clients \ {c} PROVE PendingOf(d)' = PendingOf(d)
  <2>1. h(d) \o CommandTypes(toSrv', d) = CommandTypes(toSrv', d)
    BY <1>5, ConcatEmptySeq
  <2> QED
    BY <1>4, <1>6, <2>1 DEF PendingOf
<1>8. OnlySeenBy(c)
  BY <1>6, <1>7 DEF OnlySeenBy
<1>9. /\ PendingOf(c) # <<>> /\ Head(PendingOf(c)) = type
      /\ PendingOf(c)' = Tail(PendingOf(c))
  <2> DEFINE s == CommandTypes(toSrv', c)
             t == Unwritten(c)
  <2>1. s \in Seq(CommandType) /\ t \in Seq(CommandType)
    <3>1. op[c] \in CommandType
      BY <1>3 DEF SimInv, OwnershipInv, QuietInv, TypeInv, ClientsOK
    <3> QED
      BY <1>3, <1>5, <3>1 DEF Unwritten
  <2>2. PendingOf(c) = (<<type>> \o s) \o t /\ PendingOf(c)' = s \o t
    BY <1>3, <1>4, <1>6 DEF PendingOf
  <2> HIDE DEF s, t
  <2> QED
    BY <1>3, <2>1, <2>2, FirstAndLast
<1>10. UNCHANGED toldBar /\ pendingBar' = [pendingBar EXCEPT ![c] = Tail(@)]
       /\ pendingBar[c] = PendingOf(c)
  BY <1>3, <1>6, <1>8, <1>9, SeenBy
<1> QED
  BY <1>3, <1>6, <1>8, <1>9, <1>10 DEF Service!First, goneBar

(* The client whose command the helper reads.                              *)
LEMMA IssuerThere ==
  ASSUME SimInv, NEW type, Reads(type)
  PROVE  /\ \E c \in Clients : c = Head(toSrv).from
         /\ Head(toSrv) \in Command /\ Head(toSrv) = toSrv[1] /\ 1 \in DOMAIN toSrv
         /\ srv = "read" /\ CommandsMeant
<1>1. toSrv \in Seq(Command) /\ toSrv # <<>> /\ srv = "read"
  BY DEF SimInv, OwnershipInv, QuietInv, TypeInv, QueuesOK, Reads
<1>2. Head(toSrv) \in Command /\ Head(toSrv) = toSrv[1] /\ 1 \in DOMAIN toSrv
  BY <1>1, Commands
<1>3. CommandsMeant
  BY DEF SimInv, OwnershipInv, OwnInv, OrderInv
<1> QED
  BY <1>1, <1>2, <1>3 DEF Command

(* get: a pty on a line that the service keeps for nobody, or none.        *)
LEMMA GetServes ==
  ASSUME Unharmed, SimInv, SimInv', [Next]_vars, SrvGet \/ SrvGetFails
  PROVE  Service!Next
<1>1. Reads("get") /\ UNCHANGED utmp
  BY DEF SrvGet, SrvGetFails
<1>2. PICK c \in Clients : c = Head(toSrv).from
  BY <1>1, IssuerThere
<1>3. /\ TypeInv /\ Apart(obj) /\ Apart(obj') /\ Objects(obj) = ptys /\ Objects(obj') = ptys'
      /\ \A a \in ptys : obj[a].owner # c
  BY <1>1, <1>2, GetAlone
  DEF SimInv, OwnershipInv, QuietInv, OrderInv, OneObject, Apart, Objects, ptys, Reads
<1>4. HaveOf(c) = Nil
  BY <1>3, HaveNone DEF HaveOf
<1>5. ASSUME \A d \in Clients \ {c} : HaveOf(d)' = HaveOf(d),
             \/ HaveOf(c)' = Nil
             \/ HaveOf(c)' \in Lines /\ \A d \in Clients : HaveOf(d) # HaveOf(c)'
      PROVE  Service!Next
  <2>1. OnlySeenBy(c) /\ Service!First(c, "get")
    BY <1>1, <1>2, <1>5, ReadsFirst
  <2>2. haveBar' = [haveBar EXCEPT ![c] = HaveOf(c)'] /\ haveBar[c] = Nil
        /\ (HaveOf(c)' = Nil => UNCHANGED haveBar)
    BY <1>4, <2>1, SeenBy
  <2>3. {haveBar[d] : d \in Clients} = {HaveOf(d) : d \in Clients}
    BY BarIs
  <2>4. Service!PerformGet(c)
    <3>1. CASE HaveOf(c)' = Nil
      BY <1>1, <2>1, <2>2, <3>1 DEF Service!PerformGet
    <3>2. CASE HaveOf(c)' \in Lines /\ \A d \in Clients : HaveOf(d) # HaveOf(c)'
      <4>1. HaveOf(c)' \in Lines \ {haveBar[d] : d \in Clients}
        BY <2>3, <3>2
      <4> QED
        BY <1>1, <2>1, <2>2, <4>1 DEF Service!PerformGet
    <3> QED
      BY <1>5, <3>1, <3>2
  <2> QED
    BY <2>4 DEF Service!Next, Service!Perform
<1>6. CASE SrvGetFails
  <2>1. UNCHANGED obj
    BY <1>6 DEF SrvGetFails
  <2> QED
    BY <1>4, <1>5, <2>1 DEF HaveOf
<1>7. CASE SrvGet
  <2>1. PICK a \in Addrs \ ptys, l \in {k \in Lines : ~InUse(k)} :
          obj' = [obj EXCEPT ![a] = [line |-> l, tty |-> TRUE,
                    cmd_pid |-> FALSE, owner |-> Head(toSrv).from]]
    BY <1>7 DEF SrvGet
  <2> DEFINE o == [line |-> l, tty |-> TRUE, cmd_pid |-> FALSE, owner |-> c]
  <2>2. o \in Object /\ o # Nil /\ l \in Lines /\ a \in Addrs
    <3>1. o \in Object
      BY DEF Object
    <3> HIDE DEF o
    <3> QED
      BY <3>1, NilAssumption
  <2>3. obj'[a] = o /\ \A b \in Addrs \ {a} : obj'[b] = obj[b]
    BY <1>2, <1>3, <2>1 DEF TypeInv, HelperOK
  <2>4. o.owner = c /\ o.line = l
    OBVIOUS
  <2> HIDE DEF o
  <2>5. /\ ptys' = ptys \cup {a} /\ obj'[a].owner = c /\ obj'[a].line = l
        /\ \A b \in ptys : obj'[b] = obj[b]
    BY <2>2, <2>3, <2>4 DEF ptys
  <2>6. HaveOf(c)' = l
    BY <1>3, <2>5, HaveLine DEF HaveOf
  <2>7. ASSUME NEW d \in Clients \ {c} PROVE HaveOf(d)' = HaveOf(d)
    <3>1. /\ \A b \in Objects(obj) : obj[b].owner = d =>
               b \in Objects(obj') /\ obj'[b].owner = d /\ obj'[b].line = obj[b].line
          /\ \A b \in Objects(obj') : obj'[b].owner = d => b \in Objects(obj) /\ obj[b].owner = d
      BY <1>3, <2>5
    <3> QED
      BY <1>3, <3>1, HaveSame DEF HaveOf
  <2>8. ASSUME NEW d \in Clients PROVE HaveOf(d) # l
    <3>1. CASE \E b \in Objects(obj) : obj[b].owner = d
      <4>1. PICK b \in Objects(obj) : obj[b].owner = d
        BY <3>1
      <4>2. HaveOf(d) = obj[b].line
        BY <1>3, <4>1, HaveLine DEF HaveOf
      <4> QED
        BY <1>3, <4>1, <4>2 DEF InUse
    <3>2. CASE \A b \in Objects(obj) : obj[b].owner # d
      BY <2>2, <3>2, HaveNone, LineAssumption DEF HaveOf
    <3> QED
      BY <3>1, <3>2
  <2> QED
    BY <1>5, <2>2, <2>6, <2>7, <2>8
<1> QED
  BY <1>6, <1>7

(* login: the session of the issuer's pty, if it has one.                  *)
LEMMA LoginServes ==
  ASSUME Unharmed, SimInv, SimInv', [Next]_vars, SrvLogin
  PROVE  Service!Next
<1>1. Reads("login")
  BY DEF SrvLogin
<1>2. PICK c \in Clients : c = Head(toSrv).from
  BY <1>1, IssuerThere
<1>3. TypeInv /\ Apart(obj) /\ Objects(obj) = ptys
  BY DEF SimInv, OwnershipInv, QuietInv, OrderInv, OneObject, Apart, Objects, ptys
<1>4. \A d \in Clients : HaveOf(d)' = HaveOf(d)
  <2>1. ~SrvGet /\ ~SrvDestroy /\ ~SrvReap /\ ~KillHelper
    BY <1>1 DEF SrvGet, SrvDestroy, SrvReap, Reads, Unharmed, KillHelper
  <2>2. (\A a \in ptys : Stays(a)) /\ \A a \in ptys' : a \in ptys /\ obj'[a].owner = obj[a].owner
    BY <1>3, <2>1, ObjectsStay, ObjectsAfter
  <2> QED
    BY <2>2, ObjectsSeen
<1>5. OnlySeenBy(c) /\ Service!First(c, "login")
  BY <1>1, <1>2, <1>4, ReadsFirst
<1>6. UNCHANGED haveBar /\ haveBar[c] = HaveOf(c)
  BY <1>4, <1>5, SeenBy
<1>7. utmp' = utmp \cup ({HaveOf(c)} \cap Lines)
  <2> DEFINE a == Head(toSrv).id
  <2>1. /\ Head(toSrv) \in Command /\ Head(toSrv) = toSrv[1] /\ 1 \in DOMAIN toSrv
        /\ Head(toSrv).type = "login" /\ CommandsMeant
    BY <1>1, IssuerThere DEF Reads
  <2>2. CASE a \in ptys
    <3>1. a # Nil
      BY <2>2, NilAssumption DEF ptys
    <3>2. obj[a].owner = c
      BY <1>2, <2>1, <3>1 DEF CommandsMeant, Owns
    <3>3. HaveOf(c) = obj[a].line
      BY <1>3, <2>2, <3>2, HaveLine DEF HaveOf
    <3>4. obj[a].line \in Lines
      BY <1>3, <2>2 DEF ptys, TypeInv, HelperOK, Object
    <3> QED
      BY <2>2, <3>3, <3>4 DEF SrvLogin
  <2>3. CASE a \notin ptys
    <3>1. a = Nil
      BY <2>1, <2>3 DEF CommandsMeant, Owns
    <3>2. ASSUME NEW b \in ptys, obj[b].owner = c PROVE FALSE
      <4>1. Blind(1, b)
        BY <1>2, <2>1, <3>1, <3>2 DEF Blind
      <4>2. DeletedBefore(1, b)
        BY <2>1, <4>1 DEF SimInv, OrderInv, BlindLogins
      <4> QED
        BY <4>2 DEF DeletedBefore
    <3>3. HaveOf(c) = Nil
      BY <1>3, <3>2, HaveNone DEF HaveOf
    <3> QED
      BY <2>3, <3>3, LineAssumption DEF SrvLogin
  <2> QED
    BY <2>2, <2>3
<1> QED
  BY <1>5, <1>6, <1>7 DEF Service!Next, Service!Perform, Service!PerformLogin

(* What delete does is what the service releases: the line of the owner    *)
(* and the session on it.                                                  *)
LEMMA DeleteReleases ==
  ASSUME SimInv, SimInv', NEW a \in ptys, Delete(a), NEW c \in Clients, c = obj[a].owner
  PROVE  /\ \A d \in Clients \ {c} : HaveOf(d)' = HaveOf(d)
         /\ HaveOf(c)' = Nil /\ utmp' = utmp \ {HaveOf(c)}
<1>1. /\ TypeInv /\ Apart(obj) /\ Apart(obj') /\ Objects(obj) = ptys /\ Objects(obj') = ptys'
      /\ LinesApart /\ SessionsTracked /\ srv # "killed"
  BY DEF SimInv, OwnershipInv, QuietInv, OrderInv, OneObject, Apart, Objects, ptys, SessionInv
<1>2. ptys' = ptys \ {a} /\ \A b \in ptys' : obj'[b] = obj[b]
  BY <1>1 DEF Delete, ptys, TypeInv, HelperOK
<1>3. ASSUME NEW d \in Clients \ {c} PROVE HaveOf(d)' = HaveOf(d)
  <2>1. /\ \A b \in Objects(obj) : obj[b].owner = d =>
             b \in Objects(obj') /\ obj'[b].owner = d /\ obj'[b].line = obj[b].line
        /\ \A b \in Objects(obj') : obj'[b].owner = d => b \in Objects(obj) /\ obj[b].owner = d
    BY <1>1, <1>2
  <2> QED
    BY <1>1, <2>1, HaveSame DEF HaveOf
<1>4. \A b \in Objects(obj') : obj'[b].owner # c
  BY <1>1, <1>2 DEF Apart
<1>5. HaveOf(c)' = Nil
  BY <1>4, HaveNone DEF HaveOf
<1>6. HaveOf(c) = obj[a].line
  BY <1>1, HaveLine DEF HaveOf
<1>7. utmp' = utmp \ {obj[a].line}
  <2>1. CASE obj[a].cmd_pid
    BY <2>1 DEF Delete
  <2>2. CASE ~obj[a].cmd_pid
    <3>1. obj[a].line \notin utmp
      BY <1>1, <2>2 DEF SessionsTracked, LinesApart
    <3> QED
      BY <2>2, <3>1 DEF Delete
  <2> QED
    BY <2>1, <2>2
<1> QED
  BY <1>3, <1>5, <1>6, <1>7

(* destroy: the pty of the issuer and its session.                         *)
LEMMA DestroyServes ==
  ASSUME Unharmed, SimInv, SimInv', [Next]_vars, SrvDestroy
  PROVE  Service!Next
<1>1. Reads("destroy")
  BY DEF SrvDestroy
<1>2. PICK c \in Clients : c = Head(toSrv).from
  BY <1>1, IssuerThere
<1> DEFINE a == Head(toSrv).id
<1>3. a \in ptys /\ obj[a].owner = c
  <2>1. /\ Head(toSrv) = toSrv[1] /\ 1 \in DOMAIN toSrv
        /\ Head(toSrv).type = "destroy" /\ CommandsMeant
    BY <1>1, IssuerThere DEF Reads
  <2> QED
    BY <1>2, <2>1 DEF CommandsMeant, Owns
<1>4. Delete(a)
  BY <1>3 DEF SrvDestroy
<1>5. PICK b \in ptys : b = a
  BY <1>3
<1> HIDE DEF a
<1>6. Delete(b) /\ obj[b].owner = c
  BY <1>3, <1>4, <1>5
<1>7. /\ \A d \in Clients \ {c} : HaveOf(d)' = HaveOf(d)
      /\ HaveOf(c)' = Nil /\ utmp' = utmp \ {HaveOf(c)}
  BY <1>6, DeleteReleases
<1>8. OnlySeenBy(c) /\ Service!First(c, "destroy")
  BY <1>1, <1>2, <1>7, ReadsFirst
<1>9. haveBar' = [haveBar EXCEPT ![c] = Nil] /\ utmp' = utmp \ {haveBar[c]}
  BY <1>7, <1>8, SeenBy
<1> QED
  BY <1>8, <1>9 DEF Service!Next, Service!Perform, Service!PerformDestroy, Service!Release

(* After the end of file: what clients left behind.                        *)
LEMMA ReapServes ==
  ASSUME Unharmed, SimInv, SimInv', [Next]_vars, SrvReap, ptys # {}
  PROVE  Service!Next
<1>1. /\ UNCHANGED <<clientVars, toSrv>> /\ ClientsGone /\ toSrv = <<>> /\ TypeInv
      /\ toSrv \in Seq(Command)
  BY DEF SrvReap, sockVars, SimInv, OwnershipInv, QuietInv, CallInv, Ends, TypeInv, QueuesOK
<1>2. PICK a \in ptys : Delete(a)
  BY DEF SrvReap
<1>3. obj[a].owner \in Clients
  BY <1>1 DEF TypeInv, HelperOK, ptys, Object
<1>4. PICK c \in Clients : c = obj[a].owner
  BY <1>3
<1>5. /\ \A d \in Clients \ {c} : HaveOf(d)' = HaveOf(d)
      /\ HaveOf(c)' = Nil /\ utmp' = utmp \ {HaveOf(c)}
  BY <1>2, <1>4, DeleteReleases
<1>6. /\ goneBar' = goneBar
      /\ \A d \in Clients : PendingOf(d)' = PendingOf(d) /\ ToldOf(d)' = ToldOf(d)
  BY <1>1, HelperSeen
<1>7. OnlySeenBy(c)
  BY <1>5, <1>6 DEF OnlySeenBy
<1>8. goneBar = Clients
  BY <1>1 DEF goneBar, ClientsGone
<1>9. PendingOf(c) = <<>>
  <2>1. CommandTypes(toSrv, c) = <<>> /\ Unwritten(c) = <<>>
    BY <1>1, TypesType DEF Unwritten, ClientsGone
  <2> QED
    BY <2>1 DEF PendingOf
<1>10. /\ haveBar' = [haveBar EXCEPT ![c] = Nil] /\ utmp' = utmp \ {haveBar[c]}
       /\ UNCHANGED <<pendingBar, toldBar>> /\ pendingBar[c] = <<>>
  BY <1>5, <1>6, <1>7, <1>9, SeenBy
<1>11. Service!Reclaim(c)
  BY <1>6, <1>8, <1>10 DEF Service!Reclaim, Service!Release, goneBar
<1> QED
  BY <1>11 DEF Service!Next

-----------------------------------------------------------------------------
(* The helper protocol implements the service (PtyService), for every      *)
(* number of clients, addresses and lines, with and without the token, and *)
(* although sendmsg or recvmsg may fail to pass a descriptor: the calls of *)
(* all clients, with the commands and replies on one socket that nobody's  *)
(* name is on (ptytty_proxy and serve, proxy.C), are as if each request    *)
(* were performed at one instant, once, in the order of its client, on the *)
(* pty that the service keeps for that client; a get that returns true     *)
(* tells the client that pty; and nothing else touches ptys or sessions.   *)
THEOREM ProxyImplementsService == ASSUME Unharmed PROVE Spec => Service!Spec
<1>1. Init => Service!Init
  <2> SUFFICES ASSUME Init PROVE Service!Init
      OBVIOUS
  <2>1. ptys = {} /\ toSrv = <<>> /\ \A c \in Clients : pc[c] = "idle" /\ res[c] = "none"
    BY DEF Init, ptys
  <2>2. toSrv \in Seq(Command)
    BY TypeInit DEF TypeInv, QueuesOK
  <2>3. ASSUME NEW c \in Clients
        PROVE  PendingOf(c) = <<>> /\ HaveOf(c) = Nil /\ ToldOf(c) = Nil
    <3>1. CommandTypes(toSrv, c) = <<>>
      BY <2>1, <2>2, TypesType
    <3>2. HaveOf(c) = Nil
      BY <2>1, HaveNone DEF HaveOf, Objects, ptys
    <3> QED
      BY <2>1, <3>1, <3>2 DEF PendingOf, Unwritten, ToldOf
  <2>4. /\ pendingBar = [c \in Clients |-> <<>>] /\ haveBar = [c \in Clients |-> Nil]
        /\ toldBar = [c \in Clients |-> Nil]
    BY <2>3, BarIs
  <2>5. {c \in Clients : pc[c] = "gone"} = {} /\ utmp = {}
    BY <2>1 DEF Init
  <2> QED
    BY <2>4, <2>5 DEF Service!Init
<1>2. SimInv /\ SimInv' /\ [Next]_vars => [Service!Next]_(Service!serviceVars)
  <2> SUFFICES ASSUME SimInv, SimInv', [Next]_vars
               PROVE  [Service!Next]_(Service!serviceVars)
      OBVIOUS
  <2>1. ASSUME NEW c \in Clients, User(c) \/ Client(c)
        PROVE  [Service!Next]_(Service!serviceVars)
    BY <2>1, UserServes, ClientServes
  <2>2. CASE Helper
    BY <2>2, HelperStutters, GetServes, LoginServes, DestroyServes, ReapServes DEF Helper
  <2>3. CASE UNCHANGED vars
    <3>1. UNCHANGED <<clientVars, toSrv, obj, utmp>>
      BY <2>3 DEF vars, clientVars, tokVars, sockVars, srvVars
    <3>2. \A d \in Clients : HaveOf(d)' = HaveOf(d)
      BY <3>1 DEF HaveOf
    <3> QED
      BY <3>1, <3>2, HelperSeen, NothingSeen
  <2>4. /\ \A c \in Clients : ~KillClient(c)
        /\ ~KillHelper /\ \A c, d \in Clients : ~Fork(c, d)
    BY DEF Unharmed, Tame, KillClient, KillHelper, Fork
  <2> QED
    BY <2>1, <2>2, <2>3, <2>4 DEF Next, Ended
<1> QED
  BY <1>1, <1>2, SimInvariant, PTL DEF Spec, Service!Spec

=============================================================================
