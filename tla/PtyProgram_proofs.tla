------------------------- MODULE PtyProgram_proofs -------------------------
(***************************************************************************)
(* Proofs about PtyProgram: which descriptors each process has, from where *)
(* it stands.  The tables are known exactly, so that the lowest free       *)
(* number is too; Top >= 7 leaves room for ttyslot's lookup in each.       *)
(***************************************************************************)
EXTENDS PtyProgram, SequenceTheorems, TLAPS

Places == {"none", "init", "get", "recv", "fork", "close", "login", "write", "read", "delete",
           "exit", "gone", "control", "redirect", "exec", "shell", "serve", "send"}

(* One process's descriptors, where its object, and the helper's socket,   *)
(* are what it has besides 0, 1 and 2.                                     *)
Others(t, o, sock) ==
  \A f \in Fds : f > 2 =>
    t[f] = IF f = o.pty THEN "pty" ELSE IF f = o.tty THEN "tty"
           ELSE IF f = 3 /\ sock THEN "sock" ELSE "closed"

(* The descriptors that the parent's pty and tty get, after the socket.    *)
First   == IF build.helper THEN 4 ELSE 3
Both    == [pty |-> First, tty |-> First + 1]
PtyOnly == [pty |-> First, tty |-> -1]

Started(t) == \A f \in 0..2 : t[f] \in {"std", "null"}

ParentInv ==
  LET at == pc["parent"]
      t  == fd["parent"]
      o  == obj["parent"]
  IN  /\ at = "gone" => t = AllClosed /\ o = NoPty
      /\ at = "init" => o = NoPty /\ Others(t, NoPty, FALSE) /\ \A f \in 0..2 : t[f] \in {"std", "closed"}
      /\ at \notin {"init", "gone"} => Started(t) /\ Others(t, o, build.helper)
      /\ at \in {"get", "exit"} => o = NoPty
      /\ at = "recv" => o \in {NoPty, PtyOnly}
      /\ at \in {"fork", "close"} => o = Both
      /\ at \in {"login", "write", "read", "delete"} => o = PtyOnly

ChildInv ==
  LET at == pc["child"]
      t  == fd["child"]
  IN  /\ at \in {"none", "gone"} => t = AllClosed
      /\ at \in {"control", "redirect"} =>
           obj["child"] = Both /\ Started(t) /\ Others(t, Both, build.helper)
      /\ at \in {"exec", "shell"} => \A f \in 0..2 : t[f] = "tty"
      /\ at = "exec"  => Others(t, NoPty, build.helper)
      /\ at = "shell" => Others(t, NoPty, FALSE)
      /\ at \in {"redirect", "exec", "shell"} => ctty = "line"

(* The helper has closed everything but its socket, which is 4: the pty    *)
(* and the tty get 0 and 1, where ttyslot's lookup is made.                *)
HelperTable(o) ==
  [f \in Fds |-> IF f = o.pty THEN "pty" ELSE IF f = o.tty THEN "tty"
                 ELSE IF f = 4 THEN "sock" ELSE "closed"]

HelperInv ==
  LET at == pc["helper"]
      t  == fd["helper"]
      o  == obj["helper"]
  IN  /\ at \in {"none", "gone"} => t = AllClosed /\ o = NoPty
      /\ at \in {"serve", "send", "close"} => t = HelperTable(o)
      /\ at = "serve" => o \in {NoPty, [pty |-> 0, tty |-> -1]}
      /\ at \in {"send", "close"} => o = [pty |-> 0, tty |-> 1]

(* A pty is asked for once, and the two descriptors arrive in order.       *)
AnswerInv ==
  /\ pc["parent"] = "init" => pc["helper"] = "none"
  /\ pc["parent"] \in {"init", "get"} => cmds = <<>> /\ wire = <<>> /\ obj["helper"] = NoPty
  /\ pc["parent"] = "get" /\ build.helper => pc["helper"] = "serve"
  /\ pc["parent"] = "recv" =>
       /\ build.helper
       /\ \/ wire = <<>> /\ obj["parent"] = NoPty
          \/ wire = <<"nil">> /\ obj["parent"] = NoPty /\ cmds = <<>> /\ pc["helper"] # "send"
          \/ wire = <<"pty", "tty">> /\ obj["parent"] = NoPty /\ cmds = <<>> /\ pc["helper"] # "send"
          \/ wire = <<"tty">> /\ obj["parent"] = PtyOnly /\ cmds = <<>> /\ pc["helper"] # "send"
  /\ pc["parent"] \notin {"recv", "gone"} => wire = <<>>
  /\ cmds # <<>> /\ Head(cmds) = "get" =>
       /\ pc["parent"] \in {"recv", "gone"} /\ pc["helper"] = "serve" /\ obj["helper"] = NoPty
       /\ cmds = <<"get">>
  /\ \A i \in DOMAIN cmds : cmds[i] = "get" => i = 1
  /\ pc["helper"] = "send" => pc["parent"] \in {"recv", "gone"} /\ cmds = <<>>

Shapes ==
  /\ obj \in [Procs -> [pty : -1..Top, tty : -1..Top]]
  /\ pc["parent"] \in {"init", "get", "recv", "fork", "close", "login", "write", "read",
                       "delete", "exit", "gone"}
  /\ pc["child"]  \in {"none", "control", "redirect", "exec", "shell", "gone"}
  /\ pc["helper"] \in {"none", "serve", "send", "close", "gone"}

ProgramInv == TypeOK /\ Shapes /\ ParentInv /\ ChildInv /\ HelperInv /\ AnswerInv
-----------------------------------------------------------------------------
(* Descriptors.                                                            *)

(* open takes the lowest number that is free.                              *)
LEMMA LowestIs ==
  ASSUME NEW t, NEW n \in Fds, t[n] = "closed", \A f \in Fds : f < n => t[f] # "closed"
  PROVE  Lowest(t) = n
<1> DEFINE S == {f \in Fds : t[f] = "closed"}
<1>1. n \in S /\ \A f \in S : n <= f
  BY ProgramAssumption DEF Fds
<1>2. \A x \in S : (\A y \in S : x <= y) => x = n
  BY <1>1, ProgramAssumption DEF Fds
<1>3. Min(S) = n
  <2> HIDE DEF S
  <2>1. PICK x \in S : \A y \in S : x <= y
    BY <1>1
  <2>2. Min(S) \in S /\ \A y \in S : Min(S) <= y
    BY <2>1 DEF Min
  <2>3. QED BY <2>2, <1>2
<1>4. QED BY <1>3 DEF Lowest

(* ttyslot's lookup gives everything back.                                 *)
LEMMA SlotLookupSame ==
  ASSUME NEW t \in [Fds -> Things], NEW n \in Fds, n > 0, Lowest(t) = n, t[n] = "closed",
         NEW tty \in Fds
  PROVE  SlotLookup(t, tty) = t
<1> DEFINE u == [t EXCEPT ![n] = t[0]]
           v == [u EXCEPT ![0] = u[tty]]
           w == [v EXCEPT ![0] = v[n]]
           x == [w EXCEPT ![n] = "closed"]
<1>0. 0 \in Fds /\ n >= 0
  BY ProgramAssumption DEF Fds
<1>1. SlotLookup(t, tty) = x
  BY <1>0 DEF SlotLookup, Opened, Dup2, Closed
<1>2. v[n] = t[0]
  BY <1>0
<1>3. x = t
  BY <1>0, <1>2
<1>4. QED BY <1>1, <1>3

(* close gives up one descriptor, and -1 none.                             *)
LEMMA ClosedType ==
  ASSUME NEW t \in [Fds -> Things], NEW f \in -1..Top
  PROVE  /\ Closed(t, f) \in [Fds -> Things]
         /\ \A g \in Fds : Closed(t, f)[g] = IF g = f THEN "closed" ELSE t[g]
<1>1. f >= 0 => f \in Fds
  BY ProgramAssumption DEF Fds
<1>2. f < 0 => f \notin Fds
  BY ProgramAssumption DEF Fds
<1>3. QED BY <1>1, <1>2 DEF Closed, Things, Fds

(* The socket is the first descriptor after 0, 1 and 2, then come the pty  *)
(* and the tty.                                                            *)
LEMMA FirstFree ==
  ASSUME NEW t \in [Fds -> Things], Started(t), NEW sock \in BOOLEAN, Others(t, NoPty, sock)
  PROVE  Lowest(t) = IF sock THEN 4 ELSE 3
<1>1. (IF sock THEN 4 ELSE 3) \in Fds
  BY ProgramAssumption DEF Fds
<1>2. t[IF sock THEN 4 ELSE 3] = "closed"
  BY <1>1, ProgramAssumption DEF Others, NoPty, Fds
<1>3. \A f \in Fds : f < (IF sock THEN 4 ELSE 3) => t[f] # "closed"
  BY ProgramAssumption DEF Others, NoPty, Fds, Started
<1>4. QED BY <1>1, <1>2, <1>3, LowestIs

(* With the pty open, the tty comes next; with both, ttyslot's copy of     *)
(* standard input.                                                         *)
LEMMA SecondFree ==
  ASSUME NEW t \in [Fds -> Things], Started(t), build.helper \in BOOLEAN,
         Others(t, PtyOnly, build.helper)
  PROVE  Lowest(t) = First + 1
<1>1. First + 1 \in Fds
  BY ProgramAssumption DEF Fds, First
<1>2. t[First + 1] = "closed"
  BY <1>1, ProgramAssumption DEF Others, PtyOnly, Fds, First
<1>3. \A f \in Fds : f < First + 1 => t[f] # "closed"
  BY ProgramAssumption DEF Others, PtyOnly, Fds, Started, First
<1>4. QED BY <1>1, <1>2, <1>3, LowestIs

LEMMA ThirdFree ==
  ASSUME NEW t \in [Fds -> Things], Started(t), build.helper \in BOOLEAN,
         Others(t, Both, build.helper)
  PROVE  Lowest(t) = First + 2 /\ First + 2 \in Fds /\ t[First + 2] = "closed"
<1>1. First + 2 \in Fds
  BY ProgramAssumption DEF Fds, First
<1>2. t[First + 2] = "closed"
  BY <1>1, ProgramAssumption DEF Others, Both, Fds, First
<1>3. \A f \in Fds : f < First + 2 => t[f] # "closed"
  BY ProgramAssumption DEF Others, Both, Fds, Started, First
<1>4. QED BY <1>1, <1>2, <1>3, LowestIs

(* The pty, and after it the tty, whether opened here or received.         *)
LEMMA TakePty ==
  ASSUME NEW t \in [Fds -> Things], Started(t), build.helper \in BOOLEAN,
         Others(t, NoPty, build.helper)
  PROVE  /\ Lowest(t) = First /\ First \in Fds
         /\ [t EXCEPT ![First] = "pty"] \in [Fds -> Things]
         /\ Started([t EXCEPT ![First] = "pty"])
         /\ Others([t EXCEPT ![First] = "pty"], PtyOnly, build.helper)
<1>1. Lowest(t) = First
  BY FirstFree DEF First
<1>2. First \in Fds
  BY ProgramAssumption DEF Fds, First
<1>3. [t EXCEPT ![First] = "pty"] \in [Fds -> Things]
  BY DEF Things
<1>4. Started([t EXCEPT ![First] = "pty"])
  BY ProgramAssumption DEF Started, Fds, First
<1>5. Others([t EXCEPT ![First] = "pty"], PtyOnly, build.helper)
  BY ProgramAssumption DEF Others, Fds, First, PtyOnly, NoPty
<1>6. QED BY <1>1, <1>2, <1>3, <1>4, <1>5

LEMMA TakeTty ==
  ASSUME NEW t \in [Fds -> Things], Started(t), build.helper \in BOOLEAN,
         Others(t, PtyOnly, build.helper)
  PROVE  /\ Lowest(t) = First + 1 /\ First + 1 \in Fds
         /\ [t EXCEPT ![First + 1] = "tty"] \in [Fds -> Things]
         /\ Started([t EXCEPT ![First + 1] = "tty"])
         /\ Others([t EXCEPT ![First + 1] = "tty"], Both, build.helper)
<1>1. Lowest(t) = First + 1
  BY SecondFree
<1>2. First + 1 \in Fds
  BY ProgramAssumption DEF Fds, First
<1>3. [t EXCEPT ![First + 1] = "tty"] \in [Fds -> Things]
  BY DEF Things
<1>4. Started([t EXCEPT ![First + 1] = "tty"])
  BY ProgramAssumption DEF Started, Fds, First
<1>5. Others([t EXCEPT ![First + 1] = "tty"], Both, build.helper)
  BY ProgramAssumption DEF Others, Fds, First, PtyOnly, Both
<1>6. QED BY <1>1, <1>2, <1>3, <1>4, <1>5

(* get in a program without a helper.                                      *)
LEMMA GetHere ==
  ASSUME build.helper \in BOOLEAN, build.slot \in BOOLEAN, fd \in [Procs -> [Fds -> Things]],
         obj \in [Procs -> [pty : -1..Top, tty : -1..Top]],
         Started(fd["parent"]), Others(fd["parent"], NoPty, build.helper), GetUnix("parent")
  PROVE  /\ fd' = [fd EXCEPT !["parent"] =
                     [[fd["parent"] EXCEPT ![First] = "pty"] EXCEPT ![First + 1] = "tty"]]
         /\ obj' = [obj EXCEPT !["parent"] = Both]
<1> DEFINE t == [fd["parent"] EXCEPT ![First] = "pty"]
           u == [t EXCEPT ![First + 1] = "tty"]
<1>1. fd["parent"] \in [Fds -> Things]
  BY DEF Procs
<1>2. /\ Lowest(fd["parent"]) = First /\ First \in Fds
      /\ t \in [Fds -> Things] /\ Started(t) /\ Others(t, PtyOnly, build.helper)
  BY <1>1, TakePty
<1>3. /\ Lowest(t) = First + 1 /\ First + 1 \in Fds
      /\ u \in [Fds -> Things] /\ Started(u) /\ Others(u, Both, build.helper)
  <2> HIDE DEF t
  <2>1. QED BY <1>2, TakeTty
<1>4. Opened(fd["parent"], "pty") = t
  BY <1>2 DEF Opened
<1>5. Opened(t, "tty") = u
  <2> HIDE DEF t
  <2>1. QED BY <1>3 DEF Opened
<1>6. SlotLookup(u, First + 1) = u
  <2> HIDE DEF u
  <2>1. Lowest(u) = First + 2 /\ First + 2 \in Fds /\ u[First + 2] = "closed"
    BY <1>3, ThirdFree
  <2>2. First + 2 > 0
    BY DEF First
  <2>3. QED BY <1>3, <2>1, <2>2, SlotLookupSame
<1> HIDE DEF t, u
<1>7. /\ fd' = [fd EXCEPT !["parent"] = u]
      /\ obj' = [obj EXCEPT !["parent"] = [pty |-> First, tty |-> First + 1]]
  BY <1>2, <1>3, <1>4, <1>5, <1>6 DEF GetUnix
<1>8. QED BY <1>7 DEF Both, u, t

(* get in the helper.                                                      *)
LEMMA GetInHelper ==
  ASSUME build.slot \in BOOLEAN, fd \in [Procs -> [Fds -> Things]],
         fd["helper"] = HelperTable(NoPty), GetUnix("helper")
  PROVE  /\ fd' = [fd EXCEPT !["helper"] = HelperTable([pty |-> 0, tty |-> 1])]
         /\ obj' = [obj EXCEPT !["helper"] = [pty |-> 0, tty |-> 1]]
<1> DEFINE r == HelperTable(NoPty)
           t == HelperTable([pty |-> 0, tty |-> -1])
           u == HelperTable([pty |-> 0, tty |-> 1])
<1>0. 0 \in Fds /\ 1 \in Fds /\ 2 \in Fds /\ 4 \in Fds
  BY ProgramAssumption DEF Fds
<1>1. r \in [Fds -> Things] /\ t \in [Fds -> Things] /\ u \in [Fds -> Things]
  BY DEF HelperTable, Things
<1>2. Lowest(r) = 0
  <2>1. r[0] = "closed" /\ \A f \in Fds : f < 0 => r[f] # "closed"
    BY <1>0 DEF HelperTable, NoPty, Fds
  <2>2. QED BY <2>1, <1>0, LowestIs
<1>3. Opened(r, "pty") = t
  <2>1. [r EXCEPT ![0] = "pty"] \in [Fds -> Things]
    BY <1>1 DEF Things
  <2>2. \A f \in Fds : [r EXCEPT ![0] = "pty"][f] = t[f]
    BY <1>0 DEF HelperTable, NoPty, Fds
  <2>3. [r EXCEPT ![0] = "pty"] = t
    <3> HIDE DEF r, t
    <3>1. QED BY <1>1, <2>1, <2>2
  <2>4. QED BY <2>3, <1>2 DEF Opened
<1>4. Lowest(t) = 1
  <2>1. t[1] = "closed" /\ \A f \in Fds : f < 1 => t[f] # "closed"
    BY <1>0 DEF HelperTable, Fds
  <2>2. QED BY <2>1, <1>0, LowestIs
<1>5. Opened(t, "tty") = u
  <2>1. [t EXCEPT ![1] = "tty"] \in [Fds -> Things]
    BY <1>1 DEF Things
  <2>2. \A f \in Fds : [t EXCEPT ![1] = "tty"][f] = u[f]
    BY <1>0 DEF HelperTable, Fds
  <2>3. [t EXCEPT ![1] = "tty"] = u
    <3> HIDE DEF t, u
    <3>1. QED BY <1>1, <2>1, <2>2
  <2>4. QED BY <2>3, <1>4 DEF Opened
<1>6. Lowest(u) = 2 /\ u[2] = "closed"
  <2>1. u[2] = "closed" /\ \A f \in Fds : f < 2 => u[f] # "closed"
    BY <1>0 DEF HelperTable, Fds
  <2>2. QED BY <2>1, <1>0, LowestIs
<1>7. SlotLookup(u, 1) = u
  <2> HIDE DEF u
  <2>1. QED BY <1>0, <1>1, <1>6, SlotLookupSame
<1> HIDE DEF r, t, u
<1>8. /\ fd' = [fd EXCEPT !["helper"] = u]
      /\ obj' = [obj EXCEPT !["helper"] = [pty |-> 0, tty |-> 1]]
  <2>1. fd["helper"] = r
    BY DEF r
  <2>2. QED BY <2>1, <1>2, <1>3, <1>4, <1>5, <1>7 DEF GetUnix
<1>9. QED BY <1>8 DEF u

-----------------------------------------------------------------------------
(* The types that the steps need.                                          *)
LEMMA Parts ==
  ASSUME TypeOK, Shapes
  PROVE  /\ pc \in [Procs -> Places] /\ fd \in [Procs -> [Fds -> Things]]
         /\ obj \in [Procs -> [pty : -1..Top, tty : -1..Top]]
         /\ build.helper \in BOOLEAN /\ build.slot \in BOOLEAN
         /\ cmds \in Seq({"get", "login", "destroy"}) /\ wire \in Seq({"nil", "pty", "tty"})
<1>1. pc \in [Procs -> Places]
  BY DEF TypeOK, Places
<1>2. build.helper \in BOOLEAN /\ build.slot \in BOOLEAN
  BY DEF TypeOK
<1>3. QED BY <1>1, <1>2 DEF TypeOK, Shapes

(* While the parent waits, what it reads next, and what it has of it.      *)
LEMMA Answers ==
  ASSUME AnswerInv, pc["parent"] = "recv", wire # <<>>
  PROVE  /\ build.helper /\ cmds = <<>> /\ pc["helper"] # "send"
         /\ \/ wire = <<"nil">> /\ Head(wire) = "nil"
            \/ wire = <<"pty", "tty">> /\ Head(wire) = "pty" /\ obj["parent"] = NoPty
            \/ wire = <<"tty">> /\ Head(wire) = "tty" /\ obj["parent"] = PtyOnly
<1>1. /\ build.helper /\ cmds = <<>> /\ pc["helper"] # "send"
      /\ \/ wire = <<"nil">>
         \/ wire = <<"pty", "tty">> /\ obj["parent"] = NoPty
         \/ wire = <<"tty">> /\ obj["parent"] = PtyOnly
  BY DEF AnswerInv
<1>2. Head(<<"nil">>) = "nil" /\ Head(<<"pty", "tty">>) = "pty" /\ Head(<<"tty">>) = "tty"
  OBVIOUS
<1>3. QED BY <1>1, <1>2

(* What the steps of a process leave alone.                                *)

(* The child has its own descriptors and the terminal.                     *)
LEMMA ChildOnly ==
  ASSUME TypeOK, Shapes, Child \/ Prints
  PROVE  /\ UNCHANGED <<build, cmds, wire, session, typed>>
         /\ \A p \in {"parent", "helper"} : pc'[p] = pc[p] /\ fd'[p] = fd[p] /\ obj'[p] = obj[p]
<1>1. pc \in [Procs -> Places] /\ fd \in [Procs -> [Fds -> Things]]
      /\ obj \in [Procs -> [pty : -1..Top, tty : -1..Top]]
  BY Parts
<1>2. CASE Prints
  BY <1>2 DEF Prints, inside
<1>3. CASE MakeControllingTty
  BY <1>1, <1>3 DEF MakeControllingTty, Goto, Procs
<1>4. CASE Redirect
  BY <1>1, <1>4 DEF Redirect, Goto, Procs
<1>5. CASE Exec
  BY <1>1, <1>5 DEF Exec, Exits, Goto, Procs
<1>6. CASE ShellEnds
  BY <1>1, <1>6 DEF ShellEnds, Exits, Goto, Procs
<1>7. QED BY <1>2, <1>3, <1>4, <1>5, <1>6 DEF Child

(* The helper has its own descriptors, the socket and the sessions.        *)
LEMMA HelperOnly ==
  ASSUME TypeOK, Shapes, Helper
  PROVE  /\ UNCHANGED <<build, ctty, typed, output>>
         /\ \A p \in {"parent", "child"} : pc'[p] = pc[p] /\ fd'[p] = fd[p] /\ obj'[p] = obj[p]
<1>1. pc \in [Procs -> Places] /\ fd \in [Procs -> [Fds -> Things]]
      /\ obj \in [Procs -> [pty : -1..Top, tty : -1..Top]]
  BY Parts
<1>2. CASE HelperGet
  BY <1>1, <1>2 DEF HelperGet, GetUnix, Goto, Procs
<1>3. CASE HelperSend
  BY <1>1, <1>3 DEF HelperSend, Goto, Procs
<1>4. CASE HelperCloseTty
  BY <1>1, <1>4 DEF HelperCloseTty, CloseTty, Goto, Procs
<1>5. CASE HelperLogin
  BY <1>1, <1>5 DEF HelperLogin, inside
<1>6. CASE HelperDestroy
  BY <1>1, <1>6 DEF HelperDestroy, ClosesPty, Procs
<1>7. CASE HelperEof
  BY <1>1, <1>7 DEF HelperEof, Exits, Goto, Procs
<1>8. QED BY <1>2, <1>3, <1>4, <1>5, <1>6, <1>7 DEF Helper

(* The parent starts the helper and the child, and has no other part in    *)
(* their state.                                                            *)
LEMMA ParentOnly ==
  ASSUME TypeOK, Shapes, Parent \/ Killed
  PROVE  /\ UNCHANGED <<build, ctty>>
         /\ PtyttyInit \/ (pc'["helper"] = pc["helper"] /\ fd'["helper"] = fd["helper"])
         /\ obj'["helper"] = obj["helper"]
         /\ Fork \/ (pc'["child"] = pc["child"] /\ fd'["child"] = fd["child"]
                     /\ obj'["child"] = obj["child"])
<1>1. pc \in [Procs -> Places] /\ fd \in [Procs -> [Fds -> Things]]
      /\ obj \in [Procs -> [pty : -1..Top, tty : -1..Top]]
  BY Parts
<1>2. CASE PtyttyInit
  BY <1>1, <1>2 DEF PtyttyInit, Goto, Procs
<1>3. CASE PtyttyGet
  BY <1>1, <1>3 DEF PtyttyGet, GetUnix, Exits, Goto, Procs
<1>4. CASE ReceiveFd
  BY <1>1, <1>4 DEF ReceiveFd, Exits, Goto, Procs
<1>5. CASE Fork
  BY <1>1, <1>5 DEF Fork, Exits, Goto, Procs
<1>6. CASE PtyttyCloseTty
  BY <1>1, <1>6 DEF PtyttyCloseTty, CloseTty, Goto, Procs
<1>7. CASE PtyttyLogin \/ WriteCommand \/ ReadLoop
  BY <1>1, <1>7 DEF PtyttyLogin, WriteCommand, ReadLoop, Goto, Procs
<1>8. CASE PtyttyDelete
  BY <1>1, <1>8 DEF PtyttyDelete, ClosesPty, Goto, Procs
<1>9. CASE Return \/ Killed
  BY <1>1, <1>9 DEF Return, Killed, Exits, Goto, Procs
<1>10. QED BY <1>2, <1>3, <1>4, <1>5, <1>6, <1>7, <1>8, <1>9 DEF Parent

-----------------------------------------------------------------------------
(* The parent's descriptors.                                               *)

(* init leaves none of 0, 1 and 2 closed: the socket is 3 here, and its    *)
(* other end, 4, is the helper's.                                          *)
LEMMA SanitisedStart ==
  ASSUME NEW t \in [Fds -> Things], \A f \in 0..2 : t[f] \in {"std", "closed"},
         Others(t, NoPty, FALSE)
  PROVE  /\ Sanitised(t) \in [Fds -> Things]
         /\ Started(Sanitised(t)) /\ Others(Sanitised(t), NoPty, FALSE)
         /\ Lowest(Sanitised(t)) = 3 /\ 3 \in Fds
         /\ Started([Sanitised(t) EXCEPT ![3] = "sock"])
         /\ Others([Sanitised(t) EXCEPT ![3] = "sock"], NoPty, TRUE)
         /\ Lowest([Sanitised(t) EXCEPT ![3] = "sock"]) = 4 /\ 4 \in Fds
<1> DEFINE s == Sanitised(t)
           u == [s EXCEPT ![3] = "sock"]
<1>1. 3 \in Fds /\ 4 \in Fds /\ 0..2 \subseteq Fds
  BY ProgramAssumption DEF Fds
<1>2. s \in [Fds -> Things]
  BY DEF Sanitised, Things
<1>3. Started(s)
  BY <1>1 DEF Started, Sanitised
<1>4. Others(s, NoPty, FALSE)
  BY DEF Others, Sanitised, Fds
<1>5. Lowest(s) = 3
  <2> HIDE DEF s
  <2>1. QED BY <1>2, <1>3, <1>4, FirstFree
<1>6. u \in [Fds -> Things] /\ Started(u) /\ Others(u, NoPty, TRUE)
  <2> HIDE DEF s
  <2>1. u \in [Fds -> Things]
    BY <1>2 DEF Things
  <2>2. Started(u)
    BY <1>1, <1>2, <1>3 DEF Started
  <2>3. Others(u, NoPty, TRUE)
    BY <1>1, <1>2, <1>4 DEF Others, NoPty, Fds
  <2>4. QED BY <2>1, <2>2, <2>3
<1>7. Lowest(u) = 4
  <2> HIDE DEF u
  <2>1. QED BY <1>6, FirstFree
<1>8. QED BY <1>1, <1>2, <1>3, <1>4, <1>5, <1>6, <1>7

LEMMA ParentFrame ==
  ASSUME ParentInv, build' = build, pc'["parent"] = pc["parent"],
         fd'["parent"] = fd["parent"], obj'["parent"] = obj["parent"]
  PROVE  ParentInv'
BY DEF ParentInv, Others, Started, Both, PtyOnly, First

(* A process that has exited has nothing.                                  *)
LEMMA ParentExits ==
  ASSUME TypeOK, Shapes, Exits("parent")
  PROVE  ParentInv'
<1>1. pc'["parent"] = "gone" /\ fd'["parent"] = AllClosed /\ obj'["parent"] = NoPty
  BY DEF Exits, Goto, TypeOK, Shapes, Procs
<1>2. QED BY <1>1 DEF ParentInv, AllClosed, NoPty

(* Each step of the parent leads to the table of where it stands next.     *)
LEMMA ParentStep == ProgramInv /\ [Next]_vars => ParentInv'
<1> SUFFICES ASSUME ProgramInv, [Next]_vars PROVE ParentInv'
  OBVIOUS
<1>1. /\ pc \in [Procs -> Places] /\ fd \in [Procs -> [Fds -> Things]]
      /\ obj \in [Procs -> [pty : -1..Top, tty : -1..Top]]
      /\ build.helper \in BOOLEAN /\ build.slot \in BOOLEAN
      /\ TypeOK /\ Shapes /\ ParentInv /\ AnswerInv
  BY Parts DEF ProgramInv
<1> DEFINE t == fd["parent"]
           o == obj["parent"]
<1>2. t \in [Fds -> Things] /\ o \in [pty : -1..Top, tty : -1..Top] /\ "parent" \in Procs
  BY <1>1 DEF Procs
<1>3. CASE PtyttyInit
  <2> DEFINE s == Sanitised(t)
             u == [s EXCEPT ![3] = "sock"]
  <2>1. o = NoPty /\ Others(t, NoPty, FALSE) /\ pc["parent"] = "init"
    BY <1>1, <1>3 DEF PtyttyInit, ParentInv
  <2>2. \A f \in 0..2 : t[f] \in {"std", "closed"}
    BY <1>1, <1>3 DEF PtyttyInit, ParentInv
  <2>3. /\ s \in [Fds -> Things] /\ Started(s) /\ Others(s, NoPty, FALSE)
        /\ Lowest(s) = 3 /\ Started(u) /\ Others(u, NoPty, TRUE)
    BY <1>2, <2>1, <2>2, SanitisedStart
  <2> HIDE DEF s
  <2>4. /\ pc'["parent"] = "get" /\ obj'["parent"] = o /\ build' = build
        /\ fd'["parent"] = IF build.helper THEN u ELSE s
    BY <1>1, <1>3, <2>3 DEF PtyttyInit, Goto, Opened, Procs, s
  <2>5. Started(fd'["parent"]) /\ Others(fd'["parent"], NoPty, build.helper)
    BY <1>1, <2>3, <2>4
  <2>6. QED BY <2>1, <2>4, <2>5 DEF ParentInv, Started, Others, NoPty
<1>4. CASE PtyttyGet
  <2>1. o = NoPty /\ Started(t) /\ Others(t, NoPty, build.helper) /\ pc["parent"] = "get"
    BY <1>1, <1>4 DEF PtyttyGet, ParentInv
  <2>2. CASE Exits("parent")
    BY <1>1, <2>2, ParentExits
  <2>3. CASE GetUnix("parent") /\ Goto("parent", "fork") /\ build' = build
    <3> DEFINE x == [t EXCEPT ![First] = "pty"]
               y == [x EXCEPT ![First + 1] = "tty"]
    <3>1. fd' = [fd EXCEPT !["parent"] = y] /\ obj' = [obj EXCEPT !["parent"] = Both]
      BY <1>1, <2>1, <2>3, GetHere
    <3>2. x \in [Fds -> Things] /\ Started(x) /\ Others(x, PtyOnly, build.helper)
      BY <1>1, <1>2, <2>1, TakePty
    <3>3. Started(y) /\ Others(y, Both, build.helper)
      <4> HIDE DEF x
      <4>1. QED BY <1>1, <3>2, TakeTty
    <3>4. pc'["parent"] = "fork" /\ fd'["parent"] = y /\ obj'["parent"] = Both /\ Both' = Both
      BY <1>1, <2>3, <3>1 DEF Goto, Procs, Both, First
    <3> HIDE DEF y
    <3>5. Started(fd'["parent"]) /\ Others(fd'["parent"], obj'["parent"], build'.helper)
      BY <2>3, <3>3, <3>4
    <3>6. QED BY <3>4, <3>5 DEF ParentInv, Started, Others
  <2>4. CASE Goto("parent", "recv") /\ UNCHANGED <<build, fd, obj>>
    <3>1. pc'["parent"] = "recv" /\ fd'["parent"] = t /\ obj'["parent"] = o /\ build' = build
      BY <1>1, <2>4 DEF Goto, Procs
    <3>2. QED BY <2>1, <3>1 DEF ParentInv, Started, Others, NoPty
  <2>5. QED BY <1>4, <2>2, <2>3, <2>4 DEF PtyttyGet
<1>5. CASE ReceiveFd
  <2>1. /\ pc["parent"] = "recv" /\ Started(t) /\ Others(t, o, build.helper) /\ build' = build
        /\ wire # <<>>
    BY <1>1, <1>5 DEF ReceiveFd, ParentInv
  <2>2. CASE Exits("parent")
    BY <1>1, <2>2, ParentExits
  <2>3. CASE Head(wire) = "pty" /\ ~Exits("parent")
    <3>1. o = NoPty
      BY <1>1, <2>1, <2>3, Answers
    <3>2. /\ Lowest(t) = First /\ First \in Fds
          /\ Started([t EXCEPT ![First] = "pty"])
          /\ Others([t EXCEPT ![First] = "pty"], PtyOnly, build.helper)
      BY <1>1, <1>2, <2>1, <3>1, TakePty
    <3>3. /\ pc' = pc /\ fd' = [fd EXCEPT !["parent"][First] = "pty"]
          /\ obj' = [obj EXCEPT !["parent"].pty = First]
      BY <1>5, <2>3, <3>2 DEF ReceiveFd
    <3>4. /\ fd'["parent"] = [t EXCEPT ![First] = "pty"]
          /\ obj'["parent"] = PtyOnly /\ PtyOnly' = PtyOnly
      BY <1>1, <2>1, <3>1, <3>3 DEF Procs, PtyOnly, NoPty, First
    <3>5. Started(fd'["parent"]) /\ Others(fd'["parent"], obj'["parent"], build'.helper)
      BY <2>1, <3>2, <3>4
    <3>6. QED BY <2>1, <3>3, <3>4, <3>5 DEF ParentInv, Started, Others
  <2>4. CASE Head(wire) = "tty" /\ ~Exits("parent")
    <3>1. o = PtyOnly
      BY <1>1, <2>1, <2>4, Answers
    <3>2. /\ Lowest(t) = First + 1 /\ First + 1 \in Fds
          /\ Started([t EXCEPT ![First + 1] = "tty"])
          /\ Others([t EXCEPT ![First + 1] = "tty"], Both, build.helper)
      BY <1>1, <1>2, <2>1, <3>1, TakeTty
    <3>3. /\ Goto("parent", "fork") /\ fd' = [fd EXCEPT !["parent"][First + 1] = "tty"]
          /\ obj' = [obj EXCEPT !["parent"].tty = First + 1]
      BY <1>5, <2>4, <3>2 DEF ReceiveFd
    <3>4. /\ fd'["parent"] = [t EXCEPT ![First + 1] = "tty"]
          /\ obj'["parent"] = Both /\ Both' = Both /\ pc'["parent"] = "fork"
      BY <1>1, <2>1, <3>1, <3>3 DEF Procs, PtyOnly, Both, First, Goto
    <3>5. Started(fd'["parent"]) /\ Others(fd'["parent"], obj'["parent"], build'.helper)
      BY <2>1, <3>2, <3>4
    <3>6. QED BY <2>1, <3>4, <3>5 DEF ParentInv, Started, Others
  <2>5. QED BY <1>5, <2>2, <2>3, <2>4 DEF ReceiveFd
<1>6. CASE Fork
  <2>1. CASE Exits("parent")
    BY <1>1, <2>1, ParentExits
  <2>2. CASE ~Exits("parent")
    <3>1. /\ pc["parent"] = "fork" /\ pc'["parent"] = "close" /\ fd'["parent"] = t
          /\ obj'["parent"] = o /\ build' = build
      BY <1>1, <1>6, <2>2 DEF Fork, Procs
    <3>2. QED BY <1>1, <3>1 DEF ParentInv, Started, Others, Both, First
  <2>3. QED BY <2>1, <2>2
<1>7. CASE PtyttyCloseTty
  <2>1. /\ pc["parent"] = "close" /\ pc'["parent"] = "login" /\ build' = build
        /\ fd'["parent"] = Closed(t, o.tty) /\ obj'["parent"] = [o EXCEPT !.tty = -1]
    BY <1>1, <1>7 DEF PtyttyCloseTty, CloseTty, Goto, Procs
  <2>2. o = Both /\ Started(t) /\ Others(t, Both, build.helper)
    BY <1>1, <2>1 DEF ParentInv
  <2>3. obj'["parent"] = PtyOnly /\ PtyOnly' = PtyOnly
    BY <2>1, <2>2 DEF Both, PtyOnly, First
  <2>4. \A g \in Fds : fd'["parent"][g] = IF g = First + 1 THEN "closed" ELSE t[g]
    BY <1>2, <2>1, <2>2, ClosedType DEF Both
  <2>5. Started(fd'["parent"])
    BY <2>2, <2>4, ProgramAssumption DEF Started, Fds, First
  <2>6. Others(fd'["parent"], PtyOnly, build.helper)
    BY <2>2, <2>4 DEF Others, Both, PtyOnly, First, Fds
  <2>7. Started(fd'["parent"]) /\ Others(fd'["parent"], obj'["parent"], build'.helper)
    BY <2>1, <2>3, <2>5, <2>6
  <2>8. pc'["parent"] = "login" /\ obj'["parent"] = PtyOnly'
    BY <2>1, <2>3
  <2>9. QED BY <2>7, <2>8 DEF ParentInv, Started, Others
<1>8. CASE PtyttyLogin \/ WriteCommand \/ ReadLoop
  <2>1. /\ pc["parent"] \in {"login", "write", "read"}
        /\ pc'["parent"] \in {"write", "read", "delete"}
        /\ fd'["parent"] = t /\ obj'["parent"] = o /\ build' = build
    BY <1>1, <1>8 DEF PtyttyLogin, WriteCommand, ReadLoop, Goto, Procs
  <2>2. QED BY <1>1, <2>1 DEF ParentInv, Started, Others, PtyOnly, First
<1>9. CASE PtyttyDelete
  <2>1. /\ pc["parent"] = "delete" /\ pc'["parent"] = "exit" /\ build' = build
        /\ fd'["parent"] = Closed(Closed(t, o.tty), o.pty) /\ obj'["parent"] = NoPty
    BY <1>1, <1>9 DEF PtyttyDelete, ClosesPty, Goto, Procs
  <2>2. o = PtyOnly /\ Started(t) /\ Others(t, PtyOnly, build.helper)
    BY <1>1, <2>1 DEF ParentInv
  <2>3. Closed(t, o.tty) = t
    BY <2>2 DEF Closed, PtyOnly
  <2>4. \A g \in Fds : fd'["parent"][g] = IF g = First THEN "closed" ELSE t[g]
    BY <1>2, <2>1, <2>2, <2>3, ClosedType DEF PtyOnly
  <2>5. Started(fd'["parent"])
    BY <2>2, <2>4, ProgramAssumption DEF Started, Fds, First
  <2>6. Others(fd'["parent"], NoPty, build.helper)
    BY <2>2, <2>4 DEF Others, NoPty, PtyOnly, First, Fds
  <2>7. Started(fd'["parent"]) /\ Others(fd'["parent"], obj'["parent"], build'.helper)
    BY <2>1, <2>5, <2>6
  <2>8. QED BY <2>1, <2>7 DEF ParentInv, Started, Others, NoPty
<1>10. CASE Return \/ Killed
  BY <1>1, <1>10, ParentExits DEF Return, Killed
<1>11. CASE Child \/ Prints
  BY <1>1, <1>11, ChildOnly, ParentFrame
<1>12. CASE Helper
  BY <1>1, <1>12, HelperOnly, ParentFrame
<1>13. CASE UNCHANGED vars
  BY <1>1, <1>13, ParentFrame DEF vars, inside
<1>14. QED
  BY <1>3, <1>4, <1>5, <1>6, <1>7, <1>8, <1>9, <1>10, <1>11, <1>12, <1>13 DEF Next, Parent

-----------------------------------------------------------------------------
(* The child's descriptors.                                                *)

LEMMA ChildFrame ==
  ASSUME ChildInv, build' = build, ctty' = ctty, pc'["child"] = pc["child"],
         fd'["child"] = fd["child"], obj'["child"] = obj["child"]
  PROVE  ChildInv'
BY DEF ChildInv, Others, Started, Both, First

LEMMA ChildExits ==
  ASSUME TypeOK, Shapes, Exits("child")
  PROVE  ChildInv'
<1>1. pc'["child"] = "gone" /\ fd'["child"] = AllClosed
  BY DEF Exits, Goto, TypeOK, Shapes, Procs
<1>2. QED BY <1>1 DEF ChildInv, AllClosed

(* The child starts with what the parent has, and Redirect and exec leave  *)
(* it 0, 1 and 2.                                                          *)
LEMMA ChildStep == ProgramInv /\ [Next]_vars => ChildInv'
<1> SUFFICES ASSUME ProgramInv, [Next]_vars PROVE ChildInv'
  OBVIOUS
<1>1. /\ pc \in [Procs -> Places] /\ fd \in [Procs -> [Fds -> Things]]
      /\ obj \in [Procs -> [pty : -1..Top, tty : -1..Top]]
      /\ build.helper \in BOOLEAN
      /\ TypeOK /\ Shapes /\ ParentInv /\ ChildInv
  BY Parts DEF ProgramInv
<1> DEFINE t == fd["child"]
<1>2. t \in [Fds -> Things]
  BY <1>1 DEF Procs
<1>3. First \in Fds /\ First + 1 \in Fds /\ First > 2 /\ 0..2 \subseteq Fds
  BY ProgramAssumption DEF Fds, First
<1>4. CASE Fork
  <2>1. CASE Exits("parent")
    <3>1. /\ pc'["child"] = pc["child"] /\ fd'["child"] = t /\ obj'["child"] = obj["child"]
      BY <1>1, <2>1 DEF Exits, Goto, Procs
    <3>2. QED BY <1>1, <1>4, <3>1, ChildFrame DEF Fork
  <2>2. CASE ~Exits("parent")
    <3>1. /\ pc["parent"] = "fork" /\ pc'["child"] = "control" /\ build' = build
          /\ fd'["child"] = fd["parent"] /\ obj'["child"] = obj["parent"]
      BY <1>1, <1>4, <2>2 DEF Fork, Procs
    <3>2. obj["parent"] = Both /\ Started(fd["parent"]) /\ Others(fd["parent"], Both, build.helper)
      BY <1>1, <3>1 DEF ParentInv
    <3>3. QED BY <3>1, <3>2 DEF ChildInv, Others, Started, Both, First
  <2>3. QED BY <2>1, <2>2
<1>5. CASE MakeControllingTty
  <2>1. /\ pc["child"] = "control" /\ pc'["child"] = "redirect" /\ UNCHANGED <<build, fd, obj>>
        /\ ctty' = ControlTty(obj["child"].tty)
    BY <1>1, <1>5 DEF MakeControllingTty, Goto, Procs
  <2>2. obj["child"] = Both /\ Started(t) /\ Others(t, Both, build.helper)
    BY <1>1, <2>1 DEF ChildInv
  <2>3. ctty' = "line"
    BY <1>3, <2>1, <2>2 DEF ControlTty, Others, Both, First
  <2>4. QED BY <2>1, <2>2, <2>3 DEF ChildInv, Others, Started, Both, First
<1>6. CASE Redirect
  <2> DEFINE c == Closed(t, First)
             d == [[[c EXCEPT ![0] = c[First + 1]] EXCEPT ![1] = c[First + 1]] EXCEPT ![2] = c[First + 1]]
  <2>1. pc["child"] = "redirect" /\ pc'["child"] = "exec" /\ UNCHANGED <<build, ctty>>
    BY <1>1, <1>6 DEF Redirect, Goto, Procs
  <2>2. obj["child"] = Both /\ Started(t) /\ Others(t, Both, build.helper) /\ ctty = "line"
    BY <1>1, <2>1 DEF ChildInv
  <2>3. c \in [Fds -> Things] /\ \A g \in Fds : c[g] = IF g = First THEN "closed" ELSE t[g]
    BY <1>2, <1>3, ClosedType DEF Fds
  <2>4. c[First + 1] = "tty"
    BY <1>3, <2>2, <2>3 DEF Others, Both, First
  <2>5. d \in [Fds -> Things] /\ \A g \in Fds : d[g] = IF g <= 2 THEN "tty" ELSE c[g]
    <3> HIDE DEF c
    <3>1. QED BY <1>3, <2>3, <2>4 DEF Things, Fds
  <2>6. fd'["child"] = Closed(d, First + 1)
    <3>1. /\ obj["child"].pty = First /\ obj["child"].tty = First + 1
      BY <2>2 DEF Both
    <3>2. fd'["child"] = Closed(Dup2(Dup2(Dup2(c, First + 1, 0), First + 1, 1), First + 1, 2), First + 1)
      BY <1>1, <1>6, <3>1 DEF Redirect, Procs
    <3>3. Dup2(Dup2(Dup2(c, First + 1, 0), First + 1, 1), First + 1, 2) = d
      <4> HIDE DEF c
      <4>1. First + 1 # 0 /\ First + 1 # 1
        BY DEF First
      <4>2. QED BY <1>3, <2>3, <4>1 DEF Dup2, Fds
    <3>4. QED BY <3>2, <3>3
  <2>7. \A g \in Fds : fd'["child"][g] =
          IF g <= 2 THEN "tty" ELSE IF g \in {First, First + 1} THEN "closed" ELSE t[g]
    <3> HIDE DEF c, d
    <3>1. \A g \in Fds : Closed(d, First + 1)[g] = IF g = First + 1 THEN "closed" ELSE d[g]
      <4>1. First + 1 \in -1..Top
        BY <1>3 DEF Fds
      <4>2. QED BY <2>5, <4>1, ClosedType
    <3>2. \A g \in Fds : g <= 2 => g # First + 1 /\ g # First
      BY DEF First, Fds
    <3>3. QED BY <2>3, <2>5, <2>6, <3>1, <3>2
  <2>8. \A f \in 0..2 : fd'["child"][f] = "tty"
    BY <1>3, <2>7
  <2>9. Others(fd'["child"], NoPty, build.helper)
    BY <1>3, <2>2, <2>7 DEF Others, Both, NoPty, Fds, First
  <2>10. QED BY <2>1, <2>2, <2>8, <2>9 DEF ChildInv, Others, NoPty
<1>7. CASE Exec
  <2>1. CASE Exits("child")
    BY <1>1, <2>1, ChildExits
  <2>2. CASE ~Exits("child")
    <3>1. /\ pc["child"] = "exec" /\ pc'["child"] = "shell" /\ UNCHANGED <<build, ctty>>
          /\ fd'["child"] = CloseOnExec(t)
      BY <1>1, <1>7, <2>2 DEF Exec, Goto, Procs
    <3>2. (\A f \in 0..2 : t[f] = "tty") /\ Others(t, NoPty, build.helper) /\ ctty = "line"
      BY <1>1, <3>1 DEF ChildInv
    <3>3. \A f \in 0..2 : fd'["child"][f] = "tty"
      BY <1>3, <3>1, <3>2 DEF CloseOnExec
    <3>4. Others(fd'["child"], NoPty, FALSE)
      BY <1>3, <3>1, <3>2 DEF CloseOnExec, Others, NoPty, Fds
    <3>5. QED BY <3>1, <3>2, <3>3, <3>4 DEF ChildInv, Others, NoPty
  <2>3. QED BY <2>1, <2>2
<1>8. CASE ShellEnds
  BY <1>1, <1>8, ChildExits DEF ShellEnds
<1>9. CASE Prints
  BY <1>1, <1>9, ChildFrame DEF Prints, inside
<1>10. CASE (Parent \/ Killed) /\ ~Fork
  BY <1>1, <1>10, ParentOnly, ChildFrame
<1>11. CASE Helper
  BY <1>1, <1>11, HelperOnly, ChildFrame
<1>12. CASE UNCHANGED vars
  BY <1>1, <1>12, ChildFrame DEF vars, inside
<1>13. QED
  BY <1>4, <1>5, <1>6, <1>7, <1>8, <1>9, <1>10, <1>11, <1>12 DEF Next, Parent, Child

-----------------------------------------------------------------------------
(* The helper's descriptors.                                               *)

LEMMA HelperFrame ==
  ASSUME HelperInv, pc'["helper"] = pc["helper"],
         fd'["helper"] = fd["helper"], obj'["helper"] = obj["helper"]
  PROVE  HelperInv'
BY DEF HelperInv, HelperTable, AllClosed, NoPty

(* The helper's table: its socket, and of the pty what its object says.    *)
LEMMA HelperStep == ProgramInv /\ [Next]_vars => HelperInv'
<1> SUFFICES ASSUME ProgramInv, [Next]_vars PROVE HelperInv'
  OBVIOUS
<1>1. /\ pc \in [Procs -> Places] /\ fd \in [Procs -> [Fds -> Things]]
      /\ obj \in [Procs -> [pty : -1..Top, tty : -1..Top]]
      /\ build.helper \in BOOLEAN /\ build.slot \in BOOLEAN
      /\ TypeOK /\ Shapes /\ ParentInv /\ HelperInv /\ AnswerInv
  BY Parts DEF ProgramInv
<1> DEFINE t == fd["helper"]
           o == obj["helper"]
<1>2. t \in [Fds -> Things] /\ 0 \in Fds /\ 1 \in Fds /\ 4 \in Fds
  BY <1>1, ProgramAssumption DEF Procs, Fds
<1>3. CASE PtyttyInit
  <2>1. fd["parent"] \in [Fds -> Things] /\ obj["parent"] = NoPty /\ Others(fd["parent"], NoPty, FALSE)
        /\ \A f \in 0..2 : fd["parent"][f] \in {"std", "closed"}
    BY <1>1, <1>3 DEF PtyttyInit, ParentInv, Procs
  <2> DEFINE s == Sanitised(fd["parent"])
             u == [s EXCEPT ![3] = "sock"]
  <2>2. Lowest(s) = 3 /\ Lowest(u) = 4
    BY <2>1, SanitisedStart
  <2>3. Opened(s, "sock") = u
    BY <2>2 DEF Opened
  <2> HIDE DEF s, u
  <2>4. CASE build.helper
    <3>1. /\ pc'["helper"] = "serve" /\ obj'["helper"] = o
          /\ fd'["helper"] = [AllClosed EXCEPT ![4] = "sock"]
      <4>1. /\ pc' = [pc EXCEPT !["parent"] = "get", !["helper"] = "serve"] /\ obj' = obj
            /\ fd' = [fd EXCEPT !["parent"] = u, !["helper"] = [AllClosed EXCEPT ![4] = "sock"]]
        BY <1>3, <2>2, <2>3, <2>4 DEF PtyttyInit, s
      <4>2. QED BY <1>1, <4>1 DEF Procs
    <3>2. o = NoPty
      BY <1>1, <1>3 DEF PtyttyInit, AnswerInv
    <3>3. [AllClosed EXCEPT ![4] = "sock"] = HelperTable(NoPty)
      <4>1. AllClosed \in [Fds -> Things] /\ HelperTable(NoPty) \in [Fds -> Things]
        BY DEF AllClosed, HelperTable, Things
      <4>2. \A g \in Fds : [AllClosed EXCEPT ![4] = "sock"][g] = HelperTable(NoPty)[g]
        BY <1>2 DEF AllClosed, HelperTable, NoPty, Fds
      <4>3. [AllClosed EXCEPT ![4] = "sock"] \in [Fds -> Things]
        BY <4>1 DEF Things
      <4>4. QED BY <4>1, <4>2, <4>3
    <3>4. QED BY <3>1, <3>2, <3>3 DEF HelperInv, HelperTable, NoPty
  <2>5. CASE ~build.helper
    <3>1. /\ pc'["helper"] = pc["helper"] /\ obj'["helper"] = o /\ fd'["helper"] = t
      BY <1>1, <1>3, <2>5 DEF PtyttyInit, Procs, Goto
    <3>2. QED BY <1>1, <3>1, HelperFrame
  <2>6. QED BY <2>4, <2>5
<1>4. CASE HelperGet
  <2>1. pc["helper"] = "serve" /\ cmds # <<>> /\ Head(cmds) = "get"
    BY <1>4 DEF HelperGet
  <2>2. o = NoPty /\ t = HelperTable(NoPty)
    BY <1>1, <2>1 DEF AnswerInv, HelperInv
  <2>3. CASE GetUnix("helper") /\ Goto("helper", "send")
    <3>1. /\ fd' = [fd EXCEPT !["helper"] = HelperTable([pty |-> 0, tty |-> 1])]
          /\ obj' = [obj EXCEPT !["helper"] = [pty |-> 0, tty |-> 1]]
      BY <1>1, <2>2, <2>3, GetInHelper
    <3>2. /\ fd'["helper"] = HelperTable([pty |-> 0, tty |-> 1])
          /\ obj'["helper"] = [pty |-> 0, tty |-> 1] /\ pc'["helper"] = "send"
      BY <1>1, <2>3, <3>1 DEF Procs, Goto
    <3>3. QED BY <3>2 DEF HelperInv, HelperTable
  <2>4. CASE UNCHANGED <<pc, fd, obj>>
    BY <1>1, <2>4, HelperFrame
  <2>5. QED BY <1>4, <2>3, <2>4 DEF HelperGet
<1>5. CASE HelperSend
  <2>1. /\ pc["helper"] = "send" /\ pc'["helper"] = "close" /\ fd'["helper"] = t /\ obj'["helper"] = o
    BY <1>1, <1>5 DEF HelperSend, Goto, Procs
  <2>2. QED BY <1>1, <2>1 DEF HelperInv, HelperTable
<1>6. CASE HelperCloseTty
  <2>1. /\ pc["helper"] = "close" /\ pc'["helper"] = "serve"
        /\ fd'["helper"] = Closed(t, o.tty) /\ obj'["helper"] = [o EXCEPT !.tty = -1]
    BY <1>1, <1>6 DEF HelperCloseTty, CloseTty, Goto, Procs
  <2>2. o = [pty |-> 0, tty |-> 1] /\ t = HelperTable([pty |-> 0, tty |-> 1])
    BY <1>1, <2>1 DEF HelperInv
  <2>3. Closed(t, 1) = HelperTable([pty |-> 0, tty |-> -1])
    <3>1. /\ Closed(t, 1) \in [Fds -> Things]
          /\ \A g \in Fds : Closed(t, 1)[g] = IF g = 1 THEN "closed" ELSE t[g]
      BY <1>2, ClosedType DEF Fds
    <3>2. HelperTable([pty |-> 0, tty |-> -1]) \in [Fds -> Things]
      BY DEF HelperTable, Things
    <3>3. \A g \in Fds : Closed(t, 1)[g] = HelperTable([pty |-> 0, tty |-> -1])[g]
      BY <2>2, <3>1 DEF HelperTable, Fds
    <3>4. QED BY <3>1, <3>2, <3>3
  <2>4. fd'["helper"] = HelperTable([pty |-> 0, tty |-> -1]) /\ obj'["helper"] = [pty |-> 0, tty |-> -1]
    BY <2>1, <2>2, <2>3
  <2>5. QED BY <2>1, <2>4 DEF HelperInv, HelperTable
<1>7. CASE HelperLogin
  BY <1>1, <1>7, HelperFrame DEF HelperLogin, inside
<1>8. CASE HelperDestroy
  <2>1. /\ pc["helper"] = "serve" /\ pc' = pc
        /\ fd'["helper"] = Closed(Closed(t, o.tty), o.pty) /\ obj'["helper"] = NoPty
    BY <1>1, <1>8 DEF HelperDestroy, ClosesPty, Procs
  <2>2. o \in {NoPty, [pty |-> 0, tty |-> -1]} /\ t = HelperTable(o)
    BY <1>1, <2>1 DEF HelperInv
  <2>3. Closed(t, o.tty) = t
    BY <2>2 DEF Closed, NoPty
  <2>4. Closed(t, o.pty) = HelperTable(NoPty)
    <3>1. /\ Closed(t, o.pty) \in [Fds -> Things]
          /\ \A g \in Fds : Closed(t, o.pty)[g] = IF g = o.pty THEN "closed" ELSE t[g]
      BY <1>1, <1>2, ClosedType DEF Procs
    <3>2. HelperTable(NoPty) \in [Fds -> Things]
      BY DEF HelperTable, Things
    <3>3. \A g \in Fds : Closed(t, o.pty)[g] = HelperTable(NoPty)[g]
      <4>1. \A g \in Fds : t[g] = IF g = o.pty THEN "pty" ELSE IF g = 4 THEN "sock" ELSE "closed"
        <5>1. o.tty = -1
          BY <2>2 DEF NoPty
        <5>2. \A g \in Fds : g # o.tty
          BY <5>1 DEF Fds
        <5>3. QED BY <2>2, <5>2 DEF HelperTable
      <4>2. \A g \in Fds : HelperTable(NoPty)[g] = IF g = 4 THEN "sock" ELSE "closed"
        BY DEF HelperTable, NoPty, Fds
      <4>3. o.pty # 4
        BY <2>2 DEF NoPty
      <4>4. QED BY <3>1, <4>1, <4>2, <4>3
    <3>4. QED BY <3>1, <3>2, <3>3
  <2>5. QED BY <2>1, <2>3, <2>4 DEF HelperInv, HelperTable, NoPty
<1>9. CASE HelperEof
  <2>1. pc'["helper"] = "gone" /\ fd'["helper"] = AllClosed /\ obj'["helper"] = NoPty
    BY <1>1, <1>9 DEF HelperEof, Exits, Goto, Procs
  <2>2. QED BY <2>1 DEF HelperInv, AllClosed, NoPty
<1>10. CASE (Parent \/ Killed) /\ ~PtyttyInit
  BY <1>1, <1>10, ParentOnly, HelperFrame
<1>11. CASE Child \/ Prints
  BY <1>1, <1>11, ChildOnly, HelperFrame
<1>12. CASE UNCHANGED vars
  BY <1>1, <1>12, HelperFrame DEF vars, inside
<1>13. QED
  BY <1>3, <1>4, <1>5, <1>6, <1>7, <1>8, <1>9, <1>10, <1>11, <1>12 DEF Next, Parent, Helper

-----------------------------------------------------------------------------
(* The commands and the answer.                                            *)

LEMMA AnswerFrame ==
  ASSUME AnswerInv, build' = build, cmds' = cmds, wire' = wire,
         \A p \in {"parent", "helper"} : pc'[p] = pc[p] /\ obj'[p] = obj[p]
  PROVE  AnswerInv'
BY DEF AnswerInv, PtyOnly, First, NoPty

(* What the helper does while the parent is past the answer.               *)
LEMMA LaterCommands ==
  ASSUME NEW s \in Seq({"get", "login", "destroy"}), s # <<>>,
         \A i \in DOMAIN s : s[i] = "get" => i = 1
  PROVE  /\ Tail(s) \in Seq({"get", "login", "destroy"})
         /\ \A i \in DOMAIN Tail(s) : Tail(s)[i] # "get"
         /\ Tail(s) # <<>> => Head(Tail(s)) # "get"
<1>1. \A i \in DOMAIN Tail(s) : Tail(s)[i] = s[i + 1] /\ i + 1 \in DOMAIN s /\ i + 1 # 1
  BY HeadTailProperties
<1>2. \A i \in DOMAIN Tail(s) : Tail(s)[i] # "get"
  BY <1>1
<1>3. Tail(s) \in Seq({"get", "login", "destroy"})
  BY HeadTailProperties
<1>4. Tail(s) # <<>> => 1 \in DOMAIN Tail(s)
  BY <1>3
<1>5. QED BY <1>2, <1>3, <1>4

(* A command sent after the answer is no get.                              *)
LEMMA AnotherCommand ==
  ASSUME NEW s \in Seq({"get", "login", "destroy"}), NEW c \in {"login", "destroy"},
         \A i \in DOMAIN s : s[i] = "get" => i = 1,
         s # <<>> => Head(s) # "get"
  PROVE  /\ Append(s, c) # <<>> => Head(Append(s, c)) # "get"
         /\ \A i \in DOMAIN Append(s, c) : Append(s, c)[i] = "get" => i = 1
<1>1. DOMAIN Append(s, c) = 1..(Len(s) + 1) /\ Len(s) \in Nat /\ DOMAIN s = 1..Len(s)
  OBVIOUS
<1>2. \A i \in DOMAIN Append(s, c) : Append(s, c)[i] = IF i \in DOMAIN s THEN s[i] ELSE c
  OBVIOUS
<1>3. s # <<>> => 1 \in DOMAIN s
  OBVIOUS
<1>4. Head(Append(s, c)) = Append(s, c)[1]
  OBVIOUS
<1>5. \A i \in DOMAIN Append(s, c) : Append(s, c)[i] = "get" => i = 1
  BY <1>2
<1>6. Append(s, c)[1] # "get"
  BY <1>1, <1>2, <1>3
<1>7. QED BY <1>4, <1>5, <1>6

(* The get is answered once, before any other command is sent.             *)
LEMMA AnswerStep == ProgramInv /\ [Next]_vars => AnswerInv'
<1> SUFFICES ASSUME ProgramInv, [Next]_vars PROVE AnswerInv'
  OBVIOUS
<1>1. /\ pc \in [Procs -> Places] /\ fd \in [Procs -> [Fds -> Things]]
      /\ obj \in [Procs -> [pty : -1..Top, tty : -1..Top]]
      /\ build.helper \in BOOLEAN /\ build.slot \in BOOLEAN
      /\ cmds \in Seq({"get", "login", "destroy"}) /\ wire \in Seq({"nil", "pty", "tty"})
      /\ TypeOK /\ Shapes /\ ParentInv /\ HelperInv /\ AnswerInv
  BY Parts DEF ProgramInv
<1>2. CASE Exits("parent") /\ UNCHANGED <<cmds, build>> /\ (wire' = wire \/ pc["parent"] = "recv")
           /\ pc["parent"] # "gone"
  <2>1. /\ pc'["parent"] = "gone" /\ pc'["helper"] = pc["helper"] /\ obj'["helper"] = obj["helper"]
    BY <1>1, <1>2 DEF Exits, Goto, Procs
  <2>2. QED BY <1>1, <1>2, <2>1 DEF AnswerInv
<1>3. CASE PtyttyInit
  <2>1. pc["parent"] = "init" /\ UNCHANGED <<build, cmds, wire, obj>>
    BY <1>3 DEF PtyttyInit
  <2>2. pc'["parent"] = "get" /\ pc'["helper"] = IF build.helper THEN "serve" ELSE pc["helper"]
    BY <1>1, <1>3 DEF PtyttyInit, Goto, Procs
  <2>3. QED BY <1>1, <2>1, <2>2 DEF AnswerInv
<1>4. CASE PtyttyGet /\ ~Exits("parent")
  <2>1. pc["parent"] = "get" /\ cmds = <<>> /\ wire = <<>> /\ obj["helper"] = NoPty
        /\ obj["parent"] = NoPty /\ (build.helper => pc["helper"] = "serve")
    BY <1>1, <1>4 DEF PtyttyGet, AnswerInv, ParentInv
  <2>2. UNCHANGED <<build, wire>> /\ pc'["helper"] = pc["helper"] /\ obj'["helper"] = obj["helper"]
    BY <1>1, <1>4 DEF PtyttyGet, GetUnix, Goto, Procs
  <2>3. CASE build.helper
    <3>1. cmds' = <<"get">> /\ pc'["parent"] = "recv" /\ obj' = obj
      BY <1>1, <1>4, <2>1, <2>3 DEF PtyttyGet, Goto, Procs
    <3>2. QED BY <2>1, <2>2, <2>3, <3>1 DEF AnswerInv, NoPty
  <2>4. CASE ~build.helper
    <3>1. cmds' = cmds /\ pc'["parent"] = "fork"
      BY <1>1, <1>4, <2>1, <2>4 DEF PtyttyGet, Goto, Procs
    <3>2. pc["helper"] # "send"
      BY <1>1, <2>1 DEF AnswerInv
    <3>3. QED BY <2>1, <2>2, <3>1, <3>2 DEF AnswerInv
  <2>5. QED BY <2>3, <2>4
<1>5. CASE ReceiveFd /\ ~Exits("parent")
  <2>1. pc["parent"] = "recv" /\ wire # <<>> /\ wire' = Tail(wire) /\ UNCHANGED <<build, cmds>>
        /\ build.helper
    BY <1>1, <1>5 DEF ReceiveFd, AnswerInv
  <2>2. /\ pc'["helper"] = pc["helper"] /\ obj'["helper"] = obj["helper"]
    BY <1>1, <1>5 DEF ReceiveFd, Goto, Procs
  <2>3. CASE wire = <<"nil">>
    BY <1>5, <2>3 DEF ReceiveFd
  <2>4. CASE wire = <<"pty", "tty">>
    <3>1. obj["parent"] = NoPty /\ cmds = <<>> /\ pc["helper"] # "send"
      BY <1>1, <2>1, <2>4, Answers
    <3>2. Lowest(fd["parent"]) = First
      <4>1. fd["parent"] \in [Fds -> Things] /\ Started(fd["parent"])
            /\ Others(fd["parent"], NoPty, build.helper)
        BY <1>1, <2>1, <3>1 DEF ParentInv, Procs
      <4>2. QED BY <1>1, <4>1, TakePty
    <3>3. pc' = pc /\ obj' = [obj EXCEPT !["parent"].pty = First] /\ wire' = <<"tty">>
      BY <1>5, <2>1, <2>4, <3>2 DEF ReceiveFd
    <3>4. obj'["parent"] = PtyOnly /\ PtyOnly' = PtyOnly
      BY <1>1, <2>1, <3>1, <3>3 DEF Procs, NoPty, PtyOnly, First
    <3>5. /\ pc'["parent"] = "recv" /\ pc'["helper"] # "send" /\ cmds' = <<>> /\ build'.helper
          /\ obj'["parent"] = PtyOnly'
      BY <2>1, <2>2, <3>1, <3>3, <3>4
    <3>6. QED BY <3>3, <3>5 DEF AnswerInv
  <2>5. CASE wire = <<"tty">>
    <3>1. cmds = <<>> /\ pc["helper"] # "send"
      BY <1>1, <2>1, <2>5, Answers
    <3>2. pc'["parent"] = "fork" /\ wire' = <<>>
      BY <1>1, <1>5, <2>1, <2>5 DEF ReceiveFd, Goto, Procs
    <3>3. QED BY <2>1, <2>2, <3>1, <3>2 DEF AnswerInv
  <2>6. QED BY <1>1, <2>1, <2>3, <2>4, <2>5, Answers
<1>6. CASE (Fork /\ ~Exits("parent")) \/ PtyttyCloseTty \/ WriteCommand \/ ReadLoop
  <2>1. /\ pc["parent"] \in {"fork", "close", "write", "read"} /\ UNCHANGED <<build, cmds, wire>>
        /\ pc'["parent"] \in {"close", "login", "read", "delete"}
        /\ pc'["helper"] = pc["helper"] /\ obj'["helper"] = obj["helper"]
    BY <1>1, <1>6 DEF Fork, PtyttyCloseTty, CloseTty, WriteCommand, ReadLoop, Goto, Procs
  <2>2. QED BY <1>1, <2>1 DEF AnswerInv
<1>7. CASE PtyttyLogin \/ PtyttyDelete
  <2>1. /\ pc["parent"] \in {"login", "delete"} /\ UNCHANGED <<build, wire>>
        /\ pc'["parent"] \in {"write", "exit"}
        /\ pc'["helper"] = pc["helper"] /\ obj'["helper"] = obj["helper"]
        /\ cmds' \in {cmds, Append(cmds, "login"), Append(cmds, "destroy")}
    BY <1>1, <1>7 DEF PtyttyLogin, PtyttyDelete, ClosesPty, Goto, Procs
  <2>2. /\ \A i \in DOMAIN cmds : cmds[i] = "get" => i = 1
        /\ cmds # <<>> => Head(cmds) # "get"
        /\ wire = <<>> /\ pc["helper"] # "send"
    BY <1>1, <2>1 DEF AnswerInv
  <2>3. /\ \A i \in DOMAIN cmds' : cmds'[i] = "get" => i = 1
        /\ cmds' # <<>> => Head(cmds') # "get"
    BY <1>1, <2>1, <2>2, AnotherCommand
  <2>4. QED BY <2>1, <2>2, <2>3 DEF AnswerInv
<1>8. CASE HelperGet
  <2>1. /\ pc["helper"] = "serve" /\ cmds = <<"get">> /\ pc["parent"] \in {"recv", "gone"}
        /\ obj["helper"] = NoPty /\ cmds' = <<>> /\ build' = build
    <3>1. /\ cmds # <<>> /\ Head(cmds) = "get" /\ cmds' = Tail(cmds) /\ build' = build
      BY <1>8 DEF HelperGet
    <3>2. /\ pc["helper"] = "serve" /\ cmds = <<"get">> /\ pc["parent"] \in {"recv", "gone"}
          /\ obj["helper"] = NoPty
      BY <1>1, <3>1 DEF AnswerInv
    <3>3. cmds' = <<>>
      BY <3>1, <3>2
    <3>4. QED BY <3>1, <3>2, <3>3
  <2>2. pc'["parent"] = pc["parent"] /\ obj'["parent"] = obj["parent"]
    BY <1>1, <1>8, HelperOnly DEF Helper
  <2>3. pc["parent"] = "recv" => wire = <<>> /\ obj["parent"] = NoPty /\ build.helper
    BY <1>1, <2>1 DEF AnswerInv
  <2>4. \/ pc'["helper"] = "send" /\ wire' = wire
        \/ pc'["helper"] = "serve" /\ wire' = Append(wire, "nil")
    BY <1>1, <1>8, <2>1 DEF HelperGet, Goto, Procs
  <2>5. pc["parent"] = "recv" => wire' \in {<<>>, <<"nil">>} /\ (wire' = <<>> \/ pc'["helper"] # "send")
    BY <2>3, <2>4
  <2>6. QED BY <2>1, <2>2, <2>3, <2>5 DEF AnswerInv, NoPty
<1>9. CASE HelperSend
  <2>1. /\ pc["helper"] = "send" /\ pc'["helper"] = "close" /\ pc["parent"] \in {"recv", "gone"}
        /\ cmds = <<>> /\ UNCHANGED <<build, cmds, obj>> /\ pc'["parent"] = pc["parent"]
        /\ wire' = IF pc["parent"] = "gone" THEN wire ELSE wire \o <<"pty", "tty">>
    BY <1>1, <1>9 DEF HelperSend, AnswerInv, Goto, Procs
  <2>2. pc["parent"] = "recv" => wire = <<>> /\ obj["parent"] = NoPty /\ build.helper
    BY <1>1, <2>1 DEF AnswerInv
  <2>3. pc["parent"] = "recv" => wire' = <<"pty", "tty">>
    BY <2>1, <2>2
  <2>4. QED BY <2>1, <2>2, <2>3 DEF AnswerInv, NoPty
<1>10. CASE HelperCloseTty
  <2>1. /\ pc["helper"] = "close" /\ pc'["helper"] = "serve" /\ UNCHANGED <<build, cmds, wire>>
        /\ pc'["parent"] = pc["parent"] /\ obj'["parent"] = obj["parent"]
    BY <1>1, <1>10 DEF HelperCloseTty, CloseTty, Goto, Procs
  <2>2. pc["parent"] \notin {"init", "get"} \/ (pc["parent"] = "get" /\ ~build.helper)
    BY <1>1, <2>1 DEF AnswerInv
  <2>3. obj["helper"] # NoPty
    <3>1. HelperInv /\ pc["helper"] = "close"
      BY <1>1, <2>1
    <3>2. obj["helper"] = [pty |-> 0, tty |-> 1]
      BY <3>1 DEF HelperInv
    <3>3. obj["helper"].pty = 0 /\ NoPty.pty = -1
      BY <3>2 DEF NoPty
    <3>4. QED BY <3>3
  <2>4. QED BY <1>1, <2>1, <2>2, <2>3 DEF AnswerInv, PtyOnly, First
<1>11. CASE HelperLogin \/ HelperDestroy
  <2>1. /\ pc["helper"] = "serve" /\ cmds # <<>> /\ cmds' = Tail(cmds)
        /\ UNCHANGED <<build, wire, pc>> /\ obj'["parent"] = obj["parent"]
    BY <1>1, <1>11 DEF HelperLogin, HelperDestroy, ClosesPty, inside, Procs
  <2>2. pc["parent"] \notin {"init", "get"} /\ \A i \in DOMAIN cmds : cmds[i] = "get" => i = 1
    BY <1>1, <2>1 DEF AnswerInv
  <2>3. /\ \A i \in DOMAIN cmds' : cmds'[i] # "get"
        /\ cmds' # <<>> => Head(cmds') # "get"
    BY <1>1, <2>1, <2>2, LaterCommands
  <2>4. pc["parent"] = "recv" => wire = <<>> /\ obj["parent"] = NoPty /\ build.helper
    BY <1>1, <2>1 DEF AnswerInv
  <2>5. QED BY <1>1, <2>1, <2>2, <2>3, <2>4 DEF AnswerInv
<1>12. CASE HelperEof
  <2>1. /\ pc["helper"] = "serve" /\ cmds = <<>> /\ cmds' = <<>> /\ wire' = <<>> /\ build' = build
        /\ ~Has("parent", "sock")
        /\ pc'["helper"] = "gone" /\ pc'["parent"] = pc["parent"] /\ obj'["parent"] = obj["parent"]
        /\ obj'["helper"] = NoPty
    BY <1>1, <1>12 DEF HelperEof, Exits, Goto, Procs
  <2>2. pc["parent"] # "init"
    BY <1>1, <2>1 DEF AnswerInv
  <2>3. build.helper => pc["parent"] = "gone"
    <3>1. SUFFICES ASSUME build.helper, pc["parent"] # "gone" PROVE fd["parent"][3] = "sock"
      BY <2>1, ProgramAssumption DEF Has, Fds
    <3>2. Others(fd["parent"], obj["parent"], TRUE)
      BY <1>1, <2>2, <3>1 DEF ParentInv
    <3>3. obj["parent"].pty # 3 /\ obj["parent"].tty # 3
      <4>1. First = 4
        BY <3>1 DEF First
      <4>2. obj["parent"] \in {NoPty, PtyOnly, Both}
        BY <1>1, <2>2, <3>1 DEF ParentInv, Shapes
      <4>3. QED BY <4>1, <4>2 DEF NoPty, PtyOnly, Both
    <3>4. QED BY <3>2, <3>3, ProgramAssumption DEF Others, Fds
  <2>4. pc["parent"] # "recv"
    BY <1>1, <2>3 DEF AnswerInv
  <2>5. QED BY <1>1, <2>1, <2>2, <2>3, <2>4 DEF AnswerInv
<1>13. CASE Child \/ Prints
  BY <1>1, <1>13, ChildOnly, AnswerFrame
<1>14. CASE UNCHANGED vars
  BY <1>1, <1>14, AnswerFrame DEF vars, inside
<1>15. CASE Return \/ Killed
  BY <1>2, <1>15 DEF Return, Killed
<1>16. CASE Parent /\ Exits("parent")
  <2>1. CASE PtyttyInit \/ PtyttyCloseTty \/ PtyttyLogin \/ WriteCommand \/ ReadLoop \/ PtyttyDelete
    BY <2>1, <1>3, <1>6, <1>7
  <2>2. CASE ReceiveFd \/ Fork \/ Return
    BY <2>2, <1>2, <1>16 DEF ReceiveFd, Fork, Return
  <2>3. CASE PtyttyGet
    <3>1. ~Goto("parent", "recv")
      BY <1>1, <1>16 DEF Exits, Goto, Procs
    <3>2. pc["parent"] = "get" /\ UNCHANGED <<build, cmds, wire>>
      BY <2>3, <3>1 DEF PtyttyGet
    <3>3. QED BY <1>2, <1>16, <3>2
  <2>4. QED BY <1>16, <2>1, <2>2, <2>3 DEF Parent
<1>17. CASE Parent /\ ~Exits("parent")
  BY <1>3, <1>4, <1>5, <1>6, <1>7, <1>15, <1>17 DEF Parent
<1>18. QED
  BY <1>8, <1>9, <1>10, <1>11, <1>12, <1>13, <1>14, <1>15, <1>16, <1>17 DEF Next, Helper

-----------------------------------------------------------------------------
(* The types, which for the objects follow from the tables.                *)

LEMMA ObjectsAreOpen ==
  ASSUME Shapes', ParentInv', HelperInv', build'.helper \in BOOLEAN
  PROVE  \A p \in Procs \ {"child"} :
           /\ obj'[p].pty = -1 \/ fd'[p][obj'[p].pty] = "pty"
           /\ obj'[p].tty = -1 \/ fd'[p][obj'[p].tty] = "tty"
<1>1. Procs \ {"child"} = {"parent", "helper"}
  BY DEF Procs
<1>2. /\ obj'["parent"].pty = -1 \/ fd'["parent"][obj'["parent"].pty] = "pty"
      /\ obj'["parent"].tty = -1 \/ fd'["parent"][obj'["parent"].tty] = "tty"
  <2>1. First' \in Fds /\ First' + 1 \in Fds /\ First' > 2 /\ First' \in Nat
    BY ProgramAssumption DEF First, Fds
  <2>2. /\ obj'["parent"] \in {NoPty, PtyOnly', Both'}
        /\ obj'["parent"] # NoPty => Others(fd'["parent"], obj'["parent"], build'.helper)
    BY DEF ParentInv, Shapes, Others
  <2>3. QED BY <2>1, <2>2 DEF NoPty, PtyOnly, Both, Others
<1>3. /\ obj'["helper"].pty = -1 \/ fd'["helper"][obj'["helper"].pty] = "pty"
      /\ obj'["helper"].tty = -1 \/ fd'["helper"][obj'["helper"].tty] = "tty"
  <2>1. 0 \in Fds /\ 1 \in Fds
    BY ProgramAssumption DEF Fds
  <2>2. /\ obj'["helper"] \in {NoPty, [pty |-> 0, tty |-> -1], [pty |-> 0, tty |-> 1]}
        /\ obj'["helper"] # NoPty => fd'["helper"] = HelperTable(obj'["helper"])
    BY DEF HelperInv, Shapes
  <2>3. QED BY <2>1, <2>2 DEF NoPty, HelperTable
<1>4. QED BY <1>1, <1>2, <1>3

(* The calls on a table leave a table.                                     *)
LEMMA CloseType ==
  ASSUME NEW t \in [Fds -> Things], NEW f
  PROVE  Closed(t, f) \in [Fds -> Things]
BY DEF Closed, Things

LEMMA Dup2Type ==
  ASSUME NEW t \in [Fds -> Things], NEW f \in Fds, NEW to
  PROVE  Dup2(t, f, to) \in [Fds -> Things]
BY DEF Dup2

(* One process's entry changes.                                            *)
LEMMA EntryType ==
  ASSUME NEW S, NEW f \in [Procs -> S], NEW p \in Procs, NEW x \in S
  PROVE  [f EXCEPT ![p] = x] \in [Procs -> S]
OBVIOUS

(* Each step writes tables: every descriptor number it uses is one.        *)
LEMMA FdStep ==
  ASSUME ProgramInv, [Next]_vars
  PROVE  fd' \in [Procs -> [Fds -> Things]]
<1> DEFINE T == [Fds -> Things]
<1>1. /\ fd \in [Procs -> T] /\ obj \in [Procs -> [pty : -1..Top, tty : -1..Top]]
      /\ build.helper \in BOOLEAN /\ build.slot \in BOOLEAN
      /\ TypeOK /\ Shapes /\ ParentInv /\ ChildInv /\ HelperInv /\ AnswerInv
  BY Parts DEF ProgramInv
<1>2. /\ "parent" \in Procs /\ "child" \in Procs /\ "helper" \in Procs
      /\ fd["parent"] \in T /\ fd["child"] \in T /\ fd["helper"] \in T /\ AllClosed \in T
  BY <1>1 DEF Procs, AllClosed, Things
<1>3. SUFFICES ASSUME fd' # fd PROVE fd' \in [Procs -> T]
  BY <1>1
<1>4. CASE Exits("parent") \/ Exits("child") \/ Exits("helper")
  <2>1. PICK p \in Procs : fd' = [fd EXCEPT ![p] = AllClosed]
    BY <1>2, <1>4 DEF Exits
  <2>2. QED BY <1>1, <1>2, <2>1, EntryType
<1>5. CASE PtyttyInit
  <2> DEFINE s == Sanitised(fd["parent"])
  <2>1. s \in T
    BY <1>2 DEF Sanitised, Things
  <2>2. Opened(s, "sock") \in T
    BY <2>1 DEF Opened, Things
  <2>3. [AllClosed EXCEPT ![Lowest(Opened(s, "sock"))] = "sock"] \in T
    BY <1>2 DEF Things
  <2> DEFINE h == [AllClosed EXCEPT ![Lowest(Opened(s, "sock"))] = "sock"]
  <2>4. \/ fd' = [fd EXCEPT !["parent"] = s]
        \/ fd' = [[fd EXCEPT !["parent"] = Opened(s, "sock")] EXCEPT !["helper"] = h]
    BY <1>5 DEF PtyttyInit
  <2> HIDE DEF s, h, T
  <2>5. [fd EXCEPT !["parent"] = s] \in [Procs -> T]
    BY <1>1, <1>2, <2>1, EntryType
  <2>6. [fd EXCEPT !["parent"] = Opened(s, "sock")] \in [Procs -> T]
    BY <1>1, <1>2, <2>2, EntryType
  <2>7. [[fd EXCEPT !["parent"] = Opened(s, "sock")] EXCEPT !["helper"] = h] \in [Procs -> T]
    <3>1. h \in T
      BY <2>3 DEF h
    <3>2. QED BY <1>2, <2>6, <3>1, EntryType
  <2>8. QED BY <2>4, <2>5, <2>7
<1>6. CASE PtyttyGet /\ ~Exits("parent")
  <2>1. GetUnix("parent") /\ pc["parent"] = "get"
    BY <1>3, <1>6 DEF PtyttyGet
  <2>2. Started(fd["parent"]) /\ Others(fd["parent"], NoPty, build.helper)
    BY <1>1, <2>1 DEF ParentInv
  <2>3. fd' = [fd EXCEPT !["parent"] =
                 [[fd["parent"] EXCEPT ![First] = "pty"] EXCEPT ![First + 1] = "tty"]]
    BY <1>1, <2>1, <2>2, GetHere
  <2>4. [[fd["parent"] EXCEPT ![First] = "pty"] EXCEPT ![First + 1] = "tty"] \in T
    BY <1>2 DEF Things
  <2>5. QED BY <1>1, <1>2, <2>3, <2>4, EntryType
<1>7. CASE ReceiveFd /\ ~Exits("parent")
  <2>1. PICK x \in {"pty", "tty"} : fd' = [fd EXCEPT !["parent"][Lowest(fd["parent"])] = x]
    BY <1>7 DEF ReceiveFd
  <2>2. fd' = [fd EXCEPT !["parent"] = [fd["parent"] EXCEPT ![Lowest(fd["parent"])] = x]]
    BY <2>1
  <2>3. [fd["parent"] EXCEPT ![Lowest(fd["parent"])] = x] \in T
    BY <1>2 DEF Things
  <2>4. QED BY <1>1, <1>2, <2>2, <2>3, EntryType
<1>8. CASE Fork /\ ~Exits("parent")
  <2>1. fd' = [fd EXCEPT !["child"] = fd["parent"]]
    BY <1>8 DEF Fork
  <2>2. QED BY <1>1, <1>2, <2>1, EntryType
<1>9. CASE PtyttyCloseTty \/ HelperCloseTty
  <2>1. PICK p \in {"parent", "helper"} : fd' = [fd EXCEPT ![p] = Closed(fd[p], obj[p].tty)]
    BY <1>9 DEF PtyttyCloseTty, HelperCloseTty, CloseTty
  <2>2. Closed(fd[p], obj[p].tty) \in T
    BY <1>2, CloseType
  <2>3. QED BY <1>1, <1>2, <2>1, <2>2, EntryType
<1>10. CASE PtyttyDelete \/ HelperDestroy
  <2>1. PICK p \in {"parent", "helper"} :
          fd' = [fd EXCEPT ![p] = Closed(Closed(fd[p], obj[p].tty), obj[p].pty)]
    BY <1>10 DEF PtyttyDelete, HelperDestroy, ClosesPty
  <2>2. Closed(fd[p], obj[p].tty) \in T
    BY <1>2, CloseType
  <2>3. Closed(Closed(fd[p], obj[p].tty), obj[p].pty) \in T
    BY <2>2, CloseType
  <2>4. QED BY <1>1, <1>2, <2>1, <2>3, EntryType
<1>11. CASE Redirect
  <2> DEFINE c == Closed(fd["child"], obj["child"].pty)
             n == obj["child"].tty
  <2>1. n \in Fds
    BY <1>1, <1>11, ProgramAssumption DEF Redirect, ChildInv, Both, First, Fds
  <2>2. c \in T
    BY <1>2, CloseType
  <2> HIDE DEF c, n
  <2>3. Dup2(Dup2(Dup2(c, n, 0), n, 1), n, 2) \in T
    BY <2>1, <2>2, Dup2Type
  <2>4. Closed(Dup2(Dup2(Dup2(c, n, 0), n, 1), n, 2), n) \in T
    BY <2>3, CloseType
  <2>5. fd' = [fd EXCEPT !["child"] = Closed(Dup2(Dup2(Dup2(c, n, 0), n, 1), n, 2), n)]
    BY <1>11 DEF Redirect, c, n
  <2>6. QED BY <1>1, <1>2, <2>4, <2>5, EntryType
<1>12. CASE Exec /\ ~Exits("child")
  <2>1. fd' = [fd EXCEPT !["child"] = CloseOnExec(fd["child"])]
    BY <1>12 DEF Exec
  <2>2. CloseOnExec(fd["child"]) \in T
    BY <1>2 DEF CloseOnExec, Things
  <2>3. QED BY <1>1, <1>2, <2>1, <2>2, EntryType
<1>13. CASE HelperGet
  <2>1. GetUnix("helper") /\ pc["helper"] = "serve" /\ cmds # <<>> /\ Head(cmds) = "get"
    BY <1>3, <1>13 DEF HelperGet
  <2>2. fd["helper"] = HelperTable(NoPty)
    BY <1>1, <2>1 DEF AnswerInv, HelperInv
  <2>3. fd' = [fd EXCEPT !["helper"] = HelperTable([pty |-> 0, tty |-> 1])]
    BY <1>1, <2>1, <2>2, GetInHelper
  <2>4. HelperTable([pty |-> 0, tty |-> 1]) \in T
    BY DEF HelperTable, Things
  <2>5. QED BY <1>1, <1>2, <2>3, <2>4, EntryType
<1>14. CASE \/ PtyttyLogin \/ WriteCommand \/ ReadLoop \/ MakeControllingTty \/ Prints
            \/ HelperSend \/ HelperLogin \/ UNCHANGED vars
  BY <1>3, <1>14 DEF PtyttyLogin, WriteCommand, ReadLoop, MakeControllingTty, Prints, HelperSend,
     HelperLogin, vars, inside
<1>15. CASE Return \/ Killed \/ ShellEnds \/ HelperEof
  BY <1>4, <1>15 DEF Return, Killed, ShellEnds, HelperEof
<1>16. QED
  BY <1>4, <1>5, <1>6, <1>7, <1>8, <1>9, <1>10, <1>11, <1>12, <1>13, <1>14, <1>15
     DEF Next, Parent, Child, Helper

(* Each step writes objects, of -1 or descriptors.                         *)
LEMMA ObjStep ==
  ASSUME ProgramInv, [Next]_vars
  PROVE  obj' \in [Procs -> [pty : -1..Top, tty : -1..Top]]
<1> DEFINE O == [pty : -1..Top, tty : -1..Top]
<1>1. /\ fd \in [Procs -> [Fds -> Things]] /\ obj \in [Procs -> O]
      /\ build.helper \in BOOLEAN /\ build.slot \in BOOLEAN
      /\ TypeOK /\ Shapes /\ ParentInv /\ HelperInv /\ AnswerInv
  BY Parts DEF ProgramInv
<1>2. /\ "parent" \in Procs /\ "child" \in Procs /\ "helper" \in Procs
      /\ NoPty \in O /\ Both \in O /\ [pty |-> 0, tty |-> 1] \in O
      /\ First \in -1..Top /\ First + 1 \in -1..Top
  BY ProgramAssumption DEF Procs, NoPty, Both, First
<1>3. SUFFICES ASSUME obj' # obj PROVE obj' \in [Procs -> O]
  BY <1>1
<1>4. CASE \E p \in Procs : obj' = [obj EXCEPT ![p] = NoPty]
  <2>1. PICK p \in Procs : obj' = [obj EXCEPT ![p] = NoPty]
    BY <1>4
  <2>2. QED BY <1>1, <1>2, <2>1, EntryType
<1>5. CASE PtyttyGet /\ ~Exits("parent")
  <2>1. GetUnix("parent") /\ pc["parent"] = "get"
    BY <1>3, <1>5 DEF PtyttyGet
  <2>2. Started(fd["parent"]) /\ Others(fd["parent"], NoPty, build.helper)
    BY <1>1, <2>1 DEF ParentInv
  <2>3. obj' = [obj EXCEPT !["parent"] = Both]
    BY <1>1, <2>1, <2>2, GetHere
  <2>4. QED BY <1>1, <1>2, <2>3, EntryType
<1>6. CASE ReceiveFd /\ ~Exits("parent")
  <2> DEFINE t == fd["parent"]
             o == obj["parent"]
             f == Lowest(t)
  <2>1. o \in O /\ t \in [Fds -> Things]
    BY <1>1, <1>2
  <2>2. pc["parent"] = "recv" /\ Started(t) /\ Others(t, o, build.helper) /\ o \in {NoPty, PtyOnly}
    BY <1>1, <1>6 DEF ReceiveFd, ParentInv
  <2>3. f \in {First, First + 1}
    <3>1. CASE o = NoPty
      BY <1>1, <2>1, <2>2, <3>1, TakePty
    <3>2. CASE o = PtyOnly
      BY <1>1, <2>1, <2>2, <3>2, TakeTty
    <3>3. QED BY <2>2, <3>1, <3>2
  <2> HIDE DEF f
  <2>4. obj' \in {[obj EXCEPT !["parent"] = [o EXCEPT !.pty = f]],
                  [obj EXCEPT !["parent"] = [o EXCEPT !.tty = f]]}
    BY <1>6 DEF ReceiveFd, f
  <2>5. [o EXCEPT !.pty = f] \in O /\ [o EXCEPT !.tty = f] \in O
    BY <1>2, <2>1, <2>3
  <2> HIDE DEF O, o
  <2>6. /\ [obj EXCEPT !["parent"] = [o EXCEPT !.pty = f]] \in [Procs -> O]
        /\ [obj EXCEPT !["parent"] = [o EXCEPT !.tty = f]] \in [Procs -> O]
    BY <1>1, <1>2, <2>5, EntryType
  <2>7. QED BY <2>4, <2>6 DEF O, o
<1>7. CASE Fork /\ ~Exits("parent")
  <2>1. obj' = [obj EXCEPT !["child"] = obj["parent"]] /\ obj["parent"] \in O
    BY <1>1, <1>2, <1>7 DEF Fork
  <2>2. QED BY <1>1, <1>2, <2>1, EntryType
<1>8. CASE PtyttyCloseTty \/ HelperCloseTty
  <2>1. PICK p \in Procs : obj' = [obj EXCEPT ![p] = [obj[p] EXCEPT !.tty = -1]]
    BY <1>2, <1>8 DEF PtyttyCloseTty, HelperCloseTty, CloseTty
  <2>2. [obj[p] EXCEPT !.tty = -1] \in O
    BY <1>1, ProgramAssumption
  <2>3. QED BY <1>1, <2>1, <2>2, EntryType
<1>9. CASE HelperGet
  <2>1. GetUnix("helper") /\ pc["helper"] = "serve" /\ cmds # <<>> /\ Head(cmds) = "get"
    BY <1>3, <1>9 DEF HelperGet
  <2>2. fd["helper"] = HelperTable(NoPty)
    BY <1>1, <2>1 DEF AnswerInv, HelperInv
  <2>3. obj' = [obj EXCEPT !["helper"] = [pty |-> 0, tty |-> 1]]
    BY <1>1, <2>1, <2>2, GetInHelper
  <2>4. QED BY <1>1, <1>2, <2>3, EntryType
<1>10. CASE Exits("parent") \/ Exits("child") \/ Exits("helper")
  BY <1>2, <1>4, <1>10 DEF Exits
<1>11. CASE PtyttyDelete \/ HelperDestroy
  BY <1>2, <1>4, <1>11 DEF PtyttyDelete, HelperDestroy, ClosesPty
<1>12. CASE \/ PtyttyInit \/ PtyttyLogin \/ WriteCommand \/ ReadLoop \/ MakeControllingTty \/ Prints
            \/ Redirect \/ HelperSend \/ HelperLogin \/ UNCHANGED vars
  BY <1>3, <1>12 DEF PtyttyInit, PtyttyLogin, WriteCommand, ReadLoop, MakeControllingTty, Prints,
     Redirect, HelperSend, HelperLogin, vars, inside
<1>13. CASE Return \/ Killed \/ ShellEnds \/ HelperEof
  BY <1>10, <1>13 DEF Return, Killed, ShellEnds, HelperEof
<1>14. CASE Exec /\ ~Exits("child")
  BY <1>3, <1>14 DEF Exec
<1>15. QED
  BY <1>5, <1>6, <1>7, <1>8, <1>9, <1>10, <1>11, <1>12, <1>13, <1>14
     DEF Next, Parent, Child, Helper

(* Where each process can stand.                                           *)
LEMMA PcStep ==
  ASSUME ProgramInv, [Next]_vars
  PROVE  /\ pc' \in [Procs -> Places]
         /\ pc'["parent"] \in {"init", "get", "recv", "fork", "close", "login", "write", "read",
                               "delete", "exit", "gone"}
         /\ pc'["child"]  \in {"none", "control", "redirect", "exec", "shell", "gone"}
         /\ pc'["helper"] \in {"none", "serve", "send", "close", "gone"}
<1> DEFINE P == {"get", "recv", "fork", "close", "login", "write", "read", "delete", "exit", "gone"}
           C == {"control", "redirect", "exec", "shell", "gone"}
           H == {"serve", "send", "close", "gone"}
<1>1. /\ pc \in [Procs -> Places] /\ Shapes
  BY Parts DEF ProgramInv
<1>2. \/ pc' = pc
      \/ \E to \in P : Goto("parent", to)
      \/ \E to \in C : Goto("child", to)
      \/ \E to \in H : Goto("helper", to)
      \/ \E p \in P, c \in C : pc' = [pc EXCEPT !["parent"] = p, !["child"] = c]
      \/ \E p \in P, h \in H : pc' = [pc EXCEPT !["parent"] = p, !["helper"] = h]
  <2>1. CASE PtyttyInit \/ PtyttyGet
    BY <2>1 DEF PtyttyInit, PtyttyGet, Exits
  <2>2. CASE ReceiveFd \/ Fork
    BY <2>2 DEF ReceiveFd, Fork, Exits
  <2>3. CASE PtyttyCloseTty \/ PtyttyLogin \/ WriteCommand \/ ReadLoop
    BY <2>3 DEF PtyttyCloseTty, PtyttyLogin, WriteCommand, ReadLoop
  <2>4. CASE PtyttyDelete \/ Return \/ Killed
    BY <2>4 DEF PtyttyDelete, Return, Killed, Exits
  <2>5. CASE Child \/ Prints
    BY <2>5 DEF Child, MakeControllingTty, Redirect, Exec, ShellEnds, Prints, inside, Exits
  <2>6. CASE HelperGet \/ HelperSend \/ HelperCloseTty
    BY <2>6 DEF HelperGet, HelperSend, HelperCloseTty
  <2>7. CASE HelperLogin \/ HelperDestroy \/ HelperEof \/ UNCHANGED vars
    BY <2>7 DEF HelperLogin, HelperDestroy, HelperEof, vars, inside, Exits
  <2>8. QED BY <2>1, <2>2, <2>3, <2>4, <2>5, <2>6, <2>7 DEF Next, Parent, Helper
<1>3. QED BY <1>1, <1>2 DEF Shapes, Places, Procs, Goto

(* The rest: each command, reply and state of a session is one of those    *)
(* there are, and no more lines are unread than were printed.              *)
LEMMA RestStep ==
  ASSUME ProgramInv, [Next]_vars
  PROVE  /\ build' = build
         /\ ctty'  \in {"old", "none", "line"}
         /\ cmds'  \in Seq({"get", "login", "destroy"})
         /\ wire'  \in Seq({"nil", "pty", "tty"})
         /\ session' \in {"none", "open", "closed"}
         /\ typed' \in BOOLEAN
         /\ output' \in 0..MaxOut
<1>1. /\ ctty  \in {"old", "none", "line"}
      /\ cmds  \in Seq({"get", "login", "destroy"})
      /\ wire  \in Seq({"nil", "pty", "tty"})
      /\ session \in {"none", "open", "closed"}
      /\ typed \in BOOLEAN
      /\ output \in 0..MaxOut
  BY DEF ProgramInv, TypeOK
<1> DEFINE C == {"get", "login", "destroy"}
           W == {"nil", "pty", "tty"}
<1>2. /\ \A c \in C : Append(cmds, c) \in Seq(C)
      /\ Append(wire, "nil") \in Seq(W) /\ wire \o <<"pty", "tty">> \in Seq(W) /\ <<>> \in Seq(W)
      /\ cmds # <<>> => Tail(cmds) \in Seq(C)
      /\ wire # <<>> => Tail(wire) \in Seq(W)
  BY <1>1
<1>3. /\ build' = build
      /\ ctty' \in {ctty, "none", "line"}
      /\ cmds' \in {cmds, Append(cmds, "get"), Append(cmds, "login"), Append(cmds, "destroy")}
         \/ (cmds # <<>> /\ cmds' = Tail(cmds))
      /\ wire' \in {wire, Append(wire, "nil"), wire \o <<"pty", "tty">>, <<>>}
         \/ (wire # <<>> /\ wire' = Tail(wire))
      /\ session' \in {session, "open", "closed"}
      /\ typed' \in {typed, TRUE}
      /\ output' = output \/ (output > 0 /\ output' = output - 1)
                          \/ (output < MaxOut /\ output' = output + 1)
  <2>1. CASE PtyttyInit \/ PtyttyGet
    BY <2>1 DEF PtyttyInit, PtyttyGet
  <2>2. CASE ReceiveFd \/ Fork
    BY <2>2 DEF ReceiveFd, Fork
  <2>3. CASE PtyttyCloseTty \/ PtyttyLogin \/ PtyttyDelete
    BY <2>3 DEF PtyttyCloseTty, PtyttyLogin, PtyttyDelete, LogOut
  <2>4. CASE WriteCommand \/ ReadLoop \/ Return \/ Killed
    BY <2>4 DEF WriteCommand, ReadLoop, Return, Killed
  <2>5. CASE Child \/ Prints
    BY <2>5 DEF Child, MakeControllingTty, ControlTty, Redirect, Exec, ShellEnds, Prints, inside
  <2>6. CASE HelperGet \/ HelperSend
    BY <2>6 DEF HelperGet, HelperSend
  <2>7. CASE HelperCloseTty \/ HelperLogin
    BY <2>7 DEF HelperCloseTty, HelperLogin, inside
  <2>8. CASE HelperDestroy \/ HelperEof
    BY <2>8 DEF HelperDestroy, HelperEof, LogOut
  <2>9. CASE UNCHANGED vars
    BY <2>9 DEF vars, inside
  <2>10. QED
    BY <2>1, <2>2, <2>3, <2>4, <2>5, <2>6, <2>7, <2>8, <2>9 DEF Next, Parent, Helper
<1> HIDE DEF C, W
<1>4. cmds' \in Seq(C)
  <2>1. "get" \in C /\ "login" \in C /\ "destroy" \in C
    BY DEF C
  <2>2. cmds \in Seq(C)
    BY <1>1 DEF C
  <2>3. QED BY <1>2, <1>3, <2>1, <2>2
<1>5. wire' \in Seq(W)
  <2>1. wire \in Seq(W)
    BY <1>1 DEF W
  <2>2. QED BY <1>2, <1>3, <2>1
<1>6. output' \in 0..MaxOut
  <2>1. /\ output \in 0..MaxOut
        /\ \/ output' = output \/ (output > 0 /\ output' = output - 1)
           \/ output < MaxOut /\ output' = output + 1
    BY <1>1, <1>3
  <2>2. QED BY <2>1, ProgramAssumption
<1>7. ctty' \in {"old", "none", "line"} /\ session' \in {"none", "open", "closed"} /\ typed' \in BOOLEAN
  BY <1>1, <1>3
<1>8. QED BY <1>3, <1>4, <1>5, <1>6, <1>7 DEF C, W

(* The invariant is inductive.                                             *)
LEMMA ProgramStep == ProgramInv /\ [Next]_vars => ProgramInv'
<1> SUFFICES ASSUME ProgramInv, [Next]_vars PROVE ProgramInv'
  OBVIOUS
<1>1. ParentInv' /\ ChildInv' /\ HelperInv' /\ AnswerInv'
  BY ParentStep, ChildStep, HelperStep, AnswerStep
<1>2. Shapes'
  BY ObjStep, PcStep DEF Shapes
<1>3. build' \in [helper : BOOLEAN, slot : BOOLEAN, opened : SUBSET (0..2)]
  BY RestStep DEF ProgramInv, TypeOK
<1>4. \A p \in Procs \ {"child"} :
        /\ obj'[p].pty = -1 \/ fd'[p][obj'[p].pty] = "pty"
        /\ obj'[p].tty = -1 \/ fd'[p][obj'[p].tty] = "tty"
  <2>1. build'.helper \in BOOLEAN
    BY <1>3
  <2>2. QED BY <1>1, <1>2, <2>1, ObjectsAreOpen
<1>5. TypeOK'
  BY <1>3, <1>4, FdStep, PcStep, RestStep DEF TypeOK, Places
<1>6. QED BY <1>1, <1>2, <1>5 DEF ProgramInv

LEMMA ProgramInit == Init => ProgramInv
<1> SUFFICES ASSUME Init PROVE ProgramInv
  OBVIOUS
<1>1. /\ pc = [p \in Procs |-> IF p = "parent" THEN "init" ELSE "none"]
      /\ obj = [p \in Procs |-> NoPty]
      /\ fd["child"] = AllClosed /\ fd["helper"] = AllClosed
      /\ \A f \in Fds : fd["parent"][f] = IF f \in build.opened THEN "std" ELSE "closed"
      /\ build.opened \subseteq 0..2
  BY DEF Init, Procs, AllClosed
<1>2. TypeOK
  <2>1. fd \in [Procs -> [Fds -> Things]]
    BY DEF Init, Things
  <2>2. pc \in [Procs -> Places]
    BY <1>1 DEF Places
  <2>3. output \in 0..MaxOut
    BY ProgramAssumption DEF Init
  <2>4. \A p \in Procs : obj[p].pty = -1 /\ obj[p].tty = -1
    BY <1>1 DEF NoPty
  <2>5. /\ build \in [helper : BOOLEAN, slot : BOOLEAN, opened : SUBSET (0..2)]
        /\ ctty = "old" /\ cmds = <<>> /\ wire = <<>> /\ session = "none" /\ typed = FALSE
    BY DEF Init
  <2>6. cmds \in Seq({"get", "login", "destroy"}) /\ wire \in Seq({"nil", "pty", "tty"})
    BY <2>5
  <2>7. \A p \in Procs \ {"child"} :
          /\ obj[p].pty = -1 \/ fd[p][obj[p].pty] = "pty"
          /\ obj[p].tty = -1 \/ fd[p][obj[p].tty] = "tty"
    BY <2>4
  <2>8. QED BY <2>1, <2>2, <2>3, <2>5, <2>6, <2>7 DEF TypeOK, Places
<1>3. Shapes
  BY <1>1, ProgramAssumption DEF Shapes, NoPty, Procs
<1>4. ParentInv
  <2>1. Others(fd["parent"], NoPty, FALSE)
    BY <1>1 DEF Others, NoPty, Fds
  <2>2. \A f \in 0..2 : fd["parent"][f] \in {"std", "closed"}
    BY <1>1, ProgramAssumption DEF Fds
  <2>3. QED BY <1>1, <2>1, <2>2 DEF ParentInv, Procs
<1>5. ChildInv /\ HelperInv
  BY <1>1 DEF ChildInv, HelperInv, Procs
<1>6. AnswerInv
  BY <1>1 DEF Init, AnswerInv, Procs
<1>7. QED BY <1>2, <1>3, <1>4, <1>5, <1>6 DEF ProgramInv

-----------------------------------------------------------------------------
(* Every variable keeps its type, and an object's fields are -1 or the     *)
(* descriptors of its own pty and tty, in the program and in the helper:   *)
(* what close and put close is theirs.                                     *)
THEOREM TypeCorrect == Spec => []TypeOK
<1>1. ProgramInv => TypeOK
  BY DEF ProgramInv
<1>2. QED BY <1>1, ProgramInit, ProgramStep, PTL DEF Spec

(* The shell has its tty as 0, 1 and 2, controls it, and has nothing else  *)
(* of the pty or of the helper, whichever of 0, 1 and 2 were closed when   *)
(* the program started, helper or not, and whatever ttyslot's lookup does  *)
(* to standard input.                                                      *)
THEOREM ShellHasItsTtyAlways == Spec => []ShellHasItsTty
<1>1. ProgramInv => ShellHasItsTty
  <2> SUFFICES ASSUME ProgramInv, pc["child"] = "shell"
               PROVE  ctty = "line" /\ \A f \in Fds :
                        fd["child"][f] = IF f <= 2 THEN "tty" ELSE "closed"
    BY DEF ShellHasItsTty
  <2>1. /\ ctty = "line" /\ \A f \in 0..2 : fd["child"][f] = "tty"
        /\ Others(fd["child"], NoPty, FALSE)
    BY DEF ProgramInv, ChildInv
  <2>2. QED BY <2>1 DEF Others, NoPty, Fds
<1>2. QED BY <1>1, ProgramInit, ProgramStep, PTL DEF Spec

(* After init, standard input, output and error are what they were, or     *)
(* /dev/null, as long as the program runs: get gives back the standard     *)
(* input that it borrows for ttyslot.                                      *)
THEOREM StdinKeptAlways == Spec => []StdinKept
<1>1. ProgramInv => StdinKept
  BY DEF ProgramInv, ParentInv, Started, StdinKept
<1>2. QED BY <1>1, ProgramInit, ProgramStep, PTL DEF Spec
=============================================================================
