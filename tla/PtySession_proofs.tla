------------------------- MODULE PtySession_proofs --------------------------
(* Theorems about PtySession, for any processes, lines, builds and kills.  *)
EXTENDS PtySessionService, SequenceTheorems, TLAPS

(* Where an object has a pty, and where it has a session.                  *)
NoPty      == {"none", "new", "get"}
HasPty     == {"own", "tty", "got", "undo", "undoclose", "ready", "login", "loginwtmp",
               "logout", "logoututmp", "logoutwtmp"}
HasSession == {"login", "loginwtmp", "logout", "logoututmp", "logoutwtmp"}
Before     == NoPty \cup {"own", "tty", "got", "undo", "undoclose"}

(* A line has one master, whose process knows it by its name, and a        *)
(* process is in a session exactly between login and delete.               *)
ObjectInv ==
  /\ \A p, q \in Procs : p # q /\ pty[p] # Nil => pty[p] # pty[q]
  /\ \A p \in Procs :
       /\ name[p] = pty[p]
       /\ pc[p] \in NoPty      => pty[p] = Nil
       /\ pc[p] \in HasPty     => pty[p] # Nil
       /\ pc[p] \in Before     => cmd_pid[p] = Nil
       /\ pc[p] \in HasSession => cmd_pid[p] # Nil

(* A step of one process leaves the objects of the others alone.           *)
LEMMA StepFrame ==
  ASSUME TypeOK, NEW p \in Procs, Step(p)
  PROVE  \A q \in Procs : q # p =>
           /\ pc'[q] = pc[q] /\ pty'[q] = pty[q] /\ tty'[q] = tty[q] /\ name'[q] = name[q]
           /\ cmd_pid'[q] = cmd_pid[q] /\ login_shell'[q] = login_shell[q]
<1> USE DEF TypeOK, Goto, fields, system
<1>1. CASE Create(p) \/ Get(p) \/ OpenPtyFails(p) \/ OwnTty(p) \/ GetReturns(p) \/ CloseTty(p)
  BY <1>1 DEF Create, Get, OpenPtyFails, OwnTty, GetReturns, CloseTty
<1>2. CASE OpenPty(p) \/ OpenTty(p)
  BY <1>2 DEF OpenPty, OpenTty
<1>3. CASE Login(p) \/ LoginUtmp(p) \/ LoginWtmp(p)
  BY <1>3 DEF Login, LoginUtmp, LoginWtmp
<1>4. CASE Delete(p) \/ LogoutCheck(p) \/ LogoutUtmp(p) \/ LogoutWtmp(p)
  BY <1>4 DEF Delete, LogoutCheck, LogoutUtmp, LogoutWtmp
<1>5. CASE Restore(p) \/ Close(p) \/ Die(p)
  BY <1>5 DEF Restore, Close, Die
<1>6. QED BY <1>1, <1>2, <1>3, <1>4, <1>5 DEF Step

(* What updwtmp is given, and whether it reached the file.                 *)
Logged(p, t, w) == [type |-> t, line |-> name[p], pid |-> cmd_pid[p], written |-> w]

LEMMA Recorded ==
  ASSUME TypeOK, ObjectInv, NEW p \in Procs, pc[p] \in HasSession, NEW t \in {"USER", "DEAD"}
  PROVE  /\ name[p] \in Lines /\ cmd_pid[p] \in Pids
         /\ Record(p, t) \in Entry /\ Record(p, t) # Nil
         /\ \A w \in BOOLEAN : Logged(p, t, w) \in Attempt
<1>1. name[p] \in Lines /\ cmd_pid[p] \in Pids
  BY DEF TypeOK, ObjectInv, HasSession, HasPty
<1>2. QED BY <1>1, SessionAssumption DEF Record, Entry, Logged, Attempt

LEMMA ObjectStep ==
  ASSUME TypeOK, ObjectInv, NEW p \in Procs, Step(p)
  PROVE  ObjectInv'
<1> USE SessionAssumption DEF TypeOK, Goto, fields, system
<1>1. \A q \in Procs : q # p =>
         /\ pc'[q] = pc[q] /\ pty'[q] = pty[q] /\ name'[q] = name[q] /\ cmd_pid'[q] = cmd_pid[q]
  BY StepFrame
<1>2. /\ name'[p] = pty'[p]
      /\ pc'[p] \in NoPty      => pty'[p] = Nil
      /\ pc'[p] \in HasPty     => pty'[p] # Nil
      /\ pc'[p] \in Before     => cmd_pid'[p] = Nil
      /\ pc'[p] \in HasSession => cmd_pid'[p] # Nil
  <2> USE DEF ObjectInv, NoPty, HasPty, HasSession, Before
  <2>1. CASE Create(p) \/ Get(p) \/ OpenPtyFails(p) \/ OwnTty(p) \/ GetReturns(p) \/ CloseTty(p)
    BY <2>1 DEF Create, Get, OpenPtyFails, OwnTty, GetReturns, CloseTty
  <2>2. CASE OpenPty(p)
    BY <2>2 DEF OpenPty
  <2>3. CASE OpenTty(p)
    BY <2>3 DEF OpenTty
  <2>4. CASE Login(p)
    BY <2>4 DEF Login
  <2>5. CASE LoginUtmp(p) \/ LoginWtmp(p)
    BY <2>5 DEF LoginUtmp, LoginWtmp
  <2>6. CASE Delete(p) \/ LogoutCheck(p) \/ LogoutUtmp(p) \/ LogoutWtmp(p)
    BY <2>6 DEF Delete, LogoutCheck, LogoutUtmp, LogoutWtmp
  <2>7. CASE Restore(p) \/ Close(p) \/ Die(p)
    BY <2>7 DEF Restore, Close, Die
  <2>8. QED BY <2>1, <2>2, <2>3, <2>4, <2>5, <2>6, <2>7 DEF Step
<1>3. pty'[p] \in {pty[p], Nil} \/ (pty'[p] \in Lines /\ Free(pty'[p]))
  <2>1. CASE OpenPty(p)
    BY <2>1 DEF OpenPty
  <2>2. CASE Close(p) \/ Die(p)
    BY <2>2 DEF Close, Die
  <2>3. CASE UNCHANGED pty
    BY <2>3
  <2>4. QED
    BY <2>1, <2>2, <2>3 DEF Step, Create, Get, OpenPtyFails, OwnTty, GetReturns, CloseTty, OpenTty, Login,
       LoginUtmp, LoginWtmp, Delete, LogoutCheck, LogoutUtmp, LogoutWtmp, Restore
<1>4. \A q, r \in Procs : q # r /\ pty'[q] # Nil => pty'[q] # pty'[r]
  BY <1>1, <1>3 DEF ObjectInv, Free
<1>5. QED BY <1>1, <1>2, <1>4 DEF ObjectInv

LEMMA TypeStep ==
  ASSUME TypeOK, ObjectInv, NEW p \in Procs, Step(p), UNCHANGED build
  PROVE  TypeOK'
<1> USE SessionAssumption DEF TypeOK, Goto, fields, system
<1>1. CASE Create(p) \/ Get(p) \/ OpenPtyFails(p) \/ GetReturns(p) \/ CloseTty(p)
  BY <1>1 DEF Create, Get, OpenPtyFails, GetReturns, CloseTty
<1>2. CASE OpenPty(p)
  BY <1>2 DEF OpenPty
<1>3. CASE OwnTty(p)
  BY <1>3 DEF OwnTty
<1>4. CASE OpenTty(p)
  BY <1>4 DEF OpenTty
<1>5. CASE Login(p)
  BY <1>5 DEF Login
<1>6. ASSUME NEW t \in {"USER", "DEAD"}, pc[p] \in HasSession
      PROVE  /\ PutLine(p, t) => utmp' \in [Keys -> Entry \cup {Nil}]
             /\ PutWtmp(p, t) => wtmp' \in Seq(Attempt)
  <2>1. Record(p, t) \in Entry /\ name[p] \in Lines /\ cmd_pid[p] \in Pids
    BY <1>6, Recorded
  <2>2. \A w \in BOOLEAN : Append(wtmp, Logged(p, t, w)) \in Seq(Attempt)
    BY <2>1, AppendProperties DEF Attempt, Logged
  <2>3. PutLine(p, t) => utmp' \in [Keys -> Entry \cup {Nil}]
    BY <2>1, SessionAssumption DEF PutLine
  <2>4. PutWtmp(p, t) => wtmp' = wtmp \/ \E w \in BOOLEAN : wtmp' = Append(wtmp, Logged(p, t, w))
    BY Zenon DEF PutWtmp, Logged
  <2>5. QED BY <2>2, <2>3, <2>4
<1>7. CASE LoginUtmp(p)
  BY <1>6, <1>7 DEF LoginUtmp, HasSession
<1>8. CASE LoginWtmp(p)
  BY <1>6, <1>8 DEF LoginWtmp, HasSession
<1>10. CASE Delete(p) \/ LogoutCheck(p)
  <2>1. \E to \in {"logout", "logoututmp", "logoutwtmp", "restore"} : pc' = [pc EXCEPT ![p] = to]
    BY <1>10 DEF Delete, LogoutCheck
  <2>2. UNCHANGED <<fields, system>>
    BY <1>10 DEF Delete, LogoutCheck
  <2>3. QED BY <2>1, <2>2
<1>11. CASE LogoutUtmp(p)
  BY <1>6, <1>11 DEF LogoutUtmp, HasSession
<1>12. CASE LogoutWtmp(p)
  BY <1>6, <1>12 DEF LogoutWtmp, HasSession
<1>13. CASE Restore(p)
  BY <1>13 DEF Restore
<1>14. CASE Close(p)
  BY <1>14 DEF Close
<1>15. CASE Die(p)
  BY <1>15 DEF Die
<1>16. QED
  BY <1>1, <1>2, <1>3, <1>4, <1>5, <1>7, <1>8, <1>10, <1>11, <1>12, <1>13, <1>14, <1>15
  DEF Step

LEMMA SoundInit == Init => TypeOK /\ ObjectInv
  BY SessionAssumption DEF Init, TypeOK, ObjectInv, NoPty, HasPty, HasSession, Before

LEMMA SoundStep == TypeOK /\ ObjectInv /\ [Next]_vars => TypeOK' /\ ObjectInv'
<1> SUFFICES ASSUME TypeOK, ObjectInv, [Next]_vars PROVE TypeOK' /\ ObjectInv'
  OBVIOUS
<1>1. CASE UNCHANGED vars
  BY <1>1 DEF vars, fields, system, TypeOK, ObjectInv
<1>2. CASE Next
  BY <1>2, TypeStep, ObjectStep DEF Next
<1>3. QED BY <1>1, <1>2

LEMMA Sound == Spec => [](TypeOK /\ ObjectInv)
  BY SoundInit, SoundStep, PTL DEF Spec

(* Every variable keeps its type; in particular each record has the line   *)
(* and the process of a session (log_session, logging.C:125-159, 295-334). *)
THEOREM TypeCorrect == Spec => []TypeOK
  BY Sound, PTL

-----------------------------------------------------------------------------
LEMMA AccessStep ==
  ASSUME TypeOK, ObjectInv, AccessKept, NEW p \in Procs, Step(p)
  PROVE  AccessKept'
<1> USE SessionAssumption DEF TypeOK, Goto, fields, system
<1>1. \A q \in Procs : q # p => pc'[q] = pc[q] /\ pty'[q] = pty[q]
  BY StepFrame
<1>2. ASSUME access' = access
      PROVE  \A q \in Procs : q # p => (pty'[q] # Nil /\ pc'[q] \notin {"own", "undoclose", "close"} => access'[pty'[q]] = "user")
  BY <1>1, <1>2 DEF AccessKept
<1>3. CASE OpenPty(p)
  <2>1. PICK l \in Lines :
          /\ Free(l) /\ pty' = [pty EXCEPT ![p] = l]
          /\ access' = IF build.getPty[p] = "bsd" THEN access ELSE [access EXCEPT ![l] = "user"]
    BY <1>3 DEF OpenPty
  <2>2. build.getPty[p] = "bsd" => pc'[p] = "own"
    BY <1>3 DEF OpenPty
  <2>3. QED BY <1>1, <2>1, <2>2 DEF AccessKept, Free
<1>4. CASE OwnTty(p)
  BY <1>1, <1>4 DEF OwnTty, AccessKept, ObjectInv, HasPty
<1>5. CASE Restore(p)
  <2>1. name[p] = pty[p] /\ pc'[p] \in {"close", "undoclose"} /\ UNCHANGED pty
    BY <1>5 DEF Restore, ObjectInv
  <2>2. \A q \in Procs : q # p /\ pty[q] # Nil => pty[q] # name[p]
    BY <2>1 DEF ObjectInv
  <2>3. QED BY <1>1, <1>5, <2>1, <2>2 DEF Restore, AccessKept
<1>6. CASE Create(p) \/ Get(p) \/ OpenPtyFails(p) \/ OpenTty(p) \/ GetReturns(p) \/ CloseTty(p)
  BY <1>1, <1>6 DEF Create, Get, OpenPtyFails, OpenTty, GetReturns, CloseTty, AccessKept, ObjectInv, NoPty
<1>7. CASE Login(p) \/ LoginUtmp(p) \/ LoginWtmp(p)
  BY <1>1, <1>7 DEF Login, LoginUtmp, LoginWtmp, AccessKept
<1>8. CASE Delete(p) \/ LogoutCheck(p) \/ LogoutUtmp(p) \/ LogoutWtmp(p)
  BY <1>1, <1>8 DEF Delete, LogoutCheck, LogoutUtmp, LogoutWtmp, AccessKept
<1>9. CASE Close(p) \/ Die(p)
  BY <1>1, <1>9 DEF Close, Die, AccessKept
<1>10. QED BY <1>3, <1>4, <1>5, <1>6, <1>7, <1>8, <1>9 DEF Step

(* Whoever holds a line keeps its access to it: no chmod or chown of a     *)
(* process that frees another line, or dies, hits it (ptytty.C:306-324).   *)
THEOREM AccessStays == Spec => []AccessKept
<1>1. Init => AccessKept
  BY DEF Init, AccessKept
<1>2. TypeOK /\ ObjectInv /\ AccessKept /\ [Next]_vars => AccessKept'
  BY AccessStep DEF Next, vars, fields, AccessKept, system
<1>3. QED BY <1>1, <1>2, Sound, PTL DEF Spec

-----------------------------------------------------------------------------
(* No two lines share a record: IdsApart of UtmpId.                        *)
KeysApart == \A k, l \in Lines : Key[k] = Key[l] => k = l

(* How utmp changes: not at all, or in the record of the line of the one   *)
(* process that logs in or out.                                            *)
LEMMA UtmpStep ==
  ASSUME TypeOK, ObjectInv, NEW p \in Procs, Step(p)
  PROVE  utmp' = utmp \/ LoginUtmp(p) \/ LogoutUtmp(p)
<1>1. CASE LoginUtmp(p) \/ LogoutUtmp(p)
  BY <1>1
<1>2. CASE ~LoginUtmp(p) /\ ~LogoutUtmp(p)
  BY <1>2 DEF Step, Create, Get, OpenPtyFails, OpenPty, OwnTty, OpenTty, GetReturns, CloseTty, Login,
     LoginWtmp, Delete, LogoutCheck, LogoutWtmp, Restore, Close, Die, system
<1>3. QED BY <1>1, <1>2

LEMMA SessionStep ==
  ASSUME KeysApart, TypeOK, ObjectInv, SessionLasts, NEW p \in Procs, Step(p), UNCHANGED build
  PROVE  SessionLasts'
<1> USE SessionAssumption DEF TypeOK, Goto, fields, system, InSession, Record
<1>0. \A l : HasPlace(l)' = HasPlace(l)
  BY DEF HasPlace
<1>1. \A q \in Procs : q # p => pc'[q] = pc[q] /\ name'[q] = name[q] /\ cmd_pid'[q] = cmd_pid[q]
  BY StepFrame
<1>2. ASSUME NEW q \in Procs, q # p, InSession(q), pc[p] \in HasSession
      PROVE  Key[name[q]] # Key[name[p]] /\ name[q] \in Lines /\ name[p] \in Lines
  <2>1. name[q] = pty[q] /\ name[q] # Nil /\ name[p] = pty[p] /\ name[p] # Nil /\ pty[q] # pty[p]
    BY <1>2 DEF ObjectInv, HasPty, HasSession
  <2>2. QED BY <2>1 DEF KeysApart
<1>3. ASSUME NEW q \in Procs, q # p, InSession(q)', HasPlace(name[q])'
      PROVE  utmp'[Key[name'[q]]] = Record(q, "USER")'
  <2>1. InSession(q) /\ utmp[Key[name[q]]] = Record(q, "USER")
    BY <1>0, <1>1, <1>3 DEF SessionLasts
  <2>2. CASE utmp' = utmp
    BY <1>1, <1>3, <2>1, <2>2
  <2>3. CASE LoginUtmp(p) \/ LogoutUtmp(p)
    <3>1. Key[name[q]] # Key[name[p]] /\ Key[name[q]] \in Keys
      BY <1>2, <1>3, <2>1, <2>3 DEF LoginUtmp, LogoutUtmp, HasSession
    <3>2. utmp'[Key[name[q]]] = utmp[Key[name[q]]]
      <4>1. PICK t \in {"USER", "DEAD"} : PutLine(p, t)
        BY <2>3 DEF LoginUtmp, LogoutUtmp
      <4>2. QED BY <3>1, <4>1 DEF PutLine
    <3>3. QED BY <1>1, <1>3, <2>1, <3>2
  <2>4. QED BY <2>2, <2>3, UtmpStep
<1>4. ASSUME InSession(p)', HasPlace(name[p])'
      PROVE  utmp'[Key[name'[p]]] = Record(p, "USER")'
  <2>1. CASE LoginUtmp(p)
    <3>1. name' = name /\ cmd_pid' = cmd_pid /\ HasPlace(name[p]) /\ Key[name[p]] \in Keys
      BY <1>0, <1>4, <2>1, Recorded DEF LoginUtmp, HasSession
    <3>2. QED BY <2>1, <3>1 DEF LoginUtmp, PutLine
  <2>2. CASE OpenPty(p) \/ OwnTty(p) \/ OpenTty(p) \/ GetReturns(p) \/ Create(p) \/ Get(p) \/ OpenPtyFails(p)
    BY <1>4, <2>2 DEF OpenPty, OwnTty, OpenTty, GetReturns, Create, Get, OpenPtyFails, ObjectInv, Before, NoPty
  <2>3. CASE CloseTty(p) \/ LoginWtmp(p) \/ Delete(p) \/ LogoutCheck(p)
    <3>1. /\ utmp' = utmp /\ name' = name /\ cmd_pid' = cmd_pid
          /\ pc[p] \in {"new", "ready", "loginwtmp", "logout"}
      BY <2>3 DEF CloseTty, LoginWtmp, Delete, LogoutCheck
    <3>2. pc[p] = "new" => cmd_pid[p] = Nil
      BY DEF ObjectInv, Before, NoPty
    <3>3. InSession(p)
      BY <1>4, <3>1, <3>2
    <3>4. HasPlace(name[p])
      BY <1>0, <1>4, <3>1
    <3>5. QED BY <3>1, <3>3, <3>4 DEF SessionLasts
  <2>4. CASE Login(p) \/ LogoutUtmp(p) \/ LogoutWtmp(p) \/ Restore(p)
    BY <1>4, <2>4 DEF Login, LogoutUtmp, LogoutWtmp, Restore
  <2>5. CASE Close(p) \/ Die(p)
    BY <1>4, <2>5 DEF Close, Die
  <2>6. QED BY <2>1, <2>2, <2>3, <2>4, <2>5 DEF Step
<1>5. QED BY <1>3, <1>4 DEF SessionLasts

(* From login to delete the record of a session stands in utmp, if its     *)
(* line has a place there (utmp_pos > 0), whatever others log in, log out  *)
(* or die of, with and without pids in the records (logging.C:140-143,     *)
(* 310-318).                                                               *)
THEOREM SessionsLast == ASSUME KeysApart PROVE Spec => []SessionLasts
<1>1. Init => SessionLasts
  BY DEF Init, SessionLasts, InSession
<1>2. TypeOK /\ ObjectInv /\ SessionLasts /\ [Next]_vars => SessionLasts'
  BY SessionStep DEF Next, vars, fields, system, SessionLasts, InSession, HasPlace, Record
<1>3. QED BY <1>1, <1>2, Sound, PTL DEF Spec

-----------------------------------------------------------------------------
(* A record says under which key it stands, and its line has a place.      *)
KeysRight ==
  \A k \in Keys : utmp[k] # Nil => Key[utmp[k].line] = k /\ HasPlace(utmp[k].line)

LEMMA KeysStep ==
  ASSUME TypeOK, ObjectInv, KeysRight, NEW p \in Procs, Step(p), UNCHANGED build
  PROVE  KeysRight'
<1>0. \A l : HasPlace(l)' = HasPlace(l)
  BY DEF HasPlace
<1>1. CASE utmp' = utmp
  BY <1>0, <1>1 DEF KeysRight
<1>2. CASE LoginUtmp(p) \/ LogoutUtmp(p)
  <2>1. PICK t \in {"USER", "DEAD"} : PutLine(p, t)
    BY <1>2 DEF LoginUtmp, LogoutUtmp
  <2>2. Record(p, t).line = name[p]
    BY DEF Record
  <2>3. QED BY <1>0, <2>1, <2>2 DEF PutLine, KeysRight, TypeOK
<1>3. QED BY <1>1, <1>2, UtmpStep

EndsInv == SessionLasts /\ KeysRight /\ SessionEnds

(* The object that a record of a session is of.                            *)
Owns(p, k) ==
  /\ name[p] = utmp[k].line /\ cmd_pid[p] # Nil
  /\ pc[p] \notin {"logoutwtmp", "restore", "close"}

LEMMA EndsStep ==
  ASSUME KeysApart, TypeOK, ObjectInv, EndsInv, NEW p \in Procs, Step(p), UNCHANGED build
  PROVE  SessionEnds'
<1> USE SessionAssumption DEF TypeOK, Goto, fields, system
<1> SUFFICES ASSUME ~build.mayDie, NEW k \in Keys, utmp'[k] # Nil, utmp'[k].type = "USER"
             PROVE  \E q \in Procs : Owns(q, k)'
  BY DEF SessionEnds, Owns
<1>1. \A q \in Procs : q # p => pc'[q] = pc[q] /\ name'[q] = name[q] /\ cmd_pid'[q] = cmd_pid[q]
  BY StepFrame
<1>2. CASE LoginUtmp(p) /\ k = Key[name[p]] /\ HasPlace(name[p])
  <2>1. utmp'[k] = Record(p, "USER") /\ name'[p] = name[p] /\ cmd_pid'[p] # Nil /\ pc'[p] = "loginwtmp"
    BY <1>2, Recorded DEF LoginUtmp, PutLine, ObjectInv, HasSession
  <2>2. utmp'[k].line = name[p] /\ pc'[p] \notin {"logoutwtmp", "restore", "close"}
    BY <2>1 DEF Record
  <2>3. Owns(p, k)'
    BY <2>1, <2>2 DEF Owns
  <2>4. QED BY <2>3
<1>3. CASE LogoutUtmp(p) /\ k = Key[name[p]] /\ HasPlace(name[p])
  <2>1. utmp'[k] = Record(p, "DEAD")
    BY <1>3 DEF LogoutUtmp, PutLine
  <2>2. QED BY <2>1 DEF Record
<1>4. CASE ~((LoginUtmp(p) \/ LogoutUtmp(p)) /\ k = Key[name[p]] /\ HasPlace(name[p]))
  <2>1. utmp'[k] = utmp[k]
    <3>1. CASE utmp' = utmp
      BY <3>1
    <3>2. CASE LoginUtmp(p) \/ LogoutUtmp(p)
      <4>1. PICK t \in {"USER", "DEAD"} : PutLine(p, t)
        BY <3>2 DEF LoginUtmp, LogoutUtmp
      <4>2. QED BY <1>4, <3>2, <4>1 DEF PutLine
    <3>3. QED BY <3>1, <3>2, UtmpStep
  <2>2. PICK q \in Procs : Owns(q, k)
    BY <2>1 DEF EndsInv, SessionEnds, Owns
  <2>3. CASE q # p
    BY <1>1, <2>1, <2>2, <2>3 DEF Owns
  <2>4. CASE q = p
    <3>1. utmp[k].line = name[p] /\ cmd_pid[p] # Nil /\ pc[p] \notin {"logoutwtmp", "restore", "close"}
      BY <2>2, <2>4 DEF Owns
    <3>2. k = Key[name[p]] /\ HasPlace(name[p])
      BY <2>1, <3>1 DEF EndsInv, KeysRight
    <3>3. pc[p] \notin Before
      BY <3>1 DEF ObjectInv
    <3>4. CASE Login(p) \/ CloseTty(p) \/ LoginWtmp(p) \/ Delete(p)
      <4>1. name' = name /\ cmd_pid'[p] # Nil /\ pc'[p] \notin {"logoutwtmp", "restore", "close"}
        BY <3>1, <3>4 DEF Login, CloseTty, LoginWtmp, Delete
      <4>2. QED BY <2>1, <3>1, <4>1 DEF Owns
    <3>5. CASE LogoutCheck(p)
      <4>1. utmp[Key[name[p]]] = Record(p, "USER")
        BY <3>1, <3>2, <3>5 DEF LogoutCheck, EndsInv, SessionLasts, InSession
      <4>2. pc'[p] = "logoututmp"
        BY <2>1, <3>2, <3>5, <4>1 DEF LogoutCheck, Record
      <4>3. QED BY <2>1, <3>1, <3>5, <4>2 DEF LogoutCheck, Owns
    <3>6. CASE LoginUtmp(p) \/ LogoutUtmp(p)
      BY <1>4, <3>2, <3>6
    <3>7. CASE LogoutWtmp(p) \/ Close(p) \/ Die(p) \/ Restore(p)
      BY <3>1, <3>3, <3>7 DEF LogoutWtmp, Close, Die, Restore, Before
    <3>8. CASE Create(p) \/ Get(p) \/ OpenPtyFails(p) \/ OpenPty(p) \/ OwnTty(p) \/ OpenTty(p) \/ GetReturns(p)
      BY <3>3, <3>8 DEF Create, Get, OpenPtyFails, OpenPty, OwnTty, OpenTty, GetReturns, Before, NoPty
    <3>9. QED BY <3>4, <3>5, <3>6, <3>7, <3>8 DEF Step
  <2>5. QED BY <2>3, <2>4
<1>5. QED BY <1>2, <1>3, <1>4

LEMMA Ends == ASSUME KeysApart PROVE Spec => []EndsInv
<1>1. Init => EndsInv
  BY DEF Init, EndsInv, SessionLasts, InSession, KeysRight, SessionEnds
<1>2. TypeOK /\ ObjectInv /\ EndsInv /\ [Next]_vars => EndsInv'
  <2> SUFFICES ASSUME TypeOK, ObjectInv, EndsInv, [Next]_vars PROVE EndsInv'
    OBVIOUS
  <2>1. SessionLasts /\ KeysRight /\ SessionEnds
    BY DEF EndsInv
  <2>2. CASE UNCHANGED vars
    <3>1. UNCHANGED <<build, pc, name, cmd_pid, utmp>>
      BY <2>2 DEF vars, fields, system
    <3>2. SessionLasts'
      BY <2>1, <3>1 DEF SessionLasts, InSession, HasPlace, Record
    <3>3. KeysRight' /\ SessionEnds'
      BY <2>1, <3>1 DEF KeysRight, HasPlace, SessionEnds
    <3>4. QED BY <3>2, <3>3 DEF EndsInv
  <2>3. ASSUME NEW p \in Procs, Step(p), UNCHANGED build
        PROVE  EndsInv'
    <3>1. SessionLasts'
      BY <2>1, <2>3, SessionStep
    <3>2. KeysRight'
      BY <2>1, <2>3, KeysStep
    <3>3. SessionEnds'
      BY <2>3, EndsStep
    <3>4. QED BY <3>1, <3>2, <3>3 DEF EndsInv
  <2>4. QED BY <2>2, <2>3 DEF Next
<1>3. QED BY <1>1, <1>2, Sound, PTL DEF Spec

(* Without kills each session in utmp is that of an object that exists:    *)
(* the destructor finds its own record and ends it (logging.C:141, 312).   *)
THEOREM SessionsEnd == ASSUME KeysApart PROVE Spec => []SessionEnds
<1>1. EndsInv => SessionEnds
  BY DEF EndsInv
<1>2. QED BY <1>1, Ends, PTL

-----------------------------------------------------------------------------
(* The last record of line l in a log s is r.                              *)
LastOf(s, l, r) ==
  \E j \in DOMAIN s : s[j] = r /\ \A k \in (j + 1)..Len(s) : s[k].line # l

(* A log that grows keeps the last record of a line, unless it grows by a  *)
(* record of that line, which then is the last one.                        *)
LEMMA LogAppend ==
  ASSUME NEW s \in Seq(Attempt), NEW e \in Attempt
  PROVE  LET t == Append(s, e) IN
           /\ t \in Seq(Attempt) /\ Len(t) = Len(s) + 1 /\ DOMAIN s = 1..Len(s) /\ DOMAIN t = 1..(Len(s) + 1)
           /\ t[Len(s) + 1] = e /\ \A i \in 1..Len(s) : t[i] = s[i]
           /\ LastOf(t, e.line, e)
           /\ \A l \in Lines, r \in Attempt : e.line # l /\ LastOf(s, l, r) => LastOf(t, l, r)
<1> DEFINE t == Append(s, e)
<1>1. /\ t \in Seq(Attempt) /\ Len(t) = Len(s) + 1 /\ DOMAIN s = 1..Len(s) /\ DOMAIN t = 1..(Len(s) + 1)
      /\ t[Len(s) + 1] = e /\ \A i \in 1..Len(s) : t[i] = s[i]
  BY AppendProperties
<1>2. Len(s) \in Nat
  OBVIOUS
<1> HIDE DEF t
<1>3. LastOf(t, e.line, e)
  BY <1>1, <1>2 DEF LastOf
<1>4. ASSUME NEW l \in Lines, NEW r \in Attempt, e.line # l, LastOf(s, l, r)
      PROVE  LastOf(t, l, r)
  <2>1. PICK j \in DOMAIN s : s[j] = r /\ \A k \in (j + 1)..Len(s) : s[k].line # l
    BY <1>4 DEF LastOf
  <2>2. j \in DOMAIN t /\ t[j] = r
    BY <1>1, <1>2, <2>1
  <2>3. ASSUME NEW k \in (j + 1)..Len(t)
        PROVE  t[k].line # l
    <3>1. CASE k = Len(s) + 1
      BY <1>1, <1>4, <3>1
    <3>2. CASE k # Len(s) + 1
      <4>1. k \in 1..Len(s) /\ k \in (j + 1)..Len(s)
        BY <1>1, <1>2, <2>1, <2>3, <3>2
      <4>2. QED BY <1>1, <2>1, <4>1
    <3>3. QED BY <3>1, <3>2
  <2>4. QED BY <2>2, <2>3 DEF LastOf
<1>5. QED BY <1>1, <1>3, <1>4 DEF t

(* How wtmp changes: not at all, or by one record of a session.            *)
LEMMA WtmpStep ==
  ASSUME TypeOK, ObjectInv, NEW p \in Procs, Step(p)
  PROVE  \/ wtmp' = wtmp
         \/ /\ login_shell[p] /\ UNCHANGED <<name, cmd_pid, login_shell>>
            /\ \E w \in BOOLEAN :
                 \/ LoginWtmp(p) /\ pc'[p] = "ready" /\ wtmp' = Append(wtmp, Logged(p, "USER", w))
                 \/ LogoutWtmp(p) /\ pc'[p] = "restore" /\ wtmp' = Append(wtmp, Logged(p, "DEAD", w))
<1>1. CASE LoginWtmp(p)
  BY <1>1 DEF LoginWtmp, PutWtmp, Logged, Goto, TypeOK, fields
<1>2. CASE LogoutWtmp(p)
  BY <1>2 DEF LogoutWtmp, PutWtmp, Logged, Goto, TypeOK, fields
<1>3. CASE ~LoginWtmp(p) /\ ~LogoutWtmp(p)
  BY <1>3 DEF Step, Create, Get, OpenPtyFails, OpenPty, OwnTty, OpenTty, GetReturns, CloseTty, Login,
     LoginUtmp, Delete, LogoutCheck, LogoutUtmp, Restore, Close, Die, system
<1>4. QED BY <1>1, <1>2, <1>3

(* The login of a login shell that was given to wtmp, not yet its logout.  *)
Given(p) ==
  cmd_pid[p] # Nil /\ login_shell[p] /\ pc[p] \in {"ready", "logout", "logoututmp", "logoutwtmp"}

(* The last record of such a session's line is its login, written or lost. *)
LoginLast ==
  \A p \in Procs :
    Given(p) => \E w \in BOOLEAN : LastOf(wtmp, name[p], Logged(p, "USER", w))

LEMMA GivenSession ==
  ASSUME TypeOK, ObjectInv, NEW p \in Procs, Given(p)
  PROVE  /\ name[p] \in Lines /\ name[p] = pty[p]
         /\ \A w \in BOOLEAN : Logged(p, "USER", w) \in Attempt
<1>1. pc[p] \in HasPty /\ name[p] = pty[p] /\ pty[p] # Nil
  BY DEF Given, ObjectInv, HasPty
<1>2. name[p] \in Lines /\ cmd_pid[p] \in Pids
  BY <1>1 DEF TypeOK, Given
<1>3. QED BY <1>1, <1>2 DEF Logged, Attempt

LEMMA LoginLastStep ==
  ASSUME TypeOK, ObjectInv, LoginLast, NEW p \in Procs, Step(p)
  PROVE  LoginLast'
<1>1. \A q \in Procs : q # p =>
         /\ pc'[q] = pc[q] /\ name'[q] = name[q] /\ cmd_pid'[q] = cmd_pid[q]
         /\ login_shell'[q] = login_shell[q]
  BY StepFrame
<1>2. ASSUME NEW q \in Procs, Given(q), name'[q] = name[q], cmd_pid'[q] = cmd_pid[q],
             wtmp' = wtmp \/ q # p
      PROVE  \E w \in BOOLEAN : LastOf(wtmp', name'[q], Logged(q, "USER", w)')
  <2>1. PICK w \in BOOLEAN : LastOf(wtmp, name[q], Logged(q, "USER", w))
    BY <1>2 DEF LoginLast
  <2>2. Logged(q, "USER", w)' = Logged(q, "USER", w)
    BY <1>2 DEF Logged
  <2>3. CASE wtmp' = wtmp
    BY <1>2, <2>1, <2>2, <2>3
  <2>4. CASE wtmp' # wtmp
    <3>1. PICK t \in {"USER", "DEAD"}, v \in BOOLEAN :
            wtmp' = Append(wtmp, Logged(p, t, v)) /\ pc[p] \in HasSession
      BY <2>4, WtmpStep DEF LoginWtmp, LogoutWtmp, HasSession
    <3>2. Logged(p, t, v) \in Attempt /\ name[p] # Nil
      BY <3>1, Recorded, SessionAssumption
    <3>3. /\ name[q] \in Lines /\ name[q] = pty[q] /\ name[p] = pty[p]
          /\ Logged(q, "USER", w) \in Attempt
      BY <1>2, <2>1, GivenSession DEF ObjectInv
    <3>4. q # p /\ name[q] # Nil
      BY <1>2, <2>4, <3>3, SessionAssumption
    <3>5. Logged(p, t, v).line # name[q]
      BY <3>3, <3>4 DEF ObjectInv, Logged
    <3>6. wtmp \in Seq(Attempt)
      BY DEF TypeOK
    <3>7. LastOf(wtmp', name[q], Logged(q, "USER", w))
      BY <2>1, <3>1, <3>2, <3>3, <3>5, <3>6, LogAppend
    <3>8. QED BY <1>2, <2>1, <2>2, <3>7
  <2>5. QED BY <2>3, <2>4
<1>3. ASSUME NEW q \in Procs, q # p, Given(q)'
      PROVE  \E w \in BOOLEAN : LastOf(wtmp', name'[q], Logged(q, "USER", w)')
  <2>1. Given(q) /\ name'[q] = name[q] /\ cmd_pid'[q] = cmd_pid[q]
    BY <1>1, <1>3 DEF Given
  <2>2. QED BY <1>2, <1>3, <2>1
<1>4. ASSUME Given(p)'
      PROVE  \E w \in BOOLEAN : LastOf(wtmp', name'[p], Logged(p, "USER", w)')
  <2> USE DEF TypeOK, Goto, fields, system, Given
  <2>1. CASE wtmp' # wtmp
    <3>1. PICK w \in BOOLEAN : /\ LoginWtmp(p) /\ wtmp' = Append(wtmp, Logged(p, "USER", w))
                               /\ UNCHANGED <<name, cmd_pid>>
      BY <1>4, <2>1, WtmpStep
    <3>2. Logged(p, "USER", w) \in Attempt
      BY <3>1, Recorded DEF LoginWtmp, HasSession
    <3>3. LastOf(wtmp', Logged(p, "USER", w).line, Logged(p, "USER", w))
      BY <3>1, <3>2, LogAppend
    <3>4. Logged(p, "USER", w).line = name[p] /\ Logged(p, "USER", w)' = Logged(p, "USER", w)
      BY <3>1 DEF Logged
    <3>5. QED BY <3>1, <3>3, <3>4
  <2>2. CASE wtmp' = wtmp
    <3>1. Given(p) /\ name'[p] = name[p] /\ cmd_pid'[p] = cmd_pid[p]
      <4>1. CASE OpenPty(p) \/ OwnTty(p) \/ OpenTty(p) \/ GetReturns(p) \/ Create(p) \/ Get(p) \/ OpenPtyFails(p)
        BY <1>4, <4>1 DEF OpenPty, OwnTty, OpenTty, GetReturns, Create, Get, OpenPtyFails, ObjectInv, Before, NoPty
      <4>2. CASE CloseTty(p) \/ LogoutCheck(p) \/ LogoutUtmp(p)
        BY <1>4, <4>2 DEF CloseTty, LogoutCheck, LogoutUtmp
      <4>3. CASE LoginWtmp(p)
        <5>1. PICK w \in BOOLEAN : wtmp' = Append(wtmp, Logged(p, "USER", w))
          BY <1>4, <4>3 DEF LoginWtmp, PutWtmp, Logged
        <5>2. Logged(p, "USER", w) \in Attempt
          BY <4>3, Recorded DEF LoginWtmp, HasSession
        <5>3. Len(wtmp') = Len(wtmp) + 1 /\ Len(wtmp) \in Nat
          BY <5>1, <5>2, LogAppend
        <5>4. QED BY <2>2, <5>3
      <4>4. CASE Delete(p)
        BY <1>4, <4>4 DEF Delete, ObjectInv, Before, NoPty
      <4>5. CASE Login(p) \/ LoginUtmp(p) \/ LogoutWtmp(p) \/ Restore(p) \/ Close(p) \/ Die(p)
        BY <1>4, <4>5 DEF Login, LoginUtmp, LogoutWtmp, Restore, Close, Die
      <4>6. QED BY <4>1, <4>2, <4>3, <4>4, <4>5 DEF Step
    <3>2. QED BY <1>2, <2>2, <3>1
  <2>3. QED BY <2>1, <2>2
<1>5. QED BY <1>3, <1>4 DEF LoginLast

(* Between the i-th record and a login of the same session no other of     *)
(* that line was even tried.                                               *)
PairedIn(s, i) ==
  \E j \in 1..(i - 1) :
    /\ s[j].type = "USER" /\ s[j].line = s[i].line /\ s[j].pid = s[i].pid
    /\ \A k \in (j + 1)..(i - 1) : s[k].line # s[i].line

AllPaired == \A i \in DOMAIN wtmp : wtmp[i].type = "DEAD" => PairedIn(wtmp, i)

LEMMA PairedStep ==
  ASSUME TypeOK, ObjectInv, LoginLast, AllPaired, NEW p \in Procs, Step(p)
  PROVE  AllPaired'
<1>1. CASE wtmp' = wtmp
  BY <1>1 DEF AllPaired, PairedIn
<1>2. CASE wtmp' # wtmp
  <2>1. PICK t \in {"USER", "DEAD"}, v \in BOOLEAN :
          /\ wtmp' = Append(wtmp, Logged(p, t, v)) /\ pc[p] \in HasSession
          /\ login_shell[p] /\ (t = "DEAD" => pc[p] = "logoutwtmp")
    BY <1>2, WtmpStep DEF LoginWtmp, LogoutWtmp, HasSession
  <2> DEFINE e == Logged(p, t, v)
  <2>2. e \in Attempt /\ wtmp \in Seq(Attempt)
    BY <2>1, Recorded DEF TypeOK
  <2>3. e.type = t /\ e.line = name[p] /\ e.pid = cmd_pid[p]
    BY DEF Logged
  <2> HIDE DEF e
  <2>4. /\ DOMAIN wtmp = 1..Len(wtmp) /\ DOMAIN wtmp' = 1..(Len(wtmp) + 1) /\ Len(wtmp) \in Nat
        /\ wtmp'[Len(wtmp) + 1] = e /\ \A i \in 1..Len(wtmp) : wtmp'[i] = wtmp[i]
    BY <2>1, <2>2, LogAppend DEF e
  <2>5. ASSUME NEW i \in 1..Len(wtmp), wtmp'[i].type = "DEAD"
        PROVE  PairedIn(wtmp', i)
    <3>1. PairedIn(wtmp, i) /\ wtmp'[i] = wtmp[i]
      BY <2>4, <2>5 DEF AllPaired
    <3>2. \A k \in 1..(i - 1) : wtmp'[k] = wtmp[k]
      BY <2>4
    <3>3. PICK j \in 1..(i - 1) :
            /\ wtmp[j].type = "USER" /\ wtmp[j].line = wtmp[i].line /\ wtmp[j].pid = wtmp[i].pid
            /\ \A k \in (j + 1)..(i - 1) : wtmp[k].line # wtmp[i].line
      BY <3>1 DEF PairedIn
    <3>4. \A k \in (j + 1)..(i - 1) : k \in 1..(i - 1)
      BY <3>3
    <3>5. QED BY <3>1, <3>2, <3>3, <3>4 DEF PairedIn
  <2>6. ASSUME t = "DEAD"
        PROVE  PairedIn(wtmp', Len(wtmp) + 1)
    <3>1. Given(p)
      BY <2>1, <2>6 DEF Given, ObjectInv, HasSession
    <3>2. PICK w \in BOOLEAN : LastOf(wtmp, name[p], Logged(p, "USER", w))
      BY <3>1 DEF LoginLast
    <3>3. PICK j \in DOMAIN wtmp : /\ wtmp[j] = Logged(p, "USER", w)
                                   /\ \A k \in (j + 1)..Len(wtmp) : wtmp[k].line # name[p]
      BY <3>2 DEF LastOf
    <3>4. wtmp[j].type = "USER" /\ wtmp[j].line = name[p] /\ wtmp[j].pid = cmd_pid[p]
      BY <3>3 DEF Logged
    <3>5. /\ j \in 1..(Len(wtmp) + 1 - 1) /\ wtmp'[j].type = "USER"
          /\ wtmp'[j].line = e.line /\ wtmp'[j].pid = e.pid
      BY <2>3, <2>4, <3>3, <3>4
    <3>6. \A k \in (j + 1)..(Len(wtmp) + 1 - 1) : wtmp'[k].line # e.line
      <4>1. \A k \in (j + 1)..(Len(wtmp) + 1 - 1) : k \in 1..Len(wtmp) /\ k \in (j + 1)..Len(wtmp)
        BY <2>4, <3>3
      <4>2. QED BY <2>3, <2>4, <3>3, <4>1
    <3>7. QED BY <2>4, <3>5, <3>6 DEF PairedIn
  <2>7. ASSUME NEW i \in DOMAIN wtmp', wtmp'[i].type = "DEAD"
        PROVE  PairedIn(wtmp', i)
    <3>1. CASE i = Len(wtmp) + 1
      BY <2>3, <2>4, <2>6, <2>7, <3>1
    <3>2. CASE i # Len(wtmp) + 1
      <4>1. i \in 1..Len(wtmp)
        BY <2>4, <2>7, <3>2
      <4>2. QED BY <2>5, <2>7, <4>1
    <3>3. QED BY <3>1, <3>2
  <2>8. QED BY <2>7 DEF AllPaired, PairedIn
<1>3. QED BY <1>1, <1>2

LEMMA Pairs == Spec => [](LoginLast /\ AllPaired)
<1>1. Init => LoginLast /\ AllPaired
  BY DEF Init, LoginLast, Given, AllPaired
<1>2. TypeOK /\ ObjectInv /\ LoginLast /\ AllPaired /\ [Next]_vars => LoginLast' /\ AllPaired'
  <2> SUFFICES ASSUME TypeOK, ObjectInv, LoginLast, AllPaired, [Next]_vars
               PROVE  LoginLast' /\ AllPaired'
    OBVIOUS
  <2>1. CASE UNCHANGED vars
    <3>1. UNCHANGED <<pc, name, cmd_pid, login_shell, wtmp>>
      BY <2>1 DEF vars, fields, system
    <3>2. LoginLast'
      BY <3>1 DEF LoginLast, Given, Logged
    <3>3. AllPaired'
      BY <3>1 DEF AllPaired, PairedIn
    <3>4. QED BY <3>2, <3>3
  <2>2. ASSUME NEW p \in Procs, Step(p)
        PROVE  LoginLast' /\ AllPaired'
    BY <2>2, LoginLastStep, PairedStep
  <2>3. QED BY <2>1, <2>2 DEF Next
<1>3. QED BY <1>1, <1>2, Sound, PTL DEF Spec

(* Whichever records updwtmp fails to write, no other record of its line   *)
(* stands in wtmp between a logout and the login of the same session       *)
(* (log_session, logging.C:146-158, 220-246, 320-333).                     *)
THEOREM WtmpPairs == Spec => []WtmpGrouped
<1>1. AllPaired => WtmpGrouped
  BY DEF AllPaired, PairedIn, WtmpGrouped
<1>2. QED BY <1>1, Pairs, PTL

-----------------------------------------------------------------------------
(* The refinement mapping, process by process.                             *)
PendingOf(p) ==
  IF pc[p] \in {"get", "own", "tty"} THEN <<"get">>
  ELSE IF pc[p] = "login"            THEN <<"login">>
  ELSE IF Destroying(p)              THEN <<"destroy">>
  ELSE <<>>

HaveOf(p) == IF pc[p] = "got" \/ Ready(p) \/ Destroying(p) THEN name[p] ELSE Nil
ToldOf(p) == IF Ready(p) THEN name[p] ELSE Nil

(* A step of p changes the view of p and of nobody else.                   *)
LEMMA BarFrame ==
  ASSUME TypeOK, NEW p \in Procs, Step(p)
  PROVE  /\ pendingBar' = [pendingBar EXCEPT ![p] = PendingOf(p)']
         /\ haveBar' = [haveBar EXCEPT ![p] = HaveOf(p)']
         /\ toldBar' = [toldBar EXCEPT ![p] = ToldOf(p)']
         /\ pendingBar[p] = PendingOf(p) /\ haveBar[p] = HaveOf(p) /\ toldBar[p] = ToldOf(p)
         /\ pendingBar = [pendingBar EXCEPT ![p] = PendingOf(p)]
         /\ haveBar = [haveBar EXCEPT ![p] = HaveOf(p)]
         /\ toldBar = [toldBar EXCEPT ![p] = ToldOf(p)]
<1>1. ASSUME NEW q \in Procs, q # p
      PROVE  PendingOf(q)' = PendingOf(q) /\ HaveOf(q)' = HaveOf(q) /\ ToldOf(q)' = ToldOf(q)
  BY <1>1, StepFrame DEF PendingOf, HaveOf, ToldOf, Destroying, Ready
<1>2. /\ pendingBar = [q \in Procs |-> PendingOf(q)]
      /\ haveBar = [q \in Procs |-> HaveOf(q)]
      /\ toldBar = [q \in Procs |-> ToldOf(q)]
  BY Zenon DEF pendingBar, haveBar, toldBar, PendingOf, HaveOf, ToldOf
<1>3. /\ pendingBar' = [q \in Procs |-> PendingOf(q)']
      /\ haveBar' = [q \in Procs |-> HaveOf(q)']
      /\ toldBar' = [q \in Procs |-> ToldOf(q)']
  BY Zenon DEF pendingBar, haveBar, toldBar, PendingOf, HaveOf, ToldOf
<1>4. QED BY <1>1, <1>2, <1>3

(* The one-element queues.                                                 *)
LEMMA Requests1 ==
  \A r : /\ Append(<<>>, r) = <<r>> /\ Head(<<r>>) = r /\ Tail(<<r>>) = <<>> /\ <<r>> # <<>>
  OBVIOUS

(* Logging in and out changes the session of one line.                     *)
LEMMA SessionsBar ==
  ASSUME KeysApart, TypeOK, ObjectInv, NEW p \in Procs, Step(p)
  PROVE  /\ utmp' = utmp => sessionsBar' = sessionsBar
         /\ LoginUtmp(p) => sessionsBar' = sessionsBar \cup ({name[p]} \cap placesBar)
         /\ LogoutUtmp(p) /\ HasPlace(name[p]) => sessionsBar' = sessionsBar \ {name[p]}
<1>1. utmp' = utmp => sessionsBar' = sessionsBar
  BY DEF sessionsBar
<1>2. ASSUME LoginUtmp(p), HasPlace(name[p]) PROVE sessionsBar' = sessionsBar \cup {name[p]}
  <2>1. name[p] \in Lines /\ Record(p, "USER") # Nil
    BY <1>2, Recorded DEF LoginUtmp, HasSession
  <2>2. utmp' = [utmp EXCEPT ![Key[name[p]]] = Record(p, "USER")]
    BY <1>2 DEF LoginUtmp, PutLine
  <2>3. Record(p, "USER").type = "USER" /\ Record(p, "USER").line = name[p]
    BY DEF Record
  <2>4. \A l \in Lines : Key[l] \in Keys /\ (l # name[p] => Key[l] # Key[name[p]])
    BY <2>1, SessionAssumption DEF KeysApart
  <2> HIDE DEF Record
  <2>5. \A l \in Lines : l # name[p] => utmp'[Key[l]] = utmp[Key[l]]
    BY <2>2, <2>4 DEF TypeOK
  <2>6. utmp'[Key[name[p]]] = Record(p, "USER")
    BY <2>1, <2>2, <2>4 DEF TypeOK
  <2>7. QED BY <2>1, <2>3, <2>5, <2>6 DEF sessionsBar
<1>3. ASSUME LogoutUtmp(p), HasPlace(name[p]) PROVE sessionsBar' = sessionsBar \ {name[p]}
  <2>1. name[p] \in Lines
    BY <1>3, Recorded DEF LogoutUtmp, HasSession
  <2>2. utmp' = [utmp EXCEPT ![Key[name[p]]] = Record(p, "DEAD")]
    BY <1>3 DEF LogoutUtmp, PutLine
  <2>3. Record(p, "DEAD").type = "DEAD"
    BY DEF Record
  <2>4. \A l \in Lines : Key[l] \in Keys /\ (l # name[p] => Key[l] # Key[name[p]])
    BY <2>1, SessionAssumption DEF KeysApart
  <2>5. \A l \in Lines : l # name[p] => utmp'[Key[l]] = utmp[Key[l]]
    BY <2>2, <2>4 DEF TypeOK
  <2>6. utmp'[Key[name[p]]] = Record(p, "DEAD")
    BY <2>1, <2>2, <2>4 DEF TypeOK
  <2>7. QED BY <2>1, <2>3, <2>5, <2>6 DEF sessionsBar
<1>4. ASSUME LoginUtmp(p) PROVE sessionsBar' = sessionsBar \cup ({name[p]} \cap placesBar)
  <2>1. CASE HasPlace(name[p])
    <3>1. name[p] \in placesBar
      BY <1>4, <2>1, Recorded DEF placesBar, LoginUtmp, HasSession
    <3>2. QED BY <1>2, <1>4, <2>1, <3>1
  <2>2. CASE ~HasPlace(name[p])
    <3>1. name[p] \notin placesBar /\ utmp' = utmp
      BY <1>4, <2>2 DEF placesBar, LoginUtmp, PutLine
    <3>2. QED BY <1>1, <3>1
  <2>3. QED BY <2>1, <2>2
<1>5. QED BY <1>1, <1>3, <1>4

(* What is not in utmp for want of a place is no session.                  *)
LEMMA NoPlaceNoSession ==
  ASSUME KeysRight, SessionAssumption, NEW l, ~HasPlace(l)
  PROVE  l \notin sessionsBar
  BY SessionAssumption DEF KeysRight, sessionsBar

(* Nothing of an object that is put away is left in utmp: its line is its  *)
(* own, and a record of the line would be that of its ended session.       *)
LEMMA NoSessionLeft ==
  ASSUME ObjectInv, SessionEnds, ~build.mayDie, SessionAssumption,
         NEW p \in Procs, pc[p] = "restore"
  PROVE  name[p] \notin sessionsBar
<1> SUFFICES ASSUME name[p] \in sessionsBar PROVE FALSE
    OBVIOUS
<1>1. /\ name[p] \in Lines /\ Key[name[p]] \in Keys /\ utmp[Key[name[p]]] # Nil
      /\ utmp[Key[name[p]]].type = "USER" /\ utmp[Key[name[p]]].line = name[p]
  BY SessionAssumption DEF sessionsBar
<1>2. PICK q \in Procs : name[q] = name[p] /\ pc[q] # "restore"
  BY <1>1 DEF SessionEnds
<1>3. name[p] # Nil
  BY <1>1, SessionAssumption
<1>4. QED BY <1>2, <1>3 DEF ObjectInv

(* The step of p as the service sees it, by what it does to the view of p. *)
LEMMA Seen ==
  ASSUME TypeOK, NEW p \in Procs, Step(p), UNCHANGED build
  PROVE  LET x == PendingOf(p) y == PendingOf(p)'
             h == HaveOf(p)    i == HaveOf(p)'
             t == ToldOf(p)    u == ToldOf(p)'
         IN  /\ x = y /\ h = i /\ t = u /\ UNCHANGED sessionsBar => UNCHANGED Service!serviceVars
             /\ \A r \in {"get", "login", "destroy"} :
                  /\ x = <<>> /\ y = <<r>> /\ h = i
                  /\ u = IF r = "login" THEN t ELSE Nil
                  /\ UNCHANGED sessionsBar
                  => Service!Next
             /\ /\ x = <<"get">> /\ y = <<>> /\ h = Nil /\ t = u /\ UNCHANGED sessionsBar
                /\ i = Nil \/ (i \in Lines /\ \A q \in Procs : haveBar[q] # i)
                => Service!Next
             /\ /\ x = <<"login">> /\ y = <<>> /\ h = i /\ t = u
                /\ sessionsBar' = sessionsBar \cup ({h} \cap placesBar)
                => Service!Next
             /\ /\ x = <<"destroy">> /\ y = <<>> /\ i = Nil /\ t = u
                /\ sessionsBar' = sessionsBar \ {h}
                => Service!Next
             /\ x = <<>> /\ y = x /\ h = i /\ u = h /\ UNCHANGED sessionsBar => Service!Next
<1> DEFINE x == PendingOf(p)
           y == PendingOf(p)'
           h == HaveOf(p)
           i == HaveOf(p)'
           t == ToldOf(p)
           u == ToldOf(p)'
           n == Service!Next
<1>1. /\ pendingBar' = [pendingBar EXCEPT ![p] = y]
      /\ haveBar' = [haveBar EXCEPT ![p] = i]
      /\ toldBar' = [toldBar EXCEPT ![p] = u]
      /\ pendingBar[p] = x /\ haveBar[p] = h /\ toldBar[p] = t
      /\ pendingBar = [pendingBar EXCEPT ![p] = x]
      /\ haveBar = [haveBar EXCEPT ![p] = h]
      /\ toldBar = [toldBar EXCEPT ![p] = t]
  BY BarFrame
<1>0. UNCHANGED placesBar
  BY DEF placesBar, HasPlace
<1> HIDE DEF x, y, h, i, t, u
<1>2. x = y /\ h = i /\ t = u /\ UNCHANGED sessionsBar => UNCHANGED Service!serviceVars
  BY <1>0, <1>1 DEF Service!serviceVars, Service!workVars
<1>3. ASSUME NEW r \in {"get", "login", "destroy"}, x = <<>>, y = <<r>>, h = i,
             u = IF r = "login" THEN t ELSE Nil, UNCHANGED sessionsBar
      PROVE  n
  <2>1. Append(pendingBar[p], r) = y
    BY <1>1, <1>3, Requests1
  <2>2. toldBar' = IF r = "login" THEN toldBar ELSE [toldBar EXCEPT ![p] = Nil]
    BY <1>1, <1>3
  <2>3. Service!Request(p, r)
    BY <1>1, <1>3, <2>1, <2>2 DEF Service!Request
  <2>4. QED BY <1>0, <1>3, <2>3 DEF Service!Next, Service!Requests
<1>4. ASSUME x = <<"get">>, y = <<>>, h = Nil, t = u, UNCHANGED sessionsBar,
             i = Nil \/ (i \in Lines /\ \A q \in Procs : haveBar[q] # i)
      PROVE  n
  <2>1. Service!First(p, "get")
    BY <1>1, <1>4, Requests1 DEF Service!First
  <2>2. UNCHANGED haveBar \/ \E l \in Lines \ {haveBar[d] : d \in Procs} :
          haveBar' = [haveBar EXCEPT ![p] = l]
    <3>1. CASE i = Nil
      BY <1>1, <1>4, <3>1
    <3>2. CASE i \in Lines /\ \A q \in Procs : haveBar[q] # i
      <4>1. i \in Lines \ {haveBar[d] : d \in Procs}
        BY <3>2
      <4>2. QED BY <1>1, <4>1
    <3>3. QED BY <1>4, <3>1, <3>2
  <2>3. QED BY <1>0, <1>1, <1>4, <2>1, <2>2 DEF Service!Next, Service!Perform, Service!PerformGet
<1>5. ASSUME x = <<"login">>, y = <<>>, h = i, t = u,
             sessionsBar' = sessionsBar \cup ({h} \cap placesBar)
      PROVE  n
  <2>1. Service!First(p, "login")
    BY <1>1, <1>5, Requests1 DEF Service!First
  <2>2. QED BY <1>0, <1>1, <1>5, <2>1 DEF Service!Next, Service!Perform, Service!PerformLogin
<1>6. ASSUME x = <<"destroy">>, y = <<>>, i = Nil, t = u, sessionsBar' = sessionsBar \ {h}
      PROVE  n
  <2>1. Service!First(p, "destroy")
    BY <1>1, <1>6, Requests1 DEF Service!First
  <2>2. QED
    BY <1>0, <1>1, <1>6, <2>1 DEF Service!Next, Service!Perform, Service!PerformDestroy, Service!Release
<1>7. ASSUME x = <<>>, y = x, h = i, u = h, UNCHANGED sessionsBar
      PROVE  n
  <2>1. Service!Tell(p)
    BY <1>1, <1>7 DEF Service!Tell
  <2>2. QED BY <1>0, <2>1 DEF Service!Next
<1>8. QED BY <1>2, <1>3, <1>4, <1>5, <1>6, <1>7 DEF x, y, h, i, t, u

(* Each step of a process is one of the service, or none.                  *)
LEMMA ServiceStep ==
  ASSUME KeysApart, TypeOK, ObjectInv, SessionLasts, SessionEnds, KeysRight, ~build.mayDie,
         NEW p \in Procs, Step(p), UNCHANGED build
  PROVE  Service!Next \/ UNCHANGED Service!serviceVars
<1> DEFINE Same == /\ PendingOf(p)' = PendingOf(p) /\ HaveOf(p)' = HaveOf(p)
                   /\ ToldOf(p)' = ToldOf(p)
<1>1. UNCHANGED utmp => UNCHANGED sessionsBar
  BY DEF sessionsBar
<1>2. Same /\ UNCHANGED utmp => UNCHANGED Service!serviceVars
  BY <1>1, Seen
<1>3. ASSUME NEW r \in {"get", "login", "destroy"}, PendingOf(p) = <<>>, PendingOf(p)' = <<r>>,
             HaveOf(p)' = HaveOf(p), ToldOf(p)' = IF r = "login" THEN ToldOf(p) ELSE Nil,
             UNCHANGED utmp
      PROVE  Service!Next
  BY <1>1, <1>3, Seen
<1>4. ASSUME PendingOf(p) = <<"get">>, PendingOf(p)' = <<>>, HaveOf(p) = Nil,
             ToldOf(p)' = ToldOf(p), UNCHANGED utmp,
             \/ HaveOf(p)' = Nil
             \/ HaveOf(p)' \in Lines /\ \A q \in Procs : haveBar[q] # HaveOf(p)'
      PROVE  Service!Next
  BY <1>1, <1>4, Seen
<1> USE DEF Goto, fields, system, TypeOK, PendingOf, HaveOf, ToldOf, Ready, Destroying
<1>5. \A q \in Procs : haveBar[q] = Nil \/ (haveBar[q] = pty[q] /\ pty[q] # Nil)
  <2>1. \A q \in Procs : haveBar[q] = HaveOf(q)
    BY DEF haveBar
  <2>2. QED BY <2>1 DEF ObjectInv
<1>6. CASE Create(p) \/ LogoutWtmp(p)
  <2>1. Same /\ UNCHANGED utmp
    BY <1>6 DEF Create, LogoutWtmp, ObjectInv, HasSession
  <2>2. QED BY <1>2, <2>1
<1>7. CASE Get(p)
  BY <1>3, <1>7 DEF Get
<1>8. CASE OpenPtyFails(p)
  BY <1>4, <1>8 DEF OpenPtyFails
<1>9. CASE OpenPty(p)
  <2>1. PICK l \in Lines : /\ Free(l) /\ name' = [name EXCEPT ![p] = l]
                           /\ pc[p] = "get" /\ pc'[p] \in {"got", "own", "tty"} /\ UNCHANGED utmp
    BY <1>9 DEF OpenPty
  <2>2. CASE pc'[p] = "got"
    <3>1. \A q \in Procs : haveBar[q] # l
      BY <1>5, <2>1, SessionAssumption DEF Free
    <3>2. HaveOf(p)' = l
      BY <2>1, <2>2
    <3>3. QED BY <1>4, <2>1, <2>2, <3>1, <3>2
  <2>3. CASE pc'[p] # "got"
    <3>1. Same
      BY <2>1, <2>3
    <3>2. QED BY <1>2, <2>1, <3>1
  <2>4. QED BY <2>2, <2>3
<1>10. CASE OwnTty(p) \/ CloseTty(p) \/ LoginWtmp(p)
  <2>1. Same /\ UNCHANGED utmp
    BY <1>10 DEF OwnTty, CloseTty, LoginWtmp
  <2>2. QED BY <1>2, <2>1
<1>11. CASE OpenTty(p)
  <2>1. pc[p] = "tty" /\ pc'[p] \in {"got", "undo"} /\ UNCHANGED <<name, utmp>>
    BY <1>11 DEF OpenTty
  <2>2. name[p] = pty[p] /\ pty[p] \in Lines
    BY <2>1 DEF ObjectInv, HasPty
  <2>3. ASSUME pc'[p] = "got", NEW q \in Procs PROVE haveBar[q] # name[p]
    <3>1. CASE q = p
      BY <2>1, <2>2, <3>1, SessionAssumption DEF haveBar
    <3>2. CASE q # p
      BY <1>5, <2>2, <3>2, SessionAssumption DEF ObjectInv
    <3>3. QED BY <3>1, <3>2
  <2>4. QED BY <1>4, <2>1, <2>2, <2>3
<1>12. CASE GetReturns(p)
  <2>1. /\ PendingOf(p) = <<>> /\ PendingOf(p)' = <<>>
        /\ HaveOf(p)' = HaveOf(p) /\ ToldOf(p)' = HaveOf(p) /\ UNCHANGED utmp
    BY <1>12 DEF GetReturns
  <2>2. QED BY <1>1, <2>1, Seen
<1>13. CASE Login(p)
  BY <1>3, <1>13 DEF Login
<1>14. CASE LoginUtmp(p)
  <2>1. /\ PendingOf(p) = <<"login">> /\ PendingOf(p)' = <<>> /\ HaveOf(p) = name[p]
        /\ HaveOf(p)' = HaveOf(p) /\ ToldOf(p)' = ToldOf(p)
    BY <1>14 DEF LoginUtmp
  <2>2. sessionsBar' = sessionsBar \cup ({name[p]} \cap placesBar)
    BY <1>14, SessionsBar
  <2>3. QED BY <2>1, <2>2, Seen
<1>15. CASE Delete(p)
  <2>1. /\ pc'[p] = IF cmd_pid[p] # Nil THEN "logout" ELSE "restore"
        /\ UNCHANGED <<name, cmd_pid, utmp>> /\ pc[p] \in {"new", "ready"}
    BY <1>15 DEF Delete
  <2>2. pc[p] = "new" => name[p] = Nil
    BY DEF ObjectInv, NoPty
  <2>3. Destroying(p)' /\ ~Destroying(p)
    BY <2>1
  <2>4. /\ PendingOf(p) = <<>> /\ PendingOf(p)' = <<"destroy">>
        /\ HaveOf(p)' = HaveOf(p) /\ ToldOf(p)' = Nil
    BY <2>1, <2>2, <2>3
  <2>5. QED BY <1>3, <2>1, <2>4
<1>16. CASE LogoutCheck(p)
  <2>1. /\ pc[p] = "logout" /\ cmd_pid[p] # Nil /\ UNCHANGED <<name, utmp>>
        /\ name[p] \in Lines
    BY <1>16, Recorded DEF LogoutCheck, ObjectInv, HasSession
  <2>2. CASE HasPlace(name[p])
    <3>1. utmp[Key[name[p]]] = Record(p, "USER") /\ Record(p, "USER") # Nil
      BY <2>1, <2>2, Recorded DEF SessionLasts, InSession, HasSession
    <3>2. pc'[p] = "logoututmp"
      BY <1>16, <2>1, <2>2, <3>1 DEF LogoutCheck, Record
    <3>3. Same
      BY <2>1, <3>2
    <3>4. QED BY <1>2, <2>1, <3>3
  <2>3. CASE ~HasPlace(name[p])
    <3>1. pc'[p] = "logoutwtmp"
      BY <1>16, <2>1, <2>3 DEF LogoutCheck, HasPlace
    <3>2. /\ PendingOf(p) = <<"destroy">> /\ PendingOf(p)' = <<>> /\ HaveOf(p) = name[p]
          /\ HaveOf(p)' = Nil /\ ToldOf(p)' = ToldOf(p)
      BY <2>1, <3>1
    <3>3. sessionsBar' = sessionsBar \ {name[p]}
      BY <1>1, <2>1, <2>3, NoPlaceNoSession, SessionAssumption
    <3>4. QED BY <3>2, <3>3, Seen
  <2>4. QED BY <2>2, <2>3
<1>17. CASE LogoutUtmp(p)
  <2>1. /\ PendingOf(p) = <<"destroy">> /\ PendingOf(p)' = <<>> /\ HaveOf(p) = name[p]
        /\ HaveOf(p)' = Nil /\ ToldOf(p)' = ToldOf(p)
    BY <1>17 DEF LogoutUtmp, ObjectInv, HasSession
  <2>2. sessionsBar' = sessionsBar \ {name[p]}
    <3>1. CASE HasPlace(name[p])
      BY <1>17, <3>1, SessionsBar
    <3>2. CASE ~HasPlace(name[p])
      <4>1. utmp' = utmp
        BY <1>17, <3>2 DEF LogoutUtmp, PutLine
      <4>2. QED BY <1>1, <3>2, <4>1, NoPlaceNoSession, SessionAssumption
    <3>3. QED BY <3>1, <3>2
  <2>3. QED BY <2>1, <2>2, Seen
<1>18. CASE Restore(p) \/ Close(p)
  <2>1. UNCHANGED utmp /\ pc[p] \in {"restore", "undo", "close", "undoclose"}
        /\ pc'[p] \in {"close", "undoclose", "none", "new"}
    BY <1>18 DEF Restore, Close
  <2>2. CASE pc[p] # "restore" \/ cmd_pid[p] # Nil
    BY <1>2, <2>1, <2>2
  <2>3. CASE pc[p] = "restore" /\ cmd_pid[p] = Nil
    <3>1. /\ PendingOf(p) = <<"destroy">> /\ PendingOf(p)' = <<>> /\ HaveOf(p) = name[p]
          /\ HaveOf(p)' = Nil /\ ToldOf(p)' = ToldOf(p)
      BY <2>1, <2>3
    <3>2. sessionsBar' = sessionsBar \ {name[p]}
      BY <1>1, <2>1, <2>3, NoSessionLeft, SessionAssumption
    <3>3. QED BY <3>1, <3>2, Seen
  <2>4. QED BY <2>2, <2>3
<1>19. CASE Die(p)
  BY <1>19 DEF Die
<1>20. QED
  <2> HIDE DEF Goto, fields, system, TypeOK, PendingOf, HaveOf, ToldOf, Ready, Destroying
  <2>1. QED
    BY <1>6, <1>7, <1>8, <1>9, <1>10, <1>11, <1>12, <1>13, <1>14, <1>15, <1>16, <1>17, <1>18, <1>19
    DEF Step

(* Without a helper, and as long as no process is killed, get, login and   *)
(* delete of any number of processes are calls of the service, each at one *)
(* instant: no two objects get one line, and a session begins with the     *)
(* record of log_session (true) and ends with that of log_session (false)  *)
(* (ptytty_unix, ptytty.C:289-420; logging.C:126, 296), although nothing   *)
(* locks the databases.  A line without a place in utmp has its calls      *)
(* performed, but no session.                                              *)
THEOREM SessionImplementsService == ASSUME KeysApart PROVE Spec => ImplementsService
<1>1. Init => Service!Init
  <2> SUFFICES ASSUME Init PROVE Service!Init
    OBVIOUS
  <2>1. \A p \in Procs : PendingOf(p) = <<>> /\ HaveOf(p) = Nil /\ ToldOf(p) = Nil
    BY DEF Init, PendingOf, HaveOf, ToldOf, Ready, Destroying
  <2>2. /\ pendingBar = [q \in Procs |-> PendingOf(q)]
        /\ haveBar = [q \in Procs |-> HaveOf(q)]
        /\ toldBar = [q \in Procs |-> ToldOf(q)]
    BY Zenon DEF pendingBar, haveBar, toldBar, PendingOf, HaveOf, ToldOf
  <2>3. sessionsBar = {}
    BY SessionAssumption DEF Init, sessionsBar
  <2>4. placesBar \subseteq Lines
    BY DEF placesBar
  <2>5. QED BY <2>1, <2>2, <2>3, <2>4 DEF Service!Init
<1>2. TypeOK /\ ObjectInv /\ EndsInv /\ [Next]_vars
        => [build.mayDie \/ Service!Next]_(Service!serviceVars)
  <2> SUFFICES ASSUME TypeOK, ObjectInv, EndsInv, [Next]_vars, ~build.mayDie
               PROVE  Service!Next \/ UNCHANGED Service!serviceVars
    OBVIOUS
  <2>1. CASE UNCHANGED vars
    BY <2>1 DEF vars, fields, system, Service!serviceVars, Service!workVars, pendingBar, haveBar, toldBar,
       sessionsBar, placesBar, HasPlace, Ready, Destroying
  <2>2. CASE Next
    BY <2>2, ServiceStep DEF Next, EndsInv
  <2>3. QED BY <2>1, <2>2
<1>3. QED
  BY <1>1, <1>2, Sound, Ends, PTL DEF Spec, ImplementsService

=============================================================================
