----------------------------- MODULE PtySession -----------------------------
(***************************************************************************)
(* A pseudo terminal without helper: ptytty_unix (src/src/ptytty.C) and    *)
(* its entries in the session databases (src/src/logging.C).               *)
(*                                                                         *)
(* Each process works on one object.  Nothing but the kernel's table of    *)
(* lines and the two databases is shared, and nothing locks them for a     *)
(* whole call: every system call that reads or writes one of them is a     *)
(* step of its own.  An application calls get on an object that has no pty *)
(* (its own or a failed get's), login only afterwards, and deletes it once.*)
(***************************************************************************)
EXTENDS Naturals, Sequences, FiniteSets

CONSTANTS
  Procs,     \* processes that use the library
  Lines,     \* pseudo terminals of the kernel
  Pids,      \* processes that a caller of login names as its session
  Nil,       \* no line, descriptor, name or pid
  Keys,      \* what tells utmp records apart
  Key,       \* a line's key: fill_id of its name, or its ttyslot ()
  Builds,    \* the builds and circumstances that are considered
  MaxLog     \* bound on wtmp: there is no login when it has as many records

(* havePid: HAVE_UTMP_PID or utmpx, whose records have an id, a pid and a  *)
(* type; slots: the lines for which ttyslot () finds a slot, the place of  *)
(* a record without these; getPty: the get_pty of each process's build;    *)
(* mayDie: processes may be killed.                                        *)
Build == [havePid : BOOLEAN, slots : SUBSET Lines, getPty : [Procs -> {"unix98", "openpty", "bsd"}],
          mayDie : BOOLEAN]

Entry   == [type : {"USER", "DEAD"}, line : Lines, pid : Pids]
Attempt == [type : {"USER", "DEAD"}, line : Lines, pid : Pids, written : BOOLEAN]

ASSUME SessionAssumption ==
  /\ Key \in [Lines -> Keys]
  /\ Nil \notin Lines \cup Pids \cup Entry
  /\ Builds \subseteq Build
  /\ MaxLog \in Nat

VARIABLES
  build,
  pc,           \* where each process is in its call
  pty,          \* the line whose master is open
  tty,          \* the line whose slave is open
  name,         \* the line that name is the path of
  cmd_pid,
  login_shell,
  access,       \* "user": open to the user of the line; "root": restored
  utmp,         \* by key, the entry of a line, or Nil
  wtmp          \* every record given to updwtmp, in order, and whether the file got it

fields == <<pty, tty, name, cmd_pid, login_shell>>
system == <<access, utmp, wtmp>>
vars   == <<build, pc, fields, system>>

Init ==
  /\ build \in Builds
  /\ pc          = [p \in Procs |-> "none"]
  /\ pty         = [p \in Procs |-> Nil]
  /\ tty         = [p \in Procs |-> Nil]
  /\ name        = [p \in Procs |-> Nil]
  /\ cmd_pid     = [p \in Procs |-> Nil]
  /\ login_shell = [p \in Procs |-> FALSE]
  /\ access      = [l \in Lines |-> "root"]
  /\ utmp        = [k \in Keys |-> Nil]
  /\ wtmp        = <<>>

Goto(p, to) == pc' = [pc EXCEPT ![p] = to]

(* The kernel opens a master for one process at a time.                    *)
Free(l) == \A p \in Procs : pty[p] # l

-----------------------------------------------------------------------------
(* new ptytty_unix                                                         *)
Create(p) ==
  /\ pc[p] = "none"
  /\ Goto(p, "new")
  /\ UNCHANGED <<fields, system>>

(* get is called for an object that has no pty.                            *)
Get(p) ==
  /\ pc[p] = "new"
  /\ Goto(p, "get")
  /\ UNCHANGED <<fields, system>>

(* get_pty finds no line: get returns false.                               *)
OpenPtyFails(p) ==
  /\ pc[p] = "get"
  /\ Goto(p, "new")
  /\ UNCHANGED <<fields, system>>

(* get_pty finds one.  openpty returns both ends; grantpt and openpty give *)
(* the line to the user, the BSD variant leaves that to get.               *)
OpenPty(p) ==
  /\ pc[p] = "get"
  /\ \E l \in Lines :
       /\ Free(l)
       /\ pty'    = [pty EXCEPT ![p] = l]
       /\ name'   = [name EXCEPT ![p] = l]
       /\ tty'    = IF build.getPty[p] = "openpty" THEN [tty EXCEPT ![p] = l] ELSE tty
       /\ access' = IF build.getPty[p] = "bsd" THEN access ELSE [access EXCEPT ![l] = "user"]
  /\ Goto(p, IF build.getPty[p] = "openpty" THEN "got"
             ELSE IF build.getPty[p] = "bsd" THEN "own" ELSE "tty")
  /\ UNCHANGED <<cmd_pid, login_shell, utmp, wtmp>>

(* chown and chmod of the line, of the BSD variant only.                   *)
OwnTty(p) ==
  /\ pc[p] = "own"
  /\ access' = [access EXCEPT ![name[p]] = "user"]
  /\ Goto(p, "tty")
  /\ UNCHANGED <<fields, utmp, wtmp>>

(* get_tty; when it fails get undoes everything with put.                  *)
OpenTty(p) ==
  /\ pc[p] = "tty"
  /\ \/ tty' = [tty EXCEPT ![p] = name[p]] /\ Goto(p, "got")
     \/ UNCHANGED tty /\ Goto(p, "undo")
  /\ UNCHANGED <<pty, name, cmd_pid, login_shell, system>>

(* get looks up the slot of the line, if records go by it, and returns true. *)
GetReturns(p) ==
  /\ pc[p] = "got"
  /\ Goto(p, "ready")
  /\ UNCHANGED <<fields, system>>

CloseTty(p) ==
  /\ pc[p] = "ready"
  /\ tty[p] # Nil
  /\ tty' = [tty EXCEPT ![p] = Nil]
  /\ UNCHANGED <<pc, pty, name, cmd_pid, login_shell, system>>

-----------------------------------------------------------------------------
(* The record that log_session builds.  Without a pid field it still says  *)
(* whose session it is, by its time and user.                              *)
Record(p, type) == [type |-> type, line |-> name[p], pid |-> cmd_pid[p]]

(* A record that is found by its id has a place in utmp; one that goes by  *)
(* its slot has one only if the line has a slot (utmp_pos > 0).            *)
HasPlace(l) == build.havePid \/ l \in build.slots

PutLine(p, type) ==
  utmp' = IF HasPlace(name[p]) THEN [utmp EXCEPT ![Key[name[p]]] = Record(p, type)] ELSE utmp

(* log_session gives a record to updwtmp for login shells only, and does   *)
(* not ask what became of it: the file may not open, its lock may not come *)
(* free, the write may be short and cut back (WtmpFile).                   *)
PutWtmp(p, type) ==
  IF login_shell[p]
  THEN \E written \in BOOLEAN :
         wtmp' = Append(wtmp, [type |-> type, line |-> name[p], pid |-> cmd_pid[p], written |-> written])
  ELSE UNCHANGED wtmp

(* Logins whose record wtmp is still to get, for the bound MaxLog.         *)
LoginsUnderway ==
  Cardinality({q \in Procs : pc[q] \in {"login", "loginwtmp"} /\ login_shell[q]})

(* Mutant of Login: log_session comes before the pid is stored.            *)
LoginForgetsPid(p) ==
  /\ pc[p] = "ready"
  /\ Len(wtmp) + LoginsUnderway < MaxLog
  /\ \E shell \in BOOLEAN : login_shell' = [login_shell EXCEPT ![p] = shell]
  /\ Goto(p, "login")
  /\ UNCHANGED <<cmd_pid, pty, tty, name, system>>

(* login remembers the process, and log_session (true) records it; without *)
(* a name, as before a successful get, it returns at once.                 *)
Login(p) ==
  /\ pc[p] = "ready"
  /\ Len(wtmp) + LoginsUnderway < MaxLog
  /\ \E pid \in Pids, shell \in BOOLEAN :
       /\ cmd_pid'     = [cmd_pid EXCEPT ![p] = pid]
       /\ login_shell' = [login_shell EXCEPT ![p] = shell]
  /\ Goto(p, "login")
  /\ UNCHANGED <<pty, tty, name, system>>

LoginUtmp(p) ==
  /\ pc[p] = "login"
  /\ PutLine(p, "USER")
  /\ Goto(p, "loginwtmp")
  /\ UNCHANGED <<fields, access, wtmp>>

(* Whatever updwtmp did, a login shell's login goes on to lastlog, which   *)
(* nothing here reads.                                                     *)
LoginWtmp(p) ==
  /\ pc[p] = "loginwtmp"
  /\ PutWtmp(p, "USER")
  /\ Goto(p, "ready")
  /\ UNCHANGED <<fields, access, utmp>>

(* Mutant of Delete: only login shells are logged out.                     *)
DeleteOfShell(p) ==
  /\ pc[p] \in {"new", "ready"}
  /\ Goto(p, IF login_shell[p] THEN "logout" ELSE "restore")
  /\ UNCHANGED <<fields, system>>

(* delete: the destructor ends the session if there is one.                *)
Delete(p) ==
  /\ pc[p] \in {"new", "ready"}
  /\ Goto(p, IF cmd_pid[p] # Nil THEN "logout" ELSE "restore")
  /\ UNCHANGED <<fields, system>>

(* Mutant of LogoutCheck: the destructor closes the pty before it logs.    *)
LogoutCheckAfterClose(p) ==
  /\ pc[p] = "logout"
  /\ Goto(p, "logoututmp")
  /\ pty' = [pty EXCEPT ![p] = Nil]
  /\ UNCHANGED <<tty, name, cmd_pid, login_shell, system>>

(* log_session (false): getutid finds the record of the line's id, and     *)
(* only one with this object's pid is replaced.  A slot is written         *)
(* whatever stands there, if there is one.                                 *)
LogoutCheck(p) ==
  /\ pc[p] = "logout"
  /\ LET found == utmp[Key[name[p]]]
         own   == IF build.havePid THEN found # Nil /\ found.pid = cmd_pid[p]
                  ELSE HasPlace(name[p])
     IN  Goto(p, IF own THEN "logoututmp" ELSE "logoutwtmp")
  /\ UNCHANGED <<fields, system>>

(* Mutant of LogoutUtmp: the record of a logout is that of a login.        *)
LogoutUtmpAsUser(p) ==
  /\ pc[p] = "logoututmp"
  /\ PutLine(p, "USER")
  /\ Goto(p, "logoutwtmp")
  /\ UNCHANGED <<fields, access, wtmp>>

LogoutUtmp(p) ==
  /\ pc[p] = "logoututmp"
  /\ PutLine(p, "DEAD")
  /\ Goto(p, "logoutwtmp")
  /\ UNCHANGED <<fields, access, wtmp>>

LogoutWtmp(p) ==
  /\ pc[p] = "logoutwtmp"
  /\ PutWtmp(p, "DEAD")
  /\ Goto(p, "restore")
  /\ UNCHANGED <<fields, access, utmp>>

(* put: chmod and chown of the name, if there is one.                      *)
Restore(p) ==
  /\ \/ pc[p] = "restore" /\ Goto(p, "close")
     \/ pc[p] = "undo" /\ Goto(p, "undoclose")
  /\ access' = IF name[p] # Nil THEN [access EXCEPT ![name[p]] = "root"] ELSE access
  /\ UNCHANGED <<fields, utmp, wtmp>>

(* The rest of put: close_tty, close, name = 0.  A deleted object is gone; *)
(* one whose get failed can be used again.                                 *)
Close(p) ==
  /\ \/ pc[p] = "close" /\ Goto(p, "none")
     \/ pc[p] = "undoclose" /\ Goto(p, "new")
  /\ pty'     = [pty EXCEPT ![p] = Nil]
  /\ tty'     = [tty EXCEPT ![p] = Nil]
  /\ name'    = [name EXCEPT ![p] = Nil]
  /\ cmd_pid' = [cmd_pid EXCEPT ![p] = Nil]
  /\ login_shell' = [login_shell EXCEPT ![p] = FALSE]
  /\ UNCHANGED system

(* A process is killed in the middle of anything; another takes its place. *)
Die(p) ==
  /\ build.mayDie
  /\ pc[p] # "none"
  /\ Goto(p, "none")
  /\ pty'     = [pty EXCEPT ![p] = Nil]
  /\ tty'     = [tty EXCEPT ![p] = Nil]
  /\ name'    = [name EXCEPT ![p] = Nil]
  /\ cmd_pid' = [cmd_pid EXCEPT ![p] = Nil]
  /\ login_shell' = [login_shell EXCEPT ![p] = FALSE]
  /\ UNCHANGED system

Step(p) ==
  \/ Create(p) \/ Get(p) \/ OpenPtyFails(p) \/ OpenPty(p) \/ OwnTty(p)
  \/ OpenTty(p) \/ GetReturns(p) \/ CloseTty(p)
  \/ Login(p) \/ LoginUtmp(p) \/ LoginWtmp(p)
  \/ Delete(p) \/ LogoutCheck(p) \/ LogoutUtmp(p) \/ LogoutWtmp(p)
  \/ Restore(p) \/ Close(p) \/ Die(p)

Next == (\E p \in Procs : Step(p)) /\ UNCHANGED build

Spec == Init /\ [][Next]_vars

-----------------------------------------------------------------------------
TypeOK ==
  /\ build \in Build
  /\ pc \in [Procs -> {"none", "new", "get", "own", "tty", "got", "undo",
                       "undoclose", "ready", "login", "loginwtmp", "logout", "logoututmp",
                       "logoutwtmp", "restore", "close"}]
  /\ pty         \in [Procs -> Lines \cup {Nil}]
  /\ tty         \in [Procs -> Lines \cup {Nil}]
  /\ name        \in [Procs -> Lines \cup {Nil}]
  /\ cmd_pid     \in [Procs -> Pids \cup {Nil}]
  /\ login_shell \in [Procs -> BOOLEAN]
  /\ access      \in [Lines -> {"user", "root"}]
  /\ utmp        \in [Keys -> Entry \cup {Nil}]
  /\ wtmp        \in Seq(Attempt)

(* A process keeps the access to its line until it gives the line up: the  *)
(* chmod and chown of another process's destructor never hit it.           *)
AccessKept ==
  \A p \in Procs :
    pty[p] # Nil /\ pc[p] \notin {"own", "undoclose", "close"} =>
      access[pty[p]] = "user"

InSession(p) ==
  cmd_pid[p] # Nil /\ pc[p] \in {"loginwtmp", "ready", "logout", "logoututmp"}

(* From login until the object is destroyed the record of its session      *)
(* stands in utmp, if its line has a place there, whatever other processes *)
(* log in, log out or die.                                                 *)
SessionLasts ==
  \A p \in Procs :
    InSession(p) /\ HasPlace(name[p]) => utmp[Key[name[p]]] = Record(p, "USER")

(* When no process is killed, every session in utmp is that of an object   *)
(* that still exists: destroying an object takes its record along.         *)
SessionEnds ==
  ~build.mayDie =>
    \A k \in Keys :
      utmp[k] # Nil /\ utmp[k].type = "USER" =>
        \E p \in Procs : /\ name[p] = utmp[k].line /\ cmd_pid[p] # Nil
                         /\ pc[p] \notin {"logoutwtmp", "restore", "close"}

(* Who reads wtmp can pair its records, although any of them may be        *)
(* missing: between the login of a session and a logout in the file stands *)
(* no other record of that line, so that the logout follows its own login  *)
(* or, if that was lost, ends nothing that began later.                    *)
WtmpGrouped ==
  \A i \in DOMAIN wtmp :
    wtmp[i].type = "DEAD" /\ wtmp[i].written =>
      \E j \in 1..(i - 1) :
        /\ wtmp[j].type = "USER" /\ wtmp[j].line = wtmp[i].line /\ wtmp[j].pid = wtmp[i].pid
        /\ \A k \in (j + 1)..(i - 1) : wtmp[k].written => wtmp[k].line # wtmp[i].line

=============================================================================
