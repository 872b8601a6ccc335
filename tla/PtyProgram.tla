----------------------------- MODULE PtyProgram -----------------------------
(***************************************************************************)
(* A program that runs a shell on a pty, as src/eg/c-sample.c does through *)
(* the functions of src/src/c-api.C: who has which descriptors.            *)
(*                                                                         *)
(* The program forks the child that becomes the shell, and when it runs    *)
(* setuid the helper before.  A descriptor is gone when the last process,  *)
(* or message, that has it gives it up: only then does the other end see   *)
(* the end of the file.  Starting the helper is a step here (PtyStartup    *)
(* has them all), so are the calls of log_session (PtySession), and the    *)
(* token is left out (PtyProxy): this program makes one call at a time.    *)
(***************************************************************************)
EXTENDS Integers, Sequences, FiniteSetsExt

CONSTANTS
  Top,      \* the highest descriptor a process gets
  MaxOut    \* lines that the shell prints

ASSUME ProgramAssumption == Top \in Nat /\ Top >= 7 /\ MaxOut \in Nat

Procs  == {"parent", "child", "helper"}
Fds    == 0..Top
Things == {"closed", "std", "null", "sock", "pty", "tty"}

VARIABLES
  build,    \* helper: setuid; slot: utmp has no pids; opened: of 0..2 at start
  pc,
  fd,       \* each process's descriptors
  obj,      \* each process's copy of the pty object: pty and tty
  ctty,     \* the child's controlling terminal
  cmds,     \* commands on their way to the helper
  wire,     \* replies and descriptors on their way back
  session,  \* the shell in the session databases
  typed,    \* the command line is written to the pty
  output    \* printed by the shell and not read

inside == <<build, pc, fd, obj, ctty>>
vars   == <<inside, cmds, wire, session, typed, output>>

NoPty == [pty |-> -1, tty |-> -1]

Init ==
  /\ build   \in [helper : BOOLEAN, slot : BOOLEAN, opened : SUBSET (0..2)]
  /\ pc      = [p \in Procs |-> IF p = "parent" THEN "init" ELSE "none"]
  /\ fd      = [p \in Procs |-> [f \in Fds |->
                  IF p = "parent" /\ f \in build.opened THEN "std" ELSE "closed"]]
  /\ obj     = [p \in Procs |-> NoPty]
  /\ ctty    = "old"
  /\ cmds    = <<>>
  /\ wire    = <<>>
  /\ session = "none"
  /\ typed   = FALSE
  /\ output  = 0

Goto(p, to) == pc' = [pc EXCEPT ![p] = to]

Has(p, thing)  == \E f \in Fds : fd[p][f] = thing
TtyOpen        == (\E p \in Procs : Has(p, "tty")) \/ (\E i \in DOMAIN wire : wire[i] = "tty")

Lowest(t)      == Min({f \in Fds : t[f] = "closed"})
Opened(t, x)   == [t EXCEPT ![Lowest(t)] = x]
Closed(t, f)   == IF f >= 0 THEN [t EXCEPT ![f] = "closed"] ELSE t
Dup2(t, f, to) == [t EXCEPT ![to] = t[f]]
AllClosed      == [f \in Fds |-> "closed"]

-----------------------------------------------------------------------------
(* Mutant of Sanitised: what is closed stays closed.                       *)
SanitisedNot(t) == t

Sanitised(t) == [f \in Fds |-> IF f <= 2 /\ t[f] = "closed" THEN "null" ELSE t[f]]

(* ptytty_init: a setuid program gets a helper, and the two ends of a      *)
(* socket.  The helper closes everything else.                             *)
PtyttyInit ==
  /\ pc["parent"] = "init"
  /\ LET t == Sanitised(fd["parent"])
         u == Opened(t, "sock")
     IN  IF build.helper
         THEN /\ fd' = [fd EXCEPT !["parent"] = u,
                                  !["helper"] = [AllClosed EXCEPT ![Lowest(u)] = "sock"]]
              /\ pc' = [pc EXCEPT !["parent"] = "get", !["helper"] = "serve"]
         ELSE /\ fd' = [fd EXCEPT !["parent"] = t]
              /\ Goto("parent", "get")
  /\ UNCHANGED <<build, obj, ctty, cmds, wire, session, typed, output>>

(* Mutant of SlotLookup: standard input is not given back.                 *)
SlotLookupKeeps(t, tty) == [Dup2(Opened(t, t[0]), tty, 0) EXCEPT ![Lowest(t)] = "closed"]

(* ttyslot wants to find the tty as standard input: dup, dup2, dup2, close.*)
SlotLookup(t, tty) ==
  LET saved == Lowest(t)
  IN  Closed(Dup2(Dup2(Opened(t, t[0]), tty, 0), saved, 0), saved)

(* ptytty_unix::get in process p.                                          *)
GetUnix(p) ==
  LET t == Opened(fd[p], "pty")
      u == Opened(t, "tty")
      o == [pty |-> Lowest(fd[p]), tty |-> Lowest(t)]
  IN  /\ fd'  = [fd EXCEPT ![p] = IF build.slot THEN SlotLookup(u, o.tty) ELSE u]
      /\ obj' = [obj EXCEPT ![p] = o]

(* The process is gone, and with it its descriptors.                       *)
Exits(p) ==
  /\ Goto(p, "gone")
  /\ fd'  = [fd EXCEPT ![p] = AllClosed]
  /\ obj' = [obj EXCEPT ![p] = NoPty]

(* ptytty_get: here, or in the helper.                                     *)
PtyttyGet ==
  /\ pc["parent"] = "get"
  /\ \/ build.helper /\ cmds' = Append(cmds, "get") /\ Goto("parent", "recv") /\ UNCHANGED <<fd, obj>>
     \/ ~build.helper /\ GetUnix("parent") /\ Goto("parent", "fork") /\ UNCHANGED cmds
     \/ ~build.helper /\ Exits("parent") /\ UNCHANGED cmds
  /\ UNCHANGED <<build, ctty, wire, session, typed, output>>

(* The helper's answer: none, or two descriptors.                          *)
ReceiveFd ==
  /\ pc["parent"] = "recv"
  /\ wire # <<>>
  /\ LET f == Lowest(fd["parent"])
     IN  \/ /\ Head(wire) = "nil"
            /\ Exits("parent")
         \/ /\ Head(wire) = "pty"
            /\ fd'  = [fd EXCEPT !["parent"][f] = "pty"]
            /\ obj' = [obj EXCEPT !["parent"].pty = f]
            /\ UNCHANGED pc
         \/ /\ Head(wire) = "tty"
            /\ fd'  = [fd EXCEPT !["parent"][f] = "tty"]
            /\ obj' = [obj EXCEPT !["parent"].tty = f]
            /\ Goto("parent", "fork")
  /\ wire' = Tail(wire)
  /\ UNCHANGED <<build, ctty, cmds, session, typed, output>>

(* fork copies the descriptors, the object too; or the program ends.       *)
Fork ==
  /\ pc["parent"] = "fork"
  /\ \/ /\ fd'  = [fd EXCEPT !["child"] = fd["parent"]]
        /\ obj' = [obj EXCEPT !["child"] = obj["parent"]]
        /\ pc'  = [pc EXCEPT !["parent"] = "close", !["child"] = "control"]
     \/ Exits("parent")
  /\ UNCHANGED <<build, ctty, cmds, wire, session, typed, output>>

(* Mutant of CloseTty: the descriptor is not forgotten.                    *)
CloseTtyOnly(p) ==
  /\ fd' = [fd EXCEPT ![p] = Closed(@, obj[p].tty)]
  /\ UNCHANGED obj

(* ptytty_close_tty                                                        *)
CloseTty(p) ==
  /\ fd'  = [fd EXCEPT ![p] = Closed(@, obj[p].tty)]
  /\ obj' = [obj EXCEPT ![p].tty = -1]

PtyttyCloseTty ==
  /\ pc["parent"] = "close"
  /\ CloseTty("parent")
  /\ Goto("parent", "login")
  /\ UNCHANGED <<build, ctty, cmds, wire, session, typed, output>>

PtyttyLogin ==
  /\ pc["parent"] = "login"
  /\ IF build.helper
     THEN cmds' = Append(cmds, "login") /\ UNCHANGED session
     ELSE session' = "open" /\ UNCHANGED cmds
  /\ Goto("parent", "write")
  /\ UNCHANGED <<build, fd, obj, ctty, wire, typed, output>>

(* The command line, whose last command is exit.                           *)
WriteCommand ==
  /\ pc["parent"] = "write"
  /\ typed' = TRUE
  /\ Goto("parent", "read")
  /\ UNCHANGED <<build, fd, obj, ctty, cmds, wire, session, output>>

(* What the shell prints is copied; read fails when nothing is left and    *)
(* nobody has the tty open, and waits as long as somebody has.             *)
ReadLoop ==
  /\ pc["parent"] = "read"
  /\ \/ output > 0 /\ output' = output - 1 /\ UNCHANGED pc
     \/ output = 0 /\ ~TtyOpen /\ Goto("parent", "delete") /\ UNCHANGED output
  /\ UNCHANGED <<build, fd, obj, ctty, cmds, wire, session, typed>>

(* log_session (false), put: the session ends, if there is one.            *)
LogOut == session' = IF session = "open" THEN "closed" ELSE session

ClosesPty(p) ==
  /\ fd'  = [fd EXCEPT ![p] = Closed(Closed(@, obj[p].tty), obj[p].pty)]
  /\ obj' = [obj EXCEPT ![p] = NoPty]

PtyttyDelete ==
  /\ pc["parent"] = "delete"
  /\ ClosesPty("parent")
  /\ IF build.helper
     THEN cmds' = Append(cmds, "destroy") /\ UNCHANGED session
     ELSE LogOut /\ UNCHANGED cmds
  /\ Goto("parent", "exit")
  /\ UNCHANGED <<build, ctty, wire, typed, output>>

(* main returns, or the program is killed at any point.                    *)
Return == pc["parent"] = "exit" /\ Exits("parent") /\ UNCHANGED <<build, ctty, cmds, wire, session, typed, output>>
Killed == pc["parent"] # "gone" /\ Exits("parent") /\ UNCHANGED <<build, ctty, cmds, wire, session, typed, output>>

Parent ==
  \/ PtyttyInit \/ PtyttyGet \/ ReceiveFd \/ Fork \/ PtyttyCloseTty
  \/ PtyttyLogin \/ WriteCommand \/ ReadLoop \/ PtyttyDelete \/ Return

-----------------------------------------------------------------------------
(* setsid takes the child out of its session and away from its terminal,   *)
(* TIOCSCTTY gives it the tty.                                             *)
ControlTty(tty) == IF fd["child"][tty] = "tty" THEN "line" ELSE "none"

MakeControllingTty ==
  /\ pc["child"] = "control"
  /\ ctty' = ControlTty(obj["child"].tty)
  /\ Goto("child", "redirect")
  /\ UNCHANGED <<build, fd, obj, cmds, wire, session, typed, output>>

(* close the pty; the tty becomes 0, 1 and 2; close the tty.               *)
Redirect ==
  /\ pc["child"] = "redirect"
  /\ LET tty == obj["child"].tty
         t   == Closed(fd["child"], obj["child"].pty)
     IN  fd' = [fd EXCEPT !["child"] = Closed(Dup2(Dup2(Dup2(t, tty, 0), tty, 1), tty, 2), tty)]
  /\ Goto("child", "exec")
  /\ UNCHANGED <<build, obj, ctty, cmds, wire, session, typed, output>>

(* Mutant of CloseOnExec: the socket has no FD_CLOEXEC.                    *)
CloseOnExecNone(t) == t

CloseOnExec(t) == [f \in Fds |-> IF t[f] = "sock" THEN "closed" ELSE t[f]]

Exec ==
  /\ pc["child"] = "exec"
  /\ \/ fd' = [fd EXCEPT !["child"] = CloseOnExec(@)] /\ Goto("child", "shell") /\ UNCHANGED obj
     \/ Exits("child")
  /\ UNCHANGED <<build, ctty, cmds, wire, session, typed, output>>

Prints ==
  /\ pc["child"] = "shell" /\ fd["child"][1] = "tty"
  /\ output < MaxOut
  /\ output' = output + 1
  /\ UNCHANGED <<inside, cmds, wire, session, typed>>

(* The shell ends when it has read its commands, or at the hangup of the   *)
(* terminal: all descriptors of the pty are closed.                        *)
ShellEnds ==
  /\ pc["child"] = "shell"
  /\ \/ typed /\ fd["child"][0] = "tty"
     \/ \A p \in Procs : ~Has(p, "pty")
  /\ Exits("child")
  /\ UNCHANGED <<build, ctty, cmds, wire, session, typed, output>>

Child == MakeControllingTty \/ Redirect \/ Exec \/ ShellEnds

-----------------------------------------------------------------------------
(* get in the helper, which sends both descriptors, or a null pointer.     *)
HelperGet ==
  /\ pc["helper"] = "serve"
  /\ cmds # <<>> /\ Head(cmds) = "get"
  /\ cmds' = Tail(cmds)
  /\ \/ GetUnix("helper") /\ Goto("helper", "send") /\ UNCHANGED wire
     \/ wire' = Append(wire, "nil") /\ UNCHANGED <<pc, fd, obj>>
  /\ UNCHANGED <<build, ctty, session, typed, output>>

HelperSend ==
  /\ pc["helper"] = "send"
  /\ wire' = IF pc["parent"] = "gone" THEN wire ELSE wire \o <<"pty", "tty">>
  /\ Goto("helper", "close")
  /\ UNCHANGED <<build, fd, obj, ctty, cmds, session, typed, output>>

(* Mutant of HelperCloseTty: the helper keeps the tty.                     *)
HelperKeepsTty ==
  /\ pc["helper"] = "close"
  /\ Goto("helper", "serve")
  /\ UNCHANGED <<build, fd, obj, ctty, cmds, wire, session, typed, output>>

HelperCloseTty ==
  /\ pc["helper"] = "close"
  /\ CloseTty("helper")
  /\ Goto("helper", "serve")
  /\ UNCHANGED <<build, ctty, cmds, wire, session, typed, output>>

HelperLogin ==
  /\ pc["helper"] = "serve"
  /\ cmds # <<>> /\ Head(cmds) = "login"
  /\ cmds' = Tail(cmds)
  /\ session' = "open"
  /\ UNCHANGED <<inside, wire, typed, output>>

HelperDestroy ==
  /\ pc["helper"] = "serve"
  /\ cmds # <<>> /\ Head(cmds) = "destroy"
  /\ cmds' = Tail(cmds)
  /\ ClosesPty("helper")
  /\ LogOut
  /\ UNCHANGED <<build, pc, ctty, wire, typed, output>>

(* read fails when no process has the other end of the socket any more:    *)
(* the helper destroys what is left, and exits.  Messages nobody read are  *)
(* gone with the socket.                                                   *)
HelperEof ==
  /\ pc["helper"] = "serve"
  /\ cmds = <<>>
  /\ ~Has("parent", "sock") /\ ~Has("child", "sock")
  /\ LogOut
  /\ wire' = <<>>
  /\ Exits("helper")
  /\ UNCHANGED <<build, ctty, cmds, typed, output>>

Helper == HelperGet \/ HelperSend \/ HelperCloseTty \/ HelperLogin \/ HelperDestroy \/ HelperEof

Next == Parent \/ Killed \/ Child \/ Prints \/ Helper

Spec == Init /\ [][Next]_vars

(* Each process gets on; only being killed and printing are left open.     *)
FairSpec == Spec /\ WF_vars(Parent) /\ WF_vars(Child) /\ WF_vars(Helper)

-----------------------------------------------------------------------------
(* The types; and the fields of an object, where they are not -1, are the  *)
(* descriptors of its pty and tty.                                         *)
TypeOK ==
  /\ build \in [helper : BOOLEAN, slot : BOOLEAN, opened : SUBSET (0..2)]
  /\ pc    \in [Procs -> {"none", "init", "get", "recv", "fork", "close", "login", "write",
                          "read", "delete", "exit", "gone", "control", "redirect", "exec",
                          "shell", "serve", "send"}]
  /\ fd    \in [Procs -> [Fds -> Things]]
  /\ \A p \in Procs \ {"child"} :
       /\ obj[p].pty = -1 \/ fd[p][obj[p].pty] = "pty"
       /\ obj[p].tty = -1 \/ fd[p][obj[p].tty] = "tty"
  /\ ctty  \in {"old", "none", "line"}
  /\ cmds  \in Seq({"get", "login", "destroy"})
  /\ wire  \in Seq({"nil", "pty", "tty"})
  /\ session \in {"none", "open", "closed"}
  /\ typed \in BOOLEAN
  /\ output \in 0..MaxOut

(* The shell starts with its terminal as standard input, output and error, *)
(* in control of it, and with no descriptor of the pty or of the helper.   *)
(* It would not if the program began with one of them closed and init did  *)
(* not care: the tty could be one of the three.                            *)
ShellHasItsTty ==
  pc["child"] = "shell" =>
    /\ ctty = "line"
    /\ \A f \in Fds : fd["child"][f] = IF f <= 2 THEN "tty" ELSE "closed"

(* get borrows standard input for ttyslot, and gives it back.              *)
StdinKept ==
  pc["parent"] \notin {"init", "gone"} => \A f \in 0..2 : fd["parent"][f] \in {"std", "null"}

(* All processes end: the reader sees the shell's exit, as neither it nor  *)
(* the helper keeps the tty, and the shell and the helper see the          *)
(* program's, even if it is killed.                                        *)
EverybodyEnds == <>[](\A p \in Procs : pc[p] \in {"none", "gone"})

(* Whatever the program dies of, the helper ends the session.              *)
HelperLogsOut == [](build.helper /\ session = "open" => <>(session = "closed"))

=============================================================================
