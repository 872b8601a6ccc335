------------------------- MODULE PtySessionService -------------------------
(***************************************************************************)
(* Without a helper, and as long as no process is killed, ptytty_unix      *)
(* renders the same service as ptytty_proxy does (PtyProxyService): the    *)
(* refinement mapping from PtySession to PtyService.                       *)
(***************************************************************************)
EXTENDS PtySession

(* A destructor is performed when it marks its record dead, finds that it  *)
(* has none, or, without a session, when it restores the line.             *)
Destroying(p) ==
  pc[p] \in {"logout", "logoututmp"} \/ (pc[p] = "restore" /\ cmd_pid[p] = Nil)

Ready(p) == pc[p] \in {"ready", "login", "loginwtmp"}

pendingBar ==
  [p \in Procs |->
     IF pc[p] \in {"get", "own", "tty"} THEN <<"get">>
     ELSE IF pc[p] = "login"            THEN <<"login">>
     ELSE IF Destroying(p)              THEN <<"destroy">>
     ELSE <<>>]

haveBar ==
  [p \in Procs |->
     IF pc[p] = "got" \/ Ready(p) \/ Destroying(p) THEN name[p] ELSE Nil]

toldBar == [p \in Procs |-> IF Ready(p) THEN name[p] ELSE Nil]

sessionsBar ==
  {l \in Lines : LET r == utmp[Key[l]] IN r # Nil /\ r.type = "USER" /\ r.line = l}

placesBar == {l \in Lines : HasPlace(l)}

Service == INSTANCE PtyService
             WITH Clients  <- Procs,
                  pending  <- pendingBar,
                  have     <- haveBar,
                  told     <- toldBar,
                  sessions <- sessionsBar,
                  gone     <- {},
                  places   <- placesBar

(* Seen through the mapping, the objects of several processes, with their  *)
(* unsynchronised steps on kernel and databases, behave like the service:  *)
(* no two own a line, and login and delete change one session at a time.   *)
ImplementsService ==
  Service!Init /\ [][build.mayDie \/ Service!Next]_(Service!serviceVars)

=============================================================================
