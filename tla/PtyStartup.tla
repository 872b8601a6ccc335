----------------------------- MODULE PtyStartup -----------------------------
(***************************************************************************)
(* How a program comes by its helper and loses its privileges: init,       *)
(* sanitise_stdfd, use_helper, drop_privileges and create of               *)
(* src/src/proxy.C, over descriptor tables and user and group ids.         *)
(*                                                                         *)
(* The program may call them in any order and again after an exception     *)
(* that it caught.                                                         *)
(***************************************************************************)
EXTENDS Naturals, FiniteSets

CONSTANTS
  Nil,
  MaxFd,       \* the largest descriptor number
  Inherited,   \* descriptors that may be open at the start
  CloseLimit,  \* the helper closes descriptors below (1023)
  Reentrant,   \* PTYTTY_REENTRANT
  Setids       \* what configure may find: "setresuid", "setreuid", "setuid"

Fds == 0..MaxFd

(* What a descriptor refers to: a file of the program's, or an end of one  *)
(* of the socket pairs sv and lv.                                          *)
Files == {"file", "null", "sv0", "sv1", "lv0", "lv1"}

Users  == {"user", "daemon", "root"}
Groups == {"user", "tty"}

Uids == [real : Users,  eff : Users,  saved : Users]
Gids == [real : Groups, eff : Groups, saved : Groups]

FdTables == [Fds -> Files \cup {Nil}]
FdPairs  == (Fds \cup {Nil}) \X (Fds \cup {Nil})

Helpers == [pc : {"close", "serve"}, fds : FdTables, uid : Uids, gid : Gids]

ASSUME StartupAssumption ==
  /\ MaxFd \in Nat \ {0, 1}
  /\ Inherited \subseteq Fds
  /\ CloseLimit \in Nat
  /\ Nil \notin Files \cup Nat \cup Helpers
  /\ Reentrant \in BOOLEAN

VARIABLES
  build,       \* the function that drop_privileges is built with
  exec,        \* history: the ids that the program started with
  pc,          \* where the program is in its call, "idle", or "thrown"
  caller,      \* who called use_helper or drop_privileges
  fds,         \* its descriptors
  uid, gid,    \* its ids
  sv, lv,      \* the descriptors of the pairs use_helper has made
  sock_fd, lock_fd,
  helper_pid,  \* 0 before the first fork, 1 after, Nil (-1) after a failed one
  dropped,     \* init or drop_privileges has returned
  object,      \* what the last create returned
  helper       \* the helper: Nil, or its state, descriptors and ids

fixed    == <<build, exec>>
callVars == <<pc, caller>>
idVars   == <<uid, gid>>
sockVars == <<sv, lv, sock_fd, lock_fd, helper_pid>>
vars     == <<fixed, callVars, fds, idVars, sockVars, dropped, object, helper>>

(* exec gives a setuid or setgid program its owner's ids, whoever starts   *)
(* it.  Not even standard input need be open.                              *)
Init ==
  /\ build \in Setids
  /\ pc = "idle"
  /\ caller = "program"
  /\ \E open \in SUBSET Inherited :
       fds = [fd \in Fds |-> IF fd \in open THEN "file" ELSE Nil]
  /\ \E r, e \in Users  : uid = [real |-> r, eff |-> e, saved |-> e]
  /\ \E r, e \in Groups : gid = [real |-> r, eff |-> e, saved |-> e]
  /\ exec = [uid |-> uid, gid |-> gid]
  /\ sv = <<Nil, Nil>>
  /\ lv = <<Nil, Nil>>
  /\ sock_fd = Nil
  /\ lock_fd = Nil
  /\ helper_pid = 0
  /\ dropped = FALSE
  /\ object = Nil
  /\ helper = Nil

(* The kernel gives out the lowest number.                                 *)
IsFree(fd)   == fds[fd] = Nil
IsLowest(fd) == IsFree(fd) /\ \A lower \in 0..(fd - 1) : ~IsFree(lower)

IsPair(a, b) ==
  IsLowest(a) /\ IsFree(b) /\ a < b /\ \A mid \in (a + 1)..(b - 1) : ~IsFree(mid)

Goto(to) == pc' = to /\ UNCHANGED caller

(* An exception leaves the call; the program may go on.                    *)
Throw == Goto("thrown")

Idle == pc \in {"idle", "thrown"}

Call(who, at) == Idle /\ pc' = at /\ caller' = who

-----------------------------------------------------------------------------
InitCall ==
  /\ Call("init", "stdin")
  /\ UNCHANGED <<fixed, fds, idVars, sockVars, dropped, object, helper>>

UseHelper ==
  /\ Call("program", "use")
  /\ UNCHANGED <<fixed, fds, idVars, sockVars, dropped, object, helper>>

DropPrivileges ==
  /\ Call("program", "drop")
  /\ UNCHANGED <<fixed, fds, idVars, sockVars, dropped, object, helper>>

Create ==
  /\ Idle
  /\ object' = IF helper_pid # 0 THEN "proxy" ELSE "unix"
  /\ UNCHANGED <<fixed, callVars, fds, idVars, sockVars, dropped, helper>>

(* One round of the loop in sanitise_stdfd: a closed descriptor must come  *)
(* back under its own number.                                              *)
Sanitise(from, fd, to) ==
  /\ pc = from
  /\ \/ ~IsFree(fd) /\ Goto(to) /\ UNCHANGED fds
     \/ /\ IsFree(fd)
        /\ \E opened \in Fds :
             /\ IsLowest(opened)
             /\ fds' = [fds EXCEPT ![opened] = "null"]
             /\ IF opened = fd THEN Goto(to) ELSE Throw
     \/ IsFree(fd) /\ Throw /\ UNCHANGED fds
  /\ UNCHANGED <<fixed, idVars, sockVars, dropped, object, helper>>

(* Mutant of SanitiseStdfd: the loop ends before standard error.           *)
SanitiseTwo ==
  \/ Sanitise("stdin", 0, "stdout")
  \/ Sanitise("stdout", 1, "ids")

SanitiseStdfd ==
  \/ Sanitise("stdin", 0, "stdout")
  \/ Sanitise("stdout", 1, "stderr")
  \/ Sanitise("stderr", 2, "ids")

SetId == uid.real # uid.eff \/ gid.real # gid.eff

(* init: only a setuid or setgid program needs a helper.                   *)
CheckThen(to) ==
  /\ pc = "ids"
  /\ Goto(IF SetId THEN to ELSE "idle")
  /\ dropped' = (dropped \/ ~SetId)
  /\ UNCHANGED <<fixed, fds, idVars, sockVars, object, helper>>

(* Mutant of CheckIds: the privileges go before the helper is there.       *)
CheckIdsDropsFirst == CheckThen("drop")

CheckIds == CheckThen("use")

(* use_helper returns; init goes on.                                       *)
Used == Goto(IF caller = "init" THEN "drop" ELSE "idle")

AlreadyUsed ==
  /\ pc = "use"
  /\ sock_fd # Nil
  /\ Used
  /\ UNCHANGED <<fixed, fds, idVars, sockVars, dropped, object, helper>>

PairFails ==
  /\ \/ pc = "use" /\ sock_fd = Nil
     \/ pc = "lv"
  /\ Throw
  /\ UNCHANGED <<fixed, fds, idVars, sockVars, dropped, object, helper>>

MakePair ==
  /\ pc = "use"
  /\ sock_fd = Nil
  /\ \E a, b \in Fds :
       /\ IsPair(a, b)
       /\ fds' = [fds EXCEPT ![a] = "sv0", ![b] = "sv1"]
       /\ sv'  = <<a, b>>
  /\ Goto(IF Reentrant THEN "lv" ELSE "fork")
  /\ UNCHANGED <<fixed, idVars, lv, sock_fd, lock_fd, helper_pid, dropped,
                 object, helper>>

MakeLockPair ==
  /\ pc = "lv"
  /\ \E a, b \in Fds :
       /\ IsPair(a, b)
       /\ fds' = [fds EXCEPT ![a] = "lv0", ![b] = "lv1"]
       /\ lv'  = <<a, b>>
  /\ Goto("fork")
  /\ UNCHANGED <<fixed, idVars, sv, sock_fd, lock_fd, helper_pid, dropped,
                 object, helper>>

(* Both pairs stay open.                                                   *)
NoHelper(sock, lock) ==
  /\ pc = "fork"
  /\ helper_pid' = Nil
  /\ sock_fd' = sock
  /\ lock_fd' = lock
  /\ Throw
  /\ UNCHANGED <<fixed, fds, idVars, sv, lv, dropped, object, helper>>

(* Mutant of ForkFails: the descriptors are recorded before the fork.      *)
ForkFailsTooLate == NoHelper(sv[1], lv[1])

ForkFails == NoHelper(sock_fd, lock_fd)

(* The parent keeps the first ends and closes the second ones; the helper  *)
(* starts with a copy of everything.                                       *)
StartHelper(sock, lock) ==
  /\ pc = "fork"
  /\ helper_pid' = 1
  /\ sock_fd' = sock
  /\ lock_fd' = lock
  /\ fds' = [fd \in Fds |-> IF fd \in {sv[2], lv[2]} THEN Nil ELSE fds[fd]]
  /\ helper' = [pc |-> "close", fds |-> fds, uid |-> uid, gid |-> gid]
  /\ Used
  /\ UNCHANGED <<fixed, idVars, sv, lv, dropped, object>>

(* Mutant of Fork: a local variable hides sock_fd.                         *)
ForkForgetsSocket == StartHelper(sock_fd, lock_fd)

Fork == StartHelper(sv[1], lv[1])

(* The helper closes all it need not have before it serves.                *)
CloseFrom(low) ==
  /\ helper # Nil /\ helper.pc = "close"
  /\ helper' = [helper EXCEPT
       !.pc  = "serve",
       !.fds = [fd \in Fds |->
                  IF fd \in low..(CloseLimit - 1) /\ fd \notin {sv[2], lv[2]}
                  THEN Nil ELSE helper.fds[fd]]]
  /\ UNCHANGED <<fixed, callVars, fds, idVars, sockVars, dropped, object>>

(* Mutant of HelperCloses: the loop spares the standard descriptors.       *)
HelperClosesFromThree == CloseFrom(3)

HelperCloses == CloseFrom(0)

(* Of the functions that set an id, setuid and setgid set all three for    *)
(* root and else the effective one only; the others set the saved one too. *)
AllSet(ids) == [ids EXCEPT !.eff = ids.real, !.saved = ids.real]

(* Mutant of Dropping: seteuid and setegid.                                *)
DroppingForNow(ids) == [ids EXCEPT !.eff = ids.real]

Dropping(ids) ==
  IF build # "setuid" \/ uid.eff = "root" THEN AllSet(ids)
                                          ELSE [ids EXCEPT !.eff = ids.real]

(* Mutant of DropGroup: setresgid (uid, uid, uid).                         *)
DropGroupToUser ==
  /\ pc = "drop"
  /\ gid' = AllSet(uid)
  /\ Goto("dropuser")
  /\ UNCHANGED <<fixed, fds, uid, sockVars, dropped, object, helper>>

(* The group first, while the user id still allows it.                     *)
DropGroup ==
  /\ pc = "drop"
  /\ gid' = Dropping(gid)
  /\ Goto("dropuser")
  /\ UNCHANGED <<fixed, fds, uid, sockVars, dropped, object, helper>>

(* Setting the user id fails when the real user has too many processes;    *)
(* what counts is the comparison that follows.                             *)
DropUser ==
  /\ pc = "dropuser"
  /\ uid' \in {Dropping(uid), uid}
  /\ IF uid'.eff = uid'.real /\ gid.eff = gid.real
       THEN dropped' = TRUE /\ Goto("idle")
       ELSE UNCHANGED dropped /\ Throw
  /\ UNCHANGED <<fixed, fds, gid, sockVars, object, helper>>

Next ==
  \/ InitCall \/ UseHelper \/ DropPrivileges \/ Create
  \/ SanitiseStdfd \/ CheckIds
  \/ AlreadyUsed \/ PairFails \/ MakePair \/ MakeLockPair \/ ForkFails \/ Fork
  \/ DropGroup \/ DropUser
  \/ HelperCloses

Spec == Init /\ [][Next]_vars

-----------------------------------------------------------------------------
(* Every variable has its type.                                            *)
Pcs == {"idle", "thrown", "stdin", "stdout", "stderr", "ids", "use", "lv",
        "fork", "drop", "dropuser"}

TypeOK ==
  /\ build \in Setids
  /\ exec \in [uid : Uids, gid : Gids]
  /\ pc \in Pcs
  /\ caller \in {"init", "program"}
  /\ fds \in FdTables
  /\ uid \in Uids /\ gid \in Gids
  /\ sv \in FdPairs /\ lv \in FdPairs
  /\ sock_fd \in Fds \cup {Nil}
  /\ lock_fd \in Fds \cup {Nil}
  /\ helper_pid \in {0, 1, Nil}
  /\ dropped \in BOOLEAN
  /\ object \in {Nil, "proxy", "unix"}
  /\ helper \in Helpers \cup {Nil}

(* use_helper leaves no half a helper: whenever sock_fd is set, so that a  *)
(* later use_helper returns at once, there is a helper, and sock_fd and    *)
(* lock_fd are the program's ends of its two sockets.  A failed start can  *)
(* be tried again (proxy.C:221, 239).                                      *)
HelperUsable ==
  sock_fd # Nil =>
    /\ helper # Nil
    /\ fds[sock_fd] = "sv0"
    /\ Reentrant => lock_fd # Nil /\ fds[lock_fd] = "lv0"

(* The helper sees end of file when the last client is gone: once it       *)
(* serves, nobody but clients has their ends of its sockets, and nobody    *)
(* but the helper has the other ends.  This holds although the program may *)
(* have started with closed standard descriptors, as long as the sockets'  *)
(* numbers are within the loop of proxy.C:268.                             *)
HelperSeesEof ==
  helper # Nil =>
    \A pair \in {sv, lv} :
      pair[1] # Nil =>
        /\ fds[pair[2]] \notin {"sv1", "lv1"}
        /\ helper.pc = "serve" /\ pair[1] < CloseLimit => helper.fds[pair[1]] = Nil
        /\ helper.fds[pair[2]] \in {"sv1", "lv1"}

(* When init gives up the program's ids there is a helper with the ids     *)
(* that the program started with, but for a group that an earlier call of  *)
(* drop_privileges has given up before it failed (proxy.C:319-326).        *)
HelperKeepsPrivileges ==
  pc \in {"drop", "dropuser"} /\ caller = "init" =>
    /\ helper # Nil
    /\ helper.uid = exec.uid
    /\ helper.gid = exec.gid \/ gid # exec.gid

(* When init or drop_privileges has returned, no id is left but the real   *)
(* one, the saved ones included, except that with setuid alone a program   *)
(* which was not root keeps its saved ids (proxy.C:329-352).               *)
PrivilegesGone ==
  dropped =>
    /\ uid.eff = uid.real /\ gid.eff = gid.real
    /\ build # "setuid" \/ exec.uid.eff = "root" =>
         uid.saved = uid.real /\ gid.saved = gid.real

(* doc/libptytty.3.pod:135: "Drops privileges completely, i.e. sets real,  *)
(* effective and saved user id to the real user id."                       *)
DropsCompletely ==
  dropped => uid.eff = uid.real /\ uid.saved = uid.real

(* The sockets that init makes never take the numbers of standard input,   *)
(* output and error, where the program's own output would reach the helper *)
(* (proxy.C:294-308, 313).                                                 *)
StdioKept ==
  [][caller = "init" /\ pc \in {"use", "lv", "fork"} =>
       \A fd \in 0..2 : fds'[fd] = fds[fd]]_vars

(* There is never a second helper, and nothing that the program does later *)
(* reaches the one it has (proxy.C:221).                                   *)
OneHelper ==
  [][helper # Nil => /\ helper' # Nil
                     /\ helper'.uid = helper.uid /\ helper'.gid = helper.gid
                     /\ helper.pc = "serve" => helper' = helper]_vars

=============================================================================
