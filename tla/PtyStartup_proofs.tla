------------------------- MODULE PtyStartup_proofs -------------------------
(* Theorems about PtyStartup, for every number of descriptors, every set   *)
(* of those that are open at the start, and each build.                    *)
EXTENDS PtyStartup, TLAPS

(* Every variable keeps its type (all of proxy.C:218-352).                 *)
LEMMA TypeStep == TypeOK /\ [Next]_vars => TypeOK'
<1> SUFFICES ASSUME TypeOK, [Next]_vars PROVE TypeOK'
  OBVIOUS
<1> USE DEF TypeOK, fixed, callVars, idVars, sockVars, Goto, Throw, Pcs
<1>1. CASE InitCall \/ UseHelper \/ DropPrivileges \/ Create
  BY <1>1 DEF InitCall, UseHelper, DropPrivileges, Create, Call
<1>2. CASE SanitiseStdfd
  <2>1. ASSUME NEW from \in Pcs, NEW fd \in 0..2, NEW to \in Pcs,
               Sanitise(from, fd, to)
        PROVE  TypeOK'
    <3>1. fds' \in FdTables
      BY <2>1 DEF Sanitise, FdTables, Files
    <3>2. QED BY <2>1, <3>1 DEF Sanitise
  <2>2. QED BY <1>2, <2>1 DEF SanitiseStdfd
<1>3. CASE CheckIds
  BY <1>3 DEF CheckIds, CheckThen
<1>4. CASE AlreadyUsed \/ PairFails
  BY <1>4 DEF AlreadyUsed, PairFails, Used
<1>5. CASE MakePair
  <2>1. fds' \in FdTables
    BY <1>5 DEF MakePair, FdTables, Files
  <2>2. sv' \in FdPairs
    BY <1>5 DEF MakePair, FdPairs
  <2>3. QED BY <1>5, <2>1, <2>2 DEF MakePair
<1>6. CASE MakeLockPair
  <2>1. fds' \in FdTables
    BY <1>6 DEF MakeLockPair, FdTables, Files
  <2>2. lv' \in FdPairs
    BY <1>6 DEF MakeLockPair, FdPairs
  <2>3. QED BY <1>6, <2>1, <2>2 DEF MakeLockPair
<1>7. CASE ForkFails
  BY <1>7 DEF ForkFails, NoHelper
<1>8. CASE Fork
  <2>1. fds' \in FdTables
    BY <1>8 DEF Fork, StartHelper, FdTables
  <2>2. sock_fd' \in Fds \cup {Nil} /\ lock_fd' \in Fds \cup {Nil}
    BY <1>8 DEF Fork, StartHelper, FdPairs
  <2>3. helper' \in Helpers
    BY <1>8 DEF Fork, StartHelper, Helpers
  <2>4. QED BY <1>8, <2>1, <2>2, <2>3 DEF Fork, StartHelper, Used
<1>9. CASE DropGroup \/ DropUser
  <2>1. /\ \A ids \in Uids : Dropping(ids) \in Uids
        /\ \A ids \in Gids : Dropping(ids) \in Gids
    BY DEF Dropping, AllSet, Uids, Gids
  <2>2. QED BY <1>9, <2>1 DEF DropGroup, DropUser
<1>10. CASE HelperCloses
  <2>1. helper \in Helpers
    BY <1>10 DEF HelperCloses, CloseFrom
  <2>2. [fd \in Fds |-> IF fd \in 0..(CloseLimit - 1) /\ fd \notin {sv[2], lv[2]}
                        THEN Nil ELSE helper.fds[fd]] \in FdTables
    BY <2>1 DEF Helpers, FdTables
  <2>3. helper' \in Helpers
    BY <1>10, <2>1, <2>2 DEF HelperCloses, CloseFrom, Helpers
  <2>4. QED BY <1>10, <2>3 DEF HelperCloses, CloseFrom
<1>11. CASE UNCHANGED vars
  BY <1>11 DEF vars
<1>12. QED
  BY <1>1, <1>2, <1>3, <1>4, <1>5, <1>6, <1>7, <1>8, <1>9, <1>10, <1>11 DEF Next

(* They hold at the start.                                                 *)
LEMMA TypeCorrectInit == Init => TypeOK
<1> SUFFICES ASSUME Init PROVE TypeOK
  OBVIOUS
<1>1. uid \in Uids /\ gid \in Gids
  BY DEF Init, Uids, Gids, Users, Groups
<1>2. fds \in FdTables
  BY DEF Init, FdTables, Files
<1>3. sv \in FdPairs /\ lv \in FdPairs
  BY DEF Init, FdPairs
<1>4. exec \in [uid : Uids, gid : Gids]
  BY <1>1 DEF Init
<1>5. QED BY <1>1, <1>2, <1>3, <1>4 DEF Init, TypeOK, Pcs

(* The types hold in every behaviour.                                      *)
THEOREM TypeCorrect == Spec => []TypeOK
BY TypeCorrectInit, TypeStep, PTL DEF Spec

-----------------------------------------------------------------------------
(* The pairs that use_helper is working with are what it made them, and    *)
(* sock_fd is set exactly when there is a helper.                          *)
Made(pair, mine, theirs) ==
  pair \in Fds \X Fds /\ fds[pair[1]] = mine /\ fds[pair[2]] = theirs

Locks == IF Reentrant THEN Made(lv, "lv0", "lv1") ELSE lv = <<Nil, Nil>>

PairsMade ==
  /\ pc \in {"lv", "fork"} => sock_fd = Nil /\ Made(sv, "sv0", "sv1")
  /\ pc = "lv" => Reentrant
  /\ pc = "fork" => Locks
  /\ ~Reentrant => lv = <<Nil, Nil>>

HelperStarted ==
  /\ sock_fd = Nil <=> helper = Nil
  /\ helper # Nil =>
       /\ sv \in Fds \X Fds /\ sock_fd = sv[1] /\ fds[sv[1]] = "sv0"
       /\ Reentrant => lv \in Fds \X Fds /\ lock_fd = lv[1] /\ fds[lv[1]] = "lv0"

(* The helper has its ends of the sockets, the program no longer has them, *)
(* and the program's ends stay with the helper only until it serves.       *)
EndsApart(pair, mine, theirs) ==
  /\ helper.fds[pair[2]] = theirs
  /\ fds[pair[2]] \notin {"sv1", "lv1"}
  /\ helper.pc = "close" => helper.fds[pair[1]] = mine
  /\ helper.pc = "serve" /\ pair[1] < CloseLimit => helper.fds[pair[1]] = Nil

HelperApart ==
  helper # Nil =>
    /\ EndsApart(sv, "sv0", "sv1")
    /\ Reentrant => EndsApart(lv, "lv0", "lv1")

StartInv == TypeOK /\ PairsMade /\ HelperStarted /\ HelperApart

(* What init has sanitised is open, and the sockets are behind it.         *)
StdioInv ==
  caller = "init" =>
    /\ pc \in {"stdout", "stderr", "ids", "use", "lv", "fork"} => fds[0] # Nil
    /\ pc \in {"stderr", "ids", "use", "lv", "fork"} => fds[1] # Nil
    /\ pc \in {"ids", "use", "lv", "fork"} => fds[2] # Nil
    /\ pc \in {"lv", "fork"} => sv[2] \notin 0..2
    /\ pc = "fork" => lv[2] \notin 0..2

(* An id that is not effective any more is gone, except where setuid alone *)
(* leaves it; and what needs root's rights happens before they are lost.   *)
Complete == build # "setuid" \/ exec.uid.eff = "root"

PrivInv ==
  /\ dropped => uid.eff = uid.real /\ gid.eff = gid.real
  /\ Complete =>
       /\ uid.eff = uid.real => uid.saved = uid.real
       /\ gid.eff = gid.real => gid.saved = gid.real
  /\ uid.eff \in {exec.uid.eff, uid.real}
  /\ uid.eff # exec.uid.eff \/ pc = "dropuser" => gid.eff = gid.real

-----------------------------------------------------------------------------
(* Nil is neither a descriptor nor anything that a descriptor refers to.   *)
LEMMA NilApart == Nil \notin Fds /\ Nil \notin Files
BY StartupAssumption DEF Fds

(* At first there is neither a pair nor a helper.                          *)
LEMMA StartInit == Init => PairsMade /\ HelperStarted /\ HelperApart
BY DEF Init, PairsMade, HelperStarted, HelperApart

(* Steps outside use_helper leave what it made.                            *)
LEMMA StartOthers ==
  ASSUME StartInv, pc' \notin {"lv", "fork"},
         UNCHANGED <<sockVars, fds, helper>>
  PROVE  PairsMade' /\ HelperStarted' /\ HelperApart'
BY DEF StartInv, PairsMade, HelperStarted, HelperApart, EndsApart, sockVars

(* sanitise_stdfd only opens what was closed.                              *)
LEMMA StartSanitise ==
  ASSUME StartInv, SanitiseStdfd
  PROVE  PairsMade' /\ HelperStarted' /\ HelperApart'
<1>1. /\ pc' \notin {"lv", "fork"}
      /\ UNCHANGED <<sockVars, helper>>
  BY DEF SanitiseStdfd, Sanitise, Goto, Throw
<1>2. ASSUME NEW fd \in Fds
      PROVE  fds'[fd] = fds[fd] \/ (fds[fd] = Nil /\ fds'[fd] = "null")
  <2>1. CASE fds' = fds
    BY <2>1
  <2>2. ASSUME NEW opened \in Fds, fds[opened] = Nil,
               fds' = [fds EXCEPT ![opened] = "null"]
        PROVE  fds'[fd] = fds[fd] \/ (fds[fd] = Nil /\ fds'[fd] = "null")
    BY <2>2 DEF StartInv, TypeOK, FdTables
  <2>3. QED BY <2>1, <2>2 DEF SanitiseStdfd, Sanitise, IsLowest, IsFree
<1>3. PairsMade'
  BY <1>1 DEF StartInv, PairsMade, sockVars
<1>4. HelperStarted'
  <2>1. \A fd \in Fds : fds[fd] \in {"sv0", "lv0"} => fds'[fd] = fds[fd]
    BY <1>2, NilApart DEF Files
  <2>2. QED BY <1>1, <2>1 DEF StartInv, HelperStarted, sockVars
<1>5. HelperApart'
  BY <1>1, <1>2 DEF StartInv, HelperStarted, HelperApart, EndsApart, sockVars
<1>6. QED BY <1>3, <1>4, <1>5

(* A new pair is where nothing was, so the older ends stay.                *)
LEMMA StartPairs ==
  ASSUME StartInv, MakePair \/ MakeLockPair
  PROVE  PairsMade' /\ HelperStarted' /\ HelperApart'
<1>1. sock_fd = Nil /\ helper = Nil
  BY DEF MakePair, MakeLockPair, StartInv, PairsMade, HelperStarted
<1>2. helper' = Nil /\ sock_fd' = Nil
  BY <1>1 DEF MakePair, MakeLockPair
<1>3. HelperStarted' /\ HelperApart'
  BY <1>2 DEF HelperStarted, HelperApart
<1>4. CASE MakePair
  <2>1. PICK a \in Fds, b \in Fds :
          /\ a < b
          /\ fds' = [fds EXCEPT ![a] = "sv0", ![b] = "sv1"]
          /\ sv' = <<a, b>>
    BY <1>4 DEF MakePair, IsPair
  <2>2. a # b
    BY <2>1, StartupAssumption DEF Fds
  <2>3. Made(sv, "sv0", "sv1")'
    BY <2>1, <2>2 DEF Made, StartInv, TypeOK, FdTables
  <2>4. pc' = (IF Reentrant THEN "lv" ELSE "fork") /\ lv' = lv
    BY <1>4 DEF MakePair, Goto
  <2>5. QED BY <1>2, <1>3, <2>3, <2>4 DEF PairsMade, Locks, StartInv
<1>5. CASE MakeLockPair
  <2>1. PICK a \in Fds, b \in Fds :
          /\ a < b
          /\ fds[a] = Nil /\ fds[b] = Nil
          /\ fds' = [fds EXCEPT ![a] = "lv0", ![b] = "lv1"]
          /\ lv' = <<a, b>>
    BY <1>5 DEF MakeLockPair, IsPair, IsLowest, IsFree
  <2>2. a # b
    BY <2>1, StartupAssumption DEF Fds
  <2>3. Made(lv, "lv0", "lv1")'
    BY <2>1, <2>2 DEF Made, StartInv, TypeOK, FdTables
  <2>4. Made(sv, "sv0", "sv1") /\ Reentrant
    BY <1>5 DEF MakeLockPair, StartInv, PairsMade
  <2>5. sv[1] \notin {a, b} /\ sv[2] \notin {a, b}
    BY <2>1, <2>4, NilApart DEF Made, Files
  <2>6. Made(sv, "sv0", "sv1")'
    BY <1>5, <2>1, <2>4, <2>5 DEF MakeLockPair, Made, StartInv, TypeOK, FdTables
  <2>7. pc' = "fork"
    BY <1>5 DEF MakeLockPair, Goto
  <2>8. QED BY <1>2, <1>3, <2>3, <2>4, <2>6, <2>7 DEF PairsMade, Locks
<1>6. QED BY <1>4, <1>5

(* A failing fork leaves the program without a helper, as it was.          *)
LEMMA StartForkFails ==
  ASSUME StartInv, ForkFails
  PROVE  PairsMade' /\ HelperStarted' /\ HelperApart'
BY DEF StartInv, ForkFails, NoHelper, Throw, Goto, PairsMade, HelperStarted,
       HelperApart, EndsApart

(* fork gives program and helper one end each of both pairs.               *)
LEMMA StartFork ==
  ASSUME StartInv, Fork
  PROVE  PairsMade' /\ HelperStarted' /\ HelperApart'
<1>1. /\ Made(sv, "sv0", "sv1") /\ Locks
      /\ fds \in FdTables
  BY DEF StartInv, PairsMade, Fork, StartHelper, TypeOK
<1>2. /\ fds' = [fd \in Fds |-> IF fd \in {sv[2], lv[2]} THEN Nil ELSE fds[fd]]
      /\ sock_fd' = sv[1] /\ lock_fd' = lv[1] /\ sv' = sv /\ lv' = lv
      /\ helper' = [pc |-> "close", fds |-> fds, uid |-> uid, gid |-> gid]
      /\ pc' \notin {"lv", "fork"}
  BY DEF Fork, StartHelper, Used, Goto
<1>3. sv[1] \in Fds /\ sv[1] # Nil
  BY <1>1, NilApart DEF Made
<1>4. sv[1] # sv[2] /\ sv[1] # lv[2] /\ fds'[sv[1]] = "sv0" /\ fds'[sv[2]] = Nil
  <2>1. CASE Reentrant
    BY <1>1, <1>2, <2>1 DEF Made, Locks
  <2>2. CASE ~Reentrant
    BY <1>1, <1>2, <1>3, <2>2 DEF Made, Locks
  <2>3. QED BY <2>1, <2>2
<1>5. Reentrant => /\ lv \in Fds \X Fds
                   /\ fds'[lv[1]] = "lv0" /\ fds'[lv[2]] = Nil
  BY <1>1, <1>2 DEF Made, Locks
<1>6. helper' # Nil
  <2>1. helper' \in Helpers
    BY <1>1, <1>2 DEF StartInv, TypeOK, Helpers
  <2>2. QED BY <2>1, StartupAssumption
<1>7. PairsMade'
  BY <1>2 DEF StartInv, PairsMade
<1>8. HelperStarted'
  BY <1>1, <1>2, <1>3, <1>4, <1>5, <1>6 DEF HelperStarted, Made
<1>9. HelperApart'
  <2>1. EndsApart(sv, "sv0", "sv1")'
    BY <1>1, <1>2, <1>4, NilApart DEF EndsApart, Made, Files
  <2>2. Reentrant => EndsApart(lv, "lv0", "lv1")'
    BY <1>1, <1>2, <1>5, NilApart DEF EndsApart, Made, Locks, Files
  <2>3. QED BY <2>1, <2>2 DEF HelperApart
<1>10. QED BY <1>7, <1>8, <1>9

(* The helper closes the program's ends and keeps its own.                 *)
LEMMA StartCloses ==
  ASSUME StartInv, HelperCloses
  PROVE  PairsMade' /\ HelperStarted' /\ HelperApart'
<1>1. /\ helper # Nil /\ helper \in Helpers
      /\ fds \in FdTables
      /\ UNCHANGED <<pc, fds, sv, lv, sock_fd, lock_fd>>
  BY DEF StartInv, TypeOK, HelperCloses, CloseFrom, callVars, sockVars
<1>2. helper' = [helper EXCEPT !.pc = "serve",
        !.fds = [fd \in Fds |->
                   IF fd \in 0..(CloseLimit - 1) /\ fd \notin {sv[2], lv[2]}
                   THEN Nil ELSE helper.fds[fd]]]
  BY DEF HelperCloses, CloseFrom
<1>3. helper' # Nil
  <2>1. [fd \in Fds |-> IF fd \in 0..(CloseLimit - 1) /\ fd \notin {sv[2], lv[2]}
                        THEN Nil ELSE helper.fds[fd]] \in FdTables
    BY <1>1 DEF Helpers, FdTables
  <2>2. helper' \in Helpers
    BY <1>1, <1>2, <2>1 DEF Helpers
  <2>3. QED BY <2>2, StartupAssumption
<1>4. PairsMade'
  BY <1>1 DEF StartInv, PairsMade, Made, Locks
<1>5. HelperStarted'
  BY <1>1, <1>3 DEF StartInv, HelperStarted
<1>6. helper.pc = "close"
  BY DEF HelperCloses, CloseFrom
<1>7. /\ sv \in Fds \X Fds /\ EndsApart(sv, "sv0", "sv1")
      /\ Reentrant => lv \in Fds \X Fds /\ EndsApart(lv, "lv0", "lv1")
      /\ ~Reentrant => lv = <<Nil, Nil>>
  BY <1>1 DEF StartInv, HelperStarted, HelperApart, PairsMade
<1>8. /\ sv[1] \notin {sv[2], lv[2]}
      /\ Reentrant => lv[1] \notin {sv[2], lv[2]}
  BY <1>6, <1>7, NilApart DEF EndsApart
<1>9. ASSUME NEW fd \in Fds
      PROVE  /\ fd < CloseLimit /\ fd \notin {sv[2], lv[2]} => helper'.fds[fd] = Nil
             /\ fd \in {sv[2], lv[2]} => helper'.fds[fd] = helper.fds[fd]
  <2>1. fd < CloseLimit => fd \in 0..(CloseLimit - 1)
    BY StartupAssumption DEF Fds
  <2>2. helper'.fds[fd] = IF fd \in 0..(CloseLimit - 1) /\ fd \notin {sv[2], lv[2]}
                          THEN Nil ELSE helper.fds[fd]
    BY <1>1, <1>2 DEF Helpers
  <2>3. QED BY <2>1, <2>2
<1>10. helper'.pc = "serve"
  BY <1>1, <1>2 DEF Helpers
<1>11. EndsApart(sv, "sv0", "sv1")'
  BY <1>1, <1>7, <1>8, <1>9, <1>10 DEF EndsApart
<1>12. Reentrant => EndsApart(lv, "lv0", "lv1")'
  BY <1>1, <1>7, <1>8, <1>9, <1>10 DEF EndsApart
<1>13. QED BY <1>4, <1>5, <1>11, <1>12 DEF HelperApart

(* Every step keeps the invariant of the start.                            *)
LEMMA StartStep == StartInv /\ [Next]_vars => StartInv'
<1> SUFFICES ASSUME StartInv, [Next]_vars PROVE StartInv'
  OBVIOUS
<1>1. TypeOK'
  BY TypeStep DEF StartInv
<1>2. ASSUME InitCall \/ UseHelper \/ DropPrivileges \/ CheckIds \/ AlreadyUsed
               \/ PairFails \/ DropGroup \/ DropUser
      PROVE  pc' \notin {"lv", "fork"} /\ UNCHANGED <<sockVars, fds, helper>>
  BY <1>2 DEF InitCall, UseHelper, DropPrivileges, CheckIds, CheckThen,
     AlreadyUsed, PairFails, DropGroup, DropUser, Call, Goto, Throw, Used
<1>3. ASSUME Create
      PROVE  pc' \notin {"lv", "fork"} /\ UNCHANGED <<sockVars, fds, helper>>
  BY <1>3 DEF Create, Idle, callVars
<1>4. ASSUME UNCHANGED vars
      PROVE  PairsMade' /\ HelperStarted' /\ HelperApart'
  BY <1>4 DEF vars, callVars, sockVars, StartInv, PairsMade, Made, Locks,
     HelperStarted, HelperApart, EndsApart
<1>5. PairsMade' /\ HelperStarted' /\ HelperApart'
  BY <1>2, <1>3, <1>4, StartOthers, StartSanitise, StartPairs, StartForkFails,
     StartFork, StartCloses DEF Next
<1>6. QED BY <1>1, <1>5 DEF StartInv

(* The invariant of the start says what HelperUsable and HelperSeesEof do. *)
LEMMA StartImplies == StartInv => HelperUsable /\ HelperSeesEof
<1> SUFFICES ASSUME StartInv PROVE HelperUsable /\ HelperSeesEof
  OBVIOUS
<1>1. HelperUsable
  BY NilApart DEF StartInv, HelperStarted, HelperUsable
<1>2. ASSUME helper # Nil, NEW pair \in {sv, lv}, pair[1] # Nil
      PROVE  EndsApart(pair, "sv0", "sv1") \/ EndsApart(pair, "lv0", "lv1")
  BY <1>2 DEF StartInv, PairsMade, HelperApart
<1>3. HelperSeesEof
  BY <1>2 DEF HelperSeesEof, EndsApart
<1>4. QED BY <1>1, <1>3

(* A second use_helper returns at once only if there is a helper that can  *)
(* be spoken to (proxy.C:221), however many starts have failed before.     *)
THEOREM UsableHelper == Spec => []HelperUsable
<1>1. Init => StartInv
  BY TypeCorrectInit, StartInit DEF StartInv
<1>2. QED BY <1>1, StartStep, StartImplies, PTL DEF Spec

(* The helper does not keep itself alive: no end of the program's sockets  *)
(* is left with it that it could close (proxy.C:268-270).                  *)
THEOREM SeesEof == Spec => []HelperSeesEof
<1>1. Init => StartInv
  BY TypeCorrectInit, StartInit DEF StartInv
<1>2. QED BY <1>1, StartStep, StartImplies, PTL DEF Spec

(* There is one helper, for good (proxy.C:221).                            *)
THEOREM OneForAll == Spec => OneHelper
<1>1. Init => StartInv
  BY TypeCorrectInit, StartInit DEF StartInv
<1>2. ASSUME StartInv, [Next]_vars, helper # Nil
      PROVE  /\ helper' # Nil
             /\ helper'.uid = helper.uid /\ helper'.gid = helper.gid
             /\ helper.pc = "serve" => helper' = helper
  <2>1. ~Fork
    BY <1>2 DEF Fork, StartHelper, StartInv, PairsMade, HelperStarted
  <2>2. CASE HelperCloses
    <3>1. helper' # Nil
      <4>1. StartInv'
        BY <1>2, StartStep
      <4>2. sock_fd' = sock_fd
        BY <2>2 DEF HelperCloses, CloseFrom, sockVars
      <4>3. QED BY <1>2, <4>1, <4>2 DEF StartInv, HelperStarted
    <3>2. helper \in Helpers
      BY <1>2 DEF StartInv, TypeOK
    <3>3. QED BY <2>2, <3>1, <3>2 DEF HelperCloses, CloseFrom, Helpers
  <2>3. CASE ~HelperCloses
    <3>1. helper' = helper
      BY <1>2, <2>1, <2>3 DEF Next, vars, InitCall, UseHelper, DropPrivileges,
         Create, SanitiseStdfd, Sanitise, CheckIds, CheckThen, AlreadyUsed,
         PairFails, MakePair, MakeLockPair, ForkFails, NoHelper, DropGroup, DropUser
    <3>2. QED BY <1>2, <3>1
  <2>4. QED BY <2>2, <2>3
<1>3. QED BY <1>1, <1>2, StartStep, PTL DEF Spec, OneHelper

-----------------------------------------------------------------------------
(* exec leaves effective and saved ids alike.                              *)
LEMMA PrivInit == Init => PrivInv
BY DEF Init, PrivInv, Complete

(* What dropping does to ids, whoever they belong to.                      *)
LEMMA DroppingIds ==
  /\ \A ids \in Uids \cup Gids :
       /\ Dropping(ids).real = ids.real
       /\ Dropping(ids).eff = ids.real
       /\ Dropping(ids).saved \in {ids.saved, ids.real}
       /\ build # "setuid" \/ uid.eff = "root" => Dropping(ids).saved = ids.real
BY DEF Dropping, AllSet, Uids, Gids

(* Every step keeps the invariant of the privileges.  The group goes first *)
(* because afterwards the program may no longer be root.                   *)
LEMMA PrivStep == TypeOK /\ PrivInv /\ [Next]_vars => PrivInv'
<1> SUFFICES ASSUME TypeOK, PrivInv, [Next]_vars PROVE PrivInv'
  OBVIOUS
<1>1. uid \in Uids /\ gid \in Gids
  BY DEF TypeOK
<1>2. ASSUME UNCHANGED <<fixed, idVars, dropped>>, pc' # "dropuser" \/ pc' = pc
      PROVE  PrivInv'
  BY <1>2 DEF PrivInv, Complete, fixed, idVars
<1>3. ASSUME \/ InitCall \/ UseHelper \/ DropPrivileges \/ Create
             \/ SanitiseStdfd \/ AlreadyUsed \/ PairFails \/ MakePair
             \/ MakeLockPair \/ ForkFails \/ Fork \/ HelperCloses
             \/ UNCHANGED vars
      PROVE  /\ UNCHANGED <<fixed, idVars, dropped>>
             /\ pc' # "dropuser" \/ pc' = pc
  BY <1>3 DEF vars, callVars, Call, Goto, Throw, Used, InitCall, UseHelper,
     DropPrivileges, Create, SanitiseStdfd, Sanitise, AlreadyUsed, PairFails,
     MakePair, MakeLockPair, ForkFails, NoHelper, Fork, StartHelper,
     HelperCloses, CloseFrom
<1>4. CASE CheckIds
  <2>1. /\ UNCHANGED <<fixed, idVars>> /\ pc' # "dropuser"
        /\ dropped' => dropped \/ ~SetId
    BY <1>4 DEF CheckIds, CheckThen, Goto
  <2>2. QED BY <2>1 DEF PrivInv, Complete, SetId, fixed, idVars
<1>5. CASE DropGroup
  <2>1. /\ UNCHANGED <<fixed, uid, dropped>> /\ gid' = Dropping(gid)
    BY <1>5 DEF DropGroup
  <2>2. /\ gid'.real = gid.real /\ gid'.eff = gid.real
        /\ gid'.saved \in {gid.saved, gid.real}
        /\ build # "setuid" \/ uid.eff = "root" => gid'.saved = gid.real
    BY <1>1, <2>1, DroppingIds
  <2>3. Complete => gid'.saved = gid'.real
    <3>1. CASE build # "setuid" \/ uid.eff = "root"
      BY <2>2, <3>1
    <3>2. CASE Complete /\ build = "setuid" /\ uid.eff # "root"
      <4>1. gid.saved = gid.real
        BY <3>2 DEF Complete, PrivInv
      <4>2. QED BY <2>2, <4>1
    <3>3. QED BY <3>1, <3>2
  <2>4. QED BY <2>1, <2>2, <2>3 DEF PrivInv, Complete, fixed
<1>6. CASE DropUser
  <2>1. /\ UNCHANGED <<fixed, gid>> /\ uid' \in {Dropping(uid), uid}
        /\ pc = "dropuser" /\ pc' # "dropuser"
        /\ dropped' => dropped \/ (uid'.eff = uid'.real /\ gid.eff = gid.real)
    BY <1>6 DEF DropUser, Goto, Throw
  <2>2. CASE uid' = uid
    BY <2>1, <2>2 DEF PrivInv, Complete, fixed
  <2>3. CASE uid' = Dropping(uid)
    <3>1. /\ uid'.real = uid.real /\ uid'.eff = uid.real
          /\ uid'.saved \in {uid.saved, uid.real}
          /\ build # "setuid" \/ uid.eff = "root" => uid'.saved = uid.real
      BY <1>1, <2>3, DroppingIds
    <3>2. Complete => uid'.saved = uid.real
      <4>1. CASE build # "setuid" \/ uid.eff = "root"
        BY <3>1, <4>1
      <4>2. CASE Complete /\ build = "setuid" /\ uid.eff # "root"
        <5>1. uid.eff = uid.real /\ uid.saved = uid.real
          BY <4>2 DEF Complete, PrivInv
        <5>2. QED BY <3>1, <5>1
      <4>3. QED BY <4>1, <4>2
    <3>3. gid.eff = gid.real
      BY <2>1 DEF PrivInv
    <3>4. QED BY <2>1, <3>1, <3>2, <3>3 DEF PrivInv, Complete, fixed
  <2>4. QED BY <2>1, <2>2, <2>3
<1>7. QED BY <1>2, <1>3, <1>4, <1>5, <1>6 DEF Next

(* init and drop_privileges leave no way back, with every function that    *)
(* configure may have found, although setting the user id may fail and the *)
(* call be repeated (proxy.C:329-352).                                     *)
THEOREM NoWayBack == Spec => []PrivilegesGone
<1>1. PrivInv => PrivilegesGone
  BY DEF PrivInv, PrivilegesGone, Complete
<1>2. QED BY <1>1, TypeCorrectInit, TypeStep, PrivInit, PrivStep, PTL DEF Spec

-----------------------------------------------------------------------------
(* At first the program is not in init.                                    *)
LEMMA StdioInit == Init => StdioInv
BY DEF Init, StdioInv

(* What is open stays open, and a pair takes numbers that were free.       *)
LEMMA StdioStep == TypeOK /\ StartInv /\ StdioInv /\ [Next]_vars => StdioInv'
<1> SUFFICES ASSUME TypeOK, StartInv, StdioInv, [Next]_vars PROVE StdioInv'
  OBVIOUS
<1>1. 0 \in Fds /\ 1 \in Fds /\ 2 \in Fds /\ 0..2 \subseteq Fds /\ fds \in FdTables
  BY StartupAssumption DEF Fds, TypeOK
<1>2. CASE SanitiseStdfd
  <2>1. ASSUME NEW from \in {"stdin", "stdout", "stderr"}, NEW fd \in 0..2,
               NEW to \in {"stdout", "stderr", "ids"},
               Sanitise(from, fd, to)
        PROVE  /\ \A other \in Fds : fds[other] # Nil => fds'[other] # Nil
               /\ pc' \in {to, "thrown"} /\ (pc' = to => fds'[fd] # Nil)
               /\ pc = from /\ caller' = caller
    BY <1>1, <2>1, NilApart DEF Sanitise, IsFree, Goto, Throw, FdTables, Files
  <2>2. QED
    BY <1>1, <1>2, <2>1 DEF SanitiseStdfd, StdioInv
<1>3. CASE MakePair
  <2>1. /\ pc = "use" /\ caller' = caller
        /\ pc' \in {"lv", "fork"} /\ (pc' = "fork" => ~Reentrant) /\ lv' = lv
    BY <1>3 DEF MakePair, Goto
  <2>2. PICK a \in Fds, b \in Fds :
          /\ fds[a] = Nil /\ fds[b] = Nil
          /\ fds' = [fds EXCEPT ![a] = "sv0", ![b] = "sv1"]
          /\ sv' = <<a, b>>
    BY <1>3 DEF MakePair, IsPair, IsLowest, IsFree
  <2>3. ~Reentrant => lv = <<Nil, Nil>> /\ Nil \notin 0..2
    BY <1>1, NilApart DEF StartInv, PairsMade
  <2>4. ASSUME caller = "init"
        PROVE  \A fd \in 0..2 : fds'[fd] # Nil /\ fd # b
    BY <1>1, <2>1, <2>2, <2>4 DEF StdioInv, FdTables
  <2>5. QED BY <2>1, <2>2, <2>3, <2>4 DEF StdioInv
<1>4. CASE MakeLockPair
  <2>1. /\ pc = "lv" /\ caller' = caller /\ pc' = "fork" /\ sv' = sv
    BY <1>4 DEF MakeLockPair, Goto
  <2>2. PICK a \in Fds, b \in Fds :
          /\ fds[a] = Nil /\ fds[b] = Nil
          /\ fds' = [fds EXCEPT ![a] = "lv0", ![b] = "lv1"]
          /\ lv' = <<a, b>>
    BY <1>4 DEF MakeLockPair, IsPair, IsLowest, IsFree
  <2>3. ASSUME caller = "init"
        PROVE  \A fd \in 0..2 : fds'[fd] # Nil /\ fd # b
    BY <1>1, <2>1, <2>2, <2>3 DEF StdioInv, FdTables
  <2>4. QED BY <2>1, <2>2, <2>3 DEF StdioInv
<1>5. CASE Fork \/ ForkFails \/ PairFails \/ AlreadyUsed \/ DropGroup \/ DropUser
           \/ UseHelper \/ DropPrivileges
  <2>1. caller' = "init" => pc' \in {"idle", "thrown", "drop", "dropuser"}
    BY <1>5 DEF Fork, StartHelper, ForkFails, NoHelper, PairFails, AlreadyUsed,
       DropGroup, DropUser, UseHelper, DropPrivileges, Used, Goto, Throw, Call
  <2>2. QED BY <2>1 DEF StdioInv
<1>6. CASE InitCall
  BY <1>6 DEF InitCall, Call, StdioInv
<1>7. CASE CheckIds
  BY <1>7 DEF CheckIds, CheckThen, Goto, StdioInv, sockVars
<1>8. CASE Create \/ HelperCloses \/ UNCHANGED vars
  BY <1>8 DEF Create, HelperCloses, CloseFrom, vars, callVars, sockVars, StdioInv
<1>9. QED
  BY <1>2, <1>3, <1>4, <1>5, <1>6, <1>7, <1>8 DEF Next

(* The program's standard descriptors never become the helper's sockets    *)
(* when init starts the helper (proxy.C:294-313).                          *)
THEOREM StdioStaysOut == Spec => StdioKept
<1>1. Init => TypeOK /\ StartInv /\ StdioInv
  BY TypeCorrectInit, StartInit, StdioInit DEF StartInv
<1>2. ASSUME TypeOK, StartInv, StdioInv, [Next]_vars,
             caller = "init", pc \in {"use", "lv", "fork"}
      PROVE  \A fd \in 0..2 : fds'[fd] = fds[fd]
  <2>1. 0..2 \subseteq Fds /\ fds \in FdTables /\ \A fd \in 0..2 : fds[fd] # Nil
    BY <1>2, StartupAssumption DEF Fds, TypeOK, StdioInv
  <2>2. CASE MakePair \/ MakeLockPair
    <3>1. PICK a \in Fds, b \in Fds, mine \in Files, theirs \in Files :
            /\ fds[a] = Nil /\ fds[b] = Nil
            /\ fds' = [fds EXCEPT ![a] = mine, ![b] = theirs]
      BY <2>2 DEF MakePair, MakeLockPair, IsPair, IsLowest, IsFree, Files
    <3>2. QED BY <2>1, <3>1 DEF FdTables
  <2>3. CASE Fork
    <3>1. \A fd \in 0..2 : fd \notin {sv[2], lv[2]}
      BY <1>2, <2>3 DEF StdioInv, Fork, StartHelper
    <3>2. fds' = [fd \in Fds |-> IF fd \in {sv[2], lv[2]} THEN Nil ELSE fds[fd]]
      BY <2>3 DEF Fork, StartHelper
    <3>3. QED BY <2>1, <3>1, <3>2
  <2>4. CASE ~(MakePair \/ MakeLockPair \/ Fork)
    <3>1. ~SanitiseStdfd
      BY <1>2 DEF SanitiseStdfd, Sanitise
    <3>2. fds' = fds
      BY <1>2, <2>4, <3>1 DEF Next, vars, InitCall, UseHelper, DropPrivileges,
         Create, CheckIds, CheckThen, AlreadyUsed, PairFails, ForkFails,
         NoHelper, DropGroup, DropUser, HelperCloses, CloseFrom
    <3>3. QED BY <3>2
  <2>5. QED BY <2>2, <2>3, <2>4
<1>3. QED
  BY <1>1, <1>2, TypeStep, StartStep, StdioStep, PTL DEF Spec, StdioKept

-----------------------------------------------------------------------------
(* What the program and its helper still have of the ids that the program  *)
(* started with: either all user ids, or they are dropped for good and     *)
(* init will find that no helper is needed; the group may go on its own.   *)
(* In init, on the way to drop_privileges, they are not dropped, and after *)
(* use_helper there is a helper with the user ids.                         *)
KeepInv ==
  /\ exec.gid.saved = exec.gid.eff /\ gid.real = exec.gid.real
  /\ uid = exec.uid \/ ~SetId
  /\ gid = exec.gid \/ (gid.eff = gid.real /\ exec.gid.eff # exec.gid.real)
  /\ helper # Nil =>
       /\ helper.uid = exec.uid \/ ~SetId
       /\ helper.gid = exec.gid \/ gid # exec.gid
  /\ caller = "init" /\ pc \in {"use", "lv", "fork"} => SetId
  /\ caller = "init" /\ pc \in {"drop", "dropuser"} => helper # Nil /\ helper.uid = exec.uid

(* At the start nothing is dropped, and there is no helper.                *)
LEMMA KeepInit == Init => KeepInv
<1> SUFFICES ASSUME Init PROVE KeepInv
  OBVIOUS
<1>1. PICK r, e \in Groups : gid = [real |-> r, eff |-> e, saved |-> e]
  BY DEF Init
<1>2. QED BY <1>1 DEF Init, KeepInv

(* Steps that change no ids keep them, if they enter use_helper and        *)
(* drop_privileges as init does.                                           *)
LEMMA KeepOthers ==
  ASSUME KeepInv, UNCHANGED <<fixed, idVars, helper>>,
         caller' = "init" =>
           \/ pc' \in {"idle", "thrown", "stdin", "stdout", "stderr", "ids"}
           \/ pc' \in {"use", "lv", "fork"} /\ (SetId \/ (caller = "init" /\ pc \in {"use", "lv", "fork"}))
           \/ pc' \in {"drop", "dropuser"} /\ helper # Nil /\ helper.uid = exec.uid
  PROVE  KeepInv'
BY DEF KeepInv, SetId, fixed, idVars

(* Each step, with what use_helper leaves for drop_privileges, and the     *)
(* user ids dropped only by drop_privileges itself.                        *)
LEMMA KeepStep == StartInv /\ PrivInv /\ KeepInv /\ [Next]_vars => KeepInv'
<1> SUFFICES ASSUME StartInv, PrivInv, KeepInv, [Next]_vars PROVE KeepInv'
  OBVIOUS
<1>1. uid \in Uids /\ gid \in Gids /\ helper \in Helpers \cup {Nil}
  BY DEF StartInv, TypeOK
<1>2. CASE InitCall \/ UseHelper \/ DropPrivileges
  BY <1>2, KeepOthers DEF InitCall, UseHelper, DropPrivileges, Call
<1>3. CASE Create
  BY <1>3 DEF Create, callVars, fixed, idVars, KeepInv, SetId
<1>4. CASE SanitiseStdfd
  BY <1>4, KeepOthers DEF SanitiseStdfd, Sanitise, Goto, Throw
<1>5. CASE CheckIds
  BY <1>5, KeepOthers DEF CheckIds, CheckThen, Goto
<1>6. CASE AlreadyUsed
  <2>1. sock_fd # Nil /\ pc = "use" /\ UNCHANGED <<fixed, idVars, helper, caller>>
        /\ pc' = IF caller = "init" THEN "drop" ELSE "idle"
    BY <1>6 DEF AlreadyUsed, Used, Goto
  <2>2. caller = "init" => helper # Nil /\ helper.uid = exec.uid
    BY <2>1 DEF StartInv, HelperStarted, KeepInv
  <2>3. QED BY <2>1, <2>2, KeepOthers
<1>7. CASE PairFails \/ ForkFails
  BY <1>7, KeepOthers DEF PairFails, ForkFails, NoHelper, Throw, Goto
<1>8. CASE MakePair \/ MakeLockPair
  <2>1. /\ pc \in {"use", "lv"} /\ pc' \in {"lv", "fork"}
        /\ UNCHANGED <<fixed, idVars, helper, caller>>
    BY <1>8 DEF MakePair, MakeLockPair, Goto
  <2>2. QED BY <2>1, KeepOthers
<1>9. CASE Fork
  <2>1. /\ pc = "fork" /\ UNCHANGED <<fixed, idVars, caller>>
        /\ pc' = IF caller = "init" THEN "drop" ELSE "idle"
        /\ helper' = [pc |-> "close", fds |-> fds, uid |-> uid, gid |-> gid]
    BY <1>9 DEF Fork, StartHelper, Used, Goto
  <2>2. helper' # Nil
    <3>1. helper' \in Helpers
      BY <1>1, <2>1 DEF StartInv, TypeOK, Helpers
    <3>2. QED BY <3>1, StartupAssumption
  <2>3. helper'.uid = uid /\ helper'.gid = gid
    BY <2>1
  <2>4. QED BY <2>1, <2>2, <2>3 DEF KeepInv, SetId, fixed, idVars
<1>10. CASE DropGroup
  <2>1. /\ pc = "drop" /\ pc' = "dropuser" /\ gid' = Dropping(gid)
        /\ UNCHANGED <<fixed, uid, caller, helper>>
    BY <1>10 DEF DropGroup, Goto
  <2>2. /\ gid'.real = gid.real /\ gid'.eff = gid.real
        /\ gid'.saved \in {gid.saved, gid.real}
    BY <1>1, <2>1, DroppingIds
  <2>3. gid = exec.gid /\ exec.gid.eff = exec.gid.real => gid' = gid
    <3>1. gid' \in Gids
      BY <1>1, <2>1 DEF Dropping, AllSet, Gids
    <3>2. QED BY <1>1, <2>2, <3>1 DEF KeepInv, Gids
  <2>4. gid' = exec.gid => gid = exec.gid
    BY <2>2, <2>3 DEF KeepInv
  <2>5. QED BY <2>1, <2>2, <2>3, <2>4 DEF KeepInv, SetId, fixed
<1>11. CASE DropUser
  <2>1. /\ pc = "dropuser" /\ pc' \in {"idle", "thrown"} /\ uid' \in {Dropping(uid), uid}
        /\ UNCHANGED <<fixed, gid, caller, helper>>
    BY <1>11 DEF DropUser, Goto, Throw
  <2>2. gid.eff = gid.real
    BY <2>1 DEF PrivInv
  <2>3. uid' = uid \/ uid'.eff = uid'.real
    BY <1>1, <2>1, DroppingIds
  <2>4. QED BY <2>1, <2>2, <2>3 DEF KeepInv, SetId, fixed
<1>12. CASE HelperCloses
  <2>1. /\ helper # Nil /\ UNCHANGED <<fixed, callVars, idVars>>
        /\ helper'.uid = helper.uid /\ helper'.gid = helper.gid
    BY <1>1, <1>12 DEF HelperCloses, CloseFrom, Helpers
  <2>2. sock_fd # Nil /\ UNCHANGED sock_fd
    BY <1>12, <2>1 DEF StartInv, HelperStarted, HelperCloses, CloseFrom, sockVars
  <2>3. helper' # Nil
    BY <2>2, StartStep DEF StartInv, HelperStarted
  <2>4. QED BY <2>1, <2>3 DEF KeepInv, SetId, fixed, callVars, idVars
<1>13. CASE UNCHANGED vars
  BY <1>13 DEF vars, fixed, idVars, callVars, KeepInv, SetId
<1>14. QED
  BY <1>2, <1>3, <1>4, <1>5, <1>6, <1>7, <1>8, <1>9, <1>10, <1>11, <1>12, <1>13 DEF Next

(* When init drops the privileges, a helper has them: use_helper comes     *)
(* before drop_privileges, and returns at once only to a helper that was   *)
(* started with the same user ids, whatever calls have failed or dropped   *)
(* ids before (proxy.C:294-326).                                           *)
THEOREM HelperIsPrivileged == Spec => []HelperKeepsPrivileges
<1>1. Init => StartInv /\ PrivInv /\ KeepInv
  BY TypeCorrectInit, StartInit, PrivInit, KeepInit DEF StartInv
<1>2. StartInv /\ PrivInv /\ KeepInv /\ [Next]_vars => StartInv' /\ PrivInv' /\ KeepInv'
  BY StartStep, PrivStep, KeepStep DEF StartInv
<1>3. KeepInv => HelperKeepsPrivileges
  BY DEF KeepInv, HelperKeepsPrivileges
<1>4. QED BY <1>1, <1>2, <1>3, PTL DEF Spec

=============================================================================
