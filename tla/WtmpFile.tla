------------------------------ MODULE WtmpFile ------------------------------
(***************************************************************************)
(* updwtmp of src/src/logging.C: how processes append records to one file. *)
(*                                                                         *)
(* Every system call is a step.  A record takes two units of the file, so  *)
(* that a write can be cut short between them.  The disk holds MaxSize     *)
(* units; position MaxSize also stands for all positions behind it, up to  *)
(* which a lock without a length reaches.  Locks belong to processes, each *)
(* of which is in one call of updwtmp at a time.  Another program may hold *)
(* the whole file locked for as long as it likes, and append to it.        *)
(***************************************************************************)
EXTENDS Integers, Sequences

CONSTANTS
  Writers,   \* processes in updwtmp
  Other,     \* another program
  Tries,     \* attempts to lock: 10
  MaxSize    \* units that fit on the disk

ASSUME FileAssumption ==
  /\ Other \notin Writers
  /\ Tries \in Nat \ {0}
  /\ MaxSize \in Nat

Half   == [of : Writers \cup {Other}, half : {1, 2}]
Hole   == [of |-> Other, half |-> 0]
Places == 0..MaxSize

VARIABLES
  pc,      \* the next system call of each writer
  retry,   \* attempts that it has left
  size,    \* st_size that fstat told it
  file,
  lock,    \* the places that each program has locked
  torn     \* a writer died before it could remove a bad write

vars == <<pc, retry, size, file, lock, torn>>

Eof == Len(file)

Init ==
  /\ pc    = [w \in Writers |-> "idle"]
  /\ retry = [w \in Writers |-> 0]
  /\ size  = [w \in Writers |-> 0]
  /\ file  = <<>>
  /\ lock  = [p \in Writers \cup {Other} |-> {}]
  /\ torn  = FALSE

Goto(w, to) == pc' = [pc EXCEPT ![w] = to]

(* The file is opened, or updwtmp returns at once.                         *)
Open(w) ==
  /\ pc[w] = "idle"
  /\ Goto(w, "lock")
  /\ retry' = [retry EXCEPT ![w] = Tries]
  /\ UNCHANGED <<size, file, lock, torn>>

(* Mutant of FromEof: a lock as long as the record.                        *)
FromEofOneRecord == Eof..(IF Eof + 1 < MaxSize THEN Eof + 1 ELSE MaxSize)

(* From the current end of the file to the largest possible one.           *)
FromEof == Eof..MaxSize

Locked(p, places) == \E q \in DOMAIN lock : q # p /\ lock[q] \cap places # {}

GetLock(w) ==
  /\ pc[w] = "lock"
  /\ ~Locked(w, FromEof)
  /\ lock' = [lock EXCEPT ![w] = @ \cup FromEof]
  /\ Goto(w, "fstat")
  /\ UNCHANGED <<retry, size, file, torn>>

(* Mutant of Busy: the attempts start over.                                *)
BusyForever(w) ==
  /\ pc[w] = "lock"
  /\ Locked(w, FromEof)
  /\ retry' = [retry EXCEPT ![w] = IF @ = 1 THEN Tries ELSE @ - 1]
  /\ UNCHANGED <<pc, size, file, lock, torn>>

(* Mutant of Busy: the count is not looked at.                             *)
BusyCountsOn(w) ==
  /\ pc[w] = "lock"
  /\ Locked(w, FromEof)
  /\ retry' = [retry EXCEPT ![w] = @ - 1]
  /\ UNCHANGED <<pc, size, file, lock, torn>>

(* Mutant of Busy: gotlock is not looked at.                               *)
BusyGoesOn(w) ==
  /\ pc[w] = "lock"
  /\ Locked(w, FromEof)
  /\ retry' = [retry EXCEPT ![w] = @ - 1]
  /\ Goto(w, IF retry'[w] = 0 THEN "fstat" ELSE "lock")
  /\ UNCHANGED <<size, file, lock, torn>>

(* EAGAIN or EACCES: the next attempt follows at once, if there is one.    *)
Busy(w) ==
  /\ pc[w] = "lock"
  /\ Locked(w, FromEof)
  /\ retry' = [retry EXCEPT ![w] = @ - 1]
  /\ Goto(w, IF retry'[w] = 0 THEN "close" ELSE "lock")
  /\ UNCHANGED <<size, file, lock, torn>>

(* Any other error ends the attempts.                                      *)
CannotLock(w) ==
  /\ pc[w] = "lock"
  /\ Goto(w, "close")
  /\ UNCHANGED <<retry, size, file, lock, torn>>

(* Without its size the file is left alone.                                *)
Fstat(w) ==
  /\ pc[w] = "fstat"
  /\ \/ Goto(w, "write") /\ size' = [size EXCEPT ![w] = Eof]
     \/ Goto(w, "unlock") /\ UNCHANGED size
  /\ UNCHANGED <<retry, file, lock, torn>>

Units(p, n) == [i \in 1..n |-> [of |-> p, half |-> i]]

(* Mutant of Write: what write returns is not looked at.                   *)
WriteUnchecked(w) ==
  /\ pc[w] = "write"
  /\ \E n \in 0..2 :
       /\ Eof + n <= MaxSize
       /\ file' = file \o Units(w, n)
       /\ Goto(w, "unlock")
  /\ UNCHANGED <<retry, size, lock, torn>>

(* O_APPEND: the kernel writes at the end, the record or a part of it.     *)
Write(w) ==
  /\ pc[w] = "write"
  /\ \E n \in 0..2 :
       /\ Eof + n <= MaxSize
       /\ file' = file \o Units(w, n)
       /\ Goto(w, IF n = 2 THEN "unlock" ELSE "ftruncate")
  /\ UNCHANGED <<retry, size, lock, torn>>

(* To the size that fstat saw; a file shorter than that would be filled up.*)
Ftruncate(w) ==
  /\ pc[w] = "ftruncate"
  /\ file' = [i \in 1..size[w] |-> IF i <= Eof THEN file[i] ELSE Hole]
  /\ Goto(w, "unlock")
  /\ UNCHANGED <<retry, size, lock, torn>>

(* The same flock as before, whose l_start counts from the new end: what   *)
(* has just been written stays locked.                                     *)
Unlock(w) ==
  /\ pc[w] = "unlock"
  /\ lock' = [lock EXCEPT ![w] = @ \ FromEof]
  /\ Goto(w, "close")
  /\ UNCHANGED <<retry, size, file, torn>>

(* The locals and every lock that the process has on the file are gone.    *)
Ends(w) ==
  /\ retry' = [retry EXCEPT ![w] = 0]
  /\ size'  = [size EXCEPT ![w] = 0]
  /\ lock'  = [lock EXCEPT ![w] = {}]
  /\ Goto(w, "idle")
  /\ UNCHANGED file

(* close gives up the locks, and updwtmp returns.                          *)
Close(w) == pc[w] = "close" /\ Ends(w) /\ UNCHANGED torn

(* The process is killed.                                                  *)
Die(w) ==
  /\ pc[w] # "idle"
  /\ torn' = (torn \/ pc[w] = "ftruncate")
  /\ Ends(w)

OtherLocks ==
  /\ ~Locked(Other, Places)
  /\ lock' = [lock EXCEPT ![Other] = Places]
  /\ UNCHANGED <<pc, retry, size, file, torn>>

OtherWrites ==
  /\ lock[Other] # {}
  /\ Eof + 2 <= MaxSize
  /\ file' = file \o Units(Other, 2)
  /\ UNCHANGED <<pc, retry, size, lock, torn>>

OtherUnlocks ==
  /\ lock' = [lock EXCEPT ![Other] = {}]
  /\ UNCHANGED <<pc, retry, size, file, torn>>

Step(w) ==
  \/ GetLock(w) \/ Busy(w) \/ CannotLock(w) \/ Fstat(w) \/ Write(w)
  \/ Ftruncate(w) \/ Unlock(w) \/ Close(w)

Next ==
  \/ \E w \in Writers : Open(w) \/ Step(w) \/ Die(w)
  \/ OtherLocks \/ OtherWrites \/ OtherUnlocks

Spec == Init /\ [][Next]_vars

(* System calls return; when records are written, processes die and the    *)
(* other program locks or unlocks the file is left open.                   *)
FairSpec == Spec /\ \A w \in Writers : WF_vars(Step(w))

-----------------------------------------------------------------------------
TypeOK ==
  /\ pc    \in [Writers -> {"idle", "lock", "fstat", "write", "ftruncate", "unlock", "close"}]
  /\ retry \in [Writers -> 0..Tries]
  /\ size  \in [Writers -> Places]
  /\ file  \in Seq(Half) /\ Eof \in Places
  /\ lock  \in [Writers \cup {Other} -> SUBSET Places]
  /\ torn  \in BOOLEAN

Holds(w) == pc[w] \in {"fstat", "write", "ftruncate", "unlock"}

(* Each writer locks another range, from the end of the file that it saw,  *)
(* but all ranges meet: while one program may change the file no other may.*)
OneWriter ==
  /\ \A v, w \in Writers : Holds(v) /\ Holds(w) => v = w
  /\ \A w \in Writers : Holds(w) => lock[Other] = {}

WholeAt(i) == file[2 * i] = [file[2 * i - 1] EXCEPT !.half = 2]

(* A bad write is removed before anyone else can append behind it: while   *)
(* no writer is about to, the file consists of whole records, unless one   *)
(* was killed at that point.                                               *)
Aligned ==
  ~torn /\ (\A w \in Writers : pc[w] # "ftruncate") =>
    /\ Eof % 2 = 0
    /\ \A i \in 1..(Eof \div 2) : WholeAt(i)

(* The whole records in front of the first bad one.                        *)
Whole == {n \in 1..(Eof \div 2) : \A i \in 1..n : WholeAt(i)}

Log == INSTANCE WtmpLog WITH
         Records <- Writers \cup {Other},
         log     <- [n \in Whole |-> file[2 * n].of]

(* Readers see a list that only grows by whole records, whatever fails and *)
(* whoever dies: ftruncate never takes another writer's record along.      *)
ImplementsLog == Log!Spec

(* updwtmp never waits for a lock: every call comes to an end.             *)
CallsEnd == \A w \in Writers : (pc[w] # "idle") ~> (pc[w] = "idle")

=============================================================================
