-------------------------- MODULE WtmpFile_proofs ---------------------------
(* Theorems about WtmpFile, for any number of writers, attempts and units. *)
EXTENDS WtmpFile, SequenceTheorems, TLAPS

Programs == Writers \cup {Other}

(* What a program appends: the file in front stays as it is.               *)
LEMMA Appended ==
  ASSUME file \in Seq(Half), NEW p \in Programs, NEW n \in 0..2,
         file' = file \o Units(p, n)
  PROVE  /\ file' \in Seq(Half)
         /\ Eof \in Nat /\ Eof' = Eof + n
         /\ \A i \in 1..Eof : file'[i] = file[i]
         /\ n > 0 => file'[Eof + 1] = [of |-> p, half |-> 1]
         /\ n = 2 => file'[Eof + 2] = [of |-> p, half |-> 2]
<1>1. Units(p, n) \in Seq(Half)
  BY DEF Units, Half, Programs
<1>2. Len(Units(p, n)) = n
  BY DEF Units
<1>3. /\ n > 0 => Units(p, n)[1] = [of |-> p, half |-> 1]
      /\ n = 2 => Units(p, n)[2] = [of |-> p, half |-> 2]
  BY DEF Units
<1>4. QED BY <1>1, <1>2, <1>3 DEF Eof

(* What ftruncate leaves of a file that is long enough.                    *)
LEMMA Truncated ==
  ASSUME file \in Seq(Half), NEW n \in 0..Eof,
         file' = [i \in 1..n |-> IF i <= Eof THEN file[i] ELSE Hole]
  PROVE  /\ file' \in Seq(Half)
         /\ Eof' = n
         /\ \A i \in 1..n : file'[i] = file[i]
<1>1. n \in Nat /\ Eof \in Nat
  BY DEF Eof
<1>2. \A i \in 1..n : i <= Eof /\ file[i] \in Half
  BY <1>1 DEF Eof
<1>3. file' = [i \in 1..n |-> file[i]]
  BY <1>2
<1>4. QED BY <1>1, <1>2, <1>3 DEF Eof

-----------------------------------------------------------------------------
(* A writer that is about to try has a try left.                           *)
TriesLeft == \A w \in Writers : pc[w] = "lock" => retry[w] \in 1..Tries

(* Ranges of different programs are disjoint, and whoever may change the   *)
(* file has the largest possible position locked.                          *)
LocksApart ==
  /\ \A p, q \in Programs : p # q => lock[p] \cap lock[q] = {}
  /\ lock[Other] \in {{}, Places}
  /\ \A w \in Writers : Holds(w) => MaxSize \in lock[w]

(* The size that a writer knows is that of the file without what it wrote. *)
SizeKnown ==
  \A w \in Writers :
    /\ pc[w] = "write" => size[w] = Eof
    /\ pc[w] = "ftruncate" =>
         \/ size[w] = Eof
         \/ size[w] + 1 = Eof /\ file[Eof].half = 1

FileInv == TypeOK /\ TriesLeft /\ LocksApart /\ SizeKnown

LEMMA Exclusive == FileInv => OneWriter
  BY FileAssumption DEF FileInv, TypeOK, LocksApart, OneWriter, Programs, Places

LEMMA FileInit == Init => FileInv
<1> SUFFICES ASSUME Init PROVE FileInv
  OBVIOUS
<1>1. file \in Seq(Half) /\ Eof = 0
  BY DEF Init, Eof
<1>2. 0 \in Places /\ 0 \in 0..Tries
  BY FileAssumption DEF Places
<1>3. TypeOK
  BY <1>1, <1>2 DEF Init, TypeOK
<1>4. QED BY <1>3, FileAssumption DEF Init, FileInv, TriesLeft, LocksApart, SizeKnown, Holds, Programs

LEMMA FileStep == FileInv /\ [Next]_vars => FileInv'
<1> SUFFICES ASSUME FileInv, [Next]_vars PROVE FileInv'
  OBVIOUS
<1> USE FileAssumption DEF FileInv
<1>1. OneWriter
  BY Exclusive
<1>2. Eof \in 0..MaxSize /\ MaxSize \in Places /\ FromEof \subseteq Places /\ MaxSize \in FromEof
  BY DEF TypeOK, Places, FromEof
<1>3. CASE UNCHANGED vars
  BY <1>3 DEF vars, TypeOK, TriesLeft, LocksApart, SizeKnown, Holds, Eof
<1>4. ASSUME NEW w \in Writers, Open(w)
      PROVE  FileInv'
  BY <1>4 DEF Open, Goto, TypeOK, TriesLeft, LocksApart, SizeKnown, Holds, Eof
<1>5. ASSUME NEW w \in Writers, GetLock(w)
      PROVE  FileInv'
  <2>1. TypeOK' /\ TriesLeft' /\ SizeKnown'
    BY <1>2, <1>5 DEF GetLock, Goto, TypeOK, TriesLeft, SizeKnown, Eof
  <2>2. \A p \in Programs : p # w => lock'[p] = lock[p]
    BY <1>5 DEF GetLock, TypeOK, Programs
  <2>3. lock'[w] = lock[w] \cup FromEof
    BY <1>5 DEF GetLock, TypeOK
  <2>4. \A p \in Programs : p # w => lock[p] \cap FromEof = {}
    BY <1>5 DEF GetLock, Locked, TypeOK, Programs
  <2>5. \A p, q \in Programs : p # q => lock'[p] \cap lock'[q] = {}
    BY <2>2, <2>3, <2>4 DEF LocksApart
  <2>6. lock'[Other] \in {{}, Places}
    BY <2>2 DEF LocksApart, Programs
  <2>7. \A v \in Writers : Holds(v)' => MaxSize \in lock'[v]
    BY <1>2, <1>5, <2>2, <2>3 DEF GetLock, Goto, TypeOK, LocksApart, Holds, Programs
  <2>8. QED BY <2>1, <2>5, <2>6, <2>7 DEF LocksApart
<1>6. ASSUME NEW w \in Writers, Busy(w) \/ CannotLock(w)
      PROVE  FileInv'
  <2>1. retry[w] \in 1..Tries /\ retry[w] - 1 \in 0..Tries
    BY <1>6 DEF Busy, CannotLock, TypeOK, TriesLeft
  <2>2. TypeOK' /\ TriesLeft'
    BY <1>6, <2>1 DEF Busy, CannotLock, Goto, TypeOK, TriesLeft, Eof
  <2>3. LocksApart' /\ SizeKnown'
    BY <1>6 DEF Busy, CannotLock, Goto, TypeOK, LocksApart, SizeKnown, Holds, Eof
  <2>4. QED BY <2>2, <2>3
<1>7. ASSUME NEW w \in Writers, Fstat(w)
      PROVE  FileInv'
  <2>1. Eof \in Places
    BY DEF TypeOK
  <2>2. UNCHANGED <<retry, file, lock, torn>> /\ Eof' = Eof
    BY <1>7 DEF Fstat, Eof
  <2>3. CASE Goto(w, "write") /\ size' = [size EXCEPT ![w] = Eof]
    BY <1>7, <2>1, <2>2, <2>3 DEF Fstat, Goto, TypeOK, TriesLeft, LocksApart, SizeKnown, Holds
  <2>4. CASE Goto(w, "unlock") /\ UNCHANGED size
    BY <1>7, <2>1, <2>2, <2>4 DEF Fstat, Goto, TypeOK, TriesLeft, LocksApart, SizeKnown, Holds
  <2>5. QED BY <1>7, <2>3, <2>4 DEF Fstat
<1>8. ASSUME NEW w \in Writers, Write(w)
      PROVE  FileInv'
  <2>1. PICK n \in 0..2 :
          /\ Eof + n <= MaxSize
          /\ file' = file \o Units(w, n)
          /\ Goto(w, IF n = 2 THEN "unlock" ELSE "ftruncate")
    BY <1>8 DEF Write
  <2>2. /\ file' \in Seq(Half)
        /\ Eof \in Nat /\ Eof' = Eof + n
        /\ n > 0 => file'[Eof + 1] = [of |-> w, half |-> 1]
    BY <2>1, Appended DEF Programs, TypeOK
  <2>3. TypeOK'
    BY <1>8, <2>1, <2>2 DEF Write, Goto, TypeOK, Places
  <2>4. TriesLeft' /\ LocksApart'
    BY <1>8, <2>1 DEF Write, Goto, TypeOK, TriesLeft, LocksApart, Holds
  <2>5. size[w] = Eof
    BY <1>8 DEF Write, SizeKnown
  <2>6. \A v \in Writers : v # w => pc[v] \notin {"write", "ftruncate"}
    BY <1>1, <1>8 DEF OneWriter, Write, Holds
  <2>7. SizeKnown'
    <3>1. CASE n = 2
      BY <1>8, <2>1, <2>6, <3>1 DEF Write, Goto, TypeOK, SizeKnown
    <3>2. CASE n < 2
      <4>1. (n = 0 \/ n = 1) /\ n # 2
        BY <3>2
      <4>2. size' = size /\ pc' = [pc EXCEPT ![w] = "ftruncate"]
        BY <1>8, <2>1, <4>1 DEF Write, Goto
      <4>3. Eof' = size[w] \/ (size[w] + 1 = Eof' /\ file'[Eof'].half = 1)
        BY <2>2, <2>5, <4>1
      <4>4. QED BY <2>6, <4>2, <4>3 DEF TypeOK, SizeKnown
    <3>3. QED BY <3>1, <3>2
  <2>8. QED BY <2>3, <2>4, <2>7
<1>9. ASSUME NEW w \in Writers, Ftruncate(w)
      PROVE  FileInv'
  <2>1. size[w] \in 0..Eof
    <3>1. size[w] \in Nat /\ Eof \in Nat
      BY <1>2 DEF TypeOK, Places
    <3>2. size[w] = Eof \/ size[w] + 1 = Eof
      BY <1>9 DEF Ftruncate, SizeKnown
    <3>3. QED BY <3>1, <3>2
  <2>2. file' \in Seq(Half) /\ Eof' = size[w]
    BY <1>9, <2>1, Truncated DEF Ftruncate, TypeOK
  <2>3. TypeOK'
    BY <1>9, <2>2 DEF Ftruncate, Goto, TypeOK
  <2>4. TriesLeft' /\ LocksApart'
    BY <1>9 DEF Ftruncate, Goto, TypeOK, TriesLeft, LocksApart, Holds
  <2>5. \A v \in Writers : v # w => pc[v] \notin {"write", "ftruncate"}
    BY <1>1, <1>9 DEF OneWriter, Ftruncate, Holds
  <2>6. SizeKnown'
    BY <1>9, <2>5 DEF Ftruncate, Goto, TypeOK, SizeKnown
  <2>7. QED BY <2>3, <2>4, <2>6
<1>10. ASSUME NEW w \in Writers, Unlock(w)
       PROVE  FileInv'
  BY <1>10 DEF Unlock, Goto, TypeOK, TriesLeft, LocksApart, SizeKnown, Holds, Programs, Eof
<1>11. ASSUME NEW w \in Writers, Close(w) \/ Die(w)
       PROVE  FileInv'
  <2>1. Ends(w) /\ torn' \in BOOLEAN
    BY <1>11 DEF Close, Die, TypeOK
  <2>2. Eof' = Eof /\ 0 \in Places /\ 0 \in 0..Tries
    BY <2>1 DEF Ends, Eof, Places
  <2>3. TypeOK' /\ TriesLeft' /\ SizeKnown'
    BY <2>1, <2>2 DEF Ends, Goto, TypeOK, TriesLeft, SizeKnown
  <2>4. LocksApart'
    BY <2>1 DEF Ends, Goto, TypeOK, LocksApart, Holds, Programs
  <2>5. QED BY <2>3, <2>4
<1>12. ASSUME OtherLocks
       PROVE  FileInv'
  <2>1. \A w \in Writers : lock'[w] = lock[w] /\ lock[w] \cap Places = {}
    BY <1>12 DEF OtherLocks, Locked, TypeOK
  <2>2. lock'[Other] = Places
    BY <1>12 DEF OtherLocks, TypeOK
  <2>3. QED BY <1>12, <2>1, <2>2
            DEF OtherLocks, TypeOK, TriesLeft, LocksApart, SizeKnown, Holds, Programs, Eof
<1>13. ASSUME OtherWrites
       PROVE  FileInv'
  <2>1. file' \in Seq(Half) /\ Eof' = Eof + 2 /\ Eof + 2 <= MaxSize
    <3>1. file \in Seq(Half) /\ Other \in Programs /\ file' = file \o Units(Other, 2)
      BY <1>13 DEF OtherWrites, Programs, TypeOK
    <3>2. 2 \in 0..2
      OBVIOUS
    <3>3. file' \in Seq(Half) /\ Eof' = Eof + 2
      BY <3>1, <3>2, Appended
    <3>4. QED BY <1>13, <3>3 DEF OtherWrites
  <2>2. TypeOK'
    BY <1>2, <1>13, <2>1 DEF OtherWrites, TypeOK, Places
  <2>3. \A w \in Writers : ~Holds(w)
    BY <1>1, <1>13 DEF OtherWrites, OneWriter
  <2>4. QED BY <1>13, <2>2, <2>3 DEF OtherWrites, TriesLeft, LocksApart, SizeKnown, Holds
<1>14. ASSUME OtherUnlocks
       PROVE  FileInv'
  BY <1>14 DEF OtherUnlocks, TypeOK, TriesLeft, LocksApart, SizeKnown, Holds, Programs, Eof
<1>15. QED
  BY <1>3, <1>4, <1>5, <1>6, <1>7, <1>8, <1>9, <1>10, <1>11, <1>12, <1>13, <1>14 DEF Next, Step

LEMMA FileAlways == Spec => []FileInv
<1>1. QED BY FileInit, FileStep, PTL DEF Spec

(* Every variable keeps its type; in particular ftruncate never lengthens  *)
(* the file (updwtmp, logging.C:213-249).                                  *)
THEOREM TypeCorrect == Spec => []TypeOK
<1>1. FileInv => TypeOK
  BY DEF FileInv
<1>2. QED BY <1>1, FileAlways, PTL

(* While one program may change the file no other may, although every      *)
(* writer locks another range (logging.C:223-245).                         *)
THEOREM WritersExclude == Spec => []OneWriter
<1>1. QED BY Exclusive, FileAlways, PTL

-----------------------------------------------------------------------------
IsWhole(f, i) == f[2 * i] = [f[2 * i - 1] EXCEPT !.half = 2]

(* The first n units of a file are whole records.                          *)
WholeIn(f, n) == n % 2 = 0 /\ \A i \in 1..(n \div 2) : IsWhole(f, i)

LEMMA WholeKept ==
  ASSUME NEW f, NEW g, NEW n \in Nat, \A i \in 1..n : g[i] = f[i], WholeIn(f, n)
  PROVE  WholeIn(g, n)
<1>1. \A i \in 1..(n \div 2) : 2 * i \in 1..n /\ 2 * i - 1 \in 1..n
  OBVIOUS
<1>2. QED BY <1>1 DEF WholeIn, IsWhole

LEMMA WholeGrown ==
  ASSUME NEW f, NEW g, NEW p, NEW n \in Nat, \A i \in 1..n : g[i] = f[i], WholeIn(f, n),
         g[n + 1] = [of |-> p, half |-> 1], g[n + 2] = [of |-> p, half |-> 2]
  PROVE  WholeIn(g, n + 2)
<1>1. WholeIn(g, n)
  BY WholeKept
<1>2. (n + 2) % 2 = 0 /\ (n + 2) \div 2 = (n \div 2) + 1 /\ 2 * ((n \div 2) + 1) = n + 2
  BY DEF WholeIn
<1>3. [g[n + 1] EXCEPT !.half = 2] = [of |-> p, half |-> 2]
  OBVIOUS
<1>4. IsWhole(g, (n \div 2) + 1)
  BY <1>2, <1>3 DEF IsWhole
<1>5. QED BY <1>1, <1>2, <1>4 DEF WholeIn

(* Unless someone died there: the file is whole records, or it was before  *)
(* the bad write that a writer is about to remove.                         *)
WholeInv ==
  ~torn =>
    /\ (\A w \in Writers : pc[w] # "ftruncate") => WholeIn(file, Eof)
    /\ \A w \in Writers : pc[w] = "ftruncate" => WholeIn(file, size[w])

LEMMA WholeStep == FileInv /\ WholeInv /\ [Next]_vars => WholeInv'
<1> SUFFICES ASSUME FileInv, WholeInv, [Next]_vars, ~torn' PROVE WholeInv'
  BY DEF WholeInv
<1>1. OneWriter /\ TypeOK
  BY Exclusive DEF FileInv
<1>2. Eof \in Nat
  BY <1>1 DEF TypeOK, Eof
<1>3. CASE UNCHANGED vars
  BY <1>3 DEF vars, WholeInv, Eof
<1>4. ASSUME NEW w \in Writers, Open(w) \/ GetLock(w) \/ Busy(w) \/ CannotLock(w) \/ Fstat(w) \/ Unlock(w)
      PROVE  WholeInv'
  <2>1. file' = file /\ Eof' = Eof /\ torn' = torn
    BY <1>4 DEF Open, GetLock, Busy, CannotLock, Fstat, Unlock, Eof
  <2>2. /\ pc[w] # "ftruncate" /\ pc'[w] # "ftruncate"
        /\ \A v \in Writers : v # w => pc'[v] = pc[v] /\ size'[v] = size[v]
    BY <1>1, <1>4 DEF Open, GetLock, Busy, CannotLock, Fstat, Unlock, Goto, TypeOK
  <2>3. QED BY <2>1, <2>2 DEF WholeInv
<1>5. ASSUME NEW w \in Writers, Write(w)
      PROVE  WholeInv'
  <2>1. PICK n \in 0..2 :
          /\ file' = file \o Units(w, n)
          /\ Goto(w, IF n = 2 THEN "unlock" ELSE "ftruncate")
    BY <1>5 DEF Write
  <2>2. /\ Eof' = Eof + n
        /\ \A i \in 1..Eof : file'[i] = file[i]
        /\ n = 2 => /\ file'[Eof + 1] = [of |-> w, half |-> 1]
                    /\ file'[Eof + 2] = [of |-> w, half |-> 2]
    <3>1. file \in Seq(Half) /\ w \in Programs
      BY <1>1 DEF Programs, TypeOK
    <3>2. /\ Eof' = Eof + n
          /\ \A i \in 1..Eof : file'[i] = file[i]
          /\ n > 0 => file'[Eof + 1] = [of |-> w, half |-> 1]
          /\ n = 2 => file'[Eof + 2] = [of |-> w, half |-> 2]
      BY <2>1, <3>1, Appended
    <3>3. n = 2 => n > 0
      OBVIOUS
    <3>4. QED BY <3>2, <3>3
  <2>3. \A v \in Writers : pc[v] # "ftruncate"
    BY <1>1, <1>5 DEF OneWriter, Write, Holds
  <2>4. WholeIn(file, Eof)
    BY <1>5, <2>3 DEF Write, WholeInv
  <2>5. size'[w] = Eof
    BY <1>5 DEF Write, FileInv, SizeKnown
  <2>6. CASE n = 2
    <3>1. WholeIn(file', Eof')
      BY <1>2, <2>2, <2>4, <2>6, WholeGrown
    <3>2. \A v \in Writers : pc'[v] # "ftruncate"
      BY <1>1, <2>1, <2>3, <2>6 DEF Goto, TypeOK
    <3>3. QED BY <3>1, <3>2 DEF WholeInv
  <2>7. CASE n # 2
    <3>1. WholeIn(file', size'[w])
      BY <1>2, <2>2, <2>4, <2>5, WholeKept
    <3>2. pc'[w] = "ftruncate" /\ \A v \in Writers : v # w => pc'[v] # "ftruncate"
      BY <1>1, <2>1, <2>3, <2>7 DEF Goto, TypeOK
    <3>3. QED BY <3>1, <3>2 DEF WholeInv
  <2>8. QED BY <2>6, <2>7
<1>6. ASSUME NEW w \in Writers, Ftruncate(w)
      PROVE  WholeInv'
  <2>1. size[w] \in 0..Eof
    <3>1. size[w] \in Nat
      BY <1>1, FileAssumption DEF TypeOK, Places
    <3>2. size[w] = Eof \/ size[w] + 1 = Eof
      BY <1>6 DEF Ftruncate, FileInv, SizeKnown
    <3>3. QED BY <1>2, <3>1, <3>2
  <2>2. Eof' = size[w] /\ \A i \in 1..size[w] : file'[i] = file[i]
    BY <1>1, <1>6, <2>1, Truncated DEF Ftruncate, TypeOK
  <2>3. WholeIn(file, size[w])
    BY <1>6 DEF Ftruncate, WholeInv
  <2>4. WholeIn(file', Eof')
    BY <2>1, <2>2, <2>3, WholeKept
  <2>5. \A v \in Writers : pc'[v] # "ftruncate"
    BY <1>1, <1>6 DEF OneWriter, Ftruncate, Goto, Holds, TypeOK
  <2>6. QED BY <2>4, <2>5 DEF WholeInv
<1>7. ASSUME NEW w \in Writers, Close(w) \/ Die(w)
      PROVE  WholeInv'
  <2>1. file' = file /\ Eof' = Eof /\ ~torn /\ pc[w] # "ftruncate"
    <3>1. CASE Close(w)
      BY <3>1 DEF Close, Ends, Eof
    <3>2. CASE Die(w)
      BY <3>2 DEF Die, Ends, Eof
    <3>3. QED BY <1>7, <3>1, <3>2
  <2>2. /\ pc'[w] # "ftruncate"
        /\ \A v \in Writers : v # w => pc'[v] = pc[v] /\ size'[v] = size[v]
    BY <1>1, <1>7 DEF Close, Die, Ends, Goto, TypeOK
  <2>3. QED BY <2>1, <2>2 DEF WholeInv
<1>8. ASSUME OtherWrites
      PROVE  WholeInv'
  <2>1. file \in Seq(Half) /\ Other \in Programs /\ 2 \in 0..2 /\ file' = file \o Units(Other, 2)
    BY <1>1, <1>8 DEF OtherWrites, Programs, TypeOK
  <2>2. /\ Eof' = Eof + 2
        /\ \A i \in 1..Eof : file'[i] = file[i]
        /\ file'[Eof + 1] = [of |-> Other, half |-> 1]
        /\ file'[Eof + 2] = [of |-> Other, half |-> 2]
    <3>1. /\ Eof' = Eof + 2
          /\ \A i \in 1..Eof : file'[i] = file[i]
          /\ 2 > 0 => file'[Eof + 1] = [of |-> Other, half |-> 1]
          /\ 2 = 2 => file'[Eof + 2] = [of |-> Other, half |-> 2]
      BY <2>1, Appended
    <3>2. QED BY <3>1
  <2>3. \A w \in Writers : pc[w] # "ftruncate"
    BY <1>1, <1>8 DEF OneWriter, OtherWrites, Holds
  <2>4. WholeIn(file', Eof')
    BY <1>2, <1>8, <2>2, <2>3, WholeGrown DEF OtherWrites, WholeInv
  <2>5. QED BY <1>8, <2>3, <2>4 DEF OtherWrites, WholeInv
<1>9. CASE OtherLocks \/ OtherUnlocks
  BY <1>9 DEF OtherLocks, OtherUnlocks, WholeInv, Eof
<1>10. QED
  BY <1>3, <1>4, <1>5, <1>6, <1>7, <1>8, <1>9 DEF Next, Step

(* A bad write is removed before anyone can append behind it, unless its   *)
(* writer is killed right there (logging.C:241-242).                       *)
THEOREM StaysAligned == Spec => []Aligned
<1>1. Init => WholeInv
  BY DEF Init, WholeInv, WholeIn, Eof
<1>2. Spec => []WholeInv
  BY <1>1, FileAlways, WholeStep, PTL DEF Spec
<1>3. WholeInv => Aligned
  BY DEF WholeInv, WholeIn, IsWhole, Aligned, WholeAt
<1>4. QED BY <1>2, <1>3, PTL

-----------------------------------------------------------------------------
(* The log as readers see it.                                              *)
Wholes(f) == {n \in Nat \ {0} : 2 * n <= Len(f) /\ \A i \in 1..n : IsWhole(f, i)}
LogOf(f)  == [n \in Wholes(f) |-> f[2 * n].of]

LEMMA OneMore ==
  ASSUME NEW S, NEW s \in Seq(S), NEW t \in Seq(S), NEW p \in S, Len(t) = Len(s) + 1,
         \A i \in 1..Len(s) : t[i] = s[i], t[Len(s) + 1] = p
  PROVE  t = Append(s, p)
<1>1. Append(s, p) \in Seq(S) /\ Len(Append(s, p)) = Len(t)
  BY AppendProperties
<1>2. ASSUME NEW i \in 1..Len(t) PROVE t[i] = Append(s, p)[i]
  <2>1. i \in 1..Len(s) \/ i = Len(s) + 1
    OBVIOUS
  <2>2. QED BY <2>1, AppendProperties
<1>3. QED BY <1>1, <1>2, SeqEqual

LEMMA Halves ==
  ASSUME NEW m \in Nat
  PROVE  /\ \E k \in Nat : m = 2 * k \/ m = 2 * k + 1
         /\ 1..(m \div 2) = {n \in Nat \ {0} : 2 * n <= m}
<1>1. m \div 2 \in Nat /\ (m = 2 * (m \div 2) \/ m = 2 * (m \div 2) + 1)
  OBVIOUS
<1>2. \A k \in Nat : m = 2 * k \/ m = 2 * k + 1 => 1..k = {n \in Nat \ {0} : 2 * n <= m}
  OBVIOUS
<1>3. QED BY <1>1, <1>2

(* A longer file whose next unit is a first half: either no record is new, *)
(* or the file was whole and one is added.                                 *)
LEMMA LogGrows ==
  ASSUME NEW f \in Seq(Half), NEW g \in Seq(Half), NEW n \in 0..2, NEW p \in Programs,
         Len(g) = Len(f) + n,
         \A i \in 1..Len(f) : g[i] = f[i],
         n > 0 => g[Len(f) + 1] = [of |-> p, half |-> 1],
         n = 2 => g[Len(f) + 2] = [of |-> p, half |-> 2]
  PROVE  LogOf(g) = LogOf(f) \/ LogOf(g) = Append(LogOf(f), p)
<1>0. PICK k \in Nat : Len(f) = 2 * k \/ Len(f) = 2 * k + 1
  BY Halves
<1>1. /\ Len(f) \in Nat /\ n \in 0..2
      /\ \A i \in 1..k : 2 * i \in 1..Len(f) /\ 2 * i - 1 \in 1..Len(f)
      /\ Len(g) \in {2 * k, 2 * k + 1, 2 * k + 2, 2 * k + 3}
  <2>1. Len(f) \in Nat /\ n \in 0..2 /\ Len(g) = Len(f) + n
    OBVIOUS
  <2>2. \A i \in 1..k : 2 * i <= 2 * k /\ 2 * i \in Nat /\ 2 * i - 1 \in Nat /\ 2 * i - 1 >= 1
    OBVIOUS
  <2>3. 2 * k <= Len(f)
    BY <1>0
  <2>4. \A i \in 1..k : 2 * i \in 1..Len(f) /\ 2 * i - 1 \in 1..Len(f)
    BY <2>1, <2>2, <2>3
  <2>5. n = 0 \/ n = 1 \/ n = 2
    BY <2>1
  <2>6. Len(g) \in {2 * k, 2 * k + 1, 2 * k + 2, 2 * k + 3}
    BY <1>0, <2>1, <2>5
  <2>7. QED BY <2>1, <2>4, <2>6
<1>2. \A i \in 1..k : IsWhole(g, i) <=> IsWhole(f, i)
  BY <1>1 DEF IsWhole
<1>3. \A i \in 1..k : g[2 * i].of = f[2 * i].of
  BY <1>1
<1>4. CASE k + 1 \notin Wholes(g)
  <2>1. \A i \in Wholes(f) : i \in 1..k
    BY <1>0 DEF Wholes
  <2>2. \A i \in Wholes(g) : i \in 1..k
    <3>1. \A i \in Wholes(g) : i \in 1..(k + 1)
      BY <1>1 DEF Wholes
    <3>2. QED BY <1>4, <3>1
  <2>3. Wholes(g) = Wholes(f)
    <3>1. \A i \in 1..k : 2 * i <= Len(g) /\ 2 * i <= Len(f)
      BY <1>0
    <3>2. \A i \in 1..k : i \in Wholes(g) <=> i \in Wholes(f)
      BY <1>2, <3>1 DEF Wholes
    <3>3. QED BY <2>1, <2>2, <3>2
  <2>4. QED BY <1>3, <2>1, <2>3 DEF LogOf
<1>5. CASE k + 1 \in Wholes(g)
  <2>1. IsWhole(g, k + 1) /\ 2 * k + 2 <= Len(g)
    <3>1. \A i \in 1..(k + 1) : IsWhole(g, i)
      BY <1>5 DEF Wholes
    <3>2. 2 * (k + 1) <= Len(g)
      BY <1>5 DEF Wholes
    <3>3. QED BY <3>1, <3>2
  <2>2. g[2 * k + 2] = [g[2 * k + 1] EXCEPT !.half = 2]
    <3>1. 2 * (k + 1) = 2 * k + 2 /\ 2 * (k + 1) - 1 = 2 * k + 1
      OBVIOUS
    <3>2. QED BY <2>1, <3>1 DEF IsWhole
  <2>3. g[2 * k + 2].half = 2
    <3>1. 2 * k + 1 \in 1..Len(g)
      BY <2>1
    <3>2. g[2 * k + 1] \in Half
      BY <3>1
    <3>3. QED BY <2>2, <3>2 DEF Half
  <2>4. n > 0
    BY <1>0, <2>1
  <2>5. Len(f) = 2 * k
    <3>1. g[Len(f) + 1].half = 1
      BY <2>4
    <3>2. Len(f) + 1 # 2 * k + 2
      BY <2>3, <3>1
    <3>3. QED BY <1>0, <3>2
  <2>6. n = 2
    BY <1>1, <2>1, <2>5
  <2>7. Wholes(f) = 1..k
    <3>1. \A i \in Wholes(f) : i \in 1..k
      BY <2>5 DEF Wholes
    <3>2. \A i \in 1..k : IsWhole(g, i)
      BY <1>5 DEF Wholes
    <3>3. ASSUME NEW i \in 1..k PROVE i \in Wholes(f)
      <4>1. i \in Nat \ {0} /\ 2 * i <= Len(f)
        BY <1>1
      <4>2. \A j \in 1..i : j \in 1..k
        OBVIOUS
      <4>3. \A j \in 1..i : IsWhole(f, j)
        BY <1>2, <3>2, <4>2
      <4>4. QED BY <4>1, <4>3 DEF Wholes
    <3>4. QED BY <3>1, <3>3
  <2>8. Wholes(g) = 1..(k + 1)
    <3>1. Len(g) = 2 * k + 2
      BY <2>5, <2>6
    <3>2. \A i \in Wholes(g) : i \in 1..(k + 1)
      BY <3>1 DEF Wholes
    <3>3. \A i \in 1..(k + 1) : i \in Wholes(g)
      BY <1>5, <3>1 DEF Wholes
    <3>4. QED BY <3>2, <3>3
  <2>9. LogOf(f) = [i \in 1..k |-> f[2 * i].of] /\ LogOf(g) = [i \in 1..(k + 1) |-> g[2 * i].of]
    BY <2>7, <2>8 DEF LogOf
  <2>10. \A i \in 1..k : f[2 * i] \in Half
    BY <1>1
  <2>11. \A i \in 1..k : f[2 * i].of \in Programs
    BY <2>10 DEF Half, Programs
  <2>12. g[2 * (k + 1)].of = p
    BY <2>5, <2>6
  <2>13. \A i \in 1..(k + 1) : i = k + 1 \/ i \in 1..k
    OBVIOUS
  <2>14. \A i \in 1..k : g[2 * i].of \in Programs
    BY <1>3, <2>11
  <2>15. \A i \in 1..(k + 1) : g[2 * i].of \in Programs
    BY <2>12, <2>13, <2>14
  <2>16. LogOf(f) \in Seq(Programs) /\ Len(LogOf(f)) = k
    BY <2>9, <2>11
  <2>17. LogOf(g) \in Seq(Programs) /\ Len(LogOf(g)) = k + 1
    <3>1. k + 1 \in Nat
      OBVIOUS
    <3>2. QED BY <2>9, <2>15, <3>1
  <2>18. \A i \in 1..k : LogOf(g)[i] = LogOf(f)[i]
    <3>1. \A i \in 1..k : i \in 1..(k + 1)
      OBVIOUS
    <3>2. QED BY <1>3, <2>9, <3>1
  <2>19. LogOf(g)[k + 1] = p
    <3>1. k + 1 \in 1..(k + 1)
      OBVIOUS
    <3>2. QED BY <2>9, <2>12, <3>1
  <2>20. LogOf(g) = Append(LogOf(f), p)
    BY <2>16, <2>17, <2>18, <2>19, OneMore
  <2>21. QED BY <2>20
<1>6. QED BY <1>4, <1>5

(* Nothing whole is lost when the size is that before the bad write.       *)
LEMMA LogShrinks ==
  ASSUME NEW f \in Seq(Half), NEW g \in Seq(Half), NEW n \in Nat,
         n = Len(f) \/ (n + 1 = Len(f) /\ f[Len(f)].half = 1),
         Len(g) = n, \A i \in 1..n : g[i] = f[i]
  PROVE  LogOf(g) = LogOf(f)
<1>1. \A i \in Nat \ {0} : 2 * i <= n => 2 * i \in 1..n /\ 2 * i - 1 \in 1..n
  OBVIOUS
<1>2. \A i \in Nat \ {0} : 2 * i <= n => (IsWhole(g, i) <=> IsWhole(f, i)) /\ g[2 * i].of = f[2 * i].of
  BY <1>1 DEF IsWhole
<1>3. ASSUME NEW i \in Nat \ {0}, 2 * i <= Len(f), IsWhole(f, i) PROVE 2 * i <= n
  <2>1. SUFFICES ASSUME 2 * i > n PROVE FALSE
    OBVIOUS
  <2>2. 2 * i = Len(f) /\ n + 1 = Len(f)
    BY <1>3, <2>1
  <2>3. 2 * i - 1 \in 1..Len(f)
    BY <2>2
  <2>4. f[2 * i - 1] \in Half
    BY <2>3
  <2>5. f[2 * i].half = 2
    BY <1>3, <2>4 DEF IsWhole, Half
  <2>6. QED BY <2>2, <2>5
<1>4. \A j \in Wholes(f) : j \in Wholes(g)
  <2>1. SUFFICES ASSUME NEW j \in Wholes(f) PROVE j \in Wholes(g)
    OBVIOUS
  <2>2. j \in Nat \ {0} /\ 2 * j <= Len(f) /\ \A i \in 1..j : IsWhole(f, i)
    BY <2>1 DEF Wholes
  <2>3. 2 * j <= n
    BY <1>3, <2>2
  <2>4. \A i \in 1..j : i \in Nat \ {0} /\ 2 * i <= n
    BY <2>2, <2>3
  <2>5. \A i \in 1..j : IsWhole(g, i)
    BY <1>2, <2>2, <2>4
  <2>6. QED BY <2>2, <2>3, <2>5 DEF Wholes
<1>5. \A j \in Wholes(g) : j \in Wholes(f) /\ g[2 * j].of = f[2 * j].of
  <2>1. SUFFICES ASSUME NEW j \in Wholes(g) PROVE j \in Wholes(f) /\ g[2 * j].of = f[2 * j].of
    OBVIOUS
  <2>2. j \in Nat \ {0} /\ 2 * j <= n /\ \A i \in 1..j : IsWhole(g, i)
    BY <2>1 DEF Wholes
  <2>3. \A i \in 1..j : i \in Nat \ {0} /\ 2 * i <= n
    BY <2>2
  <2>4. \A i \in 1..j : IsWhole(f, i)
    BY <1>2, <2>2, <2>3
  <2>5. 2 * j <= Len(f)
    BY <2>2
  <2>6. QED BY <1>2, <2>2, <2>4, <2>5 DEF Wholes
<1>6. Wholes(g) = Wholes(f)
  BY <1>4, <1>5
<1>7. QED BY <1>5, <1>6 DEF LogOf

LEMMA LogStep ==
  FileInv /\ [Next]_vars =>
    LogOf(file') = LogOf(file) \/ \E p \in Programs : LogOf(file') = Append(LogOf(file), p)
<1> SUFFICES ASSUME FileInv, [Next]_vars
             PROVE  LogOf(file') = LogOf(file) \/ \E p \in Programs : LogOf(file') = Append(LogOf(file), p)
  OBVIOUS
<1>1. file \in Seq(Half)
  BY DEF FileInv, TypeOK
<1>2. ASSUME NEW p \in Programs, NEW n \in 0..2, file' = file \o Units(p, n)
      PROVE  LogOf(file') = LogOf(file) \/ LogOf(file') = Append(LogOf(file), p)
  BY <1>1, <1>2, Appended, LogGrows DEF Eof
<1>3. ASSUME NEW w \in Writers, Ftruncate(w)
      PROVE  LogOf(file') = LogOf(file)
  <2>1. size[w] \in Nat /\ (size[w] = Eof \/ (size[w] + 1 = Eof /\ file[Eof].half = 1))
    BY <1>3, FileAssumption DEF Ftruncate, FileInv, SizeKnown, TypeOK, Places
  <2>2. size[w] \in 0..Eof
    BY <1>1, <2>1 DEF Eof
  <2>3. file' \in Seq(Half) /\ Eof' = size[w] /\ \A i \in 1..size[w] : file'[i] = file[i]
    BY <1>1, <1>3, <2>2, Truncated DEF Ftruncate
  <2>4. QED BY <1>1, <2>1, <2>3, LogShrinks DEF Eof
<1>4. ASSUME NEW w \in Writers, Write(w)
      PROVE  \E n \in 0..2 : file' = file \o Units(w, n)
  BY <1>4 DEF Write
<1>5. ASSUME OtherWrites
      PROVE  file' = file \o Units(Other, 2) /\ 2 \in 0..2
  BY <1>5 DEF OtherWrites
<1>6. ASSUME NEW w \in Writers,
             Open(w) \/ GetLock(w) \/ Busy(w) \/ CannotLock(w) \/ Fstat(w) \/ Unlock(w) \/ Close(w) \/ Die(w)
      PROVE  file' = file
  BY <1>6 DEF Open, GetLock, Busy, CannotLock, Fstat, Unlock, Close, Die, Ends
<1>7. ASSUME OtherLocks \/ OtherUnlocks \/ UNCHANGED vars
      PROVE  file' = file
  BY <1>7 DEF OtherLocks, OtherUnlocks, vars
<1>8. QED
  BY <1>2, <1>3, <1>4, <1>5, <1>6, <1>7 DEF Next, Step, Programs

(* The file implements the log that readers expect: it grows by whole      *)
(* records only, and nothing takes another writer's record along, whoever  *)
(* fails or dies (updwtmp, logging.C:213-249).                             *)
THEOREM FileIsLog == Spec => ImplementsLog
<1>1. ASSUME Init PROVE Log!Init
  <2>1. Whole = {}
    BY <1>1 DEF Init, Whole, Eof
  <2>2. QED BY <2>1 DEF Log!Init
<1>2. ASSUME FileInv, [Next]_vars
      PROVE  [Log!Add]_([n \in Whole |-> file[2 * n].of])
  <2>1. Eof \in Nat /\ Eof' \in Nat
    BY <1>2, FileStep DEF FileInv, TypeOK, Eof
  <2>2. /\ 1..(Eof \div 2) = {n \in Nat \ {0} : 2 * n <= Eof}
        /\ 1..(Eof' \div 2) = {n \in Nat \ {0} : 2 * n <= Eof'}
    BY <2>1, Halves
  <2>3. Whole = Wholes(file) /\ Whole' = Wholes(file')
    BY <2>2 DEF Whole, Wholes, Eof, IsWhole, WholeAt
  <2>4. /\ LogOf(file) = [n \in Whole |-> file[2 * n].of]
        /\ LogOf(file') = [n \in Whole |-> file[2 * n].of]'
    BY <2>3 DEF LogOf
  <2>5. QED BY <1>2, <2>4, LogStep DEF Log!Add, Programs
<1>3. QED BY <1>1, <1>2, FileAlways, PTL DEF Spec, ImplementsLog, Log!Spec

=============================================================================
