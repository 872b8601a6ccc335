------------------------------ MODULE SimpleVec ------------------------------
(***************************************************************************)
(* The vector of src/src/estl.h, in which the helper keeps its ptys.       *)
(*                                                                         *)
(* Types that are "simple enough" are moved as bytes; of all others every  *)
(* cell is constructed, assigned and destructed on its own.  A buffer maps *)
(* its cells to values; Raw is memory without an object.  An operation on  *)
(* an object that is not there, or on top of one that is, leaves Bad.      *)
(* Stale bytes of simple types are Raw too, as nobody may read them.       *)
(* Arguments are values of the caller's, never elements of the vector.     *)
(***************************************************************************)
EXTENDS Integers, Sequences, SequencesExt

CONSTANTS
  Values,    \* the element type T
  Default,   \* T ()
  Raw, Bad,
  Width,     \* bits of size_type: 32
  MaxArg     \* bound on the values that one call inserts or assigns

ASSUME VecAssumption ==
  /\ Default \in Values
  /\ Raw \notin Values /\ Bad \notin Values /\ Raw # Bad
  /\ Width \in 1..32
  /\ MaxArg \in Nat

ASSUME ValuesAreOrdered == Values \subseteq Int   \* by operator < of T

VARIABLES
  simple,    \* is_simple_enough ()
  vec        \* sze, res and buf; lost: a buffer was freed with objects in it

vars == <<simple, vec>>

Wrap(n) == n % 2^Width
MaxSize == (2^Width - 1) \div 2

Cell(b, a)    == IF a \in DOMAIN b THEN b[a] ELSE Bad
Blank(n)      == [a \in 0..(n - 1) |-> Raw]
Contents(v)   == [i \in 1..v.sze |-> Cell(v.buf, i - 1)]

(* for (i = 0; i < n; ++i) b = Body (b, i);                                *)
Loop(b, n, Body(_, _)) ==
  LET after[k \in 0..n] == IF k = 0 THEN b ELSE Body(after[k - 1], k - 1)
  IN  IF n > 0 THEN after[n] ELSE b

CopNew(b, a, t) ==
  [b EXCEPT ![a] = IF simple \/ (@ = Raw /\ t # Raw) THEN t ELSE Bad]

CopSet(b, a, t) ==
  [b EXCEPT ![a] = IF simple \/ (@ # Raw /\ t # Raw) THEN t ELSE Bad]

(* t.~T ()                                                                 *)
End(b, a) == [b EXCEPT ![a] = IF simple \/ @ \in Values THEN Raw ELSE Bad]

Construct(b, a, n) ==
  IF simple THEN b ELSE Loop(b, n, LAMBDA c, i : CopNew(c, a + i, Default))

Destruct(b, a, n) == Loop(b, n, LAMBDA c, i : End(c, a + i))

(* copy with cop_new, to n cells that are new; and with cop_set.           *)
Copied(n, s) == Loop(Blank(n), Len(s), LAMBDA b, i : CopNew(b, i, s[i + 1]))

Assigned(b, pos, s) == Loop(b, Len(s), LAMBDA c, i : CopSet(c, pos + i, s[i + 1]))

MemMove(b, dst, src, n) ==
  [a \in DOMAIN b |-> IF a - dst \in 0..(n - 1) THEN Cell(b, a - dst + src) ELSE b[a]]

(* Whether dealloc frees a buffer that is not empty.                       *)
Loses(v) == \E a \in DOMAIN v.buf : Destruct(v.buf, 0, v.sze)[a] # Raw

-----------------------------------------------------------------------------
(* Bisection for the highest bit of a 32 bit number.                       *)
Halve(s, h) ==
  IF s.x \div 2^h > 0 THEN [x |-> s.x \div 2^h, r |-> s.r + h] ELSE s

ecb_ld32(x) ==
  Halve(Halve(Halve(Halve(Halve([x |-> x, r |-> 0], 16), 8), 4), 2), 1).r

(* Mutant of GoodSize: 1UL instead of 2UL.                                 *)
GoodSizeExact(n) == IF n = 0 THEN 5 ELSE Wrap(2^ecb_ld32(n))

(* More than n, cut to size_type.                                          *)
GoodSize(n) == IF n = 0 THEN 5 ELSE Wrap(2 * 2^ecb_ld32(n))

(* A new buffer that every element is copied to, and the old one freed.    *)
Moved(v, n) ==
  [v EXCEPT !.res  = n,
            !.buf  = Copied(n, Contents(v)),
            !.lost = @ \/ Loses(v)]

Reserve(v, n) == IF n <= v.res THEN v ELSE Moved(v, GoodSize(n))

(* Mutant of Shift: elements are copied upwards, over those not yet moved. *)
ShiftForwards(b, pos, n, c) ==
  IF simple THEN MemMove(b, pos + n, pos, c)
  ELSE Loop(b, c, LAMBDA d, i : CopSet(d, pos + n + i, Cell(d, pos + i)))

(* Moves c elements at pos up by n: the last one first.                    *)
Shift(b, pos, n, c) ==
  IF simple THEN MemMove(b, pos + n, pos, c)
  ELSE Loop(b, c, LAMBDA d, i : CopSet(d, pos + n + c - 1 - i, Cell(d, pos + c - 1 - i)))

(* Room for n elements at pos.                                             *)
Ins(v, pos, n) ==
  LET size == Wrap(v.sze + n)
      w    == IF size > v.res THEN Moved(v, GoodSize(size)) ELSE v
  IN  [w EXCEPT !.buf = Shift(Construct(@, v.sze, n), pos, n, v.sze - pos),
                !.sze = size]

(* insert of one value, of a range, or of n copies of a value.             *)
Insert(v, pos, s) ==
  [Ins(v, pos, Len(s)) EXCEPT !.buf = Assigned(@, pos, s)]

(* Moves c elements behind n cells at pos down: the first one first.       *)
Close(b, pos, n, c) ==
  IF simple THEN MemMove(b, pos, pos + n, c)
  ELSE Loop(b, c, LAMBDA d, i : CopSet(d, pos + i, Cell(d, pos + n + i)))

(* Mutant of Erase: for memmove's sake destructors are forgotten.          *)
EraseOnly(v, first, last) ==
  LET n == last - first
  IN  [v EXCEPT !.sze = @ - n, !.buf = Close(@, first, n, v.sze - last)]

Erase(v, first, last) ==
  LET n == last - first
  IN  [v EXCEPT !.sze = @ - n,
                !.buf = Destruct(Close(@, first, n, v.sze - last), v.sze - n, n)]

EraseOne(v, pos) == IF pos = v.sze THEN v ELSE Erase(v, pos, pos + 1)

PushBack(v, t) ==
  LET w == Reserve(v, Wrap(v.sze + 1))
  IN  [w EXCEPT !.buf = CopNew(@, v.sze, t), !.sze = Wrap(@ + 1)]

PopBack(v) == [v EXCEPT !.buf = Destruct(@, v.sze - 1, 1), !.sze = @ - 1]
Clear(v)   == [v EXCEPT !.buf = Destruct(@, 0, v.sze), !.sze = 0]

(* New elements of a simple type are whatever the memory holds.            *)
Resize(v, n, stale) ==
  LET w    == Reserve(v, n)
      old  == v.sze
      keep == IF n < old THEN Destruct(w.buf, n, old - n) ELSE w.buf
  IN  [w EXCEPT !.sze = n,
                !.buf = IF simple
                        THEN [a \in DOMAIN keep |-> IF a \in old..(n - 1) THEN stale ELSE keep[a]]
                        ELSE Construct(keep, old, n - old)]

(* The constructors from a range or from n copies, and that of a copy.     *)
Vector(s) ==
  [sze |-> Len(s), res |-> Len(s), buf |-> Copied(Len(s), s), lost |-> FALSE]

(* assign and operator =: a new vector swaps its buffer with this one and  *)
(* frees the old buffer.                                                   *)
Assign(v, s) == [Vector(s) EXCEPT !.lost = v.lost \/ Loses(v)]

(* find: the first element that equals t, or the end.                      *)
Find(v, t) ==
  LET at[i \in 0..v.sze] == IF i = v.sze \/ v.buf[i] = t THEN i ELSE at[i + 1]
  IN  at[0]

(* operator == compares the elements' bytes.  apart: the places where two  *)
(* objects of one value differ in these, by padding or in what they point  *)
(* to; none for integers and pointers.                                     *)
Equal(s, t, apart) ==
  Len(s) = Len(t) /\ \A i \in DOMAIN s : s[i] = t[i] /\ i \notin apart

(* operator <: the first difference decides, then the length.              *)
Less(s, t) ==
  LET minlast == IF Len(s) < Len(t) THEN Len(s) ELSE Len(t)
      from[i \in 1..(minlast + 1)] ==
        IF i > minlast THEN Len(s) < Len(t)
        ELSE s[i] < t[i] \/ (s[i] = t[i] /\ from[i + 1])
  IN  from[1]

-----------------------------------------------------------------------------
Init ==
  /\ simple \in BOOLEAN
  /\ vec = [sze |-> 0, res |-> 0, buf |-> Blank(0), lost |-> FALSE]

Room == MaxSize - vec.sze

Inserts   == \E pos \in 0..vec.sze, s \in BoundedSeq(Values, MaxArg) :
               Len(s) <= Room /\ vec' = Insert(vec, pos, s)
Erases    == \E first \in 0..vec.sze : \E last \in first..vec.sze :
               vec' = Erase(vec, first, last)
ErasesOne == \E pos \in 0..vec.sze : vec' = EraseOne(vec, pos)
Forgets   == \E t \in Values : vec' = EraseOne(vec, Find(vec, t))
Pushes    == \E t \in Values : Room > 0 /\ vec' = PushBack(vec, t)
Pops      == vec.sze > 0 /\ vec' = PopBack(vec)
Clears    == vec' = Clear(vec)
Reserves  == \E n \in 0..MaxSize : vec' = Reserve(vec, n)
Resizes   == \E n \in 0..MaxSize, t \in Values : vec' = Resize(vec, n, t)
Assigns   == \E s \in BoundedSeq(Values, MaxArg) \cup {Contents(vec)} :
               Len(s) <= MaxSize /\ vec' = Assign(vec, s)
Stores    == \E i \in 0..(vec.sze - 1), t \in Values :
               vec' = [vec EXCEPT !.buf = CopSet(@, i, t)]

Next ==
  /\ \/ Inserts \/ Erases \/ ErasesOne \/ Forgets \/ Pushes \/ Pops
     \/ Clears \/ Reserves \/ Resizes \/ Assigns \/ Stores
  /\ UNCHANGED simple

Spec == Init /\ [][Next]_vars

-----------------------------------------------------------------------------
(* The capacity that the vector believes in is that of its buffer, and its *)
(* size stays below: up to max_size () elements good_size never wraps.     *)
SizesFit ==
  /\ simple \in BOOLEAN
  /\ vec.lost \in BOOLEAN
  /\ vec.sze \in 0..vec.res
  /\ vec.res \in 0..(2^Width - 1)
  /\ DOMAIN vec.buf = 0..(vec.res - 1)

(* The objects alive are exactly the elements, each constructed once and   *)
(* destructed once, and no buffer was freed that still held one.           *)
ObjectsAreElements ==
  /\ ~vec.lost
  /\ \A a \in DOMAIN vec.buf : IF a < vec.sze THEN vec.buf[a] \in Values ELSE vec.buf[a] = Raw

Splice(s, pos, t) == SubSeq(s, 1, pos) \o t \o SubSeq(s, pos + 1, Len(s))

(* Whatever the capacity and wherever it goes, insert puts the new values  *)
(* between the old ones, although it moves them within their own buffer,   *)
(* and erase takes them out again.                                         *)
InsertSplices ==
  \A pos \in 0..vec.sze, s \in BoundedSeq(Values, MaxArg) :
    Len(s) <= Room =>
      LET v == Insert(vec, pos, s)
      IN  /\ Contents(v) = Splice(Contents(vec), pos, s)
          /\ Contents(Erase(v, pos, pos + Len(s))) = Contents(vec)

(* erase (find (...)) takes out the first element of that value, if any.   *)
FindErasesFirst ==
  \A t \in Values : Contents(EraseOne(vec, Find(vec, t))) = RemoveFirst(Contents(vec), t)

(* Of two vectors with other values exactly one is less.  Equal vectors    *)
(* are neither, but those that are neither are equal only if their objects *)
(* are nowhere apart: == compares bytes and < values (estl.h:419, 429).    *)
OneIsLess ==
  LET s == Contents(vec)
  IN  \A t \in BoundedSeq(Values, MaxArg + 1) :
        /\ ~(Less(s, t) /\ Less(t, s))
        /\ Less(s, t) \/ Less(t, s) <=> s # t
        /\ \A apart \in SUBSET DOMAIN s :
             Equal(s, t, apart) => ~Less(s, t) /\ ~Less(t, s)
        /\ Equal(s, t, {}) \/ Less(s, t) \/ Less(t, s)

(* The vector is a sequence to those who use it: values are inserted and   *)
(* erased where they should be, the helper's erase (find (...)) forgets    *)
(* one pty and no other, and any two vectors are in one order.             *)
ActsAsSequence == InsertSplices /\ FindErasesFirst /\ OneIsLess

=============================================================================
