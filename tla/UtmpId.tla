------------------------------- MODULE UtmpId -------------------------------
(***************************************************************************)
(* The ut_id that log_session of src/src/logging.C gives the record of a   *)
(* line: the end of the line's name, as much as the field holds.  A name   *)
(* is the sequence of its characters; lines are those of a devpts.         *)
(***************************************************************************)
EXTENDS Naturals, Sequences, SequencesExt

IdSize == 4    \* sizeof (utx->ut_id)

Digit(k) == <<"0", "1", "2", "3", "4", "5", "6", "7", "8", "9">>[k + 1]

Digits(n) ==
  LET from[k \in 0..n] ==
        IF k < 10 THEN <<Digit(k)>> ELSE Append(from[k \div 10], Digit(k % 10))
  IN  from[n]

(* ptsname of line n.                                                      *)
Name(n) == <<"/", "d", "e", "v", "/", "p", "t", "s", "/">> \o Digits(n)

(* log_session skips /dev/.                                                *)
Line(n) == SubSeq(Name(n), 6, Len(Name(n)))

(* Mutant of FillId: the start of the line, as strncpy alone would give.   *)
FillIdFromStart(line) ==
  SubSeq(line, 1, IF Len(line) > IdSize THEN IdSize ELSE Len(line))

FillId(line) ==
  SubSeq(line, IF Len(line) > IdSize THEN Len(line) - IdSize + 1 ELSE 1, Len(line))

-----------------------------------------------------------------------------
VARIABLES number, ut_id    \* of the line that was logged in on last

idVars == <<number, ut_id>>

Lines == 11001

IdInit == number = 0 /\ ut_id = FillId(Line(0))

NextLine ==
  /\ number' = (number + 1) % Lines
  /\ ut_id' = FillId(Line(number'))

(* What an id tells of its line.                                           *)
Number(id) ==
  LET digit == {Digit(k) : k \in 0..9}
      value == [c \in digit |-> CHOOSE k \in 0..9 : Digit(k) = c]
      ds    == SelectSeq(id, LAMBDA c : c \in digit)
      n     == FoldLeft(LAMBDA v, c : 10 * v + value[c], 0, ds)
  IN  IF Len(ds) = IdSize /\ n < 1000 THEN n + 10000 ELSE n

(* Up to line 10999 the id tells the line, although it drops most of the   *)
(* name: every line has a utmp record of its own.  Line 11000 shares the   *)
(* record of line 1000.                                                    *)
IdsApart == Number(ut_id) = IF number < 11000 THEN number ELSE 1000

=============================================================================
