----------------------------- MODULE LogFormatter -----------------------------
(***************************************************************************)
(* mocker::LogFormatter (mocker/log.cpp): init() turns a pattern into a    *)
(* list of items, once, and format() puts the outputs of the items one     *)
(* after the other for each event.  A pattern is a sequence of characters. *)
(***************************************************************************)
EXTENDS Naturals, SequencesExt

CONSTANT Letter   \* the characters isalpha() accepts

(* s_format_items: what the item of each code puts out.                    *)
FormatItems ==
  [m |-> "content", p |-> "level", r |-> "elapse", c |-> "logger name", t |-> "thread id",
   N |-> "thread name", n |-> "newline", d |-> "time", f |-> "file", l |-> "line",
   T |-> "tab", F |-> "coroutine id"]

(* Mutant of KnownCode: only the first letter of a code is looked at.      *)
KnownCodePrefix(code) == code # <<>> /\ code[1] \in DOMAIN FormatItems

KnownCode(code) == Len(code) = 1 /\ code[1] \in DOMAIN FormatItems

Text(s) == [type |-> 0, str |-> s, fmt |-> <<>>]
Item(code, fmt) == [type |-> 1, str |-> code, fmt |-> fmt]
PatternError == [type |-> 1, str |-> <<"pattern_error">>, fmt |-> <<>>]

-----------------------------------------------------------------------------
(* The first index from i on whose character satisfies T, or one past the  *)
(* end.                                                                    *)
FirstFrom(p, i, T(_)) ==
  LET hits == {j \in i..Len(p) : T(p[j])} IN IF hits = {} THEN Len(p) + 1 ELSE Min(hits)


(* The inner loop, for a '%' at index i: statuses 0 and 1 read the letters *)
(* of the code; after '{' status 2 takes one character whatever it is, and *)
(* status 3 those up to '}'.  The item is good in status 1 and 4.          *)
ScanItem(p, i) ==
  LET e == FirstFrom(p, i + 1, LAMBDA c : c \notin Letter)
      close == FirstFrom(p, e + 2, LAMBDA c : c = "}")
      code == SubSeq(p, i + 1, e - 1)
  IN IF e <= Len(p) /\ p[e] = "{"
     THEN [ok |-> close <= Len(p), code |-> code, fmt |-> SubSeq(p, e + 1, close - 1),
           next |-> close + 1]
     ELSE [ok |-> code # <<>>, code |-> code, fmt |-> <<>>, next |-> e]

Flush(vec, nstr) == IF nstr = <<>> THEN vec ELSE Append(vec, Text(nstr))

(* The outer loop from index i, with the text read so far.  Of "%%" the    *)
(* first is text and the second is read again; a '%' that begins no item   *)
(* is replaced by an error item, in front of the text before it.           *)
RECURSIVE InitFrom(_, _, _, _)
InitFrom(p, i, nstr, vec) ==
  IF i > Len(p) THEN Flush(vec, nstr)
  ELSE IF p[i] # "%" \/ (i < Len(p) /\ p[i + 1] = "%")
  THEN InitFrom(p, i + 1, Append(nstr, p[i]), vec)
  ELSE LET item == ScanItem(p, i) IN
       IF item.ok
       THEN InitFrom(p, item.next, <<>>, Append(Flush(vec, nstr), Item(item.code, item.fmt)))
       ELSE InitFrom(p, i + 1, nstr, Append(vec, PatternError))

Items(p) == InitFrom(p, 1, <<>>, <<>>)

(* m_error: a '%' without an item, or an item without a class.             *)
IsError(p) ==
  \E i \in DOMAIN Items(p) : Items(p)[i].type = 1 /\ ~KnownCode(Items(p)[i].str)

(* format(): text as it is, the field of a known code, the error message   *)
(* of another.                                                             *)
Output(item) ==
  IF item.type = 0 THEN item.str
  ELSE IF KnownCode(item.str) THEN <<FormatItems[item.str[1]]>>
  ELSE <<"error_format">> \o item.str
Format(p) == FlattenSeq([i \in DOMAIN Items(p) |-> Output(Items(p)[i])])

-----------------------------------------------------------------------------
(* The reference: patterns as README.md:62-72 describes them, written down *)
(* piece by piece                                                          *)

Written(item) ==
  IF item.type = 0 THEN item.str
  ELSE <<"%">> \o item.str
       \o (IF item.fmt = <<>> THEN <<>> ELSE <<"{">> \o item.fmt \o <<"}">>)
WrittenAll(items) == FlattenSeq([i \in DOMAIN items |-> Written(items[i])])

(* Text has no '%', two texts are one, and what follows a bare code does   *)
(* not continue it.                                                        *)
Canonical(items) ==
  \A i \in DOMAIN items :
    LET a == items[i]  last == i = Len(items) IN
      IF a.type = 0
      THEN /\ a.str # <<>> /\ "%" \notin ToSet(a.str)
           /\ last \/ items[i + 1].type = 1
      ELSE /\ KnownCode(a.str) /\ "}" \notin ToSet(a.fmt)
           /\ \/ last \/ items[i + 1].type = 1 \/ a.fmt # <<>>
              \/ Head(items[i + 1].str) \notin Letter \cup {"{"}
=============================================================================
