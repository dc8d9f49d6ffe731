----------------------------- MODULE LoggerProofs -----------------------------
(***************************************************************************)
(* NoNullFormatter, FormatterRight, OneRoute and SameOrder for any number  *)
(* of threads, loggers, appenders and calls, and that nobody waits for a   *)
(* lock in a circle.                                                       *)
(*                                                                         *)
(* Everything rests on the loggers' locks: a thread that goes through the  *)
(* appenders of a logger, or changes them, holds its lock, and an appender *)
(* belongs to one logger.  Discipline says so of a step, and then no step  *)
(* of one thread disturbs what the invariant says of another.              *)
(***************************************************************************)
EXTENDS Logger, TLAPS

(* Where a thread is in log(), and where it works under a logger's lock.   *)
Writing == {"append", "emit"}
Logging == {"lock", "append", "emit"}
Adding == {"inherit", "push"}
Inside == {"append", "emit", "inherit", "push", "pass"}

(* A thread holds the locks it thinks it holds, each once, and works under *)
(* the one of the logger in its locals.                                    *)
LocksOf(t) ==
  /\ \A i \in DOMAIN held[t] : m_mutex[held[t][i]] = t
  /\ \A i, j \in DOMAIN held[t] : i # j => held[t][i] # held[t][j]
  /\ pc[t] \in Inside => held[t] # <<>> /\ held[t][1] = loc[t].l

(* A thread's locals at each place, and the number of its call.            *)
CallOf(t) ==
  /\ pc[t] \in Logging \cup Inside => loc[t].l \in Name
  /\ pc[t] \notin Writing \cup {"pass"} => loc[t].todo = <<>>
  /\ pc[t] = "emit" => loc[t].todo # <<>>
  /\ pc[t] \in Logging => t \in Writers /\ ops[t] >= 1
  /\ pc[t] \in Adding => loc[t].a \in Appender /\ home[loc[t].a] = loc[t].l
  /\ t \in Writers => ops[t] <= MaxLogs

(* What the program gave an appender decides, otherwise the logger does.   *)
Right(a, l) == IF own[a] # Null THEN own[a] ELSE m_formatter[l]

(* Appenders that were given to a logger, each once, and have a formatter. *)
Mine(s, l) ==
  /\ \A i \in DOMAIN s : home[s[i]] = l /\ a_formatter[s[i]] # Null
  /\ \A i, j \in DOMAIN s : i # j => s[i] # s[j]

(* The appenders a thread has yet to go through, and the one it adds.      *)
WorkOf(t) ==
  /\ pc[t] \in Inside => Mine(loc[t].todo, loc[t].l)
  /\ pc[t] \in Adding =>
       \A i \in DOMAIN m_appenders[loc[t].l] : m_appenders[loc[t].l][i] # loc[t].a
  /\ pc[t] = "inherit" => own[loc[t].a] = Null
  /\ pc[t] = "push" => a_formatter[loc[t].a] = Right(loc[t].a, loc[t].l)

(* The event of the call a thread is in: it is new when log() starts, goes *)
(* to one logger's appenders, to each once, and is the last one there      *)
(* until the lock is released.                                             *)
Cur(t) == [by |-> t, no |-> ops[t]]
EventOf(t) ==
  \A a \in Appender : \A i \in DOMAIN out[a] : out[a][i] = Cur(t) =>
    /\ pc[t] # "lock"
    /\ pc[t] \in Writing => /\ i = Len(out[a]) /\ home[a] = loc[t].l
                            /\ \A k \in DOMAIN loc[t].todo : loc[t].todo[k] # a

ThreadOK(t) == LocksOf(t) /\ CallOf(t) /\ WorkOf(t) /\ EventOf(t)

(* What an appender's own formatter is, and the loggers' lists, in which   *)
(* every formatter is right unless setFormatter() has still to pass it on. *)
Given ==
  \A a \in Appender :
    /\ m_hasFormatter[a] <=> own[a] # Null
    /\ own[a] # Null => a_formatter[a] = own[a]
    /\ home[a] = Null => a_formatter[a] = own[a]
Awaits(a, l) ==
  \E t \in Thread : pc[t] = "pass" /\ loc[t].l = l /\ \E k \in DOMAIN loc[t].todo : loc[t].todo[k] = a
ListOK(l) ==
  /\ Mine(m_appenders[l], l)
  /\ \A i \in DOMAIN m_appenders[l] :
       \/ a_formatter[m_appenders[l][i]] = Right(m_appenders[l][i], l)
       \/ Awaits(m_appenders[l][i], l)

(* Events are numbered by the calls, and written once by an appender.      *)
Numbered ==
  \A a \in Appender : \A i \in DOMAIN out[a] :
    /\ home[a] # Null
    /\ out[a][i].no <= ops[out[a][i].by]
    /\ \A j \in DOMAIN out[a] : i # j => out[a][i] # out[a][j]

History == Numbered /\ OneRoute /\ SameOrder

IInv ==
  /\ TypeOK /\ Given /\ History /\ NoNullFormatter
  /\ \A t \in Thread : ThreadOK(t)
  /\ \A l \in Name : ListOK(l)

-----------------------------------------------------------------------------
(* Lemmas about sequences                                                  *)

LEMMA TailFacts ==
  ASSUME NEW S, NEW s \in Seq(S), s # <<>>
  PROVE  /\ Head(s) \in S /\ 1 \in DOMAIN s /\ Head(s) = s[1] /\ Tail(s) \in Seq(S)
         /\ \A i \in DOMAIN Tail(s) : i + 1 \in DOMAIN s /\ i + 1 # 1 /\ Tail(s)[i] = s[i + 1]
         /\ \A i \in DOMAIN s : i # 1 => i - 1 \in DOMAIN Tail(s) /\ Tail(s)[i - 1] = s[i]
         /\ \A i, j \in DOMAIN Tail(s) : i # j => i + 1 # j + 1
<1>1. Len(s) \in Nat /\ Len(s) > 0
  OBVIOUS
<1>2. Tail(s) \in Seq(S) /\ Len(Tail(s)) = Len(s) - 1
  BY <1>1
<1>3. \A i \in 1..(Len(s) - 1) : Tail(s)[i] = s[i + 1]
  BY <1>1
<1> QED BY <1>1, <1>2, <1>3

LEMMA ConsFacts ==
  ASSUME NEW S, NEW s \in Seq(S), NEW x \in S
  PROVE  /\ <<x>> \o s \in Seq(S) /\ <<x>> \o s # <<>> /\ (<<x>> \o s)[1] = x
         /\ \A i \in DOMAIN (<<x>> \o s) : i # 1 =>
              i - 1 \in DOMAIN s /\ (<<x>> \o s)[i] = s[i - 1]
<1>1. Len(s) \in Nat /\ Len(<<x>>) = 1 /\ <<x>> \in Seq(S)
  OBVIOUS
<1>2. <<x>> \o s \in Seq(S) /\ Len(<<x>> \o s) = Len(s) + 1
  BY <1>1
<1>3. \A i \in 1..(Len(s) + 1) :
        (<<x>> \o s)[i] = IF i <= 1 THEN <<x>>[i] ELSE s[i - 1]
  BY <1>1
<1>4. (<<x>> \o s)[1] = x
  BY <1>1, <1>3
<1> QED BY <1>1, <1>2, <1>3, <1>4

LEMMA PushFacts ==
  ASSUME NEW S, NEW s \in Seq(S), NEW x \in S
  PROVE  /\ Append(s, x) \in Seq(S) /\ Len(Append(s, x)) = Len(s) + 1
         /\ DOMAIN s = 1..Len(s) /\ DOMAIN Append(s, x) = 1..(Len(s) + 1) /\ Len(s) \in Nat
         /\ \A i \in DOMAIN s : Append(s, x)[i] = s[i]
         /\ Append(s, x)[Len(s) + 1] = x
         /\ \A i \in DOMAIN Append(s, x) : i \in DOMAIN s \/ i = Len(s) + 1
<1> QED OBVIOUS

(* m_appenders.erase(it): the entries of the result are among those of s.  *)
LEMMA EraseFacts ==
  ASSUME NEW S, NEW s \in Seq(S), NEW i \in DOMAIN s
  PROVE  /\ RemoveAt(s, i) \in Seq(S)
         /\ \A j \in DOMAIN RemoveAt(s, i) :
              LET old == IF j < i THEN j ELSE j + 1
              IN  old \in DOMAIN s /\ RemoveAt(s, i)[j] = s[old]
<1> DEFINE a == SubSeq(s, 1, i - 1)
           b == SubSeq(s, i + 1, Len(s))
<1>1. Len(s) \in Nat /\ i \in 1..Len(s)
  OBVIOUS
<1>2. a \in Seq(S) /\ Len(a) = i - 1 /\ \A j \in 1..(i - 1) : a[j] = s[j]
  BY <1>1
<1>3. b \in Seq(S) /\ Len(b) = Len(s) - i /\ \A j \in 1..(Len(s) - i) : b[j] = s[i + j]
  BY <1>1
<1>4. RemoveAt(s, i) = a \o b
  BY DEF RemoveAt
<1> HIDE DEF a, b
<1>5. a \o b \in Seq(S) /\ Len(a \o b) = Len(s) - 1
  BY <1>1, <1>2, <1>3
<1>6. ASSUME NEW j \in 1..(Len(s) - 1)
      PROVE  (a \o b)[j] = s[IF j < i THEN j ELSE j + 1]
  <2>1. CASE j < i
    BY <2>1, <1>1, <1>2, <1>3
  <2>2. CASE ~(j < i)
    <3>1. j - (i - 1) \in 1..(Len(s) - i) /\ i + (j - (i - 1)) = j + 1
      BY <2>2, <1>1
    <3>2. (a \o b)[j] = b[j - (i - 1)]
      BY <2>2, <1>1, <1>2, <1>3
    <3> QED BY <3>1, <3>2, <2>2, <1>3
  <2> QED BY <2>1, <2>2
<1>7. DOMAIN (a \o b) = 1..(Len(s) - 1) /\ DOMAIN s = 1..Len(s)
  BY <1>5
<1>8. \A j \in 1..(Len(s) - 1) : (IF j < i THEN j ELSE j + 1) \in 1..Len(s)
  BY <1>1
<1> QED BY <1>4, <1>5, <1>6, <1>7, <1>8

-----------------------------------------------------------------------------
(* The locking discipline                                                  *)

(* What a step of t leaves alone: the other threads' places and locals;    *)
(* the lock, the list and the formatter of a logger that another thread    *)
(* has locked; what an appender that has a logger was given, and its       *)
(* formatter and output unless t may work on that logger.                  *)
Discipline(t) ==
  /\ \A u \in Thread : u # t =>
       pc'[u] = pc[u] /\ loc'[u] = loc[u] /\ held'[u] = held[u] /\ ops'[u] = ops[u]
  /\ ops'[t] >= ops[t]
  /\ \A l \in Name : m_mutex[l] \notin {Null, t} =>
       m_mutex'[l] = m_mutex[l] /\ m_appenders'[l] = m_appenders[l]
       /\ m_formatter'[l] = m_formatter[l]
  /\ \A a \in Appender : home[a] # Null =>
       /\ home'[a] = home[a] /\ own'[a] = own[a]
       /\ a_formatter[a] # Null => a_formatter'[a] # Null
       /\ m_mutex[home[a]] \notin {Null, t} => a_formatter'[a] = a_formatter[a]
  /\ \A a \in Appender :
       \/ out'[a] = out[a]
       \/ home[a] # Null /\ m_mutex[home[a]] = t /\ out'[a] = Append(out[a], Cur(t))

LEMMA OthersKept ==
  ASSUME IInv, NEW t \in Thread, Discipline(t), NEW u \in Thread, u # t
  PROVE  ThreadOK(u)'
<1>1. pc'[u] = pc[u] /\ loc'[u] = loc[u] /\ held'[u] = held[u] /\ ops'[u] = ops[u]
  BY DEF Discipline
<1>2. ThreadOK(u) /\ u # Null /\ held[u] \in Seq(Name) /\ Null \notin Name
  BY LoggerAssumption DEF IInv, TypeOK
<1>3. \A l \in Name : m_mutex[l] = u =>
        m_mutex'[l] = u /\ m_appenders'[l] = m_appenders[l] /\ m_formatter'[l] = m_formatter[l]
  BY <1>2 DEF Discipline
<1>4. \A a \in Appender : home[a] # Null =>
        /\ home'[a] = home[a] /\ own'[a] = own[a]
        /\ a_formatter[a] # Null => a_formatter'[a] # Null
        /\ m_mutex[home[a]] = u => a_formatter'[a] = a_formatter[a]
  BY <1>2 DEF Discipline
<1>5. LocksOf(u)'
  BY <1>1, <1>2, <1>3 DEF ThreadOK, LocksOf
<1>6. pc[u] \in Inside => loc[u].l \in Name /\ m_mutex[loc[u].l] = u
  BY <1>2 DEF ThreadOK, LocksOf, CallOf
<1>7. CallOf(u)'
  BY <1>1, <1>2, <1>4 DEF ThreadOK, CallOf, Inside, Adding
<1>8. WorkOf(u)'
  <2>1. ASSUME pc[u] \in Inside
        PROVE  Mine(loc[u].todo, loc[u].l)'
    <3>1. loc[u].todo \in Seq(Appender) /\ Mine(loc[u].todo, loc[u].l) /\ loc[u].l # Null
      BY <1>2, <1>6, <2>1 DEF IInv, TypeOK, Locals, ThreadOK, WorkOf
    <3>2. \A i \in DOMAIN loc[u].todo : loc[u].todo[i] \in Appender
      BY <3>1
    <3> QED BY <1>1, <1>4, <3>1, <3>2 DEF Mine
  <2>2. ASSUME pc[u] \in Adding
        PROVE  \A i \in DOMAIN m_appenders'[loc[u].l] : m_appenders'[loc[u].l][i] # loc[u].a
    BY <1>2, <1>3, <1>6, <2>2 DEF ThreadOK, WorkOf, Adding, Inside
  <2>3. ASSUME pc[u] = "push"
        PROVE  (a_formatter[loc[u].a] = Right(loc[u].a, loc[u].l))'
    <3>1. /\ loc[u].a \in Appender /\ home[loc[u].a] = loc[u].l /\ home[loc[u].a] # Null
          /\ m_mutex[loc[u].l] = u /\ loc[u].l \in Name
      BY <1>2, <1>6, <2>3 DEF ThreadOK, CallOf, Adding, Inside
    <3>2. a_formatter[loc[u].a] = Right(loc[u].a, loc[u].l)
      BY <1>2, <2>3 DEF ThreadOK, WorkOf
    <3> QED BY <1>1, <1>3, <1>4, <3>1, <3>2 DEF Right
  <2>4. ASSUME pc[u] = "inherit"
        PROVE  own'[loc[u].a] = Null
    BY <1>2, <1>4, <1>6, <2>4 DEF ThreadOK, CallOf, WorkOf, Adding, Inside
  <2> QED BY <1>1, <2>1, <2>2, <2>3, <2>4 DEF WorkOf
<1>9. EventOf(u)'
  <2> SUFFICES ASSUME NEW a \in Appender, NEW i \in DOMAIN out'[a], out'[a][i] = Cur(u)
               PROVE  /\ pc[u] # "lock"
                      /\ pc[u] \in Writing =>
                           /\ i = Len(out'[a]) /\ home'[a] = loc[u].l
                           /\ \A k \in DOMAIN loc[u].todo : loc[u].todo[k] # a
    BY <1>1 DEF EventOf, Cur
  <2>1. out[a] \in Seq(Event) /\ Cur(u) # Cur(t)
    BY DEF IInv, TypeOK, Cur
  <2>2. i \in DOMAIN out[a] /\ out[a][i] = Cur(u)
    <3>1. CASE out'[a] = out[a]
      BY <3>1
    <3>2. CASE out'[a] = Append(out[a], Cur(t))
      BY <2>1, <3>2
    <3> QED BY <3>1, <3>2 DEF Discipline
  <2>3. pc[u] # "lock"
    BY <1>2, <2>2 DEF ThreadOK, EventOf
  <2>4. ASSUME pc[u] \in Writing
        PROVE  /\ i = Len(out'[a]) /\ home'[a] = loc[u].l
               /\ \A k \in DOMAIN loc[u].todo : loc[u].todo[k] # a
    <3>1. /\ i = Len(out[a]) /\ home[a] = loc[u].l
          /\ \A k \in DOMAIN loc[u].todo : loc[u].todo[k] # a
      BY <1>2, <2>2, <2>4 DEF ThreadOK, EventOf
    <3>2. m_mutex[home[a]] = u /\ home[a] # Null
      BY <1>2, <1>6, <2>4, <3>1 DEF Writing, Inside
    <3>3. out'[a] = out[a] /\ home'[a] = home[a]
      BY <3>2 DEF Discipline
    <3> QED BY <3>1, <3>3
  <2> QED BY <2>3, <2>4
<1> QED BY <1>5, <1>7, <1>8, <1>9 DEF ThreadOK

(* A step that writes nothing leaves the appenders' output in order.       *)
LEMMA HistoryKept ==
  ASSUME IInv, NEW t \in Thread, Discipline(t), UNCHANGED out, ops' \in [Thread -> Nat]
  PROVE  History'
<1>1. \A a \in Appender : \A i \in DOMAIN out[a] :
        home[a] # Null /\ home'[a] = home[a] /\ out[a][i].by \in Thread /\ out[a][i].no \in Nat
  <2> SUFFICES ASSUME NEW a \in Appender, NEW i \in DOMAIN out[a]
               PROVE  /\ home[a] # Null /\ home'[a] = home[a]
                      /\ out[a][i].by \in Thread /\ out[a][i].no \in Nat
    OBVIOUS
  <2>1. out[a] \in Seq(Event)
    BY DEF IInv, TypeOK
  <2>2. out[a][i] \in Event
    BY <2>1
  <2>3. home[a] # Null
    BY DEF IInv, History, Numbered
  <2> QED BY <2>2, <2>3 DEF Event, Thread, Discipline
<1>2. \A u \in Thread : ops'[u] >= ops[u] /\ ops[u] \in Nat /\ ops'[u] \in Nat
  <2>1. ops \in [Thread -> 0..(MaxLogs + MaxChanges)]
    BY DEF IInv, TypeOK
  <2>2. \A u \in Thread : ops[u] \in Nat
    BY <2>1, LoggerAssumption
  <2> QED BY <2>2 DEF Discipline
<1>3. Numbered'
  <2> SUFFICES ASSUME NEW a \in Appender, NEW i \in DOMAIN out[a]
               PROVE  /\ home'[a] # Null
                      /\ out[a][i].no <= ops'[out[a][i].by]
                      /\ \A j \in DOMAIN out[a] : i # j => out[a][i] # out[a][j]
    BY DEF Numbered
  <2>1. out[a][i].no <= ops[out[a][i].by]
    BY DEF IInv, History, Numbered
  <2>2. out[a][i].no <= ops'[out[a][i].by]
    BY <1>1, <1>2, <2>1
  <2> QED BY <1>1, <2>2 DEF IInv, History, Numbered
<1>4. OneRoute'
  BY <1>1 DEF IInv, History, OneRoute
<1>5. SameOrder'
  BY DEF IInv, History, SameOrder, Before
<1> QED BY <1>3, <1>4, <1>5 DEF History

(* An appender that setFormatter() has still to see stays so, whatever     *)
(* another thread does.                                                    *)
LEMMA AwaitsKept ==
  ASSUME NEW t \in Thread, Discipline(t), pc[t] # "pass", NEW a, NEW l, Awaits(a, l)
  PROVE  Awaits(a, l)'
<1>1. PICK u \in Thread : /\ pc[u] = "pass" /\ loc[u].l = l
                          /\ \E k \in DOMAIN loc[u].todo : loc[u].todo[k] = a
  BY DEF Awaits
<1>2. pc'[u] = "pass" /\ loc'[u] = loc[u]
  BY <1>1 DEF Discipline
<1> QED BY <1>1, <1>2 DEF Awaits

(* A list stays right in a step that may drop appenders from it, but       *)
(* changes no formatter in it and does not end a setFormatter().           *)
LEMMA ListKept ==
  ASSUME IInv, NEW t \in Thread, Discipline(t), pc[t] # "pass", NEW l \in Name,
         m_formatter'[l] = m_formatter[l],
         \A j \in DOMAIN m_appenders'[l] : \E i \in DOMAIN m_appenders[l] :
           m_appenders'[l][j] = m_appenders[l][i],
         \A i, j \in DOMAIN m_appenders'[l] : i # j => m_appenders'[l][i] # m_appenders'[l][j],
         \A i \in DOMAIN m_appenders[l] :
           a_formatter'[m_appenders[l][i]] = a_formatter[m_appenders[l][i]]
  PROVE  ListOK(l)'
<1>1. m_appenders[l] \in Seq(Appender) /\ l # Null /\ ListOK(l)
  BY LoggerAssumption DEF IInv, TypeOK
<1>2. ASSUME NEW j \in DOMAIN m_appenders'[l]
      PROVE  /\ home'[m_appenders'[l][j]] = l /\ a_formatter'[m_appenders'[l][j]] # Null
             /\ \/ a_formatter'[m_appenders'[l][j]] = Right(m_appenders[l][j], l)'
                \/ Awaits(m_appenders[l][j], l)'
  <2>1. PICK i \in DOMAIN m_appenders[l] : m_appenders'[l][j] = m_appenders[l][i]
    OBVIOUS
  <2>2. PICK a \in Appender : a = m_appenders[l][i] /\ a = m_appenders'[l][j]
    BY <1>1, <2>1
  <2>3. /\ home[a] = l /\ a_formatter[a] # Null
        /\ a_formatter[a] = Right(a, l) \/ Awaits(a, l)
    BY <1>1, <2>2 DEF ListOK, Mine
  <2>4. home'[a] = l /\ own'[a] = own[a] /\ a_formatter'[a] = a_formatter[a]
    BY <1>1, <2>2, <2>3 DEF Discipline
  <2>5. CASE a_formatter[a] = Right(a, l)
    BY <2>2, <2>3, <2>4, <2>5 DEF Right
  <2>6. CASE Awaits(a, l)
    <3>1. Awaits(a, l)'
      BY <2>6, AwaitsKept
    <3> QED BY <2>2, <2>3, <2>4, <3>1
  <2> QED BY <2>3, <2>5, <2>6
<1> QED BY <1>2 DEF ListOK, Mine

LEMMA ListUntouched ==
  ASSUME IInv, NEW t \in Thread, Discipline(t), pc[t] # "pass", NEW l \in Name,
         m_appenders'[l] = m_appenders[l], m_formatter'[l] = m_formatter[l],
         \A i \in DOMAIN m_appenders[l] :
           a_formatter'[m_appenders[l][i]] = a_formatter[m_appenders[l][i]]
  PROVE  ListOK(l)'
<1>1. \A i, j \in DOMAIN m_appenders[l] : i # j => m_appenders[l][i] # m_appenders[l][j]
  BY DEF IInv, ListOK, Mine
<1> QED BY <1>1, ListKept

-----------------------------------------------------------------------------
(* What the calls have in common                                           *)

(* A step that keeps to the discipline has to keep right only what is its  *)
(* own: the thread's place and what it changes.                            *)
LEMMA StepFrom ==
  ASSUME IInv, NEW t \in Thread, Discipline(t), TypeOK', ThreadOK(t)', Given', History',
         NoNullFormatter', \A l \in Name : ListOK(l)'
  PROVE  IInv'
<1>1. \A u \in Thread : ThreadOK(u)'
  BY OthersKept
<1> QED BY <1>1 DEF IInv

(* A step that only concerns the thread and the locks.                     *)
Quiet(t) ==
  /\ UNCHANGED <<m_formatter, m_appenders, a_formatter, m_hasFormatter, out, home, own,
                 nullFormatter>>
  /\ \A u \in Thread : u # t =>
       pc'[u] = pc[u] /\ loc'[u] = loc[u] /\ held'[u] = held[u] /\ ops'[u] = ops[u]
  /\ ops'[t] >= ops[t]
  /\ \A l \in Name : m_mutex[l] \notin {Null, t} => m_mutex'[l] = m_mutex[l]

LEMMA QuietStep ==
  ASSUME IInv, NEW t \in Thread, Quiet(t), pc[t] # "pass", TypeOK',
         LocksOf(t)', CallOf(t)', WorkOf(t)', EventOf(t)'
  PROVE  IInv'
<1>1. Discipline(t)
  BY DEF Quiet, Discipline
<1>2. ops' \in [Thread -> Nat]
  <2>1. \A n \in 0..(MaxLogs + MaxChanges) : n \in Nat
    BY LoggerAssumption
  <2> QED BY <2>1 DEF TypeOK
<1>3. History'
  BY <1>1, <1>2, HistoryKept DEF Quiet
<1>4. \A l \in Name : ListOK(l)'
  BY <1>1, ListUntouched DEF Quiet
<1>5. Given' /\ NoNullFormatter'
  BY DEF IInv, Given, NoNullFormatter, Quiet
<1> QED BY <1>1, <1>3, <1>4, <1>5, StepFrom DEF ThreadOK

(* A call begins: it has a number of its own, so its event is new.         *)
LEMMA CallsFacts ==
  ASSUME IInv, NEW t \in Thread, Calls(t)
  PROVE  /\ pc[t] = "idle" /\ loc[t].todo = <<>>
         /\ ops' \in [Thread -> 0..(MaxLogs + MaxChanges)] /\ ops' \in [Thread -> Nat]
         /\ ops'[t] = ops[t] + 1 /\ ops'[t] >= ops[t] /\ ops'[t] >= 1
         /\ \A u \in Thread : u # t => ops'[u] = ops[u]
         /\ t \in Writers => ops'[t] <= MaxLogs
         /\ \A a \in Appender : \A i \in DOMAIN out[a] : out[a][i] # Cur(t)'
<1>1. ops \in [Thread -> 0..(MaxLogs + MaxChanges)] /\ pc[t] = "idle"
  BY DEF IInv, TypeOK, Calls
<1>2. ops[t] \in Nat /\ ops[t] < MaxLogs + MaxChanges /\ (t \in Writers => ops[t] < MaxLogs)
  BY <1>1, LoggerAssumption DEF Calls
<1>3. ops' = [ops EXCEPT ![t] = ops[t] + 1]
  BY DEF Calls
<1>4. ops' \in [Thread -> 0..(MaxLogs + MaxChanges)]
  BY <1>1, <1>2, <1>3, LoggerAssumption
<1>5. ops' \in [Thread -> Nat]
  BY <1>4, LoggerAssumption
<1>6. loc[t].todo = <<>>
  BY <1>1 DEF IInv, ThreadOK, CallOf, Writing
<1>7. ASSUME NEW a \in Appender, NEW i \in DOMAIN out[a], out[a][i] = Cur(t)'
      PROVE  FALSE
  <2>1. out[a][i].no <= ops[out[a][i].by]
    BY DEF IInv, History, Numbered
  <2>2. out[a][i].by = t /\ out[a][i].no = ops[t] + 1
    BY <1>1, <1>3, <1>7 DEF Cur
  <2> QED BY <1>2, <2>1, <2>2
<1>8. /\ ops'[t] = ops[t] + 1 /\ ops'[t] >= ops[t] /\ ops'[t] >= 1
      /\ (t \in Writers => ops'[t] <= MaxLogs) /\ \A u \in Thread : u # t => ops'[u] = ops[u]
  BY <1>1, <1>2, <1>3, LoggerAssumption
<1> QED BY <1>1, <1>4, <1>5, <1>6, <1>7, <1>8

(* A free lock is taken.                                                   *)
LEMMA AcquireFacts ==
  ASSUME IInv, NEW t \in Thread, NEW l \in Name, Acquire(t, l)
  PROVE  /\ m_mutex' \in [Name -> Thread \cup {Null}] /\ held' \in [Thread -> Seq(Name)]
         /\ held'[t] # <<>> /\ held'[t][1] = l /\ m_mutex[l] = Null
         /\ \A i \in DOMAIN held'[t] : m_mutex'[held'[t][i]] = t
         /\ \A i, j \in DOMAIN held'[t] : i # j => held'[t][i] # held'[t][j]
         /\ \A u \in Thread : u # t => held'[u] = held[u]
         /\ \A k \in Name : m_mutex[k] \notin {Null, t} => m_mutex'[k] = m_mutex[k]
<1>1. /\ held[t] \in Seq(Name) /\ held \in [Thread -> Seq(Name)]
      /\ m_mutex \in [Name -> Thread \cup {Null}] /\ t # Null
  BY LoggerAssumption DEF IInv, TypeOK
<1>2. /\ m_mutex[l] = Null /\ m_mutex' = [m_mutex EXCEPT ![l] = t]
      /\ held' = [held EXCEPT ![t] = <<l>> \o held[t]]
  BY DEF Acquire
<1> DEFINE s == <<l>> \o held[t]
<1>3. /\ s \in Seq(Name) /\ s # <<>> /\ s[1] = l
      /\ \A i \in DOMAIN s : i # 1 => i - 1 \in DOMAIN held[t] /\ s[i] = held[t][i - 1]
  BY <1>1, ConsFacts
<1>4. \A i \in DOMAIN s : i \in Int
  BY <1>3
<1> HIDE DEF s
<1>5. held'[t] = s /\ held' \in [Thread -> Seq(Name)] /\ \A u \in Thread : u # t => held'[u] = held[u]
  BY <1>1, <1>2, <1>3 DEF s
<1>6. LocksOf(t)
  BY DEF IInv, ThreadOK
<1>7. \A i \in DOMAIN s : i # 1 => s[i] \in Name /\ s[i] # l /\ m_mutex[s[i]] = t
  BY <1>1, <1>2, <1>3, <1>6 DEF LocksOf
<1>8. \A i \in DOMAIN s : m_mutex'[s[i]] = t
  BY <1>1, <1>2, <1>3, <1>7
<1>9. \A i, j \in DOMAIN s : i # j => s[i] # s[j]
  <2> SUFFICES ASSUME NEW i \in DOMAIN s, NEW j \in DOMAIN s, i # j
               PROVE  s[i] # s[j]
    OBVIOUS
  <2>1. CASE i = 1 \/ j = 1
    BY <1>3, <1>7, <2>1
  <2>2. CASE i # 1 /\ j # 1
    <3>1. i - 1 # j - 1
      BY <1>4
    <3> QED BY <1>3, <1>6, <2>2, <3>1 DEF LocksOf
  <2> QED BY <2>1, <2>2
<1> QED BY <1>1, <1>2, <1>3, <1>5, <1>8, <1>9

(* What remains of a loop over the appenders after one of them.            *)
LEMMA MineTail ==
  ASSUME NEW s \in Seq(Appender), s # <<>>, NEW l, Mine(s, l)
  PROVE  Mine(Tail(s), l)
<1>1. /\ \A i \in DOMAIN Tail(s) : i + 1 \in DOMAIN s /\ Tail(s)[i] = s[i + 1]
      /\ \A i, j \in DOMAIN Tail(s) : i # j => i + 1 # j + 1
  BY TailFacts
<1> QED BY <1>1 DEF Mine

-----------------------------------------------------------------------------
(* The steps that change only the thread and the locks                     *)

LEMMA UnlockStep ==
  ASSUME IInv, NEW t \in Thread, Unlock(t)
  PROVE  IInv'
<1>1. /\ pc[t] = "unlock"
      /\ UNCHANGED <<m_loggers, m_manager, m_level, m_formatter, m_appenders, a_level,
                     a_formatter, m_hasFormatter, out, home, own, nullFormatter, ops>>
  BY DEF Unlock, managerVars, loggerVars, appenderVars, histVars
<1>2. TypeOK /\ LocksOf(t) /\ CallOf(t) /\ ops[t] \in Nat
  BY LoggerAssumption DEF IInv, TypeOK, ThreadOK
<1>3. CASE held[t] = <<>>
  <2>1. /\ pc' = [pc EXCEPT ![t] = "idle"] /\ loc' = [loc EXCEPT ![t] = NoLocals]
        /\ UNCHANGED <<m_mutex, held>>
    BY <1>3 DEF Unlock, Goto
  <2>2. NoLocals \in Locals /\ NoLocals.todo = <<>>
    BY DEF NoLocals, Locals
  <2>3. pc'[t] = "idle" /\ loc'[t] = NoLocals
    BY <1>2, <2>1 DEF TypeOK
  <2>4. TypeOK'
    BY <1>1, <1>2, <2>1, <2>2 DEF TypeOK
  <2>5. LocksOf(t)'
    BY <1>2, <2>1, <2>3 DEF LocksOf, Inside
  <2>6. CallOf(t)' /\ WorkOf(t)' /\ EventOf(t)'
    BY <1>1, <1>2, <2>2, <2>3 DEF CallOf, WorkOf, EventOf, Logging, Inside, Adding, Writing
  <2>7. Quiet(t)
    BY <1>1, <1>2, <2>1 DEF Quiet, TypeOK
  <2> QED BY <1>1, <2>4, <2>5, <2>6, <2>7, QuietStep
<1>4. CASE held[t] # <<>>
  <2>1. /\ m_mutex' = [m_mutex EXCEPT ![Head(held[t])] = Null]
        /\ held' = [held EXCEPT ![t] = Tail(held[t])] /\ UNCHANGED <<pc, loc>>
    BY <1>4 DEF Unlock, Released
  <2>2. held[t] \in Seq(Name)
    BY <1>2 DEF TypeOK
  <2>3. /\ Head(held[t]) \in Name /\ Head(held[t]) = held[t][1] /\ 1 \in DOMAIN held[t]
        /\ Tail(held[t]) \in Seq(Name)
        /\ \A i \in DOMAIN Tail(held[t]) : /\ i + 1 \in DOMAIN held[t] /\ i + 1 # 1
                                           /\ Tail(held[t])[i] = held[t][i + 1]
        /\ \A i, j \in DOMAIN Tail(held[t]) : i # j => i + 1 # j + 1
    BY <1>4, <2>2, TailFacts
  <2>4. held'[t] = Tail(held[t])
    BY <1>2, <2>1 DEF TypeOK
  <2>5. TypeOK'
    BY <1>1, <1>2, <2>1, <2>3 DEF TypeOK
  <2>6. LocksOf(t)'
    <3>1. \A i \in DOMAIN held'[t] : m_mutex'[held'[t][i]] = t
      BY <1>2, <2>1, <2>2, <2>3, <2>4 DEF LocksOf, TypeOK
    <3>2. \A i, j \in DOMAIN held'[t] : i # j => held'[t][i] # held'[t][j]
      BY <1>2, <2>3, <2>4 DEF LocksOf
    <3> QED BY <1>1, <2>1, <3>1, <3>2 DEF LocksOf, Inside
  <2>7. CallOf(t)' /\ WorkOf(t)' /\ EventOf(t)'
    BY <1>1, <1>2, <2>1 DEF CallOf, WorkOf, EventOf, Logging, Inside, Adding, Writing
  <2>8. m_mutex[Head(held[t])] = t
    BY <1>2, <2>3 DEF LocksOf
  <2>9. Quiet(t)
    BY <1>1, <1>2, <2>1, <2>8 DEF Quiet, TypeOK
  <2> QED BY <1>1, <2>5, <2>6, <2>7, <2>9, QuietStep
<1> QED BY <1>3, <1>4

LEMMA LogStep ==
  ASSUME IInv, NEW t \in Thread, NEW l \in Name, NEW level \in Level, Log(t, l, level)
  PROVE  IInv'
<1>1. /\ t \in Writers /\ Calls(t)
      /\ UNCHANGED <<m_loggers, m_manager, m_level, m_formatter, m_appenders, m_mutex, held,
                     a_level, a_formatter, m_hasFormatter, out, home, own, nullFormatter>>
  BY DEF Log, managerVars, loggerVars, appenderVars, histVars
<1>2. TypeOK /\ LocksOf(t) /\ CallOf(t) /\ loc[t] \in Locals
  BY DEF IInv, TypeOK, ThreadOK
<1>3. /\ pc[t] = "idle" /\ loc[t].todo = <<>>
      /\ ops' \in [Thread -> 0..(MaxLogs + MaxChanges)] /\ ops'[t] >= ops[t] /\ ops'[t] >= 1
      /\ \A u \in Thread : u # t => ops'[u] = ops[u]
      /\ ops'[t] <= MaxLogs
      /\ \A a \in Appender : \A i \in DOMAIN out[a] : out[a][i] # Cur(t)'
  BY <1>1, CallsFacts
<1>4. EventOf(t)'
  BY <1>1, <1>3 DEF EventOf
<1>5. CASE level >= m_level[l]
  <2> DEFINE new == [loc[t] EXCEPT !.l = l, !.level = level]
  <2>1. pc' = [pc EXCEPT ![t] = "lock"] /\ loc' = [loc EXCEPT ![t] = new]
    BY <1>2, <1>5 DEF Log, Goto, TypeOK, Locals
  <2>2. new \in Locals /\ new.l = l /\ new.todo = <<>>
    BY <1>2, <1>3 DEF Locals
  <2> HIDE DEF new
  <2>3. pc'[t] = "lock" /\ loc'[t] = new
    BY <1>2, <2>1 DEF TypeOK
  <2>4. TypeOK'
    BY <1>1, <1>2, <1>3, <2>1, <2>2 DEF TypeOK
  <2>5. LocksOf(t)'
    BY <1>1, <1>2, <2>3 DEF LocksOf, Inside
  <2>6. CallOf(t)' /\ WorkOf(t)'
    BY <1>1, <1>3, <2>2, <2>3 DEF CallOf, WorkOf, Logging, Inside, Adding, Writing
  <2>7. Quiet(t)
    BY <1>1, <1>2, <1>3, <2>1 DEF Quiet, TypeOK
  <2> QED BY <1>3, <1>4, <2>4, <2>5, <2>6, <2>7, QuietStep
<1>6. CASE ~(level >= m_level[l])
  <2>1. UNCHANGED <<pc, loc>>
    BY <1>6 DEF Log
  <2>2. TypeOK'
    BY <1>1, <1>2, <1>3, <2>1 DEF TypeOK
  <2>3. LocksOf(t)' /\ CallOf(t)' /\ WorkOf(t)'
    BY <1>1, <1>2, <1>3, <2>1 DEF LocksOf, CallOf, WorkOf, Logging, Inside, Adding, Writing
  <2>4. Quiet(t)
    BY <1>1, <1>3, <2>1 DEF Quiet
  <2> QED BY <1>3, <1>4, <2>2, <2>3, <2>4, QuietStep
<1> QED BY <1>5, <1>6

LEMMA LogLockStep ==
  ASSUME IInv, NEW t \in Thread, LogLock(t)
  PROVE  IInv'
<1> DEFINE l == loc[t].l
<1>1. /\ pc[t] = "lock" /\ Acquire(t, l)
      /\ UNCHANGED <<m_loggers, m_manager, m_level, m_formatter, m_appenders, a_level,
                     a_formatter, m_hasFormatter, out, home, own, nullFormatter, ops>>
  BY DEF LogLock, managerVars, loggerVars, appenderVars, histVars
<1>2. TypeOK /\ LocksOf(t) /\ CallOf(t) /\ EventOf(t) /\ loc[t] \in Locals /\ ops[t] \in Nat
  BY LoggerAssumption DEF IInv, TypeOK, ThreadOK
<1>3. l \in Name /\ t \in Writers /\ ops[t] >= 1 /\ ops[t] <= MaxLogs /\ loc[t].todo = <<>>
  BY <1>1, <1>2 DEF CallOf, Logging, Writing
<1>4. /\ m_mutex' \in [Name -> Thread \cup {Null}] /\ held' \in [Thread -> Seq(Name)]
      /\ held'[t] # <<>> /\ held'[t][1] = l
      /\ \A i \in DOMAIN held'[t] : m_mutex'[held'[t][i]] = t
      /\ \A i, j \in DOMAIN held'[t] : i # j => held'[t][i] # held'[t][j]
      /\ \A u \in Thread : u # t => held'[u] = held[u]
      /\ \A k \in Name : m_mutex[k] \notin {Null, t} => m_mutex'[k] = m_mutex[k]
  BY <1>1, <1>3, AcquireFacts
<1>5. \A a \in Appender : \A i \in DOMAIN out[a] : out[a][i] # Cur(t)
  BY <1>1, <1>2 DEF EventOf
<1>6. EventOf(t)'
  BY <1>1, <1>5 DEF EventOf, Cur
<1>7. ASSUME NEW where, NEW new \in Locals,
             pc' = [pc EXCEPT ![t] = where], loc' = [loc EXCEPT ![t] = new]
      PROVE  /\ pc'[t] = where /\ loc'[t] = new /\ Quiet(t)
             /\ where \in {"lock", "append", "unlock"} => TypeOK'
  BY <1>1, <1>2, <1>4, <1>7 DEF Quiet, TypeOK
<1>8. CASE m_appenders[l] # <<>> /\ loc' = [loc EXCEPT ![t].todo = Route(l)] /\ Goto(t, "append")
  <2> DEFINE new == [loc[t] EXCEPT !.todo = m_appenders[l]]
  <2>1. pc' = [pc EXCEPT ![t] = "append"] /\ loc' = [loc EXCEPT ![t] = new]
    BY <1>2, <1>8 DEF Goto, TypeOK, Locals, Route
  <2>2. m_appenders[l] \in Seq(Appender) /\ Mine(m_appenders[l], l)
    BY <1>2, <1>3 DEF IInv, TypeOK, ListOK
  <2>3. new \in Locals /\ new.l = l /\ new.todo = m_appenders[l]
    BY <1>2, <2>2 DEF Locals
  <2> HIDE DEF new
  <2>4. pc'[t] = "append" /\ loc'[t] = new /\ Quiet(t) /\ TypeOK'
    BY <1>7, <2>1, <2>3
  <2>5. LocksOf(t)'
    BY <1>4, <2>3, <2>4 DEF LocksOf
  <2>6. CallOf(t)'
    BY <1>1, <1>3, <2>3, <2>4 DEF CallOf, Logging, Inside, Adding, Writing
  <2>7. Mine(loc[t].todo, loc[t].l)'
    BY <1>1, <2>2, <2>3, <2>4 DEF Mine
  <2>8. WorkOf(t)'
    BY <2>4, <2>7 DEF WorkOf, Adding
  <2> QED BY <1>1, <1>6, <2>4, <2>5, <2>6, <2>8, QuietStep
<1>9. CASE loc' = [loc EXCEPT ![t].l = Root] /\ UNCHANGED pc
  <2> DEFINE new == [loc[t] EXCEPT !.l = Root]
  <2>1. pc' = [pc EXCEPT ![t] = "lock"] /\ loc' = [loc EXCEPT ![t] = new]
    BY <1>1, <1>2, <1>9 DEF TypeOK, Locals
  <2>2. new \in Locals /\ new.l = Root /\ new.todo = <<>>
    BY <1>2, <1>3, LoggerAssumption DEF Locals
  <2> HIDE DEF new
  <2>3. pc'[t] = "lock" /\ loc'[t] = new /\ Quiet(t) /\ TypeOK'
    BY <1>7, <2>1, <2>2
  <2>4. LocksOf(t)'
    BY <1>4, <2>3 DEF LocksOf, Inside
  <2>5. CallOf(t)' /\ WorkOf(t)'
    BY <1>1, <1>3, <2>2, <2>3, LoggerAssumption
    DEF CallOf, WorkOf, Logging, Inside, Adding, Writing
  <2> QED BY <1>1, <1>6, <2>3, <2>4, <2>5, QuietStep
<1>10. CASE Goto(t, "unlock") /\ UNCHANGED loc
  <2>1. pc' = [pc EXCEPT ![t] = "unlock"] /\ loc' = [loc EXCEPT ![t] = loc[t]]
    BY <1>2, <1>10 DEF Goto, TypeOK
  <2>2. pc'[t] = "unlock" /\ loc'[t] = loc[t] /\ Quiet(t) /\ TypeOK'
    BY <1>2, <1>7, <2>1
  <2>3. LocksOf(t)'
    BY <1>4, <2>2 DEF LocksOf, Inside
  <2>4. CallOf(t)' /\ WorkOf(t)'
    BY <1>1, <1>3, <2>2 DEF CallOf, WorkOf, Logging, Inside, Adding, Writing
  <2> QED BY <1>1, <1>6, <2>2, <2>3, <2>4, QuietStep
<1> QED BY <1>8, <1>9, <1>10 DEF LogLock

(* LogAppender::log() of an appender whose level is higher passes it over. *)
LEMMA Append_Step ==
  ASSUME IInv, NEW t \in Thread, Append_(t)
  PROVE  IInv'
<1>1. /\ pc[t] = "append"
      /\ UNCHANGED <<m_loggers, m_manager, m_level, m_formatter, m_appenders, m_mutex, held,
                     a_level, a_formatter, m_hasFormatter, out, home, own, nullFormatter, ops>>
  BY DEF Append_, managerVars, loggerVars, appenderVars, histVars
<1>2. /\ TypeOK /\ LocksOf(t) /\ CallOf(t) /\ WorkOf(t) /\ EventOf(t)
      /\ loc[t] \in Locals /\ ops[t] \in Nat
  BY LoggerAssumption DEF IInv, TypeOK, ThreadOK
<1>3. ASSUME NEW where, NEW new \in Locals,
             pc' = [pc EXCEPT ![t] = where], loc' = [loc EXCEPT ![t] = new]
      PROVE  /\ pc'[t] = where /\ loc'[t] = new /\ Quiet(t)
             /\ where \in {"unlock", "emit", "append"} => TypeOK'
  BY <1>1, <1>2, <1>3 DEF Quiet, TypeOK
<1>4. ASSUME NEW where \in {"unlock", "emit"}, Goto(t, where), UNCHANGED loc,
             where = "unlock" <=> loc[t].todo = <<>>
      PROVE  IInv'
  <2>1. pc'[t] = where /\ loc'[t] = loc[t] /\ Quiet(t) /\ TypeOK'
    <3>1. pc' = [pc EXCEPT ![t] = where] /\ loc' = [loc EXCEPT ![t] = loc[t]]
      BY <1>2, <1>4 DEF Goto, TypeOK
    <3> QED BY <1>2, <1>3, <1>4, <3>1
  <2>2. LocksOf(t)'
    BY <1>1, <1>2, <2>1 DEF LocksOf, Inside
  <2>3. CallOf(t)'
    BY <1>1, <1>2, <1>4, <2>1 DEF CallOf, Logging, Inside, Adding, Writing
  <2>4. WorkOf(t)'
    BY <1>1, <1>2, <1>4, <2>1 DEF WorkOf, Mine, Inside, Adding
  <2>5. EventOf(t)'
    BY <1>1, <1>2, <1>4, <2>1 DEF EventOf, Cur, Writing
  <2> QED BY <1>1, <2>1, <2>2, <2>3, <2>4, <2>5, QuietStep
<1>5. ASSUME loc[t].todo # <<>>, loc' = [loc EXCEPT ![t].todo = Tail(@)], UNCHANGED pc
      PROVE  IInv'
  <2> DEFINE new == [loc[t] EXCEPT !.todo = Tail(loc[t].todo)]
  <2>1. pc' = [pc EXCEPT ![t] = "append"] /\ loc' = [loc EXCEPT ![t] = new]
    BY <1>1, <1>2, <1>5 DEF TypeOK, Locals
  <2>2. loc[t].todo \in Seq(Appender)
    BY <1>2 DEF Locals
  <2>3. /\ Tail(loc[t].todo) \in Seq(Appender)
        /\ \A i \in DOMAIN Tail(loc[t].todo) :
             i + 1 \in DOMAIN loc[t].todo /\ Tail(loc[t].todo)[i] = loc[t].todo[i + 1]
        /\ \A i, j \in DOMAIN Tail(loc[t].todo) : i # j => i + 1 # j + 1
    BY <1>5, <2>2, TailFacts
  <2>4. new \in Locals /\ new.l = loc[t].l /\ new.todo = Tail(loc[t].todo)
    BY <1>2, <2>3 DEF Locals
  <2> HIDE DEF new
  <2>5. pc'[t] = "append" /\ loc'[t] = new /\ Quiet(t) /\ TypeOK'
    BY <1>3, <2>1, <2>4
  <2>6. LocksOf(t)'
    BY <1>1, <1>2, <2>4, <2>5 DEF LocksOf, Inside
  <2>7. CallOf(t)'
    BY <1>1, <1>2, <2>4, <2>5 DEF CallOf, Logging, Inside, Adding, Writing
  <2>8. Mine(loc[t].todo, loc[t].l)'
    <3>1. Mine(Tail(loc[t].todo), loc[t].l)
      BY <1>1, <1>2, <1>5, <2>2, MineTail DEF WorkOf, Inside
    <3> QED BY <1>1, <2>4, <2>5, <3>1 DEF Mine
  <2>9. WorkOf(t)'
    BY <2>5, <2>8 DEF WorkOf, Adding
  <2>10. EventOf(t)'
    <3> SUFFICES ASSUME NEW a \in Appender, NEW i \in DOMAIN out[a], out[a][i] = Cur(t)
                 PROVE  /\ i = Len(out[a]) /\ home[a] = loc[t].l
                        /\ \A k \in DOMAIN Tail(loc[t].todo) : Tail(loc[t].todo)[k] # a
      BY <1>1, <2>4, <2>5 DEF EventOf, Cur
    <3>1. /\ i = Len(out[a]) /\ home[a] = loc[t].l
          /\ \A k \in DOMAIN loc[t].todo : loc[t].todo[k] # a
      BY <1>1, <1>2 DEF EventOf, Writing
    <3> QED BY <2>3, <3>1
  <2> QED BY <1>1, <2>5, <2>6, <2>7, <2>9, <2>10, QuietStep
<1> QED
  <2>1. CASE loc[t].todo = <<>>
    BY <1>4, <2>1 DEF Append_
  <2>2. CASE loc[t].todo # <<>>
    BY <1>4, <1>5, <2>2 DEF Append_
  <2> QED BY <2>1, <2>2

(* A call that changes a level, or adds a logger, and returns.             *)
LEMMA IdleStep ==
  ASSUME IInv, NEW t \in Thread, Calls(t), TypeOK',
         UNCHANGED <<m_formatter, m_appenders, a_formatter, m_hasFormatter, out, home, own,
                     nullFormatter, m_mutex, held, pc, loc>>
  PROVE  IInv'
<1>1. /\ pc[t] = "idle" /\ loc[t].todo = <<>> /\ ops'[t] >= ops[t]
      /\ \A u \in Thread : u # t => ops'[u] = ops[u]
      /\ t \in Writers => ops'[t] <= MaxLogs
  BY CallsFacts
<1>2. Quiet(t)
  BY <1>1 DEF Quiet
<1>3. LocksOf(t)
  BY DEF IInv, ThreadOK
<1>4. LocksOf(t)' /\ CallOf(t)' /\ WorkOf(t)' /\ EventOf(t)'
  BY <1>1, <1>3 DEF LocksOf, CallOf, WorkOf, EventOf, Logging, Inside, Adding, Writing
<1> QED BY <1>1, <1>2, <1>4, QuietStep

LEMMA SetLevelStep ==
  ASSUME IInv, NEW t \in Thread, NEW l \in Name, NEW level \in Level, SetLevel(t, l, level)
  PROVE  IInv'
<1>1. /\ Calls(t) /\ m_level' = [m_level EXCEPT ![l] = level]
      /\ UNCHANGED <<m_loggers, m_manager, m_formatter, m_appenders, a_level, a_formatter,
                     m_hasFormatter, out, home, own, nullFormatter, m_mutex, held, pc, loc>>
  BY DEF SetLevel, Changes, managerVars, appenderVars, histVars
<1>2. ops' \in [Thread -> 0..(MaxLogs + MaxChanges)]
  BY <1>1, CallsFacts
<1>3. TypeOK'
  BY <1>1, <1>2 DEF IInv, TypeOK
<1> QED BY <1>1, <1>3, IdleStep

LEMMA AppenderSetLevelStep ==
  ASSUME IInv, NEW t \in Thread, NEW a \in Appender, NEW level \in Level,
         AppenderSetLevel(t, a, level)
  PROVE  IInv'
<1>1. /\ Calls(t) /\ a_level' = [a_level EXCEPT ![a] = level]
      /\ UNCHANGED <<m_loggers, m_manager, m_level, m_formatter, m_appenders, a_formatter,
                     m_hasFormatter, out, home, own, nullFormatter, m_mutex, held, pc, loc>>
  BY DEF AppenderSetLevel, Changes, managerVars, loggerVars, histVars
<1>2. ops' \in [Thread -> 0..(MaxLogs + MaxChanges)]
  BY <1>1, CallsFacts
<1>3. TypeOK'
  BY <1>1, <1>2 DEF IInv, TypeOK
<1> QED BY <1>1, <1>3, IdleStep

LEMMA GetLoggerStep ==
  ASSUME IInv, NEW t \in Thread, NEW l \in Name, GetLogger(t, l)
  PROVE  IInv'
<1>1. /\ Calls(t) /\ m_loggers' = m_loggers \cup {l}
      /\ UNCHANGED <<m_manager, m_level, m_formatter, m_appenders, a_level, a_formatter,
                     m_hasFormatter, out, home, own, nullFormatter, m_mutex, held, pc, loc>>
  BY DEF GetLogger, Changes, loggerVars, appenderVars, histVars
<1>2. ops' \in [Thread -> 0..(MaxLogs + MaxChanges)]
  BY <1>1, CallsFacts
<1>3. TypeOK'
  BY <1>1, <1>2 DEF IInv, TypeOK
<1> QED BY <1>1, <1>3, IdleStep

(* toYamlString(), which looks at one logger after another.                *)
LEMMA NamesStep ==
  ASSUME IInv, NEW t \in Thread, pc[t] \in {"idle", "dump"}, NEW where \in {"idle", "dump"},
         NEW names \in SUBSET Name, loc[t].todo = <<>>,
         pc' = [pc EXCEPT ![t] = where], loc' = [loc EXCEPT ![t].names = names],
         m_manager' \in Thread \cup {Null},
         ops' \in [Thread -> 0..(MaxLogs + MaxChanges)], ops'[t] >= ops[t],
         \A u \in Thread : u # t => ops'[u] = ops[u], t \in Writers => ops'[t] <= MaxLogs,
         UNCHANGED <<m_loggers, m_level, m_formatter, m_appenders, m_mutex, held, a_level,
                     a_formatter, m_hasFormatter, out, home, own, nullFormatter>>
  PROVE  IInv'
<1>1. TypeOK /\ LocksOf(t) /\ loc[t] \in Locals
  BY DEF IInv, TypeOK, ThreadOK
<1> DEFINE new == [loc[t] EXCEPT !.names = names]
<1>2. loc' = [loc EXCEPT ![t] = new]
  BY <1>1 DEF TypeOK, Locals
<1>3. new \in Locals /\ new.todo = <<>>
  BY <1>1 DEF Locals
<1> HIDE DEF new
<1>4. pc'[t] = where /\ loc'[t] = new
  BY <1>1, <1>2 DEF TypeOK
<1>5. TypeOK'
  BY <1>1, <1>2, <1>3 DEF TypeOK
<1>6. Quiet(t)
  BY <1>1, <1>2 DEF Quiet, TypeOK
<1>7. LocksOf(t)'
  BY <1>1, <1>4 DEF LocksOf, Inside
<1>8. CallOf(t)' /\ WorkOf(t)' /\ EventOf(t)'
  BY <1>3, <1>4 DEF CallOf, WorkOf, EventOf, Logging, Inside, Adding, Writing
<1> QED BY <1>5, <1>6, <1>7, <1>8, QuietStep

LEMMA ToYamlStringStep ==
  ASSUME IInv, NEW t \in Thread, ToYamlString(t)
  PROVE  IInv'
<1>1. /\ Calls(t) /\ m_manager' = t /\ loc' = [loc EXCEPT ![t].names = m_loggers]
      /\ pc' = [pc EXCEPT ![t] = "dump"]
      /\ UNCHANGED <<m_loggers, m_level, m_formatter, m_appenders, m_mutex, held, a_level,
                     a_formatter, m_hasFormatter, out, home, own, nullFormatter>>
  BY DEF ToYamlString, Changes, Goto, loggerVars, appenderVars, histVars
<1>2. /\ pc[t] = "idle" /\ loc[t].todo = <<>> /\ ops'[t] >= ops[t]
      /\ ops' \in [Thread -> 0..(MaxLogs + MaxChanges)]
      /\ \A u \in Thread : u # t => ops'[u] = ops[u]
      /\ t \in Writers => ops'[t] <= MaxLogs
  BY <1>1, CallsFacts
<1>3. m_loggers \in SUBSET Name
  BY DEF IInv, TypeOK
<1> QED BY <1>1, <1>2, <1>3, NamesStep

LEMMA DumpStep ==
  ASSUME IInv, NEW t \in Thread, Dump(t)
  PROVE  IInv'
<1>1. /\ pc[t] = "dump"
      /\ UNCHANGED <<m_loggers, m_level, m_formatter, m_appenders, m_mutex, held, a_level,
                     a_formatter, m_hasFormatter, out, home, own, nullFormatter, ops>>
  BY DEF Dump, loggerVars, appenderVars, histVars
<1>2. /\ loc[t] \in Locals /\ loc \in [Thread -> Locals] /\ m_manager \in Thread \cup {Null}
      /\ pc[t] = "dump" /\ pc = [pc EXCEPT ![t] = pc[t]]
      /\ loc[t].todo = <<>> /\ (t \in Writers => ops[t] <= MaxLogs)
  BY <1>1 DEF IInv, TypeOK, ThreadOK, CallOf, Writing
<1>3. loc[t].names \in SUBSET Name
  BY <1>2 DEF Locals
<1>4. ops \in [Thread -> 0..(MaxLogs + MaxChanges)] /\ ops[t] \in Nat
  BY LoggerAssumption DEF IInv, TypeOK
<1>5. /\ ops' \in [Thread -> 0..(MaxLogs + MaxChanges)] /\ ops'[t] >= ops[t]
      /\ (\A u \in Thread : u # t => ops'[u] = ops[u]) /\ (t \in Writers => ops'[t] <= MaxLogs)
  BY <1>1, <1>2, <1>4
<1>6. CASE loc[t].names = {}
  <2>1. m_manager' = Null /\ pc' = [pc EXCEPT ![t] = "idle"] /\ loc' = loc
    BY <1>6 DEF Dump, Goto
  <2>2. loc' = [loc EXCEPT ![t].names = loc[t].names]
    BY <1>2, <2>1 DEF Locals
  <2> QED BY <1>1, <1>2, <1>3, <1>5, <2>1, <2>2, NamesStep
<1>7. CASE loc[t].names # {}
  <2>1. PICK l \in loc[t].names : loc' = [loc EXCEPT ![t].names = @ \ {l}]
    BY <1>7 DEF Dump
  <2>2. UNCHANGED <<m_manager, pc>>
    BY <1>7 DEF Dump
  <2>3. loc' = [loc EXCEPT ![t].names = loc[t].names \ {l}] /\ pc' = [pc EXCEPT ![t] = "dump"]
    BY <1>1, <1>2, <2>1, <2>2 DEF Locals, IInv, TypeOK
  <2>4. loc[t].names \ {l} \in SUBSET Name
    BY <1>3
  <2> QED BY <1>1, <1>2, <1>5, <2>2, <2>3, <2>4, NamesStep
<1> QED BY <1>6, <1>7

-----------------------------------------------------------------------------
(* LogAppender::log() writes                                               *)

(* The event is new to the appender and becomes the last one in it; and in *)
(* every other appender that has it, it is the last one too, since all of  *)
(* them belong to the logger whose lock is held.                           *)
LEMMA EmitStep ==
  ASSUME IInv, NEW t \in Thread, Emit(t)
  PROVE  IInv'
<1> DEFINE todo == loc[t].todo
           a0 == Head(todo)
           new == [loc[t] EXCEPT !.todo = Tail(todo)]
<1>1. /\ pc[t] = "emit" /\ pc' = [pc EXCEPT ![t] = "append"]
      /\ out' = [out EXCEPT ![a0] = Append(out[a0], Cur(t))]
      /\ nullFormatter' = (nullFormatter \/ a_formatter[a0] = Null)
      /\ UNCHANGED <<m_loggers, m_manager, m_level, m_formatter, m_appenders, m_mutex, held,
                     a_level, a_formatter, m_hasFormatter, home, own, ops>>
  BY DEF Emit, Goto, Cur, managerVars, loggerVars, appenderVars
<1>2. /\ TypeOK /\ LocksOf(t) /\ CallOf(t) /\ WorkOf(t) /\ EventOf(t) /\ loc[t] \in Locals
      /\ todo \in Seq(Appender) /\ todo # <<>> /\ loc[t].l \in Name
  BY <1>1 DEF IInv, TypeOK, ThreadOK, CallOf, Locals, Logging
<1>3. /\ a0 \in Appender /\ 1 \in DOMAIN todo /\ a0 = todo[1] /\ Tail(todo) \in Seq(Appender)
      /\ \A i \in DOMAIN Tail(todo) :
           i + 1 \in DOMAIN todo /\ i + 1 # 1 /\ Tail(todo)[i] = todo[i + 1]
  BY <1>2, TailFacts
<1>4. loc' = [loc EXCEPT ![t] = new]
  BY <1>2 DEF Emit, TypeOK, Locals
<1>5. new \in Locals /\ new.l = loc[t].l /\ new.todo = Tail(todo)
  BY <1>2, <1>3 DEF Locals
<1>6. Mine(todo, loc[t].l) /\ Mine(Tail(todo), loc[t].l)
  BY <1>1, <1>2, MineTail DEF WorkOf, Inside
<1>7. /\ home[a0] = loc[t].l /\ a_formatter[a0] # Null /\ home[a0] # Null
      /\ m_mutex[home[a0]] = t
  BY <1>1, <1>2, <1>3, <1>6, LoggerAssumption DEF Mine, LocksOf, Inside, TypeOK
<1>8. \A i \in DOMAIN Tail(todo) : Tail(todo)[i] # a0
  BY <1>3, <1>6 DEF Mine
<1>9. /\ out[a0] \in Seq(Event) /\ out \in [Appender -> Seq(Event)] /\ Cur(t) \in Event
      /\ ops[t] \in Nat
  <2>1. t \in Writers /\ ops[t] >= 1 /\ ops[t] <= MaxLogs
    BY <1>1, <1>2 DEF CallOf, Logging
  <2>2. ops[t] \in Nat
    BY <1>2, LoggerAssumption DEF TypeOK
  <2>3. ops[t] \in 1..MaxLogs
    BY <2>1, <2>2, LoggerAssumption
  <2>4. Cur(t) \in Event
    BY <2>1, <2>3 DEF Cur, Event
  <2>5. out \in [Appender -> Seq(Event)]
    BY <1>2 DEF TypeOK
  <2> HIDE DEF a0
  <2> QED BY <1>3, <2>2, <2>4, <2>5
<1>10. \A i \in DOMAIN out[a0] : out[a0][i] # Cur(t)
  BY <1>1, <1>2, <1>3 DEF EventOf, Writing
<1>11. \A a \in Appender : \A i \in DOMAIN out[a] : out[a][i] = Cur(t) =>
         /\ i = Len(out[a]) /\ home[a] = loc[t].l
         /\ \A k \in DOMAIN todo : todo[k] # a
  BY <1>1, <1>2 DEF EventOf, Writing
<1> HIDE DEF todo, a0, new
<1>12. /\ out' \in [Appender -> Seq(Event)]
       /\ out'[a0] = Append(out[a0], Cur(t)) /\ \A a \in Appender : a # a0 => out'[a] = out[a]
  BY <1>1, <1>3, <1>9, PushFacts
<1>13. /\ Len(out'[a0]) = Len(out[a0]) + 1 /\ DOMAIN out'[a0] = 1..(Len(out[a0]) + 1)
       /\ DOMAIN out[a0] = 1..Len(out[a0]) /\ Len(out[a0]) \in Nat
       /\ \A i \in DOMAIN out[a0] : out'[a0][i] = out[a0][i]
       /\ out'[a0][Len(out[a0]) + 1] = Cur(t)
       /\ \A i \in DOMAIN out'[a0] : i \in DOMAIN out[a0] \/ i = Len(out[a0]) + 1
  BY <1>9, <1>12, PushFacts
<1>14. \A a \in Appender : \A i \in DOMAIN out'[a] :
         IF out'[a][i] = Cur(t) THEN i = Len(out'[a]) /\ home[a] = loc[t].l
         ELSE i \in DOMAIN out[a] /\ out'[a][i] = out[a][i]
  <2> SUFFICES ASSUME NEW a \in Appender, NEW i \in DOMAIN out'[a]
               PROVE  IF out'[a][i] = Cur(t) THEN i = Len(out'[a]) /\ home[a] = loc[t].l
                      ELSE i \in DOMAIN out[a] /\ out'[a][i] = out[a][i]
    OBVIOUS
  <2>1. CASE a = a0
    BY <1>7, <1>10, <1>13, <2>1
  <2>2. CASE a # a0
    BY <1>11, <1>12, <2>2
  <2> QED BY <2>1, <2>2
<1>15. pc'[t] = "append" /\ loc'[t] = new
  BY <1>1, <1>2, <1>4 DEF TypeOK
<1>16. Discipline(t)
  BY <1>1, <1>2, <1>4, <1>7, <1>9, <1>12 DEF Discipline, TypeOK
<1>17. TypeOK'
  <2>1. nullFormatter' \in BOOLEAN
    BY <1>1
  <2> QED BY <1>1, <1>2, <1>4, <1>5, <1>12, <2>1 DEF TypeOK
<1>18. ThreadOK(t)'
  <2>1. LocksOf(t)'
    BY <1>1, <1>2, <1>5, <1>15 DEF LocksOf, Inside
  <2>2. CallOf(t)'
    BY <1>1, <1>2, <1>5, <1>15 DEF CallOf, Logging, Inside, Adding, Writing
  <2>3. WorkOf(t)'
    <3>1. Mine(loc[t].todo, loc[t].l)'
      BY <1>1, <1>5, <1>6, <1>15 DEF Mine
    <3> QED BY <1>15, <3>1 DEF WorkOf, Adding
  <2>4. EventOf(t)'
    <3> SUFFICES ASSUME NEW a \in Appender, NEW i \in DOMAIN out'[a], out'[a][i] = Cur(t)
                 PROVE  /\ i = Len(out'[a]) /\ home[a] = loc[t].l
                        /\ \A k \in DOMAIN Tail(todo) : Tail(todo)[k] # a
      BY <1>1, <1>5, <1>15 DEF EventOf, Cur
    <3>1. i = Len(out'[a]) /\ home[a] = loc[t].l
      BY <1>14
    <3>2. CASE a = a0
      BY <1>8, <3>1, <3>2
    <3>3. CASE a # a0
      <4>1. \A k \in DOMAIN todo : todo[k] # a
        BY <1>11, <1>12, <3>3
      <4> QED BY <1>3, <3>1, <4>1
    <3> QED BY <3>2, <3>3
  <2> QED BY <2>1, <2>2, <2>3, <2>4 DEF ThreadOK
<1>19. \A l \in Name : ListOK(l)'
  BY <1>1, <1>16, ListUntouched
<1>20. Given' /\ NoNullFormatter'
  BY <1>1, <1>7 DEF IInv, Given, NoNullFormatter
<1>21. History'
  <2>1. History
    BY DEF IInv
  <2>2. Numbered'
    <3> SUFFICES ASSUME NEW a \in Appender, NEW i \in DOMAIN out'[a]
                 PROVE  /\ home[a] # Null
                        /\ out'[a][i].no <= ops[out'[a][i].by]
                        /\ \A j \in DOMAIN out'[a] : i # j => out'[a][i] # out'[a][j]
      BY <1>1 DEF Numbered
    <3>1. CASE out'[a][i] = Cur(t)
      <4>1. i = Len(out'[a]) /\ home[a] # Null
        BY <1>7, <1>14, <3>1
      <4>2. out'[a][i].no <= ops[out'[a][i].by]
        BY <1>9, <3>1 DEF Cur
      <4> QED BY <1>14, <3>1, <4>1, <4>2
    <3>2. CASE out'[a][i] # Cur(t)
      <4>1. i \in DOMAIN out[a] /\ out'[a][i] = out[a][i]
        BY <1>14, <3>2
      <4>2. \A j \in DOMAIN out'[a] : i # j => out'[a][i] # out'[a][j]
        BY <1>14, <2>1, <3>2, <4>1 DEF History, Numbered
      <4> QED BY <2>1, <4>1, <4>2 DEF History, Numbered
    <3> QED BY <3>1, <3>2
  <2>3. OneRoute'
    <3> SUFFICES ASSUME NEW a \in Appender, NEW b \in Appender, NEW i \in DOMAIN out'[a],
                        NEW j \in DOMAIN out'[b], out'[a][i] = out'[b][j]
                 PROVE  home[a] = home[b]
      BY <1>1 DEF OneRoute
    <3>1. CASE out'[a][i] = Cur(t)
      BY <1>14, <3>1
    <3>2. CASE out'[a][i] # Cur(t)
      BY <1>14, <2>1, <3>2 DEF History, OneRoute
    <3> QED BY <3>1, <3>2
  <2>4. SameOrder'
    <3> SUFFICES ASSUME NEW a \in Appender, NEW b \in Appender, NEW i \in DOMAIN out'[a],
                        NEW j \in DOMAIN out'[a], i < j,
                        NEW p \in DOMAIN out'[b], NEW q \in DOMAIN out'[b], p < q,
                        out'[b][p] = out'[a][j], out'[b][q] = out'[a][i]
                 PROVE  FALSE
      BY DEF SameOrder, Before
    <3>1. out'[a] \in Seq(Event) /\ out'[b] \in Seq(Event)
      BY <1>12
    <3>2. i # Len(out'[a]) /\ p # Len(out'[b])
      BY <3>1
    <3>3. out'[a][i] # Cur(t) /\ out'[b][p] # Cur(t)
      BY <1>14, <3>2
    <3>4. /\ i \in DOMAIN out[a] /\ j \in DOMAIN out[a] /\ p \in DOMAIN out[b] /\ q \in DOMAIN out[b]
          /\ out[b][p] = out[a][j] /\ out[b][q] = out[a][i]
      BY <1>14, <3>3
    <3> QED BY <2>1, <3>4 DEF History, SameOrder, Before
  <2> QED BY <2>2, <2>3, <2>4 DEF History
<1> QED BY <1>16, <1>17, <1>18, <1>19, <1>20, <1>21, StepFrom

-----------------------------------------------------------------------------
(* Logger::addAppender()                                                   *)

LEMMA AddAppenderStep ==
  ASSUME IInv, NEW t \in Thread, NEW l \in Name, NEW a \in Appender, AddAppender(t, l, a)
  PROVE  IInv'
<1> DEFINE where == IF Bare(a) THEN "inherit" ELSE "push"
           new == [loc[t] EXCEPT !.l = l, !.a = a]
<1>1. /\ Calls(t) /\ home[a] = Null /\ Acquire(t, l) /\ home' = [home EXCEPT ![a] = l]
      /\ pc' = [pc EXCEPT ![t] = where]
      /\ UNCHANGED <<m_loggers, m_manager, m_level, m_formatter, m_appenders, a_level,
                     a_formatter, m_hasFormatter, out, own, nullFormatter>>
      /\ t \in Configurers
  BY DEF AddAppender, Changes, Goto, managerVars, loggerVars, appenderVars
<1>2. TypeOK /\ Given /\ loc[t] \in Locals /\ l # Null /\ t \notin Writers
  BY <1>1, LoggerAssumption DEF IInv, TypeOK
<1>3. /\ loc[t].todo = <<>> /\ pc[t] = "idle"
      /\ ops' \in [Thread -> 0..(MaxLogs + MaxChanges)] /\ ops' \in [Thread -> Nat]
      /\ ops'[t] >= ops[t] /\ \A u \in Thread : u # t => ops'[u] = ops[u]
  BY <1>1, CallsFacts
<1>4. /\ m_mutex' \in [Name -> Thread \cup {Null}] /\ held' \in [Thread -> Seq(Name)]
      /\ held'[t] # <<>> /\ held'[t][1] = l
      /\ \A i \in DOMAIN held'[t] : m_mutex'[held'[t][i]] = t
      /\ \A i, j \in DOMAIN held'[t] : i # j => held'[t][i] # held'[t][j]
      /\ \A u \in Thread : u # t => held'[u] = held[u]
      /\ \A k \in Name : m_mutex[k] \notin {Null, t} => m_mutex'[k] = m_mutex[k]
  BY <1>1, AcquireFacts
<1>5. loc' = [loc EXCEPT ![t] = new]
  BY <1>2 DEF AddAppender, TypeOK, Locals
<1>6. new \in Locals /\ new.l = l /\ new.a = a /\ new.todo = <<>>
  BY <1>2, <1>3 DEF Locals
<1>7. where \in {"inherit", "push"} /\ (where = "inherit" <=> a_formatter[a] = Null)
  BY DEF Bare
<1> HIDE DEF where, new
<1>8. pc'[t] = where /\ loc'[t] = new /\ home'[a] = l
      /\ \A b \in Appender : b # a => home'[b] = home[b]
  BY <1>1, <1>2, <1>5 DEF TypeOK
<1>9. TypeOK'
  BY <1>1, <1>2, <1>3, <1>4, <1>5, <1>6, <1>7 DEF TypeOK
<1>10. Discipline(t)
  BY <1>1, <1>2, <1>3, <1>4, <1>5, <1>8 DEF Discipline, TypeOK
<1>11. a_formatter[a] = own[a]
  BY <1>1, <1>2 DEF Given
<1>12. ThreadOK(t)'
  <2>1. LocksOf(t)'
    BY <1>4, <1>6, <1>8 DEF LocksOf
  <2>2. CallOf(t)'
    BY <1>2, <1>6, <1>7, <1>8 DEF CallOf, Logging, Inside, Adding, Writing
  <2>3. \A i \in DOMAIN m_appenders[l] : m_appenders[l][i] # a
    BY <1>1, <1>2 DEF IInv, ListOK, Mine
  <2>4. Mine(loc[t].todo, loc[t].l)'
    BY <1>6, <1>8 DEF Mine
  <2>5. (a_formatter[a] = Right(a, l) \/ a_formatter[a] = Null)'
    BY <1>1, <1>11 DEF Right
  <2>6. WorkOf(t)'
    BY <1>1, <1>6, <1>7, <1>8, <1>11, <2>3, <2>4, <2>5 DEF WorkOf, Right
  <2>7. EventOf(t)'
    BY <1>7, <1>8 DEF EventOf, Writing
  <2> QED BY <2>1, <2>2, <2>6, <2>7 DEF ThreadOK
<1>13. Given' /\ NoNullFormatter'
  BY <1>1, <1>2, <1>8 DEF IInv, Given, NoNullFormatter
<1>14. History'
  BY <1>1, <1>3, <1>10, HistoryKept
<1>15. \A k \in Name : ListOK(k)'
  BY <1>1, <1>3, <1>10, ListUntouched
<1> QED BY <1>9, <1>10, <1>12, <1>13, <1>14, <1>15, StepFrom

LEMMA AddInheritStep ==
  ASSUME IInv, NEW t \in Thread, AddInherit(t)
  PROVE  IInv'
<1> DEFINE l == loc[t].l
           a == loc[t].a
<1>1. /\ pc[t] = "inherit" /\ pc' = [pc EXCEPT ![t] = "push"]
      /\ a_formatter' = [a_formatter EXCEPT ![a] = m_formatter[l]]
      /\ UNCHANGED <<m_loggers, m_manager, m_level, m_formatter, m_appenders, m_mutex, held,
                     a_level, m_hasFormatter, loc, out, home, own, nullFormatter, ops>>
  BY DEF AddInherit, Goto, managerVars, loggerVars, histVars
<1>2. TypeOK /\ Given /\ LocksOf(t) /\ CallOf(t) /\ WorkOf(t)
  BY DEF IInv, ThreadOK
<1>3. /\ l \in Name /\ a \in Appender /\ home[a] = l /\ m_mutex[l] = t /\ own[a] = Null
      /\ loc[t].todo = <<>> /\ \A i \in DOMAIN m_appenders[l] : m_appenders[l][i] # a
  BY <1>1, <1>2 DEF LocksOf, CallOf, WorkOf, Inside, Adding, Writing, TypeOK
<1> HIDE DEF l, a
<1>4. /\ a_formatter' \in [Appender -> Formatter \cup {Null}] /\ a_formatter'[a] = m_formatter[l]
      /\ m_formatter[l] # Null /\ \A b \in Appender : b # a => a_formatter'[b] = a_formatter[b]
  BY <1>1, <1>2, <1>3, LoggerAssumption DEF TypeOK
<1>5. pc'[t] = "push" /\ ops[t] >= ops[t] /\ ops \in [Thread -> Nat]
  <2>1. pc'[t] = "push"
    BY <1>1, <1>2 DEF TypeOK
  <2>2. ops \in [Thread -> Nat]
    BY <1>2, LoggerAssumption DEF TypeOK
  <2>3. ops[t] \in Nat
    BY <2>2
  <2> QED BY <2>1, <2>2, <2>3
<1>6. Discipline(t)
  BY <1>1, <1>2, <1>3, <1>4, <1>5 DEF Discipline, TypeOK
<1>7. TypeOK'
  BY <1>1, <1>2, <1>4 DEF TypeOK
<1>8. ThreadOK(t)'
  <2>1. LocksOf(t)' /\ CallOf(t)'
    BY <1>1, <1>2, <1>5 DEF LocksOf, CallOf, Logging, Inside, Adding, Writing
  <2>2. Mine(loc[t].todo, loc[t].l)'
    BY <1>1, <1>3 DEF Mine
  <2>3. WorkOf(t)'
    BY <1>1, <1>3, <1>4, <1>5, <2>2 DEF WorkOf, Right, l, a
  <2>4. EventOf(t)'
    BY <1>5 DEF EventOf, Writing
  <2> QED BY <2>1, <2>3, <2>4 DEF ThreadOK
<1>9. Given' /\ NoNullFormatter'
  BY <1>1, <1>2, <1>3, <1>4, LoggerAssumption DEF IInv, Given, NoNullFormatter
<1>10. History'
  BY <1>1, <1>5, <1>6, HistoryKept
<1>11. ASSUME NEW k \in Name
       PROVE  ListOK(k)'
  <2>1. m_appenders[k] \in Seq(Appender) /\ \A i \in DOMAIN m_appenders[k] : home[m_appenders[k][i]] = k
    BY <1>2 DEF IInv, TypeOK, ListOK, Mine
  <2>2. \A i \in DOMAIN m_appenders[k] : m_appenders[k][i] \in Appender /\ m_appenders[k][i] # a
    BY <1>3, <2>1
  <2>3. \A i \in DOMAIN m_appenders[k] :
          a_formatter'[m_appenders[k][i]] = a_formatter[m_appenders[k][i]]
    BY <1>4, <2>2
  <2> QED BY <1>1, <1>6, <2>3, ListUntouched
<1> QED BY <1>6, <1>7, <1>8, <1>9, <1>10, <1>11, StepFrom

LEMMA AddPushStep ==
  ASSUME IInv, NEW t \in Thread, AddPush(t)
  PROVE  IInv'
<1>0. PICK l, a : l = loc[t].l /\ a = loc[t].a
  OBVIOUS
<1>1. /\ pc[t] = "push" /\ pc' = [pc EXCEPT ![t] = "unlock"]
      /\ m_appenders' = [m_appenders EXCEPT ![l] = Append(m_appenders[l], a)]
      /\ UNCHANGED <<m_loggers, m_manager, m_level, m_formatter, m_mutex, held, a_level,
                     a_formatter, m_hasFormatter, loc, out, home, own, nullFormatter, ops>>
  BY <1>0 DEF AddPush, Goto, managerVars, appenderVars, histVars
<1>2. TypeOK /\ Given /\ LocksOf(t) /\ CallOf(t) /\ WorkOf(t)
  BY DEF IInv, ThreadOK
<1>3. /\ l \in Name /\ a \in Appender /\ home[a] = l /\ m_mutex[l] = t
      /\ loc[t].todo = <<>> /\ \A i \in DOMAIN m_appenders[l] : m_appenders[l][i] # a
      /\ a_formatter[a] = Right(a, l)
  BY <1>0, <1>1, <1>2 DEF LocksOf, CallOf, WorkOf, Inside, Adding, Writing, TypeOK
<1>4. /\ m_appenders[l] \in Seq(Appender) /\ a_formatter[a] # Null
      /\ m_appenders \in [Name -> Seq(Appender)]
  BY <1>2, <1>3, LoggerAssumption DEF TypeOK, Right
<1>5. /\ m_appenders' \in [Name -> Seq(Appender)]
      /\ m_appenders'[l] = Append(m_appenders[l], a)
      /\ \A k \in Name : k # l => m_appenders'[k] = m_appenders[k]
  BY <1>1, <1>3, <1>4, PushFacts
<1>6. /\ DOMAIN m_appenders'[l] = 1..(Len(m_appenders[l]) + 1) /\ Len(m_appenders[l]) \in Nat
      /\ \A i \in DOMAIN m_appenders[l] : m_appenders'[l][i] = m_appenders[l][i]
      /\ m_appenders'[l][Len(m_appenders[l]) + 1] = a
      /\ \A i \in DOMAIN m_appenders'[l] :
           i \in DOMAIN m_appenders[l] \/ i = Len(m_appenders[l]) + 1
  BY <1>3, <1>4, <1>5, PushFacts
<1>7. pc'[t] = "unlock" /\ ops[t] >= ops[t] /\ ops \in [Thread -> Nat]
  <2>1. pc'[t] = "unlock"
    BY <1>1, <1>2 DEF TypeOK
  <2>2. ops \in [Thread -> Nat]
    BY <1>2, LoggerAssumption DEF TypeOK
  <2>3. ops[t] \in Nat
    BY <2>2
  <2> QED BY <2>1, <2>2, <2>3
<1>8. Discipline(t)
  BY <1>1, <1>2, <1>3, <1>5, <1>7 DEF Discipline, TypeOK
<1>9. TypeOK'
  BY <1>1, <1>2, <1>5 DEF TypeOK
<1>10. ThreadOK(t)'
  <2>1. LocksOf(t)' /\ CallOf(t)'
    BY <1>1, <1>2, <1>3, <1>7 DEF LocksOf, CallOf, Logging, Inside, Adding, Writing
  <2>2. WorkOf(t)' /\ EventOf(t)'
    BY <1>7 DEF WorkOf, EventOf, Inside, Adding, Writing
  <2> QED BY <2>1, <2>2 DEF ThreadOK
<1>11. Given' /\ NoNullFormatter'
  BY <1>1, <1>2 DEF IInv, Given, NoNullFormatter
<1>12. History'
  BY <1>1, <1>7, <1>8, HistoryKept
<1>13. ASSUME NEW k \in Name
       PROVE  ListOK(k)'
  <2>1. CASE k # l
    BY <1>1, <1>5, <1>8, <2>1, ListUntouched
  <2>2. CASE k = l
    <3>1. ListOK(l)
      BY <1>3 DEF IInv
    <3>2. Mine(m_appenders[l], l)'
      BY <1>1, <1>3, <1>4, <1>6, <3>1 DEF ListOK, Mine
    <3>3. ASSUME NEW i \in DOMAIN m_appenders'[l]
          PROVE  \/ (a_formatter[m_appenders[l][i]] = Right(m_appenders[l][i], l))'
                 \/ Awaits(m_appenders[l][i], l)'
      <4>1. CASE i \in DOMAIN m_appenders[l]
        <5>1. PICK b : b = m_appenders[l][i] /\ b = m_appenders'[l][i]
          BY <1>6, <4>1
        <5>2. a_formatter[b] = Right(b, l) \/ Awaits(b, l)
          BY <3>1, <4>1, <5>1 DEF ListOK
        <5>3. Awaits(b, l) => Awaits(b, l)'
          BY <1>1, <1>8, AwaitsKept
        <5> QED BY <1>1, <5>1, <5>2, <5>3 DEF Right
      <4>2. CASE i = Len(m_appenders[l]) + 1
        BY <1>1, <1>3, <1>6, <4>2 DEF Right
      <4> QED BY <1>6, <4>1, <4>2
    <3> QED BY <2>2, <3>2, <3>3 DEF ListOK
  <2> QED BY <2>1, <2>2
<1> QED BY <1>8, <1>9, <1>10, <1>11, <1>12, <1>13, StepFrom

-----------------------------------------------------------------------------
(* delAppender(), clearAppender() and setFormatter()                       *)

(* A call that changes one logger's list, whose lock is free, and returns. *)
LEMMA ShortenStep ==
  ASSUME IInv, NEW t \in Thread, Calls(t), NEW l \in Name, NEW s \in Seq(Appender),
         m_mutex[l] = Null, m_appenders' = [m_appenders EXCEPT ![l] = s],
         \A j \in DOMAIN s : \E i \in DOMAIN m_appenders[l] : s[j] = m_appenders[l][i],
         \A i, j \in DOMAIN s : i # j => s[i] # s[j],
         UNCHANGED <<m_loggers, m_manager, m_level, m_formatter, m_mutex, held, a_level,
                     a_formatter, m_hasFormatter, pc, loc, out, home, own, nullFormatter>>
  PROVE  IInv'
<1>1. TypeOK /\ LocksOf(t) /\ m_appenders \in [Name -> Seq(Appender)]
  BY DEF IInv, ThreadOK, TypeOK
<1>2. /\ loc[t].todo = <<>> /\ pc[t] = "idle" /\ (t \in Writers => ops'[t] <= MaxLogs)
      /\ ops' \in [Thread -> 0..(MaxLogs + MaxChanges)] /\ ops' \in [Thread -> Nat]
      /\ ops'[t] >= ops[t] /\ \A u \in Thread : u # t => ops'[u] = ops[u]
  BY CallsFacts
<1>3. /\ m_appenders' \in [Name -> Seq(Appender)] /\ m_appenders'[l] = s
      /\ \A k \in Name : k # l => m_appenders'[k] = m_appenders[k]
  BY <1>1
<1>4. Discipline(t)
  BY <1>2, <1>3 DEF Discipline
<1>5. TypeOK'
  BY <1>1, <1>2, <1>3 DEF TypeOK
<1>6. LocksOf(t)' /\ CallOf(t)' /\ WorkOf(t)' /\ EventOf(t)'
  BY <1>1, <1>2 DEF LocksOf, CallOf, WorkOf, EventOf, Logging, Inside, Adding, Writing
<1>7. Given' /\ NoNullFormatter'
  BY DEF IInv, Given, NoNullFormatter
<1>8. History'
  BY <1>2, <1>4, HistoryKept
<1>9. ASSUME NEW k \in Name
      PROVE  ListOK(k)'
  <2>1. CASE k # l
    BY <1>2, <1>3, <1>4, <2>1, ListUntouched
  <2>2. CASE k = l
    BY <1>2, <1>3, <1>4, <2>2, ListKept
  <2> QED BY <2>1, <2>2
<1> QED BY <1>4, <1>5, <1>6, <1>7, <1>8, <1>9, StepFrom DEF ThreadOK

LEMMA DelAppenderStep ==
  ASSUME IInv, NEW t \in Thread, NEW l \in Name, NEW a \in Appender, DelAppender(t, l, a)
  PROVE  IInv'
<1>1. /\ Calls(t) /\ m_mutex[l] = Null
      /\ UNCHANGED <<m_loggers, m_manager, m_level, m_formatter, m_mutex, held, a_level,
                     a_formatter, m_hasFormatter, pc, loc, out, home, own, nullFormatter>>
  BY DEF DelAppender, Changes, managerVars, appenderVars, histVars
<1>2. /\ m_appenders[l] \in Seq(Appender) /\ m_appenders \in [Name -> Seq(Appender)]
      /\ \A i, j \in DOMAIN m_appenders[l] : i # j => m_appenders[l][i] # m_appenders[l][j]
  BY DEF IInv, TypeOK, ListOK, Mine
<1>3. CASE UNCHANGED m_appenders
  <2>1. m_appenders' = [m_appenders EXCEPT ![l] = m_appenders[l]]
    BY <1>2, <1>3
  <2>2. PICK s \in Seq(Appender) : s = m_appenders[l]
    BY <1>2
  <2> QED BY <1>1, <1>2, <2>1, <2>2, ShortenStep
<1>4. ASSUME NEW i \in DOMAIN m_appenders[l],
             m_appenders' = [m_appenders EXCEPT ![l] = RemoveAt(m_appenders[l], i)]
      PROVE  IInv'
  <2>1. PICK s : s = RemoveAt(m_appenders[l], i)
    OBVIOUS
  <2>2. /\ s \in Seq(Appender)
        /\ \A j \in DOMAIN s :
             LET old == IF j < i THEN j ELSE j + 1
             IN  old \in DOMAIN m_appenders[l] /\ s[j] = m_appenders[l][old]
    BY <1>2, <2>1, EraseFacts
  <2>3. \A j \in DOMAIN s : \E k \in DOMAIN m_appenders[l] : s[j] = m_appenders[l][k]
    BY <2>2
  <2>4. \A j, k \in DOMAIN s : j # k => s[j] # s[k]
    <3> SUFFICES ASSUME NEW j \in DOMAIN s, NEW k \in DOMAIN s, j # k
                 PROVE  s[j] # s[k]
      OBVIOUS
    <3> DEFINE oj == IF j < i THEN j ELSE j + 1
               ok == IF k < i THEN k ELSE k + 1
    <3>1. i \in Int /\ j \in Int /\ k \in Int
      BY <1>2, <2>2
    <3>2. oj # ok
      BY <3>1
    <3>3. /\ oj \in DOMAIN m_appenders[l] /\ s[j] = m_appenders[l][oj]
          /\ ok \in DOMAIN m_appenders[l] /\ s[k] = m_appenders[l][ok]
      BY <2>2
    <3> HIDE DEF oj, ok
    <3> QED BY <1>2, <3>2, <3>3
  <2> QED BY <1>1, <1>4, <2>1, <2>2, <2>3, <2>4, ShortenStep
<1> QED BY <1>3, <1>4 DEF DelAppender

LEMMA ClearAppenderStep ==
  ASSUME IInv, NEW t \in Thread, NEW l \in Name, ClearAppender(t, l)
  PROVE  IInv'
<1>1. /\ Calls(t) /\ m_mutex[l] = Null /\ m_appenders' = [m_appenders EXCEPT ![l] = <<>>]
      /\ UNCHANGED <<m_loggers, m_manager, m_level, m_formatter, m_mutex, held, a_level,
                     a_formatter, m_hasFormatter, pc, loc, out, home, own, nullFormatter>>
  BY DEF ClearAppender, Changes, managerVars, appenderVars, histVars
<1>2. <<>> \in Seq(Appender) /\ DOMAIN <<>> = {}
  OBVIOUS
<1>3. /\ \A j \in DOMAIN <<>> : \E i \in DOMAIN m_appenders[l] : <<>>[j] = m_appenders[l][i]
      /\ \A i, j \in DOMAIN <<>> : i # j => <<>>[i] # <<>>[j]
  BY <1>2
<1> QED BY <1>1, <1>2, <1>3, ShortenStep

(* The logger's formatter changes, and all of its appenders await it.      *)
LEMMA SetFormatterStep ==
  ASSUME IInv, NEW t \in Thread, NEW l \in Name, NEW f \in Formatter, SetFormatter(t, l, f)
  PROVE  IInv'
<1> DEFINE new == [loc[t] EXCEPT !.l = l, !.todo = m_appenders[l]]
<1>1. /\ Calls(t) /\ Acquire(t, l) /\ pc' = [pc EXCEPT ![t] = "pass"]
      /\ m_formatter' = [m_formatter EXCEPT ![l] = f]
      /\ UNCHANGED <<m_loggers, m_manager, m_level, m_appenders, a_level, a_formatter,
                     m_hasFormatter, out, home, own, nullFormatter>>
      /\ t \in Configurers
  BY DEF SetFormatter, Changes, Goto, managerVars, appenderVars, histVars
<1>2. /\ TypeOK /\ Given /\ loc[t] \in Locals /\ t \notin Writers
      /\ m_appenders[l] \in Seq(Appender) /\ Mine(m_appenders[l], l)
  BY <1>1, LoggerAssumption DEF IInv, TypeOK, ListOK
<1>3. /\ loc[t].todo = <<>> /\ pc[t] = "idle"
      /\ ops' \in [Thread -> 0..(MaxLogs + MaxChanges)] /\ ops' \in [Thread -> Nat]
      /\ ops'[t] >= ops[t] /\ \A u \in Thread : u # t => ops'[u] = ops[u]
  BY <1>1, CallsFacts
<1>4. /\ m_mutex' \in [Name -> Thread \cup {Null}] /\ held' \in [Thread -> Seq(Name)]
      /\ held'[t] # <<>> /\ held'[t][1] = l /\ m_mutex[l] = Null
      /\ \A i \in DOMAIN held'[t] : m_mutex'[held'[t][i]] = t
      /\ \A i, j \in DOMAIN held'[t] : i # j => held'[t][i] # held'[t][j]
      /\ \A u \in Thread : u # t => held'[u] = held[u]
      /\ \A k \in Name : m_mutex[k] \notin {Null, t} => m_mutex'[k] = m_mutex[k]
  BY <1>1, AcquireFacts
<1>5. loc' = [loc EXCEPT ![t] = new]
  BY <1>2 DEF SetFormatter, TypeOK, Locals
<1>6. new \in Locals /\ new.l = l /\ new.todo = m_appenders[l]
  BY <1>2 DEF Locals
<1> HIDE DEF new
<1>7. pc'[t] = "pass" /\ loc'[t] = new /\ \A k \in Name : k # l => m_formatter'[k] = m_formatter[k]
  BY <1>1, <1>2, <1>5 DEF TypeOK
<1>8. TypeOK'
  BY <1>1, <1>2, <1>3, <1>4, <1>5, <1>6 DEF TypeOK
<1>9. Discipline(t)
  BY <1>1, <1>2, <1>3, <1>4, <1>5, <1>7 DEF Discipline, TypeOK
<1>10. ThreadOK(t)'
  <2>1. LocksOf(t)'
    BY <1>4, <1>6, <1>7 DEF LocksOf
  <2>2. CallOf(t)'
    BY <1>2, <1>6, <1>7 DEF CallOf, Logging, Inside, Adding, Writing
  <2>3. Mine(loc[t].todo, loc[t].l)'
    BY <1>1, <1>2, <1>6, <1>7 DEF Mine
  <2>4. WorkOf(t)' /\ EventOf(t)'
    BY <1>7, <2>3 DEF WorkOf, EventOf, Adding, Writing
  <2> QED BY <2>1, <2>2, <2>4 DEF ThreadOK
<1>11. Given' /\ NoNullFormatter'
  BY <1>1, <1>2 DEF IInv, Given, NoNullFormatter
<1>12. History'
  BY <1>1, <1>3, <1>9, HistoryKept
<1>13. ASSUME NEW k \in Name
       PROVE  ListOK(k)'
  <2>1. CASE k # l
    BY <1>1, <1>3, <1>7, <1>9, <2>1, ListUntouched
  <2>2. CASE k = l
    <3>1. Mine(m_appenders[l], l)'
      BY <1>1, <1>2 DEF Mine
    <3>2. \A i \in DOMAIN m_appenders[l] : Awaits(m_appenders[l][i], l)'
      BY <1>1, <1>6, <1>7 DEF Awaits
    <3> QED BY <1>1, <2>2, <3>1, <3>2 DEF ListOK
  <2> QED BY <2>1, <2>2
<1> QED BY <1>8, <1>9, <1>10, <1>11, <1>12, <1>13, StepFrom

(* setFormatter()'s loop sets one appender right, and the thread no longer *)
(* has it to see.                                                          *)
LEMMA PassFormatterStep ==
  ASSUME IInv, NEW t \in Thread, PassFormatter(t)
  PROVE  IInv'
<1>1. /\ pc[t] = "pass"
      /\ UNCHANGED <<m_loggers, m_manager, m_level, m_formatter, m_appenders, m_mutex, held,
                     a_level, m_hasFormatter, out, home, own, nullFormatter, ops>>
  BY DEF PassFormatter, managerVars, loggerVars, histVars
<1>2. /\ TypeOK /\ Given /\ LocksOf(t) /\ CallOf(t) /\ WorkOf(t) /\ loc[t] \in Locals
      /\ ops \in [Thread -> Nat]
  BY LoggerAssumption DEF IInv, TypeOK, ThreadOK
<1>3. PICK l, todo : l = loc[t].l /\ todo = loc[t].todo
  OBVIOUS
<1>4. /\ l \in Name /\ m_mutex[l] = t /\ todo \in Seq(Appender) /\ Mine(todo, l)
      /\ ops[t] >= ops[t]
  BY <1>1, <1>2, <1>3 DEF LocksOf, CallOf, WorkOf, Locals, Inside, TypeOK
<1>5. CASE todo = <<>>
  <2>1. pc' = [pc EXCEPT ![t] = "unlock"] /\ UNCHANGED <<a_formatter, loc>>
    BY <1>3, <1>5 DEF PassFormatter, Goto
  <2>2. pc'[t] = "unlock"
    BY <1>2, <2>1 DEF TypeOK
  <2>3. Discipline(t)
    BY <1>1, <1>2, <1>4, <2>1 DEF Discipline, TypeOK
  <2>4. TypeOK'
    BY <1>1, <1>2, <2>1 DEF TypeOK
  <2>5. LocksOf(t)' /\ CallOf(t)' /\ WorkOf(t)' /\ EventOf(t)'
    BY <1>1, <1>2, <1>3, <1>5, <2>1, <2>2
    DEF LocksOf, CallOf, WorkOf, EventOf, Logging, Inside, Adding, Writing
  <2>6. Given' /\ NoNullFormatter'
    BY <1>1, <1>2, <2>1 DEF IInv, Given, NoNullFormatter
  <2>7. History'
    BY <1>1, <1>2, <2>3, HistoryKept
  <2>8. ASSUME NEW k \in Name
        PROVE  ListOK(k)'
    <3>1. ListOK(k)
      BY DEF IInv
    <3>2. ASSUME NEW a, Awaits(a, k)
          PROVE  Awaits(a, k)'
      <4>1. PICK u \in Thread : /\ pc[u] = "pass" /\ loc[u].l = k
                                /\ \E j \in DOMAIN loc[u].todo : loc[u].todo[j] = a
        BY <3>2 DEF Awaits
      <4>2. u # t
        <5>1. DOMAIN loc[t].todo = {}
          BY <1>3, <1>5
        <5> QED BY <4>1, <5>1
      <4> QED BY <2>3, <4>1, <4>2 DEF Discipline, Awaits
    <3>3. ASSUME NEW i \in DOMAIN m_appenders[k]
          PROVE  \/ (a_formatter[m_appenders[k][i]] = Right(m_appenders[k][i], k))'
                 \/ Awaits(m_appenders[k][i], k)'
      <4>1. PICK a : a = m_appenders[k][i]
        OBVIOUS
      <4>2. a_formatter[a] = Right(a, k) \/ Awaits(a, k)'
        BY <3>1, <3>2, <4>1 DEF ListOK
      <4> QED BY <1>1, <2>1, <4>1, <4>2 DEF Right
    <3>4. Mine(m_appenders[k], k)'
      BY <1>1, <2>1, <3>1 DEF ListOK, Mine
    <3> QED BY <1>1, <3>3, <3>4 DEF ListOK
  <2> QED BY <2>3, <2>4, <2>5, <2>6, <2>7, <2>8, StepFrom DEF ThreadOK
<1>6. CASE todo # <<>>
  <2> DEFINE new == [loc[t] EXCEPT !.todo = Tail(todo)]
  <2>1. PICK a : a = Head(todo)
    OBVIOUS
  <2>2. /\ a \in Appender /\ 1 \in DOMAIN todo /\ a = todo[1] /\ Tail(todo) \in Seq(Appender)
        /\ \A i \in DOMAIN todo : i # 1 => i - 1 \in DOMAIN Tail(todo) /\ Tail(todo)[i - 1] = todo[i]
    BY <1>4, <1>6, <2>1, TailFacts
  <2>3. /\ a_formatter' = [a_formatter EXCEPT ![a] = PassedOn(a, l)]
        /\ loc' = [loc EXCEPT ![t] = new] /\ UNCHANGED pc
    BY <1>2, <1>3, <1>6, <2>1 DEF PassFormatter, TypeOK, Locals
  <2>4. new \in Locals /\ new.l = l /\ new.todo = Tail(todo)
    BY <1>2, <1>3, <2>2 DEF Locals
  <2> HIDE DEF new
  <2>5. home[a] = l /\ a_formatter[a] # Null /\ home[a] # Null /\ m_formatter[l] \in Formatter
    BY <1>2, <1>4, <2>2, LoggerAssumption DEF Mine, TypeOK
  <2>6. PassedOn(a, l) = Right(a, l) /\ PassedOn(a, l) \in Formatter
    BY <1>2, <2>2, <2>5 DEF Given, PassedOn, Right, TypeOK
  <2>7. /\ a_formatter' \in [Appender -> Formatter \cup {Null}] /\ a_formatter'[a] = Right(a, l)
        /\ a_formatter'[a] # Null
        /\ \A b \in Appender : b # a => a_formatter'[b] = a_formatter[b]
    BY <1>2, <2>2, <2>3, <2>6, LoggerAssumption DEF TypeOK
  <2>8. pc'[t] = "pass" /\ loc'[t] = new
    BY <1>1, <1>2, <2>3 DEF TypeOK
  <2>9. Discipline(t)
    BY <1>1, <1>2, <1>4, <2>3, <2>5, <2>7 DEF Discipline, TypeOK
  <2>10. TypeOK'
    BY <1>1, <1>2, <2>3, <2>4, <2>7 DEF TypeOK
  <2>11. LocksOf(t)' /\ CallOf(t)'
    BY <1>1, <1>2, <1>3, <1>4, <2>4, <2>8
    DEF LocksOf, CallOf, Logging, Inside, Adding, Writing
  <2>12. Mine(loc[t].todo, loc[t].l)'
    <3>1. Mine(Tail(todo), l)
      BY <1>4, <1>6, MineTail
    <3>2. \A i \in DOMAIN Tail(todo) : Tail(todo)[i] \in Appender
      BY <2>2
    <3> QED BY <1>1, <2>4, <2>7, <2>8, <3>1, <3>2 DEF Mine
  <2>13. WorkOf(t)' /\ EventOf(t)'
    BY <2>8, <2>12 DEF WorkOf, EventOf, Adding, Writing
  <2>14. Given' /\ NoNullFormatter'
    BY <1>1, <1>2, <2>5, <2>7 DEF IInv, Given, NoNullFormatter, Right
  <2>15. History'
    BY <1>1, <1>2, <2>9, HistoryKept
  <2>16. ASSUME NEW k \in Name
         PROVE  ListOK(k)'
    <3>1. ListOK(k) /\ m_appenders[k] \in Seq(Appender)
      BY <1>2 DEF IInv, TypeOK
    <3>2. ASSUME NEW b, Awaits(b, k), b # a \/ k # l
          PROVE  Awaits(b, k)'
      <4>1. PICK u \in Thread : /\ pc[u] = "pass" /\ loc[u].l = k
                                /\ \E j \in DOMAIN loc[u].todo : loc[u].todo[j] = b
        BY <3>2 DEF Awaits
      <4>2. CASE u # t
        BY <2>9, <4>1, <4>2 DEF Discipline, Awaits
      <4>3. CASE u = t
        <5>1. PICK j \in DOMAIN todo : todo[j] = b
          BY <1>3, <4>1, <4>3
        <5>2. j # 1 /\ k = l
          BY <1>3, <2>2, <3>2, <4>1, <4>3, <5>1
        <5> QED BY <2>2, <2>4, <2>8, <5>1, <5>2 DEF Awaits
      <4> QED BY <4>2, <4>3
    <3>3. ASSUME NEW i \in DOMAIN m_appenders[k]
          PROVE  \/ (a_formatter[m_appenders[k][i]] = Right(m_appenders[k][i], k))'
                 \/ Awaits(m_appenders[k][i], k)'
      <4>1. PICK b \in Appender : b = m_appenders[k][i]
        BY <3>1
      <4>2. home[b] = k
        BY <3>1, <4>1 DEF ListOK, Mine
      <4>3. CASE b = a
        BY <1>1, <2>5, <2>7, <4>1, <4>2, <4>3 DEF Right
      <4>4. CASE b # a
        <5>1. a_formatter[b] = Right(b, k) \/ Awaits(b, k)'
          BY <3>1, <3>2, <4>1, <4>4 DEF ListOK
        <5> QED BY <1>1, <2>7, <4>1, <4>4, <5>1 DEF Right
      <4> QED BY <4>3, <4>4
    <3>4. Mine(m_appenders[k], k)'
      <4>1. \A i \in DOMAIN m_appenders[k] : m_appenders[k][i] \in Appender
        BY <3>1
      <4> QED BY <1>1, <2>7, <3>1, <4>1 DEF ListOK, Mine
    <3> QED BY <1>1, <3>3, <3>4 DEF ListOK
  <2> QED BY <2>9, <2>10, <2>11, <2>13, <2>14, <2>15, <2>16, StepFrom DEF ThreadOK
<1> QED BY <1>5, <1>6

(* LogAppender::setFormatter() before the appender has a logger.           *)
LEMMA AppenderSetFormatterStep ==
  ASSUME IInv, NEW t \in Thread, NEW a \in Appender, NEW f \in Formatter \cup {Null},
         AppenderSetFormatter(t, a, f)
  PROVE  IInv'
<1>1. /\ Calls(t) /\ home[a] = Null
      /\ a_formatter' = [a_formatter EXCEPT ![a] = f] /\ own' = [own EXCEPT ![a] = f]
      /\ m_hasFormatter' = [m_hasFormatter EXCEPT ![a] = f # Null]
      /\ UNCHANGED <<m_loggers, m_manager, m_level, m_formatter, m_appenders, m_mutex, held,
                     a_level, pc, loc, out, home, nullFormatter>>
  BY DEF AppenderSetFormatter, Changes, managerVars, loggerVars
<1>2. TypeOK /\ Given /\ LocksOf(t)
  BY DEF IInv, ThreadOK
<1>3. /\ loc[t].todo = <<>> /\ pc[t] = "idle" /\ (t \in Writers => ops'[t] <= MaxLogs)
      /\ ops' \in [Thread -> 0..(MaxLogs + MaxChanges)] /\ ops' \in [Thread -> Nat]
      /\ ops'[t] >= ops[t] /\ \A u \in Thread : u # t => ops'[u] = ops[u]
  BY <1>1, CallsFacts
<1>4. /\ a_formatter' \in [Appender -> Formatter \cup {Null}] /\ a_formatter'[a] = f
      /\ own' \in [Appender -> Formatter \cup {Null}] /\ own'[a] = f
      /\ \A b \in Appender : b # a => a_formatter'[b] = a_formatter[b] /\ own'[b] = own[b]
  BY <1>1, <1>2 DEF TypeOK
<1>5. /\ m_hasFormatter' \in [Appender -> BOOLEAN] /\ (m_hasFormatter'[a] <=> f # Null)
      /\ \A b \in Appender : b # a => m_hasFormatter'[b] = m_hasFormatter[b]
  BY <1>1, <1>2 DEF TypeOK
<1>6. Discipline(t)
  BY <1>1, <1>3, <1>4 DEF Discipline
<1>7. TypeOK'
  BY <1>1, <1>2, <1>3, <1>4, <1>5 DEF TypeOK
<1>8. LocksOf(t)' /\ CallOf(t)' /\ WorkOf(t)' /\ EventOf(t)'
  BY <1>1, <1>2, <1>3 DEF LocksOf, CallOf, WorkOf, EventOf, Logging, Inside, Adding, Writing
<1>9. Given' /\ NoNullFormatter'
  BY <1>1, <1>2, <1>4, <1>5 DEF IInv, Given, NoNullFormatter
<1>10. History'
  BY <1>1, <1>3, <1>6, HistoryKept
<1>11. ASSUME NEW k \in Name
       PROVE  ListOK(k)'
  <2>1. m_appenders[k] \in Seq(Appender) /\ k # Null
        /\ \A i \in DOMAIN m_appenders[k] : home[m_appenders[k][i]] = k
    BY <1>2, LoggerAssumption DEF IInv, TypeOK, ListOK, Mine
  <2>2. \A i \in DOMAIN m_appenders[k] : m_appenders[k][i] \in Appender /\ m_appenders[k][i] # a
    BY <1>1, <2>1
  <2>3. \A i \in DOMAIN m_appenders[k] :
          a_formatter'[m_appenders[k][i]] = a_formatter[m_appenders[k][i]]
    BY <1>4, <2>2
  <2> QED BY <1>1, <1>3, <1>6, <2>3, ListUntouched
<1> QED BY <1>6, <1>7, <1>8, <1>9, <1>10, <1>11, StepFrom DEF ThreadOK

-----------------------------------------------------------------------------
(* Every step                                                              *)

LEMMA InitIInv == Init => IInv
<1> SUFFICES ASSUME Init PROVE IInv
  OBVIOUS
<1> USE DEF Init
<1>1. TypeOK
  <2>1. NoLocals \in Locals
    BY DEF NoLocals, Locals
  <2>2. 0 \in 0..(MaxLogs + MaxChanges)
    BY LoggerAssumption
  <2>3. m_loggers \subseteq Name /\ m_formatter \in [Name -> Formatter]
    BY LoggerAssumption
  <2>4. m_level \in [Name -> Level \cup {DEBUG}] /\ a_level \in [Appender -> Level \cup {0, DEBUG}]
    OBVIOUS
  <2>5. m_appenders \in [Name -> Seq(Appender)]
    BY LoggerAssumption
  <2>6. /\ a_formatter \in [Appender -> Formatter \cup {Null}]
        /\ home \in [Appender -> Name \cup {Null}] /\ own \in [Appender -> Formatter \cup {Null}]
    BY LoggerAssumption
  <2>7. m_hasFormatter \in [Appender -> BOOLEAN] /\ nullFormatter \in BOOLEAN
    OBVIOUS
  <2>8. /\ out \in [Appender -> Seq(Event)] /\ held \in [Thread -> Seq(Name)]
        /\ m_mutex \in [Name -> Thread \cup {Null}] /\ m_manager \in Thread \cup {Null}
    OBVIOUS
  <2>9. loc \in [Thread -> Locals] /\ ops \in [Thread -> 0..(MaxLogs + MaxChanges)]
    BY <2>1, <2>2
  <2>10. pc \in [Thread -> {"idle", "lock", "append", "emit", "inherit", "push", "pass",
                            "dump", "unlock"}]
    OBVIOUS
  <2> HIDE DEF Init
  <2> QED BY <2>3, <2>4, <2>5, <2>6, <2>7, <2>8, <2>9, <2>10 DEF TypeOK
<1>2. Given /\ History /\ NoNullFormatter
  BY LoggerAssumption DEF Given, History, Numbered, OneRoute, SameOrder, NoNullFormatter
<1>3. \A t \in Thread : ThreadOK(t)
  BY LoggerAssumption DEF ThreadOK, LocksOf, CallOf, WorkOf, EventOf, NoLocals, Logging, Inside,
                          Adding, Writing
<1>4. \A l \in Name : ListOK(l)
  <2> SUFFICES ASSUME NEW l \in Name PROVE ListOK(l)
    OBVIOUS
  <2>1. CASE l = Root
    BY <2>1, LoggerAssumption DEF ListOK, Mine, Right
  <2>2. CASE l # Root
    BY <2>2 DEF ListOK, Mine
  <2> QED BY <2>1, <2>2
<1> QED BY <1>1, <1>2, <1>3, <1>4 DEF IInv

LEMMA StutterStep ==
  ASSUME IInv, UNCHANGED vars
  PROVE  IInv'
<1> USE DEF vars, managerVars, loggerVars, appenderVars, histVars
<1>1. TypeOK'
  BY DEF IInv, TypeOK
<1>2. Given' /\ History' /\ NoNullFormatter'
  BY DEF IInv, Given, History, Numbered, OneRoute, SameOrder, Before, NoNullFormatter
<1>3. \A t \in Thread : ThreadOK(t)'
  BY DEF IInv, ThreadOK, LocksOf, CallOf, WorkOf, EventOf, Mine, Right, Cur
<1>4. \A l \in Name : ListOK(l)'
  BY DEF IInv, ListOK, Mine, Right, Awaits
<1> QED BY <1>1, <1>2, <1>3, <1>4 DEF IInv

LEMMA StepIInv == IInv /\ [Next]_vars => IInv'
<1> SUFFICES ASSUME IInv, [Next]_vars PROVE IInv'
  OBVIOUS
<1>1. CASE AllReturned \/ UNCHANGED vars
  BY <1>1, StutterStep DEF AllReturned
<1>2. ASSUME NEW t \in Thread, Proceed(t)
      PROVE  IInv'
  BY <1>2, LogLockStep, Append_Step, EmitStep, UnlockStep, AddInheritStep, AddPushStep,
     PassFormatterStep, DumpStep DEF Proceed
<1>3. ASSUME NEW t \in Thread, Change(t)
      PROVE  IInv'
  <2>1. ASSUME NEW l \in Name, GetLogger(t, l) \/ ClearAppender(t, l)
        PROVE  IInv'
    BY <2>1, GetLoggerStep, ClearAppenderStep
  <2>2. ASSUME NEW l \in Name, NEW a \in Appender, AddAppender(t, l, a) \/ DelAppender(t, l, a)
        PROVE  IInv'
    BY <2>2, AddAppenderStep, DelAppenderStep
  <2>3. ASSUME NEW l \in Name, NEW f \in Formatter, SetFormatter(t, l, f)
        PROVE  IInv'
    BY <2>3, SetFormatterStep
  <2>4. ASSUME NEW l \in Name, NEW level \in Level, SetLevel(t, l, level)
        PROVE  IInv'
    BY <2>4, SetLevelStep
  <2>5. ASSUME NEW a \in Appender, NEW level \in Level, AppenderSetLevel(t, a, level)
        PROVE  IInv'
    BY <2>5, AppenderSetLevelStep
  <2>6. ASSUME NEW a \in Appender, NEW f \in Formatter \cup {Null}, AppenderSetFormatter(t, a, f)
        PROVE  IInv'
    BY <2>6, AppenderSetFormatterStep
  <2>7. CASE ToYamlString(t)
    BY <2>7, ToYamlStringStep
  <2> QED BY <1>3, <2>1, <2>2, <2>3, <2>4, <2>5, <2>6, <2>7 DEF Change
<1>4. ASSUME NEW t \in Writers, NEW l \in Name, NEW level \in Level, Log(t, l, level)
      PROVE  IInv'
  BY <1>4, LogStep DEF Thread
<1> QED BY <1>1, <1>2, <1>3, <1>4 DEF Next

LEMMA IInvAlways == Spec => []IInv
<1> QED BY InitIInv, StepIInv, PTL DEF Spec

-----------------------------------------------------------------------------
(* Theorems                                                                *)

(* No appender's log() dereferences a null m_formatter: addAppender() has  *)
(* given it one, under the logger's lock, before log() can see it.         *)
THEOREM NeverNullFormatter == Spec => []NoNullFormatter
<1>1. IInv => NoNullFormatter
  BY DEF IInv
<1> QED BY IInvAlways, <1>1, PTL

(* Whenever nobody holds a logger's lock, its appenders have the formatter *)
(* the program gave them or, without one, the logger's latest.             *)
THEOREM FormatterAlwaysRight == Spec => []FormatterRight
<1>1. ASSUME IInv PROVE FormatterRight
  <2> SUFFICES ASSUME NEW l \in Name, m_mutex[l] = Null, NEW i \in DOMAIN m_appenders[l]
               PROVE  a_formatter[m_appenders[l][i]] = Right(m_appenders[l][i], l)
    BY DEF FormatterRight, Right
  <2>1. ASSUME Awaits(m_appenders[l][i], l)
        PROVE  FALSE
    <3>1. PICK u \in Thread : pc[u] = "pass" /\ loc[u].l = l
      BY <2>1 DEF Awaits
    <3>2. ThreadOK(u) /\ u # Null /\ held[u] \in Seq(Name)
      BY <1>1, LoggerAssumption DEF IInv, TypeOK
    <3>3. m_mutex[l] = u
      BY <3>1, <3>2 DEF ThreadOK, LocksOf, Inside
    <3> QED BY <3>2, <3>3
  <2> QED BY <1>1, <2>1 DEF IInv, ListOK
<1> QED BY IInvAlways, <1>1, PTL

(* An event goes to the appenders of one logger: its own, or the root when *)
(* its own has none.                                                       *)
THEOREM OneRouteAlways == Spec => []OneRoute
<1>1. IInv => OneRoute
  BY DEF IInv, History
<1> QED BY IInvAlways, <1>1, PTL

(* log() writes to all appenders of a logger under its lock, so any two    *)
(* appenders agree on the order of the events they share.                  *)
THEOREM SameOrderAlways == Spec => []SameOrder
<1>1. IInv => SameOrder
  BY DEF IInv, History
<1> QED BY IInvAlways, <1>1, PTL

-----------------------------------------------------------------------------
(* Nobody waits in a circle                                                *)

(* The locks a thread waits for, when it waits, and the threads it waits   *)
(* for: log() wants one logger's lock, toYamlString() that of each logger  *)
(* it has still to write.  A call that has not begun holds nothing.        *)
Wants(t) ==
  IF pc[t] = "lock" THEN {loc[t].l}
  ELSE IF pc[t] = "dump" THEN loc[t].names ELSE {}
Blocked(t) == Wants(t) # {} /\ \A l \in Wants(t) : m_mutex[l] # Null
Waits(t, u) == Blocked(t) /\ \E l \in Wants(t) : m_mutex[l] = u

(* Whoever is waited for is in a call; and whoever it waits for in turn is *)
(* in a call and waits for nobody.                                         *)
NoCircularWait ==
  \A t, u \in Thread : Waits(t, u) =>
    /\ pc[u] # "idle"
    /\ \A v \in Thread : Waits(u, v) => pc[v] # "idle" /\ ~Blocked(v)

(* A lock that is taken is one its holder knows of; a thread outside, or   *)
(* in toYamlString(), holds no logger's; and one that waits with a lock in *)
(* its hands waits for the root logger, whose lock it does not have.       *)
LockOrder ==
  /\ \A l \in Name : m_mutex[l] # Null =>
       \E i \in DOMAIN held[m_mutex[l]] : held[m_mutex[l]][i] = l
  /\ \A t \in Thread :
       /\ pc[t] \in {"idle", "dump"} => held[t] = <<>>
       /\ pc[t] = "lock" => /\ \A i \in DOMAIN held[t] : held[t][i] # Root
                            /\ held[t] # <<>> => loc[t].l = Root

(* Where a thread can be.                                                  *)
Places == {"idle", "lock", "append", "emit", "inherit", "push", "pass", "dump", "unlock"}

(* A step that takes and releases no lock keeps the order, if it brings no *)
(* thread from inside a lock to a place where it may hold none.            *)
LEMMA LocksUntouched ==
  ASSUME LockOrder, UNCHANGED <<m_mutex, held>>, NEW t \in Thread,
         \A u \in Thread : u # t => pc'[u] = pc[u] /\ loc'[u] = loc[u],
         pc'[t] \in {"idle", "dump", "lock"} =>
           held[t] = <<>> \/ (pc'[t] = pc[t] /\ loc'[t].l = loc[t].l)
  PROVE  LockOrder'
<1>1. ASSUME NEW u \in Thread
      PROVE  /\ pc'[u] \in {"idle", "dump"} => held'[u] = <<>>
             /\ pc'[u] = "lock" => /\ \A i \in DOMAIN held'[u] : held'[u][i] # Root
                                   /\ held'[u] # <<>> => loc'[u].l = Root
  BY <1>1 DEF LockOrder
<1> QED BY <1>1 DEF LockOrder

(* A free lock is taken by a thread that goes on to work under it, or to   *)
(* wait for the root logger's.                                             *)
LEMMA LockTaken ==
  ASSUME IInv, LockOrder, NEW t \in Thread, NEW l \in Name, Acquire(t, l),
         \A u \in Thread : u # t => pc'[u] = pc[u] /\ loc'[u] = loc[u],
         \/ pc'[t] \notin {"idle", "dump", "lock"}
         \/ pc'[t] = "lock" /\ held[t] = <<>> /\ l # Root /\ loc'[t].l = Root
  PROVE  LockOrder'
<1>1. /\ held[t] \in Seq(Name) /\ held \in [Thread -> Seq(Name)]
      /\ m_mutex \in [Name -> Thread \cup {Null}] /\ t # Null
  BY LoggerAssumption DEF IInv, TypeOK
<1>2. /\ m_mutex[l] = Null /\ m_mutex' = [m_mutex EXCEPT ![l] = t]
      /\ held' = [held EXCEPT ![t] = <<l>> \o held[t]]
  BY DEF Acquire
<1>3. held'[t] = <<l>> \o held[t] /\ \A u \in Thread : u # t => held'[u] = held[u]
  BY <1>1, <1>2
<1>4. /\ 1 \in DOMAIN held'[t] /\ held'[t][1] = l
      /\ \A i \in DOMAIN held[t] : i + 1 \in DOMAIN held'[t] /\ held'[t][i + 1] = held[t][i]
  BY <1>1, <1>3
<1>5. ASSUME NEW k \in Name, m_mutex'[k] # Null
      PROVE  \E i \in DOMAIN held'[m_mutex'[k]] : held'[m_mutex'[k]][i] = k
  <2>1. CASE k = l
    BY <2>1, <1>1, <1>2, <1>4
  <2>2. CASE k # l
    <3>1. m_mutex'[k] = m_mutex[k] /\ m_mutex[k] \in Thread
      BY <2>2, <1>1, <1>2, <1>5
    <3>2. PICK i \in DOMAIN held[m_mutex[k]] : held[m_mutex[k]][i] = k
      BY <3>1, <1>5 DEF LockOrder
    <3>3. CASE m_mutex[k] = t
      BY <3>1, <3>2, <3>3, <1>4
    <3>4. CASE m_mutex[k] # t
      BY <3>1, <3>2, <3>4, <1>3
    <3> QED BY <3>3, <3>4
  <2> QED BY <2>1, <2>2
<1>6. held[t] = <<>> => \A i \in DOMAIN held'[t] : held'[t][i] = l
  BY <1>3
<1>7. ASSUME NEW u \in Thread
      PROVE  /\ pc'[u] \in {"idle", "dump"} => held'[u] = <<>>
             /\ pc'[u] = "lock" => /\ \A i \in DOMAIN held'[u] : held'[u][i] # Root
                                   /\ held'[u] # <<>> => loc'[u].l = Root
  <2>1. CASE u = t
    BY <2>1, <1>6
  <2>2. CASE u # t
    BY <2>2, <1>3 DEF LockOrder
  <2> QED BY <2>1, <2>2
<1> QED BY <1>5, <1>7 DEF LockOrder

(* log() takes a lock: of its own logger with nothing in its hands, or of  *)
(* the root logger.                                                        *)
LEMMA LogLockOrder ==
  ASSUME IInv, LockOrder, NEW t \in Thread, LogLock(t)
  PROVE  LockOrder'
<1>1. pc[t] = "lock" /\ loc[t].l \in Name /\ Acquire(t, loc[t].l)
  BY DEF LogLock, IInv, ThreadOK, CallOf, Logging
<1>2. pc \in [Thread -> Places] /\ loc \in [Thread -> Locals] /\ loc[t] \in Locals
  BY DEF IInv, TypeOK, Places
<1>3. \A u \in Thread : u # t => pc'[u] = pc[u] /\ loc'[u] = loc[u]
  BY <1>2 DEF LogLock, Goto
<1>4. CASE pc' = [pc EXCEPT ![t] = "append"] \/ pc' = [pc EXCEPT ![t] = "unlock"]
  <2>1. pc'[t] \notin {"idle", "dump", "lock"}
    BY <1>2, <1>4
  <2> QED BY <1>1, <1>3, <2>1, LockTaken
<1>5. CASE loc[t].l # Root /\ loc' = [loc EXCEPT ![t].l = Root] /\ UNCHANGED pc
  <2>1. held[t] = <<>>
    BY <1>1, <1>5 DEF LockOrder
  <2>2. pc'[t] = "lock" /\ loc'[t].l = Root
    BY <1>1, <1>2, <1>5 DEF Locals
  <2> QED BY <1>1, <1>3, <1>5, <2>1, <2>2, LockTaken
<1> QED BY <1>4, <1>5 DEF LogLock, Goto

(* Of the locks a call leaves the innermost is released first; the call    *)
(* returns when none is left.                                              *)
LEMMA UnlockOrder ==
  ASSUME IInv, LockOrder, NEW t \in Thread, Unlock(t)
  PROVE  LockOrder'
<1>1. /\ held[t] \in Seq(Name) /\ held \in [Thread -> Seq(Name)] /\ pc \in [Thread -> Places]
      /\ m_mutex \in [Name -> Thread \cup {Null}] /\ t # Null /\ LocksOf(t) /\ pc[t] = "unlock"
      /\ loc \in [Thread -> Locals]
  BY LoggerAssumption DEF IInv, TypeOK, ThreadOK, Unlock, Places
<1>2. CASE held[t] = <<>>
  <2>1. /\ pc' = [pc EXCEPT ![t] = "idle"] /\ loc' = [loc EXCEPT ![t] = NoLocals]
        /\ UNCHANGED <<m_mutex, held>>
    BY <1>2 DEF Unlock, Goto
  <2>2. \A u \in Thread : u # t => pc'[u] = pc[u] /\ loc'[u] = loc[u]
    BY <1>1, <2>1
  <2> QED BY <1>2, <2>1, <2>2, LocksUntouched
<1>3. CASE held[t] # <<>>
  <2> DEFINE h == Head(held[t])
  <2>1. /\ m_mutex' = [m_mutex EXCEPT ![h] = Null]
        /\ held' = [held EXCEPT ![t] = Tail(held[t])] /\ UNCHANGED <<pc, loc>>
    BY <1>3 DEF Unlock, Released
  <2>2. /\ h \in Name /\ h = held[t][1] /\ 1 \in DOMAIN held[t]
        /\ \A i \in DOMAIN held[t] : i # 1 =>
             i - 1 \in DOMAIN Tail(held[t]) /\ Tail(held[t])[i - 1] = held[t][i]
    BY <1>1, <1>3, TailFacts
  <2> HIDE DEF h
  <2>3. held'[t] = Tail(held[t]) /\ \A u \in Thread : u # t => held'[u] = held[u]
    BY <1>1, <2>1
  <2>4. ASSUME NEW k \in Name, m_mutex'[k] # Null
        PROVE  \E i \in DOMAIN held'[m_mutex'[k]] : held'[m_mutex'[k]][i] = k
    <3>1. k # h /\ m_mutex'[k] = m_mutex[k] /\ m_mutex[k] \in Thread
      BY <1>1, <2>1, <2>2, <2>4
    <3>2. PICK i \in DOMAIN held[m_mutex[k]] : held[m_mutex[k]][i] = k
      BY <3>1, <2>4 DEF LockOrder
    <3>3. CASE m_mutex[k] = t
      <4>1. i # 1
        BY <3>1, <3>2, <3>3, <2>2
      <4>2. i - 1 \in DOMAIN held'[t] /\ held'[t][i - 1] = k
        BY <3>2, <3>3, <4>1, <2>2, <2>3
      <4> QED BY <3>1, <3>3, <4>2
    <3>4. CASE m_mutex[k] # t
      BY <3>1, <3>2, <3>4, <2>3
    <3> QED BY <3>3, <3>4
  <2>5. ASSUME NEW u \in Thread
        PROVE  /\ pc'[u] \in {"idle", "dump"} => held'[u] = <<>>
               /\ pc'[u] = "lock" => /\ \A i \in DOMAIN held'[u] : held'[u][i] # Root
                                     /\ held'[u] # <<>> => loc'[u].l = Root
    <3>1. CASE u = t
      BY <3>1, <1>1, <2>1
    <3>2. CASE u # t
      BY <3>2, <2>1, <2>3 DEF LockOrder
    <3> QED BY <3>1, <3>2
  <2> QED BY <2>4, <2>5 DEF LockOrder
<1> QED BY <1>2, <1>3

(* The other steps of a call work under the locks they have.               *)
LEMMA ProceedOrder ==
  ASSUME IInv, LockOrder, NEW t \in Thread, Proceed(t)
  PROVE  LockOrder'
<1>1. pc \in [Thread -> Places] /\ loc \in [Thread -> Locals] /\ loc[t] \in Locals
  BY DEF IInv, TypeOK, Places
<1>2. CASE Append_(t) \/ Emit(t) \/ AddInherit(t) \/ AddPush(t) \/ PassFormatter(t)
  <2>1. /\ UNCHANGED <<m_mutex, held>> /\ pc'[t] \notin {"idle", "dump", "lock"}
        /\ \A u \in Thread : u # t => pc'[u] = pc[u] /\ loc'[u] = loc[u]
    BY <1>1, <1>2 DEF Append_, Emit, AddInherit, AddPush, PassFormatter, Goto
  <2> QED BY <2>1, LocksUntouched
<1>3. CASE Dump(t)
  <2>1. /\ UNCHANGED <<m_mutex, held>> /\ held[t] = <<>>
        /\ \A u \in Thread : u # t => pc'[u] = pc[u] /\ loc'[u] = loc[u]
    BY <1>1, <1>3 DEF Dump, Goto, LockOrder
  <2> QED BY <2>1, LocksUntouched
<1> QED BY <1>2, <1>3, LogLockOrder, UnlockOrder DEF Proceed

(* A call begins with nothing held.                                        *)
LEMMA CallOrder ==
  ASSUME IInv, LockOrder, NEW t \in Thread,
         Change(t) \/ \E l \in Name, level \in Level : Log(t, l, level)
  PROVE  LockOrder'
<1>1. pc \in [Thread -> Places] /\ loc \in [Thread -> Locals] /\ loc[t] \in Locals
  BY DEF IInv, TypeOK, Places
<1>2. ASSUME NEW l \in Name, Acquire(t, l), NEW where \in {"inherit", "push", "pass"},
             Goto(t, where), \A u \in Thread : u # t => loc'[u] = loc[u]
      PROVE  LockOrder'
  <2>1. /\ pc'[t] \notin {"idle", "dump", "lock"}
        /\ \A u \in Thread : u # t => pc'[u] = pc[u] /\ loc'[u] = loc[u]
    BY <1>1, <1>2 DEF Goto
  <2> QED BY <1>2, <2>1, LockTaken
<1>3. ASSUME NEW l \in Name, NEW a \in Appender, AddAppender(t, l, a)
      PROVE  LockOrder'
  <2>1. /\ Acquire(t, l) /\ (Goto(t, "inherit") \/ Goto(t, "push"))
        /\ \A u \in Thread : u # t => loc'[u] = loc[u]
    BY <1>1, <1>3 DEF AddAppender
  <2> QED BY <2>1, <1>2
<1>4. ASSUME NEW l \in Name, NEW f \in Formatter, SetFormatter(t, l, f)
      PROVE  LockOrder'
  <2>1. Acquire(t, l) /\ Goto(t, "pass") /\ \A u \in Thread : u # t => loc'[u] = loc[u]
    BY <1>1, <1>4 DEF SetFormatter
  <2> QED BY <2>1, <1>2
<1>5. ASSUME pc[t] = "idle", UNCHANGED <<m_mutex, held>>,
             \A u \in Thread : u # t => pc'[u] = pc[u] /\ loc'[u] = loc[u]
      PROVE  LockOrder'
  <2>1. held[t] = <<>>
    BY <1>5 DEF LockOrder
  <2> QED BY <1>5, <2>1, LocksUntouched
<1>6. ASSUME NEW l \in Name, \/ GetLogger(t, l) \/ ClearAppender(t, l)
                             \/ \E a \in Appender : DelAppender(t, l, a)
                             \/ \E level \in Level : SetLevel(t, l, level) \/ Log(t, l, level)
      PROVE  LockOrder'
  <2>1. /\ pc[t] = "idle" /\ UNCHANGED <<m_mutex, held>>
        /\ \A u \in Thread : u # t => pc'[u] = pc[u] /\ loc'[u] = loc[u]
    BY <1>1, <1>6 DEF GetLogger, ClearAppender, DelAppender, SetLevel, Log, Changes, Calls, Goto
  <2> QED BY <2>1, <1>5
<1>7. CASE \/ \E a \in Appender, level \in Level : AppenderSetLevel(t, a, level)
           \/ \E a \in Appender, f \in Formatter \cup {Null} : AppenderSetFormatter(t, a, f)
           \/ ToYamlString(t)
  <2>1. /\ pc[t] = "idle" /\ UNCHANGED <<m_mutex, held>>
        /\ \A u \in Thread : u # t => pc'[u] = pc[u] /\ loc'[u] = loc[u]
    BY <1>1, <1>7 DEF AppenderSetLevel, AppenderSetFormatter, ToYamlString, Changes, Calls, Goto
  <2> QED BY <2>1, <1>5
<1> QED BY <1>3, <1>4, <1>6, <1>7 DEF Change

LEMMA LockOrderAlways == Spec => []LockOrder
<1>1. Init => LockOrder
  BY DEF Init, LockOrder
<1>2. ASSUME IInv, LockOrder, [Next]_vars PROVE LockOrder'
  <2>1. CASE AllReturned \/ UNCHANGED vars
    BY <1>2, <2>1 DEF AllReturned, vars, LockOrder
  <2>2. ASSUME NEW t \in Thread, Proceed(t) \/ Change(t) PROVE LockOrder'
    BY <1>2, <2>2, ProceedOrder, CallOrder
  <2>3. ASSUME NEW t \in Writers, NEW l \in Name, NEW level \in Level, Log(t, l, level)
        PROVE  LockOrder'
    BY <1>2, <2>3, CallOrder DEF Thread
  <2> QED BY <1>2, <2>1, <2>2, <2>3 DEF Next
<1> QED BY <1>1, <1>2, IInvAlways, PTL DEF Spec

(* No deadlock among the loggers: whoever holds a lock that somebody in    *)
(* log() or toYamlString() waits for is inside a call, and if it waits too *)
(* it is for the root logger's lock, whose holder waits for nobody.        *)
THEOREM NeverCircularWait == Spec => []NoCircularWait
<1>1. ASSUME IInv, LockOrder PROVE NoCircularWait
  <2>1. ASSUME NEW t \in Thread, NEW u \in Thread, Waits(t, u)
        PROVE  \E l \in Name : l \in Wants(t) /\ m_mutex[l] = u
    <3>1. PICK l \in Wants(t) : m_mutex[l] = u
      BY <2>1 DEF Waits
    <3>2. loc[t] \in Locals /\ (pc[t] = "lock" => loc[t].l \in Name)
      BY <1>1 DEF IInv, TypeOK, ThreadOK, CallOf, Logging
    <3>3. l \in Name
      BY <3>2 DEF Wants, Locals
    <3> QED BY <3>1, <3>3
  <2>2. ASSUME NEW u \in Thread, NEW l \in Name, m_mutex[l] = u
        PROVE  /\ \E i \in DOMAIN held[u] : held[u][i] = l
               /\ held[u] # <<>> /\ pc[u] \notin {"idle", "dump"}
    <3>1. PICK i \in DOMAIN held[u] : held[u][i] = l
      BY <1>1, <2>2, LoggerAssumption DEF LockOrder
    <3>2. held[u] # <<>>
      BY <3>1
    <3> QED BY <1>1, <3>1, <3>2 DEF LockOrder
  <2>3. ASSUME NEW t \in Thread, NEW u \in Thread, Waits(t, u),
               NEW v \in Thread, Waits(u, v)
        PROVE  pc[v] # "idle" /\ ~Blocked(v)
    <3>1. held[u] # <<>> /\ pc[u] \notin {"idle", "dump"}
      BY <2>1, <2>2, <2>3
    <3>2. pc[u] = "lock" /\ Wants(u) = {Root}
      BY <1>1, <2>3, <3>1 DEF Waits, Blocked, Wants, LockOrder
    <3>3. m_mutex[Root] = v
      BY <2>1, <2>3, <3>2
    <3>4. /\ \E i \in DOMAIN held[v] : held[v][i] = Root
          /\ pc[v] \notin {"idle", "dump"}
      BY <2>2, <3>3, LoggerAssumption
    <3>5. pc[v] # "lock"
      BY <1>1, <3>4 DEF LockOrder
    <3> QED BY <3>4, <3>5 DEF Blocked, Wants
  <2> QED BY <2>1, <2>2, <2>3 DEF NoCircularWait
<1> QED BY <1>1, IInvAlways, LockOrderAlways, PTL

=============================================================================
