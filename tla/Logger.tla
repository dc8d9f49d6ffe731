-------------------------------- MODULE Logger --------------------------------
(***************************************************************************)
(* mocker::LogManager, Logger and LogAppender (mocker/log.h, log.cpp):     *)
(* threads log through named loggers while another changes their levels,   *)
(* formatters and appenders.                                               *)
(*                                                                         *)
(* log() holds its logger's spinlock while it goes through the appenders,  *)
(* and, when there are none, while it logs through the root logger, whose  *)
(* lock it takes on top.  An appender's own lock is taken last and nothing *)
(* is taken under it: each of its critical sections is one step.  Levels   *)
(* are read and written without a lock.                                    *)
(***************************************************************************)
EXTENDS Naturals, Sequences, SequencesExt

CONSTANTS
  Writers,         \* threads that log
  Configurers,     \* threads that change the loggers
  Name, Root,      \* names of loggers, and the one of the root logger
  Appender,        \* LogAppender objects
  First,           \* the appender the LogManager gives the root logger
  Formatter, Std,  \* LogFormatter objects, and the one of a new Logger
  Level,           \* levels of events, and those setLevel() is called with
  MaxLogs,         \* bound: calls of log() per writer
  MaxChanges,      \* bound: other calls per configurer
  Null

DEBUG == 1
Thread == Writers \cup Configurers

ASSUME LoggerAssumption ==
  /\ Root \in Name /\ First \in Appender /\ Std \in Formatter
  /\ Level \subseteq Nat /\ MaxLogs \in Nat /\ MaxChanges \in Nat
  /\ Writers \cap Configurers = {}
  /\ Null \notin Thread \cup Name \cup Appender \cup Formatter

VARIABLES
  m_loggers,       \* LogManager: names that have a logger
  m_manager,       \* LogManager::m_mutex: the thread that holds it
  m_level,         \* Logger, by name
  m_formatter,     \* Logger
  m_appenders,     \* Logger
  m_mutex,         \* Logger: the thread that holds it
  a_level,         \* LogAppender::m_level
  a_formatter,     \* LogAppender::m_formatter
  m_hasFormatter,  \* LogAppender
  pc,              \* where each thread is
  loc,             \* its arguments and locals
  held,            \* the loggers whose lock it holds, innermost first
  out,             \* history: the events each appender has written
  home,            \* history: the logger an appender was given to
  own,             \* history: the formatter the program gave an appender
  nullFormatter,   \* m_formatter was dereferenced while it was nullptr
  ops              \* calls each thread has made

loggerVars == <<m_level, m_formatter, m_appenders>>
appenderVars == <<a_level, a_formatter, m_hasFormatter>>
managerVars == <<m_loggers, m_manager>>
histVars == <<out, home, own, nullFormatter>>
vars == <<managerVars, loggerVars, m_mutex, appenderVars, pc, loc, held, histVars, ops>>

Event == [by : Writers, no : 1..MaxLogs]
Locals == [l : Name \cup {Null}, level : Level \cup {0}, a : Appender \cup {Null},
           todo : Seq(Appender), names : SUBSET Name]
NoLocals == [l |-> Null, level |-> 0, a |-> Null, todo |-> <<>>, names |-> {}]

(* One type for every variable.                                            *)
TypeOK ==
  /\ m_loggers \subseteq Name
  /\ m_manager \in Thread \cup {Null}
  /\ m_level \in [Name -> Level \cup {DEBUG}]
  /\ m_formatter \in [Name -> Formatter]
  /\ m_appenders \in [Name -> Seq(Appender)]
  /\ m_mutex \in [Name -> Thread \cup {Null}]
  /\ a_level \in [Appender -> Level \cup {0, DEBUG}]
  /\ a_formatter \in [Appender -> Formatter \cup {Null}]
  /\ m_hasFormatter \in [Appender -> BOOLEAN]
  /\ pc \in [Thread -> {"idle", "lock", "append", "emit", "inherit", "push", "pass",
                        "dump", "unlock"}]
  /\ loc \in [Thread -> Locals]
  /\ held \in [Thread -> Seq(Name)]
  /\ out \in [Appender -> Seq(Event)]
  /\ home \in [Appender -> Name \cup {Null}]
  /\ own \in [Appender -> Formatter \cup {Null}]
  /\ nullFormatter \in BOOLEAN
  /\ ops \in [Thread -> 0..(MaxLogs + MaxChanges)]

(* The LogManager is constructed; a logger has its values from the start,  *)
(* getLogger() makes it known.                                             *)
Init ==
  /\ m_loggers = {Root}
  /\ m_manager = Null
  /\ m_level = [l \in Name |-> DEBUG]
  /\ m_formatter = [l \in Name |-> Std]
  /\ m_appenders = [l \in Name |-> IF l = Root THEN <<First>> ELSE <<>>]
  /\ m_mutex = [l \in Name |-> Null]
  /\ a_level = [a \in Appender |-> IF a = First THEN DEBUG ELSE 0]
  /\ a_formatter = [a \in Appender |-> IF a = First THEN Std ELSE Null]
  /\ m_hasFormatter = [a \in Appender |-> FALSE]
  /\ pc = [t \in Thread |-> "idle"]
  /\ loc = [t \in Thread |-> NoLocals]
  /\ held = [t \in Thread |-> <<>>]
  /\ out = [a \in Appender |-> <<>>]
  /\ home = [a \in Appender |-> IF a = First THEN Root ELSE Null]
  /\ own = [a \in Appender |-> Null]
  /\ nullFormatter = FALSE
  /\ ops = [t \in Thread |-> 0]

-----------------------------------------------------------------------------
Calls(t) == /\ pc[t] = "idle"
            /\ ops[t] < IF t \in Writers THEN MaxLogs ELSE MaxChanges
            /\ ops' = [ops EXCEPT ![t] = @ + 1]
Changes(t) == t \in Configurers /\ Calls(t)
Goto(t, where) == pc' = [pc EXCEPT ![t] = where]

(* Mutants: the lock is not taken; it is not released; the root logger's   *)
(* appenders get every event too; an appender is not given the logger's    *)
(* formatter; it is given that in place of its own.                        *)
AcquireNot(t, l) == UNCHANGED <<m_mutex, held>>
ReleasedNot(l) == m_mutex
RouteBoth(l) == m_appenders[l] \o (IF l = Root THEN <<>> ELSE m_appenders[Root])
BareNever(a) == FALSE
PassedOnAlways(a, l) == m_formatter[l]

Acquire(t, l) == /\ m_mutex[l] = Null
                 /\ m_mutex' = [m_mutex EXCEPT ![l] = t]
                 /\ held' = [held EXCEPT ![t] = <<l>> \o @]

Released(l) == [m_mutex EXCEPT ![l] = Null]

(* The locks of the scopes a call leaves, the innermost first.             *)
Unlock(t) ==
  /\ pc[t] = "unlock"
  /\ IF held[t] = <<>>
     THEN /\ Goto(t, "idle")
          /\ loc' = [loc EXCEPT ![t] = NoLocals]
          /\ UNCHANGED <<m_mutex, held>>
     ELSE /\ m_mutex' = Released(Head(held[t]))
          /\ held' = [held EXCEPT ![t] = Tail(@)]
          /\ UNCHANGED <<pc, loc>>
  /\ UNCHANGED <<managerVars, loggerVars, appenderVars, histVars, ops>>

-----------------------------------------------------------------------------
(* Logger::log()                                                           *)

(* The level is looked at before the lock is taken.                        *)
Log(t, l, level) ==
  /\ t \in Writers /\ Calls(t) /\ l \in m_loggers
  /\ IF level >= m_level[l]
     THEN /\ Goto(t, "lock")
          /\ loc' = [loc EXCEPT ![t].l = l, ![t].level = level]
     ELSE UNCHANGED <<pc, loc>>
  /\ UNCHANGED <<managerVars, loggerVars, m_mutex, held, appenderVars, histVars>>

Route(l) == m_appenders[l]

(* The lock is taken: on to the appenders or, without any, to the root     *)
(* logger's log(), which looks at its own level.                           *)
LogLock(t) ==
  /\ pc[t] = "lock"
  /\ LET l == loc[t].l IN
       /\ Acquire(t, l)
       /\ \/ /\ m_appenders[l] # <<>>
             /\ loc' = [loc EXCEPT ![t].todo = Route(l)]
             /\ Goto(t, "append")
          \/ /\ m_appenders[l] = <<>> /\ l # Root /\ loc[t].level >= m_level[Root]
             /\ loc' = [loc EXCEPT ![t].l = Root]
             /\ UNCHANGED pc
          \/ /\ m_appenders[l] = <<>> /\ (l = Root \/ loc[t].level < m_level[Root])
             /\ Goto(t, "unlock")
             /\ UNCHANGED loc
  /\ UNCHANGED <<managerVars, loggerVars, appenderVars, histVars, ops>>

(* LogAppender::log(), the level again before the lock.                    *)
Append_(t) ==
  /\ pc[t] = "append"
  /\ IF loc[t].todo = <<>>
     THEN Goto(t, "unlock") /\ UNCHANGED loc
     ELSE IF loc[t].level >= a_level[Head(loc[t].todo)]
          THEN Goto(t, "emit") /\ UNCHANGED loc
          ELSE loc' = [loc EXCEPT ![t].todo = Tail(@)] /\ UNCHANGED pc
  /\ UNCHANGED <<managerVars, loggerVars, m_mutex, held, appenderVars, histVars, ops>>

Emit(t) ==
  /\ pc[t] = "emit"
  /\ LET a == Head(loc[t].todo) IN
       /\ out' = [out EXCEPT ![a] = Append(@, [by |-> t, no |-> ops[t]])]
       /\ nullFormatter' = (nullFormatter \/ a_formatter[a] = Null)
  /\ loc' = [loc EXCEPT ![t].todo = Tail(@)]
  /\ Goto(t, "append")
  /\ UNCHANGED <<managerVars, loggerVars, m_mutex, held, appenderVars, home, own, ops>>

-----------------------------------------------------------------------------
(* Logger::addAppender(), delAppender(), clearAppender(), setFormatter()   *)

Bare(a) == a_formatter[a] = Null

(* The lock is taken and the appender asked for its formatter, under the   *)
(* appender's lock; it is given one under that lock, taken again.  The     *)
(* program gives an appender to one logger, once.                          *)
AddAppender(t, l, a) ==
  /\ Changes(t) /\ l \in m_loggers /\ home[a] = Null
  /\ Acquire(t, l)
  /\ home' = [home EXCEPT ![a] = l]
  /\ loc' = [loc EXCEPT ![t].l = l, ![t].a = a]
  /\ Goto(t, IF Bare(a) THEN "inherit" ELSE "push")
  /\ UNCHANGED <<managerVars, loggerVars, appenderVars, out, own, nullFormatter>>

AddInherit(t) ==
  /\ pc[t] = "inherit"
  /\ a_formatter' = [a_formatter EXCEPT ![loc[t].a] = m_formatter[loc[t].l]]
  /\ Goto(t, "push")
  /\ UNCHANGED <<managerVars, loggerVars, m_mutex, held, a_level, m_hasFormatter, loc,
                 histVars, ops>>

AddPush(t) ==
  /\ pc[t] = "push"
  /\ m_appenders' = [m_appenders EXCEPT ![loc[t].l] = Append(@, loc[t].a)]
  /\ Goto(t, "unlock")
  /\ UNCHANGED <<managerVars, m_level, m_formatter, m_mutex, held, appenderVars, loc,
                 histVars, ops>>

(* The first entry that is a is erased, if there is one.                   *)
DelAppender(t, l, a) ==
  /\ Changes(t) /\ l \in m_loggers /\ home[a] # Null /\ m_mutex[l] = Null
  /\ LET s == m_appenders[l] IN
       \/ a \notin Range(s) /\ UNCHANGED m_appenders
       \/ \E i \in DOMAIN s : /\ s[i] = a /\ \A j \in 1..(i - 1) : s[j] # a
                              /\ m_appenders' = [m_appenders EXCEPT ![l] = RemoveAt(s, i)]
  /\ UNCHANGED <<managerVars, m_level, m_formatter, m_mutex, held, appenderVars, pc, loc,
                 histVars>>

ClearAppender(t, l) ==
  /\ Changes(t) /\ l \in m_loggers /\ m_mutex[l] = Null
  /\ m_appenders' = [m_appenders EXCEPT ![l] = <<>>]
  /\ UNCHANGED <<managerVars, m_level, m_formatter, m_mutex, held, appenderVars, pc, loc,
                 histVars>>

(* setFormatter() of a formatter without an error.                         *)
SetFormatter(t, l, f) ==
  /\ Changes(t) /\ l \in m_loggers /\ Acquire(t, l)
  /\ m_formatter' = [m_formatter EXCEPT ![l] = f]
  /\ loc' = [loc EXCEPT ![t].l = l, ![t].todo = m_appenders[l]]
  /\ Goto(t, "pass")
  /\ UNCHANGED <<managerVars, m_level, m_appenders, appenderVars, histVars>>

PassedOn(a, l) == IF m_hasFormatter[a] THEN a_formatter[a] ELSE m_formatter[l]

(* Its loop over the appenders.                                            *)
PassFormatter(t) ==
  /\ pc[t] = "pass"
  /\ IF loc[t].todo = <<>>
     THEN Goto(t, "unlock") /\ UNCHANGED <<a_formatter, loc>>
     ELSE /\ LET a == Head(loc[t].todo) IN
               a_formatter' = [a_formatter EXCEPT ![a] = PassedOn(a, loc[t].l)]
          /\ loc' = [loc EXCEPT ![t].todo = Tail(@)]
          /\ UNCHANGED pc
  /\ UNCHANGED <<managerVars, loggerVars, m_mutex, held, a_level, m_hasFormatter,
                 histVars, ops>>

SetLevel(t, l, level) ==
  /\ Changes(t) /\ l \in m_loggers
  /\ m_level' = [m_level EXCEPT ![l] = level]
  /\ UNCHANGED <<managerVars, m_formatter, m_appenders, m_mutex, held, appenderVars, pc,
                 loc, histVars>>

-----------------------------------------------------------------------------
(* LogAppender::setLevel() and setFormatter().  The program sets up an     *)
(* appender's formatter before it gives it to a logger.                    *)

AppenderSetLevel(t, a, level) ==
  /\ Changes(t)
  /\ a_level' = [a_level EXCEPT ![a] = level]
  /\ UNCHANGED <<managerVars, loggerVars, m_mutex, held, a_formatter, m_hasFormatter, pc,
                 loc, histVars>>

AppenderSetFormatter(t, a, f) ==
  /\ Changes(t) /\ home[a] = Null
  /\ a_formatter' = [a_formatter EXCEPT ![a] = f]
  /\ m_hasFormatter' = [m_hasFormatter EXCEPT ![a] = f # Null]
  /\ own' = [own EXCEPT ![a] = f]
  /\ UNCHANGED <<managerVars, loggerVars, m_mutex, held, a_level, pc, loc, out, home,
                 nullFormatter>>

-----------------------------------------------------------------------------
(* LogManager                                                              *)

(* getLogger() of a name that is new; of another it changes nothing.       *)
GetLogger(t, l) ==
  /\ Changes(t) /\ m_manager = Null /\ l \notin m_loggers
  /\ m_loggers' = m_loggers \cup {l}
  /\ UNCHANGED <<m_manager, loggerVars, m_mutex, held, appenderVars, pc, loc, histVars>>

(* toYamlString() goes through the loggers with the manager's lock held.   *)
ToYamlString(t) ==
  /\ Changes(t) /\ m_manager = Null
  /\ m_manager' = t
  /\ loc' = [loc EXCEPT ![t].names = m_loggers]
  /\ Goto(t, "dump")
  /\ UNCHANGED <<m_loggers, loggerVars, m_mutex, held, appenderVars, histVars>>

Dump(t) ==
  /\ pc[t] = "dump"
  /\ IF loc[t].names = {}
     THEN /\ m_manager' = Null
          /\ Goto(t, "idle")
          /\ UNCHANGED loc
     ELSE /\ \E l \in loc[t].names :
               /\ m_mutex[l] = Null
               /\ loc' = [loc EXCEPT ![t].names = @ \ {l}]
          /\ UNCHANGED <<m_manager, pc>>
  /\ UNCHANGED <<m_loggers, loggerVars, m_mutex, held, appenderVars, histVars, ops>>

-----------------------------------------------------------------------------
Proceed(t) ==
  \/ LogLock(t) \/ Append_(t) \/ Emit(t) \/ Unlock(t)
  \/ AddInherit(t) \/ AddPush(t) \/ PassFormatter(t) \/ Dump(t)

Change(t) ==
  \/ \E l \in Name : GetLogger(t, l) \/ ClearAppender(t, l)
  \/ \E l \in Name, a \in Appender : AddAppender(t, l, a) \/ DelAppender(t, l, a)
  \/ \E l \in Name, f \in Formatter : SetFormatter(t, l, f)
  \/ \E l \in Name, level \in Level : SetLevel(t, l, level)
  \/ \E a \in Appender, level \in Level : AppenderSetLevel(t, a, level)
  \/ \E a \in Appender, f \in Formatter \cup {Null} : AppenderSetFormatter(t, a, f)
  \/ ToYamlString(t)

(* The program makes no more calls.                                        *)
AllReturned == (\A t \in Thread : pc[t] = "idle") /\ UNCHANGED vars

Next ==
  \/ AllReturned
  \/ \E t \in Thread : Proceed(t) \/ Change(t)
  \/ \E t \in Writers, l \in Name, level \in Level : Log(t, l, level)

Spec == Init /\ [][Next]_vars

(* Threads run, and a lock that stays free is got.                         *)
FairSpec == Spec /\ \A t \in Thread : WF_vars(Proceed(t))

-----------------------------------------------------------------------------
(* Properties                                                              *)

(* No appender formats an event without a formatter (log.cpp:548, 598).    *)
NoNullFormatter == ~nullFormatter

(* Nobody changes a logger: its appenders have the formatter the program   *)
(* gave them, and the others the logger's (log.cpp:448-451, 478-483).      *)
FormatterRight ==
  \A l \in Name : m_mutex[l] = Null =>
    \A i \in DOMAIN m_appenders[l] :
      LET a == m_appenders[l][i] IN
        a_formatter[a] = IF own[a] # Null THEN own[a] ELSE m_formatter[l]

(* Two appenders that both wrote two events wrote them in the same order,  *)
(* whatever loggers they came through: log() holds the logger's lock over  *)
(* all of its appenders (log.cpp:415-419).                                 *)
Before(a, e, f) == \E i, j \in DOMAIN out[a] : i < j /\ out[a][i] = e /\ out[a][j] = f
SameOrder ==
  \A a, b \in Appender : \A i, j \in DOMAIN out[a] :
    i < j => ~Before(b, out[a][j], out[a][i])

(* README.md:132-133, "When the sub-logger does not have any `LogAppender`,*)
(* then the `LogAppender` of `root` will be called for output": an event   *)
(* is written by the appenders of one logger only, its own or the root.    *)
OneRoute ==
  \A a, b \in Appender : \A i \in DOMAIN out[a], j \in DOMAIN out[b] :
    out[a][i] = out[b][j] => home[a] = home[b]

(* Every call returns: a thread that waits for the root logger with        *)
(* another logger's lock held, or for loggers with the manager's, is       *)
(* waited for by nobody it waits for.                                      *)
CallsReturn == \A t \in Thread : pc[t] # "idle" ~> pc[t] = "idle"

=============================================================================
