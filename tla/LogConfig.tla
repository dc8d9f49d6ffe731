------------------------------ MODULE LogConfig ------------------------------
(***************************************************************************)
(* The `logs` configuration variable and its listener (mocker/log.cpp,     *)
(* LogDefine to LogIniter): a document's text becomes a set of LogDefines, *)
(* and when ConfigVar::setValue() finds it different from the last one the *)
(* listener brings the loggers in line, one call of a Logger at a time.    *)
(*                                                                         *)
(* One thread loads; the calls it makes are those of module Logger, each   *)
(* under that logger's lock.  The names are gone through in any order.     *)
(***************************************************************************)
EXTENDS Naturals, Sequences, FiniteSets, FiniteSetsExt

CONSTANTS
  Name,      \* names of loggers
  Root,      \* the root logger's
  Pattern,   \* format patterns without an error
  Std,       \* the pattern of a new Logger
  Document,  \* the lists of nodes under `logs` that are loaded
  Null       \* not there: no definition, no pattern, no name, no type

UNKNOWN == 0
DEBUG == 1
REMOVED == 100
BadPattern == "error"
LevelName == <<"DEBUG", "INFO", "WARN", "ERROR", "FATAL">>
Level == UNKNOWN..Len(LevelName)
FATAL == Len(LevelName)

(* LogLevel::ToString() and FromString(), which upper-cases first.  Of the *)
(* words a document may hold only these have lower-case letters.           *)
ToString(level) == IF level \in DOMAIN LevelName THEN LevelName[level] ELSE "UNKNOWN"
Upper(word) ==
  LET capitals == [debug |-> "DEBUG", info |-> "INFO", Warn |-> "WARN"]
  IN IF word \in DOMAIN capitals THEN capitals[word] ELSE word

FromString(word) ==
  IF \E l \in DOMAIN LevelName : LevelName[l] = Upper(word)
  THEN CHOOSE l \in DOMAIN LevelName : LevelName[l] = Upper(word)
  ELSE UNKNOWN

Patterns == Pattern \cup {BadPattern, Null}
FileType == "FileLogAppender"
StdoutType == "StdoutLogAppender"

(* What a document may hold, and what it is converted to.  A level that is *)
(* not there is read as "".                                                *)
AppenderNode == [type : {FileType, StdoutType, "another", Null}, file : BOOLEAN,
                 level : STRING, formatter : Patterns]
Node == [name : Name \cup {Null}, level : STRING, formatter : Patterns,
         appenders : Seq(AppenderNode)]
LogAppenderDefine == [type : {FileType, StdoutType, "UNKNOWN"}, level : Level,
                      formatter : Patterns]
LogDefine == [level : Level, formatter : Patterns, appenders : Seq(LogAppenderDefine)]

ASSUME LogConfigAssumption ==
  /\ Document \subseteq Seq(Node)
  /\ Root \in Name /\ Std \in Pattern /\ BadPattern \notin Pattern
  /\ Null \notin Pattern \cup Name \cup {FileType, StdoutType}

VARIABLES
  m_val,        \* value of the variable: the LogDefine of each name, or Null
  new_value,    \* what setValue() was called with
  m_level,      \* Logger::m_level, by name
  m_formatter,  \* the pattern of Logger::m_formatter
  m_appenders,  \* Logger::m_appenders: type, level, pattern and m_hasFormatter
  pc,           \* where the loading thread is
  todo,         \* the names its loop has still to go through
  cur,          \* the one it is at
  adds,         \* appenders of that one still to be made
  ever,         \* history: names that have been defined
  doc           \* history: the document of the last load, Null before it

loggerVars == <<m_level, m_formatter, m_appenders>>
vars == <<m_val, new_value, loggerVars, pc, todo, cur, adds, ever, doc>>

Value == [Name -> LogDefine \cup {Null}]
NamesIn(v) == {n \in Name : v[n] # Null}
Made == [type : {FileType, StdoutType}, level : Level, formatter : Pattern, own : BOOLEAN]

(* One type for every variable.                                            *)
TypeOK ==
  /\ m_val \in Value /\ new_value \in Value
  /\ m_level \in [Name -> Level \cup {REMOVED}]
  /\ m_formatter \in [Name -> Pattern]
  /\ m_appenders \in [Name -> Seq(Made)]
  /\ pc \in {"idle", "apply", "format", "clear", "add", "remove", "drop", "crashed"}
  /\ todo \subseteq Name
  /\ cur \in Name \cup {Null}
  /\ adds \in Seq(LogAppenderDefine)
  /\ ever \subseteq Name
  /\ doc \in Document \cup {Null}

RootAppender == [type |-> StdoutType, level |-> DEBUG, formatter |-> Std, own |-> FALSE]

(* Loggers have the values the LogManager and getLogger() give them.       *)
Init ==
  /\ m_val = [n \in Name |-> Null] /\ new_value = [n \in Name |-> Null]
  /\ m_level = [n \in Name |-> DEBUG]
  /\ m_formatter = [n \in Name |-> Std]
  /\ m_appenders = [n \in Name |->
       IF n = Root THEN <<RootAppender>> ELSE <<>>]
  /\ pc = "idle" /\ todo = {} /\ cur = Null /\ adds = <<>> /\ ever = {} /\ doc = Null

-----------------------------------------------------------------------------
(* LexicalCast<std::string, LogDefine> and that of a std::set of them      *)

(* The elements of s at the positions K, in their order.                   *)
At(s, K) == [i \in 1..Cardinality(K) |->
               s[CHOOSE j \in K : Cardinality({k \in K : k < j}) = i - 1]]

(* Appenders without a type, or files without a name, are left out; an     *)
(* appender of another type is kept.                                       *)
Kept(n) == n.type # Null /\ (n.type = FileType => n.file)
CastAppender(n) ==
  IF n.type \in {FileType, StdoutType}
  THEN [type |-> n.type, level |-> FromString(n.level), formatter |-> n.formatter]
  ELSE [type |-> "UNKNOWN", level |-> FromString(n.level), formatter |-> Null]
CastAppenders(nodes) ==
  LET kept == At(nodes, {i \in DOMAIN nodes : Kept(nodes[i])})
  IN [i \in DOMAIN kept |-> CastAppender(kept[i])]

CastDefine(n) == [level |-> FromString(n.level), formatter |-> n.formatter,
                  appenders |-> CastAppenders(n.appenders)]

(* Of two definitions of one name the set keeps the first.                 *)
Cast(nodes) ==
  [n \in Name |->
     LET defs == {i \in DOMAIN nodes : nodes[i].name = n}
     IN IF defs = {} THEN Null ELSE CastDefine(nodes[Min(defs)])]

(* A node without a name makes as<std::string>() throw.                    *)
Converts(nodes) == \A i \in DOMAIN nodes : nodes[i].name # Null

(* LogDefine::operator==, which compares the appenders with themselves.    *)
SameDefine(d, e) == d.level = e.level /\ d.formatter = e.formatter

(* std::set's operator==, with it.                                         *)
SameValue(v, w) ==
  NamesIn(v) = NamesIn(w) /\ \A n \in NamesIn(v) : SameDefine(v[n], w[n])

(* Documents with different values differ in a name, a level or a          *)
(* formatter, which is all that operator== compares.  It is not assumed:   *)
(* the theorem about ConfigTakesEffect has it as a hypothesis.             *)
Distinguished ==
  \A d, e \in Document : Converts(d) /\ Converts(e) /\ SameValue(Cast(d), Cast(e))
                           => Cast(d) = Cast(e)

-----------------------------------------------------------------------------
(* The ways back to text                                                   *)

(* Mutants: the level is not written; inherited formatters are written.    *)
LevelNever(level) == ""
FormatterAlways(a) == a.formatter

LevelIfKnown(level) == IF level = UNKNOWN THEN "" ELSE ToString(level)
OwnFormatter(a) == IF a.own THEN a.formatter ELSE Null

(* LexicalCast<LogDefine, std::string>, for the name n: a type that is not *)
(* known is not written.                                                   *)
Uncast(n, d) ==
  [name |-> n, level |-> ToString(d.level), formatter |-> d.formatter,
   appenders |-> [i \in DOMAIN d.appenders |->
     LET a == d.appenders[i] IN
       [type |-> IF a.type = "UNKNOWN" THEN Null ELSE a.type, file |-> a.type = FileType,
        level |-> LevelIfKnown(a.level), formatter |-> a.formatter]]]

(* Logger::toYamlString() of the logger n, with its appenders'.            *)
ToYamlString(n) ==
  [name |-> n, level |-> ToString(m_level[n]), formatter |-> m_formatter[n],
   appenders |-> [i \in DOMAIN m_appenders[n] |->
     LET a == m_appenders[n][i] IN
       [type |-> a.type, file |-> a.type = FileType, level |-> LevelIfKnown(a.level),
        formatter |-> OwnFormatter(a)]]]

(* Mutant of Writes: the root logger is not asked.                         *)
WritesAlone(n, level) ==
  level >= m_level[n] /\ \E i \in DOMAIN m_appenders[n] : level >= m_appenders[n][i].level

(* Logger::log(): whether an event is written by an appender of the logger *)
(* or, when it has none, by one of the root logger.                        *)
Writes(n, level) ==
  LET m == IF m_appenders[n] = <<>> THEN Root ELSE n
  IN /\ level >= m_level[n] /\ level >= m_level[m]
     /\ \E i \in DOMAIN m_appenders[m] : level >= m_appenders[m][i].level

-----------------------------------------------------------------------------
(* Config::LoadFromYaml() up to setValue()'s test                          *)
Load(d) ==
  /\ pc = "idle"
  /\ doc' = IF Converts(d) THEN d ELSE doc
  /\ IF Converts(d) /\ ~SameValue(Cast(d), m_val)
     THEN /\ new_value' = Cast(d)
          /\ pc' = "apply" /\ todo' = NamesIn(Cast(d))
     ELSE UNCHANGED <<new_value, pc, todo>>
  /\ UNCHANGED <<m_val, loggerVars, cur, adds, ever>>

(* The listener's first loop: the logger is looked up when its definition  *)
(* is new or has changed; setLevel() is called through the pointer in any  *)
(* case.                                                                   *)
Apply(n) ==
  /\ pc = "apply" /\ n \in todo
  /\ todo' = todo \ {n}
  /\ IF m_val[n] # Null /\ SameDefine(new_value[n], m_val[n])
     THEN pc' = "crashed" /\ UNCHANGED <<m_level, cur, adds>>
     ELSE /\ m_level' = [m_level EXCEPT ![n] = new_value[n].level]
          /\ cur' = n /\ adds' = new_value[n].appenders
          /\ pc' = "format"
  /\ UNCHANGED <<m_val, new_value, m_formatter, m_appenders, ever, doc>>

(* Mutants: a pattern with an error is taken; the appenders stay.          *)
AcceptedAny(f) == f # Null
ClearedNot(n) == m_appenders

Accepted(f) == f \in Pattern
Cleared(n) == [m_appenders EXCEPT ![n] = <<>>]

(* Logger::setFormatter() of a pattern, which rejects one with an error.   *)
(* The appenders it would hand it on to are removed next.                  *)
Format ==
  /\ pc = "format"
  /\ m_formatter' = IF Accepted(new_value[cur].formatter)
                    THEN [m_formatter EXCEPT ![cur] = new_value[cur].formatter]
                    ELSE m_formatter
  /\ pc' = "clear"
  /\ UNCHANGED <<m_val, new_value, m_level, m_appenders, todo, cur, adds, ever, doc>>

Clear ==
  /\ pc = "clear"
  /\ m_appenders' = Cleared(cur)
  /\ pc' = "add"
  /\ UNCHANGED <<m_val, new_value, m_level, m_formatter, todo, cur, adds, ever, doc>>

(* An appender's own formatter, if it has no error, else the logger's.     *)
MadeFrom(d, n) ==
  LET own == Accepted(d.formatter)
  IN [type |-> d.type, level |-> d.level, own |-> own,
      formatter |-> IF own THEN d.formatter ELSE m_formatter[n]]

(* An appender is made, set up and added; addAppender() gives it the       *)
(* logger's formatter if it has none.  One of type UNKNOWN is not made.    *)
Add ==
  /\ pc = "add"
  /\ IF adds = <<>>
     THEN pc' = "apply" /\ cur' = Null /\ UNCHANGED <<m_appenders, adds>>
     ELSE LET d == Head(adds) IN
          IF d.type = "UNKNOWN"
          THEN pc' = "crashed" /\ UNCHANGED <<m_appenders, cur, adds>>
          ELSE /\ m_appenders' = [m_appenders EXCEPT ![cur] = Append(@,
                    MadeFrom(d, cur))]
               /\ adds' = Tail(adds)
               /\ UNCHANGED <<pc, cur>>
  /\ UNCHANGED <<m_val, new_value, m_level, m_formatter, todo, ever, doc>>

EndApply ==
  /\ pc = "apply" /\ todo = {}
  /\ todo' = NamesIn(m_val) \ NamesIn(new_value)
  /\ pc' = "remove"
  /\ UNCHANGED <<m_val, new_value, loggerVars, cur, adds, ever, doc>>

(* The second loop: loggers that are not defined any more.                 *)
Remove(n) ==
  /\ pc = "remove" /\ n \in todo
  /\ todo' = todo \ {n}
  /\ m_level' = [m_level EXCEPT ![n] = REMOVED]
  /\ cur' = n /\ pc' = "drop"
  /\ UNCHANGED <<m_val, new_value, m_formatter, m_appenders, adds, ever, doc>>

RemoveClear ==
  /\ pc = "drop"
  /\ m_appenders' = Cleared(cur)
  /\ cur' = Null /\ pc' = "remove"
  /\ UNCHANGED <<m_val, new_value, m_level, m_formatter, todo, adds, ever, doc>>

(* setValue() stores the value after its listeners have returned.          *)
Store ==
  /\ pc = "remove" /\ todo = {}
  /\ m_val' = new_value
  /\ ever' = ever \cup NamesIn(new_value)
  /\ pc' = "idle"
  /\ UNCHANGED <<new_value, loggerVars, todo, cur, adds, doc>>

Next ==
  \/ \E d \in Document : Load(d)
  \/ \E n \in Name : Apply(n) \/ Remove(n)
  \/ Format \/ Clear \/ Add \/ EndApply \/ RemoveClear \/ Store

Spec == Init /\ [][Next]_vars

-----------------------------------------------------------------------------
(* Properties                                                              *)

(* README.md:139-153, "Set up Logger by YAML Config": after a load each    *)
(* logger of the document has the level and the appenders listed there,    *)
(* each with its own formatter, else the logger's.                         *)
ConfigTakesEffect ==
  pc = "idle" /\ doc # Null =>
    \A n \in NamesIn(Cast(doc)) :
      LET d == Cast(doc)[n] IN
        /\ m_level[n] = d.level
        /\ d.formatter \in Pattern => m_formatter[n] = d.formatter
        /\ m_appenders[n] = [i \in DOMAIN d.appenders |-> MadeFrom(d.appenders[i], n)]

(* log.cpp:869-877, the loop that removes loggers: one that has left the   *)
(* configuration logs nothing, neither by its level nor by appenders of    *)
(* its own, however often it came and went.                                *)
RemovedSilent ==
  pc = "idle" =>
    \A n \in ever \ NamesIn(m_val) : m_level[n] = REMOVED /\ m_appenders[n] = <<>>

(* log.cpp:715-814: the value of `logs` is written to text that converts   *)
(* to the same value, appenders included, which operator== overlooks.      *)
ValueRoundTrips ==
  pc = "idle" => \A n \in NamesIn(m_val) : CastDefine(Uncast(n, m_val[n])) = m_val[n]

(* log.cpp:501-616: what toYamlString() writes of a logger defines it as   *)
(* it is: level, formatter and appenders, which then follow the logger's   *)
(* formatter as far as they do now.  A removed logger is written as one of *)
(* level UNKNOWN, which logs everything.                                   *)
DumpDefines ==
  pc = "idle" =>
    \A n \in Name : LET d == CastDefine(ToYamlString(n)) IN
      /\ d.level = IF m_level[n] = REMOVED THEN UNKNOWN ELSE m_level[n]
      /\ d.formatter = m_formatter[n]
      /\ [i \in DOMAIN d.appenders |-> MadeFrom(d.appenders[i], n)] = m_appenders[n]

(* log.cpp:841-866 and README.md:132-133: while the configuration leaves   *)
(* the root logger alone, a FATAL event of a logger that is not removed is *)
(* written at every moment of a load, also between clearAppender() and     *)
(* addAppender().                                                          *)
FatalWritten ==
  Root \notin ever /\ new_value[Root] = Null =>
    \A n \in Name : m_level[n] # REMOVED => Writes(n, FATAL)

(* log.cpp:829 and 833, "新增logger" and "修改logger" (add, modify a       *)
(* logger): a logger that is neither is left alone, and the listener       *)
(* returns.                                                                *)
ListenerReturns == pc # "crashed"

=============================================================================
