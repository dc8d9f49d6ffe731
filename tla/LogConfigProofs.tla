---------------------------- MODULE LogConfigProofs ----------------------------
(***************************************************************************)
(* Proofs about LogConfig, for every set of documents.                     *)
(*                                                                         *)
(* The listener goes through the names of the new value once.  The         *)
(* invariant says how far it is: the loggers behind it are as the new      *)
(* value has them, the one it is at has as many appenders as it has taken  *)
(* from the list, the loggers of neither value are as the removal left     *)
(* them.                                                                   *)
(***************************************************************************)
EXTENDS LogConfig, FiniteSetTheorems, WellFoundedInduction, TLAPS

Loading == {"apply", "format", "clear", "add", "remove", "drop"}
At1 == {"format", "clear", "add"}

(* The loops go through the names of the new value, and through those of   *)
(* the old one that it has not.                                            *)
Loops ==
  /\ pc = "idle" => todo = {} /\ new_value = m_val
  /\ pc \in {"idle", "apply", "remove"} => cur = Null
  /\ pc \in {"apply", "format", "clear", "add"} => todo \subseteq NamesIn(new_value)
  /\ pc \in At1 => cur \in NamesIn(new_value) \ todo
  /\ pc \in {"remove", "drop"} => todo \subseteq NamesIn(m_val) \ NamesIn(new_value)
  /\ pc = "drop" => cur \in NamesIn(m_val) \ (NamesIn(new_value) \cup todo)
  /\ NamesIn(m_val) \subseteq ever

(* Loggers of neither value, and those the second loop has been at; the    *)
(* one it is at has lost its level.                                        *)
Silent(n) == m_level[n] = REMOVED /\ m_appenders[n] = <<>>
Gone ==
  /\ \A n \in ever \ (NamesIn(m_val) \cup NamesIn(new_value)) : Silent(n)
  /\ pc = "remove" => \A n \in NamesIn(m_val) \ (NamesIn(new_value) \cup todo) : Silent(n)
  /\ pc = "drop" =>
       /\ m_level[cur] = REMOVED
       /\ \A n \in NamesIn(m_val) \ (NamesIn(new_value) \cup todo \cup {cur}) : Silent(n)

(* An appender without a formatter of its own has the logger's, but for    *)
(* the moment between setFormatter() and clearAppender().                  *)
Inherit(n) ==
  ~(pc = "clear" /\ n = cur) =>
    \A i \in DOMAIN m_appenders[n] :
      ~m_appenders[n][i].own => m_appenders[n][i].formatter = m_formatter[n]
Inherited == \A n \in Name : Inherit(n)

RootAlone == Root \notin ever /\ new_value[Root] = Null =>
               m_level[Root] = DEBUG /\ m_appenders[Root] = <<RootAppender>>

(* A logger is as its definition says: its appenders are those of the      *)
(* first k of the list.                                                    *)
AddedOf(n, d, k) ==
  /\ Len(m_appenders[n]) = k
  /\ \A i \in 1..k : /\ m_appenders[n][i] = MadeFrom(d.appenders[i], n)
                     /\ d.appenders[i].type # "UNKNOWN"
SetUp(n, d) == m_level[n] = d.level /\ (d.formatter \in Pattern => m_formatter[n] = d.formatter)
Defined(n, d) == SetUp(n, d) /\ AddedOf(n, d, Len(d.appenders))
Behind == pc # "crashed" =>
            \A n \in NamesIn(new_value) \ (todo \cup {cur}) : Defined(n, new_value[n])
Here ==
  /\ pc \in At1 => m_level[cur] = new_value[cur].level
  /\ pc \in {"clear", "add"} => SetUp(cur, new_value[cur])
  /\ pc \in {"format", "clear"} => adds = new_value[cur].appenders
  /\ pc = "add" => \E k \in 0..Len(new_value[cur].appenders) :
       /\ AddedOf(cur, new_value[cur], k)
       /\ Len(adds) = Len(new_value[cur].appenders) - k
       /\ \A i \in 1..Len(adds) : adds[i] = new_value[cur].appenders[k + i]

(* The value is the one of a document.                                     *)
Sources ==
  /\ NamesIn(m_val) = {} \/ \E d \in Document : Converts(d) /\ m_val = Cast(d)
  /\ doc # Null => Converts(doc)
  /\ pc = "idle" /\ doc # Null => SameValue(Cast(doc), m_val)
  /\ pc \in Loading => doc \in Document /\ Converts(doc) /\ new_value = Cast(doc)

LInv == TypeOK /\ Loops /\ Gone /\ Inherited /\ RootAlone /\ Behind /\ Here /\ Sources

-----------------------------------------------------------------------------
(* The order of positions                                                  *)

LEMMA MinIn ==
  ASSUME NEW S \in SUBSET Nat, S # {}
  PROVE  Min(S) \in S /\ \A y \in S : Min(S) <= y
<1>1. PICK x \in S : \A y \in S : ~(<<y, x>> \in OpToRel(<, Nat))
  BY NatLessThanWellFounded, WFMin
<1>2. \A y \in S : ~(y < x)
  BY <1>1 DEF OpToRel
<1>3. \A y \in S : x <= y
  BY <1>2
<1> QED
  BY <1>3 DEF Min

Below(K, j) == {k \in K : k < j}

LEMMA BelowFinite ==
  ASSUME NEW K \in SUBSET Nat, IsFiniteSet(K), NEW j
  PROVE  IsFiniteSet(Below(K, j)) /\ Cardinality(Below(K, j)) \in Nat
         /\ Below(K, j) \subseteq K
BY FS_Subset, FS_CardinalityType DEF Below

(* A set of positions has a first one, and after each but the last there   *)
(* is a next one: by induction, the i-th of them is there.                 *)
LEMMA PositionExists ==
  ASSUME NEW K \in SUBSET Nat, IsFiniteSet(K), NEW i \in 1..Cardinality(K)
  PROVE  \E j \in K : Cardinality(Below(K, j)) = i - 1
<1> DEFINE C == Cardinality(K)
           Bad == {n \in Nat : n \in 1..C /\ ~\E j \in K : Cardinality(Below(K, j)) = n - 1}
<1>1. C \in Nat
  BY FS_CardinalityType
<1> SUFFICES ASSUME Bad # {} PROVE FALSE
  BY <1>1
<1>2. PICK n \in Bad : \A m \in Bad : n <= m
  BY MinIn
<1>3. n \in 1..C /\ n \in Nat /\ ~\E j \in K : Cardinality(Below(K, j)) = n - 1
  OBVIOUS
<1>4. K # {}
  <2>1. C # 0
    BY <1>1, <1>3
  <2> QED
    BY <2>1, FS_EmptySet
<1>5. CASE n = 1
  <2>1. PICK x \in K : \A y \in K : x <= y
    BY <1>4, MinIn
  <2>2. Below(K, x) = {}
    <3>1. \A y \in K : ~(y < x)
      BY <2>1
    <3> QED
      BY <3>1 DEF Below
  <2>3. Cardinality(Below(K, x)) = n - 1
    BY <1>5, <2>2, FS_EmptySet
  <2> QED
    BY <1>3, <2>3
<1>6. CASE n # 1
  <2>1. n - 1 \in 1..C /\ n - 1 \in Nat /\ n - 1 \notin Bad
    BY <1>1, <1>2, <1>3, <1>6
  <2>2. PICK j \in K : Cardinality(Below(K, j)) = n - 1 - 1
    BY <2>1
  <2> DEFINE Upto == Below(K, j) \cup {j}
             Rest == K \ Upto
  <2>3. j \notin Below(K, j)
    BY DEF Below
  <2>4. IsFiniteSet(Upto) /\ Cardinality(Upto) = n - 1
    BY <1>3, <2>2, <2>3, BelowFinite, FS_AddElement
  <2>5. Rest # {}
    <3>1. Upto \subseteq K
      BY DEF Below
    <3>2. SUFFICES ASSUME Rest = {} PROVE FALSE
      OBVIOUS
    <3>3. Upto = K
      BY <3>1, <3>2
    <3> QED
      BY <1>1, <1>3, <2>4, <3>3
  <2>6. Min(Rest) \in Rest /\ \A y \in Rest : Min(Rest) <= y
    BY <2>5, MinIn
  <2>7. Below(K, Min(Rest)) = Upto
    <3>1. \A k \in Rest : k > j
      BY DEF Below
    <3>2. Min(Rest) > j /\ Min(Rest) \in Nat
      BY <2>6, <3>1
    <3>3. ASSUME NEW k \in Upto PROVE k \in Below(K, Min(Rest))
      BY <3>2 DEF Below
    <3>4. ASSUME NEW k \in Below(K, Min(Rest)) PROVE k \in Upto
      <4>1. k \in K /\ k < Min(Rest)
        BY DEF Below
      <4> QED
        BY <2>6, <3>2, <4>1
    <3> QED
      BY <3>3, <3>4
  <2> QED
    BY <1>3, <2>4, <2>6, <2>7
<1> QED
  BY <1>5, <1>6

(* What the elements at some positions are.                                *)
LEMMA AtElements ==
  ASSUME NEW S, NEW s \in Seq(S), NEW K \in SUBSET (DOMAIN s)
  PROVE  /\ At(s, K) \in Seq(S)
         /\ \A i \in DOMAIN At(s, K) : \E j \in K : At(s, K)[i] = s[j]
<1>1. DOMAIN s = 1..Len(s) /\ Len(s) \in Nat
  OBVIOUS
<1>2. K \in SUBSET Nat /\ IsFiniteSet(K)
  <2>1. IsFiniteSet(1..Len(s))
    BY <1>1, FS_Interval
  <2> QED
    BY <1>1, <2>1, FS_Subset
<1>3. Cardinality(K) \in Nat
  BY <1>2, FS_CardinalityType
<1> DEFINE p(i) == CHOOSE j \in K : Cardinality({k \in K : k < j}) = i - 1
<1>4. ASSUME NEW i \in 1..Cardinality(K) PROVE p(i) \in K
  <2>1. \E j \in K : Cardinality({k \in K : k < j}) = i - 1
    BY <1>2, PositionExists DEF Below
  <2> QED
    BY <2>1
<1>5. At(s, K) = [i \in 1..Cardinality(K) |-> s[p(i)]]
  BY DEF At
<1> HIDE DEF p
<1>6. \A i \in 1..Cardinality(K) : s[p(i)] \in S
  BY <1>4
<1> QED
  BY <1>3, <1>4, <1>5, <1>6

LEMMA AtAll ==
  ASSUME NEW S, NEW s \in Seq(S)
  PROVE  At(s, DOMAIN s) = s
<1> DEFINE K == DOMAIN s
<1>1. K = 1..Len(s) /\ Len(s) \in Nat /\ s = [i \in 1..Len(s) |-> s[i]]
  OBVIOUS
<1>2. Cardinality(K) = Len(s)
  <2>0. \A m \in Nat : Cardinality(1..m) = IF 1 > m THEN 0 ELSE m - 1 + 1
    BY FS_Interval
  <2>1. Cardinality(1..Len(s)) = IF 1 > Len(s) THEN 0 ELSE Len(s) - 1 + 1
    BY <1>1, <2>0
  <2> HIDE DEF K
  <2>2. Cardinality(K) = IF 1 > Len(s) THEN 0 ELSE Len(s) - 1 + 1
    BY <1>1, <2>1
  <2> QED
    BY <1>1, <2>2
<1> DEFINE p(i) == CHOOSE j \in K : Cardinality({k \in K : k < j}) = i - 1
<1>3. ASSUME NEW j \in K PROVE Cardinality({k \in K : k < j}) = j - 1
  <2>1. {k \in K : k < j} = 1..(j - 1)
    BY <1>1
  <2>2. 1 \in Int /\ j - 1 \in Int /\ j \in Nat /\ j >= 1
    BY <1>1
  <2>3. Cardinality(1..(j - 1)) = IF 1 > j - 1 THEN 0 ELSE (j - 1) - 1 + 1
    BY <2>2, FS_Interval
  <2>4. (IF 1 > j - 1 THEN 0 ELSE (j - 1) - 1 + 1) = j - 1
    BY <2>2
  <2> QED
    BY <2>1, <2>3, <2>4
<1>4. ASSUME NEW i \in 1..Len(s) PROVE p(i) = i
  <2>1. i \in K /\ Cardinality({k \in K : k < i}) = i - 1
    BY <1>1, <1>3
  <2>2. p(i) \in K /\ Cardinality({k \in K : k < p(i)}) = i - 1
    BY <2>1
  <2>3. Cardinality({k \in K : k < p(i)}) = p(i) - 1
    BY <1>3, <2>2
  <2> HIDE DEF p
  <2> QED
    BY <1>1, <2>2, <2>3
<1>5. At(s, K) = [i \in 1..Cardinality(K) |-> s[p(i)]]
  BY DEF At
<1> HIDE DEF p
<1> QED
  BY <1>1, <1>2, <1>4, <1>5

-----------------------------------------------------------------------------
(* The conversions                                                         *)

LEMMA Levels ==
  /\ DOMAIN LevelName = 1..5 /\ Len(LevelName) = 5 /\ FATAL = 5
  /\ Level = 0..5
  /\ LevelName[1] = "DEBUG" /\ LevelName[2] = "INFO" /\ LevelName[3] = "WARN"
  /\ LevelName[4] = "ERROR" /\ LevelName[5] = "FATAL"
BY DEF LevelName, Level, FATAL, UNKNOWN

LEMMA FromStringType ==
  ASSUME NEW word
  PROVE  FromString(word) \in Level
BY Levels DEF FromString, UNKNOWN

(* What toString() writes of a level is read as that level; REMOVED and    *)
(* UNKNOWN are written as a word that is no level.                         *)
LEMMA LevelBack ==
  /\ \A l \in Level : FromString(ToString(l)) = l /\ FromString(LevelIfKnown(l)) = l
  /\ FromString(ToString(REMOVED)) = UNKNOWN
<1>1. \A w \in {"DEBUG", "INFO", "WARN", "ERROR", "FATAL", "UNKNOWN", ""} : Upper(w) = w
  BY DEF Upper
<1>2. \A w \in {"UNKNOWN", ""} : FromString(w) = UNKNOWN
  <2>0. \A l \in 1..5 : l = 1 \/ l = 2 \/ l = 3 \/ l = 4 \/ l = 5
    OBVIOUS
  <2>1. ASSUME NEW w \in {"UNKNOWN", ""}, NEW l \in 1..5 PROVE LevelName[l] # w
    BY <2>0, Levels
  <2> QED
    BY <1>1, <2>1, Levels DEF FromString
<1>3. ASSUME NEW l \in 1..5 PROVE FromString(LevelName[l]) = l
  <2>1. LevelName[l] \in {"DEBUG", "INFO", "WARN", "ERROR", "FATAL"}
    BY Levels
  <2>2. \A m \in 1..5 : LevelName[m] = LevelName[l] => m = l
    BY Levels
  <2>3. Upper(LevelName[l]) = LevelName[l]
    BY <1>1, <2>1
  <2> QED
    BY <2>2, <2>3, Levels DEF FromString
<1>4. \A l \in 1..5 : ToString(l) = LevelName[l] /\ LevelIfKnown(l) = LevelName[l]
  <2>1. \A l \in 1..5 : ToString(l) = LevelName[l]
    BY Levels DEF ToString
  <2>2. \A l \in 1..5 : LevelIfKnown(l) = ToString(l)
    <3>1. \A l \in 1..5 : l # UNKNOWN
      BY DEF UNKNOWN
    <3> QED
      BY <3>1 DEF LevelIfKnown
  <2> QED
    BY <2>1, <2>2
<1>5. ToString(0) = "UNKNOWN" /\ LevelIfKnown(0) = "" /\ ToString(REMOVED) = "UNKNOWN"
  BY Levels DEF ToString, LevelIfKnown, UNKNOWN, REMOVED
<1>6. FromString(ToString(0)) = 0 /\ FromString(LevelIfKnown(0)) = 0
  BY <1>2, <1>5 DEF UNKNOWN
<1>7. \A l \in 1..5 : FromString(ToString(l)) = l /\ FromString(LevelIfKnown(l)) = l
  BY <1>3, <1>4
<1>8. \A l \in Level : l = 0 \/ l \in 1..5
  BY Levels
<1> QED
  BY <1>2, <1>5, <1>6, <1>7, <1>8

LEMMA CastAppenderType ==
  ASSUME NEW n \in AppenderNode
  PROVE  CastAppender(n) \in LogAppenderDefine
BY FromStringType DEF CastAppender, LogAppenderDefine, AppenderNode, Patterns

LEMMA CastAppendersType ==
  ASSUME NEW nodes \in Seq(AppenderNode)
  PROVE  CastAppenders(nodes) \in Seq(LogAppenderDefine)
<1> DEFINE K == {i \in DOMAIN nodes : Kept(nodes[i])}
           kept == At(nodes, K)
<1>1. kept \in Seq(AppenderNode)
  BY AtElements
<1>2. CastAppenders(nodes) = [i \in DOMAIN kept |-> CastAppender(kept[i])]
  BY DEF CastAppenders
<1> HIDE DEF kept
<1> QED
  BY <1>1, <1>2, CastAppenderType

(* A list of which none is left out.                                       *)
LEMMA CastAppendersAll ==
  ASSUME NEW S, NEW nodes \in Seq(S), \A i \in DOMAIN nodes : Kept(nodes[i])
  PROVE  CastAppenders(nodes) = [i \in DOMAIN nodes |-> CastAppender(nodes[i])]
<1>1. {i \in DOMAIN nodes : Kept(nodes[i])} = DOMAIN nodes
  OBVIOUS
<1> QED
  BY <1>1, AtAll DEF CastAppenders

LEMMA CastDefineType ==
  ASSUME NEW n \in Node
  PROVE  CastDefine(n) \in LogDefine
BY FromStringType, CastAppendersType DEF CastDefine, LogDefine, Node

LEMMA CastType ==
  ASSUME NEW d \in Document
  PROVE  Cast(d) \in Value
<1>1. d \in Seq(Node)
  BY LogConfigAssumption
<1>2. ASSUME NEW n \in Name
      PROVE  LET defs == {i \in DOMAIN d : d[i].name = n}
             IN (IF defs = {} THEN Null ELSE CastDefine(d[Min(defs)])) \in LogDefine \cup {Null}
  <2> DEFINE defs == {i \in DOMAIN d : d[i].name = n}
  <2>1. CASE defs = {}
    BY <2>1
  <2>2. CASE defs # {}
    <3>1. Min(defs) \in defs
      BY <1>1, <2>2, MinIn
    <3>2. d[Min(defs)] \in Node
      BY <1>1, <3>1
    <3> QED
      BY <2>2, <3>2, CastDefineType
  <2> QED
    BY <2>1, <2>2
<1> QED
  BY <1>2 DEF Cast, Value

-----------------------------------------------------------------------------
(* Every step keeps LInv                                                   *)

LEMMA Names ==
  ASSUME TypeOK
  PROVE  /\ NamesIn(m_val) \subseteq Name /\ NamesIn(new_value) \subseteq Name
         /\ \A n \in NamesIn(new_value) : new_value[n] \in LogDefine
         /\ \A n \in NamesIn(m_val) : m_val[n] \in LogDefine
         /\ \A n \in NamesIn(new_value) : new_value[n].appenders \in Seq(LogAppenderDefine)
         /\ Null \notin Name
BY LogConfigAssumption DEF TypeOK, NamesIn, Value, LogDefine

(* A logger that a step does not touch stays as it is defined.             *)
LEMMA DefinedKept ==
  ASSUME NEW n \in Name, new_value' = new_value, m_level'[n] = m_level[n],
         m_formatter'[n] = m_formatter[n], m_appenders'[n] = m_appenders[n]
  PROVE  Defined(n, new_value[n])' <=> Defined(n, new_value[n])
BY DEF Defined, SetUp, AddedOf, MadeFrom

LEMMA LoadKeeps ==
  ASSUME LInv, NEW d \in Document, Load(d)
  PROVE  LInv'
<1>1. TypeOK /\ Loops /\ Gone /\ Inherited /\ RootAlone /\ Behind /\ Here /\ Sources
  BY DEF LInv
<1>2. /\ pc = "idle" /\ doc' = IF Converts(d) THEN d ELSE doc
      /\ UNCHANGED <<m_val, m_level, m_formatter, m_appenders, cur, adds, ever>>
  BY DEF Load, loggerVars
<1>3. Cast(d) \in Value
  BY CastType
<1>4. CASE Converts(d) /\ ~SameValue(Cast(d), m_val)
  <2>1. new_value' = Cast(d) /\ pc' = "apply" /\ todo' = NamesIn(Cast(d)) /\ doc' = d
    BY <1>4, <1>2 DEF Load
  <2>2. TypeOK'
    <3>1. NamesIn(Cast(d)) \subseteq Name
      BY DEF NamesIn
    <3> QED
      BY <1>1, <1>2, <1>3, <2>1, <3>1 DEF TypeOK
  <2>3. NamesIn(new_value') = todo' /\ NamesIn(m_val') = NamesIn(m_val)
    BY <1>2, <2>1 DEF NamesIn
  <2>4. new_value = m_val /\ cur = Null /\ NamesIn(m_val) \subseteq ever
    BY <1>1, <1>2 DEF Loops
  <2>5. Loops'
    BY <1>2, <2>1, <2>3, <2>4 DEF Loops, At1
  <2>6. Gone'
    BY <1>1, <1>2, <2>1, <2>3, <2>4 DEF Gone, Silent
  <2>7. Inherited'
    BY <1>1, <1>2, <2>1 DEF Inherited, Inherit
  <2>8. RootAlone'
    <3>1. Root \in Name
      BY LogConfigAssumption
    <3> QED
      BY <1>1, <1>2, <2>4, <3>1 DEF RootAlone, NamesIn
  <2>9. Behind' /\ Here'
    BY <2>1, <2>3 DEF Behind, Here, At1
  <2>10. Sources'
    BY <1>1, <1>2, <1>4, <2>1 DEF Sources, Loading, NamesIn
  <2> QED
    BY <2>2, <2>5, <2>6, <2>7, <2>8, <2>9, <2>10 DEF LInv
<1>5. CASE ~(Converts(d) /\ ~SameValue(Cast(d), m_val))
  <2>1. UNCHANGED <<new_value, pc, todo>>
    BY <1>5 DEF Load
  <2>2. TypeOK'
    BY <1>1, <1>2, <2>1 DEF TypeOK
  <2>3. Loops' /\ Gone' /\ Inherited' /\ RootAlone'
    BY <1>1, <1>2, <2>1 DEF Loops, Gone, Silent, Inherited, Inherit, RootAlone, NamesIn, At1
  <2>4. Behind'
    BY <1>1, <1>2, <2>1 DEF Behind, Defined, SetUp, AddedOf, MadeFrom, NamesIn
  <2>5. Here'
    BY <1>2, <2>1 DEF Here, At1
  <2>6. Sources'
    <3>1. CASE Converts(d)
      BY <1>1, <1>2, <1>5, <2>1, <3>1 DEF Sources, Loading, NamesIn
    <3>2. CASE ~Converts(d)
      BY <1>1, <1>2, <2>1, <3>2 DEF Sources, Loading, NamesIn
    <3> QED
      BY <3>1, <3>2
  <2> QED
    BY <2>2, <2>3, <2>4, <2>5, <2>6 DEF LInv
<1> QED
  BY <1>4, <1>5

(* The listener takes the next name, or ends in the null pointer.          *)
LEMMA ApplyKeeps ==
  ASSUME LInv, NEW n \in Name, Apply(n)
  PROVE  LInv'
<1>1. TypeOK /\ Loops /\ Gone /\ Inherited /\ RootAlone /\ Behind /\ Here /\ Sources
  BY DEF LInv
<1>2. /\ pc = "apply" /\ n \in todo /\ todo' = todo \ {n}
      /\ UNCHANGED <<m_val, new_value, m_formatter, m_appenders, ever, doc>>
  BY DEF Apply
<1>3. n \in NamesIn(new_value) /\ todo \subseteq NamesIn(new_value) /\ cur = Null
  BY <1>1, <1>2 DEF Loops
<1>4. /\ new_value[n] \in LogDefine /\ new_value[n].level \in Level
      /\ new_value[n].appenders \in Seq(LogAppenderDefine)
      /\ NamesIn(new_value) \subseteq Name /\ Null \notin Name
  BY <1>1, <1>3, Names DEF LogDefine
<1>5. NamesIn(new_value') = NamesIn(new_value) /\ NamesIn(m_val') = NamesIn(m_val)
  BY <1>2 DEF NamesIn
<1>6. CASE pc' = "crashed" /\ UNCHANGED <<m_level, cur, adds>>
  <2>1. TypeOK'
    BY <1>1, <1>2, <1>6 DEF TypeOK
  <2>2. Loops' /\ Gone' /\ Inherited' /\ RootAlone'
    BY <1>1, <1>2, <1>5, <1>6 DEF Loops, Gone, Silent, Inherited, Inherit, RootAlone, At1
  <2>3. Behind' /\ Here'
    BY <1>6 DEF Behind, Here, At1
  <2>4. Sources'
    BY <1>1, <1>2, <1>5, <1>6 DEF Sources, Loading
  <2> QED
    BY <2>1, <2>2, <2>3, <2>4 DEF LInv
<1>7. CASE /\ m_level' = [m_level EXCEPT ![n] = new_value[n].level]
           /\ cur' = n /\ adds' = new_value[n].appenders /\ pc' = "format"
  <2>1. TypeOK'
    BY <1>1, <1>2, <1>4, <1>7 DEF TypeOK
  <2>2. Loops'
    BY <1>1, <1>2, <1>3, <1>5, <1>7 DEF Loops, At1
  <2>3. m_level'[n] = new_value[n].level /\ \A m \in Name \ {n} : m_level'[m] = m_level[m]
    BY <1>1, <1>7 DEF TypeOK
  <2>4. Gone'
    <3>1. ever \subseteq Name
      BY <1>1 DEF TypeOK
    <3> QED
      BY <1>1, <1>2, <1>3, <1>5, <1>7, <2>3, <3>1 DEF Gone, Silent
  <2>5. Inherited'
    BY <1>1, <1>2, <1>7 DEF Inherited, Inherit
  <2>6. RootAlone'
    BY <1>1, <1>2, <1>3, <2>3, LogConfigAssumption DEF RootAlone, NamesIn
  <2>7. Behind'
    <3>1. ASSUME NEW m \in NamesIn(new_value) \ (todo' \cup {cur'}) PROVE Defined(m, new_value[m])'
      <4>1. m \in Name \ {n} /\ m \in NamesIn(new_value) \ (todo \cup {cur})
        BY <1>2, <1>3, <1>4, <1>7
      <4>2. Defined(m, new_value[m])
        BY <1>1, <1>2, <4>1 DEF Behind
      <4> QED
        BY <1>2, <2>3, <4>1, <4>2, DefinedKept
    <3> QED
      BY <1>2, <1>5, <3>1 DEF Behind
  <2>8. Here'
    BY <1>2, <1>7, <2>3 DEF Here, At1
  <2>9. Sources'
    BY <1>1, <1>2, <1>5, <1>7 DEF Sources, Loading
  <2> QED
    BY <2>1, <2>2, <2>4, <2>5, <2>6, <2>7, <2>8, <2>9 DEF LInv
<1> QED
  BY <1>6, <1>7 DEF Apply

LEMMA FormatKeeps ==
  ASSUME LInv, Format
  PROVE  LInv'
<1>1. TypeOK /\ Loops /\ Gone /\ Inherited /\ RootAlone /\ Behind /\ Here /\ Sources
  BY DEF LInv
<1>2. /\ pc = "format" /\ pc' = "clear"
      /\ m_formatter' = IF new_value[cur].formatter \in Pattern
                        THEN [m_formatter EXCEPT ![cur] = new_value[cur].formatter]
                        ELSE m_formatter
      /\ UNCHANGED <<m_val, new_value, m_level, m_appenders, todo, cur, adds, ever, doc>>
  BY DEF Format, Accepted
<1>3. cur \in NamesIn(new_value) /\ cur \in Name /\ todo \subseteq NamesIn(new_value) /\ cur \notin todo
  BY <1>1, <1>2, Names DEF Loops, At1
<1>4. /\ m_formatter' \in [Name -> Pattern]
      /\ new_value[cur].formatter \in Pattern => m_formatter'[cur] = new_value[cur].formatter
      /\ \A n \in Name \ {cur} : m_formatter'[n] = m_formatter[n]
  BY <1>1, <1>2, <1>3 DEF TypeOK
<1>5. NamesIn(new_value') = NamesIn(new_value) /\ NamesIn(m_val') = NamesIn(m_val)
  BY <1>2 DEF NamesIn
<1>6. TypeOK'
  BY <1>1, <1>2, <1>4 DEF TypeOK
<1>7. Loops' /\ Gone' /\ RootAlone'
  BY <1>1, <1>2, <1>5 DEF Loops, Gone, Silent, RootAlone, At1
<1>8. Inherited'
  BY <1>1, <1>2, <1>4 DEF Inherited, Inherit
<1>9. Behind'
  <2>1. ASSUME NEW n \in NamesIn(new_value) \ (todo \cup {cur}) PROVE Defined(n, new_value[n])'
    <3>1. n \in Name \ {cur} /\ Defined(n, new_value[n])
      BY <1>1, <1>2, Names DEF Behind
    <3> QED
      BY <1>2, <1>4, <3>1, DefinedKept
  <2> QED
    BY <1>2, <1>5, <2>1 DEF Behind
<1>10. Here'
  BY <1>1, <1>2, <1>4 DEF Here, SetUp, At1
<1>11. Sources'
  BY <1>1, <1>2, <1>5 DEF Sources, Loading
<1> QED
  BY <1>6, <1>7, <1>8, <1>9, <1>10, <1>11 DEF LInv

LEMMA ClearKeeps ==
  ASSUME LInv, Clear
  PROVE  LInv'
<1>1. TypeOK /\ Loops /\ Gone /\ Inherited /\ RootAlone /\ Behind /\ Here /\ Sources
  BY DEF LInv
<1>2. /\ pc = "clear" /\ pc' = "add" /\ m_appenders' = [m_appenders EXCEPT ![cur] = <<>>]
      /\ UNCHANGED <<m_val, new_value, m_level, m_formatter, todo, cur, adds, ever, doc>>
  BY DEF Clear, Cleared
<1>3. cur \in NamesIn(new_value) /\ cur \in Name /\ todo \subseteq NamesIn(new_value) /\ cur \notin todo
  BY <1>1, <1>2, Names DEF Loops, At1
<1>4. /\ m_appenders' \in [Name -> Seq(Made)] /\ m_appenders'[cur] = <<>>
      /\ \A n \in Name \ {cur} : m_appenders'[n] = m_appenders[n]
  BY <1>1, <1>2, <1>3 DEF TypeOK
<1>5. NamesIn(new_value') = NamesIn(new_value) /\ NamesIn(m_val') = NamesIn(m_val)
  BY <1>2 DEF NamesIn
<1>6. TypeOK'
  BY <1>1, <1>2, <1>4 DEF TypeOK
<1>7. Loops'
  BY <1>1, <1>2, <1>5 DEF Loops, At1
<1>8. Gone'
  <2>1. ever \subseteq Name
    BY <1>1 DEF TypeOK
  <2> QED
    BY <1>1, <1>2, <1>3, <1>4, <1>5, <2>1 DEF Gone, Silent
<1>9. Inherited'
  BY <1>1, <1>2, <1>4 DEF Inherited, Inherit
<1>10. RootAlone'
  BY <1>1, <1>2, <1>3, <1>4, LogConfigAssumption DEF RootAlone, NamesIn
<1>11. Behind'
  <2>1. ASSUME NEW n \in NamesIn(new_value) \ (todo \cup {cur}) PROVE Defined(n, new_value[n])'
    <3>1. n \in Name \ {cur} /\ Defined(n, new_value[n])
      BY <1>1, <1>2, Names DEF Behind
    <3> QED
      BY <1>2, <1>4, <3>1, DefinedKept
  <2> QED
    BY <1>2, <1>5, <2>1 DEF Behind
<1>12. Here'
  <2>1. adds = new_value[cur].appenders /\ m_level[cur] = new_value[cur].level
        /\ SetUp(cur, new_value[cur])
    BY <1>1, <1>2 DEF Here, At1
  <2>2. SetUp(cur, new_value[cur])'
    BY <1>2, <2>1 DEF SetUp
  <2>3. adds \in Seq(LogAppenderDefine)
    BY <1>1 DEF TypeOK
  <2>4. AddedOf(cur, new_value[cur], 0)'
    BY <1>2, <1>4 DEF AddedOf
  <2>5. /\ 0 \in 0..Len(new_value'[cur'].appenders)
        /\ Len(adds') = Len(new_value'[cur'].appenders) - 0
        /\ \A i \in 1..Len(adds') : adds'[i] = new_value'[cur'].appenders[0 + i]
    BY <1>2, <2>1, <2>3
  <2> QED
    BY <1>2, <2>1, <2>2, <2>4, <2>5 DEF Here, At1
<1>13. Sources'
  BY <1>1, <1>2, <1>5 DEF Sources, Loading
<1> QED
  BY <1>6, <1>7, <1>8, <1>9, <1>10, <1>11, <1>12, <1>13 DEF LInv

(* What addAppender() puts into the list.                                  *)
LEMMA MadeFromType ==
  ASSUME TypeOK, NEW n \in Name, NEW d \in LogAppenderDefine, d.type # "UNKNOWN"
  PROVE  /\ MadeFrom(d, n) \in Made
         /\ ~MadeFrom(d, n).own => MadeFrom(d, n).formatter = m_formatter[n]
<1>1. m_formatter[n] \in Pattern
  BY DEF TypeOK
<1>2. d.type \in {FileType, StdoutType} /\ d.level \in Level
  BY DEF LogAppenderDefine
<1> DEFINE own == d.formatter \in Pattern
           formatter == IF own THEN d.formatter ELSE m_formatter[n]
<1>3. own \in BOOLEAN /\ formatter \in Pattern /\ (~own => formatter = m_formatter[n])
  BY <1>1
<1>4. MadeFrom(d, n) = [type |-> d.type, level |-> d.level, own |-> own, formatter |-> formatter]
  BY DEF MadeFrom, Accepted
<1> HIDE DEF own, formatter
<1>5. MadeFrom(d, n) \in Made
  BY <1>2, <1>3, <1>4 DEF Made
<1>6. MadeFrom(d, n).own = own /\ MadeFrom(d, n).formatter = formatter
  BY <1>4
<1> QED
  BY <1>3, <1>5, <1>6

(* The next appender of the list, its end, or one of a type that is not    *)
(* known, which ends in the null pointer.                                  *)
LEMMA AddKeeps ==
  ASSUME LInv, Add
  PROVE  LInv'
<1>1. TypeOK /\ Loops /\ Gone /\ Inherited /\ RootAlone /\ Behind /\ Here /\ Sources
  BY DEF LInv
<1>2. pc = "add" /\ UNCHANGED <<m_val, new_value, m_level, m_formatter, todo, ever, doc>>
  BY DEF Add
<1>3. cur \in NamesIn(new_value) /\ cur \in Name /\ todo \subseteq NamesIn(new_value) /\ cur \notin todo
  BY <1>1, <1>2, Names DEF Loops, At1
<1>4. NamesIn(new_value') = NamesIn(new_value) /\ NamesIn(m_val') = NamesIn(m_val)
  BY <1>2 DEF NamesIn
<1>5. adds \in Seq(LogAppenderDefine) /\ new_value[cur].appenders \in Seq(LogAppenderDefine)
  BY <1>1, <1>3, Names DEF TypeOK
<1>6. SetUp(cur, new_value[cur]) /\ m_level[cur] = new_value[cur].level
  BY <1>1, <1>2 DEF Here, At1
<1>7. PICK k \in 0..Len(new_value[cur].appenders) :
        /\ AddedOf(cur, new_value[cur], k)
        /\ Len(adds) = Len(new_value[cur].appenders) - k
        /\ \A i \in 1..Len(adds) : adds[i] = new_value[cur].appenders[k + i]
  BY <1>1, <1>2 DEF Here
<1>8. CASE adds = <<>>
  <2>1. pc' = "apply" /\ cur' = Null /\ UNCHANGED <<m_appenders, adds>>
    BY <1>8 DEF Add
  <2>2. TypeOK'
    BY <1>1, <1>2, <2>1 DEF TypeOK
  <2>3. Loops' /\ Gone' /\ RootAlone'
    BY <1>1, <1>2, <1>3, <1>4, <2>1 DEF Loops, Gone, Silent, RootAlone, At1
  <2>4. Inherited'
    BY <1>1, <1>2, <2>1 DEF Inherited, Inherit
  <2>5. Behind'
    <3>1. k = Len(new_value[cur].appenders)
      BY <1>5, <1>7, <1>8
    <3>2. Defined(cur, new_value[cur])
      BY <1>6, <1>7, <3>1 DEF Defined
    <3>3. ASSUME NEW n \in NamesIn(new_value) \ todo PROVE Defined(n, new_value[n])'
      <4>1. n \in Name /\ Defined(n, new_value[n])
        BY <1>1, <1>2, <3>2, Names DEF Behind
      <4> QED
        BY <1>2, <2>1, <4>1, DefinedKept
    <3> QED
      BY <1>2, <1>4, <3>3 DEF Behind
  <2>6. Here'
    BY <2>1 DEF Here, At1
  <2>7. Sources'
    BY <1>1, <1>2, <1>4, <2>1 DEF Sources, Loading
  <2> QED
    BY <2>2, <2>3, <2>4, <2>5, <2>6, <2>7 DEF LInv
<1>9. CASE adds # <<>> /\ Head(adds).type = "UNKNOWN"
  <2>1. pc' = "crashed" /\ UNCHANGED <<m_appenders, cur, adds>>
    BY <1>9 DEF Add
  <2>2. TypeOK'
    BY <1>1, <1>2, <2>1 DEF TypeOK
  <2>3. Loops' /\ Gone' /\ RootAlone'
    BY <1>1, <1>2, <1>4, <2>1 DEF Loops, Gone, Silent, RootAlone, At1
  <2>4. Inherited'
    BY <1>1, <1>2, <2>1 DEF Inherited, Inherit
  <2>5. Behind' /\ Here'
    BY <2>1 DEF Behind, Here, At1
  <2>6. Sources'
    BY <1>1, <1>2, <1>4, <2>1 DEF Sources, Loading
  <2> QED
    BY <2>2, <2>3, <2>4, <2>5, <2>6 DEF LInv
<1>10. CASE adds # <<>> /\ Head(adds).type # "UNKNOWN"
  <2> DEFINE made == MadeFrom(Head(adds), cur)
             old  == m_appenders[cur]
             new  == m_appenders'[cur]
             want == new_value[cur].appenders
  <2>1. /\ m_appenders' = [m_appenders EXCEPT ![cur] = Append(@, made)]
        /\ adds' = Tail(adds) /\ UNCHANGED <<pc, cur>>
    BY <1>10 DEF Add
  <2>2. Head(adds) \in LogAppenderDefine /\ Len(adds) >= 1 /\ Head(adds) = adds[1]
    BY <1>5, <1>10
  <2>3. made \in Made /\ (~made.own => made.formatter = m_formatter[cur])
    BY <1>1, <1>3, <1>10, <2>2, MadeFromType
  <2>4. old \in Seq(Made)
    BY <1>1, <1>3 DEF TypeOK
  <2>5. /\ m_appenders' \in [Name -> Seq(Made)] /\ new = Append(old, made)
        /\ \A n \in Name \ {cur} : m_appenders'[n] = m_appenders[n]
    <3> HIDE DEF made
    <3> QED
      BY <1>1, <1>3, <2>1, <2>3, <2>4 DEF TypeOK
  <2>6. /\ Len(new) = Len(old) + 1 /\ new[Len(old) + 1] = made
        /\ \A i \in 1..Len(old) : new[i] = old[i]
        /\ DOMAIN new = 1..(Len(old) + 1) /\ DOMAIN old = 1..Len(old) /\ Len(old) \in Nat
    <3> HIDE DEF made, new, old
    <3> QED
      BY <2>3, <2>4, <2>5
  <2>7. TypeOK'
    <3>1. Tail(adds) \in Seq(LogAppenderDefine)
      BY <1>5, <1>10
    <3> QED
      BY <1>1, <1>2, <2>1, <2>5, <3>1 DEF TypeOK
  <2>8. Loops'
    BY <1>1, <1>2, <1>4, <2>1 DEF Loops, At1
  <2>9. Gone'
    <3>1. ever \subseteq Name
      BY <1>1 DEF TypeOK
    <3> QED
      BY <1>1, <1>2, <1>3, <1>4, <2>1, <2>5, <3>1 DEF Gone, Silent
  <2>10. Inherited'
    <3>1. ASSUME NEW n \in Name PROVE Inherit(n)'
      <4>1. CASE n # cur
        BY <1>1, <1>2, <2>1, <2>5, <4>1 DEF Inherited, Inherit
      <4>2. CASE n = cur
        <5>1. \A i \in DOMAIN old : ~old[i].own => old[i].formatter = m_formatter[cur]
          BY <1>1, <1>2, <1>3 DEF Inherited, Inherit
        <5>2. ASSUME NEW i \in DOMAIN new, ~new[i].own PROVE new[i].formatter = m_formatter[cur]
          <6>1. i = Len(old) + 1 \/ i \in 1..Len(old)
            <7> HIDE DEF old, new
            <7> QED
              BY <2>6
          <6>2. CASE i = Len(old) + 1
            BY <2>3, <2>6, <5>2, <6>2
          <6>3. CASE i \in 1..Len(old)
            BY <2>6, <5>1, <5>2, <6>3
          <6> QED
            BY <6>1, <6>2, <6>3
        <5> QED
          BY <1>2, <2>1, <4>2, <5>2 DEF Inherit
      <4> QED
        BY <4>1, <4>2
    <3> QED
      BY <3>1 DEF Inherited
  <2>11. RootAlone'
    BY <1>1, <1>2, <1>3, <2>5, LogConfigAssumption DEF RootAlone, NamesIn
  <2>12. Behind'
    <3>1. ASSUME NEW n \in NamesIn(new_value) \ (todo \cup {cur}) PROVE Defined(n, new_value[n])'
      <4>1. n \in Name \ {cur} /\ Defined(n, new_value[n])
        BY <1>1, <1>2, Names DEF Behind
      <4> QED
        BY <1>2, <2>5, <4>1, DefinedKept
    <3> QED
      BY <1>2, <1>4, <2>1, <3>1 DEF Behind
  <2>13. Here'
    <3>1. k + 1 \in 0..Len(want) /\ k \in Nat /\ Len(adds) = Len(want) - k
      BY <1>5, <1>7, <2>2
    <3>2. Head(adds) = want[k + 1]
      BY <1>7, <2>2
    <3>3. Len(old) = k /\ \A i \in 1..k : old[i] = MadeFrom(want[i], cur) /\ want[i].type # "UNKNOWN"
      BY <1>7 DEF AddedOf
    <3>4. \A x, n : MadeFrom(x, n)' = MadeFrom(x, n)
      BY <1>2 DEF MadeFrom
    <3>5. ASSUME NEW i \in 1..(k + 1) PROVE new[i] = MadeFrom(want[i], cur) /\ want[i].type # "UNKNOWN"
      <4>1. i \in 1..k \/ i = k + 1
        BY <3>1
      <4>2. CASE i \in 1..k
        BY <2>6, <3>3, <4>2
      <4>3. CASE i = k + 1
        BY <1>10, <2>6, <3>2, <3>3, <4>3
      <4> QED
        BY <4>1, <4>2, <4>3
    <3>6. AddedOf(cur, new_value[cur], k + 1)'
      <4>1. Len(new) = k + 1
        BY <2>6, <3>3
      <4> QED
        BY <1>2, <2>1, <3>4, <3>5, <4>1 DEF AddedOf
    <3>7. /\ Len(Tail(adds)) = Len(want) - (k + 1)
          /\ \A i \in 1..Len(Tail(adds)) : Tail(adds)[i] = want[(k + 1) + i]
      <4>1. Len(Tail(adds)) = Len(adds) - 1
            /\ \A i \in 1..Len(Tail(adds)) : Tail(adds)[i] = adds[i + 1]
        BY <1>5, <1>10
      <4>2. Len(want) \in Nat /\ Len(adds) \in Nat
        BY <1>5
      <4>3. Len(Tail(adds)) = Len(want) - (k + 1)
        BY <3>1, <4>1, <4>2
      <4>4. ASSUME NEW i \in 1..Len(Tail(adds)) PROVE Tail(adds)[i] = want[(k + 1) + i]
        <5>1. i + 1 \in 1..Len(adds) /\ k + (i + 1) = (k + 1) + i
          <6>1. \A p, q \in Nat : \A j \in 1..p :
                  p = q - 1 => j + 1 \in 1..q /\ k + (j + 1) = (k + 1) + j
            BY <3>1
          <6>2. Len(Tail(adds)) \in Nat
            BY <1>5, <1>10
          <6> QED
            BY <4>1, <4>2, <6>1, <6>2
        <5>2. adds[i + 1] = want[k + (i + 1)]
          BY <1>7, <5>1
        <5> QED
          BY <4>1, <5>1, <5>2
      <4> QED
        BY <4>3, <4>4
    <3>8. SetUp(cur, new_value[cur])'
      BY <1>2, <1>6, <2>1 DEF SetUp
    <3> HIDE DEF new, old
    <3> QED
      BY <1>2, <1>6, <2>1, <3>1, <3>6, <3>7, <3>8 DEF Here, At1
  <2>14. Sources'
    BY <1>1, <1>2, <1>4, <2>1 DEF Sources, Loading
  <2> QED
    BY <2>7, <2>8, <2>9, <2>10, <2>11, <2>12, <2>13, <2>14 DEF LInv
<1> QED
  BY <1>8, <1>9, <1>10

LEMMA EndApplyKeeps ==
  ASSUME LInv, EndApply
  PROVE  LInv'
<1>1. TypeOK /\ Loops /\ Gone /\ Inherited /\ RootAlone /\ Behind /\ Here /\ Sources
  BY DEF LInv
<1>2. /\ pc = "apply" /\ todo = {} /\ todo' = NamesIn(m_val) \ NamesIn(new_value) /\ pc' = "remove"
      /\ UNCHANGED <<m_val, new_value, m_level, m_formatter, m_appenders, cur, adds, ever, doc>>
  BY DEF EndApply, loggerVars
<1>3. NamesIn(new_value') = NamesIn(new_value) /\ NamesIn(m_val') = NamesIn(m_val)
  BY <1>2 DEF NamesIn
<1>4. TypeOK'
  BY <1>1, <1>2, Names DEF TypeOK
<1>5. Loops' /\ Gone' /\ RootAlone'
  BY <1>1, <1>2, <1>3 DEF Loops, Gone, Silent, RootAlone, At1
<1>6. Inherited'
  BY <1>1, <1>2 DEF Inherited, Inherit
<1>7. Behind'
  <2>1. ASSUME NEW n \in NamesIn(new_value) \ {cur} PROVE Defined(n, new_value[n])'
    <3>1. n \in Name /\ Defined(n, new_value[n])
      BY <1>1, <1>2, Names DEF Behind
    <3> QED
      BY <1>2, <3>1, DefinedKept
  <2> QED
    BY <1>2, <1>3, <2>1 DEF Behind
<1>8. Here'
  BY <1>2 DEF Here, At1
<1>9. Sources'
  BY <1>1, <1>2, <1>3 DEF Sources, Loading
<1> QED
  BY <1>4, <1>5, <1>6, <1>7, <1>8, <1>9 DEF LInv

LEMMA RemoveKeeps ==
  ASSUME LInv, NEW n \in Name, Remove(n)
  PROVE  LInv'
<1>1. TypeOK /\ Loops /\ Gone /\ Inherited /\ RootAlone /\ Behind /\ Here /\ Sources
  BY DEF LInv
<1>2. /\ pc = "remove" /\ n \in todo /\ todo' = todo \ {n}
      /\ m_level' = [m_level EXCEPT ![n] = REMOVED] /\ cur' = n /\ pc' = "drop"
      /\ UNCHANGED <<m_val, new_value, m_formatter, m_appenders, adds, ever, doc>>
  BY DEF Remove
<1>3. /\ n \in NamesIn(m_val) \ NamesIn(new_value) /\ NamesIn(m_val) \subseteq ever
      /\ todo \subseteq NamesIn(m_val) \ NamesIn(new_value)
  BY <1>1, <1>2 DEF Loops
<1>4. NamesIn(new_value') = NamesIn(new_value) /\ NamesIn(m_val') = NamesIn(m_val)
  BY <1>2 DEF NamesIn
<1>5. /\ m_level'[n] = REMOVED
      /\ \A m \in Name \ {n} : m_level'[m] = m_level[m] /\ m_appenders'[m] = m_appenders[m]
  BY <1>1, <1>2 DEF TypeOK
<1>6. TypeOK'
  BY <1>1, <1>2 DEF TypeOK
<1>7. Loops'
  BY <1>1, <1>2, <1>4 DEF Loops, At1
<1>8. Gone'
  <2>1. ever \subseteq Name /\ NamesIn(m_val) \subseteq Name
    BY <1>1, Names DEF TypeOK
  <2> QED
    BY <1>1, <1>2, <1>3, <1>4, <1>5, <2>1 DEF Gone, Silent
<1>9. Inherited'
  BY <1>1, <1>2, <1>5 DEF Inherited, Inherit
<1>10. RootAlone'
  BY <1>1, <1>2, <1>3, <1>5, LogConfigAssumption DEF RootAlone
<1>11. Behind'
  <2>1. ASSUME NEW m \in NamesIn(new_value) \ (todo' \cup {n}) PROVE Defined(m, new_value[m])'
    <3>1. m \in Name \ {n} /\ m # cur /\ Defined(m, new_value[m])
      BY <1>1, <1>2, <1>3, Names, LogConfigAssumption DEF Behind, Loops
    <3> QED
      BY <1>2, <1>5, <3>1, DefinedKept
  <2> QED
    BY <1>2, <1>4, <2>1 DEF Behind
<1>12. Here'
  BY <1>2 DEF Here, At1
<1>13. Sources'
  BY <1>1, <1>2, <1>4 DEF Sources, Loading
<1> QED
  BY <1>6, <1>7, <1>8, <1>9, <1>10, <1>11, <1>12, <1>13 DEF LInv

LEMMA RemoveClearKeeps ==
  ASSUME LInv, RemoveClear
  PROVE  LInv'
<1>1. TypeOK /\ Loops /\ Gone /\ Inherited /\ RootAlone /\ Behind /\ Here /\ Sources
  BY DEF LInv
<1>2. /\ pc = "drop" /\ cur' = Null /\ pc' = "remove"
      /\ m_appenders' = [m_appenders EXCEPT ![cur] = <<>>]
      /\ UNCHANGED <<m_val, new_value, m_level, m_formatter, todo, adds, ever, doc>>
  BY DEF RemoveClear, Cleared
<1>3. /\ cur \in NamesIn(m_val) \ (NamesIn(new_value) \cup todo) /\ NamesIn(m_val) \subseteq ever
      /\ todo \subseteq NamesIn(m_val) \ NamesIn(new_value)
  BY <1>1, <1>2 DEF Loops
<1>4. NamesIn(new_value') = NamesIn(new_value) /\ NamesIn(m_val') = NamesIn(m_val)
  BY <1>2 DEF NamesIn
<1>5. /\ m_level'[cur] = REMOVED /\ m_appenders'[cur] = <<>>
      /\ \A m \in Name \ {cur} : m_level'[m] = m_level[m] /\ m_appenders'[m] = m_appenders[m]
      /\ m_appenders' \in [Name -> Seq(Made)]
  <2>1. cur \in Name /\ m_level[cur] = REMOVED
    BY <1>1, <1>2, <1>3, Names DEF Gone
  <2> QED
    BY <1>1, <1>2, <2>1 DEF TypeOK
<1>6. TypeOK'
  BY <1>1, <1>2, <1>5 DEF TypeOK
<1>7. Loops'
  BY <1>1, <1>2, <1>4 DEF Loops, At1
<1>8. Gone'
  <2>1. ever \subseteq Name /\ NamesIn(m_val) \subseteq Name
    BY <1>1, Names DEF TypeOK
  <2> QED
    BY <1>1, <1>2, <1>3, <1>4, <1>5, <2>1 DEF Gone, Silent
<1>9. Inherited'
  BY <1>1, <1>2, <1>5 DEF Inherited, Inherit
<1>10. RootAlone'
  BY <1>1, <1>2, <1>3, <1>5, LogConfigAssumption DEF RootAlone
<1>11. Behind'
  <2>1. ASSUME NEW m \in NamesIn(new_value) \ todo PROVE Defined(m, new_value[m])'
    <3>1. m \in Name \ {cur} /\ Defined(m, new_value[m])
      BY <1>1, <1>2, <1>3, Names DEF Behind
    <3> QED
      BY <1>2, <1>5, <3>1, DefinedKept
  <2> QED
    BY <1>2, <1>4, <2>1 DEF Behind
<1>12. Here'
  BY <1>2 DEF Here, At1
<1>13. Sources'
  BY <1>1, <1>2, <1>4 DEF Sources, Loading
<1> QED
  BY <1>6, <1>7, <1>8, <1>9, <1>10, <1>11, <1>12, <1>13 DEF LInv

LEMMA StoreKeeps ==
  ASSUME LInv, Store
  PROVE  LInv'
<1>1. TypeOK /\ Loops /\ Gone /\ Inherited /\ RootAlone /\ Behind /\ Here /\ Sources
  BY DEF LInv
<1>2. /\ pc = "remove" /\ todo = {} /\ m_val' = new_value /\ ever' = ever \cup NamesIn(new_value)
      /\ pc' = "idle"
      /\ UNCHANGED <<new_value, m_level, m_formatter, m_appenders, todo, cur, adds, doc>>
  BY DEF Store, loggerVars
<1>3. NamesIn(new_value') = NamesIn(new_value) /\ NamesIn(m_val') = NamesIn(new_value)
  BY <1>2 DEF NamesIn
<1>4. TypeOK'
  BY <1>1, <1>2, Names DEF TypeOK
<1>5. Loops'
  BY <1>1, <1>2, <1>3 DEF Loops, At1
<1>6. Gone'
  BY <1>1, <1>2, <1>3 DEF Gone, Silent
<1>7. Inherited' /\ RootAlone'
  BY <1>1, <1>2 DEF Inherited, Inherit, RootAlone
<1>8. Behind'
  <2>1. ASSUME NEW n \in NamesIn(new_value) \ (todo \cup {cur}) PROVE Defined(n, new_value[n])'
    <3>1. n \in Name /\ Defined(n, new_value[n])
      BY <1>1, <1>2, Names DEF Behind
    <3> QED
      BY <1>2, <3>1, DefinedKept
  <2> QED
    BY <1>2, <1>3, <2>1 DEF Behind
<1>9. Here'
  BY <1>2 DEF Here, At1
<1>10. Sources'
  <2>1. doc \in Document /\ Converts(doc) /\ new_value = Cast(doc)
    BY <1>1, <1>2 DEF Sources, Loading
  <2>2. \A v : SameValue(v, v)
    BY DEF SameValue, SameDefine
  <2> QED
    BY <1>2, <1>3, <2>1, <2>2 DEF Sources, Loading
<1> QED
  BY <1>4, <1>5, <1>6, <1>7, <1>8, <1>9, <1>10 DEF LInv

LEMMA InitLInv ==
  ASSUME Init
  PROVE  LInv
<1>1. Root \in Name /\ Std \in Pattern
  BY LogConfigAssumption
<1>2. /\ m_val = [n \in Name |-> Null] /\ new_value = m_val
      /\ m_level = [n \in Name |-> DEBUG] /\ m_formatter = [n \in Name |-> Std]
      /\ m_appenders = [n \in Name |-> IF n = Root THEN <<RootAppender>> ELSE <<>>]
      /\ pc = "idle" /\ todo = {} /\ cur = Null /\ adds = <<>> /\ ever = {} /\ doc = Null
  BY DEF Init
<1>3. NamesIn(m_val) = {} /\ NamesIn(new_value) = {}
  BY <1>2 DEF NamesIn
<1>4. DEBUG \in Level
  BY Levels DEF DEBUG
<1>5. RootAppender \in Made
  BY <1>1, <1>4 DEF RootAppender, Made
<1>6. \A n \in Name : m_appenders[n] \in Seq(Made)
  BY <1>2, <1>5
<1>7. TypeOK
  BY <1>1, <1>2, <1>4, <1>6 DEF TypeOK, Value
<1>8. Inherited
  <2>1. ASSUME NEW n \in Name, NEW i \in DOMAIN m_appenders[n]
        PROVE  m_appenders[n][i] = RootAppender
    <3>1. CASE n = Root
      BY <1>2, <2>1, <3>1
    <3>2. CASE n # Root
      BY <1>2, <2>1, <3>2
    <3> QED
      BY <3>1, <3>2
  <2>2. RootAppender.formatter = Std
    BY DEF RootAppender
  <2> QED
    BY <1>2, <2>1, <2>2 DEF Inherited, Inherit
<1>9. RootAlone
  BY <1>1, <1>2 DEF RootAlone
<1>10. Loops /\ Gone /\ Behind /\ Here /\ Sources
  BY <1>2, <1>3 DEF Loops, Gone, Behind, Here, Sources, At1, Loading
<1> QED
  BY <1>7, <1>8, <1>9, <1>10 DEF LInv

LEMMA NextKeeps ==
  ASSUME LInv, [Next]_vars
  PROVE  LInv'
<1>1. CASE UNCHANGED vars
  <2>1. UNCHANGED <<m_val, new_value, m_level, m_formatter, m_appenders, pc, todo, cur, adds, ever, doc>>
    BY <1>1 DEF vars, loggerVars
  <2>2. \A n, d, k : (AddedOf(n, d, k)' <=> AddedOf(n, d, k)) /\ (SetUp(n, d)' <=> SetUp(n, d))
    BY <2>1 DEF AddedOf, SetUp, MadeFrom
  <2>3. TypeOK' /\ Loops' /\ Gone' /\ Inherited' /\ RootAlone' /\ Sources'
    BY <2>1 DEF LInv, TypeOK, Loops, Gone, Silent, Inherited, Inherit, RootAlone, Sources, NamesIn
  <2>4. Behind' /\ Here'
    BY <2>1, <2>2 DEF LInv, Behind, Defined, Here, NamesIn
  <2> QED
    BY <2>3, <2>4 DEF LInv
<1> QED
  BY <1>1, LoadKeeps, ApplyKeeps, RemoveKeeps, FormatKeeps, ClearKeeps, AddKeeps,
     EndApplyKeeps, RemoveClearKeeps, StoreKeeps DEF Next

LEMMA LInvAlways == Spec => []LInv
BY InitLInv, NextKeeps, PTL DEF Spec

-----------------------------------------------------------------------------
(* What it gives                                                           *)

(* Every variable has its type (log.cpp:818-879): a load stores only       *)
(* definitions, and hands a logger only patterns without an error.         *)
THEOREM TypesAlways == Spec => []TypeOK
<1>1. LInv => TypeOK
  BY DEF LInv
<1> QED
  BY LInvAlways, <1>1, PTL

(* log.cpp:869-877: between two loads a logger that has left the           *)
(* configuration has the level 100 and no appender, whatever documents     *)
(* were loaded and however often it came and went.                         *)
THEOREM RemovedSilentAlways == Spec => []RemovedSilent
<1>1. LInv => RemovedSilent
  <2>1. SUFFICES ASSUME LInv, pc = "idle", NEW n \in ever \ NamesIn(m_val)
                 PROVE  m_level[n] = REMOVED /\ m_appenders[n] = <<>>
    BY DEF RemovedSilent
  <2>2. new_value = m_val
    BY <2>1 DEF LInv, Loops
  <2> QED
    BY <2>1, <2>2 DEF LInv, Gone, Silent
<1> QED
  BY LInvAlways, <1>1, PTL

(* log.cpp:841-866 with Logger::log(), log.cpp:412-424: while no document  *)
(* defines the root logger, a FATAL event of a logger that is not removed  *)
(* is written at every step of a load, by an appender of its own or by the *)
(* root logger's.                                                          *)
THEOREM FatalWrittenAlways == Spec => []FatalWritten
<1>1. LInv => FatalWritten
  <2>1. SUFFICES ASSUME LInv, Root \notin ever, new_value[Root] = Null,
                        NEW n \in Name, m_level[n] # REMOVED
                 PROVE  Writes(n, FATAL)
    BY DEF FatalWritten
  <2>2. Root \in Name /\ m_level[Root] = DEBUG /\ m_appenders[Root] = <<RootAppender>>
    BY <2>1, LogConfigAssumption DEF LInv, RootAlone
  <2>3. \A l \in Level : FATAL >= l
    BY Levels
  <2>4. m_level[n] \in Level /\ m_appenders[n] \in Seq(Made) /\ DEBUG \in Level
    BY <2>1, Levels DEF LInv, TypeOK, DEBUG
  <2>5. CASE m_appenders[n] = <<>>
    <3>1. 1 \in DOMAIN m_appenders[Root] /\ m_appenders[Root][1].level = DEBUG
      BY <2>2 DEF RootAppender
    <3> QED
      BY <2>2, <2>3, <2>4, <2>5, <3>1 DEF Writes
  <2>6. CASE m_appenders[n] # <<>>
    <3>1. 1 \in DOMAIN m_appenders[n] /\ m_appenders[n][1] \in Made
      BY <2>4, <2>6
    <3>2. m_appenders[n][1].level \in Level
      BY <3>1 DEF Made
    <3> QED
      BY <2>3, <2>4, <2>6, <3>1, <3>2 DEF Writes
  <2> QED
    BY <2>5, <2>6
<1> QED
  BY LInvAlways, <1>1, PTL

(* Between two loads the loggers are as the value says.                    *)
LEMMA ValueInEffect ==
  ASSUME LInv, pc = "idle", NEW n \in NamesIn(m_val)
  PROVE  Defined(n, m_val[n]) /\ n \in Name /\ m_val[n] \in LogDefine
<1>1. n \in Name /\ m_val[n] \in LogDefine /\ Null \notin Name
  BY Names DEF LInv
<1>2. new_value = m_val /\ todo = {} /\ cur = Null
  BY DEF LInv, Loops
<1>3. n # Null
  BY <1>1
<1> QED
  BY <1>1, <1>2, <1>3 DEF LInv, Behind

(* An appender, written and read again.                                    *)
LEMMA AppenderBack ==
  ASSUME NEW type \in {FileType, StdoutType}, NEW level \in Level, NEW formatter \in Patterns
  PROVE  \A node : node = [type |-> type, file |-> type = FileType,
                           level |-> LevelIfKnown(level), formatter |-> formatter] =>
           /\ Kept(node)
           /\ CastAppender(node) = [type |-> type, level |-> level, formatter |-> formatter]
<1> SUFFICES ASSUME NEW node, node = [type |-> type, file |-> type = FileType,
                                      level |-> LevelIfKnown(level), formatter |-> formatter]
             PROVE  /\ Kept(node)
                    /\ CastAppender(node) = [type |-> type, level |-> level, formatter |-> formatter]
  OBVIOUS
<1>1. /\ node.type = type /\ (node.file <=> type = FileType)
      /\ node.level = LevelIfKnown(level) /\ node.formatter = formatter
  OBVIOUS
<1>2. FromString(LevelIfKnown(level)) = level
  BY LevelBack
<1>3. Kept(node)
  BY <1>1, LogConfigAssumption DEF Kept
<1>4. CastAppender(node) = [type |-> type, level |-> level, formatter |-> formatter]
  BY <1>1, <1>2 DEF CastAppender
<1> QED
  BY <1>3, <1>4

(* log.cpp:715-814: between two loads the value of `logs` is written to    *)
(* text that converts to it again, for every level, formatter and list of  *)
(* appenders.  It holds because the listener has been through all of them: *)
(* an appender of a type that is not known, which is not written, ends it  *)
(* before the value is stored.                                             *)
THEOREM ValueRoundTripsAlways == Spec => []ValueRoundTrips
<1>1. LInv => ValueRoundTrips
  <2>1. SUFFICES ASSUME LInv, pc = "idle", NEW n \in NamesIn(m_val)
                 PROVE  CastDefine(Uncast(n, m_val[n])) = m_val[n]
    BY DEF ValueRoundTrips
  <2>2. PICK d : d = m_val[n]
    OBVIOUS
  <2>3. d \in LogDefine /\ Defined(n, d)
    BY <2>1, <2>2, ValueInEffect
  <2>4. /\ d.level \in Level /\ d.appenders \in Seq(LogAppenderDefine)
        /\ d = [level |-> d.level, formatter |-> d.formatter, appenders |-> d.appenders]
    BY <2>3 DEF LogDefine
  <2>5. \A i \in 1..Len(d.appenders) : d.appenders[i].type # "UNKNOWN"
    BY <2>3 DEF Defined, AddedOf
  <2> DEFINE nodes == [i \in DOMAIN d.appenders |->
               [type |-> IF d.appenders[i].type = "UNKNOWN" THEN Null ELSE d.appenders[i].type,
                file |-> d.appenders[i].type = FileType,
                level |-> LevelIfKnown(d.appenders[i].level),
                formatter |-> d.appenders[i].formatter]]
  <2>6. ASSUME NEW i \in DOMAIN d.appenders
        PROVE  Kept(nodes[i]) /\ CastAppender(nodes[i]) = d.appenders[i]
    <3>1. PICK a : a = d.appenders[i]
      OBVIOUS
    <3>2. a \in LogAppenderDefine /\ a.type # "UNKNOWN"
      BY <2>4, <2>5, <2>6, <3>1
    <3>3. /\ a.type \in {FileType, StdoutType} /\ a.level \in Level /\ a.formatter \in Patterns
          /\ a = [type |-> a.type, level |-> a.level, formatter |-> a.formatter]
      BY <3>2 DEF LogAppenderDefine
    <3>4. nodes[i] = [type |-> a.type, file |-> a.type = FileType,
                      level |-> LevelIfKnown(a.level), formatter |-> a.formatter]
      BY <3>1, <3>2
    <3> HIDE DEF nodes
    <3> QED
      BY <3>1, <3>3, <3>4, AppenderBack
  <2>7. DOMAIN nodes = DOMAIN d.appenders
    OBVIOUS
  <2>8. Uncast(n, d).level = ToString(d.level) /\ Uncast(n, d).formatter = d.formatter
        /\ Uncast(n, d).appenders = nodes
    BY DEF Uncast
  <2> HIDE DEF nodes
  <2>9. DOMAIN d.appenders = 1..Len(d.appenders) /\ Len(d.appenders) \in Nat
    BY <2>4
  <2>10. nodes \in Seq({nodes[i] : i \in DOMAIN nodes})
    <3>1. nodes = [i \in 1..Len(d.appenders) |-> nodes[i]]
      BY <2>7, <2>9 DEF nodes
    <3> QED
      BY <2>6, <2>9, <3>1
  <2>11. CastAppenders(nodes) = d.appenders
    <3>1. CastAppenders(nodes) = [i \in DOMAIN nodes |-> CastAppender(nodes[i])]
      BY <2>6, <2>7, <2>10, CastAppendersAll
    <3>2. d.appenders = [i \in DOMAIN d.appenders |-> d.appenders[i]]
      BY <2>4
    <3> QED
      BY <2>6, <2>7, <3>1, <3>2
  <2>12. FromString(ToString(d.level)) = d.level
    BY <2>4, LevelBack
  <2> QED
    BY <2>2, <2>4, <2>8, <2>11, <2>12 DEF CastDefine
<1> QED
  BY LInvAlways, <1>1, PTL

(* log.cpp:501-616: between two loads what toYamlString() writes of a      *)
(* logger defines it again as it is.  An appender without a formatter of   *)
(* its own is written without one, and has the logger's (Inherited).       *)
THEOREM DumpDefinesAlways == Spec => []DumpDefines
<1>1. LInv => DumpDefines
  <2>1. SUFFICES ASSUME LInv, pc = "idle", NEW n \in Name
                 PROVE  LET d == CastDefine(ToYamlString(n)) IN
                          /\ d.level = IF m_level[n] = REMOVED THEN UNKNOWN ELSE m_level[n]
                          /\ d.formatter = m_formatter[n]
                          /\ [i \in DOMAIN d.appenders |-> MadeFrom(d.appenders[i], n)] = m_appenders[n]
    BY DEF DumpDefines
  <2>2. PICK s : s = m_appenders[n]
    OBVIOUS
  <2>3. /\ s \in Seq(Made) /\ m_formatter[n] \in Pattern
        /\ m_level[n] \in Level \cup {REMOVED}
    BY <2>1, <2>2 DEF LInv, TypeOK
  <2>4. \A i \in DOMAIN s : ~s[i].own => s[i].formatter = m_formatter[n]
    BY <2>1, <2>2 DEF LInv, Inherited, Inherit
  <2> DEFINE nodes == [i \in DOMAIN s |->
               [type |-> s[i].type, file |-> s[i].type = FileType,
                level |-> LevelIfKnown(s[i].level), formatter |-> OwnFormatter(s[i])]]
             y == ToYamlString(n)
  <2>5. y.level = ToString(m_level[n]) /\ y.formatter = m_formatter[n] /\ y.appenders = nodes
    BY <2>2 DEF ToYamlString
  <2>6. ASSUME NEW i \in DOMAIN s
        PROVE  /\ Kept(nodes[i])
               /\ MadeFrom(CastAppender(nodes[i]), n) = s[i]
    <3>1. PICK a : a = s[i]
      OBVIOUS
    <3>2. a \in Made
      BY <2>3, <2>6, <3>1
    <3>3. /\ a.type \in {FileType, StdoutType} /\ a.level \in Level /\ a.formatter \in Pattern
          /\ a.own \in BOOLEAN
          /\ a = [type |-> a.type, level |-> a.level, formatter |-> a.formatter, own |-> a.own]
      BY <3>2 DEF Made
    <3>4. ~a.own => a.formatter = m_formatter[n]
      BY <2>4, <3>1
    <3>5. PICK f : f = OwnFormatter(a)
      OBVIOUS
    <3>6. /\ f \in Patterns /\ (a.own => f = a.formatter) /\ (~a.own => f = Null)
          /\ (f \in Pattern <=> a.own)
      BY <3>3, <3>5, LogConfigAssumption DEF OwnFormatter, Patterns
    <3>7. nodes[i] = [type |-> a.type, file |-> a.type = FileType,
                      level |-> LevelIfKnown(a.level), formatter |-> f]
      BY <3>1, <3>5
    <3> HIDE DEF nodes
    <3>8. /\ Kept(nodes[i])
          /\ CastAppender(nodes[i]) = [type |-> a.type, level |-> a.level, formatter |-> f]
      BY <3>3, <3>6, <3>7, AppenderBack
    <3>9. MadeFrom(CastAppender(nodes[i]), n) =
            [type |-> a.type, level |-> a.level, own |-> f \in Pattern,
             formatter |-> IF f \in Pattern THEN f ELSE m_formatter[n]]
      BY <3>8 DEF MadeFrom, Accepted
    <3>10. (IF f \in Pattern THEN f ELSE m_formatter[n]) = a.formatter /\ (f \in Pattern) = a.own
      BY <3>3, <3>4, <3>6
    <3> QED
      BY <3>1, <3>3, <3>8, <3>9, <3>10
  <2>7. DOMAIN nodes = DOMAIN s /\ nodes \in Seq({nodes[i] : i \in DOMAIN nodes})
    <3>1. DOMAIN s = 1..Len(s) /\ Len(s) \in Nat
      BY <2>3
    <3>2. DOMAIN nodes = DOMAIN s /\ nodes = [i \in 1..Len(s) |-> nodes[i]]
      BY <3>1
    <3> HIDE DEF nodes
    <3> QED
      BY <2>6, <3>1, <3>2
  <2> HIDE DEF nodes, y
  <2>8. CastAppenders(nodes) = [i \in DOMAIN s |-> CastAppender(nodes[i])]
    BY <2>6, <2>7, CastAppendersAll
  <2>9. /\ CastDefine(y).level = FromString(ToString(m_level[n]))
        /\ CastDefine(y).formatter = m_formatter[n]
        /\ CastDefine(y).appenders = CastAppenders(nodes)
    BY <2>5 DEF CastDefine
  <2>10. s = [i \in DOMAIN s |-> MadeFrom(CastAppenders(nodes)[i], n)]
    <3>1. s = [i \in DOMAIN s |-> s[i]]
      BY <2>3
    <3>2. \A i \in DOMAIN s : MadeFrom(CastAppenders(nodes)[i], n) = s[i]
      BY <2>6, <2>8
    <3> QED
      BY <3>1, <3>2
  <2>11. DOMAIN CastAppenders(nodes) = DOMAIN s
    BY <2>8
  <2>12. FromString(ToString(m_level[n])) = IF m_level[n] = REMOVED THEN UNKNOWN ELSE m_level[n]
    <3>1. \A l \in Level : l # REMOVED
      BY Levels DEF REMOVED
    <3> QED
      BY <2>3, <3>1, LevelBack
  <2> QED
    BY <2>2, <2>9, <2>10, <2>11, <2>12 DEF y
<1> QED
  BY LInvAlways, <1>1, PTL

(* README.md:139-153 and log.cpp:822-867: after a load every logger of the *)
(* document has the level, the formatter and the appenders it lists.  The  *)
(* documents must differ in a level or a formatter: operator== does not    *)
(* compare appenders (log.cpp:710-715), and a document that changes only   *)
(* those has no effect.                                                    *)
THEOREM ConfigTakesEffectAlways ==
  ASSUME Distinguished
  PROVE  Spec => []ConfigTakesEffect
<1>1. LInv => ConfigTakesEffect
  <2>1. SUFFICES ASSUME LInv, pc = "idle", doc # Null, NEW n \in NamesIn(Cast(doc))
                 PROVE  LET d == Cast(doc)[n] IN
                          /\ m_level[n] = d.level
                          /\ d.formatter \in Pattern => m_formatter[n] = d.formatter
                          /\ m_appenders[n] = [i \in DOMAIN d.appenders |-> MadeFrom(d.appenders[i], n)]
    BY DEF ConfigTakesEffect
  <2>2. /\ doc \in Document /\ Converts(doc) /\ SameValue(Cast(doc), m_val)
        /\ NamesIn(m_val) = {} \/ \E e \in Document : Converts(e) /\ m_val = Cast(e)
    BY <2>1 DEF LInv, TypeOK, Sources
  <2>3. n \in NamesIn(m_val)
    BY <2>1, <2>2 DEF SameValue
  <2>4. Cast(doc) = m_val
    BY <2>2, <2>3 DEF Distinguished
  <2>5. PICK d : d = m_val[n]
    OBVIOUS
  <2>6. Defined(n, d) /\ n \in Name /\ d \in LogDefine
    BY <2>1, <2>3, <2>5, ValueInEffect
  <2>7. d.appenders \in Seq(LogAppenderDefine) /\ m_appenders[n] \in Seq(Made)
    BY <2>1, <2>6 DEF LInv, TypeOK, LogDefine
  <2>8. m_appenders[n] = [i \in DOMAIN d.appenders |-> MadeFrom(d.appenders[i], n)]
    <3>1. Len(m_appenders[n]) = Len(d.appenders)
          /\ \A i \in 1..Len(d.appenders) : m_appenders[n][i] = MadeFrom(d.appenders[i], n)
      BY <2>6 DEF Defined, AddedOf
    <3>2. DOMAIN m_appenders[n] = DOMAIN d.appenders /\ DOMAIN d.appenders = 1..Len(d.appenders)
          /\ m_appenders[n] = [i \in DOMAIN m_appenders[n] |-> m_appenders[n][i]]
      BY <2>7, <3>1
    <3> QED
      BY <3>1, <3>2
  <2> QED
    BY <2>4, <2>5, <2>6, <2>8 DEF Defined, SetUp
<1> QED
  BY LInvAlways, <1>1, PTL

=============================================================================
