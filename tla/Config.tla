-------------------------------- MODULE Config --------------------------------
(***************************************************************************)
(* mocker::Config (mocker/config.h, mocker/config.cpp): the registry of    *)
(* the ConfigVars by name behind a reader/writer lock of its own, on top   *)
(* of ConfigVar.  Lookup() creates what is missing, in a critical section  *)
(* after the one that looked; LoadFromYaml() walks over the nodes of a     *)
(* document and sets the variables it finds, with fromString(); Visit()    *)
(* and a Lookup() of the wrong type read variables under the registry's    *)
(* lock; a listener may call Lookup() under the lock of its variable.      *)
(***************************************************************************)
EXTENDS ConfigVar, Sequences, Functions

CONSTANTS
  Name,      \* names of variables
  BadName,   \* those with a character Lookup() and ListAllMember() reject
  Creating,  \* listeners that may call Lookup(name, default_value)
  Document,  \* what a YAML document lists: sequences of name and value
  BadVal     \* text that LexicalCast cannot convert

Node == [n : Name, w : Val \cup {BadVal}]

ASSUME ConfigAssumption ==
  /\ BadName \subseteq Name /\ Creating \subseteq Listener
  /\ BadVal \notin Val \cup {Null} /\ Null \notin Name
  /\ Document \subseteq Seq(Node)

VARIABLES
  s_data,     \* the registry: the object of each name, or Null
  s_rwmutex,  \* the threads that hold the registry's lock for reading
  visiting,   \* the variables that a thread with that lock has yet to read
  made,       \* objects that have been constructed
  missing,    \* the name a thread in Lookup() did not find, or Null
  held,       \* history: names with the object that a Lookup() returned for them
  doubled,    \* history: names that two threads at once did not find
  found,      \* the variable LoadFromYaml() has looked up for its first node
  nodes,      \* by position, the nodes that a thread in LoadFromYaml() has before it
  wanted,     \* history: the last value a load or a setValue() had for each name
  due         \* history: by position, the nodes that a thread's LoadFromYaml() owes

registryVars == <<s_data, s_rwmutex, visiting, made, missing, held, doubled>>
loadVars == <<found, nodes, wanted, due>>
configVars == <<registryVars, loadVars, configVarVars>>

(* One type for every variable.                                            *)
RegistryTypeOK ==
  /\ TypeOK
  /\ s_data \in [Name -> Var \cup {Null}]
  /\ s_rwmutex \subseteq Thread
  /\ visiting \in [Thread -> SUBSET Var]
  /\ made \subseteq Var
  /\ missing \in [Thread -> Name \cup {Null}]
  /\ held \subseteq Name \X Var
  /\ doubled \subseteq Name
  /\ found \in [Thread -> Var \cup {Null}]
  /\ DOMAIN nodes = Thread
  /\ \A t \in Thread : /\ DOMAIN nodes[t] \subseteq Nat
                       /\ \A i \in DOMAIN nodes[t] : nodes[t][i] \in Node
  /\ wanted \in [Name -> Val \cup {Null}]
  /\ due \in [Thread -> SUBSET Nat]

Init ==
  /\ ConfigVarInit
  /\ s_data = [n \in Name |-> Null]
  /\ s_rwmutex = {}
  /\ visiting = [t \in Thread |-> {}]
  /\ made = {}
  /\ missing = [t \in Thread |-> Null]
  /\ held = {}
  /\ doubled = {}
  /\ found = [t \in Thread |-> Null]
  /\ nodes = [t \in Thread |-> <<>>]
  /\ wanted = [n \in Name |-> Null]
  /\ due = [t \in Thread |-> {}]

-----------------------------------------------------------------------------
(* The registry                                                            *)

Free(t) == missing[t] = Null /\ DOMAIN nodes[t] = {} /\ t \notin s_rwmutex

(* Bound: a search may fail while there is an object left to construct.    *)
CanConstruct == Cardinality({t \in Thread : missing[t] # Null}) < Cardinality(Var \ made)

(* Lookup(), its first critical section: found, or to be created.  A name  *)
(* with another character ends in an exception after the search failed.    *)
Search(t, n) ==
  /\ IF s_data[n] # Null
     THEN held' = held \cup {<<n, s_data[n]>>} /\ UNCHANGED <<missing, doubled>>
     ELSE /\ CanConstruct \/ n \in BadName
          /\ missing' = [missing EXCEPT ![t] = IF n \in BadName THEN Null ELSE n]
          /\ doubled' = doubled \cup (IF n \in Range(missing) THEN {n} ELSE {})
          /\ UNCHANGED held
  /\ UNCHANGED <<s_data, s_rwmutex, visiting, made, loadVars>>

Lookup(t, n) ==
  /\ Free(t) /\ Call(t)
  /\ Search(t, n)
  /\ UNCHANGED <<dataVars, lockVars, histVars, pc, loc>>

(* A listener calls Lookup(), its thread holds the variable's read lock.   *)
ListenerLooksUp(t, n) ==
  /\ pc[t] = "notify" /\ loc[t].todo # {} /\ NextListener(t) \in Creating
  /\ missing[t] = Null
  /\ Search(t, n)
  /\ UNCHANGED configVarVars

(* Mutant of Registered: the object is returned but not registered.        *)
RegisteredNot(n, v) == s_data

Registered(n, v) == [s_data EXCEPT ![n] = v]

(* The second one registers a new object, whatever is there by now.        *)
LookupCreate(t) ==
  /\ missing[t] # Null /\ s_rwmutex = {}
  /\ LET v == CHOOSE v \in Var \ made : TRUE IN
       /\ made' = made \cup {v}
       /\ s_data' = Registered(missing[t], v)
       /\ held' = held \cup {<<missing[t], v>>}
  /\ missing' = [missing EXCEPT ![t] = Null]
  /\ UNCHANGED <<s_rwmutex, visiting, doubled, loadVars, configVarVars>>

(* Visit(), with a callback that calls toString(); Lookup() of a name that *)
(* is registered with another type logs toString() and returns nullptr.    *)
VisitBegin(t, vs) ==
  /\ Free(t) /\ Call(t)
  /\ s_rwmutex' = s_rwmutex \cup {t}
  /\ visiting' = [visiting EXCEPT ![t] = vs]
  /\ UNCHANGED <<s_data, made, missing, held, doubled, loadVars, dataVars, lockVars, histVars,
                 pc, loc>>
Visit(t) == VisitBegin(t, Range(s_data) \ {Null})
LookupOtherType(t, n) == s_data[n] # Null /\ VisitBegin(t, {s_data[n]})

(* getValue() of one of them waits for the variable's writer.              *)
VisitRead(t) ==
  /\ \E v \in visiting[t] :
       CanRead(v) /\ visiting' = [visiting EXCEPT ![t] = @ \ {v}]
  /\ UNCHANGED <<s_data, s_rwmutex, made, missing, held, doubled, loadVars, configVarVars>>

VisitEnd(t) ==
  /\ t \in s_rwmutex /\ visiting[t] = {}
  /\ s_rwmutex' = s_rwmutex \ {t}
  /\ UNCHANGED <<s_data, visiting, made, missing, held, doubled, loadVars, configVarVars>>

-----------------------------------------------------------------------------
(* Loading                                                                 *)

(* Mutant of Converts: a failed conversion is not noticed.                 *)
ConvertsAlways(w) == TRUE

Converts(w) == w # BadVal

(* The nodes a load has to set: their variables exist when it begins.      *)
Settable(doc) ==
  {i \in DOMAIN doc :
     doc[i].n \notin BadName /\ s_data[doc[i].n] # Null /\ Converts(doc[i].w)}

(* LoadFromYaml(): ListAllMember() leaves out the nodes with a bad name.   *)
LoadFromYaml(t, doc) ==
  /\ t \in Setters /\ Free(t) /\ Call(t)
  /\ nodes' = [nodes EXCEPT ![t] =
       [i \in {j \in DOMAIN doc : doc[j].n \notin BadName} |-> doc[i]]]
  /\ due' = [due EXCEPT ![t] = Settable(doc)]
  /\ UNCHANGED <<registryVars, found, wanted, dataVars, lockVars, histVars, pc, loc>>

FirstNode(t) == nodes[t][Min(DOMAIN nodes[t])]

(* Mutant of Passed: a node that does not convert ends the load.           *)
PassedOrEnded(t) ==
  [nodes EXCEPT ![t] = IF Converts(FirstNode(t).w) THEN Without(@, Min(DOMAIN @)) ELSE <<>>]

Passed(t) == [nodes EXCEPT ![t] = Without(@, Min(DOMAIN @))]

(* One node: LookupBase(); a name without a variable is passed over.       *)
LoadNode(t) ==
  /\ DOMAIN nodes[t] # {} /\ found[t] = Null /\ pc[t] = "idle"
  /\ found' = [found EXCEPT ![t] = s_data[FirstNode(t).n]]
  /\ nodes' = IF s_data[FirstNode(t).n] = Null THEN Passed(t) ELSE nodes
  /\ UNCHANGED <<registryVars, wanted, due, configVarVars>>

(* fromString() of the variable found: nothing is set when the text does   *)
(* not convert.                                                            *)
LoadSet(t) ==
  /\ found[t] # Null
  /\ LET n == FirstNode(t).n  w == FirstNode(t).w IN
       IF Converts(w)
       THEN /\ SetEnter(t, found[t], w)
            /\ wanted' = [wanted EXCEPT ![n] = w]
            /\ due' = [due EXCEPT ![t] = @ \ {Min(DOMAIN nodes[t])}]
       ELSE UNCHANGED <<wanted, due, dataVars, lockVars, histVars, pc, loc>>
  /\ nodes' = Passed(t)
  /\ found' = [found EXCEPT ![t] = Null]
  /\ UNCHANGED <<registryVars, ops>>

(* What the program does with an object that Lookup() gave it.             *)
SetHeld(t, h, w) ==
  /\ Free(t) /\ SetValue(t, h[2], w)
  /\ wanted' = [wanted EXCEPT ![h[1]] = w]
  /\ UNCHANGED <<registryVars, found, nodes, due>>

ListenToHeld(t) ==
  /\ Free(t)
  /\ \/ \E h \in held, l \in Listener : AddListener(t, h[2], l)
     \/ \E l \in Listener : DelListener(t, l)
     \/ \E h \in held : ClearListener(t, h[2])
  /\ UNCHANGED <<registryVars, loadVars>>

Proceed(t) == missing[t] = Null /\ Continue(t) /\ UNCHANGED <<registryVars, loadVars>>

(* The program makes no more calls, or a listener waits for its own lock.  *)
Stuck == \E t \in Thread : pc[t] = "relock"
AllReturned ==
  /\ Stuck \/ \A t \in Thread : Free(t) /\ pc[t] = "idle"
  /\ UNCHANGED configVars

Step(t) ==
  \/ LookupCreate(t) \/ VisitRead(t) \/ VisitEnd(t) \/ LoadNode(t) \/ LoadSet(t)
  \/ Proceed(t)
Next ==
  \/ AllReturned
  \/ \E t \in Thread :
       \/ Step(t) \/ ListenToHeld(t) \/ Visit(t)
       \/ \E n \in Name : Lookup(t, n) \/ ListenerLooksUp(t, n) \/ LookupOtherType(t, n)
       \/ \E doc \in Document : LoadFromYaml(t, doc)
       \/ \E h \in held, w \in Val : SetHeld(t, h, w)

Spec == Init /\ [][Next]_configVars
(* Threads run, and a lock that is free is granted.                        *)
FairSpec == Spec /\ \A t \in Thread : WF_configVars(Step(t))

-----------------------------------------------------------------------------
(* Properties                                                              *)

(* README.md:297, "The yaml file will change the value in                  *)
(* `g_int_value_config`": the object a Lookup() returned is the one that   *)
(* LoadFromYaml() will find under its name, unless two threads looked for  *)
(* a new name at once (config.h:428-454).                                  *)
HeldIsRegistered == \A h \in held : h[1] \notin doubled => s_data[h[1]] = h[2]

(* When nobody sets a variable it has the value that the last load or      *)
(* setValue() had for its name (config.cpp:40-63), unless that call met    *)
(* another one, a listener threw, or the name has two objects.             *)
LoadTakesEffect ==
  \A h \in held :
    /\ wanted[h[1]] # Null /\ h[1] \notin doubled
    /\ ~Met(h[2]) /\ h[2] \notin spoilt
    => m_val[h[2]] = wanted[h[1]]

(* config.cpp:44-60: a load leaves nothing out.  Of the nodes whose        *)
(* variable existed when it began and whose text converts, those that have *)
(* not been set are still before it, whatever became of the nodes in front *)
(* of them: no variable, text that does not convert, a listener that       *)
(* throws out of setValue() (config.h:343-351).                            *)
LoadWhole == \A t \in Thread : due[t] \subseteq DOMAIN nodes[t]

(* No thread waits forever inside a call: the critical sections of         *)
(* setValue(), the registry's lock held while variables are read, and a    *)
(* variable's lock held while a listener waits for the registry's do not   *)
(* block each other.  Only a listener that wants to write its own variable *)
(* (config.h:366) stops its thread, and the threads behind it.             *)
CallsReturn == \A t \in Thread : ~(Free(t) /\ pc[t] = "idle")
                                  ~> (Free(t) /\ pc[t] = "idle") \/ Stuck

=============================================================================
