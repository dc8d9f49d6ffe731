----------------------------- MODULE ConfigProofs -----------------------------
(***************************************************************************)
(* Proofs about Config and the ConfigVars in it, for every number of       *)
(* threads, variables, listeners, names and documents.                     *)
(*                                                                         *)
(* Three facts carry the properties.  A listener is put into one map of    *)
(* listeners, once, so that only setValue() of that variable tells it.  A  *)
(* setValue() that did not meet another one of the same variable has told  *)
(* every listener it has passed.  An object is constructed for one name,   *)
(* and two objects for a name need two threads that did not find it at     *)
(* once.                                                                   *)
(***************************************************************************)
EXTENDS Config, FiniteSetTheorems, WellFoundedInduction, TLAPS

Adds == {"add", "addStore", "addKey", "addReturn"}
BeforeKey == {"add", "addStore", "addKey"}
Sets == {"notify", "relock", "store"}

(* The threads that will increment s_fun_id.  The counter, or the value    *)
(* one of them has loaded, can grow by one for each, and not beyond the    *)
(* number of the listeners that were given to addListener().               *)
Entering == {t \in Thread : pc[t] \in {"add", "addStore"}}
Counting ==
  /\ s_fun_id + Cardinality(Entering) <= Cardinality(Listener \ fresh)
  /\ \A t \in Thread : pc[t] = "addStore" =>
       loc[t].reg + Cardinality(Entering) <= Cardinality(Listener \ fresh)
  /\ \A t \in Thread : pc[t] \in {"addKey", "addReturn"} =>
       loc[t].reg >= 1 /\ s_fun_id >= 1

(* A thread inside a call has the lock of that place of the code.          *)
CallOK(t) ==
  /\ pc[t] \in Sets => loc[t].v \in Var /\ loc[t].w \in Val
  /\ pc[t] \in {"notify", "relock"} =>
       t \in readers[loc[t].v] /\ loc[t].todo \subseteq DOMAIN m_cbs[loc[t].v]
  /\ pc[t] = "store" => loc[t].todo = {}
  /\ pc[t] \in Adds =>
       loc[t].v \in Var /\ loc[t].l \in Listener \ fresh /\ writer[loc[t].v] = t
Calls == \A t \in Thread : CallOK(t)
Locks == \A v \in Var : writer[v] # Null => readers[v] = {}

(* While no two calls of addListener() met, the counter is ahead of every  *)
(* key in use.                                                             *)
KeyOK(t) ==
  /\ pc[t] \in {"addStore", "addKey", "addReturn"} => loc[t].reg = s_fun_id
  /\ pc[t] = "addKey" => \A v \in Var : \A k \in DOMAIN m_cbs[v] : k < s_fun_id
  /\ pc[t] = "addReturn" =>
       loc[t].reg \in DOMAIN m_cbs[loc[t].v] /\ m_cbs[loc[t].v][loc[t].reg] = loc[t].l
Alone == \A t, u \in Thread : pc[t] \in Adds /\ pc[u] \in Adds => t = u
Ahead == \A v \in Var : \A k \in DOMAIN m_cbs[v] : k <= s_fun_id
Keys == ~mixed => Alone /\ Ahead /\ (\A t \in Thread : KeyOK(t)) /\ ListenerKept

(* A listener comes into one map, once, and nobody tells it before.        *)
Nowhere(l) == told[l] = Null /\ \A v \in Var : \A k \in DOMAIN m_cbs[v] : m_cbs[v][k] # l
Listeners ==
  /\ \A l \in fresh : Nowhere(l)
  /\ \A t \in Thread : pc[t] \in BeforeKey => Nowhere(loc[t].l)
  /\ \A t, u \in Thread : pc[t] \in BeforeKey /\ pc[u] \in BeforeKey /\ t # u
                            => loc[t].l # loc[u].l
  /\ \A v, w \in Var : \A i \in DOMAIN m_cbs[v], j \in DOMAIN m_cbs[w] :
       m_cbs[v][i] = m_cbs[w][j] => v = w

(* A setValue() that met no other one has told those it has passed.        *)
TellOK(t) ==
  pc[t] \in Sets /\ ~loc[t].met =>
    \A k \in DOMAIN m_cbs[loc[t].v] \ loc[t].todo :
      told[m_cbs[loc[t].v][k]] \in {Null, loc[t].w}
Meeting == \A t, u \in Thread, v \in Var : t # u /\ Setting(t, v) /\ Setting(u, v) => loc[t].met
Telling == Meeting /\ (\A t \in Thread : TellOK(t)) /\ ListenersUpToDate

VarInv == TypeOK /\ Counting /\ Calls /\ Locks /\ Keys /\ Listeners /\ Telling

(* An object is made for one name; a name that one thread is about to      *)
(* create, alone, has none.                                                *)
Missing == {t \in Thread : missing[t] # Null}
Registry ==
  /\ Cardinality(Missing) <= Cardinality(Var \ made)
  /\ \A t \in Thread : missing[t] # Null /\ missing[t] \notin doubled
                         => s_data[missing[t]] = Null
  /\ \A t, u \in Thread : t # u /\ missing[t] # Null /\ missing[t] = missing[u]
                            => missing[t] \in doubled
  /\ \A h \in held : h[2] \in made /\ s_data[h[1]] # Null
  /\ \A g, h \in held : g[2] = h[2] => g[1] = h[1]
  /\ \A n \in Name : s_data[n] # Null => <<n, s_data[n]>> \in held
  /\ HeldIsRegistered

(* What a setValue() that met no other one will store is what was wanted.  *)
FoundOK(t) ==
  found[t] # Null => /\ pc[t] = "idle"
                     /\ DOMAIN nodes[t] # {}
                     /\ <<FirstNode(t).n, found[t]>> \in held
WantOK(t) ==
  pc[t] \in Sets =>
    /\ loc[t].v \in made
    /\ ~loc[t].met => \A n \in Name \ doubled : <<n, loc[t].v>> \in held => wanted[n] = loc[t].w
Wanting == \A n \in Name : wanted[n] # Null => s_data[n] # Null
Loading == (\A t \in Thread : FoundOK(t) /\ WantOK(t)) /\ Wanting /\ LoadTakesEffect

IInv == RegistryTypeOK /\ VarInv /\ Registry /\ Loading

-----------------------------------------------------------------------------
(* Facts about the operators                                               *)

(* A set of naturals has a least element.                                  *)
LEMMA MinIn ==
  ASSUME NEW S \in SUBSET Nat, S # {}
  PROVE  Min(S) \in S
<1>1. PICK x \in S : \A y \in S : ~(<<y, x>> \in OpToRel(<, Nat))
  BY NatLessThanWellFounded, WFMin
<1>2. \A y \in S : ~(y < x)
  BY <1>1 DEF OpToRel
<1>3. \A y \in S : x <= y
  BY <1>2
<1> QED
  BY <1>3 DEF Min

(* The bound of the keys.                                                  *)
LEMMA MaxIdNat ==
  MaxId \in Nat
BY ConfigVarAssumption, FS_CardinalityType DEF MaxId

LEMMA GivenBound ==
  ASSUME NEW S, S \subseteq Listener
  PROVE  /\ IsFiniteSet(S) /\ Cardinality(S) \in Nat
         /\ Cardinality(Listener \ S) \in Nat /\ Cardinality(Listener \ S) <= MaxId
<1>1. IsFiniteSet(Listener) /\ Listener \ S \subseteq Listener
  BY ConfigVarAssumption
<1> QED
  BY <1>1, FS_Subset, FS_CardinalityType DEF MaxId

(* Threads are finitely many.                                              *)
LEMMA ThreadsFinite ==
  ASSUME NEW S, S \subseteq Thread
  PROVE  IsFiniteSet(S) /\ Cardinality(S) \in Nat
BY ConfigVarAssumption, FS_Subset, FS_CardinalityType

(* What the listeners hear while their thread tells them.                  *)
LEMMA NextListenerIn ==
  ASSUME TypeOK, Calls, NEW t \in Thread, pc[t] = "notify", loc[t].todo # {}
  PROVE  /\ loc[t].v \in Var /\ loc[t].w \in Val
         /\ Min(loc[t].todo) \in loc[t].todo
         /\ Min(loc[t].todo) \in DOMAIN m_cbs[loc[t].v]
         /\ NextListener(t) \in Listener
<1>1. /\ loc[t].v \in Var /\ loc[t].w \in Val
      /\ loc[t].todo \subseteq DOMAIN m_cbs[loc[t].v]
  BY DEF Calls, CallOK, Sets
<1>2. loc[t].todo \in SUBSET Nat
  BY <1>1, MaxIdNat DEF TypeOK
<1>3. Min(loc[t].todo) \in loc[t].todo
  BY <1>2, MinIn
<1> QED
  BY <1>1, <1>3 DEF TypeOK, NextListener

-----------------------------------------------------------------------------
(* The variables: every step keeps VarInv                                  *)

(* A step of the registry or of a load does not touch the variables.       *)
LEMMA VarFrame ==
  ASSUME VarInv, UNCHANGED <<dataVars, lockVars, histVars, pc, loc>>, ops' \in 0..MaxOps
  PROVE  VarInv'
<1>1. /\ UNCHANGED <<m_val, m_cbs, s_fun_id, readers, writer, keyOf, spoilt, mixed, told, fresh>>
      /\ UNCHANGED <<pc, loc>>
  BY DEF dataVars, lockVars, histVars
<1>2. TypeOK'
  BY <1>1 DEF VarInv, TypeOK
<1>3. Counting'
  BY <1>1 DEF VarInv, Counting, Entering
<1>4. Calls' /\ Locks'
  BY <1>1 DEF VarInv, Calls, CallOK, Locks
<1>5. Keys'
  BY <1>1 DEF VarInv, Keys, Alone, Ahead, KeyOK, ListenerKept
<1>6. Listeners'
  BY <1>1 DEF VarInv, Listeners, Nowhere
<1>7. Telling'
  BY <1>1 DEF VarInv, Telling, Meeting, TellOK, ListenersUpToDate, Met, Setting
<1> QED
  BY <1>2, <1>3, <1>4, <1>5, <1>6, <1>7 DEF VarInv

(* setValue() begins: those in setValue() of the variable have met it, and *)
(* it has met them.                                                        *)
LEMMA SetEnterKeeps ==
  ASSUME VarInv, NEW t \in Thread, NEW v \in Var, NEW w \in Val, pc[t] = "idle",
         SetEnter(t, v, w), ops' \in 0..MaxOps
  PROVE  /\ VarInv'
         /\ UNCHANGED <<m_val, m_cbs, spoilt, told>>
         /\ \A u \in Thread \ {t} :
              /\ pc'[u] = pc[u] /\ loc'[u].v = loc[u].v /\ loc'[u].w = loc[u].w
              /\ ~loc'[u].met => ~loc[u].met /\ ~Setting(u, v)
         /\ \/ pc'[t] = "idle" /\ w = m_val[v]
            \/ pc'[t] = "notify" /\ loc'[t].v = v /\ loc'[t].w = w
<1>1. /\ UNCHANGED <<m_val, m_cbs, s_fun_id, keyOf, spoilt, mixed, told, fresh>>
      /\ writer[v] = Null
  BY DEF SetEnter, CanRead, dataVars, histVars
<1>2. TypeOK /\ Counting /\ Calls /\ Locks /\ Keys /\ Listeners /\ Telling
  BY DEF VarInv
<1>3. /\ UNCHANGED writer
      /\ readers' \in [Var -> SUBSET Thread]
      /\ \A x \in Var : readers[x] \subseteq readers'[x] /\ (x # v => readers'[x] = readers[x])
      /\ pc' \in [Thread -> {"idle", "notify", "relock", "store", "add", "addStore",
                             "addKey", "addReturn"}]
      /\ \A u \in Thread \ {t} : pc'[u] = pc[u]
      /\ \/ pc'[t] = "idle" /\ w = m_val[v]
         \/ pc'[t] = "notify" /\ t \in readers'[v] /\ w # m_val[v]
  <2>1. CASE w = m_val[v]
    BY <1>2, <2>1 DEF SetEnter, TypeOK, lockVars
  <2>2. CASE w # m_val[v]
    BY <1>2, <2>2 DEF SetEnter, TypeOK, Lock
  <2> QED
    BY <2>1, <2>2
<1>4. \A u \in Thread \ {t} :
        /\ loc'[u].v = loc[u].v /\ loc'[u].w = loc[u].w /\ loc'[u].l = loc[u].l
        /\ loc'[u].reg = loc[u].reg /\ loc'[u].todo = loc[u].todo
        /\ loc'[u] \in Locals
        /\ ~loc'[u].met => ~loc[u].met /\ ~Setting(u, v)
  <2> SUFFICES ASSUME NEW u \in Thread \ {t}
               PROVE  /\ loc'[u].v = loc[u].v /\ loc'[u].w = loc[u].w /\ loc'[u].l = loc[u].l
                      /\ loc'[u].reg = loc[u].reg /\ loc'[u].todo = loc[u].todo
                      /\ loc'[u] \in Locals
                      /\ ~loc'[u].met => ~loc[u].met /\ ~Setting(u, v)
    OBVIOUS
  <2> DEFINE m == loc[u].met \/ Setting(u, v)
  <2>1. loc'[u] = [loc[u] EXCEPT !.met = m]
    BY DEF SetEnter
  <2>2. m \in BOOLEAN /\ (~m => ~loc[u].met /\ ~Setting(u, v))
    BY DEF Setting
  <2> HIDE DEF m
  <2>3. loc[u] \in Locals
    BY <1>2 DEF TypeOK
  <2> QED
    BY <2>1, <2>2, <2>3 DEF Locals
<1>5. /\ loc'[t] \in Locals
      /\ pc'[t] = "notify" =>
           /\ loc'[t].v = v /\ loc'[t].w = w /\ loc'[t].todo = DOMAIN m_cbs[v]
           /\ ~loc'[t].met => \A u \in Thread : ~Setting(u, v)
  <2>0. 0 \in 0..MaxId
    BY MaxIdNat
  <2>1. CASE w = m_val[v]
    <3>1. loc'[t] = NoLocals /\ pc'[t] = "idle"
      BY <2>1, <1>3 DEF SetEnter
    <3> QED
      BY <3>1, <2>0 DEF NoLocals, Locals
  <2>2. CASE w # m_val[v]
    <3> DEFINE m == Met(v)
    <3>1. loc'[t] = [NoLocals EXCEPT !.v = v, !.w = w, !.todo = DOMAIN m_cbs[v], !.met = m]
      BY <2>2 DEF SetEnter
    <3>2. m \in BOOLEAN /\ (~m => \A u \in Thread : ~Setting(u, v))
      BY DEF Met
    <3> HIDE DEF m
    <3>3. DOMAIN m_cbs[v] \subseteq 1..MaxId
      BY <1>2 DEF TypeOK
    <3> QED
      BY <3>1, <3>2, <3>3, <2>0 DEF NoLocals, Locals
  <2> QED
    BY <2>1, <2>2
<1>6. TypeOK'
  <2>1. loc' \in [Thread -> Locals]
    <3>1. DOMAIN loc' = Thread /\ loc' = [u \in DOMAIN loc' |-> loc'[u]]
      BY DEF SetEnter
    <3>2. \A u \in Thread : loc'[u] \in Locals
      BY <1>4, <1>5
    <3> QED
      BY <3>1, <3>2
  <2> QED
    BY <1>1, <1>2, <1>3, <2>1 DEF TypeOK
<1>7. Counting'
  <2>1. Entering' = Entering
    BY <1>3 DEF Entering
  <2> QED
    BY <1>1, <1>2, <1>3, <1>4, <2>1 DEF Counting
<1>8. Calls'
  <2> SUFFICES ASSUME NEW u \in Thread PROVE CallOK(u)'
    BY DEF Calls
  <2>1. CASE u = t
    BY <1>1, <1>3, <1>5, <2>1 DEF CallOK, Sets, Adds
  <2>2. CASE u # t
    <3>1. CallOK(u)
      BY <1>2 DEF Calls
    <3>2. \A x \in Var : readers[x] \subseteq readers'[x]
      BY <1>3
    <3> QED
      BY <1>1, <1>3, <1>4, <2>2, <3>1, <3>2 DEF CallOK, Sets, Adds
  <2> QED
    BY <2>1, <2>2
<1>9. Locks'
  BY <1>1, <1>2, <1>3 DEF Locks
<1>10. Keys'
  BY <1>1, <1>2, <1>3, <1>4 DEF Keys, Alone, Ahead, KeyOK, ListenerKept, Adds
<1>11. Listeners'
  BY <1>1, <1>2, <1>3, <1>4 DEF Listeners, Nowhere, BeforeKey
<1>12. Telling'
  <2>1. Meeting'
    BY <1>2, <1>3, <1>4, <1>5 DEF Telling, Meeting, Setting, Sets
  <2>2. ASSUME NEW u \in Thread PROVE TellOK(u)'
    <3>1. CASE u = t
      BY <1>1, <1>3, <1>5, <3>1 DEF TellOK, Sets
    <3>2. CASE u # t
      <4>1. TellOK(u)
        BY <1>2 DEF Telling
      <4> QED
        BY <4>1, <1>1, <1>3, <1>4, <3>2 DEF TellOK
    <3> QED
      BY <3>1, <3>2
  <2>3. ASSUME NEW x \in Var, ~Met(x)' PROVE ~Met(x)
    BY <1>3, <1>4, <2>3 DEF Met, Setting
  <2>4. ListenersUpToDate'
    BY <1>1, <1>2, <2>3 DEF Telling, ListenersUpToDate
  <2> QED
    BY <2>1, <2>2, <2>4 DEF Telling
<1> QED
  BY <1>1, <1>3, <1>4, <1>5, <1>6, <1>7, <1>8, <1>9, <1>10, <1>11, <1>12 DEF VarInv

(* A listener that is told belongs to one variable only.                   *)
LEMMA Told ==
  ASSUME VarInv, NEW t \in Thread, pc[t] = "notify", loc[t].todo # {},
         told' = [told EXCEPT ![NextListener(t)] = loc[t].w]
  PROVE  /\ told' \in [Listener -> Val \cup {Null}]
         /\ \A x \in Var \ {loc[t].v} : \A k \in DOMAIN m_cbs[x] :
              told'[m_cbs[x][k]] = told[m_cbs[x][k]]
         /\ \A k \in DOMAIN m_cbs[loc[t].v] :
              told'[m_cbs[loc[t].v][k]] \in {told[m_cbs[loc[t].v][k]], loc[t].w}
         /\ told'[m_cbs[loc[t].v][Min(loc[t].todo)]] = loc[t].w
         /\ \A l \in Listener : Nowhere(l) => told'[l] = Null
<1>1. TypeOK /\ Calls /\ Listeners
  BY DEF VarInv
<1>2. /\ loc[t].v \in Var /\ loc[t].w \in Val
      /\ Min(loc[t].todo) \in DOMAIN m_cbs[loc[t].v]
      /\ NextListener(t) \in Listener
      /\ NextListener(t) = m_cbs[loc[t].v][Min(loc[t].todo)]
  BY <1>1, NextListenerIn DEF NextListener
<1>3. told \in [Listener -> Val \cup {Null}]
  BY <1>1 DEF TypeOK
<1>4. \A x \in Var : \A k \in DOMAIN m_cbs[x] : m_cbs[x][k] \in Listener
  BY <1>1 DEF TypeOK
<1>5. \A x \in Var \ {loc[t].v} : \A k \in DOMAIN m_cbs[x] : m_cbs[x][k] # NextListener(t)
  BY <1>1, <1>2 DEF Listeners
<1>6. \A l \in Listener : Nowhere(l) => l # NextListener(t) /\ told[l] = Null
  BY <1>2 DEF Nowhere
<1> QED
  BY <1>2, <1>3, <1>4, <1>5, <1>6

(* A step of one thread in setValue(), out of the listeners' maps, keeps   *)
(* what concerns the calls of addListener().                               *)
LEMMA AddsKept ==
  ASSUME VarInv, NEW t \in Thread,
         UNCHANGED <<m_cbs, s_fun_id, writer, keyOf, mixed, fresh>>,
         pc[t] \in Sets, pc'[t] \in Sets \cup {"idle"},
         \A u \in Thread \ {t} : pc'[u] = pc[u] /\ loc'[u] = loc[u],
         \A l \in Listener : Nowhere(l) => told'[l] = Null
  PROVE  Counting' /\ Keys' /\ Listeners'
<1>1. Counting /\ Keys /\ Listeners
  BY DEF VarInv
<1>2. Entering' = Entering
  BY DEF Entering, Sets
<1>3. Counting'
  BY <1>1, <1>2 DEF Counting, Sets
<1>4. Keys'
  BY <1>1 DEF Keys, Alone, Ahead, KeyOK, ListenerKept, Adds, Sets
<1>5. \A l \in Listener : Nowhere(l) => Nowhere(l)'
  BY DEF Nowhere
<1>6. fresh \subseteq Listener /\ \A u \in Thread : pc[u] \in Adds => loc[u].l \in Listener
  BY DEF VarInv, TypeOK, Calls, CallOK
<1>7. Listeners'
  <2>1. \A l \in fresh' : Nowhere(l)'
    BY <1>1, <1>5, <1>6 DEF Listeners
  <2>2. \A u \in Thread : pc'[u] \in BeforeKey => u # t /\ pc[u] \in BeforeKey /\ loc'[u] = loc[u]
    BY DEF BeforeKey, Sets
  <2>3. \A u \in Thread : pc'[u] \in BeforeKey => Nowhere(loc[u].l)'
    BY <1>1, <1>5, <1>6, <2>2 DEF Listeners, BeforeKey, Adds
  <2> QED
    BY <1>1, <2>1, <2>2, <2>3 DEF Listeners, Nowhere
<1> QED
  BY <1>3, <1>4, <1>7

LEMMA NotifyKeeps ==
  ASSUME VarInv, NEW t \in Thread, Notify(t)
  PROVE  VarInv'
<1> DEFINE v == loc[t].v
           w == loc[t].w
           new == [loc[t] EXCEPT !.todo = @ \ {Min(@)}]
<1>1. TypeOK /\ Calls /\ Locks /\ Telling
  BY DEF VarInv
<1>2. /\ pc[t] = "notify" /\ loc[t].todo # {}
      /\ told' = [told EXCEPT ![NextListener(t)] = w]
      /\ loc' = [loc EXCEPT ![t] = new]
      /\ UNCHANGED <<m_val, m_cbs, s_fun_id, readers, writer, keyOf, spoilt, mixed, fresh, pc, ops>>
  BY DEF Notify, dataVars, lockVars
<1>3. loc \in [Thread -> Locals]
  BY <1>1 DEF TypeOK
<1>4. /\ new \in Locals /\ new.v = v /\ new.w = w /\ new.met = loc[t].met
      /\ new.todo = loc[t].todo \ {Min(loc[t].todo)}
  BY <1>3 DEF Locals
<1> HIDE DEF new
<1>5. /\ loc' \in [Thread -> Locals] /\ loc'[t] = new
      /\ \A u \in Thread \ {t} : loc'[u] = loc[u]
  BY <1>2, <1>3, <1>4
<1>6. /\ told' \in [Listener -> Val \cup {Null}]
      /\ \A x \in Var \ {v} : \A k \in DOMAIN m_cbs[x] : told'[m_cbs[x][k]] = told[m_cbs[x][k]]
      /\ \A k \in DOMAIN m_cbs[v] : told'[m_cbs[v][k]] \in {told[m_cbs[v][k]], w}
      /\ told'[m_cbs[v][Min(loc[t].todo)]] = w
      /\ \A l \in Listener : Nowhere(l) => told'[l] = Null
  BY <1>2, Told
<1>7. v \in Var /\ w \in Val
  BY <1>1, <1>2, NextListenerIn
<1> HIDE DEF v, w
<1>8. TypeOK'
  BY <1>1, <1>2, <1>5, <1>6 DEF TypeOK
<1>9. Counting' /\ Keys' /\ Listeners'
  BY <1>2, <1>5, <1>6, AddsKept DEF Sets
<1>10. Calls'
  BY <1>1, <1>2, <1>4, <1>5 DEF Calls, CallOK, Sets, Adds, v, w
<1>11. Locks'
  BY <1>1, <1>2 DEF Locks
<1>12. \A u \in Thread, x \in Var : Setting(u, x)' <=> Setting(u, x)
  BY <1>2, <1>4, <1>5 DEF Setting, v
<1>13. Telling'
  <2>1. Meeting'
    BY <1>1, <1>4, <1>5, <1>12 DEF Telling, Meeting
  <2>2. ASSUME NEW u \in Thread PROVE TellOK(u)'
    <3>1. TellOK(u)
      BY <1>1 DEF Telling
    <3>2. CASE u = t
      BY <1>2, <1>4, <1>5, <1>6, <3>1, <3>2 DEF TellOK, v, w
    <3>3. CASE u # t /\ loc[u].v = v
      <4>1. pc[u] \in Sets => loc[u].met
        BY <1>1, <1>2, <1>7, <3>3 DEF Telling, Meeting, Setting, Sets, v
      <4> QED
        BY <4>1, <1>2, <1>5, <3>3 DEF TellOK
    <3>4. CASE u # t /\ loc[u].v # v
      <4>1. pc[u] \in Sets => loc[u].v \in Var
        BY <1>1 DEF Calls, CallOK
      <4> QED
        BY <3>1, <4>1, <1>2, <1>5, <1>6, <3>4 DEF TellOK
    <3> QED
      BY <3>2, <3>3, <3>4
  <2>3. ListenersUpToDate'
    <3>1. \A x \in Var : x = v => Met(x)'
      BY <1>2, <1>12 DEF Met, Setting, v
    <3>2. \A x \in Var : Met(x)' <=> Met(x)
      BY <1>12 DEF Met
    <3>3. ASSUME NEW x \in Var, ~Met(x)', x \notin spoilt', NEW k \in DOMAIN m_cbs'[x]
          PROVE  told'[m_cbs'[x][k]] \in {Null, m_val'[x]}
      <4>1. x # v
        BY <3>1, <3>3
      <4>2. ~Met(x) /\ x \notin spoilt /\ k \in DOMAIN m_cbs[x]
        BY <1>2, <3>2, <3>3
      <4>3. told[m_cbs[x][k]] \in {Null, m_val[x]}
        BY <1>1, <4>2 DEF Telling, ListenersUpToDate
      <4> QED
        BY <1>2, <1>6, <4>1, <4>2, <4>3
    <3> QED
      BY <3>3 DEF ListenersUpToDate
  <2> QED
    BY <2>1, <2>2, <2>3 DEF Telling
<1> QED
  BY <1>8, <1>9, <1>10, <1>11, <1>13 DEF VarInv

LEMMA NotifyThrowsKeeps ==
  ASSUME VarInv, NEW t \in Thread, NotifyThrows(t)
  PROVE  VarInv'
<1> DEFINE v == loc[t].v
           w == loc[t].w
<1>1. TypeOK /\ Calls /\ Locks /\ Telling
  BY DEF VarInv
<1>2. /\ pc[t] = "notify" /\ loc[t].todo # {}
      /\ told' = [told EXCEPT ![NextListener(t)] = w]
      /\ spoilt' = spoilt \cup {v}
      /\ readers' = [readers EXCEPT ![v] = @ \ {t}]
      /\ pc' = [pc EXCEPT ![t] = "idle"] /\ loc' = [loc EXCEPT ![t] = NoLocals]
      /\ UNCHANGED <<m_val, m_cbs, s_fun_id, writer, keyOf, mixed, fresh, ops>>
  BY DEF NotifyThrows, Unlock, Back, Goto, dataVars
<1>3. /\ told' \in [Listener -> Val \cup {Null}]
      /\ \A x \in Var \ {v} : \A k \in DOMAIN m_cbs[x] : told'[m_cbs[x][k]] = told[m_cbs[x][k]]
      /\ \A l \in Listener : Nowhere(l) => told'[l] = Null
  BY <1>2, Told
<1>4. v \in Var /\ w \in Val
  BY <1>1, <1>2, NextListenerIn
<1>5. /\ pc'[t] = "idle"
      /\ \A u \in Thread \ {t} : pc'[u] = pc[u] /\ loc'[u] = loc[u]
  BY <1>1, <1>2 DEF TypeOK
<1>6. TypeOK'
  <2>1. NoLocals \in Locals
    BY MaxIdNat DEF NoLocals, Locals
  <2> QED
    BY <1>1, <1>2, <1>3, <1>4, <2>1 DEF TypeOK
<1> HIDE DEF v, w
<1>7. Counting' /\ Keys' /\ Listeners'
  BY <1>2, <1>3, <1>5, AddsKept DEF Sets
<1>8. /\ readers' \in [Var -> SUBSET Thread]
      /\ \A x \in Var : readers'[x] \subseteq readers[x]
      /\ \A x \in Var, u \in Thread \ {t} : u \in readers[x] => u \in readers'[x]
  BY <1>1, <1>2, <1>4 DEF TypeOK
<1>9. Calls'
  BY <1>1, <1>2, <1>5, <1>8 DEF Calls, CallOK, Sets, Adds
<1>10. Locks'
  BY <1>1, <1>2, <1>8 DEF Locks
<1>11. \A u \in Thread, x \in Var : Setting(u, x)' <=> u # t /\ Setting(u, x)
  BY <1>5 DEF Setting
<1>12. Telling'
  <2>1. Meeting'
    BY <1>1, <1>5, <1>11 DEF Telling, Meeting
  <2>2. ASSUME NEW u \in Thread PROVE TellOK(u)'
    <3>1. TellOK(u)
      BY <1>1 DEF Telling
    <3>2. CASE u = t
      BY <1>5, <3>2 DEF TellOK, Sets
    <3>3. CASE u # t /\ loc[u].v = v
      <4>1. pc[u] \in Sets => loc[u].met
        BY <1>1, <1>2, <1>4, <3>3 DEF Telling, Meeting, Setting, Sets, v
      <4> QED
        BY <4>1, <1>2, <1>5, <3>3 DEF TellOK
    <3>4. CASE u # t /\ loc[u].v # v
      <4>1. pc[u] \in Sets => loc[u].v \in Var
        BY <1>1 DEF Calls, CallOK
      <4> QED
        BY <3>1, <4>1, <1>2, <1>3, <1>5, <3>4 DEF TellOK
    <3> QED
      BY <3>2, <3>3, <3>4
  <2>3. ListenersUpToDate'
    <3>1. \A x \in Var \ {v} : Met(x)' <=> Met(x)
      BY <1>2, <1>11 DEF Met, Setting, v
    <3> QED
      BY <1>1, <1>2, <1>3, <1>4, <3>1 DEF Telling, ListenersUpToDate
  <2> QED
    BY <2>1, <2>2, <2>3 DEF Telling
<1> QED
  BY <1>6, <1>7, <1>9, <1>10, <1>12 DEF VarInv

LEMMA NotifyReentersKeeps ==
  ASSUME VarInv, NEW t \in Thread, NotifyReenters(t)
  PROVE  VarInv'
<1> DEFINE v == loc[t].v
           w == loc[t].w
<1>1. TypeOK /\ Calls /\ Locks /\ Telling
  BY DEF VarInv
<1>2. /\ pc[t] = "notify" /\ loc[t].todo # {}
      /\ told' = [told EXCEPT ![NextListener(t)] = w]
      /\ pc' = [pc EXCEPT ![t] = "relock"]
      /\ UNCHANGED <<m_val, m_cbs, s_fun_id, readers, writer, keyOf, spoilt, mixed, fresh, loc, ops>>
  BY DEF NotifyReenters, dataVars, lockVars
<1>3. /\ told' \in [Listener -> Val \cup {Null}]
      /\ \A x \in Var \ {v} : \A k \in DOMAIN m_cbs[x] : told'[m_cbs[x][k]] = told[m_cbs[x][k]]
      /\ \A k \in DOMAIN m_cbs[v] : told'[m_cbs[v][k]] \in {told[m_cbs[v][k]], w}
      /\ \A l \in Listener : Nowhere(l) => told'[l] = Null
  BY <1>2, Told
<1>4. v \in Var /\ w \in Val
  BY <1>1, <1>2, NextListenerIn
<1>5. pc'[t] = "relock" /\ \A u \in Thread \ {t} : pc'[u] = pc[u]
  BY <1>1, <1>2 DEF TypeOK
<1>6. TypeOK'
  BY <1>1, <1>2, <1>3 DEF TypeOK
<1> HIDE DEF v, w
<1>7. Counting' /\ Keys' /\ Listeners'
  BY <1>2, <1>3, <1>5, AddsKept DEF Sets
<1>8. Calls' /\ Locks'
  BY <1>1, <1>2, <1>5 DEF Calls, CallOK, Locks, Sets, Adds
<1>9. \A u \in Thread, x \in Var : Setting(u, x)' <=> Setting(u, x)
  BY <1>2, <1>5 DEF Setting
<1>10. Telling'
  <2>1. Meeting'
    BY <1>1, <1>2, <1>9 DEF Telling, Meeting
  <2>2. ASSUME NEW u \in Thread PROVE TellOK(u)'
    <3>1. TellOK(u)
      BY <1>1 DEF Telling
    <3>2. CASE u = t
      BY <1>2, <1>3, <3>1, <3>2 DEF TellOK, Sets, v, w
    <3>3. CASE u # t /\ loc[u].v = v
      <4>1. pc[u] \in Sets => loc[u].met
        BY <1>1, <1>2, <1>4, <3>3 DEF Telling, Meeting, Setting, Sets, v
      <4> QED
        BY <4>1, <1>2, <1>5, <3>3 DEF TellOK
    <3>4. CASE u # t /\ loc[u].v # v
      <4>1. pc[u] \in Sets => loc[u].v \in Var
        BY <1>1 DEF Calls, CallOK
      <4> QED
        BY <3>1, <4>1, <1>2, <1>3, <1>5, <3>4 DEF TellOK
    <3> QED
      BY <3>2, <3>3, <3>4
  <2>3. ListenersUpToDate'
    <3>1. \A x \in Var : x = v => Met(x)'
      BY <1>2, <1>9 DEF Met, Setting, v
    <3>2. \A x \in Var : Met(x)' <=> Met(x)
      BY <1>9 DEF Met
    <3>3. ASSUME NEW x \in Var, ~Met(x)', x \notin spoilt', NEW k \in DOMAIN m_cbs'[x]
          PROVE  told'[m_cbs'[x][k]] \in {Null, m_val'[x]}
      <4>1. x # v
        BY <3>1, <3>3
      <4>2. ~Met(x) /\ x \notin spoilt /\ k \in DOMAIN m_cbs[x]
        BY <1>2, <3>2, <3>3
      <4>3. told[m_cbs[x][k]] \in {Null, m_val[x]}
        BY <1>1, <4>2 DEF Telling, ListenersUpToDate
      <4> QED
        BY <1>2, <1>3, <4>1, <4>2, <4>3
    <3> QED
      BY <3>3 DEF ListenersUpToDate
  <2> QED
    BY <2>1, <2>2, <2>3 DEF Telling
<1> QED
  BY <1>6, <1>7, <1>8, <1>10 DEF VarInv

LEMMA SetUnlockKeeps ==
  ASSUME VarInv, NEW t \in Thread, SetUnlock(t)
  PROVE  VarInv'
<1> DEFINE v == loc[t].v
<1>1. TypeOK /\ Calls /\ Locks /\ Telling
  BY DEF VarInv
<1>2. /\ pc[t] = "notify" /\ loc[t].todo = {}
      /\ readers' = [readers EXCEPT ![v] = @ \ {t}]
      /\ pc' = [pc EXCEPT ![t] = "store"]
      /\ UNCHANGED <<m_val, m_cbs, s_fun_id, writer, keyOf, spoilt, mixed, told, fresh, loc, ops>>
  BY DEF SetUnlock, Unlock, dataVars, histVars
<1>3. v \in Var
  BY <1>1, <1>2 DEF Calls, CallOK, Sets
<1>4. pc'[t] = "store" /\ \A u \in Thread \ {t} : pc'[u] = pc[u]
  BY <1>1, <1>2 DEF TypeOK
<1>5. /\ readers' \in [Var -> SUBSET Thread]
      /\ \A x \in Var : readers'[x] \subseteq readers[x]
      /\ \A x \in Var, u \in Thread \ {t} : u \in readers[x] => u \in readers'[x]
  BY <1>1, <1>2, <1>3 DEF TypeOK
<1>6. TypeOK'
  BY <1>1, <1>2, <1>5 DEF TypeOK
<1> HIDE DEF v
<1>7. \A l \in Listener : Nowhere(l) => told'[l] = Null
  BY <1>2 DEF Nowhere
<1>8. Counting' /\ Keys' /\ Listeners'
  BY <1>2, <1>4, <1>7, AddsKept DEF Sets
<1>9. Calls'
  BY <1>1, <1>2, <1>4, <1>5 DEF Calls, CallOK, Sets, Adds
<1>10. Locks'
  BY <1>1, <1>2, <1>5 DEF Locks
<1>11. \A u \in Thread, x \in Var : Setting(u, x)' <=> Setting(u, x)
  BY <1>2, <1>4 DEF Setting
<1>12. Telling'
  <2>1. Meeting'
    BY <1>1, <1>2, <1>11 DEF Telling, Meeting
  <2>2. \A u \in Thread : TellOK(u)'
    BY <1>1, <1>2, <1>4 DEF Telling, TellOK, Sets
  <2>3. \A x \in Var : Met(x)' <=> Met(x)
    BY <1>11 DEF Met
  <2>4. ListenersUpToDate'
    BY <1>1, <1>2, <2>3 DEF Telling, ListenersUpToDate
  <2> QED
    BY <2>1, <2>2, <2>4 DEF Telling
<1> QED
  BY <1>6, <1>8, <1>9, <1>10, <1>12 DEF VarInv

(* The value is stored: what a call that met no other one has told.        *)
LEMMA SetStoreKeeps ==
  ASSUME VarInv, NEW t \in Thread, SetStore(t)
  PROVE  VarInv'
<1> DEFINE v == loc[t].v
           w == loc[t].w
<1>1. TypeOK /\ Calls /\ Locks /\ Telling
  BY DEF VarInv
<1>2. /\ pc[t] = "store"
      /\ m_val' = [m_val EXCEPT ![v] = w]
      /\ spoilt' = IF loc[t].met THEN spoilt \cup {v} ELSE spoilt \ {v}
      /\ pc' = [pc EXCEPT ![t] = "idle"] /\ loc' = [loc EXCEPT ![t] = NoLocals]
      /\ UNCHANGED <<m_cbs, s_fun_id, readers, writer, keyOf, mixed, told, fresh, ops>>
  BY DEF SetStore, Stored, Back, Goto, lockVars
<1>3. v \in Var /\ w \in Val /\ loc[t].todo = {}
  BY <1>1, <1>2 DEF Calls, CallOK, Sets
<1>4. /\ pc'[t] = "idle"
      /\ \A u \in Thread \ {t} : pc'[u] = pc[u] /\ loc'[u] = loc[u]
  BY <1>1, <1>2 DEF TypeOK
<1>5. TypeOK'
  <2>1. NoLocals \in Locals
    BY MaxIdNat DEF NoLocals, Locals
  <2>2. spoilt' \subseteq Var
    BY <1>1, <1>2, <1>3 DEF TypeOK
  <2> QED
    BY <1>1, <1>2, <1>3, <2>1, <2>2 DEF TypeOK
<1> HIDE DEF v, w
<1>6. \A l \in Listener : Nowhere(l) => told'[l] = Null
  BY <1>2 DEF Nowhere
<1>7. Counting' /\ Keys' /\ Listeners'
  BY <1>2, <1>4, <1>6, AddsKept DEF Sets
<1>8. Calls'
  BY <1>1, <1>2, <1>4 DEF Calls, CallOK, Sets, Adds
<1>9. Locks'
  BY <1>1, <1>2 DEF Locks
<1>10. \A u \in Thread, x \in Var : Setting(u, x)' <=> u # t /\ Setting(u, x)
  BY <1>4 DEF Setting
<1>11. Telling'
  <2>1. Meeting'
    BY <1>1, <1>4, <1>10 DEF Telling, Meeting
  <2>2. \A u \in Thread : TellOK(u)'
    BY <1>1, <1>2, <1>4 DEF Telling, TellOK, Sets
  <2>3. ListenersUpToDate'
    <3>1. \A x \in Var \ {v} : Met(x)' <=> Met(x)
      BY <1>2, <1>10 DEF Met, Setting, v
    <3>2. \A x \in Var \ {v} : m_val'[x] = m_val[x] /\ (x \in spoilt' <=> x \in spoilt)
      BY <1>1, <1>2, <1>3 DEF TypeOK
    <3>3. CASE loc[t].met
      BY <1>1, <1>2, <3>1, <3>2, <3>3 DEF Telling, ListenersUpToDate
    <3>4. CASE ~loc[t].met
      <4>1. m_val'[v] = w
        BY <1>1, <1>2, <1>3 DEF TypeOK
      <4>2. \A k \in DOMAIN m_cbs[v] : told[m_cbs[v][k]] \in {Null, w}
        BY <1>1, <1>2, <1>3, <3>4 DEF Telling, TellOK, Sets, v, w
      <4> QED
        BY <1>1, <1>2, <3>1, <3>2, <4>1, <4>2 DEF Telling, ListenersUpToDate
    <3> QED
      BY <3>3, <3>4
  <2> QED
    BY <2>1, <2>2, <2>3 DEF Telling
<1> QED
  BY <1>5, <1>7, <1>8, <1>9, <1>11 DEF VarInv

(* A step outside setValue() that takes listeners away, or puts in one     *)
(* that has heard nothing, keeps what the listeners have heard.            *)
LEMMA TellingKept ==
  ASSUME VarInv, NEW t \in Thread,
         UNCHANGED <<m_val, spoilt, told>>,
         pc[t] \notin Sets, pc'[t] \notin Sets,
         \A u \in Thread \ {t} : pc'[u] = pc[u] /\ loc'[u] = loc[u],
         \A x \in Var : \A k \in DOMAIN m_cbs'[x] :
           \/ told[m_cbs'[x][k]] = Null
           \/ k \in DOMAIN m_cbs[x] /\ m_cbs'[x][k] = m_cbs[x][k]
  PROVE  Telling'
<1>1. Telling /\ Calls
  BY DEF VarInv
<1>2. \A u \in Thread, x \in Var : Setting(u, x)' <=> Setting(u, x)
  BY DEF Setting, Sets
<1>3. Meeting'
  BY <1>1 DEF Telling, Meeting, Setting, Sets
<1>4. ASSUME NEW u \in Thread PROVE TellOK(u)'
  <2>1. TellOK(u) /\ (pc[u] \in Sets => loc[u].v \in Var)
    BY <1>1 DEF Telling, Calls, CallOK
  <2> QED
    BY <2>1 DEF TellOK
<1>5. \A x \in Var : Met(x)' <=> Met(x)
  BY <1>2 DEF Met
<1>6. ListenersUpToDate'
  <2>1. ASSUME NEW x \in Var, ~Met(x)', x \notin spoilt', NEW k \in DOMAIN m_cbs'[x]
        PROVE  told'[m_cbs'[x][k]] \in {Null, m_val'[x]}
    <3>1. ~Met(x) /\ x \notin spoilt
      BY <1>5, <2>1
    <3>2. \A i \in DOMAIN m_cbs[x] : told[m_cbs[x][i]] \in {Null, m_val[x]}
      BY <1>1, <3>1 DEF Telling, ListenersUpToDate
    <3> QED
      BY <2>1, <3>2
  <2> QED
    BY <2>1 DEF ListenersUpToDate
<1> QED
  BY <1>3, <1>4, <1>6 DEF Telling

LEMMA AddListenerKeeps ==
  ASSUME VarInv, NEW t \in Thread, NEW v \in Var, NEW l \in Listener, AddListener(t, v, l)
  PROVE  VarInv'
<1> DEFINE new == [NoLocals EXCEPT !.v = v, !.l = l]
<1>1. TypeOK /\ Counting /\ Calls /\ Locks /\ Keys /\ Listeners
  BY DEF VarInv
<1>2. /\ pc[t] = "idle" /\ ops < MaxOps /\ ops' = ops + 1
      /\ writer[v] = Null /\ readers[v] = {} /\ l \in fresh /\ fresh' = fresh \ {l}
      /\ writer' = [writer EXCEPT ![v] = t]
      /\ pc' = [pc EXCEPT ![t] = "add"] /\ loc' = [loc EXCEPT ![t] = new]
      /\ UNCHANGED <<m_val, m_cbs, s_fun_id, readers, keyOf, spoilt, told>>
  BY DEF AddListener, Call, CanWrite, Goto, dataVars
<1>3. mixed' \in BOOLEAN /\ (~mixed' => ~mixed /\ \A u \in Thread : pc[u] \notin Adds)
  BY DEF AddListener, Adds
<1>4. new \in Locals /\ new.v = v /\ new.l = l
  <2>1. 0 \in 0..MaxId
    BY MaxIdNat
  <2> QED
    BY <2>1 DEF NoLocals, Locals
<1> HIDE DEF new
<1>5. /\ pc'[t] = "add" /\ loc'[t] = new
      /\ \A u \in Thread \ {t} : pc'[u] = pc[u] /\ loc'[u] = loc[u]
      /\ writer'[v] = t /\ \A x \in Var \ {v} : writer'[x] = writer[x]
      /\ t # Null
  BY <1>1, <1>2, ConfigVarAssumption DEF TypeOK
<1>6. TypeOK'
  <2>1. ops' \in 0..MaxOps
    BY <1>1, <1>2, ConfigVarAssumption DEF TypeOK
  <2>2. pc' \in [Thread -> {"idle", "notify", "relock", "store", "add", "addStore", "addKey",
                            "addReturn"}]
    BY <1>1, <1>2 DEF TypeOK
  <2>3. loc' \in [Thread -> Locals] /\ writer' \in [Var -> Thread \cup {Null}]
    BY <1>1, <1>2, <1>4 DEF TypeOK
  <2> QED
    BY <1>1, <1>2, <1>3, <2>1, <2>2, <2>3 DEF TypeOK
<1>7. Counting'
  <2>1. Entering' = Entering \cup {t} /\ t \notin Entering
    BY <1>2, <1>5 DEF Entering
  <2>2. Cardinality(Entering') = Cardinality(Entering) + 1 /\ Cardinality(Entering) \in Nat
    BY <2>1, ThreadsFinite, FS_AddElement DEF Entering
  <2>3. Listener \ fresh' = (Listener \ fresh) \cup {l} /\ l \notin Listener \ fresh
    BY <1>2
  <2>4. IsFiniteSet(Listener \ fresh)
    BY ConfigVarAssumption, FS_Subset
  <2>5. /\ Cardinality(Listener \ fresh') = Cardinality(Listener \ fresh) + 1
        /\ Cardinality(Listener \ fresh) \in Nat
    BY <2>3, <2>4, FS_AddElement, FS_CardinalityType
  <2>6. s_fun_id \in Nat /\ \A u \in Thread : loc[u].reg \in Nat
    BY <1>1, MaxIdNat DEF TypeOK, Locals
  <2>7. s_fun_id' + Cardinality(Entering') <= Cardinality(Listener \ fresh')
    BY <1>1, <1>2, <2>2, <2>5, <2>6 DEF Counting
  <2>8. ASSUME NEW u \in Thread, pc'[u] = "addStore"
        PROVE  loc'[u].reg + Cardinality(Entering') <= Cardinality(Listener \ fresh')
    <3>1. u # t /\ pc[u] = "addStore" /\ loc'[u] = loc[u]
      BY <1>5, <2>8
    <3>2. loc[u].reg + Cardinality(Entering) <= Cardinality(Listener \ fresh)
      BY <1>1, <3>1 DEF Counting
    <3> QED
      BY <2>2, <2>5, <2>6, <3>1, <3>2
  <2>9. \A u \in Thread : pc'[u] \in {"addKey", "addReturn"} => loc'[u].reg >= 1 /\ s_fun_id' >= 1
    BY <1>1, <1>2, <1>5 DEF Counting
  <2> QED
    BY <2>7, <2>8, <2>9 DEF Counting
<1>8. Calls'
  <2> SUFFICES ASSUME NEW u \in Thread PROVE CallOK(u)'
    BY DEF Calls
  <2>1. CallOK(u)
    BY <1>1 DEF Calls
  <2>2. CASE u = t
    BY <1>2, <1>4, <1>5, <2>2 DEF CallOK, Sets
  <2>3. CASE u # t
    <3>1. pc[u] \in Adds => loc[u].v # v
      BY <1>2, <2>1, ConfigVarAssumption DEF CallOK
    <3> QED
      BY <2>1, <2>3, <3>1, <1>2, <1>5 DEF CallOK, Sets
  <2> QED
    BY <2>2, <2>3
<1>9. Locks'
  BY <1>1, <1>2, <1>5 DEF Locks
<1>10. Keys'
  <2> SUFFICES ASSUME ~mixed' PROVE (Alone /\ Ahead /\ (\A u \in Thread : KeyOK(u)) /\ ListenerKept)'
    BY DEF Keys
  <2>1. Ahead /\ ListenerKept /\ \A u \in Thread : pc[u] \notin Adds
    BY <1>1, <1>3 DEF Keys
  <2> QED
    BY <1>2, <1>5, <2>1 DEF Alone, Ahead, KeyOK, ListenerKept, Adds
<1>11. Listeners'
  <2>1. \A m \in Listener : Nowhere(m)' <=> Nowhere(m)
    BY <1>2 DEF Nowhere
  <2>2. Nowhere(l) /\ fresh \subseteq Listener
    BY <1>1, <1>2 DEF Listeners, TypeOK
  <2>3. \A u \in Thread : pc[u] \in BeforeKey => loc[u].l \in Listener \ fresh
    BY <1>1 DEF Calls, CallOK, BeforeKey, Adds
  <2>4. \A m \in fresh' : Nowhere(m)'
    BY <1>1, <1>2, <2>1, <2>2 DEF Listeners
  <2>5. ASSUME NEW u \in Thread, pc'[u] \in BeforeKey
        PROVE  \A m \in Listener : m = loc'[u].l => Nowhere(m)'
    BY <1>1, <1>4, <1>5, <2>1, <2>2, <2>5 DEF Listeners
  <2>6. ASSUME NEW u \in Thread, pc'[u] \in BeforeKey PROVE loc'[u].l \in Listener
    BY <1>4, <1>5, <2>3, <2>6
  <2>7. \A u \in Thread : pc'[u] \in BeforeKey => Nowhere(loc[u].l)'
    BY <2>5, <2>6 DEF Nowhere
  <2>8. \A u, x \in Thread : pc'[u] \in BeforeKey /\ pc'[x] \in BeforeKey /\ u # x
                               => loc'[u].l # loc'[x].l
    BY <1>1, <1>2, <1>4, <1>5, <2>3 DEF Listeners
  <2> QED
    BY <1>1, <1>2, <2>4, <2>7, <2>8 DEF Listeners
<1>12. Telling'
  BY <1>2, <1>5, TellingKept DEF Sets
<1> QED
  BY <1>6, <1>7, <1>8, <1>9, <1>10, <1>11, <1>12 DEF VarInv

LEMMA AddLoadKeeps ==
  ASSUME VarInv, NEW t \in Thread, AddLoad(t)
  PROVE  VarInv'
<1> DEFINE new == [loc[t] EXCEPT !.reg = s_fun_id]
<1>1. TypeOK /\ Counting /\ Calls /\ Locks /\ Keys /\ Listeners
  BY DEF VarInv
<1>2. /\ pc[t] = "add"
      /\ pc' = [pc EXCEPT ![t] = "addStore"] /\ loc' = [loc EXCEPT ![t] = new]
      /\ UNCHANGED <<m_val, m_cbs, s_fun_id, readers, writer, keyOf, spoilt, mixed, told, fresh, ops>>
  BY DEF AddLoad, Goto, dataVars, lockVars, histVars
<1>3. new \in Locals /\ new.v = loc[t].v /\ new.l = loc[t].l /\ new.reg = s_fun_id
  BY <1>1 DEF TypeOK, Locals
<1> HIDE DEF new
<1>4. /\ pc'[t] = "addStore" /\ loc'[t] = new
      /\ \A u \in Thread \ {t} : pc'[u] = pc[u] /\ loc'[u] = loc[u]
  BY <1>1, <1>2 DEF TypeOK
<1>5. TypeOK'
  BY <1>1, <1>2, <1>3 DEF TypeOK
<1>6. Counting'
  <2>1. Entering' = Entering
    BY <1>2, <1>4 DEF Entering
  <2> QED
    BY <1>1, <1>2, <1>3, <1>4, <2>1 DEF Counting
<1>7. Calls' /\ Locks'
  BY <1>1, <1>2, <1>3, <1>4 DEF Calls, CallOK, Locks, Sets, Adds
<1>8. Keys'
  BY <1>1, <1>2, <1>3, <1>4 DEF Keys, Alone, Ahead, KeyOK, ListenerKept, Adds
<1>9. Listeners'
  BY <1>1, <1>2, <1>3, <1>4 DEF Listeners, Nowhere, BeforeKey
<1>10. Telling'
  BY <1>2, <1>4, TellingKept DEF Sets
<1> QED
  BY <1>5, <1>6, <1>7, <1>8, <1>9, <1>10 DEF VarInv

LEMMA AddStoreKeeps ==
  ASSUME VarInv, NEW t \in Thread, AddStore(t)
  PROVE  VarInv'
<1> DEFINE new == [loc[t] EXCEPT !.reg = @ + 1]
<1>1. TypeOK /\ Counting /\ Calls /\ Locks /\ Keys /\ Listeners
  BY DEF VarInv
<1>2. /\ pc[t] = "addStore" /\ s_fun_id' = loc[t].reg + 1
      /\ pc' = [pc EXCEPT ![t] = "addKey"] /\ loc' = [loc EXCEPT ![t] = new]
      /\ UNCHANGED <<m_val, m_cbs, readers, writer, keyOf, spoilt, mixed, told, fresh, ops>>
  BY DEF AddStore, Goto, lockVars, histVars
<1>3. /\ Cardinality(Listener \ fresh) \in Nat /\ Cardinality(Listener \ fresh) <= MaxId
      /\ MaxId \in Nat
  BY <1>1, GivenBound, MaxIdNat DEF TypeOK
<1>4. t \in Entering /\ IsFiniteSet(Entering) /\ Cardinality(Entering) \in Nat
  BY <1>2, ThreadsFinite DEF Entering
<1>5. Cardinality(Entering \ {t}) = Cardinality(Entering) - 1 /\ Cardinality(Entering \ {t}) \in Nat
  BY <1>4, FS_RemoveElement, ThreadsFinite DEF Entering
<1>6. loc[t].reg \in Nat /\ loc[t].reg + 1 <= MaxId
  <2>1. loc[t].reg \in Nat
    BY <1>1, <1>3 DEF TypeOK, Locals
  <2>2. loc[t].reg + Cardinality(Entering) <= Cardinality(Listener \ fresh)
    BY <1>1, <1>2 DEF Counting
  <2> QED
    BY <1>3, <1>4, <1>5, <2>1, <2>2
<1>7. new \in Locals /\ new.v = loc[t].v /\ new.l = loc[t].l /\ new.reg = loc[t].reg + 1
  <2>1. loc[t].reg + 1 \in 0..MaxId
    BY <1>3, <1>6
  <2> QED
    BY <1>1, <2>1 DEF TypeOK, Locals
<1> HIDE DEF new
<1>8. /\ pc'[t] = "addKey" /\ loc'[t] = new
      /\ \A u \in Thread \ {t} : pc'[u] = pc[u] /\ loc'[u] = loc[u]
  BY <1>1, <1>2 DEF TypeOK
<1>9. TypeOK'
  <2>1. s_fun_id' \in 0..MaxId
    BY <1>2, <1>3, <1>6
  <2>2. pc' \in [Thread -> {"idle", "notify", "relock", "store", "add", "addStore", "addKey",
                            "addReturn"}]
    BY <1>1, <1>2 DEF TypeOK
  <2>3. loc' \in [Thread -> Locals]
    BY <1>1, <1>2, <1>7 DEF TypeOK
  <2> QED
    BY <1>1, <1>2, <2>1, <2>2, <2>3 DEF TypeOK
<1>10. Counting'
  <2>1. Entering' = Entering \ {t}
    BY <1>2, <1>8 DEF Entering
  <2>2. \A u \in Thread : loc[u].reg \in Nat
    BY <1>1, <1>3 DEF TypeOK, Locals
  <2>3. loc[t].reg + Cardinality(Entering) <= Cardinality(Listener \ fresh)
    BY <1>1, <1>2 DEF Counting
  <2>4. s_fun_id' + Cardinality(Entering') <= Cardinality(Listener \ fresh')
    BY <1>2, <1>3, <1>4, <1>5, <1>6, <2>1, <2>3
  <2>5. ASSUME NEW u \in Thread, pc'[u] = "addStore"
        PROVE  loc'[u].reg + Cardinality(Entering') <= Cardinality(Listener \ fresh')
    <3>1. u # t /\ pc[u] = "addStore" /\ loc'[u] = loc[u]
      BY <1>8, <2>5
    <3>2. loc[u].reg + Cardinality(Entering) <= Cardinality(Listener \ fresh)
      BY <1>1, <3>1 DEF Counting
    <3> QED
      BY <1>2, <1>3, <1>4, <1>5, <2>1, <2>2, <3>1, <3>2
  <2>6. \A u \in Thread : pc'[u] \in {"addKey", "addReturn"} => loc'[u].reg >= 1 /\ s_fun_id' >= 1
    BY <1>1, <1>2, <1>6, <1>7, <1>8 DEF Counting
  <2> QED
    BY <2>4, <2>5, <2>6 DEF Counting
<1>11. Calls' /\ Locks'
  BY <1>1, <1>2, <1>7, <1>8 DEF Calls, CallOK, Locks, Sets, Adds
<1>12. Keys'
  <2> SUFFICES ASSUME ~mixed' PROVE (Alone /\ Ahead /\ (\A u \in Thread : KeyOK(u)) /\ ListenerKept)'
    BY DEF Keys
  <2>1. Alone /\ Ahead /\ (\A u \in Thread : KeyOK(u)) /\ ListenerKept
    BY <1>1, <1>2 DEF Keys
  <2>2. \A u \in Thread \ {t} : pc[u] \notin Adds
    BY <1>2, <2>1 DEF Alone, Adds
  <2>3. loc[t].reg = s_fun_id
    BY <1>2, <2>1 DEF KeyOK
  <2>4. \A x \in Var : DOMAIN m_cbs[x] \subseteq Nat
    BY <1>1, <1>3 DEF TypeOK
  <2>5. \A x \in Var : \A k \in DOMAIN m_cbs[x] : k < s_fun_id'
    BY <1>2, <1>6, <2>1, <2>3, <2>4 DEF Ahead
  <2>6. Ahead'
    BY <1>2, <1>6, <2>4, <2>5 DEF Ahead
  <2>7. \A u \in Thread : KeyOK(u)'
    BY <1>2, <1>7, <1>8, <2>2, <2>5 DEF KeyOK, Adds
  <2> QED
    BY <1>2, <1>8, <2>1, <2>2, <2>6, <2>7 DEF Alone, ListenerKept, Adds
<1>13. Listeners'
  BY <1>1, <1>2, <1>7, <1>8 DEF Listeners, Nowhere, BeforeKey
<1>14. Telling'
  BY <1>2, <1>8, TellingKept DEF Sets
<1> QED
  BY <1>9, <1>10, <1>11, <1>12, <1>13, <1>14 DEF VarInv

(* The listener comes into the map of its variable, under a key that is    *)
(* new unless two calls of addListener() have met.                         *)
LEMMA AddKeyKeeps ==
  ASSUME VarInv, NEW t \in Thread, AddKey(t)
  PROVE  VarInv'
<1> DEFINE v == loc[t].v
           l == loc[t].l
<1>1. TypeOK /\ Counting /\ Calls /\ Locks /\ Keys /\ Listeners
  BY DEF VarInv
<1>2. PICK k \in {loc[t].reg, s_fun_id} :
        /\ m_cbs' = [m_cbs EXCEPT ![v] = With(@, k, l)]
        /\ Goto(t, "addReturn", [loc[t] EXCEPT !.reg = k])
  BY DEF AddKey
<1> DEFINE new == [loc[t] EXCEPT !.reg = k]
<1>3. /\ pc[t] = "addKey"
      /\ pc' = [pc EXCEPT ![t] = "addReturn"] /\ loc' = [loc EXCEPT ![t] = new]
      /\ UNCHANGED <<m_val, s_fun_id, readers, writer, keyOf, spoilt, mixed, told, fresh, ops>>
  BY <1>2 DEF AddKey, Goto, lockVars, histVars
<1>4. v \in Var /\ l \in Listener /\ l \notin fresh /\ writer[v] = t /\ readers[v] = {}
  BY <1>1, <1>3, ConfigVarAssumption DEF Calls, CallOK, Adds, Locks
<1>5. k \in 1..MaxId /\ s_fun_id \in 0..MaxId /\ k >= 1 /\ s_fun_id >= 1
  BY <1>1, <1>2, <1>3, MaxIdNat DEF Counting, TypeOK, Locals
<1>6. new \in Locals /\ new.v = v /\ new.l = l /\ new.reg = k
  BY <1>1, <1>5, MaxIdNat DEF TypeOK, Locals
<1> HIDE DEF new, v, l
<1>7. /\ pc'[t] = "addReturn" /\ loc'[t] = new
      /\ \A u \in Thread \ {t} : pc'[u] = pc[u] /\ loc'[u] = loc[u]
  BY <1>1, <1>3 DEF TypeOK
<1>8. /\ DOMAIN m_cbs' = Var
      /\ DOMAIN m_cbs'[v] = DOMAIN m_cbs[v] \cup {k}
      /\ m_cbs'[v][k] = l
      /\ \A i \in DOMAIN m_cbs[v] \ {k} : m_cbs'[v][i] = m_cbs[v][i]
      /\ \A x \in Var \ {v} : m_cbs'[x] = m_cbs[x]
  BY <1>1, <1>2, <1>4 DEF TypeOK, With
<1>9. TypeOK'
  <2>1. \A x \in Var : /\ DOMAIN m_cbs'[x] \subseteq 1..MaxId
                       /\ \A i \in DOMAIN m_cbs'[x] : m_cbs'[x][i] \in Listener
    BY <1>1, <1>4, <1>5, <1>8 DEF TypeOK
  <2> QED
    BY <1>1, <1>3, <1>6, <1>8, <2>1 DEF TypeOK
<1>10. Counting'
  <2>1. Entering' = Entering
    BY <1>3, <1>7 DEF Entering
  <2> QED
    BY <1>1, <1>3, <1>5, <1>6, <1>7, <2>1 DEF Counting
<1>11. Calls'
  <2> SUFFICES ASSUME NEW u \in Thread PROVE CallOK(u)'
    BY DEF Calls
  <2>1. CallOK(u)
    BY <1>1 DEF Calls
  <2>2. CASE u = t
    BY <1>3, <1>4, <1>6, <1>7, <2>2 DEF CallOK, Sets, Adds
  <2>3. CASE u # t
    <3>1. pc[u] \in {"notify", "relock"} => loc[u].v \in Var /\ loc[u].v # v
      BY <2>1, <1>4 DEF CallOK, Sets
    <3> QED
      BY <2>1, <2>3, <3>1, <1>3, <1>7, <1>8 DEF CallOK, Sets, Adds
  <2> QED
    BY <2>2, <2>3
<1>12. Locks'
  BY <1>1, <1>3 DEF Locks
<1>13. Keys'
  <2> SUFFICES ASSUME ~mixed' PROVE (Alone /\ Ahead /\ (\A u \in Thread : KeyOK(u)) /\ ListenerKept)'
    BY DEF Keys
  <2>1. Alone /\ Ahead /\ (\A u \in Thread : KeyOK(u)) /\ ListenerKept
    BY <1>1, <1>3 DEF Keys
  <2>2. \A u \in Thread \ {t} : pc[u] \notin Adds
    BY <1>3, <2>1 DEF Alone, Adds
  <2>3. k = s_fun_id
    BY <1>2, <1>3, <2>1 DEF KeyOK
  <2>4. \A x \in Var : \A i \in DOMAIN m_cbs[x] : i < s_fun_id
    BY <1>3, <2>1 DEF KeyOK
  <2>5. Alone'
    BY <1>7, <2>2 DEF Alone, Adds
  <2>6. Ahead'
    BY <1>3, <1>5, <1>8, <2>1, <2>3 DEF Ahead
  <2>7. \A u \in Thread : KeyOK(u)'
    BY <1>3, <1>6, <1>7, <1>8, <2>2, <2>3 DEF KeyOK, Adds
  <2>8. ListenerKept'
    <3>1. ASSUME NEW m \in Listener, keyOf[m] # Null
          PROVE  keyOf[m].k \in DOMAIN m_cbs'[keyOf[m].v] /\ m_cbs'[keyOf[m].v][keyOf[m].k] = m
      <4>1. /\ keyOf[m].v \in Var /\ keyOf[m].k \in DOMAIN m_cbs[keyOf[m].v]
            /\ m_cbs[keyOf[m].v][keyOf[m].k] = m
        BY <1>1, <2>1, <3>1 DEF TypeOK, Registration, ListenerKept
      <4>2. keyOf[m].k # k
        BY <4>1, <2>3, <2>4, <1>5
      <4> QED
        BY <4>1, <4>2, <1>8
    <3> QED
      BY <1>3, <3>1 DEF ListenerKept
  <2> QED
    BY <2>5, <2>6, <2>7, <2>8
<1>14. \A x \in Var : \A i \in DOMAIN m_cbs'[x] :
         \/ x = v /\ i = k /\ m_cbs'[x][i] = l
         \/ i \in DOMAIN m_cbs[x] /\ m_cbs'[x][i] = m_cbs[x][i]
  BY <1>8
<1>15. Nowhere(l)
  BY <1>1, <1>3 DEF Listeners, BeforeKey, l
<1>16. Listeners'
  <2>1. \A m \in Listener : m # l /\ Nowhere(m) => Nowhere(m)'
    BY <1>3, <1>14 DEF Nowhere
  <2>2. \A m \in fresh' : Nowhere(m)'
    BY <1>1, <1>3, <1>4, <2>1 DEF Listeners, TypeOK
  <2>3. \A u \in Thread : pc'[u] \in BeforeKey =>
          u # t /\ pc[u] \in BeforeKey /\ loc'[u] = loc[u] /\ loc[u].l # l /\ loc[u].l \in Listener
    BY <1>1, <1>3, <1>7 DEF Listeners, BeforeKey, Adds, Calls, CallOK, l
  <2>4. \A u \in Thread : pc'[u] \in BeforeKey => \A m \in Listener : m = loc[u].l => Nowhere(m)'
    BY <1>1, <2>1, <2>3 DEF Listeners
  <2>5. \A u \in Thread : pc'[u] \in BeforeKey => Nowhere(loc[u].l)'
    BY <2>3, <2>4 DEF Nowhere
  <2>6. \A x, y \in Var : \A i \in DOMAIN m_cbs'[x], j \in DOMAIN m_cbs'[y] :
          m_cbs'[x][i] = m_cbs'[y][j] => x = y
    BY <1>1, <1>14, <1>15 DEF Listeners, Nowhere
  <2> QED
    BY <1>1, <2>2, <2>3, <2>5, <2>6 DEF Listeners
<1>17. Telling'
  <2>1. \A x \in Var : \A i \in DOMAIN m_cbs'[x] :
          \/ told[m_cbs'[x][i]] = Null
          \/ i \in DOMAIN m_cbs[x] /\ m_cbs'[x][i] = m_cbs[x][i]
    BY <1>14, <1>15 DEF Nowhere
  <2> QED
    BY <1>3, <1>7, <2>1, TellingKept DEF Sets
<1> QED
  BY <1>9, <1>10, <1>11, <1>12, <1>13, <1>16, <1>17 DEF VarInv

LEMMA AddReturnKeeps ==
  ASSUME VarInv, NEW t \in Thread, AddReturn(t)
  PROVE  VarInv'
<1> DEFINE v == loc[t].v
           l == loc[t].l
<1>1. TypeOK /\ Counting /\ Calls /\ Locks /\ Keys /\ Listeners
  BY DEF VarInv
<1>2. PICK k \in {loc[t].reg, s_fun_id} : keyOf' = [keyOf EXCEPT ![l] = [v |-> v, k |-> k]]
  BY DEF AddReturn
<1>3. /\ pc[t] = "addReturn"
      /\ writer' = [writer EXCEPT ![v] = Null]
      /\ pc' = [pc EXCEPT ![t] = "idle"] /\ loc' = [loc EXCEPT ![t] = NoLocals]
      /\ UNCHANGED <<m_val, m_cbs, s_fun_id, readers, spoilt, mixed, told, fresh, ops>>
  BY DEF AddReturn, Back, Goto, dataVars
<1>4. v \in Var /\ l \in Listener /\ writer[v] = t
  BY <1>1, <1>3 DEF Calls, CallOK, Adds
<1>5. k \in 1..MaxId
  BY <1>1, <1>2, <1>3, MaxIdNat DEF Counting, TypeOK, Locals
<1> HIDE DEF v, l
<1>6. /\ pc'[t] = "idle"
      /\ \A u \in Thread \ {t} : pc'[u] = pc[u] /\ loc'[u] = loc[u]
      /\ writer'[v] = Null /\ \A x \in Var \ {v} : writer'[x] = writer[x]
      /\ keyOf'[l] = [v |-> v, k |-> k] /\ \A m \in Listener \ {l} : keyOf'[m] = keyOf[m]
  BY <1>1, <1>2, <1>3, <1>4 DEF TypeOK
<1>7. TypeOK'
  <2>1. NoLocals \in Locals /\ [v |-> v, k |-> k] \in Registration
    BY <1>4, <1>5, MaxIdNat DEF NoLocals, Locals, Registration
  <2> QED
    BY <1>1, <1>2, <1>3, <1>4, <2>1 DEF TypeOK
<1>8. Counting'
  <2>1. Entering' = Entering
    BY <1>3, <1>6 DEF Entering
  <2> QED
    BY <1>1, <1>3, <1>6, <2>1 DEF Counting
<1>9. Calls'
  <2> SUFFICES ASSUME NEW u \in Thread PROVE CallOK(u)'
    BY DEF Calls
  <2>1. CallOK(u)
    BY <1>1 DEF Calls
  <2>2. CASE u = t
    BY <1>6, <2>2 DEF CallOK, Sets, Adds
  <2>3. CASE u # t
    <3>1. pc[u] \in Adds => loc[u].v # v
      BY <1>4, <2>1, <2>3 DEF CallOK
    <3> QED
      BY <2>1, <2>3, <3>1, <1>3, <1>6 DEF CallOK, Sets
  <2> QED
    BY <2>2, <2>3
<1>10. Locks'
  BY <1>1, <1>3, <1>6 DEF Locks
<1>11. Keys'
  <2> SUFFICES ASSUME ~mixed' PROVE (Alone /\ Ahead /\ (\A u \in Thread : KeyOK(u)) /\ ListenerKept)'
    BY DEF Keys
  <2>1. Alone /\ Ahead /\ (\A u \in Thread : KeyOK(u)) /\ ListenerKept
    BY <1>1, <1>3 DEF Keys
  <2>2. k = loc[t].reg /\ k \in DOMAIN m_cbs[v] /\ m_cbs[v][k] = l
    BY <1>2, <1>3, <2>1 DEF KeyOK, v, l
  <2>3. Alone' /\ Ahead' /\ \A u \in Thread : KeyOK(u)'
    BY <1>3, <1>6, <2>1 DEF Alone, Ahead, KeyOK, Adds
  <2>4. ListenerKept'
    BY <1>3, <1>6, <2>1, <2>2 DEF ListenerKept
  <2> QED
    BY <2>3, <2>4
<1>12. Listeners'
  BY <1>1, <1>3, <1>6 DEF Listeners, Nowhere, BeforeKey
<1>13. Telling'
  BY <1>3, <1>6, TellingKept DEF Sets
<1> QED
  BY <1>7, <1>8, <1>9, <1>10, <1>11, <1>12, <1>13 DEF VarInv

(* Listeners are taken away: DelListener() and clearListener() change one  *)
(* map, under its lock, and keep the rest.                                 *)
LEMMA RemovalKeeps ==
  ASSUME VarInv, NEW t \in Thread, NEW v \in Var,
         pc[t] = "idle", ops < MaxOps, ops' = ops + 1, CanWrite(v),
         UNCHANGED <<m_val, s_fun_id, lockVars, spoilt, mixed, told, fresh, pc, loc>>,
         DOMAIN m_cbs' = Var,
         \A x \in Var \ {v} : m_cbs'[x] = m_cbs[x],
         DOMAIN m_cbs'[v] \subseteq DOMAIN m_cbs[v],
         \A k \in DOMAIN m_cbs'[v] : m_cbs'[v][k] = m_cbs[v][k],
         keyOf' \in [Listener -> Registration \cup {Null}],
         ~mixed => (ListenerKept => ListenerKept')
  PROVE  VarInv'
<1>1. TypeOK /\ Counting /\ Calls /\ Locks /\ Keys /\ Listeners
  BY DEF VarInv
<1>2. UNCHANGED <<readers, writer>> /\ writer[v] = Null /\ readers[v] = {}
  BY DEF lockVars, CanWrite
<1>3. \A x \in Var : \A k \in DOMAIN m_cbs'[x] : k \in DOMAIN m_cbs[x] /\ m_cbs'[x][k] = m_cbs[x][k]
  OBVIOUS
<1>4. TypeOK'
  <2>1. ops' \in 0..MaxOps
    BY <1>1, ConfigVarAssumption DEF TypeOK
  <2>2. \A x \in Var : /\ DOMAIN m_cbs'[x] \subseteq 1..MaxId
                       /\ \A k \in DOMAIN m_cbs'[x] : m_cbs'[x][k] \in Listener
    BY <1>1, <1>3 DEF TypeOK
  <2> QED
    BY <1>1, <1>2, <2>1, <2>2 DEF TypeOK
<1>5. Counting'
  BY <1>1 DEF Counting, Entering
<1>6. Calls' /\ Locks'
  <2>1. ASSUME NEW u \in Thread PROVE CallOK(u)'
    <3>1. CallOK(u)
      BY <1>1 DEF Calls
    <3>2. pc[u] \in {"notify", "relock"} => loc[u].v # v /\ loc[u].v \in Var
      BY <1>2, <3>1 DEF CallOK, Sets
    <3> QED
      BY <1>2, <3>1, <3>2 DEF CallOK
  <2> QED
    BY <1>1, <1>2, <2>1 DEF Calls, Locks
<1>7. Keys'
  <2> SUFFICES ASSUME ~mixed' PROVE (Alone /\ Ahead /\ (\A u \in Thread : KeyOK(u)) /\ ListenerKept)'
    BY DEF Keys
  <2>1. Alone /\ Ahead /\ (\A u \in Thread : KeyOK(u)) /\ ListenerKept /\ ~mixed
    BY <1>1 DEF Keys
  <2>2. Alone' /\ Ahead' /\ ListenerKept'
    BY <1>3, <2>1 DEF Alone, Ahead
  <2>3. ASSUME NEW u \in Thread PROVE KeyOK(u)'
    <3>1. KeyOK(u)
      BY <2>1
    <3>2. pc[u] = "addReturn" => loc[u].v \in Var /\ loc[u].v # v
      BY <1>1, <1>2, ConfigVarAssumption DEF Calls, CallOK, Adds
    <3> QED
      BY <1>3, <3>1, <3>2 DEF KeyOK
  <2> QED
    BY <2>2, <2>3
<1>8. Listeners'
  <2>1. \A m \in Listener : Nowhere(m) => Nowhere(m)'
    BY <1>3 DEF Nowhere
  <2>2. \A m \in fresh' : Nowhere(m)'
    BY <1>1, <2>1 DEF Listeners, TypeOK
  <2>3. \A u \in Thread : pc[u] \in BeforeKey => loc[u].l \in Listener
    BY <1>1 DEF Calls, CallOK, BeforeKey, Adds
  <2>4. \A u \in Thread : pc[u] \in BeforeKey => \A m \in Listener : m = loc[u].l => Nowhere(m)'
    BY <1>1, <2>1 DEF Listeners
  <2>5. \A u \in Thread : pc'[u] \in BeforeKey => Nowhere(loc[u].l)'
    BY <2>3, <2>4 DEF Nowhere
  <2>6. \A x, y \in Var : \A i \in DOMAIN m_cbs'[x], j \in DOMAIN m_cbs'[y] :
          m_cbs'[x][i] = m_cbs'[y][j] => x = y
    BY <1>1, <1>3 DEF Listeners
  <2> QED
    BY <1>1, <2>2, <2>5, <2>6 DEF Listeners
<1>9. Telling'
  BY <1>3, TellingKept DEF Sets
<1> QED
  BY <1>4, <1>5, <1>6, <1>7, <1>8, <1>9 DEF VarInv

LEMMA DelListenerKeeps ==
  ASSUME VarInv, NEW t \in Thread, NEW l \in Listener, DelListener(t, l)
  PROVE  VarInv'
<1>1. TypeOK
  BY DEF VarInv
<1>2. PICK v \in Var, k \in 1..MaxId : keyOf[l] = [v |-> v, k |-> k]
  BY <1>1 DEF DelListener, TypeOK, Registration
<1>3. keyOf[l].v = v /\ keyOf[l].k = k
  BY <1>2
<1>4. /\ pc[t] = "idle" /\ ops < MaxOps /\ ops' = ops + 1 /\ CanWrite(v)
      /\ m_cbs' = [m_cbs EXCEPT ![v] = Without(@, k)]
      /\ keyOf' = [keyOf EXCEPT ![l] = Null]
      /\ UNCHANGED <<m_val, s_fun_id, lockVars, spoilt, mixed, told, fresh, pc, loc>>
  BY <1>3 DEF DelListener, Call
<1>5. /\ DOMAIN m_cbs' = Var
      /\ \A x \in Var \ {v} : m_cbs'[x] = m_cbs[x]
      /\ DOMAIN m_cbs'[v] = DOMAIN m_cbs[v] \ {k}
      /\ \A i \in DOMAIN m_cbs'[v] : m_cbs'[v][i] = m_cbs[v][i]
  BY <1>1, <1>4 DEF TypeOK, Without
<1>6. /\ keyOf' \in [Listener -> Registration \cup {Null}]
      /\ keyOf'[l] = Null /\ \A m \in Listener \ {l} : keyOf'[m] = keyOf[m]
  BY <1>1, <1>4 DEF TypeOK
<1>7. ASSUME ListenerKept PROVE ListenerKept'
  <2> SUFFICES ASSUME NEW m \in Listener, keyOf'[m] # Null
               PROVE  /\ keyOf'[m].k \in DOMAIN m_cbs'[keyOf'[m].v]
                      /\ m_cbs'[keyOf'[m].v][keyOf'[m].k] = m
    BY DEF ListenerKept
  <2>1. m # l /\ keyOf'[m] = keyOf[m]
    BY <1>6
  <2>2. /\ keyOf[m].v \in Var /\ keyOf[m].k \in DOMAIN m_cbs[keyOf[m].v]
        /\ m_cbs[keyOf[m].v][keyOf[m].k] = m
    BY <1>1, <1>7, <2>1 DEF ListenerKept, TypeOK, Registration
  <2>3. keyOf[m].v = v => keyOf[m].k # k
    <3>1. ~(l = Null) /\ keyOf[l] # Null
      BY ConfigVarAssumption DEF DelListener
    <3>2. m_cbs[v][k] = l
      BY <1>3, <1>7, <3>1 DEF ListenerKept
    <3> QED
      BY <2>1, <2>2, <3>2
  <2> QED
    BY <1>5, <2>1, <2>2, <2>3
<1> QED
  BY <1>4, <1>5, <1>6, <1>7, RemovalKeeps

LEMMA ClearListenerKeeps ==
  ASSUME VarInv, NEW t \in Thread, NEW v \in Var, ClearListener(t, v)
  PROVE  VarInv'
<1>1. TypeOK
  BY DEF VarInv
<1>2. /\ pc[t] = "idle" /\ ops < MaxOps /\ ops' = ops + 1 /\ CanWrite(v)
      /\ m_cbs' = [m_cbs EXCEPT ![v] = [k \in {} |-> Null]]
      /\ keyOf' = [l \in Listener |->
                    IF keyOf[l] # Null /\ keyOf[l].v = v THEN Null ELSE keyOf[l]]
      /\ UNCHANGED <<m_val, s_fun_id, lockVars, spoilt, mixed, told, fresh, pc, loc>>
  BY DEF ClearListener, Call
<1>3. /\ DOMAIN m_cbs' = Var
      /\ \A x \in Var \ {v} : m_cbs'[x] = m_cbs[x]
      /\ DOMAIN m_cbs'[v] = {}
  BY <1>1, <1>2 DEF TypeOK
<1>4. /\ keyOf' \in [Listener -> Registration \cup {Null}]
      /\ \A m \in Listener : keyOf'[m] # Null => keyOf'[m] = keyOf[m] /\ keyOf[m].v # v
  BY <1>1, <1>2 DEF TypeOK
<1>5. ASSUME ListenerKept PROVE ListenerKept'
  <2> SUFFICES ASSUME NEW m \in Listener, keyOf'[m] # Null
               PROVE  /\ keyOf'[m].k \in DOMAIN m_cbs'[keyOf'[m].v]
                      /\ m_cbs'[keyOf'[m].v][keyOf'[m].k] = m
    BY DEF ListenerKept
  <2>1. keyOf'[m] = keyOf[m] /\ keyOf[m].v # v /\ keyOf[m] # Null
    BY <1>4
  <2>2. /\ keyOf[m].v \in Var /\ keyOf[m].k \in DOMAIN m_cbs[keyOf[m].v]
        /\ m_cbs[keyOf[m].v][keyOf[m].k] = m
    BY <1>1, <1>5, <2>1 DEF ListenerKept, TypeOK, Registration
  <2> QED
    BY <1>3, <2>1, <2>2
<1> QED
  BY <1>2, <1>3, <1>4, <1>5, RemovalKeeps

(* Every step of a thread inside a call.                                   *)
LEMMA ContinueKeeps ==
  ASSUME VarInv, NEW t \in Thread, Continue(t)
  PROVE  VarInv'
BY NotifyKeeps, NotifyThrowsKeeps, NotifyReentersKeeps, SetUnlockKeeps, SetStoreKeeps, AddLoadKeeps,
   AddStoreKeeps, AddKeyKeeps, AddReturnKeeps DEF Continue

-----------------------------------------------------------------------------
(* The registry                                                            *)

(* A step that leaves the registry's map alone keeps what is known of it.  *)
LEMMA RegistryFrame ==
  ASSUME Registry, UNCHANGED <<s_data, made, missing, held, doubled>>
  PROVE  Registry'
BY DEF Registry, Missing, HeldIsRegistered

(* A step that changes neither objects nor values, nor who sets what,      *)
(* keeps the values that were wanted; a name may become doubled.           *)
LEMMA LoadingFrame ==
  ASSUME Loading, UNCHANGED <<s_data, made, held, found, nodes, wanted, m_val, spoilt, pc, loc>>,
         doubled \subseteq doubled'
  PROVE  Loading'
<1>1. \A t \in Thread : FoundOK(t)' /\ WantOK(t)'
  BY DEF Loading, FoundOK, WantOK, FirstNode
<1>2. Wanting'
  BY DEF Loading, Wanting
<1>3. LoadTakesEffect'
  BY DEF Loading, LoadTakesEffect, Met, Setting
<1> QED
  BY <1>1, <1>2, <1>3 DEF Loading

LEMMA AtOps ==
  ASSUME TypeOK, NEW t \in Thread, Call(t)
  PROVE  pc[t] = "idle" /\ ops' \in 0..MaxOps
BY ConfigVarAssumption DEF TypeOK, Call

(* The first critical section of Lookup() returns the object that was      *)
(* returned before, or notes a name that is missing.                       *)
LEMMA SearchKeeps ==
  ASSUME IInv, NEW t \in Thread, NEW n \in Name, missing[t] = Null, Search(t, n),
         UNCHANGED <<dataVars, lockVars, histVars, pc, loc>>, ops' \in 0..MaxOps
  PROVE  IInv'
<1>1. RegistryTypeOK /\ VarInv /\ Registry /\ Loading
  BY DEF IInv
<1>2. VarInv'
  BY <1>1, VarFrame
<1>3. UNCHANGED <<s_data, s_rwmutex, visiting, made, found, nodes, wanted, due>>
  BY DEF Search, loadVars
<1>4. UNCHANGED <<m_val, spoilt, pc, loc>>
  BY DEF dataVars, histVars
<1>5. held' = held
  BY <1>1 DEF Search, Registry
<1>6. CASE missing' = missing /\ doubled' = doubled
  <2>1. RegistryTypeOK'
    BY <1>1, <1>2, <1>3, <1>5, <1>6 DEF RegistryTypeOK, VarInv
  <2> QED
    BY <1>1, <1>2, <1>3, <1>4, <1>5, <1>6, <2>1, RegistryFrame, LoadingFrame DEF IInv
<1>7. CASE /\ s_data[n] = Null /\ CanConstruct
           /\ missing' = [missing EXCEPT ![t] = n]
           /\ doubled' = doubled \cup (IF n \in Range(missing) THEN {n} ELSE {})
  <2>1. RegistryTypeOK'
    <3>1. missing' \in [Thread -> Name \cup {Null}] /\ doubled' \subseteq Name
      BY <1>1, <1>7 DEF RegistryTypeOK
    <3> QED
      BY <1>1, <1>2, <1>3, <1>5, <3>1 DEF RegistryTypeOK, VarInv
  <2>2. /\ missing'[t] = n /\ \A u \in Thread \ {t} : missing'[u] = missing[u]
        /\ DOMAIN missing = Thread /\ n # Null
    BY <1>1, <1>7, ConfigAssumption DEF RegistryTypeOK
  <2>3. Cardinality(Missing') <= Cardinality(Var \ made')
    <3>1. Missing' = Missing \cup {t} /\ t \notin Missing
      BY <2>2 DEF Missing
    <3>2. Cardinality(Missing') = Cardinality(Missing) + 1 /\ Cardinality(Missing) \in Nat
      BY <3>1, ThreadsFinite, FS_AddElement DEF Missing
    <3>3. Cardinality(Var \ made) \in Nat
      BY ConfigVarAssumption, FS_Subset, FS_CardinalityType
    <3>4. Cardinality(Missing) < Cardinality(Var \ made)
      BY <1>7 DEF CanConstruct, Missing
    <3> QED
      BY <1>3, <3>2, <3>3, <3>4
  <2>4. \A u \in Thread : missing'[u] # Null /\ missing'[u] \notin doubled'
                            => s_data'[missing'[u]] = Null
    BY <1>1, <1>3, <1>7, <2>2 DEF Registry
  <2>5. \A u, x \in Thread : u # x /\ missing'[u] # Null /\ missing'[u] = missing'[x]
                               => missing'[u] \in doubled'
    <3>1. \A u \in Thread \ {t} : missing[u] = n => n \in doubled'
      BY <1>7, <2>2 DEF Range
    <3> QED
      BY <1>1, <1>7, <2>2, <3>1 DEF Registry
  <2>6. Registry'
    BY <1>1, <1>3, <1>5, <1>7, <2>3, <2>4, <2>5 DEF Registry, HeldIsRegistered
  <2>7. Loading'
    BY <1>1, <1>3, <1>4, <1>5, <1>7, LoadingFrame
  <2> QED
    BY <1>2, <2>1, <2>6, <2>7 DEF IInv
<1>8. CASE /\ s_data[n] = Null /\ n \in BadName
           /\ missing' = [missing EXCEPT ![t] = Null]
           /\ doubled' = doubled \cup (IF n \in Range(missing) THEN {n} ELSE {})
  <2>1. missing' = missing
    BY <1>1, <1>8 DEF RegistryTypeOK
  <2>2. RegistryTypeOK'
    BY <1>1, <1>2, <1>3, <1>5, <1>8, <2>1 DEF RegistryTypeOK, VarInv
  <2>3. Registry'
    BY <1>1, <1>3, <1>5, <1>8, <2>1 DEF Registry, HeldIsRegistered, Missing
  <2>4. Loading'
    BY <1>1, <1>3, <1>4, <1>5, <1>8, LoadingFrame
  <2> QED
    BY <1>2, <2>2, <2>3, <2>4 DEF IInv
<1> QED
  BY <1>6, <1>7, <1>8 DEF Search

(* The second critical section constructs an object: while the name is not *)
(* doubled nobody has one for it, and no value was wanted.                 *)
LEMMA LookupCreateKeeps ==
  ASSUME IInv, NEW t \in Thread, LookupCreate(t)
  PROVE  IInv'
<1>1. RegistryTypeOK /\ VarInv /\ Registry /\ Loading
  BY DEF IInv
<1> DEFINE n == missing[t]
           v == CHOOSE x \in Var \ made : TRUE
<1>2. /\ n # Null
      /\ made' = made \cup {v}
      /\ s_data' = [s_data EXCEPT ![n] = v]
      /\ held' = held \cup {<<n, v>>}
      /\ missing' = [missing EXCEPT ![t] = Null]
      /\ UNCHANGED <<s_rwmutex, visiting, doubled, found, nodes, wanted, due, configVarVars>>
  BY DEF LookupCreate, Registered, loadVars
<1>3. Var \ made # {} /\ IsFiniteSet(Var \ made) /\ IsFiniteSet(Missing) /\ t \in Missing
  <2>1. IsFiniteSet(Var \ made) /\ IsFiniteSet(Missing) /\ t \in Missing
    BY <1>2, ConfigVarAssumption, FS_Subset, ThreadsFinite DEF Missing
  <2>2. Cardinality(Missing) <= Cardinality(Var \ made)
    BY <1>1 DEF Registry
  <2>3. Cardinality(Missing) # 0 /\ Cardinality(Missing) \in Nat
    BY <2>1, FS_EmptySet, FS_CardinalityType
  <2>4. Cardinality({}) = 0
    BY FS_EmptySet
  <2> QED
    BY <2>1, <2>2, <2>3, <2>4
<1>4. v \in Var /\ v \notin made
  BY <1>3
<1> HIDE DEF v
<1>5. n \in Name /\ n # Null
  BY <1>1, <1>2 DEF RegistryTypeOK
<1>6. /\ s_data'[n] = v /\ \A m \in Name \ {n} : s_data'[m] = s_data[m]
      /\ missing'[t] = Null /\ \A u \in Thread \ {t} : missing'[u] = missing[u]
      /\ v # Null
  BY <1>1, <1>2, <1>4, <1>5, ConfigVarAssumption DEF RegistryTypeOK
<1>7. VarInv' /\ UNCHANGED <<m_val, spoilt, pc, loc>>
  <2>1. UNCHANGED <<dataVars, lockVars, histVars, pc, loc, ops>>
    BY <1>2 DEF configVarVars
  <2>2. ops' \in 0..MaxOps
    BY <1>1, <2>1 DEF RegistryTypeOK, TypeOK
  <2> QED
    BY <1>1, <2>1, <2>2, VarFrame DEF dataVars, histVars
<1>8. RegistryTypeOK'
  <2>1. /\ s_data' \in [Name -> Var \cup {Null}] /\ missing' \in [Thread -> Name \cup {Null}]
        /\ held' \subseteq Name \X Var /\ made' \subseteq Var
    BY <1>1, <1>2, <1>4, <1>5 DEF RegistryTypeOK
  <2> QED
    BY <1>1, <1>2, <1>7, <2>1 DEF RegistryTypeOK, VarInv
<1>9. held \subseteq Name \X Var
  BY <1>1 DEF RegistryTypeOK
<1> HIDE DEF n
<1>11. n \notin doubled => s_data[n] = Null /\ (\A h \in held : h[1] # n) /\ wanted[n] = Null
  <2> SUFFICES ASSUME n \notin doubled
               PROVE  s_data[n] = Null /\ (\A h \in held : h[1] # n) /\ wanted[n] = Null
    OBVIOUS
  <2>1. s_data[n] = Null
    BY <1>1, <1>2 DEF Registry, n
  <2>2. \A h \in held : h[1] # n
    BY <1>1, <1>9, <2>1, ConfigVarAssumption DEF Registry, HeldIsRegistered
  <2>3. wanted[n] = Null
    BY <1>1, <1>5, <2>1 DEF Loading, Wanting
  <2> QED
    BY <2>1, <2>2, <2>3
<1>12. \A h \in held : h[2] # v /\ h[2] \in made
  BY <1>1, <1>4 DEF Registry
<1>13. Registry'
  <2>1. Cardinality(Missing') <= Cardinality(Var \ made')
    <3>1. Missing' = Missing \ {t} /\ Var \ made' = (Var \ made) \ {v} /\ v \in Var \ made
      BY <1>2, <1>4, <1>6 DEF Missing
    <3>2. /\ Cardinality(Missing') = Cardinality(Missing) - 1
          /\ Cardinality(Var \ made') = Cardinality(Var \ made) - 1
      BY <1>3, <3>1, FS_RemoveElement
    <3>3. Cardinality(Missing) \in Nat /\ Cardinality(Var \ made) \in Nat
      BY <1>3, FS_CardinalityType
    <3> QED
      BY <1>1, <3>2, <3>3 DEF Registry
  <2>2. \A u \in Thread : missing'[u] # Null /\ missing'[u] \notin doubled'
                            => s_data'[missing'[u]] = Null
    <3>1. ASSUME NEW u \in Thread, missing'[u] # Null, missing'[u] \notin doubled'
          PROVE  s_data'[missing'[u]] = Null
      <4>1. u # t /\ missing'[u] = missing[u] /\ missing[u] \notin doubled
        BY <1>2, <1>6, <3>1
      <4>2. missing[u] \in Name /\ missing[u] # n /\ s_data[missing[u]] = Null
        BY <1>1, <3>1, <4>1 DEF RegistryTypeOK, Registry, n
      <4> QED
        BY <1>6, <4>1, <4>2
    <3> QED
      BY <3>1
  <2>3. \A u, x \in Thread : u # x /\ missing'[u] # Null /\ missing'[u] = missing'[x]
                               => missing'[u] \in doubled'
    BY <1>1, <1>2, <1>6 DEF Registry
  <2>4. \A h \in held' : h[2] \in made' /\ s_data'[h[1]] # Null
    <3>1. \A h \in held : h[1] \in Name /\ s_data[h[1]] # Null
      BY <1>1, <1>9 DEF Registry
    <3> QED
      BY <1>2, <1>6, <1>12, <3>1
  <2>5. \A g, h \in held' : g[2] = h[2] => g[1] = h[1]
    BY <1>1, <1>2, <1>12 DEF Registry
  <2>6. \A m \in Name : s_data'[m] # Null => <<m, s_data'[m]>> \in held'
    BY <1>1, <1>2, <1>5, <1>6 DEF Registry
  <2>7. HeldIsRegistered'
    <3>1. ASSUME NEW h \in held', h[1] \notin doubled' PROVE s_data'[h[1]] = h[2]
      <4>1. CASE h = <<n, v>>
        BY <1>6, <4>1
      <4>2. CASE h \in held
        <5>1. h[1] \in Name /\ s_data[h[1]] = h[2] /\ h[1] \notin doubled
          BY <1>1, <1>2, <1>9, <3>1, <4>2 DEF Registry, HeldIsRegistered
        <5> QED
          BY <1>6, <1>11, <4>2, <5>1
      <4> QED
        BY <1>2, <4>1, <4>2
    <3> QED
      BY <3>1 DEF HeldIsRegistered
  <2> QED
    BY <2>1, <2>2, <2>3, <2>4, <2>5, <2>6, <2>7 DEF Registry
<1>14. Loading'
  <2>1. ASSUME NEW u \in Thread PROVE FoundOK(u)' /\ WantOK(u)'
    <3>1. FoundOK(u) /\ WantOK(u)
      BY <1>1 DEF Loading
    <3>2. FoundOK(u)'
      BY <1>2, <1>7, <3>1 DEF FoundOK, FirstNode
    <3>3. WantOK(u)'
      BY <1>2, <1>4, <1>7, <3>1 DEF WantOK
    <3> QED
      BY <3>2, <3>3
  <2>2. Wanting'
    BY <1>1, <1>2, <1>6 DEF Loading, Wanting
  <2>3. \A x \in Var : Met(x)' <=> Met(x)
    BY <1>7 DEF Met, Setting
  <2>4. LoadTakesEffect'
    <3>1. ASSUME NEW h \in held', wanted'[h[1]] # Null, h[1] \notin doubled',
                 ~Met(h[2])', h[2] \notin spoilt'
          PROVE  m_val'[h[2]] = wanted'[h[1]]
      <4>1. h \in held
        BY <1>2, <1>11, <3>1
      <4>2. h[2] \in Var /\ ~Met(h[2])
        BY <1>9, <2>3, <3>1, <4>1
      <4> QED
        BY <1>1, <1>2, <1>7, <3>1, <4>1, <4>2 DEF Loading, LoadTakesEffect
    <3> QED
      BY <3>1 DEF LoadTakesEffect
  <2> QED
    BY <2>1, <2>2, <2>4 DEF Loading
<1> QED
  BY <1>7, <1>8, <1>13, <1>14 DEF IInv

(* The walks over the registry change no map.                              *)
LEMMA VisitBeginKeeps ==
  ASSUME IInv, NEW t \in Thread, NEW vs \in SUBSET Var, VisitBegin(t, vs)
  PROVE  IInv'
<1>1. RegistryTypeOK /\ VarInv /\ Registry /\ Loading
  BY DEF IInv
<1>2. /\ Call(t)
      /\ s_rwmutex' = s_rwmutex \cup {t} /\ visiting' = [visiting EXCEPT ![t] = vs]
      /\ UNCHANGED <<s_data, made, missing, held, doubled, found, nodes, wanted, due>>
      /\ UNCHANGED <<dataVars, lockVars, histVars, pc, loc>>
  BY DEF VisitBegin, loadVars
<1>3. VarInv'
  BY <1>1, <1>2, AtOps, VarFrame DEF RegistryTypeOK
<1>4. RegistryTypeOK'
  BY <1>1, <1>2, <1>3 DEF RegistryTypeOK, VarInv
<1>5. Registry' /\ Loading'
  BY <1>1, <1>2, RegistryFrame, LoadingFrame DEF dataVars, histVars
<1> QED
  BY <1>3, <1>4, <1>5 DEF IInv

LEMMA VisitStepKeeps ==
  ASSUME IInv, NEW t \in Thread, VisitRead(t) \/ VisitEnd(t)
  PROVE  IInv'
<1>1. RegistryTypeOK /\ VarInv /\ Registry /\ Loading
  BY DEF IInv
<1>2. /\ s_rwmutex' \subseteq s_rwmutex /\ visiting' \in [Thread -> SUBSET Var]
      /\ UNCHANGED <<s_data, made, missing, held, doubled, found, nodes, wanted, due, configVarVars>>
  BY <1>1 DEF VisitRead, VisitEnd, loadVars, RegistryTypeOK
<1>3. UNCHANGED <<dataVars, lockVars, histVars, pc, loc, ops>>
  BY <1>2 DEF configVarVars
<1>4. ops' \in 0..MaxOps
  BY <1>1, <1>3 DEF RegistryTypeOK, TypeOK
<1>5. VarInv'
  BY <1>1, <1>3, <1>4, VarFrame
<1>6. RegistryTypeOK'
  BY <1>1, <1>2, <1>5 DEF RegistryTypeOK, VarInv
<1>7. Registry' /\ Loading'
  BY <1>1, <1>2, <1>3, RegistryFrame, LoadingFrame DEF dataVars, histVars
<1> QED
  BY <1>5, <1>6, <1>7 DEF IInv

-----------------------------------------------------------------------------
(* Loading, and what the program does with the objects it holds            *)

(* A step of one thread that neither enters setValue() nor stores a value, *)
(* and that spoils the variable whose setValue() it gives up.              *)
LEMMA LoadingKept ==
  ASSUME IInv, NEW t \in Thread, found[t] = Null,
         UNCHANGED <<s_data, made, held, doubled, found, nodes, wanted, m_val>>,
         \A u \in Thread \ {t} : pc'[u] = pc[u] /\ loc'[u] = loc[u],
         pc'[t] \in Sets => /\ pc[t] \in Sets /\ loc'[t].v = loc[t].v
                            /\ loc'[t].w = loc[t].w /\ loc'[t].met = loc[t].met,
         spoilt \subseteq spoilt',
         pc[t] \in Sets /\ pc'[t] \notin Sets => loc[t].v \in spoilt'
  PROVE  Loading'
<1>1. Loading /\ RegistryTypeOK
  BY DEF IInv
<1>2. ASSUME NEW u \in Thread PROVE FoundOK(u)' /\ WantOK(u)'
  <2>1. FoundOK(u) /\ WantOK(u)
    BY <1>1 DEF Loading
  <2>2. FoundOK(u)'
    BY <2>1 DEF FoundOK, FirstNode
  <2>3. WantOK(u)'
    BY <2>1 DEF WantOK
  <2> QED
    BY <2>2, <2>3
<1>3. Wanting'
  BY <1>1 DEF Loading, Wanting
<1>4. \A x \in Var : Met(x) /\ x \notin spoilt' => Met(x)'
  BY DEF Met, Setting, Sets
<1>5. LoadTakesEffect'
  <2>1. ASSUME NEW h \in held', wanted'[h[1]] # Null, h[1] \notin doubled',
               ~Met(h[2])', h[2] \notin spoilt'
        PROVE  m_val'[h[2]] = wanted'[h[1]]
    <3>1. h[2] \in Var
      BY <1>1, <2>1 DEF RegistryTypeOK
    <3>2. ~Met(h[2]) /\ h[2] \notin spoilt
      BY <1>4, <2>1, <3>1
    <3> QED
      BY <1>1, <2>1, <3>2 DEF Loading, LoadTakesEffect
  <2> QED
    BY <2>1 DEF LoadTakesEffect
<1> QED
  BY <1>2, <1>3, <1>5 DEF Loading

(* The value of a setValue() that met no other one is the wanted one.      *)
LEMMA StoreTakesEffect ==
  ASSUME IInv, NEW t \in Thread, SetStore(t), UNCHANGED <<registryVars, loadVars>>
  PROVE  Loading'
<1> DEFINE v == loc[t].v
           w == loc[t].w
<1>1. RegistryTypeOK /\ TypeOK /\ Calls /\ Loading
  BY DEF IInv, VarInv
<1>2. /\ pc[t] = "store"
      /\ m_val' = [m_val EXCEPT ![v] = w]
      /\ spoilt' = IF loc[t].met THEN spoilt \cup {v} ELSE spoilt \ {v}
      /\ pc' = [pc EXCEPT ![t] = "idle"] /\ loc' = [loc EXCEPT ![t] = NoLocals]
      /\ UNCHANGED <<s_data, made, held, doubled, found, nodes, wanted>>
  BY DEF SetStore, Stored, Back, Goto, registryVars, loadVars
<1>3. v \in Var /\ w \in Val
  BY <1>1, <1>2 DEF Calls, CallOK, Sets
<1>4. /\ pc'[t] = "idle"
      /\ \A u \in Thread \ {t} : pc'[u] = pc[u] /\ loc'[u] = loc[u]
      /\ m_val'[v] = w /\ \A x \in Var \ {v} : m_val'[x] = m_val[x]
      /\ \A x \in Var \ {v} : x \in spoilt' <=> x \in spoilt
  BY <1>1, <1>2, <1>3 DEF TypeOK
<1> HIDE DEF v, w
<1>5. ASSUME NEW u \in Thread PROVE FoundOK(u)' /\ WantOK(u)'
  <2>1. FoundOK(u) /\ WantOK(u)
    BY <1>1 DEF Loading
  <2>2. FoundOK(u)'
    BY <1>2, <1>4, <2>1 DEF FoundOK, FirstNode
  <2>3. WantOK(u)'
    BY <1>2, <1>4, <2>1 DEF WantOK, Sets
  <2> QED
    BY <2>2, <2>3
<1>6. Wanting'
  BY <1>1, <1>2 DEF Loading, Wanting
<1>7. \A x \in Var \ {v} : Met(x) => Met(x)'
  BY <1>2, <1>4 DEF Met, Setting, v
<1>8. LoadTakesEffect'
  <2>1. ASSUME NEW h \in held', wanted'[h[1]] # Null, h[1] \notin doubled',
               ~Met(h[2])', h[2] \notin spoilt'
        PROVE  m_val'[h[2]] = wanted'[h[1]]
    <3>1. h \in held /\ h[1] \in Name \ doubled /\ h[2] \in Var /\ h = <<h[1], h[2]>>
      BY <1>1, <1>2, <2>1 DEF RegistryTypeOK
    <3>2. CASE h[2] # v
      <4>1. ~Met(h[2]) /\ h[2] \notin spoilt
        BY <1>4, <1>7, <2>1, <3>1, <3>2
      <4> QED
        BY <1>1, <1>2, <1>4, <2>1, <3>1, <3>2, <4>1 DEF Loading, LoadTakesEffect
    <3>3. CASE h[2] = v
      <4>1. ~loc[t].met
        BY <1>2, <2>1, <3>3
      <4>2. WantOK(t)
        BY <1>1 DEF Loading
      <4>3. wanted[h[1]] = w
        BY <1>2, <3>1, <3>3, <4>1, <4>2 DEF WantOK, Sets, v, w
      <4> QED
        BY <1>2, <1>4, <3>3, <4>3
    <3> QED
      BY <3>2, <3>3
  <2> QED
    BY <2>1 DEF LoadTakesEffect
<1> QED
  BY <1>5, <1>6, <1>8 DEF Loading

LEMMA ProceedKeeps ==
  ASSUME IInv, NEW t \in Thread, Proceed(t)
  PROVE  IInv'
<1>1. RegistryTypeOK /\ VarInv /\ Registry /\ Loading
  BY DEF IInv
<1>2. /\ Continue(t) /\ UNCHANGED <<registryVars, loadVars>>
      /\ UNCHANGED <<s_data, s_rwmutex, visiting, made, missing, held, doubled, found, nodes, wanted, due>>
  BY DEF Proceed, registryVars, loadVars
<1>3. VarInv'
  BY <1>1, <1>2, ContinueKeeps
<1>4. RegistryTypeOK'
  BY <1>1, <1>2, <1>3 DEF RegistryTypeOK, VarInv
<1>5. Registry'
  BY <1>1, <1>2, RegistryFrame
<1>6. pc[t] # "idle" /\ found[t] = Null
  <2>1. pc[t] # "idle"
    BY <1>2 DEF Continue, Notify, NotifyThrows, NotifyReenters, SetUnlock, SetStore, AddLoad,
                AddStore, AddKey, AddReturn
  <2> QED
    BY <1>1, <2>1 DEF Loading, FoundOK
<1>7. pc \in [Thread -> {"idle", "notify", "relock", "store", "add", "addStore", "addKey",
                         "addReturn"}] /\ loc \in [Thread -> Locals]
  BY <1>1 DEF VarInv, TypeOK
<1>8. Loading'
  <2>1. CASE SetStore(t)
    BY <1>2, <2>1, StoreTakesEffect
  <2>2. CASE Notify(t)
    <3> DEFINE new == [loc[t] EXCEPT !.todo = @ \ {Min(@)}]
    <3>1. loc' = [loc EXCEPT ![t] = new] /\ UNCHANGED <<m_val, spoilt, pc>>
      BY <2>2 DEF Notify, dataVars
    <3>2. new.v = loc[t].v /\ new.w = loc[t].w /\ new.met = loc[t].met
      BY <1>7 DEF Locals
    <3> HIDE DEF new
    <3>3. loc'[t] = new /\ \A u \in Thread \ {t} : loc'[u] = loc[u]
      BY <1>7, <3>1
    <3> QED
      BY <1>2, <1>6, <3>1, <3>2, <3>3, LoadingKept
  <2>3. CASE NotifyThrows(t)
    <3>1. /\ spoilt' = spoilt \cup {loc[t].v} /\ m_val' = m_val /\ pc'[t] = "idle"
          /\ \A u \in Thread \ {t} : pc'[u] = pc[u] /\ loc'[u] = loc[u]
      BY <1>7, <2>3 DEF NotifyThrows, Back, Goto, dataVars
    <3> QED
      BY <1>2, <1>6, <3>1, LoadingKept DEF Sets
  <2>4. CASE NotifyReenters(t) \/ SetUnlock(t)
    <3>1. /\ UNCHANGED <<spoilt, m_val, loc>> /\ pc[t] = "notify" /\ pc'[t] \in {"relock", "store"}
          /\ \A u \in Thread \ {t} : pc'[u] = pc[u]
      BY <1>7, <2>4 DEF NotifyReenters, SetUnlock, dataVars, histVars
    <3> QED
      BY <1>2, <1>6, <3>1, LoadingKept DEF Sets
  <2>5. CASE AddLoad(t) \/ AddStore(t) \/ AddKey(t) \/ AddReturn(t)
    <3>1. /\ UNCHANGED <<spoilt, m_val>> /\ pc[t] \in Adds /\ pc'[t] \in Adds \cup {"idle"}
          /\ \A u \in Thread \ {t} : pc'[u] = pc[u] /\ loc'[u] = loc[u]
      <4>1. CASE AddLoad(t)
        BY <1>7, <4>1 DEF AddLoad, Goto, dataVars, histVars, Adds
      <4>2. CASE AddStore(t)
        BY <1>7, <4>2 DEF AddStore, Goto, histVars, Adds
      <4>3. CASE AddKey(t)
        BY <1>7, <4>3 DEF AddKey, Goto, histVars, Adds
      <4>4. CASE AddReturn(t)
        BY <1>7, <4>4 DEF AddReturn, Back, Goto, dataVars, Adds
      <4> QED
        BY <2>5, <4>1, <4>2, <4>3, <4>4
    <3> QED
      BY <1>2, <1>6, <3>1, LoadingKept DEF Sets, Adds
  <2> QED
    BY <1>2, <2>1, <2>2, <2>3, <2>4, <2>5 DEF Continue
<1> QED
  BY <1>3, <1>4, <1>5, <1>8 DEF IInv

(* A thread between two calls has no load under way.                       *)
LEMMA FreeFound ==
  ASSUME IInv, NEW t \in Thread, Free(t)
  PROVE  found[t] = Null
BY DEF IInv, Loading, FoundOK, Free

LEMMA ListenToHeldKeeps ==
  ASSUME IInv, NEW t \in Thread, ListenToHeld(t)
  PROVE  IInv'
<1>1. RegistryTypeOK /\ VarInv /\ Registry /\ Loading
  BY DEF IInv
<1>2. /\ UNCHANGED <<s_data, s_rwmutex, visiting, made, missing, held, doubled, found, nodes, wanted, due>>
      /\ found[t] = Null
  BY FreeFound DEF ListenToHeld, registryVars, loadVars
<1>3. \A h \in held : h[2] \in Var
  BY <1>1 DEF RegistryTypeOK
<1>4. pc \in [Thread -> {"idle", "notify", "relock", "store", "add", "addStore", "addKey",
                         "addReturn"}] /\ loc \in [Thread -> Locals]
  BY <1>1 DEF VarInv, TypeOK
<1>5. VarInv' /\ Loading'
  <2>1. CASE \E h \in held, l \in Listener : AddListener(t, h[2], l)
    <3>1. PICK h \in held, l \in Listener : AddListener(t, h[2], l)
      BY <2>1
    <3>2. /\ UNCHANGED <<spoilt, m_val>> /\ pc[t] = "idle" /\ pc'[t] = "add"
          /\ \A u \in Thread \ {t} : pc'[u] = pc[u] /\ loc'[u] = loc[u]
      BY <1>4, <3>1 DEF AddListener, Call, Goto, dataVars
    <3>3. VarInv'
      BY <1>1, <1>3, <3>1, AddListenerKeeps
    <3> QED
      BY <1>2, <3>2, <3>3, LoadingKept DEF Sets
  <2>2. CASE \E l \in Listener : DelListener(t, l)
    <3>1. PICK l \in Listener : DelListener(t, l)
      BY <2>2
    <3>2. UNCHANGED <<spoilt, m_val, pc, loc>>
      BY <3>1 DEF DelListener
    <3>3. VarInv'
      BY <1>1, <3>1, DelListenerKeeps
    <3> QED
      BY <1>1, <1>2, <3>2, <3>3, LoadingFrame
  <2>3. CASE \E h \in held : ClearListener(t, h[2])
    <3>1. PICK h \in held : ClearListener(t, h[2])
      BY <2>3
    <3>2. UNCHANGED <<spoilt, m_val, pc, loc>>
      BY <3>1 DEF ClearListener
    <3>3. VarInv'
      BY <1>1, <1>3, <3>1, ClearListenerKeeps
    <3> QED
      BY <1>1, <1>2, <3>2, <3>3, LoadingFrame
  <2> QED
    BY <2>1, <2>2, <2>3 DEF ListenToHeld
<1>6. RegistryTypeOK'
  BY <1>1, <1>2, <1>5 DEF RegistryTypeOK, VarInv
<1>7. Registry'
  BY <1>1, <1>2, RegistryFrame
<1> QED
  BY <1>5, <1>6, <1>7 DEF IInv

(* A setValue() by a name, from a load or from the program, makes its      *)
(* value the wanted one of that name, and of no other that is not doubled. *)
LEMMA WantedBySet ==
  ASSUME IInv, NEW t \in Thread, NEW n \in Name, NEW v \in Var, NEW w \in Val,
         <<n, v>> \in held, pc[t] = "idle", SetEnter(t, v, w), ops' \in 0..MaxOps,
         wanted' = [wanted EXCEPT ![n] = w], UNCHANGED registryVars
  PROVE  /\ VarInv' /\ (\A u \in Thread : WantOK(u)') /\ Wanting' /\ LoadTakesEffect'
         /\ \A u \in Thread \ {t} : pc'[u] = pc[u]
<1>1. RegistryTypeOK /\ VarInv /\ Registry /\ Loading
  BY DEF IInv
<1>2. UNCHANGED <<s_data, made, missing, held, doubled>>
  BY DEF registryVars
<1>3. /\ VarInv'
      /\ UNCHANGED <<m_val, m_cbs, spoilt, told>>
      /\ \A u \in Thread \ {t} :
           /\ pc'[u] = pc[u] /\ loc'[u].v = loc[u].v /\ loc'[u].w = loc[u].w
           /\ ~loc'[u].met => ~loc[u].met /\ ~Setting(u, v)
      /\ \/ pc'[t] = "idle" /\ w = m_val[v]
         \/ pc'[t] = "notify" /\ loc'[t].v = v /\ loc'[t].w = w
  BY <1>1, SetEnterKeeps
<1>4. held \subseteq Name \X Var
  BY <1>1 DEF RegistryTypeOK
<1>5. \A m \in Name \ doubled, x \in Var : <<m, x>> \in held => (m = n <=> x = v)
  BY <1>1 DEF Registry, HeldIsRegistered
<1>6. wanted'[n] = w /\ \A m \in Name \ {n} : wanted'[m] = wanted[m]
  BY <1>1 DEF RegistryTypeOK
<1>7. v \in made
  BY <1>1 DEF Registry
<1>8. ASSUME NEW u \in Thread PROVE WantOK(u)'
  <2>1. WantOK(u)
    BY <1>1 DEF Loading
  <2>2. CASE u = t
    BY <1>2, <1>3, <1>5, <1>6, <1>7, <2>2 DEF WantOK, Sets
  <2>3. CASE u # t
    <3>1. pc'[u] \in Sets => pc[u] \in Sets /\ loc'[u].v \in made /\ loc[u].v = loc'[u].v
      BY <1>3, <2>1, <2>3 DEF WantOK
    <3>2. ASSUME pc'[u] \in Sets, ~loc'[u].met, NEW m \in Name \ doubled, <<m, loc'[u].v>> \in held
          PROVE  wanted'[m] = loc'[u].w
      <4>1. ~loc[u].met /\ loc[u].v # v
        BY <1>3, <2>3, <3>1, <3>2 DEF Setting, Sets
      <4>2. m # n
        BY <1>4, <1>5, <3>1, <3>2, <4>1
      <4> QED
        BY <1>3, <1>6, <2>1, <2>3, <3>1, <3>2, <4>1, <4>2 DEF WantOK
    <3> QED
      BY <1>2, <3>1, <3>2 DEF WantOK
  <2> QED
    BY <2>2, <2>3
<1>9. Wanting'
  <2>1. s_data[n] # Null
    BY <1>1 DEF Registry
  <2> QED
    BY <1>1, <1>2, <1>6, <2>1 DEF Loading, Wanting
<1>10. \A x \in Var : Met(x) => Met(x)'
  BY <1>3 DEF Met, Setting
<1>11. LoadTakesEffect'
  <2>1. ASSUME NEW h \in held', wanted'[h[1]] # Null, h[1] \notin doubled',
               ~Met(h[2])', h[2] \notin spoilt'
        PROVE  m_val'[h[2]] = wanted'[h[1]]
    <3>1. h \in held /\ h[1] \in Name \ doubled /\ h[2] \in Var /\ h = <<h[1], h[2]>>
      BY <1>2, <1>4, <2>1
    <3>2. CASE h[1] = n
      <4>1. h[2] = v
        BY <1>5, <3>1, <3>2
      <4>2. pc'[t] # "notify" \/ loc'[t].v # v
        BY <2>1, <4>1 DEF Met, Setting
      <4> QED
        BY <1>3, <1>6, <3>2, <4>1, <4>2
    <3>3. CASE h[1] # n
      <4>1. ~Met(h[2])
        BY <1>10, <2>1, <3>1
      <4> QED
        BY <1>1, <1>3, <1>6, <2>1, <3>1, <3>3, <4>1 DEF Loading, LoadTakesEffect
    <3> QED
      BY <3>2, <3>3
  <2> QED
    BY <2>1 DEF LoadTakesEffect
<1> QED
  BY <1>3, <1>8, <1>9, <1>11

LEMMA SetHeldKeeps ==
  ASSUME IInv, NEW t \in Thread, NEW h \in held, NEW w \in Val, SetHeld(t, h, w)
  PROVE  IInv'
<1>1. RegistryTypeOK /\ VarInv /\ Registry /\ Loading
  BY DEF IInv
<1>2. /\ Call(t) /\ SetEnter(t, h[2], w) /\ wanted' = [wanted EXCEPT ![h[1]] = w]
      /\ UNCHANGED registryVars /\ UNCHANGED <<found, nodes, due>> /\ found[t] = Null
  BY FreeFound DEF SetHeld, SetValue
<1>3. UNCHANGED <<s_data, s_rwmutex, visiting, made, missing, held, doubled>>
  BY <1>2 DEF registryVars
<1>4. h[1] \in Name /\ h[2] \in Var /\ <<h[1], h[2]>> \in held
  BY <1>1 DEF RegistryTypeOK
<1>5. pc[t] = "idle" /\ ops' \in 0..MaxOps
  BY <1>1, <1>2, AtOps DEF RegistryTypeOK
<1>6. /\ VarInv' /\ (\A u \in Thread : WantOK(u)') /\ Wanting' /\ LoadTakesEffect'
      /\ \A u \in Thread \ {t} : pc'[u] = pc[u]
  BY <1>2, <1>4, <1>5, WantedBySet
<1>7. \A u \in Thread : FoundOK(u)'
  BY <1>1, <1>2, <1>3, <1>6 DEF Loading, FoundOK, FirstNode
<1>8. RegistryTypeOK'
  BY <1>1, <1>2, <1>3, <1>4, <1>6 DEF RegistryTypeOK, VarInv
<1>9. Registry'
  BY <1>1, <1>3, RegistryFrame
<1> QED
  BY <1>6, <1>7, <1>8, <1>9 DEF IInv, Loading

LEMMA LoadFromYamlKeeps ==
  ASSUME IInv, NEW t \in Thread, NEW doc \in Document, LoadFromYaml(t, doc)
  PROVE  IInv'
<1> DEFINE new == [i \in {j \in DOMAIN doc : doc[j].n \notin BadName} |-> doc[i]]
<1>1. RegistryTypeOK /\ VarInv /\ Registry /\ Loading
  BY DEF IInv
<1>2. /\ Call(t) /\ nodes' = [nodes EXCEPT ![t] = new] /\ found[t] = Null
      /\ due' = [due EXCEPT ![t] = Settable(doc)]
      /\ UNCHANGED <<s_data, s_rwmutex, visiting, made, missing, held, doubled, found, wanted>>
      /\ UNCHANGED <<dataVars, lockVars, histVars, pc, loc>>
  BY FreeFound DEF LoadFromYaml, registryVars
<1>3. doc \in Seq(Node)
  BY ConfigAssumption
<1>4. DOMAIN new \subseteq Nat /\ \A i \in DOMAIN new : new[i] \in Node
  BY <1>3
<1> HIDE DEF new
<1>5. VarInv'
  BY <1>1, <1>2, AtOps, VarFrame DEF RegistryTypeOK
<1>6. DOMAIN nodes' = Thread /\ nodes'[t] = new /\ \A u \in Thread \ {t} : nodes'[u] = nodes[u]
  BY <1>1, <1>2 DEF RegistryTypeOK
<1>7. RegistryTypeOK'
  <2>1. \A u \in Thread : /\ DOMAIN nodes'[u] \subseteq Nat
                          /\ \A i \in DOMAIN nodes'[u] : nodes'[u][i] \in Node
    BY <1>1, <1>4, <1>6 DEF RegistryTypeOK
  <2>2. due' \in [Thread -> SUBSET Nat]
    BY <1>1, <1>2, <1>3 DEF RegistryTypeOK, Settable
  <2> QED
    BY <1>1, <1>2, <1>5, <1>6, <2>1, <2>2 DEF RegistryTypeOK, VarInv
<1>8. Registry'
  BY <1>1, <1>2, RegistryFrame
<1>9. UNCHANGED <<m_val, spoilt, pc, loc>>
  BY <1>2 DEF dataVars, histVars
<1>10. \A u \in Thread : FoundOK(u)'
  BY <1>1, <1>2, <1>6, <1>9 DEF Loading, FoundOK, FirstNode
<1>11. \A u \in Thread : WantOK(u)'
  BY <1>1, <1>2, <1>9 DEF Loading, WantOK
<1>12. Wanting' /\ LoadTakesEffect'
  BY <1>1, <1>2, <1>9 DEF Loading, Wanting, LoadTakesEffect, Met, Setting
<1> QED
  BY <1>5, <1>7, <1>8, <1>10, <1>11, <1>12 DEF IInv, Loading

(* The first of the nodes that a load has before it, and those after it.   *)
LEMMA NodesPassed ==
  ASSUME RegistryTypeOK, NEW t \in Thread, DOMAIN nodes[t] # {}
  PROVE  /\ FirstNode(t) \in Node
         /\ DOMAIN Passed(t) = Thread
         /\ \A u \in Thread \ {t} : Passed(t)[u] = nodes[u]
         /\ \A u \in Thread : /\ DOMAIN Passed(t)[u] \subseteq Nat
                              /\ \A i \in DOMAIN Passed(t)[u] : Passed(t)[u][i] \in Node
<1>1. /\ DOMAIN nodes = Thread
      /\ \A u \in Thread : /\ DOMAIN nodes[u] \subseteq Nat
                           /\ \A i \in DOMAIN nodes[u] : nodes[u][i] \in Node
  BY DEF RegistryTypeOK
<1>2. Min(DOMAIN nodes[t]) \in DOMAIN nodes[t]
  BY <1>1, MinIn
<1>3. Passed(t) = [nodes EXCEPT ![t] = Without(nodes[t], Min(DOMAIN nodes[t]))]
  BY <1>1 DEF Passed
<1>4. \A i \in DOMAIN Without(nodes[t], Min(DOMAIN nodes[t])) :
        /\ i \in DOMAIN nodes[t]
        /\ Without(nodes[t], Min(DOMAIN nodes[t]))[i] = nodes[t][i]
  BY DEF Without
<1> HIDE DEF Without
<1>5. FirstNode(t) \in Node
  BY <1>1, <1>2 DEF FirstNode
<1> DEFINE rest == Without(nodes[t], Min(DOMAIN nodes[t]))
<1>6. \A i \in DOMAIN rest : i \in DOMAIN nodes[t] /\ rest[i] = nodes[t][i]
  BY <1>4
<1>7. Passed(t) = [nodes EXCEPT ![t] = rest]
  BY <1>3
<1> HIDE DEF rest
<1> QED
  BY <1>1, <1>5, <1>6, <1>7

LEMMA LoadNodeKeeps ==
  ASSUME IInv, NEW t \in Thread, LoadNode(t)
  PROVE  IInv'
<1>1. RegistryTypeOK /\ VarInv /\ Registry /\ Loading
  BY DEF IInv
<1>2. /\ DOMAIN nodes[t] # {} /\ found[t] = Null /\ pc[t] = "idle"
      /\ found' = [found EXCEPT ![t] = s_data[FirstNode(t).n]]
      /\ nodes' = IF s_data[FirstNode(t).n] = Null THEN Passed(t) ELSE nodes
      /\ UNCHANGED <<s_data, s_rwmutex, visiting, made, missing, held, doubled, wanted, due, configVarVars>>
  BY DEF LoadNode, registryVars
<1>3. /\ FirstNode(t) \in Node
      /\ DOMAIN nodes' = Thread
      /\ \A u \in Thread \ {t} : nodes'[u] = nodes[u]
      /\ \A u \in Thread : /\ DOMAIN nodes'[u] \subseteq Nat
                           /\ \A i \in DOMAIN nodes'[u] : nodes'[u][i] \in Node
  <2>1. CASE s_data[FirstNode(t).n] = Null
    <3>1. nodes' = Passed(t)
      BY <1>2, <2>1
    <3> QED
      BY <1>1, <1>2, <3>1, NodesPassed
  <2>2. CASE s_data[FirstNode(t).n] # Null
    <3>1. nodes' = nodes
      BY <1>2, <2>2
    <3> QED
      BY <1>1, <1>2, <3>1, NodesPassed DEF RegistryTypeOK
  <2> QED
    BY <2>1, <2>2
<1>4. FirstNode(t).n \in Name
  BY <1>3 DEF Node
<1>5. UNCHANGED <<dataVars, lockVars, histVars, pc, loc, ops, m_val, spoilt>>
  BY <1>2 DEF configVarVars, dataVars, histVars
<1>6. VarInv'
  <2>1. ops' \in 0..MaxOps
    BY <1>1, <1>5 DEF RegistryTypeOK, TypeOK
  <2> QED
    BY <1>1, <1>5, <2>1, VarFrame
<1>7. RegistryTypeOK'
  <2>1. found' \in [Thread -> Var \cup {Null}]
    BY <1>1, <1>2, <1>4 DEF RegistryTypeOK
  <2> QED
    BY <1>1, <1>2, <1>3, <1>6, <2>1 DEF RegistryTypeOK, VarInv
<1>8. Registry'
  BY <1>1, <1>2, RegistryFrame
<1>9. ASSUME NEW u \in Thread PROVE FoundOK(u)'
  <2>1. FoundOK(u)
    BY <1>1 DEF Loading
  <2>2. found'[t] = s_data[FirstNode(t).n] /\ \A x \in Thread \ {t} : found'[x] = found[x]
    BY <1>1, <1>2 DEF RegistryTypeOK
  <2>3. CASE u # t
    BY <1>2, <1>3, <1>5, <2>1, <2>2, <2>3 DEF FoundOK, FirstNode
  <2>4. CASE u = t /\ s_data[FirstNode(t).n] = Null
    BY <2>2, <2>4 DEF FoundOK
  <2>5. CASE u = t /\ s_data[FirstNode(t).n] # Null
    <3>1. nodes' = nodes
      BY <1>2, <2>5
    <3>2. <<FirstNode(t).n, found'[t]>> \in held
      BY <1>1, <1>4, <2>2, <2>5 DEF Registry
    <3> QED
      BY <1>2, <1>5, <2>5, <3>1, <3>2 DEF FoundOK, FirstNode
  <2> QED
    BY <2>3, <2>4, <2>5
<1>10. \A u \in Thread : WantOK(u)'
  BY <1>1, <1>2, <1>5 DEF Loading, WantOK
<1>11. Wanting' /\ LoadTakesEffect'
  BY <1>1, <1>2, <1>5 DEF Loading, Wanting, LoadTakesEffect, Met, Setting
<1> QED
  BY <1>6, <1>7, <1>8, <1>9, <1>10, <1>11 DEF IInv, Loading

LEMMA LoadSetKeeps ==
  ASSUME IInv, NEW t \in Thread, LoadSet(t)
  PROVE  IInv'
<1> DEFINE n == FirstNode(t).n
           w == FirstNode(t).w
           v == found[t]
<1>1. RegistryTypeOK /\ VarInv /\ Registry /\ Loading
  BY DEF IInv
<1>2. /\ v # Null /\ nodes' = Passed(t) /\ found' = [found EXCEPT ![t] = Null]
      /\ UNCHANGED registryVars /\ UNCHANGED ops
      /\ \/ w # BadVal /\ SetEnter(t, v, w) /\ wanted' = [wanted EXCEPT ![n] = w]
         \/ UNCHANGED <<wanted, dataVars, lockVars, histVars, pc, loc>>
      /\ due' = [due EXCEPT ![t] = @ \ {Min(DOMAIN nodes[t])}] \/ due' = due
  BY DEF LoadSet, Converts
<1>3. pc[t] = "idle" /\ DOMAIN nodes[t] # {} /\ <<n, v>> \in held
  BY <1>1, <1>2 DEF Loading, FoundOK
<1>4. n \in Name /\ v \in Var /\ (w # BadVal => w \in Val)
  <2>1. FirstNode(t) \in Node
    BY <1>1, <1>3, NodesPassed
  <2> QED
    BY <1>1, <1>2, <2>1 DEF Node, RegistryTypeOK
<1>5. UNCHANGED <<s_data, s_rwmutex, visiting, made, missing, held, doubled>>
  BY <1>2 DEF registryVars
<1>6. ops' \in 0..MaxOps
  BY <1>1, <1>2 DEF RegistryTypeOK, TypeOK
<1>7. /\ VarInv' /\ (\A u \in Thread : WantOK(u)') /\ Wanting' /\ LoadTakesEffect'
      /\ \A u \in Thread \ {t} : pc'[u] = pc[u]
      /\ wanted' \in [Name -> Val \cup {Null}]
  <2>1. CASE w # BadVal /\ SetEnter(t, v, w) /\ wanted' = [wanted EXCEPT ![n] = w]
    <3>1. wanted' \in [Name -> Val \cup {Null}]
      BY <1>1, <1>4, <2>1 DEF RegistryTypeOK
    <3> QED
      BY <1>2, <1>3, <1>4, <1>6, <2>1, <3>1, WantedBySet
  <2>2. CASE UNCHANGED <<wanted, dataVars, lockVars, histVars, pc, loc>>
    <3>1. UNCHANGED <<m_val, spoilt, pc, loc>>
      BY <2>2 DEF dataVars, histVars
    <3>2. VarInv'
      BY <1>1, <1>6, <2>2, VarFrame
    <3>3. \A u \in Thread : WantOK(u)'
      BY <1>1, <1>5, <2>2, <3>1 DEF Loading, WantOK
    <3>4. Wanting' /\ LoadTakesEffect'
      BY <1>1, <1>5, <2>2, <3>1 DEF Loading, Wanting, LoadTakesEffect, Met, Setting
    <3> QED
      BY <1>1, <2>2, <3>2, <3>3, <3>4 DEF RegistryTypeOK
  <2> QED
    BY <1>2, <2>1, <2>2
<1>8. /\ DOMAIN nodes' = Thread
      /\ \A u \in Thread \ {t} : nodes'[u] = nodes[u]
      /\ \A u \in Thread : /\ DOMAIN nodes'[u] \subseteq Nat
                           /\ \A i \in DOMAIN nodes'[u] : nodes'[u][i] \in Node
  BY <1>1, <1>2, <1>3, NodesPassed
<1>9. /\ found' \in [Thread -> Var \cup {Null}]
      /\ found'[t] = Null /\ \A u \in Thread \ {t} : found'[u] = found[u]
  BY <1>1, <1>2 DEF RegistryTypeOK
<1>10. RegistryTypeOK'
  <2>1. due' \in [Thread -> SUBSET Nat]
    BY <1>1, <1>2 DEF RegistryTypeOK
  <2> QED
    BY <1>1, <1>5, <1>7, <1>8, <1>9, <2>1 DEF RegistryTypeOK, VarInv
<1>11. Registry'
  BY <1>1, <1>5, RegistryFrame
<1>12. \A u \in Thread : FoundOK(u)'
  BY <1>1, <1>5, <1>7, <1>8, <1>9 DEF Loading, FoundOK, FirstNode
<1> QED
  BY <1>7, <1>10, <1>11, <1>12 DEF IInv, Loading

-----------------------------------------------------------------------------
(* The invariant and the theorems                                          *)

LEMMA InitIInv ==
  Init => IInv
<1> SUFFICES ASSUME Init PROVE IInv
  OBVIOUS
<1> USE DEF Init, ConfigVarInit
<1>1. TypeOK
  <2>1. NoLocals \in Locals /\ 0 \in 0..MaxId
    BY MaxIdNat DEF NoLocals, Locals
  <2>2. DOMAIN m_cbs = Var /\ \A v \in Var : DOMAIN m_cbs[v] = {}
    OBVIOUS
  <2>3. ops \in 0..MaxOps
    BY ConfigVarAssumption
  <2>4. /\ m_val \in [Var -> Val] /\ readers \in [Var -> SUBSET Thread]
        /\ writer \in [Var -> Thread \cup {Null}] /\ loc \in [Thread -> Locals]
    BY <2>1, ConfigVarAssumption
  <2>5. /\ keyOf \in [Listener -> Registration \cup {Null}] /\ told \in [Listener -> Val \cup {Null}]
        /\ spoilt \subseteq Var /\ mixed \in BOOLEAN /\ fresh \subseteq Listener
    OBVIOUS
  <2>6. pc \in [Thread -> {"idle", "notify", "relock", "store", "add", "addStore", "addKey",
                          "addReturn"}]
    OBVIOUS
  <2>7. s_fun_id \in 0..MaxId
    BY <2>1
  <2> QED
    BY <2>2, <2>3, <2>4, <2>5, <2>6, <2>7 DEF TypeOK
<1>2. Counting
  <2>1. Entering = {} /\ Listener \ fresh = {}
    BY DEF Entering
  <2>2. Cardinality(Entering) = 0 /\ Cardinality(Listener \ fresh) = 0
    BY <2>1, FS_EmptySet
  <2>3. \A t \in Thread : pc[t] \notin {"addStore", "addKey", "addReturn"}
    OBVIOUS
  <2>4. s_fun_id = 0
    OBVIOUS
  <2> QED
    BY <2>2, <2>3, <2>4 DEF Counting
<1>3. Calls /\ Locks
  BY DEF Calls, CallOK, Locks, Sets, Adds
<1>4. Keys
  BY DEF Keys, Alone, Ahead, KeyOK, ListenerKept, Adds
<1>5. Listeners
  BY DEF Listeners, Nowhere, BeforeKey
<1>6. Telling
  BY DEF Telling, Meeting, TellOK, ListenersUpToDate, Setting, Sets
<1>7. RegistryTypeOK
  BY <1>1 DEF RegistryTypeOK
<1>8. Registry
  <2>1. Missing = {} /\ IsFiniteSet(Var \ made)
    BY ConfigVarAssumption, FS_Subset DEF Missing
  <2>2. Cardinality(Missing) = 0 /\ Cardinality(Var \ made) \in Nat
    BY <2>1, FS_EmptySet, FS_CardinalityType
  <2>3. Cardinality(Missing) <= Cardinality(Var \ made)
    BY <2>2
  <2> QED
    BY <2>3 DEF Registry, HeldIsRegistered
<1>9. Loading
  BY DEF Loading, FoundOK, WantOK, Wanting, LoadTakesEffect, Sets
<1> QED
  BY <1>1, <1>2, <1>3, <1>4, <1>5, <1>6, <1>7, <1>8, <1>9 DEF IInv, VarInv

LEMMA StutterKeeps ==
  ASSUME IInv, UNCHANGED configVars
  PROVE  IInv'
<1>1. /\ UNCHANGED <<s_data, s_rwmutex, visiting, made, missing, held, doubled, found, nodes, wanted, due>>
      /\ UNCHANGED <<dataVars, lockVars, histVars, pc, loc, ops, m_val, spoilt>>
  BY DEF configVars, registryVars, loadVars, configVarVars, dataVars, histVars
<1>2. RegistryTypeOK /\ VarInv /\ Registry /\ Loading /\ ops' \in 0..MaxOps
  BY <1>1 DEF IInv, RegistryTypeOK, TypeOK
<1>3. VarInv'
  BY <1>1, <1>2, VarFrame
<1>4. RegistryTypeOK'
  BY <1>1, <1>2, <1>3 DEF RegistryTypeOK, VarInv
<1>5. Registry' /\ Loading'
  BY <1>1, <1>2, RegistryFrame, LoadingFrame
<1> QED
  BY <1>3, <1>4, <1>5 DEF IInv

LEMMA NextKeeps ==
  ASSUME IInv, [Next]_configVars
  PROVE  IInv'
<1>1. RegistryTypeOK
  BY DEF IInv
<1>2. CASE UNCHANGED configVars
  BY <1>2, StutterKeeps
<1>3. CASE AllReturned
  BY <1>3, StutterKeeps DEF AllReturned
<1>4. ASSUME NEW t \in Thread, Step(t) PROVE IInv'
  BY <1>4, LookupCreateKeeps, VisitStepKeeps, LoadNodeKeeps, LoadSetKeeps, ProceedKeeps DEF Step
<1>5. ASSUME NEW t \in Thread, ListenToHeld(t) PROVE IInv'
  BY <1>5, ListenToHeldKeeps
<1>6. ASSUME NEW t \in Thread, Visit(t) PROVE IInv'
  <2>1. Range(s_data) \ {Null} \in SUBSET Var
    BY <1>1 DEF RegistryTypeOK, Range
  <2> QED
    BY <1>6, <2>1, VisitBeginKeeps DEF Visit
<1>7. ASSUME NEW t \in Thread, NEW n \in Name, Lookup(t, n) PROVE IInv'
  <2>1. /\ missing[t] = Null /\ Call(t) /\ Search(t, n)
        /\ UNCHANGED <<dataVars, lockVars, histVars, pc, loc>>
    BY <1>7 DEF Lookup, Free
  <2> QED
    BY <1>1, <2>1, AtOps, SearchKeeps DEF RegistryTypeOK
<1>8. ASSUME NEW t \in Thread, NEW n \in Name, ListenerLooksUp(t, n) PROVE IInv'
  <2>1. /\ missing[t] = Null /\ Search(t, n)
        /\ UNCHANGED <<dataVars, lockVars, histVars, pc, loc>> /\ UNCHANGED ops
    BY <1>8 DEF ListenerLooksUp, configVarVars
  <2>2. ops' \in 0..MaxOps
    BY <1>1, <2>1 DEF RegistryTypeOK, TypeOK
  <2> QED
    BY <2>1, <2>2, SearchKeeps
<1>9. ASSUME NEW t \in Thread, NEW n \in Name, LookupOtherType(t, n) PROVE IInv'
  <2>1. {s_data[n]} \in SUBSET Var
    BY <1>1, <1>9 DEF RegistryTypeOK, LookupOtherType
  <2> QED
    BY <1>9, <2>1, VisitBeginKeeps DEF LookupOtherType
<1>10. ASSUME NEW t \in Thread, NEW doc \in Document, LoadFromYaml(t, doc) PROVE IInv'
  BY <1>10, LoadFromYamlKeeps
<1>11. ASSUME NEW t \in Thread, NEW h \in held, NEW w \in Val, SetHeld(t, h, w) PROVE IInv'
  BY <1>11, SetHeldKeeps
<1> QED
  BY <1>2, <1>3, <1>4, <1>5, <1>6, <1>7, <1>8, <1>9, <1>10, <1>11 DEF Next

LEMMA IInvAlways ==
  Spec => []IInv
BY InitIInv, NextKeeps, PTL DEF Spec

(* Every variable keeps its type; in particular s_fun_id, which is loaded  *)
(* and stored without a common lock (config.h:378), stays within the       *)
(* number of listeners added, and no key is zero.                          *)
THEOREM TypesAlways ==
  Spec => []RegistryTypeOK
<1>1. IInv => RegistryTypeOK
  BY DEF IInv
<1> QED
  BY IInvAlways, <1>1, PTL

(* An object that Lookup() returned is the one the registry has under its  *)
(* name, unless two threads looked for the new name at once                *)
(* (config.h:428-454).                                                     *)
THEOREM HeldIsRegisteredAlways ==
  Spec => []HeldIsRegistered
<1>1. IInv => HeldIsRegistered
  BY DEF IInv, Registry
<1> QED
  BY IInvAlways, <1>1, PTL

(* A variable that nobody sets has the value the last load or setValue()   *)
(* had for its name, with the exceptions the property names                *)
(* (config.cpp:40-63, config.h:359-371).                                   *)
THEOREM LoadTakesEffectAlways ==
  Spec => []LoadTakesEffect
<1>1. IInv => LoadTakesEffect
  BY DEF IInv, Loading
<1> QED
  BY IInvAlways, <1>1, PTL

(* A listener that a variable calls heard the variable's value last, or    *)
(* nothing, while nobody sets it, with the exceptions the property names   *)
(* (config.h:359-371).                                                     *)
THEOREM ListenersUpToDateAlways ==
  Spec => []ListenersUpToDate
<1>1. IInv => ListenersUpToDate
  BY DEF IInv, VarInv, Telling
<1> QED
  BY IInvAlways, <1>1, PTL

(* As long as no two calls of addListener() met, a listener stays under    *)
(* the key it was registered with until it is deleted (config.h:375-397).  *)
THEOREM KeptUnlessMixedAlways ==
  Spec => []KeptUnlessMixed
<1>1. IInv => KeptUnlessMixed
  BY DEF IInv, VarInv, Keys, KeptUnlessMixed
<1> QED
  BY IInvAlways, <1>1, PTL

-----------------------------------------------------------------------------
(* A load leaves nothing out                                               *)

(* A node that is owed is before its thread, and will be set: it has a     *)
(* variable, for names are never taken out of the registry, and text that  *)
(* converts.                                                               *)
Owed(t) ==
  \A i \in due[t] :
    /\ i \in DOMAIN nodes[t]
    /\ s_data[nodes[t][i].n] # Null /\ Converts(nodes[t][i].w)
Owing == \A t \in Thread : Owed(t)

(* Only the first node is passed.                                          *)
LEMMA OthersStay ==
  ASSUME IInv, NEW t \in Thread, nodes' = Passed(t)
  PROVE  /\ \A u \in Thread \ {t} : nodes'[u] = nodes[u]
         /\ \A i \in DOMAIN nodes[t] \ {Min(DOMAIN nodes[t])} :
              i \in DOMAIN nodes'[t] /\ nodes'[t][i] = nodes[t][i]
<1>1. DOMAIN nodes = Thread
  BY DEF IInv, RegistryTypeOK
<1> QED
  BY <1>1 DEF Passed, Without

(* A step that changes neither nodes nor what is owed.                     *)
LEMMA OwingFrame ==
  ASSUME IInv, IInv', Owing, held \subseteq held', UNCHANGED <<nodes, due>>
  PROVE  Owing'
<1>1. \A t \in Thread : \A i \in DOMAIN nodes[t] : nodes[t][i].n \in Name
  BY DEF IInv, RegistryTypeOK, Node
<1>2. \A n \in Name : s_data[n] # Null => s_data'[n] # Null
  BY DEF IInv, Registry
<1> QED
  BY <1>1, <1>2 DEF Owing, Owed, Converts

LEMMA LoadFromYamlOwes ==
  ASSUME IInv, Owing, NEW t \in Thread, NEW doc \in Document, LoadFromYaml(t, doc)
  PROVE  Owing'
<1> DEFINE new == [i \in {j \in DOMAIN doc : doc[j].n \notin BadName} |-> doc[i]]
<1>1. /\ nodes' = [nodes EXCEPT ![t] = new] /\ due' = [due EXCEPT ![t] = Settable(doc)]
      /\ s_data' = s_data
  BY DEF LoadFromYaml, registryVars
<1>2. DOMAIN nodes = Thread /\ DOMAIN due = Thread
  BY DEF IInv, RegistryTypeOK
<1>3. Owed(t)'
  BY <1>1, <1>2 DEF Owed, Settable, Converts
<1>4. ASSUME NEW u \in Thread, u # t PROVE Owed(u)'
  BY <1>1, <1>2, <1>4 DEF Owing, Owed, Converts
<1> QED
  BY <1>3, <1>4 DEF Owing

LEMMA LoadNodeOwes ==
  ASSUME IInv, IInv', Owing, NEW t \in Thread, LoadNode(t)
  PROVE  Owing'
<1>1. UNCHANGED <<s_data, held, due>>
  BY DEF LoadNode, registryVars
<1>2. CASE s_data[FirstNode(t).n] = Null
  <2>1. nodes' = Passed(t)
    BY <1>2 DEF LoadNode
  <2>2. Min(DOMAIN nodes[t]) \notin due[t]
    BY <1>2 DEF Owing, Owed, FirstNode
  <2>3. Owed(t)'
    BY <1>1, <2>1, <2>2, OthersStay DEF Owing, Owed, Converts
  <2>4. ASSUME NEW u \in Thread, u # t PROVE Owed(u)'
    BY <1>1, <2>1, <2>4, OthersStay DEF Owing, Owed, Converts
  <2> QED
    BY <2>3, <2>4 DEF Owing
<1>3. CASE s_data[FirstNode(t).n] # Null
  <2>1. nodes' = nodes
    BY <1>3 DEF LoadNode
  <2> QED
    BY <1>1, <2>1, OwingFrame
<1> QED
  BY <1>2, <1>3

(* A node is taken off the list when it is set; one whose text does not    *)
(* convert was not on it.                                                  *)
LEMMA LoadSetOwes ==
  ASSUME IInv, Owing, NEW t \in Thread, LoadSet(t)
  PROVE  Owing'
<1>1. nodes' = Passed(t) /\ s_data' = s_data
  BY DEF LoadSet, registryVars
<1>2. /\ \A u \in Thread \ {t} : due'[u] = due[u]
      /\ due'[t] \subseteq due[t] \ {Min(DOMAIN nodes[t])}
  <2>1. DOMAIN due = Thread
    BY DEF IInv, RegistryTypeOK
  <2>2. CASE Converts(FirstNode(t).w)
    BY <2>1, <2>2 DEF LoadSet
  <2>3. CASE ~Converts(FirstNode(t).w)
    <3>1. due' = due
      BY <2>3 DEF LoadSet
    <3>2. Min(DOMAIN nodes[t]) \notin due[t]
      BY <2>3 DEF Owing, Owed, FirstNode
    <3> QED
      BY <3>1, <3>2
  <2> QED
    BY <2>2, <2>3
<1>3. Owed(t)'
  BY <1>1, <1>2, OthersStay DEF Owing, Owed, Converts
<1>4. ASSUME NEW u \in Thread, u # t PROVE Owed(u)'
  BY <1>1, <1>2, <1>4, OthersStay DEF Owing, Owed, Converts
<1> QED
  BY <1>3, <1>4 DEF Owing

LEMMA OwingStep ==
  ASSUME IInv, Owing, [Next]_configVars
  PROVE  Owing'
<1>1. IInv'
  BY NextKeeps
<1>2. CASE UNCHANGED configVars \/ AllReturned
  <2>1. UNCHANGED <<held, nodes, due>>
    BY <1>2 DEF AllReturned, configVars, registryVars, loadVars
  <2> QED
    BY <1>1, <2>1, OwingFrame
<1>3. ASSUME NEW t \in Thread, Step(t) PROVE Owing'
  <2>1. CASE LookupCreate(t) \/ VisitRead(t) \/ VisitEnd(t) \/ Proceed(t)
    <3>1. held \subseteq held' /\ UNCHANGED <<nodes, due>>
      BY <2>1 DEF LookupCreate, VisitRead, VisitEnd, Proceed, registryVars, loadVars
    <3> QED
      BY <1>1, <3>1, OwingFrame
  <2> QED
    BY <1>1, <1>3, <2>1, LoadNodeOwes, LoadSetOwes DEF Step
<1>4. ASSUME NEW t \in Thread, ListenToHeld(t) \/ Visit(t) PROVE Owing'
  <2>1. UNCHANGED <<held, nodes, due>>
    BY <1>4 DEF ListenToHeld, Visit, VisitBegin, registryVars, loadVars
  <2> QED
    BY <1>1, <2>1, OwingFrame
<1>5. ASSUME NEW t \in Thread, NEW n \in Name,
             Lookup(t, n) \/ ListenerLooksUp(t, n) \/ LookupOtherType(t, n)
      PROVE  Owing'
  <2>1. held \subseteq held' /\ UNCHANGED <<nodes, due>>
    BY <1>5 DEF Lookup, ListenerLooksUp, Search, LookupOtherType, VisitBegin, loadVars
  <2> QED
    BY <1>1, <2>1, OwingFrame
<1>6. ASSUME NEW t \in Thread, NEW h \in held, NEW w \in Val, SetHeld(t, h, w) PROVE Owing'
  <2>1. UNCHANGED <<held, nodes, due>>
    BY <1>6 DEF SetHeld, registryVars
  <2> QED
    BY <1>1, <2>1, OwingFrame
<1> QED
  BY <1>2, <1>3, <1>4, <1>5, <1>6, LoadFromYamlOwes DEF Next

(* LoadFromYaml() (config.cpp:44-60) sets every node of its document whose *)
(* variable existed when it began and whose text converts, whatever        *)
(* becomes of the nodes before it, for any documents and any listeners.    *)
THEOREM LoadWholeAlways ==
  Spec => []LoadWhole
<1>1. ASSUME Init PROVE Owing
  BY <1>1 DEF Init, Owing, Owed
<1>2. Owing => LoadWhole
  BY DEF Owing, Owed, LoadWhole
<1> QED
  BY <1>1, <1>2, IInvAlways, OwingStep, PTL DEF Spec

-----------------------------------------------------------------------------
(* Nobody waits in a circle                                                *)

(* The threads a thread waits for: Lookup() writes the registry, getValue()*)
(* of the variables under the registry's lock and setValue() of a variable *)
(* it has found read a variable, and setValue() writes one in the end, as  *)
(* does a listener of it that calls it again.                              *)
Waits(t, u) ==
  \/ missing[t] # Null /\ u \in s_rwmutex
  \/ /\ missing[t] = Null /\ \A v \in visiting[t] : ~CanRead(v)
     /\ \E v \in visiting[t] : writer[v] = u
  \/ /\ missing[t] = Null /\ found[t] # Null /\ Converts(FirstNode(t).w)
     /\ writer[found[t]] = u
  \/ /\ missing[t] = Null /\ pc[t] \in {"store", "relock"}
     /\ writer[loc[t].v] = u \/ u \in readers[loc[t].v]

(* Whoever is waited for is in a call, and the threads have an order in    *)
(* which each waits only for lower ones: at most three wait behind one     *)
(* another, and none in a circle but a listener that waits for itself.     *)
NoCircularWait ==
  \E rank \in [Thread -> 0..3] : \A t, u \in Thread :
    Waits(t, u) /\ pc[t] # "relock" => /\ rank[u] < rank[t]
                                       /\ ~(Free(u) /\ pc[u] = "idle")

(* What a thread holds says where it is: a variable's lock for writing, in *)
(* addListener() of it; for reading, where its listeners are told; that of *)
(* the registry, outside of every variable and with nothing to create.     *)
HoldsOf(t) ==
  /\ \A v \in Var : writer[v] = t => pc[t] \in Adds /\ loc[t].v = v
  /\ \A v \in Var : t \in readers[v] => pc[t] \in {"notify", "relock"} /\ loc[t].v = v
  /\ visiting[t] # {} => t \in s_rwmutex
  /\ t \in s_rwmutex => pc[t] = "idle" /\ missing[t] = Null /\ DOMAIN nodes[t] = {}
  /\ pc[t] \in Adds => missing[t] = Null
HoldOrder == \A t \in Thread : HoldsOf(t)

(* What a step of t leaves alone.                                          *)
Elsewhere(t) ==
  \A u \in Thread : u # t =>
    /\ pc'[u] = pc[u] /\ loc'[u].v = loc[u].v /\ missing'[u] = missing[u]
    /\ visiting'[u] = visiting[u] /\ nodes'[u] = nodes[u]
    /\ u \in s_rwmutex' <=> u \in s_rwmutex
    /\ \A v \in Var : (writer'[v] = u => writer[v] = u) /\ (u \in readers'[v] => u \in readers[v])

LEMMA HoldStep ==
  ASSUME HoldOrder, NEW t \in Thread, Elsewhere(t), HoldsOf(t)'
  PROVE  HoldOrder'
<1>1. ASSUME NEW u \in Thread, u # t PROVE HoldsOf(u)'
  BY <1>1 DEF HoldOrder, HoldsOf, Elsewhere
<1> QED
  BY <1>1 DEF HoldOrder

(* The functions that the steps change at one thread.                      *)
LEMMA HoldTypes ==
  ASSUME IInv
  PROVE  /\ DOMAIN pc = Thread /\ pc = [t \in Thread |-> pc[t]]
         /\ loc \in [Thread -> Locals] /\ missing \in [Thread -> Name \cup {Null}]
         /\ visiting \in [Thread -> SUBSET Var] /\ DOMAIN nodes = Thread
         /\ writer \in [Var -> Thread \cup {Null}] /\ readers \in [Var -> SUBSET Thread]
         /\ s_rwmutex \subseteq Thread /\ Null \notin Thread
BY ConfigVarAssumption DEF IInv, RegistryTypeOK, TypeOK

(* setValue() begins, by a thread that holds nothing.                      *)
LEMMA SetEnterHolds ==
  ASSUME IInv, HoldOrder, NEW t \in Thread, NEW v \in Var, NEW w \in Val,
         pc[t] = "idle", t \notin s_rwmutex, SetEnter(t, v, w), UNCHANGED registryVars,
         \A u \in Thread : u # t => nodes'[u] = nodes[u]
  PROVE  HoldOrder'
<1>1. /\ UNCHANGED <<s_rwmutex, visiting, missing>> /\ HoldsOf(t) /\ UNCHANGED writer
  BY DEF registryVars, HoldOrder, SetEnter, Lock, lockVars
<1>2. \A u \in Thread : u # t => loc'[u] = [loc[u] EXCEPT !.met = @ \/ Setting(u, v)]
  BY DEF SetEnter
<1>3. \A u \in Thread : u # t => loc'[u].v = loc[u].v
  <2>1. \A u \in Thread : u # t => \E b : loc'[u] = [loc[u] EXCEPT !.met = b]
    BY <1>2
  <2> QED
    BY <2>1, HoldTypes DEF Locals
<1>4. CASE w = m_val[v]
  <2>1. UNCHANGED <<pc, readers>>
    BY <1>4 DEF SetEnter, lockVars
  <2>2. HoldsOf(t)'
    BY <1>1, <2>1 DEF HoldsOf, Adds
  <2> QED
    BY <1>1, <1>3, <2>1, <2>2, HoldStep DEF Elsewhere
<1>5. CASE w # m_val[v]
  <2>1. /\ pc' = [pc EXCEPT ![t] = "notify"]
        /\ readers' = [readers EXCEPT ![v] = readers[v] \cup {t}]
    BY <1>5 DEF SetEnter, Lock
  <2>2. loc'[t].v = v
    BY <1>5 DEF SetEnter, NoLocals
  <2>3. /\ pc'[t] = "notify" /\ \A u \in Thread : u # t => pc'[u] = pc[u]
        /\ \A x \in Var : x # v => readers'[x] = readers[x]
        /\ \A u \in Thread : u # t => (u \in readers'[v] => u \in readers[v])
    BY <2>1, HoldTypes
  <2>4. HoldsOf(t)'
    BY <1>1, <2>2, <2>3 DEF HoldsOf, Adds
  <2>5. Elsewhere(t)
    BY <1>1, <1>3, <2>3 DEF Elsewhere
  <2> QED
    BY <2>4, <2>5, HoldStep
<1> QED
  BY <1>4, <1>5

(* The steps of a call on a variable.                                      *)
LEMMA ProceedHolds ==
  ASSUME IInv, HoldOrder, NEW t \in Thread, Proceed(t)
  PROVE  HoldOrder'
<1>1. /\ UNCHANGED <<s_rwmutex, visiting, missing, nodes>> /\ HoldsOf(t) /\ missing[t] = Null
  BY DEF Proceed, registryVars, loadVars, HoldOrder
<1>2. loc[t] \in Locals /\ Continue(t) /\ CallOK(t)
  BY HoldTypes DEF IInv, VarInv, Calls, Proceed
<1>3. CASE Notify(t) \/ NotifyReenters(t)
  <2>1. UNCHANGED <<writer, readers>> /\ pc[t] = "notify" /\ pc'[t] \in {"notify", "relock"}
    BY <1>3, HoldTypes DEF Notify, NotifyReenters, lockVars
  <2>2. \A u \in Thread : loc'[u].v = loc[u].v /\ (u # t => pc'[u] = pc[u])
    BY <1>3, HoldTypes DEF Notify, NotifyReenters, Locals
  <2>3. HoldsOf(t)'
    BY <1>1, <2>1, <2>2 DEF HoldsOf, Adds
  <2> QED
    BY <1>1, <2>1, <2>2, <2>3, HoldStep DEF Elsewhere
<1>4. CASE NotifyThrows(t) \/ SetUnlock(t)
  <2>1. /\ pc[t] = "notify" /\ loc[t].v \in Var /\ UNCHANGED writer /\ pc'[t] \in {"idle", "store"}
        /\ readers' = [readers EXCEPT ![loc[t].v] = readers[loc[t].v] \ {t}]
        /\ \A u \in Thread : u # t => pc'[u] = pc[u] /\ loc'[u].v = loc[u].v
    BY <1>2, <1>4, HoldTypes DEF NotifyThrows, SetUnlock, Unlock, Back, Goto, CallOK, Sets
  <2>2. /\ \A v \in Var : t \notin readers'[v]
        /\ \A v \in Var, u \in Thread : u \in readers'[v] => u \in readers[v]
    BY <1>1, <2>1, HoldTypes DEF HoldsOf
  <2>3. HoldsOf(t)'
    BY <1>1, <2>1, <2>2 DEF HoldsOf, Adds
  <2> QED
    BY <1>1, <2>1, <2>2, <2>3, HoldStep DEF Elsewhere
<1>5. CASE SetStore(t)
  <2>1. /\ UNCHANGED <<writer, readers>> /\ pc[t] = "store" /\ pc'[t] = "idle"
        /\ \A u \in Thread : u # t => pc'[u] = pc[u] /\ loc'[u].v = loc[u].v
    BY <1>5, HoldTypes DEF SetStore, lockVars, Back, Goto
  <2>2. HoldsOf(t)'
    BY <1>1, <2>1 DEF HoldsOf, Adds
  <2> QED
    BY <1>1, <2>1, <2>2, HoldStep DEF Elsewhere
<1>6. CASE AddLoad(t) \/ AddStore(t) \/ AddKey(t)
  <2>1. /\ UNCHANGED <<writer, readers>> /\ pc[t] \in Adds /\ pc'[t] \in Adds
        /\ \A u \in Thread : u # t => pc'[u] = pc[u]
    BY <1>6, HoldTypes DEF AddLoad, AddStore, AddKey, lockVars, Goto, Adds
  <2>2. \E k : loc' = [loc EXCEPT ![t] = [loc[t] EXCEPT !.reg = k]]
    BY <1>6 DEF AddLoad, AddStore, AddKey, Goto
  <2>3. \A u \in Thread : loc'[u].v = loc[u].v
    BY <2>2, HoldTypes DEF Locals
  <2>4. HoldsOf(t)'
    BY <1>1, <2>1, <2>3 DEF HoldsOf, Adds
  <2> QED
    BY <1>1, <2>1, <2>3, <2>4, HoldStep DEF Elsewhere
<1>7. CASE AddReturn(t)
  <2>1. /\ UNCHANGED readers /\ pc[t] = "addReturn" /\ pc'[t] = "idle" /\ loc[t].v \in Var
        /\ writer' = [writer EXCEPT ![loc[t].v] = Null]
        /\ \A u \in Thread : u # t => pc'[u] = pc[u] /\ loc'[u].v = loc[u].v
    BY <1>2, <1>7, HoldTypes DEF AddReturn, Back, Goto, CallOK, Adds
  <2>2. /\ \A v \in Var : writer'[v] # t
        /\ \A v \in Var, u \in Thread : writer'[v] = u => writer[v] = u
    BY <1>1, <2>1, HoldTypes DEF HoldsOf
  <2>3. HoldsOf(t)'
    BY <1>1, <2>1, <2>2 DEF HoldsOf, Adds
  <2> QED
    BY <1>1, <2>1, <2>2, <2>3, HoldStep DEF Elsewhere
<1> QED
  BY <1>2, <1>3, <1>4, <1>5, <1>6, <1>7 DEF Continue

(* addListener() takes the variable's lock; the others only need it free.  *)
LEMMA ListenToHeldHolds ==
  ASSUME IInv, HoldOrder, NEW t \in Thread, ListenToHeld(t)
  PROVE  HoldOrder'
<1>1. /\ UNCHANGED <<s_rwmutex, visiting, missing, nodes>> /\ HoldsOf(t) /\ missing[t] = Null
      /\ t \notin s_rwmutex /\ held \subseteq Name \X Var
  BY DEF ListenToHeld, Free, registryVars, loadVars, HoldOrder, IInv, RegistryTypeOK
<1>2. ASSUME NEW h \in held, NEW l \in Listener, AddListener(t, h[2], l) PROVE HoldOrder'
  <2>1. h[2] \in Var
    BY <1>1
  <2>2. /\ UNCHANGED readers /\ pc[t] = "idle" /\ pc'[t] = "add" /\ writer[h[2]] = Null
        /\ writer' = [writer EXCEPT ![h[2]] = t]
        /\ \A u \in Thread : u # t => pc'[u] = pc[u] /\ loc'[u].v = loc[u].v
    BY <1>2, HoldTypes DEF AddListener, Call, CanWrite, Goto
  <2>3. loc'[t].v = h[2]
    BY <1>2, HoldTypes DEF AddListener, Goto, NoLocals
  <2>4. /\ \A v \in Var : v # h[2] => writer'[v] = writer[v]
        /\ \A v \in Var, u \in Thread : u # t /\ writer'[v] = u => writer[v] = u
    BY <2>1, <2>2, HoldTypes
  <2>5. HoldsOf(t)'
    BY <1>1, <2>2, <2>3, <2>4 DEF HoldsOf, Adds
  <2> QED
    BY <1>1, <2>2, <2>4, <2>5, HoldStep DEF Elsewhere
<1>3. CASE \/ \E l \in Listener : DelListener(t, l)
           \/ \E h \in held : ClearListener(t, h[2])
  <2>1. UNCHANGED <<writer, readers, pc, loc>>
    BY <1>3 DEF DelListener, ClearListener, lockVars
  <2> QED
    BY <1>1, <2>1 DEF HoldOrder, HoldsOf
<1> QED
  BY <1>2, <1>3 DEF ListenToHeld

(* The registry's own steps.                                               *)
LEMMA RegistryHolds ==
  ASSUME IInv, HoldOrder, NEW t \in Thread,
         \/ LookupCreate(t) \/ VisitRead(t) \/ VisitEnd(t)
         \/ \E vs \in SUBSET Var : VisitBegin(t, vs)
         \/ \E n \in Name : Lookup(t, n) \/ ListenerLooksUp(t, n)
  PROVE  HoldOrder'
<1>1. UNCHANGED <<writer, readers, pc, loc, nodes>> /\ HoldsOf(t)
  BY DEF LookupCreate, VisitRead, VisitEnd, VisitBegin, Lookup, ListenerLooksUp, Search,
         configVarVars, lockVars, loadVars, HoldOrder
<1>2. CASE LookupCreate(t)
  <2>1. UNCHANGED <<s_rwmutex, visiting>> /\ missing' = [missing EXCEPT ![t] = Null]
    BY <1>2 DEF LookupCreate
  <2>2. HoldsOf(t)' /\ Elsewhere(t)
    BY <1>1, <2>1, HoldTypes DEF HoldsOf, Elsewhere
  <2> QED
    BY <2>2, HoldStep
<1>3. CASE VisitRead(t)
  <2>1. /\ UNCHANGED <<s_rwmutex, missing>> /\ visiting[t] # {}
        /\ \A u \in Thread : u # t => visiting'[u] = visiting[u]
    BY <1>3, HoldTypes DEF VisitRead
  <2>2. HoldsOf(t)' /\ Elsewhere(t)
    BY <1>1, <2>1 DEF HoldsOf, Elsewhere
  <2> QED
    BY <2>2, HoldStep
<1>4. CASE VisitEnd(t)
  <2>1. UNCHANGED <<visiting, missing>> /\ visiting[t] = {} /\ s_rwmutex' = s_rwmutex \ {t}
    BY <1>4 DEF VisitEnd
  <2>2. HoldsOf(t)' /\ Elsewhere(t)
    BY <1>1, <2>1 DEF HoldsOf, Elsewhere
  <2> QED
    BY <2>2, HoldStep
<1>5. CASE \E vs \in SUBSET Var : VisitBegin(t, vs)
  <2>1. /\ UNCHANGED missing /\ s_rwmutex' = s_rwmutex \cup {t} /\ Free(t) /\ pc[t] = "idle"
        /\ \A u \in Thread : u # t => visiting'[u] = visiting[u]
    BY <1>5, HoldTypes DEF VisitBegin, Call
  <2>2. HoldsOf(t)' /\ Elsewhere(t)
    BY <1>1, <2>1 DEF HoldsOf, Elsewhere, Free, Adds
  <2> QED
    BY <2>2, HoldStep
<1>6. ASSUME NEW n \in Name, Lookup(t, n) \/ ListenerLooksUp(t, n) PROVE HoldOrder'
  <2>1. /\ UNCHANGED <<s_rwmutex, visiting>> /\ pc[t] \notin Adds /\ t \notin s_rwmutex
        /\ \A u \in Thread : u # t => missing'[u] = missing[u]
    BY <1>1, <1>6, HoldTypes DEF Lookup, ListenerLooksUp, Search, Call, Free, Adds, HoldsOf
  <2>2. HoldsOf(t)' /\ Elsewhere(t)
    BY <1>1, <2>1 DEF HoldsOf, Elsewhere
  <2> QED
    BY <2>2, HoldStep
<1> QED
  BY <1>2, <1>3, <1>4, <1>5, <1>6

(* Loading.                                                                *)
LEMMA LoadHolds ==
  ASSUME IInv, HoldOrder, NEW t \in Thread,
         LoadNode(t) \/ LoadSet(t) \/ \E doc \in Document : LoadFromYaml(t, doc)
  PROVE  HoldOrder'
<1>1. /\ HoldsOf(t) /\ FoundOK(t) /\ UNCHANGED registryVars
      /\ UNCHANGED <<s_rwmutex, visiting, missing>>
  BY DEF HoldOrder, IInv, Loading, LoadNode, LoadSet, LoadFromYaml, registryVars
<1>2. t \notin s_rwmutex /\ pc[t] = "idle"
  BY <1>1 DEF LoadNode, LoadSet, LoadFromYaml, Free, Call, FoundOK, HoldsOf
<1>3. \A u \in Thread : u # t => nodes'[u] = nodes[u]
  BY HoldTypes DEF LoadNode, LoadSet, LoadFromYaml, Passed
<1>4. CASE UNCHANGED <<writer, readers, pc, loc>>
  <2>1. HoldsOf(t)' /\ Elsewhere(t)
    BY <1>1, <1>2, <1>3, <1>4 DEF HoldsOf, Elsewhere
  <2> QED
    BY <2>1, HoldStep
<1>5. CASE LoadSet(t) /\ Converts(FirstNode(t).w)
  <2>1. SetEnter(t, found[t], FirstNode(t).w) /\ found[t] # Null
    BY <1>5 DEF LoadSet
  <2>2. found[t] \in Var /\ FirstNode(t) \in Node
    <3>1. DOMAIN nodes[t] # {} /\ DOMAIN nodes[t] \in SUBSET Nat
      BY <1>1, <2>1 DEF FoundOK, IInv, RegistryTypeOK
    <3>2. Min(DOMAIN nodes[t]) \in DOMAIN nodes[t]
      BY <3>1, MinIn
    <3> QED
      BY <2>1, <3>2 DEF FirstNode, IInv, RegistryTypeOK
  <2>3. FirstNode(t).w \in Val
    BY <1>5, <2>2 DEF Node, Converts
  <2> QED
    BY <1>1, <1>2, <1>3, <2>1, <2>2, <2>3, SetEnterHolds
<1> QED
  BY <1>4, <1>5 DEF LoadNode, LoadSet, LoadFromYaml, configVarVars, lockVars

LEMMA HoldOrderAlways ==
  Spec => []HoldOrder
<1>1. ASSUME Init PROVE HoldOrder
  <2>1. ASSUME NEW t \in Thread PROVE HoldsOf(t)
    BY <1>1, ConfigVarAssumption DEF Init, ConfigVarInit, HoldsOf, Adds
  <2> QED
    BY <2>1 DEF HoldOrder
<1>2. ASSUME IInv, HoldOrder, [Next]_configVars PROVE HoldOrder'
  <2>1. CASE UNCHANGED configVars \/ AllReturned
    <3>1. UNCHANGED <<writer, readers, pc, loc, s_rwmutex, visiting, missing, nodes>>
      BY <2>1 DEF AllReturned, configVars, registryVars, loadVars, configVarVars, lockVars
    <3> QED
      BY <1>2, <3>1 DEF HoldOrder, HoldsOf
  <2>2. ASSUME NEW t \in Thread, Step(t) \/ ListenToHeld(t) PROVE HoldOrder'
    BY <1>2, <2>2, RegistryHolds, LoadHolds, ProceedHolds, ListenToHeldHolds DEF Step
  <2>3. ASSUME NEW t \in Thread, Visit(t) \/ \E n \in Name : LookupOtherType(t, n)
        PROVE  HoldOrder'
    <3>1. s_data \in [Name -> Var \cup {Null}]
      BY <1>2 DEF IInv, RegistryTypeOK
    <3>2. \E vs \in SUBSET Var : VisitBegin(t, vs)
      BY <2>3, <3>1 DEF Visit, LookupOtherType, Range
    <3> QED
      BY <1>2, <3>2, RegistryHolds
  <2>4. ASSUME NEW t \in Thread, NEW n \in Name, Lookup(t, n) \/ ListenerLooksUp(t, n)
        PROVE  HoldOrder'
    BY <1>2, <2>4, RegistryHolds
  <2>5. ASSUME NEW t \in Thread, NEW doc \in Document, LoadFromYaml(t, doc) PROVE HoldOrder'
    BY <1>2, <2>5, LoadHolds
  <2>6. ASSUME NEW t \in Thread, NEW h \in held, NEW w \in Val, SetHeld(t, h, w)
        PROVE  HoldOrder'
    <3>1. /\ pc[t] = "idle" /\ t \notin s_rwmutex /\ SetEnter(t, h[2], w)
          /\ UNCHANGED registryVars /\ UNCHANGED nodes
      BY <2>6 DEF SetHeld, SetValue, Free, Call
    <3>2. h[2] \in Var
      BY <1>2 DEF IInv, RegistryTypeOK
    <3> QED
      BY <1>2, <3>1, <3>2, SetEnterHolds
  <2> QED
    BY <1>2, <2>1, <2>2, <2>3, <2>4, <2>5, <2>6 DEF Next
<1> QED
  BY <1>1, <1>2, IInvAlways, PTL DEF Spec

(* No deadlock between the registry's lock and those of the variables:     *)
(* setValue() waits for a thread that tells listeners, that one for the    *)
(* registry, where variables are read, and these for addListener(), which  *)
(* waits for nobody (config.h:359-371, 375-380, 428-454).                  *)
THEOREM NeverCircularWait ==
  Spec => []NoCircularWait
<1>1. ASSUME IInv, HoldOrder PROVE NoCircularWait
  <2> DEFINE rank == [t \in Thread |->
                        IF pc[t] = "relock" THEN 0
                        ELSE IF missing[t] # Null THEN 2
                        ELSE IF visiting[t] # {} \/ found[t] # Null THEN 1
                        ELSE IF pc[t] = "store" THEN 3 ELSE 0]
  <2>1. rank \in [Thread -> 0..3]
    OBVIOUS
  <2>2. ASSUME NEW u \in Thread, NEW v \in Var, writer[v] = u
        PROVE  rank[u] = 0 /\ pc[u] # "idle"
    BY <1>1, <2>2 DEF HoldOrder, HoldsOf, Adds, IInv, Loading, FoundOK
  <2>3. ASSUME NEW u \in Thread, NEW v \in Var, u \in readers[v]
        PROVE  rank[u] < 3 /\ pc[u] # "idle"
    BY <1>1, <2>3 DEF HoldOrder, HoldsOf
  <2>4. ASSUME NEW u \in Thread, u \in s_rwmutex
        PROVE  rank[u] < 2 /\ ~Free(u)
    BY <1>1, <2>4 DEF HoldOrder, HoldsOf, Free
  <2>5. ASSUME NEW t \in Thread, NEW u \in Thread, Waits(t, u), pc[t] # "relock"
        PROVE  rank[u] < rank[t] /\ ~(Free(u) /\ pc[u] = "idle")
    <3>1. CASE missing[t] # Null
      <4>1. rank[t] = 2 /\ u \in s_rwmutex
        BY <2>5, <3>1 DEF Waits
      <4> QED
        BY <2>4, <4>1
    <3>2. CASE missing[t] = Null /\ (visiting[t] # {} \/ found[t] # Null)
      <4>1. rank[t] = 1 /\ pc[t] = "idle"
        BY <1>1, <2>5, <3>2 DEF HoldOrder, HoldsOf, IInv, Loading, FoundOK
      <4>2. \E v \in Var : writer[v] = u
        <5>1. visiting[t] \subseteq Var /\ found[t] \in Var \cup {Null}
          BY <1>1 DEF IInv, RegistryTypeOK
        <5> QED
          BY <2>5, <3>2, <4>1, <5>1 DEF Waits
      <4> QED
        BY <2>2, <4>1, <4>2
    <3>3. CASE missing[t] = Null /\ visiting[t] = {} /\ found[t] = Null
      <4>1. /\ pc[t] = "store" /\ rank[t] = 3
            /\ writer[loc[t].v] = u \/ u \in readers[loc[t].v]
        BY <2>5, <3>3 DEF Waits
      <4>2. loc[t].v \in Var
        BY <1>1, <4>1 DEF IInv, VarInv, Calls, CallOK, Sets
      <4> QED
        BY <2>2, <2>3, <4>1, <4>2
    <3> QED
      BY <3>1, <3>2, <3>3
  <2> HIDE DEF rank
  <2> QED
    BY <2>1, <2>5 DEF NoCircularWait
<1> QED
  BY <1>1, IInvAlways, HoldOrderAlways, PTL

=============================================================================
