------------------------------ MODULE ConfigVar ------------------------------
(***************************************************************************)
(* mocker::ConfigVar<T> (mocker/config.h): the variables of one type T, a  *)
(* value and a map of listeners each, behind a reader/writer lock each.    *)
(*                                                                         *)
(* setValue() tells the listeners under the read lock and stores the value *)
(* in a second critical section under the write lock.  addListener() draws *)
(* its key from a counter that all variables of the type share, under the  *)
(* write lock of one of them.                                              *)
(***************************************************************************)
EXTENDS Naturals, FiniteSets, FiniteSetsExt

CONSTANTS
  Thread,     \* threads of the program
  Setters,    \* those that call setValue()
  Var,        \* ConfigVar objects of one type
  Val,        \* values of that type
  Default,    \* the default_value they are constructed with
  Listener,   \* on_change_cb functions
  Throwing,   \* those that may end with an exception
  Reentrant,  \* those that may call setValue() or addListener() of their own variable
  MaxOps,     \* bound: calls of the threads together
  Null

ASSUME ConfigVarAssumption ==
  /\ IsFiniteSet(Thread) /\ Setters \subseteq Thread /\ Default \in Val
  /\ Throwing \subseteq Listener /\ Reentrant \subseteq Listener
  /\ IsFiniteSet(Listener) /\ IsFiniteSet(Var) /\ MaxOps \in Nat
  /\ Null \notin Thread \cup Var \cup Val \cup Listener

VARIABLES
  m_val,     \* value of each variable
  m_cbs,     \* listeners of each variable, a function on the keys in use
  s_fun_id,  \* addListener()'s static counter
  readers,   \* m_rwmutex: threads that hold it for reading
  writer,    \* m_rwmutex: the thread that holds it for writing
  pc,        \* where each thread is
  loc,       \* its arguments and locals
  keyOf,     \* history: variable and key of a listener the program has registered
  spoilt,    \* history: variables whose last setValue() threw or met another one
  mixed,     \* history: two calls of addListener() have met, of two variables
  told,      \* history: the new_value each listener was last called with
  fresh,     \* history: listeners not yet given to addListener(), each is given once
  ops        \* calls the threads have made

dataVars == <<m_val, m_cbs, s_fun_id>>
lockVars == <<readers, writer>>
histVars == <<keyOf, spoilt, mixed, told, fresh>>
configVarVars == <<dataVars, lockVars, histVars, pc, loc, ops>>

MaxId == Cardinality(Listener)
Locals == [v : Var \cup {Null}, w : Val \cup {Null}, l : Listener \cup {Null},
           reg : 0..MaxId, todo : SUBSET (1..MaxId), met : BOOLEAN]
NoLocals == [v |-> Null, w |-> Null, l |-> Null, reg |-> 0, todo |-> {}, met |-> FALSE]
Registration == [v : Var, k : 1..MaxId]

(* One type for every variable.                                            *)
TypeOK ==
  /\ m_val \in [Var -> Val]
  /\ DOMAIN m_cbs = Var
  /\ \A v \in Var : /\ DOMAIN m_cbs[v] \subseteq 1..MaxId
                    /\ \A k \in DOMAIN m_cbs[v] : m_cbs[v][k] \in Listener
  /\ s_fun_id \in 0..MaxId
  /\ readers \in [Var -> SUBSET Thread]
  /\ writer \in [Var -> Thread \cup {Null}]
  /\ pc \in [Thread -> {"idle", "notify", "relock", "store", "add", "addStore", "addKey",
                         "addReturn"}]
  /\ loc \in [Thread -> Locals]
  /\ keyOf \in [Listener -> Registration \cup {Null}]
  /\ spoilt \subseteq Var
  /\ mixed \in BOOLEAN
  /\ told \in [Listener -> Val \cup {Null}]
  /\ fresh \subseteq Listener
  /\ ops \in 0..MaxOps

ConfigVarInit ==
  /\ m_val = [v \in Var |-> Default]
  /\ m_cbs = [v \in Var |-> [k \in {} |-> Null]]
  /\ s_fun_id = 0
  /\ readers = [v \in Var |-> {}]
  /\ writer = [v \in Var |-> Null]
  /\ pc = [t \in Thread |-> "idle"]
  /\ loc = [t \in Thread |-> NoLocals]
  /\ keyOf = [l \in Listener |-> Null]
  /\ spoilt = {}
  /\ mixed = FALSE
  /\ told = [l \in Listener |-> Null]
  /\ fresh = Listener
  /\ ops = 0

-----------------------------------------------------------------------------
(* RWMutex: readers share, a writer is alone                               *)
CanRead(v)  == writer[v] = Null
CanWrite(v) == writer[v] = Null /\ readers[v] = {}
Lock(t, v)   == readers' = [readers EXCEPT ![v] = @ \cup {t}] /\ UNCHANGED writer

(* Mutants: the lock is kept; the value is not stored; all listeners are   *)
(* erased.                                                                 *)
UnlockForgets(t, v) == UNCHANGED lockVars
StoredNot(v, w) == m_val
WithoutAny(f, k) == [i \in {} |-> Null]

Unlock(t, v) == readers' = [readers EXCEPT ![v] = @ \ {t}] /\ UNCHANGED writer

Call(t) == /\ pc[t] = "idle" /\ ops < MaxOps
           /\ ops' = ops + 1
Goto(t, where, locals) == /\ pc' = [pc EXCEPT ![t] = where]
                          /\ loc' = [loc EXCEPT ![t] = locals]
Back(t) == Goto(t, "idle", NoLocals)

Without(f, k) == [i \in DOMAIN f \ {k} |-> f[i]]
With(f, k, l) == [i \in DOMAIN f \cup {k} |-> IF i = k THEN l ELSE f[i]]

-----------------------------------------------------------------------------
(* setValue()                                                              *)

Setting(t, v) == pc[t] \in {"notify", "relock", "store"} /\ loc[t].v = v
Met(v) == \E t \in Thread : Setting(t, v)

(* The read lock is taken; an equal value ends the call.  The threads in   *)
(* setValue() of the variable at the time have met another call.           *)
SetEnter(t, v, w) ==
  /\ CanRead(v)
  /\ IF w = m_val[v]
     THEN UNCHANGED <<pc, lockVars>>
     ELSE pc' = [pc EXCEPT ![t] = "notify"] /\ Lock(t, v)
  /\ loc' = [u \in Thread |->
       IF u # t THEN [loc[u] EXCEPT !.met = @ \/ Setting(u, v)]
       ELSE IF w = m_val[v] THEN NoLocals
       ELSE [NoLocals EXCEPT !.v = v, !.w = w, !.todo = DOMAIN m_cbs[v], !.met = Met(v)]]
  /\ UNCHANGED <<dataVars, histVars>>

SetValue(t, v, w) == t \in Setters /\ Call(t) /\ SetEnter(t, v, w)

(* The listeners are called in the order of their keys.                    *)
NextListener(t) == m_cbs[loc[t].v][Min(loc[t].todo)]

Notify(t) ==
  /\ pc[t] = "notify" /\ loc[t].todo # {}
  /\ told' = [told EXCEPT ![NextListener(t)] = loc[t].w]
  /\ loc' = [loc EXCEPT ![t].todo = @ \ {Min(@)}]
  /\ UNCHANGED <<dataVars, lockVars, keyOf, spoilt, mixed, fresh, pc, ops>>

(* One throws: the lock is released and nothing is stored; fromString()    *)
(* catches the exception and returns false.                                *)
NotifyThrows(t) ==
  /\ pc[t] = "notify" /\ loc[t].todo # {} /\ NextListener(t) \in Throwing
  /\ told' = [told EXCEPT ![NextListener(t)] = loc[t].w]
  /\ spoilt' = spoilt \cup {loc[t].v}
  /\ Unlock(t, loc[t].v)
  /\ Back(t)
  /\ UNCHANGED <<dataVars, keyOf, mixed, fresh, ops>>

(* One asks for the write lock of the variable its thread holds for        *)
(* reading: pthread_rwlock_wrlock() does not return.                       *)
NotifyReenters(t) ==
  /\ pc[t] = "notify" /\ loc[t].todo # {} /\ NextListener(t) \in Reentrant
  /\ told' = [told EXCEPT ![NextListener(t)] = loc[t].w]
  /\ pc' = [pc EXCEPT ![t] = "relock"]
  /\ UNCHANGED <<dataVars, lockVars, keyOf, spoilt, mixed, fresh, loc, ops>>

SetUnlock(t) ==
  /\ pc[t] = "notify" /\ loc[t].todo = {}
  /\ Unlock(t, loc[t].v)
  /\ pc' = [pc EXCEPT ![t] = "store"]
  /\ UNCHANGED <<dataVars, histVars, loc, ops>>

Stored(v, w) == [m_val EXCEPT ![v] = w]

(* The second critical section, under the write lock.                      *)
SetStore(t) ==
  /\ pc[t] = "store" /\ CanWrite(loc[t].v)
  /\ m_val' = Stored(loc[t].v, loc[t].w)
  /\ spoilt' = IF loc[t].met THEN spoilt \cup {loc[t].v} ELSE spoilt \ {loc[t].v}
  /\ Back(t)
  /\ UNCHANGED <<m_cbs, s_fun_id, lockVars, keyOf, mixed, told, fresh, ops>>

-----------------------------------------------------------------------------
(* addListener(), delListener(), clearListener()                           *)

AddListener(t, v, l) ==
  /\ Call(t) /\ CanWrite(v)
  /\ l \in fresh /\ fresh' = fresh \ {l}
  /\ writer' = [writer EXCEPT ![v] = t]
  /\ mixed' = (mixed \/ \E u \in Thread : pc[u] \in {"add", "addStore", "addKey", "addReturn"})
  /\ Goto(t, "add", [NoLocals EXCEPT !.v = v, !.l = l])
  /\ UNCHANGED <<dataVars, readers, keyOf, spoilt, told>>

(* ++s_fun_id is a load and a store; threads in addListener() of other     *)
(* variables come in between.                                              *)
AddLoad(t) ==
  /\ pc[t] = "add"
  /\ Goto(t, "addStore", [loc[t] EXCEPT !.reg = s_fun_id])
  /\ UNCHANGED <<dataVars, lockVars, histVars, ops>>

AddStore(t) ==
  /\ pc[t] = "addStore"
  /\ s_fun_id' = loc[t].reg + 1
  /\ Goto(t, "addKey", [loc[t] EXCEPT !.reg = @ + 1])
  /\ UNCHANGED <<m_val, m_cbs, lockVars, histVars, ops>>

(* The counter is read again for the index and for the result, or kept in  *)
(* a register.                                                             *)
AddKey(t) ==
  /\ pc[t] = "addKey"
  /\ \E k \in {loc[t].reg, s_fun_id} :
       /\ m_cbs' = [m_cbs EXCEPT ![loc[t].v] = With(@, k, loc[t].l)]
       /\ Goto(t, "addReturn", [loc[t] EXCEPT !.reg = k])
  /\ UNCHANGED <<m_val, s_fun_id, lockVars, histVars, ops>>

AddReturn(t) ==
  /\ pc[t] = "addReturn"
  /\ \E k \in {loc[t].reg, s_fun_id} :
       keyOf' = [keyOf EXCEPT ![loc[t].l] = [v |-> loc[t].v, k |-> k]]
  /\ writer' = [writer EXCEPT ![loc[t].v] = Null]
  /\ Back(t)
  /\ UNCHANGED <<dataVars, readers, spoilt, mixed, told, fresh, ops>>

DelListener(t, l) ==
  /\ keyOf[l] # Null
  /\ Call(t) /\ CanWrite(keyOf[l].v)
  /\ m_cbs' = [m_cbs EXCEPT ![keyOf[l].v] = Without(@, keyOf[l].k)]
  /\ keyOf' = [keyOf EXCEPT ![l] = Null]
  /\ UNCHANGED <<m_val, s_fun_id, lockVars, spoilt, mixed, told, fresh, pc, loc>>

ClearListener(t, v) ==
  /\ Call(t) /\ CanWrite(v)
  /\ m_cbs' = [m_cbs EXCEPT ![v] = [k \in {} |-> Null]]
  /\ keyOf' = [l \in Listener |->
                IF keyOf[l] # Null /\ keyOf[l].v = v THEN Null ELSE keyOf[l]]
  /\ UNCHANGED <<m_val, s_fun_id, lockVars, spoilt, mixed, told, fresh, pc, loc>>

-----------------------------------------------------------------------------
(* A thread inside a call goes on; a thread outside may make another.      *)
Continue(t) ==
  \/ Notify(t) \/ NotifyThrows(t) \/ NotifyReenters(t) \/ SetUnlock(t) \/ SetStore(t)
  \/ AddLoad(t) \/ AddStore(t) \/ AddKey(t) \/ AddReturn(t)

Begin(t) ==
  \/ \E v \in Var, w \in Val : SetValue(t, v, w)
  \/ \E v \in Var, l \in Listener : AddListener(t, v, l)
  \/ \E l \in Listener : DelListener(t, l)
  \/ \E v \in Var : ClearListener(t, v)

(* Every call has returned and the program makes no more.                  *)
Quiescent == (\A t \in Thread : pc[t] = "idle") /\ UNCHANGED configVarVars

ConfigVarNext == Quiescent \/ \E t \in Thread : Begin(t) \/ Continue(t)

ConfigVarSpec == ConfigVarInit /\ [][ConfigVarNext]_configVarVars

-----------------------------------------------------------------------------
(* Properties                                                              *)

(* config.h:401-402, "the uint64_t key must be unique": a listener the     *)
(* program registered is called under the key addListener() returned until *)
(* it is deleted.                                                          *)
ListenerKept ==
  \A l \in Listener : keyOf[l] # Null =>
    LET cbs == m_cbs[keyOf[l].v] IN
      keyOf[l].k \in DOMAIN cbs /\ cbs[keyOf[l].k] = l

(* The same, as long as no two threads add listeners to different          *)
(* variables at once: the lock of the variable covers everything else.     *)
KeptUnlessMixed == ~mixed => ListenerKept

(* README.md:261, "Register a callback to catch the config event": while   *)
(* no setValue() is in progress, what a listener that a variable has heard *)
(* last is the value, unless the last call of setValue() met another one   *)
(* (config.h:361-370) or a listener threw after others had been told       *)
(* (config.h:366).  KeptUnlessMixed says which listeners a variable has.   *)
ListenersUpToDate ==
  \A v \in Var : ~Met(v) /\ v \notin spoilt =>
    \A k \in DOMAIN m_cbs[v] : told[m_cbs[v][k]] \in {Null, m_val[v]}

=============================================================================
