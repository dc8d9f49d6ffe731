-------------------------- MODULE SchedulerRefinement --------------------------
(***************************************************************************)
(* Scheduler implements TaskPool: every step of the threads, the tasks and *)
(* the caller is a step of the pool or changes nothing the pool shows, for *)
(* every number of threads, tasks and objects.                             *)
(***************************************************************************)
EXTENDS SchedulerDrain

(* A task is in one place at most: one entry of the list, one runner's     *)
(* callback or the body of one object.                                     *)
CbUnique ==
  \A i, j \in DOMAIN m_coroutines :
    i # j /\ m_coroutines[i].cb # Null => m_coroutines[i].cb # m_coroutines[j].cb
OnePlace ==
  /\ CbUnique
  /\ \A r, q \in Runners : coe[r].cb # Null /\ coe[r].cb = coe[q].cb => r = q
  /\ \A c, d \in Cort : m_cb[c] # Null /\ m_cb[c] = m_cb[d] => c = d
  /\ \A t \in Task : /\ ~(CbListed(t) /\ CbTaken(t))
                     /\ ~(Body(t) /\ (CbListed(t) \/ CbTaken(t)))

(* A task that has ended is nowhere but in an object that has ended.       *)
EndedGone ==
  \A t \in ended : /\ t \in issued /\ ~CbListed(t) /\ ~CbTaken(t)
                   /\ \A c \in Cort : m_cb[c] = t => m_state[c] \in Dead

(* A runner that executes a task is on an object that says so.             *)
Executed == \A r \in Runners : pc[r] = "exec" => m_state[Running(r)] = "EXEC"

(* The inductive invariant behind the refinement.                          *)
RInv == OnePlace /\ EndedGone /\ Executed

(* The phase of a task in a state of these invariants.                     *)
Executing(t) == \E r \in Runners : pc[r] = "exec" /\ m_cb[Running(r)] = t
Asleep(c) == m_state[c] = "HOLD" /\ ~Waiting(c)
Sleeping(t) == \E c \in Cort : m_cb[c] = t /\ Asleep(c)
Stage(t) ==
  IF t \notin issued THEN "new"
  ELSE IF Executing(t) THEN "running"
  ELSE IF t \in ended THEN "done"
  ELSE IF Sleeping(t) THEN "asleep"
  ELSE "pending"
Mapped == \A t \in Task : Phase(t) = Stage(t)

-----------------------------------------------------------------------------
(* How the list changes, as far as callbacks go                            *)

(* Appending entries whose callbacks are new to the list, each once.       *)
LEMMA PushCbUnique ==
  ASSUME IInv, CbUnique, NEW es \in Seq(Entry), Push(es),
         \A i \in 1..Len(es) : es[i].cb # Null => ~CbListed(es[i].cb),
         \A i, j \in 1..Len(es) : i # j /\ es[i].cb # Null => es[i].cb # es[j].cb
  PROVE  CbUnique'
<1> DEFINE n == Len(m_coroutines)
<1>1. /\ m_coroutines \in Seq(Entry) /\ n \in Nat /\ DOMAIN m_coroutines = 1..n
      /\ m_coroutines' = m_coroutines \o es
  BY DEF IInv, TypeOK, Push
<1>2. /\ DOMAIN m_coroutines' = 1..(n + Len(es))
      /\ \A i \in 1..n : m_coroutines'[i] = m_coroutines[i]
      /\ \A i \in DOMAIN m_coroutines' : i \notin 1..n =>
           i - n \in 1..Len(es) /\ m_coroutines'[i] = es[i - n]
  BY <1>1, AppendFacts
<1>3. \A i \in 1..n : m_coroutines[i] \in Listed
  BY <1>1 DEF Listed
<1>4. \A i, j \in DOMAIN m_coroutines' : i # j => i - n # j - n
  BY <1>1, <1>2
<1> HIDE DEF n
<1> SUFFICES ASSUME NEW i \in DOMAIN m_coroutines', NEW j \in DOMAIN m_coroutines', i # j,
                    m_coroutines'[i].cb # Null, m_coroutines'[i].cb = m_coroutines'[j].cb
             PROVE  FALSE
  BY DEF CbUnique
<1>5. CASE i \in 1..n /\ j \in 1..n
  BY <1>5, <1>1, <1>2 DEF CbUnique
<1>6. CASE i \in 1..n /\ j \notin 1..n
  BY <1>6, <1>2, <1>3 DEF CbListed
<1>7. CASE i \notin 1..n /\ j \in 1..n
  BY <1>7, <1>2, <1>3 DEF CbListed
<1>8. CASE i \notin 1..n /\ j \notin 1..n
  BY <1>8, <1>2, <1>4
<1> QED BY <1>5, <1>6, <1>7, <1>8

(* Scheduling an object brings no callback.                                *)
LEMMA PushObject ==
  ASSUME IInv, CbUnique, NEW c \in Cort, NEW th \in Runners \cup {Null},
         Push(<<CortEntry(c, th)>>)
  PROVE  CbUnique' /\ \A t \in Task : CbListed(t)' <=> CbListed(t)
<1> DEFINE e == CortEntry(c, th)
           es == <<e>>
<1>1. WellFormed(e) /\ e.cb = Null /\ Push(<<e>>)
  BY EntryTypes DEF CortEntry
<1> HIDE DEF e
<1>2. Listed' = Listed \cup {e}
  BY <1>1, PushOneListed
<1>3. es \in Seq(Entry) /\ Push(es) /\ Len(es) = 1 /\ es[1] = e
  BY <1>1 DEF WellFormed
<1>4. \A i \in 1..1 : i = 1
  OBVIOUS
<1> HIDE DEF es
<1>5. \A i \in 1..Len(es) : es[i].cb = Null
  BY <1>1, <1>3, <1>4
<1>6. CbUnique'
  BY <1>3, <1>5, PushCbUnique
<1>7. ASSUME NEW t \in Task PROVE CbListed(t)' <=> CbListed(t)
  BY <1>1, <1>2, SchedulerAssumption DEF CbListed
<1> QED BY <1>6, <1>7

(* The scan takes one callback off the list, if it takes a callback.       *)
LEMMA EraseCb ==
  ASSUME IInv, CbUnique, NEW i \in DOMAIN m_coroutines,
         m_coroutines' = RemoveAt(m_coroutines, i)
  PROVE  CbUnique' /\ \A t \in Task : CbListed(t)' <=> CbListed(t) /\ t # m_coroutines[i].cb
<1> DEFINE n == Len(m_coroutines)
           Old(j) == IF j < i THEN j ELSE j + 1
<1>1. m_coroutines \in Seq(Entry) /\ n \in Nat /\ DOMAIN m_coroutines = 1..n
  BY DEF IInv, TypeOK
<1>2. /\ DOMAIN m_coroutines' = 1..(n-1)
      /\ \A j \in 1..(n-1) : m_coroutines'[j] = m_coroutines[Old(j)]
  BY <1>1, RemoveAtFacts
<1>3. /\ \A j \in 1..(n-1) : Old(j) \in 1..n /\ Old(j) # i
      /\ \A j, k \in 1..(n-1) : j # k => Old(j) # Old(k)
  BY <1>1
<1> HIDE DEF n, Old
<1>4. CbUnique'
  BY <1>1, <1>2, <1>3 DEF CbUnique
<1>5. Listed' \subseteq Listed /\ Listed \subseteq Listed' \cup {m_coroutines[i]}
  BY EraseListed
<1>6. ASSUME NEW t \in Task, CbListed(t)' PROVE t # m_coroutines[i].cb
  <2>1. PICK j \in 1..(n-1) : m_coroutines'[j].cb = t
    BY <1>6, <1>2 DEF CbListed, Listed
  <2>2. Old(j) \in 1..n /\ Old(j) # i /\ m_coroutines[Old(j)].cb = t
    BY <2>1, <1>2, <1>3
  <2>3. t # Null
    BY SchedulerAssumption
  <2> QED BY <2>2, <2>3, <1>1 DEF CbUnique
<1>7. ASSUME NEW t \in Task PROVE CbListed(t)' <=> CbListed(t) /\ t # m_coroutines[i].cb
  BY <1>5, <1>6 DEF CbListed
<1> QED BY <1>4, <1>7

-----------------------------------------------------------------------------
(* OnePlace and EndedGone                                                  *)

(* A step that puts no task anywhere keeps both, if a task that ends was   *)
(* the body of an object and its object ends with it.                      *)
LEMMA PlacesShrink ==
  ASSUME IInv, IInv', TInv, RInv, CbUnique',
         \A t \in Task : CbListed(t)' => CbListed(t),
         \A q \in Runners : coe'[q].cb \in {coe[q].cb, Null},
         \A d \in Cort : m_cb'[d] \in {m_cb[d], Null},
         issued \subseteq issued',
         \A t \in ended' \ ended : Body(t),
         \A d \in Cort : m_cb'[d] \in ended' => m_state'[d] \in Dead
  PROVE  OnePlace' /\ EndedGone'
<1> USE DEF RInv
<1>1. Null \notin Task /\ ended' \subseteq Task
  BY SchedulerAssumption DEF IInv, TypeOK
<1>2. ASSUME NEW t \in Task
      PROVE  (CbTaken(t)' => CbTaken(t)) /\ (Body(t)' => Body(t))
  BY <1>1 DEF CbTaken, Body
<1>3. OnePlace'
  <2>1. ASSUME NEW r \in Runners, NEW q \in Runners, coe'[r].cb # Null, coe'[r].cb = coe'[q].cb
        PROVE  r = q
    BY <2>1 DEF OnePlace
  <2>2. ASSUME NEW c \in Cort, NEW d \in Cort, m_cb'[c] # Null, m_cb'[c] = m_cb'[d]
        PROVE  c = d
    BY <2>2 DEF OnePlace
  <2>3. ASSUME NEW t \in Task
        PROVE  /\ ~(CbListed(t)' /\ CbTaken(t)')
               /\ ~(Body(t)' /\ (CbListed(t)' \/ CbTaken(t)'))
    BY <1>2 DEF OnePlace
  <2> QED BY <2>1, <2>2, <2>3 DEF OnePlace
<1>4. EndedGone'
  <2> SUFFICES ASSUME NEW t \in ended'
               PROVE  /\ t \in issued' /\ ~CbListed(t)' /\ ~CbTaken(t)'
                      /\ \A c \in Cort : m_cb'[c] = t => m_state'[c] \in Dead
    BY DEF EndedGone
  <2>1. t \in Task
    BY <1>1
  <2>2. t \in issued /\ ~CbListed(t) /\ ~CbTaken(t)
    <3>1. CASE t \in ended
      BY <3>1 DEF EndedGone
    <3>2. CASE t \notin ended
      BY <3>2, <2>1 DEF OnePlace, TInv, Handed, Somewhere
    <3> QED BY <3>1, <3>2
  <2> QED BY <2>1, <2>2, <1>2
<1> QED BY <1>3, <1>4

(* A runner that executes after the step did before, on the same object,   *)
(* or has just swapped it in.                                              *)
LEMMA StillExecuted ==
  ASSUME Executed,
         \A q \in Runners : pc'[q] = "exec" =>
           \/ pc[q] = "exec" /\ Running(q)' = Running(q)
              /\ m_state'[Running(q)] = m_state[Running(q)]
           \/ m_state'[Running(q)'] = "EXEC"
  PROVE  Executed'
BY DEF Executed

-----------------------------------------------------------------------------
(* RInv is preserved by run() and by the tasks                             *)

(* A callback moves from the list into the hands of a runner.              *)
LEMMA TakeRInv ==
  ASSUME IInv, RInv, NEW r \in Runners, Take(r)
  PROVE  RInv'
<1> USE DEF RInv
<1>1. PICK i \in DOMAIN m_coroutines :
        /\ coe' = [coe EXCEPT ![r] = m_coroutines[i]]
        /\ m_coroutines' = RemoveAt(m_coroutines, i)
  BY DEF Take
<1> DEFINE e == m_coroutines[i]
<1>2. e \in Listed /\ WellFormed(e)
  BY ListedFacts DEF Listed
<1>3. /\ coe[r] = NoEntry /\ pc[r] = "scan" /\ pc' = [pc EXCEPT ![r] = "picked"]
      /\ UNCHANGED <<cb_coroutine, m_state, m_cb, issued, ended>>
  BY DEF IInv, Take, At, Goto, RunShape, OnCoroutine, cortVars, taskVars
<1>4. /\ coe'[r] = e /\ \A q \in Runners : q # r => coe'[q] = coe[q] /\ pc'[q] = pc[q]
      /\ pc'[r] = "picked"
  BY <1>1, <1>3 DEF IInv, TypeOK
<1>5. CbUnique' /\ \A t \in Task : CbListed(t)' <=> CbListed(t) /\ t # e.cb
  BY <1>1, EraseCb DEF OnePlace
<1>6. e.cb \in Task \cup {Null} /\ (e.cb # Null => CbListed(e.cb)) /\ Null \notin Task
  BY <1>2, SchedulerAssumption DEF WellFormed, Entry, CbListed
<1>7. NoEntry.cb = Null
  BY DEF NoEntry
<1> HIDE DEF e
<1>8. \A t \in Task : /\ CbTaken(t)' <=> CbTaken(t) \/ t = e.cb
                      /\ Body(t)' <=> Body(t)
  BY <1>3, <1>4, <1>6, <1>7 DEF CbTaken, Body
<1>9. OnePlace'
  <2>1. ASSUME NEW p \in Runners, NEW q \in Runners, coe'[p].cb # Null, coe'[p].cb = coe'[q].cb
        PROVE  p = q
    <3>1. e.cb # Null => ~CbTaken(e.cb)
      BY <1>6 DEF OnePlace
    <3> QED BY <2>1, <3>1, <1>4 DEF OnePlace, CbTaken
  <2>2. ASSUME NEW t \in Task
        PROVE  /\ ~(CbListed(t)' /\ CbTaken(t)')
               /\ ~(Body(t)' /\ (CbListed(t)' \/ CbTaken(t)'))
    BY <1>5, <1>6, <1>8 DEF OnePlace
  <2> QED BY <2>1, <2>2, <1>3, <1>5 DEF OnePlace
<1>10. EndedGone'
  BY <1>3, <1>5, <1>6, <1>8 DEF EndedGone, IInv, TypeOK
<1>11. Executed'
  <2>1. ASSUME NEW q \in Runners, pc'[q] = "exec" PROVE pc[q] = "exec" /\ Running(q)' = Running(q)
    BY <2>1, <1>3, <1>4 DEF Running
  <2> QED BY <2>1, <1>3, StillExecuted
<1> QED BY <1>9, <1>10, <1>11

(* What the steps of a runner r between two visits to the list have in     *)
(* common: only its object c changes.                                      *)
Turn(r, c) ==
  /\ \A q \in Runners : q # r => /\ coe'[q] = coe[q] /\ cb_coroutine'[q] = cb_coroutine[q]
                                 /\ pc'[q] = pc[q] /\ ~Holds(q, c)
  /\ \A d \in Cort : d # c => m_state'[d] = m_state[d] /\ m_cb'[d] = m_cb[d]
  /\ coe'[r].cb \in {coe[r].cb, Null}
  /\ pc'[r] = "exec" => Running(r)' = c /\ m_state'[c] = "EXEC"
  /\ issued' = issued

(* The runners other than r keep their objects.                            *)
LEMMA OthersRun ==
  ASSUME IInv, NEW r \in Runners, NEW c \in Cort, Turn(r, c), NEW q \in Runners, q # r,
         pc[q] \in OnCoroutine
  PROVE  /\ Running(q)' = Running(q) /\ Running(q) \in Cort /\ Running(q) # c
         /\ m_state'[Running(q)] = m_state[Running(q)] /\ m_cb'[Running(q)] = m_cb[Running(q)]
<1>1. Running(q) \in Cort /\ Holds(q, Running(q))
  BY RunningType DEF IInv, Running, Holds
<1>2. Running(q)' = Running(q)
  BY DEF Turn, Running
<1> QED BY <1>1, <1>2 DEF Turn

(* Such a step keeps RInv, if it gives c no task.                          *)
LEMMA TurnRInv ==
  ASSUME IInv, IInv', TInv, RInv, NEW r \in Runners, NEW c \in Cort, Turn(r, c),
         CbUnique', \A t \in Task : CbListed(t)' <=> CbListed(t),
         m_cb'[c] \in {m_cb[c], Null},
         \A t \in ended' \ ended : t = m_cb[c],
         m_cb'[c] \in ended' => m_state'[c] \in Dead
  PROVE  RInv'
<1>1. Executed'
  <2>1. ASSUME NEW q \in Runners, q # r, pc'[q] = "exec"
        PROVE  pc[q] = "exec" /\ Running(q)' = Running(q)
               /\ m_state'[Running(q)] = m_state[Running(q)]
    BY <2>1, OthersRun DEF Turn, OnCoroutine
  <2>2. pc'[r] = "exec" => m_state'[Running(r)'] = "EXEC"
    BY DEF Turn
  <2> QED BY <2>1, <2>2, StillExecuted DEF RInv
<1>2. ASSUME NEW d \in Cort, m_cb'[d] \in ended' PROVE m_state'[d] \in Dead
  <2> SUFFICES ASSUME d # c PROVE m_state[d] \in Dead
    BY <1>2 DEF Turn
  <2>1. m_cb[d] \in ended' /\ m_cb[d] # Null
    BY <1>2, SchedulerAssumption DEF Turn, IInv, TypeOK
  <2>2. CASE m_cb[d] \in ended
    BY <2>2 DEF RInv, EndedGone
  <2>3. CASE m_cb[d] \notin ended
    BY <2>1, <2>3 DEF RInv, OnePlace
  <2> QED BY <2>2, <2>3
<1>3. \A t \in ended' \ ended : Body(t)
  BY DEF Body
<1>4. OnePlace' /\ EndedGone'
  BY <1>2, <1>3, PlacesShrink DEF Turn
<1> QED BY <1>1, <1>4 DEF RInv

(* A runner is on one object, which nobody else has.                       *)
LEMMA OnObject ==
  ASSUME IInv, OInv, NEW r \in Runners,
         pc[r] \in OnCoroutine \/ (pc[r] = "picked" /\ coe[r].cort # Null)
  PROVE  /\ Running(r) \in Cort /\ Holds(r, Running(r)) /\ ~Queued(Running(r))
         /\ \A q \in Runners : q # r => ~Holds(q, Running(r))
<1>1. Running(r) \in Cort
  <2>1. CASE pc[r] \in OnCoroutine
    BY <2>1, RunningType DEF IInv
  <2>2. CASE coe[r].cort # Null
    BY <2>2 DEF IInv, TypeOK, Entry, Running
  <2> QED BY <2>1, <2>2
<1>2. Holds(r, Running(r))
  BY <1>1 DEF Running, Holds
<1> QED BY <1>1, <1>2 DEF OInv, RunnerUnique

(* swapIn(), and what the task may do to end its turn.                     *)
LEMMA RunningTurn ==
  ASSUME IInv, OInv, NEW r \in Runners,
         SwapIn(r) \/ Yield(r) \/ Sleep(r) \/ Return(r) \/ Throw(r)
  PROVE  /\ Turn(r, Running(r)) /\ UNCHANGED <<m_coroutines, coe, cb_coroutine>>
         /\ Running(r) \in Cort /\ Running(r)' = Running(r)
         /\ m_cb'[Running(r)] \in {m_cb[Running(r)], Null}
<1> DEFINE c == Running(r)
<1>1. /\ UNCHANGED <<m_coroutines, coe, cb_coroutine, issued>>
      /\ \/ SwapIn(r) /\ pc[r] = "picked" /\ pc' = [pc EXCEPT ![r] = "exec"] /\ coe[r].cort # Null
         \/ ~SwapIn(r) /\ pc[r] = "exec" /\ pc' = [pc EXCEPT ![r] = "out"]
  BY DEF SwapIn, Yield, Sleep, Suspend, Return, Throw, At, Goto, queueVars, taskVars
<1>2. c \in Cort /\ \A q \in Runners : q # r => ~Holds(q, c)
  BY <1>1, OnObject DEF OnCoroutine
<1>3. \A d \in Cort : d # c => m_state'[d] = m_state[d] /\ m_cb'[d] = m_cb[d]
  BY <1>2 DEF SwapIn, Yield, Sleep, Suspend, Return, Throw, Running, IInv, TypeOK
<1>4. m_cb'[c] \in {m_cb[c], Null}
  BY <1>2 DEF SwapIn, Yield, Sleep, Suspend, Return, Throw, IInv, TypeOK
<1>5. Running(r)' = Running(r)
  BY <1>1 DEF Running
<1>6. pc'[r] = "exec" => m_state'[c] = "EXEC"
  <2> SUFFICES ASSUME pc'[r] = "exec" PROVE m_state'[c] = "EXEC"
    OBVIOUS
  <2>1. SwapIn(r) /\ c = coe[r].cort
    BY <1>1 DEF IInv, TypeOK, Running
  <2> QED BY <2>1, <1>2 DEF SwapIn, IInv, TypeOK
<1>7. \A q \in Runners : q # r => pc'[q] = pc[q]
  BY <1>1 DEF IInv, TypeOK
<1> HIDE DEF c
<1>8. Turn(r, c)
  BY <1>1, <1>2, <1>3, <1>5, <1>6, <1>7 DEF Turn, c
<1> QED BY <1>1, <1>2, <1>4, <1>5, <1>8 DEF c

(* What a task does when it returns or throws, or only pauses or sleeps.   *)
LEMMA RunningRInv ==
  ASSUME IInv, IInv', OInv, TInv, RInv, NEW r \in Runners,
         SwapIn(r) \/ Yield(r) \/ Sleep(r) \/ Return(r) \/ Throw(r)
  PROVE  RInv'
<1> DEFINE c == Running(r)
<1>1. Turn(r, c) /\ UNCHANGED <<m_coroutines, coe>> /\ c \in Cort /\ m_cb'[c] \in {m_cb[c], Null}
  BY RunningTurn
<1>2. CbUnique' /\ \A t \in Task : CbListed(t)' <=> CbListed(t)
  BY <1>1 DEF RInv, OnePlace, CbUnique, CbListed, Listed
<1>3. \A t \in ended' \ ended : t = m_cb[c]
  BY DEF SwapIn, Yield, Sleep, Suspend, Return, Throw, taskVars
<1>4. m_cb'[c] \in ended' => m_state'[c] \in Dead
  <2>1. CASE SwapIn(r)
    <3>1. c = coe[r].cort /\ UNCHANGED <<m_cb, ended>> /\ m_state[c] \notin Dead
      BY <2>1 DEF SwapIn, Running, taskVars
    <3> QED BY <3>1, <1>1 DEF RInv, EndedGone
  <2>2. CASE Yield(r) \/ Sleep(r)
    <3>1. UNCHANGED <<m_cb, ended>> /\ pc[r] = "exec"
      BY <2>2 DEF Yield, Sleep, Suspend, At
    <3>2. m_state[c] \notin Dead
      BY <3>1 DEF RInv, Executed, Dead
    <3> QED BY <3>1, <3>2, <1>1 DEF RInv, EndedGone
  <2>3. CASE Return(r)
    BY <2>3, <1>1 DEF Return, IInv, TypeOK, Dead
  <2>4. CASE Throw(r)
    BY <2>4, <1>1 DEF Throw, IInv, TypeOK, Dead
  <2> QED BY <2>1, <2>2, <2>3, <2>4
<1> HIDE DEF c
<1> QED BY <1>1, <1>2, <1>3, <1>4, TurnRInv

(* After the swap.                                                         *)
LEMMA AfterSwapTurn ==
  ASSUME IInv, OInv, TInv, NEW r \in Runners, Requeue(r) \/ Retire(r) \/ Park(r)
  PROVE  /\ Turn(r, Running(r)) /\ Running(r) \in Cort /\ UNCHANGED ended
         /\ pc[r] = "back" /\ pc'[r] = "scan"
         /\ m_cb'[Running(r)] \in {m_cb[Running(r)], Null}
<1> DEFINE c == Running(r)
<1>1. /\ pc[r] = "back" /\ pc' = [pc EXCEPT ![r] = "scan"]
      /\ coe' = [coe EXCEPT ![r] = NoEntry] /\ UNCHANGED <<issued, ended>>
  BY DEF Requeue, Retire, Park, At, Goto, taskVars
<1>2. c \in Cort /\ \A q \in Runners : q # r => ~Holds(q, c)
  BY <1>1, OnObject DEF OnCoroutine
<1>3. \A d \in Cort : d # c => m_state'[d] = m_state[d] /\ m_cb'[d] = m_cb[d]
  BY <1>2 DEF Requeue, Retire, Park, IInv, TypeOK, cortVars
<1>4. m_cb'[c] \in {m_cb[c], Null}
  BY <1>2 DEF Requeue, Retire, Park, IInv, TypeOK, cortVars
<1>5. /\ \A q \in Runners : q # r => coe'[q] = coe[q] /\ cb_coroutine'[q] = cb_coroutine[q]
                                    /\ pc'[q] = pc[q]
      /\ coe'[r] = NoEntry /\ pc'[r] = "scan"
  BY <1>1 DEF Requeue, Retire, Park, IInv, TypeOK
<1>6. NoEntry.cb = Null
  BY DEF NoEntry
<1> HIDE DEF c
<1>7. Turn(r, c)
  BY <1>1, <1>2, <1>3, <1>5, <1>6 DEF Turn
<1> QED BY <1>1, <1>2, <1>4, <1>5, <1>7 DEF c

(* A coroutine that yielded, ended or sleeps is let go of.                 *)
LEMMA AfterSwapRInv ==
  ASSUME IInv, IInv', OInv, TInv, RInv, NEW r \in Runners, Requeue(r) \/ Retire(r) \/ Park(r)
  PROVE  RInv'
<1> DEFINE c == Running(r)
<1>1. Turn(r, c) /\ c \in Cort /\ UNCHANGED ended /\ m_cb'[c] \in {m_cb[c], Null}
  BY AfterSwapTurn
<1>2. CbUnique' /\ \A t \in Task : CbListed(t)' <=> CbListed(t)
  <2>1. CASE Requeue(r)
    <3>1. Push(<<CortEntry(c, Null)>>)
      BY <2>1 DEF Requeue
    <3> HIDE DEF c
    <3> QED BY <3>1, <1>1, PushObject DEF RInv, OnePlace
  <2>2. CASE Retire(r) \/ Park(r)
    <3>1. UNCHANGED m_coroutines
      BY <2>2 DEF Retire, Park, queueVars
    <3> QED BY <3>1 DEF RInv, OnePlace, CbUnique, CbListed, Listed
  <2> QED BY <2>1, <2>2
<1>3. m_cb'[c] \in ended' => m_state'[c] \in Dead
  <2> SUFFICES ASSUME m_cb'[c] \in ended PROVE m_state'[c] \in Dead
    BY <1>1
  <2>1. m_cb'[c] = m_cb[c] /\ m_cb[c] # Null
    BY <1>1, SchedulerAssumption DEF IInv, TypeOK
  <2>2. m_state[c] \in Dead
    BY <2>1, <1>1 DEF RInv, EndedGone
  <2>3. Retire(r)
    BY <2>2 DEF Requeue, Park, Dead
  <2>4. ~IsCb(r)
    BY <2>1, <2>3, <1>1 DEF Retire, IInv, TypeOK
  <2> QED BY <2>2, <2>3, <2>4 DEF Retire
<1> HIDE DEF c
<1> QED BY <1>1, <1>2, <1>3, TurnRInv

(* A callback becomes the body of an object that has none.                 *)
LEMMA RunCbTurn ==
  ASSUME IInv, OInv, TInv, NEW r \in Runners, RunCb(r)
  PROVE  \E c \in Cort :
           /\ Turn(r, c) /\ m_cb[c] = Null /\ m_cb'[c] = coe[r].cb /\ m_state'[c] = "EXEC"
           /\ coe[r].cb \in Task /\ coe'[r].cb = Null
           /\ pc[r] = "picked" /\ pc'[r] = "exec" /\ coe[r].cort = Null /\ coe'[r].cort = Null
           /\ UNCHANGED <<m_coroutines, ended>>
<1>1. PICK c \in Cort :
        /\ IF cb_coroutine[r] = Null THEN m_state[c] = "NONE" ELSE c = cb_coroutine[r]
        /\ cb_coroutine' = [cb_coroutine EXCEPT ![r] = c]
        /\ m_state' = [m_state EXCEPT ![c] = "EXEC"]
        /\ m_cb' = [m_cb EXCEPT ![c] = coe[r].cb]
  BY DEF RunCb
<1>2. /\ coe' = [coe EXCEPT ![r] = NoEntry] /\ pc[r] = "picked" /\ coe[r].cb # Null
      /\ pc' = [pc EXCEPT ![r] = "exec"] /\ UNCHANGED <<m_coroutines, issued, ended>>
      /\ coe[r].cort = Null
  BY DEF RunCb, At, Goto, queueVars, IInv, RunShape, taskVars
<1>3. /\ c # Null /\ NoEntry.cort = Null /\ NoEntry.cb = Null /\ coe[r].cb \in Task
  BY <1>2, SchedulerAssumption DEF NoEntry, IInv, TypeOK, Entry
<1>4. (\A q \in Runners : q # r => ~Holds(q, c)) /\ m_cb[c] = Null
  <2>1. CASE cb_coroutine[r] = Null
    BY <2>1, <1>1 DEF OInv, Born, TInv, Bodies, BodyOK
  <2>2. CASE cb_coroutine[r] # Null
    BY <2>2, <1>1, <1>2 DEF OInv, RunnerUnique, Holds, TInv, Bodies, HandsOK, Reserve, OnCoroutine
  <2> QED BY <2>1, <2>2
<1>5. /\ coe'[r] = NoEntry /\ pc'[r] = "exec" /\ cb_coroutine'[r] = c
      /\ m_state'[c] = "EXEC" /\ m_cb'[c] = coe[r].cb
      /\ \A q \in Runners : q # r => /\ coe'[q] = coe[q] /\ pc'[q] = pc[q]
                                     /\ cb_coroutine'[q] = cb_coroutine[q]
      /\ \A d \in Cort : d # c => m_state'[d] = m_state[d] /\ m_cb'[d] = m_cb[d]
  BY <1>1, <1>2 DEF IInv, TypeOK
<1>6. Running(r)' = c
  BY <1>3, <1>5 DEF Running
<1>7. Turn(r, c)
  BY <1>2, <1>3, <1>4, <1>5, <1>6 DEF Turn
<1> QED BY <1>2, <1>3, <1>4, <1>5, <1>7

(* It was in no other place, and is in no other now.                       *)
LEMMA RunCbRInv ==
  ASSUME IInv, OInv, TInv, RInv, NEW r \in Runners, RunCb(r)
  PROVE  RInv'
<1> USE DEF RInv
<1> DEFINE t == coe[r].cb
<1>1. PICK c \in Cort :
        /\ Turn(r, c) /\ m_cb[c] = Null /\ m_cb'[c] = t /\ m_state'[c] = "EXEC"
        /\ t \in Task /\ coe'[r].cb = Null /\ UNCHANGED <<m_coroutines, ended>>
  BY RunCbTurn
<1>2. CbTaken(t) /\ Null \notin Task /\ \A q \in Runners : q # r => coe[q].cb # t
  BY <1>1, SchedulerAssumption DEF CbTaken, OnePlace
<1>3. ~Body(t) /\ ~CbListed(t) /\ t \notin ended
  BY <1>1, <1>2 DEF OnePlace, EndedGone
<1> HIDE DEF t
<1>4. ASSUME NEW u \in Task
      PROVE  /\ CbListed(u)' <=> CbListed(u)
             /\ CbTaken(u)' => CbTaken(u) /\ u # t
             /\ Body(u)' => Body(u) \/ u = t
  BY <1>1, <1>2 DEF Turn, CbListed, Listed, CbTaken, Body
<1>5. OnePlace'
  <2>1. ASSUME NEW p \in Runners, NEW q \in Runners, coe'[p].cb # Null, coe'[p].cb = coe'[q].cb
        PROVE  p = q
    BY <2>1, <1>1 DEF Turn, OnePlace
  <2>2. ASSUME NEW a \in Cort, NEW b \in Cort, m_cb'[a] # Null, m_cb'[a] = m_cb'[b]
        PROVE  a = b
    BY <2>2, <1>1, <1>3 DEF Turn, OnePlace, Body
  <2>3. ASSUME NEW u \in Task
        PROVE  /\ ~(CbListed(u)' /\ CbTaken(u)')
               /\ ~(Body(u)' /\ (CbListed(u)' \/ CbTaken(u)'))
    BY <1>3, <1>4 DEF OnePlace
  <2>4. CbUnique'
    BY <1>1 DEF OnePlace, CbUnique
  <2> QED BY <2>1, <2>2, <2>3, <2>4 DEF OnePlace
<1>6. EndedGone'
  <2> SUFFICES ASSUME NEW u \in ended
               PROVE  /\ u \in issued' /\ ~CbListed(u)' /\ ~CbTaken(u)'
                      /\ \A d \in Cort : m_cb'[d] = u => m_state'[d] \in Dead
    BY <1>1 DEF EndedGone
  <2>1. u \in Task /\ u # t
    BY <1>3 DEF IInv, TypeOK
  <2> QED BY <2>1, <1>1, <1>4 DEF Turn, EndedGone
<1>7. Executed'
  <2>1. ASSUME NEW q \in Runners, q # r, pc'[q] = "exec"
        PROVE  pc[q] = "exec" /\ Running(q)' = Running(q)
               /\ m_state'[Running(q)] = m_state[Running(q)]
    BY <2>1, <1>1, OthersRun DEF Turn, OnCoroutine
  <2>2. pc'[r] = "exec" => m_state'[Running(r)'] = "EXEC"
    BY <1>1 DEF Turn
  <2> QED BY <2>1, <2>2, StillExecuted
<1> QED BY <1>5, <1>6, <1>7

-----------------------------------------------------------------------------
(* RInv is preserved by start(), stop() and schedule()                     *)

(* A step that touches no task, no object and nothing in the list.  It may *)
(* drop a coroutine that has ended.                                        *)
Quiet ==
  /\ UNCHANGED <<m_coroutines, m_state, m_cb, issued, ended>>
  /\ \A q \in Runners :
       /\ coe'[q].cb \in {coe[q].cb, Null}
       /\ pc'[q] = "exec" <=> pc[q] = "exec"
       /\ pc[q] = "exec" => Running(q)' = Running(q)
  /\ \A d \in Cort : m_state[d] = "HOLD" => (Taken(d)' <=> Taken(d))

(* The steps of run() that move only the runner.                           *)
LEMMA RunnerQuiet ==
  ASSUME IInv, NEW r \in Runners,
         FindNothing(r) \/ DropEnded(r) \/ SwapOut(r) \/ IdleCheck(r) \/ IdleOut(r)
  PROVE  Quiet
<1>1. UNCHANGED <<m_coroutines, cb_coroutine, m_state, m_cb, issued, ended>>
  BY DEF FindNothing, DropEnded, SwapOut, IdleCheck, IdleOut, queueVars, cortVars, taskVars
<1>2. PICK where : /\ pc' = [pc EXCEPT ![r] = where] /\ where \notin {"exec", "picked"}
                   /\ pc[r] # "exec" /\ (pc[r] = "picked" => DropEnded(r))
  BY DEF FindNothing, DropEnded, IdleOrLeave, SwapOut, IdleCheck, IdleOut, Goto, At
<1>3. /\ pc'[r] = where /\ \A q \in Runners : q # r => pc'[q] = pc[q] /\ coe'[q] = coe[q]
      /\ coe'[r] = coe[r] \/ coe'[r].cb = Null
  BY <1>2 DEF FindNothing, DropEnded, SwapOut, IdleCheck, IdleOut, IInv, TypeOK, NoEntry
<1>4. ASSUME NEW q \in Runners
      PROVE  /\ coe'[q].cb \in {coe[q].cb, Null}
             /\ pc'[q] = "exec" <=> pc[q] = "exec"
             /\ pc[q] = "exec" => Running(q)' = Running(q)
  BY <1>1, <1>2, <1>3 DEF Running
<1>5. ASSUME NEW d \in Cort, m_state[d] = "HOLD" PROVE Taken(d)' <=> Taken(d)
  <2>1. pc[r] = "picked" => coe[r].cort # d
    BY <1>2, <1>5 DEF DropEnded, Dead
  <2> QED BY <2>1, <1>2, <1>3 DEF Taken
<1> QED BY <1>1, <1>4, <1>5 DEF Quiet

(* start(), the steps of stop() and ~Scheduler.                            *)
LEMMA ControlQuiet ==
  ASSUME IInv, Start \/ StopBegin \/ StopStep \/ Destroy \/ UNCHANGED vars
  PROVE  Quiet
<1>1. UNCHANGED <<m_coroutines, coe, m_state, m_cb, issued, ended>>
  BY DEF Start, StopBegin, StopStep, StopAlone, StopFlag, StopRoot, RootBack, StopJoin,
         Destroy, queueVars, runVars, cortVars, taskVars, vars
<1>2. ASSUME NEW q \in Runners
      PROVE  \/ pc'[q] = pc[q] /\ cb_coroutine'[q] = cb_coroutine[q]
             \/ pc'[q] = "scan" /\ Out(q)
  <2>1. CASE Start
    <3>1. q \in poolThreads => q \in Workers /\ Out(q)
      BY <2>1 DEF Start, IInv, TypeOK, Control
    <3> QED BY <2>1, <3>1 DEF Start
  <2>2. CASE StopRoot
    <3>1. UseCaller => Out(Caller)
      BY <2>2 DEF StopRoot, IInv, Control
    <3> QED BY <2>2, <3>1 DEF StopRoot, runVars, IInv, TypeOK
  <2>3. CASE StopBegin \/ StopAlone \/ StopFlag \/ RootBack \/ StopJoin \/ Destroy
             \/ UNCHANGED vars
    BY <2>3 DEF StopBegin, StopAlone, StopFlag, RootBack, StopJoin, Destroy, runVars, vars
  <2> QED BY <2>1, <2>2, <2>3 DEF StopStep
<1>3. \A q \in Runners : /\ pc'[q] = "exec" <=> pc[q] = "exec"
                         /\ pc'[q] = "picked" <=> pc[q] = "picked"
                         /\ pc[q] = "exec" => Running(q)' = Running(q)
  BY <1>1, <1>2 DEF Out, Running
<1> QED BY <1>1, <1>3 DEF Quiet, Taken

(* They keep RInv.                                                         *)
LEMMA QuietRInv ==
  ASSUME IInv, IInv', TInv, RInv, Quiet
  PROVE  RInv'
<1>1. Executed'
  BY StillExecuted DEF Quiet, RInv
<1>2. CbUnique' /\ \A t \in Task : CbListed(t)' <=> CbListed(t)
  BY DEF Quiet, RInv, OnePlace, CbUnique, CbListed, Listed
<1>3. \A d \in Cort : m_cb'[d] \in ended' => m_state'[d] \in Dead
  BY DEF Quiet, RInv, EndedGone
<1>4. OnePlace' /\ EndedGone'
  BY <1>2, <1>3, PlacesShrink DEF Quiet
<1> QED BY <1>1, <1>4 DEF RInv

(* Callbacks that are new enter the list.                                  *)
LEMMA EnterCbsRInv ==
  ASSUME IInv, IInv', TInv, RInv, NEW es \in Seq(Entry), Push(es),
         \A i \in 1..Len(es) : es[i].cb \in Task \ issued /\ es[i].cb \in issued',
         \A i, j \in 1..Len(es) : i # j => es[i].cb # es[j].cb,
         issued \subseteq issued', UNCHANGED <<runVars, cortVars, ended>>
  PROVE  RInv'
<1> USE DEF RInv
<1>1. \A t \in Task \ issued : ~CbListed(t) /\ ~CbTaken(t) /\ ~Body(t) /\ t \notin ended
  BY DEF TInv, Handed, Somewhere, EndedGone
<1>2. CbUnique'
  BY <1>1, PushCbUnique DEF OnePlace
<1>3. Listed' = Listed \cup {es[i] : i \in 1..Len(es)}
  BY PushListed
<1>4. ASSUME NEW t \in Task
      PROVE  /\ CbListed(t)' => CbListed(t) \/ t \notin issued
             /\ (CbTaken(t)' <=> CbTaken(t)) /\ (Body(t)' <=> Body(t))
  BY <1>3 DEF CbListed, CbTaken, Body, runVars, cortVars
<1>5. OnePlace'
  <2>1. ASSUME NEW t \in Task
        PROVE  /\ ~(CbListed(t)' /\ CbTaken(t)')
               /\ ~(Body(t)' /\ (CbListed(t)' \/ CbTaken(t)'))
    BY <1>1, <1>4 DEF OnePlace
  <2> QED BY <2>1, <1>2 DEF OnePlace, runVars, cortVars
<1>6. EndedGone'
  <2>1. ended \subseteq Task
    BY DEF IInv, TypeOK
  <2> QED BY <2>1, <1>1, <1>4 DEF EndedGone, cortVars
<1>7. Executed'
  BY DEF Executed, Running, runVars, cortVars
<1> QED BY <1>5, <1>6, <1>7

(* An object enters the list: a new one with a new task, one that sleeps   *)
(* or one that has ended.                                                  *)
LEMMA EnterObjectRInv ==
  ASSUME IInv, IInv', OInv, TInv, RInv, NEW c \in Cort, NEW th \in Runners \cup {Null},
         Push(<<CortEntry(c, th)>>), \A q \in Runners : ~Holds(q, c),
         \A d \in Cort : d # c => m_state'[d] = m_state[d] /\ m_cb'[d] = m_cb[d],
         \/ m_state'[c] = m_state[c] /\ m_cb'[c] = m_cb[c]
         \/ m_cb[c] = Null /\ m_cb'[c] \in Task \ issued,
         issued \subseteq issued', UNCHANGED <<runVars, ended>>
  PROVE  RInv'
<1> USE DEF RInv
<1>1. \A t \in Task \ issued : ~CbListed(t) /\ ~CbTaken(t) /\ ~Body(t) /\ t \notin ended
  BY DEF TInv, Handed, Somewhere, EndedGone
<1>2. CbUnique' /\ \A t \in Task : CbListed(t)' <=> CbListed(t)
  BY PushObject DEF OnePlace
<1>3. ASSUME NEW t \in Task
      PROVE  (CbTaken(t)' <=> CbTaken(t)) /\ (Body(t)' => Body(t) \/ t \notin issued)
  BY DEF CbTaken, Body, runVars
<1>4. OnePlace'
  <2>1. ASSUME NEW a \in Cort, NEW b \in Cort, m_cb'[a] # Null, m_cb'[a] = m_cb'[b]
        PROVE  a = b
    BY <2>1, <1>1 DEF OnePlace, Body
  <2>2. ASSUME NEW t \in Task
        PROVE  /\ ~(CbListed(t)' /\ CbTaken(t)')
               /\ ~(Body(t)' /\ (CbListed(t)' \/ CbTaken(t)'))
    BY <1>1, <1>2, <1>3 DEF OnePlace
  <2> QED BY <2>1, <2>2, <1>2 DEF OnePlace, runVars
<1>5. EndedGone'
  <2>1. ended \subseteq Task
    BY DEF IInv, TypeOK
  <2> QED BY <2>1, <1>1, <1>2, <1>3 DEF EndedGone
<1>6. Executed'
  <2>1. ASSUME NEW q \in Runners, pc'[q] = "exec"
        PROVE  pc[q] = "exec" /\ Running(q)' = Running(q)
               /\ m_state'[Running(q)] = m_state[Running(q)]
    <3>1. pc[q] = "exec" /\ Running(q)' = Running(q)
      BY <2>1 DEF Running, runVars
    <3>2. Running(q) \in Cort /\ Running(q) # c
      BY <3>1, RunningType DEF IInv, OnCoroutine, Running, Holds
    <3> QED BY <3>1, <3>2
  <2> QED BY <2>1, StillExecuted
<1> QED BY <1>4, <1>5, <1>6

(* schedule(), and scheduling a coroutine that has ended.                  *)
LEMMA ScheduleRInv ==
  ASSUME "earlyWake" \notin Usage, IInv, IInv', OInv, TInv, RInv,
         NEW threads \in SUBSET (Runners \cup {Null}), Schedule(threads),
         UNCHANGED <<runVars, ended>>
  PROVE  RInv'
<1>1. CASE \E t \in Task, th \in threads : ScheduleCb(t, th)
  <2>1. PICK t \in Task, th \in threads : ScheduleCb(t, th)
    BY <1>1
  <2> DEFINE es == <<CbEntry(t, th)>>
  <2>2. /\ es \in Seq(Entry) /\ Len(es) = 1 /\ \A i \in 1..Len(es) : es[i].cb = t
        /\ \A i, j \in 1..Len(es) : i = j
    BY EntryTypes DEF WellFormed, CbEntry
  <2>3. Push(es) /\ UNCHANGED cortVars /\ t \notin issued /\ issued' = issued \cup {t}
    BY <2>1 DEF ScheduleCb
  <2> HIDE DEF es
  <2> QED BY <2>2, <2>3, EnterCbsRInv
<1>2. CASE \E t \in Task, c \in Cort, th \in threads : ScheduleCort(t, c, th)
  <2>1. PICK t \in Task, c \in Cort, th \in threads : ScheduleCort(t, c, th)
    BY <1>2
  <2>2. (\A q \in Runners : ~Holds(q, c)) /\ m_cb[c] = Null
    BY <2>1 DEF ScheduleCort, OInv, Born, TInv, Bodies, BodyOK
  <2>3. m_cb'[c] = t /\ \A d \in Cort : d # c => m_state'[d] = m_state[d] /\ m_cb'[d] = m_cb[d]
    BY <2>1 DEF ScheduleCort, IInv, TypeOK
  <2>4. Push(<<CortEntry(c, th)>>) /\ t \notin issued /\ issued \subseteq issued'
    BY <2>1 DEF ScheduleCort
  <2> QED BY <2>2, <2>3, <2>4, EnterObjectRInv
<1>3. CASE \E t1, t2 \in Task : ScheduleRange(t1, t2)
  <2>1. PICK t1, t2 \in Task : ScheduleRange(t1, t2)
    BY <1>3
  <2> DEFINE e1 == CbEntry(t1, Null)
             e2 == CbEntry(t2, Null)
             es == <<e1, e2>>
  <2>2. e1 \in Entry /\ e1.cb = t1 /\ e2 \in Entry /\ e2.cb = t2
    BY EntryTypes DEF WellFormed, CbEntry
  <2>3. /\ Push(es) /\ UNCHANGED cortVars /\ t1 \notin issued /\ t2 \notin issued /\ t1 # t2
        /\ issued' = issued \cup {t1, t2}
    BY <2>1 DEF ScheduleRange
  <2> HIDE DEF e1, e2
  <2>4. es \in Seq(Entry) /\ Len(es) = 2 /\ es[1] = e1 /\ es[2] = e2
    BY <2>2
  <2>5. \A i \in 1..2 : i = 1 \/ i = 2
    OBVIOUS
  <2> HIDE DEF es
  <2> QED BY <2>2, <2>3, <2>4, <2>5, EnterCbsRInv
<1>4. CASE \E c \in Cort : Wake(c)
  <2>1. PICK c \in Cort : Wake(c)
    BY <1>4
  <2>2. /\ Settled(c) /\ UNCHANGED <<m_state, m_cb, issued>> /\ Push(<<CortEntry(c, Null)>>)
    BY <2>1 DEF Wake, cortVars
  <2> QED BY <2>2, EnterObjectRInv DEF Settled
<1> QED BY <1>1, <1>2, <1>3, <1>4 DEF Schedule

(* A coroutine that has ended is scheduled again.                          *)
LEMMA StaleRInv ==
  ASSUME IInv, IInv', OInv, TInv, RInv, NEW c \in Cort, CallerSchedulesEnded(c)
  PROVE  RInv'
<1>1. /\ Settled(c) /\ UNCHANGED <<m_state, m_cb, issued, ended, runVars>>
      /\ Push(<<CortEntry(c, Null)>>)
  BY DEF CallerSchedulesEnded, cortVars, taskVars
<1> QED BY <1>1, EnterObjectRInv DEF Settled

(* Whoever calls schedule(), only the list, the objects and the history    *)
(* of what was handed over change.                                         *)
LEMMA WhoSchedules ==
  ASSUME \/ CallerSchedules
         \/ OutsideSchedules
         \/ \E r \in Runners : TaskSchedules(r)
  PROVE  /\ \E threads \in SUBSET (Runners \cup {Null}) : Schedule(threads)
         /\ UNCHANGED <<runVars, flagVars, ended>>
<1>1. CASE CallerSchedules
  BY <1>1 DEF CallerSchedules, KnownThreads
<1>2. CASE OutsideSchedules
  BY <1>2 DEF OutsideSchedules, KnownThreads
<1>3. CASE \E r \in Runners : TaskSchedules(r)
  <2>1. PICK r \in Runners : TaskSchedules(r)
    BY <1>3
  <2> DEFINE ths == {Null} \cup (IF "pin" \in Usage THEN {r} ELSE {})
                           \cup (IF "pinOther" \in Usage THEN KnownThreads ELSE {})
  <2>2. Schedule(ths) /\ UNCHANGED <<runVars, flagVars, ended>>
    BY <2>1 DEF TaskSchedules
  <2>3. ths \in SUBSET (Runners \cup {Null})
    BY DEF KnownThreads
  <2> HIDE DEF ths
  <2> QED BY <2>2, <2>3
<1> QED BY <1>1, <1>2, <1>3

(* No task is anywhere when the scheduler is constructed.                  *)
LEMMA InitRInv == Init => RInv
<1> SUFFICES ASSUME Init PROVE RInv
  OBVIOUS
<1>1. Listed = {} /\ DOMAIN m_coroutines = {}
  BY DEF Init, Listed
<1>2. /\ \A r \in Runners : coe[r].cb = Null /\ pc[r] = "unborn"
      /\ \A c \in Cort : m_cb[c] = Null
      /\ ended = {}
  BY DEF Init, NoEntry
<1>3. OnePlace
  BY <1>1, <1>2, SchedulerAssumption DEF OnePlace, CbUnique, CbListed, CbTaken, Body
<1> QED BY <1>2, <1>3 DEF RInv, EndedGone, Executed

(* Every step keeps each task in one place.                                *)
LEMMA NextRInv ==
  ASSUME "earlyWake" \notin Usage, IInv, IInv', OInv, TInv, RInv, [Next]_vars
  PROVE  RInv'
<1>1. CASE \/ CallerSchedules \/ OutsideSchedules \/ \E r \in Runners : TaskSchedules(r)
  <2>1. PICK threads \in SUBSET (Runners \cup {Null}) : Schedule(threads)
    BY <1>1, WhoSchedules
  <2> QED BY <1>1, <2>1, WhoSchedules, ScheduleRInv
<1>2. CASE \E c \in Cort : CallerSchedulesEnded(c)
  BY <1>2, StaleRInv
<1>3. CASE Start \/ StopBegin \/ StopStep \/ Destroy \/ UNCHANGED vars
  BY <1>3, ControlQuiet, QuietRInv
<1>4. CASE \E r \in Runners : RunLoop(r)
  BY <1>4, TakeRInv, RunnerQuiet, QuietRInv, RunningRInv, RunCbRInv, AfterSwapRInv DEF RunLoop
<1>5. CASE \E r \in Runners : Yield(r) \/ Sleep(r) \/ Return(r) \/ Throw(r)
  BY <1>5, RunningRInv
<1> QED BY <1>1, <1>2, <1>3, <1>4, <1>5 DEF Next, CallerStep, TaskStep, Finished

(* RInv holds in every reachable state.                                    *)
LEMMA AlwaysRInv ==
  ASSUME "earlyWake" \notin Usage
  PROVE  Spec => []RInv
<1>1. IInv /\ IInv' /\ OInv /\ TInv /\ RInv /\ [Next]_vars => RInv'
  BY NextRInv
<1> QED BY <1>1, InitRInv, AlwaysIInv, AlwaysOInv, AlwaysTInv, PTL DEF Spec

-----------------------------------------------------------------------------
(* The refinement mapping                                                  *)

(* At most one runner executes a task.                                     *)
LEMMA OneExecutor ==
  ASSUME IInv, OInv, RInv, NEW t \in Task, NEW r \in Runners, NEW q \in Runners,
         pc[r] = "exec", m_cb[Running(r)] = t,
         pc[q] \in OnCoroutine, m_cb[Running(q)] = t
  PROVE  q = r
<1>1. Running(r) \in Cort /\ Running(q) \in Cort /\ Holds(r, Running(r)) /\ Holds(q, Running(q))
  BY OnObject DEF OnCoroutine
<1>2. Running(r) = Running(q)
  BY <1>1, SchedulerAssumption DEF RInv, OnePlace
<1> QED BY <1>1, <1>2 DEF OInv, RunnerUnique

(* In a state of the invariants the phase of a task is its stage: no task  *)
(* is executed twice.                                                      *)
LEMMA PhaseIsStage ==
  ASSUME IInv, OInv, TInv, RInv
  PROVE  Mapped
<1> SUFFICES ASSUME NEW t \in Task PROVE Phase(t) = Stage(t)
  BY DEF Mapped
<1>1. CASE ~Executing(t)
  <2>1. Executors(t) = {}
    BY <1>1 DEF Executing, Executors
  <2>2. Cardinality(Executors(t)) = 0
    BY <2>1, FS_EmptySet
  <2>3. (\E c \in Cort : m_cb[c] = t /\ m_state[c] = "HOLD" /\ ~Queued(c) /\ ~Taken(c))
          <=> Sleeping(t)
    BY DEF Sleeping, Asleep, Waiting
  <2> DEFINE n == Cardinality(Executors(t))
             sleeps == \E c \in Cort : m_cb[c] = t /\ m_state[c] = "HOLD" /\ ~Queued(c) /\ ~Taken(c)
  <2>4. ~(n > 1) /\ n # 1
    BY <2>2
  <2> HIDE DEF n, sleeps
  <2>5. Stage(t) = IF t \notin issued THEN "new" ELSE IF t \in ended THEN "done"
                   ELSE IF sleeps THEN "asleep" ELSE "pending"
    BY <1>1, <2>3 DEF Stage, sleeps
  <2>6. Phase(t) = IF t \notin issued THEN "new" ELSE IF t \in ended THEN "done"
                   ELSE IF sleeps THEN "asleep" ELSE "pending"
    <3>1. t \in ended => t \in issued
      BY DEF RInv, EndedGone
    <3> QED BY <3>1, <2>1, <2>4 DEF Phase, n, sleeps
  <2> QED BY <2>5, <2>6
<1>2. CASE Executing(t)
  <2>1. PICK r \in Runners : pc[r] = "exec" /\ m_cb[Running(r)] = t
    BY <1>2 DEF Executing
  <2>2. Executors(t) = {r}
    BY <2>1, OneExecutor DEF Executors, OnCoroutine
  <2>3. Cardinality(Executors(t)) = 1
    BY <2>2, FS_Singleton
  <2>4. t \in issued
    <3>1. Running(r) \in Cort
      BY <2>1, RunningType DEF IInv, OnCoroutine
    <3> QED BY <2>1, <3>1 DEF TInv, Handed, Somewhere, Body
  <2>5. Stage(t) = "running"
    BY <1>2, <2>4 DEF Stage
  <2>6. Phase(t) = "running"
    BY <2>2, <2>3, <2>4 DEF Phase
  <2> QED BY <2>5, <2>6
<1> QED BY <1>1, <1>2

-----------------------------------------------------------------------------
(* Steps the pool does not see                                             *)

Still == \A t \in Task : Stage(t)' = Stage(t)

(* A task stays where it is if who executes it, whether it sleeps and the  *)
(* history of it do not change.                                            *)
LEMMA SameStages ==
  ASSUME UNCHANGED <<issued, ended>>,
         \A q \in Runners : /\ pc'[q] = "exec" <=> pc[q] = "exec"
                            /\ pc[q] = "exec" => m_cb'[Running(q)'] = m_cb[Running(q)],
         \A d \in Cort : /\ Asleep(d)' <=> Asleep(d)
                         /\ Asleep(d) => m_cb'[d] = m_cb[d]
  PROVE  Still
<1> SUFFICES ASSUME NEW t \in Task PROVE Stage(t)' = Stage(t)
  BY DEF Still
<1>1. Executing(t)' <=> Executing(t)
  BY DEF Executing
<1>2. Sleeping(t)' <=> Sleeping(t)
  BY DEF Sleeping
<1> QED BY <1>1, <1>2 DEF Stage

(* The idle coroutine, counting down, leaving run(), start() and stop().   *)
LEMMA QuietStill ==
  ASSUME Quiet
  PROVE  Still
<1>1. \A d \in Cort : Asleep(d)' <=> Asleep(d)
  BY DEF Quiet, Asleep, Waiting, Queued
<1> QED BY <1>1, SameStages DEF Quiet

(* The scan: what was waiting in the list waits in a runner's hands.       *)
LEMMA TakeStill ==
  ASSUME IInv, OInv, NEW r \in Runners, Take(r)
  PROVE  Still
<1>1. PICK i \in DOMAIN m_coroutines :
        /\ coe' = [coe EXCEPT ![r] = m_coroutines[i]]
        /\ m_coroutines' = RemoveAt(m_coroutines, i)
  BY DEF Take
<1> DEFINE e == m_coroutines[i]
<1>2. /\ pc[r] = "scan" /\ pc' = [pc EXCEPT ![r] = "picked"]
      /\ UNCHANGED <<cb_coroutine, m_state, m_cb, issued, ended>>
  BY DEF Take, At, Goto, cortVars, taskVars
<1>3. /\ coe'[r] = e /\ \A q \in Runners : q # r => coe'[q] = coe[q] /\ pc'[q] = pc[q]
      /\ pc'[r] = "picked"
  BY <1>1, <1>2 DEF IInv, TypeOK
<1>4. \A c \in Cort : Queued(c)' <=> Queued(c) /\ c # e.cort
  BY <1>1, EraseCort DEF IInv, OInv
<1>5. \A c \in Cort : c = e.cort => Queued(c)
  BY DEF Queued
<1> HIDE DEF e
<1>6. \A c \in Cort : Taken(c)' <=> Taken(c) \/ c = e.cort
  BY <1>2, <1>3 DEF Taken
<1>7. \A d \in Cort : Asleep(d)' <=> Asleep(d)
  BY <1>2, <1>4, <1>5, <1>6 DEF Asleep, Waiting
<1>8. ASSUME NEW q \in Runners
      PROVE  /\ pc'[q] = "exec" <=> pc[q] = "exec"
             /\ pc[q] = "exec" => m_cb'[Running(q)'] = m_cb[Running(q)]
  BY <1>2, <1>3 DEF Running
<1> QED BY <1>2, <1>7, <1>8, SameStages

(* An object only its runner holds waits for nobody.                       *)
LEMMA OnlyHolder ==
  ASSUME IInv, OInv, NEW r \in Runners, pc[r] \in OnCoroutine
  PROVE  ~Waiting(Running(r))
<1>1. Running(r) \in Cort /\ ~Queued(Running(r))
      /\ \A q \in Runners : q # r => ~Holds(q, Running(r))
  BY OnObject
<1> QED BY <1>1 DEF Waiting, Taken, Holds, OnCoroutine

(* After the swap: the task yielded, ended or slept before.                *)
LEMMA AfterSwapStill ==
  ASSUME IInv, OInv, TInv, NEW r \in Runners, Requeue(r) \/ Retire(r) \/ Park(r)
  PROVE  Still
<1>0. PICK c \in Cort : c = Running(r)
  BY AfterSwapTurn
<1>1. /\ Turn(r, c) /\ c \in Cort /\ UNCHANGED ended /\ pc[r] = "back" /\ pc'[r] = "scan"
  BY <1>0, AfterSwapTurn
<1>2. ~Waiting(c)
  BY <1>0, <1>1, OnlyHolder DEF OnCoroutine
<1>3. m_state[c] \in {"READY", "HOLD"} \cup Dead
  BY <1>0, <1>1 DEF TInv, Bodies, HandsOK
<1>4. ASSUME NEW d \in Cort PROVE Taken(d)' <=> Taken(d)
  BY <1>1 DEF Taken, Turn
<1>5. /\ \A d \in Cort : d # c => (Queued(d)' <=> Queued(d))
      /\ m_state[c] = "HOLD" => /\ Queued(c)' <=> Queued(c)
                                /\ m_state'[c] = "HOLD" /\ m_cb'[c] = m_cb[c]
      /\ m_state[c] # "HOLD" => m_state'[c] # "HOLD"
  <2>1. CASE Requeue(r)
    <3>1. Push(<<CortEntry(c, Null)>>) /\ ~Queued(c) /\ UNCHANGED m_state /\ m_state[c] = "READY"
      BY <2>1, <1>0, <1>2 DEF Requeue, Waiting, cortVars
    <3>2. \A d \in Cort : Queued(d)' <=> Queued(d) \/ d = c
      BY <3>1, <1>1, PushCort DEF IInv, OInv
    <3> QED BY <3>1, <3>2
  <2>2. CASE Retire(r)
    <3>1. UNCHANGED m_coroutines /\ m_state[c] \in Dead /\ m_state'[c] \in {"INIT", m_state[c]}
      BY <2>2, <1>0, <1>1 DEF Retire, queueVars, IInv, TypeOK
    <3> QED BY <3>1 DEF Queued, Dead
  <2>3. CASE Park(r)
    <3>1. /\ UNCHANGED <<m_coroutines, m_cb>> /\ m_state[c] \notin Dead \cup {"READY"}
          /\ m_state'[c] = "HOLD"
      BY <2>3, <1>0, <1>1 DEF Park, queueVars, IInv, TypeOK
    <3> QED BY <3>1, <1>3 DEF Queued
  <2> QED BY <2>1, <2>2, <2>3
<1>6. \A d \in Cort : /\ Asleep(d)' <=> Asleep(d)
                      /\ Asleep(d) => m_cb'[d] = m_cb[d]
  <2> SUFFICES ASSUME NEW d \in Cort
               PROVE  (Asleep(d)' <=> Asleep(d)) /\ (Asleep(d) => m_cb'[d] = m_cb[d])
    OBVIOUS
  <2>1. CASE d = c
    BY <2>1, <1>4, <1>5 DEF Asleep, Waiting
  <2>2. CASE d # c
    BY <2>2, <1>1, <1>4, <1>5 DEF Asleep, Waiting, Turn
  <2> QED BY <2>1, <2>2
<1>7. ASSUME NEW q \in Runners
      PROVE  /\ pc'[q] = "exec" <=> pc[q] = "exec"
             /\ pc[q] = "exec" => m_cb'[Running(q)'] = m_cb[Running(q)]
  BY <1>1, OthersRun DEF Turn, OnCoroutine
<1> QED BY <1>1, <1>6, <1>7, SameStages DEF Turn

(* A coroutine that has ended is scheduled again.                          *)
LEMMA StaleStill ==
  ASSUME IInv, OInv, NEW c \in Cort, CallerSchedulesEnded(c)
  PROVE  Still
<1>1. /\ ~Queued(c) /\ UNCHANGED <<m_state, m_cb, issued, ended, runVars>>
      /\ Push(<<CortEntry(c, Null)>>) /\ m_state[c] \in Dead
  BY DEF CallerSchedulesEnded, cortVars, taskVars, Settled
<1>2. \A d \in Cort : Queued(d)' <=> Queued(d) \/ d = c
  BY <1>1, PushCort DEF IInv, OInv
<1>3. \A d \in Cort : Asleep(d)' <=> Asleep(d)
  BY <1>1, <1>2 DEF Asleep, Waiting, Taken, runVars, Dead
<1>4. \A q \in Runners : /\ pc'[q] = "exec" <=> pc[q] = "exec"
                         /\ pc[q] = "exec" => m_cb'[Running(q)'] = m_cb[Running(q)]
  BY <1>1 DEF Running, runVars
<1> QED BY <1>1, <1>3, <1>4, SameStages

-----------------------------------------------------------------------------
(* Steps of one task                                                       *)

Moves(t, from, to) ==
  /\ Stage(t) = from /\ Stage(t)' = to
  /\ \A u \in Task : u # t => Stage(u)' = Stage(u)

(* The tasks other than the one in c stay where they are when a runner     *)
(* takes its turn on c.                                                    *)
LEMMA OtherTasks ==
  ASSUME IInv, NEW r \in Runners, NEW c \in Cort, Turn(r, c),
         pc[r] = "exec" => Running(r) = c,
         pc[r] = "picked" => coe[r].cort \in {c, Null},
         pc'[r] # "picked", UNCHANGED m_coroutines,
         NEW u \in Task, u # m_cb[c], u # m_cb'[c], u \in ended' <=> u \in ended
  PROVE  Stage(u)' = Stage(u)
<1>1. Executing(u)' <=> Executing(u)
  <2>1. ASSUME NEW q \in Runners, q # r
        PROVE  pc'[q] = "exec" /\ m_cb'[Running(q)'] = u <=> pc[q] = "exec" /\ m_cb[Running(q)] = u
    BY <2>1, OthersRun DEF Turn, OnCoroutine
  <2>2. pc'[r] = "exec" => m_cb'[Running(r)'] # u
    BY DEF Turn
  <2>3. pc[r] = "exec" => m_cb[Running(r)] # u
    OBVIOUS
  <2> QED BY <2>1, <2>2, <2>3 DEF Executing
<1>2. ASSUME NEW d \in Cort, d # c PROVE Asleep(d)' <=> Asleep(d)
  <2>1. Queued(d)' <=> Queued(d)
    BY DEF Queued
  <2>2. Taken(d)' <=> Taken(d)
    BY <1>2, SchedulerAssumption DEF Taken, Turn
  <2> QED BY <1>2, <2>1, <2>2 DEF Asleep, Waiting, Turn
<1>3. Sleeping(u)' <=> Sleeping(u)
  BY <1>2 DEF Sleeping, Turn
<1> QED BY <1>1, <1>3 DEF Stage, Turn

(* The stage of the task in the object a runner executes.                  *)
LEMMA RunningStage ==
  ASSUME TInv, NEW t \in Task, NEW r \in Runners, pc[r] = "exec", Running(r) \in Cort,
         m_cb[Running(r)] = t
  PROVE  Stage(t) = "running" /\ t \in issued
<1>1. t \in issued
  BY DEF TInv, Handed, Somewhere, Body
<1> QED BY <1>1 DEF Stage, Executing

(* swapIn() resumes the task that waited in the runner's hands.            *)
LEMMA SwapInMoves ==
  ASSUME IInv, OInv, TInv, RInv, NEW r \in Runners, SwapIn(r)
  PROVE  Still \/ \E t \in Task : Moves(t, "pending", "running")
<1>0. PICK c \in Cort : c = Running(r)
  BY RunningTurn
<1>1. /\ Turn(r, c) /\ UNCHANGED <<m_coroutines, coe, cb_coroutine, m_cb, ended>>
      /\ Running(r)' = c /\ c = coe[r].cort /\ pc[r] = "picked" /\ pc'[r] = "exec"
      /\ m_state[c] \notin Dead
  BY <1>0, RunningTurn DEF SwapIn, At, Goto, Running, taskVars, IInv, TypeOK
<1>2. \A u \in Task : u # m_cb[c] => Stage(u)' = Stage(u)
  BY <1>1, OtherTasks
<1>3. CASE m_cb[c] = Null
  BY <1>2, <1>3, SchedulerAssumption DEF Still
<1>4. CASE m_cb[c] # Null
  <2> DEFINE t == m_cb[c]
  <2>1. PICK u \in Task : u = t
    BY <1>4 DEF IInv, TypeOK
  <2>2. u \in issued
    BY <2>1 DEF TInv, Handed, Somewhere, Body
  <2>3. \A d \in Cort : m_cb[d] = u => d = c
    BY <2>1, SchedulerAssumption DEF RInv, OnePlace
  <2>4. ~Executing(u)
    <3> SUFFICES ASSUME NEW q \in Runners, pc[q] = "exec", m_cb[Running(q)] = u PROVE FALSE
      BY DEF Executing
    <3>1. Running(q) = c /\ Holds(q, c)
      BY <2>3, OnObject DEF OnCoroutine
    <3>2. Holds(r, c)
      BY <1>1 DEF Holds
    <3> QED BY <3>1, <3>2, <1>1 DEF OInv, RunnerUnique
  <2>5. u \notin ended
    BY <2>1, <1>1 DEF RInv, EndedGone
  <2>6. ~Sleeping(u)
    BY <2>3, <1>1 DEF Sleeping, Asleep, Waiting, Taken
  <2>7. Stage(u) = "pending"
    BY <2>2, <2>4, <2>5, <2>6 DEF Stage
  <2>8. Executing(u)' /\ u \in issued'
    BY <2>1, <2>2, <1>1 DEF Executing, Turn
  <2>9. Stage(u)' = "running"
    BY <2>8 DEF Stage
  <2> QED BY <2>1, <2>7, <2>9, <1>2 DEF Moves
<1> QED BY <1>3, <1>4

(* So does running a callback.                                             *)
LEMMA RunCbMoves ==
  ASSUME IInv, OInv, TInv, RInv, NEW r \in Runners, RunCb(r)
  PROVE  \E t \in Task : Moves(t, "pending", "running")
<1>1. PICK c \in Cort :
        /\ Turn(r, c) /\ m_cb[c] = Null /\ m_cb'[c] = coe[r].cb
        /\ coe[r].cb \in Task /\ pc[r] = "picked" /\ pc'[r] = "exec" /\ coe[r].cort = Null
        /\ UNCHANGED <<m_coroutines, ended>>
  BY RunCbTurn
<1>2. PICK t \in Task : t = coe[r].cb
  BY <1>1
<1>3. \A u \in Task : u # t => Stage(u)' = Stage(u)
  BY <1>1, <1>2, OtherTasks, SchedulerAssumption
<1>4. CbTaken(t)
  BY <1>2 DEF CbTaken
<1>5. t \in issued /\ ~Body(t) /\ t \notin ended
  BY <1>4 DEF TInv, Handed, Somewhere, RInv, OnePlace, EndedGone
<1>6. ~Executing(t)
  BY <1>5, OnObject DEF Executing, Body, OnCoroutine
<1>7. ~Sleeping(t)
  BY <1>5 DEF Sleeping, Body
<1>8. Stage(t) = "pending"
  BY <1>5, <1>6, <1>7 DEF Stage
<1>9. Executing(t)' /\ t \in issued'
  BY <1>1, <1>2, <1>5 DEF Executing, Turn
<1>10. Stage(t)' = "running"
  BY <1>9 DEF Stage
<1> QED BY <1>3, <1>8, <1>10 DEF Moves

(* A task that gives up its turn is executed by nobody afterwards.         *)
LEMMA TurnEnds ==
  ASSUME IInv, OInv, RInv, NEW r \in Runners, NEW c \in Cort, c = Running(r), Turn(r, c),
         pc[r] = "exec", pc'[r] = "out", NEW t \in Task, m_cb[c] = t
  PROVE  ~Executing(t)'
<1> SUFFICES ASSUME NEW q \in Runners, pc'[q] = "exec", m_cb'[Running(q)'] = t PROVE FALSE
  BY DEF Executing
<1>1. q # r /\ pc[q] = "exec"
  BY DEF Turn
<1>2. m_cb[Running(q)] = t
  BY <1>1, OthersRun DEF OnCoroutine
<1> QED BY <1>1, <1>2, OneExecutor DEF OnCoroutine

(* Yield, Sleep, return, exception.                                        *)
LEMMA TaskMoves ==
  ASSUME IInv, OInv, TInv, RInv, NEW r \in Runners,
         Yield(r) \/ Sleep(r) \/ Return(r) \/ Throw(r)
  PROVE  Still \/ \E t \in Task : \/ Moves(t, "running", "pending")
                                  \/ Moves(t, "running", "asleep")
                                  \/ Moves(t, "running", "done")
<1>0. PICK c \in Cort : c = Running(r)
  BY RunningTurn
<1>1. /\ Turn(r, c) /\ UNCHANGED <<m_coroutines, coe, cb_coroutine>>
      /\ Running(r)' = c /\ m_cb'[c] \in {m_cb[c], Null}
  BY <1>0, RunningTurn
<1>2. pc[r] = "exec" /\ pc'[r] = "out"
  BY DEF Yield, Sleep, Suspend, Return, Throw, At, Goto, IInv, TypeOK
<1>3. ended' \subseteq ended \cup {m_cb[c]} /\ ended \subseteq ended'
  BY <1>0 DEF Yield, Sleep, Suspend, Return, Throw
<1>4. \A u \in Task : u # m_cb[c] => Stage(u)' = Stage(u)
  BY <1>0, <1>1, <1>2, <1>3, OtherTasks, SchedulerAssumption
<1>5. CASE m_cb[c] = Null
  BY <1>4, <1>5, SchedulerAssumption DEF Still
<1>6. CASE m_cb[c] # Null
  <2>1. PICK t \in Task : t = m_cb[c]
    BY <1>6 DEF IInv, TypeOK
  <2>2. Stage(t) = "running" /\ t \in issued' /\ ~Executing(t)'
    BY <2>1, <1>0, <1>1, <1>2, RunningStage, TurnEnds DEF Turn
  <2>3. \A d \in Cort : m_cb[d] = t => d = c
    BY <2>1, SchedulerAssumption DEF RInv, OnePlace
  <2>4. \A d \in Cort : m_cb'[d] = t => d = c
    BY <2>3, <1>1, SchedulerAssumption DEF Turn
  <2>5. t \notin ended
    BY <2>1, <1>0, <1>2 DEF RInv, EndedGone, Executed, Dead
  <2>6. CASE Yield(r)
    <3>1. m_state'[c] = "READY" /\ UNCHANGED ended
      BY <2>6, <1>0 DEF Yield, Suspend, IInv, TypeOK
    <3>2. ~Sleeping(t)'
      BY <3>1, <2>4 DEF Sleeping, Asleep
    <3>3. Stage(t)' = "pending"
      BY <3>1, <3>2, <2>2, <2>5 DEF Stage
    <3> QED BY <3>3, <2>1, <2>2, <1>4 DEF Moves
  <2>7. CASE Sleep(r)
    <3>1. m_state'[c] = "HOLD" /\ UNCHANGED <<ended, m_cb>>
      BY <2>7, <1>0 DEF Sleep, Suspend, IInv, TypeOK
    <3>2. ~Queued(c) /\ \A q \in Runners : q # r => ~Holds(q, c)
      BY <1>0, <1>2, OnObject DEF OnCoroutine
    <3>3. ~Queued(c)' /\ ~Taken(c)'
      BY <3>2, <1>1, <1>2 DEF Queued, Taken, Holds
    <3>4. Sleeping(t)'
      BY <3>1, <3>3, <2>1 DEF Sleeping, Asleep, Waiting
    <3>5. Stage(t)' = "asleep"
      BY <3>1, <3>4, <2>2, <2>5 DEF Stage
    <3> QED BY <3>5, <2>1, <2>2, <1>4 DEF Moves
  <2>8. CASE Return(r) \/ Throw(r)
    <3>1. t \in ended'
      BY <2>8, <2>1, <1>0, <1>6 DEF Return, Throw
    <3>2. Stage(t)' = "done"
      BY <3>1, <2>2 DEF Stage
    <3> QED BY <3>2, <2>1, <2>2, <1>4 DEF Moves
  <2> QED BY <2>6, <2>7, <2>8
<1> QED BY <1>5, <1>6

-----------------------------------------------------------------------------
(* schedule()                                                              *)

Submits(S) ==
  /\ \A t \in S : Stage(t) = "new" /\ Stage(t)' = "pending"
  /\ \A u \in Task \ S : Stage(u)' = Stage(u)

(* Callbacks nobody knew wait in the list.                                 *)
LEMMA CallbacksSubmitted ==
  ASSUME IInv, OInv, TInv, RInv, NEW es \in Seq(Entry),
         \A i \in 1..Len(es) : es[i].cort = Null, Push(es),
         NEW S \in SUBSET (Task \ issued), issued' = issued \cup S,
         UNCHANGED <<runVars, cortVars, ended>>
  PROVE  Submits(S)
<1>1. \A d \in Cort : Queued(d)' <=> Queued(d)
  BY PushCbs DEF IInv, OInv
<1>2. \A d \in Cort : (Asleep(d)' <=> Asleep(d)) /\ m_cb'[d] = m_cb[d]
  BY <1>1 DEF Asleep, Waiting, Taken, runVars, cortVars
<1>3. \A t \in Task : (Executing(t)' <=> Executing(t)) /\ (Sleeping(t)' <=> Sleeping(t))
  BY <1>2 DEF Executing, Sleeping, Running, runVars, cortVars
<1>4. ASSUME NEW t \in S PROVE Stage(t) = "new" /\ Stage(t)' = "pending"
  <2>1. t \in Task /\ t \notin issued /\ ~Body(t) /\ t \notin ended
    BY DEF TInv, Handed, Somewhere, RInv, EndedGone
  <2>2. ~Executing(t) /\ ~Sleeping(t)
    BY <2>1, OnObject DEF Executing, Sleeping, Body, OnCoroutine
  <2> QED BY <2>1, <2>2, <1>3 DEF Stage
<1>5. \A u \in Task \ S : Stage(u)' = Stage(u)
  BY <1>3 DEF Stage
<1> QED BY <1>4, <1>5 DEF Submits

(* A task is handed over in an object of its own.                          *)
LEMMA ObjectSubmitted ==
  ASSUME IInv, OInv, TInv, RInv, NEW t \in Task, NEW c \in Cort,
         NEW th \in Runners \cup {Null}, ScheduleCort(t, c, th), UNCHANGED <<runVars, ended>>
  PROVE  Submits({t})
<1>1. /\ m_state[c] = "NONE" /\ t \notin issued /\ issued' = issued \cup {t}
      /\ Push(<<CortEntry(c, th)>>)
      /\ m_state'[c] = "INIT" /\ m_cb'[c] = t
      /\ \A d \in Cort : d # c => m_state'[d] = m_state[d] /\ m_cb'[d] = m_cb[d]
  BY DEF ScheduleCort, IInv, TypeOK
<1>2. ~Queued(c) /\ (\A q \in Runners : ~Holds(q, c)) /\ m_cb[c] = Null
  BY <1>1 DEF OInv, Born, TInv, Bodies, BodyOK
<1>3. \A d \in Cort : Queued(d)' <=> Queued(d) \/ d = c
  BY <1>1, <1>2, PushCort DEF IInv, OInv
<1>4. ASSUME NEW q \in Runners, pc[q] = "exec"
      PROVE  Running(q)' = Running(q) /\ m_cb'[Running(q)] = m_cb[Running(q)]
  BY <1>1, <1>2, <1>4, OnObject DEF OnCoroutine, Running, runVars
<1>5. \A u \in Task : Executing(u)' <=> Executing(u)
  BY <1>4 DEF Executing, runVars
<1>6. /\ \A d \in Cort : d # c => (Asleep(d)' <=> Asleep(d))
      /\ ~Asleep(c) /\ ~Asleep(c)'
  BY <1>1, <1>3 DEF Asleep, Waiting, Taken, runVars
<1>7. \A u \in Task : Sleeping(u)' <=> Sleeping(u)
  BY <1>1, <1>6 DEF Sleeping
<1>8. ~Body(t) /\ t \notin ended
  BY <1>1 DEF TInv, Handed, Somewhere, RInv, EndedGone
<1>9. ~Executing(t) /\ ~Sleeping(t)
  BY <1>8, OnObject DEF Executing, Sleeping, Body, OnCoroutine
<1>10. Stage(t) = "new" /\ Stage(t)' = "pending"
  BY <1>1, <1>5, <1>7, <1>8, <1>9 DEF Stage
<1>11. \A u \in Task \ {t} : Stage(u)' = Stage(u)
  BY <1>1, <1>5, <1>7 DEF Stage
<1> QED BY <1>10, <1>11 DEF Submits

(* A sleeping task is scheduled for its wake-up.                           *)
LEMMA WakeMoves ==
  ASSUME "earlyWake" \notin Usage, IInv, OInv, TInv, RInv, NEW c \in Cort, Wake(c),
         UNCHANGED <<runVars, ended>>
  PROVE  \E t \in Task : Moves(t, "asleep", "pending")
<1>1. /\ m_state[c] = "HOLD" /\ ~Queued(c) /\ (\A q \in Runners : ~Holds(q, c))
      /\ UNCHANGED <<m_state, m_cb, issued>> /\ Push(<<CortEntry(c, Null)>>)
  BY DEF Wake, Settled, cortVars
<1>2. PICK t \in Task : t = m_cb[c]
  BY <1>1 DEF TInv, Bodies, BodyOK, IInv, TypeOK
<1>3. \A d \in Cort : m_cb[d] = t => d = c
  BY <1>2, SchedulerAssumption DEF RInv, OnePlace
<1>4. t \in issued /\ t \notin ended
  BY <1>1, <1>2 DEF TInv, Handed, Somewhere, Body, RInv, EndedGone, Dead
<1>5. ~Executing(t)
  <2> SUFFICES ASSUME NEW q \in Runners, pc[q] = "exec", m_cb[Running(q)] = t PROVE FALSE
    BY DEF Executing
  <2> QED BY <1>1, <1>3, OnObject DEF OnCoroutine
<1>6. Sleeping(t)
  BY <1>1, <1>2 DEF Sleeping, Asleep, Waiting, Taken, Holds
<1>7. \A d \in Cort : Queued(d)' <=> Queued(d) \/ d = c
  BY <1>1, PushCort DEF IInv, OInv
<1>8. ~Sleeping(t)'
  BY <1>1, <1>3, <1>7 DEF Sleeping, Asleep, Waiting
<1>9. \A u \in Task : Executing(u)' <=> Executing(u)
  BY <1>1 DEF Executing, Running, runVars
<1>10. \A u \in Task : u # t => (Sleeping(u)' <=> Sleeping(u))
  BY <1>1, <1>2, <1>7 DEF Sleeping, Asleep, Waiting, Taken, runVars
<1>11. Stage(t) = "asleep" /\ Stage(t)' = "pending"
  BY <1>1, <1>4, <1>5, <1>6, <1>8, <1>9 DEF Stage
<1>12. \A u \in Task : u # t => Stage(u)' = Stage(u)
  BY <1>1, <1>9, <1>10 DEF Stage
<1> QED BY <1>11, <1>12 DEF Moves

(* Every form of schedule().                                               *)
LEMMA ScheduleMoves ==
  ASSUME "earlyWake" \notin Usage, IInv, OInv, TInv, RInv,
         NEW threads \in SUBSET (Runners \cup {Null}), Schedule(threads),
         UNCHANGED <<runVars, ended>>
  PROVE  \/ \E S \in SUBSET Task : Submits(S)
         \/ \E t \in Task : Moves(t, "asleep", "pending")
<1>1. CASE \E t \in Task, th \in threads : ScheduleCb(t, th)
  <2>1. PICK t \in Task, th \in threads : ScheduleCb(t, th)
    BY <1>1
  <2> DEFINE es == <<CbEntry(t, th)>>
  <2>2. es \in Seq(Entry) /\ \A i \in 1..Len(es) : es[i].cort = Null
    BY EntryTypes DEF WellFormed
  <2>3. Push(es) /\ UNCHANGED cortVars /\ t \notin issued /\ issued' = issued \cup {t}
    BY <2>1 DEF ScheduleCb
  <2> HIDE DEF es
  <2>4. Submits({t})
    BY <2>2, <2>3, CallbacksSubmitted
  <2> QED BY <2>4
<1>2. CASE \E t \in Task, c \in Cort, th \in threads : ScheduleCort(t, c, th)
  <2>1. PICK t \in Task, c \in Cort, th \in threads : ScheduleCort(t, c, th)
    BY <1>2
  <2>2. Submits({t})
    BY <2>1, ObjectSubmitted
  <2> QED BY <2>2
<1>3. CASE \E t1, t2 \in Task : ScheduleRange(t1, t2)
  <2>1. PICK t1, t2 \in Task : ScheduleRange(t1, t2)
    BY <1>3
  <2> DEFINE es == <<CbEntry(t1, Null), CbEntry(t2, Null)>>
  <2>2. es \in Seq(Entry) /\ \A i \in 1..Len(es) : es[i].cort = Null
    BY EntryTypes DEF WellFormed
  <2>3. Push(es) /\ UNCHANGED cortVars /\ t1 \notin issued /\ t2 \notin issued
        /\ issued' = issued \cup {t1, t2}
    BY <2>1 DEF ScheduleRange
  <2> HIDE DEF es
  <2>4. Submits({t1, t2})
    BY <2>2, <2>3, CallbacksSubmitted
  <2> QED BY <2>4
<1>4. CASE \E c \in Cort : Wake(c)
  BY <1>4, WakeMoves
<1> QED BY <1>1, <1>2, <1>3, <1>4 DEF Schedule

-----------------------------------------------------------------------------
(* The life of a task, whoever calls schedule()                            *)

Life == {<<"new", "pending">>, <<"pending", "running">>, <<"running", "pending">>,
         <<"running", "asleep">>, <<"asleep", "pending">>, <<"running", "done">>}
LifeStep(t) == Phase(t)' = Phase(t) \/ <<Phase(t), Phase(t)'>> \in Life

(* A task is resumed only when it was handed over or woken and waits, it   *)
(* pauses, sleeps and ends only while one thread runs it, and nothing      *)
(* moves it after its end.  Calls of schedule() from outside, also after   *)
(* stop(), and work pinned to any thread are allowed here; only a sleeping *)
(* coroutine is woken no sooner than its thread has let go of it.          *)
THEOREM TaskLife ==
  ASSUME "earlyWake" \notin Usage
  PROVE  Spec => [][\A t \in Task : LifeStep(t)]_vars
<1>1. IInv /\ OInv /\ TInv /\ RInv => Mapped
  BY PhaseIsStage
<1>2. ASSUME IInv, OInv, TInv, RInv, Mapped, Mapped', [Next]_vars
      PROVE  \A t \in Task : LifeStep(t)
  <2>1. \/ Still
        \/ \E S \in SUBSET Task : Submits(S)
        \/ \E t \in Task : \/ Moves(t, "pending", "running") \/ Moves(t, "running", "pending")
                           \/ Moves(t, "running", "asleep") \/ Moves(t, "running", "done")
                           \/ Moves(t, "asleep", "pending")
    <3>1. CASE \/ CallerSchedules \/ OutsideSchedules \/ \E r \in Runners : TaskSchedules(r)
      BY <3>1, <1>2, WhoSchedules, ScheduleMoves
    <3>2. CASE Start \/ StopBegin \/ StopStep \/ Destroy \/ UNCHANGED vars
      BY <3>2, <1>2, ControlQuiet, QuietStill
    <3>3. CASE \E c \in Cort : CallerSchedulesEnded(c)
      BY <3>3, <1>2, StaleStill
    <3>4. CASE \E r \in Runners : RunLoop(r)
      BY <3>4, <1>2, RunnerQuiet, QuietStill, TakeStill, AfterSwapStill, SwapInMoves,
         RunCbMoves DEF RunLoop
    <3>5. CASE \E r \in Runners : Yield(r) \/ Sleep(r) \/ Return(r) \/ Throw(r)
      BY <3>5, <1>2, TaskMoves
    <3> QED BY <1>2, <3>1, <3>2, <3>3, <3>4, <3>5 DEF Next, CallerStep, TaskStep, Finished
  <2> SUFFICES ASSUME NEW u \in Task PROVE LifeStep(u)
    OBVIOUS
  <2>2. Phase(u) = Stage(u) /\ Phase(u)' = Stage(u)'
    BY <1>2 DEF Mapped
  <2>3. Stage(u)' = Stage(u) \/ <<Stage(u), Stage(u)'>> \in Life
    BY <2>1 DEF Still, Submits, Moves, Life
  <2> QED BY <2>2, <2>3 DEF LifeStep
<1>3. IInv /\ OInv /\ TInv /\ RInv /\ Mapped /\ Mapped' /\ [Next]_vars
        => [\A t \in Task : LifeStep(t)]_vars
  BY <1>2
<1> QED BY <1>1, <1>3, AlwaysIInv, AlwaysOInv, AlwaysTInv, AlwaysRInv, PTL DEF Spec

-----------------------------------------------------------------------------
(* The steps of the pool                                                   *)

phases == [t \in Task |-> Phase(t)]
opened == ctl \notin {"stopped", "gone"}

NoneLate == late = {}

(* When stop() has returned nothing waits and nothing runs.                *)
Closed == ~opened => \A t \in Task : Stage(t) \notin {"pending", "running"}

(* It follows from StopDrains if nobody outside hands tasks over.          *)
LEMMA DrainedCloses ==
  ASSUME StopDrains, NoneLate
  PROVE  Closed
<1> SUFFICES ASSUME ~opened, NEW t \in Task PROVE Stage(t) \notin {"pending", "running"}
  BY DEF Closed
<1>1. /\ DOMAIN m_coroutines = {}
      /\ \A r \in Runners : Out(r)
      /\ \A u \in issued \ ended : \E c \in Cort : m_cb[c] = u /\ m_state[c] = "HOLD"
  BY DEF opened, StopDrains, Out, NoneLate
<1>2. ~Executing(t)
  BY <1>1 DEF Executing, Out
<1>3. \A c \in Cort : ~Waiting(c)
  BY <1>1 DEF Waiting, Queued, Taken, Out
<1>4. t \in issued \ ended => Sleeping(t)
  BY <1>1, <1>3 DEF Sleeping, Asleep
<1> QED BY <1>2, <1>4 DEF Stage

(* The phases follow the stages.                                           *)
LEMMA PhasesMove ==
  ASSUME Mapped, Mapped'
  PROVE  /\ \A t \in Task : phases[t] = Stage(t) /\ phases'[t] = Stage(t)'
         /\ Still => phases' = phases
         /\ \A t \in Task : \A from, to : Moves(t, from, to) =>
              phases[t] = from /\ phases' = [phases EXCEPT ![t] = to]
         /\ \A S \in SUBSET Task : Submits(S) =>
              /\ \A t \in S : phases[t] = "new"
              /\ phases' = [t \in Task |-> IF t \in S THEN "pending" ELSE phases[t]]
<1>1. phases = [t \in Task |-> Stage(t)] /\ phases' = [t \in Task |-> Stage(t)']
  BY DEF phases, Mapped
<1>2. \A t \in Task : phases[t] = Stage(t) /\ phases'[t] = Stage(t)'
  BY <1>1
<1>3. Still => phases' = phases
  BY <1>1 DEF Still
<1>4. ASSUME NEW t \in Task, NEW from, NEW to, Moves(t, from, to)
      PROVE  phases[t] = from /\ phases' = [phases EXCEPT ![t] = to]
  BY <1>1, <1>4 DEF Moves
<1>5. ASSUME NEW S \in SUBSET Task, Submits(S)
      PROVE  /\ \A t \in S : phases[t] = "new"
             /\ phases' = [t \in Task |-> IF t \in S THEN "pending" ELSE phases[t]]
  BY <1>1, <1>5 DEF Submits
<1> QED BY <1>2, <1>3, <1>4, <1>5

(* A step that moves one task is a step of the pool.                       *)
LEMMA PoolMoves ==
  ASSUME Mapped, Mapped', opened' = opened, NEW t \in Task,
         \/ Moves(t, "pending", "running") \/ Moves(t, "running", "pending")
         \/ Moves(t, "running", "asleep") \/ Moves(t, "running", "done")
         \/ opened /\ Moves(t, "asleep", "pending")
  PROVE  Pool!Next
<1>1. CASE Moves(t, "pending", "running")
  <2>1. phases[t] = "pending" /\ phases' = [phases EXCEPT ![t] = "running"]
    BY <1>1, PhasesMove
  <2>2. Pool!Resume(t)
    BY <2>1 DEF Pool!Resume, Pool!Move, phases, opened
  <2> QED BY <2>2 DEF Pool!Next
<1>2. CASE Moves(t, "running", "pending")
  <2>1. phases[t] = "running" /\ phases' = [phases EXCEPT ![t] = "pending"]
    BY <1>2, PhasesMove
  <2>2. Pool!Pause(t)
    BY <2>1 DEF Pool!Pause, Pool!Move, phases, opened
  <2> QED BY <2>2 DEF Pool!Next
<1>3. CASE Moves(t, "running", "asleep")
  <2>1. phases[t] = "running" /\ phases' = [phases EXCEPT ![t] = "asleep"]
    BY <1>3, PhasesMove
  <2>2. Pool!Block(t)
    BY <2>1 DEF Pool!Block, Pool!Move, phases, opened
  <2> QED BY <2>2 DEF Pool!Next
<1>4. CASE Moves(t, "running", "done")
  <2>1. phases[t] = "running" /\ phases' = [phases EXCEPT ![t] = "done"]
    BY <1>4, PhasesMove
  <2>2. Pool!Finish(t)
    BY <2>1 DEF Pool!Finish, Pool!Move, phases, opened
  <2> QED BY <2>2 DEF Pool!Next
<1>5. CASE opened /\ Moves(t, "asleep", "pending")
  <2>1. phases[t] = "asleep" /\ phases' = [phases EXCEPT ![t] = "pending"]
    BY <1>5, PhasesMove
  <2>2. Pool!Wake(t)
    BY <2>1, <1>5 DEF Pool!Wake, Pool!Move, phases, opened
  <2> QED BY <2>2 DEF Pool!Next
<1> QED BY <1>1, <1>2, <1>3, <1>4, <1>5

(* Nothing moves: the pool does nothing, is closed or is opened again.     *)
LEMMA PoolStill ==
  ASSUME Mapped, Mapped', Still, Closed'
  PROVE  [Pool!Next]_(Pool!vars)
<1>1. phases' = phases
  BY PhasesMove
<1>2. CASE opened' = opened
  BY <1>1, <1>2 DEF Pool!vars, phases, opened
<1>3. CASE ~opened /\ opened'
  <2>1. Pool!Reopen
    BY <1>1, <1>3 DEF Pool!Reopen, phases, opened
  <2> QED BY <2>1 DEF Pool!Next
<1>4. CASE opened /\ ~opened'
  <2>1. \A t \in Task : phases[t] \notin {"pending", "running"}
    BY <1>4, PhasesMove DEF Closed, Still
  <2>2. Pool!Close
    BY <1>1, <1>4, <2>1 DEF Pool!Close, phases, opened
  <2> QED BY <2>2 DEF Pool!Next
<1>5. opened \in BOOLEAN /\ opened' \in BOOLEAN
  BY DEF opened
<1> QED BY <1>2, <1>3, <1>4, <1>5

(* schedule() hands tasks to an open pool: its caller is before stop(), or *)
(* a task inside run(), and all of run() is over when stop() returns.      *)
LEMMA PoolSubmits ==
  ASSUME "earlyWake" \notin Usage, IInv, OInv, TInv, RInv, Mapped, Mapped',
         CallerSchedules \/ \E r \in Runners : TaskSchedules(r)
  PROVE  Pool!Next
<1>1. UNCHANGED <<runVars, flagVars, ended>>
      /\ \E threads \in SUBSET (Runners \cup {Null}) : Schedule(threads)
  BY WhoSchedules
<1>2. opened
  <2>1. CASE CallerSchedules
    BY <2>1 DEF CallerSchedules, opened
  <2>2. CASE \E r \in Runners : TaskSchedules(r)
    <3>1. PICK r \in Runners : ~Out(r)
      BY <2>2 DEF TaskSchedules, At, Out
    <3> QED BY <3>1 DEF IInv, Control, Runners, opened
  <2> QED BY <2>1, <2>2
<1>3. opened' = opened
  BY <1>1 DEF opened, flagVars
<1>4. \/ \E S \in SUBSET Task : Submits(S)
      \/ \E t \in Task : Moves(t, "asleep", "pending")
  BY <1>1, ScheduleMoves
<1>5. CASE \E S \in SUBSET Task : Submits(S)
  <2>1. PICK S \in SUBSET Task : Submits(S)
    BY <1>5
  <2>2. /\ \A t \in S : phases[t] = "new"
        /\ phases' = [t \in Task |-> IF t \in S THEN "pending" ELSE phases[t]]
    BY <2>1, PhasesMove
  <2>3. Pool!Submit(S)
    BY <2>2, <1>2, <1>3 DEF Pool!Submit, phases, opened
  <2> QED BY <2>3 DEF Pool!Next
<1>6. CASE \E t \in Task : Moves(t, "asleep", "pending")
  BY <1>2, <1>3, <1>6, PoolMoves
<1> QED BY <1>4, <1>5, <1>6

(* Every step of the scheduler is a step of the pool, or nothing to it.    *)
LEMMA NextPool ==
  ASSUME "earlyWake" \notin Usage, "outside" \notin Usage, IInv, OInv, TInv, RInv,
         Mapped, Mapped', Closed', [Next]_vars
  PROVE  [Pool!Next]_(Pool!vars)
<1>1. CASE CallerSchedules \/ \E r \in Runners : TaskSchedules(r)
  BY <1>1, PoolSubmits
<1>2. CASE \E c \in Cort : CallerSchedulesEnded(c)
  BY <1>2, StaleStill, PoolStill
<1>3. CASE Start \/ StopBegin \/ StopStep \/ Destroy \/ UNCHANGED vars
  BY <1>3, ControlQuiet, QuietStill, PoolStill
<1>4. ASSUME NEW r \in Runners,
             \/ FindNothing(r) \/ DropEnded(r) \/ SwapOut(r) \/ IdleCheck(r) \/ IdleOut(r)
             \/ Take(r) \/ Requeue(r) \/ Retire(r) \/ Park(r)
      PROVE  [Pool!Next]_(Pool!vars)
  BY <1>4, RunnerQuiet, QuietStill, TakeStill, AfterSwapStill, PoolStill
<1>5. ASSUME NEW r \in Runners,
             SwapIn(r) \/ RunCb(r) \/ Yield(r) \/ Sleep(r) \/ Return(r) \/ Throw(r)
      PROVE  [Pool!Next]_(Pool!vars)
  <2>1. opened' = opened
    BY <1>5 DEF SwapIn, RunCb, Yield, Sleep, Suspend, Return, Throw, flagVars, opened
  <2>2. \/ Still
        \/ \E t \in Task : \/ Moves(t, "pending", "running") \/ Moves(t, "running", "pending")
                           \/ Moves(t, "running", "asleep") \/ Moves(t, "running", "done")
    BY <1>5, SwapInMoves, RunCbMoves, TaskMoves
  <2>3. CASE Still
    BY <2>3, PoolStill
  <2> QED BY <2>1, <2>2, <2>3, PoolMoves
<1>6. ~OutsideSchedules
  BY DEF OutsideSchedules
<1> QED BY <1>1, <1>2, <1>3, <1>4, <1>5, <1>6
        DEF Next, CallerStep, RunLoop, TaskStep, Finished

(* The constructor leaves every task new and the pool open.                *)
LEMMA InitPool == ASSUME Mapped PROVE Init => Pool!Init
<1> SUFFICES ASSUME Init PROVE Pool!Init
  OBVIOUS
<1>1. \A t \in Task : Phase(t) = "new"
  BY DEF Init, Mapped, Stage
<1> QED BY <1>1 DEF Init, Pool!Init

(* Only a thread outside the pool hands tasks over late.                   *)
LEMMA NobodyLate ==
  ASSUME "outside" \notin Usage
  PROVE  Spec => []NoneLate
<1>1. Init => NoneLate
  BY DEF Init, NoneLate
<1>2. NoneLate /\ [Next]_vars => NoneLate'
  <2> SUFFICES ASSUME late = {}, [Next]_vars PROVE late' = {}
    BY DEF NoneLate
  <2>1. CASE CallerStep
    BY <2>1 DEF CallerStep, Start, CallerSchedules, OutsideSchedules, StopBegin, StopStep,
                StopAlone, StopFlag, StopRoot, RootBack, StopJoin, Destroy,
                CallerSchedulesEnded, taskVars
  <2>2. ASSUME NEW r \in Runners, RunLoop(r) PROVE late' = {}
    BY <2>2 DEF RunLoop, Take, FindNothing, DropEnded, SwapIn, RunCb, SwapOut, Requeue,
                Retire, Park, IdleCheck, IdleOut, taskVars
  <2>3. ASSUME NEW r \in Runners, TaskStep(r) PROVE late' = {}
    BY <2>3 DEF TaskStep, TaskSchedules, Yield, Sleep, Suspend, Return, Throw
  <2>4. CASE UNCHANGED vars
    BY <2>4 DEF vars, taskVars
  <2> QED BY <2>1, <2>2, <2>3, <2>4 DEF Next, Finished
<1> QED BY <1>1, <1>2, PTL DEF Spec

(* The scheduler implements the pool of tasks, for every number of         *)
(* threads, tasks and objects: a task runs on one thread at a time, from   *)
(* its beginning to its end once, and stop() returns when nothing waits    *)
(* and nothing runs.  The program wakes a sleeping coroutine only once its *)
(* thread has let go of it, a task pins work to no thread but its own, and *)
(* nobody outside calls schedule() while stop() runs or after it.          *)
THEOREM ImplementsPool ==
  ASSUME "earlyWake" \notin Usage, "pinOther" \notin Usage, "outside" \notin Usage
  PROVE  Spec => ImplementsTaskPool
<1>1. IInv /\ OInv /\ TInv /\ RInv => Mapped
  BY PhaseIsStage
<1>2. StopDrains /\ NoneLate => Closed
  BY DrainedCloses
<1>3. Mapped /\ Init => Pool!Init
  BY InitPool
<1>4. /\ IInv /\ OInv /\ TInv /\ RInv /\ Mapped /\ Mapped' /\ Closed' /\ [Next]_vars
      => [Pool!Next]_(Pool!vars)
  BY NextPool
<1> QED BY <1>1, <1>2, <1>3, <1>4, AlwaysIInv, AlwaysOInv, AlwaysTInv, AlwaysRInv,
           StopAlwaysDrains, NobodyLate, PTL
        DEF ImplementsTaskPool, Pool!Spec, Spec

=============================================================================
