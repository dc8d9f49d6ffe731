---------------------------- MODULE SchedulerDrain ----------------------------
(***************************************************************************)
(* Where the tasks of Scheduler are, and that stop() leaves none behind,   *)
(* for every number of threads, tasks and objects.                         *)
(*                                                                         *)
(* A task that was handed over is a callback in the list or in a runner's  *)
(* hands, or the body of an object, until it ends.  A runner leaves run()  *)
(* only when the list has nothing for it, so that every entry that was not *)
(* handed over late has a runner that will come by.                        *)
(***************************************************************************)
EXTENDS SchedulerProofs

Listed == {m_coroutines[i] : i \in DOMAIN m_coroutines}

(* The places of a task; only a task that was handed over is in one.       *)
CbListed(t)  == \E e \in Listed : e.cb = t
CbTaken(t)   == \E r \in Runners : coe[r].cb = t
Body(t)      == \E c \in Cort : m_cb[c] = t
Somewhere(t) == CbListed(t) \/ CbTaken(t) \/ Body(t)
Handed == \A t \in Task : Somewhere(t) => t \in issued

(* A cb_coroutine that is kept for the next callback.                      *)
Reserve(r) == cb_coroutine[r] # Null /\ ~(pc[r] \in OnCoroutine /\ coe[r].cort = Null)

(* What m_state says about m_cb, and what a runner has in its hands.       *)
BodyOK(c) ==
  /\ m_state[c] = "NONE" => m_cb[c] = Null
  /\ m_state[c] \in Dead => m_cb[c] \in ended \cup {Null}
  /\ m_state[c] = "HOLD" => m_cb[c] # Null
HandsOK(r) ==
  /\ Reserve(r) => m_cb[cb_coroutine[r]] = Null
  /\ pc[r] \in {"out", "back"} => m_state[Running(r)] \in {"READY", "HOLD"} \cup Dead
Bodies == (\A c \in Cort : BodyOK(c)) /\ \A r \in Runners : HandsOK(r)

(* A task that has not ended is somewhere; one whose object nobody has is  *)
(* asleep.                                                                 *)
Unended(c) == m_cb[c] \notin ended \cup {Null}
NotLost ==
  /\ \A t \in issued \ ended : Somewhere(t)
  /\ \A c \in Cort : Settled(c) /\ Unended(c) => m_state[c] = "HOLD"

(* The inductive invariant about the places of tasks.                      *)
TInv == Handed /\ Bodies /\ NotLost

(* Which threads are in run(): none before start(), all of the pool until  *)
(* stop() sets m_stopping again.                                           *)
Started ==
  /\ UseCaller \/ poolThreads # {}
  /\ \A w \in Workers \ poolThreads : pc[w] = "unborn"
  /\ ctl = "user" /\ m_stopping => \A w \in Workers : pc[w] = "unborn"
  /\ ~m_stopping => \A w \in poolThreads : ~Out(w) /\ idle_coroutine[w] # "TERM"

(* A runner that has seen stopping() meets no coroutine that had ended,    *)
(* for which it would leave run() without another look at the list.        *)
Leaves(r) == ~Out(r) /\ idle_coroutine[r] = "TERM"
Clean ==
  \A r \in Runners, c \in Cort : Leaves(r) /\ (Queued(c) \/ Taken(c)) => m_state[c] \notin Dead

(* A runner that will scan the list before stop() returns.                 *)
Serves(r) ==
  IF r = Caller
  THEN ctl \in {"user", "stop1", "stop2", "stop3"} \/ (ctl = "root" /\ pc[Caller] # "exited")
  ELSE ~Out(r)
Unstarted == ctl = "user" /\ m_stopping
Awaited(e) ==
  \/ Unstarted /\ e.thread \in {Null, Caller}
  \/ \E r \in Runners : e.thread \in {Null, r} /\ Serves(r)
Draining ==
  \A e \in Listed : /\ e.thread \in {Null, Caller} \cup poolThreads
                    /\ EntryTask(e) \in late \/ Awaited(e)

(* The inductive invariant about the threads that will empty the list.     *)
DInv == Started /\ Clean /\ Draining

-----------------------------------------------------------------------------
(* The list as a set                                                       *)

(* The entries are well formed, and Queued and InList speak about them.    *)
LEMMA ListedFacts ==
  ASSUME IInv
  PROVE  /\ \A e \in Listed : WellFormed(e)
         /\ \A c \in Cort : Queued(c) <=> \E e \in Listed : e.cort = c
         /\ \A t : InList(t) <=> \E e \in Listed : EntryTask(e) = t
<1>1. m_coroutines \in Seq(Entry)
  BY DEF IInv, TypeOK
<1>2. \A i \in DOMAIN m_coroutines : m_coroutines[i] \in Entry
  BY <1>1
<1> QED BY <1>2 DEF IInv, ListShape, Listed, Queued, InList, WellFormed

(* schedule() adds what it appends.                                        *)
LEMMA PushListed ==
  ASSUME IInv, NEW es \in Seq(Entry), Push(es)
  PROVE  Listed' = Listed \cup {es[i] : i \in 1..Len(es)}
<1> DEFINE n == Len(m_coroutines)
<1>1. /\ m_coroutines \in Seq(Entry) /\ n \in Nat /\ DOMAIN m_coroutines = 1..n
      /\ m_coroutines' = m_coroutines \o es /\ Len(es) \in Nat
  BY DEF IInv, TypeOK, Push
<1>2. /\ DOMAIN m_coroutines' = 1..(n + Len(es))
      /\ \A i \in 1..n : m_coroutines'[i] = m_coroutines[i]
      /\ \A i \in DOMAIN m_coroutines' : i \notin 1..n =>
           i - n \in 1..Len(es) /\ m_coroutines'[i] = es[i - n]
  BY <1>1, AppendFacts
<1>3. \A i \in 1..n : i \in 1..(n + Len(es))
  BY <1>1
<1>4. \A i \in 1..Len(es) : /\ n + i \in 1..(n + Len(es)) /\ n + i \notin 1..n
                            /\ (n + i) - n = i
  BY <1>1
<1> HIDE DEF n
<1>5. ASSUME NEW e \in Listed' PROVE e \in Listed \cup {es[i] : i \in 1..Len(es)}
  <2>1. PICK i \in DOMAIN m_coroutines' : e = m_coroutines'[i]
    BY <1>5 DEF Listed
  <2> QED BY <2>1, <1>1, <1>2 DEF Listed
<1>6. Listed \subseteq Listed'
  BY <1>1, <1>2, <1>3 DEF Listed
<1>7. ASSUME NEW i \in 1..Len(es) PROVE es[i] \in Listed'
  <2>1. n + i \in DOMAIN m_coroutines' /\ m_coroutines'[n + i] = es[i]
    BY <1>2, <1>4
  <2> QED BY <2>1 DEF Listed
<1> QED BY <1>5, <1>6, <1>7

(* One entry.                                                              *)
LEMMA PushOneListed ==
  ASSUME IInv, NEW e, WellFormed(e), Push(<<e>>)
  PROVE  Listed' = Listed \cup {e}
<1> DEFINE es == <<e>>
<1>1. es \in Seq(Entry) /\ Push(es)
  BY DEF WellFormed
<1>2. {es[i] : i \in 1..Len(es)} = {e}
  OBVIOUS
<1> HIDE DEF es
<1> QED BY <1>1, <1>2, PushListed

(* The scan removes one entry.                                             *)
LEMMA EraseListed ==
  ASSUME IInv, NEW i \in DOMAIN m_coroutines,
         m_coroutines' = RemoveAt(m_coroutines, i)
  PROVE  Listed' \subseteq Listed /\ Listed \subseteq Listed' \cup {m_coroutines[i]}
<1> DEFINE n == Len(m_coroutines)
           Old(j) == IF j < i THEN j ELSE j + 1
<1>1. m_coroutines \in Seq(Entry) /\ n \in Nat /\ DOMAIN m_coroutines = 1..n
  BY DEF IInv, TypeOK
<1>2. /\ DOMAIN m_coroutines' = 1..(n-1)
      /\ \A j \in 1..(n-1) : m_coroutines'[j] = m_coroutines[Old(j)]
  BY <1>1, RemoveAtFacts
<1>3. \A j \in 1..(n-1) : Old(j) \in 1..n
  BY <1>1
<1>4. ASSUME NEW k \in 1..n, k # i PROVE \E j \in 1..(n-1) : Old(j) = k
  <2>1. CASE k < i
    BY <2>1, <1>1
  <2>2. CASE k > i
    <3>1. k - 1 \in 1..(n-1) /\ Old(k-1) = k
      BY <2>2, <1>1
    <3> QED BY <3>1
  <2> QED BY <2>1, <2>2, <1>1, <1>4
<1> HIDE DEF n, Old
<1>5. Listed' \subseteq Listed
  BY <1>1, <1>2, <1>3 DEF Listed
<1>6. ASSUME NEW k \in 1..n, k # i PROVE m_coroutines[k] \in Listed'
  <2>1. PICK j \in 1..(n-1) : Old(j) = k
    BY <1>4, <1>6
  <2> QED BY <2>1, <1>2 DEF Listed
<1> QED BY <1>1, <1>5, <1>6 DEF Listed

-----------------------------------------------------------------------------
(* schedule()                                                              *)

(* What a call adds to the list, N: entries for the threads the program    *)
(* may name, of tasks that are new or that wake up (for any thread).  The  *)
(* only object it changes is one it constructs.                            *)
Adds(N, threads) ==
  /\ Listed' = Listed \cup N
  /\ issued \subseteq issued'
  /\ \A e \in N :
       /\ WellFormed(e) /\ e.thread \in threads \cup {Null}
       /\ e.cort # Null => m_state'[e.cort] \notin Dead
       /\ EntryTask(e)' \in issued'
       /\ EntryTask(e)' \notin issued \/ e.thread = Null
  /\ \A t \in issued' \ issued : \E e \in N : EntryTask(e)' = t
  /\ \A c \in Cort :
       \/ m_state'[c] = m_state[c] /\ m_cb'[c] = m_cb[c]
       \/ /\ m_state[c] = "NONE" /\ m_state'[c] = "INIT" /\ m_cb'[c] \in issued'
          /\ \E e \in N : e.cort = c

(* Every form of schedule() is one of these.                               *)
LEMMA ScheduleAdds ==
  ASSUME "earlyWake" \notin Usage, IInv, TInv,
         NEW threads \in SUBSET (Runners \cup {Null}), Schedule(threads)
  PROVE  \E N : Adds(N, threads)
<1> USE DEF IInv, TInv
<1>1. CASE \E t \in Task, th \in threads : ScheduleCb(t, th)
  <2>1. PICK t \in Task, th \in threads : ScheduleCb(t, th)
    BY <1>1
  <2> DEFINE e == CbEntry(t, th)
  <2>2. WellFormed(e) /\ e.cort = Null /\ e.cb = t /\ e.thread = th
    BY EntryTypes DEF CbEntry
  <2>3. Push(<<e>>) /\ t \notin issued /\ issued' = issued \cup {t} /\ UNCHANGED cortVars
    BY <2>1 DEF ScheduleCb
  <2> HIDE DEF e
  <2>4. Listed' = Listed \cup {e}
    BY <2>2, <2>3, PushOneListed
  <2>5. EntryTask(e)' = t
    BY <2>2 DEF EntryTask
  <2>6. Adds({e}, threads)
    BY <2>2, <2>3, <2>4, <2>5 DEF Adds, cortVars
  <2> QED BY <2>6
<1>2. CASE \E t \in Task, c \in Cort, th \in threads : ScheduleCort(t, c, th)
  <2>1. PICK t \in Task, c \in Cort, th \in threads : ScheduleCort(t, c, th)
    BY <1>2
  <2> DEFINE e == CortEntry(c, th)
  <2>2. WellFormed(e) /\ e.cort = c /\ e.thread = th /\ c # Null
    BY EntryTypes, SchedulerAssumption DEF CortEntry
  <2>3. /\ Push(<<e>>) /\ t \notin issued /\ issued' = issued \cup {t}
        /\ m_state[c] = "NONE" /\ m_state' = [m_state EXCEPT ![c] = "INIT"]
        /\ m_cb' = [m_cb EXCEPT ![c] = t]
    BY <2>1 DEF ScheduleCort
  <2> HIDE DEF e
  <2>4. Listed' = Listed \cup {e}
    BY <2>2, <2>3, PushOneListed
  <2>5. m_state'[c] = "INIT" /\ m_cb'[c] = t
        /\ \A d \in Cort : d # c => m_state'[d] = m_state[d] /\ m_cb'[d] = m_cb[d]
    BY <2>3 DEF TypeOK
  <2>6. EntryTask(e)' = t
    BY <2>2, <2>5 DEF EntryTask
  <2>7. Adds({e}, threads)
    BY <2>2, <2>3, <2>4, <2>5, <2>6 DEF Adds, Dead
  <2> QED BY <2>7
<1>3. CASE \E t1, t2 \in Task : ScheduleRange(t1, t2)
  <2>1. PICK t1, t2 \in Task : ScheduleRange(t1, t2)
    BY <1>3
  <2> DEFINE e1 == CbEntry(t1, Null)
             e2 == CbEntry(t2, Null)
             es == <<e1, e2>>
  <2>2. /\ WellFormed(e1) /\ e1.cort = Null /\ e1.cb = t1 /\ e1.thread = Null
        /\ WellFormed(e2) /\ e2.cort = Null /\ e2.cb = t2 /\ e2.thread = Null
    BY EntryTypes DEF CbEntry
  <2>3. /\ Push(es) /\ t1 \notin issued /\ t2 \notin issued /\ issued' = issued \cup {t1, t2}
        /\ UNCHANGED cortVars
    BY <2>1 DEF ScheduleRange
  <2> HIDE DEF e1, e2
  <2>4. es \in Seq(Entry) /\ {es[i] : i \in 1..Len(es)} = {e1, e2}
    BY <2>2 DEF WellFormed
  <2> HIDE DEF es
  <2>5. Listed' = Listed \cup {e1, e2}
    BY <2>3, <2>4, PushListed
  <2>6. EntryTask(e1)' = t1 /\ EntryTask(e2)' = t2
    BY <2>2 DEF EntryTask
  <2>7. Adds({e1, e2}, threads)
    BY <2>2, <2>3, <2>5, <2>6 DEF Adds, cortVars
  <2> QED BY <2>7
<1>4. CASE \E c \in Cort : Wake(c)
  <2>1. PICK c \in Cort : Wake(c)
    BY <1>4
  <2> DEFINE e == CortEntry(c, Null)
  <2>2. WellFormed(e) /\ e.cort = c /\ e.thread = Null /\ c # Null
    BY EntryTypes, SchedulerAssumption DEF CortEntry
  <2>3. m_state[c] = "HOLD" /\ Push(<<e>>) /\ UNCHANGED <<m_state, m_cb, issued>>
    BY <2>1 DEF Wake, cortVars
  <2> HIDE DEF e
  <2>4. Listed' = Listed \cup {e}
    BY <2>2, <2>3, PushOneListed
  <2>5. m_cb[c] \in issued
    BY <2>3 DEF Bodies, BodyOK, Handed, Somewhere, Body, TypeOK
  <2>6. EntryTask(e)' = m_cb[c]
    BY <2>2, <2>3 DEF EntryTask
  <2>7. Adds({e}, threads)
    BY <2>2, <2>3, <2>4, <2>5, <2>6 DEF Adds, Dead
  <2> QED BY <2>7
<1> QED BY <1>1, <1>2, <1>3, <1>4 DEF Schedule

(* A call of schedule(), or an ended coroutine scheduled again, loses no   *)
(* task.                                                                   *)
LEMMA AddsTInv ==
  ASSUME IInv, OInv, TInv, IInv', NEW N, NEW threads, Adds(N, threads),
         UNCHANGED <<runVars, ended>>
  PROVE  TInv'
<1> USE DEF TInv
<1>1. \A q \in Runners, c \in Cort : Holds(q, c)' <=> Holds(q, c)
  BY DEF Holds, runVars
<1>2. ASSUME NEW c \in Cort, Queued(c) \/ (\E q \in Runners : Holds(q, c)) \/ m_cb[c] # Null
      PROVE  m_state'[c] = m_state[c] /\ m_cb'[c] = m_cb[c]
  <2>1. m_state[c] # "NONE"
    BY <1>2 DEF OInv, Born, Bodies, BodyOK
  <2> QED BY <2>1 DEF Adds
<1>3. \A c \in Cort : Queued(c) => Queued(c)'
  BY ListedFacts DEF Adds, Queued, Listed
<1>4. Handed'
  <2> SUFFICES ASSUME NEW t \in Task, Somewhere(t)' PROVE t \in issued'
    BY DEF Handed
  <2>0. t # Null
    BY SchedulerAssumption
  <2>1. CASE CbListed(t)'
    <3>1. PICK e \in Listed' : e.cb = t
      BY <2>1 DEF CbListed
    <3>2. CASE e \in Listed
      BY <3>1, <3>2 DEF Handed, Somewhere, CbListed, Adds
    <3>3. CASE e \in N
      <4>1. e.cort = Null
        BY <3>1, <3>3, <2>0 DEF Adds, WellFormed
      <4> QED BY <3>1, <3>3, <4>1 DEF Adds, EntryTask
    <3> QED BY <3>1, <3>2, <3>3 DEF Adds
  <2>2. CASE CbTaken(t)'
    BY <2>2 DEF CbTaken, runVars, Handed, Somewhere, Adds
  <2>3. CASE Body(t)'
    BY <2>3 DEF Body, Handed, Somewhere, Adds
  <2> QED BY <2>1, <2>2, <2>3 DEF Somewhere
<1>5. Bodies'
  <2>1. ASSUME NEW c \in Cort PROVE BodyOK(c)'
    BY DEF Adds, Bodies, BodyOK, Dead
  <2>2. ASSUME NEW q \in Runners PROVE HandsOK(q)'
    <3>1. Reserve(q)' <=> Reserve(q)
      BY DEF Reserve, runVars
    <3>2. Reserve(q) => cb_coroutine[q] \in Cort /\ Holds(q, cb_coroutine[q])
      BY DEF Reserve, Holds, IInv, TypeOK
    <3>3. pc[q] \in OnCoroutine => Running(q) \in Cort /\ Holds(q, Running(q))
      BY RunningType DEF IInv, Running, Holds
    <3>4. Running(q)' = Running(q)
      BY DEF Running, runVars
    <3> QED BY <1>2, <3>1, <3>2, <3>3, <3>4 DEF Bodies, HandsOK, OnCoroutine, runVars
  <2> QED BY <2>1, <2>2 DEF Bodies
<1>6. NotLost'
  <2>1. ASSUME NEW t \in issued' \ ended' PROVE Somewhere(t)'
    <3>1. CASE t \in issued
      <4>1. Somewhere(t)
        BY <3>1, <2>1 DEF NotLost
      <4>2. t # Null
        BY <3>1, SchedulerAssumption DEF IInv, TypeOK
      <4>3. CbListed(t) => CbListed(t)'
        BY DEF CbListed, Adds
      <4>4. CbTaken(t) => CbTaken(t)'
        BY DEF CbTaken, runVars
      <4>5. Body(t) => Body(t)'
        BY <1>2, <4>2 DEF Body
      <4> QED BY <4>1, <4>3, <4>4, <4>5 DEF Somewhere
    <3>2. CASE t \notin issued
      <4>1. PICK e \in N : EntryTask(e)' = t
        BY <2>1, <3>2 DEF Adds
      <4>2. WellFormed(e) /\ e \in Listed'
        BY <4>1 DEF Adds
      <4> QED BY <4>1, <4>2 DEF EntryTask, Somewhere, CbListed, Body, WellFormed, Entry
    <3> QED BY <3>1, <3>2
  <2>2. ASSUME NEW c \in Cort, Settled(c)', Unended(c)' PROVE m_state'[c] = "HOLD"
    <3>1. Settled(c)
      BY <2>2, <1>1, <1>3 DEF Settled
    <3>2. \A e \in N : e.cort # c
      BY <2>2, ListedFacts DEF Settled, Adds, Queued, Listed
    <3>3. m_state'[c] = m_state[c] /\ m_cb'[c] = m_cb[c]
      BY <3>2 DEF Adds
    <3> QED BY <2>2, <3>1, <3>3 DEF NotLost, Unended
  <2> QED BY <2>1, <2>2 DEF NotLost
<1> QED BY <1>4, <1>5, <1>6

-----------------------------------------------------------------------------
(* TInv is preserved by run() and by the tasks                             *)

(* One runner r and one object c, which nobody else has, change.           *)
LEMMA LocalBodies ==
  ASSUME IInv, Bodies, NEW r \in Runners, NEW c \in Cort,
         \A q \in Runners : q # r => /\ ~Holds(q, c) /\ pc'[q] = pc[q] /\ coe'[q] = coe[q]
                                     /\ cb_coroutine'[q] = cb_coroutine[q],
         \A d \in Cort : d # c => m_state'[d] = m_state[d] /\ m_cb'[d] = m_cb[d],
         ended \subseteq ended', BodyOK(c)', HandsOK(r)'
  PROVE  Bodies'
<1>1. ASSUME NEW d \in Cort, d # c PROVE BodyOK(d)'
  BY <1>1 DEF Bodies, BodyOK
<1>2. ASSUME NEW q \in Runners, q # r PROVE HandsOK(q)'
  <2>1. /\ coe'[q] = coe[q] /\ cb_coroutine'[q] = cb_coroutine[q] /\ pc'[q] = pc[q]
        /\ coe[q].cort # c /\ cb_coroutine[q] # c
    BY <1>2 DEF Holds
  <2>2. Running(q)' = Running(q) /\ (Reserve(q)' <=> Reserve(q))
    BY <2>1 DEF Running, Reserve
  <2>3. pc[q] \in {"out", "back"} => Running(q) \in Cort /\ Running(q) # c
    BY <2>1, RunningType DEF IInv, OnCoroutine, Running
  <2>4. Reserve(q) => cb_coroutine[q] \in Cort
    BY DEF Reserve, IInv, TypeOK
  <2> QED BY <2>1, <2>2, <2>3, <2>4 DEF Bodies, HandsOK
<1> QED BY <1>1, <1>2 DEF Bodies

(* The scan: a callback or an object changes hands.                        *)
LEMMA TakeTInv ==
  ASSUME IInv, OInv, TInv, NEW r \in Runners, Take(r)
  PROVE  TInv'
<1> USE DEF TInv, IInv
<1>1. PICK i \in DOMAIN m_coroutines :
        /\ coe' = [coe EXCEPT ![r] = m_coroutines[i]]
        /\ m_coroutines' = RemoveAt(m_coroutines, i)
  BY DEF Take
<1> DEFINE e == m_coroutines[i]
<1>2. e \in Listed /\ WellFormed(e)
  BY ListedFacts DEF Listed
<1>3. /\ coe[r] = NoEntry /\ pc[r] = "scan" /\ pc' = [pc EXCEPT ![r] = "picked"]
      /\ UNCHANGED <<cb_coroutine, m_state, m_cb, issued, ended>>
  BY DEF Take, At, Goto, RunShape, OnCoroutine, cortVars, taskVars
<1>4. coe'[r] = e /\ \A q \in Runners : q # r => coe'[q] = coe[q]
  BY <1>1 DEF TypeOK
<1>5. Listed' \subseteq Listed /\ Listed \subseteq Listed' \cup {e}
  BY <1>1, EraseListed
<1>6. \A c \in Cort : Queued(c)' <=> Queued(c) /\ c # e.cort
  BY <1>1, EraseCort DEF OInv
<1>7. NoEntry.cort = Null /\ NoEntry.cb = Null
  BY DEF NoEntry
<1> HIDE DEF e
<1>8. Handed'
  <2>1. ASSUME NEW t \in Task PROVE Somewhere(t)' => Somewhere(t)
    BY <1>2, <1>3, <1>4, <1>5 DEF Somewhere, CbListed, CbTaken, Body
  <2> QED BY <2>1, <1>3 DEF Handed
<1>9. Bodies'
  <2>1. ASSUME NEW q \in Runners PROVE HandsOK(q)'
    <3>1. q # r => pc'[q] = pc[q] /\ coe'[q] = coe[q]
      BY <1>3, <1>4
    <3>2. pc'[r] = "picked"
      BY <1>3 DEF TypeOK
    <3> QED BY <3>1, <3>2, <1>3 DEF Bodies, HandsOK, Reserve, Running, OnCoroutine
  <2> QED BY <2>1, <1>3 DEF Bodies, BodyOK
<1>10. NotLost'
  <2>1. ASSUME NEW t \in issued' \ ended' PROVE Somewhere(t)'
    <3>1. Somewhere(t) /\ t # Null
      BY <2>1, <1>3, SchedulerAssumption DEF NotLost, TypeOK
    <3>2. CbListed(t) => CbListed(t)' \/ CbTaken(t)'
      BY <1>4, <1>5 DEF CbListed, CbTaken
    <3>3. CbTaken(t) => CbTaken(t)'
      BY <3>1, <1>3, <1>4, <1>7 DEF CbTaken
    <3>4. Body(t) => Body(t)'
      BY <1>3 DEF Body
    <3> QED BY <3>1, <3>2, <3>3, <3>4 DEF Somewhere
  <2>2. ASSUME NEW c \in Cort, Settled(c)' PROVE Settled(c)
    <3>1. \A q \in Runners : ~Holds(q, c)
      BY <2>2, <1>3, <1>4, <1>7, SchedulerAssumption DEF Settled, Holds
    <3>2. ~Queued(c)
      BY <2>2, <1>4, <1>6 DEF Settled, Holds
    <3> QED BY <3>1, <3>2 DEF Settled
  <2> QED BY <2>1, <2>2, <1>3 DEF NotLost, Unended
<1> QED BY <1>8, <1>9, <1>10

(* Steps that move a runner and nothing else.                              *)
LEMMA QuietTInv ==
  ASSUME IInv, TInv, NEW r \in Runners,
         FindNothing(r) \/ SwapOut(r) \/ IdleCheck(r) \/ IdleOut(r)
  PROVE  TInv'
<1> USE DEF TInv, IInv
<1>1. UNCHANGED <<m_coroutines, coe, cb_coroutine, m_state, m_cb, issued, ended>>
  BY DEF FindNothing, SwapOut, IdleCheck, IdleOut, queueVars, cortVars, taskVars
<1>2. PICK where : /\ pc' = [pc EXCEPT ![r] = where]
                   /\ where \in OnCoroutine <=> pc[r] \in OnCoroutine
                   /\ where \in {"out", "back"} => pc[r] \in {"out", "back"}
  BY DEF FindNothing, IdleOrLeave, SwapOut, IdleCheck, IdleOut, Goto, At, OnCoroutine
<1>3. Handed' /\ NotLost'
  BY <1>1 DEF Handed, NotLost, Somewhere, CbListed, CbTaken, Body, Listed, Settled, Unended,
              Queued, Holds
<1>4. Bodies'
  <2>1. ASSUME NEW q \in Runners PROVE HandsOK(q)'
    <3>1. /\ pc'[q] \in OnCoroutine <=> pc[q] \in OnCoroutine
          /\ pc'[q] \in {"out", "back"} => pc[q] \in {"out", "back"}
      BY <1>2 DEF TypeOK
    <3> QED BY <3>1, <1>1 DEF Bodies, HandsOK, Reserve, Running
  <2> QED BY <2>1, <1>1 DEF Bodies, BodyOK
<1> QED BY <1>3, <1>4

(* Only a coroutine that has ended is dropped.                             *)
LEMMA DropTInv ==
  ASSUME IInv, OInv, TInv, NEW r \in Runners, DropEnded(r)
  PROVE  TInv'
<1> USE DEF TInv, IInv
<1>1. /\ UNCHANGED <<m_coroutines, cb_coroutine, m_state, m_cb, issued, ended>>
      /\ coe' = [coe EXCEPT ![r] = NoEntry] /\ pc[r] = "picked"
      /\ coe[r].cort # Null /\ m_state[coe[r].cort] \in Dead
  BY DEF DropEnded, cortVars, taskVars, At
<1>2. PICK where \in {"exited", "idle"} : pc' = [pc EXCEPT ![r] = where]
  BY DEF DropEnded, IdleOrLeave, Goto
<1>3. coe[r].cb = Null /\ coe[r].cort \in Cort
  BY <1>1 DEF RunShape, TypeOK, Entry
<1>4. /\ coe'[r] = NoEntry /\ pc'[r] = where
      /\ \A q \in Runners : q # r => coe'[q] = coe[q] /\ pc'[q] = pc[q]
  BY <1>1, <1>2 DEF TypeOK
<1>5. NoEntry.cort = Null /\ NoEntry.cb = Null
  BY DEF NoEntry
<1>6. ASSUME NEW t \in Task PROVE Somewhere(t)' <=> Somewhere(t)
  <2>1. t # Null
    BY SchedulerAssumption
  <2>2. CbTaken(t)' <=> CbTaken(t)
    BY <2>1, <1>3, <1>4, <1>5 DEF CbTaken
  <2>3. (CbListed(t)' <=> CbListed(t)) /\ (Body(t)' <=> Body(t))
    BY <1>1 DEF CbListed, Body, Listed
  <2> QED BY <2>2, <2>3 DEF Somewhere
<1>7. Handed'
  BY <1>1, <1>6 DEF Handed
<1>8. Bodies'
  <2>1. ASSUME NEW q \in Runners PROVE HandsOK(q)'
    <3>1. CASE q = r
      BY <3>1, <1>1, <1>2, <1>4 DEF Bodies, HandsOK, Reserve, OnCoroutine
    <3>2. CASE q # r
      BY <3>2, <1>1, <1>4 DEF Bodies, HandsOK, Reserve, Running
    <3> QED BY <3>1, <3>2
  <2> QED BY <2>1, <1>1 DEF Bodies, BodyOK
<1>9. NotLost'
  <2>1. ASSUME NEW c \in Cort, Settled(c)', c # coe[r].cort PROVE Settled(c)
    BY <2>1, <1>1, <1>4 DEF Settled, Holds, Queued
  <2>2. ~Unended(coe[r].cort)
    BY <1>1, <1>3 DEF Bodies, BodyOK, Unended
  <2>3. issued \subseteq Task
    BY DEF TypeOK
  <2> QED BY <2>1, <2>2, <2>3, <1>1, <1>6 DEF NotLost, Unended
<1> QED BY <1>7, <1>8, <1>9

(* A runner on an object that only it has: swapIn(), and what the task may *)
(* do to end its turn.                                                     *)
LEMMA RunningTInv ==
  ASSUME IInv, OInv, TInv, NEW r \in Runners,
         SwapIn(r) \/ Yield(r) \/ Sleep(r) \/ Return(r) \/ Throw(r)
  PROVE  TInv'
<1> USE DEF TInv, IInv
<1>1. /\ UNCHANGED <<m_coroutines, coe, cb_coroutine, issued>>
      /\ \/ SwapIn(r) /\ pc[r] = "picked" /\ pc' = [pc EXCEPT ![r] = "exec"] /\ coe[r].cort # Null
         \/ ~SwapIn(r) /\ pc[r] = "exec" /\ pc' = [pc EXCEPT ![r] = "out"]
  BY DEF SwapIn, Yield, Sleep, Suspend, Return, Throw, At, Goto, queueVars, taskVars
<1>2. PICK c \in Cort : c = Running(r) /\ c # Null /\ Holds(r, c)
  <2>1. Running(r) \in Cort
    BY <1>1, RunningType DEF OnCoroutine, Running, TypeOK, Entry
  <2> QED BY <2>1, SchedulerAssumption DEF Running, Holds
<1>3. ~Queued(c) /\ \A q \in Runners : q # r => ~Holds(q, c)
  BY <1>2 DEF OInv, RunnerUnique
<1>4. \A d \in Cort : d # c => m_state'[d] = m_state[d] /\ m_cb'[d] = m_cb[d]
  BY <1>2 DEF SwapIn, Yield, Sleep, Suspend, Return, Throw, Running, TypeOK
<1>5. /\ ended \subseteq ended'
      /\ m_cb'[c] # m_cb[c] => m_cb[c] \in ended' /\ m_cb'[c] = Null
  BY <1>2 DEF SwapIn, Yield, Sleep, Suspend, Return, Throw, taskVars, TypeOK
<1>6. /\ m_state'[c] = "EXEC" \/ m_state'[c] = "READY"
         \/ (m_state'[c] = "HOLD" /\ m_cb'[c] # Null)
         \/ (m_state'[c] \in Dead /\ m_cb'[c] \in ended' \cup {Null})
      /\ ~SwapIn(r) => m_state'[c] \in {"READY", "HOLD"} \cup Dead
  <2>1. CASE SwapIn(r)
    BY <2>1, <1>2 DEF SwapIn, Running, TypeOK
  <2>2. CASE Yield(r) \/ Sleep(r)
    BY <2>2, <1>2 DEF Yield, Sleep, Suspend, TypeOK
  <2>3. CASE Return(r)
    BY <2>3, <1>2 DEF Return, TypeOK, Dead
  <2>4. CASE Throw(r)
    BY <2>4, <1>2 DEF Throw, TypeOK, Dead
  <2>5. SwapIn(r) => ~(Yield(r) \/ Sleep(r) \/ Return(r) \/ Throw(r))
    BY DEF SwapIn, Yield, Sleep, Suspend, Return, Throw, At
  <2> QED BY <2>1, <2>2, <2>3, <2>4, <2>5
<1>7. Running(r)' = c /\ \A q \in Runners : q # r => pc'[q] = pc[q]
  BY <1>1, <1>2 DEF Running, TypeOK
<1>8. Handed'
  <2>1. ASSUME NEW t \in Task, Somewhere(t)' PROVE Somewhere(t)
    <3>1. t # Null
      BY SchedulerAssumption
    <3>2. Body(t)' => Body(t)
      BY <3>1, <1>4, <1>5 DEF Body
    <3> QED BY <3>2, <2>1, <1>1 DEF Somewhere, CbListed, CbTaken, Listed
  <2> QED BY <2>1, <1>1 DEF Handed
<1>9. Bodies'
  <2>1. BodyOK(c)'
    BY <1>6 DEF BodyOK, Dead
  <2>2. HandsOK(r)'
    <3>1. Reserve(r)' => Reserve(r) /\ cb_coroutine[r] # c
      <4> SUFFICES ASSUME Reserve(r)' PROVE Reserve(r) /\ cb_coroutine[r] # c
        OBVIOUS
      <4>1. pc'[r] \in OnCoroutine
        BY <1>1 DEF TypeOK, OnCoroutine
      <4>2. coe[r].cort # Null /\ cb_coroutine[r] # Null
        BY <4>1, <1>1 DEF Reserve
      <4> QED BY <4>2, <1>2 DEF Reserve, Running, OInv, Apart
    <3>2. Reserve(r) => cb_coroutine[r] \in Cort
      BY DEF Reserve, TypeOK
    <3>3. pc'[r] \in {"out", "back"} => ~SwapIn(r)
      BY <1>1 DEF TypeOK
    <3> QED BY <3>1, <3>2, <3>3, <1>1, <1>4, <1>6, <1>7 DEF Bodies, HandsOK
  <2> QED BY <2>1, <2>2, <1>1, <1>3, <1>4, <1>5, <1>7, LocalBodies
<1>10. NotLost'
  <2>1. ASSUME NEW t \in issued' \ ended' PROVE Somewhere(t)'
    <3>1. Somewhere(t) /\ t # Null
      BY <2>1, <1>1, <1>5, SchedulerAssumption DEF NotLost, TypeOK
    <3>2. Body(t) => Body(t)'
      BY <2>1, <1>4, <1>5 DEF Body
    <3> QED BY <3>1, <3>2, <1>1 DEF Somewhere, CbListed, CbTaken, Listed
  <2>2. ASSUME NEW d \in Cort, Settled(d)', Unended(d)' PROVE m_state'[d] = "HOLD"
    <3>1. Settled(d) /\ d # c
      BY <2>2, <1>1, <1>2 DEF Settled, Holds, Queued
    <3> QED BY <2>2, <3>1, <1>4, <1>5 DEF NotLost, Unended
  <2> QED BY <2>1, <2>2 DEF NotLost
<1> QED BY <1>8, <1>9, <1>10

(* A callback becomes the body of a fresh object or of the runner's own.   *)
LEMMA RunCbTInv ==
  ASSUME IInv, OInv, TInv, NEW r \in Runners, RunCb(r)
  PROVE  TInv'
<1> USE DEF TInv, IInv
<1>1. PICK c \in Cort :
        /\ IF cb_coroutine[r] = Null THEN m_state[c] = "NONE" ELSE c = cb_coroutine[r]
        /\ cb_coroutine' = [cb_coroutine EXCEPT ![r] = c]
        /\ m_state' = [m_state EXCEPT ![c] = "EXEC"]
        /\ m_cb' = [m_cb EXCEPT ![c] = coe[r].cb]
  BY DEF RunCb
<1>2. /\ coe' = [coe EXCEPT ![r] = NoEntry] /\ pc[r] = "picked" /\ coe[r].cb # Null
      /\ pc' = [pc EXCEPT ![r] = "exec"] /\ UNCHANGED <<m_coroutines, issued, ended>>
      /\ coe[r].cort = Null
  BY DEF RunCb, At, Goto, queueVars, RunShape, taskVars
<1>3. c # Null /\ NoEntry.cort = Null /\ NoEntry.cb = Null /\ coe[r].cb \in Task
  BY <1>2, SchedulerAssumption DEF NoEntry, TypeOK, Entry
<1>4. ~Queued(c) /\ (\A q \in Runners : q # r => ~Holds(q, c)) /\ m_cb[c] = Null
  <2>1. CASE cb_coroutine[r] = Null
    BY <2>1, <1>1 DEF OInv, Born, Bodies, BodyOK
  <2>2. CASE cb_coroutine[r] # Null
    BY <2>2, <1>1, <1>2 DEF OInv, RunnerUnique, Holds, Bodies, HandsOK, Reserve, OnCoroutine
  <2> QED BY <2>1, <2>2
<1>5. /\ coe'[r] = NoEntry /\ pc'[r] = "exec" /\ cb_coroutine'[r] = c
      /\ m_state'[c] = "EXEC" /\ m_cb'[c] = coe[r].cb
      /\ \A q \in Runners : q # r => /\ coe'[q] = coe[q] /\ pc'[q] = pc[q]
                                     /\ cb_coroutine'[q] = cb_coroutine[q]
      /\ \A d \in Cort : d # c => m_state'[d] = m_state[d] /\ m_cb'[d] = m_cb[d]
  BY <1>1, <1>2 DEF TypeOK
<1>6. Handed'
  <2>1. ASSUME NEW t \in Task, Somewhere(t)' PROVE Somewhere(t)
    <3>1. t # Null
      BY SchedulerAssumption
    <3>2. Body(t)' => Body(t) \/ CbTaken(t)
      BY <1>5 DEF Body, CbTaken
    <3>3. CbTaken(t)' => CbTaken(t)
      BY <3>1, <1>3, <1>5 DEF CbTaken
    <3> QED BY <3>2, <3>3, <2>1, <1>2 DEF Somewhere, CbListed, Listed
  <2> QED BY <2>1, <1>2 DEF Handed
<1>7. Bodies'
  <2>1. BodyOK(c)'
    BY <1>5 DEF BodyOK, Dead
  <2>2. HandsOK(r)'
    BY <1>3, <1>5 DEF HandsOK, Reserve, OnCoroutine
  <2> QED BY <2>1, <2>2, <1>2, <1>4, <1>5, LocalBodies
<1>8. NotLost'
  <2>1. ASSUME NEW t \in issued' \ ended' PROVE Somewhere(t)'
    <3>1. Somewhere(t) /\ t # Null
      BY <2>1, <1>2, SchedulerAssumption DEF NotLost, TypeOK
    <3>2. Body(t) => Body(t)'
      BY <3>1, <1>4, <1>5 DEF Body
    <3>3. CbTaken(t) => CbTaken(t)' \/ Body(t)'
      BY <1>5 DEF CbTaken, Body
    <3> QED BY <3>1, <3>2, <3>3, <1>2 DEF Somewhere, CbListed, Listed
  <2>2. ASSUME NEW d \in Cort, Settled(d)', Unended(d)' PROVE m_state'[d] = "HOLD"
    <3>1. d # c
      BY <2>2, <1>5 DEF Settled, Holds
    <3>2. Settled(d)
      <4>1. ~Queued(d) /\ \A q \in Runners : q # r => ~Holds(q, d)
        BY <2>2, <1>2, <1>5 DEF Settled, Holds, Queued
      <4>2. ~Holds(r, d)
        BY <3>1, <1>1, <1>2, SchedulerAssumption DEF Holds
      <4> QED BY <4>1, <4>2 DEF Settled
    <3> QED BY <2>2, <3>1, <3>2, <1>2, <1>5 DEF NotLost, Unended
  <2> QED BY <2>1, <2>2 DEF NotLost
<1> QED BY <1>6, <1>7, <1>8

(* After the swap: a coroutine that yielded returns to the list, one that  *)
(* has ended is let go of or reset, one that sleeps is left to its waker.  *)
LEMMA AfterSwapTInv ==
  ASSUME IInv, OInv, TInv, IInv', NEW r \in Runners, Requeue(r) \/ Retire(r) \/ Park(r)
  PROVE  TInv'
<1> USE DEF TInv
<1>1. /\ pc[r] = "back" /\ pc' = [pc EXCEPT ![r] = "scan"]
      /\ coe' = [coe EXCEPT ![r] = NoEntry] /\ UNCHANGED <<issued, ended>>
  BY DEF Requeue, Retire, Park, At, Goto, taskVars
<1>2. PICK c \in Cort : c = Running(r) /\ c # Null /\ Holds(r, c)
  BY <1>1, RunningType, SchedulerAssumption DEF IInv, OnCoroutine, Running, Holds
<1>3. ~Queued(c) /\ \A q \in Runners : q # r => ~Holds(q, c)
  BY <1>2 DEF OInv, RunnerUnique
<1>4. (IsCb(r) => c = cb_coroutine[r]) /\ (~IsCb(r) => c = coe[r].cort /\ c # cb_coroutine[r])
  BY <1>2 DEF IsCb, Running, OInv, Apart
<1>5. /\ \A q \in Runners : q # r => coe'[q] = coe[q] /\ cb_coroutine'[q] = cb_coroutine[q]
                                    /\ pc'[q] = pc[q]
      /\ coe'[r] = NoEntry /\ pc'[r] = "scan"
  BY <1>1 DEF Requeue, Retire, Park, IInv, TypeOK
<1>6. NoEntry.cort = Null /\ NoEntry.cb = Null /\ coe[r].cb = Null
  BY <1>1 DEF NoEntry, IInv, RunShape, OnCoroutine
<1>7. \A d \in Cort : d # c => m_state'[d] = m_state[d] /\ m_cb'[d] = m_cb[d]
  BY <1>2 DEF Requeue, Retire, Park, IInv, TypeOK, cortVars
<1>8. m_state[c] \in {"READY", "HOLD"} \cup Dead
  BY <1>1, <1>2 DEF Bodies, HandsOK
<1>9. /\ m_cb'[c] = m_cb[c] \/ (m_cb'[c] = Null /\ m_cb[c] \in ended \cup {Null})
      /\ m_state'[c] = m_state[c] \/ m_state'[c] = "INIT"
  <2>1. CASE Requeue(r)
    BY <2>1 DEF Requeue, cortVars
  <2>2. CASE Retire(r)
    BY <2>2, <1>2 DEF Retire, IInv, TypeOK, Bodies, BodyOK
  <2>3. CASE Park(r)
    BY <2>3, <1>2, <1>8 DEF Park, IInv, TypeOK
  <2> QED BY <2>1, <2>2, <2>3
<1>10. Listed \subseteq Listed' /\ (\A e \in Listed' : e \in Listed \/ e.cb = Null)
       /\ (\A d \in Cort : Queued(d) => Queued(d)') /\ (Requeue(r) => Queued(c)')
  <2>1. CASE Requeue(r)
    <3> DEFINE e == CortEntry(c, Null)
    <3>1. WellFormed(e) /\ Push(<<e>>) /\ e.cb = Null /\ e.cort = c
      BY <2>1, <1>2, EntryTypes DEF Requeue, CortEntry
    <3> HIDE DEF e
    <3>2. Listed' = Listed \cup {e}
      BY <3>1, PushOneListed
    <3>3. \A d \in Cort : /\ Queued(d) <=> \E x \in Listed : x.cort = d
                          /\ Queued(d)' <=> \E x \in Listed' : x.cort = d
      BY DEF Queued, Listed
    <3> QED BY <3>1, <3>2, <3>3
  <2>2. CASE Retire(r) \/ Park(r)
    <3>1. UNCHANGED m_coroutines /\ ~Requeue(r)
      BY <2>2 DEF Retire, Park, Requeue, queueVars, Dead
    <3> QED BY <3>1 DEF Listed, Queued
  <2> QED BY <2>1, <2>2
<1>11. Handed'
  <2>1. ASSUME NEW t \in Task, Somewhere(t)' PROVE Somewhere(t)
    <3>1. t # Null
      BY SchedulerAssumption
    <3>2. Body(t)' => Body(t)
      BY <3>1, <1>7, <1>9 DEF Body
    <3>3. CbTaken(t)' => CbTaken(t)
      BY <3>1, <1>5, <1>6 DEF CbTaken
    <3>4. CbListed(t)' => CbListed(t)
      BY <3>1, <1>10 DEF CbListed
    <3> QED BY <3>2, <3>3, <3>4, <2>1 DEF Somewhere
  <2> QED BY <2>1, <1>1 DEF Handed
<1>12. Bodies'
  <2>1. BodyOK(c)'
    <3>1. BodyOK(c)
      BY DEF Bodies
    <3>2. CASE m_state'[c] = "INIT"
      BY <3>2 DEF BodyOK, Dead
    <3>3. CASE m_state'[c] = m_state[c] /\ m_cb'[c] = m_cb[c]
      BY <3>1, <3>3, <1>1 DEF BodyOK
    <3>4. m_cb'[c] # m_cb[c] => m_state'[c] = "INIT"
      BY <1>2, <1>4 DEF Requeue, Retire, Park, IInv, TypeOK, cortVars
    <3> QED BY <3>2, <3>3, <3>4, <1>9
  <2>2. HandsOK(r)'
    <3> SUFFICES ASSUME cb_coroutine'[r] # Null PROVE m_cb'[cb_coroutine'[r]] = Null
      BY <1>5 DEF HandsOK, Reserve
    <3>1. cb_coroutine'[r] = cb_coroutine[r] /\ cb_coroutine[r] \in Cort
      BY DEF Requeue, Retire, Park, IInv, TypeOK
    <3>2. CASE IsCb(r)
      <4>1. Retire(r)
        BY <3>2 DEF Requeue, Park, IInv, TypeOK
      <4> QED BY <4>1, <3>1, <3>2, <1>2, <1>4 DEF Retire, IInv, TypeOK
    <3>3. CASE ~IsCb(r)
      <4>1. Reserve(r)
        BY <3>1, <3>3 DEF Reserve, IsCb
      <4> QED BY <4>1, <3>1, <3>3, <1>4, <1>7 DEF Bodies, HandsOK
    <3> QED BY <3>2, <3>3
  <2> QED BY <2>1, <2>2, <1>1, <1>3, <1>5, <1>7, LocalBodies
<1>13. NotLost'
  <2>1. ASSUME NEW t \in issued' \ ended' PROVE Somewhere(t)'
    <3>1. Somewhere(t) /\ t # Null
      BY <2>1, <1>1, SchedulerAssumption DEF NotLost, IInv, TypeOK
    <3>2. Body(t) => Body(t)'
      BY <2>1, <3>1, <1>1, <1>7, <1>9 DEF Body
    <3>3. CbTaken(t) => CbTaken(t)'
      BY <3>1, <1>5, <1>6 DEF CbTaken
    <3> QED BY <3>1, <3>2, <3>3, <1>10 DEF Somewhere, CbListed
  <2>2. ASSUME NEW d \in Cort, Settled(d)', Unended(d)' PROVE m_state'[d] = "HOLD"
    <3>1. CASE d # c
      <4>1. cb_coroutine'[r] = cb_coroutine[r] \/ cb_coroutine[r] = c
        BY <1>4 DEF Requeue, Retire, Park, IInv, TypeOK
      <4>2. coe[r].cort \in {c, Null}
        BY <1>4 DEF IsCb
      <4>3. ~Holds(r, d)
        BY <2>2, <3>1, <4>1, <4>2, SchedulerAssumption DEF Settled, Holds
      <4>4. \A q \in Runners : q # r => ~Holds(q, d)
        BY <2>2, <1>5 DEF Settled, Holds
      <4>5. Settled(d)
        BY <2>2, <4>3, <4>4, <1>10 DEF Settled
      <4> QED BY <2>2, <3>1, <4>5, <1>1, <1>7 DEF NotLost, Unended
    <3>2. CASE d = c
      <4>1. ~Requeue(r)
        BY <2>2, <3>2, <1>10 DEF Settled
      <4>2. m_cb[c] = m_cb'[c]
        BY <2>2, <3>2, <1>9 DEF Unended
      <4>3. CASE Retire(r)
        BY <2>2, <3>2, <4>2, <4>3, <1>1, <1>2 DEF Retire, Bodies, BodyOK, Unended
      <4>4. CASE Park(r)
        BY <3>2, <4>4, <1>2 DEF Park, IInv, TypeOK
      <4> QED BY <4>1, <4>3, <4>4
    <3> QED BY <3>1, <3>2
  <2> QED BY <2>1, <2>2 DEF NotLost
<1> QED BY <1>11, <1>12, <1>13

-----------------------------------------------------------------------------
(* TInv is preserved by schedule(), start() and stop()                     *)

(* The caller, an outside thread and the tasks call schedule().            *)
LEMMA SchedulesTInv ==
  ASSUME "earlyWake" \notin Usage, IInv, OInv, TInv, IInv',
         \/ CallerSchedules
         \/ OutsideSchedules
         \/ \E r \in Runners : TaskSchedules(r)
  PROVE  TInv'
<1>1. UNCHANGED <<runVars, ended>>
  BY DEF CallerSchedules, OutsideSchedules, TaskSchedules
<1>2. PICK threads \in SUBSET (Runners \cup {Null}) : Schedule(threads)
  <2>1. CASE CallerSchedules \/ OutsideSchedules
    BY <2>1 DEF CallerSchedules, OutsideSchedules, KnownThreads
  <2>2. CASE \E r \in Runners : TaskSchedules(r)
    <3>1. PICK r \in Runners : TaskSchedules(r)
      BY <2>2
    <3> DEFINE ths == {Null} \cup (IF "pin" \in Usage THEN {r} ELSE {})
                             \cup (IF "pinOther" \in Usage THEN KnownThreads ELSE {})
    <3>2. Schedule(ths)
      BY <3>1 DEF TaskSchedules
    <3>3. ths \in SUBSET (Runners \cup {Null})
      BY DEF KnownThreads
    <3> HIDE DEF ths
    <3> QED BY <3>2, <3>3
  <2> QED BY <2>1, <2>2
<1>3. PICK N : Adds(N, threads)
  BY <1>2, ScheduleAdds
<1> QED BY <1>1, <1>3, AddsTInv

(* A coroutine that has ended is scheduled again.                          *)
LEMMA StaleTInv ==
  ASSUME IInv, OInv, TInv, NEW c \in Cort, CallerSchedulesEnded(c)
  PROVE  TInv' /\ Listed' = Listed \cup {CortEntry(c, Null)}
<1> USE DEF TInv
<1> DEFINE e == CortEntry(c, Null)
<1>1. /\ Push(<<e>>) /\ m_state[c] \in Dead /\ Settled(c)
      /\ UNCHANGED <<pc, coe, cb_coroutine, m_state, m_cb, issued, ended>>
  BY DEF CallerSchedulesEnded, runVars, cortVars, taskVars
<1>2. WellFormed(e) /\ e.cort = c /\ e.cb = Null
  BY EntryTypes DEF CortEntry
<1> HIDE DEF e
<1>3. Listed' = Listed \cup {e}
  BY <1>1, <1>2, PushOneListed
<1>4. ASSUME NEW t \in Task PROVE Somewhere(t)' <=> Somewhere(t)
  <2>1. t # Null
    BY SchedulerAssumption
  <2> QED BY <2>1, <1>1, <1>2, <1>3 DEF Somewhere, CbListed, CbTaken, Body
<1>5. Handed'
  BY <1>1, <1>4 DEF Handed
<1>6. Bodies'
  BY <1>1 DEF Bodies, BodyOK, HandsOK, Reserve, Running
<1>7. NotLost'
  <2>1. ASSUME NEW d \in Cort, Settled(d)' PROVE Settled(d)
    <3>1. Queued(d) => Queued(d)'
      <4>1. (Queued(d) <=> \E x \in Listed : x.cort = d)
            /\ (Queued(d)' <=> \E x \in Listed' : x.cort = d)
        BY DEF Queued, Listed
      <4> QED BY <4>1, <1>3
    <3> QED BY <2>1, <3>1, <1>1 DEF Settled, Holds
  <2>2. issued \subseteq Task
    BY DEF IInv, TypeOK
  <2> QED BY <2>1, <2>2, <1>1, <1>4 DEF NotLost, Unended
<1> QED BY <1>3, <1>5, <1>6, <1>7 DEF e

(* start() and the root coroutine begin run() with empty locals: what a    *)
(* runner outside run() still had was a reset object.                      *)
LEMMA ControlTInv ==
  ASSUME IInv, TInv, Start \/ StopBegin \/ StopStep \/ Destroy
  PROVE  TInv'
<1> USE DEF TInv
<1>1. UNCHANGED <<m_coroutines, coe, m_state, m_cb, issued, ended>>
  BY DEF Start, StopBegin, StopStep, StopAlone, StopFlag, StopRoot, RootBack, StopJoin,
         Destroy, queueVars, runVars, cortVars, taskVars
<1>2. ASSUME NEW q \in Runners
      PROVE  \/ pc'[q] = pc[q] /\ cb_coroutine'[q] = cb_coroutine[q]
             \/ pc'[q] = "scan" /\ cb_coroutine'[q] = Null /\ Out(q)
  <2>1. CASE Start
    BY <2>1 DEF Start, IInv, Control, TypeOK
  <2>2. CASE StopRoot
    BY <2>2 DEF StopRoot, runVars, IInv, Control, TypeOK
  <2>3. CASE StopBegin \/ StopAlone \/ StopFlag \/ RootBack \/ StopJoin \/ Destroy
    BY <2>3 DEF StopBegin, StopAlone, StopFlag, RootBack, StopJoin, Destroy, runVars
  <2> QED BY <2>1, <2>2, <2>3 DEF StopStep
<1>3. \A t \in Task : Somewhere(t)' <=> Somewhere(t)
  BY <1>1 DEF Somewhere, CbListed, CbTaken, Body, Listed
<1>4. Handed'
  BY <1>1, <1>3 DEF Handed
<1>5. Bodies'
  <2>1. ASSUME NEW q \in Runners PROVE HandsOK(q)'
    BY <1>1, <1>2 DEF Bodies, HandsOK, Reserve, Running
  <2> QED BY <2>1, <1>1 DEF Bodies, BodyOK
<1>6. NotLost'
  <2>1. ASSUME NEW d \in Cort, Settled(d)', Unended(d)' PROVE Settled(d)
    <3>1. ~Queued(d)
      BY <2>1, <1>1 DEF Settled, Queued
    <3>2. ASSUME NEW q \in Runners, Holds(q, d) PROVE FALSE
      <4>1. cb_coroutine[q] = d /\ Out(q)
        BY <2>1, <3>2, <1>1, <1>2 DEF Settled, Holds
      <4>2. Reserve(q)
        BY <4>1, SchedulerAssumption DEF Reserve, Out, OnCoroutine
      <4>3. m_cb[d] = Null
        BY <4>1, <4>2 DEF Bodies, HandsOK
      <4> QED BY <4>3, <2>1, <1>1 DEF Unended
    <3> QED BY <3>1, <3>2 DEF Settled
  <2>2. issued \subseteq Task
    BY DEF IInv, TypeOK
  <2> QED BY <2>1, <2>2, <1>1, <1>3 DEF NotLost, Unended
<1> QED BY <1>4, <1>5, <1>6

(* Nothing has been handed over when the scheduler is constructed.         *)
LEMMA InitTInv == Init => TInv
<1> SUFFICES ASSUME Init PROVE TInv
  OBVIOUS
<1>1. Listed = {}
  BY DEF Init, Listed
<1>2. \A t \in Task : ~Somewhere(t)
  BY <1>1, SchedulerAssumption DEF Init, Somewhere, CbListed, CbTaken, Body, NoEntry
<1>3. Handed
  BY <1>2 DEF Handed
<1>4. Bodies
  BY DEF Init, Bodies, BodyOK, HandsOK, Reserve, Dead
<1>5. NotLost
  BY DEF Init, NotLost, Unended
<1> QED BY <1>3, <1>4, <1>5 DEF TInv

(* No step loses a task.                                                   *)
LEMMA NextTInv ==
  ASSUME "earlyWake" \notin Usage, IInv, OInv, TInv, IInv', [Next]_vars
  PROVE  TInv'
<1>1. CASE CallerStep
  BY <1>1, SchedulesTInv, StaleTInv, ControlTInv DEF CallerStep
<1>2. CASE \E r \in Runners : RunLoop(r)
  BY <1>2, TakeTInv, QuietTInv, DropTInv, RunningTInv, RunCbTInv, AfterSwapTInv DEF RunLoop
<1>3. CASE \E r \in Runners : TaskStep(r)
  BY <1>3, SchedulesTInv, RunningTInv DEF TaskStep
<1>4. CASE UNCHANGED vars
  BY <1>4 DEF vars, queueVars, flagVars, runVars, cortVars, taskVars, TInv, Handed, Bodies,
              NotLost, Somewhere, CbListed, CbTaken, Body, Listed, BodyOK, HandsOK, Reserve,
              Unended, Settled, Queued, Holds, Running
<1> QED BY <1>1, <1>2, <1>3, <1>4 DEF Next, Finished

(* TInv holds in every reachable state.                                    *)
LEMMA AlwaysTInv ==
  ASSUME "earlyWake" \notin Usage
  PROVE  Spec => []TInv
<1>1. IInv /\ OInv /\ TInv /\ IInv' /\ [Next]_vars => TInv'
  BY NextTInv
<1> QED BY <1>1, InitTInv, AlwaysIInv, AlwaysOInv, PTL DEF Spec

-----------------------------------------------------------------------------
(* Who is in run()                                                         *)

(* A runner leaves run() after its idle coroutine has ended, which takes a *)
(* moment at which stopping() was true.                                    *)
LEMMA RunnerMoves ==
  ASSUME IInv, NEW r \in Runners, RunLoop(r) \/ TaskStep(r)
  PROVE  /\ UNCHANGED flagVars /\ ~Out(r)
         /\ \A q \in Runners : q # r => /\ pc'[q] = pc[q]
                                        /\ idle_coroutine'[q] = idle_coroutine[q]
         /\ pc'[r] # "unborn"
         /\ pc'[r] = "exited" => idle_coroutine[r] = "TERM" /\ (FindNothing(r) \/ DropEnded(r))
         /\ idle_coroutine'[r] = "TERM" =>
              idle_coroutine[r] = "TERM" \/ (IdleCheck(r) /\ Stopping)
<1> USE DEF IInv
<1>1. CASE TaskStep(r)
  BY <1>1 DEF TaskStep, TaskSchedules, Yield, Sleep, Suspend, Return, Throw, At, Goto, Out,
              runVars, TypeOK
<1>2. CASE FindNothing(r) \/ DropEnded(r)
  BY <1>2 DEF FindNothing, DropEnded, IdleOrLeave, At, Goto, Out, TypeOK
<1>3. CASE IdleCheck(r)
  BY <1>3 DEF IdleCheck, At, Goto, Out, TypeOK
<1>4. CASE Take(r) \/ SwapIn(r) \/ RunCb(r) \/ SwapOut(r) \/ Requeue(r) \/ Retire(r) \/ Park(r)
           \/ IdleOut(r)
  BY <1>4 DEF Take, SwapIn, RunCb, SwapOut, Requeue, Retire, Park, IdleOut, At, Goto, Out, TypeOK
<1> QED BY <1>1, <1>2, <1>3, <1>4 DEF RunLoop

(* Every step keeps Started.                                               *)
LEMMA NextStarted ==
  ASSUME IInv, Started, [Next]_vars
  PROVE  Started'
<1>0. Workers \subseteq Runners /\ poolThreads \subseteq Workers /\ Caller \notin Workers
  BY SchedulerAssumption DEF IInv, TypeOK, Runners
<1>1. ASSUME NEW r \in Runners, RunLoop(r) \/ TaskStep(r) PROVE Started'
  <2>1. /\ UNCHANGED <<poolThreads, m_stopping, ctl>> /\ ~Out(r)
        /\ \A q \in Runners : q # r => /\ pc'[q] = pc[q]
                                       /\ idle_coroutine'[q] = idle_coroutine[q]
        /\ pc'[r] # "unborn"
        /\ pc'[r] = "exited" => idle_coroutine[r] = "TERM"
        /\ idle_coroutine'[r] = "TERM" => idle_coroutine[r] = "TERM" \/ m_stopping
    BY <1>1, RunnerMoves DEF flagVars, Stopping
  <2>2. \A w \in Workers : pc[w] = "unborn" => w # r
    BY <2>1 DEF Out
  <2> QED BY <1>0, <2>1, <2>2 DEF Started, Out
<1>2. CASE Start
  <2>1. /\ \A w \in Workers : Out(w)
        /\ m_stopping' = FALSE /\ poolThreads' = poolThreads
        /\ \A r \in Runners :
             /\ pc'[r] = IF r \in poolThreads THEN "scan" ELSE pc[r]
             /\ idle_coroutine'[r] = IF r \in poolThreads THEN "INIT" ELSE idle_coroutine[r]
    BY <1>2 DEF Start, IInv, Control
  <2> QED BY <1>0, <2>1 DEF Started, Out
<1>3. CASE StopRoot
  <2>1. /\ UNCHANGED <<poolThreads, m_stopping>> /\ ctl' # "user"
        /\ \A w \in Workers : pc'[w] = pc[w] /\ idle_coroutine'[w] = idle_coroutine[w]
    BY <1>0, <1>3 DEF StopRoot, Goto, runVars, IInv, TypeOK
  <2> QED BY <1>0, <2>1 DEF Started, Out
<1>4. CASE StopBegin \/ StopAlone \/ StopFlag \/ RootBack \/ StopJoin \/ Destroy
  <2>1. /\ UNCHANGED <<poolThreads, pc, idle_coroutine>> /\ ctl' # "user"
        /\ m_stopping' = FALSE => m_stopping = FALSE
        /\ m_stopping' \in BOOLEAN /\ m_stopping \in BOOLEAN
    BY <1>4 DEF StopBegin, StopAlone, StopFlag, RootBack, StopJoin, Destroy, runVars,
                IInv, TypeOK
  <2> QED BY <2>1 DEF Started, Out
<1>5. CASE CallerSchedules \/ OutsideSchedules \/ (\E c \in Cort : CallerSchedulesEnded(c))
           \/ UNCHANGED vars
  <2>1. UNCHANGED <<poolThreads, pc, idle_coroutine, ctl, m_stopping>>
    BY <1>5 DEF CallerSchedules, OutsideSchedules, CallerSchedulesEnded, flagVars, runVars, vars
  <2> QED BY <2>1 DEF Started, Out
<1> QED BY <1>1, <1>2, <1>3, <1>4, <1>5 DEF Next, CallerStep, StopStep, Finished

-----------------------------------------------------------------------------
(* What a runner does to the list                                          *)

(* Stable(c): if c is queued or taken after the step, it has not ended or  *)
(* was queued or taken before, in the same state.                          *)
Waiting(c) == Queued(c) \/ Taken(c)
Stable(c) ==
  Waiting(c)' => m_state'[c] \notin Dead \/ (Waiting(c) /\ m_state'[c] = m_state[c])

(* An object only runner r has, and which is not in the list, may change.  *)
LEMMA LocalStable ==
  ASSUME IInv, OInv, NEW r \in Runners, NEW c \in Cort,
         \A q \in Runners : q # r => ~Holds(q, c) /\ pc'[q] = pc[q] /\ coe'[q] = coe[q],
         pc'[r] # "picked", ~Queued(c), UNCHANGED m_coroutines,
         \A d \in Cort : d # c => m_state'[d] = m_state[d] /\ m_cb'[d] = m_cb[d]
  PROVE  \A d \in Cort : Stable(d) /\ (Queued(d) => m_cb'[d] = m_cb[d])
<1> SUFFICES ASSUME NEW d \in Cort PROVE Stable(d) /\ (Queued(d) => m_cb'[d] = m_cb[d])
  OBVIOUS
<1>1. Queued(d)' <=> Queued(d)
  BY DEF Queued
<1>2. Taken(d)' => Taken(d) /\ d # c
  BY DEF Taken, Holds
<1> QED BY <1>1, <1>2 DEF Stable, Waiting

(* A runner adds nothing to the list but a coroutine that has yielded, for *)
(* any thread, and leaves the objects in the list alone.                   *)
LEMMA RunnerQueue ==
  ASSUME IInv, OInv, TInv, NEW r \in Runners,
         RunLoop(r) \/ Yield(r) \/ Sleep(r) \/ Return(r) \/ Throw(r)
  PROVE  /\ late' = late
         /\ \A e \in Listed' : e \in Listed \/ (e.thread = Null /\ pc'[r] = "scan")
         /\ \A c \in Cort : Stable(c) /\ (Queued(c) => m_cb'[c] = m_cb[c])
<1> USE DEF IInv
<1>0. \A q \in Runners : q # r => pc'[q] = pc[q]
  BY RunnerMoves DEF TaskStep
<1>1. CASE Take(r)
  <2>1. PICK i \in DOMAIN m_coroutines :
          /\ coe' = [coe EXCEPT ![r] = m_coroutines[i]]
          /\ m_coroutines' = RemoveAt(m_coroutines, i)
    BY <1>1 DEF Take
  <2>2. UNCHANGED <<m_state, m_cb, late>>
    BY <1>1 DEF Take, cortVars, taskVars
  <2>3. Listed' \subseteq Listed
    BY <2>1, EraseListed
  <2>4. ASSUME NEW c \in Cort PROVE Waiting(c)' => Waiting(c)
    <3>1. Queued(c)' => Queued(c)
      BY <2>3 DEF Queued, Listed
    <3>2. Taken(c)' => Taken(c) \/ Queued(c)
      BY <2>1, <1>0 DEF Taken, Queued, TypeOK
    <3> QED BY <3>1, <3>2 DEF Waiting
  <2> QED BY <2>2, <2>3, <2>4 DEF Stable
<1>2. CASE FindNothing(r) \/ DropEnded(r) \/ SwapOut(r) \/ IdleCheck(r) \/ IdleOut(r)
  <2>1. UNCHANGED <<m_coroutines, m_state, m_cb, late>>
    BY <1>2 DEF FindNothing, DropEnded, SwapOut, IdleCheck, IdleOut, queueVars, cortVars,
                taskVars
  <2>2. pc'[r] # "picked" /\ \A q \in Runners : q # r => coe'[q] = coe[q]
    BY <1>2 DEF FindNothing, DropEnded, IdleOrLeave, SwapOut, IdleCheck, IdleOut, Goto, TypeOK
  <2>3. \A c \in Cort : Waiting(c)' => Waiting(c)
    BY <2>1, <2>2, <1>0 DEF Waiting, Taken, Queued
  <2> QED BY <2>1, <2>3 DEF Listed, Stable
<1>3. CASE SwapIn(r) \/ Yield(r) \/ Sleep(r) \/ Return(r) \/ Throw(r)
  <2>1. /\ UNCHANGED <<m_coroutines, coe, late>> /\ pc'[r] \in {"exec", "out"}
        /\ pc[r] = "exec" \/ (SwapIn(r) /\ coe[r].cort # Null)
    BY <1>3 DEF SwapIn, Yield, Sleep, Suspend, Return, Throw, At, Goto, queueVars, taskVars,
                TypeOK
  <2>2. Running(r) \in Cort /\ Holds(r, Running(r))
    <3>1. Running(r) \in Cort
      BY <2>1, RunningType DEF OnCoroutine, Running, TypeOK, Entry
    <3> QED BY <3>1 DEF Running, Holds
  <2>3. ~Queued(Running(r)) /\ \A q \in Runners : q # r => ~Holds(q, Running(r))
    BY <2>2 DEF OInv, RunnerUnique
  <2>4. \A d \in Cort : d # Running(r) => m_state'[d] = m_state[d] /\ m_cb'[d] = m_cb[d]
    BY <1>3, <2>2 DEF SwapIn, Yield, Sleep, Suspend, Return, Throw, Running, TypeOK
  <2>5. \A c \in Cort : Stable(c) /\ (Queued(c) => m_cb'[c] = m_cb[c])
    BY <1>0, <2>1, <2>2, <2>3, <2>4, LocalStable
  <2> QED BY <2>1, <2>5 DEF Listed
<1>4. CASE RunCb(r)
  <2>1. PICK c \in Cort :
          /\ IF cb_coroutine[r] = Null THEN m_state[c] = "NONE" ELSE c = cb_coroutine[r]
          /\ m_state' = [m_state EXCEPT ![c] = "EXEC"]
          /\ m_cb' = [m_cb EXCEPT ![c] = coe[r].cb]
    BY <1>4 DEF RunCb
  <2>2. UNCHANGED <<m_coroutines, late>> /\ pc'[r] = "exec"
        /\ \A q \in Runners : q # r => coe'[q] = coe[q]
    BY <1>4 DEF RunCb, Goto, queueVars, taskVars, TypeOK
  <2>3. ~Queued(c) /\ \A q \in Runners : q # r => ~Holds(q, c)
    <3>1. CASE cb_coroutine[r] = Null
      BY <3>1, <2>1 DEF OInv, Born
    <3>2. CASE cb_coroutine[r] # Null
      BY <3>2, <2>1 DEF OInv, RunnerUnique, Holds
    <3> QED BY <3>1, <3>2
  <2>4. \A d \in Cort : d # c => m_state'[d] = m_state[d] /\ m_cb'[d] = m_cb[d]
    BY <2>1 DEF TypeOK
  <2>5. \A d \in Cort : Stable(d) /\ (Queued(d) => m_cb'[d] = m_cb[d])
    BY <1>0, <2>2, <2>3, <2>4, LocalStable
  <2> QED BY <2>2, <2>5 DEF Listed
<1>5. CASE Retire(r) \/ Park(r)
  <2>1. UNCHANGED <<m_coroutines, late>> /\ pc'[r] = "scan" /\ pc[r] = "back"
        /\ \A q \in Runners : q # r => coe'[q] = coe[q]
    BY <1>5 DEF Retire, Park, At, Goto, queueVars, taskVars, TypeOK
  <2>2. Running(r) \in Cort /\ Holds(r, Running(r))
    BY <2>1, RunningType DEF OnCoroutine, Running, Holds
  <2>3. ~Queued(Running(r)) /\ \A q \in Runners : q # r => ~Holds(q, Running(r))
    BY <2>2 DEF OInv, RunnerUnique
  <2>4. \A d \in Cort : d # Running(r) => m_state'[d] = m_state[d] /\ m_cb'[d] = m_cb[d]
    BY <1>5, <2>2 DEF Retire, Park, TypeOK
  <2>5. \A c \in Cort : Stable(c) /\ (Queued(c) => m_cb'[c] = m_cb[c])
    BY <1>0, <2>1, <2>2, <2>3, <2>4, LocalStable
  <2> QED BY <2>1, <2>5 DEF Listed
<1>6. CASE Requeue(r)
  <2> DEFINE e == CortEntry(Running(r), Null)
  <2>1. /\ UNCHANGED <<m_state, m_cb, late>> /\ pc'[r] = "scan" /\ pc[r] = "back"
        /\ m_state[Running(r)] = "READY" /\ Push(<<e>>)
        /\ \A q \in Runners : q # r => coe'[q] = coe[q]
    BY <1>6 DEF Requeue, At, Goto, cortVars, taskVars, TypeOK
  <2>2. Running(r) \in Cort
    BY <2>1, RunningType DEF OnCoroutine
  <2>3. WellFormed(e) /\ e.thread = Null /\ e.cort = Running(r)
    BY <2>2, EntryTypes DEF CortEntry
  <2> HIDE DEF e
  <2>4. Listed' = Listed \cup {e}
    BY <2>1, <2>3, PushOneListed
  <2>5. ASSUME NEW c \in Cort PROVE Stable(c)
    <3>1. Queued(c)' => Queued(c) \/ c = Running(r)
      <4>1. (Queued(c) <=> \E x \in Listed : x.cort = c)
            /\ (Queued(c)' <=> \E x \in Listed' : x.cort = c)
        BY DEF Queued, Listed
      <4> QED BY <4>1, <2>3, <2>4
    <3>2. Taken(c)' => Taken(c)
      BY <2>1, <1>0 DEF Taken
    <3> QED BY <3>1, <3>2, <2>1 DEF Stable, Waiting, Dead
  <2> QED BY <2>1, <2>3, <2>4, <2>5
<1> QED BY <1>1, <1>2, <1>3, <1>4, <1>5, <1>6 DEF RunLoop

-----------------------------------------------------------------------------
(* DInv is preserved                                                       *)

(* A runner inside run() serves the list.                                  *)
LEMMA InsideServes ==
  ASSUME IInv, NEW r \in Runners, ~Out(r)
  PROVE  Serves(r)
<1>1. r = Caller => UseCaller
  BY SchedulerAssumption DEF Runners
<1>2. r = Caller => ctl = "root"
  BY <1>1 DEF IInv, Control
<1> QED BY <1>2 DEF Serves, Out

(* Nobody is leaving while the program may still call stop().              *)
LEMMA NobodyLeaves ==
  ASSUME IInv, Started, ctl = "user", NEW r \in Runners
  PROVE  ~Leaves(r)
<1> SUFFICES ASSUME Leaves(r) PROVE FALSE
  OBVIOUS
<1>1. ~Out(r) /\ idle_coroutine[r] = "TERM"
  BY DEF Leaves
<1>2. r \in Workers
  BY <1>1 DEF IInv, Control, Runners
<1>3. r \in poolThreads
  BY <1>1, <1>2 DEF IInv, Control
<1>4. m_stopping
  BY <1>1, <1>3 DEF Started
<1> QED BY <1>1, <1>2, <1>4 DEF Started, Out

(* While the program may still call stop(), every thread it knows, and     *)
(* somebody for work that names none, will look at the list.               *)
LEMMA UserAwaits ==
  ASSUME IInv, Started, ctl = "user",
         NEW e, e.thread \in KnownThreads \cup {Null}
  PROVE  e.thread \in {Null, Caller} \cup poolThreads /\ Awaited(e)
<1>0. poolThreads \subseteq Workers /\ Workers \subseteq Runners
      /\ (\A r \in Runners : r \in Workers \/ (r = Caller /\ UseCaller))
      /\ (UseCaller => Caller \in Runners)
  BY DEF IInv, TypeOK, Runners
<1>1. Caller \in Runners => Serves(Caller)
  BY DEF Serves
<1>2. \A w \in Workers : pc[w] # "unborn" => w \in poolThreads /\ ~m_stopping
  BY DEF Started
<1>3. \A w \in poolThreads : ~m_stopping => Serves(w)
  BY <1>0, InsideServes DEF Started
<1>4. e.thread \in {Null, Caller} \cup poolThreads
  BY <1>0, <1>2 DEF KnownThreads
<1>5. Awaited(e)
  <2>1. CASE m_stopping
    <3>1. e.thread \in {Null, Caller}
      BY <2>1, <1>0, <1>2 DEF KnownThreads
    <3> QED BY <2>1, <3>1 DEF Awaited, Unstarted
  <2>2. CASE ~m_stopping /\ e.thread = Null
    <3>1. \E r \in Runners : Serves(r)
      BY <2>2, <1>0, <1>1, <1>3 DEF Started
    <3> QED BY <2>2, <3>1 DEF Awaited
  <2>3. CASE ~m_stopping /\ e.thread # Null
    <3>1. e.thread \in Runners
      BY <2>3 DEF KnownThreads
    <3>2. Serves(e.thread)
      BY <2>3, <3>1, <1>1, <1>3, <1>4
    <3> QED BY <3>1, <3>2 DEF Awaited
  <2> QED BY <2>1, <2>2, <2>3
<1> QED BY <1>4, <1>5

(* A runner that leaves run() leaves nothing in the list that it could     *)
(* have taken.                                                             *)
LEMMA LeavesNothing ==
  ASSUME IInv, OInv, Clean, NEW r \in Runners, RunLoop(r) \/ TaskStep(r), pc'[r] = "exited",
         NEW e \in Listed
  PROVE  e.thread \notin {Null, r}
<1>1. /\ ~Out(r) /\ idle_coroutine[r] = "TERM"
      /\ FindNothing(r) \/ DropEnded(r)
  BY RunnerMoves
<1>2. CASE DropEnded(r)
  <2>1. coe[r].cort \in Cort /\ m_state[coe[r].cort] \in Dead /\ Taken(coe[r].cort)
    BY <1>2 DEF DropEnded, At, Taken, IInv, TypeOK, Entry
  <2> QED BY <1>1, <2>1 DEF Clean, Leaves
<1>3. CASE FindNothing(r)
  <2>1. ~Eligible(r, e)
    BY <1>3 DEF FindNothing, Listed
  <2>2. e.cort # Null => Queued(e.cort) /\ e.cort \in Cort
    BY ListedFacts DEF WellFormed, Entry
  <2>3. e.cort # Null => m_state[e.cort] # "EXEC"
    BY <2>2 DEF OInv, Resumable
  <2> QED BY <2>1, <2>3 DEF Eligible
<1> QED BY <1>1, <1>2, <1>3

(* A step of run(), or the end of a task's turn.                           *)
LEMMA RunnerDInv ==
  ASSUME IInv, OInv, TInv, DInv, IInv', NEW r \in Runners,
         RunLoop(r) \/ Yield(r) \/ Sleep(r) \/ Return(r) \/ Throw(r)
  PROVE  Clean' /\ Draining'
<1> USE DEF DInv
<1>1. /\ UNCHANGED flagVars /\ ~Out(r)
      /\ \A q \in Runners : q # r => /\ pc'[q] = pc[q]
                                     /\ idle_coroutine'[q] = idle_coroutine[q]
      /\ pc'[r] # "unborn"
      /\ idle_coroutine'[r] = "TERM" => idle_coroutine[r] = "TERM" \/ (IdleCheck(r) /\ Stopping)
  BY RunnerMoves DEF TaskStep
<1>2. /\ late' = late
      /\ \A e \in Listed' : e \in Listed \/ (e.thread = Null /\ pc'[r] = "scan")
      /\ \A c \in Cort : Stable(c) /\ (Queued(c) => m_cb'[c] = m_cb[c])
  BY RunnerQueue
<1>3. Clean'
  <2> SUFFICES ASSUME NEW p \in Runners, NEW c \in Cort, Leaves(p)', Waiting(c)'
               PROVE  m_state'[c] \notin Dead
    BY DEF Clean, Waiting
  <2>1. CASE IdleCheck(r) /\ Stopping
    <3>1. UNCHANGED <<m_coroutines, coe>> /\ m_coroutines = <<>> /\ m_activeThreadCount = 0
      BY <2>1 DEF IdleCheck, queueVars, Stopping
    <3>2. {q \in Runners : pc[q] \in Working} = {}
      <4>1. IsFiniteSet({q \in Runners : pc[q] \in Working})
        BY RunnersFinite, FS_Subset
      <4> QED BY <3>1, <4>1, FS_EmptySet DEF IInv, CountersExact, Working
    <3>3. pc'[r] = "idleout"
      BY <2>1 DEF IdleCheck, Goto, IInv, TypeOK
    <3>4. \A q \in Runners : pc'[q] # "picked"
      BY <1>1, <3>2, <3>3 DEF Working
    <3>5. ~Waiting(c)'
      BY <3>1, <3>4 DEF Waiting, Queued, Taken
    <3> QED BY <3>5
  <2>2. CASE ~(IdleCheck(r) /\ Stopping)
    <3>1. Leaves(p)
      BY <2>2, <1>1 DEF Leaves, Out
    <3> QED BY <3>1, <1>2 DEF Clean, Stable, Waiting
  <2> QED BY <2>1, <2>2
<1>4. Draining'
  <2> SUFFICES ASSUME NEW e \in Listed'
               PROVE  /\ e.thread \in {Null, Caller} \cup poolThreads
                      /\ EntryTask(e)' \in late' \/ Awaited(e)'
    BY <1>1 DEF Draining, flagVars
  <2>1. CASE e \notin Listed
    <3>1. e.thread = Null /\ pc'[r] = "scan" /\ Serves(r)
      BY <2>1, <1>1, <1>2, InsideServes
    <3>2. Serves(r)'
      BY <3>1, <1>1 DEF Serves, Out, flagVars
    <3> QED BY <3>1, <3>2 DEF Awaited
  <2>2. CASE e \in Listed
    <3>1. EntryTask(e)' = EntryTask(e)
      <4>1. e.cort # Null => Queued(e.cort) /\ e.cort \in Cort
        BY <2>2, ListedFacts DEF WellFormed, Entry
      <4> QED BY <4>1, <1>2 DEF EntryTask
    <3>2. e.thread \in {Null, Caller} \cup poolThreads
      BY <2>2 DEF Draining
    <3>3. CASE EntryTask(e) \in late
      BY <3>1, <3>2, <3>3, <1>2
    <3>4. CASE Unstarted /\ e.thread \in {Null, Caller}
      BY <3>2, <3>4, <1>1 DEF Awaited, Unstarted, flagVars
    <3>5. ASSUME NEW q \in Runners, e.thread \in {Null, q}, Serves(q) PROVE Awaited(e)'
      <4>1. CASE q # r
        <5>1. Serves(q)'
          BY <3>5, <4>1, <1>1 DEF Serves, Out, flagVars
        <5> QED BY <3>5, <5>1 DEF Awaited
      <4>2. CASE q = r
        <5>1. pc'[r] # "exited"
          BY <2>2, <3>5, <4>2, LeavesNothing DEF TaskStep
        <5>2. Serves(r)'
          BY <3>5, <4>2, <5>1, <1>1 DEF Serves, Out, flagVars
        <5> QED BY <3>5, <4>2, <5>2 DEF Awaited
      <4> QED BY <4>1, <4>2
    <3> QED BY <2>2, <3>2, <3>3, <3>4, <3>5 DEF Draining, Awaited
  <2> QED BY <2>1, <2>2
<1> QED BY <1>3, <1>4

(* A call of schedule(): the entries before it keep their runners.         *)
LEMMA AddsDInv ==
  ASSUME IInv, OInv, TInv, DInv, NEW N, NEW threads, Adds(N, threads),
         UNCHANGED <<flagVars, runVars>>, late \subseteq late',
         \A e \in N : /\ e.thread \in {Null, Caller} \cup poolThreads
                      /\ EntryTask(e)' \in late' \/ Awaited(e)
  PROVE  Clean' /\ Draining'
<1> USE DEF DInv
<1>1. /\ UNCHANGED <<pc, coe, idle_coroutine, poolThreads, ctl, m_stopping>>
      /\ Listed' = Listed \cup N
  BY DEF flagVars, runVars, Adds
<1>2. \A e : Awaited(e)' <=> Awaited(e)
  BY <1>1 DEF Awaited, Unstarted, Serves, Out
<1>3. \A c \in Cort : Waiting(c) => m_state'[c] = m_state[c] /\ m_cb'[c] = m_cb[c]
  <2>1. \A c \in Cort : Waiting(c) => m_state[c] # "NONE"
    BY DEF Waiting, Taken, OInv, Born, Holds
  <2> QED BY <2>1 DEF Adds
<1>4. Clean'
  <2> SUFFICES ASSUME NEW p \in Runners, NEW c \in Cort, Leaves(p)', Waiting(c)'
               PROVE  m_state'[c] \notin Dead
    BY DEF Clean, Waiting
  <2>1. Leaves(p)
    BY <1>1 DEF Leaves, Out
  <2>2. CASE Waiting(c)
    BY <2>1, <2>2, <1>3 DEF Clean, Waiting
  <2>3. CASE ~Waiting(c)
    <3>1. Queued(c)' /\ ~Queued(c)
      BY <2>3, <1>1 DEF Waiting, Taken
    <3>2. PICK e \in N : e.cort = c
      <4>1. (Queued(c) <=> \E x \in Listed : x.cort = c)
            /\ (Queued(c)' <=> \E x \in Listed' : x.cort = c)
        BY DEF Queued, Listed
      <4> QED BY <4>1, <3>1, <1>1
    <3> QED BY <3>2, SchedulerAssumption DEF Adds
  <2> QED BY <2>2, <2>3
<1>5. Draining'
  <2>1. ASSUME NEW e \in Listed PROVE EntryTask(e)' = EntryTask(e)
    <3>1. e.cort # Null => Queued(e.cort) /\ e.cort \in Cort
      BY ListedFacts DEF WellFormed, Entry
    <3> QED BY <3>1, <1>3 DEF EntryTask, Waiting
  <2> QED BY <2>1, <1>1, <1>2 DEF Draining
<1> QED BY <1>4, <1>5

(* The caller schedules before stop(), a task while its runner serves the  *)
(* list; what comes from outside after that is late.                       *)
LEMMA SchedulesDInv ==
  ASSUME "earlyWake" \notin Usage, "pinOther" \notin Usage, IInv, OInv, TInv, DInv, IInv',
         \/ CallerSchedules
         \/ OutsideSchedules
         \/ \E r \in Runners : TaskSchedules(r)
  PROVE  Clean' /\ Draining'
<1> USE DEF DInv
<1>0. KnownThreads \subseteq Runners
  BY DEF KnownThreads
<1>1. CASE CallerSchedules
  <2> DEFINE ths == {Null} \cup IF "pin" \in Usage THEN KnownThreads ELSE {}
  <2>1. Schedule(ths) /\ ctl = "user" /\ UNCHANGED <<flagVars, runVars, late>>
    BY <1>1 DEF CallerSchedules
  <2>2. ths \in SUBSET (Runners \cup {Null}) /\ ths \subseteq KnownThreads \cup {Null}
    BY <1>0
  <2> HIDE DEF ths
  <2>3. PICK N : Adds(N, ths)
    BY <2>1, <2>2, ScheduleAdds
  <2>4. \A e \in N : e.thread \in KnownThreads \cup {Null}
    BY <2>2, <2>3 DEF Adds
  <2>5. \A e \in N : e.thread \in {Null, Caller} \cup poolThreads /\ Awaited(e)
    BY <2>1, <2>4, UserAwaits
  <2> QED BY <2>1, <2>3, <2>5, AddsDInv
<1>2. CASE OutsideSchedules
  <2> DEFINE ths == {Null} \cup IF "pin" \in Usage THEN KnownThreads ELSE {}
  <2>1. /\ Schedule(ths) /\ ctl # "user" /\ UNCHANGED <<flagVars, runVars>>
        /\ late' = late \cup {t \in Task : InList(t)' /\ ~InList(t)}
    BY <1>2 DEF OutsideSchedules
  <2>2. ths \in SUBSET (Runners \cup {Null}) /\ ths \subseteq KnownThreads \cup {Null}
    BY <1>0
  <2> HIDE DEF ths
  <2>3. PICK N : Adds(N, ths)
    BY <2>1, <2>2, ScheduleAdds
  <2>4. ASSUME NEW e \in N
        PROVE  /\ e.thread \in {Null, Caller} \cup poolThreads
               /\ EntryTask(e)' \in late' \/ Awaited(e)
    <3>1. e.thread \in KnownThreads \cup {Null} /\ e \in Listed'
      BY <2>2, <2>3 DEF Adds
    <3>2. e.thread \in {Null, Caller} \cup poolThreads
      BY <3>1 DEF KnownThreads, Started, Runners
    <3>3. PICK t \in Task : t = EntryTask(e)' /\ (t \notin issued \/ e.thread = Null)
      BY <2>3 DEF Adds, IInv, TypeOK
    <3>4. InList(t)'
      BY <3>1, <3>3 DEF InList, Listed
    <3>5. CASE ~InList(t)
      BY <2>1, <3>2, <3>3, <3>4, <3>5
    <3>6. CASE InList(t)
      <4>1. PICK x \in Listed : EntryTask(x) = t
        BY <3>3, <3>6 DEF InList, Listed
      <4>2. WellFormed(x)
        BY ListedFacts
      <4>3. t \in issued
        BY <3>3, <4>1, <4>2 DEF EntryTask, TInv, Handed, Somewhere, CbListed, Body,
                                WellFormed, Entry
      <4>4. e.thread = Null
        BY <3>3, <4>3
      <4>5. t \in late \/ Awaited(x)
        BY <4>1 DEF Draining
      <4>6. Awaited(x) => Awaited(e)
        BY <2>1, <4>4 DEF Awaited, Unstarted
      <4> QED BY <2>1, <3>2, <3>3, <4>5, <4>6
    <3> QED BY <3>5, <3>6
  <2> QED BY <2>1, <2>3, <2>4, AddsDInv
<1>3. CASE \E r \in Runners : TaskSchedules(r)
  <2>0. PICK r \in Runners : TaskSchedules(r)
    BY <1>3
  <2> DEFINE ths == {Null} \cup (IF "pin" \in Usage THEN {r} ELSE {})
                           \cup (IF "pinOther" \in Usage THEN KnownThreads ELSE {})
  <2>1. Schedule(ths) /\ ~Out(r) /\ UNCHANGED <<flagVars, runVars, late>>
    BY <2>0 DEF TaskSchedules, At, Out
  <2>2. ths \in SUBSET (Runners \cup {Null}) /\ ths \subseteq {Null, r}
    OBVIOUS
  <2> HIDE DEF ths
  <2>3. PICK N : Adds(N, ths)
    BY <2>1, <2>2, ScheduleAdds
  <2>4. r \in {Caller} \cup poolThreads /\ Serves(r)
    BY <2>1, InsideServes DEF IInv, Control, Runners
  <2>5. \A e \in N : e.thread \in {Null, r}
    BY <2>2, <2>3 DEF Adds
  <2>6. \A e \in N : e.thread \in {Null, Caller} \cup poolThreads /\ Awaited(e)
    BY <2>4, <2>5 DEF Awaited
  <2> QED BY <2>1, <2>3, <2>6, AddsDInv
<1> QED BY <1>1, <1>2, <1>3

(* An ended coroutine scheduled again: nobody is leaving yet.              *)
LEMMA StaleDInv ==
  ASSUME IInv, OInv, TInv, DInv, NEW c \in Cort, CallerSchedulesEnded(c)
  PROVE  Clean' /\ Draining'
<1> USE DEF DInv
<1> DEFINE e == CortEntry(c, Null)
<1>1. /\ ctl = "user" /\ Listed' = Listed \cup {e} /\ e.thread = Null
      /\ UNCHANGED <<pc, idle_coroutine, poolThreads, ctl, m_stopping, m_cb, late>>
  BY StaleTInv DEF CallerSchedulesEnded, flagVars, runVars, cortVars, taskVars, CortEntry
<1> HIDE DEF e
<1>2. \A r \in Runners : ~Leaves(r)'
  BY <1>1, NobodyLeaves DEF Leaves, Out
<1>3. Awaited(e)
  BY <1>1, UserAwaits
<1>4. \A x : /\ Awaited(x)' <=> Awaited(x)
             /\ EntryTask(x)' = EntryTask(x)
  BY <1>1 DEF Awaited, Unstarted, Serves, Out, EntryTask
<1> QED BY <1>1, <1>2, <1>3, <1>4 DEF Clean, Draining

(* start() finds a runner for everything in the list; stop() returns, or   *)
(* waits for the threads, only when nothing is left for the caller.        *)
LEMMA ControlDInv ==
  ASSUME IInv, OInv, DInv, Start \/ StopBegin \/ StopStep \/ Destroy
  PROVE  Clean' /\ Draining'
<1> USE DEF DInv
<1>0. /\ poolThreads \subseteq Workers /\ Workers \subseteq Runners /\ Caller \notin Workers
      /\ (\A r \in Runners : r \in Workers \/ (r = Caller /\ UseCaller))
      /\ (UseCaller => Caller \in Runners)
  BY SchedulerAssumption DEF IInv, TypeOK, Runners
<1>1. UNCHANGED <<m_coroutines, coe, m_state, m_cb, poolThreads>>
  BY DEF Start, StopBegin, StopStep, StopAlone, StopFlag, StopRoot, RootBack, StopJoin,
         Destroy, queueVars, runVars, cortVars
<1>2. ASSUME NEW r \in Runners
      PROVE  \/ pc'[r] = pc[r] /\ idle_coroutine'[r] = idle_coroutine[r]
             \/ pc'[r] = "scan" /\ idle_coroutine'[r] = "INIT"
  <2>1. CASE Start
    BY <2>1 DEF Start
  <2>2. CASE StopRoot
    BY <2>2 DEF StopRoot, Goto, runVars, IInv, TypeOK
  <2>3. CASE StopBegin \/ StopAlone \/ StopFlag \/ RootBack \/ StopJoin \/ Destroy
    BY <2>3 DEF StopBegin, StopAlone, StopFlag, RootBack, StopJoin, Destroy, runVars
  <2> QED BY <2>1, <2>2, <2>3 DEF StopStep
<1>3. Clean'
  <2>1. \A r \in Runners : Leaves(r)' => Leaves(r)
    BY <1>2 DEF Leaves, Out
  <2>2. \A c \in Cort : (Queued(c)' => Queued(c)) /\ (Taken(c)' => Taken(c))
    BY <1>1, <1>2 DEF Queued, Taken
  <2> QED BY <2>1, <2>2, <1>1 DEF Clean
<1>4. Listed' = Listed /\ \A e : EntryTask(e)' = EntryTask(e)
  BY <1>1 DEF Listed, EntryTask
<1>5. CASE Listed = {}
  BY <1>4, <1>5, <1>3 DEF Draining
<1>6. CASE Start
  <2>1. /\ ctl' = "user" /\ m_stopping' = FALSE
        /\ \A w \in poolThreads : pc'[w] = "scan"
    BY <1>0, <1>6 DEF Start
  <2>2. \A w \in poolThreads : Serves(w)'
    BY <1>0, <2>1 DEF Serves, Out
  <2>3. Serves(Caller)'
    BY <2>1 DEF Serves
  <2>4. ASSUME NEW e \in Listed PROVE Awaited(e)'
    <3>1. e.thread \in {Null, Caller} \cup poolThreads /\ e.thread \in Runners \cup {Null}
      BY ListedFacts DEF Draining, WellFormed, Entry
    <3>2. CASE e.thread = Null
      <4>1. \E r \in Runners : Serves(r)'
        BY <1>0, <2>2, <2>3 DEF Started
      <4> QED BY <3>2, <4>1 DEF Awaited
    <3>3. CASE e.thread # Null
      <4>1. e.thread \in Runners /\ Serves(e.thread)'
        BY <3>1, <3>3, <2>2, <2>3
      <4> QED BY <4>1 DEF Awaited
    <3> QED BY <3>2, <3>3
  <2> QED BY <2>4, <1>1, <1>3, <1>4 DEF Draining
<1>7. CASE StopBegin \/ StopStep \/ Destroy
  <2>1. late' = late /\ ~Unstarted'
    BY <1>7 DEF StopBegin, StopStep, StopAlone, StopFlag, StopRoot, RootBack, StopJoin,
                Destroy, taskVars, Unstarted
  <2>2. ASSUME NEW q \in Runners, Serves(q), Listed # {} PROVE Serves(q)'
    <3>1. CASE q # Caller
      BY <2>2, <3>1, <1>2 DEF Serves, Out
    <3>2. CASE q = Caller
      <4>1. UseCaller /\ ~Stopping
        <5>1. m_coroutines # <<>>
          BY <2>2 DEF Listed
        <5> QED BY <5>1, <3>2, <1>0 DEF Stopping
      <4>2. CASE StopBegin \/ StopAlone \/ StopFlag
        <5>1. ctl' \in {"stop1", "stop2", "stop3"}
          <6>1. ~Stopping'
            BY <2>2, <1>1 DEF Stopping, Listed
          <6> QED BY <4>2, <6>1 DEF StopBegin, StopAlone, StopFlag
        <5> QED BY <3>2, <5>1 DEF Serves
      <4>3. CASE StopRoot
        <5>1. ctl' = "root" /\ pc'[Caller] = "scan"
          BY <4>1, <4>3, <3>2 DEF StopRoot, Goto, IInv, TypeOK
        <5> QED BY <3>2, <5>1 DEF Serves
      <4>4. CASE RootBack
        BY <2>2, <3>2, <4>4 DEF RootBack, Serves, At
      <4>5. CASE StopJoin \/ Destroy
        BY <2>2, <3>2, <4>5 DEF StopJoin, Destroy, Serves
      <4> QED BY <4>2, <4>3, <4>4, <4>5, <1>7 DEF StopStep
    <3> QED BY <3>1, <3>2
  <2>3. ASSUME NEW e \in Listed, Awaited(e) PROVE Awaited(e)'
    <3>1. CASE Unstarted /\ e.thread \in {Null, Caller}
      <4>1. StopBegin
        BY <3>1, <1>7 DEF Unstarted, StopStep, StopAlone, StopFlag, StopRoot, RootBack,
                          StopJoin, Destroy
      <4>2. Caller \in Runners /\ Serves(Caller)'
        BY <3>1, <4>1, <1>0 DEF StopBegin, Unstarted, Serves
      <4> QED BY <3>1, <4>2 DEF Awaited
    <3>2. CASE \E q \in Runners : e.thread \in {Null, q} /\ Serves(q)
      BY <3>2, <2>2 DEF Awaited
    <3> QED BY <2>3, <3>1, <3>2 DEF Awaited
  <2> QED BY <2>1, <2>3, <1>1, <1>3, <1>4 DEF Draining
<1> QED BY <1>6, <1>7

(* The constructor leaves the list empty and no thread running.            *)
LEMMA InitDInv == Init => DInv
<1> SUFFICES ASSUME Init PROVE DInv
  OBVIOUS
<1>1. Listed = {} /\ Workers \subseteq Runners
  BY DEF Init, Listed, Runners
<1>2. Started
  BY <1>1 DEF Init, Started
<1>3. Clean
  BY DEF Init, Clean, Leaves
<1> QED BY <1>1, <1>2, <1>3 DEF DInv, Draining

(* Every step keeps a runner for every entry that is not late.             *)
LEMMA NextDInv ==
  ASSUME "earlyWake" \notin Usage, "pinOther" \notin Usage,
         IInv, OInv, TInv, DInv, IInv', [Next]_vars
  PROVE  DInv'
<1>1. Started'
  BY NextStarted DEF DInv
<1>2. Clean' /\ Draining'
  <2>1. CASE CallerStep
    BY <2>1, SchedulesDInv, StaleDInv, ControlDInv DEF CallerStep
  <2>2. CASE \E r \in Runners : RunLoop(r)
    BY <2>2, RunnerDInv
  <2>3. CASE \E r \in Runners : TaskStep(r)
    BY <2>3, SchedulesDInv, RunnerDInv DEF TaskStep
  <2>4. CASE UNCHANGED vars
    BY <2>4 DEF vars, queueVars, flagVars, runVars, cortVars, taskVars, DInv, Clean, Leaves,
                Out, Queued, Taken, Draining, Listed, Awaited, Unstarted, Serves, EntryTask
  <2> QED BY <2>1, <2>2, <2>3, <2>4 DEF Next, Finished
<1> QED BY <1>1, <1>2 DEF DInv

-----------------------------------------------------------------------------
(* The theorem                                                             *)

(* stop() drains: when it returns every runner is out of run(), what is    *)
(* left in the list came from outside after the call, and every other task *)
(* has ended or sleeps, for every number of threads and tasks, also after  *)
(* a restart.  Two conditions on the program: a sleeping coroutine is      *)
(* woken only once its thread has let go of it, and a task pins work to no *)
(* thread but its own (another one may have left run() already, and the    *)
(* entry stays in the list: schedule.cpp:169-173, 231-234).                *)
THEOREM StopAlwaysDrains ==
  ASSUME "earlyWake" \notin Usage, "pinOther" \notin Usage
  PROVE  Spec => []StopDrains
<1>1. IInv /\ TInv /\ DInv => StopDrains
  <2> SUFFICES ASSUME IInv, TInv, DInv, ctl \in {"stopped", "gone"}
               PROVE  /\ \A e \in Listed : EntryTask(e) \in late
                      /\ \A r \in Runners : Out(r)
                      /\ \A t \in issued \ (ended \cup late) :
                           \E c \in Cort : m_cb[c] = t /\ m_state[c] = "HOLD"
    BY DEF StopDrains, Listed, Out
  <2>1. \A r \in Runners : Out(r) /\ ~Serves(r) /\ coe[r] = NoEntry
    <3>1. \A r \in Runners : Out(r)
      BY DEF IInv, Control, Runners
    <3> QED BY <3>1 DEF Serves, Out, IInv, RunShape, OnCoroutine
  <2>2. ASSUME NEW e \in Listed PROVE EntryTask(e) \in late
    BY <2>1 DEF DInv, Draining, Awaited, Unstarted
  <2>3. ASSUME NEW t \in issued \ (ended \cup late)
        PROVE  \E c \in Cort : m_cb[c] = t /\ m_state[c] = "HOLD"
    <3>1. Somewhere(t) /\ t \in Task /\ t # Null
      BY <2>3, SchedulerAssumption DEF TInv, NotLost, IInv, TypeOK
    <3>2. ~CbListed(t)
      <4> SUFFICES ASSUME NEW e \in Listed, e.cb = t PROVE FALSE
        BY DEF CbListed
      <4>1. EntryTask(e) = t
        BY <3>1, ListedFacts DEF WellFormed, EntryTask
      <4> QED BY <4>1, <2>2, <2>3
    <3>3. ~CbTaken(t)
      BY <2>1, <3>1 DEF CbTaken, NoEntry
    <3>4. PICK c \in Cort : m_cb[c] = t
      BY <3>1, <3>2, <3>3 DEF Somewhere, Body
    <3>5. ~Queued(c)
      <4> SUFFICES ASSUME NEW e \in Listed, e.cort = c PROVE FALSE
        BY ListedFacts
      <4>1. EntryTask(e) = t
        BY <3>4, SchedulerAssumption DEF EntryTask
      <4> QED BY <4>1, <2>2, <2>3
    <3>6. \A r \in Runners : ~Holds(r, c)
      <4> SUFFICES ASSUME NEW r \in Runners, Holds(r, c) PROVE FALSE
        OBVIOUS
      <4>1. cb_coroutine[r] = c /\ c # Null
        BY <2>1, SchedulerAssumption DEF Holds, NoEntry
      <4>2. Reserve(r)
        BY <2>1, <4>1 DEF Reserve, Out, OnCoroutine
      <4> QED BY <3>1, <3>4, <4>1, <4>2 DEF TInv, Bodies, HandsOK
    <3>7. m_state[c] = "HOLD"
      BY <2>3, <3>1, <3>4, <3>5, <3>6 DEF TInv, NotLost, Settled, Unended
    <3> QED BY <3>4, <3>7
  <2> QED BY <2>1, <2>2, <2>3
<1>2. IInv /\ OInv /\ TInv /\ DInv /\ IInv' /\ [Next]_vars => DInv'
  BY NextDInv
<1> QED BY <1>1, <1>2, InitDInv, AlwaysIInv, AlwaysOInv, AlwaysTInv, PTL DEF Spec

=============================================================================
