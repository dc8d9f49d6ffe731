--------------------------- MODULE SchedulerProofs ---------------------------
(***************************************************************************)
(* Theorems about Scheduler for every number of threads, tasks, coroutine  *)
(* objects and suspensions.                                                *)
(***************************************************************************)
EXTENDS Scheduler, FiniteSetTheorems, TLAPS

Out(r) == pc[r] \in {"unborn", "exited"}
Working == {"picked", "exec", "out"}
Idling  == {"idle", "idleout"}
OnCoroutine == {"exec", "out", "back"}
AtPc(S) == {r \in Runners : pc[r] \in S}

(* An entry of the list holds a coroutine or a callback, never both.       *)
ListShape ==
  \A i \in DOMAIN m_coroutines :
    LET e == m_coroutines[i] IN (e.cort = Null) # (e.cb = Null)

(* What a runner's locals hold at each place of run().                     *)
RunShape ==
  \A r \in Runners :
    /\ pc[r] = "picked" => (coe[r].cort = Null) # (coe[r].cb = Null)
    /\ pc[r] \in OnCoroutine =>
         coe[r].cb = Null /\ (coe[r].cort # Null \/ cb_coroutine[r] # Null)
    /\ pc[r] \notin OnCoroutine \cup {"picked"} => coe[r] = NoEntry

(* Who can be inside run(), given where the caller is.                     *)
Control ==
  /\ (ctl = "user" /\ m_stopping) \/ ctl \in {"stopped", "gone"}
       => \A w \in Workers : Out(w)
  /\ \A w \in Workers \ poolThreads : Out(w)
  /\ ctl # "root" /\ UseCaller => Out(Caller)
  /\ ctl = "root" => UseCaller

(* The inductive invariant behind TypeOK and CountersExact.                *)
IInv == TypeOK /\ CountersExact /\ ListShape /\ RunShape /\ Control

-----------------------------------------------------------------------------
(* Lemmas about the operators                                              *)

(* A scheduler has finitely many runners: the pool and perhaps the caller. *)
LEMMA RunnersFinite == IsFiniteSet(Runners)
<1>1. CASE UseCaller
  <2>1. IsFiniteSet(Workers \cup {Caller})
    BY SchedulerAssumption, FS_AddElement DEF Runners
  <2> QED BY <1>1, <2>1 DEF Runners
<1>2. CASE ~UseCaller
  BY <1>2, SchedulerAssumption DEF Runners
<1> QED BY <1>1, <1>2

(* m_coroutines.erase(it): one entry fewer, the others in their order.     *)
LEMMA RemoveAtFacts ==
  ASSUME NEW S, NEW s \in Seq(S), NEW i \in DOMAIN s
  PROVE  /\ RemoveAt(s, i) \in Seq(S)
         /\ DOMAIN RemoveAt(s, i) = 1..(Len(s) - 1)
         /\ \A j \in 1..(Len(s) - 1) :
              RemoveAt(s, i)[j] = s[IF j < i THEN j ELSE j + 1]
<1> DEFINE a == SubSeq(s, 1, i-1)
           b == SubSeq(s, i+1, Len(s))
<1>1. Len(s) \in Nat /\ i \in 1..Len(s) /\ i \in Nat
  OBVIOUS
<1>2. a \in Seq(S) /\ Len(a) = i - 1 /\ \A j \in 1..(i-1) : a[j] = s[j]
  BY <1>1
<1>3. b \in Seq(S) /\ Len(b) = Len(s) - i /\ \A j \in 1..(Len(s) - i) : b[j] = s[i + j]
  BY <1>1
<1> HIDE DEF a, b
<1>4. a \o b \in Seq(S) /\ Len(a \o b) = Len(s) - 1
  BY <1>1, <1>2, <1>3
<1>5. ASSUME NEW j \in 1..(Len(s) - 1)
      PROVE  (a \o b)[j] = s[IF j < i THEN j ELSE j + 1]
  <2>1. CASE j < i
    BY <2>1, <1>1, <1>2, <1>3
  <2>2. CASE ~(j < i)
    <3>1. j - (i-1) \in 1..(Len(s) - i) /\ i + (j - (i-1)) = j + 1
      BY <2>2, <1>1
    <3>2. (a \o b)[j] = b[j - (i-1)]
      BY <2>2, <1>1, <1>2, <1>3
    <3> QED BY <3>1, <3>2, <2>2, <1>3
  <2> QED BY <2>1, <2>2
<1>6. RemoveAt(s, i) = a \o b
  BY DEF RemoveAt, a, b
<1>7. DOMAIN (a \o b) = 1..(Len(s) - 1)
  BY <1>4
<1> QED BY <1>4, <1>5, <1>6, <1>7

(* list::push_back: the entries before stay, the new one is last.          *)
LEMMA AppendFacts ==
  ASSUME NEW S, NEW s \in Seq(S), NEW t \in Seq(S)
  PROVE  /\ s \o t \in Seq(S)
         /\ DOMAIN (s \o t) = 1..(Len(s) + Len(t))
         /\ \A j \in 1..Len(s) : (s \o t)[j] = s[j]
         /\ \A j \in DOMAIN (s \o t) : j \notin 1..Len(s) =>
              j - Len(s) \in 1..Len(t) /\ (s \o t)[j] = t[j - Len(s)]
<1>1. Len(s) \in Nat /\ Len(t) \in Nat /\ Len(s \o t) = Len(s) + Len(t)
  OBVIOUS
<1> QED BY <1>1

(* The number of runners at some places of run() when one of them moves.   *)
LEMMA CountMove ==
  ASSUME NEW R, IsFiniteSet(R), NEW f, DOMAIN f = R, NEW S,
         NEW r \in R, NEW v
  PROVE  LET g == [f EXCEPT ![r] = v]
             Old == {q \in R : f[q] \in S}
             New == {q \in R : g[q] \in S}
         IN  /\ f[r] \notin S /\ v \in S => Cardinality(New) = Cardinality(Old) + 1
             /\ f[r] \in S /\ v \notin S => Cardinality(New) = Cardinality(Old) - 1
             /\ (f[r] \in S <=> v \in S) => Cardinality(New) = Cardinality(Old)
<1> DEFINE g == [f EXCEPT ![r] = v]
           Old == {q \in R : f[q] \in S}
           New == {q \in R : g[q] \in S}
<1>1. IsFiniteSet(Old)
  BY FS_Subset
<1>2. f[r] \notin S /\ v \in S => New = Old \cup {r} /\ r \notin Old
  OBVIOUS
<1>3. f[r] \in S /\ v \notin S => New = Old \ {r} /\ r \in Old
  OBVIOUS
<1>4. (f[r] \in S <=> v \in S) => New = Old
  OBVIOUS
<1> HIDE DEF g, Old, New
<1>5. /\ Cardinality(Old \cup {r}) = IF r \in Old THEN Cardinality(Old) ELSE Cardinality(Old) + 1
      /\ Cardinality(Old \ {r}) = IF r \in Old THEN Cardinality(Old) - 1 ELSE Cardinality(Old)
  BY <1>1, FS_AddElement, FS_RemoveElement
<1>6. /\ f[r] \notin S /\ v \in S => Cardinality(New) = Cardinality(Old) + 1
      /\ f[r] \in S /\ v \notin S => Cardinality(New) = Cardinality(Old) - 1
      /\ (f[r] \in S <=> v \in S) => Cardinality(New) = Cardinality(Old)
  BY <1>2, <1>3, <1>4, <1>5
<1> QED BY <1>6 DEF g, Old, New

-----------------------------------------------------------------------------
(* What every step of a runner, and every schedule(), has in common        *)

(* A runner that moves to another place of run() and adjusts the counters  *)
(* accordingly keeps them exact; in particular none drops below zero.      *)
LEMMA CountersMove ==
  ASSUME TypeOK, CountersExact, NEW r \in Runners, NEW where \in PcStates,
         Goto(r, where),
         pc[r] \notin Working /\ where \in Working
           => m_activeThreadCount' = m_activeThreadCount + 1,
         pc[r] \in Working /\ where \notin Working
           => m_activeThreadCount' = m_activeThreadCount - 1,
         (pc[r] \in Working <=> where \in Working)
           => m_activeThreadCount' = m_activeThreadCount,
         pc[r] \notin Idling /\ where \in Idling
           => m_idleThreadCount' = m_idleThreadCount + 1,
         pc[r] \in Idling /\ where \notin Idling
           => m_idleThreadCount' = m_idleThreadCount - 1,
         (pc[r] \in Idling <=> where \in Idling)
           => m_idleThreadCount' = m_idleThreadCount
  PROVE  /\ CountersExact'
         /\ m_activeThreadCount' \in Nat /\ m_idleThreadCount' \in Nat
<1>1. DOMAIN pc = Runners /\ pc' = [pc EXCEPT ![r] = where]
  BY DEF TypeOK, Goto
<1>2. m_activeThreadCount = Cardinality({q \in Runners : pc[q] \in Working})
      /\ m_idleThreadCount = Cardinality({q \in Runners : pc[q] \in Idling})
  BY DEF CountersExact, Working, Idling
<1>3. m_activeThreadCount' = Cardinality({q \in Runners : pc'[q] \in Working})
  BY <1>1, <1>2, RunnersFinite, CountMove
<1>4. m_idleThreadCount' = Cardinality({q \in Runners : pc'[q] \in Idling})
  BY <1>1, <1>2, RunnersFinite, CountMove
<1>5. Cardinality({q \in Runners : pc'[q] \in Working}) \in Nat
  BY RunnersFinite, FS_Subset, FS_CardinalityType
<1>6. Cardinality({q \in Runners : pc'[q] \in Idling}) \in Nat
  BY RunnersFinite, FS_Subset, FS_CardinalityType
<1> QED BY <1>3, <1>4, <1>5, <1>6 DEF CountersExact, Working, Idling

(* A runner inside run() may move without disturbing Control.              *)
LEMMA ControlMove ==
  ASSUME TypeOK, Control, NEW r \in Runners, NEW where, ~Out(r),
         Goto(r, where), UNCHANGED <<ctl, m_stopping, poolThreads>>
  PROVE  Control'
<1>1. \A q \in Runners : Out(q) => Out(q)'
  BY DEF Out, Goto, TypeOK
<1>2. Workers \subseteq Runners /\ (UseCaller => Caller \in Runners)
  BY DEF Runners
<1> QED BY <1>1, <1>2 DEF Control

(* A runner that executes a coroutine knows which one.                     *)
LEMMA RunningType ==
  ASSUME TypeOK, RunShape, NEW r \in Runners, pc[r] \in OnCoroutine
  PROVE  Running(r) \in Cort
BY DEF TypeOK, RunShape, Running, Entry

WellFormed(e) == e \in Entry /\ (e.cort = Null) # (e.cb = Null)

(* scheduleNoLock appends well-formed entries only.                        *)
LEMMA PushShape ==
  ASSUME m_coroutines \in Seq(Entry), ListShape, NEW es \in Seq(Entry),
         \A i \in 1..Len(es) : WellFormed(es[i]),
         Push(es)
  PROVE  m_coroutines' \in Seq(Entry) /\ ListShape'
<1>1. m_coroutines' = m_coroutines \o es
  BY DEF Push
<1>2. m_coroutines' \in Seq(Entry)
  BY <1>1, AppendFacts
<1>3. ASSUME NEW j \in DOMAIN m_coroutines'
      PROVE  (m_coroutines'[j].cort = Null) # (m_coroutines'[j].cb = Null)
  <2>1. CASE j \in 1..Len(m_coroutines)
    BY <2>1, <1>1, AppendFacts DEF ListShape
  <2>2. CASE j \notin 1..Len(m_coroutines)
    BY <2>2, <1>1, AppendFacts DEF WellFormed
  <2> QED BY <2>1, <2>2
<1> QED BY <1>2, <1>3 DEF ListShape

(* The entries schedule() builds from a coroutine or a callback.           *)
LEMMA EntryTypes ==
  ASSUME NEW th \in Runners \cup {Null}
  PROVE  /\ \A c \in Cort : WellFormed(CortEntry(c, th)) /\ CortEntry(c, th).cort = c
         /\ \A t \in Task : WellFormed(CbEntry(t, th)) /\ CbEntry(t, th).cort = Null
         /\ NoEntry \in Entry
BY SchedulerAssumption DEF WellFormed, Entry, CortEntry, CbEntry, NoEntry

(* One call of scheduleNoLock.                                             *)
LEMMA PushOneShape ==
  ASSUME m_coroutines \in Seq(Entry), ListShape, NEW e, WellFormed(e), Push(<<e>>)
  PROVE  m_coroutines' \in Seq(Entry) /\ ListShape'
<1> DEFINE es == <<e>>
<1>1. es \in Seq(Entry) /\ Len(es) = 1 /\ es[1] = e
  BY DEF WellFormed
<1>2. \A i \in 1..Len(es) : WellFormed(es[i])
  BY <1>1
<1>3. Push(es)
  OBVIOUS
<1> HIDE DEF es
<1> QED BY <1>1, <1>2, <1>3, PushShape

-----------------------------------------------------------------------------
(* IInv is preserved by run()                                              *)

(* The scan takes an entry off the list and counts the runner.             *)
LEMMA TakeIInv ==
  ASSUME IInv, NEW r \in Runners, Take(r)
  PROVE  IInv'
<1> USE DEF IInv
<1>1. PICK i \in DOMAIN m_coroutines :
        /\ coe' = [coe EXCEPT ![r] = m_coroutines[i]]
        /\ m_coroutines' = RemoveAt(m_coroutines, i)
  BY DEF Take
<1>2. m_coroutines \in Seq(Entry) /\ m_coroutines[i] \in Entry
      /\ (m_coroutines[i].cort = Null) # (m_coroutines[i].cb = Null)
  BY DEF TypeOK, ListShape
<1>3. m_coroutines' \in Seq(Entry) /\ ListShape'
  <2>1. m_coroutines' \in Seq(Entry)
    BY <1>1, <1>2, RemoveAtFacts
  <2>2. ASSUME NEW j \in DOMAIN m_coroutines'
        PROVE  \E k \in DOMAIN m_coroutines : m_coroutines'[j] = m_coroutines[k]
    <3>1. /\ j \in 1..(Len(m_coroutines) - 1)
          /\ m_coroutines'[j] = m_coroutines[IF j < i THEN j ELSE j + 1]
      BY <1>1, <1>2, RemoveAtFacts
    <3>2. (IF j < i THEN j ELSE j + 1) \in DOMAIN m_coroutines
      BY <1>2, <3>1
    <3> QED BY <3>1, <3>2
  <2> QED BY <2>1, <2>2 DEF ListShape
<1>4. /\ Goto(r, "picked") /\ At(r, "scan")
      /\ m_activeThreadCount' = m_activeThreadCount + 1
      /\ UNCHANGED <<m_idleThreadCount, flagVars, cb_coroutine, idle_coroutine, cortVars,
                     taskVars, failed>>
  BY DEF Take
<1>5. CountersExact' /\ m_activeThreadCount' \in Nat /\ m_idleThreadCount' \in Nat
  BY <1>4, CountersMove DEF At, Working, Idling, PcStates
<1>6. TypeOK'
  BY <1>1, <1>2, <1>3, <1>4, <1>5
     DEF TypeOK, Goto, PcStates, flagVars, cortVars, taskVars
<1>7. RunShape'
  BY <1>1, <1>2, <1>4 DEF RunShape, TypeOK, Goto, OnCoroutine
<1>8. Control'
  BY <1>4, ControlMove DEF At, Out, flagVars
<1> QED BY <1>3, <1>5, <1>6, <1>7, <1>8

(* FindNothing and DropEnded enter the idle coroutine or leave run().      *)
LEMMA IdleOrLeaveIInv ==
  ASSUME IInv, NEW r \in Runners, FindNothing(r) \/ DropEnded(r)
  PROVE  IInv'
<1> USE DEF IInv
<1>1. PICK where \in {"exited", "idle"} :
        /\ Goto(r, where) /\ (At(r, "scan") \/ At(r, "picked"))
        /\ m_idleThreadCount' = IF where = "idle" THEN m_idleThreadCount + 1
                                                  ELSE m_idleThreadCount
        /\ m_activeThreadCount' = IF pc[r] = "picked" THEN m_activeThreadCount - 1
                                                      ELSE m_activeThreadCount
        /\ idle_coroutine' \in [Runners -> States]
        /\ coe' = [coe EXCEPT ![r] = NoEntry]
  BY DEF FindNothing, DropEnded, IdleOrLeave, At, TypeOK, RunShape, States, OnCoroutine
<1>2. UNCHANGED <<m_coroutines, flagVars, cb_coroutine, cortVars, taskVars, failed>>
  BY DEF FindNothing, DropEnded
<1>3. CountersExact' /\ m_activeThreadCount' \in Nat /\ m_idleThreadCount' \in Nat
  BY <1>1, CountersMove DEF At, Working, Idling, PcStates
<1>4. TypeOK'
  BY <1>1, <1>2, <1>3, EntryTypes
     DEF TypeOK, Goto, PcStates, flagVars, cortVars, taskVars
<1>5. ListShape' /\ RunShape'
  BY <1>1, <1>2 DEF ListShape, RunShape, TypeOK, Goto, OnCoroutine
<1>6. Control'
  BY <1>1, <1>2, ControlMove DEF At, Out, flagVars
<1> QED BY <1>3, <1>4, <1>5, <1>6

(* swapIn() of a scheduled coroutine, or of the one made for a callback.   *)
LEMMA SwapInIInv ==
  ASSUME IInv, NEW r \in Runners, SwapIn(r) \/ RunCb(r)
  PROVE  IInv'
<1> USE DEF IInv
<1>1. At(r, "picked") /\ Goto(r, "exec") /\ UNCHANGED <<queueVars, flagVars, taskVars>>
      /\ UNCHANGED idle_coroutine
  BY DEF SwapIn, RunCb
<1>2. CountersExact'
  BY <1>1, CountersMove DEF At, Working, Idling, PcStates, queueVars
<1>3. TypeOK'
  <2>1. CASE SwapIn(r)
    BY <2>1, <1>1 DEF SwapIn, At, TypeOK, Goto, PcStates, States, Entry,
                      queueVars, flagVars, taskVars
  <2>2. CASE RunCb(r)
    BY <2>2, <1>1, EntryTypes
       DEF RunCb, At, TypeOK, Goto, PcStates, States, Entry, queueVars, flagVars, taskVars
  <2> QED BY <2>1, <2>2
<1>4. ListShape' /\ RunShape'
  <2>1. CASE SwapIn(r)
    BY <2>1, <1>1 DEF SwapIn, At, ListShape, RunShape, TypeOK, Goto, OnCoroutine, queueVars
  <2>2. CASE RunCb(r)
    BY <2>2, <1>1, SchedulerAssumption
       DEF RunCb, At, ListShape, RunShape, TypeOK, Goto, OnCoroutine, queueVars, NoEntry
  <2> QED BY <2>1, <2>2
<1>5. Control'
  BY <1>1, ControlMove DEF At, Out, flagVars
<1> QED BY <1>2, <1>3, <1>4, <1>5 DEF IInv

(* The running task suspends itself, returns or throws.                    *)
LEMMA TaskEndsIInv ==
  ASSUME IInv, NEW r \in Runners, Yield(r) \/ Sleep(r) \/ Return(r) \/ Throw(r)
  PROVE  IInv'
<1> USE DEF IInv
<1>1. /\ At(r, "exec") /\ Goto(r, "out")
      /\ UNCHANGED <<queueVars, flagVars, coe, cb_coroutine, idle_coroutine, issued, late,
                     failed>>
  BY DEF Yield, Sleep, Suspend, Return, Throw
<1>2. CountersExact'
  BY <1>1, CountersMove DEF At, Working, Idling, PcStates, queueVars
<1>3. Running(r) \in Cort
  BY <1>1, RunningType DEF At, OnCoroutine
<1>4. TypeOK'
  <2>1. /\ m_state' \in [Cort -> States \cup {"NONE"}]
        /\ m_cb' \in [Cort -> Task \cup {Null}]
        /\ ended' \subseteq Task
        /\ suspends' \in [Task -> 0..MaxSuspend]
    <3>1. CASE Yield(r) \/ Sleep(r)
      <4>1. PICK state \in {"READY", "HOLD"} : Suspend(r, state)
        BY <3>1 DEF Yield, Sleep
      <4>2. UNCHANGED <<m_cb, ended>> /\ m_state' = [m_state EXCEPT ![Running(r)] = state]
        BY <4>1 DEF Suspend
      <4>3. PICK t \in Task : /\ suspends[t] < MaxSuspend
                              /\ suspends' = [suspends EXCEPT ![t] = @ + 1]
        BY <4>1, <1>3 DEF Suspend, TypeOK
      <4>4. suspends[t] \in 0..MaxSuspend /\ suspends[t] + 1 \in 0..MaxSuspend
        BY <4>3, SchedulerAssumption DEF TypeOK
      <4>5. suspends' \in [Task -> 0..MaxSuspend]
        BY <4>3, <4>4 DEF TypeOK
      <4> QED BY <4>2, <4>5, <1>3 DEF TypeOK, States
    <3>2. CASE Return(r)
      BY <3>2, <1>3 DEF Return, TypeOK, States
    <3>3. CASE Throw(r)
      BY <3>3, <1>3 DEF Throw, TypeOK, States
    <3> QED BY <3>1, <3>2, <3>3
  <2> QED BY <2>1, <1>1 DEF TypeOK, Goto, PcStates, queueVars, flagVars
<1>5. ListShape' /\ RunShape'
  BY <1>1 DEF At, ListShape, RunShape, TypeOK, Goto, OnCoroutine, queueVars
<1>6. Control'
  BY <1>1, ControlMove DEF At, Out, flagVars
<1> QED BY <1>2, <1>4, <1>5, <1>6

(* The runner is back in run() and counts down.                            *)
LEMMA SwapOutIInv ==
  ASSUME IInv, NEW r \in Runners, SwapOut(r)
  PROVE  IInv'
<1> USE DEF IInv
<1>1. /\ At(r, "out") /\ Goto(r, "back")
      /\ m_activeThreadCount' = m_activeThreadCount - 1
      /\ UNCHANGED <<m_coroutines, m_idleThreadCount, flagVars, coe, cb_coroutine,
                     idle_coroutine, cortVars, taskVars, failed>>
  BY DEF SwapOut
<1>2. CountersExact' /\ m_activeThreadCount' \in Nat /\ m_idleThreadCount' \in Nat
  BY <1>1, CountersMove DEF At, Working, Idling, PcStates
<1>3. TypeOK'
  BY <1>1, <1>2 DEF TypeOK, Goto, PcStates, flagVars, cortVars, taskVars
<1>4. ListShape' /\ RunShape'
  BY <1>1 DEF At, ListShape, RunShape, TypeOK, Goto, OnCoroutine
<1>5. Control'
  BY <1>1, ControlMove DEF At, Out, flagVars
<1> QED BY <1>2, <1>3, <1>4, <1>5

(* After the swap: put the coroutine back, let go of it, or let it sleep.  *)
LEMMA AfterSwapIInv ==
  ASSUME IInv, NEW r \in Runners, Requeue(r) \/ Retire(r) \/ Park(r)
  PROVE  IInv'
<1> USE DEF IInv
<1>1. /\ At(r, "back") /\ Goto(r, "scan")
      /\ coe' = [coe EXCEPT ![r] = NoEntry]
      /\ UNCHANGED <<m_activeThreadCount, m_idleThreadCount, flagVars, idle_coroutine,
                     taskVars, failed>>
  BY DEF Requeue, Retire, Park, queueVars
<1>2. CountersExact'
  BY <1>1, CountersMove DEF At, Working, Idling, PcStates
<1>3. Running(r) \in Cort
  BY <1>1, RunningType DEF At, OnCoroutine
<1>4. m_coroutines' \in Seq(Entry) /\ ListShape'
  <2>1. CASE Requeue(r)
    <3>1. WellFormed(CortEntry(Running(r), Null)) /\ Push(<<CortEntry(Running(r), Null)>>)
      BY <2>1, <1>3, EntryTypes DEF Requeue
    <3> QED BY <3>1, PushOneShape DEF TypeOK
  <2>2. CASE Retire(r) \/ Park(r)
    BY <2>2 DEF Retire, Park, queueVars, TypeOK, ListShape
  <2> QED BY <2>1, <2>2
<1>5. /\ m_state' \in [Cort -> States \cup {"NONE"}]
      /\ m_cb' \in [Cort -> Task \cup {Null}]
      /\ cb_coroutine' \in [Runners -> Cort \cup {Null}]
  <2>1. CASE Requeue(r)
    BY <2>1 DEF Requeue, TypeOK, cortVars
  <2>2. CASE Retire(r)
    BY <2>2, <1>3 DEF Retire, TypeOK, States
  <2>3. CASE Park(r)
    BY <2>3, <1>3 DEF Park, TypeOK, States
  <2> QED BY <2>1, <2>2, <2>3
<1>6. TypeOK'
  BY <1>1, <1>4, <1>5, EntryTypes DEF TypeOK, Goto, PcStates, flagVars, taskVars
<1>7. RunShape'
  <2>1. \A q \in Runners \ {r} : cb_coroutine'[q] = cb_coroutine[q]
    BY DEF Requeue, Retire, Park, TypeOK
  <2> QED BY <2>1, <1>1 DEF RunShape, TypeOK, Goto, OnCoroutine
<1>8. Control'
  BY <1>1, ControlMove DEF At, Out, flagVars
<1> QED BY <1>2, <1>4, <1>6, <1>7, <1>8

(* The idle coroutine tests stopping() once and swaps out.                 *)
LEMMA IdleIInv ==
  ASSUME IInv, NEW r \in Runners, IdleCheck(r) \/ IdleOut(r)
  PROVE  IInv'
<1> USE DEF IInv
<1>1. PICK where \in {"idleout", "scan"} :
        /\ Goto(r, where)
        /\ pc[r] = IF where = "idleout" THEN "idle" ELSE "idleout"
        /\ m_idleThreadCount' = IF where = "scan" THEN m_idleThreadCount - 1
                                                  ELSE m_idleThreadCount
        /\ idle_coroutine' \in [Runners -> States]
        /\ UNCHANGED <<m_coroutines, m_activeThreadCount, flagVars, coe, cb_coroutine,
                       cortVars, taskVars, failed>>
  BY DEF IdleCheck, IdleOut, At, TypeOK, States, queueVars
<1>2. CountersExact' /\ m_activeThreadCount' \in Nat /\ m_idleThreadCount' \in Nat
  BY <1>1, CountersMove DEF Working, Idling, PcStates
<1>3. TypeOK'
  BY <1>1, <1>2 DEF TypeOK, Goto, PcStates, flagVars, cortVars, taskVars
<1>4. ListShape' /\ RunShape'
  BY <1>1 DEF ListShape, RunShape, TypeOK, Goto, OnCoroutine
<1>5. Control'
  BY <1>1, ControlMove DEF Out, flagVars
<1> QED BY <1>2, <1>3, <1>4, <1>5

-----------------------------------------------------------------------------
(* IInv is preserved by schedule(), start(), stop()                        *)

(* The part of the state a call of schedule() may change keeps its shape.  *)
LEMMA ScheduleShape ==
  ASSUME IInv, NEW threads \in SUBSET (Runners \cup {Null}), Schedule(threads)
  PROVE  /\ m_coroutines' \in Seq(Entry) /\ ListShape'
         /\ m_state' \in [Cort -> States \cup {"NONE"}]
         /\ m_cb' \in [Cort -> Task \cup {Null}]
         /\ issued' \subseteq Task
<1> USE DEF IInv
<1>1. ASSUME NEW e, WellFormed(e), Push(<<e>>)
      PROVE  m_coroutines' \in Seq(Entry) /\ ListShape'
  BY <1>1, PushOneShape DEF TypeOK
<1>2. CASE \E t \in Task, th \in threads : ScheduleCb(t, th)
  BY <1>2, <1>1, EntryTypes DEF ScheduleCb, TypeOK, cortVars
<1>3. CASE \E t \in Task, c \in Cort, th \in threads : ScheduleCort(t, c, th)
  BY <1>3, <1>1, EntryTypes DEF ScheduleCort, TypeOK, States
<1>4. CASE \E t1, t2 \in Task : ScheduleRange(t1, t2)
  <2>1. PICK t1, t2 \in Task : ScheduleRange(t1, t2)
    BY <1>4
  <2> DEFINE es == <<CbEntry(t1, Null), CbEntry(t2, Null)>>
  <2>2. WellFormed(CbEntry(t1, Null)) /\ WellFormed(CbEntry(t2, Null))
    BY EntryTypes
  <2>3. es \in Seq(Entry) /\ \A i \in 1..Len(es) : WellFormed(es[i])
    BY <2>2 DEF WellFormed
  <2>4. Push(es) /\ issued' = issued \cup {t1, t2} /\ UNCHANGED cortVars
    BY <2>1 DEF ScheduleRange
  <2> QED BY <2>3, <2>4, PushShape DEF TypeOK, cortVars
<1>5. CASE \E c \in Cort : Wake(c)
  BY <1>5, <1>1, EntryTypes DEF Wake, TypeOK, cortVars
<1> QED BY <1>2, <1>3, <1>4, <1>5 DEF Schedule

(* schedule() called by the caller, from outside or by a task; an ended    *)
(* coroutine scheduled again.                                              *)
LEMMA ScheduleIInv ==
  ASSUME IInv,
         \/ CallerSchedules
         \/ OutsideSchedules
         \/ \E r \in Runners : TaskSchedules(r)
         \/ \E c \in Cort : CallerSchedulesEnded(c)
  PROVE  IInv'
<1> USE DEF IInv
<1>1. UNCHANGED <<m_activeThreadCount, m_idleThreadCount, flagVars, runVars,
                  ended, suspends, failed>>
  BY DEF CallerSchedules, OutsideSchedules, TaskSchedules, CallerSchedulesEnded, taskVars
<1>2. /\ m_coroutines' \in Seq(Entry) /\ ListShape'
      /\ m_state' \in [Cort -> States \cup {"NONE"}]
      /\ m_cb' \in [Cort -> Task \cup {Null}]
      /\ issued' \subseteq Task
      /\ late' \subseteq Task
  <2>1. CASE CallerSchedules
    BY <2>1, ScheduleShape DEF CallerSchedules, KnownThreads, TypeOK
  <2>4. CASE OutsideSchedules
    <3>1. late' \subseteq Task
      BY <2>4 DEF OutsideSchedules, TypeOK
    <3> QED BY <3>1, <2>4, ScheduleShape DEF OutsideSchedules, KnownThreads
  <2>2. CASE \E r \in Runners : TaskSchedules(r)
    <3>1. PICK r \in Runners : TaskSchedules(r)
      BY <2>2
    <3> DEFINE ths == {Null} \cup (IF "pin" \in Usage THEN {r} ELSE {})
                             \cup (IF "pinOther" \in Usage THEN KnownThreads ELSE {})
    <3>2. Schedule(ths)
      BY <3>1 DEF TaskSchedules
    <3>3. ths \in SUBSET (Runners \cup {Null})
      BY DEF KnownThreads
    <3> HIDE DEF ths
    <3>4. late' \subseteq Task
      BY <3>1 DEF TaskSchedules, TypeOK
    <3> QED BY <3>2, <3>3, <3>4, ScheduleShape
  <2>3. CASE \E c \in Cort : CallerSchedulesEnded(c)
    <3>1. PICK c \in Cort : CallerSchedulesEnded(c)
      BY <2>3
    <3>2. Push(<<CortEntry(c, Null)>>) /\ WellFormed(CortEntry(c, Null))
      BY <3>1, EntryTypes DEF CallerSchedulesEnded
    <3>3. m_coroutines' \in Seq(Entry) /\ ListShape'
      BY <3>2, PushOneShape DEF TypeOK
    <3> QED BY <3>1, <3>3 DEF CallerSchedulesEnded, TypeOK, cortVars, taskVars
  <2> QED BY <2>1, <2>2, <2>3, <2>4
<1>3. TypeOK'
  BY <1>1, <1>2 DEF TypeOK, flagVars, runVars
<1>4. CountersExact' /\ RunShape' /\ Control'
  BY <1>1 DEF CountersExact, RunShape, Control, Out, flagVars, runVars
<1> QED BY <1>2, <1>3, <1>4

(* start() finds every pool thread outside run(), so the threads it        *)
(* creates are neither counted as active nor as idle.                      *)
LEMMA StartIInv ==
  ASSUME IInv, Start
  PROVE  IInv'
<1> USE DEF IInv
<1>1. \A w \in Workers : Out(w)
  BY DEF Start, Control
<1>2. poolThreads \subseteq Workers /\ Workers \subseteq Runners
  BY DEF Runners, TypeOK
<1>3. TypeOK'
  <2>1. starts' \in 0..MaxStarts
    BY SchedulerAssumption DEF Start, TypeOK
  <2>2. /\ pc' \in [Runners -> PcStates]
        /\ cb_coroutine' \in [Runners -> Cort \cup {Null}]
        /\ idle_coroutine' \in [Runners -> States]
    BY <1>2 DEF Start, TypeOK, PcStates, States
  <2> QED BY <2>1, <2>2 DEF Start, TypeOK, queueVars, cortVars, taskVars, CtlStates
<1>4. CountersExact'
  <2>1. ASSUME NEW r \in Runners
        PROVE  /\ (pc[r] \in Working) <=> (pc'[r] \in Working)
               /\ (pc[r] \in Idling) <=> (pc'[r] \in Idling)
    <3>1. pc'[r] = IF r \in poolThreads THEN "scan" ELSE pc[r]
      BY DEF Start
    <3> QED BY <1>1, <1>2, <3>1 DEF Out, Working, Idling
  <2>2. /\ {r \in Runners : pc[r] \in Working} = {r \in Runners : pc'[r] \in Working}
        /\ {r \in Runners : pc[r] \in Idling} = {r \in Runners : pc'[r] \in Idling}
    BY <2>1
  <2> QED BY <2>2 DEF Start, CountersExact, queueVars, Working, Idling
<1>5. ListShape' /\ RunShape'
  BY <1>1, <1>2 DEF Start, ListShape, RunShape, Out, OnCoroutine, queueVars, TypeOK
<1>6. Control'
  BY <1>1, <1>2, SchedulerAssumption DEF Start, Control, Out, Runners
<1> QED BY <1>3, <1>4, <1>5, <1>6

(* The steps of stop() that leave the runners alone, and ~Scheduler.       *)
LEMMA StopQuietIInv ==
  ASSUME IInv, StopBegin \/ StopAlone \/ StopFlag \/ RootBack \/ StopJoin \/ Destroy
  PROVE  IInv'
<1> USE DEF IInv
<1>1. UNCHANGED <<queueVars, poolThreads, starts, runVars, cortVars, taskVars, failed>>
  BY DEF StopBegin, StopAlone, StopFlag, RootBack, StopJoin, Destroy
<1>2. TypeOK'
  BY <1>1 DEF StopBegin, StopAlone, StopFlag, RootBack, StopJoin, Destroy, TypeOK,
              queueVars, runVars, cortVars, taskVars, CtlStates, States
<1>3. CountersExact' /\ ListShape' /\ RunShape'
  BY <1>1 DEF CountersExact, ListShape, RunShape, queueVars, runVars
<1>4. Control'
  <2>1. \A r : Out(r)' <=> Out(r)
    BY <1>1 DEF Out, runVars
  <2> QED BY <2>1, <1>1
        DEF StopBegin, StopAlone, StopFlag, RootBack, StopJoin, Destroy, Control, Out
<1> QED BY <1>2, <1>3, <1>4

(* stop() enters the root coroutine, or finds nothing to do.               *)
LEMMA StopRootIInv ==
  ASSUME IInv, StopRoot
  PROVE  IInv'
<1> USE DEF IInv
<1>1. UNCHANGED <<queueVars, poolThreads, m_stopping, m_autoStop, starts, cortVars, taskVars,
                  coe>>
  BY DEF StopRoot, runVars
<1>2. CASE ~UseCaller \/ Stopping
  <2>1. ctl' = "join" /\ UNCHANGED <<m_rootState, runVars, failed>>
    BY <1>2 DEF StopRoot
  <2>2. TypeOK'
    BY <1>1, <2>1 DEF TypeOK, queueVars, runVars, cortVars, taskVars, CtlStates
  <2>3. CountersExact' /\ ListShape' /\ RunShape' /\ Control'
    BY <1>1, <2>1 DEF StopRoot, CountersExact, ListShape, RunShape, Control, Out,
                      queueVars, runVars
  <2> QED BY <2>2, <2>3
<1>3. CASE UseCaller /\ ~Stopping
  <2>1. /\ ctl = "stop3" /\ ctl' = "root" /\ m_rootState' = "EXEC" /\ Goto(Caller, "scan")
        /\ failed' \in {"none", "neverReached"}
        /\ idle_coroutine' = [idle_coroutine EXCEPT ![Caller] = "INIT"]
        /\ cb_coroutine' = [cb_coroutine EXCEPT ![Caller] = Null]
    BY <1>3 DEF StopRoot, Goto
  <2>2. Caller \in Runners /\ Out(Caller) /\ coe[Caller] = NoEntry
    BY <1>3, <2>1 DEF Runners, Control, RunShape, Out, OnCoroutine
  <2>3. CountersExact'
    BY <1>1, <2>1, <2>2, CountersMove DEF Out, Working, Idling, PcStates, queueVars
  <2>4. TypeOK'
    BY <1>1, <2>1, <2>2 DEF TypeOK, Goto, queueVars, cortVars, taskVars, CtlStates,
                            PcStates, States
  <2>5. ListShape' /\ RunShape'
    BY <1>1, <2>1, <2>2 DEF ListShape, RunShape, Goto, OnCoroutine, queueVars, TypeOK
  <2>6. Control'
    BY <1>1, <1>3, <2>1, <2>2, SchedulerAssumption DEF Control, Out, Goto, Runners, TypeOK
  <2> QED BY <2>3, <2>4, <2>5, <2>6
<1> QED BY <1>2, <1>3

-----------------------------------------------------------------------------
(* The theorems                                                            *)

(* The constructor establishes the invariant.                              *)
LEMMA InitIInv == Init => IInv
<1> SUFFICES ASSUME Init PROVE IInv
  OBVIOUS
<1>1. TypeOK
  <2>1. NoEntry \in Entry
    BY EntryTypes
  <2>2. suspends \in [Task -> 0..MaxSuspend] /\ starts \in 0..MaxStarts
    BY SchedulerAssumption DEF Init
  <2>3. m_coroutines \in Seq(Entry) /\ m_activeThreadCount \in Nat /\ m_idleThreadCount \in Nat
    BY DEF Init
  <2> QED BY <2>1, <2>2, <2>3 DEF Init, TypeOK, CtlStates, PcStates, States
<1>2. CountersExact
  <2>1. /\ {r \in Runners : pc[r] \in Working} = {}
        /\ {r \in Runners : pc[r] \in Idling} = {}
    BY DEF Init, Working, Idling
  <2> QED BY <2>1, FS_EmptySet DEF Init, CountersExact, Working, Idling
<1>3. ListShape /\ RunShape /\ Control
  BY SchedulerAssumption DEF Init, ListShape, RunShape, Control, Out, OnCoroutine, Runners
<1> QED BY <1>1, <1>2, <1>3 DEF IInv

(* Every step of the caller, of a runner and of a task preserves it.       *)
LEMMA NextIInv == IInv /\ [Next]_vars => IInv'
<1> SUFFICES ASSUME IInv, [Next]_vars PROVE IInv'
  OBVIOUS
<1>1. CASE CallerStep
  BY <1>1, StartIInv, ScheduleIInv, StopQuietIInv, StopRootIInv DEF CallerStep, StopStep
<1>2. CASE \E r \in Runners : RunLoop(r)
  BY <1>2, TakeIInv, IdleOrLeaveIInv, SwapInIInv, SwapOutIInv, AfterSwapIInv, IdleIInv
     DEF RunLoop
<1>3. CASE \E r \in Runners : TaskStep(r)
  BY <1>3, ScheduleIInv, TaskEndsIInv DEF TaskStep
<1>4. CASE UNCHANGED vars
  BY <1>4 DEF vars, queueVars, flagVars, runVars, cortVars, taskVars, IInv, TypeOK,
              CountersExact, ListShape, RunShape, Control, Out
<1> QED BY <1>1, <1>2, <1>3, <1>4 DEF Next, Finished

(* IInv holds in every reachable state.                                    *)
LEMMA AlwaysIInv == Spec => []IInv
BY InitIInv, NextIInv, PTL DEF Spec

(* The variables of Scheduler keep their types; in particular neither      *)
(* thread counter is ever decremented below zero (schedule.cpp:196, 215,   *)
(* 229, 238: both are unsigned).                                           *)
THEOREM TypeCorrect == Spec => []TypeOK
<1>1. IInv => TypeOK
  BY DEF IInv
<1> QED BY <1>1, AlwaysIInv, PTL

(* The counters count: stopping() may read m_activeThreadCount as the      *)
(* number of runners that hold work, whatever the number of threads.       *)
THEOREM CountersAreExact == Spec => []CountersExact
<1>1. IInv => CountersExact
  BY DEF IInv
<1> QED BY <1>1, AlwaysIInv, PTL

-----------------------------------------------------------------------------
(***************************************************************************)
(* Ownership of coroutine objects: an object is in one place at a time, so *)
(* no two threads run on one stack and the assertions of Coroutine hold.   *)
(***************************************************************************)


(* The two halves of OneHolder: no object twice in the list; an object a   *)
(* runner holds is not in the list and no other runner holds it.           *)
ListUnique ==
  \A i, j \in DOMAIN m_coroutines :
    i # j /\ m_coroutines[i].cort # Null
      => m_coroutines[i].cort # m_coroutines[j].cort
RunnerUnique ==
  \A c \in Cort, r \in Runners :
    Holds(r, c) => /\ ~Queued(c)
                   /\ \A q \in Runners : Holds(q, c) => q = r

(* An object somebody holds has been constructed.                          *)
Born ==
  \A c \in Cort : Queued(c) \/ (\E r \in Runners : Holds(r, c)) => m_state[c] # "NONE"

(* A runner never holds the same object as its coe and its cb_coroutine.   *)
Apart ==
  \A r \in Runners : coe[r].cort # Null => coe[r].cort # cb_coroutine[r]

(* An object waiting to be resumed is not executing, and the cb_coroutine  *)
(* a runner keeps for the next callback has been reset.                    *)
Resumable ==
  /\ \A c \in Cort : Queued(c) => m_state[c] # "EXEC"
  /\ \A r \in Runners :
       /\ pc[r] = "picked" /\ coe[r].cort # Null => m_state[coe[r].cort] # "EXEC"
       /\ cb_coroutine[r] # Null /\ ~(pc[r] \in OnCoroutine /\ coe[r].cort = Null)
            => m_state[cb_coroutine[r]] = "INIT"

(* The inductive invariant behind OneHolder and NoAssertionFails.          *)
OInv == ListUnique /\ RunnerUnique /\ Born /\ Apart /\ Resumable

-----------------------------------------------------------------------------
(* How the list changes                                                    *)

(* Scheduling an object that is not in the list.                           *)
LEMMA PushCort ==
  ASSUME TypeOK, ListUnique, NEW c \in Cort, NEW th \in Runners \cup {Null}, ~Queued(c),
         Push(<<CortEntry(c, th)>>)
  PROVE  ListUnique' /\ \A d \in Cort : Queued(d)' <=> Queued(d) \/ d = c
<1> DEFINE e == CortEntry(c, th)
           n == Len(m_coroutines)
<1>1. e \in Entry /\ e.cort = c /\ c # Null
  BY EntryTypes, SchedulerAssumption DEF WellFormed
<1> HIDE DEF e
<1>2. m_coroutines \in Seq(Entry) /\ n \in Nat /\ DOMAIN m_coroutines = 1..n
  BY DEF TypeOK
<1>3. m_coroutines' = Append(m_coroutines, e)
  BY <1>1, <1>2 DEF Push, e
<1>4. /\ DOMAIN m_coroutines' = 1..(n+1) /\ m_coroutines'[n+1] = e
      /\ \A i \in 1..n : m_coroutines'[i] = m_coroutines[i]
  BY <1>1, <1>2, <1>3
<1> HIDE DEF n
<1>5. \A i \in 1..n : m_coroutines[i].cort # c
  BY <1>2 DEF Queued
<1>6. ListUnique'
  <2> SUFFICES ASSUME NEW i \in 1..(n+1), NEW j \in 1..(n+1), i # j,
                      m_coroutines'[i].cort # Null
               PROVE  m_coroutines'[i].cort # m_coroutines'[j].cort
    BY <1>4 DEF ListUnique
  <2>1. (i \in 1..n \/ i = n+1) /\ (j \in 1..n \/ j = n+1)
    BY <1>2
  <2>2. CASE i \in 1..n /\ j \in 1..n
    BY <2>2, <1>2, <1>4 DEF ListUnique
  <2>3. CASE i = n+1 \/ j = n+1
    BY <2>1, <2>3, <1>1, <1>4, <1>5
  <2> QED BY <2>1, <2>2, <2>3
<1>7. ASSUME NEW d \in Cort
      PROVE  Queued(d)' <=> Queued(d) \/ d = c
  <2>1. Queued(d)' => Queued(d) \/ d = c
    <3>1. \A i \in 1..(n+1) : i \in 1..n \/ i = n+1
      BY <1>2
    <3> QED BY <3>1, <1>1, <1>2, <1>4 DEF Queued
  <2>2. 1..n \subseteq 1..(n+1) /\ n+1 \in 1..(n+1)
    BY <1>2
  <2> QED BY <2>1, <2>2, <1>1, <1>2, <1>4 DEF Queued
<1> QED BY <1>6, <1>7

(* Scheduling callbacks.                                                   *)
LEMMA PushCbs ==
  ASSUME TypeOK, ListUnique, NEW es \in Seq(Entry),
         \A i \in 1..Len(es) : es[i].cort = Null, Push(es)
  PROVE  ListUnique' /\ \A d \in Cort : Queued(d)' <=> Queued(d)
<1> DEFINE n == Len(m_coroutines)
<1>1. m_coroutines \in Seq(Entry) /\ n \in Nat /\ DOMAIN m_coroutines = 1..n
      /\ m_coroutines' = m_coroutines \o es
  BY DEF TypeOK, Push
<1>2. /\ DOMAIN m_coroutines' = 1..(n + Len(es))
      /\ \A i \in 1..n : m_coroutines'[i] = m_coroutines[i]
      /\ \A i \in DOMAIN m_coroutines' : i \notin 1..n => m_coroutines'[i].cort = Null
  BY <1>1, AppendFacts
<1>3. 1..n \subseteq 1..(n + Len(es))
  BY <1>1
<1> HIDE DEF n
<1>4. ListUnique'
  <2> SUFFICES ASSUME NEW i \in DOMAIN m_coroutines', NEW j \in DOMAIN m_coroutines',
                      i # j, m_coroutines'[i].cort # Null
               PROVE  m_coroutines'[i].cort # m_coroutines'[j].cort
    BY DEF ListUnique
  <2>1. i \in 1..n
    BY <1>2
  <2> QED BY <2>1, <1>1, <1>2 DEF ListUnique
<1>5. ASSUME NEW d \in Cort PROVE Queued(d)' <=> Queued(d)
  BY <1>1, <1>2, <1>3, SchedulerAssumption DEF Queued
<1> QED BY <1>4, <1>5

(* Taking entry i off the list removes its object and no other.            *)
LEMMA EraseCort ==
  ASSUME TypeOK, ListUnique, NEW i \in DOMAIN m_coroutines,
         m_coroutines' = RemoveAt(m_coroutines, i)
  PROVE  /\ ListUnique'
         /\ \A d \in Cort : Queued(d)' <=> Queued(d) /\ d # m_coroutines[i].cort
<1> DEFINE n == Len(m_coroutines)
           Old(j) == IF j < i THEN j ELSE j + 1
<1>1. m_coroutines \in Seq(Entry) /\ n \in Nat /\ DOMAIN m_coroutines = 1..n
  BY DEF TypeOK
<1>2. DOMAIN m_coroutines' = 1..(n-1) /\ \A j \in 1..(n-1) : m_coroutines'[j] = m_coroutines[Old(j)]
  BY <1>1, RemoveAtFacts
<1>3. /\ \A j \in 1..(n-1) : Old(j) \in 1..n /\ Old(j) # i
      /\ \A j, k \in 1..(n-1) : j # k => Old(j) # Old(k)
  BY <1>1
<1>4. \A k \in 1..n : k # i => \E j \in 1..(n-1) : Old(j) = k
  <2> SUFFICES ASSUME NEW k \in 1..n, k # i PROVE \E j \in 1..(n-1) : Old(j) = k
    OBVIOUS
  <2>1. CASE k < i
    BY <2>1, <1>1
  <2>2. CASE k > i
    <3>1. k - 1 \in 1..(n-1) /\ Old(k-1) = k
      BY <2>2, <1>1
    <3> QED BY <3>1
  <2> QED BY <2>1, <2>2, <1>1
<1> HIDE DEF n, Old
<1>5. ListUnique'
  BY <1>1, <1>2, <1>3 DEF ListUnique
<1>6. ASSUME NEW d \in Cort
      PROVE  Queued(d)' <=> Queued(d) /\ d # m_coroutines[i].cort
  <2>1. d # Null
    BY SchedulerAssumption
  <2>2. Queued(d)' => Queued(d) /\ d # m_coroutines[i].cort
    <3> SUFFICES ASSUME NEW j \in 1..(n-1), m_coroutines'[j].cort = d
                 PROVE  Queued(d) /\ d # m_coroutines[i].cort
      BY <1>2 DEF Queued
    <3>1. Old(j) \in 1..n /\ Old(j) # i /\ m_coroutines[Old(j)].cort = d
      BY <1>2, <1>3
    <3> QED BY <3>1, <1>1, <2>1 DEF Queued, ListUnique
  <2>3. Queued(d) /\ d # m_coroutines[i].cort => Queued(d)'
    <3> SUFFICES ASSUME NEW k \in 1..n, m_coroutines[k].cort = d, d # m_coroutines[i].cort
                 PROVE  Queued(d)'
      BY <1>1 DEF Queued
    <3>1. PICK j \in 1..(n-1) : Old(j) = k
      BY <1>4
    <3> QED BY <3>1, <1>2 DEF Queued
  <2> QED BY <2>2, <2>3
<1> QED BY <1>5, <1>6

-----------------------------------------------------------------------------
(* OInv is preserved by run()                                              *)

(* The scan moves an object from the list into the runner's hands.         *)
LEMMA TakeOInv ==
  ASSUME IInv, OInv, NEW r \in Runners, Take(r)
  PROVE  OInv'
<1> USE DEF IInv, OInv
<1>1. PICK i \in DOMAIN m_coroutines :
        /\ coe' = [coe EXCEPT ![r] = m_coroutines[i]]
        /\ m_coroutines' = RemoveAt(m_coroutines, i)
  BY DEF Take
<1> DEFINE c == m_coroutines[i].cort
<1>2. m_coroutines[i] \in Entry /\ c \in Cort \cup {Null} /\ (c # Null => Queued(c))
  <2>1. m_coroutines \in Seq(Entry)
    BY DEF TypeOK
  <2>2. m_coroutines[i] \in Entry
    BY <2>1
  <2> QED BY <2>2 DEF Entry, Queued
<1>3. /\ coe[r].cort = Null /\ pc[r] = "scan"
      /\ pc' = [pc EXCEPT ![r] = "picked"] /\ UNCHANGED <<cb_coroutine, m_state>>
  BY DEF Take, At, Goto, RunShape, OnCoroutine, cortVars, NoEntry
<1>4. ListUnique' /\ \A d \in Cort : Queued(d)' <=> Queued(d) /\ d # c
  BY <1>1, EraseCort
<1>5. coe' \in [Runners -> Entry] /\ coe'[r].cort = c
      /\ \A q \in Runners : q # r => coe'[q] = coe[q]
  BY <1>1, <1>2 DEF TypeOK
<1> HIDE DEF c
<1>6. \A d \in Cort, q \in Runners :
        Holds(q, d)' <=> (q # r /\ Holds(q, d)) \/ (q = r /\ (d = c \/ cb_coroutine[r] = d))
  BY <1>3, <1>5 DEF Holds
<1>7. RunnerUnique'
  BY <1>2, <1>3, <1>4, <1>6, SchedulerAssumption DEF RunnerUnique, Holds, NoEntry
<1>8. Born'
  BY <1>2, <1>3, <1>4, <1>6, SchedulerAssumption DEF Born, Holds
<1>9. Apart'
  BY <1>2, <1>3, <1>5, SchedulerAssumption DEF Apart, RunnerUnique, Holds
<1>10. Resumable'
  BY <1>2, <1>3, <1>4, <1>5, SchedulerAssumption DEF Resumable, TypeOK, OnCoroutine, NoEntry
<1> QED BY <1>4, <1>7, <1>8, <1>9, <1>10

(* Steps that move a runner but no object: the idle coroutine, leaving     *)
(* run(), dropping an ended coroutine, counting down.                      *)
LEMMA QuietOInv ==
  ASSUME IInv, OInv, NEW r \in Runners,
         FindNothing(r) \/ DropEnded(r) \/ SwapOut(r) \/ IdleCheck(r) \/ IdleOut(r)
  PROVE  OInv'
<1> USE DEF IInv, OInv
<1>1. PICK where \in PcStates : pc' = [pc EXCEPT ![r] = where] /\ where # "picked"
                                /\ (where \in OnCoroutine <=> pc[r] \in OnCoroutine)
  BY DEF FindNothing, DropEnded, IdleOrLeave, SwapOut, IdleCheck, IdleOut, Goto, PcStates,
         At, OnCoroutine
<1>2. UNCHANGED <<m_coroutines, cb_coroutine, m_state>>
  BY DEF FindNothing, DropEnded, SwapOut, IdleCheck, IdleOut, cortVars, queueVars
<1>3. \/ UNCHANGED coe
      \/ coe' = [coe EXCEPT ![r] = NoEntry] /\ pc[r] \notin OnCoroutine
  BY DEF FindNothing, DropEnded, SwapOut, IdleCheck, IdleOut, At, OnCoroutine
<1>4. \A q \in Runners : \/ coe'[q] = coe[q]
                         \/ coe'[q].cort = Null /\ pc[q] \notin OnCoroutine
  BY <1>3 DEF TypeOK, NoEntry
<1>5. \A d \in Cort : /\ Queued(d)' <=> Queued(d)
                      /\ \A q \in Runners : Holds(q, d)' => Holds(q, d)
  BY <1>2, <1>4, SchedulerAssumption DEF Queued, Holds
<1>6. ListUnique' /\ RunnerUnique' /\ Born'
  BY <1>2, <1>5 DEF ListUnique, RunnerUnique, Born
<1>7. Apart'
  BY <1>2, <1>4 DEF Apart
<1>8. Resumable'
  BY <1>1, <1>2, <1>4, <1>5 DEF Resumable, TypeOK
<1> QED BY <1>6, <1>7, <1>8

(* A runner that holds the only reference may give the object any state    *)
(* (other than NONE), as long as it stays on it.                           *)
LEMMA StateChange ==
  ASSUME IInv, OInv, NEW r \in Runners, NEW c \in Cort, Holds(r, c),
         NEW st \in States, m_state' = [m_state EXCEPT ![c] = st],
         NEW where \in OnCoroutine, pc' = [pc EXCEPT ![r] = where],
         c = IF coe[r].cort # Null THEN coe[r].cort ELSE cb_coroutine[r],
         UNCHANGED <<m_coroutines, coe, cb_coroutine>>
  PROVE  OInv'
<1> USE DEF IInv, OInv
<1>1. \A d \in Cort : /\ Queued(d)' <=> Queued(d)
                      /\ \A q \in Runners : Holds(q, d)' <=> Holds(q, d)
  BY DEF Queued, Holds
<1>2. ListUnique' /\ RunnerUnique' /\ Apart'
  BY <1>1 DEF ListUnique, RunnerUnique, Apart
<1>3. Born'
  BY <1>1 DEF Born, TypeOK, States
<1>4. ~Queued(c) /\ \A q \in Runners : Holds(q, c) => q = r
  BY DEF RunnerUnique
<1>5. Resumable'
  <2>1. \A d \in Cort : Queued(d)' => m_state'[d] # "EXEC"
    BY <1>1, <1>4 DEF Resumable, TypeOK
  <2>2. ASSUME NEW q \in Runners, pc'[q] = "picked", coe'[q].cort # Null
        PROVE  m_state'[coe'[q].cort] # "EXEC"
    BY <2>2, <1>4 DEF Resumable, TypeOK, OnCoroutine, Holds, Entry
  <2>3. ASSUME NEW q \in Runners, cb_coroutine'[q] # Null,
               ~(pc'[q] \in OnCoroutine /\ coe'[q].cort = Null)
        PROVE  m_state'[cb_coroutine'[q]] = "INIT"
    <3>1. cb_coroutine[q] # c
      BY <2>3, <1>4, SchedulerAssumption DEF Holds, Apart, TypeOK
    <3>2. ~(pc[q] \in OnCoroutine /\ coe[q].cort = Null)
      BY <2>3 DEF TypeOK
    <3> QED BY <2>3, <3>1, <3>2 DEF Resumable, TypeOK
  <2> QED BY <2>1, <2>2, <2>3 DEF Resumable
<1> QED BY <1>2, <1>3, <1>5

(* swapIn() of a scheduled coroutine; Yield, Sleep, return, exception.     *)
LEMMA RunningOInv ==
  ASSUME IInv, OInv, NEW r \in Runners,
         SwapIn(r) \/ Yield(r) \/ Sleep(r) \/ Return(r) \/ Throw(r)
  PROVE  OInv'
<1>1. CASE SwapIn(r)
  <2>1. coe[r].cort \in Cort /\ coe[r].cort # Null
    BY <1>1 DEF SwapIn, IInv, TypeOK, Entry
  <2>2. /\ m_state' = [m_state EXCEPT ![coe[r].cort] = "EXEC"]
        /\ pc' = [pc EXCEPT ![r] = "exec"] /\ UNCHANGED <<m_coroutines, coe, cb_coroutine>>
    BY <1>1 DEF SwapIn, Goto, queueVars
  <2> QED BY <2>1, <2>2, StateChange DEF Holds, States, OnCoroutine
<1>2. CASE Yield(r) \/ Sleep(r) \/ Return(r) \/ Throw(r)
  <2>1. /\ pc[r] = "exec" /\ pc' = [pc EXCEPT ![r] = "out"]
        /\ UNCHANGED <<m_coroutines, coe, cb_coroutine>>
    BY <1>2 DEF Yield, Sleep, Suspend, Return, Throw, At, Goto, queueVars
  <2>2. PICK st \in States : m_state' = [m_state EXCEPT ![Running(r)] = st]
    BY <1>2 DEF Yield, Sleep, Suspend, Return, Throw, States
  <2>3. Running(r) \in Cort /\ Holds(r, Running(r))
    BY <2>1, RunningType DEF IInv, OnCoroutine, Running, Holds
  <2> QED BY <2>1, <2>2, <2>3, StateChange DEF Running, OnCoroutine
<1> QED BY <1>1, <1>2

(* A callback gets a fresh object, or the one its runner has reset.        *)
LEMMA RunCbOInv ==
  ASSUME IInv, OInv, NEW r \in Runners, RunCb(r)
  PROVE  OInv'
<1> USE DEF IInv, OInv
<1>1. PICK c \in Cort :
        /\ IF cb_coroutine[r] = Null THEN m_state[c] = "NONE" ELSE c = cb_coroutine[r]
        /\ cb_coroutine' = [cb_coroutine EXCEPT ![r] = c]
        /\ m_state' = [m_state EXCEPT ![c] = "EXEC"]
  BY DEF RunCb
<1>2. /\ coe' = [coe EXCEPT ![r] = NoEntry] /\ pc[r] = "picked"
      /\ pc' = [pc EXCEPT ![r] = "exec"] /\ UNCHANGED m_coroutines
      /\ coe[r].cort = Null
  BY DEF RunCb, At, Goto, queueVars, RunShape
<1>3. c # Null /\ NoEntry.cort = Null
  BY SchedulerAssumption DEF NoEntry
<1>4. ~Queued(c) /\ \A q \in Runners : q # r => ~Holds(q, c)
  <2>1. CASE cb_coroutine[r] = Null
    BY <2>1, <1>1 DEF Born
  <2>2. CASE cb_coroutine[r] # Null
    BY <2>2, <1>1 DEF RunnerUnique, Holds
  <2> QED BY <2>1, <2>2
<1>5. \A d \in Cort : /\ Queued(d)' <=> Queued(d)
                      /\ \A q \in Runners :
                           Holds(q, d)' <=> (q # r /\ Holds(q, d)) \/ (q = r /\ d = c)
  BY <1>1, <1>2, <1>3, SchedulerAssumption DEF Queued, Holds, TypeOK
<1>6. ListUnique'
  BY <1>2 DEF ListUnique
<1>7. RunnerUnique'
  BY <1>4, <1>5 DEF RunnerUnique
<1>8. Born'
  BY <1>1, <1>5 DEF Born, TypeOK
<1>9. Apart'
  BY <1>1, <1>2, <1>3 DEF Apart, TypeOK
<1>10. Resumable'
  <2>1. \A d \in Cort : Queued(d)' => m_state'[d] # "EXEC"
    BY <1>1, <1>4, <1>5 DEF Resumable, TypeOK
  <2>2. ASSUME NEW q \in Runners, q # r
        PROVE  /\ coe'[q] = coe[q] /\ pc'[q] = pc[q] /\ cb_coroutine'[q] = cb_coroutine[q]
               /\ coe[q].cort # c /\ cb_coroutine[q] # c
               /\ coe[q].cort \in Cort \cup {Null} /\ cb_coroutine[q] \in Cort \cup {Null}
    BY <2>2, <1>1, <1>2, <1>4 DEF TypeOK, Holds, Entry
  <2>3. pc'[r] = "exec" /\ coe'[r].cort = Null
    BY <1>2, <1>3 DEF TypeOK
  <2> QED BY <2>1, <2>2, <2>3, <1>1 DEF Resumable, TypeOK, OnCoroutine
<1> QED BY <1>6, <1>7, <1>8, <1>9, <1>10

(* After the swap the object is rescheduled, let go of, or reset.          *)
LEMMA AfterSwapOInv ==
  ASSUME IInv, OInv, NEW r \in Runners, Requeue(r) \/ Retire(r) \/ Park(r)
  PROVE  OInv'
<1> USE DEF IInv, OInv
<1>1. /\ pc[r] = "back" /\ pc' = [pc EXCEPT ![r] = "scan"]
      /\ coe' = [coe EXCEPT ![r] = NoEntry]
  BY DEF Requeue, Retire, Park, At, Goto
<1>2. PICK c \in Cort : c = Running(r) /\ c # Null /\ Holds(r, c) /\ NoEntry.cort = Null
  BY <1>1, RunningType, SchedulerAssumption DEF OnCoroutine, Running, Holds, NoEntry
<1>3. ~Queued(c) /\ \A q \in Runners : Holds(q, c) => q = r
  BY <1>2 DEF RunnerUnique
<1>4. (IsCb(r) => c = cb_coroutine[r]) /\ (~IsCb(r) => c = coe[r].cort /\ c # cb_coroutine[r])
  BY <1>2 DEF IsCb, Running, Apart
<1>5. \A q \in Runners : q # r => coe'[q] = coe[q] /\ cb_coroutine'[q] = cb_coroutine[q]
                                 /\ pc'[q] = pc[q]
  BY <1>1 DEF Requeue, Retire, Park, TypeOK
<1>6. coe'[r].cort = Null /\ pc'[r] = "scan"
  BY <1>1, <1>2 DEF TypeOK
<1>7. cb_coroutine'[r] \in {cb_coroutine[r], Null}
      /\ (cb_coroutine'[r] = c => Retire(r))
      /\ (Retire(r) => cb_coroutine'[r] = cb_coroutine[r])
  BY <1>2, <1>4 DEF Requeue, Retire, Park, TypeOK
<1>8. \A d \in Cort : m_state'[d] # m_state[d] => d = c /\ m_state'[d] \in {"INIT", "HOLD"}
  BY <1>2 DEF Requeue, Retire, Park, TypeOK, cortVars
<1>9. IsCb(r) /\ Retire(r) => m_state'[c] = "INIT"
  BY <1>2 DEF Retire, TypeOK
<1>10. /\ ListUnique'
       /\ \A d \in Cort : Queued(d)' => Queued(d) \/ (d = c /\ Requeue(r))
  <2>1. CASE Requeue(r)
    <3>1. Push(<<CortEntry(c, Null)>>)
      BY <2>1, <1>2 DEF Requeue
    <3> QED BY <2>1, <3>1, <1>2, <1>3, PushCort
  <2>2. CASE Retire(r) \/ Park(r)
    BY <2>2 DEF Retire, Park, queueVars, ListUnique, Queued
  <2> QED BY <2>1, <2>2
<1>11. \A d \in Cort, q \in Runners : Holds(q, d)' => Holds(q, d) /\ (d = c => ~Requeue(r))
  <2>1. \A d \in Cort, q \in Runners : Holds(q, d)' => Holds(q, d)
    BY <1>5, <1>6, <1>7, SchedulerAssumption DEF Holds
  <2>2. ASSUME NEW q \in Runners, Holds(q, c)', Requeue(r) PROVE FALSE
    <3>1. q = r
      BY <2>1, <2>2, <1>2, <1>3
    <3>2. cb_coroutine'[r] = c
      BY <2>2, <3>1, <1>2, <1>6 DEF Holds
    <3> QED BY <2>2, <3>2, <1>2, <1>4 DEF Requeue, TypeOK
  <2> QED BY <2>1, <2>2
<1>12. RunnerUnique'
  BY <1>10, <1>11 DEF RunnerUnique
<1>13. Born'
  BY <1>2, <1>8, <1>10, <1>11 DEF Born
<1>14. Apart'
  BY <1>5, <1>6 DEF Apart
<1>15. Resumable'
  <2>1. \A d \in Cort : Queued(d)' => m_state'[d] # "EXEC"
    <3>1. Requeue(r) => m_state'[c] = "READY"
      BY <1>2 DEF Requeue, cortVars
    <3> QED BY <3>1, <1>8, <1>10 DEF Resumable
  <2>2. ASSUME NEW q \in Runners, q # r
        PROVE  /\ pc'[q] = "picked" /\ coe'[q].cort # Null => m_state'[coe'[q].cort] # "EXEC"
               /\ cb_coroutine'[q] # Null /\ ~(pc'[q] \in OnCoroutine /\ coe'[q].cort = Null)
                    => m_state'[cb_coroutine'[q]] = "INIT"
    <3>1. coe[q].cort \in Cort \cup {Null} /\ cb_coroutine[q] \in Cort \cup {Null}
      BY DEF TypeOK, Entry
    <3>2. coe[q].cort # c /\ cb_coroutine[q] # c
      BY <2>2, <1>3 DEF Holds
    <3> QED BY <2>2, <3>1, <3>2, <1>5, <1>8 DEF Resumable
  <2>3. cb_coroutine'[r] # Null => m_state'[cb_coroutine'[r]] = "INIT"
    <3> SUFFICES ASSUME cb_coroutine'[r] # Null PROVE m_state'[cb_coroutine[r]] = "INIT"
      BY <1>7
    <3>1. cb_coroutine[r] # Null /\ cb_coroutine[r] \in Cort
      BY <1>7 DEF TypeOK
    <3>2. CASE IsCb(r)
      BY <3>1, <3>2, <1>4, <1>7, <1>9
    <3>3. CASE ~IsCb(r)
      BY <3>1, <3>3, <1>1, <1>4, <1>8 DEF Resumable, IsCb
    <3> QED BY <3>2, <3>3
  <2> QED BY <2>1, <2>2, <2>3, <1>6 DEF Resumable
<1> QED BY <1>10, <1>12, <1>13, <1>14, <1>15

-----------------------------------------------------------------------------
(* OInv is preserved by schedule(), start(), stop()                        *)

(* An object nobody has, constructed and not executing, enters the list.   *)
LEMMA EnterList ==
  ASSUME IInv, OInv, NEW c \in Cort, NEW th \in Runners \cup {Null}, Settled(c),
         Push(<<CortEntry(c, th)>>), m_state'[c] \notin {"NONE", "EXEC"},
         \A d \in Cort : d # c => m_state'[d] = m_state[d],
         UNCHANGED runVars
  PROVE  OInv'
<1> USE DEF IInv, OInv
<1>1. ListUnique' /\ \A d \in Cort : Queued(d)' <=> Queued(d) \/ d = c
  BY PushCort DEF Settled
<1>2. \A d \in Cort, q \in Runners : Holds(q, d)' <=> Holds(q, d)
  BY DEF Holds, runVars
<1>3. \A q \in Runners : ~Holds(q, c)
  BY DEF Settled
<1>4. RunnerUnique' /\ Born' /\ Apart'
  BY <1>1, <1>2, <1>3 DEF RunnerUnique, Born, Apart, runVars
<1>5. Resumable'
  <2>1. \A q \in Runners : /\ coe[q].cort # c /\ coe[q].cort \in Cort \cup {Null}
                           /\ cb_coroutine[q] # c /\ cb_coroutine[q] \in Cort \cup {Null}
    BY <1>3 DEF Holds, TypeOK, Entry
  <2> QED BY <1>1, <2>1 DEF Resumable, runVars
<1> QED BY <1>1, <1>4, <1>5

(* Callbacks enter the list.                                               *)
LEMMA EnterCbs ==
  ASSUME IInv, OInv, NEW es \in Seq(Entry), \A i \in 1..Len(es) : es[i].cort = Null,
         Push(es), UNCHANGED <<runVars, cortVars>>
  PROVE  OInv'
<1> USE DEF IInv, OInv
<1>1. ListUnique' /\ \A d \in Cort : Queued(d)' <=> Queued(d)
  BY PushCbs
<1>2. \A d \in Cort, q \in Runners : Holds(q, d)' <=> Holds(q, d)
  BY DEF Holds, runVars
<1> QED BY <1>1, <1>2 DEF RunnerUnique, Born, Apart, Resumable, runVars, cortVars

(* schedule(), provided a sleeping coroutine is only woken once its thread *)
(* has let go of it.                                                       *)
LEMMA ScheduleOInv ==
  ASSUME "earlyWake" \notin Usage, IInv, OInv,
         NEW threads \in SUBSET (Runners \cup {Null}), Schedule(threads),
         UNCHANGED runVars
  PROVE  OInv'
<1>1. CASE \E t \in Task, th \in threads : ScheduleCb(t, th)
  <2>1. PICK t \in Task, th \in threads : ScheduleCb(t, th)
    BY <1>1
  <2> DEFINE es == <<CbEntry(t, th)>>
  <2>2. es \in Seq(Entry) /\ \A i \in 1..Len(es) : es[i].cort = Null
    BY EntryTypes DEF WellFormed
  <2>3. Push(es) /\ UNCHANGED cortVars
    BY <2>1 DEF ScheduleCb
  <2> HIDE DEF es
  <2> QED BY <2>2, <2>3, EnterCbs
<1>2. CASE \E t \in Task, c \in Cort, th \in threads : ScheduleCort(t, c, th)
  <2>1. PICK t \in Task, c \in Cort, th \in threads : ScheduleCort(t, c, th)
    BY <1>2
  <2>2. Settled(c)
    BY <2>1 DEF ScheduleCort, OInv, Born, Settled
  <2>3. m_state'[c] = "INIT" /\ \A d \in Cort : d # c => m_state'[d] = m_state[d]
    BY <2>1 DEF ScheduleCort, IInv, TypeOK
  <2>4. Push(<<CortEntry(c, th)>>)
    BY <2>1 DEF ScheduleCort
  <2> QED BY <2>2, <2>3, <2>4, EnterList
<1>3. CASE \E t1, t2 \in Task : ScheduleRange(t1, t2)
  <2>1. PICK t1, t2 \in Task : ScheduleRange(t1, t2)
    BY <1>3
  <2> DEFINE es == <<CbEntry(t1, Null), CbEntry(t2, Null)>>
  <2>2. es \in Seq(Entry) /\ \A i \in 1..Len(es) : es[i].cort = Null
    BY EntryTypes DEF WellFormed
  <2>3. Push(es) /\ UNCHANGED cortVars
    BY <2>1 DEF ScheduleRange
  <2> HIDE DEF es
  <2> QED BY <2>2, <2>3, EnterCbs
<1>4. CASE \E c \in Cort : Wake(c)
  <2>1. PICK c \in Cort : Wake(c)
    BY <1>4
  <2>2. Settled(c) /\ m_state[c] = "HOLD" /\ UNCHANGED m_state /\ Push(<<CortEntry(c, Null)>>)
    BY <2>1 DEF Wake, cortVars
  <2> QED BY <2>2, EnterList
<1> QED BY <1>1, <1>2, <1>3, <1>4 DEF Schedule

(* The caller, an outside thread and the tasks call schedule().            *)
LEMMA SchedulesOInv ==
  ASSUME "earlyWake" \notin Usage, IInv, OInv,
         \/ CallerSchedules
         \/ OutsideSchedules
         \/ \E r \in Runners : TaskSchedules(r)
         \/ \E c \in Cort : CallerSchedulesEnded(c)
  PROVE  OInv'
<1>1. CASE CallerSchedules
  BY <1>1, ScheduleOInv DEF CallerSchedules, KnownThreads
<1>4. CASE OutsideSchedules
  BY <1>4, ScheduleOInv DEF OutsideSchedules, KnownThreads
<1>2. CASE \E r \in Runners : TaskSchedules(r)
  <2>1. PICK r \in Runners : TaskSchedules(r)
    BY <1>2
  <2> DEFINE ths == {Null} \cup (IF "pin" \in Usage THEN {r} ELSE {})
                           \cup (IF "pinOther" \in Usage THEN KnownThreads ELSE {})
  <2>2. Schedule(ths) /\ UNCHANGED runVars
    BY <2>1 DEF TaskSchedules
  <2>3. ths \in SUBSET (Runners \cup {Null})
    BY DEF KnownThreads
  <2> HIDE DEF ths
  <2> QED BY <2>2, <2>3, ScheduleOInv
<1>3. CASE \E c \in Cort : CallerSchedulesEnded(c)
  <2>1. PICK c \in Cort : CallerSchedulesEnded(c)
    BY <1>3
  <2>2. /\ Settled(c) /\ m_state[c] \in Dead /\ UNCHANGED <<m_state, runVars>>
        /\ Push(<<CortEntry(c, Null)>>)
    BY <2>1 DEF CallerSchedulesEnded, cortVars
  <2> QED BY <2>2, EnterList DEF Dead
<1> QED BY <1>1, <1>2, <1>3, <1>4

(* start() and the root coroutine begin run() anew, with empty locals;     *)
(* the other steps of stop() touch no object.                              *)
LEMMA ControlOInv ==
  ASSUME IInv, OInv, Start \/ StopBegin \/ StopStep \/ Destroy
  PROVE  OInv'
<1> USE DEF IInv, OInv
<1>1. UNCHANGED <<m_coroutines, coe, m_state>>
  BY DEF Start, StopBegin, StopStep, StopAlone, StopFlag, StopRoot, RootBack, StopJoin,
         Destroy, queueVars, runVars, cortVars
<1>2. ASSUME NEW r \in Runners
      PROVE  \/ pc'[r] = pc[r] /\ cb_coroutine'[r] = cb_coroutine[r]
             \/ pc'[r] = "scan" /\ cb_coroutine'[r] = Null
  <2>1. CASE Start
    BY <2>1 DEF Start
  <2>2. CASE StopRoot
    BY <2>2 DEF StopRoot, runVars, TypeOK
  <2>3. CASE StopBegin \/ StopAlone \/ StopFlag \/ RootBack \/ StopJoin \/ Destroy
    BY <2>3 DEF StopBegin, StopAlone, StopFlag, RootBack, StopJoin, Destroy, runVars
  <2> QED BY <2>1, <2>2, <2>3 DEF StopStep
<1>3. \A d \in Cort : /\ Queued(d)' <=> Queued(d)
                      /\ \A q \in Runners : Holds(q, d)' => Holds(q, d)
  BY <1>1, <1>2, SchedulerAssumption DEF Queued, Holds
<1>4. ListUnique' /\ RunnerUnique' /\ Born'
  BY <1>1, <1>3 DEF ListUnique, RunnerUnique, Born
<1>5. Apart'
  BY <1>1, <1>2 DEF Apart
<1>6. Resumable'
  BY <1>1, <1>2, <1>3 DEF Resumable, OnCoroutine
<1> QED BY <1>4, <1>5, <1>6

-----------------------------------------------------------------------------
(* The theorems                                                            *)

(* No object exists when the scheduler is constructed.                     *)
LEMMA InitOInv == Init => OInv
BY SchedulerAssumption DEF Init, OInv, ListUnique, RunnerUnique, Born, Apart, Resumable,
   Queued, Holds, NoEntry

(* Every step preserves ownership.                                         *)
LEMMA NextOInv ==
  ASSUME "earlyWake" \notin Usage, IInv, OInv, [Next]_vars
  PROVE  OInv'
<1>1. CASE CallerStep
  BY <1>1, SchedulesOInv, ControlOInv DEF CallerStep
<1>2. CASE \E r \in Runners : RunLoop(r)
  BY <1>2, TakeOInv, QuietOInv, RunningOInv, RunCbOInv, AfterSwapOInv DEF RunLoop
<1>3. CASE \E r \in Runners : TaskStep(r)
  BY <1>3, SchedulesOInv, RunningOInv DEF TaskStep
<1>4. CASE UNCHANGED vars
  BY <1>4 DEF vars, queueVars, flagVars, runVars, cortVars, taskVars, OInv, ListUnique,
              RunnerUnique, Born, Apart, Resumable, Queued, Holds
<1> QED BY <1>1, <1>2, <1>3, <1>4 DEF Next, Finished

(* OInv holds in every reachable state.                                    *)
LEMMA AlwaysOInv ==
  ASSUME "earlyWake" \notin Usage
  PROVE  Spec => []OInv
<1>1. IInv /\ OInv /\ [Next]_vars => OInv'
  BY NextOInv
<1> QED BY <1>1, InitOInv, AlwaysIInv, PTL DEF Spec

(* A coroutine object is in one place at a time: one entry of the list or  *)
(* one runner, if a sleeping coroutine is woken only after its thread has  *)
(* let go of it.                                                           *)
THEOREM SingleHolder ==
  ASSUME "earlyWake" \notin Usage
  PROVE  Spec => []OneHolder
<1>1. OInv => OneHolder
  BY DEF OInv, ListUnique, RunnerUnique, OneHolder
<1> QED BY <1>1, AlwaysOInv, PTL

(* No two threads execute on the stack of one coroutine.                   *)
THEOREM NoSharedStack ==
  ASSUME "earlyWake" \notin Usage
  PROVE  Spec => []OneThreadPerStack
<1>1. IInv /\ OInv => OneThreadPerStack
  <2> SUFFICES ASSUME IInv, OInv, NEW r1 \in Runners, NEW r2 \in Runners,
                      pc[r1] \in {"exec", "out"}, pc[r2] \in {"exec", "out"},
                      Running(r1) = Running(r2)
               PROVE  r1 = r2
    BY DEF OneThreadPerStack
  <2>1. Running(r1) \in Cort
    BY RunningType DEF IInv, OnCoroutine
  <2>2. Holds(r1, Running(r1)) /\ Holds(r2, Running(r1))
    BY <2>1 DEF Running, Holds
  <2> QED BY <2>1, <2>2 DEF OInv, RunnerUnique
<1> QED BY <1>1, AlwaysIInv, AlwaysOInv, PTL

-----------------------------------------------------------------------------
(* No assertion fails; and the root coroutine waits, unused, until the     *)
(* first stop() calls it.                                                  *)
AInv ==
  /\ failed = "none"
  /\ UseCaller /\ ctl \in {"user", "stop1", "stop2", "stop3"} => m_rootState = "INIT"

(* Every step keeps the assertions of Coroutine, from ownership.           *)
LEMMA NextAInv ==
  ASSUME "restart" \notin Usage \/ ~UseCaller, IInv, OInv, AInv, [Next]_vars
  PROVE  AInv'
<1> USE DEF AInv
<1>1. CASE Start
  BY <1>1 DEF Start
<1>2. CASE CallerSchedules \/ OutsideSchedules \/ (\E c \in Cort : CallerSchedulesEnded(c))
  BY <1>2 DEF CallerSchedules, OutsideSchedules, CallerSchedulesEnded, flagVars
<1>3. CASE StopBegin \/ StopAlone \/ StopFlag \/ RootBack \/ StopJoin \/ Destroy
  BY <1>3 DEF StopBegin, StopAlone, StopFlag, RootBack, StopJoin, Destroy
<1>4. CASE StopRoot
  BY <1>4 DEF StopRoot, Dead
<1>5. ASSUME NEW r \in Runners, SwapIn(r) PROVE AInv'
  <2>1. m_state[coe[r].cort] # "EXEC"
    BY <1>5 DEF SwapIn, At, OInv, Resumable
  <2> QED BY <1>5, <2>1 DEF SwapIn, flagVars
<1>6. ASSUME NEW r \in Runners, RunCb(r) PROVE AInv'
  <2>1. pc[r] = "picked" /\ UNCHANGED flagVars
    BY <1>6 DEF RunCb, At
  <2>2. PICK c \in Cort :
          /\ IF cb_coroutine[r] = Null THEN m_state[c] = "NONE" ELSE c = cb_coroutine[r]
          /\ failed' = IF m_state[c] \in {"NONE", "INIT", "TERM", "EXCEPT"}
                       THEN "none" ELSE "reset"
    BY <1>6 DEF RunCb
  <2>3. m_state[c] \in {"NONE", "INIT"}
    BY <2>1, <2>2 DEF OInv, Resumable, OnCoroutine
  <2> QED BY <2>1, <2>2, <2>3 DEF flagVars
<1>7. ASSUME NEW r \in Runners, TaskStep(r) PROVE AInv'
  BY <1>7 DEF TaskStep, TaskSchedules, Yield, Sleep, Suspend, Return, Throw, flagVars
<1>8. ASSUME NEW r \in Runners,
             \/ Take(r) \/ FindNothing(r) \/ DropEnded(r) \/ SwapOut(r)
             \/ Requeue(r) \/ Retire(r) \/ Park(r) \/ IdleCheck(r) \/ IdleOut(r)
      PROVE  AInv'
  BY <1>8 DEF Take, FindNothing, DropEnded, SwapOut, Requeue, Retire, Park, IdleCheck,
              IdleOut, flagVars
<1>9. CASE UNCHANGED vars
  BY <1>9 DEF vars, flagVars
<1> QED BY <1>1, <1>2, <1>3, <1>4, <1>5, <1>6, <1>7, <1>8, <1>9
        DEF Next, CallerStep, StopStep, RunLoop, Finished

(* No MOCKER_ASSERT of run(), reset(), swapIn() and call() fails, if a     *)
(* sleeping coroutine is woken only after its thread has let go of it and  *)
(* a scheduler with use_caller is started once.                            *)
THEOREM AssertionsHold ==
  ASSUME "earlyWake" \notin Usage, "restart" \notin Usage \/ ~UseCaller
  PROVE  Spec => []NoAssertionFails
<1>1. Init => AInv
  BY DEF Init, AInv
<1>2. IInv /\ OInv /\ AInv /\ [Next]_vars => AInv'
  BY NextAInv
<1>3. AInv => NoAssertionFails
  BY DEF AInv, NoAssertionFails
<1> QED BY <1>1, <1>2, <1>3, AlwaysIInv, AlwaysOInv, PTL DEF Spec

=============================================================================
