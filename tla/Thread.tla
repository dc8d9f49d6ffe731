-------------------------------- MODULE Thread --------------------------------
(***************************************************************************)
(* mocker::Thread (mocker/thread.cpp) with its Semaphore (mutex.cpp), and  *)
(* the Scheduler's start() and stop() as far as they make, keep, join and  *)
(* destroy Thread objects (schedule.cpp).  One owner thread makes all the  *)
(* calls; the threads it creates execute Thread::Run().                    *)
(*                                                                         *)
(* What run() does is in module Scheduler: here a thread of the pool comes *)
(* back from it only after stop() has set m_stopping, and needs m_mutex,   *)
(* which start() holds until its last constructor has returned.            *)
(***************************************************************************)
EXTENDS Integers, Sequences, FiniteSets

CONSTANTS
  MaxThreads,  \* bound: Thread objects made
  MaxCount,    \* bound: threads of the pool
  MaxOwn,      \* bound: Thread objects the program makes for itself
  Faults       \* "create": pthread_create() may fail in start(); "signal":
               \* a signal may interrupt sem_wait()

ASSUME ThreadAssumption ==
  MaxThreads \in Nat /\ MaxCount \in Nat /\ MaxOwn \in Nat /\ Faults \subseteq {"create", "signal"}

VARIABLES
  obj,            \* the Thread objects, in the order they are made
  run,            \* where the thread of each object is in Thread::Run()
  reaped,         \* history: pthread_join() and pthread_detach() calls on it
  stray,          \* history: objects written to after they were destroyed
  m_threadCount,  \* Scheduler
  m_threads,      \* Scheduler: an object, or 0 for a null pointer
  m_threadIds,    \* Scheduler
  m_stopping,     \* Scheduler
  pc,             \* where the owner is
  slot,           \* its loop variable in start() and stop(), 0 outside start()
  cur,            \* the object it constructs
  thrs,           \* stop()'s local thrs
  broken          \* history: objects whose constructor threw, 0 if there was none

schedulerVars == <<m_threadCount, m_threads, m_threadIds, m_stopping>>
ownerVars == <<pc, slot, cur, thrs, broken>>
vars == <<obj, run, reaped, stray, schedulerVars, ownerVars>>

Object == 1..MaxThreads
ThreadObject == [life : {"none", "constructing", "built", "destroyed"}, pool : BOOLEAN,
                 m_id : Object \cup {-1}, m_thread : BOOLEAN, m_cb : BOOLEAN,
                 m_semaphore : 0..1]

(* The assertions of start() and ~Scheduler(), and a null pointer in stop().*)
Crashes == {"not empty", "not stopped", "null"}
Crashed == pc \in Crashes

(* One type for every variable.                                            *)
TypeOK ==
  /\ obj \in [Object -> ThreadObject]
  /\ run \in [Object -> {"none", "begin", "taken", "cb", "ended"}]
  /\ reaped \in [Object -> 0..2]
  /\ stray \subseteq Object
  /\ m_threadCount \in 0..MaxCount
  /\ m_threads \in Seq(Object \cup {0})
  /\ m_threadIds \in Seq(Object \cup {-1})
  /\ m_stopping \in BOOLEAN
  /\ pc \in {"user", "create", "wait", "join", "gone"} \cup Crashes
  /\ slot \in 0..(MaxCount + 1)
  /\ cur \in Object \cup {0}
  /\ thrs \in Seq(Object \cup {0})
  /\ broken \subseteq Object \cup {0}

Init ==
  /\ obj = [o \in Object |-> [life |-> "none", pool |-> FALSE, m_id |-> -1,
                              m_thread |-> FALSE, m_cb |-> FALSE, m_semaphore |-> 0]]
  /\ run = [o \in Object |-> "none"]
  /\ reaped = [o \in Object |-> 0]
  /\ stray = {}
  /\ m_threadCount \in 0..MaxCount
  /\ m_threads = <<>> /\ m_threadIds = <<>> /\ m_stopping = TRUE
  /\ pc = "user" /\ slot = 0 /\ cur = 0 /\ thrs = <<>> /\ broken = {}

Made == {o \in Object : obj[o].life # "none"}
Locked == pc \in {"create", "wait"} /\ slot > 0     \* start() holds m_mutex
Touch(o) == stray' = IF obj[o].life = "destroyed" THEN stray \cup {o} ELSE stray

-----------------------------------------------------------------------------
(* Semaphore                                                               *)

(* Mutants: the post is lost; wait() does not wait.                        *)
PostLost(o) == obj
PostedAlways(o) == TRUE

Post(o) == [obj EXCEPT ![o].m_semaphore = @ + 1]
Posted(o) == obj[o].m_semaphore > 0

-----------------------------------------------------------------------------
(* Thread::Thread()                                                        *)

Construct(o, pool) ==
  /\ o \notin Made /\ \A q \in 1..(o - 1) : q \in Made
  /\ obj' = [obj EXCEPT ![o].life = "constructing", ![o].pool = pool,
                        ![o].m_thread = TRUE, ![o].m_cb = TRUE]
  /\ run' = [run EXCEPT ![o] = "begin"]
  /\ cur' = o /\ pc' = "wait"
  /\ UNCHANGED <<reaped, stray, schedulerVars, thrs, broken>>

(* m_semaphore.wait() returns and so does the constructor; start() stores  *)
(* the object and asks it for its id.                                      *)
Wait ==
  /\ pc = "wait" /\ Posted(cur)
  /\ obj' = [obj EXCEPT ![cur].life = "built", ![cur].m_semaphore = @ - 1]
  /\ IF slot = 0
     THEN pc' = "user" /\ UNCHANGED <<m_threads, m_threadIds, slot>>
     ELSE /\ m_threads' = [m_threads EXCEPT ![slot] = cur]
          /\ m_threadIds' = Append(m_threadIds, obj[cur].m_id)
          /\ slot' = slot + 1 /\ pc' = "create"
  /\ UNCHANGED <<run, reaped, stray, m_threadCount, m_stopping, cur, thrs, broken>>

(* sem_wait() fails: the constructor throws, the object is freed, and the  *)
(* thread that was created goes on with it.                                *)
WaitFails ==
  /\ pc = "wait" /\ "signal" \in Faults
  /\ obj' = [obj EXCEPT ![cur].life = "destroyed"]
  /\ broken' = broken \cup {cur}
  /\ pc' = "user" /\ slot' = 0
  /\ UNCHANGED <<run, reaped, stray, schedulerVars, cur, thrs>>

-----------------------------------------------------------------------------
(* Thread::Run()                                                           *)

(* t_thread and m_id are set and m_cb is taken.                            *)
RunBegin(o) ==
  /\ ~Crashed /\ run[o] = "begin"
  /\ obj' = [obj EXCEPT ![o].m_id = o, ![o].m_cb = FALSE]
  /\ Touch(o)
  /\ run' = [run EXCEPT ![o] = "taken"]
  /\ UNCHANGED <<reaped, schedulerVars, ownerVars>>

RunNotify(o) ==
  /\ ~Crashed /\ run[o] = "taken"
  /\ obj' = Post(o)
  /\ Touch(o)
  /\ run' = [run EXCEPT ![o] = "cb"]
  /\ UNCHANGED <<reaped, schedulerVars, ownerVars>>

(* cb() calls Thread::SetCurrentName(), which writes through t_thread.     *)
SetCurrentName(o) ==
  /\ ~Crashed /\ run[o] = "cb"
  /\ Touch(o)
  /\ UNCHANGED <<obj, run, reaped, schedulerVars, ownerVars>>

RunEnd(o) ==
  /\ ~Crashed /\ run[o] = "cb"
  /\ obj[o].pool => m_stopping /\ ~Locked
  /\ run' = [run EXCEPT ![o] = "ended"]
  /\ UNCHANGED <<obj, reaped, stray, schedulerVars, ownerVars>>

-----------------------------------------------------------------------------
(* Mutants: join() does not wait; it leaves m_thread as it is.             *)
EndedAlways(o) == TRUE
NoThreadForgotten(o) == obj

(* Thread::join() waits for the thread and clears m_thread.                *)
Ended(o) == run[o] = "ended"
NoThread(o) == [obj EXCEPT ![o].m_thread = FALSE]

-----------------------------------------------------------------------------
(* A Thread of the program's own                                           *)

NewThread ==
  /\ pc = "user" /\ Cardinality({o \in Made : ~obj[o].pool}) < MaxOwn
  /\ \E o \in Object : Construct(o, FALSE)
  /\ UNCHANGED slot

Own(o) == pc = "user" /\ obj[o].life = "built" /\ ~obj[o].pool

(* join(): the second time it does nothing.                                *)
JoinOwn(o) ==
  /\ Own(o) /\ obj[o].m_thread /\ Ended(o)
  /\ obj' = NoThread(o)
  /\ reaped' = [reaped EXCEPT ![o] = @ + 1]
  /\ UNCHANGED <<run, stray, schedulerVars, ownerVars>>

(* Thread::~Thread(): a thread that was not joined is detached.            *)
DestroyOwn(o) ==
  /\ Own(o)
  /\ obj' = [obj EXCEPT ![o].life = "destroyed"]
  /\ reaped' = [reaped EXCEPT ![o] = @ + IF obj[o].m_thread THEN 1 ELSE 0]
  /\ UNCHANGED <<run, stray, schedulerVars, ownerVars>>

-----------------------------------------------------------------------------
(* The Scheduler                                                           *)

Room == \A o \in Object : o \notin Made \/ o + m_threadCount <= MaxThreads

(* Mutant of MayStart: start() does not look at m_stopping.                *)
MayStartAlways == TRUE

MayStart == m_stopping

(* start(), with MOCKER_ASSERT(m_threads.empty()).  Without m_stopping it  *)
(* returns at once.                                                        *)
Start ==
  /\ pc = "user" /\ MayStart /\ Room
  /\ m_stopping' = FALSE
  /\ m_threads' = [i \in 1..m_threadCount |-> 0]
  /\ pc' = IF m_threads = <<>> THEN "create" ELSE "not empty"
  /\ slot' = 1
  /\ UNCHANGED <<obj, run, reaped, stray, m_threadCount, m_threadIds, cur, thrs, broken>>

Create ==
  /\ pc = "create" /\ slot <= m_threadCount
  /\ \E o \in Object : Construct(o, TRUE)
  /\ UNCHANGED slot

(* pthread_create() fails: the exception leaves start(), and m_mutex.      *)
CreateFails ==
  /\ pc = "create" /\ slot <= m_threadCount /\ "create" \in Faults
  /\ broken' = broken \cup {0}
  /\ pc' = "user" /\ slot' = 0
  /\ UNCHANGED <<obj, run, reaped, stray, schedulerVars, cur, thrs>>

StartEnd ==
  /\ pc = "create" /\ slot > m_threadCount
  /\ pc' = "user" /\ slot' = 0
  /\ UNCHANGED <<obj, run, reaped, stray, schedulerVars, cur, thrs, broken>>

(* stop() up to its last loop.                                             *)
Stop ==
  /\ pc = "user"
  /\ m_stopping' = TRUE
  /\ thrs' = m_threads /\ m_threads' = <<>>
  /\ pc' = "join" /\ slot' = 1
  /\ UNCHANGED <<obj, run, reaped, stray, m_threadCount, m_threadIds, cur, broken>>

(* thr->join() for each of thrs; one that is null is dereferenced.         *)
Join ==
  /\ pc = "join" /\ slot <= Len(thrs)
  /\ LET o == thrs[slot] IN
       \/ /\ o = 0 /\ pc' = "null"
          /\ UNCHANGED <<obj, reaped, slot>>
       \/ /\ o # 0 /\ Ended(o)
          /\ obj' = NoThread(o)
          /\ reaped' = [reaped EXCEPT ![o] = @ + 1]
          /\ slot' = slot + 1
          /\ UNCHANGED pc
  /\ UNCHANGED <<run, stray, schedulerVars, cur, thrs, broken>>

(* stop() returns and thrs goes, with the objects in it.                   *)
StopEnd ==
  /\ pc = "join" /\ slot > Len(thrs)
  /\ LET gone == {thrs[i] : i \in DOMAIN thrs} IN
       /\ obj' = [o \in Object |-> IF o \in gone THEN [obj[o] EXCEPT !.life = "destroyed"]
                                   ELSE obj[o]]
       /\ reaped' = [o \in Object |->
                       reaped[o] + IF o \in gone /\ obj[o].m_thread THEN 1 ELSE 0]
  /\ thrs' = <<>> /\ pc' = "user" /\ slot' = 0
  /\ UNCHANGED <<run, stray, schedulerVars, cur, broken>>

(* ~Scheduler(), with MOCKER_ASSERT(m_stopping).                           *)
Destroy ==
  /\ pc = "user"
  /\ pc' = IF m_stopping THEN "gone" ELSE "not stopped"
  /\ UNCHANGED <<obj, run, reaped, stray, schedulerVars, slot, cur, thrs, broken>>

-----------------------------------------------------------------------------
OwnerStep == Wait \/ Create \/ StartEnd \/ Join \/ StopEnd
Fault == WaitFails \/ CreateFails
RunStep(o) == RunBegin(o) \/ RunNotify(o) \/ RunEnd(o)
Finished == (pc = "gone" \/ Crashed) /\ UNCHANGED vars

Next ==
  \/ OwnerStep \/ Fault \/ NewThread \/ Start \/ Stop \/ Destroy \/ Finished
  \/ \E o \in Object : RunStep(o) \/ SetCurrentName(o) \/ JoinOwn(o) \/ DestroyOwn(o)

Spec == Init /\ [][Next]_vars

(* Threads run, and run() returns once stop() has been called.             *)
FairSpec == Spec /\ WF_vars(OwnerStep) /\ \A o \in Object : WF_vars(RunStep(o))

-----------------------------------------------------------------------------
(* Properties                                                              *)

(* thread.cpp:52, 84: when a constructor has returned the new thread has   *)
(* set the id and taken the function, so the ids start() collects are      *)
(* those of threads and never -1.                                          *)
IdsKnown ==
  /\ \A o \in Object : obj[o].life = "built" => obj[o].m_id = o /\ ~obj[o].m_cb
  /\ \A i \in DOMAIN m_threadIds : m_threadIds[i] # -1

(* thread.cpp:29-34, 73-88: a thread writes to its Thread object after it  *)
(* was destroyed only when its constructor threw, or when the program      *)
(* destroyed an object of its own without joining it.                      *)
NoStrayWrite ==
  \A o \in stray : o \in broken \/ (~obj[o].pool /\ obj[o].m_thread)

(* thread.cpp:55-71: every thread is joined or detached, and not twice,    *)
(* by the time its object is destroyed; none of the pool is left behind.   *)
ReapedOnce ==
  /\ \A o \in Object : reaped[o] <= 1
  /\ \A o \in Object \ broken : obj[o].life = "destroyed" => reaped[o] = 1
  /\ pc = "gone" => \A o \in Made : obj[o].pool => obj[o].life = "destroyed"

(* schedule.cpp:44, 58, 125: however often the program starts and stops,   *)
(* the threads of one start() are gone when the next one begins, and a     *)
(* null pointer is joined only after start() could not make a thread;      *)
(* after that the Scheduler cannot be stopped and destroyed any more.      *)
StartFailed == 0 \in broken \/ \E o \in broken \cap Object : obj[o].pool
CrashAfterFailureOnly ==
  /\ pc # "not empty"
  /\ pc = "null" => StartFailed
  /\ StartFailed => pc # "gone"

(* schedule.cpp:53-66, 125: start() and stop() return: start() waits for   *)
(* each new thread with m_mutex held, and no new thread needs it before    *)
(* it has let the constructor go on.                                       *)
CallsReturn == pc \in {"create", "wait", "join"} ~> pc = "user" \/ Crashed

=============================================================================
