----------------------------- MODULE ThreadProofs -----------------------------
(***************************************************************************)
(* IdsKnown, NoStrayWrite, ReapedOnce and CrashAfterFailureOnly for any    *)
(* number of threads, restarts and failures, and that nobody waits for a   *)
(* thread that cannot go on.                                               *)
(*                                                                         *)
(* The invariant ties three views of a Thread object together: where its   *)
(* thread is in Run(), what its members say, and which pointer of the      *)
(* Scheduler, if any, leads to it.                                         *)
(***************************************************************************)
EXTENDS Thread, TLAPS

(* The constructor and its thread: before the post the constructor still   *)
(* waits, or has thrown; from then on id and function are settled.         *)
Handshake ==
  \A o \in Object :
    /\ obj[o].life = "none" <=> run[o] = "none"
    /\ run[o] \in {"none", "begin", "taken"} => obj[o].m_semaphore = 0
    /\ run[o] \in {"begin", "taken"} => obj[o].life = "constructing" \/ o \in broken
    /\ run[o] \in {"taken", "cb", "ended"} => obj[o].m_id = o /\ ~obj[o].m_cb
    /\ obj[o].life = "constructing" => pc = "wait" /\ cur = o

(* m_thread is what decides between join() and detach: it is set as long   *)
(* as neither has happened.                                                *)
Custody ==
  \A o \in Object :
    /\ o \in broken \cup stray => obj[o].life = "destroyed"
    /\ obj[o].life = "none" => reaped[o] = 0
    /\ obj[o].life = "constructing" => obj[o].m_thread
    /\ obj[o].life \in {"constructing", "built"} => reaped[o] = IF obj[o].m_thread THEN 0 ELSE 1
    /\ obj[o].life = "destroyed" => reaped[o] = IF o \in broken THEN 0 ELSE 1
    /\ obj[o].life # "none" /\ ~obj[o].m_thread => run[o] = "ended"
    /\ obj[o].life = "destroyed" /\ obj[o].pool /\ o \notin broken => ~obj[o].m_thread

(* An object of the pool that nobody has joined.                           *)
Unjoined(o) == o # 0 => obj[o].life = "built" /\ obj[o].pool /\ obj[o].m_thread
Joined(o) == o # 0 /\ obj[o].life = "built" /\ obj[o].pool /\ ~obj[o].m_thread

NoRepeats(s) ==
  \A i, j \in DOMAIN s : i # j /\ s[i] # 0 => s[i] # s[j]

(* The Scheduler's pointers: m_threads, and in stop() its local thrs, lead *)
(* to the pool's objects, each to another; join() has dealt with those     *)
(* before slot.                                                            *)
Pointers ==
  /\ NoRepeats(m_threads) /\ NoRepeats(thrs)
  /\ \A i \in DOMAIN m_threads : Unjoined(m_threads[i])
  /\ \A i \in DOMAIN thrs : IF i < slot THEN Joined(thrs[i]) ELSE Unjoined(thrs[i])
  /\ \A o \in Object : obj[o].life = "built" /\ obj[o].pool =>
       (\E i \in DOMAIN m_threads : m_threads[i] = o) \/ (\E i \in DOMAIN thrs : thrs[i] = o)

(* Where the owner is, and what it has in hand there.                      *)
Owner ==
  /\ pc \notin {"join", "null"} => thrs = <<>>
  /\ m_stopping => m_threads = <<>>
  /\ Len(m_threads) <= MaxCount /\ Len(thrs) <= MaxCount
  /\ pc \in {"user", "gone"} => slot = 0
  /\ pc = "gone" => m_stopping
  /\ pc = "create" => slot > 0
  /\ pc \in {"create", "wait"} /\ slot > 0 =>
       /\ ~m_stopping /\ Len(m_threads) = m_threadCount /\ slot <= m_threadCount + 1
       /\ \A i \in DOMAIN m_threads : i >= slot => m_threads[i] = 0
  /\ pc = "wait" => cur \in Object /\ obj[cur].life = "constructing"
                    /\ (obj[cur].pool <=> slot > 0) /\ slot <= m_threadCount
  /\ pc \in {"join", "null"} => slot > 0 /\ slot <= Len(thrs) + 1 /\ m_stopping

(* A null pointer stays where start() failed, and only there.              *)
NullPointers ==
  /\ \A i \in DOMAIN m_threads : m_threads[i] = 0 =>
       StartFailed \/ (pc \in {"create", "wait"} /\ slot > 0 /\ i >= slot)
  /\ \A i \in DOMAIN thrs : thrs[i] = 0 => StartFailed
  /\ StartFailed =>
       \/ ~m_stopping /\ ~(pc \in {"create", "wait"} /\ slot > 0)
          /\ \E i \in DOMAIN m_threads : m_threads[i] = 0
       \/ pc \in {"join", "null"} /\ \E i \in DOMAIN thrs : i >= slot /\ thrs[i] = 0
  /\ pc # "not empty"
  /\ pc = "null" => StartFailed

Ids == \A i \in DOMAIN m_threadIds : m_threadIds[i] # -1

IInv ==
  /\ TypeOK /\ Handshake /\ Custody /\ Pointers /\ Owner /\ NullPointers /\ Ids
  /\ NoStrayWrite

-----------------------------------------------------------------------------
(* Thread::Run(): what its steps leave alone                               *)

(* No step of a thread changes who holds its object, or how far the owner  *)
(* is.                                                                     *)
Standing ==
  /\ \A q \in Object : /\ obj'[q].life = obj[q].life /\ obj'[q].pool = obj[q].pool
                       /\ obj'[q].m_thread = obj[q].m_thread
  /\ UNCHANGED <<reaped, schedulerVars, ownerVars>>

LEMMA StandingKeeps ==
  ASSUME IInv, Standing
  PROVE  Pointers' /\ Owner' /\ NullPointers' /\ Ids'
<1> USE DEF Standing, schedulerVars, ownerVars
<1>1. \A i \in DOMAIN m_threads : m_threads[i] \in Object \cup {0}
  BY DEF IInv, TypeOK
<1>2. \A i \in DOMAIN thrs : thrs[i] \in Object \cup {0}
  BY DEF IInv, TypeOK
<1>3. \A p \in Object \cup {0} : (Unjoined(p)' <=> Unjoined(p)) /\ (Joined(p)' <=> Joined(p))
  BY DEF Unjoined, Joined
<1>4. Pointers'
  <2>1. NoRepeats(m_threads)' /\ NoRepeats(thrs)'
    BY DEF IInv, Pointers, NoRepeats
  <2>2. \A i \in DOMAIN m_threads : Unjoined(m_threads[i])'
    BY <1>1, <1>3 DEF IInv, Pointers
  <2>3. \A i \in DOMAIN thrs : IF i < slot THEN Joined(thrs[i])' ELSE Unjoined(thrs[i])'
    BY <1>2, <1>3 DEF IInv, Pointers
  <2>4. \A o \in Object : obj'[o].life = "built" /\ obj'[o].pool =>
          (\E i \in DOMAIN m_threads : m_threads[i] = o) \/ (\E i \in DOMAIN thrs : thrs[i] = o)
    BY DEF IInv, Pointers
  <2> QED BY <2>1, <2>2, <2>3, <2>4 DEF Pointers
<1>5. Owner'
  BY DEF IInv, Owner
<1>6. StartFailed' <=> StartFailed
  BY DEF StartFailed
<1>7. NullPointers'
  BY <1>6 DEF IInv, NullPointers
<1>8. Ids'
  BY DEF IInv, Ids
<1> QED BY <1>4, <1>5, <1>7, <1>8

(* A thread writes to an object that is destroyed under it only when its   *)
(* constructor threw or the program destroyed it unjoined: one the owner   *)
(* has joined is no longer used.                                           *)
LEMMA TouchKeeps ==
  ASSUME IInv, Standing, NEW o \in Object, Touch(o), run[o] \notin {"none", "ended"}
  PROVE  /\ stray' \subseteq Object
         /\ \A q \in stray' : obj[q].life = "destroyed"
         /\ NoStrayWrite'
<1>1. stray \subseteq Object /\ obj[o].m_thread \in BOOLEAN /\ obj[o].pool \in BOOLEAN
  BY DEF IInv, TypeOK, ThreadObject
<1>2. stray' \subseteq Object
  BY <1>1 DEF Touch
<1>3. \A q \in stray' : (q = o /\ obj[o].life = "destroyed") \/ q \in stray
  BY DEF Touch
<1>4. \A q \in stray : obj[q].life = "destroyed"
  BY <1>1 DEF IInv, Custody
<1>5. obj[o].life = "destroyed" => o \in broken \/ (~obj[o].pool /\ obj[o].m_thread)
  BY <1>1 DEF IInv, Custody
<1>6. \A q \in stray' : q \in broken \/ (~obj[q].pool /\ obj[q].m_thread)
  BY <1>3, <1>5 DEF IInv, NoStrayWrite
<1>7. NoStrayWrite'
  BY <1>2, <1>6 DEF NoStrayWrite, Standing, ownerVars
<1> QED BY <1>2, <1>3, <1>4, <1>7

LEMMA RunBeginStep ==
  ASSUME IInv, NEW o \in Object, RunBegin(o)
  PROVE  IInv'
<1>1. obj \in [Object -> ThreadObject] /\ run[o] = "begin"
  BY DEF IInv, TypeOK, RunBegin
<1>2. /\ obj'[o] = [obj[o] EXCEPT !.m_id = o, !.m_cb = FALSE]
      /\ \A q \in Object : q # o => obj'[q] = obj[q]
      /\ obj' \in [Object -> ThreadObject]
  BY <1>1 DEF RunBegin, ThreadObject
<1>3. /\ obj'[o].life = obj[o].life /\ obj'[o].m_semaphore = obj[o].m_semaphore
      /\ obj'[o].m_id = o /\ ~obj'[o].m_cb
      /\ obj'[o].pool = obj[o].pool /\ obj'[o].m_thread = obj[o].m_thread
  BY <1>1, <1>2 DEF ThreadObject
<1>4. Standing
  BY <1>2, <1>3 DEF Standing, RunBegin
<1>5. Pointers' /\ Owner' /\ NullPointers' /\ Ids'
  BY <1>4, StandingKeeps
<1>6. stray' \subseteq Object /\ (\A q \in stray' : obj[q].life = "destroyed") /\ NoStrayWrite'
  BY <1>1, <1>4, TouchKeeps DEF RunBegin
<1>7. /\ run'[o] = "taken" /\ \A q \in Object : q # o => run'[q] = run[q]
      /\ run' \in [Object -> {"none", "begin", "taken", "cb", "ended"}]
  BY DEF IInv, TypeOK, RunBegin
<1>8. TypeOK'
  BY <1>2, <1>6, <1>7 DEF IInv, TypeOK, RunBegin, schedulerVars, ownerVars
<1>9. Handshake'
  BY <1>1, <1>2, <1>3, <1>7 DEF IInv, Handshake, RunBegin, ownerVars
<1>10. Custody'
  BY <1>1, <1>2, <1>3, <1>6, <1>7 DEF IInv, Custody, RunBegin, ownerVars
<1> QED BY <1>5, <1>6, <1>8, <1>9, <1>10 DEF IInv

LEMMA RunNotifyStep ==
  ASSUME IInv, NEW o \in Object, RunNotify(o)
  PROVE  IInv'
<1>1. obj \in [Object -> ThreadObject] /\ run[o] = "taken"
  BY DEF IInv, TypeOK, RunNotify
<1>2. obj[o].m_semaphore = 0 
  BY <1>1 DEF IInv, Handshake
<1>3. /\ \A q \in Object : q # o => obj'[q] = obj[q]
      /\ obj' \in [Object -> ThreadObject]
  BY <1>1, <1>2 DEF RunNotify, Post, ThreadObject
<1>4. /\ obj'[o].life = obj[o].life /\ obj'[o].m_id = obj[o].m_id
      /\ obj'[o].m_cb = obj[o].m_cb /\ obj'[o].pool = obj[o].pool
      /\ obj'[o].m_thread = obj[o].m_thread
  BY <1>1, <1>2 DEF RunNotify, Post, ThreadObject
<1>5. Standing
  BY <1>3, <1>4 DEF Standing, RunNotify
<1>6. Pointers' /\ Owner' /\ NullPointers' /\ Ids'
  BY <1>5, StandingKeeps
<1>7. stray' \subseteq Object /\ (\A q \in stray' : obj[q].life = "destroyed") /\ NoStrayWrite'
  BY <1>1, <1>5, TouchKeeps DEF RunNotify
<1>8. /\ run'[o] = "cb" /\ \A q \in Object : q # o => run'[q] = run[q]
      /\ run' \in [Object -> {"none", "begin", "taken", "cb", "ended"}]
  BY DEF IInv, TypeOK, RunNotify
<1>9. TypeOK'
  BY <1>3, <1>7, <1>8 DEF IInv, TypeOK, RunNotify, schedulerVars, ownerVars
<1>10. UNCHANGED <<reaped, pc, cur, broken>>
  BY DEF RunNotify, ownerVars
<1>11. Handshake'
  BY <1>1, <1>3, <1>4, <1>8, <1>10 DEF IInv, Handshake
<1>12. Custody'
  BY <1>1, <1>3, <1>4, <1>7, <1>8, <1>10 DEF IInv, Custody
<1> QED BY <1>6, <1>7, <1>9, <1>11, <1>12 DEF IInv

LEMMA SetCurrentNameStep ==
  ASSUME IInv, NEW o \in Object, SetCurrentName(o)
  PROVE  IInv'
<1>1. Standing /\ UNCHANGED <<obj, run>> /\ run[o] = "cb"
  BY DEF Standing, SetCurrentName
<1>2. Pointers' /\ Owner' /\ NullPointers' /\ Ids'
  BY <1>1, StandingKeeps
<1>3. stray' \subseteq Object /\ (\A q \in stray' : obj[q].life = "destroyed") /\ NoStrayWrite'
  BY <1>1, TouchKeeps DEF SetCurrentName
<1>4. TypeOK'
  BY <1>1, <1>3 DEF IInv, TypeOK, SetCurrentName, schedulerVars, ownerVars
<1>5. Handshake' 
  BY <1>1 DEF IInv, Handshake, SetCurrentName, ownerVars
<1>6. Custody'
  BY <1>1, <1>3 DEF IInv, Custody, SetCurrentName, ownerVars
<1> QED BY <1>2, <1>3, <1>4, <1>5, <1>6 DEF IInv

LEMMA RunEndStep ==
  ASSUME IInv, NEW o \in Object, RunEnd(o)
  PROVE  IInv'
<1>1. Standing /\ UNCHANGED <<obj, stray>> /\ run[o] = "cb"
  BY DEF Standing, RunEnd
<1>2. Pointers' /\ Owner' /\ NullPointers' /\ Ids'
  BY <1>1, StandingKeeps
<1>3. /\ run'[o] = "ended" /\ \A q \in Object : q # o => run'[q] = run[q]
      /\ run' \in [Object -> {"none", "begin", "taken", "cb", "ended"}]
  BY DEF IInv, TypeOK, RunEnd
<1>4. TypeOK'
  BY <1>1, <1>3 DEF IInv, TypeOK, RunEnd, schedulerVars, ownerVars
<1>5. Handshake'
  BY <1>1, <1>3 DEF IInv, Handshake, RunEnd, ownerVars
<1>6. Custody'
  BY <1>1, <1>3 DEF IInv, Custody, RunEnd, ownerVars
<1>7. NoStrayWrite'
  BY <1>1 DEF IInv, NoStrayWrite, RunEnd, ownerVars
<1> QED BY <1>2, <1>4, <1>5, <1>6, <1>7 DEF IInv

-----------------------------------------------------------------------------
(* The program's own threads                                               *)

LEMMA JoinOwnStep ==
  ASSUME IInv, NEW o \in Object, JoinOwn(o)
  PROVE  IInv'
<1> USE DEF JoinOwn, Own, Ended, NoThread, schedulerVars, ownerVars
<1>1. reaped[o] = 0
  BY DEF IInv, Custody
<1>2. TypeOK'
  <2>1. obj' \in [Object -> ThreadObject]
    BY DEF IInv, TypeOK, ThreadObject
  <2>2. reaped' \in [Object -> 0..2]
    BY <1>1 DEF IInv, TypeOK
  <2> QED BY <2>1, <2>2 DEF IInv, TypeOK
<1>3. Handshake'
  BY DEF IInv, TypeOK, ThreadObject, Handshake
<1>4. Custody'
  BY <1>1 DEF IInv, TypeOK, ThreadObject, Custody
<1>5. Pointers'
  BY DEF IInv, TypeOK, ThreadObject, Owner, Pointers, NoRepeats, Unjoined, Joined
<1>6. Owner'
  BY DEF IInv, TypeOK, ThreadObject, Owner
<1>7. NullPointers'
  BY DEF IInv, TypeOK, ThreadObject, NullPointers, StartFailed
<1>8. Ids' /\ NoStrayWrite'
  BY DEF IInv, TypeOK, ThreadObject, Ids, Custody, NoStrayWrite
<1> QED BY <1>2, <1>3, <1>4, <1>5, <1>6, <1>7, <1>8 DEF IInv

LEMMA DestroyOwnStep ==
  ASSUME IInv, NEW o \in Object, DestroyOwn(o)
  PROVE  IInv'
<1> USE DEF DestroyOwn, Own, schedulerVars, ownerVars
<1>1. obj[o].m_thread \in BOOLEAN /\ o \notin broken
      /\ reaped[o] = IF obj[o].m_thread THEN 0 ELSE 1
  BY DEF IInv, TypeOK, ThreadObject, Custody
<1>2. TypeOK'
  <2>1. obj' \in [Object -> ThreadObject]
    BY DEF IInv, TypeOK, ThreadObject
  <2>2. reaped' \in [Object -> 0..2]
    BY <1>1 DEF IInv, TypeOK
  <2> QED BY <2>1, <2>2 DEF IInv, TypeOK
<1>3. Handshake'
  BY DEF IInv, TypeOK, ThreadObject, Handshake
<1>4. Custody'
  BY <1>1 DEF IInv, TypeOK, ThreadObject, Custody
<1>5. Pointers'
  BY DEF IInv, TypeOK, ThreadObject, Owner, Pointers, NoRepeats, Unjoined, Joined
<1>6. Owner'
  BY DEF IInv, TypeOK, ThreadObject, Owner
<1>7. NullPointers'
  BY DEF IInv, TypeOK, ThreadObject, NullPointers, StartFailed
<1>8. Ids' /\ NoStrayWrite'
  BY DEF IInv, TypeOK, ThreadObject, Ids, Custody, NoStrayWrite
<1> QED BY <1>2, <1>3, <1>4, <1>5, <1>6, <1>7, <1>8 DEF IInv

-----------------------------------------------------------------------------
(* The constructor                                                         *)

(* A new object is known to nobody before.                                 *)
LEMMA ConstructStep ==
  ASSUME IInv, NEW o \in Object, NEW pool \in BOOLEAN, Construct(o, pool), UNCHANGED slot,
         pool <=> slot > 0, slot <= m_threadCount, pc \in {"user", "create"}
  PROVE  IInv'
<1> USE DEF Construct, schedulerVars
<1>1. obj[o].life = "none" /\ run[o] = "none" /\ o \notin broken /\ reaped[o] = 0
      /\ o \notin stray /\ slot \in Nat
  BY DEF IInv, TypeOK, Custody, Handshake, Made
<1>2. /\ obj' \in [Object -> ThreadObject] /\ obj'[o].life = "constructing"
      /\ (obj'[o].pool <=> pool) /\ obj'[o].m_thread
      /\ obj'[o].m_semaphore = obj[o].m_semaphore
      /\ \A q \in Object : q # o => obj'[q] = obj[q]
  <2> DEFINE new == [obj[o] EXCEPT !.life = "constructing", !.pool = pool,
                                   !.m_thread = TRUE, !.m_cb = TRUE]
  <2>1. obj \in [Object -> ThreadObject]
    BY DEF IInv, TypeOK
  <2>2. obj' = [obj EXCEPT ![o] = new]
    BY <2>1 DEF ThreadObject
  <2>3. /\ new \in ThreadObject /\ new.life = "constructing" /\ new.pool = pool
        /\ new.m_thread /\ new.m_semaphore = obj[o].m_semaphore
    BY <2>1 DEF ThreadObject
  <2>4. new.pool <=> pool
    BY <2>1 DEF ThreadObject
  <2> HIDE DEF new
  <2>5. obj'[o] = new /\ \A q \in Object : q # o => obj'[q] = obj[q]
    BY <2>1, <2>2
  <2>6. obj' \in [Object -> ThreadObject]
    BY <2>1, <2>2, <2>3
  <2> QED BY <2>3, <2>4, <2>5, <2>6
<1>3. run' \in [Object -> {"none", "begin", "taken", "cb", "ended"}] /\ run'[o] = "begin"
      /\ \A q \in Object : q # o => run'[q] = run[q]
  BY DEF IInv, TypeOK
<1>4. TypeOK'
  BY <1>2, <1>3 DEF IInv, TypeOK
<1>5. Handshake'
  BY <1>1, <1>2, <1>3 DEF IInv, Handshake
<1>6. Custody'
  BY <1>1, <1>2, <1>3 DEF IInv, Custody
<1>7. Pointers'
  BY <1>1, <1>2 DEF IInv, TypeOK, Pointers, NoRepeats, Unjoined, Joined
<1>8. Owner'
  BY <1>1, <1>2 DEF IInv, Owner
<1>9. StartFailed' <=> StartFailed
  BY <1>1, <1>2 DEF StartFailed
<1>10. NullPointers'
  <2>1. pc' \in {"create", "wait"} /\ slot' > 0 <=> pc \in {"create", "wait"} /\ slot > 0
    BY <1>1 DEF IInv, Owner
  <2>2. UNCHANGED <<m_threads, thrs, m_stopping, slot>> /\ pc' = "wait"
    OBVIOUS
  <2>3. /\ pc \notin {"join", "null"}
        /\ \A i \in DOMAIN m_threads : m_threads[i] = 0 =>
             StartFailed \/ (pc \in {"create", "wait"} /\ slot > 0 /\ i >= slot)
        /\ \A i \in DOMAIN thrs : thrs[i] = 0 => StartFailed
        /\ StartFailed => /\ ~m_stopping /\ ~(pc \in {"create", "wait"} /\ slot > 0)
                          /\ \E i \in DOMAIN m_threads : m_threads[i] = 0
    BY DEF IInv, NullPointers
  <2> HIDE DEF Construct
  <2> QED BY <1>9, <2>1, <2>2, <2>3 DEF NullPointers
<1>11. Ids' /\ NoStrayWrite'
  BY <1>1, <1>2 DEF IInv, TypeOK, Ids, NoStrayWrite
<1> QED BY <1>4, <1>5, <1>6, <1>7, <1>8, <1>10, <1>11 DEF IInv

LEMMA NewThreadStep ==
  ASSUME IInv, NewThread
  PROVE  IInv'
<1>1. PICK o \in Object : Construct(o, FALSE)
  BY DEF NewThread
<1>2. slot = 0 /\ m_threadCount \in Nat
  BY DEF IInv, TypeOK, Owner, NewThread
<1>3. (FALSE <=> slot > 0) /\ slot <= m_threadCount
  BY <1>2
<1> QED BY <1>1, <1>3, ConstructStep DEF NewThread

LEMMA CreateStep ==
  ASSUME IInv, Create
  PROVE  IInv'
<1>1. PICK o \in Object : Construct(o, TRUE)
  BY DEF Create
<1>2. slot > 0
  BY DEF IInv, Owner, Create
<1> QED BY <1>1, <1>2, ConstructStep DEF Create

(* The constructor returns: its thread has posted, so the id is known, and *)
(* start() puts the object where a null pointer was.                       *)
LEMMA WaitStep ==
  ASSUME IInv, Wait
  PROVE  IInv'
<1> USE DEF schedulerVars
<1>1. /\ cur \in Object /\ obj[cur].life = "constructing" /\ obj[cur].m_semaphore = 1
      /\ slot \in Nat /\ slot <= m_threadCount /\ slot <= MaxCount /\ pc = "wait" /\ thrs = <<>>
      /\ cur \notin stray /\ cur \notin broken
  BY DEF IInv, TypeOK, ThreadObject, Owner, Custody, Wait, Posted
<1>2. obj[cur].m_id = cur /\ ~obj[cur].m_cb /\ run[cur] \in {"cb", "ended"} /\ cur # -1
  BY <1>1 DEF IInv, TypeOK, Handshake, Object
<1>3. /\ \A q \in Object : q # cur => obj'[q] = obj[q]
      /\ obj' \in [Object -> ThreadObject]
      /\ obj'[cur].life = "built" /\ obj'[cur].m_id = cur /\ ~obj'[cur].m_cb
      /\ obj'[cur].pool = obj[cur].pool /\ obj'[cur].m_thread = obj[cur].m_thread
  BY <1>1, <1>2 DEF IInv, TypeOK, ThreadObject, Wait
<1>4. UNCHANGED <<run, reaped, stray, m_threadCount, m_stopping, cur, thrs, broken>>
  BY DEF Wait
<1>5. Handshake'
  BY <1>1, <1>2, <1>3, <1>4 DEF IInv, Handshake
<1>6. Custody'
  BY <1>1, <1>3, <1>4 DEF IInv, Custody
<1>7. NoStrayWrite'
  BY <1>1, <1>3, <1>4 DEF IInv, TypeOK, NoStrayWrite
<1>8. StartFailed' <=> StartFailed
  BY <1>1, <1>3, <1>4 DEF StartFailed
<1>9. CASE slot = 0
  <2>1. UNCHANGED <<m_threads, m_threadIds, slot>> /\ pc' = "user"
    BY <1>9 DEF Wait
  <2>2. TypeOK'
    BY <1>3, <1>4, <2>1 DEF IInv, TypeOK
  <2>3. Pointers'
    <3>1. ~obj[cur].pool /\ ~obj'[cur].pool
      BY <1>1, <1>3, <1>9 DEF IInv, Owner
    <3> QED BY <1>1, <1>3, <1>4, <2>1, <3>1 DEF IInv, TypeOK, Pointers, NoRepeats, Unjoined, Joined
  <2>4. Owner'
    BY <1>1, <1>3, <1>4, <1>9, <2>1 DEF IInv, Owner
  <2>5. NullPointers'
    BY <1>1, <1>4, <1>8, <1>9, <2>1 DEF IInv, NullPointers
  <2>6. Ids'
    BY <2>1 DEF IInv, Ids
  <2> QED BY <1>5, <1>6, <1>7, <2>2, <2>3, <2>4, <2>5, <2>6 DEF IInv
<1>10. CASE slot # 0
  <2>1. /\ m_threads' = [m_threads EXCEPT ![slot] = cur]
        /\ m_threadIds' = Append(m_threadIds, cur)
        /\ slot' = slot + 1 /\ pc' = "create"
    BY <1>2, <1>10 DEF Wait
  <2>2. /\ slot > 0 /\ ~m_stopping /\ Len(m_threads) = m_threadCount /\ obj[cur].pool
        /\ \A i \in DOMAIN m_threads : i >= slot => m_threads[i] = 0
    BY <1>1, <1>10 DEF IInv, Owner
  <2>3. m_threads \in Seq(Object \cup {0}) /\ slot \in DOMAIN m_threads
        /\ m_threads[slot] = 0 /\ m_threadCount \in 0..MaxCount
    BY <1>1, <2>2 DEF IInv, TypeOK
  <2>4. /\ m_threads' \in Seq(Object \cup {0}) /\ DOMAIN m_threads' = DOMAIN m_threads
        /\ Len(m_threads') = Len(m_threads) /\ m_threads'[slot] = cur
        /\ \A i \in DOMAIN m_threads : i # slot => m_threads'[i] = m_threads[i]
    BY <1>1, <2>1, <2>3
  <2>5. m_threadIds' \in Seq(Object \cup {-1}) /\ Ids'
    BY <1>1, <1>2, <2>1 DEF IInv, TypeOK, Ids
  <2>6. TypeOK'
    <3>1. slot' \in 0..(MaxCount + 1)
      BY <1>1, <2>1, ThreadAssumption
    <3> QED BY <1>3, <1>4, <2>1, <2>4, <2>5, <3>1 DEF IInv, TypeOK
  <2>7. Pointers'
    <3>1. \A i \in DOMAIN m_threads : m_threads[i] # cur
      BY <1>1 DEF IInv, TypeOK, Pointers, Unjoined, Object
    <3>2. NoRepeats(m_threads)' /\ NoRepeats(thrs)'
      BY <1>4, <2>3, <2>4, <3>1 DEF IInv, Pointers, NoRepeats
    <3>3. obj'[cur].m_thread /\ obj'[cur].pool
      BY <1>1, <1>3, <2>2 DEF IInv, Custody
    <3>4. \A i \in DOMAIN m_threads : Unjoined(m_threads[i])'
      <4> SUFFICES ASSUME NEW i \in DOMAIN m_threads
                   PROVE  Unjoined(m_threads[i])'
        OBVIOUS
      <4>1. CASE i = slot
        BY <1>3, <2>4, <3>3, <4>1 DEF Unjoined
      <4>2. CASE i # slot
        <5>1. Unjoined(m_threads[i]) /\ m_threads[i] \in Object \cup {0}
          BY <2>3 DEF IInv, Pointers
        <5> QED BY <1>3, <2>4, <3>1, <4>2, <5>1 DEF Unjoined
      <4> QED BY <4>1, <4>2
    <3>5. \A o \in Object : obj'[o].life = "built" /\ obj'[o].pool =>
            \E i \in DOMAIN m_threads : m_threads'[i] = o
      <4> SUFFICES ASSUME NEW o \in Object, obj'[o].life = "built", obj'[o].pool
                   PROVE  \E i \in DOMAIN m_threads : m_threads'[i] = o
        OBVIOUS
      <4>1. CASE o = cur
        BY <2>3, <2>4, <4>1
      <4>2. CASE o # cur
        <5>1. PICK i \in DOMAIN m_threads : m_threads[i] = o
          BY <1>1, <1>3, <4>2 DEF IInv, Pointers
        <5>2. i # slot
          BY <2>3, <5>1, ThreadAssumption DEF Object
        <5> QED BY <2>4, <5>1, <5>2
      <4> QED BY <4>1, <4>2
    <3>6. DOMAIN thrs' = {}
      BY <1>1, <1>4
    <3> QED BY <2>4, <3>2, <3>4, <3>5, <3>6 DEF Pointers
  <2>8. Owner'
    <3>1. \A i \in DOMAIN m_threads' : i >= slot' => m_threads'[i] = 0
      BY <1>1, <2>1, <2>2, <2>3, <2>4
    <3> QED BY <1>1, <1>3, <1>4, <2>1, <2>2, <2>3, <2>4, <3>1 DEF IInv, Owner
  <2>9. NullPointers'
    <3>1. ~StartFailed
      BY <1>1, <2>2 DEF IInv, NullPointers
    <3>2. \A i \in DOMAIN m_threads' : m_threads'[i] = 0 => i >= slot'
      BY <1>1, <2>1, <2>3, <2>4, <3>1 DEF IInv, NullPointers, Object
    <3> QED BY <1>1, <1>4, <1>8, <2>1, <2>2, <3>1, <3>2 DEF NullPointers
  <2> QED BY <1>5, <1>6, <1>7, <2>5, <2>6, <2>7, <2>8, <2>9 DEF IInv
<1> QED BY <1>9, <1>10

(* The constructor throws: the object is destroyed and its thread is not,  *)
(* and a pointer of the pool stays null.                                   *)
LEMMA WaitFailsStep ==
  ASSUME IInv, WaitFails
  PROVE  IInv'
<1> USE DEF schedulerVars
<1>1. /\ cur \in Object /\ obj[cur].life = "constructing" /\ cur \notin stray /\ cur \notin broken
      /\ slot \in Nat /\ slot <= m_threadCount /\ m_threadCount \in Nat /\ pc = "wait"
      /\ thrs = <<>> /\ obj[cur].m_thread \in BOOLEAN
  BY DEF IInv, TypeOK, ThreadObject, Owner, Custody, WaitFails
<1>2. /\ \A q \in Object : q # cur => obj'[q] = obj[q]
      /\ obj' \in [Object -> ThreadObject]
      /\ obj'[cur].life = "destroyed" /\ obj'[cur].m_id = obj[cur].m_id
      /\ obj'[cur].m_cb = obj[cur].m_cb /\ obj'[cur].m_semaphore = obj[cur].m_semaphore
      /\ obj'[cur].pool = obj[cur].pool /\ obj'[cur].m_thread = obj[cur].m_thread
  BY <1>1 DEF IInv, TypeOK, ThreadObject, WaitFails
<1>3. /\ UNCHANGED <<run, reaped, stray, m_threadCount, m_threads, m_threadIds, m_stopping,
                     cur, thrs>>
      /\ broken' = broken \cup {cur} /\ pc' = "user" /\ slot' = 0
  BY DEF WaitFails
<1>4. TypeOK'
  BY <1>1, <1>2, <1>3, ThreadAssumption DEF IInv, TypeOK
<1>5. Handshake'
  BY <1>1, <1>2, <1>3 DEF IInv, Handshake
<1>6. Custody'
  <2>1. obj[cur].m_thread /\ reaped[cur] = 0
    BY <1>1 DEF IInv, Custody
  <2> QED BY <1>1, <1>2, <1>3, <2>1 DEF IInv, Custody
<1>7. Pointers'
  BY <1>1, <1>2, <1>3 DEF IInv, TypeOK, Pointers, NoRepeats, Unjoined, Joined
<1>8. Owner'
  BY <1>1, <1>2, <1>3 DEF IInv, Owner
<1>9. NullPointers'
  <2>1. CASE slot = 0
    <3>1. StartFailed' <=> StartFailed
      BY <1>1, <1>2, <1>3, <2>1 DEF IInv, Owner, StartFailed, Object
    <3> QED BY <1>1, <1>3, <2>1, <3>1 DEF IInv, NullPointers
  <2>2. CASE slot # 0
    <3>1. StartFailed' /\ ~m_stopping
      BY <1>1, <1>2, <1>3, <2>2 DEF IInv, Owner, StartFailed
    <3>2. slot \in DOMAIN m_threads /\ m_threads[slot] = 0
      BY <1>1, <2>2 DEF IInv, TypeOK, Owner
    <3> QED BY <1>1, <1>3, <3>1, <3>2 DEF NullPointers
  <2> QED BY <2>1, <2>2
<1>10. Ids' /\ NoStrayWrite'
  BY <1>1, <1>2, <1>3 DEF IInv, TypeOK, Ids, NoStrayWrite
<1> QED BY <1>4, <1>5, <1>6, <1>7, <1>8, <1>9, <1>10 DEF IInv

-----------------------------------------------------------------------------
(* start() and stop()                                                      *)

LEMMA StartStep ==
  ASSUME IInv, Start
  PROVE  IInv'
<1> USE DEF Start, MayStart
<1>1. m_threads = <<>> /\ thrs = <<>> /\ m_threadCount \in 0..MaxCount /\ m_stopping
  BY DEF IInv, TypeOK, Owner
<1>2. /\ m_threads' \in Seq(Object \cup {0}) /\ Len(m_threads') = m_threadCount
      /\ (\A i \in DOMAIN m_threads' : m_threads'[i] = 0) /\ pc' = "create"
  BY <1>1
<1>3. ~StartFailed /\ ~StartFailed'
  BY <1>1 DEF IInv, NullPointers, StartFailed
<1>4. TypeOK'
  <2>1. slot' = 1 /\ 1 \in 0..(MaxCount + 1)
    <3>1. slot' = 1
      BY Zenon
    <3> HIDE DEF Start
    <3> QED BY <3>1, ThreadAssumption
  <2>2. m_stopping' \in BOOLEAN
    BY Zenon
  <2>3. UNCHANGED <<obj, run, reaped, stray, m_threadCount, m_threadIds, cur, thrs, broken>>
    OBVIOUS
  <2> HIDE DEF Start
  <2> QED BY <1>2, <2>1, <2>2, <2>3 DEF IInv, TypeOK
<1>5. Handshake' /\ Custody'
  BY DEF IInv, Handshake, Custody
<1>6. Pointers'
  BY <1>1, <1>2 DEF IInv, Pointers, NoRepeats, Unjoined, Joined
<1>7. Owner'
  BY <1>1, <1>2 DEF IInv, Owner
<1>8. NullPointers'
  BY <1>1, <1>2, <1>3 DEF IInv, NullPointers
<1>9. Ids' /\ NoStrayWrite'
  BY DEF IInv, Ids, NoStrayWrite
<1> QED BY <1>4, <1>5, <1>6, <1>7, <1>8, <1>9 DEF IInv

LEMMA CreateFailsStep ==
  ASSUME IInv, CreateFails
  PROVE  IInv'
<1> USE DEF CreateFails, schedulerVars
<1>1. slot \in Nat /\ slot > 0 /\ slot <= m_threadCount /\ thrs = <<>> /\ ~m_stopping
  BY DEF IInv, TypeOK, Owner
<1>2. TypeOK'
  BY ThreadAssumption DEF IInv, TypeOK
<1>3. Handshake' /\ Custody'
  BY ThreadAssumption DEF IInv, TypeOK, Handshake, Custody, Object
<1>4. Pointers'
  BY <1>1 DEF IInv, Pointers, NoRepeats, Unjoined, Joined
<1>5. Owner'
  BY <1>1 DEF IInv, Owner
<1>6. NullPointers'
  <2>1. StartFailed'
    BY DEF StartFailed
  <2>2. slot \in DOMAIN m_threads /\ m_threads[slot] = 0
    BY <1>1 DEF IInv, TypeOK, Owner
  <2> QED BY <1>1, <2>1, <2>2 DEF NullPointers
<1>7. Ids' /\ NoStrayWrite'
  BY DEF IInv, Ids, NoStrayWrite
<1> QED BY <1>2, <1>3, <1>4, <1>5, <1>6, <1>7 DEF IInv

LEMMA StartEndStep ==
  ASSUME IInv, StartEnd
  PROVE  IInv'
<1> USE DEF StartEnd, schedulerVars
<1>1. slot \in Nat /\ m_threadCount \in Nat /\ Len(m_threads) = m_threadCount /\ thrs = <<>>
  BY DEF IInv, TypeOK, Owner
<1>2. TypeOK'
  BY ThreadAssumption DEF IInv, TypeOK
<1>3. Handshake' /\ Custody'
  BY DEF IInv, Handshake, Custody
<1>4. Pointers'
  BY <1>1 DEF IInv, Pointers, NoRepeats, Unjoined, Joined
<1>5. Owner'
  BY <1>1 DEF IInv, Owner
<1>6. NullPointers'
  BY <1>1 DEF IInv, TypeOK, NullPointers, StartFailed
<1>7. Ids' /\ NoStrayWrite'
  BY DEF IInv, Ids, NoStrayWrite
<1> QED BY <1>2, <1>3, <1>4, <1>5, <1>6, <1>7 DEF IInv

LEMMA StopStep ==
  ASSUME IInv, Stop
  PROVE  IInv'
<1> USE DEF Stop
<1>1. thrs = <<>> /\ slot = 0
  BY DEF IInv, Owner
<1>2. TypeOK'
  BY ThreadAssumption DEF IInv, TypeOK
<1>3. Handshake' /\ Custody'
  BY DEF IInv, Handshake, Custody
<1>4. Pointers'
  BY <1>1 DEF IInv, TypeOK, Pointers, NoRepeats, Unjoined, Joined
<1>5. Owner'
  BY <1>1, ThreadAssumption DEF IInv, TypeOK, Owner
<1>6. NullPointers'
  BY <1>1 DEF IInv, TypeOK, NullPointers, StartFailed
<1>7. Ids' /\ NoStrayWrite'
  BY DEF IInv, Ids, NoStrayWrite
<1> QED BY <1>2, <1>3, <1>4, <1>5, <1>6, <1>7 DEF IInv

(* thr->join(): slot passes over one object, which is joined from now on.  *)
LEMMA JoinStep ==
  ASSUME IInv, Join
  PROVE  IInv'
<1> USE DEF schedulerVars
<1>1. /\ pc = "join" /\ slot \in DOMAIN thrs /\ thrs \in Seq(Object \cup {0}) /\ m_stopping
      /\ slot \in Nat /\ m_threads = <<>> /\ Len(thrs) <= MaxCount /\ slot > 0
  BY DEF IInv, TypeOK, Owner, Join
<1>2. UNCHANGED <<run, stray, m_threadCount, m_threads, m_threadIds, m_stopping, cur, thrs, broken>>
  BY DEF Join
<1>3. CASE thrs[slot] = 0
  <2>1. pc' = "null" /\ UNCHANGED <<obj, reaped, slot>>
    BY <1>3 DEF Join
  <2>2. TypeOK'
    BY <1>2, <2>1 DEF IInv, TypeOK, Crashes
  <2>3. Handshake' /\ Custody'
    BY <1>1, <1>2, <2>1 DEF IInv, Handshake, Custody
  <2>4. Pointers'
    BY <1>2, <2>1 DEF IInv, Pointers, NoRepeats, Unjoined, Joined
  <2>5. Owner'
    BY <1>1, <1>2, <2>1 DEF IInv, Owner
  <2>6. NullPointers'
    BY <1>1, <1>2, <1>3, <2>1 DEF IInv, NullPointers, StartFailed
  <2>7. Ids' /\ NoStrayWrite'
    BY <1>2, <2>1 DEF IInv, Ids, NoStrayWrite
  <2> QED BY <2>2, <2>3, <2>4, <2>5, <2>6, <2>7 DEF IInv
<1>4. CASE thrs[slot] # 0
  <2> DEFINE o == thrs[slot]
  <2>1. /\ run[o] = "ended" /\ slot' = slot + 1 /\ UNCHANGED pc
        /\ obj' = [obj EXCEPT ![o].m_thread = FALSE] /\ reaped' = [reaped EXCEPT ![o] = @ + 1]
    BY <1>4 DEF Join, Ended, NoThread
  <2>2. o \in Object
    BY <1>1, <1>4
  <2>3. obj[o].life = "built" /\ obj[o].pool /\ obj[o].m_thread
    BY <1>1, <1>4 DEF IInv, Pointers, Unjoined
  <2>4. reaped[o] = 0 /\ o \notin broken /\ o \notin stray
    BY <2>2, <2>3 DEF IInv, Custody
  <2>5. /\ \A q \in Object : q # o => obj'[q] = obj[q]
        /\ obj' \in [Object -> ThreadObject]
        /\ obj'[o].life = "built" /\ obj'[o].m_id = obj[o].m_id
        /\ obj'[o].m_cb = obj[o].m_cb /\ obj'[o].m_semaphore = obj[o].m_semaphore
        /\ obj'[o].pool /\ ~obj'[o].m_thread
    BY <2>1, <2>2, <2>3 DEF IInv, TypeOK, ThreadObject
  <2>6. /\ reaped' \in [Object -> 0..2] /\ reaped'[o] = 1
        /\ \A q \in Object : q # o => reaped'[q] = reaped[q]
    BY <2>1, <2>2, <2>4 DEF IInv, TypeOK
  <2>7. \A i \in DOMAIN thrs : i # slot => thrs[i] # o
    BY <1>1, <1>4 DEF IInv, Pointers, NoRepeats
  <2>8. slot' = slot + 1 /\ pc' = "join" /\ run[o] = "ended"
    BY <1>1, <2>1
  <2> HIDE DEF o
  <2>9. TypeOK'
    <3>1. slot' \in 0..(MaxCount + 1)
      BY <1>1, <2>8, ThreadAssumption
    <3> QED BY <1>2, <2>5, <2>6, <2>8, <3>1 DEF IInv, TypeOK
  <2>10. Handshake'
    BY <1>1, <1>2, <2>2, <2>3, <2>5, <2>8 DEF IInv, Handshake
  <2>11. Custody'
    BY <1>2, <2>2, <2>3, <2>4, <2>5, <2>6, <2>8 DEF IInv, Custody
  <2>12. Pointers'
    <3>1. DOMAIN m_threads' = {} /\ DOMAIN m_threads = {}
      BY <1>1, <1>2
    <3>2. NoRepeats(m_threads)' /\ NoRepeats(thrs)'
      BY <1>2 DEF IInv, Pointers, NoRepeats
    <3>3. \A i \in DOMAIN thrs' : IF i < slot' THEN Joined(thrs[i])' ELSE Unjoined(thrs[i])'
      <4> SUFFICES ASSUME NEW i \in DOMAIN thrs
                   PROVE  IF i < slot' THEN Joined(thrs[i])' ELSE Unjoined(thrs[i])'
        BY <1>2
      <4>1. i \in Nat /\ thrs[i] \in Object \cup {0}
        BY <1>1
      <4>2. CASE i = slot
        BY <1>1, <1>2, <1>4, <2>5, <2>8, <4>1, <4>2 DEF Joined, o
      <4>3. CASE i # slot
        <5>1. i < slot' <=> i < slot
          BY <1>1, <2>8, <4>1, <4>3
        <5>2. thrs[i] # o /\ (thrs[i] # 0 => obj'[thrs[i]] = obj[thrs[i]])
          BY <2>5, <2>7, <4>1, <4>3
        <5>3. IF i < slot THEN Joined(thrs[i]) ELSE Unjoined(thrs[i])
          BY DEF IInv, Pointers
        <5> QED BY <1>2, <5>1, <5>2, <5>3 DEF Joined, Unjoined
      <4> QED BY <4>2, <4>3
    <3>4. \A q \in Object : obj'[q].life = "built" /\ obj'[q].pool =>
            \E i \in DOMAIN thrs : thrs[i] = q
      BY <2>3, <2>5, <3>1 DEF IInv, Pointers
    <3> QED BY <1>2, <3>1, <3>2, <3>3, <3>4 DEF Pointers
  <2>13. Owner'
    BY <1>1, <1>2, <2>8 DEF IInv, Owner
  <2>14. NullPointers'
    <3>1. StartFailed' <=> StartFailed
      BY <1>2, <2>2, <2>3, <2>5 DEF StartFailed
    <3>2. StartFailed => \E i \in DOMAIN thrs : i >= slot + 1 /\ thrs[i] = 0
      <4> SUFFICES ASSUME StartFailed
                   PROVE  \E i \in DOMAIN thrs : i >= slot + 1 /\ thrs[i] = 0
        OBVIOUS
      <4>1. PICK i \in DOMAIN thrs : i >= slot /\ thrs[i] = 0
        BY <1>1 DEF IInv, NullPointers
      <4> QED BY <1>1, <1>4, <4>1
    <3> QED BY <1>1, <1>2, <2>8, <3>1, <3>2 DEF IInv, NullPointers
  <2>15. Ids' /\ NoStrayWrite'
    BY <1>2, <2>2, <2>4, <2>5 DEF IInv, TypeOK, Ids, NoStrayWrite
  <2> QED BY <2>9, <2>10, <2>11, <2>12, <2>13, <2>14, <2>15 DEF IInv
<1> QED BY <1>3, <1>4

(* stop() returns: every object of thrs has been joined, so its destructor *)
(* has no thread to detach.                                                *)
LEMMA StopEndStep ==
  ASSUME IInv, StopEnd
  PROVE  IInv'
<1> USE DEF schedulerVars
<1> DEFINE gone == {thrs[i] : i \in DOMAIN thrs}
<1>1. /\ pc = "join" /\ slot = Len(thrs) + 1 /\ thrs \in Seq(Object \cup {0}) /\ m_stopping
      /\ m_threads = <<>>
  BY DEF IInv, TypeOK, Owner, StopEnd
<1>2. \A o \in gone : o \in Object /\ obj[o].life = "built" /\ obj[o].pool /\ ~obj[o].m_thread
  BY <1>1 DEF IInv, Pointers, Joined
<1>3. /\ UNCHANGED <<run, stray, m_threadCount, m_threads, m_threadIds, m_stopping, cur, broken>>
      /\ thrs' = <<>> /\ pc' = "user" /\ slot' = 0
  BY DEF StopEnd
<1>4. obj' = [o \in Object |-> IF o \in gone THEN [obj[o] EXCEPT !.life = "destroyed"]
                               ELSE obj[o]]
  BY DEF StopEnd
<1>5. reaped' = [o \in Object |-> reaped[o] + IF o \in gone /\ obj[o].m_thread THEN 1 ELSE 0]
  BY DEF StopEnd
<1>6. \A o \in Object : obj[o].life = "built" /\ obj[o].pool => o \in gone
  BY <1>1 DEF IInv, Pointers
<1> HIDE DEF gone
<1>7. /\ obj' \in [Object -> ThreadObject]
      /\ \A o \in Object : /\ o \notin gone => obj'[o] = obj[o]
                           /\ o \in gone => obj'[o].life = "destroyed"
                           /\ obj'[o].m_id = obj[o].m_id /\ obj'[o].m_cb = obj[o].m_cb
                           /\ obj'[o].m_semaphore = obj[o].m_semaphore
                           /\ obj'[o].pool = obj[o].pool /\ obj'[o].m_thread = obj[o].m_thread
  <2>1. obj \in [Object -> ThreadObject]
    BY DEF IInv, TypeOK
  <2>2. \A o \in Object : obj'[o] = IF o \in gone THEN [obj[o] EXCEPT !.life = "destroyed"]
                                    ELSE obj[o]
    BY <1>4
  <2>3. \A r \in ThreadObject :
          LET d == [r EXCEPT !.life = "destroyed"]
          IN  /\ d \in ThreadObject /\ d.life = "destroyed" /\ d.m_id = r.m_id
              /\ d.m_cb = r.m_cb /\ d.m_semaphore = r.m_semaphore /\ d.pool = r.pool
              /\ d.m_thread = r.m_thread
    BY DEF ThreadObject
  <2>4. \A o \in Object : obj'[o] \in ThreadObject
    BY <2>1, <2>2, <2>3
  <2>5. obj' \in [Object -> ThreadObject]
    BY <1>4, <2>4
  <2>6. \A o \in Object : o \notin gone => obj'[o] = obj[o]
    BY <2>2
  <2>7. \A o \in Object : o \in gone => obj'[o] = [obj[o] EXCEPT !.life = "destroyed"]
    BY <2>2
  <2>8. ASSUME NEW o \in gone, o \in Object
        PROVE  /\ obj'[o].life = "destroyed" /\ obj'[o].m_id = obj[o].m_id
               /\ obj'[o].m_cb = obj[o].m_cb /\ obj'[o].m_semaphore = obj[o].m_semaphore
               /\ obj'[o].pool = obj[o].pool /\ obj'[o].m_thread = obj[o].m_thread
    <3>1. obj[o] \in ThreadObject /\ obj'[o] = [obj[o] EXCEPT !.life = "destroyed"]
      BY <2>1, <2>7, <2>8
    <3> QED BY <3>1 DEF ThreadObject
  <2> QED BY <2>5, <2>6, <2>8
<1>8. reaped' = reaped
  <2>1. reaped \in [Object -> 0..2]
    BY DEF IInv, TypeOK
  <2>2. reaped' = [o \in Object |-> reaped[o] + 0]
    BY <1>2, <1>5
  <2> QED BY <2>1, <2>2
<1>9. TypeOK'
  BY <1>3, <1>7, <1>8, ThreadAssumption DEF IInv, TypeOK
<1>10. Handshake'
  BY <1>1, <1>2, <1>3, <1>7 DEF IInv, Handshake
<1>11. Custody'
  BY <1>2, <1>3, <1>7, <1>8 DEF IInv, Custody
<1>12. Pointers'
  <2>1. DOMAIN m_threads' = {} /\ DOMAIN thrs' = {}
    BY <1>1, <1>3
  <2>2. \A o \in Object : ~(obj'[o].life = "built" /\ obj'[o].pool)
    BY <1>6, <1>7
  <2> QED BY <2>1, <2>2 DEF Pointers, NoRepeats
<1>13. StartFailed' <=> StartFailed
  BY <1>3, <1>7 DEF StartFailed
<1>14. ~StartFailed
  BY <1>1 DEF IInv, NullPointers
<1>15. Owner'
  BY <1>1, <1>3, ThreadAssumption DEF IInv, Owner
<1>16. NullPointers'
  BY <1>1, <1>3, <1>13, <1>14 DEF NullPointers
<1>17. Ids' /\ NoStrayWrite'
  BY <1>3, <1>7 DEF IInv, TypeOK, Ids, NoStrayWrite
<1> QED BY <1>9, <1>10, <1>11, <1>12, <1>15, <1>16, <1>17 DEF IInv

LEMMA DestroyStep ==
  ASSUME IInv, Destroy
  PROVE  IInv'
<1>1. UNCHANGED <<obj, run, reaped, stray, schedulerVars, slot, cur, thrs, broken>>
      /\ pc = "user" /\ pc' = IF m_stopping THEN "gone" ELSE "not stopped"
  BY DEF Destroy
<1> USE DEF schedulerVars
<1>2. TypeOK'
  BY <1>1 DEF IInv, TypeOK, Crashes
<1>3. Handshake' /\ Custody'
  BY <1>1 DEF IInv, Handshake, Custody
<1>4. Pointers'
  BY <1>1 DEF IInv, Pointers, NoRepeats, Unjoined, Joined
<1>5. Owner'
  BY <1>1 DEF IInv, Owner
<1>6. NullPointers'
  BY <1>1 DEF IInv, NullPointers, StartFailed
<1>7. Ids' /\ NoStrayWrite'
  BY <1>1 DEF IInv, Ids, NoStrayWrite
<1> QED BY <1>2, <1>3, <1>4, <1>5, <1>6, <1>7 DEF IInv

-----------------------------------------------------------------------------
(* Every step                                                              *)

LEMMA InitIInv == Init => IInv
<1> SUFFICES ASSUME Init PROVE IInv
  OBVIOUS
<1> USE DEF Init
<1>1. TypeOK
  BY ThreadAssumption DEF TypeOK, ThreadObject
<1>2. Handshake /\ Custody
  BY DEF Handshake, Custody
<1>3. Pointers
  BY DEF Pointers, NoRepeats
<1>4. ~StartFailed
  BY DEF StartFailed
<1>5. Owner /\ NullPointers
  BY <1>4, ThreadAssumption DEF Owner, NullPointers
<1>6. Ids /\ NoStrayWrite
  BY DEF Ids, NoStrayWrite
<1> QED BY <1>1, <1>2, <1>3, <1>5, <1>6 DEF IInv

LEMMA StutterStep ==
  ASSUME IInv, UNCHANGED vars
  PROVE  IInv'
<1> USE DEF vars, schedulerVars, ownerVars
<1>1. TypeOK' /\ Handshake' /\ Custody'
  BY DEF IInv, TypeOK, Handshake, Custody
<1>2. Pointers'
  BY DEF IInv, Pointers, NoRepeats, Unjoined, Joined
<1>3. Owner' /\ NullPointers' /\ Ids' /\ NoStrayWrite'
  BY DEF IInv, Owner, NullPointers, StartFailed, Ids, NoStrayWrite
<1> QED BY <1>1, <1>2, <1>3 DEF IInv

LEMMA StepIInv == IInv /\ [Next]_vars => IInv'
<1> SUFFICES ASSUME IInv, [Next]_vars PROVE IInv'
  OBVIOUS
<1>1. CASE OwnerStep
  BY <1>1, WaitStep, CreateStep, StartEndStep, JoinStep, StopEndStep DEF OwnerStep
<1>2. CASE Fault
  BY <1>2, WaitFailsStep, CreateFailsStep DEF Fault
<1>3. CASE NewThread \/ Start \/ Stop \/ Destroy
  BY <1>3, NewThreadStep, StartStep, StopStep, DestroyStep
<1>4. CASE Finished \/ UNCHANGED vars
  BY <1>4, StutterStep DEF Finished
<1>5. ASSUME NEW o \in Object, RunStep(o) \/ SetCurrentName(o)
      PROVE  IInv'
  BY <1>5, RunBeginStep, RunNotifyStep, RunEndStep, SetCurrentNameStep DEF RunStep
<1>6. ASSUME NEW o \in Object, JoinOwn(o) \/ DestroyOwn(o)
      PROVE  IInv'
  BY <1>6, JoinOwnStep, DestroyOwnStep
<1> QED BY <1>1, <1>2, <1>3, <1>4, <1>5, <1>6 DEF Next

LEMMA IInvAlways == Spec => []IInv
<1> QED BY InitIInv, StepIInv, PTL DEF Spec

-----------------------------------------------------------------------------
(* Theorems                                                                *)

(* When Thread::Thread() has returned, its thread has set m_id and taken   *)
(* m_cb, so start() never collects the id -1.                              *)
THEOREM IdsAlwaysKnown == Spec => []IdsKnown
<1>1. ASSUME IInv PROVE IdsKnown
  <2>1. ASSUME NEW o \in Object, obj[o].life = "built"
        PROVE  obj[o].m_id = o /\ ~obj[o].m_cb
    <3>1. run[o] \notin {"none", "begin", "taken"}
      BY <1>1, <2>1 DEF IInv, Handshake, Custody
    <3>2. run[o] \in {"cb", "ended"}
      BY <1>1, <3>1 DEF IInv, TypeOK
    <3> QED BY <1>1, <3>2 DEF IInv, Handshake
  <2> QED BY <1>1, <2>1 DEF IInv, Ids, IdsKnown
<1> QED BY IInvAlways, <1>1, PTL

(* Thread::Run() and SetCurrentName() write to a destroyed object only if  *)
(* its constructor threw, or the program destroyed it without joining it.  *)
THEOREM NoStrayWriteAlways == Spec => []NoStrayWrite
<1>1. IInv => NoStrayWrite
  BY DEF IInv
<1> QED BY IInvAlways, <1>1, PTL

(* Thread::join() and ~Thread() between them reap every thread once, and   *)
(* ~Scheduler() leaves no thread of a pool behind.                         *)
THEOREM ReapedOnceAlways == Spec => []ReapedOnce
<1>1. ASSUME IInv PROVE ReapedOnce
  <2>1. \A o \in Object : reaped[o] <= 1
    BY <1>1 DEF IInv, TypeOK, ThreadObject, Custody
  <2>2. \A o \in Object \ broken : obj[o].life = "destroyed" => reaped[o] = 1
    BY <1>1 DEF IInv, Custody
  <2>3. ASSUME pc = "gone", NEW o \in Made, obj[o].pool
        PROVE  obj[o].life = "destroyed"
    <3>1. DOMAIN m_threads = {} /\ DOMAIN thrs = {}
      BY <1>1, <2>3 DEF IInv, Owner
    <3>2. obj[o].life # "built" /\ obj[o].life # "constructing" /\ obj[o].life # "none"
      BY <1>1, <2>3, <3>1 DEF IInv, Pointers, Handshake, Made
    <3> QED BY <1>1, <3>2 DEF IInv, TypeOK, ThreadObject, Made
  <2> QED BY <2>1, <2>2, <2>3 DEF ReapedOnce
<1> QED BY IInvAlways, <1>1, PTL

(* Scheduler::start() always finds m_threads empty, stop() finds a null    *)
(* pointer only after a start() that failed, and after such a start() the  *)
(* Scheduler is never destroyed in good order.                             *)
THEOREM CrashAfterFailureOnlyAlways == Spec => []CrashAfterFailureOnly
<1>1. IInv => CrashAfterFailureOnly
  BY DEF IInv, Owner, NullPointers, CrashAfterFailureOnly
<1> QED BY IInvAlways, <1>1, PTL

-----------------------------------------------------------------------------
(* Nobody waits in vain                                                    *)

(* Whoever the owner waits for will let it go on: in the constructor, the  *)
(* new thread has posted or has nothing but that before it; in stop(), the *)
(* thread to be joined has returned or may return.                         *)
AwaitsSomebody ==
  /\ pc = "wait" => Posted(cur) \/ run[cur] \in {"begin", "taken"}
  /\ pc = "join" /\ slot <= Len(thrs) /\ thrs[slot] # 0 =>
       Ended(thrs[slot]) \/ (run[thrs[slot]] = "cb" /\ m_stopping /\ ~Locked)

(* A post is not lost: it is there until the constructor has seen it.      *)
Woken ==
  \A o \in Object : obj[o].life = "constructing" /\ run[o] \in {"cb", "ended"}
                      => obj[o].m_semaphore = 1

LEMMA WokenStep ==
  ASSUME IInv, Woken, [Next]_vars
  PROVE  Woken'
<1>1. /\ obj \in [Object -> ThreadObject]
      /\ run \in [Object -> {"none", "begin", "taken", "cb", "ended"}]
  BY DEF IInv, TypeOK
<1>2. ASSUME \A o \in Object : /\ obj'[o].life = "constructing" => obj[o].life = "constructing"
                               /\ run'[o] \in {"cb", "ended"} => run[o] \in {"cb", "ended"}
                               /\ \/ obj'[o].m_semaphore = obj[o].m_semaphore
                                  \/ obj'[o].life # "constructing"
      PROVE  Woken'
  BY <1>2 DEF Woken
<1>3. CASE Stop \/ Start \/ CreateFails \/ StartEnd \/ Destroy \/ Finished \/ UNCHANGED vars
  <2>1. UNCHANGED <<obj, run>>
    BY <1>3 DEF Stop, Start, CreateFails, StartEnd, Destroy, Finished, vars
  <2> QED BY <1>2, <2>1
<1>4. ASSUME NEW o \in Object, NEW p \in BOOLEAN, Construct(o, p) PROVE Woken'
  <2>1. \A q \in Object : q # o => obj'[q] = obj[q] /\ run'[q] = run[q]
    BY <1>1, <1>4 DEF Construct
  <2>2. run'[o] = "begin"
    BY <1>1, <1>4 DEF Construct
  <2> QED BY <2>1, <2>2 DEF Woken
<1>5. CASE Wait \/ WaitFails
  <2>1. UNCHANGED run /\ pc = "wait" /\ cur \in Object
    BY <1>5 DEF Wait, WaitFails, IInv, Owner
  <2>2. \A q \in Object : q # cur => obj'[q] = obj[q]
    BY <1>1, <1>5, <2>1 DEF Wait, WaitFails
  <2>3. obj'[cur].life # "constructing"
    BY <1>1, <1>5, <2>1 DEF Wait, WaitFails, ThreadObject
  <2> QED BY <1>2, <2>1, <2>2, <2>3
<1>6. ASSUME NEW o \in Object, RunNotify(o) PROVE Woken'
  <2>1. \A q \in Object : q # o => obj'[q] = obj[q] /\ run'[q] = run[q]
    BY <1>1, <1>6 DEF RunNotify, Post
  <2>2. obj[o].m_semaphore = 0
    BY <1>6 DEF RunNotify, IInv, Handshake
  <2>3. obj'[o].m_semaphore = 1
    BY <1>1, <1>6, <2>2 DEF RunNotify, Post, ThreadObject
  <2> QED BY <2>1, <2>3 DEF Woken
<1>7. ASSUME NEW o \in Object,
             RunBegin(o) \/ RunEnd(o) \/ SetCurrentName(o) \/ JoinOwn(o) \/ DestroyOwn(o)
      PROVE  Woken'
  <2>1. \A q \in Object : q # o => obj'[q] = obj[q] /\ run'[q] = run[q]
    BY <1>1, <1>7 DEF RunBegin, RunEnd, SetCurrentName, JoinOwn, DestroyOwn, NoThread
  <2>2. obj'[o].m_semaphore = obj[o].m_semaphore
    BY <1>1, <1>7 DEF RunBegin, RunEnd, SetCurrentName, JoinOwn, DestroyOwn, NoThread, ThreadObject
  <2>3. obj'[o].life = "constructing" => obj[o].life = "constructing"
    BY <1>1, <1>7 DEF RunBegin, RunEnd, SetCurrentName, JoinOwn, DestroyOwn, NoThread, ThreadObject
  <2>4. run'[o] \in {"cb", "ended"} => run[o] \in {"cb", "ended"}
    BY <1>1, <1>7 DEF RunBegin, RunEnd, SetCurrentName, JoinOwn, DestroyOwn
  <2> QED BY <1>2, <2>1, <2>2, <2>3, <2>4
<1>8. CASE Join
  <2>1. CASE UNCHANGED <<obj, run>>
    BY <1>2, <2>1
  <2>2. CASE UNCHANGED run /\ \E o \in Object : obj' = NoThread(o)
    <3>1. PICK o \in Object : obj' = NoThread(o)
      BY <2>2
    <3>2. \A q \in Object : /\ obj'[q].life = obj[q].life
                            /\ obj'[q].m_semaphore = obj[q].m_semaphore
      BY <1>1, <3>1 DEF NoThread, ThreadObject
    <3> QED BY <1>2, <2>2, <3>2
  <2>3. slot \in Nat /\ slot > 0 /\ thrs \in Seq(Object \cup {0})
    BY <1>8, ThreadAssumption DEF Join, IInv, TypeOK, Owner
  <2>4. thrs[slot] \in Object \cup {0}
    BY <1>8, <2>3 DEF Join
  <2> QED BY <1>8, <2>1, <2>2, <2>4 DEF Join
<1>9. CASE StopEnd
  <2>1. UNCHANGED run
    BY <1>9 DEF StopEnd
  <2>2. \A o \in Object : obj'[o] = obj[o] \/ obj'[o] = [obj[o] EXCEPT !.life = "destroyed"]
    BY <1>9 DEF StopEnd
  <2>3. \A o \in Object : obj'[o] = obj[o] \/ obj'[o].life = "destroyed"
    BY <1>1, <2>2 DEF ThreadObject
  <2> QED BY <1>2, <2>1, <2>3
<1> QED
  BY <1>3, <1>4, <1>5, <1>6, <1>7, <1>8, <1>9 DEF Next, OwnerStep, Fault, RunStep, NewThread, Create

(* start() and stop() never wait for a thread that cannot let them go on:  *)
(* a thread has only to post before the constructor returns, and needs no  *)
(* lock for that; one that stop() joins is in run() or has left it         *)
(* (thread.cpp:52, 84; schedule.cpp:53-66, 125).                           *)
THEOREM AlwaysAwaitsSomebody == Spec => []AwaitsSomebody
<1>1. ASSUME IInv, Woken PROVE AwaitsSomebody
  <2>1. ASSUME pc = "wait" PROVE Posted(cur) \/ run[cur] \in {"begin", "taken"}
    <3>1. cur \in Object /\ obj[cur].life = "constructing"
      BY <1>1, <2>1 DEF IInv, Owner
    <3>2. run[cur] \in {"begin", "taken", "cb", "ended"}
      BY <1>1, <3>1 DEF IInv, TypeOK, Handshake
    <3> QED BY <1>1, <3>1, <3>2 DEF Woken, Posted
  <2>2. ASSUME pc = "join", slot <= Len(thrs), thrs[slot] # 0
        PROVE  Ended(thrs[slot]) \/ (run[thrs[slot]] = "cb" /\ m_stopping /\ ~Locked)
    <3> DEFINE o == thrs[slot]
    <3>1. slot \in Nat /\ slot > 0 /\ thrs \in Seq(Object \cup {0}) /\ m_stopping
      BY <1>1, <2>2, ThreadAssumption DEF IInv, TypeOK, Owner
    <3>2. slot \in DOMAIN thrs /\ o \in Object
      BY <2>2, <3>1
    <3>3. obj[o].life = "built"
      BY <1>1, <2>2, <3>1, <3>2 DEF IInv, Pointers, Unjoined
    <3>4. run[o] \notin {"none", "begin", "taken"}
      BY <1>1, <3>2, <3>3 DEF IInv, Handshake, Custody
    <3>5. run[o] \in {"cb", "ended"}
      BY <1>1, <3>2, <3>4 DEF IInv, TypeOK
    <3> QED BY <2>2, <3>1, <3>5 DEF Ended, Locked
  <2> QED BY <2>1, <2>2 DEF AwaitsSomebody
<1>2. Init => Woken
  BY DEF Init, Woken
<1> QED BY <1>1, <1>2, IInvAlways, WokenStep, PTL DEF Spec

=============================================================================
