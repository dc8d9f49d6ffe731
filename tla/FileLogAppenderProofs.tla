------------------------ MODULE FileLogAppenderProofs ------------------------
(***************************************************************************)
(* NotInOldFile for any number of threads, any calendar and any length of  *)
(* time.  The invariant says what m_lastTime stands for: a stream that     *)
(* works is on a file at least as new as m_lastTime, and as the second     *)
(* that each thread past its own reopen() or check has noted.              *)
(***************************************************************************)
EXTENDS FileLogAppender, TLAPS

(* The seconds noted are past ones, and so is the file's day.              *)
PastOnly ==
  /\ clock >= 1
  /\ m_lastTime <= clock
  /\ \A t \in Thread : now[t] <= clock
  /\ m_filestream.day <= DayOf[clock]

(* The file a stream that works is on is new enough.                       *)
FreshFile ==
  m_filestream.good =>
    /\ DayOf[m_lastTime] <= m_filestream.day
    /\ \A t \in Thread :
         pc[t] \in {"stamp", "write"} => DayOf[now[t]] <= m_filestream.day

IInv == TypeOK /\ PastOnly /\ FreshFile /\ NotInOldFile

(* Later seconds are not on earlier days (strftime in reopen()).           *)
LEMMA DayMonotone ==
  ASSUME NEW s \in Time, NEW t \in Time, s <= t
  PROVE  DayOf[s] \in Nat /\ DayOf[t] \in Nat /\ DayOf[s] <= DayOf[t]
BY FileLogAppenderAssumption

(* The invariant holds once the constructor has run.                       *)
LEMMA InitIInv == Init => IInv
<1> SUFFICES ASSUME Init PROVE IInv
  OBVIOUS
<1>1. 0 \in Time /\ 1 \in Time
  BY FileLogAppenderAssumption DEF Time
<1>2. DayOf[0] \in Nat /\ DayOf[1] \in Nat /\ DayOf[0] <= DayOf[1]
  BY <1>1, DayMonotone
<1>3. m_filestream \in [open : BOOLEAN, good : BOOLEAN, day : Nat] /\ m_filestream.day = DayOf[1]
  <2>1. PICK could \in Openable :
          m_filestream = [open |-> could, good |-> could, day |-> DayOf[1]]
    BY DEF Init
  <2>2. could \in BOOLEAN
    BY DEF Openable
  <2> QED BY <2>1, <2>2, <1>2
<1>4. TypeOK
  BY <1>1, <1>3 DEF Init, TypeOK, Outcome
<1>5. PastOnly
  BY <1>2, <1>3 DEF Init, PastOnly
<1>6. FreshFile /\ NotInOldFile
  BY <1>2, <1>3 DEF Init, FreshFile, NotInOldFile
<1> QED BY <1>4, <1>5, <1>6 DEF IInv

(* Every step of log(), and the passing of time, keep the invariant.       *)
LEMMA StepIInv == IInv /\ [Next]_vars => IInv'
<1> SUFFICES ASSUME IInv, [Next]_vars PROVE IInv'
  OBVIOUS
<1> USE DEF IInv
<1>1. CASE Tick
  <2>1. clock' \in Time /\ DayOf[clock] \in Nat /\ DayOf[clock'] \in Nat /\ DayOf[clock] <= DayOf[clock']
    <3>1. clock \in Time /\ clock + 1 \in Time /\ clock' = clock + 1
      BY <1>1, FileLogAppenderAssumption DEF Tick, TypeOK, Time
    <3> QED BY <3>1, DayMonotone DEF Time
  <2>2. TypeOK'
    BY <1>1, <2>1 DEF Tick, TypeOK
  <2>3. PastOnly'
    BY <1>1, <2>1 DEF Tick, PastOnly, TypeOK, Time
  <2>4. FreshFile' /\ NotInOldFile'
    BY <1>1 DEF Tick, FreshFile, NotInOldFile
  <2> QED BY <2>2, <2>3, <2>4
<1>2. ASSUME NEW t \in Thread, Log(t) PROVE IInv'
  <2>1. TypeOK' /\ PastOnly'
    BY <1>2 DEF Log, Goto, TypeOK, PastOnly, Time
  <2>2. FreshFile'
    BY <1>2 DEF Log, Goto, TypeOK, FreshFile
  <2>3. NotInOldFile'
    BY <1>2 DEF Log, NotInOldFile
  <2> QED BY <2>1, <2>2, <2>3
<1>3. ASSUME NEW t \in Thread, Check(t) PROVE IInv'
  <2>1. TypeOK' /\ PastOnly' /\ NotInOldFile'
    BY <1>3 DEF Check, Goto, TypeOK, PastOnly, NotInOldFile
  <2>2. FreshFile'
    BY <1>3 DEF Check, Goto, TypeOK, FreshFile
  <2> QED BY <2>1, <2>2
<1>4. ASSUME NEW t \in Thread, Reopen(t) PROVE IInv'
  <2>1. PICK could \in Openable :
          LET closed == m_filestream.good \/ ~m_filestream.open
              did == closed /\ could
          IN /\ m_filestream' = IF did
                                THEN [open |-> TRUE, good |-> TRUE, day |-> DayOf[clock]]
                                ELSE [m_filestream EXCEPT !.open = ~closed, !.good = FALSE]
             /\ opened' = [opened EXCEPT ![t] = [could |-> could, did |-> did]]
    BY <1>4 DEF Reopen
  <2>a. could \in BOOLEAN
    BY DEF Openable
  <2>b. DayOf[clock] \in Nat
    BY FileLogAppenderAssumption DEF TypeOK
  <2>2. could \in BOOLEAN /\ DayOf[clock] \in Nat
    BY <2>a, <2>b
  <2>3. m_filestream' \in [open : BOOLEAN, good : BOOLEAN, day : Nat]
        /\ (m_filestream'.good => m_filestream'.day = DayOf[clock])
        /\ m_filestream'.day \in {m_filestream.day, DayOf[clock]}
    BY <2>1, <2>2 DEF TypeOK
  <2>4. opened' \in [Thread -> Outcome]
    BY <2>1, <2>2 DEF TypeOK, Outcome
  <2>5. TypeOK'
    BY <1>4, <2>3, <2>4 DEF Reopen, Goto, TypeOK
  <2>6. PastOnly'
    BY <1>4, <2>2, <2>3 DEF Reopen, PastOnly, TypeOK
  <2>7. DayOf[m_lastTime] <= DayOf[clock] /\ \A u \in Thread : DayOf[now[u]] <= DayOf[clock]
    BY DayMonotone DEF TypeOK, PastOnly
  <2>8. FreshFile'
    BY <1>4, <2>3, <2>7 DEF Reopen, FreshFile
  <2>9. NotInOldFile'
    BY <1>4 DEF Reopen, NotInOldFile
  <2> QED BY <2>5, <2>6, <2>8, <2>9
<1>5. ASSUME NEW t \in Thread, Stamp(t) PROVE IInv'
  <2>1. TypeOK' /\ PastOnly' /\ NotInOldFile'
    BY <1>5 DEF Stamp, Goto, TypeOK, PastOnly, NotInOldFile
  <2>2. FreshFile'
    BY <1>5 DEF Stamp, Goto, TypeOK, FreshFile
  <2> QED BY <2>1, <2>2
<1>6. ASSUME NEW t \in Thread, Write(t) PROVE IInv'
  <2>1. m_filestream' \in [open : BOOLEAN, good : BOOLEAN, day : Nat]
        /\ m_filestream'.day = m_filestream.day
        /\ (m_filestream'.good => m_filestream.good)
        /\ spoiled' \in BOOLEAN
    BY <1>6 DEF Write, TypeOK
  <2>2. written' \subseteq written \cup {[from |-> now[t], day |-> m_filestream.day]}
        /\ (written' # written => m_filestream.good)
    BY <1>6 DEF Write
  <2>3. TypeOK'
    BY <1>6, <2>1, <2>2 DEF Write, Goto, TypeOK
  <2>4. PastOnly' /\ FreshFile'
    BY <1>6, <2>1 DEF Write, Goto, TypeOK, PastOnly, FreshFile
  <2>5. NotInOldFile'
    BY <1>6, <2>2 DEF Write, NotInOldFile, FreshFile
  <2> QED BY <2>3, <2>4, <2>5
<1>7. CASE UNCHANGED vars
  BY <1>7 DEF vars, TypeOK, PastOnly, FreshFile, NotInOldFile
<1> QED BY <1>1, <1>2, <1>3, <1>4, <1>5, <1>6, <1>7 DEF Next

(* No event goes to the file of a day that was over when its log() began.  *)
THEOREM NeverInOldFile == Spec => []NotInOldFile
<1>1. IInv => NotInOldFile
  BY DEF IInv
<1> QED BY InitIInv, StepIInv, <1>1, PTL DEF Spec

-----------------------------------------------------------------------------
(* Until a write fails, a stream that is open is one that works: reopen()  *)
(* always closes it first.                                                 *)
OpenIsGood == ~spoiled => (m_filestream.open => m_filestream.good)

(* The constructor leaves the stream open and working, or not open.        *)
LEMMA InitOpenIsGood == Init => OpenIsGood /\ ReopenWorks
BY DEF Init, OpenIsGood, ReopenWorks, Openable

(* Only a failing write leaves a stream open that does not work.           *)
LEMMA StepOpenIsGood ==
  TypeOK /\ OpenIsGood /\ ReopenWorks /\ [Next]_vars => OpenIsGood' /\ ReopenWorks'
<1> SUFFICES ASSUME TypeOK, OpenIsGood, ReopenWorks, [Next]_vars
             PROVE  OpenIsGood' /\ ReopenWorks'
  OBVIOUS
<1>1. ASSUME NEW t \in Thread, Reopen(t) PROVE OpenIsGood' /\ ReopenWorks'
  <2>1. PICK could \in Openable :
          LET closed == m_filestream.good \/ ~m_filestream.open
              did == closed /\ could
          IN /\ m_filestream' = IF did
                                THEN [open |-> TRUE, good |-> TRUE, day |-> DayOf[clock]]
                                ELSE [m_filestream EXCEPT !.open = ~closed, !.good = FALSE]
             /\ opened' = [opened EXCEPT ![t] = [could |-> could, did |-> did]]
    BY <1>1 DEF Reopen
  <2>2. could \in BOOLEAN
    BY DEF Openable
  <2>3. spoiled' = spoiled
    BY <1>1 DEF Reopen
  <2>4. OpenIsGood'
    BY <2>1, <2>2, <2>3 DEF OpenIsGood, TypeOK
  <2>5. ~spoiled => m_filestream.good \/ ~m_filestream.open
    BY DEF OpenIsGood
  <2>6. ReopenWorks'
    BY <2>1, <2>2, <2>3, <2>5 DEF ReopenWorks, TypeOK, Outcome
  <2> QED BY <2>4, <2>6
<1>2. ASSUME NEW t \in Thread, Write(t) PROVE OpenIsGood' /\ ReopenWorks'
  BY <1>2 DEF Write, OpenIsGood, ReopenWorks, TypeOK
<1>3. CASE Tick \/ UNCHANGED vars
  BY <1>3 DEF Tick, vars, OpenIsGood, ReopenWorks
<1>4. ASSUME NEW t \in Thread, Log(t) \/ Check(t) \/ Stamp(t) PROVE OpenIsGood' /\ ReopenWorks'
  BY <1>4 DEF Log, Check, Stamp, OpenIsGood, ReopenWorks
<1> QED BY <1>1, <1>2, <1>3, <1>4 DEF Next

(* reopen() succeeds whenever it can, until a write to the file has failed.*)
THEOREM ReopenSucceeds == Spec => []ReopenWorks
<1>1. IInv => TypeOK
  BY DEF IInv
<1> QED BY InitIInv, StepIInv, InitOpenIsGood, StepOpenIsGood, <1>1, PTL DEF Spec

=============================================================================
