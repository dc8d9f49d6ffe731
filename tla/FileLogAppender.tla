--------------------------- MODULE FileLogAppender ---------------------------
(***************************************************************************)
(* mocker::FileLogAppender (mocker/log.h, mocker/log.cpp): a file named    *)
(* after the day it was opened on.  log() reopens it once a second, and    *)
(* only then does the name follow the calendar.                            *)
(*                                                                         *)
(* An appender is shared by the threads of all loggers it is added to.     *)
(* reopen() and the write hold its lock in turn; the clock and m_lastTime  *)
(* are read, and m_lastTime is written, without it.  m_lastTime is an      *)
(* aligned 64-bit word: a racing load returns the old or the new value.    *)
(***************************************************************************)
EXTENDS Naturals

CONSTANTS
  Thread,   \* threads that log through this appender
  MaxTime,  \* bound: the last second
  DayOf,    \* the local calendar day of a second
  Faults    \* what the file system does: "openFails", "writeFails"

Time == 0..MaxTime

(* The clock of the machine is not set back, nor is the local date.        *)
ASSUME FileLogAppenderAssumption ==
  /\ MaxTime \in Nat \ {0}
  /\ DayOf \in [Time -> Nat]
  /\ \A s, t \in Time : s <= t => DayOf[s] <= DayOf[t]
  /\ Faults \subseteq {"openFails", "writeFails"}

VARIABLES
  clock,         \* time(nullptr)
  m_lastTime,    \* the second of the last reopen()
  m_filestream,  \* is_open(), !fail(), and the day in the name of the file
  pc,            \* where each thread is in log()
  now,           \* log()'s local now
  opened,        \* each thread's last reopen(): could the file be opened, was it
  spoiled,       \* history: a write to the open file has failed
  written        \* history: when the call of a written event began, and its file

vars == <<clock, m_lastTime, m_filestream, pc, now, opened, spoiled, written>>

Outcome == [could : BOOLEAN, did : BOOLEAN]

(* One type for every variable.                                            *)
TypeOK ==
  /\ clock \in Time
  /\ m_lastTime \in Time
  /\ m_filestream \in [open : BOOLEAN, good : BOOLEAN, day : Nat]
  /\ pc \in [Thread -> {"idle", "check", "reopen", "stamp", "write"}]
  /\ now \in [Thread -> Time]
  /\ opened \in [Thread -> Outcome]
  /\ spoiled \in BOOLEAN
  /\ written \subseteq [from : Time, day : Nat]

Openable == IF "openFails" \in Faults THEN BOOLEAN ELSE {TRUE}

(* The constructor's reopen(), of a stream never opened.                   *)
Init ==
  /\ clock = 1
  /\ m_lastTime = 0
  /\ \E could \in Openable :
       m_filestream = [open |-> could, good |-> could, day |-> DayOf[1]]
  /\ pc = [t \in Thread |-> "idle"]
  /\ now = [t \in Thread |-> 0]
  /\ opened = [t \in Thread |-> [could |-> FALSE, did |-> FALSE]]
  /\ spoiled = FALSE
  /\ written = {}

Goto(t, where) == pc' = [pc EXCEPT ![t] = where]

-----------------------------------------------------------------------------
Tick ==
  /\ clock < MaxTime
  /\ clock' = clock + 1
  /\ UNCHANGED <<m_lastTime, m_filestream, pc, now, opened, spoiled, written>>

(* log() of an event whose level reaches the appender's.                   *)
Log(t) ==
  /\ pc[t] = "idle"
  /\ now' = [now EXCEPT ![t] = clock]
  /\ Goto(t, "check")
  /\ UNCHANGED <<clock, m_lastTime, m_filestream, opened, spoiled, written>>

(* Mutant of Check: m_lastTime is brought up to date before the file.      *)
CheckStamps(t) ==
  /\ pc[t] = "check"
  /\ m_lastTime' = now[t]
  /\ Goto(t, IF now[t] # m_lastTime THEN "reopen" ELSE "write")
  /\ UNCHANGED <<clock, m_filestream, now, opened, spoiled, written>>

Check(t) ==
  /\ pc[t] = "check"
  /\ Goto(t, IF now[t] # m_lastTime THEN "reopen" ELSE "write")
  /\ UNCHANGED <<clock, m_lastTime, m_filestream, now, opened, spoiled, written>>

(* Mutant of Reopen: the file that is open is not closed.                  *)
ReopenOnTop(t) ==
  /\ pc[t] = "reopen"
  /\ \E could \in Openable :
       LET did == ~m_filestream.open /\ could IN
         /\ m_filestream' = [open |-> m_filestream.open \/ did, good |-> did,
                             day |-> DayOf[clock]]
         /\ opened' = [opened EXCEPT ![t] = [could |-> could, did |-> did]]
  /\ Goto(t, "stamp")
  /\ UNCHANGED <<clock, m_lastTime, now, spoiled, written>>

(* reopen(), which asks for the time again.  A stream that has failed is   *)
(* not closed, and open() of a stream that is open fails.                  *)
Reopen(t) ==
  /\ pc[t] = "reopen"
  /\ \E could \in Openable :
       LET closed == m_filestream.good \/ ~m_filestream.open
           did == closed /\ could
       IN /\ m_filestream' = IF did
                             THEN [open |-> TRUE, good |-> TRUE, day |-> DayOf[clock]]
                             ELSE [m_filestream EXCEPT !.open = ~closed, !.good = FALSE]
          /\ opened' = [opened EXCEPT ![t] = [could |-> could, did |-> did]]
  /\ Goto(t, "stamp")
  /\ UNCHANGED <<clock, m_lastTime, now, spoiled, written>>

Stamp(t) ==
  /\ pc[t] = "stamp"
  /\ m_lastTime' = now[t]
  /\ Goto(t, "write")
  /\ UNCHANGED <<clock, m_filestream, now, opened, spoiled, written>>

(* A stream that has failed takes nothing, and nobody is told.             *)
Write(t) ==
  /\ pc[t] = "write"
  /\ Goto(t, "idle")
  /\ \/ /\ m_filestream.good
        /\ written' = written \cup {[from |-> now[t], day |-> m_filestream.day]}
        /\ UNCHANGED <<m_filestream, spoiled>>
     \/ /\ m_filestream.good /\ "writeFails" \in Faults
        /\ m_filestream' = [m_filestream EXCEPT !.good = FALSE]
        /\ spoiled' = TRUE
        /\ UNCHANGED written
     \/ /\ ~m_filestream.good
        /\ UNCHANGED <<m_filestream, spoiled, written>>
  /\ UNCHANGED <<clock, m_lastTime, now, opened>>

Next == Tick \/ \E t \in Thread : Log(t) \/ Check(t) \/ Reopen(t) \/ Stamp(t) \/ Write(t)

Spec == Init /\ [][Next]_vars

-----------------------------------------------------------------------------
(* Properties                                                              *)

(* An event is never written to the file of a day that was over when its   *)
(* log() began, although m_lastTime, which stands for "the file is up to   *)
(* date", is shared without the lock (log.cpp:592-596).                    *)
NotInOldFile == \A w \in written : DayOf[w.from] <= w.day

(* log.cpp:619, "Reopen the file": when the file can be opened,        *)
(* reopen() leaves it open, also after it could not be for a while, as     *)
(* long as no write has failed.                                            *)
ReopenWorks == \A t \in Thread : opened[t].could => opened[t].did \/ spoiled

=============================================================================
