---------------------------- MODULE WorkerProofs ----------------------------
(***************************************************************************)
(* A worker's safety properties hold for every length of a minute and of   *)
(* the hour, every number of lives, with slow commands, kills and failing  *)
(* calls switched on or off.  The inductive invariant IInv has a part for  *)
(* each property; each part has a lemma with one step per action.           *)
(***************************************************************************)
EXTENDS Worker, TLAPS

\* Earlier runs come before t, those of this life by a minute at least.
Before(t) == \A i \in DOMAIN runs :
               runs[i].time <= t /\ (runs[i].life = life => runs[i].time + Minute <= t)

Ordered(rs) == \A i, j \in DOMAIN rs : i < j /\ rs[i] # Unread /\ rs[j] # Unread =>
                 /\ rs[i].time <= rs[j].time
                 /\ rs[i].life = rs[j].life => rs[j].time - rs[i].time >= Minute

Past(rs) == \A i \in DOMAIN rs : rs[i].time <= clock /\ rs[i].life <= life

\* RunsOrdered, in memory and on disk: the next run to be recorded is a minute
\* later than the last one of this life.
NextRunIsLater ==
  /\ Ordered(runs) /\ Ordered(runs_file.items)
  /\ Past(runs) /\ Past(runs_file.items)
  /\ execution_time <= clock
  /\ pc = "check" => Before(clock)
  /\ pc = "sleep" /\ resume = "check" => Before(wake)
  /\ pc \in {"test", "collect", "set", "truncate", "write", "push"} => Before(execution_time)
  /\ pc \in {"tosleep", "sleep"} /\ resume = "test" => Before(execution_time)

\* FilesMatchMemory and RunsFileIsBeginning: what a save has done so far.
SaveProgress ==
  /\ pc \in {"check", "tosleep", "sleep", "test", "collect", "set", "truncate", "write", "push"} =>
       ReadBack(runs_file) = runs
  /\ pc \in {"check", "tosleep", "sleep", "test", "collect", "set", "push",
            "truncate_runs", "write_runs"} => last_file = last
  /\ pc \in {"truncate", "write"} =>
       \A s \in Stream : s # stream => last_file[s] = last[s]
  /\ pc = "truncate_runs" =>
       runs # << >> /\ ReadBack(runs_file) = SubSeq(runs, 1, Len(runs) - 1)
  /\ pc = "write_runs" =>
       \/ runs_file = NoRuns
       \/ /\ runs_file.count = Len(runs)
          /\ \E k \in 1 .. Len(runs) - 1 : runs_file.items = SubSeq(runs, 1, k)
  /\ RunsFileIsBeginning

\* The scheduled minutes in which the command was not started though the worker
\* was not held up.
Missed == {m \in Nat : m % Hour \in schedule /\ m \notin started \cup busy}

\* MinutesServed: no minute is left out by the sleep or while a run is saved.
MinutesAccounted ==
  /\ pc \notin {"off", "exited"} => \A m \in since .. MinuteOf(clock) - 1 : m \notin Missed
  /\ pc = "sleep" => \A m \in since .. MinuteOf(wake) - 1 : m \notin Missed
  /\ pc \in {"tosleep", "collect"} \cup Saving => MinuteOf(clock) \notin Missed

\* A thread that is not there leaves no sign of it.
NothingLeft == pc = "off" => ~running /\ ~cancelled

IInv == /\ TypeOK
        /\ NextRunIsLater
        /\ SaveProgress
        /\ MinutesAccounted
        /\ NothingLeft

-----------------------------------------------------------------------------
\* A worker that is about to start satisfies the inductive invariant.
THEOREM InitIInv == Init => IInv
<1> SUFFICES ASSUME Init PROVE IInv
  OBVIOUS
<1> USE DEF Init, NoThread, Empty
<1>1. TypeOK
  <2>1. /\ runs \in Seq(Run) /\ runs_file \in [count : Nat, items : Seq(Run)]
        /\ last \in [Stream -> Int] /\ last_file \in [Stream -> Int]
    BY DEF NoRuns
  <2>2. running \in BOOLEAN /\ removed \in BOOLEAN /\ cancelled \in BOOLEAN
    OBVIOUS
  <2> QED
    BY <2>1, <2>2 DEF TypeOK, Stream, Saving
<1>2. NextRunIsLater
  BY DEF NextRunIsLater, Ordered, Past, Before, NoRuns
<1>3. SaveProgress
  BY DEF SaveProgress, RunsFileIsBeginning
<1>4. MinutesAccounted
  BY DEF MinutesAccounted, Saving
<1>5. NothingLeft
  BY DEF NothingLeft
<1> QED
  BY <1>1, <1>2, <1>3, <1>4, <1>5 DEF IInv

\* About minutes, the only facts of arithmetic that are needed.
LEMMA MinuteType == \A t \in Nat : MinuteOf(t) \in Nat
BY TimeAssumption DEF MinuteOf

\* Later is no earlier a minute.
LEMMA MinuteMonotone == \A s, t \in Nat : s <= t => MinuteOf(s) <= MinuteOf(t)
BY TimeAssumption DEF MinuteOf

\* A minute's length later is the next minute.
LEMMA NextMinute == \A t \in Nat : MinuteOf(t + Minute) = MinuteOf(t) + 1
BY TimeAssumption DEF MinuteOf

\* A unit of time later is the same minute or the next.
LEMMA UnitLater == \A t \in Nat : MinuteOf(t + 1) \in {MinuteOf(t), MinuteOf(t) + 1}
BY TimeAssumption DEF MinuteOf

\* What a file of runs brings back is a list of runs of the length it begins
\* with: those it holds, and unread ones.
LEMMA ReadBackFacts ==
  ASSUME NEW file \in [count : Nat, items : Seq(Run)]
  PROVE  /\ ReadBack(file) \in Seq(Run)
         /\ Len(ReadBack(file)) = file.count
         /\ DOMAIN ReadBack(file) = 1 .. file.count
         /\ \A i \in DOMAIN ReadBack(file) :
              \/ ReadBack(file)[i] = Unread
              \/ i \in DOMAIN file.items /\ ReadBack(file)[i] = file.items[i]
<1>1. Unread \in Run
  BY DEF Unread, Run
<1>2. \A i \in 1 .. file.count : i <= Len(file.items) =>
        i \in DOMAIN file.items /\ file.items[i] \in Run
  OBVIOUS
<1>3. ReadBack(file) \in [1 .. file.count -> Run]
  BY <1>1, <1>2 DEF ReadBack
<1>4. \A i \in 1 .. file.count :
        \/ ReadBack(file)[i] = Unread
        \/ i \in DOMAIN file.items /\ ReadBack(file)[i] = file.items[i]
  BY <1>2 DEF ReadBack
<1> QED
  BY <1>3, <1>4

\* A whole file brings back its list.
LEMMA WholeFacts ==
  ASSUME NEW list \in Seq(Run)
  PROVE  /\ Whole(list) \in [count : Nat, items : Seq(Run)]
         /\ ReadBack(Whole(list)) = list
<1>1. Whole(list) \in [count : Nat, items : Seq(Run)]
  BY DEF Whole
<1>2. Len(ReadBack(Whole(list))) = Len(list) /\ ReadBack(Whole(list)) \in Seq(Run)
  BY <1>1, ReadBackFacts DEF Whole
<1>3. \A i \in 1 .. Len(list) : ReadBack(Whole(list))[i] = list[i]
  BY DEF Whole, ReadBack
<1> QED
  BY <1>1, <1>2, <1>3

\* An empty file holds a list of no runs.
LEMMA NoRunsType == NoRuns \in [count : Nat, items : Seq(Run)]
BY DEF NoRuns

\* The thread leaves well-typed memory behind.
LEMMA ThreadGoneType ==
  ASSUME ThreadGone
  PROVE  runs' \in Seq(Run) /\ last' \in [Stream -> Int]
BY DEF ThreadGone, Empty

\* Every variable keeps its type.
LEMMA TypeStep ==
  ASSUME TypeOK, [Next]_vars
  PROVE  TypeOK'
<1> USE TimeAssumption
    DEF TypeOK, Stream, Saving, task, timer, command, memory, files, minutes, history
<1>1. CASE Load
  <2>1. runs' \in Seq(Run)
    BY <1>1, ReadBackFacts DEF Load
  <2> QED
    BY <1>1, <2>1 DEF Load, MinuteOf
<1>2. CASE StopRunning
  BY <1>2 DEF StopRunning
<1>3. CASE Cancel
  BY <1>3 DEF Cancel
<1>4. CASE Remove
  BY <1>4 DEF Remove
<1>5. CASE Join
  BY <1>5, ThreadGoneType DEF Join, ThreadGone
<1>6. CASE Crash
  BY <1>6, ThreadGoneType DEF Crash, ThreadGone
<1>7. CASE Check
  <2>1. /\ pc = "check" /\ execution_time' = clock
        /\ UNCHANGED <<clock, task, stream, command, memory, files, history>>
    BY <1>7 DEF Check
  <2>2. pc' \in {"test", "tosleep"} /\ resume' \in {"check", "test"} /\ UNCHANGED wake
    BY <1>7 DEF Check
  <2> QED BY <2>1, <2>2
<1>8. CASE WakeUp
  BY <1>8 DEF WakeUp
<1>9. CASE Fork
  <2>1. started' \subseteq Nat
    BY <1>9, MinuteType DEF Fork
  <2> QED
    BY <1>9, <2>1 DEF Fork
<1>10. CASE Leave
  BY <1>10 DEF Leave
<1>11. CASE Collect
  BY <1>11 DEF Collect
<1>12. CASE SetOutput
  BY <1>12 DEF SetOutput, NextStream
<1>13. CASE TruncateOutput
  BY <1>13 DEF TruncateOutput
<1>14. CASE WriteOutput
  BY <1>14 DEF WriteOutput, NextStream
<1>15. CASE PushRun
  BY <1>15 DEF PushRun, Run
<1>16. CASE TruncateRuns
  BY <1>16, NoRunsType DEF TruncateRuns
<1>17. CASE WriteRuns
  BY <1>17, WholeFacts DEF WriteRuns
<1>18. CASE BeCancelled
  BY <1>18 DEF BeCancelled
<1>19. CASE Fail
  BY <1>19 DEF Fail
<1>20. CASE ChildExits
  BY <1>20 DEF ChildExits
<1>21. CASE Tick
  <2>1. /\ clock' \in Nat
        /\ UNCHANGED <<task, pc, stream, execution_time, timer, command, memory, files,
                       life, executions, since, started>>
    BY <1>21 DEF Tick
  <2>2. busy' \subseteq Nat
    BY <1>21, <2>1, MinuteType DEF Tick, Late
  <2> QED
    BY <2>1, <2>2
<1>22. CASE UNCHANGED vars
  BY <1>22 DEF vars
<1>23. CASE Sleep
  BY <1>23 DEF Sleep, SleepFor
<1>24. CASE WriteOutputPart
  BY <1>24 DEF WriteOutputPart
<1>25. CASE WriteRunsPart
  <2>1. SubSeq(runs, 1, NextEnd) \in Seq(Run)
    BY <1>25, WriteAssumption DEF WriteRunsPart, NextEnd
  <2> QED
    BY <1>25, <2>1 DEF WriteRunsPart
<1>26. CASE Released
  BY <1>26 DEF Released
<1> QED
  BY <1>1, <1>2, <1>3, <1>4, <1>5, <1>6, <1>7, <1>8, <1>9, <1>10, <1>11, <1>12,
     <1>13, <1>14, <1>15, <1>16, <1>17, <1>18, <1>19, <1>20, <1>21, <1>22, <1>23, <1>24,
     <1>25, <1>26
  DEF Next, WorkerStep, MainStep

\* Recorded runs have a time and a life.
Dated(rs) == \A i \in DOMAIN rs : rs[i].time \in Nat /\ rs[i].life \in Nat

\* The runs of a list have a time and a life.
LEMMA DatedType == ASSUME NEW rs \in Seq(Run) PROVE Dated(rs)
<1>1. \A i \in DOMAIN rs : rs[i] \in Run
  OBVIOUS
<1> QED
  BY <1>1 DEF Dated, Run

\* The next run stays a minute behind the last one.
LEMMA RunsStep ==
  ASSUME TypeOK, NextRunIsLater, SaveProgress, [Next]_vars
  PROVE  NextRunIsLater'
<1> USE TimeAssumption
    DEF TypeOK, NextRunIsLater, Ordered, Past, Before, Dated, Saving, task, timer, command,
        memory, files, minutes, history
<1>0. Dated(runs) /\ Dated(runs_file.items)
  BY DatedType DEF TypeOK
<1>1. CASE Load
  <2>1. \A i \in DOMAIN runs' :
          \/ runs'[i] = Unread
          \/ i \in DOMAIN runs_file.items /\ runs'[i] = runs_file.items[i]
    BY <1>1, ReadBackFacts DEF Load
  <2>2. DOMAIN runs' \subseteq Nat /\ DOMAIN runs_file.items \subseteq Nat
    BY <1>1, ReadBackFacts DEF Load
  <2>3. UNCHANGED <<clock, runs_file, execution_time>> /\ life' = life + 1 /\ pc' = "check"
    BY <1>1 DEF Load
  <2>4. Ordered(runs)'
    BY <2>1, <2>2
  <2>5. Past(runs)' /\ Past(runs_file.items)' /\ Before(clock)'
    <3>1. \A i \in DOMAIN runs' : /\ runs'[i].time \in Nat /\ runs'[i].life \in Nat
                                /\ runs'[i].time <= clock /\ runs'[i].life <= life
      BY <1>0, <2>1 DEF Unread
    <3>2. \A i \in DOMAIN runs_file.items : runs_file.items[i].life <= life + 1
      BY <1>0
    <3>3. life' # life /\ life' = life + 1 /\ clock' = clock /\ runs_file' = runs_file
      BY <2>3
    <3>4. \A i \in DOMAIN runs' : runs'[i].life <= life + 1 /\ runs'[i].life # life + 1
      BY <3>1
    <3> QED
      BY <3>1, <3>2, <3>3, <3>4
  <2>6. Ordered(runs_file.items)' /\ execution_time' <= clock'
    BY <2>3
  <2> QED
    <3> HIDE DEF Ordered, Past, Before, TypeOK
    <3> QED
      BY <2>3, <2>4, <2>5, <2>6
<1>2. CASE StopRunning
  BY <1>2 DEF StopRunning
<1>3. CASE Cancel
  BY <1>3 DEF Cancel
<1>4. CASE Remove
  BY <1>4 DEF Remove
<1>5. CASE Join
  BY <1>5 DEF Join, ThreadGone
<1>6. CASE Crash
  BY <1>6 DEF Crash, ThreadGone
<1>7. CASE Check
  BY <1>7 DEF Check
<1>8. CASE WakeUp
  BY <1>0, <1>8 DEF WakeUp
<1>9. CASE Fork
  BY <1>9 DEF Fork
<1>10. CASE Leave
  BY <1>10 DEF Leave
<1>11. CASE Collect
  BY <1>11 DEF Collect
<1>12. CASE SetOutput
  BY <1>12 DEF SetOutput, NextStream
<1>13. CASE TruncateOutput
  BY <1>13 DEF TruncateOutput
<1>14. CASE WriteOutput
  BY <1>14 DEF WriteOutput, NextStream
<1>15. CASE PushRun
  <2>1. Len(runs') = Len(runs) + 1 /\ DOMAIN runs' = 1 .. Len(runs) + 1
    BY <1>15 DEF PushRun
  <2>2. \A i \in DOMAIN runs : runs'[i] = runs[i]
    BY <1>15 DEF PushRun
  <2>3. runs'[Len(runs) + 1] = [time |-> execution_time, life |-> life]
    BY <1>15 DEF PushRun
  <2>4. \A i \in DOMAIN runs' : i \in DOMAIN runs \/ i = Len(runs) + 1
    BY <2>1
  <2>5. Before(execution_time) /\ UNCHANGED <<clock, execution_time, life, runs_file>>
    BY <1>15 DEF PushRun
  <2>6. ASSUME NEW i \in DOMAIN runs', NEW j \in DOMAIN runs', i < j,
               runs'[i] # Unread, runs'[j] # Unread
        PROVE  /\ runs'[i].time <= runs'[j].time
               /\ runs'[i].life = runs'[j].life => runs'[j].time - runs'[i].time >= Minute
    <3>1. i \in DOMAIN runs
      BY <2>1, <2>6
    <3>2. CASE j \in DOMAIN runs
      <4>1. /\ runs[i].time <= runs[j].time
            /\ runs[i].life = runs[j].life => runs[j].time - runs[i].time >= Minute
        BY <2>2, <2>6, <3>1, <3>2
      <4> QED
        BY <4>1, <2>2, <3>1, <3>2
    <3>3. CASE j = Len(runs) + 1
      <4>1. /\ runs[i].time <= execution_time
            /\ runs[i].life = life => runs[i].time + Minute <= execution_time
        BY <2>5, <3>1
      <4>2. runs[i].time \in Nat
        BY <1>0, <3>1
      <4>3. runs'[i] = runs[i] /\ runs'[j].time = execution_time /\ runs'[j].life = life
        BY <2>2, <2>3, <3>1, <3>3
      <4> HIDE DEF Before, Dated
      <4> QED BY <4>1, <4>2, <4>3
    <3> QED
      BY <2>4, <3>2, <3>3
  <2>7. Past(runs)'
    <3> SUFFICES ASSUME NEW i \in DOMAIN runs'
                 PROVE  runs'[i].time <= clock /\ runs'[i].life <= life
      BY <2>5
    <3>1. CASE i \in DOMAIN runs
      BY <2>2, <3>1
    <3>2. CASE i = Len(runs) + 1
      BY <2>3, <3>2
    <3> QED
      BY <2>4, <3>1, <3>2
  <2> QED
    BY <1>15, <2>5, <2>6, <2>7 DEF PushRun
<1>16. CASE TruncateRuns
  BY <1>16 DEF TruncateRuns, NoRuns
<1>17. CASE WriteRuns
  <2>1. runs_file'.items = runs /\ UNCHANGED <<clock, execution_time, wake, runs, life>>
    BY <1>17 DEF WriteRuns, Whole
  <2>2. pc' = "tosleep" /\ resume' = "check" /\ pc = "write_runs"
    BY <1>17 DEF WriteRuns
  <2>3. Ordered(runs)' /\ Ordered(runs_file.items)' /\ Past(runs)' /\ Past(runs_file.items)'
    BY <2>1
  <2>4. execution_time' <= clock'
    BY <2>1
  <2> QED
    <3> HIDE DEF Ordered, Past, Before, TypeOK
    <3> QED
      BY <2>2, <2>3, <2>4
<1>18. CASE BeCancelled
  BY <1>18 DEF BeCancelled
<1>19. CASE Fail
  BY <1>19 DEF Fail
<1>20. CASE ChildExits
  BY <1>20 DEF ChildExits
<1>21. CASE Tick
  <2>1. clock' = clock + 1
    BY <1>21 DEF Tick
  <2>2. UNCHANGED <<pc, runs, runs_file, life, execution_time, wake, resume>>
    BY <1>21 DEF Tick
  <2>3. Past(runs)' /\ Past(runs_file.items)' /\ (Before(clock) => Before(clock)')
    BY <1>0, <2>1, <2>2
  <2> QED
    BY <2>1, <2>2, <2>3
<1>22. CASE UNCHANGED vars
  BY <1>22 DEF vars
<1>23. CASE Sleep
  <2>1. wake' = clock + Minute /\ UNCHANGED <<clock, runs, runs_file, life, execution_time, resume>>
    BY <1>23 DEF Sleep, SleepFor
  <2>2. pc = "tosleep" /\ pc' = "sleep"
    BY <1>23 DEF Sleep, SleepFor
  <2>3. Before(wake)'
    BY <1>0, <2>1
  <2>4. Past(runs)' /\ Past(runs_file.items)' /\ (Before(execution_time) => Before(execution_time)')
    BY <2>1
  <2>5. Ordered(runs)' /\ Ordered(runs_file.items)' /\ execution_time' <= clock'
    BY <2>1
  <2> QED
    <3> HIDE DEF Ordered, Past, Before, TypeOK
    <3> QED
      BY <2>1, <2>2, <2>3, <2>4, <2>5
<1>24. CASE WriteOutputPart
  BY <1>24 DEF WriteOutputPart
<1>25. CASE WriteRunsPart
  <2>1. /\ runs_file'.items = SubSeq(runs, 1, NextEnd)
        /\ DOMAIN runs_file'.items \subseteq DOMAIN runs
        /\ \A i \in DOMAIN runs_file'.items : runs_file'.items[i] = runs[i]
    <3>1. runs_file'.items = SubSeq(runs, 1, NextEnd) /\ NextEnd \in Nat /\ NextEnd < Len(runs)
      BY <1>25, WriteAssumption DEF WriteRunsPart, NextEnd
    <3> HIDE DEF NextEnd
    <3> QED
      BY <3>1
  <2>2. Ordered(runs_file'.items) /\ Past(runs_file'.items)
    BY <2>1
  <2>3. UNCHANGED <<clock, runs, life, execution_time, pc, resume>> /\ pc = "write_runs"
    BY <1>25 DEF WriteRunsPart
  <2>4. Ordered(runs)' /\ Past(runs)' /\ execution_time' <= clock'
    BY <2>3
  <2>5. Ordered(runs_file.items)' /\ Past(runs_file.items)'
    BY <2>2, <2>3
  <2> QED
    <3> HIDE DEF Ordered, Past, Before, TypeOK
    <3> QED
      BY <2>3, <2>4, <2>5
<1>26. CASE Released
  BY <1>26 DEF Released
<1> QED
  BY <1>1, <1>2, <1>3, <1>4, <1>5, <1>6, <1>7, <1>8, <1>9, <1>10, <1>11, <1>12,
     <1>13, <1>14, <1>15, <1>16, <1>17, <1>18, <1>19, <1>20, <1>21, <1>22, <1>23, <1>24,
     <1>25, <1>26, Zenon
  DEF Next, WorkerStep, MainStep

\* A save goes through its stages.
LEMMA SaveStep ==
  ASSUME TypeOK, SaveProgress, [Next]_vars
  PROVE  SaveProgress'
<1> USE DEF TypeOK, SaveProgress, RunsFileIsBeginning, Stream, Saving, task, timer, command,
            memory, files, minutes, history
<1>1. CASE Load
  BY <1>1 DEF Load
<1>2. CASE StopRunning
  BY <1>2 DEF StopRunning
<1>3. CASE Cancel
  BY <1>3 DEF Cancel
<1>4. CASE Remove
  BY <1>4 DEF Remove
<1>5. CASE Join
  BY <1>5 DEF Join, ThreadGone
<1>6. CASE Crash
  BY <1>6 DEF Crash, ThreadGone
<1>7. CASE Check
  BY <1>7 DEF Check
<1>8. CASE WakeUp
  BY <1>8 DEF WakeUp
<1>9. CASE Fork
  BY <1>9 DEF Fork
<1>10. CASE Leave
  BY <1>10 DEF Leave
<1>11. CASE Collect
  BY <1>11 DEF Collect
<1>12. CASE SetOutput
  BY <1>12 DEF SetOutput, NextStream
<1>13. CASE TruncateOutput
  BY <1>13 DEF TruncateOutput
<1>14. CASE WriteOutput
  BY <1>14 DEF WriteOutput, NextStream
<1>15. CASE PushRun
  <2>1. Len(runs') = Len(runs) + 1 /\ SubSeq(runs', 1, Len(runs)) = runs
    BY <1>15 DEF PushRun, Run
  <2>2. runs' # << >> /\ SubSeq(runs', 1, Len(runs') - 1) = runs
    BY <2>1
  <2>3. ReadBack(runs_file)' = runs /\ ReadBack(runs_file) = runs
    BY <1>15 DEF PushRun
  <2>4. pc' = "truncate_runs" /\ UNCHANGED <<last, last_file>> /\ last_file = last
    BY <1>15 DEF PushRun
  <2> QED
    BY <2>2, <2>3, <2>4
<1>16. CASE TruncateRuns
  BY <1>16 DEF TruncateRuns
<1>17. CASE WriteRuns
  BY <1>17, WholeFacts DEF WriteRuns
<1>18. CASE BeCancelled
  BY <1>18 DEF BeCancelled
<1>19. CASE Fail
  BY <1>19 DEF Fail
<1>20. CASE ChildExits
  BY <1>20 DEF ChildExits
<1>21. CASE Tick
  BY <1>21 DEF Tick
<1>22. CASE UNCHANGED vars
  BY <1>22 DEF vars
<1>23. CASE Sleep
  BY <1>23 DEF Sleep, SleepFor
<1>24. CASE WriteOutputPart
  BY <1>24 DEF WriteOutputPart
<1>25. CASE WriteRunsPart
  <2>1. /\ NextEnd \in 1 .. Len(runs) - 1
        /\ runs_file' = [count |-> Len(runs), items |-> SubSeq(runs, 1, NextEnd)]
        /\ UNCHANGED <<pc, stream, memory, last_file>> /\ pc = "write_runs"
    BY <1>25, WriteAssumption DEF WriteRunsPart, NextEnd
  <2> QED
    BY <2>1
<1>26. CASE Released
  BY <1>26 DEF Released
<1> QED
  BY <1>1, <1>2, <1>3, <1>4, <1>5, <1>6, <1>7, <1>8, <1>9, <1>10, <1>11, <1>12,
     <1>13, <1>14, <1>15, <1>16, <1>17, <1>18, <1>19, <1>20, <1>21, <1>22, <1>23, <1>24,
     <1>25, <1>26
  DEF Next, WorkerStep, MainStep

\* A range that grew by one at most.
LEMMA OneMore ==
  ASSUME NEW s \in Nat, NEW a \in Nat, NEW b \in {a, a + 1}, NEW m \in s .. b - 1
  PROVE  m \in s .. a - 1 \/ m = a
OBVIOUS

\* A sleep that starts when the current minute is accounted for accounts for all
\* minutes before its end.
LEMMA SleepCovers ==
  ASSUME clock \in Nat, since \in Nat, MinuteOf(clock) \notin Missed,
         \A m \in since .. MinuteOf(clock) - 1 : m \notin Missed
  PROVE  \A m \in since .. MinuteOf(clock + Minute) - 1 : m \notin Missed
<1>1. MinuteOf(clock) \in Nat /\ MinuteOf(clock + Minute) = MinuteOf(clock) + 1
  BY MinuteType, NextMinute
<1> QED
  BY <1>1

\* No minute is left out.
LEMMA MinutesStep ==
  ASSUME TypeOK, MinutesAccounted, [Next]_vars
  PROVE  MinutesAccounted'
<1> USE TimeAssumption, MinuteType
    DEF TypeOK, MinutesAccounted, Saving, task, timer, command, memory, files, minutes,
        history
<1>1. CASE Load
  BY <1>1 DEF Load, Missed
<1>2. CASE StopRunning
  BY <1>2 DEF StopRunning, Missed
<1>3. CASE Cancel
  BY <1>3 DEF Cancel, Missed
<1>4. CASE Remove
  BY <1>4 DEF Remove, Missed
<1>5. CASE Join
  BY <1>5 DEF Join, ThreadGone, Missed
<1>6. CASE Crash
  BY <1>6 DEF Crash, ThreadGone, Missed
<1>7. CASE Check
  <2>1. clock' = clock /\ since' = since /\ Missed' \subseteq Missed /\ pc = "check"
    BY <1>7 DEF Check, Missed
  <2>2. CASE MinuteOf(clock) % Hour \in schedule
    BY <1>7, <2>1, <2>2 DEF Check
  <2>3. CASE MinuteOf(clock) % Hour \notin schedule
    <3>1. pc' = "tosleep"
      BY <1>7, <2>3 DEF Check
    <3>2. MinuteOf(clock) \notin Missed
      BY <2>3 DEF Missed
    <3> QED
      BY <2>1, <3>1, <3>2
  <2> QED
    BY <2>2, <2>3
<1>8. CASE WakeUp
  BY <1>8 DEF WakeUp, Missed
<1>9. CASE Fork
  BY <1>9 DEF Fork, Missed
<1>10. CASE Leave
  BY <1>10 DEF Leave, Missed
<1>11. CASE Collect
  BY <1>11 DEF Collect, Missed
<1>12. CASE SetOutput
  BY <1>12 DEF SetOutput, NextStream, Missed
<1>13. CASE TruncateOutput
  BY <1>13 DEF TruncateOutput, Missed
<1>14. CASE WriteOutput
  BY <1>14 DEF WriteOutput, NextStream, Missed
<1>15. CASE PushRun
  BY <1>15 DEF PushRun, Missed
<1>16. CASE TruncateRuns
  BY <1>16 DEF TruncateRuns, Missed
<1>17. CASE WriteRuns
  BY <1>17 DEF WriteRuns, Missed
<1>18. CASE BeCancelled
  BY <1>18 DEF BeCancelled, Missed
<1>19. CASE Fail
  BY <1>19 DEF Fail, Missed
<1>20. CASE ChildExits
  BY <1>20 DEF ChildExits, Missed
<1>21. CASE Tick
  <2>1. /\ clock' = clock + 1 /\ clock' \in Nat
        /\ pc' = pc /\ wake' = wake /\ since' = since
    BY <1>21 DEF Tick
  <2>2. MinuteOf(clock') \in {MinuteOf(clock), MinuteOf(clock) + 1}
    BY <2>1, UnitLater
  <2>3. Missed' \subseteq Missed
    BY <1>21 DEF Tick, Missed
  <2>4. CASE pc \in {"off", "exited"}
    BY <2>1, <2>4
  <2>5. CASE Sleeping
    <3>1. clock' \in Nat /\ clock' <= wake /\ pc = "sleep"
      BY <2>1, <2>5 DEF Sleeping
    <3>2. MinuteOf(clock') <= MinuteOf(wake)
      BY <3>1, MinuteMonotone
    <3>3. MinuteOf(clock') \in Nat /\ MinuteOf(wake) \in Nat
      BY <3>1, MinuteType
    <3>4. \A m \in since .. MinuteOf(clock') - 1 : m \notin Missed'
      BY <2>3, <3>1, <3>2, <3>3
    <3> QED
      BY <2>1, <2>3, <3>1, <3>4
  <2>6. CASE pc \notin {"off", "exited"} /\ ~Sleeping
    <3>1. MinuteOf(clock') \in Nat /\ MinuteOf(clock) \in Nat
      BY <2>1, MinuteType
    <3>2. CASE MinuteOf(clock') = MinuteOf(clock)
      BY <2>1, <2>3, <2>6, <3>2
    <3>3. CASE MinuteOf(clock') # MinuteOf(clock)
      <4>1. /\ MinuteOf(clock) \notin Missed'
            /\ pc \in {"tosleep", "collect"} \cup Saving => MinuteOf(clock') \notin Missed'
        <5>1. CASE pc \in {"tosleep", "collect"} \cup Saving
          <6>1. busy' = busy \cup {MinuteOf(clock')}
            BY <1>21, <2>1, <2>6, <3>3, <5>1 DEF Tick, Late
          <6> QED
            BY <2>3, <5>1, <6>1 DEF Missed
        <5>2. CASE pc \notin {"tosleep", "collect"} \cup Saving
          <6>1. busy' = busy \cup {MinuteOf(clock)}
            BY <1>21, <2>1, <2>6, <3>3, <5>2 DEF Tick, Late
          <6> QED
            BY <5>2, <6>1 DEF Missed
        <5> QED
          BY <5>1, <5>2
      <4>2. \A m \in since .. MinuteOf(clock') - 1 : m \notin Missed'
        <5> SUFFICES ASSUME NEW m \in since .. MinuteOf(clock') - 1
                     PROVE  m \notin Missed'
          OBVIOUS
        <5>1. m \in since .. MinuteOf(clock) - 1 \/ m = MinuteOf(clock)
          BY <2>2, <3>1, OneMore
        <5>2. \A k \in since .. MinuteOf(clock) - 1 : k \notin Missed'
          BY <2>3, <2>6
        <5> QED
          BY <4>1, <5>1, <5>2
      <4>3. pc = "sleep" => \A m \in since .. MinuteOf(wake) - 1 : m \notin Missed'
        BY <2>3
      <4> QED
        BY <2>1, <4>1, <4>2, <4>3
    <3> QED
      BY <3>2, <3>3
  <2> QED
    BY <2>4, <2>5, <2>6
<1>22. CASE UNCHANGED vars
  BY <1>22 DEF vars, Missed
<1>23. CASE Sleep
  <2>1. /\ clock' = clock /\ since' = since /\ Missed' \subseteq Missed /\ pc = "tosleep"
        /\ pc' = "sleep" /\ wake' = clock + Minute
    BY <1>23 DEF Sleep, SleepFor, Missed
  <2> QED
    BY <2>1, SleepCovers
<1>24. CASE WriteOutputPart
  BY <1>24 DEF WriteOutputPart, Missed
<1>25. CASE WriteRunsPart
  BY <1>25 DEF WriteRunsPart, Missed
<1>26. CASE Released
  BY <1>26 DEF Released, Missed
<1> QED
  BY <1>1, <1>2, <1>3, <1>4, <1>5, <1>6, <1>7, <1>8, <1>9, <1>10, <1>11, <1>12,
     <1>13, <1>14, <1>15, <1>16, <1>17, <1>18, <1>19, <1>20, <1>21, <1>22, <1>23, <1>24,
     <1>25, <1>26
  DEF Next, WorkerStep, MainStep

\* NothingLeft.
LEMMA NothingStep ==
  ASSUME TypeOK, NothingLeft, [Next]_vars
  PROVE  NothingLeft'
<1> USE DEF NothingLeft, task, timer, command, memory, files, minutes, history
<1>1. CASE Load
  BY <1>1 DEF Load
<1>2. CASE StopRunning
  BY <1>2 DEF StopRunning
<1>3. CASE Cancel
  BY <1>3 DEF Cancel
<1>4. CASE Remove
  BY <1>4 DEF Remove
<1>5. CASE Join
  BY <1>5 DEF Join, ThreadGone
<1>6. CASE Crash
  BY <1>6 DEF Crash, ThreadGone
<1>7. CASE Check
  BY <1>7 DEF Check
<1>8. CASE WakeUp
  <2>1. pc' \in {"check", "test"}
    BY <1>8 DEF WakeUp, TypeOK
  <2> QED
    BY <2>1
<1>9. CASE Fork
  BY <1>9 DEF Fork
<1>10. CASE Leave
  BY <1>10 DEF Leave
<1>11. CASE Collect
  BY <1>11 DEF Collect
<1>12. CASE SetOutput
  BY <1>12 DEF SetOutput, NextStream
<1>13. CASE TruncateOutput
  BY <1>13 DEF TruncateOutput
<1>14. CASE WriteOutput
  BY <1>14 DEF WriteOutput, NextStream
<1>15. CASE PushRun
  BY <1>15 DEF PushRun
<1>16. CASE TruncateRuns
  BY <1>16 DEF TruncateRuns
<1>17. CASE WriteRuns
  BY <1>17 DEF WriteRuns
<1>18. CASE BeCancelled
  BY <1>18 DEF BeCancelled
<1>19. CASE Fail
  BY <1>19 DEF Fail
<1>20. CASE ChildExits
  BY <1>20 DEF ChildExits
<1>21. CASE Tick
  BY <1>21 DEF Tick
<1>22. CASE UNCHANGED vars
  BY <1>22 DEF vars
<1>23. CASE Sleep
  BY <1>23 DEF Sleep, SleepFor
<1>24. CASE WriteOutputPart
  BY <1>24 DEF WriteOutputPart
<1>25. CASE WriteRunsPart
  BY <1>25 DEF WriteRunsPart
<1>26. CASE Released
  BY <1>26 DEF Released
<1> QED
  BY <1>1, <1>2, <1>3, <1>4, <1>5, <1>6, <1>7, <1>8, <1>9, <1>10, <1>11, <1>12,
     <1>13, <1>14, <1>15, <1>16, <1>17, <1>18, <1>19, <1>20, <1>21, <1>22, <1>23, <1>24,
     <1>25, <1>26
  DEF Next, WorkerStep, MainStep


\* No step of a worker, its command or its clock leaves the inductive invariant.
THEOREM NextIInv == IInv /\ [Next]_vars => IInv'
BY TypeStep, RunsStep, SaveStep, MinutesStep, NothingStep DEF IInv

\* The inductive invariant holds in every reachable state.
THEOREM Invariance == Spec => []IInv
BY InitIInv, NextIInv, PTL DEF Spec

\* Every variable keeps its type.
THEOREM TypeCorrect == Spec => []TypeOK
<1>1. IInv => TypeOK
  BY DEF IInv
<1> QED
  BY <1>1, Invariance, PTL

\* The runs of a task are recorded in order, those of one process a minute apart.
THEOREM RunsStayOrdered == Spec => []RunsOrdered
<1>1. IInv => RunsOrdered
  BY DEF IInv, NextRunIsLater, Ordered, RunsOrdered
<1> QED
  BY <1>1, Invariance, PTL

\* Outside a save the files, read back, bring what the memory holds, wherever
\* earlier kills and cancellations cut a file.
THEOREM FilesStayCurrent == Spec => []FilesMatchMemory
<1>1. IInv => FilesMatchMemory
  BY DEF IInv, SaveProgress, FilesMatchMemory
<1> QED
  BY <1>1, Invariance, PTL

\* The `runs` file never mixes two saves, for any number of runs and wherever a
\* kill or a cancellation falls between two writes.
THEOREM RunsFileNeverMixes == Spec => []RunsFileIsBeginning
<1>1. IInv => RunsFileIsBeginning
  BY DEF IInv, SaveProgress
<1> QED
  BY <1>1, Invariance, PTL

\* No scheduled minute goes by unserved by a worker that was not held up, for any
\* length of a minute.
THEOREM MinutesAreServed == Spec => []MinutesServed
<1>1. IInv => MinutesServed
  <2> SUFFICES ASSUME IInv, pc \notin {"off", "exited"},
                      NEW m \in since .. MinuteOf(clock) - 1, m % Hour \in schedule
               PROVE  m \in started \cup busy
    BY DEF MinutesServed
  <2>1. since \in Nat /\ m \in Nat
    BY MinuteType DEF IInv, TypeOK
  <2>2. m \notin Missed
    BY DEF IInv, MinutesAccounted
  <2> QED
    BY <2>1, <2>2 DEF Missed
<1> QED
  BY <1>1, Invariance, PTL

StatusMoves == \/ Status' = Status
               \/ Status = "none" /\ Status' = "alive"
               \/ Status = "alive" /\ Status' = "cancelled"
               \/ Status \in {"alive", "cancelled"} /\ Status' = "ended"
               \/ Status = "ended" /\ Status' = "joined"
               \/ Status' = "none"

\* What a step does to the thread, as the main thread sees it.
LEMMA StatusStep ==
  ASSUME TypeOK, NothingLeft, [Next]_vars
  PROVE  StatusMoves
<1> USE DEF TypeOK, NothingLeft, StatusMoves, Status, Saving, task, timer, command,
        memory, files, minutes, history
<1>1. CASE Load
  BY <1>1 DEF Load
<1>2. CASE StopRunning
  BY <1>2 DEF StopRunning
<1>3. CASE Cancel
  BY <1>3 DEF Cancel
<1>4. CASE Remove
  BY <1>4 DEF Remove
<1>5. CASE Join
  BY <1>5 DEF Join, ThreadGone
<1>6. CASE Crash
  BY <1>6 DEF Crash, ThreadGone
<1>7. CASE Check
  BY <1>7 DEF Check
<1>8. CASE WakeUp
  <2>1. pc = "sleep" /\ pc' \in {"check", "test"} /\ UNCHANGED <<removed, cancelled>>
    BY <1>8 DEF WakeUp
  <2> QED
    BY <2>1
<1>9. CASE Fork
  BY <1>9 DEF Fork
<1>10. CASE Leave
  BY <1>10 DEF Leave
<1>11. CASE Collect
  BY <1>11 DEF Collect
<1>12. CASE SetOutput
  BY <1>12 DEF SetOutput, NextStream
<1>13. CASE TruncateOutput
  BY <1>13 DEF TruncateOutput
<1>14. CASE WriteOutput
  BY <1>14 DEF WriteOutput, NextStream
<1>15. CASE PushRun
  BY <1>15 DEF PushRun
<1>16. CASE TruncateRuns
  BY <1>16 DEF TruncateRuns
<1>17. CASE WriteRuns
  BY <1>17 DEF WriteRuns
<1>18. CASE BeCancelled
  BY <1>18 DEF BeCancelled
<1>19. CASE Fail
  BY <1>19 DEF Fail
<1>20. CASE ChildExits
  BY <1>20 DEF ChildExits
<1>21. CASE Tick
  BY <1>21 DEF Tick
<1>22. CASE UNCHANGED vars
  BY <1>22 DEF vars
<1>23. CASE Sleep
  BY <1>23 DEF Sleep, SleepFor
<1>24. CASE WriteOutputPart
  BY <1>24 DEF WriteOutputPart
<1>25. CASE WriteRunsPart
  BY <1>25 DEF WriteRunsPart
<1>26. CASE Released
  BY <1>26 DEF Released
<1> QED
  BY <1>1, <1>2, <1>3, <1>4, <1>5, <1>6, <1>7, <1>8, <1>9, <1>10, <1>11, <1>12,
     <1>13, <1>14, <1>15, <1>16, <1>17, <1>18, <1>19, <1>20, <1>21, <1>22, <1>23, <1>24,
     <1>25, <1>26
  DEF Next, WorkerStep, MainStep

\* To the main thread a worker is a thread that it creates, cancels and joins in
\* this order: the safety part of ImplementsThread.
THEOREM WorkerIsThread == Spec => Life!Init /\ [][Life!Next]_[t \in {"worker"} |-> Status]
<1>1. Init => Life!Init
  BY DEF Init, NoThread, Status, Life!Init
<1>2. ASSUME StatusMoves PROVE [Life!Next]_[t \in {"worker"} |-> Status]
  BY <1>2 DEF StatusMoves, Life!Next, Life!Exit, Life!Create, Life!Cancel, Life!End,
              Life!Join, Life!Moves
<1>3. ASSUME IInv, [Next]_vars PROVE [Life!Next]_[t \in {"worker"} |-> Status]
  BY <1>2, <1>3, StatusStep DEF IInv
<1> QED
  BY <1>1, <1>3, Invariance, PTL DEF Spec
=============================================================================
