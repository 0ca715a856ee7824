------------------------- MODULE WebstoreLogProofs -------------------------
(***************************************************************************)
(* Proofs about WebstoreLog, for any number of threads and of lines, and   *)
(* SIGALRM delivered to any thread at any point.                           *)
(***************************************************************************)
EXTENDS WebstoreLog, SequenceTheorems, TLAPS

-----------------------------------------------------------------------------
(* The log while it is being written to.                                    *)

(* A part of a line is a part of a line.                                    *)
FilePart == [by: Threads, part: InLine]

(* An fprintf adds its part behind all others (log_add).                    *)
LEMMA Appended ==
  ASSUME NEW e \in FilePart, file \in Seq(FilePart), file' = Append(file, e)
  PROVE  /\ file' \in Seq(FilePart)
         /\ Len(file') = Len(file) + 1
         /\ \A i \in 1..Len(file) : file'[i] = file[i]
         /\ file'[Len(file) + 1] = e
         /\ Len(file) \in Nat
BY AppendProperties, LenProperties

(* A closed FILE is flushed only when main is past its end: what is         *)
(* undefined in log_flush has no effect on a thread that still runs.        *)
LEMMA FlushKeepsPc ==
  ASSUME IInv, NEW t \in Threads, Flush(t)
  PROVE  pc' = pc
<1>1. Main \in Threads /\ pc = [u \in Threads |-> pc[u]]
  BY DEF Threads, IInv, TypeOK
<1>2. CASE open BY <1>2 DEF Flush
<1>3. CASE ~open
  <2>1. pc[Main] \in {"closed", "exited"} BY <1>3 DEF IInv, StopInv
  <2>2. pc[Main] # "closed"
    <3>1. Flushing(t) BY DEF Flush, Flushing
    <3>2. pc[Main] = "closed" => Logging(Main) BY DEF Logging
    <3> QED BY <1>1, <3>1, <3>2 DEF IInv, MutexInv
  <2>3. pc[Main] = "exited" BY <2>1, <2>2
  <2> QED BY <1>1, <2>3 DEF Flush
<1> QED BY <1>2, <1>3 DEF IInv, TypeOK

(* At most one thread is below the lock of log_add or log_close.            *)
LEMMA OneLogs ==
  ASSUME IInv, NEW t \in Threads, NEW u \in Threads, Logging(t), Logging(u)
  PROVE  t = u
BY DEF IInv, MutexInv

(* The inductive invariant holds when the log has been opened.              *)
LEMMA InitIInv == Init => IInv
<1> SUFFICES ASSUME Init PROVE IInv OBVIOUS
<1> USE LogAssumption DEF Init, Threads
<1>1. TypeOK BY DEF TypeOK, InLine
<1>2. MutexInv BY DEF MutexInv, Logging, Flushing, InLine
<1>3. Len(file) = 0 BY EmptySeq
<1>4. LineInv
  <2>1. Begun = 0 BY DEF Begun
  <2> QED BY <1>3, <2>1 DEF LineInv
<1>5. WholeLines BY <1>3 DEF WholeLines
<1>6. AlarmInv BY DEF AlarmInv
<1>7. StopInv BY <1>3 DEF StopInv, BeforeJoin, AfterLine, InLine
<1> QED BY <1>1, <1>2, <1>4, <1>5, <1>6, <1>7 DEF IInv

(* No step loses the type of a variable, or arms an alarm too early.        *)
LEMMA TypeStep == IInv /\ [Next]_vars => TypeOK'
<1> SUFFICES ASSUME IInv, [Next]_vars PROVE TypeOK' OBVIOUS
<1>0. TypeOK /\ AlarmInv /\ Main \in Threads /\ Workers \subseteq Threads
  BY DEF IInv, Threads
<1> USE DEF TypeOK, Moves, Acquire, Release, InLine
<1>1. ASSUME NEW t \in Threads, Lock(t) \/ Unlock(t) PROVE TypeOK'
  <2>1. UNCHANGED <<handler, file, open, armed, lines>> /\ owner' \in Threads \cup {NoOwner}
    BY <1>0, <1>1 DEF Lock, Unlock
  <2>2. \E l \in {"header", "close", "run"} : pc' = [pc EXCEPT ![t] = l]
    BY <1>1 DEF Lock, Unlock
  <2> QED BY <1>0, <2>1, <2>2
<1>2. ASSUME NEW t \in Threads, Write(t) PROVE TypeOK'
  <2>1. PICK part \in InLine : file' = Append(file, [by |-> t, part |-> part])
    BY <1>2 DEF Write, Part
  <2>2. file' \in Seq([by: Threads, part: InLine])
    BY <1>0, <2>1, Appended DEF FilePart
  <2> QED BY <1>0, <1>2, <2>2 DEF Write, Part
<1>3. ASSUME NEW t \in Threads, Alarm(t) PROVE TypeOK'
  BY <1>0, <1>3 DEF Alarm
<1>4. ASSUME NEW t \in Threads, alarm_handler(t) PROVE TypeOK'
  <2>1. CASE Flush(t)
    <3>1. pc' = pc BY <2>1, FlushKeepsPc
    <3>2. ~armed BY <1>0, <2>1 DEF Flush
    <3> QED BY <1>0, <2>1, <3>1, <3>2 DEF Flush
  <2>2. CASE ~Flush(t)
    <3>1. UNCHANGED <<pc, file, open, lines>>
          /\ owner' \in Threads \cup {NoOwner}
          /\ handler[t] # "none"
      BY <1>4, <2>2 DEF alarm_handler
    <3>2. \/ handler' = [handler EXCEPT ![t] = "flush"] /\ UNCHANGED armed
          \/ handler' = [handler EXCEPT ![t] = "none"] /\ armed' = TRUE
      BY <1>4, <2>2 DEF alarm_handler
    <3>3. handler' \in [Threads -> {"none", "lock", "flush", "unlock"}]
      BY <1>0, <3>2
    <3>4. armed' \in BOOLEAN /\ (armed' <=> \A u \in Threads : handler'[u] = "none")
      <4>1. ~armed /\ \A u \in Threads : u # t => handler[u] = "none"
        BY <1>0, <3>1 DEF AlarmInv
      <4>2. CASE handler' = [handler EXCEPT ![t] = "flush"] /\ UNCHANGED armed
        <5>1. handler'[t] # "none" BY <1>0, <4>2
        <5> QED BY <1>0, <4>1, <4>2, <5>1
      <4>3. CASE handler' = [handler EXCEPT ![t] = "none"] /\ armed' = TRUE
        <5>1. \A u \in Threads : handler'[u] = "none" BY <1>0, <4>1, <4>3
        <5> QED BY <4>3, <5>1
      <4> QED BY <3>2, <4>2, <4>3
    <3> QED BY <1>0, <3>1, <3>3, <3>4
  <2> QED BY <2>1, <2>2
<1>5. ASSUME NEW w \in Workers, LogAdd(w) \/ WorkerEnds(w) PROVE TypeOK'
  BY <1>0, <1>5, LogAssumption DEF LogAdd, WorkerEnds
<1>6. CASE Shutdown \/ MainRuns
  <2>1. UNCHANGED <<handler, file, armed, lines>> /\ owner' \in Threads \cup {NoOwner}
        /\ (open' = open \/ open' = FALSE)
    BY <1>0, <1>6 DEF Shutdown, MainRuns, Join, log_close
  <2>2. \E l \in {"join", "lock", "fclose", "closed", "exited"} :
          pc' = [pc EXCEPT ![Main] = l]
    BY <1>6 DEF Shutdown, MainRuns, Join, log_close
  <2>3. open' \in BOOLEAN BY <1>0, <2>1
  <2> QED BY <1>0, <2>1, <2>2, <2>3
<1>7. CASE UNCHANGED vars BY <1>0, <1>7 DEF vars
<1> QED BY <1>1, <1>2, <1>3, <1>4, <1>5, <1>6, <1>7 DEF Next, Runs

(* SIGALRM comes once the handler of the last one has ended.                *)
LEMMA AlarmStep == IInv /\ [Next]_vars => AlarmInv'
<1> SUFFICES ASSUME IInv, [Next]_vars PROVE AlarmInv' OBVIOUS
<1>0. TypeOK /\ AlarmInv BY DEF IInv
<1> USE DEF AlarmInv
<1>1. ASSUME UNCHANGED handler PROVE AlarmInv' BY <1>0, <1>1
<1>2. ASSUME NEW t \in Threads, Alarm(t) PROVE AlarmInv'
  BY <1>0, <1>2 DEF Alarm, TypeOK
<1>3. ASSUME NEW t \in Threads, alarm_handler(t) PROVE AlarmInv'
  BY <1>0, <1>3 DEF alarm_handler, Flush, TypeOK
<1>4. ASSUME NEW t \in Threads, Lock(t) \/ Write(t) \/ Unlock(t) PROVE UNCHANGED handler
  BY <1>4 DEF Lock, Write, Part, Unlock
<1>5. ASSUME NEW w \in Workers, LogAdd(w) \/ WorkerEnds(w) PROVE UNCHANGED handler
  BY <1>5 DEF LogAdd, WorkerEnds
<1>6. CASE Shutdown \/ MainRuns \/ UNCHANGED vars
  BY <1>0, <1>6 DEF Shutdown, MainRuns, Join, log_close, vars
<1> QED BY <1>1, <1>2, <1>3, <1>4, <1>5, <1>6 DEF Next, Runs

(* The log's mutex keeps log_add, log_close and log_flush apart, also when  *)
(* they meet in one thread (webstore_log.c).                                *)
LEMMA MutexStep == IInv /\ [Next]_vars => MutexInv'
<1> SUFFICES ASSUME IInv, [Next]_vars PROVE MutexInv' OBVIOUS
<1>0. TypeOK /\ MutexInv /\ Main \in Threads /\ Workers \subseteq Threads
  BY DEF IInv, Threads
<1> USE LogAssumption DEF MutexInv, Logging, Flushing, Moves, Acquire, Release, InLine
<1>1. ASSUME NEW t \in Threads, Lock(t) PROVE MutexInv'
  BY <1>0, <1>1 DEF Lock, TypeOK
<1>2. ASSUME NEW t \in Threads, Write(t) PROVE MutexInv'
  BY <1>0, <1>2 DEF Write, Part, TypeOK
<1>3. ASSUME NEW t \in Threads, Unlock(t) PROVE MutexInv'
  BY <1>0, <1>3 DEF Unlock, TypeOK
<1>4. ASSUME NEW t \in Threads, Alarm(t) PROVE MutexInv'
  BY <1>0, <1>4 DEF Alarm, TypeOK
<1>5. ASSUME NEW t \in Threads, alarm_handler(t) PROVE MutexInv'
  <2>1. CASE Flush(t)
    BY <1>0, <2>1, FlushKeepsPc DEF Flush, TypeOK
  <2>2. CASE ~Flush(t)
    BY <1>0, <1>5, <2>2 DEF alarm_handler, TypeOK
  <2> QED BY <2>1, <2>2
<1>6. ASSUME NEW w \in Workers, LogAdd(w) \/ WorkerEnds(w) PROVE MutexInv'
  BY <1>0, <1>6 DEF LogAdd, WorkerEnds, TypeOK
<1>7. CASE Shutdown \/ MainRuns
  BY <1>0, <1>7 DEF Shutdown, MainRuns, Join, log_close, TypeOK
<1>8. CASE UNCHANGED vars BY <1>0, <1>8 DEF vars
<1> QED BY <1>1, <1>2, <1>3, <1>4, <1>5, <1>6, <1>7, <1>8 DEF Next, Runs

(* Each fprintf continues the line that is being written, and nobody else's *)
(* part comes in between (log_add).                                         *)
LEMMA LineStep == IInv /\ [Next]_vars => LineInv' /\ WholeLines'
<1> SUFFICES ASSUME IInv, [Next]_vars PROVE LineInv' /\ WholeLines' OBVIOUS
<1>0. /\ LineInv /\ WholeLines
      /\ pc \in [Threads -> InLine \cup {"run", "lock", "unlock", "done", "wait", "join",
                                        "close", "fclose", "closed", "exited"}]
      /\ file \in Seq(FilePart) /\ Len(file) \in Nat
      /\ Main \in Threads /\ Workers \subseteq Threads
  BY LenProperties DEF IInv, TypeOK, Threads, FilePart
<1> USE DEF Moves, InLine
(* A step in which nobody writes and nobody begins or ends a line.          *)
<1>1. ASSUME UNCHANGED file, Begun' = Begun, Begun # 0 => UNCHANGED owner
      PROVE  LineInv' /\ WholeLines'
  BY <1>0, <1>1 DEF LineInv, WholeLines
<1>2. ASSUME NEW t \in Threads, NEW l \in {"header", "close", "run", "lock", "done", "join",
                                          "fclose", "closed", "exited"},
             pc' = [pc EXCEPT ![t] = l], pc[t] \notin {"message", "newline"}
      PROVE  Begun' = Begun
  BY <1>0, <1>2 DEF Begun
<1>3. Begun # 0 => \E t \in Threads : Logging(t) /\ owner = t
                     /\ \/ pc[t] = "message" /\ Begun = 1
                        \/ pc[t] = "newline" /\ Begun = 2
  BY DEF Begun, IInv, MutexInv, Logging
<1>4. ASSUME NEW t \in Threads, Lock(t) PROVE LineInv' /\ WholeLines'
  <2>1. Begun' = Begun /\ UNCHANGED file BY <1>2, <1>4 DEF Lock
  <2>2. Begun = 0 BY <1>3, <1>4, LogAssumption DEF Lock, Acquire
  <2> QED BY <1>1, <2>1, <2>2
<1>5. ASSUME NEW t \in Threads, Unlock(t) PROVE LineInv' /\ WholeLines'
  <2>1. Begun' = Begun /\ UNCHANGED file
    <3>1. \E l \in {"close", "run"} : pc' = [pc EXCEPT ![t] = l] BY <1>5 DEF Unlock
    <3> QED BY <1>2, <1>5, <3>1 DEF Unlock
  <2>2. Begun = 0
    <3>1. Logging(t) BY <1>5 DEF Unlock, Logging
    <3> QED BY <1>3, <1>5, <3>1, OneLogs DEF Unlock
  <2> QED BY <1>1, <2>1, <2>2
<1>6. ASSUME NEW t \in Threads, Write(t) PROVE LineInv' /\ WholeLines'
  <2>1. PICK part \in InLine, next \in {"message", "newline", "unlock"} :
          /\ Part(t, part, next)
          /\ \/ part = "header" /\ next = "message"
             \/ part = "message" /\ next = "newline"
             \/ part = "newline" /\ next = "unlock"
    BY <1>6 DEF Write
  <2> DEFINE e == [by |-> t, part |-> part]
             n == Len(file)
  <2>2. /\ Len(file') = n + 1
        /\ \A i \in 1..n : file'[i] = file[i]
        /\ file'[n + 1] = e
    BY <1>0, <2>1, Appended DEF Part, FilePart
  <2>3. owner = t /\ owner' = owner /\ Logging(t)
    BY <2>1 DEF Part, Logging, IInv, MutexInv
  <2>4. \A u \in Threads : u # t => pc[u] \notin InLine /\ pc'[u] = pc[u]
    BY <1>0, <2>1, <2>3, OneLogs DEF Part, Logging
  <2>5. pc[t] = part /\ pc'[t] = next BY <1>0, <2>1 DEF Part
  <2>6. Begun = IF part = "header" THEN 0 ELSE IF part = "message" THEN 1 ELSE 2
    BY <2>1, <2>4, <2>5 DEF Begun
  <2>7. Begun' = IF part = "header" THEN 1 ELSE IF part = "message" THEN 2 ELSE 0
    BY <2>1, <2>4, <2>5 DEF Begun
  <2>8. LineInv'
    BY <1>0, <2>1, <2>2, <2>3, <2>6, <2>7 DEF LineInv
  <2>9. WholeLines'
    <3> DEFINE first(i) == i - ((i - 1) % 3)
               Whole(f, i) == /\ f[i].by = f[first(i)].by
                              /\ f[i].part = <<"header", "message", "newline">>[i - first(i) + 1]
    <3>1. ASSUME NEW i \in 1..n PROVE Whole(file', i)
      <4>1. Whole(file, i) BY <1>0 DEF WholeLines
      <4>2. first(i) \in 1..n BY <1>0
      <4> QED BY <2>2, <4>1, <4>2
    <3>2. Whole(file', n + 1)
      <4>1. first(n + 1) = n + 1 - Begun /\ Begun \in 0..2
        BY <1>0, <2>6 DEF LineInv
      <4>2. file'[n + 1].by = t /\ file'[n + 1].part = part BY <2>2
      <4>3. part = <<"header", "message", "newline">>[Begun + 1] BY <2>1, <2>6
      <4>4. Begun # 0 => n + 1 - Begun \in 1..n /\ file[n + 1 - Begun].by = t
        BY <1>0, <2>3, <4>1 DEF LineInv
      <4>5. file'[n + 1 - Begun].by = t BY <2>2, <4>1, <4>2, <4>4
      <4>6. (n + 1) - first(n + 1) + 1 = Begun + 1 BY <1>0, <4>1
      <4> QED BY <4>1, <4>2, <4>3, <4>5, <4>6
    <3>3. \A i \in 1..Len(file') : Whole(file', i)
      <4> HIDE DEF Whole
      <4>1. \A i \in 1..(n + 1) : i \in 1..n \/ i = n + 1 BY <1>0
      <4> QED BY <2>2, <3>1, <3>2, <4>1
    <3> QED BY <3>3 DEF WholeLines
  <2> QED BY <2>8, <2>9
<1>7. ASSUME NEW t \in Threads, Alarm(t) \/ alarm_handler(t) PROVE LineInv' /\ WholeLines'
  <2>1. UNCHANGED <<pc, file>>
    <3>1. CASE Flush(t) BY <3>1, FlushKeepsPc DEF Flush
    <3>2. CASE ~Flush(t) BY <1>7, <3>2 DEF Alarm, alarm_handler
    <3> QED BY <3>1, <3>2
  <2>2. Begun' = Begun BY <2>1 DEF Begun
  <2>3. Begun # 0 => UNCHANGED owner
    <3>1. ASSUME Begun # 0, handler[t] = "unlock" PROVE FALSE
      <4>1. PICK u \in Threads : Logging(u) /\ owner = u BY <1>3, <3>1
      <4>2. Flushing(t) BY <3>1 DEF Flushing
      <4> QED BY <4>1, <4>2 DEF IInv, MutexInv
    <3>2. Begun # 0 => owner # NoOwner BY <1>3, LogAssumption
    <3> QED BY <1>7, <3>1, <3>2 DEF Alarm, alarm_handler, Flush, Acquire
  <2> QED BY <1>1, <2>1, <2>2, <2>3
<1>8. ASSUME NEW w \in Workers, LogAdd(w) \/ WorkerEnds(w) PROVE LineInv' /\ WholeLines'
  <2>1. UNCHANGED <<file, owner>> BY <1>8 DEF LogAdd, WorkerEnds
  <2>2. Begun' = Begun
    <3>1. pc[w] = "run" /\ \E l \in {"lock", "done"} : pc' = [pc EXCEPT ![w] = l]
      BY <1>8 DEF LogAdd, WorkerEnds
    <3> QED BY <1>0, <1>2, <3>1
  <2> QED BY <1>1, <2>1, <2>2
<1>9. CASE Shutdown \/ MainRuns
  <2>1. /\ UNCHANGED file
        /\ pc[Main] \in {"wait", "join", "close", "fclose", "closed"}
        /\ \E l \in {"join", "lock", "fclose", "closed", "exited"} :
             pc' = [pc EXCEPT ![Main] = l]
    BY <1>9 DEF Shutdown, MainRuns, Join, log_close
  <2>2. Begun' = Begun BY <1>0, <1>2, <2>1
  <2>3. UNCHANGED owner \/ owner = NoOwner \/ pc[Main] = "closed"
    BY <1>9 DEF Shutdown, MainRuns, Join, log_close, Acquire
  <2>4. Begun # 0 => owner # NoOwner /\ pc[Main] # "closed"
    <3>1. pc[Main] = "closed" => Logging(Main) BY DEF Logging
    <3> QED BY <1>0, <1>3, <3>1, OneLogs, LogAssumption
  <2> QED BY <1>1, <2>1, <2>2, <2>3, <2>4
<1>10. CASE UNCHANGED vars
  BY <1>1, <1>10 DEF vars, Begun
<1> QED BY <1>4, <1>5, <1>6, <1>7, <1>8, <1>9, <1>10 DEF Next, Runs

(* main writes "webstore shutdown" when every worker has ended, and closes  *)
(* the file behind it (webstore_stop, log_close).                           *)
LEMMA StopStep == IInv /\ [Next]_vars => StopInv'
<1> SUFFICES ASSUME IInv, [Next]_vars PROVE StopInv' OBVIOUS
<1>0. /\ StopInv
      /\ pc \in [Threads -> InLine \cup {"run", "lock", "unlock", "done", "wait", "join",
                                        "close", "fclose", "closed", "exited"}]
      /\ file \in Seq(FilePart) /\ Len(file) \in Nat
      /\ Main \in Threads /\ Workers \subseteq Threads /\ Main \notin Workers
      /\ \A t \in Threads : t # Main => t \in Workers
  BY LenProperties, LogAssumption DEF IInv, TypeOK, Threads, FilePart
<1> USE DEF Moves, InLine, BeforeJoin, AfterLine
(* A worker's step, before main has joined it.                              *)
<1>1. ASSUME NEW w \in Workers, NEW l \in InLine \cup {"run", "lock", "unlock", "done"},
             pc[w] # "done", pc' = [pc EXCEPT ![w] = l], UNCHANGED open,
             \/ UNCHANGED file
             \/ \E part \in InLine : file' = Append(file, [by |-> w, part |-> part])
      PROVE  StopInv'
  <2>1. pc[Main] \in BeforeJoin /\ pc'[Main] = pc[Main] BY <1>0, <1>1 DEF StopInv
  <2>2. \A u \in Workers : pc'[u] = IF u = w THEN l ELSE pc[u] BY <1>0, <1>1
  <2>3. \A i \in 1..Len(file') : file'[i].by # Main
    <3>1. \A i \in 1..Len(file) : file[i].by # Main BY <1>0, <2>1 DEF StopInv
    <3>2. CASE UNCHANGED file BY <3>1, <3>2
    <3>3. CASE \E part \in InLine : file' = Append(file, [by |-> w, part |-> part])
      <4>1. PICK part \in InLine : file' = Append(file, [by |-> w, part |-> part])
        BY <3>3
      <4>2. [by |-> w, part |-> part] \in FilePart BY <1>0 DEF FilePart
      <4>3. /\ Len(file') = Len(file) + 1
            /\ \A i \in 1..Len(file) : file'[i] = file[i]
            /\ file'[Len(file) + 1] = [by |-> w, part |-> part]
        BY <1>0, <4>1, <4>2, Appended
      <4>4. w # Main BY <1>0
      <4> QED BY <1>0, <3>1, <4>3, <4>4
    <3> QED BY <1>1, <3>2, <3>3
  <2> QED BY <1>0, <1>1, <2>1, <2>2, <2>3 DEF StopInv
(* A step of main that writes nothing.                                      *)
<1>2. ASSUME UNCHANGED file, NEW l, pc' = [pc EXCEPT ![Main] = l], open' = open \/ l = "closed",
             \/ pc[Main] = "wait"  /\ l = "join"
             \/ pc[Main] = "join"  /\ l = "lock" /\ \A w \in Workers : pc[w] = "done"
             \/ pc[Main] = "lock"  /\ l = "header"
             \/ pc[Main] = "unlock" /\ l = "close"
             \/ pc[Main] = "close" /\ l = "fclose"
             \/ pc[Main] = "fclose" /\ l = "closed"
             \/ pc[Main] = "closed" /\ l = "exited"
      PROVE  StopInv'
  <2>1. pc'[Main] = l /\ \A w \in Workers : pc'[w] = pc[w] BY <1>0, <1>2
  <2>2. ASSUME l = "header"
        PROVE  /\ \A i \in 1..Len(file) : file[i].by # Main
               /\ \A i \in 1..Len(file') : file'[i].by # Main
    BY <1>0, <1>2, <2>2 DEF StopInv
  <2> QED BY <1>0, <1>2, <2>1, <2>2 DEF StopInv
<1>3. ASSUME UNCHANGED <<pc, file, open>> PROVE StopInv'
  BY <1>0, <1>3 DEF StopInv, Begun
(* main writes its line.                                                    *)
<1>4. ASSUME Write(Main) PROVE StopInv'
  <2>1. PICK part \in InLine, next \in {"message", "newline", "unlock"} :
          /\ Part(Main, part, next)
          /\ \/ part = "header" /\ next = "message"
             \/ part = "message" /\ next = "newline"
             \/ part = "newline" /\ next = "unlock"
    BY <1>4 DEF Write
  <2> DEFINE e == [by |-> Main, part |-> part]
             n == Len(file)
  <2>2. /\ Len(file') = n + 1
        /\ \A i \in 1..n : file'[i] = file[i]
        /\ file'[n + 1] = e /\ e.by = Main
    BY <1>0, <2>1, Appended DEF Part, FilePart
  <2>3. /\ pc[Main] = part /\ pc'[Main] = next /\ open' = open
        /\ \A w \in Workers : pc[w] = "done" /\ pc'[w] = "done"
    BY <1>0, <2>1 DEF Part, StopInv
  <2>4. \A u \in Threads : u # Main => pc[u] = "done" /\ pc'[u] = "done"
    BY <1>0, <2>3
  <2>5. Begun = IF part = "header" THEN 0 ELSE IF part = "message" THEN 1 ELSE 2
    BY <1>0, <2>1, <2>3, <2>4 DEF Begun
  <2>6. Begun' = IF part = "header" THEN 1 ELSE IF part = "message" THEN 2 ELSE 0
    BY <1>0, <2>1, <2>3, <2>4 DEF Begun
  <2>7. \A i \in 1..n : file[i].by = Main => i > n - Begun
    BY <1>0, <2>3 DEF StopInv
  <2>8. \A i \in 1..(n + 1) : file'[i].by = Main => i > (n + 1) - (Begun + 1)
    BY <1>0, <2>2, <2>5, <2>7
  <2>9. open' BY <1>0, <2>3 DEF StopInv
  <2>10. CASE part # "newline"
    BY <1>0, <2>1, <2>2, <2>3, <2>5, <2>6, <2>8, <2>9, <2>10 DEF StopInv
  <2>11. CASE part = "newline"
    <3>1. n % 3 = 2 BY <2>5, <2>11 DEF IInv, LineInv
    <3>2. n + 1 >= 3 BY <1>0, <3>1
    <3> QED BY <1>0, <2>1, <2>2, <2>3, <2>5, <2>8, <2>9, <2>11, <3>2 DEF StopInv
  <2> QED BY <2>10, <2>11
<1>5. ASSUME NEW t \in Threads, Lock(t) \/ Write(t) \/ Unlock(t) PROVE StopInv'
  <2>1. CASE t = Main
    <3>1. CASE Lock(t) BY <1>2, <2>1, <3>1 DEF Lock
    <3>2. CASE Unlock(t) BY <1>2, <2>1, <3>2 DEF Unlock
    <3> QED BY <1>4, <1>5, <2>1, <3>1, <3>2
  <2>2. CASE t # Main
    <3>1. t \in Workers BY <1>0, <2>2
    <3>2. CASE Lock(t) \/ Unlock(t) BY <1>1, <2>2, <3>1, <3>2 DEF Lock, Unlock
    <3>3. CASE Write(t) BY <1>1, <3>1, <3>3 DEF Write, Part
    <3> QED BY <1>5, <3>2, <3>3
  <2> QED BY <2>1, <2>2
<1>6. ASSUME NEW t \in Threads, Alarm(t) \/ alarm_handler(t) PROVE StopInv'
  <2>1. CASE Flush(t) BY <1>3, <2>1, FlushKeepsPc DEF Flush
  <2>2. CASE ~Flush(t) BY <1>3, <1>6, <2>2 DEF Alarm, alarm_handler
  <2> QED BY <2>1, <2>2
<1>7. ASSUME NEW w \in Workers, LogAdd(w) \/ WorkerEnds(w) PROVE StopInv'
  BY <1>1, <1>7 DEF LogAdd, WorkerEnds
<1>8. CASE Shutdown \/ Join
  BY <1>2, <1>8 DEF Shutdown, Join
<1>9. CASE log_close
  BY <1>2, <1>9 DEF log_close
<1>10. CASE UNCHANGED vars BY <1>3, <1>10 DEF vars
<1> QED BY <1>5, <1>6, <1>7, <1>8, <1>9, <1>10 DEF Next, Runs, MainRuns

-----------------------------------------------------------------------------
(* The inductive invariant of the log holds in every reachable state.       *)
THEOREM Invariant == Spec => []IInv
<1>1. IInv /\ [Next]_vars => IInv'
  BY TypeStep, MutexStep, LineStep, AlarmStep, StopStep DEF IInv
<1> QED BY InitIInv, <1>1, PTL DEF Spec

(* Every variable keeps its type, and SIGALRM is pending exactly when no    *)
(* thread is in alarm_handler: handlers do not pile up, whichever threads   *)
(* they interrupt.                                                          *)
THEOREM TypeCorrect == Spec => []TypeOK
<1>1. IInv => TypeOK BY DEF IInv
<1> QED BY Invariant, <1>1, PTL

(* The three fprintf calls of a log_add stay together, whatever other       *)
(* threads log and wherever SIGALRM strikes.                                *)
THEOREM LinesAreWhole == Spec => []WholeLines
<1>1. IInv => WholeLines BY DEF IInv
<1> QED BY Invariant, <1>1, PTL

(* "webstore shutdown" is the last line, complete when the file is closed   *)
(* (webstore_stop joins the daemon's threads before it logs).               *)
THEOREM LastLine == Spec => []ShutdownLineLast
<1>1. ASSUME IInv PROVE ShutdownLineLast
  <2>1. /\ StopInv /\ Len(file) \in Nat /\ Begun \in 0..2
        /\ pc[Main] \in InLine \cup {"run", "lock", "unlock", "done", "wait", "join",
                                    "close", "fclose", "closed", "exited"}
    BY <1>1, LenProperties DEF IInv, TypeOK, Begun, Threads
  <2> QED BY <2>1 DEF ShutdownLineLast, StopInv, BeforeJoin, AfterLine, InLine
<1> QED BY Invariant, <1>1, PTL
=============================================================================
