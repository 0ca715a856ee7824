---------------------------- MODULE WebstoreLog ----------------------------
(***************************************************************************)
(* The log, src/src/webstore_log.c: one FILE and one mutex, used by every  *)
(* thread (log_add), by main on its way out (webstore_stop and log_close)  *)
(* and by alarm_handler of webstore.c, which flushes the file from inside  *)
(* whatever thread SIGALRM interrupts.  Alarms that do not flush (three of *)
(* four) change nothing here.                                              *)
(***************************************************************************)
EXTENDS Integers, Sequences

CONSTANTS
  Main,
  Workers,    \* the threads of libmicrohttpd
  Receivers,  \* the threads SIGALRM may be delivered to
  NoOwner,
  MaxLines    \* bound on the lines a worker logs

Threads == Workers \cup {Main}

ASSUME LogAssumption ==
  /\ Main \notin Workers
  /\ NoOwner \notin Threads
  /\ Receivers \subseteq Threads
  /\ MaxLines \in Nat

VARIABLES
  pc,      \* where a thread is
  handler, \* and where its alarm_handler is, on top of that: "none", or "lock",
           \* "flush", "unlock" in log_flush
  owner,   \* g_log_lock
  file,    \* what has been written: parts of lines
  open,    \* the FILE behind g_lf, which log_close leaves dangling
  armed,   \* alarm(1) is pending
  lines    \* how many lines each worker has begun

vars == <<pc, handler, owner, file, open, armed, lines>>

InLine == {"header", "message", "newline"}

(* Every variable keeps its type, and an alarm is pending exactly when no   *)
(* thread is in the handler of the one before.                              *)
TypeOK ==
  /\ pc \in [Threads -> InLine \cup {"run", "lock", "unlock", "done", "wait", "join",
                                     "close", "fclose", "closed", "exited"}]
  /\ handler \in [Threads -> {"none", "lock", "flush", "unlock"}]
  /\ owner \in Threads \cup {NoOwner}
  /\ file \in Seq([by: Threads, part: InLine])
  /\ open \in BOOLEAN
  /\ armed \in BOOLEAN
  /\ armed <=> \A t \in Threads : handler[t] = "none"
  /\ lines \in [Workers -> 0..MaxLines]

Init ==
  /\ pc = [t \in Threads |-> IF t = Main THEN "wait" ELSE "run"]
  /\ handler = [t \in Threads |-> "none"]
  /\ owner = NoOwner
  /\ file = <<>>
  /\ open = TRUE
  /\ armed = TRUE
  /\ lines = [w \in Workers |-> 0]

(* A thread goes on from one place to the next, unless it is interrupted.   *)
Moves(t, from, to) ==
  /\ pc[t] = from
  /\ handler[t] = "none"
  /\ pc' = [pc EXCEPT ![t] = to]

Acquire(t) == owner = NoOwner /\ owner' = t
Release    == owner' = NoOwner

-----------------------------------------------------------------------------
(* log_add, called by a worker's handler or by webstore_stop.               *)
LogAdd(w) ==
  /\ Moves(w, "run", "lock")
  /\ lines[w] < MaxLines
  /\ lines' = [lines EXCEPT ![w] = @ + 1]
  /\ UNCHANGED <<handler, owner, file, open, armed>>

(* Variant, to see WholeLines fail: no mutex.                               *)
Lock_NoMutex(t) ==
  /\ Moves(t, "lock", "header")
  /\ UNCHANGED <<handler, owner, file, open, armed, lines>>

Lock(t) ==
  /\ Moves(t, "lock", "header")
  /\ Acquire(t)
  /\ UNCHANGED <<handler, file, open, armed, lines>>

Part(t, part, next) ==
  /\ Moves(t, part, next)
  /\ file' = Append(file, [by |-> t, part |-> part])
  /\ UNCHANGED <<handler, owner, open, armed, lines>>

Write(t) ==
  \/ Part(t, "header", "message")
  \/ Part(t, "message", "newline")
  \/ Part(t, "newline", "unlock")

(* Variant, to see OnlyOwnMutexStops fail: the mutex is kept.                       *)
Unlock_Kept(t) ==
  /\ Moves(t, "unlock", IF t = Main THEN "close" ELSE "run")
  /\ UNCHANGED <<handler, owner, file, open, armed, lines>>

Unlock(t) ==
  /\ Moves(t, "unlock", IF t = Main THEN "close" ELSE "run")
  /\ Release
  /\ UNCHANGED <<handler, file, open, armed, lines>>

-----------------------------------------------------------------------------
(* main: a signal ends the wait loop, webstore_stop waits for the workers   *)
(* and logs "webstore shutdown", log_close closes the file.                 *)

Shutdown ==
  /\ Moves(Main, "wait", "join")
  /\ UNCHANGED <<handler, owner, file, open, armed, lines>>

(* A worker ends when its connection does.                                  *)
WorkerEnds(w) ==
  /\ Moves(w, "run", "done")
  /\ UNCHANGED <<handler, owner, file, open, armed, lines>>

(* Variant, to see ShutdownLineLast fail: the last line is logged before    *)
(* the daemon is stopped.                                                   *)
Join_NoWait ==
  /\ Moves(Main, "join", "lock")
  /\ UNCHANGED <<handler, owner, file, open, armed, lines>>

Join ==
  /\ Moves(Main, "join", "lock")
  /\ \A w \in Workers : pc[w] = "done"
  /\ UNCHANGED <<handler, owner, file, open, armed, lines>>

log_close ==
  \/ /\ Moves(Main, "close", "fclose")
     /\ Acquire(Main)
     /\ UNCHANGED <<handler, file, open, armed, lines>>
  \/ /\ Moves(Main, "fclose", "closed")
     /\ open' = FALSE
     /\ UNCHANGED <<handler, owner, file, armed, lines>>
  \/ /\ Moves(Main, "closed", "exited")
     /\ Release
     /\ UNCHANGED <<handler, file, open, armed, lines>>

-----------------------------------------------------------------------------
(* SIGALRM: alarm_handler calls log_flush and arms the next alarm.          *)
Alarm(t) ==
  /\ armed
  /\ t \in Receivers
  /\ pc[t] \notin {"done", "exited"}
  /\ pc[Main] # "exited"
  /\ armed' = FALSE
  /\ handler' = [handler EXCEPT ![t] = "lock"]
  /\ UNCHANGED <<pc, owner, file, open, lines>>

(* To flush a FILE that was closed is undefined: nothing happens, or the    *)
(* process dies.                                                            *)
Flush(t) ==
  /\ handler[t] = "flush"
  /\ handler' = [handler EXCEPT ![t] = "unlock"]
  /\ pc' \in {pc} \cup (IF open THEN {} ELSE {[pc EXCEPT ![Main] = "exited"]})
  /\ UNCHANGED <<owner, file, open, armed, lines>>

(* Variant, to see TypeOK fail: the alarm is armed before the flush.        *)
alarm_handler_ArmsFirst(t) ==
  \/ /\ handler[t] = "lock"
     /\ Acquire(t)
     /\ handler' = [handler EXCEPT ![t] = "flush"]
     /\ armed' = TRUE
     /\ UNCHANGED <<pc, file, open, lines>>
  \/ Flush(t)
  \/ /\ handler[t] = "unlock"
     /\ Release
     /\ handler' = [handler EXCEPT ![t] = "none"]
     /\ UNCHANGED <<pc, file, open, armed, lines>>

alarm_handler(t) ==
  \/ /\ handler[t] = "lock"
     /\ Acquire(t)
     /\ handler' = [handler EXCEPT ![t] = "flush"]
     /\ UNCHANGED <<pc, file, open, armed, lines>>
  \/ Flush(t)
  \/ /\ handler[t] = "unlock"
     /\ Release
     /\ handler' = [handler EXCEPT ![t] = "none"]
     /\ armed' = TRUE
     /\ UNCHANGED <<pc, file, open, lines>>

-----------------------------------------------------------------------------
Runs(t) == Lock(t) \/ Write(t) \/ Unlock(t) \/ alarm_handler(t)

MainRuns == Join \/ log_close

Next ==
  \/ \E t \in Threads : Runs(t) \/ Alarm(t)
  \/ \E w \in Workers : LogAdd(w) \/ WorkerEnds(w)
  \/ Shutdown \/ MainRuns

Spec == Init /\ [][Next]_vars

(* Threads run, also to their end, an alarm_handler first.  Alarms are a    *)
(* second apart, so the code below runs on in between (hence SF).  No alarm *)
(* and no shutdown has to come.                                             *)
FairSpec ==
  /\ Spec
  /\ \A t \in Threads : WF_vars(alarm_handler(t)) /\ SF_vars(Lock(t) \/ Write(t) \/ Unlock(t))
  /\ \A w \in Workers : SF_vars(WorkerEnds(w))
  /\ SF_vars(MainRuns)

-----------------------------------------------------------------------------
(* The three fprintf calls of a log_add are never mixed with another's,     *)
(* whatever threads log and wherever SIGALRM strikes (log_add's mutex).     *)
WholeLines ==
  \A i \in 1..Len(file) :
    LET first == i - ((i - 1) % 3)
    IN  /\ file[i].by = file[first].by
        /\ file[i].part = <<"header", "message", "newline">>[i - first + 1]

(* "webstore shutdown" is the last line of the log, and it is complete: by  *)
(* the time main writes it every worker has ended (webstore_stop), and      *)
(* nobody writes to the file once log_close has closed it.                  *)
ShutdownLineLast ==
  /\ \A i \in 1..Len(file) : file[i].by = Main => i > Len(file) - 3
  /\ ~open => Len(file) >= 3 /\ file[Len(file)] = [by |-> Main, part |-> "newline"]

-----------------------------------------------------------------------------
(* Why they hold: the inductive invariant.                                  *)

(* Below the lock of log_add or log_close, and below the lock of log_flush. *)
Logging(t)  == pc[t] \in InLine \cup {"unlock", "fclose", "closed"}
Flushing(t) == handler[t] \in {"flush", "unlock"}

(* The mutex belongs to whoever logs or flushes, to one of the two.         *)
MutexInv ==
  \A t \in Threads :
    /\ Logging(t) \/ Flushing(t) => owner = t
    /\ ~(Logging(t) /\ Flushing(t))

(* The parts of the line being written; only complete lines come before it. *)
Begun ==
  IF \E t \in Threads : pc[t] = "message" THEN 1
  ELSE IF \E t \in Threads : pc[t] = "newline" THEN 2
  ELSE 0

LineInv ==
  /\ Len(file) % 3 = Begun
  /\ Begun # 0 => file[Len(file) + 1 - Begun].by = owner

(* One alarm at a time.                                                     *)
AlarmInv ==
  \A t, u \in Threads : handler[t] # "none" /\ handler[u] # "none" => t = u

(* main runs main's code, a worker a worker's, and main does not write its  *)
(* line before the workers have ended, nor close the file before its line.  *)
BeforeJoin == {"wait", "join"}
AfterLine  == {"unlock", "close", "fclose", "closed", "exited"}

StopInv ==
  /\ pc[Main] \notin {"run", "done"}
  /\ \A w \in Workers : pc[w] \in InLine \cup {"run", "lock", "unlock", "done"}
  /\ pc[Main] \notin BeforeJoin => \A w \in Workers : pc[w] = "done"
  /\ pc[Main] \in BeforeJoin \cup {"lock", "header"} =>
       \A i \in 1..Len(file) : file[i].by # Main
  /\ pc[Main] \in InLine =>
       \A i \in 1..Len(file) : file[i].by = Main => i > Len(file) - Begun
  /\ pc[Main] \in AfterLine =>
       /\ Len(file) >= 3
       /\ file[Len(file)] = [by |-> Main, part |-> "newline"]
       /\ \A i \in 1..Len(file) : file[i].by = Main => i > Len(file) - 3
  /\ ~open => pc[Main] \in {"closed", "exited"}

IInv == TypeOK /\ MutexInv /\ LineInv /\ WholeLines /\ AlarmInv /\ StopInv

-----------------------------------------------------------------------------
(* The server that has been told to stop stops (webstore.c:145-155: "Wait   *)
(* for the sweet release of death", "Stop Services"): main gets the log     *)
(* mutex from every worker, for its last line and to close the file.        *)
LogLetsGo == pc[Main] = "join" ~> pc[Main] = "exited"

(* Nothing else stops it: as long as no alarm_handler waits for the mutex   *)
(* of the very thread it has interrupted, main gets through, wherever else  *)
(* alarms strike, and however lines, flushes and log_close contend for it.  *)
OnlyOwnMutexStops ==
  [](\A t \in Threads : ~(handler[t] = "lock" /\ owner = t)) => LogLetsGo
=============================================================================
