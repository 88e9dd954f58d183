------------------------------ MODULE Logger -------------------------------
(* The log buffers of src/logger.c: any thread appends lines to the buffer in *)
(* use, one worker thread writes buffers to the log file, and two semaphores  *)
(* wake them.  Each critical section of esq_logger_spin is one action; the    *)
(* semaphores are posted, and the file is written, outside of it.             *)
EXTENDS Integers, Sequences, FiniteSets, SequencesExt

CONSTANTS Threads,      \* threads that call esq_log
          BufCnt,       \* LOGBUFCNT
          BufSize,      \* LOGBUFSIZE
          Sizes,        \* lengths of formatted lines, 0 for an empty one
          MaxLines,     \* bound: calls of esq_log
          MaxChanges,   \* bound: calls of ChangeLogFile
          IoErrors      \* whether writing may fail

ASSUME LoggerAssumption == /\ BufCnt \in Nat \ {0, 1}
                           /\ BufSize \in Nat \ {0}
                           /\ Sizes \subseteq Nat
                           /\ {MaxLines, MaxChanges} \subseteq Nat
                           /\ IoErrors \in BOOLEAN

VARIABLES
  buf,          \* esq_logger_buf, _offset and _state of each buffer
  user_idx, worker_idx,
  user_sem, worker_sem,
  stop_flag, change_flag,
  disk,         \* the lines in the log disk, one file after the other
  fd,           \* whether a file is open
  io_error,     \* "none", "recent", "old": how long ago, by esq_logger_last_io_error_time
  wpc, left,    \* where the worker is; how many of its last flushes are left
  pc, size,     \* where each thread is and the length of the line it logs
  calls, changes,
  accepted,     \* not in the program: the lines for which esq_log returned ESQ_OK
  dropped,      \* not in the program: the lines thrown away after an error
  refused       \* not in the program: whether a line was empty or too long

vars == <<buf, user_idx, worker_idx, user_sem, worker_sem, stop_flag, change_flag, disk, fd,
          io_error, wpc, left, pc, size, calls, changes, accepted, dropped, refused>>

Bufs == 0 .. BufCnt - 1
Lines == [id : 1 .. MaxLines, size : Sizes]
EmptyBuf == [state |-> "EMPTY", offset |-> 0, lines |-> <<>>]

NextIdx(i) == IF i + 1 >= BufCnt THEN 0 ELSE i + 1

Init ==
  /\ buf = [i \in Bufs |-> EmptyBuf]
  /\ user_idx = 0 /\ worker_idx = 0
  /\ user_sem = 0 /\ worker_sem = 0
  /\ stop_flag = FALSE /\ change_flag = FALSE
  /\ disk = <<>> /\ fd = FALSE
  /\ io_error = "none"
  /\ wpc = "sem_wait" /\ left = 0
  /\ pc = [t \in Threads |-> "out"] /\ size = [t \in Threads |-> 0]
  /\ calls = 0 /\ changes = 0
  /\ accepted = <<>> /\ dropped = {} /\ refused = FALSE

-----------------------------------------------------------------------------
(* esq_log *)

\* The buffer a line is printed to: the one in use, or the next if that is full.
Usable(i) == IF buf[i].state = "FULL" THEN NextIdx(i) ELSE i

\* Mutant: the next buffer is taken although it has not been written yet.
NeverBlocked(i) == FALSE
Blocked(i) == buf[i].state = "FULL" /\ buf[NextIdx(i)].state # "EMPTY"

InUse(i) == IF buf[user_idx].state = "FULL" THEN [EmptyBuf EXCEPT !.state = "USE"]
            ELSE [buf[i] EXCEPT !.state = "USE"]

\* Mutant: room for the end mark is asked for twice, and a long line never fits.
FitsTwoEndMarks(r, offset) == r < BufSize - offset - 1
Fits(r, offset) == r < BufSize - offset

\* What one pass through the loop of esq_log does while it holds the lock, with a
\* line of r characters.  A call that finds stop_flag set returns at once.
Pass(t, r) ==
  LET i == Usable(user_idx)
      b == InUse(i)
      line == [id |-> Len(accepted) + 1, size |-> r]
      fits == Fits(r, b.offset)
      bad == r <= 0 \/ r >= BufSize
  IN /\ user_idx' = i
     /\ buf' = [buf EXCEPT ![i] = IF bad THEN b
                                 ELSE IF fits THEN [b EXCEPT !.offset = @ + r, !.lines = Append(@, line)]
                                 ELSE [b EXCEPT !.state = "FULL"]]
     /\ pc' = [pc EXCEPT ![t] = IF bad THEN "out" ELSE IF fits THEN "logged" ELSE "log"]
     /\ accepted' = IF ~bad /\ fits THEN Append(accepted, line) ELSE accepted
     /\ refused' = (refused \/ bad)

NoRoom(t) ==
  /\ pc' = [pc EXCEPT ![t] = "blocked"]
  /\ UNCHANGED <<buf, user_idx, accepted, refused>>

Log(t, r) ==
  /\ IF Blocked(user_idx) THEN NoRoom(t) ELSE Pass(t, r)
  /\ size' = [size EXCEPT ![t] = IF pc'[t] \in {"out", "logged"} THEN 0 ELSE r]
  /\ UNCHANGED <<worker_idx, user_sem, worker_sem, stop_flag, change_flag, disk, fd, io_error, wpc,
                 left, changes, dropped>>

Call(t) ==
  /\ pc[t] = "out" /\ ~stop_flag /\ calls < MaxLines
  /\ calls' = calls + 1
  /\ \E r \in Sizes : Log(t, r)

Again(t) ==
  /\ pc[t] = "log" /\ ~stop_flag
  /\ Log(t, size[t])
  /\ UNCHANGED calls

\* The semaphores posted when a line is in its buffer, and when there is no room for it.
Logged(t) ==
  /\ pc[t] = "logged"
  /\ worker_sem' = worker_sem + 1
  /\ user_sem' = user_sem + 1
  /\ pc' = [pc EXCEPT ![t] = "out"]
  /\ UNCHANGED <<buf, user_idx, worker_idx, stop_flag, change_flag, disk, fd, io_error, wpc, left,
                 size, calls, changes, accepted, dropped, refused>>

Block(t) ==
  /\ pc[t] = "blocked"
  /\ worker_sem' = worker_sem + 1
  /\ pc' = [pc EXCEPT ![t] = "sem_wait"]
  /\ UNCHANGED <<buf, user_idx, worker_idx, user_sem, stop_flag, change_flag, disk, fd, io_error, wpc,
                 left, size, calls, changes, accepted, dropped, refused>>

Wake(t) ==
  /\ pc[t] = "sem_wait" /\ user_sem > 0
  /\ user_sem' = user_sem - 1
  /\ pc' = [pc EXCEPT ![t] = "log"]
  /\ UNCHANGED <<buf, user_idx, worker_idx, worker_sem, stop_flag, change_flag, disk, fd, io_error,
                 wpc, left, size, calls, changes, accepted, dropped, refused>>

-----------------------------------------------------------------------------
(* esq_logger_worker *)

\* Mutant: the buffer in use is not counted among those to flush at the end.
LastFlushesButOne == BufCnt - 1
LastFlushes == BufCnt

WorkerWake ==
  /\ wpc = "sem_wait" /\ worker_sem > 0
  /\ worker_sem' = worker_sem - 1
  /\ wpc' = "flush"
  /\ left' = IF stop_flag THEN LastFlushes ELSE 0
  /\ UNCHANGED <<buf, user_idx, worker_idx, user_sem, stop_flag, change_flag, disk, fd, io_error, pc,
                 size, calls, changes, accepted, dropped, refused>>

\* How many times NextIdx leads from i to j.
Ahead(i, j) == IF i <= j THEN j - i ELSE j - i + BufCnt

\* The buffer the worker looks at first.
First == IF worker_idx = user_idx THEN NextIdx(worker_idx) ELSE worker_idx

Flushable(i) == buf[i].state # "EMPTY"

\* Where the worker goes when esq_logger_flush_one_buffer returns.
Flushed == wpc' = "flushed" /\ user_sem' = user_sem + 1

PauseIsOver == io_error = "old"

\* The first critical section of esq_logger_flush_one_buffer.
FlushNothing ==
  /\ wpc = "flush" /\ ~PauseIsOver
  /\ \A i \in Bufs : ~Flushable(i)
  /\ Flushed
  /\ UNCHANGED <<buf, user_idx, worker_idx, worker_sem, stop_flag, change_flag, disk, fd, io_error,
                 left, pc, size, calls, changes, accepted, dropped, refused>>

FlushPick ==
  /\ wpc = "flush" /\ ~PauseIsOver
  /\ \E i \in Bufs :
       /\ Flushable(i) /\ \A j \in Bufs : Flushable(j) => Ahead(First, i) <= Ahead(First, j)
       /\ worker_idx' = i
       /\ buf' = [buf EXCEPT ![i].state = "FULL"]
       /\ IF buf[i].offset = 0
          THEN Flushed
          ELSE wpc' = "write" /\ UNCHANGED user_sem
  /\ UNCHANGED <<user_idx, worker_sem, stop_flag, change_flag, disk, fd, io_error, left, pc, size, calls,
                 changes, accepted, dropped, refused>>

\* esq_logger_flush_to_disk, which opens a new file when none is open.
Write ==
  /\ wpc = "write"
  /\ disk' = disk \o buf[worker_idx].lines
  /\ fd' = TRUE
  /\ wpc' = "clear"
  /\ UNCHANGED <<buf, user_idx, worker_idx, user_sem, worker_sem, stop_flag, change_flag, io_error,
                 left, pc, size, calls, changes, accepted, dropped, refused>>

\* The file cannot be opened, or takes only the first of the lines.
WriteError ==
  /\ wpc = "write" /\ IoErrors
  /\ \/ ~fd /\ UNCHANGED <<disk, fd>>
     \/ \E n \in 0 .. Len(buf[worker_idx].lines) - 1 :
          disk' = disk \o SubSeq(buf[worker_idx].lines, 1, n) /\ fd' = TRUE
  /\ io_error' = "recent"
  /\ wpc' = "drop"
  /\ UNCHANGED <<buf, user_idx, worker_idx, user_sem, worker_sem, stop_flag, change_flag, left, pc,
                 size, calls, changes, accepted, dropped, refused>>

Clear ==
  /\ wpc = "clear"
  /\ buf' = [buf EXCEPT ![worker_idx] = EmptyBuf]
  /\ Flushed
  /\ UNCHANGED <<user_idx, worker_idx, worker_sem, stop_flag, change_flag, disk, fd, io_error, left,
                 pc, size, calls, changes, accepted, dropped, refused>>

\* All buffers are emptied after an error, and once more at each flush when the
\* pause after the error is over (the test compares that way round).
DropAll ==
  /\ wpc = "drop" \/ (wpc = "flush" /\ PauseIsOver)
  /\ dropped' = dropped \cup UNION {Range(buf[i].lines) : i \in Bufs}
  /\ buf' = [i \in Bufs |-> EmptyBuf]
  /\ user_idx' = 0 /\ worker_idx' = 0
  /\ Flushed
  /\ UNCHANGED <<worker_sem, stop_flag, change_flag, disk, fd, io_error, left, pc, size, calls,
                 changes, accepted, refused>>

\* After a flush: a new file if one was asked for; at the end the next of the
\* last flushes, or the end of the thread.
AfterFlush ==
  /\ wpc = "flushed"
  /\ left' = IF left = 0 THEN 0 ELSE left - 1
  /\ wpc' = CASE left = 0 -> "sem_wait" [] left = 1 -> "ended" [] OTHER -> "flush"
  /\ change_flag' = IF left = 0 THEN FALSE ELSE change_flag
  /\ fd' = IF left = 1 \/ (left = 0 /\ change_flag) THEN FALSE ELSE fd
  /\ UNCHANGED <<buf, user_idx, worker_idx, user_sem, worker_sem, stop_flag, disk, io_error, pc, size, calls,
                 changes, accepted, dropped, refused>>

-----------------------------------------------------------------------------
(* The rest of the program *)

ChangeLogFile ==
  /\ ~stop_flag /\ changes < MaxChanges
  /\ changes' = changes + 1
  /\ change_flag' = TRUE
  /\ worker_sem' = worker_sem + 1
  /\ UNCHANGED <<buf, user_idx, worker_idx, user_sem, stop_flag, disk, fd, io_error, wpc, left, pc,
                 size, calls, accepted, dropped, refused>>

\* main stops the worker threads and the modules before it detaches the logger.
Detach ==
  /\ ~stop_flag
  /\ \A t \in Threads : pc[t] = "out"
  /\ stop_flag' = TRUE
  /\ user_sem' = user_sem + 1
  /\ worker_sem' = worker_sem + 1
  /\ UNCHANGED <<buf, user_idx, worker_idx, change_flag, disk, fd, io_error, wpc, left, pc, size, calls,
                 changes, accepted, dropped, refused>>

PauseEnds ==
  /\ io_error = "recent"
  /\ io_error' = "old"
  /\ UNCHANGED <<buf, user_idx, worker_idx, user_sem, worker_sem, stop_flag, change_flag, disk, fd,
                 wpc, left, pc, size, calls, changes, accepted, dropped, refused>>

UserStep(t) == Again(t) \/ Logged(t) \/ Block(t) \/ Wake(t)

WorkerStep == \/ WorkerWake \/ FlushNothing \/ FlushPick \/ Write \/ WriteError
              \/ Clear \/ DropAll \/ AfterFlush

Next == \/ \E t \in Threads : Call(t) \/ UserStep(t)
        \/ WorkerStep \/ ChangeLogFile \/ Detach \/ PauseEnds

Spec == /\ Init /\ [][Next]_vars
        /\ WF_vars(WorkerStep)
        /\ \A t \in Threads : WF_vars(UserStep(t))

-----------------------------------------------------------------------------
(* Properties *)

\* The files hold the lines in the order in which esq_log accepted them, each once,
\* although loggers and worker go round the buffers independently and start again
\* at the first after an error (logger.c:152-172, 283-305, 214-220).
WrittenOnceInOrder ==
  \A i, j \in DOMAIN disk : i < j => disk[i].id < disk[j].id

\* A line that was accepted is in a file, in a buffer, or was thrown away after an
\* error; nothing is added to a buffer between its writing and its clearing, with
\* the lock released meanwhile (logger.c:183-199).
NoLineVanishes ==
  \A l \in Range(accepted) : \/ l \in Range(disk) \/ l \in dropped
                             \/ \E i \in Bufs : l \in Range(buf[i].lines)

\* Every line that was accepted is kept until it is written, once and in order.
LinesAreKept == WrittenOnceInOrder /\ NoLineVanishes

\* The last flushes, one for each buffer, leave nothing behind, unless writing failed
\* or a call was refused: a refused call leaves a buffer in use without data, which
\* the worker marks full, never empties and never gets past (logger.c:176-181, 310-317).
AllWrittenAtEnd ==
  wpc = "ended" /\ io_error = "none" /\ ~refused => disk = accepted

\* A thread that finds all buffers full gets on in the end: it wakes the worker before
\* it sleeps and each flush wakes one thread, whoever takes the room that was made
\* (logger.c:290-294, 200, 225).  Refused calls are excepted as above.
CallsReturn == \A t \in Threads : pc[t] # "out" ~> (pc[t] = "out" \/ refused)
=============================================================================
