------------------------------ MODULE Dispatch ------------------------------
(* How the master thread and several workers start, share new sessions, wake *)
(* each other and stop.  The shared state is the list of contexts, the       *)
(* pointer esq_worker_ctx_rr into it and the global list of new sessions,    *)
(* each under esq_global_lock; the wake-ups are SIGUSR1, which cuts a wait   *)
(* short and is otherwise swallowed by an empty handler.                     *)
(*                                                                           *)
(* What a worker does with its own sessions is the subject of EsqWorker; a   *)
(* session here only sleeps, is called back and ends.  The callback of a     *)
(* session that has seen EXIT ends it.                                       *)
EXTENDS Naturals, Sequences, FiniteSets, SequencesExt

CONSTANTS
    Workers,        \* one per processor (get_nprocs)
    Sessions,       \* sessions that can be made
    NoWorker

ASSUME WorkersAssumption == IsFiniteSet(Workers) /\ Workers # {} /\ NoWorker \notin Workers

VARIABLES
    list,           \* esq_worker_ctx_list, its head first
    rr,             \* esq_worker_ctx_rr, or NoWorker for NULL
    new,            \* esq_global_new_head .. esq_global_new_tail
    stop,           \* esq_server_stop_flag
    usr1,           \* what SIGUSR1 is bound to, in the whole process
    wpc,            \* where each worker thread is
    wpend,          \* workers with a pending (masked) SIGUSR1
    wflag,          \* workers with esq_worker_stop_session_flag
    mpc,            \* where the master thread is
    mmask,          \* the master masks its signals
    mpend,          \* the master's pending signals
    tries,          \* sleeps of eight seconds so far
    ss,             \* where each session is
    at,             \* the worker of each session
    told,           \* sessions with ESQ_EVENT_BIT_EXIT
    asked,          \* history: somebody asked the server to stop
    full,           \* history: eight second sleeps at the start, not cut short
    late,           \* history: sessions the master posted during a stop
    missed          \* history: workers signalled where nothing waits for it

shared == <<list, rr, new>>
signals == <<stop, usr1, wpend, mmask, mpend>>
sessions == <<ss, at, told>>
history == <<asked, full, late, missed>>
vars == <<shared, signals, wpc, wflag, mpc, tries, sessions, history>>

Cpus == Cardinality(Workers)

-----------------------------------------------------------------------------
(* Signals. *)

\* Places of a worker before esq_worker_thread_open_signals.
Masked == {"start", "handler", "listed", "ready"}

\* Where a signal changes what a worker does next: it waits for a completion,
\* or a callback blocks in read().
Interrupted(pc) == CASE pc = "waiting" -> "after"
                     [] pc = "chat" -> "loop"
                     [] OTHER -> pc

\* pthread_kill(ctx->pthread, SIGUSR1) for the workers in K, w being the
\* caller, which goes on at pc (NoWorker: the master calls).
Kill(K, w, pc) ==
    /\ wpc' = [v \in Workers |-> IF v = w THEN pc
                                 ELSE IF v \in K THEN Interrupted(wpc[v]) ELSE wpc[v]]
    /\ wpend' = wpend \cup {v \in K : wpc[v] \in Masked}
    /\ missed' = (missed \ {v \in K : wpc[v] = "waiting"})
                 \cup {v \in K : wpc[v] \in {"looked", "leaving", "dead"}}
    /\ stop' = (stop \/ (usr1 = "stop" /\ \E v \in K : wpc[v] \notin Masked))

\* Mutant: a pointer at the end of the list is not set back to its head.
RrTargetOnce == rr

\* esq_wake_up_worker_thread_rr: the context to signal.
RrTarget == IF rr = NoWorker THEN (IF list = <<>> THEN NoWorker ELSE Head(list)) ELSE rr

\* Where the context of w is in the list.
Place(w) == CHOOSE i \in 1 .. Len(list) : list[i] = w

\* ctx->next.
NextOf(w) == IF Place(w) = Len(list) THEN NoWorker ELSE list[Place(w) + 1]

WakeRr(w, pc) ==
    LET t == RrTarget
    IN /\ Kill({t} \ {NoWorker}, w, pc)
       /\ rr' = IF t = NoWorker THEN NoWorker ELSE NextOf(t)

\* esq_wake_up_all_worker_thread.
WakeAll(w, pc) == Kill(Range(list), w, pc)

\* esq_wake_up_master_thread: the sleep the master is in ends, the signal
\* stays pending, or the handler returns to what the master was doing.
AfterSleep == [sleep8 |-> "check8", sleep100 |-> "check100", sleep1 |-> "stopping"]

SignalMaster(sig) ==
    IF mmask
    THEN /\ mpend' = mpend \cup {sig}
         /\ UNCHANGED <<mpc, stop>>
    ELSE /\ mpc' = IF mpc \in DOMAIN AfterSleep THEN AfterSleep[mpc] ELSE mpc
         /\ stop' = (stop \/ sig = "term" \/ usr1 = "stop")
         /\ UNCHANGED mpend

-----------------------------------------------------------------------------
(* The master: esq_start_worker_threads. *)

\* main() has not returned.
Up == mpc \notin {"over", "failed", "nothreads"}

\* Mutant: the master does not mask its signals.
MasterMaskNot == mmask' = FALSE

\* esq_master_thread_mask_signals; the threads made later inherit the mask.
MasterMask == mmask' = TRUE

MaskSignals ==
    /\ mpc = "begin"
    /\ MasterMask
    /\ mpc' = "create"
    /\ UNCHANGED <<shared, stop, usr1, wpend, mpend, wpc, wflag, tries, sessions, history>>

\* pthread_create for every processor; one that fails ends the process.
CreateWorker ==
    /\ mpc = "create"
    /\ \/ /\ \E w \in Workers : wpc[w] = "none"
          /\ LET w == CHOOSE v \in Workers : wpc[v] = "none"
             IN wpc' = [wpc EXCEPT ![w] = "start"]
          /\ mpc' \in {"create", "nothreads"}
       \/ /\ \A w \in Workers : wpc[w] # "none"
          /\ mpc' = "handlers"
          /\ UNCHANGED wpc
    /\ UNCHANGED <<shared, signals, wflag, tries, sessions, history>>

\* esq_install_master_thread_signal_handlers binds every signal of its list,
\* SIGUSR1 included, to esq_set_server_stop_flag ...
BindStop ==
    /\ mpc = "handlers"
    /\ usr1' = "stop"
    /\ mpc' = "notify"
    /\ UNCHANGED <<shared, stop, wpend, mmask, mpend, wpc, wflag, tries, sessions, history>>

\* ... and then SIGUSR1 to the empty handler.
BindNotify ==
    /\ mpc = "notify"
    /\ usr1' = "dummy"
    /\ mpc' = "open"
    /\ UNCHANGED <<shared, stop, wpend, mmask, mpend, wpc, wflag, tries, sessions, history>>

\* esq_master_thread_open_signals: pending signals are delivered at once.
OpenSignals ==
    /\ mpc = "open"
    /\ mmask' = FALSE
    /\ mpend' = {}
    /\ stop' = (stop \/ "term" \in mpend \/ ("usr1" \in mpend /\ usr1 = "stop"))
    /\ mpc' = "sleep8"
    /\ UNCHANGED <<shared, usr1, wpend, wpc, wflag, tries, sessions, history>>

\* sleep() runs its full time.
SleepEnds ==
    /\ mpc \in DOMAIN AfterSleep
    /\ mpc' = AfterSleep[mpc]
    /\ full' = IF mpc = "sleep8" THEN full + 1 ELSE full
    /\ UNCHANGED <<shared, signals, wpc, wflag, tries, sessions, asked, late, missed>>

\* The loop that waits for the workers: up to two sleeps per processor.
Patience == 2 * Cpus

CountStarted ==
    /\ mpc = "check8"
    /\ \/ /\ Len(list) = Cpus
          /\ mpc' = "configure" /\ tries' = 0 /\ full' = 0
       \/ /\ Len(list) # Cpus
          /\ mpc' = IF tries + 1 < Patience THEN "sleep8" ELSE "failed"
          /\ tries' = tries + 1
          /\ UNCHANGED full
    /\ UNCHANGED <<shared, signals, wpc, wflag, sessions, asked, late, missed>>

(* main(): the arguments, the main loop and the stop. *)

\* esq_join_global_new_list, of the next session that is made.
Unborn == {s \in Sessions : ss[s] = "unborn"}
Fresh == CHOOSE s \in Unborn : TRUE
Joined(s) == new' = Append(new, s)

\* A module or the configuration starts a listener: esq_session_wind_up_rr.
MasterPosts ==
    /\ mpc = "configure" /\ Unborn # {}
    /\ Joined(Fresh)
    /\ ss' = [ss EXCEPT ![Fresh] = "new"]
    /\ late' = IF stop THEN late \cup {Fresh} ELSE late
    /\ mpc' = "posted"
    /\ UNCHANGED <<list, rr, signals, wpc, wflag, tries, at, told, asked, full, missed>>

MasterWakes ==
    /\ mpc = "posted"
    /\ WakeRr(NoWorker, "none")
    /\ mpc' = "configure"
    /\ UNCHANGED <<list, new, usr1, mmask, mpend, wflag, tries, sessions, asked, full, late>>

\* esq_process_arguments returns: on an error main() goes on to stop the
\* workers, without setting the stop flag.
Configured ==
    /\ mpc = "configure"
    /\ mpc' \in {"sleep100", "stopping"}
    /\ UNCHANGED <<shared, signals, wpc, wflag, tries, sessions, history>>

\* esq_main_thread_loop.
LookAtStop ==
    /\ mpc = "check100"
    /\ mpc' = IF stop THEN "stopping" ELSE "sleep100"
    /\ UNCHANGED <<shared, signals, wpc, wflag, tries, sessions, history>>

\* esq_stop_worker_threads: wake everybody, then count who is left.
WakeToStop ==
    /\ mpc = "stopping"
    /\ WakeAll(NoWorker, "none")
    /\ mpc' = "count"
    /\ UNCHANGED <<shared, usr1, mmask, mpend, wflag, tries, sessions, asked, full, late>>

NobodyLeft == list = <<>>

\* Mutant: the workers are woken once.
CountLeftForGood ==
    /\ mpc = "count"
    /\ mpc' = IF NobodyLeft THEN "over" ELSE "count"
    /\ UNCHANGED <<shared, signals, wpc, wflag, tries, sessions, history>>

CountLeft ==
    /\ mpc = "count"
    /\ mpc' = IF NobodyLeft THEN "over" ELSE "sleep1"
    /\ UNCHANGED <<shared, signals, wpc, wflag, tries, sessions, history>>

\* SIGTERM, SIGINT, ... from outside; the workers mask them.
Interrupt ==
    /\ ~asked /\ mpc # "begin"
    /\ asked' = TRUE
    /\ SignalMaster("term")
    /\ UNCHANGED <<shared, usr1, wpend, mmask, wpc, wflag, tries, sessions, full, late, missed>>

MasterStep ==
    \/ MaskSignals \/ CreateWorker \/ BindStop \/ BindNotify \/ OpenSignals
    \/ SleepEnds \/ CountStarted \/ MasterWakes \/ Configured \/ LookAtStop
    \/ WakeToStop \/ CountLeft

-----------------------------------------------------------------------------
(* A worker: the start of esq_worker_loop. *)

Goto(w, from, to) == wpc[w] = from /\ wpc' = [wpc EXCEPT ![w] = to]

InstallNotify(w) ==
    /\ Goto(w, "start", "handler")
    /\ usr1' = "dummy"
    /\ UNCHANGED <<shared, stop, wpend, mmask, mpend, wflag, mpc, tries, sessions, history>>

\* esq_worker_ctx_init joins the list first ...
JoinContexts(w) ==
    /\ Goto(w, "handler", "listed")
    /\ list' = <<w>> \o list
    /\ UNCHANGED <<rr, new, signals, wflag, mpc, tries, sessions, history>>

\* ... and then makes the ring; a thread whose ring fails returns and leaves
\* its context in the list.
MakeRing(w) ==
    /\ \/ Goto(w, "listed", "ready") /\ UNCHANGED missed
       \/ Goto(w, "listed", "dead") /\ missed' = missed \cup (wpend \cap {w})
    /\ UNCHANGED <<shared, signals, wflag, mpc, tries, sessions, asked, full, late>>

OpenWorker(w) ==
    /\ Goto(w, "ready", "opened")
    /\ wpend' = wpend \ {w}
    /\ stop' = (stop \/ (w \in wpend /\ usr1 = "stop"))
    /\ UNCHANGED <<shared, usr1, mmask, mpend, wflag, mpc, tries, sessions, history>>

\* esq_wake_up_master_thread, when the worker has started, when it has left,
\* and at the end of esq_stop_server_on_purpose.
TellMaster(w) ==
    /\ \/ Goto(w, "opened", "loop")
       \/ Goto(w, "left", "gone")
       \/ Goto(w, "purposed", "loop")
    /\ SignalMaster("usr1")
    /\ UNCHANGED <<shared, usr1, wpend, mmask, wflag, tries, sessions, history>>

(* The loop. *)

Mine(w) == {s \in Sessions : at[s] = w}
Active(w) == {s \in Mine(w) : ss[s] = "active"}

\* The session at the head of the active list is called.  It goes back to
\* sleep or ends; a session that was told to exit ends.
Freed(s) ==
    /\ ss' = [ss EXCEPT ![s] = "over"]
    /\ at' = [at EXCEPT ![s] = NoWorker]
    /\ told' = told \ {s}

Callback(w, s) ==
    /\ wpc[w] = "loop" /\ s \in Active(w)
    /\ \/ s \in told /\ Freed(s)
       \/ s \notin told /\ ss' = [ss EXCEPT ![s] = "asleep"] /\ UNCHANGED <<at, told>>
    /\ UNCHANGED <<shared, signals, wpc, wflag, mpc, tries, history>>

Ends(w, s) ==
    /\ wpc[w] = "loop" /\ s \in Active(w) \ told
    /\ Freed(s)
    /\ UNCHANGED <<shared, signals, wpc, wflag, mpc, tries, history>>

\* The callback makes a session and winds it up with esq_session_wind_up_rr:
\* first the list, then the signal.
WorkerPosts(w, s) ==
    /\ s \in Active(w) \ told /\ Unborn # {}
    /\ Goto(w, "loop", "posted")
    /\ Joined(Fresh)
    /\ ss' = [ss EXCEPT ![s] = "asleep", ![Fresh] = "new"]
    /\ UNCHANGED <<list, rr, signals, wflag, mpc, tries, at, told, history>>

WorkerWakes(w) ==
    /\ wpc[w] = "posted"
    /\ WakeRr(w, "loop")
    /\ UNCHANGED <<list, new, usr1, mmask, mpend, wflag, mpc, tries, sessions, asked, full, late>>

\* The callback calls esq_session_notify_exit_to_all_sessions: first the
\* flags, then the signals.
NotifyExitToAll(w, s) ==
    /\ s \in Active(w) \ told
    /\ Goto(w, "loop", "notified")
    /\ ss' = [ss EXCEPT ![s] = "asleep"]
    /\ wflag' = wflag \cup Range(list)
    /\ UNCHANGED <<shared, signals, mpc, tries, at, told, history>>

WakeNotified(w) ==
    /\ wpc[w] = "notified"
    /\ WakeAll(w, "loop")
    /\ UNCHANGED <<shared, usr1, mmask, mpend, wflag, mpc, tries, sessions, asked, full, late>>

\* The callback calls esq_stop_server_on_purpose.
StopOnPurpose(w, s) ==
    /\ s \in Active(w) \ told
    /\ Goto(w, "loop", "purposed")
    /\ ss' = [ss EXCEPT ![s] = "asleep"]
    /\ stop' = TRUE
    /\ asked' = TRUE
    /\ UNCHANGED <<shared, usr1, wpend, mmask, mpend, wflag, mpc, tries, at, told, full, late, missed>>

\* The callback of host control accepts a connection and reads the command
\* from a blocking socket, until it comes or a signal interrupts it.
Chat(w, s) ==
    /\ s \in Active(w) \ told
    /\ Goto(w, "loop", "chat")
    /\ ss' = [ss EXCEPT ![s] = "asleep"]
    /\ UNCHANGED <<shared, signals, wflag, mpc, tries, at, told, history>>

CommandArrives(w) ==
    /\ Goto(w, "chat", "loop")
    /\ UNCHANGED <<shared, signals, wflag, mpc, tries, sessions, history>>

\* esq_worker_pick_up_from_global_list looks at the head without the lock and
\* then takes one session after the other.
LooksForNew(w) ==
    /\ Active(w) = {} /\ new # <<>>
    /\ Goto(w, "loop", "picking")
    /\ UNCHANGED <<shared, signals, wflag, mpc, tries, sessions, history>>

WithoutHead == Tail(new)

PicksUp(w) ==
    /\ wpc[w] = "picking" /\ new # <<>>
    /\ new' = WithoutHead
    /\ ss' = [ss EXCEPT ![Head(new)] = "asleep"]
    /\ at' = [at EXCEPT ![Head(new)] = w]
    /\ UNCHANGED <<list, rr, signals, wpc, wflag, mpc, tries, told, history>>

PickedUpAll(w) ==
    /\ new = <<>>
    /\ Goto(w, "picking", "loop")
    /\ UNCHANGED <<shared, signals, wflag, mpc, tries, sessions, history>>

\* Nothing to call and nothing to pick up.
FindsNothing(w) ==
    /\ Active(w) = {} /\ new = <<>>
    /\ Goto(w, "loop", "looked")
    /\ UNCHANGED <<shared, signals, wflag, mpc, tries, sessions, history>>

\* esq_worker_notify_exit_to_all_sessions.
TellExit(w) ==
    /\ told' = told \cup Mine(w)
    /\ ss' = [s \in Sessions |-> IF s \in Mine(w) THEN "active" ELSE ss[s]]

ObeysFlag(w) ==
    /\ w \in wflag
    /\ Goto(w, "looked", "loop")
    /\ wflag' = wflag \ {w}
    /\ TellExit(w)
    /\ UNCHANGED <<shared, signals, mpc, tries, at, history>>

\* io_uring_wait_cqe: a signal that came before this point is gone.
Waits(w) ==
    /\ w \notin wflag
    /\ Goto(w, "looked", "waiting")
    /\ UNCHANGED <<shared, signals, wflag, mpc, tries, sessions, history>>

\* A completion or a timeout makes a session active.
WaitEnds(w, s) ==
    /\ s \in Mine(w)
    /\ Goto(w, "waiting", "after")
    /\ ss' = [ss EXCEPT ![s] = "active"]
    /\ missed' = missed \ {w}
    /\ UNCHANGED <<shared, signals, wflag, mpc, tries, at, told, asked, full, late>>

\* Mutant: only the worker's own lists count.
OwnWorkToDo(w) == Mine(w) # {}

\* esq_worker_still_work_to_do.
WorkToDo(w) == Mine(w) # {} \/ new # <<>>

AfterWait(w) ==
    /\ \/ /\ ~stop
          /\ Goto(w, "after", "loop")
          /\ UNCHANGED <<ss, told>>
       \/ /\ stop /\ WorkToDo(w)
          /\ Goto(w, "after", "loop")
          /\ TellExit(w)
       \/ /\ stop /\ ~WorkToDo(w)
          /\ Goto(w, "after", "leaving")
          /\ UNCHANGED <<ss, told>>
    /\ UNCHANGED <<shared, signals, wflag, mpc, tries, at, history>>

\* Mutant: the pointer of the round robin is left alone.
LeaveContextsKeepsRr(w) ==
    /\ list' = RemoveAt(list, Place(w))
    /\ rr' = rr

\* esq_worker_ctx_detach.
LeaveContexts(w) ==
    /\ list' = RemoveAt(list, Place(w))
    /\ rr' = NoWorker

Detach(w) ==
    /\ Goto(w, "leaving", "left")
    /\ LeaveContexts(w)
    /\ wflag' = wflag \ {w}
    /\ UNCHANGED <<new, signals, mpc, tries, sessions, history>>

\* What a thread does by itself.
WorkerStep(w) ==
    \/ InstallNotify(w) \/ JoinContexts(w) \/ MakeRing(w) \/ OpenWorker(w)
    \/ TellMaster(w) \/ WorkerWakes(w) \/ WakeNotified(w)
    \/ LooksForNew(w) \/ PicksUp(w) \/ PickedUpAll(w) \/ FindsNothing(w)
    \/ ObeysFlag(w) \/ Waits(w) \/ AfterWait(w) \/ Detach(w)
    \/ \E s \in Sessions : Callback(w, s)

\* What its callbacks and its peers choose.
WorkerChoice(w) ==
    \/ CommandArrives(w)
    \/ \E s \in Sessions :
          \/ Ends(w, s) \/ NotifyExitToAll(w, s) \/ StopOnPurpose(w, s)
          \/ Chat(w, s) \/ WaitEnds(w, s) \/ WorkerPosts(w, s)

-----------------------------------------------------------------------------
Init ==
    /\ list = <<>> /\ rr = NoWorker /\ new = <<>>
    /\ stop = FALSE /\ usr1 = "default"
    /\ wpc = [w \in Workers |-> "none"]
    /\ wpend = {} /\ wflag = {}
    /\ mpc = "begin" /\ mmask = FALSE /\ mpend = {}
    /\ tries = 0
    /\ ss = [s \in Sessions |-> "unborn"]
    /\ at = [s \in Sessions |-> NoWorker]
    /\ told = {}
    /\ asked = FALSE /\ full = 0 /\ late = {} /\ missed = {}

\* When main() has returned the process is gone.
Finished == ~Up /\ UNCHANGED vars

Next ==
    \/ /\ Up
       /\ \/ MasterStep
          \/ Interrupt
          \/ MasterPosts
          \/ \E w \in Workers : WorkerStep(w) \/ WorkerChoice(w)
    \/ Finished

Spec == Init /\ [][Next]_vars

\* The threads are scheduled and sleeps end; nothing is assumed of callbacks,
\* peers and completions.
FairSpec ==
    /\ Spec
    /\ WF_vars(Up /\ MasterStep)
    /\ \A w \in Workers : WF_vars(Up /\ WorkerStep(w))

-----------------------------------------------------------------------------
(* Properties. *)

\* The workers wake the master while SIGUSR1 passes through the default action
\* and through esq_set_server_stop_flag (signals.c:97): none of these signals
\* stops or kills the server, which stops only when it was asked to.
StopOnlyWhenAsked == stop => asked

\* esq_start_worker_threads counts sleeps, not seconds, and every worker cuts
\* one short: it gives up only after eight seconds per processor, unless it was
\* told to stop.
GivesUpLate == mpc = "failed" => asked \/ full >= Cpus

\* The signals of the workers only wake the master: they neither stop the
\* server nor make its start give up early.
SignalsOnlyWake == StopOnlyWhenAsked /\ GivesUpLate

\* The contexts are on the stacks of their threads: what the list and the
\* pointer of the round robin hold belongs to a thread that has not left its
\* loop, or whose ring could not be made.
ContextsAlive == \A w \in Range(list) \cup ({rr} \ {NoWorker}) :
    wpc[w] \notin {"none", "start", "handler", "left", "gone"}

\* When esq_stop_worker_threads returns, main() destroys the locks and the
\* services: no worker is left inside them, and no session is left over but
\* the ones the master itself posted after the stop.
StopLeavesNothing == mpc = "over" =>
    /\ \A w \in Workers : wpc[w] \in {"left", "gone"}
    /\ \A s \in Sessions \ late : ss[s] \in {"unborn", "over"}

\* A posted session waits for an unrelated event only when its signal was
\* missed: it reached a worker between its look at the list and its wait, or
\* one whose thread has died.
NeglectOnlyByRace ==
    /\ Up /\ ~stop /\ new # <<>> /\ mpc # "posted"
    /\ \A w \in Workers : wpc[w] \in {"waiting", "dead"}
    => missed # {}

\* A server that is stopped ends, although wake-ups are lost and callbacks
\* block, because the master repeats them every second; a worker without a
\* ring stays in the list and is waited for.
StopEnds == stop ~> (~Up \/ \E w \in Workers : wpc[w] = "dead")
=============================================================================
