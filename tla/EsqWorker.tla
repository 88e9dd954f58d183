----------------------------- MODULE EsqWorker -----------------------------
(***************************************************************************)
(* One worker thread of esq (session/worker.c, timing.c, os_events.c) with *)
(* the sessions it runs, the callbacks of those sessions, the kernel that  *)
(* posts completions to its io_uring, and the main thread that starts      *)
(* sessions and stops the server.                                          *)
(*                                                                         *)
(* Time is abstract: whenever the worker looks at its timed lists, any of  *)
(* the sessions on them may have expired.  The lists are sets of sessions; *)
(* that they are FIFO queues only shows in the fairness of Spec.           *)
(***************************************************************************)
EXTENDS SessionPt, FiniteSets

CONSTANTS
  Fds,         \* descriptors callbacks ask to wait for: 1 polled, 0 and -1 not
  ParentFds,   \* the same, for a session that has children
  TimeClasses, \* the timeouts sessions ask for
  MaxCq,       \* bound: completions of one session waiting to be read
  Obedient     \* whether callbacks that see EXIT wind their session up

ASSUME WorkerAssumption ==
  /\ NoSession \notin Sessions
  /\ IsFiniteSet(Sessions)
  /\ Fds \subseteq {-1, 0, 1} /\ ParentFds \subseteq Fds
  /\ TimeClasses \subseteq Class
  /\ MaxCq \in Nat /\ Obedient \in BOOLEAN
  /\ FdEvents \cap {"timeout", "exit", "task_done", "canceled"} = {}

VARIABLES
  ss,          \* the sessions
  wpc,         \* where the worker is in esq_worker_loop
  cur,         \* the session whose callback is running
  interval,    \* esq_os_event_wait_max, as the class it was computed from
  stopSession, \* esq_worker_stop_session_flag
  stopFlag,    \* the server stop flag
  why,         \* type and state of the session that INVALID_ACTION_TYPE found
  owed         \* events given to a session since its callback last started
               \* (not a variable of the program)

vars == <<ss, wpc, cur, interval, stopSession, stopFlag, why, owed>>

Init ==
  /\ ss = [s \in Sessions |-> NoRecord]
  /\ wpc = "loop"
  /\ cur = NoSession
  /\ interval = "none"
  /\ stopSession = FALSE
  /\ stopFlag = FALSE
  /\ why = <<>>
  /\ owed = [s \in Sessions |-> {}]

----------------------------------------------------------------------------
OnList(l) == {s \in Sessions : l \in ss[s].on}
Allocated(s) == ss[s].type \in {"new", "single", "multi"}

\* Milliseconds the worker waits at most while a list is not empty; -1 is "no
\* limit".
WaitMax == [t0 |-> 5, t100ms |-> 50, t1s |-> 500, t10s |-> 5000, none |-> -1]

\* esq_session_update_polling_interval: the first of the timed lists, from the
\* shortest timeouts to the longest, that has a session.
Shortest(sessions) ==
  LET busy == {c \in Timed : \E s \in DOMAIN sessions : c \in sessions[s].on} IN
  IF busy = {} THEN "none"
  ELSE CHOOSE c \in busy : \A d \in busy : WaitMax[c] <= WaitMax[d]

\* A step that makes sessions take an action: the process ends when a
\* protothread finds the action invalid in its state.
Becomes(new, nextPc) ==
  IF \E s \in Sessions : new[s].pop = "exit"
  THEN /\ wpc' = "halted"
       /\ why' = LET s == CHOOSE x \in Sessions : new[x].pop = "exit"
                 IN  <<ss[s].type, ss[s].lc>>
       /\ ss' = ss
  ELSE /\ ss' = new
       /\ wpc' = nextPc
       /\ why' = why

\* What sessions are owed once those of whom were given event e.
Owe(new, whom, e) ==
  [s \in Sessions |->
     IF new[s].type = "freed" \/ new[s].lc = "die" THEN {}
     ELSE IF s \in whom THEN owed[s] \cup {e} ELSE owed[s]]

\* The parents whose finished list a step has made longer.
Parents(new) == {p \in Sessions : ~(new[p].fin \subseteq ss[p].fin)}

----------------------------------------------------------------------------
(* Sessions are started by the main thread and by callbacks.               *)

\* esq_session_new, esq_session_set_socket_fd(_multi): the new session is not
\* known to anybody else before it is wound up.
Malloced(r) == [r EXCEPT !.type = "new"]
Started(s, a) == TakeAction([ss EXCEPT ![s] = Malloced(@)], s, a)

NewAction(kind, fd, tm) ==
  AddFd(IF kind = "single" THEN "ADD_SOCK_FD_SINGLE" ELSE "ADD_SOCK_FD_MULTI", fd, tm)

Running == wpc \notin {"exited", "halted"} /\ ~stopFlag

\* ... esq_session_wind_up_rr, by any thread.
StartRR(s, kind, fd, tm) ==
  /\ Running
  /\ ss[s].type = "none"
  /\ ss' = TakeAction(Started(s, NewAction(kind, fd, tm)), s, Act("WIND_UP_RR"))
  /\ UNCHANGED <<wpc, cur, interval, stopSession, stopFlag, why, owed>>

\* Callbacks make their calls while the worker executes their session.  They
\* know in which state it is, and make only calls it takes.
InCallback(types, labels) ==
  /\ wpc = "cb"
  /\ ss[cur].type \in types
  /\ ss[cur].lc \in labels

GoesOn == ~(Obedient /\ "exit" \in ss[cur].bits)

\* ... esq_session_wind_up, in a callback.
StartLocal(s, kind, fd, tm) ==
  /\ InCallback({"single", "multi"}, Label)
  /\ GoesOn
  /\ ss[s].type = "none"
  /\ ss' = TakeAction(Started(s, NewAction(kind, fd, tm)), s, Act("WIND_UP"))
  /\ UNCHANGED <<wpc, cur, interval, stopSession, stopFlag, why, owed>>

\* ... esq_session_bundle_child, esq_session_wind_up, in the parent's callback.
StartChild(s, fd, tm) ==
  LET new    == Started(s, NewAction("single", fd, tm))
      bound  == TakeAction(new, s, SetParent(cur))
      linked == TakeAction(bound, cur, AddChild(s)) IN
  /\ InCallback({"single"}, {"execute_cb"})
  /\ GoesOn
  /\ ss[s].type = "none"
  /\ ss' = TakeAction(linked, s, Act("WIND_UP"))
  /\ UNCHANGED <<wpc, cur, interval, stopSession, stopFlag, why, owed>>

\* esq_session_set_socket_fd: wait once more.
WaitAgain(fd, tm) ==
  /\ InCallback({"single"}, {"execute_cb"})
  /\ GoesOn
  /\ ss[cur].kids \cup ss[cur].fin # {} => fd \in ParentFds
  /\ ss' = TakeAction(ss, cur, AddFd("ADD_SOCK_FD_SINGLE", fd, tm))
  /\ UNCHANGED <<wpc, cur, interval, stopSession, stopFlag, why, owed>>

\* esq_session_set_socket_fd_multi: become a multi shot session.
BecomeMulti(fd) ==
  /\ InCallback({"single"}, {"execute_cb"})
  /\ GoesOn
  /\ ss[cur].kids \cup ss[cur].fin # {} => fd \in ParentFds
  /\ ss' = TakeAction(ss, cur, AddFd("ADD_SOCK_FD_MULTI", fd, "none"))
  /\ UNCHANGED <<wpc, cur, interval, stopSession, stopFlag, why, owed>>

\* esq_session_remove_req
RemoveReq ==
  /\ InCallback({"multi"}, {"execute_cb"})
  /\ ss[cur].fd # 0
  /\ ss' = TakeAction(ss, cur, Act("REMOVE_FD"))
  /\ UNCHANGED <<wpc, cur, interval, stopSession, stopFlag, why, owed>>

\* esq_execute_session_done_cb
NoneFinished(r) == [r EXCEPT !.fin = {}]
DoneCbs ==
  /\ wpc = "cb"
  /\ ss[cur].fin # {}
  /\ ss' = [s \in Sessions |->
              IF s = cur THEN NoneFinished(ss[s])
              ELSE IF s \in ss[cur].fin THEN FreedAfterDoneCb(ss[s]) ELSE ss[s]]
  /\ UNCHANGED <<wpc, cur, interval, stopSession, stopFlag, why, owed>>

\* The callback returns and esq_worker_execute_session winds the session up;
\* installing a single shot poll updates the polling interval.
Return ==
  LET new == TakeAction(ss, cur, Act("WIND_UP")) IN
  /\ wpc = "cb"
  /\ Obedient /\ "exit" \in ss[cur].bits /\ ss[cur].type = "multi" => ss[cur].fd = 0
  /\ Becomes(new, "loop")
  /\ interval' = IF ss[cur].type = "single" /\ ss[cur].lc = "wait_for_reinstall"
                 THEN Shortest(new) ELSE interval
  /\ cur' = NoSession
  /\ owed' = Owe(new, Parents(new), "task_done")
  /\ UNCHANGED <<stopSession, stopFlag>>

----------------------------------------------------------------------------
(* esq_worker_loop: each turn does the first of these things there is.     *)

\* esq_session_pop_the_first_active, esq_worker_execute_session
Execute(s) ==
  LET new == TakeAction(ss, s, Act("EXECUTE_CB")) IN
  /\ wpc = "loop"
  /\ "active" \in ss[s].on
  /\ Becomes(new, "cb")
  /\ cur' = s
  /\ owed' = [owed EXCEPT ![s] = {}]
  /\ UNCHANGED <<interval, stopSession, stopFlag>>

\* esq_worker_pick_up_from_global_list takes all of them.
PickUpGlobal ==
  LET new == [s \in Sessions |->
                IF s \in OnList("global_new")
                THEN Dispatch(Leave(ss[s], "global_new"), Act("PICK_UP")) ELSE ss[s]] IN
  /\ wpc = "loop"
  /\ OnList("active") = {} /\ OnList("global_new") # {}
  /\ Becomes(new, "loop")
  /\ interval' = IF \E s \in OnList("global_new") : ss[s].type = "single"
                 THEN Shortest(new) ELSE interval
  /\ UNCHANGED <<cur, stopSession, stopFlag, owed>>

\* esq_worker_pick_up_from_local_list takes one.
PickUpLocal(s) ==
  LET new == [ss EXCEPT ![s] = Dispatch(Leave(@, "new"), Act("PICK_UP"))] IN
  /\ wpc = "loop"
  /\ OnList("active") = {} /\ OnList("global_new") = {}
  /\ "new" \in ss[s].on
  /\ Becomes(new, "loop")
  /\ interval' = IF ss[s].type = "single" THEN Shortest(new) ELSE interval
  /\ UNCHANGED <<cur, stopSession, stopFlag, owed>>

\* esq_worker_notify_exit_to_all_sessions.  A session that moves from a timed
\* list to the list without timeouts is met twice; the second notice adds the
\* same bit.
\* Mutant: only the active list is walked.
ListedActive == {s \in Sessions : "active" \in ss[s].on}
Listed == {s \in Sessions : ss[s].on \cap (Class \cup {"active"}) # {}}
Notified ==
  [s \in Sessions |-> IF s \in Listed THEN Dispatch(ss[s], Act("NOTIFY_EXIT")) ELSE ss[s]]

NothingToRun == \A l \in {"active", "global_new", "new"} : OnList(l) = {}

StopSessions ==
  /\ wpc = "loop" /\ NothingToRun
  /\ stopSession
  /\ stopSession' = FALSE
  /\ Becomes(Notified, "loop")
  /\ owed' = Owe(Notified, Listed, "exit")
  /\ UNCHANGED <<cur, interval, stopFlag>>

Waiting == wpc = "loop" /\ NothingToRun /\ ~stopSession

\* esq_worker_receive_fd_event: the next completion of session s.
Seen(r) == [r EXCEPT !.cq = Tail(@)]
Receive(s) ==
  LET what == Head(ss[s].cq)
      act  == IF what = "canceled" THEN Act("NOTIFY_AIO_REMOVED") ELSE NotifyEvent({what})
      new  == TakeAction([ss EXCEPT ![s] = Seen(@)], s, act) IN
  /\ Waiting
  /\ ss[s].cq # <<>>
  /\ Becomes(new, "check")
  /\ interval' = Shortest(new)
  /\ owed' = IF what = "canceled" THEN Owe(new, Parents(new), "task_done")
             ELSE Owe(new, {s}, what)
  /\ UNCHANGED <<cur, stopSession, stopFlag>>

NoCompletion == \A s \in Sessions : ss[s].cq = <<>>

\* The wait ends with EINTR.
Interrupted ==
  /\ Waiting /\ NoCompletion
  /\ wpc' = "check"
  /\ UNCHANGED <<ss, cur, interval, stopSession, stopFlag, why, owed>>

\* The wait ends with ETIME; completions may be posted before the worker looks
\* at its timed lists.
WaitTimedOut ==
  /\ Waiting /\ NoCompletion
  /\ interval # "none"
  /\ wpc' = "timing"
  /\ UNCHANGED <<ss, cur, interval, stopSession, stopFlag, why, owed>>

\* esq_session_timing: the sessions of late have passed their deadlines.
Timing(late) ==
  LET new == [s \in Sessions |-> IF s \in late THEN Dispatch(ss[s], Act("NOTIFY_TIMEOUT"))
                                 ELSE ss[s]] IN
  /\ wpc = "timing"
  /\ \A s \in late : ss[s].on \cap Timed # {}
  /\ Becomes(new, "check")
  /\ interval' = Shortest(new)
  /\ owed' = Owe(new, late, "timeout")
  /\ UNCHANGED <<cur, stopSession, stopFlag>>

\* esq_worker_still_work_to_do
\* Mutant: the list without timeouts is forgotten.
TimedWorkToDo == \E l \in Timed \cup {"active", "global_new"} : OnList(l) # {}
WorkToDo == \E l \in Class \cup {"active", "global_new"} : OnList(l) # {}

\* The end of a turn in which the worker has waited.
Check ==
  /\ wpc = "check"
  /\ \/ ~stopFlag /\ wpc' = "loop" /\ UNCHANGED <<ss, why, owed>>
     \/ stopFlag /\ ~WorkToDo /\ wpc' = "exited" /\ UNCHANGED <<ss, why, owed>>
     \/ /\ stopFlag /\ WorkToDo
        /\ Becomes(Notified, "loop")
        /\ owed' = Owe(Notified, Listed, "exit")
  /\ UNCHANGED <<cur, interval, stopSession, stopFlag>>

----------------------------------------------------------------------------
(* The kernel and the main thread                                          *)

\* A poll of session s reports event e; a multi shot poll stays armed.
Fired(r, e) ==
  [r EXCEPT !.cq = Append(@, e), !.poll = IF @ = "two" THEN "one" ELSE IF @ = "one" THEN "no" ELSE @]
Fire(s, e) ==
  /\ wpc \notin {"exited", "halted"}
  /\ ss[s].poll # "no"
  /\ Len(ss[s].cq) < MaxCq
  /\ ss' = [ss EXCEPT ![s] = Fired(@, e)]
  /\ UNCHANGED <<wpc, cur, interval, stopSession, stopFlag, why, owed>>

\* esq_session_notify_exit_to_all_sessions, called a number of times before the
\* server is stopped.
RequestSessionsExit ==
  /\ Running /\ ~stopSession
  /\ stopSession' = TRUE
  /\ UNCHANGED <<ss, wpc, cur, interval, stopFlag, why, owed>>

\* esq_stop_server_on_purpose, or a signal that stops the server.
StopServer ==
  /\ ~stopFlag
  /\ stopFlag' = TRUE
  /\ UNCHANGED <<ss, wpc, cur, interval, stopSession, why, owed>>

Callback ==
  \/ \E s \in Sessions, kind \in {"single", "multi"}, fd \in Fds, tm \in TimeClasses :
       StartLocal(s, kind, fd, tm)
  \/ \E s \in Sessions, fd \in Fds, tm \in TimeClasses : StartChild(s, fd, tm)
  \/ \E fd \in Fds, tm \in TimeClasses : WaitAgain(fd, tm)
  \/ \E fd \in Fds : BecomeMulti(fd)
  \/ RemoveReq \/ DoneCbs

Loop ==
  \/ \E s \in Sessions : Execute(s) \/ PickUpLocal(s) \/ Receive(s)
  \/ PickUpGlobal \/ StopSessions
  \/ \E late \in SUBSET Sessions : Timing(late)
  \/ Check

Next ==
  \/ \E s \in Sessions, kind \in {"single", "multi"}, fd \in Fds, tm \in TimeClasses :
       StartRR(s, kind, fd, tm)
  \/ Callback \/ Return \/ Loop \/ Interrupted \/ WaitTimedOut
  \/ \E s \in Sessions, e \in FdEvents : Fire(s, e)
  \/ RequestSessionsExit \/ StopServer

\* The worker thread runs, callbacks return (a multi shot session that has to
\* go asks for the removal of its descriptor first), and a stopping main
\* thread keeps poking its workers until they are gone.  The active list is
\* first in, first out, so a session on it is not overtaken for ever; so is
\* the completion queue.
Fairness ==
  /\ WF_vars(Loop)
  /\ \A s \in Sessions : SF_vars(Execute(s)) /\ SF_vars(Receive(s))
  /\ WF_vars(Return)
  /\ WF_vars(RemoveReq /\ "exit" \in ss[cur].bits)
  /\ WF_vars(Interrupted /\ stopFlag)

Spec == Init /\ [][Next]_vars
FairSpec == Spec /\ Fairness

----------------------------------------------------------------------------
(* Properties                                                              *)

\* The variables have their types (struct _esq_session_t and the locals of
\* esq_worker_loop).
TypeOK ==
  /\ ss \in [Sessions -> Session]
  /\ wpc \in {"loop", "cb", "timing", "check", "exited", "halted"}
  /\ cur \in Sessions \cup {NoSession}
  /\ (wpc = "cb") => (cur \in Sessions)
  /\ interval \in Class
  /\ stopSession \in BOOLEAN /\ stopFlag \in BOOLEAN
  /\ owed \in [Sessions -> SUBSET Event]

\* A session has one pair of links for eight lists.  It is on the list its
\* state says, and on no other: no list is ever entered with links that
\* are in use, and no list is left that the session is not on.
ListMatchesState == \A s \in Sessions : ss[s].on \in Homes(ss[s])

\* io_uring holds a session's address as user_data.  When the session is
\* freed, no poll is armed for it and no completion is waiting to be read.
NoDanglingPoll ==
  \A s \in Sessions : ss[s].type = "freed" => ss[s].poll = "no" /\ ss[s].cq = <<>>

\* A session that waits for its descriptor has exactly the poll it asked for,
\* or the completion of it, to be woken by: it cannot sleep for ever with a
\* descriptor nobody watches, nor be polled twice.
SleeperIsWatched ==
  \A s \in Sessions :
    /\ ss[s].poll # "two"
    /\ ss[s].lc = "winded_up" /\ ss[s].fd > 0 =>
         CASE ss[s].type = "single" -> ss[s].poll = "one" \/ ss[s].cq # <<>>
           [] ss[s].type = "multi"  -> ss[s].poll = "multi"

\* When the worker waits for completions, it does so no longer than the
\* shortest non-empty timed list allows (esq_os_event_wait_max is a cached
\* value, brought up to date at some of the places that change the lists).
TimersArePolled ==
  Waiting => \A c \in Timed :
    OnList(c) # {} => interval # "none" /\ WaitMax[interval] <= WaitMax[c]

\* A finished child takes no further part: it is on no list and nothing of the
\* kernel refers to it, so that its parent may free it at any time.
FinishedIsQuiet ==
  \A s \in Sessions : \A c \in ss[s].fin :
    ss[c].on = {} /\ ss[c].poll = "no" /\ ss[c].cq = <<>>

\* Sessions, kernel and timers fit together: whatever a session waits for will
\* wake it, and nothing of the kernel refers to a session that is freed or done
\* (pt_of_socket.c, pt_of_multi_shot_socket.c, os_events.c, worker.c:759).
PollsFitSessions == NoDanglingPoll /\ SleeperIsWatched /\ TimersArePolled /\ FinishedIsQuiet

\* Parent and children agree about each other while both exist, a child is on
\* one of its parent's two lists, and the done callback of a bundled session
\* is called once, when the session is freed, and never for another one.
Families ==
  \A s \in Sessions :
    /\ \A c \in ss[s].kids \cup ss[s].fin : Allocated(c) /\ ss[c].bundled /\ ss[c].parent = s
    /\ ss[s].parent # NoSession =>
         LET p == ss[s].parent IN
         Allocated(p) /\ ((s \in ss[p].kids) # (s \in ss[p].fin))
    /\ ss[s].dones = IF ss[s].type = "freed" /\ ss[s].bundled THEN 1 ELSE 0

\* A worker that has left its loop has freed every session it had.
ExitLeavesNothing ==
  wpc = "exited" => \A s \in Sessions : ~Allocated(s)

\* INVALID_ACTION_TYPE ends the process in two races only.  A session has asked
\* for the removal of its poll after the poll had fired, and the event arrives
\* where only the confirmation of the removal is expected; or a parent that has
\* become multi shot is told of a child that is done before it is picked up.
InvalidOnlyByRace ==
  why \in {<<>>, <<"single", "wait_for_removed_then_active">>, <<"multi", "wait_for_removed">>,
           <<"multi", "wait_for_cpu">>}

\* Once the server is told to stop the worker leaves its loop, however many
\* sessions wait and whatever they wait for, if callbacks that see EXIT wind
\* their sessions up.
StopsEventually == stopFlag ~> wpc \in {"exited", "halted"}

\* Whatever a session was notified of reaches its callback, or it is freed.
EventsReachCallback ==
  \A s \in Sessions : owed[s] # {} ~> (owed[s] = {} \/ wpc = "halted")
=============================================================================
