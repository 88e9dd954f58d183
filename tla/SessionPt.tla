----------------------------- MODULE SessionPt -----------------------------
(***************************************************************************)
(* The session state machines of session/: the protothreads of a session   *)
(* that waits for one socket event (pt_of_socket.c) or for a stream of     *)
(* them (pt_of_multi_shot_socket.c), and the chassis (chassis.c) that      *)
(* dispatches an action to them and carries out what they ask for.         *)
(*                                                                         *)
(* A session is a record and every label of a protothread is an operator   *)
(* from a record and an action to a record.  Nothing here has a state of   *)
(* its own: EsqWorker does.                                                *)
(***************************************************************************)
EXTENDS Integers, Sequences

CONSTANTS
  Sessions,   \* addresses of sessions
  NoSession,  \* the NULL pointer
  FdEvents    \* what a poll can report: READ, WRITE, FD_CLOSE, ERROR

\* The timing lists; a session joins the one of its timeouts/timeoutms.
Class == {"none", "t0", "t100ms", "t1s", "t10s"}
Timed == Class \ {"none"}

Event == FdEvents \cup {"timeout", "exit", "task_done"}

Label == {"initial", "wait_for_cpu", "winded_up", "wait_for_removed_then_active",
          "active", "execute_cb", "wait_for_reinstall", "wait_for_removed_and_wind_up",
          "wait_for_removed", "wait_for_wind_up", "die"}

\* type: none before malloc, freed after free; fd: 1 for a descriptor that is
\* to be polled; on: the lists whose links go through this session (it has
\* one pair of prev/next, so more than one is a corrupted list); poll, cq:
\* the polls io_uring holds for this user_data, and the completions it has
\* posted that were not read yet; bundled: have_parent_session; kids, fin:
\* child_session_list, finished_child_session_list; dones: how often
\* session_done_cb was called; pop: what post_op asks of the chassis, or that
\* INVALID_ACTION_TYPE ended the process.
Session ==
  [type : {"none", "new", "single", "multi", "freed"}, lc : Label, fd : {-1, 0, 1}, tm : Class,
   bits : SUBSET Event, bits2 : SUBSET Event,
   on : SUBSET (Class \cup {"active", "new", "global_new", "corrupt"}),
   poll : {"no", "one", "multi", "two"}, cq : Seq(FdEvents \cup {"canceled"}),
   bundled : BOOLEAN, parent : Sessions \cup {NoSession},
   kids : SUBSET Sessions, fin : SUBSET Sessions, dones : Nat,
   pop : {"no", "free", "exit"}]

\* esq_session_new, before malloc returns it.
NoRecord ==
  [type |-> "none", lc |-> "initial", fd |-> 0, tm |-> "none", bits |-> {}, bits2 |-> {},
   on |-> {}, poll |-> "no", cq |-> <<>>, bundled |-> FALSE, parent |-> NoSession,
   kids |-> {}, fin |-> {}, dones |-> 0, pop |-> "no"]

\* The lists on which a session may be in each state of its protothread.
Homes(r) ==
  CASE r.type \in {"none", "new", "freed"} -> {{}}
    [] r.type \in {"single", "multi"} /\ r.lc = "wait_for_cpu" -> {{"new"}, {"global_new"}}
    [] r.type \in {"single", "multi"} /\ r.lc = "active" -> {{"active"}}
    [] r.type \in {"single", "multi"} /\ r.lc \in {"winded_up", "wait_for_removed_then_active",
         "wait_for_removed", "wait_for_removed_and_wind_up", "wait_for_wind_up"} -> {{r.tm}}
    [] OTHER -> {{}}

----------------------------------------------------------------------------
(* Lists and polls.                                                        *)

Join(r, l) == [r EXCEPT !.on = @ \cup {l}]
Leave(r, l) == [r EXCEPT !.on = IF l \in @ THEN @ \ {l} ELSE @ \cup {"corrupt"}]

JoinTiming(r) == Join(r, r.tm)
LeaveTiming(r) == Leave(r, r.tm)
\* Mutant: the timeouts are cleared before the list they select is left.
ChangeToNoTimingClearsFirst(r) ==
  IF r.tm = "none" THEN r ELSE JoinTiming(LeaveTiming([r EXCEPT !.tm = "none"]))
ChangeToNoTiming(r) ==
  IF r.tm = "none" THEN r ELSE JoinTiming([LeaveTiming(r) EXCEPT !.tm = "none"])

\* esq_os_events_add_socket_fd(_multishot): one more poll for this session.
AddPoll(r, kind) == [r EXCEPT !.poll = IF @ = "no" THEN kind ELSE "two"]

\* esq_os_events_remove_socket_fd: the kernel cancels a poll that is still
\* armed and posts ECANCELED for it.  When none is armed the removal fails;
\* its own completion carries no user data and is dropped by the worker.
RemovePoll(r) ==
  IF r.poll = "no" THEN r
  ELSE [r EXCEPT !.poll = IF @ = "two" THEN "one" ELSE "no", !.cq = Append(@, "canceled")]

----------------------------------------------------------------------------
(* Actions (esq_session_pt_action_t) and what labels have in common.       *)

Act(t) == [type |-> t]
AddFd(t, fd, tm) == [type |-> t, fd |-> fd, tm |-> tm]
NotifyEvent(bits) == [type |-> "NOTIFY_EVENT", bits |-> bits]
SetParent(p) == [type |-> "SET_PARENT", parent |-> p]
AddChild(c) == [type |-> "ADD_CHILD", child |-> c]

Goto(r, l) == [r EXCEPT !.lc = l]
AddBits(r, b) == [r EXCEPT !.bits = @ \cup b]
AddBits2(r, b) == [r EXCEPT !.bits2 = @ \cup b]
Ask(r, op) == [r EXCEPT !.pop = op]
InvalidAction(r) == Ask(r, "exit")
Wake(r) == Goto(Join(LeaveTiming(r), "active"), "active")

----------------------------------------------------------------------------
(* esq_pt_of_single_shot_socket                                            *)

SingleBegin(r, a) ==
  Goto([r EXCEPT !.type = "single", !.fd = a.fd, !.tm = a.tm, !.bits = {}], "initial")

SingleInitial(r, a) ==
  CASE a.type = "WIND_UP"    -> Goto(Join(r, "new"), "wait_for_cpu")
    [] a.type = "WIND_UP_RR" -> Goto(Join(r, "global_new"), "wait_for_cpu")
    [] a.type = "SET_PARENT" /\ ~r.bundled -> [r EXCEPT !.bundled = TRUE, !.parent = a.parent]
    [] OTHER -> InvalidAction(r)

\* esq_os_events_add_socket_fd never reports a failure, so the branch that
\* would go to active with ESQ_EVENT_BIT_ERROR is not there.
SingleInstall(r) ==
  Goto(JoinTiming(IF r.fd > 0 THEN AddPoll(r, "one") ELSE r), "winded_up")

SingleWaitForCpu(r, a) ==
  IF a.type = "PICK_UP" THEN SingleInstall(r) ELSE InvalidAction(r)

\* Mutant: the confirmation of the removal is not waited for.
SingleRemoveNoWait(r) ==
  Wake(IF r.fd > 0 THEN [RemovePoll(r) EXCEPT !.fd = 0] ELSE r)
SingleRemoveThenActive(r) ==
  IF r.fd > 0
  THEN Goto(ChangeToNoTiming([RemovePoll(r) EXCEPT !.fd = 0]), "wait_for_removed_then_active")
  ELSE Wake(r)

SingleWindedUp(r, a) ==
  CASE a.type = "NOTIFY_EVENT"   -> Wake(AddBits(r, a.bits))
    [] a.type = "NOTIFY_TIMEOUT" -> SingleRemoveThenActive(AddBits(r, {"timeout"}))
    [] a.type = "NOTIFY_EXIT"    -> SingleRemoveThenActive(AddBits(r, {"exit"}))
    [] OTHER -> InvalidAction(r)

SingleWaitForRemoved(r, a) ==
  CASE a.type = "NOTIFY_AIO_REMOVED" -> Wake(r)
    [] a.type = "NOTIFY_EXIT"        -> AddBits(r, {"exit"})
    [] OTHER -> InvalidAction(r)

\* Mutant: an event is not expected before the callback runs.
SingleActiveNoEvent(r, a) ==
  CASE a.type = "NOTIFY_EXIT" -> AddBits(r, {"exit"})
    [] a.type = "EXECUTE_CB"  -> Goto(Leave(r, "active"), "execute_cb")
    [] OTHER -> InvalidAction(r)
SingleActive(r, a) ==
  CASE a.type = "NOTIFY_EVENT" -> AddBits(r, a.bits)
    [] a.type = "NOTIFY_EXIT"  -> AddBits(r, {"exit"})
    [] a.type = "EXECUTE_CB"   -> Goto(Leave(r, "active"), "execute_cb")
    [] OTHER -> InvalidAction(r)

\* Switching to another type starts that type's protothread with the same
\* action; MultiBegin is its first segment.
MultiBegin(r, a) ==
  Goto([r EXCEPT !.type = "multi", !.fd = a.fd, !.tm = "none", !.bits = {}], "initial")

SingleExecuteCb(r, a) ==
  CASE a.type = "WIND_UP"       -> Ask(Goto(r, "die"), "free")
    [] a.type = "ADD_SOCK_FD_MULTI"  -> MultiBegin(r, a)
    [] a.type = "ADD_CHILD"     -> [r EXCEPT !.kids = @ \cup {a.child}]
    [] a.type = "ADD_SOCK_FD_SINGLE" ->
         Goto([r EXCEPT !.fd = a.fd, !.tm = a.tm], "wait_for_reinstall")
    [] a.type = "NOTIFY_EXIT"   -> AddBits(r, {"exit"})
    [] a.type = "NOTIFY_EVENT"  -> AddBits(r, a.bits)
    [] OTHER -> InvalidAction(r)

SingleWaitForReinstall(r, a) ==
  CASE a.type = "WIND_UP"      -> SingleInstall(r)
    [] a.type = "NOTIFY_EXIT"  -> AddBits(r, {"exit"})
    [] a.type = "NOTIFY_EVENT" -> AddBits(r, a.bits)
    [] OTHER -> InvalidAction(r)

PtSingle(r, a) ==
  CASE r.lc = "initial"            -> SingleInitial(r, a)
    [] r.lc = "wait_for_cpu"       -> SingleWaitForCpu(r, a)
    [] r.lc = "winded_up"          -> SingleWindedUp(r, a)
    [] r.lc = "wait_for_removed_then_active" -> SingleWaitForRemoved(r, a)
    [] r.lc = "active"             -> SingleActive(r, a)
    [] r.lc = "execute_cb"         -> SingleExecuteCb(r, a)
    [] r.lc = "wait_for_reinstall" -> SingleWaitForReinstall(r, a)
    [] OTHER -> InvalidAction(r)

----------------------------------------------------------------------------
(* esq_pt_of_multi_shot_socket                                             *)

MultiInitial(r, a) ==
  CASE a.type = "WIND_UP"    -> Goto(Join(r, "new"), "wait_for_cpu")
    [] a.type = "WIND_UP_RR" -> Goto(Join(r, "global_new"), "wait_for_cpu")
    [] OTHER -> InvalidAction(r)

MultiWaitForCpu(r, a) ==
  IF a.type = "PICK_UP"
  THEN Goto(JoinTiming(IF r.fd > 0 THEN AddPoll(r, "multi") ELSE r), "winded_up")
  ELSE InvalidAction(r)

\* Mutant: an event does not wake the session.
MultiWindedUpSleepsOn(r, a) ==
  CASE a.type = "NOTIFY_EVENT" -> AddBits(r, a.bits)
    [] a.type = "NOTIFY_EXIT"  -> Wake(AddBits(r, {"exit"}))
    [] OTHER -> InvalidAction(r)
MultiWindedUp(r, a) ==
  CASE a.type = "NOTIFY_EVENT" -> Wake(AddBits(r, a.bits))
    [] a.type = "NOTIFY_EXIT"  -> Wake(AddBits(r, {"exit"}))
    [] OTHER -> InvalidAction(r)

MultiActive(r, a) ==
  CASE a.type = "NOTIFY_EVENT" -> AddBits(r, a.bits)
    [] a.type = "NOTIFY_EXIT"  -> AddBits(r, {"exit"})
    [] a.type = "EXECUTE_CB"   ->
         Goto([Leave(r, "active") EXCEPT !.bits2 = {}], "execute_cb")
    [] OTHER -> InvalidAction(r)

MultiRemoveFd(r) ==
  IF r.fd > 0
  THEN Goto(JoinTiming([RemovePoll(r) EXCEPT !.fd = 0]), "wait_for_removed_and_wind_up")
  ELSE [r EXCEPT !.fd = 0]

\* After its callback a session sleeps again, unless events came in meanwhile;
\* it ends once its descriptor is gone.
MultiWindUp(r) ==
  CASE r.fd = 0 -> Ask(r, "free")
    [] r.fd # 0 /\ r.bits2 # {} -> Goto(Join([r EXCEPT !.bits = r.bits2], "active"), "active")
    [] r.fd # 0 /\ r.bits2 = {} -> Goto(JoinTiming(r), "winded_up")

MultiExecuteCb(r, a) ==
  CASE a.type = "WIND_UP"      -> MultiWindUp(r)
    [] a.type = "REMOVE_FD"    -> MultiRemoveFd(r)
    [] a.type = "NOTIFY_EVENT" -> AddBits2(r, a.bits)
    [] a.type = "NOTIFY_EXIT"  -> AddBits2(r, {"exit"})
    [] OTHER -> InvalidAction(r)

MultiWaitForRemovedAndWindUp(r, a) ==
  CASE a.type = "NOTIFY_AIO_REMOVED" -> Goto(r, "wait_for_wind_up")
    [] a.type = "WIND_UP"            -> Goto(r, "wait_for_removed")
    [] OTHER -> InvalidAction(r)

MultiWaitForRemoved(r, a) ==
  CASE a.type = "NOTIFY_AIO_REMOVED" -> Ask(Goto(LeaveTiming(r), "die"), "free")
    [] a.type = "NOTIFY_EXIT"        -> r
    [] OTHER -> InvalidAction(r)

MultiWaitForWindUp(r, a) ==
  CASE a.type = "WIND_UP"     -> Ask(Goto(LeaveTiming(r), "die"), "free")
    [] a.type = "NOTIFY_EXIT" -> r
    [] OTHER -> InvalidAction(r)

PtMulti(r, a) ==
  CASE r.lc = "initial"          -> MultiInitial(r, a)
    [] r.lc = "wait_for_cpu"     -> MultiWaitForCpu(r, a)
    [] r.lc = "winded_up"        -> MultiWindedUp(r, a)
    [] r.lc = "active"           -> MultiActive(r, a)
    [] r.lc = "execute_cb"       -> MultiExecuteCb(r, a)
    [] r.lc = "wait_for_removed_and_wind_up" -> MultiWaitForRemovedAndWindUp(r, a)
    [] r.lc = "wait_for_removed" -> MultiWaitForRemoved(r, a)
    [] r.lc = "wait_for_wind_up" -> MultiWaitForWindUp(r, a)
    [] OTHER -> InvalidAction(r)

----------------------------------------------------------------------------
(* The chassis                                                             *)

\* esq_pt_of_no_fd: a session that has just been allocated.
PtNoFd(r, a) ==
  CASE a.type = "WIND_UP"            -> Ask(r, "free")
    [] a.type = "ADD_SOCK_FD_MULTI"  -> MultiBegin(r, a)
    [] a.type = "ADD_SOCK_FD_SINGLE" -> SingleBegin(r, a)
    [] OTHER -> InvalidAction(r)

Dispatch(r, a) ==
  CASE r.type = "new"    -> PtNoFd(r, a)
    [] r.type = "single" -> PtSingle(r, a)
    [] r.type = "multi"  -> PtMulti(r, a)
    [] OTHER -> r   \* ESQ_CHECK_SESSION: not a session (any more)

Freed(r) == [NoRecord EXCEPT !.type = "freed", !.bundled = r.bundled, !.poll = r.poll,
                             !.cq = r.cq, !.dones = r.dones]
FreedAfterDoneCb(r) == Freed([r EXCEPT !.dones = @ + 1])

\* esq_unhook_child_session: children that still run lose their parent, the
\* finished ones are done with.
Childless(r) == [r EXCEPT !.kids = {}, !.fin = {}, !.pop = "no"]
\* Mutant: the pointer to the parent is kept.
OrphanedKeepsParent(r) == r
Orphaned(r) == [r EXCEPT !.parent = NoSession]
Unhook(ss, s) ==
  [x \in DOMAIN ss |->
     IF x = s THEN Childless(ss[s])
     ELSE IF x \in ss[s].kids THEN Orphaned(ss[x])
     ELSE IF x \in ss[s].fin THEN FreedAfterDoneCb(ss[x])
     ELSE ss[x]]

\* esq_move_child_session_into_finish_list
\* Mutant: the child is dropped and NULL is linked.
FinishLinksNull(r, child) == [r EXCEPT !.kids = @ \ {child}, !.fin = @ \cup {NoSession}]
Finish(r, child) == [r EXCEPT !.kids = @ \ {child}, !.fin = @ \cup {child}]

\* POP_FREE_SESSION: a child whose parent is still there waits on the parent's
\* finished list, and the parent is told.
Free(ss, s) ==
  LET u == Unhook(ss, s)  p == ss[s].parent IN
  CASE ~ss[s].bundled -> [u EXCEPT ![s] = Freed(@)]
    [] ss[s].bundled /\ p = NoSession -> [u EXCEPT ![s] = FreedAfterDoneCb(@)]
    [] ss[s].bundled /\ p # NoSession ->
         [u EXCEPT ![p] = Dispatch(Finish(@, s), NotifyEvent({"task_done"}))]

\* __esq_session_take_action
TakeAction(ss, s, a) ==
  LET r == Dispatch(ss[s], a)  next == [ss EXCEPT ![s] = r] IN
  IF r.pop = "free" THEN Free(next, s) ELSE next
=============================================================================
